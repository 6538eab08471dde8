---------------------------- MODULE SeatsProofs ----------------------------
(***************************************************************************)
(* What Seats guarantees: of the assignment for any sources, desks,        *)
(* mirrors and cap, of the alignment for any finite number of desks and    *)
(* any places.                                                             *)
(***************************************************************************)
EXTENDS Seats, FiniteSetTheorems, WellFoundedInduction, TLAPS

-----------------------------------------------------------------------------
(* Assignment: the inductive invariant *)

\* The loop index never passes the end by more than one, and a source that does
\* not take part is met with the inner index reset.
IndexOK ==
    /\ i <= Len(sources) + 1
    /\ More /\ ~Participates(i) => j = 1

\* Seats are taken only from rows the loops have passed.
SeatsPassed == \A q \in result : Before(q)

\* deskOwner names, for exactly the desks with an occupant, their source.
OwnersRight ==
    /\ \A q \in result : /\ Key(q) \in DOMAIN deskOwner
                         /\ deskOwner[Key(q)] = sources[q[1]].ref
    /\ \A k \in DOMAIN deskOwner : \E q \in result : Key(q) = k

\* placed and placedThis split the people with a seat at the current source.
PeopleRight ==
    /\ placed = {Who(s) : s \in {r \in result : r[1] < i}}
    /\ placedThis = {Who(s) : s \in {r \in result : r[1] = i}}

\* The first half of DecidedRight.
RowsRight == \A q \in Positions : Before(q) => (q \in result <=> Wins(q))

IInv ==
    /\ TypeOK /\ IndexOK /\ SeatsPassed /\ OwnersRight /\ PeopleRight
    /\ RowsRight /\ IsFiniteSet(result) /\ AtMostMaxShared

-----------------------------------------------------------------------------
(* Assignment: lemmas *)

\* The inputs of one run of assignMap do not change, nor does what is read off
\* them alone.
LEMMA InputsStable ==
    ASSUME UNCHANGED inputs
    PROVE  /\ Positions' = Positions
           /\ \A q : Key(q)' = Key(q) /\ Who(q)' = Who(q) /\ (OnMap(q)' <=> OnMap(q))
           /\ \A s : (Participates(s)' <=> Participates(s))
BY DEF inputs, Positions, Rows, Key, Who, Row, OnMap, Participates

\* The type of a position and of what is read at it.
LEMMA PositionTypes ==
    ASSUME TypeOK, NEW q \in Positions
    PROVE  /\ q[1] \in 1..Len(sources) /\ q[2] \in Nat \ {0} /\ q = <<q[1], q[2]>>
           /\ q[2] \in Rows(q[1])
           /\ sources[q[1]] \in Source /\ Row(q) \in Placement /\ Who(q) \in Persons
<1> USE InputsAssumption
<1>1. /\ sources \in Seq(Source) /\ mirror \in [Refs -> Seq(Placement)]
  BY DEF TypeOK
<1>2. PICK s \in DOMAIN sources : q \in {s} \X Rows(s)
  BY DEF Positions
<1>3. q = <<s, q[2]>> /\ q[1] = s /\ q[2] \in Rows(s)
  BY <1>2
<1>4. s \in 1..Len(sources) /\ sources[s] \in Source
  BY <1>1
<1>5. mirror[sources[s].ref] \in Seq(Placement)
  BY <1>1, <1>4 DEF Source
<1>6. q[2] \in 1..Len(mirror[sources[s].ref])
  BY <1>3, <1>5 DEF Rows
<1>7. Row(q) \in Placement
  BY <1>3, <1>5, <1>6 DEF Row
<1>8. Who(q) \in Persons
  BY <1>7 DEF Who, Placement
<1> QED
  BY <1>3, <1>4, <1>6, <1>7, <1>8

\* deskByNum finds a desk of the map wherever one has the number.
LEMMA DeskFound ==
    ASSUME NEW ds \in Seq(Desk), NEW n, DesksNumbered(ds, n) # {}
    PROVE  DeskByNum(ds, n) \in Desk
<1> DEFINE S == DesksNumbered(ds, n)
           I == 1..Len(ds)
           After(k) == (k + 1)..Len(ds)
           T == {After(k) : k \in S}
<1>1. S \subseteq I /\ Len(ds) \in Nat
  BY DEF DesksNumbered
<1>2. \A k \in S : After(k) \in SUBSET I /\ IsFiniteSet(After(k))
  <2> TAKE k \in S
  <2>1. k \in 1..Len(ds) /\ k + 1 \in Int /\ Len(ds) \in Int
    BY <1>1
  <2>2. IsFiniteSet(After(k))
    BY <2>1, FS_Interval
  <2>3. After(k) \subseteq I
    BY <2>1
  <2> QED
    BY <2>2, <2>3
<1>3. T \subseteq FiniteSubsetsOf(I) /\ T # {}
  BY <1>2 DEF FiniteSubsetsOf
<1> HIDE DEF I
<1>4. PICK X \in T : \A Y \in T : ~(<<Y, X>> \in StrictSubsetOrdering(I))
  <2> HIDE DEF T
  <2> QED
    BY <1>3, FS_StrictSubsetOrderingWellFounded, WFMin
<1> USE DEF I
<1>5. PICK m \in S : X = After(m)
  BY <1>4
<1>6. \A l \in S : l <= m
  <2> SUFFICES ASSUME NEW l \in S, l > m PROVE FALSE
    BY <1>1
  <2>1. After(l) \subseteq After(m) /\ After(l) # After(m)
    <3>1. l \in After(m) /\ l \notin After(l)
      BY <1>1
    <3> QED
      BY <3>1, <1>1
  <2>2. <<After(l), After(m)>> \in StrictSubsetOrdering(I)
    BY <2>1, <1>2 DEF StrictSubsetOrdering
  <2> QED
    BY <2>2, <1>4, <1>5
<1>7. (CHOOSE c \in S : \A l \in S : l <= c) \in S
  BY <1>6
<1> QED
  BY <1>7, <1>1 DEF DeskByNum

\* A row that can be placed names a desk of the map, whose key it carries.
LEMMA KeyType ==
    ASSUME TypeOK, NEW q \in Positions, OnMap(q)
    PROVE  Key(q) \in Keys
<1>1. desks \in Seq(Desk)
  BY InputsAssumption DEF TypeOK
<1>2. DeskByNum(desks, Row(q).office) \in Desk
  BY <1>1, DeskFound DEF OnMap
<1> QED
  BY <1>2 DEF Key, RawKey, Keys, Desk

\* Where the entry the loop is at may sit, everybody already there came from the
\* same source.
LEMMA SameSourceAtKey ==
    ASSUME IInv, More, ~OwnedByOther, NEW s \in result, Key(s) = Key(Here)
    PROVE  s[1] = i /\ s[2] < j
<1>1. sources \in Seq(Source) /\ Distinct(sources)
  BY InputsAssumption DEF IInv, TypeOK
<1>2. s \in Positions
  BY DEF IInv, TypeOK
<1>3. s[1] \in 1..Len(sources) /\ i \in 1..Len(sources) /\ DOMAIN sources = 1..Len(sources)
  BY <1>1, <1>2, PositionTypes DEF IInv, TypeOK, More
<1>4. sources[s[1]].ref = sources[i].ref
  BY DEF IInv, OwnersRight, OwnedByOther
<1>5. s[1] = i
  BY <1>1, <1>3, <1>4 DEF Distinct
<1> QED
  BY <1>5, <1>3 DEF IInv, SeatsPassed, Before

\* What a row the loop has reached is like before it is decided.
LEMMA HereFacts ==
    ASSUME IInv, Occupant
    PROVE  /\ Here \in Positions /\ Here \notin result
           /\ Here[1] = i /\ Here[2] = j
           /\ i \in 1..Len(sources) /\ j \in Nat \ {0}
<1>1. sources \in Seq(Source) /\ i \in Nat \ {0} /\ j \in Nat \ {0}
  BY InputsAssumption DEF IInv, TypeOK
<1>2. i \in 1..Len(sources) /\ DOMAIN sources = 1..Len(sources)
  BY <1>1 DEF Occupant, More
<1>3. Here[1] = i /\ Here[2] = j
  BY DEF Here
<1>4. Here \in {i} \X Rows(i)
  BY DEF Occupant, Here
<1>5. Here \in Positions
  BY <1>2, <1>4 DEF Positions
<1>6. ~Before(Here)
  BY <1>1, <1>3 DEF Before
<1> QED
  BY <1>1, <1>2, <1>3, <1>5, <1>6 DEF IInv, SeatsPassed

\* While no seat is added, what Wins says of a row stays.
LEMMA WinsStable ==
    ASSUME UNCHANGED <<inputs, result>>, NEW q
    PROVE  Wins(q)' <=> Wins(q)
<1>1. sources' = sources /\ result' = result
  BY DEF inputs
<1>2. {s \in result' : Key(s)' = Key(q)' /\ s[1] = q[1] /\ s[2] < q[2]}
        = {s \in result : Key(s) = Key(q) /\ s[1] = q[1] /\ s[2] < q[2]}
  BY <1>1, InputsStable
<1>3. \A s : SamePerson(Who(s), Who(q))' <=> SamePerson(Who(s), Who(q))
  BY InputsStable DEF SamePerson
<1> QED
  BY <1>1, <1>2, <1>3, InputsStable DEF Wins

\* Moving past a row that must stay without a seat keeps the invariant.
LEMMA PassRow ==
    ASSUME IInv, Occupant, Continue, ~Wins(Here)
    PROVE  IInv'
<1> USE HereFacts, InputsStable DEF Continue
<1>1. UNCHANGED inputs
  OBVIOUS
<1>2. TypeOK'
  BY DEF IInv, TypeOK, inputs
<1>3. IndexOK'
  BY <1>1 DEF IInv, IndexOK, inputs, More, Occupant
<1>4. \A q \in Positions : Before(q)' <=> (Before(q) \/ q = Here)
  <2> TAKE q \in Positions
  <2>1. q[1] \in Nat /\ q[2] \in Nat /\ q = <<q[1], q[2]>>
    BY PositionTypes DEF IInv
  <2> QED
    BY <2>1 DEF Before, Here
<1>5. result \subseteq Positions
  BY DEF IInv, TypeOK
<1>6. SeatsPassed'
  BY <1>4, <1>5 DEF IInv, SeatsPassed
<1>7. OwnersRight'
  BY <1>1 DEF IInv, OwnersRight, inputs
<1>8. PeopleRight'
  BY <1>1 DEF IInv, PeopleRight
<1>9. RowsRight'
  <2> SUFFICES ASSUME NEW q \in Positions, Before(q)'
               PROVE  q \in result <=> Wins(q)
    BY <1>1, WinsStable DEF RowsRight
  <2> QED
    BY <1>4 DEF IInv, RowsRight
<1>10. AtMostMaxShared'
  BY <1>1 DEF IInv, AtMostMaxShared, SeatsAt
<1> QED
  BY <1>2, <1>3, <1>6, <1>7, <1>8, <1>9, <1>10 DEF IInv

\* The seats of the current source that precede Here at its desk are all seats
\* at that desk.
LEMMA SeatsHere ==
    ASSUME IInv, Occupant, ~OwnedByOther
    PROVE  {s \in result : Key(s) = Key(Here) /\ s[1] = i /\ s[2] < j} = SeatsAt(Key(Here))
BY SameSourceAtKey DEF SeatsAt, Occupant

\* Placing an occupant keeps the invariant.
LEMMA PlaceRow ==
    ASSUME IInv, Place
    PROVE  IInv'
<1> DEFINE K == Key(Here)
<1>1. /\ Occupant /\ OnMap(Here) /\ ~OwnedByOther /\ ~Duplicate /\ ~Full
      /\ UNCHANGED <<inputs, i, placed>>
      /\ j' = j + 1
      /\ result' = result \cup {Here}
      /\ placedThis' = placedThis \cup {Who(Here)}
      /\ DOMAIN deskOwner' = DOMAIN deskOwner \cup {K}
      /\ deskOwner'[K] = sources[i].ref
      /\ \A k \in DOMAIN deskOwner : k # K => deskOwner'[k] = deskOwner[k]
  BY DEF Place
<1> HIDE DEF K
<1>2. /\ Here \in Positions /\ Here \notin result /\ Here[1] = i /\ Here[2] = j
      /\ i \in 1..Len(sources) /\ j \in Nat \ {0}
  BY <1>1, HereFacts
<1>3. /\ UNCHANGED inputs /\ sources' = sources /\ i' = i
      /\ \A q : Key(q)' = Key(q) /\ Who(q)' = Who(q) /\ (OnMap(q)' <=> OnMap(q))
      /\ \A s : (Participates(s)' <=> Participates(s))
      /\ Positions' = Positions
  BY <1>1, InputsStable DEF inputs
<1>4. result \subseteq Positions /\ IsFiniteSet(result)
  BY DEF IInv, TypeOK
<1>5. K \in Keys /\ sources[i].ref \in Refs /\ Who(Here) \in Persons
  BY <1>1, <1>2, KeyType, PositionTypes DEF IInv, K, Source
<1>6. \A k \in DOMAIN deskOwner' : deskOwner'[k] \in Refs
  BY <1>1, <1>5 DEF IInv, TypeOK
<1>7. TypeOK'
  BY <1>1, <1>2, <1>3, <1>5, <1>6 DEF IInv, TypeOK, inputs
<1>8. IndexOK'
  BY <1>1, <1>2, <1>3 DEF IInv, IndexOK, Occupant, More
<1>9. \A q \in Positions : Before(q)' <=> (Before(q) \/ q = Here)
  <2> TAKE q \in Positions
  <2>1. q[1] \in Nat /\ q[2] \in Nat /\ q = <<q[1], q[2]>>
    BY PositionTypes DEF IInv
  <2> QED
    BY <2>1, <1>1, <1>2 DEF Before, Here
<1>10. SeatsPassed'
  BY <1>1, <1>2, <1>4, <1>9 DEF IInv, SeatsPassed
<1>11. OwnersRight'
  <2>1. \A q \in result : /\ Key(q) \in DOMAIN deskOwner'
                          /\ deskOwner'[Key(q)] = sources[q[1]].ref
    <3> SUFFICES ASSUME NEW q \in result
                 PROVE  /\ Key(q) \in DOMAIN deskOwner'
                        /\ deskOwner'[Key(q)] = sources[q[1]].ref
      OBVIOUS
    <3>1. CASE Key(q) = K
      BY <3>1, <1>1, SameSourceAtKey DEF Occupant, K
    <3>2. CASE Key(q) # K
      BY <3>2, <1>1 DEF IInv, OwnersRight
    <3> QED
      BY <3>1, <3>2
  <2>2. \A k \in DOMAIN deskOwner' : \E q \in result' : Key(q) = k
    BY <1>1 DEF IInv, OwnersRight, K
  <2>3. K \in DOMAIN deskOwner' /\ deskOwner'[K] = sources[Here[1]].ref
    BY <1>1, <1>2
  <2> QED
    BY <2>1, <2>2, <2>3, <1>1, <1>3 DEF OwnersRight, K
<1>12. PeopleRight'
  <2>1. placed' = {Who(s) : s \in {r \in result' : r[1] < i}}
    BY <1>1, <1>2 DEF IInv, PeopleRight
  <2>2. placedThis' = {Who(s) : s \in {r \in result' : r[1] = i}}
    BY <1>1, <1>2 DEF IInv, PeopleRight
  <2> QED
    BY <2>1, <2>2, <1>3 DEF PeopleRight
<1>13. IsFiniteSet(result')
  BY <1>1, <1>4, FS_AddElement
<1>14. ASSUME NEW h, h = Here
       PROVE  Wins(h)'
  <2>1. Participates(i) /\ OnMap(h) /\ h[1] = i /\ h[2] = j
    BY <1>1, <1>2, <1>14 DEF Occupant
  <2>2. \A s \in result' : Key(s) = Key(h) => s[1] >= i
    BY <1>1, <1>2, <1>14, SameSourceAtKey DEF Occupant
  <2>3. \/ sources[i].keepDuplicates
        \/ \A s \in result' : s[1] < i => ~SamePerson(Who(s), Who(h))
    BY <1>1, <1>2, <1>14 DEF Duplicate, ContainsPerson, IInv, PeopleRight
  <2>4. {s \in result' : Key(s) = Key(h) /\ s[1] = i /\ s[2] < j} = SeatsAt(Key(h))
    BY <1>1, <1>2, <1>14, SeatsHere
  <2>5. Cardinality(SeatsAt(Key(h))) < MaxShared
    <3>1. IsFiniteSet(SeatsAt(Key(h)))
      BY <1>4, FS_Subset DEF SeatsAt
    <3>2. Cardinality(SeatsAt(Key(h))) \in Nat
      BY <3>1, FS_CardinalityType
    <3> QED
      BY <3>2, <1>1, <1>14, MaxSharedAssumption DEF Full
  <2>6. {s \in result' : Key(s)' = Key(h)' /\ s[1] = h[1] /\ s[2] < h[2]} = SeatsAt(Key(h))
    BY <2>1, <2>4, <1>3
  <2>7. \A s : SamePerson(Who(s), Who(h))' <=> SamePerson(Who(s), Who(h))
    BY <1>3 DEF SamePerson
  <2> QED
    BY <2>1, <2>2, <2>3, <2>5, <2>6, <2>7, <1>3 DEF Wins
<1>15. ASSUME NEW q \in Positions, Before(q)
       PROVE  Wins(q)' <=> Wins(q)
  <2>1. q[1] \in Nat /\ q[2] \in Nat /\ q[1] <= i /\ (q[1] = i => q[2] < j)
    BY <1>2, <1>15, PositionTypes DEF IInv, Before
  <2>2. (\A s \in result' : Key(s) = Key(q) => s[1] >= q[1])
          <=> (\A s \in result : Key(s) = Key(q) => s[1] >= q[1])
    BY <2>1, <1>1, <1>2
  <2>3. (\A s \in result' : s[1] < q[1] => ~SamePerson(Who(s), Who(q)))
          <=> (\A s \in result : s[1] < q[1] => ~SamePerson(Who(s), Who(q)))
    BY <2>1, <1>1, <1>2
  <2>4. {s \in result' : Key(s)' = Key(q)' /\ s[1] = q[1] /\ s[2] < q[2]}
          = {s \in result : Key(s) = Key(q) /\ s[1] = q[1] /\ s[2] < q[2]}
    BY <2>1, <1>1, <1>2, <1>3
  <2>5. \A s : SamePerson(Who(s), Who(q))' <=> SamePerson(Who(s), Who(q))
    BY <1>3 DEF SamePerson
  <2> QED
    BY <2>2, <2>3, <2>4, <2>5, <1>3 DEF Wins
<1>16. RowsRight'
  <2> SUFFICES ASSUME NEW q \in Positions, Before(q)'
               PROVE  q \in result' <=> Wins(q)'
    BY <1>3 DEF RowsRight
  <2>1. CASE Before(q)
    <3>1. q # Here
      BY <2>1, <1>2 DEF Before
    <3> QED
      BY <2>1, <3>1, <1>1, <1>15 DEF IInv, RowsRight
  <2>2. CASE q = Here
    BY <2>2, <1>1, <1>14
  <2> QED
    BY <2>1, <2>2, <1>9
<1>17. AtMostMaxShared'
  <2> SUFFICES ASSUME NEW q \in result'
               PROVE  Cardinality(SeatsAt(Key(q))') <= MaxShared
    BY DEF AtMostMaxShared
  <2>1. SeatsAt(Key(q))' = {s \in result' : Key(s) = Key(q)}
    BY <1>3 DEF SeatsAt
  <2>2. CASE Key(q) = K
    <3>1. SeatsAt(Key(q))' = SeatsAt(K) \cup {Here}
      BY <2>1, <2>2, <1>1 DEF SeatsAt, K
    <3>2. IsFiniteSet(SeatsAt(K)) /\ Here \notin SeatsAt(K)
      BY <1>2, <1>4, FS_Subset DEF SeatsAt
    <3>3. Cardinality(SeatsAt(K)) \in Nat /\ Cardinality(SeatsAt(K)) < MaxShared
      BY <3>2, <1>1, FS_CardinalityType, MaxSharedAssumption DEF Full, K
    <3>4. Cardinality(SeatsAt(K) \cup {Here}) = Cardinality(SeatsAt(K)) + 1
      BY <3>2, FS_AddElement
    <3> QED
      BY <3>1, <3>3, <3>4, MaxSharedAssumption
  <2>3. CASE Key(q) # K
    <3>1. q \in result /\ SeatsAt(Key(q))' = SeatsAt(Key(q))
      BY <2>1, <2>3, <1>1 DEF SeatsAt, K
    <3> QED
      BY <3>1 DEF IInv, AtMostMaxShared
  <2> QED
    BY <2>2, <2>3
<1> QED
  BY <1>7, <1>8, <1>10, <1>11, <1>12, <1>13, <1>16, <1>17 DEF IInv

\* Passing a source that takes no part keeps the invariant.
LEMMA PassSource ==
    ASSUME IInv, SkipSource
    PROVE  IInv'
<1>1. /\ More /\ ~Participates(i) /\ i' = i + 1 /\ j = 1 /\ j' = 1
      /\ UNCHANGED <<inputs, result, deskOwner, placed, placedThis>>
  BY DEF SkipSource, IInv, IndexOK
<1>2. sources \in Seq(Source) /\ i \in Nat \ {0}
  BY InputsAssumption DEF IInv, TypeOK
<1>3. /\ UNCHANGED inputs /\ sources' = sources /\ Positions' = Positions
      /\ \A q : Key(q)' = Key(q) /\ Who(q)' = Who(q)
  BY <1>1, InputsStable DEF inputs
<1>4. result \subseteq Positions
  BY DEF IInv, TypeOK
<1>5. \A q \in Positions : q[1] \in Nat /\ q[2] \in Nat \ {0}
  BY PositionTypes DEF IInv
<1>6. \A q \in result : q[1] < i
  BY <1>1, <1>2, <1>4, <1>5 DEF IInv, SeatsPassed, Before
<1>7. TypeOK'
  BY <1>1, <1>2, <1>3 DEF IInv, TypeOK, inputs
<1>8. IndexOK'
  BY <1>1, <1>2, <1>3 DEF IndexOK, More
<1>9. SeatsPassed'
  BY <1>1, <1>2, <1>4, <1>5, <1>6 DEF SeatsPassed, Before
<1>10. OwnersRight'
  BY <1>1, <1>3 DEF IInv, OwnersRight
<1>11. PeopleRight'
  <2>1. placed = {Who(s) : s \in {r \in result : r[1] < i + 1}}
    BY <1>2, <1>4, <1>5, <1>6 DEF IInv, PeopleRight
  <2>2. placedThis = {Who(s) : s \in {r \in result : r[1] = i + 1}}
    BY <1>2, <1>4, <1>5, <1>6 DEF IInv, PeopleRight
  <2> QED
    BY <2>1, <2>2, <1>1, <1>3 DEF PeopleRight
<1>12. RowsRight'
  <2> SUFFICES ASSUME NEW q \in Positions, Before(q)'
               PROVE  q \in result <=> Wins(q)
    BY <1>1, <1>3, WinsStable DEF RowsRight
  <2>1. CASE Before(q)
    BY <2>1 DEF IInv, RowsRight
  <2>2. CASE ~Before(q)
    <3>1. q[1] = i
      BY <2>2, <1>1, <1>2, <1>5 DEF Before
    <3>2. ~Wins(q)
      BY <3>1, <1>1 DEF Wins
    <3> QED
      BY <3>2, <2>2 DEF IInv, SeatsPassed
  <2> QED
    BY <2>1, <2>2
<1>13. AtMostMaxShared'
  BY <1>1, <1>3 DEF IInv, AtMostMaxShared, SeatsAt
<1> QED
  BY <1>1, <1>7, <1>8, <1>9, <1>10, <1>11, <1>12, <1>13 DEF IInv

\* So does turning from a finished source to the next.
LEMMA EndSource ==
    ASSUME IInv, NextSource
    PROVE  IInv'
<1>1. /\ More /\ Participates(i) /\ j \notin Rows(i) /\ i' = i + 1 /\ j' = 1
      /\ placed' = placed \cup placedThis /\ placedThis' = {}
      /\ UNCHANGED <<inputs, result, deskOwner>>
  BY DEF NextSource
<1>2. sources \in Seq(Source) /\ i \in Nat \ {0} /\ j \in Nat \ {0}
  BY InputsAssumption DEF IInv, TypeOK
<1>3. /\ UNCHANGED inputs /\ sources' = sources /\ Positions' = Positions
      /\ \A q : Key(q)' = Key(q) /\ Who(q)' = Who(q)
  BY <1>1, InputsStable DEF inputs
<1>4. result \subseteq Positions
  BY DEF IInv, TypeOK
<1>5. \A q \in Positions : q[1] \in Nat /\ q[2] \in Nat \ {0}
  BY PositionTypes DEF IInv
<1>6. \A q \in result : q[1] <= i
  BY <1>2, <1>4, <1>5 DEF IInv, SeatsPassed, Before
<1>7. TypeOK'
  BY <1>1, <1>2, <1>3 DEF IInv, TypeOK, inputs
<1>8. IndexOK'
  BY <1>1, <1>2, <1>3 DEF IndexOK, More
<1>9. SeatsPassed'
  BY <1>1, <1>2, <1>4, <1>5, <1>6 DEF SeatsPassed, Before
<1>10. OwnersRight'
  BY <1>1, <1>3 DEF IInv, OwnersRight
<1>11. PeopleRight'
  <2>1. placed \cup placedThis = {Who(s) : s \in {r \in result : r[1] < i + 1}}
    BY <1>2, <1>4, <1>5, <1>6 DEF IInv, PeopleRight
  <2>2. {r \in result : r[1] = i + 1} = {}
    BY <1>2, <1>4, <1>5, <1>6
  <2> QED
    BY <2>1, <2>2, <1>1, <1>3 DEF PeopleRight
<1>12. \A q \in Positions : Before(q)' => Before(q)
  <2> SUFFICES ASSUME NEW q \in Positions, q[1] = i
               PROVE  q[2] < j
    BY <1>1, <1>2, <1>5 DEF Before
  <2>1. q[2] \in Rows(i)
    BY PositionTypes DEF IInv
  <2>2. i \in 1..Len(sources)
    BY <1>1, <1>2 DEF More
  <2>3. mirror[sources[i].ref] \in Seq(Placement)
    <3>1. sources[i] \in Source
      BY <1>2, <2>2
    <3>2. sources[i].ref \in Refs
      BY <3>1 DEF Source
    <3> QED
      BY <3>2, InputsAssumption DEF IInv, TypeOK
  <2> QED
    BY <2>1, <2>3, <1>1, <1>2 DEF Rows
<1>13. RowsRight'
  BY <1>1, <1>3, <1>12, WinsStable DEF IInv, RowsRight
<1>14. AtMostMaxShared'
  BY <1>1, <1>3 DEF IInv, AtMostMaxShared, SeatsAt
<1> QED
  BY <1>1, <1>7, <1>8, <1>9, <1>10, <1>11, <1>13, <1>14 DEF IInv

-----------------------------------------------------------------------------
(* Assignment: theorems *)

LEMMA InitHolds == Init => IInv
<1> SUFFICES ASSUME Init PROVE IInv
  OBVIOUS
<1>1. sources \in Seq(Source) /\ i = 1 /\ j = 1 /\ result = {}
  BY InputsAssumption DEF Init
<1>2. TypeOK
  BY DEF Init, TypeOK
<1>3. IndexOK
  BY <1>1 DEF IndexOK
<1>4. OwnersRight /\ PeopleRight
  BY DEF Init, OwnersRight, PeopleRight
<1>5. RowsRight
  <2> SUFFICES ASSUME NEW q \in Positions PROVE ~Before(q)
    BY DEF RowsRight
  <2>1. q[1] \in Nat \ {0} /\ q[2] \in Nat \ {0}
    BY <1>2, PositionTypes
  <2> QED
    BY <2>1, <1>1 DEF Before
<1> QED
  BY <1>1, <1>2, <1>3, <1>4, <1>5, FS_EmptySet DEF IInv, SeatsPassed, AtMostMaxShared

\* Each step keeps the invariant.
LEMMA StepHolds == IInv /\ [Next]_vars => IInv'
<1> SUFFICES ASSUME IInv, [Next]_vars PROVE IInv'
  OBVIOUS
<1>1. CASE SkipSource
  BY <1>1, PassSource
<1>2. CASE NextSource
  BY <1>2, EndSource
<1>3. CASE SkipOffMap
  <2>1. ~Wins(Here)
    BY <1>3 DEF SkipOffMap, Wins
  <2> QED
    BY <2>1, <1>3, PassRow DEF SkipOffMap
<1>4. CASE SkipOwned
  <2>1. Occupant /\ OwnedByOther /\ Here[1] = i /\ i \in Nat
    BY <1>4, HereFacts DEF SkipOwned
  <2>2. PICK s \in result : Key(s) = Key(Here) /\ sources[s[1]].ref # sources[i].ref
    BY <2>1 DEF OwnedByOther, IInv, OwnersRight
  <2>3. s[1] \in Nat /\ s[1] < i
    <3>1. s \in Positions
      BY DEF IInv, TypeOK
    <3>2. s[1] \in Nat
      BY <3>1, PositionTypes DEF IInv
    <3> QED
      BY <3>2, <2>1, <2>2 DEF IInv, SeatsPassed, Before
  <2>4. ~Wins(Here)
    BY <2>1, <2>2, <2>3 DEF Wins
  <2> QED
    BY <2>4, <1>4, PassRow DEF SkipOwned
<1>5. CASE SkipDuplicate
  <2>1. Occupant /\ Duplicate /\ Here[1] = i
    BY <1>5, HereFacts DEF SkipDuplicate
  <2>2. ~Wins(Here)
    BY <2>1 DEF Wins, Duplicate, ContainsPerson, IInv, PeopleRight
  <2> QED
    BY <2>2, <1>5, PassRow DEF SkipDuplicate
<1>6. CASE SkipFull
  <2>1. Occupant /\ ~OwnedByOther /\ Full /\ Here[1] = i /\ Here[2] = j
    BY <1>6, HereFacts DEF SkipFull
  <2>2. Cardinality(SeatsAt(Key(Here))) \in Nat
    BY FS_Subset, FS_CardinalityType DEF IInv, SeatsAt
  <2>3. ~(Cardinality({s \in result : Key(s) = Key(Here) /\ s[1] = i /\ s[2] < j}) < MaxShared)
    BY <2>1, <2>2, SeatsHere, MaxSharedAssumption DEF Full
  <2>4. ~Wins(Here)
    BY <2>1, <2>3 DEF Wins
  <2> QED
    BY <2>4, <1>6, PassRow DEF SkipFull
<1>7. CASE Place
  BY <1>7, PlaceRow
<1>8. CASE UNCHANGED vars
  <2>1. UNCHANGED <<inputs, result>> /\ sources' = sources /\ Positions' = Positions
    BY <1>8, InputsStable DEF vars, inputs
  <2>2. \A q : Key(q)' = Key(q) /\ Who(q)' = Who(q)
    BY <2>1, InputsStable
  <2>3. \A s : Participates(s)' <=> Participates(s)
    BY <2>1, InputsStable
  <2>4. TypeOK'
    BY <1>8, <2>1 DEF vars, inputs, IInv, TypeOK
  <2>5. IndexOK' /\ SeatsPassed'
    BY <1>8, <2>1, <2>3 DEF vars, IInv, IndexOK, SeatsPassed, Before, More
  <2>6. OwnersRight'
    BY <1>8, <2>1, <2>2 DEF vars, IInv, OwnersRight
  <2>7. PeopleRight'
    BY <1>8, <2>1, <2>2 DEF vars, IInv, PeopleRight
  <2>8. RowsRight'
    BY <1>8, <2>1, WinsStable DEF vars, IInv, RowsRight, Before
  <2>9. AtMostMaxShared'
    BY <2>1, <2>2 DEF IInv, AtMostMaxShared, SeatsAt
  <2> QED
    BY <2>1, <2>4, <2>5, <2>6, <2>7, <2>8, <2>9 DEF IInv
<1> QED
  BY <1>1, <1>2, <1>3, <1>4, <1>5, <1>6, <1>7, <1>8 DEF Next

\* The inductive invariant holds throughout assignMap.
THEOREM Invariance == Spec => []IInv
BY InitHolds, StepHolds, PTL DEF Spec

\* Every variable keeps its type.
THEOREM Typing == Spec => []TypeOK
<1>1. IInv => TypeOK
  BY DEF IInv
<1> QED
  BY Invariance, <1>1, PTL

\* The loops of assignMap compute exactly the seats the rules of the priority
\* list give away, whatever the sources, desks, mirrors and cap.
THEOREM Decision == Spec => []DecidedRight
<1>1. IInv => DecidedRight
  <2> SUFFICES ASSUME IInv, Finished PROVE result = {q \in Positions : Wins(q)}
    BY DEF IInv, RowsRight, DecidedRight
  <2>1. \A q \in Positions : Before(q)
    <3> TAKE q \in Positions
    <3>1. sources \in Seq(Source) /\ q[1] \in 1..Len(sources) /\ i \in Nat
      BY PositionTypes, InputsAssumption DEF IInv, TypeOK
    <3> QED
      BY <3>1 DEF Finished, More, Before
  <2> QED
    BY <2>1 DEF IInv, TypeOK, RowsRight
<1> QED
  BY Invariance, <1>1, PTL

\* No desk shows people of two sources.
THEOREM OneSource == Spec => []OneSourcePerDesk
<1>1. IInv => OneSourcePerDesk
  <2> SUFFICES ASSUME IInv, NEW s \in result, NEW q \in result, Key(s) = Key(q)
               PROVE  s[1] = q[1]
    BY DEF OneSourcePerDesk
  <2>1. s \in Positions /\ q \in Positions /\ Wins(s) /\ Wins(q)
    BY DEF IInv, TypeOK, SeatsPassed, RowsRight
  <2>2. s[1] \in Nat /\ q[1] \in Nat
    BY <2>1, PositionTypes DEF IInv
  <2> QED
    BY <2>1, <2>2 DEF Wins
<1> QED
  BY Invariance, <1>1, PTL

\* Only a source that keeps duplicates shows somebody again.
THEOREM NoDuplicate == Spec => []NoUndeclaredDuplicate
<1>1. IInv => NoUndeclaredDuplicate
  <2> SUFFICES ASSUME IInv, NEW s \in result, NEW q \in result,
                      s[1] < q[1], SamePerson(Who(s), Who(q))
               PROVE  sources[q[1]].keepDuplicates
    BY DEF NoUndeclaredDuplicate
  <2>1. Wins(q)
    BY DEF IInv, TypeOK, SeatsPassed, RowsRight
  <2> QED
    BY <2>1 DEF Wins
<1> QED
  BY Invariance, <1>1, PTL

\* The cap on shared desks holds for any cap.
THEOREM Cap == Spec => []AtMostMaxShared
<1>1. IInv => AtMostMaxShared
  BY DEF IInv
<1> QED
  BY Invariance, <1>1, PTL

\* What the administrators are promised of the seats, for any sources, desks,
\* mirrors and cap (assignMap).
THEOREM Rules == Spec => []SeatRules
<1>1. OneSourcePerDesk /\ NoUndeclaredDuplicate /\ AtMostMaxShared => SeatRules
  BY DEF SeatRules
<1> QED
  BY OneSource, NoDuplicate, Cap, <1>1, PTL

-----------------------------------------------------------------------------
(* Alignment: sums over finite sets, and lines *)

\* Among sets of members of a finite set there is a smallest one.
LEMMA SmallestSet ==
  ASSUME NEW S, IsFiniteSet(S), NEW F, F \in SUBSET SUBSET S, F # {}
  PROVE  \E T \in F : \A U \in F : U \subseteq T => U = T
<1>1. IsWellFoundedOn(StrictSubsetOrdering(S), SUBSET S)
  BY FS_StrictSubsetOrderingWellFounded, FS_FiniteSubsetsOfFinite
<1>2. PICK T \in F : \A U \in F : ~(<<U, T>> \in StrictSubsetOrdering(S))
  BY <1>1, WFMin
<1>3. ASSUME NEW U \in F, U \subseteq T PROVE U = T
  BY <1>2, <1>3 DEF StrictSubsetOrdering
<1> QED BY <1>3

Picked(T) == CHOOSE d \in T : TRUE

\* The sums of val over the subsets of S, as the fold of Mean builds them.
IsSums(sums, val, S) ==
    sums = [T \in SUBSET S |-> IF T = {} THEN 0
                               ELSE sums[T \ {Picked(T)}] + val[Picked(T)]]

\* Taking a member out of a set leaves a smaller one.
LEMMA PickedProperties ==
  ASSUME NEW T, T # {}
  PROVE  Picked(T) \in T /\ T \ {Picked(T)} \in SUBSET T /\ T \ {Picked(T)} # T
<1>1. Picked(T) \in T
  BY DEF Picked
<1> QED BY <1>1

\* Sums over the subsets of two sets agree on what is a subset of both.
LEMMA SumsAgree ==
  ASSUME NEW S, IsFiniteSet(S), NEW R, NEW val, NEW g, NEW h,
         IsSums(g, val, R), IsSums(h, val, S)
  PROVE  \A T \in SUBSET S : T \subseteq R => g[T] = h[T]
<1> DEFINE F == {T \in SUBSET S : T \subseteq R /\ g[T] # h[T]}
<1>1. SUFFICES ASSUME F # {} PROVE FALSE
  OBVIOUS
<1>0. F \in SUBSET SUBSET S
  OBVIOUS
<1> HIDE DEF F
<1>2. PICK T \in F : \A U \in F : U \subseteq T => U = T
  BY <1>0, <1>1, SmallestSet
<1> USE DEF F
<1>3. /\ g[T] = IF T = {} THEN 0 ELSE g[T \ {Picked(T)}] + val[Picked(T)]
      /\ h[T] = IF T = {} THEN 0 ELSE h[T \ {Picked(T)}] + val[Picked(T)]
  BY <1>2 DEF IsSums
<1>4. T # {}
  BY <1>2, <1>3
<1>5. g[T \ {Picked(T)}] = h[T \ {Picked(T)}]
  BY <1>2, <1>4, PickedProperties
<1> QED BY <1>2, <1>3, <1>4, <1>5

\* The sums over the subsets of a finite set exist.
LEMMA SumsExist ==
  ASSUME NEW S, IsFiniteSet(S), NEW val
  PROVE  \E sums : IsSums(sums, val, S)
<1> DEFINE F == {T \in SUBSET S : ~\E sums : IsSums(sums, val, T)}
<1>1. SUFFICES ASSUME F # {} PROVE FALSE
  <2>1. S \in SUBSET S
    OBVIOUS
  <2> QED BY <2>1
<1>0. F \in SUBSET SUBSET S
  OBVIOUS
<1> HIDE DEF F
<1>2. PICK T \in F : \A U \in F : U \subseteq T => U = T
  BY <1>0, <1>1, SmallestSet
<1> USE DEF F
<1> DEFINE k(U) == CHOOSE sums : IsSums(sums, val, U)
           h == [U \in SUBSET T |-> IF U = {} THEN 0
                    ELSE k(U \ {Picked(U)})[U \ {Picked(U)}] + val[Picked(U)]]
<1>3. \A U \in SUBSET T : U # T => IsSums(k(U), val, U)
  <2>1. ASSUME NEW U \in SUBSET T, U # T PROVE IsSums(k(U), val, U)
    <3>1. U \in SUBSET S /\ U \notin F
      BY <1>2, <2>1
    <3>2. \E sums : IsSums(sums, val, U)
      BY <3>1
    <3> QED BY <3>2
  <2> QED BY <2>1
<1> HIDE DEF k
<1>4. ASSUME NEW U \in SUBSET T, U # {}
      PROVE  k(U \ {Picked(U)})[U \ {Picked(U)}] = h[U \ {Picked(U)}]
  <2> DEFINE V == U \ {Picked(U)}
  <2>1. V \in SUBSET T /\ V # T /\ IsSums(k(V), val, V)
    BY <1>3, <1>4, PickedProperties
  <2>2. k(V)[V] = IF V = {} THEN 0 ELSE k(V)[V \ {Picked(V)}] + val[Picked(V)]
    BY <2>1 DEF IsSums
  <2>3. h[V] = IF V = {} THEN 0 ELSE k(V \ {Picked(V)})[V \ {Picked(V)}] + val[Picked(V)]
    BY <2>1
  <2> HIDE DEF V, h
  <2>4. CASE V # {}
    <3> DEFINE W == V \ {Picked(V)}
    <3>1. W \in SUBSET V /\ W \in SUBSET T /\ W # T /\ IsSums(k(W), val, W)
      BY <1>3, <2>1, <2>4, PickedProperties
    <3>2. IsFiniteSet(W)
      <4>1. W \in SUBSET S
        BY <3>1, <1>2
      <4> QED BY <4>1, FS_Subset
    <3>3. k(V)[W] = k(W)[W]
      BY <2>1, <3>1, <3>2, SumsAgree
    <3> QED BY <2>2, <2>3, <2>4, <3>3 DEF V
  <2> QED BY <2>2, <2>3, <2>4 DEF V
<1>5. IsSums(h, val, T)
  BY <1>4 DEF IsSums
<1> QED BY <1>2, <1>5

SumOver(val, S) == FoldSet(LAMBDA d, acc : acc + val[d], 0, S)

\* The sum of Mean is one of them.
LEMMA SumIsSums ==
  ASSUME NEW S, IsFiniteSet(S), NEW val
  PROVE  \E sums : IsSums(sums, val, S) /\ SumOver(val, S) = sums[S]
<1> DEFINE g == CHOOSE sums : IsSums(sums, val, S)
<1>1. IsSums(g, val, S)
  BY SumsExist
<1>2. SumOver(val, S) = g[S]
  BY Zenon DEF SumOver, FoldSet, MapThenFoldSet, IsSums, Picked
<1> QED BY <1>1, <1>2

\* One more time a number, and the next lemma: what the bounds need of products.
LEMMA Multiples ==
  ASSUME NEW n \in Nat, NEW a \in Int
  PROVE  (n + 1) * a = n * a + a /\ n * a \in Int
OBVIOUS

\* A sum lies between as many times the least and the largest of its terms.
LEMMA SumBounds ==
  ASSUME NEW S, IsFiniteSet(S), NEW val, NEW lo \in Int, NEW hi \in Int,
         \A d \in S : val[d] \in Int /\ lo <= val[d] /\ val[d] <= hi
  PROVE  /\ SumOver(val, S) \in Int
         /\ Cardinality(S) * lo <= SumOver(val, S)
         /\ SumOver(val, S) <= Cardinality(S) * hi
<1>1. PICK sums : IsSums(sums, val, S) /\ SumOver(val, S) = sums[S]
  BY SumIsSums
<1> DEFINE Bounded(T) == /\ sums[T] \in Int
                         /\ Cardinality(T) * lo <= sums[T]
                         /\ sums[T] <= Cardinality(T) * hi
           F == {T \in SUBSET S : ~Bounded(T)}
<1>2. SUFFICES ASSUME F # {} PROVE FALSE
  <2>1. S \in SUBSET S
    OBVIOUS
  <2> QED BY <1>1, <2>1
<1>0. F \in SUBSET SUBSET S
  OBVIOUS
<1> HIDE DEF F
<1>3. PICK T \in F : \A U \in F : U \subseteq T => U = T
  BY <1>0, <1>2, SmallestSet
<1> USE DEF F
<1>4. sums[T] = IF T = {} THEN 0 ELSE sums[T \ {Picked(T)}] + val[Picked(T)]
  BY <1>1, <1>3 DEF IsSums
<1>5. CASE T = {}
  <2>1. Cardinality(T) = 0
    BY <1>5, FS_EmptySet
  <2> QED BY <1>3, <1>4, <1>5, <2>1
<1>6. CASE T # {}
  <2> DEFINE U == T \ {Picked(T)}
  <2>1. Picked(T) \in T /\ U \in SUBSET T /\ U # T
    BY <1>6, PickedProperties
  <2>2. U \notin F /\ U \in SUBSET S
    BY <1>3, <2>1
  <2>3. Bounded(U)
    BY <2>2
  <2>4. IsFiniteSet(T) /\ IsFiniteSet(U) /\ Cardinality(U) \in Nat
    BY <1>3, <2>1, FS_Subset, FS_CardinalityType
  <2>5. Cardinality(T) = Cardinality(U) + 1
    <3>1. Cardinality(U) = Cardinality(T) - 1 /\ Cardinality(T) \in Nat
      BY <2>1, <2>4, FS_RemoveElement, FS_CardinalityType
    <3> QED BY <3>1
  <2>6. val[Picked(T)] \in Int /\ lo <= val[Picked(T)] /\ val[Picked(T)] <= hi
    BY <1>3, <2>1
  <2>7. sums[T] = sums[U] + val[Picked(T)]
    BY <1>4, <1>6
  <2> HIDE DEF U
  <2>8. /\ Cardinality(T) * lo = Cardinality(U) * lo + lo /\ Cardinality(U) * lo \in Int
        /\ Cardinality(T) * hi = Cardinality(U) * hi + hi /\ Cardinality(U) * hi \in Int
    BY <2>4, <2>5, Multiples
  <2>9. Bounded(T)
    BY <2>3, <2>6, <2>7, <2>8
  <2> QED BY <1>3, <2>9
<1> QED BY <1>5, <1>6

\* Multiples keep the order.
LEMMA MultipleOrder ==
  ASSUME NEW n \in Nat, NEW a \in Int, NEW b \in Int, a <= b
  PROVE  n * a <= n * b
<1>1. PICK c \in Nat : b = a + c
  <2>1. b - a \in Nat /\ b = a + (b - a)
    OBVIOUS
  <2> QED BY <2>1
<1>2. n * b = n * a + n * c /\ n * c >= 0
  BY <1>1
<1> QED BY <1>2

\* A rounded mean lies between the bounds of what it is the mean of.
LEMMA RoundedMean ==
  ASSUME NEW s \in Int, NEW n \in Nat \ {0}, NEW lo \in Int, NEW hi \in Int,
         n * lo <= s, s <= n * hi
  PROVE  /\ (2 * s + n) \div (2 * n) \in Int
         /\ lo <= (2 * s + n) \div (2 * n) /\ (2 * s + n) \div (2 * n) <= hi
<1> DEFINE q == (2 * s + n) \div (2 * n)
           r == (2 * s + n) % (2 * n)
           p == n * q
<1>1. q \in Int /\ r \in 0..(2 * n - 1) /\ 2 * s + n = (2 * n) * q + r
  OBVIOUS
<1> HIDE DEF q, r
<1>2. p \in Int /\ (2 * n) * q = 2 * p
  BY <1>1
<1> HIDE DEF p
<1>3. 2 * s + n = 2 * p + r /\ 0 <= r /\ r < 2 * n
  BY <1>1, <1>2
<1>4. lo <= q
  <2>1. SUFFICES ASSUME q + 1 <= lo PROVE FALSE
    BY <1>1
  <2>2. n * (q + 1) <= n * lo /\ n * (q + 1) = p + n /\ n * lo \in Int
    BY <1>1, <2>1, MultipleOrder DEF p
  <2> QED BY <1>1, <1>2, <1>3, <2>2
<1>5. q <= hi
  <2>1. SUFFICES ASSUME hi + 1 <= q PROVE FALSE
    BY <1>1
  <2>2. n * (hi + 1) <= p /\ n * (hi + 1) = n * hi + n /\ n * hi \in Int
    BY <1>1, <2>1, MultipleOrder DEF p
  <2> QED BY <1>1, <1>2, <1>3, <2>2
<1> QED BY <1>1, <1>4, <1>5 DEF q

\* The rounded mean of values lies between their bounds, whatever was summed first.
LEMMA MeanBounds ==
  ASSUME NEW S, IsFiniteSet(S), S # {}, NEW val, NEW lo \in Int, NEW hi \in Int,
         \A d \in S : val[d] \in Int /\ lo <= val[d] /\ val[d] <= hi
  PROVE  Mean(val, S) \in Int /\ lo <= Mean(val, S) /\ Mean(val, S) <= hi
<1>1. /\ SumOver(val, S) \in Int
      /\ Cardinality(S) * lo <= SumOver(val, S)
      /\ SumOver(val, S) <= Cardinality(S) * hi
  BY SumBounds
<1>2. Cardinality(S) \in Nat \ {0}
  BY FS_CardinalityType, FS_EmptySet
<1>3. Mean(val, S) = (2 * SumOver(val, S) + Cardinality(S)) \div (2 * Cardinality(S))
  BY DEF Mean, SumOver
<1> QED BY <1>1, <1>2, <1>3, RoundedMean

\* A finite set of integers has a largest and a least member.
LEMMA LargestAndLeast ==
  ASSUME NEW S, IsFiniteSet(S), S # {}, \A x \in S : x \in Int
  PROVE  /\ Max(S) \in S /\ \A x \in S : x <= Max(S)
         /\ Min(S) \in S /\ \A x \in S : Min(S) <= x
<1> DEFINE Above == {{y \in S : y > x} : x \in S}
           Below == {{y \in S : y < x} : x \in S}
<1>0. IsFiniteSet(S) /\ \A x \in S : x \in Int
  OBVIOUS
<1>1. Above \in SUBSET SUBSET S /\ Above # {}
  OBVIOUS
<1>10. Below \in SUBSET SUBSET S /\ Below # {}
  OBVIOUS
<1> HIDE DEF Above, Below
<1>2. PICK T \in Above : \A U \in Above : U \subseteq T => U = T
  BY <1>1, SmallestSet
<1>3. PICK R \in Below : \A U \in Below : U \subseteq R => U = R
  BY <1>10, SmallestSet
<1>4. PICK m \in S : T = {y \in S : y > m}
  BY <1>2 DEF Above
<1>5. ASSUME NEW x \in S PROVE m >= x
  <2>1. SUFFICES ASSUME x > m PROVE FALSE
    OBVIOUS
  <2>2. {y \in S : y > x} \in Above
    BY DEF Above
  <2>3. ASSUME NEW y \in S, y > x PROVE y \in T
    BY <1>0, <1>4, <2>1, <2>3
  <2>4. x \in T /\ x \notin {y \in S : y > x}
    BY <1>4, <2>1
  <2> QED BY <1>2, <2>2, <2>3, <2>4
<1>6. PICK l \in S : R = {y \in S : y < l}
  BY <1>3 DEF Below
<1>7. ASSUME NEW x \in S PROVE l =< x
  <2>1. SUFFICES ASSUME x < l PROVE FALSE
    OBVIOUS
  <2>2. {y \in S : y < x} \in Below
    BY DEF Below
  <2>3. ASSUME NEW y \in S, y < x PROVE y \in R
    BY <1>0, <1>6, <2>1, <2>3
  <2>4. x \in R /\ x \notin {y \in S : y < x}
    BY <1>6, <2>1
  <2> QED BY <1>3, <2>2, <2>3, <2>4
<1>8. Max(S) \in S /\ \A x \in S : Max(S) >= x
  BY <1>5 DEF Max
<1>9. Min(S) \in S /\ \A x \in S : Min(S) =< x
  BY <1>7 DEF Min
<1> QED BY <1>8, <1>9

\* A set of values has anchors: those of all but its largest value, and that one
\* unless it is within the tolerance.
AnchorsOf(A, V, med2) ==
    \A v \in V : v \in A <=> \A a \in A : a < v => ~Within(v - a, med2)

\* Any finite set of values has anchors: the largest value joins the anchors of
\* the others or is within the tolerance of one.
LEMMA AnchorsExist ==
  ASSUME NEW V, IsFiniteSet(V), \A v \in V : v \in Int, NEW med2
  PROVE  \E A \in SUBSET V : AnchorsOf(A, V, med2)
<1> DEFINE F == {W \in SUBSET V : ~\E A \in SUBSET W : AnchorsOf(A, W, med2)}
<1>1. SUFFICES ASSUME F # {} PROVE FALSE
  <2>1. V \in SUBSET V
    OBVIOUS
  <2> QED BY <2>1
<1>0. F \in SUBSET SUBSET V
  OBVIOUS
<1> HIDE DEF F
<1>2. PICK W \in F : \A U \in F : U \subseteq W => U = W
  BY <1>0, <1>1, SmallestSet
<1> USE DEF F
<1>3. W # {}
  <2>1. AnchorsOf({}, {}, med2)
    BY DEF AnchorsOf
  <2> QED BY <1>2, <2>1
<1> DEFINE m == Max(W)
<1>4. m \in W /\ \A x \in W : x <= m
  BY <1>2, <1>3, LargestAndLeast, FS_Subset
<1> HIDE DEF m
<1>5. W \ {m} \notin F /\ W \ {m} \in SUBSET V
  BY <1>2, <1>4
<1>6. PICK A \in SUBSET (W \ {m}) : AnchorsOf(A, W \ {m}, med2)
  BY <1>5
<1>7. \A a \in W \ {m} : a < m
  BY <1>4
<1>8. CASE \E a \in A : Within(m - a, med2)
  <2>1. AnchorsOf(A, W, med2)
    BY <1>6, <1>7, <1>8 DEF AnchorsOf
  <2> QED BY <1>2, <1>6, <2>1
<1>9. CASE \A a \in A : ~Within(m - a, med2)
  <2>1. \A v \in W : v = m \/ (v \in W \ {m} /\ ~(m < v))
    BY <1>4, <1>7
  <2>2. ~(m < m)
    BY <1>4
  <2>3. AnchorsOf(A \cup {m}, W, med2)
    BY <1>6, <1>9, <2>1, <2>2 DEF AnchorsOf
  <2>4. A \cup {m} \in SUBSET W
    BY <1>4, <1>6
  <2> QED BY <1>2, <2>3, <2>4
<1> QED BY <1>8, <1>9

\* Every value has an anchor at it or below it, so every desk has a band.
LEMMA AnchorsProperties ==
  ASSUME NEW V, IsFiniteSet(V), \A v \in V : v \in Int, NEW med2
  PROVE  /\ Anchors(V, med2) \in SUBSET V
         /\ \A v \in V : \E a \in Anchors(V, med2) : a <= v
<1>1. Anchors(V, med2) \in SUBSET V /\ AnchorsOf(Anchors(V, med2), V, med2)
  BY AnchorsExist DEF Anchors, AnchorsOf
<1>2. ASSUME NEW v \in V PROVE \E a \in Anchors(V, med2) : a <= v
  <2>1. CASE v \in Anchors(V, med2)
    BY <2>1
  <2>2. CASE v \notin Anchors(V, med2)
    <3>1. PICK a \in Anchors(V, med2) : a < v
      BY <1>1, <2>2 DEF AnchorsOf
    <3>2. a \in Int /\ v \in Int
      BY <1>1
    <3> QED BY <3>1, <3>2
  <2> QED BY <2>1, <2>2
<1> QED BY <1>1, <1>2

\* The lines of values are in the order of the values.
InOrderOf(line, val) ==
    \A d, e \in DOMAIN val : val[d] <= val[e] => line[d] <= line[e]

\* autoAlignBands and autoAlignUnifyCanon never invert an order: of two bands the
\* means are in the order of the anchors.
LEMMA LinesProperties ==
  ASSUME NEW D, IsFiniteSet(D), NEW val \in [D -> Int], NEW med2
  PROVE  Lines(val, med2) \in [D -> Int] /\ InOrderOf(Lines(val, med2), val)
<1> DEFINE V == {val[d] : d \in D}
           A == Anchors(V, med2)
           Below(d) == {a \in A : a =< val[d]}
           anchor == [d \in D |-> Max(Below(d))]
           Band(a) == {d \in D : anchor[d] = a}
           mean == [a \in A |-> Mean(val, Band(a))]
           line == Lines(val, med2)
<1>1. DOMAIN val = D /\ \A d \in D : val[d] \in Int
  OBVIOUS
<1>2. line = [d \in D |-> mean[anchor[d]]]
  BY <1>1 DEF Lines
<1>3. IsFiniteSet(V) /\ \A v \in V : v \in Int
  <2>1. val \in Surjection(D, V)
    BY DEF Surjection
  <2> QED BY <1>1, <2>1, FS_Surjection
<1>4. A \in SUBSET V /\ \A v \in V : \E a \in A : a <= v
  <2> HIDE DEF V
  <2> QED BY <1>3, AnchorsProperties
<1>5. IsFiniteSet(A) /\ \A a \in A : a \in Int
  BY <1>3, <1>4, FS_Subset
<1>6. \A d \in D : val[d] \in V
  OBVIOUS
<1> HIDE DEF V, A
<1>7. ASSUME NEW d \in D
      PROVE  /\ anchor[d] \in A /\ anchor[d] \in Int /\ anchor[d] <= val[d]
             /\ \A a \in A : a <= val[d] => a <= anchor[d]
  <2>1. Below(d) \in SUBSET A /\ Below(d) # {}
    BY <1>4, <1>6
  <2>2. IsFiniteSet(Below(d)) /\ \A a \in Below(d) : a \in Int
    BY <1>5, <2>1, FS_Subset
  <2>3. Max(Below(d)) \in Below(d) /\ \A a \in Below(d) : a <= Max(Below(d))
    <3> DEFINE B == Below(d)
    <3>1. IsFiniteSet(B) /\ B # {} /\ \A a \in B : a \in Int
      BY <2>1, <2>2
    <3> HIDE DEF B
    <3>2. Max(B) \in B /\ \A a \in B : a <= Max(B)
      BY <3>1, LargestAndLeast
    <3> QED BY <3>2 DEF B
  <2> QED BY <1>5, <2>3
<1>8. \A d, e \in D : val[d] <= val[e] => anchor[d] <= anchor[e]
  <2> HIDE DEF anchor
  <2>1. ASSUME NEW d \in D, NEW e \in D, val[d] <= val[e] PROVE anchor[d] <= anchor[e]
    <3>1. anchor[d] <= val[e]
      BY <1>1, <1>7, <2>1
    <3> QED BY <1>7, <3>1
  <2> QED BY <2>1
<1>9. ASSUME NEW d \in D
      PROVE  /\ IsFiniteSet(Band(anchor[d])) /\ Band(anchor[d]) # {}
             /\ Band(anchor[d]) \in SUBSET D /\ line[d] = Mean(val, Band(anchor[d]))
  <2>1. d \in Band(anchor[d]) /\ Band(anchor[d]) \in SUBSET D
    OBVIOUS
  <2>2. line[d] = Mean(val, Band(anchor[d]))
    BY <1>2, <1>7
  <2> QED BY <2>1, <2>2, FS_Subset
<1> HIDE DEF anchor, mean, line
\* A band that lies within bounds has its line within them.
<1>10. ASSUME NEW d \in D, NEW lo \in Int, NEW hi \in Int,
              \A f \in Band(anchor[d]) : lo <= val[f] /\ val[f] <= hi
       PROVE  line[d] \in Int /\ lo <= line[d] /\ line[d] <= hi
  <2> DEFINE B == Band(anchor[d])
  <2>1. /\ IsFiniteSet(B) /\ B # {} /\ line[d] = Mean(val, B)
        /\ \A f \in B : val[f] \in Int /\ lo <= val[f] /\ val[f] <= hi
    BY <1>1, <1>9, <1>10
  <2> HIDE DEF B
  <2> QED BY <2>1, MeanBounds
<1>11. ASSUME NEW d \in D
       PROVE  \E lo, hi \in Int : \A f \in D : lo <= val[f] /\ val[f] <= hi
  <2>1. V # {}
    BY <1>6, <1>11
  <2>2. Min(V) \in V /\ Max(V) \in V /\ \A v \in V : Min(V) <= v /\ v <= Max(V)
    BY <1>3, <2>1, LargestAndLeast
  <2> QED BY <1>3, <1>6, <2>2
<1>12. \A d \in D : line[d] \in Int
  <2>1. ASSUME NEW d \in D PROVE line[d] \in Int
    <3>1. PICK lo, hi \in Int : \A f \in D : lo <= val[f] /\ val[f] <= hi
      BY <1>11
    <3> QED BY <1>10, <3>1
  <2> QED BY <2>1
<1>13. line \in [D -> Int]
  BY <1>2, <1>12 DEF line
<1>14. ASSUME NEW d \in D, NEW e \in D, val[d] <= val[e] PROVE line[d] <= line[e]
  <2>0. anchor[d] \in Int /\ anchor[e] \in Int /\ anchor[d] <= anchor[e]
    BY <1>7, <1>8, <1>14
  <2>1. CASE anchor[d] = anchor[e]
    <3>1. Band(anchor[d]) = Band(anchor[e])
      BY <2>1
    <3>2. line[d] = line[e]
      <4> HIDE DEF Band
      <4> QED BY <1>9, <3>1
    <3> QED BY <1>12, <3>2
  <2>2. CASE anchor[d] < anchor[e]
    <3>1. PICK lo, hi \in Int : \A f \in D : lo <= val[f] /\ val[f] <= hi
      BY <1>11
    <3>2. ASSUME NEW f \in Band(anchor[d]) PROVE lo <= val[f] /\ val[f] <= anchor[e]
      <4>1. f \in D /\ anchor[f] = anchor[d] /\ anchor[e] \in A /\ val[f] \in Int
        BY <1>1, <1>7
      <4>2. ~(anchor[e] <= val[f])
        BY <1>7, <2>0, <2>2, <4>1
      <4> QED BY <2>0, <3>1, <4>1, <4>2
    <3>3. ASSUME NEW f \in Band(anchor[e]) PROVE anchor[e] <= val[f] /\ val[f] <= hi
      <4>1. f \in D /\ anchor[f] = anchor[e]
        OBVIOUS
      <4> QED BY <1>7, <3>1, <4>1
    <3>4. line[d] <= anchor[e] /\ anchor[e] <= line[e]
      BY <1>10, <2>0, <3>2, <3>3
    <3> QED BY <1>12, <2>0, <3>4
  <2> QED BY <2>0, <2>1, <2>2
<1> QED BY <1>1, <1>13, <1>14 DEF InOrderOf, line

LineBelow(L, v) == Max({l \in L : l < v})
LineAbove(L, v) == Min({l \in L : l > v})

\* A midpoint lies between its line's neighbours.
LEMMA MidpointProperties ==
  ASSUME NEW L, IsFiniteSet(L), \A l \in L : l \in Int, NEW v \in Int,
         \E a, b \in L : a < v /\ v < b
  PROVE  /\ LineBelow(L, v) \in L /\ LineBelow(L, v) < v
         /\ \A l \in L : l < v => l <= LineBelow(L, v)
         /\ LineAbove(L, v) \in L /\ v < LineAbove(L, v)
         /\ \A l \in L : v < l => LineAbove(L, v) <= l
         /\ Midpoint(L, v) = (LineBelow(L, v) + LineAbove(L, v) + 1) \div 2
         /\ Midpoint(L, v) \in Int
         /\ LineBelow(L, v) <= Midpoint(L, v) /\ Midpoint(L, v) <= LineAbove(L, v)
<1> DEFINE R == {l \in L : l < v}
           T == {l \in L : l > v}
<1>1. /\ IsFiniteSet(R) /\ R # {} /\ \A l \in R : l \in Int
      /\ IsFiniteSet(T) /\ T # {} /\ \A l \in T : l \in Int
  BY FS_Subset
<1>2. Midpoint(L, v) = (Max(R) + Min(T) + 1) \div 2
  BY DEF Midpoint
<1>3. /\ Max(R) \in R /\ \A l \in R : l <= Max(R)
      /\ Min(T) \in T /\ \A l \in T : Min(T) <= l
  <2> HIDE DEF R, T
  <2> QED BY <1>1, LargestAndLeast
<1>4. Max(R) \in Int /\ Min(T) \in Int /\ Max(R) < v /\ v < Min(T)
  BY <1>1, <1>3
<1>5. ASSUME NEW a \in Int, NEW b \in Int, a < v, v < b
      PROVE  (a + b + 1) \div 2 \in Int /\ a <= (a + b + 1) \div 2 /\ (a + b + 1) \div 2 <= b
  BY <1>5
<1>6. \A l \in L : (l < v => l <= Max(R)) /\ (v < l => Min(T) <= l)
  BY <1>3
<1>7. Max(R) \in L /\ Min(T) \in L
  BY <1>3
<1> HIDE DEF R, T
<1>8. /\ (Max(R) + Min(T) + 1) \div 2 \in Int
      /\ Max(R) <= (Max(R) + Min(T) + 1) \div 2
      /\ (Max(R) + Min(T) + 1) \div 2 <= Min(T)
  BY <1>4, <1>5
<1> QED BY <1>2, <1>4, <1>6, <1>7, <1>8 DEF R, T, LineBelow, LineAbove

\* One coordinate of the desks of a pod: those of C move to the middle.
Centred(line, C) ==
    [d \in DOMAIN line |-> IF d \in C THEN Midpoint({line[e] : e \in DOMAIN line}, line[d])
                                     ELSE line[d]]

\* If they are alone on a line between others, they do so without passing another desk.
LEMMA CentredInOrder ==
  ASSUME NEW D, IsFiniteSet(D), NEW line \in [D -> Int], NEW val \in [D -> Int],
         InOrderOf(line, val), NEW C \in SUBSET D, \A d \in C : Flanked(d, line)
  PROVE  Centred(line, C) \in [D -> Int] /\ InOrderOf(Centred(line, C), val)
<1> DEFINE canon == Centred(line, C)
<1>0. canon = [d \in D |-> IF d \in C THEN Midpoint({line[e] : e \in D}, line[d])
                                       ELSE line[d]]
  BY DEF Centred
<1> HIDE DEF canon
<1> DEFINE L == {line[e] : e \in D}
           below(d) == LineBelow(L, line[d])
           above(d) == LineAbove(L, line[d])
<1>1. IsFiniteSet(L) /\ \A l \in L : l \in Int
  <2>1. line \in Surjection(D, L)
    BY DEF Surjection
  <2> QED BY <2>1, FS_Surjection
<1>2. DOMAIN line = D /\ DOMAIN val = D /\ \A d \in D : line[d] \in L /\ line[d] \in Int
  OBVIOUS
<1>3. ASSUME NEW d \in C
      PROVE  /\ \A e \in D \ {d} : line[e] # line[d]
             /\ \E a, b \in L : a < line[d] /\ line[d] < b
  BY <1>2 DEF Flanked
<1> HIDE DEF L
<1>4. ASSUME NEW d \in C
      PROVE  /\ below(d) \in Int /\ below(d) < line[d]
             /\ \A e \in D : line[e] < line[d] => line[e] <= below(d)
             /\ above(d) \in Int /\ line[d] < above(d)
             /\ \A e \in D : line[d] < line[e] => above(d) <= line[e]
             /\ canon[d] = (below(d) + above(d) + 1) \div 2
             /\ canon[d] \in Int /\ below(d) <= canon[d] /\ canon[d] <= above(d)
  <2>1. /\ below(d) \in L /\ below(d) < line[d] /\ \A l \in L : l < line[d] => l <= below(d)
        /\ above(d) \in L /\ line[d] < above(d) /\ \A l \in L : line[d] < l => above(d) <= l
        /\ Midpoint(L, line[d]) = (below(d) + above(d) + 1) \div 2
        /\ Midpoint(L, line[d]) \in Int
        /\ below(d) <= Midpoint(L, line[d]) /\ Midpoint(L, line[d]) <= above(d)
    <3>1. line[d] \in Int /\ \E a, b \in L : a < line[d] /\ line[d] < b
      BY <1>2, <1>3
    <3> QED BY ONLY <1>1, <3>1, MidpointProperties
  <2>2. canon[d] = Midpoint(L, line[d])
    BY <1>0 DEF L
  <2> HIDE DEF below, above
  <2> QED BY <1>1, <1>2, <2>1, <2>2
<1>5. \A d \in D \ C : canon[d] = line[d]
  BY <1>0
<1> HIDE DEF below, above
<1>6. \A d \in D : canon[d] \in Int
  BY <1>2, <1>4, <1>5
<1>7. ASSUME NEW d \in D, NEW e \in D, val[d] <= val[e] PROVE canon[d] <= canon[e]
  <2>1. line[d] <= line[e] /\ line[d] \in Int /\ line[e] \in Int
    BY <1>2, <1>7 DEF InOrderOf
  <2>2. CASE d = e
    BY <1>6, <2>2
  <2>3. CASE d # e /\ line[d] = line[e]
    <3>1. d \notin C /\ e \notin C
      BY <1>3, <2>3
    <3> QED BY <1>5, <2>1, <3>1
  <2>4. CASE line[d] < line[e]
    <3>1. CASE d \notin C /\ e \notin C
      BY <1>5, <2>1, <3>1
    <3>2. CASE d \in C /\ e \notin C
      BY ONLY d \in D, e \in D, C \in SUBSET D, <1>4, <1>5, <2>1, <2>4, <3>2
    <3>3. CASE d \notin C /\ e \in C
      BY ONLY d \in D, e \in D, C \in SUBSET D, <1>4, <1>5, <2>1, <2>4, <3>3
    <3>4. CASE d \in C /\ e \in C
      <4>1. below(d) <= below(e) /\ above(d) <= above(e)
        BY ONLY d \in D, e \in D, <1>4, <2>1, <2>4, <3>4
      <4> QED BY ONLY <1>4, <3>4, <4>1
    <3> QED BY <3>1, <3>2, <3>3, <3>4
  <2> QED BY <2>1, <2>2, <2>3, <2>4
<1>8. canon \in [D -> Int]
  BY <1>0, <1>6
<1> QED BY <1>2, <1>7, <1>8 DEF InOrderOf, canon

-----------------------------------------------------------------------------
(* Alignment: pods *)

\* Being of one cluster does not depend on which of two desks is asked.
LEMMA LinksAreMutual ==
  ASSUME AlignTypeOK, NEW d \in AlignDesks, NEW e \in AlignDesks, NEW med2,
         SameCluster(d, e, med2)
  PROVE  SameCluster(e, d, med2)
<1>1. ASSUME NEW a \in Int, NEW b \in Int PROVE Square(a - b) = Square(b - a)
  BY DEF Square
<1>2. /\ at[d].x \in Int /\ at[d].y \in Int /\ at[e].x \in Int /\ at[e].y \in Int
  BY DEF AlignTypeOK
<1>3. Dist2(d, e) = Dist2(e, d)
  BY <1>1, <1>2 DEF Dist2
<1> QED BY <1>3 DEF SameCluster

Linked(S, sel, med2) == \A e \in S, f \in sel : SameCluster(e, f, med2) => f \in S

\* The pod of a desk is the smallest set of linked desks around it.
LEMMA PodProperties ==
  ASSUME NEW sel, NEW d \in sel, NEW med2
  PROVE  /\ d \in Pod(d, sel, med2) /\ Pod(d, sel, med2) \in SUBSET sel
         /\ Linked(Pod(d, sel, med2), sel, med2)
         /\ \A S \in SUBSET sel : d \in S /\ Linked(S, sel, med2) => Pod(d, sel, med2) \subseteq S
<1>1. Pod(d, sel, med2) = {e \in sel : \A S \in SUBSET sel :
                               d \in S /\ Linked(S, sel, med2) => e \in S}
  BY DEF Pod, Linked
<1>2. Linked(Pod(d, sel, med2), sel, med2)
  BY <1>1 DEF Linked
<1> QED BY <1>1, <1>2

\* A desk is in the pod of any desk of its own pod.
LEMMA PodIsMutual ==
  ASSUME AlignTypeOK, NEW sel \in SUBSET AlignDesks, NEW med2, NEW d \in sel,
         NEW e \in Pod(d, sel, med2)
  PROVE  Pod(e, sel, med2) = Pod(d, sel, med2)
<1>1. e \in sel
  BY PodProperties
<1>2. d \in Pod(e, sel, med2)
  <2>1. SUFFICES ASSUME d \notin Pod(e, sel, med2) PROVE FALSE
    OBVIOUS
  <2> DEFINE S == sel \ Pod(e, sel, med2)
  <2>2. Linked(S, sel, med2)
    <3>1. ASSUME NEW f \in S, NEW g \in sel, SameCluster(f, g, med2) PROVE g \in S
      <4>1. SameCluster(g, f, med2)
        BY <3>1, LinksAreMutual
      <4>2. CASE g \in Pod(e, sel, med2)
        BY <1>1, <4>1, <4>2, PodProperties DEF Linked
      <4> QED BY <4>2
    <3> QED BY <3>1 DEF Linked
  <2>3. Pod(d, sel, med2) \subseteq S
    BY <2>1, <2>2, PodProperties
  <2> QED BY <1>1, <2>3, PodProperties
<1>3. Pod(d, sel, med2) \subseteq Pod(e, sel, med2)
  BY <1>1, <1>2, PodProperties
<1>4. Pod(e, sel, med2) \subseteq Pod(d, sel, med2)
  BY <1>1, PodProperties
<1> QED BY <1>3, <1>4

\* Pods that share a desk are one.
LEMMA PodsApart ==
  ASSUME AlignTypeOK, NEW sel \in SUBSET AlignDesks, NEW med2,
         NEW p \in Pods(sel, med2), NEW q \in Pods(sel, med2), NEW d \in p, d \in q
  PROVE  p = q
<1>1. PICK e \in sel : p = Pod(e, sel, med2)
  BY DEF Pods
<1>2. PICK f \in sel : q = Pod(f, sel, med2)
  BY DEF Pods
<1> QED BY <1>1, <1>2, PodIsMutual

\* Pods are finite sets of selected desks.
LEMMA PodsType ==
  ASSUME NEW sel \in SUBSET AlignDesks, NEW med2, NEW p \in Pods(sel, med2)
  PROVE  p \in SUBSET sel /\ p \in SUBSET AlignDesks /\ IsFiniteSet(p)
<1>1. PICK e \in sel : p = Pod(e, sel, med2)
  BY DEF Pods
<1>2. p \in SUBSET sel
  BY <1>1, PodProperties
<1> QED BY <1>2, FS_Subset, AlignAssumption

\* A desk without another one near it is in no pod.
LEMMA LoneIsNoPod ==
  ASSUME AlignTypeOK, NEW sel \in SUBSET AlignDesks, NEW med2, NEW d \in sel,
         \A e \in sel \ {d} : ~SameCluster(d, e, med2)
  PROVE  d \notin UNION Pods(sel, med2)
<1>1. SUFFICES ASSUME NEW p \in Pods(sel, med2), d \in p PROVE FALSE
  OBVIOUS
<1>2. PICK e \in sel : p = Pod(e, sel, med2)
  BY DEF Pods
<1>3. p = Pod(d, sel, med2)
  BY <1>1, <1>2, PodIsMutual
<1>4. Linked({d}, sel, med2)
  BY DEF Linked
<1>5. p = {d}
  BY <1>3, <1>4, PodProperties
<1>6. Cardinality(p) > 1
  BY DEF Pods
<1> QED BY <1>5, <1>6, FS_Singleton

-----------------------------------------------------------------------------
(* Alignment: the plan *)

Spot == [x : Int, y : Int]

\* Where the places of some desks are as their present ones are.
PlacesInOrder(to, D) ==
    \A d, e \in D : /\ at[d].x <= at[e].x => to[d].x <= to[e].x
                    /\ at[d].y <= at[e].y => to[d].y <= to[e].y

\* autoAlignPodCanon keeps the order of a pod's columns and of its rows.
LEMMA PodCanonProperties ==
  ASSUME AlignTypeOK, NEW D \in SUBSET AlignDesks, IsFiniteSet(D), NEW med2
  PROVE  PodCanon(D, med2) \in [D -> Spot] /\ PlacesInOrder(PodCanon(D, med2), D)
<1> DEFINE xs == [d \in D |-> at[d].x]
           ys == [d \in D |-> at[d].y]
           col == Lines(xs, med2)
           row == Lines(ys, med2)
           C == {d \in D : Flanked(d, col) /\ Flanked(d, row)}
           canonX == Centred(col, C)
           canonY == Centred(row, C)
<1>1. xs \in [D -> Int] /\ ys \in [D -> Int]
  BY DEF AlignTypeOK
<1>2. PodCanon(D, med2) = [d \in D |-> [x |-> canonX[d], y |-> canonY[d]]]
  <2>1. DOMAIN col = D /\ DOMAIN row = D
    BY DEF Lines
  <2>2. \A d \in D : /\ canonX[d] = IF d \in C THEN Midpoint({col[e] : e \in D}, col[d])
                                              ELSE col[d]
                     /\ canonY[d] = IF d \in C THEN Midpoint({row[e] : e \in D}, row[d])
                                              ELSE row[d]
    BY <2>1 DEF Centred
  <2> HIDE DEF canonX, canonY
  <2> QED BY <2>2 DEF PodCanon
<1>3. DOMAIN xs = D /\ DOMAIN ys = D /\ \A d \in D : xs[d] = at[d].x /\ ys[d] = at[d].y
  OBVIOUS
<1> HIDE DEF xs, ys
<1>4. /\ col \in [D -> Int] /\ InOrderOf(col, xs)
      /\ row \in [D -> Int] /\ InOrderOf(row, ys)
  BY <1>1, LinesProperties
<1> HIDE DEF col, row
<1>5. C \in SUBSET D /\ \A d \in C : Flanked(d, col) /\ Flanked(d, row)
  OBVIOUS
<1> HIDE DEF C
<1>6. canonX \in [D -> Int] /\ InOrderOf(canonX, xs)
  BY <1>1, <1>4, <1>5, CentredInOrder
<1>7. canonY \in [D -> Int] /\ InOrderOf(canonY, ys)
  BY <1>1, <1>4, <1>5, CentredInOrder
<1> HIDE DEF canonX, canonY
<1>8. PodCanon(D, med2) \in [D -> Spot]
  BY <1>2, <1>6, <1>7 DEF Spot
<1>9. \A d \in D : PodCanon(D, med2)[d].x = canonX[d] /\ PodCanon(D, med2)[d].y = canonY[d]
  BY <1>2
<1> QED BY <1>3, <1>6, <1>7, <1>8, <1>9 DEF InOrderOf, PlacesInOrder

\* autoAlignPlan places exactly the desks of pods, each pod in its order.
LEMMA PlanProperties ==
  ASSUME AlignTypeOK, NEW sel \in SUBSET AlignDesks
  PROVE  /\ Plan(sel) \in [UNION PodsOf(sel) -> Spot]
         /\ \A pod \in PodsOf(sel) : PlacesInOrder(Plan(sel), pod)
<1> DEFINE med2  == MedianSpacing2(sel)
           pods  == Pods(sel, med2)
           moved == UNION pods
           canonOf == [p \in pods |-> PodCanon(p, med2)]
           canon == [d \in moved |-> canonOf[CHOOSE p \in pods : d \in p][d]]
           cx == [d \in moved |-> canon[d].x]
           cy == [d \in moved |-> canon[d].y]
           lx == Lines(cx, med2)
           ly == Lines(cy, med2)
<1>1. /\ PodsOf(sel) = pods
      /\ Plan(sel) = [d \in moved |-> [x |-> lx[d], y |-> ly[d]]]
  BY Zenon DEF PodsOf, Plan
<1> HIDE DEF med2
<1>2. \A p \in pods : p \in SUBSET AlignDesks /\ IsFiniteSet(p)
  BY PodsType
<1>3. \A p \in pods : PodCanon(p, med2) \in [p -> Spot] /\ PlacesInOrder(PodCanon(p, med2), p)
  BY <1>2, PodCanonProperties
<1>4. ASSUME NEW p \in pods, NEW d \in p PROVE d \in moved /\ canon[d] = PodCanon(p, med2)[d]
  <2>1. d \in moved
    BY <1>4
  <2>2. (CHOOSE q \in pods : d \in q) \in pods /\ d \in (CHOOSE q \in pods : d \in q)
    BY <1>4
  <2>3. (CHOOSE q \in pods : d \in q) = p
    BY <1>4, <2>2, PodsApart
  <2> QED BY <2>1, <2>3
<1>5. moved \in SUBSET AlignDesks /\ IsFiniteSet(moved)
  <2>1. moved \in SUBSET AlignDesks
    BY <1>2
  <2> QED BY <2>1, FS_Subset, AlignAssumption
<1>6. \A d \in moved : \E p \in pods : d \in p
  OBVIOUS
<1> HIDE DEF pods, moved, canon
<1>7. \A d \in moved : canon[d] \in Spot
  BY <1>3, <1>4, <1>6
<1>8. cx \in [moved -> Int] /\ cy \in [moved -> Int]
  BY <1>7 DEF Spot
<1>9. /\ DOMAIN cx = moved /\ DOMAIN cy = moved
      /\ \A d \in moved : cx[d] = canon[d].x /\ cy[d] = canon[d].y
  OBVIOUS
<1> HIDE DEF cx, cy
<1>10. /\ lx \in [moved -> Int] /\ InOrderOf(lx, cx)
       /\ ly \in [moved -> Int] /\ InOrderOf(ly, cy)
  BY <1>5, <1>8, LinesProperties
<1> HIDE DEF lx, ly
<1>11. Plan(sel) \in [moved -> Spot]
  BY <1>1, <1>10 DEF Spot
<1>12. \A d \in moved : Plan(sel)[d].x = lx[d] /\ Plan(sel)[d].y = ly[d]
  BY <1>1
<1>13. ASSUME NEW pod \in pods PROVE PlacesInOrder(Plan(sel), pod)
  <2>1. PlacesInOrder(canon, pod)
    BY <1>3, <1>4, <1>13 DEF PlacesInOrder
  <2>2. \A d \in pod : d \in moved
    BY <1>4, <1>13
  <2> QED BY <1>9, <1>10, <1>12, <2>1, <2>2 DEF InOrderOf, PlacesInOrder
<1> QED BY <1>1, <1>11, <1>13 DEF pods, moved

-----------------------------------------------------------------------------
(* Alignment: theorems *)

\* Desks stand at whole coordinates whatever is aligned (autoAlignPlan): every
\* mean is taken over a band that has desks, every midpoint between two lines.
THEOREM AlignTyping == AlignSpec => []AlignTypeOK
<1>1. AlignInit => AlignTypeOK
  BY AlignAssumption DEF AlignInit, AlignTypeOK
<1>2. AlignTypeOK /\ [AlignNext]_alignVars => AlignTypeOK'
  <2>1. ASSUME AlignTypeOK, NEW sel \in SUBSET AlignDesks, Align(sel) PROVE AlignTypeOK'
    <3>1. Plan(sel) \in [UNION PodsOf(sel) -> Spot]
      BY <2>1, PlanProperties
    <3>2. at' \in [AlignDesks -> Spot]
      BY <2>1, <3>1 DEF Align, AlignTypeOK, Spot
    <3> QED BY <2>1, <3>2 DEF Align, AlignTypeOK, Spot
  <2>2. ASSUME AlignTypeOK, UNCHANGED alignVars PROVE AlignTypeOK'
    BY <2>2 DEF alignVars, AlignTypeOK
  <2> QED BY <2>1, <2>2 DEF AlignNext
<1> QED BY <1>1, <1>2, PTL DEF AlignSpec

\* For any number of desks anywhere: aligning never swaps two desks of a pod, along
\* either axis (autoAlignPlan, autoAlignPodCanon, autoAlignUnifyCanon).
THEOREM OrderIsKept == AlignSpec => OrderKept
<1>1. AlignTypeOK /\ [AlignNext]_alignVars =>
        [\A pod \in PodsOf(aligned') : \A d, e \in pod :
         /\ at[d].x =< at[e].x => at'[d].x =< at'[e].x
         /\ at[d].y =< at[e].y => at'[d].y =< at'[e].y]_alignVars
  <2> SUFFICES ASSUME AlignTypeOK, NEW sel \in SUBSET AlignDesks, Align(sel),
                      NEW pod \in PodsOf(aligned'), NEW d \in pod, NEW e \in pod
               PROVE  /\ at[d].x =< at[e].x => at'[d].x =< at'[e].x
                      /\ at[d].y =< at[e].y => at'[d].y =< at'[e].y
    BY DEF AlignNext
  <2>1. /\ aligned' = sel
        /\ at' = [c \in AlignDesks |-> IF c \in DOMAIN Plan(sel) THEN Plan(sel)[c] ELSE at[c]]
    BY DEF Align
  <2>2. /\ Plan(sel) \in [UNION PodsOf(sel) -> Spot] /\ PlacesInOrder(Plan(sel), pod)
        /\ pod \in SUBSET AlignDesks
    BY <2>1, PlanProperties, PodsType DEF PodsOf
  <2>3. at'[d] = Plan(sel)[d] /\ at'[e] = Plan(sel)[e]
    BY <2>1, <2>2
  <2> QED BY <2>2, <2>3 DEF PlacesInOrder
<1> QED BY <1>1, AlignTyping, PTL DEF AlignSpec, OrderKept

\* For any number of desks anywhere: desks outside the selection, and selected ones
\* without another one near, stay where they are (autoAlignPlan).
THEOREM OthersStayPut == AlignSpec => OthersStay
<1>1. AlignTypeOK /\ [AlignNext]_alignVars =>
        [LET near(d) == {e \in aligned' \ {d} :
                         SameCluster(d, e, MedianSpacing2(aligned'))}
       IN  \A d \in AlignDesks :
             d \notin aligned' \/ near(d) = {} => at'[d] = at[d]]_alignVars
  <2> SUFFICES ASSUME AlignTypeOK, NEW sel \in SUBSET AlignDesks, Align(sel),
                      NEW d \in AlignDesks,
                      \/ d \notin aligned'
                      \/ {e \in aligned' \ {d} :
                            SameCluster(d, e, MedianSpacing2(aligned'))} = {}
               PROVE  at'[d] = at[d]
    BY DEF AlignNext
  <2>1. /\ aligned' = sel
        /\ at' = [c \in AlignDesks |-> IF c \in DOMAIN Plan(sel) THEN Plan(sel)[c] ELSE at[c]]
    BY DEF Align
  <2>2. d \notin UNION PodsOf(sel)
    <3>1. CASE d \notin sel
      BY <3>1, PodsType DEF PodsOf
    <3>2. CASE d \in sel
      BY <2>1, <3>2, LoneIsNoPod DEF PodsOf
    <3> QED BY <3>1, <3>2
  <2>3. Plan(sel) \in [UNION PodsOf(sel) -> Spot] /\ d \in DOMAIN at
    BY PlanProperties DEF AlignTypeOK
  <2> QED BY <2>1, <2>2, <2>3
<1> QED BY <1>1, AlignTyping, PTL DEF AlignSpec, OthersStay

\* Both calculations stay within their types, for all their inputs.
THEOREM SeatsTyping == Spec /\ AlignSpec => []SeatsTypeOK
<1>1. TypeOK /\ AlignTypeOK => SeatsTypeOK
  BY DEF SeatsTypeOK
<1> QED
  BY Typing, AlignTyping, <1>1, PTL
=============================================================================
