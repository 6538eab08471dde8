---------------------------- MODULE SourceAssign ----------------------------
(***************************************************************************)
(* occCtx.assignMap (internal/web/sources.go): who sits where on one map.  *)
(*                                                                         *)
(* The sources are taken in priority order, the occupants of a source in   *)
(* the order of its mirror; one step decides one occupant.  A seat is the  *)
(* position <<i, j>> of an occupant: entry j of the mirror of the i-th     *)
(* source.  A desk's occupant slice holds its seats in this order, so the  *)
(* set "result" loses nothing of the code's map of slices.                 *)
(*                                                                         *)
(* A mirror is read when its source's turn comes; what a sync writes       *)
(* before that is covered by the free choice of mirrors in Init.           *)
(***************************************************************************)
EXTENDS Integers, Sequences, FiniteSets

CONSTANTS
    Refs,       \* source references ("ldap:1", "entra:2", "robin")
    Numbers,    \* desk numbers, trimmed and lowercased
    Persons,    \* identities, see Identity
    MaxShared,  \* occupants shown at one desk (4 in the code)
    SourceLists,  \* the priority lists, desk lists and mirrors considered:
    DeskLists,    \* TLC gets small sets, the theorems hold for any
    Mirrors

Identity == [userid : STRING, mail : STRING, aliases : SUBSET STRING]

Types     == {"ldap", "entra", "robin"}
Source    == [ref : Refs, type : Types, disabled : BOOLEAN, assign : BOOLEAN,
              keepDuplicates : BOOLEAN]
\* padded: the stored desk number has blanks around it.
Desk      == [number : Numbers, padded : BOOLEAN, type : {"addesk", "localdesk"}]
\* One row of a directory mirror or of Robin's occupancy.
Placement == [person : Persons, office : Numbers]
Keys      == Numbers \X BOOLEAN

\* listUnifiedSources lists every source once.
Distinct(s) == \A m, n \in DOMAIN s : s[m].ref = s[n].ref => m = n

ASSUME PersonsAssumption   == Persons \subseteq Identity
ASSUME MaxSharedAssumption == MaxShared \in Nat
ASSUME InputsAssumption    ==
    /\ SourceLists \subseteq Seq(Source) /\ \A s \in SourceLists : Distinct(s)
    /\ DeskLists \subseteq Seq(Desk)
    /\ Mirrors \subseteq [Refs -> Seq(Placement)]

VARIABLES
    desks,       \* the desks of the map, in stored order
    sources,     \* listUnifiedSources: highest priority first
    mirror,      \* ref -> the rows the source would place
    i, j,        \* the loop indices: entry j of source i is next
    result,      \* the seats assigned so far
    deskOwner,   \* desk key -> ref of the source that owns the desk
    placed,      \* persons placed by sources of higher priority
    placedThis   \* persons placed by the current source

inputs == <<desks, sources, mirror>>
vars == <<desks, sources, mirror, i, j, result, deskOwner, placed, placedThis>>

----------------------------------------------------------------------------
(* Pure parts *)

SamePerson(a, b) ==
    \/ a.userid # "" /\ a.userid = b.userid
    \/ a.mail # "" /\ (a.mail = b.mail \/ a.mail \in b.aliases)
    \/ b.mail # "" /\ b.mail \in a.aliases

ContainsPerson(people, p) == \E q \in people : SamePerson(q, p)

\* deskByNum: the last desk stored under a number.
DesksNumbered(ds, n) == {k \in DOMAIN ds : ds[k].number = n}
DeskByNum(ds, n) ==
    ds[CHOOSE k \in DesksNumbered(ds, n) : \A l \in DesksNumbered(ds, n) : l <= k]

\* The key of a desk: its number as stored, lowercased but not trimmed.
RawKey(d) == <<d.number, d.padded>>

Row(q)   == mirror[sources[q[1]].ref][q[2]]
Who(q)   == Row(q).person
Key(q)   == RawKey(DeskByNum(desks, Row(q).office))
Rows(s)  == DOMAIN mirror[sources[s].ref]

Positions == UNION {{s} \X Rows(s) : s \in DOMAIN sources}

Participates(s) == ~sources[s].disabled /\ sources[s].assign

\* sourceOccupancy: rows that name a desk of the map; directory sources fill
\* only "addesk" desks, Robin any desk.
OnMap(q) ==
    /\ DesksNumbered(desks, Row(q).office) # {}
    /\ sources[q[1]].type = "robin" \/ DeskByNum(desks, Row(q).office).type = "addesk"

SeatsAt(k) == {q \in result : Key(q) = k}

----------------------------------------------------------------------------
(* The loops *)

Init ==
    /\ desks \in DeskLists
    /\ sources \in SourceLists
    /\ mirror \in Mirrors
    /\ i = 1 /\ j = 1
    /\ result = {}
    /\ deskOwner = [k \in {} |-> k]
    /\ placed = {} /\ placedThis = {}

More == i <= Len(sources)
Occupant == More /\ Participates(i) /\ j \in Rows(i)
Here == <<i, j>>

\* Disabled, or excluded from desk assignment.
SkipSource ==
    /\ More /\ ~Participates(i)
    /\ i' = i + 1
    /\ UNCHANGED <<inputs, j, result, deskOwner, placed, placedThis>>

\* Mutant: the people of a finished source are forgotten.
NextSource_Forgets ==
    /\ More /\ Participates(i) /\ j \notin Rows(i)
    /\ i' = i + 1 /\ j' = 1
    /\ placedThis' = {}
    /\ UNCHANGED <<inputs, result, deskOwner, placed>>

\* The source is finished: only now may later sources drop its people.
NextSource ==
    /\ More /\ Participates(i) /\ j \notin Rows(i)
    /\ i' = i + 1 /\ j' = 1
    /\ placed' = placed \cup placedThis
    /\ placedThis' = {}
    /\ UNCHANGED <<inputs, result, deskOwner>>

Continue ==
    /\ j' = j + 1
    /\ UNCHANGED <<inputs, i, result, deskOwner, placed, placedThis>>

\* Mutants: desks have no owner; the meaning of keepDuplicates is inverted; one
\* occupant too many.
OwnedByOther_Ignored == FALSE
Duplicate_Inverted   == sources[i].keepDuplicates /\ ContainsPerson(placed, Who(Here))
Full_OffByOne        == Cardinality(SeatsAt(Key(Here))) > MaxShared

OwnedByOther == Key(Here) \in DOMAIN deskOwner /\ deskOwner[Key(Here)] # sources[i].ref
Duplicate    == ~sources[i].keepDuplicates /\ ContainsPerson(placed, Who(Here))
Full         == Cardinality(SeatsAt(Key(Here))) >= MaxShared

SkipOffMap    == Occupant /\ ~OnMap(Here) /\ Continue
SkipOwned     == Occupant /\ OnMap(Here) /\ OwnedByOther /\ Continue
SkipDuplicate == Occupant /\ OnMap(Here) /\ ~OwnedByOther /\ Duplicate /\ Continue
SkipFull      == Occupant /\ OnMap(Here) /\ ~OwnedByOther /\ ~Duplicate /\ Full /\ Continue

\* Mutant: the row after the one decided is recorded.
Place_OffByOne ==
    /\ Occupant /\ OnMap(Here)
    /\ ~OwnedByOther /\ ~Duplicate /\ ~Full
    /\ deskOwner' = [k \in DOMAIN deskOwner \cup {Key(Here)} |->
                        IF k = Key(Here) THEN sources[i].ref ELSE deskOwner[k]]
    /\ result' = result \cup {<<i, j + 1>>}
    /\ placedThis' = placedThis \cup {Who(Here)}
    /\ j' = j + 1
    /\ UNCHANGED <<inputs, i, placed>>

Place ==
    /\ Occupant /\ OnMap(Here)
    /\ ~OwnedByOther /\ ~Duplicate /\ ~Full
    /\ deskOwner' = [k \in DOMAIN deskOwner \cup {Key(Here)} |->
                        IF k = Key(Here) THEN sources[i].ref ELSE deskOwner[k]]
    /\ result' = result \cup {Here}
    /\ placedThis' = placedThis \cup {Who(Here)}
    /\ j' = j + 1
    /\ UNCHANGED <<inputs, i, placed>>

Next ==
    \/ SkipSource \/ NextSource
    \/ SkipOffMap \/ SkipOwned \/ SkipDuplicate \/ SkipFull \/ Place

Spec == Init /\ [][Next]_vars
FairSpec == Spec /\ WF_vars(Next)

Finished == ~More

----------------------------------------------------------------------------
(* Properties *)

TypeOK ==
    /\ desks \in DeskLists /\ sources \in SourceLists /\ mirror \in Mirrors
    /\ i \in Nat \ {0} /\ j \in Nat \ {0}
    /\ result \subseteq Positions
    /\ DOMAIN deskOwner \subseteq Keys
    /\ \A k \in DOMAIN deskOwner : deskOwner[k] \in Refs
    /\ placed \subseteq Persons /\ placedThis \subseteq Persons

\* What the two loops compute, said without them: a seat is taken exactly when
\* its source takes part and the row names a desk of the map, no source of
\* higher priority has the desk, none has placed the person (or this source
\* keeps duplicates), and fewer than MaxShared earlier rows of the same source
\* sit there.
Wins(q) ==
    /\ Participates(q[1])
    /\ OnMap(q)
    /\ \A s \in result : Key(s) = Key(q) => s[1] >= q[1]
    /\ \/ sources[q[1]].keepDuplicates
       \/ \A s \in result : s[1] < q[1] => ~SamePerson(Who(s), Who(q))
    /\ Cardinality({s \in result : Key(s) = Key(q) /\ s[1] = q[1] /\ s[2] < q[2]}) < MaxShared

\* Rows the loops have passed.
Before(q) == q[1] < i \/ (q[1] = i /\ q[2] < j)

\* The loops agree with that definition on every row they have passed, and so,
\* once finished, on every row.
DecidedRight ==
    /\ \A q \in Positions : Before(q) => (q \in result <=> Wins(q))
    /\ Finished => result = {q \in Positions : Wins(q)}

\* "Higher-priority sources win each desk outright": a desk never shows the
\* people of two sources, whatever the rows, the toggles and repeated desk
\* numbers are, so buildMapDesks may read its type off the first occupant.
OneSourcePerDesk ==
    \A s, q \in result : Key(s) = Key(q) => s[1] = q[1]

\* A person a higher-priority source has placed on the map is placed again only
\* by a source that keeps duplicates; within one source (office "A|B") always.
NoUndeclaredDuplicate ==
    \A s, q \in result :
        s[1] < q[1] /\ SamePerson(Who(s), Who(q)) => sources[q[1]].keepDuplicates

\* A desk shows at most MaxShared people.
AtMostMaxShared == \A q \in result : Cardinality(SeatsAt(Key(q))) <= MaxShared

\* What the administrators are promised of the seats: sources do not share a
\* desk, repeated people are declared, and no desk is overcrowded.
SeatRules == OneSourcePerDesk /\ NoUndeclaredDuplicate /\ AtMostMaxShared
=============================================================================
