---------------------------- MODULE DeskProofs ----------------------------
(***************************************************************************)
(* What Booking and DeskLook guarantee for any maps, desks, users and      *)
(* number of concurrent handlers.                                          *)
(*                                                                         *)
(* Booking: the types hold with any number of exports and imports; who may *)
(* remove a booking, and how two get the same slot, as long as no archive  *)
(* is imported: an import gives row numbers a second time.  DeskLook: the  *)
(* clients and the health report agree, whatever the items and bookings.   *)
(***************************************************************************)
EXTENDS Booking, DeskLook, FiniteSetTheorems, TLAPS

-----------------------------------------------------------------------------
(* The inductive invariant.  A handler works on lists that others make     *)
(* stale.  What it knows all the same: a row number stands for one booking *)
(* for good, rows it listed are gone or the same, and rows it did not list *)
(* came after it.                                                          *)

BookingRows == UNION {[S -> Booking] : S \in SUBSET Nat}

Working ==
    [pc : {"maps", "existing", "clean", "refresh", "act", "cancel"}, mode : Modes,
     req : Booking, cur : Days, names : SUBSET Names, list : BookingRows,
     del : SUBSET Nat, there : SUBSET Nat]

DataOK ==
    /\ DOMAIN maps \subseteq Names /\ \A m \in DOMAIN maps : maps[m] \in Zones
    /\ bookings \in BookingRows /\ seq \in Nat /\ DOMAIN bookings \subseteq 1..seq
    /\ DOMAIN bookings \subseteq DOMAIN arrivals
    /\ clock \in [Zones -> Days]

BudgetOK ==
    /\ DOMAIN budget = {"requests", "rename", "delete", "edit", "archive"}
    /\ \A b \in DOMAIN budget : budget[b] \in Int
    /\ budget["archive"] = 0
    /\ MaxRename = 0 => budget["rename"] = 0

\* The same booking, though its map may have been renamed.
Same(a, b) ==
    /\ a.date = b.date /\ a.desk = b.desk /\ a.user = b.user
    /\ MaxRename = 0 => a.map = b.map

\* A handler at x, with these rows, their last number and this clock.
Fine(x, rows, last, now) ==
    /\ x.there \subseteq 1..last
    /\ \A k \in DOMAIN x.list :
         /\ k \in 1..last
         /\ k \in DOMAIN rows => Same(x.list[k], rows[k])
    /\ x.pc = "act" => x.there \cap DOMAIN rows \subseteq DOMAIN x.list
    /\ x.pc \in {"maps", "existing", "act"} => x.del = {}
    /\ \A k \in x.del :
         /\ k \in DOMAIN x.list
         /\ x.pc = "cancel" => x.list[k] = x.req
         /\ x.pc # "cancel" => \E z \in Zones : x.list[k].date < now[z]

HandlersOK ==
    /\ w \in [Requests -> {Idle} \cup Working]
    /\ \A r \in Requests : w[r] # Idle => Fine(w[r], bookings, seq, clock)

IInv == DataOK /\ BudgetOK /\ HandlersOK

-----------------------------------------------------------------------------
(* Lemmas                                                                  *)

\* What a step does to the rows and the clock: rows go, get another map or
\* come with a new number, and no day comes back.
Evolves(rows, last, now, rows2, last2, now2) ==
    /\ last2 >= last
    /\ \A k \in DOMAIN rows2 :
         \/ k \in DOMAIN rows /\ Same(rows[k], rows2[k])
         \/ k > last
    /\ \A z \in Zones : now2[z] >= now[z]

LEMMA FineStays ==
    ASSUME NEW x \in Working, NEW rows, NEW last \in Nat, NEW now \in [Zones -> Days],
           NEW rows2, NEW last2 \in Nat, NEW now2 \in [Zones -> Days],
           Fine(x, rows, last, now), Evolves(rows, last, now, rows2, last2, now2)
    PROVE  Fine(x, rows2, last2, now2)
<1>1. x.there \subseteq 1..last2
  BY DEF Fine, Evolves
<1>2. ASSUME NEW k \in DOMAIN x.list
      PROVE  k \in 1..last2 /\ (k \in DOMAIN rows2 => Same(x.list[k], rows2[k]))
  <2>1. k \in 1..last /\ (k \in DOMAIN rows => Same(x.list[k], rows[k]))
    BY <1>2 DEF Fine
  <2> QED BY <2>1 DEF Evolves, Same
<1>3. ASSUME x.pc = "act" PROVE x.there \cap DOMAIN rows2 \subseteq DOMAIN x.list
  BY <1>3 DEF Fine, Evolves
<1>4. \A k \in x.del :
        /\ k \in DOMAIN x.list
        /\ x.pc = "cancel" => x.list[k] = x.req
        /\ x.pc # "cancel" => \E z \in Zones : x.list[k].date < now2[z]
  <2> SUFFICES ASSUME NEW k \in x.del, x.pc # "cancel"
               PROVE  \E z \in Zones : x.list[k].date < now2[z]
    BY DEF Fine
  <2>1. PICK z \in Zones : k \in DOMAIN x.list /\ x.list[k].date < now[z]
    BY DEF Fine
  <2>2. x.list[k].date \in Int /\ now[z] \in Int /\ now2[z] \in Int /\ now2[z] >= now[z]
    BY <2>1 DEF Working, BookingRows, Booking, Days, Evolves
  <2> QED BY <2>1, <2>2
<1> QED BY <1>1, <1>2, <1>3, <1>4 DEF Fine

LEMMA IdleIsNotWorking == Idle \notin Working
<1>1. ASSUME NEW x \in Working PROVE x.pc # "idle"
  BY <1>1 DEF Working
<1> QED BY <1>1 DEF Idle

\* A handler that is anywhere in its course has its request.
LEMMA HandlerIsWorking ==
    ASSUME HandlersOK, NEW r \in Requests, w[r].pc # "idle"
    PROVE  w[r] \in Working /\ Fine(w[r], bookings, seq, clock)
BY DEF HandlersOK, Idle

LEMMA RowProperties ==
    ASSUME NEW rows \in BookingRows, NEW k \in DOMAIN rows
    PROVE  /\ k \in Nat /\ rows[k] \in Booking
           /\ rows[k].date \in Days /\ rows[k].map \in Names
           /\ rows[k].desk \in Desks /\ rows[k].user \in Users
BY DEF BookingRows, Booking

LEMMA WithoutProperties ==
    ASSUME NEW rows \in BookingRows, NEW k
    PROVE  /\ Without(rows, k) \in BookingRows
           /\ DOMAIN Without(rows, k) = DOMAIN rows \ {k}
           /\ \A l \in DOMAIN rows \ {k} : Without(rows, k)[l] = rows[l]
<1>1. PICK S \in SUBSET Nat : rows \in [S -> Booking]
  BY DEF BookingRows
<1>2. Without(rows, k) \in [S \ {k} -> Booking]
  BY <1>1 DEF Without
<1> QED BY <1>1, <1>2 DEF Without, BookingRows

LEMMA TodayIsADay ==
    ASSUME DataOK, NEW m PROVE MapToday(m) \in Days /\ \E z \in Zones : MapToday(m) = clock[z]
BY ZonesAssumption DEF DataOK, MapToday

LEMMA SpendProperties ==
    ASSUME BudgetOK, NEW b \in {"requests", "rename", "delete", "edit", "archive"}, Spend(b)
    PROVE  BudgetOK' /\ budget[b] > 0
BY DEF BudgetOK, Spend

\* A step after which the handlers stand as before, but one.
LEMMA OthersStayFine ==
    ASSUME DataOK, HandlersOK, DataOK',
           Evolves(bookings, seq, clock, bookings', seq', clock'),
           NEW r \in Requests, NEW x \in {Idle} \cup Working, Become(r, x),
           x # Idle => Fine(x, bookings', seq', clock')
    PROVE  HandlersOK'
<1>1. w' \in [Requests -> {Idle} \cup Working]
  BY DEF Become, HandlersOK
<1>2. ASSUME NEW q \in Requests, w'[q] # Idle PROVE Fine(w'[q], bookings', seq', clock')
  <2>1. CASE q = r
    BY <1>2, <2>1 DEF Become, HandlersOK
  <2>2. CASE q # r
    <3>1. w'[q] = w[q] /\ w[q] \in Working /\ Fine(w[q], bookings, seq, clock)
      BY <1>2, <2>2 DEF Become, HandlersOK
    <3>2. /\ seq \in Nat /\ seq' \in Nat
          /\ clock \in [Zones -> Days] /\ clock' \in [Zones -> Days]
      BY DEF DataOK
    <3> QED BY <3>1, <3>2, FineStays
  <2> QED BY <2>1, <2>2
<1> QED BY <1>1, <1>2 DEF HandlersOK

\* A step of the world around them.
LEMMA AllStayFine ==
    ASSUME DataOK, HandlersOK, DataOK', UNCHANGED w,
           Evolves(bookings, seq, clock, bookings', seq', clock')
    PROVE  HandlersOK'
<1>1. ASSUME NEW q \in Requests, w'[q] # Idle PROVE Fine(w'[q], bookings', seq', clock')
  <2>1. w'[q] = w[q] /\ w[q] \in Working /\ Fine(w[q], bookings, seq, clock)
    BY <1>1 DEF HandlersOK
  <2>2. /\ seq \in Nat /\ seq' \in Nat
        /\ clock \in [Zones -> Days] /\ clock' \in [Zones -> Days]
    BY DEF DataOK
  <2> QED BY <2>1, <2>2, FineStays
<1> QED BY <1>1 DEF HandlersOK

LEMMA NothingEvolves ==
    ASSUME DataOK, UNCHANGED <<bookings, seq, clock>>
    PROVE  Evolves(bookings, seq, clock, bookings', seq', clock')
<1>1. \A z \in Zones : clock[z] \in Int
  BY DEF DataOK, Days
<1> QED BY <1>1 DEF DataOK, Evolves, Same

\* A handler goes on without writing.
LEMMA ReadingKeepsIInv ==
    ASSUME IInv, UNCHANGED <<world, store, arrivals>>, BudgetOK',
           NEW r \in Requests, NEW x \in {Idle} \cup Working, Become(r, x),
           x # Idle => Fine(x, bookings, seq, clock)
    PROVE  IInv'
<1>1. UNCHANGED <<maps, clock, bookings, seq, arrivals>>
  BY DEF world, store
<1>2. DataOK'
  BY <1>1 DEF IInv, DataOK
<1> QED BY <1>1, <1>2, NothingEvolves, OthersStayFine DEF IInv

-----------------------------------------------------------------------------
(* Handlers                                                                *)

LEMMA BudgetStays == BudgetOK /\ UNCHANGED budget => BudgetOK'
BY DEF BudgetOK

LEMMA ReceiveKeepsIInv ==
    ASSUME IInv, NEW r \in Requests, Receive(r) PROVE IInv'
<1>1. PICK mode \in Modes, q \in Booking :
        /\ IF mode = "list" THEN UNCHANGED budget ELSE Spend("requests")
        /\ Become(r, [pc |-> "maps", mode |-> mode, req |-> q, cur |-> MapToday(q.map),
                      names |-> {}, list |-> Nothing, del |-> {},
                      there |-> DOMAIN bookings])
  BY DEF Receive
<1> DEFINE x == [pc |-> "maps", mode |-> mode, req |-> q, cur |-> MapToday(q.map),
                 names |-> {}, list |-> Nothing, del |-> {}, there |-> DOMAIN bookings]
<1>2. BudgetOK'
  BY <1>1, BudgetStays, SpendProperties DEF IInv
<1>3. Nothing \in BookingRows /\ DOMAIN Nothing = {}
  <2>1. Nothing \in [{} -> Booking] /\ {} \in SUBSET Nat
    BY DEF Nothing
  <2> QED BY <2>1 DEF BookingRows
<1>4. MapToday(q.map) \in Days /\ DOMAIN bookings \subseteq 1..seq /\ seq \in Nat
  BY TodayIsADay DEF IInv, DataOK
<1>5. x \in Working
  BY <1>3, <1>4 DEF Working
<1>6. Fine(x, bookings, seq, clock)
  BY <1>3, <1>4 DEF Fine
<1>7. UNCHANGED <<world, store, arrivals>>
  BY DEF Receive
<1> QED BY <1>1, <1>2, <1>5, <1>6, <1>7, ReadingKeepsIInv

LEMMA ListKeepsIInv ==
    ASSUME IInv, NEW r \in Requests, ListMaps(r) \/ ListExisting(r) PROVE IInv'
<1>1. UNCHANGED <<world, store, budget, arrivals>> /\ BudgetOK'
  BY BudgetStays DEF ListMaps, ListExisting, IInv
<1>2. CASE ListMaps(r)
  <2> DEFINE x == [w[r] EXCEPT !.pc = "existing", !.names = DOMAIN maps]
  <2>1. w[r].pc = "maps" /\ Become(r, x)
    BY <1>2 DEF ListMaps, At
  <2>2. w[r] \in Working /\ Fine(w[r], bookings, seq, clock)
    BY <2>1, HandlerIsWorking DEF IInv
  <2>3. x \in Working
    BY <2>2 DEF Working, IInv, DataOK
  <2>4. /\ x.pc = "existing" /\ x.list = w[r].list /\ x.del = w[r].del
        /\ x.there = w[r].there /\ x.req = w[r].req
    BY <2>2 DEF Working
  <2>5. Fine(x, bookings, seq, clock)
    BY <2>1, <2>2, <2>4 DEF Fine
  <2> HIDE DEF x
  <2> QED BY <1>1, <2>1, <2>3, <2>5, ReadingKeepsIInv
<1>3. CASE ListExisting(r)
  <2> DEFINE x == [w[r] EXCEPT !.pc = "clean", !.list = bookings]
  <2>1. w[r].pc = "existing" /\ Become(r, x)
    BY <1>3 DEF ListExisting, At
  <2>2. w[r] \in Working /\ Fine(w[r], bookings, seq, clock)
    BY <2>1, HandlerIsWorking DEF IInv
  <2>3. x \in Working
    BY <2>2 DEF Working, IInv, DataOK
  <2>4. /\ x.pc = "clean" /\ x.list = bookings /\ x.del = w[r].del
        /\ x.there = w[r].there
    BY <2>2 DEF Working
  <2>5. Fine(x, bookings, seq, clock)
    BY <2>1, <2>2, <2>4 DEF Fine, IInv, DataOK, Same
  <2> HIDE DEF x
  <2> QED BY <1>1, <2>1, <2>3, <2>5, ReadingKeepsIInv
<1> QED BY <1>2, <1>3

LEMMA CleanMapKeepsIInv ==
    ASSUME IInv, NEW r \in Requests, CleanMap(r) PROVE IInv'
<1>1. w[r].pc = "clean" /\ w[r].del = {}
      /\ UNCHANGED <<world, store, budget, arrivals>>
  BY DEF CleanMap, At
<1>2. w[r] \in Working /\ Fine(w[r], bookings, seq, clock)
  BY <1>1, HandlerIsWorking DEF IInv
<1> DEFINE past(m) == {k \in DOMAIN w[r].list :
                         w[r].list[k].map = m /\ w[r].list[k].date < MapToday(m)}
<1>3. PICK m \in w[r].names :
        Become(r, [w[r] EXCEPT
            !.names = @ \ {m},
            !.cur = IF w[r].mode = "book" /\ w[r].req.map = m THEN MapToday(m) ELSE @,
            !.del = past(m)])
  BY DEF CleanMap
<1> DEFINE today == IF w[r].mode = "book" /\ w[r].req.map = m THEN MapToday(m) ELSE w[r].cur
           x == [w[r] EXCEPT !.names = @ \ {m}, !.cur = today, !.del = past(m)]
<1>4. /\ MapToday(m) \in Days /\ \E z \in Zones : MapToday(m) = clock[z]
  BY TodayIsADay DEF IInv
<1>5. today \in Days
  BY <1>2, <1>4 DEF Working
<1>6. past(m) \in SUBSET Nat
  BY <1>2 DEF Working, BookingRows
<1>7. x \in Working /\ Become(r, x)
  <2>1. Become(r, x)
    BY <1>3
  <2> HIDE DEF today, past
  <2>2. x \in Working
    BY <1>2, <1>5, <1>6 DEF Working
  <2> QED BY <2>1, <2>2
<1>8. Fine(x, bookings, seq, clock)
  <2>1. \A k \in past(m) : /\ k \in DOMAIN w[r].list
                           /\ \E z \in Zones : w[r].list[k].date < clock[z]
    BY <1>4
  <2> HIDE DEF today, past
  <2>2. /\ x.pc = "clean" /\ x.list = w[r].list /\ x.del = past(m) /\ x.there = w[r].there
    BY <1>1, <1>2 DEF Working
  <2> HIDE DEF x
  <2> QED BY <1>1, <1>2, <2>1, <2>2 DEF Fine
<1>9. BudgetOK'
  BY <1>1, BudgetStays DEF IInv
<1> HIDE DEF x
<1> QED BY <1>1, <1>7, <1>8, <1>9, ReadingKeepsIInv

LEMMA DeleteRowKeepsIInv ==
    ASSUME IInv, NEW r \in Requests, DeleteRow(r) PROVE IInv'
<1>1. PICK k \in w[r].del :
        /\ bookings' = Without(bookings, k)
        /\ Become(r, IF w[r].pc = "cancel" /\ w[r].del = {k}
                     THEN Idle ELSE [w[r] EXCEPT !.del = @ \ {k}])
  BY DEF DeleteRow
<1>2. w[r].pc \in {"clean", "cancel"} /\ UNCHANGED <<maps, clock, seq, budget, arrivals>>
  BY DEF DeleteRow, world
<1>3. w[r] \in Working /\ Fine(w[r], bookings, seq, clock)
  BY <1>2, HandlerIsWorking DEF IInv
<1>4. /\ bookings' \in BookingRows /\ DOMAIN bookings' = DOMAIN bookings \ {k}
      /\ \A l \in DOMAIN bookings' : bookings'[l] = bookings[l]
  BY <1>1, WithoutProperties DEF IInv, DataOK
<1>5. DataOK'
  BY <1>2, <1>4 DEF IInv, DataOK
<1>6. Evolves(bookings, seq, clock, bookings', seq', clock')
  <2>1. \A z \in Zones : clock[z] \in Int
    BY DEF IInv, DataOK, Days
  <2> QED BY <1>2, <1>4, <2>1 DEF Evolves, Same, IInv, DataOK
<1> DEFINE x == [w[r] EXCEPT !.del = @ \ {k}]
<1>7. x \in Working
  BY <1>3 DEF Working
<1>8. Fine(x, bookings', seq', clock')
  <2>1. Fine(x, bookings, seq, clock)
    <3>1. /\ x.pc = w[r].pc /\ x.list = w[r].list /\ x.del = w[r].del \ {k}
          /\ x.there = w[r].there /\ x.req = w[r].req
      BY <1>3 DEF Working
    <3> HIDE DEF x
    <3> QED BY <1>2, <1>3, <3>1 DEF Fine
  <2> HIDE DEF x
  <2>2. seq \in Nat /\ seq' \in Nat /\ clock \in [Zones -> Days] /\ clock' \in [Zones -> Days]
    BY <1>2 DEF IInv, DataOK
  <2> QED BY <1>6, <1>7, <2>1, <2>2, FineStays
<1> HIDE DEF x
<1>9. HandlersOK'
  <2>1. Become(r, Idle) \/ Become(r, x)
    BY <1>1 DEF x
  <2> QED BY <1>5, <1>6, <1>7, <1>8, <2>1, OthersStayFine DEF IInv
<1>10. BudgetOK'
  BY <1>2, BudgetStays DEF IInv
<1> QED BY <1>5, <1>9, <1>10 DEF IInv

LEMMA RefreshKeepsIInv ==
    ASSUME IInv, NEW r \in Requests, Refresh(r) PROVE IInv'
<1> DEFINE x == [w[r] EXCEPT !.pc = "act", !.list = bookings]
<1>1. /\ w[r].pc = "clean" /\ w[r].del = {} /\ Become(r, x)
      /\ UNCHANGED <<world, store, budget, arrivals>>
  BY DEF Refresh, At
<1>2. w[r] \in Working /\ Fine(w[r], bookings, seq, clock)
  BY <1>1, HandlerIsWorking DEF IInv
<1>3. x \in Working
  BY <1>2 DEF Working, IInv, DataOK
<1>4. /\ x.pc = "act" /\ x.list = bookings /\ x.del = w[r].del /\ x.there = w[r].there
  BY <1>2 DEF Working
<1> HIDE DEF x
<1>5. Fine(x, bookings, seq, clock)
  BY <1>1, <1>2, <1>4 DEF Fine, IInv, DataOK, Same
<1>6. BudgetOK'
  BY <1>1, BudgetStays DEF IInv
<1> QED BY <1>1, <1>3, <1>5, <1>6, ReadingKeepsIInv

LEMMA CancelKeepsIInv ==
    ASSUME IInv, NEW r \in Requests, Cancel(r) PROVE IInv'
<1> DEFINE own == {k \in DOMAIN w[r].list : w[r].list[k] = w[r].req}
           x == [w[r] EXCEPT !.pc = "cancel", !.del = own]
<1>1. /\ w[r].pc = "act" /\ Become(r, IF own = {} THEN Idle ELSE x)
      /\ UNCHANGED <<world, store, budget, arrivals>>
  BY DEF Cancel, At
<1>2. w[r] \in Working /\ Fine(w[r], bookings, seq, clock)
  BY <1>1, HandlerIsWorking DEF IInv
<1>3. own \in SUBSET Nat
  BY <1>2 DEF Working, BookingRows
<1>4. x \in Working
  <2> HIDE DEF own
  <2> QED BY <1>2, <1>3 DEF Working
<1>5. Fine(x, bookings, seq, clock)
  <2>1. /\ x.pc = "cancel" /\ x.list = w[r].list /\ x.del = own /\ x.there = w[r].there
        /\ x.req = w[r].req
    <3> HIDE DEF own
    <3> QED BY <1>2 DEF Working
  <2>2. \A k \in own : k \in DOMAIN w[r].list /\ w[r].list[k] = w[r].req
    OBVIOUS
  <2> HIDE DEF x, own
  <2> QED BY <1>2, <2>1, <2>2 DEF Fine
<1>6. BudgetOK'
  BY <1>1, BudgetStays DEF IInv
<1>7. Become(r, Idle) \/ Become(r, x)
  BY <1>1
<1> HIDE DEF x, own
<1> QED BY <1>1, <1>4, <1>5, <1>6, <1>7, ReadingKeepsIInv

LEMMA AnswerKeepsIInv ==
    ASSUME IInv, NEW r \in Requests, Answer(r) PROVE IInv'
<1>1. Become(r, Idle) /\ UNCHANGED <<world, store, budget, arrivals>>
  BY DEF Answer
<1>2. BudgetOK'
  BY <1>1, BudgetStays DEF IInv
<1> QED BY <1>1, <1>2, ReadingKeepsIInv

\* The new row is the only one that is new, under a number never used before.
LEMMA AddBookingProperties ==
    ASSUME DataOK, NEW r \in Requests, w[r] \in Working, AddBooking(r)
    PROVE  /\ seq' = seq + 1
           /\ bookings' \in BookingRows /\ DOMAIN bookings' = DOMAIN bookings \cup {seq'}
           /\ bookings'[seq'] = w[r].req /\ seq' \notin DOMAIN bookings
           /\ \A k \in DOMAIN bookings : bookings'[k] = bookings[k]
           /\ DOMAIN arrivals' = DOMAIN arrivals \cup {seq'}
           /\ arrivals'[seq'] = w[r].there
           /\ \A k \in DOMAIN arrivals \ {seq'} : arrivals'[k] = arrivals[k]
<1>1. PICK S \in SUBSET Nat : bookings \in [S -> Booking]
  BY DEF DataOK, BookingRows
<1>2. seq' = seq + 1 /\ seq' \in Nat /\ seq' \notin DOMAIN bookings
  BY DEF DataOK, AddBooking
<1>3. w[r].req \in Booking
  BY DEF Working
<1>4. bookings' \in [S \cup {seq'} -> Booking]
  BY <1>1, <1>2, <1>3 DEF AddBooking
<1>5. bookings' \in BookingRows
  BY <1>1, <1>2, <1>4 DEF BookingRows
<1> QED BY <1>1, <1>2, <1>4, <1>5 DEF AddBooking

LEMMA BookKeepsIInv ==
    ASSUME IInv, NEW r \in Requests, Book(r) PROVE IInv'
<1>1. w[r].pc = "act" /\ AddBooking(r) /\ Become(r, Idle) /\ UNCHANGED <<maps, clock, budget>>
  BY DEF Book, At, world
<1>2. w[r] \in Working
  BY <1>1, HandlerIsWorking DEF IInv
<1>3. /\ seq' = seq + 1
      /\ bookings' \in BookingRows /\ DOMAIN bookings' = DOMAIN bookings \cup {seq'}
      /\ \A k \in DOMAIN bookings : bookings'[k] = bookings[k]
      /\ DOMAIN arrivals' = DOMAIN arrivals \cup {seq'}
  BY <1>1, <1>2, AddBookingProperties DEF IInv
<1>4. DataOK'
  BY <1>1, <1>3 DEF IInv, DataOK
<1>5. Evolves(bookings, seq, clock, bookings', seq', clock')
  <2>1. \A z \in Zones : clock[z] \in Int
    BY DEF IInv, DataOK, Days
  <2> QED BY <1>1, <1>3, <2>1 DEF Evolves, Same, IInv, DataOK
<1>6. BudgetOK'
  BY <1>1, BudgetStays DEF IInv
<1> QED BY <1>1, <1>4, <1>5, <1>6, OthersStayFine DEF IInv

-----------------------------------------------------------------------------
(* The world around them                                                   *)

\* Administrators that leave rows and clock alone.
LEMMA EditKeepsIInv ==
    ASSUME IInv, UNCHANGED <<clock, store, w, arrivals>>, BudgetOK',
           DOMAIN maps' \subseteq Names, \A m \in DOMAIN maps' : maps'[m] \in Zones
    PROVE  IInv'
<1>1. UNCHANGED <<bookings, seq, clock, arrivals>>
  BY DEF store
<1>2. DataOK'
  BY <1>1 DEF IInv, DataOK
<1> QED BY <1>1, <1>2, NothingEvolves, AllStayFine DEF IInv

LEMMA MidnightKeepsIInv ==
    ASSUME IInv, NEW z \in Zones, Midnight(z) PROVE IInv'
<1>1. /\ clock' = [clock EXCEPT ![z] = @ + 1] /\ clock[z] < LastDay
      /\ UNCHANGED <<maps, bookings, seq, w, budget, arrivals>>
  BY DEF Midnight, store
<1>2. clock' \in [Zones -> Days]
  BY <1>1, BoundsAssumption DEF IInv, DataOK, Days
<1>3. DataOK'
  BY <1>1, <1>2 DEF IInv, DataOK
<1>4. Evolves(bookings, seq, clock, bookings', seq', clock')
  BY <1>1 DEF IInv, DataOK, Days, Evolves, Same
<1>5. BudgetOK'
  BY <1>1, BudgetStays DEF IInv
<1> QED BY <1>1, <1>3, <1>4, <1>5, AllStayFine DEF IInv

LEMMA RenameKeepsIInv ==
    ASSUME IInv, RenameMap PROVE IInv'
<1>1. PICK m \in DOMAIN maps, n \in Names \ DOMAIN maps :
        /\ maps' = [k \in (DOMAIN maps \ {m}) \cup {n} |->
                        IF k = n THEN maps[m] ELSE maps[k]]
        /\ bookings' = [k \in DOMAIN bookings |->
                           IF bookings[k].map = m
                           THEN [bookings[k] EXCEPT !.map = n] ELSE bookings[k]]
  BY DEF RenameMap
<1>2. Spend("rename") /\ UNCHANGED <<clock, seq, w, arrivals>>
  BY DEF RenameMap
<1>3. BudgetOK' /\ MaxRename # 0
  BY <1>2, SpendProperties DEF IInv, BudgetOK
<1>4. bookings' \in BookingRows /\ DOMAIN bookings' = DOMAIN bookings
  <2>1. PICK S \in SUBSET Nat : bookings \in [S -> Booking]
    BY DEF IInv, DataOK, BookingRows
  <2>2. bookings' \in [S -> Booking]
    BY <1>1, <2>1 DEF Booking
  <2> QED BY <2>1, <2>2 DEF BookingRows
<1>5. DataOK'
  BY <1>1, <1>2, <1>4 DEF IInv, DataOK
<1>6. Evolves(bookings, seq, clock, bookings', seq', clock')
  <2>1. \A k \in DOMAIN bookings : Same(bookings[k], bookings'[k])
    <3>1. \A k \in DOMAIN bookings : bookings[k] \in Booking
      BY RowProperties DEF IInv, DataOK
    <3> QED BY <1>1, <1>3, <3>1 DEF Same, Booking
  <2>2. \A z \in Zones : clock[z] \in Int
    BY DEF IInv, DataOK, Days
  <2> QED BY <1>2, <1>4, <2>1, <2>2 DEF Evolves, IInv, DataOK
<1> QED BY <1>2, <1>3, <1>5, <1>6, AllStayFine DEF IInv

-----------------------------------------------------------------------------
(* The invariant                                                           *)

LEMMA InitIInv == ASSUME MaxArchive = 0, Init PROVE IInv
<1>1. DataOK
  <2>1. Nothing \in BookingRows /\ DOMAIN Nothing = {}
    <3>1. Nothing \in [{} -> Booking] /\ {} \in SUBSET Nat
      BY DEF Nothing
    <3> QED BY <3>1 DEF BookingRows
  <2>2. clock \in [Zones -> Days]
    <3>1. clock = [z \in Zones |-> 1]
      BY DEF Init
    <3>2. 1 \in Days
      <4>1. PICK slot \in Asked : slot[1] \in 1..LastDay
        BY AskedAssumption
      <4> QED BY <4>1, BoundsAssumption DEF Days
    <3> QED BY <3>1, <3>2
  <2>3. DOMAIN maps \subseteq Names /\ \A m \in DOMAIN maps : maps[m] \in Zones
    BY DEF Init
  <2> QED BY <2>1, <2>2, <2>3 DEF Init, DataOK
<1>2. BudgetOK
  BY BoundsAssumption DEF Init, BudgetOK
<1>3. HandlersOK
  BY DEF Init, HandlersOK
<1> QED BY <1>1, <1>2, <1>3 DEF IInv

LEMMA NextIInv ==
    ASSUME MaxArchive = 0, IInv, [Next]_vars PROVE IInv'
<1>1. ASSUME NEW r \in Requests, Receive(r) \/ Handle(r) PROVE IInv'
  BY <1>1, ReceiveKeepsIInv, ListKeepsIInv, CleanMapKeepsIInv, DeleteRowKeepsIInv,
     RefreshKeepsIInv, BookKeepsIInv, AnswerKeepsIInv, CancelKeepsIInv DEF Handle
<1>2. ASSUME NEW z \in Zones, Midnight(z) PROVE IInv'
  BY <1>2, MidnightKeepsIInv
<1>3. CASE SetInternalBooking
  <2>1. Spend("edit") /\ UNCHANGED <<maps, clock, store, w, arrivals>>
    BY <1>3 DEF SetInternalBooking
  <2>2. BudgetOK'
    BY <2>1, SpendProperties DEF IInv
  <2> QED BY <2>1, <2>2, EditKeepsIInv DEF IInv, DataOK
<1>4. CASE PutMap
  <2>1. Spend("edit") /\ UNCHANGED <<clock, store, w, arrivals>>
    BY <1>4 DEF PutMap
  <2>2. BudgetOK'
    BY <2>1, SpendProperties DEF IInv
  <2>3. DOMAIN maps' \subseteq Names /\ \A m \in DOMAIN maps' : maps'[m] \in Zones
    <3>1. PICK m \in Names, z \in Zones :
            maps' = [n \in DOMAIN maps \cup {m} |-> IF n = m THEN z ELSE maps[n]]
      BY <1>4 DEF PutMap
    <3> QED BY <3>1 DEF IInv, DataOK
  <2> QED BY <2>1, <2>2, <2>3, EditKeepsIInv
<1>5. CASE DeleteMap
  <2>1. Spend("delete") /\ UNCHANGED <<clock, store, w, arrivals>>
    BY <1>5 DEF DeleteMap
  <2>2. BudgetOK'
    BY <2>1, SpendProperties DEF IInv
  <2>3. DOMAIN maps' \subseteq Names /\ \A m \in DOMAIN maps' : maps'[m] \in Zones
    <3>1. PICK m \in DOMAIN maps : maps' = Without(maps, m)
      BY <1>5 DEF DeleteMap
    <3> QED BY <3>1 DEF Without, IInv, DataOK
  <2> QED BY <2>1, <2>2, <2>3, EditKeepsIInv
<1>6. CASE RenameMap
  BY <1>6, RenameKeepsIInv
<1>7. CASE Export \/ Import
  <2>1. Spend("archive")
    BY <1>7 DEF Export, Import
  <2>2. budget["archive"] > 0 /\ budget["archive"] = 0
    BY <2>1, SpendProperties DEF IInv, BudgetOK
  <2> QED BY <2>2
<1>8. CASE UNCHANGED vars
  <2>1. UNCHANGED <<maps, bookings, seq, clock, w, budget, arrivals>>
    BY <1>8 DEF vars
  <2>2. BudgetOK'
    BY <2>1, BudgetStays DEF IInv
  <2> QED BY <2>1, <2>2, EditKeepsIInv DEF IInv, DataOK, store
<1> QED BY <1>1, <1>2, <1>3, <1>4, <1>5, <1>6, <1>7, <1>8 DEF Next

-----------------------------------------------------------------------------
(* Types and numbers, with any number of exports and imports.  An import    *)
(* starts the sequence over, so the rows stay within the bound only because *)
(* every handler that may still add one has used up a request.              *)

\* Handlers that may still add a booking.
Adding == {r \in Requests : w[r] # Idle /\ w[r].mode = "book"}

RequestsCount ==
    /\ budget["requests"] \in Nat
    /\ DOMAIN budget = {"requests", "rename", "delete", "edit", "archive"}
    /\ IsFiniteSet(Adding)
    /\ seq + budget["requests"] + Cardinality(Adding) <= MaxRequests

\* The numbers in an archive have been given before.
ArchivesKnown == \A rows \in archives : DOMAIN rows \subseteq DOMAIN arrivals

NumbersInv == TypeOK /\ RequestsCount /\ ArchivesKnown

\* A handler that is anywhere in its course.
Busy == [pc : {"maps", "existing", "clean", "refresh", "act", "cancel"}, mode : Modes,
         req : Booking, cur : Days, names : SUBSET Names, list : Table,
         del : SUBSET (1..MaxRequests), there : SUBSET (1..MaxRequests)]

LEMMA BusyHandler ==
    ASSUME TypeOK, NEW r \in Requests, w[r].pc # "idle"
    PROVE  w[r] \in Busy /\ w[r] # Idle
BY DEF TypeOK, HandlerState, Busy, Idle

LEMMA IdleIsNotBusy == Idle \notin Busy
<1>1. ASSUME NEW x \in Busy PROVE x.pc # "idle"
  BY <1>1 DEF Busy
<1> QED
  BY <1>1 DEF Idle

\* The rows of a table and their numbers.
LEMMA TableRows ==
    /\ Nothing \in Table /\ DOMAIN Nothing = {}
    /\ \A rows \in Table : /\ DOMAIN rows \subseteq 1..MaxRequests
                           /\ \A k \in DOMAIN rows : rows[k] \in Booking
    /\ \A rows \in Table : \A k : Without(rows, k) \in Table
<1>1. Nothing \in [{} -> Booking] /\ {} \in SUBSET (1..MaxRequests)
  BY DEF Nothing
<1>2. ASSUME NEW rows \in Table, NEW k PROVE Without(rows, k) \in Table
  <2>1. PICK S \in SUBSET (1..MaxRequests) : rows \in [S -> Booking]
    BY DEF Table
  <2>2. Without(rows, k) \in [S \ {k} -> Booking]
    BY <2>1 DEF Without
  <2> QED
    BY <2>2 DEF Table
<1> QED
  BY <1>1, <1>2 DEF Table

\* What a map's clock shows is a day.
LEMMA TodayTyped ==
    ASSUME TypeOK, NEW m PROVE MapToday(m) \in Days
BY ZonesAssumption DEF TypeOK, MapToday

\* A handler that goes on with the request it has, or is done, adds at most what it
\* was going to add.
LEMMA AddingShrinks ==
    ASSUME TypeOK, RequestsCount, NEW r \in Requests, NEW x, Become(r, x),
           x = Idle \/ (w[r] # Idle /\ x.mode = w[r].mode)
    PROVE  /\ Adding' \subseteq Adding /\ IsFiniteSet(Adding')
           /\ Cardinality(Adding') <= Cardinality(Adding)
           /\ Cardinality(Adding') \in Nat /\ Cardinality(Adding) \in Nat
<1>1. Adding' \subseteq Adding
  <2>1. \A q \in Requests : w'[q] = IF q = r THEN x ELSE w[q]
    BY DEF Become, TypeOK
  <2> QED
    BY <2>1 DEF Adding
<1>2. IsFiniteSet(Adding)
  BY DEF RequestsCount
<1> QED
  BY <1>1, <1>2, FS_Subset, FS_CardinalityType

\* A step of the handlers that writes no new row.
LEMMA GoingOn ==
    ASSUME NumbersInv, NEW r \in Requests, NEW x \in HandlerState, Become(r, x),
           x = Idle \/ (w[r] # Idle /\ x.mode = w[r].mode),
           UNCHANGED <<world, seq, budget, arrivals>>,
           bookings' \in Table, DOMAIN bookings' \subseteq DOMAIN bookings
    PROVE  NumbersInv'
<1> USE DEF NumbersInv
<1>1. w' \in [Requests -> HandlerState]
  BY DEF Become, TypeOK
<1>2. UNCHANGED <<maps, clock, enabled, archives>>
  BY DEF world
<1>3. TypeOK'
  BY <1>1, <1>2 DEF TypeOK
<1>4. RequestsCount'
  <2>1. /\ IsFiniteSet(Adding') /\ Cardinality(Adding') <= Cardinality(Adding)
        /\ Cardinality(Adding') \in Nat /\ Cardinality(Adding) \in Nat
    BY AddingShrinks
  <2>2. seq \in Nat /\ MaxRequests \in Nat
    BY BoundsAssumption DEF TypeOK
  <2> QED
    BY <2>1, <2>2 DEF RequestsCount
<1>5. ArchivesKnown'
  BY <1>2 DEF ArchivesKnown
<1> QED
  BY <1>3, <1>4, <1>5

\* A bound that is spent leaves the others, and stays a number.
LEMMA SpendOne ==
    ASSUME RequestsCount, NEW b \in {"requests", "rename", "delete", "edit", "archive"}, Spend(b)
    PROVE  /\ DOMAIN budget' = DOMAIN budget
           /\ b # "requests" => budget'["requests"] = budget["requests"]
           /\ b = "requests" => /\ budget'["requests"] = budget["requests"] - 1
                                /\ budget["requests"] > 0
BY DEF RequestsCount, Spend

\* A step around the handlers.
LEMMA AroundThem ==
    ASSUME NumbersInv, TypeOK', UNCHANGED w, seq' <= seq,
           DOMAIN budget' = DOMAIN budget, budget'["requests"] = budget["requests"],
           UNCHANGED arrivals, \A rows \in archives' \ archives : rows = bookings
    PROVE  NumbersInv'
<1> USE DEF NumbersInv
<1>1. Adding' = Adding
  BY DEF Adding
<1>2. RequestsCount'
  <2>1. Cardinality(Adding) \in Nat /\ seq \in Nat /\ seq' \in Nat /\ MaxRequests \in Nat
    BY FS_CardinalityType, BoundsAssumption DEF RequestsCount, TypeOK
  <2> QED
    BY <1>1, <2>1 DEF RequestsCount
<1>3. ArchivesKnown'
  BY DEF ArchivesKnown, TypeOK
<1> QED
  BY <1>2, <1>3

\* A request is received: it may add a row, and one request less is left.
LEMMA ReceiveKeepsNumbers ==
    ASSUME NumbersInv, NEW r \in Requests, Receive(r) PROVE NumbersInv'
<1> USE DEF NumbersInv
<1>1. PICK mode \in Modes, q \in Booking :
        /\ IF mode = "list" THEN UNCHANGED budget ELSE Spend("requests")
        /\ Become(r, [pc |-> "maps", mode |-> mode, req |-> q, cur |-> MapToday(q.map),
                      names |-> {}, list |-> Nothing, del |-> {},
                      there |-> DOMAIN bookings])
  BY DEF Receive
<1>2. PICK x : x = [pc |-> "maps", mode |-> mode, req |-> q, cur |-> MapToday(q.map),
                    names |-> {}, list |-> Nothing, del |-> {}, there |-> DOMAIN bookings]
  OBVIOUS
<1>3. /\ UNCHANGED <<maps, clock, enabled, archives, bookings, seq, arrivals>>
      /\ w[r].pc = "idle"
  BY DEF Receive, world, store, At
<1>4. x \in Busy /\ x.mode = mode
  <2>1. DOMAIN bookings \in SUBSET (1..MaxRequests) /\ MapToday(q.map) \in Days
    BY TableRows, TodayTyped DEF TypeOK
  <2> QED
    BY <1>2, <2>1, TableRows DEF Busy
<1>5. w' \in [Requests -> HandlerState] /\ \A p \in Requests : w'[p] = IF p = r THEN x ELSE w[p]
  BY <1>1, <1>2, <1>4 DEF Become, TypeOK, HandlerState, Busy
<1>6. TypeOK'
  BY <1>3, <1>5 DEF TypeOK
<1>7. RequestsCount'
  <2>1. w[r] = Idle
    BY <1>3 DEF TypeOK, HandlerState
  <2>2. /\ IsFiniteSet(Adding) /\ Cardinality(Adding) \in Nat
        /\ seq \in Nat /\ MaxRequests \in Nat /\ r \notin Adding
    BY <2>1, FS_CardinalityType, BoundsAssumption DEF RequestsCount, TypeOK, Adding
  <2>3. CASE mode = "book"
    <3>1. Adding' = Adding \cup {r}
      BY <1>4, <1>5, <2>3, IdleIsNotBusy DEF Adding
    <3>2. IsFiniteSet(Adding') /\ Cardinality(Adding') = Cardinality(Adding) + 1
      BY <2>2, <3>1, FS_AddElement
    <3>3. /\ DOMAIN budget' = DOMAIN budget
          /\ budget'["requests"] = budget["requests"] - 1 /\ budget["requests"] > 0
      BY <1>1, <2>3, SpendOne
    <3> QED
      BY <1>3, <2>2, <3>2, <3>3 DEF RequestsCount
  <2>4. CASE mode # "book"
    <3>1. Adding' = Adding
      BY <1>4, <1>5, <2>1, <2>4 DEF Adding
    <3>2. /\ DOMAIN budget' = DOMAIN budget
          /\ budget'["requests"] \in Nat /\ budget'["requests"] <= budget["requests"]
      <4>1. CASE mode = "list"
        BY <1>1, <4>1 DEF RequestsCount
      <4>2. CASE mode # "list"
        BY <1>1, <4>2, SpendOne DEF RequestsCount
      <4> QED
        BY <4>1, <4>2
    <3> QED
      BY <1>3, <2>2, <3>1, <3>2 DEF RequestsCount
  <2> QED
    BY <2>3, <2>4
<1>8. ArchivesKnown'
  BY <1>3 DEF ArchivesKnown
<1> QED
  BY <1>6, <1>7, <1>8

\* What a handler makes of itself while it reads and deletes.
LEMMA HandlerGoesOn ==
    ASSUME NumbersInv, NEW r \in Requests,
           \/ ListMaps(r) \/ ListExisting(r) \/ CleanMap(r) \/ DeleteRow(r) \/ Refresh(r)
           \/ Answer(r) \/ Cancel(r)
    PROVE  NumbersInv'
<1> USE DEF NumbersInv
<1>1. w[r].pc # "idle"
  BY DEF ListMaps, ListExisting, CleanMap, DeleteRow, Refresh, Answer, Cancel, At
<1>2. w[r] \in Busy /\ w[r] # Idle
  BY <1>1, BusyHandler
<1>3. bookings \in Table /\ DOMAIN maps \in SUBSET Names
  BY DEF TypeOK
<1>4. UNCHANGED <<world, seq, budget, arrivals>>
  BY DEF ListMaps, ListExisting, CleanMap, DeleteRow, Refresh, Answer, Cancel, store
<1>5. ASSUME NEW x, x = Idle \/ (x \in Busy /\ x.mode = w[r].mode), Become(r, x),
             bookings' \in Table, DOMAIN bookings' \subseteq DOMAIN bookings
      PROVE  NumbersInv'
  <2>1. x \in HandlerState
    BY <1>5 DEF HandlerState, Busy
  <2> QED
    BY <1>2, <1>4, <1>5, <2>1, GoingOn
<1>6. CASE ListMaps(r)
  <2>1. /\ [w[r] EXCEPT !.pc = "existing", !.names = DOMAIN maps] \in Busy
        /\ [w[r] EXCEPT !.pc = "existing", !.names = DOMAIN maps].mode = w[r].mode
    BY <1>2, <1>3 DEF Busy
  <2> QED
    BY <1>3, <1>5, <1>6, <2>1 DEF ListMaps, store
<1>7. CASE ListExisting(r)
  <2>1. /\ [w[r] EXCEPT !.pc = "clean", !.list = bookings] \in Busy
        /\ [w[r] EXCEPT !.pc = "clean", !.list = bookings].mode = w[r].mode
    BY <1>2, <1>3 DEF Busy
  <2> QED
    BY <1>3, <1>5, <1>7, <2>1 DEF ListExisting, store
<1>8. CASE Refresh(r)
  <2>1. /\ [w[r] EXCEPT !.pc = "act", !.list = bookings] \in Busy
        /\ [w[r] EXCEPT !.pc = "act", !.list = bookings].mode = w[r].mode
    BY <1>2, <1>3 DEF Busy
  <2> QED
    BY <1>3, <1>5, <1>8, <2>1 DEF Refresh, store
<1>9. CASE CleanMap(r)
  <2> DEFINE past(m) == {k \in DOMAIN w[r].list :
                           w[r].list[k].map = m /\ w[r].list[k].date < MapToday(m)}
             today(m) == IF w[r].mode = "book" /\ w[r].req.map = m THEN MapToday(m)
                                                                   ELSE w[r].cur
  <2>1. PICK m \in w[r].names :
           Become(r, [w[r] EXCEPT !.names = @ \ {m}, !.cur = today(m), !.del = past(m)])
    BY <1>9 DEF CleanMap
  <2>2. past(m) \in SUBSET (1..MaxRequests)
    BY <1>2, TableRows DEF Busy
  <2>3. today(m) \in Days
    BY <1>2, TodayTyped DEF Busy
  <2> HIDE DEF past, today
  <2>4. /\ [w[r] EXCEPT !.names = @ \ {m}, !.cur = today(m), !.del = past(m)] \in Busy
        /\ [w[r] EXCEPT !.names = @ \ {m}, !.cur = today(m), !.del = past(m)].mode = w[r].mode
    BY <1>2, <2>2, <2>3 DEF Busy
  <2> QED
    BY <1>3, <1>5, <1>9, <2>1, <2>4 DEF CleanMap, store
<1>10. CASE DeleteRow(r)
  <2>1. PICK k \in w[r].del :
           /\ bookings' = Without(bookings, k)
           /\ \/ Become(r, Idle)
              \/ Become(r, [w[r] EXCEPT !.del = @ \ {k}])
    BY <1>10 DEF DeleteRow
  <2>2. /\ [w[r] EXCEPT !.del = @ \ {k}] \in Busy
        /\ [w[r] EXCEPT !.del = @ \ {k}].mode = w[r].mode
    BY <1>2 DEF Busy
  <2>3. bookings' \in Table /\ DOMAIN bookings' \subseteq DOMAIN bookings
    BY <1>3, <2>1, TableRows DEF Without
  <2> QED
    BY <1>5, <2>1, <2>2, <2>3
<1>11. CASE Answer(r)
  BY <1>3, <1>5, <1>11 DEF Answer, store
<1>12. CASE Cancel(r)
  <2> DEFINE own == {k \in DOMAIN w[r].list : w[r].list[k] = w[r].req}
  <2>1. Become(r, Idle) \/ Become(r, [w[r] EXCEPT !.pc = "cancel", !.del = own])
    BY <1>12 DEF Cancel
  <2>2. own \in SUBSET (1..MaxRequests)
    BY <1>2, TableRows DEF Busy
  <2> HIDE DEF own
  <2>3. /\ [w[r] EXCEPT !.pc = "cancel", !.del = own] \in Busy
        /\ [w[r] EXCEPT !.pc = "cancel", !.del = own].mode = w[r].mode
    BY <1>2, <2>2 DEF Busy
  <2> QED
    BY <1>3, <1>5, <1>12, <2>1, <2>3 DEF Cancel, store
<1> QED
  BY <1>6, <1>7, <1>8, <1>9, <1>10, <1>11, <1>12

\* A booking gets the next number, which is within the bound: its handler is one of
\* those that may add.
LEMMA BookKeepsNumbers ==
    ASSUME NumbersInv, NEW r \in Requests, Book(r) PROVE NumbersInv'
<1> USE DEF NumbersInv
<1>1. /\ w[r].pc = "act" /\ w[r].mode = "book" /\ AddBooking(r) /\ Become(r, Idle)
      /\ UNCHANGED <<maps, clock, enabled, archives, budget>>
  BY DEF Book, At, world
<1>2. w[r] \in Busy /\ w[r] # Idle
  BY <1>1, BusyHandler
<1>3. r \in Adding /\ Adding' = Adding \ {r}
  BY <1>1, <1>2 DEF Adding, Become, TypeOK
<1>4. /\ IsFiniteSet(Adding') /\ Cardinality(Adding') = Cardinality(Adding) - 1
      /\ Cardinality(Adding') \in Nat /\ Cardinality(Adding) \in Nat
  BY <1>3, FS_RemoveElement, FS_CardinalityType DEF RequestsCount
<1>5. seq \in Nat /\ MaxRequests \in Nat /\ seq' = seq + 1
  BY <1>1, BoundsAssumption DEF TypeOK, AddBooking
<1>6. RequestsCount' /\ seq' \in 1..MaxRequests
  BY <1>1, <1>4, <1>5 DEF RequestsCount
<1>7. bookings' \in Table
  <2>1. PICK S \in SUBSET (1..MaxRequests) : bookings \in [S -> Booking]
    BY DEF TypeOK, Table
  <2>2. w[r].req \in Booking
    BY <1>2 DEF Busy
  <2>3. bookings' \in [S \cup {seq'} -> Booking]
    BY <1>1, <2>1, <2>2 DEF AddBooking
  <2>4. S \cup {seq'} \in SUBSET (1..MaxRequests)
    BY <1>6, <2>1
  <2> QED
    BY <2>3, <2>4 DEF Table
<1>8. 1..seq' \cup DOMAIN bookings' \subseteq DOMAIN arrivals' /\ DOMAIN arrivals \subseteq DOMAIN arrivals'
  <2>1. /\ DOMAIN bookings' = DOMAIN bookings \cup {seq'}
        /\ DOMAIN arrivals' = DOMAIN arrivals \cup {seq'}
    BY <1>1 DEF AddBooking
  <2>2. 1..seq' \subseteq 1..seq \cup {seq'}
    BY <1>5
  <2> QED
    BY <2>1, <2>2 DEF TypeOK
<1>9. w' \in [Requests -> HandlerState]
  BY <1>1 DEF Become, TypeOK, HandlerState
<1>10. TypeOK'
  BY <1>1, <1>6, <1>7, <1>8, <1>9, BoundsAssumption DEF TypeOK
<1>11. ArchivesKnown'
  BY <1>1, <1>8 DEF ArchivesKnown
<1> QED
  BY <1>6, <1>10, <1>11

\* What happens around the handlers: an import brings rows whose numbers have been
\* given before, and starts the sequence over.
LEMMA WorldKeepsNumbers ==
    ASSUME NumbersInv,
           \/ \E z \in Zones : Midnight(z)
           \/ SetInternalBooking \/ PutMap \/ DeleteMap \/ RenameMap \/ Export \/ Import
    PROVE  NumbersInv'
<1> USE DEF NumbersInv
<1>1. CASE \E z \in Zones : Midnight(z)
  <2>1. PICK z \in Zones : Midnight(z)
    BY <1>1
  <2>2. clock' \in [Zones -> Days]
    BY <2>1, BoundsAssumption DEF Midnight, TypeOK, Days
  <2>3. UNCHANGED <<archives, maps, enabled, bookings, seq, w, budget, arrivals>>
    BY <2>1 DEF Midnight, store
  <2>4. TypeOK' /\ seq' <= seq
    BY <2>2, <2>3, BoundsAssumption DEF TypeOK
  <2> QED
    BY <2>3, <2>4, AroundThem
<1>2. CASE SetInternalBooking
  <2>1. UNCHANGED <<archives, maps, clock, bookings, seq, w, arrivals>> /\ enabled' \in BOOLEAN
    BY <1>2 DEF SetInternalBooking, store
  <2>2. TypeOK' /\ seq' <= seq
    BY <2>1, BoundsAssumption DEF TypeOK
  <2> QED
    BY <1>2, <2>1, <2>2, SpendOne, AroundThem DEF SetInternalBooking
<1>3. CASE PutMap
  <2>1. UNCHANGED <<archives, clock, enabled, bookings, seq, w, arrivals>>
    BY <1>3 DEF PutMap, store
  <2>2. DOMAIN maps' \subseteq Names /\ \A m \in DOMAIN maps' : maps'[m] \in Zones
    <3>1. PICK m \in Names, z \in Zones :
             maps' = [n \in DOMAIN maps \cup {m} |-> IF n = m THEN z ELSE maps[n]]
      BY <1>3 DEF PutMap
    <3> QED
      BY <3>1 DEF TypeOK
  <2>3. TypeOK' /\ seq' <= seq
    BY <2>1, <2>2, BoundsAssumption DEF TypeOK
  <2> QED
    BY <1>3, <2>1, <2>3, SpendOne, AroundThem DEF PutMap
<1>4. CASE DeleteMap
  <2>1. UNCHANGED <<archives, clock, enabled, bookings, seq, w, arrivals>>
    BY <1>4 DEF DeleteMap, store
  <2>2. DOMAIN maps' \subseteq Names /\ \A m \in DOMAIN maps' : maps'[m] \in Zones
    BY <1>4 DEF DeleteMap, Without, TypeOK
  <2>3. TypeOK' /\ seq' <= seq
    BY <2>1, <2>2, BoundsAssumption DEF TypeOK
  <2> QED
    BY <1>4, <2>1, <2>3, SpendOne, AroundThem DEF DeleteMap
<1>5. CASE RenameMap
  <2>1. PICK m \in DOMAIN maps, n \in Names \ DOMAIN maps :
          /\ maps' = [k \in (DOMAIN maps \ {m}) \cup {n} |->
                          IF k = n THEN maps[m] ELSE maps[k]]
          /\ bookings' = [k \in DOMAIN bookings |->
                             IF bookings[k].map = m
                             THEN [bookings[k] EXCEPT !.map = n] ELSE bookings[k]]
    BY <1>5 DEF RenameMap
  <2>2. UNCHANGED <<archives, clock, enabled, seq, w, arrivals>>
    BY <1>5 DEF RenameMap
  <2>3. bookings' \in Table /\ DOMAIN bookings' = DOMAIN bookings
    <3>1. PICK S \in SUBSET (1..MaxRequests) : bookings \in [S -> Booking]
      BY DEF TypeOK, Table
    <3>2. bookings' \in [S -> Booking]
      BY <2>1, <3>1 DEF Booking
    <3> QED
      BY <3>1, <3>2 DEF Table
  <2>4. DOMAIN maps' \subseteq Names /\ \A k \in DOMAIN maps' : maps'[k] \in Zones
    BY <2>1 DEF TypeOK
  <2>5. TypeOK' /\ seq' <= seq
    BY <2>2, <2>3, <2>4, BoundsAssumption DEF TypeOK
  <2> QED
    BY <1>5, <2>2, <2>5, SpendOne, AroundThem DEF RenameMap
<1>6. CASE Export
  <2>1. /\ UNCHANGED <<maps, clock, enabled, bookings, seq, w, arrivals>>
        /\ archives' = archives \cup {bookings}
    BY <1>6 DEF Export, store
  <2>2. TypeOK' /\ seq' <= seq
    BY <2>1, BoundsAssumption DEF TypeOK
  <2> QED
    BY <1>6, <2>1, <2>2, SpendOne, AroundThem DEF Export
<1>7. CASE Import
  <2>1. UNCHANGED <<maps, clock, enabled, archives, w, arrivals>> /\ seq' = 0
    BY <1>7 DEF Import, world
  <2>2. bookings' \in Table /\ DOMAIN bookings' \subseteq DOMAIN arrivals
    BY <1>7 DEF Import, TypeOK, ArchivesKnown
  <2>3. 1..seq' = {} /\ 0 \in 0..MaxRequests /\ 0 <= seq
    BY <2>1, BoundsAssumption DEF TypeOK
  <2>4. TypeOK' /\ seq' <= seq
    BY <2>1, <2>2, <2>3 DEF TypeOK
  <2> QED
    BY <1>7, <2>1, <2>4, SpendOne, AroundThem DEF Import
<1> QED
  BY <1>1, <1>2, <1>3, <1>4, <1>5, <1>6, <1>7

-----------------------------------------------------------------------------
(* The look of desks *)

\* A seating with somebody in it comes from a source.
LEMMA Occupants ==
    ASSUME NEW people \in Seatings
    PROVE  people.people \in 0..2 /\ people.mail \in BOOLEAN
<1>1. CASE people = [source |-> "none", people |-> 0, mail |-> FALSE]
  BY <1>1
<1>2. CASE people \in [source : {"ldap", "robin"}, people : 1..2, mail : BOOLEAN]
  BY <1>2
<1> QED
  BY <1>1, <1>2 DEF Seatings

\* Every item on the map has a row, and its rows differ in the person only.
LEMMA RowsOfItem ==
    ASSUME LookTypeOK, NEW i \in OnMap
    PROVE  /\ \E row : row \in RowsOf(i)
           /\ \A row \in RowsOf(i) : row.id = i /\ row.number = stored[i].number
           /\ \A a, b \in RowsOf(i) : /\ a.type = b.type /\ a.employee = b.employee
                                      /\ a.mail = b.mail /\ a.booked = b.booked
<1> DEFINE item == stored[i]
           people == seated[item.number]
<1>1. stored[i] \in Items /\ stored[i].number \in Numbers
  BY DEF OnMap, LookTypeOK, Items
<1>2. people.people \in 0..2
  BY <1>1, Occupants DEF LookTypeOK
<1>3. CASE people.people > 0
  <2>1. RowsOf(i) =
          [id : {i}, person : 1..people.people, type : {OccupiedType(people)},
           employee : {people.source = "robin" \/ item.employee},
           mail : {people.mail}, number : {item.number},
           booked : {item.number \in bookedNumbers}]
    BY <1>3 DEF RowsOf
  <2>2. [id |-> i, person |-> 1, type |-> OccupiedType(people),
         employee |-> people.source = "robin" \/ item.employee,
         mail |-> people.mail, number |-> item.number,
         booked |-> item.number \in bookedNumbers] \in RowsOf(i)
    BY <1>2, <1>3, <2>1
  <2> HIDE DEF item, people
  <2>3. \A row \in RowsOf(i) :
           /\ row.id = i /\ row.number = item.number /\ row.type = OccupiedType(people)
           /\ row.employee = (people.source = "robin" \/ item.employee)
           /\ row.mail = people.mail /\ row.booked = (item.number \in bookedNumbers)
    BY <2>1
  <2> QED
    BY <2>2, <2>3 DEF item
<1>4. CASE ~(people.people > 0)
  <2>1. PICK row : row = [id |-> i, person |-> 0, type |-> item.type,
                          employee |-> item.employee, mail |-> FALSE, number |-> item.number,
                          booked |-> item.number \in bookedNumbers]
    OBVIOUS
  <2>2. RowsOf(i) = {row}
    BY <1>4, <2>1 DEF RowsOf
  <2>3. row.id = i /\ row.number = item.number
    BY <2>1
  <2> QED
    BY <2>2, <2>3
<1> QED
  BY <1>3, <1>4

\* A row is one of an item on the map.
LEMMA RowsHaveItems ==
    ASSUME LookTypeOK, NEW row \in Rows
    PROVE  row.id \in OnMap /\ row \in RowsOf(row.id) /\ row.number = stored[row.id].number
<1>1. PICK i \in OnMap : row \in RowsOf(i)
  BY DEF Rows
<1> QED
  BY <1>1, RowsOfItem

\* The page and the health report look for the same duplicates.
LEMMA DuplicatesAgree == LookTypeOK => HighlightAgrees
<1> SUFFICES ASSUME LookTypeOK PROVE ComputeDuplicateDeskIds = ServerDuplicates
  BY DEF HighlightAgrees
<1>1. ASSUME NEW i \in ComputeDuplicateDeskIds PROVE i \in ServerDuplicates
  <2>1. PICK a \in Rows, b \in Rows :
           a.id = i /\ a.number \notin Whitelist /\ b.id # a.id /\ b.number = a.number
    BY DEF ComputeDuplicateDeskIds
  <2> QED
    BY <2>1, RowsHaveItems DEF ServerDuplicates
<1>2. ASSUME NEW i \in ServerDuplicates PROVE i \in ComputeDuplicateDeskIds
  <2>1. PICK j \in OnMap \ {i} : stored[j].number = stored[i].number
    BY DEF ServerDuplicates
  <2>2. i \in OnMap /\ stored[i].number \notin Whitelist
    BY DEF ServerDuplicates
  <2>3. PICK a : a \in RowsOf(i) /\ a.id = i /\ a.number = stored[i].number
    BY <2>2, RowsOfItem
  <2>4. PICK b : b \in RowsOf(j) /\ b.id = j /\ b.number = stored[j].number
    BY RowsOfItem
  <2>5. a \in Rows /\ b \in Rows
    BY <2>2, <2>3, <2>4 DEF Rows
  <2> QED
    BY <2>1, <2>2, <2>3, <2>4, <2>5 DEF ComputeDuplicateDeskIds
<1> QED
  BY <1>1, <1>2

\* The rules of the two clients are the same for everything but custom items.
LEMMA SameRules ==
    ASSUME NEW row, row.type \notin Customs, row.type # "floor"
    PROVE  DeskInfo(row) = Desktop(row)
<1>1. CASE row.type \in Rooms \cup Fixtures \cup {"shareddesk"} \/ Unused(row)
  BY <1>1 DEF DeskInfo, Desktop, Unused
<1>2. CASE ~(row.type \in Rooms \cup Fixtures \cup {"shareddesk"} \/ Unused(row))
  <2>1. Desktop(row) = [class |-> InUse(row), half |-> 10]
    BY <1>2 DEF Desktop
  <2>2. DeskInfo(row) = [class |-> InUse(row), half |-> 10]
    <3>1. CASE row.type = "blocked"
      BY <1>2, <3>1 DEF DeskInfo, InUse, Unused
    <3>2. CASE row.type \in {"booking", "hotseat"}
      BY <1>2, <3>2 DEF DeskInfo, InUse, Unused
    <3>3. CASE row.type = "addesk"
      BY <1>2, <3>3 DEF DeskInfo, InUse, Unused
    <3>4. CASE row.type \notin {"blocked", "booking", "hotseat", "addesk"}
      BY <1>2, <3>4 DEF DeskInfo, InUse, Unused
    <3> QED
      BY <3>1, <3>2, <3>3, <3>4
  <2> QED
    BY <2>1, <2>2
<1> QED
  BY <1>1, <1>2

\* The rows of a desk ask for one look.
LEMMA OneLook == LookTypeOK => OneLookPerDesk
<1> SUFFICES ASSUME LookTypeOK, NEW a \in Markers, NEW b \in Markers, a.id = b.id
             PROVE  Desktop(a) = Desktop(b)
  BY DEF OneLookPerDesk
<1>1. a \in Rows /\ b \in Rows
  BY DEF Markers
<1>2. /\ a.type = b.type /\ a.employee = b.employee /\ a.mail = b.mail
      /\ a.booked = b.booked
  BY <1>1, RowsHaveItems, RowsOfItem
<1>3. InUse(a) = InUse(b) /\ (Unused(a) <=> Unused(b))
  BY <1>2 DEF InUse, Unused
<1> QED
  BY <1>2, <1>3 DEF Desktop

-----------------------------------------------------------------------------
(* The table of BookingTable                                               *)

ClaimOf(q) == <<q.user, q.date, q.desk>>

\* What users are taking back, as the refinement reads it off the handlers.
TakenBack ==
    {<<w[r].req.user, w[r].req.date, w[r].req.desk>> :
        r \in {q \in Requests : At(q, "cancel")}}

OwnClaim(st) == IF st.pc = "cancel" THEN {ClaimOf(st.req)} ELSE {}

\* What one handler takes back: a handler that goes on changes its own part.
LEMMA OneClaim ==
    ASSUME HandlersOK, NEW r \in Requests, NEW x, Become(r, x)
    PROVE  \E others : /\ TakenBack  = others \cup OwnClaim(w[r])
                       /\ TakenBack' = others \cup OwnClaim(x)
<1> DEFINE others == {ClaimOf(w[p].req) : p \in {q \in Requests \ {r} : w[q].pc = "cancel"}}
<1>1. w'[r] = x /\ \A q \in Requests \ {r} : w'[q] = w[q]
  BY DEF Become, HandlersOK
<1>2. TakenBack = others \cup OwnClaim(w[r])
  BY DEF TakenBack, At, OwnClaim, ClaimOf
<1>3. TakenBack' = others \cup OwnClaim(x)
  <2>1. TakenBack' = {ClaimOf(w'[p].req) : p \in {q \in Requests : w'[q].pc = "cancel"}}
    BY DEF TakenBack, At, ClaimOf
  <2> QED BY <1>1, <2>1 DEF OwnClaim
<1> QED BY <1>2, <1>3

\* One that neither starts nor ends a cancellation leaves it as it is.
LEMMA NoOtherClaim ==
    ASSUME HandlersOK, NEW r \in Requests, NEW x, Become(r, x),
           OwnClaim(x) = OwnClaim(w[r])
    PROVE  TakenBack' = TakenBack
BY OneClaim

TableVars == <<bookings, seq, clock, TakenBack>>

\* Reading, answering and listing do not touch the table.
LEMMA ReadingLeavesTable ==
    ASSUME IInv, NEW r \in Requests,
           Receive(r) \/ ListMaps(r) \/ ListExisting(r) \/ CleanMap(r) \/ Refresh(r) \/ Answer(r)
    PROVE  UNCHANGED <<bookings, seq, clock>> /\ TakenBack' = TakenBack
<1>1. UNCHANGED <<bookings, seq, clock>>
  BY DEF Receive, ListMaps, ListExisting, CleanMap, Refresh, Answer, world, store
<1>2. ASSUME w[r].pc # "cancel", NEW x, Become(r, x), x.pc # "cancel"
      PROVE  TakenBack' = TakenBack
  BY <1>2, NoOtherClaim DEF IInv, OwnClaim
<1>3. Idle.pc = "idle"
  BY DEF Idle
<1>4. CASE Receive(r)
  <2>1. PICK mode \in Modes, q \in Booking :
          Become(r, [pc |-> "maps", mode |-> mode, req |-> q, cur |-> MapToday(q.map),
                     names |-> {}, list |-> Nothing, del |-> {}, there |-> DOMAIN bookings])
    BY <1>4 DEF Receive
  <2> QED BY <1>1, <1>2, <1>4, <2>1 DEF Receive, At
<1>5. CASE Answer(r)
  BY <1>1, <1>2, <1>3, <1>5 DEF Answer, At
<1>6. CASE ListMaps(r) \/ ListExisting(r) \/ CleanMap(r) \/ Refresh(r)
  <2>1. w[r].pc \in {"maps", "existing", "clean"} /\ w[r] \in Working
    BY <1>6, HandlerIsWorking DEF ListMaps, ListExisting, CleanMap, Refresh, At, IInv
  <2>2. \E x : Become(r, x) /\ x.pc # "cancel"
    <3>1. CASE ListMaps(r)
      <4> DEFINE x == [w[r] EXCEPT !.pc = "existing", !.names = DOMAIN maps]
      <4>1. Become(r, x)
        BY <3>1 DEF ListMaps
      <4>2. x.pc = "existing"
        BY <2>1 DEF Working
      <4> QED BY <4>1, <4>2
    <3>2. CASE ListExisting(r)
      <4> DEFINE x == [w[r] EXCEPT !.pc = "clean", !.list = bookings]
      <4>1. Become(r, x)
        BY <3>2 DEF ListExisting
      <4>2. x.pc = "clean"
        BY <2>1 DEF Working
      <4> QED BY <4>1, <4>2
    <3>3. CASE CleanMap(r)
      <4> DEFINE x(m, today, past) ==
                   [w[r] EXCEPT !.names = @ \ {m}, !.cur = today, !.del = past]
      <4>1. \E m, today, past : Become(r, x(m, today, past))
        BY <3>3 DEF CleanMap
      <4>2. \A m, today, past : x(m, today, past).pc = w[r].pc
        BY <2>1 DEF Working
      <4>3. w[r].pc = "clean"
        BY <3>3 DEF CleanMap, At
      <4> HIDE DEF x
      <4> QED BY <4>1, <4>2, <4>3
    <3>4. CASE Refresh(r)
      <4> DEFINE x == [w[r] EXCEPT !.pc = "act", !.list = bookings]
      <4>1. Become(r, x)
        BY <3>4 DEF Refresh
      <4>2. x.pc = "act"
        BY <2>1 DEF Working
      <4> QED BY <4>1, <4>2
    <3> QED BY <1>6, <3>1, <3>2, <3>3, <3>4
  <2> QED BY <1>1, <1>2, <2>1, <2>2
<1> QED BY <1>4, <1>5, <1>6

\* A new booking is a new row at the end.
LEMMA BookAdds ==
    ASSUME IInv, NEW r \in Requests, Book(r) PROVE Agenda!Add
<1>1. w[r].pc = "act" /\ AddBooking(r) /\ Become(r, Idle) /\ UNCHANGED clock
  BY DEF Book, At, world
<1>2. w[r] \in Working
  BY <1>1, HandlerIsWorking DEF IInv
<1>3. w[r].req \in Booking
  BY <1>2 DEF Working
<1>4. TakenBack' = TakenBack
  BY <1>1, NoOtherClaim DEF IInv, OwnClaim, Idle
<1> QED BY <1>1, <1>3, <1>4 DEF Agenda!Add, AddBooking, TakenBack

\* A user starts to cancel.
LEMMA CancelTakesBack ==
    ASSUME IInv, NEW r \in Requests, Cancel(r)
    PROVE  Agenda!TakeBack \/ UNCHANGED TableVars
<1>1. w[r].pc = "act" /\ UNCHANGED <<bookings, seq, clock>>
  BY DEF Cancel, At, world, store
<1>2. w[r] \in Working
  BY <1>1, HandlerIsWorking DEF IInv
<1> DEFINE own == {k \in DOMAIN w[r].list : w[r].list[k] = w[r].req}
           x == [w[r] EXCEPT !.pc = "cancel", !.del = own]
<1>3. Become(r, IF own = {} THEN Idle ELSE x)
  BY DEF Cancel
<1>4. CASE own = {}
  <2>1. TakenBack' = TakenBack
    BY <1>1, <1>3, <1>4, NoOtherClaim DEF IInv, OwnClaim, Idle
  <2> QED BY <1>1, <2>1 DEF TableVars
<1>5. CASE own # {}
  <2>1. x.pc = "cancel" /\ x.req = w[r].req
    BY <1>2 DEF Working
  <2> HIDE DEF own, x
  <2>2. TakenBack' = TakenBack \cup {ClaimOf(w[r].req)}
    BY <1>1, <1>3, <1>5, <2>1, OneClaim DEF IInv, OwnClaim
  <2>3. w[r].req \in Booking
    BY <1>2 DEF Working
  <2>4. ClaimOf(w[r].req) \in Agenda!Claims
    BY <2>3 DEF Agenda!Claims, Agenda!Claim, ClaimOf
  <2> QED BY <1>1, <2>2, <2>4 DEF Agenda!TakeBack, TakenBack
<1> QED BY <1>4, <1>5

\* A handler deletes a row, or finds that another one was faster.
LEMMA DeleteDrops ==
    ASSUME IInv, NEW r \in Requests, DeleteRow(r)
    PROVE  \/ \E k \in DOMAIN bookings : Agenda!Drop(k)
           \/ Agenda!EndTakingBack
           \/ UNCHANGED TableVars
<1>1. PICK k \in w[r].del :
        /\ bookings' = Without(bookings, k)
        /\ Become(r, IF w[r].pc = "cancel" /\ w[r].del = {k}
                     THEN Idle ELSE [w[r] EXCEPT !.del = @ \ {k}])
  BY DEF DeleteRow
<1>2. w[r].pc \in {"clean", "cancel"} /\ UNCHANGED <<clock, seq>>
  BY DEF DeleteRow, world
<1>3. w[r] \in Working /\ Fine(w[r], bookings, seq, clock)
  BY <1>2, HandlerIsWorking DEF IInv
<1>4. /\ k \in DOMAIN w[r].list
      /\ k \in DOMAIN bookings => Same(w[r].list[k], bookings[k])
      /\ w[r].pc = "cancel" => w[r].list[k] = w[r].req
      /\ w[r].pc # "cancel" => \E z \in Zones : w[r].list[k].date < clock[z]
  BY <1>3 DEF Fine
<1>5. bookings' = [l \in DOMAIN bookings \ {k} |-> bookings[l]]
  BY <1>1 DEF Without
<1>6. ASSUME k \notin DOMAIN bookings PROVE bookings' = bookings
  <2>1. PICK S \in SUBSET Nat : bookings \in [S -> Booking]
    BY DEF IInv, DataOK, BookingRows
  <2> QED BY <1>5, <1>6, <2>1
<1> DEFINE x == [w[r] EXCEPT !.del = @ \ {k}]
<1>7. x.pc = w[r].pc /\ x.req = w[r].req
  BY <1>3 DEF Working
<1> HIDE DEF x
<1>8. CASE w[r].pc = "clean"
  <2>1. TakenBack' = TakenBack
    BY <1>1, <1>7, <1>8, NoOtherClaim DEF IInv, OwnClaim, x
  <2>2. CASE k \in DOMAIN bookings
    <3>1. \E z \in Zones : bookings[k].date < clock[z]
      BY <1>4, <1>8, <2>2 DEF Same
    <3> QED BY <1>2, <1>5, <2>1, <2>2, <3>1 DEF Agenda!Drop, TakenBack
  <2>3. CASE k \notin DOMAIN bookings
    BY <1>2, <1>6, <2>1, <2>3 DEF TableVars
  <2> QED BY <2>2, <2>3
<1>9. CASE w[r].pc = "cancel"
  <2> DEFINE c == ClaimOf(w[r].req)
  <2>1. c \in TakenBack /\ TakenBack' \in {TakenBack, TakenBack \ {c}}
    <3>1. PICK y : Become(r, y) /\ (y = Idle \/ y = x)
      BY <1>1 DEF x
    <3>2. PICK others : TakenBack = others \cup OwnClaim(w[r])
                        /\ TakenBack' = others \cup OwnClaim(y)
      BY <3>1, OneClaim DEF IInv
    <3>3. OwnClaim(w[r]) = {c} /\ OwnClaim(y) \in {{c}, {}}
      BY <1>7, <1>9, <3>1 DEF OwnClaim, Idle
    <3> HIDE DEF c
    <3> QED BY <3>2, <3>3
  <2>2. CASE k \in DOMAIN bookings
    <3>1. Agenda!Claim(bookings[k]) = c
      BY <1>4, <1>9, <2>2 DEF Same, Agenda!Claim, ClaimOf
    <3> HIDE DEF c
    <3> QED BY <1>2, <1>5, <2>1, <2>2, <3>1 DEF Agenda!Drop, TakenBack
  <2>3. CASE k \notin DOMAIN bookings
    <3> HIDE DEF c
    <3>1. CASE TakenBack' = TakenBack
      BY <1>2, <1>6, <2>3, <3>1 DEF TableVars
    <3>2. CASE TakenBack' = TakenBack \ {c}
      BY <1>2, <1>6, <2>1, <2>3, <3>2 DEF Agenda!EndTakingBack, TakenBack
    <3> QED BY <2>1, <3>1, <3>2
  <2> QED BY <2>2, <2>3
<1> QED BY <1>2, <1>8, <1>9

-----------------------------------------------------------------------------
(* Theorems                                                                *)

\* What every handler knows, whatever the others did since it listed the rows.
THEOREM BookingInvariance ==
    ASSUME MaxArchive = 0 PROVE Spec => []IInv
<1>1. Init => IInv
  BY InitIInv
<1>2. IInv /\ [Next]_vars => IInv'
  BY NextIInv
<1> QED BY <1>1, <1>2, PTL DEF Spec

\* A step that takes a row away: DeleteRow of a past row or of one's own.
LEMMA DeleteIsOwnOrPast ==
    ASSUME IInv, NEW r \in Requests, DeleteRow(r), NEW k \in DOMAIN bookings
    PROVE  \/ Kept(k)
           \/ \E z \in Zones : bookings[k].date < clock[z]
           \/ /\ w[r].pc = "cancel" /\ w[r].req.user = bookings[k].user
              /\ w[r].req.date = bookings[k].date /\ w[r].req.desk = bookings[k].desk
<1>1. PICK l \in w[r].del : bookings' = Without(bookings, l)
  BY DEF DeleteRow
<1>2. w[r] \in Working /\ Fine(w[r], bookings, seq, clock)
  BY HandlerIsWorking DEF IInv, DeleteRow
<1>3. bookings \in BookingRows /\ bookings[k] \in Booking
  BY RowProperties DEF IInv, DataOK
<1>4. CASE k # l
  <2>1. k \in DOMAIN bookings' /\ bookings'[k] = bookings[k]
    BY <1>1, <1>3, <1>4, WithoutProperties
  <2> QED BY <1>3, <2>1 DEF Kept, Booking
<1>5. CASE k = l
  <2>1. /\ k \in DOMAIN w[r].list
        /\ w[r].pc = "cancel" => w[r].list[k] = w[r].req
        /\ w[r].pc # "cancel" => \E z \in Zones : w[r].list[k].date < clock[z]
    BY <1>2, <1>5 DEF Fine
  <2>2. Same(w[r].list[k], bookings[k])
    BY <1>2, <2>1 DEF Fine
  <2> QED BY <2>1, <2>2 DEF Same
<1> QED BY <1>4, <1>5

\* Handlers act on lists that others make stale, and maps are renamed in the
\* middle of a cleanup; a booking goes only because its user cancels it or its
\* day is over somewhere.
THEOREM OwnerOrPast ==
    ASSUME MaxArchive = 0 PROVE Spec => OnlyOwnerOrPast
<1> DEFINE Rightly(k) ==
          \/ Kept(k)
          \/ \E z \in Zones : bookings[k].date < clock[z]
          \/ \E r \in Requests :
                /\ w[r].pc = "cancel" /\ w[r].req.user = bookings[k].user
                /\ w[r].req.date = bookings[k].date /\ w[r].req.desk = bookings[k].desk
<1>1. IInv /\ [Next]_vars => [\A k \in DOMAIN bookings : Rightly(k)]_vars
  <2> SUFFICES ASSUME IInv, Next, NEW k \in DOMAIN bookings PROVE Rightly(k)
    OBVIOUS
  <2>1. bookings[k] \in Booking
    BY RowProperties DEF IInv, DataOK
  <2>2. ASSUME UNCHANGED bookings PROVE Kept(k)
    BY <2>1, <2>2 DEF Kept, Booking
  <2>3. ASSUME NEW r \in Requests, Receive(r) \/ Handle(r) PROVE Rightly(k)
    <3>1. CASE DeleteRow(r)
      BY <3>1, DeleteIsOwnOrPast
    <3>2. CASE Book(r)
      <4>1. w[r] \in Working /\ AddBooking(r)
        BY <3>2, HandlerIsWorking DEF IInv, Book, At
      <4>2. k \in DOMAIN bookings' /\ bookings'[k] = bookings[k]
        BY <4>1, AddBookingProperties DEF IInv
      <4> QED BY <2>1, <4>2 DEF Kept, Booking
    <3>3. CASE ~DeleteRow(r) /\ ~Book(r)
      <4>1. UNCHANGED bookings
        BY <2>3, <3>3 DEF Handle, Receive, ListMaps, ListExisting, CleanMap, Refresh,
                          Answer, Cancel, store
      <4> QED BY <2>2, <4>1
    <3> QED BY <3>1, <3>2, <3>3
  <2>4. ASSUME RenameMap PROVE Kept(k)
    <3>1. PICK m \in DOMAIN maps, n \in Names \ DOMAIN maps :
            bookings' = [i \in DOMAIN bookings |->
                            IF bookings[i].map = m
                            THEN [bookings[i] EXCEPT !.map = n] ELSE bookings[i]]
      BY <2>4 DEF RenameMap
    <3> QED BY <2>1, <3>1 DEF Kept, Booking
  <2>5. ~Import
    BY SpendProperties DEF Import, IInv, BudgetOK
  <2>6. ASSUME \/ \E z \in Zones : Midnight(z)
               \/ SetInternalBooking \/ PutMap \/ DeleteMap \/ Export
        PROVE  Kept(k)
    BY <2>2, <2>6 DEF Midnight, SetInternalBooking, PutMap, DeleteMap, Export, store
  <2> QED BY <2>3, <2>4, <2>5, <2>6 DEF Next
<1> QED BY <1>1, BookingInvariance, PTL DEF Spec, OnlyOwnerOrPast

\* The refinement: whatever handlers read while others write (handleRestBooking), and
\* whatever is done to maps and settings, each step of Booking is one of
\* BookingTable or leaves it as it is, as long as no archive is imported.
THEOREM TableIsKept ==
    ASSUME MaxArchive = 0 PROVE Spec => TableKept
<1>1. Init => Agenda!Init
  <2> SUFFICES ASSUME Init PROVE Agenda!Init
    OBVIOUS
  <2>1. \A r \in Requests : ~At(r, "cancel")
    BY DEF Init, At, Idle
  <2> QED BY <2>1 DEF Init, Nothing, Agenda!Init
<1>2. IInv /\ [Next]_vars => [Agenda!Next]_(Agenda!vars)
  <2> SUFFICES ASSUME IInv, [Next]_vars PROVE Agenda!Next \/ UNCHANGED TableVars
    BY DEF Agenda!vars, TableVars, TakenBack
  <2>1. ASSUME NEW r \in Requests, Receive(r) \/ Handle(r)
        PROVE  Agenda!Next \/ UNCHANGED TableVars
    BY <2>1, ReadingLeavesTable, BookAdds, CancelTakesBack, DeleteDrops
       DEF Handle, Agenda!Next, TableVars
  <2>2. UNCHANGED w => TakenBack' = TakenBack
    BY DEF TakenBack, At
  <2>3. ASSUME NEW z \in Zones, Midnight(z) PROVE Agenda!NextDay
    BY <2>2, <2>3 DEF Midnight, store, Agenda!NextDay, TakenBack
  <2>4. CASE RenameMap
    <3>1. PICK m \in DOMAIN maps, n \in Names \ DOMAIN maps :
            bookings' = [k \in DOMAIN bookings |->
                            IF bookings[k].map = m
                            THEN [bookings[k] EXCEPT !.map = n] ELSE bookings[k]]
      BY <2>4 DEF RenameMap
    <3>2. m \in Names
      BY DEF IInv, DataOK
    <3>3. UNCHANGED <<seq, clock>> /\ TakenBack' = TakenBack
      BY <2>2, <2>4 DEF RenameMap
    <3> QED BY <3>1, <3>2, <3>3 DEF Agenda!Move, Agenda!Next, TakenBack
  <2>5. ~Import
    BY SpendProperties DEF Import, IInv, BudgetOK
  <2>6. CASE SetInternalBooking \/ PutMap \/ DeleteMap \/ Export \/ UNCHANGED vars
    BY <2>2, <2>6 DEF SetInternalBooking, PutMap, DeleteMap, Export, store, vars, TableVars
  <2> QED BY <2>1, <2>3, <2>4, <2>5, <2>6 DEF Next, Agenda!Next
<1> QED BY <1>1, <1>2, BookingInvariance, PTL DEF Spec, TableKept, Agenda!Spec

\* Without a lock, two rows for one slot come about only by requests that
\* overlap: who comes after a booking finds it taken, unless its map is renamed
\* to the one asked for meanwhile.
THEOREM OverlapOnly ==
    ASSUME MaxArchive = 0, MaxRename = 0 PROVE Spec => []DoubleBookedOnlyByOverlap
<1>1. Init => DoubleBookedOnlyByOverlap
  BY DEF Init, Nothing, DoubleBookedOnlyByOverlap
<1>2. IInv /\ DoubleBookedOnlyByOverlap /\ [Next]_vars => DoubleBookedOnlyByOverlap'
  <2> SUFFICES ASSUME IInv, DoubleBookedOnlyByOverlap, [Next]_vars
               PROVE  DoubleBookedOnlyByOverlap'
    OBVIOUS
  <2>1. CASE \E r \in Requests : Book(r)
    <3>1. PICK r \in Requests : Book(r)
      BY <2>1
    <3>2. w[r].pc = "act" /\ AddBooking(r) /\ ~Taken(r)
      BY <3>1 DEF Book, At, Accepted
    <3>3. w[r] \in Working /\ Fine(w[r], bookings, seq, clock)
      BY <3>2, HandlerIsWorking DEF IInv
    <3>4. /\ seq' = seq + 1
          /\ DOMAIN bookings' = DOMAIN bookings \cup {seq'}
          /\ bookings'[seq'] = w[r].req /\ seq' \notin DOMAIN bookings
          /\ \A k \in DOMAIN bookings : bookings'[k] = bookings[k]
          /\ arrivals'[seq'] = w[r].there
          /\ \A k \in DOMAIN arrivals \ {seq'} : arrivals'[k] = arrivals[k]
      BY <3>2, <3>3, AddBookingProperties DEF IInv
    <3>5. seq \in Nat /\ DOMAIN bookings \subseteq 1..seq
          /\ DOMAIN bookings \subseteq DOMAIN arrivals
      BY DEF IInv, DataOK
    <3> SUFFICES ASSUME NEW k \in DOMAIN bookings', NEW l \in DOMAIN bookings',
                        k < l, Slot(bookings'[k]) = Slot(bookings'[l])
                 PROVE  k \notin arrivals'[l]
      BY DEF DoubleBookedOnlyByOverlap, Slot
    <3>6. k \in DOMAIN bookings
      BY <3>4, <3>5
    <3>7. CASE l = seq'
      <4> SUFFICES ASSUME k \in w[r].there PROVE FALSE
        BY <3>4, <3>7
      <4>1. k \in DOMAIN w[r].list /\ Same(w[r].list[k], bookings[k])
        BY <3>2, <3>3, <3>6 DEF Fine
      <4>2. Slot(w[r].list[k]) = Slot(bookings[k])
        BY <4>1 DEF Same, Slot
      <4>3. Slot(bookings[k]) = Slot(w[r].req)
        BY <3>4, <3>6, <3>7
      <4> QED BY <3>2, <4>1, <4>2, <4>3 DEF Taken
    <3>8. CASE l # seq'
      BY <3>4, <3>5, <3>6, <3>8 DEF DoubleBookedOnlyByOverlap
    <3> QED BY <3>7, <3>8
  <2>2. CASE ~\E r \in Requests : Book(r)
    <3>1. /\ UNCHANGED arrivals /\ DOMAIN bookings' \subseteq DOMAIN bookings
          /\ \A k \in DOMAIN bookings' : bookings'[k] = bookings[k]
      <4>1. CASE \E r \in Requests : DeleteRow(r)
        <5>1. PICK r \in Requests : DeleteRow(r)
          BY <4>1
        <5>2. PICK k : bookings' = Without(bookings, k)
          BY <5>1 DEF DeleteRow
        <5>3. UNCHANGED arrivals
          BY <5>1 DEF DeleteRow
        <5> QED BY <5>2, <5>3, WithoutProperties DEF IInv, DataOK
      <4>2. ~RenameMap /\ ~Import
        BY SpendProperties DEF RenameMap, Import, IInv, BudgetOK
      <4>3. CASE ~\E r \in Requests : DeleteRow(r)
        <5>1. UNCHANGED <<bookings, arrivals>>
          BY <2>2, <4>2, <4>3
             DEF Next, vars, Handle, Receive, ListMaps, ListExisting, CleanMap, Refresh,
                 Answer, Cancel, Midnight, SetInternalBooking, PutMap, DeleteMap, Export, store
        <5> QED BY <5>1
      <4> QED BY <4>1, <4>3
    <3> QED BY <3>1 DEF DoubleBookedOnlyByOverlap, Slot
  <2> QED BY <2>1, <2>2
<1> QED BY <1>1, <1>2, BookingInvariance, PTL DEF Spec

\* Without an import a new booking takes no other one's number: AddBooking leaves
\* every stored booking as it is.
THEOREM AddingLeavesOthers ==
    ASSUME MaxArchive = 0 PROVE Spec => AddingKeepsOthers
<1>1. IInv /\ [Next]_vars => [seq' > seq => \A k \in DOMAIN bookings : Kept(k)]_vars
  <2> SUFFICES ASSUME IInv, Next, seq' > seq, NEW k \in DOMAIN bookings PROVE Kept(k)
    OBVIOUS
  <2>1. seq \in Nat
    BY DEF IInv, DataOK
  <2>2. CASE \E r \in Requests : Book(r)
    <3>1. PICK r \in Requests : Book(r)
      BY <2>2
    <3>2. w[r] \in Working /\ AddBooking(r)
      BY <3>1, HandlerIsWorking DEF IInv, Book, At
    <3>3. k \in DOMAIN bookings' /\ bookings'[k] = bookings[k] /\ bookings[k] \in Booking
      BY <3>2, AddBookingProperties, RowProperties DEF IInv, DataOK
    <3> QED BY <3>3 DEF Kept, Booking
  <2>3. CASE ~\E r \in Requests : Book(r)
    <3>1. seq' = seq \/ Import
      BY <2>3 DEF Next, Handle, Receive, ListMaps, ListExisting, CleanMap, DeleteRow, Refresh,
                  Answer, Cancel, Midnight, SetInternalBooking, PutMap, DeleteMap, RenameMap,
                  Export, store
    <3>2. ~Import
      BY SpendProperties DEF Import, IInv, BudgetOK
    <3> QED BY <2>1, <3>1, <3>2
  <2> QED BY <2>2, <2>3
<1> QED BY <1>1, BookingInvariance, PTL DEF Spec, AddingKeepsOthers

\* Every variable keeps its type, and row numbers stay within the requests there
\* were, also when archives are exported and imported in between (AddBooking,
\* the import of the group "bookings").
THEOREM BookingTyping == Spec => []TypeOK
<1>1. Init => NumbersInv
  <2> SUFFICES ASSUME Init PROVE NumbersInv
    OBVIOUS
  <2>1. Adding = {}
    BY DEF Init, Adding
  <2>2. RequestsCount
    BY <2>1, FS_EmptySet, BoundsAssumption DEF Init, RequestsCount
  <2>3. ArchivesKnown
    BY DEF Init, ArchivesKnown
  <2>4. 1 \in Days
    <3>1. PICK slot \in Asked : slot[1] \in 1..LastDay
      BY AskedAssumption
    <3> QED
      BY <3>1, BoundsAssumption DEF Days
  <2>5. clock \in [Zones -> Days] /\ w \in [Requests -> HandlerState]
    BY <2>4 DEF Init, HandlerState
  <2>6. DOMAIN maps \subseteq Names /\ \A m \in DOMAIN maps : maps[m] \in Zones
    BY DEF Init
  <2>7. 1..seq = {} /\ seq \in 0..MaxRequests
    BY BoundsAssumption DEF Init
  <2>8. TypeOK
    BY <2>5, <2>6, <2>7, TableRows DEF Init, TypeOK
  <2> QED
    BY <2>2, <2>3, <2>8 DEF NumbersInv
<1>2. NumbersInv /\ [Next]_vars => NumbersInv'
  <2>1. ASSUME NumbersInv, UNCHANGED vars PROVE NumbersInv'
    <3>1. UNCHANGED <<maps, bookings, seq, archives, enabled, clock, w, budget, arrivals>>
      BY <2>1 DEF vars
    <3> QED
      BY <2>1, <3>1 DEF NumbersInv, TypeOK, RequestsCount, ArchivesKnown, Adding
  <2> QED
    BY <2>1, ReceiveKeepsNumbers, HandlerGoesOn, BookKeepsNumbers, WorldKeepsNumbers
    DEF Next, Handle
<1>3. NumbersInv => TypeOK
  BY DEF NumbersInv
<1> QED
  BY <1>1, <1>2, <1>3, PTL DEF Spec

\* Whatever is stored, seated or booked, the items keep their types.
THEOREM LookTyping == LookSpec => []LookTypeOK
<1>1. LookInit => LookTypeOK
  BY DEF LookInit, LookTypeOK, Seatings
<1>2. LookTypeOK /\ [LookNext]_lookVars => LookTypeOK'
  <2> SUFFICES ASSUME LookTypeOK, [LookNext]_lookVars PROVE LookTypeOK'
    OBVIOUS
  <2>1. ASSUME NEW i \in ItemIds, NEW item \in Items, StoreItem(i, item) PROVE LookTypeOK'
    BY <2>1 DEF StoreItem, LookTypeOK
  <2>2. ASSUME NEW i \in ItemIds, DeleteItem(i) PROVE LookTypeOK'
    BY <2>2 DEF DeleteItem, LookTypeOK
  <2>3. ASSUME NEW n \in Numbers, NEW people \in Seatings, Seat(n, people) PROVE LookTypeOK'
    BY <2>3 DEF Seat, LookTypeOK
  <2>4. ASSUME NEW n \in Numbers, ToggleBooking(n) PROVE LookTypeOK'
    BY <2>4 DEF ToggleBooking, LookTypeOK
  <2>5. CASE UNCHANGED lookVars
    BY <2>5 DEF lookVars, LookTypeOK
  <2> QED
    BY <2>1, <2>2, <2>3, <2>4, <2>5 DEF LookNext
<1> QED
  BY <1>1, <1>2, PTL DEF LookSpec

\* Map page, mobile app and health report tell the same of every desk, for any
\* items, numbers, people and bookings (updateDesks, deskInfo, duplicateDeskGroups).
THEOREM ClientsAgree == LookSpec => []LooksAgree
<1>1. LookTypeOK => LooksAgree
  <2> SUFFICES ASSUME LookTypeOK PROVE LooksAgree
    OBVIOUS
  <2>1. SameLook
    BY SameRules DEF SameLook, Markers
  <2> QED
    BY <2>1, DuplicatesAgree, OneLook DEF LooksAgree
<1> QED
  BY <1>1, LookTyping, PTL
=============================================================================
