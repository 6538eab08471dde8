------------------------------ MODULE Booking ------------------------------
(***************************************************************************)
(* Desk booking: handleRestBooking (internal/web/booking.go), and what map *)
(* administration and the import of an archive (internal/web/backup.go) do *)
(* to the maps and bookings buckets.                                       *)
(*                                                                         *)
(* Every call first removes past bookings, then books, cancels or lists.   *)
(* Handlers run concurrently and hold no lock: each of the bolt            *)
(* transactions they make is one step here, on what earlier ones returned. *)
(***************************************************************************)
EXTENDS Integers, FiniteSets

CONSTANTS
    Names,       \* map names
    Desks,       \* desk numbers
    Users,       \* signed-in users
    Asked,       \* the slots visitors ask for: dates, maps and desks
    Zones,       \* time zones of maps
    DefaultZone, \* the server's zone, used for a map that does not exist
    LastDay,     \* bound: the calendar ends here
    Requests,    \* concurrent handlers
    MaxRequests, \* bound: bookings and cancellations asked for
    MaxRename, MaxDelete, MaxEdit, \* bounds: what administrators do to maps
    MaxArchive   \* bound: exports and imports

ASSUME ZonesAssumption  == DefaultZone \in Zones
ASSUME AskedAssumption  == Asked \subseteq (1..LastDay) \X Names \X Desks /\ Asked # {}
ASSUME BoundsAssumption ==
    {LastDay, MaxRequests, MaxRename, MaxDelete, MaxEdit, MaxArchive} \subseteq Nat

VARIABLES
    maps,      \* BucketMaps: name -> time zone
    bookings,  \* BucketBookings: sequence number -> booking
    seq,       \* the bucket's sequence
    archives,  \* the bookings bucket in each archive exported so far
    enabled,   \* setting "internalbooking"
    clock,     \* zone -> today's date there
    w,         \* local state of each handler
    budget,    \* what is left of each bound
    arrivals   \* history: booking -> the bookings there when it was asked for

vars == <<maps, bookings, seq, archives, enabled, clock, w, budget, arrivals>>

Days     == 1..LastDay
Booking  == [date : Days, map : Names, desk : Desks, user : Users]
Slot(b)  == <<b.date, b.map, b.desk>>
Modes    == {"book", "remove", "list"}
Table    == UNION {[S -> Booking] : S \in SUBSET (1..MaxRequests)}
Nothing  == [x \in {} |-> x]
Without(f, x) == [y \in DOMAIN f \ {x} |-> f[y]]

\* MapLocation falls back to the default zone when the map does not exist.
MapToday(name) == clock[IF name \in DOMAIN maps THEN maps[name] ELSE DefaultZone]

\* req: the query parameters and the session's user; cur: currentDate; names:
\* the maps still to clean up; list: existing, later bookings; del: the rows
\* about to be deleted.
Idle == [pc |-> "idle"]
HandlerState ==
    {Idle} \cup
    [pc : {"maps", "existing", "clean", "refresh", "act", "cancel"}, mode : Modes,
     req : Booking, cur : Days, names : SUBSET Names, list : Table,
     del : SUBSET (1..MaxRequests), there : SUBSET (1..MaxRequests)]

At(r, pc) == w[r].pc = pc
Become(r, st) == w' = [w EXCEPT ![r] = st]
Spend(b) == budget[b] > 0 /\ budget' = [budget EXCEPT ![b] = @ - 1]
world == <<maps, clock, enabled, archives>>
store == <<bookings, seq>>

----------------------------------------------------------------------------
(* handleRestBooking *)

\* The parameters are taken as they come; the date and map need not make sense.
\* Listing is free: every visitor of a map does it (what it asks for only selects
\* the rows shown, so one choice stands for all).
Receive(r) ==
    /\ At(r, "idle")
    /\ \E mode \in Modes, q \in Booking :
        /\ Slot(q) \in Asked
        /\ mode = "list" => q = CHOOSE b \in Booking : Slot(b) \in Asked
        /\ IF mode = "list" THEN UNCHANGED budget ELSE Spend("requests")
        /\ Become(r, [pc |-> "maps", mode |-> mode, req |-> q, cur |-> MapToday(q.map),
                      names |-> {}, list |-> Nothing, del |-> {},
                      there |-> DOMAIN bookings])
    /\ UNCHANGED <<world, store, arrivals>>

ListMaps(r) ==
    /\ At(r, "maps")
    /\ Become(r, [w[r] EXCEPT !.pc = "existing", !.names = DOMAIN maps])
    /\ UNCHANGED <<world, store, budget, arrivals>>

ListExisting(r) ==
    /\ At(r, "existing")
    /\ Become(r, [w[r] EXCEPT !.pc = "clean", !.list = bookings])
    /\ UNCHANGED <<world, store, budget, arrivals>>

\* Mutant: only the map asked for is cleaned up.
CleanMap_OnlyAsked(r) ==
    /\ At(r, "clean") /\ w[r].del = {} /\ w[r].names # {}
    /\ LET m == w[r].req.map
           today == MapToday(m)
           list == w[r].list
       IN Become(r, [w[r] EXCEPT
              !.names = {},
              !.cur = IF w[r].mode = "book" THEN today ELSE @,
              !.del = {k \in DOMAIN list : list[k].map = m /\ list[k].date < today}])
    /\ UNCHANGED <<world, store, budget, arrivals>>

\* The next listed map: what is past there by its own clock.
CleanMap(r) ==
    /\ At(r, "clean") /\ w[r].del = {}
    /\ \E m \in w[r].names :
        LET today == MapToday(m)
            list == w[r].list
        IN Become(r, [w[r] EXCEPT
               !.names = @ \ {m},
               !.cur = IF w[r].mode = "book" /\ w[r].req.map = m THEN today ELSE @,
               !.del = {k \in DOMAIN list : list[k].map = m /\ list[k].date < today}])
    /\ UNCHANGED <<world, store, budget, arrivals>>

\* DeleteBooking, one row after the other, by sequence number.
DeleteRow(r) ==
    /\ w[r].pc \in {"clean", "cancel"}
    /\ \E k \in w[r].del :
       /\ \A l \in w[r].del : k <= l
       /\ bookings' = Without(bookings, k)
       /\ Become(r, IF w[r].pc = "cancel" /\ w[r].del = {k}
                    THEN Idle ELSE [w[r] EXCEPT !.del = @ \ {k}])
    /\ UNCHANGED <<world, seq, budget, arrivals>>

Refresh(r) ==
    /\ At(r, "clean") /\ w[r].del = {} /\ w[r].names = {}
    /\ Become(r, [w[r] EXCEPT !.pc = "act", !.list = bookings])
    /\ UNCHANGED <<world, store, budget, arrivals>>

\* Mutant: only the user's own bookings are looked at.
Taken_ByMe(r) == \E k \in DOMAIN w[r].list :
    Slot(w[r].list[k]) = Slot(w[r].req) /\ w[r].list[k].user = w[r].req.user

Taken(r) == \E k \in DOMAIN w[r].list : Slot(w[r].list[k]) = Slot(w[r].req)
Accepted(r) == enabled /\ ~Taken(r) /\ w[r].req.date >= w[r].cur

\* Mutant: the row gets one more than the largest number there.
AddBooking_MaxPlusOne(r) ==
    LET id == 1 + (IF bookings = Nothing THEN 0
                   ELSE CHOOSE k \in DOMAIN bookings : \A l \in DOMAIN bookings : l <= k)
    IN /\ bookings' = [k \in DOMAIN bookings \cup {id} |->
                          IF k = id THEN w[r].req ELSE bookings[k]]
       /\ arrivals' = [k \in DOMAIN arrivals \cup {id} |->
                          IF k = id THEN w[r].there ELSE arrivals[k]]
       /\ seq' = seq + 1

\* AddBooking: the row gets the next sequence number of the bucket.
AddBooking(r) ==
    /\ seq' = seq + 1
    /\ bookings' = [k \in DOMAIN bookings \cup {seq'} |->
                       IF k = seq' THEN w[r].req ELSE bookings[k]]
    /\ arrivals' = [k \in DOMAIN arrivals \cup {seq'} |->
                       IF k = seq' THEN w[r].there ELSE arrivals[k]]

Book(r) ==
    /\ At(r, "act") /\ w[r].mode = "book" /\ Accepted(r)
    /\ AddBooking(r)
    /\ Become(r, Idle)
    /\ UNCHANGED <<world, budget>>

\* Disabled, already booked, in the past; or mode=list, that changes nothing.
Answer(r) ==
    /\ At(r, "act")
    /\ w[r].mode = "list" \/ (w[r].mode = "book" /\ ~Accepted(r))
    /\ Become(r, Idle)
    /\ UNCHANGED <<world, store, budget, arrivals>>

\* mode=remove: the user's own rows for the slot.
Cancel(r) ==
    /\ At(r, "act") /\ w[r].mode = "remove"
    /\ LET own == {k \in DOMAIN w[r].list : w[r].list[k] = w[r].req}
       IN Become(r, IF own = {} THEN Idle ELSE [w[r] EXCEPT !.pc = "cancel", !.del = own])
    /\ UNCHANGED <<world, store, budget, arrivals>>

Handle(r) ==
    \/ ListMaps(r) \/ ListExisting(r) \/ CleanMap(r) \/ DeleteRow(r) \/ Refresh(r)
    \/ Book(r) \/ Answer(r) \/ Cancel(r)

----------------------------------------------------------------------------
(* Around it *)

\* Midnight in a zone; no zone is more than a day ahead of another.
Midnight(z) ==
    /\ clock[z] < LastDay
    /\ \A y \in Zones : clock[z] <= clock[y]
    /\ clock' = [clock EXCEPT ![z] = @ + 1]
    /\ UNCHANGED <<archives, maps, enabled, store, w, budget, arrivals>>

SetInternalBooking ==
    /\ Spend("edit")
    /\ enabled' = ~enabled
    /\ UNCHANGED <<archives, maps, clock, store, w, arrivals>>

\* PutMap: a map is created or gets another time zone.
PutMap ==
    /\ Spend("edit")
    /\ \E m \in Names, z \in Zones :
        maps' = [n \in DOMAIN maps \cup {m} |-> IF n = m THEN z ELSE maps[n]]
    /\ UNCHANGED <<archives, clock, enabled, store, w, arrivals>>

\* Deleting a map leaves its bookings behind.
DeleteMap ==
    /\ Spend("delete")
    /\ \E m \in DOMAIN maps : maps' = Without(maps, m)
    /\ UNCHANGED <<archives, clock, enabled, store, w, arrivals>>

\* RenameMap: the record and all bookings of the map, in one transaction.
RenameMap ==
    /\ Spend("rename")
    /\ \E m \in DOMAIN maps, n \in Names \ DOMAIN maps :
        /\ maps' = [k \in (DOMAIN maps \ {m}) \cup {n} |->
                        IF k = n THEN maps[m] ELSE maps[k]]
        /\ bookings' = [k \in DOMAIN bookings |->
                           IF bookings[k].map = m
                           THEN [bookings[k] EXCEPT !.map = n] ELSE bookings[k]]
    /\ UNCHANGED <<archives, clock, enabled, seq, w, arrivals>>

\* The database is snapshot into an archive.
Export ==
    /\ Spend("archive")
    /\ archives' = archives \cup {bookings}
    /\ UNCHANGED <<maps, clock, enabled, store, w, arrivals>>

\* Import of the group "bookings": the bucket is deleted and created again, with
\* the archived rows under their old keys, and its sequence starts over.
Import ==
    /\ Spend("archive")
    /\ \E rows \in archives : bookings' = rows
    /\ seq' = 0
    /\ UNCHANGED <<world, w, arrivals>>

Init ==
    /\ maps \in UNION {[S -> Zones] : S \in SUBSET Names}
    /\ bookings = Nothing /\ seq = 0 /\ arrivals = Nothing
    /\ archives = {} /\ enabled = TRUE
    /\ clock = [z \in Zones |-> 1]
    /\ w = [r \in Requests |-> Idle]
    /\ budget = [requests |-> MaxRequests, rename |-> MaxRename,
                 delete |-> MaxDelete, edit |-> MaxEdit, archive |-> MaxArchive]

Next ==
    \/ \E r \in Requests : Receive(r) \/ Handle(r)
    \/ \E z \in Zones : Midnight(z)
    \/ SetInternalBooking \/ PutMap \/ DeleteMap \/ RenameMap
    \/ Export \/ Import

\* A handler that started goes on, and visitors keep coming.
Fairness ==
    /\ \A r \in Requests : WF_vars(Handle(r))
    /\ WF_vars(\E r \in Requests : Receive(r))

Spec     == Init /\ [][Next]_vars
FairSpec == Spec /\ Fairness

----------------------------------------------------------------------------
(* Properties *)

TypeOK ==
    /\ DOMAIN maps \subseteq Names /\ \A m \in DOMAIN maps : maps[m] \in Zones
    /\ bookings \in Table /\ archives \subseteq Table /\ seq \in 0..MaxRequests
    /\ enabled \in BOOLEAN
    /\ clock \in [Zones -> Days]
    /\ w \in [Requests -> HandlerState]
    /\ 1..seq \cup DOMAIN bookings \subseteq DOMAIN arrivals

\* A booking goes away, or becomes another one, only because its user cancels it
\* or its day is over in some zone a map or the server lives in; never because of
\* a stale list, a row number used again, or a map that is renamed meanwhile.
Kept(k) == k \in DOMAIN bookings' /\ [bookings'[k] EXCEPT !.map = bookings[k].map] = bookings[k]

OnlyOwnerOrPast ==
    [][\A k \in DOMAIN bookings :
          \/ Kept(k)
          \/ \E z \in Zones : bookings[k].date < clock[z]
          \/ \E r \in Requests :
                /\ w[r].pc = "cancel" /\ w[r].req.user = bookings[k].user
                /\ w[r].req.date = bookings[k].date /\ w[r].req.desk = bookings[k].desk]_vars

\* As long as no archive is imported, handlers that interleave in any way keep
\* the table of BookingTable: no row is replaced, none comes back, each goes for
\* its own reason, and a renamed map takes all of its rows along.
Agenda == INSTANCE BookingTable WITH
              Maps <- Names, Bookings <- Booking, rows <- bookings,
              last <- seq, today <- clock,
              cancelled <- {<<w[r].req.user, w[r].req.date, w[r].req.desk>> :
                               r \in {q \in Requests : At(q, "cancel")}}

TableKept == Agenda!Spec

\* static/docs/index.htm:108: bookings get removed "if you cancel your booking or
\* the booked date is in the past".  So booking a desk leaves every stored booking
\* alone, also after an archive was imported.
AddingKeepsOthers ==
    [][seq' > seq => \A k \in DOMAIN bookings : Kept(k)]_vars

\* handleRestBooking checks "taken" before it adds, without a lock.  Two rows for
\* one slot exist only when the second was asked for before the first was stored:
\* whoever comes after a booking cannot book over it.
DoubleBookedOnlyByOverlap ==
    \A k, l \in DOMAIN bookings :
        k < l /\ Slot(bookings[k]) = Slot(bookings[l]) => k \notin arrivals[l]

Past(k) == /\ k \in DOMAIN bookings /\ bookings[k].map \in DOMAIN maps
           /\ bookings[k].date < MapToday(bookings[k].map)

\* A past booking of a map that stays is removed as visitors come, whatever map
\* they look at, though its day ends in between and other maps are deleted.
PastRemoved ==
    \A k \in 1..MaxRequests : [](Past(k) => <>~Past(k))

\* static/docs/index.htm:108: all bookings get removed if "the booked date is in the
\* past".
EveryPastBookingRemoved ==
    \A k \in 1..MaxRequests :
        (k \in DOMAIN bookings /\ \A z \in Zones : bookings[k].date < clock[z])
            ~> (k \notin DOMAIN bookings)
=============================================================================
