------------------------------ MODULE DeskLook ------------------------------
(***************************************************************************)
(* What the items of a map look like: the rows the server makes of the     *)
(* stored items and of the people seated at them (buildMapDesks in         *)
(* src/internal/web/desks.go), the class and size the map page gives a row *)
(* (updateDesks in user.js), the copy of these rules in the mobile app     *)
(* (deskInfo in mobile-app.js), and the two searches for duplicate desk    *)
(* numbers, on the server and on the page.                                 *)
(*                                                                         *)
(* Names are abstracted to being empty or not, positions are left out.     *)
(***************************************************************************)
EXTENDS Naturals, FiniteSets

CONSTANTS
    ItemIds,        \* ids of items of the map
    Numbers,    \* desk numbers
    Whitelist,  \* numbers that may be given twice
    SizeOf      \* the named size of each custom item type

ASSUME LookAssumption ==
    /\ Whitelist \subseteq Numbers
    /\ SizeOf \in [DOMAIN SizeOf -> {"small", "medium", "large"}]

Rooms     == {"exit", "meeting", "restroom"}
Fixtures  == {"firstaid", "food", "keycardlock", "keylock", "printer", "service"}
DeskTypes == {"addesk", "localdesk", "booking", "hotseat", "blocked"}
Customs   == DOMAIN SizeOf
Types     == DeskTypes \cup Customs \cup {"meeting", "printer", "floor"}

Gone == [type |-> "gone"]
Items == [type : Types, number : Numbers, employee : BOOLEAN]

\* The people of the winning source at a desk number, with the first one's mail.
Seatings == {[source |-> "none", people |-> 0, mail |-> FALSE]}
            \cup [source : {"ldap", "robin"}, people : 1..2, mail : BOOLEAN]

VARIABLES
    stored,   \* the items, by id
    seated,   \* occupancy, by desk number
    bookedNumbers    \* numbers of the desks with a booking for the date shown

lookVars == <<stored, seated, bookedNumbers>>

\* Only custom items and localdesk may be stored without an employee.
Storable(item) == item.employee \/ item.type \in {"localdesk"} \cup Customs

LookTypeOK ==
    /\ stored \in [ItemIds -> {item \in Items : Storable(item)} \cup {Gone}]
    /\ seated \in [Numbers -> Seatings]
    /\ bookedNumbers \subseteq Numbers

LookInit ==
    /\ stored = [i \in ItemIds |-> Gone]
    /\ seated = [n \in Numbers |-> [source |-> "none", people |-> 0, mail |-> FALSE]]
    /\ bookedNumbers = {}

\* Mutant: the employee is not asked for.
StoreItem_Unchecked(i, item) ==
    /\ stored' = [stored EXCEPT ![i] = item]
    /\ UNCHANGED <<seated, bookedNumbers>>

\* rest/update, modes create and update.
StoreItem(i, item) ==
    /\ Storable(item)
    /\ stored' = [stored EXCEPT ![i] = item]
    /\ UNCHANGED <<seated, bookedNumbers>>

\* rest/update, mode delete.
DeleteItem(i) ==
    /\ stored' = [stored EXCEPT ![i] = Gone]
    /\ UNCHANGED <<seated, bookedNumbers>>

\* assignMap: a sync changes who sits where.
Seat(n, people) ==
    /\ seated' = [seated EXCEPT ![n] = people]
    /\ UNCHANGED <<stored, bookedNumbers>>

\* A booking for the date is made or cancelled.
ToggleBooking(n) ==
    /\ bookedNumbers' = (bookedNumbers \ {n}) \cup ({n} \ bookedNumbers)
    /\ UNCHANGED <<stored, seated>>

LookNext ==
    \/ \E i \in ItemIds, item \in Items : StoreItem(i, item)
    \/ \E i \in ItemIds : DeleteItem(i)
    \/ \E n \in Numbers, people \in Seatings : Seat(n, people)
    \/ \E n \in Numbers : ToggleBooking(n)

LookSpec == LookInit /\ [][LookNext]_lookVars

-----------------------------------------------------------------------------
(* The rows of the server.                                                 *)

OnMap == {i \in ItemIds : stored[i] # Gone}

\* The desktype of the rows of an occupied desk.
OccupiedType(people) ==
    IF people.source = "robin" THEN "occupied"
    ELSE IF people.people > 1  THEN "shareddesk"
    ELSE "addesk"

\* Mutant: the second person makes a desk shared, the first one stays.
RowsOf_TypePerPerson(i) ==
    LET item == stored[i]  people == seated[item.number]
    IN  {[id |-> i, person |-> p,
          type |-> IF people.people = 0 THEN item.type
                   ELSE OccupiedType([people EXCEPT !.people = p]),
          employee |-> item.employee \/ people.source = "robin",
          mail |-> people.mail, number |-> item.number, booked |-> item.number \in bookedNumbers]
             : p \in IF people.people = 0 THEN {0} ELSE 1..people.people}

\* buildMapDesks: one row for each person at the desk, or the stored item.
RowsOf(i) ==
    LET item == stored[i]  people == seated[item.number]
    IN  IF people.people > 0
        THEN [id : {i}, person : 1..people.people, type : {OccupiedType(people)},
              employee : {people.source = "robin" \/ item.employee},
              mail : {people.mail}, number : {item.number}, booked : {item.number \in bookedNumbers}]
        ELSE {[id |-> i, person |-> 0, type |-> item.type, employee |-> item.employee,
               mail |-> FALSE, number |-> item.number, booked |-> item.number \in bookedNumbers]}

Rows == UNION {RowsOf(i) : i \in OnMap}

\* duplicateDeskGroups: the items whose number another item has, too.
ServerDuplicates ==
    {i \in OnMap : /\ stored[i].number \notin Whitelist
                   /\ \E j \in OnMap \ {i} : stored[j].number = stored[i].number}

-----------------------------------------------------------------------------
(* The map page.                                                           *)

\* customHalfsize
CustomHalfsize(size) ==
    CASE size = "small" -> 18 [] size = "large" -> 40 [] OTHER -> 25

\* updateDesks: a desk nobody has, by the fields of its row.
Unused(row) == ~row.employee \/ (row.type = "addesk" /\ ~row.mail)

\* updateDesks: the class and half the size of a desk that is in use.
InUse(row) ==
    CASE row.type = "blocked"  -> "blocked"
      [] row.type \in {"booking", "hotseat"} ->
            IF row.booked THEN "booked" ELSE "bookable"
      [] row.type = "addesk"   -> "occupiedldap"
      [] OTHER                     -> "occupied"

Desktop(row) ==
    IF row.type \in Customs
         THEN [class |-> "custom", half |-> CustomHalfsize(SizeOf[row.type])]
    ELSE IF row.type \in Rooms       THEN [class |-> row.type, half |-> 25]
    ELSE IF row.type \in Fixtures    THEN [class |-> row.type, half |-> 18]
    ELSE IF row.type = "floor"       THEN [class |-> "floor", half |-> 50]
    ELSE IF row.type = "shareddesk"  THEN [class |-> "shareddesk", half |-> 10]
    ELSE IF Unused(row)              THEN [class |-> "free", half |-> 10]
    ELSE [class |-> InUse(row), half |-> 10]

\* Mutant: an ID that several rows have counts for each of them.
ComputeDuplicateDeskIds_ByRow ==
    {r.id : r \in {a \in Rows : /\ a.number \notin Whitelist
                                /\ \E b \in Rows \ {a} : b.number = a.number}}

\* computeDuplicateDeskIds: the rows of one id are one desk.
ComputeDuplicateDeskIds ==
    {r.id : r \in {a \in Rows : /\ a.number \notin Whitelist
                                /\ \E b \in Rows : b.id # a.id /\ b.number = a.number}}

-----------------------------------------------------------------------------
(* The mobile app.                                                         *)

\* Mutant: a directory desk without a mail address counts as in use.
DeskInfo_NoMail(row) ==
    IF row.type \in Customs          THEN [class |-> "custom", half |-> 25]
    ELSE IF row.type \in Rooms       THEN [class |-> row.type, half |-> 25]
    ELSE IF row.type \in Fixtures    THEN [class |-> row.type, half |-> 18]
    ELSE IF row.type = "shareddesk"  THEN [class |-> "shareddesk", half |-> 10]
    ELSE IF ~row.employee            THEN [class |-> "free", half |-> 10]
    ELSE [class |-> InUse(row), half |-> 10]

\* deskInfo, for all rows but the floors, which get no marker.
DeskInfo(row) ==
    IF row.type \in Customs          THEN [class |-> "custom", half |-> 25]
    ELSE IF row.type \in Rooms       THEN [class |-> row.type, half |-> 25]
    ELSE IF row.type \in Fixtures    THEN [class |-> row.type, half |-> 18]
    ELSE IF row.type = "shareddesk"  THEN [class |-> "shareddesk", half |-> 10]
    ELSE IF ~row.employee \/ (row.type = "addesk" /\ ~row.mail)
                                     THEN [class |-> "free", half |-> 10]
    ELSE IF row.type = "blocked"     THEN [class |-> "blocked", half |-> 10]
    ELSE IF row.type \in {"booking", "hotseat"}
         THEN [class |-> IF row.booked THEN "booked" ELSE "bookable", half |-> 10]
    ELSE IF row.type = "addesk"      THEN [class |-> "occupiedldap", half |-> 10]
    ELSE [class |-> "occupied", half |-> 10]

-----------------------------------------------------------------------------
(* Properties.                                                             *)

Markers == {row \in Rows : row.type # "floor"}

\* mobile-app.js:375-376 says that deskInfo gives a marker the class and the
\* size of the map page.  It does for all rows but those of custom items.
SameLook == \A row \in Markers : row.type \notin Customs => DeskInfo(row) = Desktop(row)

\* user.js:147-148 says that the highlighted desks always agree with the
\* health report, which the server makes of other data: the stored items.
HighlightAgrees == ComputeDuplicateDeskIds = ServerDuplicates

\* Both clients draw the first row of a desk only: the others, one for each
\* person at it, must not ask for another look.
OneLookPerDesk ==
    \A a, b \in Markers : a.id = b.id => Desktop(a) = Desktop(b)

\* Map page, mobile app and health report tell the same of every desk
\* (updateDesks, deskInfo, duplicateDeskGroups).
LooksAgree == LookTypeOK /\ SameLook /\ HighlightAgrees /\ OneLookPerDesk

\* mobile-app.js:375-376 says that the marker gets the same size on the map.
SameSize == \A row \in Markers : DeskInfo(row).half = Desktop(row).half

\* desks.go:142-143 says that "A directory occupant (LDAP/EntraID, carries
\* first/last name) renders as the native addesk/shareddesk".
OccupiedIsShown ==
    \A row \in Markers : row.person > 0 /\ (row.type = "addesk" => row.mail)
                            => Desktop(row).class # "free"
=============================================================================
