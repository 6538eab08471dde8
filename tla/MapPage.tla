------------------------------ MODULE MapPage ------------------------------
(***************************************************************************)
(* The map page of one map (src/internal/web/static/user.js), as a signed- *)
(* in user has it open: the drawing of its desks for the chosen date, the  *)
(* booking calendar of a desk, the indicators of meeting rooms, and the    *)
(* polls that refresh all three while the tab is visible.                  *)
(*                                                                         *)
(* The map has one bookable desk, which an editor may remove and add, and  *)
(* one meeting room.  Its indicator is the one of the setting without      *)
(* animation, a style of the drawn item; pulses lie in a layer of their    *)
(* own, which drawing leaves alone.  An answer holds what the server has   *)
(* when it is sent.  No request carries a token: whatever arrives is       *)
(* taken.                                                                  *)
(***************************************************************************)
EXTENDS Naturals, FiniteSets

CONSTANTS
    Dates,     \* days of the date picker that can be booked
    Today,
    Users,     \* who books the desk
    Me,        \* the user of this page
    Statuses,  \* of the meeting room
    MaxAsks,   \* bound: equal requests under way
    MaxChanges  \* bound: changes of bookings, desk and status

ASSUME MapPageAssumption ==
    /\ Today \in Dates /\ Me \in Users
    /\ MaxAsks \in Nat \ {0} /\ MaxChanges \in Nat
    /\ "blank" \notin Statuses /\ "unknown" \notin Statuses

Blank == "blank"       \* an indicator drawn without a colour
Unknown == "unknown"   \* no status has been received yet

VARIABLES
    booked,    \* server: who has booked the desk, per date
    seat,      \* server: the desk is on the map
    room,      \* server: the status of the meeting room
    changes,   \* changes of the three so far
    userdate,  \* the chosen date
    board,     \* result_old: what is drawn
    paint,     \* the drawn indicator of the room
    meetingstatus,
    listed,    \* bookingstatus has been received
    bookingstatus,
    sticky,    \* the desk's plate, with its calendar, is on the map
    calendar,  \* the bookings drawn in that calendar, Nobody without one
    activecalendar,
    hidden,    \* the tab is hidden
    timers,    \* the polls whose interval is running
    deskAsks,  \* updateDesks: requests under way, per date
    listAsks,  \* updateBookings: requests under way
    roomAsks,  \* getMeetingStatus: requests under way, per force
    lost       \* history: a forced status request failed since the last drawing

server == <<booked, seat, room, changes>>
view == <<board, paint, sticky>>
asks == <<deskAsks, listAsks, roomAsks>>
pageVars == <<server, userdate, view, meetingstatus, listed, bookingstatus,
          calendar, activecalendar, hidden, timers, asks, lost>>

Polls == {"desks", "bookings", "rooms"}
Bookings == [Dates -> SUBSET Users]
Board == [drawn : BOOLEAN, seat : BOOLEAN, holders : SUBSET Users]

PageTypeOK ==
    /\ booked \in Bookings /\ seat \in BOOLEAN /\ room \in Statuses
    /\ changes \in 0..MaxChanges
    /\ userdate \in Dates
    /\ board \in Board
    /\ paint \in Statuses \cup {Blank}
    /\ meetingstatus \in Statuses \cup {Unknown}
    /\ {listed, sticky, activecalendar, hidden} \subseteq BOOLEAN
    /\ bookingstatus \in Bookings /\ calendar \in Bookings
    /\ timers \subseteq Polls
    /\ deskAsks \in [Dates -> 0..MaxAsks]
    /\ listAsks \in 0..MaxAsks
    /\ roomAsks \in [BOOLEAN -> 0..MaxAsks]
    /\ lost \in BOOLEAN

Nobody == [d \in Dates |-> {}]

\* The inline script of the page: the first requests, and the polls.
PageInit ==
    /\ booked = Nobody /\ seat = TRUE /\ room \in Statuses /\ changes = 0
    /\ userdate = Today
    /\ board = [drawn |-> FALSE, seat |-> FALSE, holders |-> {}]
    /\ paint = Blank
    /\ meetingstatus = Unknown
    /\ listed = FALSE /\ bookingstatus = Nobody
    /\ sticky = FALSE /\ calendar = Nobody /\ activecalendar = FALSE
    /\ hidden = FALSE /\ timers = Polls
    /\ deskAsks = [d \in Dates |-> IF d = Today THEN 1 ELSE 0]
    /\ listAsks = 1
    /\ roomAsks = [f \in BOOLEAN |-> 0]
    /\ lost = FALSE

-----------------------------------------------------------------------------
(* Other people.                                                           *)

Change == changes < MaxChanges /\ changes' = changes + 1

OthersAct ==
    /\ Change
    /\ \/ \E d \in Dates, u \in Users \ {Me} :
             /\ booked' = [booked EXCEPT ![d] = IF @ = {} THEN {u} ELSE @ \ {u}]
             /\ UNCHANGED <<seat, room>>
       \/ seat' = ~seat /\ UNCHANGED <<booked, room>>
       \/ room' \in Statuses \ {room} /\ UNCHANGED <<booked, seat>>
    /\ UNCHANGED <<userdate, view, meetingstatus, listed, bookingstatus,
                   calendar, activecalendar, hidden, timers, asks, lost>>

-----------------------------------------------------------------------------
(* Desks.                                                                  *)

\* One more request; of more than MaxAsks equal ones the surplus is dropped.
More(n) == IF n < MaxAsks THEN n + 1 ELSE n

\* getMeetingStatus: a request for the rooms.
GetMeetingStatus(force) == roomAsks' = [roomAsks EXCEPT ![force] = More(@)]

\* What rest/desks answers for a date.
DeskData(d) ==
    [drawn |-> TRUE, seat |-> seat, holders |-> IF seat THEN booked[d] ELSE {}]

\* updateDesks: a request for date d.
UpdateDesks(d) ==
    deskAsks' = [deskAsks EXCEPT ![d] = More(@)]

\* setUserdate: a day of the date picker; UpdateClock turns today's date
\* into the empty one, which stands for today.
SetUserdate(d) ==
    /\ userdate' = d
    /\ UpdateDesks(d)
    /\ UNCHANGED <<server, view, meetingstatus, listed, bookingstatus,
                   calendar, activecalendar, hidden, timers, listAsks, roomAsks,
                   lost>>

\* Mutant: every answer redraws the board.
DesksAnswer_AlwaysDraws(d) ==
    /\ deskAsks[d] > 0
    /\ deskAsks' = [deskAsks EXCEPT ![d] = @ - 1]
    /\ board' = DeskData(d)
    /\ sticky' = FALSE /\ calendar' = Nobody
    /\ paint' = Blank /\ lost' = FALSE
    /\ GetMeetingStatus(TRUE)
    /\ UNCHANGED <<server, userdate, meetingstatus, listed, bookingstatus,
                   activecalendar, hidden, timers, listAsks>>

\* The answer of a desk request: unless it is forced or brings something
\* else than what is drawn, nothing happens.  Drawing replaces all items and
\* with them the plate and the indicators, and asks for the rooms.
DesksAnswer(d) ==
    /\ deskAsks[d] > 0
    /\ deskAsks' = [deskAsks EXCEPT ![d] = @ - 1]
    /\ IF DeskData(d) = board
       THEN UNCHANGED <<view, calendar, roomAsks, lost>>
       ELSE /\ board' = DeskData(d)
            /\ sticky' = FALSE /\ calendar' = Nobody
            /\ paint' = Blank /\ lost' = FALSE
            /\ GetMeetingStatus(TRUE)
    /\ UNCHANGED <<server, userdate, meetingstatus, listed, bookingstatus,
                   activecalendar, hidden, timers, listAsks>>

\* A failed desk request is only logged.
DesksFail(d) ==
    /\ deskAsks[d] > 0
    /\ deskAsks' = [deskAsks EXCEPT ![d] = @ - 1]
    /\ UNCHANGED <<server, userdate, view, meetingstatus, listed,
                   bookingstatus, calendar, activecalendar, hidden, timers,
                   listAsks, roomAsks, lost>>

-----------------------------------------------------------------------------
(* Meeting rooms.                                                          *)

\* Mutant: the indicator is only painted when the status is new.
RoomsAnswer_OnlyNew(force) ==
    /\ roomAsks[force] > 0
    /\ roomAsks' = [roomAsks EXCEPT ![force] = @ - 1]
    /\ IF board.drawn /\ room # meetingstatus
       THEN meetingstatus' = room /\ paint' = room
       ELSE UNCHANGED <<meetingstatus, paint>>
    /\ UNCHANGED <<server, userdate, board, sticky, listed,
                   bookingstatus, calendar, activecalendar, hidden, timers,
                   deskAsks, listAsks, lost>>

\* getMeetingStatus: an answer without news repaints nothing unless the
\* request was forced; before the first board there is nothing to paint.
RoomsAnswer(force) ==
    /\ roomAsks[force] > 0
    /\ roomAsks' = [roomAsks EXCEPT ![force] = @ - 1]
    /\ IF board.drawn /\ (force \/ room # meetingstatus)
       THEN meetingstatus' = room /\ paint' = room
       ELSE UNCHANGED <<meetingstatus, paint>>
    /\ UNCHANGED <<server, userdate, board, sticky, listed,
                   bookingstatus, calendar, activecalendar, hidden, timers,
                   deskAsks, listAsks, lost>>

\* Mutant: a failed request paints what is known.
RoomsFail_Repaints(force) ==
    /\ roomAsks[force] > 0
    /\ roomAsks' = [roomAsks EXCEPT ![force] = @ - 1]
    /\ paint' = meetingstatus
    /\ UNCHANGED <<server, userdate, board, sticky, meetingstatus, listed,
                   bookingstatus, calendar, activecalendar, hidden, timers,
                   deskAsks, listAsks, lost>>

\* A failed request has no handler.
RoomsFail(force) ==
    /\ roomAsks[force] > 0
    /\ roomAsks' = [roomAsks EXCEPT ![force] = @ - 1]
    /\ lost' = (lost \/ force)
    /\ UNCHANGED <<server, userdate, view, meetingstatus, listed,
                   bookingstatus, calendar, activecalendar, hidden, timers,
                   deskAsks, listAsks>>

-----------------------------------------------------------------------------
(* Bookings.                                                               *)

\* updateCalendar: a day is offered unless exactly one booking is known.
Day(bookings, d) ==
    IF Cardinality(bookings[d]) # 1 THEN "free"
    ELSE IF bookings[d] = {Me} THEN "userbooked" ELSE "booked"

\* showSticky of the bookable desk: its plate with the calendar.
ShowSticky ==
    /\ board.seat /\ listed
    /\ sticky' = TRUE /\ activecalendar' = TRUE
    /\ calendar' = bookingstatus
    /\ UNCHANGED <<server, userdate, board, paint, meetingstatus,
                   listed, bookingstatus, hidden, timers, asks, lost>>

\* showSticky of the room takes the plate's place and leaves activecalendar.
ShowRoomSticky ==
    /\ board.drawn /\ sticky
    /\ sticky' = FALSE /\ calendar' = Nobody
    /\ UNCHANGED <<server, userdate, board, paint, meetingstatus,
                   listed, bookingstatus, activecalendar, hidden,
                   timers, asks, lost>>

\* hideSticky
HideSticky ==
    /\ sticky \/ activecalendar
    /\ sticky' = FALSE /\ activecalendar' = FALSE /\ calendar' = Nobody
    /\ UNCHANGED <<server, userdate, board, paint, meetingstatus,
                   listed, bookingstatus, hidden, timers, asks, lost>>

\* updateBookings: a request for the bookings of the map.
UpdateBookings ==
    listAsks' = More(listAsks)

\* Mutant: the open calendar is left as it is.
BookingsAnswer_KeepsCalendar ==
    /\ listAsks > 0
    /\ listAsks' = listAsks - 1
    /\ listed' = TRUE /\ bookingstatus' = booked
    /\ UNCHANGED calendar
    /\ UpdateDesks(userdate)
    /\ UNCHANGED <<server, userdate, view, meetingstatus, activecalendar,
                   hidden, timers, roomAsks, lost>>

\* The bookings arrive: the calendar that was opened last is drawn anew and
\* the desks are asked for.  A calendar whose desk is not on the board any
\* more ends the handler with an error once there is any booking.
BookingsAnswer ==
    /\ listAsks > 0
    /\ listAsks' = listAsks - 1
    /\ listed' = TRUE /\ bookingstatus' = booked
    /\ calendar' = IF activecalendar /\ sticky THEN booked ELSE calendar
    /\ IF activecalendar /\ ~board.seat /\ booked # Nobody
       THEN UNCHANGED deskAsks
       ELSE UpdateDesks(userdate)
    /\ UNCHANGED <<server, userdate, view, meetingstatus, activecalendar,
                   hidden, timers, roomAsks, lost>>

\* A failed list is only logged.
BookingsFail ==
    /\ listAsks > 0
    /\ listAsks' = listAsks - 1
    /\ UNCHANGED <<server, userdate, view, meetingstatus, listed,
                   bookingstatus, calendar, activecalendar, hidden, timers,
                   deskAsks, roomAsks, lost>>

\* bookDesk: the selected day of the open calendar is sent; the server books
\* it if it is free, and its answer, good or bad, asks for the bookings.  A
\* failed request, booked or not, asks for nothing.
BookDesk(d, stored, answered) ==
    /\ sticky /\ Day(calendar, d) = "free"
    /\ booked' = [booked EXCEPT ![d] = IF @ = {} /\ stored THEN {Me} ELSE @]
    /\ Change
    /\ IF answered THEN stored /\ UpdateBookings ELSE UNCHANGED listAsks
    /\ UNCHANGED <<seat, room, userdate, view, meetingstatus,
                   listed, bookingstatus, calendar, activecalendar, hidden,
                   timers, deskAsks, roomAsks, lost>>

\* cancelBooking, from the personal menu, and its answer.
CancelBooking(d) ==
    /\ Me \in booked[d]
    /\ booked' = [booked EXCEPT ![d] = @ \ {Me}]
    /\ Change
    /\ UpdateBookings
    /\ UNCHANGED <<seat, room, userdate, view, meetingstatus,
                   listed, bookingstatus, calendar, activecalendar, hidden,
                   timers, deskAsks, roomAsks, lost>>

-----------------------------------------------------------------------------
(* Polls.                                                                  *)

\* One run of a poll: a request like any other.
Run(p) ==
    CASE p = "desks" -> UpdateDesks(userdate) /\ UNCHANGED <<listAsks, roomAsks>>
      [] p = "bookings" -> UpdateBookings /\ UNCHANGED <<deskAsks, roomAsks>>
      [] p = "rooms" -> GetMeetingStatus(FALSE) /\ UNCHANGED <<deskAsks, listAsks>>

\* The interval of a poll elapses.
Poll(p) ==
    /\ p \in timers
    /\ Run(p)
    /\ UNCHANGED <<server, userdate, view, meetingstatus, listed,
                   bookingstatus, calendar, activecalendar, hidden, timers,
                   lost>>

\* visPollPause
VisPollPause ==
    /\ ~hidden
    /\ hidden' = TRUE /\ timers' = {}
    /\ UNCHANGED <<server, userdate, view, meetingstatus, listed,
                   bookingstatus, calendar, activecalendar, asks, lost>>

\* Mutant: a short absence restarts nothing.
VisPollResume_OnlyStale(stale) ==
    /\ hidden
    /\ hidden' = FALSE /\ timers' = IF stale THEN Polls ELSE timers
    /\ IF stale
       THEN UpdateDesks(userdate) /\ UpdateBookings /\ GetMeetingStatus(FALSE)
       ELSE UNCHANGED <<deskAsks, listAsks, roomAsks>>
    /\ UNCHANGED <<server, userdate, view, meetingstatus, listed,
                   bookingstatus, calendar, activecalendar, lost>>

\* visPollResume: after a long absence every poll runs at once; all start.
VisPollResume(stale) ==
    /\ hidden
    /\ hidden' = FALSE /\ timers' = Polls
    /\ IF stale
       THEN UpdateDesks(userdate) /\ UpdateBookings /\ GetMeetingStatus(FALSE)
       ELSE UNCHANGED <<deskAsks, listAsks, roomAsks>>
    /\ UNCHANGED <<server, userdate, view, meetingstatus, listed,
                   bookingstatus, calendar, activecalendar, lost>>

-----------------------------------------------------------------------------
UserActs ==
    \/ \E d \in Dates : SetUserdate(d) \/ CancelBooking(d)
    \/ \E d \in Dates, stored, answered \in BOOLEAN : BookDesk(d, stored, answered)
    \/ ShowSticky \/ ShowRoomSticky \/ HideSticky
    \/ VisPollPause \/ \E stale \in BOOLEAN : VisPollResume(stale)

Answers ==
    \/ \E d \in Dates : DesksAnswer(d)
    \/ \E force \in BOOLEAN : RoomsAnswer(force)
    \/ BookingsAnswer

Failures ==
    \/ \E d \in Dates : DesksFail(d)
    \/ \E force \in BOOLEAN : RoomsFail(force)
    \/ BookingsFail

PageNext == OthersAct \/ UserActs \/ Answers \/ Failures \/ \E p \in Polls : Poll(p)

\* Intervals elapse, and of the requests that are sent again and again some
\* are answered.
PageFairness ==
    /\ \A p \in Polls : WF_pageVars(Poll(p))
    /\ \A d \in Dates : SF_pageVars(DesksAnswer(d))
    /\ \A force \in BOOLEAN : SF_pageVars(RoomsAnswer(force))
    /\ SF_pageVars(BookingsAnswer)

PageSpec == PageInit /\ [][PageNext]_pageVars
PageFairSpec == PageSpec /\ PageFairness

-----------------------------------------------------------------------------
(* Properties.                                                             *)

\* An indicator stays blank after its board was drawn only while the forced
\* status request that the drawing sent is under way, or because it failed:
\* later answers without news would not paint it.
BlankIsAwaited ==
    board.drawn /\ paint = Blank => roomAsks[TRUE] > 0 \/ lost

\* The calendar on the screen is drawn from the bookings received last, and
\* it belongs to a desk that is on the board.
CalendarIsCurrent ==
    sticky => calendar = bookingstatus /\ activecalendar /\ board.seat

\* What the page shows is awaited or of the latest answer (showMeetingStatus,
\* updateBookings).
PageInStep == PageTypeOK /\ BlankIsAwaited /\ CalendarIsCurrent

\* The plate somebody reads is not taken away by a refresh that brings
\* nothing new.
PlateStays ==
    [][sticky /\ ~sticky' /\ activecalendar' /\ board' = board => UNCHANGED asks]_pageVars

\* While somebody looks at a date, the board ends up with that date's desks,
\* though answers for other dates may arrive after theirs and requests fail.
BoardCatchesUp ==
    \A d \in Dates : <>[](userdate = d /\ ~hidden) => <>[](board = DeskData(d))

\* A calendar that stays open ends up with the bookings of the server.
CalendarCatchesUp == <>[](sticky /\ ~hidden) => <>[](calendar = booked)

\* Somebody who stays is shown what the server has, in the end: by the timers
\* (visPoll) alone, whatever was lost or late before.
PageCatchesUp == BoardCatchesUp /\ CalendarCatchesUp
=============================================================================
