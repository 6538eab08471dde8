----------------------------- MODULE MobileMap -----------------------------
(***************************************************************************)
(* The map view of the mobile app (src/internal/web/static/m/              *)
(* mobile-app.js): loading a map, its desks and its meeting rooms, polling *)
(* the rooms, and focusing a result picked in the global search.           *)
(*                                                                         *)
(* A request is a count of requests of its kind that are still to be       *)
(* answered: the browser answers them in any order, or they fail.  Desks,  *)
(* markers and room lists are represented by the map they belong to; desk  *)
(* ids are unique on one map only, so one id stands for the desk of that   *)
(* id on every map.  What the server knows of the rooms is a version       *)
(* number; a request answered late may bring any version since it was      *)
(* sent.                                                                   *)
(***************************************************************************)
EXTENDS Naturals, FiniteSets

CONSTANTS
    Maps,       \* maps with desks on the server
    Listed,     \* the maps the app has in its list (mapState.maps)
    NoMap,      \* none of them
    MaxAsks,    \* bound: requests of one kind that wait for their answer
    MaxTimers,  \* bound: live intervals of one map, and timeouts of one kind
    MaxPicks,   \* bound: search results picked
    MaxStatus   \* bound: versions of the room status on the server

ASSUME MapsAssumption ==
    /\ NoMap \notin Maps
    /\ Listed \subseteq Maps
    /\ Listed # {}
    /\ MaxAsks \in Nat \ {0}
    /\ MaxTimers \in Nat \ {0}
    /\ MaxPicks \in Nat
    /\ MaxStatus \in Nat

VARIABLES
    view,       \* "map", or "other" (search, admin, settings, login)
    loaded,     \* mapState.maps has been filled
    current,    \* mapState.current
    cookie,     \* the map cookie
    desks,      \* the map mapState.desks came from (NoMap: empty list)
    drawn,      \* the map whose markers are in #m_desklayer (NoMap: none)
    rooms,      \* mapState.meetingRooms: the map and version, or NoRooms
    status,     \* version of the room status on the server
    timers,     \* live setInterval polls, per map
    poll,       \* mapState.meetingTimer: the map of the interval it refers to
    hidden,     \* document.hidden
    configAsks, \* requests for the list of maps
    deskAsks,   \* requests for desks, per map
    meetAsks,   \* requests for rooms, per map and version when sent
    pending,    \* pendingLocate: the map of the picked desk
    locating,   \* 400 ms timeouts of maybeLocate
    showing,    \* 350 ms timeouts of showDeskDetail, per map of the pick
    sheet,      \* the open desk sheet, or NoSheet
    picks,      \* search results picked so far
    located     \* picks focused so far

connection == <<configAsks, deskAsks, meetAsks>>
locateVars == <<pending, locating, showing, sheet, picks, located>>
mobileVars == <<view, loaded, current, cookie, desks, drawn, rooms, status, timers,
          poll, hidden, connection, locateVars>>

NoRooms == [map |-> NoMap, version |-> 0]
NoSheet == [map |-> NoMap, picked |-> NoMap]
StatusVersions == 0..MaxStatus

MobileTypeOK ==
    /\ view \in {"map", "other"}
    /\ loaded \in BOOLEAN
    /\ current \in Listed \cup {NoMap}
    /\ cookie \in Listed \cup {NoMap}
    /\ desks \in Maps \cup {NoMap}
    /\ drawn \in Maps \cup {NoMap}
    /\ rooms \in [map : Maps \cup {NoMap}, version : StatusVersions]
    /\ status \in StatusVersions
    /\ timers \in [Listed -> 0..MaxTimers]
    /\ poll \in Listed \cup {NoMap}
    /\ hidden \in BOOLEAN
    /\ configAsks \in 0..MaxAsks
    /\ deskAsks \in [Listed -> 0..MaxAsks]
    /\ meetAsks \in [Listed \X StatusVersions -> 0..MaxAsks]
    /\ pending \in Maps \cup {NoMap}
    /\ locating \in 0..MaxTimers
    /\ showing \in [Maps -> 0..MaxTimers]
    /\ sheet \in [map : Maps \cup {NoMap}, picked : Maps \cup {NoMap}]
    /\ picks \in 0..MaxPicks
    /\ located \in Nat

\* The page opens on the map view and has asked for the list of maps; the
\* cookie may remember a map from an earlier visit.
MobileInit ==
    /\ view = "map" /\ loaded = FALSE
    /\ current = NoMap
    /\ cookie \in Listed \cup {NoMap}
    /\ desks = NoMap /\ drawn = NoMap
    /\ rooms = NoRooms /\ status = 0
    /\ timers = [m \in Listed |-> 0] /\ poll = NoMap
    /\ hidden = FALSE
    /\ configAsks = 1
    /\ deskAsks = [m \in Listed |-> 0]
    /\ meetAsks = [a \in Listed \X StatusVersions |-> 0]
    /\ pending = NoMap /\ locating = 0
    /\ showing = [m \in Maps |-> 0]
    /\ sheet = NoSheet
    /\ picks = 0 /\ located = 0

-----------------------------------------------------------------------------
(* Loading a map.                                                          *)

\* Mutant: the handle of the cleared poll is kept.
LoadMap_KeepsHandle(m) ==
    /\ deskAsks[m] < MaxAsks
    /\ current' = m
    /\ cookie' = m
    /\ timers' = IF poll = NoMap THEN timers ELSE [timers EXCEPT ![poll] = @ - 1]
    /\ poll' = poll
    /\ drawn' = NoMap
    /\ deskAsks' = [deskAsks EXCEPT ![m] = @ + 1]

\* loadMap as far as the markup it writes to exists: the old poll is
\* cleared, the marker layer emptied, the desks asked for.
LoadMap(m) ==
    /\ deskAsks[m] < MaxAsks
    /\ current' = m
    /\ cookie' = m
    /\ timers' = IF poll = NoMap THEN timers ELSE [timers EXCEPT ![poll] = @ - 1]
    /\ poll' = NoMap
    /\ drawn' = NoMap
    /\ deskAsks' = [deskAsks EXCEPT ![m] = @ + 1]

\* loadMap called while another view is shown throws at the missing image:
\* the map is current and remembered, its desks are not asked for.
LoadMapElsewhere(m) ==
    /\ current' = m
    /\ cookie' = m
    /\ timers' = IF poll = NoMap THEN timers ELSE [timers EXCEPT ![poll] = @ - 1]
    /\ poll' = NoMap
    /\ UNCHANGED <<drawn, deskAsks>>

\* The map a (re)loaded map view goes to: a picked result's map comes first.
Target(m) == IF pending \in Listed THEN pending ELSE m

\* renderMap: fresh markup; a known list of maps is used, else asked for.
RenderMap ==
    IF loaded
    THEN /\ LoadMap(Target(current))
         /\ UNCHANGED configAsks
    ELSE /\ configAsks < MaxAsks
         /\ configAsks' = configAsks + 1
         /\ drawn' = NoMap
         /\ UNCHANGED <<current, cookie, timers, poll, deskAsks>>

\* A tab of the tab bar or the back button: route() closes the sheet.
Navigate(v) ==
    /\ v # view
    /\ view' = v
    /\ sheet' = NoSheet
    /\ IF v = "map"
       THEN RenderMap
       ELSE /\ drawn' = NoMap
            /\ UNCHANGED <<current, cookie, timers, poll, deskAsks, configAsks>>
    /\ UNCHANGED <<loaded, desks, rooms, status, hidden, meetAsks, pending,
                   locating, showing, picks, located>>

\* The list of maps arrives: the remembered map, else the server's default
\* or the first, unless a picked result goes before.
ConfigAnswer ==
    /\ configAsks > 0
    /\ configAsks' = configAsks - 1
    /\ loaded' = TRUE
    /\ \E m \in IF cookie \in Listed THEN {cookie} ELSE Listed :
          IF view = "map" THEN LoadMap(Target(m)) ELSE LoadMapElsewhere(Target(m))
    /\ UNCHANGED <<view, desks, rooms, status, hidden, meetAsks, locateVars>>

\* An error box takes the place of the stage: no map is loaded, none is shown.
ConfigFails ==
    /\ configAsks > 0
    /\ configAsks' = configAsks - 1
    /\ UNCHANGED <<view, loaded, current, cookie, desks, drawn, rooms, status,
                   timers, poll, hidden, deskAsks, meetAsks, locateVars>>

\* A row of the map selector.  Choosing by hand forgets a picked result.
ChooseMap(m) ==
    /\ view = "map" /\ loaded
    /\ m # current
    /\ LoadMap(m)
    /\ pending' = NoMap
    /\ UNCHANGED <<view, loaded, desks, rooms, status, hidden, configAsks,
                   meetAsks, locating, showing, sheet, picks, located>>

\* updateMeetingStatus(m) sends its request.
AskMeeting(m) ==
    /\ meetAsks[<<m, status>>] < MaxAsks
    /\ meetAsks' = [meetAsks EXCEPT ![<<m, status>>] = @ + 1]

\* renderDesks replaces the markers on the layer by those of the list: no
\* floors, and every id once.
RenderDesks(m) == drawn' = m

\* The desks of map m arrive, whatever map is current by then.  On another
\* view renderDesks throws: neither status request nor poll follow.
DesksAnswer(m) ==
    /\ deskAsks[m] > 0
    /\ deskAsks' = [deskAsks EXCEPT ![m] = @ - 1]
    /\ desks' = m
    /\ IF view = "map"
       THEN /\ RenderDesks(m)
            /\ AskMeeting(m)
            /\ timers[m] < MaxTimers
            /\ timers' = [timers EXCEPT ![m] = @ + 1]
            /\ poll' = m
            /\ IF pending = m
               THEN locating < MaxTimers /\ locating' = locating + 1
               ELSE UNCHANGED locating
       ELSE UNCHANGED <<drawn, meetAsks, timers, poll, locating>>
    /\ UNCHANGED <<view, loaded, current, cookie, rooms, status, hidden,
                   configAsks, pending, showing, sheet, picks, located>>

\* Mutant: a failed request empties the list but not the layer.
DesksFail_NoRender(m) ==
    /\ deskAsks[m] > 0
    /\ deskAsks' = [deskAsks EXCEPT ![m] = @ - 1]
    /\ desks' = NoMap
    /\ UNCHANGED <<view, loaded, current, cookie, drawn, rooms, status, timers,
                   poll, hidden, configAsks, meetAsks, locateVars>>

\* A failed request for desks empties the list and the layer.
DesksFail(m) ==
    /\ deskAsks[m] > 0
    /\ deskAsks' = [deskAsks EXCEPT ![m] = @ - 1]
    /\ desks' = NoMap
    /\ RenderDesks(NoMap)
    /\ UNCHANGED <<view, loaded, current, cookie, rooms, status, timers, poll,
                   hidden, configAsks, meetAsks, locateVars>>

-----------------------------------------------------------------------------
(* Meeting room availability.                                              *)

\* Mutant: the test of document.hidden is inverted.
Tick_WhileHidden(m) ==
    /\ timers[m] > 0
    /\ hidden
    /\ current = m
    /\ AskMeeting(m)
    /\ UNCHANGED <<view, loaded, current, cookie, desks, drawn, rooms, status,
                   timers, poll, hidden, configAsks, deskAsks, locateVars>>

\* The 60 s interval of map m: nothing while hidden or once m is left.
Tick(m) ==
    /\ timers[m] > 0
    /\ ~hidden
    /\ current = m
    /\ AskMeeting(m)
    /\ UNCHANGED <<view, loaded, current, cookie, desks, drawn, rooms, status,
                   timers, poll, hidden, configAsks, deskAsks, locateVars>>

\* An answer for the map that is no longer current is not applied.
MeetingAnswer(m, since) ==
    /\ meetAsks[<<m, since>>] > 0
    /\ meetAsks' = [meetAsks EXCEPT ![<<m, since>>] = @ - 1]
    /\ \E v \in since..status :
          rooms' = IF current = m THEN [map |-> m, version |-> v] ELSE rooms
    /\ UNCHANGED <<view, loaded, current, cookie, desks, drawn, status, timers,
                   poll, hidden, configAsks, deskAsks, locateVars>>

MeetingFails(m, since) ==
    /\ meetAsks[<<m, since>>] > 0
    /\ meetAsks' = [meetAsks EXCEPT ![<<m, since>>] = @ - 1]
    /\ UNCHANGED <<view, loaded, current, cookie, desks, drawn, rooms, status,
                   timers, poll, hidden, configAsks, deskAsks, locateVars>>

\* visibilitychange: a tab that becomes visible asks once at once.
SetHidden(h) ==
    /\ hidden # h
    /\ hidden' = h
    /\ IF ~h /\ current # NoMap THEN AskMeeting(current) ELSE UNCHANGED meetAsks
    /\ UNCHANGED <<view, loaded, current, cookie, desks, drawn, rooms, status,
                   timers, poll, configAsks, deskAsks, locateVars>>

\* A meeting starts or ends: the server's side of the status.
StatusChanges ==
    /\ status < MaxStatus
    /\ status' = status + 1
    /\ UNCHANGED <<view, loaded, current, cookie, desks, drawn, rooms, timers,
                   poll, hidden, connection, locateVars>>

-----------------------------------------------------------------------------
(* Desk sheets and the focus of a search result.                           *)

\* showDeskDetail: the desk of that id in the desks at hand, if any.
ShowDetail(picked) ==
    sheet' = IF desks = NoMap THEN sheet ELSE [map |-> desks, picked |-> picked]

TapDesk ==
    /\ view = "map" /\ drawn # NoMap
    /\ ShowDetail(NoMap)
    /\ UNCHANGED <<view, loaded, current, cookie, desks, drawn, rooms, status,
                   timers, poll, hidden, connection, pending, locating,
                   showing, picks, located>>

CloseSheet ==
    /\ sheet # NoSheet
    /\ sheet' = NoSheet
    /\ UNCHANGED <<view, loaded, current, cookie, desks, drawn, rooms, status,
                   timers, poll, hidden, connection, pending, locating,
                   showing, picks, located>>

\* openSearchResult: remember the desk, then navigate to the map view.
OpenSearchResult(m) ==
    /\ view = "other"
    /\ picks < MaxPicks
    /\ picks' = picks + 1
    /\ pending' = m
    /\ view' = "map"
    /\ sheet' = NoSheet
    /\ IF loaded
       THEN /\ LoadMap(IF m \in Listed THEN m ELSE current)
            /\ UNCHANGED configAsks
       ELSE /\ configAsks < MaxAsks
            /\ configAsks' = configAsks + 1
            /\ drawn' = NoMap
            /\ UNCHANGED <<current, cookie, timers, poll, deskAsks>>
    /\ UNCHANGED <<loaded, desks, rooms, status, hidden, meetAsks, locating,
                   showing, located>>

\* Mutant: the picked result is not forgotten when it is focused.
MaybeLocate_KeepsPending ==
    /\ locating > 0
    /\ locating' = locating - 1
    /\ IF pending # NoMap /\ pending = current
       THEN /\ located' = located + 1
            /\ showing[pending] < MaxTimers
            /\ showing' = [showing EXCEPT ![pending] = @ + 1]
       ELSE UNCHANGED <<located, showing>>
    /\ UNCHANGED <<view, loaded, current, cookie, desks, drawn, rooms, status,
                   timers, poll, hidden, connection, pending, sheet, picks>>

\* maybeLocate, 400 ms after the desks: it is done for the map that is
\* current then, once; the sheet follows 350 ms later.
MaybeLocate ==
    /\ locating > 0
    /\ locating' = locating - 1
    /\ IF pending # NoMap /\ pending = current
       THEN /\ pending' = NoMap
            /\ located' = located + 1
            /\ showing[pending] < MaxTimers
            /\ showing' = [showing EXCEPT ![pending] = @ + 1]
       ELSE UNCHANGED <<pending, located, showing>>
    /\ UNCHANGED <<view, loaded, current, cookie, desks, drawn, rooms, status,
                   timers, poll, hidden, connection, sheet, picks>>

\* The timeout of maybeLocate opens the sheet, whatever view is shown.
ShowPicked(m) ==
    /\ showing[m] > 0
    /\ showing' = [showing EXCEPT ![m] = @ - 1]
    /\ ShowDetail(m)
    /\ UNCHANGED <<view, loaded, current, cookie, desks, drawn, rooms, status,
                   timers, poll, hidden, connection, pending, locating, picks,
                   located>>

-----------------------------------------------------------------------------
MapAnswers ==
    \/ ConfigAnswer \/ ConfigFails
    \/ \E m \in Listed : DesksAnswer(m) \/ DesksFail(m)
    \/ \E m \in Listed, v \in StatusVersions : MeetingAnswer(m, v) \/ MeetingFails(m, v)

Clock ==
    \/ \E m \in Listed : Tick(m)
    \/ MaybeLocate
    \/ \E m \in Maps : ShowPicked(m)

User ==
    \/ \E v \in {"map", "other"} : Navigate(v)
    \/ \E m \in Listed : ChooseMap(m)
    \/ \E h \in BOOLEAN : SetHidden(h)
    \/ TapDesk \/ CloseSheet
    \/ \E m \in Maps : OpenSearchResult(m)

MobileNext == MapAnswers \/ Clock \/ User \/ StatusChanges

MobileSpec == MobileInit /\ [][MobileNext]_mobileVars

\* Intervals fire as long as they live; a request is answered or fails, and
\* a server asked over and over answers some of the requests.
MobileFairness ==
    /\ \A m \in Listed : WF_mobileVars(Tick(m))
    /\ \A m \in Listed, v \in StatusVersions :
          /\ WF_mobileVars(MeetingAnswer(m, v) \/ MeetingFails(m, v))
          /\ SF_mobileVars(MeetingAnswer(m, v))

MobileFairSpec == MobileSpec /\ MobileFairness

-----------------------------------------------------------------------------
(* Properties.                                                             *)

\* A marker is looked up in mapState.desks when it is tapped: the markers on
\* the layer always belong to the list that is searched.
LayerMatchesList == drawn # NoMap => drawn = desks

\* A picked result is focused at most once, however many loads of its map
\* are answered and however many timeouts they start.
LocatedAtMostOnce == located + (IF pending = NoMap THEN 0 ELSE 1) <= picks

\* Markers, list and picked results keep step through late answers, failures
\* and timeouts (loadMap, renderDesks, maybeLocate).
MapInStep == MobileTypeOK /\ LayerMatchesList /\ LocatedAtMostOnce

\* A map whose desks are drawn and which stays on a visible screen ends up
\* with the rooms' latest status, and keeps it: its poll goes on, whatever was
\* left, hidden and loaded before, and whatever answers of an earlier map or
\* an earlier time are still under way.
Watching(m) == view = "map" /\ ~hidden /\ current = m /\ drawn = m
AvailabilityCatchesUp ==
    \A m \in Listed :
        <>[](Watching(m) /\ status = MaxStatus)
            => <>[](rooms = [map |-> m, version |-> MaxStatus])

\* mobile-app.js:22 calls meetingRooms the "live room status for the current
\* map"; a desk sheet reads its Now and Next from it.
RoomsOfCurrentMap == rooms # NoRooms => rooms.map = current

\* mobile-app.js:556 says of a result chosen from global search that its
\* marker is highlighted and "its detail sheet" opened.
SheetShowsPicked == sheet.picked # NoMap => sheet.map = sheet.picked
=============================================================================
