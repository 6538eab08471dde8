--------------------------- MODULE MapPageProofs ---------------------------
(***************************************************************************)
(* What the map page guarantees: its search sidebar (SearchSidebar) for    *)
(* any desks, texts and matches, and its desks, rooms and bookings         *)
(* (MapPage) for any dates, people and statuses.                           *)
(***************************************************************************)
EXTENDS SearchSidebar, MapPage, TLAPS

-----------------------------------------------------------------------------
(* The search sidebar                                                      *)

(* The inductive invariant.  What MarksFollowRows says can only be restored *)
(* when the mouse leaves a row if the selected desk is a row, too, and if   *)
(* nothing is coloured but rows and what resetColors forgets.               *)

RowsAreListed == {selected, hovered, previewed} \subseteq localRows \cup {NoDesk}

OrangeKnown == orange \subseteq Unlisted \cup localRows

SearchIInv ==
    /\ SearchTypeOK /\ RowsAreListed /\ OrangeKnown
    /\ MarksFollowRows /\ OthersDimmed

-----------------------------------------------------------------------------
(* Lemmas                                                                  *)

\* A closed sidebar leaves no marks on the map but the forgotten colours.
LEMMA ClosingKeepsInvariant ==
    ASSUME SearchIInv, drawn' \subseteq Desks, NEW was \in SUBSET drawn',
           ResetColors, previewed' = NoDesk, CloseSearchSidebar(StillOrange(was))
    PROVE  SearchIInv'
<1> USE SearchAssumption
<1>1. /\ searchbox' = NoText /\ fog' = NoDesk /\ previewed' = NoDesk
      /\ sidebar' \in {"closed", "closing"}
      /\ orange' = was \cap Unlisted /\ dimmed' = {} /\ wiped' = "yes"
      /\ UNCHANGED <<localRows, globalRows, selected, hovered, globalAsks>>
  BY DEF ResetColors, CloseSearchSidebar, StillOrange
<1>2. SearchTypeOK'
  BY <1>1 DEF SearchIInv, SearchTypeOK
<1>3. RowsAreListed' /\ OrangeKnown' /\ MarksFollowRows' /\ OthersDimmed'
  BY <1>1 DEF SearchIInv, RowsAreListed, OrangeKnown, MarksFollowRows, Clean, OthersDimmed
<1> QED BY <1>2, <1>3 DEF SearchIInv

\* A search finds marks that are those of no row, or closes the sidebar;
\* whatever was on the map before.
LEMMA SearchKeepsInvariant ==
    ASSUME SearchIInv, drawn' \subseteq Desks, NEW was \in SUBSET drawn',
           SearchDesks(was)
    PROVE  SearchIInv'
<1> USE SearchAssumption
<1>1. CASE searchbox = NoText
  <2>1. ResetColors /\ previewed' = NoDesk /\ CloseSearchSidebar(StillOrange(was))
    BY <1>1 DEF SearchDesks
  <2> QED BY <2>1, ClosingKeepsInvariant
<1>2. CASE searchbox # NoText
  <2> DEFINE found == Hits(searchbox) \cap drawn'
  <2>1. /\ searchbox' = NoText /\ fog' = NoDesk /\ previewed' = NoDesk
        /\ sidebar' = "open" /\ wiped' = "no" /\ globalRows' = NoText
        /\ selected' = NoDesk /\ hovered' = NoDesk
        /\ localRows' = found /\ orange' = (was \cap Unlisted) \cup found
        /\ dimmed' = IF found = {} THEN {} ELSE drawn' \ found
        /\ globalAsks' = globalAsks \cup {searchbox}
    BY <1>2 DEF SearchDesks, ResetColors, SearchLocaldesks, SearchGlobaldesks, StillOrange,
                Matching, ApplySearchDimming
  <2>2. searchbox \in Texts
    BY <1>2 DEF SearchIInv, SearchTypeOK
  <2> HIDE DEF found
  <2>3. found \subseteq drawn'
    BY DEF found
  <2>4. SearchTypeOK'
    BY <2>1, <2>2, <2>3 DEF SearchIInv, SearchTypeOK
  <2>5. RowsAreListed' /\ OrangeKnown' /\ OthersDimmed'
    BY <2>1, <2>3 DEF RowsAreListed, OrangeKnown, OthersDimmed
  <2>6. MarksFollowRows'
    <3>1. Coloured' = localRows' /\ localRows' \cap drawn' = localRows'
      BY <2>1, <2>3 DEF Coloured
    <3> QED BY <2>1, <3>1 DEF MarksFollowRows, MarksOf
  <2> QED BY <2>4, <2>5, <2>6 DEF SearchIInv
<1> QED BY <1>1, <1>2

\* Beside a search only the marks and the choice of a row change.
OnlyMarks == UNCHANGED <<drawn, searchbox, results>>

\* Of the matches one row's stays.
LEMMA IsolateProperties ==
    ASSUME SearchIInv, NEW d \in localRows, IsolateDeskOnMap(d), ShowSearchFog(d), OnlyMarks
    PROVE  MarksOf(d)' /\ OrangeKnown' /\ orange' \subseteq drawn /\ fog' \in Desks \cup {NoDesk}
<1> USE SearchAssumption
<1>1. d # NoDesk /\ orange \subseteq drawn /\ drawn \subseteq Desks
  BY DEF SearchIInv, SearchTypeOK
<1>2. orange \ localRows \subseteq Unlisted
  BY DEF SearchIInv, OrangeKnown
<1>3. /\ orange' = (orange \ localRows) \cup ({d} \cap drawn)
      /\ fog' = IF d \in drawn THEN d ELSE NoDesk
      /\ UNCHANGED <<drawn, localRows>>
  BY DEF IsolateDeskOnMap, ShowSearchFog, OnlyMarks, results
<1>4. Coloured' = {d} \cap drawn
  BY <1>2, <1>3 DEF Coloured
<1> QED BY <1>1, <1>2, <1>3, <1>4 DEF MarksOf, OrangeKnown

\* All matches: their colour, the dimming of the others, and no fog.
LEMMA ShowAllProperties ==
    ASSUME SearchIInv, ShowAllSearchResultsOnMap, fog' = NoDesk, OnlyMarks
    PROVE  /\ MarksOf(NoDesk)' /\ OrangeKnown' /\ OthersDimmed'
           /\ orange' \subseteq drawn /\ dimmed' \subseteq drawn
<1>1. /\ orange' = orange \cup (localRows \cap drawn)
      /\ dimmed' = IF localRows = {} THEN {} ELSE drawn \ localRows
      /\ UNCHANGED <<drawn, localRows>>
  BY DEF ShowAllSearchResultsOnMap, OnlyMarks, results
<1>2. orange \subseteq drawn /\ orange \subseteq Unlisted \cup localRows
  BY DEF SearchIInv, SearchTypeOK, OrangeKnown
<1>3. Coloured' = localRows' \cap drawn'
  BY <1>1, <1>2 DEF Coloured
<1> QED BY <1>1, <1>2, <1>3 DEF MarksOf, OrangeKnown, OthersDimmed

\* After a row was used the marks are those of the previewed row or the
\* selected one.
LEMMA MarksKeepInvariant ==
    ASSUME SearchIInv, OnlyMarks, RowUsed,
           {selected', hovered', previewed'} \subseteq localRows \cup {NoDesk},
           fog' \in Desks \cup {NoDesk}, orange' \subseteq drawn, dimmed' \subseteq drawn,
           OrangeKnown', OthersDimmed',
           (MarksOf(IF previewed # NoDesk THEN previewed ELSE selected))'
    PROVE  SearchIInv'
<1>1. UNCHANGED <<drawn, searchbox, sidebar, localRows, globalRows, globalAsks>>
  BY DEF OnlyMarks, results
<1>2. wiped' \in {"no", "then"}
  BY DEF RowUsed, SearchIInv, SearchTypeOK
<1>3. SearchTypeOK'
  BY <1>1, <1>2 DEF SearchIInv, SearchTypeOK
<1>4. RowsAreListed' /\ MarksFollowRows'
  BY <1>1, <1>2 DEF RowsAreListed, MarksFollowRows
<1> QED BY <1>3, <1>4 DEF SearchIInv

\* The dimming stays what it was.
LEMMA DimmingStays ==
    ASSUME SearchIInv, OnlyMarks, RowUsed, UNCHANGED dimmed
    PROVE  OthersDimmed' /\ dimmed' \subseteq drawn
BY DEF SearchIInv, SearchTypeOK, OthersDimmed, OnlyMarks, results, RowUsed

LEMMA SelectKeepsInvariant ==
    ASSUME SearchIInv, NEW d \in Desks, SelectSearchResult(d)
    PROVE  SearchIInv'
<1> USE SearchAssumption
<1>1. /\ d \in localRows /\ d # NoDesk /\ hovered' = d /\ previewed' = NoDesk
      /\ OnlyMarks /\ RowUsed
  BY DEF SelectSearchResult, OnlyMarks
<1>2. CASE selected = d
  <2>1. selected' = NoDesk /\ ShowAllSearchResultsOnMap /\ fog' = NoDesk
    BY <1>2 DEF SelectSearchResult
  <2>2. /\ MarksOf(NoDesk)' /\ OrangeKnown' /\ OthersDimmed'
        /\ orange' \subseteq drawn /\ dimmed' \subseteq drawn
    BY <1>1, <2>1, ShowAllProperties
  <2>3. (MarksOf(IF previewed # NoDesk THEN previewed ELSE selected))'
    BY <1>1, <2>1, <2>2 DEF MarksOf
  <2> QED BY <1>1, <2>1, <2>2, <2>3, MarksKeepInvariant
<1>3. CASE selected # d
  <2>1. selected' = d /\ IsolateDeskOnMap(d) /\ ShowSearchFog(d) /\ UNCHANGED dimmed
    BY <1>3 DEF SelectSearchResult
  <2>2. /\ MarksOf(d)' /\ OrangeKnown' /\ orange' \subseteq drawn
        /\ fog' \in Desks \cup {NoDesk}
    BY <1>1, <2>1, IsolateProperties
  <2>3. (MarksOf(IF previewed # NoDesk THEN previewed ELSE selected))'
    BY <1>1, <2>1, <2>2 DEF MarksOf
  <2> QED BY <1>1, <2>1, <2>2, <2>3, MarksKeepInvariant, DimmingStays
<1> QED BY <1>2, <1>3

LEMMA HoverKeepsInvariant ==
    ASSUME SearchIInv, NEW d \in Desks, HoverSearchResult(d)
    PROVE  SearchIInv'
<1> USE SearchAssumption
<1>1. /\ d \in localRows /\ d # NoDesk /\ hovered' = d /\ previewed' = d /\ selected' = selected
      /\ OnlyMarks /\ RowUsed
      /\ IsolateDeskOnMap(d) /\ ShowSearchFog(d) /\ UNCHANGED dimmed
  BY DEF HoverSearchResult, OnlyMarks
<1>2. /\ MarksOf(d)' /\ OrangeKnown' /\ orange' \subseteq drawn
      /\ fog' \in Desks \cup {NoDesk}
  BY <1>1, IsolateProperties
<1>3. (MarksOf(IF previewed # NoDesk THEN previewed ELSE selected))'
  BY <1>1, <1>2 DEF MarksOf
<1>4. selected' \in localRows \cup {NoDesk}
  BY <1>1 DEF SearchIInv, RowsAreListed
<1> QED BY <1>1, <1>2, <1>3, <1>4, MarksKeepInvariant, DimmingStays

LEMMA UnhoverKeepsInvariant ==
    ASSUME SearchIInv, UnhoverSearchResult
    PROVE  SearchIInv'
<1> USE SearchAssumption
<1>1. /\ hovered' = NoDesk /\ previewed' = NoDesk /\ selected' = selected
      /\ OnlyMarks /\ RowUsed /\ selected \in localRows \cup {NoDesk}
  BY DEF UnhoverSearchResult, OnlyMarks, SearchIInv, RowsAreListed
<1>2. CASE selected # NoDesk
  <2>1. IsolateDeskOnMap(selected) /\ ShowSearchFog(selected) /\ UNCHANGED dimmed
    BY <1>2 DEF UnhoverSearchResult
  <2>2. /\ MarksOf(selected)' /\ OrangeKnown' /\ orange' \subseteq drawn
        /\ fog' \in Desks \cup {NoDesk}
    BY <1>1, <1>2, <2>1, IsolateProperties
  <2>3. (MarksOf(IF previewed # NoDesk THEN previewed ELSE selected))'
    BY <1>1, <2>2 DEF MarksOf
  <2> QED BY <1>1, <2>1, <2>2, <2>3, MarksKeepInvariant, DimmingStays
<1>3. CASE selected = NoDesk
  <2>1. ShowAllSearchResultsOnMap /\ fog' = NoDesk
    BY <1>3 DEF UnhoverSearchResult
  <2>2. /\ MarksOf(NoDesk)' /\ OrangeKnown' /\ OthersDimmed'
        /\ orange' \subseteq drawn /\ dimmed' \subseteq drawn
    BY <1>1, <2>1, ShowAllProperties
  <2>3. (MarksOf(IF previewed # NoDesk THEN previewed ELSE selected))'
    BY <1>1, <1>3, <2>2 DEF MarksOf
  <2> QED BY <1>1, <1>3, <2>1, <2>2, <2>3, MarksKeepInvariant
<1> QED BY <1>2, <1>3

\* The map is drawn anew: without marks, or by a search from no marks.
LEMMA RefreshKeepsInvariant ==
    ASSUME SearchIInv, NEW desks \in SUBSET Desks, Refresh(desks)
    PROVE  SearchIInv'
<1> USE SearchAssumption
<1>1. CASE searchbox = NoText
  <2>1. /\ drawn' = desks /\ orange' = {} /\ dimmed' = {} /\ fog' = NoDesk
        /\ previewed' = NoDesk /\ wiped' = "yes"
        /\ UNCHANGED <<searchbox, selected, hovered, sidebar, localRows, globalRows, globalAsks>>
    BY <1>1 DEF Refresh, results
  <2>2. SearchTypeOK'
    BY <2>1 DEF SearchIInv, SearchTypeOK
  <2>3. RowsAreListed' /\ OrangeKnown' /\ MarksFollowRows' /\ OthersDimmed'
    BY <2>1 DEF SearchIInv, RowsAreListed, OrangeKnown, MarksFollowRows, Clean, OthersDimmed
  <2> QED BY <2>2, <2>3 DEF SearchIInv
<1>2. CASE searchbox # NoText
  <2>1. drawn' = desks /\ SearchDesks({})
    BY <1>2 DEF Refresh
  <2> QED BY <2>1, SearchKeepsInvariant
<1> QED BY <1>1, <1>2

-----------------------------------------------------------------------------
LEMMA SearchInitInvariant == SearchInit => SearchIInv
BY SearchAssumption
DEF SearchInit, SearchIInv, SearchTypeOK, RowsAreListed, OrangeKnown, MarksFollowRows, Clean,
    OthersDimmed

LEMMA SearchStep == SearchIInv /\ [SearchNext]_searchVars => SearchIInv'
<1> SUFFICES ASSUME SearchIInv, [SearchNext]_searchVars PROVE SearchIInv'
  OBVIOUS
<1> USE SearchAssumption
<1> DEFINE resting == /\ UNCHANGED <<drawn, selected, marks, localRows>>
                      /\ hovered' \in {hovered, NoDesk}
\* What touches neither marks nor rows keeps all but, perhaps, the types.
<1>1. ASSUME resting, SearchTypeOK' PROVE SearchIInv'
  <2>1. UNCHANGED <<drawn, selected, localRows, orange, dimmed, fog, previewed, wiped>>
    BY <1>1 DEF marks
  <2>2. RowsAreListed' /\ OrangeKnown'
    BY <1>1, <2>1 DEF SearchIInv, RowsAreListed, OrangeKnown
  <2>3. MarksFollowRows' /\ OthersDimmed'
    BY <2>1 DEF SearchIInv, MarksFollowRows, MarksOf, Coloured, Clean, OthersDimmed
  <2> QED BY <1>1, <2>2, <2>3 DEF SearchIInv
<1>2. ASSUME NEW t \in Texts \cup {NoText}, TypeText(t) PROVE SearchIInv'
  <2>1. resting /\ SearchTypeOK'
    BY <1>2 DEF TypeText, SearchIInv, SearchTypeOK, marks, results
  <2> QED BY <1>1, <2>1
<1>3. CASE SearchButton
  <2>1. drawn' = drawn /\ SearchDesks(orange) /\ orange \subseteq drawn /\ drawn \subseteq Desks
    BY <1>3 DEF SearchButton, SearchIInv, SearchTypeOK
  <2> QED BY <2>1, SearchKeepsInvariant
<1>4. CASE CloseSearchAndClear
  <2>1. /\ drawn' = drawn /\ orange \subseteq drawn /\ drawn \subseteq Desks
        /\ ResetColors /\ previewed' = NoDesk /\ CloseSearchSidebar(StillOrange(orange))
    BY <1>4 DEF CloseSearchAndClear, SearchIInv, SearchTypeOK
  <2> QED BY <2>1, ClosingKeepsInvariant
<1>5. ASSUME NEW t \in Texts, GlobalAnswer(t) PROVE SearchIInv'
  <2>1. resting /\ SearchTypeOK'
    BY <1>5 DEF GlobalAnswer, SearchIInv, SearchTypeOK, marks
  <2> QED BY <1>1, <2>1
<1>6. ASSUME NEW t \in Texts, GlobalFail(t) PROVE SearchIInv'
  <2>1. resting /\ SearchTypeOK'
    BY <1>6 DEF GlobalFail, SearchIInv, SearchTypeOK, marks
  <2> QED BY <1>1, <2>1
<1>7. CASE SlidAway
  <2>1. resting /\ SearchTypeOK'
    BY <1>7 DEF SlidAway, SearchIInv, SearchTypeOK, marks
  <2> QED BY <1>1, <2>1
<1>8. CASE UNCHANGED searchVars
  <2>1. resting /\ SearchTypeOK'
    BY <1>8 DEF searchVars, SearchIInv, SearchTypeOK, marks
  <2> QED BY <1>1, <2>1
<1> QED BY <1>2, <1>3, <1>4, <1>5, <1>6, <1>7, <1>8, SelectKeepsInvariant,
           HoverKeepsInvariant, UnhoverKeepsInvariant, RefreshKeepsInvariant DEF SearchNext

-----------------------------------------------------------------------------
(* Theorems                                                                *)

\* The inductive invariant holds in every order of searches, drawings,
\* hovering, clicks and late answers.
THEOREM SearchInvariance == SearchSpec => []SearchIInv
BY SearchInitInvariant, SearchStep, PTL DEF SearchSpec

\* Every variable keeps its type; marks are on desks of the map.
THEOREM SearchTyping == SearchSpec => []SearchTypeOK
<1>1. SearchIInv => SearchTypeOK
  BY DEF SearchIInv
<1> QED BY <1>1, SearchInvariance, PTL

\* For any desks, texts and matches, the marks on the map are those of the rows,
\* of one or of all, and after closing or drawing none until a row is used.
THEOREM SearchKeepsStep == SearchSpec => []MarksInStep
<1>1. SearchIInv => MarksInStep
  BY DEF SearchIInv, MarksInStep
<1> QED BY <1>1, SearchInvariance, PTL

-----------------------------------------------------------------------------
(* Desks, rooms and bookings                                               *)

\* PageInStep is inductive as it stands.  Its parts, by what changes together:
\* what the server has, what the page shows, and the requests under way.
ServerFits ==
    /\ booked \in Bookings /\ seat \in BOOLEAN /\ room \in Statuses
    /\ changes \in 0..MaxChanges

CalendarFits ==
    /\ userdate \in Dates
    /\ board \in Board
    /\ listed \in BOOLEAN /\ sticky \in BOOLEAN /\ activecalendar \in BOOLEAN
    /\ bookingstatus \in Bookings /\ calendar \in Bookings
    /\ CalendarIsCurrent

PollsFit == hidden \in BOOLEAN /\ timers \subseteq Polls

RoomFits ==
    /\ paint \in Statuses \cup {Blank}
    /\ meetingstatus \in Statuses \cup {Unknown}
    /\ roomAsks \in [BOOLEAN -> 0..MaxAsks]
    /\ lost \in BOOLEAN
    /\ BlankIsAwaited

AsksFit == deskAsks \in [Dates -> 0..MaxAsks] /\ listAsks \in 0..MaxAsks

PageIInv == ServerFits /\ CalendarFits /\ PollsFit /\ RoomFits /\ AsksFit

LEMMA PageIInvIsPageInStep == PageIInv <=> PageInStep
BY DEF PageIInv, ServerFits, CalendarFits, PollsFit, RoomFits, AsksFit, PageInStep,
       PageTypeOK

\* Requests are counted up to the bound, and one more leaves at least one.
LEMMA OneMore ==
    ASSUME NEW n \in 0..MaxAsks
    PROVE  More(n) \in 0..MaxAsks /\ More(n) > 0
BY MapPageAssumption DEF More

LEMMA OneLess ==
    ASSUME NEW n \in 0..MaxAsks, n > 0
    PROVE  n - 1 \in 0..MaxAsks
BY MapPageAssumption

LEMMA DeskAsksMore ==
    ASSUME AsksFit, NEW d \in Dates, UpdateDesks(d)
    PROVE  deskAsks' \in [Dates -> 0..MaxAsks]
<1>1. More(deskAsks[d]) \in 0..MaxAsks
  BY OneMore DEF AsksFit
<1> QED BY <1>1 DEF AsksFit, UpdateDesks

LEMMA DeskAsksLess ==
    ASSUME AsksFit, NEW d \in Dates, deskAsks[d] > 0,
           deskAsks' = [deskAsks EXCEPT ![d] = @ - 1]
    PROVE  deskAsks' \in [Dates -> 0..MaxAsks]
<1>1. deskAsks[d] - 1 \in 0..MaxAsks
  BY OneLess DEF AsksFit
<1> QED BY <1>1 DEF AsksFit

LEMMA ListAsksMore ==
    ASSUME AsksFit, UpdateBookings
    PROVE  listAsks' \in 0..MaxAsks
BY OneMore DEF AsksFit, UpdateBookings

LEMMA ListAsksLess ==
    ASSUME AsksFit, listAsks > 0, listAsks' = listAsks - 1
    PROVE  listAsks' \in 0..MaxAsks
BY OneLess DEF AsksFit

\* A status request keeps what is awaited, and a forced one is awaited.
LEMMA RoomAsksMore ==
    ASSUME RoomFits, NEW force \in BOOLEAN, GetMeetingStatus(force)
    PROVE  /\ roomAsks' \in [BOOLEAN -> 0..MaxAsks]
           /\ roomAsks'[force] > 0
           /\ roomAsks[TRUE] > 0 => roomAsks'[TRUE] > 0
<1>1. /\ roomAsks \in [BOOLEAN -> 0..MaxAsks]
      /\ roomAsks' = [roomAsks EXCEPT ![force] = More(roomAsks[force])]
      /\ More(roomAsks[force]) \in 0..MaxAsks /\ More(roomAsks[force]) > 0
  BY OneMore DEF RoomFits, GetMeetingStatus
<1> QED BY <1>1

LEMMA RoomAsksLess ==
    ASSUME RoomFits, NEW force \in BOOLEAN, roomAsks[force] > 0,
           roomAsks' = [roomAsks EXCEPT ![force] = @ - 1]
    PROVE  /\ roomAsks' \in [BOOLEAN -> 0..MaxAsks]
           /\ ~force => roomAsks'[TRUE] = roomAsks[TRUE]
<1>1. roomAsks[force] - 1 \in 0..MaxAsks
  BY OneLess DEF RoomFits
<1> QED BY <1>1 DEF RoomFits

LEMMA PageInitInvariant == PageInit => PageIInv
<1> SUFFICES ASSUME PageInit PROVE PageIInv
  OBVIOUS
<1>1. 0 \in 0..MaxAsks /\ 1 \in 0..MaxAsks /\ 0 \in 0..MaxChanges /\ Today \in Dates
  BY MapPageAssumption
<1>2. Nobody \in Bookings
  BY DEF Nobody, Bookings
<1>3. ServerFits
  BY <1>1, <1>2 DEF PageInit, ServerFits
<1>4. board = [drawn |-> FALSE, seat |-> FALSE, holders |-> {}] /\ board \in Board
  BY DEF PageInit, Board
<1>5. CalendarFits /\ PollsFit
  BY <1>1, <1>2, <1>4 DEF PageInit, CalendarFits, PollsFit, CalendarIsCurrent
<1>6. RoomFits
  <2>1. roomAsks \in [BOOLEAN -> 0..MaxAsks]
    BY <1>1 DEF PageInit
  <2>2. ~board.drawn
    BY <1>4
  <2>3. lost \in BOOLEAN
    BY DEF PageInit
  <2> QED BY <2>1, <2>2, <2>3 DEF PageInit, RoomFits, BlankIsAwaited
<1>7. AsksFit
  BY <1>1 DEF PageInit, AsksFit
<1> QED BY <1>3, <1>5, <1>6, <1>7 DEF PageIInv

LEMMA OthersActStep == ASSUME PageIInv, OthersAct PROVE PageIInv'
<1>1. changes' \in 0..MaxChanges
  BY MapPageAssumption DEF PageIInv, ServerFits, OthersAct, Change
<1>2. booked' \in Bookings
  <2>1. CASE booked' = booked
    BY <2>1 DEF PageIInv, ServerFits
  <2>2. CASE booked' # booked
    <3>1. PICK d \in Dates, u \in Users \ {Me} :
             booked' = [booked EXCEPT ![d] = IF @ = {} THEN {u} ELSE @ \ {u}]
      BY <2>2 DEF OthersAct
    <3>2. PICK s : s = IF booked[d] = {} THEN {u} ELSE booked[d] \ {u}
      OBVIOUS
    <3>3. s \in SUBSET Users /\ booked' = [booked EXCEPT ![d] = s]
      BY <3>1, <3>2 DEF PageIInv, ServerFits, Bookings
    <3> QED BY <3>3 DEF PageIInv, ServerFits, Bookings
  <2> QED BY <2>1, <2>2
<1>3. seat' \in BOOLEAN /\ room' \in Statuses
  BY DEF OthersAct, PageIInv, ServerFits
<1>4. UNCHANGED <<userdate, view, meetingstatus, listed, bookingstatus,
                  calendar, activecalendar, hidden, timers, asks, lost>>
  BY DEF OthersAct
<1>5. ServerFits'
  BY <1>1, <1>2, <1>3 DEF ServerFits
<1> QED BY <1>4, <1>5
    DEF PageIInv, CalendarFits, PollsFit, RoomFits, AsksFit, view, asks,
        CalendarIsCurrent, BlankIsAwaited

\* Only what is drawn anew loses its colours, and asks for them.
LEMMA BoardStep == ASSUME PageIInv, NEW d \in Dates, DesksAnswer(d) PROVE PageIInv'
<1> USE DEF PageIInv
<1>1. /\ deskAsks[d] > 0 /\ deskAsks' = [deskAsks EXCEPT ![d] = @ - 1]
      /\ UNCHANGED <<server, userdate, meetingstatus, listed, bookingstatus,
                     activecalendar, hidden, timers, listAsks>>
  BY DEF DesksAnswer
<1>2. AsksFit'
  BY <1>1, DeskAsksLess DEF AsksFit
<1>3. ServerFits' /\ PollsFit'
  BY <1>1 DEF ServerFits, PollsFit, server
<1>4. CASE DeskData(d) = board
  <2>1. UNCHANGED <<view, calendar, roomAsks, lost>>
    BY <1>4 DEF DesksAnswer
  <2> QED BY <1>1, <1>2, <1>3, <2>1
      DEF CalendarFits, RoomFits, CalendarIsCurrent, BlankIsAwaited, view
<1>5. CASE DeskData(d) # board
  <2>1. /\ board' = DeskData(d) /\ sticky' = FALSE /\ calendar' = Nobody
        /\ paint' = Blank /\ lost' = FALSE /\ GetMeetingStatus(TRUE)
    BY <1>5 DEF DesksAnswer
  <2>2. DeskData(d) \in Board
    BY DEF DeskData, Board, ServerFits, Bookings
  <2>3. Nobody \in Bookings
    BY DEF Nobody, Bookings
  <2>4. CalendarFits'
    BY <1>1, <2>1, <2>2, <2>3 DEF CalendarFits, CalendarIsCurrent
  <2>5. RoomFits'
    BY <1>1, <2>1, RoomAsksMore DEF RoomFits, BlankIsAwaited
  <2> QED BY <1>2, <1>3, <2>4, <2>5
<1> QED BY <1>4, <1>5

LEMMA DesksFailPageStep == ASSUME PageIInv, NEW d \in Dates, DesksFail(d) PROVE PageIInv'
<1>1. /\ deskAsks[d] > 0 /\ deskAsks' = [deskAsks EXCEPT ![d] = @ - 1]
      /\ UNCHANGED <<server, userdate, view, meetingstatus, listed, bookingstatus,
                     calendar, activecalendar, hidden, timers, listAsks, roomAsks,
                     lost>>
  BY DEF DesksFail
<1>2. AsksFit'
  BY <1>1, DeskAsksLess DEF PageIInv, AsksFit
<1> QED BY <1>1, <1>2
    DEF PageIInv, ServerFits, CalendarFits, PollsFit, RoomFits, server, view,
        CalendarIsCurrent, BlankIsAwaited

\* The status paints what was drawn; its failure is remembered.
LEMMA RoomsStepOfPage ==
    ASSUME PageIInv, NEW force \in BOOLEAN, RoomsAnswer(force) \/ RoomsFail(force)
    PROVE  PageIInv'
<1> USE DEF PageIInv
<1>1. /\ roomAsks[force] > 0 /\ roomAsks' = [roomAsks EXCEPT ![force] = @ - 1]
      /\ UNCHANGED <<server, userdate, board, sticky, listed, bookingstatus,
                     calendar, activecalendar, hidden, timers, deskAsks, listAsks>>
  BY DEF RoomsAnswer, RoomsFail, view
<1>2. ServerFits' /\ CalendarFits' /\ PollsFit' /\ AsksFit'
  BY <1>1 DEF ServerFits, CalendarFits, PollsFit, AsksFit, server, CalendarIsCurrent
<1>3. /\ roomAsks' \in [BOOLEAN -> 0..MaxAsks]
      /\ ~force => roomAsks'[TRUE] = roomAsks[TRUE]
  BY <1>1, RoomAsksLess
<1>4. Blank \notin Statuses
  BY MapPageAssumption DEF Blank
<1>5. CASE RoomsAnswer(force)
  <2>1. CASE board.drawn /\ (force \/ room # meetingstatus)
    <3>1. meetingstatus' = room /\ paint' = room /\ room \in Statuses /\ lost' = lost
      BY <1>5, <2>1 DEF RoomsAnswer, ServerFits
    <3> QED BY <1>2, <1>3, <1>4, <3>1 DEF RoomFits, BlankIsAwaited
  <2>2. CASE ~(board.drawn /\ (force \/ room # meetingstatus))
    <3>1. UNCHANGED <<meetingstatus, paint, board, lost>> /\ (board.drawn => ~force)
      BY <1>5, <2>2 DEF RoomsAnswer
    <3> QED BY <1>2, <1>3, <3>1 DEF RoomFits, BlankIsAwaited
  <2> QED BY <2>1, <2>2
<1>6. CASE RoomsFail(force)
  <2>1. /\ lost' = (lost \/ force) /\ paint' = paint
        /\ meetingstatus' = meetingstatus /\ board' = board
    BY <1>6 DEF RoomsFail, view
  <2>2. CASE force
    <3>1. lost' = TRUE
      BY <2>1, <2>2
    <3> QED BY <1>2, <1>3, <2>1, <3>1 DEF RoomFits, BlankIsAwaited
  <2>3. CASE ~force
    <3>1. lost' = lost
      BY <2>1, <2>3 DEF RoomFits
    <3> QED BY <1>2, <1>3, <2>1, <2>3, <3>1 DEF RoomFits, BlankIsAwaited
  <2> QED BY <2>2, <2>3
<1> QED BY <1>5, <1>6

\* The plate: opened over a desk on the board with the bookings at hand, and
\* drawn anew with the next ones.
LEMMA PlateStep ==
    ASSUME PageIInv, ShowSticky \/ ShowRoomSticky \/ HideSticky
    PROVE  PageIInv'
<1> USE DEF PageIInv
<1>1. UNCHANGED <<server, userdate, board, paint, meetingstatus, listed,
                  bookingstatus, hidden, timers, asks, lost>>
  BY DEF ShowSticky, ShowRoomSticky, HideSticky
<1>2. ServerFits' /\ PollsFit' /\ RoomFits' /\ AsksFit'
  BY <1>1 DEF ServerFits, PollsFit, RoomFits, AsksFit, server, asks, BlankIsAwaited
<1>3. Nobody \in Bookings
  BY DEF Nobody, Bookings
<1>4. CASE ShowSticky
  <2>1. /\ board.seat /\ sticky' = TRUE /\ activecalendar' = TRUE
        /\ calendar' = bookingstatus
    BY <1>4 DEF ShowSticky
  <2> QED BY <1>1, <1>2, <2>1 DEF CalendarFits, CalendarIsCurrent
<1>5. CASE ShowRoomSticky
  BY <1>1, <1>2, <1>3, <1>5 DEF ShowRoomSticky, CalendarFits, CalendarIsCurrent
<1>6. CASE HideSticky
  BY <1>1, <1>2, <1>3, <1>6 DEF HideSticky, CalendarFits, CalendarIsCurrent
<1> QED BY <1>4, <1>5, <1>6

LEMMA BookingsStep ==
    ASSUME PageIInv, BookingsAnswer \/ BookingsFail
    PROVE  PageIInv'
<1> USE DEF PageIInv
<1>1. /\ listAsks > 0 /\ listAsks' = listAsks - 1
      /\ UNCHANGED <<server, userdate, view, meetingstatus, activecalendar, hidden,
                     timers, roomAsks, lost>>
  BY DEF BookingsAnswer, BookingsFail
<1>2. ServerFits' /\ PollsFit' /\ RoomFits'
  BY <1>1 DEF ServerFits, PollsFit, RoomFits, server, view, BlankIsAwaited
<1>3. AsksFit'
  <2>1. listAsks' \in 0..MaxAsks
    BY <1>1, ListAsksLess
  <2>2. CASE UNCHANGED deskAsks
    BY <2>1, <2>2 DEF AsksFit
  <2>3. CASE ~UNCHANGED deskAsks
    <3>1. PICK d : d = userdate
      OBVIOUS
    <3>2. d \in Dates /\ UpdateDesks(d)
      BY <2>3, <3>1 DEF BookingsAnswer, BookingsFail, CalendarFits
    <3> QED BY <2>1, <3>2, DeskAsksMore DEF AsksFit
  <2> QED BY <2>2, <2>3
<1>4. CalendarFits'
  <2>1. CASE BookingsAnswer
    <3>1. /\ listed' = TRUE /\ bookingstatus' = booked /\ booked \in Bookings
          /\ calendar' = IF activecalendar /\ sticky THEN booked ELSE calendar
      BY <2>1 DEF BookingsAnswer, ServerFits
    <3> QED BY <1>1, <3>1 DEF CalendarFits, CalendarIsCurrent, view
  <2>2. CASE BookingsFail
    BY <1>1, <2>2 DEF BookingsFail, CalendarFits, CalendarIsCurrent, view
  <2> QED BY <2>1, <2>2
<1> QED BY <1>2, <1>3, <1>4

\* Booking and cancelling change the server's bookings and nothing that is
\* shown before the bookings are there.
LEMMA BookStep ==
    ASSUME PageIInv, NEW d \in Dates, booked' \in Bookings, Change,
           UNCHANGED listAsks \/ UpdateBookings,
           UNCHANGED <<seat, room, userdate, view, meetingstatus, listed,
                       bookingstatus, calendar, activecalendar, hidden, timers,
                       deskAsks, roomAsks, lost>>
    PROVE  PageIInv'
<1>1. changes' \in 0..MaxChanges
  BY MapPageAssumption DEF PageIInv, ServerFits, Change
<1>2. listAsks' \in 0..MaxAsks
  BY ListAsksMore DEF PageIInv, AsksFit
<1> QED BY <1>1, <1>2
    DEF PageIInv, ServerFits, CalendarFits, PollsFit, RoomFits, AsksFit, view,
        CalendarIsCurrent, BlankIsAwaited

\* A poll, a resumed page or another date only asks.
LEMMA AskStep ==
    ASSUME PageIInv, userdate' \in Dates, hidden' \in BOOLEAN, timers' \subseteq Polls,
           UNCHANGED deskAsks \/ \E d \in Dates : UpdateDesks(d),
           UNCHANGED listAsks \/ UpdateBookings,
           UNCHANGED roomAsks \/ GetMeetingStatus(FALSE),
           UNCHANGED <<server, view, meetingstatus, listed, bookingstatus, calendar,
                       activecalendar, lost>>
    PROVE  PageIInv'
<1> USE DEF PageIInv
<1>1. AsksFit'
  BY DeskAsksMore, ListAsksMore DEF AsksFit
<1>2. RoomFits'
  <2>1. /\ roomAsks' \in [BOOLEAN -> 0..MaxAsks]
        /\ roomAsks[TRUE] > 0 => roomAsks'[TRUE] > 0
    BY RoomAsksMore DEF RoomFits
  <2> QED BY <2>1 DEF RoomFits, BlankIsAwaited, view
<1> QED BY <1>1, <1>2
    DEF ServerFits, CalendarFits, PollsFit, CalendarIsCurrent, server, view

LEMMA PageStep == PageIInv /\ [PageNext]_pageVars => PageIInv'
<1> SUFFICES ASSUME PageIInv, [PageNext]_pageVars PROVE PageIInv'
  OBVIOUS
<1>0. userdate \in Dates /\ hidden \in BOOLEAN /\ timers \subseteq Polls
  BY DEF PageIInv, CalendarFits, PollsFit
<1>1. CASE OthersAct
  BY <1>1, OthersActStep
<1>2. ASSUME NEW d \in Dates, SetUserdate(d) PROVE PageIInv'
  BY <1>0, <1>2, AskStep DEF SetUserdate
<1>3. ASSUME NEW d \in Dates, CancelBooking(d) PROVE PageIInv'
  <2>1. booked' \in Bookings
    BY <1>3 DEF CancelBooking, PageIInv, ServerFits, Bookings
  <2> QED BY <1>3, <2>1, BookStep DEF CancelBooking
<1>4. ASSUME NEW d \in Dates, NEW stored \in BOOLEAN, NEW answered \in BOOLEAN,
             BookDesk(d, stored, answered)
      PROVE  PageIInv'
  <2>1. booked' \in Bookings
    <3>1. PICK s : s = IF booked[d] = {} /\ stored THEN {Me} ELSE booked[d]
      OBVIOUS
    <3>2. s \in SUBSET Users /\ booked' = [booked EXCEPT ![d] = s]
      BY <1>4, <3>1, MapPageAssumption
         DEF BookDesk, PageIInv, ServerFits, Bookings
    <3> QED BY <3>2 DEF PageIInv, ServerFits, Bookings
  <2>2. UNCHANGED listAsks \/ UpdateBookings
    BY <1>4 DEF BookDesk
  <2> QED BY <1>4, <2>1, <2>2, BookStep DEF BookDesk
<1>5. CASE ShowSticky \/ ShowRoomSticky \/ HideSticky
  BY <1>5, PlateStep
<1>6. CASE VisPollPause
  BY <1>0, <1>6, AskStep DEF VisPollPause, asks
<1>7. ASSUME NEW stale \in BOOLEAN, VisPollResume(stale) PROVE PageIInv'
  <2>1. /\ hidden' = FALSE /\ timers' = Polls /\ userdate' = userdate
        /\ UNCHANGED <<server, view, meetingstatus, listed, bookingstatus, calendar,
                       activecalendar, lost>>
    BY <1>7 DEF VisPollResume
  <2>2. /\ UNCHANGED deskAsks \/ \E d \in Dates : UpdateDesks(d)
        /\ UNCHANGED listAsks \/ UpdateBookings
        /\ UNCHANGED roomAsks \/ GetMeetingStatus(FALSE)
    BY <1>0, <1>7 DEF VisPollResume
  <2> QED BY <1>0, <2>1, <2>2, AskStep
<1>8. ASSUME NEW d \in Dates, DesksAnswer(d) \/ DesksFail(d) PROVE PageIInv'
  BY <1>8, BoardStep, DesksFailPageStep
<1>9. ASSUME NEW force \in BOOLEAN, RoomsAnswer(force) \/ RoomsFail(force)
      PROVE  PageIInv'
  BY <1>9, RoomsStepOfPage
<1>10. CASE BookingsAnswer \/ BookingsFail
  BY <1>10, BookingsStep
<1>11. ASSUME NEW p \in Polls, Poll(p) PROVE PageIInv'
  <2>1. UNCHANGED <<server, userdate, view, meetingstatus, listed, bookingstatus,
                    calendar, activecalendar, hidden, timers, lost>>
    BY <1>11 DEF Poll
  <2>2. /\ UNCHANGED deskAsks \/ \E d \in Dates : UpdateDesks(d)
        /\ UNCHANGED listAsks \/ UpdateBookings
        /\ UNCHANGED roomAsks \/ GetMeetingStatus(FALSE)
    BY <1>0, <1>11 DEF Poll, Run, Polls
  <2> QED BY <1>0, <2>1, <2>2, AskStep
<1>12. CASE UNCHANGED pageVars
  BY <1>12 DEF pageVars, server, view, asks, PageIInv, ServerFits, CalendarFits,
               PollsFit, RoomFits, AsksFit, CalendarIsCurrent, BlankIsAwaited
<1> QED BY <1>1, <1>2, <1>3, <1>4, <1>5, <1>6, <1>7, <1>8, <1>9, <1>10, <1>11,
           <1>12 DEF PageNext, UserActs, Answers, Failures

\* For any dates, people and statuses, and any number of requests under way, an
\* indicator without colour has its status to come or has lost it, and an open
\* calendar shows the bookings received last for a desk that is on the board.
THEOREM PageKeepsStep == PageSpec => []PageInStep
<1>1. PageInit => PageInStep
  BY PageInitInvariant, PageIInvIsPageInStep
<1>2. PageInStep /\ [PageNext]_pageVars => PageInStep'
  <2> SUFFICES ASSUME PageInStep, [PageNext]_pageVars PROVE PageInStep'
    OBVIOUS
  <2>1. PageIInv'
    BY PageIInvIsPageInStep, PageStep
  <2> QED BY <2>1
      DEF PageIInv, ServerFits, CalendarFits, PollsFit, RoomFits, AsksFit,
          PageInStep, PageTypeOK
<1> QED BY <1>1, <1>2, PTL DEF PageSpec

\* An answer without news takes no plate away that somebody reads: one goes
\* with its calendar left on by another plate or with a new board only.
THEOREM PlateIsKept == PageSpec => PlateStays
<1>1. [PageNext]_pageVars =>
        [sticky /\ ~sticky' /\ activecalendar' /\ board' = board
            => UNCHANGED asks]_pageVars
  <2> SUFFICES ASSUME [PageNext]_pageVars,
                      sticky, ~sticky', activecalendar', board' = board
               PROVE  UNCHANGED asks
    OBVIOUS
  <2>1. sticky' # sticky
    OBVIOUS
  <2>2. ~UNCHANGED view
    BY <2>1 DEF view
  <2>3. CASE ShowSticky \/ ShowRoomSticky \/ HideSticky
    BY <2>3 DEF ShowSticky, ShowRoomSticky, HideSticky
  <2>4. ASSUME NEW d \in Dates, DesksAnswer(d) PROVE FALSE
    BY <2>2, <2>4 DEF DesksAnswer
  <2>5. ASSUME NEW force \in BOOLEAN, RoomsAnswer(force) PROVE FALSE
    BY <2>1, <2>5 DEF RoomsAnswer
  <2>6. CASE OthersAct
    BY <2>2, <2>6 DEF OthersAct
  <2>7. ASSUME NEW d \in Dates, SetUserdate(d) \/ CancelBooking(d) \/ DesksFail(d)
        PROVE  FALSE
    BY <2>2, <2>7 DEF SetUserdate, CancelBooking, DesksFail
  <2>8. ASSUME NEW d \in Dates, NEW stored \in BOOLEAN, NEW answered \in BOOLEAN,
               BookDesk(d, stored, answered)
        PROVE  FALSE
    BY <2>2, <2>8 DEF BookDesk
  <2>9. ASSUME NEW force \in BOOLEAN, RoomsFail(force) PROVE FALSE
    BY <2>2, <2>9 DEF RoomsFail
  <2>10. CASE BookingsAnswer \/ BookingsFail
    BY <2>2, <2>10 DEF BookingsAnswer, BookingsFail
  <2>11. ASSUME NEW p \in Polls, Poll(p) PROVE FALSE
    BY <2>2, <2>11 DEF Poll
  <2>12. ASSUME NEW stale \in BOOLEAN, VisPollResume(stale) PROVE FALSE
    BY <2>2, <2>12 DEF VisPollResume
  <2>13. CASE VisPollPause
    BY <2>2, <2>13 DEF VisPollPause
  <2>14. CASE UNCHANGED pageVars
    BY <2>14 DEF pageVars
  <2> QED BY <2>3, <2>4, <2>5, <2>6, <2>7, <2>8, <2>9, <2>10, <2>11, <2>12, <2>13,
             <2>14 DEF PageNext, UserActs, Answers, Failures
<1> QED BY <1>1, PTL DEF PageSpec, PlateStays
=============================================================================
