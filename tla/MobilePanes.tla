---------------------------- MODULE MobilePanes ----------------------------
(***************************************************************************)
(* The pages of the mobile app whose body is filled by an answer           *)
(* (src/internal/web/static/m/mobile-app.js): the global search, with the  *)
(* room badges of its results, and the read-only admin sections, with the  *)
(* people search of the section "users".                                   *)
(*                                                                         *)
(* No request carries a token: an answer is written into the element of    *)
(* its id, whatever page that element belongs to by then, and dropped when *)
(* there is none.  A list is abstracted to the query or section it was     *)
(* made for.                                                               *)
(***************************************************************************)
EXTENDS Naturals, FiniteSets

CONSTANTS
    Sections,  \* admin sections that ask for their list ("users" does not)
    Perms,     \* sections the signed-in user may view, of Sections and users
    Queries,   \* texts of two characters or more
    RoomMaps,  \* maps with meeting rooms
    Hits(_),   \* the maps whose rooms match a query
    MaxPaneAsks    \* bound: requests, or timeouts, of one kind under way

Short == "short"        \* fewer than two characters
Spinner == "spinner"    \* the loading notice
Hint == "hint"          \* the notice that invites to type
Failed == "failed"      \* an error notice
NoElement == "none"     \* the element is not on the page

Pages == {"search", "users", "menu"} \cup Sections

\* A section or a text is not mistaken for another page or for a notice.
ASSUME PanesAssumption ==
    /\ Sections \cap {"search", "users", "menu", Spinner, Failed, NoElement} = {}
    /\ Queries \cap {Short, Spinner, Hint, Failed, NoElement} = {}
    /\ Perms \subseteq Sections \cup {"users"}
    /\ \A q \in Queries : Hits(q) \subseteq RoomMaps
    /\ MaxPaneAsks \in Nat \ {0}

VARIABLES
    page,      \* the page on the screen ("menu": any without a filled body)
    input,     \* the text of the page's search box
    listed,      \* what #m_gsearchlist or #m_userlist holds
    body,      \* what #m_adminbody holds
    badges,    \* maps whose badges still read "...", in the result list
    allDesks,  \* mapState.allDesks: "unknown", "desks" or "empty"
    cached,    \* maps in mapState.meetingCache
    wait,      \* the query of the debounce timeout, per search page
    stray,     \* debounce timeouts of earlier visits to a search page
    searchAsks,  \* searches that wait for the list of all desks, per query
    userAsks,  \* requests for people, per query
    roomAsks,  \* requests for room status, per map
    listAsks   \* requests for the list of a section

panesVars == <<page, input, listed, body, badges, allDesks, cached, wait, stray,
          searchAsks, userAsks, roomAsks, listAsks>>

SearchPages == {"search", "users"}
Texts == Queries \cup {Short}

PanesTypeOK ==
    /\ page \in Pages
    /\ input \in Texts
    /\ listed \in Queries \cup {Spinner, Hint, Failed, NoElement}
    /\ body \in Sections \cup {Spinner, Failed, NoElement, "users"}
    /\ badges \subseteq RoomMaps
    /\ allDesks \in {"unknown", "desks", "empty"}
    /\ cached \subseteq RoomMaps
    /\ wait \in Texts
    /\ stray \in [SearchPages \X Queries -> 0..MaxPaneAsks]
    /\ searchAsks \in [Queries -> 0..MaxPaneAsks]
    /\ userAsks \in [Queries -> 0..MaxPaneAsks]
    /\ roomAsks \in [RoomMaps -> 0..MaxPaneAsks]
    /\ listAsks \in [Sections -> 0..MaxPaneAsks]

PanesInit ==
    /\ page = "menu" /\ input = Short
    /\ listed = NoElement /\ body = NoElement
    /\ badges = {}
    /\ allDesks = "unknown" /\ cached = {}
    /\ wait = Short
    /\ stray = [s \in SearchPages \X Queries |-> 0]
    /\ searchAsks = [q \in Queries |-> 0]
    /\ userAsks = [q \in Queries |-> 0]
    /\ roomAsks = [m \in RoomMaps |-> 0]
    /\ listAsks = [s \in Sections |-> 0]

More(asks, k) == asks[k] < MaxPaneAsks
Sent(asks, k) == [asks EXCEPT ![k] = @ + 1]
\* Mutant: a request is settled twice, by its answer and by its end.
Done_Twice(asks, k) == [asks EXCEPT ![k] = @ - 2]

Done(asks, k) == [asks EXCEPT ![k] = @ - 1]

-----------------------------------------------------------------------------
(* Pages.                                                                  *)

\* Leaving a search page leaves its debounce timeout running.
LeaveTimeout ==
    IF wait = Short
    THEN UNCHANGED stray
    ELSE /\ More(stray, <<page, wait>>)
         /\ stray' = Sent(stray, <<page, wait>>)

\* adminSections: the menu lists the sections the user may view.
Reachable(p) == p \in Sections \cup {"users"} => p \in Perms

\* route: a page is rendered afresh.
OpenPane(p) ==
    /\ p # page
    /\ Reachable(p)
    /\ page' = p
    /\ input' = Short
    /\ wait' = Short
    /\ LeaveTimeout
    /\ badges' = {}
    /\ listed' = IF p \in SearchPages THEN Hint ELSE NoElement
    /\ body' = IF p = "users" THEN "users"
               ELSE IF p \in Sections THEN Spinner ELSE NoElement
    /\ IF p \in Sections
       THEN More(listAsks, p) /\ listAsks' = Sent(listAsks, p)
       ELSE UNCHANGED listAsks
    /\ UNCHANGED <<allDesks, cached, searchAsks, userAsks, roomAsks>>

\* The answer of a section's list is written into the admin body there is;
\* it removes the search box when that body is the people search.
SectionAnswer(s, result) ==
    /\ listAsks[s] > 0
    /\ listAsks' = Done(listAsks, s)
    /\ body' = IF body = NoElement THEN body ELSE result
    /\ IF page = "users" THEN listed' = NoElement ELSE UNCHANGED listed
    /\ UNCHANGED <<page, input, badges, allDesks, cached, wait, stray,
                   searchAsks, userAsks, roomAsks>>

-----------------------------------------------------------------------------
(* Search.                                                                 *)

\* Typing restarts the timeout; a short text shows the hint and starts none.
TypeQuery(q) ==
    /\ page \in SearchPages
    /\ page = "users" => body = "users"
    /\ input # q
    /\ input' = q
    /\ wait' = q
    /\ IF q = Short
       THEN listed' = Hint /\ badges' = {}
       ELSE UNCHANGED <<listed, badges>>
    /\ UNCHANGED <<page, body, allDesks, cached, stray, searchAsks, userAsks,
                   roomAsks, listAsks>>

\* A result list with the badges of the rooms in it, if its box is there;
\* ensureMeeting fills those of the maps it knows at once and asks for the
\* others, also when the page has been left.
Render(q) ==
    LET maps == IF allDesks' = "desks" THEN Hits(q) ELSE {}
        ask == maps \ cached
    IN  /\ IF page = "search" THEN listed' = q /\ badges' = ask
                              ELSE UNCHANGED <<listed, badges>>
        /\ \A m \in ask : More(roomAsks, m)
        /\ roomAsks' = [m \in RoomMaps |->
                          IF m \in ask THEN roomAsks[m] + 1 ELSE roomAsks[m]]

\* Mutant: the spinner is shown after the callback instead of before it.
RunGlobalSearch_SpinnerLast(q) ==
    /\ UNCHANGED <<page, input, body, cached, userAsks, listAsks, allDesks,
                   roomAsks>>
    /\ IF allDesks = "unknown"
       THEN More(searchAsks, q) /\ searchAsks' = Sent(searchAsks, q)
       ELSE UNCHANGED searchAsks
    /\ IF page = "search"
       THEN listed' = Spinner /\ badges' = {}
       ELSE UNCHANGED <<listed, badges>>

\* runGlobalSearch, on any page: the spinner, then the results once all desks
\* are known; every search that finds them unknown asks for them.
RunGlobalSearch(q) ==
    /\ UNCHANGED <<page, input, body, cached, userAsks, listAsks, allDesks>>
    /\ IF allDesks = "unknown"
       THEN /\ More(searchAsks, q)
            /\ searchAsks' = Sent(searchAsks, q)
            /\ IF page = "search"
               THEN listed' = Spinner /\ badges' = {}
               ELSE UNCHANGED <<listed, badges>>
            /\ UNCHANGED roomAsks
       ELSE UNCHANGED searchAsks /\ Render(q)

\* The people search shows the spinner and asks.
RunUserSearch(q) ==
    /\ More(userAsks, q)
    /\ userAsks' = Sent(userAsks, q)
    /\ listed' = IF page = "users" /\ listed # NoElement THEN Spinner ELSE listed
    /\ UNCHANGED <<page, input, body, badges, allDesks, cached,
                   searchAsks, roomAsks, listAsks>>

\* The debounce timeout of the page on the screen.
Debounce ==
    /\ wait # Short
    /\ wait' = Short
    /\ IF page = "search" THEN RunGlobalSearch(wait) ELSE RunUserSearch(wait)
    /\ UNCHANGED stray

\* The debounce timeout of an earlier visit.
StrayDebounce(p, q) ==
    /\ stray[<<p, q>>] > 0
    /\ stray' = Done(stray, <<p, q>>)
    /\ IF p = "users" THEN RunUserSearch(q) ELSE RunGlobalSearch(q)
    /\ UNCHANGED wait

\* All desks arrive for the search that asked: they are kept for the visit,
\* and so is the empty list of a failed request.
AllDesksAnswer(q, result) ==
    /\ searchAsks[q] > 0
    /\ searchAsks' = Done(searchAsks, q)
    /\ allDesks' = result
    /\ Render(q)
    /\ UNCHANGED <<page, input, body, cached, wait, stray, userAsks, listAsks>>

\* The people found for q are listed in the box there is.
UsersAnswer(q, result) ==
    /\ userAsks[q] > 0
    /\ userAsks' = Done(userAsks, q)
    /\ listed' = IF page = "users" /\ listed # NoElement THEN result ELSE listed
    /\ UNCHANGED <<page, input, body, badges, allDesks, cached, wait,
                   stray, searchAsks, roomAsks, listAsks>>

\* Mutant: the answer goes to the cache only.
RoomsAnswer_CacheOnly(m) ==
    /\ roomAsks[m] > 0
    /\ roomAsks' = Done(roomAsks, m)
    /\ cached' = cached \cup {m}
    /\ UNCHANGED <<page, input, listed, body, badges, allDesks, wait, stray,
                   searchAsks, userAsks, listAsks>>

\* The badges of map m are filled in the list there is, by the map they
\* carry; a failed request leaves an empty status in the cache.
RoomsAnswer(m) ==
    /\ roomAsks[m] > 0
    /\ roomAsks' = Done(roomAsks, m)
    /\ cached' = cached \cup {m}
    /\ badges' = badges \ {m}
    /\ UNCHANGED <<page, input, listed, body, allDesks, wait, stray, searchAsks,
                   userAsks, listAsks>>

-----------------------------------------------------------------------------
PaneAnswers ==
    \/ \E s \in Sections : SectionAnswer(s, s) \/ SectionAnswer(s, Failed)
    \/ \E q \in Queries : \/ AllDesksAnswer(q, "desks") \/ AllDesksAnswer(q, "empty")
                          \/ UsersAnswer(q, q) \/ UsersAnswer(q, Failed)
    \/ \E m \in RoomMaps : RoomsAnswer(m)

PanesNext ==
    \/ \E p \in Pages : OpenPane(p)
    \/ \E q \in Texts : TypeQuery(q)
    \/ Debounce
    \/ \E p \in SearchPages, q \in Queries : StrayDebounce(p, q)
    \/ PaneAnswers

PanesSpec == PanesInit /\ [][PanesNext]_panesVars

-----------------------------------------------------------------------------
(* Properties.                                                             *)

\* A loading notice always has a request behind it whose answer or failure
\* will replace it: nothing loads for ever because its answer was dropped.
SpinnerIsAwaited ==
    /\ body = Spinner => listAsks[page] > 0
    /\ page = "search" /\ listed = Spinner => \E q \in Queries : searchAsks[q] > 0
    /\ page = "users" /\ listed = Spinner => \E q \in Queries : userAsks[q] > 0

\* A room badge that still reads "..." belongs to a map that was asked for,
\* though the result list was rendered anew since other requests were sent.
BadgeIsAwaited == \A m \in badges : roomAsks[m] > 0

\* Whatever page an answer finds, nothing it should have ended goes on
\* (renderAdminSection, runGlobalSearch, ensureMeeting).
NoticesAreAwaited == PanesTypeOK /\ SpinnerIsAwaited /\ BadgeIsAwaited

\* mobile-app.js:690 says of the search box that "results already update
\* live while typing": with nothing under way, the list answers the box.
ListAnswersBox ==
    (/\ page \in SearchPages /\ wait = Short /\ listed \in Queries
     /\ \A q \in Queries : /\ searchAsks[q] = 0 /\ userAsks[q] = 0
                           /\ \A p \in SearchPages : stray[<<p, q>>] = 0)
    => listed = input
=============================================================================
