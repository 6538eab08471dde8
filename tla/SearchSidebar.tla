--------------------------- MODULE SearchSidebar ---------------------------
(***************************************************************************)
(* The search of the map page (src/internal/web/static/user.js): the       *)
(* results sidebar, and the marks it leaves on the map - orange matches,   *)
(* the other desks dimmed, a fog around one desk.  The marks are written   *)
(* into the drawn desks, which a refresh of the map replaces.  The rows    *)
(* stay in a sidebar that is closed, and are within reach of the mouse     *)
(* until it has slid away; a row that is replaced is never left.           *)
(*                                                                         *)
(* A list of results from other locations is abstracted to the text it     *)
(* answers.                                                                *)
(***************************************************************************)
EXTENDS Naturals, FiniteSets

CONSTANTS
    Desks,      \* desks that may be on the map
    Unlisted,   \* desks of a class that resetColors does not name: free
                \* bookable desks and hot seats, items of custom types
    Texts,      \* search texts, trimmed and not empty
    Hits(_)     \* the desks a text matches

NoText == ""
NoDesk == "none"

ASSUME SearchAssumption ==
    /\ NoText \notin Texts /\ NoDesk \notin Desks
    /\ Unlisted \subseteq Desks
    /\ \A t \in Texts : Hits(t) \subseteq Desks

VARIABLES
    drawn,       \* the desks on the map
    searchbox,   \* the text in the search box
    sidebar,     \* "open", "closing" while it slides away, or "closed"
    localRows,   \* searchLocalResults, by desk
    globalRows,  \* the text that searchGlobalResults answer, NoText without
    selected,    \* searchSelectedId; the row's highlight is left out
    hovered,     \* the row under the mouse, whose onmouseleave is to come
    previewed,   \* history: the row entered last, if it was not left or clicked
    orange,      \* desks coloured, with their caption, as matches
    dimmed,      \* desks faded because they are none
    fog,         \* the desk the fog surrounds
    wiped,       \* history: closing or drawing took all marks since the last
                 \* search, and "then" a row was entered, left or clicked
    globalAsks   \* searches of other locations under way

searchVars == <<drawn, searchbox, sidebar, localRows, globalRows,
                selected, hovered, previewed, orange, dimmed, fog,
                wiped, globalAsks>>
marks == <<orange, dimmed, fog, previewed, wiped>>
results == <<sidebar, localRows, globalRows, globalAsks>>

SearchTypeOK ==
    /\ drawn \subseteq Desks /\ localRows \subseteq Desks
    /\ {searchbox, globalRows} \subseteq Texts \cup {NoText}
    /\ sidebar \in {"open", "closing", "closed"} /\ wiped \in {"no", "yes", "then"}
    /\ {selected, hovered, previewed, fog} \subseteq Desks \cup {NoDesk}
    /\ orange \subseteq drawn /\ dimmed \subseteq drawn
    /\ globalAsks \subseteq Texts

SearchInit ==
    /\ drawn = Desks
    /\ searchbox = NoText /\ sidebar = "closed"
    /\ localRows = {} /\ globalRows = NoText
    /\ selected = NoDesk /\ hovered = NoDesk
    /\ orange = {} /\ dimmed = {} /\ fog = NoDesk
    /\ previewed = NoDesk /\ wiped = "yes" /\ globalAsks = {}

-----------------------------------------------------------------------------
\* The search box is edited.
TypeText(t) ==
    /\ t # searchbox
    /\ searchbox' = t
    /\ UNCHANGED <<drawn, selected, hovered, marks, results>>

\* searchLocaldesks: the desks on the map that match.
Matching(t) == Hits(t) \cap drawn'

\* Mutant: desks that left the map are dimmed, too.
ApplySearchDimming_OldDesks(matches) ==
    dimmed' = IF matches = {} THEN {} ELSE drawn \ matches

\* applySearchDimming: every desk but the matches, or none without a match.
ApplySearchDimming(matches) == dimmed' = IF matches = {} THEN {} ELSE drawn' \ matches

\* searchLocaldesks: rows, colours and dimming of the matches.
SearchLocaldesks(t, left) ==
    /\ localRows' = Matching(t)
    /\ orange' = left \cup Matching(t)
    /\ ApplySearchDimming(Matching(t))

\* searchGlobaldesks: a request for the other locations.
SearchGlobaldesks(t) == globalAsks' = globalAsks \cup {t}

\* resetColors: no colours but those of the classes it does not name, no
\* dimming, no fog, an empty search box.
StillOrange(was) == was \cap Unlisted
ResetColors ==
    /\ searchbox' = NoText
    /\ fog' = NoDesk

\* Mutant: closing only shuts the sidebar.
CloseSearchSidebar_KeepsMarks(left) ==
    /\ sidebar' = IF sidebar = "closed" THEN "closed" ELSE "closing"
    /\ wiped' = "yes"
    /\ UNCHANGED <<orange, dimmed, localRows, globalRows, selected, hovered, globalAsks>>

\* closeSearchSidebar, after resetColors: the results stay in memory, and their
\* rows in the sidebar, one of them perhaps under the mouse.
CloseSearchSidebar(left) ==
    /\ sidebar' = IF sidebar = "closed" THEN "closed" ELSE "closing"
    /\ orange' = left /\ dimmed' = {} /\ wiped' = "yes"
    /\ UNCHANGED <<localRows, globalRows, selected, hovered, globalAsks>>

\* searchDesks, from a map with these desks orange: the text in the box is
\* searched and all rows replaced, or the sidebar closed when it is empty.
SearchDesks(was) ==
    /\ ResetColors /\ previewed' = NoDesk
    /\ IF searchbox = NoText
       THEN CloseSearchSidebar(StillOrange(was))
       ELSE /\ sidebar' = "open" /\ wiped' = "no"
            /\ globalRows' = NoText /\ selected' = NoDesk /\ hovered' = NoDesk
            /\ SearchLocaldesks(searchbox, StillOrange(was))
            /\ SearchGlobaldesks(searchbox)

\* The button, or the Enter key.
SearchButton == UNCHANGED drawn /\ SearchDesks(orange)

\* The transition of the sidebar's width has ended.
SlidAway ==
    /\ sidebar = "closing" /\ sidebar' = "closed"
    /\ UNCHANGED <<drawn, searchbox, localRows, globalRows, globalAsks, selected, hovered, marks>>

\* closeSearchAndClear: the cross of the sidebar is clicked.
CloseSearchAndClear ==
    /\ sidebar # "closed" /\ hovered = NoDesk
    /\ ResetColors /\ previewed' = NoDesk
    /\ CloseSearchSidebar(StillOrange(orange))
    /\ UNCHANGED drawn

\* renderSearchSidebar for the results of other locations, whichever search
\* they answer: the rows are built anew, and the one under the mouse
\* is gone without having been left.
GlobalAnswer(t) ==
    /\ t \in globalAsks
    /\ globalAsks' = globalAsks \ {t}
    /\ globalRows' = t
    /\ hovered' = NoDesk
    /\ UNCHANGED <<drawn, searchbox, sidebar, localRows, selected, marks>>

\* A failed search of other locations has no handler.
GlobalFail(t) ==
    /\ t \in globalAsks
    /\ globalAsks' = globalAsks \ {t}
    /\ UNCHANGED <<drawn, searchbox, sidebar, localRows, globalRows, selected, hovered, marks>>

-----------------------------------------------------------------------------
(* Rows, of a sidebar that is open or sliding away.                        *)

\* What a row does to the marks comes after what closing or drawing did.
RowUsed == wiped' = IF wiped = "yes" THEN "then" ELSE wiped

\* isolateDeskOnMap: of the matches only this one keeps its colour.
IsolateDeskOnMap(d) == orange' = (orange \ localRows) \cup ({d} \cap drawn)

\* showSearchFog: around a desk that is on the map, else none.
ShowSearchFog(d) == fog' = IF d \in drawn THEN d ELSE NoDesk

\* Mutant: the matches are coloured, the others no longer dimmed.
ShowAllSearchResultsOnMap_NoDimming ==
    /\ orange' = orange \cup (localRows \cap drawn)
    /\ dimmed' = {}

\* showAllSearchResultsOnMap: colour and dimming of all matches.
ShowAllSearchResultsOnMap ==
    /\ orange' = orange \cup (localRows \cap drawn)
    /\ dimmed' = IF localRows = {} THEN {} ELSE drawn \ localRows

\* Mutant: taking the selection back leaves the desk isolated.
SelectSearchResult_StaysIsolated(d) ==
    /\ sidebar # "closed" /\ d \in localRows /\ hovered = d
    /\ previewed' = NoDesk /\ RowUsed
    /\ IF selected = d
       THEN /\ selected' = NoDesk
            /\ UNCHANGED <<orange, dimmed>> /\ fog' = NoDesk
       ELSE /\ selected' = d
            /\ IsolateDeskOnMap(d) /\ ShowSearchFog(d)
            /\ UNCHANGED dimmed
    /\ UNCHANGED <<drawn, searchbox, hovered, results>>

\* selectSearchResult: a click selects a row, a second one takes it back.
SelectSearchResult(d) ==
    /\ sidebar # "closed" /\ d \in localRows /\ hovered = d
    /\ previewed' = NoDesk /\ RowUsed
    /\ IF selected = d
       THEN /\ selected' = NoDesk
            /\ ShowAllSearchResultsOnMap /\ fog' = NoDesk
       ELSE /\ selected' = d
            /\ IsolateDeskOnMap(d) /\ ShowSearchFog(d)
            /\ UNCHANGED dimmed
    /\ UNCHANGED <<drawn, searchbox, hovered, results>>

\* hoverSearchResult: the row under the mouse is previewed.
HoverSearchResult(d) ==
    /\ sidebar # "closed" /\ d \in localRows /\ hovered = NoDesk
    /\ hovered' = d /\ previewed' = d /\ RowUsed
    /\ IsolateDeskOnMap(d) /\ ShowSearchFog(d)
    /\ UNCHANGED <<drawn, searchbox, selected, dimmed, results>>

\* unhoverSearchResult: back to the selected row, or to all matches, also when
\* the sidebar slides away from under the mouse.
UnhoverSearchResult ==
    /\ hovered # NoDesk
    /\ hovered' = NoDesk /\ previewed' = NoDesk /\ RowUsed
    /\ IF selected # NoDesk
       THEN IsolateDeskOnMap(selected) /\ ShowSearchFog(selected) /\ UNCHANGED dimmed
       ELSE ShowAllSearchResultsOnMap /\ fog' = NoDesk
    /\ UNCHANGED <<drawn, searchbox, selected, results>>

-----------------------------------------------------------------------------
\* updateDesks with new data: all desks are drawn anew, without marks, and a
\* text in the search box is searched.
Refresh(desks) ==
    /\ drawn' = desks
    /\ IF searchbox = NoText
       THEN /\ orange' = {} /\ dimmed' = {} /\ fog' = NoDesk
            /\ previewed' = NoDesk /\ wiped' = "yes"
            /\ UNCHANGED <<searchbox, selected, hovered, results>>
       ELSE SearchDesks({})

SearchNext ==
    \/ \E t \in Texts \cup {NoText} : TypeText(t)
    \/ SearchButton \/ CloseSearchAndClear \/ SlidAway
    \/ \E t \in Texts : GlobalAnswer(t) \/ GlobalFail(t)
    \/ \E d \in Desks : SelectSearchResult(d) \/ HoverSearchResult(d)
    \/ UnhoverSearchResult
    \/ \E desks \in SUBSET Desks : Refresh(desks)

SearchSpec == SearchInit /\ [][SearchNext]_searchVars

-----------------------------------------------------------------------------
(* Properties.                                                             *)

\* The coloured desks, without those that resetColors forgot earlier.
Coloured == orange \ (Unlisted \ localRows)

\* The marks of one row, or of all.
MarksOf(row) ==
    IF row = NoDesk
    THEN Coloured = localRows \cap drawn /\ fog = NoDesk
    ELSE Coloured = {row} \cap drawn /\ fog = IF row \in drawn THEN row ELSE NoDesk

\* No marks but the colours that resetColors forgets.
Clean == orange \subseteq Unlisted /\ dimmed = {} /\ fog = NoDesk

\* The marks on the map say what the rows say, whatever was hovered, selected,
\* searched or drawn before: the previewed row, else the selected one, else all
\* matches are coloured, and the fog is around that one row's desk.  Closing the
\* sidebar or drawing the map leaves none of them, until a row is used again.
MarksFollowRows ==
    IF wiped = "yes" THEN Clean
    ELSE MarksOf(IF previewed # NoDesk THEN previewed ELSE selected)

\* The dimmed desks are exactly those that are no match, whatever rows were
\* hovered, selected and left, or none after closing or drawing.
OthersDimmed ==
    \/ dimmed = IF localRows = {} THEN {} ELSE drawn \ localRows
    \/ wiped # "no" /\ dimmed = {}

\* The marks on the map are those of the rows, or none (searchDesks,
\* hoverSearchResult, selectSearchResult, closeSearchSidebar).
MarksInStep == SearchTypeOK /\ MarksFollowRows /\ OthersDimmed

\* user.js:1973-1975, "Clear any search dimming / fog spotlight from a previous
\* search", suggests that nothing of it is on the map once the sidebar is closed.
ClosedIsClean == sidebar = "closed" => Clean

\* user.js:2389-2390: "Mouse leaves a row: restore the persistent state".
PreviewEndsWithHover == previewed = NoDesk \/ hovered = previewed

\* user.js:2346-2348 says that the dimming is "Re-applied after each desk
\* refresh because the desk list is re-rendered when its data changes".
DimmingSurvives ==
    sidebar = "open" /\ localRows \cap drawn # {} => dimmed = drawn \ localRows
=============================================================================
