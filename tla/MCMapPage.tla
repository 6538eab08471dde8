----------------------------- MODULE MCMapPage -----------------------------
(* The map page and its search sidebar for TLC.  The sidebar sees of the     *)
(* page only that the map is drawn anew, which its module may do at any      *)
(* time.  So each behaviour is first one of the sidebar, on a page that      *)
(* rests, and from a reload of the page on one of the page.                  *)
EXTENDS MapPage, SearchSidebar

VARIABLE part   \* the module that moves

TwoDates == {"today", "later"}
TwoUsers == {"me", "colleague"}
TwoStatuses == {"available", "booked"}

ThreeDesks == {"d1", "d2", "d3"}
FreeBooking == {"d2"}
TwoTexts == {"ann", "an"}
Found(t) == IF t = "ann" THEN {"d1"} ELSE {"d1", "d2"}

\* At most one desk is missing on the map.
OneMissing == Cardinality(drawn) >= 2

bothVars == <<pageVars, searchVars, part>>

BothInit ==
    /\ part = "sidebar"
    /\ PageInit /\ SearchInit

\* The sidebar is closed and the box empty, as at first.
Reload ==
    /\ part = "sidebar" /\ part' = "page"
    /\ drawn' = Desks /\ searchbox' = NoText
    /\ sidebar' = "closed" /\ localRows' = {} /\ globalRows' = NoText
    /\ selected' = NoDesk /\ hovered' = NoDesk
    /\ orange' = {} /\ dimmed' = {} /\ fog' = NoDesk
    /\ previewed' = NoDesk /\ wiped' = "yes" /\ globalAsks' = {}
    /\ UNCHANGED pageVars

BothNext ==
    \/ part = "sidebar" /\ SearchNext /\ UNCHANGED <<pageVars, part>>
    \/ part = "page" /\ PageNext /\ UNCHANGED <<searchVars, part>>
    \/ Reload

\* PageFairness, of the page when it is the one that moves.
BothFairness ==
    /\ WF_bothVars(Reload)
    /\ \A p \in Polls : WF_pageVars(part = "page" /\ Poll(p))
    /\ \A d \in Dates : SF_pageVars(part = "page" /\ DesksAnswer(d))
    /\ \A force \in BOOLEAN : SF_pageVars(part = "page" /\ RoomsAnswer(force))
    /\ SF_pageVars(part = "page" /\ BookingsAnswer)

BothFairSpec == BothInit /\ [][BothNext]_bothVars /\ BothFairness
=============================================================================
