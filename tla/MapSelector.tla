---------------------------- MODULE MapSelector ----------------------------
(***************************************************************************)
(* The full-screen map selector of the mobile app and its entry in the     *)
(* browser history (src/internal/web/static/m/mobile-app.js).  Opening the *)
(* selector pushes an entry, so that the back button closes it; closing it *)
(* by hand asks the browser to go back, which happens some time later, and *)
(* the slide-down animation ends in a timeout of its own.                  *)
(*                                                                         *)
(* The history is the sequence of entries and the index of the current     *)
(* one.  An entry records the view its address names and whether it is the *)
(* one the selector pushed.                                                *)
(***************************************************************************)
EXTENDS Naturals, Sequences

CONSTANTS
    Views,       \* views of the tab bar, "map" among them
    MaxHistory,  \* bound: entries of the history
    MaxPending   \* bound: history.back() calls, and timeouts, under way

ASSUME SelectorAssumption ==
    /\ "map" \in Views
    /\ MaxHistory \in Nat \ {0}
    /\ MaxPending \in Nat \ {0}

VARIABLES
    entries,  \* the session history of the page
    index,    \* the current entry
    pushed,   \* mapselPushed
    opened,     \* class "open" of #m_mapselector
    shown,    \* #m_mapselector has no hidden attribute (and has its rows)
    backs,    \* history.back() calls the browser has yet to perform
    hides     \* 440 ms timeouts that will hide the selector

selectorVars == <<entries, index, pushed, opened, shown, backs, hides>>

Entry == [view : Views, mapsel : BOOLEAN]

SelectorTypeOK ==
    /\ entries \in Seq(Entry)
    /\ Len(entries) \in 1..MaxHistory
    /\ index \in 1..Len(entries)
    /\ pushed \in BOOLEAN /\ opened \in BOOLEAN /\ shown \in BOOLEAN
    /\ backs \in 0..MaxPending /\ hides \in 0..MaxPending

SelectorInit ==
    /\ entries = <<[view |-> "map", mapsel |-> FALSE]>>
    /\ index = 1
    /\ pushed = FALSE /\ opened = FALSE /\ shown = FALSE
    /\ backs = 0 /\ hides = 0

\* currentRoute: the view the address of the current entry names.
CurrentView == entries[index].view

\* pushState and a new location.hash drop the entries ahead.
Push(stack, e) ==
    /\ index < MaxHistory
    /\ entries' = Append(SubSeq(stack, 1, index), e)
    /\ index' = index + 1

-----------------------------------------------------------------------------
\* Mutant: the slide-down starts no timeout.
HideAnimated_NoTimeout ==
    IF opened
    THEN /\ opened' = FALSE
         /\ UNCHANGED <<shown, hides>>
    ELSE /\ shown' = FALSE
         /\ UNCHANGED <<opened, hides>>

\* hideMapSelector(false): an open selector slides down, a closed one is
\* hidden at once.
HideAnimated ==
    IF opened
    THEN /\ hides < MaxPending
         /\ opened' = FALSE
         /\ hides' = hides + 1
         /\ UNCHANGED shown
    ELSE /\ shown' = FALSE
         /\ UNCHANGED <<opened, hides>>

\* openMapSelector: rows are written, the overlay shown, an entry pushed.
OpenMapSelector ==
    /\ opened' = TRUE
    /\ shown' = TRUE
    /\ pushed' = TRUE
    /\ IF pushed
       THEN UNCHANGED <<entries, index>>
       ELSE Push(entries, [view |-> CurrentView, mapsel |-> TRUE])
    /\ UNCHANGED <<backs, hides>>

\* closeMapSelector(): pop our entry, and let popstate hide the selector.
CloseMapSelector ==
    IF pushed
    THEN /\ backs < MaxPending
         /\ pushed' = FALSE
         /\ backs' = backs + 1
         /\ UNCHANGED <<entries, index, opened, shown, hides>>
    ELSE /\ HideAnimated
         /\ UNCHANGED <<entries, index, pushed, backs>>

\* The map tab, tapped on the map view, opens or closes the selector.
TapMapTab ==
    /\ CurrentView = "map"
    /\ IF opened THEN CloseMapSelector ELSE OpenMapSelector

\* A row of the list closes it (and loads the map, see MobileMap).
TapRow ==
    /\ shown
    /\ CloseMapSelector

\* Mutant: the tab is switched without closing the selector.
TapTab_LeavesOpen(v) ==
    /\ v # CurrentView
    /\ pushed' = FALSE
    /\ Push(entries, [view |-> v, mapsel |-> FALSE])
    /\ UNCHANGED <<opened, shown, backs, hides>>

\* A tab of another view: closeMapSelector(true) turns our entry into an
\* ordinary one and hides the selector, then the hash changes.
TapTab(v) ==
    /\ v # CurrentView
    /\ pushed' = FALSE
    /\ Push(IF pushed THEN [entries EXCEPT ![index].mapsel = FALSE] ELSE entries,
            [view |-> v, mapsel |-> FALSE])
    /\ opened' = FALSE
    /\ shown' = FALSE
    /\ UNCHANGED <<backs, hides>>

\* Mutant: the popped entry is still taken for pushed.
PopState_KeepsPushed ==
    /\ UNCHANGED pushed
    /\ IF opened \/ shown THEN HideAnimated ELSE UNCHANGED <<opened, shown, hides>>

\* popstate: a selector that is open or not hidden is dismissed.
PopState ==
    IF opened \/ shown
    THEN pushed' = FALSE /\ HideAnimated
    ELSE UNCHANGED <<pushed, opened, shown, hides>>

\* Mutant: going back is possible at the first entry.
GoBack_PastFirst ==
    /\ backs > 0
    /\ backs' = backs - 1
    /\ index' = index - 1
    /\ PopState
    /\ UNCHANGED entries

\* The browser performs a history.back(); at the first entry of the page
\* there is nothing to go back to.
GoBack ==
    /\ backs > 0
    /\ backs' = backs - 1
    /\ UNCHANGED entries
    /\ IF index > 1
       THEN index' = index - 1 /\ PopState
       ELSE UNCHANGED <<index, pushed, opened, shown, hides>>

\* The back and forward buttons.
BackButton ==
    /\ index > 1
    /\ index' = index - 1
    /\ PopState
    /\ UNCHANGED <<entries, backs>>

ForwardButton ==
    /\ index < Len(entries)
    /\ index' = index + 1
    /\ PopState
    /\ UNCHANGED <<entries, backs>>

\* The end of the animation hides the element, open again or not.
HideTimeout ==
    /\ hides > 0
    /\ hides' = hides - 1
    /\ shown' = FALSE
    /\ UNCHANGED <<entries, index, pushed, opened, backs>>

SelectorNext ==
    \/ TapMapTab \/ TapRow
    \/ \E v \in Views : TapTab(v)
    \/ GoBack \/ BackButton \/ ForwardButton
    \/ HideTimeout

SelectorSpec == SelectorInit /\ [][SelectorNext]_selectorVars

-----------------------------------------------------------------------------
(* Properties.                                                             *)

\* Whenever the selector is open and no traversal is under way, the current
\* entry is the one it pushed and the entry below is the same view: the back
\* button closes the selector and leaves the map where it is.
BackDismisses ==
    opened /\ backs = 0 =>
        /\ pushed
        /\ entries[index].mapsel
        /\ index > 1 /\ entries[index - 1].view = CurrentView

\* A selector that is no longer open but still covers the map is always
\* about to be hidden.
ClosingIsHidden == shown /\ ~opened => hides > 0

\* The selector belongs to the map view: taps, traversals and timeouts never
\* leave it open over another view.
OnlyOverTheMap == opened => CurrentView = "map" \/ backs > 0

\* Screen, script and history keep step, though traversals and timeouts come
\* late (openMapSelector, closeMapSelector, popstate).
SelectorInStep == SelectorTypeOK /\ BackDismisses /\ ClosingIsHidden /\ OnlyOverTheMap

\* mobile-app.js:308 says that switching tabs collapses the pushed entry
\* into the current one "to avoid a dangling back step": going back from an
\* ordinary entry always leads to another view.
NoDanglingBack ==
    backs = 0 /\ index > 1 /\ ~entries[index].mapsel
        => entries[index - 1].view # CurrentView

\* mobile-app.js:238 describes a "full-screen map picker, opened by tapping
\* the Map tab": an open picker is on the screen.
OpenedIsShown == opened => shown
=============================================================================
