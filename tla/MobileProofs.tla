---------------------------- MODULE MobileProofs ----------------------------
(***************************************************************************)
(* What the mobile app guarantees: its map selector (MapSelector) for any  *)
(* views and any length of the history, its map (MobileMap) for any maps,  *)
(* its panes (MobilePanes) for any sections, texts and rooms, and its      *)
(* service worker (OfflineShell) for any number of deployments; each with  *)
(* any number of requests and timeouts under way.                          *)
(***************************************************************************)
EXTENDS MapSelector, MobileMap, MobilePanes, OfflineShell,
        SequenceTheorems, TLAPS

-----------------------------------------------------------------------------
(* The map selector                                                        *)

(* The inductive invariant.  BackDismisses speaks of moments without a     *)
(* traversal; what it says of the history holds while one is under way as  *)
(* well, and whoever forgot the pushed entry has asked for a traversal.    *)

\* An open selector is over the map, and its entry over one of the map.
OpenOverMap ==
    opened => /\ index > 1
              /\ entries[index] = [view |-> "map", mapsel |-> TRUE]
              /\ entries[index - 1].view = "map"

SelectorIInv ==
    /\ SelectorTypeOK
    /\ OpenOverMap
    /\ pushed => opened
    /\ opened /\ ~pushed => backs > 0
    /\ ClosingIsHidden

-----------------------------------------------------------------------------
(* Lemmas                                                                  *)

\* Pushing drops what is ahead, keeps the current entry and adds one.
LEMMA PushProperties ==
    ASSUME NEW stack \in Seq(Entry), Len(stack) = Len(entries), SelectorTypeOK,
           NEW e \in Entry, Push(stack, e)
    PROVE  /\ entries' \in Seq(Entry)
           /\ index' = index + 1 /\ Len(entries') = index' /\ index' \in 1..MaxHistory
           /\ entries'[index'] = e
           /\ entries'[index] = stack[index]
<1> DEFINE kept == SubSeq(stack, 1, index)
<1>1. index \in 1..Len(stack) /\ index \in Nat /\ index < MaxHistory /\ MaxHistory \in Nat
  BY SelectorAssumption DEF SelectorTypeOK, Push
<1>2. \A i \in 1..index : stack[i] \in Entry
  BY <1>1, ElementOfSeq
<1>3. kept \in Seq(Entry) /\ Len(kept) = index /\ kept[index] = stack[index]
  <2>1. /\ kept \in Seq(Entry) /\ Len(kept) = IF 1 <= index THEN index - 1 + 1 ELSE 0
        /\ \A i \in 1..index - 1 + 1 : kept[i] = stack[1 + i - 1]
    BY <1>1, <1>2, SubSeqProperties
  <2> QED BY <2>1, <1>1
<1>4. entries' = Append(kept, e) /\ index' = index + 1
  BY DEF Push
<1> HIDE DEF kept
<1> QED BY <1>1, <1>3, <1>4

\* The current entry is one of the map's when the selector is opened there.
LEMMA CurrentEntry ==
    ASSUME SelectorTypeOK
    PROVE  entries[index] \in Entry /\ CurrentView \in Views
<1>1. entries \in Seq(Entry) /\ index \in 1..Len(entries)
  BY DEF SelectorTypeOK
<1>2. entries[index] \in Entry
  BY <1>1, ElementOfSeq
<1> QED BY <1>2 DEF CurrentView, Entry

\* Hiding leaves nothing open; what is still on the screen has a timeout.
LEMMA HideProperties ==
    ASSUME SelectorTypeOK, ClosingIsHidden, HideAnimated
    PROVE  /\ opened' = FALSE /\ shown' \in BOOLEAN
           /\ hides' \in 0..MaxPending
           /\ shown' => hides' > 0
<1>1. hides \in Nat /\ MaxPending \in Nat /\ hides <= MaxPending /\ shown \in BOOLEAN
  BY SelectorAssumption DEF SelectorTypeOK
<1>2. CASE opened
  <2>1. opened' = FALSE /\ hides' = hides + 1 /\ hides < MaxPending /\ shown' = shown
    BY <1>2 DEF HideAnimated
  <2> QED BY <1>1, <2>1
<1>3. CASE ~opened
  <2>1. shown' = FALSE /\ opened' = opened /\ hides' = hides
    BY <1>3 DEF HideAnimated
  <2>2. opened = FALSE
    BY <1>3, Zenon DEF SelectorTypeOK
  <2>3. opened' = FALSE
    BY <2>1, <2>2, Zenon
  <2>4. shown' \in BOOLEAN /\ ~shown'
    BY <2>1
  <2> QED BY <1>1, <2>1, <2>3, <2>4
<1> QED BY <1>2, <1>3

\* A popped state leaves neither an open selector nor a pushed entry.
LEMMA PopProperties ==
    ASSUME SelectorIInv, PopState
    PROVE  /\ opened' = FALSE /\ pushed' = FALSE /\ shown' \in BOOLEAN
           /\ hides' \in 0..MaxPending
           /\ shown' => hides' > 0
<1>1. CASE opened \/ shown
  BY <1>1, HideProperties DEF SelectorIInv, PopState
<1>2. CASE ~(opened \/ shown)
  BY <1>2 DEF SelectorIInv, PopState, SelectorTypeOK
<1> QED BY <1>1, <1>2

\* Closing asks the browser to go back, or starts the animation.
LEMMA CloseKeepsInvariant ==
    ASSUME SelectorIInv, CloseMapSelector
    PROVE  SelectorIInv'
<1>1. CASE pushed
  <2>1. /\ pushed' = FALSE /\ backs' = backs + 1 /\ backs < MaxPending
        /\ UNCHANGED <<entries, index, opened, shown, hides>>
    BY <1>1 DEF CloseMapSelector
  <2>2. backs \in Nat /\ MaxPending \in Nat
    BY SelectorAssumption DEF SelectorIInv, SelectorTypeOK
  <2>3. SelectorTypeOK'
    <3>1. backs' \in 0..MaxPending
      BY <2>1, <2>2
    <3> QED BY <2>1, <3>1 DEF SelectorIInv, SelectorTypeOK
  <2>4. backs' > 0
    BY <2>1, <2>2
  <2>5. OpenOverMap' /\ ClosingIsHidden'
    BY <2>1 DEF SelectorIInv, OpenOverMap, ClosingIsHidden
  <2> QED BY <2>1, <2>3, <2>4, <2>5 DEF SelectorIInv
<1>2. CASE ~pushed
  <2>1. HideAnimated /\ UNCHANGED <<entries, index, pushed, backs>>
    BY <1>2 DEF CloseMapSelector
  <2>2. /\ opened' = FALSE /\ shown' \in BOOLEAN
        /\ hides' \in 0..MaxPending /\ (shown' => hides' > 0)
    BY <2>1, HideProperties DEF SelectorIInv
  <2> QED BY <1>2, <2>1, <2>2
      DEF SelectorIInv, SelectorTypeOK, OpenOverMap, ClosingIsHidden
<1> QED BY <1>1, <1>2

\* Opening, on the map only, pushes an entry of the map.
LEMMA OpenKeepsInvariant ==
    ASSUME SelectorIInv, CurrentView = "map", ~opened, OpenMapSelector
    PROVE  SelectorIInv'
<1> DEFINE e == [view |-> CurrentView, mapsel |-> TRUE]
<1>1. ~pushed
  BY DEF SelectorIInv
<1>2. Push(entries, e)
  BY <1>1 DEF OpenMapSelector
<1>3. e \in Entry
  BY CurrentEntry DEF SelectorIInv, Entry
<1>4. /\ entries' \in Seq(Entry)
      /\ index' = index + 1 /\ Len(entries') = index' /\ index' \in 1..MaxHistory
      /\ entries'[index'] = e /\ entries'[index] = entries[index]
  BY <1>2, <1>3, PushProperties DEF SelectorIInv, SelectorTypeOK
<1>5. /\ opened' = TRUE /\ shown' = TRUE /\ pushed' = TRUE
      /\ UNCHANGED <<backs, hides>>
  BY DEF OpenMapSelector
<1>6. index \in Nat \ {0}
  BY DEF SelectorIInv, SelectorTypeOK
<1>7. SelectorTypeOK'
  BY <1>4, <1>5, <1>6 DEF SelectorIInv, SelectorTypeOK
<1>8. OpenOverMap'
  BY <1>4, <1>6 DEF OpenOverMap, CurrentView
<1> QED BY <1>5, <1>7, <1>8 DEF SelectorIInv, ClosingIsHidden

LEMMA TapTabKeepsInvariant ==
    ASSUME SelectorIInv, NEW v \in Views, TapTab(v)
    PROVE  SelectorIInv'
<1> DEFINE stack == IF pushed THEN [entries EXCEPT ![index].mapsel = FALSE] ELSE entries
           e     == [view |-> v, mapsel |-> FALSE]
<1>1. stack \in Seq(Entry) /\ Len(stack) = Len(entries)
  <2>1. entries \in Seq(Entry) /\ index \in 1..Len(entries)
    BY DEF SelectorIInv, SelectorTypeOK
  <2>2. [entries[index] EXCEPT !.mapsel = FALSE] \in Entry
    BY CurrentEntry DEF SelectorIInv, Entry
  <2> QED BY <2>1, <2>2, ExceptSeq
<1>2. Push(stack, e) /\ e \in Entry
  BY DEF TapTab, Entry
<1> HIDE DEF stack, e
<1>3. /\ entries' \in Seq(Entry)
      /\ index' = index + 1 /\ Len(entries') = index' /\ index' \in 1..MaxHistory
  BY <1>1, <1>2, PushProperties DEF SelectorIInv
<1>4. /\ opened' = FALSE /\ shown' = FALSE /\ pushed' = FALSE
      /\ UNCHANGED <<backs, hides>>
  BY DEF TapTab
<1>5. SelectorTypeOK'
  <2>1. Len(entries') \in 1..MaxHistory /\ index' \in 1..Len(entries')
    BY <1>3
  <2>2. backs' \in 0..MaxPending /\ hides' \in 0..MaxPending
    BY <1>4 DEF SelectorIInv, SelectorTypeOK
  <2>3. {pushed', opened', shown'} \subseteq BOOLEAN
    BY <1>4
  <2> QED BY <1>3, <2>1, <2>2, <2>3 DEF SelectorTypeOK
<1>6. ~opened' /\ ~shown' /\ ~pushed'
  BY <1>4
<1> QED BY <1>5, <1>6 DEF SelectorIInv, OpenOverMap, ClosingIsHidden

\* Wherever a traversal leads, it closes the selector.
LEMMA TraversalKeepsInvariant ==
    ASSUME SelectorIInv, PopState, UNCHANGED entries,
           index' \in 1..Len(entries), backs' \in 0..MaxPending
    PROVE  SelectorIInv'
<1>1. /\ opened' = FALSE /\ pushed' = FALSE /\ shown' \in BOOLEAN
      /\ hides' \in 0..MaxPending /\ (shown' => hides' > 0)
  BY PopProperties
<1> QED BY <1>1 DEF SelectorIInv, SelectorTypeOK, OpenOverMap, ClosingIsHidden

-----------------------------------------------------------------------------
LEMMA SelectorInitInvariant == SelectorInit => SelectorIInv
<1> SUFFICES ASSUME SelectorInit PROVE SelectorIInv
  OBVIOUS
<1>1. [view |-> "map", mapsel |-> FALSE] \in Entry
  BY SelectorAssumption DEF Entry
<1>2. entries \in Seq(Entry) /\ Len(entries) = 1
  BY <1>1 DEF SelectorInit
<1>3. 1 \in 1..MaxHistory /\ 0 \in 0..MaxPending
  BY SelectorAssumption
<1>4. index = 1 /\ ~opened /\ ~shown /\ ~pushed /\ backs = 0 /\ hides = 0
  BY DEF SelectorInit
<1>5. SelectorTypeOK
  <2>1. {pushed, opened, shown} \subseteq BOOLEAN
    BY DEF SelectorInit
  <2>2. Len(entries) \in 1..MaxHistory /\ index \in 1..Len(entries)
    BY <1>2, <1>3, <1>4
  <2> QED BY <1>2, <1>3, <1>4, <2>1, <2>2 DEF SelectorTypeOK
<1> QED BY <1>4, <1>5 DEF SelectorIInv, OpenOverMap, ClosingIsHidden

LEMMA SelectorStep == SelectorIInv /\ [SelectorNext]_selectorVars => SelectorIInv'
<1> SUFFICES ASSUME SelectorIInv, [SelectorNext]_selectorVars PROVE SelectorIInv'
  OBVIOUS
<1>0. /\ index \in 1..Len(entries) /\ Len(entries) \in Nat
      /\ backs \in 0..MaxPending /\ hides \in 0..MaxPending /\ MaxPending \in Nat
  BY SelectorAssumption DEF SelectorIInv, SelectorTypeOK
<1>1. CASE TapMapTab
  BY <1>1, OpenKeepsInvariant, CloseKeepsInvariant DEF TapMapTab
<1>2. CASE TapRow
  BY <1>2, CloseKeepsInvariant DEF TapRow
<1>3. CASE \E v \in Views : TapTab(v)
  BY <1>3, TapTabKeepsInvariant
<1>4. CASE GoBack
  <2>1. backs' = backs - 1 /\ backs' \in 0..MaxPending /\ UNCHANGED entries
    BY <1>0, <1>4 DEF GoBack
  <2>2. CASE index > 1
    <3>1. PopState /\ index' \in 1..Len(entries)
      BY <1>0, <1>4, <2>2 DEF GoBack
    <3> QED BY <2>1, <3>1, TraversalKeepsInvariant
  <2>3. CASE ~(index > 1)
    <3>1. UNCHANGED <<index, pushed, opened, shown, hides>>
      BY <1>4, <2>3 DEF GoBack
    \* An open selector has an entry below its own.
    <3>2. ~opened
      BY <2>3 DEF SelectorIInv, OpenOverMap
    <3> QED BY <2>1, <3>1, <3>2
        DEF SelectorIInv, SelectorTypeOK, OpenOverMap, ClosingIsHidden
  <2> QED BY <2>2, <2>3
<1>5. CASE BackButton
  <2>1. PopState /\ index' \in 1..Len(entries) /\ UNCHANGED <<entries, backs>>
    BY <1>0, <1>5 DEF BackButton
  <2> QED BY <1>0, <2>1, TraversalKeepsInvariant
<1>6. CASE ForwardButton
  <2>1. PopState /\ index' \in 1..Len(entries) /\ UNCHANGED <<entries, backs>>
    BY <1>0, <1>6 DEF ForwardButton
  <2> QED BY <1>0, <2>1, TraversalKeepsInvariant
<1>7. CASE HideTimeout
  <2>1. hides' \in 0..MaxPending
    BY <1>0, <1>7 DEF HideTimeout
  <2> QED BY <1>7, <2>1
      DEF HideTimeout, SelectorIInv, SelectorTypeOK, OpenOverMap, ClosingIsHidden
<1>8. CASE UNCHANGED selectorVars
  BY <1>8 DEF selectorVars, SelectorIInv, SelectorTypeOK, OpenOverMap, ClosingIsHidden
<1> QED BY <1>1, <1>2, <1>3, <1>4, <1>5, <1>6, <1>7, <1>8 DEF SelectorNext

-----------------------------------------------------------------------------
(* Theorems                                                                *)

\* The inductive invariant holds: an open selector lies over the map with its
\* own entry current, whatever taps, traversals and timeouts came before.
THEOREM SelectorInvariance == SelectorSpec => []SelectorIInv
BY SelectorInitInvariant, SelectorStep, PTL DEF SelectorSpec

\* The history stays a sequence of entries within its bound.
THEOREM SelectorTyping == SelectorSpec => []SelectorTypeOK
<1>1. SelectorIInv => SelectorTypeOK
  BY DEF SelectorIInv
<1> QED BY <1>1, SelectorInvariance, PTL

\* For any history, the back button closes an open selector and leaves the
\* map where it is (openMapSelector, popstate).
THEOREM BackButtonDismisses == SelectorSpec => []BackDismisses
<1>1. SelectorIInv => BackDismisses
  <2> SUFFICES ASSUME SelectorIInv, opened, backs = 0 PROVE BackDismisses
    BY DEF BackDismisses
  <2> QED BY DEF SelectorIInv, OpenOverMap, BackDismisses, CurrentView
<1> QED BY <1>1, SelectorInvariance, PTL

\* A closed selector that still covers the map has a timeout that hides it
\* (hideMapSelector), however many animations overlap.
THEOREM ClosedIsHiddenLater == SelectorSpec => []ClosingIsHidden
<1>1. SelectorIInv => ClosingIsHidden
  BY DEF SelectorIInv
<1> QED BY <1>1, SelectorInvariance, PTL

\* The selector is never open over another view than the map.
THEOREM OverTheMapOnly == SelectorSpec => []OnlyOverTheMap
<1>1. SelectorIInv => OnlyOverTheMap
  BY DEF SelectorIInv, OpenOverMap, OnlyOverTheMap, CurrentView
<1> QED BY <1>1, SelectorInvariance, PTL

\* Screen, script and history keep step in every order of taps, traversals
\* and timeouts.
THEOREM SelectorKeepsStep == SelectorSpec => []SelectorInStep
<1>1. SelectorTypeOK /\ BackDismisses /\ ClosingIsHidden /\ OnlyOverTheMap
        => SelectorInStep
  BY DEF SelectorInStep
<1> QED BY <1>1, SelectorTyping, BackButtonDismisses, ClosedIsHiddenLater,
           OverTheMapOnly, PTL

-----------------------------------------------------------------------------
(* Counts of requests and timeouts                                         *)

\* Counts that stay within their bound.
LEMMA CountUp ==
    ASSUME NEW S, NEW n \in Nat, NEW f \in [S -> 0..n], NEW s \in S, f[s] < n
    PROVE  [f EXCEPT ![s] = @ + 1] \in [S -> 0..n]
<1>1. f[s] + 1 \in 0..n
  BY f[s] \in 0..n
<1> QED BY <1>1

LEMMA CountDown ==
    ASSUME NEW S, NEW n \in Nat, NEW f \in [S -> 0..n], NEW s \in S, f[s] > 0
    PROVE  [f EXCEPT ![s] = @ - 1] \in [S -> 0..n]
<1>1. f[s] - 1 \in 0..n
  BY f[s] \in 0..n
<1> QED BY <1>1

-----------------------------------------------------------------------------
(* The map                                                                 *)

\* Markers are on the layer of a map view only; the poll that is referred to
\* lives; with the list of maps at hand, one of them is current.
MapIInv ==
    /\ MobileTypeOK /\ LayerMatchesList /\ LocatedAtMostOnce
    /\ view = "other" => drawn = NoMap
    /\ poll # NoMap => timers[poll] > 0
    /\ loaded => current \in Listed

LEMMA MapInitInvariant == MobileInit => MapIInv
<1> SUFFICES ASSUME MobileInit PROVE MapIInv
  OBVIOUS
<1>1. 1 \in 0..MaxAsks /\ 0 \in 0..MaxAsks /\ 0 \in 0..MaxTimers /\ 0 \in 0..MaxPicks
      /\ 0 \in StatusVersions
  BY MapsAssumption DEF StatusVersions
<1>2. MobileTypeOK
  BY <1>1, MapsAssumption DEF MobileInit, MobileTypeOK, NoRooms, NoSheet
<1> QED BY <1>2 DEF MobileInit, MapIInv, LayerMatchesList, LocatedAtMostOnce

\* Loading a map, in sight or not, ends the poll that is referred to.
LEMMA LoadProperties ==
    ASSUME MapIInv, NEW m \in Listed, LoadMap(m) \/ LoadMapElsewhere(m)
    PROVE  /\ current' = m /\ cookie' = m /\ poll' = NoMap
           /\ timers' \in [Listed -> 0..MaxTimers]
           /\ deskAsks' \in [Listed -> 0..MaxAsks]
<1>1. /\ timers \in [Listed -> 0..MaxTimers] /\ deskAsks \in [Listed -> 0..MaxAsks]
      /\ MaxTimers \in Nat /\ MaxAsks \in Nat
      /\ poll # NoMap => poll \in Listed /\ timers[poll] > 0
  BY MapsAssumption DEF MapIInv, MobileTypeOK
<1>2. timers' \in [Listed -> 0..MaxTimers]
  <2>1. CASE poll = NoMap
    BY <1>1, <2>1 DEF LoadMap, LoadMapElsewhere
  <2>2. CASE poll # NoMap
    <3>1. [timers EXCEPT ![poll] = @ - 1] \in [Listed -> 0..MaxTimers]
      BY <1>1, <2>2, CountDown
    <3>2. timers' = [timers EXCEPT ![poll] = @ - 1]
      BY <2>2 DEF LoadMap, LoadMapElsewhere
    <3> QED BY <3>1, <3>2
  <2> QED BY <2>1, <2>2
<1>3. deskAsks' \in [Listed -> 0..MaxAsks]
  <2>1. CASE LoadMap(m)
    BY <1>1, <2>1, CountUp DEF LoadMap
  <2>2. CASE LoadMapElsewhere(m)
    BY <1>1, <2>2 DEF LoadMapElsewhere
  <2> QED BY <2>1, <2>2
<1> QED BY <1>2, <1>3 DEF LoadMap, LoadMapElsewhere

\* What a (re)drawn map view needs: the map it goes to is a listed one.
LEMMA RenderProperties ==
    ASSUME MapIInv, NEW t \in Listed \cup {NoMap}, loaded => t \in Listed,
           \/ loaded /\ LoadMap(t) /\ UNCHANGED configAsks
           \/ /\ ~loaded /\ configAsks < MaxAsks /\ configAsks' = configAsks + 1
              /\ drawn' = NoMap
              /\ UNCHANGED <<current, cookie, timers, poll, deskAsks>>
    PROVE  /\ current' \in Listed \cup {NoMap} /\ cookie' \in Listed \cup {NoMap}
           /\ poll' \in Listed \cup {NoMap}
           /\ timers' \in [Listed -> 0..MaxTimers]
           /\ deskAsks' \in [Listed -> 0..MaxAsks] /\ configAsks' \in 0..MaxAsks
           /\ drawn' = NoMap
           /\ poll' # NoMap => timers'[poll'] > 0
           /\ loaded => current' \in Listed
<1>1. CASE loaded
  <2>1. LoadMap(t) /\ t \in Listed /\ configAsks' = configAsks
    BY <1>1
  <2>2. configAsks \in 0..MaxAsks
    BY DEF MapIInv, MobileTypeOK
  <2> QED BY <2>1, <2>2, LoadProperties DEF LoadMap
<1>2. CASE ~loaded
  <2>1. configAsks + 1 \in 0..MaxAsks
    BY <1>2, MapsAssumption DEF MapIInv, MobileTypeOK
  <2> QED BY <1>2, <2>1 DEF MapIInv, MobileTypeOK
<1> QED BY <1>1, <1>2

LEMMA TargetListed ==
    ASSUME MapIInv, NEW m
    PROVE  m \in Listed => Target(m) \in Listed
BY DEF Target

\* Another view takes the markers off; the map's begins without them.
LEMMA NavigateStep ==
    ASSUME MapIInv, NEW v \in {"map", "other"}, Navigate(v)
    PROVE  MapIInv'
<1>1. /\ view' = v /\ v \in {"map", "other"} /\ sheet' = NoSheet
      /\ NoSheet \in [map : Maps \cup {NoMap}, picked : Maps \cup {NoMap}]
      /\ UNCHANGED <<loaded, desks, rooms, status, hidden, meetAsks, pending,
                     locating, showing, picks, located>>
  BY DEF Navigate, NoSheet
<1>2. /\ current' \in Listed \cup {NoMap} /\ cookie' \in Listed \cup {NoMap}
      /\ poll' \in Listed \cup {NoMap}
      /\ timers' \in [Listed -> 0..MaxTimers]
      /\ deskAsks' \in [Listed -> 0..MaxAsks] /\ configAsks' \in 0..MaxAsks
      /\ drawn' = NoMap
      /\ poll' # NoMap => timers'[poll'] > 0
      /\ loaded => current' \in Listed
  <2>1. CASE v = "map"
    <3>1. PICK t : t = Target(current)
      OBVIOUS
    <3>2. loaded => t \in Listed
      BY <3>1, TargetListed DEF MapIInv
    <3>3. t \in Listed \cup {NoMap}
      BY <3>1 DEF Target, MapIInv, MobileTypeOK
    <3>4. \/ loaded /\ LoadMap(t) /\ UNCHANGED configAsks
          \/ /\ ~loaded /\ configAsks < MaxAsks /\ configAsks' = configAsks + 1
             /\ drawn' = NoMap
             /\ UNCHANGED <<current, cookie, timers, poll, deskAsks>>
      BY <2>1, <3>1 DEF Navigate, RenderMap
    <3> QED BY <3>2, <3>3, <3>4, RenderProperties
  <2>2. CASE v # "map"
    BY <2>2 DEF Navigate, MapIInv, MobileTypeOK
  <2> QED BY <2>1, <2>2
<1>3. MobileTypeOK'
  BY <1>1, <1>2 DEF MapIInv, MobileTypeOK
<1>4. LocatedAtMostOnce'
  BY <1>1 DEF MapIInv, LocatedAtMostOnce
<1> QED BY <1>1, <1>2, <1>3, <1>4 DEF MapIInv, LayerMatchesList

\* A picked result is one more, and takes the place of an earlier one.
LEMMA OpenResultStep ==
    ASSUME MapIInv, NEW m \in Maps, OpenSearchResult(m)
    PROVE  MapIInv'
<1>1. /\ view' = "map" /\ sheet' = NoSheet /\ pending' = m /\ picks' = picks + 1
      /\ NoSheet \in [map : Maps \cup {NoMap}, picked : Maps \cup {NoMap}]
      /\ UNCHANGED <<loaded, desks, rooms, status, hidden, meetAsks, locating,
                     showing, located>>
  BY DEF OpenSearchResult, NoSheet
<1>2. /\ current' \in Listed \cup {NoMap} /\ cookie' \in Listed \cup {NoMap}
      /\ poll' \in Listed \cup {NoMap}
      /\ timers' \in [Listed -> 0..MaxTimers]
      /\ deskAsks' \in [Listed -> 0..MaxAsks] /\ configAsks' \in 0..MaxAsks
      /\ drawn' = NoMap
      /\ poll' # NoMap => timers'[poll'] > 0
      /\ loaded => current' \in Listed
  <2>1. PICK t : t = IF m \in Listed THEN m ELSE current
    OBVIOUS
  <2>2. (loaded => t \in Listed) /\ t \in Listed \cup {NoMap}
    BY <2>1 DEF MapIInv, MobileTypeOK
  <2>3. \/ loaded /\ LoadMap(t) /\ UNCHANGED configAsks
        \/ /\ ~loaded /\ configAsks < MaxAsks /\ configAsks' = configAsks + 1
           /\ drawn' = NoMap
           /\ UNCHANGED <<current, cookie, timers, poll, deskAsks>>
    BY <2>1 DEF OpenSearchResult
  <2> QED BY <2>2, <2>3, RenderProperties
<1>3. picks' \in 0..MaxPicks
  BY MapsAssumption DEF OpenSearchResult, MapIInv, MobileTypeOK
<1>4. MobileTypeOK'
  BY <1>1, <1>2, <1>3 DEF MapIInv, MobileTypeOK
<1>5. LocatedAtMostOnce'
  <2>1. located <= picks /\ located \in Nat /\ picks \in Nat
    BY DEF MapIInv, MobileTypeOK, LocatedAtMostOnce
  <2>2. located' + (IF pending' = NoMap THEN 0 ELSE 1) <= located + 1
    BY <1>1, <2>1
  <2> QED BY <1>1, <2>1, <2>2 DEF LocatedAtMostOnce
<1> QED BY <1>1, <1>2, <1>4, <1>5 DEF MapIInv, LayerMatchesList

\* The list of maps, late or early, leads to a listed map.
LEMMA ConfigStep ==
    ASSUME MapIInv, ConfigAnswer
    PROVE  MapIInv'
<1>1. PICK m \in Listed :
         IF view = "map" THEN LoadMap(Target(m)) ELSE LoadMapElsewhere(Target(m))
  BY DEF ConfigAnswer
<1>2. PICK t : t = Target(m)
  OBVIOUS
<1>3. t \in Listed /\ (LoadMap(t) \/ LoadMapElsewhere(t))
  BY <1>1, <1>2, TargetListed
<1>4. /\ current' = t /\ cookie' = t /\ poll' = NoMap
      /\ timers' \in [Listed -> 0..MaxTimers]
      /\ deskAsks' \in [Listed -> 0..MaxAsks]
  BY <1>3, LoadProperties
<1>5. /\ configAsks' \in 0..MaxAsks /\ loaded' = TRUE
      /\ UNCHANGED <<view, desks, rooms, status, hidden, meetAsks, locateVars>>
  BY MapsAssumption DEF ConfigAnswer, MapIInv, MobileTypeOK
<1>6. drawn' \in {NoMap, drawn}
  BY <1>1 DEF LoadMap, LoadMapElsewhere
<1>7. MobileTypeOK'
  BY <1>3, <1>4, <1>5, <1>6 DEF MapIInv, MobileTypeOK, locateVars
<1>8. LocatedAtMostOnce' /\ LayerMatchesList'
  BY <1>5, <1>6 DEF MapIInv, LocatedAtMostOnce, LayerMatchesList, locateVars
<1> QED BY <1>3, <1>4, <1>5, <1>6, <1>7, <1>8 DEF MapIInv, locateVars

LEMMA ChooseStep ==
    ASSUME MapIInv, NEW m \in Listed, ChooseMap(m)
    PROVE  MapIInv'
<1>1. /\ current' = m /\ cookie' = m /\ poll' = NoMap
      /\ timers' \in [Listed -> 0..MaxTimers]
      /\ deskAsks' \in [Listed -> 0..MaxAsks]
  BY LoadProperties DEF ChooseMap
<1>2. /\ drawn' = NoMap /\ pending' = NoMap
      /\ UNCHANGED <<view, loaded, desks, rooms, status, hidden, configAsks,
                     meetAsks, locating, showing, sheet, picks, located>>
  BY DEF ChooseMap, LoadMap
<1>3. MobileTypeOK'
  BY <1>1, <1>2 DEF MapIInv, MobileTypeOK
<1>4. LocatedAtMostOnce'
  BY <1>2 DEF MapIInv, MobileTypeOK, LocatedAtMostOnce
<1> QED BY <1>1, <1>2, <1>3, <1>4 DEF MapIInv, LayerMatchesList

\* Status requests are counted per map and version.
LEMMA AskMeetingType ==
    ASSUME MapIInv, NEW m \in Listed, AskMeeting(m)
    PROVE  meetAsks' \in [Listed \X StatusVersions -> 0..MaxAsks]
<1>1. <<m, status>> \in Listed \X StatusVersions
  BY DEF MapIInv, MobileTypeOK
<1>2. /\ meetAsks \in [Listed \X StatusVersions -> 0..MaxAsks]
      /\ MaxAsks \in Nat /\ meetAsks[<<m, status>>] < MaxAsks
      /\ meetAsks' = [meetAsks EXCEPT ![<<m, status>>] = @ + 1]
  BY MapsAssumption DEF MapIInv, MobileTypeOK, AskMeeting
<1> QED BY <1>1, <1>2, CountUp

\* Desks that arrive become list and layer at once, or, on another view, the
\* list only, where no markers are.
LEMMA DesksStep ==
    ASSUME MapIInv, NEW m \in Listed, DesksAnswer(m)
    PROVE  MapIInv'
<1>1. /\ desks' = m /\ m \in Maps /\ m # NoMap
      /\ UNCHANGED <<view, loaded, current, cookie, rooms, status, hidden,
                     configAsks, pending, showing, sheet, picks, located>>
  BY MapsAssumption DEF DesksAnswer
<1>2. deskAsks' \in [Listed -> 0..MaxAsks]
  BY MapsAssumption, CountDown DEF DesksAnswer, MapIInv, MobileTypeOK
<1>3. CASE view = "map"
  <2>1. /\ drawn' = m /\ poll' = m /\ AskMeeting(m)
        /\ timers[m] < MaxTimers /\ timers' = [timers EXCEPT ![m] = @ + 1]
        /\ \/ locating < MaxTimers /\ locating' = locating + 1
           \/ UNCHANGED locating
    BY <1>3 DEF DesksAnswer, RenderDesks
  <2>2. timers' \in [Listed -> 0..MaxTimers] /\ timers'[m] > 0
    <3>1. timers \in [Listed -> 0..MaxTimers] /\ MaxTimers \in Nat
      BY MapsAssumption DEF MapIInv, MobileTypeOK
    <3>2. timers'[m] = timers[m] + 1 /\ timers[m] \in 0..MaxTimers
      BY <2>1, <3>1
    <3> QED BY <2>1, <3>1, <3>2, CountUp
  <2>3. locating' \in 0..MaxTimers
    BY <2>1, MapsAssumption DEF MapIInv, MobileTypeOK
  <2>4. meetAsks' \in [Listed \X StatusVersions -> 0..MaxAsks]
    BY <2>1, AskMeetingType
  <2>5. MobileTypeOK'
    BY <1>1, <1>2, <2>1, <2>2, <2>3, <2>4 DEF MapIInv, MobileTypeOK
  <2> QED BY <1>1, <1>3, <2>1, <2>2, <2>5
      DEF MapIInv, LayerMatchesList, LocatedAtMostOnce
<1>4. CASE view # "map"
  <2>1. drawn = NoMap /\ UNCHANGED <<drawn, meetAsks, timers, poll, locating>>
    BY <1>4 DEF DesksAnswer, MapIInv, MobileTypeOK
  <2>2. MobileTypeOK'
    BY <1>1, <1>2, <2>1 DEF MapIInv, MobileTypeOK
  <2> QED BY <1>1, <2>1, <2>2 DEF MapIInv, LayerMatchesList, LocatedAtMostOnce
<1> QED BY <1>3, <1>4

\* The steps that touch neither the maps nor the markers.
LEMMA AsideStep ==
    ASSUME MapIInv, MobileTypeOK',
           UNCHANGED <<view, loaded, current, desks, drawn, timers, poll>>,
           located' + (IF pending' = NoMap THEN 0 ELSE 1) <= picks'
    PROVE  MapIInv'
BY DEF MapIInv, LayerMatchesList, LocatedAtMostOnce

LEMMA DesksFailStep ==
    ASSUME MapIInv, NEW m \in Listed, DesksFail(m)
    PROVE  MapIInv'
<1>1. deskAsks' \in [Listed -> 0..MaxAsks]
  BY MapsAssumption, CountDown DEF DesksFail, MapIInv, MobileTypeOK
<1>2. /\ desks' = NoMap /\ drawn' = NoMap
      /\ UNCHANGED <<view, loaded, current, cookie, rooms, status, timers, poll,
                     hidden, configAsks, meetAsks, locateVars>>
  BY DEF DesksFail, RenderDesks
<1>3. MobileTypeOK'
  BY <1>1, <1>2 DEF MapIInv, MobileTypeOK, locateVars
<1> QED BY <1>2, <1>3 DEF MapIInv, LayerMatchesList, LocatedAtMostOnce, locateVars

\* The timeout that finds the picked map current uses the pick up.
LEMMA LocateStep ==
    ASSUME MapIInv, MaybeLocate
    PROVE  MapIInv'
<1>1. locating' \in 0..MaxTimers
  BY MapsAssumption DEF MaybeLocate, MapIInv, MobileTypeOK
<1>2. UNCHANGED <<view, loaded, current, cookie, desks, drawn, rooms, status,
                  timers, poll, hidden, connection, sheet, picks>>
  BY DEF MaybeLocate
<1>3. CASE pending # NoMap /\ pending = current
  <2>1. /\ pending' = NoMap /\ located' = located + 1
        /\ showing[pending] < MaxTimers
        /\ showing' = [showing EXCEPT ![pending] = @ + 1]
    BY <1>3 DEF MaybeLocate
  <2>2. showing' \in [Maps -> 0..MaxTimers]
    <3>1. /\ showing \in [Maps -> 0..MaxTimers] /\ pending \in Maps
          /\ MaxTimers \in Nat
      BY <1>3, MapsAssumption DEF MapIInv, MobileTypeOK
    <3> QED BY <2>1, <3>1, CountUp
  <2>3. /\ located' \in Nat /\ located + 1 <= picks
        /\ located' + (IF pending' = NoMap THEN 0 ELSE 1) <= picks'
    BY <1>2, <1>3, <2>1 DEF MapIInv, MobileTypeOK, LocatedAtMostOnce
  <2>4. MobileTypeOK'
    BY <1>1, <1>2, <2>1, <2>2, <2>3 DEF MapIInv, MobileTypeOK, connection
  <2> QED BY <1>2, <2>3, <2>4, AsideStep
<1>4. CASE ~(pending # NoMap /\ pending = current)
  <2>1. UNCHANGED <<pending, located, showing>>
    BY <1>4 DEF MaybeLocate
  <2>2. MobileTypeOK'
    BY <1>1, <1>2, <2>1 DEF MapIInv, MobileTypeOK, connection
  <2>3. located' + (IF pending' = NoMap THEN 0 ELSE 1) <= picks'
    BY <1>2, <2>1 DEF MapIInv, LocatedAtMostOnce
  <2> QED BY <1>2, <2>2, <2>3, AsideStep
<1> QED BY <1>3, <1>4

\* Sheets: the desk of that id in the list at hand, or the sheet there was.
LEMMA SheetStep ==
    ASSUME MapIInv,
           sheet' = NoSheet \/ \E m \in Maps \cup {NoMap} : ShowDetail(m),
           showing' = showing \/ \E m \in Maps :
              showing[m] > 0 /\ showing' = [showing EXCEPT ![m] = @ - 1],
           UNCHANGED <<view, loaded, current, cookie, desks, drawn, rooms, status,
                       timers, poll, hidden, connection, pending, locating,
                       picks, located>>
    PROVE  MapIInv'
<1>1. sheet' \in [map : Maps \cup {NoMap}, picked : Maps \cup {NoMap}]
  BY DEF MapIInv, MobileTypeOK, ShowDetail, NoSheet
<1>2. showing' \in [Maps -> 0..MaxTimers]
  BY MapsAssumption, CountDown DEF MapIInv, MobileTypeOK
<1>3. MobileTypeOK'
  BY <1>1, <1>2 DEF MapIInv, MobileTypeOK, connection
<1>4. located' + (IF pending' = NoMap THEN 0 ELSE 1) <= picks'
  BY DEF MapIInv, LocatedAtMostOnce
<1> QED BY <1>3, <1>4, AsideStep

\* Room status: requests, answers and failures of any map and age.
LEMMA RoomStep ==
    ASSUME MapIInv, rooms' \in [map : Maps \cup {NoMap}, version : StatusVersions],
           status' \in StatusVersions, hidden' \in BOOLEAN,
           meetAsks' \in [Listed \X StatusVersions -> 0..MaxAsks],
           UNCHANGED <<view, loaded, current, cookie, desks, drawn, timers, poll,
                       configAsks, deskAsks, locateVars>>
    PROVE  MapIInv'
<1>1. MobileTypeOK'
  BY DEF MapIInv, MobileTypeOK, locateVars
<1>2. located' + (IF pending' = NoMap THEN 0 ELSE 1) <= picks'
  BY DEF MapIInv, LocatedAtMostOnce, locateVars
<1> QED BY <1>1, <1>2, AsideStep

LEMMA MeetingStep ==
    ASSUME MapIInv, NEW m \in Listed, NEW since \in StatusVersions,
           MeetingAnswer(m, since) \/ MeetingFails(m, since)
    PROVE  MapIInv'
<1>1. /\ meetAsks[<<m, since>>] > 0
      /\ meetAsks' = [meetAsks EXCEPT ![<<m, since>>] = @ - 1]
  BY DEF MeetingAnswer, MeetingFails
<1>2. meetAsks' \in [Listed \X StatusVersions -> 0..MaxAsks]
  <2>1. /\ meetAsks \in [Listed \X StatusVersions -> 0..MaxAsks]
        /\ <<m, since>> \in Listed \X StatusVersions /\ MaxAsks \in Nat
    BY MapsAssumption DEF MapIInv, MobileTypeOK
  <2> QED BY <1>1, <2>1, CountDown
<1>3. rooms' \in [map : Maps \cup {NoMap}, version : StatusVersions]
  <2>1. CASE MeetingAnswer(m, since)
    <3>1. PICK v \in since..status :
             rooms' = IF current = m THEN [map |-> m, version |-> v] ELSE rooms
      BY <2>1 DEF MeetingAnswer
    <3>2. v \in StatusVersions
      BY MapsAssumption DEF MapIInv, MobileTypeOK, StatusVersions
    <3>3. m \in Maps
      BY MapsAssumption
    <3> QED BY <3>1, <3>2, <3>3 DEF MapIInv, MobileTypeOK
  <2>2. CASE MeetingFails(m, since)
    BY <2>2 DEF MeetingFails, MapIInv, MobileTypeOK
  <2> QED BY <2>1, <2>2
<1>4. /\ status' \in StatusVersions /\ hidden' \in BOOLEAN
      /\ UNCHANGED <<view, loaded, current, cookie, desks, drawn, timers, poll,
                     configAsks, deskAsks, locateVars>>
  BY DEF MeetingAnswer, MeetingFails, MapIInv, MobileTypeOK
<1> QED BY <1>2, <1>3, <1>4, RoomStep

LEMMA VisibilityStep ==
    ASSUME MapIInv, NEW h \in BOOLEAN, SetHidden(h)
    PROVE  MapIInv'
<1>1. meetAsks' \in [Listed \X StatusVersions -> 0..MaxAsks]
  <2>1. CASE UNCHANGED meetAsks
    BY <2>1 DEF MapIInv, MobileTypeOK
  <2>2. CASE ~UNCHANGED meetAsks
    <3>1. PICK m : m = current
      OBVIOUS
    <3>2. m \in Listed /\ AskMeeting(m)
      BY <2>2, <3>1 DEF SetHidden, MapIInv, MobileTypeOK
    <3> QED BY <3>2, AskMeetingType
  <2> QED BY <2>1, <2>2
<1>2. /\ rooms' = rooms /\ rooms \in [map : Maps \cup {NoMap}, version : StatusVersions]
      /\ status' \in StatusVersions /\ hidden' \in BOOLEAN
      /\ UNCHANGED <<view, loaded, current, cookie, desks, drawn, timers, poll,
                     configAsks, deskAsks, locateVars>>
  BY DEF SetHidden, MapIInv, MobileTypeOK
<1> QED BY <1>1, <1>2, RoomStep

LEMMA MapStep == MapIInv /\ [MobileNext]_mobileVars => MapIInv'
<1> SUFFICES ASSUME MapIInv, [MobileNext]_mobileVars PROVE MapIInv'
  OBVIOUS
<1>1. CASE ConfigAnswer
  BY <1>1, ConfigStep
<1>2. CASE ConfigFails
  <2>1. configAsks' \in 0..MaxAsks
    BY <1>2, MapsAssumption DEF ConfigFails, MapIInv, MobileTypeOK
  <2>2. MobileTypeOK'
    BY <1>2, <2>1 DEF ConfigFails, MapIInv, MobileTypeOK, locateVars
  <2>3. located' + (IF pending' = NoMap THEN 0 ELSE 1) <= picks'
    BY <1>2 DEF ConfigFails, MapIInv, LocatedAtMostOnce, locateVars
  <2> QED BY <1>2, <2>2, <2>3, AsideStep DEF ConfigFails
<1>3. ASSUME NEW m \in Listed, DesksAnswer(m) \/ DesksFail(m) PROVE MapIInv'
  BY <1>3, DesksStep, DesksFailStep
<1>4. ASSUME NEW m \in Listed, NEW v \in StatusVersions,
             MeetingAnswer(m, v) \/ MeetingFails(m, v)
      PROVE  MapIInv'
  BY <1>4, MeetingStep
<1>5. ASSUME NEW m \in Listed, Tick(m) PROVE MapIInv'
  <2>1. meetAsks' \in [Listed \X StatusVersions -> 0..MaxAsks]
    BY <1>5, AskMeetingType DEF Tick
  <2>2. /\ rooms' \in [map : Maps \cup {NoMap}, version : StatusVersions]
        /\ status' \in StatusVersions /\ hidden' \in BOOLEAN
        /\ UNCHANGED <<view, loaded, current, cookie, desks, drawn, timers, poll,
                       configAsks, deskAsks, locateVars>>
    BY <1>5 DEF Tick, MapIInv, MobileTypeOK
  <2> QED BY <2>1, <2>2, RoomStep
<1>6. CASE MaybeLocate
  BY <1>6, LocateStep
<1>7. ASSUME NEW m \in Maps, ShowPicked(m) PROVE MapIInv'
  BY <1>7, SheetStep DEF ShowPicked
<1>8. ASSUME NEW v \in {"map", "other"}, Navigate(v) PROVE MapIInv'
  BY <1>8, NavigateStep
<1>9. ASSUME NEW m \in Listed, ChooseMap(m) PROVE MapIInv'
  BY <1>9, ChooseStep
<1>10. ASSUME NEW h \in BOOLEAN, SetHidden(h) PROVE MapIInv'
  BY <1>10, VisibilityStep
<1>11. CASE TapDesk \/ CloseSheet
  BY <1>11, SheetStep DEF TapDesk, CloseSheet
<1>12. ASSUME NEW m \in Maps, OpenSearchResult(m) PROVE MapIInv'
  BY <1>12, OpenResultStep
<1>13. CASE StatusChanges
  <2>1. /\ status' \in StatusVersions
        /\ UNCHANGED <<view, loaded, current, cookie, desks, drawn, rooms, timers,
                       poll, hidden, configAsks, deskAsks, meetAsks, locateVars>>
    BY <1>13, MapsAssumption
       DEF StatusChanges, MapIInv, MobileTypeOK, StatusVersions, connection
  <2>2. /\ rooms' \in [map : Maps \cup {NoMap}, version : StatusVersions]
        /\ hidden' \in BOOLEAN
        /\ meetAsks' \in [Listed \X StatusVersions -> 0..MaxAsks]
    BY <2>1 DEF MapIInv, MobileTypeOK
  <2> QED BY <2>1, <2>2, RoomStep
<1>14. CASE UNCHANGED mobileVars
  BY <1>14 DEF mobileVars, connection, locateVars, MapIInv, MobileTypeOK,
               LayerMatchesList, LocatedAtMostOnce
<1> QED BY <1>1, <1>2, <1>3, <1>4, <1>5, <1>6, <1>7, <1>8, <1>9, <1>10, <1>11,
           <1>12, <1>13, <1>14 DEF MobileNext, MapAnswers, Clock, User

\* The inductive invariant of map, layer, poll and picked result.
THEOREM MapInvariance == MobileSpec => []MapIInv
BY MapInitInvariant, MapStep, PTL DEF MobileSpec

\* For any maps, any number of loads, polls, timeouts and picks under way, the
\* markers belong to the list that is searched for them, and a picked result
\* is focused once at most.
THEOREM MapKeepsStep == MobileSpec => []MapInStep
<1>1. MapIInv => MapInStep
  BY DEF MapIInv, MapInStep
<1> QED BY <1>1, MapInvariance, PTL

-----------------------------------------------------------------------------
(* Search and administration                                               *)

\* What the search pages show and what they wait for.
SearchFits ==
    /\ searchAsks \in [Queries -> 0..MaxPaneAsks]
    /\ userAsks \in [Queries -> 0..MaxPaneAsks]
    /\ roomAsks \in [RoomMaps -> 0..MaxPaneAsks]
    /\ listed \in Queries \cup {Spinner, Hint, Failed, NoElement}
    /\ badges \subseteq RoomMaps
    /\ allDesks \in {"unknown", "desks", "empty"}
    /\ cached \subseteq RoomMaps
    /\ page = "search" /\ listed = Spinner => \E q \in Queries : searchAsks[q] > 0
    /\ page = "users" /\ listed = Spinner => \E q \in Queries : userAsks[q] > 0
    /\ BadgeIsAwaited

\* A loading notice in the admin body is that of the section on the screen.
BodyFits ==
    /\ page \in Pages
    /\ body \in Sections \cup {Spinner, Failed, NoElement, "users"}
    /\ listAsks \in [Sections -> 0..MaxPaneAsks]
    /\ body = Spinner => page \in Sections /\ listAsks[page] > 0

\* A timeout of the page on the screen is a search page's.
TypingFits ==
    /\ input \in Texts /\ wait \in Texts
    /\ stray \in [SearchPages \X Queries -> 0..MaxPaneAsks]
    /\ wait # Short => page \in SearchPages

PanesIInv == SearchFits /\ BodyFits /\ TypingFits

LEMMA NoticesApart ==
    /\ Short \notin Queries
    /\ Spinner \notin Queries /\ Spinner \notin Sections
    /\ NoElement \notin Sections /\ Spinner # Failed /\ Spinner # Hint
    /\ Spinner # NoElement /\ Spinner # "users"
    /\ "users" \notin Sections /\ "search" \notin Sections /\ "menu" \notin Sections
BY PanesAssumption DEF Short, Spinner, Failed, Hint, NoElement

LEMMA PanesInitInvariant == PanesInit => PanesIInv
<1> SUFFICES ASSUME PanesInit PROVE PanesIInv
  OBVIOUS
<1>1. 0 \in 0..MaxPaneAsks
  BY PanesAssumption
<1>2. body # Spinner /\ listed # Spinner /\ badges = {} /\ wait = Short
  BY DEF PanesInit, Spinner, NoElement
<1> QED BY <1>1, <1>2
    DEF PanesInit, PanesIInv, SearchFits, BodyFits, TypingFits, BadgeIsAwaited,
        Pages, Texts

\* What a request does to the counts of its kind.
LEMMA SentType ==
    ASSUME NEW S, NEW asks \in [S -> 0..MaxPaneAsks], NEW k \in S, More(asks, k)
    PROVE  /\ Sent(asks, k) \in [S -> 0..MaxPaneAsks]
           /\ Sent(asks, k)[k] > 0
<1>1. MaxPaneAsks \in Nat /\ asks[k] \in 0..MaxPaneAsks /\ asks[k] < MaxPaneAsks
  BY PanesAssumption DEF More
<1>2. Sent(asks, k) \in [S -> 0..MaxPaneAsks]
  BY <1>1, CountUp DEF Sent
<1>3. Sent(asks, k)[k] = asks[k] + 1
  BY DEF Sent
<1> QED BY <1>1, <1>2, <1>3

LEMMA DoneType ==
    ASSUME NEW S, NEW asks \in [S -> 0..MaxPaneAsks], NEW k \in S, asks[k] > 0
    PROVE  /\ Done(asks, k) \in [S -> 0..MaxPaneAsks]
           /\ \A j \in S : j # k => Done(asks, k)[j] = asks[j]
BY PanesAssumption, CountDown DEF Done

\* A page rendered afresh shows no notice but the one it has just asked for.
LEMMA OpenPaneStep ==
    ASSUME PanesIInv, NEW p \in Pages, OpenPane(p)
    PROVE  PanesIInv'
<1> USE DEF PanesIInv
<1>1. /\ page' = p /\ input' = Short /\ wait' = Short /\ badges' = {}
      /\ UNCHANGED <<allDesks, cached, searchAsks, userAsks, roomAsks>>
  BY DEF OpenPane
<1>2. TypingFits'
  <2>1. CASE wait = Short
    BY <1>1, <2>1 DEF OpenPane, LeaveTimeout, TypingFits, Texts
  <2>2. CASE wait # Short
    <3>1. PICK k : k = <<page, wait>>
      OBVIOUS
    <3>2. /\ k \in SearchPages \X Queries
          /\ stray \in [SearchPages \X Queries -> 0..MaxPaneAsks]
      BY <2>2, <3>1 DEF TypingFits, Texts
    <3>3. More(stray, k) /\ stray' = Sent(stray, k)
      BY <2>2, <3>1 DEF OpenPane, LeaveTimeout
    <3> QED BY <1>1, <3>2, <3>3, SentType DEF TypingFits, Texts
  <2> QED BY <2>1, <2>2
<1>3. SearchFits'
  <2>1. listed' \in {Hint, NoElement}
    BY DEF OpenPane
  <2> QED BY <1>1, <2>1, NoticesApart DEF SearchFits, BadgeIsAwaited
<1>4. BodyFits'
  <2>1. CASE p \in Sections
    <3>1. /\ body' = Spinner /\ More(listAsks, p) /\ listAsks' = Sent(listAsks, p)
      BY <2>1, NoticesApart DEF OpenPane
    <3>2. listAsks \in [Sections -> 0..MaxPaneAsks]
      BY DEF BodyFits
    <3>3. listAsks' \in [Sections -> 0..MaxPaneAsks] /\ listAsks'[p] > 0
      BY <2>1, <3>1, <3>2, SentType
    <3> QED BY <1>1, <2>1, <3>1, <3>3 DEF BodyFits
  <2>2. CASE p \notin Sections
    <3>1. body' \in {"users", NoElement} /\ UNCHANGED listAsks
      BY <2>2 DEF OpenPane
    <3> QED BY <1>1, <3>1, NoticesApart DEF BodyFits
  <2> QED BY <2>1, <2>2
<1> QED BY <1>2, <1>3, <1>4

\* Whatever section the answer is about, the notice it finds is ended.
LEMMA SectionStep ==
    ASSUME PanesIInv, NEW s \in Sections, NEW result \in {s, Failed},
           SectionAnswer(s, result)
    PROVE  PanesIInv'
<1> USE DEF PanesIInv
<1>1. /\ listAsks[s] > 0 /\ listAsks' = Done(listAsks, s)
      /\ body' \in {body, result} /\ (body' = body => body = NoElement \/ body = result)
      /\ listed' = listed \/ listed' = NoElement
      /\ UNCHANGED <<page, input, badges, allDesks, cached, wait, stray,
                     searchAsks, userAsks, roomAsks>>
  BY DEF SectionAnswer
<1>2. listAsks' \in [Sections -> 0..MaxPaneAsks]
  BY <1>1, DoneType DEF BodyFits
<1>3. body' # Spinner /\ body' \in Sections \cup {Spinner, Failed, NoElement, "users"}
  BY <1>1, NoticesApart DEF BodyFits
<1>4. BodyFits'
  BY <1>1, <1>2, <1>3 DEF BodyFits
<1>5. SearchFits'
  BY <1>1, NoticesApart DEF SearchFits, BadgeIsAwaited
<1>6. TypingFits'
  BY <1>1 DEF TypingFits
<1> QED BY <1>4, <1>5, <1>6

LEMMA TypeQueryStep ==
    ASSUME PanesIInv, NEW q \in Texts, TypeQuery(q)
    PROVE  PanesIInv'
<1> USE DEF PanesIInv
<1>1. /\ page \in SearchPages /\ input' = q /\ wait' = q
      /\ \/ listed' = Hint /\ badges' = {}
         \/ UNCHANGED <<listed, badges>>
      /\ UNCHANGED <<page, body, allDesks, cached, stray, searchAsks, userAsks,
                     roomAsks, listAsks>>
  BY DEF TypeQuery
<1>2. SearchFits'
  BY <1>1, NoticesApart DEF SearchFits, BadgeIsAwaited
<1>3. BodyFits' /\ TypingFits'
  BY <1>1 DEF BodyFits, TypingFits
<1> QED BY <1>2, <1>3

\* A list that is rendered asks for the rooms it shows badges of.
LEMMA RenderFits ==
    ASSUME SearchFits, NEW q \in Queries, Render(q),
           allDesks' \in {"unknown", "desks", "empty"},
           searchAsks' \in [Queries -> 0..MaxPaneAsks],
           UNCHANGED <<page, cached, userAsks>>
    PROVE  SearchFits'
<1>1. PICK ask :
        ask = (IF allDesks' = "desks" THEN Hits(q) ELSE {}) \ cached
  OBVIOUS
<1>2. /\ ask \subseteq RoomMaps
      /\ \/ page = "search" /\ listed' = q /\ badges' = ask
         \/ UNCHANGED <<listed, badges>> /\ page # "search"
      /\ \A m \in ask : More(roomAsks, m)
      /\ roomAsks' = [m \in RoomMaps |->
                        IF m \in ask THEN roomAsks[m] + 1 ELSE roomAsks[m]]
  BY <1>1, PanesAssumption DEF Render
<1>3. /\ roomAsks' \in [RoomMaps -> 0..MaxPaneAsks]
      /\ \A m \in ask : roomAsks'[m] > 0
      /\ \A m \in RoomMaps : roomAsks[m] > 0 => roomAsks'[m] > 0
  <2>1. ASSUME NEW m \in RoomMaps
        PROVE  /\ roomAsks'[m] \in 0..MaxPaneAsks
               /\ m \in ask \/ roomAsks[m] > 0 => roomAsks'[m] > 0
    <3>1. /\ roomAsks[m] \in 0..MaxPaneAsks /\ MaxPaneAsks \in Nat
          /\ m \in ask => roomAsks[m] < MaxPaneAsks
          /\ roomAsks'[m] = IF m \in ask THEN roomAsks[m] + 1 ELSE roomAsks[m]
      BY <1>2, PanesAssumption DEF SearchFits, More
    <3> QED BY <3>1
  <2> QED BY <1>2, <2>1
<1> QED BY <1>2, <1>3, NoticesApart DEF SearchFits, BadgeIsAwaited

\* A search for all desks shows the spinner only while it asks for them.
LEMMA GlobalSearchFits ==
    ASSUME SearchFits, NEW q \in Queries, RunGlobalSearch(q)
    PROVE  SearchFits'
<1>1. UNCHANGED <<page, input, body, cached, userAsks, listAsks>>
  BY DEF RunGlobalSearch
<1>2. CASE allDesks = "unknown"
  <2>1. /\ More(searchAsks, q) /\ searchAsks' = Sent(searchAsks, q)
        /\ \/ UNCHANGED <<listed, badges>>
           \/ page = "search" /\ listed' = Spinner /\ badges' = {}
        /\ UNCHANGED <<allDesks, roomAsks>>
    BY <1>2 DEF RunGlobalSearch
  <2>2. searchAsks' \in [Queries -> 0..MaxPaneAsks] /\ searchAsks'[q] > 0
    BY <2>1, SentType DEF SearchFits
  <2>3. page = "search" => page # "users"
    OBVIOUS
  <2> QED BY <1>1, <2>1, <2>2, <2>3 DEF SearchFits, BadgeIsAwaited
<1>3. CASE allDesks # "unknown"
  <2>1. Render(q) /\ UNCHANGED <<allDesks, searchAsks>>
    BY <1>1, <1>3 DEF RunGlobalSearch
  <2>2. /\ allDesks' \in {"unknown", "desks", "empty"}
        /\ searchAsks' \in [Queries -> 0..MaxPaneAsks]
    BY <2>1 DEF SearchFits
  <2> QED BY <1>1, <2>1, <2>2, RenderFits
<1> QED BY <1>2, <1>3

\* So does a search for people, on its page.
LEMMA UserSearchFits ==
    ASSUME SearchFits, NEW q \in Queries, RunUserSearch(q)
    PROVE  SearchFits'
<1>1. /\ More(userAsks, q) /\ userAsks' = Sent(userAsks, q)
      /\ listed' = listed \/ (page = "users" /\ listed' = Spinner)
      /\ UNCHANGED <<page, badges, allDesks, cached, searchAsks, roomAsks>>
  BY DEF RunUserSearch
<1>2. userAsks' \in [Queries -> 0..MaxPaneAsks] /\ userAsks'[q] > 0
  BY <1>1, SentType DEF SearchFits
<1> QED BY <1>1, <1>2 DEF SearchFits, BadgeIsAwaited

LEMMA DebounceStep ==
    ASSUME PanesIInv, Debounce
    PROVE  PanesIInv'
<1> USE DEF PanesIInv
<1>1. PICK q : q = wait
  OBVIOUS
<1>2. /\ q \in Queries /\ page \in SearchPages /\ wait' = Short
      /\ IF page = "search" THEN RunGlobalSearch(q) ELSE RunUserSearch(q)
      /\ UNCHANGED stray
  BY <1>1 DEF Debounce, TypingFits, Texts
<1>3. SearchFits'
  <2>1. CASE page = "search"
    BY <1>2, <2>1, GlobalSearchFits
  <2>2. CASE page # "search"
    BY <1>2, <2>2, UserSearchFits
  <2> QED BY <2>1, <2>2
<1>4. UNCHANGED <<page, input, body, listAsks>>
  BY <1>2 DEF RunGlobalSearch, RunUserSearch
<1> QED BY <1>2, <1>3, <1>4 DEF BodyFits, TypingFits, Texts

LEMMA StrayStep ==
    ASSUME PanesIInv, NEW p \in SearchPages, NEW q \in Queries, StrayDebounce(p, q)
    PROVE  PanesIInv'
<1> USE DEF PanesIInv
<1>1. stray' \in [SearchPages \X Queries -> 0..MaxPaneAsks]
  <2>1. PICK k : k = <<p, q>>
    OBVIOUS
  <2>2. /\ k \in SearchPages \X Queries /\ stray[k] > 0 /\ stray' = Done(stray, k)
        /\ stray \in [SearchPages \X Queries -> 0..MaxPaneAsks]
    BY <2>1 DEF StrayDebounce, TypingFits
  <2> QED BY <2>2, DoneType
<1>2. UNCHANGED <<page, input, body, listAsks, wait>>
  BY DEF StrayDebounce, RunGlobalSearch, RunUserSearch
<1>3. SearchFits'
  <2>1. CASE p = "users"
    BY <2>1, UserSearchFits DEF StrayDebounce
  <2>2. CASE p # "users"
    BY <2>2, GlobalSearchFits DEF StrayDebounce
  <2> QED BY <2>1, <2>2
<1> QED BY <1>1, <1>2, <1>3 DEF BodyFits, TypingFits

\* All desks, or none after a failure: a search page shows results at once.
LEMMA AllDesksStep ==
    ASSUME PanesIInv, NEW q \in Queries, NEW result \in {"desks", "empty"},
           AllDesksAnswer(q, result)
    PROVE  PanesIInv'
<1> USE DEF PanesIInv
<1>1. /\ searchAsks[q] > 0 /\ searchAsks' = Done(searchAsks, q) /\ allDesks' = result
      /\ UNCHANGED <<page, input, body, cached, wait, stray, userAsks, listAsks>>
  BY DEF AllDesksAnswer
<1>2. searchAsks' \in [Queries -> 0..MaxPaneAsks]
  BY <1>1, DoneType DEF SearchFits
<1>3. SearchFits'
  BY <1>1, <1>2, RenderFits DEF AllDesksAnswer
<1> QED BY <1>1, <1>3 DEF BodyFits, TypingFits

LEMMA UsersStep ==
    ASSUME PanesIInv, NEW q \in Queries, NEW result \in {q, Failed},
           UsersAnswer(q, result)
    PROVE  PanesIInv'
<1> USE DEF PanesIInv
<1>1. /\ userAsks[q] > 0 /\ userAsks' = Done(userAsks, q)
      /\ listed' = IF page = "users" /\ listed # NoElement THEN result ELSE listed
      /\ UNCHANGED <<page, input, body, badges, allDesks, cached, wait, stray,
                     searchAsks, roomAsks, listAsks>>
  BY DEF UsersAnswer
<1>2. userAsks' \in [Queries -> 0..MaxPaneAsks]
  BY <1>1, DoneType DEF SearchFits
<1>3. SearchFits'
  BY <1>1, <1>2, NoticesApart DEF SearchFits, BadgeIsAwaited
<1> QED BY <1>1, <1>3 DEF BodyFits, TypingFits

LEMMA RoomsStep ==
    ASSUME PanesIInv, NEW m \in RoomMaps, RoomsAnswer(m)
    PROVE  PanesIInv'
<1> USE DEF PanesIInv
<1>1. /\ roomAsks[m] > 0 /\ roomAsks' = Done(roomAsks, m)
      /\ cached' = cached \cup {m} /\ badges' = badges \ {m}
      /\ UNCHANGED <<page, input, listed, body, allDesks, wait, stray, searchAsks,
                     userAsks, listAsks>>
  BY DEF RoomsAnswer
<1>2. /\ roomAsks' \in [RoomMaps -> 0..MaxPaneAsks]
      /\ \A j \in RoomMaps : j # m => roomAsks'[j] = roomAsks[j]
  BY <1>1, DoneType DEF SearchFits
<1>3. SearchFits'
  BY <1>1, <1>2 DEF SearchFits, BadgeIsAwaited
<1> QED BY <1>1, <1>3 DEF BodyFits, TypingFits

LEMMA PanesStep == PanesIInv /\ [PanesNext]_panesVars => PanesIInv'
<1> SUFFICES ASSUME PanesIInv, [PanesNext]_panesVars PROVE PanesIInv'
  OBVIOUS
<1>1. ASSUME NEW p \in Pages, OpenPane(p) PROVE PanesIInv'
  BY <1>1, OpenPaneStep
<1>2. ASSUME NEW q \in Texts, TypeQuery(q) PROVE PanesIInv'
  BY <1>2, TypeQueryStep
<1>3. CASE Debounce
  BY <1>3, DebounceStep
<1>4. ASSUME NEW p \in SearchPages, NEW q \in Queries, StrayDebounce(p, q)
      PROVE  PanesIInv'
  BY <1>4, StrayStep
<1>5. ASSUME NEW s \in Sections, SectionAnswer(s, s) \/ SectionAnswer(s, Failed)
      PROVE  PanesIInv'
  BY <1>5, SectionStep
<1>6. ASSUME NEW q \in Queries,
             AllDesksAnswer(q, "desks") \/ AllDesksAnswer(q, "empty")
      PROVE  PanesIInv'
  BY <1>6, AllDesksStep
<1>7. ASSUME NEW q \in Queries, UsersAnswer(q, q) \/ UsersAnswer(q, Failed)
      PROVE  PanesIInv'
  BY <1>7, UsersStep
<1>8. ASSUME NEW m \in RoomMaps, RoomsAnswer(m) PROVE PanesIInv'
  BY <1>8, RoomsStep
<1>9. CASE UNCHANGED panesVars
  BY <1>9 DEF panesVars, PanesIInv, SearchFits, BodyFits, TypingFits, BadgeIsAwaited
<1> QED BY <1>1, <1>2, <1>3, <1>4, <1>5, <1>6, <1>7, <1>8, <1>9
    DEF PanesNext, PaneAnswers

\* The inductive invariant of the pages, their timeouts and their requests.
THEOREM PanesInvariance == PanesSpec => []PanesIInv
BY PanesInitInvariant, PanesStep, PTL DEF PanesSpec

\* For any sections, texts and rooms, and any number of requests and timeouts
\* of earlier visits, every loading notice and badge has its answer to come.
THEOREM NoticesStayAwaited == PanesSpec => []NoticesAreAwaited
<1>1. PanesIInv => NoticesAreAwaited
  BY DEF PanesIInv, SearchFits, BodyFits, TypingFits, NoticesAreAwaited,
         PanesTypeOK, SpinnerIsAwaited
<1> QED BY <1>1, PanesInvariance, PTL

-----------------------------------------------------------------------------
(* The service worker                                                      *)

\* A worker has a cache from the time it opened it, and a shell is kept only by
\* the workers in use; there is one worker at a time that is to be the next.
ShellIInv ==
    /\ ShellTypeOK /\ ActiveStoreKept
    /\ installing # 0 => installing \in stores /\ installed = 0
    /\ installed # 0 => installed \in stores
    /\ \A v \in ShellVersions : shell[v] # 0 => v \in {active, installed}

LEMMA ShellInitInvariant == ShellInit => ShellIInv
BY VersionAssumption
   DEF ShellInit, ShellIInv, ShellTypeOK, ActiveStoreKept, ShellVersions

\* An activation leaves the caches of the worker that takes over, and its own
\* was opened when its installation began.
LEMMA ActivateStep == ASSUME ShellIInv, Activate PROVE ShellIInv'
<1>1. ShellTypeOK'
  BY DEF ShellIInv, ShellTypeOK, Activate
<1>2. /\ installed \in stores /\ installed \in ShellVersions /\ installing = 0
      /\ active' = installed /\ installed' = 0 /\ installing' = 0
      /\ stores' = {installed}
      /\ \A v \in ShellVersions : shell'[v] = IF v = installed THEN shell[v] ELSE 0
  BY DEF ShellIInv, ShellTypeOK, Activate
<1> QED BY <1>1, <1>2 DEF ShellIInv, ActiveStoreKept

\* The shell of a new version goes into the cache its installation opened.
LEMMA PrecacheStep ==
    ASSUME ShellIInv, PrecacheDone \/ PrecacheFails
    PROVE  ShellIInv'
<1>1. ShellTypeOK'
  <2>1. CASE PrecacheDone
    <3>1. shell' \in [ShellVersions -> ShellVersions \cup {0}]
      BY <2>1 DEF ShellIInv, ShellTypeOK, PrecacheDone
    <3>2. assets' \in [ShellVersions -> SUBSET ShellVersions]
      BY <2>1 DEF ShellIInv, ShellTypeOK, PrecacheDone
    <3> QED BY <2>1, <3>1, <3>2 DEF ShellIInv, ShellTypeOK, PrecacheDone
  <2>2. CASE PrecacheFails
    BY <2>2 DEF ShellIInv, ShellTypeOK, PrecacheFails
  <2> QED BY <2>1, <2>2
<1>2. /\ installing \in stores /\ installed = 0 /\ installing # 0
      /\ installed' = installing /\ installing' = 0
      /\ stores' = stores /\ active' = active
  BY DEF ShellIInv, PrecacheDone, PrecacheFails
<1>3. \A v \in ShellVersions : v # installing => shell'[v] = shell[v]
  BY DEF ShellIInv, ShellTypeOK, PrecacheDone, PrecacheFails
<1>4. 0 \notin ShellVersions
  BY VersionAssumption DEF ShellVersions
<1>5. \A v \in ShellVersions : shell'[v] # 0 => v \in {active', installed'}
  BY <1>2, <1>3, <1>4 DEF ShellIInv
<1> QED BY <1>1, <1>2, <1>5 DEF ShellIInv, ActiveStoreKept

LEMMA ShellStep == ShellIInv /\ [ShellNext]_shellVars => ShellIInv'
<1> SUFFICES ASSUME ShellIInv, [ShellNext]_shellVars PROVE ShellIInv'
  OBVIOUS
<1>1. CASE Deploy
  BY <1>1, VersionAssumption
     DEF Deploy, ShellIInv, ShellTypeOK, ActiveStoreKept, ShellVersions
<1>2. CASE FindUpdate
  BY <1>2 DEF FindUpdate, ShellIInv, ShellTypeOK, ActiveStoreKept, ShellVersions
<1>3. CASE PrecacheDone \/ PrecacheFails
  BY <1>3, PrecacheStep
<1>4. CASE Activate
  BY <1>4, ActivateStep
<1>5. ASSUME NEW p \in ShellVersions, FetchAssets(p) PROVE ShellIInv'
  <2>1. <<active, p>> \in ShellVersions \X ShellVersions
    BY <1>5 DEF FetchAssets, ShellIInv, ShellTypeOK
  <2> QED BY <1>5, <2>1 DEF FetchAssets, ShellIInv, ShellTypeOK, ActiveStoreKept
<1>6. ASSUME NEW w \in ShellVersions, NEW p \in ShellVersions, StoreAssets(w, p)
      PROVE  ShellIInv'
  <2>1. assets' \in [ShellVersions -> SUBSET ShellVersions]
    BY <1>6 DEF StoreAssets, ShellIInv, ShellTypeOK
  <2> QED BY <1>6, <2>1 DEF StoreAssets, ShellIInv, ShellTypeOK, ActiveStoreKept
<1>7. CASE UNCHANGED shellVars
  BY <1>7 DEF shellVars, ShellIInv, ShellTypeOK, ActiveStoreKept
<1> QED BY <1>1, <1>2, <1>3, <1>4, <1>5, <1>6, <1>7 DEF ShellNext

\* The inductive invariant of the workers and their caches.
THEOREM ShellInvariance == ShellSpec => []ShellIInv
BY ShellInitInvariant, ShellStep, PTL DEF ShellSpec

\* For any number of deployments, and installations that fail, the worker in
\* charge has its cache, whatever worker before it stores late, and no markup
\* older than the workers in use is kept to be served offline.
THEOREM StoresKeepStep == ShellSpec => []StoresFollowWorkers
<1>1. ShellIInv => StoresFollowWorkers
  BY DEF ShellIInv, StoresFollowWorkers, NoOldShell, ShellTypeOK
<1> QED BY <1>1, ShellInvariance, PTL
=============================================================================
