------------------------------ MODULE MCPages ------------------------------
(* Pages that go on while their requests are under way, for TLC: the mobile  *)
(* app's map, map selector, panes and service worker, and the administration *)
(* page's connection cards and lists.  The modules share none of the state   *)
(* they keep, so it is enough that in each behaviour one of them moves.      *)
EXTENDS MobileMap, MapSelector, MobilePanes, OfflineShell, ConnectionCards,
        PagedList, TLC

CONSTANTS m1, m2, m3, room

VARIABLE part   \* the module that moves

\* A map that is not listed (deleted, or for others only) is in a stale cookie.
ListedMaps == {m1, m2}
AllMaps == {m1, m2, m3}
MapSymmetry == Permutations(ListedMaps)

TabViews == {"map", "search", "settings"}

TwoSections == {"health", "audit"}
AllPerms == {"health", "audit", "users"}
TwoQueries == {"ann", "meeting"}

\* Rooms of one map match both queries; those of several are apart.
OneRoomMap == {room}
MatchingMaps(q) == OneRoomMap

\* A tab with an LDAP connection or with an EntraID one, and one to create.
OneLdap == {"l1"}
OneEntra == {"e1"}
OneNew == {"e2"}
OneEach == {OneLdap, OneEntra}

ThreeEntries == 1..3
TwoTexts == {"", "odd"}
Passing(text) == IF text = "" THEN Entries ELSE {e \in Entries : e % 2 = 1}

pagesVars ==
    <<mobileVars, selectorVars, panesVars, shellVars, cardVars, listVars, part>>

\* In the behaviours of the others the cards and the list rest.
CardsRest == connections = "l1" :> [on |-> TRUE, cert |-> "stored"]
ListRests == list = "audit" /\ log = {}

PagesInit ==
    /\ part \in {"map", "selector", "panes", "shell", "cards", "list"}
    /\ MobileInit /\ SelectorInit /\ PanesInit /\ ShellInit
    /\ CardsInit /\ ListInit
    /\ part # "map" => cookie = NoMap
    /\ part # "cards" => CardsRest
    /\ part # "list" => ListRests

PagesNext ==
    /\ UNCHANGED part
    /\ \/ /\ part = "map" /\ MobileNext
          /\ UNCHANGED <<selectorVars, panesVars, shellVars, cardVars, listVars>>
       \/ /\ part = "selector" /\ SelectorNext
          /\ UNCHANGED <<mobileVars, panesVars, shellVars, cardVars, listVars>>
       \/ /\ part = "panes" /\ PanesNext
          /\ UNCHANGED <<mobileVars, selectorVars, shellVars, cardVars, listVars>>
       \/ /\ part = "shell" /\ ShellNext
          /\ UNCHANGED <<mobileVars, selectorVars, panesVars, cardVars, listVars>>
       \/ /\ part = "cards" /\ CardsNext
          /\ UNCHANGED <<mobileVars, selectorVars, panesVars, shellVars, listVars>>
       \/ /\ part = "list" /\ ListNext
          /\ UNCHANGED <<mobileVars, selectorVars, panesVars, shellVars, cardVars>>

PagesSpec == PagesInit /\ [][PagesNext]_pagesVars
=============================================================================
