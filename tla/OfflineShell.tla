--------------------------- MODULE OfflineShell ----------------------------
(***************************************************************************)
(* The service worker of the mobile app (src/internal/web/static/m/sw.js): *)
(* what it keeps in its caches across deployments, and what a page opened  *)
(* offline is built from.                                                  *)
(*                                                                         *)
(* A worker is identified by the asset version the server put into it; so  *)
(* is its cache.  A cache holds the shell "/m/" (the version of its markup *)
(* is recorded, 0 when absent) and the assets under their versioned URLs.  *)
(***************************************************************************)
EXTENDS Naturals, FiniteSets

CONSTANT MaxVersion  \* bound: deployments

ASSUME VersionAssumption == MaxVersion \in Nat \ {0}

ShellVersions == 1..MaxVersion

VARIABLES
    deployed,    \* the version the server serves
    stores,      \* versions whose cache exists
    shell,       \* version of the markup kept as "/m/", per cache
    assets,      \* versions v whose ?v= URLs are kept, per cache
    active,      \* version of the active worker, 0 before the first
    installing,  \* version of the worker being installed, 0 if none
    installed,   \* version of the worker that waits to activate, 0 if none
    lateStores         \* versions of workers with a fetch still to be stored

shellVars == <<deployed, stores, shell, assets, active, installing, installed, lateStores>>

ShellTypeOK ==
    /\ deployed \in ShellVersions
    /\ stores \subseteq ShellVersions
    /\ shell \in [ShellVersions -> ShellVersions \cup {0}]
    /\ assets \in [ShellVersions -> SUBSET ShellVersions]
    /\ active \in ShellVersions \cup {0}
    /\ installing \in ShellVersions \cup {0}
    /\ installed \in ShellVersions \cup {0}
    /\ lateStores \in SUBSET (ShellVersions \X ShellVersions)

ShellInit ==
    /\ deployed = 1
    /\ stores = {}
    /\ shell = [v \in ShellVersions |-> 0]
    /\ assets = [v \in ShellVersions |-> {}]
    /\ active = 0 /\ installing = 0 /\ installed = 0
    /\ lateStores = {}

\* The server is updated.
Deploy ==
    /\ deployed < MaxVersion
    /\ deployed' = deployed + 1
    /\ UNCHANGED <<stores, shell, assets, active, installing, installed, lateStores>>

\* The page registers /m/sw.js: a script with other bytes than the newest
\* known one is installed; the install handler opens its cache.
FindUpdate ==
    /\ installing = 0 /\ installed = 0
    /\ deployed # active
    /\ installing' = deployed
    /\ stores' = stores \cup {deployed}
    /\ UNCHANGED <<deployed, shell, assets, active, installed, lateStores>>

\* addAll(CORE) fetched everything: the shell of the version served by now,
\* the assets under the URLs of the worker's own version.
PrecacheDone ==
    /\ installing # 0
    /\ shell' = [shell EXCEPT ![installing] = deployed]
    /\ assets' = [assets EXCEPT ![installing] = @ \cup {installing}]
    /\ installed' = installing /\ installing' = 0
    /\ UNCHANGED <<deployed, stores, active, lateStores>>

\* addAll rejects: it stores nothing, and the rejection is ignored.
PrecacheFails ==
    /\ installing # 0
    /\ installed' = installing /\ installing' = 0
    /\ UNCHANGED <<deployed, stores, shell, assets, active, lateStores>>

\* Mutant: no old cache is deleted.
Activate_NoPurge ==
    /\ installed # 0
    /\ active' = installed /\ installed' = 0
    /\ UNCHANGED <<deployed, stores, shell, assets, installing, lateStores>>

\* Mutant: the filter of the caches to delete is inverted.
Activate_PurgesOwn ==
    /\ installed # 0
    /\ active' = installed /\ installed' = 0
    /\ stores' = stores \ {active'}
    /\ shell' = [v \in ShellVersions |-> IF v \in stores' THEN shell[v] ELSE 0]
    /\ assets' = [v \in ShellVersions |-> IF v \in stores' THEN assets[v] ELSE {}]
    /\ UNCHANGED <<deployed, installing, lateStores>>

\* Mutant: without skipWaiting the old worker stays as long as pages use it.
Activate_Waits ==
    /\ installed # 0 /\ active = 0
    /\ active' = installed /\ installed' = 0
    /\ stores' = stores \cap {active'}
    /\ shell' = [v \in ShellVersions |-> IF v \in stores' THEN shell[v] ELSE 0]
    /\ assets' = [v \in ShellVersions |-> IF v \in stores' THEN assets[v] ELSE {}]
    /\ UNCHANGED <<deployed, installing, lateStores>>

\* skipWaiting, then the activate handler deletes every other cache.
Activate ==
    /\ installed # 0
    /\ active' = installed /\ installed' = 0
    /\ stores' = stores \cap {active'}
    /\ shell' = [v \in ShellVersions |-> IF v \in stores' THEN shell[v] ELSE 0]
    /\ assets' = [v \in ShellVersions |-> IF v \in stores' THEN assets[v] ELSE {}]
    /\ UNCHANGED <<deployed, installing, lateStores>>

\* A page of version p, opened online, asks for its assets: a kept URL is
\* served from the cache, any other from the network, to be stored later.
FetchAssets(p) ==
    /\ active # 0
    /\ p <= deployed
    /\ \A v \in stores : p \notin assets[v]
    /\ lateStores' = lateStores \cup {<<active, p>>}
    /\ UNCHANGED <<deployed, stores, shell, assets, active, installing, installed>>

\* Mutant: responses are stored under URLs without their version.
StoreAssets_Unversioned(w, p) ==
    /\ <<w, p>> \in lateStores
    /\ lateStores' = lateStores \ {<<w, p>>}
    /\ stores' = stores \cup {w}
    /\ assets' = [assets EXCEPT ![w] = @ \cup {0}]
    /\ UNCHANGED <<deployed, shell, active, installing, installed>>

\* The worker that fetched them puts them into its own cache, which exists
\* again if it was deleted meanwhile.
StoreAssets(w, p) ==
    /\ <<w, p>> \in lateStores
    /\ lateStores' = lateStores \ {<<w, p>>}
    /\ stores' = stores \cup {w}
    /\ assets' = [assets EXCEPT ![w] = @ \cup {p}]
    /\ UNCHANGED <<deployed, shell, active, installing, installed>>

ShellNext ==
    \/ Deploy \/ FindUpdate
    \/ PrecacheDone \/ PrecacheFails \/ Activate
    \/ \E p \in ShellVersions : FetchAssets(p)
    \/ \E w, p \in ShellVersions : StoreAssets(w, p)

ShellSpec == ShellInit /\ [][ShellNext]_shellVars

\* The browser looks for updates now and then and drives an installation on.
ShellFairness ==
    /\ WF_shellVars(FindUpdate)
    /\ WF_shellVars(PrecacheDone \/ PrecacheFails)
    /\ WF_shellVars(Activate)

ShellFairSpec == ShellSpec /\ ShellFairness

-----------------------------------------------------------------------------
(* Properties.                                                             *)

\* caches.match searches the caches of all versions for a URL.
KeptUrls == UNION {assets[v] : v \in stores}
OfflineShells == {shell[v] : v \in stores} \ {0}

\* A worker answers from a cache that exists: no activation, of whatever
\* version and after whatever late store, deletes the active worker's own.
ActiveStoreKept == active # 0 => active \in stores

\* A shell that can be served offline belongs to the active worker or to the
\* one about to replace it: no older markup outlives an activation.
NoOldShell ==
    \A v \in stores : shell[v] # 0 => v \in {active, installed}

\* The caches are those of the workers in use (install, activate, fetch).
StoresFollowWorkers == ShellTypeOK /\ ActiveStoreKept /\ NoOldShell

\* The last deployment reaches a client that keeps opening the app.
UpdateReachesClient == (deployed = MaxVersion) ~> (active = MaxVersion)

\* sw.js:10: "Core shell + assets precached on install so the app opens
\* offline", and the versioned URLs "match the ?v= query the HTML uses".
OpensOffline ==
    active # 0 => OfflineShells # {} /\ \A s \in OfflineShells : s \in KeptUrls
=============================================================================
