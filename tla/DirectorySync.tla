--------------------------- MODULE DirectorySync ---------------------------
(***************************************************************************)
(* The Active Directory side of the sync engine (internal/directory) and   *)
(* the admin handlers that share its buckets (internal/web/admin_sources). *)
(*                                                                         *)
(* Every source keeps its own directory snapshot and placement mirror; the *)
(* combined caches every other feature reads are rebuilt from the enabled  *)
(* sources ("combine-on-write").  Nothing serialises the hourly scheduler, *)
(* the manual "sync all", the per-source "Sync now" and the admin handlers *)
(* against each other: each bolt transaction is atomic and every handler   *)
(* is a sequence of them, so one transaction is one step here.             *)
(*                                                                         *)
(* Not a variable of this module: the admin accounts whose full names a    *)
(* rebuild refreshes (RefreshAdminNames), avatars, audit rows and the      *)
(* diagnostics, none of which is read back by the engine.                  *)
(***************************************************************************)
EXTENDS Integers, FiniteSets

CONSTANTS
    SourceIds,   \* ids an LDAP source may get (bolt lists them in this order)
    Persons,     \* userids, already computed by UserIdentifier
    Titles,      \* job titles (Description of a placement)
    Offices,     \* desk places an office attribute may name, ordered as keys
    Confs,       \* the rest of a source's connection settings
    Scheduler,   \* the hourly goroutine of startPeriodicSync
    Requests,    \* concurrent HTTP handlers and the goroutines they start
    MaxHR,       \* bound: changes made in Active Directory
    MaxAdmin,    \* bound: admin edits of the source list
    MaxManual,   \* bound: syncs started by hand
    MaxCrash     \* bound: process restarts

ASSUME SourcesAssumption == SourceIds \subseteq Nat \ {0} /\ IsFiniteSet(SourceIds)
ASSUME OfficesAssumption == Offices \subseteq Nat /\ IsFiniteSet(Offices)
ASSUME BoundsAssumption  == {MaxHR, MaxAdmin, MaxManual, MaxCrash} \subseteq Nat
ASSUME SchedulerAssumption == Scheduler \notin Requests

Workers == Requests \cup {Scheduler}

VARIABLES
    ad,           \* what each Active Directory would answer now (environment)
    ldapSources,  \* BucketLdapSrc: the configured sources
    srcDir,       \* BucketSrcDir: last snapshot stored per source
    srcMirror,    \* BucketSrcMirror: last placements stored per source
    directory,    \* BucketDirectory: combined snapshot
    ldapmirror,   \* BucketLdap: combined placements, keyed by person and office
    ldapSeeded,   \* meta "ldapSeeded"
    changelog,    \* the announcements ever written
    w,            \* local state of each worker
    budget,       \* what is left of each bound
    steady,       \* history: placements never interrupted since the start
    published     \* history: the combined mirror has been filled once

vars == <<ad, ldapSources, srcDir, srcMirror, directory, ldapmirror,
          ldapSeeded, changelog, w, budget, steady, published>>
sourceVars == <<srcDir, srcMirror>>
combinedVars == <<directory, ldapmirror>>
history == <<steady, published>>

----------------------------------------------------------------------------
(* Data *)

Empty == [x \in {} |-> {}]
PartialFcns(S, T) == UNION {[D -> T] : D \in SUBSET S}

\* f, with g's value wherever g has one (a bolt Put per key of g).
Override(f, g) ==
    [x \in DOMAIN f \cup DOMAIN g |-> IF x \in DOMAIN g THEN g[x] ELSE f[x]]
Restricted(f, S) == [y \in S |-> f[y]]
Without(f, x) == Restricted(f, DOMAIN f \ {x})
First(S) == CHOOSE x \in S : \A y \in S : x <= y

Person       == [title : Titles, offices : SUBSET Offices]
DirectoryMap == PartialFcns(Persons, Person)
Placements   == Persons \X Offices
MirrorMap    == PartialFcns(Placements, Titles)
LdapSource   == [disabled : BOOLEAN, conf : Confs]
LogEntry     == [type : {"Employee", "Title"}, person : Persons,
                 new : Titles]

\* The placements of a snapshot: one per office value, none without an office.
DeriveMirrorUsers(dir) ==
    [k \in {q \in Placements : q[1] \in DOMAIN dir /\ q[2] \in dir[q[1]].offices}
        |-> dir[k[1]].title]

PersonsOf(mirror) == {k[1] : k \in DOMAIN mirror}

\* The title a rebuild compares a person against: the placement listed first.
FirstTitle(mirror, p) ==
    mirror[<<p, First({o \in Offices : <<p, o>> \in DOMAIN mirror})>>]

Enabled(src) == {i \in DOMAIN src : ~src[i].disabled}
EnabledSources == Restricted(ldapSources, Enabled(ldapSources))
AnyLdapSourceEnabled == Enabled(ldapSources) # {}

\* The placements Active Directory holds for enabled sources at this moment.
LivePlacements ==
    {t \in SourceIds \X Persons \X Offices :
        /\ t[1] \in Enabled(ldapSources)
        /\ t[2] \in DOMAIN ad[t[1]]
        /\ t[3] \in ad[t[1]][t[2]].offices}

----------------------------------------------------------------------------
(* Workers *)

\* full: RunADSyncProg, that ends by setting ldapSeeded; prog: holds LdapProg;
\* todo: the sources still to handle, as they were read; the other fields are
\* the locals of RunADSyncProg (data) and of RebuildLdapMirror.
Idle == [pc |-> "idle", full |-> FALSE, prog |-> FALSE, todo |-> Empty,
         data |-> Empty, announce |-> FALSE, old |-> Empty, seen |-> {},
         combined |-> Empty, allDir |-> Empty]

SyncPcs    == {"begin", "fetch", "putdir", "putmirror", "putsource", "meta"}
RebuildPcs == {"list", "snapshot", "gather", "replacemirror", "setmeta"}
AdminPcs   == {"single", "put", "delmirror", "deldir", "delmeta"}

WorkerState ==
    [pc : {"idle"} \cup SyncPcs \cup RebuildPcs \cup AdminPcs,
     full : BOOLEAN, prog : BOOLEAN, todo : PartialFcns(SourceIds, LdapSource),
     data : DirectoryMap, announce : BOOLEAN, old : MirrorMap,
     seen : SUBSET Persons, combined : MirrorMap, allDir : DirectoryMap]

At(x, pc) == w[x].pc = pc
Become(x, st) == w' = [w EXCEPT ![x] = st]
Goto(x, pc) == Become(x, [w[x] EXCEPT !.pc = pc])
Done(x) == Become(x, Idle)
Cur(x) == First(DOMAIN w[x].todo)
LdapProgRunning == \E x \in Workers : w[x].prog
Spend(b) == budget[b] > 0 /\ budget' = [budget EXCEPT ![b] = @ - 1]

\* History bookkeeping of a step that changes ad or ldapSources.
Interrupt == steady' = steady \cap LivePlacements'

----------------------------------------------------------------------------
(* Environment *)

\* Someone is hired, leaves, moves or gets another title.
HRChange ==
    /\ Spend("hr")
    /\ \E i \in SourceIds, p \in Persons :
        \/ p \in DOMAIN ad[i] /\ ad' = [ad EXCEPT ![i] = Without(@, p)]
        \/ \E e \in Person :
            /\ p \in DOMAIN ad[i] => ad[i][p] # e
            /\ ad' = [ad EXCEPT ![i] = Override(@, [q \in {p} |-> e])]
    /\ UNCHANGED <<ldapSources, sourceVars, combinedVars, ldapSeeded, changelog, w, published>>
    /\ Interrupt

\* The process dies (systemd restarts it): memory is lost, bolt is kept.
Crash ==
    /\ Spend("crash")
    /\ w' = [x \in Workers |-> Idle]
    /\ UNCHANGED <<ad, ldapSources, sourceVars, combinedVars, ldapSeeded, changelog, history>>

----------------------------------------------------------------------------
(* Starting a sync *)

\* startPeriodicSync: the timer fired and enabled() holds.
ScheduledSync ==
    /\ At(Scheduler, "idle")
    /\ AnyLdapSourceEnabled
    /\ Become(Scheduler, [Idle EXCEPT !.pc = "begin", !.full = TRUE])
    /\ UNCHANGED <<ad, ldapSources, sourceVars, combinedVars, ldapSeeded, changelog, budget, history>>

\* POST /rest/ldapsync: refused while LdapProg is running.
HandleRestLdapSync(r) ==
    /\ At(r, "idle")
    /\ ~LdapProgRunning
    /\ Spend("manual")
    /\ Become(r, [Idle EXCEPT !.pc = "begin", !.full = TRUE, !.prog = TRUE])
    /\ UNCHANGED <<ad, ldapSources, sourceVars, combinedVars, ldapSeeded, changelog, history>>

\* GET /rest/ldap: without an id a full sync that no tracker guards, with the
\* id of a configured source a sync of that source, as it is stored now.
HandleRestLdap(r) ==
    /\ At(r, "idle")
    /\ Spend("manual")
    /\ \/ Become(r, [Idle EXCEPT !.pc = "begin", !.full = TRUE])
       \/ \E i \in DOMAIN ldapSources :
            Become(r, [Idle EXCEPT !.pc = "single",
                                   !.todo = [j \in {i} |-> ldapSources[j]]])
    /\ UNCHANGED <<ad, ldapSources, sourceVars, combinedVars, ldapSeeded, changelog, history>>

\* Mutant: the fallback to a full sync is forgotten.
SingleStart_NoFallback(r) ==
    /\ At(r, "single")
    /\ Goto(r, "fetch")
    /\ UNCHANGED <<ad, ldapSources, sourceVars, combinedVars, ldapSeeded, changelog, budget, history>>

\* A single sync turns into a full one until the buckets are seeded.
SingleStart(r) ==
    /\ At(r, "single")
    /\ IF ldapSeeded THEN Goto(r, "fetch")
                     ELSE Become(r, [Idle EXCEPT !.pc = "begin", !.full = TRUE])
    /\ UNCHANGED <<ad, ldapSources, sourceVars, combinedVars, ldapSeeded, changelog, budget, history>>

----------------------------------------------------------------------------
(* RunADSyncProg *)

\* The enabled sources are listed once; with none the sync ends with an error.
Begin(x) ==
    /\ At(x, "begin")
    /\ IF AnyLdapSourceEnabled
       THEN Become(x, [w[x] EXCEPT !.pc = "fetch", !.todo = EnabledSources])
       ELSE Done(x)
    /\ UNCHANGED <<ad, ldapSources, sourceVars, combinedVars, ldapSeeded, changelog, budget, history>>

\* FetchSourceDirectory answers, or fails and ends the whole sync.
FetchOk(x) ==
    /\ At(x, "fetch")
    /\ Become(x, [w[x] EXCEPT !.pc = "putdir", !.data = ad[Cur(x)]])
    /\ UNCHANGED <<ad, ldapSources, sourceVars, combinedVars, ldapSeeded, changelog, budget, history>>

FetchFails(x) ==
    /\ At(x, "fetch")
    /\ Done(x)
    /\ UNCHANGED <<ad, ldapSources, sourceVars, combinedVars, ldapSeeded, changelog, budget, history>>

PutSourceDir(x) ==
    /\ At(x, "putdir")
    /\ srcDir' = [srcDir EXCEPT ![Cur(x)] = w[x].data]
    /\ Goto(x, "putmirror")
    /\ UNCHANGED <<ad, ldapSources, srcMirror, combinedVars, ldapSeeded, changelog, budget, history>>

\* Mutant: the snapshot is stored where its placements belong.
PutSourceMirror_Raw(x) ==
    /\ At(x, "putmirror")
    /\ srcMirror' = [srcMirror EXCEPT ![Cur(x)] = w[x].data]
    /\ Goto(x, "putsource")
    /\ UNCHANGED <<ad, ldapSources, srcDir, combinedVars, ldapSeeded, changelog, budget, history>>

PutSourceMirror(x) ==
    /\ At(x, "putmirror")
    /\ srcMirror' = [srcMirror EXCEPT ![Cur(x)] = DeriveMirrorUsers(w[x].data)]
    /\ Goto(x, "putsource")
    /\ UNCHANGED <<ad, ldapSources, srcDir, combinedVars, ldapSeeded, changelog, budget, history>>

\* The source record is written back (to stamp LastSync) as it was listed.
PutLdapSource(x) ==
    /\ At(x, "putsource")
    /\ ldapSources' = Override(ldapSources, [i \in {Cur(x)} |-> w[x].todo[i]])
    /\ LET left == Without(w[x].todo, Cur(x)) IN
       Become(x, [w[x] EXCEPT !.todo = left, !.data = Empty,
                              !.announce = ~w[x].full,
                              !.pc = IF DOMAIN left # {} THEN "fetch"
                                     ELSE IF w[x].full THEN "meta" ELSE "list"])
    /\ UNCHANGED <<ad, sourceVars, combinedVars, ldapSeeded, changelog, budget, published>>
    /\ Interrupt

\* Mutant: the first rebuild announces too.
ReadSeeded_Announce(x) ==
    /\ At(x, "meta")
    /\ Become(x, [w[x] EXCEPT !.pc = "list", !.announce = TRUE])
    /\ UNCHANGED <<ad, ldapSources, sourceVars, combinedVars, ldapSeeded, changelog, budget, history>>

\* Only a rebuild of a seeded installation announces.
ReadSeeded(x) ==
    /\ At(x, "meta")
    /\ Become(x, [w[x] EXCEPT !.pc = "list", !.announce = ldapSeeded])
    /\ UNCHANGED <<ad, ldapSources, sourceVars, combinedVars, ldapSeeded, changelog, budget, history>>

----------------------------------------------------------------------------
(* RebuildLdapMirror *)

ListSources(x) ==
    /\ At(x, "list")
    /\ Become(x, [w[x] EXCEPT !.todo = EnabledSources,
                              !.pc = IF w[x].announce THEN "snapshot" ELSE "gather"])
    /\ UNCHANGED <<ad, ldapSources, sourceVars, combinedVars, ldapSeeded, changelog, budget, history>>

SnapshotMirror(x) ==
    /\ At(x, "snapshot")
    /\ Become(x, [w[x] EXCEPT !.pc = "gather", !.old = ldapmirror])
    /\ UNCHANGED <<ad, ldapSources, sourceVars, combinedVars, ldapSeeded, changelog, budget, history>>

\* The rows logChange writes for the persons of one source not seen before.
Announcements(x, mirror) ==
    LET new == PersonsOf(mirror) \ w[x].seen
        unknown == new \ PersonsOf(w[x].old)
        retitled == {p \in new \ unknown : FirstTitle(w[x].old, p) # FirstTitle(mirror, p)}
    IN {[type |-> "Employee", person |-> p, new |-> FirstTitle(mirror, p)] : p \in unknown}
       \cup {[type |-> "Title", person |-> p, new |-> FirstTitle(mirror, p)] : p \in retitled}

\* One enabled source: the earlier source keeps a person's directory entry, the
\* later one a placement with the same key.  The two reads are one step: a
\* PutSourceDir between them has the effect of one before both.
Gather(x) ==
    /\ At(x, "gather")
    /\ DOMAIN w[x].todo # {}
    /\ LET i == Cur(x) IN
       /\ Become(x, [w[x] EXCEPT
              !.todo = Without(@, i),
              !.seen = IF w[x].announce THEN @ \cup PersonsOf(srcMirror[i]) ELSE @,
              !.combined = Override(@, srcMirror[i]),
              !.allDir = Override(srcDir[i], @)])
       /\ changelog' = IF w[x].announce
                       THEN changelog \cup Announcements(x, srcMirror[i])
                       ELSE changelog
    /\ UNCHANGED <<ad, ldapSources, sourceVars, combinedVars, ldapSeeded, budget, history>>

ReplaceDirectory(x) ==
    /\ At(x, "gather")
    /\ DOMAIN w[x].todo = {}
    /\ directory' = w[x].allDir
    /\ Goto(x, "replacemirror")
    /\ UNCHANGED <<ad, ldapSources, sourceVars, ldapmirror, ldapSeeded, changelog, budget, history>>

\* Mutant: the new placements are merged into the old ones.
ReplaceLdap_Merge(x) ==
    /\ At(x, "replacemirror")
    /\ ldapmirror' = Override(ldapmirror, w[x].combined)
    /\ published' = TRUE
    /\ IF w[x].full THEN Goto(x, "setmeta") ELSE Done(x)
    /\ UNCHANGED <<ad, ldapSources, sourceVars, directory, ldapSeeded, changelog, budget, steady>>

ReplaceLdap(x) ==
    /\ At(x, "replacemirror")
    /\ ldapmirror' = w[x].combined
    /\ published' = TRUE
    /\ IF w[x].full THEN Goto(x, "setmeta") ELSE Done(x)
    /\ UNCHANGED <<ad, ldapSources, sourceVars, directory, ldapSeeded, changelog, budget, steady>>

SetSeeded(x) ==
    /\ At(x, "setmeta")
    /\ ldapSeeded' = TRUE
    /\ Done(x)
    /\ UNCHANGED <<ad, ldapSources, sourceVars, combinedVars, changelog, budget, history>>

----------------------------------------------------------------------------
(* handleAdminPostSync: the LDAP branches *)

\* toggleLdapID and editLdapID: list the sources, change the one in memory.
ModifySource(r) ==
    /\ At(r, "idle")
    /\ Spend("admin")
    /\ \E i \in DOMAIN ldapSources, d \in BOOLEAN, c \in Confs :
        /\ d = ldapSources[i].disabled \/ c = ldapSources[i].conf
        /\ Become(r, [Idle EXCEPT !.pc = "put",
              !.todo = [j \in {i} |-> [disabled |-> d, conf |-> c]]])
    /\ UNCHANGED <<ad, ldapSources, sourceVars, combinedVars, ldapSeeded, changelog, history>>

\* A new source gets the id after the largest one in use (nextLdapID); the demo
\* source, whose reserved id does not count, is left out.
NextLdapID == 1 + (IF ldapSources = Empty THEN 0
                   ELSE CHOOSE i \in DOMAIN ldapSources : \A j \in DOMAIN ldapSources : j <= i)

CreateSource(r) ==
    /\ At(r, "idle")
    /\ NextLdapID \in SourceIds
    /\ Spend("admin")
    /\ \E c \in Confs :
        Become(r, [Idle EXCEPT !.pc = "put",
              !.todo = [j \in {NextLdapID} |-> [disabled |-> FALSE, conf |-> c]]])
    /\ UNCHANGED <<ad, ldapSources, sourceVars, combinedVars, ldapSeeded, changelog, history>>

\* ... and write it.
AdminPut(r) ==
    /\ At(r, "put")
    /\ ldapSources' = Override(ldapSources, w[r].todo)
    /\ Done(r)
    /\ UNCHANGED <<ad, sourceVars, combinedVars, ldapSeeded, changelog, budget, published>>
    /\ Interrupt

\* deleteLdapID: the record, the mirror, the snapshot, then a rebuild if seeded.
DeleteSource(r) ==
    /\ At(r, "idle")
    /\ Spend("admin")
    /\ \E i \in DOMAIN ldapSources :
        /\ ldapSources' = Without(ldapSources, i)
        /\ Become(r, [Idle EXCEPT !.pc = "delmirror",
                                  !.todo = [j \in {i} |-> ldapSources[j]]])
    /\ UNCHANGED <<ad, sourceVars, combinedVars, ldapSeeded, changelog, published>>
    /\ Interrupt

DeleteSourceMirror(r) ==
    /\ At(r, "delmirror")
    /\ srcMirror' = [srcMirror EXCEPT ![Cur(r)] = Empty]
    /\ Goto(r, "deldir")
    /\ UNCHANGED <<ad, ldapSources, srcDir, combinedVars, ldapSeeded, changelog, budget, history>>

DeleteSourceDir(r) ==
    /\ At(r, "deldir")
    /\ srcDir' = [srcDir EXCEPT ![Cur(r)] = Empty]
    /\ Goto(r, "delmeta")
    /\ UNCHANGED <<ad, ldapSources, srcMirror, combinedVars, ldapSeeded, changelog, budget, history>>

RebuildIfSeeded(r) ==
    /\ At(r, "delmeta")
    /\ IF ldapSeeded
       THEN Become(r, [Idle EXCEPT !.pc = "list", !.announce = TRUE])
       ELSE Done(r)
    /\ UNCHANGED <<ad, ldapSources, sourceVars, combinedVars, ldapSeeded, changelog, budget, history>>

----------------------------------------------------------------------------
(* Specification *)

\* The combined placements of a set of sources: the last listed source wins.
Combined(S, mirrors) ==
    [k \in UNION {DOMAIN mirrors[i] : i \in S} |->
        LET holders == {i \in S : k \in DOMAIN mirrors[i]}
        IN mirrors[CHOOSE i \in holders : \A j \in holders : j <= i][k]]

AllDerived(dirs) == [i \in SourceIds |-> DeriveMirrorUsers(dirs[i])]

\* A fresh installation, or one upgraded from a version that had only the
\* combined mirror: nothing is seeded, and the old mirror is still there.
Init ==
    /\ ad \in [SourceIds -> DirectoryMap]
    /\ ldapSources \in PartialFcns(SourceIds, LdapSource)
    /\ srcDir = [i \in SourceIds |-> Empty]
    /\ srcMirror = [i \in SourceIds |-> Empty]
    /\ directory = Empty
    /\ published \in BOOLEAN
    /\ ldapmirror = IF published
                    THEN Combined(Enabled(ldapSources), AllDerived(ad))
                    ELSE Empty
    /\ ldapSeeded = FALSE
    /\ changelog = {}
    /\ w = [x \in Workers |-> Idle]
    /\ budget = [hr |-> MaxHR, admin |-> MaxAdmin, manual |-> MaxManual, crash |-> MaxCrash]
    /\ steady = LivePlacements

\* The next step of a worker that has started, except a failing fetch.
Proceed(x) ==
    \/ SingleStart(x) \/ Begin(x)
    \/ PutSourceDir(x) \/ PutSourceMirror(x) \/ PutLdapSource(x) \/ ReadSeeded(x)
    \/ ListSources(x) \/ SnapshotMirror(x) \/ Gather(x)
    \/ ReplaceDirectory(x) \/ ReplaceLdap(x) \/ SetSeeded(x)
    \/ AdminPut(x) \/ DeleteSourceMirror(x) \/ DeleteSourceDir(x) \/ RebuildIfSeeded(x)

Work(x) == FetchOk(x) \/ FetchFails(x) \/ Proceed(x)

Request(r) ==
    \/ HandleRestLdapSync(r) \/ HandleRestLdap(r)
    \/ ModifySource(r) \/ CreateSource(r) \/ DeleteSource(r)

Next ==
    \/ HRChange
    \/ Crash
    \/ ScheduledSync
    \/ \E r \in Requests : Request(r)
    \/ \E x \in Workers : Work(x)

Spec == Init /\ [][Next]_vars

\* Every started handler goes on, the timer keeps firing, and each directory
\* the scheduler keeps asking answers again and again (a sync that fails is
\* tried again an hour later, for as long as the process lives).
Fairness ==
    /\ \A x \in Workers : WF_vars(Work(x))
    /\ WF_vars(ScheduledSync)
    /\ \A i \in SourceIds : SF_vars(FetchOk(Scheduler) /\ Cur(Scheduler) = i)

FairSpec == Spec /\ Fairness

----------------------------------------------------------------------------
(* Properties *)

TypeOK ==
    /\ ad \in [SourceIds -> DirectoryMap]
    /\ ldapSources \in PartialFcns(SourceIds, LdapSource)
    /\ srcDir \in [SourceIds -> DirectoryMap]
    /\ srcMirror \in [SourceIds -> MirrorMap]
    /\ directory \in DirectoryMap
    /\ ldapmirror \in MirrorMap
    /\ ldapSeeded \in BOOLEAN
    /\ changelog \subseteq LogEntry
    /\ w \in [Workers -> WorkerState]
    /\ budget \in [{"hr", "admin", "manual", "crash"} -> Nat]
    /\ steady \subseteq SourceIds \X Persons \X Offices
    /\ published \in BOOLEAN

\* The reason per-source buckets and the ldapSeeded fallback exist: someone who
\* stays in the directory of a source that stays enabled never drops off the
\* combined mirror, whatever syncs overlap, fail, crash or are cut to one
\* source, and whatever the admin does to the other sources.
StaysPublished ==
    published => \A t \in steady : <<t[2], t[3]>> \in DOMAIN ldapmirror

\* RebuildLdapMirror's promise that seeding and re-syncing existing data
\* announces nobody: the same people never appear as new employees.
NeverAnnouncedAsNew ==
    \A t \in steady : ~\E e \in changelog : e.type = "Employee" /\ e.person = t[2]

\* Once administrators stop, the scheduler alone brings the combined mirror to
\* what the directories of the enabled sources say, whatever stale unions the
\* overlapping syncs have written before.
Converges ==
    <>[]AnyLdapSourceEnabled
        => <>[](ldapmirror = Combined(Enabled(ldapSources), AllDerived(ad)))

\* RunADSyncProg (ldap.go:76) skips deactivated sources: no sync re-activates one.
OnlyAdminEnables ==
    [][\A i \in DOMAIN ldapSources :
          (ldapSources[i].disabled /\ i \in Enabled(ldapSources'))
              => \E r \in Requests : AdminPut(r)]_vars
=============================================================================
