------------------------ MODULE IdentifierMigration ------------------------
(***************************************************************************)
(* The identifier migration assistant (internal/web/identifiermigrate.go): *)
(* every stored reference to a person is converted between the account     *)
(* name and the mail address.  "Create" stages the converted rows, "Apply" *)
(* copies them over the live ones, renames the avatars and flips the       *)
(* setting.  Both run in the background behind one progress tracker while  *)
(* people sign in, book and cancel, staging expires and the process may    *)
(* die.  Each bolt transaction and each file operation is one step.        *)
(*                                                                         *)
(* A row is <<entry, form>>: an entry of an area that refers to a person,  *)
(* and the form of the identifier in it.  One entry per person and area    *)
(* stands for the many that are converted alike; a second one is a booking *)
(* made meanwhile.  Local accounts have one identifier only and are left   *)
(* out, and so is the audit logging.                                       *)
(*                                                                         *)
(* Nobody shares an address with somebody else: the records of two who do  *)
(* are the same ones in the mail form, and whether buildMigPlan calls them *)
(* a collision depends on who is in the directory at the time.             *)
(***************************************************************************)
EXTENDS Integers, Sequences

CONSTANTS
    People,     \* people referred to by the data
    Mailless,   \* those without a mail address; the others have one of their own
    Registered, \* those with a user record (mapadmins) from the start
    Workers,    \* handlers of Create and Apply with the goroutine they start
    Purgers,    \* the janitor, and handlers of StageResult
    MaxRuns,    \* bound: Create and Apply requests
    MaxCancel, MaxExpire, MaxCrash, MaxFail,  \* bounds: what may go wrong
    MaxEdit     \* bound: sign-ins, bookings, cancellations, people who leave

ASSUME PeopleAssumption == Mailless \subseteq People /\ Registered \subseteq People
ASSUME BoundsAssumption ==
    {MaxRuns, MaxCancel, MaxExpire, MaxCrash, MaxFail, MaxEdit} \subseteq Nat

VARIABLES
    ident,     \* setting "identifier"
    live,      \* area -> its rows
    avatars,   \* files of avatarcache
    stage,     \* area -> staging bucket, or NoBucket
    info,      \* the "info" record of migstage_meta, or NoInfo
    dir,       \* people in the directory snapshot
    dirForm,   \* the form of their Userid there
    running,   \* migrateProg.running
    job,       \* local state of each worker
    stale,     \* purgers that have read an expired info record
    sessions,  \* signed-in person -> form of the session's names
    budget,    \* what is left of each bound
    due        \* history: area -> entries with a staged row of theirs, to be applied

stored == <<ident, live, avatars>>
staging == <<stage, info>>
world  == <<dir, sessions>>
vars == <<ident, live, avatars, stage, info, dir, dirForm, running, job, stale,
          sessions, budget, due>>

Forms == {"samaccountname", "mail"}
Areas == <<"audit", "changelog", "bookings", "desks", "admins">>
Area  == {Areas[n] : n \in DOMAIN Areas}
Entry == People \X {1, 2}
Rows  == SUBSET (Entry \X Forms)
Entries(rows) == {r[1] : r \in rows}
Files == People \X Forms
Bucket == [gen : 0..MaxRuns, rows : Rows]
Info   == [gen : 0..MaxRuns, target : Forms, expired : BOOLEAN]
None     == [a \in {} |-> a]
NoBucket == [gen |-> 0, rows |-> {}]
NoInfo   == [gen |-> 0, target |-> "mail", expired |-> FALSE]
NoStage  == [a \in Area |-> NoBucket]

\* kind, target: the request; gen: a number of the run; plan: the people that
\* buildMigPlan maps; n: the area that is next; todo: avatar files to rename.
Job  == [pc : {"idle", "start", "purge", "plan", "stage", "info", "read", "apply", "remap",
               "avatars", "remove", "resync", "cleanup"},
         kind : {"create", "apply"}, target : Forms, gen : 0..MaxRuns,
         plan : SUBSET People, n : 1..Len(Areas), todo : SUBSET Files]
Idle == [pc |-> "idle", kind |-> "create", target |-> "mail", gen |-> 0,
         plan |-> {}, n |-> 1, todo |-> {}]

At(x, pc) == job[x].pc = pc
Become(x, st) == job' = [job EXCEPT ![x] = st]
Goto(x, pc) == job' = [job EXCEPT ![x].pc = pc]
\* Finish of migrateProg, and the goroutine ends.
Finish(x) == Become(x, Idle) /\ running' = FALSE
Spend(b) == budget[b] > 0 /\ budget' = [budget EXCEPT ![b] = @ - 1]
purge == stage' = NoStage /\ info' = NoInfo

----------------------------------------------------------------------------
(* Requests *)

\* validMigTarget: the target is the other form.
Request(x) ==
    /\ At(x, "idle")
    /\ Spend("runs")
    /\ \E kind \in {"create", "apply"}, t \in Forms \ {ident} :
        Become(x, [Idle EXCEPT !.pc = "start", !.kind = kind, !.target = t,
                               !.gen = budget.runs])
    /\ UNCHANGED <<stored, staging, world, dirForm, running, stale, due>>

\* Mutant: a job is started although one is in flight.
Start_Always(x) ==
    /\ At(x, "start")
    /\ running' = TRUE
    /\ Goto(x, IF job[x].kind = "create" THEN "purge" ELSE "read")
    /\ UNCHANGED <<stored, staging, world, dirForm, stale, budget, due>>

\* migrateProg.Start refuses a second job.
Start(x) ==
    /\ At(x, "start")
    /\ running' = TRUE
    /\ IF running THEN Become(x, Idle)
       ELSE Goto(x, IF job[x].kind = "create" THEN "purge" ELSE "read")
    /\ UNCHANGED <<stored, staging, world, dirForm, stale, budget, due>>

\* Any error or panic of the goroutine ends in Finish.
JobFails(x) ==
    /\ \/ job[x].pc \in {"plan", "stage", "info", "apply"}
       \/ At(x, "avatars") /\ job[x].todo = {}
    /\ Spend("fail")
    /\ Finish(x)
    /\ UNCHANGED <<stored, staging, world, dirForm, stale, due>>

----------------------------------------------------------------------------
(* runIdentifierStage *)

\* purgeStaging: at the start of a Create, or when Apply finds staging expired.
Purge(x) ==
    /\ At(x, "purge")
    /\ purge
    /\ IF job[x].kind = "create" THEN Goto(x, "plan") /\ UNCHANGED running
                                 ELSE Finish(x)
    /\ UNCHANGED <<stored, world, dirForm, stale, budget, due>>

\* Mutant: people without a mail address are mapped as well.
Planned_Everyone(target) == IF dirForm = target THEN {} ELSE dir

\* buildMigPlan maps the Userids of the directory snapshot: nobody when they
\* have the target form already, nobody whose target identifier is empty.
Planned(target) == IF dirForm = target THEN {} ELSE dir \ Mailless

\* Mutant: the early return on an empty directory forgets Finish.
Plan_NoFinish(x) ==
    /\ At(x, "plan")
    /\ IF job[x].kind = "create" /\ dir = {} THEN Become(x, Idle)
       ELSE Become(x, [job[x] EXCEPT !.pc = IF job[x].kind = "create" THEN "stage" ELSE "apply",
                                     !.plan = Planned(job[x].target)])
    /\ UNCHANGED <<stored, staging, world, dirForm, running, stale, budget, due>>

Plan(x) ==
    /\ At(x, "plan")
    /\ IF job[x].kind = "create" /\ dir = {} THEN Finish(x)
       ELSE /\ Become(x, [job[x] EXCEPT
                   !.pc = IF job[x].kind = "create" THEN "stage" ELSE "apply",
                   !.plan = Planned(job[x].target)])
            /\ UNCHANGED running
    /\ UNCHANGED <<stored, staging, world, dirForm, stale, budget, due>>

\* Mutant: the position is not reset.
NextArea_NoReset(x, done) ==
    Become(x, [job[x] EXCEPT !.pc = IF job[x].n = Len(Areas) THEN done ELSE @, !.n = @ + 1])

NextArea(x, done) ==
    Become(x, IF job[x].n = Len(Areas) THEN [job[x] EXCEPT !.pc = done, !.n = 1]
                                       ELSE [job[x] EXCEPT !.n = @ + 1])

\* StageTransform: the bucket is created anew with the rows that change.
StageArea(x) ==
    /\ At(x, "stage")
    /\ LET a == Areas[job[x].n]
           es == {r[1] : r \in {q \in live[a] : q[1][1] \in job[x].plan /\ q[2] # job[x].target}}
       IN /\ stage' = [stage EXCEPT ![a] =
                           [gen |-> job[x].gen, rows |-> es \X {job[x].target}]]
          /\ due' = [due EXCEPT ![a] = es]
    /\ NextArea(x, "info")
    /\ UNCHANGED <<stored, info, world, dirForm, running, stale, budget>>

WriteInfo(x) ==
    /\ At(x, "info")
    /\ info' = [gen |-> job[x].gen, target |-> job[x].target, expired |-> FALSE]
    /\ Finish(x)
    /\ UNCHANGED <<stored, stage, world, dirForm, stale, budget, due>>

----------------------------------------------------------------------------
(* runIdentifierApply *)

ReadInfo(x) ==
    /\ At(x, "read")
    /\ IF info = NoInfo \/ info.target # job[x].target THEN Finish(x)
       ELSE Goto(x, IF info.expired THEN "purge" ELSE "plan") /\ UNCHANGED running
    /\ UNCHANGED <<stored, staging, world, dirForm, stale, budget, due>>

\* ApplyStaged: a staged row replaces the live one, or is put when that is gone;
\* a map admin gets the new key and loses the old one.  A missing bucket is no error.
Applied(rows, staged) == {r \in rows : r[1] \notin Entries(staged)} \cup staged

\* Mutant: the last area is forgotten.
ApplyArea_Forgets(x) ==
    /\ At(x, "apply")
    /\ LET a == Areas[job[x].n] IN
       live' = IF a = "admins" THEN live
               ELSE [live EXCEPT ![a] = Applied(@, stage[a].rows)]
    /\ NextArea(x, "remap")
    /\ UNCHANGED <<ident, avatars, staging, world, dirForm, running, stale, budget, due>>

ApplyArea(x) ==
    /\ At(x, "apply")
    /\ LET a == Areas[job[x].n] IN
       live' = [live EXCEPT ![a] = Applied(@, stage[a].rows)]
    /\ NextArea(x, "remap")
    /\ UNCHANGED <<ident, avatars, staging, world, dirForm, running, stale, budget, due>>

\* sessions.Remap renames the Username of every session of a mapped person; the
\* avatar directory is read.
Remap(x) ==
    /\ At(x, "remap")
    /\ sessions' = [p \in DOMAIN sessions |->
                      IF p \in job[x].plan THEN [sessions[p] EXCEPT !.username = job[x].target]
                                           ELSE sessions[p]]
    /\ Become(x, [job[x] EXCEPT !.pc = "avatars",
           !.todo = {f \in avatars : f[1] \in job[x].plan /\ f[2] # job[x].target}])
    /\ UNCHANGED <<stored, staging, dir, dirForm, running, stale, budget, due>>

\* The next file of the listing.
File(x) == CHOOSE f \in job[x].todo : TRUE
Done(x) == [job[x] EXCEPT !.pc = "avatars", !.todo = @ \ {File(x)}]

\* Mutant: the old file goes also when the copy fails.
CopyAvatar_NoContinue(x) ==
    /\ At(x, "avatars") /\ job[x].todo # {}
    /\ \/ avatars' = avatars \cup {<<File(x)[1], job[x].target>>} /\ UNCHANGED budget
       \/ Spend("fail") /\ UNCHANGED avatars
    /\ Goto(x, "remove")
    /\ UNCHANGED <<ident, live, staging, world, dirForm, running, stale, due>>

\* copyFile; a file that cannot be copied is left alone.
CopyAvatar(x) ==
    /\ At(x, "avatars") /\ job[x].todo # {}
    /\ \/ /\ avatars' = avatars \cup {<<File(x)[1], job[x].target>>}
          /\ Goto(x, "remove")
          /\ UNCHANGED budget
       \/ Spend("fail") /\ Become(x, Done(x)) /\ UNCHANGED avatars
    /\ UNCHANGED <<ident, live, staging, world, dirForm, running, stale, due>>

\* os.Remove of the file just copied.
RemoveAvatar(x) ==
    /\ At(x, "remove")
    /\ avatars' = avatars \ {File(x)}
    /\ Become(x, Done(x))
    /\ UNCHANGED <<ident, live, staging, world, dirForm, running, stale, budget, due>>

\* SetSetting("identifier"): only now does the new form count.
SetIdentifier(x) ==
    /\ At(x, "avatars") /\ job[x].todo = {}
    /\ ident' = job[x].target
    /\ Goto(x, "resync")
    /\ UNCHANGED <<live, avatars, staging, world, dirForm, running, stale, budget, due>>

\* RunADSync and RunEntraSync rewrite the snapshot in the new form; when they
\* fail this is only logged.
Resync(x) ==
    /\ At(x, "resync")
    /\ \/ dirForm' = ident /\ UNCHANGED budget
       \/ Spend("fail") /\ UNCHANGED dirForm
    /\ Goto(x, "cleanup")
    /\ UNCHANGED <<stored, staging, world, running, stale, due>>

Cleanup(x) ==
    /\ At(x, "cleanup")
    /\ purge
    /\ Finish(x)
    /\ UNCHANGED <<stored, world, dirForm, stale, budget, due>>

----------------------------------------------------------------------------
(* Meanwhile *)

\* handleRestIdentifierCancel drops the buckets, whatever runs.
Cancel ==
    /\ Spend("cancel")
    /\ purge
    /\ UNCHANGED <<stored, world, dirForm, running, job, stale, due>>

\* An hour has passed since the info record was written.
Expire ==
    /\ info # NoInfo /\ ~info.expired
    /\ Spend("expire")
    /\ info' = [info EXCEPT !.expired = TRUE]
    /\ UNCHANGED <<stored, stage, world, dirForm, running, job, stale, due>>

\* purgeStaleStaging and StageResult: read the record, then purge.
FindStale(q) ==
    /\ q \notin stale /\ info # NoInfo /\ info.expired
    /\ stale' = stale \cup {q}
    /\ UNCHANGED <<stored, staging, world, dirForm, running, job, budget, due>>

PurgeStale(q) ==
    /\ q \in stale
    /\ purge
    /\ stale' = stale \ {q}
    /\ UNCHANGED <<stored, world, dirForm, running, job, budget, due>>

\* The process dies and is started again: sessions and the tracker are memory.
Crash ==
    /\ Spend("crash")
    /\ job' = [x \in Workers |-> Idle] /\ running' = FALSE
    /\ stale' = {} /\ sessions' = None
    /\ UNCHANGED <<stored, staging, dir, dirForm, due>>

\* The hourly directory sync.
ScheduledSync ==
    /\ dirForm' = ident
    /\ UNCHANGED <<stored, staging, world, running, job, stale, budget, due>>

\* Someone leaves or joins; the next sync has it in the snapshot.
HRChange ==
    /\ Spend("edit")
    /\ \E p \in People : dir' = IF p \in dir THEN dir \ {p} ELSE dir \cup {p}
    /\ UNCHANGED <<stored, staging, sessions, dirForm, running, job, stale, due>>

\* SAML login: the names come from the current setting, and without a mail
\* attribute there is none in the mail setting; a user record that is not there
\* under that name is created.
SignIn(p) ==
    /\ Spend("edit")
    /\ ident = "mail" => p \notin Mailless
    /\ sessions' = [q \in DOMAIN sessions \cup {p} |->
                      IF q = p THEN [username |-> ident, samaccountname |-> ident]
                               ELSE sessions[q]]
    /\ live' = [live EXCEPT !["admins"] = @ \cup {<<<<p, 1>>, ident>>}]
    /\ UNCHANGED <<ident, avatars, staging, dir, dirForm, running, job, stale, due>>

\* handleRestBooking goes by the session's samaccountname.  A booking that takes
\* the place of one that was staged and cancelled is not the staged one.
Book(p) ==
    /\ p \in DOMAIN sessions /\ <<p, 2>> \notin Entries(live["bookings"])
    /\ Spend("edit")
    /\ live' = [live EXCEPT !["bookings"] = @ \cup {<<<<p, 2>>, sessions[p].samaccountname>>}]
    /\ due' = [due EXCEPT !["bookings"] = @ \ {<<p, 2>>}]
    /\ UNCHANGED <<ident, avatars, staging, world, dirForm, running, job, stale>>

CancelBooking(p) ==
    /\ p \in DOMAIN sessions
    /\ Spend("edit")
    /\ live' = [live EXCEPT !["bookings"] =
                   {r \in @ : r[1][1] # p \/ r[2] # sessions[p].samaccountname}]
    /\ UNCHANGED <<ident, avatars, staging, world, dirForm, running, job, stale, due>>

----------------------------------------------------------------------------
(* Specification *)

Init ==
    /\ ident = "samaccountname" /\ dirForm = ident /\ dir = People
    /\ live = [a \in Area |->
                 ((IF a = "admins" THEN Registered ELSE People) \X {1}) \X {ident}]
    /\ avatars = People \X {ident}
    /\ stage = NoStage /\ info = NoInfo
    /\ running = FALSE /\ job = [x \in Workers |-> Idle] /\ stale = {}
    /\ sessions = None
    /\ budget = [runs |-> MaxRuns, cancel |-> MaxCancel, expire |-> MaxExpire,
                 crash |-> MaxCrash, fail |-> MaxFail, edit |-> MaxEdit]
    /\ due = [a \in Area |-> {}]

Step(x) ==
    \/ Start(x) \/ Purge(x) \/ Plan(x) \/ StageArea(x) \/ WriteInfo(x)
    \/ ReadInfo(x) \/ ApplyArea(x) \/ Remap(x) \/ CopyAvatar(x) \/ RemoveAvatar(x)
    \/ SetIdentifier(x) \/ Resync(x) \/ Cleanup(x)

Next ==
    \/ \E x \in Workers : Request(x) \/ Step(x) \/ JobFails(x)
    \/ Cancel \/ Expire
    \/ \E q \in Purgers : FindStale(q) \/ PurgeStale(q)
    \/ Crash \/ ScheduledSync \/ HRChange
    \/ \E p \in People : SignIn(p) \/ Book(p) \/ CancelBooking(p)

\* A goroutine that was started goes on.
Fairness == \A x \in Workers : WF_vars(Step(x))

Spec     == Init /\ [][Next]_vars
FairSpec == Spec /\ Fairness

----------------------------------------------------------------------------
(* Properties *)

TypeOK ==
    /\ ident \in Forms /\ dirForm \in Forms /\ dir \subseteq People
    /\ live \in [Area -> Rows] /\ avatars \subseteq Files
    /\ stage \in [Area -> Bucket]
    /\ info \in Info
    /\ running \in BOOLEAN /\ job \in [Workers -> Job] /\ stale \subseteq Purgers
    /\ DOMAIN sessions \subseteq People
    /\ \A p \in DOMAIN sessions : sessions[p] \in [username : Forms, samaccountname : Forms]
    /\ budget \in [{"runs", "cancel", "expire", "crash", "fail", "edit"} -> Nat]
    /\ budget.runs <= MaxRuns
    /\ due \in [Area -> SUBSET Entry]

\* Apply is offered for what the info record describes: whatever is cancelled,
\* expires, fails or crashes, the buckets beside the record are of the staging
\* run that wrote it, never a mix with an earlier or a concurrent one.
OneGeneration ==
    info # NoInfo => \A a \in Area : stage[a] = NoBucket \/ stage[a].gen = info.gen

\* identifiermigrate.go:17: the setting "is flipped only after the data has been
\* converted": every entry the staging has converted, and that is still there,
\* is in the new form.
Converted ==
    \A a \in Area : \A e \in due[a] :
        e \in Entries(live[a]) => <<e, ident'>> \in live[a]
FlippedOnlyConverted == [][ident' # ident => Converted]_vars

\* The same as long as nobody cancels and nothing expires, with crashes and
\* errors at any point, sign-ins, bookings, cancellations and people leaving.
Undisturbed == budget.cancel = MaxCancel /\ budget.expire = MaxExpire
ConvertedUnlessPurged == [][ident' # ident /\ Undisturbed => Converted]_vars

\* buildMigPlan skips conflicts, "leaving their existing data untouched": whoever
\* has no mail address stays referred to by the account name in every row and
\* file, whatever is planned, staged, applied again, booked or signed in meanwhile.
ConflictsUntouched ==
    /\ \A a \in Area : \A r \in live[a] : r[1][1] \in Mailless => r[2] # "mail"
    /\ \A f \in avatars : f[1] \in Mailless => f[2] # "mail"

\* Copying comes before removing, and a failed copy stops the rename: nobody
\* loses the avatar, wherever the process dies.
AvatarKept == \A p \in People : \E f \in avatars : f[1] = p

\* Every way out of a job goes through Finish, so that the next one can start.
TrackerReleased == running ~> ~running

\* auth/session.go:69: "admins who are already signed in are not logged out":
\* whenever no job is running their sessions name a user record.
SessionsFollow ==
    ~running => \A p \in DOMAIN sessions : <<<<p, 1>>, sessions[p].username>> \in live["admins"]

\* identifiermigrate.go:17 once more, for every later migration as well: after a
\* flip nobody in the directory who has both identifiers has old data.
NothingLeftBehind ==
    [][ident' # ident =>
          \A a \in Area : \A r \in live[a] : r[1][1] \in dir \ Mailless => r[2] = ident']_vars
=============================================================================
