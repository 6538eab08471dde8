--------------------- MODULE IdentifierMigrationProofs ---------------------
(***************************************************************************)
(* What IdentifierMigration guarantees for any people, any number of jobs  *)
(* and janitors, and any number of errors, crashes and edits.              *)
(***************************************************************************)
EXTENDS IdentifierMigration, TLAPS

----------------------------------------------------------------------------
(* The inductive invariant *)

\* A worker whose job has been let in by the tracker and has not ended.
Active(x) == job[x].pc \notin {"idle", "start"}

\* The tracker lets one job in at a time.
OneJob ==
    /\ \A x \in Workers : Active(x) => running
    /\ \A x, y \in Workers : Active(x) /\ Active(y) => x = y

\* Only an Apply reads the info record.
Kinds == \A x \in Workers : job[x].pc = "read" => job[x].kind = "apply"

\* From the purge to the info record a Create has the staging for itself: there
\* is no record, and every bucket is its own.
Creating(x) == \/ job[x].pc \in {"stage", "info"}
               \/ job[x].pc = "plan" /\ job[x].kind = "create"
OwnBuckets ==
    \A x \in Workers : Creating(x) =>
        /\ info = NoInfo
        /\ \A a \in Area : stage[a] = NoBucket \/ stage[a].gen = job[x].gen

\* Neither the staging, a plan, a list of avatars nor a session gives a mail
\* address to somebody who has none.
NoMail ==
    /\ \A a \in Area : \A r \in stage[a].rows : r[1][1] \in Mailless => r[2] # "mail"
    /\ \A x \in Workers : /\ job[x].plan \cap Mailless = {}
                          /\ \A f \in job[x].todo : f[1] \notin Mailless
    /\ \A p \in DOMAIN sessions : p \in Mailless => sessions[p].samaccountname # "mail"

\* What is about to be removed has been copied to another name.
Copied ==
    \A x \in Workers :
        /\ \A f \in job[x].todo : f[2] # job[x].target
        /\ job[x].pc = "remove" =>
              /\ job[x].todo # {}
              /\ <<File(x)[1], job[x].target>> \in avatars

IInv ==
    /\ TypeOK /\ OneJob /\ Kinds /\ OwnBuckets /\ OneGeneration
    /\ NoMail /\ ConflictsUntouched /\ Copied /\ AvatarKept

----------------------------------------------------------------------------
(* Types *)

\* The areas and the values the variables start with have their types.
LEMMA Constants ==
    /\ Area = {"audit", "changelog", "bookings", "desks", "admins"}
    /\ Len(Areas) = 5 /\ \A n \in 1..5 : Areas[n] \in Area
    /\ Idle \in Job
    /\ NoInfo \in Info /\ NoBucket \in Bucket /\ NoStage \in [Area -> Bucket]
<1> USE BoundsAssumption
<1>1. /\ Len(Areas) = 5 /\ DOMAIN Areas = 1..5
      /\ Areas[1] = "audit" /\ Areas[2] = "changelog" /\ Areas[3] = "bookings"
      /\ Areas[4] = "desks" /\ Areas[5] = "admins"
  BY DEF Areas
<1>2. 1..5 = {1, 2, 3, 4, 5}
  OBVIOUS
<1>3. Area = {"audit", "changelog", "bookings", "desks", "admins"}
  BY <1>1, <1>2 DEF Area
<1>4. \A n \in 1..5 : Areas[n] \in Area
  BY <1>1 DEF Area
<1>5. Idle \in Job
  BY <1>1 DEF Idle, Job, Forms
<1>6. NoInfo \in Info /\ NoBucket \in Bucket
  BY DEF NoInfo, NoBucket, Info, Bucket, Forms, Rows
<1>7. NoStage \in [Area -> Bucket]
  BY <1>6 DEF NoStage
<1> QED
  BY <1>1, <1>3, <1>4, <1>5, <1>6, <1>7

\* The invariant holds at first.
LEMMA InitInv == Init => IInv
<1> SUFFICES ASSUME Init PROVE IInv
  OBVIOUS
<1> USE PeopleAssumption, BoundsAssumption, Constants
<1>1. TypeOK
  <2>1. ident \in Forms /\ dirForm \in Forms /\ dir \subseteq People
    BY DEF Init, Forms
  <2>2. avatars \subseteq Files
    BY <2>1 DEF Init, Files
  <2>3. live \in [Area -> Rows]
    BY <2>1 DEF Init, Rows, Entry
  <2>4. stage \in [Area -> Bucket] /\ info \in Info
    BY DEF Init
  <2>5. running \in BOOLEAN /\ job \in [Workers -> Job] /\ stale \subseteq Purgers
    BY DEF Init
  <2>6. DOMAIN sessions = {}
    BY DEF Init, None
  <2>7. budget \in [{"runs", "cancel", "expire", "crash", "fail", "edit"} -> Nat]
        /\ budget.runs <= MaxRuns
    BY DEF Init
  <2>8. due \in [Area -> SUBSET Entry]
    BY DEF Init
  <2> QED
    BY <2>1, <2>2, <2>3, <2>4, <2>5, <2>6, <2>7, <2>8 DEF TypeOK
<1>2. OneJob /\ Kinds /\ OwnBuckets /\ Copied
  BY DEF Init, OneJob, Kinds, OwnBuckets, Copied, Active, Creating, Idle
<1>3. OneGeneration
  BY DEF Init, OneGeneration
<1>4. NoMail /\ ConflictsUntouched
  BY DEF Init, NoMail, ConflictsUntouched, NoStage, NoBucket, Idle, None
<1>5. AvatarKept
  <2>1. \A p \in People : <<p, ident>> \in avatars
    BY DEF Init
  <2> QED
    BY <2>1 DEF AvatarKept
<1> QED
  BY <1>1, <1>2, <1>3, <1>4, <1>5 DEF IInv

\* A bound that is spent stays within its type.
LEMMA SpendType ==
    ASSUME TypeOK, NEW b \in {"runs", "cancel", "expire", "crash", "fail", "edit"}, Spend(b)
    PROVE  /\ budget' \in [{"runs", "cancel", "expire", "crash", "fail", "edit"} -> Nat]
           /\ budget'.runs <= MaxRuns
<1> USE BoundsAssumption
<1>1. budget[b] \in Nat /\ budget[b] - 1 \in Nat /\ budget.runs \in Nat /\ MaxRuns \in Nat
  BY DEF TypeOK, Spend
<1> QED
  BY <1>1 DEF TypeOK, Spend

\* Every way a worker's record is written keeps its type.
LEMMA JobType ==
    ASSUME TypeOK, NEW x \in Workers
    PROVE  /\ job[x] \in Job
           /\ \A st \in Job : Become(x, st) => job' \in [Workers -> Job]
           /\ (Finish(x) \/ Become(x, Idle)) => job' \in [Workers -> Job]
           /\ \A pc \in {"start", "purge", "plan", "stage", "info", "read", "apply", "remap",
                         "avatars", "remove", "resync", "cleanup"} :
                 Goto(x, pc) => job' \in [Workers -> Job]
<1>1. job[x] \in Job
  BY DEF TypeOK
<1>2. \A st \in Job : Become(x, st) => job' \in [Workers -> Job]
  BY DEF TypeOK, Become
<1>3. (Finish(x) \/ Become(x, Idle)) => job' \in [Workers -> Job]
  BY <1>2, Constants DEF Finish
<1>4. ASSUME NEW pc \in {"start", "purge", "plan", "stage", "info", "read", "apply", "remap",
                         "avatars", "remove", "resync", "cleanup"}, Goto(x, pc)
      PROVE  job' \in [Workers -> Job]
  <2>1. [job[x] EXCEPT !.pc = pc] \in Job
    BY <1>1 DEF Job
  <2> QED
    BY <2>1, <1>4 DEF Goto, TypeOK
<1> QED
  BY <1>1, <1>2, <1>3, <1>4

\* The position among the areas stays in range.
LEMMA NextAreaType ==
    ASSUME TypeOK, NEW x \in Workers, NEW done \in {"info", "remap"}, NextArea(x, done)
    PROVE  job' \in [Workers -> Job]
<1>1. job[x] \in Job /\ job[x].n \in 1..5
  BY JobType, Constants DEF Job
<1>2. 1 \in 1..Len(Areas) /\ (job[x].n # 5 => job[x].n + 1 \in 1..Len(Areas))
  BY <1>1, Constants
<1>3. [job[x] EXCEPT !.pc = done, !.n = 1] \in Job
  BY <1>1, <1>2 DEF Job
<1>4. job[x].n # 5 => [job[x] EXCEPT !.n = @ + 1] \in Job
  BY <1>1, <1>2 DEF Job
<1> QED
  BY <1>3, <1>4, JobType, Constants DEF NextArea

\* The file that is next is one of the list, and its new name is a file name.
LEMMA FileType ==
    ASSUME TypeOK, NEW x \in Workers, job[x].todo # {}
    PROVE  File(x) \in job[x].todo /\ <<File(x)[1], job[x].target>> \in Files
<1>1. File(x) \in job[x].todo
  BY DEF File
<1> QED
  BY <1>1, JobType DEF Job, Files

\* A record whose file is done with keeps its type.
LEMMA DoneType ==
    ASSUME TypeOK, NEW x \in Workers
    PROVE  Done(x) \in Job
BY JobType DEF Done, Job

\* Every step keeps the types.
LEMMA TypeStep == TypeOK /\ [Next]_vars => TypeOK'
<1> SUFFICES ASSUME TypeOK, [Next]_vars PROVE TypeOK'
  OBVIOUS
<1> USE BoundsAssumption, PeopleAssumption
<1>1. ASSUME NEW x \in Workers, Request(x) PROVE TypeOK'
  <2>1. budget.runs \in 0..MaxRuns
    BY DEF TypeOK
  <2>2. \A kind \in {"create", "apply"}, t \in Forms :
           [Idle EXCEPT !.pc = "start", !.kind = kind, !.target = t, !.gen = budget.runs] \in Job
    BY <2>1, Constants DEF Job
  <2>3. job' \in [Workers -> Job]
    BY <1>1, <2>2, JobType DEF Request
  <2>4. /\ budget' \in [{"runs", "cancel", "expire", "crash", "fail", "edit"} -> Nat]
        /\ budget'.runs <= MaxRuns
    BY <1>1, SpendType DEF Request
  <2> QED
    BY <1>1, <2>3, <2>4 DEF Request, TypeOK, stored, staging, world
<1>2. ASSUME NEW x \in Workers, Start(x) PROVE TypeOK'
  <2>1. job' \in [Workers -> Job]
    BY <1>2, JobType DEF Start
  <2> QED
    BY <1>2, <2>1 DEF Start, TypeOK, stored, staging, world
<1>3. ASSUME NEW x \in Workers, JobFails(x) PROVE TypeOK'
  <2>1. job' \in [Workers -> Job]
    BY <1>3, JobType DEF JobFails
  <2>2. /\ budget' \in [{"runs", "cancel", "expire", "crash", "fail", "edit"} -> Nat]
        /\ budget'.runs <= MaxRuns
    BY <1>3, SpendType DEF JobFails
  <2> QED
    BY <1>3, <2>1, <2>2 DEF JobFails, Finish, TypeOK, stored, staging, world
<1>4. ASSUME NEW x \in Workers, Purge(x) PROVE TypeOK'
  <2>1. job' \in [Workers -> Job]
    BY <1>4, JobType DEF Purge
  <2>2. stage' \in [Area -> Bucket] /\ info' \in Info
    BY <1>4, Constants DEF Purge, purge
  <2> QED
    BY <1>4, <2>1, <2>2 DEF Purge, Finish, TypeOK, stored, staging, world
<1>5. ASSUME NEW x \in Workers, Cleanup(x) PROVE TypeOK'
  <2>1. job' \in [Workers -> Job]
    BY <1>5, JobType DEF Cleanup
  <2>2. stage' \in [Area -> Bucket] /\ info' \in Info
    BY <1>5, Constants DEF Cleanup, purge
  <2> QED
    BY <1>5, <2>1, <2>2 DEF Cleanup, Finish, TypeOK, stored, staging, world
<1>6. ASSUME NEW x \in Workers, Plan(x) PROVE TypeOK'
  <2>1. Planned(job[x].target) \subseteq People
    BY DEF Planned, TypeOK
  <2>2. [job[x] EXCEPT !.pc = IF job[x].kind = "create" THEN "stage" ELSE "apply",
                       !.plan = Planned(job[x].target)] \in Job
    <3>1. \A pc \in {"stage", "apply"} :
             [job[x] EXCEPT !.pc = pc, !.plan = Planned(job[x].target)] \in Job
      BY <2>1, JobType DEF Job
    <3> QED
      BY <3>1
  <2>3. job' \in [Workers -> Job]
    BY <1>6, <2>2, JobType DEF Plan
  <2> QED
    BY <1>6, <2>3 DEF Plan, Finish, TypeOK, stored, staging, world
<1>7. ASSUME NEW x \in Workers, StageArea(x) PROVE TypeOK'
  <2>1. Areas[job[x].n] \in Area /\ job[x].gen \in 0..MaxRuns /\ job[x].target \in Forms
    BY JobType, Constants DEF Job
  <2>2. job' \in [Workers -> Job]
    BY <1>7, NextAreaType DEF StageArea
  <2> DEFINE a  == Areas[job[x].n]
             es == {r[1] : r \in {q \in live[a] : q[1][1] \in job[x].plan /\ q[2] # job[x].target}}
  <2>3. es \subseteq Entry
    BY <2>1 DEF TypeOK, Rows
  <2>4. es \X {job[x].target} \in Rows
    BY <2>1, <2>3 DEF Rows
  <2>5. stage' \in [Area -> Bucket]
    <3>1. [gen |-> job[x].gen, rows |-> es \X {job[x].target}] \in Bucket
      BY <2>1, <2>4 DEF Bucket
    <3> QED
      BY <1>7, <2>1, <3>1 DEF StageArea, TypeOK
  <2>6. due' \in [Area -> SUBSET Entry]
    BY <1>7, <2>1, <2>3 DEF StageArea, TypeOK
  <2> QED
    BY <1>7, <2>2, <2>5, <2>6 DEF StageArea, TypeOK, stored, staging, world
<1>8. ASSUME NEW x \in Workers, WriteInfo(x) PROVE TypeOK'
  <2>1. info' \in Info
    BY <1>8, JobType DEF WriteInfo, Info, Job
  <2>2. job' \in [Workers -> Job]
    BY <1>8, JobType DEF WriteInfo
  <2> QED
    BY <1>8, <2>1, <2>2 DEF WriteInfo, Finish, TypeOK, stored, staging, world
<1>9. ASSUME NEW x \in Workers, ReadInfo(x) PROVE TypeOK'
  <2>1. job' \in [Workers -> Job]
    BY <1>9, JobType DEF ReadInfo
  <2> QED
    BY <1>9, <2>1 DEF ReadInfo, Finish, TypeOK, stored, staging, world
<1>10. ASSUME NEW x \in Workers, ApplyArea(x) PROVE TypeOK'
  <2>1. Areas[job[x].n] \in Area
    BY JobType, Constants DEF Job
  <2>2. job' \in [Workers -> Job]
    BY <1>10, NextAreaType DEF ApplyArea
  <2>3. Applied(live[Areas[job[x].n]], stage[Areas[job[x].n]].rows) \in Rows
    BY <2>1 DEF Applied, TypeOK, Bucket, Rows
  <2>4. live' \in [Area -> Rows]
    BY <1>10, <2>1, <2>3 DEF ApplyArea, TypeOK
  <2> QED
    BY <1>10, <2>2, <2>4 DEF ApplyArea, TypeOK, stored, staging, world
<1>11. ASSUME NEW x \in Workers, Remap(x) PROVE TypeOK'
  <2>1. [job[x] EXCEPT !.pc = "avatars",
             !.todo = {f \in avatars : f[1] \in job[x].plan /\ f[2] # job[x].target}] \in Job
    BY JobType DEF Job, TypeOK
  <2>2. job' \in [Workers -> Job]
    BY <1>11, <2>1, JobType DEF Remap
  <2>3. job[x].target \in Forms
    BY JobType DEF Job
  <2>4. /\ DOMAIN sessions' \subseteq People
        /\ \A p \in DOMAIN sessions' :
              sessions'[p] \in [username : Forms, samaccountname : Forms]
    BY <1>11, <2>3 DEF Remap, TypeOK
  <2> QED
    BY <1>11, <2>2, <2>4 DEF Remap, TypeOK, stored, staging, world
<1>12. ASSUME NEW x \in Workers, CopyAvatar(x) PROVE TypeOK'
  <2>1. job' \in [Workers -> Job]
    BY <1>12, JobType, DoneType DEF CopyAvatar
  <2>2. avatars' \subseteq Files
    BY <1>12, FileType DEF CopyAvatar, TypeOK
  <2>3. /\ budget' \in [{"runs", "cancel", "expire", "crash", "fail", "edit"} -> Nat]
        /\ budget'.runs <= MaxRuns
    <3>1. CASE UNCHANGED budget
      BY <3>1 DEF TypeOK
    <3>2. CASE Spend("fail")
      BY <3>2, SpendType
    <3> QED
      BY <1>12, <3>1, <3>2 DEF CopyAvatar
  <2> QED
    BY <1>12, <2>1, <2>2, <2>3 DEF CopyAvatar, TypeOK, stored, staging, world
<1>13. ASSUME NEW x \in Workers, RemoveAvatar(x) PROVE TypeOK'
  <2>1. job' \in [Workers -> Job]
    BY <1>13, JobType, DoneType DEF RemoveAvatar
  <2> QED
    BY <1>13, <2>1 DEF RemoveAvatar, TypeOK, stored, staging, world
<1>14. ASSUME NEW x \in Workers, SetIdentifier(x) PROVE TypeOK'
  <2>1. job' \in [Workers -> Job] /\ job[x].target \in Forms
    BY <1>14, JobType DEF SetIdentifier, Job
  <2> QED
    BY <1>14, <2>1 DEF SetIdentifier, TypeOK, stored, staging, world
<1>15. ASSUME NEW x \in Workers, Resync(x) PROVE TypeOK'
  <2>1. job' \in [Workers -> Job]
    BY <1>15, JobType DEF Resync
  <2>2. /\ budget' \in [{"runs", "cancel", "expire", "crash", "fail", "edit"} -> Nat]
        /\ budget'.runs <= MaxRuns
    <3>1. CASE UNCHANGED budget
      BY <3>1 DEF TypeOK
    <3>2. CASE Spend("fail")
      BY <3>2, SpendType
    <3> QED
      BY <1>15, <3>1, <3>2 DEF Resync
  <2> QED
    BY <1>15, <2>1, <2>2 DEF Resync, TypeOK, stored, staging, world
<1>16. ASSUME Cancel PROVE TypeOK'
  <2>1. stage' \in [Area -> Bucket] /\ info' \in Info
    BY <1>16, Constants DEF Cancel, purge
  <2> QED
    BY <1>16, <2>1, SpendType DEF Cancel, TypeOK, stored, staging, world
<1>17. ASSUME Expire PROVE TypeOK'
  <2>1. info' \in Info
    BY <1>17 DEF Expire, TypeOK, Info
  <2> QED
    BY <1>17, <2>1, SpendType DEF Expire, TypeOK, stored, staging, world
<1>18. ASSUME NEW q \in Purgers, FindStale(q) PROVE TypeOK'
  BY <1>18 DEF FindStale, TypeOK, stored, staging, world
<1>19. ASSUME NEW q \in Purgers, PurgeStale(q) PROVE TypeOK'
  <2>1. stage' \in [Area -> Bucket] /\ info' \in Info
    BY <1>19, Constants DEF PurgeStale, purge
  <2> QED
    BY <1>19, <2>1 DEF PurgeStale, TypeOK, stored, staging, world
<1>20. ASSUME Crash PROVE TypeOK'
  <2>1. job' \in [Workers -> Job] /\ DOMAIN sessions' = {}
    BY <1>20, Constants DEF Crash, None
  <2> QED
    BY <1>20, <2>1, SpendType DEF Crash, TypeOK, stored, staging, world
<1>21. ASSUME ScheduledSync PROVE TypeOK'
  BY <1>21 DEF ScheduledSync, TypeOK, stored, staging, world
<1>22. ASSUME HRChange PROVE TypeOK'
  BY <1>22, SpendType DEF HRChange, TypeOK, stored, staging, world
<1>23. ASSUME NEW p \in People, SignIn(p) PROVE TypeOK'
  <2>1. /\ DOMAIN sessions' \subseteq People
        /\ \A q \in DOMAIN sessions' :
              sessions'[q] \in [username : Forms, samaccountname : Forms]
    BY <1>23 DEF SignIn, TypeOK
  <2>2. live["admins"] \cup {<<<<p, 1>>, ident>>} \in Rows
    BY Constants DEF TypeOK, Rows, Entry
  <2>3. live' \in [Area -> Rows]
    BY <1>23, <2>2 DEF SignIn, TypeOK
  <2> QED
    BY <1>23, <2>1, <2>3, SpendType DEF SignIn, TypeOK, stored, staging, world
<1>24. ASSUME NEW p \in People, Book(p) PROVE TypeOK'
  <2>1. sessions[p].samaccountname \in Forms
    BY <1>24 DEF Book, TypeOK
  <2>2. live["bookings"] \cup {<<<<p, 2>>, sessions[p].samaccountname>>} \in Rows
    BY <2>1, Constants DEF TypeOK, Rows, Entry
  <2>3. live' \in [Area -> Rows]
    BY <1>24, <2>2 DEF Book, TypeOK
  <2>4. due' \in [Area -> SUBSET Entry]
    BY <1>24 DEF Book, TypeOK
  <2> QED
    BY <1>24, <2>3, <2>4, SpendType DEF Book, TypeOK, stored, staging, world
<1>25. ASSUME NEW p \in People, CancelBooking(p) PROVE TypeOK'
  <2>1. live' \in [Area -> Rows]
    BY <1>25, Constants DEF CancelBooking, TypeOK, Rows
  <2> QED
    BY <1>25, <2>1, SpendType DEF CancelBooking, TypeOK, stored, staging, world
<1>26. CASE UNCHANGED vars
  BY <1>26 DEF vars, TypeOK
<1> QED
  BY <1>1, <1>2, <1>3, <1>4, <1>5, <1>6, <1>7, <1>8, <1>9, <1>10, <1>11, <1>12, <1>13, <1>14, <1>15, <1>16, <1>17, <1>18, <1>19, <1>20, <1>21, <1>22, <1>23, <1>24, <1>25, <1>26 DEF Next, Step
----------------------------------------------------------------------------
(* What each step makes of the worker that takes it *)

\* The other workers are as they were.
OthersSame(x) == \A y \in Workers \ {x} : job'[y] = job[y]
\* The request the worker serves, and what it works on, are as they were.
RequestSame(x) == /\ job'[x].kind = job[x].kind /\ job'[x].target = job[x].target
                  /\ job'[x].gen = job[x].gen
WorkSame(x) == job'[x].plan = job[x].plan /\ job'[x].todo = job[x].todo

\* A record that only moves on keeps its request and its work.
LEMMA Moved ==
    ASSUME TypeOK, NEW x \in Workers, NEW pc, Goto(x, pc)
    PROVE  job'[x].pc = pc /\ RequestSame(x) /\ WorkSame(x) /\ OthersSame(x)
<1>1. job'[x] = [job[x] EXCEPT !.pc = pc] /\ OthersSame(x)
  BY DEF TypeOK, Goto, OthersSame
<1> QED
  BY <1>1, JobType DEF Job, RequestSame, WorkSame

\* A job that ends leaves nothing behind in the worker.
LEMMA Ended ==
    ASSUME TypeOK, NEW x \in Workers, Finish(x) \/ Become(x, Idle)
    PROVE  /\ job'[x].pc = "idle" /\ job'[x].plan = {} /\ job'[x].todo = {}
           /\ OthersSame(x)
<1>1. job'[x] = Idle /\ OthersSame(x)
  BY DEF TypeOK, Become, Finish, OthersSame
<1> QED
  BY <1>1 DEF Idle

\* What a request makes of the worker.
LEMMA Requested ==
    ASSUME TypeOK, NEW x \in Workers, Request(x)
    PROVE  /\ job'[x].pc = "start" /\ job'[x].plan = {} /\ job'[x].todo = {}
           /\ OthersSame(x)
<1>1. PICK kind \in {"create", "apply"}, t \in Forms :
         Become(x, [Idle EXCEPT !.pc = "start", !.kind = kind, !.target = t,
                                !.gen = budget.runs])
  BY DEF Request
<1>2. /\ job'[x] = [Idle EXCEPT !.pc = "start", !.kind = kind, !.target = t,
                                !.gen = budget.runs]
      /\ OthersSame(x)
  BY <1>1 DEF TypeOK, Become, OthersSame
<1> QED
  BY <1>2 DEF Idle

\* What the tracker's answer makes of the worker.
LEMMA Started ==
    ASSUME TypeOK, NEW x \in Workers, Start(x)
    PROVE  /\ running => job'[x].pc = "idle"
           /\ job'[x].pc \in {"idle", "purge", "read"}
           /\ job'[x].pc = "read" => job'[x].kind = "apply"
           /\ \/ job'[x].plan = {} /\ job'[x].todo = {}
              \/ RequestSame(x) /\ WorkSame(x)
           /\ OthersSame(x)
<1>1. CASE running
  BY <1>1, Ended DEF Start
<1>2. CASE ~running
  <2>1. job[x].kind \in {"create", "apply"}
    BY JobType DEF Job
  <2>2. CASE job[x].kind = "create"
    BY <1>2, <2>2, Moved DEF Start, RequestSame
  <2>3. CASE job[x].kind = "apply"
    BY <1>2, <2>3, Moved DEF Start, RequestSame
  <2> QED
    BY <2>1, <2>2, <2>3
<1> QED
  BY <1>1, <1>2

\* The next area is the same work.
LEMMA AreaMoves ==
    ASSUME TypeOK, NEW x \in Workers, NEW done, NextArea(x, done)
    PROVE  /\ job'[x].pc \in {job[x].pc, done}
           /\ RequestSame(x) /\ WorkSame(x) /\ OthersSame(x)
<1>1. /\ \/ job'[x] = [job[x] EXCEPT !.pc = done, !.n = 1]
         \/ job'[x] = [job[x] EXCEPT !.n = @ + 1]
      /\ OthersSame(x)
  BY DEF TypeOK, Become, NextArea, OthersSame
<1>2. CASE job'[x] = [job[x] EXCEPT !.pc = done, !.n = 1]
  BY <1>1, <1>2, JobType DEF Job, RequestSame, WorkSame
<1>3. CASE job'[x] = [job[x] EXCEPT !.n = @ + 1]
  BY <1>1, <1>3, JobType DEF Job, RequestSame, WorkSame
<1> QED
  BY <1>1, <1>2, <1>3

\* A file that is done with leaves the list.
LEMMA FileMoves ==
    ASSUME TypeOK, NEW x \in Workers, Become(x, Done(x))
    PROVE  /\ job'[x].pc = "avatars" /\ RequestSame(x)
           /\ job'[x].plan = job[x].plan /\ job'[x].todo \subseteq job[x].todo
           /\ OthersSame(x)
<1>1. job'[x] = Done(x) /\ OthersSame(x)
  BY DEF TypeOK, Become, OthersSame
<1> QED
  BY <1>1, JobType DEF Job, Done, RequestSame

\* What the planning makes of the worker.
LEMMA PlanMoves ==
    ASSUME TypeOK, NEW x \in Workers, Plan(x)
    PROVE  /\ \/ job'[x].pc = "idle" /\ job'[x].plan = {} /\ job'[x].todo = {}
              \/ /\ job'[x].pc = (IF job[x].kind = "create" THEN "stage" ELSE "apply")
                 /\ RequestSame(x)
                 /\ job'[x].plan = Planned(job[x].target) /\ job'[x].todo = job[x].todo
           /\ OthersSame(x)
<1>1. CASE Finish(x)
  BY <1>1, Ended
<1>2. CASE Become(x, [job[x] EXCEPT
                   !.pc = IF job[x].kind = "create" THEN "stage" ELSE "apply",
                   !.plan = Planned(job[x].target)])
  <2>1. /\ job'[x] = [job[x] EXCEPT
                   !.pc = IF job[x].kind = "create" THEN "stage" ELSE "apply",
                   !.plan = Planned(job[x].target)]
        /\ OthersSame(x)
    BY <1>2 DEF TypeOK, Become, OthersSame
  <2> QED
    BY <2>1, JobType DEF Job, RequestSame
<1> QED
  BY <1>1, <1>2 DEF Plan

\* What the remapping makes of the worker.
LEMMA RemapMoves ==
    ASSUME TypeOK, NEW x \in Workers, Remap(x)
    PROVE  /\ job'[x].pc = "avatars" /\ RequestSame(x) /\ job'[x].plan = job[x].plan
           /\ job'[x].todo = {f \in avatars : f[1] \in job[x].plan /\ f[2] # job[x].target}
           /\ OthersSame(x)
<1>1. /\ job'[x] = [job[x] EXCEPT !.pc = "avatars",
             !.todo = {f \in avatars : f[1] \in job[x].plan /\ f[2] # job[x].target}]
      /\ OthersSame(x)
  BY DEF TypeOK, Become, Remap, OthersSame
<1> QED
  BY <1>1, JobType DEF Job, RequestSame

----------------------------------------------------------------------------
(* The tracker *)

\* Whatever an active job does next, it stays the only one.
LEMMA Continue ==
    ASSUME OneJob, NEW x \in Workers, Active(x), UNCHANGED running, OthersSame(x)
    PROVE  OneJob'
BY DEF OneJob, Active, OthersSame

\* A job that ends leaves the tracker free.
LEMMA Finished ==
    ASSUME TypeOK, OneJob, NEW x \in Workers, Active(x), Finish(x)
    PROVE  OneJob'
BY Ended DEF OneJob, Active, OthersSame

\* One job at a time: the tracker lets nobody in while a job runs.
LEMMA OneJobStep == TypeOK /\ OneJob /\ [Next]_vars => OneJob'
<1> SUFFICES ASSUME TypeOK, OneJob, [Next]_vars PROVE OneJob'
  OBVIOUS
<1>1. ASSUME NEW x \in Workers, Request(x) PROVE OneJob'
  BY <1>1, Requested DEF Request, OneJob, Active, OthersSame
<1>2. ASSUME NEW x \in Workers, Start(x) PROVE OneJob'
  BY <1>2, Started DEF Start, OneJob, Active, OthersSame
<1>3. ASSUME NEW x \in Workers, JobFails(x) PROVE OneJob'
  BY <1>3, Finished DEF JobFails, At, Active
<1>4. ASSUME NEW x \in Workers, Purge(x) PROVE OneJob'
  BY <1>4, Moved, Ended, Continue, Finished DEF Purge, At, Active
<1>5. ASSUME NEW x \in Workers, Plan(x) PROVE OneJob'
  <2>1. Finish(x) \/ UNCHANGED running
    BY <1>5 DEF Plan
  <2> QED
    BY <1>5, <2>1, PlanMoves, Continue, Finished DEF Plan, At, Active
<1>6. ASSUME NEW x \in Workers, StageArea(x) PROVE OneJob'
  BY <1>6, AreaMoves, Continue DEF StageArea, At, Active
<1>7. ASSUME NEW x \in Workers, WriteInfo(x) PROVE OneJob'
  BY <1>7, Finished DEF WriteInfo, At, Active
<1>8. ASSUME NEW x \in Workers, ReadInfo(x) PROVE OneJob'
  BY <1>8, Moved, Ended, Continue, Finished DEF ReadInfo, At, Active
<1>9. ASSUME NEW x \in Workers, ApplyArea(x) PROVE OneJob'
  BY <1>9, AreaMoves, Continue DEF ApplyArea, At, Active
<1>10. ASSUME NEW x \in Workers, Remap(x) PROVE OneJob'
  BY <1>10, RemapMoves, Continue DEF Remap, At, Active
<1>11. ASSUME NEW x \in Workers, CopyAvatar(x) PROVE OneJob'
  BY <1>11, Moved, FileMoves, Continue DEF CopyAvatar, At, Active
<1>12. ASSUME NEW x \in Workers, RemoveAvatar(x) PROVE OneJob'
  BY <1>12, FileMoves, Continue DEF RemoveAvatar, At, Active
<1>13. ASSUME NEW x \in Workers, SetIdentifier(x) PROVE OneJob'
  BY <1>13, Moved, Continue DEF SetIdentifier, At, Active
<1>14. ASSUME NEW x \in Workers, Resync(x) PROVE OneJob'
  BY <1>14, Moved, Continue DEF Resync, At, Active
<1>15. ASSUME NEW x \in Workers, Cleanup(x) PROVE OneJob'
  BY <1>15, Finished DEF Cleanup, At, Active
<1>16. ASSUME Cancel PROVE OneJob'
  BY <1>16 DEF Cancel, OneJob, Active
<1>17. ASSUME Expire PROVE OneJob'
  BY <1>17 DEF Expire, OneJob, Active
<1>18. ASSUME NEW q \in Purgers, FindStale(q) PROVE OneJob'
  BY <1>18 DEF FindStale, OneJob, Active
<1>19. ASSUME NEW q \in Purgers, PurgeStale(q) PROVE OneJob'
  BY <1>19 DEF PurgeStale, OneJob, Active
<1>20. ASSUME Crash PROVE OneJob'
  BY <1>20 DEF Crash, OneJob, Active, Idle
<1>21. ASSUME ScheduledSync PROVE OneJob'
  BY <1>21 DEF ScheduledSync, OneJob, Active
<1>22. ASSUME HRChange PROVE OneJob'
  BY <1>22 DEF HRChange, OneJob, Active
<1>23. ASSUME NEW p \in People, SignIn(p) PROVE OneJob'
  BY <1>23 DEF SignIn, OneJob, Active
<1>24. ASSUME NEW p \in People, Book(p) PROVE OneJob'
  BY <1>24 DEF Book, OneJob, Active
<1>25. ASSUME NEW p \in People, CancelBooking(p) PROVE OneJob'
  BY <1>25 DEF CancelBooking, OneJob, Active
<1>26. CASE UNCHANGED vars
  BY <1>26 DEF vars, OneJob, Active
<1> QED
  BY <1>1, <1>2, <1>3, <1>4, <1>5, <1>6, <1>7, <1>8, <1>9, <1>10, <1>11, <1>12, <1>13, <1>14, <1>15, <1>16, <1>17, <1>18, <1>19, <1>20, <1>21, <1>22, <1>23, <1>24, <1>25, <1>26 DEF Next, Step

\* A worker reads the info record only when it serves an Apply.
LEMMA KindsStep == TypeOK /\ Kinds /\ [Next]_vars => Kinds'
<1> SUFFICES ASSUME TypeOK, Kinds, [Next]_vars PROVE Kinds'
  OBVIOUS
<1>1. ASSUME NEW x \in Workers, Request(x) PROVE Kinds'
  BY <1>1, Requested DEF Kinds, OthersSame
<1>2. ASSUME NEW x \in Workers, Start(x) PROVE Kinds'
  BY <1>2, Started DEF Kinds, OthersSame
<1>3. ASSUME NEW x \in Workers, JobFails(x) PROVE Kinds'
  BY <1>3, Ended DEF JobFails, At, Kinds, OthersSame, RequestSame
<1>4. ASSUME NEW x \in Workers, Purge(x) PROVE Kinds'
  BY <1>4, Moved, Ended DEF Purge, At, Kinds, OthersSame, RequestSame
<1>5. ASSUME NEW x \in Workers, Plan(x) PROVE Kinds'
  BY <1>5, PlanMoves DEF Kinds, OthersSame
<1>6. ASSUME NEW x \in Workers, StageArea(x) PROVE Kinds'
  BY <1>6, AreaMoves DEF StageArea, At, Kinds, OthersSame, RequestSame
<1>7. ASSUME NEW x \in Workers, WriteInfo(x) PROVE Kinds'
  BY <1>7, Ended DEF WriteInfo, At, Kinds, OthersSame, RequestSame
<1>8. ASSUME NEW x \in Workers, ReadInfo(x) PROVE Kinds'
  BY <1>8, Moved, Ended DEF ReadInfo, At, Kinds, OthersSame, RequestSame
<1>9. ASSUME NEW x \in Workers, ApplyArea(x) PROVE Kinds'
  BY <1>9, AreaMoves DEF ApplyArea, At, Kinds, OthersSame, RequestSame
<1>10. ASSUME NEW x \in Workers, Remap(x) PROVE Kinds'
  BY <1>10, RemapMoves DEF Kinds, OthersSame
<1>11. ASSUME NEW x \in Workers, CopyAvatar(x) PROVE Kinds'
  BY <1>11, Moved, FileMoves DEF CopyAvatar, At, Kinds, OthersSame, RequestSame
<1>12. ASSUME NEW x \in Workers, RemoveAvatar(x) PROVE Kinds'
  BY <1>12, FileMoves DEF RemoveAvatar, At, Kinds, OthersSame, RequestSame
<1>13. ASSUME NEW x \in Workers, SetIdentifier(x) PROVE Kinds'
  BY <1>13, Moved DEF SetIdentifier, At, Kinds, OthersSame, RequestSame
<1>14. ASSUME NEW x \in Workers, Resync(x) PROVE Kinds'
  BY <1>14, Moved DEF Resync, At, Kinds, OthersSame, RequestSame
<1>15. ASSUME NEW x \in Workers, Cleanup(x) PROVE Kinds'
  BY <1>15, Ended DEF Cleanup, At, Kinds, OthersSame, RequestSame
<1>16. ASSUME Cancel PROVE Kinds'
  BY <1>16 DEF Cancel, Kinds
<1>17. ASSUME Expire PROVE Kinds'
  BY <1>17 DEF Expire, Kinds
<1>18. ASSUME NEW q \in Purgers, FindStale(q) PROVE Kinds'
  BY <1>18 DEF FindStale, Kinds
<1>19. ASSUME NEW q \in Purgers, PurgeStale(q) PROVE Kinds'
  BY <1>19 DEF PurgeStale, Kinds
<1>20. ASSUME Crash PROVE Kinds'
  BY <1>20 DEF Crash, Kinds, Idle
<1>21. ASSUME ScheduledSync PROVE Kinds'
  BY <1>21 DEF ScheduledSync, Kinds
<1>22. ASSUME HRChange PROVE Kinds'
  BY <1>22 DEF HRChange, Kinds
<1>23. ASSUME NEW p \in People, SignIn(p) PROVE Kinds'
  BY <1>23 DEF SignIn, Kinds
<1>24. ASSUME NEW p \in People, Book(p) PROVE Kinds'
  BY <1>24 DEF Book, Kinds
<1>25. ASSUME NEW p \in People, CancelBooking(p) PROVE Kinds'
  BY <1>25 DEF CancelBooking, Kinds
<1>26. CASE UNCHANGED vars
  BY <1>26 DEF vars, Kinds
<1> QED
  BY <1>1, <1>2, <1>3, <1>4, <1>5, <1>6, <1>7, <1>8, <1>9, <1>10, <1>11, <1>12, <1>13, <1>14, <1>15, <1>16, <1>17, <1>18, <1>19, <1>20, <1>21, <1>22, <1>23, <1>24, <1>25, <1>26 DEF Next, Step

----------------------------------------------------------------------------
(* The staging *)

\* A purge leaves no record and no bucket.
LEMMA Purged ==
    ASSUME purge
    PROVE  info' = NoInfo /\ OwnBuckets' /\ OneGeneration'
<1>1. info' = NoInfo /\ \A a \in Area : stage'[a] = NoBucket
  BY DEF purge, NoStage
<1> QED
  BY <1>1 DEF OwnBuckets, OneGeneration

\* While one job is active no other one is creating.
LEMMA Alone ==
    ASSUME OneJob, NEW x \in Workers, Active(x), OthersSame(x), ~Creating(x)'
    PROVE  OwnBuckets'
<1>1. \A y \in Workers : ~Creating(y)'
  BY DEF OneJob, Active, Creating, OthersSame
<1> QED
  BY <1>1 DEF OwnBuckets

\* A Create has the staging for itself until it has written the info record.
LEMMA OwnBucketsStep == TypeOK /\ OneJob /\ Kinds /\ OwnBuckets /\ [Next]_vars => OwnBuckets'
<1> SUFFICES ASSUME TypeOK, OneJob, Kinds, OwnBuckets, [Next]_vars PROVE OwnBuckets'
  OBVIOUS
<1>1. ASSUME NEW x \in Workers, Request(x) PROVE OwnBuckets'
  <2>1. UNCHANGED <<stage, info>>
    BY <1>1 DEF Request, staging
  <2> QED
    BY <1>1, <2>1, Requested DEF OwnBuckets, Creating, OthersSame
<1>2. ASSUME NEW x \in Workers, Start(x) PROVE OwnBuckets'
  BY <1>2, Started DEF Start, OwnBuckets, Creating, OthersSame, stored, staging, world
<1>3. ASSUME NEW x \in Workers, JobFails(x) PROVE OwnBuckets'
  BY <1>3, Ended, Alone DEF JobFails, At, Active, Creating
<1>4. ASSUME NEW x \in Workers, Purge(x) PROVE OwnBuckets'
  BY <1>4, Purged DEF Purge
<1>5. ASSUME NEW x \in Workers, Plan(x) PROVE OwnBuckets'
  <2>1. /\ Active(x)
        /\ Creating(x)' => Creating(x) /\ job'[x].gen = job[x].gen
        /\ OthersSame(x)
    BY <1>5, PlanMoves DEF Plan, At, Active, Creating, RequestSame
  <2>2. CASE ~Creating(x)'
    BY <2>1, <2>2, Alone
  <2>3. CASE Creating(x)'
    BY <1>5, <2>1, <2>3 DEF Plan, OneJob, Active, OwnBuckets, Creating, OthersSame, staging
  <2> QED
    BY <2>2, <2>3
<1>6. ASSUME NEW x \in Workers, StageArea(x) PROVE OwnBuckets'
  <2>1. Active(x) /\ Creating(x) /\ OthersSame(x) /\ job'[x].gen = job[x].gen
    BY <1>6, AreaMoves DEF StageArea, At, Active, Creating, RequestSame
  <2>2. info' = NoInfo
    BY <1>6, <2>1 DEF StageArea, OwnBuckets
  <2>3. \A a \in Area : stage'[a] = NoBucket \/ stage'[a].gen = job[x].gen
    BY <1>6, <2>1 DEF StageArea, OwnBuckets, TypeOK
  <2>4. \A y \in Workers \ {x} : ~Creating(y)'
    BY <2>1 DEF OneJob, Active, Creating, OthersSame
  <2> QED
    BY <2>1, <2>2, <2>3, <2>4 DEF OwnBuckets
<1>7. ASSUME NEW x \in Workers, WriteInfo(x) PROVE OwnBuckets'
  BY <1>7, Ended, Alone DEF WriteInfo, At, Active, Creating
<1>8. ASSUME NEW x \in Workers, ReadInfo(x) PROVE OwnBuckets'
  BY <1>8, Moved, Ended, Alone DEF ReadInfo, At, Active, Creating, Kinds, RequestSame
<1>9. ASSUME NEW x \in Workers, ApplyArea(x) PROVE OwnBuckets'
  BY <1>9, AreaMoves, Alone DEF ApplyArea, At, Active, Creating
<1>10. ASSUME NEW x \in Workers, Remap(x) PROVE OwnBuckets'
  BY <1>10, RemapMoves, Alone DEF Remap, At, Active, Creating
<1>11. ASSUME NEW x \in Workers, CopyAvatar(x) PROVE OwnBuckets'
  BY <1>11, Moved, FileMoves, Alone DEF CopyAvatar, At, Active, Creating
<1>12. ASSUME NEW x \in Workers, RemoveAvatar(x) PROVE OwnBuckets'
  BY <1>12, FileMoves, Alone DEF RemoveAvatar, At, Active, Creating
<1>13. ASSUME NEW x \in Workers, SetIdentifier(x) PROVE OwnBuckets'
  BY <1>13, Moved, Alone DEF SetIdentifier, At, Active, Creating
<1>14. ASSUME NEW x \in Workers, Resync(x) PROVE OwnBuckets'
  BY <1>14, Moved, Alone DEF Resync, At, Active, Creating
<1>15. ASSUME NEW x \in Workers, Cleanup(x) PROVE OwnBuckets'
  BY <1>15, Purged DEF Cleanup
<1>16. ASSUME Cancel PROVE OwnBuckets'
  BY <1>16, Purged DEF Cancel
<1>17. ASSUME Expire PROVE OwnBuckets'
  BY <1>17 DEF Expire, OwnBuckets, Creating
<1>18. ASSUME NEW q \in Purgers, FindStale(q) PROVE OwnBuckets'
  BY <1>18 DEF FindStale, OwnBuckets, Creating, stored, staging, world
<1>19. ASSUME NEW q \in Purgers, PurgeStale(q) PROVE OwnBuckets'
  BY <1>19, Purged DEF PurgeStale
<1>20. ASSUME Crash PROVE OwnBuckets'
  BY <1>20 DEF Crash, OwnBuckets, Creating, Idle
<1>21. ASSUME ScheduledSync PROVE OwnBuckets'
  BY <1>21 DEF ScheduledSync, OwnBuckets, Creating, stored, staging, world
<1>22. ASSUME HRChange PROVE OwnBuckets'
  BY <1>22 DEF HRChange, OwnBuckets, Creating, stored, staging, world
<1>23. ASSUME NEW p \in People, SignIn(p) PROVE OwnBuckets'
  BY <1>23 DEF SignIn, OwnBuckets, Creating, stored, staging, world
<1>24. ASSUME NEW p \in People, Book(p) PROVE OwnBuckets'
  BY <1>24 DEF Book, OwnBuckets, Creating, stored, staging, world
<1>25. ASSUME NEW p \in People, CancelBooking(p) PROVE OwnBuckets'
  BY <1>25 DEF CancelBooking, OwnBuckets, Creating, stored, staging, world
<1>26. CASE UNCHANGED vars
  BY <1>26 DEF vars, OwnBuckets, Creating
<1> QED
  BY <1>1, <1>2, <1>3, <1>4, <1>5, <1>6, <1>7, <1>8, <1>9, <1>10, <1>11, <1>12, <1>13, <1>14, <1>15, <1>16, <1>17, <1>18, <1>19, <1>20, <1>21, <1>22, <1>23, <1>24, <1>25, <1>26 DEF Next, Step

\* Only the purges and the Create that is alone touch buckets and record.
LEMMA OneGenerationStep == TypeOK /\ OwnBuckets /\ OneGeneration /\ [Next]_vars => OneGeneration'
<1> SUFFICES ASSUME TypeOK, OwnBuckets, OneGeneration, [Next]_vars PROVE OneGeneration'
  OBVIOUS
<1>1. ASSUME NEW x \in Workers, Request(x) PROVE OneGeneration'
  BY <1>1 DEF Request, OneGeneration, stored, staging, world
<1>2. ASSUME NEW x \in Workers, Start(x) PROVE OneGeneration'
  BY <1>2 DEF Start, OneGeneration, stored, staging, world
<1>3. ASSUME NEW x \in Workers, JobFails(x) PROVE OneGeneration'
  BY <1>3 DEF JobFails, OneGeneration, stored, staging, world
<1>4. ASSUME NEW x \in Workers, Purge(x) PROVE OneGeneration'
  BY <1>4, Purged DEF Purge
<1>5. ASSUME NEW x \in Workers, Plan(x) PROVE OneGeneration'
  BY <1>5 DEF Plan, OneGeneration, stored, staging, world
<1>6. ASSUME NEW x \in Workers, StageArea(x) PROVE OneGeneration'
  BY <1>6 DEF StageArea, At, Creating, OwnBuckets, OneGeneration
<1>7. ASSUME NEW x \in Workers, WriteInfo(x) PROVE OneGeneration'
  BY <1>7 DEF WriteInfo, At, Creating, OwnBuckets, OneGeneration
<1>8. ASSUME NEW x \in Workers, ReadInfo(x) PROVE OneGeneration'
  BY <1>8 DEF ReadInfo, OneGeneration, stored, staging, world
<1>9. ASSUME NEW x \in Workers, ApplyArea(x) PROVE OneGeneration'
  BY <1>9 DEF ApplyArea, OneGeneration, stored, staging, world
<1>10. ASSUME NEW x \in Workers, Remap(x) PROVE OneGeneration'
  BY <1>10 DEF Remap, OneGeneration, stored, staging, world
<1>11. ASSUME NEW x \in Workers, CopyAvatar(x) PROVE OneGeneration'
  BY <1>11 DEF CopyAvatar, OneGeneration, stored, staging, world
<1>12. ASSUME NEW x \in Workers, RemoveAvatar(x) PROVE OneGeneration'
  BY <1>12 DEF RemoveAvatar, OneGeneration, stored, staging, world
<1>13. ASSUME NEW x \in Workers, SetIdentifier(x) PROVE OneGeneration'
  BY <1>13 DEF SetIdentifier, OneGeneration, stored, staging, world
<1>14. ASSUME NEW x \in Workers, Resync(x) PROVE OneGeneration'
  BY <1>14 DEF Resync, OneGeneration, stored, staging, world
<1>15. ASSUME NEW x \in Workers, Cleanup(x) PROVE OneGeneration'
  BY <1>15, Purged DEF Cleanup
<1>16. ASSUME Cancel PROVE OneGeneration'
  BY <1>16, Purged DEF Cancel
<1>17. ASSUME Expire PROVE OneGeneration'
  BY <1>17 DEF Expire, OneGeneration, TypeOK, Info
<1>18. ASSUME NEW q \in Purgers, FindStale(q) PROVE OneGeneration'
  BY <1>18 DEF FindStale, OneGeneration, stored, staging, world
<1>19. ASSUME NEW q \in Purgers, PurgeStale(q) PROVE OneGeneration'
  BY <1>19, Purged DEF PurgeStale
<1>20. ASSUME Crash PROVE OneGeneration'
  BY <1>20 DEF Crash, OneGeneration, stored, staging, world
<1>21. ASSUME ScheduledSync PROVE OneGeneration'
  BY <1>21 DEF ScheduledSync, OneGeneration, stored, staging, world
<1>22. ASSUME HRChange PROVE OneGeneration'
  BY <1>22 DEF HRChange, OneGeneration, stored, staging, world
<1>23. ASSUME NEW p \in People, SignIn(p) PROVE OneGeneration'
  BY <1>23 DEF SignIn, OneGeneration, stored, staging, world
<1>24. ASSUME NEW p \in People, Book(p) PROVE OneGeneration'
  BY <1>24 DEF Book, OneGeneration, stored, staging, world
<1>25. ASSUME NEW p \in People, CancelBooking(p) PROVE OneGeneration'
  BY <1>25 DEF CancelBooking, OneGeneration, stored, staging, world
<1>26. CASE UNCHANGED vars
  BY <1>26 DEF vars, OneGeneration
<1> QED
  BY <1>1, <1>2, <1>3, <1>4, <1>5, <1>6, <1>7, <1>8, <1>9, <1>10, <1>11, <1>12, <1>13, <1>14, <1>15, <1>16, <1>17, <1>18, <1>19, <1>20, <1>21, <1>22, <1>23, <1>24, <1>25, <1>26 DEF Next, Step

----------------------------------------------------------------------------
(* Mail addresses and avatars *)

\* Nobody who has no mail address is mapped.
LEMMA PlannedType ==
    ASSUME TypeOK, NEW target
    PROVE  Planned(target) \cap Mailless = {}
BY DEF Planned

\* The part of NoMail that is about one worker.
NoMailFor(x) == /\ job[x].plan \cap Mailless = {}
                /\ \A f \in job[x].todo : f[1] \notin Mailless

\* As long as the stage and the sessions are left alone, one worker's step
\* keeps NoMail when it keeps that worker's part.
LEMMA NoMailBy ==
    ASSUME NoMail, NEW x \in Workers, OthersSame(x), NoMailFor(x)', UNCHANGED <<stage, sessions>>
    PROVE  NoMail'
BY DEF NoMail, NoMailFor, OthersSame

\* A purge leaves no staged rows.
LEMMA PurgedRows ==
    ASSUME purge
    PROVE  \A a \in Area : stage'[a].rows = {}
BY DEF purge, NoStage, NoBucket

\* What is on its way to the data names nobody by an address he has not.
LEMMA NoMailStep == TypeOK /\ NoMail /\ [Next]_vars => NoMail'
<1> SUFFICES ASSUME TypeOK, NoMail, [Next]_vars PROVE NoMail'
  OBVIOUS
<1>1. ASSUME NEW x \in Workers, Request(x) PROVE NoMail'
  <2>1. UNCHANGED <<stage, sessions>>
    BY <1>1 DEF Request, staging, world
  <2>2. NoMailFor(x)' /\ OthersSame(x)
    BY <1>1, Requested DEF NoMailFor
  <2> QED
    BY <2>1, <2>2, NoMailBy
<1>2. ASSUME NEW x \in Workers, Start(x) PROVE NoMail'
  <2>1. UNCHANGED <<stage, sessions>>
    BY <1>2 DEF Start, staging, world
  <2>2. NoMailFor(x)' /\ OthersSame(x)
    BY <1>2, Started DEF NoMail, NoMailFor, WorkSame
  <2> QED
    BY <2>1, <2>2, NoMailBy
<1>3. ASSUME NEW x \in Workers, JobFails(x) PROVE NoMail'
  <2>1. UNCHANGED <<stage, sessions>>
    BY <1>3 DEF JobFails, staging, world
  <2>2. NoMailFor(x)' /\ OthersSame(x)
    BY <1>3, Ended DEF JobFails, NoMailFor
  <2> QED
    BY <2>1, <2>2, NoMailBy
<1>4. ASSUME NEW x \in Workers, Purge(x) PROVE NoMail'
  <2>1. UNCHANGED sessions /\ \A a \in Area : stage'[a].rows = {}
    BY <1>4, PurgedRows DEF Purge, world
  <2>2. NoMailFor(x)' /\ OthersSame(x)
    BY <1>4, Moved, Ended DEF Purge, NoMail, NoMailFor, WorkSame
  <2> QED
    BY <2>1, <2>2 DEF NoMail, NoMailFor, OthersSame
<1>5. ASSUME NEW x \in Workers, Plan(x) PROVE NoMail'
  <2>1. UNCHANGED <<stage, sessions>>
    BY <1>5 DEF Plan, staging, world
  <2>2. NoMailFor(x)' /\ OthersSame(x)
    BY <1>5, PlanMoves, PlannedType DEF NoMail, NoMailFor
  <2> QED
    BY <2>1, <2>2, NoMailBy
<1>6. ASSUME NEW x \in Workers, StageArea(x) PROVE NoMail'
  <2>1. UNCHANGED sessions /\ NoMailFor(x)' /\ OthersSame(x)
    BY <1>6, AreaMoves DEF StageArea, world, NoMail, NoMailFor, WorkSame
  <2>2. \A a \in Area : \A r \in stage'[a].rows :
           r \in stage[a].rows \/ r[1][1] \in job[x].plan
    <3> DEFINE es == {r[1] : r \in {q \in live[Areas[job[x].n]] :
                                q[1][1] \in job[x].plan /\ q[2] # job[x].target}}
    <3>1. /\ stage' = [stage EXCEPT ![Areas[job[x].n]] =
                         [gen |-> job[x].gen, rows |-> es \X {job[x].target}]]
          /\ \A e \in es : e[1] \in job[x].plan
      BY <1>6 DEF StageArea
    <3>2. \A r \in es \X {job[x].target} : r[1] \in es
      OBVIOUS
    <3> QED
      BY <3>1, <3>2 DEF TypeOK
  <2> QED
    BY <2>1, <2>2 DEF NoMail, NoMailFor, OthersSame
<1>7. ASSUME NEW x \in Workers, WriteInfo(x) PROVE NoMail'
  <2>1. UNCHANGED <<stage, sessions>>
    BY <1>7 DEF WriteInfo, world
  <2>2. NoMailFor(x)' /\ OthersSame(x)
    BY <1>7, Ended DEF WriteInfo, NoMailFor
  <2> QED
    BY <2>1, <2>2, NoMailBy
<1>8. ASSUME NEW x \in Workers, ReadInfo(x) PROVE NoMail'
  <2>1. UNCHANGED <<stage, sessions>>
    BY <1>8 DEF ReadInfo, staging, world
  <2>2. NoMailFor(x)' /\ OthersSame(x)
    BY <1>8, Moved, Ended DEF ReadInfo, NoMail, NoMailFor, WorkSame
  <2> QED
    BY <2>1, <2>2, NoMailBy
<1>9. ASSUME NEW x \in Workers, ApplyArea(x) PROVE NoMail'
  <2>1. UNCHANGED <<stage, sessions>>
    BY <1>9 DEF ApplyArea, staging, world
  <2>2. NoMailFor(x)' /\ OthersSame(x)
    BY <1>9, AreaMoves DEF ApplyArea, NoMail, NoMailFor, WorkSame
  <2> QED
    BY <2>1, <2>2, NoMailBy
<1>10. ASSUME NEW x \in Workers, Remap(x) PROVE NoMail'
  <2>1. UNCHANGED stage /\ DOMAIN sessions' = DOMAIN sessions
        /\ \A p \in DOMAIN sessions : sessions'[p].samaccountname = sessions[p].samaccountname
    BY <1>10 DEF Remap, staging, TypeOK
  <2>2. NoMailFor(x)' /\ OthersSame(x)
    BY <1>10, RemapMoves DEF NoMail, NoMailFor
  <2> QED
    BY <2>1, <2>2 DEF NoMail, NoMailFor, OthersSame
<1>11. ASSUME NEW x \in Workers, CopyAvatar(x) PROVE NoMail'
  <2>1. UNCHANGED <<stage, sessions>>
    BY <1>11 DEF CopyAvatar, staging, world
  <2>2. NoMailFor(x)' /\ OthersSame(x)
    BY <1>11, Moved, FileMoves DEF CopyAvatar, NoMail, NoMailFor, WorkSame
  <2> QED
    BY <2>1, <2>2, NoMailBy
<1>12. ASSUME NEW x \in Workers, RemoveAvatar(x) PROVE NoMail'
  <2>1. UNCHANGED <<stage, sessions>>
    BY <1>12 DEF RemoveAvatar, staging, world
  <2>2. NoMailFor(x)' /\ OthersSame(x)
    BY <1>12, FileMoves DEF RemoveAvatar, NoMail, NoMailFor
  <2> QED
    BY <2>1, <2>2, NoMailBy
<1>13. ASSUME NEW x \in Workers, SetIdentifier(x) PROVE NoMail'
  <2>1. UNCHANGED <<stage, sessions>>
    BY <1>13 DEF SetIdentifier, staging, world
  <2>2. NoMailFor(x)' /\ OthersSame(x)
    BY <1>13, Moved DEF SetIdentifier, NoMail, NoMailFor, WorkSame
  <2> QED
    BY <2>1, <2>2, NoMailBy
<1>14. ASSUME NEW x \in Workers, Resync(x) PROVE NoMail'
  <2>1. UNCHANGED <<stage, sessions>>
    BY <1>14 DEF Resync, staging, world
  <2>2. NoMailFor(x)' /\ OthersSame(x)
    BY <1>14, Moved DEF Resync, NoMail, NoMailFor, WorkSame
  <2> QED
    BY <2>1, <2>2, NoMailBy
<1>15. ASSUME NEW x \in Workers, Cleanup(x) PROVE NoMail'
  <2>1. UNCHANGED sessions /\ \A a \in Area : stage'[a].rows = {}
    BY <1>15, PurgedRows DEF Cleanup, world
  <2>2. NoMailFor(x)' /\ OthersSame(x)
    BY <1>15, Moved, Ended DEF Cleanup, NoMail, NoMailFor, WorkSame
  <2> QED
    BY <2>1, <2>2 DEF NoMail, NoMailFor, OthersSame
<1>16. ASSUME Cancel PROVE NoMail'
  <2>1. UNCHANGED <<sessions, job>> /\ \A a \in Area : stage'[a].rows = {}
    BY <1>16, PurgedRows DEF Cancel, world
  <2> QED
    BY <2>1 DEF NoMail
<1>17. ASSUME Expire PROVE NoMail'
  BY <1>17 DEF Expire, NoMail, world
<1>18. ASSUME NEW q \in Purgers, FindStale(q) PROVE NoMail'
  BY <1>18 DEF FindStale, NoMail, staging, world
<1>19. ASSUME NEW q \in Purgers, PurgeStale(q) PROVE NoMail'
  <2>1. UNCHANGED <<sessions, job>> /\ \A a \in Area : stage'[a].rows = {}
    BY <1>19, PurgedRows DEF PurgeStale, world
  <2> QED
    BY <2>1 DEF NoMail
<1>20. ASSUME Crash PROVE NoMail'
  <2>1. UNCHANGED stage /\ DOMAIN sessions' = {}
        /\ \A y \in Workers : job'[y].plan = {} /\ job'[y].todo = {}
    BY <1>20 DEF Crash, staging, None, Idle
  <2> QED
    BY <2>1 DEF NoMail
<1>21. ASSUME ScheduledSync PROVE NoMail'
  BY <1>21 DEF ScheduledSync, NoMail, staging, world
<1>22. ASSUME HRChange PROVE NoMail'
  BY <1>22 DEF HRChange, NoMail, staging, world
<1>23. ASSUME NEW p \in People, SignIn(p) PROVE NoMail'
  <2>1. UNCHANGED <<stage, job>>
    BY <1>23 DEF SignIn, staging
  <2>2. \A q \in DOMAIN sessions' :
           \/ q = p /\ sessions'[q].samaccountname = ident
           \/ q \in DOMAIN sessions /\ sessions'[q] = sessions[q]
    BY <1>23 DEF SignIn
  <2>3. ident = "mail" => p \notin Mailless
    BY <1>23 DEF SignIn
  <2> QED
    BY <2>1, <2>2, <2>3 DEF NoMail
<1>24. ASSUME NEW p \in People, Book(p) PROVE NoMail'
  BY <1>24 DEF Book, NoMail, staging, world
<1>25. ASSUME NEW p \in People, CancelBooking(p) PROVE NoMail'
  BY <1>25 DEF CancelBooking, NoMail, staging, world
<1>26. CASE UNCHANGED vars
  BY <1>26 DEF vars, NoMail
<1> QED
  BY <1>1, <1>2, <1>3, <1>4, <1>5, <1>6, <1>7, <1>8, <1>9, <1>10, <1>11, <1>12, <1>13, <1>14, <1>15, <1>16, <1>17, <1>18, <1>19, <1>20, <1>21, <1>22, <1>23, <1>24, <1>25, <1>26 DEF Next, Step

\* The data names nobody by an address he has not.
LEMMA ConflictsStep ==
    TypeOK /\ NoMail /\ ConflictsUntouched /\ [Next]_vars => ConflictsUntouched'
<1> SUFFICES ASSUME TypeOK, NoMail, ConflictsUntouched, [Next]_vars PROVE ConflictsUntouched'
  OBVIOUS
<1>1. ASSUME NEW x \in Workers, Request(x) PROVE ConflictsUntouched'
  BY <1>1 DEF Request, ConflictsUntouched, stored
<1>2. ASSUME NEW x \in Workers, Start(x) PROVE ConflictsUntouched'
  BY <1>2 DEF Start, ConflictsUntouched, stored
<1>3. ASSUME NEW x \in Workers, JobFails(x) PROVE ConflictsUntouched'
  BY <1>3 DEF JobFails, ConflictsUntouched, stored
<1>4. ASSUME NEW x \in Workers, Purge(x) PROVE ConflictsUntouched'
  BY <1>4 DEF Purge, ConflictsUntouched, stored
<1>5. ASSUME NEW x \in Workers, Plan(x) PROVE ConflictsUntouched'
  BY <1>5 DEF Plan, ConflictsUntouched, stored
<1>6. ASSUME NEW x \in Workers, StageArea(x) PROVE ConflictsUntouched'
  BY <1>6 DEF StageArea, ConflictsUntouched, stored
<1>7. ASSUME NEW x \in Workers, WriteInfo(x) PROVE ConflictsUntouched'
  BY <1>7 DEF WriteInfo, ConflictsUntouched, stored
<1>8. ASSUME NEW x \in Workers, ReadInfo(x) PROVE ConflictsUntouched'
  BY <1>8 DEF ReadInfo, ConflictsUntouched, stored
<1>9. ASSUME NEW x \in Workers, ApplyArea(x) PROVE ConflictsUntouched'
  <2>1. \A a \in Area : \A r \in live'[a] : r \in live[a] \/ r \in stage[a].rows
    BY <1>9 DEF ApplyArea, Applied, TypeOK
  <2> QED
    BY <1>9, <2>1 DEF ApplyArea, NoMail, ConflictsUntouched
<1>10. ASSUME NEW x \in Workers, Remap(x) PROVE ConflictsUntouched'
  BY <1>10 DEF Remap, ConflictsUntouched, stored
<1>11. ASSUME NEW x \in Workers, CopyAvatar(x) PROVE ConflictsUntouched'
  <2>1. UNCHANGED live /\ File(x)[1] \notin Mailless
    BY <1>11, FileType DEF CopyAvatar, NoMail
  <2>2. \A f \in avatars' : f \in avatars \/ f[1] = File(x)[1]
    BY <1>11 DEF CopyAvatar
  <2> QED
    BY <2>1, <2>2 DEF ConflictsUntouched
<1>12. ASSUME NEW x \in Workers, RemoveAvatar(x) PROVE ConflictsUntouched'
  BY <1>12 DEF RemoveAvatar, ConflictsUntouched
<1>13. ASSUME NEW x \in Workers, SetIdentifier(x) PROVE ConflictsUntouched'
  BY <1>13 DEF SetIdentifier, ConflictsUntouched
<1>14. ASSUME NEW x \in Workers, Resync(x) PROVE ConflictsUntouched'
  BY <1>14 DEF Resync, ConflictsUntouched, stored
<1>15. ASSUME NEW x \in Workers, Cleanup(x) PROVE ConflictsUntouched'
  BY <1>15 DEF Cleanup, ConflictsUntouched, stored
<1>16. ASSUME Cancel PROVE ConflictsUntouched'
  BY <1>16 DEF Cancel, ConflictsUntouched, stored
<1>17. ASSUME Expire PROVE ConflictsUntouched'
  BY <1>17 DEF Expire, ConflictsUntouched, stored
<1>18. ASSUME NEW q \in Purgers, FindStale(q) PROVE ConflictsUntouched'
  BY <1>18 DEF FindStale, ConflictsUntouched, stored
<1>19. ASSUME NEW q \in Purgers, PurgeStale(q) PROVE ConflictsUntouched'
  BY <1>19 DEF PurgeStale, ConflictsUntouched, stored
<1>20. ASSUME Crash PROVE ConflictsUntouched'
  BY <1>20 DEF Crash, ConflictsUntouched, stored
<1>21. ASSUME ScheduledSync PROVE ConflictsUntouched'
  BY <1>21 DEF ScheduledSync, ConflictsUntouched, stored
<1>22. ASSUME HRChange PROVE ConflictsUntouched'
  BY <1>22 DEF HRChange, ConflictsUntouched, stored
<1>23. ASSUME NEW p \in People, SignIn(p) PROVE ConflictsUntouched'
  <2>1. \A a \in Area : \A r \in live'[a] : r \in live[a] \/ r = <<<<p, 1>>, ident>>
    BY <1>23 DEF SignIn, TypeOK
  <2>2. UNCHANGED avatars /\ (ident = "mail" => p \notin Mailless)
    BY <1>23 DEF SignIn
  <2> QED
    BY <2>1, <2>2 DEF ConflictsUntouched
<1>24. ASSUME NEW p \in People, Book(p) PROVE ConflictsUntouched'
  <2>1. \A a \in Area : \A r \in live'[a] :
           r \in live[a] \/ r = <<<<p, 2>>, sessions[p].samaccountname>>
    BY <1>24 DEF Book, TypeOK
  <2>2. UNCHANGED avatars /\ p \in DOMAIN sessions
    BY <1>24 DEF Book
  <2> QED
    BY <2>1, <2>2 DEF NoMail, ConflictsUntouched
<1>25. ASSUME NEW p \in People, CancelBooking(p) PROVE ConflictsUntouched'
  <2>1. UNCHANGED avatars /\ \A a \in Area : \A r \in live'[a] : r \in live[a]
    BY <1>25 DEF CancelBooking, TypeOK
  <2> QED
    BY <2>1 DEF ConflictsUntouched
<1>26. CASE UNCHANGED vars
  BY <1>26 DEF vars, ConflictsUntouched
<1> QED
  BY <1>1, <1>2, <1>3, <1>4, <1>5, <1>6, <1>7, <1>8, <1>9, <1>10, <1>11, <1>12, <1>13, <1>14, <1>15, <1>16, <1>17, <1>18, <1>19, <1>20, <1>21, <1>22, <1>23, <1>24, <1>25, <1>26 DEF Next, Step

\* The part of Copied that is about one worker.
CopiedFor(x) == /\ \A f \in job[x].todo : f[2] # job[x].target
                /\ job[x].pc = "remove" =>
                      /\ job[x].todo # {}
                      /\ <<File(x)[1], job[x].target>> \in avatars

\* As long as no file goes, one worker's step keeps Copied when it keeps that
\* worker's part.
LEMMA CopiedBy ==
    ASSUME Copied, NEW x \in Workers, OthersSame(x), CopiedFor(x)', avatars \subseteq avatars'
    PROVE  Copied'
<1>1. ASSUME NEW y \in Workers \ {x} PROVE CopiedFor(y)'
  <2>1. job'[y] = job[y] /\ CopiedFor(y)
    BY DEF OthersSame, Copied, CopiedFor
  <2>2. File(y)' = File(y)
    BY <2>1 DEF File
  <2> QED
    BY <2>1, <2>2 DEF CopiedFor
<1> QED
  BY <1>1 DEF Copied, CopiedFor

\* A worker that is not about to remove keeps its part when its list only shrinks.
LEMMA CopiedMoves ==
    ASSUME Copied, NEW x \in Workers, job'[x].pc # "remove",
           \/ job'[x].todo = {}
           \/ job'[x].todo = job[x].todo /\ job'[x].target = job[x].target
    PROVE  CopiedFor(x)'
BY DEF Copied, CopiedFor

\* A file is removed by the job that is alone, after it has copied it.
LEMMA CopiedStep == TypeOK /\ OneJob /\ Copied /\ [Next]_vars => Copied'
<1> SUFFICES ASSUME TypeOK, OneJob, Copied, [Next]_vars PROVE Copied'
  OBVIOUS
<1>1. ASSUME NEW x \in Workers, Request(x) PROVE Copied'
  <2>1. avatars \subseteq avatars'
    BY <1>1 DEF Request, stored
  <2>2. CopiedFor(x)' /\ OthersSame(x)
    BY <1>1, Requested DEF CopiedFor
  <2> QED
    BY <2>1, <2>2, CopiedBy
<1>2. ASSUME NEW x \in Workers, Start(x) PROVE Copied'
  <2>1. avatars \subseteq avatars'
    BY <1>2 DEF Start, stored
  <2>2. CopiedFor(x)' /\ OthersSame(x)
    BY <1>2, Started DEF Copied, CopiedFor, RequestSame, WorkSame
  <2> QED
    BY <2>1, <2>2, CopiedBy
<1>3. ASSUME NEW x \in Workers, JobFails(x) PROVE Copied'
  <2>1. avatars \subseteq avatars'
    BY <1>3 DEF JobFails, stored
  <2>2. CopiedFor(x)' /\ OthersSame(x)
    BY <1>3, Ended DEF JobFails, CopiedFor
  <2> QED
    BY <2>1, <2>2, CopiedBy
<1>4. ASSUME NEW x \in Workers, Purge(x) PROVE Copied'
  <2>1. avatars \subseteq avatars'
    BY <1>4 DEF Purge, stored
  <2>2. /\ OthersSame(x) /\ job'[x].pc # "remove"
        /\ \/ job'[x].todo = {}
           \/ job'[x].todo = job[x].todo /\ job'[x].target = job[x].target
    BY <1>4, Moved, Ended DEF Purge, RequestSame, WorkSame
  <2> QED
    BY <2>1, <2>2, CopiedMoves, CopiedBy
<1>5. ASSUME NEW x \in Workers, Plan(x) PROVE Copied'
  <2>1. avatars \subseteq avatars'
    BY <1>5 DEF Plan, stored
  <2>2. CopiedFor(x)' /\ OthersSame(x)
    BY <1>5, PlanMoves DEF Copied, CopiedFor, RequestSame
  <2> QED
    BY <2>1, <2>2, CopiedBy
<1>6. ASSUME NEW x \in Workers, StageArea(x) PROVE Copied'
  <2>1. avatars \subseteq avatars'
    BY <1>6 DEF StageArea, stored
  <2>2. /\ OthersSame(x) /\ job'[x].pc # "remove"
        /\ \/ job'[x].todo = {}
           \/ job'[x].todo = job[x].todo /\ job'[x].target = job[x].target
    BY <1>6, AreaMoves DEF StageArea, At, RequestSame, WorkSame
  <2> QED
    BY <2>1, <2>2, CopiedMoves, CopiedBy
<1>7. ASSUME NEW x \in Workers, WriteInfo(x) PROVE Copied'
  <2>1. avatars \subseteq avatars'
    BY <1>7 DEF WriteInfo, stored
  <2>2. CopiedFor(x)' /\ OthersSame(x)
    BY <1>7, Ended DEF WriteInfo, CopiedFor
  <2> QED
    BY <2>1, <2>2, CopiedBy
<1>8. ASSUME NEW x \in Workers, ReadInfo(x) PROVE Copied'
  <2>1. avatars \subseteq avatars'
    BY <1>8 DEF ReadInfo, stored
  <2>2. /\ OthersSame(x) /\ job'[x].pc # "remove"
        /\ \/ job'[x].todo = {}
           \/ job'[x].todo = job[x].todo /\ job'[x].target = job[x].target
    BY <1>8, Moved, Ended DEF ReadInfo, RequestSame, WorkSame
  <2> QED
    BY <2>1, <2>2, CopiedMoves, CopiedBy
<1>9. ASSUME NEW x \in Workers, ApplyArea(x) PROVE Copied'
  <2>1. avatars \subseteq avatars'
    BY <1>9 DEF ApplyArea
  <2>2. /\ OthersSame(x) /\ job'[x].pc # "remove"
        /\ \/ job'[x].todo = {}
           \/ job'[x].todo = job[x].todo /\ job'[x].target = job[x].target
    BY <1>9, AreaMoves DEF ApplyArea, At, RequestSame, WorkSame
  <2> QED
    BY <2>1, <2>2, CopiedMoves, CopiedBy
<1>10. ASSUME NEW x \in Workers, Remap(x) PROVE Copied'
  <2>1. avatars \subseteq avatars'
    BY <1>10 DEF Remap, stored
  <2>2. CopiedFor(x)' /\ OthersSame(x)
    BY <1>10, RemapMoves DEF CopiedFor, RequestSame
  <2> QED
    BY <2>1, <2>2, CopiedBy
<1>11. ASSUME NEW x \in Workers, CopyAvatar(x) PROVE Copied'
  <2>1. avatars \subseteq avatars' /\ OthersSame(x)
    BY <1>11, Moved, FileMoves DEF CopyAvatar
  <2>2. CASE Goto(x, "remove") /\ avatars' = avatars \cup {<<File(x)[1], job[x].target>>}
    <3>1. /\ job'[x].pc = "remove" /\ job'[x].todo = job[x].todo
          /\ job'[x].target = job[x].target
      BY <2>2, Moved DEF RequestSame, WorkSame
    <3>2. File(x)' = File(x)
      BY <3>1 DEF File
    <3>3. CopiedFor(x)'
      BY <1>11, <2>2, <3>1, <3>2 DEF CopyAvatar, Copied, CopiedFor
    <3> QED
      BY <2>1, <3>3, CopiedBy
  <2>3. CASE Become(x, Done(x))
    <3>1. CopiedFor(x)'
      BY <2>3, FileMoves DEF Copied, CopiedFor, RequestSame
    <3> QED
      BY <2>1, <3>1, CopiedBy
  <2> QED
    BY <1>11, <2>2, <2>3 DEF CopyAvatar
<1>12. ASSUME NEW x \in Workers, RemoveAvatar(x) PROVE Copied'
  <2>1. Active(x) /\ CopiedFor(x)' /\ OthersSame(x)
    BY <1>12, FileMoves DEF RemoveAvatar, At, Active, Copied, CopiedFor, RequestSame
  <2>2. ASSUME NEW y \in Workers \ {x} PROVE CopiedFor(y)'
    <3>1. job'[y] = job[y] /\ job[y].pc # "remove"
      BY <2>1 DEF OthersSame, OneJob, Active
    <3> QED
      BY <3>1 DEF Copied, CopiedFor
  <2> QED
    BY <2>1, <2>2 DEF Copied, CopiedFor
<1>13. ASSUME NEW x \in Workers, SetIdentifier(x) PROVE Copied'
  <2>1. avatars \subseteq avatars'
    BY <1>13 DEF SetIdentifier
  <2>2. CopiedFor(x)' /\ OthersSame(x)
    BY <1>13, Moved DEF SetIdentifier, Copied, CopiedFor, RequestSame, WorkSame
  <2> QED
    BY <2>1, <2>2, CopiedBy
<1>14. ASSUME NEW x \in Workers, Resync(x) PROVE Copied'
  <2>1. avatars \subseteq avatars'
    BY <1>14 DEF Resync, stored
  <2>2. /\ OthersSame(x) /\ job'[x].pc # "remove"
        /\ \/ job'[x].todo = {}
           \/ job'[x].todo = job[x].todo /\ job'[x].target = job[x].target
    BY <1>14, Moved DEF Resync, RequestSame, WorkSame
  <2> QED
    BY <2>1, <2>2, CopiedMoves, CopiedBy
<1>15. ASSUME NEW x \in Workers, Cleanup(x) PROVE Copied'
  <2>1. avatars \subseteq avatars'
    BY <1>15 DEF Cleanup, stored
  <2>2. CopiedFor(x)' /\ OthersSame(x)
    BY <1>15, Ended DEF Cleanup, CopiedFor
  <2> QED
    BY <2>1, <2>2, CopiedBy
<1>16. ASSUME Cancel PROVE Copied'
  BY <1>16 DEF Cancel, Copied, File, stored
<1>17. ASSUME Expire PROVE Copied'
  BY <1>17 DEF Expire, Copied, File, stored
<1>18. ASSUME NEW q \in Purgers, FindStale(q) PROVE Copied'
  BY <1>18 DEF FindStale, Copied, File, stored
<1>19. ASSUME NEW q \in Purgers, PurgeStale(q) PROVE Copied'
  BY <1>19 DEF PurgeStale, Copied, File, stored
<1>20. ASSUME Crash PROVE Copied'
  BY <1>20 DEF Crash, Copied, Idle
<1>21. ASSUME ScheduledSync PROVE Copied'
  BY <1>21 DEF ScheduledSync, Copied, File, stored
<1>22. ASSUME HRChange PROVE Copied'
  BY <1>22 DEF HRChange, Copied, File, stored
<1>23. ASSUME NEW p \in People, SignIn(p) PROVE Copied'
  BY <1>23 DEF SignIn, Copied, File
<1>24. ASSUME NEW p \in People, Book(p) PROVE Copied'
  BY <1>24 DEF Book, Copied, File
<1>25. ASSUME NEW p \in People, CancelBooking(p) PROVE Copied'
  BY <1>25 DEF CancelBooking, Copied, File
<1>26. CASE UNCHANGED vars
  BY <1>26 DEF vars, Copied, File
<1> QED
  BY <1>1, <1>2, <1>3, <1>4, <1>5, <1>6, <1>7, <1>8, <1>9, <1>10, <1>11, <1>12, <1>13, <1>14, <1>15, <1>16, <1>17, <1>18, <1>19, <1>20, <1>21, <1>22, <1>23, <1>24, <1>25, <1>26 DEF Next, Step

\* Whoever loses a file has another one.
LEMMA AvatarKeptStep == TypeOK /\ Copied /\ AvatarKept /\ [Next]_vars => AvatarKept'
<1> SUFFICES ASSUME TypeOK, Copied, AvatarKept, [Next]_vars PROVE AvatarKept'
  OBVIOUS
<1>1. ASSUME NEW x \in Workers, Request(x) PROVE AvatarKept'
  BY <1>1 DEF Request, AvatarKept, stored
<1>2. ASSUME NEW x \in Workers, Start(x) PROVE AvatarKept'
  BY <1>2 DEF Start, AvatarKept, stored
<1>3. ASSUME NEW x \in Workers, JobFails(x) PROVE AvatarKept'
  BY <1>3 DEF JobFails, AvatarKept, stored
<1>4. ASSUME NEW x \in Workers, Purge(x) PROVE AvatarKept'
  BY <1>4 DEF Purge, AvatarKept, stored
<1>5. ASSUME NEW x \in Workers, Plan(x) PROVE AvatarKept'
  BY <1>5 DEF Plan, AvatarKept, stored
<1>6. ASSUME NEW x \in Workers, StageArea(x) PROVE AvatarKept'
  BY <1>6 DEF StageArea, AvatarKept, stored
<1>7. ASSUME NEW x \in Workers, WriteInfo(x) PROVE AvatarKept'
  BY <1>7 DEF WriteInfo, AvatarKept, stored
<1>8. ASSUME NEW x \in Workers, ReadInfo(x) PROVE AvatarKept'
  BY <1>8 DEF ReadInfo, AvatarKept, stored
<1>9. ASSUME NEW x \in Workers, ApplyArea(x) PROVE AvatarKept'
  BY <1>9 DEF ApplyArea, AvatarKept
<1>10. ASSUME NEW x \in Workers, Remap(x) PROVE AvatarKept'
  BY <1>10 DEF Remap, AvatarKept, stored
<1>11. ASSUME NEW x \in Workers, CopyAvatar(x) PROVE AvatarKept'
  BY <1>11 DEF CopyAvatar, AvatarKept
<1>12. ASSUME NEW x \in Workers, RemoveAvatar(x) PROVE AvatarKept'
  <2>1. /\ job[x].todo # {} /\ <<File(x)[1], job[x].target>> \in avatars
        /\ \A f \in job[x].todo : f[2] # job[x].target
    BY <1>12 DEF RemoveAvatar, At, Copied
  <2>2. File(x) \in job[x].todo /\ File(x) # <<File(x)[1], job[x].target>>
    BY <2>1, FileType
  <2> QED
    BY <1>12, <2>1, <2>2 DEF RemoveAvatar, AvatarKept
<1>13. ASSUME NEW x \in Workers, SetIdentifier(x) PROVE AvatarKept'
  BY <1>13 DEF SetIdentifier, AvatarKept
<1>14. ASSUME NEW x \in Workers, Resync(x) PROVE AvatarKept'
  BY <1>14 DEF Resync, AvatarKept, stored
<1>15. ASSUME NEW x \in Workers, Cleanup(x) PROVE AvatarKept'
  BY <1>15 DEF Cleanup, AvatarKept, stored
<1>16. ASSUME Cancel PROVE AvatarKept'
  BY <1>16 DEF Cancel, AvatarKept, stored
<1>17. ASSUME Expire PROVE AvatarKept'
  BY <1>17 DEF Expire, AvatarKept, stored
<1>18. ASSUME NEW q \in Purgers, FindStale(q) PROVE AvatarKept'
  BY <1>18 DEF FindStale, AvatarKept, stored
<1>19. ASSUME NEW q \in Purgers, PurgeStale(q) PROVE AvatarKept'
  BY <1>19 DEF PurgeStale, AvatarKept, stored
<1>20. ASSUME Crash PROVE AvatarKept'
  BY <1>20 DEF Crash, AvatarKept, stored
<1>21. ASSUME ScheduledSync PROVE AvatarKept'
  BY <1>21 DEF ScheduledSync, AvatarKept, stored
<1>22. ASSUME HRChange PROVE AvatarKept'
  BY <1>22 DEF HRChange, AvatarKept, stored
<1>23. ASSUME NEW p \in People, SignIn(p) PROVE AvatarKept'
  BY <1>23 DEF SignIn, AvatarKept
<1>24. ASSUME NEW p \in People, Book(p) PROVE AvatarKept'
  BY <1>24 DEF Book, AvatarKept
<1>25. ASSUME NEW p \in People, CancelBooking(p) PROVE AvatarKept'
  BY <1>25 DEF CancelBooking, AvatarKept
<1>26. CASE UNCHANGED vars
  BY <1>26 DEF vars, AvatarKept
<1> QED
  BY <1>1, <1>2, <1>3, <1>4, <1>5, <1>6, <1>7, <1>8, <1>9, <1>10, <1>11, <1>12, <1>13, <1>14, <1>15, <1>16, <1>17, <1>18, <1>19, <1>20, <1>21, <1>22, <1>23, <1>24, <1>25, <1>26 DEF Next, Step

----------------------------------------------------------------------------
(* The conversion *)

\* What the staging has converted is in the bucket, and nothing else is.
StagedFor(a, t) == /\ \A e \in due[a] : <<e, t>> \in stage[a].rows
                   /\ \A r \in stage[a].rows : r[2] = t

\* What the staging has converted is live in the new form: a user record is there
\* under its new key, every other row that is still there has the new form.
AppliedFor(a, t) == IF a = "admins" THEN \A e \in due[a] : <<e, t>> \in live[a]
                                    ELSE \A r \in live[a] : r[1] \in due[a] => r[2] = t

\* A worker that is not going through the areas starts with the first one.
AtFirstArea == \A x \in Workers : job[x].pc \notin {"stage", "apply"} => job[x].n = 1

\* The bounds only fall.
WithinBounds == budget.cancel <= MaxCancel /\ budget.expire <= MaxExpire

\* A Create has staged the areas it has passed; an Apply has a record of its own
\* target, and has applied the areas it has passed.
WorkFits(x) ==
    /\ job[x].pc = "stage" => \A m \in 1..(job[x].n - 1) : StagedFor(Areas[m], job[x].target)
    /\ job[x].pc = "info" => \A a \in Area : StagedFor(a, job[x].target)
    /\ (job[x].pc = "apply" \/ (job[x].pc = "plan" /\ job[x].kind = "apply"))
          => info # NoInfo /\ info.target = job[x].target
    /\ job[x].pc = "apply" => \A m \in 1..(job[x].n - 1) : AppliedFor(Areas[m], job[x].target)
    /\ job[x].pc \in {"remap", "avatars", "remove"}
          => \A a \in Area : AppliedFor(a, job[x].target)

\* As long as nobody cancels and nothing expires, no janitor is after the
\* staging, and what the info record describes is staged completely.
RecordFits ==
    /\ stale = {} /\ info.expired = FALSE
    /\ info # NoInfo => \A a \in Area : StagedFor(a, info.target)
Conversion == Undisturbed => RecordFits /\ \A x \in Workers : WorkFits(x)

CInv == IInv /\ AtFirstArea /\ WithinBounds /\ Conversion

\* The areas are five different ones.
LEMMA AreaPlaces ==
    /\ Len(Areas) = 5
    /\ \A n \in 1..5 : Areas[n] \in Area
    /\ \A a \in Area : \E n \in 1..5 : a = Areas[n]
    /\ \A m, n \in 1..5 : Areas[m] = Areas[n] => m = n
<1>1. /\ Len(Areas) = 5 /\ DOMAIN Areas = 1..5
      /\ Areas[1] = "audit" /\ Areas[2] = "changelog" /\ Areas[3] = "bookings"
      /\ Areas[4] = "desks" /\ Areas[5] = "admins"
  BY DEF Areas
<1>2. 1..5 = {1, 2, 3, 4, 5}
  OBVIOUS
<1>3. \A m, n \in 1..5 : Areas[m] = Areas[n] => m = n
  BY <1>1, <1>2
<1> QED
  BY <1>1, <1>3 DEF Area

\* What a step makes of a worker's position among the areas.
LEMMA Positions ==
    ASSUME TypeOK, NEW x \in Workers
    PROVE  /\ job[x].n \in 1..5
           /\ \A pc : Goto(x, pc) => job'[x].n = job[x].n
           /\ (Finish(x) \/ Become(x, Idle)) => job'[x].n = 1
           /\ Request(x) => job'[x].n = 1
           /\ Plan(x) /\ ~Finish(x) => job'[x].n = job[x].n
           /\ Remap(x) => job'[x].n = job[x].n
           /\ Become(x, Done(x)) => job'[x].n = job[x].n
<1>1. job[x] \in Job /\ job[x].n \in 1..5 /\ x \in DOMAIN job
  BY JobType, Constants DEF Job, TypeOK
<1>2. \A pc : Goto(x, pc) => job'[x].n = job[x].n
  BY <1>1 DEF Goto, Job
<1>3. (Finish(x) \/ Become(x, Idle)) => job'[x].n = 1
  BY <1>1 DEF Finish, Become, Idle
<1>4. ASSUME Request(x) PROVE job'[x].n = 1
  <2>1. PICK kind \in {"create", "apply"}, t \in Forms :
           Become(x, [Idle EXCEPT !.pc = "start", !.kind = kind, !.target = t,
                                  !.gen = budget.runs])
    BY <1>4 DEF Request
  <2>2. job'[x] = [Idle EXCEPT !.pc = "start", !.kind = kind, !.target = t,
                               !.gen = budget.runs]
    BY <1>1, <2>1 DEF Become
  <2> QED
    BY <2>2 DEF Idle
<1>5. ASSUME Plan(x), ~Finish(x) PROVE job'[x].n = job[x].n
  <2>1. job'[x] = [job[x] EXCEPT
                 !.pc = IF job[x].kind = "create" THEN "stage" ELSE "apply",
                 !.plan = Planned(job[x].target)]
    BY <1>1, <1>5 DEF Plan, Become
  <2> QED
    BY <1>1, <2>1 DEF Job
<1>6. ASSUME Remap(x) PROVE job'[x].n = job[x].n
  <2>1. job'[x] = [job[x] EXCEPT !.pc = "avatars",
             !.todo = {f \in avatars : f[1] \in job[x].plan /\ f[2] # job[x].target}]
    BY <1>1, <1>6 DEF Remap, Become
  <2> QED
    BY <1>1, <2>1 DEF Job
<1>7. Become(x, Done(x)) => job'[x].n = job[x].n
  BY <1>1 DEF Become, Done, Job
<1> QED
  BY <1>1, <1>2, <1>3, <1>4, <1>5, <1>6, <1>7

\* After the last area a worker goes on and its position is the first again.
LEMMA AreaPositions ==
    ASSUME TypeOK, NEW x \in Workers, NEW done, NextArea(x, done)
    PROVE  IF job[x].n = 5 THEN job'[x].pc = done /\ job'[x].n = 1
                           ELSE job'[x].pc = job[x].pc /\ job'[x].n = job[x].n + 1
<1>1. job[x] \in Job /\ x \in DOMAIN job /\ Len(Areas) = 5
  BY JobType, Constants DEF TypeOK
<1>2. CASE job[x].n = 5
  <2>1. job'[x] = [job[x] EXCEPT !.pc = done, !.n = 1]
    BY <1>1, <1>2 DEF NextArea, Become
  <2> QED
    BY <1>1, <1>2, <2>1 DEF Job
<1>3. CASE job[x].n # 5
  <2>1. job'[x] = [job[x] EXCEPT !.n = @ + 1]
    BY <1>1, <1>3 DEF NextArea, Become
  <2> QED
    BY <1>1, <1>3, <2>1 DEF Job
<1> QED
  BY <1>2, <1>3

\* A step leaves the bounds alone or uses up one.
LEMMA BudgetMoves ==
    ASSUME TypeOK, [Next]_vars
    PROVE  UNCHANGED budget \/ \E b \in DOMAIN budget : Spend(b)
<1>1. DOMAIN budget = {"runs", "cancel", "expire", "crash", "fail", "edit"}
  BY DEF TypeOK
<1>2. ASSUME NEW x \in Workers, Request(x) \/ JobFails(x)
      PROVE  \E b \in DOMAIN budget : Spend(b)
  BY <1>1, <1>2 DEF Request, JobFails
<1>3. ASSUME NEW x \in Workers, Step(x)
      PROVE  UNCHANGED budget \/ \E b \in DOMAIN budget : Spend(b)
  BY <1>1, <1>3 DEF Step, Start, Purge, Plan, StageArea, WriteInfo, ReadInfo, ApplyArea, Remap,
     CopyAvatar, RemoveAvatar, SetIdentifier, Resync, Cleanup
<1>4. ASSUME Cancel \/ Expire \/ Crash \/ HRChange PROVE \E b \in DOMAIN budget : Spend(b)
  BY <1>1, <1>4 DEF Cancel, Expire, Crash, HRChange
<1>5. ASSUME NEW p \in People, SignIn(p) \/ Book(p) \/ CancelBooking(p)
      PROVE  \E b \in DOMAIN budget : Spend(b)
  BY <1>1, <1>5 DEF SignIn, Book, CancelBooking
<1>6. ASSUME NEW q \in Purgers, FindStale(q) \/ PurgeStale(q) PROVE UNCHANGED budget
  BY <1>6 DEF FindStale, PurgeStale
<1>7. ScheduledSync \/ UNCHANGED vars => UNCHANGED budget
  BY DEF ScheduledSync, vars
<1> QED
  BY <1>2, <1>3, <1>4, <1>5, <1>6, <1>7 DEF Next

\* The bounds stay bounds, and what is undisturbed was undisturbed before.
LEMMA BoundsStep ==
    ASSUME TypeOK, WithinBounds, [Next]_vars
    PROVE  /\ WithinBounds'
           /\ Undisturbed' => Undisturbed /\ ~Cancel /\ ~Expire
<1> USE BoundsAssumption
<1>1. /\ budget.cancel \in Nat /\ budget.expire \in Nat
      /\ MaxCancel \in Nat /\ MaxExpire \in Nat
      /\ DOMAIN budget = {"runs", "cancel", "expire", "crash", "fail", "edit"}
  BY DEF TypeOK
<1>2. /\ budget'.cancel \in {budget.cancel, budget.cancel - 1}
      /\ budget'.expire \in {budget.expire, budget.expire - 1}
      /\ Cancel => budget'.cancel = budget.cancel - 1
      /\ Expire => budget'.expire = budget.expire - 1
  <2>1. ASSUME NEW b \in DOMAIN budget, Spend(b)
        PROVE  /\ budget'.cancel = IF b = "cancel" THEN budget.cancel - 1 ELSE budget.cancel
               /\ budget'.expire = IF b = "expire" THEN budget.expire - 1 ELSE budget.expire
    BY <1>1, <2>1 DEF Spend
  <2>2. Cancel => budget'.cancel = budget.cancel - 1
    BY <1>1, <2>1 DEF Cancel
  <2>3. Expire => budget'.expire = budget.expire - 1
    BY <1>1, <2>1 DEF Expire
  <2> QED
    BY <2>1, <2>2, <2>3, BudgetMoves
<1> QED
  BY <1>1, <1>2 DEF WithinBounds, Undisturbed

\* Whoever goes through the areas came from the first one, and whoever has passed
\* them all, or stops, is back there.
LEMMA AtFirstStep == TypeOK /\ AtFirstArea /\ [Next]_vars => AtFirstArea'
<1> SUFFICES ASSUME TypeOK, AtFirstArea, [Next]_vars PROVE AtFirstArea'
  OBVIOUS
<1>1. ASSUME NEW x \in Workers, OthersSame(x),
             job'[x].pc \notin {"stage", "apply"} => job'[x].n = 1
      PROVE  AtFirstArea'
  BY <1>1 DEF AtFirstArea, OthersSame
<1>2. ASSUME NEW x \in Workers, Request(x) PROVE AtFirstArea'
  BY <1>1, <1>2, Requested, Positions
<1>3. ASSUME NEW x \in Workers, JobFails(x) PROVE AtFirstArea'
  BY <1>1, <1>3, Ended, Positions DEF JobFails
<1>4. ASSUME NEW x \in Workers, NEW pc, Goto(x, pc), job[x].n = 1 PROVE AtFirstArea'
  BY <1>1, <1>4, Moved, Positions
<1>5. ASSUME NEW x \in Workers, Finish(x) \/ Become(x, Idle) PROVE AtFirstArea'
  BY <1>1, <1>5, Ended, Positions
<1>6. ASSUME NEW x \in Workers, NEW done, NextArea(x, done), job[x].pc \in {"stage", "apply"}
      PROVE  AtFirstArea'
  BY <1>1, <1>6, AreaMoves, AreaPositions
<1>7. ASSUME NEW x \in Workers, Start(x) \/ Purge(x) \/ WriteInfo(x) \/ ReadInfo(x) \/ Cleanup(x)
      PROVE  AtFirstArea'
  <2>1. job[x].n = 1
    BY <1>7 DEF Start, Purge, WriteInfo, ReadInfo, Cleanup, At, AtFirstArea
  <2> QED
    BY <1>4, <1>5, <1>7, <2>1 DEF Start, Purge, WriteInfo, ReadInfo, Cleanup
<1>8. ASSUME NEW x \in Workers, Plan(x) PROVE AtFirstArea'
  <2>1. CASE Finish(x)
    BY <1>5, <2>1
  <2>2. CASE ~Finish(x)
    <3>1. job'[x].n = 1
      BY <1>8, <2>2, Positions DEF Plan, At, AtFirstArea
    <3> QED
      BY <1>1, <1>8, <3>1, PlanMoves
  <2> QED
    BY <2>1, <2>2
<1>9. ASSUME NEW x \in Workers, StageArea(x) \/ ApplyArea(x) PROVE AtFirstArea'
  BY <1>6, <1>9 DEF StageArea, ApplyArea, At
<1>10. ASSUME NEW x \in Workers, Remap(x) PROVE AtFirstArea'
  <2>1. job'[x].n = 1
    BY <1>10, Positions DEF Remap, At, AtFirstArea
  <2> QED
    BY <1>1, <1>10, <2>1, RemapMoves
<1>11. ASSUME NEW x \in Workers, CopyAvatar(x) \/ RemoveAvatar(x) PROVE AtFirstArea'
  <2>1. job[x].n = 1
    BY <1>11 DEF CopyAvatar, RemoveAvatar, At, AtFirstArea
  <2>2. CASE Goto(x, "remove")
    BY <1>4, <2>1, <2>2
  <2>3. CASE Become(x, Done(x))
    BY <1>1, <2>1, <2>3, FileMoves, Positions
  <2> QED
    BY <1>11, <2>2, <2>3 DEF CopyAvatar, RemoveAvatar
<1>12. ASSUME NEW x \in Workers, SetIdentifier(x) \/ Resync(x) PROVE AtFirstArea'
  <2>1. job[x].n = 1
    BY <1>12 DEF SetIdentifier, Resync, At, AtFirstArea
  <2> QED
    BY <1>4, <1>12, <2>1 DEF SetIdentifier, Resync
<1>13. Crash => AtFirstArea'
  BY DEF Crash, AtFirstArea, Idle
<1>14. UNCHANGED job => AtFirstArea'
  BY DEF AtFirstArea
<1>15. ASSUME Cancel \/ Expire \/ ScheduledSync \/ HRChange \/ UNCHANGED vars PROVE UNCHANGED job
  BY <1>15 DEF Cancel, Expire, ScheduledSync, HRChange, vars
<1>16. ASSUME NEW q \in Purgers, FindStale(q) \/ PurgeStale(q) PROVE UNCHANGED job
  BY <1>16 DEF FindStale, PurgeStale
<1>17. ASSUME NEW p \in People, SignIn(p) \/ Book(p) \/ CancelBooking(p) PROVE UNCHANGED job
  BY <1>17 DEF SignIn, Book, CancelBooking
<1> QED
  BY <1>2, <1>3, <1>7, <1>8, <1>9, <1>10, <1>11, <1>12, <1>13, <1>14, <1>15, <1>16, <1>17
  DEF Next, Step

\* No entry becomes due, nothing that was applied is undone, and the staging and
\* its record stay as they are.
Gentle ==
    /\ UNCHANGED <<stage, info>>
    /\ \A a \in Area : /\ due'[a] \subseteq due[a]
                       /\ IF a = "admins" THEN live[a] \subseteq live'[a]
                          ELSE \A r \in live'[a] : r[1] \in due'[a] => r \in live[a]

\* Then what was staged and what was applied still is.
LEMMA GentleKeeps ==
    ASSUME Gentle, NEW t
    PROVE  /\ \A a \in Area : StagedFor(a, t) => StagedFor(a, t)'
           /\ \A a \in Area : AppliedFor(a, t) => AppliedFor(a, t)'
BY DEF Gentle, StagedFor, AppliedFor

\* A worker that takes no part in the step fits as before.
LEMMA GentleFits ==
    ASSUME TypeOK, Gentle, NEW y \in Workers, WorkFits(y), job'[y] = job[y]
    PROVE  WorkFits(y)'
<1>1. PICK t : t = job[y].target
  OBVIOUS
<1>2. job[y].n \in 1..5 /\ \A m \in 1..(job[y].n - 1) : Areas[m] \in Area
  BY Positions, AreaPlaces
<1>3. job'[y].target = t /\ job'[y].n = job[y].n /\ job'[y].pc = job[y].pc
      /\ job'[y].kind = job[y].kind /\ UNCHANGED info
  BY <1>1 DEF Gentle
<1>4. /\ \A a \in Area : StagedFor(a, t) => StagedFor(a, t)'
      /\ \A a \in Area : AppliedFor(a, t) => AppliedFor(a, t)'
  BY GentleKeeps
<1>5. job'[y].pc = "stage" => \A m \in 1..(job'[y].n - 1) : StagedFor(Areas[m], t)'
  BY <1>1, <1>2, <1>3, <1>4 DEF WorkFits
<1>6. job'[y].pc = "info" => \A a \in Area : StagedFor(a, t)'
  BY <1>1, <1>3, <1>4 DEF WorkFits
<1>7. (job'[y].pc = "apply" \/ (job'[y].pc = "plan" /\ job'[y].kind = "apply"))
          => info' # NoInfo /\ info'.target = t
  BY <1>1, <1>3 DEF WorkFits
<1>8. job'[y].pc = "apply" => \A m \in 1..(job'[y].n - 1) : AppliedFor(Areas[m], t)'
  BY <1>1, <1>2, <1>3, <1>4 DEF WorkFits
<1>9. job'[y].pc \in {"remap", "avatars", "remove"} => \A a \in Area : AppliedFor(a, t)'
  BY <1>1, <1>3, <1>4 DEF WorkFits
<1> QED
  BY <1>3, <1>5, <1>6, <1>7, <1>8, <1>9 DEF WorkFits, StagedFor, AppliedFor

\* A worker that is not active fits.
LEMMA IdleFits ==
    ASSUME NEW x \in Workers, job'[x].pc \in {"idle", "start", "purge", "read", "resync", "cleanup"}
    PROVE  WorkFits(x)'
BY DEF WorkFits

\* As a job is alone, all workers fit when it does.
LEMMA AloneFits ==
    ASSUME OneJob, NEW x \in Workers, Active(x), OthersSame(x), WorkFits(x)',
           TypeOK
    PROVE  \A y \in Workers : WorkFits(y)'
<1>1. ASSUME NEW y \in Workers \ {x} PROVE job'[y].pc \in {"idle", "start"}
  BY DEF OneJob, Active, OthersSame
<1> QED
  BY <1>1, IdleFits

\* Staging an area adds it to those that are staged.
LEMMA StageAreaFits ==
    ASSUME TypeOK, NEW x \in Workers, StageArea(x), WorkFits(x)
    PROVE  WorkFits(x)'
<1>1. PICK t : t = job[x].target
  OBVIOUS
<1>2. PICK n : n = job[x].n
  OBVIOUS
<1>3. n \in 1..5 /\ \A m \in 1..n : Areas[m] \in Area
  BY <1>2, Positions, AreaPlaces
<1>4. job'[x].target = t /\ At(x, "stage")
  BY <1>1, AreaMoves DEF StageArea, RequestSame
<1>5. IF n = 5 THEN job'[x].pc = "info" /\ job'[x].n = 1
               ELSE job'[x].pc = "stage" /\ job'[x].n = n + 1
  BY <1>2, <1>4, AreaPositions DEF StageArea, At
<1>6. StagedFor(Areas[n], t)'
  <2> DEFINE es == {r[1] : r \in {q \in live[Areas[n]] : q[1][1] \in job[x].plan /\ q[2] # t}}
  <2>1. due'[Areas[n]] = es /\ stage'[Areas[n]].rows = es \X {t}
    BY <1>1, <1>2, <1>3 DEF StageArea, TypeOK
  <2> QED
    BY <2>1 DEF StagedFor
<1>7. ASSUME NEW m \in 1..(n - 1) PROVE StagedFor(Areas[m], t)'
  <2>1. StagedFor(Areas[m], t)
    BY <1>1, <1>2, <1>4 DEF WorkFits, At
  <2>2. Areas[m] # Areas[n] /\ Areas[m] \in Area
    BY <1>3, AreaPlaces
  <2>3. due'[Areas[m]] = due[Areas[m]] /\ stage'[Areas[m]] = stage[Areas[m]]
    BY <1>2, <2>2 DEF StageArea, TypeOK
  <2> QED
    BY <2>1, <2>3 DEF StagedFor
<1>8. \A m \in 1..n : StagedFor(Areas[m], t)'
  BY <1>3, <1>6, <1>7
<1>9. CASE n = 5
  <2>1. \A a \in Area : StagedFor(a, t)'
    BY <1>8, <1>9, AreaPlaces
  <2> QED
    BY <1>4, <1>5, <1>9, <2>1 DEF WorkFits, StagedFor
<1>10. CASE n # 5
  <2>1. job'[x].n - 1 = n
    BY <1>3, <1>5, <1>10
  <2> QED
    BY <1>4, <1>5, <1>8, <1>10, <2>1 DEF WorkFits, StagedFor
<1> QED
  BY <1>9, <1>10

\* Applying an area that is staged adds it to those that are applied.
LEMMA ApplyAreaFits ==
    ASSUME TypeOK, RecordFits, NEW x \in Workers, ApplyArea(x), WorkFits(x)
    PROVE  WorkFits(x)'
<1>1. PICK t : t = job[x].target
  OBVIOUS
<1>2. PICK n : n = job[x].n
  OBVIOUS
<1>3. n \in 1..5 /\ \A m \in 1..n : Areas[m] \in Area
  BY <1>2, Positions, AreaPlaces
<1>4. job'[x].target = t /\ At(x, "apply") /\ UNCHANGED <<stage, info, due>>
  BY <1>1, AreaMoves DEF ApplyArea, RequestSame, staging
<1>5. IF n = 5 THEN job'[x].pc = "remap" /\ job'[x].n = 1
               ELSE job'[x].pc = "apply" /\ job'[x].n = n + 1
  BY <1>2, <1>4, AreaPositions DEF ApplyArea, At
<1>6. AppliedFor(Areas[n], t)'
  <2>1. StagedFor(Areas[n], t)
    BY <1>1, <1>3, <1>4 DEF WorkFits, At, RecordFits
  <2>2. live'[Areas[n]] = {r \in live[Areas[n]] : r[1] \notin Entries(stage[Areas[n]].rows)}
                            \cup stage[Areas[n]].rows
    BY <1>2, <1>3 DEF ApplyArea, TypeOK, Applied
  <2>3. ASSUME NEW e \in due[Areas[n]] PROVE e \in Entries(stage[Areas[n]].rows)
    <3>1. <<e, t>> \in stage[Areas[n]].rows /\ <<e, t>>[1] = e
      BY <2>1 DEF StagedFor
    <3> QED
      BY <3>1 DEF Entries
  <2>4. CASE Areas[n] = "admins"
    <3>1. \A e \in due'[Areas[n]] : <<e, t>> \in live'[Areas[n]]
      BY <1>4, <2>1, <2>2 DEF StagedFor
    <3> QED
      BY <2>4, <3>1 DEF AppliedFor
  <2>5. CASE Areas[n] # "admins"
    <3>1. \A r \in live'[Areas[n]] : r[1] \in due'[Areas[n]] => r[2] = t
      BY <1>4, <2>1, <2>2, <2>3 DEF StagedFor
    <3> QED
      BY <2>5, <3>1 DEF AppliedFor
  <2> QED
    BY <2>4, <2>5
<1>7. ASSUME NEW m \in 1..(n - 1) PROVE AppliedFor(Areas[m], t)'
  <2>1. AppliedFor(Areas[m], t)
    BY <1>1, <1>2, <1>4 DEF WorkFits, At
  <2>2. Areas[m] # Areas[n] /\ Areas[m] \in Area
    BY <1>3, AreaPlaces
  <2>3. live'[Areas[m]] = live[Areas[m]]
    BY <1>2, <2>2 DEF ApplyArea, TypeOK
  <2> QED
    BY <1>4, <2>1, <2>3 DEF AppliedFor
<1>8. \A m \in 1..n : AppliedFor(Areas[m], t)'
  BY <1>3, <1>6, <1>7
<1>9. info' # NoInfo /\ info'.target = t
  BY <1>1, <1>4 DEF WorkFits, At
<1>10. CASE n = 5
  <2>1. \A a \in Area : AppliedFor(a, t)'
    BY <1>8, <1>10, AreaPlaces
  <2> QED
    BY <1>4, <1>5, <1>10, <2>1 DEF WorkFits, AppliedFor
<1>11. CASE n # 5
  <2>1. job'[x].n - 1 = n
    BY <1>3, <1>5, <1>11
  <2> QED
    BY <1>4, <1>5, <1>8, <1>9, <1>11, <2>1 DEF WorkFits, AppliedFor
<1> QED
  BY <1>10, <1>11

\* The steps that leave rows, staging and record alone are gentle.
LEMMA QuietGentle == UNCHANGED <<live, stage, info, due>> => Gentle
BY DEF Gentle

\* A record that is kept with the staging fits as before.
LEMMA GentleRecord ==
    ASSUME Gentle, RecordFits, UNCHANGED stale
    PROVE  RecordFits'
<1>1. PICK t : t = info.target
  OBVIOUS
<1>2. info' = info /\ \A a \in Area : StagedFor(a, t) => StagedFor(a, t)'
  BY GentleKeeps DEF Gentle
<1>3. info' # NoInfo => \A a \in Area : StagedFor(a, t)'
  BY <1>1, <1>2 DEF RecordFits
<1> QED
  BY <1>1, <1>2, <1>3 DEF RecordFits, StagedFor

\* A gentle step of one worker keeps everything that worker does not disturb.
LEMMA GentleStep ==
    ASSUME TypeOK, Gentle, RecordFits, UNCHANGED stale, \A y \in Workers : WorkFits(y),
           NEW x \in Workers, OthersSame(x), WorkFits(x)'
    PROVE  RecordFits' /\ \A y \in Workers : WorkFits(y)'
<1>1. RecordFits'
  BY GentleRecord
<1>2. ASSUME NEW y \in Workers \ {x} PROVE WorkFits(y)'
  BY <1>2, GentleFits DEF OthersSame
<1> QED
  BY <1>1, <1>2

\* After a purge there is no record to fit.
LEMMA PurgedRecord ==
    ASSUME purge, stale' = {}
    PROVE  RecordFits'
BY DEF purge, RecordFits, NoInfo

\* Every step keeps what is staged and applied fitting, as long as nobody cancels
\* and nothing expires.
LEMMA ConversionStep ==
    IInv /\ AtFirstArea /\ WithinBounds /\ Conversion /\ [Next]_vars => Conversion'
<1> SUFFICES ASSUME IInv, AtFirstArea, WithinBounds, Conversion, [Next]_vars, Undisturbed'
             PROVE  RecordFits' /\ \A y \in Workers : WorkFits(y)'
  BY DEF Conversion
<1> USE DEF IInv
<1>a. /\ RecordFits /\ \A y \in Workers : WorkFits(y)
      /\ ~Cancel /\ ~Expire
  BY BoundsStep DEF Conversion
<1>1. ASSUME NEW x \in Workers, Request(x) PROVE RecordFits' /\ \A y \in Workers : WorkFits(y)'
  <2>1. Gentle /\ UNCHANGED stale /\ OthersSame(x) /\ WorkFits(x)'
    BY <1>1, QuietGentle, Requested, IdleFits DEF Request, stored, staging
  <2> QED
    BY <1>a, <2>1, GentleStep
<1>2. ASSUME NEW x \in Workers, Start(x) PROVE RecordFits' /\ \A y \in Workers : WorkFits(y)'
  <2>1. Gentle /\ UNCHANGED stale /\ OthersSame(x) /\ WorkFits(x)'
    BY <1>2, QuietGentle, Started, IdleFits DEF Start, stored, staging
  <2> QED
    BY <1>a, <2>1, GentleStep
<1>3. ASSUME NEW x \in Workers, JobFails(x) PROVE RecordFits' /\ \A y \in Workers : WorkFits(y)'
  <2>1. Gentle /\ UNCHANGED stale /\ OthersSame(x) /\ WorkFits(x)'
    BY <1>3, QuietGentle, Ended, IdleFits DEF JobFails, stored, staging
  <2> QED
    BY <1>a, <2>1, GentleStep
<1>4. ASSUME NEW x \in Workers, Purge(x) PROVE RecordFits' /\ \A y \in Workers : WorkFits(y)'
  <2>1. RecordFits'
    BY <1>4, <1>a, PurgedRecord DEF Purge, RecordFits
  <2>2. Active(x) /\ OthersSame(x)
    BY <1>4, Moved, Ended DEF Purge, At, Active
  <2>3. CASE job[x].kind = "create"
    <3>1. job'[x].pc = "plan" /\ job'[x].kind = "create"
      BY <1>4, <2>3, Moved DEF Purge, RequestSame
    <3>2. WorkFits(x)'
      BY <3>1 DEF WorkFits
    <3> QED
      BY <2>1, <2>2, <3>2, AloneFits
  <2>4. CASE job[x].kind # "create"
    <3>1. WorkFits(x)'
      BY <1>4, <2>4, Ended, IdleFits DEF Purge
    <3> QED
      BY <2>1, <2>2, <3>1, AloneFits
  <2> QED
    BY <2>3, <2>4
<1>5. ASSUME NEW x \in Workers, Plan(x) PROVE RecordFits' /\ \A y \in Workers : WorkFits(y)'
  <2>1. Gentle /\ UNCHANGED <<stale, info>> /\ OthersSame(x) /\ At(x, "plan")
    BY <1>5, QuietGentle, PlanMoves DEF Plan, stored, staging
  <2>2. CASE Finish(x)
    <3>1. WorkFits(x)'
      BY <2>2, Ended, IdleFits
    <3> QED
      BY <1>a, <2>1, <3>1, GentleStep
  <2>3. CASE ~Finish(x)
    <3>1. job'[x].n = 1 /\ job[x].kind \in {"create", "apply"}
      BY <1>5, <2>1, <2>3, Positions, JobType DEF At, AtFirstArea, Job
    <3>2. /\ job'[x].pc = IF job[x].kind = "create" THEN "stage" ELSE "apply"
          /\ job'[x].target = job[x].target
      <4>1. job'[x] = [job[x] EXCEPT
                     !.pc = IF job[x].kind = "create" THEN "stage" ELSE "apply",
                     !.plan = Planned(job[x].target)]
        BY <1>5, <2>3 DEF Plan, Become, TypeOK
      <4> QED
        BY <4>1, JobType DEF Job
    <3>3. job[x].kind = "apply" => info' # NoInfo /\ info'.target = job'[x].target
      BY <1>a, <2>1, <3>2 DEF WorkFits, At
    <3>4. 1..(job'[x].n - 1) = {}
      BY <3>1
    <3>5. WorkFits(x)'
      BY <3>1, <3>2, <3>3, <3>4 DEF WorkFits
    <3> QED
      BY <1>a, <2>1, <3>5, GentleStep
  <2> QED
    BY <2>2, <2>3
<1>6. ASSUME NEW x \in Workers, StageArea(x) PROVE RecordFits' /\ \A y \in Workers : WorkFits(y)'
  <2>1. Active(x) /\ OthersSame(x) /\ info = NoInfo
    BY <1>6, AreaMoves DEF StageArea, At, Active, OwnBuckets, Creating
  <2>2. RecordFits'
    BY <1>6, <1>a, <2>1 DEF StageArea, RecordFits
  <2> QED
    BY <1>6, <1>a, <2>1, <2>2, StageAreaFits, AloneFits
<1>7. ASSUME NEW x \in Workers, WriteInfo(x) PROVE RecordFits' /\ \A y \in Workers : WorkFits(y)'
  <2>1. Active(x) /\ OthersSame(x) /\ WorkFits(x)'
    BY <1>7, Ended, IdleFits DEF WriteInfo, At, Active
  <2>2. PICK t : t = job[x].target
    OBVIOUS
  <2>3. \A a \in Area : StagedFor(a, t)
    BY <1>7, <1>a, <2>2 DEF WriteInfo, At, WorkFits
  <2>4. info'.target = t /\ info'.expired = FALSE /\ UNCHANGED <<stage, due, stale>>
    BY <1>7, <2>2 DEF WriteInfo
  <2>5. RecordFits'
    BY <1>a, <2>3, <2>4 DEF RecordFits, StagedFor
  <2> QED
    BY <2>1, <2>5, AloneFits
<1>8. ASSUME NEW x \in Workers, ReadInfo(x) PROVE RecordFits' /\ \A y \in Workers : WorkFits(y)'
  <2>1. Gentle /\ UNCHANGED <<stale, info>> /\ OthersSame(x)
    BY <1>8, QuietGentle, Moved, Ended DEF ReadInfo, stored, staging
  <2>2. CASE Finish(x)
    <3>1. WorkFits(x)'
      BY <2>2, Ended, IdleFits
    <3> QED
      BY <1>a, <2>1, <3>1, GentleStep
  <2>3. CASE ~Finish(x)
    <3>1. info # NoInfo /\ info.target = job[x].target /\ Goto(x, "plan")
      BY <1>8, <1>a, <2>3 DEF ReadInfo, RecordFits
    <3>2. job'[x].pc = "plan" /\ job'[x].target = job[x].target
      BY <3>1, Moved DEF RequestSame
    <3>3. WorkFits(x)'
      BY <2>1, <3>1, <3>2 DEF WorkFits
    <3> QED
      BY <1>a, <2>1, <3>3, GentleStep
  <2> QED
    BY <2>2, <2>3
<1>9. ASSUME NEW x \in Workers, ApplyArea(x) PROVE RecordFits' /\ \A y \in Workers : WorkFits(y)'
  <2>1. Active(x) /\ OthersSame(x) /\ WorkFits(x)'
    BY <1>9, <1>a, AreaMoves, ApplyAreaFits DEF ApplyArea, At, Active
  <2>2. RecordFits'
    BY <1>9, <1>a DEF ApplyArea, RecordFits, StagedFor, staging
  <2> QED
    BY <2>1, <2>2, AloneFits
<1>10. ASSUME NEW x \in Workers, job[x].pc \in {"remap", "avatars", "remove"},
              job'[x].pc \in {"remap", "avatars", "remove"}, RequestSame(x), OthersSame(x),
              UNCHANGED <<live, stage, info, due, stale>>
       PROVE  RecordFits' /\ \A y \in Workers : WorkFits(y)'
  <2>1. PICK t : t = job[x].target
    OBVIOUS
  <2>2. \A a \in Area : AppliedFor(a, t)
    BY <1>10, <1>a, <2>1 DEF WorkFits
  <2>3. \A a \in Area : AppliedFor(a, t)'
    BY <1>10, <2>2 DEF AppliedFor
  <2>4. job'[x].target = t
    BY <1>10, <2>1 DEF RequestSame
  <2>5. WorkFits(x)'
    BY <1>10, <2>3, <2>4 DEF WorkFits, AppliedFor
  <2> QED
    BY <1>10, <1>a, <2>5, QuietGentle, GentleStep
<1>11. ASSUME NEW x \in Workers, Remap(x) PROVE RecordFits' /\ \A y \in Workers : WorkFits(y)'
  BY <1>10, <1>11, RemapMoves DEF Remap, At, stored, staging
<1>12. ASSUME NEW x \in Workers, CopyAvatar(x) PROVE RecordFits' /\ \A y \in Workers : WorkFits(y)'
  <2>1. /\ job'[x].pc \in {"avatars", "remove"} /\ RequestSame(x) /\ OthersSame(x)
    BY <1>12, Moved, FileMoves DEF CopyAvatar
  <2> QED
    BY <1>10, <1>12, <2>1 DEF CopyAvatar, At, staging
<1>13. ASSUME NEW x \in Workers, RemoveAvatar(x) PROVE RecordFits' /\ \A y \in Workers : WorkFits(y)'
  BY <1>10, <1>13, FileMoves DEF RemoveAvatar, At, staging
<1>14. ASSUME NEW x \in Workers, SetIdentifier(x) PROVE RecordFits' /\ \A y \in Workers : WorkFits(y)'
  <2>1. Gentle /\ UNCHANGED stale /\ OthersSame(x) /\ WorkFits(x)'
    BY <1>14, QuietGentle, Moved, IdleFits DEF SetIdentifier, staging
  <2> QED
    BY <1>a, <2>1, GentleStep
<1>15. ASSUME NEW x \in Workers, Resync(x) PROVE RecordFits' /\ \A y \in Workers : WorkFits(y)'
  <2>1. Gentle /\ UNCHANGED stale /\ OthersSame(x) /\ WorkFits(x)'
    BY <1>15, QuietGentle, Moved, IdleFits DEF Resync, stored, staging
  <2> QED
    BY <1>a, <2>1, GentleStep
<1>16. ASSUME NEW x \in Workers, Cleanup(x) PROVE RecordFits' /\ \A y \in Workers : WorkFits(y)'
  <2>1. RecordFits'
    BY <1>16, <1>a, PurgedRecord DEF Cleanup, RecordFits
  <2>2. Active(x) /\ OthersSame(x) /\ WorkFits(x)'
    BY <1>16, Ended, IdleFits DEF Cleanup, At, Active
  <2> QED
    BY <2>1, <2>2, AloneFits
<1>17. ASSUME Gentle, UNCHANGED <<stale, job>> PROVE RecordFits' /\ \A y \in Workers : WorkFits(y)'
  BY <1>17, <1>a, GentleRecord, GentleFits
<1>18. ASSUME NEW q \in Purgers, FindStale(q) \/ PurgeStale(q)
       PROVE  RecordFits' /\ \A y \in Workers : WorkFits(y)'
  BY <1>18, <1>a DEF FindStale, PurgeStale, RecordFits
<1>19. ASSUME Crash PROVE RecordFits' /\ \A y \in Workers : WorkFits(y)'
  <2>1. \A y \in Workers : WorkFits(y)'
    BY <1>19, IdleFits DEF Crash, Idle
  <2>2. RecordFits'
    BY <1>19, <1>a DEF Crash, RecordFits, StagedFor, staging
  <2> QED
    BY <2>1, <2>2
<1>20. ASSUME ScheduledSync \/ HRChange \/ UNCHANGED vars
       PROVE  RecordFits' /\ \A y \in Workers : WorkFits(y)'
  BY <1>17, <1>20, QuietGentle DEF ScheduledSync, HRChange, vars, stored, staging
<1>21. ASSUME NEW p \in People, SignIn(p) PROVE RecordFits' /\ \A y \in Workers : WorkFits(y)'
  <2>1. Gentle
    BY <1>21 DEF SignIn, Gentle, staging, TypeOK
  <2> QED
    BY <1>17, <1>21, <2>1 DEF SignIn
<1>22. ASSUME NEW p \in People, Book(p) PROVE RecordFits' /\ \A y \in Workers : WorkFits(y)'
  <2>1. /\ UNCHANGED <<stage, info>>
        /\ \A a \in Area \ {"bookings"} : due'[a] = due[a] /\ live'[a] = live[a]
    BY <1>22 DEF Book, staging, TypeOK
  <2>2. "bookings" \in Area
    BY Constants
  <2>3. /\ due'["bookings"] = due["bookings"] \ {<<p, 2>>}
        /\ live'["bookings"] = live["bookings"] \cup {<<<<p, 2>>, sessions[p].samaccountname>>}
    BY <1>22, <2>2 DEF Book, TypeOK
  <2>4. \A r \in live'["bookings"] : r[1] \in due'["bookings"] => r \in live["bookings"]
    BY <2>3
  <2>5. Gentle
    BY <2>1, <2>3, <2>4 DEF Gentle
  <2> QED
    BY <1>17, <1>22, <2>5 DEF Book
<1>23. ASSUME NEW p \in People, CancelBooking(p) PROVE RecordFits' /\ \A y \in Workers : WorkFits(y)'
  <2>1. Gentle
    BY <1>23, Constants DEF CancelBooking, Gentle, staging, TypeOK
  <2> QED
    BY <1>17, <1>23, <2>1 DEF CancelBooking
<1> QED
  BY <1>a, <1>1, <1>2, <1>3, <1>4, <1>5, <1>6, <1>7, <1>8, <1>9, <1>11, <1>12, <1>13, <1>14, <1>15, <1>16, <1>18, <1>19, <1>20, <1>21, <1>22, <1>23 DEF Next, Step

\* The flip converts: it comes when every area is applied.
LEMMA FlipConverts ==
    IInv /\ Conversion /\ [Next]_vars => (ident' # ident /\ Undisturbed => Converted)
<1> SUFFICES ASSUME IInv, Conversion, [Next]_vars, ident' # ident, Undisturbed PROVE Converted
  OBVIOUS
<1>1. PICK x \in Workers : SetIdentifier(x)
  <2>1. ASSUME NEW x \in Workers, Request(x) \/ JobFails(x) PROVE ident' = ident
    BY <2>1 DEF Request, JobFails, stored
  <2>2. ASSUME NEW x \in Workers, Step(x), ~SetIdentifier(x) PROVE ident' = ident
    BY <2>2 DEF Step, Start, Purge, Plan, StageArea, WriteInfo, ReadInfo, ApplyArea, Remap,
       CopyAvatar, RemoveAvatar, Resync, Cleanup, stored
  <2>3. Cancel \/ Expire \/ Crash \/ ScheduledSync \/ HRChange \/ UNCHANGED vars => ident' = ident
    BY DEF Cancel, Expire, Crash, ScheduledSync, HRChange, vars, stored
  <2>4. ASSUME NEW q \in Purgers, FindStale(q) \/ PurgeStale(q) PROVE ident' = ident
    BY <2>4 DEF FindStale, PurgeStale, stored
  <2>5. ASSUME NEW p \in People, SignIn(p) \/ Book(p) \/ CancelBooking(p) PROVE ident' = ident
    BY <2>5 DEF SignIn, Book, CancelBooking
  <2> QED
    BY <2>1, <2>2, <2>3, <2>4, <2>5 DEF Next
<1>2. /\ ident' = job[x].target
      /\ \A a \in Area : AppliedFor(a, ident')
  BY <1>1 DEF SetIdentifier, At, Conversion, WorkFits
<1>3. ASSUME NEW a \in Area, NEW e \in due[a], e \in Entries(live[a])
      PROVE  <<e, ident'>> \in live[a]
  <2>1. AppliedFor(a, ident')
    BY <1>2
  <2>2. CASE a = "admins"
    BY <2>1, <2>2 DEF AppliedFor
  <2>3. CASE a # "admins"
    <3>1. PICK r \in live[a] : r[1] = e
      BY <1>3 DEF Entries
    <3>2. r[2] = ident' /\ r = <<r[1], r[2]>>
      BY <2>1, <2>3, <3>1 DEF AppliedFor, IInv, TypeOK, Rows
    <3> QED
      BY <3>1, <3>2
  <2> QED
    BY <2>2, <2>3
<1> QED
  BY <1>3 DEF Converted

----------------------------------------------------------------------------
(* Theorems *)

\* The invariant is inductive: every step of every job, janitor and person
\* keeps all its parts.
THEOREM Invariance == Spec => []IInv
<1>1. Init => IInv
  BY InitInv
<1>2. IInv /\ [Next]_vars => IInv'
  BY TypeStep, OneJobStep, KindsStep, OwnBucketsStep, OneGenerationStep, NoMailStep,
     ConflictsStep, CopiedStep, AvatarKeptStep DEF IInv
<1> QED
  BY <1>1, <1>2, PTL DEF Spec

\* Every variable keeps its type.
THEOREM Typing == Spec => []TypeOK
<1>1. IInv => TypeOK
  BY DEF IInv
<1> QED
  BY <1>1, Invariance, PTL

\* The migration tracker (migrateProg.Start) lets one job run at a time.
THEOREM MutualExclusion == Spec => []OneJob
<1>1. IInv => OneJob
  BY DEF IInv
<1> QED
  BY <1>1, Invariance, PTL

\* Buckets that stand beside an info record are those of the Create that wrote
\* it (StageTransform, purgeStaging), however many jobs, cancels, crashes.
THEOREM StagingOfOneRun == Spec => []OneGeneration
<1>1. IInv => OneGeneration
  BY DEF IInv
<1> QED
  BY <1>1, Invariance, PTL

\* Whoever has no mail address is never referred to in the mail form, in no area
\* and by no file (buildMigPlan skips those without a target identifier).
THEOREM ConflictsLeftAlone == Spec => []ConflictsUntouched
<1>1. IInv => ConflictsUntouched
  BY DEF IInv
<1> QED
  BY <1>1, Invariance, PTL

\* Nobody loses the avatar, wherever the renaming fails or dies
\* (copyFile, then os.Remove).
THEOREM AvatarsSurvive == Spec => []AvatarKept
<1>1. IInv => AvatarKept
  BY DEF IInv
<1> QED
  BY <1>1, Invariance, PTL

\* The conversion's invariant is inductive as well: what a Create has staged and an
\* Apply has applied stays so, whatever people do meanwhile.
THEOREM ConversionInvariance == Spec => []CInv
<1>1. Init => CInv
  <2> SUFFICES ASSUME Init PROVE CInv
    OBVIOUS
  <2>1. IInv
    BY InitInv
  <2>2. AtFirstArea /\ WithinBounds
    BY BoundsAssumption DEF Init, AtFirstArea, WithinBounds, Idle
  <2>3. RecordFits
    BY DEF Init, RecordFits, NoInfo
  <2>4. \A x \in Workers : WorkFits(x)
    BY DEF Init, WorkFits, Idle
  <2> QED
    BY <2>1, <2>2, <2>3, <2>4 DEF CInv, Conversion
<1>2. CInv /\ [Next]_vars => CInv'
  <2>1. IInv /\ [Next]_vars => IInv'
    BY TypeStep, OneJobStep, KindsStep, OwnBucketsStep, OneGenerationStep, NoMailStep,
       ConflictsStep, CopiedStep, AvatarKeptStep DEF IInv
  <2> QED
    BY <2>1, AtFirstStep, BoundsStep, ConversionStep DEF CInv, IInv
<1> QED
  BY <1>1, <1>2, PTL DEF Spec

\* The setting is flipped only when every entry that was staged, and is still
\* there, is live in the new form (runIdentifierApply calls SetSetting last), for any
\* people, jobs, errors, crashes, sign-ins, bookings: unless the staging is purged.
THEOREM FlipAfterConversion == Spec => ConvertedUnlessPurged
<1>1. CInv /\ [Next]_vars => (ident' # ident /\ Undisturbed => Converted)
  BY FlipConverts DEF CInv
<1>2. CInv /\ [Next]_vars => [ident' # ident /\ Undisturbed => Converted]_vars
  BY <1>1
<1> QED
  BY <1>2, ConversionInvariance, PTL DEF Spec, ConvertedUnlessPurged
=============================================================================
