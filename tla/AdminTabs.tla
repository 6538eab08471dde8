----------------------------- MODULE AdminTabs -----------------------------
(***************************************************************************)
(* The administration page (src/internal/web/static/admin/backend.js):     *)
(* tabs are loaded into one page, the dashboard polls its cards while the  *)
(* window is visible, and the jobs of the sync tab (directory and Robin    *)
(* syncs, diagnostics, geocoding, export) are started, polled every        *)
(* 800 ms and reported, wherever the administrator has gone meanwhile.     *)
(*                                                                         *)
(* One job is watched; its kind says what happens when its start or a poll *)
(* fails and when it ends.  The answer to a progress request says whether  *)
(* the tracker (src/internal/progress) had finished when it was sent.      *)
(***************************************************************************)
EXTENDS Integers, FiniteSets

CONSTANTS
    Kinds,      \* kinds of jobs: "sync" (directories, diagnostics, export),
                \* "robin", whose end draws the tab anew, and "geo"
    MaxTimers,  \* bound: entries of adminTimers
    MaxRuns     \* bound: runs of the job

ASSUME TabsAssumption ==
    Kinds \subseteq {"sync", "robin", "geo"} /\ MaxTimers \in Nat /\ MaxRuns \in Nat

Tabs  == {"dashboard", "sync"}
Slots == {1, 2}    \* bound: polls at once

VARIABLES
    kind,     \* the kind of the job
    content,  \* what #content shows
    loads,    \* requests for the content of a tab (two alike are one)
    hidden,   \* document.hidden
    ticking,  \* number of entries of adminTimers with an interval
    paused,   \* number of those without
    fresh,    \* the dashboard, if shown, shows what the server has
    tracker,  \* the tracker of the job
    button,   \* the button of the job, if shown
    starting, \* the request that starts the job is under way
    polls,    \* the intervals that poll the job
    answers   \* progress requests under way

tab  == <<content, loads, ticking, paused, fresh>>
jobs == <<tracker, button, starting, polls, answers>>
tabsVars == <<kind, hidden, tab, jobs>>

TabsTypeOK ==
    /\ kind \in Kinds
    /\ content \in Tabs \cup {"loading", "failed"}
    /\ loads \subseteq [tab : Tabs, by : {"load", "submit"}]
    /\ {hidden, fresh, starting} \subseteq BOOLEAN
    /\ {ticking, paused} \subseteq 0..MaxTimers /\ ticking + paused =< MaxTimers
    /\ tracker \in [running : BOOLEAN, done : BOOLEAN, runs : 0..MaxRuns]
    /\ ~(tracker.running /\ tracker.done)
    /\ button \in {"ready", "busy"}
    /\ polls \subseteq Slots
    /\ answers \subseteq [poll : Slots, done : BOOLEAN]

TabsInit ==
    /\ kind \in Kinds
    /\ content = "loading"
    /\ loads = {[tab |-> "dashboard", by |-> "load"]}
    /\ hidden = FALSE /\ ticking = 0 /\ paused = 0 /\ fresh = FALSE
    /\ tracker = [running |-> FALSE, done |-> FALSE, runs |-> 0]
    /\ button = "ready" /\ starting = FALSE /\ polls = {} /\ answers = {}

-----------------------------------------------------------------------------
(* Tabs.                                                                   *)

RequestTab(t, by) == loads' = loads \cup {[tab |-> t, by |-> by]}

\* loadAdminTab: by a tab link, the history or the end of a Robin sync.
LoadAdminTab(t) ==
    /\ RequestTab(t, "load")
    /\ content' = "loading" /\ ticking' = 0 /\ paused' = 0
    /\ UNCHANGED fresh

OpenTab(t) == LoadAdminTab(t) /\ UNCHANGED <<kind, hidden, jobs>>

\* submitAdminForm: the tab shown stays until its new content is there.
SubmitAdminForm ==
    /\ content \in Tabs
    /\ RequestTab(content, "submit")
    /\ UNCHANGED <<kind, hidden, content, ticking, paused, fresh, jobs>>

\* Mutant: a timer ticks from its start, whatever the window.
AdminSetInterval_Always(before) ==
    /\ ticking' = before.ticking + 1 /\ paused' = before.paused
    /\ ticking' + paused' =< MaxTimers

\* adminSetInterval: no interval while the window is hidden.
AdminSetInterval(before) ==
    /\ IF hidden THEN paused' = before.paused + 1 /\ ticking' = before.ticking
                 ELSE ticking' = before.ticking + 1 /\ paused' = before.paused
    /\ ticking' + paused' =< MaxTimers

None == [ticking |-> 0, paused |-> 0]
Present == [ticking |-> ticking, paused |-> paused]

\* Mutant: the timers are cleared after the scripts of the new content ran.
Drawn_ClearsLast(l) ==
    /\ content' = l.tab
    /\ IF l.tab = "dashboard" /\ l.by = "load"
       THEN AdminSetInterval(Present) /\ fresh' \in BOOLEAN
       ELSE ticking' = (IF l.by = "load" THEN ticking ELSE 0)
            /\ paused' = (IF l.by = "load" THEN paused ELSE 0) /\ fresh' = fresh
    /\ button' = IF l.tab = "sync" THEN "ready" ELSE button

\* The content arrives and its scripts run: the dashboard asks for its cards
\* and registers its timer.  A submission clears the timers first, a load did
\* when it was sent.
Drawn(l) ==
    LET before == IF l.by = "submit" THEN None ELSE Present
    IN  /\ content' = l.tab
        /\ IF l.tab = "dashboard"
           THEN AdminSetInterval(before) /\ fresh' \in BOOLEAN
           ELSE ticking' = before.ticking /\ paused' = before.paused /\ fresh' = fresh
        /\ button' = IF l.tab = "sync" THEN "ready" ELSE button

ContentArrives(l) ==
    /\ l \in loads
    /\ loads' = loads \ {l}
    /\ Drawn(l)
    /\ UNCHANGED <<kind, hidden, tracker, starting, polls, answers>>

ContentFails(l) ==
    /\ l \in loads
    /\ loads' = loads \ {l}
    /\ content' = IF l.by = "load" THEN "failed" ELSE content
    /\ UNCHANGED <<kind, hidden, ticking, paused, fresh, jobs>>

-----------------------------------------------------------------------------
(* Timers.                                                                 *)

Hide ==
    /\ ~hidden /\ hidden' = TRUE
    /\ ticking' = 0 /\ paused' = paused + ticking
    /\ UNCHANGED <<kind, content, loads, fresh, jobs>>

\* Each paused timer refreshes at once, which may fail, and goes on.
Show ==
    /\ hidden /\ hidden' = FALSE
    /\ fresh' \in IF content = "dashboard" /\ paused > 0 THEN {TRUE, fresh} ELSE {fresh}
    /\ ticking' = ticking + paused /\ paused' = 0
    /\ UNCHANGED <<kind, content, loads, jobs>>

\* updateDashboard: the cards are fetched and drawn.
UpdateDashboard ==
    /\ content = "dashboard" /\ ticking > 0 /\ ~fresh
    /\ fresh' = TRUE
    /\ UNCHANGED <<kind, hidden, content, loads, ticking, paused, jobs>>

\* The figures change on the server.
ServerChanges ==
    /\ fresh /\ fresh' = FALSE
    /\ UNCHANGED <<kind, hidden, content, loads, ticking, paused, jobs>>

-----------------------------------------------------------------------------
(* Jobs.                                                                   *)

\* startSync, startRobinSync, runGeoapifySync, startExport, runRobinDeskTest,
\* scanRobinStrip; one such request at once.
StartSync ==
    /\ content = "sync" /\ button = "ready" /\ ~starting
    /\ button' = "busy" /\ starting' = TRUE
    /\ UNCHANGED <<kind, hidden, tab, tracker, polls, answers>>

\* Progress.Start
Run ==
    /\ ~tracker.running /\ tracker.runs < MaxRuns
    /\ tracker' = [running |-> TRUE, done |-> FALSE, runs |-> tracker.runs + 1]

\* setInterval, in a free slot.
Poll == \E p \in Slots \ polls : polls' = polls \cup {p}

\* The request is answered: a run has begun, or one was under way.  Geocoding
\* says so and is polled in the first case only.
StartAnswer ==
    /\ starting /\ starting' = FALSE
    /\ \/ Run /\ Poll /\ UNCHANGED button
       \/ /\ tracker.running /\ UNCHANGED tracker
          /\ IF kind = "geo" THEN button' = "ready" /\ UNCHANGED polls
                             ELSE Poll /\ UNCHANGED button
    /\ UNCHANGED <<kind, hidden, tab, answers>>

\* It or its answer is lost.  All but geocoding are polled all the same.
StartFails ==
    /\ starting /\ starting' = FALSE
    /\ Run \/ UNCHANGED tracker
    /\ IF kind = "geo" THEN button' = "ready" /\ UNCHANGED polls
                       ELSE Poll /\ UNCHANGED button
    /\ UNCHANGED <<kind, hidden, tab, answers>>

\* A schedule or someone else starts it.
OtherStarts == Run /\ UNCHANGED <<kind, hidden, tab, button, starting, polls, answers>>

\* Mutant: the end of a job leaves it marked as running.
Finish_StillRunning ==
    /\ tracker.running /\ ~tracker.done
    /\ tracker' = [tracker EXCEPT !.done = TRUE]
    /\ UNCHANGED <<kind, hidden, tab, button, starting, polls, answers>>

\* Progress.Finish, after a panic even.
Finish ==
    /\ tracker.running
    /\ tracker' = [tracker EXCEPT !.running = FALSE, !.done = TRUE]
    /\ UNCHANGED <<kind, hidden, tab, button, starting, polls, answers>>

\* An interval sends its request, whether the one before was answered or not.
AskProgress(p) ==
    /\ p \in polls
    /\ answers' = answers \cup {[poll |-> p, done |-> tracker.done]}
    /\ UNCHANGED <<kind, hidden, tab, tracker, button, starting, polls>>

\* Mutant: the poll ends at the last step of the job.
Ended_Running(a) == ~a.done /\ tracker.running

\* pollSync and its like: "!snap.running && snap.done".
Ended(a) == a.done

\* The answer that says the job is done ends its interval and gives the
\* button back, wherever the page is; the Robin sync draws the sync tab.
ProgressAnswer(a) ==
    /\ a \in answers /\ answers' = answers \ {a}
    /\ IF ~Ended(a) THEN UNCHANGED <<tab, button, polls>>
       ELSE /\ polls' = polls \ {a.poll}
            /\ IF kind = "robin" THEN LoadAdminTab("sync") /\ UNCHANGED button
                                 ELSE button' = "ready" /\ UNCHANGED tab
    /\ UNCHANGED <<kind, hidden, tracker, starting>>

\* Mutant: a failed progress request only stops the polling.
ProgressFails_OnlyStops(a) ==
    /\ a \in answers /\ answers' = answers \ {a}
    /\ polls' = polls \ {a.poll}
    /\ UNCHANGED <<kind, hidden, tab, tracker, button, starting>>

\* A failed progress request ends the interval; geocoding gives its button back.
ProgressFails(a) ==
    /\ a \in answers /\ answers' = answers \ {a}
    /\ polls' = polls \ {a.poll}
    /\ button' = IF kind = "geo" THEN "ready" ELSE button
    /\ UNCHANGED <<kind, hidden, tab, tracker, starting>>

TabsNext ==
    \/ \E t \in Tabs : OpenTab(t)
    \/ SubmitAdminForm
    \/ \E l \in loads : ContentArrives(l) \/ ContentFails(l)
    \/ Hide \/ Show \/ UpdateDashboard \/ ServerChanges
    \/ StartSync \/ StartAnswer \/ StartFails \/ OtherStarts \/ Finish
    \/ \E p \in polls : AskProgress(p)
    \/ \E a \in answers : ProgressAnswer(a) \/ ProgressFails(a)

\* Timers and intervals fire, jobs end, and requests are answered.
TabsFairness ==
    /\ WF_tabsVars(UpdateDashboard) /\ WF_tabsVars(Finish)
    /\ \A p \in Slots : WF_tabsVars(AskProgress(p))
    /\ \A a \in [poll : Slots, done : {TRUE}] :
         WF_tabsVars(ProgressAnswer(a) \/ ProgressFails(a))

TabsSpec == TabsInit /\ [][TabsNext]_tabsVars /\ TabsFairness

-----------------------------------------------------------------------------
(* Properties.                                                             *)

\* backend.js:18-21: no timer of a tab runs while the window is hidden, and
\* none is left behind when it is visible again, in whatever order tabs are
\* loaded, drawn, hidden and shown.
HiddenIsQuiet == IF hidden THEN ticking = 0 ELSE paused = 0

\* A dashboard that stays on a visible screen shows, again and again, what the
\* server has: neither a submission nor a hidden window loses its timer.
DashboardCatchesUp ==
    <>[](content = "dashboard" /\ ~hidden) => []<>fresh

\* backend.js:2222-2226: the geocoding button is disabled only while a sync is
\* being started or polled, after lost requests even.
GeoButtonReturns ==
    kind = "geo" /\ content = "sync" /\ button = "busy" => starting \/ polls # {}

\* Timers are registered for what is shown and buttons disabled for what goes
\* on, wherever answers find the page (adminSetInterval, pollGeoapifySync).
TabsInStep == TabsTypeOK /\ HiddenIsQuiet /\ GeoButtonReturns

\* backend.js:22-24: a poll goes on in a hidden window and on other tabs, and
\* ends once the job, if it ever ran, is over.
PollsEnd ==
    \A p \in Slots : (p \in polls /\ tracker.runs > 0) ~> p \notin polls

=============================================================================
