-------------------------- MODULE AdminPageProofs --------------------------
(***************************************************************************)
(* What the administration page guarantees: its tabs and jobs (AdminTabs)  *)
(* for any kinds of jobs and any number of timers and runs, its connection *)
(* cards (ConnectionCards) for any directories, and its infinite lists and *)
(* the change browser's (PagedList) for any log and any filters.           *)
(***************************************************************************)
EXTENDS AdminTabs, ConnectionCards, PagedList,
        FiniteSetTheorems, SequenceTheorems, TLAPS

-----------------------------------------------------------------------------
(* Tabs and jobs                                                           *)

-----------------------------------------------------------------------------
(* The parts of TabsTypeOK, by what changes together.  TabsInStep is       *)
(* inductive as it stands.                                                 *)

TimersOK ==
    /\ {ticking, paused} \subseteq 0..MaxTimers
    /\ ticking + paused =< MaxTimers

PageOK ==
    /\ kind \in Kinds
    /\ content \in Tabs \cup {"loading", "failed"}
    /\ loads \subseteq [tab : Tabs, by : {"load", "submit"}]
    /\ {hidden, fresh} \subseteq BOOLEAN

JobsOK ==
    /\ starting \in BOOLEAN
    /\ tracker \in [running : BOOLEAN, done : BOOLEAN, runs : 0..MaxRuns]
    /\ ~(tracker.running /\ tracker.done)
    /\ button \in {"ready", "busy"}
    /\ polls \subseteq Slots
    /\ answers \subseteq [poll : Slots, done : BOOLEAN]

LEMMA TabsParts == TabsTypeOK <=> TimersOK /\ PageOK /\ JobsOK
BY DEF TabsTypeOK, TimersOK, PageOK, JobsOK

TabsIInv == TimersOK /\ PageOK /\ JobsOK /\ HiddenIsQuiet /\ GeoButtonReturns

LEMMA TabsIInvIsTabsInStep == TabsIInv <=> TabsInStep
BY TabsParts DEF TabsIInv, TabsInStep

-----------------------------------------------------------------------------
(* Lemmas                                                                  *)

\* A timer is registered as ticking or as paused, by what the window is.
LEMMA TimerProperties ==
    ASSUME TabsIInv, UNCHANGED hidden,
           NEW before \in {None, Present}, AdminSetInterval(before)
    PROVE  TimersOK' /\ HiddenIsQuiet'
<1>1. /\ before.ticking \in Nat /\ before.paused \in Nat
      /\ IF hidden THEN before.ticking = 0 ELSE before.paused = 0
      /\ MaxTimers \in Nat
  BY TabsAssumption DEF TabsIInv, TimersOK, HiddenIsQuiet, None, Present
<1> QED BY <1>1 DEF AdminSetInterval, TimersOK, HiddenIsQuiet

\* The content of a tab takes over the timers as they should be, and the sync
\* tab comes with a button that is ready.
LEMMA DrawnProperties ==
    ASSUME TabsIInv, UNCHANGED hidden, NEW l \in loads, Drawn(l)
    PROVE  /\ TimersOK' /\ HiddenIsQuiet'
           /\ content' \in Tabs /\ fresh' \in BOOLEAN /\ button' \in {"ready", "busy"}
           /\ content' = "sync" => button' = "ready"
<1> DEFINE before == IF l.by = "submit" THEN None ELSE Present
<1>1. /\ l.tab \in Tabs /\ content' = l.tab
      /\ button' = IF l.tab = "sync" THEN "ready" ELSE button
      /\ button \in {"ready", "busy"} /\ fresh \in BOOLEAN
  BY DEF Drawn, TabsIInv, PageOK, JobsOK
<1>2. CASE l.tab = "dashboard"
  <2>1. AdminSetInterval(before) /\ fresh' \in BOOLEAN
    BY <1>2 DEF Drawn
  <2>2. before \in {None, Present}
    OBVIOUS
  <2> QED BY <1>1, <2>1, <2>2, TimerProperties
<1>3. CASE l.tab # "dashboard"
  <2>1. ticking' = before.ticking /\ paused' = before.paused /\ fresh' = fresh
    BY <1>3 DEF Drawn
  <2>2. CASE l.by = "submit"
    BY <1>1, <2>1, <2>2, TabsAssumption DEF TimersOK, HiddenIsQuiet, None
  <2>3. CASE l.by # "submit"
    BY <1>1, <2>1, <2>3 DEF TabsIInv, TimersOK, HiddenIsQuiet, Present
  <2> QED BY <2>2, <2>3
<1> QED BY <1>2, <1>3

\* A run begins only when none is under way.
LEMMA RunProperties ==
    ASSUME JobsOK, Run
    PROVE  /\ tracker' \in [running : BOOLEAN, done : BOOLEAN, runs : 0..MaxRuns]
           /\ ~(tracker'.running /\ tracker'.done)
<1>1. tracker.runs + 1 \in 0..MaxRuns
  BY TabsAssumption DEF JobsOK, Run
<1> QED BY <1>1 DEF Run

\* A poll is under way once an interval was set.
LEMMA PollProperties ==
    ASSUME JobsOK, Poll
    PROVE  polls' \subseteq Slots /\ polls' # {}
BY DEF JobsOK, Poll

\* Steps of the job leave the tabs alone.
LEMMA JobStep ==
    ASSUME TabsIInv, UNCHANGED <<kind, hidden, tab>>, JobsOK', GeoButtonReturns'
    PROVE  TabsIInv'
BY DEF TabsIInv, tab, TimersOK, PageOK, HiddenIsQuiet

-----------------------------------------------------------------------------
LEMMA TabsInitInvariant == TabsInit => TabsIInv
<1> SUFFICES ASSUME TabsInit PROVE TabsIInv
  OBVIOUS
<1>1. TimersOK
  <2>1. ticking = 0 /\ paused = 0 /\ MaxTimers \in Nat
    BY TabsAssumption DEF TabsInit
  <2> QED BY <2>1 DEF TimersOK
<1>2. PageOK
  <2>1. [tab |-> "dashboard", by |-> "load"] \in [tab : Tabs, by : {"load", "submit"}]
    BY DEF Tabs
  <2>2. loads \subseteq [tab : Tabs, by : {"load", "submit"}]
    BY <2>1 DEF TabsInit
  <2>3. {hidden, fresh} \subseteq BOOLEAN
    BY DEF TabsInit
  <2> QED BY <2>2, <2>3 DEF TabsInit, PageOK
<1>3. JobsOK
  <2>1. /\ starting = FALSE /\ button = "ready" /\ polls = {} /\ answers = {}
        /\ tracker = [running |-> FALSE, done |-> FALSE, runs |-> 0]
    BY DEF TabsInit
  <2>2. 0 \in 0..MaxRuns
    BY TabsAssumption
  <2>3. /\ tracker \in [running : BOOLEAN, done : BOOLEAN, runs : 0..MaxRuns]
        /\ ~(tracker.running /\ tracker.done)
    BY <2>1, <2>2
  <2> QED BY <2>1, <2>3 DEF JobsOK
<1>4. HiddenIsQuiet
  <2>1. hidden = FALSE /\ ticking = 0 /\ paused = 0
    BY DEF TabsInit
  <2> QED BY <2>1 DEF HiddenIsQuiet
<1>5. GeoButtonReturns
  <2>1. content = "loading"
    BY DEF TabsInit
  <2> QED BY <2>1 DEF GeoButtonReturns
<1> QED BY <1>1, <1>2, <1>3, <1>4, <1>5 DEF TabsIInv

\* Loading a tab leaves no timer and no tab whose button could be disabled.
LEMMA LoadKeepsIInv ==
    ASSUME TabsIInv, NEW t \in Tabs, LoadAdminTab(t), UNCHANGED <<kind, hidden>>, JobsOK'
    PROVE  TabsIInv'
<1>1. /\ ticking' = 0 /\ paused' = 0 /\ content' = "loading" /\ fresh' = fresh
      /\ loads' = loads \cup {[tab |-> t, by |-> "load"]}
  BY DEF LoadAdminTab, RequestTab
<1>2. TimersOK'
  BY <1>1, TabsAssumption DEF TimersOK
<1>3. PageOK'
  BY <1>1 DEF TabsIInv, PageOK
<1> QED BY <1>1, <1>2, <1>3 DEF TabsIInv, HiddenIsQuiet, GeoButtonReturns

LEMMA TabsStep == TabsIInv /\ [TabsNext]_tabsVars => TabsIInv'
<1> SUFFICES ASSUME TabsIInv, [TabsNext]_tabsVars PROVE TabsIInv'
  OBVIOUS
<1>1. ASSUME NEW t \in Tabs, OpenTab(t) PROVE TabsIInv'
  <2>1. LoadAdminTab(t) /\ UNCHANGED <<kind, hidden, jobs>>
    BY <1>1 DEF OpenTab
  <2>2. JobsOK'
    BY <2>1 DEF TabsIInv, JobsOK, jobs
  <2> QED BY <2>1, <2>2, LoadKeepsIInv
<1>2. CASE SubmitAdminForm
  <2>1. /\ content \in Tabs /\ loads' = loads \cup {[tab |-> content, by |-> "submit"]}
        /\ UNCHANGED <<kind, hidden, content, ticking, paused, fresh, jobs>>
    BY <1>2 DEF SubmitAdminForm, RequestTab
  <2> QED BY <2>1 DEF jobs, TabsIInv, TimersOK, PageOK, JobsOK, HiddenIsQuiet, GeoButtonReturns
<1>3. ASSUME NEW l \in loads, ContentArrives(l) PROVE TabsIInv'
  <2>1. /\ loads' = loads \ {l} /\ Drawn(l)
        /\ UNCHANGED <<kind, hidden, tracker, starting, polls, answers>>
    BY <1>3 DEF ContentArrives
  <2>2. /\ TimersOK' /\ HiddenIsQuiet'
        /\ content' \in Tabs /\ fresh' \in BOOLEAN /\ button' \in {"ready", "busy"}
        /\ content' = "sync" => button' = "ready"
    BY <2>1, DrawnProperties
  <2>3. PageOK' /\ JobsOK'
    BY <2>1, <2>2 DEF TabsIInv, PageOK, JobsOK
  <2> QED BY <2>2, <2>3 DEF TabsIInv, GeoButtonReturns
<1>4. ASSUME NEW l \in loads, ContentFails(l) PROVE TabsIInv'
  <2>1. /\ loads' = loads \ {l}
        /\ content' = IF l.by = "load" THEN "failed" ELSE content
        /\ UNCHANGED <<kind, hidden, ticking, paused, fresh, jobs>>
    BY <1>4 DEF ContentFails
  <2> QED BY <2>1 DEF jobs, TabsIInv, TimersOK, PageOK, JobsOK, HiddenIsQuiet, GeoButtonReturns
<1>5. CASE Hide \/ Show
  <2>1. /\ ticking \in Nat /\ paused \in Nat /\ ticking + paused =< MaxTimers
        /\ MaxTimers \in Nat
    BY TabsAssumption DEF TabsIInv, TimersOK
  <2>2. UNCHANGED <<kind, content, loads>> /\ UNCHANGED jobs
    BY <1>5 DEF Hide, Show
  <2>3. hidden' \in BOOLEAN
    BY <1>5 DEF Hide, Show
  <2>4. fresh' \in BOOLEAN
    <3>1. fresh \in BOOLEAN
      BY DEF TabsIInv, PageOK
    <3>2. CASE Hide
      BY <3>1, <3>2 DEF Hide
    <3>3. CASE Show
      BY <3>1, <3>3 DEF Show
    <3> QED BY <1>5, <3>2, <3>3
  <2>5. TimersOK' /\ HiddenIsQuiet'
    <3>1. CASE Hide
      <4>1. ticking' = 0 /\ paused' = paused + ticking
        BY <3>1 DEF Hide
      <4>2. hidden'
        BY <3>1 DEF Hide
      <4> QED BY <2>1, <4>1, <4>2 DEF TimersOK, HiddenIsQuiet
    <3>2. CASE Show
      <4>1. ticking' = ticking + paused /\ paused' = 0
        BY <3>2 DEF Show
      <4>2. ~hidden'
        BY <3>2 DEF Show
      <4> QED BY <2>1, <4>1, <4>2 DEF TimersOK, HiddenIsQuiet
    <3> QED BY <1>5, <3>1, <3>2
  <2>6. PageOK'
    BY <2>2, <2>3, <2>4 DEF TabsIInv, PageOK
  <2>7. JobsOK' /\ GeoButtonReturns'
    BY <2>2 DEF jobs, TabsIInv, JobsOK, GeoButtonReturns
  <2> QED BY <2>5, <2>6, <2>7 DEF TabsIInv
<1>6. CASE UpdateDashboard \/ ServerChanges
  <2>1. /\ fresh' \in BOOLEAN
        /\ UNCHANGED <<kind, hidden, content, loads, ticking, paused, jobs>>
    BY <1>6 DEF UpdateDashboard, ServerChanges
  <2> QED BY <2>1 DEF jobs, TabsIInv, TimersOK, PageOK, JobsOK, HiddenIsQuiet, GeoButtonReturns
<1>7. CASE StartSync
  <2>1. /\ button' = "busy" /\ starting' = TRUE
        /\ UNCHANGED <<kind, hidden, tab, tracker, polls, answers>>
    BY <1>7 DEF StartSync
  <2>2. JobsOK' /\ GeoButtonReturns'
    BY <2>1 DEF TabsIInv, JobsOK, GeoButtonReturns
  <2> QED BY <2>1, <2>2, JobStep
<1>8. CASE StartAnswer
  <2>1. starting' = FALSE /\ UNCHANGED <<kind, hidden, tab, answers>>
    BY <1>8 DEF StartAnswer
  <2>2. CASE Run /\ Poll /\ UNCHANGED button
    <3>1. JobsOK' /\ GeoButtonReturns'
      BY <2>1, <2>2, RunProperties, PollProperties DEF TabsIInv, JobsOK, GeoButtonReturns
    <3> QED BY <2>1, <3>1, JobStep
  <2>3. CASE UNCHANGED tracker /\ kind = "geo" /\ button' = "ready" /\ UNCHANGED polls
    <3>1. JobsOK' /\ GeoButtonReturns'
      BY <2>1, <2>3 DEF TabsIInv, JobsOK, GeoButtonReturns
    <3> QED BY <2>1, <3>1, JobStep
  <2>4. CASE UNCHANGED tracker /\ Poll /\ UNCHANGED button
    <3>1. JobsOK' /\ GeoButtonReturns'
      BY <2>1, <2>4, PollProperties DEF TabsIInv, JobsOK, GeoButtonReturns
    <3> QED BY <2>1, <3>1, JobStep
  <2> QED BY <1>8, <2>2, <2>3, <2>4 DEF StartAnswer
<1>9. CASE StartFails
  <2>1. starting' = FALSE /\ UNCHANGED <<kind, hidden, tab, answers>>
    BY <1>9 DEF StartFails
  <2>2. /\ tracker' \in [running : BOOLEAN, done : BOOLEAN, runs : 0..MaxRuns]
        /\ ~(tracker'.running /\ tracker'.done)
    BY <1>9, RunProperties DEF StartFails, TabsIInv, JobsOK
  <2>3. CASE kind = "geo" /\ button' = "ready" /\ UNCHANGED polls
    <3>1. JobsOK' /\ GeoButtonReturns'
      BY <2>1, <2>2, <2>3 DEF TabsIInv, JobsOK, GeoButtonReturns
    <3> QED BY <2>1, <3>1, JobStep
  <2>4. CASE Poll /\ UNCHANGED button
    <3>1. JobsOK' /\ GeoButtonReturns'
      BY <2>1, <2>2, <2>4, PollProperties DEF TabsIInv, JobsOK, GeoButtonReturns
    <3> QED BY <2>1, <3>1, JobStep
  <2> QED BY <1>9, <2>3, <2>4 DEF StartFails
<1>10. CASE OtherStarts
  <2>1. JobsOK' /\ GeoButtonReturns'
    BY <1>10, RunProperties DEF OtherStarts, tab, TabsIInv, JobsOK, GeoButtonReturns
  <2> QED BY <1>10, <2>1, JobStep DEF OtherStarts
<1>11. CASE Finish
  <2>1. /\ tracker' = [tracker EXCEPT !.running = FALSE, !.done = TRUE]
        /\ UNCHANGED <<kind, hidden, tab, button, starting, polls, answers>>
    BY <1>11 DEF Finish
  <2>2. JobsOK' /\ GeoButtonReturns'
    BY <2>1 DEF tab, TabsIInv, JobsOK, GeoButtonReturns
  <2> QED BY <2>1, <2>2, JobStep
<1>12. ASSUME NEW p \in polls, AskProgress(p) PROVE TabsIInv'
  <2>1. /\ answers' = answers \cup {[poll |-> p, done |-> tracker.done]}
        /\ UNCHANGED <<kind, hidden, tab, tracker, button, starting, polls>>
    BY <1>12 DEF AskProgress
  <2>2. JobsOK' /\ GeoButtonReturns'
    BY <2>1 DEF tab, TabsIInv, JobsOK, GeoButtonReturns
  <2> QED BY <2>1, <2>2, JobStep
<1>13. ASSUME NEW a \in answers, ProgressAnswer(a) PROVE TabsIInv'
  <2>1. answers' = answers \ {a} /\ UNCHANGED <<kind, hidden, tracker, starting>>
    BY <1>13 DEF ProgressAnswer
  <2>2. CASE UNCHANGED <<tab, button, polls>>
    <3>1. JobsOK' /\ GeoButtonReturns'
      BY <2>1, <2>2 DEF tab, TabsIInv, JobsOK, GeoButtonReturns
    <3> QED BY <2>1, <2>2, <3>1, JobStep
  <2>3. CASE polls' = polls \ {a.poll} /\ LoadAdminTab("sync") /\ UNCHANGED button
    <3>1. JobsOK' /\ "sync" \in Tabs
      BY <2>1, <2>3 DEF TabsIInv, JobsOK, Tabs
    <3> QED BY <2>1, <2>3, <3>1, LoadKeepsIInv
  <2>4. CASE polls' = polls \ {a.poll} /\ button' = "ready" /\ UNCHANGED tab
    <3>1. JobsOK' /\ GeoButtonReturns'
      BY <2>1, <2>4 DEF tab, TabsIInv, JobsOK, GeoButtonReturns
    <3> QED BY <2>1, <2>4, <3>1, JobStep
  <2> QED BY <1>13, <2>2, <2>3, <2>4 DEF ProgressAnswer
<1>14. ASSUME NEW a \in answers, ProgressFails(a) PROVE TabsIInv'
  <2>1. /\ answers' = answers \ {a} /\ polls' = polls \ {a.poll}
        /\ button' = IF kind = "geo" THEN "ready" ELSE button
        /\ UNCHANGED <<kind, hidden, tab, tracker, starting>>
    BY <1>14 DEF ProgressFails
  <2>2. JobsOK' /\ GeoButtonReturns'
    BY <2>1 DEF tab, TabsIInv, JobsOK, GeoButtonReturns
  <2> QED BY <2>1, <2>2, JobStep
<1>15. CASE UNCHANGED tabsVars
  BY <1>15 DEF tabsVars, tab, jobs, TabsIInv, TimersOK, PageOK, JobsOK, HiddenIsQuiet,
              GeoButtonReturns
<1> QED BY <1>1, <1>2, <1>3, <1>4, <1>5, <1>6, <1>7, <1>8, <1>9, <1>10, <1>11,
           <1>12, <1>13, <1>14, <1>15 DEF TabsNext

-----------------------------------------------------------------------------
(* Theorems                                                                *)

\* In whatever order tabs are loaded, submitted, hidden and shown, and answers
\* of jobs are late or lost, timers tick only in a visible window and the
\* geocoding button is disabled only while its job is started or polled.
THEOREM TabsKeepStep == TabsSpec => []TabsInStep
<1>1. TabsInit => TabsInStep
  BY TabsInitInvariant, TabsIInvIsTabsInStep
<1>2. TabsInStep /\ [TabsNext]_tabsVars => TabsInStep'
  <2>1. TabsIInv' <=> TabsInStep'
    BY TabsIInvIsTabsInStep, PTL
  <2> QED BY <2>1, TabsStep, TabsIInvIsTabsInStep
<1> QED BY <1>1, <1>2, PTL DEF TabsSpec

-----------------------------------------------------------------------------
(* Connection cards                                                        *)

-----------------------------------------------------------------------------
(* The inductive invariant of the cards.                                    *)

\* The fields of a request; its row holds what a handler has read so far.
CallRecord(row) ==
    [kind : {"toggle", "sync", "submit"}, id : Ids \cup {NoId}, page : Nat,
     at : {"sent", "listed", "done"}, on : BOOLEAN, cert : Credential, row : {row}]

\* A request is about a connection that exists, and what it carries does, too.
CallFits(c) ==
    /\ c \in CallRecord(c.row)
    /\ c.kind # "submit" \/ c.id # NoId => c.id \in DOMAIN connections
    /\ c.at = "listed" => c.kind = "sync" /\ c.id \in DOMAIN c.row
    /\ DOMAIN c.row \subseteq DOMAIN connections
    /\ \A i \in DOMAIN c.row : c.row[i] \in Connection

CallsFit == IsFiniteSet(calls) /\ \A c \in calls : CallFits(c)

FormFits == entraForm.edit = NoId \/ entraForm.edit \in DOMAIN connections

\* On the first page a toggle under way keeps its switch busy, so that there
\* is one at most, and the switch shows what it asked for.
OneToggle ==
    pages = 0 =>
       /\ \A c \in calls : c.kind = "toggle" /\ c.id \in LdapIds =>
             c.id \in DOMAIN cards /\ cards[c.id].busy /\ (cards[c.id].checked <=> c.on)
       /\ \A c \in calls, d \in calls :
             c.kind = "toggle" /\ d.kind = "toggle" /\ c.id = d.id /\ c.id \in LdapIds => c = d

\* Until it is answered the button is where the switch was before.
ButtonWaits ==
    pages = 0 => \A i \in LdapIds \cap DOMAIN cards :
       cards[i].busy => (cards[i].button <=> ~cards[i].checked)

CardsIInv ==
    /\ CardsTypeOK /\ CallsFit /\ FormFits
    /\ OneToggle /\ ButtonWaits /\ LdapButtonInStep


-----------------------------------------------------------------------------
(* Lemmas about requests and cards.                                        *)

LEMMA SetOfCalls ==
  ASSUME NEW S, IsFiniteSet(S), NEW c, NEW d
  PROVE  /\ Cardinality(S) \in Nat
         /\ IsFiniteSet(S \cup {d}) /\ Cardinality(S \cup {d}) <= Cardinality(S) + 1
         /\ IsFiniteSet(S \ {c}) /\ Cardinality(S \ {c}) <= Cardinality(S)
         /\ c \in S => /\ IsFiniteSet((S \ {c}) \cup {d})
                       /\ Cardinality((S \ {c}) \cup {d}) <= Cardinality(S)
<1>1. Cardinality(S) \in Nat
  BY FS_CardinalityType
<1>2. /\ IsFiniteSet(S \cup {d})
      /\ Cardinality(S \cup {d}) = IF d \in S THEN Cardinality(S) ELSE Cardinality(S) + 1
  BY FS_AddElement
<1> DEFINE T == S \ {c}
<1>3. /\ IsFiniteSet(T)
      /\ Cardinality(T) = IF c \in S THEN Cardinality(S) - 1 ELSE Cardinality(S)
  BY FS_RemoveElement
<1> HIDE DEF T
<1>4. /\ IsFiniteSet(T \cup {d})
      /\ Cardinality(T \cup {d}) = IF d \in T THEN Cardinality(T) ELSE Cardinality(T) + 1
  BY <1>3, FS_AddElement
<1>5. Cardinality(T) <= Cardinality(S) /\ (c \in S => Cardinality(T \cup {d}) <= Cardinality(S))
  BY <1>1, <1>3, <1>4
<1> QED BY <1>1, <1>2, <1>3, <1>4, <1>5 DEF T

\* A request goes on fitting when the store grows or an entry changes.
LEMMA CallFitsLater ==
  ASSUME NEW c, CallFits(c), DOMAIN connections \subseteq DOMAIN connections'
  PROVE  CallFits(c)'
BY DEF CallFits

LEMMA FreshCall ==
  ASSUME NEW what \in {"toggle", "sync", "submit"}, NEW i \in Ids \cup {NoId},
         pages \in Nat, NEW on \in BOOLEAN, NEW cert \in Credential
  PROVE  LET c == [kind |-> what, id |-> i, page |-> pages, at |-> "sent",
                   on |-> on, cert |-> cert, row |-> << >>]
         IN  /\ c \in CallRecord(c.row)
             /\ (what # "submit" \/ i # NoId => i \in DOMAIN connections)
                   => CallFits(c)
<1> DEFINE c == [kind |-> what, id |-> i, page |-> pages, at |-> "sent",
                   on |-> on, cert |-> cert, row |-> << >>]
<1>1. c \in CallRecord(c.row)
  BY DEF CallRecord
<1>2. c.kind = what /\ c.id = i /\ c.at = "sent" /\ c.row = << >> /\ DOMAIN c.row = {}
  OBVIOUS
<1> HIDE DEF c
<1>3. (what # "submit" \/ i # NoId => i \in DOMAIN connections) => CallFits(c)
  BY <1>1, <1>2 DEF CallFits
<1> QED BY <1>1, <1>3 DEF c

\* The cards a page is drawn with.
LEMMA DrawnCards ==
  ASSUME NEW store, \A i \in DOMAIN store : store[i] \in Connection
  PROVE  /\ DOMAIN CardsOf(store) = DOMAIN store
         /\ \A i \in DOMAIN store :
               /\ CardsOf(store)[i] \in Card
               /\ ~CardsOf(store)[i].busy
               /\ CardsOf(store)[i].button = CardsOf(store)[i].checked
BY DEF CardsOf, Card, Connection


LEMMA EmptyFields ==
  /\ EmptyForm \in Form /\ EmptyForm.edit = NoId /\ EmptyForm.cert = ""
  /\ [EmptyForm EXCEPT !.open = TRUE] \in Form
  /\ [EmptyForm EXCEPT !.open = TRUE].edit = NoId
  /\ [EmptyForm EXCEPT !.open = TRUE].cert = ""
<1>1. EmptyForm \in Form /\ EmptyForm.edit = NoId /\ EmptyForm.cert = ""
  BY DEF EmptyForm, Form, Credential
<1>2. ASSUME NEW f \in Form
      PROVE  /\ [f EXCEPT !.open = TRUE] \in Form
             /\ [f EXCEPT !.open = TRUE].edit = f.edit
             /\ [f EXCEPT !.open = TRUE].cert = f.cert
  BY DEF Form
<1> QED BY <1>1, <1>2

LEMMA CertField ==
  ASSUME NEW f \in Form, NEW text \in Credential
  PROVE  /\ [f EXCEPT !.cert = text] \in Form
         /\ [f EXCEPT !.cert = text].cert = text
         /\ [f EXCEPT !.cert = text].edit = f.edit
BY DEF Form

LEMMA MethodField ==
  ASSUME NEW f \in Form, NEW method \in {"secret", "certificate"}
  PROVE  /\ [f EXCEPT !.method = method] \in Form
         /\ [f EXCEPT !.method = method].cert = f.cert
         /\ [f EXCEPT !.method = method].edit = f.edit
BY DEF Form

LEMMA CardsInitInvariant == CardsInit => CardsIInv
<1> SUFFICES ASSUME CardsInit PROVE CardsIInv
  OBVIOUS
<1>1. PICK S \in StartTabs : connections \in [S -> [on : BOOLEAN, cert : {"stored"}]]
  BY DEF CardsInit
<1>2. DOMAIN connections \subseteq Ids /\ \A i \in DOMAIN connections : connections[i] \in Connection
  BY <1>1, CardsAssumption DEF Ids, Connection, Credential
<1>3. /\ DOMAIN cards = DOMAIN connections
      /\ \A i \in DOMAIN cards : /\ cards[i] \in Card /\ ~cards[i].busy
                                 /\ cards[i].button = cards[i].checked
  BY <1>2, DrawnCards DEF CardsInit
<1>4. calls = {} /\ IsFiniteSet(calls) /\ Cardinality(calls) = 0 /\ gens = 0 /\ pages = 0
  BY FS_EmptySet DEF CardsInit
<1>5. entraForm \in Form /\ entraForm.edit = NoId
  BY DEF CardsInit, EmptyForm, Form, Credential
<1>6. CardsTypeOK
  BY <1>2, <1>3, <1>4, <1>5, CardsAssumption DEF CardsTypeOK
<1>7. CallsFit /\ FormFits /\ OneToggle
  BY <1>4, <1>5 DEF CallsFit, FormFits, OneToggle
<1>8. ButtonWaits /\ LdapButtonInStep
  BY <1>3 DEF ButtonWaits, LdapButtonInStep
<1> QED BY <1>6, <1>7, <1>8 DEF CardsIInv


-----------------------------------------------------------------------------
(* One lemma per operation.                                                *)

\* What every action keeps of the calls: some end, one goes on or is added.
LEMMA CallsAfter ==
  ASSUME CardsIInv, NEW c, NEW d, DOMAIN connections \subseteq DOMAIN connections',
         CallFits(d)',
         \/ calls' = calls \ {c}
         \/ c \in calls /\ calls' = (calls \ {c}) \cup {d}
         \/ MayCall /\ calls' = calls \cup {d}
  PROVE  CallsFit' /\ Cardinality(calls') <= MaxCalls
<1>1. IsFiniteSet(calls) /\ Cardinality(calls) <= MaxCalls /\ MaxCalls \in Nat
  BY CardsAssumption DEF CardsIInv, CallsFit, CardsTypeOK
<1>2. \A e \in calls : CallFits(e)'
  BY CallFitsLater DEF CardsIInv, CallsFit
<1>3. calls' \subseteq calls \cup {d}
  OBVIOUS
<1>4. IsFiniteSet(calls') /\ Cardinality(calls') <= MaxCalls
  <2>1. CASE calls' = calls \ {c}
    <3>1. IsFiniteSet(calls \ {c}) /\ Cardinality(calls \ {c}) <= Cardinality(calls)
          /\ Cardinality(calls) \in Nat /\ Cardinality(calls \ {c}) \in Nat
      BY <1>1, SetOfCalls, FS_CardinalityType
    <3> QED BY <1>1, <2>1, <3>1
  <2>2. CASE c \in calls /\ calls' = (calls \ {c}) \cup {d}
    <3>1. /\ IsFiniteSet((calls \ {c}) \cup {d})
          /\ Cardinality((calls \ {c}) \cup {d}) <= Cardinality(calls)
          /\ Cardinality(calls) \in Nat /\ Cardinality((calls \ {c}) \cup {d}) \in Nat
      BY <1>1, <2>2, SetOfCalls, FS_CardinalityType
    <3> QED BY <1>1, <2>2, <3>1
  <2>3. CASE MayCall /\ calls' = calls \cup {d}
    <3>1. /\ IsFiniteSet(calls \cup {d}) /\ Cardinality(calls \cup {d}) <= Cardinality(calls) + 1
          /\ Cardinality(calls) \in Nat /\ Cardinality(calls \cup {d}) \in Nat
      BY <1>1, SetOfCalls, FS_CardinalityType
    <3> QED BY <1>1, <2>3, <3>1 DEF MayCall
  <2> QED BY <2>1, <2>2, <2>3
<1> QED BY <1>2, <1>3, <1>4 DEF CallsFit

\* A request that the store does not know of, or of a kind that no switch sends,
\* leaves what the first page promises.
LEMMA FirstPageStays ==
  ASSUME CardsIInv, UNCHANGED <<cards, pages>>,
         \A d \in calls' : d \in calls \/ d.kind # "toggle"
  PROVE  OneToggle' /\ ButtonWaits' /\ LdapButtonInStep'
BY DEF CardsIInv, OneToggle, ButtonWaits, LdapButtonInStep

LEMMA ToggleStep ==
  ASSUME CardsIInv, NEW i \in Ids, Toggle(i)
  PROVE  CardsIInv'
<1> USE DEF Toggle
<1>0. PICK on \in BOOLEAN : /\ on = (~cards[i].checked)
                           /\ calls' = calls \cup {[Call("toggle", i) EXCEPT !.on = on]}
  BY Zenon
<1>1. PICK d : /\ d = [Call("toggle", i) EXCEPT !.on = on]
               /\ on = (~cards[i].checked) /\ calls' = calls \cup {d}
  BY <1>0
<1>2. cards[i] \in Card /\ i \in DOMAIN connections /\ pages \in Nat
  BY CardsAssumption DEF CardsIInv, CardsTypeOK
<1>3. /\ d = [kind |-> "toggle", id |-> i, page |-> pages, at |-> "sent",
              on |-> on, cert |-> "", row |-> << >>]
      /\ d.kind = "toggle" /\ d.id = i /\ d.page = pages
  BY <1>1 DEF Call
<1>4. CallFits(d)
  BY <1>2, <1>3, FreshCall DEF Credential
<1>5. d.on = on /\ (on <=> ~cards[i].checked)
  BY <1>1, <1>3
<1>6. calls' = calls \cup {d}
  BY <1>1
<1>7. CallFits(d)' /\ DOMAIN connections \subseteq DOMAIN connections'
  BY <1>4, CallFitsLater
<1>8. CallsFit' /\ Cardinality(calls') <= MaxCalls
  BY <1>6, <1>7, CallsAfter
<1>9. /\ DOMAIN cards' = DOMAIN cards
      /\ cards'[i] = [cards[i] EXCEPT !.checked = ~@, !.busy = TRUE]
      /\ \A j \in DOMAIN cards : j # i => cards'[j] = cards[j]
  BY DEF CardsIInv
<1>10. cards'[i] \in Card /\ cards'[i].busy /\ cards'[i].button = cards[i].button
       /\ cards'[i].checked = ~cards[i].checked
  BY <1>2, <1>9 DEF Card
<1>11. CardsTypeOK'
  <2>1. \A j \in DOMAIN cards' : cards'[j] \in Card
    BY <1>9, <1>10 DEF CardsIInv, CardsTypeOK
  <2>2. \A c \in calls' : c.page <= pages
    <3>1. \A c \in calls : c.page <= pages
      BY DEF CardsIInv, CardsTypeOK
    <3>2. d.page = pages
      BY <1>3
    <3>3. d.page <= pages
      BY <1>2, <3>2
    <3> QED BY <1>6, <3>1, <3>3
  <2> QED BY <1>8, <1>9, <2>1, <2>2 DEF CardsIInv, CardsTypeOK
<1>12. FormFits'
  BY DEF CardsIInv, FormFits
<1>13. OneToggle'
  <2>1. SUFFICES ASSUME pages = 0
        PROVE  /\ \A c \in calls' : c.kind = "toggle" /\ c.id \in LdapIds =>
                     c.id \in DOMAIN cards' /\ cards'[c.id].busy /\ (cards'[c.id].checked <=> c.on)
               /\ \A c \in calls', e \in calls' :
                     c.kind = "toggle" /\ e.kind = "toggle" /\ c.id = e.id /\ c.id \in LdapIds
                        => c = e
    BY DEF OneToggle
  <2>2. \A c \in calls : c.kind = "toggle" /\ c.id \in LdapIds =>
           c.id # i /\ c.id \in DOMAIN cards /\ cards[c.id].busy /\ (cards[c.id].checked <=> c.on)
    BY <2>1 DEF CardsIInv, OneToggle
  <2>3. cards'[i].checked <=> d.on
    BY <1>5, <1>10, Zenon
  <2>4. ASSUME NEW c \in calls', c.kind = "toggle", c.id \in LdapIds
        PROVE  c.id \in DOMAIN cards' /\ cards'[c.id].busy /\ (cards'[c.id].checked <=> c.on)
    <3>1. CASE c = d
      BY <1>3, <1>9, <1>10, <2>3, <3>1
    <3>2. CASE c \in calls
      BY <1>9, <2>2, <2>4, <3>2
    <3> QED BY <1>6, <3>1, <3>2
  <2>5. ASSUME NEW c \in calls', NEW e \in calls', c.kind = "toggle", e.kind = "toggle",
               c.id = e.id, c.id \in LdapIds
        PROVE  c = e
    BY <1>3, <1>6, <2>1, <2>2, <2>5 DEF CardsIInv, OneToggle
  <2> QED BY <2>4, <2>5
<1>14. ButtonWaits'
  <2>1. SUFFICES ASSUME pages = 0, NEW j \in LdapIds \cap DOMAIN cards, cards'[j].busy
                 PROVE  cards'[j].button <=> ~cards'[j].checked
    BY <1>9 DEF ButtonWaits
  <2>2. CASE j = i
    <3>1. cards[i].button = cards[i].checked
      BY <2>1, <2>2 DEF CardsIInv, LdapButtonInStep
    <3> QED BY <1>10, <2>2, <3>1, Zenon
  <2>3. CASE j # i
    BY <1>9, <2>1, <2>3 DEF CardsIInv, ButtonWaits
  <2> QED BY <2>2, <2>3
<1>15. LdapButtonInStep'
  BY <1>9, <1>10 DEF CardsIInv, LdapButtonInStep
<1> QED BY <1>8, <1>11, <1>12, <1>13, <1>14, <1>15 DEF CardsIInv

\* One card changes, and a toggle of the page of now ends or nothing ends.
LEMMA ToggleEnds ==
  ASSUME CardsIInv, NEW c \in calls, c.kind = "toggle",
         calls' = calls \ {c}, UNCHANGED <<connections, entraForm, gens, pages>>,
         DOMAIN cards' = DOMAIN cards,
         \A j \in DOMAIN cards : j # c.id => cards'[j] = cards[j],
         c.id \in DOMAIN cards => cards'[c.id] \in Card,
         c.id \in LdapIds \cap DOMAIN cards /\ pages = 0
            => ~cards'[c.id].busy /\ cards'[c.id].button = cards'[c.id].checked
  PROVE  CardsIInv'
<1>1. CallFits(c)
  BY DEF CardsIInv, CallsFit
<1>2. CallFits(c)' /\ DOMAIN connections \subseteq DOMAIN connections'
  BY <1>1, CallFitsLater
<1>3. CallsFit' /\ Cardinality(calls') <= MaxCalls
  BY <1>2, CallsAfter
<1>4. CardsTypeOK'
  BY <1>3 DEF CardsIInv, CardsTypeOK
<1>5. FormFits'
  BY DEF CardsIInv, FormFits
<1>6. OneToggle'
  BY DEF CardsIInv, OneToggle
<1>7. ButtonWaits'
  BY DEF CardsIInv, ButtonWaits
<1>8. LdapButtonInStep'
  BY DEF CardsIInv, LdapButtonInStep
<1> QED BY <1>3, <1>4, <1>5, <1>6, <1>7, <1>8 DEF CardsIInv


\* What a toggle finds when it ends.
LEMMA ToggleFinds ==
  ASSUME CardsIInv, NEW c \in calls, c.kind = "toggle", c.id \in DOMAIN cards
  PROVE  /\ c.on \in BOOLEAN /\ c.id \in Ids /\ cards[c.id] \in Card
         /\ pages = 0 => c.page = pages
         /\ pages = 0 /\ c.id \in LdapIds =>
               (cards[c.id].checked <=> c.on) /\ (cards[c.id].button <=> ~c.on)
<1>1. c \in CallRecord(c.row) /\ c.page <= pages /\ cards[c.id] \in Card /\ c.id \in Ids
  BY CardsAssumption DEF CardsIInv, CallsFit, CallFits, CardsTypeOK
<1>2. c.page \in Nat /\ c.on \in BOOLEAN
  BY <1>1 DEF CallRecord
<1>3. pages = 0 => c.page = pages
  BY <1>1, <1>2
<1>4. ASSUME pages = 0, c.id \in LdapIds
      PROVE  cards[c.id].busy /\ (cards[c.id].checked <=> c.on)
  BY <1>4 DEF CardsIInv, OneToggle
<1>5. ASSUME pages = 0, c.id \in LdapIds
      PROVE  cards[c.id].button <=> ~cards[c.id].checked
  BY <1>4, <1>5 DEF CardsIInv, ButtonWaits
<1>6. pages = 0 /\ c.id \in LdapIds =>
         (cards[c.id].checked <=> c.on) /\ (cards[c.id].button <=> ~c.on)
  BY <1>4, <1>5, Zenon
<1> QED BY <1>1, <1>2, <1>3, <1>6

LEMMA ToggleAnswerStep ==
  ASSUME CardsIInv, NEW c \in calls, ToggleAnswer(c)
  PROVE  CardsIInv'
<1> USE DEF ToggleAnswer
<1>1. CASE c.id \notin DOMAIN cards
  <2>1. DOMAIN cards' = DOMAIN cards /\ \A j \in DOMAIN cards : cards'[j] = cards[j]
    BY <1>1
  <2> QED BY <1>1, <2>1, ToggleEnds
<1>2. CASE c.id \in DOMAIN cards
  <2>1. PICK card : card = ButtonAfterToggle(c, cards[c.id])
    OBVIOUS
  <2>2. /\ c.on \in BOOLEAN /\ cards[c.id] \in Card
        /\ pages = 0 => c.page = pages
        /\ pages = 0 /\ c.id \in LdapIds => (cards[c.id].checked <=> c.on)
    BY <1>2, ToggleFinds
  <2>3. /\ card = [checked |-> cards[c.id].checked, button |-> c.on,
                   busy |-> IF c.page = pages THEN FALSE ELSE cards[c.id].busy]
    BY <2>1, <2>2 DEF ButtonAfterToggle, Card
  <2>4. card \in Card
    BY <2>2, <2>3 DEF Card
  <2>5. pages = 0 => ~card.busy
    BY <2>2, <2>3
  <2>6. card.button = c.on /\ card.checked = cards[c.id].checked
    BY <2>3
  <2>7. c.on \in BOOLEAN /\ cards[c.id].checked \in BOOLEAN
    BY <2>2 DEF Card
  <2>8. pages = 0 /\ c.id \in LdapIds => c.on = cards[c.id].checked
    BY <2>2, <2>7
  <2>9. /\ DOMAIN cards' = DOMAIN cards /\ cards'[c.id] = card
        /\ \A j \in DOMAIN cards : j # c.id => cards'[j] = cards[j]
    BY <1>2, <2>1
  <2> QED BY <2>4, <2>5, <2>6, <2>8, <2>9, ToggleEnds
<1> QED BY <1>1, <1>2

\* A call ends without a word, or goes on without one.
LEMMA CallOnly ==
  ASSUME CardsIInv, UNCHANGED <<connections, cards, entraForm, gens, pages>>,
         CallsFit', Cardinality(calls') <= MaxCalls, \A d \in calls' : d.page <= pages,
         \A d \in calls' : d \in calls \/ d.kind # "toggle"
  PROVE  CardsIInv'
<1>1. OneToggle' /\ ButtonWaits' /\ LdapButtonInStep'
  BY FirstPageStays
<1>2. CardsTypeOK'
  BY DEF CardsIInv, CardsTypeOK
<1>3. FormFits'
  BY DEF CardsIInv, FormFits
<1> QED BY <1>1, <1>2, <1>3 DEF CardsIInv

LEMMA CallEnds ==
  ASSUME CardsIInv, NEW c \in calls, calls' = calls \ {c},
         UNCHANGED <<connections, cards, entraForm, gens, pages>>
  PROVE  CardsIInv'
<1>1. CallFits(c)' /\ DOMAIN connections \subseteq DOMAIN connections'
  BY CallFitsLater DEF CardsIInv, CallsFit
<1>2. CallsFit' /\ Cardinality(calls') <= MaxCalls
  BY <1>1, CallsAfter
<1>3. \A d \in calls' : d.page <= pages
  BY DEF CardsIInv, CardsTypeOK
<1> QED BY <1>2, <1>3, CallOnly

LEMMA ToggleFailsStep ==
  ASSUME CardsIInv, NEW c \in calls, ToggleFails(c)
  PROVE  CardsIInv'
<1> USE DEF ToggleFails
<1>1. CASE c.page # pages
  BY <1>1, CallEnds
<1>2. CASE c.page = pages /\ c.id \notin DOMAIN cards
  <2>1. DOMAIN cards' = DOMAIN cards /\ \A j \in DOMAIN cards : cards'[j] = cards[j]
    BY <1>2
  <2> QED BY <1>2, <2>1, ToggleEnds
<1>3. CASE c.page = pages /\ c.id \in DOMAIN cards
  <2>2. /\ c.on \in BOOLEAN /\ cards[c.id] \in Card
        /\ pages = 0 /\ c.id \in LdapIds => (cards[c.id].button <=> ~c.on)
    BY <1>3, ToggleFinds
  <2>3. PICK off \in BOOLEAN : /\ off = (~c.on)
               /\ cards' = [cards EXCEPT ![c.id].busy = FALSE, ![c.id].checked = off]
    BY <1>3, Zenon
  <2>4. /\ DOMAIN cards' = DOMAIN cards /\ cards'[c.id] \in Card
        /\ ~cards'[c.id].busy /\ cards'[c.id].checked = off
        /\ cards'[c.id].button = cards[c.id].button
        /\ \A j \in DOMAIN cards : j # c.id => cards'[j] = cards[j]
    <3>1. PICK after : after = cards'
      OBVIOUS
    <3>2. after = [cards EXCEPT ![c.id].busy = FALSE, ![c.id].checked = off]
      BY <2>3, <3>1
    <3> HIDE DEF ToggleFails
    <3>3. /\ DOMAIN after = DOMAIN cards /\ after[c.id] \in Card
          /\ ~after[c.id].busy /\ after[c.id].checked = off
          /\ after[c.id].button = cards[c.id].button
          /\ \A j \in DOMAIN cards : j # c.id => after[j] = cards[j]
      BY <1>3, <2>2, <3>2 DEF Card
    <3> QED BY <3>1, <3>3
  <2>5. cards[c.id].button \in BOOLEAN
    BY <2>2 DEF Card
  <2>6. pages = 0 /\ c.id \in LdapIds => cards[c.id].button = off
    BY <2>2, <2>3, <2>5
  <2> QED BY <2>4, <2>6, ToggleEnds
<1> QED BY <1>1, <1>2, <1>3

LEMMA ServeToggleStep ==
  ASSUME CardsIInv, NEW c \in calls, ServeToggle(c)
  PROVE  CardsIInv'
<1> USE DEF ServeToggle
<1>1. PICK d : d = [c EXCEPT !.at = "done"] /\ calls' = (calls \ {c}) \cup {d}
  OBVIOUS
<1>2. CallFits(c) /\ c.page <= pages
  BY DEF CardsIInv, CallsFit, CardsTypeOK
<1>3. c \in CallRecord(c.row) /\ c.id \in DOMAIN connections
  BY <1>2 DEF CallFits
<1>4. /\ d.kind = c.kind /\ d.id = c.id /\ d.page = c.page /\ d.at = "done" /\ d.on = c.on
      /\ d.row = c.row /\ d \in CallRecord(d.row)
  BY <1>1, <1>3 DEF CallRecord
<1>5. CallFits(d)
  BY <1>2, <1>4 DEF CallFits
<1>6. /\ DOMAIN connections' = DOMAIN connections
      /\ \A i \in DOMAIN connections : connections'[i] \in Connection
  <2>1. c.on \in BOOLEAN
    BY <1>3 DEF CallRecord
  <2> QED BY <2>1 DEF CardsIInv, CardsTypeOK, Connection
<1>7. CallFits(d)'
  BY <1>5, <1>6, CallFitsLater
<1>8. CallsFit' /\ Cardinality(calls') <= MaxCalls
  BY <1>1, <1>6, <1>7, CallsAfter
<1>9. CardsTypeOK'
  BY <1>1, <1>2, <1>4, <1>6, <1>8 DEF CardsIInv, CardsTypeOK
<1>10. FormFits'
  BY <1>6 DEF CardsIInv, FormFits
<1>11. OneToggle'
  <2>1. SUFFICES ASSUME pages = 0
        PROVE  /\ \A e \in calls' : e.kind = "toggle" /\ e.id \in LdapIds =>
                     e.id \in DOMAIN cards /\ cards[e.id].busy /\ (cards[e.id].checked <=> e.on)
               /\ \A e \in calls', f \in calls' :
                     e.kind = "toggle" /\ f.kind = "toggle" /\ e.id = f.id /\ e.id \in LdapIds
                        => e = f
    BY DEF OneToggle
  <2>2. ASSUME NEW e \in calls', e.kind = "toggle", e.id \in LdapIds
        PROVE  e.id \in DOMAIN cards /\ cards[e.id].busy /\ (cards[e.id].checked <=> e.on)
    <3>1. CASE e = d
      BY <1>4, <2>1, <2>2, <3>1 DEF CardsIInv, OneToggle
    <3>2. CASE e \in calls
      BY <2>1, <2>2, <3>2 DEF CardsIInv, OneToggle
    <3> QED BY <1>1, <3>1, <3>2
  <2>3. ASSUME NEW e \in calls', NEW f \in calls', e.kind = "toggle", f.kind = "toggle",
               e.id = f.id, e.id \in LdapIds
        PROVE  e = f
    <3>1. \A x \in calls, y \in calls :
             x.kind = "toggle" /\ y.kind = "toggle" /\ x.id = y.id /\ x.id \in LdapIds => x = y
      BY <2>1 DEF CardsIInv, OneToggle
    <3>2. CASE e = d /\ f # d
      <4>1. f \in calls /\ f # c
        BY <1>1, <3>2
      <4> QED BY <1>4, <2>3, <3>1, <3>2, <4>1
    <3>3. CASE e # d /\ f = d
      <4>1. e \in calls /\ e # c
        BY <1>1, <3>3
      <4> QED BY <1>4, <2>3, <3>1, <3>3, <4>1
    <3>4. CASE e # d /\ f # d
      BY <1>1, <2>3, <3>1, <3>4
    <3> QED BY <3>2, <3>3, <3>4
  <2> QED BY <2>2, <2>3
<1>12. ButtonWaits' /\ LdapButtonInStep'
  BY DEF CardsIInv, ButtonWaits, LdapButtonInStep
<1> QED BY <1>8, <1>9, <1>10, <1>11, <1>12 DEF CardsIInv


\* Only an EntraID connection's card changes, and no toggle is added.
LEMMA EntraCardOnly ==
  ASSUME CardsIInv, UNCHANGED <<connections, entraForm, gens, pages>>,
         CallsFit', Cardinality(calls') <= MaxCalls, \A d \in calls' : d.page <= pages,
         \A d \in calls' : d \in calls \/ d.kind # "toggle",
         DOMAIN cards' = DOMAIN cards, \A j \in DOMAIN cards : cards'[j] \in Card,
         \A j \in LdapIds \cap DOMAIN cards : cards'[j] = cards[j]
  PROVE  CardsIInv'
<1>1. CardsTypeOK'
  BY DEF CardsIInv, CardsTypeOK
<1>2. FormFits'
  BY DEF CardsIInv, FormFits
<1>3. OneToggle'
  BY DEF CardsIInv, OneToggle
<1>4. ButtonWaits' /\ LdapButtonInStep'
  BY DEF CardsIInv, ButtonWaits, LdapButtonInStep
<1> QED BY <1>1, <1>2, <1>3, <1>4 DEF CardsIInv

LEMMA SyncStep ==
  ASSUME CardsIInv, NEW i \in Ids, Sync(i)
  PROVE  CardsIInv'
<1> USE DEF Sync
<1>1. PICK d : d = Call("sync", i) /\ calls' = calls \cup {d}
  OBVIOUS
<1>2. cards[i] \in Card /\ i \in DOMAIN connections /\ pages \in Nat
  BY CardsAssumption DEF CardsIInv, CardsTypeOK
<1>3. /\ d = [kind |-> "sync", id |-> i, page |-> pages, at |-> "sent",
              on |-> FALSE, cert |-> "", row |-> << >>]
      /\ d.kind = "sync" /\ d.id = i /\ d.page = pages
  BY <1>1 DEF Call
<1>4. CallFits(d)
  BY <1>2, <1>3, FreshCall DEF Credential
<1>5. CallFits(d)' /\ DOMAIN connections \subseteq DOMAIN connections'
  BY <1>4, CallFitsLater
<1>6. CallsFit' /\ Cardinality(calls') <= MaxCalls
  BY <1>1, <1>5, CallsAfter
<1>7. \A c \in calls' : c.page <= pages
  <2>1. \A c \in calls : c.page <= pages
    BY DEF CardsIInv, CardsTypeOK
  <2>2. d.page = pages
    BY <1>3
  <2>3. d.page <= pages
    BY <1>2, <2>2
  <2> QED BY <1>1, <2>1, <2>3
<1>8. /\ DOMAIN cards' = DOMAIN cards
      /\ \A j \in LdapIds \cap DOMAIN cards : cards'[j] = cards[j]
  OBVIOUS
<1>9. ASSUME NEW j \in DOMAIN cards PROVE cards'[j] \in Card
  <2>1. cards[j] \in Card
    BY DEF CardsIInv, CardsTypeOK
  <2>2. cards'[j] = cards[j] \/ cards'[j] = [cards[j] EXCEPT !.button = FALSE]
    OBVIOUS
  <2> QED BY <2>1, <2>2 DEF Card
<1> QED BY <1>1, <1>3, <1>6, <1>7, <1>8, <1>9, EntraCardOnly

LEMMA SyncAnswerStep ==
  ASSUME CardsIInv, NEW c \in calls, SyncAnswer(c)
  PROVE  CardsIInv'
<1> USE DEF SyncAnswer
<1>1. CallFits(c)' /\ DOMAIN connections \subseteq DOMAIN connections'
  BY CallFitsLater DEF CardsIInv, CallsFit
<1>2. CallsFit' /\ Cardinality(calls') <= MaxCalls
  BY <1>1, CallsAfter
<1>3. \A d \in calls' : d.page <= pages
  BY DEF CardsIInv, CardsTypeOK
<1>4. /\ DOMAIN cards' = DOMAIN cards
      /\ \A j \in LdapIds \cap DOMAIN cards : cards'[j] = cards[j]
  BY DEF SyncEnds
<1>5. ASSUME NEW j \in DOMAIN cards PROVE cards'[j] \in Card
  <2>1. cards[j] \in Card
    BY DEF CardsIInv, CardsTypeOK
  <2>2. cards'[j] = cards[j] \/ cards'[j] = [cards[j] EXCEPT !.button = TRUE]
    BY DEF SyncEnds
  <2> QED BY <2>1, <2>2 DEF Card
<1> QED BY <1>2, <1>3, <1>4, <1>5, EntraCardOnly

\* A handler moves its request on and leaves the cards as they are.
LEMMA Served ==
  ASSUME CardsIInv, NEW c \in calls, NEW d, CallFits(d)', c.kind # "toggle",
         d.kind = c.kind, d.page = c.page, calls' = (calls \ {c}) \cup {d},
         UNCHANGED <<cards, entraForm, gens, pages>>,
         DOMAIN connections \subseteq DOMAIN connections', DOMAIN connections' \subseteq Ids,
         \A i \in DOMAIN connections' : connections'[i] \in Connection
  PROVE  CardsIInv'
<1>1. CallsFit' /\ Cardinality(calls') <= MaxCalls
  BY CallsAfter
<1>2. \A e \in calls' : e.page <= pages
  BY DEF CardsIInv, CardsTypeOK
<1>3. CardsTypeOK'
  BY <1>1, <1>2 DEF CardsIInv, CardsTypeOK
<1>4. FormFits'
  BY DEF CardsIInv, FormFits
<1>5. OneToggle' /\ ButtonWaits' /\ LdapButtonInStep'
  BY FirstPageStays
<1> QED BY <1>1, <1>3, <1>4, <1>5 DEF CardsIInv

LEMMA ServeSyncStep ==
  ASSUME CardsIInv, NEW c \in calls, ServeSync(c)
  PROVE  CardsIInv'
<1> USE DEF ServeSync
<1>1. CallFits(c)
  BY DEF CardsIInv, CallsFit
<1>2. c \in CallRecord(c.row) /\ c.id \in DOMAIN connections
  BY <1>1 DEF CallFits
<1>3. DOMAIN connections \subseteq Ids /\ \A i \in DOMAIN connections : connections[i] \in Connection
  BY DEF CardsIInv, CardsTypeOK
<1>4. CASE calls' = (calls \ {c}) \cup {[c EXCEPT !.at = "done"]}
  <2>1. PICK d : d = [c EXCEPT !.at = "done"] /\ calls' = (calls \ {c}) \cup {d}
    BY <1>4
  <2>2. /\ d.kind = c.kind /\ d.id = c.id /\ d.page = c.page /\ d.at = "done"
        /\ d.row = c.row /\ d \in CallRecord(d.row)
    BY <1>2, <2>1 DEF CallRecord
  <2>3. CallFits(d)
    BY <1>1, <2>2 DEF CallFits
  <2>4. CallFits(d)'
    BY <2>3, CallFitsLater
  <2> QED BY <1>3, <2>1, <2>2, <2>4, Served
<1>5. CASE calls' = (calls \ {c}) \cup
             {[c EXCEPT !.at = "listed", !.row = [i \in {c.id} |-> connections[i]]]}
  <2>1. PICK row, d : /\ row = [i \in {c.id} |-> connections[i]]
                      /\ d = [c EXCEPT !.at = "listed", !.row = row]
                      /\ calls' = (calls \ {c}) \cup {d}
    BY <1>5
  <2>2. /\ d.kind = c.kind /\ d.id = c.id /\ d.page = c.page /\ d.at = "listed"
        /\ d.row = row /\ d \in CallRecord(d.row)
    BY <1>2, <2>1 DEF CallRecord
  <2>3. DOMAIN row = {c.id} /\ row[c.id] = connections[c.id]
    BY <2>1
  <2>4. CallFits(d)
    BY <1>2, <1>3, <2>2, <2>3 DEF CallFits
  <2>5. CallFits(d)'
    BY <2>4, CallFitsLater
  <2> QED BY <1>3, <2>1, <2>2, <2>5, Served
<1> QED BY <1>4, <1>5

LEMMA StampSyncStep ==
  ASSUME CardsIInv, NEW c \in calls, StampSync(c)
  PROVE  CardsIInv'
<1> USE DEF StampSync
<1>1. CallFits(c)
  BY DEF CardsIInv, CallsFit
<1>2. c \in CallRecord(c.row) /\ c.id \in DOMAIN connections /\ c.row[c.id] \in Connection
  BY <1>1 DEF CallFits
<1>3. DOMAIN connections \subseteq Ids /\ \A i \in DOMAIN connections : connections[i] \in Connection
  BY DEF CardsIInv, CardsTypeOK
<1>4. PICK d : d = [c EXCEPT !.at = "done", !.row = << >>] /\ calls' = (calls \ {c}) \cup {d}
  OBVIOUS
<1>5. /\ d.kind = c.kind /\ d.id = c.id /\ d.page = c.page /\ d.at = "done"
      /\ d.row = << >> /\ d \in CallRecord(d.row) /\ DOMAIN d.row = {}
  <2>1. /\ d.kind = c.kind /\ d.id = c.id /\ d.page = c.page /\ d.at = "done"
        /\ d.row = << >> /\ d \in CallRecord(d.row)
    BY <1>2, <1>4 DEF CallRecord
  <2>2. DOMAIN << >> = {}
    OBVIOUS
  <2> QED BY <2>1, <2>2
<1>6. CallFits(d)
  BY <1>2, <1>5 DEF CallFits
<1>7. /\ DOMAIN connections' = DOMAIN connections
      /\ \A i \in DOMAIN connections : connections'[i] \in Connection
  BY <1>2, <1>3
<1>8. CallFits(d)'
  BY <1>6, <1>7, CallFitsLater
<1> QED BY <1>3, <1>4, <1>5, <1>7, <1>8, Served

\* What was submitted is stored, and the answer holds the store after it.
LEMMA ServeSubmit ==
  ASSUME CardsIInv, NEW c \in calls, c.kind = "submit", c.at = "sent",
         calls' = (calls \ {c}) \cup {[c EXCEPT !.at = "done", !.cert = "", !.row = connections']},
         UNCHANGED <<cards, entraForm, gens, pages>>,
         DOMAIN connections \subseteq DOMAIN connections', DOMAIN connections' \subseteq Ids,
         \A i \in DOMAIN connections' : connections'[i] \in Connection
  PROVE  CardsIInv'
<1>1. CallFits(c)
  BY DEF CardsIInv, CallsFit
<1>2. c \in CallRecord(c.row) /\ (c.id # NoId => c.id \in DOMAIN connections)
  BY <1>1 DEF CallFits
<1>3. PICK row, d : /\ row = connections'
                    /\ d = [c EXCEPT !.at = "done", !.cert = "", !.row = row]
                    /\ calls' = (calls \ {c}) \cup {d}
  OBVIOUS
<1>4. /\ d.kind = c.kind /\ d.id = c.id /\ d.page = c.page /\ d.at = "done"
      /\ d.row = row /\ d \in CallRecord(d.row)
  BY <1>2, <1>3 DEF CallRecord, Credential
<1>5. CallFits(d)'
  BY <1>2, <1>3, <1>4 DEF CallFits
<1> QED BY <1>3, <1>4, <1>5, Served

LEMMA ServeEditStep ==
  ASSUME CardsIInv, NEW c \in calls, ServeEdit(c)
  PROVE  CardsIInv'
<1> USE DEF ServeEdit
<1>1. CallFits(c)
  BY DEF CardsIInv, CallsFit
<1>2. c.cert \in Credential /\ c.id \in DOMAIN connections
  BY <1>1 DEF CallFits, CallRecord
<1>3. DOMAIN connections \subseteq Ids /\ \A i \in DOMAIN connections : connections[i] \in Connection
  BY DEF CardsIInv, CardsTypeOK
<1>4. /\ DOMAIN connections' = DOMAIN connections
      /\ \A i \in DOMAIN connections : connections'[i] \in Connection
  BY <1>2, <1>3 DEF Kept, Connection
<1> QED BY <1>3, <1>4, ServeSubmit

LEMMA ServeCreateStep ==
  ASSUME CardsIInv, NEW c \in calls, ServeCreate(c)
  PROVE  CardsIInv'
<1> USE DEF ServeCreate
<1>1. CallFits(c)
  BY DEF CardsIInv, CallsFit
<1>2. c.cert \in Credential
  BY <1>1 DEF CallFits, CallRecord
<1>3. DOMAIN connections \subseteq Ids /\ \A i \in DOMAIN connections : connections[i] \in Connection
  BY DEF CardsIInv, CardsTypeOK
<1>4. PICK i \in NewIds : connections' = [j \in DOMAIN connections \cup {i} |->
         IF j = i THEN [on |-> TRUE, cert |-> c.cert] ELSE connections[j]]
  OBVIOUS
<1>5. /\ DOMAIN connections' = DOMAIN connections \cup {i} /\ i \in Ids
      /\ \A j \in DOMAIN connections' : connections'[j] \in Connection
  <2>1. DOMAIN connections' = DOMAIN connections \cup {i} /\ i \in Ids
    BY <1>4 DEF Ids
  <2>2. [on |-> TRUE, cert |-> c.cert] \in Connection
    BY <1>2 DEF Connection
  <2>3. ASSUME NEW j \in DOMAIN connections' PROVE connections'[j] \in Connection
    BY <1>3, <1>4, <2>1, <2>2
  <2> QED BY <2>1, <2>3
<1> QED BY <1>3, <1>5, ServeSubmit

LEMMA SubmitAnswerStep ==
  ASSUME CardsIInv, NEW c \in calls, SubmitAnswer(c)
  PROVE  CardsIInv'
<1> USE DEF SubmitAnswer
<1>1. CallFits(c) /\ pages \in Nat /\ pages < MaxPages /\ MaxPages \in Nat /\ MaxGens \in Nat
  BY CardsAssumption DEF CardsIInv, CallsFit, CardsTypeOK
<1>2. DOMAIN c.row \subseteq DOMAIN connections /\ \A i \in DOMAIN c.row : c.row[i] \in Connection
  BY <1>1 DEF CallFits
<1>3. CallFits(c)' /\ DOMAIN connections \subseteq DOMAIN connections'
  BY <1>1, CallFitsLater
<1>4. CallsFit' /\ Cardinality(calls') <= MaxCalls
  BY <1>3, CallsAfter
<1>5. DOMAIN cards' = DOMAIN c.row /\ \A i \in DOMAIN cards' : cards'[i] \in Card
  BY <1>2, DrawnCards
<1>6. \A d \in calls' : d.page <= pages'
  <2>1. ASSUME NEW d \in calls PROVE d.page <= pages /\ d.page \in Nat
    BY DEF CardsIInv, CardsTypeOK, CallsFit, CallFits, CallRecord
  <2> QED BY <1>1, <2>1
<1>7. entraForm' \in Form /\ entraForm'.edit = NoId
  BY DEF EmptyForm, Form, Credential
<1>8. pages' \in 0 .. MaxPages /\ pages' # 0 /\ gens' \in 0 .. MaxGens
  BY <1>1
<1>9. CardsTypeOK'
  BY <1>2, <1>4, <1>5, <1>6, <1>7, <1>8 DEF CardsIInv, CardsTypeOK
<1>10. FormFits' /\ OneToggle' /\ ButtonWaits' /\ LdapButtonInStep'
  BY <1>7, <1>8 DEF FormFits, OneToggle, ButtonWaits, LdapButtonInStep
<1> QED BY <1>4, <1>9, <1>10 DEF CardsIInv

LEMMA SubmitStep ==
  ASSUME CardsIInv, SubmitForm
  PROVE  CardsIInv'
<1> USE DEF SubmitForm
<1>1. PICK i, text, d : /\ i = entraForm.edit /\ text = entraForm.cert
                        /\ d = [Call("submit", i) EXCEPT !.cert = text]
                        /\ calls' = calls \cup {d}
  OBVIOUS
<1>2. /\ i \in Ids \cup {NoId} /\ text \in Credential /\ pages \in Nat
      /\ i # NoId => i \in DOMAIN connections
  BY <1>1, CardsAssumption DEF CardsIInv, CardsTypeOK, FormFits, Form
<1>3. /\ d = [kind |-> "submit", id |-> i, page |-> pages, at |-> "sent",
              on |-> FALSE, cert |-> text, row |-> << >>]
      /\ d.kind = "submit" /\ d.page = pages
  BY <1>1 DEF Call
<1>4. CallFits(d)
  BY <1>2, <1>3, FreshCall
<1>5. CallFits(d)' /\ DOMAIN connections \subseteq DOMAIN connections'
  BY <1>4, CallFitsLater
<1>6. CallsFit' /\ Cardinality(calls') <= MaxCalls
  BY <1>1, <1>5, CallsAfter
<1>7. \A c \in calls' : c.page <= pages
  <2>1. \A c \in calls : c.page <= pages
    BY DEF CardsIInv, CardsTypeOK
  <2>2. d.page = pages
    BY <1>3
  <2>3. d.page <= pages
    BY <1>2, <2>2
  <2> QED BY <1>1, <2>1, <2>3
<1> QED BY <1>1, <1>3, <1>6, <1>7, CallOnly

-----------------------------------------------------------------------------
(* The overlay.                                                            *)

FormActions ==
    \/ OpenEntraForm \/ CloseEntraForm \/ TypeCertificate \/ CertAnswer \/ CertFails
    \/ \E i \in Ids : EditEntraSource(i)
    \/ \E method \in {"secret", "certificate"} : ChooseMethod(method)

LEMMA FormStep ==
  ASSUME CardsIInv, FormActions
  PROVE  CardsIInv'
<1>1. UNCHANGED <<connections, cards, calls, pages>>
  BY DEF FormActions, OpenEntraForm, CloseEntraForm, TypeCertificate, CertAnswer, CertFails,
         EditEntraSource, ChooseMethod
<1>2. entraForm \in Form /\ gens \in 0 .. MaxGens /\ MaxGens \in Nat
  BY CardsAssumption DEF CardsIInv, CardsTypeOK
<1>3. /\ entraForm' \in Form /\ gens' \in 0 .. MaxGens
      /\ entraForm'.edit \in {NoId, entraForm.edit} \cup DOMAIN connections
  <2>1. CASE OpenEntraForm \/ CloseEntraForm
    BY <1>2, <2>1, EmptyFields DEF OpenEntraForm, CloseEntraForm
  <2>2. CASE TypeCertificate
    <3>1. PICK text \in Credential : entraForm' = [entraForm EXCEPT !.cert = text] /\ gens' = gens
      BY <2>2 DEF TypeCertificate, Credential
    <3> QED BY <1>2, <3>1, CertField
  <2>3. CASE CertAnswer \/ CertFails
    <3>1. CASE CertFails
      BY <1>2, <3>1 DEF CertFails
    <3>2. CASE CertAnswer
      <4>1. Filled(entraForm.cert) \in Credential
        BY <1>2 DEF Filled, Form, Credential
      <4>2. /\ entraForm' = [entraForm EXCEPT !.cert = Filled(entraForm.cert)]
            /\ gens' = gens - 1 /\ gens > 0
        BY <3>2 DEF CertAnswer
      <4> QED BY <1>2, <4>1, <4>2, CertField
    <3> QED BY <2>3, <3>1, <3>2
  <2>4. ASSUME NEW i \in Ids, EditEntraSource(i)
        PROVE  /\ entraForm' \in Form /\ gens' \in 0 .. MaxGens
               /\ entraForm'.edit \in {NoId, entraForm.edit} \cup DOMAIN connections
    <3>1. PICK method \in {"secret", "certificate"} :
             ShowForm([open |-> TRUE, edit |-> i, method |-> method, cert |-> ""])
      BY <2>4 DEF EditEntraSource
    <3>2. i # NoId /\ i \in DOMAIN connections
      BY <2>4, CardsAssumption DEF EditEntraSource, CardsIInv, CardsTypeOK
    <3>3. gens' = gens /\ entraForm' = [open |-> TRUE, edit |-> i, method |-> method, cert |-> ""]
      BY <3>1, <3>2 DEF ShowForm, WantsCert
    <3> QED BY <1>2, <3>2, <3>3 DEF Form, Credential
  <2>5. ASSUME NEW method \in {"secret", "certificate"}, ChooseMethod(method)
        PROVE  /\ entraForm' \in Form /\ gens' \in 0 .. MaxGens
               /\ entraForm'.edit \in {NoId, entraForm.edit} \cup DOMAIN connections
    <3>1. entraForm' = [entraForm EXCEPT !.method = method] /\ gens' \in {gens, gens + 1}
          /\ gens < MaxGens
      BY <2>5 DEF ChooseMethod, ShowForm
    <3>2. gens' \in 0 .. MaxGens
      BY <1>2, <3>1
    <3>3. entraForm' \in Form /\ entraForm'.edit = entraForm.edit
      BY <1>2, <3>1, MethodField
    <3> QED BY <3>2, <3>3
  <2> QED BY <2>1, <2>2, <2>3, <2>4, <2>5 DEF FormActions
<1>4. FormFits'
  BY <1>1, <1>3 DEF CardsIInv, FormFits
<1>5. CallsFit'
  BY <1>1, CallFitsLater DEF CardsIInv, CallsFit
<1>6. CardsTypeOK'
  BY <1>1, <1>3 DEF CardsIInv, CardsTypeOK
<1>7. OneToggle' /\ ButtonWaits' /\ LdapButtonInStep'
  BY <1>1, FirstPageStays
<1> QED BY <1>4, <1>5, <1>6, <1>7 DEF CardsIInv

LEMMA CardsStep == CardsIInv /\ [CardsNext]_cardVars => CardsIInv'
<1> SUFFICES ASSUME CardsIInv, [CardsNext]_cardVars PROVE CardsIInv'
  OBVIOUS
<1>1. ASSUME NEW i \in Ids, Toggle(i) PROVE CardsIInv'
  BY <1>1, ToggleStep
<1>2. ASSUME NEW i \in Ids, Sync(i) PROVE CardsIInv'
  BY <1>2, SyncStep
<1>3. ASSUME NEW c \in calls, ServeToggle(c) PROVE CardsIInv'
  BY <1>3, ServeToggleStep
<1>4. ASSUME NEW c \in calls, ToggleAnswer(c) PROVE CardsIInv'
  BY <1>4, ToggleAnswerStep
<1>5. ASSUME NEW c \in calls, ToggleFails(c) PROVE CardsIInv'
  BY <1>5, ToggleFailsStep
<1>6. ASSUME NEW c \in calls, ServeSync(c) PROVE CardsIInv'
  BY <1>6, ServeSyncStep
<1>7. ASSUME NEW c \in calls, StampSync(c) PROVE CardsIInv'
  BY <1>7, StampSyncStep
<1>8. ASSUME NEW c \in calls, SyncAnswer(c) PROVE CardsIInv'
  BY <1>8, SyncAnswerStep
<1>9. ASSUME NEW c \in calls, ServeEdit(c) PROVE CardsIInv'
  BY <1>9, ServeEditStep
<1>10. ASSUME NEW c \in calls, ServeCreate(c) PROVE CardsIInv'
  BY <1>10, ServeCreateStep
<1>11. ASSUME NEW c \in calls, SubmitAnswer(c) PROVE CardsIInv'
  BY <1>11, SubmitAnswerStep
<1>12. ASSUME NEW c \in calls, SubmitFails(c) PROVE CardsIInv'
  BY <1>12, CallEnds DEF SubmitFails
<1>13. CASE SubmitForm
  BY <1>13, SubmitStep
<1>14. CASE FormActions
  BY <1>14, FormStep
<1>15. CASE UNCHANGED cardVars
  <2>1. CallsFit'
    BY <1>15, CallFitsLater DEF CardsIInv, CallsFit, cardVars
  <2>2. OneToggle' /\ ButtonWaits' /\ LdapButtonInStep'
    BY <1>15, FirstPageStays DEF cardVars
  <2>3. CardsTypeOK' /\ FormFits'
    BY <1>15 DEF CardsIInv, CardsTypeOK, FormFits, cardVars
  <2> QED BY <2>1, <2>2, <2>3 DEF CardsIInv
<1> QED BY <1>1, <1>2, <1>3, <1>4, <1>5, <1>6, <1>7, <1>8, <1>9, <1>10, <1>11, <1>12, <1>13,
           <1>14, <1>15 DEF CardsNext, FormActions

-----------------------------------------------------------------------------
(* The theorems.                                                           *)

\* The inductive invariant of store, cards, form and requests.
THEOREM CardsInvariance == CardsSpec => []CardsIInv
<1> QED BY CardsInitInvariant, CardsStep, PTL DEF CardsSpec

\* For any connections, requests and pages, the cards, the form and the
\* requests fit together: until the tab is drawn again, the Sync now button of
\* an LDAP card follows its switch.
THEOREM CardsKeepStep == CardsSpec => []CardsInStep
<1>1. CardsIInv => CardsInStep
  BY DEF CardsIInv, CardsInStep
<1> QED BY <1>1, CardsInvariance, PTL

\* A late generated certificate never replaces a typed one, and the field
\* changes otherwise only by typing or with the whole form.
THEOREM TypedStays == CardsSpec => TypedIsKept
<1>1. CardsIInv /\ [CardsNext]_cardVars
         => [entraForm.cert = "typed" => entraForm'.cert \in {"typed", ""}]_cardVars
  <2> SUFFICES ASSUME CardsIInv, CardsNext, entraForm.cert = "typed"
      PROVE  entraForm'.cert \in {"typed", ""}
    BY DEF cardVars
  <2>1. entraForm \in Form
    BY DEF CardsIInv, CardsTypeOK
  <2>2. CASE UNCHANGED entraForm
    BY <2>2
  <2>3. CASE OpenEntraForm \/ CloseEntraForm \/ \E c \in calls : SubmitAnswer(c)
    BY <2>3, EmptyFields DEF OpenEntraForm, CloseEntraForm, SubmitAnswer
  <2>4. CASE TypeCertificate
    <3>1. PICK text \in {"", "typed"} : entraForm' = [entraForm EXCEPT !.cert = text]
      BY <2>4 DEF TypeCertificate
    <3> QED BY <2>1, <3>1, CertField DEF Credential
  <2>5. CASE CertAnswer
    <3>0. Filled(entraForm.cert) = "typed"
      BY DEF Filled
    <3>1. entraForm' = [entraForm EXCEPT !.cert = Filled(entraForm.cert)]
      BY <2>5 DEF CertAnswer
    <3> QED BY <2>1, <3>0, <3>1, CertField DEF Credential
  <2>6. CASE \E i \in Ids : EditEntraSource(i)
    <3>1. PICK i \in Ids : EditEntraSource(i)
      BY <2>6
    <3>2. PICK method \in {"secret", "certificate"} :
             ShowForm([open |-> TRUE, edit |-> i, method |-> method, cert |-> ""])
      BY <3>1 DEF EditEntraSource
    <3>3. entraForm' = [open |-> TRUE, edit |-> i, method |-> method, cert |-> ""]
      BY <3>2 DEF ShowForm
    <3> QED BY <3>3
  <2>7. CASE \E method \in {"secret", "certificate"} : ChooseMethod(method)
    <3>1. PICK method \in {"secret", "certificate"} : entraForm' = [entraForm EXCEPT !.method = method]
      BY <2>7 DEF ChooseMethod, ShowForm
    <3> QED BY <2>1, <3>1, MethodField
  <2>8. CardsNext => \/ UNCHANGED entraForm
                     \/ OpenEntraForm \/ CloseEntraForm \/ \E c \in calls : SubmitAnswer(c)
                     \/ TypeCertificate \/ CertAnswer \/ \E i \in Ids : EditEntraSource(i)
                     \/ \E method \in {"secret", "certificate"} : ChooseMethod(method)
    BY DEF CardsNext, Toggle, Sync, ServeToggle, ToggleAnswer, ToggleFails, ServeSync, StampSync,
           SyncAnswer, ServeEdit, ServeCreate, SubmitFails, SubmitForm, CertFails
  <2> QED BY <2>2, <2>3, <2>4, <2>5, <2>6, <2>7, <2>8
<1> QED BY <1>1, CardsInvariance, PTL DEF CardsSpec, TypedIsKept

-----------------------------------------------------------------------------
(* Infinite lists                                                          *)

LEMMA RankType ==
  ASSUME NEW S, IsFiniteSet(S), NEW e
  PROVE  Rank(S, e) \in 0..Cardinality(S)
<1>1. {f \in S : f > e} \in SUBSET S
  OBVIOUS
<1> QED BY <1>1, FS_Subset, FS_CardinalityType DEF Rank

\* The further down, the higher the rank.
LEMMA RankGrows ==
  ASSUME NEW S \in SUBSET Nat, IsFiniteSet(S), NEW e \in Nat, NEW f \in S, f > e
  PROVE  Rank(S, f) < Rank(S, e)
<1> DEFINE A == {g \in S : g > f}
           B == {g \in S : g > e}
<1>0. f \in Nat /\ \A g \in S : g \in Nat
  OBVIOUS
<1>a. ASSUME NEW g \in A PROVE g \in B
  <2>1. g \in Nat /\ f \in Nat /\ e \in Nat /\ g > f /\ f > e
    BY <1>0
  <2>2. g > e
    BY <2>1
  <2> QED BY <2>2
<1>b. f \in B /\ ~(f > f)
  BY <1>0
<1>1. A \in SUBSET B /\ f \in B /\ f \notin A
  BY <1>a, <1>b
<1>2. IsFiniteSet(B)
  BY FS_Subset
<1>3. Cardinality(A) <= Cardinality(B) /\ Cardinality(A) # Cardinality(B)
  BY <1>1, <1>2, FS_Subset
<1>4. IsFiniteSet(A) /\ Cardinality(A) \in Nat /\ Cardinality(B) \in Nat
  BY <1>1, <1>2, FS_Subset, FS_CardinalityType
<1> QED BY <1>3, <1>4 DEF Rank

LEMMA RankBelowSize ==
  ASSUME NEW S \in SUBSET Nat, IsFiniteSet(S), NEW e \in S
  PROVE  Rank(S, e) < Cardinality(S)
<1> DEFINE A == {g \in S : g > e}
<1>1. A \in SUBSET S /\ e \notin A
  OBVIOUS
<1>2. Cardinality(A) <= Cardinality(S) /\ Cardinality(A) # Cardinality(S)
  BY <1>1, FS_Subset
<1>3. Rank(S, e) \in 0..Cardinality(S) /\ Cardinality(S) \in Nat
  BY RankType, FS_CardinalityType
<1>4. Rank(S, e) # Cardinality(S)
  BY <1>2 DEF Rank
<1> QED BY <1>3, <1>4

LEMMA RankInjective ==
  ASSUME NEW S \in SUBSET Nat, IsFiniteSet(S), NEW e \in S, NEW f \in S,
         Rank(S, e) = Rank(S, f)
  PROVE  e = f
<1>1. Rank(S, e) \in Nat /\ e \in Nat /\ f \in Nat
  BY RankType
<1>2. e > f \/ f > e \/ e = f
  BY <1>1
<1> QED BY <1>1, <1>2, RankGrows

LEMMA RankOnto ==
  ASSUME NEW S \in SUBSET Nat, IsFiniteSet(S), NEW n \in 0..Cardinality(S) - 1
  PROVE  \E e \in S : Rank(S, e) = n
<1> DEFINE T == 0..Cardinality(S) - 1
           rank == [e \in S |-> Rank(S, e)]
<1>0. Cardinality(S) \in Nat
  BY FS_CardinalityType
<1>1. rank \in [S -> T]
  BY <1>0, RankType, RankBelowSize
<1>2. rank \in Injection(S, T)
  BY <1>1, RankInjective DEF Injection, IsInjective
<1>3. IsFiniteSet(T) /\ Cardinality(T) = Cardinality(S)
  <2>0. 0 \in Int /\ Cardinality(S) - 1 \in Int
    BY <1>0
  <2>1. /\ IsFiniteSet(0..Cardinality(S) - 1)
        /\ Cardinality(0..Cardinality(S) - 1) = IF 0 > Cardinality(S) - 1 THEN 0
                                                ELSE (Cardinality(S) - 1) - 0 + 1
    BY <2>0, FS_Interval
  <2> QED BY <1>0, <2>1
<1>4. rank \in Surjection(S, T)
  BY <1>2, <1>3, FS_Injection
<1> QED BY <1>4 DEF Surjection

LEMMA RankMonotone ==
  ASSUME NEW S, NEW T \in SUBSET S, IsFiniteSet(S), NEW e
  PROVE  Rank(T, e) <= Rank(S, e)
<1>1. {f \in T : f > e} \in SUBSET {f \in S : f > e}
  OBVIOUS
<1>2. IsFiniteSet({f \in S : f > e})
  BY FS_Subset
<1> QED BY <1>1, <1>2, FS_Subset DEF Rank

LEMMA NewestProperties ==
  ASSUME NEW S \in SUBSET Nat, IsFiniteSet(S)
  PROVE  /\ Newest(S) \in Seq(S)
         /\ Len(Newest(S)) = Cardinality(S)
         /\ \A n \in 1..Cardinality(S) :
               Newest(S)[n] \in S /\ Rank(S, Newest(S)[n]) = n - 1
<1>0. Cardinality(S) \in Nat
  BY FS_CardinalityType
<1>1. ASSUME NEW n \in 1..Cardinality(S)
      PROVE  Newest(S)[n] \in S /\ Rank(S, Newest(S)[n]) = n - 1
  <2>1. n - 1 \in 0..Cardinality(S) - 1
    BY <1>0
  <2>2. \E e \in S : Rank(S, e) = n - 1
    BY <2>1, RankOnto
  <2>3. Newest(S)[n] = CHOOSE e \in S : Rank(S, e) = n - 1
    BY DEF Newest
  <2> QED BY <2>2, <2>3
<1>2. Newest(S) \in [1..Cardinality(S) -> S]
  BY <1>1 DEF Newest
<1>3. Newest(S) \in Seq(S)
  BY <1>0, <1>2
<1>4. Len(Newest(S)) = Cardinality(S)
  BY <1>0, <1>2, <1>3, LenProperties DEF Newest
<1> QED BY <1>1, <1>3, <1>4

\* The window from a place on: the entries whose ranks lie in it, in order.
LEMMA WindowProperties ==
  ASSUME NEW S \in SUBSET Nat, IsFiniteSet(S), NEW from \in Nat, PageSize \in Nat
  PROVE  LET w == Window(S, from)
         IN  /\ w \in Seq(S) /\ Len(w) \in Nat
             /\ from <= Cardinality(S) => from + Len(w) <= Cardinality(S)
             /\ from >= Cardinality(S) => Len(w) = 0
             /\ \A n \in 1..Len(w) : w[n] \in S /\ Rank(S, w[n]) = from + n - 1
             /\ \A e \in S : from <= Rank(S, e) /\ Rank(S, e) < from + PageSize
                                => \E n \in 1..Len(w) : w[n] = e
<1> DEFINE w == Window(S, from)
           card == Cardinality(S)
           last == IF from + PageSize < card THEN from + PageSize ELSE card
           all == Newest(S)
<1>0. card \in Nat /\ last \in Nat
  BY FS_CardinalityType
<1>1. all \in Seq(S) /\ Len(all) = card
  BY NewestProperties
<1>2. \A n \in 1..card : all[n] \in S /\ Rank(S, all[n]) = n - 1
  BY NewestProperties
<1> HIDE DEF all
<1>3. w = SubSeq(all, from + 1, last)
  BY <1>1 DEF Window, all
<1>4. \A i \in (from + 1)..last : all[i] \in S
  BY <1>0, <1>2
<1> HIDE DEF card, last
<1>5. /\ SubSeq(all, from + 1, last) \in Seq(S)
      /\ Len(SubSeq(all, from + 1, last)) =
            IF from + 1 <= last THEN last - (from + 1) + 1 ELSE 0
      /\ \A i \in 1..last - (from + 1) + 1 :
            SubSeq(all, from + 1, last)[i] = all[from + 1 + i - 1]
  BY <1>0, <1>4, SubSeqProperties
<1>6. Len(w) = IF from < last THEN last - from ELSE 0
  BY <1>0, <1>3, <1>5
<1>7. last <= card /\ (from <= card => from <= last) /\ (from >= card => last <= from)
  BY <1>0 DEF last
<1>8. ASSUME NEW n \in 1..Len(w)
      PROVE  w[n] = all[from + n] /\ from + n \in 1..card
  <2>1. n \in 1..last - (from + 1) + 1 /\ from + 1 + n - 1 = from + n
    BY <1>0, <1>6
  <2>2. SubSeq(all, from + 1, last)[n] = all[from + 1 + n - 1]
    BY <1>5, <2>1
  <2> QED BY <1>0, <1>3, <1>6, <1>7, <2>1, <2>2
<1>9. \A n \in 1..Len(w) : w[n] \in S /\ Rank(S, w[n]) = from + n - 1
  BY <1>2, <1>8 DEF card
<1>10. ASSUME NEW e \in S, from <= Rank(S, e), Rank(S, e) < from + PageSize
       PROVE  \E n \in 1..Len(w) : w[n] = e
  <2>1. Rank(S, e) \in Nat /\ Rank(S, e) < card
    BY RankType, RankBelowSize, <1>0 DEF card
  <2>2. Rank(S, e) < last
    BY <1>10, <2>1 DEF last, card
  <2>3. Rank(S, e) + 1 - from \in 1..Len(w)
    BY <1>0, <1>6, <1>10, <2>1, <2>2
  <2>4. Rank(S, w[Rank(S, e) + 1 - from]) = from + (Rank(S, e) + 1 - from) - 1
    BY <1>9, <2>3
  <2>5. Rank(S, w[Rank(S, e) + 1 - from]) = Rank(S, e)
    BY <2>1, <2>4
  <2>6. w[Rank(S, e) + 1 - from] \in S
    BY <1>9, <2>3
  <2>7. PICK x \in S : x = w[Rank(S, e) + 1 - from] /\ Rank(S, x) = Rank(S, e)
    BY <2>5, <2>6
  <2>8. x = e
    BY <2>7, RankInjective
  <2> QED BY <2>3, <2>7, <2>8
<1>11. w \in Seq(S) /\ Len(w) \in Nat
  BY <1>0, <1>3, <1>5, <1>6
<1>12. /\ from <= card => from + Len(w) <= card
       /\ from >= card => Len(w) = 0
  BY <1>0, <1>6, <1>7
<1> QED BY <1>9, <1>10, <1>11, <1>12 DEF card
-----------------------------------------------------------------------------
(* The inductive invariant.                                                *)

\* The rows stay while the list is hidden only in the change browser.
RowsKept == open \/ list = "changes"

Promised == ~debounce /\ ~shrunk

\* The entries of the log that the text in the box lets pass.
Passed == log \cap Matches(box)

\* The request counted is the one for the next row, and names the text in
\* the box unless a keystroke waits for its timeout.
RequestFits ==
    /\ \A r \in live : r.offset = offset
    /\ RowsKept /\ ~debounce => \A r \in live : r.filter = box

\* The offset is the number of rows, as long as these are kept.
OffsetFits ==
    /\ offset <= Cardinality(Entries)
    /\ ~RowsKept => rows = << >>
    /\ RowsKept => Len(rows) = offset

\* Entries only arrive.
LogGrows == ~shrunk => base \subseteq log

\* The rows match, and the last one is at least as far down as the offset
\* says, however many entries arrived above it.
RowsFit ==
    Promised =>
       /\ Range(rows) \subseteq Passed
       /\ rows # << >> => Rank(Passed, rows[Len(rows)]) >= offset - 1

\* In a log that stays as it is the rows lie above the offset, each once.
RowsLieAbove ==
    Promised /\ log = base =>
       /\ \A r \in Range(rows) : Rank(Passed, r) < offset
       /\ IsInjective(rows)

\* The line of the change browser says so when a page is under way, and a
\* list that says it is at its end is.
StatusFits ==
    /\ list = "changes" /\ loading => notice = "loading"
    /\ RowsKept /\ Promised /\ ~loading /\ notice = "end"
          => base \cap Matches(box) \subseteq Range(rows)

ListIInv ==
    /\ ListTypeOK
    /\ RequestFits /\ OffsetFits /\ LogGrows
    /\ RowsFit /\ RowsLieAbove
    /\ NothingSkipped
    /\ StatusFits
    /\ PagesFollow


-----------------------------------------------------------------------------
(* Lemmas about a state.                                                   *)

LEMMA PassedFinite ==
  ASSUME NEW text, NEW l \in SUBSET Entries
  PROVE  /\ l \cap Matches(text) \in SUBSET Nat
         /\ l \cap Matches(text) \in SUBSET Entries
         /\ IsFiniteSet(l \cap Matches(text))
         /\ Cardinality(l \cap Matches(text)) \in Nat
         /\ Cardinality(l \cap Matches(text)) <= Cardinality(Entries)
         /\ Cardinality(Entries) \in Nat
<1>1. l \cap Matches(text) \in SUBSET Entries
  OBVIOUS
<1>2. IsFiniteSet(Entries) /\ Entries \subseteq Nat
  BY PagedAssumption
<1>3. /\ IsFiniteSet(l \cap Matches(text))
      /\ Cardinality(l \cap Matches(text)) <= Cardinality(Entries)
  BY <1>1, <1>2, FS_Subset
<1> QED BY <1>1, <1>2, <1>3, FS_CardinalityType

LEMMA PassedType ==
  ASSUME ListIInv
  PROVE  /\ Passed \in SUBSET Nat /\ Passed \in SUBSET Entries
         /\ IsFiniteSet(Passed) /\ Cardinality(Passed) \in Nat
<1>1. log \in SUBSET Entries
  BY DEF ListIInv, ListTypeOK
<1> QED BY <1>1, PassedFinite DEF Passed

LEMMA RangeOfConcat ==
  ASSUME NEW S, NEW s \in Seq(S), NEW t \in Seq(S)
  PROVE  Range(s \o t) = Range(s) \cup Range(t)
<1> DEFINE u == s \o t
<1>1. /\ u \in Seq(S) /\ Len(u) = Len(s) + Len(t)
      /\ \A i \in 1..Len(s) + Len(t) : u[i] = IF i <= Len(s) THEN s[i] ELSE t[i - Len(s)]
  BY ConcatProperties
<1>2. /\ DOMAIN u = 1..Len(s) + Len(t) /\ DOMAIN s = 1..Len(s) /\ DOMAIN t = 1..Len(t)
      /\ Len(s) \in Nat /\ Len(t) \in Nat
  BY <1>1, LenProperties
<1> HIDE DEF u
<1>3. ASSUME NEW x \in Range(u) PROVE x \in Range(s) \cup Range(t)
  <2>1. PICK i \in 1..Len(s) + Len(t) : x = u[i]
    BY <1>2 DEF Range
  <2>2. CASE i <= Len(s)
    <3>1. i \in 1..Len(s) /\ x = s[i]
      BY <1>1, <1>2, <2>1, <2>2
    <3> QED BY <1>2, <3>1 DEF Range
  <2>3. CASE ~(i <= Len(s))
    <3>1. i - Len(s) \in 1..Len(t) /\ x = t[i - Len(s)]
      BY <1>1, <1>2, <2>1, <2>3
    <3> QED BY <1>2, <3>1 DEF Range
  <2> QED BY <2>2, <2>3
<1>4. ASSUME NEW x \in Range(s) PROVE x \in Range(u)
  <2>1. PICK i \in 1..Len(s) : x = s[i]
    BY <1>2 DEF Range
  <2>2. i \in 1..Len(s) + Len(t) /\ x = u[i]
    BY <1>1, <1>2, <2>1
  <2> QED BY <1>2, <2>2 DEF Range
<1>5. ASSUME NEW x \in Range(t) PROVE x \in Range(u)
  <2>1. PICK i \in 1..Len(t) : x = t[i]
    BY <1>2 DEF Range
  <2>2. i + Len(s) \in 1..Len(s) + Len(t) /\ ~(i + Len(s) <= Len(s)) /\ i + Len(s) - Len(s) = i
    BY <1>2, <2>1
  <2>3. x = u[i + Len(s)]
    BY <1>1, <2>1, <2>2
  <2> QED BY <1>2, <2>2, <2>3 DEF Range
<1>6. Range(u) = Range(s) \cup Range(t)
  BY <1>3, <1>4, <1>5
<1> QED BY <1>6 DEF u

\* What has not been shown yet lies at or beyond the offset.
LEMMA HiddenBeyondOffset ==
  ASSUME ListIInv, RowsKept, Promised, NEW e \in Passed, \A s \in Range(rows) : e < s
  PROVE  Rank(Passed, e) >= offset
<1>1. Passed \in SUBSET Nat /\ IsFiniteSet(Passed) /\ Passed \in SUBSET Entries
  BY PassedType
<1>2. rows \in Seq(Entries) /\ Len(rows) = offset /\ offset \in Nat
  BY DEF ListIInv, ListTypeOK, OffsetFits
<1>3. Rank(Passed, e) \in Nat
  BY <1>1, RankType
<1>4. CASE rows = << >>
  <2>1. offset = 0
    BY <1>2, <1>4, EmptySeq
  <2> QED BY <1>3, <2>1
<1>5. CASE rows # << >>
  <2> DEFINE last == rows[Len(rows)]
  <2>1. Len(rows) \in DOMAIN rows
    BY <1>2, <1>5, EmptySeq, LenProperties
  <2>2. last \in Range(rows)
    BY <2>1 DEF Range
  <2>3. last \in Passed /\ Rank(Passed, last) >= offset - 1
    BY <1>5, <2>2 DEF ListIInv, RowsFit
  <2>4. last \in Nat /\ e \in Nat /\ last > e
    BY <1>1, <2>2, <2>3
  <2>5. Rank(Passed, last) < Rank(Passed, e)
    BY <1>1, <2>3, <2>4, RankGrows
  <2>6. Rank(Passed, last) \in Nat
    BY <1>1, RankType
  <2> QED BY <1>2, <1>3, <2>3, <2>5, <2>6
<1> QED BY <1>4, <1>5

-----------------------------------------------------------------------------
(* A page is taken.                                                        *)

LEMMA PageType ==
  ASSUME ListIInv, NEW r \in live, TakePage(r)
  PROVE  /\ rows' \in Seq(Entries)
         /\ offset' \in Nat /\ offset' <= Cardinality(Entries)
         /\ hasMore' \in BOOLEAN /\ near' \in BOOLEAN
         /\ r.offset = offset
<1> DEFINE S == log \cap Matches(r.filter)
           w == Window(S, offset)
<1>1. r.offset = offset /\ offset \in Nat /\ offset <= Cardinality(Entries)
  BY DEF ListIInv, ListTypeOK, RequestFits, OffsetFits
<1>2. /\ S \in SUBSET Nat /\ IsFiniteSet(S) /\ S \in SUBSET Entries
      /\ Cardinality(S) \in Nat /\ Cardinality(S) <= Cardinality(Entries)
      /\ Cardinality(Entries) \in Nat
  <2>1. log \in SUBSET Entries
    BY DEF ListIInv, ListTypeOK
  <2> QED BY <2>1, PassedFinite
<1>3. PageSize \in Nat
  BY PagedAssumption
<1>4. /\ w \in Seq(S) /\ Len(w) \in Nat
      /\ offset <= Cardinality(S) => offset + Len(w) <= Cardinality(S)
      /\ offset >= Cardinality(S) => Len(w) = 0
  BY <1>1, <1>2, <1>3, WindowProperties
<1>5. PageOf(r) = [rows |-> w, more |-> Cardinality(S) > offset + PageSize]
  BY <1>1 DEF PageOf
<1> HIDE DEF S, w
<1>6. w \in Seq(Entries)
  BY <1>2, <1>4, SeqMonotonic
<1>7. rows \in Seq(Entries)
  BY DEF ListIInv, ListTypeOK
<1>8. rows \o w \in Seq(Entries)
  BY <1>6, <1>7, ConcatProperties
<1>9. rows' \in Seq(Entries)
  BY <1>5, <1>7, <1>8 DEF TakePage
<1>10. offset' = offset + Len(w)
  BY <1>5 DEF TakePage
<1>11. offset' \in Nat /\ offset' <= Cardinality(Entries)
  BY <1>1, <1>2, <1>4, <1>10
<1>12. hasMore' \in BOOLEAN /\ near' \in BOOLEAN
  BY <1>5 DEF TakePage, PushedDown
<1> QED BY <1>1, <1>9, <1>11, <1>12

\* The new rows are the entries from the offset on.
LEMMA PageRows ==
  ASSUME ListIInv, NEW r \in live, TakePage(r), RowsKept, Promised
  PROVE  LET w == Window(Passed, offset)
         IN  /\ w \in Seq(Entries) /\ Len(w) \in Nat
             /\ rows' = rows \o w /\ offset' = offset + Len(w)
             /\ Range(rows') = Range(rows) \cup Range(w)
             /\ \A n \in 1..Len(w) : w[n] \in Passed /\ Rank(Passed, w[n]) = offset + n - 1
             /\ \A e \in Passed : offset <= Rank(Passed, e) /\ Rank(Passed, e) < offset + PageSize
                                     => e \in Range(w)
             /\ ~hasMore' => Cardinality(Passed) <= offset + PageSize
<1> DEFINE S == log \cap Matches(r.filter)
           w == Window(Passed, offset)
<1>1. r.offset = offset /\ offset \in Nat /\ r.filter = box
  BY DEF ListIInv, ListTypeOK, RequestFits, OffsetFits, Promised
<1>2. /\ Passed \in SUBSET Nat /\ IsFiniteSet(Passed) /\ Passed \in SUBSET Entries
      /\ Cardinality(Passed) \in Nat
  BY PassedType
<1>3. PageSize \in Nat
  BY PagedAssumption
<1>4. /\ w \in Seq(Passed) /\ Len(w) \in Nat
      /\ \A n \in 1..Len(w) : w[n] \in Passed /\ Rank(Passed, w[n]) = offset + n - 1
      /\ \A e \in Passed : offset <= Rank(Passed, e) /\ Rank(Passed, e) < offset + PageSize
                                => \E n \in 1..Len(w) : w[n] = e
  BY <1>1, <1>2, <1>3, WindowProperties
<1>5. PageOf(r) = [rows |-> w, more |-> Cardinality(Passed) > offset + PageSize]
  BY <1>1 DEF PageOf, Passed
<1> HIDE DEF w
<1>6. w \in Seq(Entries)
  BY <1>2, <1>4, SeqMonotonic
<1>7. rows \in Seq(Entries)
  BY DEF ListIInv, ListTypeOK
<1>8. rows' = rows \o w /\ offset' = offset + Len(w)
  BY <1>5 DEF TakePage, RowsKept
<1>9. Range(rows') = Range(rows) \cup Range(w)
  BY <1>6, <1>7, <1>8, RangeOfConcat
<1>10. DOMAIN w = 1..Len(w)
  BY <1>6, LenProperties
<1>11. \A e \in Passed : offset <= Rank(Passed, e) /\ Rank(Passed, e) < offset + PageSize
                                     => e \in Range(w)
  BY <1>4, <1>10 DEF Range
<1>12. ~hasMore' => Cardinality(Passed) <= offset + PageSize
  <2> DEFINE beyond == Cardinality(Passed) > offset + PageSize
  <2>a. hasMore' = [rows |-> w, more |-> beyond].more
    BY <1>5, Zenon DEF TakePage
  <2> HIDE DEF beyond
  <2>b. hasMore' = beyond
    BY <2>a, Zenon
  <2>1. ~hasMore' => ~(Cardinality(Passed) > offset + PageSize)
    BY <2>b, Zenon DEF beyond
  <2> QED BY <1>1, <1>2, <1>3, <2>1
<1> QED BY <1>4, <1>6, <1>8, <1>9, <1>11, <1>12 DEF w

\* No entry is left out between the rows and the last one of the page.
LEMMA PageHasNoGap ==
  ASSUME ListIInv, NEW r \in live, TakePage(r), RowsKept, Promised,
         NEW e \in Passed, \A s \in Range(rows) : e < s
  PROVE  /\ \A last \in Range(rows') : last <= e => e \in Range(rows')
         /\ ~hasMore' => e \in Range(rows')
<1> DEFINE w == Window(Passed, offset)
<1>1. /\ w \in Seq(Entries) /\ Len(w) \in Nat
      /\ Range(rows') = Range(rows) \cup Range(w)
      /\ \A n \in 1..Len(w) : w[n] \in Passed /\ Rank(Passed, w[n]) = offset + n - 1
      /\ \A f \in Passed : offset <= Rank(Passed, f) /\ Rank(Passed, f) < offset + PageSize
                                => f \in Range(w)
      /\ ~hasMore' => Cardinality(Passed) <= offset + PageSize
  BY PageRows
<1>2. /\ Passed \in SUBSET Nat /\ IsFiniteSet(Passed) /\ Passed \in SUBSET Entries
      /\ Cardinality(Passed) \in Nat
  BY PassedType
<1>3. PageSize \in Nat /\ offset \in Nat
  BY PagedAssumption DEF ListIInv, ListTypeOK
<1>4. offset <= Rank(Passed, e) /\ Rank(Passed, e) \in Nat
  BY <1>2, <1>3, HiddenBeyondOffset, RankType
<1>5. Len(w) <= PageSize
  <2>1. Len(w) <= PageSize
    BY <1>3 DEF Window
  <2> QED BY <2>1
<1> HIDE DEF w
<1>6. DOMAIN w = 1..Len(w)
  BY <1>1, LenProperties
<1>7. ASSUME NEW last \in Range(rows'), last <= e PROVE e \in Range(rows')
  <2>1. last \notin Range(rows)
    <3>1. SUFFICES ASSUME last \in Range(rows) PROVE FALSE
      OBVIOUS
    <3>2. last \in Passed
      BY <3>1 DEF ListIInv, RowsFit
    <3> QED BY <1>2, <1>7, <3>1, <3>2
  <2>2. PICK n \in 1..Len(w) : last = w[n]
    BY <1>1, <1>6, <1>7, <2>1 DEF Range
  <2>3. last \in Passed /\ Rank(Passed, last) = offset + n - 1
    BY <1>1, <2>2
  <2>4. last = e \/ e > last
    BY <1>2, <1>7, <2>3
  <2>5. Rank(Passed, e) <= Rank(Passed, last)
    <3>1. CASE last = e
      BY <1>4, <3>1
    <3>2. CASE e > last
      <4>1. Rank(Passed, e) < Rank(Passed, last) /\ Rank(Passed, last) \in Nat
        BY <1>2, <2>3, <3>2, RankGrows, RankType
      <4> QED BY <1>4, <4>1
    <3> QED BY <2>4, <3>1, <3>2
  <2>6. Rank(Passed, e) < offset + PageSize
    BY <1>1, <1>3, <1>4, <1>5, <2>2, <2>3, <2>5
  <2> QED BY <1>1, <1>4, <2>6
<1>8. ASSUME ~hasMore' PROVE e \in Range(rows')
  <2>1. Rank(Passed, e) < Cardinality(Passed)
    BY <1>2, RankBelowSize
  <2>2. Rank(Passed, e) < offset + PageSize
    BY <1>1, <1>2, <1>3, <1>4, <1>8, <2>1
  <2> QED BY <1>1, <1>4, <2>2
<1> QED BY <1>7, <1>8


\* What holds of the rows once a page is taken.
LEMMA PageKeeps ==
  ASSUME ListIInv, NEW r \in live, TakePage(r),
         UNCHANGED <<list, open, box, debounce, logVars>>
  PROVE  /\ OffsetFits' /\ LogGrows' /\ RowsFit' /\ RowsLieAbove' /\ NothingSkipped'
         /\ RowsKept /\ Promised /\ ~hasMore' => base \cap Matches(box) \subseteq Range(rows')
<1>1. /\ rows' \in Seq(Entries) /\ offset' \in Nat /\ offset' <= Cardinality(Entries)
      /\ r.offset = offset
  BY PageType
<1>2. RowsKept' = RowsKept /\ Promised' = Promised /\ Passed' = Passed
  BY DEF RowsKept, Promised, Passed, logVars
<1>3. LogGrows'
  BY DEF ListIInv, LogGrows, logVars
<1>4. CASE ~RowsKept
  <2>1. rows' = rows /\ rows = << >>
    BY <1>4 DEF TakePage, RowsKept, ListIInv, OffsetFits
  <2>2. Range(rows') = {}
    BY <2>1 DEF Range
  <2>3. OffsetFits'
    BY <1>1, <1>2, <1>4, <2>1 DEF OffsetFits
  <2>4. IsInjective(rows')
    BY <2>1 DEF IsInjective
  <2>5. RowsFit' /\ RowsLieAbove' /\ NothingSkipped'
    BY <2>1, <2>2, <2>4 DEF RowsFit, RowsLieAbove, NothingSkipped
  <2> QED BY <1>3, <1>4, <2>3, <2>5
<1>5. CASE RowsKept /\ ~Promised
  <2>1. PageOf(r).rows \in Seq(Entries)
    <3>1. log \in SUBSET Entries /\ offset \in Nat /\ PageSize \in Nat
      BY PagedAssumption DEF ListIInv, ListTypeOK
    <3> DEFINE S == log \cap Matches(r.filter)
    <3>2. S \in SUBSET Nat /\ IsFiniteSet(S) /\ S \in SUBSET Entries
      BY <3>1, PassedFinite
    <3> HIDE DEF S
    <3>3. Window(S, offset) \in Seq(S)
      BY <3>1, <3>2, WindowProperties
    <3>4. Window(S, offset) \in Seq(Entries)
      BY <3>2, <3>3, SeqMonotonic
    <3> QED BY <1>1, <3>4 DEF PageOf, S
  <2>2. rows' = rows \o PageOf(r).rows /\ offset' = offset + Len(PageOf(r).rows)
    BY <1>5 DEF TakePage, RowsKept
  <2>3. rows \in Seq(Entries) /\ Len(rows) = offset
    BY <1>5 DEF ListIInv, ListTypeOK, OffsetFits
  <2>4. Len(rows') = offset'
    BY <2>1, <2>2, <2>3, ConcatProperties
  <2>5. OffsetFits'
    BY <1>1, <1>2, <1>5, <2>4 DEF OffsetFits
  <2>6. ~Promised'
    BY <1>2, <1>5
  <2>7. RowsFit' /\ RowsLieAbove' /\ NothingSkipped'
    BY <2>6 DEF RowsFit, RowsLieAbove, NothingSkipped, Promised
  <2> QED BY <1>3, <1>5, <2>5, <2>7
<1>6. CASE RowsKept /\ Promised
  <2> DEFINE w == Window(Passed, offset)
  <2>1. /\ w \in Seq(Entries) /\ Len(w) \in Nat
        /\ rows' = rows \o w /\ offset' = offset + Len(w)
        /\ Range(rows') = Range(rows) \cup Range(w)
        /\ \A n \in 1..Len(w) : w[n] \in Passed /\ Rank(Passed, w[n]) = offset + n - 1
    BY <1>6, PageRows
  <2> HIDE DEF w
  <2>2. Passed \in SUBSET Nat /\ Passed \in SUBSET Entries /\ IsFiniteSet(Passed)
    BY PassedType
  <2>3. rows \in Seq(Entries) /\ Len(rows) = offset /\ offset \in Nat
    BY <1>6 DEF ListIInv, ListTypeOK, OffsetFits
  <2>4. /\ Len(rows') = offset'
        /\ \A i \in 1..offset' : rows'[i] = IF i <= offset THEN rows[i] ELSE w[i - offset]
    BY <2>1, <2>3, ConcatProperties
  <2>5. DOMAIN w = 1..Len(w) /\ DOMAIN rows = 1..offset /\ DOMAIN rows' = 1..offset'
    BY <1>1, <2>1, <2>3, <2>4, LenProperties
  <2>6. ASSUME NEW i \in 1..offset', ~(i <= offset)
        PROVE  rows'[i] \in Passed /\ Rank(Passed, rows'[i]) = i - 1
    <3>1. i - offset \in 1..Len(w) /\ rows'[i] = w[i - offset]
      BY <2>1, <2>3, <2>4, <2>6
    <3>2. rows'[i] \in Passed /\ Rank(Passed, rows'[i]) = offset + (i - offset) - 1
      BY <2>1, <3>1
    <3> QED BY <2>3, <3>2
  <2>7. Range(rows) \subseteq Passed
    BY <1>6 DEF ListIInv, RowsFit
  <2>8. Range(w) \subseteq Passed
    BY <2>1, <2>5 DEF Range
  <2>9. OffsetFits'
    BY <1>1, <1>2, <1>6, <2>4 DEF OffsetFits
  <2>10. RowsFit'
    <3>1. ASSUME rows' # << >>
          PROVE  Rank(Passed, rows'[Len(rows')]) >= offset' - 1
      <4>1. offset' \in Nat \ {0}
        BY <1>1, <2>4, <3>1, EmptySeq
      <4>2. CASE Len(w) = 0
        <5>1. offset' = offset /\ rows'[offset'] = rows[offset] /\ rows # << >>
          BY <2>1, <2>3, <2>4, <4>1, <4>2, EmptySeq
        <5>2. Rank(Passed, rows[Len(rows)]) >= offset - 1
          BY <1>6, <5>1 DEF ListIInv, RowsFit
        <5>3. rows'[Len(rows')] = rows[Len(rows)]
          BY <2>3, <2>4, <5>1
        <5>4. Rank(Passed, rows'[Len(rows')]) = Rank(Passed, rows[Len(rows)])
          BY <5>3
        <5> QED BY <5>1, <5>2, <5>4
      <4>3. CASE Len(w) # 0
        <5>1. offset' \in 1..offset' /\ ~(offset' <= offset)
          BY <2>1, <2>3, <4>1, <4>3
        <5>2. Rank(Passed, rows'[offset']) = offset' - 1
          BY <2>6, <5>1
        <5>3. Rank(Passed, rows'[Len(rows')]) = offset' - 1 /\ offset' - 1 \in Int
          BY <2>4, <4>1, <5>2
        <5> QED BY <5>3
      <4> QED BY <4>2, <4>3
    <3>2. Range(rows') \subseteq Passed
      BY <2>1, <2>7, <2>8
    <3> QED BY <1>2, <3>1, <3>2 DEF RowsFit
  <2>11. RowsLieAbove'
    <3>1. SUFFICES ASSUME log = base
          PROVE  /\ \A s \in Range(rows') : Rank(Passed, s) < offset'
                 /\ IsInjective(rows')
      BY <1>2 DEF RowsLieAbove, logVars
    <3>2. (\A s \in Range(rows) : Rank(Passed, s) < offset) /\ IsInjective(rows)
      BY <1>6, <3>1 DEF ListIInv, RowsLieAbove
    <3>3. ASSUME NEW i \in 1..offset', i <= offset
          PROVE  rows'[i] = rows[i] /\ i \in 1..offset /\ Rank(Passed, rows'[i]) < offset
      <4>1. rows'[i] = rows[i] /\ i \in 1..offset
        BY <2>3, <2>4, <3>3
      <4>2. rows[i] \in Range(rows)
        BY <2>5, <4>1 DEF Range
      <4> QED BY <3>2, <4>1, <4>2
    <3>4. ASSUME NEW i \in 1..offset'
          PROVE  Rank(Passed, rows'[i]) < offset'
      <4>1. CASE i <= offset
        <5>1. Rank(Passed, rows'[i]) < offset /\ Rank(Passed, rows'[i]) \in Nat
          BY <2>2, <3>3, <4>1, RankType
        <5> QED BY <1>1, <2>1, <2>3, <5>1
      <4>2. CASE ~(i <= offset)
        BY <1>1, <2>6, <4>2
      <4> QED BY <4>1, <4>2
    <3>5. ASSUME NEW i \in 1..offset', NEW j \in 1..offset', rows'[i] = rows'[j]
          PROVE  i = j
      <4>1. Rank(Passed, rows'[i]) = Rank(Passed, rows'[j])
        BY <3>5
      <4>2. CASE i <= offset /\ j <= offset
        <5>1. i \in DOMAIN rows /\ j \in DOMAIN rows /\ rows[i] = rows[j]
          BY <2>5, <3>3, <3>5, <4>2
        <5> QED BY <3>2, <5>1 DEF IsInjective
      <4>3. CASE i <= offset /\ ~(j <= offset)
        BY <1>1, <2>3, <2>6, <3>3, <4>1, <4>3
      <4>4. CASE ~(i <= offset) /\ j <= offset
        BY <1>1, <2>3, <2>6, <3>3, <4>1, <4>4
      <4>5. CASE ~(i <= offset) /\ ~(j <= offset)
        BY <2>6, <4>1, <4>5
      <4> QED BY <4>2, <4>3, <4>4, <4>5
    <3> QED BY <2>5, <3>4, <3>5 DEF IsInjective, Range
  <2>12. ASSUME NEW e \in base \cap Matches(box)
         PROVE  e \in Passed /\ e \in Nat
    BY <1>6, <2>2 DEF ListIInv, LogGrows, Promised, Passed
  <2>13. NothingSkipped'
    <3>1. Range(rows') \subseteq Matches(box)
      BY <2>1, <2>7, <2>8 DEF Passed
    <3>2. ASSUME NEW e \in base \cap Matches(box), NEW s \in Range(rows'), s <= e
          PROVE  e \in Range(rows')
      <4>1. e \in Passed
        BY <2>12
      <4>2. CASE \A t \in Range(rows) : e < t
        BY <1>6, <3>2, <4>1, <4>2, PageHasNoGap
      <4>3. CASE \E t \in Range(rows) : ~(e < t)
        <5>1. PICK t \in Range(rows) : ~(e < t)
          BY <4>3
        <5>2. t <= e
          <6>1. t \in Nat /\ e \in Nat
            BY <2>2, <2>7, <2>12
          <6> QED BY <5>1, <6>1
        <5>3. e \in Range(rows)
          BY <1>6, <5>2 DEF ListIInv, NothingSkipped, Promised
        <5> QED BY <2>1, <5>3
      <4> QED BY <4>2, <4>3
    <3> QED BY <3>1, <3>2 DEF NothingSkipped, logVars
  <2>14. ASSUME ~hasMore', NEW e \in base \cap Matches(box)
         PROVE  e \in Range(rows')
    <3>1. e \in Passed
      BY <2>12
    <3>2. CASE \A t \in Range(rows) : e < t
      BY <1>6, <2>14, <3>1, <3>2, PageHasNoGap
    <3>3. CASE \E t \in Range(rows) : ~(e < t)
      <4>1. PICK t \in Range(rows) : ~(e < t)
        BY <3>3
      <4>2. t <= e
        <5>1. t \in Nat /\ e \in Nat
          BY <2>2, <2>7, <2>12
        <5> QED BY <4>1, <5>1
      <4>3. e \in Range(rows)
        BY <1>6, <4>2 DEF ListIInv, NothingSkipped, Promised
      <4> QED BY <2>1, <4>3
    <3> QED BY <3>2, <3>3
  <2> QED BY <1>3, <2>9, <2>10, <2>11, <2>13, <2>14
<1> QED BY <1>4, <1>5, <1>6


-----------------------------------------------------------------------------
(* One lemma per kind of step.                                             *)

\* Only what is under way is replaced.
LEMMA OneRequest ==
  ASSUME NEW req \in Requests
  PROVE  {req} \in SUBSET Requests /\ Cardinality({req}) <= 1 /\ {req} # {}
<1>1. Cardinality({req}) = 1
  BY FS_Singleton
<1> QED BY <1>1

LEMMA NoRequest == {} \in SUBSET Requests /\ Cardinality({}) <= 1
BY FS_EmptySet

LEMMA NoRows ==
  /\ << >> \in Seq(Entries) /\ Len(<< >>) = 0
  /\ Range(<< >>) = {} /\ IsInjective(<< >>)
<1>1. << >> \in Seq(Entries) /\ Len(<< >>) = 0
  BY EmptySeq
<1>2. Range(<< >>) = {} /\ IsInjective(<< >>)
  BY DEF Range, IsInjective
<1> QED BY <1>1, <1>2

LEMMA ListInitInvariant == ListInit => ListIInv
<1> SUFFICES ASSUME ListInit PROVE ListIInv
  OBVIOUS
<1>1. Cardinality(Entries) \in Nat
  BY PagedAssumption, FS_CardinalityType
<1>0. rows = << >> /\ offset = 0 /\ live = {}
  BY DEF ListInit
<1>2. ListTypeOK
  <2>1. << >> \in Seq(Entries)
    BY NoRows
  <2>2. offset \in 0..2 * Cardinality(Entries)
    BY <1>0, <1>1
  <2> QED BY <2>1, <2>2, NoRequest, PagedAssumption DEF ListInit, ListTypeOK, Notices
<1>3. Range(rows) = {} /\ IsInjective(rows) /\ Len(rows) = 0
  BY <1>0, NoRows
<1>4. RequestFits /\ OffsetFits /\ LogGrows
  <2>1. base = log
    BY DEF ListInit
  <2>2. offset <= Cardinality(Entries) /\ Len(rows) = offset
    BY <1>0, <1>1, <1>3
  <2>3. RequestFits
    BY <1>0 DEF RequestFits
  <2>4. OffsetFits
    BY <1>0, <2>2 DEF OffsetFits
  <2> QED BY <2>1, <2>3, <2>4 DEF LogGrows
<1>6. StatusFits /\ PagesFollow
  BY DEF ListInit, StatusFits, PagesFollow
<1>5. RowsFit /\ RowsLieAbove /\ NothingSkipped
  BY <1>3 DEF ListInit, RowsFit, RowsLieAbove, NothingSkipped
<1> QED BY <1>2, <1>4, <1>5, <1>6 DEF ListIInv

LEMMA RestartStep ==
  ASSUME ListIInv, NEW text \in Filters, Restart(text), box' = text,
         UNCHANGED <<list, log>>, open' \in BOOLEAN, debounce' \in BOOLEAN
  PROVE  ListIInv' /\ Excerpt!Restart
<1>1. Cardinality(Entries) \in Nat
  BY PagedAssumption, FS_CardinalityType
<1>2. Range(rows') = {} /\ IsInjective(rows') /\ Len(rows') = 0 /\ rows' = << >>
  BY DEF Restart, Range, IsInjective
<1>3. [offset |-> 0, filter |-> text] \in Requests
  BY <1>1 DEF Requests
<1>4. live' = {[offset |-> 0, filter |-> text]} /\ loading' = TRUE
  BY DEF Restart, Request
<1>5. live' \in SUBSET Requests /\ Cardinality(live') <= 1 /\ live' # {}
  BY <1>3, <1>4, OneRequest
<1>6. ListTypeOK'
  <2>1. rows' \in Seq(Entries) /\ offset' \in 0..2 * Cardinality(Entries)
    BY <1>1, <1>2, EmptySeq DEF Restart
  <2>2. late' \subseteq Requests /\ notice' \in Notices
    BY DEF ListIInv, ListTypeOK, Restart, Supersede, Request, Notices
  <2>3. {shrunk', open', debounce', hasMore', loading', near'} \subseteq BOOLEAN
    BY <1>4 DEF Restart
  <2> QED BY <1>4, <1>5, <2>1, <2>2, <2>3 DEF ListIInv, ListTypeOK, Restart
<1>7. RequestFits' /\ OffsetFits' /\ LogGrows' /\ StatusFits' /\ PagesFollow'
  BY <1>1, <1>2, <1>4 DEF Restart, Request, RequestFits, OffsetFits, LogGrows, StatusFits, PagesFollow
<1>8. RowsFit' /\ RowsLieAbove' /\ NothingSkipped'
  BY <1>2 DEF RowsFit, RowsLieAbove, NothingSkipped
<1>9. Excerpt!Restart
  BY <1>2 DEF Excerpt!Restart
<1> QED BY <1>6, <1>7, <1>8, <1>9 DEF ListIInv

LEMMA AddEntryStep ==
  ASSUME ListIInv, NEW e \in Entries, AddEntry(e)
  PROVE  ListIInv' /\ Excerpt!LogChanges
<1> USE DEF AddEntry, pager
<1>1. ListTypeOK'
  BY DEF ListIInv, ListTypeOK
<1>2. RequestFits' /\ OffsetFits' /\ StatusFits' /\ PagesFollow' /\ NothingSkipped'
  BY DEF ListIInv, RequestFits, OffsetFits, StatusFits, PagesFollow, NothingSkipped, RowsKept, Promised
<1>3. LogGrows'
  BY DEF ListIInv, LogGrows
<1>4. RowsLieAbove'
  <2>1. ~Promised' \/ log' # base'
    BY DEF ListIInv, LogGrows, Promised
  <2> QED BY <2>1 DEF RowsLieAbove
<1>5. RowsFit'
  <2>1. SUFFICES ASSUME Promised
        PROVE  /\ Range(rows) \subseteq Passed'
               /\ rows # << >> => Rank(Passed', rows[Len(rows)]) >= offset - 1
    BY DEF RowsFit, Promised
  <2>2. Passed \in SUBSET Passed'
    BY DEF Passed
  <2>3. Range(rows) \subseteq Passed
    BY <2>1 DEF ListIInv, RowsFit
  <2>4. ASSUME rows # << >>
        PROVE  Rank(Passed', rows[Len(rows)]) >= offset - 1
    <3>1. log' \in SUBSET Entries
      BY DEF ListIInv, ListTypeOK
    <3>2. IsFiniteSet(log' \cap Matches(box))
      BY <3>1, PassedFinite
    <3>3. IsFiniteSet(Passed') /\ IsFiniteSet(Passed)
      BY <3>2, PassedType DEF Passed
    <3>4. Rank(Passed, rows[Len(rows)]) <= Rank(Passed', rows[Len(rows)])
      BY <2>2, <3>3, RankMonotone
    <3>5. Rank(Passed, rows[Len(rows)]) >= offset - 1
      BY <2>1, <2>4 DEF ListIInv, RowsFit
    <3>6. Rank(Passed, rows[Len(rows)]) \in Nat /\ Rank(Passed', rows[Len(rows)]) \in Nat
      BY <3>3, RankType
    <3>7. offset \in Nat
      BY DEF ListIInv, ListTypeOK
    <3> QED BY <3>4, <3>5, <3>6, <3>7
  <2> QED BY <2>2, <2>3, <2>4
<1>6. Excerpt!LogChanges
  BY DEF Excerpt!LogChanges, ListIInv, ListTypeOK
<1> QED BY <1>1, <1>2, <1>3, <1>4, <1>5, <1>6 DEF ListIInv

LEMMA RemoveUserStep ==
  ASSUME ListIInv, NEW e \in Entries, RemoveUser(e)
  PROVE  ListIInv' /\ Excerpt!LogChanges
<1> USE DEF RemoveUser, pager
<1>1. ListTypeOK'
  BY DEF ListIInv, ListTypeOK
<1>2. /\ RequestFits' /\ OffsetFits' /\ StatusFits' /\ PagesFollow' /\ NothingSkipped'
      /\ LogGrows' /\ RowsLieAbove' /\ RowsFit'
  BY DEF ListIInv, RequestFits, OffsetFits, StatusFits, PagesFollow, NothingSkipped,
         RowsKept, Promised, LogGrows, RowsLieAbove, RowsFit
<1>3. Excerpt!LogChanges
  BY DEF Excerpt!LogChanges, ListIInv, ListTypeOK
<1> QED BY <1>1, <1>2, <1>3 DEF ListIInv

LEMMA CloseStep ==
  ASSUME ListIInv, CloseChangesModal
  PROVE  ListIInv'
<1> USE DEF CloseChangesModal, logVars, pager
<1>1. ListTypeOK'
  BY DEF ListIInv, ListTypeOK
<1>2. RowsKept' /\ RowsKept /\ Promised' = Promised /\ Passed' = Passed
  BY DEF RowsKept, Promised, Passed
<1>3. RequestFits' /\ OffsetFits' /\ LogGrows' /\ StatusFits' /\ PagesFollow' /\ NothingSkipped'
  BY <1>2 DEF ListIInv, RequestFits, OffsetFits, LogGrows, StatusFits, PagesFollow, NothingSkipped
<1>4. RowsLieAbove' /\ RowsFit'
  BY <1>2 DEF ListIInv, RowsLieAbove, RowsFit
<1> QED BY <1>1, <1>3, <1>4 DEF ListIInv

LEMMA LeaveTabStep ==
  ASSUME ListIInv, LeaveTab
  PROVE  ListIInv' /\ Excerpt!Restart
<1> USE DEF LeaveTab, logVars
<1>0. rows' = << >>
  OBVIOUS
<1>1. Range(rows') = {} /\ IsInjective(rows') /\ rows' = << >> /\ rows' \in Seq(Entries)
  BY <1>0, NoRows
<1>2. ListTypeOK'
  BY <1>1, PagedAssumption DEF ListIInv, ListTypeOK, Notices
<1>3. ~RowsKept' /\ ~open'
  BY DEF RowsKept, ListIInv, ListTypeOK, Lists
<1>4. RequestFits' /\ OffsetFits' /\ LogGrows' /\ StatusFits' /\ PagesFollow'
  BY <1>1, <1>3 DEF ListIInv, RequestFits, OffsetFits, LogGrows, StatusFits, PagesFollow
<1>5. RowsFit' /\ RowsLieAbove' /\ NothingSkipped'
  BY <1>1 DEF RowsFit, RowsLieAbove, NothingSkipped
<1>6. Excerpt!Restart
  BY <1>1, PagedAssumption DEF Excerpt!Restart
<1> QED BY <1>2, <1>4, <1>5, <1>6 DEF ListIInv

LEMMA TypeStep ==
  ASSUME ListIInv, NEW text \in Filters, Type(text)
  PROVE  ListIInv' /\ Excerpt!Restart
<1> USE DEF Type, logVars, pager
<1>1. ListTypeOK'
  BY DEF ListIInv, ListTypeOK
<1>2. ~Promised' /\ RowsKept' = RowsKept
  BY DEF Promised, RowsKept
<1>3. RequestFits' /\ OffsetFits' /\ LogGrows' /\ StatusFits' /\ PagesFollow'
  BY <1>2 DEF ListIInv, RequestFits, OffsetFits, LogGrows, StatusFits, PagesFollow
<1>4. RowsFit' /\ RowsLieAbove' /\ NothingSkipped'
  BY <1>2 DEF RowsFit, RowsLieAbove, NothingSkipped, Promised
<1>5. Excerpt!Restart
  BY DEF Excerpt!Restart
<1> QED BY <1>1, <1>3, <1>4, <1>5 DEF ListIInv

LEMMA ScrollStep ==
  ASSUME ListIInv, NEW toEnd \in BOOLEAN, Scroll(toEnd)
  PROVE  ListIInv'
<1> USE DEF Scroll, logVars
<1>1. RowsKept' = RowsKept /\ Promised' = Promised /\ Passed' = Passed
  BY DEF RowsKept, Promised, Passed
<1>2. RowsLieAbove' /\ RowsFit' /\ NothingSkipped' /\ OffsetFits' /\ LogGrows'
  BY <1>1 DEF ListIInv, RowsLieAbove, RowsFit, NothingSkipped, OffsetFits, LogGrows
<1>3. CASE UNCHANGED <<loading, live, notice>>
  <2>1. ListTypeOK'
    BY <1>3 DEF ListIInv, ListTypeOK
  <2>2. RequestFits' /\ StatusFits'
    BY <1>1, <1>3 DEF ListIInv, RequestFits, StatusFits
  <2>3. PagesFollow'
    <3>1. SUFFICES ASSUME list # "changes", open, near', hasMore, notice # "failed"
          PROVE  loading' \/ debounce
      BY <1>3 DEF PagesFollow
    <3>2. CASE near
      BY <1>3, <3>1, <3>2 DEF ListIInv, PagesFollow
    <3>3. CASE ~near
      BY <1>3, <3>1, <3>3 DEF LoadNext, Request, ListIInv, ListTypeOK
    <3> QED BY <3>2, <3>3
  <2> QED BY <1>2, <2>1, <2>2, <2>3 DEF ListIInv
<1>4. CASE Request(offset, box)
  <2>1. [offset |-> offset, filter |-> box] \in Requests
    BY DEF Requests, ListIInv, ListTypeOK
  <2>2. live' = {[offset |-> offset, filter |-> box]} /\ loading' = TRUE
    BY <1>4 DEF Request
  <2>3. live' \in SUBSET Requests /\ Cardinality(live') <= 1 /\ live' # {}
    BY <2>1, <2>2, OneRequest
  <2>4. ListTypeOK'
    BY <1>4, <2>2, <2>3 DEF ListIInv, ListTypeOK, Request, Notices
  <2>5. RequestFits' /\ StatusFits' /\ PagesFollow'
    BY <1>4, <2>2 DEF RequestFits, StatusFits, PagesFollow, Request
  <2> QED BY <1>2, <2>4, <2>5 DEF ListIInv
<1> QED BY <1>3, <1>4 DEF LoadNext

LEMMA FailStep ==
  ASSUME ListIInv, Failures
  PROVE  ListIInv'
<1> USE DEF Failures, ChangesFail, AuditFail, AllUsersFail, logVars
<1>1. live' = {} /\ loading' = FALSE /\ live # {}
  OBVIOUS
<1>2. ListTypeOK'
  BY <1>1, NoRequest DEF ListIInv, ListTypeOK, Notices
<1>3. RowsKept' = RowsKept /\ Promised' = Promised /\ Passed' = Passed
  BY DEF RowsKept, Promised, Passed
<1>4. RequestFits' /\ OffsetFits' /\ LogGrows' /\ NothingSkipped'
  BY <1>1, <1>3 DEF ListIInv, RequestFits, OffsetFits, LogGrows, NothingSkipped
<1>5. RowsLieAbove' /\ RowsFit'
  BY <1>3 DEF ListIInv, RowsLieAbove, RowsFit
<1>6. loading /\ list \in Lists
  BY <1>1 DEF ListIInv, ListTypeOK
<1>7. StatusFits'
  BY <1>1, <1>6 DEF ListIInv, StatusFits, RowsKept
<1>8. PagesFollow'
  BY <1>1, <1>6 DEF PagesFollow, Lists
<1> QED BY <1>2, <1>4, <1>5, <1>7, <1>8 DEF ListIInv

LEMMA LateStep ==
  ASSUME ListIInv, NEW r \in late, LateAnswer(r)
  PROVE  ListIInv'
<1> USE DEF LateAnswer, logVars
<1>1. ListTypeOK'
  BY DEF ListIInv, ListTypeOK
<1>2. RowsKept' = RowsKept /\ Promised' = Promised /\ Passed' = Passed
  BY DEF RowsKept, Promised, Passed
<1>3. RequestFits' /\ OffsetFits' /\ LogGrows' /\ NothingSkipped' /\ StatusFits' /\ PagesFollow'
  BY <1>2 DEF ListIInv, RequestFits, OffsetFits, LogGrows, NothingSkipped, StatusFits, PagesFollow
<1>4. RowsLieAbove' /\ RowsFit'
  BY <1>2 DEF ListIInv, RowsLieAbove, RowsFit
<1> QED BY <1>1, <1>3, <1>4 DEF ListIInv

LEMMA AnswerStep ==
  ASSUME ListIInv, PageAnswers
  PROVE  ListIInv'
<1>1. PICK r \in live : TakePage(r)
  BY DEF PageAnswers, ChangesAnswer, AuditAnswer, AllUsersAnswer, PageAnswer
<1>2. UNCHANGED <<list, open, box, debounce, late, logVars>>
  BY DEF PageAnswers, ChangesAnswer, AuditAnswer, AllUsersAnswer, PageAnswer
<1>3. /\ rows' \in Seq(Entries) /\ offset' \in Nat /\ offset' <= Cardinality(Entries)
      /\ hasMore' \in BOOLEAN /\ near' \in BOOLEAN
  BY <1>1, PageType
<1>4. /\ OffsetFits' /\ LogGrows' /\ RowsFit' /\ RowsLieAbove' /\ NothingSkipped'
      /\ RowsKept /\ Promised /\ ~hasMore' => base \cap Matches(box) \subseteq Range(rows')
  BY <1>1, <1>2, PageKeeps
<1>5. \/ loading' = FALSE /\ live' = {}
      \/ /\ loading' = TRUE /\ live' = {[offset |-> offset', filter |-> box]}
         /\ list # "changes" /\ hasMore'
  BY <1>3 DEF PageAnswers, ChangesAnswer, AuditAnswer, AllUsersAnswer, PageAnswer
<1>6. Cardinality(Entries) \in Nat
  BY PagedAssumption, FS_CardinalityType
<1>7. offset' \in 0..2 * Cardinality(Entries)
  BY <1>3, <1>6
<1>8. /\ live' \in SUBSET Requests /\ Cardinality(live') <= 1
      /\ loading' <=> live' # {}
      /\ loading' \in BOOLEAN
  <2>1. CASE loading' = FALSE /\ live' = {}
    BY <2>1, NoRequest
  <2>2. CASE loading' = TRUE /\ live' = {[offset |-> offset', filter |-> box]}
    <3>1. [offset |-> offset', filter |-> box] \in Requests
      BY <1>7 DEF Requests, ListIInv, ListTypeOK
    <3> QED BY <2>2, <3>1, OneRequest
  <2> QED BY <1>5, <2>1, <2>2
<1>9. notice' \in Notices
  BY DEF PageAnswers, ChangesAnswer, AuditAnswer, AllUsersAnswer, PageAnswer, StatusLine,
         UpdateAuditStatus, UpdateAllUsersStatus, Notices, ListIInv, ListTypeOK
<1>10. ListTypeOK'
  BY <1>2, <1>3, <1>7, <1>8, <1>9 DEF ListIInv, ListTypeOK, logVars
<1>11. RequestFits'
  BY <1>2, <1>5 DEF RequestFits
<1>12. RowsKept' = RowsKept /\ Promised' = Promised
  BY <1>2 DEF RowsKept, Promised, logVars
<1>13. StatusFits'
  <2>1. list = "changes" => ~loading'
    BY <1>5
  <2>2. RowsKept /\ notice' = "end" => ~hasMore'
    BY DEF PageAnswers, ChangesAnswer, AuditAnswer, AllUsersAnswer, PageAnswer, StatusLine,
           UpdateAuditStatus, UpdateAllUsersStatus, RowsKept
  <2> QED BY <1>2, <1>4, <1>12, <2>1, <2>2 DEF StatusFits, logVars
<1>14. PagesFollow'
  BY <1>2 DEF PageAnswers, ChangesAnswer, AuditAnswer, AllUsersAnswer, PageAnswer, PagesFollow
<1> QED BY <1>4, <1>10, <1>11, <1>13, <1>14 DEF ListIInv


-----------------------------------------------------------------------------
(* Every step keeps the invariant and the promise of LogExcerpt.           *)

\* A page extends the excerpt: Excerpt!Extend, or nothing new is promised.
LEMMA AnswerExtends ==
  ASSUME ListIInv, PageAnswers
  PROVE  Excerpt!Extend \/ UNCHANGED Excerpt!vars
<1>1. PICK r \in live : TakePage(r)
  BY DEF PageAnswers, ChangesAnswer, AuditAnswer, AllUsersAnswer, PageAnswer
<1>2. UNCHANGED <<list, open, box, debounce, late, logVars>>
  BY DEF PageAnswers, ChangesAnswer, AuditAnswer, AllUsersAnswer, PageAnswer
<1>3. log' = log /\ box' = box /\ Promised' = Promised
  BY <1>2 DEF logVars, Promised
<1>4. CASE ~Promised
  BY <1>3, <1>4 DEF Excerpt!vars, Promised
<1>5. CASE ~RowsKept
  <2>1. rows' = rows
    BY <1>1, <1>5 DEF TakePage, RowsKept
  <2> QED BY <1>2, <1>3, <2>1 DEF Excerpt!vars, logVars
<1>6. CASE RowsKept /\ Promised
  <2>1. /\ Range(rows') = Range(rows) \cup Range(Window(Passed, offset))
        /\ Window(Passed, offset) \in Seq(Entries)
        /\ \A n \in 1..Len(Window(Passed, offset)) : Window(Passed, offset)[n] \in Passed
    BY <1>1, <1>6, PageRows
  <2>2. DOMAIN Window(Passed, offset) = 1..Len(Window(Passed, offset))
    BY <2>1, LenProperties
  <2>3. Range(Window(Passed, offset)) \subseteq Passed
    BY <2>1, <2>2 DEF Range
  <2>4. ASSUME NEW e \in Passed, NEW last \in Range(rows'),
               last <= e, \A s \in Range(rows) : e < s
        PROVE  e \in Range(rows')
    BY <1>1, <1>6, <2>4, PageHasNoGap
  <2>5. ~debounce /\ ~shrunk /\ ~debounce' /\ ~shrunk'
    BY <1>3, <1>6 DEF Promised
  <2>6. /\ Range(rows') \subseteq Range(rows) \cup (log \cap Matches(box))
        /\ Range(rows) \subseteq Range(rows')
        /\ \A e \in log \cap Matches(box), last \in Range(rows') :
              last <= e /\ (\A s \in Range(rows) : e < s) => e \in Range(rows')
    BY <2>1, <2>3, <2>4 DEF Passed
  <2> QED BY <1>3, <2>5, <2>6 DEF Excerpt!Extend
<1> QED BY <1>4, <1>5, <1>6

LEMMA ListStep ==
  ASSUME ListIInv, ListNext
  PROVE  ListIInv' /\ [Excerpt!Next]_(Excerpt!vars)
<1> USE DEF Excerpt!Next
<1>1. ASSUME NEW e \in Entries, AddEntry(e)
      PROVE  ListIInv' /\ [Excerpt!Next]_(Excerpt!vars)
  BY <1>1, AddEntryStep
<1>2. ASSUME NEW e \in Entries, RemoveUser(e)
      PROVE  ListIInv' /\ [Excerpt!Next]_(Excerpt!vars)
  BY <1>2, RemoveUserStep
<1>3. CASE OpenChangesModal \/ InitAuditLog \/ InitAllUsers
  <2>1. /\ Restart(NoFilter) /\ box' = NoFilter /\ NoFilter \in Filters
        /\ UNCHANGED <<list, log>> /\ open' \in BOOLEAN /\ debounce' \in BOOLEAN
    BY <1>3, PagedAssumption
       DEF OpenChangesModal, InitAuditLog, InitAllUsers, ListIInv, ListTypeOK
  <2> QED BY <2>1, RestartStep
<1>4. CASE CloseChangesModal
  <2>1. UNCHANGED Excerpt!vars
    BY <1>4 DEF CloseChangesModal, Excerpt!vars, logVars, pager
  <2> QED BY <1>4, <2>1, CloseStep
<1>5. CASE LeaveTab
  BY <1>5, LeaveTabStep
<1>6. ASSUME NEW text \in Filters, Type(text)
      PROVE  ListIInv' /\ [Excerpt!Next]_(Excerpt!vars)
  BY <1>6, TypeStep
<1>7. CASE Timeouts
  <2>1. /\ Restart(box) /\ box' = box /\ box \in Filters
        /\ UNCHANGED <<list, log>> /\ open' \in BOOLEAN /\ debounce' \in BOOLEAN
    BY <1>7 DEF Timeouts, FilterChanges, AuditFilterChanged, AllUsersFilterChanged,
                ListIInv, ListTypeOK
  <2> QED BY <2>1, RestartStep
<1>8. ASSUME NEW toEnd \in BOOLEAN, Scroll(toEnd)
      PROVE  ListIInv' /\ [Excerpt!Next]_(Excerpt!vars)
  <2>1. UNCHANGED Excerpt!vars
    BY <1>8 DEF Scroll, Excerpt!vars, logVars
  <2> QED BY <1>8, <2>1, ScrollStep
<1>9. CASE PageAnswers
  BY <1>9, AnswerStep, AnswerExtends
<1>10. CASE Failures
  <2>1. UNCHANGED Excerpt!vars
    BY <1>10 DEF Failures, ChangesFail, AuditFail, AllUsersFail, Excerpt!vars, logVars
  <2> QED BY <1>10, <2>1, FailStep
<1>11. ASSUME NEW r \in late, LateAnswer(r)
       PROVE  ListIInv' /\ [Excerpt!Next]_(Excerpt!vars)
  <2>1. UNCHANGED Excerpt!vars
    BY <1>11 DEF LateAnswer, Excerpt!vars, logVars
  <2> QED BY <1>11, <2>1, LateStep
<1> QED BY <1>1, <1>2, <1>3, <1>4, <1>5, <1>6, <1>7, <1>8, <1>9, <1>10, <1>11 DEF ListNext

LEMMA ListStutter ==
  ASSUME ListIInv, UNCHANGED listVars
  PROVE  ListIInv' /\ UNCHANGED Excerpt!vars
<1> USE DEF listVars
<1>1. ListTypeOK'
  BY DEF ListIInv, ListTypeOK
<1>2. RowsKept' = RowsKept /\ Promised' = Promised /\ Passed' = Passed
  BY DEF RowsKept, Promised, Passed
<1>3. RequestFits' /\ OffsetFits' /\ LogGrows' /\ NothingSkipped' /\ StatusFits' /\ PagesFollow'
  BY <1>2 DEF ListIInv, RequestFits, OffsetFits, LogGrows, NothingSkipped, StatusFits, PagesFollow
<1>4. RowsLieAbove' /\ RowsFit'
  BY <1>2 DEF ListIInv, RowsLieAbove, RowsFit
<1>5. UNCHANGED Excerpt!vars
  BY DEF Excerpt!vars
<1> QED BY <1>1, <1>3, <1>4, <1>5 DEF ListIInv

-----------------------------------------------------------------------------
(* The theorems.                                                           *)

\* The inductive invariant of the list, the server's log and the requests
\* under way, for any log, filters and page size.
THEOREM ListInvariance == ListSpec => []ListIInv
<1>1. ListInit => ListIInv
  BY ListInitInvariant
<1>2. ListIInv /\ [ListNext]_listVars => ListIInv'
  BY ListStep, ListStutter
<1> QED BY <1>1, <1>2, PTL DEF ListSpec

\* The rows are an excerpt of the log from its top, without gaps and
\* repetitions, however entries arrive, texts change and answers come late.
THEOREM ListKeepsExcerpt == ListSpec => []ListIsExcerpt
<1>1. ListIInv => ListIsExcerpt
  <2> SUFFICES ASSUME ListIInv PROVE ListIsExcerpt
    OBVIOUS
  <2>1. EndIsEnd
    BY DEF ListIInv, StatusFits, EndIsEnd, RowsKept, Promised
  <2>2. NoRowTwice
    BY DEF ListIInv, RowsLieAbove, NoRowTwice, Promised
  <2> QED BY <2>1, <2>2 DEF ListIInv, ListIsExcerpt
<1> QED BY <1>1, ListInvariance, PTL

\* While the end of the audit log or of the users is in the view, a page or
\* a keystroke's timeout is under way, or the list is complete or has failed.
THEOREM PagesKeepFollowing == ListSpec => []PagesFollow
<1>1. ListIInv => PagesFollow
  BY DEF ListIInv
<1> QED BY <1>1, ListInvariance, PTL

\* The list with its offsets, timeouts and late answers implements LogExcerpt:
\* it grows from the newest entry down and leaves out none in between.
THEOREM ListImplementsExcerpt == ListSpec => KeepsPromise
<1>1. ListInit => Excerpt!Init
  <2> SUFFICES ASSUME ListInit PROVE Excerpt!Init
    OBVIOUS
  <2>1. rows = << >> /\ log \subseteq Entries /\ box \in Filters
    BY PagedAssumption DEF ListInit
  <2>2. Range(rows) = {}
    BY <2>1, NoRows
  <2> QED BY <2>1, <2>2 DEF Excerpt!Init
<1>2. ListIInv /\ [ListNext]_listVars => [Excerpt!Next]_(Excerpt!vars)
  BY ListStep, ListStutter
<1> QED BY <1>1, <1>2, ListInvariance, PTL DEF ListSpec, KeepsPromise, Excerpt!Spec
=============================================================================
