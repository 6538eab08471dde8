------------------------ MODULE DirectorySyncProofs ------------------------
(***************************************************************************)
(* What DirectorySync guarantees for any sources, people, offices and      *)
(* titles, any number of concurrent handlers and any number of upsets.     *)
(***************************************************************************)
EXTENDS DirectorySync, FiniteSetTheorems, TLAPS

-----------------------------------------------------------------------------
(* The inductive invariant.  StaysPublished rests on what every worker has *)
(* in hand: a full sync has stored, for each source it no longer has to    *)
(* do, whoever stayed in that source; a sync of one source runs only when  *)
(* every source is stored; so each rebuild starts from all of them and     *)
(* loses nobody on its way.                                                *)

\* A mirror shows the placement t, a source, person and office.
Held(t, mirror) == <<t[2], t[3]>> \in DOMAIN mirror

Fetching == {"fetch", "putdir", "putmirror", "putsource"}

\* A worker at st keeps the placements of stay, given the mirrors of the
\* sources, and whether they are seeded and the combined mirror is filled.
Careful(st, stay, mirrors, seeded, filled) ==
    /\ st.pc \in Fetching \cup {"single", "delmirror"} => DOMAIN st.todo # {}
    /\ st.pc = "single" => ~st.full
    /\ st.pc = "begin" => st.full
    /\ st.pc \in Fetching /\ ~st.full => seeded
    /\ st.pc \in Fetching /\ st.full =>
          \A t \in stay : t[1] \in DOMAIN st.todo \/ Held(t, mirrors[t[1]])
    /\ st.pc \in {"putdir", "putmirror"} =>
          \A t \in stay : t[1] = First(DOMAIN st.todo) => Held(t, DeriveMirrorUsers(st.data))
    /\ st.pc = "putsource" =>
          \A t \in stay : t[1] = First(DOMAIN st.todo) => Held(t, mirrors[t[1]])
    /\ st.pc \in {"meta"} \cup RebuildPcs => \A t \in stay : Held(t, mirrors[t[1]])
    /\ st.pc \in {"snapshot", "gather"} =>
          \A t \in stay : t[1] \in DOMAIN st.todo \/ Held(t, st.combined)
    /\ st.pc = "replacemirror" => \A t \in stay : Held(t, st.combined)
    /\ st.pc = "setmeta" => filled
    /\ st.pc \in {"list", "snapshot", "gather"} /\ st.announce => seeded
    /\ st.pc = "gather" /\ st.announce => \A t \in stay : t[2] \in PersonsOf(st.old)
    /\ st.pc = "delmirror" => \A t \in stay : t[1] \notin DOMAIN st.todo

Budgets == [{"hr", "admin", "manual", "crash"} -> Nat]

DataTypeOK ==
    /\ ad \in [SourceIds -> DirectoryMap]
    /\ ldapSources \in PartialFcns(SourceIds, LdapSource)
    /\ srcDir \in [SourceIds -> DirectoryMap]
    /\ srcMirror \in [SourceIds -> MirrorMap]
    /\ directory \in DirectoryMap
    /\ ldapmirror \in MirrorMap
    /\ ldapSeeded \in BOOLEAN
    /\ changelog \subseteq LogEntry
    /\ budget \in Budgets
    /\ steady \subseteq SourceIds \X Persons \X Offices
    /\ published \in BOOLEAN

SteadyIsLive == steady \subseteq LivePlacements

SeededIsComplete ==
    ldapSeeded => published /\ \A t \in steady : Held(t, srcMirror[t[1]])

SharedOK ==
    /\ DataTypeOK /\ SteadyIsLive /\ SeededIsComplete
    /\ StaysPublished /\ NeverAnnouncedAsNew

WorkersOK ==
    /\ w \in [Workers -> WorkerState]
    /\ \A x \in Workers : Careful(w[x], steady, srcMirror, ldapSeeded, published)

IInv == SharedOK /\ WorkersOK

LEMMA IInvImpliesTypeOK == IInv => TypeOK
BY DEF IInv, SharedOK, WorkersOK, DataTypeOK, Budgets, TypeOK

-----------------------------------------------------------------------------
(* Lemmas: data                                                            *)

\* The library orders finite sets by inclusion, which orders numbers by the
\* intervals below them.
LEMMA FirstProperties ==
    ASSUME NEW S \in SUBSET Nat, S # {}
    PROVE  First(S) \in S
<1> DEFINE T == {0..n : n \in S}
<1>1. T \subseteq FiniteSubsetsOf(Nat) /\ T # {}
  <2>1. \A n \in S : 0..n \in SUBSET Nat /\ IsFiniteSet(0..n)
    BY FS_Interval
  <2>2. \A n \in S : 0..n \in FiniteSubsetsOf(Nat)
    BY <2>1 DEF FiniteSubsetsOf
  <2> QED BY <2>2
<1>2. PICK t \in T : \A u \in T : <<u, t>> \notin StrictSubsetOrdering(Nat)
  <2> HIDE DEF T
  <2>1. IsWellFoundedOn(StrictSubsetOrdering(Nat), FiniteSubsetsOf(Nat))
    BY FS_StrictSubsetOrderingWellFounded
  <2> QED BY <1>1, <2>1, WFMin
<1>3. PICK n \in S : t = 0..n
  OBVIOUS
<1>4. ASSUME NEW m \in S, m < n PROVE FALSE
  <2>1. 0..m \in T /\ 0..m \subseteq 0..n /\ n \in 0..n /\ n \notin 0..m
    BY <1>4
  <2>2. 0..m \in SUBSET Nat /\ 0..n \in SUBSET Nat
    OBVIOUS
  <2> HIDE DEF T
  <2>3. <<0..m, 0..n>> \in StrictSubsetOrdering(Nat)
    BY <2>1, <2>2 DEF StrictSubsetOrdering
  <2> QED BY <1>2, <1>3, <2>1, <2>3
<1>5. \A m \in S : n <= m
  BY <1>4
<1> QED BY <1>5 DEF First

\* The largest number of a finite set leaves the fewest above it.
LEMMA LargestExists ==
    ASSUME NEW S \in SUBSET Nat, IsFiniteSet(S), S # {}
    PROVE  \E i \in S : \A j \in S : j <= i
<1> DEFINE above(n) == {k \in S : k > n}
           T == {above(n) : n \in S}
<1>1. T \subseteq FiniteSubsetsOf(S) /\ T # {}
  <2>1. \A n \in S : above(n) \in SUBSET S /\ IsFiniteSet(above(n))
    BY FS_Subset
  <2> HIDE DEF above
  <2>2. \A n \in S : above(n) \in FiniteSubsetsOf(S)
    BY <2>1 DEF FiniteSubsetsOf
  <2> QED BY <2>2
<1>2. PICK t \in T : \A u \in T : <<u, t>> \notin StrictSubsetOrdering(S)
  <2> HIDE DEF T
  <2>1. IsWellFoundedOn(StrictSubsetOrdering(S), FiniteSubsetsOf(S))
    BY FS_StrictSubsetOrderingWellFounded
  <2> QED BY <1>1, <2>1, WFMin
<1>3. PICK n \in S : t = above(n)
  OBVIOUS
<1>4. ASSUME NEW m \in S, m > n PROVE FALSE
  <2>0. \A k \in above(m) : k \in above(n)
    BY <1>4
  <2>1. above(m) \in T /\ above(m) \subseteq above(n) /\ m \in above(n) /\ m \notin above(m)
    <3>1. m \in above(n) /\ m \notin above(m)
      BY <1>4
    <3> HIDE DEF above
    <3> QED BY <2>0, <3>1
  <2>2. above(m) \in SUBSET S /\ above(n) \in SUBSET S
    OBVIOUS
  <2> HIDE DEF T, above
  <2>3. <<above(m), above(n)>> \in StrictSubsetOrdering(S)
    BY <2>1, <2>2 DEF StrictSubsetOrdering
  <2> QED BY <1>2, <1>3, <2>1, <2>3
<1> QED BY <1>4

LEMMA EmptyIsPartial ==
    ASSUME NEW S, NEW T PROVE Empty \in PartialFcns(S, T) /\ DOMAIN Empty = {}
<1>1. Empty \in [{} -> T] /\ {} \in SUBSET S
  BY DEF Empty
<1> QED BY <1>1 DEF PartialFcns

LEMMA OneIsPartial ==
    ASSUME NEW S, NEW T, NEW i \in S, NEW v \in T
    PROVE  [j \in {i} |-> v] \in PartialFcns(S, T)
<1>1. [j \in {i} |-> v] \in [{i} -> T] /\ {i} \in SUBSET S
  OBVIOUS
<1> QED BY <1>1 DEF PartialFcns

LEMMA OverrideProperties ==
    ASSUME NEW S, NEW T, NEW f \in PartialFcns(S, T), NEW g \in PartialFcns(S, T)
    PROVE  /\ Override(f, g) \in PartialFcns(S, T)
           /\ DOMAIN Override(f, g) = DOMAIN f \cup DOMAIN g
<1>1. PICK D \in SUBSET S : f \in [D -> T]
  BY DEF PartialFcns
<1>2. PICK E \in SUBSET S : g \in [E -> T]
  BY DEF PartialFcns
<1>3. Override(f, g) \in [D \cup E -> T] /\ D \cup E \in SUBSET S
  BY <1>1, <1>2 DEF Override
<1> QED BY <1>3 DEF PartialFcns, Override

LEMMA MirrorOverride ==
    ASSUME NEW f \in MirrorMap, NEW g \in MirrorMap
    PROVE  /\ Override(f, g) \in MirrorMap
           /\ DOMAIN Override(f, g) = DOMAIN f \cup DOMAIN g
<1>1. PICK D \in SUBSET Placements : f \in [D -> Titles]
  BY DEF MirrorMap, PartialFcns
<1>2. PICK E \in SUBSET Placements : g \in [E -> Titles]
  BY DEF MirrorMap, PartialFcns
<1>3. Override(f, g) \in [D \cup E -> Titles] /\ D \cup E \in SUBSET Placements
  BY <1>1, <1>2 DEF Override
<1> QED BY <1>1, <1>2, <1>3 DEF MirrorMap, PartialFcns, Override

LEMMA RestrictedProperties ==
    ASSUME NEW S, NEW T, NEW f \in PartialFcns(S, T), NEW E \in SUBSET DOMAIN f
    PROVE  /\ Restricted(f, E) \in PartialFcns(S, T)
           /\ DOMAIN Restricted(f, E) = E
           /\ \A x \in E : Restricted(f, E)[x] = f[x]
<1>1. PICK D \in SUBSET S : f \in [D -> T]
  BY DEF PartialFcns
<1>2. Restricted(f, E) \in [E -> T] /\ E \in SUBSET S
  BY <1>1 DEF Restricted
<1> QED BY <1>2 DEF PartialFcns, Restricted

LEMMA PartialProperties ==
    ASSUME NEW S, NEW T, NEW f \in PartialFcns(S, T)
    PROVE  DOMAIN f \subseteq S /\ \A x \in DOMAIN f : f[x] \in T
BY DEF PartialFcns

LEMMA DeriveProperties ==
    ASSUME NEW dir \in DirectoryMap
    PROVE  /\ DeriveMirrorUsers(dir) \in MirrorMap
           /\ \A t \in SourceIds \X Persons \X Offices :
                t[2] \in DOMAIN dir /\ t[3] \in dir[t[2]].offices
                  => Held(t, DeriveMirrorUsers(dir))
<1> DEFINE D == {q \in Placements : q[1] \in DOMAIN dir /\ q[2] \in dir[q[1]].offices}
<1>1. DeriveMirrorUsers(dir) = [k \in D |-> dir[k[1]].title]
  BY DEF DeriveMirrorUsers
<1>2. \A k \in D : dir[k[1]].title \in Titles
  <2>1. \A p \in DOMAIN dir : dir[p] \in Person
    BY PartialProperties DEF DirectoryMap
  <2> QED BY <2>1 DEF Person
<1>3. DeriveMirrorUsers(dir) \in [D -> Titles] /\ D \in SUBSET Placements
  <2>1. D \in SUBSET Placements
    OBVIOUS
  <2> HIDE DEF D
  <2> QED BY <1>1, <1>2, <2>1
<1>4. DeriveMirrorUsers(dir) \in MirrorMap
  <2> HIDE DEF D
  <2> QED BY <1>3 DEF MirrorMap, PartialFcns
<1>5. ASSUME NEW t \in SourceIds \X Persons \X Offices,
             t[2] \in DOMAIN dir, t[3] \in dir[t[2]].offices
      PROVE  Held(t, DeriveMirrorUsers(dir))
  <2>1. <<t[2], t[3]>> \in D
    BY <1>5 DEF Placements
  <2> HIDE DEF D
  <2> QED BY <1>1, <2>1 DEF Held
<1> QED BY <1>4, <1>5

LEMMA FirstTitleProperties ==
    ASSUME NEW mirror \in MirrorMap, NEW p \in PersonsOf(mirror)
    PROVE  FirstTitle(mirror, p) \in Titles
<1> DEFINE O == {o \in Offices : <<p, o>> \in DOMAIN mirror}
<1>1. DOMAIN mirror \subseteq Placements /\ \A k \in DOMAIN mirror : mirror[k] \in Titles
  BY PartialProperties DEF MirrorMap
<1>2. O # {} /\ O \in SUBSET Nat
  <2>1. PICK k \in DOMAIN mirror : k[1] = p
    BY DEF PersonsOf
  <2>2. k = <<k[1], k[2]>> /\ k[2] \in Offices
    BY <1>1, <2>1 DEF Placements
  <2> QED BY <2>1, <2>2, OfficesAssumption
<1>3. First(O) \in O
  <2> HIDE DEF O
  <2> QED BY <1>2, FirstProperties
<1>4. FirstTitle(mirror, p) = mirror[<<p, First(O)>>] /\ <<p, First(O)>> \in DOMAIN mirror
  BY <1>3 DEF FirstTitle
<1> HIDE DEF O
<1> QED BY <1>1, <1>4

LEMMA EnabledProperties ==
    ASSUME DataTypeOK
    PROVE  /\ EnabledSources \in PartialFcns(SourceIds, LdapSource)
           /\ DOMAIN EnabledSources = Enabled(ldapSources)
           /\ SteadyIsLive => \A t \in steady : t[1] \in DOMAIN EnabledSources
<1>1. Enabled(ldapSources) \in SUBSET DOMAIN ldapSources
  BY DEF Enabled
<1>2. /\ EnabledSources \in PartialFcns(SourceIds, LdapSource)
      /\ DOMAIN EnabledSources = Enabled(ldapSources)
  BY <1>1, RestrictedProperties DEF EnabledSources, DataTypeOK
<1> QED BY <1>2 DEF SteadyIsLive, LivePlacements

LEMMA SpendProperties ==
    ASSUME budget \in Budgets, NEW b \in {"hr", "admin", "manual", "crash"}, Spend(b)
    PROVE  budget' \in Budgets
BY DEF Budgets, Spend

\* The source at hand is one of those to do.
LEMMA CurProperties ==
    ASSUME WorkersOK, NEW x \in Workers, DOMAIN w[x].todo # {}
    PROVE  Cur(x) \in DOMAIN w[x].todo /\ Cur(x) \in SourceIds
<1>1. w[x].todo \in PartialFcns(SourceIds, LdapSource)
  BY DEF WorkersOK, WorkerState
<1>2. DOMAIN w[x].todo \subseteq SourceIds
  BY <1>1, PartialProperties
<1>3. DOMAIN w[x].todo \in SUBSET Nat
  BY <1>2, SourcesAssumption
<1> QED BY <1>2, <1>3, FirstProperties DEF Cur

-----------------------------------------------------------------------------
(* Lemmas: workers                                                         *)

LEMMA IdleIsWorkerState == Idle \in WorkerState
<1>1. /\ Empty \in PartialFcns(SourceIds, LdapSource)
      /\ Empty \in PartialFcns(Persons, Person)
      /\ Empty \in PartialFcns(Placements, Titles)
  BY EmptyIsPartial
<1> QED BY <1>1 DEF Idle, WorkerState, DirectoryMap, MirrorMap

\* What a worker has in hand stays enough when fewer placements have to be
\* kept and the mirrors of the sources still show those.
LEMMA CarefulStable ==
    ASSUME NEW st, NEW stay, NEW stay2 \in SUBSET stay, NEW mirrors, NEW mirrors2,
           NEW seeded, NEW seeded2, NEW filled, NEW filled2,
           Careful(st, stay, mirrors, seeded, filled),
           seeded => seeded2, filled => filled2,
           \A t \in stay2 : Held(t, mirrors[t[1]]) => Held(t, mirrors2[t[1]])
    PROVE  Careful(st, stay2, mirrors2, seeded2, filled2)
BY DEF Careful

\* A handler that has nothing of the mirrors in hand.
LEMMA QuietIsCareful ==
    ASSUME NEW st, NEW stay, NEW mirrors, NEW seeded, NEW filled,
           st.pc \in {"idle", "begin", "put", "deldir", "delmeta"},
           st.pc = "begin" => st.full
    PROVE  Careful(st, stay, mirrors, seeded, filled)
BY DEF Careful, Fetching, RebuildPcs

\* One worker moves on, and the shared state is sound after the step.
LEMMA WorkerStep ==
    ASSUME IInv, SharedOK', NEW x \in Workers, NEW st \in WorkerState, Become(x, st),
           steady' \subseteq steady, ldapSeeded => ldapSeeded', published => published',
           \A t \in steady' : Held(t, srcMirror[t[1]]) => Held(t, srcMirror'[t[1]]),
           Careful(st, steady', srcMirror', ldapSeeded', published')
    PROVE  IInv'
<1>1. w' \in [Workers -> WorkerState]
  BY DEF IInv, WorkersOK, Become
<1>2. ASSUME NEW y \in Workers
      PROVE  Careful(w'[y], steady', srcMirror', ldapSeeded', published')
  <2>1. CASE y = x
    BY <2>1 DEF IInv, WorkersOK, Become
  <2>2. CASE y # x
    <3>1. w'[y] = w[y] /\ Careful(w[y], steady, srcMirror, ldapSeeded, published)
      BY <2>2 DEF IInv, WorkersOK, Become
    <3>2. Careful(w[y], steady', srcMirror', ldapSeeded', published')
      BY <3>1, CarefulStable
    <3> QED BY <3>1, <3>2
  <2> QED BY <2>1, <2>2
<1>3. WorkersOK'
  BY <1>1, <1>2 DEF WorkersOK
<1> QED BY <1>3 DEF IInv

\* A worker only reads what is shared.
LEMMA LocalStep ==
    ASSUME IInv, NEW x \in Workers, NEW st \in WorkerState, Become(x, st),
           UNCHANGED <<ad, ldapSources, sourceVars, combinedVars, ldapSeeded, changelog, history>>,
           budget' \in Budgets,
           Careful(st, steady, srcMirror, ldapSeeded, published)
    PROVE  IInv'
<1> USE DEF sourceVars, combinedVars, history
<1>1. DataTypeOK'
  BY DEF IInv, SharedOK, DataTypeOK
<1>2. SteadyIsLive' /\ SeededIsComplete' /\ StaysPublished' /\ NeverAnnouncedAsNew'
  BY DEF IInv, SharedOK, SteadyIsLive, LivePlacements, SeededIsComplete, StaysPublished,
         NeverAnnouncedAsNew
<1>3. SharedOK'
  BY <1>1, <1>2 DEF SharedOK
<1>4. Careful(st, steady', srcMirror', ldapSeeded', published')
  OBVIOUS
<1> QED BY <1>3, <1>4, WorkerStep

\* The directories or the list of sources change, the mirrors do not.
LEMMA InterruptedStays ==
    ASSUME IInv, UNCHANGED <<sourceVars, combinedVars, ldapSeeded, changelog, published>>,
           ad' \in [SourceIds -> DirectoryMap],
           ldapSources' \in PartialFcns(SourceIds, LdapSource),
           budget' \in Budgets, Interrupt
    PROVE  /\ SharedOK'
           /\ steady' \subseteq steady
           /\ \A t \in steady' : t \in LivePlacements'
<1> USE DEF sourceVars, combinedVars
<1>1. steady' \subseteq steady /\ steady' \subseteq LivePlacements'
  BY DEF Interrupt
<1>2. DataTypeOK'
  BY <1>1 DEF IInv, SharedOK, DataTypeOK
<1>3. SteadyIsLive' /\ SeededIsComplete' /\ StaysPublished' /\ NeverAnnouncedAsNew'
  BY <1>1 DEF IInv, SharedOK, SteadyIsLive, SeededIsComplete, StaysPublished,
              NeverAnnouncedAsNew
<1> QED BY <1>1, <1>2, <1>3 DEF SharedOK
-----------------------------------------------------------------------------
(* The steps before a sync fetches anything                                *)

LEMMA CrashKeeps ==
    ASSUME IInv, Crash PROVE IInv'
<1> USE DEF Crash, sourceVars, combinedVars, history
<1>1. budget' \in Budgets
  BY SpendProperties DEF IInv, SharedOK, DataTypeOK
<1>2. DataTypeOK'
  BY <1>1 DEF IInv, SharedOK, DataTypeOK
<1>3. SteadyIsLive' /\ SeededIsComplete' /\ StaysPublished' /\ NeverAnnouncedAsNew'
  BY DEF IInv, SharedOK, SteadyIsLive, LivePlacements, SeededIsComplete, StaysPublished,
         NeverAnnouncedAsNew
<1>4. w' \in [Workers -> WorkerState]
  BY IdleIsWorkerState
<1>5. \A x \in Workers : Careful(w'[x], steady', srcMirror', ldapSeeded', published')
  <2> DEFINE st == Idle
  <2>1. st.pc = "idle"
    BY DEF Idle
  <2> HIDE DEF Crash, st
  <2>2. Careful(st, steady, srcMirror, ldapSeeded, published)
    BY <2>1, QuietIsCareful
  <2> QED BY <2>2 DEF Crash, st
<1> QED BY <1>2, <1>3, <1>4, <1>5 DEF IInv, SharedOK, WorkersOK

LEMMA HRChangeKeeps ==
    ASSUME IInv, HRChange PROVE IInv'
<1>1. budget' \in Budgets
  BY SpendProperties DEF HRChange, IInv, SharedOK, DataTypeOK
<1>2. ad' \in [SourceIds -> DirectoryMap]
  <2>1. ad \in [SourceIds -> DirectoryMap]
    BY DEF IInv, SharedOK, DataTypeOK
  <2>2. PICK i \in SourceIds, p \in Persons :
          \/ p \in DOMAIN ad[i] /\ ad' = [ad EXCEPT ![i] = Without(@, p)]
          \/ \E e \in Person : ad' = [ad EXCEPT ![i] = Override(@, [q \in {p} |-> e])]
    BY DEF HRChange
  <2>3. CASE p \in DOMAIN ad[i] /\ ad' = [ad EXCEPT ![i] = Without(@, p)]
    <3>1. Without(ad[i], p) \in DirectoryMap
      <4>1. ad[i] \in PartialFcns(Persons, Person) /\ DOMAIN ad[i] \ {p} \in SUBSET DOMAIN ad[i]
        BY <2>1 DEF DirectoryMap
      <4>2. Restricted(ad[i], DOMAIN ad[i] \ {p}) \in PartialFcns(Persons, Person)
        BY <4>1, RestrictedProperties
      <4> QED BY <4>2 DEF Without, DirectoryMap
    <3> QED BY <2>1, <2>3, <3>1
  <2>4. ASSUME NEW e \in Person, ad' = [ad EXCEPT ![i] = Override(@, [q \in {p} |-> e])]
        PROVE  ad' \in [SourceIds -> DirectoryMap]
    <3>1. [q \in {p} |-> e] \in DirectoryMap
      BY OneIsPartial DEF DirectoryMap
    <3>2. Override(ad[i], [q \in {p} |-> e]) \in DirectoryMap
      BY <2>1, <3>1, OverrideProperties DEF DirectoryMap
    <3> QED BY <2>1, <2>4, <3>2
  <2> QED BY <2>2, <2>3, <2>4
<1>3. SharedOK' /\ steady' \subseteq steady
  <2>1. /\ UNCHANGED <<sourceVars, combinedVars, ldapSeeded, changelog, published>>
        /\ ldapSources' = ldapSources /\ Interrupt
    BY DEF HRChange
  <2>2. ldapSources' \in PartialFcns(SourceIds, LdapSource)
    BY <2>1 DEF IInv, SharedOK, DataTypeOK
  <2> QED BY <1>1, <1>2, <2>1, <2>2, InterruptedStays
<1>4. ASSUME NEW x \in Workers
      PROVE  Careful(w'[x], steady', srcMirror', ldapSeeded', published')
  <2>1. Careful(w[x], steady, srcMirror, ldapSeeded, published)
    BY DEF IInv, WorkersOK
  <2>2. Careful(w[x], steady', srcMirror, ldapSeeded, published)
    BY <1>3, <2>1, CarefulStable
  <2> QED BY <2>2 DEF HRChange, sourceVars
<1>5. w' \in [Workers -> WorkerState]
  BY DEF IInv, WorkersOK, HRChange
<1> QED BY <1>3, <1>4, <1>5 DEF IInv, WorkersOK

\* A worker that begins a full sync, or nothing of the mirrors.
LEMMA QuietStep ==
    ASSUME IInv, NEW x \in Workers, NEW st \in WorkerState, Become(x, st),
           UNCHANGED <<ad, ldapSources, sourceVars, combinedVars, ldapSeeded, changelog, history>>,
           budget' \in Budgets,
           st.pc \in {"idle", "begin", "put", "deldir", "delmeta"},
           st.pc = "begin" => st.full
    PROVE  IInv'
<1>1. Careful(st, steady, srcMirror, ldapSeeded, published)
  BY QuietIsCareful
<1> QED BY <1>1, LocalStep

LEMMA DoneStep ==
    ASSUME IInv, NEW x \in Workers, Done(x), budget' \in Budgets,
           UNCHANGED <<ad, ldapSources, sourceVars, combinedVars, ldapSeeded, changelog, history>>
    PROVE  IInv'
<1> DEFINE st == Idle
<1>1. st \in WorkerState /\ Become(x, st)
  BY IdleIsWorkerState DEF Done
<1>2. st.pc = "idle"
  BY DEF Idle
<1> HIDE DEF st
<1> QED BY <1>1, <1>2, QuietStep

LEMMA BeginningIsWorkerState ==
    ASSUME NEW b \in BOOLEAN
    PROVE  /\ [Idle EXCEPT !.pc = "begin", !.full = TRUE, !.prog = b] \in WorkerState
           /\ [Idle EXCEPT !.pc = "begin", !.full = TRUE] \in WorkerState
           /\ [Idle EXCEPT !.pc = "begin", !.full = TRUE, !.prog = b].pc = "begin"
           /\ [Idle EXCEPT !.pc = "begin", !.full = TRUE, !.prog = b].full
           /\ [Idle EXCEPT !.pc = "begin", !.full = TRUE].pc = "begin"
           /\ [Idle EXCEPT !.pc = "begin", !.full = TRUE].full
BY IdleIsWorkerState DEF WorkerState, SyncPcs

LEMMA ScheduledSyncKeeps ==
    ASSUME IInv, ScheduledSync PROVE IInv'
<1> DEFINE st == [Idle EXCEPT !.pc = "begin", !.full = TRUE]
<1>1. st \in WorkerState /\ st.pc = "begin" /\ st.full
  BY BeginningIsWorkerState
<1>2. Become(Scheduler, st) /\ Scheduler \in Workers
  BY DEF ScheduledSync, Workers
<1>3. /\ UNCHANGED <<ad, ldapSources, sourceVars, combinedVars, ldapSeeded, changelog, history>>
      /\ budget' \in Budgets
  BY DEF ScheduledSync, IInv, SharedOK, DataTypeOK
<1> HIDE DEF st
<1> QED BY <1>1, <1>2, <1>3, QuietStep

LEMMA HandleRestLdapSyncKeeps ==
    ASSUME IInv, NEW r \in Requests, HandleRestLdapSync(r) PROVE IInv'
<1> DEFINE st == [Idle EXCEPT !.pc = "begin", !.full = TRUE, !.prog = TRUE]
<1>1. st \in WorkerState /\ st.pc = "begin" /\ st.full
  BY BeginningIsWorkerState
<1>2. Become(r, st) /\ r \in Workers
  BY DEF HandleRestLdapSync, Workers
<1>3. /\ UNCHANGED <<ad, ldapSources, sourceVars, combinedVars, ldapSeeded, changelog, history>>
      /\ budget' \in Budgets
  BY SpendProperties DEF HandleRestLdapSync, IInv, SharedOK, DataTypeOK
<1> HIDE DEF st
<1> QED BY <1>1, <1>2, <1>3, QuietStep

LEMMA HandleRestLdapKeeps ==
    ASSUME IInv, NEW r \in Requests, HandleRestLdap(r) PROVE IInv'
<1>1. r \in Workers
  BY DEF Workers
<1>2. /\ UNCHANGED <<ad, ldapSources, sourceVars, combinedVars, ldapSeeded, changelog, history>>
      /\ budget' \in Budgets
  BY SpendProperties DEF HandleRestLdap, IInv, SharedOK, DataTypeOK
<1>3. ldapSources \in PartialFcns(SourceIds, LdapSource)
  BY DEF IInv, SharedOK, DataTypeOK
<1>4. CASE Become(r, [Idle EXCEPT !.pc = "begin", !.full = TRUE])
  <2> DEFINE st == [Idle EXCEPT !.pc = "begin", !.full = TRUE]
  <2>1. st \in WorkerState /\ st.pc = "begin" /\ st.full
    BY BeginningIsWorkerState
  <2>2. Become(r, st)
    BY <1>4
  <2> HIDE DEF st
  <2> QED BY <1>1, <1>2, <2>1, <2>2, QuietStep
<1>5. ASSUME NEW i \in DOMAIN ldapSources,
             Become(r, [Idle EXCEPT !.pc = "single", !.todo = [j \in {i} |-> ldapSources[j]]])
      PROVE  IInv'
  <2> DEFINE one == [j \in {i} |-> ldapSources[j]]
             st == [Idle EXCEPT !.pc = "single", !.todo = one]
  <2>1. one \in PartialFcns(SourceIds, LdapSource) /\ DOMAIN one # {}
    <3>1. i \in SourceIds /\ ldapSources[i] \in LdapSource
      BY <1>3, PartialProperties
    <3>2. one = [j \in {i} |-> ldapSources[i]]
      OBVIOUS
    <3>3. DOMAIN one = {i}
      OBVIOUS
    <3> HIDE DEF one
    <3>4. [j \in {i} |-> ldapSources[i]] \in PartialFcns(SourceIds, LdapSource)
      BY <3>1, OneIsPartial
    <3> QED BY <3>2, <3>3, <3>4
  <2> HIDE DEF one
  <2>2. st \in WorkerState /\ st.pc = "single" /\ ~st.full /\ st.todo = one
    BY <2>1, IdleIsWorkerState DEF WorkerState, AdminPcs, Idle
  <2>3. Become(r, st)
    BY <1>5 DEF one
  <2> HIDE DEF st
  <2>4. Careful(st, steady, srcMirror, ldapSeeded, published)
    BY <2>1, <2>2 DEF Careful, Fetching, RebuildPcs
  <2> QED BY <1>1, <1>2, <2>2, <2>3, <2>4, LocalStep
<1> QED BY <1>4, <1>5 DEF HandleRestLdap

LEMMA SingleStartKeeps ==
    ASSUME IInv, NEW x \in Workers, SingleStart(x) PROVE IInv'
<1>1. /\ UNCHANGED <<ad, ldapSources, sourceVars, combinedVars, ldapSeeded, changelog, history>>
      /\ budget' \in Budgets
  BY DEF SingleStart, IInv, SharedOK, DataTypeOK
<1>2. CASE ~ldapSeeded
  <2> DEFINE st == [Idle EXCEPT !.pc = "begin", !.full = TRUE]
  <2>1. st \in WorkerState /\ st.pc = "begin" /\ st.full
    BY BeginningIsWorkerState
  <2>2. Become(x, st)
    BY <1>2 DEF SingleStart
  <2> HIDE DEF st
  <2> QED BY <1>1, <2>1, <2>2, QuietStep
<1>3. CASE ldapSeeded
  <2> DEFINE st == [w[x] EXCEPT !.pc = "fetch"]
  <2>1. /\ w[x] \in WorkerState /\ w[x].pc = "single"
        /\ Careful(w[x], steady, srcMirror, ldapSeeded, published)
    BY DEF IInv, WorkersOK, SingleStart, At
  <2>2. Become(x, st)
    BY <1>3 DEF SingleStart, Goto
  <2>3. st \in WorkerState /\ st.pc = "fetch" /\ st.full = w[x].full /\ st.todo = w[x].todo
    BY <2>1 DEF WorkerState, SyncPcs
  <2> HIDE DEF st
  <2>4. DOMAIN w[x].todo # {} /\ ~w[x].full
    BY <2>1 DEF Careful
  <2>5. DOMAIN st.todo # {} /\ ~st.full
    BY <2>3, <2>4
  <2>6. Careful(st, steady, srcMirror, ldapSeeded, published)
    BY <1>3, <2>3, <2>5 DEF Careful, Fetching, RebuildPcs
  <2> QED BY <1>1, <2>2, <2>3, <2>6, LocalStep
<1> QED BY <1>2, <1>3
-----------------------------------------------------------------------------
(* The steps that handle the sources one by one                            *)

LEMMA BeginKeeps ==
    ASSUME IInv, NEW x \in Workers, Begin(x) PROVE IInv'
<1>1. /\ UNCHANGED <<ad, ldapSources, sourceVars, combinedVars, ldapSeeded, changelog, history>>
      /\ budget' \in Budgets
  BY DEF Begin, IInv, SharedOK, DataTypeOK
<1>2. CASE ~AnyLdapSourceEnabled
  <2>1. Done(x)
    BY <1>2 DEF Begin
  <2> QED BY <1>1, <2>1, DoneStep
<1>3. CASE AnyLdapSourceEnabled
  <2> DEFINE st == [w[x] EXCEPT !.pc = "fetch", !.todo = EnabledSources]
  <2>1. /\ w[x] \in WorkerState /\ w[x].pc = "begin"
        /\ Careful(w[x], steady, srcMirror, ldapSeeded, published)
    BY DEF IInv, WorkersOK, Begin, At
  <2>2. Become(x, st)
    BY <1>3 DEF Begin
  <2>3. /\ EnabledSources \in PartialFcns(SourceIds, LdapSource)
        /\ DOMAIN EnabledSources # {}
        /\ \A t \in steady : t[1] \in DOMAIN EnabledSources
    BY <1>3, EnabledProperties DEF IInv, SharedOK, AnyLdapSourceEnabled
  <2>4. st \in WorkerState /\ st.pc = "fetch" /\ st.full = w[x].full /\ st.todo = EnabledSources
    BY <2>1, <2>3 DEF WorkerState, SyncPcs
  <2> HIDE DEF st
  <2>5. w[x].full
    BY <2>1 DEF Careful
  <2>6. Careful(st, steady, srcMirror, ldapSeeded, published)
    BY <2>3, <2>4, <2>5 DEF Careful, Fetching, RebuildPcs
  <2> QED BY <1>1, <2>2, <2>4, <2>6, LocalStep
<1> QED BY <1>2, <1>3

\* What the directory answers holds whoever stays in it.
LEMMA FetchOkKeeps ==
    ASSUME IInv, NEW x \in Workers, FetchOk(x) PROVE IInv'
<1> DEFINE st == [w[x] EXCEPT !.pc = "putdir", !.data = ad[Cur(x)]]
<1>1. /\ UNCHANGED <<ad, ldapSources, sourceVars, combinedVars, ldapSeeded, changelog, history>>
      /\ budget' \in Budgets
  BY DEF FetchOk, IInv, SharedOK, DataTypeOK
<1>2. /\ w[x] \in WorkerState /\ w[x].pc = "fetch"
      /\ Careful(w[x], steady, srcMirror, ldapSeeded, published)
  BY DEF IInv, WorkersOK, FetchOk, At
<1>3. DOMAIN w[x].todo # {}
  BY <1>2 DEF Careful, Fetching
<1>4. Cur(x) \in SourceIds /\ ad[Cur(x)] \in DirectoryMap
  BY <1>3, CurProperties DEF IInv, SharedOK, DataTypeOK
<1>5. Become(x, st)
  BY DEF FetchOk
<1>6. /\ st \in WorkerState /\ st.pc = "putdir" /\ st.full = w[x].full
      /\ st.todo = w[x].todo /\ st.data = ad[Cur(x)]
  BY <1>2, <1>4 DEF WorkerState, SyncPcs
<1> HIDE DEF st
<1>7. \A t \in steady : t[1] = First(DOMAIN st.todo) => Held(t, DeriveMirrorUsers(st.data))
  <2> TAKE t \in steady
  <2> HAVE t[1] = First(DOMAIN st.todo)
  <2>1. t[1] = Cur(x)
    BY <1>6 DEF Cur
  <2>2. /\ t \in SourceIds \X Persons \X Offices
        /\ t[2] \in DOMAIN ad[t[1]] /\ t[3] \in ad[t[1]][t[2]].offices
    BY DEF IInv, SharedOK, SteadyIsLive, LivePlacements
  <2> QED BY <1>4, <1>6, <2>1, <2>2, DeriveProperties
<1>8. Careful(st, steady, srcMirror, ldapSeeded, published)
  BY <1>2, <1>6, <1>7 DEF Careful, Fetching, RebuildPcs
<1> QED BY <1>1, <1>5, <1>6, <1>8, LocalStep

LEMMA FetchFailsKeeps ==
    ASSUME IInv, NEW x \in Workers, FetchFails(x) PROVE IInv'
<1>1. /\ UNCHANGED <<ad, ldapSources, sourceVars, combinedVars, ldapSeeded, changelog, history>>
      /\ budget' \in Budgets
  BY DEF FetchFails, IInv, SharedOK, DataTypeOK
<1>2. Done(x)
  BY DEF FetchFails
<1> QED BY <1>1, <1>2, DoneStep

LEMMA PutSourceDirKeeps ==
    ASSUME IInv, NEW x \in Workers, PutSourceDir(x) PROVE IInv'
<1> DEFINE st == [w[x] EXCEPT !.pc = "putmirror"]
<1>1. /\ UNCHANGED <<ad, ldapSources, srcMirror, combinedVars, ldapSeeded, changelog, budget, history>>
      /\ srcDir' = [srcDir EXCEPT ![Cur(x)] = w[x].data]
      /\ Become(x, st)
  BY DEF PutSourceDir, Goto
<1>2. /\ w[x] \in WorkerState /\ w[x].pc = "putdir"
      /\ Careful(w[x], steady, srcMirror, ldapSeeded, published)
  BY DEF IInv, WorkersOK, PutSourceDir, At
<1>3. /\ st \in WorkerState /\ st.pc = "putmirror" /\ st.full = w[x].full
      /\ st.todo = w[x].todo /\ st.data = w[x].data
  BY <1>2 DEF WorkerState, SyncPcs
<1>4. w[x].data \in DirectoryMap
  BY <1>2 DEF WorkerState
<1> HIDE DEF st
<1>5. DataTypeOK'
  BY <1>1, <1>4 DEF IInv, SharedOK, DataTypeOK, combinedVars, history
<1>6. SteadyIsLive' /\ SeededIsComplete' /\ StaysPublished' /\ NeverAnnouncedAsNew'
  BY <1>1 DEF IInv, SharedOK, SteadyIsLive, LivePlacements, SeededIsComplete, StaysPublished,
              NeverAnnouncedAsNew, combinedVars, history
<1>7. Careful(st, steady, srcMirror, ldapSeeded, published)
  BY <1>2, <1>3 DEF Careful, Fetching, RebuildPcs
<1>8. Careful(st, steady', srcMirror', ldapSeeded', published')
  BY <1>1, <1>7 DEF history
<1>9. SharedOK'
  BY <1>5, <1>6 DEF SharedOK
<1> QED BY <1>1, <1>3, <1>8, <1>9, WorkerStep DEF history

\* The stored placements of a source show whoever stays in it.
LEMMA PutSourceMirrorKeeps ==
    ASSUME IInv, NEW x \in Workers, PutSourceMirror(x) PROVE IInv'
<1> DEFINE st == [w[x] EXCEPT !.pc = "putsource"]
           fresh == DeriveMirrorUsers(w[x].data)
<1>1. /\ UNCHANGED <<ad, ldapSources, srcDir, combinedVars, ldapSeeded, changelog, budget, history>>
      /\ srcMirror' = [srcMirror EXCEPT ![Cur(x)] = fresh]
      /\ Become(x, st)
  BY DEF PutSourceMirror, Goto
<1>2. /\ w[x] \in WorkerState /\ w[x].pc = "putmirror"
      /\ Careful(w[x], steady, srcMirror, ldapSeeded, published)
  BY DEF IInv, WorkersOK, PutSourceMirror, At
<1>3. st \in WorkerState /\ st.pc = "putsource" /\ st.full = w[x].full /\ st.todo = w[x].todo
  BY <1>2 DEF WorkerState, SyncPcs
<1>4. fresh \in MirrorMap
  <2>1. w[x].data \in DirectoryMap
    BY <1>2 DEF WorkerState
  <2> QED BY <2>1, DeriveProperties
<1>5. DOMAIN w[x].todo # {}
  BY <1>2 DEF Careful, Fetching
<1>6. Cur(x) \in SourceIds /\ Cur(x) = First(DOMAIN w[x].todo)
  BY <1>5, CurProperties DEF IInv, Cur
<1>7. \A t \in steady : t[1] = Cur(x) => Held(t, fresh)
  BY <1>2, <1>6 DEF Careful
<1>8. /\ steady \subseteq SourceIds \X Persons \X Offices
      /\ srcMirror \in [SourceIds -> MirrorMap]
  BY DEF IInv, SharedOK, DataTypeOK
<1> HIDE DEF st, fresh
<1>9. \A t \in steady : /\ Held(t, srcMirror[t[1]]) => Held(t, srcMirror'[t[1]])
                        /\ t[1] = Cur(x) => Held(t, srcMirror'[t[1]])
  <2> TAKE t \in steady
  <2>1. t[1] \in SourceIds
    BY <1>8
  <2>2. CASE t[1] = Cur(x)
    <3>1. srcMirror'[t[1]] = fresh
      BY <1>1, <1>8, <2>1, <2>2
    <3> QED BY <1>7, <2>2, <3>1
  <2>3. CASE t[1] # Cur(x)
    <3>1. srcMirror'[t[1]] = srcMirror[t[1]]
      BY <1>1, <1>8, <2>1, <2>3
    <3> QED BY <2>3, <3>1
  <2> QED BY <2>2, <2>3
<1>10. DataTypeOK'
  BY <1>1, <1>4 DEF IInv, SharedOK, DataTypeOK, combinedVars, history
<1>11. SteadyIsLive' /\ StaysPublished' /\ NeverAnnouncedAsNew'
  BY <1>1 DEF IInv, SharedOK, SteadyIsLive, LivePlacements, StaysPublished,
              NeverAnnouncedAsNew, combinedVars, history
<1>12. SeededIsComplete'
  BY <1>1, <1>9 DEF IInv, SharedOK, SeededIsComplete, history
<1>13. Careful(w[x], steady, srcMirror', ldapSeeded, published)
  BY <1>2, <1>9, CarefulStable
<1>14. Careful(st, steady, srcMirror', ldapSeeded, published)
  <2>1. \A t \in steady : t[1] = First(DOMAIN st.todo) => Held(t, srcMirror'[t[1]])
    BY <1>3, <1>6, <1>9
  <2> QED BY <1>2, <1>3, <1>13, <2>1 DEF Careful, Fetching, RebuildPcs
<1>15. Careful(st, steady', srcMirror', ldapSeeded', published')
  BY <1>1, <1>14 DEF history
<1>16. SharedOK'
  BY <1>10, <1>11, <1>12 DEF SharedOK
<1>17. \A t \in steady' : Held(t, srcMirror[t[1]]) => Held(t, srcMirror'[t[1]])
  BY <1>1, <1>9 DEF history
<1> QED BY <1>1, <1>3, <1>15, <1>16, <1>17, WorkerStep DEF history

\* Taking one out of a partial function leaves the others.
LEMMA WithoutProperties ==
    ASSUME NEW S, NEW T, NEW f \in PartialFcns(S, T), NEW i
    PROVE  Without(f, i) \in PartialFcns(S, T) /\ DOMAIN Without(f, i) = DOMAIN f \ {i}
<1>1. DOMAIN f \ {i} \in SUBSET DOMAIN f
  OBVIOUS
<1> QED BY <1>1, RestrictedProperties DEF Without

\* The source that was last to do is stored with whoever stays in it.
LEMMA PutLdapSourceKeeps ==
    ASSUME IInv, NEW x \in Workers, PutLdapSource(x) PROVE IInv'
<1> DEFINE cur == Cur(x)
           left == Without(w[x].todo, cur)
           next == IF DOMAIN left # {} THEN "fetch" ELSE IF w[x].full THEN "meta" ELSE "list"
           st == [w[x] EXCEPT !.todo = left, !.data = Empty, !.announce = ~w[x].full, !.pc = next]
<1>1. /\ UNCHANGED <<ad, sourceVars, combinedVars, ldapSeeded, changelog, budget, published>>
      /\ ldapSources' = Override(ldapSources, [i \in {Cur(x)} |-> w[x].todo[i]])
      /\ Become(x, st) /\ Interrupt
  BY DEF PutLdapSource
<1>2. /\ w[x] \in WorkerState /\ w[x].pc = "putsource"
      /\ Careful(w[x], steady, srcMirror, ldapSeeded, published)
  BY DEF IInv, WorkersOK, PutLdapSource, At
<1>3. w[x].todo \in PartialFcns(SourceIds, LdapSource) /\ w[x].full \in BOOLEAN
  BY <1>2 DEF WorkerState
<1>4. left \in PartialFcns(SourceIds, LdapSource) /\ DOMAIN left = DOMAIN w[x].todo \ {cur}
  <2> DEFINE all == w[x].todo
  <2>1. all \in PartialFcns(SourceIds, LdapSource) /\ left = Without(all, cur)
    BY <1>3
  <2>2. ASSUME NEW f \in PartialFcns(SourceIds, LdapSource), NEW i
        PROVE  /\ Without(f, i) \in PartialFcns(SourceIds, LdapSource)
               /\ DOMAIN Without(f, i) = DOMAIN f \ {i}
    BY WithoutProperties
  <2>3. DOMAIN all = DOMAIN w[x].todo
    OBVIOUS
  <2> HIDE DEF cur, left, all
  <2> QED BY <2>1, <2>2, <2>3
<1>5. DOMAIN w[x].todo # {}
  BY <1>2 DEF Careful, Fetching
<1>6. /\ Cur(x) \in SourceIds /\ Cur(x) \in DOMAIN w[x].todo
      /\ Cur(x) = First(DOMAIN w[x].todo)
  BY <1>5, CurProperties DEF IInv, Cur
<1>7. ldapSources' \in PartialFcns(SourceIds, LdapSource)
  <2> DEFINE one == [i \in {Cur(x)} |-> w[x].todo[i]]
             same == [i \in {Cur(x)} |-> w[x].todo[Cur(x)]]
  <2>1. w[x].todo[Cur(x)] \in LdapSource
    BY <1>3, <1>6, PartialProperties
  <2>2. one = same
    OBVIOUS
  <2>3. same \in PartialFcns(SourceIds, LdapSource)
    BY <1>6, <2>1, OneIsPartial
  <2>4. ldapSources \in PartialFcns(SourceIds, LdapSource)
    BY DEF IInv, SharedOK, DataTypeOK
  <2>5. ldapSources' = Override(ldapSources, one)
    BY <1>1
  <2> HIDE DEF one, same
  <2> QED BY <2>2, <2>3, <2>4, <2>5, OverrideProperties
<1>8. /\ st \in WorkerState /\ st.full = w[x].full /\ st.todo = left
      /\ st.pc = next /\ st.announce = ~w[x].full
  <2>1. Empty \in DirectoryMap
    BY EmptyIsPartial DEF DirectoryMap
  <2>2. next \in SyncPcs \cup RebuildPcs
    BY DEF SyncPcs, RebuildPcs
  <2> HIDE DEF left, next
  <2> QED BY <1>2, <1>3, <1>4, <2>1, <2>2 DEF WorkerState
<1> HIDE DEF st, left
<1>9. ad' \in [SourceIds -> DirectoryMap] /\ budget' \in Budgets
  BY <1>1 DEF IInv, SharedOK, DataTypeOK
<1>10. SharedOK' /\ steady' \subseteq steady
  BY <1>1, <1>7, <1>9, InterruptedStays
<1>11. \A t \in steady : t[1] \in DOMAIN left \/ Held(t, srcMirror[t[1]])
  <2> TAKE t \in steady
  <2>1. CASE t[1] = Cur(x)
    BY <1>2, <1>6, <2>1 DEF Careful
  <2>2. CASE t[1] # Cur(x)
    <3>1. CASE w[x].full
      BY <1>2, <1>4, <2>2, <3>1 DEF Careful, Fetching
    <3>2. CASE ~w[x].full
      BY <1>2, <3>2 DEF Careful, Fetching, IInv, SharedOK, SeededIsComplete
    <3> QED BY <3>1, <3>2
  <2> QED BY <2>1, <2>2
<1>12. ~w[x].full => ldapSeeded
  BY <1>2 DEF Careful, Fetching
<1>13. Careful(st, steady, srcMirror, ldapSeeded, published)
  <2>1. CASE DOMAIN left # {}
    <3>1. st.pc = "fetch"
      BY <1>8, <2>1
    <3> QED BY <1>8, <1>11, <1>12, <2>1, <3>1 DEF Careful, Fetching, RebuildPcs
  <2>2. CASE DOMAIN left = {} /\ w[x].full
    <3>1. st.pc = "meta"
      BY <1>8, <2>2
    <3> QED BY <1>11, <2>2, <3>1 DEF Careful, Fetching, RebuildPcs
  <2>3. CASE DOMAIN left = {} /\ ~w[x].full
    <3>1. st.pc = "list"
      BY <1>8, <2>3
    <3> QED BY <1>11, <1>12, <2>3, <3>1 DEF Careful, Fetching, RebuildPcs
  <2> QED BY <2>1, <2>2, <2>3
<1>14. Careful(st, steady', srcMirror, ldapSeeded, published)
  BY <1>10, <1>13, CarefulStable
<1>15. Careful(st, steady', srcMirror', ldapSeeded', published')
  BY <1>1, <1>14 DEF sourceVars
<1> QED BY <1>1, <1>8, <1>10, <1>15, WorkerStep DEF sourceVars

-----------------------------------------------------------------------------
(* The steps of a rebuild                                                  *)

LEMMA ReadSeededKeeps ==
    ASSUME IInv, NEW x \in Workers, ReadSeeded(x) PROVE IInv'
<1> DEFINE st == [w[x] EXCEPT !.pc = "list", !.announce = ldapSeeded]
<1>1. /\ UNCHANGED <<ad, ldapSources, sourceVars, combinedVars, ldapSeeded, changelog, history>>
      /\ budget' \in Budgets /\ Become(x, st)
  BY DEF ReadSeeded, IInv, SharedOK, DataTypeOK
<1>2. /\ w[x] \in WorkerState /\ w[x].pc = "meta" /\ ldapSeeded \in BOOLEAN
      /\ Careful(w[x], steady, srcMirror, ldapSeeded, published)
  BY DEF IInv, WorkersOK, SharedOK, DataTypeOK, ReadSeeded, At
<1>3. st \in WorkerState /\ st.pc = "list" /\ (st.announce <=> ldapSeeded)
  BY <1>2 DEF WorkerState, RebuildPcs
<1> HIDE DEF st
<1>4. \A t \in steady : Held(t, srcMirror[t[1]])
  BY <1>2 DEF Careful
<1>5. Careful(st, steady, srcMirror, ldapSeeded, published)
  BY <1>3, <1>4 DEF Careful, Fetching, RebuildPcs
<1> QED BY <1>1, <1>3, <1>5, LocalStep

LEMMA ListSourcesKeeps ==
    ASSUME IInv, NEW x \in Workers, ListSources(x) PROVE IInv'
<1> DEFINE next == IF w[x].announce THEN "snapshot" ELSE "gather"
           st == [w[x] EXCEPT !.todo = EnabledSources, !.pc = next]
<1>1. /\ UNCHANGED <<ad, ldapSources, sourceVars, combinedVars, ldapSeeded, changelog, history>>
      /\ budget' \in Budgets /\ Become(x, st)
  BY DEF ListSources, IInv, SharedOK, DataTypeOK
<1>2. /\ w[x] \in WorkerState /\ w[x].pc = "list"
      /\ Careful(w[x], steady, srcMirror, ldapSeeded, published)
  BY DEF IInv, WorkersOK, ListSources, At
<1>3. /\ EnabledSources \in PartialFcns(SourceIds, LdapSource)
      /\ \A t \in steady : t[1] \in DOMAIN EnabledSources
  BY EnabledProperties DEF IInv, SharedOK
<1>4. next \in {"snapshot", "gather"} /\ (next = "gather" => ~w[x].announce)
  OBVIOUS
<1> HIDE DEF next
<1>5. /\ st \in WorkerState /\ st.pc = next /\ st.todo = EnabledSources
      /\ st.announce = w[x].announce
  BY <1>2, <1>3, <1>4 DEF WorkerState, RebuildPcs
<1> HIDE DEF st
<1>6. /\ \A t \in steady : Held(t, srcMirror[t[1]])
      /\ w[x].announce => ldapSeeded
  BY <1>2 DEF Careful, RebuildPcs
<1>7. Careful(st, steady, srcMirror, ldapSeeded, published)
  BY <1>3, <1>4, <1>5, <1>6 DEF Careful, Fetching, RebuildPcs
<1> QED BY <1>1, <1>5, <1>7, LocalStep

\* Only a seeded installation announces, and its combined mirror is filled.
LEMMA SnapshotMirrorKeeps ==
    ASSUME IInv, NEW x \in Workers, SnapshotMirror(x) PROVE IInv'
<1> DEFINE st == [w[x] EXCEPT !.pc = "gather", !.old = ldapmirror]
<1>1. /\ UNCHANGED <<ad, ldapSources, sourceVars, combinedVars, ldapSeeded, changelog, history>>
      /\ budget' \in Budgets /\ Become(x, st)
  BY DEF SnapshotMirror, IInv, SharedOK, DataTypeOK
<1>2. /\ w[x] \in WorkerState /\ w[x].pc = "snapshot" /\ ldapmirror \in MirrorMap
      /\ Careful(w[x], steady, srcMirror, ldapSeeded, published)
  BY DEF IInv, WorkersOK, SharedOK, DataTypeOK, SnapshotMirror, At
<1>3. /\ st \in WorkerState /\ st.pc = "gather" /\ st.todo = w[x].todo /\ st.old = ldapmirror
      /\ st.announce = w[x].announce /\ st.combined = w[x].combined
  BY <1>2 DEF WorkerState, RebuildPcs
<1> HIDE DEF st
<1>4. w[x].announce => ldapSeeded
  BY <1>2 DEF Careful
<1>5. st.announce => \A t \in steady : t[2] \in PersonsOf(st.old)
  <2> SUFFICES ASSUME st.announce, NEW t \in steady PROVE t[2] \in PersonsOf(st.old)
    OBVIOUS
  <2>1. Held(t, ldapmirror)
    BY <1>3, <1>4 DEF IInv, SharedOK, SeededIsComplete, StaysPublished, Held
  <2>2. <<t[2], t[3]>>[1] \in PersonsOf(ldapmirror)
    BY <2>1 DEF Held, PersonsOf
  <2> QED BY <1>3, <2>2
<1>6. Careful(st, steady, srcMirror, ldapSeeded, published)
  <2>1. /\ \A t \in steady : Held(t, srcMirror[t[1]])
        /\ \A t \in steady : t[1] \in DOMAIN st.todo \/ Held(t, st.combined)
        /\ st.announce => ldapSeeded
    BY <1>2, <1>3, <1>4 DEF Careful, RebuildPcs
  <2> QED BY <1>3, <1>5, <2>1 DEF Careful, Fetching, RebuildPcs
<1> QED BY <1>1, <1>3, <1>6, LocalStep
\* A rebuild takes in one source: whoever was in hand stays in hand, and
\* whoever has a placement already is not announced.
LEMMA GatherKeeps ==
    ASSUME IInv, NEW x \in Workers, Gather(x) PROVE IInv'
<1> DEFINE i == Cur(x)
           left == Without(w[x].todo, i)
           seen2 == IF w[x].announce THEN w[x].seen \cup PersonsOf(srcMirror[i]) ELSE w[x].seen
           combined2 == Override(w[x].combined, srcMirror[i])
           allDir2 == Override(srcDir[i], w[x].allDir)
           st == [w[x] EXCEPT !.todo = left, !.seen = seen2, !.combined = combined2,
                              !.allDir = allDir2]
<1>1. /\ UNCHANGED <<ad, ldapSources, sourceVars, combinedVars, ldapSeeded, budget, history>>
      /\ Become(x, st)
      /\ changelog' = IF w[x].announce THEN changelog \cup Announcements(x, srcMirror[i])
                                       ELSE changelog
      /\ DOMAIN w[x].todo # {}
  BY DEF Gather
<1>2. /\ w[x] \in WorkerState /\ w[x].pc = "gather"
      /\ Careful(w[x], steady, srcMirror, ldapSeeded, published)
  BY DEF IInv, WorkersOK, Gather, At
<1>3. i \in SourceIds /\ srcMirror[i] \in MirrorMap /\ srcDir[i] \in DirectoryMap
  BY <1>1, CurProperties DEF IInv, SharedOK, DataTypeOK
<1>4. left \in PartialFcns(SourceIds, LdapSource) /\ DOMAIN left = DOMAIN w[x].todo \ {i}
  <2>1. w[x].todo \in PartialFcns(SourceIds, LdapSource)
    BY <1>2 DEF WorkerState
  <2> HIDE DEF i
  <2> QED BY <2>1, WithoutProperties
<1>5. /\ combined2 \in MirrorMap
      /\ DOMAIN combined2 = DOMAIN w[x].combined \cup DOMAIN srcMirror[i]
  <2>1. w[x].combined \in MirrorMap
    BY <1>2 DEF WorkerState
  <2> HIDE DEF i
  <2> QED BY <1>3, <2>1, MirrorOverride
<1>6. allDir2 \in DirectoryMap
  <2>1. w[x].allDir \in DirectoryMap
    BY <1>2 DEF WorkerState
  <2> HIDE DEF i
  <2> QED BY <1>3, <2>1, OverrideProperties DEF DirectoryMap
<1>7. PersonsOf(srcMirror[i]) \subseteq Persons
  <2>1. DOMAIN srcMirror[i] \subseteq Placements
    BY <1>3, PartialProperties DEF MirrorMap
  <2> HIDE DEF i
  <2> QED BY <2>1 DEF PersonsOf, Placements
<1>8. seen2 \in SUBSET Persons
  BY <1>2, <1>7 DEF WorkerState
<1> HIDE DEF left, seen2, combined2, allDir2
<1>9. /\ st \in WorkerState /\ st.pc = "gather" /\ st.todo = left /\ st.combined = combined2
      /\ st.announce = w[x].announce /\ st.old = w[x].old
  BY <1>2, <1>4, <1>5, <1>6, <1>8 DEF WorkerState
<1> HIDE DEF st, i
<1>10. /\ \A t \in steady : Held(t, srcMirror[t[1]])
       /\ \A t \in steady : t[1] \in DOMAIN w[x].todo \/ Held(t, w[x].combined)
       /\ w[x].announce => ldapSeeded
       /\ w[x].announce => \A t \in steady : t[2] \in PersonsOf(w[x].old)
  BY <1>2 DEF Careful, RebuildPcs
<1>11. \A t \in steady : t[1] \in DOMAIN left \/ Held(t, combined2)
  BY <1>4, <1>5, <1>10 DEF Held
<1>12. Careful(st, steady, srcMirror, ldapSeeded, published)
  BY <1>9, <1>10, <1>11 DEF Careful, Fetching, RebuildPcs
<1>13. Careful(st, steady', srcMirror', ldapSeeded', published')
  BY <1>1, <1>12 DEF sourceVars, history
<1>14. w[x].announce => \A e \in Announcements(x, srcMirror[i]) :
                          e \in LogEntry /\ (e.type = "Employee" => e.person \notin PersonsOf(w[x].old))
  <2> DEFINE m == srcMirror[i]
             new == PersonsOf(m) \ w[x].seen
             unknown == new \ PersonsOf(w[x].old)
  <2>1. \A p \in PersonsOf(m) : p \in Persons /\ FirstTitle(m, p) \in Titles
    BY <1>3, <1>7, FirstTitleProperties
  <2>2. SUFFICES ASSUME NEW e \in Announcements(x, m)
                 PROVE  e \in LogEntry /\ (e.type = "Employee" => e.person \notin PersonsOf(w[x].old))
    OBVIOUS
  <2>3. \/ \E p \in unknown : e = [type |-> "Employee", person |-> p, new |-> FirstTitle(m, p)]
        \/ \E p \in new : e = [type |-> "Title", person |-> p, new |-> FirstTitle(m, p)]
    BY <2>2 DEF Announcements
  <2> HIDE DEF m
  <2>4. CASE \E p \in unknown : e = [type |-> "Employee", person |-> p, new |-> FirstTitle(m, p)]
    BY <2>1, <2>4 DEF LogEntry
  <2>5. CASE \E p \in new : e = [type |-> "Title", person |-> p, new |-> FirstTitle(m, p)]
    BY <2>1, <2>5 DEF LogEntry
  <2> QED BY <2>3, <2>4, <2>5
<1>15. changelog' \subseteq LogEntry /\ NeverAnnouncedAsNew'
  <2>1. changelog \subseteq LogEntry /\ NeverAnnouncedAsNew
    BY DEF IInv, SharedOK, DataTypeOK
  <2>2. \A e \in changelog' : \/ e \in changelog
                              \/ w[x].announce /\ e \in Announcements(x, srcMirror[i])
    BY <1>1
  <2>3. changelog' \subseteq LogEntry
    BY <1>14, <2>1, <2>2
  <2>4. ASSUME NEW t \in steady, NEW e \in changelog', e.type = "Employee", e.person = t[2]
        PROVE  FALSE
    BY <1>10, <1>14, <2>1, <2>2, <2>4 DEF NeverAnnouncedAsNew
  <2>5. steady' = steady
    BY <1>1 DEF history
  <2> QED BY <2>3, <2>4, <2>5 DEF NeverAnnouncedAsNew
<1>16. DataTypeOK'
  BY <1>1, <1>15 DEF IInv, SharedOK, DataTypeOK, sourceVars, combinedVars, history
<1>17. SteadyIsLive' /\ SeededIsComplete' /\ StaysPublished'
  BY <1>1 DEF IInv, SharedOK, SteadyIsLive, LivePlacements, SeededIsComplete, StaysPublished,
              sourceVars, combinedVars, history
<1>18. SharedOK'
  BY <1>15, <1>16, <1>17 DEF SharedOK
<1> QED BY <1>1, <1>9, <1>13, <1>18, WorkerStep DEF sourceVars, history

LEMMA ReplaceDirectoryKeeps ==
    ASSUME IInv, NEW x \in Workers, ReplaceDirectory(x) PROVE IInv'
<1> DEFINE st == [w[x] EXCEPT !.pc = "replacemirror"]
<1>1. /\ UNCHANGED <<ad, ldapSources, sourceVars, ldapmirror, ldapSeeded, changelog, budget, history>>
      /\ directory' = w[x].allDir /\ Become(x, st) /\ DOMAIN w[x].todo = {}
  BY DEF ReplaceDirectory, Goto
<1>2. /\ w[x] \in WorkerState /\ w[x].pc = "gather" /\ w[x].allDir \in DirectoryMap
      /\ Careful(w[x], steady, srcMirror, ldapSeeded, published)
  BY DEF IInv, WorkersOK, ReplaceDirectory, At, WorkerState
<1>3. st \in WorkerState /\ st.pc = "replacemirror" /\ st.combined = w[x].combined
  BY <1>2 DEF WorkerState, RebuildPcs
<1> HIDE DEF st
<1>4. /\ \A t \in steady : Held(t, srcMirror[t[1]])
      /\ \A t \in steady : Held(t, w[x].combined)
  BY <1>1, <1>2 DEF Careful, RebuildPcs
<1>5. Careful(st, steady, srcMirror, ldapSeeded, published)
  BY <1>3, <1>4 DEF Careful, Fetching, RebuildPcs
<1>6. Careful(st, steady', srcMirror', ldapSeeded', published')
  BY <1>1, <1>5 DEF sourceVars, history
<1>7. DataTypeOK'
  BY <1>1, <1>2 DEF IInv, SharedOK, DataTypeOK, sourceVars, history
<1>8. SteadyIsLive' /\ SeededIsComplete' /\ StaysPublished' /\ NeverAnnouncedAsNew'
  BY <1>1 DEF IInv, SharedOK, SteadyIsLive, LivePlacements, SeededIsComplete, StaysPublished,
              NeverAnnouncedAsNew, sourceVars, history
<1>9. SharedOK'
  BY <1>7, <1>8 DEF SharedOK
<1> QED BY <1>1, <1>3, <1>6, <1>9, WorkerStep DEF sourceVars, history

\* The combined mirror is replaced by one that holds whoever stays.
LEMMA ReplaceLdapKeeps ==
    ASSUME IInv, NEW x \in Workers, ReplaceLdap(x) PROVE IInv'
<1> DEFINE st == IF w[x].full THEN [w[x] EXCEPT !.pc = "setmeta"] ELSE Idle
<1>1. /\ UNCHANGED <<ad, ldapSources, sourceVars, directory, ldapSeeded, changelog, budget, steady>>
      /\ ldapmirror' = w[x].combined /\ published' = TRUE /\ Become(x, st)
  BY DEF ReplaceLdap, Goto, Done
<1>2. /\ w[x] \in WorkerState /\ w[x].pc = "replacemirror" /\ w[x].combined \in MirrorMap
      /\ Careful(w[x], steady, srcMirror, ldapSeeded, published)
  BY DEF IInv, WorkersOK, ReplaceLdap, At, WorkerState
<1>3. st \in WorkerState /\ st.pc \in {"setmeta", "idle"}
  <2>1. [w[x] EXCEPT !.pc = "setmeta"] \in WorkerState
        /\ [w[x] EXCEPT !.pc = "setmeta"].pc = "setmeta"
    BY <1>2 DEF WorkerState, RebuildPcs
  <2>2. Idle \in WorkerState /\ Idle.pc = "idle"
    BY IdleIsWorkerState DEF Idle
  <2> QED BY <2>1, <2>2
<1> HIDE DEF st
<1>4. /\ \A t \in steady : Held(t, srcMirror[t[1]])
      /\ \A t \in steady : Held(t, w[x].combined)
  BY <1>2 DEF Careful, RebuildPcs
<1>5. Careful(st, steady, srcMirror, ldapSeeded, TRUE)
  BY <1>3, <1>4 DEF Careful, Fetching, RebuildPcs
<1>6. Careful(st, steady', srcMirror', ldapSeeded', published')
  BY <1>1, <1>5 DEF sourceVars
<1>7. DataTypeOK'
  BY <1>1, <1>2 DEF IInv, SharedOK, DataTypeOK, sourceVars
<1>8. StaysPublished'
  BY <1>1, <1>4 DEF StaysPublished, Held
<1>9. SteadyIsLive' /\ SeededIsComplete' /\ NeverAnnouncedAsNew'
  BY <1>1 DEF IInv, SharedOK, SteadyIsLive, LivePlacements, SeededIsComplete,
              NeverAnnouncedAsNew, sourceVars
<1>10. SharedOK'
  BY <1>7, <1>8, <1>9 DEF SharedOK
<1> QED BY <1>1, <1>3, <1>6, <1>10, WorkerStep DEF sourceVars

LEMMA SetSeededKeeps ==
    ASSUME IInv, NEW x \in Workers, SetSeeded(x) PROVE IInv'
<1> DEFINE st == Idle
<1>1. /\ UNCHANGED <<ad, ldapSources, sourceVars, combinedVars, changelog, budget, history>>
      /\ ldapSeeded' = TRUE /\ Become(x, st)
  BY DEF SetSeeded, Done
<1>2. /\ w[x].pc = "setmeta"
      /\ Careful(w[x], steady, srcMirror, ldapSeeded, published)
  BY DEF IInv, WorkersOK, SetSeeded, At
<1>3. st \in WorkerState /\ st.pc = "idle"
  BY IdleIsWorkerState DEF Idle
<1> HIDE DEF st
<1>4. published /\ \A t \in steady : Held(t, srcMirror[t[1]])
  BY <1>2 DEF Careful, RebuildPcs
<1>5. Careful(st, steady, srcMirror, TRUE, published)
  BY <1>3 DEF Careful, Fetching, RebuildPcs
<1>6. Careful(st, steady', srcMirror', ldapSeeded', published')
  BY <1>1, <1>5 DEF sourceVars, history
<1>7. DataTypeOK'
  BY <1>1 DEF IInv, SharedOK, DataTypeOK, sourceVars, combinedVars, history
<1>8. SeededIsComplete'
  BY <1>1, <1>4 DEF SeededIsComplete, sourceVars, history
<1>9. SteadyIsLive' /\ StaysPublished' /\ NeverAnnouncedAsNew'
  BY <1>1 DEF IInv, SharedOK, SteadyIsLive, LivePlacements, StaysPublished,
              NeverAnnouncedAsNew, combinedVars, history
<1>10. SharedOK'
  BY <1>7, <1>8, <1>9 DEF SharedOK
<1> QED BY <1>1, <1>3, <1>6, <1>10, WorkerStep DEF sourceVars, history
-----------------------------------------------------------------------------
(* The steps of an administrator                                           *)

LEMMA ModifySourceKeeps ==
    ASSUME IInv, NEW r \in Requests, ModifySource(r) PROVE IInv'
<1>1. r \in Workers
  BY DEF Workers
<1>2. /\ UNCHANGED <<ad, ldapSources, sourceVars, combinedVars, ldapSeeded, changelog, history>>
      /\ budget' \in Budgets
  BY SpendProperties DEF ModifySource, IInv, SharedOK, DataTypeOK
<1>3. PICK i \in DOMAIN ldapSources, d \in BOOLEAN, c \in Confs :
        Become(r, [Idle EXCEPT !.pc = "put", !.todo = [j \in {i} |-> [disabled |-> d, conf |-> c]]])
  BY DEF ModifySource
<1> DEFINE one == [j \in {i} |-> [disabled |-> d, conf |-> c]]
           st == [Idle EXCEPT !.pc = "put", !.todo = one]
<1>4. one \in PartialFcns(SourceIds, LdapSource)
  <2>1. i \in SourceIds
    BY PartialProperties DEF IInv, SharedOK, DataTypeOK
  <2>2. [disabled |-> d, conf |-> c] \in LdapSource
    BY DEF LdapSource
  <2> QED BY <2>1, <2>2, OneIsPartial
<1>5. Become(r, st)
  BY <1>3
<1> HIDE DEF one
<1>6. st \in WorkerState /\ st.pc = "put"
  BY <1>4, IdleIsWorkerState DEF WorkerState, AdminPcs
<1> HIDE DEF st
<1> QED BY <1>1, <1>2, <1>5, <1>6, QuietStep

LEMMA CreateSourceKeeps ==
    ASSUME IInv, NEW r \in Requests, CreateSource(r) PROVE IInv'
<1>1. r \in Workers
  BY DEF Workers
<1>2. /\ UNCHANGED <<ad, ldapSources, sourceVars, combinedVars, ldapSeeded, changelog, history>>
      /\ budget' \in Budgets
  BY SpendProperties DEF CreateSource, IInv, SharedOK, DataTypeOK
<1>3. PICK c \in Confs :
        Become(r, [Idle EXCEPT !.pc = "put",
                               !.todo = [j \in {NextLdapID} |-> [disabled |-> FALSE, conf |-> c]]])
  BY DEF CreateSource
<1> DEFINE one == [j \in {NextLdapID} |-> [disabled |-> FALSE, conf |-> c]]
           st == [Idle EXCEPT !.pc = "put", !.todo = one]
<1>4. one \in PartialFcns(SourceIds, LdapSource)
  <2>1. NextLdapID \in SourceIds
    BY DEF CreateSource
  <2>2. [disabled |-> FALSE, conf |-> c] \in LdapSource
    BY DEF LdapSource
  <2> QED BY <2>1, <2>2, OneIsPartial
<1>5. Become(r, st)
  BY <1>3
<1> HIDE DEF one
<1>6. st \in WorkerState /\ st.pc = "put"
  BY <1>4, IdleIsWorkerState DEF WorkerState, AdminPcs
<1> HIDE DEF st
<1> QED BY <1>1, <1>2, <1>5, <1>6, QuietStep

LEMMA AdminPutKeeps ==
    ASSUME IInv, NEW r \in Workers, AdminPut(r) PROVE IInv'
<1> DEFINE st == Idle
<1>1. /\ UNCHANGED <<ad, sourceVars, combinedVars, ldapSeeded, changelog, budget, published>>
      /\ ldapSources' = Override(ldapSources, w[r].todo)
      /\ Become(r, st) /\ Interrupt
  BY DEF AdminPut, Done
<1>2. /\ ad' \in [SourceIds -> DirectoryMap] /\ budget' \in Budgets
      /\ ldapSources \in PartialFcns(SourceIds, LdapSource)
      /\ w[r].todo \in PartialFcns(SourceIds, LdapSource)
  BY <1>1 DEF IInv, SharedOK, WorkersOK, DataTypeOK, WorkerState
<1>3. ldapSources' \in PartialFcns(SourceIds, LdapSource)
  BY <1>1, <1>2, OverrideProperties
<1>4. SharedOK' /\ steady' \subseteq steady
  BY <1>1, <1>2, <1>3, InterruptedStays
<1>5. st \in WorkerState /\ st.pc = "idle"
  BY IdleIsWorkerState DEF Idle
<1> HIDE DEF st
<1>6. Careful(st, steady', srcMirror', ldapSeeded', published')
  BY <1>5 DEF Careful, Fetching, RebuildPcs
<1> QED BY <1>1, <1>4, <1>5, <1>6, WorkerStep DEF sourceVars

\* Nobody stays in a source that is gone, even if its id is used again.
LEMMA DeleteSourceKeeps ==
    ASSUME IInv, NEW r \in Requests, DeleteSource(r) PROVE IInv'
<1>1. r \in Workers
  BY DEF Workers
<1>2. PICK i \in DOMAIN ldapSources :
        /\ ldapSources' = Without(ldapSources, i)
        /\ Become(r, [Idle EXCEPT !.pc = "delmirror", !.todo = [j \in {i} |-> ldapSources[j]]])
  BY DEF DeleteSource
<1>3. /\ UNCHANGED <<ad, sourceVars, combinedVars, ldapSeeded, changelog, published>>
      /\ Interrupt
  BY DEF DeleteSource
<1>4. budget' \in Budgets
  BY SpendProperties DEF DeleteSource, IInv, SharedOK, DataTypeOK
<1>5. /\ ad' \in [SourceIds -> DirectoryMap]
      /\ ldapSources \in PartialFcns(SourceIds, LdapSource)
  BY <1>3 DEF IInv, SharedOK, DataTypeOK
<1>6. /\ ldapSources' \in PartialFcns(SourceIds, LdapSource)
      /\ DOMAIN ldapSources' = DOMAIN ldapSources \ {i}
  BY <1>2, <1>5, WithoutProperties
<1>7. SharedOK' /\ steady' \subseteq steady
  BY <1>3, <1>4, <1>5, <1>6, InterruptedStays
<1> DEFINE one == [j \in {i} |-> ldapSources[j]]
           st == [Idle EXCEPT !.pc = "delmirror", !.todo = one]
<1>8. one \in PartialFcns(SourceIds, LdapSource) /\ DOMAIN one = {i}
  <2> DEFINE same == [j \in {i} |-> ldapSources[i]]
  <2>1. i \in SourceIds /\ ldapSources[i] \in LdapSource
    BY <1>5, PartialProperties
  <2>2. one = same /\ DOMAIN one = {i}
    OBVIOUS
  <2>3. same \in PartialFcns(SourceIds, LdapSource)
    BY <2>1, OneIsPartial
  <2> HIDE DEF one, same
  <2> QED BY <2>2, <2>3
<1>9. Become(r, st)
  BY <1>2
<1> HIDE DEF one
<1>10. st \in WorkerState /\ st.pc = "delmirror" /\ st.todo = one
  BY <1>8, IdleIsWorkerState DEF WorkerState, AdminPcs
<1> HIDE DEF st
<1>11. \A t \in steady' : t[1] \notin DOMAIN st.todo
  <2>1. \A t \in steady' : t[1] \in DOMAIN ldapSources'
    BY <1>3 DEF Interrupt, LivePlacements, Enabled
  <2> QED BY <1>6, <1>8, <1>10, <2>1
<1>12. DOMAIN st.todo # {}
  BY <1>8, <1>10
<1>13. Careful(st, steady', srcMirror', ldapSeeded', published')
  BY <1>10, <1>11, <1>12 DEF Careful, Fetching, RebuildPcs
<1> QED BY <1>1, <1>3, <1>7, <1>9, <1>10, <1>13, WorkerStep DEF sourceVars

LEMMA DeleteSourceMirrorKeeps ==
    ASSUME IInv, NEW r \in Workers, DeleteSourceMirror(r) PROVE IInv'
<1> DEFINE st == [w[r] EXCEPT !.pc = "deldir"]
<1>1. /\ UNCHANGED <<ad, ldapSources, srcDir, combinedVars, ldapSeeded, changelog, budget, history>>
      /\ srcMirror' = [srcMirror EXCEPT ![Cur(r)] = Empty]
      /\ Become(r, st)
  BY DEF DeleteSourceMirror, Goto
<1>2. /\ w[r] \in WorkerState /\ w[r].pc = "delmirror"
      /\ Careful(w[r], steady, srcMirror, ldapSeeded, published)
  BY DEF IInv, WorkersOK, DeleteSourceMirror, At
<1>3. st \in WorkerState /\ st.pc = "deldir"
  BY <1>2 DEF WorkerState, AdminPcs
<1>4. Empty \in MirrorMap
  BY EmptyIsPartial DEF MirrorMap
<1>5. DOMAIN w[r].todo # {}
  BY <1>2 DEF Careful
<1>6. Cur(r) \in DOMAIN w[r].todo
  BY <1>5, CurProperties DEF IInv
<1>7. /\ steady \subseteq SourceIds \X Persons \X Offices
      /\ srcMirror \in [SourceIds -> MirrorMap]
  BY DEF IInv, SharedOK, DataTypeOK
<1> HIDE DEF st
<1>8. \A t \in steady : srcMirror'[t[1]] = srcMirror[t[1]]
  <2> TAKE t \in steady
  <2>1. t[1] # Cur(r)
    BY <1>2, <1>6 DEF Careful
  <2>2. t[1] \in SourceIds
    BY <1>7
  <2> QED BY <1>1, <1>7, <2>1, <2>2
<1>9. DataTypeOK'
  BY <1>1, <1>4 DEF IInv, SharedOK, DataTypeOK, combinedVars, history
<1>10. SteadyIsLive' /\ StaysPublished' /\ NeverAnnouncedAsNew'
  BY <1>1 DEF IInv, SharedOK, SteadyIsLive, LivePlacements, StaysPublished,
              NeverAnnouncedAsNew, combinedVars, history
<1>11. SeededIsComplete'
  BY <1>1, <1>8 DEF IInv, SharedOK, SeededIsComplete, history
<1>12. SharedOK'
  BY <1>9, <1>10, <1>11 DEF SharedOK
<1>13. Careful(st, steady', srcMirror', ldapSeeded', published')
  BY <1>3 DEF Careful, Fetching, RebuildPcs
<1>14. \A t \in steady' : Held(t, srcMirror[t[1]]) => Held(t, srcMirror'[t[1]])
  BY <1>1, <1>8 DEF history
<1> QED BY <1>1, <1>3, <1>12, <1>13, <1>14, WorkerStep DEF history

LEMMA DeleteSourceDirKeeps ==
    ASSUME IInv, NEW r \in Workers, DeleteSourceDir(r) PROVE IInv'
<1> DEFINE st == [w[r] EXCEPT !.pc = "delmeta"]
<1>1. /\ UNCHANGED <<ad, ldapSources, srcMirror, combinedVars, ldapSeeded, changelog, budget, history>>
      /\ srcDir' = [srcDir EXCEPT ![Cur(r)] = Empty]
      /\ Become(r, st)
  BY DEF DeleteSourceDir, Goto
<1>2. w[r] \in WorkerState
  BY DEF IInv, WorkersOK
<1>3. st \in WorkerState /\ st.pc = "delmeta"
  BY <1>2 DEF WorkerState, AdminPcs
<1>4. Empty \in DirectoryMap
  BY EmptyIsPartial DEF DirectoryMap
<1> HIDE DEF st
<1>5. DataTypeOK'
  BY <1>1, <1>4 DEF IInv, SharedOK, DataTypeOK, combinedVars, history
<1>6. SteadyIsLive' /\ SeededIsComplete' /\ StaysPublished' /\ NeverAnnouncedAsNew'
  BY <1>1 DEF IInv, SharedOK, SteadyIsLive, LivePlacements, SeededIsComplete, StaysPublished,
              NeverAnnouncedAsNew, combinedVars, history
<1>7. SharedOK'
  BY <1>5, <1>6 DEF SharedOK
<1>8. Careful(st, steady', srcMirror', ldapSeeded', published')
  BY <1>3 DEF Careful, Fetching, RebuildPcs
<1> QED BY <1>1, <1>3, <1>7, <1>8, WorkerStep DEF history

LEMMA RebuildIfSeededKeeps ==
    ASSUME IInv, NEW r \in Workers, RebuildIfSeeded(r) PROVE IInv'
<1>1. /\ UNCHANGED <<ad, ldapSources, sourceVars, combinedVars, ldapSeeded, changelog, history>>
      /\ budget' \in Budgets
  BY DEF RebuildIfSeeded, IInv, SharedOK, DataTypeOK
<1>2. CASE ~ldapSeeded
  <2>1. Done(r)
    BY <1>2 DEF RebuildIfSeeded
  <2> QED BY <1>1, <2>1, DoneStep
<1>3. CASE ldapSeeded
  <2> DEFINE st == [Idle EXCEPT !.pc = "list", !.announce = TRUE]
  <2>1. st \in WorkerState /\ st.pc = "list"
    BY IdleIsWorkerState DEF WorkerState, RebuildPcs
  <2>2. Become(r, st)
    BY <1>3 DEF RebuildIfSeeded
  <2> HIDE DEF st
  <2>3. \A t \in steady : Held(t, srcMirror[t[1]])
    BY <1>3 DEF IInv, SharedOK, SeededIsComplete
  <2>4. Careful(st, steady, srcMirror, ldapSeeded, published)
    BY <1>3, <2>1, <2>3 DEF Careful, Fetching, RebuildPcs
  <2> QED BY <1>1, <2>1, <2>2, <2>4, LocalStep
<1> QED BY <1>2, <1>3
-----------------------------------------------------------------------------
(* The theorems                                                            *)

\* The combined mirror of some sources is one, and shows what any of them shows.
LEMMA CombinedProperties ==
    ASSUME NEW S \in SUBSET SourceIds, NEW mirrors \in [SourceIds -> MirrorMap]
    PROVE  /\ Combined(S, mirrors) \in MirrorMap
           /\ DOMAIN Combined(S, mirrors) = UNION {DOMAIN mirrors[i] : i \in S}
<1> DEFINE D == UNION {DOMAIN mirrors[i] : i \in S}
           holders(k) == {i \in S : k \in DOMAIN mirrors[i]}
           last(k) == CHOOSE i \in holders(k) : \A j \in holders(k) : j <= i
<1>1. Combined(S, mirrors) = [k \in D |-> mirrors[last(k)][k]]
  BY DEF Combined
<1>2. \A i \in S : DOMAIN mirrors[i] \subseteq Placements
                  /\ \A k \in DOMAIN mirrors[i] : mirrors[i][k] \in Titles
  <2> TAKE i \in S
  <2>1. mirrors[i] \in PartialFcns(Placements, Titles)
    BY DEF MirrorMap
  <2> DEFINE Q == Placements
  <2> HIDE DEF Q
  <2> QED BY <2>1, PartialProperties
<1>3. D \in SUBSET Placements
  BY <1>2
<1>4. ASSUME NEW k \in D PROVE mirrors[last(k)][k] \in Titles
  <2>1. holders(k) \in SUBSET SourceIds /\ holders(k) # {}
    OBVIOUS
  <2>2. IsFiniteSet(holders(k)) /\ holders(k) \in SUBSET Nat
    BY <2>1, FS_Subset, SourcesAssumption
  <2> HIDE DEF holders
  <2>3. \E i \in holders(k) : \A j \in holders(k) : j <= i
    BY <2>1, <2>2, LargestExists
  <2>4. last(k) \in holders(k)
    BY <2>3
  <2> HIDE DEF last
  <2> QED BY <1>2, <2>4 DEF holders
<1> HIDE DEF D, last
<1>5. Combined(S, mirrors) \in [D -> Titles]
  BY <1>1, <1>4
<1>6. Combined(S, mirrors) \in MirrorMap
  BY <1>3, <1>5 DEF MirrorMap, PartialFcns
<1>7. DOMAIN Combined(S, mirrors) = D
  BY <1>1
<1> QED BY <1>6, <1>7 DEF D

LEMMA InitIInv == Init => IInv
<1> SUFFICES ASSUME Init PROVE IInv
  OBVIOUS
<1>1. /\ ad \in [SourceIds -> DirectoryMap]
      /\ ldapSources \in PartialFcns(SourceIds, LdapSource)
      /\ steady = LivePlacements /\ changelog = {} /\ ldapSeeded = FALSE
      /\ w = [x \in Workers |-> Idle]
  BY DEF Init
<1>2. Enabled(ldapSources) \in SUBSET SourceIds
  BY <1>1, PartialProperties DEF Enabled
<1>3. AllDerived(ad) \in [SourceIds -> MirrorMap]
  BY <1>1, DeriveProperties DEF AllDerived
<1>4. /\ Empty \in MirrorMap /\ Empty \in DirectoryMap
  BY EmptyIsPartial DEF MirrorMap, DirectoryMap
<1>5. ldapmirror \in MirrorMap
  <2>1. CASE published
    BY <1>2, <1>3, <2>1, CombinedProperties DEF Init
  <2>2. CASE ~published
    BY <1>4, <2>2 DEF Init
  <2> QED BY <2>1, <2>2
<1>6. budget \in Budgets
  BY BoundsAssumption DEF Init, Budgets
<1>7. steady \subseteq SourceIds \X Persons \X Offices
  BY <1>1 DEF LivePlacements
<1>8. DataTypeOK
  BY <1>4, <1>5, <1>6, <1>7 DEF Init, DataTypeOK
<1>9. StaysPublished
  <2> SUFFICES ASSUME published, NEW t \in steady PROVE Held(t, ldapmirror)
    BY DEF StaysPublished, Held
  <2>1. /\ t[1] \in Enabled(ldapSources) /\ t \in SourceIds \X Persons \X Offices
        /\ t[2] \in DOMAIN ad[t[1]] /\ t[3] \in ad[t[1]][t[2]].offices
    BY <1>1 DEF LivePlacements
  <2>2. Held(t, DeriveMirrorUsers(ad[t[1]]))
    BY <1>1, <2>1, DeriveProperties
  <2>3. Held(t, AllDerived(ad)[t[1]])
    BY <2>1, <2>2 DEF AllDerived
  <2>4. ldapmirror = Combined(Enabled(ldapSources), AllDerived(ad))
    BY DEF Init
  <2>5. DOMAIN ldapmirror = UNION {DOMAIN AllDerived(ad)[i] : i \in Enabled(ldapSources)}
    BY <1>2, <1>3, <2>4, CombinedProperties
  <2> QED BY <2>1, <2>3, <2>5 DEF Held
<1>10. SharedOK
  BY <1>1, <1>8, <1>9 DEF SharedOK, SteadyIsLive, SeededIsComplete, NeverAnnouncedAsNew
<1>11. WorkersOK
  <2> DEFINE st == Idle
  <2>1. st \in WorkerState /\ st.pc = "idle"
    BY IdleIsWorkerState DEF Idle
  <2>2. w \in [Workers -> WorkerState] /\ \A x \in Workers : w[x] = st
    BY <1>1, <2>1
  <2> HIDE DEF st
  <2>3. Careful(st, steady, srcMirror, ldapSeeded, published)
    BY <2>1, QuietIsCareful
  <2> QED BY <2>2, <2>3 DEF WorkersOK
<1> QED BY <1>10, <1>11 DEF IInv

LEMMA WorkKeeps ==
    ASSUME IInv, NEW x \in Workers, Work(x) PROVE IInv'
<1>1. CASE FetchOk(x)            BY <1>1, FetchOkKeeps
<1>2. CASE FetchFails(x)         BY <1>2, FetchFailsKeeps
<1>3. CASE SingleStart(x)        BY <1>3, SingleStartKeeps
<1>4. CASE Begin(x)              BY <1>4, BeginKeeps
<1>5. CASE PutSourceDir(x)       BY <1>5, PutSourceDirKeeps
<1>6. CASE PutSourceMirror(x)    BY <1>6, PutSourceMirrorKeeps
<1>7. CASE PutLdapSource(x)      BY <1>7, PutLdapSourceKeeps
<1>8. CASE ReadSeeded(x)         BY <1>8, ReadSeededKeeps
<1>9. CASE ListSources(x)        BY <1>9, ListSourcesKeeps
<1>10. CASE SnapshotMirror(x)    BY <1>10, SnapshotMirrorKeeps
<1>11. CASE Gather(x)            BY <1>11, GatherKeeps
<1>12. CASE ReplaceDirectory(x)  BY <1>12, ReplaceDirectoryKeeps
<1>13. CASE ReplaceLdap(x)       BY <1>13, ReplaceLdapKeeps
<1>14. CASE SetSeeded(x)         BY <1>14, SetSeededKeeps
<1>15. CASE AdminPut(x)          BY <1>15, AdminPutKeeps
<1>16. CASE DeleteSourceMirror(x) BY <1>16, DeleteSourceMirrorKeeps
<1>17. CASE DeleteSourceDir(x)   BY <1>17, DeleteSourceDirKeeps
<1>18. CASE RebuildIfSeeded(x)   BY <1>18, RebuildIfSeededKeeps
<1> QED
  BY <1>1, <1>2, <1>3, <1>4, <1>5, <1>6, <1>7, <1>8, <1>9, <1>10, <1>11, <1>12, <1>13,
     <1>14, <1>15, <1>16, <1>17, <1>18 DEF Work, Proceed

LEMMA NextIInv == IInv /\ [Next]_vars => IInv'
<1> SUFFICES ASSUME IInv, [Next]_vars PROVE IInv'
  OBVIOUS
<1>1. CASE HRChange
  BY <1>1, HRChangeKeeps
<1>2. CASE Crash
  BY <1>2, CrashKeeps
<1>3. CASE ScheduledSync
  BY <1>3, ScheduledSyncKeeps
<1>4. ASSUME NEW r \in Requests, Request(r) PROVE IInv'
  BY <1>4, HandleRestLdapSyncKeeps, HandleRestLdapKeeps, ModifySourceKeeps, CreateSourceKeeps,
     DeleteSourceKeeps DEF Request
<1>5. ASSUME NEW x \in Workers, Work(x) PROVE IInv'
  BY <1>5, WorkKeeps
<1>6. CASE UNCHANGED vars
  <2>1. SharedOK'
    BY <1>6 DEF IInv, SharedOK, DataTypeOK, SteadyIsLive, LivePlacements, SeededIsComplete,
                StaysPublished, NeverAnnouncedAsNew, vars
  <2>2. WorkersOK'
    BY <1>6 DEF IInv, WorkersOK, vars
  <2> QED BY <2>1, <2>2 DEF IInv
<1> QED BY <1>1, <1>2, <1>3, <1>4, <1>5, <1>6 DEF Next

\* What every worker has in hand is enough, in every reachable state.
THEOREM SyncInvariance == Spec => []IInv
<1> QED BY InitIInv, NextIInv, PTL DEF Spec

\* The buckets, the locals of every worker and the histories have their types,
\* for any sources, people, offices, titles and number of handlers.
THEOREM SyncTyping == Spec => []TypeOK
<1> QED BY SyncInvariance, IInvImpliesTypeOK, PTL

\* Nobody who stays in an enabled source drops off the combined mirror that
\* RebuildLdapMirror publishes, whatever syncs, edits and crashes overlap.
THEOREM NobodyDropsOff == Spec => []StaysPublished
<1>1. IInv => StaysPublished
  BY DEF IInv, SharedOK
<1> QED BY <1>1, SyncInvariance, PTL

\* No rebuild announces, as a new employee, a person who was there all along.
THEOREM NobodyAnnouncedAgain == Spec => []NeverAnnouncedAsNew
<1>1. IInv => NeverAnnouncedAsNew
  BY DEF IInv, SharedOK
<1> QED BY <1>1, SyncInvariance, PTL
=============================================================================
