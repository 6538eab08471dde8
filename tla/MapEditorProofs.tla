-------------------------- MODULE MapEditorProofs --------------------------
(***************************************************************************)
(* What MapEditor guarantees for any number of items, any set of types and *)
(* any number of requests under way.                                       *)
(***************************************************************************)
EXTENDS MapEditor, FiniteSetTheorems, TLAPS

-----------------------------------------------------------------------------
(* The inductive invariant.  NoRobinStored is not inductive: a stored item *)
(* is as clean as the request it comes from, that one as the form, and the *)
(* form as what InputOf finds in the row it is filled from.                *)

CleanConfig == [type : Types, texts : {"own", ""}]
CleanStored == [type : Types, texts : {"own", ""}, rail : BOOLEAN]

CleanRequest ==
    [op : {"move", "batch"}, items : SUBSET Items, rail : BOOLEAN]
    \cup [op : {"delete"}, item : Items, closes : BOOLEAN]
    \cup [op : {"update"}, item : Items, cfg : CleanConfig, closes : BOOLEAN]
    \cup [op : {"create"}, cfg : CleanConfig, closes : BOOLEAN]

CleanCreate  == [op : {"create"}, cfg : CleanConfig, closes : BOOLEAN]
CleanHandler == [request : MoveRequest \cup CleanCreate, left : SUBSET (Items \cup {New}),
                 write : [item : Items, value : CleanStored] \cup {NoWrite},
                 lost : BOOLEAN, overtaken : BOOLEAN]

\* A moving handler reads items there may be, a creating one the next id.
LeftFits(h) == h.left \subseteq IF h.request.op = "create" THEN {New} ELSE Items

\* Unless the item was written since, what a moving handler holds is that item.
CopyHolds(h) ==
    h.request.op \in {"move", "batch"} /\ h.write # NoWrite /\ ~h.overtaken =>
        /\ stored[h.write.item] # Gone
        /\ h.write.value.type = stored[h.write.item].type
        /\ h.write.value.texts = stored[h.write.item].texts

HandlersOK == \A h \in handlers : h \in CleanHandler /\ LeftFits(h) /\ CopyHolds(h)

ServerOK ==
    /\ stored \in [Items -> CleanStored \cup {Gone}]
    /\ seated \in [Items -> {"none", "robin", "directory"}]

CleanRow(row) == row \in Row \cup {Gone} /\ (row # Gone => InputOf(row) \in CleanConfig)

SeenOK == seen \in [Items -> Row \cup {Gone}] /\ \A i \in Items : CleanRow(seen[i])

PageOK ==
    /\ mode \in {"user", "edit"}
    /\ {handles, refused} \subseteq BOOLEAN /\ forced \in 0..MaxForced
    /\ migrating \subseteq Items

FormOK == form \in {NoForm} \cup [kind : {"create"}, cfg : CleanConfig]
                   \cup [kind : {"edit"}, item : Items, cfg : CleanConfig]

ToolsOK ==
    /\ drag \in {NoDrag} \cup [item : Items, floor : BOOLEAN]
    /\ tool \in [step : {"off", "select", "preview"}, items : SUBSET Items]

RequestsOK ==
    /\ requests \subseteq CleanRequest
    /\ IsFiniteSet(requests) /\ Cardinality(requests) =< MaxRequests

IInv ==
    /\ ServerOK /\ HandlersOK /\ SeenOK /\ PageOK /\ FormOK /\ ToolsOK /\ RequestsOK
    /\ MigrationIsAwaited /\ HandlesFollowMode /\ FormNeedsEditMode

LEMMA IInvImpliesEditorInStep == IInv => EditorInStep
<1> SUFFICES ASSUME IInv PROVE EditorInStep
  OBVIOUS
<1>1. CleanConfig \subseteq Config /\ CleanStored \subseteq Stored
  BY DEF CleanConfig, Config, CleanStored, Stored
<1>2. EditorTypeOK
  <2>1. stored \in [Items -> Stored \cup {Gone}]
    BY <1>1 DEF IInv, ServerOK
  <2>2. form \in {NoForm} \cup [kind : {"create"}, cfg : Config]
                 \cup [kind : {"edit"}, item : Items, cfg : Config]
    BY <1>1 DEF IInv, FormOK
  <2>3. requests \subseteq MoveRequest \cup DeleteRequest \cup UpdateRequest \cup CreateRequest
    BY <1>1 DEF IInv, RequestsOK, CleanRequest, MoveRequest, DeleteRequest, UpdateRequest,
                CreateRequest
  <2>4. handlers \subseteq Handler
    <3>1. CleanHandler \subseteq Handler
      BY <1>1 DEF CleanHandler, Handler, CleanCreate, CreateRequest
    <3> QED BY <3>1 DEF IInv, HandlersOK
  <2> QED BY <2>1, <2>2, <2>3, <2>4
          DEF IInv, ServerOK, SeenOK, PageOK, ToolsOK, RequestsOK, EditorTypeOK
<1>3. NoRobinStored
  BY DEF IInv, ServerOK, CleanStored, NoRobinStored, Exists
<1> QED BY <1>2, <1>3 DEF IInv, EditorInStep

-----------------------------------------------------------------------------
(* Lemmas: what is stored, shown and sent.                                 *)

LEMMA TypesThereAre == {"floor", "addesk", "localdesk"} \subseteq Types
BY EditorAssumption

LEMMA ConfigIsSome == ASSUME NEW c \in CleanConfig PROVE c # None
<1>1. DOMAIN c = {"type", "texts"} /\ DOMAIN None = {"type"}
  BY DEF CleanConfig, None
<1> QED BY <1>1

LEMMA NothingIsGone ==
    ASSUME NEW s \in CleanStored PROVE s # Gone
<1>1. DOMAIN s = {"type", "texts", "rail"} /\ DOMAIN Gone = {"type"}
  BY DEF CleanStored, Gone
<1> QED BY <1>1

LEMMA RowIsRow ==
    ASSUME NEW type \in Types \cup {"occupied"}, NEW texts \in {"own", "robin", ""},
           NEW rail \in BOOLEAN, NEW config \in Config \cup {None}
    PROVE  [type |-> type, texts |-> texts, rail |-> rail, config |-> config] \in Row
BY DEF Row

\* A row keeps the configuration of its item whoever is shown in it.
LEMMA RowProperties ==
    ASSUME ServerOK, NEW i \in Items PROVE CleanRow(RowOf(i))
<1> DEFINE s == stored[i]
<1>1. CASE s = Gone
  <2>1. RowOf(i) = Gone
    BY <1>1 DEF RowOf
  <2> QED BY <2>1 DEF CleanRow
<1>2. CASE s # Gone
  <2>1. s \in CleanStored
    BY <1>2 DEF ServerOK
  <2>2. /\ s.type \in Types /\ s.texts \in {"own", ""} /\ s.rail \in BOOLEAN
        /\ [type |-> s.type, texts |-> s.texts] \in CleanConfig
    BY <2>1 DEF CleanStored, CleanConfig
  <2>3. CASE s.type # "floor" /\ seated[i] = "robin"
    <3> DEFINE c == [type |-> s.type, texts |-> s.texts]
    <3>1. RowOf(i) = [type |-> "occupied", texts |-> "robin", rail |-> s.rail, config |-> c]
      BY <1>2, <2>3 DEF RowOf
    <3>2. c # None /\ c \in Config /\ c \in CleanConfig
      BY <2>2, ConfigIsSome DEF Config, CleanConfig
    <3> HIDE DEF c
    <3>3. RowOf(i) \in Row
      BY <2>2, <3>1, <3>2, RowIsRow
    <3>4. InputOf(RowOf(i)) = c
      BY <3>1, <3>2 DEF InputOf
    <3> QED BY <3>2, <3>3, <3>4 DEF CleanRow
  <2>4. ASSUME NEW type \in Types,
               RowOf(i) = [type |-> type, texts |-> s.texts, rail |-> s.rail, config |-> None]
        PROVE  CleanRow(RowOf(i))
    <3>1. RowOf(i) \in Row
      BY <2>2, <2>4, RowIsRow
    <3>2. InputOf(RowOf(i)) = [type |-> type, texts |-> s.texts]
      BY <2>4 DEF InputOf
    <3>3. \A texts \in {"own", ""} : [type |-> type, texts |-> texts] \in CleanConfig
      BY DEF CleanConfig
    <3>4. InputOf(RowOf(i)) \in CleanConfig
      BY <2>2, <3>2, <3>3
    <3> QED BY <3>1, <3>4 DEF CleanRow
  <2>5. CASE s.type # "floor" /\ seated[i] = "directory"
    <3>1. RowOf(i) = [type |-> "addesk", texts |-> s.texts, rail |-> s.rail, config |-> None]
      BY <1>2, <2>5 DEF RowOf
    <3> QED BY <2>4, <3>1, TypesThereAre
  <2>6. CASE s.type = "floor" \/ seated[i] \notin {"robin", "directory"}
    <3>1. RowOf(i) = [type |-> s.type, texts |-> s.texts, rail |-> s.rail, config |-> None]
      BY <1>2, <2>6 DEF RowOf
    <3> QED BY <2>2, <2>4, <3>1
  <2> QED BY <2>3, <2>5, <2>6
<1> QED BY <1>1, <1>2

LEMMA FieldsProperties ==
    ASSUME NEW type \in Types, NEW input \in CleanConfig
    PROVE  FieldsAs(type, input) \in CleanConfig
BY DEF FieldsAs, CleanConfig

LEMMA EditFormProperties ==
    ASSUME SeenOK, NEW i \in Items, seen[i] # Gone, NEW type \in Types
    PROVE  EditForm(i, type) \in [kind : {"edit"}, item : Items, cfg : CleanConfig]
<1>1. InputOf(seen[i]) \in CleanConfig
  BY DEF SeenOK, CleanRow
<1>2. FieldsAs(type, InputOf(seen[i])) \in CleanConfig
  BY <1>1, FieldsProperties
<1> QED BY <1>2 DEF EditForm

LEMMA FormKinds ==
    ASSUME FormOK
    PROVE  /\ form.kind = "edit" =>
                form # NoForm /\ form.item \in Items /\ form.cfg \in CleanConfig
           /\ form.kind = "create" =>
                form # NoForm /\ form \in [kind : {"create"}, cfg : CleanConfig]
BY DEF FormOK, NoForm

LEMMA SendProperties ==
    ASSUME RequestsOK, NEW new \in SUBSET CleanRequest, IsFiniteSet(new), Send(new)
    PROVE  RequestsOK' /\ requests \subseteq requests' /\ new \subseteq requests'
<1>1. IsFiniteSet(requests \cup new)
  BY FS_Union DEF RequestsOK
<1> QED BY <1>1 DEF RequestsOK, Send

LEMMA SendOneProperties ==
    ASSUME RequestsOK, NEW r \in CleanRequest, Send({r})
    PROVE  RequestsOK' /\ requests \subseteq requests'
<1>1. IsFiniteSet({r}) /\ {r} \in SUBSET CleanRequest
  BY FS_Singleton
<1> QED BY <1>1, SendProperties

LEMMA RemoveProperties ==
    ASSUME RequestsOK, NEW r \in requests, requests' = requests \ {r}
    PROVE  RequestsOK'
<1>1. /\ IsFiniteSet(requests \ {r})
      /\ Cardinality(requests \ {r}) = Cardinality(requests) - 1
  BY FS_RemoveElement DEF RequestsOK
<1>2. Cardinality(requests) \in Nat /\ MaxRequests \in Nat
  BY FS_CardinalityType, EditorAssumption DEF RequestsOK
<1> QED BY <1>1, <1>2 DEF RequestsOK

LEMMA RequestKinds ==
    ASSUME NEW r \in CleanRequest
    PROVE  /\ r.op \in {"move", "batch", "delete", "update", "create"}
           /\ r.op \in {"move", "batch"} => r.items \in SUBSET Items /\ r.rail \in BOOLEAN
           /\ r.op \in {"delete", "update"} => r.item \in Items
           /\ r.op \in {"update", "create"} => r.cfg \in CleanConfig
BY DEF CleanRequest

LEMMA UpdateIsClean ==
    ASSUME NEW i \in Items, NEW cfg \in CleanConfig, NEW closes \in BOOLEAN
    PROVE  Update(i, cfg, closes) \in CleanRequest
BY DEF Update, CleanRequest

LEMMA CreateIsClean ==
    ASSUME NEW cfg \in CleanConfig, NEW closes \in BOOLEAN
    PROVE  Create(cfg, closes) \in CleanRequest
BY DEF Create, CleanRequest

LEMMA DeleteIsClean ==
    ASSUME NEW i \in Items, NEW closes \in BOOLEAN
    PROVE  Delete(i, closes) \in CleanRequest
BY DEF Delete, CleanRequest

LEMMA ItemIsClean ==
    ASSUME NEW cfg \in CleanConfig PROVE Item(cfg.type, cfg.texts, TRUE) \in CleanStored
BY DEF Item, CleanConfig, CleanStored

\* A move changes the place of an item.
LEMMA MovedProperties ==
    ASSUME NEW r \in MoveRequest, NEW s \in CleanStored
    PROVE  Moved(r, s) \in CleanStored /\ Moved(r, s).type = s.type /\ Moved(r, s).texts = s.texts
<1> DEFINE onRail == r.rail \/ s.type # "floor"
<1>1. onRail \in BOOLEAN
  OBVIOUS
<1>2. Moved(r, s) = [s EXCEPT !.rail = onRail]
  BY DEF Moved
<1> HIDE DEF onRail
<1> QED BY <1>1, <1>2 DEF CleanStored

-----------------------------------------------------------------------------
(* Lemmas: handlers of rest/update.                                        *)

LEMMA WriteKinds ==
    ASSUME NEW h \in CleanHandler
    PROVE  /\ h.write # NoWrite => h.write.item \in Items /\ h.write.value \in CleanStored
           /\ h.request.op \in {"move", "batch", "create"}
BY DEF CleanHandler, CleanCreate, MoveRequest

LEMMA FreshProperties ==
    ASSUME NEW r \in CleanRequest, ReadsFirst(r)
    PROVE  Fresh(r) \in CleanHandler /\ LeftFits(Fresh(r))
<1>1. r \in MoveRequest \cup CleanCreate
  BY DEF CleanRequest, CleanCreate, MoveRequest, ReadsFirst
<1> DEFINE left == IF r.op = "create" THEN {New} ELSE r.items
<1>2. left \subseteq IF r.op = "create" THEN {New} ELSE Items
  BY <1>1 DEF CleanCreate, MoveRequest
<1>3. left \in SUBSET (Items \cup {New})
  BY <1>2
<1>4. Fresh(r) = [request |-> r, left |-> left, write |-> NoWrite,
                  lost |-> FALSE, overtaken |-> FALSE]
  BY DEF Fresh
<1> HIDE DEF left
<1> QED BY <1>1, <1>2, <1>3, <1>4 DEF CleanHandler, LeftFits

\* What a handler is about to write, once it has read, is the stored item moved, or
\* the new one.
LEMMA CopyProperties ==
    ASSUME ServerOK, NEW r \in MoveRequest \cup CleanCreate,
           NEW i \in IF r.op = "create" THEN {New} ELSE Items
    PROVE  /\ Copy(r, i) \in [item : Items, value : CleanStored] \cup {NoWrite}
           /\ r.op \in {"move", "batch"} /\ Copy(r, i) # NoWrite =>
                 /\ stored[Copy(r, i).item] # Gone
                 /\ Copy(r, i).value.type = stored[Copy(r, i).item].type
                 /\ Copy(r, i).value.texts = stored[Copy(r, i).item].texts
<1>1. CASE r.op = "create"
  <2>1. i = New /\ r.cfg \in CleanConfig
    BY <1>1 DEF CleanCreate, MoveRequest
  <2>2. \/ Copy(r, i) = NoWrite
        \/ /\ NextDeskID \in Items
           /\ Copy(r, i) = Write(NextDeskID, Item(r.cfg.type, r.cfg.texts, TRUE))
    BY <2>1 DEF Copy
  <2>3. Item(r.cfg.type, r.cfg.texts, TRUE) \in CleanStored
    BY <2>1, ItemIsClean
  <2>4. \A n \in Items, v \in CleanStored : Write(n, v) \in [item : Items, value : CleanStored]
    BY DEF Write
  <2>5. Copy(r, i) \in [item : Items, value : CleanStored] \cup {NoWrite}
    BY <2>2, <2>3, <2>4
  <2> QED BY <1>1, <2>5
<1>2. CASE r.op # "create"
  <2>1. r \in MoveRequest /\ i \in Items /\ i # New
    BY <1>2, EditorAssumption DEF CleanCreate, Items, New
  <2>2. Copy(r, i) = IF stored[i] # Gone THEN Write(i, Moved(r, stored[i])) ELSE NoWrite
    BY <2>1 DEF Copy, Exists
  <2>3. CASE stored[i] = Gone
    BY <2>2, <2>3
  <2>4. CASE stored[i] # Gone
    <3>1. stored[i] \in CleanStored
      BY <2>1, <2>4 DEF ServerOK
    <3>2. /\ Moved(r, stored[i]) \in CleanStored
          /\ Moved(r, stored[i]).type = stored[i].type
          /\ Moved(r, stored[i]).texts = stored[i].texts
      BY <2>1, <3>1, MovedProperties
    <3>3. Copy(r, i) = [item |-> i, value |-> Moved(r, stored[i])]
      BY <2>2, <2>4 DEF Write
    <3>4. Copy(r, i) \in [item : Items, value : CleanStored]
      BY <2>1, <3>2, <3>3
    <3> QED BY <2>4, <3>2, <3>3, <3>4
  <2> QED BY <2>3, <2>4
<1> QED BY <1>1, <1>2

\* Whoever holds a copy of an item that is written is overtaken; the others hold
\* what they held.
LEMMA OvertakeProperties ==
    ASSUME HandlersOK, NEW i \in Items, NEW item, stored' = [stored EXCEPT ![i] = item],
           stored \in [Items -> CleanStored \cup {Gone}],
           NEW g \in Overtake(handlers, i)
    PROVE  g \in CleanHandler /\ LeftFits(g) /\ CopyHolds(g)'
<1>1. PICK h \in handlers :
        g = IF h.write.item = i THEN [h EXCEPT !.overtaken = TRUE] ELSE h
  BY DEF Overtake
<1>2. h \in CleanHandler /\ LeftFits(h) /\ CopyHolds(h)
  BY DEF HandlersOK
<1>3. CASE h.write.item = i
  <2>1. g = [h EXCEPT !.overtaken = TRUE]
    BY <1>1, <1>3
  <2>2. g \in CleanHandler /\ g.overtaken /\ g.left = h.left /\ g.request = h.request
    BY <1>2, <2>1 DEF CleanHandler
  <2> QED BY <1>2, <2>2 DEF LeftFits, CopyHolds
<1>4. CASE h.write.item # i
  <2>1. g = h
    BY <1>1, <1>4
  <2>2. h.write # NoWrite => stored'[h.write.item] = stored[h.write.item]
    BY <1>2, <1>4, WriteKinds
  <2>3. CopyHolds(h)'
    BY <1>2, <2>2 DEF CopyHolds
  <2> QED BY <1>2, <2>1, <2>3
<1> QED BY <1>3, <1>4

LEMMA StoresProperties ==
    ASSUME ServerOK, HandlersOK, NEW i \in Items, NEW item \in CleanStored \cup {Gone},
           Stores(i, item), UNCHANGED seated
    PROVE  ServerOK' /\ HandlersOK'
<1>1. stored' = [stored EXCEPT ![i] = item] /\ handlers' = Overtake(handlers, i)
  BY DEF Stores
<1>2. ServerOK'
  BY <1>1 DEF ServerOK
<1>3. \A g \in handlers' : g \in CleanHandler /\ LeftFits(g) /\ CopyHolds(g)'
  BY <1>1, OvertakeProperties DEF ServerOK
<1> QED BY <1>2, <1>3 DEF HandlersOK, CopyHolds, LeftFits

LEMMA EffectProperties ==
    ASSUME NEW r \in CleanRequest, ~ReadsFirst(r)
    PROVE  r.item \in Items /\ Effect(r) \in CleanStored \cup {Gone}
<1>1. r.op \in {"delete", "update"} /\ r.item \in Items
  BY RequestKinds DEF ReadsFirst
<1>2. r.op = "update" => r.cfg \in CleanConfig
  BY RequestKinds
<1> QED BY <1>1, <1>2, ItemIsClean DEF Effect

\* The page gives up on a request whose handler goes on.
LEMMA AbandonProperties ==
    ASSUME HandlersOK, NEW r, handlers' = Abandon(r), UNCHANGED stored
    PROVE  HandlersOK'
<1> SUFFICES ASSUME NEW g \in handlers'
             PROVE  g \in CleanHandler /\ LeftFits(g) /\ CopyHolds(g)'
  BY DEF HandlersOK, CopyHolds, LeftFits
<1>1. PICK h \in handlers :
        g = IF AnswersTo(h, r) THEN [h EXCEPT !.lost = TRUE] ELSE h
  BY DEF Abandon, Remaining
<1>2. h \in CleanHandler /\ LeftFits(h) /\ CopyHolds(h)
  BY DEF HandlersOK
<1>3. CopyHolds(h)'
  BY <1>2 DEF CopyHolds
<1>4. CASE g = h
  BY <1>2, <1>3, <1>4
<1>5. CASE g = [h EXCEPT !.lost = TRUE]
  <2>1. /\ g \in CleanHandler /\ g.left = h.left /\ g.request = h.request
        /\ g.write = h.write /\ g.overtaken = h.overtaken
    BY <1>2, <1>5 DEF CleanHandler
  <2> QED BY <1>2, <1>3, <2>1 DEF LeftFits, CopyHolds
<1> QED BY <1>1, <1>4, <1>5

LEMMA RemovedIsAwaited ==
    ASSUME MigrationIsAwaited, NEW r \in requests, requests' = requests \ {r},
           migrating' = IF Migration(r) THEN migrating \ {r.item} ELSE migrating
    PROVE  MigrationIsAwaited'
<1> SUFFICES ASSUME NEW i \in migrating'
             PROVE  \E q \in requests' : Migration(q) /\ q.item = i
  BY DEF MigrationIsAwaited
<1>1. PICK q \in requests : Migration(q) /\ q.item = i
  BY DEF MigrationIsAwaited
<1>2. q # r
  BY <1>1
<1> QED BY <1>1, <1>2

LEMMA MoreIsAwaited ==
    ASSUME MigrationIsAwaited, UNCHANGED migrating, requests \subseteq requests'
    PROVE  MigrationIsAwaited'
BY DEF MigrationIsAwaited

-----------------------------------------------------------------------------
(* Steps that share what they disturb.                                     *)

\* A drawing shows what is stored, in the present mode, and whatever it notes
\* as migrating it asks for.
LEMMA DrawKeepsIInv ==
    ASSUME IInv, Draw, forced' \in 0..MaxForced
    PROVE  IInv'
<1>1. /\ seen' = Rows /\ handles' = (mode = "edit") /\ refused' = FALSE
      /\ UNCHANGED <<stored, seated, handlers, mode, form, drag, tool>>
  BY DEF Draw, server, widgets
<1>2. SeenOK'
  <2>1. \A i \in Items : CleanRow(RowOf(i))
    BY RowProperties DEF IInv
  <2>2. \A i \in Items : seen'[i] = RowOf(i)
    BY <1>1 DEF Rows
  <2>3. seen' \in [Items -> Row \cup {Gone}]
    BY <1>1, <2>1 DEF Rows, CleanRow
  <2> QED BY <2>1, <2>2, <2>3 DEF SeenOK
<1>3. RequestsOK' /\ MigrationIsAwaited' /\ migrating' \subseteq Items
  <2>1. CASE mode = "edit"
    <3> DEFINE sent(i) == Update(i, FieldsAs("floor", InputOf(seen'[i])), FALSE)
               new == {sent(i) : i \in OffRail}
    <3>1. OffRail \subseteq Items /\ migrating' = migrating \cup OffRail /\ Send(new)
      BY <2>1 DEF Draw, OffRail
    <3>2. \A i \in OffRail : sent(i) \in CleanRequest /\ Migration(sent(i)) /\ sent(i).item = i
      <4> SUFFICES ASSUME NEW i \in OffRail
                   PROVE  sent(i) \in CleanRequest /\ Migration(sent(i)) /\ sent(i).item = i
        OBVIOUS
      <4>1. i \in Items /\ seen'[i].type = "floor"
        BY DEF OffRail
      <4>2. seen'[i] # Gone
        BY <4>1 DEF Gone
      <4>3. InputOf(seen'[i]) \in CleanConfig
        BY <1>2, <4>1, <4>2 DEF SeenOK, CleanRow
      <4>4. FieldsAs("floor", InputOf(seen'[i])) \in CleanConfig
        BY <4>3, FieldsProperties, TypesThereAre
      <4>5. sent(i) \in CleanRequest
        BY <4>1, <4>4, UpdateIsClean
      <4> QED BY <4>5 DEF Update, Migration
    <3>3. IsFiniteSet(new)
      <4> DEFINE f == [i \in OffRail |-> sent(i)]
      <4>1. IsFiniteSet(Items)
        BY FS_Interval, EditorAssumption DEF Items
      <4>2. IsFiniteSet(OffRail)
        BY <3>1, <4>1, FS_Subset
      <4> HIDE DEF sent
      <4>3. f \in Surjection(OffRail, new)
        BY DEF Surjection
      <4> HIDE DEF f, new
      <4> QED BY <4>2, <4>3, FS_Surjection
    <3>4. new \in SUBSET CleanRequest
      BY <3>2
    <3>5. RequestsOK' /\ requests \subseteq requests' /\ new \subseteq requests'
      <4> HIDE DEF new
      <4> QED BY <3>1, <3>3, <3>4, SendProperties DEF IInv
    <3>6. MigrationIsAwaited'
      <4> SUFFICES ASSUME NEW i \in migrating'
                   PROVE  \E q \in requests' : Migration(q) /\ q.item = i
        BY DEF MigrationIsAwaited
      <4>1. CASE i \in migrating
        BY <3>5, <4>1 DEF IInv, MigrationIsAwaited
      <4>2. CASE i \in OffRail
        <5>1. sent(i) \in requests'
          BY <3>5, <4>2
        <5> HIDE DEF sent
        <5> QED BY <3>2, <4>2, <5>1
      <4> QED BY <3>1, <4>1, <4>2
    <3> QED BY <3>1, <3>5, <3>6 DEF IInv, PageOK
  <2>2. CASE mode # "edit"
    <3>1. UNCHANGED <<migrating, requests>>
      BY <2>2 DEF Draw
    <3> QED BY <3>1, MoreIsAwaited DEF IInv, RequestsOK, PageOK
  <2> QED BY <2>1, <2>2
<1>4. ServerOK' /\ HandlersOK' /\ FormOK' /\ ToolsOK' /\ FormNeedsEditMode'
  BY <1>1 DEF IInv, ServerOK, HandlersOK, CopyHolds, FormOK, ToolsOK, FormNeedsEditMode
<1>5. PageOK'
  <2>1. handles' \in BOOLEAN /\ refused' \in BOOLEAN /\ mode' \in {"user", "edit"}
    BY <1>1 DEF IInv, PageOK
  <2> QED BY <1>3, <2>1 DEF PageOK
<1>6. HandlesFollowMode'
  BY <1>1 DEF HandlesFollowMode
<1> QED BY <1>2, <1>3, <1>4, <1>5, <1>6 DEF IInv

\* What only works on the widgets and may send one request.
LEMMA WidgetsKeepIInv ==
    ASSUME IInv, UNCHANGED <<server, page>>,
           UNCHANGED requests \/ \E r \in CleanRequest : Send({r}),
           FormOK', ToolsOK', form' = NoForm \/ form # NoForm \/ mode = "edit"
    PROVE  IInv'
<1>1. RequestsOK' /\ requests \subseteq requests'
  BY SendOneProperties DEF IInv, RequestsOK
<1>2. MigrationIsAwaited'
  BY <1>1, MoreIsAwaited DEF IInv, page
<1>3. ServerOK' /\ HandlersOK' /\ SeenOK' /\ PageOK'
  BY DEF server, page, IInv, ServerOK, HandlersOK, CopyHolds, SeenOK, PageOK
<1>4. HandlesFollowMode'
  BY DEF page, IInv, HandlesFollowMode
<1>5. FormNeedsEditMode'
  BY DEF page, IInv, FormNeedsEditMode
<1> QED BY <1>1, <1>2, <1>3, <1>4, <1>5 DEF IInv

LEMMA SendingKeepsIInv ==
    ASSUME IInv, UNCHANGED <<server, page, widgets>>, NEW r \in CleanRequest, Send({r})
    PROVE  IInv'
<1>1. FormOK' /\ ToolsOK' /\ (form' = NoForm \/ form # NoForm)
  BY DEF widgets, IInv, FormOK, ToolsOK
<1> QED BY <1>1, WidgetsKeepIInv

\* The end of a request, as far as the page is concerned.
LEMMA AnswerKeepsIInv ==
    ASSUME IInv, NEW r \in requests, requests' = requests \ {r},
           ServerOK', HandlersOK',
           migrating' = IF Migration(r) THEN migrating \ {r.item} ELSE migrating,
           UNCHANGED <<seated, mode, handles, seen, forced, refused, drag>>,
           form' \in {NoForm, form}, tool' \in {tool, Tool("off", {})}
    PROVE  IInv'
<1>1. RequestsOK' /\ r \in CleanRequest
  BY RemoveProperties DEF IInv, RequestsOK
<1>2. MigrationIsAwaited'
  BY RemovedIsAwaited DEF IInv
<1>4. SeenOK' /\ PageOK'
  BY DEF IInv, SeenOK, PageOK
<1>5. FormOK' /\ FormNeedsEditMode'
  BY DEF IInv, FormOK, FormNeedsEditMode
<1>6. ToolsOK'
  BY DEF IInv, ToolsOK, Tool
<1>7. HandlesFollowMode'
  BY DEF IInv, HandlesFollowMode
<1> QED BY <1>1, <1>2, <1>4, <1>5, <1>6, <1>7 DEF IInv

\* Others change what is stored, or who sits where.
LEMMA OthersKeepIInv ==
    ASSUME IInv, ServerOK', HandlersOK', UNCHANGED <<page, widgets, requests>>
    PROVE  IInv'
<1>1. UNCHANGED <<mode, handles, seen, forced, refused, migrating, form, drag, tool, requests>>
  BY DEF page, widgets
<1>2. SeenOK' /\ PageOK' /\ FormOK' /\ ToolsOK' /\ RequestsOK'
  BY <1>1 DEF IInv, SeenOK, PageOK, FormOK, ToolsOK, RequestsOK
<1>3. MigrationIsAwaited' /\ FormNeedsEditMode'
  BY <1>1 DEF IInv, MigrationIsAwaited, FormNeedsEditMode
<1>4. HandlesFollowMode'
  BY <1>1 DEF IInv, HandlesFollowMode
<1> QED BY <1>2, <1>3, <1>4 DEF IInv

-----------------------------------------------------------------------------
(* The invariant                                                           *)

LEMMA InitIInv == EditorInit => IInv
<1> SUFFICES ASSUME EditorInit PROVE IInv
  OBVIOUS
<1>1. ServerOK
  <2>1. \A i \in Items :
          /\ Item("floor", "own", FALSE) \in CleanStored
          /\ Item("addesk", "own", TRUE) \in CleanStored
    BY TypesThereAre DEF Item, CleanStored
  <2>2. \A i \in Items : stored[i] \in CleanStored
    BY <2>1 DEF EditorInit
  <2> QED BY <2>2 DEF EditorInit, ServerOK
<1>2. SeenOK
  <2>1. \A i \in Items : CleanRow(RowOf(i))
    BY <1>1, RowProperties
  <2>2. seen = [i \in Items |-> RowOf(i)]
    BY DEF EditorInit, Rows
  <2>3. \A i \in Items : RowOf(i) \in Row \cup {Gone}
    BY <2>1 DEF CleanRow
  <2> HIDE DEF CleanRow
  <2> QED BY <2>1, <2>2, <2>3 DEF SeenOK
<1>3. PageOK /\ MigrationIsAwaited
  <2>1. 0 \in 0..MaxForced
    BY EditorAssumption
  <2> QED BY <2>1 DEF EditorInit, PageOK, MigrationIsAwaited
<1>4. HandlesFollowMode
  <2>1. mode = "user" /\ handles = FALSE
    BY DEF EditorInit
  <2> QED BY <2>1 DEF HandlesFollowMode
<1>5. FormOK /\ ToolsOK /\ FormNeedsEditMode
  BY DEF EditorInit, FormOK, ToolsOK, FormNeedsEditMode
<1>6. RequestsOK
  BY FS_EmptySet, EditorAssumption DEF EditorInit, RequestsOK
<1>7. HandlersOK
  BY DEF EditorInit, HandlersOK
<1> QED BY <1>1, <1>2, <1>3, <1>4, <1>5, <1>6, <1>7 DEF IInv

LEMMA NextIInv == IInv /\ [EditorNext]_editorVars => IInv'
<1> SUFFICES ASSUME IInv, [EditorNext]_editorVars PROVE IInv'
  OBVIOUS
<1> USE DEF IInv
<1>1. CASE ToggleUsermode
  <2>1. /\ forced < MaxForced /\ forced' = forced + 1
        /\ mode' = IF mode = "edit" THEN "user" ELSE "edit"
        /\ form' = IF mode = "edit" THEN NoForm ELSE form
        /\ UNCHANGED <<stored, seated, handlers, handles, seen, refused, migrating, drag, tool,
                       requests>>
    BY <1>1 DEF ToggleUsermode, ApplyEditSidebar, server
  <2>2. ServerOK' /\ HandlersOK' /\ SeenOK' /\ FormOK' /\ ToolsOK' /\ RequestsOK'
    BY <2>1 DEF ServerOK, HandlersOK, CopyHolds, SeenOK, FormOK, ToolsOK, RequestsOK
  <2>3. PageOK'
    BY <2>1, EditorAssumption DEF PageOK
  <2>4. MigrationIsAwaited' /\ FormNeedsEditMode'
    BY <2>1 DEF MigrationIsAwaited, FormNeedsEditMode
  <2>5. HandlesFollowMode'
    <3>1. forced' > 0
      BY <2>1 DEF PageOK
    <3> QED BY <3>1 DEF HandlesFollowMode
  <2> QED BY <2>2, <2>3, <2>4, <2>5
<1>2. CASE Poll \/ ForcedAnswer
  <2>1. Draw /\ (forced' = forced \/ (forced > 0 /\ forced' = forced - 1))
    <3>1. CASE Poll
      BY <3>1 DEF Poll
    <3>2. CASE ForcedAnswer
      BY <3>2 DEF ForcedAnswer
    <3> QED BY <1>2, <3>1, <3>2
  <2>2. forced' \in 0..MaxForced
    BY <2>1, EditorAssumption DEF PageOK
  <2> QED BY <2>1, <2>2, DrawKeepsIInv
<1>3. CASE ForcedFail
  <2>1. /\ forced > 0 /\ forced' = forced - 1 /\ refused' = TRUE
        /\ UNCHANGED <<stored, seated, handlers, mode, handles, seen, migrating, form, drag,
                       tool, requests>>
    BY <1>3 DEF ForcedFail, server, widgets
  <2>2. ServerOK' /\ HandlersOK' /\ SeenOK' /\ FormOK' /\ ToolsOK' /\ RequestsOK'
    BY <2>1 DEF ServerOK, HandlersOK, CopyHolds, SeenOK, FormOK, ToolsOK, RequestsOK
  <2>3. PageOK'
    BY <2>1, EditorAssumption DEF PageOK
  <2>4. MigrationIsAwaited' /\ FormNeedsEditMode'
    BY <2>1 DEF MigrationIsAwaited, FormNeedsEditMode
  <2>5. HandlesFollowMode'
    BY <2>1 DEF HandlesFollowMode
  <2> QED BY <2>2, <2>3, <2>4, <2>5
<1>4. ASSUME NEW i \in Items, StartDrag(i) PROVE IInv'
  <2>1. /\ drag' = [item |-> i, floor |-> seen[i].type = "floor"]
        /\ UNCHANGED <<server, page, form, tool, requests>>
    BY <1>4 DEF StartDrag
  <2>2. drag' \in [item : Items, floor : BOOLEAN]
    <3>1. (seen[i].type = "floor") \in BOOLEAN
      OBVIOUS
    <3> QED BY <2>1, <3>1
  <2>3. FormOK' /\ ToolsOK'
    BY <2>1, <2>2 DEF FormOK, ToolsOK
  <2> QED BY <2>1, <2>3, WidgetsKeepIInv
<1>5. CASE HideSticky
  <2>1. form' = NoForm /\ UNCHANGED <<server, page, drag, tool, requests>>
    BY <1>5 DEF HideSticky
  <2>2. FormOK' /\ ToolsOK'
    BY <2>1 DEF FormOK, ToolsOK
  <2> QED BY <2>1, <2>2, WidgetsKeepIInv
<1>6. CASE TypeText
  <2>1. /\ form # NoForm /\ form' = [form EXCEPT !.cfg.texts = "own"]
        /\ UNCHANGED <<server, page, drag, tool, requests>>
    BY <1>6 DEF TypeText
  <2>2. form'  \in [kind : {"create"}, cfg : CleanConfig]
                   \cup [kind : {"edit"}, item : Items, cfg : CleanConfig]
    BY <2>1 DEF FormOK, CleanConfig
  <2>3. FormOK' /\ ToolsOK'
    BY <2>1, <2>2 DEF FormOK, ToolsOK
  <2> QED BY <2>1, <2>3, WidgetsKeepIInv
<1>7. CASE Save
  <2>1. UNCHANGED <<server, page, widgets>>
    BY <1>7 DEF Save
  <2>2. \E r \in CleanRequest : Send({r})
    <3>1. CASE form.kind = "edit" /\ Send({Update(form.item, form.cfg, TRUE)})
      <4>1. form.item \in Items /\ form.cfg \in CleanConfig
        BY <3>1, FormKinds
      <4> QED BY <3>1, <4>1, UpdateIsClean
    <3>2. CASE form.kind = "create" /\ Send({Create(form.cfg, TRUE)})
      <4>1. form.cfg \in CleanConfig
        BY <3>2, FormKinds
      <4> QED BY <3>2, <4>1, CreateIsClean
    <3> QED BY <1>7, <3>1, <3>2 DEF Save
  <2> QED BY <2>1, <2>2, SendingKeepsIInv
<1>8. CASE DeleteItem
  <2>1. /\ form.kind = "edit" /\ Send({Delete(form.item, TRUE)})
        /\ UNCHANGED <<server, page, widgets>>
    BY <1>8 DEF DeleteItem
  <2>2. Delete(form.item, TRUE) \in CleanRequest
    BY <2>1, FormKinds, DeleteIsClean
  <2> QED BY <2>1, <2>2, SendingKeepsIInv
<1>9. CASE PlaceCluster
  <2>1. /\ Send({Create([type |-> "localdesk", texts |-> "own"], FALSE)})
        /\ UNCHANGED <<server, page, widgets>>
    BY <1>9 DEF PlaceCluster
  <2>2. [type |-> "localdesk", texts |-> "own"] \in CleanConfig
    BY TypesThereAre DEF CleanConfig
  <2>3. Create([type |-> "localdesk", texts |-> "own"], FALSE) \in CleanRequest
    BY <2>2, CreateIsClean
  <2> QED BY <2>1, <2>3, SendingKeepsIInv
<1>10. ASSUME NEW type \in Types, ChangeType(type) PROVE IInv'
  <2>1. UNCHANGED <<server, page, drag, tool, requests>>
    BY <1>10 DEF ChangeType
  <2>2. form # NoForm /\ FormOK'
    <3>1. CASE form.kind = "edit" /\ seen[form.item] # Gone /\ form' = EditForm(form.item, type)
      <4>1. form.item \in Items /\ form # NoForm
        BY <3>1, FormKinds
      <4>2. form' \in [kind : {"edit"}, item : Items, cfg : CleanConfig]
        BY <3>1, <4>1, EditFormProperties
      <4> QED BY <4>1, <4>2 DEF FormOK
    <3>2. CASE /\ form.kind = "create"
               /\ form' = [form EXCEPT !.cfg = FieldsAs(type,
                              IF @.type = "addesk" THEN [@ EXCEPT !.texts = ""] ELSE @)]
      <4> DEFINE input == IF form.cfg.type = "addesk" THEN [form.cfg EXCEPT !.texts = ""]
                          ELSE form.cfg
      <4>1. form \in [kind : {"create"}, cfg : CleanConfig] /\ form # NoForm
        BY <3>2, FormKinds
      <4>2. form.cfg \in CleanConfig
        BY <4>1
      <4>3. input \in CleanConfig
        BY <4>2 DEF CleanConfig
      <4>4. form' = [form EXCEPT !.cfg = FieldsAs(type, input)]
        BY <3>2
      <4> HIDE DEF input
      <4>5. FieldsAs(type, input) \in CleanConfig
        BY <4>3, FieldsProperties
      <4>6. form' \in [kind : {"create"}, cfg : CleanConfig]
        BY <4>1, <4>4, <4>5
      <4> QED BY <4>1, <4>6 DEF FormOK
    <3> QED BY <1>10, <3>1, <3>2 DEF ChangeType
  <2>3. ToolsOK'
    BY <2>1 DEF ToolsOK
  <2> QED BY <2>1, <2>2, <2>3, WidgetsKeepIInv
<1>11. ASSUME NEW type \in Types, PlaceItem(type) PROVE IInv'
  <2>1. /\ mode = "edit" /\ UNCHANGED <<server, page, drag, tool, requests>>
        /\ form' = [kind |-> "create", cfg |-> FieldsAs(type, [type |-> type, texts |-> ""])]
    BY <1>11 DEF PlaceItem, Draft
  <2>2. [type |-> type, texts |-> ""] \in CleanConfig
    BY DEF CleanConfig
  <2>3. FieldsAs(type, [type |-> type, texts |-> ""]) \in CleanConfig
    BY <2>2, FieldsProperties
  <2>4. FormOK'
    BY <2>1, <2>3 DEF FormOK
  <2>5. ToolsOK'
    BY <2>1 DEF ToolsOK
  <2> QED BY <2>1, <2>4, <2>5, WidgetsKeepIInv
<1>12. CASE Drop
  <2>1. drag # NoDrag /\ drag' = NoDrag /\ UNCHANGED <<server, page, tool>>
    BY <1>12 DEF Drop
  <2>2. drag.item \in Items /\ drag.floor \in BOOLEAN
    BY <2>1 DEF ToolsOK
  <2>3. ToolsOK'
    BY <2>1 DEF ToolsOK
  <2>4. CASE /\ seen[drag.item] # Gone /\ mode = "edit" /\ UNCHANGED requests
             /\ form' = EditForm(drag.item, InputOf(seen[drag.item]).type)
    <3>1. InputOf(seen[drag.item]).type \in Types
      BY <2>2, <2>4 DEF SeenOK, CleanRow, CleanConfig
    <3>2. FormOK'
      BY <2>2, <2>4, <3>1, EditFormProperties DEF FormOK
    <3> QED BY <2>1, <2>3, <2>4, <3>2, WidgetsKeepIInv
  <2>5. CASE UNCHANGED <<form, requests>>
    <3>1. FormOK'
      BY <2>5 DEF FormOK
    <3> QED BY <2>1, <2>3, <2>5, <3>1, WidgetsKeepIInv
  <2>6. CASE Send({MoveOf(drag.item, drag.floor)}) /\ UNCHANGED form
    <3>1. MoveOf(drag.item, drag.floor) \in CleanRequest
      BY <2>2 DEF MoveOf, CleanRequest
    <3>2. FormOK'
      BY <2>6 DEF FormOK
    <3> QED BY <2>1, <2>3, <2>6, <3>1, <3>2, WidgetsKeepIInv
  <2> QED BY <1>12, <2>4, <2>5, <2>6 DEF Drop
<1>13. CASE DropOnTrash
  <2>1. /\ drag # NoDrag /\ Send({Delete(drag.item, FALSE)}) /\ drag' = NoDrag
        /\ UNCHANGED <<server, page, form, tool>>
    BY <1>13 DEF DropOnTrash
  <2>2. Delete(drag.item, FALSE) \in CleanRequest
    BY <2>1, DeleteIsClean DEF ToolsOK
  <2>3. FormOK' /\ ToolsOK'
    BY <2>1 DEF FormOK, ToolsOK
  <2> QED BY <2>1, <2>2, <2>3, WidgetsKeepIInv
<1>14. CASE StartAlign \/ SelectDesks \/ CancelAutoAlign
  <2>1. UNCHANGED <<server, page, form, drag, requests>>
    BY <1>14 DEF StartAlign, SelectDesks, CancelAutoAlign
  <2>2. \E step \in {"off", "select", "preview"}, items \in SUBSET Items :
            tool' = Tool(step, items)
    BY <1>14 DEF StartAlign, SelectDesks, CancelAutoAlign, Encircled, Alignable
  <2>3. FormOK' /\ ToolsOK'
    BY <2>1, <2>2 DEF FormOK, ToolsOK, Tool
  <2> QED BY <2>1, <2>3, WidgetsKeepIInv
<1>15. CASE ApplyAutoAlign
  <2>1. /\ Send({[op |-> "batch", items |-> tool.items, rail |-> FALSE]})
        /\ UNCHANGED <<server, page, widgets>>
    BY <1>15 DEF ApplyAutoAlign
  <2>2. [op |-> "batch", items |-> tool.items, rail |-> FALSE] \in CleanRequest
    BY DEF ToolsOK, CleanRequest
  <2> QED BY <2>1, <2>2, SendingKeepsIInv
<1>16. ASSUME NEW r \in requests, Succeeds(r) PROVE IInv'
  <2>1. /\ requests' = requests \ {r} /\ r \in CleanRequest
        /\ migrating' = IF Migration(r) THEN migrating \ {r.item} ELSE migrating
        /\ UNCHANGED <<seated, mode, handles, seen, forced, refused, drag>>
        /\ form' \in {NoForm, form} /\ tool' \in {tool, Tool("off", {})}
    BY <1>16 DEF Succeeds, RequestsOK
  <2>2. ServerOK' /\ HandlersOK'
    <3>1. CASE ~ReadsFirst(r) /\ Stores(r.item, Effect(r))
      BY <2>1, <3>1, EffectProperties, StoresProperties
    <3>2. CASE handlers' \subseteq handlers /\ UNCHANGED stored
      BY <2>1, <3>2 DEF ServerOK, HandlersOK, CopyHolds
    <3> QED BY <1>16, <3>1, <3>2 DEF Succeeds
  <2> HIDE DEF IInv
  <2> QED BY <2>1, <2>2, AnswerKeepsIInv
<1>17. ASSUME NEW r \in requests, Fails(r) PROVE IInv'
  <2>1. /\ requests' = requests \ {r} /\ r \in CleanRequest
        /\ migrating' = IF Migration(r) THEN migrating \ {r.item} ELSE migrating
        /\ UNCHANGED <<seated, mode, handles, seen, forced, refused, form, drag, tool>>
    BY <1>17 DEF Fails, AfterError, widgets, RequestsOK
  <2>2. ServerOK' /\ HandlersOK'
    <3>1. CASE ~ReadsFirst(r) /\ Stores(r.item, Effect(r))
      BY <2>1, <3>1, EffectProperties, StoresProperties
    <3>2. CASE handlers' = Abandon(r) /\ UNCHANGED stored
      BY <2>1, <3>2, AbandonProperties DEF ServerOK
    <3> QED BY <1>17, <3>1, <3>2 DEF Fails
  <2> HIDE DEF IInv
  <2> QED BY <2>1, <2>2, AnswerKeepsIInv
<1>18. ASSUME NEW i \in Items, NEW who \in {"none", "robin", "directory"}, Sit(i, who)
       PROVE  IInv'
  <2>1. /\ seated' = [seated EXCEPT ![i] = who]
        /\ UNCHANGED <<stored, handlers, page, widgets, requests>>
    BY <1>18 DEF Sit
  <2>2. ServerOK' /\ HandlersOK'
    BY <2>1 DEF ServerOK, HandlersOK, CopyHolds
  <2> QED BY <2>1, <2>2, OthersKeepIInv
<1>19. ASSUME NEW i \in Items,
              OtherEditor(i, Gone) \/ OtherEditor(i, Item("addesk", "own", TRUE))
       PROVE  IInv'
  <2>1. Item("addesk", "own", TRUE) \in CleanStored
    BY TypesThereAre DEF Item, CleanStored
  <2>2. PICK item \in CleanStored \cup {Gone} : Stores(i, item)
    BY <1>19, <2>1 DEF OtherEditor
  <2>3. UNCHANGED <<seated, page, widgets, requests>>
    BY <1>19 DEF OtherEditor
  <2>4. ServerOK' /\ HandlersOK'
    BY <2>2, <2>3, StoresProperties
  <2> QED BY <2>3, <2>4, OthersKeepIInv
<1>20. ASSUME NEW h \in Working, NEW i \in Items \cup {New}, GetDesk(h, i) PROVE IInv'
  <2>1. i \in h.left /\ UNCHANGED <<stored, seated, page, widgets, requests>>
    BY <1>20 DEF GetDesk
  <2>2. h \in CleanHandler /\ LeftFits(h)
    BY FreshProperties DEF Working, Arriving, HandlersOK, RequestsOK
  <2> DEFINE g == [h EXCEPT !.left = @ \ {i}, !.write = Copy(h.request, i), !.overtaken = FALSE]
  <2>3. g \in CleanHandler /\ LeftFits(g) /\ CopyHolds(g)
    <3>1. /\ h.request \in MoveRequest \cup CleanCreate
          /\ i \in IF h.request.op = "create" THEN {New} ELSE Items
      BY <2>1, <2>2 DEF CleanHandler, LeftFits
    <3> DEFINE copy == Copy(h.request, i)
    <3>2. /\ copy \in [item : Items, value : CleanStored] \cup {NoWrite}
          /\ h.request.op \in {"move", "batch"} /\ copy # NoWrite =>
                /\ stored[copy.item] # Gone
                /\ copy.value.type = stored[copy.item].type
                /\ copy.value.texts = stored[copy.item].texts
      BY <3>1, CopyProperties
    <3> HIDE DEF copy
    <3>3. g = [h EXCEPT !.left = @ \ {i}, !.write = copy, !.overtaken = FALSE]
      BY DEF copy
    <3> HIDE DEF g
    <3>4. g \in CleanHandler /\ g.request = h.request /\ g.left = h.left \ {i} /\ g.write = copy
      BY <2>2, <3>2, <3>3 DEF CleanHandler
    <3> QED BY <2>2, <3>2, <3>4 DEF LeftFits, CopyHolds
  <2>4. handlers' \subseteq handlers \cup {g}
    BY <1>20 DEF GetDesk, Remaining
  <2> HIDE DEF g
  <2>5. ServerOK' /\ HandlersOK'
    BY <2>1, <2>3, <2>4 DEF ServerOK, HandlersOK, CopyHolds
  <2> QED BY <2>1, <2>5, OthersKeepIInv
<1>21. ASSUME NEW h \in handlers, PutDesk(h) PROVE IInv'
  <2>1. /\ h.write # NoWrite /\ stored' = [stored EXCEPT ![h.write.item] = h.write.value]
        /\ UNCHANGED <<seated, page, widgets, requests>>
    BY <1>21 DEF PutDesk
  <2>2. h \in CleanHandler /\ LeftFits(h) /\ h.write.item \in Items /\ h.write.value \in CleanStored
    BY <2>1, WriteKinds DEF HandlersOK
  <2> DEFINE g == [h EXCEPT !.write = NoWrite, !.overtaken = FALSE]
  <2>3. g \in CleanHandler /\ LeftFits(g) /\ CopyHolds(g)'
    BY <2>2 DEF CleanHandler, LeftFits, CopyHolds
  <2>4. handlers' \subseteq Overtake(handlers, h.write.item) \cup {g}
    BY <1>21 DEF PutDesk, Remaining, Overtake
  <2> HIDE DEF g
  <2>5. \A k \in handlers' : k \in CleanHandler /\ LeftFits(k) /\ CopyHolds(k)'
    <3>1. \A k \in Overtake(handlers, h.write.item) :
             k \in CleanHandler /\ LeftFits(k) /\ CopyHolds(k)'
      BY <2>1, <2>2, OvertakeProperties DEF ServerOK
    <3> QED BY <2>3, <2>4, <3>1
  <2>6. ServerOK' /\ HandlersOK'
    BY <2>1, <2>2, <2>5 DEF ServerOK, HandlersOK, CopyHolds, LeftFits
  <2> QED BY <2>1, <2>6, OthersKeepIInv
<1>22. CASE UNCHANGED editorVars
  <2>1. UNCHANGED <<server, page, widgets, requests>>
    BY <1>22 DEF editorVars
  <2>2. ServerOK' /\ HandlersOK'
    BY <2>1 DEF server, ServerOK, HandlersOK, CopyHolds
  <2> QED BY <2>1, <2>2, OthersKeepIInv
<1> HIDE DEF IInv
<1> QED BY <1>1, <1>2, <1>3, <1>4, <1>5, <1>6, <1>7, <1>8, <1>9, <1>10, <1>11, <1>12,
           <1>13, <1>14, <1>15, <1>16, <1>17, <1>18, <1>19, <1>20,
           <1>21, <1>22 DEF EditorNext

-----------------------------------------------------------------------------
(* Theorems                                                                *)

\* What is stored, shown, sent and being edited stays clean and fits together.
THEOREM EditorInvariance == EditorSpec => []IInv
BY InitIInv, NextIInv, PTL DEF EditorSpec

\* The person Robin shows at a desk is never stored, a floor noted as migrating
\* has its request under way, and form and handles are those of the edit mode.
THEOREM EditorKeepsStep == EditorSpec => []EditorInStep
BY EditorInvariance, IInvImpliesEditorInStep, PTL

\* However stale the page that sent it, a move or an alignment neither turns an
\* item into another nor brings back one that was deleted, but where others
\* write the same item between its two transactions.
THEOREM MovesKeepItems == EditorSpec => MovesOnlyMove
<1> DEFINE Kept ==
      \A h \in handlers : PutDesk(h) /\ h.request.op \in {"move", "batch"} /\ ~h.overtaken
         => OnlyItsPlace(h.write.item)
<1>1. IInv => [Kept]_editorVars
  <2> SUFFICES ASSUME IInv, NEW h \in handlers, PutDesk(h),
                      h.request.op \in {"move", "batch"}, ~h.overtaken
               PROVE  OnlyItsPlace(h.write.item)
    OBVIOUS
  <2>1. /\ h.write # NoWrite /\ CopyHolds(h)
        /\ stored' = [stored EXCEPT ![h.write.item] = h.write.value]
    BY DEF PutDesk, IInv, HandlersOK
  <2>2. h.write.item \in Items /\ h.write.value \in CleanStored
    BY <2>1, WriteKinds DEF IInv, HandlersOK
  <2>3. stored'[h.write.item] = h.write.value /\ h.write.value # Gone
    BY <2>1, <2>2, NothingIsGone DEF IInv, ServerOK
  <2> QED BY <2>1, <2>3 DEF CopyHolds, OnlyItsPlace, Exists
<1> QED BY <1>1, EditorInvariance, PTL DEF MovesOnlyMove
=============================================================================
