----------------------------- MODULE MapEditor -----------------------------
(***************************************************************************)
(* The edit mode of the map page (src/internal/web/static/admin.js, with   *)
(* toggleUsermode and updateDesks of user.js): items are dragged, edited   *)
(* in the sidebar form, placed, deleted and aligned; every change is a     *)
(* request to rest/update (src/internal/web/update.go), made of the rows   *)
(* the page drew last, which show the people seated at a desk instead of   *)
(* its stored configuration.                                               *)
(*                                                                         *)
(* An item is its type, where its employee comes from, and its avatar if   *)
(* that is Robin's (its own, the person Robin seats there, or none), and   *)
(* whether it stands on the rail, which matters for floor markers; other   *)
(* coordinates and avatars are left out.  Moving and creating are two      *)
(* transactions each, a read and a write, between which others have their  *)
(* turn; updating and deleting are one, made when the answer arrives or    *)
(* is lost.                                                                *)
(***************************************************************************)
EXTENDS Integers, FiniteSets, FiniteSetsExt

CONSTANTS
    MaxId,        \* item ids are 1..MaxId
    Floors,       \* the items that are floor markers, off the rail, at first
    Types,        \* the types an editor chooses from
    MaxRequests,  \* bound: requests under way at once, and handlers at work
    MaxForced     \* bound: switches of the mode that are not drawn yet

ASSUME EditorAssumption ==
    /\ MaxId \in Nat \ {0} /\ Floors \subseteq 1..MaxId /\ MaxRequests \in Nat
    /\ MaxForced \in Nat
    /\ {"floor", "addesk", "localdesk"} \subseteq Types

Items   == 1..MaxId
Gone    == [type |-> "gone"]
None    == [type |-> "none"]
NoForm  == [kind |-> "none"]
NoDrag  == [item |-> 0]
New     == 0      \* stands for an item that has no id yet
NoWrite == [item |-> 0]

Config  == [type : Types, texts : {"own", "robin", ""}]
Stored  == [type : Types, texts : {"own", "robin", ""}, rail : BOOLEAN]
Row     == [type : Types \cup {"occupied"}, texts : {"own", "robin", ""},
            rail : BOOLEAN, config : Config \cup {None}]

MoveRequest   == [op : {"move", "batch"}, items : SUBSET Items, rail : BOOLEAN]
DeleteRequest == [op : {"delete"}, item : Items, closes : BOOLEAN]
UpdateRequest == [op : {"update"}, item : Items, cfg : Config, closes : BOOLEAN]
CreateRequest == [op : {"create"}, cfg : Config, closes : BOOLEAN]
Handler == [request : MoveRequest \cup CreateRequest, left : SUBSET (Items \cup {New}),
            write : [item : Items, value : Stored] \cup {NoWrite},
            lost : BOOLEAN, overtaken : BOOLEAN]

VARIABLES
    stored,    \* the items of the map on the server
    seated,    \* who sits at each item's desk number
    handlers,  \* moving and creating: what is left to be read, what was read
               \* and is to be written, whether the answer is lost; history:
               \* the item was written by others after it was read
    mode,      \* setting_usermode
    handles,   \* the drawn items can be dragged
    seen,      \* result_old: the rows drawn last
    forced,    \* refreshes after a mode switch under way
    refused,   \* history: one failed, and nothing was drawn since
    migrating, \* floorMigrating
    form,      \* the sidebar form
    drag,      \* the item being dragged, as the type it was drawn with
    tool,      \* the alignment tool, with the items of its preview
    requests   \* requests to rest/update under way

server  == <<stored, seated, handlers>>
page    == <<mode, handles, seen, forced, refused, migrating>>
widgets == <<form, drag, tool>>
editorVars == <<server, page, widgets, requests>>

Item(type, texts, rail) == [type |-> type, texts |-> texts, rail |-> rail]

Exists(i) == stored[i] # Gone

-----------------------------------------------------------------------------
(* Rows and fields.                                                        *)

\* buildMapDesks: the row of an item, made of its occupant where it has one.
RowOf(i) ==
    LET s == stored[i]
        row(type, texts, config) ==
            [type |-> type, texts |-> texts, rail |-> s.rail, config |-> config]
    IN  CASE s = Gone -> Gone
          [] s # Gone /\ s.type # "floor" /\ seated[i] = "robin" ->
               row("occupied", "robin", [type |-> s.type, texts |-> s.texts])
          [] s # Gone /\ s.type # "floor" /\ seated[i] = "directory" ->
               row("addesk", s.texts, None)
          [] OTHER -> row(s.type, s.texts, None)

Rows == [i \in Items |-> RowOf(i)]

\* Mutant: the configuration under a Robin occupant is not looked for.
InputOf_Shown(row) ==
    [type |-> IF row.type = "occupied" THEN "localdesk" ELSE row.type, texts |-> row.texts]

\* Mutant: a row that shows someone keeps its type.
InputOf_Unmapped(row) == [type |-> row.type, texts |-> row.texts]

\* addInputfields: the item the fields are filled with, the configured one
\* where Robin seats someone.
InputOf(row) ==
    IF row.config # None THEN row.config ELSE [type |-> row.type, texts |-> row.texts]

\* addInputfields: what a form of this type would save.  A directory desk has
\* a fixed employee.
FieldsAs(type, input) ==
    [type |-> type,
     texts |-> IF type = "addesk" /\ input.texts = "" THEN "own" ELSE input.texts]

EditForm(i, type) ==
    [kind |-> "edit", item |-> i, cfg |-> FieldsAs(type, InputOf(seen[i]))]

\* rest/update refuses an item without an employee, local desks excepted.
Complete(cfg) == cfg.texts # "" \/ cfg.type = "localdesk"

-----------------------------------------------------------------------------
EditorTypeOK ==
    /\ stored \in [Items -> Stored \cup {Gone}]
    /\ seated \in [Items -> {"none", "robin", "directory"}]
    /\ mode \in {"user", "edit"}
    /\ {handles, refused} \subseteq BOOLEAN /\ forced \in 0..MaxForced
    /\ handlers \subseteq Handler
    /\ seen \in [Items -> Row \cup {Gone}]
    /\ migrating \subseteq Items
    /\ form \in {NoForm} \cup [kind : {"create"}, cfg : Config]
                \cup [kind : {"edit"}, item : Items, cfg : Config]
    /\ drag \in {NoDrag} \cup [item : Items, floor : BOOLEAN]
    /\ tool \in [step : {"off", "select", "preview"}, items : SUBSET Items]
    /\ requests \subseteq MoveRequest \cup DeleteRequest \cup UpdateRequest \cup CreateRequest
    /\ Cardinality(requests) =< MaxRequests

EditorInit ==
    /\ stored = [i \in Items |-> IF i \in Floors THEN Item("floor", "own", FALSE)
                                 ELSE Item("addesk", "own", TRUE)]
    /\ seated = [i \in Items |-> "none"]
    /\ mode = "user" /\ handles = FALSE
    /\ seen = Rows
    /\ handlers = {}
    /\ forced = 0 /\ refused = FALSE /\ migrating = {}
    /\ form = NoForm /\ drag = NoDrag /\ tool = [step |-> "off", items |-> {}]
    /\ requests = {}

\* Ajax calls.  The success handler of one that "closes" hides the form.
Send(new) ==
    /\ Cardinality(requests \cup new) =< MaxRequests
    /\ requests' = requests \cup new

Update(i, cfg, closes) == [op |-> "update", item |-> i, cfg |-> cfg, closes |-> closes]
Create(cfg, closes)    == [op |-> "create", cfg |-> cfg, closes |-> closes]
Delete(i, closes)      == [op |-> "delete", item |-> i, closes |-> closes]

-----------------------------------------------------------------------------
(* Mode and drawing.                                                       *)

\* Mutant: leaving the edit mode leaves the form.
ToggleUsermode_KeepsForm ==
    /\ forced < MaxForced /\ forced' = forced + 1
    /\ mode' = IF mode = "edit" THEN "user" ELSE "edit"
    /\ UNCHANGED <<server, handles, seen, refused, migrating, widgets, requests>>

\* applyEditSidebar: the form after a switch.  Leaving the edit mode closes the
\* sidebar with its form.
ApplyEditSidebar(m) == IF m = "edit" THEN form ELSE NoForm

\* toggleUsermode: a forced refresh is to draw the items for the new mode.
ToggleUsermode ==
    /\ forced < MaxForced /\ forced' = forced + 1
    /\ mode' = IF mode = "edit" THEN "user" ELSE "edit"
    /\ form' = ApplyEditSidebar(mode')
    /\ UNCHANGED <<server, handles, seen, refused, migrating, drag, tool, requests>>

\* migrateFloorsToRail: the floors a drawing sends to the rail.
OffRail == {i \in Items \ migrating : seen'[i].type = "floor" /\ ~seen'[i].rail}

\* updateDesks with new data: everything is drawn anew, in the present mode.
Draw ==
    /\ seen' = Rows
    /\ handles' = (mode = "edit")
    /\ refused' = FALSE
    /\ IF mode = "edit"
       THEN /\ migrating' = migrating \cup OffRail
            /\ Send({Update(i, FieldsAs("floor", InputOf(seen'[i])), FALSE) : i \in OffRail})
       ELSE UNCHANGED <<migrating, requests>>
    /\ UNCHANGED <<server, mode, widgets>>

\* Mutant: the switch of the mode waits for new data.
ForcedAnswer_OnlyNew ==
    /\ forced > 0 /\ forced' = forced - 1
    /\ IF seen # Rows THEN Draw
       ELSE UNCHANGED <<server, mode, handles, seen, refused, migrating, widgets, requests>>

ForcedAnswer == forced > 0 /\ forced' = forced - 1 /\ Draw

\* A poll, or the refresh after a change, brings new data.
Poll == seen # Rows /\ Draw /\ UNCHANGED forced

ForcedFail ==
    /\ forced > 0 /\ forced' = forced - 1 /\ refused' = TRUE
    /\ UNCHANGED <<server, mode, handles, seen, migrating, widgets, requests>>

-----------------------------------------------------------------------------
(* Form.                                                                   *)

\* hideSticky: the cross of the plate, the Back button, Escape.
HideSticky ==
    /\ form # NoForm
    /\ form' = NoForm
    /\ UNCHANGED <<server, page, drag, tool, requests>>

\* The type is changed: the fields of an item there is are filled anew from
\* its row, those of a new one from the fields before.
ChangeType(type) ==
    /\ \/ form.kind = "edit" /\ seen[form.item] # Gone /\ form' = EditForm(form.item, type)
       \/ form.kind = "create" /\ form' = [form EXCEPT !.cfg = FieldsAs(type,
              IF @.type = "addesk" THEN [@ EXCEPT !.texts = ""] ELSE @)]
    /\ UNCHANGED <<server, page, drag, tool, requests>>

\* The description is typed.
TypeText ==
    /\ form # NoForm
    /\ form' = [form EXCEPT !.cfg.texts = "own"]
    /\ UNCHANGED <<server, page, drag, tool, requests>>

\* wireSidebarEditSubmit, wireSidebarCreateSubmit.
Save ==
    /\ \/ form.kind = "edit" /\ Send({Update(form.item, form.cfg, TRUE)})
       \/ form.kind = "create" /\ Send({Create(form.cfg, TRUE)})
    /\ UNCHANGED <<server, page, widgets>>

DeleteItem ==
    /\ form.kind = "edit" /\ Send({Delete(form.item, TRUE)})
    /\ UNCHANGED <<server, page, widgets>>

\* startDraftPlacement: the form of a new item, with empty fields.
Draft(type) == [kind |-> "create", cfg |-> FieldsAs(type, [type |-> type, texts |-> ""])]

\* onPaletteDragUp: an item of the palette is dropped on the map.
PlaceItem(type) ==
    /\ mode = "edit" /\ form = NoForm
    /\ form' = Draft(type)
    /\ UNCHANGED <<server, page, drag, tool, requests>>

\* placeCluster: desks are stored at once.
PlaceCluster ==
    /\ mode = "edit" /\ form = NoForm
    /\ Send({Create([type |-> "localdesk", texts |-> "own"], FALSE)})
    /\ UNCHANGED <<server, page, widgets>>

-----------------------------------------------------------------------------
(* Dragging.                                                               *)

\* dragMouseDown, elementDrag: the handlers know the type the item was drawn with.
StartDrag(i) ==
    /\ handles /\ seen[i] # Gone /\ drag = NoDrag /\ tool.step # "select"
    /\ drag' = [item |-> i, floor |-> seen[i].type = "floor"]
    /\ UNCHANGED <<server, page, form, tool, requests>>

\* A move sends the place and nothing else of the item.
MoveOf(i, rail) == [op |-> "move", items |-> {i}, rail |-> rail]

\* closeDragElement, showSticky, openSidebarEdit: the item appears where the
\* drag began, and this was a click, or elsewhere, and it is moved.  A drawing meanwhile may make a click
\* of a move and the reverse.  Its row may be gone: the handler ends with an error.
Drop ==
    /\ drag # NoDrag /\ drag' = NoDrag
    /\ \/ /\ seen[drag.item] # Gone
          /\ form' = IF mode = "edit"
                     THEN EditForm(drag.item, InputOf(seen[drag.item]).type) ELSE form
          /\ UNCHANGED requests
       \/ /\ seen[drag.item] # Gone
          /\ Send({MoveOf(drag.item, drag.floor)})
          /\ UNCHANGED form
       \/ seen[drag.item] = Gone /\ UNCHANGED <<form, requests>>
    /\ UNCHANGED <<server, page, tool>>

\* deleteDeskById: it is dropped over the trash of the sidebar.
DropOnTrash ==
    /\ drag # NoDrag /\ mode = "edit"
    /\ Send({Delete(drag.item, FALSE)})
    /\ drag' = NoDrag
    /\ UNCHANGED <<server, page, form, tool>>

-----------------------------------------------------------------------------
(* Alignment.                                                              *)

Tool(step, items) == [step |-> step, items |-> items]

\* startAutoAlign: from the start again, or off by the button of the engaged tool.
StartAlign ==
    /\ mode = "edit" /\ form = NoForm
    /\ \/ tool' = Tool("select", {})
       \/ tool.step # "off" /\ tool' = Tool("off", {})
    /\ UNCHANGED <<server, page, form, drag, requests>>

\* autoAlignPlan: the items that take part.
Alignable == {i \in Items : seen[i].type \in {"occupied", "addesk", "localdesk", "booking"}}

\* onLassoUp, pointInPolygon: a loop is drawn around any of them, to which a box adds none.
Encircled == SUBSET Alignable

\* onAutoAlignSelectUp, onLassoUp: a selection with nothing to move ends the
\* tool, any other is shown for confirmation.
SelectDesks ==
    /\ tool.step = "select"
    /\ \E items \in Encircled :
         tool' = IF items = {} THEN Tool("off", {}) ELSE Tool("preview", items)
    /\ UNCHANGED <<server, page, form, drag, requests>>

CancelAutoAlign ==
    /\ tool.step # "off"
    /\ tool' = Tool("off", {})
    /\ UNCHANGED <<server, page, form, drag, requests>>

\* applyAutoAlign: the preview stays until the request succeeded.
ApplyAutoAlign ==
    /\ tool.step = "preview"
    /\ Send({[op |-> "batch", items |-> tool.items, rail |-> FALSE]})
    /\ UNCHANGED <<server, page, widgets>>

-----------------------------------------------------------------------------
(* rest/update.                                                            *)

\* Modes move, batch and create read before they write.
ReadsFirst(r) == r.op \in {"move", "batch", "create"}

\* What the handler answers with an error.
Refused(r) ==
    \/ r.op = "move" /\ ~\E i \in r.items : Exists(i)
    \/ r.op \in {"update", "create"} /\ ~Complete(r.cfg)

\* NextDeskID: one more than the largest id there is.
NextDeskID == Max({0} \cup {i \in Items : Exists(i)}) + 1

\* An item as read, at its new place.
Moved(r, s) == [s EXCEPT !.rail = r.rail \/ s.type # "floor"]

Write(i, value) == [item |-> i, value |-> value]

\* Mutant: a move does not care whether the item was found.
Copy_Anyway(r, i) ==
    IF i = New THEN IF NextDeskID \in Items
                    THEN Write(NextDeskID, Item(r.cfg.type, r.cfg.texts, TRUE)) ELSE NoWrite
    ELSE Write(i, IF Exists(i) THEN Moved(r, stored[i]) ELSE Item("localdesk", "", TRUE))

\* What the handler is about to write once it has read this item: a new one
\* under the next id, the stored one at its new place, or nothing if it is gone.
Copy(r, i) ==
    IF i = New THEN IF NextDeskID \in Items
                    THEN Write(NextDeskID, Item(r.cfg.type, r.cfg.texts, TRUE)) ELSE NoWrite
    ELSE IF Exists(i) THEN Write(i, Moved(r, stored[i])) ELSE NoWrite

\* The handler of a request that arrives.
Fresh(r) == [request |-> r, left |-> IF r.op = "create" THEN {New} ELSE r.items,
             write |-> NoWrite, lost |-> FALSE, overtaken |-> FALSE]

AnswersTo(h, r) == h.request = r /\ ~h.lost
Arriving == {r \in requests : /\ ReadsFirst(r) /\ ~Refused(r)
                              /\ ~\E h \in handlers : AnswersTo(h, r)
                              /\ Cardinality(handlers) < MaxRequests}
Working == handlers \cup {Fresh(r) : r \in Arriving}
Finished(h) == h.left = {} /\ h.write = NoWrite

\* What remains of handlers, without those that ended and are not waited for.
Remaining(hs) == {h \in hs : ~(h.lost /\ Finished(h))}

\* An item is written: whoever read it before and writes it later undoes that.
Overtake(hs, i) ==
    {IF h.write.item = i THEN [h EXCEPT !.overtaken = TRUE] ELSE h : h \in hs}

\* GetDesk of the next item, or NextDeskID.
GetDesk(h, i) ==
    /\ h \in Working /\ h.write = NoWrite /\ i \in h.left
    /\ handlers' = Remaining((handlers \ {h}) \cup
           {[h EXCEPT !.left = @ \ {i}, !.write = Copy(h.request, i), !.overtaken = FALSE]})
    /\ UNCHANGED <<stored, seated, page, widgets, requests>>

\* PutDesk of what was read.
PutDesk(h) ==
    /\ h \in handlers /\ h.write # NoWrite
    /\ stored' = [stored EXCEPT ![h.write.item] = h.write.value]
    /\ handlers' = Remaining(Overtake(handlers \ {h}, h.write.item) \cup
           {[h EXCEPT !.write = NoWrite, !.overtaken = FALSE]})
    /\ UNCHANGED <<seated, page, widgets, requests>>

\* Modes update, which stores the item as sent, whether it exists or not, and
\* delete.
Effect(r) ==
    IF r.op = "delete" THEN Gone ELSE Item(r.cfg.type, r.cfg.texts, TRUE)

\* A transaction that only writes.
Stores(i, item) ==
    /\ stored' = [stored EXCEPT ![i] = item]
    /\ handlers' = Overtake(handlers, i)

Migration(r) == r.op = "update" /\ ~r.closes

\* Mutant: only success ends a migration.
AfterError_KeepsFlag(r) == migrating

\* A migration that failed is taken up by a later drawing.
AfterError(r) == IF Migration(r) THEN migrating \ {r.item} ELSE migrating

\* The request has been handled, and its success handler runs.
Succeeds(r) ==
    /\ r \in requests
    /\ \/ ~ReadsFirst(r) /\ ~Refused(r) /\ Stores(r.item, Effect(r))
       \/ \E h \in handlers : /\ AnswersTo(h, r) /\ Finished(h)
                              /\ handlers' = handlers \ {h} /\ UNCHANGED stored
    /\ requests' = requests \ {r}
    /\ migrating' = IF Migration(r) THEN migrating \ {r.item} ELSE migrating
    /\ form' = IF r.op \in {"update", "create", "delete"} /\ r.closes THEN NoForm ELSE form
    /\ tool' = IF r.op = "batch" THEN Tool("off", {}) ELSE tool
    /\ UNCHANGED <<seated, mode, handles, seen, forced, refused, drag>>

\* The page no longer waits for these handlers.
Abandon(r) ==
    Remaining({IF AnswersTo(h, r) THEN [h EXCEPT !.lost = TRUE] ELSE h : h \in handlers})

\* The request or its answer is lost, or the server refuses it; a handler that
\* has begun goes on.
Fails(r) ==
    /\ r \in requests
    /\ \/ ~ReadsFirst(r) /\ ~Refused(r) /\ Stores(r.item, Effect(r))
       \/ handlers' = Abandon(r) /\ UNCHANGED stored
    /\ requests' = requests \ {r}
    /\ migrating' = AfterError(r)
    /\ UNCHANGED <<seated, mode, handles, seen, forced, refused, widgets>>

-----------------------------------------------------------------------------
(* Others.                                                                 *)

\* Someone sits down or leaves: a sync of the directory or of Robin.
Sit(i, who) ==
    /\ seated[i] # who
    /\ seated' = [seated EXCEPT ![i] = who]
    /\ UNCHANGED <<stored, handlers, page, widgets, requests>>

\* Another editor deletes an item, or places one of this type.
OtherEditor(i, item) ==
    /\ Exists(i) \/ item # Gone
    /\ Stores(i, item)
    /\ UNCHANGED <<seated, page, widgets, requests>>

EditorNext ==
    \/ ToggleUsermode \/ Poll \/ ForcedAnswer \/ ForcedFail
    \/ \E i \in Items : StartDrag(i)
    \/ HideSticky \/ TypeText \/ Save \/ DeleteItem \/ PlaceCluster
    \/ \E type \in Types : ChangeType(type) \/ PlaceItem(type)
    \/ Drop \/ DropOnTrash
    \/ StartAlign \/ SelectDesks \/ CancelAutoAlign \/ ApplyAutoAlign
    \/ \E h \in Working, i \in Items \cup {New} : GetDesk(h, i)
    \/ \E h \in handlers : PutDesk(h)
    \/ \E r \in requests : Succeeds(r) \/ Fails(r)
    \/ \E i \in Items, who \in {"none", "robin", "directory"} : Sit(i, who)
    \/ \E i \in Items : OtherEditor(i, Gone) \/ OtherEditor(i, Item("addesk", "own", TRUE))

EditorSpec == EditorInit /\ [][EditorNext]_editorVars

-----------------------------------------------------------------------------
(* Properties.                                                             *)

\* admin.js:617-620 and 951-954: neither a move nor a save ever stores the
\* person whom Robin shows at a desk, whatever the page knew and whoever came
\* and went meanwhile.  (The code withholds Robin's people only: the avatar of
\* somebody whom a directory seats may be saved with the form.)
NoRobinStored == \A i \in Items : Exists(i) => stored[i].texts # "robin"

\* What an item becomes, or that it is there at all, by a step.
OnlyItsPlace(i) ==
    /\ Exists(i) /\ Exists(i)'
    /\ stored'[i].type = stored[i].type /\ stored'[i].texts = stored[i].texts

\* update.go:111-118 and 179-190: what a move or an alignment writes is the item
\* as stored, moved.  It turns no item into another and brings none back that
\* was deleted, however stale the page that sent it, unless others wrote the
\* same item between the two transactions.
MovesOnlyMove ==
    [][\A h \in handlers : PutDesk(h) /\ h.request.op \in {"move", "batch"} /\ ~h.overtaken
          => OnlyItsPlace(h.write.item)]_editorVars

\* update.go:112-113 without that exception: "ONLY the coordinates change; every
\* other field is preserved from the stored record".
MovesPreserve ==
    [][\A h \in handlers : PutDesk(h) /\ h.request.op \in {"move", "batch"}
          => OnlyItsPlace(h.write.item)]_editorVars

\* store.go:725: the id of a new item is a "free desk id".
CreationsOnlyAdd ==
    [][\A h \in handlers : PutDesk(h) /\ h.request.op = "create"
          => ~Exists(h.write.item)]_editorVars

\* A floor whose migration is noted as under way has its request under way:
\* the note of a lost one would keep it off the rail for good.
MigrationIsAwaited ==
    \A i \in migrating : \E r \in requests : Migration(r) /\ r.item = i

\* user.js:102-104 wants a page like every user's after the edit mode is left:
\* items can be dragged in edit mode and only there, but while the refresh
\* that changes it is under way or after one failed.
HandlesFollowMode == handles = (mode = "edit") \/ forced > 0 \/ refused

\* The sidebar form is open in edit mode only.
FormNeedsEditMode == form # NoForm => mode = "edit"

\* Page, requests and stored items fit together though the map is drawn anew,
\* saves fail and others edit (updateDesks, migrateFloorsToRail,
\* addInputfields).
EditorInStep ==
    /\ EditorTypeOK /\ NoRobinStored /\ MigrationIsAwaited
    /\ HandlesFollowMode /\ FormNeedsEditMode
=============================================================================
