-------------------------- MODULE ConnectionCards --------------------------
(***************************************************************************)
(* The connection cards of the Sync tab (src/internal/web/static/admin/    *)
(* backend.js) with the two handlers behind them: the switch that enables  *)
(* a connection, its Sync now button, and the overlay that creates or      *)
(* edits an EntraID connection and has a certificate generated for it.     *)
(*                                                                         *)
(* Every request is a record of calls or gens: it is handled and answered  *)
(* later, in any order, or fails at any point.  The administrator goes on  *)
(* meanwhile, and the answer of a submitted form redraws the whole tab     *)
(* under the requests that are still under way.                            *)
(***************************************************************************)
EXTENDS Naturals, FiniteSets

CONSTANTS
  LdapIds,      \* LDAP connections that may be stored from the start
  EntraIds,     \* EntraID connections that may be
  StartTabs,         \* sets of these connections a tab may start with
  NewIds,       \* ids for EntraID connections that are created
  MaxCalls,     \* bound: toggles, syncs and submissions under way at once
  MaxGens,      \* bound: certificates asked for at once
  MaxPages      \* bound: times the tab is drawn again

NoId == "noId"
Ids == LdapIds \cup EntraIds \cup NewIds

ASSUME CardsAssumption ==
  /\ MaxCalls \in Nat /\ MaxGens \in Nat /\ MaxPages \in Nat
  /\ NoId \notin Ids /\ \A tab \in StartTabs : tab \subseteq LdapIds \cup EntraIds
  /\ LdapIds \cap (EntraIds \cup NewIds) = {} /\ EntraIds \cap NewIds = {}

VARIABLES
  connections,  \* the store: id -> [on, cert] of what exists
  cards,        \* what the tab shows: id -> [checked, busy, button]
  entraForm,    \* the overlay
  gens,         \* certificates asked for on this page and not answered
  calls,        \* the other requests under way
  pages         \* times the tab was drawn again
cardVars == <<connections, cards, entraForm, gens, calls, pages>>

\* What the certificate field or a stored certificate can be: empty, typed by
\* the administrator, generated by the server, or there from the start.  The
\* private key goes the same way, field by field, and is left out.
Credential == {"", "typed", "generated", "stored"}
Connection == [on : BOOLEAN, cert : Credential]
Card == [checked : BOOLEAN, busy : BOOLEAN, button : BOOLEAN]
Form == [open : BOOLEAN, edit : Ids \cup {NoId}, method : {"secret", "certificate"},
         cert : Credential]

\* resetEntraForm: create mode, every field empty.
EmptyForm == [open |-> FALSE, edit |-> NoId, method |-> "secret", cert |-> ""]

\* The tab as the template draws it from the store.
CardsOf(store) ==
  [i \in DOMAIN store |-> [checked |-> store[i].on, busy |-> FALSE, button |-> store[i].on]]

CardsInit ==
  /\ \E tab \in StartTabs : connections \in [tab -> [on : BOOLEAN, cert : {"stored"}]]
  /\ cards = CardsOf(connections)
  /\ entraForm = EmptyForm
  /\ gens = 0 /\ calls = {} /\ pages = 0

\* A request with the fields of every kind; two that differ in nothing are one.
\* Its row is what the handler has read of the store so far.
\* The administrator stops clicking when the last page that is followed is up.
Clicks == pages < MaxPages
MayCall == Clicks /\ Cardinality(calls) < MaxCalls
Call(kind, i) == [kind |-> kind, id |-> i, page |-> pages, at |-> "sent",
                  on |-> FALSE, cert |-> "", row |-> <<>>]

---------------------------------------------------------------------------
(* The switch: toggleLdapEnabled and toggleEntraEnabled. *)

Toggle(i) ==
  /\ i \in DOMAIN cards /\ ~cards[i].busy /\ MayCall
  /\ cards' = [cards EXCEPT ![i].checked = ~@, ![i].busy = TRUE]
  /\ calls' = calls \cup {[Call("toggle", i) EXCEPT !.on = ~cards[i].checked]}
  /\ UNCHANGED <<connections, entraForm, gens, pages>>

\* toggleLdapID / toggleEntraID of the handler: Disabled of the listed record.
ServeToggle(c) ==
  /\ c.kind = "toggle" /\ c.at = "sent"
  /\ connections' = [connections EXCEPT ![c.id].on = c.on]
  /\ calls' = (calls \ {c}) \cup {[c EXCEPT !.at = "done"]}
  /\ UNCHANGED <<cards, entraForm, gens, pages>>

\* The answer re-enables the checkbox it was given, which may have been drawn
\* over since, and sets the button it finds by id on the page of now.
ButtonAfterToggle(c, card) ==
  [card EXCEPT !.busy = IF c.page = pages THEN FALSE ELSE @, !.button = c.on]
ToggleAnswer(c) ==
  /\ c.kind = "toggle" /\ c.at = "done"
  /\ cards' = [cards EXCEPT ![c.id] = ButtonAfterToggle(c, @)]
  /\ calls' = calls \ {c}
  /\ UNCHANGED <<connections, entraForm, gens, pages>>

\* No answer, whether or not the server saw the request: back as it was.
ToggleFails(c) ==
  /\ c.kind = "toggle"
  /\ cards' = IF c.page = pages
              THEN [cards EXCEPT ![c.id].busy = FALSE, ![c.id].checked = ~c.on]
              ELSE cards
  /\ calls' = calls \ {c}
  /\ UNCHANGED <<connections, entraForm, gens, pages>>

---------------------------------------------------------------------------
(* Sync now: syncLDAP and syncEntra with handleRestLdap and                *)
(* handleRestEntraSyncOne.                                                 *)

Sync(i) ==
  /\ i \in DOMAIN cards /\ cards[i].button /\ MayCall
  /\ cards' = IF i \in LdapIds THEN cards ELSE [cards EXCEPT ![i].button = FALSE]
  /\ calls' = calls \cup {Call("sync", i)}
  /\ UNCHANGED <<connections, entraForm, gens, pages>>

\* The handler lists the connections; only EntraID's refuses a disabled one.
ServeSync(c) ==
  /\ c.kind = "sync" /\ c.at = "sent"
  /\ calls' = (calls \ {c}) \cup
       {IF c.id \notin LdapIds /\ ~connections[c.id].on
        THEN [c EXCEPT !.at = "done"]
        ELSE [c EXCEPT !.at = "listed", !.row = [i \in {c.id} |-> connections[i]]]}
  /\ UNCHANGED <<connections, cards, entraForm, gens, pages>>

\* After the fetch the listed copy is stored again, to stamp LastSync.
StampSync(c) ==
  /\ c.kind = "sync" /\ c.at = "listed"
  /\ connections' = [connections EXCEPT ![c.id] = c.row[c.id]]
  /\ calls' = (calls \ {c}) \cup {[c EXCEPT !.at = "done", !.row = <<>>]}
  /\ UNCHANGED <<cards, entraForm, gens, pages>>

\* Mutant: the LDAP button is enabled like EntraID's.
SyncEnds_LdapToo(c, card) ==
  IF c.page # pages THEN card ELSE [card EXCEPT !.button = TRUE]
\* Answer or failure: EntraID's button is enabled again, LDAP's only coloured.
SyncEnds(c, card) ==
  IF c.id \in LdapIds \/ c.page # pages THEN card ELSE [card EXCEPT !.button = TRUE]
SyncAnswer(c) ==
  /\ c.kind = "sync"
  /\ cards' = [cards EXCEPT ![c.id] = SyncEnds(c, @)]
  /\ calls' = calls \ {c}
  /\ UNCHANGED <<connections, entraForm, gens, pages>>

---------------------------------------------------------------------------
(* The overlay of an EntraID connection. *)

\* Mutant: an edited connection gets one, too.
WantsCert_EditToo(form) == form.method = "certificate" /\ form.cert = ""
\* maybeGenerateEntraCert: only for a new connection, only into empty fields.
WantsCert(form) ==
  form.method = "certificate" /\ form.edit = NoId /\ form.cert = ""
\* The form after a change of the method, and the request that may start: not
\* if the field of the key, which is not in the model, has been filled.
ShowForm(form) ==
  /\ entraForm' = form
  /\ \E keyEmpty \in BOOLEAN :
       gens' = IF WantsCert(form) /\ keyEmpty THEN gens + 1 ELSE gens

OpenEntraForm ==
  /\ ~entraForm.open /\ Clicks
  /\ entraForm' = [EmptyForm EXCEPT !.open = TRUE]
  /\ UNCHANGED <<connections, cards, gens, calls, pages>>
CloseEntraForm ==
  /\ entraForm.open
  /\ entraForm' = EmptyForm
  /\ UNCHANGED <<connections, cards, gens, calls, pages>>

\* editEntraSource: the connection's method, every credential blank.
EditEntraSource(i) ==
  /\ ~entraForm.open /\ Clicks /\ i \in DOMAIN cards \ LdapIds
  /\ \E method \in {"secret", "certificate"} :
        ShowForm([open |-> TRUE, edit |-> i, method |-> method, cert |-> ""])
  /\ UNCHANGED <<connections, cards, calls, pages>>

ChooseMethod(method) ==
  /\ entraForm.open /\ method # entraForm.method
  /\ gens < MaxGens
  /\ ShowForm([entraForm EXCEPT !.method = method])
  /\ UNCHANGED <<connections, cards, calls, pages>>

\* The administrator pastes a certificate, or empties the field again.
TypeCertificate ==
  /\ entraForm.open /\ entraForm.method = "certificate"
  /\ \E text \in {"", "typed"} : entraForm' = [entraForm EXCEPT !.cert = text]
  /\ UNCHANGED <<connections, cards, gens, calls, pages>>

\* The answer fills the field if it is empty, in the form as it is now.
Filled_Always(field) == "generated"
Filled(field) == IF field = "" THEN "generated" ELSE field
CertAnswer ==
  /\ gens > 0
  /\ gens' = gens - 1
  /\ entraForm' = [entraForm EXCEPT !.cert = Filled(@)]
  /\ UNCHANGED <<connections, cards, calls, pages>>
CertFails ==
  /\ gens > 0
  /\ gens' = gens - 1
  /\ UNCHANGED <<connections, cards, entraForm, calls, pages>>

\* submitAdminForm sends the fields as they are; the overlay stays open.
SubmitForm ==
  /\ entraForm.open /\ MayCall
  /\ calls' = calls \cup {[Call("submit", entraForm.edit) EXCEPT !.cert = entraForm.cert]}
  /\ UNCHANGED <<connections, cards, entraForm, gens, pages>>

\* editEntraID: a blank credential keeps the stored one.
Kept(typed, stored) == IF typed = "" THEN stored ELSE typed
ServeEdit(c) ==
  /\ c.kind = "submit" /\ c.at = "sent" /\ c.id # NoId
  /\ connections' = [connections EXCEPT ![c.id].cert = Kept(c.cert, @)]
  /\ calls' = (calls \ {c}) \cup {[c EXCEPT !.at = "done", !.cert = "", !.row = connections']}
  /\ UNCHANGED <<cards, entraForm, gens, pages>>
\* A new connection, enabled, under the next id.
ServeCreate(c) ==
  /\ c.kind = "submit" /\ c.at = "sent" /\ c.id = NoId
  /\ \E i \in NewIds \ DOMAIN connections :
       connections' = [j \in DOMAIN connections \cup {i} |->
         IF j = i THEN [on |-> TRUE, cert |-> c.cert]
         ELSE connections[j]]
  /\ calls' = (calls \ {c}) \cup {[c EXCEPT !.at = "done", !.cert = "", !.row = connections']}
  /\ UNCHANGED <<cards, entraForm, gens, pages>>

\* The answer is the tab as the server drew it after the change.  A certificate
\* asked for before fills a field that is no longer on the page.
SubmitAnswer(c) ==
  /\ c.kind = "submit" /\ c.at = "done" /\ pages < MaxPages
  /\ pages' = pages + 1
  /\ cards' = CardsOf(c.row)
  /\ entraForm' = EmptyForm
  /\ gens' = 0
  /\ calls' = calls \ {c}
  /\ UNCHANGED connections
SubmitFails(c) ==
  /\ c.kind = "submit"
  /\ calls' = calls \ {c}
  /\ UNCHANGED <<connections, cards, entraForm, gens, pages>>

---------------------------------------------------------------------------
CardsNext ==
  \/ \E i \in Ids : Toggle(i) \/ Sync(i) \/ EditEntraSource(i)
  \/ \E c \in calls : \/ ServeToggle(c) \/ ToggleAnswer(c) \/ ToggleFails(c)
                      \/ ServeSync(c) \/ StampSync(c) \/ SyncAnswer(c)
                      \/ ServeEdit(c) \/ ServeCreate(c)
                      \/ SubmitAnswer(c) \/ SubmitFails(c)
  \/ OpenEntraForm \/ CloseEntraForm \/ TypeCertificate \/ SubmitForm
  \/ \E method \in {"secret", "certificate"} : ChooseMethod(method)
  \/ CertAnswer \/ CertFails
CardsSpec == CardsInit /\ [][CardsNext]_cardVars

---------------------------------------------------------------------------
(* Properties *)

\* Every variable has its type; a card is there for each connection the tab was
\* drawn with, and a request is of this page or an earlier one.
CardsTypeOK ==
  /\ DOMAIN connections \subseteq Ids
  /\ \A i \in DOMAIN connections : connections[i] \in Connection
  /\ DOMAIN cards \subseteq DOMAIN connections
  /\ \A i \in DOMAIN cards : cards[i] \in Card
  /\ entraForm \in Form
  /\ gens \in 0 .. MaxGens
  /\ pages \in 0 .. MaxPages
  /\ \A c \in calls : c.page <= pages
  /\ Cardinality(calls) <= MaxCalls

\* On a tab that was not drawn over, the Sync now button of an LDAP card is
\* enabled exactly while its switch is on, whatever toggles failed and whatever
\* syncs were answered in between (toggleLdapEnabled, syncLDAP).
LdapButtonInStep ==
  pages = 0 => \A i \in LdapIds \cap DOMAIN cards : ~cards[i].busy => cards[i].button = cards[i].checked

\* Cards, form and requests fit together on every page the tab was drawn with
\* (toggleLdapEnabled, syncLDAP, maybeGenerateEntraCert).
CardsInStep == CardsTypeOK /\ LdapButtonInStep

\* A certificate the administrator typed is never replaced by a late generated
\* one: it goes only by typing, or with the whole form
\* (maybeGenerateEntraCert, "Only fill if still empty").
TypedIsKept ==
  [][entraForm.cert = "typed" => entraForm'.cert \in {"typed", ""}]_cardVars

\* updateEntraAuthMethod says: "Skip in edit mode (an existing connection
\* already has one)": editing a stored connection never replaces its
\* certificate by a generated one.
EditNeverGenerates ==
  \A i \in EntraIds \cap DOMAIN connections : connections[i].cert # "generated"
=============================================================================
