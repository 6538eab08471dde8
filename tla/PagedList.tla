----------------------------- MODULE PagedList -----------------------------
(***************************************************************************)
(* The lists that load page by page while the reader scrolls: the change   *)
(* browser of the map page (src/internal/web/static/user.js) and, on the   *)
(* administration page (admin/backend.js), the audit log and the list of   *)
(* all users.  They share one pager, with differences in what a failed     *)
(* request does and in what asks for the next page.                        *)
(*                                                                         *)
(* A request names its offset and the filter at the time it is sent; a     *)
(* token makes the answer of a superseded one void.  Tokens are not        *)
(* counted: "live" is the request whose token is current and "late" holds  *)
(* the others that are still under way.                                    *)
(***************************************************************************)
EXTENDS Integers, Sequences, FiniteSets, SequencesExt

CONSTANTS
    Entries,     \* ids of entries, newest (or first by name) highest
    Filters,     \* texts of the filter boxes
    NoFilter,    \* the empty text
    Matches(_),  \* the entries a text lets pass
    PageSize,    \* rows per request (50 or 100)
    View,        \* rows that always fit on the screen
    MaxLate      \* bound: superseded requests still under way

ASSUME PagedAssumption ==
    /\ Entries \subseteq Nat /\ IsFiniteSet(Entries)
    /\ NoFilter \in Filters
    /\ PageSize \in Nat \ {0} /\ View \in Nat /\ MaxLate \in Nat

Lists == {"changes", "audit", "users"}

VARIABLES
    list,      \* which of the lists this is; never changes
    log,       \* the entries of the server's log
    base,      \* history: its entries when the list started
    shrunk,    \* history: an entry was removed since then
    open,      \* the modal, or the tab, is on the screen
    box,       \* the text of the filter box
    debounce,  \* the timeout that applies the text is running
    rows,      \* the entries on the screen, from the top
    offset, hasMore, loading,   \* the pager's variables
    near,      \* the end of the list is in, or near, the view
    notice,    \* the status line at the end of the list
    live,      \* the request whose answer counts, if there is one
    late       \* superseded requests under way

listVars == <<list, log, base, shrunk, open, box, debounce, rows, offset, hasMore,
          loading, near, notice, live, late>>
pager == <<rows, offset, hasMore, loading, notice, live, late>>
logVars == <<log, base, shrunk>>

Requests == [offset : 0..2 * Cardinality(Entries), filter : Filters]
Notices == {"", "loading", "end", "more", "empty", "failed"}

ListTypeOK ==
    /\ list \in Lists
    /\ log \subseteq Entries /\ base \subseteq Entries
    /\ {shrunk, open, debounce, hasMore, loading, near} \subseteq BOOLEAN
    /\ box \in Filters
    /\ rows \in Seq(Entries)
    /\ offset \in 0..2 * Cardinality(Entries)
    /\ notice \in Notices
    /\ live \in SUBSET Requests /\ Cardinality(live) <= 1
    /\ late \subseteq Requests
    /\ loading <=> live # {}

ListInit ==
    /\ list \in Lists
    /\ log \in SUBSET Entries /\ base = log /\ shrunk = FALSE
    /\ open = FALSE /\ box = NoFilter /\ debounce = FALSE
    /\ rows = << >> /\ offset = 0 /\ hasMore = TRUE /\ loading = FALSE
    /\ near = TRUE /\ notice = ""
    /\ live = {} /\ late = {}

-----------------------------------------------------------------------------
(* The server.                                                              *)

\* How many entries of S come before e.
Rank(S, e) == Cardinality({f \in S : f > e})

\* The entries of S, the newest first.
Newest(S) == [n \in 1..Cardinality(S) |-> CHOOSE e \in S : Rank(S, e) = n - 1]

Window(S, from) ==
    LET all == Newest(S)
    IN  SubSeq(all, from + 1,
               IF from + PageSize < Len(all) THEN from + PageSize ELSE Len(all))

\* Mutant: one more match beyond the window is not counted.
PageOf_OneShort(r) ==
    [rows |-> Window(log \cap Matches(r.filter), r.offset),
     more |-> Cardinality(log \cap Matches(r.filter)) > r.offset + PageSize + 1]

\* handleRestChanges: a window of the entries that match, newest first, and
\* whether at least one lies beyond it.
PageOf(r) == [rows |-> Window(log \cap Matches(r.filter), r.offset),
              more |-> Cardinality(log \cap Matches(r.filter)) > r.offset + PageSize]

\* The log is only written at its top; accounts are listed by name.
AddEntry(e) ==
    /\ e \in Entries \ log
    /\ list # "users" => \A other \in log : e > other
    /\ log' = log \cup {e}
    /\ UNCHANGED <<list, base, shrunk, open, box, debounce, near, pager>>

\* An account is removed.
RemoveUser(e) ==
    /\ list = "users" /\ e \in log
    /\ log' = log \ {e}
    /\ shrunk' = TRUE
    /\ UNCHANGED <<list, base, open, box, debounce, near, pager>>

-----------------------------------------------------------------------------
(* The pager.                                                              *)

\* What is under way when the token is raised is void from then on.
Supersede ==
    /\ late' = late \cup live
    /\ Cardinality(late') <= MaxLate

\* loadMoreChanges, loadAuditPage, loadAllUsersPage: one request at a time,
\* for the text that is in the box now.
Request(from, text) ==
    /\ loading' = TRUE
    /\ live' = {[offset |-> from, filter |-> text]}
    /\ notice' = IF list = "changes" THEN "loading" ELSE notice

\* resetChangesList: empty, from the top, with a new token.
Restart(text) ==
    /\ rows' = << >> /\ offset' = 0 /\ hasMore' = TRUE /\ near' = TRUE
    /\ base' = log /\ shrunk' = FALSE
    /\ Supersede
    /\ Request(0, text)

\* openChangesModal empties the box and starts again; the debounce timeout
\* of an earlier text keeps running.
OpenChangesModal ==
    /\ list = "changes"
    /\ open' = TRUE /\ box' = NoFilter
    /\ Restart(NoFilter)
    /\ UNCHANGED <<list, log, debounce>>

\* closeChangesModal only hides.
CloseChangesModal ==
    /\ list = "changes" /\ open
    /\ open' = FALSE
    /\ UNCHANGED <<list, box, debounce, near, logVars, pager>>

\* initAuditLog: the tab is loaded, with empty boxes.
InitAuditLog ==
    /\ list = "audit" /\ ~open
    /\ open' = TRUE /\ box' = NoFilter
    /\ Restart(NoFilter)
    /\ UNCHANGED <<list, log, debounce>>

\* initAllUsers
InitAllUsers ==
    /\ list = "users" /\ ~open
    /\ open' = TRUE /\ box' = NoFilter
    /\ Restart(NoFilter)
    /\ UNCHANGED <<list, log, debounce>>

\* Another tab: the rows are gone, the pager's variables stay.
LeaveTab ==
    /\ list # "changes" /\ open
    /\ open' = FALSE /\ rows' = << >> /\ box' = NoFilter /\ near' = FALSE
    /\ notice' = ""
    /\ UNCHANGED <<list, debounce, offset, hasMore, loading, live, late, logVars>>

\* Mutant: the text is applied to what is loaded next, without a restart.
Type_NoTimeout(text) ==
    /\ open /\ text # box
    /\ box' = text
    /\ UNCHANGED <<list, open, debounce, near, logVars, pager>>

\* filterChanges, auditFilterChanged, allUsersFilterChanged: a keystroke.
Type(text) ==
    /\ open /\ text # box
    /\ box' = text /\ debounce' = TRUE
    /\ UNCHANGED <<list, open, near, logVars, pager>>

\* The timeout of a keystroke in the change browser.
FilterChanges ==
    /\ list = "changes" /\ debounce
    /\ debounce' = FALSE
    /\ Restart(box)
    /\ UNCHANGED <<list, log, open, box>>

\* The timeout of auditFilterChanged.
AuditFilterChanged ==
    /\ list = "audit" /\ debounce
    /\ debounce' = FALSE
    /\ Restart(box)
    /\ UNCHANGED <<list, log, open, box>>

\* The timeout of allUsersFilterChanged.
AllUsersFilterChanged ==
    /\ list = "users" /\ debounce
    /\ debounce' = FALSE
    /\ Restart(box)
    /\ UNCHANGED <<list, log, open, box>>

\* Asks for the next page, unless one is under way or none is left.
LoadNext ==
    IF loading \/ ~hasMore
    THEN UNCHANGED <<loading, live, notice>>
    ELSE Request(offset, box)

\* The list is scrolled: every scroll near the end of the change browser
\* asks for a page, in the other lists only the end's coming into view.
Scroll(toEnd) ==
    /\ open
    /\ ~toEnd => Len(rows) > View
    /\ near' = toEnd
    /\ IF toEnd /\ (list = "changes" \/ ~near)
       THEN LoadNext
       ELSE UNCHANGED <<loading, live, notice>>
    /\ UNCHANGED <<list, open, box, debounce, rows, offset, hasMore, late, logVars>>

-----------------------------------------------------------------------------
(* Answers.                                                                *)

\* renderChanges: the line below the rows.
StatusLine ==
    IF offset' = 0 THEN "empty" ELSE IF hasMore' THEN "more" ELSE "end"

\* Rows push the end of the list out of the view once there are enough.
PushedDown == near' \in {b \in BOOLEAN : (b => near) /\ (~b /\ near => Len(rows') > View)}

\* Mutant: the offset only advances under a filter.
TakePage_OffsetStays(r) ==
    /\ rows' = IF open \/ list = "changes" THEN rows \o PageOf(r).rows ELSE rows
    /\ offset' = IF box = NoFilter THEN offset ELSE offset + Len(PageOf(r).rows)
    /\ hasMore' = PageOf(r).more
    /\ PushedDown

\* The page of request r is appended, and the offset grows by its length.
TakePage(r) ==
    LET page == PageOf(r)
    IN  /\ rows' = IF open \/ list = "changes" THEN rows \o page.rows ELSE rows
        /\ offset' = offset + Len(page.rows)
        /\ hasMore' = page.more
        /\ PushedDown

\* loadMoreChanges, success.
ChangesAnswer ==
    /\ list = "changes" /\ \E r \in live : TakePage(r)
    /\ loading' = FALSE /\ live' = {} /\ notice' = StatusLine
    /\ UNCHANGED <<list, open, box, debounce, late, logVars>>

\* loadAuditPage and loadAllUsersPage, success: while the end stays in the
\* view the next page is asked for at once.
PageAnswer ==
    /\ \E r \in live : TakePage(r)
    /\ IF hasMore' /\ near' /\ open
       THEN loading' = TRUE /\ live' = {[offset |-> offset', filter |-> box]}
       ELSE loading' = FALSE /\ live' = {}
    /\ UNCHANGED <<list, open, box, debounce, late, logVars>>

UpdateAuditStatus == notice' = IF open THEN StatusLine ELSE notice

UpdateAllUsersStatus == notice' = IF open THEN StatusLine ELSE notice

\* Mutant: a page that leaves the end in the view asks for nothing.
AuditAnswer_OnePage ==
    /\ list = "audit" /\ \E r \in live : TakePage(r)
    /\ loading' = FALSE /\ live' = {} /\ notice' = StatusLine
    /\ UNCHANGED <<list, open, box, debounce, late, logVars>>

AuditAnswer == list = "audit" /\ PageAnswer /\ UpdateAuditStatus

AllUsersAnswer == list = "users" /\ PageAnswer /\ UpdateAllUsersStatus

\* Mutant: an answer is taken whatever its token.
LateAnswer_Taken(r) ==
    /\ r \in late
    /\ late' = late \ {r}
    /\ TakePage(r)
    /\ UNCHANGED <<list, open, box, debounce, loading, live, notice, logVars>>

\* An answer with an old token, or its failure, is ignored.
LateAnswer(r) ==
    /\ r \in late
    /\ late' = late \ {r}
    /\ UNCHANGED <<list, open, box, debounce, rows, offset, hasMore, loading,
                   near, notice, live, logVars>>

\* Mutant: the flag that a request is under way is not cleared.
ChangesFail_StillLoading ==
    /\ list = "changes" /\ live # {}
    /\ live' = {} /\ hasMore' = FALSE
    /\ notice' = IF rows = << >> THEN "failed" ELSE notice
    /\ UNCHANGED <<list, open, box, debounce, rows, offset, loading, near, late, logVars>>

\* loadMoreChanges, error: no further page; the status line is replaced
\* only when there are no rows.
ChangesFail ==
    /\ list = "changes" /\ live # {}
    /\ loading' = FALSE /\ live' = {} /\ hasMore' = FALSE
    /\ notice' = IF rows = << >> THEN "failed" ELSE notice
    /\ UNCHANGED <<list, open, box, debounce, rows, offset, near, late, logVars>>

\* loadAuditPage, error: the page may be asked for again.
AuditFail ==
    /\ list = "audit" /\ live # {}
    /\ loading' = FALSE /\ live' = {}
    /\ notice' = IF open THEN "failed" ELSE notice
    /\ UNCHANGED <<list, open, box, debounce, rows, offset, hasMore, near, late, logVars>>

\* loadAllUsersPage, error.
AllUsersFail ==
    /\ list = "users" /\ live # {}
    /\ loading' = FALSE /\ live' = {}
    /\ notice' = IF open THEN "failed" ELSE notice
    /\ UNCHANGED <<list, open, box, debounce, rows, offset, hasMore, near, late, logVars>>

-----------------------------------------------------------------------------
PageAnswers == ChangesAnswer \/ AuditAnswer \/ AllUsersAnswer
Failures == ChangesFail \/ AuditFail \/ AllUsersFail
Timeouts == FilterChanges \/ AuditFilterChanged \/ AllUsersFilterChanged

ListNext ==
    \/ \E e \in Entries : AddEntry(e) \/ RemoveUser(e)
    \/ OpenChangesModal \/ CloseChangesModal
    \/ InitAuditLog \/ InitAllUsers \/ LeaveTab
    \/ \E text \in Filters : Type(text)
    \/ Timeouts
    \/ \E toEnd \in BOOLEAN : Scroll(toEnd)
    \/ PageAnswers \/ Failures
    \/ \E r \in late : LateAnswer(r)

ListSpec == ListInit /\ [][ListNext]_listVars

-----------------------------------------------------------------------------
(* Properties.                                                             *)

\* Once no text waits to be applied, the rows match the text in the box and
\* none that was there when the list started is left out above the last one,
\* though entries arrive while the reader scrolls, a page was asked for
\* between a keystroke and its timeout, and answers come late.
NothingSkipped ==
    ~debounce /\ ~shrunk =>
       /\ Range(rows) \subseteq Matches(box)
       /\ \A e \in base \cap Matches(box), r \in Range(rows) :
             r <= e => e \in Range(rows)

\* A list that says it is at its end shows all that was there.
EndIsEnd ==
    open /\ ~debounce /\ ~shrunk /\ ~loading /\ notice = "end"
        => base \cap Matches(box) \subseteq Range(rows)

\* No entry is listed twice while the log stays as it is.
NoRowTwice == ~debounce /\ ~shrunk /\ log = base => IsInjective(rows)

\* The rows are an excerpt of the log from its top, without gaps and
\* repetitions (loadMoreChanges, loadAuditPage, loadAllUsersPage).
ListIsExcerpt == ListTypeOK /\ NothingSkipped /\ EndIsEnd /\ NoRowTwice

\* While the end of the audit log or of the users is in the view and more is
\* to come, a page is under way or a keystroke is about to ask for one, unless
\* the last request failed: the list never stops half-way without a word.
PagesFollow ==
    list # "changes" /\ open /\ near /\ hasMore /\ notice # "failed"
        => loading \/ debounce

\* The list keeps the promise of LogExcerpt, from keystroke to keystroke.
Excerpt == INSTANCE LogExcerpt
           WITH filter <- box,
                shown <- IF debounce \/ shrunk THEN {} ELSE Range(rows)
KeepsPromise == Excerpt!Spec

\* user.js:3137-3139 says of the status line that it is the state of "what
\* has been fetched so far plus the loading/empty footer": a list that says
\* it is loading has a request under way.
LoadingIsAwaited == notice = "loading" => loading
=============================================================================
