----------------------------- MODULE LogExcerpt -----------------------------
(***************************************************************************)
(* What a list that is loaded page by page promises to its reader: a gap-  *)
(* free excerpt, from the newest entry down, of the log's entries that     *)
(* match the filter.  PagedList implements it with offsets, a debounce     *)
(* timeout and answers that may come late.                                 *)
(***************************************************************************)
EXTENDS Integers

CONSTANTS
    Entries,    \* ids of log entries; a smaller one is further down
    Filters,    \* texts of the filter
    Matches(_)  \* the entries a filter lets pass

VARIABLES
    log,     \* the entries of the log
    filter,  \* the text the reader asked for
    shown    \* the entries on the screen; {} while nothing is promised

vars == <<log, filter, shown>>

Init == log \subseteq Entries /\ filter \in Filters /\ shown = {}

\* The server's log changes; what is on the screen stays or is withdrawn.
LogChanges == log' \subseteq Entries /\ UNCHANGED filter /\ shown' \in {shown, {}}

\* The reader asks for something, or the list starts again.
Restart == filter' \in Filters /\ shown' = {} /\ UNCHANGED log

\* More entries appear: they match, and between the ones above and the last
\* one that appears none is left out.
Extend ==
    /\ UNCHANGED <<log, filter>>
    /\ shown' \subseteq shown \cup (log \cap Matches(filter))
    /\ shown \subseteq shown'
    /\ \A e \in log \cap Matches(filter), last \in shown' :
          last <= e /\ (\A s \in shown : e < s) => e \in shown'

Next == LogChanges \/ Restart \/ Extend

Spec == Init /\ [][Next]_vars
=============================================================================
