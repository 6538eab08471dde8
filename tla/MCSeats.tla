------------------------------ MODULE MCSeats ------------------------------
(* Instances of Seats for TLC: both calculations run from every start to the *)
(* end.                                                                      *)
EXTENDS MCSourceAssign, Seats

\* Columns and rows a little off their lines, far enough apart for several
\* pods, and a place away from all of them.
FourDesks == 1..4
Points == [x : {0, 15, 20}, y : {0, 40, 80}] \cup {[x |-> 130, y |-> 40]}

\* While desks are aligned nobody is assigned to one, and conversely.
SeatsInit ==
    \/ /\ part = "assign" /\ Init
       /\ at = [d \in AlignDesks |-> [x |-> 0, y |-> 0]] /\ aligned = {}
    \/ /\ part = "align" /\ AlignInit
       /\ desks = <<>> /\ mirror = [r \in Refs |-> <<>>]
       /\ sources = CHOOSE s \in SourceLists : TRUE
       /\ i = 1 /\ j = 1 /\ result = {} /\ deskOwner = [k \in {} |-> k]
       /\ placed = {} /\ placedThis = {}

SeatsSpec == SeatsInit /\ [][SeatsNext]_seatsVars
=============================================================================
