----------------------------- MODULE MCBooking -----------------------------
(* Instances of Booking for TLC. *)
EXTENDS Booking, TLC

Symmetry == Permutations(Requests)

AskedForA   == Days \X {"a"} \X Desks
AskedForAny == Days \X Names \X Desks

\* Visitors book and cancel, which cleans up just as looking does.
NoListing == \A r \in Requests : At(r, "idle") => w'[r] = Idle \/ w'[r].mode # "list"

\* One map in the west or two, the server in the east.
WestInit == Init /\ \A m \in DOMAIN maps : maps[m] = "west"
MapsInit == WestInit /\ DOMAIN maps = {"a"}
TwoInit  == WestInit /\ DOMAIN maps = Names

MapsSpec     == MapsInit /\ [][Next]_vars
MapsFairSpec == MapsInit /\ [][Next]_vars /\ Fairness

=============================================================================
