------------------------------ MODULE MCDesks ------------------------------
(* Desks, for TLC: their booking and their look.  The look only asks which   *)
(* desk numbers are booked for the date shown, which its module leaves open, *)
(* so in each behaviour one of the two moves.                                *)
EXTENDS MCBooking, DeskLook

VARIABLE part   \* the module that moves

TwoNumbers == {"n1", "n2"}
OneExempt == {"n2"}
OneCustom == [custom_plant |-> "small"]

DesksSymmetry == Permutations(Requests) \cup Permutations(ItemIds)

desksVars == <<vars, lookVars, part>>

DesksInit == part \in {"booking", "look"} /\ MapsInit /\ LookInit

DesksNext ==
    /\ UNCHANGED part
    /\ \/ part = "booking" /\ Next /\ UNCHANGED lookVars
       \/ part = "look" /\ LookNext /\ UNCHANGED vars

DesksSpec == DesksInit /\ [][DesksNext]_desksVars
=============================================================================
