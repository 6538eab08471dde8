---------------------------- MODULE MCBackground ----------------------------
(* What has to come about in the end though nobody asks for it, for TLC: the *)
(* clean-up that rides on bookings, the polls of the mobile app's map, and   *)
(* the updates of its service worker.  They share no state, so it is enough  *)
(* that in each behaviour one of them moves.                                 *)
EXTENDS MCBooking, MobileMap, OfflineShell

CONSTANTS m1, m2

VARIABLE part   \* the module that moves

ListedMaps == {m1, m2}

backgroundVars == <<vars, mobileVars, shellVars, part>>

BackgroundInit ==
    /\ part \in {"booking", "map", "shell"}
    /\ TwoInit /\ MobileInit /\ ShellInit
    /\ part # "map" => cookie = NoMap

BackgroundNext ==
    /\ UNCHANGED part
    /\ \/ part = "booking" /\ Next /\ UNCHANGED <<mobileVars, shellVars>>
       \/ part = "map" /\ MobileNext /\ UNCHANGED <<vars, shellVars>>
       \/ part = "shell" /\ ShellNext /\ UNCHANGED <<vars, mobileVars>>

\* The fairness of each module, of the one that moves; what MobileFairness
\* speaks of is not possible before the app's first step.
BackgroundFairness ==
    /\ \A r \in Requests : WF_vars(Handle(r))
    /\ WF_vars(part = "booking" /\ \E r \in Requests : Receive(r))
    /\ MobileFairness
    /\ WF_shellVars(part = "shell" /\ FindUpdate)
    /\ WF_shellVars(part = "shell" /\ (PrecacheDone \/ PrecacheFails))
    /\ WF_shellVars(part = "shell" /\ Activate)

BackgroundSpec ==
    BackgroundInit /\ [][BackgroundNext]_backgroundVars /\ BackgroundFairness
=============================================================================
