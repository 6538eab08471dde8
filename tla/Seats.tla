------------------------------- MODULE Seats -------------------------------
(***************************************************************************)
(* Who sits at the desks (SourceAssign) and where desks are aligned to     *)
(* stand (AutoAlign): two calculations that share no state.  A behaviour   *)
(* is one of either.                                                       *)
(***************************************************************************)
EXTENDS SourceAssign, AutoAlign

VARIABLE part   \* the module that moves

seatsVars == <<vars, alignVars, part>>

SeatsNext ==
    /\ UNCHANGED part
    /\ \/ part = "assign" /\ Next /\ UNCHANGED alignVars
       \/ part = "align" /\ AlignNext /\ UNCHANGED vars

\* Both calculations stay within their types.
SeatsTypeOK == TypeOK /\ AlignTypeOK
=============================================================================
