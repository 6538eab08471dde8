----------------------- MODULE MCIdentifierMigration -----------------------
(* Instances of IdentifierMigration for TLC. *)
EXTENDS IdentifierMigration

\* Of the upsets (cancelling, expiry, a crash, an error, an edit) at most two.
TwoUpsets ==
    budget.cancel + budget.expire + budget.crash + budget.fail + budget.edit
        >= MaxCancel + MaxExpire + MaxCrash + MaxFail + MaxEdit - 2
=============================================================================
