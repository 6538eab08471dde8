---------------------------- MODULE MCAdminTabs ----------------------------
(* Instances of AdminTabs for TLC. *)
EXTENDS AdminTabs

AllKinds == {"sync", "robin", "geo"}
=============================================================================
