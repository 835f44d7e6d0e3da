---------------------------- MODULE MCAlertIntake ----------------------------
(* AlertIntake on small instances. *)
EXTENDS AlertIntake
=============================================================================
