--------------------------- MODULE MCEventDelivery ---------------------------
(* EventDelivery on small instances. *)
EXTENDS EventDelivery, TLC
=============================================================================
