--------------------------- MODULE MCIncidentClosure ---------------------------
(* IncidentClosure on small instances. *)
EXTENDS IncidentClosure
=============================================================================
