-------------------------- MODULE MCGovernedExecution --------------------------
(* GovernedExecution on small instances: incidents and slots are interchangeable. *)
EXTENDS GovernedExecution, TLC

Symmetry == Permutations(Incidents) \cup Permutations(Slots)

(* Which events are in the outbox decides only which later events it takes: runs     *)
(* whose properties do not speak of events need not tell such states apart.          *)
NoOutbox == <<approval, row, build, workflow, call>>
=============================================================================
