------------------------ MODULE MCEvidenceCollection ------------------------
(* Small instances of EvidenceCollection for TLC.  Keys are interchangeable where none *)
(* is inapplicable.                                                                    *)
EXTENDS EvidenceCollection, TLC

Symmetry == Permutations(Keys) \cup Permutations(Workers) \cup Permutations(Connectors)
=============================================================================
