------------------------ MODULE MCStagedPublication ------------------------
(* StagedPublication on small instances: two processes that were given the  *)
(* same output path.                                                        *)
EXTENDS StagedPublication, TLC

MCSymmetry == Permutations(Writers)
=============================================================================
