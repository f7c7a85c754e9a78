---------------------------- MODULE MCIncludedAi ----------------------------
(* Requests of one account over several windows.                      *)
EXTENDS IncludedAi, TLC

MCSymmetry == Permutations(Requests)
=============================================================================
