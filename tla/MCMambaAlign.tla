---------------------------- MODULE MCMambaAlign ----------------------------
(* Two interchangeable requests. *)
EXTENDS MambaAlign, TLC

RequestSymmetry == Permutations(Requests)
=============================================================================
