---------------------------- MODULE MCPleStaging ----------------------------
(* Two layers that are looked up in turn. *)
EXTENDS PleStaging, TLC

LayerSymmetry == Permutations(Layers)
=============================================================================
