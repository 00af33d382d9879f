----------------------------- MODULE MCPleTable -----------------------------
(* Instances of PleTable for TLC: gathers of one id inline, longer ones in  *)
(* the pool, or all of them inline.                                         *)
EXTENDS PleTable

SomeFastRows == {1, MaxIds}
=============================================================================
