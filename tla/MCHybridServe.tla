--------------------------- MODULE MCHybridServe ---------------------------
(* q and k lie in two shards; of in_proj, one layer was skipped for its    *)
(* shape; the drafter's layer lies in a shard that is not rewritten.       *)
EXTENDS HybridServe

MCFileOf      == [q |-> "f1", k |-> "f2", z |-> "f2", skipped |-> "f2", d |-> "f3"]
MCSublayersOf == [qkv_proj |-> {"q", "k"}, in_proj |-> {"z", "skipped"}, drafter |-> {"d"}]
=============================================================================
