----------------------------- MODULE MCCopyGrid -----------------------------
(* Two requests, the temporal state of a GDN layer in one group, shared by  *)
(* two tiles, and the conv window of a short-conv layer in another.         *)
EXTENDS CopyGrid, TLC

MCGroup == (0 :> "gdn" @@ 1 :> "ple")
=============================================================================
