--------------------------- MODULE MCDapPipeline ---------------------------
(* Small instances of DapPipeline for TLC.                                 *)
EXTENDS DapPipeline, TLC

Blocks == Permutations(ReqBlocks) \cup Permutations(ResBlocks)
=============================================================================
