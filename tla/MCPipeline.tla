------------------------------ MODULE MCPipeline ------------------------------
(* One peer that reconnects, two workers, a pool of one or two jobs. *)
EXTENDS Pipeline

CONSTANT p
OnePeer == {p}
=============================================================================
