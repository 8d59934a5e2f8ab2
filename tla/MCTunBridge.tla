----------------------------- MODULE MCTunBridge -----------------------------
(* Two connections of a client and an exit, with and without keep-alive. *)
EXTENDS TunBridge

AnyEnds    == SUBSET Ends
FewPackets == [client |-> 2, exit |-> 1]
=============================================================================
