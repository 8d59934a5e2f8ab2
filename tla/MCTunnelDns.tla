------------------------------ MODULE MCTunnelDns ------------------------------
(* Two guard rules, a route the TUN carries and one it does not, three gates. *)
EXTENDS TunnelDns

SecondRoute == {4}
=============================================================================
