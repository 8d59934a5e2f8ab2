------------------------------ MODULE MCVpnClient ------------------------------
(* DNS: a guard rule, a route of the TUN, a rule, two gates.  Ingress: two guard  *)
(* rules, a route of the TUN, a setting that has its value; one HTTPS rule.       *)
EXTENDS VpnClient

Second == {2}
Third  == {3}
Fourth == {4}
=============================================================================
