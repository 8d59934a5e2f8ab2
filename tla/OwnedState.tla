------------------------------ MODULE OwnedState ------------------------------
(***************************************************************************)
(* What a recovery journal promises about the rules, routes and settings   *)
(* it installs: an item is claimed durably before it is installed and is   *)
(* given up only once it is gone, so whatever a dead process left behind   *)
(* is in the journal.  Processes, commands, crashes and the order of the   *)
(* plan are left out; TunnelDns and Ingress are shown to implement this.   *)
(***************************************************************************)
CONSTANT Item

VARIABLES
  claimed,   \* the items the journal on disk accounts for
  present    \* the items the host has

vars == <<claimed, present>>

Init == claimed = {} /\ present = {}

Claim ==
  /\ \E x \in Item \ claimed : claimed' = claimed \cup {x}
  /\ UNCHANGED present

Install ==
  /\ \E x \in claimed : present' = present \cup {x}
  /\ UNCHANGED claimed

\* Removed by the owner, or by the host when a link goes.
Remove ==
  /\ present' \in SUBSET present
  /\ UNCHANGED claimed

Disclaim ==
  /\ \E x \in claimed \ present : claimed' = claimed \ {x}
  /\ UNCHANGED present

Next == Claim \/ Install \/ Remove \/ Disclaim

Spec == Init /\ [][Next]_vars
=============================================================================
