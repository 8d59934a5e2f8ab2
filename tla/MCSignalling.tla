---------------------------- MODULE MCSignalling ----------------------------
(* Instances of Signalling for TLC: two nodes. *)
EXTENDS Signalling, TLC

CONSTANTS n1, n2

TwoNodes == {n1, n2}

\* Both are pinned to one address, the second that the counter will hand out.
PinInRange == n1 :> 3 @@ n2 :> 3

\* Sockets of n1 and of n2, whether the last ones stay, signals of n1, link events.
Budget(k1, k2, stay, signals, up) ==
  [sockets |-> n1 :> k1 @@ n2 :> k2, lasts |-> stay,
   signals |-> n1 :> signals @@ n2 :> 0, links |-> up]

\* One node reconnects, and both may be gone in the end; both reconnect; one reconnects and sends
\* two signals; none reconnects and links change three times.
Mixed == {Budget(2, 1, FALSE, 0, 0), Budget(2, 2, TRUE, 0, 0), Budget(2, 1, TRUE, 2, 0),
          Budget(1, 1, FALSE, 0, 3)}
=============================================================================
