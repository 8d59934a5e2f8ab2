----------------------------- MODULE MCHandshake -----------------------------
(* Instances of Handshake for TLC. *)
EXTENDS Handshake

CONSTANTS n1, n2
MCNodes == {n1, n2}

Budget(crash, drop, failure, gather) ==
  [k \in Kinds |-> CASE k = "crash" -> crash [] k = "drop" -> drop
                     [] k = "failure" -> failure [] k = "gather" -> gather]

\* A crash, a dropped signalling socket, a failed PeerConnection together with a failed
\* gathering, or two failed PeerConnections.
EachFault == {Budget(1, 0, 0, 0), Budget(0, 1, 0, 0), Budget(0, 0, 1, 1), Budget(0, 0, 2, 0)}

\* One failed PeerConnection.
OneFailure == {Budget(0, 0, 1, 0)}
=============================================================================
