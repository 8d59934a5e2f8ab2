------------------------------ MODULE Handshake ------------------------------
(***************************************************************************)
(* Two mesh nodes connect over WebRTC (src/control/discovery.js,           *)
(* src/transport/webrtc.js, src/transport/manager.js,                      *)
(* src/crypto/session.js): offer and answer over signalling, the exchange  *)
(* of session keys in them, the data channel, and what happens when        *)
(* PeerConnections fail, nodes restart or signalling sockets drop.         *)
(*                                                                         *)
(* Signalling is abstracted to what module Signalling shows of it: one     *)
(* FIFO of messages per node, emptied when the node's socket drops; a      *)
(* registration announces the node to the other and lists the other.       *)
(* Every variable below is per node and about the one other node.  A       *)
(* session's ephemeral key is named by the PeerConnection it is made with. *)
(***************************************************************************)
EXTENDS Naturals, Sequences

CONSTANTS
  Nodes,           \* the two nodes
  Initiator,       \* the one with the smaller node id
  Budgets          \* bound: how many faults of each kind a behaviour may have

ASSUME NodesAssumption == \E responder \in Nodes : responder # Initiator /\ Nodes = {Initiator, responder}

\* A node restarts; a signalling socket drops; a PeerConnection that could work
\* fails; gathering ends without a description.
Kinds == {"crash", "drop", "failure", "gather"}
ASSUME BudgetsAssumption == Budgets \subseteq [Kinds -> Nat]

VARIABLES
  reg,             \* the nodes registered with the signalling server
  up,              \* node -> its signalling socket is registered
  net,             \* node -> messages of the server on their way to it
  inSig,           \* node -> SignallingClient.peers has the other
  work,            \* node -> _signallingWorkChain: what is still to be done
  busy,            \* node -> the chain awaits the local description
  pending,         \* node -> pendingConnections: "none", "fresh" or "stale" (20 s old)
  est,             \* node -> establishedPeers and peerTransports have the other
  sess,            \* node -> its session: own and remote ephemeral key
  pc,              \* node -> its PeerConnection with description and channel
  uid,             \* node -> PeerConnections made so far: _connectionEpoch
  zombies,         \* node -> destroyed PeerConnections that may still report an end
  emitTimer,       \* node -> _peerDisconnectEmitTimer is set
  reconnectTimer,  \* node -> _meshReconnectTimers
  leaveTimer,      \* node -> _peerLeaveTimers
  faults           \* the faults still to come, by kind

sigVars   == <<reg, up, net>>
timerVars == <<emitTimer, reconnectTimer, leaveTimer>>
pcVars    == <<pc, uid, zombies>>
vars == <<sigVars, inSig, work, busy, pending, est, sess, pcVars, timerVars, faults>>

Other(n) == CHOOSE m \in Nodes : m # n

NoPc      == [id |-> 0, remote |-> 0, dc |-> "none"]
NoSession == [mine |-> 0, theirs |-> 0]

Msg(type, id) == [type |-> type, id |-> id]
Event(type)   == Msg(type, 0)

\* The PeerConnection of n that its offer or answer came from, and the one that
\* got it, have each other's descriptions.
Matched(n) ==
  LET mine == pc[n]  theirs == pc[Other(n)] IN
  /\ mine.id # 0 /\ theirs.id # 0
  /\ mine.remote = theirs.id /\ theirs.remote = mine.id

\* The PeerConnection of n has a remote description and no longer a counterpart.
Doomed(n) ==
  LET mine == pc[n]  theirs == pc[Other(n)] IN
  /\ mine.remote # 0
  /\ mine.remote # theirs.id \/ theirs.remote \notin {0, mine.id} \/ theirs.dc = "closed"

\* When it fails by itself.  One that was connected learns at once; otherwise ICE
\* gives up, after longer than signalling takes to deliver what is under way.
Quiet == \A n \in Nodes : net[n] = << >> /\ work[n] = << >> /\ ~busy[n]
TimesOut(n) == Doomed(n) /\ (pc[n].dc # "none" \/ Quiet)

Fault(kind) == faults[kind] > 0 /\ faults' = [faults EXCEPT ![kind] = @ - 1]

-----------------------------------------------------------------------------
(* WebRTCTransport *)

\* _createPeerConnection: replaces the present one, if any; its pending
\* peer-disconnected is then cancelled.
NewPeerConnection(n, remote) ==
  /\ uid' = [uid EXCEPT ![n] = @ + 1]
  /\ pc' = [pc EXCEPT ![n] = [id |-> uid[n] + 1, remote |-> remote, dc |-> "none"]]
  /\ zombies' = [zombies EXCEPT ![n] = @ \cup ({pc[n].id} \ {0})]
  /\ emitTimer' = [emitTimer EXCEPT ![n] = @ /\ pc[n].id = 0]

\* _tearDownPeerWebRtcState.  A description that is awaited is rejected.
TearDown(n) ==
  /\ pc' = [pc EXCEPT ![n] = NoPc]
  /\ busy' = [busy EXCEPT ![n] = FALSE]

\* onStateChange: failed or closed, from PeerConnection u.  Only the one of the
\* current epoch counts.
AnyEpoch(n, u)     == TRUE                              \* mutant: a stale one counts too
EpochCurrent(n, u) == u = uid[n]
StateEnded(n, u) ==
  IF EpochCurrent(n, u)
  THEN /\ TearDown(n)
       /\ pending' = [pending EXCEPT ![n] = IF busy[n] THEN "none" ELSE @]
       /\ emitTimer' = [emitTimer EXCEPT ![n] = TRUE]
       /\ zombies' = [zombies EXCEPT ![n] = (@ \ {u}) \cup ({pc[n].id} \ {0})]
  ELSE /\ zombies' = [zombies EXCEPT ![n] = @ \ {u}]
       /\ UNCHANGED <<pc, busy, pending, emitTimer>>

\* A PeerConnection fails: because its counterpart is gone, or by a fault, which
\* may come before its own description is complete.
PcFailed(n) ==
  /\ pc[n].remote # 0
  /\ \/ TimesOut(n) /\ UNCHANGED faults
     \/ ~TimesOut(n) /\ ~busy[n] /\ Fault("failure")
     \/ ~TimesOut(n) /\ busy[n] /\ Fault("gather")
  /\ StateEnded(n, pc[n].id)
  /\ UNCHANGED <<sigVars, inSig, work, est, sess, uid, reconnectTimer, leaveTimer>>

\* A PeerConnection that has been destroyed reports its end.
ZombieEnds(n) ==
  /\ \E u \in zombies[n] : StateEnded(n, u)
  /\ UNCHANGED <<sigVars, inSig, work, est, sess, uid, reconnectTimer, leaveTimer, faults>>

\* dc.onClosed of a channel that was open.
DcClosed(n) ==
  /\ pc[n].dc = "open"
  /\ \/ Doomed(n) /\ UNCHANGED faults
     \/ ~Doomed(n) /\ Fault("failure")
  /\ pc' = [pc EXCEPT ![n].dc = "closed"]
  /\ emitTimer' = [emitTimer EXCEPT ![n] = TRUE]
  /\ UNCHANGED <<sigVars, inSig, work, busy, pending, est, sess, uid, zombies,
                 reconnectTimer, leaveTimer>>

\* dc.onOpen, then peer-connected.  A zero-delay emitTimer has run by then: the
\* channel takes round trips to open.
DcOpen(n) ==
  /\ Matched(n) /\ pc[n].dc = "none" /\ ~emitTimer[n]
  /\ pc' = [pc EXCEPT ![n].dc = "open"]
  /\ est' = [est EXCEPT ![n] = TRUE]
  /\ pending' = [pending EXCEPT ![n] = "none"]
  /\ reconnectTimer' = [reconnectTimer EXCEPT ![n] = FALSE]
  /\ leaveTimer' = [leaveTimer EXCEPT ![n] = FALSE]
  /\ UNCHANGED <<sigVars, inSig, work, busy, sess, uid, zombies, emitTimer, faults>>

\* The deferred peer-disconnected.
PendingKept(n)  == pending[n]                           \* mutant: never taken out
PendingAfter(n) == "none"
PeerDisconnected(n) ==
  /\ emitTimer[n]
  /\ emitTimer' = [emitTimer EXCEPT ![n] = FALSE]
  /\ est' = [est EXCEPT ![n] = FALSE]
  /\ sess' = [sess EXCEPT ![n] = NoSession]
  /\ pending' = [pending EXCEPT ![n] = PendingAfter(n)]
  /\ reconnectTimer' = [reconnectTimer EXCEPT ![n] = @ \/ inSig[n]]
  /\ UNCHANGED <<sigVars, inSig, work, busy, pcVars, leaveTimer, faults>>

-----------------------------------------------------------------------------
(* PeerDiscovery: events and timers *)

\* SignallingClient hands a message over.  What must be done in order is queued;
\* a peer-join stops the timers at once.
Queued(n, item) == work' = [work EXCEPT ![n] = Append(@, item)]

Receive(n) ==
  /\ net[n] # << >>
  /\ LET msg == Head(net[n]) IN
       /\ inSig' = [inSig EXCEPT ![n] = (@ \/ msg.type \in {"join", "peers"}) /\ msg.type # "leave"]
       /\ IF msg.type = "join"
          THEN /\ reconnectTimer' = [reconnectTimer EXCEPT ![n] = FALSE]
               /\ leaveTimer' = [leaveTimer EXCEPT ![n] = FALSE]
          ELSE UNCHANGED <<reconnectTimer, leaveTimer>>
       /\ Queued(n, msg)
  /\ net' = [net EXCEPT ![n] = Tail(@)]
  /\ UNCHANGED <<reg, up, busy, pending, est, sess, pcVars, emitTimer, faults>>

\* The timer of 1.1 s outlasts the zero-delay one and what a destroyed
\* PeerConnection still has to say.
ReconnectTimer(n) ==
  /\ reconnectTimer[n] /\ ~emitTimer[n] /\ zombies[n] = {}
  /\ reconnectTimer' = [reconnectTimer EXCEPT ![n] = FALSE]
  /\ Queued(n, Event("reconnect"))
  /\ UNCHANGED <<sigVars, inSig, busy, pending, est, sess, pcVars, emitTimer, leaveTimer, faults>>

\* _applyPeerLeave after the delay.
StillGone(n) == ~inSig[n] /\ ~est[n]
LeaveTimer(n) ==
  /\ leaveTimer[n]
  /\ leaveTimer' = [leaveTimer EXCEPT ![n] = FALSE]
  /\ IF StillGone(n)
     THEN /\ TearDown(n)
          /\ zombies' = [zombies EXCEPT ![n] = @ \cup ({pc[n].id} \ {0})]
          /\ pending' = [pending EXCEPT ![n] = "none"]
          /\ est' = [est EXCEPT ![n] = FALSE]
          /\ sess' = [sess EXCEPT ![n] = NoSession]
          /\ emitTimer' = [emitTimer EXCEPT ![n] = FALSE]
     ELSE UNCHANGED <<pc, busy, zombies, pending, est, sess, emitTimer>>
  /\ UNCHANGED <<sigVars, inSig, work, uid, reconnectTimer, faults>>

\* A pending handshake becomes 20 seconds old.
AgePending(n) ==
  /\ pending[n] = "fresh"
  /\ pending' = [pending EXCEPT ![n] = "stale"]
  /\ UNCHANGED <<sigVars, inSig, work, busy, est, sess, pcVars, timerVars, faults>>

-----------------------------------------------------------------------------
(* PeerDiscovery: the work chain, one item at a time *)

Working(n, type) == ~busy[n] /\ work[n] # << >> /\ Head(work[n]).type = type
Done(n)       == work' = [work EXCEPT ![n] = Tail(@)]
GoesOn(n)     == work' = [work EXCEPT ![n] = <<Event("initiate")>> \o Tail(@)]
Untouched(n)  == ~est[n] /\ pending[n] = "none"

\* _handlePeersUpdate.
WorkPeers(n) ==
  /\ Working(n, "peers")
  /\ leaveTimer' = [leaveTimer EXCEPT ![n] = FALSE]
  /\ IF Untouched(n) THEN GoesOn(n) ELSE Done(n)
  /\ UNCHANGED <<sigVars, inSig, busy, pending, est, sess, pcVars, emitTimer, reconnectTimer, faults>>

\* _supersedePendingMeshHandshake, then _initiateConnection.
WorkJoin(n) ==
  /\ Working(n, "join")
  /\ GoesOn(n)
  /\ IF ~est[n] /\ pending[n] = "stale"
     THEN /\ TearDown(n)
          /\ zombies' = [zombies EXCEPT ![n] = @ \cup ({pc[n].id} \ {0})]
          /\ pending' = [pending EXCEPT ![n] = "none"]
          /\ sess' = [sess EXCEPT ![n] = NoSession]
          /\ emitTimer' = [emitTimer EXCEPT ![n] = FALSE]
     ELSE UNCHANGED <<pc, busy, zombies, pending, sess, emitTimer>>
  /\ UNCHANGED <<sigVars, inSig, est, uid, reconnectTimer, leaveTimer, faults>>

\* _handlePeerLeave.
WorkLeave(n) ==
  /\ Working(n, "leave")
  /\ Done(n)
  /\ reconnectTimer' = [reconnectTimer EXCEPT ![n] = FALSE]
  /\ leaveTimer' = [leaveTimer EXCEPT ![n] = TRUE]
  /\ UNCHANGED <<sigVars, inSig, busy, pending, est, sess, pcVars, emitTimer, faults>>

\* _maybeReconnectMeshPeer.
WorkReconnect(n) ==
  /\ Working(n, "reconnect")
  /\ IF inSig[n] /\ Untouched(n) THEN GoesOn(n) ELSE Done(n)
  /\ UNCHANGED <<sigVars, inSig, busy, pending, est, sess, pcVars, timerVars, faults>>

\* _initiateConnection, from the TUN barrier on: only the initiator offers.
OldSession(n) ==                                        \* mutant: a session is kept
  [mine |-> IF sess[n].mine # 0 THEN sess[n].mine ELSE uid[n] + 1, theirs |-> 0]
NewSession(n) == [mine |-> uid[n] + 1, theirs |-> 0]
WorkInitiate(n) ==
  /\ Working(n, "initiate")
  /\ Done(n)
  /\ IF Untouched(n) /\ n = Initiator
     THEN /\ pending' = [pending EXCEPT ![n] = "fresh"]
          /\ sess' = [sess EXCEPT ![n] = NewSession(n)]
          /\ NewPeerConnection(n, 0)
          /\ busy' = [busy EXCEPT ![n] = TRUE]
     ELSE UNCHANGED <<pending, sess, pcVars, emitTimer, busy>>
  /\ UNCHANGED <<sigVars, inSig, est, reconnectTimer, leaveTimer, faults>>

\* _handleOffer: a new session with the key of the offer, a new PeerConnection.
WorkOffer(n) ==
  /\ Working(n, "offer")
  /\ Done(n)
  /\ pending' = [pending EXCEPT ![n] = "fresh"]
  /\ sess' = [sess EXCEPT ![n] = [NewSession(n) EXCEPT !.theirs = Head(work[n]).id]]
  /\ NewPeerConnection(n, Head(work[n]).id)
  /\ busy' = [busy EXCEPT ![n] = TRUE]
  /\ UNCHANGED <<sigVars, inSig, est, reconnectTimer, leaveTimer, faults>>

\* _handleAnswer.  Without a PeerConnection that waits for an answer it throws;
\* without a session it throws too, after the description has been set.
WorkAnswer(n) ==
  /\ Working(n, "answer")
  /\ Done(n)
  /\ LET k     == Head(work[n]).id
         waits == pc[n].id # 0 /\ pc[n].remote = 0
         keyed == waits /\ sess[n].mine # 0
     IN /\ pc' = IF waits THEN [pc EXCEPT ![n].remote = k] ELSE pc
        /\ sess' = IF keyed THEN [sess EXCEPT ![n].theirs = k] ELSE sess
        /\ pending' = IF keyed THEN pending ELSE [pending EXCEPT ![n] = "none"]
  /\ UNCHANGED <<sigVars, inSig, busy, est, uid, zombies, timerVars, faults>>

\* The local description is complete: the offer or the answer goes out.  The
\* server drops what is for a node that is not there.
GatherDone(n) ==
  /\ busy[n]
  /\ busy' = [busy EXCEPT ![n] = FALSE]
  /\ LET msg == Msg(IF n = Initiator THEN "offer" ELSE "answer", pc[n].id) IN
       net' = IF up[n] /\ up[Other(n)] THEN [net EXCEPT ![Other(n)] = Append(@, msg)] ELSE net
  /\ UNCHANGED <<reg, up, inSig, work, pending, est, sess, pcVars, timerVars, faults>>

\* Gathering ends without a description; the PeerConnection stays.
GatherFailed(n) ==
  /\ busy[n]
  /\ Fault("gather")
  /\ busy' = [busy EXCEPT ![n] = FALSE]
  /\ pending' = [pending EXCEPT ![n] = "none"]
  /\ UNCHANGED <<sigVars, inSig, work, est, sess, pcVars, timerVars>>

-----------------------------------------------------------------------------
(* Signalling *)

\* The node registers, anew or again.
Register(n) ==
  /\ ~up[n]
  /\ up' = [up EXCEPT ![n] = TRUE]
  /\ reg' = reg \cup {n}
  /\ net' = [net EXCEPT ![n] = IF Other(n) \in reg THEN <<Event("peers")>> ELSE << >>,
                        ![Other(n)] = IF up[Other(n)] THEN Append(@, Event("join")) ELSE @]
  /\ UNCHANGED <<inSig, work, busy, pending, est, sess, pcVars, timerVars, faults>>

\* The server sees the end of a socket that no newer one has replaced.
ServerClose(n) ==
  /\ n \in reg /\ ~up[n]
  /\ reg' = reg \ {n}
  /\ net' = IF up[Other(n)] THEN [net EXCEPT ![Other(n)] = Append(@, Event("leave"))] ELSE net
  /\ UNCHANGED <<up, inSig, work, busy, pending, est, sess, pcVars, timerVars, faults>>

\* The node's signalling socket drops.
SigDrop(n) ==
  /\ up[n]
  /\ Fault("drop")
  /\ up' = [up EXCEPT ![n] = FALSE]
  /\ net' = [net EXCEPT ![n] = << >>]
  /\ UNCHANGED <<reg, inSig, work, busy, pending, est, sess, pcVars, timerVars>>

\* The node stops or crashes, and starts again with nothing.  Its epochs would
\* start from 0; uid goes on so that every PeerConnection keeps a name of its own.
Crash(n) ==
  /\ Fault("crash")
  /\ up' = [up EXCEPT ![n] = FALSE]
  /\ net' = [net EXCEPT ![n] = << >>]
  /\ inSig' = [inSig EXCEPT ![n] = FALSE]
  /\ work' = [work EXCEPT ![n] = << >>]
  /\ busy' = [busy EXCEPT ![n] = FALSE]
  /\ pending' = [pending EXCEPT ![n] = "none"]
  /\ est' = [est EXCEPT ![n] = FALSE]
  /\ sess' = [sess EXCEPT ![n] = NoSession]
  /\ pc' = [pc EXCEPT ![n] = NoPc]
  /\ zombies' = [zombies EXCEPT ![n] = {}]
  /\ emitTimer' = [emitTimer EXCEPT ![n] = FALSE]
  /\ reconnectTimer' = [reconnectTimer EXCEPT ![n] = FALSE]
  /\ leaveTimer' = [leaveTimer EXCEPT ![n] = FALSE]
  /\ UNCHANGED <<reg, uid>>

-----------------------------------------------------------------------------
Init ==
  /\ reg = {}
  /\ up = [n \in Nodes |-> FALSE]
  /\ net = [n \in Nodes |-> << >>]
  /\ inSig = [n \in Nodes |-> FALSE]
  /\ work = [n \in Nodes |-> << >>]
  /\ busy = [n \in Nodes |-> FALSE]
  /\ pending = [n \in Nodes |-> "none"]
  /\ est = [n \in Nodes |-> FALSE]
  /\ sess = [n \in Nodes |-> NoSession]
  /\ pc = [n \in Nodes |-> NoPc]
  /\ uid = [n \in Nodes |-> 0]
  /\ zombies = [n \in Nodes |-> {}]
  /\ emitTimer = [n \in Nodes |-> FALSE]
  /\ reconnectTimer = [n \in Nodes |-> FALSE]
  /\ leaveTimer = [n \in Nodes |-> FALSE]
  /\ faults \in Budgets

Work(n) ==
  \/ WorkPeers(n) \/ WorkJoin(n) \/ WorkLeave(n) \/ WorkReconnect(n)
  \/ WorkInitiate(n) \/ WorkOffer(n) \/ WorkAnswer(n)

Timers(n) == PeerDisconnected(n) \/ ReconnectTimer(n) \/ LeaveTimer(n) \/ AgePending(n)

Next ==
  \E n \in Nodes :
    \/ Work(n) \/ Timers(n) \/ Receive(n)
    \/ GatherDone(n) \/ GatherFailed(n)
    \/ DcOpen(n) \/ DcClosed(n) \/ PcFailed(n) \/ ZombieEnds(n)
    \/ Register(n) \/ ServerClose(n) \/ SigDrop(n) \/ Crash(n)

Spec == Init /\ [][Next]_vars

(***************************************************************************)
(* Fairness.  Event loops go on, timers expire, gathering ends, the server *)
(* notices closed sockets, clients register again; matching                *)
(* PeerConnections open their channel and one without a counterpart fails. *)
(***************************************************************************)
Fairness ==
  \A n \in Nodes :
    /\ WF_vars(Work(n)) /\ WF_vars(Receive(n)) /\ WF_vars(GatherDone(n))
    /\ WF_vars(PeerDisconnected(n)) /\ WF_vars(ReconnectTimer(n))
    /\ WF_vars(LeaveTimer(n)) /\ WF_vars(AgePending(n))
    /\ WF_vars(DcOpen(n)) /\ WF_vars(TimesOut(n) /\ PcFailed(n)) /\ WF_vars(ZombieEnds(n))
    /\ WF_vars(Register(n)) /\ WF_vars(ServerClose(n))

FairSpec == Spec /\ Fairness

-----------------------------------------------------------------------------
(* Properties *)

Pc == [id : Nat, remote : Nat, dc : {"none", "open", "closed"}]
Messages == [type : {"peers", "join", "leave", "reconnect", "initiate", "offer", "answer"}, id : Nat]

\* Types; the PeerConnection is that of the current epoch, and a description is
\* awaited only of one that is there.
TypeOK ==
  /\ reg \subseteq Nodes
  /\ up \in [Nodes -> BOOLEAN] /\ inSig \in [Nodes -> BOOLEAN]
  /\ net \in [Nodes -> Seq(Messages)] /\ work \in [Nodes -> Seq(Messages)]
  /\ busy \in [Nodes -> BOOLEAN] /\ est \in [Nodes -> BOOLEAN]
  /\ pending \in [Nodes -> {"none", "fresh", "stale"}]
  /\ sess \in [Nodes -> [mine : Nat, theirs : Nat]]
  /\ pc \in [Nodes -> Pc] /\ uid \in [Nodes -> Nat]
  /\ zombies \in [Nodes -> SUBSET Nat]
  /\ emitTimer \in [Nodes -> BOOLEAN] /\ reconnectTimer \in [Nodes -> BOOLEAN]
  /\ leaveTimer \in [Nodes -> BOOLEAN]
  /\ faults \in [Kinds -> Nat]
  /\ \A n \in Nodes : pc[n].id \in {0, uid[n]} /\ (busy[n] => pc[n].id # 0)

Open(n) == Matched(n) /\ pc[n].dc = "open"

\* While the data channel is open at both ends, an end has either the one session that the
\* two PeerConnections were made with, its own ephemeral key and the other's, or none at
\* all, when a late peer-disconnected has removed it: never one that is half made, and
\* never a key that a handshake before or besides this one has left.
SessionsAgree ==
  (\A n \in Nodes : Open(n)) =>
    \A n \in Nodes : sess[n] \in {NoSession, [mine |-> pc[n].id, theirs |-> pc[Other(n)].id]}

\* Types and sessions: every state is well formed, and no end of an open channel has keys
\* other than those of the handshake that made the channel.
SessionInv == TypeOK /\ SessionsAgree

\* While the data channel is open at both ends, each end has the other's key: what the
\* comments on the deferred peer-disconnected promise.  It fails: see the findings.
KeyedWhenOpen == (\A n \in Nodes : Open(n)) => \A n \in Nodes : sess[n].theirs # 0

\* An open connection ends, for the transport and for discovery, only by a fault,
\* by what the other end does, or because a new PeerConnection replaces it: never
\* by what one that it has replaced still reports.
Connected(n) == Open(n) /\ est[n]
EndsForAReason(n) ==
  Connected(n) /\ ~Connected(n)' =>
    \/ faults' # faults
    \/ uid'[n] # uid[n]
    \/ pc[Other(n)].dc = "closed" \/ pc'[Other(n)] # pc[Other(n)]

\* A peer-leave that was deferred never closes a PeerConnection to a peer that has
\* come back, unless the news of its return is still under way to the node.
Returning(n) == ~up[n] \/ \E i \in DOMAIN net[n] : net[n][i].type \in {"join", "peers"}
LeaveSparesReturned(n) ==
  leaveTimer[n] /\ ~leaveTimer'[n] /\ pc[n].id # 0 /\ pc'[n] = NoPc /\ faults' = faults
    => Other(n) \notin reg \/ Returning(n)

\* Neither a late report of a PeerConnection nor a late peer-leave takes a good one down.
ConnectionKept == [][\A n \in Nodes : EndsForAReason(n) /\ LeaveSparesReturned(n)]_vars

\* When PeerConnections fail, and nothing else does, the two nodes connect again and stay
\* connected.  A crash, a lost signalling socket or a gathering that fails can leave a
\* pending handshake that nothing ends.
OnlyFailures == \A k \in Kinds \ {"failure"} : faults[k] = 0
EventuallyConnected == OnlyFailures => <>[](\A n \in Nodes : Open(n) /\ est[n])
=============================================================================
