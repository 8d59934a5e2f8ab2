------------------------------ MODULE TunBridge ------------------------------
(***************************************************************************)
(* The bridge of clean-vpn between a TUN device and its transport          *)
(* (attachTunBridge) at both ends of a TCP connection: the client, whose   *)
(* wire is made when traffic wants it, disarmed when idle and reused or    *)
(* replaced, and the exit, where every accepted connection replaces the    *)
(* last.  A state of an end holds the variables of the closure and what    *)
(* Node keeps of each socket; a turn of the event loop maps it to the      *)
(* next, so the functions of the code are operators on it.                 *)
(*                                                                         *)
(* A packet is the number its end has given it.  Framed it is two bytes,   *)
(* the length and the payload, so that a chunk can end inside a frame and  *)
(* bytes out of step are read as a length.                                 *)
(***************************************************************************)
EXTENDS Integers, Sequences

CONSTANTS
  KeepAlives,       \* the sets of ends started with --keep-alive considered
  Cooldown,         \* a pause follows an idle disconnection
  QueueMax,         \* KEEPALIVE_TUN_QUEUE_MAX
  MaxBatch,         \* CLEAN_VPN_FRAME_BATCH_BYTES, in packets
  MaxConns,         \* bound: connections made
  MaxPackets,       \* bound: packets read from the TUN of each end
  MaxRestarts       \* bound: processes that die and are started again

Ends  == {"client", "exit"}
Peer(e) == CHOOSE o \in Ends : o # e
Conns == 1 .. MaxConns

\* KEEPALIVE_TUN_QUEUE_MAX is positive; without batches every packet is a batch.
ASSUME BoundsAssumption ==
  /\ KeepAlives \subseteq SUBSET Ends /\ Cooldown \in BOOLEAN
  /\ QueueMax \in Nat \ {0} /\ MaxBatch \in Nat \ {0}
  /\ MaxConns \in Nat /\ MaxPackets \in [Ends -> Nat] /\ MaxRestarts \in Nat

VARIABLES
  keep,      \* ends with keepAliveSec > 0; fixed
  at,        \* state of each end
  made,      \* connections made so far
  read,      \* packets read so far from the TUN of each end
  restarts

vars == <<keep, at, made, read, restarts>>

Bytes == [pkt : 1 .. MaxPackets["client"] + MaxPackets["exit"], part : {1, 2}]
Frame(p) == <<[pkt |-> p, part |-> 1], [pkt |-> p, part |-> 2]>>
Framed(ps) == [i \in 1 .. 2 * Len(ps) |-> Frame(ps[(i + 1) \div 2])[2 - (i % 2)]]

\* A net.Socket: closing after eof (readableEnded) or fin (writableEnded); ev are the events it
\* will emit, batch the frames its writer has not flushed, out the bytes the peer has not read,
\* grace the timer of gracefulCloseTcpEndpoint.
Socket == [st : {"none", "backlog", "open", "gone"}, eof : BOOLEAN, fin : BOOLEAN,
           ev : SUBSET {"error", "close"}, batch : Seq(Nat), out : Seq(Bytes), grace : BOOLEAN]
NoSocket == [st |-> "none", eof |-> FALSE, fin |-> FALSE, ev |-> {}, batch |-> << >>,
             out |-> << >>, grace |-> FALSE]
OpenSocket == [NoSocket EXCEPT !.st = "open"]

\* A bridge without a wire.  wired and drain are the sockets that the listeners of
\* attachWireHandlers and of attachTcpIdleDrainHandlers are on, writer that of tcpFramedSend, busy
\* the one whose graceful close holds teardownBusy, active the exit's last connection.
Idle(socks, eager, tun) ==
  [ep |-> 0, armed |-> FALSE, wired |-> 0, drain |-> 0, writer |-> 0, idle |-> FALSE, busy |-> 0,
   active |-> 0, connecting |-> eager, cooling |-> FALSE, queue |-> << >>, framer |-> << >>,
   sock |-> socks, tun |-> tun]

\* Without --keep-alive the client connects at once.
Start(e, socks, tun) == Idle(socks, e = "client" /\ e \notin keep, tun)

Init ==
  /\ keep \in KeepAlives
  /\ at = [e \in Ends |-> Start(e, [c \in Conns |-> NoSocket], << >>)]
  /\ made = 0 /\ read = [e \in Ends |-> 0] /\ restarts = 0

-----------------------------------------------------------------------------
(* Closing a socket.                                                       *)

Live(s, c) == c # 0 /\ s.sock[c].st = "open"
Closing(k) == k.eof \/ k.fin
Gone(k, ev) == [k EXCEPT !.st = "gone", !.ev = ev]

\* resetTcpEndpoint
Reset(s, c) ==
  IF Live(s, c) THEN [s EXCEPT !.sock[c] = Gone(@, {"close"})] ELSE s

\* respondFinTcpEndpoint.  Sockets here are plain TCP: the branch for an endpoint marked
\* __cleanVpnGracefulFinUnsafe, which is reset instead, is left out here and below.
RespondFin(s, c) == IF Live(s, c) THEN [s EXCEPT !.sock[c].fin = TRUE] ELSE s

\* gracefulCloseTcpEndpoint
GracefulClose(s, c) ==
  IF ~Live(s, c) THEN s
  ELSE LET t == [s EXCEPT !.sock[c] = [@ EXCEPT !.grace = TRUE, !.fin = TRUE]]
       IN IF s.sock[c].fin THEN Reset(t, c) ELSE t

\* closeBridgeEndpoint at the exit, and startBridge for activeTcp
CloseEndpoint(s, c) ==
  IF Live(s, c) /\ Closing(s.sock[c]) THEN Reset(s, c) ELSE GracefulClose(s, c)

-----------------------------------------------------------------------------
(* The wire.                                                               *)

BumpActivity(s, e) == [s EXCEPT !.idle = @ \/ e \in keep]

ClearEndpointRef(s, c) == IF s.ep = c THEN [s EXCEPT !.ep = 0, !.writer = 0] ELSE s

\* teardownWire but for an idle TCP wire
TeardownWire(s, reason) ==
  IF s.busy # 0 THEN s
  ELSE IF ~s.armed /\ s.ep = 0 /\ ~s.connecting THEN [s EXCEPT !.queue = << >>]
  ELSE LET t == [s EXCEPT !.idle = FALSE, !.wired = 0, !.armed = FALSE, !.queue = << >>,
                          !.ep = 0, !.writer = 0, !.drain = 0]
       IN IF reason = "peer_close" THEN RespondFin(t, s.ep) ELSE Reset(t, s.ep)

\* handleTcpWireFailure
WireFailure(s) ==
  IF s.armed THEN TeardownWire(s, "peer_error")
  ELSE IF s.ep = 0 THEN s
  ELSE Reset(ClearEndpointRef([s EXCEPT !.drain = 0], s.ep), s.ep)

\* tcpClientIdleDisarm: the socket waits for the exit to close it
ClientIdleDisarm(s) ==
  IF ~s.armed /\ s.ep = 0 THEN s
  ELSE [s EXCEPT !.wired = 0, !.armed = FALSE, !.queue = << >>, !.cooling = Cooldown,
                 !.drain = IF Live(s, s.ep) THEN s.ep ELSE @]

ExitForgets(s) ==             \* mutant: the endpoint is dropped, not closed
  [s EXCEPT !.wired = 0, !.armed = FALSE, !.queue = << >>, !.ep = 0, !.writer = 0]

\* tcpServerIdleGracefulClose, which is busy until the socket has closed
ExitIdleClose(s) ==
  IF s.busy # 0 THEN s
  ELSE GracefulClose([s EXCEPT !.wired = 0, !.armed = FALSE, !.queue = << >>, !.ep = 0, !.writer = 0,
                               !.busy = IF Live(s, s.ep) THEN s.ep ELSE 0], s.ep)

\* rearmTcpClientWire: reuse of a socket the exit has not closed
CanRearm(s) == ~s.armed /\ ~s.connecting /\ Live(s, s.ep)
Rearm(s) == BumpActivity([s EXCEPT !.drain = 0, !.wired = s.ep, !.armed = TRUE], "client")

\* flush of createTcpFramedBatchedWriter; a write that fails is reported to the bridge
Flush(s, c) ==
  LET k == s.sock[c]
      t == [s EXCEPT !.sock[c].batch = << >>]
  IN IF k.st = "open" /\ ~k.fin
     THEN [t EXCEPT !.sock[c].out = @ \o Framed(k.batch)]
     ELSE LET u == IF k.st = "open"        \* write after end
                   THEN [t EXCEPT !.sock[c] = Gone(@, {"error", "close"})]
                   ELSE t
          IN IF u.ep = c THEN WireFailure(u) ELSE u

SendOnWire(s, e, p) ==
  IF ~s.armed \/ s.ep = 0 THEN s
  ELSE LET c == IF s.writer = 0 THEN s.ep ELSE s.writer
           t == [BumpActivity(s, e) EXCEPT !.writer = c, !.sock[c].batch = Append(@, p)]
       IN IF Len(t.sock[c].batch) >= MaxBatch THEN Flush(t, c) ELSE t

\* StreamFramer.push and writeTun: whole frames go to the TUN, up to bytes that are no length
Push(s, c, bytes) ==
  LET buf == s.framer \o bytes
      bad == {i \in DOMAIN buf : i % 2 = 1 /\ buf[i].part # 1}
      n   == IF bad = {} THEN Len(buf) \div 2 ELSE (CHOOSE i \in bad : \A j \in bad : i <= j) \div 2
      t   == [s EXCEPT !.tun = @ \o [i \in 1 .. n |-> <<buf[2 * i - 1], buf[2 * i]>>],
                       !.framer = IF bad = {} THEN SubSeq(buf, 2 * n + 1, Len(buf)) ELSE << >>]
  IN IF bad = {} THEN t ELSE Reset(t, c)

ReconnectSameFramer(s, c) ==    \* mutant: the new stream inherits a partial frame
  CloseEndpoint(BumpActivity([s EXCEPT !.wired = c, !.ep = c, !.armed = TRUE, !.writer = 0,
                                       !.idle = FALSE], "exit"), s.ep)

\* reconnectWire, and attachTunBridge for the first connection
ReconnectWire(s, c) ==
  CloseEndpoint(BumpActivity([s EXCEPT !.wired = c, !.ep = c, !.armed = TRUE, !.writer = 0,
                                       !.framer = << >>, !.idle = FALSE], "exit"), s.ep)

-----------------------------------------------------------------------------
(* Packets from the TUN, and the client's connection.                      *)

Turn(e, s) == at' = [at EXCEPT ![e] = s]

\* ensureWire after lazyConnect has resolved: sendOnWire for every packet that waited, which
\* flushes each batch that it fills
Connected(s, c) ==
  LET n    == Len(s.queue)
      sent == n - (n % MaxBatch)
  IN BumpActivity([s EXCEPT !.drain = 0, !.writer = IF n = 0 THEN 0 ELSE c, !.ep = c, !.armed = TRUE,
                            !.framer = << >>, !.wired = c, !.queue = << >>, !.connecting = FALSE,
                            !.sock[c] = [@ EXCEPT !.out = Framed(SubSeq(s.queue, 1, sent)),
                                                  !.batch = SubSeq(s.queue, sent + 1, n)]], "client")

\* A packet for a client without a wire: the old socket is used again, or the packet waits for a
\* new one, for which the oldest may have to make room.
Enqueue(s, p) ==
  LET t == IF CanRearm(s) THEN ClearEndpointRef([s EXCEPT !.drain = 0], s.ep) ELSE s
  IN [t EXCEPT !.queue = Append(IF Len(@) >= QueueMax THEN Tail(@) ELSE @, p), !.connecting = TRUE]

TunOutbound(s, e, p) ==
  IF s.armed THEN SendOnWire(s, e, p)
  ELSE IF e = "exit" \/ s.cooling THEN s
  ELSE IF CanRearm(s) /\ ~Closing(s.sock[s.ep]) THEN SendOnWire(Rearm(s), e, p)
  ELSE Enqueue(s, p)

ReadTun(e) ==
  /\ read[e] < MaxPackets[e]
  /\ read' = [read EXCEPT ![e] = @ + 1]
  /\ Turn(e, TunOutbound(at[e], e, read[e] + 1))
  /\ UNCHANGED <<keep, made, restarts>>

FlushTimer(e, c) ==
  /\ at[e].sock[c].batch # << >>
  /\ Turn(e, Flush(at[e], c))
  /\ UNCHANGED <<keep, made, read, restarts>>

\* The connection is established; the exit has yet to accept it.
Connect ==
  /\ at["client"].connecting /\ made < MaxConns
  /\ made' = made + 1
  /\ at' = [client |-> Connected([at["client"] EXCEPT !.sock[made'] = OpenSocket], made'),
            exit   |-> [at["exit"] EXCEPT !.sock[made'].st = "backlog"]]
  /\ UNCHANGED <<keep, read, restarts>>

ConnectFails ==
  /\ at["client"].connecting
  /\ Turn("client", [at["client"] EXCEPT !.connecting = FALSE, !.armed = FALSE, !.ep = 0, !.writer = 0])
  /\ UNCHANGED <<keep, made, read, restarts>>

\* startBridge
Accept(c) ==
  /\ at["exit"].sock[c].st = "backlog" /\ \A d \in 1 .. c - 1 : at["exit"].sock[d].st # "backlog"
  /\ Turn("exit", ReconnectWire([CloseEndpoint(at["exit"], at["exit"].active)
                                   EXCEPT !.active = c, !.sock[c].st = "open"], c))
  /\ UNCHANGED <<keep, made, read, restarts>>

-----------------------------------------------------------------------------
(* Events of a socket.                                                     *)

\* A socket's first event comes in a later turn than its connection, and a turn ends with the close
\* events of the sockets destroyed in it.
Settled(e, c) == at[e].sock[c].st = "open" /\ \A d \in 1 .. c - 1 : at[e].sock[d].ev = {}

\* A chunk of what the peer has sent.  Nobody may send on a socket that waits to be closed.
OnData(s, e, c, bytes) ==
  IF s.wired = c THEN Push(BumpActivity(s, e), c, bytes)
  ELSE IF s.drain = c THEN Reset(ClearEndpointRef([s EXCEPT !.drain = 0], c), c)
  ELSE s

Data(e, c) ==
  LET o == Peer(e) IN
  /\ Settled(e, c) /\ ~at[e].sock[c].eof
  /\ \E n \in 1 .. Len(at[o].sock[c].out) :
       at' = [at EXCEPT ![e] = OnData(at[e], e, c, SubSeq(at[o].sock[c].out, 1, n)),
                        ![o].sock[c].out = SubSeq(@, n + 1, Len(@))]
  /\ UNCHANGED <<keep, made, read, restarts>>

\* end: both kinds of listeners answer with FIN, and so does Node by itself
OnEnd(s, c) == IF s.wired = c /\ s.armed THEN TeardownWire(s, "peer_close") ELSE s

End(e, c) ==
  LET k == at[Peer(e)].sock[c] IN
  /\ Settled(e, c) /\ ~at[e].sock[c].eof /\ k.fin /\ k.out = << >>
  /\ Turn(e, [OnEnd([at[e] EXCEPT !.sock[c].eof = TRUE], c) EXCEPT !.sock[c].fin = TRUE])
  /\ UNCHANGED <<keep, made, read, restarts>>

Finish(e, c) ==
  /\ at[e].sock[c].st = "open" /\ at[e].sock[c].eof /\ at[e].sock[c].fin
  /\ Turn(e, [at[e] EXCEPT !.sock[c] = Gone(@, {"close"})])
  /\ UNCHANGED <<keep, made, read, restarts>>

\* The peer's socket is gone and its host says so, by FIN or by RST; of a RST a socket over HTTP/2
\* reports the close only.
Hangup(e, c) ==
  LET o == Peer(e) IN
  /\ Settled(e, c) /\ at[o].sock[c].st = "gone"
  /\ \/ /\ ~at[o].sock[c].fin
        /\ at' = [at EXCEPT ![o].sock[c].fin = TRUE]
     \/ /\ ~at[o].sock[c].fin \/ at[e].sock[c].out # << >>
        /\ \E ev \in {{"error", "close"}, {"close"}} :
             at' = [at EXCEPT ![e].sock[c] = Gone(@, ev), ![o].sock[c].out = << >>]
  /\ UNCHANGED <<keep, made, read, restarts>>

\* A process that dies takes its sockets with it; the next one starts from nothing.
Restarted(e, s) ==
  Start(e, [c \in Conns |-> IF s.sock[c].st = "none" THEN NoSocket
                            ELSE [NoSocket EXCEPT !.st = "gone", !.fin = s.sock[c].fin,
                                                  !.out = s.sock[c].out]], s.tun)

\* error: the client's sockets keep the listener of lazyConnect; at the exit an error of a socket
\* without listeners is an uncaught exception, which ends the process
OnError(s, e, c) ==
  LET t == [s EXCEPT !.sock[c].ev = @ \ {"error"}]
  IN IF s.wired = c \/ s.drain = c THEN WireFailure(t)
     ELSE IF e = "client" THEN t ELSE Restarted(e, t)

Error(e, c) ==
  /\ "error" \in at[e].sock[c].ev
  /\ Turn(e, OnError(at[e], e, c))
  /\ UNCHANGED <<keep, made, read, restarts>>

OnCloseClears(s, c) ==          \* mutant: a wire that closes without end or error stays armed
  IF s.wired = c THEN ClearEndpointRef([s EXCEPT !.drain = 0], c)
  ELSE IF s.drain = c THEN ClearEndpointRef([s EXCEPT !.drain = 0], c) ELSE s

\* close, which also ends a graceful close
OnClose(s, c) ==
  LET t == [s EXCEPT !.drain = 0] IN
  IF s.wired = c /\ s.armed THEN TeardownWire(t, "peer_close")
  ELSE IF c \in {s.wired, s.drain} THEN ClearEndpointRef(t, c) ELSE s

Close(e, c) ==
  LET t == OnClose(at[e], c) IN
  /\ at[e].sock[c].ev = {"close"}
  /\ Turn(e, [t EXCEPT !.busy = IF @ = c THEN 0 ELSE @,
                       !.sock[c] = [@ EXCEPT !.ev = {}, !.grace = FALSE]])
  /\ UNCHANGED <<keep, made, read, restarts>>

-----------------------------------------------------------------------------
(* Timers and failures.                                                    *)

\* The idle timer runs for seconds, so that no event of this turn is left.
IdleTimer(e) ==
  /\ at[e].idle /\ \A c \in Conns : at[e].sock[c].ev = {}
  /\ Turn(e, LET s == [at[e] EXCEPT !.idle = FALSE]
             IN IF e = "client" THEN ClientIdleDisarm(s) ELSE ExitIdleClose(s))
  /\ UNCHANGED <<keep, made, read, restarts>>

CooldownOver ==
  /\ at["client"].cooling
  /\ Turn("client", [at["client"] EXCEPT !.cooling = FALSE])
  /\ UNCHANGED <<keep, made, read, restarts>>

GraceTimer(c) ==
  /\ at["exit"].sock[c].grace
  /\ Turn("exit", [Reset(at["exit"], c) EXCEPT !.busy = IF @ = c THEN 0 ELSE @, !.sock[c].grace = FALSE])
  /\ UNCHANGED <<keep, made, read, restarts>>

Restart(e) ==
  /\ restarts < MaxRestarts
  /\ restarts' = restarts + 1
  /\ Turn(e, Restarted(e, at[e]))
  /\ UNCHANGED <<keep, made, read>>

\* What the code, Node and the hosts do by themselves.
Progress ==
  \/ Connect \/ ConnectFails
  \/ \E e \in Ends : IdleTimer(e)
  \/ \E e \in Ends, c \in Conns :
       \/ FlushTimer(e, c) \/ Data(e, c) \/ End(e, c) \/ Finish(e, c)
       \/ Hangup(e, c) \/ Error(e, c) \/ Close(e, c)
  \/ \E c \in Conns : Accept(c) \/ GraceTimer(c)

Next == Progress \/ CooldownOver \/ \E e \in Ends : ReadTun(e) \/ Restart(e)

Spec == Init /\ [][Next]_vars

\* Packets and faults are bounded and each leads to finitely many steps, so one condition stands
\* for the fairness of every step.
FairSpec == Spec /\ WF_vars(Progress)

-----------------------------------------------------------------------------

TypeOK ==
  /\ keep \in KeepAlives /\ made \in 0 .. MaxConns /\ restarts \in 0 .. MaxRestarts
  /\ \A e \in Ends :
       /\ read[e] \in 0 .. MaxPackets[e]
       /\ {at[e].ep, at[e].wired, at[e].drain, at[e].writer, at[e].busy, at[e].active} \subseteq 0 .. made
       /\ Len(at[e].queue) <= QueueMax
       /\ \A c \in Conns : /\ at[e].sock[c] \in Socket /\ Len(at[e].sock[c].batch) < MaxBatch
                           /\ at[e].sock[c].st = "none" <=> c > made

\* What an end writes to its TUN is what the other has read from its own: whole packets, in their
\* order, none twice, over any number of connections, whatever frame one of them broke off in.
WireIntact ==
  \A e \in Ends :
    /\ \A i \in DOMAIN at[e].tun : at[e].tun[i] = Frame(at[e].tun[i][1].pkt)
    /\ \A i \in 2 .. Len(at[e].tun) : at[e].tun[i - 1][1].pkt < at[e].tun[i][1].pkt

\* An armed bridge has a wire it listens to and that lives, or whose end it will hear of: else it
\* would drop every packet without connecting again.  Packets are only ever given to that wire.
NoStuckWire ==
  \A e \in Ends :
    LET s == at[e] IN
    /\ s.armed => /\ s.ep # 0 /\ s.wired = s.ep
                  /\ s.sock[s.ep].st = "open" \/ s.sock[s.ep].ev # {}
    /\ ~s.armed => s.wired = 0
    /\ s.writer \in {0, s.ep}

\* Types, the limits of the queues among them, and no wire that is armed and dead.
WireInv == TypeOK /\ NoStuckWire

\* A connection both ends may find idle is closed at both, whoever of them dies, answers late or
\* does not answer: no socket is dropped while it is open.
SocketsClosed ==
  <>[](keep = Ends => \A e \in Ends, c \in Conns : at[e].sock[c].st # "open")
=============================================================================
