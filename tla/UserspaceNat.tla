----------------------------- MODULE UserspaceNat -----------------------------
(***************************************************************************)
(* UserSpaceNAT's TCP: the connections of one client's port through the    *)
(* exit, one after the other, each from its SYN to the entry's removal;    *)
(* a SYN may meet the entry of the connection before it, and segments of   *)
(* that one may still be in the mesh.                                      *)
(* What the server sends is read from a net.Socket, cut into segments and  *)
(* sent through the mesh, held back by the client's window and by the      *)
(* count of unacknowledged segments; the socket is paused meanwhile.       *)
(* The mesh keeps segments in order.  The client's kernel, the server and  *)
(* the events of the socket are external; the client's own data, which is  *)
(* only written to the socket, and pure ACKs to the client are left out.   *)
(* The exit's sequence numbers are counted modulo W for 2^32; the client's *)
(* are abstracted to which of its connections they belong to (isn).        *)
(***************************************************************************)
EXTENDS Integers, SequencesExt

CONSTANTS
  MSS,             \* segment size
  Slack,           \* segments allowed above the client's window (6 in the code)
  ResumeMin,       \* least resume threshold (4 in the code)
  TcpMaxPending,   \* tcpMaxPending
  MaxConnections,  \* maxConnections, compared with connectingCount
  Windows,         \* windows the client advertises, 0 and the initial one among them
  FullWindow,      \* 65535
  Reads,           \* lengths of what one read of the socket yields
  W,               \* modulus of sequence numbers
  FirstSeqs,       \* initial sequence numbers of the exit
  MaxSyns,         \* bound: SYNs of the client
  MaxRead          \* bound: bytes the server sends in a behaviour

ASSUME NatAssumption ==
  /\ MSS \in Nat \ {0} /\ Slack \in Nat \ {0} /\ ResumeMin \in Nat \ {0}
  /\ TcpMaxPending \in Nat \ {0} /\ Windows \subseteq Nat /\ FullWindow \in Windows
  /\ MaxConnections \in Nat /\ Reads \subseteq Nat /\ MaxSyns \in Nat /\ MaxRead \in Nat
ASSUME SeqAssumption ==
  /\ W \in Nat /\ W > 2 * TcpMaxPending * MSS + 1   \* an ACK of all that is unacknowledged is new
  /\ FirstSeqs \subseteq 0 .. W - 1

VARIABLES
  conn,         \* the entry of tcpConnections, CLOSED without one (short is a history
                \* field: a segment below MSS has been sent)
  connecting,   \* connectingCount
  sock,         \* its socket: none, connecting, open, ended, closed
  toClient, toNat,   \* segments in the mesh
  client,       \* the client's kernel: state, next sequence number, last ACK, window
  syns,         \* SYNs sent
  read,         \* bytes read from the socket of this connection
  total,        \* bytes read in the behaviour
  got,          \* history: bytes of this connection the client has received
  broken,       \* history: the client received a segment of the entry out of sequence
  joined,       \* history: the client's connection is the one of the entry
  expired       \* history: the entry of the client's connection was removed after FIN by
                \* timer, sweep or the client

vars == <<conn, connecting, sock, toClient, toNat, client, syns, read, total, got, broken,
          joined, expired>>
clientVars == <<client, syns, got, broken>>

States == {"CONNECTING", "ESTABLISHED", "FIN_WAIT", "CLOSED"}
NoConn == [state |-> "CLOSED", isn |-> 0, seq |-> 0, win |-> FullWindow, ack |-> -1, pend |-> 0,
           paused |-> FALSE, backlog |-> 0, eof |-> FALSE, finSent |-> FALSE,
           linger |-> FALSE, short |-> FALSE]
NoClient == [state |-> "idle", isn |-> 0, nxt |-> 0, acked |-> 0, win |-> FullWindow, fin |-> FALSE,
             finSent |-> FALSE]

TypeOK ==
  /\ conn \in [state : States, isn : 0 .. MaxSyns, seq : 0 .. W - 1, win : Windows, ack : -1 .. W - 1,
               pend : 0 .. TcpMaxPending, paused : BOOLEAN, backlog : 0 .. MaxRead,
               eof : BOOLEAN, finSent : BOOLEAN, linger : BOOLEAN,
               short : BOOLEAN]
  /\ connecting \in 0 .. MaxConnections
  /\ sock \in {"none", "connecting", "open", "ended", "closed"}
  /\ toClient \in Seq([type : {"synack", "data", "fin", "rst"}, isn : 0 .. MaxSyns,
                       seq : 0 .. W - 1, len : 0 .. MSS])
  /\ toNat \in Seq([type : {"syn", "ack", "fin", "rst"}, isn : 0 .. MaxSyns, ack : 0 .. W - 1,
                    win : Windows])
  /\ client \in [state : {"idle", "syn", "open"}, isn : 0 .. MaxSyns, nxt : 0 .. W - 1,
                 acked : 0 .. W - 1, win : Windows, fin : BOOLEAN, finSent : BOOLEAN]
  /\ syns \in 0 .. MaxSyns /\ read \in 0 .. MaxRead /\ total \in 0 .. MaxRead
  /\ got \in 0 .. MaxRead /\ {broken, joined, expired} \subseteq BOOLEAN

-----------------------------------------------------------------------------
Min2(a, b) == IF a <= b THEN a ELSE b
Max2(a, b) == IF a >= b THEN a ELSE b
CeilDiv(a, b) == (a + b - 1) \div b

\* _maxPendingForConn and _resumePendingTarget; win is the scaled window
MaxPendingFor(win) ==
  IF win = 0 THEN 0 ELSE Min2(TcpMaxPending, Max2(Slack, win \div MSS + Slack))
ResumeTarget(win) ==
  IF MaxPendingFor(win) = 0 THEN 0 ELSE Max2(ResumeMin, (MaxPendingFor(win) * 35) \div 100)

Live(c) == c.state \in {"ESTABLISHED", "FIN_WAIT"}

\* A segment to the client: the number it acknowledges is of connection isn.
Segment(isn, type, seq, len) == [type |-> type, isn |-> isn, seq |-> seq % W, len |-> len]

FinDue(c) ==
  c.eof /\ ~c.finSent /\ c.state = "ESTABLISHED" /\ c.backlog = 0 /\ c.pend = 0

\* _maybeSendServerFin: the connection and the segments to send
FinIfDue(c, segments) ==
  IF FinDue(c)
    THEN [conn |-> [c EXCEPT !.finSent = TRUE, !.state = "FIN_WAIT", !.seq = (@ + 1) % W],
          out  |-> Append(segments, Segment(c.isn, "fin", c.seq, 0))]
    ELSE [conn |-> c, out |-> segments]

\* Broken: advances by whole segments, the last one may be shorter.
SentWhole(c, n) == n * MSS
Sent(c, n) == Min2(n * MSS, c.backlog)

\* _flushServerReadBacklog
Flushed(c) ==
  LET n     == Min2(Max2(0, MaxPendingFor(c.win) - c.pend), CeilDiv(c.backlog, MSS))
      bytes == Sent(c, n)
      data  == [i \in 1 .. n |-> Segment(c.isn, "data", c.seq + (i - 1) * MSS,
                                         Min2(MSS, c.backlog - (i - 1) * MSS))]
  IN  FinIfDue([c EXCEPT !.seq = (@ + bytes) % W, !.backlog = Max2(0, @ - bytes), !.pend = @ + n,
                          !.short = @ \/ bytes < n * MSS], data)

\* _syncServerSocketPause
Synced(c) ==
  LET maxP  == MaxPendingFor(c.win)
      over  == maxP > 0 /\ c.pend >= maxP
      stuck == c.backlog > 0 /\ (over \/ c.win = 0)
  IN  IF (c.win = 0 \/ over \/ stuck) /\ ~c.paused
        THEN [c EXCEPT !.paused = TRUE]
      ELSE IF c.paused /\ c.win > 0 /\ c.pend < ResumeTarget(c.win) /\ c.pend < maxP /\ ~stuck
        THEN [c EXCEPT !.paused = FALSE]
        ELSE c

\* Broken: rounds the acknowledged bytes up twice.
ReleasedTooMany(c, delta) == Min2(c.pend, CeilDiv(delta, MSS) + 1)
Released(c, delta) == Min2(c.pend, Max2(1, CeilDiv(delta, MSS)))

\* Broken: a window that comes without new bytes is not taken.
AcknowledgedOnly(c, s) ==
  LET delta == (s.ack - c.ack) % W
  IN  IF c.ack = -1 THEN [c EXCEPT !.win = s.win, !.ack = s.ack]
      ELSE IF delta > 0 /\ delta < W \div 2
        THEN [c EXCEPT !.win = s.win, !.ack = s.ack, !.pend = @ - Released(c, delta)]
        ELSE c

\* _updatePeerWindowAndAck up to the flush
Acknowledged(c, s) ==
  LET d     == [c EXCEPT !.win = s.win]
      delta == (s.ack - c.ack) % W
  IN  IF c.ack = -1 THEN [d EXCEPT !.ack = s.ack]
      ELSE IF delta > 0 /\ delta < W \div 2
        THEN [d EXCEPT !.ack = s.ack, !.pend = @ - Released(c, delta)]
        ELSE d

-----------------------------------------------------------------------------
Init ==
  /\ conn = NoConn /\ connecting = 0 /\ sock = "none"
  /\ toClient = << >> /\ toNat = << >>
  /\ client = NoClient /\ syns = 0
  /\ read = 0 /\ total = 0 /\ got = 0 /\ broken = FALSE /\ joined = FALSE /\ expired = FALSE

Send(segments) == toClient' = toClient \o segments

\* Flush, synchronise and send.
Push(c) ==
  LET f == Flushed(c) IN conn' = Synced(f.conn) /\ Send(f.out)

\* _closeTCPConnection
CloseConnection == conn' = NoConn /\ sock' = "none"
Expires == expired' = (expired \/ (conn.finSent /\ conn.isn = client.isn))

\* Broken: does not keep the entry after FIN.
LingerOrCloseAtOnce == CloseConnection

\* After FIN the entry stays for tcpLingerMs, for what the client still sends.
LingerOrClose ==
  IF conn.finSent
    THEN conn' = [conn EXCEPT !.linger = TRUE] /\ sock' = "closed"
    ELSE CloseConnection

-----------------------------------------------------------------------------
(* _handleTCP: one segment of the client.                                  *)

Take(type) == toNat # << >> /\ Head(toNat).type = type /\ toNat' = Tail(toNat)

HandleRst ==
  /\ Take("rst")
  /\ IF conn.state = "CLOSED" THEN UNCHANGED <<conn, sock>> ELSE CloseConnection
  /\ Expires
  /\ UNCHANGED <<connecting, toClient, clientVars, read, total, joined>>

\* A SYN for a known connection, or above the limit, is dropped.
DropSyn ==
  /\ Take("syn")
  /\ conn.state # "CLOSED" \/ connecting >= MaxConnections
  /\ UNCHANGED <<conn, connecting, sock, toClient, clientVars, read, total, joined, expired>>

HandleSyn ==
  /\ Take("syn")
  /\ conn.state = "CLOSED" /\ connecting < MaxConnections
  /\ \E s \in FirstSeqs :
       conn' = [NoConn EXCEPT !.state = "CONNECTING", !.isn = Head(toNat).isn, !.seq = s,
                              !.win = Head(toNat).win]
  /\ connecting' = connecting + 1
  /\ sock' = "connecting"
  /\ read' = 0 /\ joined' = FALSE
  /\ UNCHANGED <<toClient, clientVars, total, expired>>

\* A segment of no connection is answered with RST.
Unknown ==
  /\ Take("ack") \/ Take("fin")
  /\ conn.state = "CLOSED"
  /\ Send(<<Segment(Head(toNat).isn, "rst", 0, 0)>>)
  /\ UNCHANGED <<conn, connecting, sock, clientVars, read, total, joined, expired>>

\* An ACK; a FIN is one too, and ends the writing side of the socket.
HandleAck ==
  /\ Take("ack") \/ Take("fin")
  /\ conn.state # "CLOSED"
  /\ IF Live(conn) THEN Push(Acknowledged(conn, Head(toNat)))
                   ELSE UNCHANGED <<conn, toClient>>
  /\ UNCHANGED <<connecting, sock, clientVars, read, total, joined, expired>>

-----------------------------------------------------------------------------
(* Events of the socket.                                                   *)

Connected ==
  /\ sock = "connecting"
  /\ sock' = "open" /\ connecting' = connecting - 1
  /\ conn' = [conn EXCEPT !.state = "ESTABLISHED", !.win = FullWindow, !.seq = (@ + 1) % W]
  /\ Send(<<Segment(conn.isn, "synack", conn.seq, 0)>>)
  /\ UNCHANGED <<toNat, clientVars, read, total, joined, expired>>

\* 'data': only a socket that is not paused is read.
Data(n) ==
  /\ sock = "open" /\ ~conn.paused /\ total + n <= MaxRead
  /\ read' = read + n /\ total' = total + n
  /\ Push([conn EXCEPT !.backlog = @ + n])
  /\ UNCHANGED <<connecting, sock, toNat, clientVars, joined, expired>>

\* 'end': the server has sent its FIN and everything has been read; a paused socket
\* with nothing left to read tells it too.
End ==
  /\ sock = "open"
  /\ sock' = "ended"
  /\ Push([conn EXCEPT !.eof = TRUE])
  /\ UNCHANGED <<connecting, toNat, clientVars, read, total, joined, expired>>

\* 'close' follows 'end' by itself, the socket allows no half-open connection: unless FIN
\* could be sent before, the entry goes with what it holds back, and nobody is told.
Close ==
  /\ sock = "ended"
  /\ LingerOrClose
  /\ UNCHANGED <<connecting, toClient, toNat, clientVars, read, total, joined, expired>>

\* connectingCount once the attempt has ended without a connection
ConnectingLeft == connecting - (IF conn.state = "CONNECTING" THEN 1 ELSE 0)

\* 'error': the client is told, unless it has been sent FIN.
Error ==
  /\ sock \in {"connecting", "open", "ended"}
  /\ connecting' = ConnectingLeft
  /\ Send(IF conn.finSent THEN << >> ELSE <<Segment(conn.isn, "rst", conn.seq, 0)>>)
  /\ LingerOrClose
  /\ UNCHANGED <<toNat, clientVars, read, total, joined, expired>>

\* 'timeout': the same, but nobody is told.
Timeout ==
  /\ sock \in {"connecting", "open", "ended"}
  /\ connecting' = ConnectingLeft
  /\ LingerOrClose
  /\ UNCHANGED <<toClient, toNat, clientVars, read, total, joined, expired>>

-----------------------------------------------------------------------------
(* Timers.                                                                 *)

LingerFires ==
  /\ conn.linger
  /\ CloseConnection /\ Expires
  /\ UNCHANGED <<connecting, toClient, toNat, clientVars, read, total, joined>>

\* _cleanup: nothing has come from either side for connectionTimeout.
Quiet == toNat = << >> /\ toClient = << >>
Sweep ==
  /\ conn.state # "CLOSED" /\ Quiet
  /\ CloseConnection /\ Expires
  /\ UNCHANGED <<connecting, toClient, toNat, clientVars, read, total, joined>>

-----------------------------------------------------------------------------
(* The client's kernel (external).                                         *)

Reply(type, c) ==
  toNat' = Append(toNat, [type |-> type, isn |-> c.isn, ack |-> c.nxt, win |-> c.win])

\* A new connection from the port, whatever is left of the last one, or the SYN again.
ClientSyn ==
  /\ client.state \in {"idle", "syn"} /\ syns < MaxSyns
  /\ syns' = syns + 1
  /\ client' = [NoClient EXCEPT !.state = "syn",
                               !.isn = IF client.state = "idle" THEN syns' ELSE client.isn]
  /\ Reply("syn", client')
  /\ got' = 0 /\ expired' = (expired /\ client.state = "syn")
  /\ UNCHANGED <<conn, connecting, sock, toClient, read, total, broken, joined>>

\* What the client can take: a segment of its connection, when it waits for one like it.
Accepts(s) ==
  s.isn = client.isn /\ client.state = (IF s.type = "synack" THEN "syn" ELSE "open")

\* A SYN-ACK is acknowledged at once.
ClientEstablished ==
  /\ toClient # << >> /\ Head(toClient).type = "synack" /\ Accepts(Head(toClient))
  /\ LET nxt == (Head(toClient).seq + 1) % W IN
       client' = [client EXCEPT !.state = "open", !.nxt = nxt, !.acked = nxt]
  /\ Reply("ack", client')
  /\ toClient' = Tail(toClient)
  /\ joined' = (Live(conn) /\ \A i \in DOMAIN toClient' : toClient'[i].type # "synack")
  /\ UNCHANGED <<conn, connecting, sock, syns, read, total, got, broken, expired>>

ClientReceives ==
  /\ toClient # << >> /\ Head(toClient).type \in {"data", "fin"} /\ Accepts(Head(toClient))
  /\ LET s == Head(toClient) IN
       /\ broken' = (broken \/ (joined /\ s.seq # client.nxt))
       /\ client' = [client EXCEPT !.nxt = (@ + (IF s.type = "fin" THEN 1 ELSE s.len)) % W,
                                   !.fin = @ \/ s.type = "fin"]
       /\ got' = got + s.len
  /\ toClient' = Tail(toClient)
  /\ UNCHANGED <<conn, connecting, sock, toNat, syns, read, total, joined, expired>>

\* No connection, and its number still known.
Left == [NoClient EXCEPT !.isn = client.isn]

\* A RST that answers another connection is ignored.
ClientReset ==
  /\ toClient # << >> /\ Head(toClient).type = "rst"
  /\ client' = IF Head(toClient).isn = client.isn THEN Left ELSE client
  /\ toClient' = Tail(toClient)
  /\ UNCHANGED <<conn, connecting, sock, toNat, syns, read, total, got, broken, joined, expired>>

\* Any other segment is refused: with RST, or with an ACK by a client that is connected.
ClientRefuses ==
  /\ toClient # << >> /\ Head(toClient).type # "rst" /\ ~Accepts(Head(toClient))
  /\ Reply(IF client.state = "open" THEN "ack" ELSE "rst", client)
  /\ toClient' = Tail(toClient)
  /\ UNCHANGED <<conn, connecting, sock, client, syns, read, total, got, broken, joined, expired>>

\* A cumulative, perhaps delayed, ACK or a window update; the application reads when the
\* window is shut.
ClientAck(win) ==
  /\ client.state = "open" /\ toNat = << >>
  /\ client.acked # client.nxt \/ (client.win = 0 /\ win > 0)
  /\ client' = [client EXCEPT !.acked = client.nxt, !.win = win]
  /\ Reply("ack", client')
  /\ UNCHANGED <<conn, connecting, sock, toClient, syns, read, total, got, broken, joined, expired>>

ClientFin ==
  /\ client.state = "open" /\ ~client.finSent /\ toNat = << >>
  /\ client' = [client EXCEPT !.finSent = TRUE, !.acked = client.nxt]
  /\ Reply("fin", client')
  /\ UNCHANGED <<conn, connecting, sock, toClient, syns, read, total, got, broken, joined, expired>>

ClientRst ==
  /\ client.state # "idle" /\ toNat = << >>
  /\ client' = Left
  /\ Reply("rst", client)
  /\ UNCHANGED <<conn, connecting, sock, toClient, syns, read, total, got, broken, joined, expired>>

\* The client has closed: its FIN has been heard, and it has the server's FIN or does not
\* wait for it any longer.
ClientDone ==
  /\ client.state = "open" /\ client.finSent /\ toNat = << >>
  /\ client' = Left
  /\ UNCHANGED <<conn, connecting, sock, toClient, toNat, syns, read, total, got, broken, joined,
                 expired>>

-----------------------------------------------------------------------------
Handled == HandleRst \/ DropSyn \/ HandleSyn \/ Unknown \/ HandleAck
Arrives == ClientEstablished \/ ClientReceives \/ ClientReset \/ ClientRefuses
Acks    == \E win \in Windows : ClientAck(win)

Next ==
  \/ Handled \/ Arrives \/ Acks
  \/ ClientSyn \/ ClientFin \/ ClientRst \/ ClientDone
  \/ Connected \/ (\E n \in Reads : Data(n)) \/ End \/ Close \/ Error \/ Timeout
  \/ LingerFires \/ Sweep

Spec == Init /\ [][Next]_vars

-----------------------------------------------------------------------------
\* Bytes of data in a sequence of segments.
Bytes(segments) ==
  LET sum[n \in 0 .. Len(segments)] == IF n = 0 THEN 0 ELSE sum[n - 1] + segments[n].len
  IN  sum[Len(segments)]

\* The client's stream is the server's.  Segments arrive in sequence.  While the entry is
\* there, what was read from the socket is with the client, in the mesh or waiting: the
\* segmentation, the holding back and the wrap of the sequence numbers lose and double
\* nothing.  An entry that is removed takes what waits with it, but a client that gets FIN
\* has everything: a stream that was cut short never looks complete.
StreamIntact ==
  /\ ~broken
  /\ client.state = "open" /\ joined =>
       /\ Live(conn) => read = got + Bytes(toClient) + conn.backlog
       /\ client.fin => read = got

\* No more segments are unacknowledged than pendingResponses counts, whatever the client
\* acknowledges at once, so that the limits hold and FIN waits for the last byte.
CountCovers ==
  joined /\ conn.state = "ESTABLISHED" /\ conn.ack # -1
    => (conn.seq - conn.ack) % W <= conn.pend * MSS

\* Types, the limits of the counters among them, and what pendingResponses counts.
CountInv == TypeOK /\ CountCovers

\* A client that has been sent FIN is not reset while it closes its side ("otherwise the
\* client's ACK or FIN finds no conn and is answered with RST"), unless the entry expired.
NoRstAfterFin ==
  client.state = "open" /\ client.fin
    => expired \/ \A i \in DOMAIN toClient :
                     toClient[i].type # "rst" \/ toClient[i].isn # client.isn

\* No stall: once a client with room has acknowledged everything it was sent and the exit
\* has heard so, the socket is read again, nothing waits and a FIN that is due has been
\* sent, because no later event would do it.  It holds while segments have full size: the
\* count does not follow cumulative ACKs of several shorter ones.
Settled ==
  /\ joined /\ Live(conn) /\ ~conn.short
  /\ client.state = "open" /\ client.acked = client.nxt /\ client.win > 0 /\ Quiet
NoStall == Settled => ~conn.paused /\ conn.backlog = 0 /\ (conn.eof => conn.finSent)
=============================================================================
