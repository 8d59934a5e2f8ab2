--------------------------- MODULE TunBridgeProofs ---------------------------
(***************************************************************************)
(* For any number of connections, packets and restarts and any size of the *)
(* queue and of a batch: no wire is armed and dead, and what one end of    *)
(* the bridge writes to its TUN are whole packets of the other, in order.  *)
(***************************************************************************)
EXTENDS TunBridge, TLAPS

\* The numbers of packets, and what one end keeps.
Numbers == 1 .. MaxPackets["client"] + MaxPackets["exit"]
EndRec ==
  [ep : Nat, armed : BOOLEAN, wired : Nat, drain : Nat, writer : Nat, idle : BOOLEAN, busy : Nat,
   active : Nat, connecting : BOOLEAN, cooling : BOOLEAN, queue : Seq(Nat), framer : Seq(Bytes),
   sock : [Conns -> Socket], tun : Seq(Bytes \X Bytes)]

Unused == {"none", "backlog"}

\* The life of a socket: m is the number of connections made.
SockOK(k, c, m) ==
  /\ k.st = "none" <=> c > m
  /\ k.ev # {} => k.st = "gone" /\ "close" \in k.ev
  /\ k.st \in Unused => ~k.eof /\ ~k.fin /\ ~k.grace /\ k.batch = << >> /\ k.out = << >>
  /\ \A i \in 1 .. Len(k.batch) : k.batch[i] \in Numbers

\* A wire that is armed is the endpoint, and it lives or its end will be heard of.
WireOK(s) ==
  /\ s.armed => /\ s.ep # 0 /\ s.wired = s.ep
                /\ s.sock[s.ep].st = "open" \/ s.sock[s.ep].ev # {}
  /\ ~s.armed => s.wired = 0
  /\ s.writer \in {0, s.ep}

\* The client's endpoint is its last connection; while it connects or has packets waiting it has
\* no live one, and a live one that is not armed is drained.
ClientOK(s, m) ==
  /\ s.busy = 0 /\ s.ep \in {0, m}
  /\ \A c \in Conns : s.sock[c].st # "backlog"
  /\ s.connecting \/ s.queue # << >> => ~s.armed /\ ~Live(s, s.ep)
  /\ ~s.armed /\ Live(s, s.ep) => s.drain = s.ep

\* A graceful close that is still busy when there is a new endpoint is about to be heard of, before
\* any event of the new one.
BusyOK(s) ==
  s.busy # 0 =>
    /\ s.busy <= s.active
    /\ \/ s.sock[s.busy].ev # {}
       \/ s.sock[s.busy].st = "open" /\ s.sock[s.busy].fin /\ s.ep = 0 /\ s.busy = s.active
    /\ s.ep # 0 => /\ s.busy < s.ep
                   /\ s.sock[s.ep].st = "open" /\ s.sock[s.ep].ev = {}
                   /\ ~s.sock[s.ep].fin /\ ~s.sock[s.ep].eof /\ ~s.sock[s.ep].grace

\* The exit's endpoint is the connection it accepted last.
ExitOK(s) ==
  /\ ~s.connecting /\ s.queue = << >> /\ s.drain = 0
  /\ s.armed <=> s.ep # 0
  /\ s.ep \in {0, s.active}
  /\ \A c \in Conns : s.sock[c].st = "backlog" => c > s.active
  /\ \A c, d \in Conns : c < d /\ s.sock[c].st = "backlog" => s.sock[d].st \in Unused
  /\ \A d \in Conns : s.active # 0 /\ d > s.active => s.sock[d].st \in Unused
  /\ BusyOK(s)

EndOK(e, s, m) ==
  /\ s \in EndRec
  /\ s.ep <= m /\ s.wired <= m /\ s.drain <= m /\ s.writer <= m /\ s.busy <= m /\ s.active <= m
  /\ Len(s.queue) <= QueueMax /\ \A i \in 1 .. Len(s.queue) : s.queue[i] \in Numbers
  /\ \A c \in Conns : SockOK(s.sock[c], c, m)
  /\ WireOK(s)
  /\ e = "client" => ClientOK(s, m)
  /\ e = "exit" => ExitOK(s)

\* Batches are flushed when they are full.
Short(s) == \A c \in Conns : Len(s.sock[c].batch) < MaxBatch

-----------------------------------------------------------------------------
\* The connections that an end will still read from, and what it will read: the rest of a frame
\* that it has begun and what f, its peer, has sent.
Hears(s, c)     == s.sock[c].st = "backlog" \/ (s.ep = c /\ s.sock[c].st = "open")
Begun(s, c)     == IF s.ep = c THEN s.framer ELSE << >>
Stream(s, f, c) == Begun(s, c) \o f.sock[c].out

\* Whole frames, of packets in their order.
Aligned(b) ==
  /\ Len(b) % 2 = 0
  /\ \A i \in 1 .. Len(b) : /\ b[i].part = 2 - (i % 2)
                            /\ i % 2 = 1 => b[i + 1].pkt = b[i].pkt
  /\ \A i, j \in 1 .. Len(b) : i < j => b[i].pkt < b[j].pkt \/ (i % 2 = 1 /\ j = i + 1)

Increasing(q) == \A i, j \in 1 .. Len(q) : i < j => q[i] < q[j]

\* The packets a socket has yet to pass on.
Pkts(k) == {k.out[i].pkt : i \in 1 .. Len(k.out)} \cup {k.batch[i] : i \in 1 .. Len(k.batch)}

\* The n packets that an end has read from its TUN go to its peer in order: over each connection,
\* from one connection to the next, and from the queue last.
SockInOrder(k) ==
  /\ \A i \in 1 .. Len(k.out), j \in 1 .. Len(k.batch) : k.out[i].pkt < k.batch[j]
  /\ Increasing(k.batch)
SentInOrder(f, n) ==
  /\ \A c \in Conns : SockInOrder(f.sock[c]) /\ \A p \in Pkts(f.sock[c]) : p <= n
  /\ \A c, d \in Conns : c < d => \A p \in Pkts(f.sock[c]), q \in Pkts(f.sock[d]) : p < q
  /\ \A c \in Conns : \A p \in Pkts(f.sock[c]), i \in 1 .. Len(f.queue) : p < f.queue[i]
  /\ Increasing(f.queue) /\ \A i \in 1 .. Len(f.queue) : f.queue[i] <= n

\* What an end has written to its TUN is older than all that is still to come to it from its peer,
\* and what it will read next are whole frames.
Written(s) == {s.tun[i][1].pkt : i \in 1 .. Len(s.tun)}
ReadInOrder(s, f, n) ==
  /\ \A w \in Written(s) : w <= n /\ \A j \in 1 .. Len(f.queue) : w < f.queue[j]
  /\ \A c \in Conns : Hears(s, c) =>
       /\ \A w \in Written(s), p \in Pkts(f.sock[c]) : w < p
       /\ Aligned(Stream(s, f, c)) /\ Len(Begun(s, c)) <= 1
TunInOrder(s) ==
  /\ \A i \in 1 .. Len(s.tun) : s.tun[i] = Frame(s.tun[i][1].pkt)
  /\ \A i \in 2 .. Len(s.tun) : s.tun[i - 1][1].pkt < s.tun[i][1].pkt

\* From f to s, and both ways.
Flow(s, f, n) == SentInOrder(f, n) /\ ReadInOrder(s, f, n) /\ TunInOrder(s)
Order(a, r)   == \A e \in Ends : Flow(a[e], a[Peer(e)], r[Peer(e)])

-----------------------------------------------------------------------------
(* An end that forgets: it passes on nothing new, opens nothing and may give up its endpoint,   *)
(* its queue and batches.                                                                       *)

QuietSock(k, l) ==
  /\ l.out = k.out /\ l.batch \in {k.batch, << >>}
  /\ l.st \in {"backlog", "open"} => l.st = k.st
Quiet(s, t) ==
  /\ t.tun = s.tun
  /\ t.ep \in {0, s.ep} /\ (t.ep # 0 => t.framer = s.framer)
  /\ t.queue \in {s.queue, << >>}
  /\ \A c \in Conns : QuietSock(s.sock[c], t.sock[c])

-----------------------------------------------------------------------------
(* Types.                                                                  *)

\* The two ends are each other's peers.
LEMMA Peers ==
  ASSUME NEW e \in Ends
  PROVE  Peer(e) \in Ends /\ Peer(e) # e /\ \A o \in Ends : o = e \/ o = Peer(e)
BY DEF Ends, Peer

\* An empty sequence is one of packets and one of bytes.
LEMMA EmptySeqs == << >> \in Seq(Nat) /\ << >> \in Seq(Bytes) /\ Len(<< >>) = 0
OBVIOUS

\* The parts of the state of an end.
LEMMA EndTypes ==
  ASSUME NEW s \in EndRec
  PROVE  /\ s.ep \in Nat /\ s.wired \in Nat /\ s.drain \in Nat /\ s.writer \in Nat /\ s.busy \in Nat
         /\ s.active \in Nat /\ s.armed \in BOOLEAN /\ s.connecting \in BOOLEAN
         /\ s.queue \in Seq(Nat) /\ s.framer \in Seq(Bytes) /\ s.tun \in Seq(Bytes \X Bytes)
         /\ s.sock \in [Conns -> Socket] /\ \A c \in Conns : s.sock[c] \in Socket
BY DEF EndRec

\* The parts of a socket.
LEMMA SockTypes ==
  ASSUME NEW k \in Socket
  PROVE  /\ k.st \in {"none", "backlog", "open", "gone"}
         /\ k.ev \in SUBSET {"error", "close"} /\ k.batch \in Seq(Nat) /\ k.out \in Seq(Bytes)
         /\ k.eof \in BOOLEAN /\ k.fin \in BOOLEAN /\ k.grace \in BOOLEAN
BY DEF Socket

\* All of an end but its sockets.
OnlySock(s, t) ==
  /\ t.ep = s.ep /\ t.armed = s.armed /\ t.wired = s.wired /\ t.drain = s.drain
  /\ t.writer = s.writer /\ t.idle = s.idle /\ t.busy = s.busy /\ t.active = s.active
  /\ t.connecting = s.connecting /\ t.cooling = s.cooling /\ t.queue = s.queue
  /\ t.framer = s.framer /\ t.tun = s.tun

\* One socket is replaced.
LEMMA PutSock ==
  ASSUME NEW s \in EndRec, NEW c \in Conns, NEW k \in Socket
  PROVE  /\ [s EXCEPT !.sock[c] = k] \in EndRec /\ OnlySock(s, [s EXCEPT !.sock[c] = k])
         /\ [s EXCEPT !.sock[c] = k].sock[c] = k
         /\ \A d \in Conns : d # c => [s EXCEPT !.sock[c] = k].sock[d] = s.sock[d]
<1>1. /\ [s EXCEPT !.sock[c] = k] \in EndRec /\ OnlySock(s, [s EXCEPT !.sock[c] = k])
      /\ [s EXCEPT !.sock[c] = k].sock = [s.sock EXCEPT ![c] = k]
  BY DEF EndRec, OnlySock
<1>2. s.sock \in [Conns -> Socket]
  BY EndTypes
<1> QED BY <1>1, <1>2

-----------------------------------------------------------------------------
(* What becomes of a socket.                                               *)

\* What it has yet to pass on stays.
SameData(k, l) == l.batch = k.batch /\ l.out = k.out

\* The connection is over and its events are to come.
LEMMA SockGone ==
  ASSUME NEW k \in Socket, NEW ev \in SUBSET {"error", "close"}
  PROVE  LET l == Gone(k, ev) IN
         /\ l \in Socket /\ l.st = "gone" /\ l.ev = ev /\ l.eof = k.eof /\ l.fin = k.fin /\ l.grace = k.grace
         /\ SameData(k, l)
BY DEF SameData, Gone, Socket

\* This side has ended.
LEMMA SockFin ==
  ASSUME NEW k \in Socket
  PROVE  LET l == [k EXCEPT !.fin = TRUE] IN
         /\ l \in Socket /\ l.st = k.st /\ l.ev = k.ev /\ l.eof = k.eof /\ l.fin /\ l.grace = k.grace
         /\ SameData(k, l)
BY DEF SameData, Socket

\* The other side has ended.
LEMMA SockEof ==
  ASSUME NEW k \in Socket
  PROVE  LET l == [k EXCEPT !.eof = TRUE] IN
         /\ l \in Socket /\ l.st = k.st /\ l.ev = k.ev /\ l.eof /\ l.fin = k.fin /\ l.grace = k.grace
         /\ SameData(k, l)
BY DEF SameData, Socket

\* A graceful close has begun.
LEMMA SockGrace ==
  ASSUME NEW k \in Socket
  PROVE  LET l == [k EXCEPT !.grace = TRUE, !.fin = TRUE] IN
         /\ l \in Socket /\ l.st = k.st /\ l.ev = k.ev /\ l.eof = k.eof /\ l.fin /\ l.grace
         /\ SameData(k, l)
BY DEF SameData, Socket

\* The grace timer has expired.
LEMMA SockOver ==
  ASSUME NEW k \in Socket
  PROVE  LET l == [k EXCEPT !.grace = FALSE] IN
         /\ l \in Socket /\ l.st = k.st /\ l.ev = k.ev /\ l.eof = k.eof /\ l.fin = k.fin /\ ~l.grace
         /\ SameData(k, l)
BY DEF SameData, Socket

\* The close event has been emitted.
LEMMA SockHeard ==
  ASSUME NEW k \in Socket
  PROVE  LET l == [k EXCEPT !.ev = {}, !.grace = FALSE] IN
         /\ l \in Socket /\ l.st = k.st /\ l.ev = {} /\ l.eof = k.eof /\ l.fin = k.fin /\ ~l.grace
         /\ SameData(k, l)
BY DEF SameData, Socket

\* The error event has been emitted.
LEMMA SockErr ==
  ASSUME NEW k \in Socket
  PROVE  LET l == [k EXCEPT !.ev = @ \ {"error"}] IN
         /\ l \in Socket /\ l.st = k.st /\ l.ev = k.ev \ {"error"} /\ l.eof = k.eof /\ l.fin = k.fin /\ l.grace = k.grace
         /\ SameData(k, l)
BY DEF SameData, Socket

\* A connection reaches the exit or is accepted.
LEMMA SockOpen ==
  ASSUME NEW k \in Socket, NEW st \in {"open", "backlog"}
  PROVE  LET l == [k EXCEPT !.st = st] IN
         /\ l \in Socket /\ l.st = st /\ l.ev = k.ev /\ l.eof = k.eof /\ l.fin = k.fin /\ l.grace = k.grace
         /\ SameData(k, l)
BY DEF SameData, Socket

-----------------------------------------------------------------------------
(* What keeps an end in order and is quiet.                                *)

\* A connection that has been made.
LEMMA InConns ==
  ASSUME NEW m \in 0 .. MaxConns, NEW x \in Nat, x <= m
  PROVE  x \in 0 .. MaxConns /\ (x # 0 => x \in Conns)
BY BoundsAssumption DEF Conns

\* An end without a socket for 0.
LEMMA EpConn ==
  ASSUME NEW e \in Ends, NEW m \in 0 .. MaxConns, NEW s, EndOK(e, s, m), s.ep # 0
  PROVE  s.ep \in Conns
<1>1. s.ep \in Nat /\ s.ep <= m
  BY EndTypes DEF EndOK
<1> QED BY <1>1, InConns

\* While a graceful close is busy nothing has happened to a new endpoint.
LEMMA BusyEp ==
  ASSUME NEW e \in Ends, NEW m \in 0 .. MaxConns, NEW s, EndOK(e, s, m), s.busy # 0, s.ep # 0
  PROVE  /\ s.busy < s.ep /\ s.busy \in Conns /\ s.sock[s.busy].ev # {}
         /\ s.sock[s.ep].st = "open" /\ s.sock[s.ep].ev = {}
         /\ ~s.sock[s.ep].fin /\ ~s.sock[s.ep].eof /\ ~s.sock[s.ep].grace
<1>1. e = "exit" /\ BusyOK(s)
  BY DEF EndOK, ClientOK, ExitOK, Ends
<1>2. s.busy \in Conns
  BY EndTypes, BoundsAssumption DEF EndOK, Conns
<1> QED BY <1>1, <1>2 DEF BusyOK

\* What the invariant says of the endpoint while a close is busy.
LEMMA BusyFree ==
  ASSUME NEW e \in Ends, NEW m \in 0 .. MaxConns, NEW s, EndOK(e, s, m), NEW c \in Conns
  PROVE  s.busy # 0 /\ s.ep = c =>
           /\ s.sock[c].st = "open" /\ s.sock[c].ev = {}
           /\ ~s.sock[c].fin /\ ~s.sock[c].eof /\ ~s.sock[c].grace
<1> SUFFICES ASSUME s.busy # 0, s.ep = c
             PROVE  /\ s.sock[s.ep].st = "open" /\ s.sock[s.ep].ev = {}
                    /\ ~s.sock[s.ep].fin /\ ~s.sock[s.ep].eof /\ ~s.sock[s.ep].grace
  OBVIOUS
<1>1. c # 0
  BY BoundsAssumption DEF Conns
<1> QED BY <1>1, BusyEp

\* One socket changes.
LEMMA SockStep ==
  ASSUME NEW e \in Ends, NEW m \in 0 .. MaxConns, NEW s, EndOK(e, s, m), NEW c \in Conns,
         NEW l \in Socket, SockOK(l, c, m),
         l.st = s.sock[c].st \/ (s.sock[c].st = "open" /\ l.st = "gone" /\ l.ev # {}),
         l.ev = {} => s.sock[c].ev = {} \/ (s.busy # c /\ ~(s.armed /\ s.ep = c)),
         s.busy = c => (s.sock[c].fin => l.fin),
         s.busy # 0 /\ s.ep = c => l.st = "open" /\ l.ev = {} /\ ~l.fin /\ ~l.eof /\ ~l.grace
  PROVE  /\ EndOK(e, [s EXCEPT !.sock[c] = l], m)
         /\ QuietSock(s.sock[c], l) => Quiet(s, [s EXCEPT !.sock[c] = l])
<1> DEFINE t == [s EXCEPT !.sock[c] = l]
<1>1. /\ t \in EndRec /\ OnlySock(s, t) /\ t.sock[c] = l
      /\ \A d \in Conns : d # c => t.sock[d] = s.sock[d]
  BY PutSock DEF EndOK
<1> HIDE DEF t
<1>2. QuietSock(s.sock[c], l) => Quiet(s, t)
  BY <1>1 DEF Quiet, QuietSock, OnlySock
<1>3. \A d \in Conns : SockOK(t.sock[d], d, m)
  BY <1>1 DEF EndOK
<1>4. s.ep # 0 => s.ep \in Conns
  BY EpConn
<1>5. s.busy # 0 => s.busy \in Conns
  <2>1. s.busy \in Nat /\ s.busy <= m
    BY EndTypes DEF EndOK
  <2> QED BY <2>1, InConns
<1>6. WireOK(t)
  BY <1>1, <1>4 DEF EndOK, WireOK, OnlySock
<1>7. e = "client" => ClientOK(t, m)
  BY <1>1, <1>4 DEF EndOK, ClientOK, OnlySock, Live
<1>8. e = "exit" => ExitOK(t)
  <2> SUFFICES ASSUME e = "exit" PROVE ExitOK(t)
    OBVIOUS
  <2>1. ExitOK(s)
    BY DEF EndOK
  <2>2. BusyOK(t)
    BY <2>1, <1>1, <1>4, <1>5 DEF ExitOK, BusyOK, OnlySock
  <2>3. /\ \A d \in Conns : t.sock[d].st = "backlog" => s.sock[d].st = "backlog"
        /\ \A d \in Conns : s.sock[d].st \in Unused => t.sock[d].st = s.sock[d].st
    BY <1>1 DEF Unused
  <2> QED BY <2>1, <2>2, <2>3, <1>1 DEF ExitOK, OnlySock
<1>9. /\ t.ep <= m /\ t.wired <= m /\ t.drain <= m /\ t.writer <= m /\ t.busy <= m /\ t.active <= m
      /\ Len(t.queue) <= QueueMax /\ \A i \in 1 .. Len(t.queue) : t.queue[i] \in Numbers
  BY <1>1 DEF EndOK, OnlySock
<1>10. EndOK(e, t, m)
  BY <1>1, <1>3, <1>6, <1>7, <1>8, <1>9 DEF EndOK
<1> QED BY <1>2, <1>10 DEF t

\* The wire is taken down.
LEMMA Unwire ==
  ASSUME NEW e \in Ends, NEW m \in 0 .. MaxConns, NEW s, EndOK(e, s, m), NEW t \in EndRec,
         t.sock = s.sock, t.busy = s.busy, t.active = s.active, t.tun = s.tun,
         t.connecting => s.connecting, t.queue \in {<< >>, s.queue}, t.drain \in {0, s.drain},
         t.ep = 0, ~t.armed, t.wired = 0, t.writer = 0
  PROVE  EndOK(e, t, m) /\ Quiet(s, t)
<1>1. Quiet(s, t)
  BY DEF Quiet, QuietSock
<1>2. /\ t.ep <= m /\ t.wired <= m /\ t.drain <= m /\ t.writer <= m /\ t.busy <= m /\ t.active <= m
      /\ \A c \in Conns : SockOK(t.sock[c], c, m)
  BY EndTypes DEF EndOK
<1>3. Len(t.queue) <= QueueMax /\ \A i \in 1 .. Len(t.queue) : t.queue[i] \in Numbers
  <2>1. CASE t.queue = << >>
    BY <2>1, BoundsAssumption
  <2>2. CASE t.queue = s.queue
    BY <2>2 DEF EndOK
  <2> QED BY <2>1, <2>2
<1>4. WireOK(t)
  BY DEF WireOK
<1>5. e = "client" => ClientOK(t, m)
  BY DEF EndOK, ClientOK, Live
<1>6. e = "exit" => ExitOK(t)
  <2> SUFFICES ASSUME e = "exit" PROVE ExitOK(t)
    OBVIOUS
  <2>1. ExitOK(s)
    BY DEF EndOK
  <2>2. BusyOK(t)
    BY <2>1 DEF ExitOK, BusyOK
  <2> QED BY <2>1, <2>2 DEF ExitOK
<1> QED BY <1>1, <1>2, <1>3, <1>4, <1>5, <1>6 DEF EndOK

\* The idle timer or the cooldown is set or cleared, or a drain is over.
LEMMA Cosmetic ==
  ASSUME NEW e \in Ends, NEW m \in 0 .. MaxConns, NEW s, EndOK(e, s, m), NEW t \in EndRec,
         t.sock = s.sock, t.busy = s.busy, t.active = s.active, t.tun = s.tun, t.framer = s.framer,
         t.connecting = s.connecting, t.queue = s.queue,
         t.drain = s.drain \/ (t.drain = 0 /\ ~(~s.armed /\ Live(s, s.ep))),
         t.ep = s.ep, t.armed = s.armed, t.wired = s.wired, t.writer = s.writer
  PROVE  EndOK(e, t, m) /\ Quiet(s, t)
<1>1. Quiet(s, t)
  BY DEF Quiet, QuietSock
<1>2. /\ t.ep <= m /\ t.wired <= m /\ t.drain <= m /\ t.writer <= m /\ t.busy <= m /\ t.active <= m
      /\ \A c \in Conns : SockOK(t.sock[c], c, m)
      /\ Len(t.queue) <= QueueMax /\ \A i \in 1 .. Len(t.queue) : t.queue[i] \in Numbers
  BY EndTypes DEF EndOK
<1>4. WireOK(t)
  BY DEF EndOK, WireOK
<1>5. e = "client" => ClientOK(t, m)
  BY DEF EndOK, ClientOK, Live
<1>6. e = "exit" => ExitOK(t)
  BY DEF EndOK, ExitOK, BusyOK
<1> QED BY <1>1, <1>2, <1>4, <1>5, <1>6 DEF EndOK

\* A graceful close is over.
LEMMA BusyOff ==
  ASSUME NEW e \in Ends, NEW m \in 0 .. MaxConns, NEW s, EndOK(e, s, m)
  PROVE  EndOK(e, [s EXCEPT !.busy = 0], m) /\ Quiet(s, [s EXCEPT !.busy = 0])
<1> DEFINE t == [s EXCEPT !.busy = 0]
<1>1. /\ t \in EndRec /\ t.busy = 0 /\ t.sock = s.sock /\ t.active = s.active /\ t.tun = s.tun
      /\ t.framer = s.framer /\ t.connecting = s.connecting /\ t.queue = s.queue
      /\ t.drain = s.drain /\ t.ep = s.ep /\ t.armed = s.armed /\ t.wired = s.wired
      /\ t.writer = s.writer
  BY DEF EndOK, EndRec
<1> HIDE DEF t
<1>2. Quiet(s, t)
  BY <1>1 DEF Quiet, QuietSock
<1>3. /\ t.ep <= m /\ t.wired <= m /\ t.drain <= m /\ t.writer <= m /\ t.busy <= m /\ t.active <= m
      /\ \A c \in Conns : SockOK(t.sock[c], c, m)
      /\ Len(t.queue) <= QueueMax /\ \A i \in 1 .. Len(t.queue) : t.queue[i] \in Numbers
  BY <1>1 DEF EndOK
<1>4. WireOK(t)
  BY <1>1 DEF EndOK, WireOK
<1>5. e = "client" => ClientOK(t, m)
  BY <1>1 DEF EndOK, ClientOK, Live
<1>6. e = "exit" => ExitOK(t)
  BY <1>1 DEF EndOK, ExitOK, BusyOK
<1>7. EndOK(e, t, m)
  BY <1>1, <1>3, <1>4, <1>5, <1>6 DEF EndOK
<1> QED BY <1>2, <1>7 DEF t

\* Quiet changes in turn are quiet.
LEMMA QuietTrans ==
  ASSUME NEW s, NEW t, NEW u, Quiet(s, t), Quiet(t, u)
  PROVE  Quiet(s, u)
BY DEF Quiet, QuietSock

\* Nothing happens.
LEMMA QuietSelf == ASSUME NEW s PROVE Quiet(s, s)
BY DEF Quiet, QuietSock

-----------------------------------------------------------------------------
(* Closing a socket, and the wire.                                         *)

\* A change of the socket of the endpoint that a busy close does not forbid.
Free(s, c) == ~(s.busy # 0 /\ s.ep = c)

\* The socket of 0 or of a connection never lives unless it is one.
LEMMA LiveConn ==
  ASSUME NEW s, NEW c \in 0 .. MaxConns, Live(s, c)
  PROVE  c \in Conns /\ s.sock[c].st = "open"
BY BoundsAssumption DEF Live, Conns

\* resetTcpEndpoint
LEMMA ResetOK ==
  ASSUME NEW e \in Ends, NEW m \in 0 .. MaxConns, NEW s, EndOK(e, s, m), NEW c \in 0 .. MaxConns,
         Free(s, c)
  PROVE  EndOK(e, Reset(s, c), m) /\ Quiet(s, Reset(s, c))
<1>1. CASE ~Live(s, c)
  BY <1>1, QuietSelf DEF Reset
<1>2. CASE Live(s, c)
  <2> DEFINE l == Gone(s.sock[c], {"close"})
  <2>1. c \in Conns /\ s.sock[c].st = "open"
    BY <1>2, LiveConn
  <2>2. s.sock[c] \in Socket /\ SockOK(s.sock[c], c, m)
    BY <2>1, EndTypes DEF EndOK
  <2>3. /\ l \in Socket /\ l.st = "gone" /\ l.ev = {"close"} /\ l.fin = s.sock[c].fin
        /\ SameData(s.sock[c], l)
    BY <2>2, SockGone
  <2>4. Reset(s, c) = [s EXCEPT !.sock[c] = l]
    BY <1>2 DEF Reset
  <2> HIDE DEF l
  <2>5. SockOK(l, c, m) /\ QuietSock(s.sock[c], l)
    BY <2>1, <2>2, <2>3 DEF SockOK, QuietSock, SameData, Unused
  <2> QED BY <2>1, <2>3, <2>4, <2>5, SockStep DEF Free
<1> QED BY <1>1, <1>2

\* respondFinTcpEndpoint
LEMMA RespondFinOK ==
  ASSUME NEW e \in Ends, NEW m \in 0 .. MaxConns, NEW s, EndOK(e, s, m), NEW c \in 0 .. MaxConns,
         Free(s, c)
  PROVE  EndOK(e, RespondFin(s, c), m) /\ Quiet(s, RespondFin(s, c))
<1>1. CASE ~Live(s, c)
  BY <1>1, QuietSelf DEF RespondFin
<1>2. CASE Live(s, c)
  <2> DEFINE l == [s.sock[c] EXCEPT !.fin = TRUE]
  <2>1. c \in Conns /\ s.sock[c].st = "open"
    BY <1>2, LiveConn
  <2>2. s.sock[c] \in Socket /\ SockOK(s.sock[c], c, m)
    BY <2>1, EndTypes DEF EndOK
  <2>3. /\ l \in Socket /\ l.st = s.sock[c].st /\ l.ev = s.sock[c].ev /\ l.fin
        /\ SameData(s.sock[c], l)
    BY <2>2, SockFin
  <2>4. RespondFin(s, c) = [s EXCEPT !.sock[c] = l]
    BY <1>2 DEF RespondFin
  <2> HIDE DEF l
  <2>5. SockOK(l, c, m) /\ QuietSock(s.sock[c], l)
    BY <2>1, <2>2, <2>3 DEF SockOK, QuietSock, SameData, Unused
  <2> QED BY <2>1, <2>3, <2>4, <2>5, SockStep DEF Free
<1> QED BY <1>1, <1>2

\* What a close leaves of a socket: gone, or open with its end sent, which a second close resets.
Closes(k, l) ==
  /\ l \in Socket /\ SameData(k, l)
  /\ \/ l = k /\ k.st # "open"
     \/ k.st = "open" /\ l.st = "gone" /\ l.ev = {"close"}
     \/ k.st = "open" /\ ~k.fin /\ l.st = "open" /\ l.ev = k.ev /\ l.fin

\* resetTcpEndpoint, as facts about the socket
LEMMA ResetFacts ==
  ASSUME NEW s \in EndRec, NEW c \in Conns, s.sock[c].st = "open"
  PROVE  /\ Reset(s, c) \in EndRec /\ OnlySock(s, Reset(s, c))
         /\ Reset(s, c).sock[c] = Gone(s.sock[c], {"close"})
         /\ \A d \in Conns : d # c => Reset(s, c).sock[d] = s.sock[d]
<1>1. s.sock[c] \in Socket /\ Gone(s.sock[c], {"close"}) \in Socket
  BY EndTypes, SockGone
<1>2. Reset(s, c) = [s EXCEPT !.sock[c] = Gone(s.sock[c], {"close"})]
  BY BoundsAssumption DEF Reset, Live, Conns
<1> QED BY <1>1, <1>2, PutSock

\* gracefulCloseTcpEndpoint, as facts about the socket
LEMMA GracefulFacts ==
  ASSUME NEW s \in EndRec, NEW c \in 0 .. MaxConns
  PROVE  LET t == GracefulClose(s, c) IN
         /\ t \in EndRec /\ OnlySock(s, t)
         /\ \A d \in Conns : d # c => t.sock[d] = s.sock[d]
         /\ c # 0 => Closes(s.sock[c], t.sock[c])
<1>1. CASE ~Live(s, c)
  <2>1. GracefulClose(s, c) = s
    BY <1>1 DEF GracefulClose
  <2> QED BY <1>1, <2>1, EndTypes, BoundsAssumption DEF OnlySock, Closes, SameData, Live, Conns
<1>2. CASE Live(s, c)
  <2> DEFINE l == [s.sock[c] EXCEPT !.grace = TRUE, !.fin = TRUE]
             t == [s EXCEPT !.sock[c] = l]
  <2>1. c \in Conns /\ s.sock[c].st = "open"
    BY <1>2, LiveConn
  <2>2. s.sock[c] \in Socket
    BY <2>1, EndTypes
  <2>3. /\ l \in Socket /\ l.st = s.sock[c].st /\ l.ev = s.sock[c].ev /\ l.fin
        /\ SameData(s.sock[c], l)
    BY <2>2, SockGrace
  <2>4. GracefulClose(s, c) = IF s.sock[c].fin THEN Reset(t, c) ELSE t
    BY <1>2 DEF GracefulClose
  <2> HIDE DEF l
  <2>5. /\ t \in EndRec /\ OnlySock(s, t) /\ t.sock[c] = l
        /\ \A d \in Conns : d # c => t.sock[d] = s.sock[d]
    BY <2>1, <2>3, PutSock
  <2> HIDE DEF t
  <2>6. CASE s.sock[c].fin
    <3>1. /\ Reset(t, c) \in EndRec /\ OnlySock(t, Reset(t, c))
          /\ Reset(t, c).sock[c] = Gone(l, {"close"})
          /\ \A d \in Conns : d # c => Reset(t, c).sock[d] = t.sock[d]
      BY <2>1, <2>3, <2>5, ResetFacts
    <3>2. /\ Gone(l, {"close"}) \in Socket /\ Gone(l, {"close"}).st = "gone"
          /\ Gone(l, {"close"}).ev = {"close"} /\ SameData(l, Gone(l, {"close"}))
      BY <2>3, SockGone
    <3>3. Closes(s.sock[c], Gone(l, {"close"}))
      BY <2>1, <2>3, <3>2 DEF Closes, SameData
    <3> QED BY <2>4, <2>5, <2>6, <3>1, <3>3 DEF OnlySock
  <2>7. CASE ~s.sock[c].fin
    <3>1. Closes(s.sock[c], l)
      BY <2>1, <2>3, <2>7 DEF Closes
    <3> QED BY <2>4, <2>5, <2>7, <3>1
  <2> QED BY <2>6, <2>7
<1> QED BY <1>1, <1>2

\* closeBridgeEndpoint, as facts about the socket
LEMMA CloseFacts ==
  ASSUME NEW s \in EndRec, NEW c \in 0 .. MaxConns
  PROVE  LET t == CloseEndpoint(s, c) IN
         /\ t \in EndRec /\ OnlySock(s, t)
         /\ \A d \in Conns : d # c => t.sock[d] = s.sock[d]
         /\ c # 0 => Closes(s.sock[c], t.sock[c])
<1>1. CASE Live(s, c) /\ Closing(s.sock[c])
  <2>1. c \in Conns /\ s.sock[c].st = "open"
    BY <1>1, LiveConn
  <2>2. CloseEndpoint(s, c) = Reset(s, c)
    BY <1>1 DEF CloseEndpoint
  <2>3. s.sock[c] \in Socket
    BY <2>1, EndTypes
  <2>4. Closes(s.sock[c], Gone(s.sock[c], {"close"}))
    BY <2>1, <2>3, SockGone DEF Closes
  <2> QED BY <2>1, <2>2, <2>4, ResetFacts
<1>2. CASE ~(Live(s, c) /\ Closing(s.sock[c]))
  <2>1. CloseEndpoint(s, c) = GracefulClose(s, c)
    BY <1>2 DEF CloseEndpoint
  <2> QED BY <2>1, GracefulFacts
<1> QED BY <1>1, <1>2

\* teardownWire
LEMMA TeardownOK ==
  ASSUME NEW e \in Ends, NEW m \in 0 .. MaxConns, NEW s, EndOK(e, s, m), NEW reason
  PROVE  EndOK(e, TeardownWire(s, reason), m) /\ Quiet(s, TeardownWire(s, reason))
<1>0. s \in EndRec /\ WireOK(s) /\ s.ep \in 0 .. MaxConns
  BY EndTypes, BoundsAssumption DEF EndOK
<1>1. CASE s.busy # 0
  BY <1>1, QuietSelf DEF TeardownWire
<1>2. CASE s.busy = 0 /\ ~s.armed /\ s.ep = 0 /\ ~s.connecting
  <2> DEFINE t == [s EXCEPT !.queue = << >>]
  <2>1. TeardownWire(s, reason) = t
    BY <1>2 DEF TeardownWire
  <2>2. /\ t \in EndRec /\ t.sock = s.sock /\ t.busy = s.busy /\ t.active = s.active /\ t.tun = s.tun
        /\ t.connecting = s.connecting /\ t.queue = << >> /\ t.drain = s.drain /\ t.ep = s.ep
        /\ t.armed = s.armed /\ t.wired = s.wired /\ t.writer = s.writer
    BY <1>0, EmptySeqs DEF EndRec
  <2> HIDE DEF t
  <2>3. t.ep = 0 /\ ~t.armed /\ t.wired = 0 /\ t.writer = 0
    BY <1>0, <1>2, <2>2 DEF WireOK
  <2> QED BY <2>1, <2>2, <2>3, Unwire
<1>3. CASE s.busy = 0 /\ ~(~s.armed /\ s.ep = 0 /\ ~s.connecting)
  <2> DEFINE t == [s EXCEPT !.idle = FALSE, !.wired = 0, !.armed = FALSE, !.queue = << >>,
                            !.ep = 0, !.writer = 0, !.drain = 0]
  <2>1. TeardownWire(s, reason) = IF reason = "peer_close" THEN RespondFin(t, s.ep) ELSE Reset(t, s.ep)
    BY <1>3 DEF TeardownWire
  <2>2. /\ t \in EndRec /\ t.sock = s.sock /\ t.busy = s.busy /\ t.active = s.active /\ t.tun = s.tun
        /\ t.connecting = s.connecting /\ t.queue = << >> /\ t.drain = 0 /\ t.ep = 0
        /\ ~t.armed /\ t.wired = 0 /\ t.writer = 0
    BY <1>0, EmptySeqs DEF EndRec
  <2> HIDE DEF t
  <2>3. EndOK(e, t, m) /\ Quiet(s, t)
    BY <2>2, Unwire
  <2>4. Free(t, s.ep)
    BY <1>3, <2>2 DEF Free
  <2>5. /\ EndOK(e, RespondFin(t, s.ep), m) /\ Quiet(t, RespondFin(t, s.ep))
        /\ EndOK(e, Reset(t, s.ep), m) /\ Quiet(t, Reset(t, s.ep))
    BY <1>0, <2>3, <2>4, ResetOK, RespondFinOK
  <2> QED BY <2>1, <2>3, <2>5, QuietTrans
<1> QED BY <1>1, <1>2, <1>3

\* clearTcpEndpointRef when a drain is over or the endpoint is given up
LEMMA ClearRefOK ==
  ASSUME NEW e \in Ends, NEW m \in 0 .. MaxConns, NEW s, EndOK(e, s, m), NEW c \in 0 .. MaxConns,
         ~(s.armed /\ s.ep = c), s.drain = c \/ s.ep = c
  PROVE  /\ EndOK(e, ClearEndpointRef([s EXCEPT !.drain = 0], c), m)
         /\ Quiet(s, ClearEndpointRef([s EXCEPT !.drain = 0], c))
         /\ ClearEndpointRef([s EXCEPT !.drain = 0], c).busy = s.busy
         /\ ClearEndpointRef([s EXCEPT !.drain = 0], c).armed = s.armed
         /\ c # 0 => ClearEndpointRef([s EXCEPT !.drain = 0], c).ep # c
<1> DEFINE t == [s EXCEPT !.drain = 0]
           u == [t EXCEPT !.ep = 0, !.writer = 0]
<1>0. s \in EndRec /\ WireOK(s) /\ s.ep \in Nat /\ s.writer \in Nat
  BY EndTypes DEF EndOK
<1>1. /\ t \in EndRec /\ t.sock = s.sock /\ t.busy = s.busy /\ t.active = s.active /\ t.tun = s.tun
      /\ t.framer = s.framer /\ t.connecting = s.connecting /\ t.queue = s.queue /\ t.drain = 0
      /\ t.ep = s.ep /\ t.armed = s.armed /\ t.wired = s.wired /\ t.writer = s.writer
  BY <1>0 DEF EndRec
<1>2. ClearEndpointRef(t, c) = IF t.ep = c THEN u ELSE t
  BY DEF ClearEndpointRef
<1> HIDE DEF t
<1>3. CASE s.ep = c
  <2>1. /\ u \in EndRec /\ u.sock = t.sock /\ u.busy = t.busy /\ u.active = t.active /\ u.tun = t.tun
        /\ u.connecting = t.connecting /\ u.queue = t.queue /\ u.drain = 0
        /\ u.ep = 0 /\ u.armed = t.armed /\ u.wired = t.wired /\ u.writer = 0
    BY <1>1 DEF EndRec
  <2> HIDE DEF u
  <2>2. ~u.armed /\ u.wired = 0
    BY <1>0, <1>1, <1>3, <2>1 DEF WireOK
  <2>3. EndOK(e, u, m) /\ Quiet(s, u)
    BY <1>1, <2>1, <2>2, Unwire
  <2> QED BY <1>1, <1>2, <1>3, <2>1, <2>3 DEF t
<1>4. CASE s.ep # c
  <2>1. ~(~s.armed /\ Live(s, s.ep))
    BY <1>4 DEF EndOK, ClientOK, ExitOK, Ends, Live
  <2>2. EndOK(e, t, m) /\ Quiet(s, t)
    BY <1>1, <2>1, Cosmetic
  <2> QED BY <1>1, <1>2, <1>4, <2>2 DEF t
<1> QED BY <1>3, <1>4

\* handleTcpWireFailure
LEMMA WireFailureOK ==
  ASSUME NEW e \in Ends, NEW m \in 0 .. MaxConns, NEW s, EndOK(e, s, m)
  PROVE  EndOK(e, WireFailure(s), m) /\ Quiet(s, WireFailure(s))
<1>1. CASE s.armed
  BY <1>1, TeardownOK DEF WireFailure
<1>2. CASE ~s.armed /\ s.ep = 0
  BY <1>2, QuietSelf DEF WireFailure
<1>3. CASE ~s.armed /\ s.ep # 0
  <2> DEFINE t == ClearEndpointRef([s EXCEPT !.drain = 0], s.ep)
  <2>1. s.ep \in 0 .. MaxConns
    BY EndTypes, BoundsAssumption DEF EndOK
  <2>2. WireFailure(s) = Reset(t, s.ep)
    BY <1>3 DEF WireFailure
  <2>3. EndOK(e, t, m) /\ Quiet(s, t) /\ t.ep # s.ep
    BY <1>3, <2>1, ClearRefOK
  <2> HIDE DEF t
  <2>4. Free(t, s.ep)
    BY <2>3 DEF Free
  <2> QED BY <2>1, <2>2, <2>3, <2>4, ResetOK, QuietTrans
<1> QED BY <1>1, <1>2, <1>3

-----------------------------------------------------------------------------
(* Flushing a batch.                                                       *)

\* The frames of a batch: two bytes for each packet.
LEMMA FramedFacts ==
  ASSUME NEW ps \in Seq(Nat), \A i \in 1 .. Len(ps) : ps[i] \in Numbers
  PROVE  /\ Framed(ps) \in Seq(Bytes) /\ Len(Framed(ps)) = 2 * Len(ps)
         /\ \A i \in 1 .. 2 * Len(ps) :
              /\ (i + 1) \div 2 \in 1 .. Len(ps)
              /\ Framed(ps)[i].pkt = ps[(i + 1) \div 2] /\ Framed(ps)[i].part = 2 - (i % 2)
<1>1. Len(ps) \in Nat
  OBVIOUS
<1>2. ASSUME NEW i \in 1 .. 2 * Len(ps)
      PROVE  (i + 1) \div 2 \in 1 .. Len(ps) /\ 2 - (i % 2) \in {1, 2}
  BY <1>1
<1>3. ASSUME NEW i \in 1 .. 2 * Len(ps)
      PROVE  Frame(ps[(i + 1) \div 2])[2 - (i % 2)] = [pkt |-> ps[(i + 1) \div 2], part |-> 2 - (i % 2)]
  <2>1. CASE 2 - (i % 2) = 1
    BY <2>1 DEF Frame
  <2>2. CASE 2 - (i % 2) = 2
    BY <2>2 DEF Frame
  <2> QED BY <1>2, <2>1, <2>2
<1>4. ASSUME NEW i \in 1 .. 2 * Len(ps)
      PROVE  [pkt |-> ps[(i + 1) \div 2], part |-> 2 - (i % 2)] \in Bytes
  BY <1>2 DEF Bytes, Numbers
<1>5. Framed(ps) = [i \in 1 .. 2 * Len(ps) |-> [pkt |-> ps[(i + 1) \div 2], part |-> 2 - (i % 2)]]
  BY <1>3 DEF Framed
<1>6. Framed(ps) \in [1 .. 2 * Len(ps) -> Bytes]
  BY <1>4, <1>5
<1>7. Framed(ps) \in Seq(Bytes) /\ Len(Framed(ps)) = 2 * Len(ps)
  BY <1>1, <1>6
<1> QED BY <1>2, <1>5, <1>7

\* A flush writes the batch, or drops it and does what is quiet.
Emptied(s, c)  == [s EXCEPT !.sock[c].batch = << >>]
Wrote(s, t, c) ==
  /\ t.tun = s.tun /\ t.ep = s.ep /\ t.framer = s.framer /\ t.queue = s.queue
  /\ \A d \in Conns : d # c => t.sock[d] = s.sock[d]
  /\ t.sock[c].st = s.sock[c].st /\ t.sock[c].batch = << >>
  /\ t.sock[c].out = s.sock[c].out \o Framed(s.sock[c].batch)

\* A batch is dropped.
LEMMA EmptiedOK ==
  ASSUME NEW e \in Ends, NEW m \in 0 .. MaxConns, NEW s, EndOK(e, s, m), NEW c \in Conns
  PROVE  LET t == Emptied(s, c) IN
         /\ EndOK(e, t, m) /\ Quiet(s, t) /\ OnlySock(s, t)
         /\ t.sock[c] = [s.sock[c] EXCEPT !.batch = << >>]
         /\ \A d \in Conns : d # c => t.sock[d] = s.sock[d]
<1> DEFINE l == [s.sock[c] EXCEPT !.batch = << >>]
<1>1. s \in EndRec /\ s.sock[c] \in Socket /\ SockOK(s.sock[c], c, m)
  BY EndTypes DEF EndOK
<1>2. /\ l \in Socket /\ l.st = s.sock[c].st /\ l.ev = s.sock[c].ev /\ l.eof = s.sock[c].eof
      /\ l.fin = s.sock[c].fin /\ l.grace = s.sock[c].grace /\ l.out = s.sock[c].out
      /\ l.batch = << >>
  BY <1>1, EmptySeqs DEF Socket
<1>3. Emptied(s, c) = [s EXCEPT !.sock[c] = l]
  BY DEF Emptied
<1>9. l = [s.sock[c] EXCEPT !.batch = << >>]
  OBVIOUS
<1> HIDE DEF l
<1>4. SockOK(l, c, m) /\ QuietSock(s.sock[c], l)
  BY <1>1, <1>2, EmptySeqs DEF SockOK, QuietSock
<1>5. s.busy # 0 /\ s.ep = c => l.st = "open" /\ l.ev = {} /\ ~l.fin /\ ~l.eof /\ ~l.grace
  BY <1>2, BusyFree
<1>6. EndOK(e, [s EXCEPT !.sock[c] = l], m) /\ Quiet(s, [s EXCEPT !.sock[c] = l])
  BY <1>2, <1>4, <1>5, SockStep
<1>7. /\ OnlySock(s, [s EXCEPT !.sock[c] = l]) /\ [s EXCEPT !.sock[c] = l].sock[c] = l
      /\ \A d \in Conns : d # c => [s EXCEPT !.sock[c] = l].sock[d] = s.sock[d]
  BY <1>1, <1>2, PutSock
<1> QED BY <1>3, <1>6, <1>7, <1>9

\* flush of createTcpFramedBatchedWriter
LEMMA FlushOK ==
  ASSUME NEW e \in Ends, NEW m \in 0 .. MaxConns, NEW s, EndOK(e, s, m), NEW c \in Conns
  PROVE  /\ EndOK(e, Flush(s, c), m)
         /\ Wrote(s, Flush(s, c), c) \/ Quiet(Emptied(s, c), Flush(s, c))
<1> DEFINE k == s.sock[c]
           t == Emptied(s, c)
<1>1. s \in EndRec /\ k \in Socket /\ SockOK(k, c, m)
  BY EndTypes DEF EndOK
<1>2. /\ EndOK(e, t, m) /\ OnlySock(s, t) /\ t.sock[c] = [k EXCEPT !.batch = << >>]
      /\ \A d \in Conns : d # c => t.sock[d] = s.sock[d]
  BY EmptiedOK
<1>3. /\ t.sock[c].st = k.st /\ t.sock[c].ev = k.ev /\ t.sock[c].eof = k.eof
      /\ t.sock[c].fin = k.fin /\ t.sock[c].grace = k.grace /\ t.sock[c].out = k.out
      /\ t.sock[c].batch = << >> /\ t.sock[c] \in Socket /\ SockOK(t.sock[c], c, m) /\ t \in EndRec
  <2>1. /\ t.sock[c].st = k.st /\ t.sock[c].ev = k.ev /\ t.sock[c].eof = k.eof
        /\ t.sock[c].fin = k.fin /\ t.sock[c].grace = k.grace /\ t.sock[c].out = k.out
        /\ t.sock[c].batch = << >>
    BY <1>1, <1>2, EmptySeqs DEF Socket
  <2> QED BY <1>2, <2>1, EndTypes DEF EndOK
<1>4. CASE k.st = "open" /\ ~k.fin
  <2> DEFINE l == [t.sock[c] EXCEPT !.out = @ \o Framed(k.batch)]
  <2>1. Flush(s, c) = [t EXCEPT !.sock[c] = l]
    BY <1>4 DEF Flush, Emptied
  <2> HIDE DEF t
  <2>2. Framed(k.batch) \in Seq(Bytes)
    BY <1>1, SockTypes, FramedFacts DEF SockOK
  <2>3. k.out \o Framed(k.batch) \in Seq(Bytes)
    BY <2>2, <1>1, SockTypes
  <2>4. /\ l \in Socket /\ l.st = k.st /\ l.ev = k.ev /\ l.eof = k.eof /\ l.fin = k.fin
        /\ l.grace = k.grace /\ l.out = k.out \o Framed(k.batch) /\ l.batch = << >>
    BY <1>3, <2>3 DEF Socket
  <2> HIDE DEF l
  <2>5. SockOK(l, c, m)
    BY <1>3, <1>4, <2>4 DEF SockOK, Unused
  <2>6. t.busy # 0 /\ t.ep = c => l.st = "open" /\ l.ev = {} /\ ~l.fin /\ ~l.eof /\ ~l.grace
    <3>1. t.busy # 0 /\ t.ep = c =>
            /\ t.sock[c].st = "open" /\ t.sock[c].ev = {}
            /\ ~t.sock[c].fin /\ ~t.sock[c].eof /\ ~t.sock[c].grace
      BY <1>2, BusyFree
    <3> QED BY <1>3, <2>4, <3>1
  <2>7. EndOK(e, [t EXCEPT !.sock[c] = l], m)
    BY <1>2, <1>3, <2>4, <2>5, <2>6, SockStep, ZenonT(30)
  <2>8. /\ OnlySock(t, [t EXCEPT !.sock[c] = l]) /\ [t EXCEPT !.sock[c] = l].sock[c] = l
        /\ \A d \in Conns : d # c => [t EXCEPT !.sock[c] = l].sock[d] = t.sock[d]
    BY <1>3, <2>4, PutSock, ZenonT(30)
  <2>9. Wrote(s, [t EXCEPT !.sock[c] = l], c)
    BY <1>2, <2>4, <2>8 DEF Wrote, OnlySock
  <2> QED BY <2>1, <2>7, <2>9
<1>5. CASE ~(k.st = "open" /\ ~k.fin)
  <2> DEFINE u == IF k.st = "open" THEN [t EXCEPT !.sock[c] = Gone(t.sock[c], {"error", "close"})] ELSE t
  <2>1. Flush(s, c) = IF u.ep = c THEN WireFailure(u) ELSE u
    BY <1>5 DEF Flush, Emptied
  <2> HIDE DEF t
  <2>2. EndOK(e, u, m) /\ Quiet(t, u)
    <3>1. CASE k.st = "open"
      <4> DEFINE l == Gone(t.sock[c], {"error", "close"})
      <4>1. /\ l \in Socket /\ l.st = "gone" /\ l.ev = {"error", "close"} /\ l.fin = k.fin
            /\ SameData(t.sock[c], l)
        BY <1>3, SockGone
      <4>2. u = [t EXCEPT !.sock[c] = l]
        BY <3>1
      <4> HIDE DEF l, u
      <4>3. SockOK(l, c, m) /\ QuietSock(t.sock[c], l)
        BY <1>3, <3>1, <4>1 DEF SockOK, QuietSock, SameData, Unused
      <4>4. ~(t.busy # 0 /\ t.ep = c)
        BY <1>2, <1>3, <1>5, <3>1, BusyFree
      <4> QED BY <1>2, <1>3, <3>1, <4>1, <4>2, <4>3, <4>4, SockStep, ZenonT(30)
    <3>2. CASE k.st # "open"
      BY <1>2, <3>2, QuietSelf
    <3> QED BY <3>1, <3>2
  <2> HIDE DEF u
  <2>3. EndOK(e, WireFailure(u), m) /\ Quiet(u, WireFailure(u))
    BY <2>2, WireFailureOK
  <2> QED BY <2>1, <2>2, <2>3, QuietTrans DEF t
<1> QED BY <1>4, <1>5

-----------------------------------------------------------------------------
(* Packets and timers.                                                     *)

\* bumpActivity
LEMMA BumpOK ==
  ASSUME NEW e \in Ends, NEW m \in 0 .. MaxConns, NEW s, EndOK(e, s, m), NEW f
  PROVE  LET t == BumpActivity(s, f) IN
         /\ EndOK(e, t, m) /\ Quiet(s, t)
         /\ t \in EndRec /\ t.sock = s.sock /\ t.busy = s.busy /\ t.active = s.active
         /\ t.tun = s.tun /\ t.framer = s.framer /\ t.connecting = s.connecting
         /\ t.queue = s.queue /\ t.drain = s.drain /\ t.ep = s.ep /\ t.armed = s.armed
         /\ t.wired = s.wired /\ t.writer = s.writer
<1> DEFINE t == BumpActivity(s, f)
<1>0. s \in EndRec
  BY DEF EndOK
<1>1. /\ t \in EndRec /\ t.sock = s.sock /\ t.busy = s.busy /\ t.active = s.active
      /\ t.tun = s.tun /\ t.framer = s.framer /\ t.connecting = s.connecting
      /\ t.queue = s.queue /\ t.drain = s.drain /\ t.ep = s.ep /\ t.armed = s.armed
      /\ t.wired = s.wired /\ t.writer = s.writer
  BY <1>0 DEF BumpActivity, EndRec
<1> HIDE DEF t
<1>2. EndOK(e, t, m) /\ Quiet(s, t)
  BY <1>1, Cosmetic
<1> QED BY <1>1, <1>2 DEF t

\* A packet is appended to others.
LEMMA AppendIn ==
  ASSUME NEW q \in Seq(Nat), NEW S, NEW p \in Nat, p \in S, \A i \in 1 .. Len(q) : q[i] \in S
  PROVE  \A i \in 1 .. Len(Append(q, p)) : Append(q, p)[i] \in S
<1>1. \A i \in 1 .. Len(Append(q, p)) : i = Len(q) + 1 \/ i \in 1 .. Len(q)
  OBVIOUS
<1>2. Append(q, p)[Len(q) + 1] = p /\ \A i \in 1 .. Len(q) : Append(q, p)[i] = q[i]
  OBVIOUS
<1> QED BY <1>1, <1>2

\* A packet joins the batch of the endpoint.
Batched(s, t, c, p) ==
  /\ t.tun = s.tun /\ t.ep = s.ep /\ t.framer = s.framer /\ t.queue = s.queue
  /\ \A d \in Conns : d # c => t.sock[d] = s.sock[d]
  /\ t.sock[c].st = s.sock[c].st /\ t.sock[c].out = s.sock[c].out
  /\ t.sock[c].batch = Append(s.sock[c].batch, p)

\* sendOnWire of an armed bridge
LEMMA SendOK ==
  ASSUME NEW e \in Ends, NEW m \in 0 .. MaxConns, NEW s, EndOK(e, s, m), s.armed, NEW p \in Numbers
  PROVE  \E t : /\ EndOK(e, t, m) /\ Batched(s, t, s.ep, p)
                /\ SendOnWire(s, e, p) =
                     IF Len(t.sock[s.ep].batch) >= MaxBatch THEN Flush(t, s.ep) ELSE t
<1> DEFINE c == s.ep
           b == BumpActivity(s, e)
           w == [b EXCEPT !.writer = c]
<1>1. s \in EndRec /\ WireOK(s) /\ c # 0 /\ c \in Conns /\ s.writer \in {0, c}
  BY EpConn DEF EndOK, WireOK
<1>2. /\ EndOK(e, b, m) /\ b \in EndRec /\ b.sock = s.sock /\ b.tun = s.tun /\ b.framer = s.framer
      /\ b.queue = s.queue /\ b.ep = s.ep /\ b.armed
  BY BumpOK
<1>3. SendOnWire(s, e, p) =
        LET t == [w EXCEPT !.sock[c].batch = Append(@, p)]
        IN IF Len(t.sock[c].batch) >= MaxBatch THEN Flush(t, c) ELSE t
  <2>1. (IF s.writer = 0 THEN s.ep ELSE s.writer) = c
    BY <1>1
  <2>2. ~(~s.armed \/ s.ep = 0)
    BY <1>1
  <2>3. SendOnWire(s, e, p) =
          LET f == IF s.writer = 0 THEN s.ep ELSE s.writer
              t == [BumpActivity(s, e) EXCEPT !.writer = f, !.sock[f].batch = Append(@, p)]
          IN IF Len(t.sock[f].batch) >= MaxBatch THEN Flush(t, f) ELSE t
    BY <2>2 DEF SendOnWire
  <2> QED BY <2>1, <2>3, ZenonT(30)
<1> HIDE DEF b
<1>4. /\ w \in EndRec /\ w.sock = b.sock /\ w.tun = b.tun /\ w.framer = b.framer /\ w.busy = b.busy
      /\ w.queue = b.queue /\ w.ep = b.ep /\ w.armed = b.armed /\ w.wired = b.wired
      /\ w.drain = b.drain /\ w.active = b.active /\ w.connecting = b.connecting /\ w.writer = c
  BY <1>1, <1>2, EndTypes DEF EndRec
<1> HIDE DEF w
<1>5. EndOK(e, w, m)
  <2>1. WireOK(w)
    BY <1>2, <1>4 DEF EndOK, WireOK
  <2>2. e = "client" => ClientOK(w, m)
    BY <1>2, <1>4 DEF EndOK, ClientOK, Live
  <2>3. e = "exit" => ExitOK(w)
    BY <1>2, <1>4 DEF EndOK, ExitOK, BusyOK
  <2>4. /\ w.ep <= m /\ w.wired <= m /\ w.drain <= m /\ w.writer <= m /\ w.busy <= m /\ w.active <= m
        /\ Len(w.queue) <= QueueMax /\ \A i \in 1 .. Len(w.queue) : w.queue[i] \in Numbers
        /\ \A d \in Conns : SockOK(w.sock[d], d, m)
    BY <1>2, <1>4 DEF EndOK
  <2> QED BY <1>4, <2>1, <2>2, <2>3, <2>4 DEF EndOK
<1> DEFINE k == w.sock[c]
           l == [k EXCEPT !.batch = Append(@, p)]
<1>6. k \in Socket /\ SockOK(k, c, m) /\ k.st \notin Unused
  BY <1>1, <1>2, <1>4, <1>5, EndTypes, ZenonT(30) DEF EndOK, WireOK, SockOK, Unused
<1>7. p \in Nat /\ k.batch \in Seq(Nat)
  BY <1>6, SockTypes DEF Numbers
<1>8. /\ l \in Socket /\ l.st = k.st /\ l.ev = k.ev /\ l.eof = k.eof /\ l.fin = k.fin
      /\ l.grace = k.grace /\ l.out = k.out /\ l.batch = Append(k.batch, p)
  <2>1. Append(k.batch, p) \in Seq(Nat)
    BY <1>7
  <2> QED BY <1>6, <2>1 DEF Socket
<1>9. [w EXCEPT !.sock[c].batch = Append(@, p)] = [w EXCEPT !.sock[c] = l]
  OBVIOUS
<1> HIDE DEF l
<1>10. SockOK(l, c, m)
  <2>1. \A i \in 1 .. Len(l.batch) : l.batch[i] \in Numbers
    BY <1>6, <1>7, <1>8, AppendIn DEF SockOK
  <2> QED BY <1>6, <1>8, <2>1 DEF SockOK
<1>11. w.busy # 0 /\ w.ep = c => l.st = "open" /\ l.ev = {} /\ ~l.fin /\ ~l.eof /\ ~l.grace
  <2>1. w.busy # 0 /\ w.ep = c => k.st = "open" /\ k.ev = {} /\ ~k.fin /\ ~k.eof /\ ~k.grace
    BY <1>1, <1>5, BusyFree
  <2> QED BY <1>8, <2>1
<1> DEFINE t == [w EXCEPT !.sock[c] = l]
<1>12. EndOK(e, t, m)
  BY <1>1, <1>5, <1>8, <1>10, <1>11, SockStep
<1>13. /\ OnlySock(w, t) /\ t.sock[c] = l
       /\ \A d \in Conns : d # c => t.sock[d] = w.sock[d]
  BY <1>1, <1>4, <1>8, PutSock, ZenonT(30)
<1>14. SendOnWire(s, e, p) = IF Len(t.sock[c].batch) >= MaxBatch THEN Flush(t, c) ELSE t
  BY <1>3, <1>9
<1> HIDE DEF t, k
<1>15. Batched(s, t, c, p)
  BY <1>2, <1>4, <1>8, <1>13 DEF Batched, OnlySock, k
<1> QED BY <1>12, <1>14, <1>15

\* rearmTcpClientWire
LEMMA RearmOK ==
  ASSUME NEW m \in 0 .. MaxConns, NEW s, EndOK("client", s, m), CanRearm(s)
  PROVE  EndOK("client", Rearm(s), m) /\ Quiet(s, Rearm(s)) /\ Rearm(s).armed /\ Rearm(s).queue = << >>
<1> DEFINE t == [s EXCEPT !.drain = 0, !.wired = s.ep, !.armed = TRUE]
<1>1. /\ s \in EndRec /\ WireOK(s) /\ ClientOK(s, m) /\ s.ep \in Nat /\ s.ep # 0 /\ s.sock[s.ep].st = "open"
      /\ "client" \in Ends
  BY EndTypes DEF EndOK, CanRearm, Live, Ends
<1>2. s.queue = << >> /\ ~s.connecting
  BY <1>1 DEF ClientOK, CanRearm
<1>3. /\ t \in EndRec /\ t.sock = s.sock /\ t.busy = s.busy /\ t.active = s.active /\ t.tun = s.tun
      /\ t.framer = s.framer /\ t.connecting = s.connecting /\ t.queue = s.queue /\ t.drain = 0
      /\ t.ep = s.ep /\ t.armed = TRUE /\ t.wired = s.ep /\ t.writer = s.writer
  BY <1>1 DEF EndRec
<1>4. Rearm(s) = BumpActivity(t, "client")
  BY DEF Rearm
<1> HIDE DEF t
<1>5. WireOK(t)
  BY <1>1, <1>3 DEF WireOK
<1>6. ClientOK(t, m)
  BY <1>1, <1>2, <1>3 DEF ClientOK
<1>7. /\ t.ep <= m /\ t.wired <= m /\ t.drain <= m /\ t.writer <= m /\ t.busy <= m /\ t.active <= m
      /\ Len(t.queue) <= QueueMax /\ \A i \in 1 .. Len(t.queue) : t.queue[i] \in Numbers
      /\ \A d \in Conns : SockOK(t.sock[d], d, m)
  BY <1>3 DEF EndOK
<1>8. EndOK("client", t, m)
  BY <1>3, <1>5, <1>6, <1>7 DEF EndOK
<1>9. Quiet(s, t)
  BY <1>3 DEF Quiet, QuietSock
<1>10. /\ EndOK("client", BumpActivity(t, "client"), m) /\ Quiet(t, BumpActivity(t, "client"))
       /\ BumpActivity(t, "client").armed = t.armed /\ BumpActivity(t, "client").queue = t.queue
  BY <1>1, <1>8, BumpOK
<1> QED BY <1>2, <1>3, <1>4, <1>9, <1>10, QuietTrans

\* tcpClientIdleDisarm
LEMMA DisarmOK ==
  ASSUME NEW m \in 0 .. MaxConns, NEW s, EndOK("client", s, m)
  PROVE  EndOK("client", ClientIdleDisarm(s), m) /\ Quiet(s, ClientIdleDisarm(s))
<1>1. CASE ~s.armed /\ s.ep = 0
  BY <1>1, QuietSelf DEF ClientIdleDisarm
<1>2. CASE ~(~s.armed /\ s.ep = 0)
  <2> DEFINE d == IF Live(s, s.ep) THEN s.ep ELSE s.drain
             t == [s EXCEPT !.wired = 0, !.armed = FALSE, !.queue = << >>, !.cooling = Cooldown,
                            !.drain = IF Live(s, s.ep) THEN s.ep ELSE @]
  <2>1. s \in EndRec /\ WireOK(s) /\ ClientOK(s, m) /\ s.ep \in Nat /\ s.drain \in Nat
    BY EndTypes DEF EndOK
  <2>2. /\ t \in EndRec /\ t.sock = s.sock /\ t.busy = s.busy /\ t.active = s.active /\ t.tun = s.tun
        /\ t.framer = s.framer /\ t.connecting = s.connecting /\ t.queue = << >> /\ t.drain = d
        /\ t.ep = s.ep /\ ~t.armed /\ t.wired = 0 /\ t.writer = s.writer
    BY <2>1, EmptySeqs, BoundsAssumption DEF EndRec
  <2>3. ClientIdleDisarm(s) = t
    BY <1>2 DEF ClientIdleDisarm
  <2> HIDE DEF t
  <2>4. WireOK(t)
    BY <2>1, <2>2 DEF WireOK
  <2>5. ClientOK(t, m)
    BY <2>1, <2>2 DEF ClientOK, Live
  <2>6. /\ t.ep <= m /\ t.wired <= m /\ t.drain <= m /\ t.writer <= m /\ t.busy <= m /\ t.active <= m
        /\ Len(t.queue) <= QueueMax /\ \A i \in 1 .. Len(t.queue) : t.queue[i] \in Numbers
        /\ \A c \in Conns : SockOK(t.sock[c], c, m)
    BY <2>2, EmptySeqs, BoundsAssumption DEF EndOK
  <2>7. EndOK("client", t, m)
    BY <2>2, <2>4, <2>5, <2>6 DEF EndOK
  <2>8. Quiet(s, t)
    BY <2>2 DEF Quiet, QuietSock
  <2> QED BY <2>3, <2>7, <2>8
<1> QED BY <1>1, <1>2

\* tcpServerIdleGracefulClose
LEMMA IdleCloseOK ==
  ASSUME NEW m \in 0 .. MaxConns, NEW s, EndOK("exit", s, m)
  PROVE  EndOK("exit", ExitIdleClose(s), m) /\ Quiet(s, ExitIdleClose(s))
<1>0. /\ s \in EndRec /\ WireOK(s) /\ ExitOK(s) /\ s.ep \in 0 .. MaxConns /\ "exit" \in Ends
      /\ s.ep \in Nat
  BY EndTypes, BoundsAssumption DEF EndOK, Ends
<1>1. CASE s.busy # 0
  BY <1>1, QuietSelf DEF ExitIdleClose
<1>2. CASE s.busy = 0
  <2> DEFINE n == IF Live(s, s.ep) THEN s.ep ELSE 0
             t == [s EXCEPT !.wired = 0, !.armed = FALSE, !.queue = << >>, !.ep = 0, !.writer = 0,
                            !.busy = IF Live(s, s.ep) THEN s.ep ELSE 0]
             u == GracefulClose(t, s.ep)
  <2>1. ExitIdleClose(s) = u
    BY <1>2 DEF ExitIdleClose
  <2>2. /\ t \in EndRec /\ t.sock = s.sock /\ t.busy = n /\ t.active = s.active /\ t.tun = s.tun
        /\ t.connecting = s.connecting /\ t.queue = << >> /\ t.drain = s.drain
        /\ t.ep = 0 /\ ~t.armed /\ t.wired = 0 /\ t.writer = 0
    BY <1>0, EmptySeqs DEF EndRec
  <2> HIDE DEF t
  <2>3. /\ u \in EndRec /\ OnlySock(t, u)
        /\ \A d \in Conns : d # s.ep => u.sock[d] = t.sock[d]
        /\ s.ep # 0 => Closes(t.sock[s.ep], u.sock[s.ep])
    BY <1>0, <2>2, GracefulFacts
  <2> HIDE DEF u
  <2>4. \A d \in Conns : \/ u.sock[d] = s.sock[d] /\ (d = s.ep => s.sock[d].st # "open")
                         \/ d = s.ep /\ Closes(s.sock[d], u.sock[d]) /\ s.sock[d].st = "open"
    BY <2>2, <2>3, BoundsAssumption DEF Conns, Closes
  <2>5. \A d \in Conns : SockOK(s.sock[d], d, m) /\ s.sock[d] \in Socket
    BY EndTypes DEF EndOK
  <2>6. \A d \in Conns : SockOK(u.sock[d], d, m) /\ QuietSock(s.sock[d], u.sock[d])
    BY <2>4, <2>5 DEF SockOK, QuietSock, Closes, SameData, Unused
  <2>7. Quiet(s, u)
    BY <2>2, <2>3, <2>6 DEF Quiet, OnlySock
  <2>8. WireOK(u)
    BY <2>2, <2>3 DEF WireOK, OnlySock
  <2>9. BusyOK(u)
    <3> SUFFICES ASSUME u.busy # 0 PROVE BusyOK(u)
      BY DEF BusyOK
    <3>1. u.busy = s.ep /\ s.ep # 0 /\ Live(s, s.ep) /\ s.ep \in Conns /\ s.ep = s.active
      BY <1>0, <2>2, <2>3, LiveConn DEF OnlySock, ExitOK
    <3>2. Closes(s.sock[s.ep], u.sock[s.ep]) /\ s.sock[s.ep].st = "open"
      BY <2>4, <3>1 DEF Live
    <3>3. u.sock[u.busy].ev # {} \/ (u.sock[u.busy].st = "open" /\ u.sock[u.busy].fin)
      BY <3>1, <3>2 DEF Closes
    <3> QED BY <1>0, <2>2, <2>3, <3>1, <3>3 DEF BusyOK, OnlySock
  <2>10. ExitOK(u)
    <3>1. \A d \in Conns : /\ u.sock[d].st = "backlog" => s.sock[d].st = "backlog"
                           /\ s.sock[d].st \in Unused => u.sock[d].st = s.sock[d].st
      BY <2>4 DEF Closes, Unused
    <3> QED BY <1>0, <2>2, <2>3, <2>9, <3>1 DEF ExitOK, OnlySock
  <2>11. /\ u.ep <= m /\ u.wired <= m /\ u.drain <= m /\ u.writer <= m /\ u.busy <= m /\ u.active <= m
         /\ Len(u.queue) <= QueueMax /\ \A i \in 1 .. Len(u.queue) : u.queue[i] \in Numbers
    BY <1>0, <2>2, <2>3, EmptySeqs, BoundsAssumption DEF EndOK, OnlySock
  <2>12. EndOK("exit", u, m)
    BY <2>3, <2>6, <2>8, <2>10, <2>11 DEF EndOK
  <2> QED BY <2>1, <2>7, <2>12
<1> QED BY <1>1, <1>2

-----------------------------------------------------------------------------
(* Events of a socket.                                                     *)

\* A socket may change once the sockets destroyed before it have said so.
LEMMA SettledFree ==
  ASSUME NEW e \in Ends, NEW m \in 0 .. MaxConns, NEW s, EndOK(e, s, m), NEW c \in Conns,
         \A d \in 1 .. c - 1 : s.sock[d].ev = {}
  PROVE  Free(s, c)
<1> SUFFICES ASSUME s.busy # 0, s.ep = c PROVE FALSE
  BY DEF Free
<1>1. c # 0 /\ c \in Nat
  BY BoundsAssumption DEF Conns
<1>2. s.busy < c /\ s.busy \in Conns /\ s.sock[s.busy].ev # {}
  BY <1>1, BusyEp
<1>3. s.busy \in 1 .. c - 1
  BY <1>1, <1>2, BoundsAssumption DEF Conns
<1> QED BY <1>2, <1>3

\* A teardown keeps a close busy, and disarms a bridge without one.
LEMMA TeardownFacts ==
  ASSUME NEW s \in EndRec, NEW reason
  PROVE  LET t == TeardownWire(s, reason) IN t.busy = s.busy /\ (s.busy = 0 => ~t.armed)
<1>1. CASE s.busy # 0
  BY <1>1 DEF TeardownWire
<1>2. CASE s.busy = 0 /\ ~s.armed /\ s.ep = 0 /\ ~s.connecting
  <2>1. TeardownWire(s, reason) = [s EXCEPT !.queue = << >>]
    BY <1>2 DEF TeardownWire
  <2> QED BY <1>2, <2>1 DEF EndRec
<1>3. CASE s.busy = 0 /\ ~(~s.armed /\ s.ep = 0 /\ ~s.connecting)
  <2> DEFINE t == [s EXCEPT !.idle = FALSE, !.wired = 0, !.armed = FALSE, !.queue = << >>,
                            !.ep = 0, !.writer = 0, !.drain = 0]
  <2>1. TeardownWire(s, reason) = IF reason = "peer_close" THEN RespondFin(t, s.ep) ELSE Reset(t, s.ep)
    BY <1>3 DEF TeardownWire
  <2>2. t \in EndRec /\ t.busy = s.busy /\ ~t.armed
    BY EmptySeqs DEF EndRec
  <2> HIDE DEF t
  <2>3. RespondFin(t, s.ep).busy = t.busy /\ RespondFin(t, s.ep).armed = t.armed
    BY <2>2 DEF RespondFin, EndRec
  <2>4. Reset(t, s.ep).busy = t.busy /\ Reset(t, s.ep).armed = t.armed
    BY <2>2 DEF Reset, EndRec
  <2> QED BY <1>3, <2>1, <2>2, <2>3, <2>4
<1> QED BY <1>1, <1>2, <1>3

\* A connection that was made stays one that was made.
LEMMA StaysMade ==
  ASSUME NEW e \in Ends, NEW m \in 0 .. MaxConns, NEW s, EndOK(e, s, m), NEW t, EndOK(e, t, m),
         Quiet(s, t), NEW c \in Conns, s.sock[c].st \in {"open", "gone"}
  PROVE  t.sock[c].st \in {"gone", s.sock[c].st}
<1>1. s.sock[c].st = "none" <=> t.sock[c].st = "none"
  BY DEF EndOK, SockOK
<1>2. t.sock[c].st \in {"none", "backlog", "open", "gone"}
  BY EndTypes, SockTypes DEF EndOK
<1> QED BY <1>1, <1>2 DEF Quiet, QuietSock

\* This side of a socket ends.
LEMMA FinOK ==
  ASSUME NEW e \in Ends, NEW m \in 0 .. MaxConns, NEW s, EndOK(e, s, m), NEW c \in Conns,
         Free(s, c), s.sock[c].st \in {"open", "gone"}
  PROVE  LET t == [s EXCEPT !.sock[c].fin = TRUE] IN EndOK(e, t, m) /\ Quiet(s, t)
<1> DEFINE l == [s.sock[c] EXCEPT !.fin = TRUE]
<1>1. s.sock[c] \in Socket /\ SockOK(s.sock[c], c, m)
  BY EndTypes DEF EndOK
<1>2. /\ l \in Socket /\ l.st = s.sock[c].st /\ l.ev = s.sock[c].ev /\ l.fin
      /\ SameData(s.sock[c], l)
  BY <1>1, SockFin
<1>3. [s EXCEPT !.sock[c].fin = TRUE] = [s EXCEPT !.sock[c] = l]
  OBVIOUS
<1> HIDE DEF l
<1>4. SockOK(l, c, m) /\ QuietSock(s.sock[c], l)
  BY <1>1, <1>2 DEF SockOK, QuietSock, SameData, Unused
<1> QED BY <1>2, <1>3, <1>4, SockStep DEF Free

\* end
LEMMA EndStepOK ==
  ASSUME NEW e \in Ends, NEW m \in 0 .. MaxConns, NEW s, EndOK(e, s, m), NEW c \in Conns,
         Free(s, c), s.sock[c].st = "open"
  PROVE  LET t == [OnEnd([s EXCEPT !.sock[c].eof = TRUE], c) EXCEPT !.sock[c].fin = TRUE]
         IN EndOK(e, t, m) /\ Quiet(s, t)
<1> DEFINE l == [s.sock[c] EXCEPT !.eof = TRUE]
           u == [s EXCEPT !.sock[c] = l]
           v == OnEnd(u, c)
<1>1. s \in EndRec /\ s.sock[c] \in Socket /\ SockOK(s.sock[c], c, m)
  BY EndTypes DEF EndOK
<1>2. /\ l \in Socket /\ l.st = s.sock[c].st /\ l.ev = s.sock[c].ev /\ l.fin = s.sock[c].fin
      /\ SameData(s.sock[c], l)
  BY <1>1, SockEof
<1>3. [s EXCEPT !.sock[c].eof = TRUE] = u
  OBVIOUS
<1> HIDE DEF l
<1>4. SockOK(l, c, m) /\ QuietSock(s.sock[c], l)
  BY <1>1, <1>2 DEF SockOK, QuietSock, SameData, Unused
<1>5. EndOK(e, u, m) /\ Quiet(s, u)
  BY <1>2, <1>4, SockStep DEF Free
<1>6. u \in EndRec /\ OnlySock(s, u) /\ u.sock[c] = l
  BY <1>1, <1>2, PutSock
<1> HIDE DEF u
<1>7. Free(u, c)
  BY <1>6 DEF Free, OnlySock
<1>8. EndOK(e, v, m) /\ Quiet(u, v)
  BY <1>5, TeardownOK, QuietSelf DEF OnEnd
<1>9. Free(v, c)
  <2>1. CASE u.busy # 0
    BY <1>7, <2>1 DEF OnEnd, TeardownWire
  <2>2. CASE u.busy = 0
    BY <1>6, <2>2, TeardownFacts DEF OnEnd, Free
  <2> QED BY <2>1, <2>2
<1> HIDE DEF v
<1>10. v.sock[c].st \in {"open", "gone"}
  <2>1. u.sock[c].st = "open"
    BY <1>2, <1>6
  <2> QED BY <1>5, <1>8, <2>1, StaysMade
<1>11. LET t == [v EXCEPT !.sock[c].fin = TRUE] IN EndOK(e, t, m) /\ Quiet(v, t)
  BY <1>8, <1>9, <1>10, FinOK
<1> QED BY <1>3, <1>5, <1>8, <1>11, QuietTrans DEF v

\* A connection is over: both sides have ended, or the peer's host has reset it.
LEMMA OverOK ==
  ASSUME NEW e \in Ends, NEW m \in 0 .. MaxConns, NEW s, EndOK(e, s, m), NEW c \in Conns,
         Free(s, c), s.sock[c].st = "open", NEW l \in Socket, l.st = "gone", "close" \in l.ev,
         l.fin = s.sock[c].fin, SameData(s.sock[c], l)
  PROVE  LET t == [s EXCEPT !.sock[c] = l] IN
         EndOK(e, t, m) /\ Quiet(s, t) /\ t.sock[c] = l
<1>1. s \in EndRec /\ s.sock[c] \in Socket /\ SockOK(s.sock[c], c, m)
  BY EndTypes DEF EndOK
<1>2. SockOK(l, c, m) /\ QuietSock(s.sock[c], l) /\ l.ev # {}
  BY <1>1 DEF SockOK, QuietSock, SameData, Unused
<1>3. [s EXCEPT !.sock[c] = l].sock[c] = l
  BY <1>1, PutSock, ZenonT(30)
<1> QED BY <1>2, <1>3, SockStep DEF Free

\* The connection is destroyed, with its events to come.
LEMMA GoneOK ==
  ASSUME NEW e \in Ends, NEW m \in 0 .. MaxConns, NEW s, EndOK(e, s, m), NEW c \in Conns,
         Free(s, c), s.sock[c].st = "open", NEW ev, ev = {"close"} \/ ev = {"error", "close"}
  PROVE  LET t == [s EXCEPT !.sock[c] = Gone(@, ev)] IN
         EndOK(e, t, m) /\ Quiet(s, t) /\ t.sock[c].st = "gone"
<1> DEFINE l == Gone(s.sock[c], ev)
<1>1. s.sock[c] \in Socket
  BY EndTypes DEF EndOK
<1>2. ev \in SUBSET {"error", "close"} /\ "close" \in ev
  OBVIOUS
<1>3. /\ l \in Socket /\ l.st = "gone" /\ l.ev = ev /\ l.fin = s.sock[c].fin /\ SameData(s.sock[c], l)
  BY <1>1, <1>2, SockGone
<1>4. [s EXCEPT !.sock[c] = Gone(@, ev)] = [s EXCEPT !.sock[c] = l]
  OBVIOUS
<1> HIDE DEF l
<1> DEFINE t == [s EXCEPT !.sock[c] = l]
<1>5. EndOK(e, t, m) /\ Quiet(s, t) /\ t.sock[c] = l
  BY <1>2, <1>3, OverOK
<1> QED BY <1>3, <1>4, <1>5

\* A process is started again: it has nothing but sockets that are gone.
LEMMA RestartedOK ==
  ASSUME NEW e \in Ends, NEW m \in 0 .. MaxConns, NEW s, EndOK(e, s, m)
  PROVE  EndOK(e, Restarted(e, s), m) /\ Quiet(s, Restarted(e, s))
<1> DEFINE g(c) == IF s.sock[c].st = "none" THEN NoSocket
                   ELSE [NoSocket EXCEPT !.st = "gone", !.fin = s.sock[c].fin, !.out = s.sock[c].out]
           socks == [c \in Conns |-> g(c)]
           t == Restarted(e, s)
<1>1. s \in EndRec /\ s.tun \in Seq(Bytes \X Bytes)
  BY EndTypes DEF EndOK
<1>2. ASSUME NEW c \in Conns
      PROVE  /\ g(c) \in Socket /\ g(c).st = IF s.sock[c].st = "none" THEN "none" ELSE "gone"
             /\ g(c).ev = {} /\ ~g(c).eof /\ ~g(c).grace /\ g(c).batch = << >>
             /\ s.sock[c].st # "none" => g(c).out = s.sock[c].out
             /\ s.sock[c].st = "none" => g(c).out = << >> /\ ~g(c).fin
  <2>1. s.sock[c] \in Socket
    BY <1>1, EndTypes
  <2>2. NoSocket \in Socket
    BY EmptySeqs DEF NoSocket, Socket
  <2>3. s.sock[c].out \in Seq(Bytes) /\ s.sock[c].fin \in BOOLEAN
    BY <2>1, SockTypes
  <2>4. CASE s.sock[c].st = "none"
    BY <2>2, <2>4 DEF NoSocket
  <2>5. CASE s.sock[c].st # "none"
    BY <2>2, <2>3, <2>5, EmptySeqs DEF NoSocket, Socket
  <2> QED BY <2>4, <2>5
<1> HIDE DEF g
<1>3. socks \in [Conns -> Socket]
  BY <1>2
<1>4. t = Idle(socks, e = "client" /\ e \notin keep, s.tun)
  BY DEF Restarted, Start, g
<1> HIDE DEF socks
<1>5. /\ t \in EndRec /\ t.ep = 0 /\ ~t.armed /\ t.wired = 0 /\ t.drain = 0 /\ t.writer = 0
      /\ t.busy = 0 /\ t.active = 0 /\ t.queue = << >> /\ t.sock = socks /\ t.tun = s.tun
      /\ t.connecting => e = "client"
  <2>1. (e = "client" /\ e \notin keep) \in BOOLEAN
    OBVIOUS
  <2> DEFINE b == e = "client" /\ e \notin keep
  <2>2. b \in BOOLEAN /\ (b => e = "client")
    OBVIOUS
  <2> HIDE DEF b
  <2>3. t = Idle(socks, b, s.tun)
    BY <1>4 DEF b
  <2> QED BY <1>1, <1>3, <2>2, <2>3, EmptySeqs DEF Idle, EndRec
<1> HIDE DEF t
<1>6. \A c \in Conns : t.sock[c] = g(c)
  BY <1>5 DEF socks
<1>7. \A c \in Conns : SockOK(s.sock[c], c, m)
  BY DEF EndOK
<1>8. \A c \in Conns : SockOK(t.sock[c], c, m)
  BY <1>2, <1>6, <1>7, EmptySeqs DEF SockOK, Unused
<1>9. \A c \in Conns : QuietSock(s.sock[c], t.sock[c])
  BY <1>2, <1>6, <1>7 DEF SockOK, QuietSock, Unused
<1>10. Quiet(s, t)
  BY <1>5, <1>9 DEF Quiet
<1>11. \A c \in Conns : t.sock[c].st \notin {"backlog", "open"}
  BY <1>2, <1>6
<1>12. WireOK(t)
  BY <1>5 DEF WireOK
<1>13. e = "client" => ClientOK(t, m)
  BY <1>5, <1>11 DEF ClientOK, Live
<1>14. e = "exit" => ExitOK(t)
  BY <1>5, <1>11 DEF ExitOK, BusyOK
<1>15. EndOK(e, t, m)
  BY <1>5, <1>8, <1>12, <1>13, <1>14, EmptySeqs, BoundsAssumption DEF EndOK
<1> QED BY <1>10, <1>15 DEF t

\* error
LEMMA ErrorOK ==
  ASSUME NEW e \in Ends, NEW m \in 0 .. MaxConns, NEW s, EndOK(e, s, m), NEW c \in Conns,
         "error" \in s.sock[c].ev
  PROVE  EndOK(e, OnError(s, e, c), m) /\ Quiet(s, OnError(s, e, c))
<1> DEFINE l == [s.sock[c] EXCEPT !.ev = @ \ {"error"}]
           t == [s EXCEPT !.sock[c] = l]
<1>1. s \in EndRec /\ s.sock[c] \in Socket /\ SockOK(s.sock[c], c, m)
  BY EndTypes DEF EndOK
<1>2. /\ l \in Socket /\ l.st = s.sock[c].st /\ l.ev = s.sock[c].ev \ {"error"} /\ l.eof = s.sock[c].eof
      /\ l.fin = s.sock[c].fin /\ l.grace = s.sock[c].grace /\ SameData(s.sock[c], l)
  BY <1>1, SockErr
<1>3. [s EXCEPT !.sock[c].ev = @ \ {"error"}] = t
  OBVIOUS
<1> HIDE DEF l
<1>4. SockOK(l, c, m) /\ QuietSock(s.sock[c], l) /\ l.ev # {}
  BY <1>1, <1>2 DEF SockOK, QuietSock, SameData
<1>5. Free(s, c)
  BY BusyFree DEF Free
<1>6. EndOK(e, t, m) /\ Quiet(s, t)
  BY <1>2, <1>4, <1>5, SockStep DEF Free
<1>7. OnError(s, e, c) = IF s.wired = c \/ s.drain = c THEN WireFailure(t)
                         ELSE IF e = "client" THEN t ELSE Restarted(e, t)
  BY <1>3 DEF OnError
<1> HIDE DEF t
<1>8. /\ EndOK(e, WireFailure(t), m) /\ Quiet(t, WireFailure(t))
      /\ EndOK(e, Restarted(e, t), m) /\ Quiet(t, Restarted(e, t))
  BY <1>6, WireFailureOK, RestartedOK
<1> QED BY <1>6, <1>7, <1>8, QuietTrans

\* A drain is over; the bridge is armed or has no live endpoint.
LEMMA UndrainOK ==
  ASSUME NEW e \in Ends, NEW m \in 0 .. MaxConns, NEW s, EndOK(e, s, m), s.armed
  PROVE  LET t == [s EXCEPT !.drain = 0] IN
         EndOK(e, t, m) /\ Quiet(s, t) /\ t \in EndRec /\ t.busy = s.busy
<1> DEFINE t == [s EXCEPT !.drain = 0]
<1>1. /\ t \in EndRec /\ t.sock = s.sock /\ t.busy = s.busy /\ t.active = s.active /\ t.tun = s.tun
      /\ t.framer = s.framer /\ t.connecting = s.connecting /\ t.queue = s.queue /\ t.drain = 0
      /\ t.ep = s.ep /\ t.armed = s.armed /\ t.wired = s.wired /\ t.writer = s.writer
  BY DEF EndOK, EndRec
<1> HIDE DEF t
<1>2. EndOK(e, t, m) /\ Quiet(s, t)
  BY <1>1, Cosmetic
<1> QED BY <1>1, <1>2 DEF t

\* close, as heard by the bridge
LEMMA OnCloseOK ==
  ASSUME NEW e \in Ends, NEW m \in 0 .. MaxConns, NEW s, EndOK(e, s, m), NEW c \in Conns,
         s.sock[c].ev # {}
  PROVE  LET t == OnClose(s, c) IN
         EndOK(e, t, m) /\ Quiet(s, t) /\ ~(t.armed /\ t.ep = c)
<1> DEFINE t == [s EXCEPT !.drain = 0]
<1>1. s \in EndRec /\ WireOK(s)
  BY DEF EndOK
<1>2. c # 0 /\ c \in 0 .. MaxConns
  BY BoundsAssumption DEF Conns
<1>3. CASE s.wired = c /\ s.armed
  <2>1. OnClose(s, c) = TeardownWire(t, "peer_close")
    BY <1>3 DEF OnClose
  <2>2. EndOK(e, t, m) /\ Quiet(s, t) /\ t \in EndRec /\ t.busy = s.busy
    BY <1>3, UndrainOK
  <2> HIDE DEF t
  <2>3. s.ep = c
    BY <1>1, <1>3 DEF WireOK
  <2>4. s.busy = 0
    BY <2>3, BusyFree
  <2>5. ~TeardownWire(t, "peer_close").armed
    BY <2>2, <2>4, TeardownFacts
  <2> QED BY <2>1, <2>2, <2>5, TeardownOK, QuietTrans
<1>4. CASE ~(s.wired = c /\ s.armed) /\ c \in {s.wired, s.drain}
  <2>1. OnClose(s, c) = ClearEndpointRef(t, c)
    BY <1>4 DEF OnClose
  <2>2. s.drain = c /\ ~(s.armed /\ s.ep = c)
    BY <1>1, <1>2, <1>4 DEF WireOK
  <2> QED BY <1>2, <2>1, <2>2, ClearRefOK
<1>5. CASE ~(s.wired = c /\ s.armed) /\ c \notin {s.wired, s.drain}
  <2>1. OnClose(s, c) = s
    BY <1>5 DEF OnClose
  <2> QED BY <1>1, <1>5, <2>1, QuietSelf DEF WireOK
<1> QED BY <1>3, <1>4, <1>5

\* A graceful close is over if it was this socket's.
LEMMA BusyEnds ==
  ASSUME NEW e \in Ends, NEW m \in 0 .. MaxConns, NEW s, EndOK(e, s, m), NEW c \in Conns
  PROVE  LET t == [s EXCEPT !.busy = IF @ = c THEN 0 ELSE @] IN
         /\ EndOK(e, t, m) /\ Quiet(s, t) /\ t.busy # c
         /\ t.sock = s.sock /\ t.ep = s.ep /\ t.armed = s.armed
<1>1. s \in EndRec
  BY DEF EndOK
<1>2. CASE s.busy = c
  <2>1. [s EXCEPT !.busy = IF @ = c THEN 0 ELSE @] = [s EXCEPT !.busy = 0]
    BY <1>2
  <2>2. LET t == [s EXCEPT !.busy = 0] IN
        t.busy = 0 /\ t.sock = s.sock /\ t.ep = s.ep /\ t.armed = s.armed
    BY <1>1 DEF EndRec
  <2> QED BY <2>1, <2>2, BusyOff, BoundsAssumption DEF Conns
<1>3. CASE s.busy # c
  <2>1. [s EXCEPT !.busy = IF @ = c THEN 0 ELSE @] = s
    BY <1>1, <1>3 DEF EndRec
  <2> QED BY <1>3, <2>1, QuietSelf
<1> QED BY <1>2, <1>3

\* close
LEMMA CloseOK ==
  ASSUME NEW e \in Ends, NEW m \in 0 .. MaxConns, NEW s, EndOK(e, s, m), NEW c \in Conns,
         s.sock[c].ev = {"close"}
  PROVE  LET t == [OnClose(s, c) EXCEPT !.busy = IF @ = c THEN 0 ELSE @,
                                        !.sock[c] = [@ EXCEPT !.ev = {}, !.grace = FALSE]]
         IN EndOK(e, t, m) /\ Quiet(s, t)
<1> DEFINE t == OnClose(s, c)
           u == [t EXCEPT !.busy = IF @ = c THEN 0 ELSE @]
           l == [u.sock[c] EXCEPT !.ev = {}, !.grace = FALSE]
<1>1. EndOK(e, t, m) /\ Quiet(s, t) /\ ~(t.armed /\ t.ep = c)
  BY OnCloseOK
<1>2. [t EXCEPT !.busy = IF @ = c THEN 0 ELSE @, !.sock[c] = [@ EXCEPT !.ev = {}, !.grace = FALSE]]
      = [u EXCEPT !.sock[c] = l]
  OBVIOUS
<1> HIDE DEF t
<1>3. /\ EndOK(e, u, m) /\ Quiet(t, u) /\ u.busy # c
      /\ u.sock = t.sock /\ u.ep = t.ep /\ u.armed = t.armed
  BY <1>1, BusyEnds
<1> HIDE DEF u
<1>4. u.sock[c] \in Socket /\ SockOK(u.sock[c], c, m)
  BY <1>3, EndTypes DEF EndOK
<1>5. /\ l \in Socket /\ l.st = u.sock[c].st /\ l.ev = {} /\ l.eof = u.sock[c].eof
      /\ l.fin = u.sock[c].fin /\ ~l.grace /\ SameData(u.sock[c], l)
  BY <1>4, SockHeard
<1> HIDE DEF l
<1>6. SockOK(l, c, m) /\ QuietSock(u.sock[c], l)
  BY <1>4, <1>5 DEF SockOK, QuietSock, SameData
<1>7. s.sock[c].st = "gone"
  BY DEF EndOK, SockOK
<1>8. u.sock[c].st = "gone"
  BY <1>1, <1>3, <1>7, StaysMade
<1>9. ~(u.busy # 0 /\ u.ep = c)
  BY <1>3, <1>8, BusyFree
<1>10. EndOK(e, [u EXCEPT !.sock[c] = l], m) /\ Quiet(u, [u EXCEPT !.sock[c] = l])
  BY <1>1, <1>3, <1>5, <1>6, <1>9, SockStep
<1>11. Quiet(s, [u EXCEPT !.sock[c] = l])
  BY <1>1, <1>3, <1>10, QuietTrans
<1> QED BY <1>2, <1>10, <1>11 DEF t

\* The timer of a graceful close
LEMMA GraceOK ==
  ASSUME NEW m \in 0 .. MaxConns, NEW s, EndOK("exit", s, m), NEW c \in Conns, s.sock[c].grace
  PROVE  LET t == [Reset(s, c) EXCEPT !.busy = IF @ = c THEN 0 ELSE @, !.sock[c].grace = FALSE]
         IN EndOK("exit", t, m) /\ Quiet(s, t)
<1> DEFINE t == Reset(s, c)
           u == [t EXCEPT !.busy = IF @ = c THEN 0 ELSE @]
           l == [u.sock[c] EXCEPT !.grace = FALSE]
<1>0. "exit" \in Ends /\ c \in 0 .. MaxConns
  BY BoundsAssumption DEF Ends, Conns
<1>1. Free(s, c)
  BY <1>0, BusyFree DEF Free
<1>2. EndOK("exit", t, m) /\ Quiet(s, t)
  BY <1>0, <1>1, ResetOK
<1>3. [t EXCEPT !.busy = IF @ = c THEN 0 ELSE @, !.sock[c].grace = FALSE] = [u EXCEPT !.sock[c] = l]
  OBVIOUS
<1> HIDE DEF t
<1>4. EndOK("exit", u, m) /\ Quiet(t, u)
  BY <1>0, <1>2, BusyEnds
<1> HIDE DEF u
<1>5. u.sock[c] \in Socket /\ SockOK(u.sock[c], c, m)
  BY <1>4, EndTypes DEF EndOK
<1>6. /\ l \in Socket /\ l.st = u.sock[c].st /\ l.ev = u.sock[c].ev /\ l.eof = u.sock[c].eof
      /\ l.fin = u.sock[c].fin /\ ~l.grace /\ SameData(u.sock[c], l)
  BY <1>5, SockOver
<1> HIDE DEF l
<1>7. SockOK(l, c, m) /\ QuietSock(u.sock[c], l)
  BY <1>5, <1>6 DEF SockOK, QuietSock, SameData
<1>8. u.busy # 0 /\ u.ep = c => l.st = "open" /\ l.ev = {} /\ ~l.fin /\ ~l.eof /\ ~l.grace
  BY <1>0, <1>4, <1>6, BusyFree
<1>9. EndOK("exit", [u EXCEPT !.sock[c] = l], m) /\ Quiet(u, [u EXCEPT !.sock[c] = l])
  BY <1>0, <1>4, <1>6, <1>7, <1>8, SockStep
<1>10. Quiet(s, [u EXCEPT !.sock[c] = l])
  BY <1>2, <1>4, <1>9, QuietTrans
<1> QED BY <1>3, <1>9, <1>10 DEF t

-----------------------------------------------------------------------------
(* New connections.                                                        *)

\* A packet waits for a connection.
Waits(s, t, p) ==
  /\ t.tun = s.tun /\ t.ep \in {0, s.ep} /\ (t.ep # 0 => t.framer = s.framer) /\ t.sock = s.sock
  /\ t.queue = Append(IF Len(s.queue) >= QueueMax THEN Tail(s.queue) ELSE s.queue, p)

\* The queue with room made for one packet.
LEMMA RoomFacts ==
  ASSUME NEW q \in Seq(Nat), Len(q) <= QueueMax,
         NEW r, r = IF Len(q) >= QueueMax THEN Tail(q) ELSE q
  PROVE  /\ r \in Seq(Nat) /\ Len(r) < QueueMax
         /\ \E k \in {0, 1} : \A i \in 1 .. Len(r) : i + k \in 1 .. Len(q) /\ r[i] = q[i + k]
<1>1. CASE Len(q) >= QueueMax
  <2>1. q # << >> /\ Len(q) \in Nat /\ Len(q) > 0
    BY <1>1, BoundsAssumption
  <2>2. r = Tail(q) /\ r \in Seq(Nat) /\ Len(r) = Len(q) - 1
    BY <1>1, <2>1
  <2>3. \A i \in 1 .. Len(r) : i + 1 \in 1 .. Len(q) /\ r[i] = q[i + 1]
    BY <2>1, <2>2
  <2>4. Len(r) < QueueMax
    BY <2>1, <2>2, BoundsAssumption
  <2> QED BY <2>2, <2>3, <2>4
<1>2. CASE ~(Len(q) >= QueueMax)
  <2>1. r = q /\ Len(q) < QueueMax
    BY <1>2, BoundsAssumption
  <2>2. \A i \in 1 .. Len(r) : i + 0 \in 1 .. Len(q) /\ r[i] = q[i + 0]
    BY <2>1
  <2> QED BY <2>1, <2>2
<1> QED BY <1>1, <1>2

\* tunOutbound of a client without a wire
LEMMA EnqueueOK ==
  ASSUME NEW m \in 0 .. MaxConns, NEW s, EndOK("client", s, m), ~s.armed, NEW p \in Numbers
  PROVE  EndOK("client", Enqueue(s, p), m) /\ Waits(s, Enqueue(s, p), p)
<1> DEFINE r == IF Len(s.queue) >= QueueMax THEN Tail(s.queue) ELSE s.queue
           t == IF CanRearm(s) THEN ClearEndpointRef([s EXCEPT !.drain = 0], s.ep) ELSE s
           u == [t EXCEPT !.queue = Append(IF Len(@) >= QueueMax THEN Tail(@) ELSE @, p),
                          !.connecting = TRUE]
<1>1. /\ s \in EndRec /\ "client" \in Ends /\ s.queue \in Seq(Nat) /\ s.ep \in Nat
      /\ Len(s.queue) <= QueueMax /\ p \in Nat /\ s.ep \in 0 .. MaxConns
  <2>1. s \in EndRec /\ s.ep <= m /\ Len(s.queue) <= QueueMax
    BY DEF EndOK
  <2>2. s.ep \in Nat /\ s.queue \in Seq(Nat)
    BY <2>1, EndTypes
  <2>3. p \in Nat
    BY DEF Numbers
  <2>4. s.ep \in 0 .. MaxConns
    BY <2>1, <2>2, InConns
  <2> QED BY <2>1, <2>2, <2>3, <2>4 DEF Ends
<1>2. /\ EndOK("client", t, m) /\ t.queue = s.queue /\ t.sock = s.sock /\ t.tun = s.tun
      /\ t.ep \in {0, s.ep} /\ (t.ep # 0 => t.framer = s.framer) /\ ~t.armed /\ ~Live(t, t.ep)
  <2>1. CASE CanRearm(s)
    <3> DEFINE v == [s EXCEPT !.drain = 0]
               w == [v EXCEPT !.ep = 0, !.writer = 0]
    <3>1. t = ClearEndpointRef(v, s.ep)
      BY <2>1
    <3>2. EndOK("client", t, m)
      BY <1>1, <3>1, ClearRefOK
    <3>3. v \in EndRec /\ v.ep = s.ep /\ v.queue = s.queue /\ v.sock = s.sock /\ v.tun = s.tun /\ v.armed = s.armed
      BY <1>1 DEF EndRec
    <3>4. t = w
      BY <3>1, <3>3 DEF ClearEndpointRef
    <3> HIDE DEF v
    <3>5. w.ep = 0 /\ w.queue = v.queue /\ w.sock = v.sock /\ w.tun = v.tun /\ w.armed = v.armed
      BY <3>3 DEF EndRec
    <3> HIDE DEF t, w
    <3> QED BY <3>2, <3>3, <3>4, <3>5 DEF Live
  <2>2. CASE ~CanRearm(s)
    <3>1. t = s
      BY <2>2
    <3>2. ~Live(s, s.ep)
      BY <2>2 DEF CanRearm, EndOK, ClientOK
    <3> QED BY <3>1, <3>2
  <2> QED BY <2>1, <2>2
<1>3. Enqueue(s, p) = u
  BY DEF Enqueue
<1> HIDE DEF t
<1>4. r \in Seq(Nat) /\ Len(r) < QueueMax /\ \A i \in 1 .. Len(r) : r[i] \in Numbers
  <2>1. \A i \in 1 .. Len(s.queue) : s.queue[i] \in Numbers
    BY DEF EndOK
  <2> HIDE DEF r
  <2>2. r = IF Len(s.queue) >= QueueMax THEN Tail(s.queue) ELSE s.queue
    BY DEF r
  <2>3. r \in Seq(Nat) /\ Len(r) < QueueMax
    BY <1>1, <2>2, RoomFacts, ZenonT(30)
  <2>4. PICK k \in {0, 1} : \A i \in 1 .. Len(r) : i + k \in 1 .. Len(s.queue) /\ r[i] = s.queue[i + k]
    BY <1>1, <2>2, RoomFacts
  <2> QED BY <2>1, <2>3, <2>4
<1>5. t \in EndRec /\ WireOK(t) /\ ClientOK(t, m)
  BY <1>2 DEF EndOK
<1>6. u = [t EXCEPT !.queue = Append(r, p), !.connecting = TRUE]
  BY <1>2
<1> HIDE DEF r, u
<1>7. Append(r, p) \in Seq(Nat) /\ Len(Append(r, p)) <= QueueMax
  BY <1>1, <1>4, BoundsAssumption
<1>8. \A i \in 1 .. Len(Append(r, p)) : Append(r, p)[i] \in Numbers
  BY <1>1, <1>4, AppendIn
<1>9. /\ u \in EndRec /\ u.sock = t.sock /\ u.busy = t.busy /\ u.active = t.active /\ u.tun = t.tun
      /\ u.framer = t.framer /\ u.connecting = TRUE /\ u.queue = Append(r, p) /\ u.drain = t.drain
      /\ u.ep = t.ep /\ u.armed = t.armed /\ u.wired = t.wired /\ u.writer = t.writer
  BY <1>5, <1>6, <1>7 DEF EndRec
<1>10. WireOK(u)
  BY <1>5, <1>9 DEF WireOK
<1>11. ClientOK(u, m)
  BY <1>2, <1>5, <1>9 DEF ClientOK, Live
<1>12. /\ u.ep <= m /\ u.wired <= m /\ u.drain <= m /\ u.writer <= m /\ u.busy <= m /\ u.active <= m
       /\ \A c \in Conns : SockOK(u.sock[c], c, m)
  BY <1>2, <1>9 DEF EndOK
<1>13. EndOK("client", u, m)
  BY <1>7, <1>8, <1>9, <1>10, <1>11, <1>12 DEF EndOK
<1>14. Waits(s, u, p)
  BY <1>2, <1>9 DEF Waits, r
<1> QED BY <1>3, <1>13, <1>14

\* A connection is made, with what waited for it.
Sent(q) == Len(q) - (Len(q) % MaxBatch)
Made(s, t, c) ==
  /\ t.tun = s.tun /\ t.ep = c /\ t.framer = << >> /\ t.queue = << >>
  /\ \A d \in Conns : d # c => t.sock[d] = s.sock[d]
  /\ t.sock[c].st = "open" /\ t.sock[c].out = Framed(SubSeq(s.queue, 1, Sent(s.queue)))
  /\ t.sock[c].batch = SubSeq(s.queue, Sent(s.queue) + 1, Len(s.queue))

\* A part of a queue.
LEMMA PartFacts ==
  ASSUME NEW q \in Seq(Nat), NEW a \in 1 .. Len(q) + 1, NEW b \in 0 .. Len(q), a <= b + 1
  PROVE  /\ SubSeq(q, a, b) \in Seq(Nat) /\ Len(SubSeq(q, a, b)) = b - a + 1
         /\ \A i \in 1 .. b - a + 1 : a + i - 1 \in 1 .. Len(q) /\ SubSeq(q, a, b)[i] = q[a + i - 1]
<1>1. Len(q) \in Nat
  OBVIOUS
<1> QED BY <1>1

\* Whole batches are sent.
LEMMA SentFacts ==
  ASSUME NEW q \in Seq(Nat)
  PROVE  Sent(q) \in 0 .. Len(q) /\ Len(q) - Sent(q) < MaxBatch
BY BoundsAssumption DEF Sent

\* ensureWire, once lazyConnect has resolved
LEMMA ConnectedOK ==
  ASSUME NEW m \in 0 .. MaxConns, m < MaxConns, NEW s, EndOK("client", s, m), s.connecting,
         NEW c, c = m + 1
  PROVE  LET t == Connected([s EXCEPT !.sock[c] = OpenSocket], c) IN
         /\ EndOK("client", t, c) /\ Made(s, t, c) /\ Len(t.sock[c].batch) < MaxBatch
<1> DEFINE q == s.queue
           a == SubSeq(q, 1, Sent(q))
           b == SubSeq(q, Sent(q) + 1, Len(q))
           l == [OpenSocket EXCEPT !.out = Framed(a), !.batch = b]
           v == [s EXCEPT !.sock[c] = OpenSocket]
           w == [v EXCEPT !.drain = 0, !.writer = IF Len(q) = 0 THEN 0 ELSE c, !.ep = c, !.armed = TRUE,
                          !.framer = << >>, !.wired = c, !.queue = << >>, !.connecting = FALSE]
           u == [w EXCEPT !.sock[c] = l]
           t == BumpActivity(u, "client")
<1>1. /\ s \in EndRec /\ "client" \in Ends /\ q \in Seq(Nat) /\ c \in Conns /\ c \in Nat /\ c # 0
      /\ \A i \in 1 .. Len(q) : q[i] \in Numbers
  BY EndTypes, BoundsAssumption DEF EndOK, Ends, Conns
<1>2. OpenSocket \in Socket /\ OpenSocket.st = "open" /\ OpenSocket.ev = {} /\ ~OpenSocket.eof
      /\ ~OpenSocket.fin /\ ~OpenSocket.grace
  BY EmptySeqs DEF OpenSocket, NoSocket, Socket
<1>3. v \in EndRec /\ OnlySock(s, v) /\ v.sock[c] = OpenSocket /\ \A d \in Conns : d # c => v.sock[d] = s.sock[d]
  BY <1>1, <1>2, PutSock
<1>4. Connected(v, c) = t
  <2>1. v.queue = q
    BY <1>3 DEF OnlySock
  <2>2. Connected(v, c) =
          LET n    == Len(q)
              sent == n - (n % MaxBatch)
          IN BumpActivity([v EXCEPT !.drain = 0, !.writer = IF n = 0 THEN 0 ELSE c, !.ep = c, !.armed = TRUE,
                            !.framer = << >>, !.wired = c, !.queue = << >>, !.connecting = FALSE,
                            !.sock[c] = [@ EXCEPT !.out = Framed(SubSeq(q, 1, sent)),
                                                  !.batch = SubSeq(q, sent + 1, n)]], "client")
    BY <2>1 DEF Connected
  <2>3. w.sock[c] = OpenSocket
    BY <1>3 DEF EndRec
  <2> HIDE DEF v
  <2> QED BY <2>2, <2>3, ZenonT(30) DEF Sent
<1> HIDE DEF v
<1>5. /\ w \in EndRec /\ w.sock = v.sock /\ w.busy = v.busy /\ w.active = v.active /\ w.tun = v.tun
      /\ w.framer = << >> /\ w.connecting = FALSE /\ w.queue = << >> /\ w.drain = 0
      /\ w.ep = c /\ w.armed = TRUE /\ w.wired = c /\ w.writer \in {0, c}
  BY <1>1, <1>3, EmptySeqs DEF EndRec
<1> HIDE DEF w
<1>6. Sent(q) \in 0 .. Len(q) /\ Len(q) - Sent(q) < MaxBatch /\ Len(q) \in Nat
  BY <1>1, SentFacts
<1>7. a \in Seq(Nat) /\ \A i \in 1 .. Len(a) : a[i] \in Numbers
  <2>1. 1 \in 1 .. Len(q) + 1 /\ 1 <= Sent(q) + 1
    BY <1>6
  <2>2. /\ a \in Seq(Nat) /\ Len(a) = Sent(q) - 1 + 1
        /\ \A i \in 1 .. Sent(q) - 1 + 1 : 1 + i - 1 \in 1 .. Len(q) /\ a[i] = q[1 + i - 1]
    BY <1>1, <1>6, <2>1, PartFacts
  <2> HIDE DEF a
  <2> QED BY <1>1, <1>6, <2>2
<1>8. b \in Seq(Nat) /\ Len(b) < MaxBatch /\ \A i \in 1 .. Len(b) : b[i] \in Numbers
  <2> DEFINE j == Sent(q) + 1
  <2>1. j \in 1 .. Len(q) + 1 /\ Len(q) \in 0 .. Len(q) /\ j <= Len(q) + 1
    BY <1>6
  <2>2. /\ b \in Seq(Nat) /\ Len(b) = Len(q) - j + 1
        /\ \A i \in 1 .. Len(q) - j + 1 : j + i - 1 \in 1 .. Len(q) /\ b[i] = q[j + i - 1]
    BY <1>1, <2>1, PartFacts
  <2> HIDE DEF b
  <2>3. Len(b) < MaxBatch
    BY <1>6, <2>2, BoundsAssumption, SMTT(30)
  <2> QED BY <1>1, <1>6, <2>2, <2>3
<1> HIDE DEF a, b
<1>9. Framed(a) \in Seq(Bytes)
  BY <1>7, FramedFacts
<1>10. /\ l \in Socket /\ l.st = "open" /\ l.ev = {} /\ l.out = Framed(a) /\ l.batch = b
  BY <1>2, <1>8, <1>9 DEF Socket
<1> HIDE DEF l
<1>11. /\ u \in EndRec /\ OnlySock(w, u) /\ u.sock[c] = l
       /\ \A d \in Conns : d # c => u.sock[d] = w.sock[d]
  BY <1>1, <1>5, <1>10, PutSock
<1> HIDE DEF u
<1>12. \A d \in Conns : d # c => u.sock[d] = s.sock[d]
  BY <1>3, <1>5, <1>11
<1>13. \A d \in Conns : SockOK(u.sock[d], d, c)
  <2>1. SockOK(l, c, c)
    BY <1>1, <1>8, <1>10 DEF SockOK, Unused
  <2>2. ASSUME NEW d \in Conns, d # c PROVE SockOK(s.sock[d], d, c)
    <3>1. SockOK(s.sock[d], d, m)
      BY DEF EndOK
    <3>2. d > m <=> d > c
      BY <2>2, BoundsAssumption DEF Conns
    <3> QED BY <3>1, <3>2 DEF SockOK
  <2> QED BY <1>11, <1>12, <2>1, <2>2
<1>14. /\ u.ep = c /\ u.armed /\ u.wired = c /\ u.writer \in {0, c} /\ u.queue = << >> /\ ~u.connecting
       /\ u.drain = 0 /\ u.busy = s.busy /\ u.active = s.active /\ u.tun = s.tun /\ u.framer = << >>
  BY <1>3, <1>5, <1>11 DEF OnlySock
<1>15. WireOK(u)
  BY <1>1, <1>10, <1>11, <1>14 DEF WireOK
<1>16. ClientOK(u, c)
  <2>1. s.busy = 0 /\ \A d \in Conns : s.sock[d].st # "backlog"
    BY DEF EndOK, ClientOK
  <2> QED BY <1>10, <1>11, <1>12, <1>14, <2>1 DEF ClientOK
<1>17. /\ u.ep <= c /\ u.wired <= c /\ u.drain <= c /\ u.writer <= c /\ u.busy <= c /\ u.active <= c
  BY <1>1, <1>14, EndTypes DEF EndOK
<1>18. EndOK("client", u, c)
  BY <1>11, <1>13, <1>14, <1>15, <1>16, <1>17, EmptySeqs, BoundsAssumption DEF EndOK
<1>19. /\ EndOK("client", t, c) /\ t.sock = u.sock /\ t.tun = u.tun /\ t.ep = u.ep /\ t.framer = u.framer
       /\ t.queue = u.queue
  BY <1>1, <1>18, BumpOK, BoundsAssumption DEF Conns
<1> HIDE DEF t
<1>20. Made(s, t, c)
  BY <1>10, <1>11, <1>12, <1>14, <1>19 DEF Made, a, b
<1> QED BY <1>4, <1>8, <1>10, <1>11, <1>19, <1>20 DEF v

\* The exit has yet to accept a connection.
LEMMA BacklogOK ==
  ASSUME NEW m \in 0 .. MaxConns, m < MaxConns, NEW s, EndOK("exit", s, m), NEW c, c = m + 1
  PROVE  LET t == [s EXCEPT !.sock[c].st = "backlog"] IN
         /\ EndOK("exit", t, c) /\ OnlySock(s, t)
         /\ \A d \in Conns : d # c => t.sock[d] = s.sock[d]
         /\ t.sock[c].st = "backlog" /\ t.sock[c].out = << >> /\ t.sock[c].batch = << >>
<1> DEFINE l == [s.sock[c] EXCEPT !.st = "backlog"]
           t == [s EXCEPT !.sock[c] = l]
<1>1. /\ s \in EndRec /\ c \in Conns /\ c \in Nat /\ c # 0 /\ s.ep \in Nat /\ s.busy \in Nat
      /\ s.active \in Nat /\ s.active <= m /\ s.ep <= m /\ s.busy <= m
  BY EndTypes, BoundsAssumption DEF EndOK, Conns
<1>2. s.sock[c] \in Socket /\ SockOK(s.sock[c], c, m) /\ s.sock[c].st = "none"
  BY <1>1, EndTypes DEF EndOK, SockOK
<1>3. /\ l \in Socket /\ l.st = "backlog" /\ l.ev = s.sock[c].ev /\ l.eof = s.sock[c].eof
      /\ l.fin = s.sock[c].fin /\ l.grace = s.sock[c].grace /\ SameData(s.sock[c], l)
  BY <1>2, SockOpen
<1>4. [s EXCEPT !.sock[c].st = "backlog"] = t
  OBVIOUS
<1> HIDE DEF l
<1>5. /\ t \in EndRec /\ OnlySock(s, t) /\ t.sock[c] = l
      /\ \A d \in Conns : d # c => t.sock[d] = s.sock[d]
  BY <1>1, <1>3, PutSock
<1> HIDE DEF t
<1>6. SockOK(l, c, c) /\ l.out = << >> /\ l.batch = << >>
  BY <1>1, <1>2, <1>3 DEF SockOK, Unused, SameData
<1>7. \A d \in Conns : SockOK(t.sock[d], d, c)
  <2>1. ASSUME NEW d \in Conns, d # c PROVE SockOK(s.sock[d], d, c)
    <3>1. SockOK(s.sock[d], d, m)
      BY DEF EndOK
    <3>2. d > m <=> d > c
      BY <2>1, BoundsAssumption DEF Conns
    <3> QED BY <3>1, <3>2 DEF SockOK
  <2> QED BY <1>5, <1>6, <2>1
<1>8. s.ep # 0 => s.ep \in Conns /\ s.ep # c
  BY <1>1, BoundsAssumption DEF Conns
<1>9. s.busy # 0 => s.busy \in Conns /\ s.busy # c
  BY <1>1, BoundsAssumption DEF Conns
<1>10. WireOK(t)
  BY <1>5, <1>8 DEF EndOK, WireOK, OnlySock
<1>11. BusyOK(t)
  BY <1>5, <1>8, <1>9 DEF EndOK, ExitOK, BusyOK, OnlySock
<1>12. ExitOK(t)
  <2>1. ExitOK(s)
    BY DEF EndOK
  <2>2. \A d \in Conns : t.sock[d].st = "backlog" => d > s.active
    BY <1>1, <1>5, <2>1 DEF ExitOK
  <2>3. \A d \in Conns : d > c => t.sock[d].st = "none"
    BY <1>7 DEF SockOK
  <2>4. \A d, f \in Conns : d < f /\ t.sock[d].st = "backlog" => t.sock[f].st \in Unused
    BY <1>1, <1>3, <1>5, <2>1, <2>3 DEF ExitOK, Unused
  <2>5. \A d \in Conns : s.active # 0 /\ d > s.active => t.sock[d].st \in Unused
    BY <1>3, <1>5, <2>1 DEF ExitOK, Unused
  <2> QED BY <1>5, <1>11, <2>1, <2>2, <2>4, <2>5 DEF ExitOK, OnlySock
<1>13. /\ t.ep <= c /\ t.wired <= c /\ t.drain <= c /\ t.writer <= c /\ t.busy <= c /\ t.active <= c
       /\ Len(t.queue) <= QueueMax /\ \A i \in 1 .. Len(t.queue) : t.queue[i] \in Numbers
  BY <1>1, <1>5, EndTypes, SMTT(30) DEF EndOK, OnlySock
<1>14. EndOK("exit", t, c)
  BY <1>5, <1>7, <1>10, <1>12, <1>13 DEF EndOK
<1> QED BY <1>3, <1>4, <1>5, <1>6, <1>14

\* Accepting a connection: what the exit hears is what it heard of the backlog.
Accepted(s, t, c) ==
  /\ t.tun = s.tun /\ t.ep = c /\ t.framer = << >> /\ t.queue = s.queue
  /\ \A d \in Conns : SameData(s.sock[d], t.sock[d])
  /\ \A d \in Conns : d # c /\ t.sock[d].st \in {"backlog", "open"} => t.sock[d].st = s.sock[d].st

\* startBridge and reconnectWire
LEMMA AcceptOK ==
  ASSUME NEW m \in 0 .. MaxConns, NEW s, EndOK("exit", s, m), NEW c \in Conns,
         s.sock[c].st = "backlog", \A d \in 1 .. c - 1 : s.sock[d].st # "backlog"
  PROVE  LET t == ReconnectWire([CloseEndpoint(s, s.active) EXCEPT !.active = c, !.sock[c].st = "open"], c)
         IN EndOK("exit", t, m) /\ Accepted(s, t, c)
<1> DEFINE s1 == CloseEndpoint(s, s.active)
           a  == [s1 EXCEPT !.active = c]
           l  == [a.sock[c] EXCEPT !.st = "open"]
           s2 == [a EXCEPT !.sock[c] = l]
           w  == [s2 EXCEPT !.wired = c, !.ep = c, !.armed = TRUE, !.writer = 0, !.framer = << >>, !.idle = FALSE]
           s3 == BumpActivity(w, "exit")
           t  == CloseEndpoint(s3, s.ep)
<1>1. /\ s \in EndRec /\ c \in Nat /\ c # 0 /\ s.ep \in 0 .. MaxConns /\ s.active \in 0 .. MaxConns
      /\ ExitOK(s) /\ s.ep \in {0, s.active} /\ s.active < c /\ c <= m
      /\ \A d \in Conns : s.sock[d] \in Socket /\ SockOK(s.sock[d], d, m)
  <2>1. ExitOK(s) /\ s \in EndRec /\ s.ep <= m /\ s.active <= m /\ s.ep \in Nat /\ s.active \in Nat
    BY EndTypes DEF EndOK
  <2>2. \A d \in Conns : s.sock[d] \in Socket /\ SockOK(s.sock[d], d, m)
    BY <2>1, EndTypes DEF EndOK
  <2>3. c \in Nat /\ c # 0
    BY BoundsAssumption DEF Conns
  <2>4. c <= m
    BY <2>2, <2>3 DEF SockOK
  <2>5. s.active < c /\ s.ep \in {0, s.active}
    BY <2>1 DEF ExitOK
  <2>6. s.ep \in 0 .. MaxConns /\ s.active \in 0 .. MaxConns
    BY <2>1, InConns
  <2> QED BY <2>1, <2>2, <2>3, <2>4, <2>5, <2>6
<1>2. /\ s1 \in EndRec /\ OnlySock(s, s1)
      /\ \A d \in Conns : d # s.active => s1.sock[d] = s.sock[d]
      /\ s.active # 0 => Closes(s.sock[s.active], s1.sock[s.active])
  BY <1>1, CloseFacts
<1>3. [s1 EXCEPT !.active = c, !.sock[c].st = "open"] = s2
  OBVIOUS
<1> HIDE DEF s1
<1>4. /\ a \in EndRec /\ a.sock = s1.sock /\ a.busy = s1.busy /\ a.active = c /\ a.tun = s1.tun
      /\ a.connecting = s1.connecting /\ a.queue = s1.queue /\ a.drain = s1.drain /\ a.ep = s1.ep
  BY <1>1, <1>2 DEF EndRec
<1> HIDE DEF a
<1>5. a.sock[c] = s.sock[c]
  BY <1>1, <1>2, <1>4
<1>6. /\ l \in Socket /\ l.st = "open" /\ l.ev = s.sock[c].ev /\ l.eof = s.sock[c].eof
      /\ l.fin = s.sock[c].fin /\ l.grace = s.sock[c].grace /\ SameData(s.sock[c], l)
  <2>1. a.sock[c] \in Socket
    BY <1>1, <1>5
  <2>2. /\ l \in Socket /\ l.st = "open" /\ l.ev = a.sock[c].ev /\ l.eof = a.sock[c].eof
        /\ l.fin = a.sock[c].fin /\ l.grace = a.sock[c].grace /\ SameData(a.sock[c], l)
    BY <2>1, SockOpen
  <2> HIDE DEF l
  <2> QED BY <1>5, <2>2
<1>7. l.ev = {} /\ ~l.fin /\ ~l.eof /\ ~l.grace /\ SockOK(l, c, m)
  BY <1>1, <1>6 DEF SockOK, Unused, SameData
<1> HIDE DEF l
<1>8. /\ s2 \in EndRec /\ OnlySock(a, s2) /\ s2.sock[c] = l
      /\ \A d \in Conns : d # c => s2.sock[d] = a.sock[d]
  BY <1>4, <1>6, PutSock
<1> HIDE DEF s2
<1>9. s2.ep = s.ep
  BY <1>2, <1>4, <1>8 DEF OnlySock
<1>10. ReconnectWire(s2, c) = t
  BY <1>9 DEF ReconnectWire
<1>11. /\ w \in EndRec /\ w.sock = s2.sock /\ w.busy = s2.busy /\ w.active = s2.active /\ w.tun = s2.tun
       /\ w.connecting = s2.connecting /\ w.queue = s2.queue /\ w.drain = s2.drain
       /\ w.ep = c /\ w.armed = TRUE /\ w.wired = c /\ w.writer = 0 /\ w.framer = << >>
  BY <1>1, <1>8, EmptySeqs DEF EndRec
<1> HIDE DEF w
<1>12. /\ s3 \in EndRec /\ s3.sock = w.sock /\ s3.busy = w.busy /\ s3.active = w.active /\ s3.tun = w.tun
       /\ s3.connecting = w.connecting /\ s3.queue = w.queue /\ s3.drain = w.drain
       /\ s3.ep = w.ep /\ s3.armed = w.armed /\ s3.wired = w.wired /\ s3.writer = w.writer
       /\ s3.framer = w.framer
  BY <1>11 DEF BumpActivity, EndRec
<1> HIDE DEF s3
<1>13. /\ t \in EndRec /\ OnlySock(s3, t)
       /\ \A d \in Conns : d # s.ep => t.sock[d] = s3.sock[d]
       /\ s.ep # 0 => Closes(s3.sock[s.ep], t.sock[s.ep])
  BY <1>1, <1>12, CloseFacts
<1> HIDE DEF t
<1>14. /\ t.ep = c /\ t.armed /\ t.wired = c /\ t.writer = 0 /\ t.framer = << >>
       /\ t.busy = s.busy /\ t.active = c /\ t.tun = s.tun /\ t.connecting = s.connecting
       /\ t.queue = s.queue /\ t.drain = s.drain
  BY <1>2, <1>4, <1>8, <1>11, <1>12, <1>13 DEF OnlySock
<1>15. t.sock[c] = l
  BY <1>1, <1>8, <1>11, <1>12, <1>13
<1>16. \A d \in Conns : d # c /\ d # s.active => t.sock[d] = s.sock[d]
  <2>1. \A d \in Conns : d # s.active => d # s.ep
    BY <1>1, BoundsAssumption DEF Conns
  <2> QED BY <1>2, <1>4, <1>8, <1>11, <1>12, <1>13, <2>1
<1>17. s.active # 0 => s.active \in Conns /\ s.active # c
  BY <1>1, BoundsAssumption DEF Conns
<1>18. s.active # 0 =>
         /\ Closes(s.sock[s.active], t.sock[s.active])
         /\ s.ep = s.active => t.sock[s.active].st # "open"
  <2> SUFFICES ASSUME s.active # 0
               PROVE  /\ Closes(s.sock[s.active], t.sock[s.active])
                      /\ s.ep = s.active => t.sock[s.active].st # "open"
    OBVIOUS
  <2> DEFINE j == s.active
  <2>1. Closes(s.sock[j], s1.sock[j]) /\ s3.sock[j] = s1.sock[j]
    BY <1>2, <1>4, <1>8, <1>11, <1>12, <1>17
  <2>2. CASE s.ep = 0
    <3>1. t.sock[j] = s3.sock[j]
      BY <1>13, <1>17, <2>2
    <3> QED BY <2>1, <2>2, <3>1
  <2>3. CASE s.ep # 0
    <3>1. s.ep = j /\ Closes(s1.sock[j], t.sock[j])
      BY <1>1, <1>13, <2>1, <2>3
    <3> QED BY <2>1, <3>1 DEF Closes, SameData
  <2> QED BY <2>2, <2>3
<1>19. \A d \in Conns : \/ d = c /\ t.sock[d] = l
                        \/ d # c /\ t.sock[d] = s.sock[d]
                        \/ d # c /\ Closes(s.sock[d], t.sock[d])
  <2>1. \A d \in Conns : d = s.active => s.active # 0 /\ d # c
    BY <1>17, BoundsAssumption DEF Conns
  <2>2. \A d \in Conns : d = s.active => Closes(s.sock[d], t.sock[d])
    BY <1>18, <2>1
  <2> QED BY <1>15, <1>16, <2>1, <2>2
<1>20. /\ \A d \in Conns : SockOK(t.sock[d], d, m)
       /\ Accepted(s, t, c)
       /\ \A d \in Conns : d # c => /\ t.sock[d].st = "backlog" => s.sock[d].st = "backlog"
                                    /\ s.sock[d].st \in Unused => t.sock[d].st = s.sock[d].st
  <2>1. ASSUME NEW d \in Conns
        PROVE  /\ SockOK(t.sock[d], d, m) /\ SameData(s.sock[d], t.sock[d])
               /\ d # c /\ t.sock[d].st \in {"backlog", "open"} => t.sock[d].st = s.sock[d].st
               /\ d # c /\ s.sock[d].st \in Unused => t.sock[d].st = s.sock[d].st
    <3>1. CASE d = c /\ t.sock[d] = l
      BY <1>6, <1>7, <3>1
    <3>2. CASE d # c /\ t.sock[d] = s.sock[d]
      BY <1>1, <3>2 DEF SameData
    <3>3. CASE d # c /\ Closes(s.sock[d], t.sock[d])
      <4>1. SockOK(s.sock[d], d, m)
        BY <1>1
      <4> QED BY <3>3, <4>1 DEF Closes, SameData, SockOK, Unused
    <3> QED BY <1>19, <3>1, <3>2, <3>3
  <2> QED BY <1>14, <2>1 DEF Accepted
<1>21. WireOK(t)
  BY <1>1, <1>6, <1>14, <1>15 DEF WireOK
<1>22. BusyOK(t)
  <2> SUFFICES ASSUME s.busy # 0 PROVE BusyOK(t)
    BY <1>14 DEF BusyOK
  <2>1. BusyOK(s) /\ s.busy \in Nat /\ s.busy <= s.active /\ s.busy < c /\ s.busy \in Conns
    BY <1>1, EndTypes, BoundsAssumption DEF ExitOK, BusyOK, Conns
  <2>2. t.sock[s.busy].ev # {}
    <3>1. CASE s.sock[s.busy].ev # {}
      <4>1. s.sock[s.busy].st = "gone"
        BY <1>1, <2>1, <3>1 DEF SockOK
      <4>2. t.sock[s.busy] = s.sock[s.busy]
        BY <1>16, <1>18, <2>1, <4>1 DEF Closes
      <4> QED BY <3>1, <4>2
    <3>2. CASE s.sock[s.busy].st = "open" /\ s.sock[s.busy].fin /\ s.busy = s.active
      BY <1>18, <2>1, <3>2 DEF Closes
    <3> QED BY <2>1, <3>1, <3>2 DEF BusyOK
  <2> QED BY <1>1, <1>6, <1>7, <1>14, <1>15, <2>1, <2>2 DEF BusyOK
<1>23. ExitOK(t)
  <2>1. /\ \A d \in Conns : t.sock[d].st = "backlog" => s.sock[d].st = "backlog" /\ d # c
        /\ \A d \in Conns : d > c /\ s.sock[d].st \in Unused => t.sock[d].st = s.sock[d].st
    BY <1>1, <1>6, <1>15, <1>20
  <2>2. \A d \in Conns : s.sock[d].st = "backlog" /\ d # c => d > c
    <3>1. \A d \in Conns : d \in 1 .. c - 1 \/ d >= c
      BY <1>1, BoundsAssumption DEF Conns
    <3> QED BY <1>1, <3>1, BoundsAssumption DEF Conns
  <2>3. \A d \in Conns : d > c => s.sock[d].st \in Unused
    BY <1>1 DEF ExitOK
  <2>4. \A d \in Conns : t.sock[d].st = "backlog" => d > c
    BY <2>1, <2>2
  <2>5. \A d \in Conns : d > c => t.sock[d].st \in Unused
    BY <2>1, <2>3 DEF Unused
  <2>6. \A d, f \in Conns : d < f /\ t.sock[d].st = "backlog" => f > c
    BY <1>1, <2>4, BoundsAssumption DEF Conns
  <2> QED BY <1>1, <1>14, <1>22, <2>4, <2>5, <2>6 DEF ExitOK
<1>24. /\ t.ep <= m /\ t.wired <= m /\ t.drain <= m /\ t.writer <= m /\ t.busy <= m /\ t.active <= m
       /\ Len(t.queue) <= QueueMax /\ \A i \in 1 .. Len(t.queue) : t.queue[i] \in Numbers
  BY <1>1, <1>14 DEF EndOK
<1>25. EndOK("exit", t, m)
  BY <1>13, <1>20, <1>21, <1>23, <1>24 DEF EndOK
<1> QED BY <1>3, <1>10, <1>20, <1>25 DEF s1, t

-----------------------------------------------------------------------------
(* Whole frames.                                                           *)

\* The number of a packet.
LEMMA ByteTypes ==
  ASSUME NEW b \in Bytes
  PROVE  b.pkt \in Nat /\ b.pkt \in Numbers /\ b.part \in {1, 2} /\ b = [pkt |-> b.pkt, part |-> b.part]
<1>1. MaxPackets["client"] \in Nat /\ MaxPackets["exit"] \in Nat
  BY BoundsAssumption DEF Ends
<1> QED BY <1>1 DEF Bytes, Numbers

\* Positions in whole frames.
LEMMA EvenSum ==
  ASSUME NEW a \in Nat, NEW b \in Nat, a % 2 = 0, b % 2 = 0
  PROVE  (a + b) % 2 = 0
OBVIOUS

LEMMA EvenNext ==
  ASSUME NEW a \in Nat, a % 2 = 0, NEW i \in 1 .. a, i % 2 = 1
  PROVE  i + 1 \in 1 .. a
OBVIOUS

LEMMA EvenShift ==
  ASSUME NEW a \in Nat, a % 2 = 0, NEW i \in Int
  PROVE  (i + a) % 2 = i % 2 /\ (i - a) % 2 = i % 2
OBVIOUS

LEMMA OfSum ==
  ASSUME NEW a \in Nat, NEW b \in Nat, NEW i \in 1 .. a + b, i \notin 1 .. a
  PROVE  i - a \in 1 .. b /\ i = a + (i - a)
OBVIOUS

\* z is x and then y.
Joined(x, y, z) ==
  /\ Len(z) = Len(x) + Len(y) /\ \A i \in 1 .. Len(x) : z[i] = x[i]
  /\ \A i \in 1 .. Len(y) : z[Len(x) + i] = y[i]
Before(x, y) == \A i \in 1 .. Len(x), j \in 1 .. Len(y) : x[i].pkt < y[j].pkt

\* Whole frames have an even length.
LEMMA AlignedLen ==
  ASSUME NEW x \in Seq(Bytes), Aligned(x)
  PROVE  Len(x) \in Nat /\ Len(x) % 2 = 0
<1>1. Len(x) \in Nat
  OBVIOUS
<1> QED BY <1>1 DEF Aligned

\* Frames follow frames.
LEMMA AlignedAfter ==
  ASSUME NEW x \in Seq(Bytes), NEW y \in Seq(Bytes), NEW z \in Seq(Bytes), Aligned(x), Aligned(y),
         Joined(x, y, z), Before(x, y)
  PROVE  Aligned(z)
<1>1. /\ Len(x) \in Nat /\ Len(y) \in Nat /\ Len(x) % 2 = 0 /\ Len(y) % 2 = 0
      /\ Len(z) = Len(x) + Len(y)
  BY AlignedLen DEF Joined
<1>2. Len(z) % 2 = 0
  BY <1>1, EvenSum
<1>3. ASSUME NEW i \in 1 .. Len(z), i \notin 1 .. Len(x)
      PROVE  i - Len(x) \in 1 .. Len(y) /\ z[i] = y[i - Len(x)] /\ i = Len(x) + (i - Len(x))
  <2>1. i - Len(x) \in 1 .. Len(y) /\ i = Len(x) + (i - Len(x))
    BY <1>1, <1>3, OfSum
  <2> QED BY <2>1 DEF Joined
<1>4. ASSUME NEW i \in 1 .. Len(z)
      PROVE  z[i].part = 2 - (i % 2) /\ (i % 2 = 1 => z[i + 1].pkt = z[i].pkt)
  <2>1. CASE i \in 1 .. Len(x)
    <3>1. i % 2 = 1 => i + 1 \in 1 .. Len(x)
      BY <1>1, <2>1, EvenNext
    <3> QED BY <2>1, <3>1 DEF Aligned, Joined
  <2>2. CASE i \notin 1 .. Len(x)
    <3> DEFINE j == i - Len(x)
    <3>0. j \in 1 .. Len(y) /\ z[i] = y[j] /\ i = Len(x) + j
      BY <1>3, <2>2
    <3>1. i % 2 = j % 2 /\ (j % 2 = 1 => j + 1 \in 1 .. Len(y)) /\ i + 1 = Len(x) + (j + 1)
      <4>0. i \in Int
        OBVIOUS
      <4>1. (i - Len(x)) % 2 = i % 2
        BY <1>1, <4>0, EvenShift
      <4>2. j % 2 = 1 => j + 1 \in 1 .. Len(y)
        BY <1>1, <3>0, EvenNext
      <4>3. i + 1 = Len(x) + (j + 1)
        BY <1>1
      <4> QED BY <4>1, <4>2, <4>3
    <3> HIDE DEF j
    <3>2. y[j].part = 2 - (j % 2) /\ (j % 2 = 1 => y[j + 1].pkt = y[j].pkt)
      BY <3>0 DEF Aligned
    <3>3. j % 2 = 1 => z[Len(x) + (j + 1)] = y[j + 1]
      BY <3>1 DEF Joined
    <3> QED BY <3>0, <3>1, <3>2, <3>3
  <2> QED BY <2>1, <2>2
<1>5. ASSUME NEW i \in 1 .. Len(z), NEW j \in 1 .. Len(z), i < j
      PROVE  z[i].pkt < z[j].pkt \/ (i % 2 = 1 /\ j = i + 1)
  <2>1. CASE j \in 1 .. Len(x)
    <3>1. i \in 1 .. Len(x)
      BY <1>1, <1>5, <2>1
    <3> QED BY <1>5, <2>1, <3>1 DEF Aligned, Joined
  <2>2. CASE i \in 1 .. Len(x) /\ j \notin 1 .. Len(x)
    BY <1>3, <2>2 DEF Joined, Before
  <2>3. CASE i \notin 1 .. Len(x) /\ j \notin 1 .. Len(x)
    <3> DEFINE g == i - Len(x)
               h == j - Len(x)
    <3>1. g \in 1 .. Len(y) /\ h \in 1 .. Len(y) /\ z[i] = y[g] /\ z[j] = y[h]
      BY <1>3, <2>3
    <3>2. g % 2 = i % 2
      BY <1>1, EvenShift, SMTT(30)
    <3>3. g < h /\ (h = g + 1 => j = i + 1)
      BY <1>1, <1>5
    <3> HIDE DEF g, h
    <3>4. y[g].pkt < y[h].pkt \/ (g % 2 = 1 /\ h = g + 1)
      BY <3>1, <3>3 DEF Aligned
    <3> QED BY <3>1, <3>2, <3>3, <3>4
  <2> QED BY <2>1, <2>2, <2>3
<1> QED BY <1>2, <1>4, <1>5 DEF Aligned

\* z is what is left of x after its first k.
Rest(x, k, z) ==
  /\ Len(z) = Len(x) - k
  /\ \A i \in 1 .. Len(z) : i + k \in 1 .. Len(x) /\ z[i] = x[i + k]

\* What is left after whole frames are whole frames.
LEMMA AlignedRest ==
  ASSUME NEW x \in Seq(Bytes), Aligned(x), NEW z \in Seq(Bytes), NEW k \in Nat, k % 2 = 0,
         Rest(x, k, z)
  PROVE  Aligned(z)
<1>1. Len(x) \in Nat /\ Len(z) \in Nat /\ Len(x) % 2 = 0 /\ Len(z) = Len(x) - k
  <2>1. Len(x) \in Nat /\ Len(x) % 2 = 0 /\ Len(z) \in Nat
    BY AlignedLen
  <2> QED BY <2>1 DEF Rest
<1>2. Len(z) % 2 = 0
  BY <1>1, EvenShift
<1>3. ASSUME NEW i \in 1 .. Len(z)
      PROVE  /\ i + k \in 1 .. Len(x) /\ (i + k) % 2 = i % 2 /\ z[i] = x[i + k]
             /\ i % 2 = 1 => i + 1 \in 1 .. Len(z)
  <2>1. i + k \in 1 .. Len(x) /\ z[i] = x[i + k]
    BY DEF Rest
  <2>2. (i + k) % 2 = i % 2
    BY EvenShift
  <2>3. i % 2 = 1 => i + 1 \in 1 .. Len(z)
    BY <1>1, <1>2, EvenNext
  <2> QED BY <2>1, <2>2, <2>3
<1>4. ASSUME NEW i \in 1 .. Len(z)
      PROVE  z[i].part = 2 - (i % 2) /\ (i % 2 = 1 => z[i + 1].pkt = z[i].pkt)
  <2>1. i % 2 = 1 => z[i + 1] = x[(i + k) + 1]
    <3> SUFFICES ASSUME i % 2 = 1 PROVE z[i + 1] = x[(i + k) + 1]
      OBVIOUS
    <3>1. z[i + 1] = x[(i + 1) + k]
      BY <1>3
    <3>2. (i + 1) + k = (i + k) + 1
      OBVIOUS
    <3> QED BY <3>1, <3>2
  <2>2. x[i + k].part = 2 - ((i + k) % 2)
        /\ ((i + k) % 2 = 1 => x[(i + k) + 1].pkt = x[i + k].pkt)
    BY <1>3 DEF Aligned
  <2> QED BY <1>3, <2>1, <2>2
<1>5. ASSUME NEW i \in 1 .. Len(z), NEW j \in 1 .. Len(z), i < j
      PROVE  z[i].pkt < z[j].pkt \/ (i % 2 = 1 /\ j = i + 1)
  <2> DEFINE g == i + k
             h == j + k
  <2>1. g \in 1 .. Len(x) /\ h \in 1 .. Len(x) /\ z[i] = x[g] /\ z[j] = x[h] /\ g % 2 = i % 2
    BY <1>3
  <2>2. g < h /\ (h = g + 1 => j = i + 1)
    BY <1>5
  <2> HIDE DEF g, h
  <2>3. x[g].pkt < x[h].pkt \/ (g % 2 = 1 /\ h = g + 1)
    BY <2>1, <2>2 DEF Aligned
  <2> QED BY <2>1, <2>2, <2>3
<1> QED BY <1>2, <1>4, <1>5 DEF Aligned

\* The positions of two bytes, and of their packets.
LEMMA Halves ==
  ASSUME NEW i \in Nat \ {0}, NEW j \in Nat \ {0}, i < j
  PROVE  (i + 1) \div 2 < (j + 1) \div 2 \/ (i % 2 = 1 /\ j = i + 1)
OBVIOUS

\* The frames of packets in order.
LEMMA AlignedFrames ==
  ASSUME NEW q \in Seq(Nat), \A i \in 1 .. Len(q) : q[i] \in Numbers, Increasing(q)
  PROVE  Aligned(Framed(q))
<1> DEFINE z == Framed(q)
<1>0. Len(q) \in Nat
  OBVIOUS
<1>1. /\ z \in Seq(Bytes) /\ Len(z) = 2 * Len(q)
      /\ \A i \in 1 .. 2 * Len(q) : /\ (i + 1) \div 2 \in 1 .. Len(q)
                                    /\ z[i].pkt = q[(i + 1) \div 2] /\ z[i].part = 2 - (i % 2)
  BY FramedFacts
<1> HIDE DEF z
<1>2. Len(z) % 2 = 0
  BY <1>0, <1>1
<1>3. ASSUME NEW i \in 1 .. Len(z), i % 2 = 1 PROVE z[i + 1].pkt = z[i].pkt
  <2>1. i + 1 \in 1 .. Len(z) /\ ((i + 1) + 1) \div 2 = (i + 1) \div 2
    BY <1>0, <1>1, <1>3
  <2> QED BY <1>1, <2>1
<1>4. ASSUME NEW i \in 1 .. Len(z), NEW j \in 1 .. Len(z), i < j
      PROVE  z[i].pkt < z[j].pkt \/ (i % 2 = 1 /\ j = i + 1)
  <2>1. (i + 1) \div 2 < (j + 1) \div 2 \/ (i % 2 = 1 /\ j = i + 1)
    BY <1>4, Halves
  <2>2. (i + 1) \div 2 < (j + 1) \div 2 => q[(i + 1) \div 2] < q[(j + 1) \div 2]
    BY <1>1 DEF Increasing
  <2> QED BY <1>1, <2>1, <2>2
<1>5. Aligned(z)
  BY <1>1, <1>2, <1>3, <1>4 DEF Aligned
<1> QED BY <1>5 DEF z

\* A connection without bytes.
LEMMA AlignedNone == Aligned(<< >>)
BY DEF Aligned

-----------------------------------------------------------------------------
(* What keeps the order.                                                   *)

\* The packets of a socket that loses its batch, or some of what its peer has read.
Fewer(k, l) ==
  /\ l.batch \in {k.batch, << >>}
  /\ \E i \in 0 .. Len(k.out) : /\ Len(l.out) = Len(k.out) - i
                                /\ \A j \in 1 .. Len(l.out) : l.out[j] = k.out[i + j]

\* Fewer packets are in the same order.
LEMMA FewerFacts ==
  ASSUME NEW k \in Socket, NEW l \in Socket, Fewer(k, l)
  PROVE  Pkts(l) \subseteq Pkts(k) /\ (SockInOrder(k) => SockInOrder(l))
<1>1. k.out \in Seq(Bytes) /\ l.out \in Seq(Bytes) /\ Len(k.out) \in Nat /\ Len(l.out) \in Nat
  BY SockTypes
<1>2. PICK i \in 0 .. Len(k.out) : /\ Len(l.out) = Len(k.out) - i
                                   /\ \A j \in 1 .. Len(l.out) : l.out[j] = k.out[i + j]
  BY DEF Fewer
<1>3. \A j \in 1 .. Len(l.out) : i + j \in 1 .. Len(k.out) /\ l.out[j] = k.out[i + j]
  BY <1>1, <1>2
<1>4. CASE l.batch = k.batch
  BY <1>3, <1>4, ZenonT(30) DEF Pkts, SockInOrder, Increasing
<1>5. CASE l.batch = << >>
  BY <1>3, <1>5, SMTT(60) DEF Pkts, SockInOrder, Increasing
<1> QED BY <1>4, <1>5 DEF Fewer

\* The sender sends less, in the same order.
Less(f, g) ==
  /\ g.queue \in {f.queue, << >>}
  /\ \A c \in Conns : /\ Pkts(g.sock[c]) \subseteq Pkts(f.sock[c])
                      /\ SockInOrder(f.sock[c]) => SockInOrder(g.sock[c])

\* What is sent stays in order, and so does what will be read.
LEMMA LessSent ==
  ASSUME NEW f, NEW g, NEW n, SentInOrder(f, n), Less(f, g)
  PROVE  SentInOrder(g, n)
<1>1. \A c \in Conns : SockInOrder(g.sock[c]) /\ \A p \in Pkts(g.sock[c]) : p <= n
  BY DEF SentInOrder, Less
<1>2. \A c, d \in Conns : c < d => \A p \in Pkts(g.sock[c]), q \in Pkts(g.sock[d]) : p < q
  BY DEF SentInOrder, Less
<1>3. CASE g.queue = f.queue
  BY <1>1, <1>2, <1>3 DEF SentInOrder, Less
<1>4. CASE g.queue = << >>
  BY <1>1, <1>2, <1>4 DEF SentInOrder, Increasing
<1> QED BY <1>3, <1>4 DEF Less

LEMMA LessRead ==
  ASSUME NEW s, NEW f, NEW g, NEW n, ReadInOrder(s, f, n), Less(f, g),
         \A c \in Conns : Hears(s, c) => Aligned(Stream(s, g, c))
  PROVE  ReadInOrder(s, g, n)
<1>1. \A w \in Written(s) : w <= n /\ \A j \in 1 .. Len(g.queue) : w < g.queue[j]
  <2>1. CASE g.queue = f.queue
    BY <2>1 DEF ReadInOrder
  <2>2. CASE g.queue = << >>
    BY <2>2 DEF ReadInOrder
  <2> QED BY <2>1, <2>2 DEF Less
<1>2. \A c \in Conns : Hears(s, c) =>
        /\ \A w \in Written(s), p \in Pkts(g.sock[c]) : w < p
        /\ Aligned(Stream(s, g, c)) /\ Len(Begun(s, c)) <= 1
  BY DEF ReadInOrder, Less
<1> QED BY <1>1, <1>2 DEF ReadInOrder

\* The reader hears less.
Listens(s, t) ==
  /\ t.tun = s.tun
  /\ \A c \in Conns : Hears(t, c) => Hears(s, c) /\ Begun(t, c) = Begun(s, c)

\* A reader that hears less reads in order.
LEMMA ListensFlow ==
  ASSUME NEW s, NEW t, NEW f, NEW n, Flow(s, f, n), Listens(s, t)
  PROVE  Flow(t, f, n)
<1>1. Written(t) = Written(s) /\ TunInOrder(t)
  BY DEF Listens, Written, Flow, TunInOrder
<1>2. \A c \in Conns : Hears(t, c) => Stream(t, f, c) = Stream(s, f, c)
  BY DEF Listens, Stream
<1>3. ReadInOrder(t, f, n)
  BY <1>1, <1>2 DEF Flow, ReadInOrder, Listens
<1> QED BY <1>1, <1>3 DEF Flow

\* The sender keeps what it has sent.
LEMMA LessFlow ==
  ASSUME NEW s, NEW f, NEW g, NEW n, Flow(s, f, n), Less(f, g),
         \A c \in Conns : Hears(s, c) => Aligned(Stream(s, g, c))
  PROVE  Flow(s, g, n)
BY LessSent, LessRead DEF Flow

\* More packets have been read.
LEMMA MoreFlow ==
  ASSUME NEW s, NEW f, NEW n \in Nat, Flow(s, f, n), s \in EndRec, f \in EndRec
  PROVE  Flow(s, f, n + 1)
<1>1. \A c \in Conns : \A p \in Pkts(f.sock[c]) : p \in Nat
  BY EndTypes, SockTypes, ByteTypes, SMTT(30) DEF Pkts
<1>2. \A w \in Written(s) : w \in Nat
  <2>1. \A i \in 1 .. Len(s.tun) : s.tun[i] \in Bytes \X Bytes
    BY EndTypes
  <2> QED BY <2>1, ByteTypes DEF Written
<1>3. \A i \in 1 .. Len(f.queue) : f.queue[i] \in Nat
  BY EndTypes
<1>4. SentInOrder(f, n + 1)
  <2>0. SentInOrder(f, n)
    BY DEF Flow
  <2>1. \A c \in Conns : \A p \in Pkts(f.sock[c]) : p <= n + 1
    BY <1>1, <2>0, SMTT(30) DEF SentInOrder
  <2>2. \A i \in 1 .. Len(f.queue) : f.queue[i] <= n + 1
    BY <1>3, <2>0 DEF SentInOrder
  <2> QED BY <2>0, <2>1, <2>2 DEF SentInOrder
<1>5. ReadInOrder(s, f, n + 1)
  BY <1>2 DEF Flow, ReadInOrder
<1> QED BY <1>4, <1>5 DEF Flow

\* The endpoint is not in the backlog.
LEMMA EpNotBacklog ==
  ASSUME NEW e \in Ends, NEW m \in 0 .. MaxConns, NEW s, EndOK(e, s, m), NEW c \in Conns, s.ep = c
  PROVE  s.sock[c].st # "backlog"
<1>1. c # 0 /\ c \in Nat
  BY BoundsAssumption DEF Conns
<1>2. CASE e = "client"
  BY <1>2 DEF EndOK, ClientOK
<1>3. CASE e = "exit"
  BY <1>1, <1>3 DEF EndOK, ExitOK
<1> QED BY <1>2, <1>3 DEF Ends

\* A quiet end hears less and sends less.
LEMMA QuietListens ==
  ASSUME NEW e \in Ends, NEW m \in 0 .. MaxConns, NEW s, EndOK(e, s, m), NEW t, Quiet(s, t)
  PROVE  Listens(s, t)
<1>1. ASSUME NEW c \in Conns, Hears(t, c)
      PROVE  Hears(s, c) /\ Begun(t, c) = Begun(s, c)
  <2>1. c # 0
    BY BoundsAssumption DEF Conns
  <2>2. CASE t.sock[c].st = "backlog"
    <3>1. s.sock[c].st = "backlog"
      BY <2>2 DEF Quiet, QuietSock
    <3>2. s.ep # c
      BY <3>1, EpNotBacklog
    <3>3. t.ep # c
      BY <2>1, <3>2 DEF Quiet
    <3> QED BY <3>1, <3>2, <3>3 DEF Hears, Begun
  <2>3. CASE t.ep = c /\ t.sock[c].st = "open"
    BY <2>1, <2>3 DEF Hears, Begun, Quiet, QuietSock
  <2> QED BY <1>1, <2>2, <2>3 DEF Hears
<1> QED BY <1>1 DEF Listens, Quiet

LEMMA QuietLess ==
  ASSUME NEW f \in EndRec, NEW g \in EndRec, Quiet(f, g)
  PROVE  Less(f, g) /\ \A c \in Conns : g.sock[c].out = f.sock[c].out
<1>1. ASSUME NEW c \in Conns
      PROVE  /\ Pkts(g.sock[c]) \subseteq Pkts(f.sock[c])
             /\ SockInOrder(f.sock[c]) => SockInOrder(g.sock[c])
             /\ g.sock[c].out = f.sock[c].out
  <2>1. f.sock[c] \in Socket /\ g.sock[c] \in Socket
    BY EndTypes
  <2>2. g.sock[c].out = f.sock[c].out /\ g.sock[c].batch \in {f.sock[c].batch, << >>}
    BY DEF Quiet, QuietSock
  <2>3. f.sock[c].out \in Seq(Bytes)
    BY <2>1, SockTypes
  <2>4. Fewer(f.sock[c], g.sock[c])
    <3>1. 0 \in 0 .. Len(f.sock[c].out)
      BY <2>3
    <3>2. Len(g.sock[c].out) = Len(f.sock[c].out) - 0
      BY <2>2, <2>3
    <3>3. \A j \in 1 .. Len(g.sock[c].out) : g.sock[c].out[j] = f.sock[c].out[0 + j]
      BY <2>2, <2>3
    <3> QED BY <2>2, <3>1, <3>2, <3>3 DEF Fewer
  <2> QED BY <2>1, <2>2, <2>4, FewerFacts
<1> QED BY <1>1 DEF Less, Quiet

\* The sender has sent the same bytes.
LEMMA SameOutFlow ==
  ASSUME NEW s, NEW f, NEW g, NEW n, Flow(s, f, n), Less(f, g),
         \A c \in Conns : g.sock[c].out = f.sock[c].out
  PROVE  Flow(s, g, n)
<1>1. \A c \in Conns : Hears(s, c) => Aligned(Stream(s, g, c))
  BY DEF Flow, ReadInOrder, Stream
<1> QED BY <1>1, LessFlow

\* A quiet change of an end, both ways.
LEMMA QuietFlow ==
  ASSUME NEW e \in Ends, NEW m \in 0 .. MaxConns, NEW s, EndOK(e, s, m), NEW t \in EndRec, Quiet(s, t),
         NEW f, NEW i, NEW n, Flow(s, f, i), Flow(f, s, n)
  PROVE  Flow(t, f, i) /\ Flow(f, t, n)
<1>1. Listens(s, t) /\ Less(s, t) /\ \A c \in Conns : t.sock[c].out = s.sock[c].out
  <2>1. s \in EndRec
    BY DEF EndOK
  <2> QED BY <2>1, QuietListens, QuietLess
<1> QED BY <1>1, ListensFlow, SameOutFlow

\* A connection is accepted.
LEMMA AcceptedFlow ==
  ASSUME NEW m \in 0 .. MaxConns, NEW s, EndOK("exit", s, m), NEW t \in EndRec, NEW c \in Conns,
         s.sock[c].st = "backlog", EndOK("exit", t, m), Accepted(s, t, c),
         NEW f, NEW i, NEW n, Flow(s, f, i), Flow(f, s, n)
  PROVE  Flow(t, f, i) /\ Flow(f, t, n)
<1>1. "exit" \in Ends /\ s \in EndRec
  BY DEF Ends, EndOK
<1>2. ASSUME NEW d \in Conns, Hears(t, d)
      PROVE  Hears(s, d) /\ Begun(t, d) = Begun(s, d)
  <2>1. t.ep = c /\ t.framer = << >>
    BY DEF Accepted
  <2>2. s.ep # c
    BY <1>1, EpNotBacklog
  <2>3. CASE d = c
    BY <2>1, <2>2, <2>3 DEF Hears, Begun
  <2>4. CASE d # c
    <3>1. t.sock[d].st = "backlog"
      BY <1>2, <2>1, <2>4 DEF Hears
    <3>2. s.sock[d].st = "backlog"
      BY <2>4, <3>1 DEF Accepted
    <3>3. s.ep # d
      BY <1>1, <3>2, EpNotBacklog
    <3> QED BY <2>1, <2>4, <3>2, <3>3 DEF Hears, Begun
  <2> QED BY <2>3, <2>4
<1>3. Listens(s, t)
  BY <1>2 DEF Listens, Accepted
<1>4. Less(s, t) /\ \A d \in Conns : t.sock[d].out = s.sock[d].out
  <2>1. ASSUME NEW d \in Conns
        PROVE  /\ Pkts(t.sock[d]) \subseteq Pkts(s.sock[d])
               /\ SockInOrder(s.sock[d]) => SockInOrder(t.sock[d])
               /\ t.sock[d].out = s.sock[d].out
    <3>1. t.sock[d].out = s.sock[d].out /\ t.sock[d].batch = s.sock[d].batch
      BY DEF Accepted, SameData
    <3> QED BY <3>1 DEF Pkts, SockInOrder
  <2> QED BY <2>1 DEF Less, Accepted
<1> QED BY <1>3, <1>4, ListensFlow, SameOutFlow

\* The peer of an end that hears it as before.
LEMMA SameReader ==
  ASSUME NEW s, NEW t, t.tun = s.tun, t.ep = s.ep, t.framer = s.framer,
         \A c \in Conns : t.sock[c].st = s.sock[c].st
  PROVE  Listens(s, t)
BY DEF Listens, Hears, Begun

\* What a reader has begun of a frame is the first packet it will read.
LEMMA BegunFacts ==
  ASSUME NEW b \in Seq(Bytes), NEW o \in Seq(Bytes), Aligned(b \o o), Len(b) <= 1
  PROVE  /\ Len(b) = 1 => Len(o) # 0 /\ b[1].pkt = o[1].pkt
         /\ Len(b) \in {0, 1}
<1> DEFINE x == b \o o
<1>1. x \in Seq(Bytes) /\ Len(x) = Len(b) + Len(o) /\ Len(b) \in {0, 1} /\ Len(o) \in Nat
  BY SMTT(30)
<1>2. CASE Len(b) = 1
  <2>1. Len(x) % 2 = 0 /\ Len(x) >= 1
    BY <1>1, <1>2 DEF Aligned
  <2>2. Len(o) # 0
    BY <1>1, <1>2, <2>1
  <2>3. x[1] = b[1] /\ x[2] = o[1]
    BY <1>1, <1>2, <2>2
  <2>4. 1 \in 1 .. Len(x) /\ 1 % 2 = 1 /\ 1 + 1 = 2
    BY <1>1, <2>1
  <2>5. x[1 + 1].pkt = x[1].pkt
    BY <2>4 DEF Aligned
  <2> HIDE DEF x
  <2> QED BY <1>1, <2>2, <2>3, <2>4, <2>5
<1> QED BY <1>1, <1>2

\* A batch is flushed.
LEMMA WroteAligned ==
  ASSUME NEW b \in Seq(Bytes), NEW k \in Socket, Aligned(b \o k.out), Len(b) <= 1, SockInOrder(k),
         \A i \in 1 .. Len(k.batch) : k.batch[i] \in Numbers
  PROVE  Aligned(b \o (k.out \o Framed(k.batch)))
<1> DEFINE o == k.out
           q == k.batch
           y == Framed(q)
           x == b \o o
           z == b \o (o \o y)
<1>1. o \in Seq(Bytes) /\ q \in Seq(Nat)
  BY SockTypes
<1>2. /\ y \in Seq(Bytes) /\ Len(y) = 2 * Len(q)
      /\ \A i \in 1 .. 2 * Len(q) : (i + 1) \div 2 \in 1 .. Len(q) /\ y[i].pkt = q[(i + 1) \div 2]
  BY <1>1, FramedFacts
<1>3. Aligned(y)
  BY <1>1, AlignedFrames DEF SockInOrder
<1> HIDE DEF o, q, y
<1>4. x \in Seq(Bytes) /\ z \in Seq(Bytes) /\ Len(x) = Len(b) + Len(o)
  BY <1>1, <1>2
<1>5. Joined(x, y, z)
  <2>1. Len(b) \in Nat /\ Len(o) \in Nat /\ Len(y) \in Nat
    BY <1>1, <1>2
  <2>2. Len(z) = Len(x) + Len(y)
    <3>0. o \in Seq(Bytes) /\ y \in Seq(Bytes)
      BY <1>1, <1>2
    <3>1. o \o y \in Seq(Bytes) /\ Len(o \o y) = Len(o) + Len(y)
      BY <3>0
    <3>2. Len(z) = Len(b) + Len(o \o y)
      BY <3>1
    <3> QED BY <1>4, <2>1, <3>1, <3>2
  <2>3. ASSUME NEW i \in 1 .. Len(x) PROVE z[i] = x[i]
    <3>1. CASE i \in 1 .. Len(b)
      BY <1>1, <1>2, <2>1, <3>1
    <3>2. CASE i \notin 1 .. Len(b)
      <4>1. i - Len(b) \in 1 .. Len(o) /\ i - Len(b) \in 1 .. Len(o \o y)
        BY <1>1, <1>2, <1>4, <2>1, <3>2
      <4>2. z[i] = (o \o y)[i - Len(b)] /\ x[i] = o[i - Len(b)]
        BY <1>1, <1>2, <2>1, <3>2, <4>1
      <4> QED BY <1>1, <1>2, <4>1, <4>2
    <3> QED BY <3>1, <3>2
  <2>4. ASSUME NEW i \in 1 .. Len(y) PROVE z[Len(x) + i] = y[i]
    <3>1. Len(o) + i \in 1 .. Len(o \o y) /\ (o \o y)[Len(o) + i] = y[i]
      BY <1>1, <1>2, <2>1, SMTT(30)
    <3>2. Len(x) + i = Len(b) + (Len(o) + i)
      BY <1>4, <2>1, SMTT(30)
    <3>3. z[Len(b) + (Len(o) + i)] = (o \o y)[Len(o) + i]
      BY <1>1, <1>2, <2>1, <3>1
    <3> QED BY <3>1, <3>2, <3>3
  <2> HIDE DEF x, z
  <2> QED BY <2>2, <2>3, <2>4 DEF Joined
<1>6. Before(x, y)
  <2>1. ASSUME NEW i \in 1 .. Len(o), NEW j \in 1 .. Len(y) PROVE o[i].pkt < y[j].pkt
    <3>1. (j + 1) \div 2 \in 1 .. Len(q) /\ y[j].pkt = q[(j + 1) \div 2]
      BY <1>2
    <3> QED BY <3>1 DEF SockInOrder, o, q
  <2>2. /\ Len(b) = 1 => Len(o) # 0 /\ b[1].pkt = o[1].pkt
        /\ Len(b) \in {0, 1} /\ Len(o) \in Nat
    BY <1>1, BegunFacts DEF o
  <2>3. ASSUME NEW i \in 1 .. Len(x) PROVE \E j \in 1 .. Len(o) : x[i].pkt = o[j].pkt
    <3>1. CASE i \in 1 .. Len(b)
      <4>1. i = 1 /\ Len(b) = 1 /\ x[1] = b[1] /\ 1 \in 1 .. Len(o)
        BY <1>1, <2>2, <3>1
      <4> QED BY <2>2, <4>1
    <3>2. CASE i \notin 1 .. Len(b)
      <4>1. i - Len(b) \in 1 .. Len(o) /\ x[i] = o[i - Len(b)]
        BY <1>1, <1>4, <2>2, <3>2
      <4> QED BY <4>1
    <3> QED BY <3>1, <3>2
  <2> HIDE DEF x
  <2> QED BY <2>1, <2>3 DEF Before
<1>7. Aligned(x)
  BY DEF o
<1> HIDE DEF x, z
<1>8. Aligned(z)
  BY <1>2, <1>3, <1>4, <1>5, <1>6, <1>7, AlignedAfter
<1> QED BY <1>8 DEF z, o, y, q

\* What has been begun of a frame.
LEMMA BegunType ==
  ASSUME NEW s \in EndRec, NEW c
  PROVE  Begun(s, c) \in Seq(Bytes)
BY EndTypes, EmptySeqs DEF Begun

\* The packets of an end are numbers.
LEMMA PktTypes ==
  ASSUME NEW k \in Socket
  PROVE  \A p \in Pkts(k) : p \in Nat
<1>1. k.out \in Seq(Bytes) /\ k.batch \in Seq(Nat)
  BY SockTypes
<1>2. \A i \in 1 .. Len(k.out) : k.out[i].pkt \in Nat
  BY <1>1, ByteTypes
<1>3. \A i \in 1 .. Len(k.batch) : k.batch[i] \in Nat
  BY <1>1
<1> QED BY <1>2, <1>3 DEF Pkts

LEMMA WrittenTypes ==
  ASSUME NEW s \in EndRec
  PROVE  \A w \in Written(s) : w \in Nat
<1>1. \A i \in 1 .. Len(s.tun) : s.tun[i] \in Bytes \X Bytes
  BY EndTypes
<1> QED BY <1>1, ByteTypes DEF Written

\* A flush passes on the same packets.
LEMMA WroteFlow ==
  ASSUME NEW s \in EndRec, NEW t \in EndRec, NEW c \in Conns, Wrote(s, t, c),
         \A j \in 1 .. Len(s.sock[c].batch) : s.sock[c].batch[j] \in Numbers,
         NEW f \in EndRec, NEW i, NEW n, Flow(s, f, i), Flow(f, s, n)
  PROVE  Flow(t, f, i) /\ Flow(f, t, n)
<1> DEFINE k == s.sock[c]
           l == t.sock[c]
           y == Framed(k.batch)
<1>1. Listens(s, t)
  <2>1. \A d \in Conns : t.sock[d].st = s.sock[d].st
    BY DEF Wrote
  <2> QED BY <2>1, SameReader DEF Wrote
<1>2. /\ k \in Socket /\ l \in Socket /\ k.out \in Seq(Bytes) /\ k.batch \in Seq(Nat)
      /\ l.out = k.out \o y /\ l.batch = << >>
  BY EndTypes, SockTypes DEF Wrote
<1>3. /\ y \in Seq(Bytes) /\ Len(y) = 2 * Len(k.batch)
      /\ \A j \in 1 .. 2 * Len(k.batch) : (j + 1) \div 2 \in 1 .. Len(k.batch) /\ y[j].pkt = k.batch[(j + 1) \div 2]
  BY <1>2, FramedFacts
<1> HIDE DEF y
<1>4. Pkts(l) \subseteq Pkts(k)
  <2>1. ASSUME NEW j \in 1 .. Len(l.out) PROVE l.out[j].pkt \in Pkts(k)
    <3>1. CASE j \in 1 .. Len(k.out)
      <4>1. l.out[j] = k.out[j]
        BY <1>2, <1>3, <3>1
      <4> QED BY <3>1, <4>1 DEF Pkts
    <3>2. CASE j \notin 1 .. Len(k.out)
      <4>1. j - Len(k.out) \in 1 .. Len(y) /\ l.out[j] = y[j - Len(k.out)]
        <5>1. k.out \in Seq(Bytes) /\ y \in Seq(Bytes) /\ l.out = k.out \o y
          BY <1>2, <1>3
        <5>2. Len(l.out) = Len(k.out) + Len(y) /\ Len(k.out) \in Nat /\ Len(y) \in Nat
          BY <5>1
        <5>3. j - Len(k.out) \in 1 .. Len(y) /\ j = Len(k.out) + (j - Len(k.out))
          BY <3>2, <5>2, OfSum
        <5> QED BY <5>1, <5>2, <5>3, SMTT(30)
      <4>2. \E h \in 1 .. Len(k.batch) : l.out[j].pkt = k.batch[h]
        BY <1>3, <4>1
      <4> QED BY <4>2 DEF Pkts
    <3> QED BY <3>1, <3>2
  <2>2. ~ \E j \in 1 .. Len(l.batch) : TRUE
    BY <1>2
  <2> QED BY <2>1, <2>2 DEF Pkts
<1>5. SockInOrder(l)
  BY <1>2 DEF SockInOrder, Increasing
<1>6. Less(s, t)
  <2>1. ASSUME NEW d \in Conns
        PROVE  /\ Pkts(t.sock[d]) \subseteq Pkts(s.sock[d])
               /\ SockInOrder(s.sock[d]) => SockInOrder(t.sock[d])
    BY <1>4, <1>5 DEF Wrote
  <2> QED BY <2>1 DEF Less, Wrote
<1>7. ASSUME NEW d \in Conns, Hears(f, d) PROVE Aligned(Stream(f, t, d))
  <2>1. Aligned(Stream(f, s, d)) /\ Len(Begun(f, d)) <= 1 /\ SockInOrder(k)
    BY <1>7 DEF Flow, ReadInOrder, SentInOrder
  <2>2. CASE d # c
    BY <2>1, <2>2 DEF Stream, Wrote
  <2>3. CASE d = c
    <3>1. Aligned(Begun(f, c) \o (k.out \o Framed(k.batch)))
      BY <1>2, <2>1, <2>3, BegunType, WroteAligned DEF Stream
    <3> QED BY <1>2, <2>3, <3>1 DEF Stream, y
  <2> QED BY <2>2, <2>3
<1> QED BY <1>1, <1>6, <1>7, ListensFlow, LessFlow

\* The endpoint of an armed bridge is its newest connection, and nothing waits for another.
LEMMA Newest ==
  ASSUME NEW e \in Ends, NEW m \in 0 .. MaxConns, NEW s, EndOK(e, s, m), s.armed
  PROVE  /\ s.ep \in Conns /\ s.queue = << >>
         /\ \A d \in Conns : d > s.ep => Pkts(s.sock[d]) = {}
<1>1. s.ep # 0 /\ s.ep \in Conns
  BY EpConn DEF EndOK, WireOK
<1>2. \A d \in Conns : SockOK(s.sock[d], d, m)
  BY DEF EndOK
<1>3. ASSUME NEW d \in Conns, d > s.ep PROVE s.sock[d].st \in Unused
  <2>1. CASE e = "client"
    <3>1. s.ep = m
      BY <1>1, <2>1 DEF EndOK, ClientOK
    <3> QED BY <1>2, <1>3, <3>1 DEF SockOK, Unused
  <2>2. CASE e = "exit"
    BY <1>1, <1>3, <2>2 DEF EndOK, ExitOK
  <2> QED BY <2>1, <2>2 DEF Ends
<1>4. ASSUME NEW d \in Conns, d > s.ep PROVE Pkts(s.sock[d]) = {}
  <2>1. s.sock[d].out = << >> /\ s.sock[d].batch = << >>
    BY <1>2, <1>3, <1>4 DEF SockOK
  <2> QED BY <2>1 DEF Pkts
<1>5. s.queue = << >>
  BY DEF EndOK, ClientOK, ExitOK, Ends
<1> QED BY <1>1, <1>4, <1>5

\* Positions with one more.
LEMMA OneMore ==
  ASSUME NEW a \in Nat
  PROVE  \A j \in 1 .. a + 1 : j \in 1 .. a \/ j = a + 1
OBVIOUS

\* The next packet joins the batch of the newest connection.
LEMMA BatchedFlow ==
  ASSUME NEW s \in EndRec, NEW t \in EndRec, NEW c \in Conns, NEW n \in Nat, Batched(s, t, c, n + 1),
         s.queue = << >>, \A d \in Conns : d > c => Pkts(s.sock[d]) = {},
         NEW f \in EndRec, NEW i, Flow(s, f, i), Flow(f, s, n)
  PROVE  Flow(t, f, i) /\ Flow(f, t, n + 1)
<1> DEFINE k == s.sock[c]
           l == t.sock[c]
           p == n + 1
<1>1. Listens(s, t)
  <2>1. \A d \in Conns : t.sock[d].st = s.sock[d].st
    BY DEF Batched
  <2> QED BY <2>1, SameReader DEF Batched
<1>2. /\ k \in Socket /\ l \in Socket /\ k.out \in Seq(Bytes) /\ k.batch \in Seq(Nat)
      /\ l.out = k.out /\ l.batch = Append(k.batch, p) /\ p \in Nat
  BY EndTypes, SockTypes DEF Batched
<1>3. /\ Len(l.batch) = Len(k.batch) + 1 /\ l.batch[Len(k.batch) + 1] = p /\ Len(k.batch) \in Nat
      /\ \A j \in 1 .. Len(k.batch) : l.batch[j] = k.batch[j]
      /\ \A j \in 1 .. Len(l.batch) : j \in 1 .. Len(k.batch) \/ j = Len(k.batch) + 1
  <2> HIDE DEF p
  <2>1. Len(k.batch) \in Nat /\ Len(l.batch) = Len(k.batch) + 1
    BY <1>2
  <2>2. l.batch[Len(k.batch) + 1] = p /\ \A j \in 1 .. Len(k.batch) : l.batch[j] = k.batch[j]
    BY <1>2, SMTT(30)
  <2>3. \A j \in 1 .. Len(k.batch) + 1 : j \in 1 .. Len(k.batch) \/ j = Len(k.batch) + 1
    BY <2>1, OneMore
  <2> QED BY <2>1, <2>2, <2>3
<1>11. n <= p /\ \A q \in Nat : q <= n => q < p /\ q <= p
  OBVIOUS
<1> HIDE DEF p
<1>4. Pkts(l) \subseteq Pkts(k) \cup {p}
  <2>1. \A j \in 1 .. Len(l.batch) : l.batch[j] = p \/ l.batch[j] \in Pkts(k)
    BY <1>3 DEF Pkts
  <2>2. \A j \in 1 .. Len(l.out) : l.out[j].pkt \in Pkts(k)
    BY <1>2 DEF Pkts
  <2> QED BY <2>1, <2>2 DEF Pkts
<1>5. \A d \in Conns : \A q \in Pkts(s.sock[d]) : q \in Nat /\ q <= n /\ q < p
  <2>1. \A d \in Conns : \A q \in Pkts(s.sock[d]) : q \in Nat
    BY EndTypes, PktTypes
  <2>2. \A d \in Conns : \A q \in Pkts(s.sock[d]) : q <= n
    BY DEF Flow, SentInOrder
  <2> QED BY <1>11, <2>1, <2>2
<1>6. SockInOrder(l)
  <2>0. SockInOrder(k)
    BY DEF Flow, SentInOrder
  <2>1. ASSUME NEW j \in 1 .. Len(l.out), NEW h \in 1 .. Len(l.batch) PROVE l.out[j].pkt < l.batch[h]
    <3>1. k.out[j].pkt \in Pkts(k) /\ l.out[j] = k.out[j] /\ j \in 1 .. Len(k.out)
      BY <1>2 DEF Pkts
    <3> QED BY <1>3, <1>5, <2>0, <3>1 DEF SockInOrder
  <2>2. ASSUME NEW j \in 1 .. Len(l.batch), NEW h \in 1 .. Len(l.batch), j < h PROVE l.batch[j] < l.batch[h]
    <3>1. j \in 1 .. Len(k.batch)
      BY <1>3, <2>2
    <3>2. k.batch[j] \in Pkts(k)
      BY <3>1 DEF Pkts
    <3> QED BY <1>3, <1>5, <2>0, <2>2, <3>1, <3>2 DEF SockInOrder, Increasing
  <2> QED BY <2>1, <2>2 DEF SockInOrder, Increasing
<1>7. \A d \in Conns : Pkts(t.sock[d]) \subseteq Pkts(s.sock[d]) \cup (IF d = c THEN {p} ELSE {})
  BY <1>4 DEF Batched
<1>8. SentInOrder(t, p)
  <2>1. ASSUME NEW d \in Conns
        PROVE  SockInOrder(t.sock[d]) /\ \A q \in Pkts(t.sock[d]) : q <= p
    <3>1. SockInOrder(t.sock[d])
      BY <1>6 DEF Batched, Flow, SentInOrder
    <3>2. \A q \in Pkts(t.sock[d]) : q <= p
      <4>1. \A q \in Pkts(t.sock[d]) : q = p \/ q \in Pkts(s.sock[d])
        BY <1>7
      <4>2. p <= p
        BY <1>2
      <4> QED BY <1>5, <1>11, <4>1, <4>2
    <3> QED BY <3>1, <3>2
  <2>2. ASSUME NEW d \in Conns, NEW g \in Conns, d < g,
               NEW q \in Pkts(t.sock[d]), NEW r \in Pkts(t.sock[g])
        PROVE  q < r
    <3>1. CASE d = c
      <4>1. g > c /\ g # c
        BY <2>2, <3>1, BoundsAssumption DEF Conns
      <4> QED BY <1>7, <2>2, <4>1
    <3>2. CASE d # c
      <4>1. q \in Pkts(s.sock[d])
        BY <1>7, <3>2
      <4>2. r = p \/ r \in Pkts(s.sock[g])
        BY <1>7
      <4> QED BY <1>5, <2>2, <4>1, <4>2 DEF Flow, SentInOrder
    <3> QED BY <3>1, <3>2
  <2>3. Len(t.queue) = 0
    BY DEF Batched
  <2> QED BY <2>1, <2>2, <2>3 DEF SentInOrder, Increasing
<1>9. ReadInOrder(f, t, p)
  <2>1. \A w \in Written(f) : w \in Nat /\ w <= n /\ w < p /\ w <= p
    <3>1. \A w \in Written(f) : w \in Nat /\ w <= n
      BY WrittenTypes DEF Flow, ReadInOrder
    <3> QED BY <3>1 DEF p
  <2>2. ASSUME NEW d \in Conns, Hears(f, d)
        PROVE  /\ \A w \in Written(f), q \in Pkts(t.sock[d]) : w < q
               /\ Aligned(Stream(f, t, d)) /\ Len(Begun(f, d)) <= 1
    <3>1. /\ \A w \in Written(f), q \in Pkts(s.sock[d]) : w < q
          /\ Aligned(Stream(f, s, d)) /\ Len(Begun(f, d)) <= 1
      BY <2>2 DEF Flow, ReadInOrder
    <3>2. t.sock[d].out = s.sock[d].out
      BY DEF Batched
    <3>3. \A w \in Written(f), q \in Pkts(t.sock[d]) : w < q
      BY <1>7, <2>1, <3>1
    <3> QED BY <3>1, <3>2, <3>3 DEF Stream
  <2>3. Len(t.queue) = 0
    BY DEF Batched
  <2> QED BY <2>1, <2>2, <2>3 DEF ReadInOrder
<1>10. Flow(t, f, i)
  BY <1>1, ListensFlow
<1> QED BY <1>8, <1>9, <1>10 DEF Flow, p

\* The next packet waits behind those that wait.
LEMMA WaitsFlow ==
  ASSUME NEW m \in 0 .. MaxConns, NEW s, EndOK("client", s, m), NEW t \in EndRec, NEW n \in Nat,
         Waits(s, t, n + 1), NEW f \in EndRec, NEW i, Flow(s, f, i), Flow(f, s, n)
  PROVE  Flow(t, f, i) /\ Flow(f, t, n + 1)
<1> DEFINE p == n + 1
           r == IF Len(s.queue) >= QueueMax THEN Tail(s.queue) ELSE s.queue
<1>1. p \in Nat /\ n <= p /\ \A q \in Nat : q <= n => q < p /\ q <= p
  OBVIOUS
<1>2. t.queue = Append(r, p)
  BY DEF Waits
<1>3. s \in EndRec /\ s.queue \in Seq(Nat) /\ Len(s.queue) <= QueueMax /\ "client" \in Ends
  BY EndTypes DEF EndOK, Ends
<1>4. r = IF Len(s.queue) >= QueueMax THEN Tail(s.queue) ELSE s.queue
  OBVIOUS
<1> HIDE DEF p, r
<1>5. r \in Seq(Nat) /\ Len(r) \in Nat
  <2>1. r \in Seq(Nat)
    BY <1>3, <1>4, RoomFacts
  <2> QED BY <2>1
<1>6. PICK k \in {0, 1} : \A j \in 1 .. Len(r) : j + k \in 1 .. Len(s.queue) /\ r[j] = s.queue[j + k]
  BY <1>3, <1>4, RoomFacts
<1>7. /\ Len(t.queue) = Len(r) + 1 /\ t.queue[Len(r) + 1] = p
      /\ \A j \in 1 .. Len(r) : t.queue[j] = r[j]
  BY <1>1, <1>2, <1>5
<1>8. \A j \in 1 .. Len(t.queue) : j \in 1 .. Len(r) \/ j = Len(r) + 1
  BY <1>5, <1>7, OneMore
<1>9. \A j \in 1 .. Len(t.queue) : t.queue[j] = p \/ \E h \in 1 .. Len(s.queue) : t.queue[j] = s.queue[h]
  BY <1>6, <1>7, <1>8
<1>10. \A h \in 1 .. Len(s.queue) : s.queue[h] \in Nat /\ s.queue[h] <= n
  BY <1>3 DEF Flow, SentInOrder
<1>11. p <= p
  BY <1>1
<1>12. Listens(s, t)
  <2>1. ASSUME NEW c \in Conns, Hears(t, c)
        PROVE  Hears(s, c) /\ Begun(t, c) = Begun(s, c)
    <3>1. c # 0 /\ t.sock[c] = s.sock[c]
      BY BoundsAssumption DEF Conns, Waits
    <3>2. s.sock[c].st # "backlog"
      BY DEF EndOK, ClientOK
    <3>3. t.ep = c /\ t.sock[c].st = "open"
      BY <2>1, <3>1, <3>2 DEF Hears
    <3>4. s.ep = c /\ t.framer = s.framer
      BY <3>1, <3>3 DEF Waits
    <3> QED BY <3>1, <3>3, <3>4 DEF Hears, Begun
  <2> QED BY <2>1 DEF Listens, Waits
<1>13. Flow(t, f, i)
  BY <1>12, ListensFlow
<1>14. t.sock = s.sock
  BY DEF Waits
<1>15. \A c \in Conns : \A q \in Pkts(s.sock[c]) : q \in Nat /\ q <= n /\ q < p /\ q <= p
  <2>1. \A c \in Conns : \A q \in Pkts(s.sock[c]) : q \in Nat
    BY <1>3, EndTypes, PktTypes
  <2>2. \A c \in Conns : \A q \in Pkts(s.sock[c]) : q <= n
    BY DEF Flow, SentInOrder
  <2> QED BY <1>1, <2>1, <2>2
<1>16. SentInOrder(t, p)
  <2>1. \A c \in Conns : SockInOrder(t.sock[c]) /\ \A q \in Pkts(t.sock[c]) : q <= p
    BY <1>14, <1>15 DEF Flow, SentInOrder
  <2>2. \A c, d \in Conns : c < d => \A q \in Pkts(t.sock[c]), h \in Pkts(t.sock[d]) : q < h
    BY <1>14 DEF Flow, SentInOrder
  <2>3. \A c \in Conns : \A q \in Pkts(t.sock[c]), j \in 1 .. Len(t.queue) : q < t.queue[j]
    <3>1. \A c \in Conns : \A q \in Pkts(s.sock[c]), j \in 1 .. Len(s.queue) : q < s.queue[j]
      BY DEF Flow, SentInOrder
    <3> QED BY <1>9, <1>14, <1>15, <3>1
  <2>4. Increasing(t.queue)
    <3>1. Increasing(s.queue)
      BY DEF Flow, SentInOrder
    <3>2. ASSUME NEW j \in 1 .. Len(t.queue), NEW h \in 1 .. Len(t.queue), j < h
          PROVE  t.queue[j] < t.queue[h]
      <4>1. j \in 1 .. Len(r)
        BY <1>5, <1>7, <3>2
      <4>2. CASE h = Len(r) + 1
        <5>1. t.queue[j] = s.queue[j + k] /\ j + k \in 1 .. Len(s.queue)
          BY <1>6, <1>7, <4>1
        <5>2. t.queue[j] \in Nat /\ t.queue[j] <= n
          BY <1>10, <5>1
        <5>3. t.queue[j] < p
          BY <1>1, <5>2
        <5> QED BY <1>7, <4>2, <5>3
      <4>3. CASE h \in 1 .. Len(r)
        <5>1. /\ t.queue[j] = s.queue[j + k] /\ j + k \in 1 .. Len(s.queue)
              /\ t.queue[h] = s.queue[h + k] /\ h + k \in 1 .. Len(s.queue)
          BY <1>6, <1>7, <4>1, <4>3
        <5>2. j + k < h + k
          BY <3>2
        <5> QED BY <3>1, <5>1, <5>2 DEF Increasing
      <4> QED BY <1>8, <4>2, <4>3
    <3> QED BY <3>2 DEF Increasing
  <2>5. \A j \in 1 .. Len(t.queue) : t.queue[j] <= p
    <3>1. \A h \in 1 .. Len(s.queue) : s.queue[h] <= p
      BY <1>1, <1>10
    <3> QED BY <1>9, <1>11, <3>1
  <2> QED BY <2>1, <2>2, <2>3, <2>4, <2>5 DEF SentInOrder
<1>17. ReadInOrder(f, t, p)
  <2>1. \A w \in Written(f) : w \in Nat /\ w <= n /\ w <= p /\ w < p
    <3>1. \A w \in Written(f) : w \in Nat /\ w <= n
      BY WrittenTypes DEF Flow, ReadInOrder
    <3> QED BY <1>1, <3>1
  <2>2. \A w \in Written(f) : \A j \in 1 .. Len(s.queue) : w < s.queue[j]
    BY DEF Flow, ReadInOrder
  <2>3. \A w \in Written(f) : \A j \in 1 .. Len(t.queue) : w < t.queue[j]
    BY <1>9, <2>1, <2>2
  <2>4. \A c \in Conns : Stream(f, t, c) = Stream(f, s, c)
    BY <1>14 DEF Stream
  <2>5. \A c \in Conns : Hears(f, c) =>
          /\ \A w \in Written(f), q \in Pkts(t.sock[c]) : w < q
          /\ Aligned(Stream(f, t, c)) /\ Len(Begun(f, c)) <= 1
    BY <1>14, <2>4 DEF Flow, ReadInOrder
  <2> QED BY <2>1, <2>3, <2>5 DEF ReadInOrder
<1> QED BY <1>13, <1>16, <1>17 DEF Flow, p

\* Packets of the parts of a queue, and the frames of one.
LEMMA MadePkts ==
  ASSUME NEW q \in Seq(Nat), \A i \in 1 .. Len(q) : q[i] \in Numbers, Increasing(q),
         NEW k \in Socket, k.out = Framed(SubSeq(q, 1, Sent(q))),
         k.batch = SubSeq(q, Sent(q) + 1, Len(q))
  PROVE  /\ \A p \in Pkts(k) : \E i \in 1 .. Len(q) : p = q[i]
         /\ SockInOrder(k) /\ Aligned(k.out)
<1> DEFINE j == Sent(q)
           a == SubSeq(q, 1, j)
           b == SubSeq(q, j + 1, Len(q))
<1>1. j \in 0 .. Len(q) /\ Len(q) \in Nat
  BY SentFacts
<1> HIDE DEF j
<1>2. a \in Seq(Nat) /\ Len(a) = j /\ \A i \in 1 .. j : i \in 1 .. Len(q) /\ a[i] = q[i]
  BY <1>1
<1>3. b \in Seq(Nat) /\ Len(b) = Len(q) - j
      /\ \A i \in 1 .. Len(q) - j : i + j \in 1 .. Len(q) /\ b[i] = q[i + j]
  BY <1>1
<1>4. k.out = Framed(a) /\ k.batch = b
  BY DEF j
<1> HIDE DEF a, b
<1>5. Increasing(a)
  BY <1>2 DEF Increasing
<1>6. Increasing(b)
  <2>1. ASSUME NEW g \in 1 .. Len(b), NEW h \in 1 .. Len(b), g < h PROVE b[g] < b[h]
    <3>1. g + j \in 1 .. Len(q) /\ h + j \in 1 .. Len(q) /\ b[g] = q[g + j] /\ b[h] = q[h + j]
      BY <1>3
    <3>2. g + j < h + j
      BY <1>1, <2>1
    <3> QED BY <3>1, <3>2 DEF Increasing
  <2> QED BY <2>1 DEF Increasing
<1>7. \A i \in 1 .. Len(a) : a[i] \in Numbers
  BY <1>2
<1>8. /\ Len(k.out) = 2 * Len(a)
      /\ \A i \in 1 .. 2 * Len(a) : (i + 1) \div 2 \in 1 .. Len(a) /\ k.out[i].pkt = a[(i + 1) \div 2]
  BY <1>2, <1>4, <1>7, FramedFacts
<1>9. \A i \in 1 .. Len(k.out) : \E h \in 1 .. j : k.out[i].pkt = q[h] /\ h \in 1 .. Len(q)
  BY <1>2, <1>8
<1>10. \A i \in 1 .. Len(k.batch) : \E h \in 1 .. Len(q) : k.batch[i] = q[h] /\ h > j
  <2>1. \A i \in 1 .. Len(q) - j : i + j > j
    BY <1>1
  <2> QED BY <1>3, <1>4, <2>1
<1>11. \A i \in 1 .. Len(k.out), h \in 1 .. Len(k.batch) : k.out[i].pkt < k.batch[h]
  <2>1. ASSUME NEW i \in 1 .. Len(k.out), NEW h \in 1 .. Len(k.batch) PROVE k.out[i].pkt < k.batch[h]
    <3>1. PICK x \in 1 .. j : k.out[i].pkt = q[x] /\ x \in 1 .. Len(q)
      BY <1>9
    <3>2. PICK y \in 1 .. Len(q) : k.batch[h] = q[y] /\ y > j
      BY <1>10
    <3>3. x < y
      BY <1>1, <3>1, <3>2
    <3> QED BY <3>1, <3>2, <3>3 DEF Increasing
  <2> QED BY <2>1
<1>12. Aligned(k.out)
  BY <1>2, <1>4, <1>5, <1>7, AlignedFrames
<1>13. \A p \in Pkts(k) : \E i \in 1 .. Len(q) : p = q[i]
  BY <1>9, <1>10, ZenonT(30) DEF Pkts
<1> QED BY <1>4, <1>6, <1>11, <1>12, <1>13 DEF SockInOrder

\* A connection is made: to the exit goes what waited for it, and the client begins to read.
LEMMA MadeSent ==
  ASSUME NEW s \in EndRec, NEW t \in EndRec, NEW c \in Conns, Made(s, t, c), NEW n \in Nat,
         \A i \in 1 .. Len(s.queue) : s.queue[i] \in Numbers,
         \A d \in Conns : d >= c => Pkts(s.sock[d]) = {}, SentInOrder(s, n)
  PROVE  /\ SentInOrder(t, n) /\ Aligned(t.sock[c].out)
         /\ \A p \in Pkts(t.sock[c]) : \E i \in 1 .. Len(s.queue) : p = s.queue[i]
<1>1. s.queue \in Seq(Nat) /\ t.sock[c] \in Socket
  BY EndTypes
<1>2. /\ \A p \in Pkts(t.sock[c]) : \E i \in 1 .. Len(s.queue) : p = s.queue[i]
      /\ SockInOrder(t.sock[c]) /\ Aligned(t.sock[c].out)
  BY <1>1, MadePkts DEF Made, SentInOrder
<1>3. \A d \in Conns : SockInOrder(t.sock[d]) /\ \A p \in Pkts(t.sock[d]) : p <= n
  <2>1. \A p \in Pkts(t.sock[c]) : p <= n
    BY <1>2 DEF SentInOrder
  <2> QED BY <1>2, <2>1 DEF SentInOrder, Made
<1>4. ASSUME NEW d \in Conns, NEW g \in Conns, d < g, NEW p \in Pkts(t.sock[d]), NEW q \in Pkts(t.sock[g])
      PROVE  p < q
  <2>1. CASE d = c
    <3>1. g >= c /\ g # c
      BY <1>4, <2>1, BoundsAssumption DEF Conns
    <3> QED BY <3>1 DEF Made
  <2>2. CASE g = c
    <3>1. d # c
      BY <1>4, <2>2, BoundsAssumption DEF Conns
    <3>2. p \in Pkts(s.sock[d])
      BY <3>1 DEF Made
    <3> QED BY <1>2, <2>2, <3>2 DEF SentInOrder
  <2>3. CASE d # c /\ g # c
    BY <1>4, <2>3 DEF Made, SentInOrder
  <2> QED BY <2>1, <2>2, <2>3
<1>5. Len(t.queue) = 0
  BY DEF Made
<1>6. SentInOrder(t, n)
  BY <1>3, <1>4, <1>5 DEF SentInOrder, Increasing
<1> QED BY <1>2, <1>6

\* A connection of the exit that has yet to be accepted.
Arrived(f, g, c) ==
  /\ OnlySock(f, g) /\ \A d \in Conns : d # c => g.sock[d] = f.sock[d]
  /\ g.sock[c].st = "backlog" /\ g.sock[c].out = << >> /\ g.sock[c].batch = << >>

LEMMA EmptyJoin == ASSUME NEW x \in Seq(Bytes) PROVE << >> \o x = x
OBVIOUS

\* Both directions of a connection that has been made.
LEMMA MadeFlow ==
  ASSUME NEW s \in EndRec, NEW t \in EndRec, NEW c \in Conns, Made(s, t, c), NEW n \in Nat, NEW i \in Nat,
         \A j \in 1 .. Len(s.queue) : s.queue[j] \in Numbers,
         \A d \in Conns : d >= c => Pkts(s.sock[d]) = {}, \A d \in Conns : s.sock[d].st # "backlog",
         NEW f \in EndRec, NEW g \in EndRec, Arrived(f, g, c), f.ep # c, Flow(s, f, i), Flow(f, s, n)
  PROVE  Flow(t, g, i) /\ Flow(g, t, n)
<1>1. /\ SentInOrder(t, n) /\ Aligned(t.sock[c].out)
      /\ \A p \in Pkts(t.sock[c]) : \E j \in 1 .. Len(s.queue) : p = s.queue[j]
  BY MadeSent DEF Flow
<1>2. t.sock[c].out \in Seq(Bytes) /\ Begun(g, c) = << >>
  BY EndTypes, SockTypes DEF Begun, Arrived, OnlySock
<1>3. /\ Written(g) = Written(f) /\ TunInOrder(g) /\ Written(t) = Written(s) /\ TunInOrder(t)
  BY DEF Arrived, OnlySock, Made, Written, TunInOrder, Flow
<1>4. ReadInOrder(g, t, n)
  <2>1. \A w \in Written(g) : w <= n
    BY <1>3 DEF Flow, ReadInOrder
  <2>2. Len(t.queue) = 0
    BY DEF Made
  <2>3. ASSUME NEW d \in Conns, Hears(g, d)
        PROVE  /\ \A w \in Written(g), p \in Pkts(t.sock[d]) : w < p
               /\ Aligned(Stream(g, t, d)) /\ Len(Begun(g, d)) <= 1
    <3>1. CASE d = c
      <4>1. \A w \in Written(f), j \in 1 .. Len(s.queue) : w < s.queue[j]
        BY DEF Flow, ReadInOrder
      <4>2. Stream(g, t, c) = t.sock[c].out
        BY <1>2, EmptyJoin DEF Stream
      <4> QED BY <1>1, <1>2, <1>3, <3>1, <4>1, <4>2
    <3>2. CASE d # c
      <4>1. Hears(f, d) /\ Begun(g, d) = Begun(f, d) /\ t.sock[d] = s.sock[d]
        BY <2>3, <3>2 DEF Hears, Begun, Arrived, OnlySock, Made
      <4> QED BY <1>3, <4>1 DEF Flow, ReadInOrder, Stream
    <3> QED BY <3>1, <3>2
  <2> QED BY <2>1, <2>2, <2>3 DEF ReadInOrder
<1>5. Less(f, g)
  <2>1. ASSUME NEW d \in Conns
        PROVE  /\ Pkts(g.sock[d]) \subseteq Pkts(f.sock[d])
               /\ SockInOrder(f.sock[d]) => SockInOrder(g.sock[d])
    <3>1. CASE d = c
      BY <3>1 DEF Arrived, Pkts, SockInOrder, Increasing
    <3>2. CASE d # c
      BY <3>2 DEF Arrived
    <3> QED BY <3>1, <3>2
  <2> QED BY <2>1 DEF Less, Arrived, OnlySock
<1>6. SentInOrder(g, i)
  BY <1>5, LessSent DEF Flow
<1>7. ReadInOrder(t, g, i)
  <2>1. \A w \in Written(t) : w <= i /\ \A j \in 1 .. Len(g.queue) : w < g.queue[j]
    BY <1>3 DEF Flow, ReadInOrder, Arrived, OnlySock
  <2>2. ASSUME NEW d \in Conns, Hears(t, d)
        PROVE  /\ \A w \in Written(t), p \in Pkts(g.sock[d]) : w < p
               /\ Aligned(Stream(t, g, d)) /\ Len(Begun(t, d)) <= 1
    <3>1. d = c
      BY <2>2 DEF Hears, Made
    <3>2. Begun(t, c) = << >> /\ g.sock[c].out = << >> /\ Pkts(g.sock[c]) = {}
      BY DEF Begun, Made, Arrived, Pkts
    <3>3. Stream(t, g, c) = << >>
      BY <3>2, EmptyJoin, EmptySeqs DEF Stream
    <3> QED BY <3>1, <3>2, <3>3, AlignedNone, EmptySeqs
  <2> QED BY <2>1, <2>2 DEF ReadInOrder
<1> QED BY <1>1, <1>3, <1>4, <1>6, <1>7 DEF Flow

\* The peer has read, or its host has discarded, the first k bytes of what was sent.
Taken(f, g, c, k) ==
  /\ OnlySock(f, g) /\ \A d \in Conns : d # c => g.sock[d] = f.sock[d]
  /\ g.sock[c].st = f.sock[c].st /\ g.sock[c].batch = f.sock[c].batch
  /\ Rest(f.sock[c].out, k, g.sock[c].out)

\* Less is left to be read.
LEMMA TakenLess ==
  ASSUME NEW f \in EndRec, NEW g \in EndRec, NEW c \in Conns, NEW k \in 0 .. Len(f.sock[c].out),
         Taken(f, g, c, k)
  PROVE  Less(f, g) /\ Listens(f, g)
<1>1. f.sock[c] \in Socket /\ g.sock[c] \in Socket
  BY EndTypes
<1>2. Fewer(f.sock[c], g.sock[c])
  <2>1. g.sock[c].batch = f.sock[c].batch /\ Rest(f.sock[c].out, k, g.sock[c].out)
    BY DEF Taken
  <2>2. \A j \in 1 .. Len(g.sock[c].out) : g.sock[c].out[j] = f.sock[c].out[k + j]
    <3>1. \A j \in 1 .. Len(g.sock[c].out) : k + j = j + k
      OBVIOUS
    <3> QED BY <2>1, <3>1 DEF Rest
  <2> QED BY <2>1, <2>2 DEF Fewer, Rest
<1>3. /\ Pkts(g.sock[c]) \subseteq Pkts(f.sock[c])
      /\ SockInOrder(f.sock[c]) => SockInOrder(g.sock[c])
  BY <1>1, <1>2, FewerFacts
<1>4. Less(f, g)
  BY <1>3 DEF Less, Taken, OnlySock
<1>5. Listens(f, g)
  <2>1. \A d \in Conns : g.sock[d].st = f.sock[d].st
    BY DEF Taken
  <2> QED BY <2>1, SameReader DEF Taken, OnlySock
<1> QED BY <1>4, <1>5

\* Nobody reads them.
LEMMA TakenFlow ==
  ASSUME NEW f \in EndRec, NEW g \in EndRec, NEW c \in Conns, NEW k \in 0 .. Len(f.sock[c].out),
         Taken(f, g, c, k), NEW s, ~Hears(s, c), NEW i, NEW n, Flow(s, f, i), Flow(f, s, n)
  PROVE  Flow(s, g, i) /\ Flow(g, s, n)
<1>1. Less(f, g) /\ Listens(f, g)
  BY TakenLess
<1>2. \A d \in Conns : Hears(s, d) => Aligned(Stream(s, g, d))
  <2>1. ASSUME NEW d \in Conns, Hears(s, d) PROVE Aligned(Stream(s, g, d))
    <3>1. d # c
      BY <2>1
    <3>2. g.sock[d] = f.sock[d]
      BY <3>1 DEF Taken
    <3>3. Aligned(Stream(s, f, d))
      BY <2>1 DEF Flow, ReadInOrder
    <3> QED BY <3>2, <3>3 DEF Stream
  <2> QED BY <2>1
<1> QED BY <1>1, <1>2, LessFlow, ListensFlow

-----------------------------------------------------------------------------
(* Reading from the wire.                                                  *)

\* The frames of a chunk, read after what was begun.
Chunk(s, o, n) == s.framer \o SubSeq(o, 1, n)
Frames(b) == [i \in 1 .. Len(b) \div 2 |-> <<b[2 * i - 1], b[2 * i]>>]
Left(b)   == SubSeq(b, 2 * (Len(b) \div 2) + 1, Len(b))

\* A chunk is the beginning of the stream.
LEMMA ChunkFacts ==
  ASSUME NEW a \in Seq(Bytes), NEW o \in Seq(Bytes), NEW n \in 1 .. Len(o), NEW b, b = a \o SubSeq(o, 1, n)
  PROVE  /\ b \in Seq(Bytes) /\ Len(b) = Len(a) + n /\ Len(b) <= Len(a \o o) /\ Len(a \o o) = Len(a) + Len(o)
         /\ \A i \in 1 .. Len(b) : i \in 1 .. Len(a \o o) /\ b[i] = (a \o o)[i]
<1>1. Len(a) \in Nat /\ Len(o) \in Nat /\ n \in Nat /\ n <= Len(o)
  OBVIOUS
<1>2. SubSeq(o, 1, n) \in Seq(Bytes) /\ Len(SubSeq(o, 1, n)) = n /\ \A i \in 1 .. n : SubSeq(o, 1, n)[i] = o[i]
  BY <1>1
<1>3. b \in Seq(Bytes) /\ Len(b) = Len(a) + n /\ Len(a \o o) = Len(a) + Len(o)
  BY <1>1, <1>2
<1>4. ASSUME NEW i \in 1 .. Len(a) + n PROVE i \in 1 .. Len(a) + Len(o) /\ b[i] = (a \o o)[i]
  <2>1. i \in 1 .. Len(a) + Len(o)
    BY <1>1
  <2>2. CASE i \in 1 .. Len(a)
    BY <1>1, <1>2, <2>2
  <2>3. CASE i \notin 1 .. Len(a)
    <3>1. i - Len(a) \in 1 .. n /\ i - Len(a) \in 1 .. Len(o)
      BY <1>1, <2>3
    <3>2. b[i] = SubSeq(o, 1, n)[i - Len(a)]
      BY <1>1, <1>2, <2>3, <3>1
    <3>3. (a \o o)[i] = o[i - Len(a)]
      BY <1>1, <2>1, <2>3, <3>1
    <3> QED BY <1>2, <2>1, <3>1, <3>2, <3>3
  <2> QED BY <2>1, <2>2, <2>3
<1>5. Len(b) <= Len(a \o o)
  BY <1>1, <1>3
<1> QED BY <1>3, <1>4, <1>5

\* The half of a length.
LEMMA Half ==
  ASSUME NEW k \in Nat
  PROVE  /\ k \div 2 \in Nat /\ 2 * (k \div 2) <= k /\ k - 2 * (k \div 2) \in {0, 1}
         /\ (2 * (k \div 2)) % 2 = 0
         /\ \A i \in 1 .. k \div 2 : /\ 2 * i - 1 \in 1 .. k /\ 2 * i \in 1 .. k
                                     /\ (2 * i - 1) % 2 = 1 /\ (2 * i) % 2 = 0
OBVIOUS

\* Frames read from a stream of whole frames.
LEMMA FramesFacts ==
  ASSUME NEW b \in Seq(Bytes)
  PROVE  /\ Frames(b) \in Seq(Bytes \X Bytes) /\ Len(Frames(b)) = Len(b) \div 2
         /\ \A i \in 1 .. Len(b) \div 2 : /\ Frames(b)[i][1] = b[2 * i - 1] /\ Frames(b)[i][2] = b[2 * i]
                                          /\ Frames(b)[i] = <<b[2 * i - 1], b[2 * i]>>
<1>1. Len(b) \in Nat /\ \A i \in 1 .. Len(b) : b[i] \in Bytes
  OBVIOUS
<1>2. Len(b) \div 2 \in Nat /\ \A i \in 1 .. Len(b) \div 2 : 2 * i - 1 \in 1 .. Len(b) /\ 2 * i \in 1 .. Len(b)
  BY <1>1, Half
<1>3. \A i \in 1 .. Len(b) \div 2 : <<b[2 * i - 1], b[2 * i]>> \in Bytes \X Bytes
  BY <1>1, <1>2
<1>4. Frames(b) \in [1 .. Len(b) \div 2 -> Bytes \X Bytes]
  BY <1>3 DEF Frames
<1>5. Frames(b) \in Seq(Bytes \X Bytes) /\ Len(Frames(b)) = Len(b) \div 2
  BY <1>2, <1>4, SMTT(30)
<1> QED BY <1>5 DEF Frames

\* The first half of a frame is left, or nothing.
LEMMA LeftFacts ==
  ASSUME NEW b \in Seq(Bytes)
  PROVE  /\ Left(b) \in Seq(Bytes) /\ Len(Left(b)) = Len(b) - 2 * (Len(b) \div 2) /\ Len(Left(b)) \in {0, 1}
         /\ \A i \in 1 .. Len(Left(b)) : i + 2 * (Len(b) \div 2) \in 1 .. Len(b) /\ Left(b)[i] = b[i + 2 * (Len(b) \div 2)]
<1> DEFINE k == Len(b)
           h == 2 * (k \div 2)
<1>1. k \in Nat /\ h \in Nat /\ h <= k /\ k - h \in {0, 1}
  <2>1. k \in Nat
    OBVIOUS
  <2> HIDE DEF k
  <2> QED BY <2>1, Half
<1> HIDE DEF h
<1>2. Left(b) = SubSeq(b, h + 1, k)
  BY DEF Left, h
<1>3. SubSeq(b, h + 1, k) \in Seq(Bytes) /\ Len(SubSeq(b, h + 1, k)) = k - h
  BY <1>1
<1>4. \A i \in 1 .. k - h : i + h \in 1 .. k /\ SubSeq(b, h + 1, k)[i] = b[i + h]
  BY <1>1
<1> QED BY <1>1, <1>2, <1>3, <1>4 DEF h

\* The oldest connection that an end hears.
Oldest(s, c) == \A d \in Conns : Hears(s, d) => d = c \/ d > c

\* A chunk is read from the wire.
Read(s, t, b) ==
  /\ t.tun = s.tun \o Frames(b) /\ t.framer = Left(b) /\ t.sock = s.sock /\ t.queue = s.queue
  /\ t.ep = s.ep

\* StreamFramer.push of a chunk that is in step
LEMMA PushFacts ==
  ASSUME NEW s \in EndRec, NEW c \in Conns, NEW o \in Seq(Bytes), NEW n \in 1 .. Len(o),
         Aligned(s.framer \o o), NEW b, b = Chunk(s, o, n)
  PROVE  LET t == Push(s, c, SubSeq(o, 1, n)) IN
         /\ t \in EndRec /\ Read(s, t, b)
         /\ t.busy = s.busy /\ t.active = s.active /\ t.connecting = s.connecting
         /\ t.drain = s.drain /\ t.armed = s.armed /\ t.wired = s.wired /\ t.writer = s.writer
<1>0. s.framer \in Seq(Bytes)
  BY EndTypes
<1>1. /\ b \in Seq(Bytes) /\ Len(b) = Len(s.framer) + n
      /\ \A i \in 1 .. Len(b) : i \in 1 .. Len(s.framer \o o) /\ b[i] = (s.framer \o o)[i]
  BY <1>0, ChunkFacts DEF Chunk
<1> DEFINE bad == {i \in DOMAIN b : i % 2 = 1 /\ b[i].part # 1}
<1>2. bad = {}
  <2>1. ASSUME NEW i \in DOMAIN b, i % 2 = 1 PROVE b[i].part = 1
    <3>1. i \in 1 .. Len(b)
      BY <1>1
    <3>2. (s.framer \o o)[i].part = 2 - (i % 2)
      BY <1>1, <3>1 DEF Aligned
    <3> QED BY <1>1, <2>1, <3>1, <3>2, SMTT(30)
  <2> QED BY <2>1
<1>3. Push(s, c, SubSeq(o, 1, n)) = [s EXCEPT !.tun = @ \o Frames(b), !.framer = Left(b)]
  BY <1>2 DEF Push, Chunk, Frames, Left
<1>4. s.tun \in Seq(Bytes \X Bytes) /\ Frames(b) \in Seq(Bytes \X Bytes) /\ Left(b) \in Seq(Bytes)
  BY <1>1, EndTypes, FramesFacts, LeftFacts
<1> DEFINE y == s.tun \o Frames(b)
           t == [s EXCEPT !.tun = y, !.framer = Left(b)]
<1>5. y \in Seq(Bytes \X Bytes)
  BY <1>4
<1> HIDE DEF y
<1>6. /\ t \in EndRec /\ t.tun = y /\ t.framer = Left(b) /\ t.sock = s.sock /\ t.queue = s.queue /\ t.ep = s.ep
      /\ t.busy = s.busy /\ t.active = s.active /\ t.connecting = s.connecting
      /\ t.drain = s.drain /\ t.armed = s.armed /\ t.wired = s.wired /\ t.writer = s.writer
  BY <1>4, <1>5 DEF EndRec
<1>7. Push(s, c, SubSeq(o, 1, n)) = t
  BY <1>3 DEF y
<1> HIDE DEF t
<1> QED BY <1>6, <1>7 DEF Read, y

\* What is left to read is the rest of the stream.
LEMMA LeftRest ==
  ASSUME NEW a \in Seq(Bytes), NEW o \in Seq(Bytes), NEW n \in 1 .. Len(o), NEW b, b = a \o SubSeq(o, 1, n),
         NEW r \in Seq(Bytes), Rest(o, n, r)
  PROVE  Left(b) \o r \in Seq(Bytes) /\ Rest(a \o o, 2 * (Len(b) \div 2), Left(b) \o r)
<1> DEFINE x == a \o o
           h == 2 * (Len(b) \div 2)
           l == Left(b)
           z == l \o r
<1>1. /\ b \in Seq(Bytes) /\ Len(b) = Len(a) + n /\ Len(x) = Len(a) + Len(o)
      /\ \A i \in 1 .. Len(b) : i \in 1 .. Len(x) /\ b[i] = x[i]
  BY ChunkFacts
<1>2. /\ l \in Seq(Bytes) /\ Len(l) = Len(b) - h
      /\ \A i \in 1 .. Len(l) : i + h \in 1 .. Len(b) /\ l[i] = b[i + h]
  BY <1>1, LeftFacts
<1>3. Len(a) \in Nat /\ Len(o) \in Nat /\ n \in Nat /\ Len(b) \in Nat /\ Len(l) \in Nat /\ Len(r) \in Nat
  BY <1>1, <1>2
<1>4. h \in Nat
  <2>1. Len(b) \div 2 \in Nat
    BY <1>3, Half
  <2> QED BY <2>1
<1>5. Len(r) = Len(o) - n /\ \A i \in 1 .. Len(r) : i + n \in 1 .. Len(o) /\ r[i] = o[i + n]
  BY DEF Rest
<1> HIDE DEF h, l
<1>6. z \in Seq(Bytes) /\ Len(z) = Len(l) + Len(r)
  <2>1. l \in Seq(Bytes)
    BY <1>2
  <2> QED BY <2>1
<1>7. Len(z) = Len(x) - h
  BY <1>1, <1>2, <1>3, <1>4, <1>5, <1>6, SMTT(30)
<1>8. ASSUME NEW i \in 1 .. Len(z) PROVE i + h \in 1 .. Len(x) /\ z[i] = x[i + h]
  <2>0. i \in 1 .. Len(l) + Len(r) /\ l \in Seq(Bytes)
    BY <1>2, <1>6
  <2>1. CASE i \in 1 .. Len(l)
    <3>1. z[i] = l[i]
      BY <2>0, <2>1
    <3> QED BY <1>1, <1>2, <2>1, <3>1
  <2>2. CASE i \notin 1 .. Len(l)
    <3> DEFINE j == i - Len(l)
    <3>1. j \in 1 .. Len(r)
      BY <1>3, <2>0, <2>2
    <3>2. z[i] = r[j]
      BY <1>3, <2>0, <2>2, <3>1
    <3>3. r[j] = o[j + n] /\ j + n \in 1 .. Len(o)
      BY <1>5, <3>1
    <3>4. i + h = Len(a) + (j + n)
      BY <1>1, <1>2, <1>3, <1>4
    <3> HIDE DEF j
    <3>5. x[Len(a) + (j + n)] = o[j + n] /\ Len(a) + (j + n) \in 1 .. Len(x)
      BY <1>3, <3>3, SMTT(30)
    <3> QED BY <3>2, <3>3, <3>4, <3>5
  <2> QED BY <2>1, <2>2
<1> HIDE DEF x, z
<1>9. Rest(x, h, z)
  BY <1>7, <1>8 DEF Rest
<1> QED BY <1>6, <1>9 DEF x, h, l, z

\* What is left of bytes after the first n.
LEMMA CutFacts ==
  ASSUME NEW o \in Seq(Bytes), NEW n \in 1 .. Len(o), NEW r, r = SubSeq(o, n + 1, Len(o))
  PROVE  r \in Seq(Bytes) /\ Rest(o, n, r)
<1>1. Len(o) \in Nat /\ n \in Nat /\ n <= Len(o)
  OBVIOUS
<1>2. r \in Seq(Bytes) /\ Len(r) = Len(o) - n
  BY <1>1
<1>3. \A i \in 1 .. Len(o) - n : i + n \in 1 .. Len(o) /\ SubSeq(o, n + 1, Len(o))[i] = o[i + n]
  BY <1>1
<1> QED BY <1>2, <1>3 DEF Rest

\* The i-th frame of whole frames, and what comes after it.
LEMMA FrameAt ==
  ASSUME NEW x \in Seq(Bytes), Aligned(x), NEW i \in Nat, 1 <= i, 2 * i <= Len(x)
  PROVE  x[2 * i].pkt = x[2 * i - 1].pkt /\ <<x[2 * i - 1], x[2 * i]>> = Frame(x[2 * i - 1].pkt)
<1>1. Len(x) \in Nat
  OBVIOUS
<1>2. /\ 2 * i - 1 \in 1 .. Len(x) /\ 2 * i \in 1 .. Len(x) /\ (2 * i - 1) + 1 = 2 * i
      /\ (2 * i - 1) % 2 = 1 /\ (2 * i) % 2 = 0
  BY <1>1
<1>3. x[2 * i - 1].part = 1
  <2>1. x[2 * i - 1].part = 2 - ((2 * i - 1) % 2)
    BY <1>2 DEF Aligned
  <2> QED BY <1>2, <2>1
<1>4. x[2 * i].part = 2
  <2>1. x[2 * i].part = 2 - ((2 * i) % 2)
    BY <1>2 DEF Aligned
  <2> QED BY <1>2, <2>1
<1>5. x[2 * i].pkt = x[2 * i - 1].pkt
  <2>1. x[(2 * i - 1) + 1].pkt = x[2 * i - 1].pkt
    BY <1>2 DEF Aligned
  <2> QED BY <1>2, <2>1
<1>6. x[2 * i - 1] \in Bytes /\ x[2 * i] \in Bytes
  BY <1>2
<1>7. /\ x[2 * i - 1] = [pkt |-> x[2 * i - 1].pkt, part |-> 1]
      /\ x[2 * i] = [pkt |-> x[2 * i - 1].pkt, part |-> 2]
  BY <1>3, <1>4, <1>5, <1>6, ByteTypes
<1> QED BY <1>5, <1>7 DEF Frame

\* A frame is older than the bytes after it.
LEMMA FrameBefore ==
  ASSUME NEW x \in Seq(Bytes), Aligned(x), NEW i \in Nat, 1 <= i, NEW j \in Nat, 2 * i < j, j <= Len(x)
  PROVE  x[2 * i - 1].pkt < x[j].pkt
<1>1. Len(x) \in Nat
  OBVIOUS
<1>2. 2 * i - 1 \in 1 .. Len(x) /\ j \in 1 .. Len(x) /\ 2 * i - 1 < j /\ j # (2 * i - 1) + 1
  BY <1>1
<1> QED BY <1>2 DEF Aligned

LEMMA ZeroOrOne == ASSUME NEW k \in Nat, k <= 1 PROVE k = 0 \/ k = 1
OBVIOUS

\* A packet whose frame is complete comes from the bytes of the connection.
LEMMA FrameFrom ==
  ASSUME NEW a \in Seq(Bytes), NEW o \in Seq(Bytes), Aligned(a \o o), Len(a) <= 1, NEW i \in Nat, 1 <= i,
         2 * i <= Len(a \o o)
  PROVE  \E j \in 1 .. Len(o) : (a \o o)[2 * i - 1].pkt = o[j].pkt
<1> DEFINE x == a \o o
<1>1. x \in Seq(Bytes) /\ Len(x) = Len(a) + Len(o) /\ Len(a) \in {0, 1} /\ Len(o) \in Nat
  <2>1. x \in Seq(Bytes) /\ Len(x) = Len(a) + Len(o)
    OBVIOUS
  <2>2. Len(a) \in Nat /\ Len(o) \in Nat
    OBVIOUS
  <2>3. Len(a) = 0 \/ Len(a) = 1
    BY <2>2, ZeroOrOne
  <2> QED BY <2>1, <2>2, <2>3
<1>2. 2 * i - Len(a) \in 1 .. Len(o) /\ 2 * i \notin 1 .. Len(a) /\ 2 * i \in 1 .. Len(x)
  BY <1>1
<1>3. x[2 * i] = o[2 * i - Len(a)]
  BY <1>1, <1>2
<1>4. x[2 * i].pkt = x[2 * i - 1].pkt
  BY <1>1, FrameAt
<1> HIDE DEF x
<1>5. x[2 * i - 1].pkt = o[2 * i - Len(a)].pkt
  BY <1>3, <1>4
<1> QED BY <1>2, <1>5 DEF x

\* The first bytes of a stream, and the rest of what its connection has sent.
Cut(a, k, n, b, l) ==
  /\ n \in 1 .. Len(k.out) /\ b = a \o SubSeq(k.out, 1, n)
  /\ Rest(k.out, n, l.out) /\ l.batch = k.batch

\* The packets of the frames that are read: they come from the bytes of the connection, and all
\* that is left of it is younger.
LEMMA ReadFacts ==
  ASSUME NEW a \in Seq(Bytes), NEW k \in Socket, NEW n, NEW b, NEW l \in Socket, Cut(a, k, n, b, l),
         Aligned(a \o k.out), Len(a) <= 1, SockInOrder(k), NEW i \in Nat, 1 <= i, 2 * i <= Len(b)
  PROVE  /\ <<b[2 * i - 1], b[2 * i]>> = Frame(b[2 * i - 1].pkt)
         /\ b[2 * i - 1].pkt \in Pkts(k)
         /\ \A p \in Pkts(l) : b[2 * i - 1].pkt < p
         /\ \A j \in Nat : 1 <= j /\ j < i => b[2 * j - 1].pkt < b[2 * i - 1].pkt
<1> DEFINE o == k.out
           x == a \o o
<1>1. o \in Seq(Bytes) /\ l.out \in Seq(Bytes) /\ n \in 1 .. Len(o)
  BY SockTypes DEF Cut
<1>2. /\ b \in Seq(Bytes) /\ Len(b) = Len(a) + n /\ Len(x) = Len(a) + Len(o)
      /\ \A j \in 1 .. Len(b) : b[j] = x[j]
  BY <1>1, ChunkFacts, SMTT(30) DEF Cut
<1>3. x \in Seq(Bytes) /\ Aligned(x)
  BY <1>1
<1>4. Len(a) \in Nat /\ Len(o) \in Nat /\ n \in Nat /\ n <= Len(o) /\ Len(b) = Len(a) + n
  BY <1>1, <1>2
<1>5. Len(x) = Len(a) + Len(o)
  BY <1>2
<1>6. \E j \in 1 .. Len(o) : x[2 * i - 1].pkt = o[j].pkt
  <2>1. 2 * i <= Len(x)
    BY <1>4, <1>5
  <2> QED BY <1>1, <2>1, FrameFrom
<1> HIDE DEF x
<1>7. 2 * i <= Len(x) /\ 2 * i - 1 \in 1 .. Len(b) /\ 2 * i \in 1 .. Len(b)
  BY <1>4, <1>5
<1>8. b[2 * i - 1] = x[2 * i - 1] /\ b[2 * i] = x[2 * i]
  BY <1>2, <1>7
<1>9. <<b[2 * i - 1], b[2 * i]>> = Frame(b[2 * i - 1].pkt)
  BY <1>3, <1>7, <1>8, FrameAt
<1>10. b[2 * i - 1].pkt \in Pkts(k)
  BY <1>6, <1>8 DEF Pkts
<1>11. ASSUME NEW j \in 1 .. Len(l.out) PROVE b[2 * i - 1].pkt < l.out[j].pkt
  <2>1. j + n \in 1 .. Len(o) /\ l.out[j] = o[j + n] /\ j \in Nat /\ j >= 1
    BY DEF Rest, Cut
  <2>2. Len(a) + (j + n) \in Nat /\ 2 * i < Len(a) + (j + n) /\ Len(a) + (j + n) <= Len(x)
    BY <1>4, <1>5, <2>1
  <2>3. x[Len(a) + (j + n)] = o[j + n]
    BY <1>1, <2>1 DEF x
  <2>4. x[2 * i - 1].pkt < x[Len(a) + (j + n)].pkt
    BY <1>3, <2>2, FrameBefore
  <2> QED BY <1>8, <2>1, <2>3, <2>4
<1>12. \A j \in 1 .. Len(l.batch) : b[2 * i - 1].pkt < l.batch[j]
  BY <1>6, <1>8 DEF SockInOrder, Cut
<1>13. \A p \in Pkts(l) : b[2 * i - 1].pkt < p
  BY <1>11, <1>12 DEF Pkts
<1>14. ASSUME NEW j \in Nat, 1 <= j, j < i PROVE b[2 * j - 1].pkt < b[2 * i - 1].pkt
  <2>1. 2 * j - 1 \in 1 .. Len(b) /\ 2 * j < 2 * i - 1 /\ 2 * i - 1 \in Nat /\ 2 * i - 1 <= Len(x)
    BY <1>4, <1>7, <1>14
  <2>2. b[2 * j - 1] = x[2 * j - 1]
    BY <1>2, <2>1
  <2>3. x[2 * j - 1].pkt < x[2 * i - 1].pkt
    BY <1>3, <1>14, <2>1, FrameBefore
  <2> QED BY <1>8, <2>2, <2>3
<1> QED BY <1>9, <1>10, <1>13, <1>14

\* The first n bytes of a connection are read from the wire.
Reads(s, t, f, g, c, n) ==
  /\ s \in EndRec /\ t \in EndRec /\ f \in EndRec /\ g \in EndRec
  /\ c \in Conns /\ s.ep = c /\ s.sock[c].st = "open" /\ Oldest(s, c)
  /\ n \in 1 .. Len(f.sock[c].out) /\ Taken(f, g, c, n) /\ Read(s, t, Chunk(s, f.sock[c].out, n))

\* Reading keeps both directions in order.
LEMMA DataFlow ==
  ASSUME NEW s, NEW t, NEW f, NEW g, NEW c, NEW n, Reads(s, t, f, g, c, n),
         NEW i, NEW m, Flow(s, f, i), Flow(f, s, m)
  PROVE  Flow(t, g, i) /\ Flow(g, t, m)
<1> SUFFICES ASSUME s \in EndRec, t \in EndRec, f \in EndRec, g \in EndRec, c \in Conns,
                    s.ep = c, s.sock[c].st = "open", Oldest(s, c),
                    n \in 1 .. Len(f.sock[c].out), Taken(f, g, c, n),
                    Read(s, t, Chunk(s, f.sock[c].out, n))
             PROVE  Flow(t, g, i) /\ Flow(g, t, m)
  BY DEF Reads
<1> DEFINE k == f.sock[c]
           l == g.sock[c]
           a == s.framer
           b == Chunk(s, k.out, n)
           h == Len(b) \div 2
<1>1. /\ k \in Socket /\ l \in Socket /\ a \in Seq(Bytes) /\ k.out \in Seq(Bytes) /\ l.out \in Seq(Bytes)
      /\ s.tun \in Seq(Bytes \X Bytes) /\ n \in 0 .. Len(k.out)
  BY EndTypes, SockTypes
<1>2. Hears(s, c) /\ Begun(s, c) = a
  BY DEF Hears, Begun
<1>3. /\ Aligned(a \o k.out) /\ Len(a) <= 1 /\ \A w \in Written(s), p \in Pkts(k) : w < p
  BY <1>2 DEF Flow, ReadInOrder, Stream
<1>4. SockInOrder(k) /\ Rest(k.out, n, l.out) /\ l.batch = k.batch /\ Pkts(l) \subseteq Pkts(k)
  <2>1. Less(f, g)
    BY <1>1, TakenLess
  <2> QED BY <2>1 DEF Flow, SentInOrder, Taken, Less
<1>5. Less(f, g) /\ Listens(f, g)
  BY <1>1, TakenLess
<1>6. b = a \o SubSeq(k.out, 1, n)
  BY DEF Chunk
<1>7. b \in Seq(Bytes)
  BY <1>1, <1>6, ChunkFacts, SMTT(30)
<1> HIDE DEF b, k, l, a
<1>8. ASSUME NEW j \in 1 .. h
      PROVE  /\ <<b[2 * j - 1], b[2 * j]>> = Frame(b[2 * j - 1].pkt)
             /\ b[2 * j - 1].pkt \in Pkts(k)
             /\ \A p \in Pkts(l) : b[2 * j - 1].pkt < p
             /\ \A q \in 1 .. h : q < j => b[2 * q - 1].pkt < b[2 * j - 1].pkt
  <2>1. Cut(a, k, n, b, l)
    BY <1>4, <1>6 DEF Cut, k
  <2>2. Len(b) \in Nat
    BY <1>7
  <2>3. j \in Nat /\ 1 <= j /\ 2 * j <= Len(b) /\ \A q \in 1 .. h : q \in Nat /\ 1 <= q
    BY <2>2
  <2>4. k \in Socket /\ l \in Socket /\ a \in Seq(Bytes) /\ Aligned(a \o k.out) /\ Len(a) <= 1 /\ SockInOrder(k)
    BY <1>1, <1>3, <1>4
  <2>5. /\ <<b[2 * j - 1], b[2 * j]>> = Frame(b[2 * j - 1].pkt)
        /\ b[2 * j - 1].pkt \in Pkts(k)
        /\ \A p \in Pkts(l) : b[2 * j - 1].pkt < p
        /\ \A q \in Nat : 1 <= q /\ q < j => b[2 * q - 1].pkt < b[2 * j - 1].pkt
    BY <2>1, <2>3, <2>4, ReadFacts
  <2> QED BY <2>3, <2>5
<1>9. /\ Frames(b) \in Seq(Bytes \X Bytes) /\ Len(Frames(b)) = h /\ h \in Nat
      /\ \A j \in 1 .. h : Frames(b)[j][1] = b[2 * j - 1] /\ Frames(b)[j] = <<b[2 * j - 1], b[2 * j]>>
  <2>1. Len(b) \in Nat
    BY <1>7
  <2>2. h \in Nat
    BY <2>1, Half
  <2>3. /\ Frames(b) \in Seq(Bytes \X Bytes) /\ Len(Frames(b)) = h
        /\ \A j \in 1 .. h : Frames(b)[j][1] = b[2 * j - 1] /\ Frames(b)[j] = <<b[2 * j - 1], b[2 * j]>>
    BY <1>7, FramesFacts
  <2> QED BY <2>2, <2>3
<1> HIDE DEF h
<1>10. t.tun = s.tun \o Frames(b) /\ t.framer = Left(b) /\ t.sock = s.sock /\ t.queue = s.queue /\ t.ep = s.ep
  BY DEF Read, b, k
<1>11. /\ Len(t.tun) = Len(s.tun) + h /\ Len(s.tun) \in Nat
       /\ \A j \in 1 .. Len(s.tun) : t.tun[j] = s.tun[j]
       /\ \A j \in 1 .. h : t.tun[Len(s.tun) + j] = Frames(b)[j]
  <2>1. s.tun \in Seq(Bytes \X Bytes) /\ Frames(b) \in Seq(Bytes \X Bytes)
    BY <1>1, <1>9
  <2>2. Len(t.tun) = Len(s.tun) + Len(Frames(b)) /\ Len(s.tun) \in Nat
    BY <1>10, <2>1
  <2>3. \A j \in 1 .. Len(s.tun) : t.tun[j] = s.tun[j]
    BY <1>10, <2>1
  <2>4. \A j \in 1 .. Len(Frames(b)) : t.tun[Len(s.tun) + j] = Frames(b)[j]
    BY <1>10, <2>1
  <2> QED BY <1>9, <2>2, <2>3, <2>4
<1>12. ASSUME NEW j \in 1 .. Len(t.tun)
       PROVE  \/ j \in 1 .. Len(s.tun) /\ t.tun[j] = s.tun[j]
              \/ \E q \in 1 .. h : j = Len(s.tun) + q /\ t.tun[j] = <<b[2 * q - 1], b[2 * q]>>
                                   /\ t.tun[j][1] = b[2 * q - 1]
  <2>1. CASE j \in 1 .. Len(s.tun)
    BY <1>11, <2>1
  <2>2. CASE j \notin 1 .. Len(s.tun)
    <3>1. j - Len(s.tun) \in 1 .. h /\ j = Len(s.tun) + (j - Len(s.tun))
      BY <1>9, <1>11, <2>2, OfSum
    <3>2. t.tun[Len(s.tun) + (j - Len(s.tun))] = Frames(b)[j - Len(s.tun)]
      BY <1>11, <3>1
    <3> QED BY <1>9, <3>1, <3>2
  <2> QED BY <2>1, <2>2
<1>13. \A w \in Written(t) : w \in Written(s) \/ \E q \in 1 .. h : w = b[2 * q - 1].pkt
  BY <1>12, ZenonT(60) DEF Written
<1>14. TunInOrder(t)
  <2>0. TunInOrder(s)
    BY DEF Flow
  <2>1. ASSUME NEW j \in 1 .. Len(t.tun) PROVE t.tun[j] = Frame(t.tun[j][1].pkt)
    <3>1. CASE j \in 1 .. Len(s.tun) /\ t.tun[j] = s.tun[j]
      BY <2>0, <3>1 DEF TunInOrder
    <3>2. CASE \E q \in 1 .. h : t.tun[j] = <<b[2 * q - 1], b[2 * q]>> /\ t.tun[j][1] = b[2 * q - 1]
      BY <1>8, <3>2
    <3> QED BY <1>12, <3>1, <3>2
  <2>2. ASSUME NEW j \in 2 .. Len(t.tun) PROVE t.tun[j - 1][1].pkt < t.tun[j][1].pkt
    <3>0. j \in 1 .. Len(t.tun) /\ j - 1 \in 1 .. Len(t.tun)
      BY <1>9, <1>11
    <3>1. CASE j \in 1 .. Len(s.tun)
      <4>1. j \in 2 .. Len(s.tun) /\ j - 1 \in 1 .. Len(s.tun)
        BY <1>11, <3>1
      <4>2. t.tun[j] = s.tun[j] /\ t.tun[j - 1] = s.tun[j - 1]
        BY <1>11, <3>1, <4>1
      <4> QED BY <2>0, <4>1, <4>2 DEF TunInOrder
    <3>2. CASE j \notin 1 .. Len(s.tun)
      <4>1. PICK q \in 1 .. h : j = Len(s.tun) + q /\ t.tun[j][1] = b[2 * q - 1]
        BY <1>12, <3>0, <3>2
      <4>2. CASE j - 1 \in 1 .. Len(s.tun)
        <5>1. t.tun[j - 1] = s.tun[j - 1] /\ s.tun[j - 1][1].pkt \in Written(s)
          BY <1>11, <4>2 DEF Written
        <5> QED BY <1>3, <1>8, <4>1, <5>1
      <4>3. CASE j - 1 \notin 1 .. Len(s.tun)
        <5>1. PICK r \in 1 .. h : j - 1 = Len(s.tun) + r /\ t.tun[j - 1][1] = b[2 * r - 1]
          BY <1>12, <3>0, <4>3
        <5>2. r < q
          BY <1>11, <4>1, <5>1
        <5> QED BY <1>8, <4>1, <5>1, <5>2
      <4> QED BY <4>2, <4>3
    <3> QED BY <3>1, <3>2
  <2> QED BY <2>1, <2>2 DEF TunInOrder
<1>15. \A d \in Conns : Hears(t, d) => Hears(s, d)
  BY <1>10 DEF Hears
<1>16. ReadInOrder(t, g, i)
  <2>1. \A w \in Written(t) : w <= i /\ \A j \in 1 .. Len(g.queue) : w < g.queue[j]
    <3>1. \A p \in Pkts(k) : p <= i /\ \A j \in 1 .. Len(f.queue) : p < f.queue[j]
      BY DEF Flow, SentInOrder, k
    <3>2. \A w \in Written(s) : w <= i /\ \A j \in 1 .. Len(f.queue) : w < f.queue[j]
      BY DEF Flow, ReadInOrder
    <3>3. g.queue = f.queue
      BY DEF Taken, OnlySock
    <3> QED BY <1>8, <1>13, <3>1, <3>2, <3>3
  <2>2. ASSUME NEW d \in Conns, Hears(t, d)
        PROVE  /\ \A w \in Written(t), p \in Pkts(g.sock[d]) : w < p
               /\ Aligned(Stream(t, g, d)) /\ Len(Begun(t, d)) <= 1
    <3>1. CASE d = c
      <4>1. \A w \in Written(t), p \in Pkts(l) : w < p
        BY <1>3, <1>4, <1>8, <1>13
      <4>2. Begun(t, c) = Left(b) /\ Stream(t, g, c) = Left(b) \o l.out
        BY <1>10 DEF Begun, Stream, l
      <4>3. Left(b) \o l.out \in Seq(Bytes) /\ Rest(a \o k.out, 2 * (Len(b) \div 2), Left(b) \o l.out)
        BY <1>1, <1>4, <1>6, LeftRest DEF k
      <4>4. Len(Left(b)) <= 1
        BY <1>7, LeftFacts
      <4>5. 2 * (Len(b) \div 2) \in Nat /\ (2 * (Len(b) \div 2)) % 2 = 0
        <5>1. Len(b) \in Nat
          BY <1>7
        <5>2. Len(b) \div 2 \in Nat
          BY <5>1, Half
        <5> QED BY <5>1, <5>2, Half
      <4>6. a \o k.out \in Seq(Bytes)
        BY <1>1
      <4>7. Aligned(Left(b) \o l.out)
        BY <1>3, <4>3, <4>5, <4>6, AlignedRest
      <4> QED BY <3>1, <4>1, <4>2, <4>4, <4>7 DEF l
    <3>2. CASE d # c
      <4>1. Hears(s, d) /\ g.sock[d] = f.sock[d] /\ Begun(t, d) = Begun(s, d)
        BY <1>10, <1>15, <2>2, <3>2 DEF Taken, Begun
      <4>2. /\ \A w \in Written(s), p \in Pkts(f.sock[d]) : w < p
            /\ Aligned(Stream(s, f, d)) /\ Len(Begun(s, d)) <= 1
        BY <4>1 DEF Flow, ReadInOrder
      <4>3. \A q \in Pkts(k), p \in Pkts(f.sock[d]) : q < p
        <5>1. c < d
          BY <3>2, <4>1, BoundsAssumption DEF Oldest, Conns
        <5> QED BY <5>1 DEF Flow, SentInOrder, k
      <4>4. \A w \in Written(t), p \in Pkts(f.sock[d]) : w < p
        BY <1>8, <1>13, <4>2, <4>3
      <4> QED BY <4>1, <4>2, <4>4 DEF Stream
    <3> QED BY <3>1, <3>2
  <2> QED BY <2>1, <2>2 DEF ReadInOrder
<1>17. SentInOrder(g, i)
  BY <1>5, LessSent DEF Flow
<1>18. Flow(g, s, m)
  BY <1>5, ListensFlow
<1>19. Less(s, t) /\ \A d \in Conns : t.sock[d].out = s.sock[d].out
  BY <1>10 DEF Less
<1>20. Flow(g, t, m)
  BY <1>18, <1>19, SameOutFlow
<1> QED BY <1>14, <1>16, <1>17, <1>20 DEF Flow

-----------------------------------------------------------------------------
(* The steps of an end.                                                    *)

\* What one end does keeps its state in order and both directions of the traffic.  The reader's
\* packets are numbered up to i, its own up to n and, after the step, up to r.
Keeps(e, m, s, t, f, i, n, r) ==
  /\ EndOK(e, t, m) /\ Short(t)
  /\ Flow(s, f, i) /\ Flow(f, s, n) => Flow(t, f, i) /\ Flow(f, t, r)

\* A quiet end fills no batch.
LEMMA ShortQuiet ==
  ASSUME NEW s, Short(s), NEW t, Quiet(s, t)
  PROVE  Short(t)
<1>1. ASSUME NEW c \in Conns PROVE Len(t.sock[c].batch) < MaxBatch
  <2>1. t.sock[c].batch = s.sock[c].batch \/ t.sock[c].batch = << >>
    BY DEF Quiet, QuietSock
  <2> QED BY <2>1, EmptySeqs, BoundsAssumption DEF Short
<1> QED BY <1>1 DEF Short

\* A quiet step
LEMMA QuietKeeps ==
  ASSUME NEW e \in Ends, NEW m \in 0 .. MaxConns, NEW s, EndOK(e, s, m), Short(s), NEW t, EndOK(e, t, m),
         Quiet(s, t), NEW f, NEW i, NEW n
  PROVE  Keeps(e, m, s, t, f, i, n, n)
<1>1. t \in EndRec
  BY DEF EndOK
<1> QED BY <1>1, QuietFlow, ShortQuiet DEF Keeps

\* A quiet step in which a packet is read and dropped
LEMMA QuietKeepsMore ==
  ASSUME NEW e \in Ends, NEW m \in 0 .. MaxConns, NEW s, EndOK(e, s, m), Short(s), NEW t, EndOK(e, t, m),
         Quiet(s, t), NEW f \in EndRec, NEW i, NEW n \in Nat
  PROVE  Keeps(e, m, s, t, f, i, n, n + 1)
<1>1. t \in EndRec
  BY DEF EndOK
<1> QED BY <1>1, QuietFlow, ShortQuiet, MoreFlow DEF Keeps

\* The timer of a batch
LEMMA FlushKeeps ==
  ASSUME NEW e \in Ends, NEW m \in 0 .. MaxConns, NEW s, EndOK(e, s, m),
         NEW c \in Conns, \A d \in Conns : d # c => Len(s.sock[d].batch) < MaxBatch,
         NEW f \in EndRec, NEW i, NEW n
  PROVE  Keeps(e, m, s, Flush(s, c), f, i, n, n)
<1> DEFINE t == Flush(s, c)
           u == Emptied(s, c)
<1>1. EndOK(e, t, m) /\ (Wrote(s, t, c) \/ Quiet(u, t))
  BY FlushOK
<1>2. /\ EndOK(e, u, m) /\ Quiet(s, u) /\ u.sock[c] = [s.sock[c] EXCEPT !.batch = << >>]
      /\ \A d \in Conns : d # c => u.sock[d] = s.sock[d]
  BY EmptiedOK
<1>3. s \in EndRec /\ t \in EndRec /\ s.sock[c] \in Socket /\ SockOK(s.sock[c], c, m)
  BY <1>1, EndTypes DEF EndOK
<1> HIDE DEF t, u
<1>4. CASE Wrote(s, t, c)
  <2>1. Short(t)
    BY <1>4, EmptySeqs, BoundsAssumption DEF Short, Wrote
  <2>2. Flow(s, f, i) /\ Flow(f, s, n) => Flow(t, f, i) /\ Flow(f, t, n)
    BY <1>3, <1>4, WroteFlow DEF SockOK
  <2> QED BY <1>1, <2>1, <2>2 DEF Keeps, t
<1>5. CASE Quiet(u, t)
  <2>1. u.sock[c].batch = << >>
    BY <1>2, <1>3, EmptySeqs DEF Socket
  <2>2. Short(u)
    <3>1. Len(u.sock[c].batch) = 0 /\ 0 < MaxBatch
      BY <2>1, EmptySeqs, BoundsAssumption
    <3>2. ASSUME NEW d \in Conns PROVE Len(u.sock[d].batch) < MaxBatch
      <4>1. CASE d = c
        BY <3>1, <4>1
      <4>2. CASE d # c
        BY <1>2, <4>2
      <4> QED BY <4>1, <4>2
    <3> QED BY <3>2 DEF Short
  <2>3. Short(t)
    BY <1>5, <2>2, ShortQuiet
  <2>4. Quiet(s, t)
    BY <1>2, <1>5, QuietTrans
  <2>5. Flow(s, f, i) /\ Flow(f, s, n) => Flow(t, f, i) /\ Flow(f, t, n)
    BY <1>3, <2>4, QuietFlow
  <2> QED BY <1>1, <2>3, <2>5 DEF Keeps, t
<1> QED BY <1>1, <1>4, <1>5

\* sendOnWire of an armed bridge
LEMMA SendKeeps ==
  ASSUME NEW e \in Ends, NEW m \in 0 .. MaxConns, NEW s, EndOK(e, s, m), Short(s), s.armed,
         NEW f \in EndRec, NEW i, NEW n \in Nat, n + 1 \in Numbers
  PROVE  Keeps(e, m, s, SendOnWire(s, e, n + 1), f, i, n, n + 1)
<1> DEFINE c == s.ep
           p == n + 1
           u == SendOnWire(s, e, p)
<1>1. PICK t : /\ EndOK(e, t, m) /\ Batched(s, t, c, p)
               /\ u = IF Len(t.sock[c].batch) >= MaxBatch THEN Flush(t, c) ELSE t
  BY SendOK
<1> HIDE DEF u
<1>2. c \in Conns /\ s.queue = << >> /\ \A d \in Conns : d > c => Pkts(s.sock[d]) = {}
  BY Newest
<1>3. s \in EndRec /\ t \in EndRec /\ t.sock[c] \in Socket
  BY <1>1, <1>2, EndTypes DEF EndOK
<1>4. Flow(s, f, i) /\ Flow(f, s, n) => Flow(t, f, i) /\ Flow(f, t, p)
  BY <1>1, <1>2, <1>3, BatchedFlow
<1>5. \A d \in Conns : d # c => Len(t.sock[d].batch) < MaxBatch
  BY <1>1 DEF Short, Batched
<1>6. CASE Len(t.sock[c].batch) >= MaxBatch
  <2>1. u = Flush(t, c)
    BY <1>1, <1>6
  <2>2. Keeps(e, m, t, u, f, i, p, p)
    BY <1>1, <1>2, <1>5, <2>1, FlushKeeps
  <2> QED BY <1>4, <2>2 DEF Keeps, u
<1>7. CASE ~(Len(t.sock[c].batch) >= MaxBatch)
  <2>1. u = t
    BY <1>1, <1>7
  <2>2. Len(t.sock[c].batch) < MaxBatch
    <3>1. Len(t.sock[c].batch) \in Nat
      BY <1>3, SockTypes
    <3> QED BY <1>7, <3>1, BoundsAssumption
  <2>3. Short(t)
    BY <1>5, <2>2 DEF Short
  <2> QED BY <1>1, <1>4, <2>1, <2>3 DEF Keeps, u
<1> QED BY <1>6, <1>7

\* A packet from the TUN
LEMMA OutboundKeeps ==
  ASSUME NEW e \in Ends, NEW m \in 0 .. MaxConns, NEW s, EndOK(e, s, m), Short(s),
         NEW f \in EndRec, NEW i, NEW n \in Nat, n + 1 \in Numbers
  PROVE  Keeps(e, m, s, TunOutbound(s, e, n + 1), f, i, n, n + 1)
<1> DEFINE p == n + 1
           t == TunOutbound(s, e, p)
<1>1. CASE s.armed
  BY <1>1, SendKeeps DEF TunOutbound
<1>2. CASE ~s.armed /\ (e = "exit" \/ s.cooling)
  <2>1. t = s
    BY <1>2 DEF TunOutbound
  <2> QED BY <2>1, QuietSelf, QuietKeepsMore
<1>3. CASE ~s.armed /\ ~(e = "exit" \/ s.cooling) /\ CanRearm(s) /\ ~Closing(s.sock[s.ep])
  <2>1. e = "client" /\ t = SendOnWire(Rearm(s), e, p)
    BY <1>3 DEF TunOutbound, Ends
  <2> DEFINE u == Rearm(s)
  <2>2. EndOK(e, u, m) /\ Quiet(s, u) /\ u.armed
    BY <1>3, <2>1, RearmOK
  <2> HIDE DEF u
  <2>3. Keeps(e, m, s, u, f, i, n, n)
    BY <2>2, QuietKeeps
  <2>4. Short(u)
    BY <2>3 DEF Keeps
  <2>5. Keeps(e, m, u, SendOnWire(u, e, n + 1), f, i, n, n + 1)
    BY <2>2, <2>4, SendKeeps
  <2> QED BY <2>1, <2>3, <2>5 DEF Keeps, u
<1>4. CASE ~s.armed /\ ~(e = "exit" \/ s.cooling) /\ ~(CanRearm(s) /\ ~Closing(s.sock[s.ep]))
  <2>1. e = "client" /\ t = Enqueue(s, p)
    BY <1>4 DEF TunOutbound, Ends
  <2>2. EndOK(e, t, m) /\ Waits(s, t, p)
    BY <1>4, <2>1, EnqueueOK
  <2> HIDE DEF t
  <2>3. Short(t) /\ t \in EndRec
    BY <2>2 DEF Short, Waits, EndOK
  <2>4. Flow(s, f, i) /\ Flow(f, s, n) => Flow(t, f, i) /\ Flow(f, t, p)
    BY <2>1, <2>2, <2>3, WaitsFlow
  <2> QED BY <2>2, <2>3, <2>4 DEF Keeps, t
<1> QED BY <1>1, <1>2, <1>3, <1>4

\* A connection is accepted.
LEMMA AcceptKeeps ==
  ASSUME NEW m \in 0 .. MaxConns, NEW s, EndOK("exit", s, m), Short(s), NEW c \in Conns,
         s.sock[c].st = "backlog", \A d \in 1 .. c - 1 : s.sock[d].st # "backlog",
         NEW f, NEW i, NEW n
  PROVE  LET t == ReconnectWire([CloseEndpoint(s, s.active) EXCEPT !.active = c, !.sock[c].st = "open"], c)
         IN Keeps("exit", m, s, t, f, i, n, n)
<1> DEFINE t == ReconnectWire([CloseEndpoint(s, s.active) EXCEPT !.active = c, !.sock[c].st = "open"], c)
<1>1. EndOK("exit", t, m) /\ Accepted(s, t, c)
  BY AcceptOK
<1> HIDE DEF t
<1>2. t \in EndRec
  BY <1>1 DEF EndOK
<1>3. Short(t)
  BY <1>1 DEF Short, Accepted, SameData
<1>4. Flow(s, f, i) /\ Flow(f, s, n) => Flow(t, f, i) /\ Flow(f, t, n)
  BY <1>1, <1>2, AcceptedFlow
<1> QED BY <1>1, <1>3, <1>4 DEF Keeps, t

-----------------------------------------------------------------------------
(* Chunks and connections, which concern both ends.                        *)

\* A chunk changes what has been written and begun, and nothing else.
LEMMA ReadOK ==
  ASSUME NEW e \in Ends, NEW m \in 0 .. MaxConns, NEW s, EndOK(e, s, m), NEW t \in EndRec,
         t.sock = s.sock, t.queue = s.queue, t.ep = s.ep, t.busy = s.busy, t.active = s.active,
         t.connecting = s.connecting, t.drain = s.drain, t.armed = s.armed, t.wired = s.wired,
         t.writer = s.writer
  PROVE  EndOK(e, t, m)
<1>1. WireOK(t) /\ (e = "client" => ClientOK(t, m)) /\ (e = "exit" => ExitOK(t))
  BY DEF EndOK, WireOK, ClientOK, ExitOK, BusyOK, Live
<1> QED BY <1>1 DEF EndOK

\* What is left to read of a socket.
LEMMA TakenOK ==
  ASSUME NEW e \in Ends, NEW m \in 0 .. MaxConns, NEW s, EndOK(e, s, m), Short(s), NEW c \in Conns,
         NEW out \in Seq(Bytes), s.sock[c].st \in Unused => out = << >>, NEW k, Rest(s.sock[c].out, k, out)
  PROVE  LET t == [s EXCEPT !.sock[c].out = out] IN
         EndOK(e, t, m) /\ Short(t) /\ t \in EndRec /\ Taken(s, t, c, k)
<1> DEFINE l == [s.sock[c] EXCEPT !.out = out]
           t == [s EXCEPT !.sock[c] = l]
<1>1. s \in EndRec /\ s.sock[c] \in Socket /\ SockOK(s.sock[c], c, m)
  BY EndTypes DEF EndOK
<1>2. /\ l \in Socket /\ l.st = s.sock[c].st /\ l.ev = s.sock[c].ev /\ l.eof = s.sock[c].eof
      /\ l.fin = s.sock[c].fin /\ l.grace = s.sock[c].grace /\ l.out = out
      /\ l.batch = s.sock[c].batch
  BY <1>1 DEF Socket
<1>3. [s EXCEPT !.sock[c].out = out] = t
  OBVIOUS
<1> HIDE DEF l
<1>4. SockOK(l, c, m)
  BY <1>1, <1>2 DEF SockOK
<1>5. s.busy # 0 /\ s.ep = c => l.st = "open" /\ l.ev = {} /\ ~l.fin /\ ~l.eof /\ ~l.grace
  BY <1>2, BusyFree
<1>6. EndOK(e, t, m)
  BY <1>2, <1>4, <1>5, SockStep
<1>7. t \in EndRec /\ OnlySock(s, t) /\ t.sock[c] = l /\ \A d \in Conns : d # c => t.sock[d] = s.sock[d]
  BY <1>1, <1>2, PutSock
<1> HIDE DEF t
<1>8. Short(t)
  BY <1>2, <1>7 DEF Short
<1>9. Taken(s, t, c, k)
  BY <1>2, <1>7 DEF Taken
<1> QED BY <1>3, <1>6, <1>7, <1>8, <1>9

\* The endpoint of a wire is the oldest connection that its end hears.
LEMMA HearsNewer ==
  ASSUME NEW e \in Ends, NEW m \in 0 .. MaxConns, NEW s, EndOK(e, s, m), NEW c \in Conns, s.ep = c
  PROVE  Oldest(s, c)
<1> SUFFICES ASSUME NEW d \in Conns, Hears(s, d), d # c PROVE d > c
  BY DEF Oldest
<1>1. s.sock[d].st = "backlog"
  BY DEF Hears
<1>2. e = "exit"
  BY <1>1 DEF EndOK, ClientOK, Ends
<1>3. c # 0 /\ s.active = c
  BY <1>2, BoundsAssumption DEF EndOK, ExitOK, Conns
<1> QED BY <1>1, <1>2, <1>3 DEF EndOK, ExitOK

\* A connection that is open and has no listeners, or is drained, is not heard.
LEMMA NotWired ==
  ASSUME NEW e \in Ends, NEW m \in 0 .. MaxConns, NEW s, EndOK(e, s, m), NEW c \in Conns,
         s.sock[c].st = "open", s.wired # c
  PROVE  /\ ~(s.armed /\ s.ep = c)
         /\ s.drain # c => ~Hears(s, c)
<1>1. c # 0 /\ WireOK(s)
  BY BoundsAssumption DEF Conns, EndOK
<1>2. ~(s.armed /\ s.ep = c)
  BY <1>1 DEF WireOK
<1>3. ASSUME s.drain # c, Hears(s, c) PROVE FALSE
  <2>1. s.ep = c /\ ~s.armed /\ Live(s, s.ep)
    BY <1>1, <1>2, <1>3 DEF Hears, Live
  <2>2. CASE e = "client"
    BY <1>3, <2>1, <2>2 DEF EndOK, ClientOK
  <2>3. CASE e = "exit"
    BY <1>1, <2>1, <2>3 DEF EndOK, ExitOK
  <2> QED BY <2>2, <2>3 DEF Ends
<1> QED BY <1>2, <1>3

\* data, as heard by the bridge
LEMMA DataKeeps ==
  ASSUME NEW e \in Ends, NEW o \in Ends, NEW m \in 0 .. MaxConns,
         NEW s, EndOK(e, s, m), Short(s), NEW f, EndOK(o, f, m), NEW c \in Conns,
         s.sock[c].st = "open", NEW n \in 1 .. Len(f.sock[c].out), NEW g \in EndRec, Taken(f, g, c, n),
         NEW i, NEW k, Flow(s, f, i), Flow(f, s, k), NEW t, t = OnData(s, e, c, SubSeq(f.sock[c].out, 1, n))
  PROVE  EndOK(e, t, m) /\ Short(t) /\ Flow(t, g, i) /\ Flow(g, t, k)
<1>1. /\ s \in EndRec /\ f \in EndRec /\ f.sock[c].out \in Seq(Bytes) /\ n \in 0 .. Len(f.sock[c].out)
      /\ c # 0 /\ c \in 0 .. MaxConns
  BY EndTypes, SockTypes, BoundsAssumption DEF EndOK, Conns
<1>2. CASE s.wired = c
  <2> DEFINE b == BumpActivity(s, e)
             q == f.sock[c].out
             x == Chunk(b, q, n)
  <2>1. t = Push(b, c, SubSeq(q, 1, n))
    BY <1>2 DEF OnData
  <2>2. EndOK(e, b, m) /\ Quiet(s, b) /\ b \in EndRec /\ b.sock = s.sock /\ b.ep = s.ep
    BY BumpOK
  <2>3. s.ep = c
    BY <1>1, <1>2 DEF EndOK, WireOK
  <2> HIDE DEF b
  <2>4. Flow(b, f, i) /\ Flow(f, b, k) /\ Short(b)
    BY <2>2, QuietFlow, ShortQuiet
  <2>5. Hears(b, c) /\ Begun(b, c) = b.framer
    BY <2>2, <2>3 DEF Hears, Begun
  <2>6. Aligned(b.framer \o q)
    BY <2>4, <2>5 DEF Flow, ReadInOrder, Stream
  <2>q. q \in Seq(Bytes) /\ n \in 1 .. Len(q)
    BY <1>1
  <2> HIDE DEF q, x
  <2>7. /\ t \in EndRec /\ Read(b, t, x)
        /\ t.busy = b.busy /\ t.active = b.active /\ t.connecting = b.connecting
        /\ t.drain = b.drain /\ t.armed = b.armed /\ t.wired = b.wired /\ t.writer = b.writer
    BY <2>1, <2>2, <2>6, <2>q, PushFacts DEF x
  <2>8. t.sock = b.sock /\ t.queue = b.queue /\ t.ep = b.ep
    BY <2>7 DEF Read
  <2>9. EndOK(e, t, m)
    BY <2>2, <2>7, <2>8, ReadOK
  <2>12. Oldest(b, c)
    BY <2>2, <2>3, HearsNewer
  <2>13. Flow(t, g, i) /\ Flow(g, t, k)
    <3>1. Read(b, t, Chunk(b, f.sock[c].out, n))
      BY <2>7 DEF x, q
    <3>2. b \in EndRec /\ t \in EndRec /\ f \in EndRec /\ b.ep = c /\ b.sock[c].st = "open"
      BY <1>1, <2>2, <2>3, <2>7
    <3>3. Reads(b, t, f, g, c, n)
      BY <2>12, <3>1, <3>2 DEF Reads
    <3> QED BY <2>4, <3>3, DataFlow
  <2>14. Short(t)
    BY <2>4, <2>8 DEF Short
  <2> QED BY <2>9, <2>13, <2>14
<1>3. CASE s.wired # c /\ s.drain = c
  <2> DEFINE u == ClearEndpointRef([s EXCEPT !.drain = 0], c)
  <2>1. t = Reset(u, c)
    BY <1>3 DEF OnData
  <2>2. EndOK(e, u, m) /\ Quiet(s, u) /\ u.ep # c
    BY <1>1, <1>3, NotWired, ClearRefOK
  <2> HIDE DEF u
  <2>3. EndOK(e, t, m) /\ Quiet(u, t)
    BY <1>1, <2>1, <2>2, ResetOK DEF Free
  <2>4. Quiet(s, t) /\ t \in EndRec
    BY <2>2, <2>3, QuietTrans DEF EndOK
  <2>5. ~Hears(t, c)
    BY <1>1, <2>2, <2>3, <2>4 DEF Hears, Quiet, QuietSock
  <2>6. Flow(t, f, i) /\ Flow(f, t, k) /\ Short(t)
    BY <2>4, QuietFlow, ShortQuiet
  <2>7. Flow(t, g, i) /\ Flow(g, t, k)
    BY <1>1, <2>5, <2>6, TakenFlow
  <2> QED BY <2>3, <2>6, <2>7
<1>4. CASE s.wired # c /\ s.drain # c
  <2>1. t = s
    BY <1>4 DEF OnData
  <2>2. ~Hears(s, c)
    BY <1>4, NotWired
  <2>3. Flow(s, g, i) /\ Flow(g, s, k)
    BY <1>1, <2>2, TakenFlow
  <2> QED BY <2>1, <2>3
<1> QED BY <1>2, <1>3, <1>4

-----------------------------------------------------------------------------
(* The invariant.                                                          *)

\* Every end is in order, and so is the traffic both ways.
Whole(m, a, r) ==
  (\A e \in Ends : EndOK(e, a[e], m) /\ Short(a[e])) /\ Order(a, r)

BridgeInv ==
  /\ keep \in KeepAlives /\ made \in 0 .. MaxConns /\ restarts \in 0 .. MaxRestarts
  /\ read \in [Ends -> Nat] /\ \A e \in Ends : read[e] <= MaxPackets[e]
  /\ at \in [Ends -> EndRec] /\ Whole(made, at, read)

\* An end and its peer are both ends.
LEMMA BothEnds ==
  ASSUME NEW e \in Ends, NEW o, o = Peer(e), NEW m, NEW a, NEW r,
         EndOK(e, a[e], m), Short(a[e]), EndOK(o, a[o], m), Short(a[o]),
         Flow(a[e], a[o], r[o]), Flow(a[o], a[e], r[e])
  PROVE  Whole(m, a, r)
<1>1. o \in Ends /\ Peer(o) = e /\ \A d \in Ends : d = e \/ d = o
  BY DEF Peer, Ends
<1>2. ASSUME NEW d \in Ends PROVE EndOK(d, a[d], m) /\ Short(a[d]) /\ Flow(a[d], a[Peer(d)], r[Peer(d)])
  <2>1. CASE d = e
    BY <2>1
  <2>2. CASE d = o
    BY <1>1, <2>2
  <2> QED BY <1>1, <2>1, <2>2
<1> QED BY <1>2 DEF Whole, Order

\* A step of one end
LEMMA TurnOK ==
  ASSUME BridgeInv, NEW e \in Ends, NEW t, NEW n \in Nat, n <= MaxPackets[e],
         Keeps(e, made, at[e], t, at[Peer(e)], read[Peer(e)], read[e], n),
         Turn(e, t), keep' = keep, made' = made, restarts' \in 0 .. MaxRestarts,
         read' = [read EXCEPT ![e] = n]
  PROVE  BridgeInv'
<1> DEFINE o == Peer(e)
<1>1. o \in Ends /\ o # e /\ Peer(o) = e
  BY DEF Peer, Ends
<1>2. /\ at \in [Ends -> EndRec] /\ read \in [Ends -> Nat] /\ \A d \in Ends : read[d] <= MaxPackets[d]
      /\ keep \in KeepAlives /\ made \in 0 .. MaxConns /\ EndOK(o, at[o], made) /\ Short(at[o])
      /\ Flow(at[e], at[o], read[o]) /\ Flow(at[o], at[e], read[e])
  BY <1>1 DEF BridgeInv, Whole, Order
<1>3. EndOK(e, t, made) /\ Short(t) /\ Flow(t, at[o], read[o]) /\ Flow(at[o], t, n)
  BY <1>2 DEF Keeps
<1>4. at' \in [Ends -> EndRec] /\ at'[e] = t /\ at'[o] = at[o]
  BY <1>1, <1>2, <1>3 DEF Turn, EndOK
<1>5. read' \in [Ends -> Nat] /\ read'[e] = n /\ read'[o] = read[o] /\ \A d \in Ends : read'[d] <= MaxPackets[d]
  BY <1>1, <1>2
<1> HIDE DEF o
<1>6. Whole(made', at', read')
  BY <1>2, <1>3, <1>4, <1>5, BothEnds DEF o
<1> QED BY <1>2, <1>4, <1>5, <1>6 DEF BridgeInv

\* A step of one end that is quiet
LEMMA QuietTurn ==
  ASSUME BridgeInv, NEW e \in Ends, NEW t, EndOK(e, t, made), Quiet(at[e], t), Turn(e, t),
         keep' = keep, made' = made, read' = read, restarts' \in 0 .. MaxRestarts
  PROVE  BridgeInv'
<1>1. /\ made \in 0 .. MaxConns /\ EndOK(e, at[e], made) /\ Short(at[e]) /\ read[e] \in Nat
      /\ read[e] <= MaxPackets[e] /\ read \in [Ends -> Nat]
  BY DEF BridgeInv, Whole
<1>2. Keeps(e, made, at[e], t, at[Peer(e)], read[Peer(e)], read[e], read[e])
  BY <1>1, QuietKeeps
<1>3. read' = [read EXCEPT ![e] = read[e]]
  BY <1>1
<1> QED BY <1>1, <1>2, <1>3, TurnOK

\* What holds of the ends before a step
LEMMA EndNow ==
  ASSUME BridgeInv, NEW e \in Ends
  PROVE  /\ EndOK(e, at[e], made) /\ Short(at[e]) /\ made \in 0 .. MaxConns /\ at[e] \in EndRec
         /\ read[e] \in Nat /\ read[e] <= MaxPackets[e] /\ restarts \in 0 .. MaxRestarts
         /\ Flow(at[e], at[Peer(e)], read[Peer(e)])
BY DEF BridgeInv, Whole, Order

\* The steps of one end keep the invariant.
LEMMA ReadTunKeeps ==
  ASSUME BridgeInv, NEW e \in Ends, ReadTun(e)
  PROVE  BridgeInv'
<1> DEFINE n == read[e]
           t == TunOutbound(at[e], e, n + 1)
           f == at[Peer(e)]
<1>1. /\ EndOK(e, at[e], made) /\ Short(at[e]) /\ made \in 0 .. MaxConns /\ n \in Nat /\ f \in EndRec
      /\ restarts \in 0 .. MaxRestarts
  BY EndNow, Peers
<1>2. n + 1 \in Nat /\ n + 1 <= MaxPackets[e] /\ n + 1 \in Numbers
  <2>1. n < MaxPackets[e] /\ MaxPackets["client"] \in Nat /\ MaxPackets["exit"] \in Nat
    BY BoundsAssumption DEF ReadTun, Ends
  <2>2. e = "client" \/ e = "exit"
    BY DEF Ends
  <2> HIDE DEF n
  <2> QED BY <1>1, <2>1, <2>2 DEF Numbers
<1>3. /\ Turn(e, t) /\ keep' = keep /\ made' = made /\ restarts' = restarts
      /\ read' = [read EXCEPT ![e] = n + 1]
  BY DEF ReadTun
<1> HIDE DEF n, f
<1>4. Keeps(e, made, at[e], t, f, read[Peer(e)], n, n + 1)
  BY <1>1, <1>2, OutboundKeeps
<1> HIDE DEF t
<1> QED BY <1>1, <1>2, <1>3, <1>4, TurnOK DEF n, f

\* A flush that the timer asked for
LEMMA FlushTimerKeeps ==
  ASSUME BridgeInv, NEW e \in Ends, NEW c \in Conns, FlushTimer(e, c)
  PROVE  BridgeInv'
<1> DEFINE n == read[e]
           t == Flush(at[e], c)
           f == at[Peer(e)]
<1>1. /\ EndOK(e, at[e], made) /\ Short(at[e]) /\ made \in 0 .. MaxConns /\ n \in Nat /\ f \in EndRec
      /\ restarts \in 0 .. MaxRestarts /\ n <= MaxPackets[e]
  BY EndNow, Peers
<1>2. /\ Turn(e, t) /\ keep' = keep /\ made' = made /\ restarts' = restarts
      /\ read' = [read EXCEPT ![e] = n]
  BY DEF FlushTimer, BridgeInv
<1>3. \A d \in Conns : d # c => Len(at[e].sock[d].batch) < MaxBatch
  BY <1>1 DEF Short
<1> HIDE DEF n, f
<1>4. Keeps(e, made, at[e], t, f, read[Peer(e)], n, n)
  BY <1>1, <1>3, FlushKeeps
<1> HIDE DEF t
<1> QED BY <1>1, <1>2, <1>4, TurnOK DEF n, f

\* The exit accepts a connection.
LEMMA AcceptKept ==
  ASSUME BridgeInv, NEW c \in Conns, Accept(c)
  PROVE  BridgeInv'
<1> DEFINE e == "exit"
           s == at[e]
           n == read[e]
           t == ReconnectWire([CloseEndpoint(s, s.active) EXCEPT !.active = c, !.sock[c].st = "open"], c)
<1>1. e \in Ends
  BY DEF Ends
<1>2. /\ EndOK("exit", s, made) /\ Short(s) /\ made \in 0 .. MaxConns /\ n \in Nat
      /\ restarts \in 0 .. MaxRestarts /\ n <= MaxPackets[e]
  BY <1>1, EndNow
<1>3. /\ Turn(e, t) /\ keep' = keep /\ made' = made /\ restarts' = restarts
      /\ read' = [read EXCEPT ![e] = n]
      /\ s.sock[c].st = "backlog" /\ \A d \in 1 .. c - 1 : s.sock[d].st # "backlog"
  BY DEF Accept, BridgeInv
<1> HIDE DEF s, n
<1>4. Keeps("exit", made, s, t, at[Peer(e)], read[Peer(e)], n, n)
  BY <1>2, <1>3, AcceptKeeps
<1> HIDE DEF t
<1> QED BY <1>1, <1>2, <1>3, <1>4, TurnOK DEF n, s

\* lazyConnect has failed.
LEMMA ConnectFailsKeeps ==
  ASSUME BridgeInv, ConnectFails
  PROVE  BridgeInv'
<1> DEFINE e == "client"
           s == at[e]
           t == [s EXCEPT !.connecting = FALSE, !.armed = FALSE, !.ep = 0, !.writer = 0]
<1>1. e \in Ends
  BY DEF Ends
<1>2. EndOK(e, s, made) /\ made \in 0 .. MaxConns /\ restarts \in 0 .. MaxRestarts /\ s \in EndRec
  BY <1>1, EndNow
<1>3. /\ Turn(e, t) /\ keep' = keep /\ made' = made /\ restarts' = restarts /\ read' = read
      /\ s.connecting
  BY DEF ConnectFails
<1> HIDE DEF s
<1>4. s.wired = 0
  BY <1>2, <1>3 DEF EndOK, ClientOK, WireOK
<1>5. /\ t \in EndRec /\ t.sock = s.sock /\ t.busy = s.busy /\ t.active = s.active /\ t.tun = s.tun
      /\ ~t.connecting /\ t.queue = s.queue /\ t.drain = s.drain /\ t.ep = 0 /\ ~t.armed
      /\ t.wired = s.wired /\ t.writer = 0
  BY <1>2 DEF EndRec
<1> HIDE DEF t
<1>6. EndOK(e, t, made) /\ Quiet(s, t)
  BY <1>1, <1>2, <1>4, <1>5, Unwire
<1> QED BY <1>1, <1>2, <1>3, <1>6, QuietTurn DEF s

\* The pause after an idle disconnection is over.
LEMMA CooldownKeeps ==
  ASSUME BridgeInv, CooldownOver
  PROVE  BridgeInv'
<1> DEFINE e == "client"
           s == at[e]
           t == [s EXCEPT !.cooling = FALSE]
<1>1. e \in Ends
  BY DEF Ends
<1>2. EndOK(e, s, made) /\ made \in 0 .. MaxConns /\ restarts \in 0 .. MaxRestarts /\ s \in EndRec
  BY <1>1, EndNow
<1>3. Turn(e, t) /\ keep' = keep /\ made' = made /\ restarts' = restarts /\ read' = read
  BY DEF CooldownOver
<1> HIDE DEF s
<1>5. /\ t \in EndRec /\ t.sock = s.sock /\ t.busy = s.busy /\ t.active = s.active /\ t.tun = s.tun
      /\ t.framer = s.framer /\ t.connecting = s.connecting /\ t.queue = s.queue /\ t.drain = s.drain
      /\ t.ep = s.ep /\ t.armed = s.armed /\ t.wired = s.wired /\ t.writer = s.writer
  BY <1>2 DEF EndRec
<1> HIDE DEF t
<1>6. EndOK(e, t, made) /\ Quiet(s, t)
  BY <1>1, <1>2, <1>5, Cosmetic
<1> QED BY <1>1, <1>2, <1>3, <1>6, QuietTurn DEF s

\* The wire was idle.
LEMMA IdleTimerKeeps ==
  ASSUME BridgeInv, NEW e \in Ends, IdleTimer(e)
  PROVE  BridgeInv'
<1> DEFINE s == at[e]
           u == [s EXCEPT !.idle = FALSE]
           t == IF e = "client" THEN ClientIdleDisarm(u) ELSE ExitIdleClose(u)
<1>2. EndOK(e, s, made) /\ made \in 0 .. MaxConns /\ restarts \in 0 .. MaxRestarts /\ s \in EndRec
  BY EndNow
<1>3. Turn(e, t) /\ keep' = keep /\ made' = made /\ restarts' = restarts /\ read' = read
  BY DEF IdleTimer
<1> HIDE DEF s
<1>5. /\ u \in EndRec /\ u.sock = s.sock /\ u.busy = s.busy /\ u.active = s.active /\ u.tun = s.tun
      /\ u.framer = s.framer /\ u.connecting = s.connecting /\ u.queue = s.queue /\ u.drain = s.drain
      /\ u.ep = s.ep /\ u.armed = s.armed /\ u.wired = s.wired /\ u.writer = s.writer
  BY <1>2 DEF EndRec
<1> HIDE DEF u
<1>6. EndOK(e, u, made) /\ Quiet(s, u)
  BY <1>2, <1>5, Cosmetic
<1>7. EndOK(e, t, made) /\ Quiet(u, t)
  <2>1. CASE e = "client"
    BY <1>2, <1>6, <2>1, DisarmOK
  <2>2. CASE e = "exit"
    BY <1>2, <1>6, <2>2, IdleCloseOK
  <2> QED BY <2>1, <2>2 DEF Ends
<1> HIDE DEF t
<1>8. Quiet(s, t)
  BY <1>6, <1>7, QuietTrans
<1> QED BY <1>2, <1>3, <1>7, <1>8, QuietTurn DEF s

\* The peer has ended its side.
LEMMA EndKeeps ==
  ASSUME BridgeInv, NEW e \in Ends, NEW c \in Conns, End(e, c)
  PROVE  BridgeInv'
<1> DEFINE s == at[e]
           t == [OnEnd([s EXCEPT !.sock[c].eof = TRUE], c) EXCEPT !.sock[c].fin = TRUE]
<1>1. EndOK(e, s, made) /\ made \in 0 .. MaxConns /\ restarts \in 0 .. MaxRestarts
  BY EndNow
<1>2. /\ Turn(e, t) /\ keep' = keep /\ made' = made /\ restarts' = restarts /\ read' = read
      /\ s.sock[c].st = "open" /\ \A d \in 1 .. c - 1 : s.sock[d].ev = {}
  BY DEF End, Settled
<1> HIDE DEF s
<1>3. Free(s, c)
  BY <1>1, <1>2, SettledFree
<1>4. EndOK(e, t, made) /\ Quiet(s, t)
  BY <1>1, <1>2, <1>3, EndStepOK
<1> HIDE DEF t
<1> QED BY <1>1, <1>2, <1>4, QuietTurn DEF s

\* Both sides have ended.
LEMMA FinishKeeps ==
  ASSUME BridgeInv, NEW e \in Ends, NEW c \in Conns, Finish(e, c)
  PROVE  BridgeInv'
<1> DEFINE s == at[e]
           t == [s EXCEPT !.sock[c] = Gone(@, {"close"})]
<1>1. EndOK(e, s, made) /\ made \in 0 .. MaxConns /\ restarts \in 0 .. MaxRestarts
  BY EndNow
<1>2. /\ Turn(e, t) /\ keep' = keep /\ made' = made /\ restarts' = restarts /\ read' = read
      /\ s.sock[c].st = "open" /\ s.sock[c].eof
  BY DEF Finish
<1> HIDE DEF s
<1>3. Free(s, c)
  BY <1>1, <1>2, BusyFree DEF Free
<1>4. EndOK(e, t, made) /\ Quiet(s, t)
  BY <1>1, <1>2, <1>3, GoneOK
<1> HIDE DEF t
<1> QED BY <1>1, <1>2, <1>4, QuietTurn DEF s

\* error
LEMMA ErrorKeeps ==
  ASSUME BridgeInv, NEW e \in Ends, NEW c \in Conns, Error(e, c)
  PROVE  BridgeInv'
<1> DEFINE s == at[e]
           t == OnError(s, e, c)
<1>1. EndOK(e, s, made) /\ made \in 0 .. MaxConns /\ restarts \in 0 .. MaxRestarts
  BY EndNow
<1>2. /\ Turn(e, t) /\ keep' = keep /\ made' = made /\ restarts' = restarts /\ read' = read
      /\ "error" \in s.sock[c].ev
  BY DEF Error
<1> HIDE DEF s
<1>3. EndOK(e, t, made) /\ Quiet(s, t)
  BY <1>1, <1>2, ErrorOK
<1> HIDE DEF t
<1> QED BY <1>1, <1>2, <1>3, QuietTurn DEF s

\* close
LEMMA CloseKeeps ==
  ASSUME BridgeInv, NEW e \in Ends, NEW c \in Conns, Close(e, c)
  PROVE  BridgeInv'
<1> DEFINE s == at[e]
           t == [OnClose(s, c) EXCEPT !.busy = IF @ = c THEN 0 ELSE @,
                                      !.sock[c] = [@ EXCEPT !.ev = {}, !.grace = FALSE]]
<1>1. EndOK(e, s, made) /\ made \in 0 .. MaxConns /\ restarts \in 0 .. MaxRestarts
  BY EndNow
<1>2. /\ Turn(e, t) /\ keep' = keep /\ made' = made /\ restarts' = restarts /\ read' = read
      /\ s.sock[c].ev = {"close"}
  BY DEF Close
<1> HIDE DEF s
<1>3. EndOK(e, t, made) /\ Quiet(s, t)
  BY <1>1, <1>2, CloseOK
<1> HIDE DEF t
<1> QED BY <1>1, <1>2, <1>3, QuietTurn DEF s

\* The grace timer of a close
LEMMA GraceKeeps ==
  ASSUME BridgeInv, NEW c \in Conns, GraceTimer(c)
  PROVE  BridgeInv'
<1> DEFINE e == "exit"
           s == at[e]
           t == [Reset(s, c) EXCEPT !.busy = IF @ = c THEN 0 ELSE @, !.sock[c].grace = FALSE]
<1>0. e \in Ends
  BY DEF Ends
<1>1. EndOK(e, s, made) /\ made \in 0 .. MaxConns /\ restarts \in 0 .. MaxRestarts
  BY <1>0, EndNow
<1>2. /\ Turn(e, t) /\ keep' = keep /\ made' = made /\ restarts' = restarts /\ read' = read
      /\ s.sock[c].grace
  BY DEF GraceTimer
<1> HIDE DEF s
<1>3. EndOK(e, t, made) /\ Quiet(s, t)
  BY <1>1, <1>2, GraceOK
<1> HIDE DEF t
<1> QED BY <1>0, <1>1, <1>2, <1>3, QuietTurn DEF s

\* A process dies and is started again.
LEMMA RestartKeeps ==
  ASSUME BridgeInv, NEW e \in Ends, Restart(e)
  PROVE  BridgeInv'
<1> DEFINE s == at[e]
           t == Restarted(e, s)
<1>1. EndOK(e, s, made) /\ made \in 0 .. MaxConns /\ restarts \in 0 .. MaxRestarts
  BY EndNow
<1>2. Turn(e, t) /\ keep' = keep /\ made' = made /\ read' = read /\ restarts' \in 0 .. MaxRestarts
  BY <1>1, BoundsAssumption DEF Restart
<1> HIDE DEF s
<1>3. EndOK(e, t, made) /\ Quiet(s, t)
  BY <1>1, RestartedOK
<1> HIDE DEF t
<1> QED BY <1>1, <1>2, <1>3, QuietTurn DEF s

\* The steps that concern both ends
LEMMA PairOK ==
  ASSUME BridgeInv, NEW e \in Ends, NEW o, o = Peer(e), NEW t, NEW g, EndOK(e, t, made), Short(t),
         EndOK(o, g, made), Short(g), Flow(t, g, read[o]), Flow(g, t, read[e]),
         at' = [at EXCEPT ![e] = t, ![o] = g],
         keep' = keep, made' = made, read' = read, restarts' = restarts
  PROVE  BridgeInv'
<1>1. o \in Ends /\ o # e
  BY Peers
<1>2. at' \in [Ends -> EndRec] /\ at'[e] = t /\ at'[o] = g
  BY <1>1 DEF BridgeInv, EndOK
<1>3. Whole(made', at', read')
  BY <1>2, BothEnds, ZenonT(30)
<1> QED BY <1>2, <1>3 DEF BridgeInv

\* A chunk arrives.
LEMMA DataKept ==
  ASSUME BridgeInv, NEW e \in Ends, NEW c \in Conns, Data(e, c)
  PROVE  BridgeInv'
<1> DEFINE o == Peer(e)
           s == at[e]
           f == at[o]
           q == f.sock[c].out
<1>1. o \in Ends /\ o # e /\ Peer(o) = e
  BY DEF Peer, Ends
<1>2. /\ EndOK(e, s, made) /\ Short(s) /\ made \in 0 .. MaxConns /\ EndOK(o, f, made) /\ Short(f)
      /\ Flow(s, f, read[o]) /\ Flow(f, s, read[e]) /\ at \in [Ends -> EndRec]
  BY <1>1, EndNow DEF BridgeInv
<1>3. PICK n \in 1 .. Len(q) :
        at' = [at EXCEPT ![e] = OnData(s, e, c, SubSeq(q, 1, n)),
                         ![o].sock[c].out = SubSeq(@, n + 1, Len(@))]
  BY DEF Data
<1>4. /\ keep' = keep /\ made' = made /\ restarts' = restarts /\ read' = read /\ s.sock[c].st = "open"
  BY DEF Data, Settled
<1> DEFINE r == SubSeq(q, n + 1, Len(q))
           t == OnData(s, e, c, SubSeq(q, 1, n))
           g == [f EXCEPT !.sock[c].out = r]
<1>5. at' = [at EXCEPT ![e] = t, ![o] = g]
  BY <1>1, <1>2, <1>3
<1>6. q \in Seq(Bytes) /\ f.sock[c].st \notin Unused
  <2>1. f.sock[c] \in Socket /\ SockOK(f.sock[c], c, made)
    BY <1>2, EndTypes DEF EndOK
  <2>2. q \in Seq(Bytes) /\ Len(q) # 0
    BY <1>3, <2>1, SockTypes, SMTT(30)
  <2> QED BY <2>1, <2>2, EmptySeqs DEF SockOK
<1> HIDE DEF q
<1>7. r \in Seq(Bytes) /\ Rest(q, n, r)
  BY <1>6, CutFacts
<1> HIDE DEF r, s, f, o
<1>8. EndOK(o, g, made) /\ Short(g) /\ g \in EndRec /\ Taken(f, g, c, n)
  BY <1>1, <1>2, <1>6, <1>7, TakenOK DEF q
<1> HIDE DEF g
<1>9. EndOK(e, t, made) /\ Short(t) /\ Flow(t, g, read[o]) /\ Flow(g, t, read[e])
  BY <1>1, <1>2, <1>3, <1>4, <1>8, DataKeeps DEF q
<1> HIDE DEF t
<1> QED BY <1>4, <1>5, <1>8, <1>9, PairOK DEF o

\* FIN or RST of a host whose socket is gone
LEMMA HangupKeeps ==
  ASSUME BridgeInv, NEW e \in Ends, NEW c \in Conns, Hangup(e, c)
  PROVE  BridgeInv'
<1> DEFINE o == Peer(e)
           s == at[e]
           f == at[o]
<1>1. o \in Ends /\ o # e /\ Peer(o) = e
  BY DEF Peer, Ends
<1>2. /\ EndOK(e, s, made) /\ Short(s) /\ made \in 0 .. MaxConns /\ EndOK(o, f, made) /\ Short(f)
      /\ Flow(s, f, read[o]) /\ Flow(f, s, read[e]) /\ at \in [Ends -> EndRec]
      /\ restarts \in 0 .. MaxRestarts
  BY <1>1, EndNow DEF BridgeInv
<1>3. /\ keep' = keep /\ made' = made /\ restarts' = restarts /\ read' = read /\ s.sock[c].st = "open"
      /\ f.sock[c].st = "gone" /\ \A d \in 1 .. c - 1 : s.sock[d].ev = {}
  BY DEF Hangup, Settled
<1>4. Free(s, c) /\ Free(f, c)
  <2>1. Free(s, c)
    BY <1>2, <1>3, SettledFree
  <2>2. Free(f, c)
    BY <1>1, <1>2, <1>3, BusyFree DEF Free
  <2> QED BY <2>1, <2>2
<1>5. CASE at' = [at EXCEPT ![o].sock[c].fin = TRUE]
  <2> DEFINE g == [f EXCEPT !.sock[c].fin = TRUE]
  <2>1. Turn(o, g)
    BY <1>1, <1>2, <1>5 DEF Turn
  <2> HIDE DEF f, o
  <2>2. EndOK(o, g, made) /\ Quiet(f, g)
    BY <1>1, <1>2, <1>3, <1>4, FinOK
  <2> HIDE DEF g
  <2> QED BY <1>1, <1>2, <1>3, <2>1, <2>2, QuietTurn DEF f
<1>6. CASE \E ev \in {{"error", "close"}, {"close"}} :
             at' = [at EXCEPT ![e].sock[c] = Gone(@, ev), ![o].sock[c].out = << >>]
  <2>1. PICK ev \in {{"error", "close"}, {"close"}} :
             at' = [at EXCEPT ![e].sock[c] = Gone(@, ev), ![o].sock[c].out = << >>]
    BY <1>6
  <2> DEFINE t == [s EXCEPT !.sock[c] = Gone(@, ev)]
             g == [f EXCEPT !.sock[c].out = << >>]
             k == Len(f.sock[c].out)
  <2>2. at' = [at EXCEPT ![e] = t, ![o] = g]
    BY <1>1, <1>2, <2>1
  <2> HIDE DEF s, f, o
  <2>3. EndOK(e, t, made) /\ Quiet(s, t) /\ t.sock[c].st = "gone"
    <3>1. ev = {"close"} \/ ev = {"error", "close"}
      BY <2>1
    <3>2. EndOK(e, s, made) /\ Free(s, c) /\ s.sock[c].st = "open" /\ made \in 0 .. MaxConns
      BY <1>2, <1>3, <1>4
    <3> QED BY <3>1, <3>2, GoneOK
  <2>4. f \in EndRec /\ f.sock[c].out \in Seq(Bytes) /\ f.sock[c].st \notin Unused
    BY <1>2, <1>3, EndTypes, SockTypes DEF EndOK, Unused
  <2>5. k \in 0 .. k
    BY <2>4
  <2>6. << >> \in Seq(Bytes) /\ Rest(f.sock[c].out, k, << >>)
    BY <2>4, EmptySeqs DEF Rest
  <2>7. EndOK(o, g, made) /\ Short(g) /\ g \in EndRec /\ Taken(f, g, c, k)
    BY <1>1, <1>2, <2>4, <2>6, TakenOK
  <2> HIDE DEF t, g
  <2>8. t \in EndRec /\ Short(t) /\ ~Hears(t, c)
    BY <1>2, <2>3, ShortQuiet DEF EndOK, Hears
  <2>9. Flow(t, f, read[o]) /\ Flow(f, t, read[e])
    BY <1>2, <2>3, <2>8, QuietFlow
  <2>10. Flow(t, g, read[o]) /\ Flow(g, t, read[e])
    BY <2>4, <2>5, <2>7, <2>8, <2>9, TakenFlow
  <2> QED BY <1>3, <2>2, <2>3, <2>7, <2>8, <2>10, PairOK DEF o
<1> QED BY <1>5, <1>6 DEF Hangup

\* A connection is made at one end and waits at the other.
LEMMA ConnectKeeps ==
  ASSUME BridgeInv, Connect
  PROVE  BridgeInv'
<1> DEFINE s == at["client"]
           f == at["exit"]
           c == made + 1
           n == read["client"]
           i == read["exit"]
           t == Connected([s EXCEPT !.sock[c] = OpenSocket], c)
           g == [f EXCEPT !.sock[c].st = "backlog"]
<1>1. /\ "client" \in Ends /\ "exit" \in Ends /\ Peer("client") = "exit" /\ Peer("exit") = "client"
  BY DEF Peer, Ends
<1>2. /\ EndOK("client", s, made) /\ Short(s) /\ made \in 0 .. MaxConns /\ EndOK("exit", f, made) /\ Short(f)
      /\ Flow(s, f, i) /\ Flow(f, s, n) /\ s \in EndRec /\ f \in EndRec /\ n \in Nat /\ i \in Nat
  BY <1>1, EndNow
<1>3. /\ made < MaxConns /\ s.connecting /\ made' = c /\ at' = [client |-> t, exit |-> g]
      /\ keep' = keep /\ read' = read /\ restarts' = restarts
  BY DEF Connect
<1>4. c \in Conns /\ c \in 0 .. MaxConns /\ c > made
  BY <1>2, <1>3, BoundsAssumption DEF Conns
<1> HIDE DEF s, f, n, i
<1>5. EndOK("client", t, c) /\ Made(s, t, c) /\ Len(t.sock[c].batch) < MaxBatch
  BY <1>2, <1>3, ConnectedOK
<1>6. /\ EndOK("exit", g, c) /\ OnlySock(f, g)
      /\ \A d \in Conns : d # c => g.sock[d] = f.sock[d]
      /\ g.sock[c].st = "backlog" /\ g.sock[c].out = << >> /\ g.sock[c].batch = << >>
  BY <1>2, <1>3, BacklogOK
<1>7. \A d \in Conns : d >= c => Pkts(s.sock[d]) = {}
  <2>1. ASSUME NEW d \in Conns, d >= c PROVE Pkts(s.sock[d]) = {}
    <3>1. d > made
      BY <1>2, <2>1, BoundsAssumption DEF Conns
    <3>2. s.sock[d].batch = << >> /\ s.sock[d].out = << >>
      BY <1>2, <3>1 DEF EndOK, SockOK, Unused
    <3> QED BY <3>2 DEF Pkts
  <2> QED BY <2>1
<1>8. f.ep # c
  BY <1>2, EndTypes DEF EndOK
<1>9. /\ \A j \in 1 .. Len(s.queue) : s.queue[j] \in Numbers
      /\ \A d \in Conns : s.sock[d].st # "backlog"
  BY <1>2 DEF EndOK, ClientOK
<1> HIDE DEF c, t, g
<1>10. Arrived(f, g, c) /\ t \in EndRec /\ g \in EndRec
  BY <1>5, <1>6 DEF Arrived, EndOK
<1>11. Flow(t, g, i) /\ Flow(g, t, n)
  BY <1>2, <1>4, <1>5, <1>7, <1>8, <1>9, <1>10, MadeFlow
<1>12. Short(t)
  <2>1. ASSUME NEW d \in Conns PROVE Len(t.sock[d].batch) < MaxBatch
    <3>1. CASE d = c
      BY <1>5, <3>1
    <3>2. CASE d # c
      BY <1>2, <1>5, <3>2 DEF Made, Short
    <3> QED BY <3>1, <3>2
  <2> QED BY <2>1 DEF Short
<1>13. Short(g)
  <2>1. Len(g.sock[c].batch) = 0 /\ 0 < MaxBatch
    BY <1>6, EmptySeqs, BoundsAssumption
  <2>2. ASSUME NEW d \in Conns PROVE Len(g.sock[d].batch) < MaxBatch
    <3>1. CASE d = c
      BY <2>1, <3>1
    <3>2. CASE d # c
      BY <1>2, <1>6, <3>2 DEF Short
    <3> QED BY <3>1, <3>2
  <2> QED BY <2>2 DEF Short
<1>14. at' \in [Ends -> EndRec] /\ at'["client"] = t /\ at'["exit"] = g
  BY <1>3, <1>10 DEF Ends
<1>15. Whole(c, at', read')
  BY <1>1, <1>3, <1>5, <1>6, <1>11, <1>12, <1>13, <1>14, BothEnds DEF n, i
<1> QED BY <1>3, <1>4, <1>14, <1>15 DEF BridgeInv

-----------------------------------------------------------------------------
(* The theorems.                                                           *)

\* A bridge that has just been started, without any connection
LEMMA InitEnd ==
  ASSUME NEW e \in Ends, NEW s, s = Start(e, [c \in Conns |-> NoSocket], << >>)
  PROVE  /\ EndOK(e, s, 0) /\ Short(s) /\ s.queue = << >> /\ s.tun = << >>
         /\ s.ep = 0 /\ \A c \in Conns : s.sock[c] = NoSocket
<1>1. /\ NoSocket \in Socket /\ NoSocket.st = "none" /\ ~NoSocket.eof /\ ~NoSocket.fin
      /\ NoSocket.ev = {} /\ NoSocket.batch = << >> /\ NoSocket.out = << >> /\ ~NoSocket.grace
  BY EmptySeqs DEF NoSocket, Socket
<1> HIDE DEF NoSocket
<1>2. << >> \in Seq(Bytes \X Bytes) /\ << >> \in Seq(Nat) /\ << >> \in Seq(Bytes)
  OBVIOUS
<1> DEFINE k == [c \in Conns |-> NoSocket]
<1>3. k \in [Conns -> Socket] /\ \A c \in Conns : k[c] = NoSocket
  BY <1>1
<1> HIDE DEF k
<1>4. /\ s \in EndRec /\ s.sock = k /\ s.busy = 0 /\ s.active = 0 /\ s.tun = << >> /\ s.queue = << >>
      /\ s.drain = 0 /\ s.ep = 0 /\ ~s.armed /\ s.wired = 0 /\ s.writer = 0
      /\ s.connecting = (e = "client" /\ e \notin keep)
  BY <1>2, <1>3 DEF Start, Idle, EndRec, k
<1>5. \A c \in Conns : s.sock[c] = NoSocket
  BY <1>3, <1>4
<1>6. ASSUME NEW c \in Conns PROVE SockOK(s.sock[c], c, 0)
  <2>1. c > 0 /\ 1 .. Len(<< >>) = {}
    BY BoundsAssumption, EmptySeqs DEF Conns
  <2> QED BY <1>1, <1>5, <2>1 DEF SockOK
<1>7. Short(s)
  BY <1>1, <1>5, EmptySeqs, BoundsAssumption DEF Short
<1>8. WireOK(s)
  BY <1>4 DEF WireOK
<1>9. e = "client" => ClientOK(s, 0)
  BY <1>1, <1>4, <1>5 DEF ClientOK, Live
<1>10. e = "exit" => ExitOK(s)
  BY <1>1, <1>4, <1>5 DEF ExitOK, BusyOK
<1>11. Len(s.queue) <= QueueMax /\ \A i \in 1 .. Len(s.queue) : s.queue[i] \in Numbers
  BY <1>4, EmptySeqs, BoundsAssumption
<1>12. EndOK(e, s, 0)
  BY <1>4, <1>6, <1>8, <1>9, <1>10, <1>11 DEF EndOK
<1> QED BY <1>4, <1>5, <1>7, <1>12

\* Two ends without traffic
LEMMA NoTraffic ==
  ASSUME NEW s, NEW f, s.tun = << >>, f.queue = << >>, s.ep = 0,
         \A c \in Conns : s.sock[c] = NoSocket /\ f.sock[c] = NoSocket
  PROVE  Flow(s, f, 0)
<1>1. NoSocket.st = "none" /\ NoSocket.batch = << >> /\ NoSocket.out = << >>
  BY DEF NoSocket
<1>2. Len(f.queue) = 0 /\ Len(s.tun) = 0 /\ Written(s) = {} /\ Pkts(NoSocket) = {} /\ SockInOrder(NoSocket)
  BY <1>1, EmptySeqs DEF Written, Pkts, SockInOrder, Increasing
<1>3. \A c \in Conns : ~Hears(s, c)
  BY <1>1, BoundsAssumption DEF Hears, Conns
<1>4. SentInOrder(f, 0)
  BY <1>2 DEF SentInOrder, Increasing
<1>5. ReadInOrder(s, f, 0) /\ TunInOrder(s)
  BY <1>2, <1>3 DEF ReadInOrder, TunInOrder
<1> QED BY <1>4, <1>5 DEF Flow

\* The invariant holds at first.
LEMMA BridgeInit == Init => BridgeInv
<1> SUFFICES ASSUME Init PROVE BridgeInv
  OBVIOUS
<1>1. /\ keep \in KeepAlives /\ made = 0 /\ read = [e \in Ends |-> 0] /\ restarts = 0
      /\ at = [e \in Ends |-> Start(e, [c \in Conns |-> NoSocket], << >>)]
  BY DEF Init
<1>2. ASSUME NEW e \in Ends
      PROVE  /\ EndOK(e, at[e], 0) /\ Short(at[e]) /\ at[e].queue = << >> /\ at[e].tun = << >>
             /\ at[e].ep = 0 /\ \A c \in Conns : at[e].sock[c] = NoSocket
  BY <1>1, InitEnd
<1>3. at \in [Ends -> EndRec]
  BY <1>1, <1>2 DEF EndOK
<1>4. ASSUME NEW e \in Ends PROVE Flow(at[e], at[Peer(e)], read[Peer(e)])
  <2>1. Peer(e) \in Ends /\ read[Peer(e)] = 0
    BY <1>1, Peers
  <2> QED BY <1>2, <2>1, NoTraffic
<1>5. Whole(made, at, read)
  BY <1>1, <1>2, <1>4 DEF Whole, Order
<1>6. /\ made \in 0 .. MaxConns /\ restarts \in 0 .. MaxRestarts /\ read \in [Ends -> Nat]
      /\ \A e \in Ends : read[e] <= MaxPackets[e]
  BY <1>1, BoundsAssumption
<1> QED BY <1>1, <1>3, <1>5, <1>6 DEF BridgeInv

\* Every step keeps the invariant.
LEMMA BridgeStep == BridgeInv /\ [Next]_vars => BridgeInv'
<1> SUFFICES ASSUME BridgeInv, [Next]_vars PROVE BridgeInv'
  OBVIOUS
<1>1. CASE Connect
  BY <1>1, ConnectKeeps
<1>2. CASE ConnectFails
  BY <1>2, ConnectFailsKeeps
<1>3. CASE \E e \in Ends : IdleTimer(e)
  BY <1>3, IdleTimerKeeps
<1>4. CASE \E e \in Ends, c \in Conns :
             \/ FlushTimer(e, c) \/ Data(e, c) \/ End(e, c) \/ Finish(e, c)
             \/ Hangup(e, c) \/ Error(e, c) \/ Close(e, c)
  BY <1>4, FlushTimerKeeps, DataKept, EndKeeps, FinishKeeps, HangupKeeps, ErrorKeeps, CloseKeeps
<1>5. CASE \E c \in Conns : Accept(c) \/ GraceTimer(c)
  BY <1>5, AcceptKept, GraceKeeps
<1>6. CASE CooldownOver
  BY <1>6, CooldownKeeps
<1>7. CASE \E e \in Ends : ReadTun(e) \/ Restart(e)
  BY <1>7, ReadTunKeeps, RestartKeeps
<1>8. CASE UNCHANGED vars
  BY <1>8 DEF vars, BridgeInv
<1> QED BY <1>1, <1>2, <1>3, <1>4, <1>5, <1>6, <1>7, <1>8 DEF Next, Progress

\* The invariant says what the run checks: no wire is armed and dead, no queue too long.
LEMMA BridgeLives == BridgeInv => WireInv
<1> SUFFICES ASSUME BridgeInv PROVE WireInv
  OBVIOUS
<1>1. ASSUME NEW e \in Ends
      PROVE  /\ EndOK(e, at[e], made) /\ Short(at[e]) /\ at[e] \in EndRec /\ made \in Nat
             /\ read[e] \in 0 .. MaxPackets[e]
  BY BoundsAssumption DEF BridgeInv, Whole
<1>2. ASSUME NEW e \in Ends
      PROVE  /\ {at[e].ep, at[e].wired, at[e].drain, at[e].writer, at[e].busy, at[e].active} \subseteq 0 .. made
             /\ Len(at[e].queue) <= QueueMax
  <2> DEFINE s == at[e]
  <2>1. EndOK(e, s, made) /\ s \in EndRec /\ made \in Nat
    BY <1>1
  <2> HIDE DEF s
  <2>2. /\ s.ep \in 0 .. made /\ s.wired \in 0 .. made /\ s.drain \in 0 .. made
        /\ s.writer \in 0 .. made /\ s.busy \in 0 .. made /\ s.active \in 0 .. made
    BY <2>1, EndTypes DEF EndOK
  <2>3. Len(s.queue) <= QueueMax
    BY <2>1 DEF EndOK
  <2> QED BY <2>2, <2>3 DEF s
<1>3. ASSUME NEW e \in Ends, NEW c \in Conns
      PROVE  /\ at[e].sock[c] \in Socket /\ Len(at[e].sock[c].batch) < MaxBatch
             /\ at[e].sock[c].st = "none" <=> c > made
  BY <1>1, EndTypes DEF EndOK, SockOK, Short
<1>4. TypeOK
  BY <1>1, <1>2, <1>3 DEF TypeOK, BridgeInv
<1>5. NoStuckWire
  BY <1>1 DEF NoStuckWire, EndOK, WireOK
<1> QED BY <1>4, <1>5 DEF WireInv

\* It says what each end has written to its TUN.
LEMMA BridgeWhole == BridgeInv => WireIntact
<1> SUFFICES ASSUME BridgeInv, NEW e \in Ends
             PROVE  /\ \A i \in DOMAIN at[e].tun : at[e].tun[i] = Frame(at[e].tun[i][1].pkt)
                    /\ \A i \in 2 .. Len(at[e].tun) : at[e].tun[i - 1][1].pkt < at[e].tun[i][1].pkt
  BY DEF WireIntact
<1>1. TunInOrder(at[e]) /\ at[e] \in EndRec
  BY DEF BridgeInv, Whole, Order, Flow
<1>2. DOMAIN at[e].tun = 1 .. Len(at[e].tun)
  <2>1. at[e].tun \in Seq(Bytes \X Bytes)
    BY <1>1, EndTypes
  <2> QED BY <2>1
<1> QED BY <1>1, <1>2 DEF TunInOrder

\* For any bounds, keep-alives, interleaving of both ends' events and timers, and any failures: an
\* armed bridge (bridge.armed of attachTunBridge) has a wire that it listens to and that lives or
\* whose end it will hear of, packets are only given to that wire, and queues keep their limits.
THEOREM WireAlwaysLives == Spec => []WireInv
<1>1. Init => BridgeInv
  BY BridgeInit
<1>2. BridgeInv /\ [Next]_vars => BridgeInv'
  BY BridgeStep
<1>3. BridgeInv => WireInv
  BY BridgeLives
<1> QED BY <1>1, <1>2, <1>3, PTL DEF Spec

\* For the same: what an end writes to its TUN are whole packets that the other has read from its
\* own, in their order, over any number of connections: StreamFramer never joins the bytes of two,
\* and nothing that waits on an old connection is read after the packets of a newer one.
THEOREM PacketsStayWhole == Spec => []WireIntact
<1>1. Init => BridgeInv
  BY BridgeInit
<1>2. BridgeInv /\ [Next]_vars => BridgeInv'
  BY BridgeStep
<1>3. BridgeInv => WireIntact
  BY BridgeWhole
<1> QED BY <1>1, <1>2, <1>3, PTL DEF Spec
=============================================================================
