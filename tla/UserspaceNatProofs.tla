------------------------- MODULE UserspaceNatProofs -------------------------
(***************************************************************************)
(* The exit's TCP sends the server's stream once and in order, counts its  *)
(* unacknowledged segments rightly, does not reset a client that closes    *)
(* and does not stall, for all sizes, windows and sequence numbers.        *)
(***************************************************************************)
EXTENDS UserspaceNat, WellFoundedInduction, NaturalsInduction, TLAPS

Conn == [state : States, isn : 0 .. MaxSyns, seq : 0 .. W - 1, win : Windows, ack : -1 .. W - 1,
         pend : 0 .. TcpMaxPending, paused : BOOLEAN, backlog : Nat,
         eof : BOOLEAN, finSent : BOOLEAN, linger : BOOLEAN, short : BOOLEAN]
ToClient == [type : {"synack", "data", "fin", "rst"}, isn : 0 .. MaxSyns, seq : 0 .. W - 1, len : 0 .. MSS]
ToNat    == [type : {"syn", "ack", "fin", "rst"}, isn : 0 .. MaxSyns, ack : 0 .. W - 1, win : Windows]
Client   == [state : {"idle", "syn", "open"}, isn : 0 .. MaxSyns, nxt : 0 .. W - 1, acked : 0 .. W - 1,
             win : Windows, fin : BOOLEAN, finSent : BOOLEAN]

\* The types but for the numbers of bytes, whose range follows from where the bytes are.
Types ==
  /\ conn \in Conn /\ connecting \in 0 .. MaxConnections
  /\ sock \in {"none", "connecting", "open", "ended", "closed"}
  /\ toClient \in Seq(ToClient) /\ toNat \in Seq(ToNat) /\ client \in Client
  /\ syns \in 0 .. MaxSyns /\ read \in Nat /\ total \in 0 .. MaxRead /\ got \in Nat
  /\ broken \in BOOLEAN /\ joined \in BOOLEAN /\ expired \in BOOLEAN

\* The client numbers its connections: none has a number that is yet to come.
IsnInv ==
  /\ client.isn <= syns /\ conn.isn <= client.isn /\ (client.state = "syn" => client.isn > 0)
  /\ \A i \in DOMAIN toClient : toClient[i].isn <= client.isn
  /\ \A i \in DOMAIN toNat : toNat[i].isn <= client.isn

\* The bytes of a behaviour: what a client has, what is in the mesh and what waits was read.
ByteInv == read <= total /\ got + Bytes(toClient) + conn.backlog <= total

\* An entry and its socket, event by event.
Fresh(c) == /\ c.ack = -1 /\ c.pend = 0 /\ c.backlog = 0
            /\ ~c.paused /\ ~c.eof /\ ~c.finSent /\ ~c.linger /\ ~c.short
EntryInv ==
  /\ conn.state = "CLOSED" => conn = NoConn
  /\ conn.state = "CONNECTING" => Fresh(conn) /\ read = 0 /\ ~joined
  /\ conn.finSent <=> conn.state = "FIN_WAIT"
  /\ conn.linger => conn.finSent
  /\ conn.finSent => conn.eof /\ conn.pend = 0 /\ conn.backlog = 0
  /\ sock = "none" <=> conn.state = "CLOSED"
  /\ sock = "connecting" <=> conn.state = "CONNECTING"
  /\ sock = "connecting" => connecting >= 1
  /\ sock = "open" => conn.state = "ESTABLISHED" /\ ~conn.eof
  /\ sock = "ended" => Live(conn)

\* What a flush and a synchronisation leave behind.
Flowing(c) ==
  /\ c.backlog > 0 => c.pend >= MaxPendingFor(c.win)
  /\ c.paused => \/ c.win = 0 \/ c.backlog > 0
                 \/ c.pend >= ResumeTarget(c.win) \/ c.pend >= MaxPendingFor(c.win)
  /\ ~FinDue(c)
FlowInv == Live(conn) => Flowing(conn)

\* A client that may have seen FIN, and the entry it came from.
IsFin(s, n) == s.type = "fin" /\ s.isn = n
IsRst(s, n) == s.type = "rst" /\ s.isn = n
HasFin(q, n) == \E i \in DOMAIN q : IsFin(q[i], n)
SawFin == client.state = "open" /\ client.fin
SeesFin == HasFin(toClient, client.isn) \/ SawFin
FinInv ==
  /\ client.fin => client.state = "open"
  /\ SeesFin => (conn.finSent /\ conn.isn = client.isn) \/ expired
  /\ \A i \in DOMAIN toClient :
       IsRst(toClient[i], client.isn) /\ ~expired =>
         ~SawFin /\ \A j \in 1 .. i - 1 : ~IsFin(toClient[j], client.isn)

-----------------------------------------------------------------------------
Payload(s) == s.type \in {"data", "fin"}

\* The number behind segment s.
Behind(s) == (s.seq + (IF s.type = "fin" THEN 1 ELSE s.len)) % W

\* The payload at the front of q is in sequence from number x on.
InStep(q, x) ==
  \A i \in DOMAIN q :
    Payload(q[i]) => /\ q[i].seq = (IF i = 1 THEN x ELSE Behind(q[i - 1]))
                     /\ i # 1 => Payload(q[i - 1])

\* q is payload and leads from number x to number y.
Leads(q, x, y) ==
  /\ InStep(q, x) /\ \A i \in DOMAIN q : Payload(q[i])
  /\ y = IF q = << >> THEN x ELSE Behind(q[Len(q)])

\* No bytes follow FIN.
FinLast(q) == \A i, j \in DOMAIN q : i < j /\ q[i].type = "fin" => q[j].len = 0

\* The stream of entry c, of which g bytes have come: q is under way, from number x on.
Streams(q, x, c, r, g) ==
  /\ Leads(q, x, c.seq) /\ FinLast(q) /\ \A i \in DOMAIN q : q[i].isn = c.isn
  /\ r = g + Bytes(q) + c.backlog
  /\ c.state = "ESTABLISHED" =>
       (x + Bytes(q)) % W = c.seq /\ \A i \in DOMAIN q : q[i].type = "data"

After(q, k) == SubSeq(q, k + 1, Len(q))
LastSynack(q, k) ==
  k \in DOMAIN q /\ q[k].type = "synack" /\ \A i \in DOMAIN q : q[i].type = "synack" => i <= k
Up == client.state = "open" /\ joined

\* The segments of q are full, unless entry c has sent a shorter one.
Full(q, c) == ~c.short => \A i \in DOMAIN q : q[i].len = MSS

\* What the client will get that takes the last SYN-ACK: q, from number x on.
Opening(q, x, c, r) ==
  /\ Streams(q, x, c, r, 0)
  /\ c.ack = -1 /\ c.win = FullWindow
  /\ c.state = "ESTABLISHED" =>
       Len(q) <= c.pend /\ Full(q, c) /\ (~c.short => Len(q) = c.pend)

\* A client that waits for a SYN-ACK has said nothing on this connection but SYN, or RST to
\* what it did not expect: what it acknowledged before is in front of the SYN.
IsAck(s) == s.type \in {"ack", "fin"}
IsSyn(s, n) == s.type = "syn" /\ s.isn = n
IsSynack(s, n) == s.type = "synack" /\ s.isn = n
Unheard == \E i \in DOMAIN toNat : IsAck(toNat[i])
Begun == conn.isn = client.isn \/ \E i \in DOMAIN toClient : IsSynack(toClient[i], client.isn)
SynsLast(q, n) == \A i, j \in DOMAIN q : i < j /\ IsSyn(q[i], n) => ~IsAck(q[j])
SynInv ==
  client.state = "syn" =>
    /\ got = 0 /\ client.win = FullWindow /\ ~client.fin
    /\ (Begun => ~Unheard) /\ SynsLast(toNat, client.isn)
    /\ \A k \in DOMAIN toClient :
         LastSynack(toClient, k) /\ toClient[k].isn = client.isn /\ Live(conn) =>
           /\ conn.isn = client.isn
           /\ Opening(After(toClient, k), (toClient[k].seq + 1) % W, conn, read)

\* The connection of client and entry: the client has said one thing at most that is not heard,
\* and nothing once it is gone.
NoSynack == joined => \A i \in DOMAIN toClient : toClient[i].type # "synack"
Expected == Up =>
  InStep(toClient, client.nxt) /\ \A i \in DOMAIN toClient : Payload(toClient[i]) => toClient[i].isn = client.isn
OneAck == Up => \A i \in DOMAIN toNat :
  IsAck(toNat[i]) => i = Len(toNat) /\ toNat[i].ack = client.acked /\ toNat[i].win = client.win
Carried == Up /\ Live(conn) =>
  /\ conn.isn = client.isn
  /\ Streams(toClient, client.nxt, conn, read, got) /\ (~Unheard => conn.win = client.win)
Refused == joined /\ Live(conn) /\ client.state # "open" => ~Unheard
UpInv == ~broken /\ NoSynack /\ Expected /\ OneAck /\ Carried /\ Refused

\* FIN means that all has come or is under way, and nothing follows it, even when the entry is gone.
AnyFin == client.fin \/ \E i \in DOMAIN toClient : toClient[i].type = "fin"
FinWhole == Up /\ AnyFin =>
  conn.finSent \/ (conn.state = "CLOSED" /\ got + Bytes(toClient) = read)
FinEnds == Up =>
  /\ FinLast(toClient) /\ (client.fin => \A i \in DOMAIN toClient : toClient[i].len = 0)
  /\ \A i \in DOMAIN toClient : toClient[i].type = "rst" => toClient[i].len = 0
EndInv == FinWhole /\ FinEnds

\* The counting of entry c, with client d and queue q: k bytes of at most m segments that the exit has
\* not heard of, l bytes of at most n segments that the client has not acknowledged; u: an ACK is under way.
Counting(c, d, q, u, k, l, m, n) ==
  /\ (d.acked + l) % W = d.nxt /\ l <= n * MSS
  /\ c.ack = -1 => k = 0 /\ m = 0 /\ u
  /\ c.ack # -1 => (c.ack + k) % W = d.acked
  /\ k <= m * MSS
  /\ ~u => k = 0
  /\ m + n + Len(q) <= c.pend
  /\ ~c.short => k = m * MSS /\ l = n * MSS /\ m + n + Len(q) = c.pend
  /\ Full(q, c)
Covered(c) == c.ack # -1 => \E k \in Nat : (c.ack + k) % W = c.seq /\ k <= c.pend * MSS
Established == joined /\ conn.state = "ESTABLISHED"
Counted == \E k, l, m, n \in Nat : Counting(conn, client, toClient, Unheard, k, l, m, n)
PendInv == Established => IF client.state = "open" THEN Counted ELSE Covered(conn)

NatInv ==
  /\ Types /\ IsnInv /\ ByteInv /\ EntryInv /\ FlowInv /\ FinInv /\ SynInv /\ UpInv /\ EndInv /\ PendInv


-----------------------------------------------------------------------------
(* Numbers modulo W, and segments of MSS bytes. *)

\* The modulus holds twice the largest number of unacknowledged bytes.
LEMMA Modulus == W \in Nat /\ W > 1 /\ TcpMaxPending * MSS \in Nat /\ W > 2 * (TcpMaxPending * MSS) + 1
<1>1. TcpMaxPending * MSS \in Nat /\ 2 * TcpMaxPending * MSS = 2 * (TcpMaxPending * MSS)
  BY NatAssumption
<1> QED BY <1>1, SeqAssumption

\* A number divided by W.
LEMMA Divided ==
  ASSUME NEW a \in Int
  PROVE  a % W \in 0 .. W - 1 /\ \E q \in Int : a = W * q + (a % W)
<1>1. W \in Int /\ W > 0
  BY Modulus
<1>2. a % W \in Int /\ 0 <= a % W /\ a % W < W
  BY <1>1
<1>3. a = W * (a \div W) + (a % W) /\ a \div W \in Int
  BY <1>1
<1> QED BY <1>1, <1>2, <1>3

\* The remainder is the only one.
LEMMA OneRemainder ==
  ASSUME NEW a \in Int, NEW q \in Int, NEW r \in 0 .. W - 1, a = W * q + r
  PROVE  a % W = r
<1>1. W \in Int /\ W > 0
  BY Modulus
<1>2. PICK p \in Int : a = W * p + (a % W)
  BY Divided
<1> DEFINE s == a % W
<1>3. s \in Int /\ 0 <= s /\ s < W
  BY Divided, <1>1
<1> HIDE DEF s
<1>4. W * p + s = W * q + r
  BY <1>2 DEF s
<1>5. W * (p - q) = r - s
  BY <1>1, <1>3, <1>4
<1>6. ~(p - q >= 1)
  <2>1. p - q >= 1 => W * (p - q) >= W
    BY <1>1
  <2> QED BY <1>1, <1>3, <1>5, <2>1
<1>7. ~(p - q <= -1)
  <2>1. p - q <= -1 => W * (p - q) <= -W
    BY <1>1
  <2> QED BY <1>1, <1>3, <1>5, <2>1
<1>8. p - q = 0
  BY <1>6, <1>7
<1>9. r = s
  BY <1>1, <1>3, <1>5, <1>8
<1> QED BY <1>9 DEF s

\* Numbers may be added before or after the modulus is taken.
LEMMA ModAdd ==
  ASSUME NEW a \in Int, NEW b \in Int
  PROVE  ((a % W) + b) % W = (a + b) % W
<1>1. W \in Int /\ a % W \in Int /\ a + b \in Int /\ (a % W) + b \in Int
  BY Modulus, Divided
<1>2. PICK p \in Int : a = W * p + (a % W)
  BY Divided
<1>3. PICK q \in Int : (a % W) + b = W * q + (((a % W) + b) % W)
  BY <1>1, Divided
<1> DEFINE r == ((a % W) + b) % W
<1>4. r \in 0 .. W - 1
  BY <1>1, Divided
<1> HIDE DEF r
<1>5. a + b = W * (p + q) + r
  <2>1. a + b = W * p + (W * q + r)
    BY <1>1, <1>2, <1>3, <1>4 DEF r
  <2> QED BY <1>1, <1>4, <2>1
<1>6. (a + b) % W = r
  BY <1>1, <1>4, <1>5, OneRemainder
<1> QED BY <1>6 DEF r

\* A small number is its own remainder.
LEMMA ModSmall == ASSUME NEW a \in 0 .. W - 1 PROVE a % W = a
<1>1. a \in Int /\ a = W * 0 + a
  BY Modulus
<1> QED BY <1>1, OneRemainder

\* How far it is from one number to another.
LEMMA Distance ==
  ASSUME NEW a \in 0 .. W - 1, NEW k \in 0 .. W - 1
  PROVE  (((a + k) % W) - a) % W = k
<1>1. a \in Int /\ k \in Int /\ -a \in Int /\ a + k \in Int
  BY Modulus
<1>2. (((a + k) % W) + (-a)) % W = ((a + k) + (-a)) % W
  BY <1>1, ModAdd
<1>3. (a + k) + (-a) = k
  BY <1>1
<1>4. (a + k) % W \in Int
  BY <1>1, Divided, Modulus
<1>5. ((a + k) % W) - a = ((a + k) % W) + (-a)
  BY <1>1, <1>4
<1> QED BY <1>2, <1>3, <1>5, ModSmall

\* How many segments hold b bytes.
LEMMA CeilFacts ==
  ASSUME NEW b \in Nat
  PROVE  /\ CeilDiv(b, MSS) \in Nat
         /\ CeilDiv(b, MSS) * MSS >= b
         /\ CeilDiv(b, MSS) > 0 => (CeilDiv(b, MSS) - 1) * MSS < b
         /\ b > 0 => CeilDiv(b, MSS) > 0
         /\ b = 0 => CeilDiv(b, MSS) = 0
<1> DEFINE a == b + MSS - 1
<1> DEFINE q == a \div MSS
<1>1. MSS \in Nat /\ MSS > 0 /\ a \in Nat
  BY NatAssumption
<1> HIDE DEF a
<1>2. q \in Int /\ a >= MSS * q /\ a < MSS * q + MSS
  BY <1>1
<1> HIDE DEF q
<1>3. CeilDiv(b, MSS) = q
  BY DEF CeilDiv, a, q
<1>4. q >= 0
  <2>1. q <= -1 => MSS * q <= -MSS
    BY <1>1, <1>2
  <2> QED BY <1>1, <1>2, <2>1
<1>5. q * MSS >= b
  BY <1>1, <1>2 DEF a
<1>6. (q - 1) * MSS < b
  <2>1. (q - 1) * MSS = MSS * q - MSS
    BY <1>1, <1>2
  <2> QED BY <1>1, <1>2, <2>1 DEF a
<1>7. b > 0 => q > 0
  BY <1>1, <1>2, <1>4, <1>5
<1>8. b = 0 => q = 0
  <2>1. q >= 1 => (q - 1) * MSS >= 0
    BY <1>1, <1>2
  <2> QED BY <1>1, <1>2, <1>4, <1>6, <2>1
<1> QED BY <1>2, <1>3, <1>4, <1>5, <1>6, <1>7, <1>8

-----------------------------------------------------------------------------
(* The bytes of a queue of segments. *)

\* A set of numbers with 0 and all successors is all of Nat.
LEMMA AllNumbers ==
  ASSUME NEW T, 0 \in T, \A n \in Nat : n \in T => n + 1 \in T
  PROVE  Nat \subseteq T
<1> SUFFICES ASSUME Nat \ T # {} PROVE FALSE
  OBVIOUS
<1> DEFINE R == {ss \in Nat \X Nat : ss[1] < ss[2]}
<1>1. IsWellFoundedOn(R, Nat)
  BY NatLessThanWellFounded DEF OpToRel
<1>2. PICK x \in Nat \ T : \A y \in Nat \ T : ~(<<y, x>> \in R)
  BY <1>1, WFMin
<1>3. x # 0 /\ x - 1 \in Nat /\ x - 1 < x
  BY <1>2
<1>4. x - 1 \in T
  BY <1>2, <1>3
<1> QED BY <1>2, <1>3, <1>4

\* g gives the bytes of the first 0, 1, ... n segments of q.
Sums(q, n, g) ==
  /\ g \in [0 .. n -> Nat] /\ g[0] = 0
  /\ \A i \in 1 .. n : g[i] = g[i - 1] + q[i].len

\* The length of a segment is a number.
LEMMA Lengths == \A s \in ToClient : s.len \in Nat /\ s.len <= MSS /\ s.seq \in 0 .. W - 1 /\ s.seq \in Int
  BY NatAssumption, SeqAssumption DEF ToClient

\* A function with the sums of a queue's beginnings exists.
LEMMA SumsExist ==
  ASSUME NEW q \in Seq(ToClient)
  PROVE  \E g : Sums(q, Len(q), g)
<1> DEFINE T == {n \in Nat : n <= Len(q) => \E g : Sums(q, n, g)}
<1>1. 0 \in T
  <2>1. Sums(q, 0, [i \in 0 .. 0 |-> 0])
    BY DEF Sums
  <2> QED BY <2>1
<1>2. ASSUME NEW n \in Nat, n \in T PROVE n + 1 \in T
  <2> SUFFICES ASSUME n + 1 <= Len(q) PROVE \E h : Sums(q, n + 1, h)
    BY <1>2
  <2>1. PICK g : Sums(q, n, g)
    BY <1>2
  <2> DEFINE e == q[n + 1].len
  <2>2. e \in Nat
    BY Lengths
  <2> DEFINE h == [i \in 0 .. n + 1 |-> IF i = n + 1 THEN g[n] + e ELSE g[i]]
  <2> HIDE DEF e
  <2>3. h \in [0 .. n + 1 -> Nat] /\ h[0] = 0
    BY <2>1, <2>2 DEF Sums
  <2>4. \A i \in 1 .. n + 1 : h[i] = h[i - 1] + q[i].len
    <3> SUFFICES ASSUME NEW i \in 1 .. n + 1 PROVE h[i] = h[i - 1] + q[i].len
      OBVIOUS
    <3>1. CASE i = n + 1
      BY <3>1 DEF e
    <3>2. CASE i \in 1 .. n
      BY <2>1, <3>2 DEF Sums
    <3> QED BY <3>1, <3>2
  <2>5. Sums(q, n + 1, h)
    BY <2>3, <2>4 DEF Sums
  <2> QED BY <2>5
<1> HIDE DEF T
<1>3. Nat \subseteq T
  BY <1>1, <1>2, AllNumbers
<1>4. Len(q) \in T
  BY <1>3
<1> QED BY <1>4 DEF T

\* Bytes is the last of the sums.
LEMMA BytesIsSum ==
  ASSUME NEW q \in Seq(ToClient), NEW g, Sums(q, Len(q), g)
  PROVE  Bytes(q) = g[Len(q)]
<1> DEFINE Def(f) == [n \in 0 .. Len(q) |-> IF n = 0 THEN 0 ELSE f[n - 1] + q[n].len]
<1> DEFINE sum == CHOOSE f : f = Def(f)
<1>1. g = Def(g)
  BY DEF Sums
<1>2. sum = Def(sum)
  BY <1>1
<1>3. Bytes(q) = sum[Len(q)]
  BY DEF Bytes
<1> HIDE DEF sum
<1>4. Len(q) \in Nat
  OBVIOUS
<1> DEFINE T == {i \in Nat : i <= Len(q) => g[i] = sum[i]}
<1>5. 0 \in T
  BY <1>2, <1>4 DEF Sums
<1>6. ASSUME NEW i \in Nat, i \in T PROVE i + 1 \in T
  <2> SUFFICES ASSUME i + 1 <= Len(q) PROVE g[i + 1] = sum[i + 1]
    BY <1>6
  <2>1. sum[i + 1] = sum[i] + q[i + 1].len
    BY <1>2
  <2>2. g[i + 1] = g[i] + q[i + 1].len
    BY DEF Sums
  <2> QED BY <1>6, <2>1, <2>2
<1> HIDE DEF T
<1>7. Nat \subseteq T
  BY <1>5, <1>6, AllNumbers
<1> QED BY <1>3, <1>4, <1>7 DEF T

\* The bytes of two queues, one behind the other.
LEMMA BytesConcat ==
  ASSUME NEW q \in Seq(ToClient), NEW r \in Seq(ToClient)
  PROVE  Bytes(q \o r) = Bytes(q) + Bytes(r) /\ Bytes(q) \in Nat
<1> DEFINE m == Len(q)
<1> DEFINE n == Len(r)
<1> DEFINE w == q \o r
<1>1. /\ m \in Nat /\ n \in Nat /\ w \in Seq(ToClient) /\ Len(w) = m + n
      /\ \A i \in 1 .. m : w[i] = q[i]
      /\ \A i \in 1 .. n : w[m + i] = r[i]
  OBVIOUS
<1>2. PICK f : Sums(q, m, f)
  BY SumsExist
<1>3. PICK g : Sums(r, n, g)
  BY SumsExist
<1>4. Bytes(q) = f[m] /\ Bytes(r) = g[n]
  BY <1>2, <1>3, BytesIsSum
<1> HIDE DEF m, n, w
<1>5. f[m] \in Nat
  BY <1>1, <1>2 DEF Sums
<1> DEFINE h == [i \in 0 .. m + n |-> IF i <= m THEN f[i] ELSE f[m] + g[i - m]]
<1>6. h \in [0 .. m + n -> Nat] /\ h[0] = 0
  <2>1. f \in [0 .. m -> Nat] /\ g \in [0 .. n -> Nat] /\ f[0] = 0
    BY <1>2, <1>3 DEF Sums
  <2>2. \A i \in 0 .. m + n : h[i] \in Nat
    <3> SUFFICES ASSUME NEW i \in 0 .. m + n PROVE h[i] \in Nat
      OBVIOUS
    <3>1. CASE i <= m
      BY <1>1, <2>1, <3>1
    <3>2. CASE i > m
      <4>1. i - m \in 0 .. n
        BY <1>1, <3>2
      <4>2. g[i - m] \in Nat
        BY <2>1, <4>1
      <4> QED BY <1>1, <1>5, <3>2, <4>2, SMTT(30)
    <3> QED BY <1>1, <3>1, <3>2
  <2> QED BY <1>1, <2>1, <2>2
<1>7. \A i \in 1 .. m + n : h[i] = h[i - 1] + w[i].len
  <2> SUFFICES ASSUME NEW i \in 1 .. m + n PROVE h[i] = h[i - 1] + w[i].len
    OBVIOUS
  <2>1. CASE i <= m
    <3>1. i \in 1 .. m /\ i \in 0 .. m + n /\ i - 1 \in 0 .. m + n /\ i - 1 <= m
      BY <1>1, <2>1
    <3>2. f[i] = f[i - 1] + q[i].len
      BY <1>2, <3>1 DEF Sums
    <3>3. w[i] = q[i]
      BY <1>1, <3>1
    <3>4. h[i] = f[i] /\ h[i - 1] = f[i - 1]
      BY <3>1
    <3> HIDE DEF h
    <3> QED BY <3>2, <3>3, <3>4
  <2>2. CASE i > m
    <3> DEFINE j == i - m
    <3>1. j \in 1 .. n /\ i = m + j
      BY <1>1, <2>2
    <3> HIDE DEF j
    <3>2. w[i] = r[j]
      BY <1>1, <3>1
    <3>6. g[j] = g[j - 1] + r[j].len /\ g[j - 1] \in Nat /\ g[0] = 0
      BY <1>1, <1>3, <3>1, SMTT(30) DEF Sums
    <3>3. h[i] = f[m] + g[j]
      BY <1>1, <2>2 DEF j
    <3>4. h[i - 1] = f[m] + g[j - 1]
      BY <1>1, <1>5, <2>2, <3>1, <3>6
    <3>5. r[j].len \in Nat
      <4>1. r[j] \in ToClient
        BY <1>1, <3>1 DEF n
      <4> QED BY <4>1, Lengths
    <3> QED BY <1>5, <3>2, <3>3, <3>4, <3>5, <3>6, SMTT(30)
  <2> QED BY <1>1, <2>1, <2>2
<1>8. Sums(w, Len(w), h)
  BY <1>1, <1>6, <1>7 DEF Sums
<1>9. Bytes(w) = h[m + n]
  BY <1>1, <1>8, BytesIsSum
<1>10. g[0] = 0 /\ (n = 0 \/ n > 0)
  BY <1>1, <1>3 DEF Sums
<1>11. h[m + n] = f[m] + g[n]
  BY <1>1, <1>5, <1>10
<1> QED BY <1>4, <1>5, <1>9, <1>11 DEF w

\* The bytes of no segment and of one.
LEMMA BytesFew ==
  /\ Bytes(<< >>) = 0
  /\ \A s \in ToClient : Bytes(<<s>>) = s.len
<1>1. Bytes(<< >>) = 0
  <2>1. << >> \in Seq(ToClient) /\ Len(<< >>) = 0
    OBVIOUS
  <2>2. Sums(<< >>, 0, [i \in 0 .. 0 |-> 0])
    BY DEF Sums
  <2>3. Bytes(<< >>) = [i \in 0 .. 0 |-> 0][0]
    BY <2>1, <2>2, BytesIsSum
  <2> QED BY <2>3
<1>2. ASSUME NEW s \in ToClient PROVE Bytes(<<s>>) = s.len
  <2> DEFINE g == [i \in 0 .. 1 |-> IF i = 0 THEN 0 ELSE s.len]
  <2>1. <<s>> \in Seq(ToClient) /\ Len(<<s>>) = 1 /\ <<s>>[1] = s /\ s.len \in Nat
    BY Lengths
  <2>2. Sums(<<s>>, 1, g)
    BY <2>1 DEF Sums
  <2>3. Bytes(<<s>>) = g[1]
    BY <2>1, <2>2, BytesIsSum
  <2> QED BY <2>3
<1> QED BY <1>1, <1>2

\* The bytes of a queue whose first segment is taken.
LEMMA BytesTail ==
  ASSUME NEW q \in Seq(ToClient), q # << >>
  PROVE  /\ Bytes(q) = Head(q).len + Bytes(Tail(q)) /\ Bytes(q) \in Nat /\ Bytes(Tail(q)) \in Nat
         /\ Head(q) \in ToClient /\ Tail(q) \in Seq(ToClient)
<1>1. Head(q) \in ToClient /\ Tail(q) \in Seq(ToClient) /\ <<Head(q)>> \in Seq(ToClient)
  OBVIOUS
<1>2. q = <<Head(q)>> \o Tail(q)
  OBVIOUS
<1> DEFINE h == <<Head(q)>>
<1> DEFINE r == Tail(q)
<1>3. Bytes(h) = Head(q).len
  BY <1>1, BytesFew
<1> HIDE DEF h, r
<1>4. Bytes(h \o r) = Bytes(h) + Bytes(r) /\ Bytes(h) \in Nat
  BY <1>1, BytesConcat DEF h, r
<1>5. Bytes(r) \in Nat /\ Bytes(q) \in Nat
  BY <1>1, BytesConcat DEF r
<1> QED BY <1>1, <1>2, <1>3, <1>4, <1>5 DEF h, r

-----------------------------------------------------------------------------
(* Segments in sequence. *)

\* The number behind a segment is a sequence number.
LEMMA BehindType == \A s \in ToClient : Behind(s) \in 0 .. W - 1
<1> SUFFICES ASSUME NEW s \in ToClient PROVE Behind(s) \in 0 .. W - 1
  OBVIOUS
<1>1. s.seq + (IF s.type = "fin" THEN 1 ELSE s.len) \in Int
  BY Lengths
<1> QED BY <1>1, Divided DEF Behind

\* A queue that leads from x to y and one that leads from y to z.
LEMMA LeadsConcat ==
  ASSUME NEW q \in Seq(ToClient), NEW r \in Seq(ToClient), NEW x, NEW y, NEW z,
         Leads(q, x, y), Leads(r, y, z)
  PROVE  Leads(q \o r, x, z)
<1> DEFINE m == Len(q)
<1> DEFINE n == Len(r)
<1> DEFINE w == q \o r
<1>1. /\ m \in Nat /\ n \in Nat /\ DOMAIN w = 1 .. m + n /\ Len(w) = m + n
      /\ \A i \in 1 .. m : w[i] = q[i]
      /\ \A i \in 1 .. n : w[m + i] = r[i]
      /\ DOMAIN q = 1 .. m /\ DOMAIN r = 1 .. n
      /\ q = << >> <=> m = 0
      /\ r = << >> <=> n = 0
      /\ w = << >> <=> m + n = 0
  OBVIOUS
<1> HIDE DEF w, m, n
<1>2. y = IF m = 0 THEN x ELSE Behind(q[m])
  BY <1>1 DEF Leads, m
<1>3. z = IF n = 0 THEN y ELSE Behind(r[n])
  BY <1>1 DEF Leads, n
<1>4. \A i \in 1 .. m + n : Payload(w[i]) /\ w[i].seq = (IF i = 1 THEN x ELSE Behind(w[i - 1]))
  <2> SUFFICES ASSUME NEW i \in 1 .. m + n
               PROVE  Payload(w[i]) /\ w[i].seq = (IF i = 1 THEN x ELSE Behind(w[i - 1]))
    OBVIOUS
  <2>1. CASE i <= m
    <3>1. i \in 1 .. m /\ (i # 1 => i - 1 \in 1 .. m)
      BY <1>1, <2>1
    <3>2. w[i] = q[i] /\ (i # 1 => w[i - 1] = q[i - 1])
      BY <1>1, <3>1
    <3> QED BY <1>1, <3>1, <3>2 DEF Leads, InStep
  <2>2. CASE i > m
    <3> DEFINE j == i - m
    <3>1. j \in 1 .. n /\ i = m + j /\ (j # 1 => j - 1 \in 1 .. n /\ i - 1 = m + (j - 1))
      BY <1>1, <2>2
    <3> HIDE DEF j
    <3>2. w[i] = r[j] /\ (j # 1 => w[i - 1] = r[j - 1])
      BY <1>1, <3>1
    <3>3. Payload(r[j]) /\ r[j].seq = (IF j = 1 THEN y ELSE Behind(r[j - 1]))
      BY <1>1, <3>1 DEF Leads, InStep
    <3>4. CASE j # 1
      BY <1>1, <3>1, <3>2, <3>3, <3>4
    <3>5. CASE j = 1 /\ m = 0
      BY <1>2, <3>1, <3>2, <3>3, <3>5
    <3>6. CASE j = 1 /\ m # 0
      <4>1. i # 1 /\ i - 1 = m /\ m \in 1 .. m
        BY <1>1, <3>1, <3>6
      <4>2. w[i - 1] = q[m]
        BY <1>1, <4>1
      <4> QED BY <1>2, <3>2, <3>3, <3>6, <4>1, <4>2
    <3> QED BY <3>4, <3>5, <3>6
  <2> QED BY <1>1, <2>1, <2>2
<1>5. z = IF m + n = 0 THEN x ELSE Behind(w[m + n])
  <2>1. CASE n = 0
    BY <1>1, <1>2, <1>3, <2>1
  <2>2. CASE n # 0
    <3>1. n \in 1 .. n /\ m + n # 0
      BY <1>1, <2>2
    <3> QED BY <1>1, <1>3, <2>2, <3>1
  <2> QED BY <2>1, <2>2
<1>6. InStep(w, x)
  <2> SUFFICES ASSUME NEW i \in 1 .. m + n
               PROVE  /\ w[i].seq = (IF i = 1 THEN x ELSE Behind(w[i - 1]))
                      /\ i # 1 => Payload(w[i - 1])
    BY <1>1 DEF InStep
  <2>1. i # 1 => i - 1 \in 1 .. m + n
    BY <1>1
  <2> QED BY <1>4, <2>1
<1>7. Leads(w, x, z)
  BY <1>1, <1>4, <1>5, <1>6 DEF Leads
<1> QED BY <1>7 DEF w

\* A queue in sequence whose first payload is taken.
LEMMA InStepTail ==
  ASSUME NEW q \in Seq(ToClient), q # << >>, NEW x, InStep(q, x), Payload(Head(q))
  PROVE  Head(q).seq = x /\ InStep(Tail(q), Behind(Head(q)))
<1> DEFINE t == Tail(q)
<1>1. /\ 1 \in DOMAIN q /\ Head(q) = q[1]
      /\ \A i \in DOMAIN t : i + 1 \in DOMAIN q /\ t[i] = q[i + 1] /\ i \in Nat \ {0}
      /\ \A i \in DOMAIN t : i # 1 => i - 1 \in DOMAIN t /\ t[i - 1] = q[i]
  OBVIOUS
<1> HIDE DEF t
<1>2. q[1].seq = x
  BY <1>1 DEF InStep
<1>3. InStep(t, Behind(q[1]))
  <2> SUFFICES ASSUME NEW i \in DOMAIN t, Payload(t[i])
               PROVE  /\ t[i].seq = (IF i = 1 THEN Behind(q[1]) ELSE Behind(t[i - 1]))
                      /\ i # 1 => Payload(t[i - 1])
    BY DEF InStep
  <2> DEFINE j == i + 1
  <2>1. j \in DOMAIN q /\ t[i] = q[j] /\ j # 1 /\ j - 1 = i
    BY <1>1
  <2> HIDE DEF j
  <2>2. q[j].seq = Behind(q[j - 1]) /\ Payload(q[j - 1])
    BY <2>1 DEF InStep
  <2>3. q[j].seq = Behind(q[i]) /\ Payload(q[i])
    BY <2>1, <2>2
  <2> QED BY <1>1, <2>1, <2>3
<1> QED BY <1>1, <1>2, <1>3 DEF t

\* The same of a queue that leads somewhere.
LEMMA LeadsTail ==
  ASSUME NEW q \in Seq(ToClient), q # << >>, NEW x, NEW y, Leads(q, x, y)
  PROVE  Payload(Head(q)) /\ Head(q).seq = x /\ Leads(Tail(q), Behind(Head(q)), y)
<1> DEFINE t == Tail(q)
<1>1. /\ 1 \in DOMAIN q /\ Head(q) = q[1] /\ Len(q) \in Nat \ {0}
      /\ t \in Seq(ToClient) /\ Len(t) = Len(q) - 1 /\ DOMAIN t = 1 .. Len(q) - 1
      /\ \A i \in DOMAIN t : i + 1 \in DOMAIN q /\ t[i] = q[i + 1]
  OBVIOUS
<1>2. Payload(Head(q)) /\ InStep(q, x)
  BY <1>1 DEF Leads
<1>3. Head(q).seq = x /\ InStep(t, Behind(Head(q)))
  BY <1>2, InStepTail
<1> HIDE DEF t
<1>4. y = Behind(q[Len(q)])
  BY DEF Leads
<1>5. \A i \in DOMAIN t : Payload(t[i])
  BY <1>1 DEF Leads
<1>6. y = IF t = << >> THEN Behind(Head(q)) ELSE Behind(t[Len(t)])
  <2>1. CASE t = << >>
    <3>1. Len(t) = 0
      BY <2>1
    <3> QED BY <1>1, <1>4, <2>1, <3>1
  <2>2. CASE t # << >>
    <3>1. Len(t) # 0
      BY <1>1, <2>2
    <3>2. Len(t) \in DOMAIN t /\ Len(t) + 1 = Len(q)
      BY <1>1, <3>1
    <3> QED BY <1>1, <1>4, <2>2, <3>2
  <2> QED BY <2>1, <2>2
<1> QED BY <1>2, <1>3, <1>5, <1>6 DEF Leads, t

\* What is no payload may follow.
LEMMA InStepOther ==
  ASSUME NEW q \in Seq(ToClient), NEW s \in ToClient, ~Payload(s), NEW x, InStep(q, x)
  PROVE  InStep(q \o <<s>>, x)
<1> DEFINE w == q \o <<s>>
<1>1. /\ DOMAIN w = 1 .. Len(q) + 1 /\ Len(q) \in Nat /\ w[Len(q) + 1] = s
      /\ \A i \in 1 .. Len(q) : w[i] = q[i] /\ i \in DOMAIN q
  OBVIOUS
<1> HIDE DEF w
<1>2. InStep(w, x)
  <2> SUFFICES ASSUME NEW i \in 1 .. Len(q) + 1, Payload(w[i])
               PROVE  /\ w[i].seq = (IF i = 1 THEN x ELSE Behind(w[i - 1]))
                      /\ i # 1 => Payload(w[i - 1])
    BY <1>1 DEF InStep
  <2>1. i \in 1 .. Len(q) /\ (i # 1 => i - 1 \in 1 .. Len(q))
    BY <1>1
  <2> QED BY <1>1, <2>1 DEF InStep
<1> QED BY <1>2 DEF w

-----------------------------------------------------------------------------
(* _flushServerReadBacklog *)

\* The limit on unacknowledged segments, and where reading starts again.
LEMMA LimitFacts ==
  ASSUME NEW win \in Windows
  PROVE  /\ MaxPendingFor(win) \in 0 .. TcpMaxPending /\ ResumeTarget(win) \in Int
         /\ win > 0 => MaxPendingFor(win) >= 1 /\ ResumeTarget(win) >= 1
<1>1. win \in Nat /\ MSS \in Nat \ {0} /\ Slack \in Nat \ {0} /\ TcpMaxPending \in Nat \ {0}
      /\ ResumeMin \in Nat \ {0}
  BY NatAssumption
<1> DEFINE k == win \div MSS
<1>2. k \in Int
  BY <1>1
<1> DEFINE p == MaxPendingFor(win)
<1>3. p = IF win = 0 THEN 0 ELSE Min2(TcpMaxPending, Max2(Slack, k + Slack))
  BY DEF MaxPendingFor
<1> HIDE DEF k, p
<1>4. p \in 0 .. TcpMaxPending /\ (win > 0 => p >= 1)
  BY <1>1, <1>2, <1>3 DEF Min2, Max2
<1> DEFINE m == (p * 35) \div 100
<1>5. m \in Int
  BY <1>1, <1>4
<1>6. ResumeTarget(win) = IF p = 0 THEN 0 ELSE Max2(ResumeMin, m)
  BY DEF ResumeTarget, p
<1> HIDE DEF m
<1>7. ResumeTarget(win) \in Int /\ (win > 0 => ResumeTarget(win) >= 1)
  BY <1>1, <1>4, <1>5, <1>6 DEF Max2
<1> QED BY <1>4, <1>7 DEF p

\* What a flush cuts off the backlog: d is the entry after it and out are the segments.
Cut(c, d, out) ==
  /\ d = [c EXCEPT !.seq = d.seq, !.backlog = d.backlog, !.pend = d.pend, !.short = d.short]
  /\ \A i \in DOMAIN out : out[i].type = "data" /\ out[i].isn = c.isn
  /\ Bytes(out) + d.backlog = c.backlog
  /\ d.pend = c.pend + Len(out) /\ (c.backlog = 0 => out = << >>)
  /\ Leads(out, c.seq, d.seq) /\ (c.seq + Bytes(out)) % W = d.seq
  /\ d.backlog > 0 => d.pend >= MaxPendingFor(c.win)
  /\ ~d.short => ~c.short /\ \A i \in DOMAIN out : out[i].len = MSS

\* The segments of a flush are the beginning of the backlog, cut after every MSS bytes, as many
\* as the limit allows.
LEMMA FlushCuts ==
  ASSUME NEW c \in Conn
  PROVE  \E d \in Conn, out \in Seq(ToClient) : Flushed(c) = FinIfDue(d, out) /\ Cut(c, d, out)
<1> DEFINE B == c.backlog
<1> DEFINE lim == MaxPendingFor(c.win)
<1> DEFINE ceil == CeilDiv(B, MSS)
<1> DEFINE n == Min2(Max2(0, lim - c.pend), ceil)
<1> DEFINE bytes == Min2(n * MSS, B)
<1> DEFINE len(i) == Min2(MSS, B - (i - 1) * MSS)
<1> DEFINE out == [i \in 1 .. n |-> Segment(c.isn, "data", c.seq + (i - 1) * MSS, len(i))]
<1> DEFINE d == [c EXCEPT !.seq = (@ + bytes) % W, !.backlog = Max2(0, @ - bytes), !.pend = @ + n,
                          !.short = @ \/ bytes < n * MSS]
<1>1. Flushed(c) = FinIfDue(d, out)
  BY DEF Flushed, Sent
<1>2. /\ B \in Nat /\ c.seq \in 0 .. W - 1 /\ c.seq \in Int /\ c.win \in Windows /\ c.short \in BOOLEAN
      /\ c.pend \in 0 .. TcpMaxPending /\ MSS \in Nat \ {0} /\ TcpMaxPending \in Nat
      /\ c.isn \in 0 .. MaxSyns
  BY NatAssumption, SeqAssumption DEF Conn
<1>3. lim \in 0 .. TcpMaxPending
  BY <1>2, LimitFacts
<1>4. ceil \in Nat /\ ceil * MSS >= B /\ (ceil > 0 => (ceil - 1) * MSS < B) /\ (B = 0 => ceil = 0)
  BY <1>2, CeilFacts
<1> HIDE DEF lim, ceil
<1>5. /\ n \in Nat /\ n <= ceil /\ c.pend + n \in 0 .. TcpMaxPending
      /\ n < ceil => c.pend + n >= lim
  BY <1>2, <1>3, <1>4 DEF Min2, Max2
<1> HIDE DEF n
<1>6. n * MSS \in Nat /\ bytes \in Nat /\ bytes <= n * MSS /\ bytes <= B
  BY <1>2, <1>5 DEF Min2
<1>7. \A i \in 1 .. n : (i - 1) * MSS \in Nat /\ (i - 1) * MSS < B /\ i * MSS = (i - 1) * MSS + MSS
  <2> SUFFICES ASSUME NEW i \in 1 .. n
               PROVE  (i - 1) * MSS \in Nat /\ (i - 1) * MSS < B /\ i * MSS = (i - 1) * MSS + MSS
    OBVIOUS
  <2>1. i - 1 \in Nat /\ ceil - 1 \in Nat /\ i - 1 <= ceil - 1 /\ ceil > 0
    BY <1>4, <1>5
  <2>2. (i - 1) * MSS <= (ceil - 1) * MSS
    BY <1>2, <2>1
  <2>3. (i - 1) * MSS \in Nat /\ (ceil - 1) * MSS \in Nat
    BY <1>2, <2>1
  <2>4. i * MSS = (i - 1) * MSS + MSS
    BY <1>2
  <2> QED BY <1>2, <1>4, <2>1, <2>2, <2>3, <2>4
<1>8. \A i \in 1 .. n : len(i) \in 1 .. MSS /\ len(i) = Min2(MSS, B - (i - 1) * MSS)
  BY <1>2, <1>7 DEF Min2
<1> HIDE DEF len
<1>9. \A i \in 1 .. n : /\ out[i].type = "data" /\ out[i].len = len(i) /\ out[i].isn = c.isn
                        /\ out[i].seq = (c.seq + (i - 1) * MSS) % W
                        /\ out[i] \in ToClient
  <2> SUFFICES ASSUME NEW i \in 1 .. n
               PROVE  /\ out[i].type = "data" /\ out[i].len = len(i) /\ out[i].isn = c.isn
                      /\ out[i].seq = (c.seq + (i - 1) * MSS) % W
                      /\ out[i] \in ToClient
    OBVIOUS
  <2>1. out[i] = [type |-> "data", isn |-> c.isn, seq |-> (c.seq + (i - 1) * MSS) % W, len |-> len(i)]
    BY DEF Segment
  <2>2. c.seq + (i - 1) * MSS \in Int
    BY <1>2, <1>7
  <2>3. (c.seq + (i - 1) * MSS) % W \in 0 .. W - 1
    BY <2>2, Divided
  <2>4. len(i) \in 0 .. MSS
    BY <1>2, <1>8
  <2> QED BY <1>2, <2>1, <2>3, <2>4 DEF ToClient
<1>10. out \in Seq(ToClient) /\ Len(out) = n /\ DOMAIN out = 1 .. n
  BY <1>5, <1>9
<1> HIDE DEF out
<1> DEFINE g == [i \in 0 .. n |-> Min2(i * MSS, B)]
<1>11. Sums(out, n, g)
  <2>1. \A i \in 0 .. n : g[i] \in Nat
    <3> SUFFICES ASSUME NEW i \in 0 .. n PROVE g[i] \in Nat
      OBVIOUS
    <3>1. i * MSS \in Nat
      BY <1>2, <1>5
    <3> QED BY <1>2, <3>1 DEF Min2
  <2>2. g[0] = 0
    BY <1>2, <1>5 DEF Min2
  <2>3. ASSUME NEW i \in 1 .. n PROVE g[i] = g[i - 1] + out[i].len
    <3> DEFINE a == (i - 1) * MSS
    <3>1. a \in Nat /\ a < B /\ i * MSS = a + MSS
      BY <1>7
    <3>2. i - 1 \in 0 .. n /\ g[i - 1] = Min2(a, B)
      BY <1>5
    <3>3. len(i) = Min2(MSS, B - a)
      BY <1>8
    <3> HIDE DEF a
    <3>4. g[i] = Min2(a + MSS, B)
      BY <3>1
    <3> QED BY <1>2, <1>9, <3>1, <3>2, <3>3, <3>4, SMTT(30) DEF Min2
  <2> QED BY <2>1, <2>2, <2>3 DEF Sums
<1>12. Bytes(out) = bytes
  <2>1. Bytes(out) = g[n]
    BY <1>10, <1>11, BytesIsSum
  <2> QED BY <1>5, <2>1
<1>13. /\ d.seq = (c.seq + bytes) % W /\ d.backlog = B - bytes /\ d.pend = c.pend + n
       /\ d.short = (c.short \/ bytes < n * MSS)
       /\ d = [c EXCEPT !.seq = d.seq, !.backlog = d.backlog, !.pend = d.pend, !.short = d.short]
  BY <1>2, <1>6 DEF Conn, Max2
<1>14. (c.seq + bytes) % W \in 0 .. W - 1
  <2>1. c.seq + bytes \in Int
    BY <1>2, <1>6
  <2> QED BY <2>1, Divided
<1>15. d \in Conn
  <2>1. B - bytes \in Nat /\ (c.short \/ bytes < n * MSS) \in BOOLEAN
    BY <1>2, <1>6
  <2> HIDE DEF d, bytes
  <2> QED BY <1>5, <1>13, <1>14, <2>1 DEF Conn
<1> HIDE DEF d
<1>16. \A i \in 1 .. n : Behind(out[i]) = (c.seq + ((i - 1) * MSS + len(i))) % W
  <2> SUFFICES ASSUME NEW i \in 1 .. n
               PROVE  Behind(out[i]) = (c.seq + ((i - 1) * MSS + len(i))) % W
    OBVIOUS
  <2> DEFINE a == c.seq + (i - 1) * MSS
  <2>1. a \in Int /\ len(i) \in Int /\ (i - 1) * MSS \in Int
    BY <1>2, <1>7, <1>8
  <2>2. Behind(out[i]) = ((a % W) + len(i)) % W
    BY <1>9 DEF Behind
  <2>3. a + len(i) = c.seq + ((i - 1) * MSS + len(i))
    BY <1>2, <2>1
  <2> HIDE DEF a
  <2> QED BY <2>1, <2>2, <2>3, ModAdd
<1>17. Leads(out, c.seq, d.seq)
  <2>1. ASSUME NEW i \in 1 .. n
        PROVE  out[i].seq = (IF i = 1 THEN c.seq ELSE Behind(out[i - 1]))
    <3>1. CASE i = 1
      <4>1. c.seq + (1 - 1) * MSS = c.seq
        BY <1>2
      <4>2. c.seq % W = c.seq
        BY <1>2, ModSmall
      <4> QED BY <1>9, <3>1, <4>1, <4>2
    <3>2. CASE i # 1
      <4> DEFINE j == i - 1
      <4>1. j \in 1 .. n /\ j + 1 \in 1 .. n /\ j + 1 = i
        BY <1>5, <3>2
      <4> HIDE DEF j
      <4>2. j * MSS = (j - 1) * MSS + MSS /\ (j - 1) * MSS \in Nat
        BY <1>7, <4>1
      <4>3. j * MSS < B
        <5>1. ((j + 1) - 1) * MSS < B /\ (j + 1) - 1 = j
          BY <1>7, <4>1
        <5> QED BY <5>1
      <4>4. len(j) = MSS
        <5>1. len(j) = Min2(MSS, B - (j - 1) * MSS)
          BY <1>8, <4>1
        <5> QED BY <1>2, <4>2, <4>3, <5>1 DEF Min2
      <4>5. Behind(out[j]) = (c.seq + ((j - 1) * MSS + len(j))) % W
        BY <1>16, <4>1
      <4>6. Behind(out[j]) = (c.seq + j * MSS) % W
        BY <4>2, <4>4, <4>5
      <4>7. out[i].seq = (c.seq + j * MSS) % W
        BY <1>9 DEF j
      <4> QED BY <3>2, <4>6, <4>7 DEF j
    <3> QED BY <3>1, <3>2
  <2>2. d.seq = IF out = << >> THEN c.seq ELSE Behind(out[Len(out)])
    <3>1. CASE n = 0
      <4>1. bytes = 0 /\ c.seq + bytes = c.seq
        BY <1>2, <1>6, <3>1
      <4>2. out = << >>
        BY <1>10, <3>1
      <4>3. c.seq % W = c.seq
        BY <1>2, ModSmall
      <4> QED BY <1>13, <4>1, <4>2, <4>3
    <3>2. CASE n # 0
      <4>1. n \in 1 .. n /\ out # << >>
        BY <1>5, <1>10, <3>2
      <4>2. n * MSS = (n - 1) * MSS + MSS /\ (n - 1) * MSS \in Nat /\ (n - 1) * MSS < B
        BY <1>7, <4>1
      <4>3. len(n) = Min2(MSS, B - (n - 1) * MSS)
        BY <1>8, <4>1
      <4>4. (n - 1) * MSS + len(n) = bytes
        BY <1>2, <4>2, <4>3 DEF Min2
      <4>5. Behind(out[n]) = (c.seq + bytes) % W
        BY <1>16, <4>1, <4>4
      <4> QED BY <1>10, <1>13, <4>1, <4>5
    <3> QED BY <3>1, <3>2
  <2>3. \A i \in 1 .. n : Payload(out[i])
    BY <1>9 DEF Payload
  <2>4. InStep(out, c.seq)
    <3> SUFFICES ASSUME NEW i \in 1 .. n
                 PROVE  /\ out[i].seq = (IF i = 1 THEN c.seq ELSE Behind(out[i - 1]))
                        /\ i # 1 => Payload(out[i - 1])
      BY <1>10 DEF InStep
    <3>1. i # 1 => i - 1 \in 1 .. n
      BY <1>5
    <3> QED BY <2>1, <2>3, <3>1
  <2> QED BY <1>10, <2>2, <2>3, <2>4 DEF Leads
<1>18. d.backlog > 0 => d.pend >= lim
  <2> SUFFICES ASSUME B - bytes > 0 PROVE c.pend + n >= lim
    BY <1>13
  <2>1. n * MSS < B
    BY <1>2, <1>6 DEF Min2
  <2>2. n # ceil
    <3>1. n = ceil => n * MSS >= B
      BY <1>4
    <3> QED BY <1>2, <1>6, <2>1, <3>1
  <2> QED BY <1>4, <1>5, <2>2
<1>19. ~d.short => ~c.short /\ \A i \in DOMAIN out : out[i].len = MSS
  <2> DEFINE less == bytes < n * MSS
  <2>5. d.short = (c.short \/ less)
    BY <1>13
  <2> HIDE DEF less
  <2>6. ~d.short => ~c.short /\ ~less
    BY <2>5
  <2> SUFFICES ASSUME ~less, NEW i \in 1 .. n PROVE len(i) = MSS
    BY <1>9, <1>10, <2>6
  <2>1. n * MSS <= B
    BY <1>2, <1>6 DEF Min2, less
  <2>2. i * MSS <= n * MSS
    BY <1>2, <1>5
  <2>3. i * MSS = (i - 1) * MSS + MSS /\ (i - 1) * MSS \in Nat
    BY <1>7
  <2>4. len(i) = Min2(MSS, B - (i - 1) * MSS)
    BY <1>8
  <2> QED BY <1>2, <1>6, <2>1, <2>2, <2>3, <2>4 DEF Min2
<1>20. Cut(c, d, out)
  <2>1. Bytes(out) + d.backlog = c.backlog
    BY <1>2, <1>6, <1>12, <1>13
  <2>2. (c.seq + Bytes(out)) % W = d.seq
    BY <1>12, <1>13
  <2>3. \A i \in DOMAIN out : out[i].type = "data" /\ out[i].isn = c.isn
    BY <1>9, <1>10
  <2>4. c.backlog = 0 => out = << >>
    BY <1>4, <1>5, <1>10
  <2> HIDE DEF bytes
  <2> QED BY <1>10, <1>13, <1>17, <1>18, <1>19, <2>1, <2>2, <2>3, <2>4 DEF Cut, lim
<1> QED BY <1>1, <1>10, <1>15, <1>20

\* An entry whose FIN is sent has nothing left to send.
Finished(c) == (c.finSent <=> c.state = "FIN_WAIT") /\ (c.finSent => c.eof /\ c.pend = 0 /\ c.backlog = 0)

\* What a flush with its FIN makes of entry c: e, and the segments o.
Pushed(c, e, o) ==
  /\ e.isn = c.isn /\ \A i \in DOMAIN o : o[i].isn = c.isn
  /\ e.ack = c.ack /\ e.win = c.win /\ e.eof = c.eof /\ e.linger = c.linger
  /\ Live(e) /\ Finished(e) /\ (c.finSent => e.finSent /\ o = << >>)
  /\ Bytes(o) + e.backlog = c.backlog /\ Leads(o, c.seq, e.seq)
  /\ e.backlog > 0 => e.pend >= MaxPendingFor(e.win)
  /\ ~FinDue(e)
  /\ FinLast(o) /\ \A i \in DOMAIN o : Payload(o[i]) /\ (o[i].type = "fin" => e.finSent)
  /\ e.state = "ESTABLISHED" =>
       /\ c.state = "ESTABLISHED" /\ \A i \in DOMAIN o : o[i].type = "data"
       /\ e.pend = c.pend + Len(o) /\ (c.seq + Bytes(o)) % W = e.seq
       /\ ~e.short => ~c.short /\ \A i \in DOMAIN o : o[i].len = MSS

\* FIN follows what is cut off, once nothing is unacknowledged.
LEMMA FlushPushes ==
  ASSUME NEW c \in Conn, Live(c), Finished(c)
  PROVE  \E e \in Conn, o \in Seq(ToClient) : Flushed(c) = [conn |-> e, out |-> o] /\ Pushed(c, e, o)
<1>1. PICK d \in Conn, out \in Seq(ToClient) : Flushed(c) = FinIfDue(d, out) /\ Cut(c, d, out)
  BY FlushCuts
<1>2. /\ d.ack = c.ack /\ d.win = c.win /\ d.eof = c.eof /\ d.linger = c.linger
      /\ d.finSent = c.finSent /\ d.state = c.state /\ d.isn = c.isn
  <2>1. d = [c EXCEPT !.seq = d.seq, !.backlog = d.backlog, !.pend = d.pend, !.short = d.short]
    BY <1>1 DEF Cut
  <2> QED BY <2>1 DEF Conn
<1>3. /\ d.pend = c.pend + Len(out) /\ Len(out) \in Nat /\ (c.backlog = 0 => out = << >>)
      /\ Bytes(out) + d.backlog = c.backlog
      /\ Leads(out, c.seq, d.seq) /\ (c.seq + Bytes(out)) % W = d.seq
      /\ d.backlog > 0 => d.pend >= MaxPendingFor(c.win)
  BY <1>1 DEF Cut
<1>4. /\ \A i \in DOMAIN out : out[i].type = "data" /\ out[i].isn = c.isn
      /\ ~d.short => ~c.short /\ \A i \in DOMAIN out : out[i].len = MSS
  BY <1>1 DEF Cut
<1>5. /\ c.pend \in Nat /\ c.backlog \in Nat /\ d.pend \in Nat /\ d.backlog \in Nat
      /\ d.seq \in 0 .. W - 1 /\ d.seq \in Int /\ c.seq \in 0 .. W - 1 /\ d.isn \in 0 .. MaxSyns
  BY NatAssumption, SeqAssumption DEF Conn
<1>6. Bytes(out) \in Nat
  BY BytesConcat
<1>7. CASE ~FinDue(d)
  <2>1. Flushed(c) = [conn |-> d, out |-> out]
    BY <1>1, <1>7 DEF FinIfDue
  <2>2. c.finSent => out = << >> /\ d.pend = 0 /\ d.backlog = 0
    <3> SUFFICES ASSUME c.finSent PROVE out = << >> /\ d.pend = 0 /\ d.backlog = 0
      OBVIOUS
    <3>1. c.pend = 0 /\ c.backlog = 0
      BY DEF Finished
    <3>2. out = << >>
      BY <1>3, <3>1
    <3>3. Len(out) = 0 /\ Bytes(out) = 0
      BY <3>2, BytesFew
    <3> QED BY <1>3, <1>5, <3>1, <3>2, <3>3
  <2>3. Live(d) /\ Finished(d)
    BY <1>2, <2>2 DEF Live, Finished
  <2>4. FinLast(out) /\ \A i \in DOMAIN out : Payload(out[i]) /\ out[i].type # "fin"
    BY <1>4 DEF Payload, FinLast
  <2>5. Pushed(c, d, out)
    BY <1>2, <1>3, <1>4, <1>7, <2>2, <2>3, <2>4 DEF Pushed
  <2> QED BY <2>1, <2>5
<1>8. CASE FinDue(d)
  <2>1. d.eof /\ ~d.finSent /\ d.state = "ESTABLISHED" /\ d.backlog = 0 /\ d.pend = 0
    BY <1>8 DEF FinDue
  <2> DEFINE e == [d EXCEPT !.finSent = TRUE, !.state = "FIN_WAIT", !.seq = (@ + 1) % W]
  <2> DEFINE fin == Segment(d.isn, "fin", d.seq, 0)
  <2>2. Flushed(c) = [conn |-> e, out |-> Append(out, fin)]
    BY <1>1, <1>8 DEF FinIfDue
  <2>3. d.seq % W = d.seq /\ (d.seq + 1) % W \in 0 .. W - 1
    <3>1. d.seq + 1 \in Int
      BY <1>5
    <3> QED BY <1>5, <3>1, ModSmall, Divided
  <2>4. /\ e \in Conn /\ e.finSent /\ e.state = "FIN_WAIT" /\ e.seq = (d.seq + 1) % W
        /\ e.ack = d.ack /\ e.win = d.win /\ e.eof = d.eof /\ e.linger = d.linger
        /\ e.pend = d.pend /\ e.backlog = d.backlog /\ e.isn = d.isn
    BY <2>3 DEF Conn, States
  <2> HIDE DEF e
  <2>5. fin = [type |-> "fin", isn |-> d.isn, seq |-> d.seq, len |-> 0]
    BY <2>3 DEF Segment
  <2>6. fin \in ToClient /\ fin.type = "fin" /\ fin.seq = d.seq /\ fin.len = 0 /\ fin.isn = d.isn
    <3>1. d.isn \in 0 .. MaxSyns /\ d.seq \in 0 .. W - 1 /\ 0 \in 0 .. MSS
      BY <1>5, NatAssumption DEF Conn
    <3> HIDE DEF fin
    <3> QED BY <2>5, <3>1 DEF ToClient
  <2> HIDE DEF fin
  <2>7. Len(out) = 0
    BY <1>3, <1>5, <2>1
  <2>8. out = << >>
    BY <2>7
  <2>9. Append(out, fin) = <<fin>> /\ <<fin>> \in Seq(ToClient) /\ Bytes(out) = 0 /\ c.pend = 0
    BY <1>3, <1>5, <2>1, <2>6, <2>7, <2>8, BytesFew
  <2>10. Bytes(<<fin>>) = 0
    BY <2>6, BytesFew
  <2>11. d.seq = c.seq
    BY <1>3, <2>8 DEF Leads
  <2>12. Leads(<<fin>>, c.seq, e.seq)
    <3>1. DOMAIN <<fin>> = {1} /\ <<fin>>[1] = fin /\ Len(<<fin>>) = 1 /\ <<fin>> # << >>
      OBVIOUS
    <3>2. Behind(fin) = (d.seq + 1) % W
      BY <2>6 DEF Behind
    <3>3. InStep(<<fin>>, c.seq)
      BY <2>6, <2>11, <3>1 DEF InStep
    <3> QED BY <2>4, <2>6, <3>1, <3>2, <3>3 DEF Leads, Payload
  <2>13. c.backlog = 0 /\ ~c.finSent
    BY <1>2, <1>3, <1>5, <2>1, <2>9
  <2>14. Live(e) /\ Finished(e) /\ ~FinDue(e)
    BY <2>1, <2>4 DEF Live, Finished, FinDue
  <2>16. \A i \in DOMAIN <<fin>> : <<fin>>[i] = fin
    OBVIOUS
  <2>17. e.isn = c.isn /\ \A i \in DOMAIN <<fin>> : <<fin>>[i].isn = c.isn /\ Payload(<<fin>>[i])
    BY <1>2, <2>4, <2>6, <2>16 DEF Payload
  <2>18. FinLast(<<fin>>)
    BY <2>6, <2>16 DEF FinLast
  <2>15. Pushed(c, e, <<fin>>)
    BY <1>2, <2>1, <2>4, <2>10, <2>12, <2>13, <2>14, <2>17, <2>18 DEF Pushed
  <2> QED BY <2>2, <2>4, <2>9, <2>15
<1> QED BY <1>7, <1>8

\* _syncServerSocketPause changes only whether the socket is read; it is, with nothing to wait for.
LEMMA SyncedFacts ==
  ASSUME NEW c \in Conn
  PROVE  /\ Synced(c) \in Conn
         /\ Synced(c) = [c EXCEPT !.paused = Synced(c).paused]
         /\ Synced(c).paused => \/ c.win = 0 \/ c.backlog > 0
                                \/ c.pend >= ResumeTarget(c.win) \/ c.pend >= MaxPendingFor(c.win)
<1> DEFINE maxP == MaxPendingFor(c.win)
<1> DEFINE over == maxP > 0 /\ c.pend >= maxP
<1> DEFINE stuck == c.backlog > 0 /\ (over \/ c.win = 0)
<1> DEFINE A == (c.win = 0 \/ over \/ stuck) /\ ~c.paused
<1> DEFINE B == c.paused /\ c.win > 0 /\ c.pend < ResumeTarget(c.win) /\ c.pend < maxP /\ ~stuck
<1>1. Synced(c) = IF A THEN [c EXCEPT !.paused = TRUE] ELSE IF B THEN [c EXCEPT !.paused = FALSE] ELSE c
  BY DEF Synced
<1>2. /\ maxP \in Int /\ ResumeTarget(c.win) \in Int /\ c.win \in Nat /\ c.pend \in Int
      /\ c.backlog \in Nat /\ c.paused \in BOOLEAN
  <2>1. c.win \in Windows /\ c.pend \in 0 .. TcpMaxPending /\ c.backlog \in Nat /\ c.paused \in BOOLEAN
    BY DEF Conn
  <2>2. maxP \in 0 .. TcpMaxPending /\ ResumeTarget(c.win) \in Int
    BY <2>1, LimitFacts
  <2>3. TcpMaxPending \in Nat /\ c.win \in Nat
    BY <2>1, NatAssumption
  <2> HIDE DEF maxP
  <2> QED BY <2>1, <2>2, <2>3
<1>3. A => c.win = 0 \/ c.backlog > 0 \/ c.pend >= maxP
  OBVIOUS
<1>4. c.paused /\ ~B => \/ c.win = 0 \/ c.backlog > 0
                        \/ c.pend >= ResumeTarget(c.win) \/ c.pend >= maxP
  BY <1>2
<1> HIDE DEF A, B
<1>5. CASE A
  BY <1>1, <1>3, <1>5 DEF Conn
<1>6. CASE ~A /\ B
  BY <1>1, <1>6 DEF Conn
<1>7. CASE ~A /\ ~B
  <2>1. Synced(c) = c
    BY <1>1, <1>7
  <2>2. c = [c EXCEPT !.paused = c.paused]
    BY DEF Conn
  <2> QED BY <1>4, <1>7, <2>1, <2>2
<1> QED BY <1>5, <1>6, <1>7

\* What Push leaves behind.
LEMMA PushFacts ==
  ASSUME NEW c \in Conn, Live(c), Finished(c), Push(c)
  PROVE  /\ conn' \in Conn /\ Flowing(conn')
         /\ \E o \in Seq(ToClient) : toClient' = toClient \o o /\ Pushed(c, conn', o)
<1>1. PICK e \in Conn, o \in Seq(ToClient) : Flushed(c) = [conn |-> e, out |-> o] /\ Pushed(c, e, o)
  BY FlushPushes
<1>2. conn' = Synced(e) /\ toClient' = toClient \o o
  BY <1>1 DEF Push, Send
<1>3. /\ conn' \in Conn /\ conn' = [e EXCEPT !.paused = conn'.paused]
      /\ conn'.paused => \/ e.win = 0 \/ e.backlog > 0
                         \/ e.pend >= ResumeTarget(e.win) \/ e.pend >= MaxPendingFor(e.win)
  BY <1>2, SyncedFacts
<1>4. /\ conn'.ack = e.ack /\ conn'.win = e.win /\ conn'.eof = e.eof /\ conn'.linger = e.linger
      /\ conn'.state = e.state /\ conn'.finSent = e.finSent /\ conn'.pend = e.pend
      /\ conn'.backlog = e.backlog /\ conn'.seq = e.seq /\ conn'.short = e.short
      /\ conn'.isn = e.isn
  BY <1>3 DEF Conn
<1> DEFINE f == conn'
<1> HIDE DEF f
<1>5. Live(f) <=> Live(e)
  BY <1>4 DEF Live, f
<1>6. Finished(f) <=> Finished(e)
  BY <1>4 DEF Finished, f
<1>7. FinDue(f) <=> FinDue(e)
  BY <1>4 DEF FinDue, f
<1>8. Pushed(c, f, o)
  BY <1>1, <1>4, <1>5, <1>6, <1>7 DEF Pushed, f
<1>9. Flowing(f)
  BY <1>1, <1>3, <1>4, <1>7 DEF Flowing, Pushed, f
<1> QED BY <1>2, <1>3, <1>8, <1>9 DEF f

-----------------------------------------------------------------------------
(* The entry and its socket. *)

EntryTypes == conn \in Conn /\ connecting \in 0 .. MaxConnections
              /\ sock \in {"none", "connecting", "open", "ended", "closed"}
              /\ read \in Nat /\ total \in 0 .. MaxRead /\ joined \in BOOLEAN /\ expired \in BOOLEAN
QueueTypes == toClient \in Seq(ToClient) /\ toNat \in Seq(ToNat)
ClientTypes == client \in Client /\ syns \in 0 .. MaxSyns /\ got \in Nat /\ broken \in BOOLEAN

\* Everything about the entry alone.
ConnInv == EntryTypes /\ EntryInv /\ FlowInv

\* The types of the constants.
LEMMA Constants ==
  /\ MSS \in Nat \ {0} /\ TcpMaxPending \in Nat \ {0} /\ MaxConnections \in Nat /\ Reads \subseteq Nat
  /\ MaxSyns \in Nat
  /\ Windows \subseteq Nat /\ FullWindow \in Windows /\ W \in Nat /\ W > 1 /\ FirstSeqs \subseteq 0 .. W - 1
  BY NatAssumption, SeqAssumption, Modulus

\* The entry that is not there.
LEMMA NoConnType == NoConn \in Conn /\ Fresh(NoConn) /\ NoConn.state = "CLOSED" /\ NoConn.seq = 0
                      /\ NoConn.isn = 0
  BY Constants DEF NoConn, Conn, Fresh, States

\* A segment made by Segment.
LEMMA SegmentType ==
  ASSUME NEW n \in 0 .. MaxSyns, NEW type \in {"synack", "data", "fin", "rst"}, NEW x \in 0 .. W - 1
  PROVE  LET s == Segment(n, type, x, 0) IN
         s \in ToClient /\ s.type = type /\ s.isn = n /\ s.seq = x /\ s.len = 0
<1>1. x % W = x
  BY ModSmall
<1>2. Segment(n, type, x, 0) = [type |-> type, isn |-> n, seq |-> x, len |-> 0]
  BY <1>1 DEF Segment
<1> QED BY <1>2, Constants DEF ToClient

\* The number of a segment is one of the client's.
LEMMA Isns == (\A s \in ToNat : s.isn \in 0 .. MaxSyns /\ s.isn \in Nat)
              /\ (\A s \in ToClient : s.isn \in 0 .. MaxSyns /\ s.isn \in Nat)
  BY Constants DEF ToNat, ToClient

\* The invariant of the entry does not depend on queues and client.
LEMMA ConnUnchanged ==
  ASSUME ConnInv, UNCHANGED <<conn, connecting, sock, read, total>>,
         joined' \in BOOLEAN, expired' \in BOOLEAN, conn.state = "CONNECTING" => ~joined'
  PROVE  ConnInv'
  BY DEF ConnInv, EntryTypes, EntryInv, FlowInv

\* An entry that is removed.
LEMMA ConnClosed ==
  ASSUME ConnInv, CloseConnection, UNCHANGED <<read, total, joined>>, expired' \in BOOLEAN,
         connecting' \in 0 .. MaxConnections
  PROVE  ConnInv'
<1>1. conn' = NoConn /\ sock' = "none"
  BY DEF CloseConnection
<1>2. /\ conn'.state = "CLOSED" /\ ~conn'.finSent /\ ~conn'.linger
  BY <1>1, NoConnType DEF Fresh
<1>3. EntryTypes'
  BY <1>1, NoConnType DEF ConnInv, EntryTypes
<1>4. EntryInv'
  BY <1>1, <1>2 DEF EntryInv
<1>5. FlowInv'
  BY <1>2 DEF FlowInv, Live
<1> QED BY <1>3, <1>4, <1>5 DEF ConnInv

\* An entry that lingers or is removed.
LEMMA ConnLingers ==
  ASSUME ConnInv, LingerOrClose, UNCHANGED <<read, total, joined, expired>>,
         connecting' \in 0 .. MaxConnections
  PROVE  ConnInv'
<1>1. CASE ~conn.finSent
  BY <1>1, ConnClosed DEF LingerOrClose, ConnInv, EntryTypes
<1>2. CASE conn.finSent
  <2>1. conn' = [conn EXCEPT !.linger = TRUE] /\ sock' = "closed"
    BY <1>2 DEF LingerOrClose
  <2>2. conn \in Conn
    BY DEF ConnInv, EntryTypes
  <2>3. /\ conn'.state = conn.state /\ conn'.finSent = conn.finSent /\ conn'.pend = conn.pend
        /\ conn'.backlog = conn.backlog /\ conn'.paused = conn.paused /\ conn'.win = conn.win
        /\ conn'.eof = conn.eof /\ conn' \in Conn
    BY <2>1, <2>2 DEF Conn
  <2>4. conn.state = "FIN_WAIT" /\ conn.eof /\ conn.pend = 0 /\ conn.backlog = 0
    BY <1>2 DEF ConnInv, EntryInv
  <2>5. EntryTypes'
    BY <2>1, <2>3 DEF ConnInv, EntryTypes
  <2>6. EntryInv'
    BY <1>2, <2>1, <2>3, <2>4 DEF EntryInv
  <2>7. Flowing(conn)
    BY <2>4 DEF ConnInv, FlowInv, Live
  <2>8. FlowInv'
    BY <2>3, <2>7 DEF FlowInv, Flowing, FinDue
  <2> QED BY <2>5, <2>6, <2>8 DEF ConnInv
<1> QED BY <1>1, <1>2

\* A flush.
LEMMA ConnPushed ==
  ASSUME ConnInv, NEW c \in Conn, Live(c), Finished(c), Push(c), ~c.linger \/ c.finSent,
         connecting' = connecting, joined' = joined, expired' = expired,
         read' \in Nat, total' \in 0 .. MaxRead,
         sock' \in {"open", "ended", "closed"}, sock' = "open" => ~c.eof
  PROVE  ConnInv'
<1>1. conn' \in Conn /\ Flowing(conn')
  BY PushFacts
<1>2. PICK o \in Seq(ToClient) : toClient' = toClient \o o /\ Pushed(c, conn', o)
  BY PushFacts
<1>3. /\ Live(conn') /\ Finished(conn') /\ conn'.eof = c.eof /\ conn'.linger = c.linger
      /\ (c.finSent => conn'.finSent) /\ ~FinDue(conn')
  BY <1>2 DEF Pushed
<1>4. EntryTypes'
  BY <1>1 DEF ConnInv, EntryTypes
<1>5. EntryInv'
  BY <1>3 DEF EntryInv, Live, Finished
<1>6. FlowInv'
  BY <1>1 DEF FlowInv
<1> QED BY <1>4, <1>5, <1>6 DEF ConnInv

\* _updatePeerWindowAndAck: the window is taken in any case, an ACK that is new with what it covers.
LEMMA AckFacts ==
  ASSUME NEW b \in Conn, NEW s \in ToNat, NEW c, c = Acknowledged(b, s)
  PROVE  /\ c \in Conn /\ c.win = s.win /\ c.state = b.state /\ c.seq = b.seq /\ c.backlog = b.backlog
         /\ c.paused = b.paused /\ c.eof = b.eof /\ c.finSent = b.finSent /\ c.linger = b.linger
         /\ c.short = b.short /\ c.pend <= b.pend /\ c.isn = b.isn
         /\ b.ack = -1 => c.ack = s.ack /\ c.pend = b.pend
         /\ b.ack # -1 =>
              LET delta == (s.ack - b.ack) % W IN
              IF delta > 0 /\ delta < W \div 2
                THEN c.ack = s.ack /\ c.pend = b.pend - Released(b, delta)
                ELSE c.ack = b.ack /\ c.pend = b.pend
<1> DEFINE d == [b EXCEPT !.win = s.win]
<1> DEFINE delta == (s.ack - b.ack) % W
<1> DEFINE k == Released(b, delta)
<1> DEFINE new == delta > 0 /\ delta < W \div 2
<1>1. /\ s.ack \in 0 .. W - 1 /\ s.win \in Windows /\ s.ack \in -1 .. W - 1
      /\ b.ack \in -1 .. W - 1 /\ b.pend \in 0 .. TcpMaxPending /\ W \in Nat /\ TcpMaxPending \in Nat
  BY Constants DEF ToNat, Conn
<1>2. /\ d \in Conn /\ d.win = s.win /\ d.state = b.state /\ d.seq = b.seq /\ d.backlog = b.backlog
      /\ d.paused = b.paused /\ d.eof = b.eof /\ d.finSent = b.finSent /\ d.linger = b.linger
      /\ d.short = b.short /\ d.pend = b.pend /\ d.ack = b.ack /\ d.isn = b.isn
  BY <1>1 DEF Conn
<1>3. delta \in 0 .. W - 1 /\ delta \in Nat
  <2>1. s.ack - b.ack \in Int
    BY <1>1
  <2>2. delta \in 0 .. W - 1
    BY <2>1, Divided
  <2> QED BY <1>1, <2>2
<1>4. c = IF b.ack = -1 THEN [d EXCEPT !.ack = s.ack]
          ELSE IF new THEN [d EXCEPT !.ack = s.ack, !.pend = @ - k] ELSE d
  BY DEF Acknowledged
<1> HIDE DEF d, delta, new
<1>5. k \in 0 .. b.pend
  <2>1. CeilDiv(delta, MSS) \in Nat
    BY <1>3, CeilFacts
  <2> QED BY <1>1, <2>1 DEF Released, Min2, Max2
<1> HIDE DEF k
<1>6. CASE b.ack = -1
  <2>1. c = [d EXCEPT !.ack = s.ack]
    BY <1>4, <1>6
  <2>2. c \in Conn /\ c.ack = s.ack /\ c.pend = d.pend
    BY <1>1, <1>2, <2>1 DEF Conn
  <2> QED BY <1>1, <1>2, <1>6, <2>1, <2>2 DEF Conn
<1>7. CASE b.ack # -1 /\ new
  <2>1. c = [d EXCEPT !.ack = s.ack, !.pend = d.pend - k]
    BY <1>4, <1>7
  <2>2. d.pend - k \in 0 .. TcpMaxPending /\ d.pend - k <= b.pend
    BY <1>1, <1>2, <1>5
  <2>3. c \in Conn /\ c.ack = s.ack /\ c.pend = d.pend - k
    BY <1>1, <1>2, <2>1, <2>2 DEF Conn
  <2>4. /\ c.win = d.win /\ c.state = d.state /\ c.seq = d.seq /\ c.backlog = d.backlog
        /\ c.paused = d.paused /\ c.eof = d.eof /\ c.finSent = d.finSent /\ c.linger = d.linger
        /\ c.short = d.short /\ c.isn = d.isn
    BY <1>2, <2>1 DEF Conn
  <2> QED BY <1>2, <1>7, <2>2, <2>3, <2>4 DEF new, delta, k
<1>8. CASE b.ack # -1 /\ ~new
  <2>1. c = d
    BY <1>4, <1>8
  <2> QED BY <1>1, <1>2, <1>8, <2>1 DEF new, delta
<1> QED BY <1>6, <1>7, <1>8

\* A message taken off a queue.
LEMMA TakenFacts ==
  ASSUME NEW S, NEW q \in Seq(S), q # << >>
  PROVE  /\ Head(q) \in S /\ Head(q) = q[1] /\ 1 \in DOMAIN q /\ Tail(q) \in Seq(S)
         /\ Len(q) \in Nat \ {0} /\ DOMAIN q = 1 .. Len(q)
         /\ Len(Tail(q)) = Len(q) - 1 /\ DOMAIN Tail(q) = 1 .. Len(q) - 1
         /\ \A i \in DOMAIN Tail(q) : i + 1 \in DOMAIN q /\ Tail(q)[i] = q[i + 1] /\ i \in Nat \ {0}
OBVIOUS

\* The entry as Push takes it, with an acknowledgement, with more to send or with its end.
LEMMA Pushable ==
  ASSUME ConnInv, Live(conn)
  PROVE  /\ Finished(conn) /\ (~conn.linger \/ conn.finSent)
         /\ \A s \in ToNat : LET c == Acknowledged(conn, s) IN
              c \in Conn /\ Live(c) /\ Finished(c) /\ c.linger = conn.linger /\ c.finSent = conn.finSent
         /\ sock = "open" => /\ \A n \in Nat : LET c == [conn EXCEPT !.backlog = @ + n] IN
                                  /\ c \in Conn /\ Live(c) /\ Finished(c) /\ ~c.linger /\ ~c.eof
                                  /\ c = [conn EXCEPT !.backlog = conn.backlog + n]
                             /\ LET c == [conn EXCEPT !.eof = TRUE] IN
                                  c \in Conn /\ Live(c) /\ Finished(c) /\ ~c.linger
<1>1. conn \in Conn
  BY DEF ConnInv, EntryTypes
<1>2. Finished(conn) /\ (~conn.linger \/ conn.finSent)
  BY DEF ConnInv, EntryInv, Finished
<1>3. ASSUME NEW s \in ToNat
      PROVE  LET c == Acknowledged(conn, s) IN
             c \in Conn /\ Live(c) /\ Finished(c) /\ c.linger = conn.linger /\ c.finSent = conn.finSent
  <2> DEFINE c == Acknowledged(conn, s)
  <2>1. /\ c \in Conn /\ c.state = conn.state /\ c.finSent = conn.finSent /\ c.linger = conn.linger
        /\ c.backlog = conn.backlog /\ c.pend <= conn.pend /\ c.eof = conn.eof
    BY <1>1, AckFacts
  <2> HIDE DEF c
  <2>2. c.pend \in Nat
    BY <2>1, Constants DEF Conn
  <2>3. Finished(c)
    BY <1>2, <2>1, <2>2 DEF Finished
  <2>4. Live(c)
    BY <2>1 DEF Live
  <2> QED BY <2>1, <2>3, <2>4 DEF c
<1>4. sock = "open" => ~conn.finSent /\ ~conn.linger /\ ~conn.eof /\ conn.state = "ESTABLISHED"
  BY DEF ConnInv, EntryInv
<1>5. ASSUME sock = "open", NEW n \in Nat
      PROVE  LET c == [conn EXCEPT !.backlog = @ + n] IN
             /\ c \in Conn /\ Live(c) /\ Finished(c) /\ ~c.linger /\ ~c.eof
             /\ c = [conn EXCEPT !.backlog = conn.backlog + n]
  <2> DEFINE c == [conn EXCEPT !.backlog = @ + n]
  <2>1. /\ c \in Conn /\ c.state = conn.state /\ c.finSent = conn.finSent /\ c.linger = conn.linger
        /\ c.eof = conn.eof /\ c = [conn EXCEPT !.backlog = conn.backlog + n]
    BY <1>1 DEF Conn
  <2> HIDE DEF c
  <2>2. Live(c) /\ Finished(c)
    BY <1>4, <1>5, <2>1 DEF Live, Finished
  <2> QED BY <1>4, <1>5, <2>1, <2>2 DEF c
<1>6. ASSUME sock = "open"
      PROVE  LET c == [conn EXCEPT !.eof = TRUE] IN
             c \in Conn /\ Live(c) /\ Finished(c) /\ ~c.linger
  <2> DEFINE c == [conn EXCEPT !.eof = TRUE]
  <2>1. c \in Conn /\ c.state = conn.state /\ c.finSent = conn.finSent /\ c.linger = conn.linger
    BY <1>1 DEF Conn
  <2> HIDE DEF c
  <2>2. Live(c) /\ Finished(c)
    BY <1>4, <1>6, <2>1 DEF Live, Finished
  <2> QED BY <1>4, <1>6, <2>1, <2>2 DEF c
<1> QED BY <1>2, <1>3, <1>5, <1>6

\* connectingCount after an attempt that has ended.
LEMMA LeftType == ASSUME ConnInv PROVE ConnectingLeft \in 0 .. MaxConnections
<1>1. connecting \in 0 .. MaxConnections /\ (conn.state = "CONNECTING" => connecting >= 1)
  BY DEF ConnInv, EntryTypes, EntryInv
<1> QED BY <1>1, Constants DEF ConnectingLeft

\* A SYN makes a new entry.
LEMMA ConnSyn == ASSUME ConnInv, toNat \in Seq(ToNat), HandleSyn PROVE ConnInv'
<1>1. PICK s \in FirstSeqs :
        conn' = [NoConn EXCEPT !.state = "CONNECTING", !.isn = Head(toNat).isn, !.seq = s,
                               !.win = Head(toNat).win]
  BY DEF HandleSyn
<1>2. toNat # << >> /\ connecting < MaxConnections /\ connecting' = connecting + 1
      /\ sock' = "connecting" /\ read' = 0 /\ joined' = FALSE /\ total' = total /\ expired' = expired
  BY DEF HandleSyn, Take
<1>3. Head(toNat).win \in Windows /\ Head(toNat).isn \in 0 .. MaxSyns /\ s \in 0 .. W - 1
  <2>1. Head(toNat) \in ToNat
    BY <1>2, TakenFacts
  <2> QED BY <2>1, Constants DEF ToNat
<1>4. conn' \in Conn /\ conn'.state = "CONNECTING" /\ Fresh(conn')
  BY <1>1, <1>3, NoConnType DEF Conn, States, Fresh
<1>5. connecting' \in 0 .. MaxConnections /\ connecting' >= 1
  BY <1>2, Constants DEF ConnInv, EntryTypes
<1>6. EntryTypes'
  BY <1>2, <1>4, <1>5 DEF ConnInv, EntryTypes
<1>7. EntryInv'
  BY <1>2, <1>4, <1>5 DEF EntryInv, Fresh
<1>8. FlowInv'
  BY <1>4 DEF FlowInv, Live
<1> QED BY <1>6, <1>7, <1>8 DEF ConnInv

\* The entry of a new connection, with its SYN-ACK.
LEMMA ConnectedFacts ==
  ASSUME ConnInv, Connected
  PROVE  /\ conn' \in Conn /\ conn'.state = "ESTABLISHED" /\ conn'.win = FullWindow /\ Fresh(conn')
         /\ conn'.seq = (conn.seq + 1) % W /\ Fresh(conn) /\ conn.state = "CONNECTING"
         /\ conn.seq \in 0 .. W - 1 /\ read = 0 /\ ~joined
         /\ connecting >= 1 /\ conn'.isn = conn.isn /\ conn.isn \in 0 .. MaxSyns
<1>1. conn \in Conn /\ conn.state = "CONNECTING" /\ Fresh(conn) /\ read = 0 /\ ~joined /\ connecting >= 1
  BY DEF ConnInv, EntryTypes, EntryInv, Connected
<1>2. conn' = [conn EXCEPT !.state = "ESTABLISHED", !.win = FullWindow, !.seq = (@ + 1) % W]
  BY DEF Connected
<1>3. conn.seq \in 0 .. W - 1 /\ conn.seq + 1 \in Int
  BY <1>1, Constants DEF Conn
<1>4. (conn.seq + 1) % W \in 0 .. W - 1
  BY <1>3, Divided
<1> QED BY <1>1, <1>2, <1>3, <1>4, Constants DEF Conn, States, Fresh

\* A connection that is made.
LEMMA ConnConnected == ASSUME ConnInv, Connected PROVE ConnInv'
<1>1. /\ conn' \in Conn /\ conn'.state = "ESTABLISHED" /\ conn'.win = FullWindow /\ Fresh(conn')
      /\ connecting >= 1
  BY ConnectedFacts
<1>2. /\ sock' = "open" /\ connecting' = connecting - 1
      /\ UNCHANGED <<read, total, joined, expired>>
  BY DEF Connected
<1>3. connecting' \in 0 .. MaxConnections
  BY <1>1, <1>2, Constants DEF ConnInv, EntryTypes
<1>4. EntryTypes'
  BY <1>1, <1>2, <1>3 DEF ConnInv, EntryTypes
<1>5. EntryInv'
  BY <1>1, <1>2 DEF EntryInv, Fresh
<1>6. Flowing(conn')
  BY <1>1 DEF Flowing, Fresh, FinDue
<1> QED BY <1>4, <1>5, <1>6 DEF ConnInv, FlowInv

\* Every step keeps the invariant of the entry.
LEMMA ConnStep == ASSUME ConnInv, QueueTypes, Next PROVE ConnInv'
<1>1. /\ conn \in Conn /\ joined \in BOOLEAN /\ expired \in BOOLEAN /\ conn.finSent \in BOOLEAN
      /\ connecting \in 0 .. MaxConnections /\ read \in Nat /\ total \in 0 .. MaxRead
      /\ conn.state = "CONNECTING" => ~joined
  BY DEF ConnInv, EntryTypes, EntryInv, Conn
<1>2. Expires => expired' \in BOOLEAN
  BY DEF Expires
<1>3. toNat \in Seq(ToNat) /\ toClient \in Seq(ToClient)
  BY DEF QueueTypes
<1>4. CASE HandleRst
  <2>1. CASE conn.state = "CLOSED"
    BY <1>1, <1>2, <1>4, <2>1, ConnUnchanged DEF HandleRst
  <2>2. CASE conn.state # "CLOSED"
    BY <1>1, <1>2, <1>4, <2>2, ConnClosed DEF HandleRst
  <2> QED BY <2>1, <2>2
<1>5. CASE DropSyn
  BY <1>1, <1>5, ConnUnchanged DEF DropSyn
<1>6. CASE HandleSyn
  BY <1>3, <1>6, ConnSyn
<1>7. CASE Unknown
  BY <1>1, <1>7, ConnUnchanged DEF Unknown
<1>8. CASE HandleAck
  <2>1. CASE ~Live(conn)
    BY <1>1, <1>8, <2>1, ConnUnchanged DEF HandleAck
  <2>2. CASE Live(conn)
    <3> DEFINE c == Acknowledged(conn, Head(toNat))
    <3>1. Push(c) /\ UNCHANGED <<connecting, sock, read, total, joined, expired>> /\ toNat # << >>
      BY <1>8, <2>2 DEF HandleAck, Take
    <3>2. Head(toNat) \in ToNat
      BY <1>3, <3>1, TakenFacts
    <3>3. c \in Conn /\ Live(c) /\ Finished(c) /\ (~c.linger \/ c.finSent)
      BY <2>2, <3>2, Pushable
    <3>4. c.eof = conn.eof
      BY <1>1, <3>2, AckFacts
    <3>5. sock \in {"open", "ended", "closed"} /\ (sock = "open" => ~conn.eof)
      BY <2>2 DEF ConnInv, EntryTypes, EntryInv, Live
    <3> HIDE DEF c
    <3> QED BY <1>1, <3>1, <3>3, <3>4, <3>5, ConnPushed
  <2> QED BY <2>1, <2>2
<1>9. CASE Arrives
  <2>1. CASE ClientEstablished
    <3>1. UNCHANGED <<conn, connecting, sock, read, total, expired>>
      BY <2>1 DEF ClientEstablished
    <3>2. joined' \in BOOLEAN /\ (joined' => Live(conn))
      BY <2>1 DEF ClientEstablished
    <3>3. conn.state = "CONNECTING" => ~joined'
      BY <3>2 DEF Live
    <3> QED BY <1>1, <3>1, <3>2, <3>3, ConnUnchanged
  <2>2. CASE ClientReceives
    BY <1>1, <2>2, ConnUnchanged DEF ClientReceives
  <2>3. CASE ClientReset
    BY <1>1, <2>3, ConnUnchanged DEF ClientReset
  <2>4. CASE ClientRefuses
    BY <1>1, <2>4, ConnUnchanged DEF ClientRefuses
  <2> QED BY <1>9, <2>1, <2>2, <2>3, <2>4 DEF Arrives
<1>10. CASE Acks \/ ClientSyn \/ ClientFin \/ ClientRst \/ ClientDone
  <2>1. UNCHANGED <<conn, connecting, sock, read, total, joined>> /\ expired' \in BOOLEAN
    BY <1>1, <1>10 DEF Acks, ClientAck, ClientSyn, ClientFin, ClientRst, ClientDone
  <2> QED BY <1>1, <2>1, ConnUnchanged
<1>12. CASE Connected
  BY <1>12, ConnConnected
<1>13. ASSUME NEW n \in Reads, Data(n) PROVE ConnInv'
  <2> DEFINE c == [conn EXCEPT !.backlog = @ + n]
  <2>1. /\ Push(c) /\ sock = "open" /\ total' = total + n /\ read' = read + n /\ total + n <= MaxRead
        /\ UNCHANGED <<connecting, sock, joined, expired>>
    BY <1>13 DEF Data
  <2>2. n \in Nat
    BY Constants
  <2>3. Live(conn)
    BY <2>1 DEF ConnInv, EntryInv, Live
  <2>4. c \in Conn /\ Live(c) /\ Finished(c) /\ ~c.linger /\ ~c.eof
    BY <2>1, <2>2, <2>3, Pushable
  <2>5. read' \in Nat /\ total' \in 0 .. MaxRead
    BY <1>1, <2>1, <2>2, NatAssumption
  <2> HIDE DEF c
  <2> QED BY <2>1, <2>4, <2>5, ConnPushed
<1>14. CASE End
  <2> DEFINE c == [conn EXCEPT !.eof = TRUE]
  <2>1. Push(c) /\ sock = "open" /\ sock' = "ended" /\ UNCHANGED <<connecting, read, total, joined, expired>>
    BY <1>14 DEF End
  <2>2. Live(conn)
    BY <2>1 DEF ConnInv, EntryInv, Live
  <2>3. c \in Conn /\ Live(c) /\ Finished(c) /\ ~c.linger
    BY <2>1, <2>2, Pushable
  <2> HIDE DEF c
  <2> QED BY <1>1, <2>1, <2>3, ConnPushed
<1>15. CASE Close
  BY <1>1, <1>15, ConnLingers DEF Close
<1>16. CASE Error \/ Timeout
  BY <1>16, LeftType, ConnLingers DEF Error, Timeout
<1>17. CASE LingerFires
  BY <1>1, <1>2, <1>17, ConnClosed DEF LingerFires
<1>18. CASE Sweep
  BY <1>1, <1>2, <1>18, ConnClosed DEF Sweep
<1> QED
  BY <1>4, <1>5, <1>6, <1>7, <1>8, <1>9, <1>10, <1>12, <1>13, <1>14, <1>15, <1>16, <1>17, <1>18
     DEF Next, Handled

-----------------------------------------------------------------------------
(* Queues, client and bytes. *)

\* The three kinds of steps that send through the flush.
Pushing(c) ==
  /\ Push(c)
  /\ \/ /\ HandleAck /\ Live(conn) /\ c = Acknowledged(conn, Head(toNat))
     \/ \E n \in Reads : Data(n) /\ c = [conn EXCEPT !.backlog = conn.backlog + n]
     \/ End /\ c = [conn EXCEPT !.eof = TRUE]

\* What such a step does, up to the flush.
LEMMA PushingFacts ==
  ASSUME ConnInv, QueueTypes, NEW c, Pushing(c)
  PROVE  /\ c \in Conn /\ Live(c) /\ Finished(c) /\ Live(conn) /\ conn \in Conn /\ conn' \in Conn
         /\ c.seq = conn.seq /\ c.state = conn.state /\ c.finSent = conn.finSent /\ c.short = conn.short
         /\ c.isn = conn.isn /\ conn'.isn = conn.isn
         /\ UNCHANGED <<connecting, clientVars, joined, expired>>
         /\ \E o \in Seq(ToClient) : toClient' = toClient \o o /\ Pushed(c, conn', o)
         /\ \E n \in Nat : c.backlog = conn.backlog + n /\ read' = read + n /\ total' = total + n
<1>0. conn \in Conn /\ Push(c)
  BY DEF ConnInv, EntryTypes, Pushing
<1>1. CASE HandleAck /\ Live(conn) /\ c = Acknowledged(conn, Head(toNat))
  <2>1. Head(toNat) \in ToNat
    BY <1>1, TakenFacts DEF HandleAck, Take, QueueTypes
  <2>2. c \in Conn /\ Live(c) /\ Finished(c)
    BY <1>1, <2>1, Pushable
  <2>3. /\ c.seq = conn.seq /\ c.state = conn.state /\ c.finSent = conn.finSent /\ c.short = conn.short
        /\ c.isn = conn.isn /\ c.backlog = conn.backlog
    BY <1>0, <1>1, <2>1, AckFacts
  <2>4. UNCHANGED <<connecting, clientVars, joined, expired, read, total>>
    BY <1>1 DEF HandleAck
  <2>5. c.backlog = conn.backlog + 0 /\ read' = read + 0 /\ total' = total + 0
    BY <1>0, <2>3, <2>4, NatAssumption DEF ConnInv, EntryTypes, Conn
  <2>6. conn' \in Conn /\ \E o \in Seq(ToClient) : toClient' = toClient \o o /\ Pushed(c, conn', o)
    BY <1>0, <2>2, PushFacts
  <2>7. conn'.isn = conn.isn
    BY <2>3, <2>6 DEF Pushed
  <2> QED BY <1>0, <1>1, <2>2, <2>3, <2>4, <2>5, <2>6, <2>7
<1>2. CASE \E n \in Reads : Data(n) /\ c = [conn EXCEPT !.backlog = conn.backlog + n]
  <2>1. PICK n \in Reads : Data(n) /\ c = [conn EXCEPT !.backlog = conn.backlog + n]
    BY <1>2
  <2>2. n \in Nat /\ sock = "open"
    BY <2>1, Constants DEF Data
  <2>3. Live(conn)
    BY <2>2 DEF ConnInv, EntryInv, Live
  <2>4. c \in Conn /\ Live(c) /\ Finished(c)
    BY <2>1, <2>2, <2>3, Pushable
  <2>5. /\ c.seq = conn.seq /\ c.state = conn.state /\ c.finSent = conn.finSent /\ c.short = conn.short
        /\ c.isn = conn.isn /\ c.backlog = conn.backlog + n
    BY <1>0, <2>1 DEF Conn
  <2>6. UNCHANGED <<connecting, clientVars, joined, expired>> /\ read' = read + n /\ total' = total + n
    BY <2>1 DEF Data
  <2>7. conn' \in Conn /\ \E o \in Seq(ToClient) : toClient' = toClient \o o /\ Pushed(c, conn', o)
    BY <1>0, <2>4, PushFacts
  <2>8. conn'.isn = conn.isn
    BY <2>5, <2>7 DEF Pushed
  <2> QED BY <1>0, <2>2, <2>3, <2>4, <2>5, <2>6, <2>7, <2>8
<1>3. CASE End /\ c = [conn EXCEPT !.eof = TRUE]
  <2>1. sock = "open" /\ UNCHANGED <<connecting, clientVars, joined, expired, read, total>>
    BY <1>3 DEF End
  <2>2. Live(conn)
    BY <2>1 DEF ConnInv, EntryInv, Live
  <2>3. c \in Conn /\ Live(c) /\ Finished(c)
    BY <1>3, <2>1, <2>2, Pushable
  <2>4. /\ c.seq = conn.seq /\ c.state = conn.state /\ c.finSent = conn.finSent /\ c.short = conn.short
        /\ c.isn = conn.isn /\ c.backlog = conn.backlog
    BY <1>0, <1>3 DEF Conn
  <2>5. c.backlog = conn.backlog + 0 /\ read' = read + 0 /\ total' = total + 0
    BY <1>0, <2>1, <2>4, NatAssumption DEF ConnInv, EntryTypes, Conn
  <2>6. conn' \in Conn /\ \E o \in Seq(ToClient) : toClient' = toClient \o o /\ Pushed(c, conn', o)
    BY <1>0, <2>3, PushFacts
  <2>7. conn'.isn = conn.isn
    BY <2>4, <2>6 DEF Pushed
  <2> QED BY <1>0, <2>1, <2>2, <2>3, <2>4, <2>5, <2>6, <2>7
<1> QED BY <1>1, <1>2, <1>3 DEF Pushing

\* The steps, by what they do to the queue to the client and to the entry.
LEMMA StepKinds ==
  ASSUME ConnInv, QueueTypes, Next
  PROVE  \/ \E c : Pushing(c)
         \/ HandleRst \/ DropSyn \/ HandleSyn \/ Unknown \/ (HandleAck /\ ~Live(conn))
         \/ ClientEstablished \/ ClientReceives \/ ClientReset \/ ClientRefuses
         \/ (\E win \in Windows : ClientAck(win)) \/ ClientSyn \/ ClientFin \/ ClientRst \/ ClientDone
         \/ Connected \/ Close \/ Error \/ Timeout \/ LingerFires \/ Sweep
<1>1. ASSUME HandleAck, Live(conn) PROVE \E c : Pushing(c)
  <2>1. Pushing(Acknowledged(conn, Head(toNat)))
    BY <1>1 DEF Pushing, HandleAck
  <2> QED BY <2>1
<1>2. ASSUME NEW n \in Reads, Data(n) PROVE \E c : Pushing(c)
  <2>1. [conn EXCEPT !.backlog = @ + n] = [conn EXCEPT !.backlog = conn.backlog + n]
    BY DEF ConnInv, EntryTypes, Conn
  <2>2. Push([conn EXCEPT !.backlog = conn.backlog + n])
    BY <1>2, <2>1 DEF Data
  <2>3. Pushing([conn EXCEPT !.backlog = conn.backlog + n])
    BY <1>2, <2>2 DEF Pushing
  <2> QED BY <2>3
<1>3. ASSUME End PROVE \E c : Pushing(c)
  <2>1. Pushing([conn EXCEPT !.eof = TRUE])
    BY <1>3 DEF Pushing, End
  <2> QED BY <2>1
<1> QED BY <1>1, <1>2, <1>3 DEF Next, Handled, Arrives, Acks

\* The client without a connection.
Blank(t, n) == [state |-> t, isn |-> n, nxt |-> 0, acked |-> 0, win |-> FullWindow, fin |-> FALSE,
                finSent |-> FALSE]

\* Such a client, and the one whose connection is over.
LEMMA BlankType ==
  ASSUME NEW n \in 0 .. MaxSyns, NEW t \in {"idle", "syn"}
  PROVE  LET c == Blank(t, n) IN
         /\ c \in Client /\ c.state = t /\ c.isn = n /\ c.win = FullWindow /\ ~c.fin
<1>1. 0 \in 0 .. W - 1 /\ FullWindow \in Windows /\ t \in {"idle", "syn", "open"}
  BY Constants
<1> QED BY <1>1 DEF Client, Blank

LEMMA LeftBlank ==
  ASSUME client \in Client
  PROVE  Left \in Client /\ Left.state = "idle" /\ Left.isn = client.isn /\ ~Left.fin
<1>1. client.isn \in 0 .. MaxSyns
  BY DEF Client
<1>2. ASSUME NEW c, c = [NoClient EXCEPT !.isn = client.isn] PROVE c = Blank("idle", client.isn)
  BY <1>2 DEF NoClient, Blank
<1>3. Left = Blank("idle", client.isn)
  BY <1>2 DEF Left
<1> QED BY <1>1, <1>3, BlankType

\* The segment with which the client answers.
LEMMA ReplyType ==
  ASSUME toNat \in Seq(ToNat), NEW type \in {"syn", "ack", "fin", "rst"}, NEW c \in Client, Reply(type, c)
  PROVE  /\ toNat' \in Seq(ToNat) /\ Len(toNat') = Len(toNat) + 1 /\ DOMAIN toNat' = 1 .. Len(toNat) + 1
         /\ Len(toNat) \in Nat /\ \A i \in 1 .. Len(toNat) : toNat'[i] = toNat[i]
         /\ LET s == toNat'[Len(toNat) + 1] IN
            s.type = type /\ s.isn = c.isn /\ s.ack = c.nxt /\ s.win = c.win
<1> DEFINE s == [type |-> type, isn |-> c.isn, ack |-> c.nxt, win |-> c.win]
<1>1. s \in ToNat /\ s.type = type /\ s.isn = c.isn /\ s.ack = c.nxt /\ s.win = c.win
  BY DEF Client, ToNat
<1>2. toNat' = Append(toNat, s)
  BY DEF Reply
<1> HIDE DEF s
<1> QED BY <1>1, <1>2

\* The client that begins a connection, or repeats its SYN.
LEMMA SynFacts ==
  ASSUME client \in Client, syns \in 0 .. MaxSyns, ClientSyn
  PROVE  /\ client' \in Client /\ client'.state = "syn" /\ client'.win = FullWindow /\ ~client'.fin
         /\ client'.isn = IF client.state = "idle" THEN syns + 1 ELSE client.isn
         /\ client.state \in {"idle", "syn"} /\ client'.isn \in 0 .. MaxSyns
<1> DEFINE n == IF client.state = "idle" THEN syns + 1 ELSE client.isn
<1>1. n \in 0 .. MaxSyns
  <2>1. client.isn \in 0 .. MaxSyns /\ syns < MaxSyns
    BY DEF Client, ClientSyn
  <2> QED BY <2>1, Constants
<1>2. client' = [NoClient EXCEPT !.state = "syn", !.isn = n]
  BY DEF ClientSyn
<1> HIDE DEF n
<1>3. client' = Blank("syn", n)
  BY <1>2 DEF NoClient, Blank
<1>4. client' \in Client /\ client'.state = "syn" /\ client'.isn = n /\ client'.win = FullWindow /\ ~client'.fin
  BY <1>1, <1>3, BlankType
<1> QED BY <1>1, <1>4 DEF n, ClientSyn

\* Types of queues and client, and the bytes.
DataInv == QueueTypes /\ ClientTypes /\ ByteInv

\* The queues and the client keep their types; bytes are moved, never made.
LEMMA DataStep == ASSUME ConnInv, DataInv, Next PROVE DataInv'
<1>1. /\ toClient \in Seq(ToClient) /\ toNat \in Seq(ToNat) /\ client \in Client /\ syns \in 0 .. MaxSyns
      /\ got \in Nat /\ broken \in BOOLEAN
  BY DEF DataInv, QueueTypes, ClientTypes
<1>2. /\ conn \in Conn /\ conn.backlog \in Nat /\ read \in Nat /\ total \in Nat /\ conn.seq \in 0 .. W - 1
      /\ conn.isn \in 0 .. MaxSyns
  BY NatAssumption DEF ConnInv, EntryTypes, Conn
<1>3. read <= total /\ got + Bytes(toClient) + conn.backlog <= total /\ Bytes(toClient) \in Nat
  BY <1>1, BytesConcat DEF DataInv, ByteInv
<1>4. toNat # << >> => Tail(toNat) \in Seq(ToNat) /\ Head(toNat) \in ToNat /\ Head(toNat).isn \in 0 .. MaxSyns
  BY <1>1, TakenFacts, Isns
<1>5. toClient # << >> =>
        /\ Bytes(toClient) = Head(toClient).len + Bytes(Tail(toClient)) /\ Bytes(Tail(toClient)) \in Nat
        /\ Head(toClient) \in ToClient /\ Head(toClient).len \in Nat /\ Tail(toClient) \in Seq(ToClient)
  BY <1>1, BytesTail, Lengths
<1>5a. toClient # << >> => got + Bytes(Tail(toClient)) + conn.backlog <= total /\ read <= total
  <2> SUFFICES ASSUME toClient # << >> PROVE got + Bytes(Tail(toClient)) + conn.backlog <= total
    BY <1>3
  <2> DEFINE u == Bytes(toClient)
             v == Bytes(Tail(toClient))
             a == Head(toClient).len
             b == conn.backlog
  <2>1. u = a + v /\ a \in Nat /\ v \in Nat
    BY <1>5
  <2>2. b \in Nat /\ total \in Nat /\ got \in Nat /\ got + u + b <= total
    BY <1>1, <1>2, <1>3
  <2> HIDE DEF u, v, a, b
  <2>3. got + v + b <= total
    BY <2>1, <2>2
  <2> QED BY <2>3 DEF v, b
<1>6. NoConn.backlog = 0
  BY NoConnType DEF Fresh
<1>7. ASSUME NEW c, Pushing(c) PROVE DataInv'
  <2>1. QueueTypes
    BY DEF DataInv
  <2>2. c.backlog \in Nat /\ conn'.backlog \in Nat /\ UNCHANGED clientVars
    BY <1>7, <2>1, PushingFacts DEF Conn
  <2>3. PICK o \in Seq(ToClient) : toClient' = toClient \o o /\ Pushed(c, conn', o)
    BY <1>7, <2>1, PushingFacts
  <2>4. PICK n \in Nat : c.backlog = conn.backlog + n /\ read' = read + n /\ total' = total + n
    BY <1>7, <2>1, PushingFacts
  <2>5. Bytes(o) + conn'.backlog = c.backlog /\ Bytes(o) \in Nat
    BY <2>3, BytesConcat DEF Pushed
  <2>6. Bytes(toClient') = Bytes(toClient) + Bytes(o) /\ toClient' \in Seq(ToClient)
    BY <1>1, <2>3, BytesConcat
  <2>7. ByteInv'
    <3>1. got' = got /\ got \in Nat
      BY <1>1, <2>2 DEF clientVars
    <3>2. Bytes(toClient') + conn'.backlog = Bytes(toClient) + conn.backlog + n
      <4> DEFINE u == Bytes(toClient)
                 v == Bytes(o)
                 a == conn'.backlog
                 b == conn.backlog
      <4>1. u \in Nat /\ v \in Nat /\ a \in Nat /\ b \in Nat /\ v + a = b + n
        BY <1>2, <1>3, <2>2, <2>4, <2>5
      <4> HIDE DEF u, v, a, b
      <4>2. (u + v) + a = u + b + n
        BY <4>1
      <4> QED BY <2>6, <4>2 DEF u, v, a, b
    <3>3. Bytes(toClient') \in Nat
      BY <1>3, <2>5, <2>6
    <3>4. got + Bytes(toClient') + conn'.backlog <= total + n
      <4> DEFINE u == Bytes(toClient)
                 v == Bytes(toClient')
                 a == conn'.backlog
                 b == conn.backlog
      <4>1. u \in Nat /\ v \in Nat /\ a \in Nat /\ b \in Nat /\ v + a = u + b + n /\ got + u + b <= total
        BY <1>2, <1>3, <2>2, <3>2, <3>3
      <4> HIDE DEF u, v, a, b
      <4>2. got + v + a <= total + n
        BY <1>2, <3>1, <4>1
      <4> QED BY <4>2 DEF v, a
    <3> QED BY <1>2, <1>3, <2>4, <3>1, <3>4 DEF ByteInv
  <2>8. toNat' \in Seq(ToNat)
    <3>1. toNat' = toNat \/ (toNat # << >> /\ toNat' = Tail(toNat))
      BY <1>7 DEF Pushing, HandleAck, Take, Data, End
    <3> QED BY <1>1, <1>4, <3>1
  <2> QED BY <1>1, <2>2, <2>6, <2>7, <2>8 DEF DataInv, QueueTypes, ClientTypes, clientVars
<1>8. CASE HandleRst \/ LingerFires \/ Sweep \/ Close \/ Timeout
  <2>1. /\ UNCHANGED <<toClient, clientVars, read, total>>
        /\ toNat' = toNat \/ (toNat # << >> /\ toNat' = Tail(toNat))
        /\ conn' = conn \/ conn' = NoConn \/ conn' = [conn EXCEPT !.linger = TRUE]
    BY <1>8 DEF HandleRst, Take, LingerFires, Sweep, Close, Timeout, CloseConnection, LingerOrClose
  <2>2. conn'.backlog = conn.backlog \/ conn'.backlog = 0
    BY <1>2, <1>6, <2>1 DEF Conn
  <2>3. ByteInv'
    BY <1>1, <1>2, <1>3, <2>1, <2>2 DEF ByteInv, clientVars
  <2>4. toNat' \in Seq(ToNat)
    BY <1>1, <1>4, <2>1
  <2> QED BY <1>1, <2>1, <2>3, <2>4 DEF DataInv, QueueTypes, ClientTypes, clientVars
<1>9. CASE DropSyn \/ (HandleAck /\ ~Live(conn))
  <2>1. UNCHANGED <<toClient, clientVars, read, total, conn>> /\ toNat # << >> /\ toNat' = Tail(toNat)
    BY <1>9 DEF DropSyn, HandleAck, Take
  <2>2. ByteInv'
    BY <1>3, <2>1 DEF ByteInv, clientVars
  <2> QED BY <1>1, <1>4, <2>1, <2>2 DEF DataInv, QueueTypes, ClientTypes, clientVars
<1>10. CASE HandleSyn
  <2>1. UNCHANGED <<toClient, clientVars, total>> /\ toNat # << >> /\ toNat' = Tail(toNat) /\ read' = 0
    BY <1>10 DEF HandleSyn, Take
  <2>2. conn'.backlog = 0
    BY <1>10, <1>6, NoConnType DEF HandleSyn, NoConn
  <2>3. ByteInv'
    BY <1>1, <1>2, <1>3, <2>1, <2>2 DEF ByteInv, clientVars
  <2> QED BY <1>1, <1>4, <2>1, <2>3 DEF DataInv, QueueTypes, ClientTypes, clientVars
<1>11. ASSUME NEW s \in ToClient, s.len = 0, toClient' = toClient \o <<s>>
       PROVE  toClient' \in Seq(ToClient) /\ Bytes(toClient') = Bytes(toClient)
  <2> DEFINE r == <<s>>
  <2>1. r \in Seq(ToClient) /\ Bytes(r) = 0 /\ toClient' = toClient \o r
    BY <1>11, BytesFew
  <2> HIDE DEF r
  <2>2. Bytes(toClient \o r) = Bytes(toClient) + Bytes(r)
    BY <1>1, <2>1, BytesConcat
  <2>3. toClient \o r \in Seq(ToClient)
    BY <1>1, <2>1
  <2> QED BY <1>3, <2>1, <2>2, <2>3
<1>12. CASE Unknown
  <2> DEFINE s == Segment(Head(toNat).isn, "rst", 0, 0)
  <2>1. /\ UNCHANGED <<clientVars, read, total, conn>> /\ toNat # << >> /\ toNat' = Tail(toNat)
        /\ toClient' = toClient \o <<s>>
    BY <1>12 DEF Unknown, Take, Send
  <2>2. s \in ToClient /\ s.len = 0
    BY <1>4, <2>1, SegmentType, Constants
  <2> HIDE DEF s
  <2>3. toClient' \in Seq(ToClient) /\ Bytes(toClient') = Bytes(toClient)
    BY <1>11, <2>1, <2>2
  <2>4. ByteInv'
    BY <1>3, <2>1, <2>3 DEF ByteInv, clientVars
  <2> QED BY <1>1, <1>4, <2>1, <2>3, <2>4 DEF DataInv, QueueTypes, ClientTypes, clientVars
<1>13. CASE Connected
  <2> DEFINE s == Segment(conn.isn, "synack", conn.seq, 0)
  <2>1. UNCHANGED <<clientVars, read, total, toNat>> /\ toClient' = toClient \o <<s>>
    BY <1>13 DEF Connected, Send
  <2>2. s \in ToClient /\ s.len = 0
    BY <1>2, SegmentType
  <2> HIDE DEF s
  <2>3. toClient' \in Seq(ToClient) /\ Bytes(toClient') = Bytes(toClient)
    BY <1>11, <2>1, <2>2
  <2>4. conn'.backlog = 0
    BY <1>13, ConnectedFacts DEF Fresh
  <2>5. ByteInv'
    BY <1>1, <1>2, <1>3, <2>1, <2>3, <2>4 DEF ByteInv, clientVars
  <2> QED BY <1>1, <2>1, <2>3, <2>5 DEF DataInv, QueueTypes, ClientTypes, clientVars
<1>14. CASE Error
  <2> DEFINE s == Segment(conn.isn, "rst", conn.seq, 0)
  <2>1. /\ UNCHANGED <<clientVars, read, total, toNat>>
        /\ toClient' = toClient \o (IF conn.finSent THEN << >> ELSE <<s>>)
        /\ conn' = NoConn \/ conn' = [conn EXCEPT !.linger = TRUE]
    BY <1>14 DEF Error, Send, LingerOrClose, CloseConnection
  <2>2. s \in ToClient /\ s.len = 0
    BY <1>2, SegmentType
  <2> HIDE DEF s
  <2>3. toClient' \in Seq(ToClient) /\ Bytes(toClient') = Bytes(toClient)
    <3>1. CASE conn.finSent
      <4>1. toClient' = toClient
        BY <1>1, <2>1, <3>1
      <4> QED BY <1>1, <4>1
    <3>2. CASE ~conn.finSent
      BY <1>11, <2>1, <2>2, <3>2
    <3> QED BY <3>1, <3>2
  <2>4. conn'.backlog = conn.backlog \/ conn'.backlog = 0
    BY <1>2, <1>6, <2>1 DEF Conn
  <2>5. ByteInv'
    BY <1>1, <1>2, <1>3, <2>1, <2>3, <2>4 DEF ByteInv, clientVars
  <2> QED BY <1>1, <2>1, <2>3, <2>5 DEF DataInv, QueueTypes, ClientTypes, clientVars
<1>15. CASE ClientEstablished
  <2> DEFINE nxt == (Head(toClient).seq + 1) % W
  <2>1. /\ toClient # << >> /\ toClient' = Tail(toClient) /\ Reply("ack", client')
        /\ client' = [client EXCEPT !.state = "open", !.nxt = nxt, !.acked = nxt]
        /\ UNCHANGED <<conn, syns, read, total, got, broken>>
    BY <1>15 DEF ClientEstablished
  <2>2. nxt \in 0 .. W - 1
    <3>1. Head(toClient).seq + 1 \in Int
      BY <1>5, <2>1, Lengths
    <3> QED BY <3>1, Divided
  <2> HIDE DEF nxt
  <2>3. client' \in Client
    BY <1>1, <2>1, <2>2 DEF Client
  <2>4. toNat' \in Seq(ToNat)
    BY <1>1, <2>1, <2>3, ReplyType
  <2>5. ByteInv'
    BY <1>5a, <2>1 DEF ByteInv
  <2> QED BY <1>1, <1>5, <2>1, <2>3, <2>4, <2>5 DEF DataInv, QueueTypes, ClientTypes
<1>16. CASE ClientReceives
  <2> DEFINE s == Head(toClient)
  <2> DEFINE nxt == (client.nxt + (IF s.type = "fin" THEN 1 ELSE s.len)) % W
  <2>1. /\ toClient # << >> /\ toClient' = Tail(toClient) /\ got' = got + s.len
        /\ client' = [client EXCEPT !.nxt = nxt, !.fin = client.fin \/ s.type = "fin"]
        /\ broken' = (broken \/ (joined /\ s.seq # client.nxt))
        /\ UNCHANGED <<conn, syns, read, total, toNat>>
    BY <1>1, <1>16 DEF ClientReceives, Client
  <2>2. nxt \in 0 .. W - 1
    <3>1. client.nxt \in Int /\ s.len \in Int
      BY <1>1, <1>5, <2>1, Constants, SMTT(30) DEF Client
    <3>2. client.nxt + (IF s.type = "fin" THEN 1 ELSE s.len) \in Int
      BY <3>1
    <3> QED BY <3>2, Divided
  <2>3. (client.fin \/ s.type = "fin") \in BOOLEAN /\ broken' \in BOOLEAN
    BY <1>1, <2>1 DEF Client
  <2> HIDE DEF nxt
  <2>4. client' \in Client
    BY <1>1, <2>1, <2>2, <2>3 DEF Client
  <2>5. got' \in Nat /\ got' + Bytes(toClient') = got + Bytes(toClient)
    BY <1>1, <1>5, <2>1, SMTT(30)
  <2>6. ByteInv'
    BY <1>3, <2>1, <2>5 DEF ByteInv
  <2> QED BY <1>1, <1>5, <2>1, <2>3, <2>4, <2>5, <2>6 DEF DataInv, QueueTypes, ClientTypes
<1>17. CASE ClientReset
  <2>1. /\ toClient # << >> /\ toClient' = Tail(toClient) /\ client' \in {Left, client}
        /\ UNCHANGED <<conn, syns, read, total, toNat, got, broken>>
    BY <1>17 DEF ClientReset
  <2>2. ByteInv'
    BY <1>5a, <2>1 DEF ByteInv
  <2>3. client' \in Client
    BY <1>1, <2>1, LeftBlank
  <2> QED BY <1>1, <1>5, <2>1, <2>2, <2>3 DEF DataInv, QueueTypes, ClientTypes
<1>18. CASE ClientRefuses
  <2>1. /\ toClient # << >> /\ toClient' = Tail(toClient) /\ (Reply("rst", client) \/ Reply("ack", client))
        /\ UNCHANGED <<conn, client, syns, read, total, got, broken>>
    BY <1>18 DEF ClientRefuses
  <2>2. toNat' \in Seq(ToNat)
    BY <1>1, <2>1, ReplyType
  <2>3. ByteInv'
    BY <1>5a, <2>1 DEF ByteInv
  <2> QED BY <1>1, <1>5, <2>1, <2>2, <2>3 DEF DataInv, QueueTypes, ClientTypes
<1>19. ASSUME NEW win \in Windows, ClientAck(win) PROVE DataInv'
  <2>1. /\ client' = [client EXCEPT !.acked = client.nxt, !.win = win] /\ Reply("ack", client')
        /\ UNCHANGED <<conn, toClient, syns, read, total, got, broken>>
    BY <1>19 DEF ClientAck
  <2>2. client' \in Client
    BY <1>1, <2>1 DEF Client
  <2>3. toNat' \in Seq(ToNat)
    BY <1>1, <2>1, <2>2, ReplyType
  <2>4. ByteInv'
    BY <1>3, <2>1 DEF ByteInv
  <2> QED BY <1>1, <2>1, <2>2, <2>3, <2>4 DEF DataInv, QueueTypes, ClientTypes
<1>20. CASE ClientSyn
  <2>1. /\ Reply("syn", client') /\ syns < MaxSyns
        /\ syns' = syns + 1 /\ got' = 0 /\ UNCHANGED <<conn, toClient, read, total, broken>>
    BY <1>20 DEF ClientSyn
  <2>2. client' \in Client
    BY <1>1, <1>20, SynFacts
  <2>3. toNat' \in Seq(ToNat)
    BY <1>1, <2>1, <2>2, ReplyType
  <2>4. ByteInv'
    BY <1>1, <1>2, <1>3, <2>1 DEF ByteInv
  <2>5. syns' \in 0 .. MaxSyns
    BY <1>1, <2>1, NatAssumption, SMTT(30)
  <2> QED BY <1>1, <2>1, <2>2, <2>3, <2>4, <2>5 DEF DataInv, QueueTypes, ClientTypes
<1>21. CASE ClientFin
  <2>1. /\ client' = [client EXCEPT !.finSent = TRUE, !.acked = client.nxt] /\ Reply("fin", client')
        /\ UNCHANGED <<conn, toClient, syns, read, total, got, broken>>
    BY <1>21 DEF ClientFin
  <2>2. client' \in Client
    BY <1>1, <2>1 DEF Client
  <2>3. toNat' \in Seq(ToNat)
    BY <1>1, <2>1, <2>2, ReplyType
  <2>4. ByteInv'
    BY <1>3, <2>1 DEF ByteInv
  <2> QED BY <1>1, <2>1, <2>2, <2>3, <2>4 DEF DataInv, QueueTypes, ClientTypes
<1>22. CASE ClientRst
  <2>1. client' = Left /\ Reply("rst", client) /\ UNCHANGED <<conn, toClient, syns, read, total, got, broken>>
    BY <1>22 DEF ClientRst
  <2>2. toNat' \in Seq(ToNat)
    BY <1>1, <2>1, ReplyType
  <2>3. ByteInv'
    BY <1>3, <2>1 DEF ByteInv
  <2> QED BY <1>1, <2>1, <2>2, <2>3, LeftBlank DEF DataInv, QueueTypes, ClientTypes
<1>24. CASE ClientDone
  <2>1. client' = Left /\ UNCHANGED <<conn, toClient, toNat, syns, read, total, got, broken>>
    BY <1>24 DEF ClientDone
  <2>2. ByteInv'
    BY <1>3, <2>1 DEF ByteInv
  <2> QED BY <1>1, <2>1, <2>2, LeftBlank DEF DataInv, QueueTypes, ClientTypes
<1>23. QueueTypes
  BY DEF DataInv
<1> QED
  BY <1>7, <1>8, <1>9, <1>10, <1>12, <1>13, <1>14, <1>15, <1>16, <1>17, <1>18, <1>19, <1>20, <1>21, <1>22,
     <1>23, <1>24, StepKinds

-----------------------------------------------------------------------------
(* FIN and RST. *)

\* A step that sends the client nothing and takes nothing from it.
LEMMA FinKept ==
  ASSUME FinInv, toClient' = toClient, client'.isn = client.isn, SawFin' => SawFin,
         client'.fin => client'.state = "open", expired => expired',
         conn.finSent /\ conn.isn = client.isn => (conn'.finSent /\ conn'.isn = client.isn) \/ expired'
  PROVE  FinInv'
<1>1. SeesFin' => SeesFin
  BY DEF SeesFin, HasFin
<1>2. SeesFin' => (conn'.finSent /\ conn'.isn = client'.isn) \/ expired'
  BY <1>1 DEF FinInv
<1>3. ASSUME NEW i \in DOMAIN toClient, IsRst(toClient[i], client.isn), ~expired'
      PROVE  ~SawFin' /\ \A j \in 1 .. i - 1 : ~IsFin(toClient[j], client.isn)
  BY <1>3 DEF FinInv
<1> QED BY <1>2, <1>3 DEF FinInv

\* The client takes the first segment.
LEMMA FinTaken ==
  ASSUME FinInv, toClient \in Seq(ToClient), toClient # << >>, toClient' = Tail(toClient),
         client'.isn = client.isn, SawFin' => SawFin \/ IsFin(Head(toClient), client.isn),
         client'.fin => client'.state = "open", conn' = conn, expired' = expired
  PROVE  FinInv'
<1>1. /\ Head(toClient) = toClient[1] /\ 1 \in DOMAIN toClient
      /\ \A i \in DOMAIN toClient' : i + 1 \in DOMAIN toClient /\ toClient'[i] = toClient[i + 1] /\ i \in Nat \ {0}
  BY TakenFacts
<1>2. SeesFin' => SeesFin
  BY <1>1 DEF SeesFin, HasFin
<1>3. SeesFin' => (conn'.finSent /\ conn'.isn = client'.isn) \/ expired'
  BY <1>2 DEF FinInv
<1>4. ASSUME NEW i \in DOMAIN toClient', IsRst(toClient'[i], client.isn), ~expired'
      PROVE  ~SawFin' /\ \A j \in 1 .. i - 1 : ~IsFin(toClient'[j], client.isn)
  <2>1. i + 1 \in DOMAIN toClient /\ IsRst(toClient[i + 1], client.isn) /\ i \in Nat \ {0} /\ ~expired
    BY <1>1, <1>4
  <2>2. ~SawFin /\ \A j \in 1 .. (i + 1) - 1 : ~IsFin(toClient[j], client.isn)
    BY <2>1 DEF FinInv
  <2>3. ~SawFin'
    BY <1>1, <2>1, <2>2
  <2>4. ASSUME NEW j \in 1 .. i - 1 PROVE ~IsFin(toClient'[j], client.isn)
    <3>1. j \in DOMAIN toClient' /\ j + 1 \in 1 .. (i + 1) - 1
      BY <1>4, <2>1, TakenFacts
    <3> QED BY <1>1, <2>2, <3>1
  <2> QED BY <2>3, <2>4
<1> QED BY <1>3, <1>4 DEF FinInv

\* The exit sends s, no FIN, and has sent none.
LEMMA FinSends ==
  ASSUME FinInv, toClient \in Seq(ToClient), NEW s \in ToClient, s.type # "fin", toClient' = toClient \o <<s>>,
         client' = client, expired' = expired, ~conn.finSent
  PROVE  FinInv'
<1>1. /\ DOMAIN toClient' = 1 .. Len(toClient) + 1 /\ toClient'[Len(toClient) + 1] = s
      /\ Len(toClient) \in Nat /\ DOMAIN toClient = 1 .. Len(toClient)
      /\ \A i \in 1 .. Len(toClient) : toClient'[i] = toClient[i]
  OBVIOUS
<1>2. SawFin' <=> SawFin
  BY DEF SawFin
<1>3. SeesFin => expired
  BY DEF FinInv
<1>4. SeesFin' => SeesFin
  <2>1. ASSUME NEW i \in DOMAIN toClient', IsFin(toClient'[i], client.isn) PROVE HasFin(toClient, client.isn)
    <3>1. i # Len(toClient) + 1
      BY <1>1, <2>1 DEF IsFin
    <3>2. i \in DOMAIN toClient /\ toClient'[i] = toClient[i]
      BY <1>1, <3>1
    <3> QED BY <2>1, <3>2 DEF HasFin
  <2>2. HasFin(toClient', client.isn) => HasFin(toClient, client.isn)
    BY <2>1 DEF HasFin
  <2> QED BY <1>2, <2>2 DEF SeesFin
<1>5. ASSUME NEW i \in DOMAIN toClient', IsRst(toClient'[i], client.isn), ~expired'
      PROVE  ~SawFin' /\ \A j \in 1 .. i - 1 : ~IsFin(toClient'[j], client.isn)
  <2>1. ~SawFin' /\ ~HasFin(toClient, client.isn)
    BY <1>2, <1>3, <1>5 DEF SeesFin
  <2>2. \A j \in 1 .. i - 1 : j \in DOMAIN toClient /\ toClient'[j] = toClient[j]
    BY <1>1
  <2> QED BY <2>1, <2>2 DEF HasFin
<1> QED BY <1>3, <1>4, <1>5 DEF FinInv

\* FIN is sent when the entry knows, and an entry that has sent it goes only by expiry.
LEMMA FinStep == ASSUME ConnInv, DataInv, IsnInv, FinInv, Next PROVE FinInv'
<1>1. QueueTypes /\ toClient \in Seq(ToClient) /\ toNat \in Seq(ToNat) /\ conn \in Conn
      /\ conn.seq \in 0 .. W - 1 /\ conn.isn \in 0 .. MaxSyns /\ client \in Client
      /\ syns \in 0 .. MaxSyns
  BY DEF ConnInv, DataInv, QueueTypes, EntryTypes, Conn, ClientTypes
<1>2. /\ client.fin => client.state = "open"
      /\ conn.state = "CLOSED" => ~conn.finSent
      /\ conn.state = "CONNECTING" => ~conn.finSent
      /\ conn.linger => conn.finSent
  BY DEF FinInv, ConnInv, EntryInv
<1>3. ASSUME client' = client PROVE (SawFin' <=> SawFin) /\ (client'.fin => client'.state = "open")
  BY <1>2, <1>3 DEF SawFin
<1>4. ASSUME NEW c, Pushing(c) PROVE FinInv'
  <2>1. client' = client /\ expired' = expired /\ (conn.finSent => c.finSent) /\ conn'.isn = conn.isn /\ c.isn = conn.isn
    BY <1>1, <1>4, PushingFacts DEF clientVars
  <2>2. PICK o \in Seq(ToClient) : toClient' = toClient \o o /\ Pushed(c, conn', o)
    BY <1>1, <1>4, PushingFacts
  <2>3. /\ conn.finSent => conn'.finSent
        /\ \A i \in DOMAIN o : Payload(o[i]) /\ o[i].isn = conn'.isn /\ (o[i].type = "fin" => conn'.finSent)
    BY <2>1, <2>2 DEF Pushed
  <2>4. /\ DOMAIN toClient' = 1 .. Len(toClient) + Len(o) /\ Len(toClient) \in Nat /\ Len(o) \in Nat
        /\ DOMAIN toClient = 1 .. Len(toClient)
        /\ \A i \in 1 .. Len(toClient) : toClient'[i] = toClient[i]
        /\ \A i \in 1 .. Len(toClient) + Len(o) :
             i > Len(toClient) => toClient'[i] = o[i - Len(toClient)] /\ i - Len(toClient) \in DOMAIN o
    BY <1>1, <2>2
  <2> DEFINE Known == (conn'.finSent /\ conn'.isn = client.isn) \/ expired'
  <2>5. SeesFin' => Known
    <3>0. SeesFin => Known
      BY <2>1, <2>3 DEF FinInv
    <3>1. ASSUME NEW i \in DOMAIN toClient', IsFin(toClient'[i], client.isn) PROVE Known
      <4>1. CASE i > Len(toClient)
        BY <2>3, <2>4, <3>1, <4>1 DEF IsFin
      <4>2. CASE i <= Len(toClient)
        <5>1. HasFin(toClient, client.isn)
          BY <2>4, <3>1, <4>2 DEF HasFin
        <5> QED BY <3>0, <5>1 DEF SeesFin
      <4> QED BY <2>4, <4>1, <4>2
    <3>2. SawFin' => Known
      BY <1>3, <2>1, <3>0 DEF SeesFin
    <3> HIDE DEF Known
    <3>3. HasFin(toClient', client.isn) => Known
      BY <3>1 DEF HasFin
    <3> QED BY <2>1, <3>2, <3>3 DEF SeesFin
  <2>6. ASSUME NEW i \in DOMAIN toClient', IsRst(toClient'[i], client.isn), ~expired'
        PROVE  ~SawFin' /\ \A j \in 1 .. i - 1 : ~IsFin(toClient'[j], client.isn)
    <3>1. i \in DOMAIN toClient /\ IsRst(toClient[i], client.isn) /\ ~expired
      BY <2>1, <2>3, <2>4, <2>6 DEF Payload, IsRst
    <3>2. ~SawFin /\ \A j \in 1 .. i - 1 : ~IsFin(toClient[j], client.isn)
      BY <3>1 DEF FinInv
    <3>3. \A j \in 1 .. i - 1 : toClient'[j] = toClient[j]
      BY <2>4, <3>1
    <3> QED BY <1>3, <2>1, <3>2, <3>3
  <2> QED BY <1>3, <2>1, <2>5, <2>6 DEF FinInv
<1>5. CASE HandleRst \/ LingerFires \/ Sweep \/ Close \/ Timeout \/ DropSyn \/ HandleSyn
           \/ (HandleAck /\ ~Live(conn)) \/ (Error /\ conn.finSent)
  <2>1. toClient' = toClient
    <3>1. toClient' = toClient \/ toClient' = toClient \o << >>
      BY <1>5 DEF HandleRst, LingerFires, Sweep, Close, Timeout, DropSyn, HandleSyn, HandleAck, Error, Send
    <3> QED BY <1>1, <3>1
  <2>2. client' = client /\ (expired => expired')
    <3>1. CASE HandleRst \/ LingerFires \/ Sweep
      BY <3>1 DEF HandleRst, LingerFires, Sweep, Expires, clientVars
    <3>2. CASE Close \/ Timeout \/ Error
      BY <3>2 DEF Close, Timeout, Error, clientVars
    <3>3. CASE DropSyn \/ HandleAck
      BY <3>3 DEF DropSyn, HandleAck, clientVars
    <3>4. CASE HandleSyn
      BY <3>4 DEF HandleSyn, clientVars
    <3> QED BY <1>5, <3>1, <3>2, <3>3, <3>4
  <2>3. ASSUME LingerOrClose, conn.finSent PROVE conn'.finSent /\ conn'.isn = conn.isn
    <3>1. conn' = [conn EXCEPT !.linger = TRUE]
      BY <2>3 DEF LingerOrClose
    <3> QED BY <1>1, <2>3, <3>1 DEF Conn
  <2>4. conn.finSent /\ conn.isn = client.isn => (conn'.finSent /\ conn'.isn = client.isn) \/ expired'
    <3>1. CASE HandleRst \/ LingerFires \/ Sweep
      BY <3>1 DEF HandleRst, LingerFires, Sweep, Expires
    <3>2. CASE Close \/ Timeout \/ Error
      BY <2>3, <3>2 DEF Close, Timeout, Error
    <3>3. CASE DropSyn \/ (HandleAck /\ ~Live(conn))
      BY <3>3 DEF DropSyn, HandleAck
    <3>4. CASE HandleSyn
      BY <1>2, <3>4 DEF HandleSyn
    <3> QED BY <1>5, <3>1, <3>2, <3>3, <3>4
  <2> QED BY <1>3, <2>1, <2>2, <2>4, FinKept
<1>6. CASE Unknown
  <2> DEFINE s == Segment(Head(toNat).isn, "rst", 0, 0)
  <2>1. /\ client' = client /\ expired' = expired /\ conn.state = "CLOSED" /\ toClient' = toClient \o <<s>>
        /\ toNat # << >>
    BY <1>6 DEF Unknown, Send, Take, clientVars
  <2>2. Head(toNat).isn \in 0 .. MaxSyns
    BY <1>1, <2>1, TakenFacts, Isns
  <2>3. s \in ToClient /\ s.type # "fin"
    BY <2>2, SegmentType, Constants
  <2> HIDE DEF s
  <2> QED BY <1>1, <1>2, <2>1, <2>3, FinSends
<1>7. CASE Error /\ ~conn.finSent
  <2> DEFINE s == Segment(conn.isn, "rst", conn.seq, 0)
  <2>1. client' = client /\ expired' = expired /\ toClient' = toClient \o <<s>>
    BY <1>7 DEF Error, Send, clientVars
  <2>2. s \in ToClient /\ s.type # "fin"
    BY <1>1, SegmentType
  <2> HIDE DEF s
  <2> QED BY <1>1, <1>7, <2>1, <2>2, FinSends
<1>8. CASE Connected
  <2> DEFINE s == Segment(conn.isn, "synack", conn.seq, 0)
  <2>1. client' = client /\ expired' = expired /\ toClient' = toClient \o <<s>>
    BY <1>8 DEF Connected, Send, clientVars
  <2>2. s \in ToClient /\ s.type # "fin"
    BY <1>1, SegmentType
  <2>3. ~conn.finSent
    BY <1>2, <1>8, ConnectedFacts
  <2> HIDE DEF s
  <2> QED BY <1>1, <2>1, <2>2, <2>3, FinSends
<1>9. CASE ClientEstablished
  <2>1. /\ toClient # << >> /\ toClient' = Tail(toClient) /\ client.state = "syn"
        /\ client' = [client EXCEPT !.state = "open", !.nxt = (Head(toClient).seq + 1) % W,
                                    !.acked = (Head(toClient).seq + 1) % W]
        /\ UNCHANGED <<conn, expired>>
    BY <1>9 DEF ClientEstablished, Accepts
  <2>2. client'.fin = client.fin /\ ~client.fin /\ client'.isn = client.isn
    BY <1>1, <1>2, <2>1 DEF Client
  <2> QED BY <1>1, <2>1, <2>2, FinTaken DEF SawFin
<1>10. CASE ClientReceives
  <2> DEFINE s == Head(toClient)
  <2> DEFINE nxt == (client.nxt + (IF s.type = "fin" THEN 1 ELSE s.len)) % W
  <2>1. /\ toClient # << >> /\ toClient' = Tail(toClient) /\ client.state = "open" /\ s.isn = client.isn
        /\ client' = [client EXCEPT !.nxt = nxt, !.fin = client.fin \/ s.type = "fin"]
        /\ UNCHANGED <<conn, expired>>
    BY <1>1, <1>10 DEF ClientReceives, Accepts, Client
  <2> HIDE DEF nxt
  <2>2. client'.state = "open" /\ (client'.fin <=> (client.fin \/ s.type = "fin")) /\ client'.isn = client.isn
    BY <1>1, <2>1 DEF Client
  <2>3. SawFin' => SawFin \/ IsFin(s, client.isn)
    BY <2>1, <2>2 DEF SawFin, IsFin
  <2> QED BY <1>1, <2>1, <2>2, <2>3, FinTaken
<1>11. CASE ClientReset
  <2>1. toClient # << >> /\ toClient' = Tail(toClient) /\ client' \in {Left, client} /\ UNCHANGED <<conn, expired>>
    BY <1>11 DEF ClientReset
  <2>2. CASE client' = client
    BY <1>1, <1>3, <2>1, <2>2, FinTaken
  <2>3. CASE client' = Left
    <3>1. ~client'.fin /\ client'.isn = client.isn
      BY <1>1, <2>3, LeftBlank
    <3> QED BY <1>1, <2>1, <3>1, FinTaken DEF SawFin
  <2> QED BY <2>1, <2>2, <2>3
<1>12. CASE ClientRefuses
  <2>1. toClient # << >> /\ toClient' = Tail(toClient) /\ client' = client /\ UNCHANGED <<conn, expired>>
    BY <1>12 DEF ClientRefuses
  <2> QED BY <1>1, <1>3, <2>1, FinTaken
<1>13. CASE (\E win \in Windows : ClientAck(win)) \/ ClientFin \/ ClientRst \/ ClientDone
  <2>1. UNCHANGED <<conn, toClient, expired>>
    BY <1>13 DEF ClientAck, ClientFin, ClientRst, ClientDone
  <2>2. \/ client'.fin = client.fin /\ client'.state = client.state /\ client'.isn = client.isn
        \/ client' = Left
    BY <1>1, <1>13 DEF ClientAck, ClientFin, ClientRst, ClientDone, Client
  <2>3. (SawFin' => SawFin) /\ (client'.fin => client'.state = "open") /\ client'.isn = client.isn
    BY <1>1, <1>2, <2>2, LeftBlank DEF SawFin
  <2> QED BY <2>1, <2>3, FinKept
<1>14. CASE ClientSyn
  <2>1. toClient' = toClient /\ conn' = conn /\ expired' = (expired /\ client.state = "syn")
    BY <1>14 DEF ClientSyn
  <2>2. /\ ~client'.fin /\ client.state \in {"idle", "syn"}
        /\ client'.isn = IF client.state = "idle" THEN syns + 1 ELSE client.isn
    BY <1>1, <1>14, SynFacts
  <2>3. ~SawFin'
    BY <2>2 DEF SawFin
  <2>4. CASE client.state = "syn"
    BY <2>1, <2>2, <2>3, <2>4, FinKept
  <2>5. CASE client.state = "idle"
    <3>1. \A i \in DOMAIN toClient : toClient[i].isn # client'.isn
      <4> SUFFICES ASSUME NEW i \in DOMAIN toClient PROVE toClient[i].isn # client'.isn
        OBVIOUS
      <4>1. toClient[i].isn <= client.isn /\ client.isn <= syns
        BY DEF IsnInv
      <4>2. toClient[i].isn \in Nat /\ client.isn \in Nat /\ syns \in Nat
        <5>1. toClient[i] \in ToClient
          BY <1>1
        <5> QED BY <1>1, <5>1, Constants, Isns DEF Client
      <4> QED BY <2>2, <2>5, <4>1, <4>2
    <3>2. \A i \in DOMAIN toClient : ~IsFin(toClient[i], client'.isn) /\ ~IsRst(toClient[i], client'.isn)
      BY <3>1 DEF IsFin, IsRst
    <3>3. ~SeesFin'
      BY <2>1, <2>3, <3>2 DEF SeesFin, HasFin
    <3> QED BY <2>1, <2>2, <3>2, <3>3 DEF FinInv
  <2> QED BY <2>2, <2>4, <2>5
<1> QED
  BY <1>1, <1>4, <1>5, <1>6, <1>7, <1>8, <1>9, <1>10, <1>11, <1>12, <1>13, <1>14, StepKinds

-----------------------------------------------------------------------------
(* The numbers of the client's connections. *)

\* A step that leaves the client's number and what it has sent, or takes the first of it.
LEMMA IsnKept ==
  ASSUME IsnInv, client'.isn = client.isn, syns' = syns, client'.state = "syn" => client.state = "syn",
         conn'.isn <= client.isn,
         \A i \in DOMAIN toClient' : toClient'[i].isn <= client.isn,
         \A i \in DOMAIN toNat' : toNat'[i].isn <= client.isn
  PROVE  IsnInv'
  BY DEF IsnInv

\* None has a number that is yet to come.
LEMMA IsnStep == ASSUME ConnInv, DataInv, IsnInv, Next PROVE IsnInv'
<1>1. QueueTypes /\ toClient \in Seq(ToClient) /\ toNat \in Seq(ToNat) /\ conn \in Conn
      /\ conn.seq \in 0 .. W - 1 /\ conn.isn \in 0 .. MaxSyns /\ client \in Client
      /\ syns \in 0 .. MaxSyns /\ client.isn \in Nat /\ syns \in Nat
  BY Constants DEF ConnInv, DataInv, QueueTypes, EntryTypes, Conn, ClientTypes, Client
<1>2. /\ client.isn <= syns /\ conn.isn <= client.isn /\ (client.state = "syn" => client.isn > 0)
      /\ \A i \in DOMAIN toClient : toClient[i].isn <= client.isn
      /\ \A i \in DOMAIN toNat : toNat[i].isn <= client.isn
  BY DEF IsnInv
<1>3. NoConn.isn <= client.isn
  BY <1>1, NoConnType
<1>4. /\ toNat # << >> => Head(toNat).isn <= client.isn /\ Head(toNat).isn \in 0 .. MaxSyns
                          /\ \A i \in DOMAIN Tail(toNat) : Tail(toNat)[i].isn <= client.isn
      /\ toClient # << >> => \A i \in DOMAIN Tail(toClient) : Tail(toClient)[i].isn <= client.isn
  <2>1. ASSUME toNat # << >>
        PROVE  /\ Head(toNat).isn <= client.isn /\ Head(toNat).isn \in 0 .. MaxSyns
               /\ \A i \in DOMAIN Tail(toNat) : Tail(toNat)[i].isn <= client.isn
    <3>1. /\ Head(toNat) \in ToNat /\ Head(toNat) = toNat[1] /\ 1 \in DOMAIN toNat
          /\ \A i \in DOMAIN Tail(toNat) : i + 1 \in DOMAIN toNat /\ Tail(toNat)[i] = toNat[i + 1]
      BY <1>1, <2>1, TakenFacts
    <3>2. Head(toNat).isn \in 0 .. MaxSyns
      BY <3>1 DEF ToNat
    <3> QED BY <1>2, <3>1, <3>2
  <2>2. ASSUME toClient # << >> PROVE \A i \in DOMAIN Tail(toClient) : Tail(toClient)[i].isn <= client.isn
    <3>1. \A i \in DOMAIN Tail(toClient) : i + 1 \in DOMAIN toClient /\ Tail(toClient)[i] = toClient[i + 1]
      BY <1>1, <2>2, TakenFacts
    <3> QED BY <1>2, <3>1
  <2> QED BY <2>1, <2>2
<1>5. ASSUME NEW o \in Seq(ToClient), toClient' = toClient \o o, \A i \in DOMAIN o : o[i].isn <= client.isn
      PROVE  \A i \in DOMAIN toClient' : toClient'[i].isn <= client.isn
  <2> SUFFICES ASSUME NEW i \in DOMAIN toClient' PROVE toClient'[i].isn <= client.isn
    OBVIOUS
  <2>1. /\ DOMAIN toClient' = 1 .. Len(toClient) + Len(o) /\ Len(toClient) \in Nat /\ Len(o) \in Nat
        /\ DOMAIN toClient = 1 .. Len(toClient)
        /\ \A k \in 1 .. Len(toClient) : toClient'[k] = toClient[k]
        /\ \A k \in 1 .. Len(toClient) + Len(o) :
             k > Len(toClient) => toClient'[k] = o[k - Len(toClient)] /\ k - Len(toClient) \in DOMAIN o
    BY <1>1, <1>5
  <2>2. CASE i > Len(toClient)
    BY <1>5, <2>1, <2>2
  <2>3. CASE i <= Len(toClient)
    BY <1>2, <2>1, <2>3
  <2> QED BY <2>1, <2>2, <2>3
<1>6. ASSUME NEW s \in ToClient, toClient' = toClient \o <<s>>, s.isn <= client.isn
      PROVE  \A i \in DOMAIN toClient' : toClient'[i].isn <= client.isn
  <2> DEFINE o == <<s>>
  <2>1. o \in Seq(ToClient) /\ toClient' = toClient \o o /\ \A i \in DOMAIN o : o[i].isn <= client.isn
    BY <1>6
  <2> HIDE DEF o
  <2> QED BY <1>5, <2>1
<1>7. ASSUME NEW type \in {"syn", "ack", "fin", "rst"}, NEW c \in Client, Reply(type, c), c.isn = client.isn
      PROVE  \A i \in DOMAIN toNat' : toNat'[i].isn <= client.isn
  <2>1. /\ DOMAIN toNat' = 1 .. Len(toNat) + 1 /\ Len(toNat) \in Nat
        /\ \A i \in 1 .. Len(toNat) : toNat'[i] = toNat[i]
        /\ toNat'[Len(toNat) + 1].isn = client.isn
    BY <1>1, <1>7, ReplyType
  <2> SUFFICES ASSUME NEW i \in DOMAIN toNat' PROVE toNat'[i].isn <= client.isn
    OBVIOUS
  <2>2. CASE i = Len(toNat) + 1
    BY <1>1, <2>1, <2>2
  <2>3. CASE i # Len(toNat) + 1
    <3>1. i \in DOMAIN toNat
      BY <1>1, <2>1, <2>3
    <3> QED BY <1>2, <2>1, <2>3, <3>1
  <2> QED BY <2>2, <2>3
<1>8. ASSUME NEW c, Pushing(c) PROVE IsnInv'
  <2>1. client' = client /\ syns' = syns /\ conn'.isn = conn.isn /\ c.isn = conn.isn
    BY <1>1, <1>8, PushingFacts DEF clientVars
  <2>2. PICK o \in Seq(ToClient) : toClient' = toClient \o o /\ Pushed(c, conn', o)
    BY <1>1, <1>8, PushingFacts
  <2>3. \A i \in DOMAIN o : o[i].isn <= client.isn
    BY <1>2, <2>1, <2>2 DEF Pushed
  <2>4. \A i \in DOMAIN toClient' : toClient'[i].isn <= client.isn
    BY <1>5, <2>2, <2>3
  <2>5. toNat' = toNat \/ (toNat # << >> /\ toNat' = Tail(toNat))
    BY <1>8 DEF Pushing, HandleAck, Take, Data, End
  <2>6. \A i \in DOMAIN toNat' : toNat'[i].isn <= client.isn
    BY <1>2, <1>4, <2>5
  <2> QED BY <1>2, <2>1, <2>4, <2>6, IsnKept
<1>9. CASE HandleRst \/ LingerFires \/ Sweep \/ Close \/ Timeout \/ DropSyn \/ (HandleAck /\ ~Live(conn))
  <2>1. /\ UNCHANGED <<toClient, clientVars>>
        /\ toNat' = toNat \/ (toNat # << >> /\ toNat' = Tail(toNat))
        /\ conn' = conn \/ conn' = NoConn \/ conn' = [conn EXCEPT !.linger = TRUE]
    BY <1>9 DEF HandleRst, Take, LingerFires, Sweep, Close, Timeout, DropSyn, HandleAck, CloseConnection,
                LingerOrClose
  <2>2. conn'.isn <= client.isn
    BY <1>1, <1>2, <1>3, <2>1 DEF Conn
  <2>3. \A i \in DOMAIN toNat' : toNat'[i].isn <= client.isn
    BY <1>2, <1>4, <2>1
  <2> QED BY <1>2, <2>1, <2>2, <2>3, IsnKept DEF clientVars
<1>10. CASE HandleSyn
  <2>1. UNCHANGED <<toClient, clientVars>> /\ toNat # << >> /\ toNat' = Tail(toNat)
    BY <1>10 DEF HandleSyn, Take
  <2>2. conn'.isn = Head(toNat).isn
    BY <1>10 DEF HandleSyn, NoConn
  <2> QED BY <1>2, <1>4, <2>1, <2>2, IsnKept DEF clientVars
<1>11. CASE Unknown
  <2> DEFINE s == Segment(Head(toNat).isn, "rst", 0, 0)
  <2>1. /\ UNCHANGED <<conn, clientVars>> /\ toClient' = toClient \o <<s>> /\ toNat # << >>
        /\ toNat' = Tail(toNat)
    BY <1>11 DEF Unknown, Send, Take
  <2>2. s \in ToClient /\ s.isn = Head(toNat).isn
    BY <1>4, <2>1, SegmentType, Constants
  <2> HIDE DEF s
  <2>3. \A i \in DOMAIN toClient' : toClient'[i].isn <= client.isn
    BY <1>4, <1>6, <2>1, <2>2
  <2> QED BY <1>2, <1>4, <2>1, <2>3, IsnKept DEF clientVars
<1>12. CASE Connected
  <2> DEFINE s == Segment(conn.isn, "synack", conn.seq, 0)
  <2>1. UNCHANGED <<toNat, clientVars>> /\ toClient' = toClient \o <<s>>
    BY <1>12 DEF Connected, Send
  <2>2. s \in ToClient /\ s.isn = conn.isn
    BY <1>1, SegmentType
  <2>3. conn'.isn = conn.isn
    BY <1>12, ConnectedFacts
  <2> HIDE DEF s
  <2>4. \A i \in DOMAIN toClient' : toClient'[i].isn <= client.isn
    BY <1>2, <1>6, <2>1, <2>2
  <2> QED BY <1>2, <2>1, <2>3, <2>4, IsnKept DEF clientVars
<1>13. CASE Error
  <2> DEFINE s == Segment(conn.isn, "rst", conn.seq, 0)
  <2>1. /\ UNCHANGED <<toNat, clientVars>>
        /\ toClient' = toClient \o (IF conn.finSent THEN << >> ELSE <<s>>)
        /\ conn' = NoConn \/ conn' = [conn EXCEPT !.linger = TRUE]
    BY <1>13 DEF Error, Send, LingerOrClose, CloseConnection
  <2>2. s \in ToClient /\ s.isn = conn.isn
    BY <1>1, SegmentType
  <2>3. conn'.isn <= client.isn
    BY <1>1, <1>2, <1>3, <2>1 DEF Conn
  <2> HIDE DEF s
  <2>4. \A i \in DOMAIN toClient' : toClient'[i].isn <= client.isn
    <3>1. CASE conn.finSent
      <4>1. toClient' = toClient
        BY <1>1, <2>1, <3>1
      <4> QED BY <1>2, <4>1
    <3>2. CASE ~conn.finSent
      BY <1>2, <1>6, <2>1, <2>2, <3>2
    <3> QED BY <3>1, <3>2
  <2> QED BY <1>2, <2>1, <2>3, <2>4, IsnKept DEF clientVars
<1>14. CASE ClientSyn
  <2>1. /\ UNCHANGED <<conn, toClient>> /\ Reply("syn", client') /\ syns' = syns + 1
    BY <1>14 DEF ClientSyn
  <2>2. /\ client' \in Client /\ client.state \in {"idle", "syn"}
        /\ client'.isn = IF client.state = "idle" THEN syns + 1 ELSE client.isn
    BY <1>1, <1>14, SynFacts
  <2>3. client'.isn \in Nat /\ client'.isn <= syns' /\ client.isn <= client'.isn /\ client'.isn > 0
    BY <1>1, <1>2, <2>1, <2>2
  <2>4. /\ DOMAIN toNat' = 1 .. Len(toNat) + 1 /\ Len(toNat) \in Nat
        /\ \A i \in 1 .. Len(toNat) : toNat'[i] = toNat[i]
        /\ toNat'[Len(toNat) + 1].isn = client'.isn
    BY <1>1, <2>1, <2>2, ReplyType
  <2>5. ASSUME NEW i \in DOMAIN toNat' PROVE toNat'[i].isn <= client'.isn
    <3>1. CASE i = Len(toNat) + 1
      BY <2>3, <2>4, <3>1
    <3>2. CASE i # Len(toNat) + 1
      <4>1. i \in DOMAIN toNat /\ toNat'[i] = toNat[i]
        BY <1>1, <2>4, <3>2
      <4>2. toNat[i].isn \in Nat /\ toNat[i].isn <= client.isn
        <5>1. toNat[i] \in ToNat
          BY <1>1, <4>1
        <5> QED BY <1>2, <4>1, <5>1, Isns
      <4> QED BY <1>1, <2>3, <4>1, <4>2
    <3> QED BY <3>1, <3>2
  <2>6. ASSUME NEW i \in DOMAIN toClient PROVE toClient[i].isn <= client'.isn
    <3>1. toClient[i].isn \in Nat /\ toClient[i].isn <= client.isn
      <4>1. toClient[i] \in ToClient
        BY <1>1
      <4> QED BY <1>2, <4>1, Isns
    <3> QED BY <1>1, <2>3, <3>1
  <2>7. conn.isn <= client'.isn
    <3>1. conn.isn \in Nat
      BY <1>1, Constants
    <3> QED BY <1>1, <1>2, <2>3, <3>1
  <2> QED BY <2>1, <2>3, <2>5, <2>6, <2>7 DEF IsnInv
<1>15. CASE Arrives
  <2>1. UNCHANGED <<conn, syns>> /\ toClient # << >> /\ toClient' = Tail(toClient)
    BY <1>15 DEF Arrives, ClientEstablished, ClientReceives, ClientReset, ClientRefuses
  <2>2. client' \in Client
    BY <1>15, DataStep DEF Next, DataInv, ClientTypes
  <2>3. client'.isn = client.isn /\ (client'.state = "syn" => client.state = "syn")
    <3>1. CASE ClientEstablished \/ ClientReceives
      BY <1>1, <3>1 DEF ClientEstablished, ClientReceives, Accepts, Client
    <3>2. CASE ClientReset \/ ClientRefuses
      BY <1>1, <3>2, LeftBlank DEF ClientReset, ClientRefuses
    <3> QED BY <1>15, <3>1, <3>2 DEF Arrives
  <2>4. \A i \in DOMAIN toNat' : toNat'[i].isn <= client.isn
    <3>1. toNat' = toNat \/ Reply("ack", client') \/ Reply("ack", client) \/ Reply("rst", client)
      BY <1>15 DEF Arrives, ClientEstablished, ClientReceives, ClientReset, ClientRefuses
    <3> QED BY <1>1, <1>2, <1>7, <2>2, <2>3, <3>1
  <2> QED BY <1>2, <1>4, <2>1, <2>3, <2>4, IsnKept
<1>16. CASE Acks \/ ClientFin \/ ClientRst \/ ClientDone
  <2>1. UNCHANGED <<conn, syns, toClient>>
    BY <1>16 DEF Acks, ClientAck, ClientFin, ClientRst, ClientDone
  <2>2. client' \in Client
    BY <1>16, DataStep DEF Next, DataInv, ClientTypes
  <2>3. client'.isn = client.isn /\ (client'.state = "syn" => client.state = "syn")
    <3>1. CASE Acks \/ ClientFin
      BY <1>1, <3>1 DEF Acks, ClientAck, ClientFin, Client
    <3>2. CASE ClientRst \/ ClientDone
      BY <1>1, <3>2, LeftBlank DEF ClientRst, ClientDone
    <3> QED BY <1>16, <3>1, <3>2
  <2>4. \A i \in DOMAIN toNat' : toNat'[i].isn <= client.isn
    <3>1. toNat' = toNat \/ Reply("ack", client') \/ Reply("fin", client') \/ Reply("rst", client)
      BY <1>16 DEF Acks, ClientAck, ClientFin, ClientRst, ClientDone
    <3> QED BY <1>1, <1>2, <1>7, <2>2, <2>3, <3>1
  <2> QED BY <1>2, <2>1, <2>3, <2>4, IsnKept
<1> QED
  BY <1>1, <1>8, <1>9, <1>10, <1>11, <1>12, <1>13, <1>14, <1>15, <1>16, StepKinds DEF Arrives, Acks

-----------------------------------------------------------------------------
(* The stream under way. *)

\* A queue holds at most MSS bytes for each segment.
LEMMA BytesAtMost ==
  ASSUME NEW q \in Seq(ToClient)
  PROVE  Bytes(q) <= Len(q) * MSS /\ Bytes(q) \in Nat
<1>1. PICK g : Sums(q, Len(q), g)
  BY SumsExist
<1> DEFINE T == {n \in Nat : n <= Len(q) => g[n] <= n * MSS}
<1>2. Len(q) \in Nat /\ MSS \in Nat
  BY Constants
<1>3. 0 \in T
  BY <1>1, <1>2 DEF Sums
<1>4. ASSUME NEW n \in Nat, n \in T PROVE n + 1 \in T
  <2> SUFFICES ASSUME n + 1 <= Len(q) PROVE g[n + 1] <= (n + 1) * MSS
    OBVIOUS
  <2>1. g[n] \in Nat /\ g[n] <= n * MSS
    BY <1>1, <1>2, <1>4 DEF Sums
  <2>2. n + 1 \in 1 .. Len(q)
    BY <1>2
  <2>3. g[n + 1] = g[(n + 1) - 1] + q[n + 1].len
    BY <1>1, <2>2 DEF Sums
  <2>4. q[n + 1].len \in Nat /\ q[n + 1].len <= MSS
    BY <2>2, Lengths
  <2>5. (n + 1) * MSS = n * MSS + MSS /\ n * MSS \in Nat
    BY <1>2
  <2>6. g[n + 1] = g[n] + q[n + 1].len
    BY <2>3
  <2> QED BY <1>2, <2>1, <2>4, <2>5, <2>6
<1>5. Len(q) \in T
  <2> HIDE DEF T
  <2> QED BY <1>2, <1>3, <1>4, AllNumbers
<1>6. Bytes(q) = g[Len(q)]
  BY <1>1, BytesIsSum
<1>7. Bytes(q) \in Nat
  BY BytesConcat
<1> QED BY <1>5, <1>6, <1>7

\* The segments behind the k-th.
LEMMA AfterFacts ==
  ASSUME NEW q \in Seq(ToClient), NEW k \in 0 .. Len(q)
  PROVE  /\ After(q, k) \in Seq(ToClient) /\ Len(After(q, k)) = Len(q) - k
         /\ \A i \in 1 .. Len(q) - k : After(q, k)[i] = q[k + i]
  BY DEF After

\* The last SYN-ACK of a queue to which payload is added.
LEMMA SynackConcat ==
  ASSUME NEW q \in Seq(ToClient), NEW o \in Seq(ToClient), \A i \in DOMAIN o : o[i].type # "synack",
         NEW k, LastSynack(q \o o, k)
  PROVE  /\ k \in DOMAIN q /\ LastSynack(q, k) /\ (q \o o)[k] = q[k]
         /\ After(q, k) \in Seq(ToClient) /\ After(q \o o, k) = After(q, k) \o o
<1> DEFINE u == q \o o
<1>1. /\ u \in Seq(ToClient) /\ Len(u) = Len(q) + Len(o) /\ Len(q) \in Nat /\ Len(o) \in Nat
      /\ DOMAIN u = 1 .. Len(q) + Len(o) /\ DOMAIN q = 1 .. Len(q) /\ DOMAIN o = 1 .. Len(o)
      /\ \A i \in 1 .. Len(q) : u[i] = q[i]
      /\ \A i \in 1 .. Len(q) + Len(o) : i > Len(q) => i - Len(q) \in DOMAIN o /\ u[i] = o[i - Len(q)]
  OBVIOUS
<1>2. k \in DOMAIN u /\ u[k].type = "synack" /\ \A i \in DOMAIN u : u[i].type = "synack" => i <= k
  BY DEF LastSynack
<1> HIDE DEF u
<1>3. k \in 1 .. Len(q)
  <2>1. ASSUME k > Len(q) PROVE FALSE
    <3>1. k - Len(q) \in DOMAIN o /\ u[k] = o[k - Len(q)]
      BY <1>1, <1>2, <2>1
    <3> QED BY <1>2, <3>1
  <2> QED BY <1>1, <1>2, <2>1
<1>4. LastSynack(q, k) /\ u[k] = q[k]
  BY <1>1, <1>2, <1>3 DEF LastSynack
<1>5. /\ After(q, k) \in Seq(ToClient) /\ Len(After(q, k)) = Len(q) - k
      /\ \A i \in 1 .. Len(q) - k : After(q, k)[i] = q[k + i]
  <2>1. k \in 0 .. Len(q)
    BY <1>1, <1>3
  <2> QED BY <2>1, AfterFacts
<1>6. /\ After(u, k) \in Seq(ToClient) /\ Len(After(u, k)) = Len(u) - k
      /\ \A i \in 1 .. Len(u) - k : After(u, k)[i] = u[k + i]
  <2>1. k \in 0 .. Len(u) /\ u \in Seq(ToClient)
    BY <1>1, <1>3
  <2> QED BY <2>1, AfterFacts
<1> DEFINE a == After(q, k)
<1> DEFINE b == After(u, k)
<1> DEFINE v == a \o o
           l == Len(q) - k
<1>7. a \in Seq(ToClient) /\ Len(a) = l /\ l \in Nat /\ \A i \in 1 .. l : a[i] = q[k + i]
  BY <1>1, <1>3, <1>5
<1> HIDE DEF a, l
<1>8. /\ v \in Seq(ToClient) /\ Len(v) = l + Len(o) /\ (\A i \in 1 .. l : v[i] = a[i])
      /\ \A i \in 1 .. l + Len(o) : i > l => v[i] = o[i - l]
  <2>1. v \in Seq(ToClient) /\ Len(v) = Len(a) + Len(o)
    <3>1. a \in Seq(ToClient)
      BY <1>7
    <3>2. a \o o \in Seq(ToClient)
      BY <3>1
    <3>3. Len(a \o o) = Len(a) + Len(o)
      BY <3>1
    <3> QED BY <3>2, <3>3
  <2>2. \A i \in 1 .. Len(a) : v[i] = a[i]
    BY <1>7
  <2>3. \A i \in 1 .. Len(a) + Len(o) : i > Len(a) => v[i] = o[i - Len(a)]
    BY <1>7
  <2> HIDE DEF v
  <2> QED BY <1>7, <2>1, <2>2, <2>3
<1>9. b \in Seq(ToClient) /\ Len(b) = Len(v) /\ \A i \in 1 .. l + Len(o) : b[i] = u[k + i]
  <2>1. Len(u) - k = l + Len(o)
    BY <1>1, <1>3 DEF l
  <2> QED BY <1>6, <1>8, <2>1
<1> HIDE DEF b, v
<1>10. \A i \in 1 .. l + Len(o) : b[i] = v[i]
  <2> SUFFICES ASSUME NEW i \in 1 .. l + Len(o) PROVE b[i] = v[i]
    OBVIOUS
  <2>1. CASE i <= l
    <3>1. i \in 1 .. l /\ k + i \in 1 .. Len(q)
      BY <1>1, <1>3, <1>7, <2>1 DEF l
    <3> QED BY <1>1, <1>7, <1>8, <1>9, <3>1
  <2>2. CASE i > l
    <3>1. k + i \in 1 .. Len(q) + Len(o) /\ k + i > Len(q) /\ (k + i) - Len(q) = i - l
      BY <1>1, <1>3, <1>7, <2>2 DEF l
    <3>2. u[k + i] = o[i - l]
      BY <1>1, <3>1
    <3> QED BY <1>8, <1>9, <2>2, <3>2
  <2> QED BY <1>7, <2>1, <2>2
<1>11. b = v
  BY <1>8, <1>9, <1>10
<1> QED BY <1>1, <1>3, <1>4, <1>5, <1>11 DEF a, b, u, v

\* The last SYN-ACK of a queue whose first segment is taken.
LEMMA SynackTail ==
  ASSUME NEW q \in Seq(ToClient), q # << >>, NEW k, LastSynack(Tail(q), k)
  PROVE  /\ LastSynack(q, k + 1) /\ Tail(q)[k] = q[k + 1] /\ k + 1 \in DOMAIN q
         /\ After(Tail(q), k) = After(q, k + 1)
<1> DEFINE u == Tail(q)
<1>1. /\ u \in Seq(ToClient) /\ Len(u) = Len(q) - 1 /\ Len(q) \in Nat \ {0}
      /\ DOMAIN u = 1 .. Len(q) - 1 /\ DOMAIN q = 1 .. Len(q)
      /\ \A i \in 1 .. Len(q) - 1 : u[i] = q[i + 1]
  BY TakenFacts
<1>2. k \in DOMAIN u /\ u[k].type = "synack" /\ \A i \in DOMAIN u : u[i].type = "synack" => i <= k
  BY DEF LastSynack
<1> HIDE DEF u
<1>3. k + 1 \in DOMAIN q /\ q[k + 1].type = "synack" /\ u[k] = q[k + 1]
  BY <1>1, <1>2
<1>4. ASSUME NEW i \in DOMAIN q, q[i].type = "synack" PROVE i <= k + 1
  <2>1. CASE i = 1
    BY <1>1, <1>2, <2>1
  <2>2. CASE i # 1
    <3>1. i - 1 \in DOMAIN u /\ u[i - 1] = q[i]
      BY <1>1, <1>4, <2>2
    <3> QED BY <1>1, <1>2, <1>4, <3>1
  <2> QED BY <2>1, <2>2
<1> DEFINE a == After(q, k + 1)
<1> DEFINE b == After(u, k)
<1>5. a \in Seq(ToClient) /\ Len(a) = Len(q) - (k + 1) /\ \A i \in 1 .. Len(q) - (k + 1) : a[i] = q[(k + 1) + i]
  <2>1. k + 1 \in 0 .. Len(q)
    BY <1>1, <1>2
  <2> QED BY <2>1, AfterFacts
<1>6. b \in Seq(ToClient) /\ Len(b) = Len(u) - k /\ \A i \in 1 .. Len(u) - k : b[i] = u[k + i]
  <2>1. k \in 0 .. Len(u) /\ u \in Seq(ToClient)
    BY <1>1, <1>2
  <2> QED BY <2>1, AfterFacts
<1>7. \A i \in 1 .. Len(q) - (k + 1) : a[i] = b[i]
  <2> SUFFICES ASSUME NEW i \in 1 .. Len(q) - (k + 1) PROVE a[i] = b[i]
    OBVIOUS
  <2>1. k + i \in 1 .. Len(q) - 1 /\ (k + 1) + i = (k + i) + 1
    BY <1>1, <1>2
  <2>2. b[i] = u[k + i]
    BY <1>1, <1>2, <1>6
  <2> QED BY <1>1, <1>5, <2>1, <2>2
<1>8. a = b
  <2>1. Len(a) = Len(b) /\ \A i \in 1 .. Len(a) : a[i] = b[i]
    BY <1>1, <1>2, <1>5, <1>6, <1>7
  <2> HIDE DEF a, b
  <2> QED BY <1>5, <1>6, <2>1
<1> QED BY <1>3, <1>4, <1>8 DEF u, LastSynack

\* A queue whose FIN, if any, has no bytes behind it, with segments behind it.
LEMMA FinLastConcat ==
  ASSUME NEW q \in Seq(ToClient), NEW o \in Seq(ToClient), FinLast(q), FinLast(o),
         (\A i \in DOMAIN q : q[i].type # "fin") \/ (\A i \in DOMAIN o : o[i].len = 0)
  PROVE  FinLast(q \o o)
<1> DEFINE u == q \o o
<1>1. /\ Len(q) \in Nat /\ Len(o) \in Nat /\ DOMAIN u = 1 .. Len(q) + Len(o) /\ DOMAIN q = 1 .. Len(q)
      /\ \A i \in 1 .. Len(q) : u[i] = q[i]
      /\ \A i \in 1 .. Len(q) + Len(o) : i > Len(q) => i - Len(q) \in DOMAIN o /\ u[i] = o[i - Len(q)]
  OBVIOUS
<1> HIDE DEF u
<1> SUFFICES ASSUME NEW i \in DOMAIN u, NEW j \in DOMAIN u, i < j, u[i].type = "fin" PROVE u[j].len = 0
  BY DEF FinLast, u
<1>2. CASE j <= Len(q)
  BY <1>1, <1>2 DEF FinLast
<1>3. CASE j > Len(q) /\ i <= Len(q)
  BY <1>1, <1>3
<1>4. CASE i > Len(q)
  <2>1. i \in 1 .. Len(q) + Len(o) /\ j \in 1 .. Len(q) + Len(o)
    BY <1>1
  <2>2. j > Len(q) /\ i - Len(q) < j - Len(q)
    BY <1>1, <1>4, <2>1
  <2>3. i - Len(q) \in DOMAIN o /\ u[i] = o[i - Len(q)]
    BY <1>1, <1>4, <2>1
  <2>4. j - Len(q) \in DOMAIN o /\ u[j] = o[j - Len(q)]
    BY <1>1, <2>1, <2>2
  <2> QED BY <2>2, <2>3, <2>4 DEF FinLast
<1> QED BY <1>1, <1>2, <1>3, <1>4

\* Such a queue whose first segment is taken.
LEMMA FinLastTail ==
  ASSUME NEW q \in Seq(ToClient), q # << >>, FinLast(q)
  PROVE  FinLast(Tail(q)) /\ (Head(q).type = "fin" => \A i \in DOMAIN Tail(q) : Tail(q)[i].len = 0)
<1>1. /\ Head(q) = q[1] /\ 1 \in DOMAIN q
      /\ \A i \in DOMAIN Tail(q) : i + 1 \in DOMAIN q /\ Tail(q)[i] = q[i + 1] /\ i \in Nat \ {0}
  BY TakenFacts
<1> DEFINE p == Tail(q)
<1> HIDE DEF p
<1>2. ASSUME NEW i \in DOMAIN p, NEW j \in DOMAIN p, i < j, p[i].type = "fin" PROVE p[j].len = 0
  <2>1. /\ i + 1 \in DOMAIN q /\ p[i] = q[i + 1] /\ j + 1 \in DOMAIN q /\ p[j] = q[j + 1] /\ i + 1 < j + 1
    BY <1>1, <1>2 DEF p
  <2> QED BY <1>2, <2>1 DEF FinLast
<1>3. ASSUME NEW i \in DOMAIN p, Head(q).type = "fin" PROVE p[i].len = 0
  <2>1. i + 1 \in DOMAIN q /\ p[i] = q[i + 1] /\ 1 < i + 1
    BY <1>1 DEF p
  <2> QED BY <1>1, <1>3, <2>1 DEF FinLast
<1> QED BY <1>2, <1>3 DEF p, FinLast

\* A queue without bytes.
LEMMA BytesNone ==
  ASSUME NEW q \in Seq(ToClient), \A i \in DOMAIN q : q[i].len = 0
  PROVE  Bytes(q) = 0
<1> DEFINE g == [i \in 0 .. Len(q) |-> 0]
<1>1. Len(q) \in Nat /\ DOMAIN q = 1 .. Len(q)
  OBVIOUS
<1>2. Sums(q, Len(q), g)
  BY <1>1 DEF Sums
<1>3. Bytes(q) = g[Len(q)]
  BY <1>2, BytesIsSum
<1> QED BY <1>1, <1>3

\* A flush continues the stream.
LEMMA StreamsPushed ==
  ASSUME NEW q \in Seq(ToClient), NEW o \in Seq(ToClient), NEW b \in Conn, NEW c \in Conn, NEW e \in Conn,
         NEW x \in 0 .. W - 1, NEW r \in Nat, NEW g \in Nat, NEW n \in Nat, Streams(q, x, b, r, g),
         c.seq = b.seq, c.state = b.state, c.backlog = b.backlog + n, c.isn = b.isn, Live(c), Finished(c),
         Pushed(c, e, o)
  PROVE  Streams(q \o o, x, e, r + n, g)
<1> DEFINE u == Bytes(q)
           v == Bytes(o)
           w == Bytes(q \o o)
<1>1. u \in Nat /\ v \in Nat /\ w = u + v
  BY BytesConcat
<1>2. b.backlog \in Nat /\ c.backlog \in Nat /\ e.backlog \in Nat /\ b.seq \in Int /\ x \in Int
  BY Constants DEF Conn
<1>3. r = g + u + b.backlog /\ v + e.backlog = c.backlog /\ Leads(q, x, b.seq) /\ Leads(o, b.seq, e.seq)
  BY DEF Streams, Pushed
<1>4. Leads(q \o o, x, e.seq)
  BY <1>3, LeadsConcat
<1> HIDE DEF u, v, w
<1>5. r + n = g + w + e.backlog
  <2> DEFINE i == b.backlog
             j == e.backlog
  <2>1. i \in Nat /\ j \in Nat /\ v + j = i + n /\ r = g + u + i
    BY <1>2, <1>3
  <2> HIDE DEF i, j
  <2>2. r + n = g + w + j
    BY <1>1, <2>1
  <2> QED BY <2>2 DEF j
<1>6. ASSUME e.state = "ESTABLISHED"
      PROVE  (x + w) % W = e.seq /\ \A i \in DOMAIN (q \o o) : (q \o o)[i].type = "data"
  <2>1. (x + u) % W = b.seq /\ (\A i \in DOMAIN q : q[i].type = "data")
    BY <1>6 DEF Streams, Pushed, u
  <2>2. (b.seq + v) % W = e.seq /\ (\A i \in DOMAIN o : o[i].type = "data")
    BY <1>6 DEF Pushed, v
  <2>3. (((x + u) % W) + v) % W = ((x + u) + v) % W
    BY <1>1, <1>2, ModAdd
  <2>4. (x + u) + v = x + w
    BY <1>1, <1>2
  <2>5. \A i \in DOMAIN (q \o o) : (q \o o)[i].type = "data"
    BY <2>1, <2>2
  <2> QED BY <2>1, <2>2, <2>3, <2>4, <2>5
<1>7. FinLast(q \o o)
  <2>1. FinLast(q) /\ FinLast(o)
    BY DEF Streams, Pushed
  <2>2. CASE c.finSent
    <3>1. o = << >>
      BY <2>2 DEF Pushed
    <3>2. \A i \in DOMAIN o : o[i].len = 0
      BY <3>1
    <3> QED BY <2>1, <3>2, FinLastConcat
  <2>3. CASE ~c.finSent
    <3>1. b.state = "ESTABLISHED"
      BY <2>3 DEF Live, Finished
    <3>2. \A i \in DOMAIN q : q[i].type # "fin"
      BY <3>1 DEF Streams
    <3> QED BY <2>1, <3>2, FinLastConcat
  <2> QED BY <2>2, <2>3
<1>8. \A i \in DOMAIN (q \o o) : (q \o o)[i].isn = e.isn
  <2>1. (\A i \in DOMAIN q : q[i].isn = e.isn) /\ (\A i \in DOMAIN o : o[i].isn = e.isn)
    BY DEF Streams, Pushed
  <2> QED BY <2>1
<1> QED BY <1>4, <1>5, <1>6, <1>7, <1>8 DEF Streams, w

\* The client receives the first segment of the stream.
LEMMA StreamsTail ==
  ASSUME NEW q \in Seq(ToClient), q # << >>, NEW c \in Conn,
         NEW x \in 0 .. W - 1, NEW r \in Nat, NEW g \in Nat, Streams(q, x, c, r, g)
  PROVE  /\ Streams(Tail(q), Behind(Head(q)), c, r, g + Head(q).len)
         /\ c.state = "ESTABLISHED" => Head(q).type = "data" /\ Behind(Head(q)) = (x + Head(q).len) % W
<1> DEFINE s == Head(q)
           p == Tail(q)
<1>1. /\ Bytes(q) = s.len + Bytes(p) /\ Bytes(q) \in Nat /\ Bytes(p) \in Nat
      /\ s \in ToClient /\ p \in Seq(ToClient)
  BY BytesTail
<1>2. s.len \in Nat /\ s.seq \in Int
  BY <1>1, Lengths
<1>3. s.seq = x /\ Leads(p, Behind(s), c.seq)
  BY LeadsTail DEF Streams
<1>4. s = q[1] /\ 1 \in DOMAIN q /\ \A i \in DOMAIN p : i + 1 \in DOMAIN q /\ p[i] = q[i + 1]
  BY TakenFacts
<1>5. c.backlog \in Nat
  BY DEF Conn
<1>6. r = g + Bytes(q) + c.backlog
  BY DEF Streams
<1> DEFINE u == Bytes(q)
           v == Bytes(p)
<1>7. r = (g + s.len) + v + c.backlog
  <2> HIDE DEF u, v, s
  <2>1. u = s.len + v /\ u \in Nat /\ v \in Nat /\ r = g + u + c.backlog
    BY <1>1, <1>6 DEF u, v
  <2> QED BY <1>2, <1>5, <2>1
<1>8. ASSUME c.state = "ESTABLISHED"
      PROVE  /\ s.type = "data" /\ Behind(s) = (x + s.len) % W
             /\ (Behind(s) + v) % W = c.seq /\ \A i \in DOMAIN p : p[i].type = "data"
  <2>1. (x + u) % W = c.seq /\ \A i \in DOMAIN q : q[i].type = "data"
    BY <1>8 DEF Streams
  <2>2. s.type = "data" /\ \A i \in DOMAIN p : p[i].type = "data"
    BY <1>4, <2>1
  <2>3. Behind(s) = (x + s.len) % W
    BY <1>3, <2>2 DEF Behind
  <2> HIDE DEF u, v, s
  <2>4. x \in Int /\ v \in Nat /\ u \in Nat /\ u = s.len + v
    BY <1>1, Constants DEF u, v
  <2>5. (((x + s.len) % W) + v) % W = ((x + s.len) + v) % W
    <3>1. x + s.len \in Int /\ v \in Int
      BY <1>2, <2>4
    <3> QED BY <3>1, ModAdd
  <2>6. (x + s.len) + v = x + u
    BY <1>2, <2>4
  <2> QED BY <2>1, <2>2, <2>3, <2>5, <2>6
<1>9. FinLast(p) /\ \A i \in DOMAIN p : p[i].isn = c.isn
  <2>1. FinLast(q) /\ \A i \in DOMAIN q : q[i].isn = c.isn
    BY DEF Streams
  <2> QED BY <1>4, <2>1, FinLastTail
<1> QED BY <1>3, <1>7, <1>8, <1>9 DEF Streams

\* A pushing step hears an acknowledgement, or leaves the mesh to the exit and what has been heard alone.
LEMMA PushingHears ==
  ASSUME ConnInv, QueueTypes, NEW c, Pushing(c)
  PROVE  \/ /\ toNat # << >> /\ toNat' = Tail(toNat) /\ IsAck(Head(toNat)) /\ Head(toNat) \in ToNat
            /\ c = Acknowledged(conn, Head(toNat))
         \/ toNat' = toNat /\ c.ack = conn.ack /\ c.win = conn.win /\ c.pend = conn.pend
<1>1. CASE HandleAck /\ Live(conn) /\ c = Acknowledged(conn, Head(toNat))
  <2>1. toNat # << >> /\ toNat' = Tail(toNat) /\ IsAck(Head(toNat))
    BY <1>1 DEF HandleAck, Take, IsAck
  <2> QED BY <1>1, <2>1, TakenFacts DEF QueueTypes
<1>2. CASE \E n \in Reads : Data(n) /\ c = [conn EXCEPT !.backlog = conn.backlog + n]
  BY <1>2 DEF Data, ConnInv, EntryTypes, Conn
<1>3. CASE End /\ c = [conn EXCEPT !.eof = TRUE]
  BY <1>3 DEF End, ConnInv, EntryTypes, Conn
<1> QED BY <1>1, <1>2, <1>3 DEF Pushing

\* A queue of full segments with full segments behind it.
LEMMA FullConcat ==
  ASSUME NEW q \in Seq(ToClient), NEW o \in Seq(ToClient), NEW b, NEW e, Full(q, b),
         ~e.short => ~b.short /\ \A i \in DOMAIN o : o[i].len = MSS
  PROVE  Full(q \o o, e)
<1> SUFFICES ASSUME ~e.short, NEW i \in DOMAIN (q \o o) PROVE (q \o o)[i].len = MSS
  BY DEF Full
<1>1. (\A j \in DOMAIN q : q[j].len = MSS) /\ \A j \in DOMAIN o : o[j].len = MSS
  BY DEF Full
<1>2. CASE i \in 1 .. Len(q)
  BY <1>1, <1>2
<1>3. CASE i \notin 1 .. Len(q)
  <2>1. i - Len(q) \in DOMAIN o /\ (q \o o)[i] = o[i - Len(q)]
    BY <1>3
  <2> QED BY <1>1, <2>1
<1> QED BY <1>2, <1>3

\* What the client will get that takes the SYN-ACK grows with what is sent.
LEMMA OpeningPushed ==
  ASSUME NEW q \in Seq(ToClient), NEW o \in Seq(ToClient), NEW b \in Conn, NEW c \in Conn, NEW e \in Conn,
         NEW x \in 0 .. W - 1, NEW r \in Nat, NEW n \in Nat, Opening(q, x, b, r),
         c.seq = b.seq, c.state = b.state, c.backlog = b.backlog + n, c.short = b.short,
         c.ack = b.ack, c.win = b.win, c.pend = b.pend, c.isn = b.isn, Live(c), Finished(c), Pushed(c, e, o)
  PROVE  Opening(q \o o, x, e, r + n)
<1>1. Streams(q \o o, x, e, r + n, 0)
  BY StreamsPushed DEF Opening
<1>2. e.ack = -1 /\ e.win = FullWindow
  BY DEF Opening, Pushed
<1>3. ASSUME e.state = "ESTABLISHED"
      PROVE  Len(q \o o) <= e.pend /\ Full(q \o o, e) /\ (~e.short => Len(q \o o) = e.pend)
  <2>1. Len(q) <= b.pend /\ Full(q, b) /\ (~b.short => Len(q) = b.pend)
    BY <1>3 DEF Opening, Pushed
  <2>2. e.pend = b.pend + Len(o) /\ (~e.short => ~b.short /\ \A i \in DOMAIN o : o[i].len = MSS)
    BY <1>3 DEF Pushed
  <2>3. Len(q \o o) = Len(q) + Len(o) /\ Len(q) \in Nat /\ Len(o) \in Nat
    OBVIOUS
  <2>4. b.pend \in Nat /\ e.pend \in Nat
    BY Constants DEF Conn
  <2>5. Full(q \o o, e)
    BY <2>1, <2>2, FullConcat
  <2> DEFINE l == Len(q \o o)
             i == Len(q)
             j == Len(o)
  <2>6. l = i + j /\ i \in Nat /\ j \in Nat /\ e.pend = b.pend + j /\ i <= b.pend
    BY <2>1, <2>2, <2>3
  <2>7. ~e.short => i = b.pend
    BY <2>1, <2>2
  <2> HIDE DEF l, i, j
  <2>8. l <= e.pend /\ (~e.short => l = e.pend)
    BY <2>4, <2>6, <2>7
  <2> QED BY <2>5, <2>8 DEF l
<1> QED BY <1>1, <1>2, <1>3 DEF Opening

\* An entry that lingers is as it was, but for the mark.
LEMMA LingersFacts ==
  ASSUME conn \in Conn, LingerOrClose
  PROVE  \/ conn' = NoConn /\ ~Live(conn')
         \/ /\ conn.finSent /\ conn' = [conn EXCEPT !.linger = TRUE] /\ conn' \in Conn
            /\ conn'.seq = conn.seq /\ conn'.state = conn.state /\ conn'.win = conn.win
            /\ conn'.ack = conn.ack /\ conn'.pend = conn.pend /\ conn'.backlog = conn.backlog
            /\ conn'.short = conn.short /\ conn'.isn = conn.isn /\ conn'.finSent
<1>1. CASE conn.finSent
  <2>1. conn' = [conn EXCEPT !.linger = TRUE]
    BY <1>1 DEF LingerOrClose
  <2> QED BY <1>1, <2>1 DEF Conn
<1>2. CASE ~conn.finSent
  BY <1>2, NoConnType DEF LingerOrClose, CloseConnection, Live
<1> QED BY <1>1, <1>2

\* The exit takes a segment of the client, or none.
LEMMA SynsTaken ==
  ASSUME toNat \in Seq(ToNat), toNat' = toNat \/ (toNat # << >> /\ toNat' = Tail(toNat)), NEW n,
         SynsLast(toNat, n)
  PROVE  (Unheard' => Unheard) /\ SynsLast(toNat', n)
<1>1. CASE toNat' = toNat
  BY <1>1 DEF Unheard
<1>2. CASE toNat # << >> /\ toNat' = Tail(toNat)
  <2>1. \A i \in DOMAIN toNat' : i + 1 \in DOMAIN toNat /\ toNat'[i] = toNat[i + 1] /\ i \in Nat \ {0}
    BY <1>2, TakenFacts
  <2>2. Unheard' => Unheard
    BY <2>1 DEF Unheard
  <2>3. ASSUME NEW i \in DOMAIN toNat', NEW j \in DOMAIN toNat', i < j, IsSyn(toNat'[i], n) PROVE ~IsAck(toNat'[j])
    <3>1. i + 1 < j + 1 /\ i + 1 \in DOMAIN toNat /\ j + 1 \in DOMAIN toNat /\ IsSyn(toNat[i + 1], n)
          /\ toNat'[j] = toNat[j + 1]
      BY <2>1, <2>3
    <3> QED BY <3>1 DEF SynsLast
  <2> QED BY <2>2, <2>3 DEF SynsLast
<1> QED BY <1>1, <1>2

\* The client says SYN or RST.
LEMMA SynsReplied ==
  ASSUME toNat \in Seq(ToNat), NEW type \in {"syn", "rst"}, NEW c \in Client, Reply(type, c), NEW n,
         SynsLast(toNat, n)
  PROVE  (Unheard' => Unheard) /\ SynsLast(toNat', n)
<1>1. /\ DOMAIN toNat' = 1 .. Len(toNat) + 1 /\ Len(toNat) \in Nat /\ DOMAIN toNat = 1 .. Len(toNat)
      /\ \A i \in 1 .. Len(toNat) : toNat'[i] = toNat[i]
      /\ toNat'[Len(toNat) + 1].type = type
  BY ReplyType
<1>2. ~IsAck(toNat'[Len(toNat) + 1])
  BY <1>1 DEF IsAck
<1>3. ASSUME NEW i \in DOMAIN toNat', IsAck(toNat'[i]) PROVE i \in DOMAIN toNat /\ toNat'[i] = toNat[i]
  BY <1>1, <1>2, <1>3
<1>4. Unheard' => Unheard
  BY <1>3 DEF Unheard
<1>5. ASSUME NEW i \in DOMAIN toNat', NEW j \in DOMAIN toNat', i < j, IsSyn(toNat'[i], n), IsAck(toNat'[j])
      PROVE  FALSE
  <2>1. j \in DOMAIN toNat /\ toNat'[j] = toNat[j]
    BY <1>3, <1>5
  <2>2. i \in DOMAIN toNat /\ toNat'[i] = toNat[i]
    BY <1>1, <1>5, <2>1
  <2> QED BY <1>5, <2>1, <2>2 DEF SynsLast
<1> QED BY <1>4, <1>5 DEF SynsLast

\* Waiting for the SYN-ACK: the exit's entry is fresh for it, whatever it has already read and sent.
LEMMA SynStep == ASSUME ConnInv, DataInv, IsnInv, SynInv, Next PROVE SynInv'
<1>1. /\ QueueTypes /\ toClient \in Seq(ToClient) /\ toNat \in Seq(ToNat) /\ conn \in Conn
      /\ conn.seq \in 0 .. W - 1 /\ conn.isn \in 0 .. MaxSyns /\ client \in Client /\ read \in Nat
      /\ syns \in 0 .. MaxSyns /\ client.isn \in Nat /\ syns \in Nat
  BY Constants DEF ConnInv, DataInv, QueueTypes, EntryTypes, Conn, ClientTypes, Client
<1>0. client.state = "syn" => client.isn > 0 /\ NoConn.isn # client.isn
  BY <1>1, NoConnType DEF IsnInv
<1> DEFINE S1 == got = 0 /\ client.win = FullWindow /\ ~client.fin
           S2 == (Begun => ~Unheard) /\ SynsLast(toNat, client.isn)
           S3 == \A k \in DOMAIN toClient :
                   LastSynack(toClient, k) /\ toClient[k].isn = client.isn /\ Live(conn) =>
                     /\ conn.isn = client.isn
                     /\ Opening(After(toClient, k), (toClient[k].seq + 1) % W, conn, read)
<1>2. client.state = "syn" => S1 /\ S2 /\ S3
  BY DEF SynInv
<1>3. (client'.state = "syn" => S1' /\ S2' /\ S3') => SynInv'
  BY DEF SynInv
<1>4. ASSUME client' = client, toNat' = toNat \/ (toNat # << >> /\ toNat' = Tail(toNat)), Begun' => Begun, S2
      PROVE  S2'
  <2>1. (Unheard' => Unheard) /\ SynsLast(toNat', client.isn)
    BY <1>1, <1>4, SynsTaken
  <2> QED BY <1>4, <2>1
<1>5. ASSUME ~Live(conn') PROVE S3'
  BY <1>5
<1>6. ASSUME client' = client, got' = got PROVE (client.state = "syn" => S1') /\ client'.state = client.state
  BY <1>2, <1>6
<1>7. ASSUME NEW c, Pushing(c), client.state = "syn" PROVE S3' /\ S2'
  <2>0. client' = client /\ conn'.isn = conn.isn /\ c.isn = conn.isn
    BY <1>1, <1>7, PushingFacts DEF clientVars
  <2>2. /\ c \in Conn /\ conn' \in Conn /\ c.seq = conn.seq /\ c.state = conn.state /\ c.short = conn.short
        /\ Live(conn) /\ Live(c) /\ Finished(c)
    BY <1>1, <1>7, PushingFacts
  <2>3. PICK o \in Seq(ToClient) : toClient' = toClient \o o /\ Pushed(c, conn', o)
    BY <1>1, <1>7, PushingFacts
  <2>4. PICK n \in Nat : c.backlog = conn.backlog + n /\ read' = read + n
    BY <1>1, <1>7, PushingFacts
  <2>5. \A i \in DOMAIN o : o[i].type # "synack"
    BY <2>3 DEF Pushed, Payload
  <2>6. ASSUME NEW k \in DOMAIN toClient', LastSynack(toClient', k), toClient'[k].isn = client'.isn
        PROVE  conn'.isn = client'.isn /\ Opening(After(toClient', k), (toClient'[k].seq + 1) % W, conn', read')
    <3>1. LastSynack(toClient \o o, k)
      BY <2>3, <2>6
    <3>2. /\ k \in DOMAIN toClient /\ LastSynack(toClient, k) /\ (toClient \o o)[k] = toClient[k]
          /\ After(toClient, k) \in Seq(ToClient) /\ After(toClient \o o, k) = After(toClient, k) \o o
      BY <1>1, <2>5, <3>1, SynackConcat, SMTT(30)
    <3> DEFINE x == (toClient[k].seq + 1) % W
               q == After(toClient, k)
    <3>0. toClient[k].isn = client.isn
      BY <2>0, <2>3, <2>6, <3>2
    <3>3. conn.isn = client.isn /\ Opening(q, x, conn, read)
      BY <1>2, <1>7, <2>2, <3>0, <3>2
    <3>4. x \in 0 .. W - 1
      <4>1. toClient[k] \in ToClient
        BY <1>1, <3>2
      <4>2. toClient[k].seq + 1 \in Int
        BY <4>1, Lengths
      <4> QED BY <4>2, Divided
    <3>5. After(toClient', k) = q \o o /\ (toClient'[k].seq + 1) % W = x /\ q \in Seq(ToClient)
      BY <2>3, <3>2
    <3>7. ~Unheard
      <4>1. IsSynack(toClient[k], client.isn)
        BY <3>0, <3>2 DEF LastSynack, IsSynack
      <4>2. Begun
        BY <3>2, <4>1 DEF Begun
      <4> QED BY <1>2, <1>7, <4>2
    <3>8. toNat' = toNat /\ c.ack = conn.ack /\ c.win = conn.win /\ c.pend = conn.pend
      <4>1. ASSUME toNat # << >>, IsAck(Head(toNat)) PROVE FALSE
        <5>1. Head(toNat) = toNat[1] /\ 1 \in DOMAIN toNat
          BY <1>1, <4>1, TakenFacts
        <5> QED BY <3>7, <4>1, <5>1 DEF Unheard
      <4> QED BY <1>1, <1>7, <4>1, PushingHears
    <3> HIDE DEF x, q
    <3>6. Opening(q \o o, x, conn', read + n)
      BY <1>1, <2>0, <2>2, <2>3, <2>4, <3>3, <3>4, <3>5, <3>8, OpeningPushed
    <3> QED BY <2>0, <2>4, <3>3, <3>5, <3>6
  <2>7. Begun' => Begun
    <3>1. ASSUME NEW i \in DOMAIN toClient', IsSynack(toClient'[i], client.isn) PROVE Begun
      <4>1. toClient'[i] \in {toClient[j] : j \in DOMAIN toClient} \cup {o[j] : j \in DOMAIN o}
        BY <1>1, <2>3
      <4> QED BY <2>5, <3>1, <4>1 DEF Begun, IsSynack
    <3> QED BY <2>0, <3>1 DEF Begun
  <2>8. toNat' = toNat \/ (toNat # << >> /\ toNat' = Tail(toNat))
    BY <1>7 DEF Pushing, HandleAck, Take, Data, End
  <2>9. S2'
    BY <1>2, <1>4, <1>7, <2>0, <2>7, <2>8
  <2> QED BY <2>6, <2>9
<1>8. ASSUME NEW c, Pushing(c) PROVE SynInv'
  <2>1. client' = client /\ got' = got
    BY <1>1, <1>8, PushingFacts DEF clientVars
  <2> HIDE DEF S1, S3, S2
  <2> QED BY <1>3, <1>6, <1>7, <1>8, <2>1
<1>9. CASE HandleRst \/ LingerFires \/ Sweep \/ Unknown
  <2>1. client' = client /\ got' = got
    BY <1>9 DEF HandleRst, LingerFires, Sweep, Unknown, clientVars
  <2>2. toNat' = toNat \/ (toNat # << >> /\ toNat' = Tail(toNat))
    BY <1>9 DEF HandleRst, LingerFires, Sweep, Unknown, Take
  <2>3. ~Live(conn') /\ conn' \in {conn, NoConn}
    BY <1>9, NoConnType DEF HandleRst, LingerFires, Sweep, Unknown, CloseConnection, Live
  <2>4. client.state = "syn" => (Begun' => Begun)
    <3>1. CASE toClient' = toClient
      BY <1>0, <2>1, <2>3, <3>1 DEF Begun
    <3>2. CASE Unknown
      <4> DEFINE s == Segment(Head(toNat).isn, "rst", 0, 0)
      <4>1. toClient' = toClient \o <<s>> /\ conn' = conn /\ s.type = "rst"
        BY <3>2 DEF Unknown, Send, Segment
      <4> HIDE DEF s
      <4>2. \A i \in DOMAIN toClient' : toClient'[i].type = "rst" \/ (i \in DOMAIN toClient /\ toClient'[i] = toClient[i])
        BY <1>1, <4>1
      <4> QED BY <2>1, <4>1, <4>2 DEF Begun, IsSynack
    <3> QED BY <1>9, <3>1, <3>2 DEF HandleRst, LingerFires, Sweep
  <2>5. client.state = "syn" => S2'
    BY <1>2, <1>4, <2>1, <2>2, <2>4
  <2> HIDE DEF S1, S3, S2
  <2> QED BY <1>3, <1>5, <1>6, <2>1, <2>3, <2>5
<1>16. CASE HandleSyn
  <2>1. client' = client /\ got' = got /\ toClient' = toClient /\ toNat # << >> /\ toNat' = Tail(toNat)
        /\ Head(toNat).type = "syn"
    BY <1>16 DEF HandleSyn, Take, clientVars
  <2>2. ~Live(conn') /\ conn'.isn = Head(toNat).isn
    BY <1>16 DEF HandleSyn, Live, NoConn
  <2>3. client.state = "syn" => S2'
    <3> SUFFICES ASSUME client.state = "syn" PROVE S2'
      OBVIOUS
    <3>1. S2
      BY <1>2
    <3>2. (Unheard' => Unheard) /\ SynsLast(toNat', client.isn)
      BY <1>1, <2>1, <3>1, SynsTaken
    <3>3. CASE Head(toNat).isn = client.isn
      <4>1. /\ Head(toNat) = toNat[1] /\ 1 \in DOMAIN toNat
            /\ \A i \in DOMAIN toNat' : i + 1 \in DOMAIN toNat /\ toNat'[i] = toNat[i + 1] /\ i \in Nat \ {0}
        BY <1>1, <2>1, TakenFacts
      <4>2. IsSyn(toNat[1], client.isn)
        BY <2>1, <3>3, <4>1 DEF IsSyn
      <4>3. ASSUME NEW i \in DOMAIN toNat' PROVE ~IsAck(toNat'[i])
        <5>1. 1 < i + 1 /\ i + 1 \in DOMAIN toNat /\ toNat'[i] = toNat[i + 1]
          BY <4>1
        <5> QED BY <3>1, <4>1, <4>2, <5>1 DEF SynsLast
      <4>4. ~Unheard'
        BY <4>3 DEF Unheard
      <4> QED BY <2>1, <3>2, <4>4
    <3>4. CASE Head(toNat).isn # client.isn
      <4>1. Begun' => Begun
        BY <2>1, <2>2, <3>4 DEF Begun
      <4> QED BY <2>1, <3>1, <3>2, <4>1
    <3> QED BY <3>3, <3>4
  <2> HIDE DEF S1, S3, S2
  <2> QED BY <1>3, <1>5, <1>6, <2>1, <2>2, <2>3
<1>10. CASE DropSyn \/ (HandleAck /\ ~Live(conn))
  <2>1. client' = client /\ got' = got /\ UNCHANGED <<conn, toClient, read>> /\ toNat # << >> /\ toNat' = Tail(toNat)
    BY <1>10 DEF DropSyn, HandleAck, Take, clientVars
  <2>2. S3 => S3'
    BY <2>1
  <2>3. Begun' => Begun
    BY <2>1 DEF Begun
  <2>4. S2 => S2'
    BY <1>4, <2>1, <2>3
  <2> HIDE DEF S1, S3, S2
  <2> QED BY <1>2, <1>3, <1>6, <2>1, <2>2, <2>4
<1>11. CASE Close \/ Timeout \/ Error
  <2>1. client' = client /\ got' = got /\ UNCHANGED <<toNat, read>> /\ LingerOrClose
    BY <1>11 DEF Close, Timeout, Error, clientVars
  <2> DEFINE s == Segment(conn.isn, "rst", conn.seq, 0)
  <2>5. toClient' = toClient \/ toClient' = toClient \o << >> \/ (~conn.finSent /\ toClient' = toClient \o <<s>>)
    BY <1>11 DEF Close, Timeout, Error, Send
  <2>6. s.type = "rst"
    BY DEF Segment
  <2> HIDE DEF s
  <2>7. \A i \in DOMAIN toClient' : toClient'[i].type = "rst" \/ (i \in DOMAIN toClient /\ toClient'[i] = toClient[i])
    <3>1. CASE toClient' = toClient
      BY <3>1
    <3>2. CASE toClient' = toClient \o << >>
      BY <1>1, <3>2
    <3>3. CASE toClient' = toClient \o <<s>>
      BY <1>1, <2>6, <3>3
    <3> QED BY <2>5, <3>1, <3>2, <3>3
  <2>8. conn'.isn \in {conn.isn, NoConn.isn}
    BY <1>1, <2>1, LingersFacts
  <2>9. client.state = "syn" => (Begun' => Begun)
    BY <1>0, <2>1, <2>7, <2>8 DEF Begun, IsSynack
  <2>2. client.state = "syn" => S2'
    BY <1>2, <1>4, <2>1, <2>9
  <2>3. CASE ~Live(conn')
    <3> HIDE DEF S1, S3, S2
    <3> QED BY <1>2, <1>3, <1>5, <1>6, <2>1, <2>2, <2>3
  <2>4. CASE Live(conn')
    <3>1. /\ conn.finSent /\ conn'.seq = conn.seq /\ conn'.state = conn.state /\ conn'.win = conn.win
          /\ conn'.ack = conn.ack /\ conn'.pend = conn.pend /\ conn'.backlog = conn.backlog
          /\ conn'.short = conn.short /\ conn'.isn = conn.isn
      BY <1>1, <2>1, <2>4, LingersFacts
    <3>2. toClient' = toClient
      BY <1>1, <2>5, <3>1
    <3>3. Live(conn) <=> Live(conn')
      BY <3>1 DEF Live
    <3>4. \A q, x : Opening(q, x, conn, read) => Opening(q, x, conn', read')
      BY <2>1, <3>1 DEF Opening, Streams, Full
    <3>5. S3 => S3'
      BY <2>1, <3>1, <3>2, <3>3, <3>4
    <3> HIDE DEF S1, S3, S2
    <3> QED BY <1>2, <1>3, <1>6, <2>1, <2>2, <3>5
  <2> QED BY <2>3, <2>4
<1>12. CASE Connected
  <2> DEFINE s == Segment(conn.isn, "synack", conn.seq, 0)
  <2>1. client' = client /\ got' = got /\ UNCHANGED <<toNat, read>> /\ toClient' = toClient \o <<s>>
    BY <1>12 DEF Connected, Send, clientVars
  <2>2. /\ conn' \in Conn /\ conn'.state = "ESTABLISHED" /\ conn'.win = FullWindow /\ Fresh(conn')
        /\ conn'.seq = (conn.seq + 1) % W /\ read = 0 /\ conn'.isn = conn.isn
    BY <1>12, ConnectedFacts
  <2>3. s \in ToClient /\ s.type = "synack" /\ s.seq = conn.seq /\ s.isn = conn.isn
    BY <1>1, SegmentType
  <2> HIDE DEF s
  <2>4. /\ Len(toClient) \in Nat /\ DOMAIN toClient' = 1 .. Len(toClient) + 1
        /\ Len(toClient') = Len(toClient) + 1 /\ toClient'[Len(toClient) + 1] = s /\ toClient' \in Seq(ToClient)
        /\ DOMAIN toClient = 1 .. Len(toClient) /\ \A i \in DOMAIN toClient : toClient'[i] = toClient[i]
    BY <1>1, <2>1, <2>3
  <2>5. ASSUME NEW k \in DOMAIN toClient', LastSynack(toClient', k), toClient'[k].isn = client'.isn
        PROVE  conn'.isn = client'.isn /\ Opening(After(toClient', k), (toClient'[k].seq + 1) % W, conn', read')
    <3>1. Len(toClient) + 1 \in DOMAIN toClient' /\ toClient'[Len(toClient) + 1].type = "synack"
      BY <2>3, <2>4
    <3>2. k = Len(toClient) + 1
      BY <2>4, <2>5, <3>1 DEF LastSynack
    <3>3. k \in 0 .. Len(toClient') /\ Len(toClient') - k = 0
      BY <2>4, <3>2
    <3>4. After(toClient', k) \in Seq(ToClient) /\ Len(After(toClient', k)) = 0
      BY <2>4, <3>3, AfterFacts
    <3>5. /\ After(toClient', k) = << >> /\ (toClient'[k].seq + 1) % W = conn'.seq
          /\ conn'.isn = client'.isn
      BY <2>2, <2>3, <2>4, <2>5, <3>2, <3>4
    <3>6. (conn'.seq + 0) % W = conn'.seq /\ conn'.seq \in Int
      <4>1. conn'.seq \in 0 .. W - 1 /\ conn'.seq + 0 = conn'.seq
        BY <2>2, Constants DEF Conn
      <4> QED BY <4>1, ModSmall, Constants
    <3>7. Streams(<< >>, conn'.seq, conn', read', 0)
      <4>1. Bytes(<< >>) = 0 /\ conn'.backlog = 0 /\ read' = 0 + 0 + 0
        BY <2>1, <2>2, BytesFew DEF Fresh
      <4>2. Leads(<< >>, conn'.seq, conn'.seq) /\ FinLast(<< >>)
        BY DEF Leads, InStep, FinLast
      <4> QED BY <3>6, <4>1, <4>2 DEF Streams
    <3>8. Opening(<< >>, conn'.seq, conn', read')
      BY <2>2, <3>7 DEF Opening, Fresh, Full
    <3> QED BY <3>5, <3>8
  <2>6. Begun' => Begun
    <3>1. ASSUME NEW i \in DOMAIN toClient', IsSynack(toClient'[i], client.isn) PROVE Begun
      <4>1. CASE i = Len(toClient) + 1
        BY <2>3, <2>4, <3>1, <4>1 DEF Begun, IsSynack
      <4>2. CASE i # Len(toClient) + 1
        <5>1. i \in DOMAIN toClient
          BY <2>4, <4>2
        <5> QED BY <2>4, <3>1, <5>1 DEF Begun
      <4> QED BY <4>1, <4>2
    <3> QED BY <2>1, <2>2, <3>1 DEF Begun
  <2>8. S2 => S2'
    BY <1>4, <2>1, <2>6
  <2>7. S3'
    BY <2>5
  <2> HIDE DEF S1, S3, S2
  <2> QED BY <1>2, <1>3, <1>6, <2>1, <2>7, <2>8
<1>13. CASE ClientEstablished \/ ClientReceives \/ ClientFin \/ ClientRst \/ ClientDone
            \/ \E win \in Windows : ClientAck(win)
  <2>1. client'.state # "syn"
    BY <1>1, <1>13, LeftBlank DEF ClientEstablished, ClientReceives, ClientFin, ClientRst, ClientDone, ClientAck,
                                  Accepts, Client
  <2> QED BY <1>3, <2>1
<1>14. CASE ClientRefuses \/ ClientReset
  <2>0. client' # client => client'.state # "syn"
    BY <1>1, <1>14, LeftBlank DEF ClientRefuses, ClientReset
  <2>1. got' = got /\ UNCHANGED <<conn, read>> /\ toClient # << >> /\ toClient' = Tail(toClient)
    BY <1>14 DEF ClientRefuses, ClientReset
  <2>2. client.state = "syn" => toNat' = toNat \/ Reply("rst", client)
    BY <1>14 DEF ClientRefuses, ClientReset
  <2>3. ASSUME client.state = "syn", client' = client PROVE S2'
    <3>1. (Unheard' => Unheard) /\ SynsLast(toNat', client.isn)
      <4>1. CASE toNat' = toNat
        BY <1>2, <2>3, <4>1 DEF Unheard
      <4>2. CASE Reply("rst", client)
        BY <1>1, <1>2, <2>3, <4>2, SynsReplied
      <4> QED BY <2>2, <2>3, <4>1, <4>2
    <3>2. Begun' => Begun
      <4>1. \A i \in DOMAIN toClient' : i + 1 \in DOMAIN toClient /\ toClient'[i] = toClient[i + 1]
        BY <1>1, <2>1, TakenFacts
      <4> QED BY <2>1, <2>3, <4>1 DEF Begun
    <3> QED BY <1>2, <2>3, <3>1, <3>2
  <2>4. ASSUME client' = client, S3 PROVE S3'
    <3> SUFFICES ASSUME NEW k \in DOMAIN toClient', LastSynack(toClient', k), toClient'[k].isn = client'.isn,
                        Live(conn')
                 PROVE  /\ conn'.isn = client'.isn
                        /\ Opening(After(toClient', k), (toClient'[k].seq + 1) % W, conn', read')
      OBVIOUS
    <3>1. /\ LastSynack(toClient, k + 1) /\ toClient'[k] = toClient[k + 1] /\ k + 1 \in DOMAIN toClient
          /\ After(toClient', k) = After(toClient, k + 1)
      BY <1>1, <2>1, SynackTail
    <3> QED BY <2>1, <2>4, <3>1
  <2> HIDE DEF S1, S3, S2
  <2>5. CASE client' = client
    BY <1>2, <1>3, <1>6, <2>1, <2>3, <2>4, <2>5
  <2>6. CASE client' # client
    BY <1>3, <2>0, <2>6
  <2> QED BY <2>5, <2>6
<1>15. CASE ClientSyn
  <2>1. UNCHANGED <<conn, toClient, read>> /\ got' = 0 /\ Reply("syn", client')
    BY <1>15 DEF ClientSyn
  <2>2. /\ client' \in Client /\ client'.win = FullWindow /\ ~client'.fin /\ client.state \in {"idle", "syn"}
        /\ client'.isn = IF client.state = "idle" THEN syns + 1 ELSE client.isn
    BY <1>1, <1>15, SynFacts
  <2>3. S1'
    BY <2>1, <2>2
  <2>4. CASE client.state = "syn"
    <3>1. client'.isn = client.isn
      BY <2>2, <2>4
    <3>2. S2'
      <4>1. (Unheard' => Unheard) /\ SynsLast(toNat', client.isn)
        BY <1>1, <1>2, <2>1, <2>2, <2>4, SynsReplied
      <4>2. Begun' => Begun
        BY <2>1, <3>1 DEF Begun
      <4> QED BY <1>2, <2>4, <3>1, <4>1, <4>2
    <3>3. S3'
      BY <1>2, <2>1, <2>4, <3>1
    <3> HIDE DEF S1, S3, S2
    <3> QED BY <1>3, <2>3, <3>2, <3>3
  <2>5. CASE client.state = "idle"
    <3>1. client'.isn = syns + 1
      BY <2>2, <2>5
    <3>2. ASSUME NEW n \in Nat, n <= client.isn PROVE n # client'.isn
      BY <1>1, <3>1, <3>2 DEF IsnInv
    <3>3. \A i \in DOMAIN toClient : toClient[i].isn # client'.isn
      <4> SUFFICES ASSUME NEW i \in DOMAIN toClient PROVE toClient[i].isn # client'.isn
        OBVIOUS
      <4>1. toClient[i] \in ToClient /\ toClient[i].isn <= client.isn
        BY <1>1 DEF IsnInv
      <4> QED BY <3>2, <4>1, Isns
    <3>4. \A i \in DOMAIN toNat : toNat[i].isn # client'.isn
      <4> SUFFICES ASSUME NEW i \in DOMAIN toNat PROVE toNat[i].isn # client'.isn
        OBVIOUS
      <4>1. toNat[i] \in ToNat /\ toNat[i].isn <= client.isn
        BY <1>1 DEF IsnInv
      <4> QED BY <3>2, <4>1, Isns
    <3>5. conn.isn # client'.isn
      <4>1. conn.isn \in Nat /\ conn.isn <= client.isn
        BY <1>1, Constants DEF IsnInv
      <4> QED BY <3>2, <4>1
    <3>6. ~Begun'
      BY <2>1, <3>3, <3>5 DEF Begun, IsSynack
    <3>7. SynsLast(toNat, client'.isn)
      BY <3>4 DEF SynsLast, IsSyn
    <3>8. SynsLast(toNat', client'.isn)
      BY <1>1, <2>1, <2>2, <3>7, SynsReplied
    <3>9. S3'
      BY <2>1, <3>3
    <3>10. S2'
      BY <3>6, <3>8
    <3> HIDE DEF S1, S3, S2
    <3> QED BY <1>3, <2>3, <3>9, <3>10
  <2> QED BY <2>2, <2>4, <2>5
<1> QED
  BY <1>1, <1>8, <1>9, <1>10, <1>11, <1>12, <1>13, <1>14, <1>15, <1>16, StepKinds

-----------------------------------------------------------------------------
(* The connection of client and entry. *)

\* The exit takes the client's next segment.
LEMMA TakenAck ==
  ASSUME toNat \in Seq(ToNat), toNat # << >>, toNat' = Tail(toNat)
  PROVE  /\ OneAck /\ (Up' => Up) /\ client' = client => OneAck'
         /\ ~IsAck(Head(toNat)) => (Unheard' <=> Unheard)
         /\ OneAck /\ Up /\ IsAck(Head(toNat)) =>
              toNat' = << >> /\ Head(toNat).ack = client.acked /\ Head(toNat).win = client.win
<1>1. /\ Head(toNat) = toNat[1] /\ 1 \in DOMAIN toNat /\ DOMAIN toNat = 1 .. Len(toNat)
      /\ Len(toNat) \in Nat \ {0} /\ Len(toNat') = Len(toNat) - 1 /\ DOMAIN toNat' = 1 .. Len(toNat) - 1
      /\ \A i \in DOMAIN toNat' : i + 1 \in DOMAIN toNat /\ toNat'[i] = toNat[i + 1] /\ i \in Nat \ {0}
      /\ toNat' \in Seq(ToNat)
  BY TakenFacts
<1>2. ASSUME OneAck, Up' => Up, client' = client PROVE OneAck'
  <2> SUFFICES ASSUME Up', NEW i \in DOMAIN toNat', IsAck(toNat'[i])
               PROVE  i = Len(toNat') /\ toNat'[i].ack = client'.acked /\ toNat'[i].win = client'.win
    BY DEF OneAck, IsAck
  <2>1. i + 1 \in DOMAIN toNat /\ toNat'[i] = toNat[i + 1]
    BY <1>1
  <2>2. i + 1 = Len(toNat) /\ toNat[i + 1].ack = client.acked /\ toNat[i + 1].win = client.win
    BY <1>2, <2>1 DEF OneAck
  <2> QED BY <1>1, <1>2, <2>1, <2>2
<1>3. ASSUME ~IsAck(Head(toNat)) PROVE Unheard' <=> Unheard
  <2>1. ASSUME NEW i \in DOMAIN toNat, IsAck(toNat[i]) PROVE \E j \in DOMAIN toNat' : IsAck(toNat'[j])
    <3>1. i # 1
      BY <1>1, <1>3, <2>1
    <3>2. i - 1 \in DOMAIN toNat' /\ toNat'[i - 1] = toNat[i]
      BY <1>1, <3>1
    <3> QED BY <2>1, <3>2
  <2>2. ASSUME NEW i \in DOMAIN toNat', IsAck(toNat'[i]) PROVE \E j \in DOMAIN toNat : IsAck(toNat[j])
    BY <1>1, <2>2
  <2> QED BY <2>1, <2>2 DEF Unheard, IsAck
<1>4. ASSUME OneAck, Up, IsAck(Head(toNat))
      PROVE  toNat' = << >> /\ Head(toNat).ack = client.acked /\ Head(toNat).win = client.win
  <2>1. 1 = Len(toNat) /\ toNat[1].ack = client.acked /\ toNat[1].win = client.win
    BY <1>1, <1>4 DEF OneAck
  <2> QED BY <1>1, <2>1
<1> QED BY <1>2, <1>3, <1>4

\* The client says something: an acknowledgement of all it has when nothing else is unheard, or something else.
LEMMA Replied ==
  ASSUME toNat \in Seq(ToNat), client \in Client, client' \in Client, NEW c \in {client, client'},
         NEW type \in {"syn", "ack", "fin", "rst"}, Reply(type, c)
  PROVE  /\ type \in {"ack", "fin"} => Unheard'
         /\ type \in {"ack", "fin"} /\ (\A i \in DOMAIN toNat : ~IsAck(toNat[i])) /\ c = client'
              /\ client'.acked = client'.nxt => OneAck'
         /\ toNat' # << >> /\ (toNat = << >> => Head(toNat').type = type)
         /\ toNat # << >> => Head(toNat') = Head(toNat)
<1>1. /\ toNat' \in Seq(ToNat) /\ Len(toNat') = Len(toNat) + 1 /\ DOMAIN toNat' = 1 .. Len(toNat) + 1
      /\ Len(toNat) \in Nat /\ \A i \in 1 .. Len(toNat) : toNat'[i] = toNat[i]
      /\ DOMAIN toNat = 1 .. Len(toNat)
  BY ReplyType
<1>2. /\ toNat'[Len(toNat) + 1].type = type /\ toNat'[Len(toNat) + 1].ack = c.nxt
      /\ toNat'[Len(toNat) + 1].win = c.win
  BY ReplyType
<1>3. type \in {"ack", "fin"} => Unheard'
  BY <1>1, <1>2 DEF Unheard, IsAck
<1>4. ASSUME type \in {"ack", "fin"}, \A i \in DOMAIN toNat : ~IsAck(toNat[i]), c = client',
             client'.acked = client'.nxt
      PROVE  OneAck'
  <2> SUFFICES ASSUME NEW i \in DOMAIN toNat', IsAck(toNat'[i])
               PROVE  i = Len(toNat') /\ toNat'[i].ack = client'.acked /\ toNat'[i].win = client'.win
    BY DEF OneAck, IsAck
  <2>1. i = Len(toNat) + 1
    BY <1>1, <1>4
  <2> QED BY <1>1, <1>2, <1>4, <2>1
<1>5. toNat' # << >> /\ Head(toNat') = toNat'[1]
  BY <1>1
<1>6. ASSUME toNat = << >> PROVE Head(toNat').type = type
  <2>1. Len(toNat) = 0
    BY <1>6
  <2> QED BY <1>2, <1>5, <2>1
<1>7. ASSUME toNat # << >> PROVE Head(toNat') = Head(toNat)
  BY <1>1, <1>5, <1>7
<1> QED BY <1>3, <1>4, <1>5, <1>6, <1>7

\* What the client says that acknowledges nothing.
LEMMA RepliedNoAck ==
  ASSUME toNat \in Seq(ToNat), NEW type \in {"syn", "rst"}, NEW c \in Client, Reply(type, c)
  PROVE  Unheard' => Unheard
<1>1. /\ DOMAIN toNat' = 1 .. Len(toNat) + 1 /\ Len(toNat) \in Nat /\ DOMAIN toNat = 1 .. Len(toNat)
      /\ \A i \in 1 .. Len(toNat) : toNat'[i] = toNat[i]
      /\ toNat'[Len(toNat) + 1].type = type
  BY ReplyType
<1>2. ASSUME NEW i \in DOMAIN toNat', IsAck(toNat'[i]) PROVE i \in DOMAIN toNat /\ toNat'[i] = toNat[i]
  BY <1>1, <1>2 DEF IsAck
<1> QED BY <1>2 DEF Unheard

\* Behind a segment that is not payload there is none that is in sequence.
LEMMA NothingBehind ==
  ASSUME NEW q \in Seq(ToClient), NEW x, InStep(q, x), q # << >>, ~Payload(q[1]), NEW i \in DOMAIN q
  PROVE  ~Payload(q[i])
<1> DEFINE T == {n \in Nat : n \in DOMAIN q => ~Payload(q[n])}
<1>1. DOMAIN q = 1 .. Len(q) /\ Len(q) \in Nat
  OBVIOUS
<1>2. 0 \in T
  BY <1>1
<1>3. ASSUME NEW n \in T PROVE n + 1 \in T
  <2>1. CASE n = 0
    BY <2>1
  <2>2. CASE n # 0 /\ n + 1 \in DOMAIN q
    <3>1. n \in DOMAIN q /\ (n + 1) - 1 = n /\ n + 1 # 1
      BY <1>1, <1>3, <2>2
    <3>2. Payload(q[n + 1]) => Payload(q[(n + 1) - 1])
      BY <2>2, <3>1 DEF InStep
    <3> QED BY <1>3, <3>1, <3>2
  <2> QED BY <2>1, <2>2
<1> HIDE DEF T
<1>4. T = Nat
  BY <1>2, <1>3, AllNumbers DEF T
<1> QED BY <1>1, <1>4 DEF T

\* Without a connection of client and entry only what has been received counts.
LEMMA NotJoined == ASSUME ~broken', ~joined' PROVE UpInv'
  BY DEF UpInv, NoSynack, Expected, OneAck, Carried, Refused, Up

\* A flush sends the client what comes next.
LEMMA UpPushing == ASSUME ConnInv, DataInv, UpInv, NEW c, Pushing(c) PROVE UpInv'
<1>1. /\ QueueTypes /\ toClient \in Seq(ToClient) /\ toNat \in Seq(ToNat) /\ conn \in Conn
      /\ client \in Client /\ read \in Nat /\ got \in Nat /\ client.nxt \in 0 .. W - 1
  BY DEF ConnInv, DataInv, QueueTypes, EntryTypes, ClientTypes, Client
<1>2. ~broken /\ NoSynack /\ Expected /\ OneAck /\ Carried /\ Refused
  BY DEF UpInv
<1>3. /\ c \in Conn /\ conn' \in Conn /\ Live(conn) /\ c.seq = conn.seq /\ c.state = conn.state
      /\ client' = client /\ got' = got /\ broken' = broken /\ joined' = joined
  BY <1>1, PushingFacts DEF clientVars
<1>0. Live(c) /\ Finished(c) /\ c.isn = conn.isn /\ conn'.isn = conn.isn
  BY <1>1, PushingFacts
<1>4. PICK o \in Seq(ToClient) : toClient' = toClient \o o /\ Pushed(c, conn', o)
  BY <1>1, PushingFacts
<1>5. PICK n \in Nat : c.backlog = conn.backlog + n /\ read' = read + n
  BY <1>1, PushingFacts
<1>6. conn'.win = c.win /\ \A i \in DOMAIN o : o[i].type # "synack"
  BY <1>4 DEF Pushed, Payload
<1>7. Up' <=> Up
  BY <1>3 DEF Up
<1>8. NoSynack'
  <2>1. ASSUME joined, NEW i \in DOMAIN toClient' PROVE toClient'[i].type # "synack"
    <3>1. \A j \in DOMAIN toClient : toClient[j].type # "synack"
      BY <1>2, <2>1 DEF NoSynack
    <3>2. CASE i \in 1 .. Len(toClient)
      BY <1>1, <1>4, <3>1, <3>2
    <3>3. CASE i \notin 1 .. Len(toClient)
      <4>1. i - Len(toClient) \in DOMAIN o /\ toClient'[i] = o[i - Len(toClient)]
        BY <1>1, <1>4, <3>3
      <4> QED BY <1>6, <4>1
    <3> QED BY <3>2, <3>3
  <2> QED BY <1>3, <2>1 DEF NoSynack
<1>9. Up => Streams(toClient', client'.nxt, conn', read', got') /\ conn'.isn = client'.isn
  <2>1. ASSUME Up PROVE Streams(toClient \o o, client.nxt, conn', read + n, got)
    <3>1. Streams(toClient, client.nxt, conn, read, got)
      BY <1>2, <1>3, <2>1 DEF Carried
    <3> QED BY <1>0, <1>1, <1>3, <1>4, <1>5, <3>1, StreamsPushed
  <2>2. Up => conn'.isn = client'.isn
    BY <1>0, <1>2, <1>3 DEF Carried
  <2> QED BY <1>3, <1>4, <1>5, <2>1, <2>2
<1>10. Expected'
  BY <1>7, <1>9 DEF Expected, Streams, Leads
<1>11. CASE toNat' = toNat /\ c.win = conn.win
  <2>1. OneAck' /\ (Unheard' <=> Unheard)
    BY <1>2, <1>3, <1>7, <1>11 DEF OneAck, Unheard
  <2>2. Carried'
    BY <1>2, <1>3, <1>6, <1>7, <1>9, <1>11, <2>1 DEF Carried
  <2>3. Refused'
    BY <1>2, <1>3, <2>1 DEF Refused
  <2> QED BY <1>2, <1>3, <1>8, <1>10, <2>1, <2>2, <2>3 DEF UpInv
<1>12. CASE /\ toNat # << >> /\ toNat' = Tail(toNat) /\ IsAck(Head(toNat)) /\ Head(toNat) \in ToNat
            /\ c = Acknowledged(conn, Head(toNat))
  <2>1. OneAck'
    BY <1>1, <1>2, <1>3, <1>7, <1>12, TakenAck
  <2>2. c.win = Head(toNat).win
    BY <1>1, <1>12, AckFacts
  <2>3. Up => conn'.win = client'.win
    BY <1>1, <1>2, <1>3, <1>6, <1>12, <2>2, TakenAck
  <2>4. Carried'
    BY <1>7, <1>9, <2>3 DEF Carried
  <2>5. Refused'
    <3>0. Unheard
      BY <1>1, <1>12, TakenFacts DEF Unheard
    <3>1. joined => client.state = "open"
      BY <1>2, <1>3, <3>0 DEF Refused
    <3> QED BY <1>3, <3>1 DEF Refused
  <2> QED BY <1>2, <1>3, <1>8, <1>10, <2>1, <2>4, <2>5 DEF UpInv
<1> QED BY <1>1, <1>11, <1>12, PushingHears

\* The client receives in sequence, and the exit hears its ACKs one by one.
LEMMA UpStep == ASSUME ConnInv, DataInv, SynInv, UpInv, Next PROVE UpInv'
<1>1. /\ QueueTypes /\ toClient \in Seq(ToClient) /\ toNat \in Seq(ToNat) /\ conn \in Conn
      /\ client \in Client /\ read \in Nat /\ got \in Nat /\ client.nxt \in 0 .. W - 1
      /\ conn.seq \in 0 .. W - 1 /\ syns \in 0 .. MaxSyns
  BY DEF ConnInv, DataInv, QueueTypes, EntryTypes, ClientTypes, Client, Conn
<1>2. ~broken /\ NoSynack /\ Expected /\ OneAck /\ Carried /\ Refused
  BY DEF UpInv
<1>3. ASSUME NEW c, Pushing(c) PROVE UpInv'
  BY <1>3, UpPushing
<1>4. CASE HandleSyn \/ Connected
  <2>1. ~joined' /\ broken' = broken
    <3>1. CASE HandleSyn
      BY <3>1 DEF HandleSyn, clientVars
    <3>2. CASE Connected
      BY <3>2, ConnectedFacts DEF Connected, clientVars
    <3> QED BY <1>4, <3>1, <3>2
  <2> QED BY <1>2, <2>1, NotJoined
<1>5. ASSUME client' = client, broken' = broken, joined' = joined
      PROVE  (Up' <=> Up) /\ ~broken'
  BY <1>2, <1>5 DEF Up
<1>6. ASSUME client' = client, joined' = joined, toClient' = toClient PROVE NoSynack' /\ Expected'
  BY <1>2, <1>6 DEF NoSynack, Expected, Up
<1>0. ASSUME client' \in Client, client'.state # "open", toClient' = toClient, joined' = joined, broken' = broken,
             conn' = conn, Unheard' => Unheard, joined /\ Live(conn) /\ client.state = "open" => ~Unheard
      PROVE  UpInv'
  <2>1. ~Up'
    BY <1>0 DEF Up
  <2>2. NoSynack' /\ Refused'
    BY <1>0, <1>2 DEF NoSynack, Refused
  <2> QED BY <1>0, <1>2, <2>1, <2>2 DEF UpInv, Expected, OneAck, Carried
<1>7. ASSUME NEW s \in ToClient, toClient' = toClient \o <<s>>, s.type = "rst", client' = client, joined' = joined
      PROVE  NoSynack' /\ Expected'
  <2> DEFINE n == Len(toClient)
  <2>1. /\ DOMAIN toClient' = 1 .. n + 1 /\ toClient'[n + 1] = s /\ n \in Nat /\ DOMAIN toClient = 1 .. n
        /\ \A i \in 1 .. n : toClient'[i] = toClient[i]
    BY <1>1, <1>7
  <2> HIDE DEF n
  <2>2. NoSynack'
    BY <1>2, <1>7, <2>1 DEF NoSynack
  <2>3. ASSUME Up PROVE InStep(toClient \o <<s>>, client.nxt)
    BY <1>1, <1>2, <1>7, <2>3, InStepOther DEF Expected, Payload
  <2>4. ASSUME Up, NEW i \in DOMAIN toClient', Payload(toClient'[i]) PROVE toClient'[i].isn = client.isn
    <3>1. i # n + 1
      BY <1>7, <2>1, <2>4 DEF Payload
    <3>2. i \in DOMAIN toClient /\ toClient'[i] = toClient[i]
      BY <2>1, <3>1
    <3> QED BY <1>2, <2>4, <3>2 DEF Expected
  <2> QED BY <1>7, <2>2, <2>3, <2>4 DEF Expected, Up
<1>8. ASSUME ~Live(conn') PROVE Carried' /\ Refused'
  BY <1>8 DEF Carried, Refused
<1>9. CASE HandleRst \/ LingerFires \/ Sweep \/ (HandleAck /\ ~Live(conn))
  <2>1. client' = client /\ broken' = broken /\ joined' = joined /\ toClient' = toClient
    BY <1>9 DEF HandleRst, LingerFires, Sweep, HandleAck, clientVars
  <2>2. toNat' = toNat \/ (toNat # << >> /\ toNat' = Tail(toNat))
    BY <1>9 DEF HandleRst, LingerFires, Sweep, HandleAck, Take
  <2>3. ~Live(conn')
    BY <1>9, NoConnType DEF HandleRst, LingerFires, Sweep, HandleAck, CloseConnection, Live
  <2>4. OneAck'
    <3>1. CASE toNat' = toNat
      BY <1>2, <1>5, <2>1, <3>1 DEF OneAck
    <3>2. CASE toNat # << >> /\ toNat' = Tail(toNat)
      BY <1>1, <1>2, <1>5, <2>1, <3>2, TakenAck
    <3> QED BY <2>2, <3>1, <3>2
  <2> QED BY <1>5, <1>6, <1>8, <2>1, <2>3, <2>4 DEF UpInv
<1>10. CASE DropSyn
  <2>1. /\ client' = client /\ broken' = broken /\ joined' = joined /\ toClient' = toClient
        /\ UNCHANGED <<conn, read, got>> /\ toNat # << >> /\ toNat' = Tail(toNat) /\ Head(toNat).type = "syn"
    BY <1>10 DEF DropSyn, Take, clientVars
  <2>2. ~IsAck(Head(toNat))
    BY <2>1 DEF IsAck
  <2>3. OneAck' /\ (Unheard' <=> Unheard)
    BY <1>1, <1>2, <1>5, <2>1, <2>2, TakenAck
  <2>4. Carried'
    BY <1>2, <1>5, <2>1, <2>3 DEF Carried
  <2>5. Refused'
    BY <1>2, <2>1, <2>3 DEF Refused
  <2> QED BY <1>5, <1>6, <2>1, <2>3, <2>4, <2>5 DEF UpInv
<1>11. CASE Unknown
  <2> DEFINE s == Segment(Head(toNat).isn, "rst", 0, 0)
  <2>1. /\ client' = client /\ broken' = broken /\ joined' = joined /\ toClient' = toClient \o <<s>>
        /\ conn' = conn /\ conn.state = "CLOSED" /\ toNat # << >> /\ toNat' = Tail(toNat)
    BY <1>11 DEF Unknown, Take, Send, clientVars
  <2>2. s \in ToClient /\ s.type = "rst"
    <3>1. Head(toNat) \in ToNat
      BY <1>1, <2>1, TakenFacts
    <3>2. Head(toNat).isn \in 0 .. MaxSyns
      BY <3>1, Isns
    <3> QED BY <3>2, SegmentType, Constants
  <2> HIDE DEF s
  <2>3. OneAck'
    BY <1>1, <1>2, <1>5, <2>1, TakenAck
  <2>4. ~Live(conn')
    BY <2>1 DEF Live
  <2> QED BY <1>5, <1>7, <1>8, <2>1, <2>2, <2>3, <2>4 DEF UpInv
<1>12. CASE Close \/ Timeout \/ Error
  <2>1. client' = client /\ broken' = broken /\ joined' = joined /\ UNCHANGED <<toNat, read, got>> /\ LingerOrClose
    BY <1>12 DEF Close, Timeout, Error, clientVars
  <2>2. OneAck' /\ (Unheard' <=> Unheard)
    BY <1>2, <1>5, <2>1 DEF OneAck, Unheard
  <2>3. CASE Live(conn')
    <3>1. /\ conn.finSent /\ conn'.seq = conn.seq /\ conn'.state = conn.state /\ conn'.win = conn.win
          /\ conn'.backlog = conn.backlog /\ conn'.isn = conn.isn
      BY <1>1, <2>1, <2>3, LingersFacts
    <3>2. toClient' = toClient
      <4>1. toClient' = toClient \/ toClient' = toClient \o << >>
        BY <1>12, <3>1 DEF Close, Timeout, Error, Send
      <4> QED BY <1>1, <4>1
    <3>3. Live(conn)
      BY <2>3, <3>1 DEF Live
    <3>4. \A q, x, g : Streams(q, x, conn, read, g) => Streams(q, x, conn', read', g)
      BY <2>1, <3>1 DEF Streams
    <3>5. Carried'
      BY <1>2, <1>5, <2>1, <2>2, <3>1, <3>2, <3>3, <3>4 DEF Carried
    <3>6. Refused'
      BY <1>2, <2>1, <2>2, <3>3 DEF Refused
    <3> QED BY <1>5, <1>6, <2>1, <2>2, <3>2, <3>5, <3>6 DEF UpInv
  <2>4. CASE ~Live(conn')
    <3>1. NoSynack' /\ Expected'
      <4>1. CASE Error /\ ~conn.finSent
        <5> DEFINE s == Segment(conn.isn, "rst", conn.seq, 0)
        <5>1. toClient' = toClient \o <<s>>
          BY <4>1 DEF Error, Send
        <5>0. conn.isn \in 0 .. MaxSyns
          BY <1>1 DEF Conn
        <5>2. s \in ToClient /\ s.type = "rst"
          BY <1>1, <5>0, SegmentType
        <5> HIDE DEF s
        <5> QED BY <1>7, <2>1, <5>1, <5>2
      <4>2. CASE ~(Error /\ ~conn.finSent)
        <5>1. toClient' = toClient \/ toClient' = toClient \o << >>
          BY <1>12, <4>2 DEF Close, Timeout, Error, Send
        <5>2. toClient' = toClient
          BY <1>1, <5>1
        <5> QED BY <1>6, <2>1, <5>2
      <4> QED BY <4>1, <4>2
    <3> QED BY <1>5, <1>8, <2>1, <2>2, <2>4, <3>1 DEF UpInv
  <2> QED BY <2>3, <2>4
<1>13. ASSUME toClient # << >>, toClient' = Tail(toClient), joined' = joined PROVE NoSynack'
  <2>1. \A i \in DOMAIN toClient' : i + 1 \in DOMAIN toClient /\ toClient'[i] = toClient[i + 1]
    BY <1>1, <1>13, TakenFacts
  <2> QED BY <1>2, <1>13, <2>1 DEF NoSynack
<1>14. CASE ClientEstablished
  <2> DEFINE nxt == (Head(toClient).seq + 1) % W
  <2>1. /\ toClient # << >> /\ toClient' = Tail(toClient) /\ Head(toClient).type = "synack"
        /\ client.state = "syn" /\ Head(toClient).isn = client.isn /\ Reply("ack", client')
        /\ client' = [client EXCEPT !.state = "open", !.nxt = nxt, !.acked = nxt]
        /\ joined' = (Live(conn) /\ \A i \in DOMAIN toClient' : toClient'[i].type # "synack")
        /\ UNCHANGED <<conn, read, got, broken>>
    BY <1>14 DEF ClientEstablished, Accepts
  <2>2. nxt \in 0 .. W - 1
    <3>1. Head(toClient).seq + 1 \in Int
      BY <1>1, <2>1, TakenFacts, Lengths
    <3> QED BY <3>1, Divided
  <2>3. /\ client'.state = "open" /\ client'.nxt = nxt /\ client'.acked = nxt /\ client' \in Client
        /\ client'.isn = client.isn
    BY <1>1, <2>1, <2>2 DEF Client
  <2>4. got = 0 /\ \A i \in DOMAIN toNat : ~IsAck(toNat[i])
    <3>1. Begun
      BY <1>1, <2>1, TakenFacts DEF Begun, IsSynack
    <3> QED BY <2>1, <3>1 DEF SynInv, Unheard
  <2>5. Unheard' /\ OneAck'
    BY <1>1, <2>1, <2>3, <2>4, Replied
  <2>6. joined' => Streams(toClient', client'.nxt, conn', read', got') /\ conn'.isn = client'.isn
    <3>1. ASSUME joined' PROVE Streams(Tail(toClient), nxt, conn, read, 0) /\ conn.isn = client.isn
      <4>1. 1 \in DOMAIN toClient /\ toClient[1] = Head(toClient) /\ DOMAIN toClient = 1 .. Len(toClient)
            /\ DOMAIN Tail(toClient) = 1 .. Len(toClient) - 1 /\ Len(toClient) \in Nat
            /\ \A i \in DOMAIN Tail(toClient) : Tail(toClient)[i] = toClient[i + 1]
        BY <1>1, <2>1, TakenFacts
      <4>2. ASSUME NEW i \in DOMAIN toClient, toClient[i].type = "synack" PROVE i <= 1
        <5>1. CASE i # 1
          <6>1. i - 1 \in DOMAIN Tail(toClient) /\ Tail(toClient)[i - 1] = toClient[i]
            BY <4>1, <5>1
          <6> QED BY <2>1, <3>1, <4>2, <6>1
        <5> QED BY <5>1
      <4>3. LastSynack(toClient, 1)
        BY <2>1, <4>1, <4>2 DEF LastSynack
      <4>4. Opening(After(toClient, 1), nxt, conn, read) /\ conn.isn = client.isn
        BY <2>1, <3>1, <4>1, <4>3 DEF SynInv
      <4>5. After(toClient, 1) = Tail(toClient)
        BY <1>1, <2>1, SMTT(30) DEF After
      <4> QED BY <4>4, <4>5 DEF Opening
    <3> QED BY <2>1, <2>3, <2>4, <3>1
  <2>7. NoSynack'
    BY <2>1 DEF NoSynack
  <2>8. Expected' /\ Carried' /\ Refused'
    BY <2>3, <2>5, <2>6 DEF Expected, Carried, Refused, Up, Streams, Leads
  <2> QED BY <1>2, <2>1, <2>5, <2>7, <2>8 DEF UpInv
<1>15. CASE ClientReceives
  <2> DEFINE s == Head(toClient)
  <2> DEFINE nxt == (client.nxt + (IF s.type = "fin" THEN 1 ELSE s.len)) % W
  <2>1. /\ toClient # << >> /\ toClient' = Tail(toClient) /\ client.state = "open" /\ got' = got + s.len
        /\ client' = [client EXCEPT !.nxt = nxt, !.fin = client.fin \/ s.type = "fin"]
        /\ broken' = (broken \/ (joined /\ s.seq # client.nxt)) /\ Payload(s)
        /\ UNCHANGED <<conn, read, toNat, joined>>
    BY <1>1, <1>15 DEF ClientReceives, Accepts, Client, Payload
  <2>2. /\ client'.nxt = nxt /\ client'.state = "open" /\ client'.acked = client.acked /\ client'.win = client.win
        /\ client'.isn = client.isn
    BY <1>1, <2>1 DEF Client
  <2>3. (Up <=> joined) /\ (Up' <=> joined)
    BY <2>1, <2>2 DEF Up
  <2>4. joined => s.seq = client.nxt /\ InStep(Tail(toClient), Behind(s)) /\ Behind(s) = nxt
    <3>1. joined => s.seq = client.nxt /\ InStep(Tail(toClient), Behind(s))
      BY <1>1, <1>2, <2>1, <2>3, InStepTail DEF Expected
    <3> QED BY <3>1 DEF Behind
  <2>5. ~broken'
    BY <1>2, <2>1, <2>4
  <2>6. Expected'
    <3>1. \A i \in DOMAIN toClient' : i + 1 \in DOMAIN toClient /\ toClient'[i] = toClient[i + 1]
      BY <1>1, <2>1, TakenFacts
    <3>2. ASSUME joined, NEW i \in DOMAIN toClient', Payload(toClient'[i]) PROVE toClient'[i].isn = client.isn
      BY <1>2, <2>3, <3>1, <3>2 DEF Expected
    <3> QED BY <2>1, <2>2, <2>3, <2>4, <3>2 DEF Expected
  <2>7. OneAck' /\ (Unheard' <=> Unheard)
    BY <1>2, <2>1, <2>2, <2>3 DEF OneAck, Unheard
  <2>8. Carried'
    <3>1. ASSUME joined, Live(conn)
          PROVE  /\ Streams(Tail(toClient), nxt, conn, read, got + s.len) /\ (~Unheard => conn.win = client.win)
                 /\ conn.isn = client.isn
      <4>1. /\ Streams(toClient, client.nxt, conn, read, got) /\ (~Unheard => conn.win = client.win)
            /\ conn.isn = client.isn
        BY <1>2, <2>3, <3>1 DEF Carried
      <4>2. Streams(Tail(toClient), Behind(s), conn, read, got + s.len)
        BY <1>1, <2>1, <4>1, StreamsTail
      <4> QED BY <2>4, <3>1, <4>1, <4>2
    <3> HIDE DEF nxt, s
    <3> QED BY <2>1, <2>2, <2>3, <2>7, <3>1 DEF Carried
  <2>9. Refused'
    BY <2>2 DEF Refused
  <2> QED BY <1>13, <2>1, <2>5, <2>6, <2>7, <2>8, <2>9 DEF UpInv
<1>16. CASE ClientReset
  <2>1. /\ toClient # << >> /\ toClient' = Tail(toClient) /\ Head(toClient).type = "rst"
        /\ client' = (IF Head(toClient).isn = client.isn THEN Left ELSE client)
        /\ UNCHANGED <<conn, read, got, toNat, joined, broken>>
    BY <1>16 DEF ClientReset
  <2>2. /\ Head(toClient) = toClient[1] /\ 1 \in DOMAIN toClient
        /\ \A i \in DOMAIN toClient' : i + 1 \in DOMAIN toClient /\ toClient'[i] = toClient[i + 1]
    BY <1>1, <2>1, TakenFacts
  <2>3. joined /\ Live(conn) => client.state # "open"
    <3>1. ASSUME Up, Live(conn) PROVE FALSE
      <4>1. \A i \in DOMAIN toClient : Payload(toClient[i])
        BY <1>2, <3>1 DEF Carried, Streams, Leads
      <4> QED BY <2>1, <2>2, <4>1 DEF Payload
    <3> QED BY <3>1 DEF Up
  <2>4. client' = client \/ client'.state = "idle"
    BY <1>1, <2>1, LeftBlank
  <2>5. Refused'
    <3>1. Unheard' <=> Unheard
      BY <2>1 DEF Unheard
    <3> QED BY <1>2, <2>1, <2>3, <2>4, <3>1 DEF Refused
  <2>6. ~(Up' /\ Live(conn'))
    BY <2>1, <2>3, <2>4 DEF Up
  <2>7. Carried'
    BY <2>6 DEF Carried
  <2>8. ASSUME Up' PROVE client' = client /\ Up
    BY <2>1, <2>4, <2>8 DEF Up
  <2>9. OneAck'
    BY <1>2, <2>1, <2>8 DEF OneAck
  <2>10. Expected'
    <3> SUFFICES ASSUME Up' PROVE Expected'
      BY DEF Expected
    <3>1. client' = client /\ Up /\ client'.nxt = client.nxt
      BY <2>8
    <3>2. ASSUME NEW i \in DOMAIN toClient' PROVE ~Payload(toClient'[i])
      <4>1. i + 1 \in DOMAIN toClient /\ toClient'[i] = toClient[i + 1] /\ i \in Nat \ {0}
        BY <1>1, <2>1, TakenFacts
      <4>2. InStep(toClient, client.nxt) /\ ~Payload(toClient[1])
        BY <1>2, <2>1, <2>2, <3>1 DEF Expected, Payload
      <4>3. ~Payload(toClient[i + 1])
        BY <1>1, <2>1, <4>1, <4>2, NothingBehind
      <4> QED BY <4>1, <4>3
    <3> QED BY <3>2 DEF Expected, InStep
  <2> QED BY <1>2, <1>13, <2>1, <2>5, <2>7, <2>9, <2>10 DEF UpInv
<1>17. CASE ClientRefuses
  <2>1. /\ toClient # << >> /\ toClient' = Tail(toClient) /\ UNCHANGED <<conn, client, read, got, broken, joined>>
        /\ Head(toClient).type # "rst" /\ ~Accepts(Head(toClient))
        /\ Reply(IF client.state = "open" THEN "ack" ELSE "rst", client)
    BY <1>17 DEF ClientRefuses
  <2>2. CASE ~joined
    BY <1>2, <2>1, <2>2, NotJoined
  <2>3. CASE joined
    <3>0. Head(toClient) = toClient[1] /\ 1 \in DOMAIN toClient /\ Head(toClient) \in ToClient
      BY <1>1, <2>1, TakenFacts
    <3>1. Payload(Head(toClient))
      <4>1. Head(toClient).type # "synack"
        BY <1>2, <2>3, <3>0 DEF NoSynack
      <4> QED BY <2>1, <3>0, <4>1 DEF ToClient, Payload
    <3>2. client.state # "open"
      <4>1. ASSUME client.state = "open" PROVE Accepts(Head(toClient))
        <5>1. Head(toClient).isn = client.isn
          BY <1>2, <2>3, <3>0, <3>1, <4>1 DEF Expected, Up
        <5> QED BY <3>1, <4>1, <5>1 DEF Accepts, Payload
      <4> QED BY <2>1, <4>1
    <3>3. Unheard' => Unheard
      <4>1. Reply("rst", client)
        BY <2>1, <3>2
      <4> QED BY <1>1, <4>1, RepliedNoAck
    <3>4. Refused'
      BY <1>2, <2>1, <3>3 DEF Refused
    <3>5. ~Up'
      BY <2>1, <3>2 DEF Up
    <3> QED BY <1>2, <1>13, <2>1, <3>4, <3>5 DEF UpInv, Expected, OneAck, Carried
  <2> QED BY <2>2, <2>3
<1>18. CASE ClientFin \/ \E win \in Windows : ClientAck(win)
  <2>1. /\ client.state = "open" /\ toNat = << >> /\ (Reply("ack", client') \/ Reply("fin", client'))
        /\ UNCHANGED <<conn, toClient, read, got, broken, joined>>
    BY <1>18 DEF ClientFin, ClientAck
  <2>2. /\ client' \in Client /\ client'.state = "open" /\ client'.nxt = client.nxt /\ client'.acked = client.nxt
        /\ client'.isn = client.isn
    <3>1. client \in Client
      BY <1>1
    <3>2. CASE ClientFin
      <4>1. client' = [client EXCEPT !.finSent = TRUE, !.acked = client.nxt]
        BY <3>2 DEF ClientFin
      <4> QED BY <2>1, <3>1, <4>1 DEF Client
    <3>3. CASE \E win \in Windows : ClientAck(win)
      <4>1. PICK win \in Windows : client' = [client EXCEPT !.acked = client.nxt, !.win = win]
        BY <3>3 DEF ClientAck
      <4> QED BY <2>1, <3>1, <4>1 DEF Client
    <3> QED BY <1>18, <3>2, <3>3
  <2>3. \A i \in DOMAIN toNat : ~IsAck(toNat[i])
    BY <2>1
  <2>4. Unheard' /\ OneAck'
    BY <1>1, <2>1, <2>2, <2>3, Replied
  <2>5. Up' <=> Up
    BY <2>1, <2>2 DEF Up
  <2>6. NoSynack' /\ Expected' /\ Carried' /\ Refused'
    BY <1>2, <2>1, <2>2, <2>4, <2>5 DEF NoSynack, Expected, Carried, Refused
  <2> QED BY <1>2, <2>1, <2>4, <2>6 DEF UpInv
<1>19. CASE ClientRst \/ ClientDone
  <2>1. /\ toNat = << >> /\ client' = Left /\ (Reply("rst", client) \/ toNat' = toNat)
        /\ UNCHANGED <<conn, toClient, broken, joined>>
    BY <1>19 DEF ClientRst, ClientDone
  <2>2. client' \in Client /\ client'.state = "idle"
    BY <1>1, <2>1, LeftBlank
  <2>3. ~Unheard
    BY <2>1 DEF Unheard
  <2>4. Unheard' => Unheard
    <3>1. CASE Reply("rst", client)
      BY <1>1, <3>1, RepliedNoAck
    <3>2. CASE toNat' = toNat
      BY <3>2 DEF Unheard
    <3> QED BY <2>1, <3>1, <3>2
  <2> QED BY <1>0, <2>1, <2>2, <2>3, <2>4
<1>20. CASE ClientSyn
  <2>1. Reply("syn", client') /\ toClient' = toClient /\ UNCHANGED <<conn, joined, broken>>
    BY <1>20 DEF ClientSyn
  <2>2. client' \in Client /\ client'.state = "syn" /\ client.state # "open"
    BY <1>1, <1>20, SynFacts
  <2>3. Unheard' => Unheard
    BY <1>1, <2>1, <2>2, RepliedNoAck
  <2> QED BY <1>0, <2>1, <2>2, <2>3
<1> QED
  BY <1>1, <1>3, <1>4, <1>9, <1>10, <1>11, <1>12, <1>14, <1>15, <1>16, <1>17, <1>18, <1>19, <1>20, StepKinds

\* An entry that has sent FIN has read and sent all, and the client has it before the FIN.
LEMMA EndPushing ==
  ASSUME ConnInv, DataInv, UpInv, UpInv', EndInv, NEW c, Pushing(c) PROVE EndInv'
<1>1. QueueTypes /\ toClient \in Seq(ToClient) /\ conn \in Conn
  BY DEF ConnInv, DataInv, QueueTypes, EntryTypes
<1>2. /\ Live(conn) /\ client' = client /\ joined' = joined /\ c.finSent = conn.finSent
  BY <1>1, PushingFacts DEF clientVars
<1>3. PICK o \in Seq(ToClient) : toClient' = toClient \o o /\ Pushed(c, conn', o)
  BY <1>1, PushingFacts
<1>4. SUFFICES ASSUME Up' PROVE EndInv'
  BY DEF EndInv, FinWhole, FinEnds
<1>5. Up
  BY <1>2, <1>4 DEF Up
<1>6. AnyFin => conn.finSent
  BY <1>2, <1>5 DEF EndInv, FinWhole, Live
<1>7. c.finSent => conn'.finSent /\ toClient' = toClient
  <2>1. c.finSent => conn'.finSent /\ o = << >>
    BY <1>3 DEF Pushed
  <2>2. o = << >> => toClient \o o = toClient
    BY <1>1
  <2> QED BY <1>3, <2>1, <2>2
<1>8. FinWhole'
  <2>1. ASSUME AnyFin' PROVE conn'.finSent
    <3>1. CASE AnyFin
      BY <1>2, <1>6, <1>7, <3>1
    <3>2. CASE ~AnyFin
      <4>1. PICK i \in DOMAIN toClient' : toClient'[i].type = "fin"
        BY <1>2, <2>1, <3>2 DEF AnyFin
      <4>2. i \notin 1 .. Len(toClient)
        <5>1. \A j \in 1 .. Len(toClient) : j \in DOMAIN toClient /\ toClient'[j] = toClient[j]
          BY <1>1, <1>3
        <5> QED BY <3>2, <4>1, <5>1 DEF AnyFin
      <4>3. i - Len(toClient) \in DOMAIN o /\ toClient'[i] = o[i - Len(toClient)]
        BY <1>1, <1>3, <4>2
      <4> QED BY <1>3, <4>1, <4>3 DEF Pushed
    <3> QED BY <3>1, <3>2
  <2> QED BY <2>1 DEF FinWhole
<1>9. Streams(toClient', client'.nxt, conn', read', got')
  <2>1. Live(conn')
    BY <1>3 DEF Pushed
  <2> QED BY <1>4, <2>1 DEF UpInv, Carried
<1>10. ASSUME client'.fin PROVE \A i \in DOMAIN toClient' : toClient'[i].len = 0
  <2>1. client.fin /\ AnyFin
    BY <1>2, <1>10 DEF AnyFin
  <2>2. toClient' = toClient
    BY <1>2, <1>6, <1>7, <2>1
  <2> QED BY <1>5, <2>1, <2>2 DEF EndInv, FinEnds
<1>11. FinEnds'
  <2>1. FinLast(toClient') /\ \A i \in DOMAIN toClient' : toClient'[i].type # "rst"
    BY <1>9 DEF Streams, Leads, Payload
  <2> QED BY <1>10, <2>1 DEF FinEnds
<1> QED BY <1>8, <1>11 DEF EndInv

LEMMA EndStep == ASSUME ConnInv, DataInv, SynInv, UpInv, UpInv', EndInv, Next PROVE EndInv'
<1>1. /\ QueueTypes /\ toClient \in Seq(ToClient) /\ toNat \in Seq(ToNat) /\ conn \in Conn
      /\ client \in Client /\ read \in Nat /\ got \in Nat /\ syns \in 0 .. MaxSyns
      /\ conn.isn \in 0 .. MaxSyns /\ conn.seq \in 0 .. W - 1
  BY DEF ConnInv, DataInv, QueueTypes, EntryTypes, ClientTypes, Client, Conn
<1>2. FinWhole /\ FinEnds
  BY DEF EndInv
<1>3. ASSUME NEW c, Pushing(c) PROVE EndInv'
  BY <1>3, EndPushing
<1>4. ASSUME ~Up' PROVE EndInv'
  BY <1>4 DEF EndInv, FinWhole, FinEnds
<1>5. ASSUME client' = client, joined' = joined, toClient' = toClient
      PROVE  FinEnds' /\ (Up' <=> Up) /\ (AnyFin' <=> AnyFin)
  BY <1>2, <1>5 DEF FinEnds, Up, AnyFin
<1>6. ASSUME NEW s \in ToClient, toClient' = toClient \o <<s>>, s.type = "rst", s.len = 0,
             client' = client, joined' = joined
      PROVE  FinEnds' /\ (Up' <=> Up) /\ (AnyFin' <=> AnyFin) /\ Bytes(toClient') = Bytes(toClient)
  <2> DEFINE n == Len(toClient)
             o == <<s>>
  <2>1. /\ DOMAIN toClient' = 1 .. n + 1 /\ toClient'[n + 1] = s /\ n \in Nat /\ DOMAIN toClient = 1 .. n
        /\ \A i \in 1 .. n : toClient'[i] = toClient[i]
    BY <1>1, <1>6
  <2>2. o \in Seq(ToClient) /\ FinLast(o) /\ \A i \in DOMAIN o : o[i].len = 0
    BY <1>6 DEF FinLast
  <2>3. Bytes(toClient') = Bytes(toClient)
    <3>1. Bytes(o) = 0 /\ Bytes(toClient) \in Nat /\ Bytes(toClient \o o) = Bytes(toClient) + Bytes(o)
      BY <1>1, <2>2, BytesNone, BytesConcat
    <3> HIDE DEF o
    <3> QED BY <1>6, <3>1 DEF o
  <2>4. ASSUME Up PROVE FinLast(toClient')
    <3>1. FinLast(toClient)
      BY <1>2, <2>4 DEF FinEnds
    <3>2. FinLast(toClient \o o)
      BY <1>1, <2>2, <3>1, FinLastConcat
    <3> QED BY <1>6, <3>2
  <2> HIDE DEF n, o
  <2>5. (Up' <=> Up) /\ (AnyFin' <=> AnyFin)
    BY <1>6, <2>1 DEF Up, AnyFin
  <2>6. FinEnds'
    BY <1>2, <1>6, <2>1, <2>4, <2>5 DEF FinEnds
  <2> QED BY <2>3, <2>5, <2>6
<1>7. ASSUME AnyFin' => AnyFin, Up' => Up, conn' = conn, read' = read, got' = got, Bytes(toClient') = Bytes(toClient)
      PROVE  FinWhole'
  BY <1>2, <1>7 DEF FinWhole
<1>8. CASE HandleSyn \/ Connected
  <2>1. ~joined'
    <3>1. CASE HandleSyn
      BY <3>1 DEF HandleSyn
    <3>2. CASE Connected
      BY <3>2, ConnectedFacts DEF Connected
    <3> QED BY <1>8, <3>1, <3>2
  <2> QED BY <1>4, <2>1 DEF Up
<1>9. CASE HandleRst \/ LingerFires \/ Sweep
  <2>1. client' = client /\ joined' = joined /\ toClient' = toClient /\ UNCHANGED <<read, got>>
    BY <1>9 DEF HandleRst, LingerFires, Sweep, clientVars
  <2>2. conn'.state = "CLOSED" /\ (conn' = conn \/ conn' = NoConn)
    BY <1>9, NoConnType DEF HandleRst, LingerFires, Sweep, CloseConnection
  <2>3. ASSUME Up, AnyFin PROVE got + Bytes(toClient) = read
    <3>1. CASE conn.finSent
      <4>1. Live(conn) /\ conn.backlog = 0
        BY <3>1 DEF ConnInv, EntryInv, Live
      <4>2. read = got + Bytes(toClient) + 0
        BY <2>3, <4>1 DEF UpInv, Carried, Streams
      <4>3. Bytes(toClient) \in Nat
        BY <1>1, BytesConcat
      <4> HIDE DEF Bytes
      <4> QED BY <1>1, <4>2, <4>3
    <3>2. CASE ~conn.finSent
      BY <1>2, <2>3, <3>2 DEF FinWhole
    <3> QED BY <3>1, <3>2
  <2>4. FinEnds' /\ (Up' <=> Up) /\ (AnyFin' <=> AnyFin)
    BY <1>5, <2>1
  <2>5. FinWhole'
    BY <2>1, <2>2, <2>3, <2>4 DEF FinWhole
  <2> QED BY <2>4, <2>5 DEF EndInv
<1>10. CASE DropSyn \/ (HandleAck /\ ~Live(conn))
  <2>1. client' = client /\ joined' = joined /\ toClient' = toClient /\ UNCHANGED <<conn, read, got>>
    BY <1>10 DEF DropSyn, HandleAck, clientVars
  <2> QED BY <1>5, <1>7, <2>1 DEF EndInv
<1>11. CASE Unknown
  <2> DEFINE s == Segment(Head(toNat).isn, "rst", 0, 0)
  <2>1. /\ client' = client /\ joined' = joined /\ toClient' = toClient \o <<s>>
        /\ UNCHANGED <<conn, read, got>> /\ toNat # << >>
    BY <1>11 DEF Unknown, Take, Send, clientVars
  <2>2. s \in ToClient /\ s.type = "rst" /\ s.len = 0
    <3>1. Head(toNat) \in ToNat
      BY <1>1, <2>1, TakenFacts
    <3>2. Head(toNat).isn \in 0 .. MaxSyns
      BY <3>1, Isns
    <3> QED BY <3>2, SegmentType, Constants
  <2> HIDE DEF s
  <2>3. FinEnds' /\ (Up' <=> Up) /\ (AnyFin' <=> AnyFin) /\ Bytes(toClient') = Bytes(toClient)
    BY <1>6, <2>1, <2>2
  <2> QED BY <1>7, <2>1, <2>3 DEF EndInv
<1>12. CASE Close \/ Timeout \/ Error
  <2>1. client' = client /\ joined' = joined /\ UNCHANGED <<read, got>> /\ LingerOrClose /\ sock # "none"
    BY <1>12 DEF Close, Timeout, Error, clientVars
  <2>2. FinEnds' /\ (Up' <=> Up) /\ (AnyFin' <=> AnyFin)
    <3>1. CASE Error /\ ~conn.finSent
      <4> DEFINE s == Segment(conn.isn, "rst", conn.seq, 0)
      <4>1. toClient' = toClient \o <<s>>
        BY <3>1 DEF Error, Send
      <4>2. s \in ToClient /\ s.type = "rst" /\ s.len = 0
        BY <1>1, SegmentType, Constants
      <4> HIDE DEF s
      <4> QED BY <1>6, <2>1, <4>1, <4>2
    <3>2. CASE ~(Error /\ ~conn.finSent)
      <4>1. toClient' = toClient \/ toClient' = toClient \o << >>
        BY <1>12, <3>2 DEF Close, Timeout, Error, Send
      <4>2. toClient' = toClient
        BY <1>1, <4>1
      <4> QED BY <1>5, <2>1, <4>2
    <3> QED BY <3>1, <3>2
  <2>3. conn.state # "CLOSED"
    BY <2>1 DEF ConnInv, EntryInv
  <2>4. conn.finSent => conn'.finSent
    <3>1. conn.finSent => conn' = [conn EXCEPT !.linger = TRUE]
      BY <2>1 DEF LingerOrClose
    <3> QED BY <1>1, <3>1 DEF Conn
  <2>5. FinWhole'
    BY <1>2, <2>2, <2>3, <2>4 DEF FinWhole
  <2> QED BY <2>2, <2>5 DEF EndInv
<1>13. CASE ClientEstablished
  <2>1. client.state = "syn" /\ conn' = conn /\ (joined' => Live(conn))
    BY <1>13 DEF ClientEstablished, Accepts
  <2>2. client'.fin = client.fin /\ ~client.fin
    <3>1. ~client.fin
      BY <2>1 DEF SynInv
    <3> QED BY <1>1, <1>13, <3>1 DEF ClientEstablished, Client
  <2>3. ASSUME Up' PROVE EndInv'
    <3>1. Live(conn') /\ Live(conn)
      BY <2>1, <2>3 DEF Up
    <3>2. Streams(toClient', client'.nxt, conn', read', got')
      BY <2>3, <3>1 DEF UpInv, Carried
    <3>3. FinEnds'
      <4>1. FinLast(toClient') /\ \A i \in DOMAIN toClient' : toClient'[i].type # "rst"
        BY <3>2 DEF Streams, Leads, Payload
      <4> QED BY <2>2, <4>1 DEF FinEnds
    <3>4. FinWhole'
      <4>1. CASE conn.state = "ESTABLISHED"
        <5>1. \A i \in DOMAIN toClient' : toClient'[i].type # "fin"
          BY <2>1, <3>2, <4>1 DEF Streams
        <5> QED BY <2>2, <5>1 DEF FinWhole, AnyFin
      <4>2. CASE conn.state # "ESTABLISHED"
        <5>1. conn.finSent
          BY <3>1, <4>2 DEF Live, ConnInv, EntryInv
        <5> QED BY <2>1, <5>1 DEF FinWhole
      <4> QED BY <4>1, <4>2
    <3> QED BY <3>3, <3>4 DEF EndInv
  <2> QED BY <1>4, <2>3
<1>14. ASSUME toClient # << >>, toClient' = Tail(toClient)
      PROVE  /\ Head(toClient) = toClient[1] /\ 1 \in DOMAIN toClient /\ Head(toClient) \in ToClient
             /\ \A i \in DOMAIN toClient' : i + 1 \in DOMAIN toClient /\ toClient'[i] = toClient[i + 1]
             /\ Bytes(toClient) = Head(toClient).len + Bytes(toClient') /\ Bytes(toClient') \in Nat
             /\ Head(toClient).len \in Nat
             /\ FinLast(toClient) =>
                  FinLast(toClient') /\ (Head(toClient).type = "fin" => \A i \in DOMAIN toClient' : toClient'[i].len = 0)
  <2>1. Head(toClient) \in ToClient /\ Bytes(toClient) = Head(toClient).len + Bytes(toClient') /\ Bytes(toClient') \in Nat
    BY <1>1, <1>14, BytesTail
  <2>2. Head(toClient).len \in Nat
    BY <2>1, Lengths
  <2> QED BY <1>1, <1>14, <2>1, <2>2, TakenFacts, FinLastTail
<1>15. CASE ClientReceives
  <2> DEFINE s == Head(toClient)
  <2>1. /\ toClient # << >> /\ toClient' = Tail(toClient) /\ client.state = "open" /\ got' = got + s.len
        /\ UNCHANGED <<conn, read, joined>>
    BY <1>15 DEF ClientReceives, Accepts
  <2>2. client'.fin = (client.fin \/ s.type = "fin")
    BY <1>1, <1>15 DEF ClientReceives, Client
  <2>3. Up' => Up
    BY <2>1 DEF Up
  <2>4. AnyFin' => AnyFin
    BY <1>14, <2>1, <2>2 DEF AnyFin
  <2>5. got' + Bytes(toClient') = got + Bytes(toClient)
    <3> DEFINE a == Bytes(toClient)
               b == Bytes(toClient')
               l == s.len
    <3>1. a = l + b /\ b \in Nat /\ l \in Nat /\ got' = got + l
      BY <1>14, <2>1
    <3> HIDE DEF a, b, l
    <3>2. got' + b = got + a
      BY <1>1, <3>1
    <3> QED BY <3>2 DEF a, b
  <2>6. FinWhole'
    BY <1>2, <2>1, <2>3, <2>4, <2>5 DEF FinWhole
  <2>7. ASSUME Up' PROVE FinEnds'
    <3>1. /\ FinLast(toClient) /\ (client.fin => \A i \in DOMAIN toClient : toClient[i].len = 0)
          /\ \A i \in DOMAIN toClient : toClient[i].type = "rst" => toClient[i].len = 0
      BY <1>2, <2>3, <2>7 DEF FinEnds
    <3>2. FinLast(toClient') /\ (s.type = "fin" => \A i \in DOMAIN toClient' : toClient'[i].len = 0)
      BY <1>14, <2>1, <3>1
    <3>3. \A i \in DOMAIN toClient' : i + 1 \in DOMAIN toClient /\ toClient'[i] = toClient[i + 1]
      BY <1>14, <2>1
    <3> HIDE DEF s
    <3> QED BY <2>2, <3>1, <3>2, <3>3 DEF FinEnds
  <2> QED BY <2>6, <2>7 DEF EndInv, FinEnds
<1>16. CASE ClientReset
  <2>1. /\ toClient # << >> /\ toClient' = Tail(toClient) /\ Head(toClient).type = "rst"
        /\ client' = (IF Head(toClient).isn = client.isn THEN Left ELSE client)
        /\ UNCHANGED <<conn, read, got, joined>>
    BY <1>16 DEF ClientReset
  <2>2. SUFFICES ASSUME Up' PROVE EndInv'
    BY <1>4
  <2>3. client' = client /\ Up
    BY <1>1, <2>1, <2>2, LeftBlank DEF Up
  <2>4. /\ FinLast(toClient) /\ (client.fin => \A i \in DOMAIN toClient : toClient[i].len = 0)
        /\ \A i \in DOMAIN toClient : toClient[i].type = "rst" => toClient[i].len = 0
    BY <1>2, <2>3 DEF FinEnds
  <2>5. \A i \in DOMAIN toClient' : i + 1 \in DOMAIN toClient /\ toClient'[i] = toClient[i + 1]
    BY <1>14, <2>1
  <2>6. FinEnds'
    <3>1. FinLast(toClient')
      BY <1>14, <2>1, <2>4
    <3> QED BY <2>3, <2>4, <2>5, <3>1 DEF FinEnds
  <2>7. Bytes(toClient') = Bytes(toClient)
    <3>1. Head(toClient).len = 0
      BY <1>14, <2>1, <2>4
    <3> QED BY <1>14, <2>1, <3>1
  <2>8. AnyFin' => AnyFin
    BY <2>3, <2>5 DEF AnyFin
  <2> QED BY <1>7, <2>1, <2>3, <2>6, <2>7, <2>8 DEF EndInv
<1>17. CASE ClientRefuses
  <2>1. /\ toClient # << >> /\ toClient' = Tail(toClient) /\ UNCHANGED <<conn, client, read, got, joined>>
        /\ Head(toClient).type # "rst" /\ ~Accepts(Head(toClient))
    BY <1>17 DEF ClientRefuses
  <2>2. ASSUME Up PROVE FALSE
    <3>1. Payload(Head(toClient))
      <4>1. Head(toClient).type # "synack"
        BY <1>14, <2>1, <2>2 DEF UpInv, NoSynack, Up
      <4>2. Head(toClient) \in ToClient
        BY <1>14, <2>1
      <4> QED BY <2>1, <4>1, <4>2 DEF ToClient, Payload
    <3>2. Head(toClient).isn = client.isn
      BY <1>14, <2>1, <2>2, <3>1 DEF UpInv, Expected
    <3> QED BY <2>1, <2>2, <3>1, <3>2 DEF Accepts, Payload, Up
  <2>3. ~Up'
    BY <2>1, <2>2 DEF Up
  <2> QED BY <1>4, <2>3
<1>18. CASE ClientFin \/ \E win \in Windows : ClientAck(win)
  <2>1. UNCHANGED <<conn, toClient, read, got, joined>> /\ client.state = "open"
    BY <1>18 DEF ClientFin, ClientAck
  <2>2. client'.fin = client.fin
    BY <1>1, <1>18 DEF ClientFin, ClientAck, Client
  <2>3. (Up' => Up) /\ (AnyFin' => AnyFin)
    BY <2>1, <2>2 DEF Up, AnyFin
  <2>4. FinEnds'
    BY <1>2, <2>1, <2>2, <2>3 DEF FinEnds
  <2> QED BY <1>7, <2>1, <2>3, <2>4 DEF EndInv
<1>19. CASE ClientRst \/ ClientDone \/ ClientSyn
  <2>1. client'.state # "open"
    <3>1. CASE ClientRst \/ ClientDone
      BY <1>1, <3>1, LeftBlank DEF ClientRst, ClientDone
    <3>2. CASE ClientSyn
      BY <1>1, <3>2, SynFacts
    <3> QED BY <1>19, <3>1, <3>2
  <2> QED BY <1>4, <2>1 DEF Up
<1> QED
  BY <1>1, <1>3, <1>8, <1>9, <1>10, <1>11, <1>12, <1>13, <1>15, <1>16, <1>17, <1>18, <1>19, StepKinds

-----------------------------------------------------------------------------
(* The counting. *)

\* More segments hold more bytes.
LEMMA MoreHoldMore == ASSUME NEW a \in Nat, NEW b \in Nat, a <= b PROVE a * MSS <= b * MSS
<1> DEFINE d == b - a
<1>1. d \in Nat /\ b = a + d /\ MSS \in Nat
  BY Constants
<1> HIDE DEF d
<1>2. (a + d) * MSS = a * MSS + d * MSS
  BY <1>1
<1>3. d * MSS \in Nat /\ a * MSS \in Nat
  BY <1>1
<1>4. b * MSS = a * MSS + d * MSS
  BY <1>1, <1>2
<1> QED BY <1>3, <1>4

\* A flush counts each segment.
LEMMA CountingPushed ==
  ASSUME NEW c \in Conn, NEW e \in Conn, NEW d, NEW q \in Seq(ToClient), NEW o \in Seq(ToClient), NEW u,
         NEW k \in Nat, NEW l \in Nat, NEW m \in Nat, NEW n \in Nat,
         Counting(c, d, q, u, k, l, m, n), Pushed(c, e, o), e.state = "ESTABLISHED"
  PROVE  Counting(e, d, q \o o, u, k, l, m, n)
<1>1. /\ (d.acked + l) % W = d.nxt /\ l <= n * MSS /\ k <= m * MSS /\ (~u => k = 0)
      /\ c.ack = -1 => k = 0 /\ m = 0 /\ u
      /\ c.ack # -1 => (c.ack + k) % W = d.acked
      /\ m + n + Len(q) <= c.pend /\ Full(q, c)
      /\ ~c.short => k = m * MSS /\ l = n * MSS /\ m + n + Len(q) = c.pend
  BY DEF Counting
<1>2. e.ack = c.ack /\ e.pend = c.pend + Len(o) /\ (~e.short => ~c.short /\ \A i \in DOMAIN o : o[i].len = MSS)
  BY DEF Pushed
<1>3. Full(q \o o, e)
  BY <1>1, <1>2, FullConcat
<1> DEFINE x == Len(q)
           y == Len(o)
           z == Len(q \o o)
<1>4. x \in Nat /\ y \in Nat /\ z = x + y /\ c.pend \in Nat
  <2>1. x \in Nat /\ y \in Nat /\ z = x + y
    OBVIOUS
  <2>2. c.pend \in Nat
    BY Constants DEF Conn
  <2> QED BY <2>1, <2>2
<1>5. e.pend = c.pend + y /\ m + n + x <= c.pend /\ (~c.short => m + n + x = c.pend)
  BY <1>1, <1>2
<1> HIDE DEF x, y, z
<1>6. m + n + z <= e.pend /\ (~c.short => m + n + z = e.pend)
  BY <1>4, <1>5
<1> QED BY <1>1, <1>2, <1>3, <1>6 DEF Counting, z

\* How much the count falls with an ACK of k bytes that were sent in at most m segments.
LEMMA ReleasedFacts ==
  ASSUME NEW b \in Conn, NEW k \in Nat \ {0}, NEW m \in Nat, k <= m * MSS, m <= b.pend
  PROVE  Released(b, k) \in Nat /\ Released(b, k) <= m /\ (k = m * MSS => Released(b, k) = m)
<1> DEFINE q == CeilDiv(k, MSS)
<1>1. q \in Nat /\ q * MSS >= k /\ q > 0 /\ (q - 1) * MSS < k
  BY CeilFacts
<1>2. Released(b, k) = Min2(b.pend, Max2(1, q))
  BY DEF Released
<1>3. b.pend \in Nat /\ MSS \in Nat \ {0}
  BY Constants DEF Conn
<1> HIDE DEF q
<1>4. q <= m
  <2>1. ASSUME q - 1 >= m PROVE (q - 1) * MSS >= m * MSS
    BY <1>1, <1>3, <2>1
  <2>2. (q - 1) * MSS \in Int /\ m * MSS \in Int
    BY <1>1, <1>3
  <2> QED BY <1>1, <2>1, <2>2
<1>5. ASSUME k = m * MSS PROVE q = m
  <2>1. ASSUME q <= m - 1 PROVE q * MSS <= (m - 1) * MSS
    BY <1>1, <1>3, <2>1
  <2>2. (m - 1) * MSS = m * MSS - MSS /\ q * MSS \in Int /\ m * MSS \in Int
    BY <1>1, <1>3
  <2> QED BY <1>1, <1>3, <1>4, <1>5, <2>1, <2>2
<1>6. Released(b, k) = q
  BY <1>1, <1>2, <1>3, <1>4 DEF Min2, Max2
<1> QED BY <1>1, <1>4, <1>5, <1>6

\* The exit hears the ACK that is under way.
LEMMA CountingHeard ==
  ASSUME NEW b \in Conn, NEW c, NEW s \in ToNat, c = Acknowledged(b, s), NEW d \in Client, s.ack = d.acked,
         NEW q \in Seq(ToClient), NEW u, NEW k \in Nat, NEW l \in Nat, NEW m \in Nat, NEW n \in Nat,
         Counting(b, d, q, u, k, l, m, n)
  PROVE  Counting(c, d, q, FALSE, 0, l, 0, n)
<1>1. /\ (d.acked + l) % W = d.nxt /\ l <= n * MSS /\ k <= m * MSS
      /\ b.ack = -1 => k = 0 /\ m = 0
      /\ b.ack # -1 => (b.ack + k) % W = d.acked
      /\ m + n + Len(q) <= b.pend /\ Full(q, b)
      /\ ~b.short => k = m * MSS /\ l = n * MSS /\ m + n + Len(q) = b.pend
  BY DEF Counting
<1>2. c \in Conn /\ c.short = b.short
  BY AckFacts
<1>3. /\ b.pend \in Nat /\ b.pend <= TcpMaxPending /\ b.ack \in -1 .. W - 1 /\ d.acked \in 0 .. W - 1
      /\ c.pend \in Nat /\ Len(q) \in Nat /\ MSS \in Nat \ {0} /\ TcpMaxPending \in Nat /\ W \in Nat
  BY <1>2, Constants DEF Conn, Client
<1>4. c.ack = d.acked /\ c.pend >= b.pend - m /\ (k = m * MSS => c.pend = b.pend - m)
  <2>1. CASE b.ack = -1
    <3>1. c.ack = s.ack /\ c.pend = b.pend
      BY <2>1, AckFacts
    <3> QED BY <1>1, <1>3, <2>1, <3>1
  <2>2. CASE b.ack # -1
    <3>1. b.ack \in 0 .. W - 1
      BY <1>3, <2>2
    <3>2. k <= TcpMaxPending * MSS
      <4>1. m <= TcpMaxPending
        <5> DEFINE x == Len(q)
        <5>1. x \in Nat /\ m + n + x <= b.pend
          BY <1>1, <1>3
        <5> HIDE DEF x
        <5> QED BY <1>3, <5>1
      <4>2. m * MSS <= TcpMaxPending * MSS
        BY <1>3, <4>1, MoreHoldMore
      <4>3. m * MSS \in Nat /\ TcpMaxPending * MSS \in Nat
        BY <1>3
      <4> QED BY <1>1, <4>2, <4>3
    <3>3. k \in 0 .. W - 1 /\ k < W \div 2
      BY <3>2, Modulus
    <3>4. (s.ack - b.ack) % W = k
      BY <1>1, <2>2, <3>1, <3>3, Distance
    <3>5. CASE k = 0
      <4>1. c.ack = b.ack /\ c.pend = b.pend
        BY <2>2, <3>4, <3>5, AckFacts
      <4>2. b.ack = d.acked
        <5>1. b.ack + k = b.ack
          BY <1>3, <3>5
        <5> QED BY <1>1, <2>2, <3>1, <5>1, ModSmall
      <4>3. k = m * MSS => m = 0
        BY <1>3, <3>5
      <4> QED BY <1>3, <4>1, <4>2, <4>3
    <3>6. CASE k > 0
      <4>1. c.ack = s.ack /\ c.pend = b.pend - Released(b, k)
        BY <2>2, <3>3, <3>4, <3>6, AckFacts
      <4>2. m <= b.pend /\ k \in Nat \ {0}
        <5> DEFINE x == Len(q)
        <5>1. x \in Nat /\ m + n + x <= b.pend
          BY <1>1, <1>3
        <5> HIDE DEF x
        <5> QED BY <1>3, <3>6, <5>1
      <4>3. Released(b, k) \in Nat /\ Released(b, k) <= m /\ (k = m * MSS => Released(b, k) = m)
        BY <1>1, <4>2, ReleasedFacts
      <4> HIDE DEF Released
      <4> QED BY <1>3, <4>1, <4>3
    <3> QED BY <3>5, <3>6
  <2> QED BY <2>1, <2>2
<1>5. (c.ack + 0) % W = d.acked /\ c.ack # -1
  <2>1. c.ack \in 0 .. W - 1 /\ c.ack + 0 = c.ack /\ c.ack # -1
    BY <1>3, <1>4
  <2> QED BY <1>4, <2>1, ModSmall
<1>6. 0 + n + Len(q) <= c.pend /\ (~b.short => 0 + n + Len(q) = c.pend)
  <2> DEFINE x == Len(q)
  <2>1. x \in Nat /\ m + n + x <= b.pend /\ (~b.short => m + n + x = b.pend /\ c.pend = b.pend - m)
    BY <1>1, <1>3, <1>4
  <2>2. b.pend \in Nat /\ c.pend \in Nat /\ c.pend >= b.pend - m
    BY <1>3, <1>4
  <2> HIDE DEF x
  <2>3. 0 + n + x <= c.pend
    BY <2>1, <2>2
  <2>4. ~b.short => 0 + n + x = c.pend
    BY <2>1, <2>2
  <2> QED BY <2>3, <2>4 DEF x
<1>7. 0 = 0 * MSS /\ 0 <= 0 * MSS
  BY <1>3
<1>8. Full(q, c)
  BY <1>1, <1>2 DEF Full
<1> QED BY <1>1, <1>2, <1>5, <1>6, <1>7, <1>8 DEF Counting

\* The client receives a segment of data.
LEMMA CountingReceived ==
  ASSUME NEW c \in Conn, NEW d \in Client, NEW f, NEW q \in Seq(ToClient), q # << >>, NEW u,
         NEW k \in Nat, NEW l \in Nat, NEW m \in Nat, NEW n \in Nat, Counting(c, d, q, u, k, l, m, n),
         f.acked = d.acked, f.nxt = (d.nxt + Head(q).len) % W
  PROVE  Counting(c, f, Tail(q), u, k, l + Head(q).len, m, n + 1)
<1> DEFINE s == Head(q).len
<1>1. /\ (d.acked + l) % W = d.nxt /\ l <= n * MSS /\ k <= m * MSS /\ (~u => k = 0)
      /\ c.ack = -1 => k = 0 /\ m = 0 /\ u
      /\ c.ack # -1 => (c.ack + k) % W = d.acked
      /\ m + n + Len(q) <= c.pend /\ Full(q, c)
      /\ ~c.short => k = m * MSS /\ l = n * MSS /\ m + n + Len(q) = c.pend
  BY DEF Counting
<1>2. /\ Head(q) \in ToClient /\ Head(q) = q[1] /\ 1 \in DOMAIN q /\ Len(q) \in Nat /\ Len(Tail(q)) = Len(q) - 1
      /\ \A i \in DOMAIN Tail(q) : i + 1 \in DOMAIN q /\ Tail(q)[i] = q[i + 1]
  BY TakenFacts
<1>3. s \in Nat /\ s <= MSS /\ MSS \in Nat /\ c.pend \in Nat /\ d.acked \in Int
  <2>1. s \in Nat /\ s <= MSS
    BY <1>2, Lengths
  <2>2. c.pend \in Nat /\ MSS \in Nat
    BY Constants DEF Conn
  <2>3. d.acked \in Int
    BY Constants DEF Client
  <2> QED BY <2>1, <2>2, <2>3
<1>4. Full(Tail(q), c) /\ (~c.short => s = MSS)
  BY <1>1, <1>2 DEF Full
<1> HIDE DEF s
<1>5. (f.acked + (l + s)) % W = f.nxt
  <2>1. (((d.acked + l) % W) + s) % W = ((d.acked + l) + s) % W
    <3>1. d.acked + l \in Int /\ s \in Int
      BY <1>3
    <3> QED BY <3>1, ModAdd
  <2>2. (d.acked + l) + s = d.acked + (l + s)
    BY <1>3
  <2> QED BY <1>1, <2>1, <2>2 DEF s
<1>6. l + s <= (n + 1) * MSS /\ (~c.short => l + s = (n + 1) * MSS)
  <2>1. (n + 1) * MSS = n * MSS + MSS /\ n * MSS \in Nat
    BY <1>3
  <2> QED BY <1>1, <1>3, <1>4, <2>1
<1>7. m + (n + 1) + Len(Tail(q)) = m + n + Len(q)
  BY <1>2
<1> QED BY <1>1, <1>4, <1>5, <1>6, <1>7 DEF Counting, s

\* The client acknowledges all it has, when everything it has said has been heard.
LEMMA CountingSaid ==
  ASSUME NEW c \in Conn, NEW d \in Client, NEW f, NEW q \in Seq(ToClient),
         NEW k \in Nat, NEW l \in Nat, NEW m \in Nat, NEW n \in Nat, Counting(c, d, q, FALSE, k, l, m, n),
         f.acked = d.nxt, f.nxt = d.nxt
  PROVE  Counting(c, f, q, TRUE, l, 0, n, 0)
<1>1. /\ (d.acked + l) % W = d.nxt /\ l <= n * MSS /\ k = 0
      /\ c.ack # -1 /\ (c.ack + k) % W = d.acked
      /\ m + n + Len(q) <= c.pend /\ Full(q, c)
      /\ ~c.short => k = m * MSS /\ l = n * MSS /\ m + n + Len(q) = c.pend
  BY DEF Counting
<1>2. c.pend \in Nat /\ c.ack \in 0 .. W - 1 /\ d.nxt \in 0 .. W - 1 /\ MSS \in Nat \ {0} /\ Len(q) \in Nat
      /\ c.ack + 0 = c.ack /\ d.nxt + 0 = d.nxt
  <2>1. c.pend \in Nat /\ c.ack \in -1 .. W - 1 /\ d.nxt \in 0 .. W - 1 /\ W \in Nat /\ MSS \in Nat \ {0}
    BY Constants DEF Conn, Client
  <2>2. c.ack # -1 /\ Len(q) \in Nat
    BY <1>1
  <2> QED BY <2>1, <2>2
<1>3. c.ack = d.acked /\ (f.acked + 0) % W = f.nxt
  BY <1>1, <1>2, ModSmall
<1>4. (c.ack + l) % W = f.acked
  BY <1>1, <1>3
<1>5. n + 0 + Len(q) <= c.pend /\ (~c.short => n + 0 + Len(q) = c.pend)
  <2>1. ~c.short => m = 0
    BY <1>1, <1>2
  <2>2. m + n + Len(q) >= n + 0 + Len(q) /\ (m = 0 => m + n + Len(q) = n + 0 + Len(q))
    BY <1>2
  <2> QED BY <1>1, <1>2, <2>1, <2>2
<1>6. 0 = 0 * MSS /\ 0 <= 0 * MSS
  BY <1>2
<1> QED BY <1>1, <1>3, <1>4, <1>5, <1>6 DEF Counting

\* The count covers all that is unacknowledged, the segments under way included.
LEMMA CountingCovers ==
  ASSUME NEW c \in Conn, NEW d \in Client, NEW q \in Seq(ToClient), NEW u,
         NEW k \in Nat, NEW l \in Nat, NEW m \in Nat, NEW n \in Nat, Counting(c, d, q, u, k, l, m, n),
         (d.nxt + Bytes(q)) % W = c.seq
  PROVE  Covered(c)
<1> SUFFICES ASSUME c.ack # -1
             PROVE  \E j \in Nat : (c.ack + j) % W = c.seq /\ j <= c.pend * MSS
  BY DEF Covered
<1> DEFINE b == Bytes(q)
           z == Len(q)
<1>1. /\ (d.acked + l) % W = d.nxt /\ l <= n * MSS /\ k <= m * MSS
      /\ (c.ack + k) % W = d.acked /\ m + n + z <= c.pend
  BY DEF Counting
<1>2. c.pend \in Nat /\ c.ack \in Int /\ d.acked \in Int /\ d.nxt \in Int /\ MSS \in Nat /\ z \in Nat
  BY Constants DEF Conn, Client
<1>3. b \in Nat /\ b <= z * MSS /\ (d.nxt + b) % W = c.seq
  BY BytesAtMost
<1> HIDE DEF b, z
<1>4. (c.ack + (k + l)) % W = d.nxt
  <2>1. (((c.ack + k) % W) + l) % W = ((c.ack + k) + l) % W
    <3>1. c.ack + k \in Int /\ l \in Int
      BY <1>2
    <3> QED BY <3>1, ModAdd
  <2>2. (c.ack + k) + l = c.ack + (k + l)
    BY <1>2
  <2> QED BY <1>1, <2>1, <2>2
<1>5. (c.ack + (k + l + b)) % W = c.seq
  <2>1. (((c.ack + (k + l)) % W) + b) % W = ((c.ack + (k + l)) + b) % W
    <3>1. c.ack + (k + l) \in Int /\ b \in Int
      BY <1>2, <1>3
    <3> QED BY <3>1, ModAdd
  <2>2. (c.ack + (k + l)) + b = c.ack + (k + l + b)
    BY <1>2, <1>3, SMTT(30)
  <2> QED BY <1>3, <1>4, <2>1, <2>2
<1>6. k + l + b <= c.pend * MSS
  <2>1. (m + n + z) * MSS = m * MSS + n * MSS + z * MSS
    BY <1>2
  <2>2. (m + n + z) * MSS <= c.pend * MSS
    <3> DEFINE y == m + n + z
    <3>1. y \in Nat /\ y <= c.pend
      BY <1>1, <1>2
    <3> HIDE DEF y
    <3>2. y * MSS <= c.pend * MSS
      BY <1>2, <3>1, MoreHoldMore
    <3> QED BY <3>2 DEF y
  <2>3. m * MSS \in Nat /\ n * MSS \in Nat /\ z * MSS \in Nat /\ c.pend * MSS \in Nat
    BY <1>2, SMTT(30)
  <2> QED BY <1>1, <1>3, <2>1, <2>2, <2>3, SMTT(30)
<1>7. k + l + b \in Nat
  BY <1>3
<1> QED BY <1>5, <1>6, <1>7

\* A flush keeps the unacknowledged bytes covered.
LEMMA CoveredPushed ==
  ASSUME NEW c \in Conn, NEW e \in Conn, NEW o \in Seq(ToClient), Covered(c), Pushed(c, e, o),
         e.state = "ESTABLISHED"
  PROVE  Covered(e)
<1> SUFFICES ASSUME e.ack # -1
             PROVE  \E j \in Nat : (e.ack + j) % W = e.seq /\ j <= e.pend * MSS
  BY DEF Covered
<1> DEFINE b == Bytes(o)
           z == Len(o)
<1>1. e.ack = c.ack /\ e.pend = c.pend + z /\ (c.seq + b) % W = e.seq
  BY DEF Pushed
<1>2. PICK k \in Nat : (c.ack + k) % W = c.seq /\ k <= c.pend * MSS
  BY <1>1 DEF Covered
<1>3. b \in Nat /\ b <= z * MSS /\ z \in Nat /\ c.pend \in Nat /\ c.ack \in Int /\ MSS \in Nat
  BY BytesAtMost, Constants DEF Conn
<1> HIDE DEF b, z
<1>4. (e.ack + (k + b)) % W = e.seq
  <2>1. (((c.ack + k) % W) + b) % W = ((c.ack + k) + b) % W
    <3>1. c.ack + k \in Int /\ b \in Int
      BY <1>3
    <3> QED BY <3>1, ModAdd
  <2>2. (c.ack + k) + b = c.ack + (k + b)
    BY <1>3
  <2> QED BY <1>1, <1>2, <2>1, <2>2
<1>5. k + b <= e.pend * MSS
  <2>1. (c.pend + z) * MSS = c.pend * MSS + z * MSS /\ c.pend * MSS \in Nat /\ z * MSS \in Nat
    BY <1>3
  <2> QED BY <1>1, <1>2, <1>3, <2>1, SMTT(30)
<1>6. k + b \in Nat
  BY <1>3
<1> QED BY <1>4, <1>5, <1>6

\* A flush keeps the count.
LEMMA PendPushing == ASSUME ConnInv, DataInv, UpInv, PendInv, NEW c, Pushing(c) PROVE PendInv'
<1> SUFFICES ASSUME Established' PROVE IF client'.state = "open" THEN Counted' ELSE Covered(conn')
  BY DEF PendInv
<1>1. /\ QueueTypes /\ toClient \in Seq(ToClient) /\ toNat \in Seq(ToNat) /\ conn \in Conn /\ client \in Client
  BY DEF ConnInv, DataInv, QueueTypes, EntryTypes, ClientTypes
<1>2. OneAck /\ Refused
  BY DEF UpInv
<1>3. /\ c \in Conn /\ conn' \in Conn /\ Live(conn) /\ c.seq = conn.seq /\ c.state = conn.state
      /\ c.short = conn.short /\ client' = client /\ joined' = joined
  BY <1>1, PushingFacts DEF clientVars
<1>4. PICK o \in Seq(ToClient) : toClient' = toClient \o o /\ Pushed(c, conn', o)
  BY <1>1, PushingFacts
<1>5. joined /\ conn'.state = "ESTABLISHED" /\ conn.state = "ESTABLISHED" /\ Established
  BY <1>3, <1>4 DEF Established, Pushed
<1>6. CASE toNat' = toNat /\ c.ack = conn.ack /\ c.win = conn.win /\ c.pend = conn.pend
  <2>1. Unheard' = Unheard
    BY <1>6 DEF Unheard
  <2>2. CASE client.state = "open"
    <3>1. PICK k, l, m, n \in Nat : Counting(conn, client, toClient, Unheard, k, l, m, n)
      BY <1>5, <2>2 DEF PendInv, Counted
    <3>2. Counting(c, client, toClient, Unheard, k, l, m, n)
      BY <1>3, <1>6, <3>1 DEF Counting, Full
    <3>3. Counting(conn', client, toClient \o o, Unheard, k, l, m, n)
      BY <1>1, <1>3, <1>4, <1>5, <3>2, CountingPushed
    <3>4. Counting(conn', client', toClient', Unheard', k, l, m, n)
      BY <1>3, <1>4, <2>1, <3>3
    <3> QED BY <1>3, <2>2, <3>4 DEF Counted
  <2>3. CASE client.state # "open"
    <3>1. Covered(conn)
      BY <1>5, <2>3 DEF PendInv
    <3>2. Covered(c)
      BY <1>3, <1>6, <3>1 DEF Covered
    <3>3. Covered(conn')
      BY <1>3, <1>4, <1>5, <3>2, CoveredPushed
    <3> QED BY <1>3, <2>3, <3>3
  <2> QED BY <2>2, <2>3
<1>7. CASE /\ toNat # << >> /\ toNat' = Tail(toNat) /\ IsAck(Head(toNat)) /\ Head(toNat) \in ToNat
           /\ c = Acknowledged(conn, Head(toNat))
  <2>0. Unheard
    BY <1>1, <1>7, TakenFacts DEF Unheard
  <2>1. client.state = "open"
    BY <1>2, <1>3, <1>5, <2>0 DEF Refused
  <2>2. toNat' = << >> /\ Head(toNat).ack = client.acked
    BY <1>1, <1>2, <1>5, <1>7, <2>1, TakenAck DEF Up
  <2>3. Unheard' = FALSE
    BY <2>2 DEF Unheard
  <2>4. PICK k, l, m, n \in Nat : Counting(conn, client, toClient, Unheard, k, l, m, n)
    BY <1>5, <2>1 DEF PendInv, Counted
  <2>5. Counting(c, client, toClient, FALSE, 0, l, 0, n)
    BY <1>1, <1>7, <2>2, <2>4, CountingHeard
  <2>6. Counting(conn', client, toClient \o o, FALSE, 0, l, 0, n)
    BY <1>1, <1>3, <1>4, <1>5, <2>5, CountingPushed
  <2>7. Counting(conn', client', toClient', Unheard', 0, l, 0, n)
    BY <1>3, <1>4, <2>3, <2>6
  <2> QED BY <1>3, <2>1, <2>7 DEF Counted
<1> QED BY <1>1, <1>6, <1>7, PushingHears

\* The count follows what the client acknowledges.
LEMMA PendStep == ASSUME ConnInv, DataInv, SynInv, UpInv, PendInv, Next PROVE PendInv'
<1>1. /\ QueueTypes /\ toClient \in Seq(ToClient) /\ toNat \in Seq(ToNat) /\ conn \in Conn
      /\ client \in Client /\ read \in Nat /\ got \in Nat /\ client.nxt \in 0 .. W - 1
  BY DEF ConnInv, DataInv, QueueTypes, EntryTypes, ClientTypes, Client
<1>2. NoSynack /\ Expected /\ Carried /\ Refused /\ syns \in 0 .. MaxSyns
  BY DEF UpInv, DataInv, ClientTypes
<1>0. ASSUME conn' = conn, joined' = joined, client'.state # "open",
             client.state = "open" /\ Established => Covered(conn)
      PROVE  PendInv'
  BY <1>0 DEF PendInv, Established
<1>3. Established => Live(conn)
  BY DEF Established, Live
<1>4. ASSUME NEW c, Pushing(c) PROVE PendInv'
  BY <1>4, PendPushing
<1>5. CASE \/ HandleSyn \/ Connected \/ HandleRst \/ LingerFires \/ Sweep \/ (HandleAck /\ ~Live(conn))
           \/ Unknown \/ Close \/ Timeout \/ Error
  <2>1. ~Established'
    <3>1. CASE HandleSyn
      BY <3>1 DEF HandleSyn, Established
    <3>2. CASE Connected
      BY <3>2, ConnectedFacts DEF Connected, Established
    <3>3. CASE HandleRst \/ LingerFires \/ Sweep \/ Unknown
      BY <3>3, NoConnType DEF HandleRst, LingerFires, Sweep, Unknown, CloseConnection, Established
    <3>4. CASE HandleAck /\ ~Live(conn)
      BY <3>4 DEF HandleAck, Live, Established
    <3>5. CASE Close \/ Timeout \/ Error
      <4>1. LingerOrClose
        BY <3>5 DEF Close, Timeout, Error
      <4>2. conn.finSent => conn.state = "FIN_WAIT"
        BY DEF ConnInv, EntryInv
      <4> QED BY <1>1, <4>1, <4>2, LingersFacts DEF Established, Live
    <3> QED BY <1>5, <3>1, <3>2, <3>3, <3>4, <3>5
  <2> QED BY <2>1 DEF PendInv
<1>6. CASE DropSyn
  <2>1. /\ client' = client /\ joined' = joined /\ toClient' = toClient
        /\ conn' = conn /\ toNat # << >> /\ toNat' = Tail(toNat) /\ Head(toNat).type = "syn"
    BY <1>6 DEF DropSyn, Take, clientVars
  <2>2. ~IsAck(Head(toNat))
    BY <2>1 DEF IsAck
  <2>3. Unheard' = Unheard
    <3>1. Unheard' \in BOOLEAN /\ Unheard \in BOOLEAN
      BY DEF Unheard
    <3>2. Unheard' <=> Unheard
      BY <1>1, <2>1, <2>2, TakenAck
    <3> QED BY <3>1, <3>2
  <2>4. Counted => Counted'
    BY <2>1, <2>3 DEF Counted
  <2> QED BY <2>1, <2>4 DEF PendInv, Established
<1>7. CASE ClientEstablished
  <2> DEFINE nxt == (Head(toClient).seq + 1) % W
  <2>1. /\ toClient # << >> /\ toClient' = Tail(toClient) /\ Head(toClient).type = "synack"
        /\ client.state = "syn" /\ Head(toClient).isn = client.isn /\ Reply("ack", client')
        /\ client' = [client EXCEPT !.state = "open", !.nxt = nxt, !.acked = nxt]
        /\ joined' = (Live(conn) /\ \A i \in DOMAIN toClient' : toClient'[i].type # "synack")
        /\ conn' = conn
    BY <1>7 DEF ClientEstablished, Accepts
  <2>2. nxt \in 0 .. W - 1
    <3>1. Head(toClient).seq + 1 \in Int
      BY <1>1, <2>1, TakenFacts, Lengths
    <3> QED BY <3>1, Divided
  <2>3. client'.state = "open" /\ client'.nxt = nxt /\ client'.acked = nxt /\ client' \in Client
    BY <1>1, <2>1, <2>2 DEF Client
  <2>4. Unheard'
    BY <1>1, <2>1, <2>3, Replied
  <2>5. ASSUME Established' PROVE Counting(conn', client', toClient', Unheard', 0, 0, 0, 0)
    <3>1. joined' /\ Live(conn) /\ conn.state = "ESTABLISHED"
      BY <2>1, <2>5 DEF Established
    <3>2. /\ 1 \in DOMAIN toClient /\ toClient[1] = Head(toClient) /\ DOMAIN toClient = 1 .. Len(toClient)
          /\ DOMAIN Tail(toClient) = 1 .. Len(toClient) - 1 /\ Len(toClient) \in Nat
          /\ \A i \in DOMAIN Tail(toClient) : Tail(toClient)[i] = toClient[i + 1]
      BY <1>1, <2>1, TakenFacts
    <3>3. ASSUME NEW i \in DOMAIN toClient, toClient[i].type = "synack" PROVE i <= 1
      <4>1. CASE i # 1
        <5>1. i - 1 \in DOMAIN Tail(toClient) /\ Tail(toClient)[i - 1] = toClient[i]
          BY <3>2, <4>1
        <5> QED BY <2>1, <3>1, <3>3, <5>1
      <4> QED BY <4>1
    <3>4. LastSynack(toClient, 1)
      BY <2>1, <3>2, <3>3 DEF LastSynack
    <3>5. Opening(After(toClient, 1), nxt, conn, read)
      BY <2>1, <3>1, <3>2, <3>4 DEF SynInv
    <3>6. After(toClient, 1) = Tail(toClient)
      BY <1>1, <2>1 DEF After
    <3>7. /\ conn.ack = -1 /\ Len(toClient') <= conn.pend /\ Full(toClient', conn)
          /\ ~conn.short => Len(toClient') = conn.pend
      BY <2>1, <3>1, <3>5, <3>6 DEF Opening
    <3>8. /\ (nxt + 0) % W = nxt /\ 0 <= 0 * MSS /\ 0 = 0 * MSS
          /\ 0 + 0 + Len(toClient') = Len(toClient')
      <4>1. nxt + 0 = nxt /\ MSS \in Nat
        BY <2>2, Constants
      <4>2. Len(toClient') \in Nat
        BY <1>1, <2>1, TakenFacts
      <4> HIDE DEF nxt
      <4> QED BY <2>2, <4>1, <4>2, ModSmall
    <3> HIDE DEF nxt
    <3> QED BY <2>1, <2>3, <2>4, <3>7, <3>8 DEF Counting
  <2> HIDE DEF nxt
  <2> QED BY <2>3, <2>5 DEF PendInv, Counted
<1>8. CASE ClientReceives
  <2> DEFINE s == Head(toClient)
  <2> DEFINE nxt == (client.nxt + (IF s.type = "fin" THEN 1 ELSE s.len)) % W
  <2>1. /\ toClient # << >> /\ toClient' = Tail(toClient) /\ client.state = "open"
        /\ client' = [client EXCEPT !.nxt = nxt, !.fin = client.fin \/ s.type = "fin"]
        /\ UNCHANGED <<conn, toNat, joined>>
    BY <1>1, <1>8 DEF ClientReceives, Accepts, Client
  <2>2. client'.nxt = nxt /\ client'.state = "open" /\ client'.acked = client.acked
    BY <1>1, <2>1 DEF Client
  <2>3. Unheard' = Unheard
    BY <2>1 DEF Unheard
  <2>4. ASSUME Established PROVE Counted'
    <3>1. Streams(toClient, client.nxt, conn, read, got)
      BY <1>2, <1>3, <2>1, <2>4 DEF Carried, Established, Up
    <3>2. s.type = "data"
      BY <1>1, <2>1, <2>4, <3>1, StreamsTail DEF Established
    <3>3. client'.nxt = (client.nxt + s.len) % W
      BY <2>2, <3>2
    <3>4. PICK k, l, m, n \in Nat : Counting(conn, client, toClient, Unheard, k, l, m, n)
      BY <2>1, <2>4 DEF PendInv, Counted
    <3>5. Counting(conn, client', Tail(toClient), Unheard, k, l + s.len, m, n + 1)
      BY <1>1, <2>1, <2>2, <3>3, <3>4, CountingReceived
    <3>6. s.len \in Nat
      BY <1>1, <2>1, TakenFacts, Lengths
    <3>7. l + s.len \in Nat /\ n + 1 \in Nat
      BY <3>6
    <3>8. Counting(conn', client', toClient', Unheard', k, l + s.len, m, n + 1)
      BY <2>1, <2>3, <3>5
    <3> HIDE DEF s, nxt
    <3> QED BY <3>7, <3>8 DEF Counted
  <2>5. Established' <=> Established
    BY <2>1 DEF Established
  <2> QED BY <2>2, <2>4, <2>5 DEF PendInv
<1>9. CASE ClientReset
  <2>1. /\ toClient # << >> /\ Head(toClient).type = "rst" /\ UNCHANGED <<conn, joined>>
        /\ client' = (IF Head(toClient).isn = client.isn THEN Left ELSE client)
    BY <1>9 DEF ClientReset
  <2>2. Established => client.state # "open"
    <3>1. ASSUME Up, Live(conn) PROVE FALSE
      <4>1. \A i \in DOMAIN toClient : Payload(toClient[i])
        BY <1>2, <3>1 DEF Carried, Streams, Leads
      <4>2. 1 \in DOMAIN toClient /\ Head(toClient) = toClient[1]
        BY <1>1, <2>1, TakenFacts
      <4> QED BY <2>1, <4>1, <4>2 DEF Payload
    <3> QED BY <1>3, <3>1 DEF Up, Established
  <2>3. client' = client \/ client'.state = "idle"
    BY <1>1, <2>1, LeftBlank
  <2>4. Established' <=> Established
    BY <2>1 DEF Established
  <2> QED BY <2>1, <2>2, <2>3, <2>4 DEF PendInv
<1>10. CASE ClientRefuses
  <2>1. /\ toClient # << >> /\ UNCHANGED <<conn, client, joined>>
        /\ Head(toClient).type # "rst" /\ ~Accepts(Head(toClient))
    BY <1>10 DEF ClientRefuses
  <2>2. ASSUME joined PROVE client.state # "open"
    <3>0. Head(toClient) = toClient[1] /\ 1 \in DOMAIN toClient /\ Head(toClient) \in ToClient
      BY <1>1, <2>1, TakenFacts
    <3>1. Payload(Head(toClient))
      <4>1. Head(toClient).type # "synack"
        BY <1>2, <2>2, <3>0 DEF NoSynack
      <4> QED BY <2>1, <3>0, <4>1 DEF ToClient, Payload
    <3>2. client.state = "open" => Head(toClient).isn = client.isn
      BY <1>2, <2>2, <3>0, <3>1 DEF Expected, Up
    <3> QED BY <2>1, <3>1, <3>2 DEF Accepts, Payload
  <2> QED BY <2>1, <2>2 DEF PendInv, Established
<1>11. CASE ClientFin \/ \E win \in Windows : ClientAck(win)
  <2>1. /\ client.state = "open" /\ toNat = << >> /\ (Reply("ack", client') \/ Reply("fin", client'))
        /\ UNCHANGED <<conn, toClient, joined>>
    BY <1>11 DEF ClientFin, ClientAck
  <2>2. client' \in Client /\ client'.state = "open" /\ client'.nxt = client.nxt /\ client'.acked = client.nxt
    BY <1>1, <1>11, ZenonT(30) DEF ClientFin, ClientAck, Client
  <2>3. Unheard' = TRUE /\ Unheard = FALSE
    <3>1. Unheard'
      BY <1>1, <2>1, <2>2, Replied
    <3>2. Unheard' \in BOOLEAN /\ Unheard = FALSE
      BY <2>1 DEF Unheard
    <3> QED BY <3>1, <3>2
  <2>4. ASSUME Established PROVE Counted'
    <3>1. PICK k, l, m, n \in Nat : Counting(conn, client, toClient, Unheard, k, l, m, n)
      BY <2>1, <2>4 DEF PendInv, Counted
    <3>2. Counting(conn, client', toClient, TRUE, l, 0, n, 0)
      BY <1>1, <2>2, <2>3, <3>1, CountingSaid
    <3>3. Counting(conn', client', toClient', Unheard', l, 0, n, 0)
      BY <2>1, <2>3, <3>2
    <3> QED BY <3>3 DEF Counted
  <2>5. Established' <=> Established
    BY <2>1 DEF Established
  <2> QED BY <2>2, <2>4, <2>5 DEF PendInv
<1>12. CASE ClientRst \/ ClientDone
  <2>1. client' = Left /\ UNCHANGED <<conn, joined>>
    BY <1>12 DEF ClientRst, ClientDone
  <2>2. ASSUME client.state = "open", Established PROVE Covered(conn)
    <3>1. PICK k, l, m, n \in Nat : Counting(conn, client, toClient, Unheard, k, l, m, n)
      BY <2>2 DEF PendInv, Counted
    <3>2. (client.nxt + Bytes(toClient)) % W = conn.seq
      BY <1>2, <1>3, <2>2 DEF Carried, Established, Up, Streams
    <3> QED BY <1>1, <3>1, <3>2, CountingCovers
  <2>3. client'.state = "idle"
    BY <1>1, <2>1, LeftBlank
  <2> QED BY <1>0, <2>1, <2>2, <2>3
<1>13. CASE ClientSyn
  <2>1. UNCHANGED <<conn, joined>>
    BY <1>13 DEF ClientSyn
  <2>2. client'.state = "syn" /\ client.state # "open"
    BY <1>1, <1>2, <1>13, SynFacts
  <2> QED BY <1>0, <2>1, <2>2
<1> QED
  BY <1>1, <1>4, <1>5, <1>6, <1>7, <1>8, <1>9, <1>10, <1>11, <1>12, <1>13, StepKinds

-----------------------------------------------------------------------------
(* The theorems. *)

\* The invariant holds without a connection.
LEMMA InitInv == ASSUME Init PROVE NatInv
<1>1. conn = NoConn /\ connecting = 0 /\ sock = "none" /\ toClient = << >> /\ toNat = << >>
      /\ client = NoClient /\ syns = 0 /\ read = 0 /\ total = 0 /\ got = 0 /\ broken = FALSE /\ joined = FALSE
      /\ expired = FALSE
  BY DEF Init
<1>0. /\ client \in Client /\ client.state = "idle" /\ client.isn = 0 /\ ~client.fin
      /\ conn.isn = 0 /\ 0 \in 0 .. MaxSyns
  <2>1. client = Blank("idle", 0) /\ 0 \in 0 .. MaxSyns
    BY <1>1, NatAssumption DEF Blank, NoClient
  <2>2. conn.isn = 0
    BY <1>1 DEF NoConn
  <2> QED BY <2>1, <2>2, BlankType
<1>2. ConnInv
  <2>1. EntryTypes
    <3>1. 0 \in 0 .. MaxConnections /\ 0 \in 0 .. MaxRead
      BY NatAssumption
    <3> QED BY <1>1, <3>1, NoConnType DEF EntryTypes
  <2>2. EntryInv /\ FlowInv
    BY <1>1, NoConnType DEF EntryInv, FlowInv, Fresh, Live
  <2> QED BY <2>1, <2>2 DEF ConnInv
<1>3. DataInv
  <2>1. Bytes(toClient) = 0 /\ conn.backlog = 0
    BY <1>1, BytesFew, NoConnType DEF Fresh
  <2>2. QueueTypes /\ ClientTypes
    <3>2. << >> \in Seq(ToClient) /\ << >> \in Seq(ToNat)
      OBVIOUS
    <3>3. QueueTypes
      BY <1>1, <3>2 DEF QueueTypes
    <3>4. ClientTypes
      BY <1>0, <1>1 DEF ClientTypes
    <3> QED BY <3>3, <3>4
  <2> QED BY <1>1, <2>1, <2>2 DEF DataInv, ByteInv
<1>4. FinInv /\ IsnInv
  BY <1>0, <1>1 DEF FinInv, SeesFin, SawFin, HasFin, IsnInv
<1>5. SynInv /\ UpInv /\ EndInv /\ PendInv
  <2>1. ~Up /\ ~Established
    BY <1>1 DEF Up, Established
  <2> QED BY <1>0, <1>1, <2>1
       DEF SynInv, UpInv, EndInv, PendInv, NoSynack, Expected, OneAck, Carried, Refused, FinWhole, FinEnds
<1> QED
  BY <1>2, <1>3, <1>4, <1>5 DEF NatInv, ConnInv, DataInv, Types, EntryTypes, QueueTypes, ClientTypes

\* Every step keeps it.
LEMMA NextInv == ASSUME NatInv, [Next]_vars PROVE NatInv'
<1>1. ConnInv /\ DataInv /\ IsnInv /\ FinInv /\ SynInv /\ UpInv /\ EndInv /\ PendInv /\ QueueTypes
  BY DEF NatInv, ConnInv, DataInv, Types, EntryTypes, QueueTypes, ClientTypes
<1>2. ConnInv' /\ DataInv' /\ IsnInv' /\ FinInv' /\ SynInv' /\ UpInv' /\ EndInv' /\ PendInv'
  <2>1. CASE Next
    BY <1>1, <2>1, ConnStep, DataStep, IsnStep, FinStep, SynStep, UpStep, EndStep, PendStep
  <2>2. CASE UNCHANGED vars
    <3>1. UNCHANGED <<conn, connecting, sock, toClient, toNat, client, syns, read, total, got, broken, joined, expired>>
      BY <2>2 DEF vars
    <3>2. ConnInv'
      BY <1>1, <3>1 DEF ConnInv, EntryTypes, EntryInv, FlowInv
    <3>3. DataInv'
      BY <1>1, <3>1 DEF DataInv, QueueTypes, ClientTypes, ByteInv
    <3>4. FinInv' /\ IsnInv'
      BY <1>1, <3>1 DEF FinInv, SeesFin, SawFin, IsnInv
    <3>5. SynInv'
      BY <1>1, <3>1 DEF SynInv, Begun, Unheard
    <3>9. EndInv'
      BY <1>1, <3>1 DEF EndInv, FinWhole, FinEnds, AnyFin, Up
    <3>6. UpInv'
      BY <1>1, <3>1 DEF UpInv, NoSynack, Expected, OneAck, Carried, Refused, Up, Unheard
    <3>7. Unheard' = Unheard
      BY <3>1 DEF Unheard
    <3>8. PendInv'
      BY <1>1, <3>1, <3>7 DEF PendInv, Established, Counted
    <3> QED BY <3>2, <3>3, <3>4, <3>5, <3>6, <3>8, <3>9
  <2> QED BY <2>1, <2>2
<1> QED
  BY <1>2 DEF NatInv, ConnInv, DataInv, Types, EntryTypes, QueueTypes, ClientTypes

\* The invariant always holds.
LEMMA InvHolds == Spec => []NatInv
<1>1. Init => NatInv
  BY InitInv
<1>2. NatInv /\ [Next]_vars => NatInv'
  BY NextInv
<1> QED BY <1>1, <1>2, PTL DEF Spec

\* The types with their bounds: the count of unacknowledged segments stays within tcpMaxPending, the attempts to
\* connect within maxConnections, and bytes waiting or received are bytes that were read.
LEMMA InvTypes == ASSUME NatInv PROVE TypeOK
<1>1. Types /\ ByteInv
  BY DEF NatInv
<1>2. /\ Bytes(toClient) \in Nat /\ conn \in Conn /\ conn.backlog \in Nat /\ read \in Nat /\ got \in Nat
      /\ total \in 0 .. MaxRead /\ MaxRead \in Nat
  BY <1>1, BytesConcat, NatAssumption DEF Types, Conn
<1>3. read <= total /\ got + Bytes(toClient) + conn.backlog <= total
  BY <1>1 DEF ByteInv
<1>4. read \in 0 .. MaxRead /\ got \in 0 .. MaxRead /\ conn.backlog \in 0 .. MaxRead
  <2> DEFINE u == Bytes(toClient)
             v == conn.backlog
  <2>1. u \in Nat /\ v \in Nat /\ got + u + v <= total
    BY <1>2, <1>3
  <2> HIDE DEF u, v
  <2>2. got \in 0 .. MaxRead /\ v \in 0 .. MaxRead
    BY <1>2, <2>1
  <2> QED BY <1>2, <1>3, <2>2 DEF v
<1>5. conn \in [state : States, isn : 0 .. MaxSyns, seq : 0 .. W - 1, win : Windows, ack : -1 .. W - 1,
                pend : 0 .. TcpMaxPending, paused : BOOLEAN, backlog : 0 .. MaxRead,
                eof : BOOLEAN, finSent : BOOLEAN, linger : BOOLEAN, short : BOOLEAN]
  BY <1>2, <1>4 DEF Conn
<1> QED BY <1>1, <1>4, <1>5 DEF TypeOK, Types, ToClient, ToNat, Client

\* pendingResponses covers what is unacknowledged, so that no ACK seems older than it is.
LEMMA InvCounts == ASSUME NatInv PROVE CountCovers
<1> SUFFICES ASSUME Established, conn.ack # -1 PROVE (conn.seq - conn.ack) % W <= conn.pend * MSS
  BY DEF CountCovers, Established
<1>1. conn \in Conn /\ client \in Client /\ toClient \in Seq(ToClient) /\ PendInv /\ UpInv
  BY DEF NatInv, Types
<1>2. Covered(conn)
  <2>1. CASE client.state = "open"
    <3>1. PICK k, l, m, n \in Nat : Counting(conn, client, toClient, Unheard, k, l, m, n)
      BY <1>1, <2>1 DEF PendInv, Counted
    <3>2. (client.nxt + Bytes(toClient)) % W = conn.seq
      BY <1>1, <2>1 DEF UpInv, Carried, Established, Up, Live, Streams
    <3> QED BY <1>1, <3>1, <3>2, CountingCovers
  <2>2. CASE client.state # "open"
    BY <1>1, <2>2 DEF PendInv
  <2> QED BY <2>1, <2>2
<1>3. PICK k \in Nat : (conn.ack + k) % W = conn.seq /\ k <= conn.pend * MSS
  BY <1>2 DEF Covered
<1>4. conn.pend \in Nat /\ conn.pend <= TcpMaxPending /\ conn.ack \in 0 .. W - 1 /\ W \in Nat
      /\ TcpMaxPending \in Nat /\ MSS \in Nat
  <2>1. conn.ack \in -1 .. W - 1 /\ conn.pend \in 0 .. TcpMaxPending
    BY <1>1 DEF Conn
  <2> QED BY <2>1, Constants
<1>5. k \in 0 .. W - 1
  <2>1. conn.pend * MSS <= TcpMaxPending * MSS
    BY <1>4, MoreHoldMore
  <2>2. conn.pend * MSS \in Nat
    BY <1>4
  <2> QED BY <1>3, <2>1, <2>2, Modulus
<1>6. (conn.seq - conn.ack) % W = k
  BY <1>3, <1>4, <1>5, Distance
<1> QED BY <1>3, <1>6

\* Types, limits and what pendingResponses counts (src/src/exit/userspace-nat.js), for every segment size, limit,
\* window and initial sequence number, whatever the client acknowledges at once.
THEOREM PendingCounted == Spec => []CountInv
<1>1. NatInv => CountInv
  BY InvTypes, InvCounts DEF CountInv
<1> QED BY <1>1, InvHolds, PTL

\* A client that has got FIN has everything.
LEMMA InvWhole == ASSUME NatInv, Up, client.fin PROVE read = got
<1>1. toClient \in Seq(ToClient) /\ read \in Nat /\ got \in Nat /\ EntryInv /\ Carried /\ FinWhole /\ FinEnds
  BY DEF NatInv, Types, UpInv, EndInv
<1>2. Bytes(toClient) = 0
  <2>1. \A i \in DOMAIN toClient : toClient[i].len = 0
    BY <1>1 DEF FinEnds
  <2> QED BY <1>1, <2>1, BytesNone
<1>3. CASE conn.finSent
  <2>1. Live(conn) /\ conn.backlog = 0
    BY <1>1, <1>3 DEF EntryInv, Live
  <2>2. read = got + 0 + 0
    BY <1>1, <1>2, <2>1 DEF Carried, Streams
  <2> QED BY <1>1, <2>2
<1>4. CASE ~conn.finSent
  <2>1. got + 0 = read
    BY <1>1, <1>2, <1>4 DEF FinWhole, AnyFin
  <2> QED BY <1>1, <2>1
<1> QED BY <1>3, <1>4

\* The client's stream is the server's: in sequence, nothing lost or doubled by segmentation, holding back,
\* window changes and the wrap of sequence numbers while the entry is there; and a client that gets FIN has all
\* that was read, whatever became of the entry.
THEOREM StreamKeptWhole == Spec => []StreamIntact
<1>1. ASSUME NatInv PROVE StreamIntact
  <2>1. client.state = "open" /\ joined /\ Live(conn) => read = got + Bytes(toClient) + conn.backlog
    BY <1>1 DEF NatInv, UpInv, Carried, Up, Streams
  <2>2. client.state = "open" /\ joined /\ client.fin => read = got
    BY <1>1, InvWhole DEF Up
  <2>3. ~broken
    BY <1>1 DEF NatInv, UpInv
  <2> QED BY <2>1, <2>2, <2>3 DEF StreamIntact
<1> QED BY <1>1, InvHolds, PTL

\* A client that has been sent FIN is not reset while it closes its side, unless the entry expired.
THEOREM ClosedWithoutReset == Spec => []NoRstAfterFin
<1>1. NatInv => NoRstAfterFin
  BY DEF NatInv, FinInv, SawFin, IsRst, NoRstAfterFin
<1> QED BY <1>1, InvHolds, PTL

\* When all is acknowledged and heard and the client has room, nothing waits: the socket is read, the backlog is
\* empty and a due FIN has been sent.
LEMMA InvFlows == ASSUME NatInv, Settled PROVE ~conn.paused /\ conn.backlog = 0 /\ (conn.eof => conn.finSent)
<1>1. /\ conn \in Conn /\ client \in Client /\ toClient \in Seq(ToClient) /\ PendInv /\ Carried /\ EntryInv
      /\ Flowing(conn) /\ client.acked \in 0 .. W - 1
  BY DEF NatInv, Types, UpInv, FlowInv, Settled, Client
<1>2. /\ joined /\ Live(conn) /\ ~conn.short /\ client.state = "open" /\ client.acked = client.nxt
      /\ client.win > 0 /\ toNat = << >> /\ toClient = << >>
  BY DEF Settled, Quiet
<1>3. ~Unheard
  BY <1>2 DEF Unheard
<1>4. conn.win = client.win
  BY <1>1, <1>2, <1>3 DEF Carried, Up
<1>5. /\ conn.win \in Windows /\ conn.win > 0 /\ conn.backlog \in Nat /\ conn.pend \in 0 .. TcpMaxPending
      /\ conn.pend \in Nat
  BY <1>1, <1>2, <1>4, Constants DEF Conn
<1>6. /\ MaxPendingFor(conn.win) \in Int /\ ResumeTarget(conn.win) \in Int
      /\ MaxPendingFor(conn.win) >= 1 /\ ResumeTarget(conn.win) >= 1
  <2>1. TcpMaxPending \in Nat
    BY Constants
  <2>2. /\ MaxPendingFor(conn.win) \in 0 .. TcpMaxPending /\ ResumeTarget(conn.win) \in Int
        /\ MaxPendingFor(conn.win) >= 1 /\ ResumeTarget(conn.win) >= 1
    BY <1>5, LimitFacts
  <2> QED BY <2>1, <2>2
<1>7. conn.pend = 0
  <2>1. CASE conn.state = "FIN_WAIT"
    BY <1>1, <2>1 DEF EntryInv
  <2>2. CASE conn.state = "ESTABLISHED"
    <3>1. PICK k, l, m, n \in Nat : Counting(conn, client, toClient, Unheard, k, l, m, n)
      BY <1>1, <1>2, <2>2 DEF PendInv, Counted, Established
    <3>2. /\ (client.acked + l) % W = client.acked /\ k = 0 /\ k = m * MSS /\ l = n * MSS
          /\ m + n + Len(toClient) = conn.pend
      BY <1>2, <1>3, <3>1 DEF Counting
    <3>3. Len(toClient) = 0 /\ MSS \in Nat \ {0}
      BY <1>2, Constants
    <3>4. m = 0 /\ n = conn.pend
      <4>1. m = 0
        BY <3>2, <3>3
      <4> QED BY <1>5, <3>2, <3>3, <4>1
    <3>5. l \in 0 .. W - 1
      <4>1. l <= TcpMaxPending * MSS
        BY <1>5, <3>2, <3>4, Constants, MoreHoldMore
      <4> QED BY <4>1, Modulus
    <3>6. l = 0
      <4>1. (((client.acked + l) % W) - client.acked) % W = l
        BY <1>1, <3>5, Distance
      <4>2. client.acked - client.acked = 0
        BY <1>1, Constants
      <4>3. 0 % W = 0
        BY ModSmall, Constants
      <4> QED BY <3>2, <4>1, <4>2, <4>3
    <3>7. n = 0
      BY <3>2, <3>3, <3>6
    <3> QED BY <3>4, <3>7
  <2> QED BY <1>2, <2>1, <2>2 DEF Live
<1>8. conn.backlog = 0
  BY <1>1, <1>5, <1>6, <1>7 DEF Flowing
<1>9. ~conn.paused
  BY <1>1, <1>5, <1>6, <1>7, <1>8 DEF Flowing
<1>10. conn.eof => conn.finSent
  BY <1>1, <1>2, <1>7, <1>8 DEF Flowing, FinDue, Live, EntryInv
<1> QED BY <1>8, <1>9, <1>10

\* No stall: once everything is acknowledged and heard, the socket is read again, nothing waits and a due FIN has
\* been sent, while segments have full size.
THEOREM NeverStalls == Spec => []NoStall
<1>1. NatInv => NoStall
  BY InvFlows DEF NoStall
<1> QED BY <1>1, InvHolds, PTL
=============================================================================
