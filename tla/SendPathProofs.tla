---------------------------- MODULE SendPathProofs ----------------------------
(***************************************************************************)
(* For packets, limits and water marks of any size: that frames fit, that  *)
(* the send buffer keeps the stream, that no accepted packet is lost or    *)
(* duplicated, and that none overtakes those that wait for a retry.        *)
(***************************************************************************)
EXTENDS SendPath, SequenceTheorems, FiniteSetTheorems, TLAPS

\* The calls of a running handler: a packet is being pushed only as the next thing, or after
\* the flush that makes room for it, and the frames of a long flush come first.
Shape(t) ==
  /\ \A i \in DOMAIN t : t[i] = "chunks" => i = 1
  /\ \A i \in DOMAIN t : t[i] = "append" => i = 1 \/ (i = 2 /\ t[1] \in {"flush", "chunks"})

Pushing == "append" \in Range(todo)

\* Outside a long flush the running total is right; a packet is pushed where there is room.
Totalled ==
  /\ Shape(todo)
  /\ Pushing => Len(packets) < MaxQueuePackets
  /\ (todo = << >> \/ Head(todo) # "chunks") => currentSize = SizeOf(packets)

BufferInv == FrameInv /\ Totalled

\* No packet has an id that has not been given out.
Known ==
  /\ \A p \in In(wire) \cup In(packets) \cup In(overflow) \cup {arg} : p.id <= offered
  /\ \A p \in In(retry) \cup accepted : p.id <= offered

QueueOrder == Known /\ RetryNotOvertaken

\* The packet on its way into the send buffer.
OnItsWay == IF Pushing THEN {arg} ELSE {}

\* W, P, A, O, R and D have no packet in common, and together are `all'.
Partition(W, P, A, O, R, D, all) ==
  /\ W \cap P = {} /\ W \cap A = {} /\ W \cap O = {} /\ W \cap R = {} /\ W \cap D = {}
  /\ P \cap A = {} /\ P \cap O = {} /\ P \cap R = {} /\ P \cap D = {}
  /\ A \cap O = {} /\ A \cap R = {} /\ A \cap D = {}
  /\ O \cap R = {} /\ O \cap D = {} /\ R \cap D = {}
  /\ all = W \cup P \cup A \cup O \cup R \cup D

\* NoneLost, place by place.
PlaceInv ==
  /\ IsInjective(wire) /\ IsInjective(packets) /\ IsInjective(overflow) /\ IsInjective(retry)
  /\ Partition(In(wire), In(packets), OnItsWay, In(overflow), In(retry), discarded, accepted)
  /\ IsFiniteSet(discarded)

-----------------------------------------------------------------------------
USE SizesAssumption, QueuesAssumption, WatersAssumption, BoundsAssumption

-----------------------------------------------------------------------------
(* The size of a frame. *)

\* A set of numbers with 0 and all successors is all of Nat: the form of induction the
\* proofs use.
LEMMA AllNumbers ==
  ASSUME NEW T, 0 \in T, \A n \in Nat : n \in T => n + 1 \in T
  PROVE  Nat \subseteq T
<1> SUFFICES ASSUME Nat \ T # {} PROVE FALSE
  OBVIOUS
<1> DEFINE R == {ss \in Nat \X Nat : ss[1] < ss[2]}
<1>1. IsWellFoundedOn(R, Nat)
  BY NatLessThanWellFounded DEF OpToRel
<1>2. PICK x \in Nat \ T : \A y \in Nat \ T : ~(<<y, x>> \in R)
  BY <1>1, WFMin
<1>3. \A y \in Nat \ T : ~(y < x)
  BY <1>2
<1>4. x # 0 /\ x - 1 \in Nat /\ x - 1 < x
  BY <1>2
<1>5. x - 1 \in T
  BY <1>3, <1>4
<1> QED BY <1>2, <1>4, <1>5

\* g gives the sizes of the frames with the first 0, 1, ... n packets of ps.
Totals(ps, n, g) ==
  /\ g \in [0 .. n -> Nat] /\ g[0] = HEADER_SIZE
  /\ \A i \in 1 .. n : g[i] = g[i - 1] + EntrySize(ps[i])

\* A packet's entry in a frame has a size.
LEMMA EntryType == \A p \in Packet : EntrySize(p) \in Nat
<1> SUFFICES ASSUME NEW p \in Packet PROVE EntrySize(p) \in Nat
  OBVIOUS
<1>1. p.len \in Lens
  BY DEF Packet
<1>2. p.len \in Nat
  BY <1>1
<1> QED BY <1>2 DEF EntrySize, PREFIX_SIZE

\* Running totals of a queue exist: there is a function with the sums of its beginnings.
LEMMA TotalsExist ==
  ASSUME NEW ps \in Seq(Packet)
  PROVE  \E g : Totals(ps, Len(ps), g)
<1> DEFINE T == {n \in Nat : n <= Len(ps) => \E g : Totals(ps, n, g)}
<1>1. 0 \in T
  <2>1. Totals(ps, 0, [i \in 0 .. 0 |-> HEADER_SIZE])
    BY DEF Totals, HEADER_SIZE
  <2> QED BY <2>1
<1>2. ASSUME NEW n \in Nat, n \in T PROVE n + 1 \in T
  <2> SUFFICES ASSUME n + 1 <= Len(ps) PROVE \E h : Totals(ps, n + 1, h)
    BY <1>2
  <2>1. PICK g : Totals(ps, n, g)
    BY <1>2
  <2>2. EntrySize(ps[n + 1]) \in Nat
    BY EntryType
  <2> DEFINE e == EntrySize(ps[n + 1])
  <2> DEFINE h == [i \in 0 .. n + 1 |-> IF i = n + 1 THEN g[n] + e ELSE g[i]]
  <2> HIDE DEF e
  <2>3. h \in [0 .. n + 1 -> Nat] /\ h[0] = HEADER_SIZE
    BY <2>1, <2>2 DEF Totals, e
  <2>4. \A i \in 1 .. n + 1 : h[i] = h[i - 1] + EntrySize(ps[i])
    <3> SUFFICES ASSUME NEW i \in 1 .. n + 1 PROVE h[i] = h[i - 1] + EntrySize(ps[i])
      OBVIOUS
    <3>1. CASE i = n + 1
      BY <3>1 DEF e
    <3>2. CASE i \in 1 .. n
      BY <2>1, <3>2 DEF Totals
    <3> QED BY <3>1, <3>2
  <2>5. Totals(ps, n + 1, h)
    BY <2>3, <2>4 DEF Totals
  <2> QED BY <2>5
<1> HIDE DEF T
<1>3. Nat \subseteq T
  BY <1>1, <1>2, AllNumbers
<1>4. Len(ps) \in T
  BY <1>3
<1> QED BY <1>4 DEF T

\* The totals of two lists agree as far as the lists do.
LEMMA TotalsAgree ==
  ASSUME NEW ps, NEW qs, NEW m \in Nat, NEW n \in Nat, m <= n, NEW g, NEW h,
         Totals(ps, m, g), Totals(qs, n, h), \A i \in 1 .. m : ps[i] = qs[i]
  PROVE  g[m] = h[m]
<1> DEFINE T == {i \in Nat : i <= m => g[i] = h[i]}
<1>1. 0 \in T
  BY DEF Totals
<1>2. ASSUME NEW i \in Nat, i \in T PROVE i + 1 \in T
  BY <1>2 DEF Totals
<1> HIDE DEF T
<1>3. Nat \subseteq T
  BY <1>1, <1>2, AllNumbers
<1>4. m \in T
  BY <1>3
<1> QED BY <1>4 DEF T

\* SizeOf is the last of the running totals.
LEMMA SizeIsTotal ==
  ASSUME NEW ps \in Seq(Packet), NEW g, Totals(ps, Len(ps), g)
  PROVE  SizeOf(ps) = g[Len(ps)]
<1> DEFINE Def(f) == [n \in 0 .. Len(ps) |-> IF n = 0 THEN HEADER_SIZE ELSE f[n - 1] + EntrySize(ps[n])]
<1> DEFINE size == CHOOSE f : f = Def(f)
<1>1. g = Def(g)
  BY DEF Totals
<1>2. size = Def(size)
  BY <1>1
<1>3. SizeOf(ps) = size[Len(ps)]
  BY DEF SizeOf
<1> HIDE DEF size
<1>4. Len(ps) \in Nat
  OBVIOUS
<1> DEFINE T == {i \in Nat : i <= Len(ps) => g[i] = size[i]}
<1>5. 0 \in T
  BY <1>2, <1>4 DEF Totals
<1>6. ASSUME NEW i \in Nat, i \in T PROVE i + 1 \in T
  <2> SUFFICES ASSUME i + 1 <= Len(ps) PROVE g[i + 1] = size[i + 1]
    BY <1>6
  <2>1. size[i + 1] = size[i] + EntrySize(ps[i + 1])
    BY <1>2
  <2>2. g[i + 1] = g[i] + EntrySize(ps[i + 1])
    BY DEF Totals
  <2> QED BY <1>6, <2>1, <2>2
<1> HIDE DEF T
<1>7. Nat \subseteq T
  BY <1>5, <1>6, AllNumbers
<1> QED BY <1>3, <1>4, <1>7 DEF T

\* What the proofs need of SizeOf: the empty frame, one packet more, and that it is a number.
LEMMA SizeFacts ==
  /\ SizeOf(<< >>) = HEADER_SIZE
  /\ \A ps \in Seq(Packet) : SizeOf(ps) \in Nat
  /\ \A ps \in Seq(Packet), p \in Packet : SizeOf(Append(ps, p)) = SizeOf(ps) + EntrySize(p)
<1>1. ASSUME NEW ps \in Seq(Packet) PROVE SizeOf(ps) \in Nat
  BY TotalsExist, SizeIsTotal DEF Totals
<1>2. SizeOf(<< >>) = HEADER_SIZE
  <2>1. << >> \in Seq(Packet) /\ Len(<< >>) = 0
    OBVIOUS
  <2>2. PICK g : Totals(<< >>, Len(<< >>), g)
    BY <2>1, TotalsExist
  <2>3. SizeOf(<< >>) = g[0]
    BY <2>1, <2>2, SizeIsTotal
  <2> QED BY <2>2, <2>3 DEF Totals
<1>3. ASSUME NEW ps \in Seq(Packet), NEW p \in Packet
      PROVE  SizeOf(Append(ps, p)) = SizeOf(ps) + EntrySize(p)
  <2> DEFINE qs == Append(ps, p)
  <2>1. /\ qs \in Seq(Packet) /\ Len(qs) = Len(ps) + 1 /\ Len(ps) \in Nat
        /\ \A i \in 1 .. Len(ps) : ps[i] = qs[i]
        /\ qs[Len(ps) + 1] = p
    OBVIOUS
  <2> HIDE DEF qs
  <2>2. PICK g : Totals(ps, Len(ps), g)
    BY TotalsExist
  <2>3. PICK h : Totals(qs, Len(qs), h)
    BY <2>1, TotalsExist
  <2>4. g[Len(ps)] = h[Len(ps)]
    BY <2>1, <2>2, <2>3, TotalsAgree, SMTT(30)
  <2>5. h[Len(ps) + 1] = h[Len(ps)] + EntrySize(p)
    BY <2>1, <2>3, SMTT(30) DEF Totals
  <2>6. SizeOf(ps) = g[Len(ps)] /\ SizeOf(qs) = h[Len(ps) + 1]
    BY <2>1, <2>2, <2>3, SizeIsTotal
  <2> QED BY <2>4, <2>5, <2>6 DEF qs
<1> QED BY <1>1, <1>2, <1>3

-----------------------------------------------------------------------------
(* The calls of a handler. *)

\* Nothing is being pushed, and no long flush is under way.
Quiet(t) == \A i \in DOMAIN t : t[i] # "append" /\ t[i] # "chunks"

\* What remains of a stack without its top.
LEMMA Popped ==
  ASSUME NEW S, NEW t \in Seq(S), t # << >>
  PROVE  /\ Tail(t) \in Seq(S) /\ Head(t) = t[1] /\ Head(t) \in S /\ 1 \in DOMAIN t
         /\ Len(Tail(t)) = Len(t) - 1 /\ Len(t) \in Nat
         /\ \A i \in DOMAIN Tail(t) : i \in Nat \ {0} /\ i + 1 \in DOMAIN t /\ Tail(t)[i] = t[i + 1]
         /\ \A i \in DOMAIN t : i \in Nat \ {0} /\ (i # 1 => i - 1 \in DOMAIN Tail(t) /\ t[i] = Tail(t)[i - 1])
OBVIOUS

\* A stack with one more element on top.
LEMMA Stacked ==
  ASSUME NEW S, NEW t \in Seq(S), NEW e \in S
  PROVE  /\ <<e>> \o t \in Seq(S) /\ <<e>> \o t # << >> /\ Head(<<e>> \o t) = e
         /\ (<<e>> \o t)[1] = e /\ 1 \in DOMAIN (<<e>> \o t)
         /\ \A i \in DOMAIN t : i + 1 \in DOMAIN (<<e>> \o t) /\ (<<e>> \o t)[i + 1] = t[i]
         /\ \A i \in DOMAIN (<<e>> \o t) : i = 1 \/ (i - 1 \in DOMAIN t /\ i - 1 # 0 /\ i \in Nat /\ (<<e>> \o t)[i] = t[i - 1])
OBVIOUS

\* Returning from a call keeps the shape of the call stack.
LEMMA CallsPopped ==
  ASSUME NEW t \in Seq(Calls), t # << >>, Shape(t)
  PROVE  /\ Tail(t) \in Seq(Calls) /\ Shape(Tail(t))
         /\ "append" \in Range(Tail(t)) => "append" \in Range(t)
         /\ Head(t) \notin {"flush", "chunks"} => Quiet(Tail(t))
         /\ Head(t) \in {"drainOverflow", "drainRetry"} => Quiet(t)
         /\ Tail(t) = << >> \/ Head(Tail(t)) # "chunks"
         /\ Head(t) = "append" => "append" \in Range(t)
         /\ Head(t) # "append" => ("append" \in Range(t) <=> "append" \in Range(Tail(t)))
<1> DEFINE u == Tail(t)
<1>1. /\ u \in Seq(Calls) /\ Head(t) = t[1] /\ 1 \in DOMAIN t
      /\ \A i \in DOMAIN u : i \in Nat \ {0} /\ i + 1 \in DOMAIN t /\ u[i] = t[i + 1]
      /\ \A i \in DOMAIN t : i \in Nat \ {0} /\ (i # 1 => i - 1 \in DOMAIN u /\ t[i] = u[i - 1])
  BY Popped
<1> HIDE DEF u
<1>2. Shape(u)
  BY <1>1 DEF Shape
<1>3. Head(t) \notin {"flush", "chunks"} => Quiet(u)
  BY <1>1 DEF Shape, Quiet
<1>4. Head(t) \in {"drainOverflow", "drainRetry"} => Quiet(t)
  BY <1>1 DEF Shape, Quiet
<1>5. "append" \in Range(u) => "append" \in Range(t)
  BY <1>1 DEF Range
<1>6. u = << >> \/ Head(u) # "chunks"
  <2> SUFFICES ASSUME u # << >> PROVE Head(u) # "chunks"
    OBVIOUS
  <2>1. Head(u) = u[1] /\ 1 \in DOMAIN u
    BY <1>1, Popped
  <2> QED BY <1>1, <2>1 DEF Shape
<1>7. Head(t) = "append" => "append" \in Range(t)
  BY <1>1 DEF Range
<1>8. Head(t) # "append" => ("append" \in Range(t) => "append" \in Range(u))
  <2> SUFFICES ASSUME Head(t) # "append", NEW i \in DOMAIN t, t[i] = "append"
               PROVE  "append" \in Range(u)
    BY DEF Range
  <2>1. i - 1 \in DOMAIN u /\ u[i - 1] = "append"
    BY <1>1
  <2> QED BY <2>1 DEF Range
<1> QED BY <1>1, <1>2, <1>3, <1>4, <1>5, <1>6, <1>7, <1>8 DEF u

\* Entering a call keeps the shape of the call stack.
LEMMA CallStacked ==
  ASSUME NEW t \in Seq(Calls), Quiet(t)
  PROVE  /\ Shape(t) /\ "append" \notin Range(t) /\ (t = << >> \/ Head(t) # "chunks")
         /\ \A e \in {"flush", "drainOverflow", "drainRetry"} :
              /\ Quiet(<<e>> \o t) /\ <<e>> \o t \in Seq(Calls)
         /\ \A e \in {"append", "chunks"} :
              Shape(<<e>> \o t) /\ <<e>> \o t \in Seq(Calls) /\ <<e>> \o t # << >> /\ Head(<<e>> \o t) = e
         /\ Shape(<<"flush">> \o (<<"append">> \o t)) /\ <<"flush">> \o (<<"append">> \o t) \in Seq(Calls)
         /\ <<"flush">> \o (<<"append">> \o t) # << >> /\ Head(<<"flush">> \o (<<"append">> \o t)) = "flush"
<1>1. Shape(t) /\ "append" \notin Range(t)
  BY DEF Shape, Quiet, Range
<1>2. t = << >> \/ Head(t) # "chunks"
  BY Popped DEF Quiet
<1>3. ASSUME NEW e \in {"flush", "drainOverflow", "drainRetry"}
      PROVE  Quiet(<<e>> \o t) /\ <<e>> \o t \in Seq(Calls)
  <2>1. e \in Calls
    BY DEF Calls
  <2> DEFINE u == <<e>> \o t
  <2>2. /\ u \in Seq(Calls) /\ u[1] = e
        /\ \A i \in DOMAIN u : i = 1 \/ (i - 1 \in DOMAIN t /\ u[i] = t[i - 1])
    BY <2>1, Stacked
  <2> HIDE DEF u
  <2>3. Quiet(u)
    BY <2>2 DEF Quiet
  <2> QED BY <2>2, <2>3 DEF u
<1>4. ASSUME NEW e \in {"append", "chunks"}
      PROVE  Shape(<<e>> \o t) /\ <<e>> \o t \in Seq(Calls) /\ <<e>> \o t # << >> /\ Head(<<e>> \o t) = e
  <2>1. e \in Calls
    BY DEF Calls
  <2> DEFINE u == <<e>> \o t
  <2>2. /\ u \in Seq(Calls) /\ u # << >> /\ Head(u) = e /\ u[1] = e
        /\ \A i \in DOMAIN u : i = 1 \/ (i - 1 \in DOMAIN t /\ u[i] = t[i - 1])
    BY <2>1, Stacked
  <2> HIDE DEF u
  <2>3. Shape(u)
    BY <2>2 DEF Quiet, Shape
  <2> QED BY <2>2, <2>3 DEF u
<1>5. /\ Shape(<<"flush">> \o (<<"append">> \o t)) /\ <<"flush">> \o (<<"append">> \o t) \in Seq(Calls)
      /\ <<"flush">> \o (<<"append">> \o t) # << >> /\ Head(<<"flush">> \o (<<"append">> \o t)) = "flush"
  <2> DEFINE u == <<"append">> \o t
  <2> DEFINE v == <<"flush">> \o u
  <2>1. "flush" \in Calls /\ "append" \in Calls
    BY DEF Calls
  <2>2. /\ u \in Seq(Calls) /\ u[1] = "append"
        /\ \A i \in DOMAIN u : i = 1 \/ (i - 1 \in DOMAIN t /\ i \in Nat /\ u[i] = t[i - 1])
    BY <2>1, Stacked
  <2> HIDE DEF u
  <2>3. /\ v \in Seq(Calls) /\ v # << >> /\ Head(v) = "flush" /\ v[1] = "flush"
        /\ \A i \in DOMAIN v : i = 1 \/ (i - 1 \in DOMAIN u /\ i \in Nat /\ v[i] = u[i - 1])
    BY <2>1, <2>2, Stacked
  <2> HIDE DEF v
  <2>4. \A i \in DOMAIN u : i # 1 => u[i] # "append" /\ u[i] # "chunks"
    BY <2>2 DEF Quiet
  <2>5. ASSUME NEW i \in DOMAIN v, i # 1, i # 2 PROVE v[i] # "append" /\ v[i] # "chunks"
    <3>1. i - 1 \in DOMAIN u /\ i - 1 # 1 /\ v[i] = u[i - 1]
      BY <2>3, <2>5
    <3> QED BY <2>4, <3>1
  <2>6. 2 \in DOMAIN v => v[2] = "append"
    BY <2>2, <2>3
  <2>7. Shape(v)
    BY <2>3, <2>5, <2>6 DEF Shape
  <2> QED BY <2>3, <2>7 DEF u, v
<1> QED BY <1>1, <1>2, <1>3, <1>4, <1>5

\* The calls that push makes are put before a quiet rest.
LEMMA PushStacked ==
  ASSUME NEW t \in Seq(Calls), Quiet(t), NEW p
  PROVE  /\ PushCalls(p) \o t \in Seq(Calls) /\ Shape(PushCalls(p) \o t)
         /\ "append" \in Range(PushCalls(p) \o t)
         /\ PushCalls(p) \o t # << >> /\ Head(PushCalls(p) \o t) # "chunks"
<1> DEFINE u == <<"append">> \o t
<1> DEFINE v == <<"flush">> \o u
<1>0. "flush" \in Calls /\ "append" \in Calls
  BY DEF Calls
<1>1. /\ u \in Seq(Calls) /\ Shape(u) /\ u # << >> /\ Head(u) = "append"
      /\ v \in Seq(Calls) /\ Shape(v) /\ v # << >> /\ Head(v) = "flush"
  BY CallStacked
<1>2. "append" \in Range(u)
  <2>1. u[1] = "append" /\ 1 \in DOMAIN u
    BY <1>0, Stacked
  <2> QED BY <2>1 DEF Range
<1>3. "append" \in Range(v)
  <2>1. Tail(v) = u
    BY <1>0, <1>1
  <2> QED BY <1>1, <1>2, <2>1, CallsPopped
<1>4. <<"flush", "append">> \o t = v
  <2>1. \A i \in 1 .. Len(t) + 2 : (<<"flush", "append">> \o t)[i] = v[i]
    OBVIOUS
  <2> QED BY <2>1
<1>5. PushCalls(p) \o t \in {u, v}
  BY <1>4 DEF PushCalls
<1> HIDE DEF u, v
<1> QED BY <1>1, <1>2, <1>3, <1>5

\* A flush that turns out to be long goes on with its frames.
LEMMA ChunksFirst ==
  ASSUME NEW t \in Seq(Calls), t # << >>, Shape(t), Head(t) = "flush"
  PROVE  LET u == <<"chunks">> \o Tail(t)
         IN  /\ u \in Seq(Calls) /\ Shape(u) /\ u # << >> /\ Head(u) = "chunks"
             /\ "append" \in Range(u) <=> "append" \in Range(t)
<1> DEFINE w == Tail(t)
<1> DEFINE u == <<"chunks">> \o w
<1>0. "chunks" \in Calls
  BY DEF Calls
<1>1. /\ w \in Seq(Calls) /\ Head(t) = t[1] /\ 1 \in DOMAIN t
      /\ \A i \in DOMAIN w : i \in Nat \ {0} /\ i + 1 \in DOMAIN t /\ w[i] = t[i + 1]
      /\ \A i \in DOMAIN t : i \in Nat \ {0} /\ (i # 1 => i - 1 \in DOMAIN w /\ t[i] = w[i - 1])
  BY Popped
<1> HIDE DEF w
<1>2. /\ u \in Seq(Calls) /\ u # << >> /\ Head(u) = "chunks" /\ u[1] = "chunks"
      /\ \A i \in DOMAIN w : i + 1 \in DOMAIN u /\ u[i + 1] = w[i]
      /\ \A i \in DOMAIN u : i = 1 \/ (i - 1 \in DOMAIN w /\ i - 1 # 0 /\ i \in Nat /\ u[i] = w[i - 1])
  BY <1>0, <1>1, Stacked, SMTT(30)
<1> HIDE DEF u
<1>3. Shape(u)
  BY <1>1, <1>2, SMTT(30) DEF Shape
<1>4. "append" \in Range(u) => "append" \in Range(w)
  BY <1>2 DEF Range
<1>5. "append" \in Range(w) => "append" \in Range(u)
  BY <1>2 DEF Range
<1>6. "append" \in Range(w) <=> "append" \in Range(t)
  BY CallsPopped DEF w
<1> QED BY <1>2, <1>3, <1>4, <1>5, <1>6 DEF u, w

-----------------------------------------------------------------------------
(* Types, limits and frames. *)

\* BufferInv, cut into the pieces that one kind of step disturbs.
CallInv ==
  /\ todo \in Seq(Calls) /\ Shape(todo)
  /\ Pushing => arg \in Packet /\ Len(packets) < MaxQueuePackets
TotalInv == (todo = << >> \/ Head(todo) # "chunks") => currentSize = SizeOf(packets)
QueueInv ==
  /\ retry \in Seq(Packet) /\ Len(retry) <= SendRetryMax
  /\ overflow \in Seq(Packet) /\ Len(overflow) <= SendOverflowMax
StreamInv ==
  /\ packets \in Seq(Packet) /\ Len(packets) <= MaxQueuePackets
  /\ pushed \in Seq(Packet) /\ wire \in Seq(Packet)
ScalarInv ==
  /\ currentSize \in Nat /\ timer \in BOOLEAN
  /\ pc \in {"none", "connecting", "open", "closed"}
  /\ connected \in BOOLEAN /\ emitTimer \in BOOLEAN
  /\ buffered \in Nat /\ lowEvent \in BOOLEAN
  /\ connections \in Nat /\ offered \in Nat
ArgInv == arg \in [id : Nat, len : Nat]
SetInv == accepted \subseteq Packet /\ discarded \subseteq Packet
FrameFits == frame \in [count : Nat, size : Nat] /\ FramesFit

\* The pieces together.
LEMMA Pieces ==
  BufferInv <=> /\ CallInv /\ TotalInv /\ QueueInv /\ StreamInv /\ ScalarInv /\ ArgInv
                /\ SetInv /\ FrameFits
BY DEF BufferInv, FrameInv, TypeOK, Totalled, Pushing, CallInv, TotalInv, QueueInv, StreamInv,
       ScalarInv, ArgInv, SetInv, FrameFits

\* ... and after a step.
LEMMA PiecesNext ==
  /\ CallInv' /\ TotalInv' /\ QueueInv' /\ StreamInv' /\ ScalarInv' /\ ArgInv'
  /\ SetInv' /\ FrameFits'
  => BufferInv'
BY DEF BufferInv, FrameInv, TypeOK, Totalled, Pushing, CallInv, TotalInv, QueueInv, StreamInv,
       ScalarInv, ArgInv, SetInv, FrameFits

\* They hold at the start.
LEMMA BufferInit == Init => BufferInv
<1> SUFFICES ASSUME Init PROVE BufferInv
  OBVIOUS
<1>1. << >> \in Seq(Packet) /\ << >> \in Seq(Calls) /\ Len(<< >>) = 0
  OBVIOUS
<1>2. CallInv
  BY <1>1 DEF Init, CallInv, Shape, Pushing, Range
<1>3. TotalInv
  BY SizeFacts DEF Init, TotalInv
<1>4. QueueInv /\ StreamInv
  BY <1>1 DEF Init, QueueInv, StreamInv
<1>5. ScalarInv /\ ArgInv /\ SetInv
  BY DEF Init, ScalarInv, ArgInv, SetInv, HEADER_SIZE
<1>6. FrameFits
  BY DEF Init, FrameFits, FramesFit
<1> QED BY <1>2, <1>3, <1>4, <1>5, <1>6, Pieces

\* An idle handler: no call is left.
LEMMA Idle ==
  todo = << >> => todo \in Seq(Calls) /\ Quiet(todo) /\ ~Pushing
BY DEF Quiet, Pushing, Range

\* What a handler takes up when nothing is left of the last one.
LEMMA StartCalls ==
  /\ <<"flush">> \in Seq(Calls) /\ Quiet(<<"flush">>)
  /\ AfterBufferLow \in Seq(Calls) /\ Quiet(AfterBufferLow)
  /\ <<"drainOverflow">> \in Seq(Calls) /\ Quiet(<<"drainOverflow">>)
BY DEF Calls, Quiet, AfterBufferLow

\* A quiet list of calls pushes nothing and is in no long flush.
LEMMA QuietCalls ==
  ASSUME todo' \in Seq(Calls), Quiet(todo'), (currentSize = SizeOf(packets))'
  PROVE  CallInv' /\ TotalInv'
<1>1. Shape(todo') /\ "append" \notin Range(todo')
  BY CallStacked
<1> QED BY <1>1 DEF CallInv, TotalInv, Pushing

\* The pieces that a step leaves alone.
LEMMA Untouched ==
  /\ QueueInv /\ UNCHANGED <<retry, overflow>> => QueueInv'
  /\ StreamInv /\ UNCHANGED <<packets, pushed, wire>> => StreamInv'
  /\ ScalarInv /\ UNCHANGED <<currentSize, timer, connVars, dcVars, offered>> => ScalarInv'
  /\ ArgInv /\ UNCHANGED arg => ArgInv'
  /\ SetInv /\ UNCHANGED <<accepted, discarded>> => SetInv'
  /\ FrameFits /\ UNCHANGED frame => FrameFits'
<1>1. QueueInv /\ UNCHANGED <<retry, overflow>> => QueueInv'
  BY DEF QueueInv
<1>2. StreamInv /\ UNCHANGED <<packets, pushed, wire>> => StreamInv'
  BY DEF StreamInv
<1>3. ScalarInv /\ UNCHANGED <<currentSize, timer, connVars, dcVars, offered>> => ScalarInv'
  BY DEF ScalarInv, connVars, dcVars
<1>4. ArgInv /\ UNCHANGED arg => ArgInv'
  BY DEF ArgInv
<1>5. SetInv /\ UNCHANGED <<accepted, discarded>> => SetInv'
  BY DEF SetInv
<1>6. FrameFits /\ UNCHANGED frame => FrameFits'
  BY DEF FrameFits, FramesFit
<1> QED BY <1>1, <1>2, <1>3, <1>4, <1>5, <1>6

\* A step of push: the packet joins the queue.
LEMMA AppendKeeps == BufferInv /\ PushAppend => BufferInv'
<1> SUFFICES ASSUME BufferInv, PushAppend PROVE BufferInv'
  OBVIOUS
<1>0. CallInv /\ TotalInv /\ QueueInv /\ StreamInv /\ ScalarInv /\ ArgInv /\ SetInv /\ FrameFits
  BY Pieces
<1>1. /\ todo \in Seq(Calls) /\ todo # << >> /\ Head(todo) = "append" /\ Shape(todo)
  BY <1>0 DEF PushAppend, Call, CallInv
<1>2. Tail(todo) \in Seq(Calls) /\ Quiet(Tail(todo)) /\ "append" \in Range(todo)
  BY <1>1, CallsPopped
<1>3. arg \in Packet /\ Len(packets) < MaxQueuePackets /\ currentSize = SizeOf(packets)
  BY <1>0, <1>1, <1>2 DEF CallInv, TotalInv, Pushing
<1>4. todo' \in Seq(Calls) /\ Quiet(todo')
  <2>1. todo' = Tail(todo) \/ todo' = <<"flush">> \o Tail(todo)
    BY DEF PushAppend
  <2> QED BY <1>2, <2>1, CallStacked
<1>5. packets' = Append(packets, arg) /\ pushed' = Append(pushed, arg) /\ wire' = wire
  BY DEF PushAppend, Appended
<1>6. currentSize' = SizeOf(packets') /\ currentSize' \in Nat
  <2>1. currentSize' = currentSize + EntrySize(arg)
    BY DEF PushAppend
  <2>2. packets \in Seq(Packet)
    BY <1>0 DEF StreamInv
  <2>3. SizeOf(packets') = SizeOf(packets) + EntrySize(arg) /\ EntrySize(arg) \in Nat /\ SizeOf(packets) \in Nat
    BY <1>3, <1>5, <2>2, SizeFacts, EntryType
  <2> QED BY <1>3, <2>1, <2>3
<1>7. CallInv' /\ TotalInv'
  BY <1>4, <1>6, QuietCalls
<1>8. StreamInv'
  BY <1>0, <1>3, <1>5 DEF StreamInv
<1>9. ScalarInv'
  <2>1. timer' \in BOOLEAN
    BY <1>0 DEF PushAppend, FlushTimerSet, ScalarInv
  <2>2. UNCHANGED <<connVars, dcVars, offered>>
    BY DEF PushAppend
  <2> QED BY <1>0, <1>6, <2>1, <2>2 DEF ScalarInv, connVars, dcVars
<1>10. UNCHANGED <<retry, overflow, arg, accepted, discarded, frame>>
  BY DEF PushAppend
<1> QED BY <1>0, <1>7, <1>8, <1>9, <1>10, Untouched, PiecesNext

\* The calls after one that is not an append and not part of a long flush.
LEMMA PopKeeps ==
  ASSUME CallInv, todo # << >>, todo' = Tail(todo), Head(todo) # "append",
         UNCHANGED arg, Len(packets') <= Len(packets), Len(packets') \in Nat, Len(packets) \in Nat,
         currentSize' = SizeOf(packets)'
  PROVE  CallInv' /\ TotalInv'
<1>1. todo \in Seq(Calls) /\ Shape(todo)
  BY DEF CallInv
<1>2. todo' \in Seq(Calls) /\ Shape(todo') /\ ("append" \in Range(todo') => "append" \in Range(todo))
  BY <1>1, CallsPopped
<1>3. "append" \in Range(todo) => arg \in Packet /\ Len(packets) < MaxQueuePackets
  BY DEF CallInv, Pushing
<1>4. "append" \in Range(todo') => arg' \in Packet /\ Len(packets') < MaxQueuePackets
  BY <1>2, <1>3
<1> QED BY <1>2, <1>4 DEF CallInv, TotalInv, Pushing

\* The steps of _flush.
LEMMA FlushKeeps ==
  BufferInv /\ (FlushNothing \/ FlushWhole \/ FlushLong \/ FlushChunk \/ FlushLongEnd) => BufferInv'
<1> SUFFICES ASSUME BufferInv,
                    FlushNothing \/ FlushWhole \/ FlushLong \/ FlushChunk \/ FlushLongEnd
             PROVE  BufferInv'
  OBVIOUS
<1>0. CallInv /\ TotalInv /\ QueueInv /\ StreamInv /\ ScalarInv /\ ArgInv /\ SetInv /\ FrameFits
  BY Pieces
<1>1. /\ packets \in Seq(Packet) /\ Len(packets) \in Nat /\ SizeOf(packets) \in Nat
      /\ currentSize \in Nat /\ buffered \in Nat
  BY <1>0, SizeFacts DEF StreamInv, ScalarInv
<1>2. todo \in Seq(Calls) /\ Shape(todo)
  BY <1>0 DEF CallInv
<1>3. UNCHANGED <<retry, overflow, connVars, lowEvent, arg, offered, accepted, pushed, discarded>>
  BY DEF FlushNothing, FlushWhole, FlushLong, FlushChunk, FlushLongEnd, dcVars, histVars
<1>4. QueueInv' /\ ArgInv' /\ SetInv'
  BY <1>0, <1>3, Untouched
<1>5. CASE FlushNothing
  <2>1. /\ todo # << >> /\ Head(todo) = "flush" /\ todo' = Tail(todo)
        /\ UNCHANGED <<packets, currentSize, buffered, arg, wire, pushed, frame>>
        /\ timer' \in BOOLEAN
    BY <1>5 DEF FlushNothing, Call, dcVars, histVars
  <2>2. currentSize' = SizeOf(packets)'
    BY <1>0, <2>1 DEF TotalInv
  <2>3. CallInv' /\ TotalInv'
    BY <1>0, <1>1, <2>1, <2>2, PopKeeps
  <2>4. StreamInv' /\ FrameFits'
    BY <1>0, <2>1, Untouched
  <2>5. ScalarInv'
    BY <1>0, <1>3, <2>1 DEF ScalarInv, connVars
  <2> QED BY <1>4, <2>3, <2>4, <2>5, PiecesNext
<1>6. CASE FlushWhole
  <2>1. /\ todo # << >> /\ Head(todo) = "flush" /\ todo' = Tail(todo)
        /\ packets' = << >> /\ currentSize' = HEADER_SIZE /\ timer' = FALSE
        /\ packets # << >> /\ currentSize <= MaxFrameSize
        /\ UNCHANGED arg
    BY <1>6 DEF FlushWhole, Call
  <2>2. /\ frame' = [count |-> Len(packets), size |-> SizeOf(packets)]
        /\ wire' = wire \o packets
        /\ buffered' = buffered + (IF Len(packets) = 1 THEN packets[1].len ELSE SizeOf(packets))
    BY <1>6 DEF FlushWhole, SendFrame
  <2>3. currentSize' = SizeOf(packets)'
    BY <2>1, SizeFacts
  <2>4. CallInv' /\ TotalInv'
    BY <1>0, <1>1, <2>1, <2>3, PopKeeps
  <2>5. StreamInv'
    BY <1>0, <1>3, <2>1, <2>2 DEF StreamInv
  <2>6. FrameFits'
    <3>1. currentSize = SizeOf(packets)
      BY <1>0, <2>1 DEF TotalInv
    <3> QED BY <1>1, <2>1, <2>2, <3>1 DEF FrameFits, FramesFit
  <2>7. ScalarInv'
    <3>0. ASSUME Len(packets) = 1 PROVE packets[1] \in Packet
      <4>1. 1 \in 1 .. Len(packets)
        BY <3>0
      <4> QED BY <1>1, <4>1, ElementOfSeq
    <3>1. Len(packets) = 1 => packets[1].len \in Nat
      BY <3>0 DEF Packet
    <3>2. buffered' \in Nat
      BY <1>1, <2>2, <3>1, SMTT(30)
    <3> QED BY <1>0, <1>3, <2>1, <3>2 DEF ScalarInv, connVars, HEADER_SIZE
  <2> QED BY <1>4, <2>4, <2>5, <2>6, <2>7, PiecesNext
<1>7. CASE FlushLong
  <2>1. /\ todo # << >> /\ Head(todo) = "flush" /\ todo' = <<"chunks">> \o Tail(todo)
        /\ UNCHANGED <<packets, currentSize, buffered, arg, wire, pushed, frame>>
        /\ timer' = FALSE
    BY <1>7 DEF FlushLong, Call, dcVars, histVars
  <2>2. /\ todo' \in Seq(Calls) /\ Shape(todo') /\ todo' # << >> /\ Head(todo') = "chunks"
        /\ "append" \in Range(todo') <=> "append" \in Range(todo)
    BY <1>2, <2>1, ChunksFirst
  <2>3. CallInv' /\ TotalInv'
    BY <1>0, <2>1, <2>2 DEF CallInv, TotalInv, Pushing
  <2>4. StreamInv' /\ FrameFits'
    BY <1>0, <2>1, Untouched
  <2>5. ScalarInv'
    BY <1>0, <1>3, <2>1 DEF ScalarInv, connVars
  <2> QED BY <1>4, <2>3, <2>4, <2>5, PiecesNext
<1>8. CASE FlushChunk
  <2>1. /\ todo # << >> /\ Head(todo) = "chunks" /\ todo' = todo
        /\ UNCHANGED <<arg, currentSize, timer>>
    BY <1>8 DEF FlushChunk, Call
  <2>2. PICK c \in 1 .. Len(packets) :
          /\ IsChunk(packets, c)
          /\ SendFrame(SubSeq(packets, 1, c))
          /\ packets' = SubSeq(packets, c + 1, Len(packets))
    BY <1>8 DEF FlushChunk
  <2> DEFINE ps == SubSeq(packets, 1, c)
  <2>3. ps \in Seq(Packet) /\ Len(ps) = c /\ (c = 1 => ps[1] \in Packet)
    BY <1>1, <2>2
  <2>4. packets' \in Seq(Packet) /\ Len(packets') <= Len(packets) /\ Len(packets') \in Nat
    BY <1>1, <2>2
  <2>5. c > 1 => SizeOf(ps) <= MaxFrameSize
    BY <2>2 DEF IsChunk
  <2>6. /\ frame' = [count |-> Len(ps), size |-> SizeOf(ps)]
        /\ wire' = wire \o ps
        /\ buffered' = buffered + (IF Len(ps) = 1 THEN ps[1].len ELSE SizeOf(ps))
    BY <2>2 DEF SendFrame
  <2> HIDE DEF ps
  <2>7. SizeOf(ps) \in Nat
    BY <2>3, SizeFacts
  <2>8. FrameFits'
    BY <2>2, <2>3, <2>5, <2>6, <2>7 DEF FrameFits, FramesFit
  <2>9. StreamInv'
    BY <1>0, <1>1, <1>3, <2>3, <2>4, <2>6 DEF StreamInv
  <2>10. ScalarInv'
    <3>1. c = 1 => ps[1].len \in Nat
      BY <2>3 DEF Packet
    <3>2. buffered' \in Nat
      BY <1>1, <2>3, <2>6, <2>7, <3>1
    <3> QED BY <1>0, <1>3, <2>1, <3>2 DEF ScalarInv, connVars
  <2>11. CallInv'
    <3>1. "append" \in Range(todo) => arg \in Packet /\ Len(packets) < MaxQueuePackets
      BY <1>0 DEF CallInv, Pushing
    <3>2. "append" \in Range(todo) => Len(packets') < MaxQueuePackets
      BY <1>1, <2>4, <3>1
    <3> QED BY <1>2, <2>1, <3>1, <3>2 DEF CallInv, Pushing
  <2>12. TotalInv'
    BY <2>1 DEF TotalInv
  <2> QED BY <1>4, <2>8, <2>9, <2>10, <2>11, <2>12, PiecesNext
<1>9. CASE FlushLongEnd
  <2>1. /\ todo # << >> /\ Head(todo) = "chunks" /\ todo' = Tail(todo)
        /\ UNCHANGED <<packets, buffered, arg, wire, pushed, frame>>
        /\ timer' \in BOOLEAN /\ currentSize' = SizeOf(packets)
    BY <1>9 DEF FlushLongEnd, Call, dcVars, histVars, SizeAfterChunks
  <2>2. currentSize' = SizeOf(packets)'
    BY <2>1
  <2>3. CallInv' /\ TotalInv'
    BY <1>0, <1>1, <2>1, <2>2, PopKeeps
  <2>4. StreamInv' /\ FrameFits'
    BY <1>0, <2>1, Untouched
  <2>5. ScalarInv'
    BY <1>0, <1>1, <1>3, <2>1 DEF ScalarInv, connVars
  <2> QED BY <1>4, <2>3, <2>4, <2>5, PiecesNext
<1> QED BY <1>5, <1>6, <1>7, <1>8, <1>9

\* What Send does to the calls and the overflow queue.
LEMMA SendKeeps ==
  ASSUME CallInv, TotalInv, QueueInv, StreamInv, ArgInv, NEW p \in Packet, NEW after \in Seq(Calls),
         Quiet(after), Send(p, after), todo = << >> \/ Head(todo) # "chunks",
         UNCHANGED <<packets, currentSize>>
  PROVE  /\ CallInv' /\ TotalInv' /\ ArgInv'
         /\ overflow' \in Seq(Packet) /\ Len(overflow') <= SendOverflowMax
<1>1. currentSize' = SizeOf(packets)'
  BY DEF TotalInv
<1>2. arg \in [id : Nat, len : Nat] /\ p \in [id : Nat, len : Nat]
  BY DEF ArgInv, Packet
<1>3. overflow \in Seq(Packet) /\ Len(overflow) <= SendOverflowMax
  BY DEF QueueInv
<1>4. CASE /\ BufferHasRoom /\ arg' = p /\ UNCHANGED overflow
           /\ todo' = PushCalls(p) \o <<"drainOverflow">> \o after
  <2> DEFINE rest == <<"drainOverflow">> \o after
  <2>1. rest \in Seq(Calls) /\ Quiet(rest)
    BY CallStacked
  <2>2. PushCalls(p) \in Seq(Calls)
    <3>1. <<"flush", "append">> \in Seq(Calls) /\ <<"append">> \in Seq(Calls)
      BY DEF Calls
    <3> QED BY <3>1 DEF PushCalls
  <2>3. todo' = PushCalls(p) \o rest
    <3>1. <<"drainOverflow">> \in Seq(Calls)
      BY StartCalls
    <3> QED BY <1>4, <2>2, <3>1, ConcatAssociative, SMTT(60)
  <2> HIDE DEF rest
  <2>4. /\ todo' \in Seq(Calls) /\ Shape(todo') /\ todo' # << >> /\ Head(todo') # "chunks"
    BY <2>1, <2>3, PushStacked
  <2>5. CallInv'
    BY <1>4, <2>4 DEF CallInv, BufferHasRoom
  <2> QED BY <1>1, <1>2, <1>3, <1>4, <2>5 DEF TotalInv, ArgInv
<1>5. CASE /\ OverflowHasRoom /\ overflow' = Append(overflow, p) /\ todo' = after /\ UNCHANGED arg
  <2>1. CallInv' /\ TotalInv'
    BY <1>1, <1>5, QuietCalls
  <2>2. overflow' \in Seq(Packet) /\ Len(overflow') <= SendOverflowMax
    BY <1>3, <1>5 DEF OverflowHasRoom
  <2>3. ArgInv'
    BY <1>2, <1>5 DEF ArgInv
  <2> QED BY <2>1, <2>2, <2>3
<1> QED BY <1>4, <1>5 DEF Send

\* A step of the loops that drain the overflow and the retry queue.
LEMMA DrainKeeps ==
  BufferInv /\ (DrainOverflow \/ DrainOverflowEnd \/ DrainRetry \/ DrainRetryEnd) => BufferInv'
<1> SUFFICES ASSUME BufferInv,
                    DrainOverflow \/ DrainOverflowEnd \/ DrainRetry \/ DrainRetryEnd
             PROVE  BufferInv'
  OBVIOUS
<1>0. CallInv /\ TotalInv /\ QueueInv /\ StreamInv /\ ScalarInv /\ ArgInv /\ SetInv /\ FrameFits
  BY Pieces
<1>1. /\ todo # << >> /\ Head(todo) \in {"drainOverflow", "drainRetry"}
      /\ UNCHANGED <<packets, currentSize, timer, connVars, dcVars, histVars>>
  BY DEF DrainOverflow, DrainOverflowEnd, DrainRetry, DrainRetryEnd, Call, queueVars
<1>2. StreamInv' /\ ScalarInv' /\ SetInv' /\ FrameFits'
  BY <1>0, <1>1, Untouched DEF histVars
<1>3. todo \in Seq(Calls) /\ Quiet(todo) /\ currentSize' = SizeOf(packets)' /\ ~Pushing
  <2>1. todo \in Seq(Calls) /\ Shape(todo)
    BY <1>0 DEF CallInv
  <2>2. Quiet(todo)
    BY <1>1, <2>1, CallsPopped
  <2>3. "append" \notin Range(todo)
    BY <2>1, <2>2, CallStacked
  <2>4. currentSize' = SizeOf(packets)'
    BY <1>0, <1>1 DEF TotalInv
  <2> QED BY <2>1, <2>2, <2>3, <2>4 DEF Pushing
<1>4. retry \in Seq(Packet) /\ overflow \in Seq(Packet)
  BY <1>0 DEF QueueInv
<1>5. CASE DrainOverflow
  <2>1. /\ overflow # << >> /\ BufferHasRoom /\ arg' = Head(overflow) /\ overflow' = Tail(overflow)
        /\ todo' = PushCalls(Head(overflow)) \o todo /\ UNCHANGED retry
    BY <1>5 DEF DrainOverflow
  <2>2. Head(overflow) \in Packet /\ Tail(overflow) \in Seq(Packet) /\ Len(Tail(overflow)) <= Len(overflow)
        /\ Len(Tail(overflow)) \in Nat /\ Len(overflow) \in Nat
    BY <1>4, <2>1
  <2>3. QueueInv'
    <3>1. retry' \in Seq(Packet) /\ Len(retry') <= SendRetryMax
      BY <1>0, <2>1 DEF QueueInv
    <3>2. Len(overflow) <= SendOverflowMax
      BY <1>0 DEF QueueInv
    <3>3. Len(overflow') <= SendOverflowMax /\ overflow' \in Seq(Packet)
      BY <2>1, <2>2, <3>2
    <3> QED BY <3>1, <3>3 DEF QueueInv
  <2>4. ArgInv' /\ arg' \in Packet
    BY <2>1, <2>2 DEF ArgInv, Packet
  <2>5. /\ todo' \in Seq(Calls) /\ Shape(todo') /\ todo' # << >> /\ Head(todo') # "chunks"
    BY <1>3, <2>1, PushStacked
  <2>6. CallInv' /\ TotalInv'
    BY <1>1, <1>3, <2>1, <2>4, <2>5 DEF CallInv, TotalInv, BufferHasRoom
  <2> QED BY <1>2, <2>3, <2>4, <2>6, PiecesNext
<1>6. CASE DrainOverflowEnd \/ DrainRetryEnd
  <2>1. todo' = Tail(todo) /\ UNCHANGED <<retry, overflow, arg>>
    BY <1>6 DEF DrainOverflowEnd, DrainRetryEnd, queueVars
  <2>2. packets \in Seq(Packet)
    BY <1>0 DEF StreamInv
  <2>3. Len(packets') <= Len(packets) /\ Len(packets') \in Nat /\ Len(packets) \in Nat
    BY <1>1, <2>2
  <2>4. CallInv' /\ TotalInv'
    BY <1>0, <1>1, <1>3, <2>1, <2>3, PopKeeps
  <2>5. QueueInv' /\ ArgInv'
    BY <1>0, <2>1, Untouched
  <2> QED BY <1>2, <2>4, <2>5, PiecesNext
<1>7. CASE DrainRetry
  <2>1. retry # << >> /\ Send(Head(retry), todo) /\ retry' = Tail(retry)
    BY <1>7 DEF DrainRetry
  <2>2. Head(retry) \in Packet /\ Tail(retry) \in Seq(Packet) /\ Len(Tail(retry)) <= Len(retry)
        /\ Len(Tail(retry)) \in Nat /\ Len(retry) \in Nat
    BY <1>4, <2>1
  <2>3. /\ CallInv' /\ TotalInv' /\ ArgInv'
        /\ overflow' \in Seq(Packet) /\ Len(overflow') <= SendOverflowMax
    BY <1>0, <1>1, <1>3, <2>1, <2>2, SendKeeps
  <2>4. QueueInv'
    <3>1. Len(retry) <= SendRetryMax
      BY <1>0 DEF QueueInv
    <3>2. Len(retry') <= SendRetryMax /\ retry' \in Seq(Packet)
      BY <2>1, <2>2, <3>1
    <3> QED BY <2>3, <3>2 DEF QueueInv
  <2> QED BY <1>2, <2>3, <2>4, PiecesNext
<1> QED BY <1>5, <1>6, <1>7

\* A new packet.
LEMMA OfferKeeps ==
  ASSUME BufferInv, NEW len \in Lens,
         \/ SendNow(NextPacket(len)) \/ SendLater(NextPacket(len)) \/ SendRefused(NextPacket(len))
  PROVE  BufferInv'
<1> DEFINE p == NextPacket(len)
<1>0. CallInv /\ TotalInv /\ QueueInv /\ StreamInv /\ ScalarInv /\ ArgInv /\ SetInv /\ FrameFits
  BY Pieces
<1>1. p \in Packet
  BY <1>0 DEF NextPacket, Packet, ScalarInv
<1> HIDE DEF p
<1>2. /\ offered' = offered + 1 /\ todo = << >>
      /\ UNCHANGED <<packets, currentSize, timer, connVars, dcVars, pushed, wire, discarded, frame>>
  BY DEF SendNow, SendLater, SendRefused, Offer, queueVars
<1>3. StreamInv' /\ FrameFits'
  BY <1>0, <1>2, Untouched
<1>4. ScalarInv'
  BY <1>0, <1>2 DEF ScalarInv, connVars, dcVars
<1>5. SetInv'
  <2>1. accepted' = accepted \/ accepted' = accepted \cup {p}
    BY DEF SendNow, SendLater, SendRefused, Accept, p
  <2> QED BY <1>0, <1>1, <1>2, <2>1 DEF SetInv
<1>6. todo \in Seq(Calls) /\ Quiet(todo) /\ currentSize' = SizeOf(packets)'
  BY <1>0, <1>2, Idle DEF TotalInv
<1>7. CASE SendNow(p)
  <2>1. Send(p, << >>) /\ UNCHANGED retry
    BY <1>7 DEF SendNow
  <2>2. /\ CallInv' /\ TotalInv' /\ ArgInv'
        /\ overflow' \in Seq(Packet) /\ Len(overflow') <= SendOverflowMax
    BY <1>0, <1>1, <1>2, <1>6, <2>1, SendKeeps
  <2>3. QueueInv'
    BY <1>0, <2>1, <2>2 DEF QueueInv
  <2> QED BY <1>3, <1>4, <1>5, <2>2, <2>3, PiecesNext
<1>8. CASE SendLater(p)
  <2>1. /\ retry = << >> \/ Len(retry) < SendRetryMax
        /\ retry' = Append(retry, p) /\ UNCHANGED <<overflow, todo, arg>>
    BY <1>8 DEF SendLater, NothingQueued, RetryWith
  <2>2. QueueInv'
    BY <1>0, <1>1, <2>1 DEF QueueInv
  <2>3. CallInv' /\ TotalInv'
    BY <1>6, <2>1, QuietCalls
  <2>4. ArgInv'
    BY <1>0, <2>1, Untouched
  <2> QED BY <1>3, <1>4, <1>5, <2>2, <2>3, <2>4, PiecesNext
<1>9. CASE SendRefused(p)
  <2>1. UNCHANGED <<retry, overflow, todo, arg>>
    BY <1>9 DEF SendRefused, queueVars
  <2>2. QueueInv' /\ ArgInv'
    BY <1>0, <2>1, Untouched
  <2>3. CallInv' /\ TotalInv'
    BY <1>6, <2>1, QuietCalls
  <2> QED BY <1>3, <1>4, <1>5, <2>2, <2>3, PiecesNext
<1> QED BY <1>7, <1>8, <1>9 DEF p

\* What a stopped send buffer looks like.
LEMMA StopKeeps ==
  ASSUME StreamInv, ScalarInv, CallInv, todo = << >>, StopBuffer, UNCHANGED <<wire, todo>>
  PROVE  /\ StreamInv' /\ CallInv' /\ TotalInv'
         /\ currentSize' \in Nat /\ timer' \in BOOLEAN /\ buffered' \in Nat /\ lowEvent' \in BOOLEAN
<1>1. /\ packets' = << >> /\ pushed' = wire /\ currentSize' = HEADER_SIZE
      /\ timer' = FALSE /\ buffered' = 0 /\ lowEvent' = FALSE
  BY DEF StopBuffer
<1>2. StreamInv'
  BY <1>1 DEF StreamInv
<1>3. currentSize' = SizeOf(packets)'
  BY <1>1, SizeFacts
<1>4. CallInv' /\ TotalInv'
  BY <1>3, Idle, QuietCalls
<1> QED BY <1>1, <1>2, <1>4 DEF HEADER_SIZE

\* What the packets of a queue are.
LEMMA InType == ASSUME NEW q \in Seq(Packet) PROVE In(q) \subseteq Packet
BY ElementOfSeq DEF In

\* The life of the connection.
LEMMA ConnectionKeeps ==
  BufferInv /\ (NewPeerConnection \/ DcOpen \/ DcClosed \/ PcFailed \/ PeerDisconnected) => BufferInv'
<1> SUFFICES ASSUME BufferInv,
                    NewPeerConnection \/ DcOpen \/ DcClosed \/ PcFailed \/ PeerDisconnected
             PROVE  BufferInv'
  OBVIOUS
<1>0. CallInv /\ TotalInv /\ QueueInv /\ StreamInv /\ ScalarInv /\ ArgInv /\ SetInv /\ FrameFits
  BY Pieces
<1>1. todo = << >> /\ UNCHANGED <<todo, arg, offered, accepted, wire, frame>>
  BY DEF NewPeerConnection, DcOpen, DcClosed, PcFailed, PeerDisconnected, histVars
<1>2. ArgInv' /\ FrameFits'
  BY <1>0, <1>1, Untouched
<1>3. todo \in Seq(Calls) /\ Quiet(todo) /\ currentSize = SizeOf(packets)
  BY <1>0, <1>1, Idle DEF TotalInv
<1>4. /\ retry \in Seq(Packet) /\ overflow \in Seq(Packet) /\ packets \in Seq(Packet)
      /\ << >> \in Seq(Packet) /\ Len(<< >>) = 0
      /\ Len(retry) <= SendRetryMax /\ Len(overflow) <= SendOverflowMax
  BY <1>0 DEF QueueInv, StreamInv
<1>5. In(retry) \subseteq Packet /\ In(overflow) \subseteq Packet /\ In(packets) \subseteq Packet
  BY <1>4, InType
<1>6. UNCHANGED <<packets, currentSize>> => CallInv' /\ TotalInv'
  BY <1>1, <1>3, QuietCalls
<1>7. CASE NewPeerConnection
  <2>1. connections' = connections + 1 /\ pc' = "connecting" /\ UNCHANGED <<retry, connected>>
    BY <1>7 DEF NewPeerConnection
  <2>2. CASE pc # "none"
    <3>1. /\ StopBuffer /\ overflow' = << >> /\ emitTimer' = FALSE
          /\ discarded' = discarded \cup In(packets) \cup In(overflow)
      BY <1>7, <2>2 DEF NewPeerConnection
    <3>2. /\ StreamInv' /\ CallInv' /\ TotalInv'
          /\ currentSize' \in Nat /\ timer' \in BOOLEAN /\ buffered' \in Nat /\ lowEvent' \in BOOLEAN
      BY <1>0, <1>1, <3>1, StopKeeps
    <3>3. QueueInv'
      BY <1>4, <2>1, <3>1 DEF QueueInv
    <3>4. SetInv'
      BY <1>0, <1>1, <1>5, <3>1 DEF SetInv
    <3>5. ScalarInv'
      <4>1. emitTimer' = FALSE
        BY <3>1
      <4>2. connections' \in Nat /\ offered' \in Nat
        BY <1>0, <1>1, <2>1 DEF ScalarInv
      <4>3. connected' \in BOOLEAN /\ pc' = "connecting"
        BY <1>0, <2>1 DEF ScalarInv
      <4> QED BY <3>2, <4>1, <4>2, <4>3 DEF ScalarInv
    <3> QED BY <1>2, <3>2, <3>3, <3>4, <3>5, PiecesNext
  <2>3. CASE pc = "none"
    <3>1. UNCHANGED <<packets, currentSize, timer, dcVars, overflow, emitTimer, pushed, discarded>>
      BY <1>7, <2>3 DEF NewPeerConnection
    <3>2. CallInv' /\ TotalInv' /\ QueueInv' /\ StreamInv' /\ SetInv'
      BY <1>0, <1>1, <1>6, <2>1, <3>1, Untouched
    <3>3. ScalarInv'
      BY <1>0, <1>1, <2>1, <3>1 DEF ScalarInv, dcVars
    <3> QED BY <1>2, <3>2, <3>3, PiecesNext
  <2> QED BY <2>2, <2>3
<1>8. CASE DcOpen
  <2>1. /\ pc' = "open" /\ connected' = TRUE
        /\ UNCHANGED <<queueVars, emitTimer, connections, dcVars, histVars>>
    BY <1>8 DEF DcOpen
  <2>2. CallInv' /\ TotalInv' /\ QueueInv' /\ StreamInv' /\ SetInv'
    BY <1>0, <1>6, <2>1, Untouched DEF queueVars, histVars
  <2>3. ScalarInv'
    BY <1>0, <2>1 DEF ScalarInv, dcVars, queueVars, histVars
  <2> QED BY <1>2, <2>2, <2>3, PiecesNext
<1>9. CASE DcClosed
  <2>1. /\ StopBuffer /\ pc' = "closed" /\ emitTimer' = TRUE
        /\ discarded' = discarded \cup In(packets)
        /\ UNCHANGED <<retry, overflow, connected, connections>>
    BY <1>9 DEF DcClosed
  <2>2. /\ StreamInv' /\ CallInv' /\ TotalInv'
        /\ currentSize' \in Nat /\ timer' \in BOOLEAN /\ buffered' \in Nat /\ lowEvent' \in BOOLEAN
    BY <1>0, <1>1, <2>1, StopKeeps
  <2>3. QueueInv'
    BY <1>0, <2>1, Untouched
  <2>4. SetInv'
    BY <1>0, <1>1, <1>5, <2>1 DEF SetInv
  <2>5. ScalarInv'
    BY <1>0, <1>1, <2>1, <2>2 DEF ScalarInv
  <2> QED BY <1>2, <2>2, <2>3, <2>4, <2>5, PiecesNext
<1>10. CASE PcFailed
  <2>1. /\ StopBuffer /\ pc' = "none" /\ emitTimer' = TRUE /\ overflow' = << >>
        /\ discarded' = discarded \cup In(packets) \cup In(overflow)
        /\ UNCHANGED <<retry, connected, connections>>
    BY <1>10 DEF PcFailed
  <2>2. /\ StreamInv' /\ CallInv' /\ TotalInv'
        /\ currentSize' \in Nat /\ timer' \in BOOLEAN /\ buffered' \in Nat /\ lowEvent' \in BOOLEAN
    BY <1>0, <1>1, <2>1, StopKeeps
  <2>3. QueueInv'
    BY <1>4, <2>1 DEF QueueInv
  <2>4. SetInv'
    BY <1>0, <1>1, <1>5, <2>1 DEF SetInv
  <2>5. ScalarInv'
    BY <1>0, <1>1, <2>1, <2>2 DEF ScalarInv
  <2> QED BY <1>2, <2>2, <2>3, <2>4, <2>5, PiecesNext
<1>11. CASE PeerDisconnected
  <2>1. /\ emitTimer' = FALSE /\ connected' = FALSE /\ retry' = << >>
        /\ discarded' = discarded \cup In(retry)
        /\ UNCHANGED <<overflow, packets, currentSize, timer, pc, connections, dcVars, pushed>>
    BY <1>11 DEF PeerDisconnected
  <2>2. CallInv' /\ TotalInv' /\ StreamInv'
    BY <1>0, <1>1, <1>6, <2>1, Untouched
  <2>3. QueueInv'
    BY <1>4, <2>1 DEF QueueInv
  <2>4. SetInv'
    BY <1>0, <1>1, <1>5, <2>1 DEF SetInv
  <2>5. ScalarInv'
    BY <1>0, <1>1, <2>1 DEF ScalarInv, dcVars
  <2> QED BY <1>2, <2>2, <2>3, <2>4, <2>5, PiecesNext
<1> QED BY <1>7, <1>8, <1>9, <1>10, <1>11

\* The timer, the channel, and a step of something else.
LEMMA TimersKeep ==
  BufferInv /\ (FlushTimer \/ BufferedAmountLow \/ DcTransmit \/ UNCHANGED vars) => BufferInv'
<1> SUFFICES ASSUME BufferInv, FlushTimer \/ BufferedAmountLow \/ DcTransmit \/ UNCHANGED vars
             PROVE  BufferInv'
  OBVIOUS
<1>0. CallInv /\ TotalInv /\ QueueInv /\ StreamInv /\ ScalarInv /\ ArgInv /\ SetInv /\ FrameFits
  BY Pieces
<1>1. UNCHANGED <<retry, overflow, packets, currentSize, connVars, arg, histVars>>
  BY DEF FlushTimer, BufferedAmountLow, DcTransmit, vars, queueVars
<1>2. QueueInv' /\ StreamInv' /\ ArgInv' /\ SetInv' /\ FrameFits'
  BY <1>0, <1>1, Untouched DEF histVars
<1>3. ScalarInv'
  <2>1. buffered' \in Nat /\ timer' \in BOOLEAN /\ lowEvent' \in BOOLEAN
    <3>1. buffered \in Nat /\ timer \in BOOLEAN /\ lowEvent \in BOOLEAN
      BY <1>0 DEF ScalarInv
    <3>2. CASE DcTransmit
      <4>1. timer' = timer /\ lowEvent' \in BOOLEAN
        BY <3>2 DEF DcTransmit, queueVars
      <4>2. buffered' \in Nat
        BY <3>1, <3>2 DEF DcTransmit
      <4> QED BY <3>1, <4>1, <4>2
    <3>3. CASE FlushTimer \/ BufferedAmountLow \/ UNCHANGED vars
      BY <3>1, <3>3 DEF FlushTimer, BufferedAmountLow, vars, queueVars, dcVars
    <3> QED BY <3>2, <3>3
  <2> QED BY <1>0, <1>1, <2>1 DEF ScalarInv, connVars, histVars
<1>4. CASE FlushTimer \/ BufferedAmountLow
  <2>1. todo = << >> /\ todo' \in {<<"flush">>, AfterBufferLow}
    BY <1>4 DEF FlushTimer, BufferedAmountLow
  <2>2. todo' \in Seq(Calls) /\ Quiet(todo')
    BY <2>1, StartCalls
  <2>3. currentSize' = SizeOf(packets)'
    BY <1>0, <1>1, <2>1 DEF TotalInv
  <2> QED BY <1>2, <1>3, <2>2, <2>3, QuietCalls, PiecesNext
<1>5. CASE DcTransmit \/ UNCHANGED vars
  <2>1. todo' = todo
    BY <1>5 DEF DcTransmit, vars
  <2>2. CallInv' /\ TotalInv'
    BY <1>0, <1>1, <2>1 DEF CallInv, TotalInv, Pushing
  <2> QED BY <1>2, <1>3, <2>2, PiecesNext
<1> QED BY <1>4, <1>5

\* Every step of the send path keeps them.
LEMMA BufferStep == BufferInv /\ [Next]_vars => BufferInv'
BY AppendKeeps, FlushKeeps, DrainKeeps, OfferKeeps, ConnectionKeeps, TimersKeep DEF Next, Steps

\* Queues within their limits, and frames of several packets within maxFrameSize although
\* _flush trusts its running total (send-buffer.js): the total is right whenever it is used.
THEOREM FramesWithinLimits == Spec => []FrameInv
<1>1. BufferInv => FrameInv
  BY DEF BufferInv
<1> QED BY <1>1, BufferInit, BufferStep, PTL DEF Spec

-----------------------------------------------------------------------------
(* Queues and the packets in them. *)

\* One packet more at the end.
LEMMA InAppend ==
  ASSUME NEW S, NEW q \in Seq(S), NEW x \in S
  PROVE  /\ In(Append(q, x)) = In(q) \cup {x}
         /\ IsInjective(q) /\ x \notin In(q) => IsInjective(Append(q, x))
<1> DEFINE r == Append(q, x)
<1> DEFINE n == Len(q) + 1
<1>1. /\ DOMAIN q = 1 .. Len(q) /\ DOMAIN r = 1 .. Len(q) + 1 /\ r[n] = x /\ Len(q) \in Nat
      /\ \A i \in 1 .. Len(q) : r[i] = q[i]
  OBVIOUS
<1>2. DOMAIN r = DOMAIN q \cup {n} /\ n \notin DOMAIN q
  BY <1>1
<1>3. \A i \in DOMAIN q : r[i] = q[i]
  BY <1>1
<1>4. r[n] = x
  BY <1>1
<1> HIDE DEF r, n
<1>5. In(r) = In(q) \cup {x}
  BY <1>2, <1>3, <1>4 DEF In
<1>6. IsInjective(q) /\ x \notin In(q) => IsInjective(r)
  BY <1>2, <1>3, <1>4 DEF In, IsInjective
<1> QED BY <1>5, <1>6 DEF r

\* The first packet taken away.
LEMMA InTail ==
  ASSUME NEW S, NEW q \in Seq(S), q # << >>
  PROVE  /\ In(q) = {Head(q)} \cup In(Tail(q))
         /\ IsInjective(q) => IsInjective(Tail(q)) /\ Head(q) \notin In(Tail(q))
<1> DEFINE r == Tail(q)
<1>1. /\ Head(q) = q[1] /\ 1 \in DOMAIN q
      /\ \A i \in DOMAIN r : i \in Nat \ {0} /\ i + 1 \in DOMAIN q /\ r[i] = q[i + 1]
      /\ \A i \in DOMAIN q : i \in Nat \ {0} /\ (i # 1 => i - 1 \in DOMAIN r /\ q[i] = r[i - 1])
  BY Popped
<1> HIDE DEF r
<1>2. In(r) \subseteq In(q) /\ Head(q) \in In(q)
  BY <1>1 DEF In
<1>3. In(q) \subseteq {Head(q)} \cup In(r)
  <2> SUFFICES ASSUME NEW i \in DOMAIN q PROVE q[i] \in {Head(q)} \cup In(r)
    BY DEF In
  <2>1. CASE i = 1
    BY <1>1, <2>1
  <2>2. CASE i # 1
    BY <1>1, <2>2 DEF In
  <2> QED BY <2>1, <2>2
<1>4. IsInjective(q) => IsInjective(r)
  <2> SUFFICES ASSUME IsInjective(q), NEW i \in DOMAIN r, NEW j \in DOMAIN r, r[i] = r[j] PROVE i = j
    BY DEF IsInjective
  <2>1. i + 1 = j + 1
    BY <1>1 DEF IsInjective
  <2> QED BY <1>1, <2>1
<1>5. IsInjective(q) => Head(q) \notin In(r)
  <2> SUFFICES ASSUME IsInjective(q), NEW i \in DOMAIN r, Head(q) = r[i] PROVE FALSE
    BY DEF In
  <2>1. i + 1 = 1
    BY <1>1 DEF IsInjective
  <2> QED BY <1>1, <2>1
<1> QED BY <1>2, <1>3, <1>4, <1>5 DEF r

\* One queue behind another.
LEMMA InConcat ==
  ASSUME NEW S, NEW q \in Seq(S), NEW r \in Seq(S)
  PROVE  /\ In(q \o r) = In(q) \cup In(r)
         /\ IsInjective(q) /\ IsInjective(r) /\ In(q) \cap In(r) = {} => IsInjective(q \o r)
         /\ IsInjective(q \o r) => IsInjective(q) /\ IsInjective(r) /\ In(q) \cap In(r) = {}
<1> DEFINE s == q \o r
<1> DEFINE n == Len(q)
<1>1. /\ n \in Nat /\ DOMAIN q = 1 .. n /\ DOMAIN r = 1 .. Len(r) /\ Len(r) \in Nat
      /\ DOMAIN s = 1 .. n + Len(r)
      /\ \A i \in 1 .. n + Len(r) : s[i] = IF i <= n THEN q[i] ELSE r[i - n]
  BY ConcatProperties
<1> HIDE DEF s, n
<1>2. /\ \A i \in DOMAIN q : i \in Nat /\ i \in DOMAIN s /\ s[i] = q[i]
      /\ \A i \in DOMAIN r : i \in Nat /\ i + n \in DOMAIN s /\ s[i + n] = r[i]
      /\ \A i \in DOMAIN s : i \in DOMAIN q \/ (i \in Nat /\ i - n \in DOMAIN r /\ s[i] = r[i - n])
      /\ \A i \in DOMAIN q, j \in DOMAIN r : i # j + n
  BY <1>1
<1>3. In(s) = In(q) \cup In(r)
  <2>1. In(q) \subseteq In(s)
    BY <1>2 DEF In
  <2>2. In(r) \subseteq In(s)
    BY <1>2 DEF In
  <2>3. In(s) \subseteq In(q) \cup In(r)
    <3> SUFFICES ASSUME NEW i \in DOMAIN s PROVE s[i] \in In(q) \cup In(r)
      BY DEF In
    <3> QED BY <1>2 DEF In
  <2> QED BY <2>1, <2>2, <2>3
<1>4. ASSUME IsInjective(q), IsInjective(r), In(q) \cap In(r) = {} PROVE IsInjective(s)
  <2>0. \A i \in DOMAIN q, j \in DOMAIN r : q[i] # r[j]
    BY <1>4 DEF In
  <2> SUFFICES ASSUME NEW i \in DOMAIN s, NEW j \in DOMAIN s, s[i] = s[j] PROVE i = j
    BY DEF IsInjective
  <2>1. CASE i \in DOMAIN q /\ j \in DOMAIN q
    BY <1>2, <1>4, <2>1 DEF IsInjective
  <2>2. CASE i \notin DOMAIN q /\ j \notin DOMAIN q
    <3>1. i - n \in DOMAIN r /\ j - n \in DOMAIN r /\ r[i - n] = r[j - n] /\ i \in Nat /\ j \in Nat
      BY <1>2, <2>2
    <3>2. i - n = j - n
      BY <1>4, <3>1 DEF IsInjective
    <3> QED BY <1>1, <3>1, <3>2
  <2>3. CASE i \in DOMAIN q /\ j \notin DOMAIN q
    BY <1>2, <2>0, <2>3
  <2>4. CASE i \notin DOMAIN q /\ j \in DOMAIN q
    BY <1>2, <2>0, <2>4
  <2> QED BY <2>1, <2>2, <2>3, <2>4
<1>5. ASSUME IsInjective(s) PROVE IsInjective(q) /\ IsInjective(r) /\ In(q) \cap In(r) = {}
  <2>1. IsInjective(q)
    BY <1>2, <1>5 DEF IsInjective
  <2>2. ASSUME NEW i \in DOMAIN r, NEW j \in DOMAIN r, r[i] = r[j] PROVE i = j
    <3>1. i + n = j + n
      BY <1>2, <1>5, <2>2 DEF IsInjective
    <3> QED BY <1>1, <1>2, <3>1
  <2>3. ASSUME NEW i \in DOMAIN q, NEW j \in DOMAIN r, q[i] = r[j] PROVE FALSE
    BY <1>2, <1>5, <2>3 DEF IsInjective
  <2>4. In(q) \cap In(r) = {}
    BY <2>3 DEF In
  <2> QED BY <2>1, <2>2, <2>4 DEF IsInjective
<1> QED BY <1>3, <1>4, <1>5 DEF s

\* A queue that is cut in two.
LEMMA InSplit ==
  ASSUME NEW S, NEW q \in Seq(S), NEW c \in 1 .. Len(q)
  PROVE  LET a == SubSeq(q, 1, c)  b == SubSeq(q, c + 1, Len(q))
         IN  a \in Seq(S) /\ b \in Seq(S) /\ q = a \o b
<1>1. SubSeq(q, 1, c) \in Seq(S) /\ SubSeq(q, c + 1, Len(q)) \in Seq(S)
  OBVIOUS
<1>2. 1 \in 1 .. Len(q) + 1 /\ c \in 1 - 1 .. Len(q) /\ Len(q) \in c .. Len(q)
  OBVIOUS
<1>3. SubSeq(q, 1, c) \o SubSeq(q, c + 1, Len(q)) = SubSeq(q, 1, Len(q))
  BY <1>2, ConcatAdjacentSubSeq
<1> QED BY <1>1, <1>3, SubSeqFull

-----------------------------------------------------------------------------
(* The stream through the send buffer. *)

\* What moves between the places, by the kind of step.  A step that neither sends, pushes nor
\* drops anything leaves the stream alone.
LEMMA StreamMoves ==
  ASSUME [Next]_vars
  PROVE  \/ UNCHANGED <<wire, packets, pushed>>
         \/ PushAppend \/ FlushWhole \/ FlushChunk \/ (StopBuffer /\ UNCHANGED wire)
BY DEF Next, Steps, FlushNothing, FlushLong, FlushLongEnd, DrainOverflow, DrainOverflowEnd, DrainRetry,
       DrainRetryEnd, FlushTimer, BufferedAmountLow, DcTransmit, SendNow, SendLater, SendRefused,
       NewPeerConnection, DcOpen, DcClosed, PcFailed, PeerDisconnected, vars, queueVars, histVars

\* The stream is kept by every step.
LEMMA FifoStep == BufferInv /\ BufferFifo /\ [Next]_vars => BufferFifo'
<1> SUFFICES ASSUME BufferInv, BufferFifo, [Next]_vars PROVE BufferFifo'
  OBVIOUS
<1>0. /\ CallInv /\ packets \in Seq(Packet) /\ wire \in Seq(Packet) /\ pushed = wire \o packets
      /\ << >> \in Seq(Packet)
  BY Pieces DEF StreamInv, BufferFifo
<1>1. CASE PushAppend
  <2>1. arg \in Packet
    <3>1. todo \in Seq(Calls) /\ Shape(todo) /\ todo # << >> /\ Head(todo) = "append"
      BY <1>0, <1>1 DEF PushAppend, Call, CallInv
    <3>2. Pushing
      BY <3>1, CallsPopped DEF Pushing
    <3> QED BY <1>0, <3>2 DEF CallInv
  <2>2. packets' = Append(packets, arg) /\ pushed' = Append(pushed, arg) /\ wire' = wire
    BY <1>1 DEF PushAppend, Appended
  <2>3. wire \o packets \in Seq(Packet) /\ <<arg>> \in Seq(Packet)
    BY <1>0, <2>1
  <2>4. /\ Append(wire \o packets, arg) = (wire \o packets) \o <<arg>>
        /\ Append(packets, arg) = packets \o <<arg>>
    BY <1>0, <2>1, <2>3, AppendIsConcat
  <2>5. (wire \o packets) \o <<arg>> = wire \o (packets \o <<arg>>)
    <3>1. wire \in Seq(Packet) /\ packets \in Seq(Packet) /\ <<arg>> \in Seq(Packet)
      BY <1>0, <2>3
    <3> QED BY <3>1, ConcatAssociative, SMTT(60)
  <2> QED BY <1>0, <2>2, <2>4, <2>5 DEF BufferFifo
<1>2. CASE FlushWhole
  <2>1. wire' = wire \o packets /\ packets' = << >> /\ pushed' = pushed
    BY <1>2 DEF FlushWhole, SendFrame
  <2>2. wire \o packets \in Seq(Packet)
    BY <1>0
  <2>3. (wire \o packets) \o << >> = wire \o packets
    BY <2>2, ConcatEmptySeq
  <2> QED BY <1>0, <2>1, <2>3 DEF BufferFifo
<1>3. CASE FlushChunk
  <2>1. pushed' = pushed
    BY <1>3 DEF FlushChunk
  <2>2. PICK c \in 1 .. Len(packets) :
          /\ wire' = wire \o SubSeq(packets, 1, c)
          /\ packets' = SubSeq(packets, c + 1, Len(packets))
    BY <1>3 DEF FlushChunk, SendFrame
  <2> DEFINE a == SubSeq(packets, 1, c)
  <2> DEFINE b == SubSeq(packets, c + 1, Len(packets))
  <2>3. a \in Seq(Packet) /\ b \in Seq(Packet) /\ packets = a \o b
    BY <1>0, InSplit
  <2>4. wire' = wire \o a /\ packets' = b
    BY <2>2
  <2> HIDE DEF a, b
  <2>5. (wire \o a) \o b = wire \o (a \o b)
    <3>1. wire \in Seq(Packet) /\ a \in Seq(Packet) /\ b \in Seq(Packet)
      BY <1>0, <2>3
    <3> QED BY <3>1, ConcatAssociative, SMTT(60)
  <2> QED BY <1>0, <2>1, <2>3, <2>4, <2>5 DEF BufferFifo
<1>4. CASE StopBuffer /\ UNCHANGED wire
  <2>1. pushed' = wire /\ packets' = << >> /\ wire' = wire
    BY <1>4 DEF StopBuffer
  <2>2. wire \o << >> = wire
    BY <1>0, ConcatEmptySeq
  <2> QED BY <2>1, <2>2 DEF BufferFifo
<1>5. CASE UNCHANGED <<wire, packets, pushed>>
  BY <1>5 DEF BufferFifo
<1> QED BY <1>1, <1>2, <1>3, <1>4, <1>5, StreamMoves

\* What the send buffer (send-buffer.js) has taken is what it has sent, followed by what it
\* holds, in order: for every limit, length and moment at which the channel stops being ready.
THEOREM StreamKept == Spec => []BufferFifo
<1>1. Init => BufferFifo
  BY DEF Init, BufferFifo
<1> QED BY <1>1, BufferInit, BufferStep, FifoStep, PTL DEF Spec

-----------------------------------------------------------------------------
(* Packets that wait for a retry are not overtaken. *)

\* The packets that have left the retry queue, or have never been there.
Past == In(wire) \cup In(packets) \cup In(overflow) \cup {arg}

Rising(q) == \A i \in DOMAIN q : \A j \in 1 .. i - 1 : q[j].id < q[i].id
Behind == \A q \in In(retry), p \in Past : p.id < q.id

\* RetryNotOvertaken, in those terms.
LEMMA OvertakenIff ==
  ASSUME StreamInv, QueueInv
  PROVE  RetryNotOvertaken <=> Rising(retry) /\ Behind
<1>1. wire \in Seq(Packet) /\ packets \in Seq(Packet) /\ overflow \in Seq(Packet) /\ retry \in Seq(Packet)
  BY DEF StreamInv, QueueInv
<1>2. wire \o packets \in Seq(Packet)
  BY <1>1
<1>3. In((wire \o packets) \o overflow) = In(wire) \cup In(packets) \cup In(overflow)
  <2> DEFINE h == wire \o packets
  <2>1. In(h \o overflow) = In(h) \cup In(overflow)
    <3>1. h \in Seq(Packet)
      BY <1>2
    <3> HIDE DEF h
    <3> QED BY <1>1, <3>1, InConcat
  <2>2. In(wire \o packets) = In(wire) \cup In(packets)
    BY <1>1, InConcat
  <2> QED BY <2>1, <2>2
<1>4. Range(wire \o packets \o overflow) \cup {arg} = Past
  BY <1>3 DEF Past, Range, In
<1>5. Behind <=> \A i \in DOMAIN retry : \A p \in Past : p.id < retry[i].id
  BY DEF Behind, In
<1> HIDE DEF Past
<1>6. RetryNotOvertaken <=> \A i \in DOMAIN retry : /\ \A j \in 1 .. i - 1 : retry[j].id < retry[i].id
                                                    /\ \A p \in Past : p.id < retry[i].id
  <2> DEFINE past == Range(wire \o packets \o overflow) \cup {arg}
  <2>1. RetryNotOvertaken <=> \A i \in DOMAIN retry : /\ \A j \in 1 .. i - 1 : retry[j].id < retry[i].id
                                                      /\ \A p \in past : p.id < retry[i].id
    BY Zenon DEF RetryNotOvertaken
  <2>2. past = Past
    BY <1>4
  <2> HIDE DEF past
  <2> QED BY <2>1, <2>2
<1> QED BY <1>5, <1>6 DEF Rising

\* One packet more, and one packet less, in a rising queue.
LEMMA RisingFacts ==
  ASSUME NEW q \in Seq(Packet), Rising(q)
  PROVE  /\ Rising(<< >>)
         /\ \A x \in Packet : (\A p \in In(q) : p.id < x.id) => Rising(Append(q, x))
         /\ q # << >> => Rising(Tail(q)) /\ \A p \in In(Tail(q)) : Head(q).id < p.id
<1>1. Rising(<< >>)
  BY DEF Rising
<1>2. ASSUME NEW x \in Packet, \A p \in In(q) : p.id < x.id PROVE Rising(Append(q, x))
  <2> DEFINE r == Append(q, x)
  <2>1. /\ DOMAIN q = 1 .. Len(q) /\ DOMAIN r = 1 .. Len(q) + 1 /\ r[Len(q) + 1] = x
        /\ Len(q) \in Nat /\ \A i \in 1 .. Len(q) : r[i] = q[i]
    OBVIOUS
  <2> HIDE DEF r
  <2>2. \A i \in 1 .. Len(q) : q[i].id < x.id
    BY <1>2, <2>1 DEF In
  <2> SUFFICES ASSUME NEW i \in DOMAIN r, NEW j \in 1 .. i - 1 PROVE r[j].id < r[i].id
    BY DEF Rising, r
  <2>3. CASE i = Len(q) + 1
    <3>1. j \in 1 .. Len(q)
      BY <2>1, <2>3
    <3>2. r[j] = q[j] /\ r[i] = x
      BY <2>1, <2>3, <3>1
    <3> QED BY <2>2, <3>1, <3>2
  <2>4. CASE i \in 1 .. Len(q)
    <3>1. r[j] = q[j] /\ r[i] = q[i]
      BY <2>1, <2>4
    <3>2. q[j].id < q[i].id
      BY <2>1, <2>4 DEF Rising
    <3> QED BY <3>1, <3>2
  <2> QED BY <2>1, <2>3, <2>4
<1>3. ASSUME q # << >> PROVE Rising(Tail(q)) /\ \A p \in In(Tail(q)) : Head(q).id < p.id
  <2> DEFINE r == Tail(q)
  <2>1. /\ Head(q) = q[1] /\ 1 \in DOMAIN q
        /\ \A i \in DOMAIN r : i \in Nat \ {0} /\ i + 1 \in DOMAIN q /\ r[i] = q[i + 1]
    BY <1>3, Popped
  <2>2. r \in Seq(Packet)
    BY <1>3
  <2>3. DOMAIN r = 1 .. Len(r) /\ Len(r) \in Nat
    BY <2>2
  <2> HIDE DEF r
  <2>4. ASSUME NEW i \in DOMAIN r, NEW j \in 1 .. i - 1 PROVE r[j].id < r[i].id
    <3>1. j \in DOMAIN r
      BY <2>3
    <3>2. r[j] = q[j + 1] /\ r[i] = q[i + 1] /\ i + 1 \in DOMAIN q
      BY <2>1, <3>1
    <3>3. j + 1 \in 1 .. (i + 1) - 1
      BY <2>1
    <3> QED BY <3>2, <3>3 DEF Rising
  <2>5. ASSUME NEW i \in DOMAIN r PROVE Head(q).id < r[i].id
    <3>1. 1 \in 1 .. (i + 1) - 1 /\ i + 1 \in DOMAIN q /\ r[i] = q[i + 1]
      BY <2>1
    <3> QED BY <2>1, <3>1 DEF Rising
  <2> QED BY <2>4, <2>5 DEF Rising, In, r
<1> QED BY <1>1, <1>2, <1>3

\* How a step moves packets, as sets.
LEMMA Moves ==
  ASSUME BufferInv, [Next]_vars
  PROVE  \/ Past' \subseteq Past /\ UNCHANGED <<retry, accepted>> /\ offered' \in {offered, offered + 1}
         \/ Past' \subseteq Past /\ retry' = << >> /\ UNCHANGED <<accepted, offered>>
         \/ /\ retry # << >> /\ retry' = Tail(retry) /\ UNCHANGED <<accepted, offered>>
            /\ Past' \subseteq Past \cup {Head(retry)}
         \/ \E p \in Packet :
              /\ p.id = offered + 1 /\ offered' = offered + 1 /\ accepted' = accepted \cup {p}
              /\ \/ retry = << >> /\ retry' = << >> /\ Past' \subseteq Past \cup {p}
                 \/ Past' = Past /\ retry' = Append(retry, p)
<1>0. /\ CallInv /\ ArgInv /\ offered \in Nat
      /\ packets \in Seq(Packet) /\ wire \in Seq(Packet) /\ overflow \in Seq(Packet) /\ retry \in Seq(Packet)
  BY Pieces DEF StreamInv, QueueInv, ScalarInv
<1>1. In(<< >>) = {}
  BY DEF In
<1>2. CASE PushAppend
  <2>1. /\ UNCHANGED <<retry, overflow, arg, accepted, offered, wire>>
        /\ packets' = Append(packets, arg)
    BY <1>2 DEF PushAppend, Appended
  <2>2. arg \in [id : Nat, len : Nat]
    BY <1>0 DEF ArgInv
  <2>3. packets \in Seq(Packet \cup {arg})
    BY <1>0, <2>2
  <2>4. In(packets') = In(packets) \cup {arg}
    BY <2>1, <2>3, InAppend
  <2>5. Past' \subseteq Past
    BY <2>1, <2>4 DEF Past
  <2> QED BY <2>1, <2>5
<1>3. CASE FlushWhole \/ FlushChunk
  <2>1. UNCHANGED <<retry, overflow, arg, accepted, offered>>
    BY <1>3 DEF FlushWhole, FlushChunk
  <2>2. In(wire') \cup In(packets') \subseteq In(wire) \cup In(packets)
    <3>1. CASE FlushWhole
      <4>1. wire' = wire \o packets /\ packets' = << >>
        BY <3>1 DEF FlushWhole, SendFrame
      <4> QED BY <1>0, <1>1, <4>1, InConcat
    <3>2. CASE FlushChunk
      <4>1. PICK c \in 1 .. Len(packets) :
              /\ wire' = wire \o SubSeq(packets, 1, c)
              /\ packets' = SubSeq(packets, c + 1, Len(packets))
        BY <3>2 DEF FlushChunk, SendFrame
      <4> DEFINE a == SubSeq(packets, 1, c)
      <4> DEFINE b == SubSeq(packets, c + 1, Len(packets))
      <4>2. a \in Seq(Packet) /\ b \in Seq(Packet) /\ packets = a \o b
        BY <1>0, InSplit
      <4>3. wire' = wire \o a /\ packets' = b
        BY <4>1
      <4> HIDE DEF a, b
      <4>4. In(wire') = In(wire) \cup In(a)
        BY <1>0, <4>2, <4>3, InConcat
      <4>5. In(packets) = In(a) \cup In(b)
        BY <4>2, InConcat
      <4> QED BY <4>3, <4>4, <4>5
    <3> QED BY <1>3, <3>1, <3>2
  <2>3. Past' \subseteq Past
    BY <2>1, <2>2 DEF Past
  <2> QED BY <2>1, <2>3
<1>4. CASE FlushNothing \/ FlushLong \/ FlushLongEnd \/ DrainOverflowEnd \/ DrainRetryEnd \/ FlushTimer
           \/ BufferedAmountLow \/ DcTransmit \/ DcOpen \/ UNCHANGED vars
  <2>1. UNCHANGED <<wire, packets, overflow, retry, arg, accepted, offered>>
    BY <1>4 DEF FlushNothing, FlushLong, FlushLongEnd, DrainOverflowEnd, DrainRetryEnd, FlushTimer,
                BufferedAmountLow, DcTransmit, DcOpen, vars, queueVars, histVars
  <2> QED BY <2>1 DEF Past
<1>5. CASE NewPeerConnection \/ DcClosed \/ PcFailed
  <2>1. /\ UNCHANGED <<retry, wire, arg, accepted, offered>>
        /\ packets' \in {packets, << >>} /\ overflow' \in {overflow, << >>}
    BY <1>5 DEF NewPeerConnection, DcClosed, PcFailed, StopBuffer
  <2> QED BY <1>1, <2>1 DEF Past
<1>6. CASE PeerDisconnected
  <2>1. UNCHANGED <<wire, packets, overflow, arg, accepted, offered>> /\ retry' = << >>
    BY <1>6 DEF PeerDisconnected
  <2> QED BY <2>1 DEF Past
<1>7. CASE DrainOverflow
  <2>1. /\ UNCHANGED <<retry, wire, packets, accepted, offered>> /\ overflow # << >>
        /\ arg' = Head(overflow) /\ overflow' = Tail(overflow)
    BY <1>7 DEF DrainOverflow, histVars
  <2>2. In(overflow) = {arg'} \cup In(overflow')
    BY <1>0, <2>1, InTail
  <2>3. Past' \subseteq Past
    BY <2>1, <2>2 DEF Past
  <2> QED BY <2>1, <2>3
<1>8. ASSUME NEW p \in Packet, NEW after, Send(p, after), UNCHANGED <<wire, packets>>
      PROVE  Past' \subseteq Past \cup {p}
  <2>1. \/ arg' = p /\ overflow' = overflow
        \/ arg' = arg /\ overflow' = Append(overflow, p)
    BY <1>8 DEF Send
  <2>2. In(Append(overflow, p)) = In(overflow) \cup {p}
    BY <1>0, InAppend
  <2> QED BY <1>8, <2>1, <2>2 DEF Past
<1>9. CASE DrainRetry
  <2>1. /\ UNCHANGED <<wire, packets, accepted, offered>> /\ retry # << >>
        /\ Send(Head(retry), todo) /\ retry' = Tail(retry)
    BY <1>9 DEF DrainRetry, histVars
  <2>2. Head(retry) \in Packet
    BY <1>0, <2>1
  <2>3. Past' \subseteq Past \cup {Head(retry)}
    BY <1>8, <2>1, <2>2
  <2> QED BY <2>1, <2>3
<1>10. ASSUME NEW len \in Lens, SendNow(NextPacket(len)) \/ SendLater(NextPacket(len))
       PROVE  \E p \in Packet :
                /\ p.id = offered + 1 /\ offered' = offered + 1 /\ accepted' = accepted \cup {p}
                /\ \/ retry = << >> /\ retry' = << >> /\ Past' \subseteq Past \cup {p}
                   \/ Past' = Past /\ retry' = Append(retry, p)
  <2> DEFINE p == NextPacket(len)
  <2>1. p \in Packet /\ p.id = offered + 1
    BY <1>0 DEF NextPacket, Packet
  <2> HIDE DEF p
  <2>2. offered' = offered + 1 /\ accepted' = accepted \cup {p} /\ UNCHANGED <<wire, packets>>
    BY <1>10 DEF SendNow, SendLater, Offer, Accept, p
  <2>3. CASE SendNow(p)
    <3>1. retry = << >> /\ retry' = << >> /\ Send(p, << >>)
      BY <2>3 DEF SendNow, NothingQueued
    <3>2. Past' \subseteq Past \cup {p}
      BY <1>8, <2>1, <2>2, <3>1
    <3> QED BY <2>1, <2>2, <3>1, <3>2
  <2>4. CASE SendLater(p)
    <3>1. retry' = Append(retry, p) /\ UNCHANGED <<overflow, arg>>
      BY <2>4 DEF SendLater, RetryWith
    <3>2. Past' = Past
      BY <2>2, <3>1 DEF Past
    <3> QED BY <2>1, <2>2, <3>1, <3>2
  <2> QED BY <1>10, <2>3, <2>4 DEF p
<1>11. ASSUME NEW len \in Lens, SendRefused(NextPacket(len))
       PROVE  Past' \subseteq Past /\ UNCHANGED <<retry, accepted>> /\ offered' \in {offered, offered + 1}
  <2>1. UNCHANGED <<wire, packets, overflow, retry, arg, accepted>> /\ offered' = offered + 1
    BY <1>11 DEF SendRefused, Offer, queueVars
  <2> QED BY <2>1 DEF Past
<1> QED BY <1>2, <1>3, <1>4, <1>5, <1>6, <1>7, <1>9, <1>10, <1>11 DEF Next, Steps

\* The clauses of Known in terms of Past.
LEMMA KnownIff ==
  Known <=> (\A p \in Past : p.id <= offered) /\ (\A p \in In(retry) \cup accepted : p.id <= offered)
BY DEF Known, Past

\* QueueOrder is kept by every step.
LEMMA OrderStep == BufferInv /\ BufferInv' /\ QueueOrder /\ [Next]_vars => QueueOrder'
<1> SUFFICES ASSUME BufferInv, BufferInv', QueueOrder, [Next]_vars PROVE QueueOrder'
  OBVIOUS
<1>1. /\ Rising(retry) /\ Behind
      /\ \A p \in Past : p.id <= offered
      /\ \A p \in In(retry) : p.id <= offered
      /\ \A p \in accepted : p.id <= offered
  BY Pieces, OvertakenIff, KnownIff DEF QueueOrder
<1>2. /\ offered \in Nat /\ retry \in Seq(Packet) /\ accepted \subseteq Packet
      /\ \A p \in Past : p.id \in Nat
  <2>1. offered \in Nat /\ retry \in Seq(Packet) /\ accepted \subseteq Packet
    BY Pieces DEF ScalarInv, QueueInv, SetInv
  <2>2. wire \in Seq(Packet) /\ packets \in Seq(Packet) /\ overflow \in Seq(Packet) /\ arg.id \in Nat
    BY Pieces DEF StreamInv, QueueInv, ArgInv
  <2>3. In(wire) \subseteq Packet /\ In(packets) \subseteq Packet /\ In(overflow) \subseteq Packet
    BY <2>2, InType
  <2>4. \A p \in Packet : p.id \in Nat
    BY DEF Packet
  <2> QED BY <2>1, <2>2, <2>3, <2>4 DEF Past
<1>3. \A p \in In(retry) \cup accepted : p.id \in Nat
  <2>1. In(retry) \subseteq Packet
    BY <1>2, InType
  <2> QED BY <1>2, <2>1 DEF Packet
<1> SUFFICES /\ Rising(retry') /\ \A q \in In(retry'), p \in Past' : p.id < q.id
             /\ \A p \in Past' : p.id <= offered'
             /\ \A p \in In(retry') : p.id <= offered'
             /\ \A p \in accepted' : p.id <= offered'
  <2>1. StreamInv' /\ QueueInv'
    BY DEF BufferInv, FrameInv, TypeOK, StreamInv, QueueInv
  <2>2. RetryNotOvertaken' <=> Rising(retry)' /\ Behind'
    BY <2>1, OvertakenIff, PTL
  <2>3. Known' <=> (\A p \in Past : p.id <= offered)' /\ (\A p \in In(retry) \cup accepted : p.id <= offered)'
    BY KnownIff, PTL
  <2> QED BY <2>2, <2>3 DEF QueueOrder, Behind
<1>4. Behind <=> \A q \in In(retry), p \in Past : p.id < q.id
  BY DEF Behind
<1>5. In(<< >>) = {} /\ Rising(<< >>)
  BY DEF In, Rising
<1>6. CASE Past' \subseteq Past /\ UNCHANGED <<retry, accepted>> /\ offered' \in {offered, offered + 1}
  <2>1. /\ Rising(retry') /\ In(retry') = In(retry) /\ accepted' = accepted
    BY <1>1, <1>6
  <2>2. \A n \in Nat : n <= offered => n <= offered'
    BY <1>2, <1>6
  <2> HIDE DEF Past
  <2> QED BY <1>1, <1>2, <1>3, <1>4, <1>6, <2>1, <2>2
<1>7. CASE Past' \subseteq Past /\ retry' = << >> /\ UNCHANGED <<accepted, offered>>
  BY <1>1, <1>5, <1>7
<1>8. CASE /\ retry # << >> /\ retry' = Tail(retry) /\ UNCHANGED <<accepted, offered>>
           /\ Past' \subseteq Past \cup {Head(retry)}
  <2>1. In(retry) = {Head(retry)} \cup In(retry')
    BY <1>2, <1>8, InTail
  <2>2. Rising(retry') /\ \A p \in In(retry') : Head(retry).id < p.id
    BY <1>1, <1>2, <1>8, RisingFacts
  <2> HIDE DEF Past
  <2> QED BY <1>1, <1>4, <1>8, <2>1, <2>2
<1>9. ASSUME NEW p \in Packet,
             p.id = offered + 1, offered' = offered + 1, accepted' = accepted \cup {p},
             \/ retry = << >> /\ retry' = << >> /\ Past' \subseteq Past \cup {p}
             \/ Past' = Past /\ retry' = Append(retry, p)
      PROVE  /\ Rising(retry') /\ \A q \in In(retry'), r \in Past' : r.id < q.id
             /\ \A r \in Past' : r.id <= offered'
             /\ \A r \in In(retry') : r.id <= offered'
             /\ \A r \in accepted' : r.id <= offered'
  <2>0. /\ p.id \in Nat /\ p.id <= offered'
        /\ \A n \in Nat : n <= offered => n <= offered' /\ n < p.id
    BY <1>2, <1>9
  <2>1. \A r \in accepted' : r.id <= offered'
    BY <1>1, <1>3, <1>9, <2>0
  <2>2. CASE retry = << >> /\ retry' = << >> /\ Past' \subseteq Past \cup {p}
    <3>1. \A r \in Past' : r.id <= offered'
      BY <1>1, <1>2, <2>0, <2>2
    <3> QED BY <1>5, <2>1, <2>2, <3>1
  <2>3. CASE Past' = Past /\ retry' = Append(retry, p)
    <3>1. In(retry') = In(retry) \cup {p}
      BY <1>2, <2>3, InAppend
    <3>2. \A r \in In(retry) : r.id < p.id
      BY <1>1, <1>3, <2>0
    <3>3. Rising(retry')
      BY <1>1, <1>2, <2>3, <3>2, RisingFacts
    <3>4. \A r \in Past : r.id <= offered' /\ r.id < p.id
      BY <1>1, <1>2, <2>0
    <3>5. \A r \in In(retry') : r.id <= offered'
      BY <1>1, <1>3, <2>0, <3>1
    <3>6. \A q \in In(retry'), r \in Past' : r.id < q.id
      BY <1>1, <1>4, <2>3, <3>1, <3>4
    <3> QED BY <2>1, <2>3, <3>3, <3>4, <3>5, <3>6
  <2> QED BY <1>9, <2>2, <2>3
<1> QED BY <1>6, <1>7, <1>8, <1>9, Moves

\* Packets leave MeshNode's retry queue in the order in which they were accepted, and none
\* accepted later gets past those that wait (node.js, strictTransportOrdering).
THEOREM RetryKeepsOrder == Spec => []RetryNotOvertaken
<1>1. Init => QueueOrder
  BY DEF Init, QueueOrder, Known, RetryNotOvertaken, In
<1>2. QueueOrder => RetryNotOvertaken
  BY DEF QueueOrder
<1> QED BY <1>1, <1>2, BufferInit, BufferStep, OrderStep, PTL DEF Spec

-----------------------------------------------------------------------------
(* No accepted packet is lost or duplicated. *)

\* The packets of a queue are finitely many.
LEMMA InFinite == ASSUME NEW S, NEW q \in Seq(S) PROVE IsFiniteSet(In(q))
<1>1. q \in Surjection(1 .. Len(q), In(q))
  BY SMTT(30) DEF Surjection, In
<1>2. IsFiniteSet(1 .. Len(q))
  BY FS_Interval
<1> QED BY <1>1, <1>2, FS_Surjection

\* What a step moves from one place to another.
NothingMoves ==   \* nothing
  UNCHANGED <<wire, packets, OnItsWay, overflow, retry, discarded, accepted>>
EntersBuffer ==   \* a packet into the send buffer
  /\ OnItsWay = {arg} /\ OnItsWay' = {} /\ packets' = Append(packets, arg)
  /\ UNCHANGED <<wire, overflow, retry, discarded, accepted>>
FrameLeaves(a, b) ==   \* a frame, the first part of the send buffer, onto the wire
  /\ packets = a \o b /\ packets' = b /\ wire' = wire \o a
  /\ UNCHANGED <<OnItsWay, overflow, retry, discarded, accepted>>
LeavesOverflow ==   \* out of the overflow queue
  /\ OnItsWay = {} /\ overflow # << >> /\ OnItsWay' = {Head(overflow)} /\ overflow' = Tail(overflow)
  /\ UNCHANGED <<wire, packets, retry, discarded, accepted>>
LeavesRetry ==   \* out of the retry queue
  /\ OnItsWay = {} /\ retry # << >> /\ retry' = Tail(retry)
  /\ \/ OnItsWay' = {Head(retry)} /\ overflow' = overflow
     \/ OnItsWay' = {} /\ overflow' = Append(overflow, Head(retry))
  /\ UNCHANGED <<wire, packets, discarded, accepted>>
IsNew(p) ==   \* a new packet
  /\ p.id = offered + 1 /\ accepted' = accepted \cup {p} /\ OnItsWay = {}
  /\ \/ OnItsWay' = {p} /\ UNCHANGED <<overflow, retry>>
     \/ OnItsWay' = {} /\ overflow' = Append(overflow, p) /\ UNCHANGED retry
     \/ OnItsWay' = {} /\ retry' = Append(retry, p) /\ UNCHANGED overflow
  /\ UNCHANGED <<wire, packets, discarded>>
QueuesDropped ==   \* whole queues thrown away
  /\ OnItsWay = {} /\ OnItsWay' = {}
  /\ \/ /\ packets' = << >> /\ UNCHANGED <<overflow, retry>>
        /\ discarded' = discarded \cup In(packets)
     \/ /\ packets' = << >> /\ overflow' = << >> /\ UNCHANGED retry
        /\ discarded' = discarded \cup In(packets) \cup In(overflow)
     \/ /\ retry' = << >> /\ UNCHANGED <<packets, overflow>>
        /\ discarded' = discarded \cup In(retry)
  /\ UNCHANGED <<wire, accepted>>

\* The packet that Send takes is on its way afterwards, or in the overflow queue.
LEMMA SendMoves ==
  ASSUME NEW p, NEW after \in Seq(Calls), Quiet(after), Send(p, after)
  PROVE  \/ OnItsWay' = {p} /\ overflow' = overflow
         \/ OnItsWay' = {} /\ overflow' = Append(overflow, p)
<1>1. CASE /\ BufferHasRoom /\ arg' = p /\ UNCHANGED overflow
           /\ todo' = PushCalls(p) \o <<"drainOverflow">> \o after
  <2> DEFINE rest == <<"drainOverflow">> \o after
  <2>1. rest \in Seq(Calls) /\ Quiet(rest)
    BY CallStacked
  <2>2. PushCalls(p) \in Seq(Calls) /\ <<"drainOverflow">> \in Seq(Calls)
    <3>1. <<"flush", "append">> \in Seq(Calls) /\ <<"append">> \in Seq(Calls)
      BY DEF Calls
    <3> QED BY <3>1, StartCalls DEF PushCalls
  <2>3. todo' = PushCalls(p) \o rest
    BY <1>1, <2>2, ConcatAssociative, SMTT(60)
  <2> HIDE DEF rest
  <2>4. "append" \in Range(todo')
    BY <2>1, <2>3, PushStacked
  <2> QED BY <1>1, <2>4 DEF OnItsWay, Pushing
<1>2. CASE overflow' = Append(overflow, p) /\ todo' = after
  <2>1. "append" \notin Range(todo')
    BY <1>2, CallStacked
  <2> QED BY <1>2, <2>1 DEF OnItsWay, Pushing
<1> QED BY <1>1, <1>2 DEF Send

\* Every step is one of these moves.
LEMMA PlaceMoves ==
  ASSUME BufferInv, [Next]_vars
  PROVE  \/ NothingMoves \/ (arg \in Packet /\ EntersBuffer) \/ (\E a, b \in Seq(Packet) : FrameLeaves(a, b))
         \/ LeavesOverflow \/ LeavesRetry \/ (\E p \in Packet : IsNew(p)) \/ QueuesDropped
<1>0. /\ CallInv /\ offered \in Nat /\ todo \in Seq(Calls) /\ Shape(todo) /\ << >> \in Seq(Packet)
      /\ packets \in Seq(Packet) /\ wire \in Seq(Packet) /\ overflow \in Seq(Packet) /\ retry \in Seq(Packet)
  BY Pieces DEF StreamInv, QueueInv, ScalarInv, CallInv
<1>1. todo = << >> => OnItsWay = {} /\ Quiet(todo)
  BY Idle DEF OnItsWay
<1>2. todo' = todo /\ arg' = arg => OnItsWay' = OnItsWay
  BY DEF OnItsWay, Pushing
<1>3. todo # << >> /\ Head(todo) # "append" /\ todo' = Tail(todo) /\ arg' = arg => OnItsWay' = OnItsWay
  BY <1>0, CallsPopped DEF OnItsWay, Pushing
<1>4. todo # << >> /\ Head(todo) \in {"drainOverflow", "drainRetry"} => OnItsWay = {} /\ Quiet(todo)
  <2> SUFFICES ASSUME todo # << >>, Head(todo) \in {"drainOverflow", "drainRetry"}
               PROVE  OnItsWay = {} /\ Quiet(todo)
    OBVIOUS
  <2>1. Quiet(todo)
    BY <1>0, CallsPopped
  <2>2. "append" \notin Range(todo)
    BY <1>0, <2>1, CallStacked
  <2> QED BY <2>1, <2>2 DEF OnItsWay, Pushing
<1>5. CASE PushAppend
  <2>1. /\ todo # << >> /\ Head(todo) = "append" /\ packets' = Append(packets, arg) /\ arg' = arg
        /\ UNCHANGED <<wire, overflow, retry, discarded, accepted>>
    BY <1>5 DEF PushAppend, Appended, Call
  <2>2. "append" \in Range(todo) /\ Tail(todo) \in Seq(Calls) /\ Quiet(Tail(todo))
    BY <1>0, <2>1, CallsPopped
  <2>3. todo' \in Seq(Calls) /\ Quiet(todo')
    <3>1. todo' = Tail(todo) \/ todo' = <<"flush">> \o Tail(todo)
      BY <1>5 DEF PushAppend
    <3> QED BY <2>2, <3>1, CallStacked
  <2>4. "append" \notin Range(todo')
    BY <2>3, CallStacked
  <2>5. arg \in Packet
    BY <1>0, <2>2 DEF CallInv, Pushing
  <2> QED BY <2>1, <2>2, <2>4, <2>5 DEF EntersBuffer, OnItsWay, Pushing
<1>6. CASE FlushNothing \/ FlushLongEnd \/ DrainOverflowEnd \/ DrainRetryEnd
  <2>1. /\ todo # << >> /\ Head(todo) # "append" /\ todo' = Tail(todo) /\ arg' = arg
        /\ UNCHANGED <<wire, packets, overflow, retry, discarded, accepted>>
    BY <1>6 DEF FlushNothing, FlushLongEnd, DrainOverflowEnd, DrainRetryEnd, Call, queueVars, histVars
  <2> QED BY <1>3, <2>1 DEF NothingMoves
<1>7. CASE FlushLong
  <2>1. /\ todo # << >> /\ Head(todo) = "flush" /\ todo' = <<"chunks">> \o Tail(todo) /\ arg' = arg
        /\ UNCHANGED <<wire, packets, overflow, retry, discarded, accepted>>
    BY <1>7 DEF FlushLong, Call, histVars
  <2>2. "append" \in Range(todo') <=> "append" \in Range(todo)
    BY <1>0, <2>1, ChunksFirst
  <2>3. OnItsWay' = OnItsWay
    BY <2>1, <2>2 DEF OnItsWay, Pushing
  <2> QED BY <2>1, <2>3 DEF NothingMoves
<1>8. CASE FlushWhole
  <2>1. /\ todo # << >> /\ Head(todo) # "append" /\ todo' = Tail(todo) /\ arg' = arg
        /\ UNCHANGED <<overflow, retry, discarded, accepted>>
        /\ wire' = wire \o packets /\ packets' = << >>
    BY <1>8 DEF FlushWhole, SendFrame, Call
  <2>2. packets = packets \o << >>
    BY <1>0, ConcatEmptySeq
  <2>3. FrameLeaves(packets, << >>)
    BY <1>3, <2>1, <2>2 DEF FrameLeaves
  <2> QED BY <1>0, <2>3
<1>9. CASE FlushChunk
  <2>1. UNCHANGED <<todo, arg, overflow, retry, discarded, accepted>>
    BY <1>9 DEF FlushChunk
  <2>2. PICK c \in 1 .. Len(packets) :
          /\ wire' = wire \o SubSeq(packets, 1, c)
          /\ packets' = SubSeq(packets, c + 1, Len(packets))
    BY <1>9 DEF FlushChunk, SendFrame
  <2> DEFINE a == SubSeq(packets, 1, c)
  <2> DEFINE b == SubSeq(packets, c + 1, Len(packets))
  <2>3. a \in Seq(Packet) /\ b \in Seq(Packet) /\ packets = a \o b
    BY <1>0, InSplit
  <2>4. wire' = wire \o a /\ packets' = b
    BY <2>2
  <2> HIDE DEF a, b
  <2>5. FrameLeaves(a, b)
    BY <1>2, <2>1, <2>3, <2>4 DEF FrameLeaves
  <2> QED BY <2>3, <2>5
<1>10. CASE DrainOverflow
  <2>1. /\ todo # << >> /\ Head(todo) = "drainOverflow" /\ overflow # << >> /\ arg' = Head(overflow)
        /\ overflow' = Tail(overflow) /\ todo' = PushCalls(Head(overflow)) \o todo
        /\ UNCHANGED <<wire, packets, retry, discarded, accepted>>
    BY <1>10 DEF DrainOverflow, Call, histVars
  <2>2. "append" \in Range(todo')
    BY <1>0, <1>4, <2>1, PushStacked
  <2> QED BY <1>4, <2>1, <2>2 DEF LeavesOverflow, OnItsWay, Pushing
<1>11. CASE DrainRetry
  <2>1. /\ todo # << >> /\ Head(todo) = "drainRetry" /\ retry # << >> /\ retry' = Tail(retry)
        /\ Send(Head(retry), todo) /\ UNCHANGED <<wire, packets, discarded, accepted>>
    BY <1>11 DEF DrainRetry, Call, histVars
  <2>2. \/ OnItsWay' = {Head(retry)} /\ overflow' = overflow
        \/ OnItsWay' = {} /\ overflow' = Append(overflow, Head(retry))
    BY <1>0, <1>4, <2>1, SendMoves
  <2> QED BY <1>4, <2>1, <2>2 DEF LeavesRetry
<1>12. ASSUME NEW len \in Lens, SendNow(NextPacket(len)) \/ SendLater(NextPacket(len))
       PROVE  \E p \in Packet : IsNew(p)
  <2> DEFINE p == NextPacket(len)
  <2>1. p \in Packet /\ p.id = offered + 1
    BY <1>0 DEF NextPacket, Packet
  <2> HIDE DEF p
  <2>2. todo = << >> /\ accepted' = accepted \cup {p} /\ UNCHANGED <<wire, packets, discarded>>
    BY <1>12 DEF SendNow, SendLater, Offer, Accept, p
  <2>3. CASE SendNow(p)
    <3>1. Send(p, todo) /\ UNCHANGED retry
      BY <2>2, <2>3 DEF SendNow
    <3>2. \/ OnItsWay' = {p} /\ overflow' = overflow
          \/ OnItsWay' = {} /\ overflow' = Append(overflow, p)
      BY <1>0, <1>1, <2>2, <3>1, SendMoves
    <3>3. IsNew(p)
      BY <1>1, <2>1, <2>2, <3>1, <3>2 DEF IsNew
    <3> QED BY <2>1, <3>3
  <2>4. CASE SendLater(p)
    <3>1. retry' = Append(retry, p) /\ UNCHANGED <<overflow, arg, todo>>
      BY <2>4 DEF SendLater, RetryWith
    <3>2. IsNew(p)
      BY <1>1, <1>2, <2>1, <2>2, <3>1 DEF IsNew
    <3> QED BY <2>1, <3>2
  <2> QED BY <1>12, <2>3, <2>4 DEF p
<1>13. ASSUME NEW len \in Lens, SendRefused(NextPacket(len)) PROVE NothingMoves
  <2>1. UNCHANGED <<wire, packets, overflow, retry, arg, todo, discarded, accepted>>
    BY <1>13 DEF SendRefused, queueVars
  <2> QED BY <1>2, <2>1 DEF NothingMoves
<1>14. CASE FlushTimer \/ BufferedAmountLow
  <2>1. /\ todo = << >> /\ todo' \in {<<"flush">>, AfterBufferLow}
        /\ UNCHANGED <<wire, packets, overflow, retry, discarded, accepted>>
    BY <1>14 DEF FlushTimer, BufferedAmountLow, queueVars, histVars
  <2>2. todo' \in Seq(Calls) /\ Quiet(todo')
    BY <2>1, StartCalls
  <2>3. "append" \notin Range(todo')
    BY <2>2, CallStacked
  <2> QED BY <1>1, <2>1, <2>3 DEF NothingMoves, OnItsWay, Pushing
<1>15. CASE DcTransmit \/ DcOpen \/ UNCHANGED vars
  <2>1. UNCHANGED <<wire, packets, overflow, retry, arg, todo, discarded, accepted>>
    BY <1>15 DEF DcTransmit, DcOpen, vars, queueVars, histVars
  <2> QED BY <1>2, <2>1 DEF NothingMoves
<1>16. CASE NewPeerConnection \/ DcClosed \/ PcFailed \/ PeerDisconnected
  <2>1. todo = << >> /\ UNCHANGED <<todo, arg, wire, accepted, offered>>
    BY <1>16 DEF NewPeerConnection, DcClosed, PcFailed, PeerDisconnected
  <2>2. OnItsWay = {} /\ OnItsWay' = {}
    BY <1>1, <1>2, <2>1
  <2>3. CASE NewPeerConnection
    <3>1. CASE pc # "none"
      <4>1. /\ packets' = << >> /\ overflow' = << >> /\ UNCHANGED retry
            /\ discarded' = discarded \cup In(packets) \cup In(overflow)
        BY <2>3, <3>1 DEF NewPeerConnection, StopBuffer
      <4> QED BY <2>1, <2>2, <4>1 DEF QueuesDropped
    <3>2. CASE pc = "none"
      <4>1. UNCHANGED <<packets, overflow, retry, discarded>>
        BY <2>3, <3>2 DEF NewPeerConnection
      <4> QED BY <2>1, <2>2, <4>1 DEF NothingMoves
    <3> QED BY <3>1, <3>2
  <2>4. CASE DcClosed
    <3>1. packets' = << >> /\ UNCHANGED <<overflow, retry>> /\ discarded' = discarded \cup In(packets)
      BY <2>4 DEF DcClosed, StopBuffer
    <3> QED BY <2>1, <2>2, <3>1 DEF QueuesDropped
  <2>5. CASE PcFailed
    <3>1. /\ packets' = << >> /\ overflow' = << >> /\ UNCHANGED retry
          /\ discarded' = discarded \cup In(packets) \cup In(overflow)
      BY <2>5 DEF PcFailed, StopBuffer
    <3> QED BY <2>1, <2>2, <3>1 DEF QueuesDropped
  <2>6. CASE PeerDisconnected
    <3>1. retry' = << >> /\ UNCHANGED <<packets, overflow>> /\ discarded' = discarded \cup In(retry)
      BY <2>6 DEF PeerDisconnected
    <3> QED BY <2>1, <2>2, <3>1 DEF QueuesDropped
  <2> QED BY <1>16, <2>3, <2>4, <2>5, <2>6
<1> QED BY <1>5, <1>6, <1>7, <1>8, <1>9, <1>10, <1>11, <1>12, <1>13, <1>14, <1>15, <1>16 DEF Next, Steps

\* PlaceInv is kept by every step.
LEMMA PlaceStep == BufferInv /\ QueueOrder /\ PlaceInv /\ [Next]_vars => PlaceInv'
<1> SUFFICES ASSUME BufferInv, QueueOrder, PlaceInv, [Next]_vars PROVE PlaceInv'
  OBVIOUS
<1>0. /\ packets \in Seq(Packet) /\ wire \in Seq(Packet) /\ overflow \in Seq(Packet) /\ retry \in Seq(Packet)
      /\ offered \in Nat
  BY Pieces DEF StreamInv, QueueInv, ScalarInv
<1> DEFINE W == In(wire)
<1> DEFINE P == In(packets)
<1> DEFINE A == OnItsWay
<1> DEFINE O == In(overflow)
<1> DEFINE R == In(retry)
<1> DEFINE D == discarded
<1>1. /\ IsInjective(wire) /\ IsInjective(packets) /\ IsInjective(overflow) /\ IsInjective(retry)
      /\ IsFiniteSet(D)
  BY DEF PlaceInv
<1>2. Partition(W, P, A, O, R, D, accepted)
  BY DEF PlaceInv
<1>3. In(<< >>) = {} /\ IsInjective(<< >>)
  BY DEF In, IsInjective
<1>4. SUFFICES /\ IsInjective(wire') /\ IsInjective(packets') /\ IsInjective(overflow') /\ IsInjective(retry')
               /\ IsFiniteSet(D')
               /\ Partition(In(wire'), In(packets'), OnItsWay', In(overflow'), In(retry'), discarded', accepted')
  BY DEF PlaceInv
<1> HIDE DEF W, P, A, O, R, D
<1>5. CASE NothingMoves
  <2>1. UNCHANGED <<wire, packets, OnItsWay, overflow, retry, discarded, accepted>>
    BY <1>5 DEF NothingMoves
  <2> QED BY <1>1, <1>2, <2>1 DEF W, P, A, O, R, D
<1>6. CASE arg \in Packet /\ EntersBuffer
  <2>1. /\ A = {arg} /\ OnItsWay' = {} /\ packets' = Append(packets, arg)
        /\ UNCHANGED <<wire, overflow, retry, discarded, accepted>>
    BY <1>6 DEF EntersBuffer, A
  <2>2. arg \notin P
    BY <1>2, <2>1 DEF Partition
  <2>3. In(packets') = P \cup {arg} /\ IsInjective(packets')
    BY <1>0, <1>1, <1>6, <2>1, <2>2, InAppend DEF P
  <2>4. Partition(W, P \cup {arg}, {}, O, R, D, accepted)
    BY <1>2, <2>1 DEF Partition
  <2> QED BY <1>1, <2>1, <2>3, <2>4 DEF W, O, R, D
<1>7. ASSUME NEW a \in Seq(Packet), NEW b \in Seq(Packet), FrameLeaves(a, b)
      PROVE  /\ IsInjective(wire') /\ IsInjective(packets') /\ IsInjective(overflow') /\ IsInjective(retry')
             /\ IsFiniteSet(D')
             /\ Partition(In(wire'), In(packets'), OnItsWay', In(overflow'), In(retry'), discarded', accepted')
  <2>1. /\ packets = a \o b /\ packets' = b /\ wire' = wire \o a
        /\ UNCHANGED <<OnItsWay, overflow, retry, discarded, accepted>>
    BY <1>7 DEF FrameLeaves
  <2>2. P = In(a) \cup In(b) /\ IsInjective(a) /\ IsInjective(b) /\ In(a) \cap In(b) = {}
    BY <1>1, <2>1, InConcat DEF P
  <2>3. W \cap In(a) = {}
    BY <1>2, <2>2 DEF Partition
  <2>4. In(wire') = W \cup In(a) /\ IsInjective(wire')
    BY <1>0, <1>1, <2>1, <2>2, <2>3, InConcat DEF W
  <2>5. Partition(W \cup In(a), In(b), A, O, R, D, accepted)
    BY <1>2, <2>2 DEF Partition
  <2> QED BY <1>1, <2>1, <2>2, <2>4, <2>5 DEF A, O, R, D
<1>8. CASE LeavesOverflow
  <2> DEFINE h == Head(overflow)
  <2> DEFINE t == Tail(overflow)
  <2>1. /\ A = {} /\ overflow # << >> /\ OnItsWay' = {h} /\ overflow' = t
        /\ UNCHANGED <<wire, packets, retry, discarded, accepted>>
    BY <1>8 DEF LeavesOverflow, A
  <2>2. O = {h} \cup In(t) /\ IsInjective(t) /\ h \notin In(t)
    BY <1>0, <1>1, <2>1, InTail DEF O
  <2> HIDE DEF h, t
  <2>3. Partition(W, P, {h}, In(t), R, D, accepted)
    BY <1>2, <2>1, <2>2 DEF Partition
  <2> QED BY <1>1, <2>1, <2>2, <2>3 DEF W, P, R, D
<1>9. CASE LeavesRetry
  <2> DEFINE h == Head(retry)
  <2> DEFINE t == Tail(retry)
  <2>1. /\ A = {} /\ retry # << >> /\ retry' = t
        /\ UNCHANGED <<wire, packets, discarded, accepted>>
    BY <1>9 DEF LeavesRetry, A
  <2>2. R = {h} \cup In(t) /\ IsInjective(t) /\ h \notin In(t) /\ h \in Packet
    BY <1>0, <1>1, <2>1, InTail DEF R
  <2>3. \/ OnItsWay' = {h} /\ overflow' = overflow
        \/ OnItsWay' = {} /\ overflow' = Append(overflow, h)
    BY <1>9 DEF LeavesRetry
  <2> HIDE DEF h, t
  <2>4. CASE OnItsWay' = {h} /\ overflow' = overflow
    <3>1. Partition(W, P, {h}, O, In(t), D, accepted)
      BY <1>2, <2>1, <2>2 DEF Partition
    <3> QED BY <1>1, <2>1, <2>2, <2>4, <3>1 DEF W, P, O, D
  <2>5. CASE OnItsWay' = {} /\ overflow' = Append(overflow, h)
    <3>1. h \notin O
      BY <1>2, <2>2 DEF Partition
    <3>2. In(overflow') = O \cup {h} /\ IsInjective(overflow')
      BY <1>0, <1>1, <2>2, <2>5, <3>1, InAppend DEF O
    <3>3. Partition(W, P, {}, O \cup {h}, In(t), D, accepted)
      BY <1>2, <2>1, <2>2 DEF Partition
    <3> QED BY <1>1, <2>1, <2>2, <2>5, <3>2, <3>3 DEF W, P, D
  <2> QED BY <2>3, <2>4, <2>5
<1>10. ASSUME NEW p \in Packet, IsNew(p)
       PROVE  /\ IsInjective(wire') /\ IsInjective(packets') /\ IsInjective(overflow') /\ IsInjective(retry')
              /\ IsFiniteSet(D')
              /\ Partition(In(wire'), In(packets'), OnItsWay', In(overflow'), In(retry'), discarded', accepted')
  <2>1. /\ p.id = offered + 1 /\ accepted' = accepted \cup {p} /\ A = {}
        /\ UNCHANGED <<wire, packets, discarded>>
    BY <1>10 DEF IsNew, A
  <2>2. p \notin accepted
    <3>1. \A q \in accepted : q.id <= offered
      BY DEF QueueOrder, Known
    <3> QED BY <1>0, <2>1, <3>1
  <2>3. \/ OnItsWay' = {p} /\ UNCHANGED <<overflow, retry>>
        \/ OnItsWay' = {} /\ overflow' = Append(overflow, p) /\ UNCHANGED retry
        \/ OnItsWay' = {} /\ retry' = Append(retry, p) /\ UNCHANGED overflow
    BY <1>10 DEF IsNew
  <2>4. p \notin O /\ p \notin R
    BY <1>2, <2>2 DEF Partition
  <2>5. CASE OnItsWay' = {p} /\ UNCHANGED <<overflow, retry>>
    <3>1. Partition(W, P, {p}, O, R, D, accepted \cup {p})
      BY <1>2, <2>1, <2>2 DEF Partition
    <3> QED BY <1>1, <2>1, <2>5, <3>1 DEF W, P, O, R, D
  <2>6. CASE OnItsWay' = {} /\ overflow' = Append(overflow, p) /\ UNCHANGED retry
    <3>1. In(overflow') = O \cup {p} /\ IsInjective(overflow')
      BY <1>0, <1>1, <2>4, <2>6, InAppend DEF O
    <3>2. Partition(W, P, {}, O \cup {p}, R, D, accepted \cup {p})
      BY <1>2, <2>1, <2>2 DEF Partition
    <3> QED BY <1>1, <2>1, <2>6, <3>1, <3>2 DEF W, P, R, D
  <2>7. CASE OnItsWay' = {} /\ retry' = Append(retry, p) /\ UNCHANGED overflow
    <3>1. In(retry') = R \cup {p} /\ IsInjective(retry')
      BY <1>0, <1>1, <2>4, <2>7, InAppend DEF R
    <3>2. Partition(W, P, {}, O, R \cup {p}, D, accepted \cup {p})
      BY <1>2, <2>1, <2>2 DEF Partition
    <3> QED BY <1>1, <2>1, <2>7, <3>1, <3>2 DEF W, P, O, D
  <2> QED BY <2>3, <2>5, <2>6, <2>7
<1>11. CASE QueuesDropped
  <2>1. A = {} /\ OnItsWay' = {} /\ UNCHANGED <<wire, accepted>>
    BY <1>11 DEF QueuesDropped, A
  <2>2. \/ packets' = << >> /\ UNCHANGED <<overflow, retry>> /\ discarded' = D \cup P
        \/ packets' = << >> /\ overflow' = << >> /\ UNCHANGED retry /\ discarded' = D \cup P \cup O
        \/ retry' = << >> /\ UNCHANGED <<packets, overflow>> /\ discarded' = D \cup R
    BY <1>11 DEF QueuesDropped, D, P, O, R
  <2>3. IsFiniteSet(P) /\ IsFiniteSet(O) /\ IsFiniteSet(R)
    BY <1>0, InFinite DEF P, O, R
  <2>4. IsFiniteSet(D \cup P) /\ IsFiniteSet(D \cup R)
    BY <1>1, <2>3, FS_Union
  <2>5. IsFiniteSet((D \cup P) \cup O)
    BY <2>3, <2>4, FS_Union
  <2>6. /\ Partition(W, {}, {}, O, R, D \cup P, accepted)
        /\ Partition(W, {}, {}, {}, R, D \cup P \cup O, accepted)
        /\ Partition(W, P, {}, O, {}, D \cup R, accepted)
    BY <1>2, <2>1 DEF Partition
  <2>7. CASE packets' = << >> /\ UNCHANGED <<overflow, retry>> /\ discarded' = D \cup P
    BY <1>1, <1>3, <2>1, <2>4, <2>6, <2>7 DEF W, O, R, D
  <2>8. CASE packets' = << >> /\ overflow' = << >> /\ UNCHANGED retry /\ discarded' = D \cup P \cup O
    BY <1>1, <1>3, <2>1, <2>5, <2>6, <2>8 DEF W, R, D
  <2>9. CASE retry' = << >> /\ UNCHANGED <<packets, overflow>> /\ discarded' = D \cup R
    BY <1>1, <1>3, <2>1, <2>4, <2>6, <2>9 DEF W, P, O, D
  <2> QED BY <2>2, <2>7, <2>8, <2>9
<1> QED BY <1>5, <1>6, <1>7, <1>8, <1>9, <1>10, <1>11, PlaceMoves

\* A finite set as a list: each member once.
LEMMA Listed ==
  ASSUME NEW S, IsFiniteSet(S)
  PROVE  SetToSeq(S) \in Seq(S) /\ IsInjective(SetToSeq(S)) /\ In(SetToSeq(S)) = S
<1> DEFINE n == Cardinality(S)
<1>1. n \in Nat /\ ExistsBijection(1 .. n, S)
  BY FS_CardinalityType
<1>2. \E f \in [1 .. n -> S] : IsInjective(f)
  BY <1>1 DEF ExistsBijection, Bijection, Injection
<1> DEFINE q == SetToSeq(S)
<1>3. q \in [1 .. n -> S] /\ IsInjective(q)
  BY <1>2 DEF SetToSeq
<1>4. q \in Injection(1 .. n, S)
  BY <1>3 DEF Injection
<1>5. Cardinality(1 .. n) = n
  BY <1>1, FS_Interval
<1>6. q \in Surjection(1 .. n, S)
  BY <1>4, <1>5, FS_Injection
<1>7. In(q) = S
  BY <1>3, <1>6 DEF In, Surjection
<1>8. q \in Seq(S)
  BY <1>1, <1>3
<1> QED BY <1>3, <1>7, <1>8

\* PlaceInv says what NoneLost says.
LEMMA PlacesImply == BufferInv /\ PlaceInv => NoneLost
<1> SUFFICES ASSUME BufferInv, PlaceInv PROVE NoneLost
  OBVIOUS
<1> DEFINE A == IF "append" \in Range(todo) THEN <<arg>> ELSE << >>
<1> DEFINE D == SetToSeq(discarded)
<1>0. /\ packets \in Seq(Packet) /\ wire \in Seq(Packet) /\ overflow \in Seq(Packet) /\ retry \in Seq(Packet)
      /\ discarded \subseteq Packet /\ CallInv
  BY Pieces DEF StreamInv, QueueInv, SetInv
<1>1. /\ IsInjective(wire) /\ IsInjective(packets) /\ IsInjective(overflow) /\ IsInjective(retry)
      /\ IsFiniteSet(discarded)
  BY DEF PlaceInv
<1>2. Partition(In(wire), In(packets), OnItsWay, In(overflow), In(retry), discarded, accepted)
  BY DEF PlaceInv
<1>3. A \in Seq(Packet) /\ IsInjective(A) /\ In(A) = OnItsWay
  <2>1. CASE Pushing
    <3>1. arg \in Packet /\ A = <<arg>>
      BY <1>0, <2>1 DEF CallInv, Pushing
    <3>2. In(<<arg>>) = {arg} /\ IsInjective(<<arg>>)
      BY DEF In, IsInjective
    <3> QED BY <2>1, <3>1, <3>2 DEF OnItsWay
  <2>2. CASE ~Pushing
    <3>1. A = << >>
      BY <2>2 DEF Pushing
    <3>2. In(<< >>) = {} /\ IsInjective(<< >>)
      BY DEF In, IsInjective
    <3> QED BY <2>2, <3>1, <3>2 DEF OnItsWay
  <2> QED BY <2>1, <2>2
<1>4. D \in Seq(Packet) /\ IsInjective(D) /\ In(D) = discarded
  BY <1>0, <1>1, Listed
<1> HIDE DEF A, D
<1> DEFINE s2 == wire \o packets
<1>5. s2 \in Seq(Packet) /\ IsInjective(s2) /\ In(s2) = In(wire) \cup In(packets)
  BY <1>0, <1>1, <1>2, InConcat DEF Partition
<1> DEFINE s3 == s2 \o A
<1> HIDE DEF s2
<1>6. s3 \in Seq(Packet) /\ IsInjective(s3) /\ In(s3) = In(wire) \cup In(packets) \cup OnItsWay
  <2>1. In(s2) \cap In(A) = {}
    BY <1>2, <1>3, <1>5 DEF Partition
  <2> QED BY <1>3, <1>5, <2>1, InConcat
<1> DEFINE s4 == s3 \o overflow
<1> HIDE DEF s3
<1>7. s4 \in Seq(Packet) /\ IsInjective(s4) /\ In(s4) = In(wire) \cup In(packets) \cup OnItsWay \cup In(overflow)
  <2>1. In(s3) \cap In(overflow) = {}
    BY <1>2, <1>6 DEF Partition
  <2> QED BY <1>0, <1>1, <1>6, <2>1, InConcat
<1> DEFINE s5 == s4 \o retry
<1> HIDE DEF s4
<1>8. /\ s5 \in Seq(Packet) /\ IsInjective(s5)
      /\ In(s5) = In(wire) \cup In(packets) \cup OnItsWay \cup In(overflow) \cup In(retry)
  <2>1. In(s4) \cap In(retry) = {}
    BY <1>2, <1>7 DEF Partition
  <2> QED BY <1>0, <1>1, <1>7, <2>1, InConcat
<1> DEFINE s6 == s5 \o D
<1> HIDE DEF s5
<1>9. s6 \in Seq(Packet) /\ IsInjective(s6) /\ In(s6) = accepted
  <2>1. In(s5) \cap In(D) = {}
    BY <1>2, <1>4, <1>8 DEF Partition
  <2>2. s6 \in Seq(Packet) /\ IsInjective(s6) /\ In(s6) = In(s5) \cup In(D)
    BY <1>4, <1>8, <2>1, InConcat
  <2> QED BY <1>2, <1>4, <1>8, <2>2 DEF Partition
<1>10. Places = s6
  BY Zenon DEF Places, A, D, s2, s3, s4, s5
<1>11. Range(s6) = In(s6)
  BY DEF Range, In
<1> HIDE DEF s6
<1> QED BY <1>9, <1>10, <1>11 DEF NoneLost

\* A packet that _transportSendWithRetry accepted is in exactly one place: on the wire, in one of
\* the three queues or on its way between them, or thrown away with its connection.
THEOREM NoneLostOrDoubled == Spec => []NoneLost
<1>1. Init => QueueOrder
  BY DEF Init, QueueOrder, Known, RetryNotOvertaken, In
<1>2. Init => PlaceInv
  <2> SUFFICES ASSUME Init PROVE PlaceInv
    OBVIOUS
  <2>1. In(<< >>) = {} /\ IsInjective(<< >>) /\ IsFiniteSet({})
    BY FS_EmptySet DEF In, IsInjective
  <2>2. OnItsWay = {}
    BY Idle DEF Init, OnItsWay
  <2> QED BY <2>1, <2>2 DEF Init, PlaceInv, Partition
<1> QED BY <1>1, <1>2, BufferInit, BufferStep, OrderStep, PlaceStep, PlacesImply, PTL DEF Spec
=============================================================================
