--------------------------- MODULE HandshakeProofs ---------------------------
(***************************************************************************)
(* The ends of an open channel have no keys but those of its handshake,    *)
(* and no connection ends by a late report or a late peer-leave, for any   *)
(* number of faults.                                                       *)
(***************************************************************************)
EXTENDS Handshake, TLAPS

-----------------------------------------------------------------------------
(* The inductive invariant *)

\* Types alone.
Types ==
  /\ reg \subseteq Nodes
  /\ up \in [Nodes -> BOOLEAN] /\ inSig \in [Nodes -> BOOLEAN]
  /\ net \in [Nodes -> Seq(Messages)] /\ work \in [Nodes -> Seq(Messages)]
  /\ busy \in [Nodes -> BOOLEAN] /\ est \in [Nodes -> BOOLEAN]
  /\ pending \in [Nodes -> {"none", "fresh", "stale"}]
  /\ sess \in [Nodes -> [mine : Nat, theirs : Nat]]
  /\ pc \in [Nodes -> Pc] /\ uid \in [Nodes -> Nat]
  /\ zombies \in [Nodes -> SUBSET Nat]
  /\ emitTimer \in [Nodes -> BOOLEAN] /\ reconnectTimer \in [Nodes -> BOOLEAN]
  /\ leaveTimer \in [Nodes -> BOOLEAN]
  /\ faults \in [Kinds -> Nat]

\* The PeerConnection is that of the current epoch; without one nothing is left of it.
PcOK(n) ==
  /\ pc[n].id \in {0, uid[n]} /\ (busy[n] => pc[n].id # 0)
  /\ pc[n].id = 0 => pc[n].remote = 0 /\ pc[n].dc = "none"

\* A session was made with the last PeerConnection, and its remote key came with
\* the description that this one got.
KeyOK(n) ==
  /\ sess[n].mine \in {0, uid[n]} /\ (sess[n].mine = 0 => sess[n].theirs = 0)
  /\ sess[n].mine # 0 /\ pc[n].id # 0 => sess[n].theirs = pc[n].remote

\* What has been destroyed is older than the present PeerConnection, and the
\* peer-disconnected of an end has run, or been cancelled, before a channel opens.
LateOK(n) ==
  /\ \A u \in zombies[n] : u <= uid[n] /\ (pc[n].id # 0 => u < uid[n])
  /\ emitTimer[n] => pc[n].dc # "open"

LocalOK(n) == PcOK(n) /\ KeyOK(n) /\ LateOK(n)

\* A node whose socket is up knows that the other is registered, or will once it has
\* read what is under way: no leave comes after the news.
Leaves(msgs, i) == msgs[i].type = "leave"
Tells(msgs, i)  == msgs[i].type \in {"join", "peers"}
Knows(known, msgs) ==
  \/ known /\ \A i \in DOMAIN msgs : ~Leaves(msgs, i)
  \/ \E i \in DOMAIN msgs : Tells(msgs, i) /\ \A j \in DOMAIN msgs : j > i => ~Leaves(msgs, j)
NewsOK(n) == up[n] /\ Other(n) \in reg => Knows(inSig[n], net[n])

HandshakeInv == Types /\ \A n \in Nodes : LocalOK(n) /\ NewsOK(n)

-----------------------------------------------------------------------------
(* Two nodes, and messages *)

LEMMA TwoNodes ==
  /\ Initiator \in Nodes
  /\ \A n \in Nodes : Other(n) \in Nodes /\ Other(n) # n /\ Other(Other(n)) = n
  /\ \A m, n \in Nodes : m # n => m = Other(n)
<1>1. PICK r \in Nodes : r # Initiator /\ Nodes = {Initiator, r}
  BY NodesAssumption
<1>2. ASSUME NEW n \in Nodes PROVE Other(n) \in Nodes /\ Other(n) # n
  <2>1. \E m \in Nodes : m # n
    BY <1>1
  <2> QED BY <2>1 DEF Other
<1>3. \A m, n \in Nodes : m # n => m = Other(n)
  BY <1>1, <1>2
<1> QED BY <1>1, <1>2, <1>3

LEMMA MessageTypes ==
  /\ \A k \in Nat : Msg("offer", k) \in Messages /\ Msg("answer", k) \in Messages
  /\ Event("peers") \in Messages /\ Event("join") \in Messages /\ Event("leave") \in Messages
  /\ Event("reconnect") \in Messages /\ Event("initiate") \in Messages
BY DEF Msg, Event, Messages

\* A message that is no leave, put last, takes no news away; a join brings it.
LEMMA KnowsAppend ==
  ASSUME NEW known \in BOOLEAN, NEW msgs \in Seq(Messages), NEW m \in Messages, m.type # "leave",
         Knows(known, msgs) \/ m.type \in {"join", "peers"}
  PROVE  Knows(known, Append(msgs, m))
<1> DEFINE all == Append(msgs, m)
<1>1. /\ Len(msgs) \in Nat /\ DOMAIN msgs = 1 .. Len(msgs) /\ DOMAIN all = 1 .. Len(msgs) + 1
      /\ all[Len(msgs) + 1] = m /\ \A i \in 1 .. Len(msgs) : all[i] = msgs[i]
  OBVIOUS
<1> HIDE DEF all
<1>2. CASE m.type \in {"join", "peers"}
  <2>1. Tells(all, Len(msgs) + 1) /\ Len(msgs) + 1 \in DOMAIN all
    BY <1>1, <1>2 DEF Tells
  <2>2. \A j \in DOMAIN all : ~(j > Len(msgs) + 1)
    BY <1>1
  <2> QED BY <2>1, <2>2 DEF Knows, all
<1>3. CASE Knows(known, msgs)
  <2>1. ASSUME NEW j \in DOMAIN all
        PROVE  \/ j \in DOMAIN msgs /\ all[j] = msgs[j]
               \/ j = Len(msgs) + 1 /\ ~Leaves(all, j)
    <3>1. CASE j = Len(msgs) + 1
      BY <1>1, <3>1 DEF Leaves
    <3>2. CASE j # Len(msgs) + 1
      BY <1>1, <3>2
    <3> QED BY <3>1, <3>2
  <2>2. CASE known /\ \A i \in DOMAIN msgs : ~Leaves(msgs, i)
    BY <2>1, <2>2 DEF Knows, Leaves, all
  <2>3. ASSUME NEW i \in DOMAIN msgs, Tells(msgs, i), \A j \in DOMAIN msgs : j > i => ~Leaves(msgs, j)
        PROVE  Knows(known, all)
    <3>1. i \in DOMAIN all /\ Tells(all, i)
      BY <1>1, <2>3 DEF Tells
    <3>2. \A j \in DOMAIN all : j > i => ~Leaves(all, j)
      BY <2>1, <2>3 DEF Leaves
    <3> QED BY <3>1, <3>2 DEF Knows
  <2> QED BY <1>3, <2>2, <2>3 DEF Knows, all
<1> QED BY <1>2, <1>3

\* What the first message says is known once it has been read.
LEMMA KnowsTail ==
  ASSUME NEW known \in BOOLEAN, NEW msgs \in Seq(Messages), msgs # << >>, Knows(known, msgs)
  PROVE  LET now == (known \/ Head(msgs).type \in {"join", "peers"}) /\ Head(msgs).type # "leave"
         IN Knows(now, Tail(msgs))
<1> DEFINE now  == (known \/ Head(msgs).type \in {"join", "peers"}) /\ Head(msgs).type # "leave"
           rest == Tail(msgs)
<1>1. /\ Len(msgs) \in Nat \ {0} /\ DOMAIN msgs = 1 .. Len(msgs) /\ DOMAIN rest = 1 .. Len(msgs) - 1
      /\ \A i \in 1 .. Len(msgs) - 1 : rest[i] = msgs[i + 1]
      /\ Head(msgs) = msgs[1] /\ 1 \in DOMAIN msgs
  OBVIOUS
<1> HIDE DEF rest
<1>2. CASE known /\ \A i \in DOMAIN msgs : ~Leaves(msgs, i)
  <2>1. now
    BY <1>1, <1>2 DEF Leaves
  <2>2. \A i \in DOMAIN rest : ~Leaves(rest, i)
    BY <1>1, <1>2 DEF Leaves
  <2> QED BY <2>1, <2>2 DEF Knows, rest
<1>3. ASSUME NEW i \in DOMAIN msgs, Tells(msgs, i), \A j \in DOMAIN msgs : j > i => ~Leaves(msgs, j)
      PROVE  Knows(now, rest)
  <2>1. \A j \in DOMAIN rest : j + 1 > i => ~Leaves(rest, j)
    <3> SUFFICES ASSUME NEW j \in DOMAIN rest, j + 1 > i PROVE ~Leaves(rest, j)
      OBVIOUS
    <3>1. j + 1 \in DOMAIN msgs /\ rest[j] = msgs[j + 1]
      BY <1>1
    <3> QED BY <3>1, <1>3 DEF Leaves
  <2>2. CASE i = 1
    <3>1. now
      BY <1>1, <1>3, <2>2 DEF Tells
    <3>2. \A j \in DOMAIN rest : ~Leaves(rest, j)
      BY <1>1, <2>1, <2>2
    <3> QED BY <3>1, <3>2 DEF Knows
  <2>3. CASE i # 1
    <3>1. i - 1 \in DOMAIN rest /\ rest[i - 1] = msgs[i]
      BY <1>1, <2>3
    <3>2. Tells(rest, i - 1)
      BY <3>1, <1>3 DEF Tells
    <3>3. \A j \in DOMAIN rest : j > i - 1 => ~Leaves(rest, j)
      BY <1>1, <2>1
    <3> QED BY <3>1, <3>2, <3>3 DEF Knows
  <2> QED BY <2>2, <2>3
<1> QED BY <1>2, <1>3 DEF Knows, rest

LEMMA FaultCounts ==
  ASSUME faults \in [Kinds -> Nat], NEW kind \in Kinds, Fault(kind)
  PROVE  faults' \in [Kinds -> Nat] /\ faults' # faults
<1>1. faults[kind] > 0 /\ faults' = [faults EXCEPT ![kind] = @ - 1]
  BY DEF Fault
<1>2. faults' \in [Kinds -> Nat]
  BY <1>1
<1>3. faults' # faults
  <2>1. faults[kind] \in Nat /\ faults'[kind] = faults[kind] - 1
    BY <1>1
  <2> QED BY <2>1
<1> QED BY <1>2, <1>3

-----------------------------------------------------------------------------
(* What a node knows of itself *)

localVars == <<busy, sess, pc, uid, zombies, emitTimer>>
newsVars  == <<up, reg, inSig, net>>

Local == \A n \in Nodes : LocalOK(n)
News  == \A n \in Nodes : NewsOK(n)

LEMMA LocalSame ==
  ASSUME Local, UNCHANGED localVars
  PROVE  Local'
BY DEF Local, LocalOK, PcOK, KeyOK, LateOK, localVars

LEMMA NewsSame ==
  ASSUME News, UNCHANGED newsVars
  PROVE  News'
BY DEF News, NewsOK, newsVars

\* A report of an end, from the PeerConnection there is or from one destroyed.
LEMMA EndedLocal ==
  ASSUME Types, Local, NEW n \in Nodes, NEW u \in Nat, StateEnded(n, u),
         UNCHANGED <<uid, sess>>
  PROVE  Local' /\ pc' \in [Nodes -> Pc] /\ busy' \in [Nodes -> BOOLEAN]
         /\ pending' \in [Nodes -> {"none", "fresh", "stale"}]
         /\ emitTimer' \in [Nodes -> BOOLEAN] /\ zombies' \in [Nodes -> SUBSET Nat]
<1>1. CASE EpochCurrent(n, u)
  <2>1. /\ pc' = [pc EXCEPT ![n] = NoPc] /\ busy' = [busy EXCEPT ![n] = FALSE]
        /\ pending' = [pending EXCEPT ![n] = IF busy[n] THEN "none" ELSE @]
        /\ emitTimer' = [emitTimer EXCEPT ![n] = TRUE]
        /\ zombies' = [zombies EXCEPT ![n] = (@ \ {u}) \cup ({pc[n].id} \ {0})]
    BY <1>1 DEF StateEnded, TearDown
  <2>2. /\ pc' \in [Nodes -> Pc] /\ busy' \in [Nodes -> BOOLEAN]
        /\ pending' \in [Nodes -> {"none", "fresh", "stale"}]
        /\ emitTimer' \in [Nodes -> BOOLEAN] /\ zombies' \in [Nodes -> SUBSET Nat]
    BY <2>1 DEF Types, Pc, NoPc
  <2>3. ASSUME NEW k \in Nodes PROVE LocalOK(k)'
    <3>1. CASE k = n
      BY <2>1, <3>1 DEF Types, Pc, NoPc, Local, LocalOK, PcOK, KeyOK, LateOK
    <3>2. CASE k # n
      BY <2>1, <3>2 DEF Types, Local, LocalOK, PcOK, KeyOK, LateOK
    <3> QED BY <3>1, <3>2
  <2> QED BY <2>2, <2>3 DEF Local
<1>2. CASE ~EpochCurrent(n, u)
  <2>1. zombies' = [zombies EXCEPT ![n] = @ \ {u}] /\ UNCHANGED <<pc, busy, pending, emitTimer>>
    BY <1>2 DEF StateEnded
  <2>2. zombies' \in [Nodes -> SUBSET Nat] /\ \A k \in Nodes : zombies'[k] \subseteq zombies[k]
    BY <2>1 DEF Types
  <2>3. ASSUME NEW k \in Nodes PROVE LocalOK(k)'
    BY <2>1, <2>2 DEF Local, LocalOK, PcOK, KeyOK, LateOK
  <2> QED BY <2>1, <2>2, <2>3 DEF Local, Types
<1> QED BY <1>1, <1>2

\* A new PeerConnection with its session.
LEMMA NewPcLocal ==
  ASSUME Types, Local, NEW n \in Nodes, NEW remote \in Nat, NewPeerConnection(n, remote),
         busy' = [busy EXCEPT ![n] = TRUE],
         sess' = [sess EXCEPT ![n] = [mine |-> uid[n] + 1, theirs |-> remote]]
  PROVE  /\ Local' /\ pc' \in [Nodes -> Pc] /\ busy' \in [Nodes -> BOOLEAN]
         /\ sess' \in [Nodes -> [mine : Nat, theirs : Nat]] /\ uid' \in [Nodes -> Nat]
         /\ emitTimer' \in [Nodes -> BOOLEAN] /\ zombies' \in [Nodes -> SUBSET Nat]
<1>1. /\ uid' = [uid EXCEPT ![n] = @ + 1]
      /\ pc' = [pc EXCEPT ![n] = [id |-> uid[n] + 1, remote |-> remote, dc |-> "none"]]
      /\ zombies' = [zombies EXCEPT ![n] = @ \cup ({pc[n].id} \ {0})]
      /\ emitTimer' = [emitTimer EXCEPT ![n] = @ /\ pc[n].id = 0]
  BY DEF NewPeerConnection
<1>2. /\ pc' \in [Nodes -> Pc] /\ busy' \in [Nodes -> BOOLEAN]
      /\ sess' \in [Nodes -> [mine : Nat, theirs : Nat]] /\ uid' \in [Nodes -> Nat]
      /\ emitTimer' \in [Nodes -> BOOLEAN] /\ zombies' \in [Nodes -> SUBSET Nat]
  <2>1. /\ pc \in [Nodes -> Pc] /\ busy \in [Nodes -> BOOLEAN] /\ uid \in [Nodes -> Nat]
        /\ sess \in [Nodes -> [mine : Nat, theirs : Nat]]
        /\ emitTimer \in [Nodes -> BOOLEAN] /\ zombies \in [Nodes -> SUBSET Nat]
    BY DEF Types
  <2>2. uid[n] + 1 \in Nat /\ pc[n].id \in Nat
    BY <2>1 DEF Pc
  <2>3. pc' \in [Nodes -> Pc]
    BY <1>1, <2>1, <2>2 DEF Pc
  <2>4. busy' \in [Nodes -> BOOLEAN] /\ uid' \in [Nodes -> Nat]
    BY <1>1, <2>1, <2>2
  <2>5. sess' \in [Nodes -> [mine : Nat, theirs : Nat]]
    BY <2>1, <2>2
  <2>6. zombies' \in [Nodes -> SUBSET Nat]
    BY <1>1, <2>1, <2>2
  <2>7. emitTimer' \in [Nodes -> BOOLEAN]
    BY <1>1, <2>1
  <2> QED BY <2>3, <2>4, <2>5, <2>6, <2>7
<1>3. ASSUME NEW k \in Nodes PROVE LocalOK(k)'
  <2>1. CASE k = n
    BY <1>1, <2>1 DEF Types, Pc, Local, LocalOK, PcOK, KeyOK, LateOK
  <2>2. CASE k # n
    BY <1>1, <2>2 DEF Types, Local, LocalOK, PcOK, KeyOK, LateOK
  <2> QED BY <2>1, <2>2
<1> QED BY <1>2, <1>3 DEF Local

\* The PeerConnection and the session are given up together.
LEMMA DroppedLocal ==
  ASSUME Types, Local, NEW n \in Nodes, TearDown(n),
         zombies' = [zombies EXCEPT ![n] = @ \cup ({pc[n].id} \ {0})],
         sess' = [sess EXCEPT ![n] = NoSession],
         emitTimer' = [emitTimer EXCEPT ![n] = FALSE], UNCHANGED uid
  PROVE  /\ Local' /\ pc' \in [Nodes -> Pc] /\ busy' \in [Nodes -> BOOLEAN]
         /\ sess' \in [Nodes -> [mine : Nat, theirs : Nat]]
         /\ emitTimer' \in [Nodes -> BOOLEAN] /\ zombies' \in [Nodes -> SUBSET Nat]
<1>1. pc' = [pc EXCEPT ![n] = NoPc] /\ busy' = [busy EXCEPT ![n] = FALSE]
  BY DEF TearDown
<1>2. /\ pc' \in [Nodes -> Pc] /\ busy' \in [Nodes -> BOOLEAN]
      /\ sess' \in [Nodes -> [mine : Nat, theirs : Nat]]
      /\ emitTimer' \in [Nodes -> BOOLEAN] /\ zombies' \in [Nodes -> SUBSET Nat]
  BY <1>1 DEF Types, Pc, NoPc, NoSession
<1>3. ASSUME NEW k \in Nodes PROVE LocalOK(k)'
  <2>1. CASE k = n
    BY <1>1, <2>1 DEF Types, Pc, NoPc, NoSession, Local, LocalOK, PcOK, KeyOK, LateOK
  <2>2. CASE k # n
    BY <1>1, <2>2 DEF Types, Local, LocalOK, PcOK, KeyOK, LateOK
  <2> QED BY <2>1, <2>2
<1> QED BY <1>2, <1>3 DEF Local

-----------------------------------------------------------------------------
(* The steps *)

\* The work chain.
LEMMA WorkKeeps ==
  ASSUME HandshakeInv, NEW n \in Nodes, Work(n)
  PROVE  HandshakeInv'
<1>0. Types /\ Local /\ News
  BY DEF HandshakeInv, Local, News
<1> DEFINE head == Head(work[n])
<1>1. ASSUME NEW type, Working(n, type)
      PROVE  /\ head \in Messages /\ Tail(work[n]) \in Seq(Messages)
             /\ Done(n) \/ GoesOn(n) => work' \in [Nodes -> Seq(Messages)]
  <2>1. work[n] \in Seq(Messages) /\ work[n] # << >>
    BY <1>0, <1>1 DEF Types, Working
  <2>2. head \in Messages /\ Tail(work[n]) \in Seq(Messages)
    BY <2>1
  <2>3. <<Event("initiate")>> \o Tail(work[n]) \in Seq(Messages)
    BY <2>2, MessageTypes
  <2> QED BY <1>0, <2>2, <2>3 DEF Done, GoesOn, Types
<1>2. ASSUME WorkPeers(n) PROVE HandshakeInv'
  <2>1. work' \in [Nodes -> Seq(Messages)] /\ UNCHANGED <<localVars, newsVars>>
    BY <1>1, <1>2 DEF WorkPeers, sigVars, pcVars, localVars, newsVars
  <2>2. Types'
    BY <1>0, <1>2, <2>1 DEF WorkPeers, Types, sigVars, pcVars
  <2> QED BY <1>0, <2>1, <2>2, LocalSame, NewsSame DEF HandshakeInv, Local, News
<1>3. ASSUME WorkJoin(n) PROVE HandshakeInv'
  <2>1. work' \in [Nodes -> Seq(Messages)] /\ UNCHANGED newsVars /\ UNCHANGED uid
    BY <1>1, <1>3 DEF WorkJoin, sigVars, newsVars
  <2>2. Local' /\ Types'
    <3>1. CASE ~est[n] /\ pending[n] = "stale"
      <4>1. /\ TearDown(n)
            /\ zombies' = [zombies EXCEPT ![n] = @ \cup ({pc[n].id} \ {0})]
            /\ pending' = [pending EXCEPT ![n] = "none"]
            /\ sess' = [sess EXCEPT ![n] = NoSession]
            /\ emitTimer' = [emitTimer EXCEPT ![n] = FALSE]
        BY <1>3, <3>1 DEF WorkJoin
      <4>2. pending' \in [Nodes -> {"none", "fresh", "stale"}]
        BY <1>0, <4>1 DEF Types
      <4>3. /\ Local' /\ pc' \in [Nodes -> Pc] /\ busy' \in [Nodes -> BOOLEAN]
            /\ sess' \in [Nodes -> [mine : Nat, theirs : Nat]]
            /\ emitTimer' \in [Nodes -> BOOLEAN] /\ zombies' \in [Nodes -> SUBSET Nat]
        BY <1>0, <2>1, <4>1, DroppedLocal
      <4> QED BY <1>0, <1>3, <2>1, <4>2, <4>3 DEF WorkJoin, Types, sigVars
    <3>2. CASE ~(~est[n] /\ pending[n] = "stale")
      <4>1. UNCHANGED <<pc, busy, zombies, pending, sess, emitTimer>>
        BY <1>3, <3>2 DEF WorkJoin
      <4> QED BY <1>0, <1>3, <2>1, <4>1, LocalSame DEF WorkJoin, Types, sigVars, localVars
    <3> QED BY <3>1, <3>2
  <2> QED BY <1>0, <2>1, <2>2, NewsSame DEF HandshakeInv, Local, News
<1>4. ASSUME WorkLeave(n) PROVE HandshakeInv'
  <2>1. work' \in [Nodes -> Seq(Messages)] /\ UNCHANGED <<localVars, newsVars>>
    BY <1>1, <1>4 DEF WorkLeave, sigVars, pcVars, localVars, newsVars
  <2>2. Types'
    BY <1>0, <1>4, <2>1 DEF WorkLeave, Types, sigVars, pcVars
  <2> QED BY <1>0, <2>1, <2>2, LocalSame, NewsSame DEF HandshakeInv, Local, News
<1>5. ASSUME WorkReconnect(n) PROVE HandshakeInv'
  <2>1. work' \in [Nodes -> Seq(Messages)] /\ UNCHANGED <<localVars, newsVars>>
    BY <1>1, <1>5 DEF WorkReconnect, sigVars, pcVars, timerVars, localVars, newsVars
  <2>2. Types'
    BY <1>0, <1>5, <2>1 DEF WorkReconnect, Types, sigVars, pcVars, timerVars
  <2> QED BY <1>0, <2>1, <2>2, LocalSame, NewsSame DEF HandshakeInv, Local, News
<1>6. ASSUME WorkInitiate(n) PROVE HandshakeInv'
  <2>1. work' \in [Nodes -> Seq(Messages)] /\ UNCHANGED newsVars
    BY <1>1, <1>6 DEF WorkInitiate, sigVars, newsVars
  <2>2. Local' /\ Types'
    <3>1. CASE Untouched(n) /\ n = Initiator
      <4>1. /\ pending' = [pending EXCEPT ![n] = "fresh"]
            /\ sess' = [sess EXCEPT ![n] = [mine |-> uid[n] + 1, theirs |-> 0]]
            /\ NewPeerConnection(n, 0)
            /\ busy' = [busy EXCEPT ![n] = TRUE]
        BY <1>6, <3>1 DEF WorkInitiate, NewSession
      <4>2. pending' \in [Nodes -> {"none", "fresh", "stale"}]
        BY <1>0, <4>1 DEF Types
      <4>3. /\ Local' /\ pc' \in [Nodes -> Pc] /\ busy' \in [Nodes -> BOOLEAN]
            /\ sess' \in [Nodes -> [mine : Nat, theirs : Nat]] /\ uid' \in [Nodes -> Nat]
            /\ emitTimer' \in [Nodes -> BOOLEAN] /\ zombies' \in [Nodes -> SUBSET Nat]
        BY <1>0, <4>1, NewPcLocal
      <4> QED BY <1>0, <1>6, <2>1, <4>2, <4>3 DEF WorkInitiate, Types, sigVars
    <3>2. CASE ~(Untouched(n) /\ n = Initiator)
      <4>1. UNCHANGED <<pending, sess, pcVars, emitTimer, busy>>
        BY <1>6, <3>2 DEF WorkInitiate
      <4> QED BY <1>0, <1>6, <2>1, <4>1, LocalSame DEF WorkInitiate, Types, sigVars, pcVars, localVars
    <3> QED BY <3>1, <3>2
  <2> QED BY <1>0, <2>1, <2>2, NewsSame DEF HandshakeInv, Local, News
<1>7. ASSUME WorkOffer(n) PROVE HandshakeInv'
  <2>1. work' \in [Nodes -> Seq(Messages)] /\ UNCHANGED newsVars /\ head.id \in Nat
    BY <1>1, <1>7 DEF WorkOffer, sigVars, newsVars, Messages
  <2>2. /\ pending' = [pending EXCEPT ![n] = "fresh"]
        /\ sess' = [sess EXCEPT ![n] = [mine |-> uid[n] + 1, theirs |-> head.id]]
        /\ NewPeerConnection(n, head.id)
        /\ busy' = [busy EXCEPT ![n] = TRUE]
    <3>1. [NewSession(n) EXCEPT !.theirs = head.id] = [mine |-> uid[n] + 1, theirs |-> head.id]
      BY DEF NewSession
    <3> QED BY <1>7, <3>1 DEF WorkOffer
  <2>3. pending' \in [Nodes -> {"none", "fresh", "stale"}]
    BY <1>0, <2>2 DEF Types
  <2>4. /\ Local' /\ pc' \in [Nodes -> Pc] /\ busy' \in [Nodes -> BOOLEAN]
        /\ sess' \in [Nodes -> [mine : Nat, theirs : Nat]] /\ uid' \in [Nodes -> Nat]
        /\ emitTimer' \in [Nodes -> BOOLEAN] /\ zombies' \in [Nodes -> SUBSET Nat]
    BY <1>0, <2>1, <2>2, NewPcLocal
  <2>5. Types'
    BY <1>0, <1>7, <2>1, <2>3, <2>4 DEF WorkOffer, Types, sigVars
  <2> QED BY <1>0, <2>1, <2>4, <2>5, NewsSame DEF HandshakeInv, Local, News
<1>8. ASSUME WorkAnswer(n) PROVE HandshakeInv'
  <2> DEFINE waits == pc[n].id # 0 /\ pc[n].remote = 0
             keyed == waits /\ sess[n].mine # 0
  <2>1. /\ work' \in [Nodes -> Seq(Messages)] /\ UNCHANGED newsVars /\ head.id \in Nat
        /\ UNCHANGED <<busy, est, uid, zombies, emitTimer, reconnectTimer, leaveTimer, faults>>
    BY <1>1, <1>8 DEF WorkAnswer, sigVars, newsVars, timerVars, Messages
  <2>2. /\ pc' = IF waits THEN [pc EXCEPT ![n].remote = head.id] ELSE pc
        /\ sess' = IF keyed THEN [sess EXCEPT ![n].theirs = head.id] ELSE sess
        /\ pending' = IF keyed THEN pending ELSE [pending EXCEPT ![n] = "none"]
    BY <1>8 DEF WorkAnswer
  <2> HIDE DEF head
  <2>3. /\ pc' \in [Nodes -> Pc] /\ sess' \in [Nodes -> [mine : Nat, theirs : Nat]]
        /\ pending' \in [Nodes -> {"none", "fresh", "stale"}]
    <3>1. pc' \in [Nodes -> Pc]
      <4>1. pc \in [Nodes -> Pc] /\ head.id \in Nat
        BY <1>0, <2>1 DEF Types
      <4>2. CASE waits
        <5>1. pc' = [pc EXCEPT ![n].remote = head.id]
          BY <2>2, <4>2
        <5> QED BY <4>1, <5>1 DEF Pc
      <4>3. CASE ~waits
        BY <2>2, <4>1, <4>3
      <4> QED BY <4>2, <4>3
    <3>2. sess' \in [Nodes -> [mine : Nat, theirs : Nat]]
      BY <1>0, <2>1, <2>2 DEF Types
    <3>3. pending' \in [Nodes -> {"none", "fresh", "stale"}]
      BY <1>0, <2>2 DEF Types
    <3> QED BY <3>1, <3>2, <3>3
  <2>4. ASSUME NEW k \in Nodes PROVE LocalOK(k)'
    <3>1. CASE k = n
      BY <1>0, <2>1, <2>2, <3>1 DEF Types, Pc, Local, LocalOK, PcOK, KeyOK, LateOK
    <3>2. CASE k # n
      BY <1>0, <2>1, <2>2, <3>2 DEF Types, Local, LocalOK, PcOK, KeyOK, LateOK
    <3> QED BY <3>1, <3>2
  <2>5. Types'
    BY <1>0, <2>1, <2>3 DEF Types, newsVars
  <2> QED BY <1>0, <2>1, <2>4, <2>5, NewsSame DEF HandshakeInv, Local, News
<1> QED BY <1>2, <1>3, <1>4, <1>5, <1>6, <1>7, <1>8 DEF Work

\* The timers.
LEMMA TimersKeep ==
  ASSUME HandshakeInv, NEW n \in Nodes, Timers(n)
  PROVE  HandshakeInv'
<1>0. Types /\ Local /\ News
  BY DEF HandshakeInv, Local, News
<1>1. ASSUME PeerDisconnected(n) PROVE HandshakeInv'
  <2>1. /\ emitTimer' = [emitTimer EXCEPT ![n] = FALSE]
        /\ sess' = [sess EXCEPT ![n] = NoSession]
        /\ UNCHANGED newsVars /\ UNCHANGED <<busy, pc, uid, zombies>>
    BY <1>1 DEF PeerDisconnected, sigVars, pcVars, newsVars
  <2>2. Types'
    BY <1>0, <1>1 DEF PeerDisconnected, PendingAfter, NoSession, Types, sigVars, pcVars
  <2>3. ASSUME NEW k \in Nodes PROVE LocalOK(k)'
    <3>1. CASE k = n
      BY <1>0, <2>1, <3>1 DEF Types, NoSession, Local, LocalOK, PcOK, KeyOK, LateOK
    <3>2. CASE k # n
      BY <1>0, <2>1, <3>2 DEF Types, Local, LocalOK, PcOK, KeyOK, LateOK
    <3> QED BY <3>1, <3>2
  <2> QED BY <1>0, <2>1, <2>2, <2>3, NewsSame DEF HandshakeInv, Local, News
<1>2. ASSUME ReconnectTimer(n) PROVE HandshakeInv'
  <2>1. UNCHANGED <<localVars, newsVars>>
    BY <1>2 DEF ReconnectTimer, sigVars, pcVars, localVars, newsVars
  <2>2. Types'
    BY <1>0, <1>2, MessageTypes DEF ReconnectTimer, Queued, Types, sigVars, pcVars
  <2> QED BY <1>0, <2>1, <2>2, LocalSame, NewsSame DEF HandshakeInv, Local, News
<1>3. ASSUME LeaveTimer(n) PROVE HandshakeInv'
  <2>1. UNCHANGED newsVars /\ UNCHANGED uid
    BY <1>3 DEF LeaveTimer, sigVars, newsVars
  <2>2. Local' /\ Types'
    <3>1. CASE StillGone(n)
      <4>1. /\ TearDown(n)
            /\ zombies' = [zombies EXCEPT ![n] = @ \cup ({pc[n].id} \ {0})]
            /\ pending' = [pending EXCEPT ![n] = "none"]
            /\ est' = [est EXCEPT ![n] = FALSE]
            /\ sess' = [sess EXCEPT ![n] = NoSession]
            /\ emitTimer' = [emitTimer EXCEPT ![n] = FALSE]
        BY <1>3, <3>1 DEF LeaveTimer
      <4>2. pending' \in [Nodes -> {"none", "fresh", "stale"}] /\ est' \in [Nodes -> BOOLEAN]
        BY <1>0, <4>1 DEF Types
      <4>3. /\ Local' /\ pc' \in [Nodes -> Pc] /\ busy' \in [Nodes -> BOOLEAN]
            /\ sess' \in [Nodes -> [mine : Nat, theirs : Nat]]
            /\ emitTimer' \in [Nodes -> BOOLEAN] /\ zombies' \in [Nodes -> SUBSET Nat]
        BY <1>0, <2>1, <4>1, DroppedLocal
      <4> QED BY <1>0, <1>3, <2>1, <4>2, <4>3 DEF LeaveTimer, Types, sigVars
    <3>2. CASE ~StillGone(n)
      <4>1. UNCHANGED <<pc, busy, zombies, pending, est, sess, emitTimer>>
        BY <1>3, <3>2 DEF LeaveTimer
      <4> QED BY <1>0, <1>3, <2>1, <4>1, LocalSame DEF LeaveTimer, Types, sigVars, localVars
    <3> QED BY <3>1, <3>2
  <2> QED BY <1>0, <2>1, <2>2, NewsSame DEF HandshakeInv, Local, News
<1>4. ASSUME AgePending(n) PROVE HandshakeInv'
  <2>1. UNCHANGED <<localVars, newsVars>>
    BY <1>4 DEF AgePending, sigVars, pcVars, timerVars, localVars, newsVars
  <2>2. Types'
    BY <1>0, <1>4 DEF AgePending, Types, sigVars, pcVars, timerVars
  <2> QED BY <1>0, <2>1, <2>2, LocalSame, NewsSame DEF HandshakeInv, Local, News
<1> QED BY <1>1, <1>2, <1>3, <1>4 DEF Timers

\* The local description is complete, or does not come.
LEMMA GatherKeeps ==
  ASSUME HandshakeInv, NEW n \in Nodes, GatherDone(n) \/ GatherFailed(n)
  PROVE  HandshakeInv'
<1>0. Types /\ Local /\ News
  BY DEF HandshakeInv, Local, News
<1>1. busy' = [busy EXCEPT ![n] = FALSE] /\ UNCHANGED <<sess, pc, uid, zombies, emitTimer>>
  BY DEF GatherDone, GatherFailed, pcVars, timerVars
<1>2. Local'
  BY <1>0, <1>1 DEF Types, Local, LocalOK, PcOK, KeyOK, LateOK
<1>3. ASSUME GatherDone(n) PROVE Types' /\ News'
  <2> DEFINE msg == Msg(IF n = Initiator THEN "offer" ELSE "answer", pc[n].id)
  <2>1. msg \in Messages /\ msg.type # "leave"
    <3>1. pc[n].id \in Nat
      BY <1>0 DEF Types, Pc
    <3> QED BY <3>1 DEF Msg, Messages
  <2>2. net' = IF up[n] /\ up[Other(n)] THEN [net EXCEPT ![Other(n)] = Append(@, msg)] ELSE net
    BY <1>3 DEF GatherDone
  <2>3. UNCHANGED <<reg, up, inSig>>
    BY <1>3 DEF GatherDone
  <2> HIDE DEF msg
  <2>4. Other(n) \in Nodes
    BY TwoNodes
  <2>5. net' \in [Nodes -> Seq(Messages)]
    BY <1>0, <2>1, <2>2, <2>4 DEF Types
  <2>6. Types'
    BY <1>0, <1>1, <1>3, <2>5 DEF GatherDone, Types, pcVars, timerVars
  <2>7. ASSUME NEW k \in Nodes, up[k], Other(k) \in reg PROVE Knows(inSig[k], net'[k])
    <3>1. Knows(inSig[k], net[k]) /\ net[k] \in Seq(Messages) /\ inSig[k] \in BOOLEAN
      BY <1>0, <2>7 DEF News, NewsOK, Types
    <3>2. net'[k] = net[k] \/ net'[k] = Append(net[k], msg)
      BY <1>0, <2>2, <2>4 DEF Types
    <3> QED BY <2>1, <3>1, <3>2, KnowsAppend
  <2> QED BY <2>3, <2>6, <2>7 DEF News, NewsOK
<1>4. ASSUME GatherFailed(n) PROVE Types' /\ News'
  <2>1. UNCHANGED newsVars
    BY <1>4 DEF GatherFailed, sigVars, newsVars
  <2>2. faults' \in [Kinds -> Nat]
    BY <1>0, <1>4, FaultCounts DEF GatherFailed, Types, Kinds
  <2>3. Types'
    BY <1>0, <1>4, <2>2 DEF GatherFailed, Types, sigVars, pcVars, timerVars
  <2> QED BY <1>0, <2>1, <2>3, NewsSame
<1> QED BY <1>2, <1>3, <1>4 DEF HandshakeInv, Local, News

\* Channels open and close, PeerConnections fail.
LEMMA ChannelKeeps ==
  ASSUME HandshakeInv, NEW n \in Nodes, DcOpen(n) \/ DcClosed(n) \/ PcFailed(n) \/ ZombieEnds(n)
  PROVE  HandshakeInv'
<1>0. Types /\ Local /\ News
  BY DEF HandshakeInv, Local, News
<1>1. UNCHANGED newsVars
  BY DEF DcOpen, DcClosed, PcFailed, ZombieEnds, sigVars, newsVars
<1>2. faults' \in [Kinds -> Nat]
  <2>1. faults' = faults \/ Fault("failure") \/ Fault("gather")
    BY DEF DcOpen, DcClosed, PcFailed, ZombieEnds
  <2> QED BY <1>0, <2>1, FaultCounts DEF Types, Kinds
<1>3. ASSUME DcOpen(n) PROVE Types' /\ Local'
  <2>1. /\ pc' = [pc EXCEPT ![n].dc = "open"] /\ pc[n].id # 0 /\ ~emitTimer[n]
        /\ UNCHANGED <<busy, sess, uid, zombies, emitTimer>>
    BY <1>3 DEF DcOpen, Matched
  <2>2. Types'
    BY <1>0, <1>2, <1>3 DEF DcOpen, Types, Pc, sigVars
  <2>3. ASSUME NEW k \in Nodes PROVE LocalOK(k)'
    <3>1. CASE k = n
      BY <1>0, <2>1, <3>1 DEF Types, Pc, Local, LocalOK, PcOK, KeyOK, LateOK
    <3>2. CASE k # n
      BY <1>0, <2>1, <3>2 DEF Types, Local, LocalOK, PcOK, KeyOK, LateOK
    <3> QED BY <3>1, <3>2
  <2> QED BY <2>2, <2>3 DEF Local
<1>4. ASSUME DcClosed(n) PROVE Types' /\ Local'
  <2>1. /\ pc' = [pc EXCEPT ![n].dc = "closed"] /\ pc[n].dc = "open"
        /\ emitTimer' = [emitTimer EXCEPT ![n] = TRUE]
        /\ UNCHANGED <<busy, sess, uid, zombies>>
    BY <1>4 DEF DcClosed
  <2>2. Types'
    BY <1>0, <1>2, <1>4 DEF DcClosed, Types, Pc, sigVars
  <2>3. ASSUME NEW k \in Nodes PROVE LocalOK(k)'
    <3>1. CASE k = n
      BY <1>0, <2>1, <3>1 DEF Types, Pc, Local, LocalOK, PcOK, KeyOK, LateOK
    <3>2. CASE k # n
      BY <1>0, <2>1, <3>2 DEF Types, Local, LocalOK, PcOK, KeyOK, LateOK
    <3> QED BY <3>1, <3>2
  <2> QED BY <2>2, <2>3 DEF Local
<1>5. ASSUME PcFailed(n) \/ ZombieEnds(n) PROVE Types' /\ Local'
  <2>1. PICK u \in Nat : StateEnded(n, u)
    BY <1>0, <1>5 DEF PcFailed, ZombieEnds, Types, Pc
  <2>2. UNCHANGED <<uid, sess, sigVars, inSig, work, est, reconnectTimer, leaveTimer>>
    BY <1>5 DEF PcFailed, ZombieEnds
  <2>3. /\ Local' /\ pc' \in [Nodes -> Pc] /\ busy' \in [Nodes -> BOOLEAN]
        /\ pending' \in [Nodes -> {"none", "fresh", "stale"}]
        /\ emitTimer' \in [Nodes -> BOOLEAN] /\ zombies' \in [Nodes -> SUBSET Nat]
    BY <1>0, <2>1, <2>2, EndedLocal
  <2> QED BY <1>0, <1>2, <2>2, <2>3 DEF Types, sigVars
<1> QED BY <1>0, <1>1, <1>3, <1>4, <1>5, NewsSame DEF HandshakeInv, Local, News

\* A message of the server is handed over.
LEMMA ReceiveKeeps ==
  ASSUME HandshakeInv, NEW n \in Nodes, Receive(n)
  PROVE  HandshakeInv'
<1>0. Types /\ Local /\ News
  BY DEF HandshakeInv, Local, News
<1> DEFINE msg == Head(net[n])
<1>1. /\ net[n] \in Seq(Messages) /\ net[n] # << >> /\ inSig[n] \in BOOLEAN
      /\ work[n] \in Seq(Messages)
  BY <1>0 DEF Receive, Types
<1>2. msg \in Messages /\ Tail(net[n]) \in Seq(Messages)
  BY <1>1
<1> DEFINE now == (inSig[n] \/ msg.type \in {"join", "peers"}) /\ msg.type # "leave"
<1>3. /\ net' = [net EXCEPT ![n] = Tail(net[n])]
      /\ inSig' = [inSig EXCEPT ![n] = now]
      /\ work' = [work EXCEPT ![n] = Append(work[n], msg)]
      /\ UNCHANGED <<reg, up, busy, pending, est, sess, pcVars, emitTimer, faults>>
  BY DEF Receive, Queued
<1>4. reconnectTimer' \in [Nodes -> BOOLEAN] /\ leaveTimer' \in [Nodes -> BOOLEAN]
  BY <1>0 DEF Receive, Types
<1>5. now \in BOOLEAN
  OBVIOUS
<1>6. Knows(inSig[n], net[n]) => Knows(now, Tail(net[n]))
  BY <1>1, KnowsTail
<1> HIDE DEF msg, now
<1>7. Types'
  <2>1. /\ net' \in [Nodes -> Seq(Messages)] /\ inSig' \in [Nodes -> BOOLEAN]
        /\ work' \in [Nodes -> Seq(Messages)]
    BY <1>0, <1>1, <1>2, <1>3, <1>5 DEF Types
  <2> QED BY <1>0, <1>3, <1>4, <2>1 DEF Types, pcVars
<1>8. News'
  <2> SUFFICES ASSUME NEW k \in Nodes, up[k], Other(k) \in reg PROVE Knows(inSig'[k], net'[k])
    BY <1>3 DEF News, NewsOK
  <2>1. Knows(inSig[k], net[k])
    BY <1>0 DEF News, NewsOK
  <2>2. CASE k = n
    BY <1>0, <1>3, <1>6, <2>1, <2>2 DEF Types
  <2>3. CASE k # n
    BY <1>0, <1>3, <2>1, <2>3 DEF Types
  <2> QED BY <2>2, <2>3
<1>9. Local'
  BY <1>0, <1>3, LocalSame DEF localVars, pcVars
<1> QED BY <1>7, <1>8, <1>9 DEF HandshakeInv, Local, News

\* Registrations and lost sockets.
LEMMA SignallingKeeps ==
  ASSUME HandshakeInv, NEW n \in Nodes, Register(n) \/ ServerClose(n) \/ SigDrop(n)
  PROVE  HandshakeInv'
<1>0. Types /\ Local /\ News
  BY DEF HandshakeInv, Local, News
<1> DEFINE o == Other(n)
<1>1. o \in Nodes /\ o # n /\ Other(o) = n /\ \A k \in Nodes : k = n \/ k = o
  BY TwoNodes
<1>2. UNCHANGED localVars /\ UNCHANGED <<inSig, work, pending, est, reconnectTimer, leaveTimer>>
  BY DEF Register, ServerClose, SigDrop, localVars, pcVars, timerVars
<1>3. net[o] \in Seq(Messages) /\ net[n] \in Seq(Messages) /\ inSig[o] \in BOOLEAN
  BY <1>0, <1>1 DEF Types
<1>4. News => (up[o] /\ n \in reg => Knows(inSig[o], net[o])) /\ (up[n] /\ o \in reg => Knows(inSig[n], net[n]))
  BY <1>1 DEF News, NewsOK
<1>5. ASSUME (up[o] /\ n \in reg => Knows(inSig[o], net[o]))', (up[n] /\ o \in reg => Knows(inSig[n], net[n]))'
      PROVE  News'
  BY <1>1, <1>5 DEF News, NewsOK
<1> HIDE DEF o
<1>6. ASSUME Register(n) PROVE Types' /\ News'
  <2>1. /\ ~up[n] /\ up' = [up EXCEPT ![n] = TRUE] /\ reg' = reg \cup {n}
        /\ net' = [net EXCEPT ![n] = IF o \in reg THEN <<Event("peers")>> ELSE << >>,
                              ![o] = IF up[o] THEN Append(net[o], Event("join")) ELSE net[o]]
        /\ faults' = faults
    BY <1>1, <1>6 DEF Register, o
  <2>2. /\ net'[n] = IF o \in reg THEN <<Event("peers")>> ELSE << >>
        /\ net'[o] = IF up[o] THEN Append(net[o], Event("join")) ELSE net[o]
    BY <1>0, <1>1, <2>1 DEF Types
  <2>3. net' \in [Nodes -> Seq(Messages)]
    <3>1. <<Event("peers")>> \in Seq(Messages) /\ Append(net[o], Event("join")) \in Seq(Messages)
      BY <1>3, MessageTypes
    <3>2. net'[n] \in Seq(Messages) /\ net'[o] \in Seq(Messages)
      BY <1>3, <2>2, <3>1
    <3>3. net' = [k \in Nodes |-> IF k = n THEN net'[n] ELSE net'[o]]
      BY <1>0, <1>1, <2>1 DEF Types
    <3> QED BY <3>2, <3>3
  <2>4. Types'
    BY <1>0, <1>2, <2>1, <2>3 DEF Types, localVars
  <2>5. ASSUME up'[o] PROVE Knows(inSig'[o], net'[o])
    <3>1. up[o] /\ net'[o] = Append(net[o], Event("join")) /\ inSig'[o] = inSig[o]
      BY <1>0, <1>1, <1>2, <2>1, <2>2, <2>5 DEF Types
    <3>2. Event("join") \in Messages /\ Event("join").type = "join"
      BY MessageTypes DEF Event, Msg
    <3> QED BY <1>3, <3>1, <3>2, KnowsAppend
  <2>6. ASSUME o \in reg' PROVE Knows(inSig'[n], net'[n])
    <3>1. net'[n] = <<Event("peers")>>
      BY <1>1, <2>1, <2>2, <2>6
    <3>2. Event("peers").type = "peers"
      BY DEF Event, Msg
    <3>3. 1 \in DOMAIN net'[n] /\ Tells(net'[n], 1) /\ \A j \in DOMAIN net'[n] : ~(j > 1)
      BY <3>1, <3>2 DEF Tells
    <3> QED BY <3>3 DEF Knows
  <2> QED BY <1>5, <2>4, <2>5, <2>6
<1>7. ASSUME ServerClose(n) PROVE Types' /\ News'
  <2>1. /\ reg' = reg \ {n} /\ up' = up /\ faults' = faults /\ ~up[n]
        /\ net' = IF up[o] THEN [net EXCEPT ![o] = Append(@, Event("leave"))] ELSE net
    BY <1>7 DEF ServerClose, o
  <2>2. net' \in [Nodes -> Seq(Messages)]
    BY <1>0, <1>1, <1>3, <2>1, MessageTypes DEF Types
  <2>3. Types'
    BY <1>0, <1>2, <2>1, <2>2 DEF Types, localVars
  <2> QED BY <1>5, <2>1, <2>3
<1>8. ASSUME SigDrop(n) PROVE Types' /\ News'
  <2>1. /\ reg' = reg /\ up' = [up EXCEPT ![n] = FALSE] /\ net' = [net EXCEPT ![n] = << >>]
        /\ Fault("drop")
    BY <1>8 DEF SigDrop
  <2>2. faults' \in [Kinds -> Nat] /\ net' \in [Nodes -> Seq(Messages)] /\ up' \in [Nodes -> BOOLEAN]
    BY <1>0, <2>1, FaultCounts DEF Types, Kinds
  <2>3. Types'
    BY <1>0, <1>2, <2>1, <2>2 DEF Types, localVars
  <2>4. ~up'[n] /\ up'[o] = up[o] /\ net'[o] = net[o] /\ inSig' = inSig
    BY <1>0, <1>1, <1>2, <2>1 DEF Types
  <2> QED BY <1>0, <1>4, <1>5, <2>1, <2>3, <2>4
<1> QED BY <1>0, <1>2, <1>6, <1>7, <1>8, LocalSame DEF HandshakeInv, Local, News

\* A node starts again with nothing.
LEMMA CrashKeeps ==
  ASSUME HandshakeInv, NEW n \in Nodes, Crash(n)
  PROVE  HandshakeInv'
<1>0. Types /\ Local /\ News
  BY DEF HandshakeInv, Local, News
<1>1. faults' \in [Kinds -> Nat]
  BY <1>0, FaultCounts DEF Crash, Types, Kinds
<1>2. Types'
  BY <1>0, <1>1 DEF Crash, Types, Pc, NoPc, NoSession
<1>3. ASSUME NEW k \in Nodes PROVE LocalOK(k)'
  <2>1. /\ busy' = [busy EXCEPT ![n] = FALSE] /\ sess' = [sess EXCEPT ![n] = NoSession]
        /\ pc' = [pc EXCEPT ![n] = NoPc] /\ zombies' = [zombies EXCEPT ![n] = {}]
        /\ emitTimer' = [emitTimer EXCEPT ![n] = FALSE] /\ uid' = uid
    BY DEF Crash
  <2>2. CASE k = n
    BY <1>0, <2>1, <2>2 DEF Types, NoPc, NoSession, Local, LocalOK, PcOK, KeyOK, LateOK
  <2>3. CASE k # n
    BY <1>0, <2>1, <2>3 DEF Types, Local, LocalOK, PcOK, KeyOK, LateOK
  <2> QED BY <2>2, <2>3
<1>4. ASSUME NEW k \in Nodes PROVE NewsOK(k)'
  <2>1. /\ up' = [up EXCEPT ![n] = FALSE] /\ net' = [net EXCEPT ![n] = << >>]
        /\ inSig' = [inSig EXCEPT ![n] = FALSE] /\ reg' = reg
    BY DEF Crash
  <2>2. CASE k = n
    BY <1>0, <2>1, <2>2 DEF Types, NewsOK
  <2>3. CASE k # n
    <3>1. up'[k] = up[k] /\ net'[k] = net[k] /\ inSig'[k] = inSig[k]
      BY <1>0, <2>1, <2>3 DEF Types
    <3> QED BY <1>0, <2>1, <3>1 DEF News, NewsOK
  <2> QED BY <2>2, <2>3
<1> QED BY <1>2, <1>3, <1>4 DEF HandshakeInv

LEMMA InitHandshake == Init => HandshakeInv
<1> SUFFICES ASSUME Init PROVE HandshakeInv
  OBVIOUS
<1>1. Types
  BY BudgetsAssumption DEF Init, Types, Pc, NoPc, NoSession
<1>2. ASSUME NEW n \in Nodes PROVE LocalOK(n) /\ NewsOK(n)
  BY DEF Init, NoPc, NoSession, LocalOK, PcOK, KeyOK, LateOK, NewsOK
<1> QED BY <1>1, <1>2 DEF HandshakeInv

LEMMA NextHandshake == HandshakeInv /\ [Next]_vars => HandshakeInv'
<1> SUFFICES ASSUME HandshakeInv, [Next]_vars PROVE HandshakeInv'
  OBVIOUS
<1>1. CASE UNCHANGED vars
  <2>1. UNCHANGED <<localVars, newsVars>> /\ Types'
    BY <1>1 DEF HandshakeInv, Types, vars, sigVars, pcVars, timerVars, localVars, newsVars
  <2> QED BY <2>1, LocalSame, NewsSame DEF HandshakeInv, Local, News
<1> QED BY <1>1, WorkKeeps, TimersKeep, GatherKeeps, ChannelKeeps, ReceiveKeeps, SignallingKeeps,
           CrashKeeps DEF Next

-----------------------------------------------------------------------------
(* The theorems *)

\* Whatever fails, and whatever is late, an end of an open channel has the keys of the
\* channel's own handshake or no session at all: a session is always that of the last
\* PeerConnection (discovery.js makes them together), and its remote key came with the
\* description which that one was given.
THEOREM OneSession == Spec => []SessionInv
<1>1. HandshakeInv => SessionInv
  <2> SUFFICES ASSUME HandshakeInv PROVE SessionInv
    OBVIOUS
  <2>1. TypeOK
    BY DEF HandshakeInv, Types, LocalOK, PcOK, TypeOK
  <2>2. ASSUME NEW n \in Nodes, Open(n), Open(Other(n)), sess[n].mine # 0
        PROVE  sess[n] = [mine |-> pc[n].id, theirs |-> pc[Other(n)].id]
    <3>1. /\ pc[n].id # 0 /\ pc[n].remote = pc[Other(n)].id
          /\ sess[n] \in [mine : Nat, theirs : Nat]
      BY <2>2 DEF HandshakeInv, Types, Open, Matched
    <3>2. sess[n].mine = pc[n].id /\ sess[n].theirs = pc[n].remote
      BY <2>2, <3>1 DEF HandshakeInv, LocalOK, PcOK, KeyOK
    <3> QED BY <3>1, <3>2
  <2>3. ASSUME NEW n \in Nodes, sess[n].mine = 0
        PROVE  sess[n] = NoSession
    <3>1. sess[n] \in [mine : Nat, theirs : Nat] /\ sess[n].theirs = 0
      BY <2>3 DEF HandshakeInv, Types, LocalOK, KeyOK
    <3> QED BY <2>3, <3>1 DEF NoSession
  <2>4. ASSUME \A n \in Nodes : Open(n), NEW n \in Nodes
        PROVE  sess[n] \in {NoSession, [mine |-> pc[n].id, theirs |-> pc[Other(n)].id]}
    <3>1. Open(n) /\ Open(Other(n))
      BY <2>4, TwoNodes
    <3> QED BY <3>1, <2>2, <2>3
  <2> QED BY <2>1, <2>4 DEF SessionInv, SessionsAgree
<1> QED BY <1>1, InitHandshake, NextHandshake, PTL DEF Spec

\* The steps of one node.
Step(m) ==
  \/ Work(m) \/ Timers(m) \/ Receive(m) \/ GatherDone(m) \/ GatherFailed(m)
  \/ DcOpen(m) \/ DcClosed(m) \/ PcFailed(m) \/ ZombieEnds(m)
  \/ Register(m) \/ ServerClose(m) \/ SigDrop(m) \/ Crash(m)

\* A node changes its own state only.
LEMMA OnlyItsOwn ==
  ASSUME Types, NEW m \in Nodes, Step(m), NEW n \in Nodes, n # m
  PROVE  pc'[n] = pc[n] /\ est'[n] = est[n] /\ leaveTimer'[n] = leaveTimer[n]
<1>1. ASSUME Work(m) PROVE pc'[n] = pc[n] /\ est'[n] = est[n] /\ leaveTimer'[n] = leaveTimer[n]
  <2>1. CASE WorkPeers(m) \/ WorkLeave(m) \/ WorkReconnect(m)
    BY <2>1 DEF WorkPeers, WorkLeave, WorkReconnect, pcVars, timerVars, Types
  <2>2. CASE WorkJoin(m)
    BY <2>2 DEF WorkJoin, TearDown, Types
  <2>3. CASE WorkInitiate(m)
    BY <2>3 DEF WorkInitiate, NewPeerConnection, pcVars, Types
  <2>4. CASE WorkOffer(m)
    BY <2>4 DEF WorkOffer, NewPeerConnection, Types
  <2>5. CASE WorkAnswer(m)
    BY <2>5 DEF WorkAnswer, timerVars, Types
  <2> QED BY <1>1, <2>1, <2>2, <2>3, <2>4, <2>5 DEF Work
<1>2. ASSUME Timers(m) PROVE pc'[n] = pc[n] /\ est'[n] = est[n] /\ leaveTimer'[n] = leaveTimer[n]
  <2>1. CASE PeerDisconnected(m) \/ ReconnectTimer(m) \/ AgePending(m)
    BY <2>1 DEF PeerDisconnected, ReconnectTimer, AgePending, pcVars, timerVars, Types
  <2>2. CASE LeaveTimer(m)
    BY <2>2 DEF LeaveTimer, TearDown, Types
  <2> QED BY <1>2, <2>1, <2>2 DEF Timers
<1>3. ASSUME Receive(m) \/ GatherDone(m) \/ GatherFailed(m) \/ Register(m) \/ ServerClose(m) \/ SigDrop(m)
      PROVE  pc'[n] = pc[n] /\ est'[n] = est[n] /\ leaveTimer'[n] = leaveTimer[n]
  BY <1>3 DEF Receive, GatherDone, GatherFailed, Register, ServerClose, SigDrop, pcVars, timerVars, Types
<1>4. ASSUME DcOpen(m) \/ DcClosed(m) \/ Crash(m)
      PROVE  pc'[n] = pc[n] /\ est'[n] = est[n] /\ leaveTimer'[n] = leaveTimer[n]
  BY <1>4 DEF DcOpen, DcClosed, Crash, Types
<1>5. ASSUME PcFailed(m) \/ ZombieEnds(m)
      PROVE  pc'[n] = pc[n] /\ est'[n] = est[n] /\ leaveTimer'[n] = leaveTimer[n]
  <2>1. PICK u : StateEnded(m, u)
    BY <1>5 DEF PcFailed, ZombieEnds
  <2> QED BY <1>5, <2>1 DEF PcFailed, ZombieEnds, StateEnded, TearDown, Types
<1> QED BY <1>1, <1>2, <1>3, <1>4, <1>5 DEF Step

\* Without a fault, and without a new PeerConnection, what a node does leaves an open
\* connection open while the other end keeps it.
LEMMA OwnStepKeeps ==
  ASSUME HandshakeInv, NEW n \in Nodes, Step(n), Connected(n), faults' = faults,
         uid'[n] = uid[n], pc[Other(n)].dc # "closed"
  PROVE  pc'[n] = pc[n] /\ est'[n] = est[n]
<1>0. Types /\ LocalOK(n)
  BY DEF HandshakeInv
<1>1. /\ pc[n].id # 0 /\ pc[n].remote # 0 /\ pc[n].dc = "open" /\ est[n] /\ Matched(n)
  BY DEF Connected, Open, Matched
<1>2. ~Doomed(n) /\ ~TimesOut(n)
  BY <1>1 DEF Matched, Doomed, TimesOut
<1>3. ~Fault("failure") /\ ~Fault("gather") /\ ~Fault("crash")
  BY <1>0, FaultCounts DEF Types, Kinds
<1>4. ~emitTimer[n] /\ uid[n] = pc[n].id /\ uid[n] \notin zombies[n] /\ uid[n] \in Nat
  BY <1>0, <1>1 DEF LocalOK, PcOK, LateOK, Types
<1>5. ~NewPeerConnection(n, 0) /\ \A k : ~NewPeerConnection(n, k)
  BY <1>0, <1>4 DEF NewPeerConnection, Types
<1>6. CASE Work(n)
  <2>1. CASE WorkPeers(n) \/ WorkLeave(n) \/ WorkReconnect(n)
    BY <2>1 DEF WorkPeers, WorkLeave, WorkReconnect, pcVars
  <2>2. CASE WorkJoin(n)
    BY <1>1, <2>2 DEF WorkJoin
  <2>3. CASE WorkInitiate(n)
    BY <1>5, <2>3 DEF WorkInitiate, pcVars
  <2>4. CASE WorkOffer(n)
    BY <1>5, <2>4 DEF WorkOffer
  <2>5. CASE WorkAnswer(n)
    BY <1>1, <2>5 DEF WorkAnswer
  <2> QED BY <1>6, <2>1, <2>2, <2>3, <2>4, <2>5 DEF Work
<1>7. CASE Timers(n)
  BY <1>1, <1>4, <1>7 DEF Timers, PeerDisconnected, ReconnectTimer, LeaveTimer, AgePending, StillGone,
     pcVars
<1>8. CASE Receive(n) \/ GatherDone(n) \/ GatherFailed(n) \/ Register(n) \/ ServerClose(n) \/ SigDrop(n)
  BY <1>8 DEF Receive, GatherDone, GatherFailed, Register, ServerClose, SigDrop, pcVars
<1>9. CASE DcOpen(n) \/ DcClosed(n) \/ PcFailed(n) \/ Crash(n)
  BY <1>1, <1>2, <1>3, <1>9 DEF DcOpen, DcClosed, PcFailed, Crash
<1>10. CASE ZombieEnds(n)
  <2>1. PICK u \in zombies[n] : StateEnded(n, u)
    BY <1>10 DEF ZombieEnds
  <2>2. ~EpochCurrent(n, u)
    BY <1>4 DEF EpochCurrent
  <2> QED BY <1>10, <2>1, <2>2 DEF ZombieEnds, StateEnded
<1> QED BY <1>6, <1>7, <1>8, <1>9, <1>10 DEF Step

\* A deferred peer-leave that closes a PeerConnection is that of a peer which is gone, or
\* whose return the node is still to hear of.
LEMMA LeaveSpares ==
  ASSUME HandshakeInv, NEW n \in Nodes, Step(n)
  PROVE  LeaveSparesReturned(n)
<1> SUFFICES ASSUME leaveTimer[n], ~leaveTimer'[n], pc[n].id # 0, pc'[n] = NoPc, faults' = faults,
                    Other(n) \in reg, up[n]
             PROVE  \E i \in DOMAIN net[n] : net[n][i].type \in {"join", "peers"}
  BY DEF LeaveSparesReturned, Returning
<1>0. Types /\ NewsOK(n)
  BY DEF HandshakeInv
<1>1. pc'[n] # pc[n]
  BY DEF NoPc
<1>2. LeaveTimer(n) /\ StillGone(n)
  <2>1. ~Fault("crash")
    BY <1>0, FaultCounts DEF Types, Kinds
  <2>2. ~Work(n)
    BY <1>1 DEF Work, WorkPeers, WorkJoin, WorkLeave, WorkReconnect, WorkInitiate, WorkOffer,
       WorkAnswer, pcVars, timerVars
  <2>3. ~Receive(n) /\ ~GatherDone(n) /\ ~GatherFailed(n) /\ ~Register(n) /\ ~ServerClose(n) /\ ~SigDrop(n)
    BY <1>1 DEF Receive, GatherDone, GatherFailed, Register, ServerClose, SigDrop, pcVars
  <2>4. ~DcOpen(n)
    BY <1>0 DEF DcOpen, NoPc, Types, Pc
  <2>5. ~DcClosed(n) /\ ~PcFailed(n) /\ ~ZombieEnds(n) /\ ~Crash(n)
    BY <2>1 DEF DcClosed, PcFailed, ZombieEnds, Crash
  <2>6. LeaveTimer(n)
    BY <1>1, <2>2, <2>3, <2>4, <2>5 DEF Step, Timers, PeerDisconnected, ReconnectTimer, AgePending, pcVars
  <2> QED BY <1>1, <2>6 DEF LeaveTimer
<1>3. Knows(inSig[n], net[n]) /\ ~inSig[n]
  BY <1>0, <1>2 DEF NewsOK, StillGone
<1> QED BY <1>3 DEF Knows, Tells

\* Of the reports, timers and messages that come late, none takes a good connection down:
\* epochs tell a report of a destroyed PeerConnection (webrtc.js), a peer-disconnected has run or
\* been cancelled before a channel opens, and the delayed peer-leave looks again (discovery.js).
THEOREM KeptWithoutReason == Spec => ConnectionKept
<1>1. ASSUME HandshakeInv, [Next]_vars
      PROVE  [\A n \in Nodes : EndsForAReason(n) /\ LeaveSparesReturned(n)]_vars
  <2> SUFFICES ASSUME Next, NEW n \in Nodes PROVE EndsForAReason(n) /\ LeaveSparesReturned(n)
    BY <1>1
  <2>0. Types
    BY <1>1 DEF HandshakeInv
  <2>1. PICK m \in Nodes : Step(m)
    BY DEF Next, Step
  <2>2. CASE m = n
    <3>1. ASSUME Connected(n), faults' = faults, uid'[n] = uid[n],
                 pc[Other(n)].dc # "closed", pc'[Other(n)] = pc[Other(n)]
          PROVE  Connected(n)'
      <4>1. pc'[n] = pc[n] /\ est'[n] = est[n]
        BY <1>1, <2>1, <2>2, <3>1, OwnStepKeeps
      <4> QED BY <3>1, <4>1 DEF Connected, Open, Matched
    <3> QED BY <1>1, <2>1, <2>2, <3>1, LeaveSpares DEF EndsForAReason
  <2>3. CASE m # n
    <3>1. pc'[n] = pc[n] /\ est'[n] = est[n] /\ leaveTimer'[n] = leaveTimer[n]
      BY <2>0, <2>1, <2>3, OnlyItsOwn
    <3>2. ASSUME Connected(n), pc'[Other(n)] = pc[Other(n)] PROVE Connected(n)'
      BY <3>1, <3>2 DEF Connected, Open, Matched
    <3> QED BY <3>1, <3>2 DEF EndsForAReason, LeaveSparesReturned
  <2> QED BY <2>2, <2>3
<1> QED BY <1>1, InitHandshake, NextHandshake, PTL DEF Spec, ConnectionKept
=============================================================================
