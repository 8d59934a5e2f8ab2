------------------------------- MODULE Pipeline -------------------------------
(***************************************************************************)
(* The per-peer promise chains of MeshNode (_handleIncomingMessage,        *)
(* _enqueueExitTx) over the crypto workers of WorkerPipeline.  A behaviour *)
(* is about one of the two pools, which run the same code: rx, whose       *)
(* messages come from a peer, or tx, whose messages are the exit's answers *)
(* to it.  A connection to a peer has a number, which also names the       *)
(* session key made with it and the chain its messages are put on: a       *)
(* disconnect deletes the chain from the map, not the messages on it.      *)
(* Workers are threads with a queue in each direction; a dead one is       *)
(* noticed by its exit event.                                              *)
(***************************************************************************)
EXTENDS Integers, Sequences, FiniteSets

CONSTANTS
  Peers,
  NWorkers,         \* threads of the pool
  Limits,           \* the values of MAX_PENDING considered
  MaxConnections,   \* bound: connections per peer
  MaxMessages,      \* bound: messages in a behaviour
  MaxCrashes        \* bound: workers dead at one time

ASSUME PoolAssumption   == NWorkers \in Nat \ {0} /\ Limits \subseteq Nat
ASSUME BoundsAssumption == MaxConnections \in Nat /\ MaxMessages \in Nat

Workers == 0 .. NWorkers - 1
Chains  == Peers \X (1 .. MaxConnections)

VARIABLES
  pool,      \* direction, rx or tx, and limit (MAX_PENDING); fixed
  alive,     \* the pipeline has workers
  link,      \* number of the open connection to each peer, 0 without one
  made,      \* connections made so far to each peer
  session,   \* number of the session key held for each peer, 0 without one
  current,   \* the chain in _rxPeerChains or _exitTxChains, 0 without one
  queue,     \* messages on each chain; the first is in work
  waiting,   \* chains that wait for the callback of their first message
  arrived,   \* messages so far, which numbers them and the jobs
  pending,   \* _rxPending or _txPending: job, chain of its callback, message
  input,     \* jobs posted to each worker
  output,    \* results each worker has posted
  dead,      \* workers whose exit event has not been handled
  rr,        \* round robin index
  done,      \* history: messages delivered (rx) or sent (tx)
  late       \* history: those of them whose connection was over

nodeVars   == <<link, made, session, current>>
workerVars == <<input, output, dead>>
vars == <<pool, alive, nodeVars, queue, waiting, arrived, pending, workerVars, rr, done, late>>

\* A ping, or a direct packet to relay, needs no worker; a packet of data does.
Kinds    == {"data", "inline"}
Messages == [n : 1 .. MaxMessages, peer : Peers, conn : 1 .. MaxConnections, kind : Kinds]
Jobs     == [id : 1 .. MaxMessages, chain : Chains, msg : Messages, key : 1 .. MaxConnections]
Results  == [id : 1 .. MaxMessages, ok : BOOLEAN]

TypeOK ==
  /\ pool \in [dir : {"rx", "tx"}, limit : Limits] /\ alive \in BOOLEAN
  /\ link \in [Peers -> 0 .. MaxConnections] /\ made \in [Peers -> 0 .. MaxConnections]
  /\ session \in [Peers -> 0 .. MaxConnections]
  /\ current \in [Peers -> 0 .. MaxConnections]
  /\ queue \in [Chains -> Seq(Messages)] /\ waiting \subseteq Chains
  /\ arrived \in 0 .. MaxMessages
  /\ pending \subseteq Jobs /\ Cardinality(pending) <= pool.limit
  /\ input \in [Workers -> Seq(Jobs)] /\ output \in [Workers -> Seq(Results)]
  /\ dead \subseteq Workers /\ rr \in Workers
  /\ done \in Seq(Messages) /\ late \subseteq Messages

Init ==
  /\ pool \in [dir : {"rx", "tx"}, limit : Limits] /\ alive \in BOOLEAN
  /\ link = [p \in Peers |-> 0] /\ made = link /\ session = link /\ current = link
  /\ queue = [c \in Chains |-> << >>] /\ waiting = {}
  /\ arrived = 0 /\ pending = {}
  /\ input = [w \in Workers |-> << >>] /\ output = [w \in Workers |-> << >>]
  /\ dead = {} /\ rr = 0
  /\ done = << >> /\ late = {}

-----------------------------------------------------------------------------
(* Connections.                                                            *)

\* The session is complete when the channel opens.
Connect(p) ==
  /\ link[p] = 0 /\ made[p] < MaxConnections
  /\ made' = [made EXCEPT ![p] = @ + 1]
  /\ link' = [link EXCEPT ![p] = made'[p]]
  /\ session' = [session EXCEPT ![p] = made'[p]]
  /\ UNCHANGED <<pool, alive, current, queue, waiting, arrived, pending, workerVars, rr, done, late>>

Disconnect(p) ==
  /\ link[p] # 0
  /\ link' = [link EXCEPT ![p] = 0]
  /\ session' = [session EXCEPT ![p] = 0]
  /\ current' = [current EXCEPT ![p] = 0]
  /\ UNCHANGED <<pool, alive, made, queue, waiting, arrived, pending, workerVars, rr, done, late>>

-----------------------------------------------------------------------------
(* What becomes of a message.                                              *)

\* _handleRxWorkerResult, or _transportSendWithRetry, which needs the peer connected.
Taken(m) == pool.dir = "rx" \/ link[m.peer] # 0

Settle(m, ok) ==
  IF ok /\ Taken(m)
    THEN /\ done' = Append(done, m)
         /\ late' = IF link[m.peer] = m.conn THEN late ELSE late \cup {m}
    ELSE UNCHANGED <<done, late>>

\* A layer comes off only with the key it was put on with; sealing always succeeds.
Opens(m, key) == pool.dir = "tx" \/ m.kind = "inline" \/ key = m.conn

Advance(c) == queue' = [queue EXCEPT ![c] = Tail(@)]

\* A message arrives: onto the chain in the map, or onto a new one.
\* With no workers the exit does not chain its answers.
Arrive(p, kind) ==
  /\ link[p] # 0 /\ arrived < MaxMessages
  /\ kind = "inline" => pool.dir = "rx"
  /\ arrived' = arrived + 1
  /\ LET m == [n |-> arrived', peer |-> p, conn |-> link[p], kind |-> kind]
         c == <<p, IF current[p] = 0 THEN link[p] ELSE current[p]>>
     IN  IF pool.dir = "tx" /\ ~alive
           THEN Settle(m, TRUE) /\ UNCHANGED <<current, queue>>
           ELSE /\ current' = [current EXCEPT ![p] = c[2]]
                /\ queue' = [queue EXCEPT ![c] = Append(@, m)]
                /\ UNCHANGED <<done, late>>
  /\ UNCHANGED <<pool, alive, link, made, session, waiting, pending, workerVars, rr>>

-----------------------------------------------------------------------------
(* The chain's next step: _processIncomingMessage, runExitTx.              *)

Ready(c) == queue[c] # << >> /\ c \notin waiting

\* No session key: dropped.
Keyless(c) ==
  /\ Ready(c) /\ Head(queue[c]).kind = "data" /\ session[c[1]] = 0
  /\ Advance(c)
  /\ UNCHANGED <<pool, alive, nodeVars, waiting, arrived, pending, workerVars, rr, done, late>>

\* Handled without a worker: no crypto, no pool, or a full one (_fallbackRx, _fallbackTx).
Synchronous(c) ==
  /\ Ready(c)
  /\ LET m == Head(queue[c]) IN
       /\ \/ m.kind = "inline"
          \/ session[c[1]] # 0 /\ (~alive \/ Cardinality(pending) >= pool.limit)
       /\ Settle(m, Opens(m, session[c[1]]))
  /\ Advance(c)
  /\ UNCHANGED <<pool, alive, nodeVars, waiting, arrived, pending, workerVars, rr>>

\* Posted to the next worker, dead or not.
Submit(c) ==
  /\ Ready(c) /\ Head(queue[c]).kind = "data" /\ session[c[1]] # 0
  /\ alive /\ Cardinality(pending) < pool.limit
  /\ LET m == Head(queue[c])
         j == [id |-> m.n, chain |-> c, msg |-> m, key |-> session[c[1]]]
     IN  /\ pending' = pending \cup {j}
         /\ input' = [input EXCEPT ![rr] = Append(@, j)]
  /\ rr' = (rr + 1) % NWorkers
  /\ waiting' = waiting \cup {c}
  /\ UNCHANGED <<pool, alive, nodeVars, queue, arrived, output, dead, done, late>>

-----------------------------------------------------------------------------
(* Workers.                                                                *)

Work(w) ==
  /\ w \notin dead /\ input[w] # << >>
  /\ LET j == Head(input[w]) IN
       output' = [output EXCEPT ![w] = Append(@, [id |-> j.id, ok |-> Opens(j.msg, j.key)])]
  /\ input' = [input EXCEPT ![w] = Tail(@)]
  /\ UNCHANGED <<pool, alive, nodeVars, queue, waiting, arrived, pending, dead, rr, done, late>>

\* The promise of a message is resolved once.
Resolve(c, m) ==
  IF c \in waiting /\ Head(queue[c]) = m
    THEN Advance(c) /\ waiting' = waiting \ {c}
    ELSE UNCHANGED <<queue, waiting>>

\* _onRxResult, _onTxResult: a result without a callback is ignored.
Result(w) ==
  /\ output[w] # << >>
  /\ output' = [output EXCEPT ![w] = Tail(@)]
  /\ LET r == Head(output[w])
         owner == {j \in pending : j.id = r.id}
     IN  /\ pending' = pending \ owner
         /\ IF owner = {}
              THEN UNCHANGED <<queue, waiting, done, late>>
              ELSE \E j \in owner : Settle(j.msg, r.ok) /\ Resolve(j.chain, j.msg)
  /\ UNCHANGED <<pool, alive, nodeVars, arrived, input, dead, rr>>

Crash(w) ==
  /\ alive /\ w \notin dead /\ Cardinality(dead) < MaxCrashes
  /\ dead' = dead \cup {w}
  /\ UNCHANGED <<pool, alive, nodeVars, queue, waiting, arrived, pending, input, output, rr, done, late>>

\* Broken: calls back, and keeps the callbacks.
FlushKeepsCallbacks ==
  /\ waiting' = {}
  /\ queue' = [c \in Chains |-> IF c \in waiting THEN Tail(queue[c]) ELSE queue[c]]
  /\ UNCHANGED pending

\* _flushPending: every callback is called with an error, whichever worker has the job.
FlushPending ==
  /\ pending' = {}
  /\ waiting' = {}
  /\ queue' = [c \in Chains |-> IF c \in waiting THEN Tail(queue[c]) ELSE queue[c]]

\* Broken: only replaces the thread.
ExitOnlyRespawns(w) ==
  /\ w \in dead /\ alive /\ output[w] = << >>
  /\ dead' = dead \ {w}
  /\ input' = [input EXCEPT ![w] = << >>]
  /\ UNCHANGED <<pool, alive, nodeVars, queue, waiting, arrived, pending, output, rr, done, late>>

\* The exit event, after the results posted before it: flush and respawn.
Exit(w) ==
  /\ w \in dead /\ alive /\ output[w] = << >>
  /\ dead' = dead \ {w}
  /\ input' = [input EXCEPT ![w] = << >>]
  /\ FlushPending
  /\ UNCHANGED <<pool, alive, nodeVars, arrived, output, rr, done, late>>

\* MeshNode.stop: sessions and chains are cleared, the pipeline is terminated.
Stop ==
  /\ alive
  /\ alive' = FALSE
  /\ link' = [p \in Peers |-> 0] /\ session' = link' /\ current' = link'
  /\ made' = [p \in Peers |-> MaxConnections]
  /\ FlushPending
  /\ input' = [w \in Workers |-> << >>] /\ output' = input' /\ dead' = {}
  /\ UNCHANGED <<pool, arrived, rr, done, late>>

-----------------------------------------------------------------------------
ChainStep == \E c \in Chains : Keyless(c) \/ Synchronous(c) \/ Submit(c)

Next ==
  \/ \E p \in Peers : Connect(p) \/ Disconnect(p) \/ \E k \in Kinds : Arrive(p, k)
  \/ ChainStep
  \/ \E w \in Workers : Work(w) \/ Result(w) \/ Crash(w) \/ Exit(w)
  \/ Stop

Spec == Init /\ [][Next]_vars

\* The event loop runs what is due; a living thread works and a dead one is reported.
FairSpec ==
  /\ Spec
  /\ \A c \in Chains : WF_vars(Keyless(c) \/ Synchronous(c) \/ Submit(c))
  /\ \A w \in Workers : WF_vars(Work(w)) /\ WF_vars(Result(w)) /\ WF_vars(Exit(w))

-----------------------------------------------------------------------------
\* The messages of a connection are delivered, or sent, in their order and at most once
\* (strictTransportOrdering; "serial TX to one client"): whichever workers they went to, a
\* worker's death, its late results and a full pool included.
InOrder ==
  \A i, j \in DOMAIN done :
    i < j /\ done[i].peer = done[j].peer /\ done[i].conn = done[j].conn => done[i].n < done[j].n

\* Packets received over a connection that is over do not mix with those of the next:
\* those left on its chain are dropped, for want of the session or under the wrong key,
\* but for the one a worker had already.
OneLate ==
  \A c \in Chains :
    pool.dir = "rx" => Cardinality({m \in late : m.kind = "data" /\ <<m.peer, m.conn>> = c}) <= 1

\* Types, the limit of the pool among them, the order of each connection, and what one that is
\* over may still do.
OrderInv == TypeOK /\ InOrder /\ OneLate

\* A chain never waits for good: each message on it is handled or dropped, whatever
\* becomes of the worker that has it.
ChainsDrain == \A c \in Chains : queue[c] # << >> ~> queue[c] = << >>
=============================================================================
