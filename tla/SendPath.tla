------------------------------ MODULE SendPath ------------------------------
(***************************************************************************)
(* The way of a mesh packet from MeshNode to one peer:                     *)
(*                                                                         *)
(*   retry queue of MeshNode       (src/core/node.js)                      *)
(*     -> overflow queue of WebRTCTransport  (src/transport/webrtc.js)     *)
(*       -> TransportSendBuffer, which aggregates packets into frames      *)
(*          (src/transport/send-buffer.js)                                 *)
(*         -> DataChannel, with its bufferedAmount.                        *)
(*                                                                         *)
(* Handlers of Node's event loop run one at a time, but the DataChannel is *)
(* served by a thread of its own, so its bufferedAmount may change between *)
(* any two looks at it.  A handler is therefore modelled as a stack `todo' *)
(* of the calls it still has to make, one step each; a handler starts only *)
(* when the stack is empty, and DcTransmit interleaves with all steps.     *)
(***************************************************************************)
EXTENDS Naturals, Sequences, SequencesExt

CONSTANTS
  Lens,             \* lengths of the packets
  MaxFrameSize,     \* send buffer: most bytes of a frame of several packets
  MaxQueuePackets,  \* send buffer: most packets it holds
  SendOverflowMax,  \* most packets of the overflow queue; 0: not used
  SendRetryMax,     \* most packets of the retry queue
  HighWater,        \* the DataChannel takes frames below this bufferedAmount
  LowWater,         \* ... and reports when bufferedAmount comes down to this
  MaxPackets,       \* bound: packets offered
  MaxConnections    \* bound: PeerConnections created

ASSUME SizesAssumption == Lens \subseteq Nat \ {0} /\ MaxFrameSize \in Nat
ASSUME QueuesAssumption ==
  /\ MaxQueuePackets \in Nat \ {0} /\ SendOverflowMax \in Nat /\ SendRetryMax \in Nat \ {0}
ASSUME WatersAssumption == HighWater \in Nat /\ LowWater \in Nat /\ LowWater < HighWater
ASSUME BoundsAssumption == MaxPackets \in Nat /\ MaxConnections \in Nat

VARIABLES
  retry,        \* MeshNode._sendRetryQueues of the peer
  overflow,     \* WebRTCTransport._sendOverflow of the peer
  packets,      \* TransportSendBuffer.packets
  currentSize,  \* TransportSendBuffer.currentSize
  timer,        \* TransportSendBuffer.timer is set
  pc,           \* the PeerConnection: none, connecting, open, closed (its channel)
  connected,    \* TransportManager.peerTransports has the peer
  emitTimer,    \* the deferred emit of peer-disconnected is pending
  buffered,     \* DataChannel: bufferedAmount
  lowEvent,     \* DataChannel: a bufferedAmountLow event waits in the loop
  todo,         \* calls the running handler still has to make
  arg,          \* the packet of the call to push under way
  connections,  \* number of PeerConnections created
  offered,      \* number of packets offered so far
  accepted,     \* history: packets _transportSendWithRetry has accepted
  pushed,       \* history: packets the send buffer has taken
  wire,         \* history: packets handed to the DataChannel
  discarded,    \* history: packets thrown away with a connection
  frame         \* history: the last frame, [count, size]

queueVars == <<retry, overflow, packets, currentSize, timer>>
connVars  == <<pc, connected, emitTimer, connections>>
dcVars    == <<buffered, lowEvent>>
histVars  == <<offered, accepted, pushed, wire, discarded, frame>>
vars == <<queueVars, connVars, dcVars, todo, arg, histVars>>

HEADER_SIZE == 3   \* marker and packet count
PREFIX_SIZE == 2   \* length of a packet in a frame

Packet       == [id : Nat, len : Lens]
EntrySize(p) == PREFIX_SIZE + p.len
SizeOf(ps)   ==
  LET size[n \in 0 .. Len(ps)] == IF n = 0 THEN HEADER_SIZE ELSE size[n - 1] + EntrySize(ps[n])
  IN  size[Len(ps)]

sb == pc = "open"   \* there is a send buffer
isReady == buffered < HighWater

\* The packets a queue holds, as a set.
In(q) == {q[i] : i \in DOMAIN q}

-----------------------------------------------------------------------------
(* TransportSendBuffer *)

\* _sendFrame: a single packet goes out as it is, several with a header.
SendFrame(ps) ==
  /\ buffered' = buffered + (IF Len(ps) = 1 THEN ps[1].len ELSE SizeOf(ps))
  /\ frame' = [count |-> Len(ps), size |-> SizeOf(ps)]
  /\ wire' = wire \o ps

\* The prefix of c packets that the loop of _flush collects for one frame: as
\* many as fit, but at least one.
OversizeChunk(ps, c) ==           \* mutant: the limit is looked at too late
  /\ SizeOf(SubSeq(ps, 1, c - 1)) <= MaxFrameSize
  /\ c < Len(ps) => SizeOf(SubSeq(ps, 1, c)) > MaxFrameSize
IsChunk(ps, c) ==
  /\ c > 1 => SizeOf(SubSeq(ps, 1, c)) <= MaxFrameSize
  /\ c < Len(ps) => SizeOf(SubSeq(ps, 1, c + 1)) > MaxFrameSize

\* push, up to its first _flush (the caller has seen that the queue has room).
PushCalls(p) ==
  IF currentSize + EntrySize(p) > MaxFrameSize /\ packets # << >>
  THEN <<"flush", "append">> ELSE <<"append">>

Call(name) == todo # << >> /\ Head(todo) = name

\* push, from there on.
AppendTwice ==                    \* mutant: an entry is pushed again
  packets \o <<arg, arg>>
Appended ==
  Append(packets, arg)
NoFlushTimer == timer              \* mutant: only a full frame is flushed
FlushTimerSet == TRUE
PushAppend ==
  /\ Call("append")
  /\ packets' = Appended
  /\ pushed' = Append(pushed, arg)
  /\ currentSize' = currentSize + EntrySize(arg)
  /\ IF currentSize' >= MaxFrameSize
     THEN todo' = <<"flush">> \o Tail(todo) /\ UNCHANGED timer
     ELSE todo' = Tail(todo) /\ timer' = FlushTimerSet
  /\ UNCHANGED <<retry, overflow, connVars, dcVars, arg, offered, accepted, wire, discarded, frame>>

\* _flush with nothing to send, or with a channel that takes nothing now.
FlushNothing ==
  /\ Call("flush")
  /\ packets = << >> \/ ~isReady
  /\ timer' = (packets # << >>)
  /\ todo' = Tail(todo)
  /\ UNCHANGED <<retry, overflow, packets, currentSize, connVars, dcVars, arg, histVars>>

\* _flush of a queue that fits into one frame.
FlushWhole ==
  /\ Call("flush")
  /\ packets # << >> /\ isReady /\ currentSize <= MaxFrameSize
  /\ SendFrame(packets)
  /\ packets' = << >>
  /\ currentSize' = HEADER_SIZE
  /\ timer' = FALSE
  /\ todo' = Tail(todo)
  /\ UNCHANGED <<retry, overflow, connVars, lowEvent, arg, offered, accepted, pushed, discarded>>

\* _flush of a longer one: a loop that sends frames while the channel is ready.
FlushLong ==
  /\ Call("flush")
  /\ packets # << >> /\ isReady /\ currentSize > MaxFrameSize
  /\ timer' = FALSE
  /\ todo' = <<"chunks">> \o Tail(todo)
  /\ UNCHANGED <<retry, overflow, packets, currentSize, connVars, dcVars, arg, histVars>>

FlushChunk ==
  /\ Call("chunks")
  /\ packets # << >> /\ isReady
  /\ \E c \in 1 .. Len(packets) :
       /\ IsChunk(packets, c)
       /\ SendFrame(SubSeq(packets, 1, c))
       /\ packets' = SubSeq(packets, c + 1, Len(packets))
  /\ UNCHANGED <<retry, overflow, currentSize, timer, connVars, lowEvent, todo, arg,
                 offered, accepted, pushed, discarded>>

SizeAfterChunks == SizeOf(packets)
FlushLongEnd ==
  /\ Call("chunks")
  /\ packets = << >> \/ ~isReady
  /\ currentSize' = SizeAfterChunks
  /\ timer' = (packets # << >>)
  /\ todo' = Tail(todo)
  /\ UNCHANGED <<retry, overflow, packets, connVars, dcVars, arg, histVars>>

\* The flush timer and the retry timer are one: it calls _flush.
FlushTimer ==
  /\ todo = << >>
  /\ timer
  /\ timer' = FALSE
  /\ todo' = <<"flush">>
  /\ UNCHANGED <<retry, overflow, packets, currentSize, connVars, dcVars, arg, histVars>>

-----------------------------------------------------------------------------
(* WebRTCTransport and MeshNode *)

BufferHasRoom   == sb /\ Len(packets) < MaxQueuePackets
OverflowHasRoom == sb /\ Len(overflow) < SendOverflowMax

\* _drainSendOverflow: the loop moves one packet; or it ends.
DrainOverflow ==
  /\ Call("drainOverflow")
  /\ overflow # << >> /\ BufferHasRoom
  /\ arg' = Head(overflow)
  /\ overflow' = Tail(overflow)
  /\ todo' = PushCalls(Head(overflow)) \o todo
  /\ UNCHANGED <<retry, packets, currentSize, timer, connVars, dcVars, histVars>>

DrainOverflowEnd ==
  /\ Call("drainOverflow")
  /\ overflow = << >> \/ ~BufferHasRoom
  /\ todo' = Tail(todo)
  /\ UNCHANGED <<queueVars, connVars, dcVars, arg, histVars>>

\* WebRTCTransport.send for packet p in the caller with the calls `after' still
\* to make.  A new packet is offered to the send buffer first, whatever waits in
\* the overflow queue.
Send(p, after) ==
  \/ /\ BufferHasRoom
     /\ arg' = p
     /\ todo' = PushCalls(p) \o <<"drainOverflow">> \o after
     /\ UNCHANGED overflow
  \/ /\ ~BufferHasRoom /\ OverflowHasRoom
     /\ overflow' = Append(overflow, p)
     /\ todo' = after
     /\ UNCHANGED arg
SendFails == ~BufferHasRoom /\ ~OverflowHasRoom

\* _transportSendWithRetry (strictTransportOrdering): whether the packet goes
\* straight to the transport, to the retry queue, or nowhere.
NextPacket(len) == [id |-> offered + 1, len |-> len]
Offer(p) == offered < MaxPackets /\ todo = << >> /\ offered' = offered + 1
Accept(p) == accepted' = accepted \cup {p}

NoOrdering    == TRUE                  \* mutant: waiting packets are overtaken
NothingQueued == retry = << >>
SendNow(p) ==
  /\ Offer(p)
  /\ connected /\ NothingQueued
  /\ Send(p, << >>)
  /\ Accept(p)
  /\ UNCHANGED <<retry, packets, currentSize, timer, connVars, dcVars, pushed, wire, discarded, frame>>

DropWhenFull(p) == retry               \* mutant: accepted but not queued
RetryWith(p) == Append(retry, p)
SendLater(p) ==
  /\ Offer(p)
  /\ connected
  /\ IF NothingQueued THEN SendFails ELSE Len(retry) < SendRetryMax
  /\ retry' = RetryWith(p)
  /\ Accept(p)
  /\ UNCHANGED <<overflow, packets, currentSize, timer, connVars, dcVars, todo, arg,
                 pushed, wire, discarded, frame>>

SendRefused(p) ==
  /\ Offer(p)
  /\ ~connected \/ Len(retry) >= SendRetryMax
  /\ UNCHANGED <<queueVars, connVars, dcVars, todo, arg, accepted, pushed, wire, discarded, frame>>

\* _drainSendRetryQueue: one round of its loop, or its end.
DrainRetry ==
  /\ Call("drainRetry")
  /\ retry # << >> /\ connected
  /\ Send(Head(retry), todo)
  /\ retry' = Tail(retry)
  /\ UNCHANGED <<packets, currentSize, timer, connVars, dcVars, histVars>>

DrainRetryEnd ==
  /\ Call("drainRetry")
  /\ retry = << >> \/ ~connected \/ SendFails
  /\ todo' = Tail(todo)
  /\ UNCHANGED <<queueVars, connVars, dcVars, arg, histVars>>

\* onBufferedAmountLow: resume the send buffer, drain the overflow queue, and on
\* nextTick (before any other event) let MeshNode drain its retry queue.
AfterBufferLow == <<"flush", "drainOverflow", "drainRetry">>
BufferedAmountLow ==
  /\ todo = << >>
  /\ lowEvent
  /\ lowEvent' = FALSE
  /\ todo' = AfterBufferLow
  /\ UNCHANGED <<queueVars, connVars, buffered, arg, histVars>>

\* The DataChannel's own thread sends some of what it has buffered.
DcTransmit ==
  /\ buffered > 0
  /\ \E b \in 0 .. (buffered - 1) :
       /\ buffered' = b
       /\ lowEvent' = (lowEvent \/ (buffered > LowWater /\ b <= LowWater))
  /\ UNCHANGED <<queueVars, connVars, todo, arg, histVars>>

-----------------------------------------------------------------------------
(* The life of the connection *)

\* TransportSendBuffer.stop.  The next send buffer and channel start afresh, and
\* what was pushed and not sent no longer counts.
StopBuffer ==
  /\ packets' = << >>
  /\ currentSize' = HEADER_SIZE
  /\ timer' = FALSE
  /\ buffered' = 0
  /\ lowEvent' = FALSE
  /\ pushed' = wire

\* _createPeerConnection, for an offer of the peer or an own one.  A
\* PeerConnection that is still there is torn down with its send buffer and
\* overflow queue, and its pending peer-disconnected is cancelled: MeshNode is
\* not told, and the peer stays in peerTransports.
NewPeerConnection ==
  /\ todo = << >>
  /\ connections < MaxConnections
  /\ connections' = connections + 1
  /\ pc' = "connecting"
  /\ IF pc # "none"
     THEN StopBuffer /\ overflow' = << >> /\ emitTimer' = FALSE
          /\ discarded' = discarded \cup In(packets) \cup In(overflow)
     ELSE UNCHANGED <<packets, currentSize, timer, dcVars, overflow, emitTimer, pushed, discarded>>
  /\ UNCHANGED <<retry, connected, todo, arg, offered, accepted, wire, frame>>

\* dc.onOpen: a new send buffer; peer-connected.  The zero-delay emitTimer of an
\* earlier connection has run by then.
DcOpen ==
  /\ todo = << >>
  /\ pc = "connecting" /\ ~emitTimer
  /\ pc' = "open"
  /\ connected' = TRUE
  /\ UNCHANGED <<queueVars, emitTimer, connections, dcVars, todo, arg, histVars>>

\* dc.onClosed: the send buffer goes, the overflow queue stays.
DcClosed ==
  /\ todo = << >>
  /\ pc = "open"
  /\ StopBuffer
  /\ pc' = "closed"
  /\ emitTimer' = TRUE
  /\ discarded' = discarded \cup In(packets)
  /\ UNCHANGED <<retry, overflow, connected, connections, todo, arg,
                 offered, accepted, wire, frame>>

\* pc.onStateChange: failed or closed.
PcFailed ==
  /\ todo = << >>
  /\ pc # "none"
  /\ StopBuffer
  /\ pc' = "none"
  /\ emitTimer' = TRUE
  /\ overflow' = << >>
  /\ discarded' = discarded \cup In(packets) \cup In(overflow)
  /\ UNCHANGED <<retry, connected, connections, todo, arg, offered, accepted, wire, frame>>

\* peer-disconnected reaches TransportManager and MeshNode.
PeerDisconnected ==
  /\ todo = << >>
  /\ emitTimer
  /\ emitTimer' = FALSE
  /\ connected' = FALSE
  /\ retry' = << >>
  /\ discarded' = discarded \cup In(retry)
  /\ UNCHANGED <<overflow, packets, currentSize, timer, pc, connections, dcVars, todo, arg,
                 offered, accepted, pushed, wire, frame>>

-----------------------------------------------------------------------------
Init ==
  /\ retry = << >> /\ overflow = << >> /\ packets = << >>
  /\ currentSize = HEADER_SIZE
  /\ timer = FALSE
  /\ pc = "none" /\ connected = FALSE /\ emitTimer = FALSE
  /\ buffered = 0 /\ lowEvent = FALSE
  /\ todo = << >>
  /\ arg = [id |-> 0, len |-> 0]
  /\ connections = 0 /\ offered = 0
  /\ accepted = {} /\ pushed = << >> /\ wire = << >> /\ discarded = {}
  /\ frame = [count |-> 0, size |-> 0]

Steps ==
  \/ PushAppend
  \/ FlushNothing \/ FlushWhole \/ FlushLong \/ FlushChunk \/ FlushLongEnd
  \/ DrainOverflow \/ DrainOverflowEnd \/ DrainRetry \/ DrainRetryEnd

Next ==
  \/ Steps \/ FlushTimer \/ BufferedAmountLow \/ DcTransmit
  \/ \E len \in Lens :
       LET p == NextPacket(len) IN SendNow(p) \/ SendLater(p) \/ SendRefused(p)
  \/ NewPeerConnection \/ DcOpen \/ DcClosed \/ PcFailed \/ PeerDisconnected

Spec == Init /\ [][Next]_vars

(***************************************************************************)
(* Fairness.  A running handler goes on; timers and queued events run; the *)
(* DataChannel empties its buffer; a connection that is made opens.        *)
(* Nothing is assumed of offers, of failures or of new packets.            *)
(***************************************************************************)
Fairness ==
  /\ WF_vars(Steps) /\ WF_vars(FlushTimer) /\ WF_vars(BufferedAmountLow)
  /\ WF_vars(DcTransmit) /\ WF_vars(PeerDisconnected) /\ WF_vars(DcOpen)

FairSpec == Spec /\ Fairness

-----------------------------------------------------------------------------
(* Properties *)

Calls == {"flush", "append", "chunks", "drainOverflow", "drainRetry"}

\* Types, and the limits of the three queues.
TypeOK ==
  /\ Len(retry) <= SendRetryMax /\ Len(overflow) <= SendOverflowMax
  /\ Len(packets) <= MaxQueuePackets
  /\ retry \in Seq(Packet) /\ overflow \in Seq(Packet) /\ packets \in Seq(Packet)
  /\ currentSize \in Nat /\ timer \in BOOLEAN
  /\ pc \in {"none", "connecting", "open", "closed"}
  /\ connected \in BOOLEAN /\ emitTimer \in BOOLEAN
  /\ buffered \in Nat /\ lowEvent \in BOOLEAN
  /\ todo \in Seq(Calls)
  /\ arg \in [id : Nat, len : Nat]
  /\ "append" \in Range(todo) => arg \in Packet
  /\ connections \in Nat /\ offered \in Nat
  /\ accepted \subseteq Packet /\ discarded \subseteq Packet
  /\ pushed \in Seq(Packet) /\ wire \in Seq(Packet)
  /\ frame \in [count : Nat, size : Nat]

\* Aggregation keeps the stream: what the send buffer has taken is what it has
\* sent followed by what it holds, whatever the flushes, the chunks a flush stops
\* at and the moments at which the channel stops being ready.
BufferFifo == pushed = wire \o packets

\* A frame of several packets never exceeds maxFrameSize, although _flush decides
\* by the running total currentSize and not by the packets themselves.
FramesFit == frame.count > 1 => frame.size <= MaxFrameSize

\* Types, the limits of the three queues among them, and the limit of a frame.
FrameInv == TypeOK /\ FramesFit

\* Where the packets are.
Places == wire \o packets \o (IF "append" \in Range(todo) THEN <<arg>> ELSE << >>)
               \o overflow \o retry \o SetToSeq(discarded)

\* A packet that _transportSendWithRetry accepted is in exactly one place: sent,
\* in one of the three queues or on its way between them, or thrown away with
\* the connection it waited for.
NoneLost == IsInjective(Places) /\ Range(Places) = accepted

\* Packets leave the retry queue in the order in which MeshNode accepted them, and
\* none that was accepted later gets past those that wait there.  (Within the
\* transport they may still be overtaken: see Send.)
RetryNotOvertaken ==
  LET past == Range(wire \o packets \o overflow) \cup {arg}
  IN  \A i \in DOMAIN retry :
        /\ \A j \in 1 .. i - 1 : retry[j].id < retry[i].id
        /\ \A p \in past : p.id < retry[i].id

\* When no more packets come and the first channel stays, all that were accepted have been
\* sent: the queues are emptied by timers and by events of the channel alone.  (What waits for
\* a retry while the connection is replaced may stay.)
Ids(S) == {p.id : p \in S}
AcceptedIsSent ==
  <>[](connections = 1 /\ sb => Ids(accepted) \subseteq Ids(In(wire) \cup discarded))
=============================================================================
