--------------------------- MODULE UsbTxQueueProofs ---------------------------
(***************************************************************************)
(* For any number of tasks, slots, NTBs and attempts: that every slot has  *)
(* one owner and in_use counts the right ones, that the worker does not    *)
(* sleep through capacity, and that frames reach the driver fresh, once    *)
(* and in order.                                                           *)
(***************************************************************************)
EXTENDS UsbTxQueue, FiniteSetTheorems, TLAPS

Producer == [pc : {"idle", "submitting", "admitted", "taken", "filled"}, n : Nat, epoch : Nat, born : Nat,
             slot : Held]
Worker   == [pc : {"idle", "sending", "calling", "busy", "blocked", "done", "releasing"},
             slot : Held, tries : 0 .. MaxAttempts]

\* The types but for the two counters, whose range follows from what they count.
Types ==
  /\ free \in Seq(Slots) /\ pending \in Seq(Slots) /\ data \in [Slots -> Data]
  /\ inUse \in Int /\ backlog = inUse /\ sent \in Seq(Data)
  /\ epoch \in Nat /\ mounts \in 0 .. MaxMounts /\ used \in 0 .. Capacity /\ notified \in BOOLEAN
  /\ host \in {"gone", "suspended", "ready"} /\ tusb \in {"idle", "notifying", "mounting"}
  /\ prod \in [Producers -> Producer] /\ worker \in Worker

\* Who holds a slot, by where it is in its code; an attempt is left while the worker goes on.
Holding ==
  /\ \A p \in Producers : prod[p].slot \in Slots <=> prod[p].pc \in {"taken", "filled"}
  /\ worker.slot \in Slots <=> worker.pc # "idle"
  /\ worker.pc \in {"sending", "blocked"} => worker.tries < MaxAttempts

\* The owners of a slot, kind by kind: no slot is in two places.
Apart ==
  /\ \A i, j \in DOMAIN free : free[i] = free[j] => i = j
  /\ \A i, j \in DOMAIN pending : pending[i] = pending[j] => i = j
  /\ \A p, q \in Producers : prod[p].slot = prod[q].slot /\ prod[p].slot \in Slots => p = q
  /\ \A i \in DOMAIN free, j \in DOMAIN pending : free[i] # pending[j]
  /\ \A i \in DOMAIN free, p \in Producers : free[i] # prod[p].slot
  /\ \A i \in DOMAIN pending, p \in Producers : pending[i] # prod[p].slot
  /\ \A i \in DOMAIN free : free[i] # worker.slot
  /\ \A i \in DOMAIN pending : pending[i] # worker.slot
  /\ \A p \in Producers : prod[p].slot \in Slots => prod[p].slot # worker.slot

\* No slot is lost.
Somewhere ==
  \A s \in Slots :
    \/ \E i \in DOMAIN free : free[i] = s
    \/ \E i \in DOMAIN pending : pending[i] = s
    \/ \E p \in Producers : prod[p].slot = s
    \/ worker.slot = s

Taken == {p \in Producers : prod[p].pc = "taken"}

\* The slots in_use counts: filled, and not yet counted off.
Counted ==
  {s \in Slots :
     \/ \E i \in DOMAIN pending : pending[i] = s
     \/ \E p \in Producers : prod[p].slot = s /\ prod[p].pc = "filled"
     \/ worker.slot = s /\ worker.pc # "releasing"}

\* 1 while the worker has counted its slot off and still holds it.
CountedOff == IF worker.pc = "releasing" THEN 1 ELSE 0

Counts ==
  /\ IsFiniteSet(Taken)
  /\ inUse = Cardinality(Counted)
  /\ inUse = NSlots - Len(free) - Cardinality(Taken) - CountedOff

SlotInv == Types /\ Holding /\ Apart /\ Somewhere /\ Counts

\* Why the worker is not woken for nothing: from the moment the driver was found full, the
\* driver stays full or a notification is on its way, unless the host has left.
Expectant ==
  worker.pc \in {"busy", "blocked"} /\ ~notified /\ host # "gone" => used = Capacity \/ tusb # "idle"

-----------------------------------------------------------------------------
\* The worker has a frame that it may still hand over.
Handing == worker.pc \in {"sending", "calling", "busy", "blocked"}

\* The frames that are published: in the queue or in the worker's hands.
Published == {pending[j] : j \in DOMAIN pending} \cup {s \in Slots : Handing /\ s = worker.slot}

\* Of one task's frames, f is the earlier.
Ahead(f, g) == f.frame[1] = g.frame[1] => f.frame[2] < g.frame[2]

\* A frame its task has submitted before the one it is at now, in state pr of the tasks.
Past(pr, f) ==
  /\ f.frame \in Producers \X Nat
  /\ f.frame[2] <= pr[f.frame[1]].n
  /\ pr[f.frame[1]].pc # "idle" => f.frame[2] < pr[f.frame[1]].n

\* The frame task p of state pr is at.
Made(pr, p) == [frame |-> <<p, pr[p].n>>, epoch |-> pr[p].epoch, born |-> pr[p].born]

\* Frames go through the queue, the worker and the driver in line.
SentInLine     == \A i, j \in DOMAIN sent : i < j => Ahead(sent[i], sent[j])
QueueInLine    == \A i, j \in DOMAIN pending : i < j => Ahead(data[pending[i]], data[pending[j]])
QueueAfterSent == \A i \in DOMAIN sent, s \in Published : Ahead(sent[i], data[s])
WorkerFirst    == Handing => \A j \in DOMAIN pending : Ahead(data[worker.slot], data[pending[j]])
AllPast        == /\ \A i \in DOMAIN sent : Past(prod, sent[i])
                  /\ \A s \in Published : Past(prod, data[s])
FilledRight    == \A p \in Producers : prod[p].pc = "filled" => data[prod[p].slot] = Made(prod, p)

InLine == SentInLine /\ QueueInLine /\ QueueAfterSent /\ WorkerFirst /\ AllPast /\ FilledRight

\* Once the mount has been reported, an epoch tells a frame of this mount from an older one.
Dated(e, b) == e <= epoch /\ (e = epoch /\ tusb # "mounting" => b = mounts)

\* One frame may be sent across a mount: the one the worker was calling the driver with.
AllDated    == /\ \A p \in Producers : prod[p].pc # "idle" => Dated(prod[p].epoch, prod[p].born)
               /\ \A s \in Published : Dated(data[s].epoch, data[s].born)
NoneYet     == host = "ready" /\ tusb = "mounting" => sent = << >>
LastOldCall == worker.pc = "calling" /\ data[worker.slot].born # mounts =>
                 \A i \in DOMAIN sent : sent[i].born = mounts
OneOld      == \A i, j \in DOMAIN sent : sent[i].born # mounts /\ sent[j].born # mounts => i = j

Fresh == AllDated /\ NoneYet /\ LastOldCall /\ OneOld

LineInv == InLine /\ Fresh

-----------------------------------------------------------------------------
USE UsbAssumption

\* What is known of a queue once its head has been taken.
LEMMA TailFacts ==
  ASSUME NEW S, NEW q \in Seq(S), q # << >>
  PROVE  /\ Len(q) \in Nat \ {0} /\ Head(q) = q[1] /\ Head(q) \in S
         /\ Tail(q) \in Seq(S) /\ Len(Tail(q)) = Len(q) - 1
         /\ DOMAIN q = 1 .. Len(q) /\ DOMAIN Tail(q) = 1 .. Len(q) - 1
         /\ \A i \in DOMAIN Tail(q) : i + 1 \in DOMAIN q /\ Tail(q)[i] = q[i + 1]
         /\ \A i \in DOMAIN q : i # 1 => i - 1 \in DOMAIN Tail(q) /\ q[i] = Tail(q)[i - 1]
OBVIOUS

\* What is known of a queue after an addition.
LEMMA AppendFacts ==
  ASSUME NEW S, NEW q \in Seq(S), NEW e \in S
  PROVE  /\ Append(q, e) \in Seq(S) /\ Len(q) \in Nat /\ Len(Append(q, e)) = Len(q) + 1
         /\ DOMAIN q = 1 .. Len(q) /\ DOMAIN Append(q, e) = 1 .. Len(q) + 1
         /\ \A i \in DOMAIN q : i \in DOMAIN Append(q, e) /\ Append(q, e)[i] = q[i]
         /\ Append(q, e)[Len(q) + 1] = e
OBVIOUS

\* Every step keeps the types of tasks, slots and queues.
LEMMA TypesStep == Types /\ Holding /\ [Next]_vars => Types'
<1> SUFFICES ASSUME Types, Holding, [Next]_vars PROVE Types'
  OBVIOUS
<1> USE DEF Types, At, Then, Returns, ProducerOnly, On, Go, WorkerOnly, TaskOnly, queues, stats, usb
<1>1. ASSUME NEW p \in Producers, Submit(p) PROVE Types'
  <2>1. prod' \in [Producers -> Producer]
    BY <1>1, SMTT(30) DEF Submit, Producer, Held
  <2> QED BY <1>1, <2>1 DEF Submit
<1>0. ASSUME NEW p \in Producers, LookAtHost(p) PROVE Types'
  <2>1. prod' \in [Producers -> Producer]
    <3>1. \/ prod' = [prod EXCEPT ![p] = [pc |-> "idle", n |-> prod[p].n, epoch |-> 0, born |-> 0, slot |-> NoSlot]]
          \/ prod' = [prod EXCEPT ![p].pc = "admitted"]
      BY <1>0 DEF LookAtHost
    <3>2. CASE prod' = [prod EXCEPT ![p] = [pc |-> "idle", n |-> prod[p].n, epoch |-> 0, born |-> 0, slot |-> NoSlot]]
      BY <3>2 DEF Producer, Held
    <3>3. CASE prod' = [prod EXCEPT ![p].pc = "admitted"]
      <4> DEFINE q == [prod[p] EXCEPT !.pc = "admitted"]
      <4>1. q \in Producer
        BY DEF Producer
      <4>2. prod' = [prod EXCEPT ![p] = q]
        BY <3>3, Zenon
      <4> HIDE DEF q
      <4> QED BY <4>1, <4>2
    <3> QED BY <3>1, <3>2, <3>3
  <2> QED BY <1>0, <2>1 DEF LookAtHost
<1>2. ASSUME NEW p \in Producers, TakeSlot(p) PROVE Types'
  <2>1. CASE free = << >>
    <3>1. prod' = [prod EXCEPT ![p] = [pc |-> "idle", n |-> prod[p].n, epoch |-> 0, born |-> 0, slot |-> NoSlot]]
      BY <1>2, <2>1 DEF TakeSlot
    <3>2. prod' \in [Producers -> Producer]
      BY <3>1 DEF Producer, Held
    <3> QED BY <1>2, <2>1, <3>2 DEF TakeSlot
  <2>2. CASE free # << >>
    <3>1. Head(free) \in Slots /\ Tail(free) \in Seq(Slots)
      BY <2>2, TailFacts
    <3>2. prod' = [prod EXCEPT ![p].pc = "taken", ![p].slot = Head(free)] /\ free' = Tail(free)
      BY <1>2, <2>2 DEF TakeSlot
    <3>3. prod' \in [Producers -> Producer]
      BY <3>1, <3>2, ZenonT(30) DEF Producer, Held
    <3> QED BY <1>2, <3>1, <3>2, <3>3 DEF TakeSlot
  <2> QED BY <2>1, <2>2
<1>3. ASSUME NEW p \in Producers, Fill(p) PROVE Types'
  <2>1. prod[p].slot \in Slots
    BY <1>3 DEF Fill, Holding
  <2>2. [frame |-> <<p, prod[p].n>>, epoch |-> prod[p].epoch, born |-> prod[p].born] \in Data
    BY DEF Data, Frames, Producer
  <2>3. prod' \in [Producers -> Producer]
    BY <1>3 DEF Fill, Producer
  <2> QED BY <1>3, <2>1, <2>2, <2>3, SMTT(30) DEF Fill
<1>4. ASSUME NEW p \in Producers, Publish(p) PROVE Types'
  <2>1. prod[p].slot \in Slots
    BY <1>4 DEF Publish, Holding
  <2>2. prod' \in [Producers -> Producer]
    BY <1>4 DEF Publish, Producer, Held
  <2> QED BY <1>4, <2>1, <2>2, AppendFacts DEF Publish
<1>5. CASE Receive
  <2>1. Head(pending) \in Slots /\ Tail(pending) \in Seq(Slots)
    BY <1>5, TailFacts DEF Receive
  <2>2. worker' \in Worker
    BY <1>5, <2>1 DEF Receive, Worker, Held
  <2> QED BY <1>5, <2>1, <2>2 DEF Receive
<1>6. CASE Attempt
  <2>1. worker.tries + 1 \in 0 .. MaxAttempts
    BY <1>6, SMTT(30) DEF Attempt, Holding, Worker
  <2>2. worker' \in Worker
    BY <1>6, <2>1 DEF Attempt, Worker
  <2> QED BY <1>6, <2>2 DEF Attempt
<1>7. CASE CallTimeout
  BY <1>7 DEF CallTimeout, Worker
<1>8. CASE Busy
  BY <1>8 DEF Busy, Worker
<1>9. CASE Wake
  BY <1>9 DEF Wake, Worker
<1>10. CASE CapacityTimeout
  BY <1>10 DEF CapacityTimeout, Worker
<1>11. CASE Release
  <2>1. CASE On("done")
    <3>1. worker' \in Worker
      BY <1>11, <2>1 DEF Release, Worker
    <3> QED BY <1>11, <2>1, <3>1 DEF Release
  <2>2. CASE On("releasing")
    <3>1. NoData \in Data /\ Asleep \in Worker
      BY DEF NoData, Data, Frames, Asleep, Worker, Held
    <3>2. worker.slot \in Slots
      BY <2>2 DEF Holding
    <3>3. Append(free, worker.slot) \in Seq(Slots)
      BY <3>2, AppendFacts
    <3> QED BY <1>11, <2>2, <3>1, <3>2, <3>3 DEF Release
  <2> QED BY <1>11, <2>1, <2>2 DEF Release
<1>12. CASE DriverSends
  <2>1. data[worker.slot] \in Data
    BY <1>12 DEF DriverSends, Holding
  <2>2. Append(sent, data[worker.slot]) \in Seq(Data)
    BY <2>1, AppendFacts
  <2>3. worker' \in Worker
    BY <1>12 DEF DriverSends, Worker
  <2>4. sent' \in Seq(Data) /\ used' \in 0 .. Capacity
    <3>1. CASE used < Capacity
      <4>1. sent' = Append(sent, data[worker.slot]) /\ used' = used + 1
        BY <1>12, <3>1 DEF DriverSends
      <4>2. used + 1 \in 0 .. Capacity
        BY <3>1
      <4> QED BY <2>2, <4>1, <4>2
    <3>2. CASE ~(used < Capacity)
      BY <1>12, <3>2 DEF DriverSends
    <3> QED BY <3>1, <3>2
  <2> QED BY <1>12, <2>3, <2>4 DEF DriverSends
<1>13. CASE TransferComplete
  BY <1>13 DEF TransferComplete
<1>14. CASE Notify
  BY <1>14 DEF Notify
<1>15. CASE MountCallback
  BY <1>15 DEF MountCallback
<1>16. CASE Mount
  BY <1>16 DEF Mount
<1>17. CASE Disconnect
  BY <1>17 DEF Disconnect
<1>18. CASE SuspendResume
  BY <1>18 DEF SuspendResume
<1>19. CASE UNCHANGED vars
  BY <1>19 DEF vars
<1> QED
  BY <1>0, <1>1, <1>2, <1>3, <1>4, <1>5, <1>6, <1>7, <1>8, <1>9, <1>10, <1>11, <1>12, <1>13, <1>14,
     <1>15, <1>16, <1>17, <1>18, <1>19 DEF Next, SubmitStep, WorkerStep, HostStep

-----------------------------------------------------------------------------
\* No slot changes hands.
SameSlots ==
  /\ free' = free /\ pending' = pending /\ worker'.slot = worker.slot
  /\ \A p \in Producers : prod'[p].slot = prod[p].slot

\* Nor does one change its part in the counts.
SameParts ==
  /\ inUse' = inUse /\ (worker'.pc = "releasing" <=> worker.pc = "releasing")
  /\ \A p \in Producers : /\ prod'[p].pc = "taken" <=> prod[p].pc = "taken"
                          /\ prod'[p].pc = "filled" <=> prod[p].pc = "filled"

Takes(p) == TakeSlot(p) /\ free # << >>

\* The steps that move a slot or a count.
Moves ==
  \/ \E p \in Producers : Takes(p) \/ Fill(p) \/ Publish(p)
  \/ Receive \/ Release

\* All others leave slots and counts alone.
LEMMA StillStep ==
  ASSUME Types, Holding, [Next]_vars, ~Moves
  PROVE  SameSlots /\ SameParts /\ Holding'
<1> USE DEF SameSlots, SameParts, At, Then, Returns, ProducerOnly, On, Go, WorkerOnly, TaskOnly, queues, stats, usb
<1>a. worker \in Worker /\ prod \in [Producers -> Producer]
  BY DEF Types
<1>1. ASSUME NEW p \in Producers, Submit(p) PROVE SameSlots /\ SameParts /\ Holding'
  <2>1. prod[p].slot = NoSlot
    BY <1>1, <1>a DEF Submit, Holding, Producer, Held
  <2> QED BY <1>1, <1>a, <2>1 DEF Submit, Holding, Slots, NoSlot
<1>0. ASSUME NEW p \in Producers, LookAtHost(p) PROVE SameSlots /\ SameParts /\ Holding'
  <2>1. prod[p].slot = NoSlot
    BY <1>0, <1>a DEF LookAtHost, Holding, Producer, Held
  <2>2. CASE Returns(p)
    BY <1>0, <1>a, <2>1, <2>2 DEF LookAtHost, Holding, Slots, NoSlot
  <2>3. CASE Then(p, "admitted")
    BY <1>0, <1>a, <2>1, <2>3 DEF LookAtHost, Holding, Producer, Slots, NoSlot
  <2> QED BY <1>0, <2>2, <2>3 DEF LookAtHost
<1>2. ASSUME NEW p \in Producers, TakeSlot(p) PROVE SameSlots /\ SameParts /\ Holding'
  <2>1. prod[p].slot = NoSlot
    BY <1>2, <1>a DEF TakeSlot, Holding, Producer, Held
  <2>2. Returns(p) /\ UNCHANGED free
    BY <1>2 DEF TakeSlot, Moves, Takes
  <2> QED BY <1>2, <1>a, <2>1, <2>2 DEF TakeSlot, Holding, Slots, NoSlot
<1>6. CASE Attempt
  BY <1>6, <1>a DEF Attempt, Holding, Worker
<1>7. CASE CallTimeout
  BY <1>7, <1>a DEF CallTimeout, Holding, Worker
<1>8. CASE Busy
  BY <1>8, <1>a DEF Busy, Holding, Worker
<1>9. CASE Wake
  BY <1>9, <1>a DEF Wake, Holding, Worker
<1>10. CASE CapacityTimeout
  BY <1>10, <1>a DEF CapacityTimeout, Holding, Worker
<1>12. CASE DriverSends
  BY <1>12, <1>a DEF DriverSends, Holding, Worker
<1>13. CASE Notify \/ MountCallback \/ HostStep \/ UNCHANGED vars
  BY <1>13 DEF Notify, MountCallback, HostStep, Mount, Disconnect, SuspendResume, TransferComplete, vars, Holding
<1> QED
  BY <1>0, <1>1, <1>2, <1>6, <1>7, <1>8, <1>9, <1>10, <1>12, <1>13 DEF Next, SubmitStep, WorkerStep, Moves

\* They keep every part of the slots' invariant.
LEMMA StillInv ==
  ASSUME Types, SameSlots, SameParts, Apart, Somewhere, Counts
  PROVE  Apart' /\ Somewhere' /\ Counts'
<1>1. Apart' /\ Somewhere'
  BY DEF SameSlots, Apart, Somewhere
<1>2. Taken' = Taken /\ Counted' = Counted
  BY DEF SameSlots, SameParts, Taken, Counted
<1> QED BY <1>1, <1>2 DEF SameSlots, SameParts, Counts, CountedOff

-----------------------------------------------------------------------------
\* One slot more, and one slot less.
LEMMA CountUp ==
  ASSUME NEW A \in SUBSET Slots, NEW s \in Slots, s \notin A
  PROVE  Cardinality(A \cup {s}) = Cardinality(A) + 1
<1>1. IsFiniteSet(Slots)
  BY FS_Interval DEF Slots
<1> QED BY <1>1, FS_Subset, FS_AddElement

\* A set of slots has one element more than it has without one of them.
LEMMA CountDown ==
  ASSUME NEW A \in SUBSET Slots, NEW s \in A
  PROVE  Cardinality(A \ {s}) = Cardinality(A) - 1
<1>1. IsFiniteSet(Slots)
  BY FS_Interval DEF Slots
<1> QED BY <1>1, FS_Subset, FS_RemoveElement

\* A producer takes the head of s_free.
LEMMA TakeInv ==
  ASSUME SlotInv, NEW p \in Producers, Takes(p)
  PROVE  Holding' /\ Apart' /\ Somewhere' /\ Counts'
<1> DEFINE s == Head(free)
<1>a. /\ free \in Seq(Slots) /\ prod \in [Producers -> Producer] /\ inUse \in Int
  BY DEF SlotInv, Types
<1>b. Holding /\ Apart /\ Somewhere /\ Counts
  BY DEF SlotInv
<1>1. /\ prod' = [prod EXCEPT ![p].pc = "taken", ![p].slot = s] /\ free' = Tail(free)
      /\ pending' = pending /\ worker' = worker /\ inUse' = inUse
  BY DEF Takes, TakeSlot, ProducerOnly, stats, usb
<1>2. free # << >> /\ prod[p].pc = "admitted" /\ prod[p].slot = NoSlot
  BY <1>a, <1>b DEF Takes, TakeSlot, At, Holding, Producer, Held
<1>3. /\ s \in Slots /\ s = free[1] /\ 1 \in DOMAIN free /\ Len(free') = Len(free) - 1
      /\ \A i \in DOMAIN free' : i + 1 \in DOMAIN free /\ i + 1 # 1 /\ free'[i] = free[i + 1] /\ i \in Int
      /\ \A i \in DOMAIN free : i # 1 => i - 1 \in DOMAIN free' /\ free[i] = free'[i - 1]
  BY <1>a, <1>1, <1>2, TailFacts
<1> HIDE DEF s
<1>4. /\ prod'[p].slot = s /\ prod'[p].pc = "taken"
      /\ \A q \in Producers : q # p => prod'[q] = prod[q]
  BY <1>a, <1>1 DEF Producer
<1>5. Holding'
  BY <1>b, <1>1, <1>3, <1>4 DEF Holding
<1>6. Apart'
  <2>1. \A i, j \in DOMAIN free' : free'[i] = free'[j] => i = j
    BY <1>3, <1>b DEF Apart
  <2>2. \A q, r \in Producers : prod'[q].slot = prod'[r].slot /\ prod'[q].slot \in Slots => q = r
    BY <1>3, <1>4, <1>b, SMTT(30) DEF Apart
  <2>3. \A i \in DOMAIN free' : free'[i] # s /\ free'[i] # worker.slot
    BY <1>3, <1>b DEF Apart
  <2>4. \A i \in DOMAIN free', j \in DOMAIN pending : free'[i] # pending[j]
    BY <1>3, <1>b DEF Apart
  <2>5. \A i \in DOMAIN free', q \in Producers : free'[i] # prod'[q].slot
    BY <1>3, <1>4, <2>3, <1>b DEF Apart
  <2>6. \A i \in DOMAIN pending, q \in Producers : pending[i] # prod'[q].slot
    BY <1>3, <1>4, <1>b DEF Apart
  <2>7. \A q \in Producers : prod'[q].slot \in Slots => prod'[q].slot # worker.slot
    BY <1>3, <1>4, <1>b, SMTT(30) DEF Apart
  <2> QED BY <1>1, <2>1, <2>2, <2>3, <2>4, <2>5, <2>6, <2>7, <1>b DEF Apart
<1>7. Somewhere'
  <2> SUFFICES ASSUME NEW t \in Slots
               PROVE  \/ \E i \in DOMAIN free' : free'[i] = t
                      \/ \E i \in DOMAIN pending : pending[i] = t
                      \/ \E q \in Producers : prod'[q].slot = t
                      \/ worker.slot = t
    BY <1>1 DEF Somewhere
  <2>1. CASE \E i \in DOMAIN free : free[i] = t
    BY <1>3, <1>4, <2>1
  <2>2. CASE \E q \in Producers : prod[q].slot = t
    <3>1. PICK q \in Producers : prod[q].slot = t
      BY <2>2
    <3>2. q # p
      BY <1>2, <3>1 DEF Slots, NoSlot
    <3> QED BY <1>4, <3>1, <3>2
  <2> QED BY <2>1, <2>2, <1>b DEF Somewhere
<1>8. Counts'
  <2>1. Taken' = Taken \cup {p} /\ p \notin Taken
    BY <1>2, <1>4 DEF Taken
  <2>2. Counted' = Counted
    BY <1>1, <1>2, <1>4, ZenonT(30) DEF Counted
  <2>3. IsFiniteSet(Taken') /\ Cardinality(Taken') = Cardinality(Taken) + 1 /\ Cardinality(Taken) \in Nat
    BY <2>1, FS_AddElement, FS_CardinalityType, <1>b DEF Counts
  <2>4. Len(free) \in Nat /\ Len(free') = Len(free) - 1 /\ inUse' = inUse
    BY <1>a, <1>1, <1>3
  <2>5. inUse' = Cardinality(Counted')
    BY <1>1, <2>2, <1>b DEF Counts
  <2>6. CountedOff' = CountedOff /\ CountedOff \in {0, 1}
    BY <1>1 DEF CountedOff
  <2>7. inUse' = NSlots - Len(free') - Cardinality(Taken') - CountedOff'
    BY <2>3, <2>4, <2>6, <1>b DEF Counts
  <2> QED BY <2>3, <2>5, <2>7 DEF Counts
<1> QED BY <1>5, <1>6, <1>7, <1>8

\* A producer fills its slot: it is counted in.
LEMMA FillInv ==
  ASSUME SlotInv, NEW p \in Producers, Fill(p)
  PROVE  Holding' /\ Apart' /\ Somewhere' /\ Counts'
<1>a. prod \in [Producers -> Producer] /\ free \in Seq(Slots)
  BY DEF SlotInv, Types
<1>b. Holding /\ Apart /\ Somewhere /\ Counts
  BY DEF SlotInv
<1>1. /\ prod' = [prod EXCEPT ![p].pc = "filled"] /\ prod[p].pc = "taken"
      /\ free' = free /\ pending' = pending /\ worker' = worker /\ inUse' = inUse + 1
  BY DEF Fill, At, Then, ProducerOnly
<1>2. prod'[p].slot = prod[p].slot /\ prod'[p].pc = "filled" /\ \A q \in Producers : q # p => prod'[q] = prod[q]
  BY <1>a, <1>1 DEF Producer
<1>3. SameSlots
  BY <1>1, <1>2 DEF SameSlots
<1>4. Holding'
  BY <1>1, <1>2, <1>b DEF Holding
<1>5. Apart' /\ Somewhere'
  BY <1>3, <1>b DEF SameSlots, Apart, Somewhere
<1>6. Counts'
  <2>1. Taken' = Taken \ {p} /\ p \in Taken
    BY <1>1, <1>2 DEF Taken
  <2>2. prod[p].slot \in Slots
    BY <1>1, <1>b DEF Holding
  <2>3. Counted' = Counted \cup {prod[p].slot}
    BY <1>1, <1>2, <2>2 DEF Counted
  <2>4. prod[p].slot \notin Counted
    BY <1>1, <2>2, <1>b DEF Counted, Apart
  <2>5. Cardinality(Counted') = Cardinality(Counted) + 1
    BY <2>2, <2>3, <2>4, CountUp DEF Counted
  <2>6. IsFiniteSet(Taken') /\ Cardinality(Taken') = Cardinality(Taken) - 1 /\ Cardinality(Taken) \in Nat
    BY <2>1, FS_RemoveElement, FS_CardinalityType, <1>b DEF Counts
  <2>7. CountedOff' = CountedOff /\ CountedOff \in {0, 1}
    BY <1>1 DEF CountedOff
  <2>8. Len(free) \in Nat /\ free' = free /\ inUse' = inUse + 1
    BY <1>a, <1>1
  <2> QED BY <2>5, <2>6, <2>7, <2>8, <1>b DEF Counts
<1> QED BY <1>4, <1>5, <1>6

\* A producer hands its slot to s_pending.
LEMMA PublishInv ==
  ASSUME SlotInv, NEW p \in Producers, Publish(p)
  PROVE  Holding' /\ Apart' /\ Somewhere' /\ Counts'
<1> DEFINE s == prod[p].slot
<1>a. prod \in [Producers -> Producer] /\ pending \in Seq(Slots)
  BY DEF SlotInv, Types
<1>b. Holding /\ Apart /\ Somewhere /\ Counts
  BY DEF SlotInv
<1>1. /\ Returns(p) /\ prod[p].pc = "filled" /\ pending' = Append(pending, s)
      /\ free' = free /\ worker' = worker /\ inUse' = inUse
  BY DEF Publish, At, ProducerOnly, stats
<1>2. s \in Slots
  BY <1>1, <1>b DEF Holding
<1>3. /\ prod'[p].slot = NoSlot /\ prod'[p].slot \notin Slots /\ prod'[p].pc = "idle"
      /\ \A q \in Producers : q # p => prod'[q] = prod[q]
  BY <1>a, <1>1 DEF Returns, Producer, Slots, NoSlot
<1> DEFINE k == Len(pending) + 1
<1>4. /\ \A i \in DOMAIN pending : i \in DOMAIN pending' /\ pending'[i] = pending[i]
      /\ k \in DOMAIN pending' /\ pending'[k] = s
      /\ \A i \in DOMAIN pending' : i = k \/ i \in DOMAIN pending
  BY <1>a, <1>1, <1>2, AppendFacts
<1> HIDE DEF k
<1>c. free' = free /\ worker' = worker /\ inUse' = inUse
  BY <1>1
<1>5. Holding'
  BY <1>c, <1>3, <1>b DEF Holding
<1>6. Apart'
  <2>1. \A i \in DOMAIN pending' : pending'[i] = s \/ (i \in DOMAIN pending /\ pending'[i] = pending[i])
    BY <1>4
  <2>2. \A i, j \in DOMAIN pending' : pending'[i] = pending'[j] => i = j
    <3>1. \A i \in DOMAIN pending : pending'[i] # s
      BY <1>4, <1>b DEF Apart
    <3>2. \A i, j \in DOMAIN pending : pending'[i] = pending'[j] => i = j
      BY <1>4, <1>b DEF Apart
    <3> QED BY <1>4, <3>1, <3>2
  <2>3. \A q, r \in Producers : prod'[q].slot = prod'[r].slot /\ prod'[q].slot \in Slots => q = r
    BY <1>3, <1>b DEF Apart
  <2>4. \A i \in DOMAIN free, j \in DOMAIN pending' : free[i] # pending'[j]
    BY <2>1, <1>b DEF Apart
  <2>5. \A i \in DOMAIN free, q \in Producers : free[i] # prod'[q].slot
    <3>1. \A i \in DOMAIN free : free[i] \in Slots
      BY DEF SlotInv, Types
    <3> QED BY <1>3, <3>1, <1>b DEF Apart
  <2>6. \A i \in DOMAIN pending', q \in Producers : pending'[i] # prod'[q].slot
    <3>1. \A i \in DOMAIN pending' : pending'[i] \in Slots
      BY <1>2, <2>1, <1>a
    <3> QED BY <1>2, <1>3, <2>1, <3>1, <1>b DEF Apart
  <2>7. \A i \in DOMAIN pending' : pending'[i] # worker.slot
    BY <1>2, <2>1, <1>b DEF Apart
  <2>8. \A q \in Producers : prod'[q].slot \in Slots => prod'[q].slot # worker.slot
    BY <1>3, <1>b DEF Apart
  <2> QED BY <1>c, <2>2, <2>3, <2>4, <2>5, <2>6, <2>7, <2>8, <1>b DEF Apart
<1>7. Somewhere'
  <2> SUFFICES ASSUME NEW t \in Slots
               PROVE  \/ \E i \in DOMAIN free : free[i] = t
                      \/ \E i \in DOMAIN pending' : pending'[i] = t
                      \/ \E q \in Producers : prod'[q].slot = t
                      \/ worker.slot = t
    BY <1>c DEF Somewhere
  <2>1. CASE \E i \in DOMAIN pending : pending[i] = t
    BY <1>4, <2>1
  <2>2. CASE \E q \in Producers : prod[q].slot = t
    BY <1>3, <1>4, <2>2
  <2> QED BY <2>1, <2>2, <1>b DEF Somewhere
<1>8. Counts'
  <2>1. Taken' = Taken
    BY <1>1, <1>3 DEF Taken
  <2>2. \A t \in Slots : (\E i \in DOMAIN pending' : pending'[i] = t)
                         <=> (\E i \in DOMAIN pending : pending[i] = t) \/ t = s
    BY <1>4
  <2>3. \A t \in Slots : (\E q \in Producers : prod[q].slot = t /\ prod[q].pc = "filled")
                         <=> (\E q \in Producers : prod'[q].slot = t /\ prod'[q].pc = "filled") \/ t = s
    BY <1>1, <1>2, <1>3, <1>b DEF Apart
  <2>4. Counted' = Counted
    BY <1>c, <2>2, <2>3 DEF Counted
  <2>5. CountedOff' = CountedOff
    BY <1>c DEF CountedOff
  <2> QED BY <1>c, <2>1, <2>4, <2>5, <1>b DEF Counts
<1> QED BY <1>5, <1>6, <1>7, <1>8

\* The worker receives the head of s_pending.
LEMMA ReceiveInv ==
  ASSUME SlotInv, Receive
  PROVE  Holding' /\ Apart' /\ Somewhere' /\ Counts'
<1> DEFINE s == Head(pending)
<1>a. pending \in Seq(Slots) /\ worker \in Worker
  BY DEF SlotInv, Types
<1>b. Holding /\ Apart /\ Somewhere /\ Counts
  BY DEF SlotInv
<1>1. /\ worker'.slot = s /\ worker'.pc \in {"done", "sending"} /\ worker'.tries = 0 /\ pending' = Tail(pending)
      /\ free' = free /\ prod' = prod /\ inUse' = inUse /\ worker.pc = "idle" /\ pending # << >>
  BY DEF Receive, On, WorkerOnly, stats
<1>2. worker.slot \notin Slots
  BY <1>1, <1>b DEF Holding
<1>3. /\ s \in Slots /\ s = pending[1] /\ 1 \in DOMAIN pending
      /\ \A i \in DOMAIN pending' : i + 1 \in DOMAIN pending /\ i + 1 # 1 /\ pending'[i] = pending[i + 1] /\ i \in Int
      /\ \A i \in DOMAIN pending : i # 1 => i - 1 \in DOMAIN pending' /\ pending[i] = pending'[i - 1]
  BY <1>a, <1>1, TailFacts
<1>c. free' = free /\ prod' = prod /\ inUse' = inUse /\ worker.pc = "idle" /\ worker'.slot = s
      /\ worker'.pc \in {"done", "sending"} /\ worker'.tries = 0
  BY <1>1
<1> HIDE DEF s
<1>4. Holding'
  BY <1>c, <1>3, <1>b DEF Holding
<1>5. Apart'
  <2>1. \A i, j \in DOMAIN pending' : pending'[i] = pending'[j] => i = j
    BY <1>3, <1>b DEF Apart
  <2>2. \A i \in DOMAIN free, j \in DOMAIN pending' : free[i] # pending'[j]
    BY <1>3, <1>b DEF Apart
  <2>3. \A i \in DOMAIN pending', p \in Producers : pending'[i] # prod[p].slot
    BY <1>3, <1>b DEF Apart
  <2>4. \A i \in DOMAIN free : free[i] # s
    BY <1>3, <1>b DEF Apart
  <2>5. \A i \in DOMAIN pending' : pending'[i] # s
    BY <1>3, <1>b DEF Apart
  <2>6. \A p \in Producers : prod[p].slot # s
    BY <1>3, <1>b DEF Apart
  <2> QED BY <1>c, <2>1, <2>2, <2>3, <2>4, <2>5, <2>6, <1>b DEF Apart
<1>6. \A t \in Slots : (\E i \in DOMAIN pending : pending[i] = t)
                       <=> (\E i \in DOMAIN pending' : pending'[i] = t) \/ t = s
  BY <1>3
<1>7. Somewhere'
  BY <1>2, <1>c, <1>6, <1>b DEF Somewhere
<1>8. Counts'
  <2>1. Taken' = Taken /\ CountedOff' = CountedOff
    BY <1>c DEF Taken, CountedOff
  <2>2. Counted' = Counted
    BY <1>2, <1>c, <1>6 DEF Counted
  <2> QED BY <1>c, <2>1, <2>2, <1>b DEF Counts
<1> QED BY <1>4, <1>5, <1>7, <1>8

\* The worker counts its slot off, and gives it back afterwards.
LEMMA ReleaseInv ==
  ASSUME SlotInv, Release
  PROVE  Holding' /\ Apart' /\ Somewhere' /\ Counts'
<1> DEFINE s == worker.slot
<1>a. worker \in Worker /\ free \in Seq(Slots)
  BY DEF SlotInv, Types
<1>b. Holding /\ Apart /\ Somewhere /\ Counts
  BY DEF SlotInv
<1>c. pending' = pending /\ prod' = prod
  BY DEF Release, WorkerOnly
<1>d. s \in Slots
  BY <1>b DEF Release, On, Holding
<1>1. CASE On("done")
  <2>1. worker'.slot = s /\ worker'.pc = "releasing" /\ free' = free /\ inUse' = inUse - 1
    BY <1>1, <1>a DEF Release, On, Go, Worker
  <2>2. Holding'
    BY <1>c, <1>d, <2>1, <1>b DEF Holding
  <2>3. Apart' /\ Somewhere'
    BY <1>c, <2>1, <1>b DEF Apart, Somewhere
  <2>4. Counted' = Counted \ {s} /\ s \in Counted
    BY <1>1, <1>c, <1>d, <2>1, <1>b DEF Counted, Apart, On
  <2>5. Cardinality(Counted') = Cardinality(Counted) - 1
    BY <2>4, CountDown DEF Counted
  <2>6. Taken' = Taken /\ Cardinality(Taken) \in Nat
    BY <1>c, <1>b, FS_CardinalityType DEF Taken, Counts
  <2>7. CountedOff' = 1 /\ CountedOff = 0
    BY <1>1, <2>1 DEF CountedOff, On
  <2>8. Len(free) \in Nat /\ free' = free /\ inUse' = inUse - 1
    BY <1>a, <2>1
  <2>9. Counts'
    BY <2>5, <2>6, <2>7, <2>8, <1>b DEF Counts
  <2> QED BY <2>2, <2>3, <2>9
<1>2. CASE On("releasing")
  <2>1. worker' = Asleep /\ free' = Append(free, s) /\ inUse' = inUse
    BY <1>2 DEF Release, On
  <2>2. worker'.slot \notin Slots /\ worker'.pc = "idle"
    BY <2>1 DEF Asleep, Slots, NoSlot
  <2> DEFINE k == Len(free) + 1
  <2>3. /\ \A i \in DOMAIN free : i \in DOMAIN free' /\ free'[i] = free[i]
        /\ k \in DOMAIN free' /\ free'[k] = s
        /\ \A i \in DOMAIN free' : i = k \/ i \in DOMAIN free
        /\ Len(free) \in Nat /\ Len(free') = Len(free) + 1
    BY <1>a, <1>d, <2>1, AppendFacts
  <2> HIDE DEF k
  <2>4. Holding'
    BY <1>c, <2>2, <1>b DEF Holding
  <2>5. Apart'
    <3>2. \A i \in DOMAIN free' : free'[i] = s \/ (i \in DOMAIN free /\ free'[i] = free[i])
      BY <2>3
    <3>3. \A i, j \in DOMAIN free' : free'[i] = free'[j] => i = j
      <4>1. \A i \in DOMAIN free : free'[i] # s
        BY <2>3, <1>b DEF Apart
      <4>2. \A i, j \in DOMAIN free : free'[i] = free'[j] => i = j
        BY <2>3, <1>b DEF Apart
      <4> QED BY <2>3, <4>1, <4>2
    <3>4. \A i \in DOMAIN free', j \in DOMAIN pending : free'[i] # pending[j]
      BY <3>2, <1>b DEF Apart
    <3>5. \A i \in DOMAIN free', p \in Producers : free'[i] # prod[p].slot
      BY <1>d, <3>2, <1>b DEF Apart
    <3>6. \A i \in DOMAIN free' : free'[i] # worker'.slot
      <4>1. \A i \in DOMAIN free' : free'[i] \in Slots
        BY <1>a, <1>d, <3>2
      <4> QED BY <4>1, <2>2
    <3>7. \A i \in DOMAIN pending : pending[i] # worker'.slot
      <4>1. \A i \in DOMAIN pending : pending[i] \in Slots
        BY DEF SlotInv, Types
      <4> QED BY <4>1, <2>2
    <3>8. \A p \in Producers : prod[p].slot \in Slots => prod[p].slot # worker'.slot
      BY <2>2
    <3> QED BY <1>c, <3>3, <3>4, <3>5, <3>6, <3>7, <3>8, <1>b DEF Apart
  <2>6. Somewhere'
    BY <1>c, <2>3, <1>b DEF Somewhere
  <2>7. Counted' = Counted
    BY <1>2, <1>c, <2>2 DEF Counted, On
  <2>8. Taken' = Taken /\ Cardinality(Taken) \in Nat
    BY <1>c, <1>b, FS_CardinalityType DEF Taken, Counts
  <2>9. CountedOff' = 0 /\ CountedOff = 1
    BY <1>2, <2>2 DEF CountedOff, On
  <2>10. Len(free) \in Nat /\ Len(free') = Len(free) + 1 /\ inUse' = inUse
    BY <2>1, <2>3
  <2>11. Counts'
    BY <2>7, <2>8, <2>9, <2>10, <1>b DEF Counts
  <2> QED BY <2>4, <2>5, <2>6, <2>11
<1> QED BY <1>1, <1>2 DEF Release

-----------------------------------------------------------------------------
\* At boot every slot is in s_free.
LEMMA SlotInit == Init => SlotInv
<1> SUFFICES ASSUME Init PROVE SlotInv
  OBVIOUS
<1>1. /\ free = [i \in Slots |-> i] /\ pending = << >> /\ data = [s \in Slots |-> NoData]
      /\ inUse = 0 /\ backlog = 0 /\ worker = Asleep
      /\ prod = [p \in Producers |-> [pc |-> "idle", n |-> 0, epoch |-> 0, born |-> 0, slot |-> NoSlot]]
  BY DEF Init
<1>2. NoData \in Data /\ Asleep \in Worker
  BY DEF NoData, Data, Frames, Asleep, Worker, Held
<1>3. free \in Seq(Slots) /\ Len(free) = NSlots /\ DOMAIN free = Slots /\ \A i \in Slots : free[i] = i
  BY <1>1 DEF Slots
<1>4. prod \in [Producers -> Producer]
  BY <1>1 DEF Producer, Held
<1>5. Types
  <2>1. data \in [Slots -> Data] /\ worker \in Worker /\ pending \in Seq(Slots) /\ sent \in Seq(Data)
    BY <1>1, <1>2 DEF Init
  <2>2. /\ inUse \in Int /\ backlog = inUse /\ epoch \in Nat /\ mounts \in 0 .. MaxMounts
        /\ used \in 0 .. Capacity /\ host = "gone" /\ tusb = "idle"
    <3>1. inUse = 0 /\ backlog = 0 /\ epoch = 0 /\ mounts = 0 /\ used = 0 /\ host = "gone" /\ tusb = "idle"
      BY DEF Init
    <3> QED BY <3>1
  <2>3. notified \in BOOLEAN
    BY DEF Init
  <2> QED BY <1>3, <1>4, <2>1, <2>2, <2>3 DEF Types
<1>6. worker.slot = NoSlot /\ worker.pc = "idle" /\ NoSlot \notin Slots
  BY <1>1 DEF Asleep, Slots, NoSlot
<1>7. \A p \in Producers : prod[p].slot = NoSlot /\ prod[p].pc = "idle"
  BY <1>1
<1>8. Holding
  BY <1>6, <1>7 DEF Holding
<1>9. Apart
  BY <1>1, <1>3, <1>6, <1>7 DEF Apart
<1>10. Somewhere
  BY <1>3 DEF Somewhere
<1>11. Taken = {} /\ Counted = {} /\ CountedOff = 0
  BY <1>1, <1>6, <1>7 DEF Taken, Counted, CountedOff
<1>12. Counts
  BY <1>1, <1>3, <1>11, FS_EmptySet DEF Counts
<1> QED BY <1>5, <1>8, <1>9, <1>10, <1>12 DEF SlotInv

\* Every step of a producer, the worker, TinyUSB or the host keeps each slot with one owner.
LEMMA SlotStep == SlotInv /\ [Next]_vars => SlotInv'
<1> SUFFICES ASSUME SlotInv, [Next]_vars PROVE SlotInv'
  OBVIOUS
<1>1. Types'
  BY TypesStep DEF SlotInv
<1>2. CASE Moves
  <2>1. Holding' /\ Apart' /\ Somewhere' /\ Counts'
    BY <1>2, TakeInv, FillInv, PublishInv, ReceiveInv, ReleaseInv DEF Moves
  <2> QED BY <1>1, <2>1 DEF SlotInv
<1>3. CASE ~Moves
  <2>1. SameSlots /\ SameParts /\ Holding'
    BY <1>3, StillStep DEF SlotInv
  <2>2. Apart' /\ Somewhere' /\ Counts'
    BY <2>1, StillInv DEF SlotInv
  <2> QED BY <1>1, <2>1, <2>2 DEF SlotInv
<1> QED BY <1>2, <1>3

\* A slot that is in exactly one place has exactly one owner.
LEMMA OneOwner ==
  ASSUME SlotInv, NEW s \in Slots
  PROVE  Cardinality(Owners(s)) = 1
<1>b. Apart /\ Somewhere
  BY DEF SlotInv
<1>1. CASE \E i \in DOMAIN free : free[i] = s
  <2>1. PICK i \in DOMAIN free : free[i] = s
    BY <1>1
  <2>2. {j \in DOMAIN free : free[j] = s} = {i} /\ {j \in DOMAIN pending : pending[j] = s} = {}
    BY <2>1, <1>b DEF Apart
  <2>3. {q \in Producers : prod[q].slot = s} = {} /\ worker.slot # s
    BY <2>1, <1>b DEF Apart
  <2>4. Owners(s) = {<<"free", i>>}
    BY <2>2, <2>3 DEF Owners
  <2> QED BY <2>4, FS_Singleton
<1>2. CASE \E i \in DOMAIN pending : pending[i] = s
  <2>1. PICK i \in DOMAIN pending : pending[i] = s
    BY <1>2
  <2>2. {j \in DOMAIN free : free[j] = s} = {} /\ {j \in DOMAIN pending : pending[j] = s} = {i}
    BY <2>1, <1>b DEF Apart
  <2>3. {q \in Producers : prod[q].slot = s} = {} /\ worker.slot # s
    BY <2>1, <1>b DEF Apart
  <2>4. Owners(s) = {<<"pending", i>>}
    BY <2>2, <2>3 DEF Owners
  <2> QED BY <2>4, FS_Singleton
<1>3. CASE \E p \in Producers : prod[p].slot = s
  <2>1. PICK p \in Producers : prod[p].slot = s
    BY <1>3
  <2>2. {j \in DOMAIN free : free[j] = s} = {} /\ {j \in DOMAIN pending : pending[j] = s} = {}
    BY <2>1, <1>b DEF Apart
  <2>3. {q \in Producers : prod[q].slot = s} = {p} /\ worker.slot # s
    BY <2>1, <1>b DEF Apart
  <2>4. Owners(s) = {<<"producer", p>>}
    BY <2>2, <2>3 DEF Owners
  <2> QED BY <2>4, FS_Singleton
<1>4. CASE worker.slot = s
  <2>1. {j \in DOMAIN free : free[j] = s} = {} /\ {j \in DOMAIN pending : pending[j] = s} = {}
    BY <1>4, <1>b DEF Apart
  <2>2. {q \in Producers : prod[q].slot = s} = {}
    BY <1>4, <1>b DEF Apart
  <2>3. Owners(s) = {<<"worker", 0>>}
    BY <1>4, <2>1, <2>2 DEF Owners
  <2> QED BY <2>3, FS_Singleton
<1> QED BY <1>1, <1>2, <1>3, <1>4, <1>b DEF Somewhere

\* One owner per slot is more than the run checks.
LEMMA SlotInvImplies == SlotInv => QueueInv
<1> SUFFICES ASSUME SlotInv PROVE QueueInv
  OBVIOUS
<1>1. IsFiniteSet(Slots) /\ Cardinality(Slots) = NSlots /\ Counted \in SUBSET Slots
  BY FS_Interval DEF Slots, Counted
<1>2. Cardinality(Counted) \in 0 .. NSlots
  BY <1>1, FS_Subset, FS_CardinalityType
<1>3. inUse \in 0 .. NSlots /\ backlog \in 0 .. NSlots
  BY <1>2 DEF SlotInv, Types, Counts
<1>4. TypeOK
  BY <1>3 DEF TypeOK, SlotInv, Types, Producer, Worker
<1>5. SlotsOwned
  BY OneOwner DEF SlotsOwned, SlotInv, Counts, Taken, CountedOff
<1> QED BY <1>4, <1>5 DEF QueueInv

\* At every moment a slot of the pool has exactly one owner, in_use counts the filled slots,
\* and the state is well formed, so release_slot's assertion holds and
\* meshvpn_usb_tx_queue_submit always finds room in s_pending.
THEOREM SlotsAreOwned == Spec => []QueueInv
<1>1. Init => SlotInv
  BY SlotInit
<1>2. SlotInv /\ [Next]_vars => SlotInv'
  BY SlotStep
<1>3. SlotInv => QueueInv
  BY SlotInvImplies
<1> QED BY <1>1, <1>2, <1>3, PTL DEF Spec

-----------------------------------------------------------------------------
\* Only a full driver makes the worker busy, and what frees an NTB, or brings a host, notifies.
LEMMA ExpectantStep == Types /\ Expectant /\ [Next]_vars => Expectant'
<1> SUFFICES ASSUME Types, Expectant, [Next]_vars PROVE Expectant'
  OBVIOUS
<1>a. worker \in Worker /\ used \in 0 .. Capacity
  BY DEF Types
<1> USE DEF Expectant, On, Go, usb
<1>1. CASE \E p \in Producers : Submit(p) \/ LookAtHost(p) \/ TakeSlot(p) \/ Fill(p) \/ Publish(p)
  BY <1>1 DEF Submit, LookAtHost, TakeSlot, Fill, Publish, ProducerOnly
<1>2. CASE Receive \/ Release
  BY <1>2, <1>a DEF Receive, Release, WorkerOnly, Asleep, Worker
<1>3. CASE Attempt
  BY <1>3, <1>a DEF Attempt, WorkerOnly, Worker
<1>4. CASE CallTimeout \/ Busy \/ CapacityTimeout
  BY <1>4, <1>a DEF CallTimeout, Busy, CapacityTimeout, WorkerOnly, Worker
<1>5. CASE Wake
  BY <1>5, <1>a DEF Wake, WorkerOnly, Worker
<1>6. CASE DriverSends
  <2>1. CASE used < Capacity
    BY <1>6, <2>1, <1>a DEF DriverSends, Worker
  <2>2. CASE ~(used < Capacity)
    BY <1>6, <2>2, <1>a DEF DriverSends
  <2> QED BY <2>1, <2>2
<1>7. CASE TransferComplete \/ MountCallback \/ Mount \/ Disconnect
  BY <1>7 DEF TransferComplete, MountCallback, Mount, Disconnect
<1>8. CASE Notify
  BY <1>8 DEF Notify
<1>9. CASE SuspendResume
  BY <1>9 DEF SuspendResume
<1>10. CASE UNCHANGED vars
  BY <1>10 DEF vars
<1> QED
  BY <1>1, <1>2, <1>3, <1>4, <1>5, <1>6, <1>7, <1>8, <1>9, <1>10 DEF Next, SubmitStep, WorkerStep, HostStep

\* The worker never sleeps through capacity: what meshvpn_usb_tx_prepare_wait is for.
THEOREM WakeupsAreNotLost == Spec => []NoLostWakeup
<1>1. Init => SlotInv /\ Expectant
  BY SlotInit DEF Init, Expectant, Asleep
<1>2. SlotInv /\ Expectant /\ [Next]_vars => SlotInv' /\ Expectant'
  BY SlotStep, ExpectantStep DEF SlotInv
<1>3. Expectant => NoLostWakeup
  BY DEF Expectant, NoLostWakeup
<1> QED BY <1>1, <1>2, <1>3, PTL DEF Spec

-----------------------------------------------------------------------------
\* A step that at most lets go of the worker's frame keeps the line.
LEMMA Narrower ==
  ASSUME Holding, InLine, sent' = sent, prod' = prod, pending' = pending,
         Handing' => Handing /\ worker'.slot = worker.slot,
         \A s \in Published' : data'[s] = data[s],
         \A p \in Producers : prod[p].pc = "filled" => data'[prod[p].slot] = data[prod[p].slot]
  PROVE  InLine' /\ Published' \subseteq Published
<1>1. Published' \subseteq Published
  BY DEF Published
<1>2. \A j \in DOMAIN pending : pending[j] \in Published'
  BY DEF Published
<1>3. SentInLine' /\ QueueAfterSent' /\ AllPast'
  BY <1>1 DEF InLine, SentInLine, QueueAfterSent, AllPast
<1>4. QueueInLine'
  BY <1>2 DEF InLine, QueueInLine
<1>5. WorkerFirst'
  <2> SUFFICES ASSUME Handing', NEW j \in DOMAIN pending
               PROVE  Ahead(data'[worker'.slot], data'[pending[j]])
    BY DEF WorkerFirst
  <2>1. worker.slot \in Published' /\ worker'.slot = worker.slot
    BY DEF Published, Holding, Handing
  <2> QED BY <1>2, <2>1 DEF InLine, WorkerFirst
<1>6. FilledRight'
  BY DEF InLine, FilledRight
<1> QED BY <1>1, <1>3, <1>4, <1>5, <1>6 DEF InLine

\* A frame stays in its task's past.
LEMMA PastKept ==
  ASSUME NEW pr \in [Producers -> Producer], NEW pr2, NEW p \in Producers, NEW f, Past(pr, f),
         \A q \in Producers : q # p => pr2[q] = pr[q],
         \/ pr2[p].n = pr[p].n /\ (pr[p].pc = "idle" => pr2[p].pc = "idle")
         \/ pr2[p].n = pr[p].n + 1
  PROVE  Past(pr2, f)
<1>1. f.frame[1] \in Producers /\ f.frame[2] \in Nat
  BY DEF Past
<1>2. pr[p].n \in Nat
  BY DEF Producer
<1>3. CASE f.frame[1] = p
  BY <1>1, <1>2, <1>3 DEF Past
<1>4. CASE f.frame[1] # p
  BY <1>1, <1>4 DEF Past
<1> QED BY <1>3, <1>4

\* Submit, LookAtHost and TakeSlot: a task that comes or goes without a frame.
LEMMA ProducerLine ==
  ASSUME SlotInv, LineInv, NEW p \in Producers, Submit(p) \/ LookAtHost(p) \/ TakeSlot(p)
  PROVE  LineInv'
<1>a. prod \in [Producers -> Producer] /\ InLine /\ Fresh /\ epoch \in Nat
  BY DEF SlotInv, Types, LineInv
<1>b. pending' = pending /\ data' = data /\ worker' = worker /\ sent' = sent /\ UNCHANGED usb
  BY DEF Submit, LookAtHost, TakeSlot, ProducerOnly, queues
<1>1. Published' = Published
  BY <1>b DEF Published, Handing
<1>2. /\ \A q \in Producers : q # p => prod'[q] = prod[q]
      /\ prod'[p].pc # "filled"
      /\ \/ prod'[p].n = prod[p].n /\ (prod[p].pc = "idle" => prod'[p].pc = "idle")
         \/ prod'[p].n = prod[p].n + 1
      /\ \/ prod'[p].pc = "idle"
         \/ prod'[p].epoch = epoch /\ prod'[p].born = mounts
         \/ prod[p].pc # "idle" /\ prod'[p].epoch = prod[p].epoch /\ prod'[p].born = prod[p].born
  <2>1. CASE Submit(p)
    BY <2>1, <1>a DEF Submit, At, Producer
  <2>0. CASE LookAtHost(p) /\ host = "ready"
    <3>1. Then(p, "admitted") /\ prod[p].pc = "submitting"
      BY <2>0 DEF LookAtHost, At
    <3> QED BY <3>1, <1>a DEF Then, Producer
  <2>2. CASE (LookAtHost(p) /\ host # "ready") \/ (TakeSlot(p) /\ free = << >>)
    <3>1. Returns(p) /\ prod[p].pc # "idle"
      BY <2>2 DEF LookAtHost, TakeSlot, At
    <3> QED BY <3>1, <1>a DEF Returns, Producer
  <2>3. CASE TakeSlot(p) /\ free # << >>
    <3>1. prod' = [prod EXCEPT ![p].pc = "taken", ![p].slot = Head(free)] /\ prod[p].pc = "admitted"
      BY <2>3 DEF TakeSlot, At
    <3> QED BY <3>1, <1>a DEF Producer
  <2> QED BY <2>0, <2>1, <2>2, <2>3
<1>3. \A f : Past(prod, f) => Past(prod', f)
  BY <1>a, <1>2, PastKept
<1>4. InLine'
  <2>1. SentInLine' /\ QueueInLine' /\ QueueAfterSent' /\ WorkerFirst'
    BY <1>a, <1>b, <1>1 DEF InLine, SentInLine, QueueInLine, QueueAfterSent, WorkerFirst, Handing
  <2>2. AllPast'
    BY <1>a, <1>b, <1>1, <1>3 DEF InLine, AllPast
  <2>3. FilledRight'
    BY <1>a, <1>b, <1>2 DEF InLine, FilledRight, Made
  <2> QED BY <2>1, <2>2 , <2>3 DEF InLine
<1>5. Fresh'
  <2>1. AllDated'
    <3>1. \A q \in Producers : prod'[q].pc # "idle" => Dated(prod'[q].epoch, prod'[q].born)
      BY <1>a, <1>2 DEF Fresh, AllDated, Dated
    <3>2. \A s \in Published : Dated(data[s].epoch, data[s].born)
      BY <1>a DEF Fresh, AllDated
    <3> QED BY <1>b, <1>1, <3>1, <3>2 DEF AllDated, Dated, usb
  <2>2. NoneYet' /\ LastOldCall' /\ OneOld'
    BY <1>a, <1>b DEF Fresh, NoneYet, LastOldCall, OneOld, usb
  <2> QED BY <2>1, <2>2 DEF Fresh
<1> QED BY <1>4, <1>5 DEF LineInv

\* Fill writes to a slot that nobody else looks at.
LEMMA FillLine ==
  ASSUME SlotInv, LineInv, NEW p \in Producers, Fill(p)
  PROVE  LineInv'
<1> DEFINE s == prod[p].slot
<1>a. prod \in [Producers -> Producer] /\ data \in [Slots -> Data] /\ InLine /\ Fresh /\ Holding /\ Apart
  BY DEF SlotInv, Types, LineInv
<1>b. /\ pending' = pending /\ worker' = worker /\ sent' = sent /\ UNCHANGED usb
      /\ prod' = [prod EXCEPT ![p].pc = "filled"] /\ prod[p].pc = "taken"
      /\ data' = [data EXCEPT ![s] = Made(prod, p)]
  BY DEF Fill, ProducerOnly, At, Then, Made
<1>1. s \in Slots /\ s \notin Published
  BY <1>a, <1>b DEF Holding, Apart, Published
<1>2. /\ \A q \in Producers : q # p => prod'[q] = prod[q]
      /\ prod'[p].pc = "filled" /\ prod'[p].n = prod[p].n /\ prod'[p].epoch = prod[p].epoch
      /\ prod'[p].born = prod[p].born /\ prod'[p].slot = s /\ prod[p].pc # "idle"
  BY <1>a, <1>b DEF Producer
<1>3. data'[s] = Made(prod, p) /\ \A t \in Slots : t # s => data'[t] = data[t]
  BY <1>a, <1>b, <1>1
<1>4. Published' = Published /\ Published \subseteq Slots
  <2>1. Published' = Published
    BY <1>b DEF Published, Handing
  <2>2. pending \in Seq(Slots)
    BY DEF SlotInv, Types
  <2> QED BY <2>1, <2>2 DEF Published
<1>5. \A t \in Published : data'[t] = data[t]
  BY <1>1, <1>3, <1>4
<1>6. \A f : Past(prod, f) => Past(prod', f)
  BY <1>a, <1>2, PastKept
<1>7. /\ \A j \in DOMAIN pending : pending[j] \in Published
      /\ Handing => worker.slot \in Published
  BY <1>a DEF Published, Handing, Holding
<1>8. InLine'
  <2>1. SentInLine' /\ QueueAfterSent'
    BY <1>a, <1>b, <1>4, <1>5 DEF InLine, SentInLine, QueueAfterSent
  <2>2. QueueInLine'
    BY <1>a, <1>b, <1>5, <1>7 DEF InLine, QueueInLine
  <2>3. WorkerFirst'
    BY <1>a, <1>b, <1>5, <1>7 DEF InLine, WorkerFirst, Handing
  <2>4. AllPast'
    BY <1>a, <1>b, <1>4, <1>5, <1>6 DEF InLine, AllPast
  <2>5. FilledRight'
    <3> SUFFICES ASSUME NEW q \in Producers, prod'[q].pc = "filled"
                 PROVE  data'[prod'[q].slot] = Made(prod', q)
      BY DEF FilledRight
    <3>1. CASE q = p
      BY <1>2, <1>3, <3>1 DEF Made
    <3>2. CASE q # p
      <4>1. prod[q].slot \in Slots /\ prod[q].slot # s
        BY <1>a, <1>1, <1>2, <3>2 DEF Holding, Apart
      <4> QED BY <1>a, <1>2, <1>3, <3>2, <4>1 DEF InLine, FilledRight, Made
    <3> QED BY <3>1, <3>2
  <2> QED BY <2>1, <2>2, <2>3, <2>4, <2>5 DEF InLine
<1>9. Fresh'
  <2>1. AllDated'
    <3>1. \A q \in Producers : prod'[q].pc # "idle" => Dated(prod'[q].epoch, prod'[q].born)
      BY <1>a, <1>b, <1>2 DEF Fresh, AllDated
    <3>2. \A t \in Published' : Dated(data'[t].epoch, data'[t].born)
      BY <1>a, <1>4, <1>5 DEF Fresh, AllDated
    <3> QED BY <1>b, <3>1, <3>2 DEF AllDated, Dated, usb
  <2>2. NoneYet' /\ OneOld'
    BY <1>a, <1>b DEF Fresh, NoneYet, OneOld, usb
  <2>3. LastOldCall'
    BY <1>a, <1>b, <1>5, <1>7 DEF Fresh, LastOldCall, usb, Handing
  <2> QED BY <2>1, <2>2, <2>3 DEF Fresh
<1> QED BY <1>8, <1>9 DEF LineInv

\* Publish puts a frame at the end of the line.
LEMMA PublishLine ==
  ASSUME SlotInv, LineInv, NEW p \in Producers, Publish(p)
  PROVE  LineInv'
<1> DEFINE s == prod[p].slot
<1>a. prod \in [Producers -> Producer] /\ InLine /\ Fresh /\ Holding /\ Apart /\ pending \in Seq(Slots)
  BY DEF SlotInv, Types, LineInv
<1>b. /\ data' = data /\ worker' = worker /\ sent' = sent /\ UNCHANGED usb
      /\ Returns(p) /\ prod[p].pc = "filled" /\ pending' = Append(pending, s)
  BY DEF Publish, ProducerOnly, At
<1>c. data' = data /\ worker' = worker /\ sent' = sent /\ UNCHANGED usb
  BY <1>b
<1>1. s \in Slots /\ data[s] = Made(prod, p)
  BY <1>a, <1>b DEF Holding, InLine, FilledRight
<1>2. /\ \A q \in Producers : q # p => prod'[q] = prod[q]
      /\ prod'[p].pc = "idle" /\ prod'[p].n = prod[p].n /\ prod[p].n \in Nat
  BY <1>a, <1>b DEF Returns, Producer
<1> DEFINE k == Len(pending) + 1
<1>3. /\ k \in DOMAIN pending' /\ pending'[k] = s
      /\ \A i \in DOMAIN pending : i \in DOMAIN pending' /\ i < k /\ i \in Int /\ pending'[i] = pending[i]
      /\ \A i \in DOMAIN pending' : i = k \/ i \in DOMAIN pending
      /\ k \in Int
  BY <1>a, <1>b, <1>1, AppendFacts
<1> HIDE DEF k
<1>4. Published' = Published \cup {s}
  BY <1>1, <1>3, <1>c DEF Published, Handing
<1>5. \A f : Past(prod, f) => Past(prod', f) /\ Ahead(f, data[s])
  <2> SUFFICES ASSUME NEW f, Past(prod, f) PROVE Past(prod', f) /\ Ahead(f, data[s])
    OBVIOUS
  <2>1. Past(prod', f)
    BY <1>a, <1>2, PastKept, SMTT(30)
  <2>2. data[s].frame[1] = p /\ data[s].frame[2] = prod[p].n
    BY <1>1 DEF Made
  <2> QED BY <1>b, <2>1, <2>2 DEF Ahead, Past
<1>6. Past(prod', data[s])
  BY <1>1, <1>2 DEF Made, Past
<1>7. /\ \A j \in DOMAIN pending : pending[j] \in Published
      /\ Handing => worker.slot \in Published
  BY <1>a DEF Published, Handing, Holding
<1>8. /\ \A i \in DOMAIN sent : Past(prod, sent[i])
      /\ \A t \in Published : Past(prod, data[t])
  BY <1>a DEF InLine, AllPast
<1>9. InLine'
  <2>1. SentInLine' /\ QueueAfterSent'
    BY <1>a, <1>c, <1>4, <1>5, <1>8 DEF InLine, SentInLine, QueueAfterSent
  <2>2. QueueInLine'
    <3> SUFFICES ASSUME NEW i \in DOMAIN pending', NEW j \in DOMAIN pending', i < j
                 PROVE  Ahead(data[pending'[i]], data[pending'[j]])
      BY <1>c DEF QueueInLine
    <3>1. i \in DOMAIN pending
      BY <1>3
    <3>2. CASE j = k
      BY <1>3, <1>5, <1>7, <1>8, <3>1, <3>2
    <3>3. CASE j \in DOMAIN pending
      BY <1>a, <1>3, <3>1, <3>3 DEF InLine, QueueInLine
    <3> QED BY <1>3, <3>2, <3>3
  <2>3. WorkerFirst'
    <3> SUFFICES ASSUME Handing, NEW j \in DOMAIN pending'
                 PROVE  Ahead(data[worker.slot], data[pending'[j]])
      BY <1>c DEF WorkerFirst, Handing
    <3>1. CASE j = k
      BY <1>3, <1>5, <1>7, <1>8, <3>1
    <3>2. CASE j \in DOMAIN pending
      BY <1>a, <1>3, <3>2 DEF InLine, WorkerFirst
    <3> QED BY <1>3, <3>1, <3>2
  <2>4. AllPast'
    BY <1>c, <1>4, <1>5, <1>6, <1>8 DEF AllPast
  <2>5. FilledRight'
    BY <1>a, <1>c, <1>2 DEF InLine, FilledRight, Made
  <2> QED BY <2>1, <2>2, <2>3, <2>4, <2>5 DEF InLine
<1>10. Fresh'
  <2>1. AllDated'
    <3>1. \A q \in Producers : prod'[q].pc # "idle" => Dated(prod'[q].epoch, prod'[q].born)
      BY <1>a, <1>2 DEF Fresh, AllDated
    <3>2. \A t \in Published : Dated(data[t].epoch, data[t].born)
      BY <1>a DEF Fresh, AllDated
    <3>3. Dated(data[s].epoch, data[s].born)
      BY <1>a, <1>b, <1>1 DEF Fresh, AllDated, Made
    <3> QED BY <1>c, <1>4, <3>1, <3>2, <3>3 DEF AllDated, Dated, usb
  <2>2. NoneYet' /\ LastOldCall' /\ OneOld'
    BY <1>a, <1>c DEF Fresh, NoneYet, LastOldCall, OneOld, usb
  <2> QED BY <2>1, <2>2 DEF Fresh
<1> QED BY <1>9, <1>10 DEF LineInv

\* Receive moves the head of the line to the worker, or out of it.
LEMMA ReceiveLine ==
  ASSUME SlotInv, LineInv, Receive
  PROVE  LineInv'
<1> DEFINE s == Head(pending)
<1>a. pending \in Seq(Slots) /\ InLine /\ Fresh /\ Holding
  BY DEF SlotInv, Types, LineInv
<1>b. /\ pending' = Tail(pending) /\ pending # << >>
      /\ worker'.slot = s /\ worker'.pc \in {"done", "sending"} /\ worker.pc = "idle"
      /\ sent' = sent /\ data' = data /\ prod' = prod /\ UNCHANGED usb
  BY DEF Receive, On, WorkerOnly
<1>c. /\ worker'.slot = s /\ worker'.pc \in {"done", "sending"}
      /\ sent' = sent /\ data' = data /\ prod' = prod /\ UNCHANGED usb
  BY <1>b
<1>1. /\ s = pending[1] /\ 1 \in DOMAIN pending /\ s \in Slots
      /\ \A i \in DOMAIN pending' : i + 1 \in DOMAIN pending /\ 1 < i + 1 /\ pending'[i] = pending[i + 1] /\ i \in Int
  BY <1>a, <1>b, TailFacts
<1> HIDE DEF s
<1>2. Published' \subseteq Published
  <2>1. \A i \in DOMAIN pending' : pending'[i] \in Published
    BY <1>1 DEF Published
  <2>2. s \in Published
    BY <1>1 DEF Published
  <2> QED BY <1>c, <2>1, <2>2 DEF Published
<1>3. SentInLine' /\ QueueAfterSent' /\ AllPast' /\ FilledRight'
  BY <1>a, <1>c, <1>2 DEF InLine, SentInLine, QueueAfterSent, AllPast, FilledRight
<1>4. QueueInLine'
  <2> SUFFICES ASSUME NEW i \in DOMAIN pending', NEW j \in DOMAIN pending', i < j
               PROVE  Ahead(data[pending'[i]], data[pending'[j]])
    BY <1>c DEF QueueInLine
  <2>1. i + 1 < j + 1
    BY <1>1
  <2> QED BY <1>a, <1>1, <2>1 DEF InLine, QueueInLine
<1>5. WorkerFirst'
  BY <1>a, <1>c, <1>1 DEF InLine, QueueInLine, WorkerFirst
<1>6. AllDated'
  BY <1>a, <1>c, <1>2 DEF Fresh, AllDated, Dated, usb
<1>7. NoneYet' /\ LastOldCall' /\ OneOld'
  BY <1>a, <1>c DEF Fresh, NoneYet, LastOldCall, OneOld, usb
<1> QED BY <1>3, <1>4, <1>5, <1>6, <1>7 DEF LineInv, InLine, Fresh

\* The worker's other steps keep its frame or drop it.
LEMMA WorkerLine ==
  ASSUME SlotInv, LineInv, Attempt \/ CallTimeout \/ Busy \/ Wake \/ CapacityTimeout \/ Release
  PROVE  LineInv'
<1>a. worker \in Worker /\ data \in [Slots -> Data] /\ InLine /\ Fresh /\ Holding /\ Apart
  BY DEF SlotInv, Types, LineInv
<1>b. sent' = sent /\ prod' = prod /\ pending' = pending /\ UNCHANGED usb
  BY DEF Attempt, CallTimeout, Busy, Wake, CapacityTimeout, Release, queues, WorkerOnly
<1>1. /\ Handing' => Handing /\ worker'.slot = worker.slot
      /\ worker'.pc = "calling" => Attempt /\ ~Stale(worker.slot)
  <2>1. CASE Attempt
    BY <2>1, <1>a DEF Attempt, On, Handing, Worker
  <2>2. CASE CallTimeout \/ CapacityTimeout
    BY <2>2, <1>a DEF CallTimeout, CapacityTimeout, On, Go, Handing, Worker
  <2>3. CASE Busy
    BY <2>3, <1>a DEF Busy, On, Go, Handing, Worker
  <2>4. CASE Wake
    BY <2>4, <1>a DEF Wake, On, Go, Handing, Worker
  <2>5. CASE Release
    BY <2>5, <1>a DEF Release, On, Go, Handing, Worker, Asleep
  <2> QED BY <2>1, <2>2, <2>3, <2>4, <2>5
<1>2. data' = data \/ (~Handing /\ data' = [data EXCEPT ![worker.slot] = NoData])
  BY DEF Attempt, CallTimeout, Busy, Wake, CapacityTimeout, Release, queues, On, Handing
<1>3. \A t \in Published' : data'[t] = data[t]
  <2>1. CASE data' = data
    BY <2>1
  <2>2. CASE ~Handing /\ data' = [data EXCEPT ![worker.slot] = NoData]
    <3>1. \A t \in Published' : \E j \in DOMAIN pending : t = pending[j]
      BY <1>b, <1>1, <2>2 DEF Published
    <3>2. pending \in Seq(Slots)
      BY DEF SlotInv, Types
    <3>3. \A j \in DOMAIN pending : pending[j] \in Slots /\ pending[j] # worker.slot
      BY <3>2, <1>a DEF Apart
    <3> QED BY <1>a, <2>2, <3>1, <3>3
  <2> QED BY <1>2, <2>1, <2>2
<1>4. \A p \in Producers : prod[p].pc = "filled" => data'[prod[p].slot] = data[prod[p].slot]
  BY <1>a, <1>2 DEF Holding, Apart
<1>5. InLine' /\ Published' \subseteq Published
  BY <1>a, <1>b, <1>1, <1>3, <1>4, Narrower
<1>6. AllDated'
  BY <1>a, <1>b, <1>3, <1>5 DEF Fresh, AllDated, Dated, usb
<1>7. NoneYet' /\ OneOld'
  BY <1>a, <1>b DEF Fresh, NoneYet, OneOld, usb
<1>8. LastOldCall'
  <2> SUFFICES ASSUME worker'.pc = "calling", data'[worker'.slot].born # mounts
               PROVE  \A i \in DOMAIN sent : sent[i].born = mounts
    BY <1>b DEF LastOldCall, usb
  <2>1. Attempt /\ ~Stale(worker.slot)
    BY <1>1
  <2>2. worker'.slot = worker.slot /\ data' = data /\ worker.pc = "sending"
    BY <1>a, <2>1 DEF Attempt, On, Worker, queues
  <2>3. worker.slot \in Published
    BY <1>a, <2>2 DEF Published, Handing, Holding
  <2>4. Dated(data[worker.slot].epoch, data[worker.slot].born)
    BY <1>a, <2>3 DEF Fresh, AllDated
  <2>5. tusb = "mounting" /\ host = "ready"
    BY <2>1, <2>2, <2>4 DEF Dated, Stale
  <2> QED BY <1>a, <2>5 DEF Fresh, NoneYet
<1> QED BY <1>5, <1>6, <1>7, <1>8 DEF LineInv, Fresh

\* The driver takes the worker's frame: it joins those sent.
LEMMA SendLine ==
  ASSUME SlotInv, LineInv, DriverSends
  PROVE  LineInv'
<1>a. worker \in Worker /\ data \in [Slots -> Data] /\ sent \in Seq(Data)
  BY DEF SlotInv, Types
<1>b. InLine /\ Fresh /\ Holding
  BY DEF SlotInv, LineInv
<1>c. /\ data' = data /\ prod' = prod /\ pending' = pending /\ worker.pc = "calling" /\ tusb = "idle"
      /\ epoch' = epoch /\ host' = host /\ mounts' = mounts /\ tusb' = tusb
  BY DEF DriverSends, TaskOnly, queues, On
<1> DEFINE f == data[worker.slot]
<1>1. worker.slot \in Slots /\ worker.slot \in Published /\ f \in Data /\ Handing
  BY <1>a, <1>b, <1>c DEF Published, Holding, Handing
<1>2. Handing' => worker'.slot = worker.slot
  BY <1>a DEF DriverSends, Go, Worker, Handing
<1>3. Published' \subseteq Published
  BY <1>c, <1>1, <1>2 DEF Published
<1>4. QueueInLine' /\ FilledRight' /\ AllDated'
  BY <1>b, <1>c, <1>3 DEF InLine, Fresh, QueueInLine, FilledRight, AllDated, Dated
<1>5. worker'.pc # "calling"
  BY <1>a DEF DriverSends, Go, Worker
<1>6. NoneYet' /\ LastOldCall'
  BY <1>c, <1>5 DEF NoneYet, LastOldCall
<1>7. WorkerFirst'
  BY <1>b, <1>c, <1>1, <1>2 DEF InLine, WorkerFirst
<1>8. CASE used < Capacity
  <2>1. sent' = Append(sent, f) /\ worker'.pc = "done"
    BY <1>a, <1>8 DEF DriverSends, Go, Worker
  <2> DEFINE k == Len(sent) + 1
  <2> HIDE DEF f
  <2>2. /\ k \in DOMAIN sent' /\ sent'[k] = f /\ k \in Int
        /\ \A i \in DOMAIN sent : i \in DOMAIN sent' /\ i < k /\ i \in Int /\ sent'[i] = sent[i]
        /\ \A i \in DOMAIN sent' : i = k \/ i \in DOMAIN sent
    BY <1>a, <1>1, <2>1, AppendFacts
  <2> HIDE DEF k
  <2>3. ~Handing'
    BY <2>1 DEF Handing
  <2>4. /\ \A i \in DOMAIN sent : Ahead(sent[i], f)
        /\ Past(prod, f)
        /\ \A j \in DOMAIN pending : Ahead(f, data[pending[j]])
    BY <1>b, <1>1 DEF InLine, QueueAfterSent, AllPast, WorkerFirst, f
  <2>5. SentInLine'
    <3> SUFFICES ASSUME NEW i \in DOMAIN sent', NEW j \in DOMAIN sent', i < j
                 PROVE  Ahead(sent'[i], sent'[j])
      BY DEF SentInLine
    <3>1. i \in DOMAIN sent
      BY <2>2
    <3>2. CASE j = k
      BY <2>2, <2>4, <3>1, <3>2
    <3>3. CASE j \in DOMAIN sent
      BY <1>b, <2>2, <3>1, <3>3 DEF InLine, SentInLine
    <3> QED BY <2>2, <3>2, <3>3
  <2>6. QueueAfterSent'
    <3> SUFFICES ASSUME NEW i \in DOMAIN sent', NEW t \in Published'
                 PROVE  Ahead(sent'[i], data[t])
      BY <1>c DEF QueueAfterSent
    <3>1. PICK j \in DOMAIN pending : t = pending[j]
      BY <1>c, <2>3 DEF Published
    <3>2. CASE i = k
      BY <2>2, <2>4, <3>1, <3>2
    <3>3. CASE i \in DOMAIN sent
      BY <1>b, <1>3, <2>2, <3>3 DEF InLine, QueueAfterSent
    <3> QED BY <2>2, <3>2, <3>3
  <2>7. AllPast'
    <3>1. \A i \in DOMAIN sent' : Past(prod, sent'[i])
      BY <1>b, <2>2, <2>4 DEF InLine, AllPast
    <3>2. \A t \in Published' : Past(prod, data[t])
      BY <1>b, <1>3 DEF InLine, AllPast
    <3> QED BY <1>c, <3>1, <3>2 DEF AllPast
  <2>8. OneOld'
    <3>1. f.born # mounts => \A i \in DOMAIN sent : sent[i].born = mounts
      BY <1>b, <1>c DEF Fresh, LastOldCall, f
    <3> SUFFICES ASSUME NEW i \in DOMAIN sent', NEW j \in DOMAIN sent',
                        sent'[i].born # mounts, sent'[j].born # mounts
                 PROVE  i = j
      BY <1>c DEF OneOld
    <3>2. CASE i \in DOMAIN sent /\ j \in DOMAIN sent
      BY <1>b, <2>2, <3>2 DEF Fresh, OneOld
    <3>3. CASE i = k \/ j = k
      BY <2>2, <3>1, <3>3
    <3> QED BY <2>2, <3>2, <3>3
  <2> QED BY <1>4, <1>6, <1>7, <2>5, <2>6, <2>7, <2>8 DEF LineInv, InLine, Fresh
<1>9. CASE ~(used < Capacity)
  <2>1. sent' = sent
    BY <1>9 DEF DriverSends
  <2>2. SentInLine' /\ QueueAfterSent' /\ AllPast' /\ OneOld'
    BY <1>b, <1>c, <1>3, <2>1 DEF InLine, Fresh, SentInLine, QueueAfterSent, AllPast, OneOld
  <2> QED BY <1>4, <1>6, <1>7, <2>2 DEF LineInv, InLine, Fresh
<1> QED BY <1>8, <1>9

\* What the TinyUSB task and the host do to epochs and mounts.
LEMMA HostLine ==
  ASSUME SlotInv, LineInv,
         TransferComplete \/ Notify \/ MountCallback \/ Mount \/ Disconnect \/ SuspendResume \/ UNCHANGED vars
  PROVE  LineInv'
<1>a. InLine /\ Fresh /\ epoch \in Nat /\ mounts \in Nat
  BY DEF SlotInv, LineInv, Types
<1>b. data' = data /\ prod' = prod /\ pending' = pending /\ worker' = worker
  BY DEF TransferComplete, Notify, MountCallback, Mount, Disconnect, SuspendResume, vars, TaskOnly, queues
<1>1. sent' = sent \/ sent' = << >>
  BY DEF TransferComplete, Notify, MountCallback, Mount, Disconnect, SuspendResume, vars
<1>2. Published' = Published
  BY <1>b DEF Published, Handing
<1>3. InLine'
  <2>1. QueueInLine' /\ WorkerFirst' /\ FilledRight'
    BY <1>a, <1>b DEF InLine, QueueInLine, WorkerFirst, FilledRight, Handing
  <2>2. SentInLine' /\ QueueAfterSent' /\ AllPast'
    BY <1>a, <1>b, <1>1, <1>2 DEF InLine, SentInLine, QueueAfterSent, AllPast
  <2> QED BY <2>1, <2>2 DEF InLine
<1>4. \A e, b : Dated(e, b) /\ e \in Nat => Dated(e, b)'
  <2>1. CASE epoch' = epoch /\ mounts' = mounts /\ (tusb' # "mounting" => tusb # "mounting")
    BY <2>1 DEF Dated
  <2>2. CASE MountCallback
    BY <1>a, <2>2 DEF Dated, MountCallback
  <2>3. CASE Mount
    BY <1>a, <2>3 DEF Dated, Mount
  <2> QED BY <2>1, <2>2, <2>3 DEF TransferComplete, Notify, Disconnect, SuspendResume, vars, usb
<1>5. AllDated'
  <2>1. /\ \A p \in Producers : prod[p].epoch \in Nat
        /\ \A s \in Published : data[s].epoch \in Nat
    <3>1. prod \in [Producers -> Producer] /\ data \in [Slots -> Data] /\ pending \in Seq(Slots)
      BY DEF SlotInv, Types
    <3>2. Published \subseteq Slots
      BY <3>1 DEF Published
    <3> QED BY <3>1, <3>2 DEF Producer, Data
  <2> QED BY <1>a, <1>b, <1>2, <1>4, <2>1 DEF Fresh, AllDated, Dated
<1>6. NoneYet' /\ LastOldCall' /\ OneOld'
  <2>1. CASE Mount
    BY <2>1 DEF Mount, NoneYet, LastOldCall, OneOld
  <2>2. CASE Disconnect
    BY <1>a, <1>b, <2>2 DEF Disconnect, Fresh, NoneYet, LastOldCall, OneOld
  <2>3. CASE SuspendResume
    BY <1>a, <1>b, <2>3 DEF SuspendResume, Fresh, NoneYet, LastOldCall, OneOld
  <2>4. CASE TransferComplete \/ Notify \/ MountCallback
    BY <1>a, <1>b, <2>4 DEF TransferComplete, Notify, MountCallback, Fresh, NoneYet, LastOldCall, OneOld
  <2>5. CASE UNCHANGED vars
    BY <1>a, <1>b, <2>5 DEF vars, usb, Fresh, NoneYet, LastOldCall, OneOld
  <2> QED BY <2>1, <2>2, <2>3, <2>4, <2>5
<1> QED BY <1>3, <1>5, <1>6 DEF LineInv, Fresh

\* At boot no frame is on its way.
LEMMA LineInit == Init => LineInv
<1> SUFFICES ASSUME Init PROVE LineInv
  OBVIOUS
<1>1. pending = << >> /\ sent = << >> /\ worker.pc = "idle" /\ \A p \in Producers : prod[p].pc = "idle"
  BY DEF Init, Asleep
<1>2. Published = {} /\ ~Handing
  BY <1>1 DEF Published, Handing
<1>3. InLine
  BY <1>1, <1>2 DEF InLine, SentInLine, QueueInLine, QueueAfterSent, WorkerFirst, AllPast, FilledRight
<1>4. Fresh
  BY <1>1, <1>2 DEF Fresh, AllDated, NoneYet, LastOldCall, OneOld
<1> QED BY <1>3, <1>4 DEF LineInv

\* Every step keeps the frames on their way in the order of their submission.
LEMMA LineStep == SlotInv /\ LineInv /\ [Next]_vars => LineInv'
BY ProducerLine, FillLine, PublishLine, ReceiveLine, WorkerLine, SendLine, HostLine
   DEF Next, SubmitStep, WorkerStep, HostStep

\* At most one frame of an earlier mount, as a count.
LEMMA OldFrames == LineInv => SentFresh
<1> SUFFICES ASSUME LineInv PROVE SentFresh
  OBVIOUS
<1> DEFINE old == {i \in DOMAIN sent : sent[i].born # mounts}
<1>1. \A i, j \in old : i = j
  BY DEF LineInv, Fresh, OneOld
<1>2. CASE old = {}
  <2>1. Cardinality(old) = 0
    BY <1>2, FS_EmptySet
  <2> QED BY <2>1 DEF SentFresh, LineInv, InLine, SentInLine, Ahead
<1>3. CASE old # {}
  <2>1. PICK i : old = {i}
    BY <1>1, <1>3
  <2>2. Cardinality(old) = 1
    BY <2>1, FS_Singleton
  <2> QED BY <2>2 DEF SentFresh, LineInv, InLine, SentInLine, Ahead
<1> QED BY <1>2, <1>3

\* Between two mounts the driver gets every frame at most once and a task's frames in their
\* order, and at most the one frame process_one was already sending is of an earlier mount.
THEOREM SentInOrder == Spec => []SentFresh
<1>1. Init => SlotInv /\ LineInv
  BY SlotInit, LineInit
<1>2. SlotInv /\ LineInv /\ [Next]_vars => SlotInv' /\ LineInv'
  BY SlotStep, LineStep
<1>3. LineInv => SentFresh
  BY OldFrames
<1> QED BY <1>1, <1>2, <1>3, PTL DEF Spec
=============================================================================
