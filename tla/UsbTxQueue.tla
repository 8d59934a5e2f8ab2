------------------------------ MODULE UsbTxQueue ------------------------------
(***************************************************************************)
(* The USB transmit queue of the ESP32 bridge.  Tasks that send (lwIP)     *)
(* copy a frame into a slot of a fixed pool and pass on its index; one     *)
(* worker hands the frames to TinyUSB and sleeps while the driver is full; *)
(* the TinyUSB task runs the driver and reports completions and mounts.    *)
(* The tasks run on two cores: a step is one critical section, one call of *)
(* a FreeRTOS queue or notification, or one look at the host's state.      *)
(*                                                                         *)
(* CONFIG_MESHVPN_USB_TX_QUEUE and _EVENT_WAIT are on, as in the defaults, *)
(* and the queue has been created.  A frame is <<task, number>>.           *)
(***************************************************************************)
EXTENDS Integers, Sequences, FiniteSets

CONSTANTS
  Producers,      \* tasks that transmit
  NSlots,         \* MESHVPN_USB_TX_SLOTS
  Capacity,       \* NTBs of the NCM driver, a frame each
  MaxAttempts,    \* attempts of one frame, 64 in the code
  MaxFrames,      \* bound: frames of each producer, a function
  MaxMounts       \* bound: times the host configures the device

ASSUME UsbAssumption ==
  /\ NSlots \in Nat \ {0} /\ Capacity \in Nat \ {0} /\ MaxAttempts \in Nat \ {0}
  /\ MaxFrames \in [Producers -> Nat] /\ MaxMounts \in Nat

Slots  == 1 .. NSlots
NoSlot == 0

VARIABLES
  free, pending,  \* s_free and s_pending: indexes of slots
  data,           \* s_pool: the frame in a slot that is not free, and its epoch
  inUse,          \* s_queue_stats.in_use
  backlog,        \* s_queue_stats: enqueued - completed
  epoch,          \* s_epoch
  host,           \* gone, suspended or ready: what tud_ready sees
  mounts,         \* mounts so far
  tusb,           \* what the TinyUSB task is in the middle of
  used,           \* NTBs in use
  notified,       \* the worker's notification
  prod,           \* the producers
  worker,         \* the worker
  sent            \* history: frames given to the driver since the last mount

queues == <<free, pending, data>>
stats  == <<inUse, backlog>>
usb    == <<epoch, host, mounts, tusb, used>>
vars   == <<queues, stats, usb, notified, prod, worker, sent>>

NoData == [frame |-> << >>, epoch |-> 0, born |-> 0]   \* born: the mount it was submitted in
Asleep == [pc |-> "idle", slot |-> NoSlot, tries |-> 0]

Init ==
  /\ free = [i \in Slots |-> i] /\ pending = << >> /\ data = [s \in Slots |-> NoData]
  /\ inUse = 0 /\ backlog = 0
  /\ epoch = 0 /\ host = "gone" /\ mounts = 0 /\ tusb = "idle" /\ used = 0
  /\ notified = FALSE
  /\ prod = [p \in Producers |-> [pc |-> "idle", n |-> 0, epoch |-> 0, born |-> 0, slot |-> NoSlot]]
  /\ worker = Asleep /\ sent = << >>

-----------------------------------------------------------------------------
(* meshvpn_usb_tx_queue_submit.                                            *)

At(p, pc)    == prod[p].pc = pc
Then(p, pc)  == prod' = [prod EXCEPT ![p].pc = pc]
Returns(p)   == prod' = [prod EXCEPT ![p] = [pc |-> "idle", n |-> prod[p].n, epoch |-> 0, born |-> 0,
                                             slot |-> NoSlot]]
ProducerOnly == UNCHANGED <<usb, notified, worker, sent>>

\* The epoch is read before the host is looked at.
Submit(p) ==
  /\ At(p, "idle") /\ prod[p].n < MaxFrames[p]
  /\ prod' = [prod EXCEPT ![p] = [pc |-> "submitting", n |-> prod[p].n + 1, epoch |-> epoch,
                                  born |-> mounts, slot |-> NoSlot]]
  /\ UNCHANGED <<queues, stats>> /\ ProducerOnly

\* Rejected without a host.
LookAtHost(p) ==
  /\ At(p, "submitting")
  /\ IF host = "ready" THEN Then(p, "admitted") ELSE Returns(p)
  /\ UNCHANGED <<queues, stats>> /\ ProducerOnly

\* Rejected when no slot is free; the host may have gone meanwhile.
TakeSlot(p) ==
  /\ At(p, "admitted")
  /\ IF free = << >> THEN Returns(p) /\ UNCHANGED free
     ELSE /\ prod' = [prod EXCEPT ![p].pc = "taken", ![p].slot = Head(free)]
          /\ free' = Tail(free)
  /\ UNCHANGED <<pending, data, stats>> /\ ProducerOnly

\* The slot is counted and filled, and the frame counted: once it is published the worker may
\* be done with it at any time.
Fill(p) ==
  /\ At(p, "taken") /\ Then(p, "filled")
  /\ data' = [data EXCEPT ![prod[p].slot] =
                [frame |-> <<p, prod[p].n>>, epoch |-> prod[p].epoch, born |-> prod[p].born]]
  /\ inUse' = inUse + 1 /\ backlog' = backlog + 1
  /\ UNCHANGED <<free, pending>> /\ ProducerOnly

\* xQueueSend to s_pending.  That it never finds the queue full is part of SlotsOwned.
Publish(p) ==
  /\ At(p, "filled")
  /\ pending' = Append(pending, prod[p].slot)
  /\ Returns(p)
  /\ UNCHANGED <<free, data, stats>> /\ ProducerOnly

-----------------------------------------------------------------------------
(* The worker: process_one, meshvpn_usb_send_sync and                      *)
(* meshvpn_usb_tx_wait_capacity.                                           *)

On(pc)     == worker.pc = pc
Go(pc)     == worker' = [worker EXCEPT !.pc = pc]
WorkerOnly == UNCHANGED <<usb, prod>>
Stale(s)   == data[s].epoch # epoch \/ host # "ready"

\* A frame of an earlier mount, or one that has waited for more than 50 ms, is not sent.
Receive ==
  /\ On("idle") /\ pending # << >>
  /\ \E pc \in {"done"} \cup {q \in {"sending"} : ~Stale(Head(pending))} :
       worker' = [pc |-> pc, slot |-> Head(pending), tries |-> 0]
  /\ pending' = Tail(pending)
  /\ UNCHANGED <<free, data, stats, notified, sent>> /\ WorkerOnly

\* meshvpn_usb_tx_prepare_wait: what was notified before the attempt does not count.  Then the
\* epoch is checked, and tinyusb_net_send_sync defers the send to the TinyUSB task.
Attempt ==
  /\ On("sending")
  /\ notified' = FALSE
  /\ worker' = [worker EXCEPT !.pc = IF Stale(worker.slot) THEN "done" ELSE "calling", !.tries = @ + 1]
  /\ UNCHANGED <<queues, stats, sent>> /\ WorkerOnly

\* It is waited for for 25 ms.
CallTimeout ==
  /\ On("calling") /\ Go("done")
  /\ UNCHANGED <<queues, stats, notified, sent>> /\ WorkerOnly

BusyClears ==           \* mutant: old notifications are cleared after the attempt
  /\ On("busy")
  /\ \/ worker.tries < MaxAttempts /\ ~Stale(worker.slot) /\ Go("blocked") /\ notified' = FALSE
     \/ Go("done") /\ UNCHANGED notified
  /\ UNCHANGED <<queues, stats, sent>> /\ WorkerOnly

\* The driver was full: wait for a completion, unless the attempts, the deadline or the
\* connection have run out.
Busy ==
  /\ On("busy")
  /\ \/ worker.tries < MaxAttempts /\ ~Stale(worker.slot) /\ Go("blocked")
     \/ Go("done")
  /\ UNCHANGED <<queues, stats, notified, sent>> /\ WorkerOnly

\* ulTaskNotifyTake; the connection and the deadline are looked at again.
Wake ==
  /\ On("blocked") /\ notified
  /\ notified' = FALSE
  /\ \/ ~Stale(worker.slot) /\ Go("sending")
     \/ Go("done")
  /\ UNCHANGED <<queues, stats, sent>> /\ WorkerOnly

NeverTimesOut == FALSE  \* mutant: portMAX_DELAY

CapacityTimeout ==
  /\ On("blocked") /\ ~notified /\ Go("done")
  /\ UNCHANGED <<queues, stats, notified, sent>> /\ WorkerOnly

ReleaseFirst ==         \* mutant: the slot is given back before it is counted off
  /\ \/ /\ On("done") /\ free' = Append(free, worker.slot)
        /\ data' = [data EXCEPT ![worker.slot] = NoData]
        /\ Go("releasing") /\ UNCHANGED <<inUse, backlog>>
     \/ /\ On("releasing") /\ inUse' = inUse - 1 /\ backlog' = backlog - 1
        /\ worker' = Asleep /\ UNCHANGED <<free, data>>
  /\ UNCHANGED <<pending, notified, sent>> /\ WorkerOnly

\* The frame is completed; release_slot counts the slot off and gives it back after that.
Release ==
  /\ \/ /\ On("done") /\ inUse' = inUse - 1 /\ backlog' = backlog - 1
        /\ Go("releasing") /\ UNCHANGED <<free, data>>
     \/ /\ On("releasing") /\ free' = Append(free, worker.slot)
        /\ data' = [data EXCEPT ![worker.slot] = NoData]
        /\ worker' = Asleep /\ UNCHANGED <<inUse, backlog>>
  /\ UNCHANGED <<pending, notified, sent>> /\ WorkerOnly

-----------------------------------------------------------------------------
(* The TinyUSB task and the host.                                          *)

TaskOnly == UNCHANGED <<queues, stats, prod>>

\* tud_network_can_xmit and tud_network_xmit, called for tinyusb_net_send_sync
DriverSends ==
  /\ On("calling") /\ tusb = "idle"
  /\ IF used < Capacity
     THEN /\ used' = used + 1 /\ Go("done")
          /\ sent' = Append(sent, data[worker.slot])
     ELSE Go("busy") /\ UNCHANGED <<used, sent>>
  /\ UNCHANGED <<epoch, host, mounts, tusb, notified>> /\ TaskOnly

\* A transfer ends and frees its NTB, or was of length zero; the worker is told afterwards.
TransferComplete ==
  /\ host = "ready" /\ tusb = "idle" /\ used > 0
  /\ used' \in {used - 1, used}
  /\ tusb' = "notifying"
  /\ UNCHANGED <<epoch, host, mounts, notified, worker, sent>> /\ TaskOnly

\* meshvpn_usb_tx_capacity_available
Notify ==
  /\ tusb = "notifying" /\ tusb' = "idle"
  /\ notified' = TRUE
  /\ UNCHANGED <<epoch, host, mounts, used, worker, sent>> /\ TaskOnly

MountUnseen ==          \* mutant: only the notification
  /\ tusb = "mounting" /\ tusb' = "notifying"
  /\ UNCHANGED <<epoch, host, mounts, used, notified, worker, sent>> /\ TaskOnly

\* tud_mount_cb, tud_umount_cb
MountCallback ==
  /\ tusb = "mounting" /\ tusb' = "notifying"
  /\ epoch' = epoch + 1
  /\ UNCHANGED <<host, mounts, used, notified, worker, sent>> /\ TaskOnly

Mount ==
  /\ host = "gone" /\ tusb = "idle" /\ mounts < MaxMounts
  /\ host' = "ready" /\ mounts' = mounts + 1 /\ tusb' = "mounting" /\ sent' = << >>
  /\ UNCHANGED <<epoch, used, notified, worker>> /\ TaskOnly

\* Of a bus reset no callback tells.
Disconnect ==
  /\ host # "gone" /\ tusb = "idle"
  /\ host' = "gone" /\ used' = 0 /\ tusb' \in {"idle", "mounting"}
  /\ UNCHANGED <<epoch, mounts, notified, worker, sent>> /\ TaskOnly

SuspendResume ==
  /\ host # "gone" /\ tusb = "idle"
  /\ host' = IF host = "ready" THEN "suspended" ELSE "ready"
  /\ UNCHANGED <<epoch, mounts, tusb, used, notified, worker, sent>> /\ TaskOnly

-----------------------------------------------------------------------------

SubmitStep(p) == LookAtHost(p) \/ TakeSlot(p) \/ Fill(p) \/ Publish(p)
WorkerStep ==
  Receive \/ Attempt \/ CallTimeout \/ Busy \/ Wake \/ CapacityTimeout \/ Release
HostStep == Mount \/ Disconnect \/ SuspendResume \/ TransferComplete

Next ==
  \/ \E p \in Producers : Submit(p) \/ SubmitStep(p)
  \/ WorkerStep \/ DriverSends \/ Notify \/ MountCallback \/ HostStep

Spec == Init /\ [][Next]_vars

\* The scheduler runs every task that can run, and timeouts pass.  Nothing is asked of the host.
\* One condition serves all producers, since a submission is a few steps and waits for nothing.
FairSpec ==
  /\ Spec /\ WF_vars(WorkerStep) /\ WF_vars(Notify \/ MountCallback)
  /\ WF_vars(\E p \in Producers : SubmitStep(p))

-----------------------------------------------------------------------------

Frames == {<< >>} \cup (Producers \X Nat)
Data   == [frame : Frames, epoch : Nat, born : Nat]
Held   == Slots \cup {NoSlot}

TypeOK ==
  /\ free \in Seq(Slots) /\ pending \in Seq(Slots) /\ data \in [Slots -> Data]
  /\ inUse \in 0 .. NSlots /\ backlog \in 0 .. NSlots /\ sent \in Seq(Data)
  /\ epoch \in Nat /\ mounts \in 0 .. MaxMounts /\ used \in 0 .. Capacity /\ notified \in BOOLEAN
  /\ host \in {"gone", "suspended", "ready"} /\ tusb \in {"idle", "notifying", "mounting"}
  /\ prod \in [Producers -> [pc : {"idle", "submitting", "admitted", "taken", "filled"}, n : Nat,
                             epoch : Nat, born : Nat, slot : Held]]
  /\ worker \in [pc : {"idle", "sending", "calling", "busy", "blocked", "done", "releasing"},
                 slot : Held, tries : 0 .. MaxAttempts]

\* The owners of a slot: places in the two queues, producers and the worker.
Owners(s) ==
  {<<"free", i>> : i \in {j \in DOMAIN free : free[j] = s}}
  \cup {<<"pending", i>> : i \in {j \in DOMAIN pending : pending[j] = s}}
  \cup {<<"producer", p>> : p \in {q \in Producers : prod[q].slot = s}}
  \cup (IF worker.slot = s THEN {<<"worker", 0>>} ELSE {})

\* A slot has exactly one owner, so that neither queue is ever full when one is added and no
\* frame is overwritten while it is read; in_use counts the slots that are filled and not yet
\* completed.
SlotsOwned ==
  /\ \A s \in Slots : Cardinality(Owners(s)) = 1
  /\ inUse = NSlots - Len(free)
             - Cardinality({p \in Producers : prod[p].pc = "taken"})
             - (IF worker.pc = "releasing" THEN 1 ELSE 0)

\* The queue's state is well formed and SlotsOwned: what the assertion of release_slot and the
\* unreachable failure branch of meshvpn_usb_tx_queue_submit rely on.
QueueInv == TypeOK /\ SlotsOwned

\* Between two mounts frames reach the driver at most once and those of a task in their order; at
\* most one, the one the worker was about to hand over, is of an earlier mount.
SentFresh ==
  /\ \A i, j \in DOMAIN sent :
       i < j /\ sent[i].frame[1] = sent[j].frame[1] => sent[i].frame[2] < sent[j].frame[2]
  /\ Cardinality({i \in DOMAIN sent : sent[i].born # mounts}) <= 1

\* The worker never sleeps through capacity (meshvpn_usb_tx_prepare_wait's comment): while it
\* does, the driver is full, or the TinyUSB task is about to notify it.
NoLostWakeup ==
  worker.pc = "blocked" /\ ~notified /\ host = "ready" => used = Capacity \/ tusb # "idle"

\* Whatever the host does, every frame that was accepted is dealt with and every slot comes back.
WorkerDrains ==
  <>[](worker.pc = "idle" /\ pending = << >> /\ Len(free) = NSlots /\ inUse = 0 /\ backlog = 0)
=============================================================================
