-------------------------------- MODULE Ingress --------------------------------
(***************************************************************************)
(* The journal of --from-tun (scripts/lib/ingress-journal.mjs) and the     *)
(* installer it drives (installIngressRouting), under the client, plain or *)
(* with --from-tun-restart-safe, and under clean-vpn-recover.  Items,      *)
(* commands and interruptions are those of TunnelDns.  The journal differs *)
(* in its order: only a restart-safe client puts up a hold, the hold is    *)
(* complete before the stage becomes restoring, and a parked journal is a  *)
(* released one whose hold is not null (hold -1 is null).                  *)
(***************************************************************************)
EXTENDS Integers

CONSTANTS
  NGuard,     \* operations of the plan up to the jump of FORWARD into its chain
  NBase,      \* operations of the plan without the HTTPS redirect
  NHttps,     \* operations of the HTTPS redirect
  NHold,      \* gates of the restart guard
  TunOps,     \* operations after the guard that the kernel drops with the TUN device
  SameOps     \* rp_filter settings that have their value already

NAll     == NBase + NHttps
Ops      == {"op"} \X (1 .. NAll)
Guards   == {"op"} \X (1 .. NGuard)
Gates    == {"gate"} \X (1 .. NHold)
Item     == Ops \cup Gates
TunItems == {"op"} \X TunOps
SameItems == {"op"} \X SameOps

VARIABLES
  file,     \* journal.json: stage, count of operations, count of gates, port set
  net,      \* the items the network namespace has
  proc,     \* the process that holds the journal: where, in which call, gate index,
            \* restart-safe or not, data path open or not
  cmd,      \* the command the process waits for: at most one
  orphan,   \* the command a killed process left running: at most one
  sealed    \* history: forwarding was closed, and no full restore has begun since

vars == <<file, net, proc, cmd, orphan, sealed>>

Stages == {"none", "installing", "restoring", "released"}
Points == {"closed", "prepare", "begin", "restore", "hold", "holding", "rollback", "undoing",
           "unhold", "unholding", "apply", "applying", "installed", "running"}
Calls  == {"prepare", "begin", "install", "https", "activate", "close", "recover"}
Commands == [do : {"add", "del"}, item : Item]

TypeOK ==
  /\ file \in [stage : Stages, count : 0 .. NAll, hold : -1 .. NHold, port : BOOLEAN]
  /\ net \subseteq Item
  /\ proc \in [pc : Points, call : Calls, at : 1 .. NHold, safe : BOOLEAN, open : BOOLEAN]
  /\ cmd \subseteq Commands /\ orphan \subseteq Commands
  /\ sealed \in BOOLEAN

-----------------------------------------------------------------------------
Max2(a, b) == IF a >= b THEN a ELSE b

PlanLength == IF file.port THEN NAll ELSE NBase

Claimed == ({"op"} \X (1 .. file.count)) \cup ({"gate"} \X (1 .. file.hold))
Audit   == net \subseteq Claimed

\* keepHold of the restore in progress
Keep == proc.call = "prepare" \/ (proc.call = "close" /\ proc.safe)

At(point) == proc.pc = point /\ cmd = {}
Go(point) == proc' = [proc EXCEPT !.pc = point]
Closed    == [proc EXCEPT !.pc = "closed"]

RemoveAlways(x)    == cmd' = {[do |-> "del", item |-> x]}   \* broken
AddIfAbsent(x)     == cmd' = IF x \in net THEN {} ELSE {[do |-> "add", item |-> x]}
RemoveIfPresent(x) == cmd' = IF x \in net THEN {[do |-> "del", item |-> x]} ELSE {}

Init ==
  /\ file = [stage |-> "none", count |-> 0, hold |-> -1, port |-> FALSE]
  /\ net = {}
  /\ proc = [pc |-> "closed", call |-> "recover", at |-> 1, safe |-> FALSE, open |-> FALSE]
  /\ cmd = {} /\ orphan = {}
  /\ sealed = FALSE

-----------------------------------------------------------------------------
(* Opening the journal.                                                    *)

Unlocked == proc.pc = "closed" /\ orphan = {}

\* A client: prepareRestart when it is restart-safe, assertAvailable when it is not.
OpenClient(safe) ==
  /\ Unlocked
  /\ proc' = [pc |-> "prepare", call |-> "prepare", at |-> 1, safe |-> safe, open |-> FALSE]
  /\ UNCHANGED <<file, net, cmd, orphan, sealed>>

OpenRecovery ==
  /\ Unlocked /\ file.stage # "none"
  /\ proc' = [pc |-> "restore", call |-> "recover", at |-> 1, safe |-> FALSE, open |-> FALSE]
  /\ UNCHANGED <<file, net, cmd, orphan, sealed>>

Finished == file.stage = "none" \/ (file.stage = "released" /\ file.hold = -1)

\* assertAvailable of a plain client: it refuses what is unfinished.
Refuse ==
  /\ At("prepare") /\ ~proc.safe /\ ~Finished
  /\ proc' = Closed
  /\ UNCHANGED <<file, net, cmd, orphan, sealed>>

\* Nothing to prepare, or the whole of restore({ keepHold: true }).
PrepareRestart ==
  /\ At("prepare") /\ (proc.safe \/ Finished)
  /\ Go(IF Finished THEN "begin" ELSE "restore")
  /\ UNCHANGED <<file, net, cmd, orphan, sealed>>

-----------------------------------------------------------------------------
(* restore({ keepHold })                                                   *)

\* Broken: never puts up the hold.
RestoreUngated ==
  /\ At("restore") /\ Audit
  /\ file' = [file EXCEPT !.stage = "restoring"]
  /\ Go("rollback")
  /\ sealed' = (sealed /\ Keep)
  /\ UNCHANGED <<net, cmd, orphan>>

\* With keepHold the hold comes first, without it the rollback begins at once.
Restore ==
  /\ At("restore") /\ Audit
  /\ IF Keep
       THEN proc' = [proc EXCEPT !.pc = "hold", !.at = 1] /\ UNCHANGED <<file, sealed>>
       ELSE /\ file' = [file EXCEPT !.stage = "restoring"]
            /\ Go("rollback")
            /\ sealed' = FALSE
  /\ UNCHANGED <<net, cmd, orphan>>

\* ensureHold: a hold is created, then each gate is claimed and put up.
CreateHold ==
  /\ At("hold") /\ file.hold = -1
  /\ file' = [file EXCEPT !.hold = 0]
  /\ UNCHANGED <<net, proc, cmd, orphan, sealed>>

EnsureHold ==
  /\ At("hold") /\ file.hold # -1
  /\ file' = [file EXCEPT !.hold = Max2(file.hold, proc.at)]
  /\ AddIfAbsent(<<"gate", proc.at>>)
  /\ Go("holding")
  /\ UNCHANGED <<net, orphan, sealed>>

HoldReadBack ==
  /\ At("holding") /\ proc.at < NHold
  /\ <<"gate", proc.at>> \in net
  /\ proc' = [proc EXCEPT !.pc = "hold", !.at = proc.at + 1]
  /\ UNCHANGED <<file, net, cmd, orphan, sealed>>

\* The last gate is up: begin goes on to the plan, a restore to its rollback.
HoldComplete ==
  /\ At("holding") /\ proc.at = NHold
  /\ <<"gate", proc.at>> \in net
  /\ IF proc.call = "begin"
       THEN proc' = [proc EXCEPT !.pc = "apply", !.call = "install"] /\ UNCHANGED file
       ELSE Go("rollback") /\ file' = [file EXCEPT !.stage = "restoring"]
  /\ sealed' = TRUE
  /\ UNCHANGED <<net, cmd, orphan>>

Rollback ==
  /\ At("rollback") /\ file.count > 0
  /\ RemoveIfPresent(<<"op", file.count>>)
  /\ Go("undoing")
  /\ UNCHANGED <<file, net, orphan, sealed>>

Undone ==
  /\ At("undoing")
  /\ <<"op", file.count>> \notin net
  /\ file' = [file EXCEPT !.count = file.count - 1]
  /\ Go("rollback")
  /\ UNCHANGED <<net, cmd, orphan, sealed>>

\* Kept hold: released with the gates up; prepareRestart returns to the client.
Park ==
  /\ At("rollback") /\ file.count = 0 /\ Keep
  /\ file' = [file EXCEPT !.stage = "released"]
  /\ Go(IF proc.call = "prepare" THEN "begin" ELSE "closed")
  /\ UNCHANGED <<net, cmd, orphan, sealed>>

OpenGates ==
  /\ At("rollback") /\ file.count = 0 /\ ~Keep
  /\ Go("unhold")
  /\ UNCHANGED <<file, net, cmd, orphan, sealed>>

\* removeHold, of a restore and of activate
RemoveHold ==
  /\ At("unhold") /\ file.hold > 0
  /\ RemoveIfPresent(<<"gate", file.hold>>)
  /\ Go("unholding")
  /\ UNCHANGED <<file, net, orphan, sealed>>

HoldRemoved ==
  /\ At("unholding")
  /\ <<"gate", file.hold>> \notin net
  /\ file' = [file EXCEPT !.hold = file.hold - 1]
  /\ Go("unhold")
  /\ UNCHANGED <<net, cmd, orphan, sealed>>

DropHold ==
  /\ At("unhold") /\ file.hold = 0
  /\ file' = [file EXCEPT !.hold = -1]
  /\ UNCHANGED <<net, proc, cmd, orphan, sealed>>

Released ==
  /\ At("unhold") /\ file.hold = -1 /\ proc.call # "activate"
  /\ file' = [file EXCEPT !.stage = "released"]
  /\ proc' = Closed
  /\ UNCHANGED <<net, cmd, orphan, sealed>>

Activated ==
  /\ At("unhold") /\ file.hold = -1 /\ proc.call = "activate"
  /\ proc' = [proc EXCEPT !.pc = "running", !.open = TRUE]
  /\ UNCHANGED <<file, net, cmd, orphan, sealed>>

-----------------------------------------------------------------------------
(* The client: begin, the plan, the HTTPS redirect, activate, close.       *)

ForgottenHold == -1   \* broken
KeptHold == IF proc.safe THEN file.hold ELSE -1

\* assertAvailable, inspectIngress's refusal of leftovers, the new journal.
Begin ==
  /\ At("begin")
  /\ file.stage = "none" \/ (file.stage = "released" /\ (proc.safe \/ file.hold = -1))
  /\ net \cap Ops = {}
  /\ file' = [stage |-> "installing", count |-> 0, port |-> FALSE, hold |-> KeptHold]
  /\ proc' = IF proc.safe THEN [proc EXCEPT !.pc = "hold", !.call = "begin", !.at = 1]
                          ELSE [proc EXCEPT !.pc = "apply", !.call = "install"]
  /\ UNCHANGED <<net, cmd, orphan, sealed>>

\* transaction.apply: the claim is saved before the operation is run.
Apply ==
  /\ At("apply") /\ file.stage = "installing" /\ file.count < PlanLength
  /\ file' = [file EXCEPT !.count = file.count + 1]
  /\ cmd' = {[do |-> "add", item |-> <<"op", file.count + 1>>]}
  /\ Go("applying")
  /\ UNCHANGED <<net, orphan, sealed>>

Applied ==
  /\ At("applying")
  /\ <<"op", file.count>> \in net \cup SameItems
  /\ Go("apply")
  /\ UNCHANGED <<file, net, cmd, orphan, sealed>>

Installed ==
  /\ At("apply") /\ file.count = PlanLength
  /\ Go(IF proc.open THEN "running" ELSE "installed")
  /\ sealed' = TRUE
  /\ UNCHANGED <<file, net, cmd, orphan>>

\* A plain client needs no activation.
PlainReady ==
  /\ At("installed") /\ ~proc.safe
  /\ proc' = [proc EXCEPT !.pc = "running", !.open = TRUE]
  /\ UNCHANGED <<file, net, cmd, orphan, sealed>>

\* installHttpsRedirect, once the relay listens
Https ==
  /\ At("installed") \/ At("running")
  /\ ~file.port
  /\ file' = [file EXCEPT !.port = TRUE]
  /\ proc' = [proc EXCEPT !.pc = "apply", !.call = "https"]
  /\ UNCHANGED <<net, cmd, orphan, sealed>>

Activate ==
  /\ At("installed") /\ proc.safe
  /\ file.stage = "installing" /\ file.count = PlanLength /\ Audit
  /\ {"op"} \X (1 .. PlanLength) \subseteq net \cup SameItems
  /\ proc' = [proc EXCEPT !.pc = "unhold", !.call = "activate"]
  /\ UNCHANGED <<file, net, cmd, orphan, sealed>>

\* close() of a stop with code 0, or of an installer whose operation failed.
Close ==
  /\ \/ At("installed") \/ At("running")
     \/ proc.call = "install" /\ proc.pc \in {"apply", "applying"}
  /\ proc' = [proc EXCEPT !.pc = "restore", !.call = "close"]
  /\ cmd' = {}
  /\ UNCHANGED <<file, net, orphan, sealed>>

-----------------------------------------------------------------------------
(* Commands and what interrupts them.                                      *)

\* Rules and routes cannot be added twice nor deleted when absent; a setting that has
\* its value stays as it is.
Effect(c) ==
  IF c.item \in SameItems
    THEN UNCHANGED net
    ELSE /\ c.do = "add" <=> c.item \notin net
         /\ net' = IF c.do = "add" THEN net \cup {c.item} ELSE net \ {c.item}

CommandDone ==
  /\ \E c \in cmd : Effect(c)
  /\ cmd' = {}
  /\ UNCHANGED <<file, proc, orphan, sealed>>

OrphanEnds ==
  /\ \E c \in orphan : (Effect(c) /\ c.item \notin TunItems) \/ UNCHANGED net
  /\ orphan' = {}
  /\ UNCHANGED <<file, proc, cmd, sealed>>

\* A call throws and the process ends with its journal kept, or the client stops with
\* an error (retainIngress): the TUN goes with it.
Fail ==
  /\ proc.pc # "closed"
  /\ proc' = Closed
  /\ cmd' = {}
  /\ net' = net \ TunItems
  /\ UNCHANGED <<file, orphan, sealed>>

Crash ==
  /\ cmd # {}
  /\ proc' = Closed
  /\ cmd' = {} /\ orphan' = cmd
  /\ net' = net \ TunItems
  /\ UNCHANGED <<file, sealed>>

-----------------------------------------------------------------------------
Opens == (\E safe \in BOOLEAN : OpenClient(safe)) \/ OpenRecovery
Steps == \/ Refuse \/ PrepareRestart \/ Restore \/ CreateHold \/ EnsureHold \/ HoldReadBack
         \/ HoldComplete \/ Rollback \/ Undone \/ Park \/ OpenGates \/ RemoveHold
         \/ HoldRemoved \/ DropHold \/ Released \/ Activated \/ Begin \/ Apply \/ Applied
         \/ Installed \/ PlainReady \/ Activate
Asked == Https \/ Close
Ends  == CommandDone \/ OrphanEnds
Interrupted == Fail \/ Crash

Next == Opens \/ Steps \/ Asked \/ Ends \/ Interrupted

Spec == Init /\ [][Next]_vars

-----------------------------------------------------------------------------
\* Whatever a dead process left is claimed by the journal on disk ("durable intent
\* BEFORE the mutation"), so that a later audit accepts and removes it.
Owned == net \subseteq Claimed

\* Once forwarding from the interface has been closed or captured, its traffic does
\* not leave directly until somebody restores without the hold: the chain of the plan
\* or all gates of the hold are up, through crashes, restarts and failed installations.
NoDirectForward == sealed => Guards \subseteq net \/ Gates \subseteq net

\* The journal is a write-ahead claim on the network state.
Journal == INSTANCE OwnedState WITH claimed <- Claimed, present <- net
JournalSpec == Journal!Spec
=============================================================================
