------------------------------- MODULE TunnelDns -------------------------------
(***************************************************************************)
(* The journal of the tunnel DNS rules (scripts/lib/dns-tunnel-journal.mjs)*)
(* under the two programs that open it: the client (prepareRestart, begin, *)
(* the guard and route stages, the stub, the activate stage, activate, and *)
(* a stop that restores or retains) and clean-vpn-dns-recover (restore).   *)
(* The plan's operations are the items <<"op", i>>, the gates of the       *)
(* temporary hold the items <<"gate", i>>, installed in order, removed in  *)
(* reverse.  Commands run one at a time and the process waits for them; a  *)
(* process may throw or be killed anywhere, and a killed one leaves its    *)
(* command running, with the lock the command inherited.  External         *)
(* conditions (scope, firewall backend, links, conntrack, deadlines) only  *)
(* decide whether a call throws: they are the action Fail.                 *)
(***************************************************************************)
EXTENDS Integers

CONSTANTS
  NGuard, NRoute, NActivate,   \* operations of the three stages of the plan
  NHold,                       \* gates of the hold
  TunOps                       \* operations the kernel drops with the TUN device

NOps     == NGuard + NRoute + NActivate
Ops      == {"op"} \X (1 .. NOps)
Guards   == {"op"} \X (1 .. NGuard)
Gates    == {"gate"} \X (1 .. NHold)
Item     == Ops \cup Gates
TunItems == {"op"} \X TunOps

ASSUME PlanAssumption ==
  /\ NGuard \in Nat \ {0} /\ NRoute \in Nat \ {0} /\ NActivate \in Nat \ {0}
  /\ NHold \in Nat \ {0}
  /\ TunOps \subseteq (NGuard + 1) .. NOps

VARIABLES
  file,     \* journal.json: stage, count of operations, count of gates
  net,      \* the items the network namespace has
  proc,     \* the process that holds the journal: where it is, keepHold, gate index
  cmd,      \* the command the process waits for: at most one
  orphan,   \* the command a killed process left running: at most one
  sealed    \* history: DNS was captured, and no full restore has opened it since

vars == <<file, net, proc, cmd, orphan, sealed>>

Stages == {"none", "installing", "active", "restoring", "parked", "released"}
Points == {"closed", "restore", "hold", "holding", "rollback", "undoing", "unhold",
           "unholding", "begin", "apply", "applying", "stub", "activate", "running"}
Commands == [do : {"add", "del"}, item : Item]

TypeOK ==
  /\ file \in [stage : Stages, count : 0 .. NOps, hold : 0 .. NHold]
  /\ net \subseteq Item
  /\ proc \in [pc : Points, keep : BOOLEAN, at : 1 .. NHold]
  /\ cmd \subseteq Commands /\ orphan \subseteq Commands
  /\ sealed \in BOOLEAN

-----------------------------------------------------------------------------
Max2(a, b) == IF a >= b THEN a ELSE b

\* operations(value).slice(0, count) and holds(value).slice(0, hold)
Claimed == ({"op"} \X (1 .. file.count)) \cup ({"gate"} \X (1 .. file.hold))

\* observe(): everything found is claimed
Audit == net \subseteq Claimed

At(point) == proc.pc = point /\ cmd = {}
Go(point) == proc' = [proc EXCEPT !.pc = point]
Closed    == [proc EXCEPT !.pc = "closed"]

Save(stage, count, hold) == file' = [stage |-> stage, count |-> count, hold |-> hold]

\* run(op.file, op.args) unless the item is there, run(op.file, op.remove) if it is
RemoveAlways(x)    == cmd' = {[do |-> "del", item |-> x]}   \* broken
AddIfAbsent(x)     == cmd' = IF x \in net THEN {} ELSE {[do |-> "add", item |-> x]}
RemoveIfPresent(x) == cmd' = IF x \in net THEN {[do |-> "del", item |-> x]} ELSE {}

Init ==
  /\ file = [stage |-> "none", count |-> 0, hold |-> 0]
  /\ net = {}
  /\ proc = [pc |-> "closed", keep |-> FALSE, at |-> 1]
  /\ cmd = {} /\ orphan = {}
  /\ sealed = FALSE

-----------------------------------------------------------------------------
(* Opening the journal: the flock is free, of processes and of commands.   *)

UnlockedByTheDead == proc.pc = "closed"   \* broken
Unlocked == proc.pc = "closed" /\ orphan = {}

\* A starting client: prepareRestart parks whatever is unfinished.
OpenClient ==
  /\ Unlocked
  /\ proc' = [pc |-> IF file.stage \in {"none", "released"} THEN "begin" ELSE "restore",
              keep |-> TRUE, at |-> 1]
  /\ UNCHANGED <<file, net, cmd, orphan, sealed>>

\* clean-vpn-dns-recover --apply
OpenRecovery ==
  /\ Unlocked /\ file.stage # "none"
  /\ proc' = [pc |-> "restore", keep |-> FALSE, at |-> 1]
  /\ UNCHANGED <<file, net, cmd, orphan, sealed>>

-----------------------------------------------------------------------------
(* restore({ keepHold }): gates up, operations down, gates down.           *)

Restore ==
  /\ At("restore") /\ Audit
  /\ IF file.stage = "released" /\ ~proc.keep
       THEN proc' = Closed /\ UNCHANGED file
       ELSE /\ Save("restoring", file.count, file.hold)
            /\ proc' = [proc EXCEPT !.pc = "hold", !.at = 1]
  /\ UNCHANGED <<net, cmd, orphan, sealed>>

\* ensureHold: the claim is saved before the gate is put up.
EnsureHold ==
  /\ At("hold")
  /\ Save(file.stage, file.count, Max2(file.hold, proc.at))
  /\ AddIfAbsent(<<"gate", proc.at>>)
  /\ Go("holding")
  /\ UNCHANGED <<net, orphan, sealed>>

\* Broken: takes the gates the file claims for gates that are up.
HoldReadBackTrusting ==
  /\ At("holding") /\ Audit
  /\ <<"gate", proc.at>> \in net
  /\ proc' = IF file.hold < NHold THEN [proc EXCEPT !.pc = "hold", !.at = proc.at + 1]
                                  ELSE [proc EXCEPT !.pc = "rollback"]
  /\ UNCHANGED <<file, net, cmd, orphan, sealed>>

HoldReadBack ==
  /\ At("holding") /\ Audit
  /\ <<"gate", proc.at>> \in net
  /\ proc' = IF proc.at < NHold THEN [proc EXCEPT !.pc = "hold", !.at = proc.at + 1]
                                ELSE [proc EXCEPT !.pc = "rollback"]
  /\ UNCHANGED <<file, net, cmd, orphan, sealed>>

Rollback ==
  /\ At("rollback") /\ file.count > 0
  /\ RemoveIfPresent(<<"op", file.count>>)
  /\ Go("undoing")
  /\ UNCHANGED <<file, net, orphan, sealed>>

Undone ==
  /\ At("undoing") /\ Audit
  /\ <<"op", file.count>> \notin net
  /\ Save(file.stage, file.count - 1, file.hold)
  /\ Go("rollback")
  /\ UNCHANGED <<net, cmd, orphan, sealed>>

Park ==
  /\ At("rollback") /\ file.count = 0 /\ proc.keep
  /\ Save("parked", 0, file.hold)
  /\ Go("begin")
  /\ UNCHANGED <<net, cmd, orphan, sealed>>

\* Broken: does not wait for the rollback.
OpenGatesAnyCount ==
  /\ At("rollback") /\ ~proc.keep /\ Audit
  /\ Go("unhold")
  /\ sealed' = FALSE
  /\ UNCHANGED <<file, net, cmd, orphan>>

\* The conntrack entries are reset; from here on DNS is being opened.
OpenGates ==
  /\ At("rollback") /\ file.count = 0 /\ ~proc.keep /\ Audit
  /\ Go("unhold")
  /\ sealed' = FALSE
  /\ UNCHANGED <<file, net, cmd, orphan>>

\* removeHold, of a restore and of activate: the gate goes before its claim.
RemoveHold ==
  /\ At("unhold") /\ file.hold > 0
  /\ RemoveIfPresent(<<"gate", file.hold>>)
  /\ Go("unholding")
  /\ UNCHANGED <<file, net, orphan, sealed>>

HoldRemoved ==
  /\ At("unholding") /\ Audit
  /\ <<"gate", file.hold>> \notin net
  /\ Save(file.stage, file.count, file.hold - 1)
  /\ Go("unhold")
  /\ UNCHANGED <<net, cmd, orphan, sealed>>

Released ==
  /\ At("unhold") /\ file.hold = 0 /\ file.stage = "restoring"
  /\ Save("released", file.count, 0)
  /\ proc' = Closed
  /\ UNCHANGED <<net, cmd, orphan, sealed>>

-----------------------------------------------------------------------------
(* The client: begin, the stages of the plan, activate.                    *)

ForgottenHold == 0   \* broken
KeptHold == IF file.stage = "parked" THEN file.hold ELSE 0

Begin ==
  /\ At("begin") /\ file.stage \in {"none", "released", "parked"}
  /\ net \subseteq (IF file.stage = "parked" THEN Gates ELSE {})
  /\ Save("installing", 0, KeptHold)
  /\ Go("apply")
  /\ UNCHANGED <<net, cmd, orphan, sealed>>

\* applyStage: the claim is saved before the operation is run.
Apply ==
  /\ At("apply") /\ file.stage = "installing" /\ Audit
  /\ <<"op", file.count + 1>> \notin net
  /\ Save(file.stage, file.count + 1, file.hold)
  /\ cmd' = {[do |-> "add", item |-> <<"op", file.count + 1>>]}
  /\ Go("applying")
  /\ UNCHANGED <<net, orphan, sealed>>

Applied ==
  /\ At("applying") /\ Audit
  /\ <<"op", file.count>> \in net
  /\ Go(CASE file.count = NGuard + NRoute -> "stub"
          [] file.count = NOps            -> "activate"
          [] OTHER                        -> "apply")
  /\ UNCHANGED <<file, net, cmd, orphan, sealed>>

\* startTunnelDnsRuntime's await of the stub, then the runtime's activate().
StubReady ==
  /\ At("stub")
  /\ Go("apply")
  /\ UNCHANGED <<file, net, cmd, orphan, sealed>>

Activate ==
  /\ At("activate") /\ file.stage = "installing" /\ file.count = NOps /\ Audit
  /\ Ops \subseteq net
  /\ Go("unhold")
  /\ UNCHANGED <<file, net, cmd, orphan, sealed>>

Activated ==
  /\ At("unhold") /\ file.hold = 0 /\ file.stage = "installing"
  /\ Save("active", file.count, 0)
  /\ Go("running")
  /\ sealed' = TRUE
  /\ UNCHANGED <<net, cmd, orphan>>

\* finishNetwork with code 0: close({ restore: true }), or restore() of a journal that
\* was parked and not begun.
Stop ==
  /\ At("running") \/ At("stub") \/ (At("begin") /\ file.stage = "parked")
  /\ proc' = [pc |-> "restore", keep |-> FALSE, at |-> 1]
  /\ UNCHANGED <<file, net, cmd, orphan, sealed>>

-----------------------------------------------------------------------------
(* Commands and what interrupts them.                                      *)

\* Adding what exists and deleting what does not are errors of iptables and ip.
Effect(c) ==
  /\ c.do = "add" <=> c.item \notin net
  /\ net' = IF c.do = "add" THEN net \cup {c.item} ELSE net \ {c.item}

CommandDone ==
  /\ \E c \in cmd : Effect(c)
  /\ cmd' = {}
  /\ UNCHANGED <<file, proc, orphan, sealed>>

\* An orphan ends, with its effect or without; nothing is added on a TUN that is gone.
OrphanEnds ==
  /\ \E c \in orphan : (Effect(c) /\ c.item \notin TunItems) \/ UNCHANGED net
  /\ orphan' = {}
  /\ UNCHANGED <<file, proc, cmd, sealed>>

\* A call throws (its command failed or was killed at its timeout, the deadline, a
\* refusal), or the client stops with an error: the journal is kept and the TUN goes.
Fail ==
  /\ proc.pc # "closed"
  /\ proc' = Closed
  /\ cmd' = {}
  /\ net' = net \ TunItems
  /\ UNCHANGED <<file, orphan, sealed>>

\* SIGKILL: the command runs on and keeps the lock.
Crash ==
  /\ cmd # {}
  /\ proc' = Closed
  /\ cmd' = {} /\ orphan' = cmd
  /\ net' = net \ TunItems
  /\ UNCHANGED <<file, sealed>>

-----------------------------------------------------------------------------
Opens   == OpenClient \/ OpenRecovery
Steps   == \/ Restore \/ EnsureHold \/ HoldReadBack \/ Rollback \/ Undone \/ Park
           \/ OpenGates \/ RemoveHold \/ HoldRemoved \/ Released
           \/ Begin \/ Apply \/ Applied \/ StubReady \/ Activate \/ Activated
Ends    == CommandDone \/ OrphanEnds
Interrupted == Fail \/ Crash

Next == Opens \/ Steps \/ Stop \/ Ends \/ Interrupted

Spec == Init /\ [][Next]_vars

\* A process goes on, a command ends, and somebody opens the journal again: the
\* service manager restarts the client, or the operator runs the recovery.
FairSpec == Spec /\ WF_vars(Steps) /\ WF_vars(Ends) /\ WF_vars(Opens)

-----------------------------------------------------------------------------
\* Whatever a killed or failed process left in the network namespace, also by a
\* command that outlived it, is claimed by the journal on disk (audit: "foreign
\* tunnel DNS network state"), so that a later recovery removes it all.
Owned == net \subseteq Claimed

\* No save is refused: the counts that restore, begin and activate leave in the file go
\* with its stage the way validateTunnelDnsJournal demands (a refused save throws out of
\* a rollback, and a refused file locks everybody out).
ValidJournal ==
  /\ file.stage = "active" => file.count = NOps /\ file.hold = 0
  /\ file.stage \in {"released", "parked"} => file.count = 0
  /\ file.stage = "released" => file.hold = 0
  /\ file.stage = "parked" => file.hold = NHold

\* Every journal on disk can be read and saved again, and no count leaves its plan.
JournalInv == TypeOK /\ ValidJournal

\* Once DNS is captured it does not leave directly until a restore has rolled the
\* plan back: through crashes, restarts and failed recoveries the guard rules or all
\* gates of the hold are up ("Temporary closed gate during restart/rollback").
NoDirectDns == sealed => Guards \subseteq net \/ Gates \subseteq net

\* A rollback never gets stuck on what an interruption left: once processes are no
\* longer interrupted, a journal that says restoring is parked or released.
RecoveryCompletes ==
  <>[][~Interrupted]_vars
    => (file.stage = "restoring" ~> file.stage \in {"parked", "released"})

\* The journal is a write-ahead claim on the network state.
Journal == INSTANCE OwnedState WITH claimed <- Claimed, present <- net
JournalSpec == Journal!Spec
=============================================================================
