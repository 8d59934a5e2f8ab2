---------------------------- MODULE VpnClientProofs ----------------------------
(***************************************************************************)
(* For plans and holds of any length: that the two journals of clean-vpn,  *)
(* TunnelDns and Ingress (I), keep their shape, own what the host has,     *)
(* implement OwnedState and keep what they closed closed; that the client  *)
(* drives both by their own steps; and that it opens its ingress only over *)
(* protected DNS.                                                          *)
(***************************************************************************)
EXTENDS VpnClient, TLAPS

(* The tunnel DNS journal.                                                 *)

\* Where a process may wait for a command.
Waiting == {"holding", "undoing", "unholding", "applying"}

\* How the counts in the file go with its stage and with where the process is; who
\* may have a command under way.
DnsShape ==
  /\ cmd # {} => proc.pc \in Waiting
  /\ orphan # {} => proc.pc = "closed"
  /\ file.stage = "none" => file.count = 0 /\ file.hold = 0
  /\ ValidJournal
  /\ proc.pc \in {"hold", "holding", "rollback", "undoing"} => file.stage = "restoring"
  /\ proc.pc \in {"rollback", "undoing"} => file.hold = NHold
  /\ proc.pc \in {"unhold", "unholding"} =>
       \/ file.stage = "installing" /\ file.count = NOps
       \/ file.stage = "restoring" /\ file.count = 0
  /\ proc.pc = "hold" => proc.at <= file.hold + 1
  /\ proc.pc = "holding" => proc.at <= file.hold
  /\ proc.pc = "undoing" => file.count > 0
  /\ proc.pc = "unholding" => file.hold > 0
  /\ proc.pc = "apply" => file.count < NOps
  /\ proc.pc = "stub" => file.count = NGuard + NRoute
  /\ proc.pc = "begin" => file.stage \in {"none", "released", "parked"}
  /\ proc.pc = "running" => sealed

\* Only claimed items are being installed.
DnsAdds == \A c \in cmd \cup orphan : c.do = "add" => c.item \in Claimed

\* An operation is removed behind all gates, a gate of captured DNS behind the guard
\* rules; so too by a command that has outlived its process.
DnsDels ==
  \A c \in cmd \cup orphan : c.do = "del" =>
    /\ c.item \in Ops => Gates \subseteq net
    /\ c.item \in Gates /\ sealed => Guards \subseteq net

\* What the command does that a process waits for.
DnsAwaited ==
  /\ proc.pc \in {"holding", "applying"} => \A c \in cmd : c.do = "add"
  /\ proc.pc = "undoing" => \A c \in cmd : c.item \in Ops
  /\ proc.pc = "unholding" => \A c \in cmd : c.item \in Gates

\* What is up at each point of a restore and of an activation.
DnsGated ==
  /\ proc.pc \in {"hold", "holding"} => \A i \in 1 .. proc.at - 1 : <<"gate", i>> \in net
  /\ proc.pc \in {"rollback", "undoing"} => Gates \subseteq net
  /\ proc.pc \in {"unhold", "unholding"} =>
       IF file.stage = "installing" THEN Guards \subseteq net ELSE ~sealed

DnsShapeInv == TypeOK /\ DnsShape
DnsSealInv  == DnsDels /\ DnsAwaited /\ DnsGated /\ NoDirectDns

-----------------------------------------------------------------------------
(* The same of the ingress journal.                                        *)

\* How the counts in the file go with its stage, with the call the process is in and with
\* where it is; who may have a command under way.
InShape ==
  /\ iCmd # {} => iProc.pc \in Waiting
  /\ iOrphan # {} => iProc.pc = "closed"
  /\ iFile.stage = "none" =>
       iFile.count = 0 /\ iFile.hold = -1 /\ iProc.pc \in {"closed", "prepare", "begin"}
  /\ iFile.stage = "released" => iFile.count = 0
  /\ iProc.pc \in {"hold", "holding"} => iProc.call = "begin" \/ I!Keep
  /\ iProc.pc \in {"hold", "holding"} /\ iProc.call = "begin" => iFile.count = 0
  /\ iProc.pc \in {"rollback", "undoing"} => iFile.stage = "restoring"
  /\ iProc.pc \in {"unhold", "unholding"} /\ iProc.call # "activate" => iFile.count = 0
  /\ iProc.pc = "hold" => iProc.at <= iFile.hold + 1 \/ (iProc.at = 1 /\ iFile.hold = -1)
  /\ iProc.pc = "holding" => iProc.at <= iFile.hold
  /\ iProc.pc = "undoing" => iFile.count > 0
  /\ iProc.pc = "unholding" => iFile.hold > 0
  /\ iProc.pc = "applying" => iFile.count > 0
  /\ iProc.call = "activate" => iProc.pc \in {"unhold", "unholding", "running", "closed"}

\* Only claimed items are being installed.
InAdds == \A c \in iCmd \cup iOrphan : c.do = "add" => c.item \in I!Claimed

\* Of closed forwarding, an operation is removed behind all gates and a gate behind the
\* chain of the plan.
InDels ==
  \A c \in iCmd \cup iOrphan : c.do = "del" /\ iSealed =>
    /\ c.item \in I!Ops => I!Gates \subseteq iNet
    /\ c.item \in I!Gates => I!Guards \subseteq iNet

\* What the command does that a process waits for.
InAwaited ==
  /\ iProc.pc \in {"holding", "applying"} => \A c \in iCmd : c.do = "add"
  /\ iProc.pc = "undoing" => \A c \in iCmd : c.item \in I!Ops
  /\ iProc.pc = "unholding" => \A c \in iCmd : c.item \in I!Gates

\* What is up at each point of a restore, of an installation and of an activation.
Has(count) == {"op"} \X (1 .. count) \subseteq iNet \cup I!SameItems

InGated ==
  /\ iProc.pc \in {"hold", "holding"} => \A i \in 1 .. iProc.at - 1 : <<"gate", i>> \in iNet
  /\ iProc.pc \in {"rollback", "undoing"} =>
       IF I!Keep THEN I!Gates \subseteq iNet ELSE ~iSealed
  /\ iProc.pc \in {"apply", "installed", "running"} => Has(iFile.count)
  /\ iProc.pc = "applying" => Has(iFile.count - 1)
  /\ iProc.pc \in {"unhold", "unholding"} =>
       IF iProc.call = "activate" THEN Has(iFile.count) /\ I!Guards \subseteq iNet ELSE ~iSealed

InShapeInv == I!TypeOK /\ InShape
InSealInv  == InDels /\ InAwaited /\ InGated /\ I!NoDirectForward

(* The client.                                                             *)

\* While a restart-safe client opens its ingress, the DNS runtime is active.
OpenedOverDns == client = "up" /\ iProc.call = "activate" => proc.pc = "running"

-----------------------------------------------------------------------------
\* How the lengths of the plan's stages compare.
LEMMA DnsPlanFacts ==
  /\ NOps \in Nat /\ NHold \in Nat \ {0}
  /\ NGuard \in 1 .. NOps /\ NGuard + NRoute \in 1 .. NOps - 1
BY PlanAssumption DEF NOps

\* An empty journal that nobody holds has the shape.
LEMMA DnsShapeInit == Init => DnsShapeInv
<1> SUFFICES ASSUME Init PROVE DnsShapeInv
  OBVIOUS
<1> USE DnsPlanFacts DEF Init
<1>1. file \in [stage : Stages, count : 0 .. NOps, hold : 0 .. NHold]
  BY DEF Stages
<1>2. proc \in [pc : Points, keep : BOOLEAN, at : 1 .. NHold]
  BY DEF Points
<1>3. DnsShape
  BY DEF DnsShape, ValidJournal
<1> QED
  BY <1>1, <1>2, <1>3 DEF DnsShapeInv, TypeOK

\* Every step of the journal keeps types and shape.
LEMMA DnsShapeStep == DnsShapeInv /\ [Next]_vars => DnsShapeInv'
<1> SUFFICES ASSUME DnsShapeInv, [Next]_vars PROVE DnsShapeInv'
  OBVIOUS
<1> USE DnsPlanFacts DEF DnsShapeInv, TypeOK, DnsShape, ValidJournal, Stages, Points, Waiting, At, Go, Closed, Save
<1>1. CASE OpenClient
  BY <1>1 DEF OpenClient, Unlocked
<1>2. CASE OpenRecovery
  BY <1>2 DEF OpenRecovery, Unlocked
<1>3. CASE Restore
  <2>1. CASE file.stage = "released" /\ ~proc.keep
    BY <1>3, <2>1 DEF Restore
  <2>2. CASE ~(file.stage = "released" /\ ~proc.keep)
    <3>1. proc' = [pc |-> "hold", keep |-> proc.keep, at |-> 1]
      BY <1>3, <2>2 DEF Restore
    <3>2. file' = [stage |-> "restoring", count |-> file.count, hold |-> file.hold]
      BY <1>3, <2>2 DEF Restore
    <3> QED BY <1>3, <3>1, <3>2 DEF Restore
  <2> QED BY <2>1, <2>2
<1>4. CASE EnsureHold
  BY <1>4 DEF EnsureHold, AddIfAbsent, Max2, Commands, Item, Gates
<1>5. CASE HoldReadBack
  <2>1. CASE proc.at < NHold
    <3>1. proc' = [pc |-> "hold", keep |-> proc.keep, at |-> proc.at + 1]
      BY <1>5, <2>1 DEF HoldReadBack
    <3> QED BY <1>5, <3>1 DEF HoldReadBack
  <2>2. CASE ~(proc.at < NHold)
    BY <1>5, <2>2 DEF HoldReadBack
  <2> QED BY <2>1, <2>2
<1>6. CASE Rollback
  BY <1>6 DEF Rollback, RemoveIfPresent, Commands, Item, Ops
<1>7. CASE Undone
  BY <1>7 DEF Undone
<1>8. CASE Park
  BY <1>8 DEF Park
<1>9. CASE OpenGates
  BY <1>9 DEF OpenGates
<1>10. CASE RemoveHold
  BY <1>10 DEF RemoveHold, RemoveIfPresent, Commands, Item, Gates
<1>11. CASE HoldRemoved
  BY <1>11 DEF HoldRemoved
<1>12. CASE Released
  BY <1>12 DEF Released
<1>13. CASE Begin
  BY <1>13 DEF Begin, KeptHold
<1>14. CASE Apply
  BY <1>14 DEF Apply, Commands, Item, Ops
<1>15. CASE Applied
  BY <1>15 DEF Applied
<1>16. CASE StubReady
  BY <1>16 DEF StubReady
<1>17. CASE Activate
  BY <1>17 DEF Activate
<1>18. CASE Activated
  BY <1>18 DEF Activated
<1>19. CASE Stop
  BY <1>19 DEF Stop
<1>20. CASE CommandDone
  BY <1>20 DEF CommandDone, Effect, Commands, Item
<1>21. CASE OrphanEnds
  BY <1>21 DEF OrphanEnds, Effect, Commands, Item
<1>22. CASE Fail
  BY <1>22 DEF Fail
<1>23. CASE Crash
  BY <1>23 DEF Crash
<1>24. CASE UNCHANGED vars
  BY <1>24 DEF vars
<1> QED
  BY <1>1, <1>2, <1>3, <1>4, <1>5, <1>6, <1>7, <1>8, <1>9, <1>10, <1>11, <1>12, <1>13, <1>14, <1>15, <1>16, <1>17, <1>18, <1>19, <1>20, <1>21, <1>22, <1>23, <1>24
     DEF Next, Opens, Steps, Ends, Interrupted

-----------------------------------------------------------------------------
\* A count that goes up by one adds one pair.
LEMMA OneMore ==
  ASSUME NEW k, NEW n \in Nat
  PROVE  /\ {k} \X (1 .. n + 1) = ({k} \X (1 .. n)) \cup {<<k, n + 1>>}
         /\ <<k, n + 1>> \notin {k} \X (1 .. n)
<1>1. 1 .. n + 1 = (1 .. n) \cup {n + 1} /\ n + 1 \notin 1 .. n
  OBVIOUS
<1> QED BY <1>1

\* What is claimed depends on the counts only.
LEMMA DnsSameCounts ==
  ASSUME file'.count = file.count, file'.hold = file.hold
  PROVE  Claimed' = Claimed
BY DEF Claimed

\* The counts as numbers.
LEMMA DnsCountTypes ==
  ASSUME DnsShapeInv
  PROVE  file.count \in 0 .. NOps /\ file.hold \in 0 .. NHold /\ proc.at \in 1 .. NHold
BY DEF DnsShapeInv, TypeOK

\* ensureHold claims the gate it puts up, and nothing but that gate.
LEMMA DnsHoldClaims ==
  ASSUME DnsShapeInv, EnsureHold
  PROVE  /\ <<"gate", proc.at>> \in Claimed'
         /\ Claimed' = Claimed \/ Claimed' = Claimed \cup {<<"gate", proc.at>>}
<1>1. file'.count = file.count /\ file'.hold = Max2(file.hold, proc.at)
  BY DEF EnsureHold, Save
<1>2. file.hold \in Nat /\ proc.at \in Nat \ {0} /\ proc.at <= file.hold + 1
  BY DnsCountTypes, DnsPlanFacts DEF EnsureHold, At, DnsShapeInv, DnsShape
<1>3. CASE proc.at <= file.hold
  <2>1. file'.hold = file.hold
    BY <1>1, <1>2, <1>3 DEF Max2
  <2> QED BY <1>1, <1>2, <1>3, <2>1 DEF Claimed
<1>4. CASE proc.at = file.hold + 1
  <2>1. file'.hold = file.hold + 1
    BY <1>1, <1>2, <1>4 DEF Max2
  <2> QED BY <1>1, <1>2, <1>4, <2>1, OneMore DEF Claimed
<1> QED BY <1>2, <1>3, <1>4

\* applyStage claims the operation it runs.
LEMMA DnsApplyClaims ==
  ASSUME DnsShapeInv, Apply
  PROVE  Claimed' = Claimed \cup {<<"op", file.count + 1>>}
BY DnsCountTypes, DnsPlanFacts, OneMore DEF Apply, Save, Claimed

\* The steps that leave the counts and the host alone.
DnsStill ==
  \/ OpenClient \/ OpenRecovery \/ Restore \/ HoldReadBack \/ Rollback \/ Park \/ OpenGates
  \/ RemoveHold \/ Released \/ Begin \/ Applied \/ StubReady \/ Activate \/ Activated \/ Stop
  \/ UNCHANGED vars

\* They do leave them alone: begin() too, which writes a count of 0 over 0.
LEMMA DnsStillCounts ==
  ASSUME DnsShapeInv, DnsStill
  PROVE  file'.count = file.count /\ file'.hold = file.hold /\ net' = net
<1>1. CASE Begin
  BY <1>1 DEF Begin, Save, KeptHold, At, DnsShapeInv, DnsShape, ValidJournal
<1>2. CASE Park \/ Released \/ Activated
  BY <1>2 DEF Park, Released, Activated, Save, At
<1>3. CASE Restore
  BY <1>3 DEF Restore, Save
<1>4. CASE \/ OpenClient \/ OpenRecovery \/ HoldReadBack \/ Rollback \/ OpenGates \/ RemoveHold
           \/ Applied \/ StubReady \/ Activate \/ Stop \/ UNCHANGED vars
  BY <1>4 DEF OpenClient, OpenRecovery, HoldReadBack, Rollback, OpenGates, RemoveHold, Applied,
              StubReady, Activate, Stop, vars
<1> QED BY <1>1, <1>2, <1>3, <1>4 DEF DnsStill

\* A command that has been started by such a step is a removal.
LEMMA DnsStillAdds ==
  ASSUME DnsAdds, DnsStill
  PROVE  \A c \in cmd' \cup orphan' : c.do = "add" => c \in cmd \cup orphan
<1>1. CASE Rollback \/ RemoveHold
  BY <1>1 DEF Rollback, RemoveHold, RemoveIfPresent
<1>2. CASE \/ OpenClient \/ OpenRecovery \/ Restore \/ HoldReadBack \/ Park \/ OpenGates \/ Released
           \/ Begin \/ Applied \/ StubReady \/ Activate \/ Activated \/ Stop \/ UNCHANGED vars
  <2>1. cmd' = cmd /\ orphan' = orphan
    BY <1>2 DEF OpenClient, OpenRecovery, Restore, HoldReadBack, Park, OpenGates, Released, Begin,
                Applied, StubReady, Activate, Activated, Stop, vars
  <2> QED BY <2>1
<1> QED BY <1>1, <1>2 DEF DnsStill

\* While a command is under way, and while an orphan is, the file does not change.
LEMMA DnsNoneElse ==
  ASSUME DnsShapeInv, NEW point \in Points \ {"closed"}, At(point)
  PROVE  cmd = {} /\ orphan = {}
BY DEF DnsShapeInv, DnsShape, At

\* Every step keeps it that only claimed items are being installed.
LEMMA DnsAddsStep == DnsShapeInv /\ DnsAdds /\ [Next]_vars => DnsAdds'
<1> SUFFICES ASSUME DnsShapeInv, DnsAdds, [Next]_vars PROVE DnsAdds'
  OBVIOUS
<1>1. CASE DnsStill
  BY <1>1, DnsStillCounts, DnsStillAdds, DnsSameCounts DEF DnsAdds
<1>2. CASE EnsureHold
  <2>1. orphan' = {}
    BY <1>2, DnsNoneElse DEF EnsureHold, Points
  <2> QED BY <1>2, <2>1, DnsHoldClaims DEF DnsAdds, EnsureHold, AddIfAbsent
<1>3. CASE Apply
  <2>1. orphan' = {}
    BY <1>3, DnsNoneElse DEF Apply, Points
  <2> QED BY <1>3, <2>1, DnsApplyClaims DEF DnsAdds, Apply
<1>4. CASE Undone \/ HoldRemoved
  <2>1. cmd' = {} /\ orphan' = {}
    BY <1>4, DnsNoneElse DEF Undone, HoldRemoved, Points, At
  <2> QED BY <2>1 DEF DnsAdds
<1>5. CASE CommandDone \/ OrphanEnds \/ Fail \/ Crash
  <2>1. file' = file /\ cmd' \cup orphan' \subseteq cmd \cup orphan
    BY <1>5 DEF CommandDone, OrphanEnds, Fail, Crash
  <2> QED BY <2>1, DnsSameCounts DEF DnsAdds
<1> QED
  BY <1>1, <1>2, <1>3, <1>4, <1>5 DEF Next, Opens, Steps, Ends, Interrupted, DnsStill

\* Every step is one of OwnedState's, or none.
LEMMA DnsJournalStep == DnsShapeInv /\ DnsAdds /\ [Next]_vars => [Journal!Next]_(Journal!vars)
<1> SUFFICES ASSUME DnsShapeInv, DnsAdds, [Next]_vars PROVE [Journal!Next]_(Journal!vars)
  OBVIOUS
<1>1. CASE DnsStill
  BY <1>1, DnsStillCounts, DnsSameCounts DEF Journal!vars
<1>2. CASE EnsureHold
  <2>1. net' = net /\ <<"gate", proc.at>> \in Item
    BY <1>2, DnsCountTypes DEF EnsureHold, Item, Gates
  <2>2. CASE Claimed' = Claimed
    BY <2>1, <2>2 DEF Journal!vars
  <2>3. CASE Claimed' # Claimed
    BY <1>2, <2>1, <2>3, DnsHoldClaims DEF Journal!Next, Journal!Claim
  <2> QED BY <2>2, <2>3
<1>3. CASE Apply
  <2>1. file.count < NOps /\ net' = net
    BY <1>3 DEF Apply, At, DnsShapeInv, DnsShape
  <2>2. <<"op", file.count + 1>> \in Item \ Claimed
    BY <2>1, DnsCountTypes, DnsPlanFacts, OneMore DEF Item, Ops, Claimed
  <2> QED BY <1>3, <2>1, <2>2, DnsApplyClaims DEF Journal!Next, Journal!Claim
<1>4. CASE Undone
  <2>1. file.count \in Nat \ {0} /\ net' = net /\ <<"op", file.count>> \notin net
    BY <1>4, DnsCountTypes, DnsPlanFacts DEF Undone, At, DnsShapeInv, DnsShape
  <2>2. <<"op", file.count>> \in Claimed /\ Claimed' = Claimed \ {<<"op", file.count>>}
    BY <1>4, <2>1, OneMore DEF Undone, Save, Claimed
  <2> QED BY <2>1, <2>2 DEF Journal!Next, Journal!Disclaim
<1>5. CASE HoldRemoved
  <2>1. file.hold \in Nat \ {0} /\ net' = net /\ <<"gate", file.hold>> \notin net
    BY <1>5, DnsCountTypes, DnsPlanFacts DEF HoldRemoved, At, DnsShapeInv, DnsShape
  <2>2. <<"gate", file.hold>> \in Claimed /\ Claimed' = Claimed \ {<<"gate", file.hold>>}
    BY <1>5, <2>1, OneMore DEF HoldRemoved, Save, Claimed
  <2> QED BY <2>1, <2>2 DEF Journal!Next, Journal!Disclaim
<1>6. CASE CommandDone \/ OrphanEnds
  <2>1. Claimed' = Claimed
    BY <1>6, DnsSameCounts DEF CommandDone, OrphanEnds
  <2>2. PICK c \in cmd \cup orphan : Effect(c) \/ UNCHANGED net
    BY <1>6 DEF CommandDone, OrphanEnds
  <2>3. CASE Effect(c) /\ c.do = "add"
    BY <2>1, <2>3 DEF Effect, DnsAdds, Journal!Next, Journal!Install
  <2>4. CASE (Effect(c) /\ c.do # "add") \/ UNCHANGED net
    BY <2>1, <2>4 DEF Effect, Journal!Next, Journal!Remove
  <2> QED BY <2>2, <2>3, <2>4
<1>7. CASE Fail \/ Crash
  <2>1. Claimed' = Claimed /\ net' \subseteq net
    BY <1>7, DnsSameCounts DEF Fail, Crash
  <2> QED BY <2>1 DEF Journal!Next, Journal!Remove
<1> QED
  BY <1>1, <1>2, <1>3, <1>4, <1>5, <1>6, <1>7 DEF Next, Opens, Steps, Ends, Interrupted, DnsStill

\* OwnedState's steps keep what is present claimed.
LEMMA DnsOwnedStep == Owned /\ [Journal!Next]_(Journal!vars) => Owned'
BY DEF Owned, Journal!Next, Journal!Claim, Journal!Install, Journal!Remove, Journal!Disclaim,
       Journal!vars

-----------------------------------------------------------------------------
\* Guard rules and gates do not go with the TUN device, and there are some.
LEMMA DnsGuardsAndGates ==
  /\ Guards \subseteq Ops /\ Guards \cap TunItems = {} /\ Gates \cap TunItems = {}
  /\ Ops \cap Gates = {}
BY PlanAssumption DEF Guards, Ops, Gates, TunItems, NOps

\* The steps that neither change the host nor start or end a command, nor open DNS.
DnsQuiet ==
  \/ OpenClient \/ OpenRecovery \/ Restore \/ Park \/ Released \/ Begin \/ Applied
  \/ StubReady \/ Stop \/ Undone \/ HoldRemoved \/ UNCHANGED vars

\* Every step keeps captured DNS behind the guard rules or behind all gates.
LEMMA DnsSealStep == DnsShapeInv /\ DnsSealInv /\ [Next]_vars => DnsSealInv'
<1> SUFFICES ASSUME DnsShapeInv, DnsSealInv, [Next]_vars PROVE DnsSealInv'
  OBVIOUS
<1> USE DEF DnsSealInv, DnsDels, DnsAwaited, DnsGated, NoDirectDns
<1>1. CASE DnsQuiet
  <2>1. net' = net /\ cmd' = cmd /\ orphan' = orphan /\ sealed' = sealed
    BY <1>1 DEF DnsQuiet, OpenClient, OpenRecovery, Restore, Park, Released, Begin, Applied, StubReady,
                Stop, Undone, HoldRemoved, vars
  <2>2. DnsDels' /\ NoDirectDns'
    BY <2>1
  <2>3. DnsAwaited' /\ DnsGated'
    <3>1. CASE OpenClient \/ OpenRecovery \/ Park \/ Released \/ Begin \/ Applied \/ StubReady \/ Stop
      <4>1. proc'.pc \in {"begin", "restore", "closed", "stub", "activate", "apply"}
        BY <3>1 DEF OpenClient, OpenRecovery, Park, Released, Begin, Applied, StubReady, Stop, Go,
                    Closed, DnsShapeInv, TypeOK
      <4> QED BY <4>1
    <3>2. CASE Restore
      <4>1. proc'.pc = "closed" \/ (proc'.pc = "hold" /\ proc'.at = 1)
        BY <3>2 DEF Restore, Closed, DnsShapeInv, TypeOK
      <4> QED BY <4>1
    <3>3. CASE Undone
      <4>1. proc.pc = "undoing" /\ proc'.pc = "rollback"
        BY <3>3 DEF Undone, At, Go, DnsShapeInv, TypeOK
      <4> QED BY <2>1, <4>1
    <3>4. CASE HoldRemoved
      <4>1. proc.pc = "unholding" /\ proc'.pc = "unhold" /\ file'.stage = file.stage
        BY <3>4 DEF HoldRemoved, At, Go, Save, DnsShapeInv, TypeOK
      <4> QED BY <2>1, <4>1
    <3>5. CASE UNCHANGED vars
      BY <3>5, <2>1 DEF vars
    <3> QED BY <1>1, <3>1, <3>2, <3>3, <3>4, <3>5 DEF DnsQuiet
  <2> QED BY <2>2, <2>3
<1>2. CASE EnsureHold
  <2>1. /\ proc.pc = "hold" /\ proc'.pc = "holding" /\ proc'.at = proc.at
        /\ net' = net /\ sealed' = sealed
    BY <1>2 DEF EnsureHold, At, Go, DnsShapeInv, TypeOK
  <2>2. orphan' = {} /\ \A c \in cmd' : c.do = "add"
    BY <1>2, DnsNoneElse DEF EnsureHold, AddIfAbsent, Points
  <2> QED BY <2>1, <2>2
<1>3. CASE HoldReadBack
  <2>1. /\ proc.pc = "holding" /\ <<"gate", proc.at>> \in net /\ cmd' = {} /\ orphan' = {}
        /\ net' = net /\ sealed' = sealed
    BY <1>3, DnsNoneElse DEF HoldReadBack, At, Points
  <2>2. ASSUME NEW i \in 1 .. proc.at PROVE <<"gate", i>> \in net
    <3>1. proc.at \in Nat /\ (i = proc.at \/ i \in 1 .. proc.at - 1)
      BY DnsCountTypes, DnsPlanFacts
    <3> QED BY <2>1, <3>1
  <2>3. CASE proc.at < NHold
    <3>1. proc'.pc = "hold" /\ proc'.at = proc.at + 1
      BY <1>3, <2>3 DEF HoldReadBack, DnsShapeInv, TypeOK
    <3> QED BY <2>1, <2>2, <3>1, DnsCountTypes, DnsPlanFacts
  <2>4. CASE ~(proc.at < NHold)
    <3>1. proc'.pc = "rollback"
      BY <1>3, <2>4 DEF HoldReadBack, DnsShapeInv, TypeOK
    <3>2. proc.at = NHold
      BY <2>4, DnsCountTypes, DnsPlanFacts
    <3>3. Gates \subseteq net
      BY <2>2, <3>2 DEF Gates
    <3> QED BY <2>1, <3>1, <3>3
  <2> QED BY <2>3, <2>4
<1>4. CASE Rollback
  <2>1. /\ proc.pc = "rollback" /\ proc'.pc = "undoing" /\ orphan' = {}
        /\ net' = net /\ sealed' = sealed
    BY <1>4, DnsNoneElse DEF Rollback, At, Go, Points, DnsShapeInv, TypeOK
  <2>2. \A c \in cmd' : c.item \in Ops
    BY <1>4, DnsCountTypes, DnsPlanFacts DEF Rollback, RemoveIfPresent, Ops
  <2> QED BY <2>1, <2>2, DnsGuardsAndGates
<1>5. CASE OpenGates
  <2>1. /\ proc'.pc = "unhold" /\ cmd' = {} /\ orphan' = {} /\ file' = file
        /\ file.stage = "restoring" /\ sealed' = FALSE
    BY <1>5, DnsNoneElse DEF OpenGates, At, Go, Points, DnsShapeInv, TypeOK, DnsShape
  <2> QED BY <2>1
<1>6. CASE RemoveHold
  <2>1. /\ proc.pc = "unhold" /\ proc'.pc = "unholding" /\ orphan' = {} /\ file' = file
        /\ net' = net /\ sealed' = sealed
    BY <1>6, DnsNoneElse DEF RemoveHold, At, Go, Points, DnsShapeInv, TypeOK
  <2>2. \A c \in cmd' : c.item \in Gates
    BY <1>6, DnsCountTypes, DnsPlanFacts DEF RemoveHold, RemoveIfPresent, Gates
  <2> QED BY <2>1, <2>2, DnsGuardsAndGates
<1>7. CASE Apply
  <2>1. /\ proc'.pc = "applying" /\ orphan' = {} /\ net' = net /\ sealed' = sealed
        /\ \A c \in cmd' : c.do = "add"
    BY <1>7, DnsNoneElse DEF Apply, Go, Points, DnsShapeInv, TypeOK
  <2> QED BY <2>1
<1>8. CASE Activate
  <2>1. /\ proc'.pc = "unhold" /\ cmd' = {} /\ orphan' = {} /\ file' = file /\ net' = net
        /\ sealed' = sealed /\ file.stage = "installing" /\ Ops \subseteq net
    BY <1>8, DnsNoneElse DEF Activate, At, Go, Points, DnsShapeInv, TypeOK
  <2> QED BY <2>1, DnsGuardsAndGates
<1>9. CASE Activated
  <2>1. /\ proc.pc = "unhold" /\ proc'.pc = "running" /\ cmd' = {} /\ orphan' = {}
        /\ file.stage = "installing" /\ net' = net
    BY <1>9, DnsNoneElse DEF Activated, At, Go, Points, DnsShapeInv, TypeOK
  <2> QED BY <2>1
<1>10. CASE CommandDone
  <2>1. proc' = proc /\ file' = file /\ sealed' = sealed /\ cmd' = {} /\ orphan' = orphan
    BY <1>10 DEF CommandDone
  <2>2. PICK c \in cmd : Effect(c)
    BY <1>10 DEF CommandDone
  <2>3. orphan = {} /\ proc.pc \in Waiting /\ c.do \in {"add", "del"} /\ c.item \in Ops \cup Gates
    BY <2>2 DEF DnsShapeInv, DnsShape, TypeOK, Commands, Item, Waiting
  <2>4. CASE c.do = "add"
    <3>1. net \subseteq net'
      BY <2>2, <2>4 DEF Effect
    <3> QED BY <2>1, <2>3, <3>1
  <2>5. CASE c.do = "del" /\ c.item \in Ops
    <3>1. Gates \subseteq net /\ Gates \subseteq net' /\ proc.pc = "undoing"
      BY <2>2, <2>3, <2>5, DnsGuardsAndGates DEF Effect, Waiting
    <3> QED BY <2>1, <2>3, <3>1
  <2>6. CASE c.do = "del" /\ c.item \in Gates
    <3>1. proc.pc = "unholding"
      BY <2>2, <2>3, <2>6, DnsGuardsAndGates DEF Waiting
    <3>2. Guards \subseteq net => Guards \subseteq net'
      BY <2>2, <2>6, DnsGuardsAndGates DEF Effect
    <3>3. sealed => Guards \subseteq net
      BY <2>2, <2>6
    <3> QED BY <2>1, <2>3, <3>1, <3>2, <3>3
  <2> QED BY <2>3, <2>4, <2>5, <2>6
<1>11. CASE OrphanEnds
  <2>1. proc' = proc /\ sealed' = sealed /\ orphan' = {} /\ cmd' = cmd
    BY <1>11 DEF OrphanEnds
  <2>2. PICK c \in orphan : Effect(c) \/ UNCHANGED net
    BY <1>11 DEF OrphanEnds
  <2>3. cmd = {} /\ proc.pc = "closed" /\ c.do \in {"add", "del"} /\ c.item \in Ops \cup Gates
    BY <2>2 DEF DnsShapeInv, DnsShape, TypeOK, Commands, Item, Waiting
  <2>4. NoDirectDns'
    <3>1. CASE UNCHANGED net \/ (Effect(c) /\ c.do = "add")
      BY <2>1, <3>1 DEF Effect
    <3>2. CASE Effect(c) /\ c.do = "del" /\ c.item \in Ops
      BY <2>1, <2>2, <3>2, DnsGuardsAndGates DEF Effect
    <3>3. CASE Effect(c) /\ c.do = "del" /\ c.item \in Gates
      BY <2>1, <2>2, <3>3, DnsGuardsAndGates DEF Effect
    <3> QED BY <2>2, <2>3, <3>1, <3>2, <3>3
  <2> QED BY <2>1, <2>3, <2>4
<1>12. CASE Fail \/ Crash
  <2>1. /\ proc'.pc = "closed" /\ cmd' = {} /\ orphan' \subseteq cmd \cup orphan
        /\ net' = net \ TunItems /\ sealed' = sealed
    BY <1>12 DEF Fail, Crash, Closed, DnsShapeInv, TypeOK
  <2>2. /\ Gates \subseteq net => Gates \subseteq net'
        /\ Guards \subseteq net => Guards \subseteq net'
    BY <2>1, DnsGuardsAndGates
  <2> QED BY <2>1, <2>2
<1> QED
  BY <1>1, <1>2, <1>3, <1>4, <1>5, <1>6, <1>7, <1>8, <1>9, <1>10, <1>11, <1>12
     DEF Next, Opens, Steps, Ends, Interrupted, DnsQuiet

-----------------------------------------------------------------------------
\* What the DNS journal keeps, whoever drives it.
DnsInv == DnsShapeInv /\ DnsAdds /\ Owned /\ DnsSealInv

\* An empty journal that nobody holds has the invariant.
LEMMA DnsInit == Init => DnsInv
<1>1. Init => DnsAdds /\ Owned /\ DnsSealInv
  BY DEF Init, DnsAdds, Owned, DnsSealInv, DnsDels, DnsAwaited, DnsGated, NoDirectDns
<1> QED BY <1>1, DnsShapeInit DEF DnsInv

\* Every step of the DNS journal keeps its invariant.
LEMMA DnsInvStep == DnsInv /\ [Next]_vars => DnsInv'
BY DnsShapeStep, DnsAddsStep, DnsJournalStep, DnsOwnedStep, DnsSealStep DEF DnsInv

\* The inductive invariant of the DNS journal.
LEMMA DnsInvariant == Spec => []DnsInv
BY DnsInit, DnsInvStep, PTL DEF Spec

\* Every journal that is saved passes the validation of the next save and the next open, and
\* no count leaves its plan, whatever throws, is killed or is run again.
THEOREM DnsJournalValid == Spec => []JournalInv
<1>1. DnsInv => JournalInv
  BY DEF DnsInv, DnsShapeInv, DnsShape, JournalInv
<1> QED BY <1>1, DnsInvariant, PTL

\* dns-tunnel-journal.mjs implements OwnedState: an item is claimed on disk before it is
\* installed and given up only when it is gone.
THEOREM DnsJournalImplemented == Spec => JournalSpec
<1>1. Init => Journal!Init
  BY DEF Init, Journal!Init, Claimed
<1>2. DnsInv /\ [Next]_vars => [Journal!Next]_(Journal!vars)
  BY DnsJournalStep DEF DnsInv
<1> QED BY <1>1, <1>2, DnsInvariant, PTL DEF Spec, JournalSpec, Journal!Spec

\* Whatever interrupted processes and the commands that outlived them left in the
\* network namespace is claimed by the journal, for plans and holds of any length.
THEOREM DnsAlwaysOwned == Spec => []Owned
<1>1. DnsInv => Owned
  BY DEF DnsInv
<1> QED BY <1>1, DnsInvariant, PTL

\* Captured DNS does not leave directly until a restore has rolled the plan back: the
\* guard rules or all gates of the hold are up through every crash, restart and retry.
THEOREM DnsStaysClosed == Spec => []NoDirectDns
<1>1. DnsInv => NoDirectDns
  BY DEF DnsInv, DnsSealInv
<1> QED BY <1>1, DnsInvariant, PTL
-----------------------------------------------------------------------------
(* The ingress journal.                                                    *)

\* How the lengths of the ingress plan compare.
LEMMA InPlanFacts ==
  /\ InBase \in Nat /\ InHttps \in Nat /\ I!NAll \in Nat /\ I!NAll = InBase + InHttps
  /\ InHold \in Nat \ {0} /\ InGuard \in 1 .. InBase
BY IngressPlanAssumption DEF I!NAll

\* An empty journal that nobody holds has the shape.
LEMMA InShapeInit == I!Init => InShapeInv
<1> SUFFICES ASSUME I!Init PROVE InShapeInv
  OBVIOUS
<1> USE InPlanFacts DEF I!Init
<1>1. iFile \in [stage : I!Stages, count : 0 .. I!NAll, hold : -1 .. InHold, port : BOOLEAN]
  BY DEF I!Stages
<1>2. iProc \in [pc : I!Points, call : I!Calls, at : 1 .. InHold, safe : BOOLEAN, open : BOOLEAN]
  BY DEF I!Points, I!Calls
<1>3. InShape
  BY DEF InShape
<1> QED
  BY <1>1, <1>2, <1>3 DEF InShapeInv, I!TypeOK

\* A process that goes on in a call and at a gate.
LEMMA InProcMoves ==
  ASSUME NEW p \in [pc : I!Points, call : I!Calls, at : 1 .. InHold, safe : BOOLEAN, open : BOOLEAN],
         NEW x \in I!Points, NEW y \in I!Calls, NEW n \in 1 .. InHold,
         NEW q, q = [p EXCEPT !.pc = x, !.call = y, !.at = n]
  PROVE  /\ q \in [pc : I!Points, call : I!Calls, at : 1 .. InHold, safe : BOOLEAN, open : BOOLEAN]
         /\ q.pc = x /\ q.call = y /\ q.at = n /\ q.safe = p.safe
OBVIOUS

\* The types as facts about the parts of the file and of the process.
LEMMA InTypes ==
  ASSUME InShapeInv
  PROVE  /\ iFile \in [stage : I!Stages, count : 0 .. I!NAll, hold : -1 .. InHold, port : BOOLEAN]
         /\ iProc \in [pc : I!Points, call : I!Calls, at : 1 .. InHold, safe : BOOLEAN, open : BOOLEAN]
         /\ iFile.count \in 0 .. I!NAll /\ iFile.hold \in -1 .. InHold /\ iProc.at \in 1 .. InHold
         /\ iProc.call \in I!Calls /\ iFile.stage \in I!Stages
<1>1. /\ iFile \in [stage : I!Stages, count : 0 .. I!NAll, hold : -1 .. InHold, port : BOOLEAN]
      /\ iProc \in [pc : I!Points, call : I!Calls, at : 1 .. InHold, safe : BOOLEAN, open : BOOLEAN]
  BY DEF InShapeInv, I!TypeOK
<1> QED BY <1>1

\* restore() begins: the shape of its first step.
LEMMA InRestoreShape ==
  ASSUME InShapeInv, I!Restore
  PROVE  InShapeInv'
<1>1. /\ iNet' = iNet /\ iCmd' = {} /\ iOrphan' = {} /\ iSealed' \in BOOLEAN
      /\ iNet \subseteq I!Item /\ iFile.stage # "none" /\ iProc.call # "activate"
  BY DEF I!Restore, I!At, InShapeInv, I!TypeOK, InShape
<1>2. CASE I!Keep
  <2>1. iProc' = [iProc EXCEPT !.pc = "hold", !.call = iProc.call, !.at = 1] /\ iFile' = iFile
    BY <1>2, InTypes DEF I!Restore
  <2>2. "hold" \in I!Points /\ 1 \in 1 .. InHold
    BY InPlanFacts DEF I!Points
  <2>3. /\ iProc' \in [pc : I!Points, call : I!Calls, at : 1 .. InHold, safe : BOOLEAN, open : BOOLEAN]
        /\ iProc'.pc = "hold" /\ iProc'.at = 1 /\ iProc'.call = iProc.call /\ iProc'.safe = iProc.safe
    BY <2>1, <2>2, InTypes, InProcMoves
  <2>4. I!TypeOK'
    BY <1>1, <2>1, <2>3, InTypes DEF I!TypeOK
  <2>5. iProc.call # "begin" /\ I!Keep'
    BY <1>2, <2>3 DEF I!Keep
  <2>6. iFile.hold = -1 \/ 1 <= iFile.hold + 1
    BY InTypes, InPlanFacts
  <2>7. iFile.stage = "released" => iFile.count = 0
    BY DEF InShapeInv, InShape
  <2>8. InShape'
    BY <1>1, <2>1, <2>3, <2>5, <2>6, <2>7 DEF InShape
  <2> QED BY <2>4, <2>8 DEF InShapeInv
<1>3. CASE ~I!Keep
  <2>1. iProc' = [iProc EXCEPT !.pc = "rollback"] /\ iFile' = [iFile EXCEPT !.stage = "restoring"]
    BY <1>3 DEF I!Restore, I!Go
  <2>2. I!TypeOK'
    BY <1>1, <2>1, InTypes DEF I!TypeOK, I!Points, I!Stages
  <2>3. iProc'.pc = "rollback" /\ iProc'.call = iProc.call /\ iFile'.stage = "restoring"
    BY <2>1, InTypes
  <2>4. InShape'
    BY <1>1, <2>3 DEF InShape
  <2> QED BY <2>2, <2>4 DEF InShapeInv
<1> QED BY <1>2, <1>3

\* begin() writes a new journal and goes on to the hold or to the plan.
LEMMA InBeginShape ==
  ASSUME InShapeInv, I!Begin
  PROVE  InShapeInv'
<1>1. iFile' = [stage |-> "installing", count |-> 0, port |-> FALSE, hold |-> I!KeptHold]
  BY DEF I!Begin
<1>2. I!KeptHold \in -1 .. InHold
  BY InTypes, InPlanFacts DEF I!KeptHold
<1>3. iFile' \in [stage : I!Stages, count : 0 .. I!NAll, hold : -1 .. InHold, port : BOOLEAN]
  BY <1>1, <1>2, InPlanFacts DEF I!Stages
<1>4. iFile'.stage = "installing" /\ iFile'.count = 0 /\ (iFile'.hold = -1 \/ 1 <= iFile'.hold + 1)
  BY <1>1, <1>2, InPlanFacts
<1>5. /\ iNet' = iNet /\ iCmd' = {} /\ iOrphan' = {} /\ iSealed' \in BOOLEAN
      /\ iNet \subseteq I!Item
  BY DEF I!Begin, I!At, InShapeInv, I!TypeOK, InShape
<1>6. CASE iProc.safe
  <2>1. iProc' = [iProc EXCEPT !.pc = "hold", !.call = "begin", !.at = 1]
    BY <1>6 DEF I!Begin
  <2>2. "hold" \in I!Points /\ "begin" \in I!Calls /\ 1 \in 1 .. InHold
    BY InPlanFacts DEF I!Points, I!Calls
  <2>3. /\ iProc' \in [pc : I!Points, call : I!Calls, at : 1 .. InHold, safe : BOOLEAN, open : BOOLEAN]
        /\ iProc'.pc = "hold" /\ iProc'.at = 1 /\ iProc'.call = "begin"
    BY <2>1, <2>2, InTypes, InProcMoves
  <2>4. I!TypeOK'
    BY <1>3, <1>5, <2>3 DEF I!TypeOK
  <2>5. InShape'
    BY <1>4, <1>5, <2>3 DEF InShape
  <2> QED BY <2>4, <2>5 DEF InShapeInv
<1>7. CASE ~iProc.safe
  <2>1. iProc' = [iProc EXCEPT !.pc = "apply", !.call = "install"]
    BY <1>7 DEF I!Begin
  <2>2. /\ iProc' \in [pc : I!Points, call : I!Calls, at : 1 .. InHold, safe : BOOLEAN, open : BOOLEAN]
        /\ iProc'.pc = "apply" /\ iProc'.call = "install"
    BY <2>1, InTypes DEF I!Points, I!Calls
  <2>3. I!TypeOK'
    BY <1>3, <1>5, <2>2 DEF I!TypeOK
  <2>4. InShape'
    BY <1>4, <1>5, <2>2 DEF InShape
  <2> QED BY <2>3, <2>4 DEF InShapeInv
<1> QED BY <1>6, <1>7

\* A gate is read back and the next one is due.
LEMMA InHoldReadBackShape ==
  ASSUME InShapeInv, I!HoldReadBack
  PROVE  InShapeInv'
<1>1. /\ iProc' = [iProc EXCEPT !.pc = "hold", !.at = iProc.at + 1]
      /\ iProc.pc = "holding" /\ iProc.at < InHold
      /\ UNCHANGED <<iFile, iNet, iCmd, iOrphan, iSealed>> /\ iCmd = {}
  BY DEF I!HoldReadBack, I!At
<1>2. iProc.at + 1 \in 1 .. InHold /\ iProc.at + 1 <= iFile.hold + 1
  BY <1>1, InTypes, InPlanFacts DEF InShapeInv, InShape
<1>3. "hold" \in I!Points
  BY DEF I!Points
<1>4. /\ iProc' \in [pc : I!Points, call : I!Calls, at : 1 .. InHold, safe : BOOLEAN, open : BOOLEAN]
      /\ iProc'.pc = "hold" /\ iProc'.at = iProc.at + 1 /\ iProc'.call = iProc.call
      /\ iProc'.open = iProc.open /\ iProc'.safe = iProc.safe
  BY <1>1, <1>2, <1>3, InTypes
<1>5. I!TypeOK'
  BY <1>1, <1>4 DEF InShapeInv, I!TypeOK
<1>6. InShape'
  BY <1>1, <1>2, <1>4 DEF InShapeInv, InShape, I!Keep
<1> QED BY <1>5, <1>6 DEF InShapeInv

\* Every step of the journal keeps types and shape.
LEMMA InShapeStep == InShapeInv /\ [I!Next]_(I!vars) => InShapeInv'
<1> SUFFICES ASSUME InShapeInv, [I!Next]_(I!vars) PROVE InShapeInv'
  OBVIOUS
<1> USE InPlanFacts DEF InShapeInv, I!TypeOK, InShape, I!Stages, I!Points, I!Calls, Waiting, I!At, I!Go, I!Closed, I!Keep
<1>1. CASE \E safe \in BOOLEAN : I!OpenClient(safe)
  BY <1>1 DEF I!OpenClient, I!Unlocked
<1>2. CASE I!OpenRecovery
  BY <1>2 DEF I!OpenRecovery, I!Unlocked
<1>3. CASE I!Refuse
  BY <1>3 DEF I!Refuse
<1>4. CASE I!PrepareRestart
  BY <1>4 DEF I!PrepareRestart, I!Finished
<1>5. CASE I!Restore
  BY <1>5, InRestoreShape
<1>6. CASE I!CreateHold
  <2>1. iProc.pc = "hold" /\ iProc.at = 1 /\ iCmd = {}
    BY <1>6 DEF I!CreateHold
  <2>2. iFile' = [iFile EXCEPT !.hold = 0] /\ UNCHANGED <<iNet, iProc, iCmd, iOrphan, iSealed>>
    BY <1>6 DEF I!CreateHold
  <2>3. /\ iFile' \in [stage : I!Stages, count : 0 .. I!NAll, hold : -1 .. InHold, port : BOOLEAN]
        /\ iFile'.hold = 0 /\ iFile'.stage = iFile.stage /\ iFile'.count = iFile.count
    BY <2>2
  <2>4. iFile.stage # "none"
    BY <2>1, <2>2
  <2>5. I!TypeOK'
    BY <2>2, <2>3
  <2>6. InShape'
    BY <2>1, <2>2, <2>3, <2>4
  <2> QED BY <2>5, <2>6
<1>7. CASE I!EnsureHold
  BY <1>7 DEF I!EnsureHold, I!AddIfAbsent, I!Max2, I!Commands, I!Item, I!Gates
<1>8. CASE I!HoldReadBack
  BY <1>8, InHoldReadBackShape
<1>9. CASE I!HoldComplete
  <2>1. CASE iProc.call = "begin"
    <3>1. iProc' = [iProc EXCEPT !.pc = "apply", !.call = "install"] /\ iFile' = iFile
      BY <1>9, <2>1 DEF I!HoldComplete
    <3> QED BY <1>9, <2>1, <3>1 DEF I!HoldComplete
  <2>2. CASE iProc.call # "begin"
    <3>1. /\ iProc' = [iProc EXCEPT !.pc = "rollback"]
          /\ iFile' = [iFile EXCEPT !.stage = "restoring"]
      BY <1>9, <2>2 DEF I!HoldComplete
    <3> QED BY <1>9, <2>2, <3>1 DEF I!HoldComplete
  <2> QED BY <2>1, <2>2
<1>10. CASE I!Rollback
  BY <1>10 DEF I!Rollback, I!RemoveIfPresent, I!Commands, I!Item, I!Ops
<1>11. CASE I!Undone
  BY <1>11 DEF I!Undone
<1>12. CASE I!Park
  BY <1>12 DEF I!Park
<1>13. CASE I!OpenGates
  BY <1>13 DEF I!OpenGates
<1>14. CASE I!RemoveHold
  BY <1>14 DEF I!RemoveHold, I!RemoveIfPresent, I!Commands, I!Item, I!Gates
<1>15. CASE I!HoldRemoved
  BY <1>15 DEF I!HoldRemoved
<1>16. CASE I!DropHold
  BY <1>16 DEF I!DropHold
<1>17. CASE I!Released
  BY <1>17 DEF I!Released
<1>18. CASE I!Activated
  BY <1>18 DEF I!Activated
<1>19. CASE I!Begin
  BY <1>19, InBeginShape
<1>20. CASE I!Apply
  BY <1>20 DEF I!Apply, I!PlanLength, I!Commands, I!Item, I!Ops
<1>21. CASE I!Applied
  BY <1>21 DEF I!Applied
<1>22. CASE I!Installed
  BY <1>22 DEF I!Installed
<1>23. CASE I!PlainReady
  BY <1>23 DEF I!PlainReady
<1>24. CASE I!Activate
  BY <1>24 DEF I!Activate
<1>25. CASE I!Https
  BY <1>25 DEF I!Https
<1>26. CASE I!Close
  BY <1>26 DEF I!Close
<1>27. CASE I!CommandDone
  BY <1>27 DEF I!CommandDone, I!Effect, I!Commands, I!Item
<1>28. CASE I!OrphanEnds
  BY <1>28 DEF I!OrphanEnds, I!Effect, I!Commands, I!Item
<1>29. CASE I!Fail
  BY <1>29 DEF I!Fail
<1>30. CASE I!Crash
  BY <1>30 DEF I!Crash
<1>31. CASE UNCHANGED I!vars
  BY <1>31 DEF I!vars
<1> QED
  BY <1>1, <1>2, <1>3, <1>4, <1>5, <1>6, <1>7, <1>8, <1>9, <1>10, <1>11, <1>12, <1>13, <1>14, <1>15, <1>16, <1>17, <1>18, <1>19, <1>20, <1>21, <1>22, <1>23, <1>24, <1>25, <1>26, <1>27, <1>28, <1>29, <1>30, <1>31
     DEF I!Next, I!Opens, I!Steps, I!Asked, I!Ends, I!Interrupted

\* While a process goes on there is no orphan, and at a point no command.
LEMMA InNoneElse ==
  ASSUME InShapeInv, NEW point \in I!Points \ {"closed"}, I!At(point)
  PROVE  iCmd = {} /\ iOrphan = {}
BY DEF InShapeInv, InShape, I!At

\* What is claimed depends on the counts only; a hold of null claims what an empty one does.
LEMMA InSameCounts ==
  ASSUME iFile'.count = iFile.count,
         iFile'.hold = iFile.hold \/ {iFile.hold, iFile'.hold} \subseteq {-1, 0}
  PROVE  I!Claimed' = I!Claimed
<1>1. 1 .. iFile'.hold = 1 .. iFile.hold
  <2>1. ASSUME NEW n \in {-1, 0} PROVE 1 .. n = {}
    OBVIOUS
  <2> QED BY <2>1
<1> QED BY <1>1 DEF I!Claimed

\* ensureHold claims the gate it puts up, and nothing but that gate.
LEMMA InHoldClaims ==
  ASSUME InShapeInv, I!EnsureHold
  PROVE  /\ <<"gate", iProc.at>> \in I!Claimed'
         /\ I!Claimed' = I!Claimed \/ I!Claimed' = I!Claimed \cup {<<"gate", iProc.at>>}
<1>1. iFile'.count = iFile.count /\ iFile'.hold = I!Max2(iFile.hold, iProc.at)
  BY InTypes DEF I!EnsureHold
<1>2. iFile.hold \in Nat /\ iProc.at \in Nat \ {0}
  BY InTypes, InPlanFacts DEF I!EnsureHold
<1>3. iProc.at <= iFile.hold + 1
  BY <1>2 DEF I!EnsureHold, I!At, InShapeInv, InShape
<1>4. CASE iProc.at <= iFile.hold
  <2>1. iFile'.hold = iFile.hold
    BY <1>1, <1>2, <1>4 DEF I!Max2
  <2>2. iProc.at \in 1 .. iFile.hold
    BY <1>2, <1>4
  <2> QED BY <1>1, <2>1, <2>2 DEF I!Claimed
<1>5. CASE iProc.at = iFile.hold + 1
  <2>1. iFile'.hold = iFile.hold + 1
    BY <1>1, <1>2, <1>5 DEF I!Max2
  <2> QED BY <1>1, <1>2, <1>5, <2>1, OneMore DEF I!Claimed
<1> QED BY <1>2, <1>3, <1>4, <1>5

\* transaction.apply claims the operation it runs.
LEMMA InApplyClaims ==
  ASSUME InShapeInv, I!Apply
  PROVE  I!Claimed' = I!Claimed \cup {<<"op", iFile.count + 1>>}
<1>1. iFile'.count = iFile.count + 1 /\ iFile'.hold = iFile.hold /\ iFile.count \in Nat
  BY InTypes, InPlanFacts DEF I!Apply
<1> QED BY <1>1, OneMore DEF I!Claimed

\* The steps that leave the counts, the host and the commands alone.
InStill ==
  \/ \E safe \in BOOLEAN : I!OpenClient(safe)
  \/ I!OpenRecovery \/ I!Refuse \/ I!PrepareRestart \/ I!Restore \/ I!CreateHold
  \/ I!HoldReadBack \/ I!HoldComplete \/ I!Park \/ I!OpenGates \/ I!DropHold \/ I!Released
  \/ I!Activated \/ I!Begin \/ I!Applied \/ I!Installed \/ I!PlainReady \/ I!Activate \/ I!Https
  \/ UNCHANGED I!vars

\* They do leave them alone: begin() too, which writes a count of 0 over 0.
LEMMA InStillCounts ==
  ASSUME InShapeInv, InStill
  PROVE  I!Claimed' = I!Claimed /\ iNet' = iNet /\ iCmd' = iCmd /\ iOrphan' = iOrphan
<1>1. iNet' = iNet /\ iCmd' = iCmd /\ iOrphan' = iOrphan
  BY DEF InStill, I!OpenClient, I!OpenRecovery, I!Refuse, I!PrepareRestart, I!Restore, I!CreateHold,
         I!HoldReadBack, I!HoldComplete, I!Park, I!OpenGates, I!DropHold, I!Released, I!Activated,
         I!Begin, I!Applied, I!Installed, I!PlainReady, I!Activate, I!Https, I!vars
<1>2. CASE I!Begin
  <2>1. iFile'.count = 0 /\ iFile'.hold = I!KeptHold
    BY <1>2 DEF I!Begin
  <2>2. iFile.count = 0 /\ I!KeptHold = iFile.hold
    BY <1>2 DEF I!Begin, I!KeptHold, InShapeInv, InShape
  <2> QED BY <1>1, <2>1, <2>2, InSameCounts
<1>3. CASE I!CreateHold \/ I!DropHold
  <2>1. iFile'.count = iFile.count /\ {iFile.hold, iFile'.hold} \subseteq {-1, 0}
    BY <1>3, InTypes DEF I!CreateHold, I!DropHold
  <2> QED BY <1>1, <2>1, InSameCounts
<1>4. CASE I!Restore \/ I!HoldComplete \/ I!Park \/ I!Released \/ I!Https
  <2>1. iFile'.count = iFile.count /\ iFile'.hold = iFile.hold
    BY <1>4, InTypes DEF I!Restore, I!HoldComplete, I!Park, I!Released, I!Https
  <2> QED BY <1>1, <2>1, InSameCounts
<1>5. CASE \/ \E safe \in BOOLEAN : I!OpenClient(safe)
           \/ I!OpenRecovery \/ I!Refuse \/ I!PrepareRestart \/ I!HoldReadBack \/ I!OpenGates
           \/ I!Activated \/ I!Applied \/ I!Installed \/ I!PlainReady \/ I!Activate
           \/ UNCHANGED I!vars
  <2>1. iFile' = iFile
    BY <1>5 DEF I!OpenClient, I!OpenRecovery, I!Refuse, I!PrepareRestart, I!HoldReadBack, I!OpenGates,
                I!Activated, I!Applied, I!Installed, I!PlainReady, I!Activate, I!vars
  <2> QED BY <1>1, <2>1, InSameCounts
<1> QED BY <1>2, <1>3, <1>4, <1>5 DEF InStill

\* The steps that end a command, or take it from its process.
InEnded == I!Close \/ I!CommandDone \/ I!OrphanEnds \/ I!Fail \/ I!Crash

\* Every step keeps it that only claimed items are being installed.
LEMMA InAddsStep == InShapeInv /\ InAdds /\ [I!Next]_(I!vars) => InAdds'
<1> SUFFICES ASSUME InShapeInv, InAdds, [I!Next]_(I!vars) PROVE InAdds'
  OBVIOUS
<1>1. CASE InStill
  BY <1>1, InStillCounts DEF InAdds
<1>2. CASE I!EnsureHold
  <2>1. iOrphan' = {}
    BY <1>2, InNoneElse DEF I!EnsureHold, I!Points
  <2> QED BY <1>2, <2>1, InHoldClaims DEF InAdds, I!EnsureHold, I!AddIfAbsent
<1>3. CASE I!Apply
  <2>1. iOrphan' = {}
    BY <1>3, InNoneElse DEF I!Apply, I!Points
  <2> QED BY <1>3, <2>1, InApplyClaims DEF InAdds, I!Apply
<1>4. CASE I!Undone \/ I!HoldRemoved
  <2>1. iCmd' = {} /\ iOrphan' = {}
    BY <1>4, InNoneElse DEF I!Undone, I!HoldRemoved, I!Points, I!At
  <2> QED BY <2>1 DEF InAdds
<1>5. CASE InEnded
  <2>1. iFile' = iFile /\ iCmd' \cup iOrphan' \subseteq iCmd \cup iOrphan
    BY <1>5 DEF InEnded, I!Close, I!CommandDone, I!OrphanEnds, I!Fail, I!Crash
  <2> QED BY <2>1, InSameCounts DEF InAdds
<1>6. CASE I!Rollback \/ I!RemoveHold
  <2>1. iFile' = iFile /\ \A c \in iCmd' \cup iOrphan' : c.do = "add" => c \in iCmd \cup iOrphan
    BY <1>6 DEF I!Rollback, I!RemoveHold, I!RemoveIfPresent
  <2> QED BY <2>1, InSameCounts DEF InAdds
<1> QED
  BY <1>1, <1>2, <1>3, <1>4, <1>5, <1>6
     DEF I!Next, I!Opens, I!Steps, I!Asked, I!Ends, I!Interrupted, InStill, InEnded

\* Every step is one of OwnedState's, or none.
LEMMA InJournalStep ==
  InShapeInv /\ InAdds /\ [I!Next]_(I!vars) => [I!Journal!Next]_(I!Journal!vars)
<1> SUFFICES ASSUME InShapeInv, InAdds, [I!Next]_(I!vars) PROVE [I!Journal!Next]_(I!Journal!vars)
  OBVIOUS
<1>1. CASE InStill
  BY <1>1, InStillCounts DEF I!Journal!vars
<1>2. CASE I!EnsureHold
  <2>1. iNet' = iNet /\ <<"gate", iProc.at>> \in I!Item
    BY <1>2, InTypes DEF I!EnsureHold, I!Item, I!Gates
  <2>2. CASE I!Claimed' = I!Claimed
    BY <2>1, <2>2 DEF I!Journal!vars
  <2>3. CASE I!Claimed' # I!Claimed
    BY <1>2, <2>1, <2>3, InHoldClaims DEF I!Journal!Next, I!Journal!Claim
  <2> QED BY <2>2, <2>3
<1>3. CASE I!Apply
  <2>1. iFile.count < I!NAll /\ iNet' = iNet
    BY <1>3, InTypes, InPlanFacts DEF I!Apply, I!PlanLength
  <2>2. <<"op", iFile.count + 1>> \in I!Item \ I!Claimed
    BY <2>1, InTypes, InPlanFacts, OneMore DEF I!Item, I!Ops, I!Claimed
  <2> QED BY <1>3, <2>1, <2>2, InApplyClaims DEF I!Journal!Next, I!Journal!Claim
<1>4. CASE I!Undone
  <2>1. iFile.count \in Nat \ {0} /\ iNet' = iNet /\ <<"op", iFile.count>> \notin iNet
    BY <1>4, InTypes, InPlanFacts DEF I!Undone, I!At, InShapeInv, InShape
  <2>2. iFile'.count = iFile.count - 1 /\ iFile'.hold = iFile.hold
    BY <1>4, InTypes DEF I!Undone
  <2>3. <<"op", iFile.count>> \in I!Claimed /\ I!Claimed' = I!Claimed \ {<<"op", iFile.count>>}
    BY <2>1, <2>2, OneMore DEF I!Claimed
  <2> QED BY <2>1, <2>3 DEF I!Journal!Next, I!Journal!Disclaim
<1>5. CASE I!HoldRemoved
  <2>1. iFile.hold \in Nat \ {0} /\ iNet' = iNet /\ <<"gate", iFile.hold>> \notin iNet
    BY <1>5, InTypes, InPlanFacts DEF I!HoldRemoved, I!At, InShapeInv, InShape
  <2>2. iFile'.hold = iFile.hold - 1 /\ iFile'.count = iFile.count
    BY <1>5, InTypes DEF I!HoldRemoved
  <2>3. <<"gate", iFile.hold>> \in I!Claimed /\ I!Claimed' = I!Claimed \ {<<"gate", iFile.hold>>}
    BY <2>1, <2>2, OneMore DEF I!Claimed
  <2> QED BY <2>1, <2>3 DEF I!Journal!Next, I!Journal!Disclaim
<1>6. CASE I!CommandDone \/ I!OrphanEnds
  <2>1. I!Claimed' = I!Claimed
    BY <1>6, InSameCounts DEF I!CommandDone, I!OrphanEnds
  <2>2. PICK c \in iCmd \cup iOrphan : I!Effect(c) \/ UNCHANGED iNet
    BY <1>6 DEF I!CommandDone, I!OrphanEnds
  <2>3. CASE I!Effect(c) /\ c.do = "add" /\ c.item \notin I!SameItems
    BY <2>1, <2>3 DEF I!Effect, InAdds, I!Journal!Next, I!Journal!Install
  <2>4. CASE I!Effect(c) /\ c.do # "add" /\ c.item \notin I!SameItems
    BY <2>1, <2>4 DEF I!Effect, I!Journal!Next, I!Journal!Remove
  <2>5. CASE (I!Effect(c) /\ c.item \in I!SameItems) \/ UNCHANGED iNet
    BY <2>1, <2>5 DEF I!Effect, I!Journal!vars
  <2> QED BY <2>2, <2>3, <2>4, <2>5
<1>7. CASE I!Fail \/ I!Crash
  <2>1. I!Claimed' = I!Claimed /\ iNet' \subseteq iNet
    BY <1>7, InSameCounts DEF I!Fail, I!Crash
  <2> QED BY <2>1 DEF I!Journal!Next, I!Journal!Remove
<1>8. CASE I!Close \/ I!Rollback \/ I!RemoveHold
  <2>1. iFile' = iFile /\ iNet' = iNet
    BY <1>8 DEF I!Close, I!Rollback, I!RemoveHold
  <2> QED BY <2>1, InSameCounts DEF I!Journal!vars
<1> QED
  BY <1>1, <1>2, <1>3, <1>4, <1>5, <1>6, <1>7, <1>8
     DEF I!Next, I!Opens, I!Steps, I!Asked, I!Ends, I!Interrupted, InStill

\* OwnedState's steps keep what is present claimed.
LEMMA InOwnedStep == I!Owned /\ [I!Journal!Next]_(I!Journal!vars) => I!Owned'
BY DEF I!Owned, I!Journal!Next, I!Journal!Claim, I!Journal!Install, I!Journal!Remove,
       I!Journal!Disclaim, I!Journal!vars

-----------------------------------------------------------------------------
\* The chain of the plan and the gates do not go with the TUN device, and no setting is one.
LEMMA InGuardsAndGates ==
  /\ I!Guards \subseteq I!Ops /\ I!Guards \cap I!TunItems = {} /\ I!Gates \cap I!TunItems = {}
  /\ I!Ops \cap I!Gates = {} /\ I!Guards \cap I!SameItems = {} /\ I!Gates \cap I!SameItems = {}
BY IngressPlanAssumption DEF I!Guards, I!Ops, I!Gates, I!TunItems, I!SameItems, I!NAll

\* A plan that has been carried out to its end has put up its chain.
LEMMA InPlanHasGuards ==
  ASSUME InShapeInv, Has(iFile.count), iFile.count = I!PlanLength
  PROVE  I!Guards \subseteq iNet
<1>1. InGuard <= iFile.count /\ iFile.count \in Nat
  BY InTypes, InPlanFacts DEF I!PlanLength
<1>2. I!Guards \subseteq {"op"} \X (1 .. iFile.count)
  BY <1>1, InPlanFacts DEF I!Guards
<1> QED BY <1>2, InGuardsAndGates DEF Has

\* What the file claims of the plan are operations of it.
LEMMA InOpsOfPlan ==
  ASSUME InShapeInv
  PROVE  {"op"} \X (1 .. iFile.count) \subseteq I!Ops
BY InTypes, InPlanFacts DEF I!Ops

\* One more operation has been found in place.
LEMMA InHasMore ==
  ASSUME NEW n \in Nat \ {0}, Has(n - 1), <<"op", n>> \in iNet \cup I!SameItems
  PROVE  Has(n)
<1>1. {"op"} \X (1 .. n) = ({"op"} \X (1 .. n - 1)) \cup {<<"op", n>>}
  BY OneMore
<1> QED BY <1>1 DEF Has

\* All gates are up when the last one is.
LEMMA InAllGates ==
  ASSUME InShapeInv, iProc.at = InHold, <<"gate", iProc.at>> \in iNet,
         \A i \in 1 .. iProc.at - 1 : <<"gate", i>> \in iNet
  PROVE  I!Gates \subseteq iNet
<1>1. ASSUME NEW i \in 1 .. InHold PROVE <<"gate", i>> \in iNet
  <2>1. i = iProc.at \/ i \in 1 .. iProc.at - 1
    BY InPlanFacts
  <2> QED BY <2>1
<1> QED BY <1>1 DEF I!Gates

\* The steps that leave host, commands and seal alone and end where nothing needs to be up.
InQuiet ==
  \/ \E safe \in BOOLEAN : I!OpenClient(safe)
  \/ I!OpenRecovery \/ I!Refuse \/ I!PrepareRestart \/ I!Park \/ I!Released \/ UNCHANGED I!vars

\* Every step keeps closed forwarding behind the chain of the plan or behind all gates.
LEMMA InSealStep == InShapeInv /\ InSealInv /\ [I!Next]_(I!vars) => InSealInv'
<1> SUFFICES ASSUME InShapeInv, InSealInv, [I!Next]_(I!vars) PROVE InSealInv'
  OBVIOUS
<1> USE DEF InSealInv, InDels, InAwaited, InGated, I!NoDirectForward
<1>1. CASE InQuiet
  <2>1. iNet' = iNet /\ iCmd' = iCmd /\ iOrphan' = iOrphan /\ iSealed' = iSealed
    BY <1>1 DEF InQuiet, I!OpenClient, I!OpenRecovery, I!Refuse, I!PrepareRestart, I!Park, I!Released, I!vars
  <2>2. InDels' /\ I!NoDirectForward'
    BY <2>1
  <2>3. CASE ~UNCHANGED I!vars
    <3>1. iProc'.pc \in {"prepare", "restore", "closed", "begin"}
      BY <1>1, <2>3, InTypes DEF InQuiet, I!OpenClient, I!OpenRecovery, I!Refuse, I!PrepareRestart, I!Park,
                  I!Released, I!Go, I!Closed
    <3> QED BY <2>2, <3>1
  <2>4. CASE UNCHANGED I!vars
    BY <2>1, <2>4 DEF I!vars, Has, I!Keep
  <2> QED BY <2>3, <2>4
<1>2. CASE I!Restore
  <2>1. /\ iNet' = iNet /\ iCmd' = {} /\ iOrphan' = {}
        /\ iSealed' = iSealed \/ iSealed' = FALSE
    BY <1>2, InNoneElse DEF I!Restore, I!At, I!Points
  <2>2. CASE I!Keep
    <3>1. iProc'.pc = "hold" /\ iProc'.at = 1
      BY <1>2, <2>2, InTypes DEF I!Restore
    <3> QED BY <2>1, <3>1
  <2>3. CASE ~I!Keep
    <3>1. iProc'.pc = "rollback" /\ iProc'.call = iProc.call /\ iProc'.safe = iProc.safe /\ iSealed' = FALSE
      BY <1>2, <2>3, InTypes DEF I!Restore, I!Go
    <3>2. ~I!Keep'
      BY <2>3, <3>1 DEF I!Keep
    <3> QED BY <2>1, <3>1, <3>2
  <2> QED BY <2>2, <2>3
<1>3. CASE I!CreateHold
  <2>1. /\ iProc' = iProc /\ iProc.pc = "hold" /\ iNet' = iNet /\ iCmd' = iCmd /\ iOrphan' = iOrphan
        /\ iSealed' = iSealed
    BY <1>3 DEF I!CreateHold, I!At
  <2> QED BY <2>1
<1>4. CASE I!EnsureHold
  <2>1. /\ iProc.pc = "hold" /\ iProc'.pc = "holding" /\ iProc'.at = iProc.at
        /\ iNet' = iNet /\ iSealed' = iSealed
    BY <1>4, InTypes DEF I!EnsureHold, I!At, I!Go
  <2>2. iOrphan' = {} /\ \A c \in iCmd' : c.do = "add"
    BY <1>4, InNoneElse DEF I!EnsureHold, I!AddIfAbsent, I!Points
  <2> QED BY <2>1, <2>2
<1>5. CASE I!HoldReadBack
  <2>1. /\ iProc.pc = "holding" /\ <<"gate", iProc.at>> \in iNet /\ iCmd' = {} /\ iOrphan' = {}
        /\ iNet' = iNet /\ iSealed' = iSealed
    BY <1>5, InNoneElse DEF I!HoldReadBack, I!At, I!Points
  <2>2. ASSUME NEW i \in 1 .. iProc.at PROVE <<"gate", i>> \in iNet
    <3>1. iProc.at \in Nat /\ (i = iProc.at \/ i \in 1 .. iProc.at - 1)
      BY InTypes, InPlanFacts
    <3> QED BY <2>1, <3>1
  <2>3. iProc'.pc = "hold" /\ iProc'.at = iProc.at + 1
    BY <1>5, InTypes DEF I!HoldReadBack
  <2> QED BY <2>1, <2>2, <2>3, InTypes, InPlanFacts
<1>6. CASE I!HoldComplete
  <2>1. /\ iProc.pc = "holding" /\ <<"gate", iProc.at>> \in iNet /\ iProc.at = InHold
        /\ iCmd' = {} /\ iOrphan' = {} /\ iNet' = iNet
    BY <1>6, InNoneElse DEF I!HoldComplete, I!At, I!Points
  <2>2. I!Gates \subseteq iNet
    BY <2>1, InAllGates
  <2>3. CASE iProc.call = "begin"
    <3>1. iProc'.pc = "apply" /\ iFile' = iFile /\ iFile.count = 0
      BY <1>6, <2>1, <2>3, InTypes DEF I!HoldComplete, InShapeInv, InShape
    <3>2. Has(iFile.count)'
      BY <3>1 DEF Has
    <3> QED BY <2>1, <2>2, <3>1, <3>2
  <2>4. CASE iProc.call # "begin"
    <3>1. iProc'.pc = "rollback" /\ iProc'.call = iProc.call /\ iProc'.safe = iProc.safe
      BY <1>6, <2>4, InTypes DEF I!HoldComplete, I!Go
    <3>2. I!Keep'
      BY <2>1, <2>4, <3>1 DEF I!Keep, InShapeInv, InShape
    <3> QED BY <2>1, <2>2, <3>1, <3>2
  <2> QED BY <2>3, <2>4
<1>7. CASE I!Rollback
  <2>1. /\ iProc.pc = "rollback" /\ iProc'.pc = "undoing" /\ iProc'.call = iProc.call
        /\ iProc'.safe = iProc.safe /\ iOrphan' = {} /\ iNet' = iNet /\ iSealed' = iSealed
    BY <1>7, InNoneElse, InTypes DEF I!Rollback, I!At, I!Go, I!Points
  <2>2. \A c \in iCmd' : c.item \in I!Ops
    BY <1>7, InTypes, InPlanFacts DEF I!Rollback, I!RemoveIfPresent, I!Ops
  <2>3. I!Keep' = I!Keep
    BY <2>1 DEF I!Keep
  <2> QED BY <2>1, <2>2, <2>3, InGuardsAndGates
<1>8. CASE I!Undone
  <2>1. /\ iProc.pc = "undoing" /\ iProc'.pc = "rollback" /\ iProc'.call = iProc.call
        /\ iProc'.safe = iProc.safe /\ iCmd' = {} /\ iOrphan' = {} /\ iNet' = iNet /\ iSealed' = iSealed
    BY <1>8, InNoneElse, InTypes DEF I!Undone, I!At, I!Go, I!Points
  <2>2. I!Keep' = I!Keep
    BY <2>1 DEF I!Keep
  <2> QED BY <2>1, <2>2
<1>9. CASE I!OpenGates
  <2>1. /\ iProc.pc = "rollback" /\ iProc'.pc = "unhold" /\ iProc'.call = iProc.call /\ ~I!Keep
        /\ iCmd' = {} /\ iOrphan' = {} /\ iNet' = iNet /\ iSealed' = iSealed
    BY <1>9, InNoneElse, InTypes DEF I!OpenGates, I!At, I!Go, I!Points
  <2>2. iProc.call # "activate"
    BY <2>1 DEF InShapeInv, InShape
  <2> QED BY <2>1, <2>2
<1>10. CASE I!RemoveHold
  <2>1. /\ iProc.pc = "unhold" /\ iProc'.pc = "unholding" /\ iProc'.call = iProc.call
        /\ iOrphan' = {} /\ iNet' = iNet /\ iSealed' = iSealed
    BY <1>10, InNoneElse, InTypes DEF I!RemoveHold, I!At, I!Go, I!Points
  <2>2. \A c \in iCmd' : c.item \in I!Gates
    BY <1>10, InTypes, InPlanFacts DEF I!RemoveHold, I!RemoveIfPresent, I!Gates
  <2>3. Has(iFile.count) => Has(iFile.count)'
    BY <1>10 DEF I!RemoveHold, Has
  <2> QED BY <2>1, <2>2, <2>3, InGuardsAndGates
<1>11. CASE I!HoldRemoved
  <2>1. /\ iProc.pc = "unholding" /\ iProc'.pc = "unhold" /\ iProc'.call = iProc.call
        /\ iCmd' = {} /\ iOrphan' = {} /\ iNet' = iNet /\ iSealed' = iSealed
    BY <1>11, InNoneElse, InTypes DEF I!HoldRemoved, I!At, I!Go, I!Points
  <2>2. Has(iFile.count) => Has(iFile.count)'
    BY <1>11, InTypes DEF I!HoldRemoved, Has
  <2> QED BY <2>1, <2>2
<1>12. CASE I!DropHold
  <2>1. /\ iProc.pc = "unhold" /\ iProc' = iProc /\ iCmd' = {} /\ iOrphan' = {} /\ iNet' = iNet
        /\ iSealed' = iSealed
    BY <1>12, InNoneElse DEF I!DropHold, I!At, I!Points
  <2>2. Has(iFile.count) => Has(iFile.count)'
    BY <1>12, InTypes DEF I!DropHold, Has
  <2> QED BY <2>1, <2>2
<1>13. CASE I!Begin
  <2>1. /\ iFile'.count = 0 /\ iCmd' = {} /\ iOrphan' = {} /\ iNet' = iNet /\ iSealed' = iSealed
    BY <1>13, InNoneElse DEF I!Begin, I!At, I!Points
  <2>2. (iProc'.pc = "hold" /\ iProc'.at = 1) \/ iProc'.pc = "apply"
    BY <1>13, InTypes DEF I!Begin
  <2>3. Has(iFile.count)'
    BY <2>1 DEF Has
  <2> QED BY <2>1, <2>2, <2>3
<1>14. CASE I!Apply
  <2>1. /\ iProc.pc = "apply" /\ iProc'.pc = "applying" /\ iOrphan' = {} /\ iNet' = iNet
        /\ iSealed' = iSealed /\ \A c \in iCmd' : c.do = "add"
    BY <1>14, InNoneElse, InTypes DEF I!Apply, I!At, I!Go, I!Points
  <2>2. iFile'.count - 1 = iFile.count
    BY <1>14, InTypes, InPlanFacts DEF I!Apply
  <2>3. Has(iFile.count - 1)'
    BY <2>1, <2>2 DEF Has
  <2> QED BY <2>1, <2>3
<1>15. CASE I!Applied
  <2>1. /\ iProc.pc = "applying" /\ iProc'.pc = "apply" /\ iCmd' = {} /\ iOrphan' = {} /\ iNet' = iNet
        /\ iFile' = iFile /\ iSealed' = iSealed /\ <<"op", iFile.count>> \in iNet \cup I!SameItems
    BY <1>15, InNoneElse, InTypes DEF I!Applied, I!At, I!Go, I!Points
  <2>2. iFile.count \in Nat \ {0}
    BY <2>1, InTypes, InPlanFacts DEF InShapeInv, InShape
  <2>3. Has(iFile.count)'
    BY <2>1, <2>2, InHasMore DEF Has
  <2> QED BY <2>1, <2>3
<1>16. CASE I!Installed
  <2>1. /\ iProc.pc = "apply" /\ iProc'.pc \in {"running", "installed"} /\ iFile.count = I!PlanLength
        /\ iCmd' = {} /\ iOrphan' = {} /\ iNet' = iNet /\ iFile' = iFile
    BY <1>16, InNoneElse, InTypes DEF I!Installed, I!At, I!Go, I!Points
  <2>2. Has(iFile.count)' /\ I!Guards \subseteq iNet
    BY <2>1, InPlanHasGuards DEF Has
  <2> QED BY <2>1, <2>2
<1>17. CASE I!PlainReady \/ I!Https
  <2>1. /\ iProc.pc \in {"installed", "running"} /\ iProc'.pc \in {"running", "apply"}
        /\ iFile'.count = iFile.count
        /\ iCmd' = {} /\ iOrphan' = {} /\ iNet' = iNet /\ iSealed' = iSealed
    BY <1>17, InNoneElse, InTypes DEF I!PlainReady, I!Https, I!At, I!Points
  <2>2. Has(iFile.count)'
    BY <2>1 DEF Has
  <2> QED BY <2>1, <2>2
<1>18. CASE I!Activate
  <2>1. /\ iProc'.pc = "unhold" /\ iProc'.call = "activate" /\ iCmd' = {} /\ iOrphan' = {}
        /\ iNet' = iNet /\ iSealed' = iSealed /\ iFile.count = I!PlanLength /\ Has(iFile.count)
    BY <1>18, InNoneElse, InTypes DEF I!Activate, I!At, I!Points, Has
  <2>2. I!Guards \subseteq iNet
    BY <2>1, InPlanHasGuards
  <2>3. Has(iFile.count)'
    BY <1>18, <2>1 DEF I!Activate, Has
  <2> QED BY <2>1, <2>2, <2>3
<1>19. CASE I!Activated
  <2>1. /\ iProc.pc = "unhold" /\ iProc'.pc = "running" /\ iProc.call = "activate" /\ iFile' = iFile
        /\ iCmd' = {} /\ iOrphan' = {} /\ iNet' = iNet /\ iSealed' = iSealed
    BY <1>19, InNoneElse, InTypes DEF I!Activated, I!At, I!Points
  <2>2. Has(iFile.count)'
    BY <2>1 DEF Has
  <2> QED BY <2>1, <2>2
<1>20. CASE I!Close
  <2>1. /\ iProc'.pc = "restore" /\ iCmd' = {} /\ iOrphan' = iOrphan /\ iNet' = iNet
        /\ iSealed' = iSealed
    BY <1>20, InTypes DEF I!Close
  <2> QED BY <2>1
<1>21. CASE I!CommandDone
  <2>1. iProc' = iProc /\ iFile' = iFile /\ iSealed' = iSealed /\ iCmd' = {} /\ iOrphan' = iOrphan
    BY <1>21 DEF I!CommandDone
  <2>2. PICK c \in iCmd : I!Effect(c)
    BY <1>21 DEF I!CommandDone
  <2>3. iOrphan = {} /\ iProc.pc \in Waiting /\ c.do \in {"add", "del"} /\ c.item \in I!Ops \cup I!Gates
    BY <2>2 DEF InShapeInv, InShape, I!TypeOK, I!Commands, I!Item, Waiting
  <2>4. I!Keep' = I!Keep
    BY <2>1 DEF I!Keep
  <2>5. CASE c.do = "add" \/ c.item \in I!SameItems
    <3>1. iNet \subseteq iNet'
      BY <2>2, <2>5 DEF I!Effect
    <3>2. ASSUME NEW n, Has(n) PROVE Has(n)'
      BY <3>1, <3>2 DEF Has
    <3> QED BY <2>1, <2>3, <2>4, <3>1, <3>2
  <2>6. CASE c.do = "del" /\ c.item \in I!Ops /\ c.item \notin I!SameItems
    <3>1. iProc.pc = "undoing"
      BY <2>2, <2>3, <2>6, InGuardsAndGates DEF Waiting
    <3>2. I!Gates \subseteq iNet => I!Gates \subseteq iNet'
      BY <2>2, <2>6, InGuardsAndGates DEF I!Effect
    <3> QED BY <2>1, <2>2, <2>3, <2>4, <2>6, <3>1, <3>2
  <2>7. CASE c.do = "del" /\ c.item \in I!Gates
    <3>1. iProc.pc = "unholding"
      BY <2>2, <2>3, <2>7, InGuardsAndGates DEF Waiting
    <3>2. iNet \cap I!Ops \subseteq iNet'
      BY <2>2, <2>7, InGuardsAndGates DEF I!Effect
    <3>3. I!Guards \subseteq iNet => I!Guards \subseteq iNet'
      BY <3>2, InGuardsAndGates
    <3>4. Has(iFile.count) => Has(iFile.count)'
      BY <2>1, <3>2, InOpsOfPlan DEF Has
    <3>5. iSealed => I!Guards \subseteq iNet
      BY <2>2, <2>7
    <3> QED BY <2>1, <2>3, <3>1, <3>3, <3>4, <3>5
  <2> QED BY <2>3, <2>5, <2>6, <2>7
<1>22. CASE I!OrphanEnds
  <2>1. iProc' = iProc /\ iSealed' = iSealed /\ iOrphan' = {} /\ iCmd' = iCmd
    BY <1>22 DEF I!OrphanEnds
  <2>2. PICK c \in iOrphan : I!Effect(c) \/ UNCHANGED iNet
    BY <1>22 DEF I!OrphanEnds
  <2>3. /\ iCmd = {} /\ iProc.pc = "closed" /\ c.do \in {"add", "del"}
        /\ c.item \in I!Ops \cup I!Gates
    BY <2>2 DEF InShapeInv, InShape, I!TypeOK, I!Commands, I!Item, Waiting
  <2>4. I!NoDirectForward'
    <3>1. CASE UNCHANGED iNet \/ (I!Effect(c) /\ (c.do = "add" \/ c.item \in I!SameItems))
      BY <2>1, <3>1 DEF I!Effect
    <3>2. CASE I!Effect(c) /\ c.do = "del" /\ c.item \in I!Ops
      BY <2>1, <2>2, <3>2, InGuardsAndGates DEF I!Effect
    <3>3. CASE I!Effect(c) /\ c.do = "del" /\ c.item \in I!Gates
      BY <2>1, <2>2, <3>3, InGuardsAndGates DEF I!Effect
    <3> QED BY <2>2, <2>3, <3>1, <3>2, <3>3
  <2> QED BY <2>1, <2>3, <2>4
<1>23. CASE I!Fail \/ I!Crash
  <2>1. /\ iProc'.pc = "closed" /\ iCmd' = {} /\ iOrphan' \subseteq iCmd \cup iOrphan
        /\ iNet' = iNet \ I!TunItems /\ iSealed' = iSealed
    BY <1>23, InTypes DEF I!Fail, I!Crash, I!Closed
  <2>2. /\ I!Gates \subseteq iNet => I!Gates \subseteq iNet'
        /\ I!Guards \subseteq iNet => I!Guards \subseteq iNet'
    BY <2>1, InGuardsAndGates
  <2> QED BY <2>1, <2>2
<1> QED
  BY <1>1, <1>2, <1>3, <1>4, <1>5, <1>6, <1>7, <1>8, <1>9, <1>10, <1>11, <1>12, <1>13, <1>14, <1>15, <1>16, <1>17, <1>18, <1>19, <1>20, <1>21, <1>22, <1>23
     DEF I!Next, I!Opens, I!Steps, I!Asked, I!Ends, I!Interrupted, InQuiet

\* What the ingress journal keeps, whoever drives it.
InInv == InShapeInv /\ InAdds /\ I!Owned /\ InSealInv

\* An empty journal that nobody holds has the invariant.
LEMMA InInit == I!Init => InInv
<1>1. I!Init => InAdds /\ I!Owned /\ InSealInv
  BY DEF I!Init, InAdds, I!Owned, InSealInv, InDels, InAwaited, InGated, I!NoDirectForward
<1> QED BY <1>1, InShapeInit DEF InInv

\* Every step of the ingress journal keeps its invariant.
LEMMA InStep == InInv /\ [I!Next]_(I!vars) => InInv'
BY InShapeStep, InAddsStep, InJournalStep, InOwnedStep, InSealStep DEF InInv

-----------------------------------------------------------------------------
(* The client: it drives each journal by that journal's own steps.         *)

\* A client that stops before its DNS runtime has begun leaves a journal that claims nothing
\* and a host that has nothing of it, as a call that throws does.
LEMMA UnbegunFails ==
  ASSUME DnsInv, StopUnbegun
  PROVE  Fail
<1>1. /\ proc.pc = "begin" /\ file.stage # "parked" /\ cmd = {}
      /\ proc' = [proc EXCEPT !.pc = "closed"]
      /\ UNCHANGED <<file, net, cmd, orphan, sealed>>
  BY DEF StopUnbegun, Idle
<1>2. file.stage \in {"none", "released"}
  BY <1>1 DEF DnsInv, DnsShapeInv, DnsShape
<1>3. file.count = 0 /\ file.hold = 0
  BY <1>2 DEF DnsInv, DnsShapeInv, DnsShape, ValidJournal
<1>4. net = {}
  BY <1>3 DEF DnsInv, Owned, Claimed
<1> QED BY <1>1, <1>4 DEF Fail, Closed

\* Every step of the client or of a recovery is a step of the DNS journal, or none of it.
LEMMA DnsRefined == DnsInv /\ [ClientNext]_clientVars => [Next]_vars
<1> SUFFICES ASSUME DnsInv, [ClientNext]_clientVars PROVE [Next]_vars
  OBVIOUS
<1> USE DEF vars
<1>1. CASE Start
  BY <1>1 DEF Start, Next, Opens
<1>2. CASE \/ \E safe \in BOOLEAN : OpenIngress(safe)
           \/ IngressStep \/ CloseIngress \/ Https \/ StopSafe \/ InstallFails \/ RecoverIngress
  BY <1>2 DEF OpenIngress, IngressStep, CloseIngress, Https, StopSafe, InstallFails, RecoverIngress,
              IngressOnly
<1>3. CASE DnsStep
  BY <1>3 DEF DnsStep, Next
<1>4. CASE Exit
  BY <1>4 DEF Exit, Next, Interrupted
<1>5. CASE StopPlain
  BY <1>5 DEF StopPlain, Next
<1>6. CASE StopUnbegun
  BY <1>6, UnbegunFails DEF Next, Interrupted
<1>7. CASE CommandEnds
  BY <1>7 DEF CommandEnds, IngressOnly, Next
<1>8. CASE RecoverDns
  BY <1>8 DEF RecoverDns, Next, Opens
<1>9. CASE Die
  BY <1>9 DEF Die, Next
<1>10. CASE RecoveryDies
  BY <1>10 DEF RecoveryDies, IngressOnly, Next
<1>11. CASE UNCHANGED clientVars
  BY <1>11 DEF clientVars
<1> QED
  BY <1>1, <1>2, <1>3, <1>4, <1>5, <1>6, <1>7, <1>8, <1>9, <1>10, <1>11
     DEF ClientNext, ClientOpens, Calls, Asked, ClientInterrupted

\* Every step of the client or of a recovery is a step of the ingress journal, or none of it.
LEMMA InRefined == [ClientNext]_clientVars => [I!Next]_(I!vars)
<1> SUFFICES ASSUME [ClientNext]_clientVars PROVE [I!Next]_(I!vars)
  OBVIOUS
<1> USE DEF I!vars, iVars
<1>1. CASE Start \/ DnsStep \/ StopPlain \/ StopUnbegun \/ Exit \/ RecoverDns
  BY <1>1 DEF Start, DnsStep, StopPlain, StopUnbegun, Exit, RecoverDns, DnsOnly
<1>2. CASE \E safe \in BOOLEAN : OpenIngress(safe)
  BY <1>2 DEF OpenIngress, I!Next, I!Opens
<1>3. CASE IngressStep
  BY <1>3 DEF IngressStep, I!Next
<1>4. CASE CloseIngress \/ StopSafe \/ InstallFails
  BY <1>4 DEF CloseIngress, StopSafe, InstallFails, I!Next, I!Asked
<1>5. CASE Https
  BY <1>5 DEF Https, I!Next, I!Asked
<1>6. CASE CommandEnds
  BY <1>6 DEF CommandEnds, DnsOnly, I!Next
<1>7. CASE RecoverIngress
  BY <1>7 DEF RecoverIngress, I!Next, I!Opens
<1>8. CASE Die
  BY <1>8 DEF Die, I!Next
<1>9. CASE RecoveryDies
  BY <1>9 DEF RecoveryDies, DnsOnly, I!Next
<1>10. CASE UNCHANGED clientVars
  BY <1>10 DEF clientVars
<1> QED
  BY <1>1, <1>2, <1>3, <1>4, <1>5, <1>6, <1>7, <1>8, <1>9, <1>10
     DEF ClientNext, ClientOpens, Calls, Asked, ClientInterrupted

\* No step of the DNS journal leads on from a runtime that is active.
LEMMA RunningStays == Steps => proc.pc # "running"
BY DEF Steps, Restore, EnsureHold, HoldReadBack, Rollback, Undone, Park, OpenGates,
       RemoveHold, HoldRemoved, Released, Begin, Apply, Applied, StubReady, Activate,
       Activated, At

\* Only activate() makes the call of the ingress activate.
LEMMA OnlyActivate ==
  ASSUME InShapeInv, I!Steps, iProc'.call = "activate", iProc.call # "activate"
  PROVE  iProc.pc = "installed"
<1>1. I!Activate
  BY InTypes DEF I!Steps, I!Refuse, I!PrepareRestart, I!Restore, I!CreateHold, I!EnsureHold,
       I!HoldReadBack, I!HoldComplete, I!Rollback, I!Undone, I!Park, I!OpenGates, I!RemoveHold,
       I!HoldRemoved, I!DropHold, I!Released, I!Activated, I!Begin, I!Apply, I!Applied, I!Installed,
       I!PlainReady, I!Go, I!Closed
<1> QED BY <1>1 DEF I!Activate, I!At

ClientInv == client \in Phases /\ OpenedOverDns

\* Every step keeps a client in its phases, and DNS active while it opens its ingress.
LEMMA ClientStep == InShapeInv /\ ClientInv /\ [ClientNext]_clientVars => ClientInv'
<1> SUFFICES ASSUME InShapeInv, ClientInv, [ClientNext]_clientVars PROVE ClientInv'
  OBVIOUS
<1> USE DEF ClientInv, OpenedOverDns, Phases, Become
<1>1. CASE \/ Start \/ StopSafe \/ StopPlain \/ StopUnbegun \/ CloseIngress \/ InstallFails \/ Exit \/ Die
  BY <1>1 DEF Start, StopSafe, StopPlain, StopUnbegun, CloseIngress, InstallFails, Exit, Die
<1>2. CASE \E safe \in BOOLEAN : OpenIngress(safe)
  BY <1>2 DEF OpenIngress, I!OpenClient
<1>3. CASE DnsStep
  BY <1>3, RunningStays DEF DnsStep, DnsOnly, iVars
<1>4. CASE IngressStep
  <2>1. client' = client /\ proc' = proc /\ I!Steps
    BY <1>4 DEF IngressStep, IngressOnly, vars
  <2>2. iProc.pc = "installed" => proc.pc = "running"
    BY <1>4 DEF IngressStep, IngressMayOpen
  <2> QED BY <2>1, <2>2, OnlyActivate
<1>5. CASE Https
  <2>1. client' = client /\ iProc'.call = "https"
    BY <1>5, InTypes DEF Https, IngressOnly, I!Https
  <2> QED BY <2>1
<1>6. CASE CommandEnds
  BY <1>6 DEF CommandEnds, DnsOnly, IngressOnly, vars, iVars, Ends, CommandDone, OrphanEnds,
              I!Ends, I!CommandDone, I!OrphanEnds
<1>7. CASE RecoverDns
  BY <1>7 DEF RecoverDns, DnsOnly
<1>8. CASE RecoverIngress
  BY <1>8 DEF RecoverIngress, IngressOnly, OwnsIngress
<1>9. CASE RecoveryDies
  BY <1>9 DEF RecoveryDies, DnsOnly, IngressOnly, OwnsIngress
<1>10. CASE UNCHANGED clientVars
  BY <1>10 DEF clientVars, vars, iVars
<1> QED
  BY <1>1, <1>2, <1>3, <1>4, <1>5, <1>6, <1>7, <1>8, <1>9, <1>10
     DEF ClientNext, ClientOpens, Calls, Asked, ClientInterrupted

\* The inductive invariant of the client and both journals.
LEMMA ClientInvariant == ClientSpec => [](DnsInv /\ InInv /\ ClientInv)
<1>1. ClientInit => DnsInv /\ InInv /\ ClientInv
  <2>1. Init => DnsInv
    BY DnsInit
  <2>2. ClientInit => ClientInv
    BY DEF ClientInit, I!Init, ClientInv, OpenedOverDns, Phases
  <2> QED BY <2>1, <2>2, InInit DEF ClientInit
<1>2. DnsInv /\ InInv /\ ClientInv /\ [ClientNext]_clientVars => (DnsInv /\ InInv /\ ClientInv)'
  <2> SUFFICES ASSUME DnsInv, InInv, ClientInv, [ClientNext]_clientVars PROVE DnsInv' /\ InInv' /\ ClientInv'
    OBVIOUS
  <2>1. DnsInv'
    BY DnsRefined, DnsInvStep
  <2>2. InInv'
    BY InRefined, InStep
  <2>3. ClientInv'
    BY ClientStep DEF InInv
  <2> QED BY <2>1, <2>2, <2>3
<1> QED BY <1>1, <1>2, PTL DEF ClientSpec

\* A client, with the recoveries that come between its lives, drives the tunnel DNS journal only
\* as TunnelDns says and the ingress journal only as Ingress says, so that what is proved of a
\* journal by itself holds of it here.
THEOREM ClientDrivesJournals == ClientSpec => Spec /\ I!Spec
<1>1. ClientInit => Init /\ I!Init
  BY DEF ClientInit
<1>2. DnsInv /\ [ClientNext]_clientVars => [Next]_vars
  BY DnsRefined
<1>3. [ClientNext]_clientVars => [I!Next]_(I!vars)
  BY InRefined
<1> QED BY <1>1, <1>2, <1>3, ClientInvariant, PTL DEF ClientSpec, Spec, I!Spec

\* Traffic of the ingress does not leave directly until a restore without the hold: the chain of
\* the plan or all gates are up through every crash, restart, failed installation and recovery,
\* for plans and holds of any length.
THEOREM ForwardStaysClosed == ClientSpec => []ForwardInv
<1>1. DnsInv /\ InInv /\ ClientInv => ForwardInv
  BY DEF DnsInv, DnsShapeInv, InInv, InShapeInv, InSealInv, ClientInv, ForwardInv, ClientTypeOK
<1> QED BY <1>1, ClientInvariant, PTL

\* A restart-safe client releases application traffic only while DNS is protected, whatever its
\* predecessors and the recoveries left of the two journals.
THEOREM ReleasesOverDns == ClientSpec => []ReleasedAfterDns
<1>1. DnsInv /\ InInv /\ ClientInv => ReleasedAfterDns
  <2> SUFFICES ASSUME DnsInv, ClientInv, client = "up", iProc.call = "activate"
               PROVE  Guards \subseteq net \/ Gates \subseteq net
    BY DEF ReleasedAfterDns
  <2>1. proc.pc = "running"
    BY DEF ClientInv, OpenedOverDns
  <2>2. sealed
    BY <2>1 DEF DnsInv, DnsShapeInv, DnsShape
  <2> QED BY <2>2 DEF DnsInv, DnsSealInv, NoDirectDns
<1> QED BY <1>1, ClientInvariant, PTL

\* ingress-journal.mjs under the client and under clean-vpn-recover implements OwnedState: an
\* item is claimed on disk before it is installed and given up only when it is gone.
THEOREM IngressImplemented == ClientSpec => IngressJournal
<1>1. ClientInit => I!Journal!Init
  <2> SUFFICES ASSUME I!Init PROVE I!Journal!Init
    BY DEF ClientInit
  <2>1. iNet = {} /\ iFile.count = 0 /\ iFile.hold = -1
    BY DEF I!Init
  <2>2. 1 .. 0 = {} /\ 1 .. -1 = {}
    OBVIOUS
  <2> QED BY <2>1, <2>2 DEF I!Journal!Init, I!Claimed
<1>2. InInv /\ [ClientNext]_clientVars => [I!Journal!Next]_(I!Journal!vars)
  BY InRefined, InJournalStep DEF InInv
<1> QED BY <1>1, <1>2, ClientInvariant, PTL DEF ClientSpec, IngressJournal, I!JournalSpec, I!Journal!Spec
=============================================================================
