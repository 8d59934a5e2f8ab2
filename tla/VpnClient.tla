------------------------------- MODULE VpnClient -------------------------------
(***************************************************************************)
(* clean-vpn as a client with --from-tun and --dns-mode=tunnel: one process*)
(* that drives the journals of TunnelDns and Ingress in the order of       *)
(* runClient and finishNetwork, and the two recovery programs, which open  *)
(* one journal each.  A restart-safe client (--from-tun-restart-safe)      *)
(* leaves the hold of the ingress and the DNS rules behind when it stops.  *)
(***************************************************************************)
EXTENDS TunnelDns

CONSTANTS InGuard, InBase, InHttps, InHold, InTunOps, InSameOps

\* What installIngressRouting installs: the rules that close the path come first, and
\* neither a route or address of the TUN nor an rp_filter setting is among them.
ASSUME IngressPlanAssumption ==
  /\ InGuard \in Nat \ {0} /\ InBase \in Nat /\ InGuard <= InBase
  /\ InHttps \in Nat /\ InHold \in Nat \ {0}
  /\ InTunOps \subseteq (InGuard + 1) .. (InBase + InHttps)
  /\ InSameOps \subseteq (InGuard + 1) .. (InBase + InHttps)

VARIABLES
  client,    \* where the client process is: down, starting, up, draining, closing
  iFile, iNet, iProc, iCmd, iOrphan, iSealed    \* the ingress journal

\* vars is the tunnel DNS journal.
iVars      == <<iFile, iNet, iProc, iCmd, iOrphan, iSealed>>
clientVars == <<client, vars, iVars>>

I == INSTANCE Ingress WITH
       NGuard <- InGuard, NBase <- InBase, NHttps <- InHttps, NHold <- InHold,
       TunOps <- InTunOps, SameOps <- InSameOps, file <- iFile, net <- iNet, proc <- iProc,
       cmd <- iCmd, orphan <- iOrphan, sealed <- iSealed

Phases == {"down", "starting", "up", "draining", "closing"}
ClientTypeOK == client \in Phases /\ TypeOK /\ I!TypeOK

ClientInit == client = "down" /\ Init /\ I!Init

Become(phase) == client' = phase
DnsOnly     == UNCHANGED <<client, iVars>>
IngressOnly == UNCHANGED <<client, vars>>

\* The ingress journal is the client's, not a recovery's.
OwnsIngress == client \in {"up", "draining", "closing"}

-----------------------------------------------------------------------------
(* Start: runClient, runClientImpl.                                        *)

\* The DNS journal is opened and parked first.
Start ==
  /\ client = "down" /\ OpenClient /\ Become("starting")
  /\ UNCHANGED iVars

OpenIngress(safe) ==
  /\ client = "starting" /\ proc.pc = "begin"
  /\ I!OpenClient(safe) /\ Become("up")
  /\ UNCHANGED vars

\* The DNS runtime starts when the ingress is installed, and the restart gate of the
\* ingress is released when DNS is active.
DnsMayBegin    == client = "up" /\ iProc.pc = "installed"
IngressAnyTime == TRUE     \* broken: does not wait for DNS
IngressMayOpen == proc.pc = "running"

DnsStep ==
  /\ Steps
  /\ proc.pc = "begin" => DnsMayBegin
  /\ DnsOnly

IngressStep ==
  /\ I!Steps
  /\ iProc.pc = "installed" => IngressMayOpen
  /\ IngressOnly

Https == client = "up" /\ proc.pc = "begin" /\ I!Https /\ IngressOnly

-----------------------------------------------------------------------------
(* Stop: finishNetwork with code 0.                                        *)

\* Between two synchronous calls of either journal
Idle == /\ client = "up" /\ iProc.pc \in {"installed", "running"} /\ iCmd = {}
        /\ proc.pc \in {"begin", "stub", "running"} /\ cmd = {}

\* Restart-safe: the ingress is parked, the DNS rules stay.
StopSafe ==
  /\ Idle /\ iProc.safe
  /\ I!Close /\ Become("closing")
  /\ UNCHANGED vars

\* Plain: DNS is restored, then the ingress.
StopPlain ==
  /\ Idle /\ ~iProc.safe
  /\ Stop /\ Become("draining")
  /\ UNCHANGED iVars

\* No DNS state to restore: the runtime has not begun and nothing was parked.
StopUnbegun ==
  /\ Idle /\ ~iProc.safe /\ proc.pc = "begin" /\ file.stage # "parked"
  /\ proc' = [proc EXCEPT !.pc = "closed"]
  /\ Become("draining")
  /\ UNCHANGED <<file, net, cmd, orphan, sealed, iVars>>

CloseIngress ==
  /\ client = "draining" /\ proc.pc = "closed"
  /\ I!Close /\ Become("closing")
  /\ UNCHANGED vars

\* An operation of the plan failed: installIngressRouting closes its transaction.
InstallFails ==
  /\ client = "up" /\ iProc.call = "install" /\ iProc.pc \in {"apply", "applying"}
  /\ I!Close /\ Become("closing")
  /\ UNCHANGED vars

\* The process ends, after its stop or because the ingress journal refused it; an open
\* DNS journal is released with its rules.
Exit ==
  /\ client \in {"up", "closing"} /\ iProc.pc = "closed"
  /\ Become("down")
  /\ IF proc.pc = "closed" THEN UNCHANGED vars ELSE Fail
  /\ UNCHANGED iVars

-----------------------------------------------------------------------------
(* Death of the client, and the recovery programs.                         *)

Die ==
  /\ client # "down" /\ Become("down")
  /\ IF proc.pc = "closed" THEN UNCHANGED vars ELSE Interrupted
  /\ IF iProc.pc = "closed" \/ ~OwnsIngress THEN UNCHANGED iVars ELSE I!Interrupted

\* The DNS journal is recovered between clients.  A draining client gives it up only when it is
\* released (a restore that throws ends in Die, both journals retained): a recovery that opens it
\* while the ingress is still being closed has nothing to do, and a second client finds nothing
\* to park and is refused by the ingress lock.  Neither changes any state.
RecoverDns     == client = "down" /\ OpenRecovery /\ DnsOnly
RecoverIngress == ~OwnsIngress /\ I!OpenRecovery /\ IngressOnly

RecoveryDies ==
  \/ client = "down" /\ Interrupted /\ DnsOnly
  \/ ~OwnsIngress /\ I!Interrupted /\ IngressOnly

CommandEnds ==
  \/ Ends /\ DnsOnly
  \/ I!Ends /\ IngressOnly

-----------------------------------------------------------------------------
ClientOpens == Start \/ \E safe \in BOOLEAN : OpenIngress(safe)
Calls == DnsStep \/ IngressStep \/ CloseIngress \/ Exit
Asked == Https \/ StopSafe \/ StopPlain \/ StopUnbegun \/ InstallFails
ClientInterrupted == Die \/ RecoveryDies

ClientNext ==
  \/ ClientOpens \/ Calls \/ Asked \/ CommandEnds
  \/ RecoverDns \/ RecoverIngress \/ ClientInterrupted

ClientSpec == ClientInit /\ [][ClientNext]_clientVars

\* Processes go on, commands end, and somebody recovers a journal that is left.
FairClientSpec ==
  /\ ClientSpec
  /\ WF_clientVars(DnsStep) /\ WF_clientVars(IngressStep)
  /\ WF_clientVars(CloseIngress) /\ WF_clientVars(Exit)
  /\ WF_clientVars(Ends /\ DnsOnly) /\ WF_clientVars(I!Ends /\ IngressOnly)
  /\ SF_clientVars(RecoverIngress)

-----------------------------------------------------------------------------
\* Traffic of the ingress does not leave directly until a restore without the hold, and both
\* journals and the client stay well formed.
ForwardInv == ClientTypeOK /\ I!NoDirectForward

\* A restart-safe client releases application traffic only while DNS is protected ("DNS
\* is protected before the ingress restart gate releases application traffic"),
\* whatever its predecessors and the recoveries left of the two journals.
ReleasedAfterDns ==
  client = "up" /\ iProc.call = "activate"
    => Guards \subseteq net \/ Gates \subseteq net

\* A rollback of the ingress never gets stuck on what an interruption left: once no
\* process is interrupted any more, a journal that says restoring is released.
IngressRecovers ==
  <>[][~ClientInterrupted]_clientVars => (iFile.stage = "restoring" ~> iFile.stage = "released")

\* The ingress journal is a write-ahead claim on the network state.
IngressJournal == I!JournalSpec
=============================================================================
