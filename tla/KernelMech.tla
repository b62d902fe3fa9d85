----------------------------- MODULE KernelMech -----------------------------
(***************************************************************************)
(* The kernel mechanism of the OVS forwarder: kernelVethServer,            *)
(* kernelSmartVFServer and kernelClient (mechanisms/kernel), which plug    *)
(* one interface per connection end into the integration bridge.           *)
(*                                                                         *)
(* An "end" is one side of one cross connect: the server side, towards the *)
(* network service client, or the client side, towards the endpoint.  All  *)
(* ends share one mutex and one reference count map; kernelVethServer and  *)
(* kernelClient each keep a map from a network service to the parent       *)
(* interface its VLAN tagged connections share.                            *)
(*                                                                         *)
(* A critical section is one action: everything else in this process that  *)
(* touches the maps takes the same mutex.  Each external command           *)
(* (ovs-vsctl, netlink) inside it may fail, and an action has one outcome  *)
(* per command that can.  The calls to the next chain element are separate *)
(* steps, since other ends run meanwhile.                                  *)
(***************************************************************************)
EXTENDS Integers, FiniteSets

CONSTANTS
  End,        \* connection ends
  Clients,    \* the ends served by kernelClient (metadata.IsClient)
  VFs,        \* the ends whose interface is a smart VF representor
  Tagged,     \* the ends whose mechanism carries a VLAN id (GetVLAN() > 0)
  Breakout,   \* the ends the vlan client moves to an L2 egress bridge
  Service,    \* Service[e]: the network service of e
  IfName,     \* IfName[e]: GetVethPeerName of e, or its VF representor
  Mortal,     \* the veth links whose container, with its netns, may die
  Faults,     \* Faults[e]: what may fail for e: commands, and a refresh
  CanRestart, \* whether the forwarder process may be restarted
  MaxCount,   \* bound of the model: where a leaking count stops growing
  NoEnd, NoPort

Port == {IfName[e] : e \in End}

\* The commands that can fail, in the order setup and reset issue them.
SetupCommands == {"link", "up", "vf", "port", "ofport"}
ResetCommands == {"delport", "linkdel"}

\* A refresh of e may fail in an element between the server and the client
\* elements, or below l2ovsconnect, once the chain below that element has
\* succeeded: the element then closes that chain, and every entry above it stays.
MayCloseOnRefresh(e) == "refresh" \in Faults[e]

ASSUME KernelAssumption ==
  /\ IsFiniteSet(End) /\ NoEnd \notin End /\ NoPort \notin Port
  /\ Clients \subseteq End /\ VFs \subseteq End /\ Tagged \subseteq End
  /\ DOMAIN IfName = End /\ DOMAIN Service = End
  /\ Mortal \subseteq Port /\ CanRestart \in BOOLEAN /\ MaxCount \in Nat
  /\ Faults \in [End -> SUBSET (SetupCommands \cup ResetCommands \cup {"refresh"})]
  /\ Breakout \subseteq End \ Clients

\* The hypotheses under which the maps are sound: names are not truncated to
\* the same one, the veth ends of one service are all tagged or none is, and a
\* port that is moved to an egress bridge is not shared.
DistinctNames == \A d, e \in End : IfName[d] = IfName[e] => d = e

\* Each element has its own serviceToparentIfMap, keyed by the service.
Group(e) == <<e \in Clients, Service[e]>>
Groups == {Group(e) : e \in End}

UniformTagging ==
  \A d, e \in End \ VFs : Group(d) = Group(e) => (d \in Tagged <=> e \in Tagged)

SoleBreakout == Breakout \cap Tagged \subseteq VFs

\* The ends that share the parent interface of their service.
SharingEnds == Tagged \ VFs

\* kernelClient resets an end again at Close when a failed refresh has closed it,
\* for its entry is still there: the hypothesis that no shared parent pays for it.
ResetOnce == \A e \in Clients \cap SharingEnds : ~MayCloseOnRefresh(e)

\* The hypothesis under which nothing is left behind: closing works, no link
\* vanishes, no process dies, no server end fails where its error path cannot
\* undo what it did, no VF or shared parent is broken out, and no shared parent is
\* reset twice.
NothingLeaks ==
  /\ Mortal = {} /\ CanRestart = FALSE
  /\ \A e \in End : Faults[e] \cap ResetCommands = {}
  /\ \A e \in VFs \ Clients : "ofport" \notin Faults[e]
  /\ \A e \in SharingEnds \ Clients : "up" \notin Faults[e]
  /\ Breakout \cap (VFs \cup Tagged) = {}
  /\ ResetOnce

VARIABLES
  pc,       \* where the handler of e is; "up" is an established connection
  mutex,    \* the holder of parentIfmutex
  refCount, \* parentIfRefCountMap
  parentIf, \* the serviceToparentIfMap of each element
  ifname,   \* the ifnames entry of e: none, a bridge port, or an L2 one
  held,     \* the interface e has counted and not released
  bridge,   \* the OVS bridge each port is on
  links     \* the host ends of the veth pairs that exist

maps == <<refCount, parentIf>>
host == <<bridge, links>>
vars == <<pc, mutex, maps, ifname, held, host>>

Absent == -1   \* no entry in parentIfRefCountMap

PC == {"idle", "setup", "rollback", "next", "undo", "up", "refresh",
       "closing", "reset", "unload", "kept", "again", "stuck"}

\* What is kept of the OvsPortInfo of an end: none is stored, one is, or one
\* whose IsL2Connect and IsCrossConnected the vlan client has set.
PortInfo == {"none", "port", "l2"}

TypeOK ==
  /\ pc \in [End -> PC]
  /\ mutex \in End \cup {NoEnd}
  /\ refCount \in [Port -> Nat \cup {Absent}]
  /\ parentIf \in [Groups -> Port \cup {NoPort}]
  /\ ifname \in [End -> PortInfo]
  /\ held \in [End -> Port \cup {NoPort}]
  /\ bridge \in [Port -> {"none", "nsm", "l2"}]
  /\ links \subseteq Port

Init ==
  /\ pc = [e \in End |-> "idle"]
  /\ mutex = NoEnd
  /\ refCount = [p \in Port |-> Absent]
  /\ parentIf = [g \in Groups |-> NoPort]
  /\ ifname = [e \in End |-> "none"]
  /\ held = [e \in End |-> NoPort]
  /\ bridge = [p \in Port |-> "none"]
  /\ links = {}

Goto(e, from, to) == pc[e] = from /\ pc' = [pc EXCEPT ![e] = to]

-----------------------------------------------------------------------------
(* setupVeth and setupVF.                                                  *)

\* The end creates a veth pair: it is no VF and has no parent to share.
Fresh(e) == e \notin VFs /\ ~(e \in Tagged /\ parentIf[Group(e)] # NoPort)

HostIf(e) == IF e \in VFs \/ Fresh(e) THEN IfName[e] ELSE parentIf[Group(e)]

\* LinkAdd refuses a name that exists.
LinkReady(e) == Fresh(e) => HostIf(e) \notin links

\* "outcome" is the command setup stops at, or "ok".  A counted port is not
\* added again.  add-port refuses a port that is on another bridge, and the
\* ofport of a port on no bridge is empty, which is no number.
PortCanEnd(e, h, outcome) ==
  LET counted == refCount[h] # Absent
      mayFail == outcome \in Faults[e]
  IN \/ outcome = "port" /\ ~counted /\ (mayFail \/ bridge[h] = "l2")
     \/ outcome = "ofport" /\ counted /\ (mayFail \/ bridge[h] = "none")
     \/ outcome = "ofport" /\ ~counted /\ mayFail /\ bridge[h] # "l2"
     \/ outcome = "ok" /\ bridge[h] # IF counted THEN "none" ELSE "l2"

VethCanEnd(e, outcome) ==
  \/ outcome = "link" /\ Fresh(e) /\ ("link" \in Faults[e] \/ ~LinkReady(e))
  \/ outcome = "up" /\ Fresh(e) /\ LinkReady(e) /\ "up" \in Faults[e]
  \/ LinkReady(e) /\ PortCanEnd(e, HostIf(e), outcome)

\* No VF configuration, or no representor of the VF.
VFCanEnd(e, outcome) ==
  \/ outcome = "vf" /\ "vf" \in Faults[e]
  \/ PortCanEnd(e, HostIf(e), outcome)

CanEnd(e, outcome) ==
  IF e \in VFs THEN VFCanEnd(e, outcome) ELSE VethCanEnd(e, outcome)

\* The count is taken before the port number is asked for.
Counts(outcome) == outcome \in {"ofport", "ok"}

\* Mutant of Setup: only the first user is counted.
SetupCountsOnce(e, outcome) ==
  LET h == HostIf(e) IN
  /\ CanEnd(e, outcome)
  /\ links' = IF Fresh(e) /\ outcome # "link" THEN links \cup {h} ELSE links
  /\ parentIf' = IF Fresh(e) /\ e \in Tagged /\ outcome \notin {"link", "up"}
                 THEN [parentIf EXCEPT ![Group(e)] = h] ELSE parentIf
  /\ bridge' = IF Counts(outcome) /\ refCount[h] = Absent
               THEN [bridge EXCEPT ![h] = "nsm"] ELSE bridge
  /\ refCount' = IF Counts(outcome) /\ refCount[h] = Absent
                 THEN [refCount EXCEPT ![h] = 1] ELSE refCount

Setup(e, outcome) ==
  LET h == HostIf(e) IN
  /\ CanEnd(e, outcome)
  /\ links' = IF Fresh(e) /\ outcome # "link" THEN links \cup {h} ELSE links
  /\ parentIf' = IF Fresh(e) /\ e \in Tagged /\ outcome \notin {"link", "up"}
                 THEN [parentIf EXCEPT ![Group(e)] = h] ELSE parentIf
  /\ bridge' = IF Counts(outcome) /\ refCount[h] = Absent
               THEN [bridge EXCEPT ![h] = "nsm"] ELSE bridge
  /\ refCount' = IF Counts(outcome)
                 THEN [refCount EXCEPT ![h] = IF @ = Absent THEN 1 ELSE @ + 1]
                 ELSE refCount

-----------------------------------------------------------------------------
(* resetVeth and resetVF.                                                  *)

\* The interface a reset works on is looked up again, not remembered.
Target(e) ==
  IF e \in Tagged /\ e \notin VFs THEN parentIf[Group(e)] ELSE IfName[e]

\* Mutant of Remaining: whoever resets first takes the interface away.
RemainingIgnored(p) == 0

Remaining(p) == IF refCount[p] > 0 THEN refCount[p] - 1 ELSE 0

\* Mutant of Decremented: an entry that is absent or zero is decremented too.
DecrementedUnguarded(p) == [refCount EXCEPT ![p] = @ - 1]

Decremented(p) == IF refCount[p] > 0 THEN [refCount EXCEPT ![p] = @ - 1]
                                     ELSE refCount

\* What del-port br p can leave: it does nothing when p is not on br.
DelPort(e, p, br) ==
  {IF bridge[p] = br THEN [bridge EXCEPT ![p] = "none"] ELSE bridge}
  \cup {bridge : f \in Faults[e] \cap {"delport"}}

\* Mutant of ReleaseShared: the parent is forgotten with the first user.
ReleaseSharedForgets(p) ==
  /\ Remaining(p) > 0
  /\ refCount' = Decremented(p)
  /\ parentIf' = [g \in Groups |-> IF parentIf[g] = p THEN NoPort ELSE parentIf[g]]
  /\ UNCHANGED host

\* Others still use the interface: only the count changes.
ReleaseShared(p) ==
  /\ Remaining(p) > 0
  /\ refCount' = Decremented(p)
  /\ UNCHANGED <<parentIf, host>>

\* Mutant of RemoveVeth: the last but one user removes the veth pair.
RemoveVethEarly(e, p, isL2Connect) ==
  /\ Remaining(p) <= 1
  /\ bridge' \in IF isL2Connect THEN {bridge} ELSE DelPort(e, p, "nsm")
  /\ p \in links
  /\ links' = links \ {p}
  /\ refCount' = [refCount EXCEPT ![p] = Absent]
  /\ parentIf' = [parentIf EXCEPT ![Group(e)] = NoPort]

\* Mutant of RemoveVeth: the count stays when the veth pair is removed.
RemoveVethKeepsCount(e, p, isL2Connect) ==
  /\ Remaining(p) = 0
  /\ bridge' \in IF isL2Connect THEN {bridge} ELSE DelPort(e, p, "nsm")
  /\ links' = links \ {p}
  /\ refCount' = Decremented(p)
  /\ parentIf' = [parentIf EXCEPT ![Group(e)] = NoPort]

\* The last user of a veth pair.  A failed del-port is only logged; when the
\* link is gone or cannot be deleted the map entries stay.
RemoveVeth(e, p, isL2Connect) ==
  /\ Remaining(p) = 0
  /\ bridge' \in IF isL2Connect THEN {bridge} ELSE DelPort(e, p, "nsm")
  /\ \/ /\ p \notin links \/ "linkdel" \in Faults[e]
        /\ refCount' = Decremented(p)
        /\ UNCHANGED <<parentIf, links>>
     \/ /\ p \in links
        /\ links' = links \ {p}
        /\ refCount' = [refCount EXCEPT ![p] = Absent]
        /\ parentIf' = [parentIf EXCEPT ![Group(e)] = NoPort]

ResetVeth(e, isL2Connect) ==
  LET p == Target(e) IN
  \/ p = NoPort /\ UNCHANGED <<maps, host>>   \* parent interface not found
  \/ p # NoPort /\ ReleaseShared(p)
  \/ p # NoPort /\ RemoveVeth(e, p, isL2Connect)

\* A failed del-port keeps the entry of a VF representor.
RemoveVF(e, p, isL2Connect) ==
  /\ Remaining(p) = 0
  /\ UNCHANGED <<parentIf, links>>
  /\ \/ /\ ~isL2Connect
        /\ "delport" \in Faults[e] \/ bridge[p] # "nsm"
        /\ refCount' = Decremented(p)
        /\ UNCHANGED bridge
     \/ /\ isL2Connect \/ bridge[p] = "nsm"
        /\ bridge' = IF isL2Connect THEN bridge ELSE [bridge EXCEPT ![p] = "none"]
        /\ refCount' = [refCount EXCEPT ![p] = Absent]

ResetVF(e, isL2Connect) ==
  LET p == Target(e) IN ReleaseShared(p) \/ RemoveVF(e, p, isL2Connect)

Reset(e, isL2Connect) ==
  IF e \in VFs THEN ResetVF(e, isL2Connect) ELSE ResetVeth(e, isL2Connect)

-----------------------------------------------------------------------------
(* Request.                                                                *)

\* A server end sets up before it calls next, a client end after.
Request(e) ==
  /\ Goto(e, "idle", IF e \in Clients THEN "next" ELSE "setup")
  /\ UNCHANGED <<mutex, maps, ifname, held, host>>

SetupOk(e) ==
  /\ mutex = NoEnd
  /\ Goto(e, "setup", IF e \in Clients THEN "up" ELSE "next")
  /\ Setup(e, "ok")
  /\ held' = [held EXCEPT ![e] = HostIf(e)]
  /\ ifname' = [ifname EXCEPT ![e] = "port"]
  /\ UNCHANGED mutex

\* kernelVethServer rolls back before it unlocks.  kernelClient calls its own
\* Close with the mutex still locked, and Close locks it: it never returns.
SetupFails(e) ==
  \E outcome \in SetupCommands :
    /\ mutex = NoEnd
    /\ e \in Clients \/ e \notin VFs
    /\ Goto(e, "setup", IF e \in Clients THEN "stuck" ELSE "rollback")
    /\ Setup(e, outcome)
    /\ held' = IF Counts(outcome) THEN [held EXCEPT ![e] = HostIf(e)] ELSE held
    /\ mutex' = e
    /\ UNCHANGED ifname

\* kernelSmartVFServer returns the error and resets nothing: what was counted
\* leaks, which MaxCount bounds.
SetupFailsSmartVF(e) ==
  \E outcome \in SetupCommands :
    /\ mutex = NoEnd
    /\ e \in VFs \ Clients
    /\ Counts(outcome) => refCount[IfName[e]] < MaxCount
    /\ Goto(e, "setup", "idle")
    /\ Setup(e, outcome)
    /\ UNCHANGED <<mutex, ifname, held>>

\* Mutants of Rollback: nothing is reset; the mutex stays locked.
RollbackKeepsAll(e) ==
  /\ Goto(e, "rollback", "idle")
  /\ mutex' = NoEnd
  /\ held' = [held EXCEPT ![e] = NoPort]
  /\ UNCHANGED <<maps, ifname, host>>

RollbackKeepsMutex(e) ==
  /\ Goto(e, "rollback", "idle")
  /\ ResetVeth(e, FALSE)
  /\ held' = [held EXCEPT ![e] = NoPort]
  /\ UNCHANGED <<mutex, ifname>>

Rollback(e) ==
  /\ Goto(e, "rollback", "idle")
  /\ ResetVeth(e, FALSE)
  /\ held' = [held EXCEPT ![e] = NoPort]
  /\ mutex' = NoEnd
  /\ UNCHANGED ifname

\* The rest of the chain returned; a vlan breakout is part of it.
NextOk(e) ==
  /\ Goto(e, "next", IF e \in Clients THEN "setup" ELSE "up")
  /\ e \in Breakout => ifname[e] = "l2"
  /\ UNCHANGED <<mutex, maps, ifname, held, host>>

\* The error path unloads the ifnames entry first.  If the vlan client had
\* already moved the port, the element that failed has closed the vlan client.
NextFails(e) ==
  /\ Goto(e, "next", IF e \in Clients THEN "idle" ELSE "undo")
  /\ ifname' = [ifname EXCEPT ![e] = "none"]
  /\ bridge' \in IF ifname[e] = "l2" THEN DelPort(e, held[e], "l2") ELSE {bridge}
  /\ UNCHANGED <<mutex, maps, held, links>>

\* Mutant of Undo: a failed Request resets nothing.
UndoKeepsAll(e) ==
  /\ mutex = NoEnd
  /\ Goto(e, "undo", "idle")
  /\ held' = [held EXCEPT ![e] = NoPort]
  /\ UNCHANGED <<mutex, maps, ifname, host>>

\* IsL2Connect is passed as false here, whatever the ifnames entry said.
Undo(e) ==
  /\ mutex = NoEnd
  /\ Goto(e, "undo", "idle")
  /\ Reset(e, FALSE)
  /\ held' = [held EXCEPT ![e] = NoPort]
  /\ UNCHANGED <<mutex, ifname>>

\* A Request on an established connection only calls next, and whatever next
\* answers the end stays up, with its entry.
Refresh(e) ==
  /\ Goto(e, "up", "refresh")
  /\ UNCHANGED <<mutex, maps, ifname, held, host>>

RefreshReturns(e) ==
  /\ Goto(e, "refresh", "up")
  /\ UNCHANGED <<mutex, maps, ifname, held, host>>

\* The element that failed has closed the vlan client, which takes the port off its
\* egress bridge, and leaves an entry that says it is there.
RefreshRecalls(e) ==
  /\ MayCloseOnRefresh(e) /\ ifname[e] = "l2"
  /\ Goto(e, "refresh", "up")
  /\ bridge' \in DelPort(e, held[e], "l2")
  /\ UNCHANGED <<mutex, maps, ifname, held, links>>

-----------------------------------------------------------------------------
(* Close.                                                                  *)

Close(e) ==
  /\ Goto(e, "up", "closing")
  /\ UNCHANGED <<mutex, maps, ifname, held, host>>

\* next.Close returned; it took a broken out port off its egress bridge.
NextClosed(e) ==
  /\ Goto(e, "closing", "reset")
  /\ bridge' \in IF ifname[e] = "l2" THEN DelPort(e, held[e], "l2") ELSE {bridge}
  /\ UNCHANGED <<mutex, maps, ifname, held, links>>

\* Servers delete the ifnames entry, kernelClient leaves it to l2ovsconnect.
CloseReset(e) ==
  /\ mutex = NoEnd
  /\ Goto(e, "reset", IF e \in Clients THEN "unload" ELSE "idle")
  /\ Reset(e, ifname[e] = "l2")
  /\ held' = [held EXCEPT ![e] = NoPort]
  /\ ifname' = IF e \in Clients THEN ifname ELSE [ifname EXCEPT ![e] = "none"]
  /\ UNCHANGED mutex

Unload(e) ==
  /\ Goto(e, "unload", "idle")
  /\ ifname' = [ifname EXCEPT ![e] = "none"]
  /\ UNCHANGED <<mutex, maps, held, host>>

\* A failed refresh has closed kernelClient from below l2ovsconnect: nobody
\* deletes the entry, for which a later Request adds no port.
Keep(e) ==
  /\ MayCloseOnRefresh(e)
  /\ Goto(e, "unload", "kept")
  /\ UNCHANGED <<mutex, maps, ifname, held, host>>

\* The Close of that connection, or another refresh of it that fails.
CloseAgain(e) ==
  /\ Goto(e, "kept", "again")
  /\ UNCHANGED <<mutex, maps, ifname, held, host>>

\* The entry is still there, so that the interface is reset once more.
ResetAgain(e) ==
  /\ mutex = NoEnd
  /\ Goto(e, "again", "unload")
  /\ Reset(e, ifname[e] = "l2")
  /\ UNCHANGED <<mutex, ifname, held>>

-----------------------------------------------------------------------------
(* The vlan client and the environment.                                    *)

\* addDelVlan moves the port of e to the egress bridge.  Its del-port and add-port
\* are one step: the port is of no other end, and what can fail between them is
\* VlanBreakoutFails.
VlanBreakout(e) ==
  /\ e \in Breakout /\ pc[e] = "next" /\ ifname[e] = "port"
  /\ bridge[held[e]] = "nsm"
  /\ bridge' = [bridge EXCEPT ![held[e]] = "l2"]
  /\ ifname' = [ifname EXCEPT ![e] = "l2"]
  /\ UNCHANGED <<pc, mutex, maps, held, links>>

\* It left the integration bridge and the second add-port failed.
VlanBreakoutFails(e) ==
  /\ e \in Breakout /\ "port" \in Faults[e] /\ ifname[e] = "port"
  /\ Goto(e, "next", "undo")
  /\ bridge[held[e]] = "nsm"
  /\ bridge' = [bridge EXCEPT ![held[e]] = "none"]
  /\ ifname' = [ifname EXCEPT ![e] = "none"]
  /\ UNCHANGED <<mutex, maps, held, links>>

\* The netns of a container goes away, and with it both ends of the veth pair.
LinkGone(p) ==
  /\ p \in links
  /\ \E e \in End : held[e] = p /\ ifname[e] # "none"
  /\ links' = links \ {p}
  /\ UNCHANGED <<pc, mutex, maps, ifname, held, bridge>>

\* A new process starts with empty maps; ports and links survive it.
Restart ==
  /\ CanRestart
  /\ pc' = [e \in End |-> "idle"]
  /\ mutex' = NoEnd
  /\ refCount' = [p \in Port |-> Absent]
  /\ parentIf' = [g \in Groups |-> NoPort]
  /\ ifname' = [e \in End |-> "none"]
  /\ held' = [e \in End |-> NoPort]
  /\ UNCHANGED host

-----------------------------------------------------------------------------
Locking(e) ==
  \/ SetupOk(e) \/ SetupFails(e) \/ SetupFailsSmartVF(e) \/ Undo(e)
  \/ CloseReset(e) \/ ResetAgain(e)

NextReturns(e) ==
  NextOk(e) \/ NextFails(e) \/ VlanBreakout(e) \/ VlanBreakoutFails(e)

Step(e) ==
  \/ Request(e) \/ Refresh(e) \/ Close(e) \/ CloseAgain(e)
  \/ RefreshReturns(e) \/ RefreshRecalls(e) \/ NextClosed(e)
  \/ Unload(e) \/ Keep(e) \/ Rollback(e)
  \/ NextReturns(e)
  \/ Locking(e)

Next ==
  \/ \E e \in End : Step(e)
  \/ \E p \in Mortal : LinkGone(p)
  \/ Restart

Spec == Init /\ [][Next]_vars

\* Calls to next end, by an answer or by their context; a goroutine that can
\* run does; sync.Mutex hands itself to a waiter that has waited long enough.
Fairness ==
  \A e \in End :
    /\ WF_vars(RefreshReturns(e) \/ RefreshRecalls(e)) /\ WF_vars(NextClosed(e))
    /\ WF_vars(Unload(e) \/ Keep(e)) /\ WF_vars(Rollback(e)) /\ WF_vars(NextReturns(e))
    /\ SF_vars(Locking(e))

FairSpec == Spec /\ Fairness

-----------------------------------------------------------------------------
(* Properties.                                                             *)

Users(p) == {e \in End : held[e] = p}
Count(p) == IF refCount[p] = Absent THEN 0 ELSE refCount[p]
VethPort == {IfName[e] : e \in End \ VFs}

\* The count of a veth interface is the number of ends that use it, through
\* every failure, rollback and restart (parentIfRefCountMap, common.go).
VethCountExact == \A p \in VethPort : Count(p) = Cardinality(Users(p))

\* The count of a VF representor is never below the number of its users: a
\* leak keeps a port, it never takes one away from an end (sriov.go).
NeverUndercounted == \A p \in Port : Count(p) >= Cardinality(Users(p))

InUse(e) == pc[e] \in {"up", "refresh"}

\* The ends that their own refresh may unplug.
Recalled == {e \in Breakout : MayCloseOnRefresh(e)}

\* No end's setup, rollback or close unplugs the interface of another end
\* that is established, nor deletes its link (resetVeth, resetVF).
InUsePlugged ==
  \A e \in End : InUse(e) =>
    /\ e \notin Recalled => bridge[held[e]] # "none"
    /\ held[e] \in links \cup Mortal \cup {IfName[d] : d \in VFs}

\* A VLAN tagged end can find at Close the parent it counted at Request
\* (serviceToparentIfMap, the lookup of resetVeth).
SharedParentKnown ==
  \A e \in Tagged \ VFs : held[e] # NoPort => held[e] = parentIf[Group(e)]

\* When no end is connecting, connected or closing, nothing is left behind:
\* no count, no parent, no port and no link.
CleanWhenIdle ==
  (\A e \in End : pc[e] = "idle") =>
    /\ \A p \in Port : refCount[p] = Absent /\ bridge[p] = "none"
    /\ \A g \in Groups : parentIf[g] = NoPort
    /\ links = {}

\* A setup fails only if a command fails: no link, count, parent or port that an
\* earlier connection has left makes a later Request fail (setupVeth, setupVF).
SetupFailsOnlyOnFault ==
  \A e \in End : pc[e] = "setup" /\ mutex = NoEnd =>
    \A outcome \in SetupCommands : CanEnd(e, outcome) => outcome \in Faults[e]

\* The end that has the mutex waits for nobody, so that it will hand it on.
HolderCanRun == mutex # NoEnd => pc[mutex] = "rollback"

\* No step but its own moves the port of an established end, nor removes its link
\* while its container lives, whatever fails and whoever is broken out.
InUseStays ==
  [][\A e \in End : InUse(e) /\ pc'[e] = pc[e] =>
       /\ held'[e] = held[e] /\ bridge'[held[e]] = bridge[held[e]]
       /\ held[e] \in links \ Mortal => held[e] \in links']_vars

\* Every Request and every Close returns: the mutex is always handed on.
HandlersReturn ==
  \A e \in End : (pc[e] \notin {"idle", "up", "kept"}) ~> (pc[e] \in {"idle", "up", "kept"})

\* When closing works, the parent of a service is on the bridge while tagged
\* ends use it: the first of them plugs it in and the last takes it out, in any
\* order and whoever fails in between (setupVeth, resetVeth).
ParentPort == {IfName[e] : e \in SharingEnds}
Shared == INSTANCE SharedPort WITH
  User <- SharingEnds, Port <- ParentPort,
  users <- [p \in ParentPort |-> Users(p)],
  plugged <- {p \in ParentPort : bridge[p] # "none"}
ImplementsSharedPort == Shared!Spec
=============================================================================
