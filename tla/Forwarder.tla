----------------------------- MODULE Forwarder -----------------------------
(***************************************************************************)
(* The forwarder chain (chains/forwarder, newEndPoint): what a connection   *)
(* goes through from the server element of the mechanism towards its client *)
(* (kernel or vxlan), over the cross connect element l2ovsconnect, to the   *)
(* client element of the mechanism towards its endpoint.                    *)
(*                                                                         *)
(* KernelMech, VxlanMech and L2Connect leave open when the next element is  *)
(* called and what it answers.  Here their steps are tied together in the   *)
(* order of the chain: an element calls the next one and returns after it,  *)
(* an error undoes what was done on the way up, Close releases the far end  *)
(* first.  Connections share the maps, the ports and the flow table.  The   *)
(* vlan mechanism, which has no cross connect, is in VlanMech.              *)
(***************************************************************************)
EXTENDS Integers, Sequences, FiniteSets

CONSTANTS
  Conn,         \* the connections
  KernelEnds,   \* the ends whose mechanism is kernel; the others are vxlan
  VFEnds,       \* the kernel ends whose interface is a smart VF
  TaggedEnds,   \* the kernel ends whose mechanism carries a VLAN id
  Service,      \* as in KernelMech, of each kernel end
  IfName,
  Mortal,
  KernelFaults,
  Remote,       \* as in VxlanMech, of each vxlan end
  VxlanFaults,
  Info,         \* the OvsPortInfo of each end, as in L2Connect
  FlowFaults,   \* FlowFaults[x]: what may go wrong with the rules and the refreshes of x
  CanRestart,   \* whether the forwarder process may be restarted
  MaxCount,     \* bound of the model: where a leaking count stops growing
  NoEnd, NoPort, NoTunnel

VARIABLES
  kpc, mutex, kcount, parentIf, ifname, kheld, bridge, links, \* KernelMech
  vpc, vcount, vheld, tun,                                    \* VxlanMech
  lpc, client, endpoint, flows                                \* L2Connect

kernelVars == <<kpc, mutex, kcount, parentIf, ifname, kheld, bridge, links>>
vxlanVars == <<vpc, vcount, vheld, tun>>
endVars == <<kernelVars, vxlanVars>>
flowVars == <<lpc, client, endpoint, flows>>
vars == <<endVars, flowVars>>

\* The end towards the client, and the end towards the endpoint.
S(x) == <<"server", x>>
C(x) == <<"client", x>>
ClientEnds == {C(x) : x \in Conn}
Ends == {S(x) : x \in Conn} \cup ClientEnds

\* The components, with what is proved of them.
K == INSTANCE KernelCleanProofs WITH
  End <- KernelEnds, Clients <- KernelEnds \cap ClientEnds, VFs <- VFEnds,
  Tagged <- TaggedEnds, Breakout <- {}, Faults <- KernelFaults,
  pc <- kpc, refCount <- kcount, held <- kheld

V == INSTANCE VxlanMechProofs WITH
  End <- Ends \ KernelEnds, Clients <- ClientEnds \ KernelEnds,
  Faults <- VxlanFaults, pc <- vpc, refCount <- vcount, held <- vheld

L == INSTANCE L2ConnectProofs WITH
  VlanConns <- {}, Faults <- FlowFaults, pc <- lpc,
  ClientInfo <- [x \in Conn |-> Info[S(x)]],
  EndpointInfo <- [x \in Conn |-> Info[C(x)]]

ASSUME ForwarderAssumption ==
  /\ KernelEnds \subseteq Ends
  /\ K!KernelAssumption /\ V!VxlanAssumption /\ L!L2Assumption

Init == K!Init /\ V!Init /\ L!Init

-----------------------------------------------------------------------------
(* The steps of an end, of either mechanism.                               *)

Phase(e) == IF e \in KernelEnds THEN kpc[e] ELSE vpc[e]

OfEnd(e, kernelStep, vxlanStep) ==
  \/ e \in KernelEnds /\ kernelStep /\ UNCHANGED vxlanVars
  \/ e \notin KernelEnds /\ vxlanStep /\ UNCHANGED kernelVars

Begins(e) == OfEnd(e, K!Request(e), V!Request(e))
SetsUp(e) == OfEnd(e, K!SetupOk(e), V!AddOk(e))
SetupFails(e) == OfEnd(e, K!SetupFails(e) \/ K!SetupFailsSmartVF(e), V!AddFails(e))
GoesOn(e) == OfEnd(e, K!NextOk(e), V!NextOk(e))
GivesUp(e) == OfEnd(e, K!NextFails(e), V!NextFails(e))
Undoes(e) == OfEnd(e, K!Undo(e) \/ K!Rollback(e), V!Undo(e))
Refreshes(e) == OfEnd(e, K!Refresh(e), V!Refresh(e))
Refreshed(e) == OfEnd(e, K!RefreshReturns(e), V!RefreshReturns(e))
Closes(e) == OfEnd(e, K!Close(e), V!Close(e))
NextIsClosed(e) == OfEnd(e, K!NextClosed(e), V!NextClosed(e))
Resets(e) == OfEnd(e, K!CloseReset(e) \/ K!ResetAgain(e), V!CloseRemove(e))

\* A failed refresh closes a client end and leaves its entry.  kernelClient does then
\* what it does at Close, and KernelMech parts with it where the entry is kept.
Recalls(e) == OfEnd(e, K!Close(e) \/ K!CloseAgain(e), V!Recall(e))
ClosesAgain(e) == OfEnd(e, K!CloseAgain(e), V!Close(e))
Kept(e) == OfEnd(e, K!Keep(e), V!RecallRemove(e))

\* The connections whose client end a failed refresh may close.
MayRecall(x) ==
  "refresh" \in IF C(x) \in KernelEnds THEN KernelFaults[C(x)] ELSE VxlanFaults[C(x)]

\* l2ovsconnect deletes the entry of a client end last; that of a kernel end is
\* the last thing KernelMech waits for.
Unloads(e) ==
  IF e \in KernelEnds THEN K!Unload(e) /\ UNCHANGED vxlanVars ELSE UNCHANGED endVars

-----------------------------------------------------------------------------
(* The server elements.                                                    *)

Arrives(x) ==
  /\ lpc[x] = "idle"
  /\ Begins(S(x))
  /\ UNCHANGED flowVars

ServerSetup(x) ==
  /\ SetsUp(S(x)) \/ SetupFails(S(x))
  /\ UNCHANGED flowVars

\* On the way of a first Request, or of the refresh of a connection that a failed
\* refresh has closed.
CallsClientChain(x) ==
  /\ Phase(S(x)) \in {"next", "refresh"}
  /\ L!Request(x)
  /\ UNCHANGED endVars

\* Mutant of Succeeds: the error of the client chain is dropped.
SucceedsAlways(x) ==
  /\ lpc[x] = "up" \/ lpc[x] = "release"
  /\ GoesOn(S(x))
  /\ UNCHANGED flowVars

Succeeds(x) ==
  /\ lpc[x] = "up"
  /\ GoesOn(S(x))
  /\ UNCHANGED flowVars

\* Mutant of Fails: an element that fails after the client chain has succeeded
\* does not close it.
FailsUnclosed(x) ==
  /\ GivesUp(S(x))
  /\ \/ lpc[x] \in {"idle", "up"} /\ UNCHANGED flowVars
     \/ L!Release(x)

\* An element between the two fails before it calls the client chain, or the
\* client chain has failed; the server element deletes its entry.
Fails(x) ==
  /\ GivesUp(S(x))
  /\ \/ lpc[x] = "idle" /\ UNCHANGED flowVars
     \/ L!Release(x)

ServerUndo(x) == Undoes(S(x)) /\ UNCHANGED flowVars

\* A refresh goes down the chain; nothing is there when an earlier one was closed.
Refresh(x) ==
  /\ Refreshes(S(x))
  /\ L!Refresh(x) \/ (lpc[x] = "idle" /\ UNCHANGED flowVars)

\* The server element returns what its next has answered, and keeps its entry.
RefreshReturns(x) ==
  /\ Refreshed(S(x))
  /\ L!Keep(x) \/ (lpc[x] \in {"up", "idle"} /\ UNCHANGED flowVars)

Close(x) == Closes(S(x)) /\ UNCHANGED flowVars

\* After the client chain is closed, the port is reset and its entry deleted.
ServerReset(x) ==
  \/ lpc[x] = "release" /\ NextIsClosed(S(x)) /\ UNCHANGED flowVars
  \/ Resets(S(x)) /\ L!Release(x)

-----------------------------------------------------------------------------
(* l2ovsconnect and the client elements.                                   *)

ClientBegins(x) ==
  /\ lpc[x] = "next"
  /\ Begins(C(x))
  /\ UNCHANGED flowVars

\* What follows the client element answers; the port is set up, or not.
ClientSetup(x) ==
  /\ GoesOn(C(x)) \/ SetsUp(C(x)) \/ SetupFails(C(x))
  /\ UNCHANGED flowVars

\* The error of a client element is returned at once.  An element may fail
\* before the client element is called, and the endpoint may.
ClientFails(x) ==
  /\ L!NextFails(x)
  /\ \/ Phase(C(x)) = "idle" /\ UNCHANGED endVars
     \/ GivesUp(C(x))

\* kernelClient, which is above vxlanClient, locks the mutex of the kernel elements on
\* the first Request of a connection of any mechanism, once its next has succeeded.
PastKernelClient(x) == C(x) \in KernelEnds \/ mutex = NoEnd

\* The client chain has answered; on a refresh it has nothing to do.
CrossConnects(x) ==
  /\ UNCHANGED endVars
  /\ \/ Phase(C(x)) = "up" /\ PastKernelClient(x) /\ L!NextOk(x)
     \/ Phase(C(x)) \in {"up", "kept"} /\ L!RefreshReturns(x)
     \/ L!AddFirst(x) \/ L!AddSecond(x) \/ L!AddFails(x)

\* The connection is closed, or an element between the server element and
\* l2ovsconnect fails after the client chain has succeeded, and closes it: on the
\* first Request, or on a refresh.
ChainCloses(x) ==
  /\ \/ Phase(S(x)) \in {"closing", "next"}
     \/ Phase(S(x)) = "refresh" /\ lpc[x] = "up" /\ "refresh" \in FlowFaults[x]
  /\ L!Close(x)
  /\ UNCHANGED endVars

\* next.Close of l2ovsconnect, or an element between it and the client element
\* fails after that one has succeeded, and closes it: on the first Request, or on a
\* refresh.
ClientCloses(x) ==
  /\ \/ lpc[x] \in {"closing", "next"} /\ NextIsClosed(C(x))
     \/ lpc[x] = "closing" /\ (Closes(C(x)) \/ ClosesAgain(C(x)))
     \/ lpc[x] = "next" /\ PastKernelClient(x) /\ Closes(C(x))
     \/ lpc[x] = "refresh" /\ MayRecall(x) /\ (Recalls(C(x)) \/ NextIsClosed(C(x)))
  /\ UNCHANGED flowVars

\* A vxlan client end that is closed because its Request has failed has no more
\* steps.
ClientReset(x) ==
  /\ Resets(C(x))
  /\ IF lpc[x] = "next" /\ C(x) \notin KernelEnds THEN L!NextFails(x)
                                                  ELSE UNCHANGED flowVars

\* A refresh that has closed the client end returns its error; l2ovsconnect stays.
RecallReturns(x) == Kept(C(x)) /\ L!RefreshReturns(x)

FailedUnloads(x) ==
  /\ Phase(C(x)) = "unload"
  /\ L!NextFails(x) /\ Unloads(C(x))

\* Mutant of ClientClosed: the client element deletes the entry of its port, as
\* a server element does.
ClientClosedForgets(x) ==
  /\ Phase(C(x)) \in {"idle", "unload"}
  /\ L!Goto(x, "closing", "release")
  /\ endpoint' = endpoint \ {x}
  /\ UNCHANGED <<client, flows>>
  /\ Unloads(C(x))

ClientClosed(x) ==
  /\ Phase(C(x)) \in {"idle", "unload"}
  /\ L!NextClosed(x)
  /\ UNCHANGED endVars

Disconnects(x) ==
  \/ L!DeleteFirst(x) /\ UNCHANGED endVars
  \/ (L!DeleteSecond(x) \/ L!DeleteFails(x)) /\ Unloads(C(x))

-----------------------------------------------------------------------------
\* A container dies with its veth pair, and the process is restarted.
LinkGone(p) == K!LinkGone(p) /\ UNCHANGED <<vxlanVars, flowVars>>
Restart == K!Restart /\ V!Restart /\ L!Restart

\* What a handler does once it is called.
Progress(x) ==
  \/ ServerSetup(x) \/ CallsClientChain(x) \/ Succeeds(x) \/ Fails(x) \/ ServerUndo(x)
  \/ RefreshReturns(x) \/ ServerReset(x)
  \/ ClientBegins(x) \/ ClientSetup(x) \/ ClientFails(x) \/ CrossConnects(x)
  \/ ChainCloses(x) \/ ClientCloses(x) \/ ClientReset(x) \/ FailedUnloads(x)
  \/ RecallReturns(x) \/ ClientClosed(x) \/ Disconnects(x)

Next ==
  \/ \E x \in Conn : Arrives(x) \/ Refresh(x) \/ Close(x) \/ Progress(x)
  \/ \E p \in Mortal : LinkGone(p)
  \/ Restart

Spec == Init /\ [][Next]_vars

\* A handler that can run does, and every call ends; a mutex is handed to a
\* waiter that has waited long enough.
Fairness == \A x \in Conn : SF_vars(Progress(x))

FairSpec == Spec /\ Fairness

-----------------------------------------------------------------------------
(* Properties.                                                             *)

\* The hypotheses of the components.
Apart ==
  /\ K!DistinctNames /\ K!UniformTagging /\ K!ResetOnce
  /\ V!DistinctNames /\ V!ClientsCountFirst /\ V!RemovedOnce
  /\ L!DistinctPoints

Serving(x) == Phase(S(x)) \in {"up", "refresh"}

\* The port of e is on the integration bridge, and a tunnel leads to the remote
\* forwarder of e.
Plugged(e) == IF e \in KernelEnds THEN bridge[kheld[e]] # "none"
                                  ELSE tun[V!Tunnel(e)] = Remote[e]

\* A connection that is served has its ports on the bridge, those of other
\* connections that share them notwithstanding, and the rules of l2ovsconnect take
\* what enters at one out at the other, in both directions.  The client's port is
\* never lost; the endpoint's only to a refresh of the connection's own that was
\* closed, and the rules only to one, or to an add-flow that fails without an error.
EndToEnd ==
  \A x \in Conn : Serving(x) =>
    /\ Plugged(S(x))
    /\ ~MayRecall(x) /\ "refresh" \notin FlowFaults[x] => Plugged(C(x))
    /\ L!Told(x) => L!Passes(x) = {"toEndpoint", "toClient"}

\* What the chain promises of l2ovsconnect (a "chain element which cross connects
\* both client and endpoint"): a served connection passes packets.
ServedHasRules ==
  \A x \in Conn :
    Phase(S(x)) = "up" /\ lpc[x] = "up" => L!Passes(x) = {"toEndpoint", "toClient"}

\* The rules of a connection in the flow table.
RulesOf(x) == flows \cap {L!ToEndpoint[x], L!ToClient[x]}

\* Whether a rule's port is on the bridge, whoever has plugged it.
PortThere(e) ==
  IF e \in KernelEnds
  THEN K!Target(e) # NoPort /\ bridge[K!Target(e)] # "none"
  ELSE tun[V!Tunnel(e)] # NoTunnel

\* A rule names a port that is gone only while the connection it was written for
\* is being closed: the endpoint's port goes before the rules (l2ConnectClient,
\* Close), but no rule is ever left that names it (when deletions succeed, and no
\* refresh has closed the endpoint's port alone).
DanglingOnlyWhileClosing ==
  \A x \in Conn :
    ~MayRecall(x) /\ RulesOf(x) # {} /\ ~(PortThere(S(x)) /\ PortThere(C(x)))
    => lpc[x] \in {"closing", "del1", "del2"}

\* A connection whose server element has returned an error, or has been closed, has no
\* rule in the flow table: every error path below deletes what it added, the refreshes
\* that were closed and the rules of others notwithstanding (when deletions succeed).
NoRuleLeft == \A x \in Conn : Phase(S(x)) = "idle" => RulesOf(x) = {}

\* Where a server end is while the client chain works for its connection.
Waiting == {"next", "up", "refresh", "closing"}

\* When a server element takes its port down, or has nothing more to do, the client
\* end is down and no rule of the connection is being written or deleted: the chain
\* unwinds from its far end, on an error as on a Close.
UnwoundFirst ==
  \A x \in Conn : Phase(S(x)) \notin Waiting =>
    Phase(C(x)) = "idle" /\ lpc[x] \in {"idle", "release"}

\* Every Request and every Close comes back up the whole chain.
ChainReturns ==
  \A x \in Conn :
    Phase(S(x)) \notin {"idle", "up"} ~> Phase(S(x)) \in {"idle", "up"}
=============================================================================
