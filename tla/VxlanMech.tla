----------------------------- MODULE VxlanMech -----------------------------
(***************************************************************************)
(* The vxlan mechanism of the OVS forwarder: vxlanServer and vxlanClient    *)
(* (mechanisms/vxlan).  All connection ends towards one remote forwarder    *)
(* share one tunnel port of the integration bridge, kept in a reference     *)
(* count map that server and client elements share under one mutex.         *)
(*                                                                         *)
(* add and remove hold the mutex from their first look at the map to their  *)
(* return, so each is one action; the calls to the next chain element       *)
(* between them are separate steps.  Unlike the kernel elements, remove is  *)
(* called whether or not the end has counted anything.                      *)
(***************************************************************************)
EXTENDS TunnelNames, FiniteSets

CONSTANTS
  End,        \* connection ends whose mechanism is vxlan
  Clients,    \* the ends served by vxlanClient (metadata.IsClient)
  Remote,     \* Remote[e]: the address of the forwarder at the other end
  Faults,     \* Faults[e]: what may go wrong for e
  CanRestart, \* whether the forwarder process may be restarted
  MaxCount,   \* bound of the model: where a leaking count stops growing
  NoTunnel

Tunnel(e) == TunnelPortName(Remote[e])
Port == {Tunnel(e) : e \in End}

\* No address in the mechanism, add-port, get ofport, del-port, and a refresh.
AddFailures == {"ip", "new", "ofport"}
Failures == AddFailures \cup {"delete", "refresh"}

\* A refresh of e may fail in an element between l2ovsconnect and the client
\* element, once the latter has succeeded: it is closed, and its entry stays.
MayCloseOnRefresh(e) == "refresh" \in Faults[e]

ASSUME VxlanAssumption ==
  /\ IsFiniteSet(End) /\ Clients \subseteq End
  /\ Remote \in [End -> IPv4] /\ NoTunnel \notin IPv4
  /\ Faults \in [End -> SUBSET Failures]
  /\ CanRestart \in BOOLEAN /\ MaxCount \in Nat

\* The hypotheses under which an established end has its tunnel: vxlanClient removes
\* at Close once more what a failed refresh has closed, which nobody may share.
DistinctNames == \A d, e \in End : Tunnel(d) = Tunnel(e) => Remote[d] = Remote[e]
ClientsCountFirst == \A e \in Clients : Faults[e] \cap {"ip", "new"} = {}

RemovedOnce ==
  \A e \in Clients : MayCloseOnRefresh(e) => \A d \in End \ {e} : Tunnel(d) # Tunnel(e)

\* The one under which no count and no tunnel leaks: a server end does not fail
\* after it has counted, a port can be deleted, and no process dies.
NothingLeaks ==
  /\ \A e \in End : Faults[e] \cap {"ofport", "delete"} \subseteq
                      IF e \in Clients THEN {"ofport"} ELSE {}
  /\ CanRestart = FALSE
  /\ RemovedOnce

VARIABLES
  pc,       \* where the handler of e is; "up" is an established connection
  refCount, \* vxlanInterfacesMap
  held,     \* the ends that have counted their tunnel and will remove it
  tun       \* the remote_ip of each tunnel port on the bridge

vars == <<pc, refCount, held, tun>>

Absent == 0   \* no entry: the map is read without checking for one

TypeOK ==
  /\ pc \in [End -> {"idle", "add", "next", "undo", "up", "refresh", "closing",
                     "remove", "recall", "kept"}]
  /\ refCount \in [Port -> Nat]
  /\ held \subseteq End
  /\ tun \in [Port -> IPv4 \cup {NoTunnel}]

Init ==
  /\ pc = [e \in End |-> "idle"]
  /\ refCount = [p \in Port |-> Absent]
  /\ held = {}
  /\ tun = [p \in Port |-> NoTunnel]

Goto(e, from, to) == pc[e] = from /\ pc' = [pc EXCEPT ![e] = to]

-----------------------------------------------------------------------------
(* add and remove.                                                         *)

\* "outcome" is where add stops, or "ok".  The port number of a port that is
\* not there is empty, and no number.
CanEnd(e, outcome) ==
  LET counted == refCount[Tunnel(e)] # Absent
      present == counted => tun[Tunnel(e)] # NoTunnel
  IN \/ outcome = "ip" /\ "ip" \in Faults[e]
     \/ outcome = "new" /\ ~counted /\ "new" \in Faults[e]
     \/ outcome = "ofport" /\ ("ofport" \in Faults[e] \/ ~present)
     \/ outcome = "ok" /\ present

\* The count is taken before the port number is asked for.
Counts(outcome) == outcome \in {"ofport", "ok"}

\* Mutant of Add: only the end that creates the tunnel counts.
AddCountsOnce(e, outcome) ==
  LET n == Tunnel(e) IN
  /\ CanEnd(e, outcome)
  /\ refCount' = IF Counts(outcome) THEN [refCount EXCEPT ![n] = 1] ELSE refCount
  /\ tun' = IF Counts(outcome) /\ refCount[n] = Absent
            THEN [tun EXCEPT ![n] = Remote[e]] ELSE tun

Add(e, outcome) ==
  LET n == Tunnel(e) IN
  /\ CanEnd(e, outcome)
  /\ refCount' = IF Counts(outcome) THEN [refCount EXCEPT ![n] = @ + 1] ELSE refCount
  /\ tun' = IF Counts(outcome) /\ refCount[n] = Absent
            THEN [tun EXCEPT ![n] = Remote[e]] ELSE tun

\* Mutant of Remove: the tunnel goes when one user is left.
RemoveEarly(e) ==
  LET n == Tunnel(e) IN
  /\ refCount[n] > 0
  /\ refCount' = [refCount EXCEPT ![n] = @ - 1]
  /\ tun' = IF refCount[n] <= 2 THEN [tun EXCEPT ![n] = NoTunnel] ELSE tun

\* Mutant of Remove: the count stays with the port deleted.
RemoveKeepsCount(e) ==
  LET n == Tunnel(e) IN
  /\ tun' = IF refCount[n] <= 1 THEN [tun EXCEPT ![n] = NoTunnel] ELSE tun
  /\ refCount' = IF refCount[n] > 1 THEN [refCount EXCEPT ![n] = @ - 1] ELSE refCount

\* The last user deletes the port, and keeps the count when it cannot.
Remove(e) ==
  LET n == Tunnel(e) IN
  \/ refCount[n] = Absent /\ UNCHANGED <<refCount, tun>>
  \/ /\ refCount[n] = 1
     /\ "delete" \in Faults[e] \/ tun[n] = NoTunnel
     /\ UNCHANGED <<refCount, tun>>
  \/ /\ refCount[n] = 1 /\ tun[n] # NoTunnel
     /\ refCount' = [refCount EXCEPT ![n] = Absent]
     /\ tun' = [tun EXCEPT ![n] = NoTunnel]
  \/ /\ refCount[n] > 1
     /\ refCount' = [refCount EXCEPT ![n] = @ - 1]
     /\ UNCHANGED tun

-----------------------------------------------------------------------------
(* Request.                                                                *)

\* A server end adds its tunnel before it calls next, a client end after.
Request(e) ==
  /\ Goto(e, "idle", IF e \in Clients THEN "next" ELSE "add")
  /\ UNCHANGED <<refCount, held, tun>>

AddOk(e) ==
  /\ Goto(e, "add", IF e \in Clients THEN "up" ELSE "next")
  /\ Add(e, "ok")
  /\ held' = held \cup {e}

\* Mutant of AddFails: a failed add always gives one back.
AddFailsDecrements(e) ==
  \E outcome \in AddFailures :
    /\ Goto(e, "add", IF e \in Clients THEN "closing" ELSE "idle")
    /\ CanEnd(e, outcome) /\ ~Counts(outcome)
    /\ refCount' = [refCount EXCEPT ![Tunnel(e)] = @ - 1]
    /\ UNCHANGED <<held, tun>>

\* A client end closes itself, which removes; a server end only returns, so
\* that what it counted leaks, up to MaxCount.
AddFails(e) ==
  \E outcome \in AddFailures :
    /\ Goto(e, "add", IF e \in Clients THEN "closing" ELSE "idle")
    /\ Counts(outcome) /\ e \notin Clients => refCount[Tunnel(e)] < MaxCount
    /\ Add(e, outcome)
    /\ held' = IF e \in Clients /\ Counts(outcome) THEN held \cup {e} ELSE held

NextOk(e) ==
  /\ Goto(e, "next", IF e \in Clients THEN "add" ELSE "up")
  /\ UNCHANGED <<refCount, held, tun>>

\* A server end finds its ifnames entry, deletes it, and removes.
NextFails(e) ==
  /\ Goto(e, "next", IF e \in Clients THEN "idle" ELSE "undo")
  /\ UNCHANGED <<refCount, held, tun>>

\* Mutant of Undo: the tunnel of a failed Request is not removed.
UndoKeeps(e) ==
  /\ Goto(e, "undo", "idle")
  /\ held' = held \ {e}
  /\ UNCHANGED <<refCount, tun>>

Undo(e) ==
  /\ Goto(e, "undo", "idle")
  /\ Remove(e)
  /\ held' = held \ {e}

\* A Request on an established connection only calls next.
Refresh(e) ==
  /\ Goto(e, "up", "refresh")
  /\ UNCHANGED <<refCount, held, tun>>

RefreshReturns(e) ==
  /\ Goto(e, "refresh", "up")
  /\ UNCHANGED <<refCount, held, tun>>

-----------------------------------------------------------------------------
(* Close.                                                                  *)

\* An end that a failed refresh has closed is closed once more, with its connection.
Close(e) ==
  /\ Goto(e, "up", "closing") \/ Goto(e, "kept", "closing")
  /\ UNCHANGED <<refCount, held, tun>>

NextClosed(e) ==
  /\ Goto(e, "closing", "remove")
  /\ UNCHANGED <<refCount, held, tun>>

CloseRemove(e) ==
  /\ Goto(e, "remove", "idle")
  /\ Remove(e)
  /\ held' = held \ {e}

\* The element above has failed and closes the client element, which removes whether
\* or not it has before; nobody deletes the entry, so that no Request adds again.
Recall(e) ==
  /\ e \in Clients /\ MayCloseOnRefresh(e)
  /\ Goto(e, "up", "recall") \/ Goto(e, "kept", "recall")
  /\ UNCHANGED <<refCount, held, tun>>

RecallRemove(e) ==
  /\ Goto(e, "recall", "kept")
  /\ Remove(e)
  /\ held' = held \ {e}

\* A new process starts with an empty map; the tunnel ports survive it.
Restart ==
  /\ CanRestart
  /\ pc' = [e \in End |-> "idle"]
  /\ refCount' = [p \in Port |-> Absent]
  /\ held' = {}
  /\ UNCHANGED tun

-----------------------------------------------------------------------------
Step(e) ==
  \/ Request(e) \/ Refresh(e) \/ Close(e) \/ Recall(e) \/ RecallRemove(e)
  \/ AddOk(e) \/ AddFails(e) \/ NextOk(e) \/ NextFails(e) \/ Undo(e)
  \/ RefreshReturns(e) \/ NextClosed(e) \/ CloseRemove(e)

Next == (\E e \in End : Step(e)) \/ Restart

Spec == Init /\ [][Next]_vars

-----------------------------------------------------------------------------
(* Properties.                                                             *)

Users(p) == {e \in held : Tunnel(e) = p}

\* The count of a tunnel is never below the number of ends that use it,
\* through every failure and restart (vxlanRefCountMap, common.go).
NeverUndercounted == \A p \in Port : refCount[p] >= Cardinality(Users(p))

\* An established end has a tunnel, and it leads to that end's remote: no
\* other end's setup or close deletes it or turns it elsewhere.
TunnelLeadsToRemote ==
  \A e \in End : pc[e] \in {"up", "refresh"} => tun[Tunnel(e)] = Remote[e]

\* An add fails only if a command does: no count that an earlier connection, a
\* failure or a restart has left makes it look for a tunnel that is not there.
AddFailsOnlyOnFault ==
  \A e \in End : pc[e] = "add" =>
    \A outcome \in AddFailures : CanEnd(e, outcome) => outcome \in Faults[e]

\* When no end is connecting, connected or closing, no tunnel is left: what was
\* added is removed, however often a failed refresh has closed the end before.
NoTunnelWhenIdle ==
  (\A e \in End : pc[e] = "idle") => \A p \in Port : tun[p] = NoTunnel

\* When nothing leaks, a tunnel is there while it has users: the first of them
\* creates it and the last deletes it, whoever fails in between (add, remove).
Shared == INSTANCE SharedPort WITH
  User <- End,
  users <- [p \in Port |-> Users(p)],
  plugged <- {p \in Port : tun[p] # NoTunnel}
ImplementsSharedPort == Shared!Spec
=============================================================================
