------------------------------ MODULE VlanMech ------------------------------
(***************************************************************************)
(* The vlan mechanism of the OVS forwarder: mtuClient around vlanClient      *)
(* (mechanisms/vlan), in a forwarder that Bootstrap has started.             *)
(*                                                                         *)
(* For a connection whose "via" label names an L2 egress point, vlanClient   *)
(* moves the client's port from the integration bridge to the bridge of that *)
(* point, and mtuClient lowers the MTU of the connection to that of the      *)
(* point's uplink, which it reads once and keeps in a cache all connections  *)
(* share.  The cache is safe to read and to write and nothing more: Load,    *)
(* getMTU and Store are steps of their own, as are the two commands of the   *)
(* move.  Any command may fail, and the MTU of an uplink may change.         *)
(***************************************************************************)
EXTENDS Bootstrap

CONSTANTS
  Conn,      \* the connections, whose mechanism is vlan
  Via,       \* Via[x]: the egress point its label names, or NoPoint
  AnswerMTU, \* the MTUs an endpoint may answer, 0 for none
  LinkMTU,   \* the MTUs an uplink may have
  Recalled,  \* the connections a failed refresh may close from above
  NoPoint

MaxMTU == 65535
Missing == -1     \* the MTU of an uplink that does not exist
NotCached == -1   \* no entry in mtus

ASSUME VlanAssumption ==
  /\ Via \in [Conn -> L2Point \cup {NoPoint}] /\ NoPoint \notin L2Point
  /\ AnswerMTU \subseteq Nat /\ LinkMTU \subseteq Nat /\ Recalled \subseteq Conn

VARIABLES
  pc,     \* where the handler of a connection is
  served, \* the connections whose Request has succeeded
  info,   \* the client's OvsPortInfo: none, a port, or one with IsL2Connect
  portOn, \* the bridge the client's port is on
  mtu,    \* the MTU in the context of the connection
  got,    \* what getMTU has returned to a handler
  cache,  \* mtus, by uplink
  mtuOf,  \* the MTU of each uplink, or Missing
  had     \* the MTUs an uplink has had while a request was about to read it; history,
          \* for MTUFits only

handler == <<pc, served, info, mtu, got>>
vlanVars == <<handler, portOn, cache, mtuOf, had>>
vars == <<bootVars, vlanVars>>

\* The uplink a connection leaves through, if its egress point has one.
Out(x) == IF Via[x] = NoPoint THEN NoLink ELSE Uplink[Via[x]]

VlanTypeOK ==
  /\ pc \in [Conn -> {"idle", "next", "unplug", "plug", "load", "get", "store",
                      "up", "abort", "undo", "closing"}]
  /\ served \subseteq Conn
  /\ info \in [Conn -> {"none", "port", "l2"}]
  /\ portOn \in [Conn -> EgressBridges \cup {Nsm, NoLink}]
  /\ mtu \in [Conn -> Nat] /\ got \in [Conn -> 0..MaxMTU]
  /\ cache \in [Uplinks -> 0..MaxMTU \cup {NotCached}]
  /\ mtuOf \in [Uplinks -> LinkMTU \cup {Missing}]
  /\ had \in [Uplinks -> SUBSET (LinkMTU \cup {Missing})]

TypeOK == BootTypeOK /\ VlanTypeOK

VlanInit ==
  /\ pc = [x \in Conn |-> "idle"]
  /\ served = {}
  /\ info = [x \in Conn |-> "none"]
  /\ portOn = [x \in Conn |-> NoLink]
  /\ mtu = [x \in Conn |-> 0] /\ got = [x \in Conn |-> 0]
  /\ cache = [u \in Uplinks |-> NotCached]
  /\ mtuOf \in [Uplinks -> LinkMTU]
  /\ had = [u \in Uplinks |-> {}]

Init == BootInit /\ VlanInit

Goto(x, from, to) == pc[x] = from /\ pc' = [pc EXCEPT ![x] = to]

\* del-port takes a port off the bridge it is on, or fails.
DelPort(x, b) ==
  portOn' \in {portOn} \cup {[portOn EXCEPT ![x] = NoLink] : y \in {x} \cap {z \in Conn : portOn[z] = b}}

-----------------------------------------------------------------------------
(* Request.                                                                *)

\* The server element has plugged the client's port; a port that another
\* bridge has is refused.
Request(x) ==
  /\ boot = "ready" /\ Nsm \in bridges
  /\ Goto(x, "idle", "next")
  /\ portOn[x] \in {NoLink, Nsm}
  /\ portOn' = [portOn EXCEPT ![x] = Nsm]
  /\ info' = [info EXCEPT ![x] = "port"]
  /\ UNCHANGED <<served, mtu, got, cache, mtuOf, had>>

\* The mtu element looks at nothing but vlan connections with a known "via"
\* whose point has an interface.
AfterBreakout(x) == IF Out(x) = NoLink THEN "up" ELSE "load"

\* The endpoint has answered; a port that was moved is not moved again.
NextOk(x) ==
  /\ Goto(x, "next", CASE Via[x] = NoPoint -> "up"
                       [] Via[x] # NoPoint /\ info[x] = "l2" -> AfterBreakout(x)
                       [] OTHER -> "unplug")
  /\ \E m \in AnswerMTU : mtu' = [mtu EXCEPT ![x] = m]
  /\ served' = IF Via[x] = NoPoint \/ (info[x] = "l2" /\ Out(x) = NoLink)
               THEN served \cup {x} ELSE served
  /\ UNCHANGED <<info, got, portOn, cache, mtuOf, had>>

\* Of an established connection, nothing is undone.
NextFails(x) ==
  /\ Goto(x, "next", IF x \in served THEN "up" ELSE "undo")
  /\ UNCHANGED <<served, info, mtu, got, portOn, cache, mtuOf, had>>

Unplug(x) ==
  /\ Goto(x, "unplug", "plug")
  /\ portOn' = [portOn EXCEPT ![x] = NoLink]
  /\ UNCHANGED <<served, info, mtu, got, cache, mtuOf, had>>

Plug(x) ==
  /\ Goto(x, "plug", AfterBreakout(x))
  /\ Bridge[Via[x]] \in bridges
  /\ portOn' = [portOn EXCEPT ![x] = Bridge[Via[x]]]
  /\ info' = [info EXCEPT ![x] = "l2"]
  /\ served' = IF Out(x) = NoLink THEN served \cup {x} ELSE served
  /\ UNCHANGED <<mtu, got, cache, mtuOf, had>>

\* Either command of the move fails.
MovePortFails(x) ==
  /\ Goto(x, "unplug", "abort") \/ Goto(x, "plug", "abort")
  /\ UNCHANGED <<served, info, mtu, got, portOn, cache, mtuOf, had>>

\* Mutant of Lowered: an endpoint that names no MTU gets none.
LoweredIfAbove(m, localMTU) == IF localMTU > 0 /\ m > localMTU THEN localMTU ELSE m

Lowered(m, localMTU) ==
  IF localMTU > 0 /\ (m > localMTU \/ m = 0) THEN localMTU ELSE m

Finished(x, localMTU) ==
  /\ mtu' = [mtu EXCEPT ![x] = Lowered(@, localMTU)]
  /\ served' = served \cup {x}

LoadHit(x) ==
  /\ Goto(x, "load", "up")
  /\ cache[Out(x)] # NotCached
  /\ Finished(x, cache[Out(x)])
  /\ UNCHANGED <<info, got, portOn, cache, mtuOf, had>>

LoadMiss(x) ==
  /\ Goto(x, "load", "get")
  /\ cache[Out(x)] = NotCached
  /\ had' = [had EXCEPT ![Out(x)] = @ \cup {mtuOf[Out(x)]}]
  /\ UNCHANGED <<served, info, mtu, got, portOn, cache, mtuOf>>

\* Mutant of GetMTU: any MTU is taken.
GetMTUUnchecked(x) ==
  /\ Goto(x, "get", "store")
  /\ got' = [got EXCEPT ![x] = IF mtuOf[Out(x)] = Missing THEN 0 ELSE mtuOf[Out(x)]]
  /\ UNCHANGED <<served, info, mtu, portOn, cache, mtuOf, had>>

\* An uplink that is missing has MTU 0, without an error.
GetMTU(x) ==
  /\ Goto(x, "get", "store")
  /\ mtuOf[Out(x)] <= MaxMTU
  /\ got' = [got EXCEPT ![x] = IF mtuOf[Out(x)] = Missing THEN 0 ELSE mtuOf[Out(x)]]
  /\ UNCHANGED <<served, info, mtu, portOn, cache, mtuOf, had>>

GetMTUFails(x) ==
  /\ Goto(x, "get", "abort")
  /\ mtuOf[Out(x)] > MaxMTU
  /\ UNCHANGED <<served, info, mtu, got, portOn, cache, mtuOf, had>>

\* Mutant of Store: no entry is made, and a refresh asks again.
StoreForgets(x) ==
  /\ Goto(x, "store", "up")
  /\ Finished(x, got[x])
  /\ got' = [got EXCEPT ![x] = 0]
  /\ UNCHANGED <<info, portOn, cache, mtuOf, had>>

Store(x) ==
  /\ Goto(x, "store", "up")
  /\ cache' = [cache EXCEPT ![Out(x)] = got[x]]
  /\ Finished(x, got[x])
  /\ got' = [got EXCEPT ![x] = 0]
  /\ UNCHANGED <<info, portOn, mtuOf, had>>

\* The element that failed has called Close, of itself and of what follows it.
Abort(x) ==
  /\ Goto(x, "abort", IF x \in served THEN "up" ELSE "undo")
  /\ DelPort(x, Bridge[Via[x]])
  /\ UNCHANGED <<served, info, mtu, got, cache, mtuOf, had>>

\* The server element resets the port on the integration bridge.
Undo(x) ==
  /\ Goto(x, "undo", "idle")
  /\ DelPort(x, Nsm)
  /\ mtu' = [mtu EXCEPT ![x] = 0]
  /\ info' = [info EXCEPT ![x] = "none"]
  /\ UNCHANGED <<served, got, cache, mtuOf, had>>

Refresh(x) ==
  /\ Goto(x, "up", "next")
  /\ UNCHANGED <<served, info, mtu, got, portOn, cache, mtuOf, had>>

\* A refresh succeeds here, which changes nothing but the answer, and then fails
\* in an element before mtuClient, which closes the chain below it.  The server
\* element keeps its entry, IsL2Connect and all: no refresh moves the port again.
Recall(x) ==
  /\ x \in served \cap Recalled /\ Via[x] # NoPoint
  /\ Goto(x, "next", "up")
  /\ DelPort(x, Bridge[Via[x]])
  /\ UNCHANGED <<served, info, mtu, got, cache, mtuOf, had>>

-----------------------------------------------------------------------------
(* Close, the uplinks, and the process.                                    *)

Close(x) ==
  /\ Goto(x, "up", "closing")
  /\ served' = served \ {x}
  /\ UNCHANGED <<info, mtu, got, portOn, cache, mtuOf, had>>

\* The vlan element takes the port off its egress bridge, or else the server
\* element takes it off the integration bridge.
Closed(x) ==
  /\ Goto(x, "closing", "idle")
  /\ DelPort(x, IF info[x] = "l2" THEN Bridge[Via[x]] ELSE Nsm)
  /\ mtu' = [mtu EXCEPT ![x] = 0]
  /\ info' = [info EXCEPT ![x] = "none"]
  /\ UNCHANGED <<served, got, cache, mtuOf, had>>

\* An uplink changes its MTU, disappears or appears.
UplinkChanges(u) ==
  \E m \in LinkMTU \cup {Missing} :
    /\ mtuOf' = [mtuOf EXCEPT ![u] = m]
    /\ had' = [had EXCEPT ![u] =
         @ \cup {m : x \in {y \in Conn : Out(y) = u /\ pc[y] = "get"}}]
    /\ UNCHANGED <<handler, portOn, cache>>

VlanRestart ==
  /\ pc' = [x \in Conn |-> "idle"]
  /\ served' = {}
  /\ info' = [x \in Conn |-> "none"]
  /\ mtu' = [x \in Conn |-> 0] /\ got' = [x \in Conn |-> 0]
  /\ cache' = [u \in Uplinks |-> NotCached]
  /\ had' = [u \in Uplinks |-> {}]
  /\ UNCHANGED <<portOn, mtuOf>>

VlanStep(x) ==
  \/ Request(x) \/ NextOk(x) \/ NextFails(x)
  \/ Unplug(x) \/ Plug(x) \/ MovePortFails(x)
  \/ LoadHit(x) \/ LoadMiss(x) \/ GetMTU(x) \/ GetMTUFails(x) \/ Store(x)
  \/ Abort(x) \/ Undo(x) \/ Refresh(x) \/ Recall(x) \/ Close(x) \/ Closed(x)

Next ==
  \/ BootStep /\ UNCHANGED vlanVars
  \/ BootRestart /\ VlanRestart
  \/ \E x \in Conn : VlanStep(x) /\ UNCHANGED bootVars
  \/ \E u \in Uplinks : UplinkChanges(u) /\ UNCHANGED bootVars

Spec == Init /\ [][Next]_vars

-----------------------------------------------------------------------------
(* Properties.                                                             *)

\* While a connection is served, through all of its refreshes, its port is on
\* the bridge of the egress point it asked for, and so is the uplink of that
\* point: no refresh of its own or of another connection takes it away, whatever
\* became of the uplink's MTU, and no start of the forwarder has plugged the
\* uplink elsewhere.  Only one that fails before mtuClient does (Recall).
BreakoutReachesUplink ==
  \A x \in served \ Recalled : Via[x] # NoPoint =>
    /\ portOn[x] = Bridge[Via[x]]
    /\ Out(x) # NoLink => uplinkOn[Out(x)] = Bridge[Via[x]]

\* What is left of an MTU m, 0 for none, behind a link of MTU n.
Behind(m, n, r) ==
  IF n \in {Missing, 0} THEN r = m
  ELSE r \in {m, n} \ {0} /\ r <= n /\ (m # 0 => r <= m)

Answers(x) == pc[x] \in {"load", "store"} /\ pc'[x] = "up"

\* The MTU a request answers with is the endpoint's behind a valid MTU of the
\* uplink, one the uplink has had while some request was filling the cache: two
\* fills that race may read different MTUs and store them in either order, and
\* the uplink may change before, between and after (mtuClient.Request).
MTUFits ==
  [][\A x \in Conn : Answers(x) =>
       \E n \in had[Out(x)] : n <= MaxMTU /\ Behind(mtu[x], n, mtu'[x])]_vars
=============================================================================
