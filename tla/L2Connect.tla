----------------------------- MODULE L2Connect -----------------------------
(***************************************************************************)
(* The cross connect of the OVS forwarder: l2ConnectClient with             *)
(* createLocalCrossConnect, createRemoteCrossConnect and their deletions    *)
(* (l2ovsconnect).  It joins the client's port and the endpoint's port of a *)
(* connection with two OpenFlow rules of the integration bridge.            *)
(*                                                                         *)
(* Connections may share an endpoint's port, told apart by VLAN id, and a   *)
(* tunnel port, told apart by VNI.  No lock covers the flow table: every    *)
(* add-flow and del-flows is a step of its own, and so is each call to the  *)
(* next element.                                                            *)
(***************************************************************************)
EXTENDS Integers, Sequences

CONSTANTS
  Conn,         \* the connections
  VlanConns,    \* those whose mechanism is vlan, which need no flows
  ClientInfo,   \* the OvsPortInfo a server element stores for a connection
  EndpointInfo, \* the OvsPortInfo a client element stores
  Faults,       \* Faults[x]: what may go wrong for x
  CanRestart    \* whether the forwarder process may be restarted

\* A command may fail without an effect: add-flow, del-flows, and del-flows at
\* start; add-flow may also say so on stderr alone, and exit 0.  A refresh may
\* fail in an element above, after the client chain has succeeded.
FlowFailures == {"add", "delete", "clean", "quiet", "refresh"}

PortInfo == [port : STRING, tunnel : BOOLEAN, vlan : Nat, vni : Nat]

ASSUME L2Assumption ==
  /\ VlanConns \subseteq Conn
  /\ ClientInfo \in [Conn -> PortInfo] /\ EndpointInfo \in [Conn -> PortInfo]
  /\ Faults \in [Conn -> SUBSET FlowFailures] /\ CanRestart \in BOOLEAN

VARIABLES
  pc,       \* where l2ConnectClient is with a connection
  client,   \* its client entry: none, stored, or stored and IsCrossConnected
  endpoint, \* the connections whose endpoint entry is stored
  flows     \* the flow table of the integration bridge

vars == <<pc, client, endpoint, flows>>

-----------------------------------------------------------------------------
(* Flows.  A point is what a rule matches: a port, and a VLAN id, a VNI or  *)
(* nothing else; a flow takes what enters at one point out at another.      *)

Any == <<"any", 0>>

LocalPoint(i) ==
  [port |-> i.port, tag |-> IF i.vlan > 0 THEN <<"vlan", i.vlan>> ELSE Any]
TunnelPoint(i) == [port |-> i.port, tag |-> <<"vni", i.vni>>]

EndpointPoint ==
  [x \in Conn |-> IF EndpointInfo[x].tunnel THEN TunnelPoint(EndpointInfo[x])
                                            ELSE LocalPoint(EndpointInfo[x])]

\* The client's port is local when the endpoint's is a tunnel, whatever it is,
\* and its VLAN id is not looked at.
ClientPoint ==
  [x \in Conn |-> IF ClientInfo[x].tunnel /\ ~EndpointInfo[x].tunnel
                  THEN TunnelPoint(ClientInfo[x])
                  ELSE [port |-> ClientInfo[x].port, tag |-> Any]]

ToEndpoint == [x \in Conn |-> [from |-> ClientPoint[x], to |-> EndpointPoint[x]]]
ToClient == [x \in Conn |-> [from |-> EndpointPoint[x], to |-> ClientPoint[x]]]

\* Mutant of FirstFlow: a port is joined with itself.
FirstFlowHairpin == [x \in Conn |-> [from |-> ClientPoint[x], to |-> ClientPoint[x]]]

\* The order of the two commands: a rule towards the tunnel comes first.
FirstFlow ==
  [x \in Conn |-> IF EndpointInfo[x].tunnel THEN ToEndpoint[x] ELSE ToClient[x]]
SecondFlow ==
  [x \in Conn |-> IF EndpointInfo[x].tunnel THEN ToClient[x] ELSE ToEndpoint[x]]

\* add-flow replaces the rule with the same match; del-flows deletes every
\* rule its match covers.
AddFlow(f) == flows' = {g \in flows : g.from # f.from} \cup {f}
Covers(m, p) == m.port = p.port /\ m.tag \in {Any, p.tag}

\* Mutant of DelFlows: neither VLAN id nor VNI is matched.
DelFlowsPort(m) == flows' = {g \in flows : g.from.port # m.port}

DelFlows(m) == flows' = {g \in flows : ~Covers(m, g.from)}

-----------------------------------------------------------------------------
TypeOK ==
  /\ pc \in [Conn -> {"idle", "next", "add1", "add2", "up", "refresh",
                      "closing", "del1", "del2", "release"}]
  /\ client \in [Conn -> {"none", "stored", "connected"}]
  /\ endpoint \subseteq Conn
  /\ flows \subseteq {ToClient[x] : x \in Conn} \cup {ToEndpoint[x] : x \in Conn}

Init ==
  /\ pc = [x \in Conn |-> "idle"]
  /\ client = [x \in Conn |-> "none"]
  /\ endpoint = {}
  /\ flows = {}

Goto(x, from, to) == pc[x] = from /\ pc' = [pc EXCEPT ![x] = to]

\* The server elements have stored the client entry, or have kept it, and called
\* the client chain.
Request(x) ==
  /\ Goto(x, "idle", "next")
  /\ client' = [client EXCEPT ![x] = IF @ = "none" THEN "stored" ELSE @]
  /\ UNCHANGED <<endpoint, flows>>

\* Next stored the endpoint entry; for vlan, it may have moved the client port.
\* No rule is added for a client port that was cross connected when called.
NextOk(x) ==
  /\ Goto(x, "next",
          IF x \in VlanConns \/ client[x] = "connected" THEN "up" ELSE "add1")
  /\ endpoint' = IF x \in VlanConns THEN endpoint ELSE endpoint \cup {x}
  /\ client' \in {client} \cup {[client EXCEPT ![x] = "connected"] : y \in VlanConns \cap {x}}
  /\ UNCHANGED flows

NextFails(x) ==
  /\ Goto(x, "next", "release")
  /\ UNCHANGED <<client, endpoint, flows>>

AddFirst(x) ==
  /\ Goto(x, "add1", "add2")
  /\ AddFlow(FirstFlow[x]) \/ ("quiet" \in Faults[x] /\ UNCHANGED flows)
  /\ UNCHANGED <<client, endpoint>>

\* Mutant of AddSecond: the second direction is never added.
AddSecondForgets(x) ==
  /\ Goto(x, "add2", "up")
  /\ client' = [client EXCEPT ![x] = "connected"]
  /\ UNCHANGED <<endpoint, flows>>

\* A failure that add-flow tells on stderr only is logged, and both ports count as
\* cross connected all the same.
AddSecond(x) ==
  /\ Goto(x, "add2", "up")
  /\ AddFlow(SecondFlow[x]) \/ ("quiet" \in Faults[x] /\ UNCHANGED flows)
  /\ client' = [client EXCEPT ![x] = "connected"]
  /\ UNCHANGED endpoint

\* Mutant of AddFails: the error is returned without a Close.
AddFailsReturns(x) ==
  /\ "add" \in Faults[x]
  /\ Goto(x, "add1", "release") \/ Goto(x, "add2", "release")
  /\ endpoint' = endpoint \ {x}
  /\ UNCHANGED <<client, flows>>

\* Either command fails: the element closes itself.
AddFails(x) ==
  /\ "add" \in Faults[x]
  /\ Goto(x, "add1", "closing") \/ Goto(x, "add2", "closing")
  /\ UNCHANGED <<client, endpoint, flows>>

\* A Request on a connection that is up calls next, and stays up whatever next
\* answers; the rules are added again if the client port is not cross connected.
Refresh(x) ==
  /\ Goto(x, "up", "refresh")
  /\ UNCHANGED <<client, endpoint, flows>>

RefreshReturns(x) ==
  /\ Goto(x, "refresh",
          IF client[x] = "connected" \/ x \in VlanConns THEN "up" ELSE "add1")
  /\ UNCHANGED <<client, endpoint, flows>>

\* The connection is closed, or an element above has failed; what a failed refresh
\* has closed before is closed again, with the connection.
Close(x) ==
  /\ Goto(x, "up", "closing") \/ (client[x] # "none" /\ Goto(x, "idle", "closing"))
  /\ UNCHANGED <<client, endpoint, flows>>

\* Without an endpoint entry there is nothing to delete.
NextClosed(x) ==
  /\ Goto(x, "closing", IF x \in endpoint THEN "del1" ELSE "release")
  /\ UNCHANGED <<client, endpoint, flows>>

\* Mutant of DeleteFirst: it is the last deletion.
DeleteFirstOnly(x) ==
  /\ Goto(x, "del1", "release")
  /\ DelFlows(FirstFlow[x].from)
  /\ endpoint' = endpoint \ {x}
  /\ UNCHANGED client

DeleteFirst(x) ==
  /\ Goto(x, "del1", "del2")
  /\ DelFlows(FirstFlow[x].from)
  /\ UNCHANGED <<client, endpoint>>

\* The endpoint entry is deleted whatever became of the flows.
DeleteSecond(x) ==
  /\ Goto(x, "del2", "release")
  /\ DelFlows(SecondFlow[x].from)
  /\ endpoint' = endpoint \ {x}
  /\ UNCHANGED client

\* The first failure ends the deletion, so that both rules or one are left.
DeleteFails(x) ==
  /\ "delete" \in Faults[x]
  /\ Goto(x, "del1", "release") \/ Goto(x, "del2", "release")
  /\ endpoint' = endpoint \ {x}
  /\ UNCHANGED <<client, flows>>

\* Back in the server element, which deletes the client entry.
Release(x) ==
  /\ Goto(x, "release", "idle")
  /\ client' = [client EXCEPT ![x] = "none"]
  /\ UNCHANGED <<endpoint, flows>>

\* Back in the server element, whose Request was a refresh: the error is returned,
\* and the client entry stays with what it says, IsCrossConnected or IsL2Connect.
Keep(x) ==
  /\ "refresh" \in Faults[x]
  /\ client[x] = "connected" \/ x \in VlanConns
  /\ Goto(x, "release", "idle")
  /\ UNCHANGED <<client, endpoint, flows>>

\* A new process deletes the flows; if that fails, it only warns.
Restart ==
  /\ CanRestart
  /\ pc' = [x \in Conn |-> "idle"]
  /\ client' = [x \in Conn |-> "none"]
  /\ endpoint' = {}
  /\ flows' \in {{}} \cup {flows : x \in {y \in Conn : "clean" \in Faults[y]}}

Step(x) ==
  \/ Request(x) \/ NextOk(x) \/ NextFails(x) \/ Refresh(x) \/ RefreshReturns(x)
  \/ AddFirst(x) \/ AddSecond(x) \/ AddFails(x)
  \/ Close(x) \/ NextClosed(x) \/ Release(x) \/ Keep(x)
  \/ DeleteFirst(x) \/ DeleteSecond(x) \/ DeleteFails(x)

Next == (\E x \in Conn : Step(x)) \/ Restart

Spec == Init /\ [][Next]_vars

-----------------------------------------------------------------------------
(* Properties.                                                             *)

Wired == Conn \ VlanConns
Points(x) == {ClientPoint[x], EndpointPoint[x]}

\* The hypothesis on the ports: what enters at a point of one connection is
\* not matched by the rules of another, nor by the other rule of its own.
DistinctPoints ==
  /\ \A x \in Wired : ClientPoint[x].port # EndpointPoint[x].port
  /\ \A x, y \in Wired : x # y =>
       \A p \in Points(x), q \in Points(y) : ~Covers(p, q)

\* The same of what the ports are: no connection enters and leaves by tunnels, the
\* client's port is not shared, an endpoint's is by connections whose VLAN ids
\* differ and a tunnel port by connections whose VNIs do.
Sides == {"client", "endpoint"} \X Wired
InfoAt(s) == IF s[1] = "client" THEN ClientInfo[s[2]] ELSE EndpointInfo[s[2]]

PortsApart ==
  /\ \A x \in Wired : ~(ClientInfo[x].tunnel /\ EndpointInfo[x].tunnel)
  /\ \A s, t \in Sides : s # t /\ InfoAt(s).port = InfoAt(t).port =>
       \/ InfoAt(s).tunnel /\ InfoAt(t).tunnel /\ InfoAt(s).vni # InfoAt(t).vni
       \/ /\ ~InfoAt(s).tunnel /\ ~InfoAt(t).tunnel
          /\ s[1] = "endpoint" /\ t[1] = "endpoint"
          /\ InfoAt(s).vlan > 0 /\ InfoAt(t).vlan > 0 /\ InfoAt(s).vlan # InfoAt(t).vlan

\* The connections l2ovsconnect is told of when something fails: their add-flow
\* fails with an error, and no refresh of theirs is closed from above, which leaves
\* them marked as cross connected without a rule.
Told(x) == Faults[x] \cap {"quiet", "refresh"} = {}
Assured == {x \in Wired : Told(x)}

Established == {x \in Assured : pc[x] \in {"up", "refresh"}}

\* The rules that match what enters at p, and the directions in which a connection
\* passes packets.
Matching(p) == {f \in flows : Covers(f.from, p)}

Passes(x) ==
  {d \in {"toEndpoint", "toClient"} :
    IF d = "toEndpoint" THEN Matching(ClientPoint[x]) = {ToEndpoint[x]}
                        ELSE Matching(EndpointPoint[x]) = {ToClient[x]}}

Reach == [x \in Assured |-> Passes(x)]

\* While a connection is established, what the client sends is matched by one
\* rule, which takes it to the endpoint, and the other way round; no failed
\* add-flow or del-flows of any connection, no leaked rule, and no closing of
\* a connection that shares a port changes this (local.go, remote.go), nor does
\* a refresh of another one that is closed from above.
CrossConnected ==
  \A x \in Established : Reach[x] = {"toEndpoint", "toClient"}

\* When deletions succeed, a connection that is closed, has failed, or was closed
\* from above leaves no rule behind (deleteLocalCrossConnect,
\* deleteRemoteCrossConnect).
NoFlowLeft ==
  \A x \in Wired : pc[x] = "idle" => \A f \in flows : f.from \notin Points(x)

\* The element keeps its promise: connections are wired and taken down one
\* direction at a time, each alone, and never while established.
Promise == INSTANCE CrossConnect WITH
  Conn <- Assured, established <- Established, reach <- Reach
ImplementsCrossConnect == Promise!Spec
=============================================================================
