---------------------------- MODULE MCForwarder ----------------------------
(***************************************************************************)
(* Instances of Forwarder.  Connection "a" leaves through a tunnel to the   *)
(* remote forwarder from which "b" arrives, so that they share the tunnel.  *)
(* The client of "a" has a veth pair, the endpoint of "b" a smart VF.       *)
(***************************************************************************)
EXTENDS Forwarder

Kernel == {S("a"), C("b")} \cap Ends
Smart == {C("b")} \cap Ends
OneService == [e \in KernelEnds |-> "svc"]
Names == [e \in KernelEnds |-> IF e = S("a") THEN "veth" ELSE "vf"]

FarAway == <<10, 0, 0, 1>>
OneRemote == [e \in Ends \ KernelEnds |-> FarAway]

\* What a kernel server end rolls back, what a vxlan end does not leak, and a refresh
\* of "b" that closes its VF; a refresh of "b" may also fail above l2ovsconnect.
Rollbacks ==
  [e \in KernelEnds |-> IF e = S("a") THEN {"port", "ofport", "delport"} ELSE {"refresh"}]
TunnelFaults == [e \in Ends \ KernelEnds |-> IF e = C("a") THEN {"ofport"} ELSE {"new"}]
RuleFaults == [x \in Conn |-> IF x = "a" THEN {"add"} ELSE {"add", "refresh"}]

\* Nothing fails but a refresh.
NoKernelFaults == [e \in KernelEnds |-> {}]
NoVxlanFaults == [e \in Ends \ KernelEnds |-> {}]
RefreshFails == [x \in Conn |-> {"refresh"}]

Port(p) == [port |-> p, tunnel |-> FALSE, vlan |-> 0, vni |-> 0]
Tunnel(n) == [port |-> "tunnel", tunnel |-> TRUE, vlan |-> 0, vni |-> n]
PortInfo ==
  [e \in Ends |-> CASE e = S("a") -> Port("veth") [] e = C("a") -> Tunnel(1)
                    [] e = S("b") -> Tunnel(2)    [] e = C("b") -> Port("vf")]

\* The instance satisfies the hypotheses of the components, and the facts about
\* ports and addresses from which they follow.
ASSUME InstanceApart == Apart /\ V!SameWidths /\ L!PortsApart
=============================================================================
