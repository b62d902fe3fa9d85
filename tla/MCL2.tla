-------------------------------- MODULE MCL2 --------------------------------
(***************************************************************************)
(* Instance of L2Connect.  Connections: a local one and a remote one that   *)
(* end at the same endpoint port with their own VLAN ids, one that leaves   *)
(* through the tunnel the remote one enters by, and a vlan breakout.        *)
(***************************************************************************)
EXTENDS L2Connect

Local(p, v) == [port |-> p, tunnel |-> FALSE, vlan |-> v, vni |-> 0]
Tunnel(n) == [port |-> "tunnel", tunnel |-> TRUE, vlan |-> 0, vni |-> n]

Clients ==
  [x \in Conn |-> CASE x = "in" -> Tunnel(1) [] OTHER -> Local(x, 0)]

Endpoints ==
  [x \in Conn |-> CASE x = "a"   -> Local("nse", 1)
                    [] x = "in"  -> Local("nse", 2)
                    [] x = "out" -> Tunnel(2)
                    [] OTHER     -> Local("none", 0)]

\* Anything may go wrong for the connection that shares both its ports, and what
\* leaves rules behind for the two it shares them with.
FlowFaults ==
  [x \in Conn |-> CASE x = "in"  -> {"add", "quiet", "refresh"}
                    [] x = "out" -> {"add", "delete"}
                    [] x = "a"   -> {"add", "clean"}
                    [] OTHER     -> {}]

\* The instance satisfies the hypotheses.
ASSUME InstancePoints == PortsApart /\ DistinctPoints
=============================================================================
