------------------------------- MODULE MCVlan -------------------------------
(***************************************************************************)
(* Instances of VlanMech with Bootstrap.  Two selectors name one egress     *)
(* point and a connection leaves by each; a third names the bridge alone,   *)
(* without an uplink.  The uplink has the tunnel's address and an IPv6 one. *)
(***************************************************************************)
EXTENDS VlanMech

PointUplink == [v \in L2Point |-> IF v = "r" THEN NoLink ELSE "eth1"]
PointBridge == [v \in L2Point |-> "br1"]

Index == [l \in Link |-> IF l = "eth1" THEN 1 ELSE 2]

Masked == [a \in Addr |-> IF a = "tunnel4" THEN "net4" ELSE a]
AddrsAtStart == [l \in Link |-> IF l = "eth1" THEN {"tunnel4", "other6"} ELSE {}]

Label == [x \in Conn |-> IF x = "a" THEN "p" ELSE "q"]

\* The instances satisfy the hypotheses.
ASSUME InstanceAddrs == DistinctAddrs
=============================================================================
