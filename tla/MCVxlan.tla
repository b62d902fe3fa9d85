------------------------------ MODULE MCVxlan ------------------------------
(***************************************************************************)
(* Instances of VxlanMech.  Ends whose names start with s are server ends,  *)
(* c are client ends.                                                       *)
(***************************************************************************)
EXTENDS VxlanMech

FarA == <<10, 0, 0, 1>>
FarB == <<10, 0, 0, 2>>

\* Three ends share one tunnel.  The fourth, a client end, has its own, and is the
\* one that a failed refresh may close.
FourEnds == {"s1", "s2", "c1", "c2"}
TwoRemotes == [e \in End |-> IF e = "c2" THEN FarB ELSE FarA]
NoFaults == [e \in End |-> {}]

\* Everything may fail but what a client end does before it counts; at "c1" the port
\* number can always be read, so that only a missing tunnel makes its add fail.
LateFaults ==
  [e \in End |-> CASE e = "c2" -> {"ofport", "delete", "refresh"}
                   [] e = "c1" -> {"delete"}
                   [] OTHER    -> AddFailures \cup {"delete"}]

\* No fault that leaks.
CleanFaults ==
  [e \in End |-> CASE e = "c2" -> {"ofport", "refresh"}
                   [] e = "c1" -> {"ofport"}
                   [] OTHER    -> {"ip", "new"}]

\* A failed refresh closes nobody else's tunnel.
ASSUME InstanceRemovesOnce == RemovedOnce

\* Two client ends of one remote, one of which may fail to create the tunnel.
TwoClients == {"c1", "c2"}
OneRemote == [e \in End |-> FarA]
CreateFault == [e \in End |-> IF e = "c1" THEN {"new"} ELSE {}]

\* Two remotes whose addresses differ in where the dots are.
ClashingRemotes ==
  [e \in End |-> IF e = "c1" THEN <<10, 1, 11, 1>> ELSE <<10, 11, 1, 1>>]
=============================================================================
