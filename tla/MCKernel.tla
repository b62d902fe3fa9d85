------------------------------ MODULE MCKernel ------------------------------
(***************************************************************************)
(* Instances of KernelMech.  Ends whose names start with s are veth server *)
(* ends, v are SR-IOV ends, c are veth client ends.                        *)
(***************************************************************************)
EXTENDS KernelMech

NoFaults == [e \in End |-> {}]
OneService == [e \in End |-> "svc"]
OwnName == [e \in End |-> e]

\* Server setups may fail at every command that is rolled back; closing works, and
\* a failed refresh may close the SR-IOV client end below its entry.
RollbackEnds == {"s1", "v1", "c1", "c2"}
RollbackFaults == [e \in End |-> CASE e = "s1" -> SetupCommands
                                  [] e = "v1" -> {"refresh"}
                                  [] OTHER    -> {}]

\* Everything may fail, links may vanish and the forwarder may restart.
FaultyEnds == {"s1", "s2", "v1"}
AllFaults == [e \in End |-> SetupCommands \cup ResetCommands \cup {"refresh"}]

\* Two connections to one service over the VLAN parent they share.
TwoClients == {"c1", "c2"}

\* Asking for the port number of c1 may fail.
PortNumberFault == [e \in End |-> IF e = "c1" THEN {"ofport"} ELSE {}]
DeadlockEnds == {"s1", "c1"}
=============================================================================
