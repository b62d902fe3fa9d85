---------------------------- MODULE CrossConnect ----------------------------
(***************************************************************************)
(* What the cross connect element promises (l2ovsconnect, NewClient): each  *)
(* connection joins a client and an endpoint, in both directions, for as    *)
(* long as it is established, and is wired up and taken down without        *)
(* disturbing any other.  L2Connect implements it with OpenFlow rules.      *)
(***************************************************************************)
CONSTANT Conn

VARIABLES
  established, \* the connections whose Request has succeeded
  reach        \* the directions in which each connection passes packets

vars == <<established, reach>>

Direction == {"toEndpoint", "toClient"}

Init == established = {} /\ reach = [x \in Conn |-> {}]

Wire(x, d) ==
  /\ x \notin established
  /\ reach' = [reach EXCEPT ![x] = @ \cup {d}]
  /\ UNCHANGED established

Unwire(x, d) ==
  /\ x \notin established
  /\ reach' = [reach EXCEPT ![x] = @ \ {d}]
  /\ UNCHANGED established

\* The last direction and the success of the Request may be one step.
Establish(x) ==
  /\ established' = established \cup {x}
  /\ reach' = [reach EXCEPT ![x] = Direction]
  /\ reach[x] # {}

Release(x) ==
  /\ x \in established
  /\ established' = established \ {x}
  /\ UNCHANGED reach

\* Every connection is lost; what still passes is removed or left.
Crash ==
  /\ established' = {}
  /\ reach' \in {[x \in Conn |-> {}], reach}

Next ==
  \/ \E x \in Conn : Establish(x) \/ Release(x)
  \/ \E x \in Conn, d \in Direction : Wire(x, d) \/ Unwire(x, d)
  \/ Crash

Spec == Init /\ [][Next]_vars
=============================================================================
