----------------------------- MODULE SharedPort -----------------------------
(***************************************************************************)
(* What counting the users of a port promises (setupVeth and resetVeth,    *)
(* mechanisms/kernel; add and remove, mechanisms/vxlan): the first user    *)
(* plugs the port in, the last one takes it out, and no other step of      *)
(* anyone, failed ones included, does either.  KernelMech implements it    *)
(* for the parents that tagged ends share, VxlanMech for tunnels.          *)
(***************************************************************************)
CONSTANTS User, Port

VARIABLES
  users,  \* the users of each port
  plugged \* the ports that are on the bridge

vars == <<users, plugged>>

Init == users = [p \in Port |-> {}] /\ plugged = {}

\* A user has one port at a time.
Join(u, p) ==
  /\ \A q \in Port : u \notin users[q]
  /\ users' = [users EXCEPT ![p] = @ \cup {u}]
  /\ plugged' = plugged \cup {p}

Leave(u, p) ==
  /\ u \in users[p]
  /\ users' = [users EXCEPT ![p] = @ \ {u}]
  /\ plugged' = IF users[p] = {u} THEN plugged \ {p} ELSE plugged

Next == \E u \in User, p \in Port : Join(u, p) \/ Leave(u, p)

Spec == Init /\ [][Next]_vars
=============================================================================
