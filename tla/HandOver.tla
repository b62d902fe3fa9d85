------------------------------ MODULE HandOver ------------------------------
(***************************************************************************)
(* What the start of the forwarder promises about the addresses of its      *)
(* uplinks (configureL2Interface): an uplink hands them to the bridge it is  *)
(* plugged into, all of them, one uplink at a time, and each address is in   *)
(* one place only.  Only an address that the process holds when it dies is   *)
(* lost.  Bootstrap implements it with netlink commands.                    *)
(***************************************************************************)
CONSTANTS
  Moved, \* the addresses the uplinks have before the first start
  Home   \* Home[a]: the uplink a is configured on

VARIABLES
  phase, \* down, up (serving, or between two uplinks), or moving
  at     \* where each address is

vars == <<phase, at>>

Init == phase = "down" /\ at = [a \in Moved |-> "uplink"]

Start == phase = "down" /\ phase' = "up" /\ UNCHANGED at

Begin == phase = "up" /\ phase' = "moving" /\ UNCHANGED at

\* Addresses of one uplink are under way at a time.
Take(a) ==
  /\ phase = "moving" /\ at[a] = "uplink"
  /\ \A b \in Moved : at[b] = "process" => Home[b] = Home[a]
  /\ at' = [at EXCEPT ![a] = "process"]
  /\ UNCHANGED phase

\* The bridge gets none before the uplink has given up all.
Give(a) ==
  /\ phase = "moving" /\ at[a] = "process"
  /\ \A b \in Moved : at[b] = "uplink" => Home[b] # Home[a]
  /\ at' = [at EXCEPT ![a] = "bridge"]
  /\ UNCHANGED phase

\* None is forgotten.
Done ==
  /\ phase = "moving" /\ phase' = "up"
  /\ \A a \in Moved : at[a] # "process"
  /\ UNCHANGED at

\* A command fails, or the process is killed.
Die ==
  /\ phase # "down" /\ phase' = "down"
  /\ at' = [a \in Moved |-> IF at[a] = "process" THEN "lost" ELSE at[a]]

Next == Start \/ Begin \/ Done \/ Die \/ (\E a \in Moved : Take(a) \/ Give(a))

Spec == Init /\ [][Next]_vars
=============================================================================
