----------------------------- MODULE Bootstrap -----------------------------
(***************************************************************************)
(* How the forwarder starts: newEndPoint (chains/forwarder) looks up the    *)
(* address its tunnels leave from (ParseTunnelIP), and prepares Open        *)
(* vSwitch (ConfigureOvS): a bridge for every L2 egress point, whose uplink *)
(* interface is plugged into it and hands its addresses over, and the       *)
(* integration bridge.                                                      *)
(*                                                                         *)
(* Every netlink command on an address is a step, and the process may fail  *)
(* or be killed between any two of them and be started again.  Addresses,   *)
(* bridges and ports outlive it.                                            *)
(***************************************************************************)
EXTENDS Integers, FiniteSets

CONSTANTS
  L2Point,    \* the selectors of the L2 egress points
  Uplink,     \* Uplink[v]: the Interface of an egress point, or NoLink
  Bridge,     \* Bridge[v]: its Bridge, or NoLink
  Link,       \* the links of the host that may have addresses
  Rank,       \* Rank[l]: the place of a link in net.Interfaces
  Addr, V4,   \* the addresses of the host; those of them that are IPv4
  Network,    \* Network[a]: a masked with the mask it is configured with
  HostAddrs,  \* HostAddrs[l]: the addresses before the first start
  SrcIP,      \* the tunnel address or network the forwarder is given
  BootFaults, \* the commands that may fail at start
  CanRestart, \* whether the process may be killed, and started again
  Nsm,        \* the integration bridge
  NoLink, NoAddr

\* To read an interface, add-br, add-port, and to find a link and to list,
\* delete or add its addresses.
BootCommands == {"read", "add-br", "add-port", "netlink"}

Uplinks == {Uplink[v] : v \in L2Point} \ {NoLink}
EgressBridges == {Bridge[v] : v \in L2Point} \ {NoLink}

ASSUME BootAssumption ==
  /\ DOMAIN Uplink = L2Point /\ DOMAIN Bridge = L2Point
  /\ Uplinks \subseteq Link /\ EgressBridges \subseteq Link
  /\ NoLink \notin Link /\ Nsm \notin Link \cup {NoLink}
  /\ Uplinks \cap EgressBridges = {}
  /\ Rank \in [Link -> Nat] /\ V4 \subseteq Addr
  /\ NoAddr \notin Addr /\ DOMAIN Network = Addr
  /\ HostAddrs \in [Link -> SUBSET Addr]
  /\ BootFaults \subseteq BootCommands /\ CanRestart \in BOOLEAN

VARIABLES
  boot,     \* where newEndPoint is; "ready" is a forwarder that serves
  todo,     \* the egress points that are not configured yet
  point,    \* the one configureL2Interface works on
  saved,    \* the addresses it has read and not added to the bridge
  tunnelIP, \* what ParseTunnelIP has returned
  addrs,    \* the addresses of each link
  bridges,  \* the bridges that exist
  uplinkOn, \* the bridge each uplink is plugged into
  lost      \* the addresses dropped by a start that was cut short

bootProcess == <<boot, todo, point, saved, tunnelIP>>
bootHost == <<addrs, bridges, uplinkOn>>
bootVars == <<bootProcess, bootHost, lost>>

Moving == {"flush4", "flush6", "plugged", "restore"}

BootTypeOK ==
  /\ boot \in {"parse", "points", "ready", "failed"} \cup Moving
  /\ todo \subseteq L2Point /\ point \in L2Point \cup {NoLink}
  /\ saved \subseteq Addr /\ lost \subseteq Addr
  /\ tunnelIP \in Addr \cup {NoAddr}
  /\ addrs \in [Link -> SUBSET Addr]
  /\ bridges \subseteq EgressBridges \cup {Nsm}
  /\ uplinkOn \in [Uplinks -> EgressBridges \cup {NoLink}]

BootInit ==
  /\ boot = "parse" /\ todo = {} /\ point = NoLink /\ saved = {}
  /\ tunnelIP = NoAddr
  /\ addrs = HostAddrs
  /\ bridges = {}
  /\ uplinkOn = [u \in Uplinks |-> NoLink]
  /\ lost = {}

-----------------------------------------------------------------------------
(* ParseTunnelIP.                                                          *)

\* The address is the one asked for, or it is in the network asked for.
Matches(a) == SrcIP \in {a, Network[a]}

\* What the search of the interfaces "readable" can return: an address of the
\* first that has one, whichever the kernel lists first.
Found(readable) ==
  LET having == {l \in readable : \E a \in addrs[l] : Matches(a)}
  IN {a \in Addr : Matches(a) /\ \E l \in having :
        a \in addrs[l] /\ \A k \in having : Rank[l] <= Rank[k]}

\* An interface whose addresses cannot be read is skipped.
Readable == {Link} \cup {Link \ {l} : l \in {k \in Link : "read" \in BootFaults}}

ParseTunnelIP ==
  /\ boot = "parse"
  /\ \E readable \in Readable : tunnelIP' \in Found(readable)
  /\ boot' = "points" /\ todo' = L2Point
  /\ UNCHANGED <<point, saved, bootHost, lost>>

ParseFails ==
  /\ boot = "parse"
  /\ \E readable \in Readable : Found(readable) = {}
  /\ boot' = "failed"
  /\ UNCHANGED <<todo, point, saved, tunnelIP, bootHost, lost>>

-----------------------------------------------------------------------------
(* ConfigureOvS and configureL2Interface.                                  *)

\* What add-br can leave: a failure is only logged.
AddBridge(b) == {bridges \cup ({b} \ {NoLink})} \cup {bridges : f \in BootFaults \cap {"add-br"}}

\* The next point of the map, in any order: its bridge, and the IPv4 addresses
\* of its uplink.
NextPoint(v) ==
  /\ boot = "points" /\ v \in todo
  /\ todo' = todo \ {v}
  /\ bridges' \in AddBridge(Bridge[v])
  /\ IF Uplink[v] = NoLink
     THEN UNCHANGED <<boot, point, saved>>
     ELSE boot' = "flush4" /\ point' = v /\ saved' = addrs[Uplink[v]] \cap V4
  /\ UNCHANGED <<tunnelIP, addrs, uplinkOn, lost>>

\* The addresses that are read and still on the uplink.
ToFlush == saved \cap addrs[Uplink[point]]

Flush(a) ==
  /\ boot \in {"flush4", "flush6"} /\ a \in ToFlush
  /\ addrs' = [addrs EXCEPT ![Uplink[point]] = @ \ {a}]
  /\ UNCHANGED <<bootProcess, bridges, uplinkOn, lost>>

\* Mutant of ReadV6: the second list replaces the first.
ReadV6Replaces ==
  /\ boot = "flush4" /\ ToFlush = {}
  /\ saved' = addrs[Uplink[point]] \ V4
  /\ boot' = "flush6"
  /\ UNCHANGED <<todo, point, tunnelIP, bootHost, lost>>

ReadV6 ==
  /\ boot = "flush4" /\ ToFlush = {}
  /\ saved' = saved \cup (addrs[Uplink[point]] \ V4)
  /\ boot' = "flush6"
  /\ UNCHANGED <<todo, point, tunnelIP, bootHost, lost>>

\* --may-exist accepts a port that is on this bridge already.
CanPlugUplink ==
  Bridge[point] \in bridges /\ uplinkOn[Uplink[point]] \in {NoLink, Bridge[point]}

\* Mutant of PlugUplink: the addresses are added before they are all deleted.
PlugUplinkEarly ==
  /\ boot = "flush6"
  /\ CanPlugUplink
  /\ uplinkOn' = [uplinkOn EXCEPT ![Uplink[point]] = Bridge[point]]
  /\ boot' = "plugged"
  /\ UNCHANGED <<todo, point, saved, tunnelIP, addrs, bridges, lost>>

PlugUplink ==
  /\ boot = "flush6" /\ ToFlush = {}
  /\ CanPlugUplink
  /\ uplinkOn' = [uplinkOn EXCEPT ![Uplink[point]] = Bridge[point]]
  /\ boot' = "plugged"
  /\ UNCHANGED <<todo, point, saved, tunnelIP, addrs, bridges, lost>>

FindBridge ==
  /\ boot = "plugged"
  /\ boot' = "restore"
  /\ UNCHANGED <<todo, point, saved, tunnelIP, bootHost, lost>>

\* IPv4 first; a link refuses an address it has.
Restore(a) ==
  /\ boot = "restore" /\ a \in saved
  /\ a \in V4 \/ saved \cap V4 = {}
  /\ a \notin addrs[Bridge[point]]
  /\ addrs' = [addrs EXCEPT ![Bridge[point]] = @ \cup {a}]
  /\ saved' = saved \ {a}
  /\ UNCHANGED <<boot, todo, point, tunnelIP, bridges, uplinkOn, lost>>

\* Mutant of PointDone: only the IPv4 addresses are added.
PointDoneV4 ==
  /\ boot = "restore" /\ saved \cap V4 = {}
  /\ boot' = "points" /\ point' = NoLink /\ saved' = {}
  /\ UNCHANGED <<todo, tunnelIP, bootHost, lost>>

PointDone ==
  /\ boot = "restore" /\ saved = {}
  /\ boot' = "points" /\ point' = NoLink
  /\ UNCHANGED <<todo, saved, tunnelIP, bootHost, lost>>

\* What is dropped when the process ends here.
Dropped == IF boot \in Moving THEN saved \ ToFlush ELSE {}

\* The commands that can fail where configureL2Interface is.
CommandFails ==
  \/ "netlink" \in BootFaults /\ (boot \in {"flush4", "plugged"} \/ ToFlush # {})
  \/ "netlink" \in BootFaults /\ boot = "restore" /\ saved # {}
  \/ boot = "flush6" /\ ToFlush = {} /\ ("add-port" \in BootFaults \/ ~CanPlugUplink)
  \/ boot = "restore" /\ saved \cap addrs[Bridge[point]] # {}

\* An error is returned at once, and nothing is restored.
MoveFails ==
  /\ boot \in Moving /\ CommandFails
  /\ boot' = "failed"
  /\ lost' = lost \cup Dropped
  /\ UNCHANGED <<todo, point, saved, tunnelIP, bootHost>>

\* The integration bridge, whose flows are deleted; failures are only logged.
Finish ==
  /\ boot = "points" /\ todo = {}
  /\ bridges' \in AddBridge(Nsm)
  /\ boot' = "ready" /\ point' = NoLink
  /\ UNCHANGED <<todo, saved, tunnelIP, addrs, uplinkOn, lost>>

\* The process ends, at any point, and a new one starts.
BootRestart ==
  /\ CanRestart
  /\ boot' = "parse" /\ todo' = {} /\ point' = NoLink /\ saved' = {}
  /\ tunnelIP' = NoAddr
  /\ lost' = lost \cup Dropped
  /\ UNCHANGED bootHost

BootStep ==
  \/ ParseTunnelIP \/ ParseFails
  \/ \E v \in L2Point : NextPoint(v)
  \/ \E a \in Addr : Flush(a) \/ Restore(a)
  \/ ReadV6 \/ PlugUplink \/ FindBridge \/ PointDone \/ MoveFails \/ Finish

BootNext == BootStep \/ BootRestart

BootSpec == BootInit /\ [][BootNext]_bootVars

-----------------------------------------------------------------------------
(* Properties.                                                             *)

\* The hypotheses on the host: no address is on two links, and no bridge has
\* one before the first start.
DistinctAddrs ==
  /\ \A k, l \in Link : HostAddrs[k] \cap HostAddrs[l] # {} => k = l
  /\ \A b \in EgressBridges : HostAddrs[b] = {}

\* A forwarder that serves has moved every address of an uplink to the bridge
\* of its egress point, however often it was started before, but for those
\* that were on their way when a start failed or was killed
\* (configureL2Interface).
AddressesMoved ==
  boot = "ready" =>
    \A v \in L2Point : Uplink[v] # NoLink =>
      HostAddrs[Uplink[v]] \ lost \subseteq addrs[Bridge[v]]

\* An address is never on two links: it is deleted before it is added, so that
\* the host does not answer for it twice, and adding it does not fail.
NoAddressTwice ==
  \A k, l \in Link : addrs[k] \cap addrs[l] # {} => k = l

\* The address the tunnels of a serving forwarder leave from is still on the
\* host after the move, which comes after it was looked up (newEndPoint).
TunnelAddressPresent ==
  boot = "ready" => \E l \in Link : tunnelIP \in addrs[l]

\* The start keeps its promise, seen from the addresses of the uplinks: each is on
\* its uplink, in the process, on the bridge its uplink is plugged into, or lost.
MovedAddrs == UNION {HostAddrs[u] : u \in Uplinks}
HomeOf(a) == CHOOSE u \in Uplinks : a \in HostAddrs[u]

OnUplink(a) == a \in addrs[HomeOf(a)]
OnBridge(a) == uplinkOn[HomeOf(a)] # NoLink /\ a \in addrs[uplinkOn[HomeOf(a)]]

PlaceOf(a) ==
  CASE OnUplink(a) -> "uplink"
    [] ~OnUplink(a) /\ OnBridge(a) -> "bridge"
    [] ~OnUplink(a) /\ ~OnBridge(a) /\ boot \in Moving /\ a \in saved -> "process"
    [] OTHER -> "lost"

Hands == INSTANCE HandOver WITH
  Moved <- MovedAddrs,
  Home <- [a \in MovedAddrs |-> HomeOf(a)],
  phase <- CASE boot \in Moving -> "moving" [] boot \in {"parse", "failed"} -> "down"
             [] boot \in {"points", "ready"} -> "up",
  at <- [a \in MovedAddrs |-> PlaceOf(a)]
ImplementsHandOver == Hands!Spec
=============================================================================
