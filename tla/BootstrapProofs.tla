-------------------------- MODULE BootstrapProofs --------------------------
(***************************************************************************)
(* Proofs about Bootstrap, for every host, every set of egress points and   *)
(* every combination of faults that BootAssumption allows.                  *)
(***************************************************************************)
EXTENDS Bootstrap, TLAPS

Uplinked(v) == v \in L2Point /\ Uplink[v] # NoLink
Started == boot \in {"points", "ready"} \cup Moving

\* While a point is worked on, it is one with an uplink.
PointMoves == boot \in Moving => Uplinked(point)

\* What is read and not restored is on the uplink only, and once the uplink is
\* plugged in, on no link at all.
SavedApart ==
  /\ boot \in {"flush4", "flush6"} =>
       \A a \in saved, l \in Link : a \in addrs[l] => l = Uplink[point]
  /\ boot \in {"plugged", "restore"} =>
       \A a \in saved, l \in Link : a \notin addrs[l]

\* Nothing is left on the uplink when it is plugged in.
SavedAll ==
  /\ boot = "flush4" => addrs[Uplink[point]] \cap V4 \subseteq saved
  /\ boot = "flush6" => addrs[Uplink[point]] \subseteq saved

Configured(v) ==
  /\ addrs[Uplink[v]] = {}
  /\ uplinkOn[Uplink[v]] = Bridge[v] /\ Bridge[v] \in EgressBridges

\* The points that are done, and the one whose uplink has just been plugged in.
PointsDone ==
  /\ Started => \A v \in L2Point :
       Uplinked(v) /\ v \notin todo /\ (boot \in Moving => v # point) => Configured(v)
  /\ boot \in {"plugged", "restore"} => Configured(point)
  /\ boot = "ready" => todo = {}

\* Where an address of an uplink can be.
Conserved ==
  \A u \in Uplinks : \A a \in HostAddrs[u] :
    \/ a \in lost \/ a \in addrs[u]
    \/ uplinkOn[u] \in EgressBridges /\ a \in addrs[uplinkOn[u]]
    \/ boot \in Moving /\ u = Uplink[point] /\ a \in saved

\* Where the address of the tunnels can be.
TunnelAddressKept ==
  Started => \/ \E l \in Link : tunnelIP \in addrs[l]
             \/ boot \in Moving /\ tunnelIP \in saved

-----------------------------------------------------------------------------
\* The links of a point, and what is assumed of them.
LEMMA Links ==
  /\ \A v \in L2Point : Bridge[v] \in EgressBridges \cup {NoLink}
  /\ \A v \in L2Point : Uplink[v] \in Uplinks \cup {NoLink}
  /\ Uplinks \subseteq Link /\ EgressBridges \subseteq Link
  /\ Uplinks \cap EgressBridges = {}
  /\ NoLink \notin Link /\ Nsm \notin Link /\ Nsm # NoLink
  /\ HostAddrs \in [Link -> SUBSET Addr]
BY BootAssumption DEF BootAssumption, Uplinks, EgressBridges

\* Every start step keeps the types.
LEMMA BootTypeStep ==
  ASSUME BootTypeOK, PointMoves, [BootNext]_bootVars
  PROVE  BootTypeOK'
<1> USE Links DEF BootTypeOK, Moving, bootHost, bootProcess
<1>1. CASE ParseTunnelIP
  BY <1>1 DEF ParseTunnelIP, Found
<1>2. CASE ParseFails
  BY <1>2 DEF ParseFails
<1>3. ASSUME NEW v \in L2Point, NextPoint(v) PROVE BootTypeOK'
  BY <1>3 DEF NextPoint, AddBridge
<1>4. ASSUME NEW a \in Addr, Flush(a) PROVE BootTypeOK'
  BY <1>4 DEF Flush
<1>5. ASSUME NEW a \in Addr, Restore(a) PROVE BootTypeOK'
  BY <1>5 DEF Restore
<1>6. CASE ReadV6
  <2>1. Uplink[point] \in Link
    BY <1>6 DEF ReadV6, PointMoves, Uplinked
  <2> QED BY <1>6, <2>1 DEF ReadV6
<1>7. CASE PlugUplink
  <2>1. Uplink[point] \in Uplinks /\ Bridge[point] \in EgressBridges
    BY <1>7 DEF PlugUplink, CanPlugUplink, PointMoves, Uplinked
  <2> QED BY <1>7, <2>1 DEF PlugUplink
<1>8. CASE FindBridge \/ PointDone \/ MoveFails \/ BootRestart
  BY <1>8 DEF FindBridge, PointDone, MoveFails, BootRestart, Dropped
<1>9. CASE Finish
  BY <1>9 DEF Finish, AddBridge
<1>10. CASE UNCHANGED bootVars
  BY <1>10 DEF bootVars
<1> QED BY <1>1, <1>2, <1>3, <1>4, <1>5, <1>6, <1>7, <1>8, <1>9, <1>10
        DEF BootNext, BootStep

\* A point is worked on only if it has an uplink.
LEMMA PointMovesStep ==
  ASSUME PointMoves, [BootNext]_bootVars
  PROVE  PointMoves'
BY DEF PointMoves, Uplinked, Moving, BootNext, BootStep, ParseTunnelIP, ParseFails,
       NextPoint, Flush, Restore, ReadV6, PlugUplink, FindBridge, PointDone,
       MoveFails, Finish, BootRestart, bootVars, bootProcess, bootHost

\* The addresses read stay apart from those the links have, and no address is
\* ever on two links.
LEMMA ApartStep ==
  ASSUME BootTypeOK, PointMoves, SavedApart, SavedAll, NoAddressTwice,
         [BootNext]_bootVars
  PROVE  SavedApart' /\ NoAddressTwice'
<1> USE DEF SavedApart, NoAddressTwice, Moving, bootHost, bootProcess
<1>0. boot \in Moving => Uplink[point] \in Link
  BY Links DEF PointMoves, Uplinked
<1>1. CASE ParseTunnelIP \/ ParseFails \/ FindBridge \/ PointDone \/ MoveFails
           \/ Finish \/ BootRestart
  BY <1>1 DEF ParseTunnelIP, ParseFails, FindBridge, PointDone, MoveFails, Finish,
              BootRestart
<1>2. ASSUME NEW v \in L2Point, NextPoint(v) PROVE SavedApart' /\ NoAddressTwice'
  BY <1>2, Links DEF NextPoint, BootTypeOK
<1>3. ASSUME NEW a \in Addr, Flush(a) PROVE SavedApart' /\ NoAddressTwice'
  BY <1>0, <1>3 DEF Flush, BootTypeOK
<1>4. ASSUME NEW a \in Addr, Restore(a) PROVE SavedApart' /\ NoAddressTwice'
  BY <1>0, <1>4 DEF Restore, BootTypeOK
<1>5. CASE ReadV6
  BY <1>0, <1>5 DEF ReadV6, BootTypeOK
<1>6. CASE PlugUplink
  BY <1>0, <1>6 DEF PlugUplink, ToFlush, BootTypeOK
<1>7. CASE UNCHANGED bootVars
  BY <1>7 DEF bootVars
<1> QED BY <1>1, <1>2, <1>3, <1>4, <1>5, <1>6, <1>7 DEF BootNext, BootStep

\* All addresses of the uplink are read before it is plugged in.
LEMMA SavedAllStep ==
  ASSUME BootTypeOK, PointMoves, SavedAll, [BootNext]_bootVars
  PROVE  SavedAll'
<1> USE DEF SavedAll, Moving, bootHost, bootProcess
<1>1. CASE ParseTunnelIP \/ ParseFails \/ FindBridge \/ PointDone \/ MoveFails
           \/ Finish \/ BootRestart
  BY <1>1 DEF ParseTunnelIP, ParseFails, FindBridge, PointDone, MoveFails, Finish,
              BootRestart
<1>2. ASSUME NEW v \in L2Point, NextPoint(v) PROVE SavedAll'
  BY <1>2 DEF NextPoint
<1>3. ASSUME NEW a \in Addr, Flush(a) PROVE SavedAll'
  BY <1>3, Links DEF Flush, BootTypeOK, PointMoves, Uplinked
<1>4. ASSUME NEW a \in Addr, Restore(a) PROVE SavedAll'
  BY <1>4 DEF Restore
<1>5. CASE ReadV6
  BY <1>5 DEF ReadV6
<1>6. CASE PlugUplink
  BY <1>6 DEF PlugUplink
<1>7. CASE UNCHANGED bootVars
  BY <1>7 DEF bootVars
<1> QED BY <1>1, <1>2, <1>3, <1>4, <1>5, <1>6, <1>7 DEF BootNext, BootStep

\* A point that is done stays as it was configured.
LEMMA PointsDoneStep ==
  ASSUME BootTypeOK, PointMoves, SavedAll, PointsDone, [BootNext]_bootVars
  PROVE  PointsDone'
<1> USE Links DEF PointsDone, Started, Configured, Uplinked, Moving, bootHost,
                  bootProcess
<1>1. CASE ParseTunnelIP \/ ParseFails \/ MoveFails \/ BootRestart
  BY <1>1 DEF ParseTunnelIP, ParseFails, MoveFails, BootRestart, BootTypeOK
<1>2. ASSUME NEW v \in L2Point, NextPoint(v) PROVE PointsDone'
  BY <1>2 DEF NextPoint
<1>3. ASSUME NEW a \in Addr, Flush(a) PROVE PointsDone'
  <2>1. \A l \in Link : addrs'[l] \subseteq addrs[l]
    BY <1>3 DEF Flush, BootTypeOK
  <2> QED BY <1>3, <2>1 DEF Flush
<1>4. ASSUME NEW a \in Addr, Restore(a) PROVE PointsDone'
  <2>1. Bridge[point] \in EgressBridges
    BY <1>4 DEF Restore
  <2>2. \A u \in Uplinks : addrs'[u] = addrs[u]
    BY <1>4, <2>1 DEF Restore, BootTypeOK
  <2> QED BY <1>4, <2>2 DEF Restore, PointMoves
<1>5. CASE ReadV6
  BY <1>5 DEF ReadV6
<1>6. CASE PlugUplink
  <2>1. Uplink[point] \in Uplinks /\ Bridge[point] \in EgressBridges
    BY <1>6 DEF PlugUplink, CanPlugUplink, PointMoves, BootTypeOK
  <2>2. addrs[Uplink[point]] = {}
    BY <1>6 DEF PlugUplink, ToFlush, SavedAll
  <2>3. \A v \in L2Point : Configured(v) => uplinkOn'[Uplink[v]] = Bridge[v]
    BY <1>6, <2>1 DEF PlugUplink, CanPlugUplink, BootTypeOK
  <2> QED BY <1>6, <2>1, <2>2, <2>3 DEF PlugUplink, BootTypeOK
<1>7. CASE FindBridge \/ PointDone
  BY <1>7 DEF FindBridge, PointDone
<1>8. CASE Finish
  BY <1>8 DEF Finish
<1>9. CASE UNCHANGED bootVars
  BY <1>9 DEF bootVars
<1> QED BY <1>1, <1>2, <1>3, <1>4, <1>5, <1>6, <1>7, <1>8, <1>9
        DEF BootNext, BootStep

\* No step loses an address of an uplink but those that "lost" names.
LEMMA ConservedStep ==
  ASSUME BootTypeOK, PointMoves, PointsDone, Conserved, [BootNext]_bootVars
  PROVE  Conserved'
<1> USE Links DEF Conserved, Moving, bootHost, bootProcess
<1>0. \A u \in Uplinks : uplinkOn[u] \in EgressBridges \cup {NoLink}
  BY DEF BootTypeOK
<1>1. CASE ParseTunnelIP \/ ParseFails \/ Finish
  BY <1>1 DEF ParseTunnelIP, ParseFails, Finish
<1>2. ASSUME NEW v \in L2Point, NextPoint(v) PROVE Conserved'
  BY <1>2 DEF NextPoint
<1>3. ASSUME NEW a \in Addr, Flush(a) PROVE Conserved'
  <2>1. Uplink[point] \in Uplinks
    BY <1>3 DEF Flush, PointMoves, Uplinked
  <2>2. /\ addrs'[Uplink[point]] = addrs[Uplink[point]] \ {a}
        /\ \A l \in Link \ {Uplink[point]} : addrs'[l] = addrs[l]
    BY <1>3, <2>1 DEF Flush, BootTypeOK
  <2>3. a \in saved
    BY <1>3 DEF Flush, ToFlush
  <2> QED BY <1>0, <1>3, <2>1, <2>2, <2>3 DEF Flush
<1>4. ASSUME NEW a \in Addr, Restore(a) PROVE Conserved'
  <2>1. /\ Uplink[point] \in Uplinks /\ Bridge[point] \in EgressBridges
        /\ uplinkOn[Uplink[point]] = Bridge[point]
    BY <1>4 DEF Restore, PointMoves, PointsDone, Configured, Uplinked
  <2>2. /\ addrs'[Bridge[point]] = addrs[Bridge[point]] \cup {a}
        /\ \A l \in Link \ {Bridge[point]} : addrs'[l] = addrs[l]
    BY <1>4, <2>1 DEF Restore, BootTypeOK
  <2> QED BY <1>0, <1>4, <2>1, <2>2 DEF Restore
<1>5. CASE ReadV6 \/ FindBridge \/ PointDone
  BY <1>5 DEF ReadV6, FindBridge, PointDone
<1>6. CASE PlugUplink
  <2>1. Uplink[point] \in Uplinks /\ Bridge[point] \in EgressBridges
    BY <1>6 DEF PlugUplink, CanPlugUplink, PointMoves, Uplinked, BootTypeOK
  <2>2. /\ uplinkOn'[Uplink[point]] = Bridge[point]
        /\ uplinkOn[Uplink[point]] \in {NoLink, Bridge[point]}
        /\ \A u \in Uplinks \ {Uplink[point]} : uplinkOn'[u] = uplinkOn[u]
    BY <1>6, <2>1 DEF PlugUplink, CanPlugUplink, BootTypeOK
  <2> QED BY <1>0, <1>6, <2>1, <2>2 DEF PlugUplink
<1>7. CASE MoveFails \/ BootRestart
  BY <1>7 DEF MoveFails, BootRestart, Dropped, ToFlush
<1>8. CASE UNCHANGED bootVars
  BY <1>8 DEF bootVars
<1> QED BY <1>1, <1>2, <1>3, <1>4, <1>5, <1>6, <1>7, <1>8 DEF BootNext, BootStep

\* The address found for the tunnels is moved, never dropped, by a start that
\* goes on.
LEMMA TunnelAddressStep ==
  ASSUME BootTypeOK, PointMoves, PointsDone, TunnelAddressKept, [BootNext]_bootVars
  PROVE  TunnelAddressKept'
<1> USE Links DEF TunnelAddressKept, Started, Moving, bootHost, bootProcess
<1>1. CASE ParseTunnelIP
  BY <1>1 DEF ParseTunnelIP, Found, Readable
<1>2. CASE ParseFails \/ MoveFails \/ BootRestart
  BY <1>2 DEF ParseFails, MoveFails, BootRestart
<1>3. ASSUME NEW v \in L2Point, NextPoint(v) PROVE TunnelAddressKept'
  BY <1>3 DEF NextPoint
<1>4. ASSUME NEW a \in Addr, Flush(a) PROVE TunnelAddressKept'
  <2>1. \A l \in Link : addrs[l] \subseteq addrs'[l] \cup {a}
    BY <1>4 DEF Flush, BootTypeOK
  <2> QED BY <1>4, <2>1 DEF Flush, ToFlush
<1>5. ASSUME NEW a \in Addr, Restore(a) PROVE TunnelAddressKept'
  <2>1. Bridge[point] \in Link
    BY <1>5 DEF Restore, PointsDone, Configured
  <2>2. a \in addrs'[Bridge[point]] /\ \A l \in Link : addrs[l] \subseteq addrs'[l]
    BY <1>5, <2>1 DEF Restore, BootTypeOK
  <2> QED BY <1>5, <2>1, <2>2 DEF Restore
<1>6. CASE ReadV6 \/ PlugUplink \/ FindBridge \/ PointDone \/ Finish
  BY <1>6 DEF ReadV6, PlugUplink, FindBridge, PointDone, Finish
<1>7. CASE UNCHANGED bootVars
  BY <1>7 DEF bootVars
<1> QED BY <1>1, <1>2, <1>3, <1>4, <1>5, <1>6, <1>7 DEF BootNext, BootStep

-----------------------------------------------------------------------------
\* The inductive invariant.  The last two parts need no hypothesis, the others
\* that the host has no address twice.
BootInv ==
  /\ BootTypeOK /\ PointMoves /\ SavedAll /\ PointsDone
  /\ Conserved /\ TunnelAddressKept

ApartInv == SavedApart /\ NoAddressTwice

LEMMA BootInitInv == BootInit => BootInv
<1> USE Links DEF BootInit
<1>1. BootInit => BootTypeOK
  BY DEF BootTypeOK
<1>2. BootInit => PointMoves /\ SavedAll /\ PointsDone /\ TunnelAddressKept
  BY DEF PointMoves, SavedAll, PointsDone, TunnelAddressKept, Started, Moving
<1>3. BootInit => Conserved
  BY DEF Conserved
<1> QED BY <1>1, <1>2, <1>3 DEF BootInv

LEMMA BootStepInv == BootInv /\ [BootNext]_bootVars => BootInv'
BY BootTypeStep, PointMovesStep, SavedAllStep, PointsDoneStep, ConservedStep,
   TunnelAddressStep DEF BootInv

\* The start of the forwarder keeps the invariant, whatever fails and however
\* often it is killed.
THEOREM BootInvariant == BootSpec => []BootInv
BY BootInitInv, BootStepInv, PTL DEF BootSpec

LEMMA MovedByInv == BootInv => AddressesMoved
<1> SUFFICES ASSUME BootInv, boot = "ready", NEW v \in L2Point, Uplink[v] # NoLink,
                    NEW a \in HostAddrs[Uplink[v]] \ lost
             PROVE  a \in addrs[Bridge[v]]
  BY DEF AddressesMoved
<1>1. Configured(v)
  BY DEF BootInv, PointsDone, Started, Uplinked, Moving
<1> QED BY <1>1, Links DEF BootInv, Conserved, Configured, Moving

LEMMA PresentByInv == BootInv => TunnelAddressPresent
BY DEF BootInv, TunnelAddressKept, TunnelAddressPresent, Started, Moving

LEMMA ApartStepInv == BootInv /\ ApartInv /\ [BootNext]_bootVars => ApartInv'
BY ApartStep DEF BootInv, ApartInv

\* No address of an uplink is lost by a move that is not cut short
\* (configureL2Interface), for any number of egress points and restarts.
THEOREM BootAddressesMoved == BootSpec => []AddressesMoved
BY BootInvariant, MovedByInv, PTL

\* The tunnels of a serving forwarder leave from an address the host has.
THEOREM BootTunnelAddress == BootSpec => []TunnelAddressPresent
BY BootInvariant, PresentByInv, PTL

\* No address is on two links at any time.
THEOREM BootNoAddressTwice ==
  ASSUME DistinctAddrs
  PROVE  BootSpec => []NoAddressTwice
<1>1. BootInit => ApartInv
  BY DEF BootInit, ApartInv, SavedApart, NoAddressTwice, DistinctAddrs
<1>2. ApartInv => NoAddressTwice
  BY DEF ApartInv
<1> QED BY <1>1, <1>2, ApartStepInv, BootInvariant, PTL DEF BootSpec
-----------------------------------------------------------------------------
(* The hand-over of the addresses.                                         *)

\* An uplink has and gives none but its own addresses, and those of it that a
\* bridge has say where it is plugged in.
OwnAddrs ==
  /\ \A u \in Uplinks : addrs[u] \subseteq HostAddrs[u]
  /\ boot \in Moving => saved \subseteq HostAddrs[Uplink[point]]
  /\ \A u \in Uplinks, b \in EgressBridges :
       addrs[b] \cap HostAddrs[u] # {} => uplinkOn[u] = b

LEMMA OwnAddrsStep ==
  ASSUME DistinctAddrs, BootTypeOK, PointMoves, PointsDone, OwnAddrs,
         [BootNext]_bootVars
  PROVE  OwnAddrs'
<1> USE Links DEF OwnAddrs, Moving, bootHost, bootProcess
<1>0. boot \in Moving => Uplink[point] \in Uplinks
  BY DEF PointMoves, Uplinked
<1>1. CASE ParseTunnelIP \/ ParseFails \/ FindBridge \/ PointDone \/ MoveFails
           \/ Finish \/ BootRestart
  BY <1>1 DEF ParseTunnelIP, ParseFails, FindBridge, PointDone, MoveFails, Finish,
              BootRestart
<1>2. ASSUME NEW v \in L2Point, NextPoint(v) PROVE OwnAddrs'
  BY <1>2 DEF NextPoint
<1>3. ASSUME NEW a \in Addr, Flush(a) PROVE OwnAddrs'
  BY <1>0, <1>3 DEF Flush, BootTypeOK
<1>4. ASSUME NEW a \in Addr, Restore(a) PROVE OwnAddrs'
  <2>1. /\ Bridge[point] \in EgressBridges /\ uplinkOn[Uplink[point]] = Bridge[point]
        /\ a \in HostAddrs[Uplink[point]] /\ Uplink[point] \in Uplinks
    BY <1>0, <1>4 DEF Restore, PointsDone, Configured
  <2>2. \A u \in Uplinks : a \in HostAddrs[u] => u = Uplink[point]
    BY <2>1 DEF DistinctAddrs
  <2>3. /\ addrs'[Bridge[point]] = addrs[Bridge[point]] \cup {a}
        /\ \A l \in Link \ {Bridge[point]} : addrs'[l] = addrs[l]
    BY <1>4, <2>1 DEF Restore, BootTypeOK
  <2>4. \A u \in Uplinks, b \in EgressBridges :
          addrs'[b] \cap HostAddrs[u] # {} => uplinkOn[u] = b
    BY <2>1, <2>2, <2>3
  <2> QED BY <1>4, <2>1, <2>3, <2>4 DEF Restore
<1>5. CASE ReadV6
  BY <1>0, <1>5 DEF ReadV6
<1>6. CASE PlugUplink
  <2>1. /\ Uplink[point] \in Uplinks
        /\ uplinkOn[Uplink[point]] \in {NoLink, Bridge[point]}
        /\ uplinkOn' = [uplinkOn EXCEPT ![Uplink[point]] = Bridge[point]]
    BY <1>0, <1>6 DEF PlugUplink, CanPlugUplink
  <2> QED BY <1>6, <2>1 DEF PlugUplink, BootTypeOK
<1>7. CASE UNCHANGED bootVars
  BY <1>7 DEF bootVars
<1> QED BY <1>1, <1>2, <1>3, <1>4, <1>5, <1>6, <1>7 DEF BootNext, BootStep

\* Each address of an uplink has one home.
LEMMA Homes ==
  ASSUME DistinctAddrs
  PROVE  /\ \A a \in MovedAddrs : HomeOf(a) \in Uplinks /\ a \in HostAddrs[HomeOf(a)]
         /\ \A u \in Uplinks : \A a \in HostAddrs[u] : a \in MovedAddrs /\ HomeOf(a) = u
<1>1. ASSUME NEW a \in MovedAddrs PROVE HomeOf(a) \in Uplinks /\ a \in HostAddrs[HomeOf(a)]
  BY <1>1 DEF MovedAddrs, HomeOf
<1>2. ASSUME NEW u \in Uplinks, NEW a \in HostAddrs[u]
      PROVE  a \in MovedAddrs /\ HomeOf(a) = u
  <2>1. a \in MovedAddrs
    BY DEF MovedAddrs
  <2> QED BY <1>1, <2>1, Links DEF DistinctAddrs
<1> QED BY <1>1, <1>2

\* Where the start of the forwarder is, seen from the addresses.
PhaseOf ==
  CASE boot \in Moving -> "moving" [] boot \in {"parse", "failed"} -> "down"
    [] boot \in {"points", "ready"} -> "up"

Places == [a \in MovedAddrs |-> PlaceOf(a)]

\* What holds of the addresses of the uplinks at every moment.
HandInv == BootInv /\ ApartInv /\ OwnAddrs

\* An address that the process holds is one of the uplink it works on.
LEMMA HeldByProcess ==
  ASSUME DistinctAddrs, HandInv, NEW a \in MovedAddrs, PlaceOf(a) = "process"
  PROVE  boot \in Moving /\ a \in saved /\ HomeOf(a) = Uplink[point]
<1>1. boot \in Moving /\ a \in saved
  BY DEF PlaceOf
<1>2. Uplink[point] \in Uplinks /\ a \in HostAddrs[Uplink[point]]
  BY <1>1, Links DEF HandInv, BootInv, PointMoves, Uplinked, OwnAddrs
<1> QED BY <1>1, <1>2, Homes

\* An address leaves its uplink into the process.
LEMMA FlushTakes ==
  ASSUME DistinctAddrs, HandInv, NEW a \in Addr, Flush(a)
  PROVE  /\ a \in MovedAddrs /\ PlaceOf(a) = "uplink"
         /\ \A b \in MovedAddrs : PlaceOf(b) = "process" => HomeOf(b) = HomeOf(a)
         /\ Places' = [Places EXCEPT ![a] = "process"]
         /\ PhaseOf = "moving" /\ PhaseOf' = "moving"
<1> USE DEF HandInv, BootInv, ApartInv
<1>1. /\ boot \in Moving /\ boot' = boot /\ saved' = saved /\ uplinkOn' = uplinkOn
      /\ a \in saved /\ a \in addrs[Uplink[point]]
      /\ addrs' = [addrs EXCEPT ![Uplink[point]] = @ \ {a}]
  BY DEF Flush, ToFlush, Moving, bootProcess
<1>2. Uplink[point] \in Uplinks /\ Uplink[point] \in Link
  BY <1>1, Links DEF PointMoves, Uplinked
<1>3. a \in MovedAddrs /\ HomeOf(a) = Uplink[point]
  BY <1>1, <1>2, Homes DEF OwnAddrs
<1>4. /\ addrs'[Uplink[point]] = addrs[Uplink[point]] \ {a}
      /\ \A l \in Link \ {Uplink[point]} : addrs'[l] = addrs[l]
  BY <1>1, <1>2 DEF BootTypeOK
<1>5. \A u \in Uplinks : uplinkOn[u] # NoLink => uplinkOn[u] \in EgressBridges
  BY DEF BootTypeOK
<1>6. ~OnBridge(a)' /\ ~OnUplink(a)' /\ OnUplink(a)
  BY <1>1, <1>2, <1>3, <1>4, <1>5, Links DEF OnBridge, OnUplink, NoAddressTwice
<1>7. \A b \in MovedAddrs \ {a} :
        (OnUplink(b)' <=> OnUplink(b)) /\ (OnBridge(b)' <=> OnBridge(b))
  BY <1>1, <1>2, <1>4, <1>5, Homes, Links DEF OnBridge, OnUplink
<1>8. \A b \in MovedAddrs \ {a} : PlaceOf(b)' = PlaceOf(b)
  BY <1>1, <1>7 DEF PlaceOf
<1>9. PlaceOf(a)' = "process" /\ PlaceOf(a) = "uplink"
  BY <1>1, <1>6 DEF PlaceOf
<1> QED BY <1>1, <1>3, <1>8, <1>9, HeldByProcess DEF Places, PhaseOf, Moving

\* The process gives an address to the bridge, whose uplink has none left.
LEMMA RestoreGives ==
  ASSUME DistinctAddrs, HandInv, NEW a \in Addr, Restore(a)
  PROVE  /\ a \in MovedAddrs /\ PlaceOf(a) = "process"
         /\ \A b \in MovedAddrs : PlaceOf(b) = "uplink" => HomeOf(b) # HomeOf(a)
         /\ Places' = [Places EXCEPT ![a] = "bridge"]
         /\ PhaseOf = "moving" /\ PhaseOf' = "moving"
<1> USE DEF HandInv, BootInv, ApartInv
<1>1. /\ boot = "restore" /\ boot' = boot /\ saved' = saved \ {a} /\ uplinkOn' = uplinkOn
      /\ a \in saved /\ a \notin addrs[Bridge[point]]
      /\ addrs' = [addrs EXCEPT ![Bridge[point]] = @ \cup {a}]
  BY DEF Restore
<1>2. /\ Uplink[point] \in Uplinks /\ Bridge[point] \in EgressBridges
      /\ uplinkOn[Uplink[point]] = Bridge[point] /\ addrs[Uplink[point]] = {}
  BY <1>1, Links DEF PointMoves, Uplinked, PointsDone, Configured, Moving
<1>3. a \in MovedAddrs /\ HomeOf(a) = Uplink[point]
  BY <1>1, <1>2, Homes DEF OwnAddrs, Moving
<1>4. /\ addrs'[Bridge[point]] = addrs[Bridge[point]] \cup {a}
      /\ \A l \in Link \ {Bridge[point]} : addrs'[l] = addrs[l]
  BY <1>1, <1>2, Links DEF BootTypeOK
<1>5. \A u \in Uplinks : uplinkOn[u] # NoLink => uplinkOn[u] \in EgressBridges
  BY DEF BootTypeOK
<1>6. ~OnUplink(a) /\ ~OnBridge(a) /\ ~OnUplink(a)' /\ OnBridge(a)'
  BY <1>1, <1>2, <1>3, <1>4, Links DEF OnBridge, OnUplink
<1>7. \A b \in MovedAddrs \ {a} :
        (OnUplink(b)' <=> OnUplink(b)) /\ (OnBridge(b)' <=> OnBridge(b))
  BY <1>1, <1>2, <1>4, <1>5, Homes, Links DEF OnBridge, OnUplink
<1>8. \A b \in MovedAddrs \ {a} : PlaceOf(b)' = PlaceOf(b)
  BY <1>1, <1>7 DEF PlaceOf
<1>9. PlaceOf(a) = "process" /\ PlaceOf(a)' = "bridge"
  BY <1>1, <1>6 DEF PlaceOf, Moving
<1>10. \A b \in MovedAddrs : PlaceOf(b) = "uplink" => HomeOf(b) # HomeOf(a)
  BY <1>2, <1>3 DEF PlaceOf, OnUplink
<1> QED BY <1>1, <1>3, <1>8, <1>9, <1>10 DEF Places, PhaseOf, Moving
\* A step that leaves the addresses where they are.
LEMMA Stands ==
  ASSUME DistinctAddrs, HandInv, BootTypeOK', UNCHANGED addrs,
         \A u \in Uplinks : uplinkOn'[u] = uplinkOn[u]
           \/ \A b \in EgressBridges : addrs[b] \cap HostAddrs[u] = {},
         \A a \in MovedAddrs : ~OnUplink(a) => (boot \in Moving /\ a \in saved
                                 <=> boot' \in Moving /\ a \in saved')
  PROVE  Places' = Places
<1>1. ASSUME NEW a \in MovedAddrs PROVE OnUplink(a)' = OnUplink(a)
  BY DEF OnUplink
<1>2. ASSUME NEW a \in MovedAddrs PROVE OnBridge(a)' <=> OnBridge(a)
  BY Homes DEF OnBridge, HandInv, BootInv, BootTypeOK
<1>3. ASSUME NEW a \in MovedAddrs PROVE PlaceOf(a)' = PlaceOf(a)
  BY <1>1, <1>2, <1>3 DEF PlaceOf
<1> QED BY <1>3 DEF Places

\* Every step of the start is one of the hand-over, or does not concern it.
LEMMA HandStep ==
  ASSUME DistinctAddrs, HandInv, BootTypeOK', [BootNext]_bootVars
  PROVE  \/ PhaseOf = "down" /\ PhaseOf' = "up" /\ Places' = Places
         \/ PhaseOf = "up" /\ PhaseOf' = "moving" /\ Places' = Places
         \/ /\ PhaseOf = "moving" /\ PhaseOf' = "up" /\ Places' = Places
            /\ \A a \in MovedAddrs : PlaceOf(a) # "process"
         \/ /\ PhaseOf # "down" /\ PhaseOf' = "down"
            /\ Places' = [a \in MovedAddrs |->
                           IF PlaceOf(a) = "process" THEN "lost" ELSE PlaceOf(a)]
         \/ \E a \in Addr : Flush(a) \/ Restore(a)
         \/ PhaseOf' = PhaseOf /\ Places' = Places
<1> USE DEF PhaseOf, Moving, bootHost, bootProcess
<1>1. CASE ParseTunnelIP
  BY <1>1, Stands DEF ParseTunnelIP
<1>2. CASE ParseFails \/ Finish \/ FindBridge
  BY <1>2, Stands DEF ParseFails, Finish, FindBridge
<1>3. ASSUME NEW v \in L2Point, NextPoint(v)
      PROVE  \/ PhaseOf = "up" /\ PhaseOf' = "moving" /\ Places' = Places
             \/ PhaseOf' = PhaseOf /\ Places' = Places
  <2>1. CASE Uplink[v] = NoLink
    BY <1>3, <2>1, Stands DEF NextPoint
  <2>2. CASE Uplink[v] # NoLink
    <3>1. \A a \in MovedAddrs : a \in addrs[Uplink[v]] => OnUplink(a)
      BY <2>2, Links, Homes DEF OnUplink, HandInv, OwnAddrs
    <3> QED BY <1>3, <2>2, <3>1, Stands DEF NextPoint
  <2> QED BY <2>1, <2>2
<1>4. CASE ReadV6
  <2>1. Uplink[point] \in Uplinks
    BY <1>4, Links DEF ReadV6, HandInv, BootInv, PointMoves, Uplinked
  <2>2. \A a \in MovedAddrs : a \in addrs[Uplink[point]] => OnUplink(a)
    BY <2>1, Homes DEF OnUplink, HandInv, OwnAddrs
  <2> QED BY <1>4, <2>2, Stands DEF ReadV6
<1>5. CASE PlugUplink
  <2>1. /\ Uplink[point] \in Uplinks /\ Bridge[point] \in EgressBridges
        /\ uplinkOn[Uplink[point]] \in {NoLink, Bridge[point]}
        /\ uplinkOn' = [uplinkOn EXCEPT ![Uplink[point]] = Bridge[point]]
    BY <1>5, Links DEF PlugUplink, CanPlugUplink, HandInv, BootInv, PointMoves, Uplinked,
                       BootTypeOK
  <2>2. \A u \in Uplinks : uplinkOn'[u] = uplinkOn[u]
          \/ \A b \in EgressBridges : addrs[b] \cap HostAddrs[u] = {}
    BY <2>1, Links DEF HandInv, BootInv, OwnAddrs, BootTypeOK
  <2> QED BY <1>5, <2>2, Stands DEF PlugUplink
<1>6. CASE PointDone
  <2>1. \A a \in MovedAddrs : PlaceOf(a) # "process"
    BY <1>6, HeldByProcess DEF PointDone
  <2> QED BY <1>6, <2>1, Stands DEF PointDone
<1>7. CASE MoveFails \/ BootRestart
  <2>1. UNCHANGED bootHost /\ boot' \in {"parse", "failed"}
    BY <1>7 DEF MoveFails, BootRestart
  <2>2. ASSUME NEW a \in MovedAddrs
        PROVE  PlaceOf(a)' = IF PlaceOf(a) = "process" THEN "lost" ELSE PlaceOf(a)
    BY <2>1 DEF PlaceOf, OnUplink, OnBridge
  <2>3. CASE boot \in {"parse", "failed"}
    <3>1. \A a \in MovedAddrs : PlaceOf(a) # "process"
      BY <2>3, HeldByProcess
    <3> QED BY <2>1, <2>2, <2>3, <3>1 DEF Places
  <2>4. CASE boot \notin {"parse", "failed"}
    BY <2>1, <2>2, <2>4 DEF Places, HandInv, BootInv, BootTypeOK
  <2> QED BY <2>3, <2>4
<1>8. CASE UNCHANGED bootVars
  BY <1>8, Stands DEF bootVars
<1> QED BY <1>1, <1>2, <1>3, <1>4, <1>5, <1>6, <1>7, <1>8 DEF BootNext, BootStep

\* The start of the forwarder, however often it fails or is killed and whatever the
\* number of uplinks, hands every address over as HandOver says (configureL2Interface).
THEOREM BootHandsOver ==
  ASSUME DistinctAddrs
  PROVE  BootSpec => ImplementsHandOver
<1>1. BootInit => Hands!Init /\ ApartInv /\ OwnAddrs
  <2> SUFFICES ASSUME BootInit PROVE Hands!Init /\ ApartInv /\ OwnAddrs
    OBVIOUS
  <2>1. \A a \in MovedAddrs : PlaceOf(a) = "uplink"
    BY Homes DEF BootInit, PlaceOf, OnUplink
  <2>2. ApartInv
    BY DEF BootInit, ApartInv, SavedApart, NoAddressTwice, DistinctAddrs
  <2>3. OwnAddrs
    BY Links DEF BootInit, OwnAddrs, Moving, DistinctAddrs
  <2> QED BY <2>1, <2>2, <2>3 DEF Hands!Init, BootInit, Moving
<1>2. BootInv /\ ApartInv /\ OwnAddrs /\ [BootNext]_bootVars => OwnAddrs'
  BY OwnAddrsStep DEF BootInv
<1>3. BootInv /\ BootInv' /\ ApartInv /\ OwnAddrs /\ [BootNext]_bootVars
      => [Hands!Next]_(Hands!vars)
  <2> SUFFICES ASSUME HandInv, BootTypeOK', [BootNext]_bootVars
               PROVE  [Hands!Next]_(Hands!vars)
    BY DEF HandInv, BootInv
  <2>1. ASSUME NEW a \in Addr, Flush(a) PROVE Hands!Next
    <3>1. Hands!Take(a)
      BY <2>1, FlushTakes DEF Hands!Take, Places, PhaseOf
    <3> QED BY <2>1, <3>1, FlushTakes DEF Hands!Next
  <2>2. ASSUME NEW a \in Addr, Restore(a) PROVE Hands!Next
    <3>1. Hands!Give(a)
      BY <2>2, RestoreGives DEF Hands!Give, Places, PhaseOf
    <3> QED BY <2>2, <3>1, RestoreGives DEF Hands!Next
  <2>3. CASE PhaseOf = "down" /\ PhaseOf' = "up" /\ Places' = Places
    BY <2>3 DEF Hands!Next, Hands!Start, Places, PhaseOf
  <2>4. CASE PhaseOf = "up" /\ PhaseOf' = "moving" /\ Places' = Places
    BY <2>4 DEF Hands!Next, Hands!Begin, Places, PhaseOf
  <2>5. CASE /\ PhaseOf = "moving" /\ PhaseOf' = "up" /\ Places' = Places
             /\ \A a \in MovedAddrs : PlaceOf(a) # "process"
    BY <2>5 DEF Hands!Next, Hands!Done, Places, PhaseOf
  <2>6. CASE /\ PhaseOf # "down" /\ PhaseOf' = "down"
             /\ Places' = [a \in MovedAddrs |->
                            IF PlaceOf(a) = "process" THEN "lost" ELSE PlaceOf(a)]
    BY <2>6 DEF Hands!Next, Hands!Die, Places, PhaseOf
  <2>7. CASE PhaseOf' = PhaseOf /\ Places' = Places
    BY <2>7 DEF Hands!vars, Places, PhaseOf
  <2> QED BY <2>1, <2>2, <2>3, <2>4, <2>5, <2>6, <2>7, HandStep
<1> QED BY <1>1, <1>2, <1>3, ApartStepInv, BootInvariant, PTL
        DEF BootSpec, ImplementsHandOver, Hands!Spec
=============================================================================
