------------------------- MODULE KernelCleanProofs -------------------------
(***************************************************************************)
(* Proofs about KernelMech when nothing leaks: what is on the bridge, in    *)
(* the maps and among the links is there for an end that uses it.           *)
(***************************************************************************)
EXTENDS KernelMechProofs

\* A failed client setup has the mutex for ever, and no other end changes the
\* maps after it.
Stuck == \E e \in End : pc[e] = "stuck"

StuckHolds == \A e \in End : pc[e] = "stuck" => mutex = e

\* What nobody uses is neither counted nor on a bridge.
UnusedUnplugged ==
  \A p \in Port : Users(p) = {} => refCount[p] = Absent /\ bridge[p] = "none"

\* A link is used, or of the setup that is being rolled back.
LinksUsed ==
  /\ links \subseteq VethPort
  /\ \A p \in links : Users(p) = {} =>
       \E e \in End : pc[e] = "rollback" /\ Target(e) = p
  /\ \A e \in End \ VFs : held[e] # NoPort => held[e] \in links

\* So is a parent; what the rollback of a tagged end finds has its link.
ParentsUsed ==
  /\ \A g \in Groups : parentIf[g] # NoPort /\ Users(parentIf[g]) = {} =>
       \E e \in SharingEnds : pc[e] = "rollback" /\ Group(e) = g
  /\ \A e \in SharingEnds :
       pc[e] = "rollback" /\ held[e] = NoPort /\ Target(e) # NoPort =>
         Target(e) \in links

VFsOnce == \A e \in VFs : held[e] # NoPort => refCount[held[e]] = 1

\* The bridges on which the port of e may be.
Places(e) ==
  IF ifname[e] = "l2"
  THEN IF pc[e] = "reset" THEN {"none"}
       ELSE IF e \in Recalled THEN {"l2", "none"} ELSE {"l2"}
  ELSE IF e \in Breakout /\ pc[e] = "undo" THEN {"nsm", "none"} ELSE {"nsm"}

InPlace ==
  \A e \in End :
    /\ ifname[e] = "l2" => Relies(e) \/ pc[e] = "reset"
    /\ held[e] # NoPort => bridge[held[e]] \in Places(e)

Tidy == UnusedUnplugged /\ LinksUsed /\ ParentsUsed /\ VFsOnce /\ InPlace

TInv == StuckHolds /\ (Stuck \/ Tidy)

-----------------------------------------------------------------------------
(* Who uses what.                                                          *)

\* The users of a shared parent are tagged ends of its service.
LEMMA ParentUsers ==
  ASSUME DistinctNames, IInv, NEW c \in SharingEnds, NEW d \in End,
         held[d] = IfName[c]
  PROVE  d \in SharingEnds /\ Group(d) = Group(c)
<1>1. c \in End /\ d \in End /\ NoPort \notin Port /\ IfName[c] \in Port
  BY KernelAssumption DEF KernelAssumption, SharingEnds, Port
<1>2. Target(d) = IfName[c]
  BY <1>1 DEF IInv, HeldIsTarget
<1>3. d \in SharingEnds
  <2>1. ASSUME d \notin SharingEnds PROVE FALSE
    <3>1. IfName[d] = IfName[c]
      BY <1>2, <2>1 DEF Target, SharingEnds
    <3> QED BY <1>1, <2>1, <3>1 DEF DistinctNames
  <2> QED BY <2>1
<1>4. Group(d) \in Groups /\ parentIf[Group(d)] = IfName[c]
  BY <1>2, <1>3 DEF Target, SharingEnds, Groups
<1>5. PICK b \in Tagged \ VFs : Group(b) = Group(d) /\ parentIf[Group(d)] = IfName[b]
  BY <1>1, <1>4 DEF IInv, ParentIsVeth
<1>6. b \in End
  BY KernelAssumption DEF KernelAssumption
<1> QED BY <1>1, <1>3, <1>4, <1>5, <1>6 DEF DistinctNames

\* An end that plugs its own interface is the first to use it; one that shares a
\* parent is not.
LEMMA HostUsers ==
  ASSUME DistinctNames, IInv, Tidy, mutex = NoEnd, NEW e \in End, held[e] = NoPort
  PROVE  IF e \in VFs \/ Fresh(e)
         THEN HostIf(e) = IfName[e] /\ Users(IfName[e]) = {}
         ELSE /\ e \in SharingEnds /\ HostIf(e) = parentIf[Group(e)]
              /\ HostIf(e) # NoPort /\ Users(HostIf(e)) # {}
<1>0. IfName[e] \in Port /\ NoPort \notin Port /\ Group(e) \in Groups
  BY KernelAssumption DEF KernelAssumption, Port, Groups
<1>1. CASE e \in VFs \/ Fresh(e)
  <2>1. SUFFICES ASSUME NEW d \in End, held[d] = IfName[e] PROVE FALSE
    BY <1>1 DEF HostIf, Users
  <2>2. d # e /\ Target(d) = IfName[e]
    BY <1>0, <2>1 DEF IInv, HeldIsTarget
  <2>3. CASE d \notin SharingEnds
    BY <2>2, <2>3 DEF Target, SharingEnds, DistinctNames
  <2>4. CASE d \in SharingEnds
    <3>1. parentIf[Group(d)] = IfName[e] /\ Group(d) \in Groups
      BY <2>2, <2>4 DEF Target, SharingEnds, Groups
    <3>2. PICK b \in Tagged \ VFs : Group(b) = Group(d) /\ IfName[e] = IfName[b]
      BY <1>0, <3>1 DEF IInv, ParentIsVeth
    <3>3. b = e
      BY <3>2, KernelAssumption DEF KernelAssumption, DistinctNames
    <3> QED BY <1>0, <1>1, <3>1, <3>2, <3>3 DEF Fresh
  <2> QED BY <2>3, <2>4
<1>2. CASE ~(e \in VFs \/ Fresh(e))
  <2>1. e \in SharingEnds /\ HostIf(e) = parentIf[Group(e)] /\ parentIf[Group(e)] # NoPort
    BY <1>2 DEF Fresh, SharingEnds, HostIf
  <2>2. SharingEnds \subseteq End
    BY KernelAssumption DEF KernelAssumption, SharingEnds
  <2> QED BY <1>0, <1>2, <2>1, <2>2, FreeMutex DEF Tidy, ParentsUsed
<1> QED BY <1>1, <1>2

\* While the mutex is free an unused port has no link.
LEMMA UnusedNoLink ==
  ASSUME IInv, Tidy, mutex = NoEnd, NEW p \in Port, Users(p) = {}
  PROVE  p \notin links /\ refCount[p] = Absent /\ bridge[p] = "none"
BY FreeMutex DEF Tidy, LinksUsed, UnusedUnplugged

-----------------------------------------------------------------------------
(* Setups.                                                                 *)

\* A setup plugs the interface in if it is the first to count it, touches no
\* other, and stops early only at one that nobody uses.
LEMMA SetupShape ==
  ASSUME DistinctNames, IInv, Tidy, mutex = NoEnd, NEW e \in End, held[e] = NoPort,
         NEW outcome, Setup(e, outcome), NEW h \in Port, h = HostIf(e)
  PROVE  /\ \A p \in Port \ {h} : refCount'[p] = refCount[p] /\ bridge'[p] = bridge[p]
         /\ links' = IF Fresh(e) /\ outcome # "link" THEN links \cup {h} ELSE links
         /\ IF e \in VFs \/ Fresh(e)
            THEN IF Counts(outcome)
                 THEN refCount'[h] = 1 /\ bridge'[h] = "nsm"
                 ELSE refCount' = refCount /\ bridge' = bridge
            ELSE /\ Counts(outcome)
                 /\ bridge' = bridge /\ links' = links /\ parentIf' = parentIf
<1>1. TypeOK
  BY DEF IInv
<1>2. /\ \A p \in Port \ {h} : refCount'[p] = refCount[p] /\ bridge'[p] = bridge[p]
      /\ links' = IF Fresh(e) /\ outcome # "link" THEN links \cup {h} ELSE links
  BY <1>1 DEF Setup, TypeOK
<1>3. CASE e \in VFs \/ Fresh(e)
  <2>1. refCount[h] = Absent
    BY <1>3, HostUsers DEF Tidy, UnusedUnplugged
  <2> QED BY <1>1, <1>2, <1>3, <2>1 DEF Setup, TypeOK, Absent
<1>4. CASE ~(e \in VFs \/ Fresh(e))
  <2>1. refCount[h] # Absent
    BY <1>4, HostUsers, UsedIsCounted
  <2>2. Counts(outcome)
    BY <1>4, <2>1 DEF Setup, CanEnd, VethCanEnd, PortCanEnd, Counts
  <2> QED BY <1>1, <1>2, <1>4, <2>1, <2>2 DEF Setup
<1> QED BY <1>2, <1>3, <1>4


\* The setup of e as all its outcomes have it: it holds what it counts, goes on
\* or, if it is rolled back, rolls back.
SetsUp(e, outcome) ==
  /\ mutex = NoEnd /\ pc[e] = "setup"
  /\ Setup(e, outcome)
  /\ held' = IF Counts(outcome) THEN [held EXCEPT ![e] = HostIf(e)] ELSE held
  /\ pc' = [pc EXCEPT ![e] = pc'[e]] /\ pc'[e] \in {"up", "next", "rollback", "idle"}
  /\ pc'[e] = "rollback" => e \notin VFs
  /\ ~Counts(outcome) /\ e \notin VFs => pc'[e] = "rollback"
  /\ outcome = "up" => e \notin SharingEnds
  /\ \/ ifname' = ifname
     \/ ifname' = [ifname EXCEPT ![e] = "port"]

LEMMA SetupTidy ==
  ASSUME DistinctNames, NothingLeaks, IInv, IInv', BrokenOut, Tidy,
         NEW e \in End, NEW outcome, SetsUp(e, outcome)
  PROVE  Tidy'
<1>0. /\ TypeOK /\ Setup(e, outcome) /\ mutex = NoEnd /\ NoPort \notin Port
      /\ VethPort \subseteq Port /\ SharingEnds \subseteq End /\ VFs \subseteq End
      /\ ParentIsVeth
  BY KernelAssumption
     DEF IInv, SetsUp, KernelAssumption, VethPort, Port, SharingEnds
<1>1. held[e] = NoPort
  BY DEF SetsUp, IInv, Phases, MayHold, Releasing
<1>2. PICK h \in Port : h = HostIf(e)
  BY <1>0, HostIfType DEF TypeOK, MapsOK
<1>3. /\ \A p \in Port \ {h} : refCount'[p] = refCount[p] /\ bridge'[p] = bridge[p]
      /\ links' = IF Fresh(e) /\ outcome # "link" THEN links \cup {h} ELSE links
      /\ IF e \in VFs \/ Fresh(e)
         THEN IF Counts(outcome)
              THEN refCount'[h] = 1 /\ bridge'[h] = "nsm"
              ELSE refCount' = refCount /\ bridge' = bridge
         ELSE Counts(outcome) /\ bridge' = bridge /\ links' = links /\ parentIf' = parentIf
  BY <1>0, <1>1, <1>2, SetupShape
<1>4. IF e \in VFs \/ Fresh(e)
      THEN h = IfName[e] /\ Users(h) = {}
      ELSE e \in SharingEnds /\ h = parentIf[Group(e)] /\ Users(h) # {}
  BY <1>0, <1>1, <1>2, HostUsers
<1>5. \A d \in End : held'[d] = IF d = e /\ Counts(outcome) THEN h ELSE held[d]
  BY <1>0, <1>2 DEF SetsUp, TypeOK
<1>6. /\ \A p \in Port \ {h} : Users(p)' = Users(p)
      /\ Users(h)' = IF Counts(outcome) THEN Users(h) \cup {e} ELSE Users(h)
  BY <1>0, <1>1, <1>5 DEF Users
<1>7. \A d \in End : pc[d] # "rollback"
  BY <1>0, FreeMutex
<1>8. \A d \in End \ {e} : pc'[d] = pc[d]
  BY <1>0 DEF SetsUp, TypeOK
<1>9. e \notin VFs => h \in VethPort
  BY <1>0, <1>2, Names
<1>10. UnusedUnplugged'
  BY <1>3, <1>4, <1>6 DEF Tidy, UnusedUnplugged
<1>11. ASSUME ~Counts(outcome), Fresh(e), outcome # "link"
       PROVE  pc'[e] = "rollback" /\ Target(e)' = h
  <2>1. pc'[e] = "rollback" /\ e \notin VFs
    BY <1>11 DEF SetsUp, Fresh
  <2>2. CASE e \in Tagged
    <3>1. outcome # "up"
      BY <2>1, <2>2 DEF SetsUp, SharingEnds
    <3>2. parentIf' = [parentIf EXCEPT ![Group(e)] = h]
      BY <1>0, <1>2, <1>11, <2>2, <3>1 DEF Setup
    <3> QED BY <1>0, <2>1, <2>2, <3>2 DEF Target, TypeOK, Groups
  <2>3. CASE e \notin Tagged
    BY <1>4, <1>11, <2>1, <2>3 DEF Target
  <2> QED BY <2>1, <2>2, <2>3
<1>12. LinksUsed'
  <2>1. links' \subseteq VethPort
    BY <1>3, <1>9 DEF Tidy, LinksUsed, Fresh
  <2>2. ASSUME NEW p \in links', Users(p)' = {}
        PROVE  \E d \in End : pc'[d] = "rollback" /\ Target(d)' = p
    <3>1. p \notin links
      BY <1>0, <1>6, <1>7, <2>2 DEF Tidy, LinksUsed
    <3>2. p = h /\ Fresh(e) /\ outcome # "link"
      BY <1>3, <2>2, <3>1
    <3>3. ~Counts(outcome)
      BY <1>6, <2>2, <3>2
    <3> QED BY <1>11, <3>2, <3>3
  <2>3. ASSUME NEW d \in End \ VFs, held'[d] # NoPort PROVE held'[d] \in links'
    <3>1. CASE held'[d] = held[d]
      BY <1>3, <2>3, <3>1 DEF Tidy, LinksUsed
    <3>2. CASE held'[d] # held[d]
      <4>1. d = e /\ Counts(outcome) /\ held'[d] = h
        BY <1>5, <3>2
      <4>2. CASE Fresh(e)
        BY <1>3, <4>1, <4>2 DEF Counts
      <4>3. CASE ~Fresh(e)
        <5>1. PICK b \in End : held[b] = h
          BY <1>4, <2>3, <4>1, <4>3 DEF Users
        <5>2. b \notin VFs
          BY <1>0, <1>2, <1>9, <2>3, <4>1, <5>1, Names DEF IInv, HeldIsTarget, Target
        <5> QED BY <1>0, <1>2, <1>3, <4>1, <5>1, <5>2 DEF Tidy, LinksUsed
      <4> QED BY <4>2, <4>3
    <3> QED BY <3>1, <3>2
  <2> QED BY <2>1, <2>2, <2>3 DEF LinksUsed
<1>13. ParentsUsed'
  <2>0. \A g \in Groups : parentIf'[g] # NoPort => parentIf'[g] \in Port
    BY DEF IInv, TypeOK
  <2>1. ASSUME NEW g \in Groups, NEW q \in Port, parentIf'[g] = q, Users(q)' = {}
        PROVE  \E d \in SharingEnds : pc'[d] = "rollback" /\ Group(d) = g
    <3>1. Users(q) = {}
      BY <1>6, <2>1
    <3>2. parentIf[g] # q
      BY <1>0, <1>7, <2>1, <3>1 DEF Tidy, ParentsUsed
    <3>4. g = Group(e) /\ Fresh(e) /\ e \in Tagged /\ outcome # "link" /\ q = h
      BY <1>0, <1>2, <2>1, <3>2 DEF Setup, TypeOK
    <3>5. ~Counts(outcome)
      BY <1>6, <2>1, <3>4
    <3> QED BY <1>11, <3>4, <3>5 DEF SharingEnds, Fresh
  <2>2. ASSUME NEW d \in SharingEnds, pc'[d] = "rollback", held'[d] = NoPort,
               Target(d)' # NoPort
        PROVE  Target(d)' \in links'
    <3>1. d = e /\ ~Counts(outcome)
      BY <1>0, <1>5, <1>7, <1>8, <2>2
    <3>2. Fresh(e)
      BY <1>3, <2>2, <3>1 DEF SharingEnds
    <3>3. CASE outcome = "link"
      BY <1>0, <2>2, <3>1, <3>2, <3>3 DEF Fresh, Setup, Target, SharingEnds
    <3>4. CASE outcome # "link"
      BY <1>3, <1>11, <3>1, <3>2, <3>4
    <3> QED BY <3>3, <3>4
  <2>3. \A g \in Groups : parentIf'[g] # NoPort /\ Users(parentIf[g])' = {} =>
          \E d \in SharingEnds : pc'[d] = "rollback" /\ Group(d) = g
    BY <2>0, <2>1
  <2> QED BY <2>2, <2>3 DEF ParentsUsed
<1>14. VFsOnce'
  <2>1. SUFFICES ASSUME NEW d \in VFs, held'[d] # NoPort PROVE refCount'[held'[d]] = 1
    BY DEF VFsOnce
  <2>2. CASE d = e /\ Counts(outcome)
    BY <1>3, <1>5, <2>1, <2>2
  <2>3. CASE ~(d = e /\ Counts(outcome))
    <3>1. held'[d] = held[d] /\ held[d] \in Port /\ refCount[held[d]] = 1
      BY <1>0, <1>5, <2>1, <2>3 DEF Tidy, VFsOnce, TypeOK
    <3>2. held[d] # h
      <4>1. SUFFICES ASSUME held[d] = h PROVE FALSE
        OBVIOUS
      <4>2. e \in SharingEnds
        BY <1>0, <1>4, <4>1 DEF Users
      <4>3. h \in VethPort
        BY <1>9, <4>2 DEF SharingEnds
      <4>4. h = IfName[d]
        BY <1>0, <2>1, <3>1, <4>1 DEF IInv, HeldIsTarget, Target
      <4> QED BY <1>0, <4>3, <4>4, Names
    <3> QED BY <1>3, <3>1, <3>2
  <2> QED BY <2>2, <2>3
<1>15. InPlace'
  <2>1. ifname[e] # "l2" /\ ifname'[e] # "l2"
    BY <1>0 DEF Tidy, InPlace, Relies, SetsUp, TypeOK
  <2>2. \A d \in End \ {e} : ifname'[d] = ifname[d] /\ (Relies(d)' <=> Relies(d))
                             /\ Places(d)' = Places(d)
    BY <1>0, <1>8 DEF SetsUp, TypeOK, Relies, Places
  <2>3. Places(e)' = {"nsm"}
    BY <2>1 DEF Places, SetsUp
  <2>4. ASSUME NEW d \in End, held'[d] # NoPort PROVE bridge'[held'[d]] \in Places(d)'
    <3>1. CASE d # e
      <4>1. held'[d] = held[d] /\ held[d] \in Port /\ bridge[held[d]] \in Places(d)
        BY <1>0, <1>5, <2>4, <3>1 DEF Tidy, InPlace, TypeOK
      <4>2. bridge'[held[d]] = bridge[held[d]]
        <5>1. CASE held[d] # h
          BY <1>3, <4>1, <5>1
        <5>2. CASE held[d] = h
          BY <1>3, <1>4, <5>2 DEF Users
        <5> QED BY <5>1, <5>2
      <4> QED BY <2>2, <3>1, <4>1, <4>2
    <3>2. CASE d = e
      <4>1. held'[e] = h /\ Counts(outcome)
        BY <1>1, <1>5, <2>4, <3>2
      <4>2. CASE e \in VFs \/ Fresh(e)
        BY <1>3, <2>3, <3>2, <4>1, <4>2
      <4>3. CASE ~(e \in VFs \/ Fresh(e))
        <5>1. e \in SharingEnds /\ bridge' = bridge
          BY <1>3, <1>4, <4>3
        <5>2. PICK b \in End : held[b] = h
          BY <1>4, <4>3 DEF Users
        <5>3. PICK c \in Tagged \ VFs : h = IfName[c]
          BY <1>0, <1>2, <1>4, <4>3 DEF ParentIsVeth, Groups
        <5>4. b \in SharingEnds
          BY <5>2, <5>3, ParentUsers DEF SharingEnds
        <5>5. b \notin Breakout /\ ifname[b] # "l2"
          BY <1>0, <5>4 DEF NothingLeaks, SharingEnds, BrokenOut
        <5>6. bridge[h] \in Places(b)
          BY <1>0, <5>2 DEF Tidy, InPlace
        <5> QED BY <2>3, <3>2, <4>1, <5>1, <5>5, <5>6 DEF Places
      <4> QED BY <4>2, <4>3
    <3> QED BY <3>1, <3>2
  <2> QED BY <1>8, <2>1, <2>2, <2>4 DEF Tidy, InPlace
<1> QED BY <1>10, <1>12, <1>13, <1>14, <1>15 DEF Tidy


-----------------------------------------------------------------------------
(* Resets.                                                                 *)

\* The reset of an end that holds p and finds it where the reset expects it.
LetsGo(e, isL2Connect) ==
  /\ mutex = NoEnd \/ mutex = e
  /\ held[e] # NoPort /\ held' = [held EXCEPT ![e] = NoPort]
  /\ Reset(e, isL2Connect)
  /\ IF isL2Connect THEN bridge[held[e]] = "none" /\ e \notin VFs
                    ELSE /\ bridge[held[e]] # "l2"
                         /\ e \in VFs => bridge[held[e]] = "nsm"
  /\ pc' = [pc EXCEPT ![e] = pc'[e]] /\ pc'[e] \in {"idle", "unload"}
  /\ ifname'[e] # "l2" /\ \A d \in End \ {e} : ifname'[d] = ifname[d]

\* The last user takes everything away, the others only their count.
LEMMA ResetShape ==
  ASSUME DistinctNames, NothingLeaks, IInv, Tidy, NEW e \in End,
         NEW isL2Connect \in BOOLEAN, LetsGo(e, isL2Connect),
         NEW p \in Port, p = held[e]
  PROVE  /\ Target(e) = p
         /\ Users(p)' = Users(p) \ {e} /\ \A q \in Port \ {p} : Users(q)' = Users(q)
         /\ \A q \in Port \ {p} : refCount'[q] = refCount[q] /\ bridge'[q] = bridge[q]
         /\ IF Users(p)' = {}
            THEN /\ refCount'[p] = Absent /\ bridge'[p] = "none" /\ links' = links \ {p}
                 /\ parentIf' \in {parentIf, [parentIf EXCEPT ![Group(e)] = NoPort]}
                 /\ e \in SharingEnds => parentIf' = [parentIf EXCEPT ![Group(e)] = NoPort]
            ELSE bridge' = bridge /\ links' = links /\ parentIf' = parentIf
<1>0. TypeOK /\ DistinctNames /\ MapsInv /\ NoPort \notin Port
  BY KernelAssumption DEF IInv, MapsInv, KernelAssumption
<1>1. Target(e) = p /\ p # NoPort
  BY <1>0 DEF LetsGo, IInv, HeldIsTarget
<1>2. /\ Users(p)' = Users(p) \ {e}
      /\ Cardinality(Users(p)') = Cardinality(Users(p)) - 1
      /\ Cardinality(Users(p)) \in Nat /\ Cardinality(Users(p)') \in Nat
      /\ \A q \in Port \ {p} : Users(q)' = Users(q)
  BY <1>0, UsersLose DEF LetsGo
<1>3. Count(p) = Cardinality(Users(p))
  <2>1. CASE e \in VFs
    <3>1. Users(p) = {e}
      BY <1>0, <2>1, OwnPort DEF LetsGo, Users
    <3>2. Cardinality({e}) = 1
      BY FS_Singleton
    <3>3. refCount[p] = 1
      BY <2>1 DEF LetsGo, Tidy, VFsOnce
    <3> QED BY <3>1, <3>2, <3>3 DEF Count, Absent
  <2>2. CASE e \notin VFs
    BY <1>0, <1>1, <2>2, Names DEF IInv, CountsUsers
  <2> QED BY <2>1, <2>2
<1>4. Remaining(p) = Cardinality(Users(p)') /\ refCount[p] \in Nat \ {0}
  BY <1>0, <1>2, <1>3 DEF Remaining, Count, TypeOK, Absent
<1>5. Remaining(p) = 0 <=> Users(p)' = {}
  BY <1>4, UsersFiniteNext, FS_EmptySet
<1>6. /\ e \notin VFs => p \in links
      /\ Faults[e] \cap {"delport", "linkdel"} = {}
  BY DEF LetsGo, Tidy, LinksUsed, NothingLeaks, ResetCommands
<1>7. CASE Users(p)' # {}
  <2>1. ReleaseShared(p)
    BY <1>1, <1>4, <1>5, <1>7
       DEF LetsGo, Reset, ResetVF, ResetVeth, RemoveVeth, RemoveVF
  <2> QED BY <1>0, <1>1, <1>2, <1>7, <2>1 DEF ReleaseShared, Decremented, host, TypeOK
<1>8. CASE Users(p)' = {}
  <2>1. CASE e \in VFs
    <3>1. RemoveVF(e, p, isL2Connect) /\ ~isL2Connect /\ bridge[p] = "nsm"
      BY <1>1, <1>4, <1>5, <1>8, <2>1 DEF LetsGo, Reset, ResetVF, ReleaseShared
    <3>2. p \notin links /\ e \notin SharingEnds
      BY <1>0, <1>1, <2>1, Names DEF Tidy, LinksUsed, Target, SharingEnds, MapsInv
    <3> QED BY <1>0, <1>1, <1>2, <1>6, <1>8, <3>1, <3>2 DEF RemoveVF, TypeOK
  <2>2. CASE e \notin VFs
    <3>1. RemoveVeth(e, p, isL2Connect)
      BY <1>1, <1>4, <1>5, <1>8, <2>2 DEF LetsGo, Reset, ResetVeth, ReleaseShared
    <3>2. bridge' = [bridge EXCEPT ![p] = "none"]
      BY <1>0, <1>6, <3>1 DEF RemoveVeth, DelPort, LetsGo, TypeOK
    <3> QED BY <1>0, <1>1, <1>2, <1>6, <1>8, <2>2, <3>1, <3>2 DEF RemoveVeth, TypeOK
  <2> QED BY <2>1, <2>2
<1> QED BY <1>7, <1>8


\* Nobody else rolls back while an end resets.
LEMMA ResetsAlone ==
  ASSUME IInv, NEW e \in End, mutex = NoEnd \/ mutex = e
  PROVE  \A d \in End \ {e} : pc[d] # "rollback"
BY KernelAssumption DEF IInv, RollsBackAlone, KernelAssumption

\* A parent belongs to one service.
LEMMA ParentOfOne ==
  ASSUME DistinctNames, IInv, NEW g \in Groups, parentIf[g] # NoPort,
         NEW e \in End, Target(e) = parentIf[g]
  PROVE  e \in SharingEnds /\ Group(e) = g
<1>1. PICK c \in Tagged \ VFs : Group(c) = g /\ parentIf[g] = IfName[c]
  BY DEF IInv, ParentIsVeth
<1>2. c \in End
  BY KernelAssumption DEF KernelAssumption
<1>3. CASE e \notin SharingEnds
  BY <1>1, <1>2, <1>3 DEF Target, SharingEnds, DistinctNames
<1>4. CASE e \in SharingEnds
  <2>1. Group(e) \in Groups /\ parentIf[Group(e)] = IfName[c] /\ IfName[c] # NoPort
    BY <1>1, <1>4 DEF Target, SharingEnds, Groups
  <2>2. PICK b \in Tagged \ VFs : Group(b) = Group(e) /\ IfName[c] = IfName[b]
    BY <2>1 DEF IInv, ParentIsVeth
  <2>3. b \in End
    BY KernelAssumption DEF KernelAssumption
  <2> QED BY <1>1, <1>2, <1>4, <2>2, <2>3 DEF DistinctNames
<1> QED BY <1>3, <1>4

LEMMA ResetTidy ==
  ASSUME DistinctNames, NothingLeaks, IInv, IInv', Tidy, NEW e \in End,
         NEW isL2Connect \in BOOLEAN, LetsGo(e, isL2Connect)
  PROVE  Tidy'
<1>0. /\ TypeOK /\ MapsInv /\ NoPort \notin Port /\ SharingEnds \subseteq End \ VFs
      /\ VFs \subseteq End
  BY KernelAssumption DEF IInv, MapsInv, KernelAssumption, SharingEnds
<1>1. PICK p \in Port : p = held[e]
  BY <1>0 DEF LetsGo, TypeOK
<1>2. /\ Target(e) = p
      /\ Users(p)' = Users(p) \ {e} /\ \A q \in Port \ {p} : Users(q)' = Users(q)
      /\ \A q \in Port \ {p} : refCount'[q] = refCount[q] /\ bridge'[q] = bridge[q]
      /\ IF Users(p)' = {}
         THEN /\ refCount'[p] = Absent /\ bridge'[p] = "none" /\ links' = links \ {p}
              /\ parentIf' \in {parentIf, [parentIf EXCEPT ![Group(e)] = NoPort]}
              /\ e \in SharingEnds => parentIf' = [parentIf EXCEPT ![Group(e)] = NoPort]
         ELSE bridge' = bridge /\ links' = links /\ parentIf' = parentIf
  BY <1>1, ResetShape
<1>3. /\ \A d \in End \ {e} : held'[d] = held[d] /\ pc'[d] = pc[d] /\ ifname'[d] = ifname[d]
      /\ held'[e] = NoPort /\ pc'[e] \in {"idle", "unload"} /\ ifname'[e] # "l2"
  BY <1>0 DEF LetsGo, TypeOK
<1>4. \A d \in End : pc'[d] # "rollback" /\ (pc[d] = "rollback" => d = e)
  BY <1>3, ResetsAlone DEF LetsGo
<1>5. \A d \in End : held'[d] # NoPort =>
        d # e /\ held'[d] = held[d] /\ held[d] \in Port
        /\ (held[d] = p => Users(p)' # {})
  BY <1>0, <1>3 DEF TypeOK, Users
<1>6. UnusedUnplugged'
  BY <1>2 DEF Tidy, UnusedUnplugged
<1>7. LinksUsed'
  <2>1. ASSUME NEW q \in links' PROVE q \in VethPort /\ Users(q)' # {}
    <3>1. q \in links /\ q \in VethPort /\ q \in Port
      BY <1>0, <1>2, <2>1 DEF Tidy, LinksUsed, TypeOK
    <3>2. CASE q = p
      BY <1>2, <2>1, <3>1, <3>2
    <3>3. CASE q # p
      BY <1>2, <1>4, <3>1, <3>3 DEF Tidy, LinksUsed
    <3> QED BY <3>1, <3>2, <3>3
  <2>2. ASSUME NEW d \in End \ VFs, held'[d] # NoPort PROVE held'[d] \in links'
    BY <1>2, <1>5, <2>2 DEF Tidy, LinksUsed
  <2> QED BY <2>1, <2>2 DEF LinksUsed
<1>8. ParentsUsed'
  <2>1. ASSUME NEW g \in Groups, NEW q \in Port, parentIf'[g] = q PROVE Users(q)' # {}
    <3>1. parentIf[g] = q
      BY <1>0, <1>2, <2>1 DEF TypeOK
    <3>2. CASE q # p
      <4>1. SUFFICES ASSUME Users(q) = {} PROVE FALSE
        BY <1>2, <3>2
      <4>2. e \in SharingEnds /\ Group(e) = g
        BY <1>0, <1>4, <3>1, <4>1 DEF Tidy, ParentsUsed
      <4> QED BY <1>2, <3>1, <3>2, <4>2 DEF Target, SharingEnds
    <3>3. CASE q = p
      <4>1. e \in SharingEnds /\ Group(e) = g
        BY <1>0, <1>2, <3>1, <3>3, ParentOfOne
      <4> QED BY <1>0, <1>2, <2>1, <3>3, <4>1 DEF TypeOK
    <3> QED BY <3>2, <3>3
  <2>2. \A g \in Groups : parentIf'[g] # NoPort => parentIf'[g] \in Port
    BY DEF IInv, TypeOK
  <2>3. \A g \in Groups : parentIf'[g] # NoPort => Users(parentIf[g])' # {}
    BY <2>1, <2>2
  <2> QED BY <1>0, <1>4, <2>3 DEF ParentsUsed
<1>9. VFsOnce'
  <2>1. SUFFICES ASSUME NEW d \in VFs, held'[d] # NoPort PROVE refCount'[held'[d]] = 1
    BY DEF VFsOnce
  <2>2. d # e /\ held'[d] = held[d] /\ held[d] \in Port /\ held[d] # NoPort
    BY <1>0, <1>5, <2>1
  <2>3. held[d] # p
    BY <1>0, <1>1, <2>2, OwnPort DEF LetsGo
  <2> QED BY <1>2, <2>2, <2>3 DEF Tidy, VFsOnce
<1>10. InPlace'
  <2>1. \A d \in End \ {e} : (Relies(d)' <=> Relies(d)) /\ Places(d)' = Places(d)
    BY <1>3 DEF Relies, Places
  <2>2. ASSUME NEW d \in End, held'[d] # NoPort PROVE bridge'[held'[d]] \in Places(d)'
    BY <1>2, <1>5, <2>1, <2>2 DEF Tidy, InPlace
  <2> QED BY <1>3, <2>1, <2>2 DEF Tidy, InPlace
<1> QED BY <1>6, <1>7, <1>8, <1>9, <1>10 DEF Tidy

\* The rollback of a setup that counted nothing.
LEMMA RollbackShape ==
  ASSUME DistinctNames, NothingLeaks, IInv, Tidy, NEW e \in End,
         Rollback(e), held[e] = NoPort
  PROVE  /\ UNCHANGED <<bridge, refCount, held>> /\ e \notin VFs
         /\ Target(e) # NoPort => Target(e) \in Port /\ Users(Target(e)) = {}
         /\ links' = links \ {Target(e)}
         /\ parentIf' \in {parentIf, [parentIf EXCEPT ![Group(e)] = NoPort]}
         /\ e \in SharingEnds =>
              parentIf' = [parentIf EXCEPT ![Group(e)] = NoPort]
<1>0. /\ TypeOK /\ NoPort \notin Port /\ e \notin VFs /\ Group(e) \in Groups
      /\ Target(e) \in VethPort \cup {NoPort} /\ VethPort \subseteq Port
      /\ Target(e) # NoPort => Count(Target(e)) = 0
  BY Names DEF IInv, RollsBackAlone, Rollback, Goto
<1>1. held' = held /\ ResetVeth(e, FALSE)
  BY <1>0 DEF Rollback, TypeOK
<1>2. CASE Target(e) = NoPort
  <2>1. UNCHANGED <<maps, host>>
    BY <1>0, <1>1, <1>2 DEF ResetVeth
  <2>2. e \in SharingEnds => parentIf = [parentIf EXCEPT ![Group(e)] = NoPort]
    BY <1>0, <1>2 DEF SharingEnds, Target, TypeOK
  <2>3. links = links \ {NoPort}
    BY <1>0 DEF TypeOK
  <2>4. UNCHANGED <<refCount, parentIf, bridge, links>>
    BY <2>1 DEF maps, host
  <2> QED BY <1>0, <1>1, <1>2, <2>2, <2>3, <2>4
<1>3. CASE Target(e) # NoPort
  <2>0. PICK p \in VethPort : p = Target(e) /\ Count(p) = 0 /\ p \in Port
    BY <1>0, <1>3
  <2>1. Users(p) = {}
    <3>1. Cardinality(Users(p)) = 0
      BY <2>0, UsersFinite DEF IInv, CountsUsers
    <3> QED BY <3>1, UsersFinite, FS_EmptySet
  <2>2. refCount[p] = Absent /\ bridge[p] = "none"
    BY <2>0, <2>1 DEF Tidy, UnusedUnplugged
  <2>3. ~ReleaseShared(p)
    BY <2>2 DEF ReleaseShared, Remaining, Absent
  <2>4. RemoveVeth(e, p, FALSE)
    BY <1>1, <1>3, <2>0, <2>3 DEF ResetVeth
  <2>5. bridge' = bridge
    BY <1>0, <2>0, <2>2, <2>4 DEF RemoveVeth, DelPort
  <2>6. Decremented(p) = refCount
    BY <2>2 DEF Decremented, Absent
  <2>7. [refCount EXCEPT ![p] = Absent] = refCount
    <3>1. PICK R : refCount \in [Port -> R]
      BY <1>0 DEF TypeOK
    <3>2. [refCount EXCEPT ![p] = refCount[p]] = refCount
      BY <3>1
    <3> QED BY <2>2, <3>2
  <2>10. "linkdel" \notin Faults[e]
    BY DEF NothingLeaks, ResetCommands
  <2>8. refCount' = refCount /\ links' = links \ {p}
    <3>1. p \notin links => links = links \ {p}
      OBVIOUS
    <3> QED BY <2>4, <2>6, <2>7, <2>10, <3>1 DEF RemoveVeth
  <2>9. e \in SharingEnds => p \in links
    BY <1>3, <2>0 DEF Tidy, ParentsUsed, Rollback, Goto
  <2>11. /\ parentIf' \in {parentIf, [parentIf EXCEPT ![Group(e)] = NoPort]}
         /\ e \in SharingEnds => parentIf' = [parentIf EXCEPT ![Group(e)] = NoPort]
    BY <2>4, <2>9, <2>10 DEF RemoveVeth
  <2> QED BY <1>0, <1>1, <2>0, <2>1, <2>5, <2>8, <2>11
<1> QED BY <1>2, <1>3

LEMMA RollbackTidy ==
  ASSUME DistinctNames, NothingLeaks, IInv, IInv', Tidy, NEW e \in End,
         Rollback(e), held[e] = NoPort
  PROVE  Tidy'
<1>0. /\ TypeOK /\ NoPort \notin Port /\ SharingEnds \subseteq End
      /\ mutex = e /\ pc[e] = "rollback" /\ pc' = [pc EXCEPT ![e] = "idle"]
      /\ ifname' = ifname
  BY KernelAssumption
     DEF IInv, KernelAssumption, SharingEnds, Rollback, Goto, RollsBackAlone
<1>1. /\ UNCHANGED <<bridge, refCount, held>> /\ e \notin VFs
      /\ Target(e) # NoPort => Target(e) \in Port /\ Users(Target(e)) = {}
      /\ links' = links \ {Target(e)}
      /\ parentIf' \in {parentIf, [parentIf EXCEPT ![Group(e)] = NoPort]}
      /\ e \in SharingEnds => parentIf' = [parentIf EXCEPT ![Group(e)] = NoPort]
  BY RollbackShape
<1>2. \A q : Users(q)' = Users(q)
  BY <1>1 DEF Users
<1>3. \A d \in End : pc'[d] # "rollback" /\ (pc[d] = "rollback" => d = e)
  BY <1>0, ResetsAlone DEF TypeOK
<1>4. LinksUsed'
  <2>1. ASSUME NEW q \in links' PROVE q \in VethPort /\ Users(q)' # {}
    BY <1>1, <1>2, <1>3, <2>1 DEF Tidy, LinksUsed
  <2>2. ASSUME NEW d \in End \ VFs, held'[d] # NoPort PROVE held'[d] \in links'
    BY <1>0, <1>1, <2>2 DEF Tidy, LinksUsed, Users, TypeOK
  <2> QED BY <2>1, <2>2 DEF LinksUsed
<1>5. ParentsUsed'
  <2>1. ASSUME NEW g \in Groups, NEW q \in Port, parentIf'[g] = q PROVE Users(q)' # {}
    <3>1. parentIf[g] = q
      BY <1>0, <1>1, <2>1 DEF TypeOK
    <3>2. SUFFICES ASSUME Users(q) = {} PROVE FALSE
      BY <1>2
    <3>3. e \in SharingEnds /\ Group(e) = g
      BY <1>0, <1>3, <3>1, <3>2 DEF Tidy, ParentsUsed
    <3> QED BY <1>0, <1>1, <2>1, <3>3 DEF TypeOK
  <2>2. \A g \in Groups : parentIf'[g] # NoPort => parentIf'[g] \in Port
    BY DEF IInv, TypeOK
  <2>3. \A g \in Groups : parentIf'[g] # NoPort => Users(parentIf[g])' # {}
    BY <2>1, <2>2
  <2> QED BY <1>0, <1>3, <2>3 DEF ParentsUsed
<1>6. UnusedUnplugged' /\ VFsOnce'
  BY <1>1, <1>2 DEF Tidy, UnusedUnplugged, VFsOnce
<1>7. InPlace'
  <2>1. ifname[e] # "l2"
    BY <1>0 DEF Tidy, InPlace, Relies
  <2> QED BY <1>0, <1>1, <2>1 DEF Tidy, InPlace, Relies, Places, TypeOK
<1> QED BY <1>4, <1>5, <1>6, <1>7 DEF Tidy


-----------------------------------------------------------------------------
(* The steps.                                                              *)

\* Every setup that returns, or is rolled back, is a SetsUp.
LEMMA SetupsSetUp ==
  ASSUME DistinctNames, NothingLeaks, IInv, Tidy, NEW e \in End,
         SetupOk(e) \/ (SetupFails(e) /\ e \notin Clients) \/ SetupFailsSmartVF(e)
  PROVE  \E outcome : SetsUp(e, outcome)
<1>0. TypeOK
  BY DEF IInv
<1>1. CASE SetupOk(e)
  <2>1. SetsUp(e, "ok")
    BY <1>0, <1>1 DEF SetupOk, SetsUp, Goto, Counts, TypeOK
  <2> QED BY <2>1
<1>2. CASE SetupFails(e) /\ e \notin Clients
  <2>1. PICK outcome \in SetupCommands :
          /\ mutex = NoEnd /\ e \notin VFs /\ Goto(e, "setup", "rollback")
          /\ Setup(e, outcome)
          /\ held' = IF Counts(outcome) THEN [held EXCEPT ![e] = HostIf(e)] ELSE held
          /\ ifname' = ifname
    BY <1>2 DEF SetupFails
  <2>2. outcome = "up" => e \notin SharingEnds
    BY <1>2, <2>1 DEF NothingLeaks, Setup, CanEnd, VethCanEnd, PortCanEnd
  <2>3. SetsUp(e, outcome)
    BY <1>0, <2>1, <2>2 DEF SetsUp, Goto, TypeOK
  <2> QED BY <2>3
<1>3. CASE SetupFailsSmartVF(e)
  <2>1. PICK outcome \in SetupCommands :
          /\ mutex = NoEnd /\ e \in VFs \ Clients /\ Goto(e, "setup", "idle")
          /\ Setup(e, outcome) /\ UNCHANGED <<mutex, ifname, held>>
    BY <1>3 DEF SetupFailsSmartVF
  <2>2. held[e] = NoPort
    BY <1>0, <2>1 DEF IInv, Phases, MayHold, Releasing, Goto
  <2>3. HostIf(e) = IfName[e] /\ Users(IfName[e]) = {} /\ IfName[e] \in Port
    BY <1>0, <2>1, <2>2, HostUsers DEF Port
  <2>4. ~Counts(outcome)
    BY <1>0, <2>1, <2>3
       DEF NothingLeaks, Tidy, UnusedUnplugged, Setup, CanEnd, VFCanEnd, PortCanEnd,
           Counts, SetupCommands
  <2>5. SetsUp(e, outcome)
    BY <1>0, <2>1, <2>4 DEF SetsUp, Goto, TypeOK, SharingEnds
  <2> QED BY <2>5
<1> QED BY <1>1, <1>2, <1>3

\* Every reset of an end that holds an interface is a LetsGo.
LEMMA ResetsLetGo ==
  ASSUME NothingLeaks, PInv, Tidy, NEW e \in End,
         Undo(e) \/ CloseReset(e) \/ (Rollback(e) /\ held[e] # NoPort)
  PROVE  \E isL2Connect \in BOOLEAN : LetsGo(e, isL2Connect)
<1>0. /\ IInv /\ BrokenOut /\ TypeOK
      /\ e \in Breakout => e \notin VFs \cup Tagged \cup Clients
  BY KernelAssumption DEF PInv, IInv, NothingLeaks, KernelAssumption
<1>1. CASE Undo(e) \/ CloseReset(e)
  <2>0. /\ held[e] # NoPort /\ mutex = NoEnd /\ held' = [held EXCEPT ![e] = NoPort]
        /\ bridge[held[e]] \in Places(e)
        /\ ifname[e] = "l2" => e \in Breakout
        /\ pc' = [pc EXCEPT ![e] = pc'[e]] /\ pc'[e] \in {"idle", "unload"}
    BY <1>0, <1>1
       DEF Undo, CloseReset, Goto, IInv, TypeOK, Phases, MustHold, Releasing, Tidy,
           InPlace, BrokenOut, ResetAgain
  <2>1. CASE Undo(e)
    <3>1. LetsGo(e, FALSE)
      BY <1>0, <2>0, <2>1
         DEF LetsGo, Undo, Goto, Places, Tidy, InPlace, Relies, NothingLeaks
    <3> QED BY <3>1
  <2>2. CASE CloseReset(e)
    <3>1. PICK isL2Connect \in BOOLEAN : isL2Connect = (ifname[e] = "l2")
      OBVIOUS
    <3>2. Reset(e, isL2Connect)
      BY <2>2, <3>1 DEF CloseReset, ResetAgain
    <3>3. ifname'[e] # "l2" /\ \A d \in End \ {e} : ifname'[d] = ifname[d]
      BY <1>0, <2>0, <2>2 DEF CloseReset, TypeOK, ResetAgain
    <3>4. LetsGo(e, isL2Connect)
      BY <1>0, <2>0, <2>2, <3>1, <3>2, <3>3
         DEF LetsGo, CloseReset, Goto, Places, ResetAgain
    <3> QED BY <3>4
  <2> QED BY <1>1, <2>1, <2>2
<1>2. CASE Rollback(e) /\ held[e] # NoPort
  <2>1. /\ e \notin VFs /\ mutex = e /\ ifname[e] # "l2" /\ ifname' = ifname
        /\ bridge[held[e]] \in Places(e) /\ pc' = [pc EXCEPT ![e] = "idle"]
    BY <1>0, <1>2
       DEF Rollback, Goto, IInv, RollsBackAlone, Tidy, InPlace, Relies
  <2>2. LetsGo(e, FALSE)
    BY <1>0, <1>2, <2>1 DEF LetsGo, Rollback, Goto, Reset, Places, TypeOK
  <2> QED BY <2>2
<1> QED BY <1>1, <1>2

\* The second reset of an end finds nothing of it.
LEMMA ResetAgainFinds ==
  ASSUME DistinctNames, NothingLeaks, PInv, Tidy, NEW e \in End, ResetAgain(e)
  PROVE  /\ UNCHANGED <<refCount, parentIf, bridge, links, held, ifname>>
         /\ pc' = [pc EXCEPT ![e] = "unload"] /\ pc[e] = "again"
<1>0. /\ IInv /\ TypeOK /\ mutex = NoEnd /\ held[e] = NoPort
      /\ e \in Clients \ SharingEnds /\ UNCHANGED <<ifname, held>>
      /\ pc' = [pc EXCEPT ![e] = "unload"] /\ pc[e] = "again"
      /\ IfName[e] \in Port /\ IfName[e] # NoPort
  BY KernelAssumption
     DEF PInv, IInv, KeptByClients, Phases, MayHold, Releasing, ResetAgain, Goto, Port,
         NothingLeaks, ResetOnce, KernelAssumption
<1>1. Target(e) = IfName[e] /\ ifname[e] # "l2"
  BY <1>0 DEF Target, SharingEnds, Tidy, InPlace, Relies
<1>2. Users(IfName[e]) = {}
  BY <1>0, HostUsers DEF Fresh, SharingEnds
<1>3. PICK p \in Port : p = IfName[e] /\ Users(p) = {}
  BY <1>0, <1>2
<1>4. p \notin links /\ refCount[p] = Absent /\ bridge[p] = "none"
  BY <1>0, <1>3, UnusedNoLink
<1>5. Reset(e, FALSE)
  BY <1>1 DEF ResetAgain
<1>6. ~ReleaseShared(p) /\ Decremented(p) = refCount
  BY <1>4 DEF ReleaseShared, Remaining, Decremented, Absent
<1>7. CASE e \in VFs
  <2>1. RemoveVF(e, p, FALSE)
    BY <1>1, <1>3, <1>5, <1>6, <1>7 DEF Reset, ResetVF
  <2> QED BY <1>0, <1>4, <1>6, <2>1 DEF RemoveVF
<1>8. CASE e \notin VFs
  <2>1. RemoveVeth(e, p, FALSE)
    BY <1>0, <1>1, <1>3, <1>5, <1>6, <1>8 DEF Reset, ResetVeth
  <2>2. bridge' = bridge
    BY <1>4, <2>1 DEF RemoveVeth, DelPort
  <2> QED BY <1>0, <1>4, <1>6, <2>1, <2>2 DEF RemoveVeth
<1> QED BY <1>7, <1>8

LEMMA LockingTidy ==
  ASSUME DistinctNames, NothingLeaks, PInv, IInv', Tidy, NEW e \in End,
         Locking(e) \/ Rollback(e)
  PROVE  Stuck' \/ Tidy'
<1>0. IInv /\ BrokenOut /\ TypeOK
  BY DEF PInv, IInv
<1>1. CASE SetupOk(e) \/ (SetupFails(e) /\ e \notin Clients) \/ SetupFailsSmartVF(e)
  <2>1. PICK outcome : SetsUp(e, outcome)
    BY <1>0, <1>1, SetupsSetUp
  <2> QED BY <1>0, <2>1, SetupTidy
<1>2. CASE SetupFails(e) /\ e \in Clients
  BY <1>0, <1>2 DEF SetupFails, Goto, Stuck, TypeOK
<1>3. CASE Undo(e) \/ CloseReset(e) \/ (Rollback(e) /\ held[e] # NoPort)
  <2>1. PICK isL2Connect \in BOOLEAN : LetsGo(e, isL2Connect)
    BY <1>3, ResetsLetGo
  <2> QED BY <1>0, <2>1, ResetTidy
<1>4. CASE Rollback(e) /\ held[e] = NoPort
  BY <1>0, <1>4, RollbackTidy
<1>5. CASE ResetAgain(e)
  <2>1. /\ UNCHANGED <<refCount, parentIf, bridge, links, held, ifname>>
        /\ pc' = [pc EXCEPT ![e] = "unload"] /\ pc[e] = "again"
    BY <1>5, ResetAgainFinds
  <2>2. \A d \in End : /\ pc'[d] = "rollback" <=> pc[d] = "rollback"
                       /\ Target(d)' = Target(d)
                       /\ Relies(d)' <=> Relies(d)
                       /\ pc'[d] = "reset" <=> pc[d] = "reset"
                       /\ Places(d)' = Places(d)
    BY <1>0, <2>1 DEF TypeOK, Target, Relies, Places
  <2>3. \A q : Users(q)' = Users(q)
    BY <2>1 DEF Users
  <2>4. VFs \subseteq End /\ SharingEnds \subseteq End
    BY KernelAssumption DEF KernelAssumption, SharingEnds
  <2>5. UnusedUnplugged' /\ LinksUsed' /\ ParentsUsed' /\ VFsOnce'
    BY <2>1, <2>2, <2>3, <2>4
       DEF Tidy, UnusedUnplugged, LinksUsed, ParentsUsed, VFsOnce
  <2>6. InPlace'
    BY <2>1, <2>2 DEF Tidy, InPlace
  <2> QED BY <2>5, <2>6 DEF Tidy
<1> QED BY <1>1, <1>2, <1>3, <1>4, <1>5 DEF Locking

\* Steps between the critical sections move a broken out port at most.
LEMMA NextTidy ==
  ASSUME DistinctNames, NothingLeaks, PInv, Tidy, NEW e \in End,
         \/ NextFails(e) \/ NextClosed(e) \/ RefreshRecalls(e)
         \/ VlanBreakout(e) \/ VlanBreakoutFails(e)
  PROVE  Tidy'
<1>0. /\ IInv /\ BrokenOut /\ TypeOK /\ MapsInv /\ NoPort \notin Port
      /\ e \in Breakout => e \notin VFs \cup Tagged \cup Clients
      /\ "delport" \notin Faults[e]
  BY KernelAssumption
     DEF PInv, IInv, MapsInv, NothingLeaks, KernelAssumption, ResetCommands
<1>1. UNCHANGED <<maps, held, links>> /\ UNCHANGED <<refCount, parentIf>>
  BY DEF NextFails, NextClosed, RefreshRecalls, VlanBreakout, VlanBreakoutFails, maps
<1>2. /\ \A d \in End \ {e} : pc'[d] = pc[d] /\ ifname'[d] = ifname[d]
      /\ pc[e] # "rollback" /\ pc'[e] # "rollback"
  BY <1>0 DEF NextFails, NextClosed, RefreshRecalls, VlanBreakout, VlanBreakoutFails, Goto, TypeOK
<1>3. \A d \in End : (pc'[d] = "rollback" <=> pc[d] = "rollback")
                     /\ Target(d)' = Target(d)
  BY <1>1, <1>2 DEF Target
<1>4. \A q : Users(q)' = Users(q)
  BY <1>1 DEF Users
<1>5. LinksUsed' /\ ParentsUsed' /\ VFsOnce'
  BY <1>1, <1>3, <1>4, KernelAssumption
     DEF Tidy, LinksUsed, ParentsUsed, VFsOnce, KernelAssumption, SharingEnds
<1>6. /\ \A q \in Port : q # held[e] => bridge'[q] = bridge[q]
      /\ held[e] = NoPort => bridge' = bridge
  <2>1. e \in Breakout /\ pc[e] = "next" => held[e] # NoPort
    BY <1>0 DEF IInv, Phases, MustHold
  <2>2. pc[e] \in {"closing", "refresh"} => held[e] # NoPort
    BY DEF PInv, IInv, Phases, MustHold, Releasing
  <2> QED
    BY <1>0, <2>1, <2>2
       DEF NextFails, NextClosed, RefreshRecalls, VlanBreakout, VlanBreakoutFails, DelPort, Goto,
           BrokenOut, TypeOK
<1>7. \A q \in Port : Users(q) = {} => bridge'[q] = bridge[q]
  BY <1>6 DEF Users
<1>8. UnusedUnplugged'
  BY <1>1, <1>4, <1>7 DEF Tidy, UnusedUnplugged
<1>9. ASSUME held[e] # NoPort PROVE bridge'[held[e]] \in Places(e)'
  <2>1. held[e] \in Port /\ bridge[held[e]] \in Places(e)
    BY <1>0, <1>9 DEF Tidy, InPlace, TypeOK
  <2>2. ifname[e] = "l2" => e \in Breakout
    BY <1>0 DEF BrokenOut
  <2>3. CASE NextFails(e)
    BY <1>0, <2>1, <2>2, <2>3 DEF NextFails, DelPort, Goto, Places, TypeOK
  <2>4. CASE NextClosed(e)
    BY <1>0, <2>1, <2>2, <2>4 DEF NextClosed, DelPort, Goto, Places, TypeOK
  <2>5. CASE VlanBreakout(e)
    BY <1>0, <2>1, <2>5 DEF VlanBreakout, Places, TypeOK
  <2>6. CASE VlanBreakoutFails(e)
    BY <1>0, <2>1, <2>6 DEF VlanBreakoutFails, Goto, Places, TypeOK
  <2>7. CASE RefreshRecalls(e)
    BY <1>0, <2>1, <2>2, <2>7
       DEF RefreshRecalls, DelPort, Goto, Places, Recalled, TypeOK
  <2> QED BY <2>3, <2>4, <2>5, <2>6, <2>7
<1>10. ifname'[e] = "l2" => Relies(e)' \/ pc'[e] = "reset"
  BY <1>0 DEF NextFails, NextClosed, RefreshRecalls, VlanBreakout, VlanBreakoutFails, Goto, Relies, TypeOK
<1>11. ASSUME NEW d \in End \ {e}, held[d] # NoPort
       PROVE  bridge'[held[d]] = bridge[held[d]]
  <2>1. CASE held[d] # held[e]
    BY <1>0, <1>6, <1>11, <2>1 DEF TypeOK
  <2>2. CASE held[d] = held[e]
    <3>1. e \notin Breakout
      BY <1>0, <1>11, <2>2, OwnPort DEF PInv
    <3> QED
      BY <1>0, <3>1
         DEF NextFails, NextClosed, RefreshRecalls, VlanBreakout, VlanBreakoutFails, BrokenOut
  <2> QED BY <2>1, <2>2
<1>12. InPlace'
  <2>1. \A d \in End \ {e} : (Relies(d)' <=> Relies(d)) /\ Places(d)' = Places(d)
    BY <1>2 DEF Relies, Places
  <2> QED BY <1>1, <1>2, <1>9, <1>10, <1>11, <2>1 DEF Tidy, InPlace
<1> QED BY <1>5, <1>8, <1>12 DEF Tidy

\* The others change nothing that Tidy is about.
LEMMA ControlTidy ==
  ASSUME NothingLeaks, PInv, Tidy, NEW e \in End,
         \/ Request(e) \/ Refresh(e) \/ Close(e) \/ CloseAgain(e) \/ RefreshReturns(e)
         \/ Unload(e) \/ Keep(e) \/ NextOk(e)
  PROVE  Tidy'
<1>0. /\ IInv /\ BrokenOut /\ TypeOK
      /\ e \in Breakout => e \notin Clients
  BY KernelAssumption DEF PInv, IInv, KernelAssumption
<1>1. UNCHANGED <<refCount, parentIf, bridge, links, held>>
  BY DEF Request, Refresh, Close, RefreshReturns, Unload, NextOk, maps, host,
         CloseAgain, Keep
<1>2. /\ \A d \in End \ {e} : pc'[d] = pc[d] /\ ifname'[d] = ifname[d]
      /\ pc[e] # "rollback" /\ pc'[e] # "rollback"
  BY <1>0 DEF Request, Refresh, Close, RefreshReturns, Unload, NextOk, Goto, TypeOK,
              CloseAgain, Keep
<1>3. \A d \in End : (pc'[d] = "rollback" <=> pc[d] = "rollback")
                     /\ Target(d)' = Target(d)
  BY <1>1, <1>2 DEF Target
<1>4. \A q : Users(q)' = Users(q)
  BY <1>1 DEF Users
<1>5. LinksUsed' /\ ParentsUsed' /\ VFsOnce' /\ UnusedUnplugged'
  BY <1>1, <1>3, <1>4, KernelAssumption
     DEF Tidy, LinksUsed, ParentsUsed, VFsOnce, UnusedUnplugged, KernelAssumption,
         SharingEnds
<1>6. /\ ifname'[e] = "l2" => Relies(e)' \/ pc'[e] = "reset"
      /\ held[e] # NoPort => bridge[held[e]] \in Places(e)'
  BY <1>0
     DEF Request, Refresh, Close, RefreshReturns, Unload, NextOk, Goto, TypeOK,
         Relies, Places, Tidy, InPlace, IInv, Phases, MayHold, Releasing, BrokenOut,
         CloseAgain, Keep
<1>7. InPlace'
  <2>1. \A d \in End \ {e} : (Relies(d)' <=> Relies(d)) /\ Places(d)' = Places(d)
    BY <1>2 DEF Relies, Places
  <2> QED BY <1>1, <1>2, <1>6, <2>1 DEF Tidy, InPlace
<1> QED BY <1>5, <1>7 DEF Tidy

\* A stuck end keeps the mutex: nobody sets up or resets any more.
LEMMA StuckStep ==
  ASSUME NothingLeaks, IInv, StuckHolds, [Next]_vars
  PROVE  /\ StuckHolds' /\ (Stuck => Stuck')
         /\ Stuck => \A e \in End : ~Locking(e) /\ ~Rollback(e)
<1>0. TypeOK /\ NoEnd \notin End
  BY KernelAssumption DEF IInv, KernelAssumption
<1>1. ASSUME Stuck, NEW e \in End PROVE ~Locking(e) /\ ~Rollback(e)
  <2>1. PICK d \in End : pc[d] = "stuck" /\ mutex = d
    BY <1>1 DEF Stuck, StuckHolds
  <2>2. mutex # NoEnd /\ pc[mutex] # "rollback"
    BY <1>0, <2>1
  <2>3. ~Rollback(e)
    BY <2>2 DEF Rollback, Goto, IInv, RollsBackAlone
  <2>4. ~Locking(e)
    BY <2>2
       DEF Locking, SetupOk, SetupFails, SetupFailsSmartVF, Undo, CloseReset,
           ResetAgain
  <2> QED BY <2>3, <2>4
<1>2. ASSUME NEW e \in End, Locking(e) \/ Rollback(e) PROVE StuckHolds'
  <2>1. \A d \in End : pc[d] # "stuck"
    BY <1>1, <1>2 DEF Stuck
  <2> QED
    BY <1>0, <1>2, <2>1
       DEF StuckHolds, Locking, SetupOk, SetupFails, SetupFailsSmartVF, Undo,
           CloseReset, Rollback, Goto, TypeOK, ResetAgain
<1>3. ASSUME NEW e \in End,
             Unlocked(e)
      PROVE  mutex' = mutex /\ \A d \in End : pc'[d] = "stuck" <=> pc[d] = "stuck"
  BY <1>0, <1>3
     DEF Request, Refresh, Close, RefreshReturns, NextClosed, Unload, NextReturns,
         NextOk, NextFails, VlanBreakout, VlanBreakoutFails, Goto, TypeOK,
         RefreshRecalls, CloseAgain, Keep, Unlocked
<1>4. CASE UNCHANGED vars
  BY <1>1, <1>4 DEF vars, StuckHolds, Stuck
<1>5. ~Restart /\ ~(\E p \in Mortal : LinkGone(p))
  BY DEF NothingLeaks, Restart
<1>6. ASSUME NEW e \in End, Step(e) PROVE StuckHolds' /\ (Stuck => Stuck')
  <2>1. CASE Locking(e) \/ Rollback(e)
    BY <1>1, <1>2, <2>1
  <2>2. CASE ~(Locking(e) \/ Rollback(e))
    BY <1>3, <1>6, <2>2 DEF Step, Unlocked, StuckHolds, Stuck
  <2> QED BY <2>1, <2>2
<1> QED BY <1>1, <1>4, <1>5, <1>6 DEF Next

LEMMA TidyStep ==
  ASSUME DistinctNames, NothingLeaks, PInv, IInv', TInv, [Next]_vars
  PROVE  TInv'
<1>1. StuckHolds' /\ (Stuck => Stuck')
  BY StuckStep DEF PInv, TInv
<1>2. ASSUME Tidy, NEW e \in End, Step(e) PROVE Stuck' \/ Tidy'
  <2>1. CASE Locking(e) \/ Rollback(e)
    BY <1>2, <2>1, LockingTidy
  <2>2. CASE \/ NextFails(e) \/ NextClosed(e) \/ RefreshRecalls(e)
             \/ VlanBreakout(e) \/ VlanBreakoutFails(e)
    BY <1>2, <2>2, NextTidy
  <2>3. CASE \/ Request(e) \/ Refresh(e) \/ Close(e) \/ CloseAgain(e)
             \/ RefreshReturns(e) \/ Unload(e) \/ Keep(e) \/ NextOk(e)
    BY <1>2, <2>3, ControlTidy
  <2> QED BY <1>2, <2>1, <2>2, <2>3 DEF Step, NextReturns
<1>3. ASSUME Tidy, UNCHANGED vars PROVE Tidy'
  BY <1>3
     DEF vars, maps, host, Tidy, UnusedUnplugged, LinksUsed, ParentsUsed, VFsOnce,
         InPlace, Users, Target, Relies, Places
<1>4. ~Restart /\ ~(\E p \in Mortal : LinkGone(p))
  BY DEF NothingLeaks, Restart
<1> QED BY <1>1, <1>2, <1>3, <1>4 DEF TInv, Next

\* When closing works, all there is on the bridge, in the maps and among the
\* links is there for an end that uses it, until a client end is stuck.
THEOREM TidyInvariant ==
  ASSUME DistinctNames, UniformTagging, NothingLeaks
  PROVE  Spec => [](PInv /\ TInv)
<1>1. SoleBreakout /\ ResetOnce
  BY DEF NothingLeaks, SoleBreakout
<1>2. Init => TInv
  <2>1. SUFFICES ASSUME Init PROVE TInv
    OBVIOUS
  <2>2. VFs \subseteq End /\ SharingEnds \subseteq End
    BY KernelAssumption DEF KernelAssumption, SharingEnds
  <2>3. \A e \in End : pc[e] = "idle" /\ held[e] = NoPort /\ ifname[e] = "none"
    BY <2>1 DEF Init
  <2>4. UnusedUnplugged /\ LinksUsed
    BY <2>1, <2>3 DEF Init, UnusedUnplugged, LinksUsed
  <2>5. ParentsUsed /\ VFsOnce /\ InPlace /\ StuckHolds
    BY <2>1, <2>2, <2>3 DEF Init, ParentsUsed, VFsOnce, InPlace, StuckHolds
  <2> QED BY <2>4, <2>5 DEF TInv, Tidy
<1>3. PInv /\ PInv' /\ TInv /\ [Next]_vars => TInv'
  BY TidyStep DEF PInv
<1> QED BY <1>1, <1>2, <1>3, PluggedInvariant, PTL DEF Spec

\* When no end is connecting, connected or closing, nothing is left behind.
THEOREM CleanWhenIdleCorrect ==
  ASSUME DistinctNames, UniformTagging, NothingLeaks
  PROVE  Spec => []CleanWhenIdle
<1>1. ASSUME PInv, TInv PROVE CleanWhenIdle
  <2>1. SUFFICES ASSUME \A e \in End : pc[e] = "idle"
                 PROVE  /\ \A p \in Port : refCount[p] = Absent /\ bridge[p] = "none"
                        /\ \A g \in Groups : parentIf[g] = NoPort
                        /\ links = {}
    BY DEF CleanWhenIdle
  <2>2. Tidy /\ IInv /\ VethPort \subseteq Port /\ SharingEnds \subseteq End
    BY <1>1, <2>1, KernelAssumption
       DEF TInv, Stuck, PInv, VethPort, Port, SharingEnds, KernelAssumption
  <2>3. ASSUME NEW p PROVE p = NoPort \/ Users(p) = {}
    BY <2>1, <2>2 DEF IInv, Phases, MayHold, Releasing, Users
  <2>4. NoPort \notin Port
    BY KernelAssumption DEF KernelAssumption
  <2>5. \A p \in Port : refCount[p] = Absent /\ bridge[p] = "none"
    BY <2>2, <2>3, <2>4 DEF Tidy, UnusedUnplugged
  <2>6. \A g \in Groups : parentIf[g] = NoPort
    BY <2>1, <2>2, <2>3 DEF Tidy, ParentsUsed
  <2>7. links = {}
    BY <2>1, <2>2, <2>3, <2>4 DEF Tidy, LinksUsed
  <2> QED BY <2>5, <2>6, <2>7
<1> QED BY <1>1, TidyInvariant, PTL

-----------------------------------------------------------------------------
(* The shared parents implement SharedPort.                                *)

ParentsUnchanged ==
  \A p \in ParentPort : /\ Users(p)' = Users(p)
                        /\ bridge'[p] # "none" <=> bridge[p] # "none"

LEMMA SharedStutter ==
  ASSUME ParentsUnchanged
  PROVE  UNCHANGED Shared!vars
BY DEF ParentsUnchanged, Shared!vars

LEMMA SharedJoin ==
  ASSUME NEW e \in SharingEnds, NEW h \in ParentPort,
         \A p \in ParentPort : e \notin Users(p),
         \A p \in ParentPort :
           /\ Users(p)' = IF p = h THEN Users(p) \cup {e} ELSE Users(p)
           /\ bridge'[p] # "none" <=> p = h \/ bridge[p] # "none"
  PROVE  Shared!Next
<1>1. Shared!Join(e, h)
  BY DEF Shared!Join
<1> QED BY <1>1 DEF Shared!Next

LEMMA SharedLeave ==
  ASSUME NEW e \in SharingEnds, NEW h \in ParentPort, e \in Users(h),
         \A p \in ParentPort :
           /\ Users(p)' = IF p = h THEN Users(p) \ {e} ELSE Users(p)
           /\ bridge'[p] # "none" <=>
                bridge[p] # "none" /\ (p = h => Users(h) # {e})
  PROVE  Shared!Next
<1>1. Shared!Leave(e, h)
  BY DEF Shared!Leave
<1> QED BY <1>1 DEF Shared!Next

\* A used parent is on the integration bridge.
LEMMA ParentPlugged ==
  ASSUME DistinctNames, NothingLeaks, PInv, Tidy, NEW p \in ParentPort, Users(p) # {}
  PROVE  bridge[p] # "none"
<1>1. PICK c \in SharingEnds : p = IfName[c]
  BY DEF ParentPort
<1>2. PICK d \in End : held[d] = p
  BY DEF Users
<1>3. d \in SharingEnds /\ IInv
  BY <1>1, <1>2, ParentUsers DEF PInv
<1>4. d \notin Breakout /\ ifname[d] # "l2" /\ held[d] # NoPort
  BY <1>1, <1>2, <1>3, KernelAssumption
     DEF NothingLeaks, SharingEnds, PInv, BrokenOut, KernelAssumption, Port
<1> QED BY <1>2, <1>4 DEF Tidy, InPlace, Places

\* A setup joins when it counts, and otherwise moves no parent.
LEMMA SetupShares ==
  ASSUME DistinctNames, NothingLeaks, PInv, Tidy, NEW e \in End, mutex = NoEnd,
         held[e] = NoPort, NEW outcome, Setup(e, outcome),
         held' = IF Counts(outcome) THEN [held EXCEPT ![e] = HostIf(e)] ELSE held
  PROVE  [Shared!Next]_(Shared!vars)
<1>0. /\ IInv /\ TypeOK /\ NoPort \notin Port /\ ParentPort \subseteq Port
      /\ SharingEnds \subseteq End \ VFs
  BY KernelAssumption
     DEF PInv, IInv, KernelAssumption, ParentPort, Port, SharingEnds
<1>1. PICK h \in Port : h = HostIf(e)
  BY <1>0, HostIfType DEF TypeOK, MapsOK
<1>2. /\ \A p \in Port \ {h} : bridge'[p] = bridge[p]
      /\ IF e \in VFs \/ Fresh(e)
         THEN IF Counts(outcome) THEN bridge'[h] = "nsm" ELSE bridge' = bridge
         ELSE Counts(outcome) /\ bridge' = bridge
  BY <1>0, <1>1, SetupShape
<1>3. IF e \in VFs \/ Fresh(e)
      THEN h = IfName[e]
      ELSE e \in SharingEnds /\ Users(h) # {}
  BY <1>0, <1>1, HostUsers
<1>4. \A p \in Port : /\ e \notin Users(p)
                      /\ Users(p)' = IF Counts(outcome) /\ p = h
                                     THEN Users(p) \cup {e} ELSE Users(p)
  BY <1>0, <1>1 DEF Users, TypeOK
<1>5. CASE ~Counts(outcome)
  <2>1. ParentsUnchanged
    BY <1>0, <1>2, <1>4, <1>5 DEF ParentsUnchanged
  <2> QED BY <2>1, SharedStutter
<1>6. CASE Counts(outcome) /\ h \notin ParentPort
  <2>1. ParentsUnchanged
    BY <1>0, <1>2, <1>4, <1>6 DEF ParentsUnchanged
  <2> QED BY <2>1, SharedStutter
<1>7. CASE Counts(outcome) /\ h \in ParentPort
  <2>1. e \in SharingEnds
    BY <1>0, <1>3, <1>7 DEF ParentPort, DistinctNames
  <2>2. bridge'[h] # "none"
    BY <1>2, <1>3, <1>7, ParentPlugged
  <2>3. \A p \in ParentPort :
           /\ e \notin Users(p)
           /\ Users(p)' = IF p = h THEN Users(p) \cup {e} ELSE Users(p)
           /\ bridge'[p] # "none" <=> p = h \/ bridge[p] # "none"
    BY <1>0, <1>2, <1>4, <1>7, <2>2
  <2> QED BY <1>7, <2>1, <2>3, SharedJoin
<1> QED BY <1>5, <1>6, <1>7

\* A reset leaves what it held.
LEMMA ResetShares ==
  ASSUME DistinctNames, NothingLeaks, PInv, Tidy, NEW e \in End,
         NEW isL2Connect \in BOOLEAN, LetsGo(e, isL2Connect)
  PROVE  [Shared!Next]_(Shared!vars)
<1>0. /\ IInv /\ TypeOK /\ NoPort \notin Port /\ ParentPort \subseteq Port
      /\ SharingEnds \subseteq End
  BY KernelAssumption
     DEF PInv, IInv, KernelAssumption, ParentPort, Port, SharingEnds
<1>1. PICK h \in Port : h = held[e]
  BY <1>0 DEF LetsGo, TypeOK
<1>2. /\ Users(h)' = Users(h) \ {e} /\ \A q \in Port \ {h} : Users(q)' = Users(q)
      /\ \A q \in Port \ {h} : bridge'[q] = bridge[q]
      /\ IF Users(h)' = {} THEN bridge'[h] = "none" ELSE bridge' = bridge
  BY <1>0, <1>1, ResetShape
<1>3. e \in Users(h)
  BY <1>1 DEF Users
<1>4. CASE h \notin ParentPort
  <2>1. ParentsUnchanged
    BY <1>0, <1>2, <1>4 DEF ParentsUnchanged
  <2> QED BY <2>1, SharedStutter
<1>5. CASE h \in ParentPort
  <2>1. PICK c \in SharingEnds : h = IfName[c]
    BY <1>5 DEF ParentPort
  <2>2. e \in SharingEnds
    BY <1>0, <1>1, <2>1, ParentUsers
  <2>3. bridge[h] # "none"
    BY <1>3, <1>5, ParentPlugged
  <2>4. Users(h)' = {} <=> Users(h) = {e}
    BY <1>2, <1>3
  <2>5. \A p \in ParentPort :
           /\ Users(p)' = IF p = h THEN Users(p) \ {e} ELSE Users(p)
           /\ bridge'[p] # "none" <=> bridge[p] # "none" /\ (p = h => Users(h) # {e})
    BY <1>0, <1>2, <2>3, <2>4
  <2> QED BY <1>3, <1>5, <2>2, <2>5, SharedLeave
<1> QED BY <1>4, <1>5

\* Between the critical sections only ports that are broken out move.
LEMMA UnlockedShares ==
  ASSUME DistinctNames, NothingLeaks, PInv, NEW e \in End,
         Unlocked(e)
  PROVE  UNCHANGED Shared!vars
<1>0. IInv /\ BrokenOut /\ TypeOK /\ held' = held /\ ParentPort \subseteq Port
  BY KernelAssumption
     DEF PInv, IInv, KernelAssumption, ParentPort, Port, SharingEnds, Request,
         Refresh, Close, RefreshReturns, NextClosed, Unload, NextReturns, NextOk,
         NextFails, VlanBreakout, VlanBreakoutFails, RefreshRecalls, CloseAgain, Keep,
         Unlocked
<1>1. \A p : Users(p)' = Users(p)
  BY <1>0 DEF Users
<1>2. /\ e \notin Breakout => bridge' = bridge
      /\ \A q \in Port \ {held[e]} : bridge'[q] = bridge[q]
  BY <1>0
     DEF Request, Refresh, Close, RefreshReturns, NextClosed, Unload, NextReturns,
         NextOk, NextFails, VlanBreakout, VlanBreakoutFails, DelPort, BrokenOut,
         TypeOK, host, RefreshRecalls, CloseAgain, Keep, Unlocked
<1>3. ASSUME e \in Breakout, held[e] \in ParentPort PROVE FALSE
  <2>1. PICK c \in SharingEnds : held[e] = IfName[c]
    BY <1>3 DEF ParentPort
  <2>2. e \in SharingEnds
    BY <1>0, <2>1, ParentUsers
  <2> QED BY <1>3, <2>2 DEF SharingEnds, NothingLeaks
<1>4. ParentsUnchanged
  BY <1>0, <1>1, <1>2, <1>3 DEF ParentsUnchanged
<1> QED BY <1>4, SharedStutter

LEMMA SharedStep ==
  ASSUME DistinctNames, NothingLeaks, PInv, TInv, [Next]_vars
  PROVE  [Shared!Next]_(Shared!vars)
<1>0. IInv /\ BrokenOut /\ TypeOK
  BY DEF PInv, IInv
<1>1. ASSUME NEW e \in End, Step(e) PROVE [Shared!Next]_(Shared!vars)
  <2>1. CASE Locking(e) \/ Rollback(e)
    <3>0. Tidy
      BY <1>0, <2>1, StuckStep DEF TInv
    <3>1. CASE SetupFailsSmartVF(e)
      <4>1. PICK outcome : SetsUp(e, outcome)
        BY <1>0, <3>0, <3>1, SetupsSetUp
      <4>2. held[e] = NoPort
        BY <1>0, <3>1 DEF SetupFailsSmartVF, Goto, IInv, Phases, MayHold, Releasing
      <4> QED BY <3>0, <4>1, <4>2, SetupShares DEF SetsUp
    <3>2. CASE SetupOk(e) \/ SetupFails(e)
      <4>1. mutex = NoEnd /\ held[e] = NoPort
        BY <1>0, <3>2
           DEF SetupOk, SetupFails, Goto, IInv, Phases, MayHold, Releasing
      <4>2. PICK outcome :
              /\ Setup(e, outcome)
              /\ held' = IF Counts(outcome) THEN [held EXCEPT ![e] = HostIf(e)] ELSE held
        <5>1. CASE SetupOk(e)
          BY <5>1 DEF SetupOk, Counts
        <5>2. CASE SetupFails(e)
          BY <5>2 DEF SetupFails
        <5> QED BY <3>2, <5>1, <5>2
      <4> QED BY <3>0, <4>1, <4>2, SetupShares
    <3>3. CASE Undo(e) \/ CloseReset(e) \/ (Rollback(e) /\ held[e] # NoPort)
      <4>1. PICK isL2Connect \in BOOLEAN : LetsGo(e, isL2Connect)
        BY <3>0, <3>3, ResetsLetGo
      <4> QED BY <3>0, <4>1, ResetShares
    <3>4. CASE Rollback(e) /\ held[e] = NoPort
      <4>1. UNCHANGED <<bridge, held>>
        BY <1>0, <3>0, <3>4, RollbackShape
      <4>2. ParentsUnchanged
        BY <4>1 DEF ParentsUnchanged, Users
      <4> QED BY <4>2, SharedStutter
    <3>5. CASE ResetAgain(e)
      <4>1. UNCHANGED <<bridge, held>>
        BY <3>0, <3>5, ResetAgainFinds
      <4>2. ParentsUnchanged
        BY <4>1 DEF ParentsUnchanged, Users
      <4> QED BY <4>2, SharedStutter
    <3> QED BY <2>1, <3>1, <3>2, <3>3, <3>4, <3>5 DEF Locking
  <2>2. CASE ~(Locking(e) \/ Rollback(e))
    BY <1>1, <2>2, UnlockedShares DEF Step, Unlocked
  <2> QED BY <2>1, <2>2
<1>2. ASSUME UNCHANGED vars PROVE UNCHANGED Shared!vars
  <2>1. ParentsUnchanged
    BY <1>2 DEF ParentsUnchanged, Users, vars, host
  <2> QED BY <2>1, SharedStutter
<1>3. ~Restart /\ ~(\E p \in Mortal : LinkGone(p))
  BY DEF NothingLeaks, Restart
<1> QED BY <1>1, <1>2, <1>3 DEF Next

\* When closing works, a parent is on the bridge from its first user to its
\* last, in whatever order its tagged ends come, fail and go.
THEOREM SharedPortRefined ==
  ASSUME DistinctNames, UniformTagging, NothingLeaks
  PROVE  Spec => ImplementsSharedPort
<1>1. Init => Shared!Init
  <2>1. SUFFICES ASSUME Init PROVE Shared!Init
    OBVIOUS
  <2>2. \A p \in ParentPort : p \in Port /\ p # NoPort
    BY KernelAssumption DEF ParentPort, Port, SharingEnds, KernelAssumption
  <2>3. \A p \in ParentPort : Users(p) = {} /\ bridge[p] = "none"
    BY <2>1, <2>2 DEF Init, Users
  <2> QED BY <2>3 DEF Shared!Init
<1>2. PInv /\ TInv /\ [Next]_vars => [Shared!Next]_(Shared!vars)
  BY SharedStep
<1> QED BY <1>1, <1>2, TidyInvariant, PTL DEF Spec, ImplementsSharedPort, Shared!Spec

-----------------------------------------------------------------------------
(* Setups fail only on faults.                                             *)

\* What a free mutex lets a setup find is what its users have plugged in, so that
\* no command refuses.
LEMMA SetupFinds ==
  ASSUME DistinctNames, NothingLeaks, PInv, Tidy, mutex = NoEnd,
         NEW e \in End, held[e] = NoPort
  PROVE  /\ LinkReady(e)
         /\ refCount[HostIf(e)] # Absent => bridge[HostIf(e)] # "none"
         /\ refCount[HostIf(e)] = Absent => bridge[HostIf(e)] # "l2"
<1>1. IInv /\ TypeOK /\ IfName[e] \in Port
  BY DEF PInv, IInv, Port
<1>2. CASE e \in VFs \/ Fresh(e)
  <2>1. HostIf(e) = IfName[e] /\ Users(IfName[e]) = {}
    BY <1>1, <1>2, HostUsers
  <2> QED BY <1>1, <2>1, UnusedNoLink DEF LinkReady
<1>3. CASE ~(e \in VFs \/ Fresh(e))
  <2>1. /\ e \in SharingEnds /\ HostIf(e) = parentIf[Group(e)]
        /\ HostIf(e) # NoPort /\ Users(HostIf(e)) # {}
    BY <1>1, <1>3, HostUsers
  <2>2. PICK p : p = HostIf(e)
    OBVIOUS
  <2>3. p \in ParentPort /\ p \in Port
    BY <1>1, <2>1, <2>2, KernelAssumption
       DEF IInv, ParentIsVeth, Groups, ParentPort, SharingEnds, Port, KernelAssumption
  <2>4. refCount[p] # Absent /\ bridge[p] # "none"
    BY <1>1, <2>1, <2>2, <2>3, UsedIsCounted, ParentPlugged
  <2> QED BY <1>3, <2>2, <2>4 DEF LinkReady
<1> QED BY <1>2, <1>3

\* A setup that has the mutex can succeed.
SetupCanSucceed == \A e \in End : pc[e] = "setup" /\ mutex = NoEnd => CanEnd(e, "ok")

\* Whatever earlier connections have left, a setup can succeed, and fails only if a
\* command of its own does (setupVeth, setupVF).
THEOREM SetupFailsOnlyOnFaultCorrect ==
  ASSUME DistinctNames, UniformTagging, NothingLeaks
  PROVE  Spec => [](SetupFailsOnlyOnFault /\ SetupCanSucceed)
<1>1. ASSUME PInv, TInv, NEW e \in End, pc[e] = "setup", mutex = NoEnd
      PROVE  /\ CanEnd(e, "ok")
             /\ \A outcome \in SetupCommands : CanEnd(e, outcome) => outcome \in Faults[e]
  <2>1. Tidy /\ held[e] = NoPort
    BY <1>1, KernelAssumption
       DEF TInv, Stuck, StuckHolds, KernelAssumption, PInv, IInv, Phases, MayHold, Releasing
  <2>2. /\ LinkReady(e)
        /\ refCount[HostIf(e)] # Absent => bridge[HostIf(e)] # "none"
        /\ refCount[HostIf(e)] = Absent => bridge[HostIf(e)] # "l2"
    BY <1>1, <2>1, SetupFinds
  <2> QED BY <2>2 DEF CanEnd, VFCanEnd, VethCanEnd, PortCanEnd, SetupCommands
<1>2. PInv /\ TInv => SetupFailsOnlyOnFault /\ SetupCanSucceed
  BY <1>1 DEF SetupFailsOnlyOnFault, SetupCanSucceed
<1> QED BY <1>2, TidyInvariant, PTL

\* The mutex is with an end that rolls back or is stuck.
HolderHolds == mutex # NoEnd => pc[mutex] \in {"rollback", "stuck"}

LEMMA HolderInvariant == Spec => []HolderHolds
<1>1. Init => HolderHolds
  BY DEF Init, HolderHolds
<1>2. TypeOK /\ HolderHolds /\ [Next]_vars => HolderHolds'
  <2> SUFFICES ASSUME TypeOK, HolderHolds, [Next]_vars PROVE HolderHolds'
    OBVIOUS
  <2>1. ASSUME NEW e \in End, Locking(e) PROVE HolderHolds'
    BY <2>1 DEF HolderHolds, TypeOK, Locking, SetupOk, SetupFails, SetupFailsSmartVF,
                Undo, CloseReset, Goto, ResetAgain
  <2>2. ASSUME NEW e \in End,
               Unlocked(e)
        PROVE  HolderHolds'
    BY <2>2 DEF HolderHolds, TypeOK, Request, Refresh, Close, RefreshReturns,
                NextClosed, Unload, NextReturns, NextOk, NextFails, VlanBreakout,
                VlanBreakoutFails, Goto, RefreshRecalls, CloseAgain, Keep, Unlocked
  <2>3. ASSUME NEW e \in End, Rollback(e) PROVE HolderHolds'
    BY <2>3 DEF HolderHolds, Rollback
  <2>4. ASSUME NEW p \in Mortal, LinkGone(p) PROVE HolderHolds'
    BY <2>4 DEF HolderHolds, LinkGone
  <2>5. CASE Restart
    BY <2>5 DEF HolderHolds, Restart
  <2>6. CASE UNCHANGED vars
    BY <2>6 DEF HolderHolds, vars
  <2> QED BY <2>1, <2>2, <2>3, <2>4, <2>5, <2>6 DEF Next, Step, Unlocked
<1> QED BY <1>1, <1>2, TypeCorrect, PTL DEF Spec

\* The client ends never fail to set up.
ClientsSetUp == \A e \in Clients : Faults[e] \cap SetupCommands = {}

\* Then no end deadlocks with itself, and the mutex is held only by a server end
\* that is about to roll back and unlock (kernelVethServer, kernelClient).
THEOREM HolderCanRunCorrect ==
  ASSUME DistinctNames, UniformTagging, NothingLeaks, ClientsSetUp
  PROVE  Spec => [](HolderCanRun /\ \A e \in End : pc[e] # "stuck")
<1> DEFINE NoneStuck == \A e \in End : pc[e] # "stuck"
<1>1. Init => NoneStuck
  BY DEF Init
<1>2. PInv /\ TInv /\ SetupFailsOnlyOnFault /\ NoneStuck /\ [Next]_vars => NoneStuck'
  <2> SUFFICES ASSUME PInv, SetupFailsOnlyOnFault, NoneStuck, [Next]_vars,
                      NEW d \in End, pc'[d] = "stuck"
               PROVE  FALSE
    OBVIOUS
  <2>1. TypeOK /\ pc[d] # "stuck"
    BY DEF PInv, IInv
  <2>2. PICK e \in End : Step(e)
    BY <2>1 DEF Next, vars, LinkGone, Restart
  <2>3. SetupFails(d) /\ d \in Clients
    BY <2>1, <2>2
       DEF Step, Locking, NextReturns, Request, Refresh, Close, RefreshReturns,
           NextClosed, Unload, Rollback, NextOk, NextFails, VlanBreakout,
           VlanBreakoutFails, SetupOk, SetupFails, SetupFailsSmartVF, Undo,
           CloseReset, Goto, TypeOK, RefreshRecalls, CloseAgain, Keep, ResetAgain
  <2>4. PICK outcome \in SetupCommands : CanEnd(d, outcome)
    BY <2>3 DEF SetupFails, Setup
  <2>5. outcome \in Faults[d]
    BY <2>3, <2>4 DEF SetupFailsOnlyOnFault, SetupFails, Goto
  <2> QED BY <2>3, <2>4, <2>5 DEF ClientsSetUp
<1>3. PInv /\ HolderHolds /\ NoneStuck => HolderCanRun
  BY DEF PInv, IInv, TypeOK, HolderHolds, HolderCanRun
<1> QED
  BY <1>1, <1>2, <1>3, TidyInvariant, SetupFailsOnlyOnFaultCorrect, HolderInvariant, PTL
     DEF Spec
=============================================================================
