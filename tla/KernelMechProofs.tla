-------------------------- MODULE KernelMechProofs --------------------------
(***************************************************************************)
(* Proofs about KernelMech, for every set of ends, every naming and every  *)
(* combination of faults that KernelAssumption allows.                     *)
(***************************************************************************)
EXTENDS KernelMech, FiniteSetTheorems, TLAPS

\* The steps outside every critical section.
Unlocked(e) ==
  \/ Request(e) \/ Refresh(e) \/ RefreshReturns(e) \/ RefreshRecalls(e)
  \/ Close(e) \/ CloseAgain(e) \/ NextClosed(e) \/ Unload(e) \/ Keep(e)
  \/ NextReturns(e)

-----------------------------------------------------------------------------
(* Types.                                                                  *)

\* What the critical sections change: the two maps, the ports and the links.
MapsOK ==
  /\ refCount \in [Port -> Nat \cup {Absent}]
  /\ parentIf \in [Groups -> Port \cup {NoPort}]
  /\ bridge \in [Port -> {"none", "nsm", "l2"}]
  /\ links \subseteq Port

\* The interface a setup plugs always has a name (setupVeth, setupVF).
LEMMA HostIfType ==
  ASSUME MapsOK, NEW e \in End
  PROVE  HostIf(e) \in Port /\ Group(e) \in Groups
BY DEF MapsOK, HostIf, Fresh, Port, Groups

\* Whatever command a setup stops at, it leaves maps of the right shape.
LEMMA SetupType ==
  ASSUME MapsOK, NEW e \in End, NEW outcome, Setup(e, outcome)
  PROVE  MapsOK'
<1> DEFINE h == HostIf(e)
<1>1. h \in Port /\ Group(e) \in Groups
  BY HostIfType
<1> HIDE DEF h
<1>2. \A n \in Nat \cup {Absent} : n = Absent \/ n + 1 \in Nat
  BY DEF Absent
<1> QED BY <1>1, <1>2 DEF MapsOK, Setup, h

\* The same for a reset, whatever it finds.
LEMMA ResetType ==
  ASSUME MapsOK, NEW e \in End, NEW isL2Connect \in BOOLEAN,
         Reset(e, isL2Connect) \/ ResetVeth(e, isL2Connect)
  PROVE  MapsOK'
<1> DEFINE p == Target(e)
<1>1. p \in Port \cup {NoPort} /\ (e \in VFs => p \in Port) /\ Group(e) \in Groups
  BY DEF MapsOK, Target, Port, Groups
<1> HIDE DEF p
<1>2. CASE UNCHANGED <<maps, host>>
  BY <1>2 DEF MapsOK, maps, host
<1>3. ASSUME p \in Port PROVE Decremented(p) \in [Port -> Nat \cup {Absent}]
  BY <1>3 DEF MapsOK, Decremented, Absent
<1>4. CASE p \in Port /\ ReleaseShared(p)
  BY <1>3, <1>4 DEF MapsOK, ReleaseShared, host
<1>5. CASE p \in Port /\ RemoveVeth(e, p, isL2Connect)
  BY <1>1, <1>3, <1>5 DEF MapsOK, RemoveVeth, DelPort
<1>6. CASE p \in Port /\ RemoveVF(e, p, isL2Connect)
  BY <1>3, <1>6 DEF MapsOK, RemoveVF
<1> QED BY <1>1, <1>2, <1>4, <1>5, <1>6 DEF Reset, ResetVF, ResetVeth, p

\* Removing a port leaves every port on a known bridge.
LEMMA DelPortType ==
  ASSUME MapsOK, NEW e \in End, NEW p, NEW br,
         NEW b \in DelPort(e, p, br)
  PROVE  b \in [Port -> {"none", "nsm", "l2"}]
BY DEF MapsOK, DelPort

\* Every step keeps the types.
LEMMA TypeStep ==
  ASSUME TypeOK, [Next]_vars
  PROVE  TypeOK'
<1>1. MapsOK
  BY DEF TypeOK, MapsOK
<1>2. MapsOK' /\ (pc \in [End -> PC])' /\ (mutex \in End \cup {NoEnd})'
      /\ (ifname \in [End -> {"none", "port", "l2"}])'
      /\ (held \in [End -> Port \cup {NoPort}])' => TypeOK'
  BY DEF TypeOK, PortInfo, MapsOK
<1>3. ASSUME NEW e \in End, Locking(e) PROVE TypeOK'
  <2>0. HostIf(e) \in Port
    BY <1>1, HostIfType
  <2>1. CASE SetupOk(e)
    <3>1. MapsOK'
      BY <1>1, <2>1, SetupType DEF SetupOk
    <3> QED BY <1>2, <2>0, <2>1, <3>1 DEF TypeOK, PortInfo, PC, SetupOk, Goto
  <2>2. CASE SetupFails(e)
    <3>1. MapsOK'
      BY <1>1, <2>2, SetupType DEF SetupFails
    <3> QED BY <1>2, <2>0, <2>2, <3>1 DEF TypeOK, PortInfo, PC, SetupFails, Goto
  <2>3. CASE SetupFailsSmartVF(e)
    <3>1. MapsOK'
      BY <1>1, <2>3, SetupType DEF SetupFailsSmartVF
    <3> QED BY <1>2, <2>3, <3>1 DEF TypeOK, PortInfo, PC, SetupFailsSmartVF, Goto
  <2>4. CASE Undo(e)
    <3>1. MapsOK'
      BY <1>1, <2>4, ResetType DEF Undo
    <3> QED BY <1>2, <2>4, <3>1 DEF TypeOK, PortInfo, PC, Undo, Goto
  <2>5. CASE CloseReset(e)
    <3>1. MapsOK'
      BY <1>1, <2>5, ResetType DEF CloseReset, ResetAgain
    <3> QED BY <1>2, <2>5, <3>1 DEF TypeOK, PortInfo, PC, CloseReset, Goto, ResetAgain
  <2>6. CASE ResetAgain(e)
    <3>1. MapsOK'
      BY <1>1, <2>6, ResetType DEF ResetAgain
    <3> QED BY <1>2, <2>6, <3>1 DEF TypeOK, PortInfo, PC, ResetAgain, Goto
  <2> QED BY <1>3, <2>1, <2>2, <2>3, <2>4, <2>5, <2>6 DEF Locking
<1>4. ASSUME NEW e \in End, Rollback(e) PROVE TypeOK'
  <2>1. MapsOK'
    BY <1>1, <1>4, ResetType DEF Rollback
  <2> QED BY <1>2, <1>4, <2>1 DEF TypeOK, PortInfo, PC, Rollback, Goto
<1>5. ASSUME NEW e \in End, NextReturns(e) PROVE TypeOK'
  <2>1. CASE NextOk(e)
    BY <2>1 DEF TypeOK, PortInfo, PC, NextOk, Goto, maps, host
  <2>2. CASE NextFails(e)
    BY <1>1, <2>2, DelPortType DEF TypeOK, PortInfo, PC, NextFails, Goto, maps
  <2>3. CASE VlanBreakout(e)
    BY <2>3 DEF TypeOK, PortInfo, VlanBreakout, maps
  <2>4. CASE VlanBreakoutFails(e)
    BY <2>4 DEF TypeOK, PortInfo, PC, VlanBreakoutFails, Goto, maps
  <2> QED BY <1>5, <2>1, <2>2, <2>3, <2>4 DEF NextReturns
<1>6. ASSUME NEW e \in End,
             Unlocked(e), ~NextReturns(e)
      PROVE  TypeOK'
  <2>1. CASE NextClosed(e) \/ RefreshRecalls(e)
    BY <1>1, <2>1, DelPortType
       DEF TypeOK, PortInfo, PC, NextClosed, RefreshRecalls, Goto, maps
  <2>2. CASE ~(NextClosed(e) \/ RefreshRecalls(e))
    BY <1>6, <2>2
       DEF TypeOK, PortInfo, PC, Unlocked, Request, Refresh, RefreshReturns, Close,
           CloseAgain, Unload, Keep, Goto, maps, host
  <2> QED BY <1>6, <2>1, <2>2
<1>7. ASSUME NEW p \in Mortal, LinkGone(p) PROVE TypeOK'
  BY <1>7 DEF TypeOK, LinkGone, maps
<1>8. CASE Restart
  BY <1>8 DEF TypeOK, PortInfo, Restart, PC, Absent, host
<1>9. CASE UNCHANGED vars
  BY <1>9 DEF TypeOK, vars, maps, host
<1> QED BY <1>3, <1>4, <1>5, <1>6, <1>7, <1>8, <1>9 DEF Next, Step, Unlocked

\* Every variable keeps its type: the code never stores a name that is not an
\* interface of an end, nor a count below zero.
THEOREM TypeCorrect == Spec => []TypeOK
<1>1. Init => TypeOK
  BY DEF Init, TypeOK, PortInfo, PC, Absent
<1>2. TypeOK /\ [Next]_vars => TypeOK'
  BY TypeStep
<1> QED BY <1>1, <1>2, PTL DEF Spec

-----------------------------------------------------------------------------
(* Counting.                                                               *)

\* Where an end may, and where it must, hold a counted interface.
Releasing == {"up", "refresh", "closing", "reset", "undo"}
MayHold(e) == \/ pc[e] \in Releasing \cup {"rollback", "stuck"}
              \/ pc[e] = "next" /\ e \notin Clients
MustHold(e) == \/ pc[e] \in Releasing
               \/ pc[e] = "next" /\ e \notin Clients

Phases ==
  \A e \in End :
    /\ held[e] # NoPort => MayHold(e)
    /\ MustHold(e) => held[e] # NoPort

\* An end that rolls back is a veth server end, has the mutex, and when it
\* counted nothing there is nothing counted where it will look.
RollsBackAlone ==
  \A e \in End : pc[e] = "rollback" =>
    /\ mutex = e /\ e \notin VFs \cup Clients
    /\ held[e] = NoPort => Target(e) = NoPort \/ Count(Target(e)) = 0

\* A reset finds the interface that was counted.
HeldIsTarget == \A e \in End : held[e] # NoPort => held[e] = Target(e)

\* A parent is the veth interface of a tagged end of its group.
ParentIsVeth ==
  \A g \in Groups : parentIf[g] # NoPort =>
    \E d \in Tagged \ VFs : Group(d) = g /\ parentIf[g] = IfName[d]

\* A veth count is exact, a VF count is not too low.
CountsUsers ==
  \A p \in Port :
    /\ Count(p) >= Cardinality(Users(p))
    /\ p \in VethPort => Count(p) = Cardinality(Users(p))

\* Only client ends have an entry for somebody else to unload, or to keep.
KeptByClients ==
  \A e \in End :
    /\ pc[e] \in {"unload", "kept", "again"} => e \in Clients
    /\ pc[e] \in {"kept", "again"} => MayCloseOnRefresh(e)

IInv ==
  /\ TypeOK
  /\ KeptByClients
  /\ Phases
  /\ RollsBackAlone
  /\ HeldIsTarget
  /\ ParentIsVeth
  /\ CountsUsers

\* Facts about names that the two hypotheses give: a veth name belongs to one
\* end, which is no VF, and what a reset looks up is such a name.
LEMMA Names ==
  ASSUME DistinctNames, TypeOK, ParentIsVeth
  PROVE  /\ \A e \in End : IfName[e] \in Port /\ Group(e) \in Groups
         /\ \A e \in VFs : IfName[e] \notin VethPort
         /\ \A e \in End \ VFs : Target(e) \in VethPort \cup {NoPort}
         /\ \A e \in End \ VFs : HostIf(e) \in VethPort
         /\ \A e \in End : e \in VFs \/ e \notin Tagged => Target(e) = IfName[e]
         /\ VethPort \subseteq Port /\ NoPort \notin Port
<1>1. KernelAssumption
  BY KernelAssumption
<1> QED
  BY <1>1 DEF KernelAssumption, DistinctNames, ParentIsVeth, Port, VethPort,
              Groups, Target, HostIf, Fresh, TypeOK

\* The users of an interface are finitely many, since the ends are.
LEMMA UsersFinite ==
  ASSUME NEW p
  PROVE  IsFiniteSet(Users(p)) /\ Cardinality(Users(p)) \in Nat
<1>1. IsFiniteSet(End)
  BY KernelAssumption DEF KernelAssumption
<1>2. Users(p) \in SUBSET End
  BY DEF Users
<1> QED BY <1>1, <1>2, FS_Subset, FS_CardinalityType

\* The same after a step.
LEMMA UsersFiniteNext ==
  ASSUME NEW p
  PROVE  IsFiniteSet(Users(p)')
<1>1. IsFiniteSet(End)
  BY KernelAssumption DEF KernelAssumption
<1>2. Users(p)' \in SUBSET End
  BY DEF Users
<1> QED BY <1>1, <1>2, FS_Subset

\* An end that starts to hold h is one more user of h, and of nothing else.
LEMMA UsersGain ==
  ASSUME TypeOK, NEW e \in End, NEW h \in Port, held[e] = NoPort,
         held' = [held EXCEPT ![e] = h]
  PROVE  /\ Cardinality(Users(h)') = Cardinality(Users(h)) + 1
         /\ \A p \in Port \ {h} : Users(p)' = Users(p)
<1>1. NoPort \notin Port
  BY KernelAssumption DEF KernelAssumption
<1>2. Users(h)' = Users(h) \cup {e} /\ e \notin Users(h)
  BY <1>1 DEF Users, TypeOK
<1>3. \A p \in Port \ {h} : Users(p)' = Users(p)
  BY <1>1 DEF Users, TypeOK
<1>4. Cardinality(Users(h) \cup {e}) = Cardinality(Users(h)) + 1
  BY <1>2, UsersFinite, FS_AddElement
<1> QED BY <1>2, <1>3, <1>4

\* An end that lets go is one user less of what it held.
LEMMA UsersLose ==
  ASSUME TypeOK, NEW e \in End, NEW h \in Port, held[e] = h,
         held' = [held EXCEPT ![e] = NoPort]
  PROVE  /\ Users(h)' = Users(h) \ {e}
         /\ Cardinality(Users(h)') = Cardinality(Users(h)) - 1
         /\ Cardinality(Users(h)) \in Nat /\ Cardinality(Users(h)') \in Nat
         /\ \A p \in Port \ {h} : Users(p)' = Users(p)
<1>1. NoPort \notin Port
  BY KernelAssumption DEF KernelAssumption
<1>2. Users(h)' = Users(h) \ {e} /\ e \in Users(h)
  BY <1>1 DEF Users, TypeOK
<1>3. \A p \in Port \ {h} : Users(p)' = Users(p)
  BY <1>1 DEF Users, TypeOK
<1>4. Cardinality(Users(h) \ {e}) = Cardinality(Users(h)) - 1
  BY <1>2, UsersFinite, FS_RemoveElement
<1>5. IsFiniteSet(Users(h) \ {e})
  BY UsersFinite, FS_RemoveElement
<1>6. Cardinality(Users(h)) \in Nat /\ Cardinality(Users(h) \ {e}) \in Nat
  BY <1>5, UsersFinite, FS_CardinalityType
<1> QED BY <1>2, <1>3, <1>4, <1>6

MapsInv == HeldIsTarget /\ ParentIsVeth /\ CountsUsers

\* Steps that leave held and the maps alone keep the invariant of the maps.
LEMMA MapsUnchanged ==
  ASSUME MapsInv, UNCHANGED <<held, maps>>
  PROVE  MapsInv' /\ \A p : Count(p)' = Count(p)
BY DEF MapsInv, HeldIsTarget, ParentIsVeth, CountsUsers, Target, Count, Users, maps

\* Nobody else counts the veth name of an untagged end.
LEMMA OwnNameUnused ==
  ASSUME DistinctNames, TypeOK, MapsInv,
         NEW e \in End \ VFs, e \notin Tagged, held[e] = NoPort
  PROVE  Count(IfName[e]) = 0
<1>1. KernelAssumption /\ NoPort \notin Port
  BY KernelAssumption DEF KernelAssumption
<1>2. IfName[e] \in VethPort /\ IfName[e] \in Port
  BY DEF VethPort, Port
<1>3. Users(IfName[e]) = {}
  <2>1. SUFFICES ASSUME NEW d \in End, held[d] = IfName[e] PROVE FALSE
    BY DEF Users
  <2>2. d # e /\ held[d] = Target(d)
    BY <1>1, <1>2, <2>1 DEF MapsInv, HeldIsTarget
  <2>3. CASE d \in Tagged \ VFs
    <3>1. Group(d) \in Groups /\ parentIf[Group(d)] = IfName[e]
      BY <2>1, <2>2, <2>3 DEF Groups, Target
    <3>2. PICK c \in Tagged \ VFs : IfName[c] = IfName[e]
      BY <1>1, <1>2, <3>1 DEF MapsInv, ParentIsVeth
    <3> QED BY <1>1, <3>2 DEF DistinctNames, KernelAssumption
  <2>4. CASE d \notin Tagged \ VFs
    BY <2>1, <2>2, <2>4 DEF Target, DistinctNames
  <2> QED BY <2>3, <2>4
<1>4. Cardinality({}) = 0
  BY FS_EmptySet
<1> QED BY <1>2, <1>3, <1>4 DEF MapsInv, CountsUsers

\* A setup that records what it counts keeps the counts exact, and when it
\* counts nothing a rollback will find nothing to take from anybody.
LEMMA SetupCounts ==
  ASSUME DistinctNames, TypeOK, MapsInv,
         NEW e \in End, NEW outcome, Setup(e, outcome), held[e] = NoPort,
         held' = IF Counts(outcome) THEN [held EXCEPT ![e] = HostIf(e)] ELSE held
  PROVE  /\ MapsInv'
         /\ e \notin VFs /\ ~Counts(outcome) =>
              Target(e)' = NoPort \/ Count(Target(e))' = 0
<1> DEFINE g == Group(e)
<1>1. DistinctNames /\ TypeOK /\ ParentIsVeth
  BY DEF MapsInv
<1>0. PICK h \in Port : h = HostIf(e)
  BY HostIfType DEF TypeOK, MapsOK
<1>2. h = HostIf(e) /\ g \in Groups /\ NoPort \notin Port /\ VethPort \subseteq Port
  BY <1>0, <1>1, Names
<1>3. Target(e)' \in {h, NoPort} /\ (Counts(outcome) => Target(e)' = h)
  BY <1>1, <1>2 DEF TypeOK, Setup, Target, HostIf, Fresh, Counts
<1>4. \A d \in End \ {e} : held[d] # NoPort => Target(d)' = Target(d)
  BY <1>1, <1>2 DEF MapsInv, HeldIsTarget, TypeOK, Setup, Target, Fresh
<1>5. HeldIsTarget'
  BY <1>1, <1>2, <1>3, <1>4 DEF MapsInv, HeldIsTarget, TypeOK
<1>6. ParentIsVeth'
  BY <1>1, <1>2 DEF ParentIsVeth, Setup, TypeOK, HostIf, Fresh, Groups
<1>7. CountsUsers'
  <2>1. CASE Counts(outcome)
    <3>1. held' = [held EXCEPT ![e] = h]
      BY <1>2, <2>1
    <3>2. /\ Cardinality(Users(h)') = Cardinality(Users(h)) + 1
          /\ \A p \in Port \ {h} : Users(p)' = Users(p)
      BY <1>1, <1>2, <3>1, UsersGain
    <3>3. \A p \in Port : Count(p)' = IF p = h THEN Count(p) + 1 ELSE Count(p)
      BY <1>1, <1>2, <2>1 DEF Setup, TypeOK, Count, Absent
    <3>4. \A p \in Port : Count(p) \in Nat /\ Cardinality(Users(p)) \in Nat
      BY <1>1, UsersFinite DEF TypeOK, Count, Absent
    <3> QED BY <1>2, <3>2, <3>3, <3>4 DEF MapsInv, CountsUsers
  <2>2. CASE ~Counts(outcome)
    <3>1. held' = held /\ refCount' = refCount
      BY <2>2 DEF Setup
    <3>2. \A p : Users(p)' = Users(p) /\ Count(p)' = Count(p)
      BY <3>1 DEF Users, Count
    <3> QED BY <3>2 DEF MapsInv, CountsUsers
  <2> QED BY <2>1, <2>2
<1>8. ASSUME e \notin VFs, ~Counts(outcome)
      PROVE  Target(e)' = NoPort \/ Count(Target(e))' = 0
  <2>1. refCount' = refCount
    BY <1>8 DEF Setup
  <2>2. CASE outcome = "port"
    BY <1>2, <1>3, <2>1, <2>2 DEF Setup, CanEnd, VethCanEnd, VFCanEnd, PortCanEnd, Count
  <2>3. CASE outcome \in {"link", "up"} /\ e \in Tagged
    BY <1>1, <1>2, <1>8, <2>3 DEF Setup, CanEnd, VethCanEnd, VFCanEnd, PortCanEnd, Fresh, Target
  <2>4. CASE outcome \in {"link", "up"} /\ e \notin Tagged
    <3>1. Target(e)' = IfName[e] /\ IfName[e] \in VethPort \cap Port
      BY <1>2, <1>8, <2>4 DEF Target, VethPort
    <3>2. Count(IfName[e]) = 0
      BY <1>1, <1>8, <2>4, <3>1, OwnNameUnused DEF MapsInv
    <3> QED BY <2>1, <3>1, <3>2 DEF Count
  <2> QED BY <1>8, <2>2, <2>3, <2>4 DEF Setup, CanEnd, VethCanEnd, VFCanEnd, PortCanEnd, Counts
<1> QED BY <1>5, <1>6, <1>7, <1>8 DEF MapsInv

\* A reset by an end that lets go of what it holds, or that holds nothing and
\* has nothing counted where it looks, takes one from the count of that
\* interface and changes no other count.
LEMMA ResetCounts ==
  ASSUME DistinctNames, UniformTagging, TypeOK, MapsInv,
         NEW e \in End, NEW isL2Connect, Reset(e, isL2Connect),
         \/ held[e] # NoPort
         \/ e \notin VFs /\ (Target(e) = NoPort \/ Count(Target(e)) = 0),
         held' = [held EXCEPT ![e] = NoPort]
  PROVE  MapsInv'
<1> DEFINE g == Group(e)
<1>1. DistinctNames /\ TypeOK /\ ParentIsVeth /\ HeldIsTarget /\ CountsUsers
  BY DEF MapsInv
<1>2. NoPort \notin Port /\ VethPort \subseteq Port /\ g \in Groups
  BY <1>1, Names
<1>3. CASE Target(e) = NoPort
  <2>1. e \notin VFs /\ held[e] = NoPort
    BY <1>1, <1>2, <1>3 DEF HeldIsTarget, Target, Port
  <2>2. held' = held /\ UNCHANGED maps
    BY <1>2, <1>3, <2>1
       DEF TypeOK, Reset, ResetVeth
  <2> QED BY <1>1, <2>2, MapsUnchanged
<1>4. CASE Target(e) # NoPort
  <2>0. PICK p \in Port : p = Target(e)
    BY <1>1, <1>2, <1>4 DEF Target, TypeOK, Port, Groups
  <2>1. held[e] \in {p, NoPort} /\ (e \notin VFs => p \in VethPort)
    BY <1>1, <1>4, <2>0, Names DEF HeldIsTarget
  <2>2. Cardinality(Users(p)') =
          IF held[e] = p THEN Cardinality(Users(p)) - 1 ELSE Cardinality(Users(p))
    <3>1. CASE held[e] = p
      BY <1>1, <3>1, UsersLose
    <3>2. CASE held[e] # p
      BY <1>1, <2>1, <3>2 DEF Users, TypeOK
    <3> QED BY <3>1, <3>2
  <2>3. \A q \in Port \ {p} : Users(q)' = Users(q)
    BY <1>1, <1>2, <2>1 DEF Users, TypeOK
  <2>4. \A q \in Port : /\ Count(q) \in Nat /\ Cardinality(Users(q)) \in Nat
                        /\ Count(q) >= Cardinality(Users(q))
                        /\ q \in VethPort => Count(q) = Cardinality(Users(q))
    BY <1>1, UsersFinite DEF TypeOK, Count, Absent, CountsUsers
  <2>5. ASSUME held[e] = p PROVE Cardinality(Users(p)) >= 1
    <3>1. /\ Cardinality(Users(p)') = Cardinality(Users(p)) - 1
          /\ Cardinality(Users(p)) \in Nat /\ Cardinality(Users(p)') \in Nat
      BY <1>1, <2>5, UsersLose
    <3> QED BY <3>1
  <2>6. held[e] = NoPort => e \notin VFs /\ Count(p) = 0
    BY <1>4, <2>0
  <2>7. Remaining(p) = IF held[e] = p THEN Count(p) - 1 ELSE 0
    BY <1>2, <2>1, <2>4, <2>5, <2>6 DEF Remaining, Count, TypeOK, Absent
  <2>8. \A q \in Port : Count(q)' = IF q = p THEN Remaining(p) ELSE Count(q)
    <3>1. refCount \in [Port -> Nat \cup {-1}]
      BY DEF TypeOK, Absent
    <3>2. CASE refCount' = Decremented(p)
      BY <3>1, <3>2 DEF Decremented, Remaining, Count, Absent
    <3>3. CASE refCount' = [refCount EXCEPT ![p] = Absent] /\ Remaining(p) = 0
      BY <3>1, <3>3 DEF Count, Absent
    <3> QED
      BY <1>4, <2>0, <3>2, <3>3
         DEF Reset, ResetVF, ResetVeth, ReleaseShared, RemoveVeth, RemoveVF
  <2>9. CountsUsers'
    BY <1>2, <2>1, <2>2, <2>3, <2>4, <2>5, <2>6, <2>7, <2>8 DEF CountsUsers
  <2>10. parentIf' = parentIf \/ (/\ parentIf' = [parentIf EXCEPT ![g] = NoPort]
                                  /\ e \notin VFs /\ Remaining(p) = 0)
    BY <1>4, <2>0
       DEF Reset, ResetVF, ResetVeth, ReleaseShared, RemoveVeth, RemoveVF, maps
  <2>11. ParentIsVeth'
    BY <1>1, <2>10 DEF ParentIsVeth, TypeOK
  <2>12. ASSUME NEW d \in End, held'[d] # NoPort PROVE held'[d] = Target(d)'
    <3>1. d # e /\ held'[d] = held[d] /\ held[d] = Target(d)
      BY <1>1, <2>12 DEF HeldIsTarget, TypeOK
    <3>2. CASE parentIf' = parentIf
      BY <3>1, <3>2 DEF Target
    <3>3. CASE d \in VFs \/ d \notin Tagged
      BY <3>1, <3>3 DEF Target
    <3>4. CASE /\ parentIf' = [parentIf EXCEPT ![g] = NoPort]
               /\ e \notin VFs /\ Remaining(p) = 0 /\ d \in Tagged \ VFs
      <4>1. CASE Group(d) # g
        BY <1>1, <3>1, <3>4, <4>1 DEF Target, TypeOK, Groups
      <4>2. CASE Group(d) = g
        <5>1. e \in Tagged /\ Target(e) = Target(d)
          BY <3>4, <4>2 DEF UniformTagging, Target
        <5>2. d \in Users(p)
          BY <2>0, <3>1, <5>1 DEF Users
        <5>3. Users(p)' = {}
          <6>1. Cardinality(Users(p)') = 0
            BY <2>1, <2>2, <2>4, <2>5, <2>6, <2>7, <3>4
          <6> QED BY <6>1, UsersFiniteNext, FS_EmptySet
        <5> QED BY <3>1, <5>2, <5>3 DEF Users
      <4> QED BY <4>1, <4>2
    <3> QED BY <2>10, <3>2, <3>3, <3>4
  <2> QED BY <2>9, <2>11, <2>12 DEF MapsInv, HeldIsTarget
<1> QED BY <1>3, <1>4

\* A second reset finds nothing that it could take from anybody.
LEMMA ResetAgainCounts ==
  ASSUME DistinctNames, UniformTagging, ResetOnce, TypeOK, MapsInv,
         NEW e \in Clients, MayCloseOnRefresh(e), held[e] = NoPort,
         NEW isL2Connect, Reset(e, isL2Connect), held' = held
  PROVE  MapsInv'
<1>0. e \in End /\ e \notin SharingEnds /\ Target(e) = IfName[e] /\ IfName[e] \in Port
  BY KernelAssumption DEF KernelAssumption, ResetOnce, SharingEnds, Target, Port
<1>1. held' = [held EXCEPT ![e] = NoPort]
  BY DEF TypeOK
<1>2. CASE e \notin VFs
  <2>1. Count(IfName[e]) = 0
    BY <1>0, <1>2, OwnNameUnused DEF SharingEnds
  <2> QED BY <1>0, <1>1, <1>2, <2>1, ResetCounts
<1>3. CASE e \in VFs
  <2>1. IfName[e] \notin VethPort /\ VethPort \subseteq Port /\ NoPort \notin Port
    BY <1>3, Names DEF MapsInv
  <2>2. Users(IfName[e]) = {}
    <3>1. SUFFICES ASSUME NEW d \in End, held[d] = IfName[e] PROVE FALSE
      BY DEF Users
    <3>2. d # e /\ Target(d) = IfName[e]
      BY <1>0, <2>1, <3>1 DEF MapsInv, HeldIsTarget
    <3>3. d \in SharingEnds
      BY <1>0, <3>2 DEF Target, SharingEnds, DistinctNames
    <3> QED BY <1>0, <2>1, <3>2, <3>3, Names DEF MapsInv, SharingEnds
  <2>3. parentIf' = parentIf
    BY <1>3 DEF Reset, ResetVF, ReleaseShared, RemoveVF
  <2>4. \A p \in Port : /\ p # IfName[e] => Count(p)' = Count(p)
                        /\ Count(p)' \in Nat
    <3>1. \/ refCount' = Decremented(IfName[e])
          \/ refCount' = [refCount EXCEPT ![IfName[e]] = Absent]
      BY <1>0, <1>3 DEF Reset, ResetVF, ReleaseShared, RemoveVF
    <3> QED BY <1>0, <3>1 DEF TypeOK, Decremented, Count, Absent
  <2>5. CountsUsers'
    <3>1. \A p \in Port : Users(p)' = Users(p)
      BY DEF Users
    <3>2. Cardinality(Users(IfName[e])) = 0
      BY <2>2, FS_EmptySet
    <3> QED BY <1>0, <2>1, <2>4, <3>1, <3>2 DEF MapsInv, CountsUsers
  <2> QED BY <2>3, <2>5 DEF MapsInv, HeldIsTarget, ParentIsVeth, Target
<1> QED BY <1>2, <1>3

-----------------------------------------------------------------------------
(* The inductive invariant.                                                *)

\* Every step leaves the entries of client ends to client ends.
LEMMA KeptStep ==
  ASSUME TypeOK, KeptByClients, [Next]_vars
  PROVE  KeptByClients'
<1>1. ASSUME NEW e \in End, Step(e) PROVE KeptByClients'
  BY <1>1
     DEF KeptByClients, TypeOK, Step, Locking, NextReturns, Goto, Request, Refresh,
         RefreshReturns, RefreshRecalls, Close, CloseAgain, NextClosed, Unload, Keep,
         Rollback, SetupOk, SetupFails, SetupFailsSmartVF, Undo, CloseReset, ResetAgain,
         NextOk, NextFails, VlanBreakout, VlanBreakoutFails
<1>2. ASSUME NEW p \in Mortal, LinkGone(p) PROVE KeptByClients'
  BY <1>2 DEF KeptByClients, LinkGone
<1>3. CASE Restart
  BY <1>3 DEF KeptByClients, Restart
<1>4. CASE UNCHANGED vars
  BY <1>4 DEF KeptByClients, vars
<1> QED BY <1>1, <1>2, <1>3, <1>4 DEF Next

\* A step that leaves the mutex, the maps and what is held alone, and starts
\* no rollback, keeps everything but Phases, which is about pc.
LEMMA QuietStep ==
  ASSUME IInv, UNCHANGED <<mutex, maps, held>>,
         \A d \in End : pc'[d] = "rollback" => pc[d] = "rollback"
  PROVE  RollsBackAlone' /\ MapsInv'
<1>1. MapsInv /\ UNCHANGED <<held, maps>>
  BY DEF IInv, MapsInv
<1>2. MapsInv' /\ \A p : Count(p)' = Count(p)
  BY <1>1, MapsUnchanged
<1>3. \A d \in End : /\ Target(d)' = Target(d)
                     /\ Count(Target(d))' = Count(Target(d))
  BY DEF Target, Count, maps
<1> QED BY <1>2, <1>3 DEF IInv, RollsBackAlone

\* While the mutex is free nobody rolls back.
LEMMA FreeMutex ==
  ASSUME IInv, mutex = NoEnd
  PROVE  \A d \in End : pc[d] # "rollback"
BY KernelAssumption DEF IInv, RollsBackAlone, KernelAssumption

\* A successful setup.
LEMMA SetupOkStep ==
  ASSUME DistinctNames, IInv, TypeOK', KeptByClients', NEW e \in End, SetupOk(e)
  PROVE  IInv'
<1>1. TypeOK /\ MapsInv /\ held[e] = NoPort
  BY DEF IInv, MapsInv, SetupOk, Goto, Phases, MayHold, Releasing
<1>2. MapsInv'
  BY <1>1, SetupCounts DEF SetupOk, Counts
<1>3. Phases'
  <2>1. HostIf(e) \in Port /\ NoPort \notin Port
    BY <1>1, HostIfType, KernelAssumption DEF TypeOK, MapsOK, KernelAssumption
  <2> QED
    BY <1>1, <2>1
       DEF IInv, TypeOK, SetupOk, Goto, Phases, MayHold, MustHold, Releasing
<1>4. RollsBackAlone'
  BY <1>1, FreeMutex DEF SetupOk, Goto, TypeOK, RollsBackAlone
<1> QED BY <1>2, <1>3, <1>4 DEF IInv, MapsInv

\* A setup that fails under the mutex, in a server or in a client end.
LEMMA SetupFailsStep ==
  ASSUME DistinctNames, IInv, TypeOK', KeptByClients', NEW e \in End, SetupFails(e)
  PROVE  IInv'
<1>1. TypeOK /\ MapsInv /\ held[e] = NoPort /\ pc[e] = "setup"
  BY DEF IInv, MapsInv, SetupFails, Goto, Phases, MayHold, Releasing
<1>2. PICK outcome \in SetupCommands :
        /\ mutex = NoEnd /\ (e \in Clients \/ e \notin VFs)
        /\ Goto(e, "setup", IF e \in Clients THEN "stuck" ELSE "rollback")
        /\ Setup(e, outcome)
        /\ held' = IF Counts(outcome) THEN [held EXCEPT ![e] = HostIf(e)] ELSE held
        /\ mutex' = e
  BY DEF SetupFails
<1>3. /\ MapsInv'
      /\ e \notin VFs /\ ~Counts(outcome) =>
           Target(e)' = NoPort \/ Count(Target(e))' = 0
  BY <1>1, <1>2, SetupCounts
<1>4. HostIf(e) \in Port /\ NoPort \notin Port
  BY <1>1, HostIfType, KernelAssumption DEF TypeOK, MapsOK, KernelAssumption
<1>5. Phases'
  BY <1>1, <1>2, <1>4 DEF IInv, TypeOK, Goto, Phases, MayHold, MustHold, Releasing
<1>6. RollsBackAlone'
  <2>1. \A d \in End \ {e} : pc'[d] # "rollback"
    BY <1>1, <1>2, FreeMutex DEF Goto, TypeOK
  <2>2. pc'[e] = "rollback" => e \notin VFs \cup Clients
    BY <1>1, <1>2 DEF Goto, TypeOK
  <2>3. held'[e] = NoPort => ~Counts(outcome)
    BY <1>1, <1>2, <1>4 DEF TypeOK
  <2> QED BY <1>2, <1>3, <2>1, <2>2, <2>3 DEF RollsBackAlone
<1> QED BY <1>3, <1>5, <1>6 DEF IInv, MapsInv

\* A failed VF setup that kernelSmartVFServer forgets: the count only grows.
LEMMA SetupFailsSmartVFStep ==
  ASSUME DistinctNames, IInv, TypeOK', KeptByClients', NEW e \in End, SetupFailsSmartVF(e)
  PROVE  IInv'
<1>1. TypeOK /\ MapsInv /\ ParentIsVeth /\ pc[e] = "setup" /\ e \in VFs
  BY DEF IInv, MapsInv, SetupFailsSmartVF, Goto
<1>2. PICK outcome \in SetupCommands :
        mutex = NoEnd /\ Goto(e, "setup", "idle") /\ Setup(e, outcome)
  BY DEF SetupFailsSmartVF
<1>3. IfName[e] \in Port \ VethPort /\ VethPort \subseteq Port
  BY <1>1, Names DEF SetupFailsSmartVF
<1>4. /\ held' = held /\ mutex' = mutex /\ parentIf' = parentIf
      /\ refCount' = refCount
         \/ refCount' = [refCount EXCEPT ![IfName[e]] = IF @ = Absent THEN 1 ELSE @ + 1]
  BY <1>1, <1>2 DEF SetupFailsSmartVF, Setup, Fresh, HostIf
<1>5. HeldIsTarget' /\ ParentIsVeth'
  BY <1>1, <1>4 DEF MapsInv, HeldIsTarget, ParentIsVeth, Target
<1>6. CountsUsers'
  <2>1. \A p \in Port : /\ Count(p)' >= Count(p)
                        /\ p # IfName[e] => Count(p)' = Count(p)
                        /\ Count(p) \in Nat /\ Count(p)' \in Nat
    BY <1>1, <1>3, <1>4 DEF TypeOK, Count, Absent
  <2>2. \A p \in Port : Users(p)' = Users(p) /\ Cardinality(Users(p)) \in Nat
    BY <1>4, UsersFinite DEF Users
  <2> QED BY <1>1, <1>3, <2>1, <2>2 DEF MapsInv, CountsUsers
<1>7. Phases' /\ RollsBackAlone'
  <2>1. Phases'
    BY <1>1, <1>2, <1>4 DEF IInv, TypeOK, Goto, Phases, MayHold, MustHold, Releasing
  <2>2. RollsBackAlone'
    BY <1>1, <1>2, FreeMutex DEF Goto, TypeOK, RollsBackAlone
  <2> QED BY <2>1, <2>2
<1> QED BY <1>5, <1>6, <1>7 DEF IInv

\* Every reset: after a failed setup, after a failed next, and at Close.
LEMMA ResetStep ==
  ASSUME DistinctNames, UniformTagging, IInv, TypeOK', KeptByClients', NEW e \in End,
         Rollback(e) \/ Undo(e) \/ CloseReset(e)
  PROVE  IInv'
<1>1. TypeOK /\ MapsInv
  BY DEF IInv, MapsInv
<1>2. held' = [held EXCEPT ![e] = NoPort]
  BY DEF Rollback, Undo, CloseReset, ResetAgain
<1>3. MapsInv'
  <2>1. CASE Rollback(e)
    <3>1. Reset(e, FALSE) /\ e \notin VFs
      BY <2>1 DEF Rollback, Goto, Reset, IInv, RollsBackAlone
    <3>2. held[e] = NoPort => Target(e) = NoPort \/ Count(Target(e)) = 0
      BY <2>1 DEF Rollback, Goto, IInv, RollsBackAlone
    <3> QED BY <1>1, <1>2, <3>1, <3>2, ResetCounts
  <2>2. CASE Undo(e)
    <3>1. Reset(e, FALSE) /\ held[e] # NoPort
      BY <2>2 DEF Undo, Goto, IInv, Phases, MustHold, Releasing
    <3> QED BY <1>1, <1>2, <3>1, ResetCounts
  <2>3. CASE CloseReset(e)
    <3>1. Reset(e, ifname[e] = "l2") /\ held[e] # NoPort
      BY <2>3 DEF CloseReset, Goto, IInv, Phases, MustHold, Releasing, ResetAgain
    <3> QED BY <1>1, <1>2, <3>1, ResetCounts
  <2> QED BY <2>1, <2>2, <2>3
<1>4. /\ pc' = [pc EXCEPT ![e] = pc'[e]] /\ pc'[e] \in {"idle", "unload"}
  BY <1>1 DEF TypeOK, Rollback, Undo, CloseReset, Goto, ResetAgain
<1>5. Phases'
  BY <1>1, <1>2, <1>4 DEF IInv, TypeOK, Phases, MayHold, MustHold, Releasing
<1>6. \A d \in End : pc'[d] # "rollback"
  <2>1. \A d \in End \ {e} : pc[d] # "rollback"
    BY FreeMutex DEF Rollback, Undo, CloseReset, Goto, IInv, RollsBackAlone,
                     ResetAgain
  <2> QED BY <1>1, <1>4, <2>1 DEF TypeOK
<1> QED BY <1>3, <1>5, <1>6 DEF IInv, MapsInv, RollsBackAlone

\* The reset of an end that a failed refresh has closed before.
LEMMA ResetAgainStep ==
  ASSUME DistinctNames, UniformTagging, ResetOnce, IInv, TypeOK', KeptByClients',
         NEW e \in End, ResetAgain(e)
  PROVE  IInv'
<1>1. /\ TypeOK /\ MapsInv /\ held' = held /\ mutex = NoEnd
      /\ e \in Clients /\ MayCloseOnRefresh(e) /\ held[e] = NoPort
      /\ pc' = [pc EXCEPT ![e] = "unload"]
  BY DEF IInv, MapsInv, KeptByClients, Phases, MayHold, Releasing, ResetAgain, Goto
<1>2. MapsInv'
  <2>1. PICK isL2Connect : Reset(e, isL2Connect)
    BY DEF ResetAgain
  <2> QED BY <1>1, <2>1, ResetAgainCounts
<1>3. Phases'
  BY <1>1 DEF IInv, TypeOK, Phases, MayHold, MustHold, Releasing
<1>4. RollsBackAlone'
  BY <1>1, FreeMutex DEF TypeOK, RollsBackAlone
<1> QED BY <1>2, <1>3, <1>4 DEF IInv, MapsInv

\* The steps outside every critical section.
LEMMA UnlockedStep ==
  ASSUME IInv, TypeOK', KeptByClients', NEW e \in End, Unlocked(e)
  PROVE  IInv'
<1>1. TypeOK /\ UNCHANGED <<mutex, maps, held>>
  BY DEF IInv, Request, Refresh, Close, RefreshReturns, NextClosed, Unload,
         NextReturns, NextOk, NextFails, VlanBreakout, VlanBreakoutFails,
         RefreshRecalls, CloseAgain, Keep, Unlocked
<1>2. \A d \in End : pc'[d] = "rollback" => pc[d] = "rollback"
  BY <1>1 DEF TypeOK, Goto, Request, Refresh, Close, RefreshReturns, NextClosed,
              Unload, NextReturns, NextOk, NextFails, VlanBreakout, VlanBreakoutFails,
              RefreshRecalls, CloseAgain, Keep, Unlocked
<1>3. RollsBackAlone' /\ MapsInv'
  BY <1>1, <1>2, QuietStep
<1>4. Phases'
  <2>1. CASE ~NextReturns(e)
    BY <1>1, <2>1
       DEF IInv, Unlocked, TypeOK, Phases, MayHold, MustHold, Releasing, Goto, Request, Refresh,
           Close, RefreshReturns, NextClosed, Unload, RefreshRecalls, CloseAgain, Keep
  <2>2. CASE NextReturns(e)
    BY <1>1, <2>2, KernelAssumption
       DEF IInv, TypeOK, Phases, MayHold, MustHold, Releasing, Goto, NextReturns,
           NextOk, NextFails, VlanBreakout, VlanBreakoutFails, KernelAssumption
  <2> QED BY <2>1, <2>2
<1> QED BY <1>3, <1>4 DEF IInv, MapsInv

\* What the environment does: a link vanishes, the forwarder restarts.
LEMMA EnvironmentStep ==
  ASSUME IInv, TypeOK', KeptByClients', Restart \/ (\E p \in Mortal : LinkGone(p)) \/ UNCHANGED vars
  PROVE  IInv'
<1>1. CASE Restart
  <2>1. MapsInv'
    <3>1. \A p \in Port : Users(p)' = {} /\ Count(p)' = 0
      BY <1>1, KernelAssumption DEF Restart, Users, Count, KernelAssumption
    <3>2. Cardinality({}) = 0
      BY FS_EmptySet
    <3>3. CountsUsers'
      BY <3>1, <3>2 DEF CountsUsers
    <3> QED BY <1>1, <3>3 DEF MapsInv, Restart, HeldIsTarget, ParentIsVeth
  <2> QED
    BY <1>1, <2>1
       DEF IInv, MapsInv, Restart, Phases, RollsBackAlone, MayHold, MustHold, Releasing
<1>2. CASE \E p \in Mortal : LinkGone(p)
  <2>1. UNCHANGED <<pc, mutex, maps, held>>
    BY <1>2 DEF LinkGone
  <2>2. RollsBackAlone' /\ MapsInv'
    BY <2>1, QuietStep
  <2> QED
    BY <2>1, <2>2 DEF IInv, MapsInv, Phases, MayHold, MustHold
<1>3. CASE UNCHANGED vars
  <2>1. UNCHANGED <<pc, mutex, maps, held>>
    BY <1>3 DEF vars
  <2>2. RollsBackAlone' /\ MapsInv'
    BY <2>1, QuietStep
  <2> QED
    BY <2>1, <2>2 DEF IInv, MapsInv, Phases, MayHold, MustHold
<1> QED BY <1>1, <1>2, <1>3

\* IInv holds initially.
LEMMA InvInit ==
  ASSUME Init
  PROVE  IInv
<1>1. TypeOK
  BY DEF Init, TypeOK, PortInfo, PC, Absent
<1>2. \A p \in Port : Users(p) = {} /\ Count(p) = 0
  BY KernelAssumption DEF Init, Users, Count, KernelAssumption
<1>3. CountsUsers
  BY <1>2, FS_EmptySet DEF CountsUsers
<1> QED
  BY <1>1, <1>3
     DEF Init, IInv, KeptByClients, Phases, RollsBackAlone, HeldIsTarget, ParentIsVeth,
         MayHold, MustHold, Releasing

\* IInv is an invariant when interface names are distinct, the veth ends of one
\* service are all tagged or all untagged, and no shared parent is reset twice.
THEOREM Invariant ==
  ASSUME DistinctNames, UniformTagging, ResetOnce
  PROVE  Spec => []IInv
<1>1. Init => IInv
  BY InvInit
<1>2. IInv /\ [Next]_vars => IInv'
  <2>1. SUFFICES ASSUME IInv, [Next]_vars PROVE IInv'
    OBVIOUS
  <2>2. TypeOK' /\ KeptByClients'
    BY <2>1, TypeStep, KeptStep DEF IInv
  <2>3. ASSUME NEW e \in End, Step(e) PROVE IInv'
    <3>1. CASE Locking(e)
      BY <2>1, <2>2, <3>1, SetupOkStep, SetupFailsStep, SetupFailsSmartVFStep,
         ResetStep, ResetAgainStep DEF Locking
    <3>2. CASE Rollback(e)
      BY <2>1, <2>2, <3>2, ResetStep
    <3>3. CASE Unlocked(e)
      BY <2>1, <2>2, <3>3, UnlockedStep
    <3> QED BY <2>3, <3>1, <3>2, <3>3 DEF Step, Unlocked
  <2> QED BY <2>1, <2>2, <2>3, EnvironmentStep DEF Next
<1> QED BY <1>1, <1>2, PTL DEF Spec

\* The count of a veth interface is always the number of ends that use it.
THEOREM VethCountCorrect ==
  ASSUME DistinctNames, UniformTagging, ResetOnce
  PROVE  Spec => []VethCountExact
<1>1. IInv => VethCountExact
  BY DEF IInv, CountsUsers, VethCountExact, VethPort, Port
<1> QED BY <1>1, Invariant, PTL

\* No interface is ever counted for fewer ends than use it, so that none is
\* unplugged under one of them by the count.
THEOREM NeverUndercountedCorrect ==
  ASSUME DistinctNames, UniformTagging, ResetOnce
  PROVE  Spec => []NeverUndercounted
<1>1. IInv => NeverUndercounted
  BY DEF IInv, CountsUsers, NeverUndercounted
<1> QED BY <1>1, Invariant, PTL

\* A tagged end always finds the parent interface it counted.
THEOREM SharedParentCorrect ==
  ASSUME DistinctNames, UniformTagging, ResetOnce
  PROVE  Spec => []SharedParentKnown
<1>1. IInv => SharedParentKnown
  BY KernelAssumption
     DEF IInv, HeldIsTarget, SharedParentKnown, Target, KernelAssumption
<1> QED BY <1>1, Invariant, PTL

-----------------------------------------------------------------------------
(* Ports and links stay where their users need them.                       *)

\* From its setup to the moment next.Close has returned an end relies on its
\* interface; its own failed refresh may only recall the port it has broken out.
Relies(e) == \/ pc[e] \in {"up", "refresh", "closing"}
             \/ pc[e] = "next" /\ e \notin Clients

Linked == links \cup Mortal \cup {IfName[d] : d \in VFs}

Plugged ==
  \A e \in End : Relies(e) =>
    /\ e \notin Recalled => bridge[held[e]] # "none"
    /\ held[e] \in Linked

\* A recorded parent exists, unless its container took it away.
ParentLinked == \A g \in Groups : parentIf[g] # NoPort => parentIf[g] \in Linked

\* A reset leaves the port and the link of everything that is still held.
LEMMA ResetSpares ==
  ASSUME TypeOK, MapsInv', NEW e \in End, NEW isL2Connect, Reset(e, isL2Connect)
  PROVE  /\ \A q \in Port : Users(q)' # {} =>
              bridge'[q] = bridge[q] /\ (q \in links => q \in links')
         /\ \/ parentIf' = parentIf /\ links' = links
            \/ /\ parentIf' = [parentIf EXCEPT ![Group(e)] = NoPort]
               /\ links' = links \ {Target(e)}
               /\ e \notin VFs
<1>1. CASE UNCHANGED <<maps, host>>
  BY <1>1 DEF maps, host
<1>2. ASSUME NEW p \in Port, p = Target(e), RemoveVeth(e, p, isL2Connect) \/ RemoveVF(e, p, isL2Connect)
      PROVE  Users(p)' = {} /\ (\A q \in Port \ {p} : bridge'[q] = bridge[q] /\ (q \in links => q \in links'))
  <2>1. Count(p)' = 0
    BY <1>2 DEF RemoveVeth, RemoveVF, Decremented, Remaining, Count, TypeOK, Absent
  <2>2. Cardinality(Users(p)') = 0
    <3>1. Count(p)' >= Cardinality(Users(p)')
      BY DEF MapsInv, CountsUsers
    <3>2. Cardinality(Users(p)') \in Nat
      BY UsersFiniteNext, FS_CardinalityType
    <3> QED BY <2>1, <3>1, <3>2
  <2>3. Users(p)' = {}
    BY <2>2, UsersFiniteNext, FS_EmptySet
  <2> QED BY <1>2, <2>3 DEF RemoveVeth, RemoveVF, DelPort, TypeOK
<1>3. Target(e) \in Port \cup {NoPort} /\ (e \in VFs => Target(e) \in Port)
  BY DEF Target, TypeOK, Port, Groups
<1>4. \A q \in Port : Users(q)' # {} =>
         bridge'[q] = bridge[q] /\ (q \in links => q \in links')
  BY <1>1, <1>2, <1>3
     DEF Reset, ResetVF, ResetVeth, ReleaseShared, maps, host
<1>5. \/ parentIf' = parentIf /\ links' = links
      \/ /\ parentIf' = [parentIf EXCEPT ![Group(e)] = NoPort]
         /\ links' = links \ {Target(e)}
         /\ e \notin VFs
  BY DEF Reset, ResetVF, ResetVeth, ReleaseShared, RemoveVeth, RemoveVF, maps, host
<1> QED BY <1>4, <1>5

\* The veth interface of an untagged end, and any VF representor, is nobody
\* else's.
LEMMA OwnPort ==
  ASSUME DistinctNames, TypeOK, MapsInv,
         NEW e \in End, e \in VFs \/ e \notin Tagged,
         NEW d \in End, held[e] # NoPort, held[d] = held[e]
  PROVE  d = e
<1>1. held[e] = IfName[e] /\ held[d] = Target(d) /\ NoPort \notin Port
  BY KernelAssumption DEF MapsInv, HeldIsTarget, Target, KernelAssumption
<1>2. CASE d \in VFs \/ d \notin Tagged
  BY <1>1, <1>2 DEF Target, DistinctNames
<1>3. CASE d \in Tagged \ VFs
  <2>1. PICK c \in Tagged \ VFs : IfName[c] = IfName[e]
    BY <1>1, <1>3 DEF Target, MapsInv, ParentIsVeth, Groups
  <2> QED BY <2>1, KernelAssumption DEF DistinctNames, KernelAssumption
<1> QED BY <1>2, <1>3

\* A reset that deletes a parent's link forgets the parent.
LEMMA ResetParentLinked ==
  ASSUME DistinctNames, TypeOK, MapsInv, MapsInv', ParentLinked,
         NEW e \in End, NEW isL2Connect, Reset(e, isL2Connect)
  PROVE  ParentLinked'
<1>1. CASE parentIf' = parentIf /\ links' = links
  BY <1>1 DEF ParentLinked, Linked
<1>2. CASE /\ parentIf' = [parentIf EXCEPT ![Group(e)] = NoPort]
           /\ links' = links \ {Target(e)}
           /\ e \notin VFs
  <2>1. SUFFICES ASSUME NEW g \in Groups, parentIf'[g] # NoPort
                 PROVE  parentIf'[g] \in Linked'
    BY DEF ParentLinked
  <2>2. parentIf'[g] = parentIf[g] /\ parentIf[g] # NoPort /\ g # Group(e)
    BY <1>2, <2>1 DEF TypeOK, Groups
  <2>3. parentIf[g] \in Linked
    BY <2>2 DEF ParentLinked
  <2>4. parentIf[g] # Target(e)
    <3>1. PICK d \in Tagged \ VFs : Group(d) = g /\ parentIf[g] = IfName[d]
      BY <2>2 DEF MapsInv, ParentIsVeth
    <3>2. SUFFICES ASSUME Target(e) = IfName[d] PROVE FALSE
      BY <3>1
    <3>3. CASE e \notin Tagged
      BY <1>2, <3>1, <3>2, <3>3, KernelAssumption
         DEF Target, DistinctNames, KernelAssumption
    <3>4. CASE e \in Tagged
      <4>1. parentIf[Group(e)] # NoPort /\ Group(e) \in Groups
        BY <1>2, <2>2, <3>1, <3>2, <3>4 DEF Target, Groups
      <4>2. PICK c \in Tagged \ VFs : Group(c) = Group(e) /\ parentIf[Group(e)] = IfName[c]
        BY <4>1 DEF MapsInv, ParentIsVeth
      <4> QED
        BY <1>2, <2>2, <3>1, <3>2, <3>4, <4>2, KernelAssumption
           DEF Target, DistinctNames, KernelAssumption
    <3> QED BY <3>3, <3>4
  <2> QED BY <1>2, <2>2, <2>3, <2>4 DEF Linked
<1> QED BY <1>1, <1>2, ResetSpares

\* A setup unplugs nothing, and when it succeeds its interface is plugged.
LEMMA SetupPlugs ==
  ASSUME TypeOK, ParentLinked, NEW e \in End, NEW outcome, Setup(e, outcome)
  PROVE  /\ ParentLinked'
         /\ \A q \in Port : bridge[q] # "none" => bridge'[q] # "none"
         /\ Linked \subseteq Linked'
         /\ outcome = "ok" => bridge'[HostIf(e)] # "none" /\ HostIf(e) \in Linked'
<1>1. PICK h \in Port : h = HostIf(e)
  BY HostIfType DEF TypeOK, MapsOK
<1>2. links \subseteq links' /\ (Fresh(e) /\ outcome # "link" => h \in links')
  BY <1>1 DEF Setup
<1>3. ParentLinked'
  BY <1>1, <1>2 DEF ParentLinked, Linked, Setup, TypeOK
<1>4. \A q \in Port : bridge[q] # "none" => bridge'[q] # "none"
  BY <1>1 DEF Setup, TypeOK
<1>5. ASSUME outcome = "ok" PROVE bridge'[h] # "none" /\ h \in Linked'
  <2>1. bridge'[h] # "none"
    BY <1>1, <1>5 DEF Setup, CanEnd, VethCanEnd, VFCanEnd, PortCanEnd, Counts, TypeOK
  <2>2. h \in Linked'
    <3>1. CASE Fresh(e)
      BY <1>2, <1>5, <3>1 DEF Linked
    <3>2. CASE e \in VFs
      BY <1>1, <3>2 DEF HostIf, Linked
    <3>3. CASE ~Fresh(e) /\ e \notin VFs
      BY <1>1, <1>2, <3>3 DEF Fresh, HostIf, ParentLinked, Linked, Groups
    <3> QED BY <3>1, <3>2, <3>3
  <2> QED BY <2>1, <2>2
<1>6. Linked \subseteq Linked'
  BY <1>2 DEF Linked
<1> QED BY <1>1, <1>3, <1>4, <1>5, <1>6

\* Only the ends the vlan client moves are ever marked as L2 connected.
BrokenOut == \A e \in End : ifname[e] = "l2" => e \in Breakout

PInv == IInv /\ Plugged /\ ParentLinked /\ BrokenOut

\* The marks of BrokenOut come from VlanBreakout alone.
LEMMA BrokenOutStep ==
  ASSUME TypeOK, BrokenOut, [Next]_vars
  PROVE  BrokenOut'
<1>1. ASSUME NEW e \in End, Step(e) PROVE BrokenOut'
  BY <1>1
     DEF BrokenOut, TypeOK, Step, Locking, NextReturns, Request, Refresh, Close,
         RefreshReturns, NextClosed, Unload, Rollback, SetupOk, SetupFails,
         SetupFailsSmartVF, Undo, CloseReset, NextOk, NextFails, VlanBreakout,
         VlanBreakoutFails, RefreshRecalls, CloseAgain, Keep, ResetAgain
<1>2. ASSUME NEW p \in Mortal, LinkGone(p) PROVE BrokenOut'
  BY <1>2 DEF BrokenOut, LinkGone
<1>3. CASE Restart
  BY <1>3 DEF BrokenOut, Restart
<1>4. CASE UNCHANGED vars
  BY <1>4 DEF BrokenOut, vars
<1> QED BY <1>1, <1>2, <1>3, <1>4 DEF Next

\* The end that broke out is the only one that holds its port.
LEMMA BreakoutAlone ==
  ASSUME DistinctNames, SoleBreakout, IInv, NEW e \in Breakout, held[e] # NoPort,
         NEW d \in End, d # e, held[d] # NoPort
  PROVE  held[d] # held[e]
<1>1. e \in End /\ (e \in VFs \/ e \notin Tagged)
  BY KernelAssumption DEF KernelAssumption, SoleBreakout
<1>2. TypeOK /\ MapsInv
  BY DEF IInv, MapsInv
<1> QED BY <1>1, <1>2, OwnPort

\* No step takes away a port or a link that another end relies on.
LEMMA PluggedStep ==
  ASSUME DistinctNames, SoleBreakout, PInv, IInv', [Next]_vars
  PROVE  Plugged' /\ ParentLinked'
<1>1. /\ IInv /\ Plugged /\ ParentLinked /\ BrokenOut
      /\ TypeOK /\ TypeOK' /\ MapsInv /\ MapsInv'
  BY DEF PInv, IInv, MapsInv
<1>2. \A d \in End : Relies(d) => held[d] \in Port /\ held[d] # NoPort
  BY <1>1 DEF IInv, Phases, MustHold, Releasing, Relies, TypeOK
<1>3. ASSUME NEW e \in End, Locking(e) \/ Rollback(e) PROVE Plugged' /\ ParentLinked'
  <2>1. \A d \in End \ {e} : (Relies(d)' <=> Relies(d)) /\ held'[d] = held[d]
    BY <1>1, <1>3
       DEF TypeOK, Relies, Locking, Rollback, SetupOk, SetupFails, SetupFailsSmartVF,
           Undo, CloseReset, Goto, ResetAgain
  <2>2. CASE SetupOk(e)
    <3>1. /\ ParentLinked'
          /\ \A q \in Port : bridge[q] # "none" => bridge'[q] # "none"
          /\ Linked \subseteq Linked'
          /\ bridge'[HostIf(e)] # "none" /\ HostIf(e) \in Linked'
      BY <1>1, <2>2, SetupPlugs DEF SetupOk
    <3>2. held'[e] = HostIf(e)
      BY <1>1, <2>2 DEF SetupOk, TypeOK
    <3> QED BY <1>1, <1>2, <2>1, <3>1, <3>2 DEF Plugged
  <2>3. CASE SetupFails(e) \/ SetupFailsSmartVF(e)
    <3>1. PICK outcome : Setup(e, outcome)
      BY <2>3 DEF SetupFails, SetupFailsSmartVF
    <3>2. /\ ParentLinked'
          /\ \A q \in Port : bridge[q] # "none" => bridge'[q] # "none"
          /\ Linked \subseteq Linked'
      BY <1>1, <3>1, SetupPlugs
    <3>3. ~Relies(e)'
      BY <1>1, <2>3 DEF SetupFails, SetupFailsSmartVF, Goto, Relies, TypeOK
    <3> QED BY <1>1, <1>2, <2>1, <3>2, <3>3 DEF Plugged
  <2>4. CASE Rollback(e) \/ Undo(e) \/ CloseReset(e) \/ ResetAgain(e)
    <3>1. PICK isL2Connect : Reset(e, isL2Connect)
      BY <1>1, <2>4
         DEF Rollback, Undo, CloseReset, Goto, Reset, IInv, RollsBackAlone, ResetAgain
    <3>2. \A q \in Port : Users(q)' # {} =>
             bridge'[q] = bridge[q] /\ (q \in links => q \in links')
      BY <1>1, <3>1, ResetSpares
    <3>3. ParentLinked'
      BY <1>1, <3>1, ResetParentLinked
    <3>4. ~Relies(e)'
      BY <1>1, <2>4 DEF Rollback, Undo, CloseReset, Goto, Relies, TypeOK, ResetAgain
    <3>5. ASSUME NEW d \in End, Relies(d)'
          PROVE  /\ d \notin Recalled => bridge'[held'[d]] # "none"
                 /\ held'[d] \in Linked'
      <4>1. d # e /\ Relies(d) /\ held'[d] = held[d] /\ held[d] \in Port
        BY <1>2, <2>1, <3>4, <3>5
      <4>2. PICK q \in Port : q = held[d]
        BY <4>1
      <4>3. Users(q)' # {}
        BY <4>1, <4>2 DEF Users
      <4>4. bridge'[q] = bridge[q] /\ (q \in links => q \in links')
        BY <3>2, <4>3
      <4> QED BY <1>1, <4>1, <4>2, <4>4 DEF Plugged, Linked
    <3> QED BY <3>3, <3>5 DEF Plugged
  <2> QED BY <1>3, <2>2, <2>3, <2>4 DEF Locking
<1>4. ASSUME NEW e \in End,
             NextFails(e) \/ NextClosed(e) \/ VlanBreakoutFails(e) \/ RefreshRecalls(e)
      PROVE  Plugged' /\ ParentLinked'
  <2>1. UNCHANGED <<maps, held, links>>
    BY <1>4 DEF NextFails, NextClosed, VlanBreakoutFails, RefreshRecalls
  <2>2. /\ Relies(e)' => Relies(e) /\ e \in Recalled
        /\ \A d \in End \ {e} : Relies(d)' <=> Relies(d)
    BY <1>1, <1>4
       DEF NextFails, NextClosed, VlanBreakoutFails, RefreshRecalls, Goto, Relies,
           Recalled, BrokenOut, TypeOK
  <2>3. bridge' = bridge \/ (/\ e \in Breakout /\ held[e] # NoPort
                             /\ bridge' = [bridge EXCEPT ![held[e]] = "none"])
    <3>1. e \in Breakout => (pc[e] \in {"next", "closing", "refresh"} => held[e] # NoPort)
      BY <1>1, KernelAssumption
         DEF IInv, Phases, MustHold, Releasing, KernelAssumption
    <3> QED
      BY <1>1, <1>4, <3>1
         DEF NextFails, NextClosed, VlanBreakoutFails, RefreshRecalls, Goto, DelPort,
             BrokenOut
  <2>4. ASSUME NEW d \in End, Relies(d)'
        PROVE  /\ d \notin Recalled => bridge'[held'[d]] # "none"
               /\ held'[d] \in Linked'
    <3>1. /\ Relies(d) /\ held'[d] = held[d] /\ held[d] # NoPort
          /\ d # e \/ d \in Recalled
      BY <1>2, <2>1, <2>2, <2>4
    <3>2. d # e => bridge'[held[d]] = bridge[held[d]]
      <4>1. CASE bridge' = bridge
        BY <4>1
      <4>2. CASE /\ e \in Breakout /\ held[e] # NoPort
                 /\ bridge' = [bridge EXCEPT ![held[e]] = "none"]
        <5>1. d # e => held[d] # held[e]
          BY <1>1, <3>1, <4>2, BreakoutAlone
        <5> QED BY <1>1, <1>2, <3>1, <4>2, <5>1 DEF TypeOK
      <4> QED BY <2>3, <4>1, <4>2
    <3> QED BY <1>1, <2>1, <3>1, <3>2 DEF Plugged, Linked
  <2> QED BY <1>1, <2>1, <2>4 DEF Plugged, ParentLinked, Linked, maps
<1>5. ASSUME NEW e \in End, VlanBreakout(e) PROVE Plugged' /\ ParentLinked'
  BY <1>1, <1>2, <1>5
     DEF VlanBreakout, Plugged, ParentLinked, Linked, Relies, TypeOK, maps
<1>6. ASSUME NEW e \in End,
             \/ Request(e) \/ Refresh(e) \/ RefreshReturns(e) \/ Close(e) \/ CloseAgain(e)
             \/ Unload(e) \/ Keep(e) \/ NextOk(e)
      PROVE  Plugged' /\ ParentLinked'
  <2>1. UNCHANGED <<maps, held, host>>
    BY <1>6 DEF Request, Refresh, Close, RefreshReturns, Unload, NextOk,
                RefreshRecalls, CloseAgain, Keep
  <2>2. \A d \in End : Relies(d)' => Relies(d)
    BY <1>1, <1>6
       DEF Request, Refresh, Close, RefreshReturns, Unload, NextOk, Goto, Relies,
           TypeOK, RefreshRecalls, CloseAgain, Keep
  <2> QED BY <1>1, <2>1, <2>2 DEF Plugged, ParentLinked, Linked, maps, host
<1>7. ASSUME NEW p \in Mortal, LinkGone(p) PROVE Plugged' /\ ParentLinked'
  BY <1>1, <1>7 DEF LinkGone, Plugged, ParentLinked, Linked, Relies, maps
<1>8. CASE Restart
  BY <1>8 DEF Restart, Plugged, ParentLinked, Relies
<1>9. CASE UNCHANGED vars
  BY <1>1, <1>9 DEF vars, maps, host, Plugged, ParentLinked, Linked, Relies
<1> QED
  BY <1>3, <1>4, <1>5, <1>6, <1>7, <1>8, <1>9 DEF Next, Step, NextReturns

\* What an end relies on stays plugged, the parents stay linked.
THEOREM PluggedInvariant ==
  ASSUME DistinctNames, UniformTagging, SoleBreakout, ResetOnce
  PROVE  Spec => []PInv
<1>1. Init => Plugged /\ ParentLinked /\ BrokenOut
  BY DEF Init, Plugged, ParentLinked, BrokenOut, Relies
<1>2. PInv /\ IInv' /\ [Next]_vars => Plugged' /\ ParentLinked' /\ BrokenOut'
  BY PluggedStep, BrokenOutStep DEF PInv, IInv
<1>3. PInv <=> IInv /\ Plugged /\ ParentLinked /\ BrokenOut
  BY DEF PInv
<1> QED BY <1>1, <1>2, <1>3, Invariant, PTL DEF Spec

\* No setup, rollback or close of one end unplugs the interface of another
\* that is established, nor deletes its link.
THEOREM InUsePluggedCorrect ==
  ASSUME DistinctNames, UniformTagging, SoleBreakout, ResetOnce
  PROVE  Spec => []InUsePlugged
<1>1. PInv => InUsePlugged
  BY DEF PInv, Plugged, InUsePlugged, InUse, Relies, Linked
<1> QED BY <1>1, PluggedInvariant, PTL

-----------------------------------------------------------------------------
(* What an established end uses does not move.                             *)

\* What every step that is not its own does to the interface of an established end.
Stays(e) ==
  InUse(e) /\ pc'[e] = pc[e] =>
    /\ held'[e] = held[e] /\ bridge'[held[e]] = bridge[held[e]]
    /\ held[e] \in links \ Mortal => held[e] \in links'

\* What is used is counted.
LEMMA UsedIsCounted ==
  ASSUME IInv, NEW p \in Port, Users(p) # {}
  PROVE  refCount[p] # Absent
<1>1. Cardinality(Users(p)) \in Nat /\ Cardinality(Users(p)) # 0
  BY UsersFinite, FS_EmptySet
<1> QED BY <1>1 DEF IInv, CountsUsers, Count

\* The critical section of another end: a setup plugs in only what nobody has
\* counted, a reset takes only what nobody holds.
LEMMA LockedStays ==
  ASSUME PInv, IInv', NEW d \in End, Locking(d) \/ Rollback(d),
         NEW e \in End \ {d}, InUse(e)
  PROVE  Stays(e)
<1>1. IInv /\ TypeOK /\ MapsInv' /\ held'[e] = held[e]
  BY DEF PInv, IInv, MapsInv, TypeOK, Locking, Rollback, SetupOk, SetupFails,
         SetupFailsSmartVF, Undo, CloseReset, ResetAgain
<1>2. PICK q \in Port : q = held[e]
  BY <1>1 DEF IInv, Phases, MustHold, Releasing, InUse, TypeOK
<1>3. Users(q) # {} /\ Users(q)' # {}
  BY <1>1, <1>2 DEF Users
<1>4. CASE SetupOk(d) \/ SetupFails(d) \/ SetupFailsSmartVF(d)
  <2>1. PICK outcome : Setup(d, outcome)
    BY <1>4 DEF SetupOk, SetupFails, SetupFailsSmartVF
  <2>2. refCount[q] # Absent
    BY <1>1, <1>3, UsedIsCounted
  <2>3. bridge'[q] = bridge[q] /\ links \subseteq links'
    BY <1>1, <2>1, <2>2 DEF Setup, TypeOK
  <2> QED BY <1>1, <1>2, <2>3 DEF Stays
<1>5. CASE Rollback(d) \/ Undo(d) \/ CloseReset(d) \/ ResetAgain(d)
  <2>1. PICK isL2Connect : Reset(d, isL2Connect)
    BY <1>1, <1>5
       DEF Rollback, Undo, CloseReset, Goto, Reset, IInv, RollsBackAlone, ResetAgain
  <2>2. bridge'[q] = bridge[q] /\ (q \in links => q \in links')
    BY <1>1, <1>3, <2>1, ResetSpares
  <2> QED BY <1>1, <1>2, <2>2 DEF Stays
<1> QED BY <1>4, <1>5 DEF Locking

\* A step of another end outside its critical sections moves only a port that
\* the end has broken out, which nobody shares.
LEMMA UnlockedStays ==
  ASSUME DistinctNames, SoleBreakout, PInv, NEW d \in End, Unlocked(d),
         NEW e \in End \ {d}, InUse(e)
  PROVE  Stays(e)
<1>1. IInv /\ BrokenOut /\ TypeOK
  BY DEF PInv, IInv
<1>2. held' = held /\ links' = links
  BY DEF Request, Refresh, Close, RefreshReturns, NextClosed, Unload, NextReturns,
         NextOk, NextFails, VlanBreakout, VlanBreakoutFails, host, RefreshRecalls,
         CloseAgain, Keep, Unlocked
<1>3. held[e] \in Port /\ held[e] # NoPort
  BY <1>1 DEF IInv, Phases, MustHold, Releasing, InUse, TypeOK
<1>4. CASE bridge' = bridge
  BY <1>2, <1>4 DEF Stays
<1>5. CASE bridge' # bridge
  <2>1. d \in Breakout /\ pc[d] \in {"next", "closing", "refresh"}
    BY <1>1, <1>5
       DEF Request, Refresh, Close, RefreshReturns, NextClosed, Unload, NextReturns,
           NextOk, NextFails, VlanBreakout, VlanBreakoutFails, DelPort, BrokenOut,
           Goto, host, RefreshRecalls, CloseAgain, Keep, Unlocked
  <2>2. held[d] # NoPort
    BY <1>1, <2>1, KernelAssumption
       DEF IInv, Phases, MustHold, Releasing, KernelAssumption
  <2>3. held[d] # held[e]
    BY <1>1, <1>3, <2>1, <2>2, BreakoutAlone
  <2>4. bridge'[held[e]] = bridge[held[e]]
    BY <1>1, <1>3, <1>5, <2>3
       DEF Request, Refresh, Close, RefreshReturns, NextClosed, Unload, NextReturns,
           NextOk, NextFails, VlanBreakout, VlanBreakoutFails, DelPort, TypeOK, host,
           RefreshRecalls, CloseAgain, Keep, Unlocked
  <2> QED BY <1>2, <2>4 DEF Stays
<1> QED BY <1>4, <1>5

\* A step of the end itself takes its handler on.
LEMMA OwnStays ==
  ASSUME TypeOK, NEW e \in End, Step(e)
  PROVE  Stays(e)
<1>1. pc'[e] # pc[e] \/ ~InUse(e)
  BY DEF InUse, TypeOK, Step, Locking, NextReturns, Request, Refresh, RefreshReturns,
         RefreshRecalls, Close, CloseAgain, NextClosed, Unload, Keep, Rollback, NextOk,
         NextFails, VlanBreakout, VlanBreakoutFails, SetupOk, SetupFails,
         SetupFailsSmartVF, Undo, CloseReset, ResetAgain, Goto
<1> QED BY <1>1 DEF Stays

\* No step of another end, no failure, no rollback and no restart moves the port of
\* an established end, nor removes its link while its container lives.
THEOREM InUseStaysCorrect ==
  ASSUME DistinctNames, UniformTagging, SoleBreakout, ResetOnce
  PROVE  Spec => InUseStays
<1>1. ASSUME PInv, PInv', [Next]_vars, NEW e \in End PROVE Stays(e)
  <2>1. CASE ~InUse(e)
    BY <2>1 DEF Stays
  <2>2. ASSUME NEW d \in End, Step(d), InUse(e) PROVE Stays(e)
    <3>1. CASE d = e
      BY <1>1, <2>2, <3>1, OwnStays DEF PInv, IInv
    <3>2. CASE d # e /\ (Locking(d) \/ Rollback(d))
      BY <1>1, <2>2, <3>2, LockedStays DEF PInv
    <3>3. CASE d # e /\ ~(Locking(d) \/ Rollback(d))
      BY <1>1, <2>2, <3>3, UnlockedStays DEF Step, Unlocked
    <3> QED BY <3>1, <3>2, <3>3
  <2>3. ASSUME NEW p \in Mortal, LinkGone(p) PROVE Stays(e)
    BY <2>3 DEF LinkGone, Stays
  <2>4. CASE Restart
    BY <2>4 DEF Restart, Stays, InUse
  <2>5. CASE UNCHANGED vars
    BY <2>5 DEF vars, host, Stays
  <2> QED BY <1>1, <2>1, <2>2, <2>3, <2>4, <2>5 DEF Next
<1>2. PInv /\ PInv' /\ [Next]_vars => [\A e \in End : Stays(e)]_vars
  BY <1>1
<1>3. Spec => [][\A e \in End : Stays(e)]_vars
  BY <1>2, PluggedInvariant, PTL DEF Spec
<1> QED BY <1>3 DEF InUseStays, Stays
=============================================================================
