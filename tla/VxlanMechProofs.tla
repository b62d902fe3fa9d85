-------------------------- MODULE VxlanMechProofs --------------------------
(***************************************************************************)
(* Proofs about VxlanMech, for every set of ends, every assignment of       *)
(* remotes and every combination of faults that VxlanAssumption allows.     *)
(***************************************************************************)
EXTENDS VxlanMech, FiniteSetTheorems, SequenceTheorems, TLAPS

\* Where an end has counted its tunnel and not given it back, and where it may
\* have given it back once.
MustHold(e) == \/ pc[e] \in {"undo", "up", "refresh"}
               \/ pc[e] = "next" /\ e \notin Clients

MayHold(e) == MustHold(e) \/ pc[e] \in {"closing", "remove", "recall"}

\* The ends that may remove twice.
Twice(e) == e \in Clients /\ MayCloseOnRefresh(e)

HeldRight(e) ==
  /\ MustHold(e) => e \in held
  /\ e \in held => MayHold(e)
  /\ MayHold(e) => e \in held \/ Twice(e)
  /\ pc[e] \in {"recall", "kept"} => Twice(e)

HeldInPhase == \A e \in End : HeldRight(e)

\* A counted tunnel is there.
CountedThere == \A p \in Port : refCount[p] > 0 => tun[p] # NoTunnel

\* The steps that change neither a count nor a tunnel.
Quiet(e) ==
  \/ Request(e) \/ Refresh(e) \/ Close(e) \/ Recall(e) \/ NextOk(e) \/ NextFails(e)
  \/ RefreshReturns(e) \/ NextClosed(e)

IInv ==
  /\ TypeOK
  /\ HeldInPhase
  /\ NeverUndercounted
  /\ CountedThere

\* A tunnel port leads to the remotes that share its name, or nowhere.
TunnelsRight == \A e \in End : tun[Tunnel(e)] \in {NoTunnel, Remote[e]}

-----------------------------------------------------------------------------
(* Types and users.                                                        *)

\* Every step keeps the types.
LEMMA TypeStep ==
  ASSUME TypeOK, [Next]_vars
  PROVE  TypeOK'
<1>1. \A e \in End : Tunnel(e) \in Port /\ Remote[e] \in IPv4
  BY VxlanAssumption DEF Port, VxlanAssumption
<1>2. ASSUME NEW e \in End, AddOk(e) \/ AddFails(e) PROVE TypeOK'
  <2>1. PICK outcome : Add(e, outcome)
    BY <1>2 DEF AddOk, AddFails
  <2>2. (refCount \in [Port -> Nat])' /\ (tun \in [Port -> IPv4 \cup {NoTunnel}])'
    BY <1>1, <2>1 DEF Add, TypeOK
  <2> QED BY <1>2, <2>2 DEF AddOk, AddFails, Goto, TypeOK
<1>3. ASSUME NEW e \in End, Undo(e) \/ CloseRemove(e) \/ RecallRemove(e) PROVE TypeOK'
  <2>1. (refCount \in [Port -> Nat])' /\ (tun \in [Port -> IPv4 \cup {NoTunnel}])'
    BY <1>1, <1>3 DEF Undo, CloseRemove, RecallRemove, Remove, TypeOK, Absent
  <2> QED BY <1>3, <2>1 DEF Undo, CloseRemove, RecallRemove, Goto, TypeOK
<1>4. ASSUME NEW e \in End, Quiet(e)
      PROVE  TypeOK'
  BY <1>4 DEF TypeOK, Goto, Request, Refresh, Close, NextOk, NextFails,
              RefreshReturns, NextClosed, Recall, Quiet
<1>5. CASE Restart
  BY <1>5 DEF Restart, TypeOK, Absent
<1>6. CASE UNCHANGED vars
  BY <1>6 DEF vars, TypeOK
<1> QED BY <1>2, <1>3, <1>4, <1>5, <1>6 DEF Next, Step, Quiet

\* Every variable keeps its type: no count is ever negative.
THEOREM TypeCorrect == Spec => []TypeOK
<1>1. Init => TypeOK
  BY DEF Init, TypeOK, Absent
<1>2. TypeOK /\ [Next]_vars => TypeOK'
  BY TypeStep
<1> QED BY <1>1, <1>2, PTL DEF Spec

\* The users of a tunnel are finitely many, since the ends are.
LEMMA UsersFinite ==
  ASSUME TypeOK, NEW p
  PROVE  IsFiniteSet(Users(p)) /\ Cardinality(Users(p)) \in Nat
<1>1. IsFiniteSet(End)
  BY VxlanAssumption DEF VxlanAssumption
<1>2. Users(p) \in SUBSET End
  BY DEF Users, TypeOK
<1> QED BY <1>1, <1>2, FS_Subset, FS_CardinalityType

\* The same after a step.
LEMMA UsersNext ==
  ASSUME TypeOK', NEW p
  PROVE  IsFiniteSet(Users(p)') /\ Cardinality(Users(p)') \in Nat
<1>1. IsFiniteSet(End)
  BY VxlanAssumption DEF VxlanAssumption
<1>2. Users(p)' \in SUBSET End
  BY DEF Users, TypeOK
<1> QED BY <1>1, <1>2, FS_Subset, FS_CardinalityType

\* An end that counts is at most one more user of its tunnel.
LEMMA UsersGain ==
  ASSUME TypeOK, NEW e \in End, held' = held \cup {e}
  PROVE  /\ Cardinality(Users(Tunnel(e))') <= Cardinality(Users(Tunnel(e))) + 1
         /\ \A p \in Port \ {Tunnel(e)} : Users(p)' = Users(p)
<1> DEFINE n == Tunnel(e)
<1>1. Users(n)' = Users(n) \cup {e}
  BY DEF Users, Tunnel
<1>2. \A p \in Port \ {n} : Users(p)' = Users(p)
  BY DEF Users, Tunnel
<1>3. Cardinality(Users(n) \cup {e}) \in {Cardinality(Users(n)), Cardinality(Users(n)) + 1}
      /\ Cardinality(Users(n)) \in Nat
  BY UsersFinite, FS_AddElement
<1> QED BY <1>1, <1>2, <1>3

\* An end that removes is one user less of its tunnel.
LEMMA UsersLose ==
  ASSUME TypeOK, NEW e \in held, held' = held \ {e}
  PROVE  /\ Cardinality(Users(Tunnel(e))') = Cardinality(Users(Tunnel(e))) - 1
         /\ Cardinality(Users(Tunnel(e))') \in Nat
         /\ \A p \in Port \ {Tunnel(e)} : Users(p)' = Users(p)
<1> DEFINE n == Tunnel(e)
<1>1. Users(n)' = Users(n) \ {e} /\ e \in Users(n)
  BY DEF Users, Tunnel
<1>2. \A p \in Port \ {n} : Users(p)' = Users(p)
  BY DEF Users, Tunnel
<1>3. /\ Cardinality(Users(n) \ {e}) = Cardinality(Users(n)) - 1
      /\ IsFiniteSet(Users(n) \ {e})
  BY <1>1, UsersFinite, FS_RemoveElement
<1>4. Cardinality(Users(n) \ {e}) \in Nat
  BY <1>3, FS_CardinalityType
<1> QED BY <1>1, <1>2, <1>3, <1>4

-----------------------------------------------------------------------------
(* The inductive invariant.                                                *)

\* What holds of the names used below.
LEMMA Names ==
  ASSUME TypeOK
  PROVE  /\ \A e \in End : Tunnel(e) \in Port /\ Remote[e] \in IPv4
         /\ NoTunnel \notin IPv4
BY VxlanAssumption DEF VxlanAssumption, Port

\* An add: it counts before the end holds, and creates the tunnel first.
LEMMA AddStep ==
  ASSUME ClientsCountFirst, IInv, TypeOK', NEW e \in End,
         AddOk(e) \/ AddFails(e)
  PROVE  HeldInPhase' /\ NeverUndercounted' /\ CountedThere'
<1>1. TypeOK /\ e \notin held /\ pc[e] = "add"
  BY DEF IInv, HeldInPhase, HeldRight, MayHold, MustHold, AddOk, AddFails, Goto
<1>2. PICK outcome :
        /\ Add(e, outcome)
        /\ held' \in {held, held \cup {e}}
        /\ held' = held \cup {e} => Counts(outcome)
        /\ pc' = [pc EXCEPT ![e] = pc'[e]]
        /\ HeldRight(e)'
  <2>1. CASE AddOk(e)
    BY <1>1, <2>1 DEF AddOk, Goto, Counts, TypeOK, HeldRight, MayHold, MustHold
  <2>2. CASE AddFails(e)
    <3>1. PICK outcome \in AddFailures :
            /\ Goto(e, "add", IF e \in Clients THEN "closing" ELSE "idle")
            /\ Add(e, outcome)
            /\ held' = IF e \in Clients /\ Counts(outcome) THEN held \cup {e} ELSE held
      BY <2>2 DEF AddFails
    <3>2. e \in Clients => Counts(outcome)
      BY <3>1 DEF ClientsCountFirst, Add, CanEnd, Counts
    <3> QED BY <1>1, <3>1, <3>2 DEF Goto, TypeOK, HeldRight, MayHold, MustHold
  <2> QED BY <2>1, <2>2
<1>3. PICK n \in Port : n = Tunnel(e)
  BY <1>1, Names
<1>4. HeldInPhase'
  <2>1. \A d \in End \ {e} : HeldRight(d)' <=> HeldRight(d)
    BY <1>1, <1>2 DEF HeldRight, MayHold, MustHold, TypeOK
  <2> QED BY <1>2, <2>1 DEF IInv, HeldInPhase
<1>5. \A p \in Port : /\ refCount'[p] \in Nat /\ refCount[p] \in Nat
                      /\ refCount'[p] = IF p = n /\ Counts(outcome)
                                        THEN refCount[p] + 1 ELSE refCount[p]
  BY <1>1, <1>2, <1>3 DEF Add, TypeOK
<1>6. NeverUndercounted'
  <2>1. CASE held' = held
    <3>1. \A p \in Port : Users(p)' = Users(p) /\ Cardinality(Users(p)) \in Nat
      BY <1>1, <2>1, UsersFinite DEF Users, Tunnel
    <3> QED BY <1>5, <3>1 DEF IInv, NeverUndercounted
  <2>2. CASE held' = held \cup {e}
    <3>1. /\ Cardinality(Users(n)') <= Cardinality(Users(n)) + 1
          /\ \A p \in Port \ {n} : Users(p)' = Users(p)
      BY <1>1, <1>3, <2>2, UsersGain
    <3>2. \A p \in Port : Cardinality(Users(p)) \in Nat
      BY <1>1, UsersFinite
    <3>3. Cardinality(Users(n)') \in Nat
      BY UsersNext
    <3> QED BY <1>2, <1>3, <1>5, <2>2, <3>1, <3>2, <3>3 DEF IInv, NeverUndercounted
  <2> QED BY <1>2, <2>1, <2>2
<1>7. CountedThere'
  <2>1. Remote[e] # NoTunnel
    BY <1>1, Names
  <2> QED
    BY <1>1, <1>2, <1>3, <1>5, <2>1 DEF Add, TypeOK, IInv, CountedThere, Absent
<1> QED BY <1>4, <1>6, <1>7

\* What an end removes twice nobody else uses.
LEMMA OnlyUser ==
  ASSUME RemovedOnce, TypeOK, NEW e \in End, Twice(e)
  PROVE  /\ Users(Tunnel(e)) \subseteq {e}
         /\ held' = held \ {e} => Users(Tunnel(e))' = {}
BY DEF RemovedOnce, Twice, Users, Tunnel, TypeOK

\* A remove: the end lets go of what it counted, and the port goes with the
\* last of its users; what it removes once more is not there.
LEMMA RemoveStep ==
  ASSUME RemovedOnce, IInv, TypeOK', NEW e \in End,
         Undo(e) \/ CloseRemove(e) \/ RecallRemove(e)
  PROVE  HeldInPhase' /\ NeverUndercounted' /\ CountedThere'
<1>1. /\ TypeOK /\ (e \in held \/ Twice(e)) /\ pc' = [pc EXCEPT ![e] = pc'[e]]
      /\ pc'[e] \in {"idle", "kept"} /\ (pc'[e] = "kept" => Twice(e))
      /\ Remove(e) /\ held' = held \ {e}
  <2>1. TypeOK /\ HeldRight(e)
    BY DEF IInv, HeldInPhase
  <2>2. CASE Undo(e)
    BY <2>1, <2>2 DEF TypeOK, HeldRight, MustHold, Undo, Goto
  <2>3. CASE CloseRemove(e)
    BY <2>1, <2>3 DEF TypeOK, HeldRight, MayHold, CloseRemove, Goto
  <2>4. CASE RecallRemove(e)
    BY <2>1, <2>4 DEF TypeOK, HeldRight, MayHold, RecallRemove, Goto
  <2> QED BY <2>2, <2>3, <2>4
<1>2. PICK n \in Port : n = Tunnel(e)
  BY <1>1, Names
<1>3. HeldInPhase'
  BY <1>1 DEF IInv, HeldInPhase, HeldRight, MayHold, MustHold, TypeOK
<1>4. \A p \in Port : /\ refCount[p] \in Nat
                      /\ p # n => refCount'[p] = refCount[p] /\ tun'[p] = tun[p]
  BY <1>1, <1>2 DEF Remove, TypeOK
<1>5. \/ refCount'[n] = refCount[n] /\ tun'[n] = tun[n] /\ refCount[n] \in {0, 1}
      \/ refCount'[n] = refCount[n] - 1 /\ tun'[n] = tun[n] /\ refCount[n] > 1
      \/ refCount'[n] = 0 /\ refCount[n] = 1 /\ tun'[n] = NoTunnel
  BY <1>1, <1>2, <1>4 DEF Remove, TypeOK, Absent
<1>6. NeverUndercounted'
  <2>1. CASE e \in held
    <3>1. /\ Cardinality(Users(n)') = Cardinality(Users(n)) - 1
          /\ Cardinality(Users(n)') \in Nat
          /\ \A p \in Port \ {n} : Users(p)' = Users(p)
      BY <1>1, <1>2, <2>1, UsersLose
    <3>2. \A p \in Port : Cardinality(Users(p)) \in Nat
      BY <1>1, UsersFinite
    <3> QED BY <1>2, <1>4, <1>5, <3>1, <3>2 DEF IInv, NeverUndercounted
  <2>2. CASE e \notin held
    <3>1. Users(n)' = {} /\ held' = held
      BY <1>1, <1>2, <2>2, OnlyUser
    <3>2. \A p \in Port \ {n} : Users(p)' = Users(p)
      BY <3>1 DEF Users, Tunnel
    <3>3. Cardinality(Users(n)') = 0
      BY <3>1, FS_EmptySet
    <3>4. refCount'[n] \in Nat
      BY <1>2 DEF TypeOK
    <3> QED BY <1>2, <1>4, <3>2, <3>3, <3>4 DEF IInv, NeverUndercounted
  <2> QED BY <2>1, <2>2
<1>7. CountedThere'
  BY <1>2, <1>4, <1>5 DEF IInv, CountedThere
<1> QED BY <1>3, <1>6, <1>7

\* Every other step of an end leaves the counts and the tunnels alone.
LEMMA QuietStep ==
  ASSUME IInv, UNCHANGED <<refCount, held, tun>>,
         \A d \in End : HeldRight(d) => HeldRight(d)'
  PROVE  HeldInPhase' /\ NeverUndercounted' /\ CountedThere'
<1>1. HeldInPhase'
  BY DEF IInv, HeldInPhase
<1>2. \A p \in Port : Users(p)' = Users(p)
  BY DEF Users, Tunnel
<1>3. NeverUndercounted'
  BY <1>2 DEF IInv, NeverUndercounted
<1>4. CountedThere'
  BY DEF IInv, CountedThere
<1> QED BY <1>1, <1>3, <1>4

\* IInv is an invariant when a client end that fails to add has counted, whatever
\* the tunnels are called.
THEOREM Invariant ==
  ASSUME ClientsCountFirst, RemovedOnce
  PROVE  Spec => []IInv
<1>1. Init => IInv
  <2>1. SUFFICES ASSUME Init PROVE IInv
    OBVIOUS
  <2>2. TypeOK /\ HeldInPhase
    BY <2>1 DEF Init, TypeOK, Absent, HeldInPhase, HeldRight, MayHold, MustHold
  <2>3. NeverUndercounted
    <3>1. \A p \in Port : Users(p) = {}
      BY <2>1 DEF Init, Users
    <3> QED BY <2>1, <3>1, FS_EmptySet DEF Init, NeverUndercounted, Absent
  <2>4. CountedThere
    BY <2>1 DEF Init, CountedThere, Absent
  <2> QED BY <2>2, <2>3, <2>4 DEF IInv
<1>2. IInv /\ [Next]_vars => IInv'
  <2>1. SUFFICES ASSUME IInv, [Next]_vars PROVE IInv'
    OBVIOUS
  <2>2. TypeOK /\ TypeOK'
    BY <2>1, TypeStep DEF IInv
  <2>3. ASSUME NEW e \in End, Step(e) PROVE IInv'
    <3>1. CASE AddOk(e) \/ AddFails(e)
      BY <2>1, <2>2, <3>1, AddStep DEF IInv
    <3>2. CASE Undo(e) \/ CloseRemove(e) \/ RecallRemove(e)
      BY <2>1, <2>2, <3>2, RemoveStep DEF IInv
    <3>3. CASE Quiet(e)
      <4>1. UNCHANGED <<refCount, held, tun>>
        BY <3>3 DEF Request, Refresh, Close, NextOk, NextFails, RefreshReturns,
                    NextClosed, Recall, Quiet
      <4>2. \A d \in End : HeldRight(d) => HeldRight(d)'
        BY <2>2, <3>3
           DEF TypeOK, HeldRight, Twice, MayHold, MustHold, Goto, Request, Refresh,
               Close, NextOk, NextFails,
               RefreshReturns, NextClosed, Recall, Quiet
      <4> QED BY <2>1, <2>2, <4>1, <4>2, QuietStep DEF IInv
    <3> QED BY <2>3, <3>1, <3>2, <3>3 DEF Step, Quiet
  <2>4. CASE Restart
    <3>1. HeldInPhase' /\ CountedThere'
      BY <2>4 DEF Restart, HeldInPhase, HeldRight, MayHold, MustHold, CountedThere, Absent
    <3>2. \A p \in Port : Users(p)' = {}
      BY <2>4 DEF Restart, Users
    <3>3. NeverUndercounted'
      BY <2>4, <3>2, FS_EmptySet DEF Restart, NeverUndercounted, Absent
    <3> QED BY <2>2, <3>1, <3>3 DEF IInv
  <2>5. CASE UNCHANGED vars
    <3>1. UNCHANGED <<refCount, held, tun>> /\ \A d \in End : HeldRight(d) => HeldRight(d)'
      BY <2>5 DEF vars, HeldRight, MayHold, MustHold
    <3> QED BY <2>1, <2>2, <3>1, QuietStep DEF IInv
  <2> QED BY <2>1, <2>3, <2>4, <2>5 DEF Next
<1> QED BY <1>1, <1>2, PTL DEF Spec

\* No tunnel is ever counted for fewer ends than use it.
THEOREM NeverUndercountedCorrect ==
  ASSUME ClientsCountFirst, RemovedOnce
  PROVE  Spec => []NeverUndercounted
<1>1. IInv => NeverUndercounted
  BY DEF IInv
<1> QED BY <1>1, Invariant, PTL

\* What an end has counted is there.
LEMMA HeldThere ==
  ASSUME IInv, NEW e \in held
  PROVE  e \in End /\ tun[Tunnel(e)] # NoTunnel
<1>1. e \in End /\ e \in Users(Tunnel(e)) /\ TypeOK
  BY DEF IInv, TypeOK, Users
<1>2. PICK n \in Port : n = Tunnel(e)
  BY <1>1, Names
<1>3. Cardinality(Users(n)) \in Nat /\ Cardinality(Users(n)) # 0
  BY <1>1, <1>2, UsersFinite, FS_EmptySet
<1>4. refCount[n] > 0
  BY <1>1, <1>2, <1>3 DEF IInv, NeverUndercounted, TypeOK
<1> QED BY <1>1, <1>2, <1>4 DEF IInv, CountedThere

\* No tunnel is ever turned to another remote than that of the ends it is for.
THEOREM TunnelsRightCorrect ==
  ASSUME DistinctNames
  PROVE  Spec => []TunnelsRight
<1>1. Init => TunnelsRight
  BY Names DEF Init, TunnelsRight, Port
<1>2. TypeOK /\ TunnelsRight /\ [Next]_vars => TunnelsRight'
  <2>1. SUFFICES ASSUME TypeOK, TunnelsRight, [Next]_vars, NEW d \in End
                 PROVE  tun'[Tunnel(d)] \in {NoTunnel, Remote[d]}
    BY DEF TunnelsRight, Tunnel
  <2>2. PICK n \in Port : n = Tunnel(d)
    BY DEF Port
  <2>3. ASSUME tun'[n] \in {tun[n], NoTunnel} PROVE tun'[n] \in {NoTunnel, Remote[d]}
    BY <2>1, <2>2, <2>3 DEF TunnelsRight
  <2>4. ASSUME NEW e \in End, AddOk(e) \/ AddFails(e)
        PROVE  tun'[n] \in {NoTunnel, Remote[d]}
    <3>1. PICK outcome : Add(e, outcome)
      BY <2>4 DEF AddOk, AddFails
    <3>2. tun'[n] = tun[n] \/ (n = Tunnel(e) /\ tun'[n] = Remote[e])
      BY <2>1, <3>1 DEF Add, TypeOK
    <3> QED BY <2>2, <2>3, <3>2 DEF DistinctNames
  <2>5. ASSUME NEW e \in End, Undo(e) \/ CloseRemove(e) \/ RecallRemove(e)
        PROVE  tun'[n] \in {tun[n], NoTunnel}
    BY <2>1, <2>5 DEF Undo, CloseRemove, RecallRemove, Remove, TypeOK
  <2>6. ASSUME NEW e \in End, Quiet(e)
        PROVE  tun' = tun
    BY <2>6 DEF Quiet, Request, Refresh, Close, NextOk, NextFails, RefreshReturns,
                NextClosed, Recall
  <2>7. CASE Restart \/ UNCHANGED vars
    BY <2>2, <2>3, <2>7 DEF Restart, vars
  <2> QED BY <2>1, <2>2, <2>3, <2>4, <2>5, <2>6, <2>7 DEF Next, Step, Quiet
<1> QED BY <1>1, <1>2, TypeCorrect, PTL DEF Spec

\* An established end always has a tunnel to its own remote.
THEOREM TunnelLeadsToRemoteCorrect ==
  ASSUME DistinctNames, ClientsCountFirst, RemovedOnce
  PROVE  Spec => []TunnelLeadsToRemote
<1>1. ASSUME IInv, TunnelsRight PROVE TunnelLeadsToRemote
  BY <1>1, HeldThere
     DEF TunnelLeadsToRemote, TunnelsRight, IInv, HeldInPhase, HeldRight, MustHold
<1> QED BY <1>1, Invariant, TunnelsRightCorrect, PTL

\* An add fails only if one of its commands does: a counted tunnel is there, so
\* that its port number can be asked for (add, common.go).
THEOREM AddFailsOnlyOnFaultCorrect ==
  ASSUME ClientsCountFirst, RemovedOnce
  PROVE  Spec => []AddFailsOnlyOnFault
<1>1. ASSUME IInv, NEW e \in End, NEW outcome \in AddFailures, CanEnd(e, outcome)
      PROVE  outcome \in Faults[e]
  <2>1. PICK n \in Port : n = Tunnel(e)
    BY DEF Port
  <2>2. refCount[n] # Absent => tun[n] # NoTunnel
    BY <1>1 DEF IInv, TypeOK, CountedThere, Absent
  <2> QED BY <1>1, <2>1, <2>2 DEF CanEnd, AddFailures
<1>2. IInv => AddFailsOnlyOnFault
  BY <1>1 DEF AddFailsOnlyOnFault
<1> QED BY <1>2, Invariant, PTL

-----------------------------------------------------------------------------
(* When nothing leaks.                                                     *)

\* The count of a tunnel is the number of its users, and a tunnel that nobody
\* counts is not there.
Exact == \A p \in Port : /\ refCount[p] = Cardinality(Users(p))
                         /\ refCount[p] = 0 => tun[p] = NoTunnel

\* An end that did not hold is one more user of its tunnel.
LEMMA UsersGainOne ==
  ASSUME TypeOK, NEW e \in End \ held, held' = held \cup {e}
  PROVE  /\ Cardinality(Users(Tunnel(e))') = Cardinality(Users(Tunnel(e))) + 1
         /\ \A p \in Port \ {Tunnel(e)} : Users(p)' = Users(p)
<1> DEFINE n == Tunnel(e)
<1>1. Users(n)' = Users(n) \cup {e} /\ e \notin Users(n)
  BY DEF Users, Tunnel
<1>2. \A p \in Port \ {n} : Users(p)' = Users(p)
  BY DEF Users, Tunnel
<1>3. Cardinality(Users(n) \cup {e}) = Cardinality(Users(n)) + 1
  BY <1>1, UsersFinite, FS_AddElement
<1> QED BY <1>1, <1>2, <1>3

\* An end that fails to add counts exactly when it will give back.
LEMMA AddExact ==
  ASSUME ClientsCountFirst, NothingLeaks, IInv, Exact, NEW e \in End,
         AddOk(e) \/ AddFails(e)
  PROVE  Exact'
<1>1. TypeOK /\ e \notin held /\ Tunnel(e) \in Port /\ Remote[e] # NoTunnel
      /\ NoTunnel \notin IPv4
  BY Names DEF IInv, HeldInPhase, HeldRight, MayHold, MustHold, AddOk, AddFails, Goto
<1>2. PICK outcome :
        /\ Add(e, outcome)
        /\ held' = IF Counts(outcome) THEN held \cup {e} ELSE held
  <2>1. CASE AddOk(e)
    BY <2>1 DEF AddOk, Counts
  <2>2. CASE AddFails(e)
    <3>1. PICK outcome \in AddFailures :
            /\ Add(e, outcome)
            /\ held' = IF e \in Clients /\ Counts(outcome) THEN held \cup {e} ELSE held
      BY <2>2 DEF AddFails
    <3>2. refCount[Tunnel(e)] # Absent => tun[Tunnel(e)] # NoTunnel
      BY <1>1 DEF IInv, TypeOK, CountedThere, Absent
    <3>3. e \notin Clients => ~Counts(outcome)
      BY <3>1, <3>2 DEF NothingLeaks, Add, CanEnd, Counts, AddFailures
    <3> QED BY <3>1, <3>3
  <2> QED BY <2>1, <2>2
<1>3. PICK n \in Port : n = Tunnel(e)
  BY <1>1
<1>4. CASE ~Counts(outcome)
  <2>1. UNCHANGED <<refCount, tun, held>>
    BY <1>2, <1>4 DEF Add
  <2>2. \A p \in Port : Users(p)' = Users(p)
    BY <2>1 DEF Users, Tunnel
  <2> QED BY <2>1, <2>2 DEF Exact
<1>5. CASE Counts(outcome)
  <2>1. /\ Cardinality(Users(n)') = Cardinality(Users(n)) + 1
        /\ \A p \in Port \ {n} : Users(p)' = Users(p)
    BY <1>1, <1>2, <1>3, <1>5, UsersGainOne
  <2>2. \A p \in Port : /\ refCount[p] \in Nat
                        /\ refCount'[p] = IF p = n THEN refCount[p] + 1 ELSE refCount[p]
                        /\ p # n => tun'[p] = tun[p]
    BY <1>1, <1>2, <1>3, <1>5 DEF Add, TypeOK
  <2> QED BY <2>1, <2>2 DEF Exact
<1> QED BY <1>4, <1>5

\* The last user deletes the tunnel with its count.
LEMMA RemoveExact ==
  ASSUME NothingLeaks, IInv, Exact, NEW e \in End,
         Undo(e) \/ CloseRemove(e) \/ RecallRemove(e)
  PROVE  Exact'
<1>1. /\ TypeOK /\ (e \in held \/ Twice(e)) /\ Remove(e) /\ held' = held \ {e}
      /\ "delete" \notin Faults[e] /\ NoTunnel \notin IPv4
  BY Names
     DEF IInv, HeldInPhase, HeldRight, MayHold, MustHold, Undo, CloseRemove, RecallRemove,
         Goto, NothingLeaks
<1>2. PICK n \in Port : n = Tunnel(e)
  BY <1>1, Names
<1>4. Cardinality(Users(n)) \in Nat /\ refCount[n] = Cardinality(Users(n))
  BY <1>1, UsersFinite DEF Exact
<1>7. \A p \in Port \ {n} : refCount'[p] = refCount[p] /\ tun'[p] = tun[p]
  BY <1>1, <1>2 DEF Remove, TypeOK
<1>8. CASE e \in held
  <2>1. /\ Cardinality(Users(n)') = Cardinality(Users(n)) - 1
        /\ Cardinality(Users(n)') \in Nat
        /\ \A p \in Port \ {n} : Users(p)' = Users(p)
    BY <1>1, <1>2, <1>8, UsersLose
  <2>2. refCount[n] > 0 /\ tun[n] # NoTunnel
    BY <1>1, <1>2, <1>4, <2>1 DEF IInv, CountedThere
  <2>3. /\ refCount'[n] = refCount[n] - 1
        /\ refCount'[n] = 0 => tun'[n] = NoTunnel
    BY <1>1, <1>2, <1>4, <2>2 DEF Remove, TypeOK, Absent
  <2> QED BY <1>4, <1>7, <2>1, <2>3 DEF Exact
<1>9. CASE e \notin held
  <2>1. Users(n) = {} /\ Users(n)' = {} /\ held' = held
    BY <1>1, <1>2, <1>9, OnlyUser DEF NothingLeaks, Users
  <2>2. refCount[n] = 0
    BY <1>4, <2>1, FS_EmptySet
  <2>3. UNCHANGED <<refCount, tun>>
    BY <1>1, <1>2, <2>2 DEF Remove, Absent
  <2>4. \A p \in Port : Users(p)' = Users(p)
    BY <2>1 DEF Users, Tunnel
  <2> QED BY <2>3, <2>4 DEF Exact
<1> QED BY <1>8, <1>9

\* A tunnel is there exactly while it is used.
UsedIsThere == \A p \in Port : tun[p] # NoTunnel <=> Users(p) # {}

\* If no failure leaks, every tunnel that is used is there, and no other.
THEOREM UsedIsThereInvariant ==
  ASSUME ClientsCountFirst, NothingLeaks
  PROVE  Spec => [](IInv /\ UsedIsThere)
<1>1. Init => Exact
  <2>1. SUFFICES ASSUME Init PROVE Exact
    OBVIOUS
  <2>2. \A p \in Port : Users(p) = {}
    BY <2>1 DEF Init, Users
  <2> QED BY <2>1, <2>2, FS_EmptySet DEF Init, Exact, Absent
<1>2. IInv /\ Exact /\ [Next]_vars => Exact'
  <2>1. SUFFICES ASSUME IInv, Exact, [Next]_vars PROVE Exact'
    OBVIOUS
  <2>2. ASSUME UNCHANGED <<refCount, held, tun>> PROVE Exact'
    <3>1. \A p \in Port : Users(p)' = Users(p)
      BY <2>2 DEF Users, Tunnel
    <3> QED BY <2>1, <2>2, <3>1 DEF Exact
  <2>3. ASSUME NEW e \in End, Step(e) PROVE Exact'
    <3>1. CASE AddOk(e) \/ AddFails(e)
      BY <2>1, <3>1, AddExact
    <3>2. CASE Undo(e) \/ CloseRemove(e) \/ RecallRemove(e)
      BY <2>1, <3>2, RemoveExact
    <3>3. CASE Quiet(e)
      BY <2>2, <3>3 DEF Request, Refresh, Close, NextOk, NextFails,
                        RefreshReturns, NextClosed, Recall, Quiet
    <3> QED BY <2>3, <3>1, <3>2, <3>3 DEF Step, Quiet
  <2>4. ~Restart
    BY DEF Restart, NothingLeaks
  <2>5. CASE UNCHANGED vars
    BY <2>2, <2>5 DEF vars
  <2> QED BY <2>1, <2>3, <2>4, <2>5 DEF Next
<1>3. ASSUME IInv, Exact PROVE UsedIsThere
  <2>1. SUFFICES ASSUME NEW p \in Port PROVE tun[p] # NoTunnel <=> Users(p) # {}
    BY DEF UsedIsThere
  <2>2. PICK e \in End : p = Tunnel(e)
    BY DEF Port
  <2>3. refCount[p] = Cardinality(Users(p)) /\ refCount[p] \in Nat
    BY <1>3 DEF Exact, IInv, TypeOK
  <2>4. refCount[p] = 0 <=> Users(p) = {}
    BY <1>3, <2>3, UsersFinite, FS_EmptySet DEF IInv
  <2>5. refCount[p] # 0 => tun[p] # NoTunnel
    BY <1>3, <2>3 DEF IInv, CountedThere
  <2> QED BY <1>3, <2>4, <2>5 DEF Exact
<1>4. RemovedOnce
  BY DEF NothingLeaks
<1> QED BY <1>1, <1>2, <1>3, <1>4, Invariant, PTL DEF Spec

\* No tunnel is left once all ends are idle, if no failure leaks.
THEOREM NoTunnelWhenIdleCorrect ==
  ASSUME ClientsCountFirst, NothingLeaks
  PROVE  Spec => []NoTunnelWhenIdle
<1>1. ASSUME IInv, UsedIsThere PROVE NoTunnelWhenIdle
  <2>1. SUFFICES ASSUME \A e \in End : pc[e] = "idle", NEW p \in Port
                 PROVE  tun[p] = NoTunnel
    BY DEF NoTunnelWhenIdle
  <2>2. Users(p) = {}
    BY <1>1, <2>1 DEF IInv, TypeOK, HeldInPhase, HeldRight, MayHold, MustHold,
                               Users
  <2> QED BY <1>1, <2>2 DEF UsedIsThere
<1> QED BY <1>1, UsedIsThereInvariant, PTL

-----------------------------------------------------------------------------
(* The tunnels implement SharedPort.                                       *)

\* An end that counts joins its tunnel, one that gives back leaves it.
LEMMA SharedStep ==
  ASSUME IInv, UsedIsThere, UsedIsThere', [Next]_vars, CanRestart = FALSE
  PROVE  [Shared!Next]_(Shared!vars)
<1>1. CASE held' = held
  <2>1. \A p \in Port : Users(p)' = Users(p)
    BY <1>1 DEF Users
  <2>2. \A p \in Port : tun'[p] # NoTunnel <=> tun[p] # NoTunnel
    BY <2>1 DEF UsedIsThere
  <2> QED BY <2>1, <2>2 DEF Shared!vars
<1>2. ASSUME NEW e \in End \ held, held' = held \cup {e} PROVE Shared!Next
  <2>1. PICK n \in Port : n = Tunnel(e)
    BY <1>2 DEF Port
  <2>2. \A p \in Port :
          e \notin Users(p) /\ Users(p)' = IF p = n THEN Users(p) \cup {e} ELSE Users(p)
    BY <1>2, <2>1 DEF Users
  <2>3. \A p \in Port : tun'[p] # NoTunnel <=> p = n \/ tun[p] # NoTunnel
    BY <2>2 DEF UsedIsThere
  <2>4. Shared!Join(e, n)
    BY <2>1, <2>2, <2>3 DEF Shared!Join
  <2> QED BY <1>2, <2>1, <2>4 DEF Shared!Next
<1>3. ASSUME NEW e \in held, held' = held \ {e} PROVE Shared!Next
  <2>1. PICK n \in Port : n = Tunnel(e) /\ e \in End
    BY <1>3 DEF Port, IInv, TypeOK
  <2>2. /\ e \in Users(n)
        /\ \A p \in Port : Users(p)' = IF p = n THEN Users(p) \ {e} ELSE Users(p)
    BY <1>3, <2>1 DEF Users
  <2>3. Users(n)' = {} <=> Users(n) = {e}
    BY <2>2
  <2>4. \A p \in Port :
          tun'[p] # NoTunnel <=> tun[p] # NoTunnel /\ (p = n => Users(n) # {e})
    BY <2>2, <2>3 DEF UsedIsThere
  <2>5. Shared!Leave(e, n)
    BY <2>1, <2>2, <2>4 DEF Shared!Leave
  <2> QED BY <2>1, <2>5 DEF Shared!Next
<1>4. ASSUME NEW e \in End, Step(e)
      PROVE  held' = held \/ held' = held \cup {e} \/ held' = held \ {e}
  BY <1>4
     DEF Step, Request, AddOk, AddFails, NextOk, NextFails, Undo, Refresh,
         RefreshReturns, Close, NextClosed, CloseRemove, Recall, RecallRemove
<1>5. ASSUME NEW e \in End, Step(e) PROVE [Shared!Next]_(Shared!vars)
  <2>1. CASE held' = held \cup {e} /\ e \notin held
    BY <1>2, <2>1
  <2>2. CASE held' = held \ {e} /\ e \in held
    BY <1>3, <2>2
  <2>3. (e \in held => held \cup {e} = held) /\ (e \notin held => held \ {e} = held)
    OBVIOUS
  <2>4. CASE held' = held
    BY <1>1, <2>4
  <2> QED BY <1>4, <1>5, <2>1, <2>2, <2>3, <2>4
<1> QED BY <1>1, <1>5 DEF Next, Restart, vars

\* If no failure leaks, the first user of a tunnel creates it, the last deletes
\* it, and no other step, failed adds included, does either.
THEOREM SharedPortRefined ==
  ASSUME ClientsCountFirst, NothingLeaks
  PROVE  Spec => ImplementsSharedPort
<1>1. Init => Shared!Init
  BY DEF Init, Shared!Init, Users
<1>2. IInv /\ UsedIsThere /\ UsedIsThere' /\ [Next]_vars => [Shared!Next]_(Shared!vars)
  BY SharedStep DEF NothingLeaks
<1> QED
  BY <1>1, <1>2, UsedIsThereInvariant, PTL DEF Spec, ImplementsSharedPort, Shared!Spec

-----------------------------------------------------------------------------
(* When tunnel names differ.                                               *)

\* The digits of an octet tell which it is.
LEMMA DigitsTell ==
  ASSUME NEW m \in Octet, NEW n \in Octet, Digits(m) = Digits(n)
  PROVE  m = n
<1>1. ASSUME NEW j \in Int, NEW k \in Int, j >= 0, k >= 0,
             j % 10 = k % 10, j \div 10 = k \div 10
      PROVE  j = k
  BY <1>1
<1>2. ASSUME NEW k \in Octet
      PROVE  /\ k \in Int /\ k >= 0
             /\ k \div 10 \in Int /\ k \div 10 >= 0 /\ k \div 100 = (k \div 10) \div 10
  BY DEF Octet
<1>3. ASSUME NEW k \in Octet
      PROVE  \/ Len(Digits(k)) = 1 /\ Digits(k)[1] = k
             \/ /\ Len(Digits(k)) = 2
                /\ Digits(k)[1] = k \div 10 /\ Digits(k)[2] = k % 10
             \/ /\ Len(Digits(k)) = 3
                /\ Digits(k)[1] = k \div 100 /\ Digits(k)[2] = (k \div 10) % 10
                /\ Digits(k)[3] = k % 10
  BY DEF Octet, Digits
<1>4. \/ m = n
      \/ m \div 10 = n \div 10 /\ m % 10 = n % 10
      \/ /\ m \div 100 = n \div 100
         /\ (m \div 10) % 10 = (n \div 10) % 10 /\ m % 10 = n % 10
  <2> DEFINE d == Digits(m)
  <2>1. \/ Len(d) = 1 /\ d[1] = m
        \/ Len(d) = 2 /\ d[1] = m \div 10 /\ d[2] = m % 10
        \/ Len(d) = 3 /\ d[1] = m \div 100 /\ d[2] = (m \div 10) % 10 /\ d[3] = m % 10
    BY <1>3
  <2>2. \/ Len(d) = 1 /\ d[1] = n
        \/ Len(d) = 2 /\ d[1] = n \div 10 /\ d[2] = n % 10
        \/ Len(d) = 3 /\ d[1] = n \div 100 /\ d[2] = (n \div 10) % 10 /\ d[3] = n % 10
    BY <1>3
  <2> HIDE DEF d
  <2> QED BY <2>1, <2>2
<1>5. CASE m \div 10 = n \div 10 /\ m % 10 = n % 10
  BY <1>1, <1>2, <1>5
<1>6. CASE /\ m \div 100 = n \div 100
           /\ (m \div 10) % 10 = (n \div 10) % 10 /\ m % 10 = n % 10
  <2>1. m \div 10 = n \div 10
    BY <1>1, <1>2, <1>6
  <2> QED BY <1>1, <1>2, <1>6, <2>1
<1> QED BY <1>4, <1>5, <1>6

LEMMA DigitsType ==
  ASSUME NEW n \in Octet
  PROVE  Digits(n) \in Seq(Int)
BY DEF Octet, Digits

\* Two concatenations agree only if their parts do, when the first parts have
\* the same length.
Splits(a, b, s, t) == Len(a) = Len(b) /\ a \o s = b \o t => a = b /\ s = t

LEMMA ConcatSplit ==
  ASSUME NEW a \in Seq(Int), NEW b \in Seq(Int), NEW s \in Seq(Int), NEW t \in Seq(Int)
  PROVE  Splits(a, b, s, t)
<1> SUFFICES ASSUME Len(a) = Len(b), a \o s = b \o t
             PROVE  a = b /\ s = t
  BY DEF Splits
<1> DEFINE n == Len(a)
<1>1. n \in Nat /\ Len(s) \in Nat /\ Len(t) \in Nat
  BY LenProperties
<1>2. /\ Len(a \o s) = n + Len(s)
      /\ \A i \in 1..n + Len(s) : (a \o s)[i] = IF i <= n THEN a[i] ELSE s[i - n]
  BY ConcatProperties
<1>3. /\ Len(b \o t) = n + Len(t)
      /\ \A i \in 1..n + Len(t) : (b \o t)[i] = IF i <= n THEN b[i] ELSE t[i - n]
  BY ConcatProperties
<1> HIDE DEF n
<1>4. Len(s) = Len(t)
  BY <1>1, <1>2, <1>3
<1>5. ASSUME NEW i \in 1..n PROVE a[i] = b[i]
  <2>1. i \in 1..n + Len(s) /\ i \in 1..n + Len(t) /\ i <= n
    BY <1>1
  <2> QED BY <1>2, <1>3, <2>1
<1>6. ASSUME NEW i \in 1..Len(s) PROVE s[i] = t[i]
  <2> DEFINE k == i + n
  <2>1. k \in 1..n + Len(s) /\ k \in 1..n + Len(t) /\ ~(k <= n) /\ k - n = i
    BY <1>1, <1>4
  <2> HIDE DEF k
  <2> QED BY <1>2, <1>3, <2>1
<1>7. a = b
  BY <1>5, SeqEqual DEF n
<1> QED BY <1>4, <1>6, <1>7, SeqEqual

\* So for four parts: the last may differ in length.
FourSplit(a1, a2, a3, a4, b1, b2, b3, b4) ==
  /\ Len(a1) = Len(b1) /\ Len(a2) = Len(b2) /\ Len(a3) = Len(b3)
  /\ a1 \o a2 \o a3 \o a4 = b1 \o b2 \o b3 \o b4
  => a1 = b1 /\ a2 = b2 /\ a3 = b3 /\ a4 = b4

LEMMA FourPartsSplit ==
  ASSUME NEW a1 \in Seq(Int), NEW a2 \in Seq(Int), NEW a3 \in Seq(Int), NEW a4 \in Seq(Int),
         NEW b1 \in Seq(Int), NEW b2 \in Seq(Int), NEW b3 \in Seq(Int), NEW b4 \in Seq(Int)
  PROVE  FourSplit(a1, a2, a3, a4, b1, b2, b3, b4)
<1> SUFFICES ASSUME Len(a1) = Len(b1), Len(a2) = Len(b2), Len(a3) = Len(b3),
                    a1 \o a2 \o a3 \o a4 = b1 \o b2 \o b3 \o b4
             PROVE  a1 = b1 /\ a2 = b2 /\ a3 = b3 /\ a4 = b4
  BY DEF FourSplit
<1> DEFINE a12 == a1 \o a2
           b12 == b1 \o b2
           a123 == a12 \o a3
           b123 == b12 \o b3
<1>1. a12 \in Seq(Int) /\ Len(a12) = Len(a1) + Len(a2)
  BY ConcatProperties
<1>2. b12 \in Seq(Int) /\ Len(b12) = Len(b1) + Len(b2)
  BY ConcatProperties
<1> HIDE DEF a12, b12
<1>3. a123 \in Seq(Int) /\ Len(a123) = Len(a12) + Len(a3)
  BY <1>1, ConcatProperties
<1>4. b123 \in Seq(Int) /\ Len(b123) = Len(b12) + Len(b3)
  BY <1>2, ConcatProperties
<1> HIDE DEF a123, b123
<1>5. Splits(a1, b1, a2, b2) /\ Splits(a12, b12, a3, b3) /\ Splits(a123, b123, a4, b4)
  BY <1>1, <1>2, <1>3, <1>4, ConcatSplit
<1>6. Len(a12) = Len(b12) /\ Len(a123) = Len(b123)
  BY <1>1, <1>2, <1>3, <1>4
<1> QED BY <1>5, <1>6 DEF Splits, a12, b12, a123, b123

\* The addresses of any two remotes print their first three octets with the same
\* number of digits each, as those of one /24 network do.
SameWidths ==
  \A d, e \in End, i \in 1..3 : Len(Digits(Remote[d][i])) = Len(Digits(Remote[e][i]))

\* Then no two remotes share a tunnel, though the names leave out the dots
\* (getTunnelPortName).
THEOREM WidthsDistinguish ==
  ASSUME SameWidths
  PROVE  DistinctNames
<1> SUFFICES ASSUME NEW d \in End, NEW e \in End, Tunnel(d) = Tunnel(e)
             PROVE  Remote[d] = Remote[e]
  BY DEF DistinctNames
<1> DEFINE a == Remote[d]
           b == Remote[e]
<1>1. a \in [1..4 -> Octet] /\ b \in [1..4 -> Octet]
  BY VxlanAssumption DEF VxlanAssumption, IPv4
<1>2. \A i \in 1..4 : Digits(a[i]) \in Seq(Int) /\ Digits(b[i]) \in Seq(Int)
  BY <1>1, DigitsType
<1>3. \A i \in 1..3 : Len(Digits(a[i])) = Len(Digits(b[i]))
  BY DEF SameWidths
<1> HIDE DEF a, b
<1>4. Digits(a[1]) \o Digits(a[2]) \o Digits(a[3]) \o Digits(a[4])
        = Digits(b[1]) \o Digits(b[2]) \o Digits(b[3]) \o Digits(b[4])
  BY DEF Tunnel, TunnelPortName, a, b
<1>5. \A i \in 1..4 : Digits(a[i]) = Digits(b[i])
  <2> DEFINE f(i) == Digits(a[i])
             g(i) == Digits(b[i])
  <2>1. /\ f(1) \in Seq(Int) /\ f(2) \in Seq(Int) /\ f(3) \in Seq(Int) /\ f(4) \in Seq(Int)
        /\ g(1) \in Seq(Int) /\ g(2) \in Seq(Int) /\ g(3) \in Seq(Int) /\ g(4) \in Seq(Int)
    BY <1>2
  <2> HIDE DEF f, g
  <2>2. FourSplit(f(1), f(2), f(3), f(4), g(1), g(2), g(3), g(4))
    BY <2>1, FourPartsSplit
  <2>3. f(1) = g(1) /\ f(2) = g(2) /\ f(3) = g(3) /\ f(4) = g(4)
    BY <1>3, <1>4, <2>2 DEF FourSplit, f, g
  <2> QED BY <2>3 DEF f, g
<1>6. \A i \in 1..4 : a[i] = b[i]
  BY <1>1, <1>5, DigitsTell
<1> QED BY <1>1, <1>6 DEF a, b
=============================================================================
