--------------------------- MODULE VlanMechProofs ---------------------------
(***************************************************************************)
(* Proofs about VlanMech: what the start of the forwarder establishes holds *)
(* while it serves, and what the vlan elements add to it.                   *)
(***************************************************************************)
EXTENDS VlanMech, BootstrapProofs

OnEgress(x) == info[x] = "l2" /\ (x \in Recalled \/ portOn[x] = Bridge[Via[x]])

\* What each phase of a handler can rely on.
Phases ==
  \A x \in Conn :
    /\ pc[x] # "idle" => boot = "ready"
    /\ pc[x] \in {"unplug", "plug", "load", "get", "store", "abort"} => Via[x] # NoPoint
    /\ pc[x] \in {"load", "get", "store"} => Out(x) # NoLink /\ OnEgress(x)
    /\ pc[x] = "next" /\ info[x] = "l2" => x \in served
    /\ pc[x] = "up" => x \in served

\* A served connection is on its egress bridge, and its uplink is in the cache,
\* so that a refresh neither moves the port nor asks for the MTU.
ServedRight ==
  \A x \in served :
    /\ pc[x] \in {"up", "next", "load"}
    /\ Via[x] # NoPoint => OnEgress(x)
    /\ Out(x) # NoLink => cache[Out(x)] # NotCached

\* n is what getMTU returns for an MTU of S.
ReadFrom(n, S) ==
  \/ n = 0 /\ S \cap {Missing, 0} # {}
  \/ n \in S /\ n \in 1..MaxMTU

\* What is read, and kept, is an MTU of a moment when somebody was reading.
CacheRight ==
  /\ \A x \in Conn : pc[x] = "get" => mtuOf[Out(x)] \in had[Out(x)]
  /\ \A x \in Conn : pc[x] = "store" => ReadFrom(got[x], had[Out(x)])
  /\ \A u \in Uplinks : cache[u] # NotCached => ReadFrom(cache[u], had[u])

VlanInv == VlanTypeOK /\ Phases /\ ServedRight /\ CacheRight

IInv == BootInv /\ VlanInv

-----------------------------------------------------------------------------
\* The egress point and the uplink of a connection.
LEMMA Outs ==
  ASSUME NEW x \in Conn
  PROVE  /\ Out(x) \in Uplinks \cup {NoLink}
         /\ Via[x] # NoPoint => Via[x] \in L2Point
         /\ Out(x) # NoLink => Via[x] # NoPoint /\ Out(x) = Uplink[Via[x]]
BY VlanAssumption, Links DEF VlanAssumption, Out

\* A step of the composition is one of the start or leaves its state alone.
LEMMA BootByNext == [Next]_vars => [BootNext]_bootVars
BY DEF Next, BootNext, vars

\* All that the proofs use of the bound.
LEMMA MaxMTUType == MaxMTU \in Nat /\ 0 \in 0..MaxMTU /\ -1 \notin 0..MaxMTU
BY SMT DEF MaxMTU

\* What a bound does to an MTU.
LEMMA LoweredType ==
  ASSUME NEW m \in Nat, NEW n \in 0..MaxMTU
  PROVE  Lowered(m, n) \in Nat /\ (n > 0 => Lowered(m, n) \in 1..n)
BY MaxMTUType DEF Lowered

\* The handlers keep the types.
LEMMA VlanTypeStep ==
  ASSUME VlanTypeOK, Phases, [Next]_vars
  PROVE  VlanTypeOK'
<1>1. CASE UNCHANGED vlanVars
  BY <1>1 DEF vlanVars, handler, VlanTypeOK
<1>2. ASSUME NEW x \in Conn, Request(x) \/ Unplug(x) PROVE VlanTypeOK'
  BY <1>2 DEF Request, Unplug, VlanTypeOK, Goto
<1>3. ASSUME NEW x \in Conn, Refresh(x) \/ Close(x) \/ NextFails(x) \/ MovePortFails(x)
                             \/ LoadMiss(x) \/ GetMTUFails(x)
      PROVE  VlanTypeOK'
  BY <1>3 DEF Refresh, Close, NextFails, MovePortFails, LoadMiss, GetMTUFails,
              VlanTypeOK, Goto
<1>4. ASSUME NEW x \in Conn, NextOk(x) PROVE VlanTypeOK'
  <2>1. AfterBreakout(x) \in {"up", "load"}
    BY DEF AfterBreakout
  <2> QED BY <1>4, <2>1, VlanAssumption DEF NextOk, VlanAssumption, VlanTypeOK, Goto
<1>5. ASSUME NEW x \in Conn, Plug(x) PROVE VlanTypeOK'
  <2>1. Via[x] # NoPoint
    BY <1>5 DEF Plug, Phases, Goto
  <2>2. Bridge[Via[x]] \in EgressBridges \cup {NoLink} /\ AfterBreakout(x) \in {"up", "load"}
    BY <2>1, Outs, Links DEF AfterBreakout
  <2> QED BY <1>5, <2>2 DEF Plug, VlanTypeOK, Goto
<1>6. ASSUME NEW x \in Conn, LoadHit(x) \/ Store(x) \/ GetMTU(x) PROVE VlanTypeOK'
  <2>1. pc[x] \in {"load", "get", "store"}
    BY <1>6 DEF LoadHit, Store, GetMTU, Goto
  <2>2. Out(x) \in Uplinks
    BY <2>1, Outs DEF Phases
  <2>3. CASE LoadHit(x)
    <3>1. cache[Out(x)] \in 0..MaxMTU
      BY <2>2, <2>3 DEF LoadHit, VlanTypeOK
    <3>2. Lowered(mtu[x], cache[Out(x)]) \in Nat
      BY <3>1, LoweredType DEF VlanTypeOK
    <3> QED BY <2>3, <3>2 DEF LoadHit, Finished, VlanTypeOK, Goto
  <2>4. CASE Store(x)
    <3>1. Lowered(mtu[x], got[x]) \in Nat
      BY LoweredType DEF VlanTypeOK
    <3>2. cache' \in [Uplinks -> 0..MaxMTU \cup {NotCached}]
      BY <2>2, <2>4 DEF Store, VlanTypeOK
    <3>3. got' \in [Conn -> 0..MaxMTU]
      BY <2>4, MaxMTUType DEF Store, VlanTypeOK
    <3>4. pc' \in [Conn -> {"idle", "next", "unplug", "plug", "load", "get", "store",
                            "up", "abort", "undo", "closing"}]
      BY <2>4 DEF Store, VlanTypeOK, Goto
    <3>5. mtu' \in [Conn -> Nat] /\ served' \subseteq Conn
      BY <2>4, <3>1 DEF Store, Finished, VlanTypeOK
    <3>6. UNCHANGED <<info, portOn, mtuOf, had>>
      BY <2>4 DEF Store
    <3> QED BY <3>2, <3>3, <3>4, <3>5, <3>6 DEF VlanTypeOK
  <2>5. CASE GetMTU(x)
    <3>1. mtuOf[Out(x)] \in LinkMTU \cup {Missing} /\ LinkMTU \subseteq Nat
      BY <2>2, VlanAssumption DEF VlanTypeOK, VlanAssumption
    <3>2. ASSUME mtuOf[Out(x)] # Missing PROVE mtuOf[Out(x)] \in 0..MaxMTU
      <4>1. mtuOf[Out(x)] \in Nat
        BY <3>1, <3>2
      <4> QED BY <2>5, <4>1, MaxMTUType DEF GetMTU
    <3>5. got' \in [Conn -> 0..MaxMTU]
      BY <2>5, <3>2, MaxMTUType DEF GetMTU, VlanTypeOK
    <3>3. pc' \in [Conn -> {"idle", "next", "unplug", "plug", "load", "get", "store",
                            "up", "abort", "undo", "closing"}]
      BY <2>5 DEF GetMTU, VlanTypeOK, Goto
    <3>4. UNCHANGED <<served, info, mtu, portOn, cache, mtuOf, had>>
      BY <2>5 DEF GetMTU
    <3> QED BY <3>3, <3>4, <3>5 DEF VlanTypeOK
  <2> QED BY <1>6, <2>3, <2>4, <2>5
<1>7. ASSUME NEW x \in Conn, Abort(x) \/ Undo(x) \/ Closed(x) \/ Recall(x) PROVE VlanTypeOK'
  <2>1. portOn' \in [Conn -> EgressBridges \cup {Nsm, NoLink}]
    BY <1>7 DEF Abort, Undo, Closed, Recall, DelPort, VlanTypeOK
  <2>2. CASE Abort(x) \/ Recall(x)
    BY <2>1, <2>2 DEF Abort, Recall, VlanTypeOK, Goto
  <2>3. CASE Undo(x) \/ Closed(x)
    BY <2>1, <2>3 DEF Undo, Closed, VlanTypeOK, Goto
  <2> QED BY <1>7, <2>2, <2>3
<1>8. ASSUME NEW u \in Uplinks, UplinkChanges(u) PROVE VlanTypeOK'
  BY <1>8 DEF UplinkChanges, VlanTypeOK, handler
<1>9. CASE VlanRestart
  BY <1>9, MaxMTUType DEF VlanRestart, VlanTypeOK
<1>10. ASSUME NEW x \in Conn, VlanStep(x) PROVE VlanTypeOK'
  BY <1>10, <1>2, <1>3, <1>4, <1>5, <1>6, <1>7 DEF VlanStep
<1>11. CASE UNCHANGED vars
  BY <1>1, <1>11 DEF vars
<1> QED BY <1>1, <1>8, <1>9, <1>10, <1>11 DEF Next

\* A forwarder that serves does not start again unless it is restarted.
LEMMA ReadyStays ==
  ASSUME boot = "ready", BootStep
  PROVE  FALSE
BY DEF BootStep, ParseTunnelIP, ParseFails, NextPoint, Flush, Restore, ReadV6,
       PlugUplink, FindBridge, PointDone, MoveFails, Finish, Moving

\* What a handler does is done in its own connection, but for the cache.
LEMMA PhasesStep ==
  ASSUME VlanTypeOK, Phases, ServedRight, [Next]_vars
  PROVE  Phases' /\ ServedRight'
<1> USE DEF Phases, ServedRight, OnEgress, Out, VlanTypeOK, handler, vlanVars, Goto
<1>1. CASE BootStep /\ UNCHANGED vlanVars
  BY <1>1, ReadyStays
<1>2. CASE BootRestart /\ VlanRestart
  BY <1>2 DEF VlanRestart
<1>3. ASSUME NEW x \in Conn, VlanStep(x), UNCHANGED bootVars
      PROVE  Phases' /\ ServedRight'
  <2> USE <1>3 DEF bootVars, bootProcess
  <2>1. CASE Request(x)
    BY <2>1 DEF Request
  <2>2. CASE NextOk(x)
    BY <2>2 DEF NextOk, AfterBreakout
  <2>3. CASE NextFails(x) \/ Refresh(x) \/ Close(x)
    BY <2>3 DEF NextFails, Refresh, Close
  <2>4. CASE Unplug(x) \/ MovePortFails(x) \/ Plug(x)
    BY <2>4 DEF Unplug, MovePortFails, Plug, AfterBreakout
  <2>5. CASE LoadHit(x) \/ LoadMiss(x)
    BY <2>5 DEF LoadHit, LoadMiss, Finished
  <2>6. CASE GetMTU(x) \/ GetMTUFails(x)
    BY <2>6 DEF GetMTU, GetMTUFails
  <2>7. CASE Store(x)
    BY <2>7, Outs, MaxMTUType DEF Store, Finished, NotCached
  <2>8. CASE Abort(x)
    BY <2>8 DEF Abort, DelPort
  <2>9. CASE Undo(x) \/ Closed(x) \/ Recall(x)
    BY <2>9 DEF Undo, Closed, Recall, DelPort
  <2> QED BY <2>1, <2>2, <2>3, <2>4, <2>5, <2>6, <2>7, <2>8, <2>9 DEF VlanStep
<1>4. ASSUME NEW u \in Uplinks, UplinkChanges(u), UNCHANGED bootVars
      PROVE  Phases' /\ ServedRight'
  BY <1>4 DEF UplinkChanges, bootVars, bootProcess
<1>5. CASE UNCHANGED vars
  BY <1>5 DEF vars, bootVars, bootProcess
<1> QED BY <1>1, <1>2, <1>3, <1>4, <1>5 DEF Next

\* What a bound read from an uplink makes of an MTU is that MTU behind the uplink.
LEMMA LoweredBehind ==
  ASSUME NEW m \in Nat, NEW u \in Uplinks, NEW n \in 0..MaxMTU, ReadFrom(n, had[u])
  PROVE  \E h \in had[u] : h <= MaxMTU /\ Behind(m, h, Lowered(m, n))
<1>1. CASE n = 0
  <2>1. PICK h \in had[u] : h \in {Missing, 0}
    BY <1>1, MaxMTUType DEF ReadFrom
  <2>2. Lowered(m, n) = m
    BY <1>1 DEF Lowered
  <2>3. h <= MaxMTU
    BY <2>1 DEF Missing, MaxMTU
  <2> QED BY <2>1, <2>2, <2>3 DEF Behind
<1>2. CASE n # 0
  <2>1. n \in had[u] /\ n > 0 /\ n <= MaxMTU /\ n # Missing
    BY <1>2, MaxMTUType DEF ReadFrom, Missing
  <2>2. Behind(m, n, Lowered(m, n))
    BY <2>1 DEF Behind, Lowered
  <2> QED BY <2>1, <2>2
<1> QED BY <1>1, <1>2

\* A request that answers has read the uplink, or found what was read.
LEMMA AnswerFits ==
  ASSUME VlanTypeOK, Phases, CacheRight, [Next]_vars, NEW x \in Conn, Answers(x)
  PROVE  \E h \in had[Out(x)] : h <= MaxMTU /\ Behind(mtu[x], h, mtu'[x])
<1>1. LoadHit(x) \/ Store(x)
  <2>1. pc[x] \in {"load", "store"} /\ pc'[x] = "up"
    BY DEF Answers
  <2>2. ASSUME NEW y \in Conn, VlanStep(y) PROVE LoadHit(x) \/ Store(x)
    <3>1. y = x
      BY <2>1, <2>2 DEF VlanStep, Request, NextOk, NextFails, Unplug, Plug,
           MovePortFails, LoadHit, LoadMiss, GetMTU, GetMTUFails, Store, Abort,
           Undo, Refresh, Recall, Close, Closed, Goto, VlanTypeOK
    <3> QED BY <2>1, <2>2, <3>1 DEF VlanStep, Request, NextOk, NextFails, Unplug,
              Plug, MovePortFails, LoadMiss, GetMTU, GetMTUFails, Abort,
              Undo, Refresh, Recall, Close, Closed, Goto, VlanTypeOK
  <2>3. pc' # pc /\ ~VlanRestart /\ \A u \in Uplinks : ~UplinkChanges(u)
    BY <2>1 DEF VlanRestart, UplinkChanges, handler, VlanTypeOK
  <2> QED BY <2>2, <2>3 DEF Next, vars, vlanVars, handler
<1>2. Out(x) \in Uplinks
  BY Outs DEF Phases, Answers
<1>3. CASE LoadHit(x)
  <2>1. cache[Out(x)] \in 0..MaxMTU /\ ReadFrom(cache[Out(x)], had[Out(x)])
    BY <1>2, <1>3 DEF LoadHit, CacheRight, VlanTypeOK
  <2>2. mtu'[x] = Lowered(mtu[x], cache[Out(x)])
    BY <1>3 DEF LoadHit, Finished, VlanTypeOK
  <2> QED BY <1>2, <2>1, <2>2, LoweredBehind DEF VlanTypeOK
<1>4. CASE Store(x)
  <2>1. got[x] \in 0..MaxMTU /\ ReadFrom(got[x], had[Out(x)])
    BY <1>4 DEF Store, Goto, CacheRight, VlanTypeOK
  <2>2. mtu'[x] = Lowered(mtu[x], got[x])
    BY <1>4 DEF Store, Finished, VlanTypeOK
  <2> QED BY <1>2, <2>1, <2>2, LoweredBehind DEF VlanTypeOK
<1> QED BY <1>1, <1>3, <1>4

\* What getMTU returns comes from an MTU the uplink has had.
LEMMA GetMTUReads ==
  ASSUME VlanTypeOK, CacheRight, NEW x \in Conn, Out(x) \in Uplinks, GetMTU(x)
  PROVE  ReadFrom(got'[x], had[Out(x)])
<1>1. mtuOf[Out(x)] \in had[Out(x)] /\ mtuOf[Out(x)] \in LinkMTU \cup {Missing}
  BY DEF CacheRight, VlanTypeOK, GetMTU, Goto
<1>2. got'[x] = IF mtuOf[Out(x)] = Missing THEN 0 ELSE mtuOf[Out(x)]
  BY DEF GetMTU, VlanTypeOK
<1>3. CASE mtuOf[Out(x)] = Missing
  BY <1>1, <1>2, <1>3 DEF ReadFrom
<1>4. CASE mtuOf[Out(x)] # Missing
  <2>1. mtuOf[Out(x)] \in Nat /\ mtuOf[Out(x)] <= MaxMTU
    BY <1>1, <1>4, VlanAssumption DEF VlanAssumption, GetMTU
  <2>2. mtuOf[Out(x)] = 0 \/ mtuOf[Out(x)] \in 1..MaxMTU
    BY <2>1, MaxMTUType
  <2> QED BY <1>1, <1>2, <1>4, <2>2 DEF ReadFrom
<1> QED BY <1>3, <1>4

\* The entries of the cache come from the uplinks, and what an uplink has had is
\* only added to.
LEMMA CacheStep ==
  ASSUME VlanTypeOK, Phases, CacheRight, [Next]_vars
  PROVE  CacheRight'
<1>1. CASE UNCHANGED vlanVars
  BY <1>1 DEF CacheRight, ReadFrom, vlanVars, handler
<1>2. ASSUME NEW x \in Conn, VlanStep(x) PROVE CacheRight'
  <2>0. /\ \A y \in Conn \ {x} : pc'[y] = pc[y] /\ got'[y] = got[y]
        /\ UNCHANGED mtuOf /\ \A u \in Uplinks : had[u] \subseteq had'[u]
    BY <1>2 DEF VlanStep, Request, NextOk, NextFails, Unplug, Plug, MovePortFails,
                LoadHit, LoadMiss, GetMTU, GetMTUFails, Store, Finished, Abort,
                Undo, Refresh, Recall, Close, Closed, Goto, VlanTypeOK
  <2>1. /\ \A u \in Uplinks, n \in 0..MaxMTU : ReadFrom(n, had[u]) => ReadFrom(n, had'[u])
        /\ \A y \in Conn : pc[y] \in {"load", "get", "store"} => Out(y) \in Uplinks
    BY <2>0, Outs DEF ReadFrom, Phases
  <2>a. ASSUME \A u \in Uplinks : cache'[u] # NotCached => ReadFrom(cache'[u], had'[u]),
               pc'[x] = "get" => Out(x) \in Uplinks /\ mtuOf[Out(x)] \in had'[Out(x)],
               pc'[x] = "store" => ReadFrom(got'[x], had'[Out(x)])
        PROVE  CacheRight'
    <3>1. \A y \in Conn : pc'[y] = "get" => mtuOf'[Out(y)] \in had'[Out(y)]
      BY <2>0, <2>1, <2>a DEF CacheRight
    <3>2. \A y \in Conn : pc'[y] = "store" => ReadFrom(got'[y], had'[Out(y)]) \/ y = x
      BY <2>0, <2>1 DEF CacheRight, VlanTypeOK, ReadFrom
    <3>3. \A y \in Conn : pc'[y] = "store" => ReadFrom(got'[y], had'[Out(y)])
      BY <2>a, <3>2
    <3> QED BY <2>a, <3>1, <3>3 DEF CacheRight
  <2>b. \A u \in Uplinks : cache[u] # NotCached => ReadFrom(cache[u], had'[u])
    BY <2>0, <2>1 DEF CacheRight, VlanTypeOK, ReadFrom
  <2>2. CASE ~(LoadMiss(x) \/ GetMTU(x) \/ Store(x))
    <3>1. UNCHANGED cache /\ pc'[x] \notin {"get", "store"}
      BY <1>2, <2>2 DEF VlanStep, Request, NextOk, NextFails, Unplug, Plug,
           MovePortFails, LoadHit, GetMTUFails, Abort, Undo, Refresh, Recall, Close, Closed,
           Goto, AfterBreakout, VlanTypeOK
    <3>2. \A u \in Uplinks : cache'[u] # NotCached => ReadFrom(cache'[u], had'[u])
      BY <2>b, <3>1 DEF ReadFrom
    <3> QED BY <2>a, <3>1, <3>2
  <2>3. CASE LoadMiss(x)
    <3>1. UNCHANGED cache /\ pc'[x] = "get" /\ Out(x) \in Uplinks
      BY <2>1, <2>3 DEF LoadMiss, Goto, VlanTypeOK
    <3>2. mtuOf[Out(x)] \in had'[Out(x)]
      BY <2>3, <3>1 DEF LoadMiss, VlanTypeOK
    <3>3. \A u \in Uplinks : cache'[u] # NotCached => ReadFrom(cache'[u], had'[u])
      BY <2>b, <3>1 DEF ReadFrom
    <3> QED BY <2>a, <3>1, <3>2, <3>3
  <2>4. CASE GetMTU(x)
    <3>1. UNCHANGED <<cache, had>> /\ pc'[x] = "store" /\ Out(x) \in Uplinks
      BY <2>1, <2>4 DEF GetMTU, Goto, VlanTypeOK
    <3>2. ReadFrom(got'[x], had'[Out(x)])
      BY <2>4, <3>1, GetMTUReads DEF ReadFrom
    <3>3. \A u \in Uplinks : cache'[u] # NotCached => ReadFrom(cache'[u], had'[u])
      BY <2>b, <3>1 DEF ReadFrom
    <3> QED BY <2>a, <3>1, <3>2, <3>3
  <2>5. CASE Store(x)
    <3>1. Out(x) \in Uplinks /\ ReadFrom(got[x], had'[Out(x)]) /\ pc'[x] = "up"
      BY <2>0, <2>1, <2>5 DEF Store, Goto, CacheRight, VlanTypeOK, ReadFrom
    <3>2. cache' = [cache EXCEPT ![Out(x)] = got[x]]
      BY <2>5 DEF Store
    <3>3. \A u \in Uplinks : cache'[u] # NotCached => ReadFrom(cache'[u], had'[u])
      BY <2>b, <3>1, <3>2 DEF ReadFrom, VlanTypeOK
    <3> QED BY <2>a, <3>1, <3>3
  <2> QED BY <2>2, <2>3, <2>4, <2>5
<1>3. ASSUME NEW u \in Uplinks, UplinkChanges(u) PROVE CacheRight'
  <2>1. PICK m \in LinkMTU \cup {Missing} :
          /\ mtuOf' = [mtuOf EXCEPT ![u] = m]
          /\ had' = [had EXCEPT ![u] =
                @ \cup {m : x \in {y \in Conn : Out(y) = u /\ pc[y] = "get"}}]
          /\ UNCHANGED <<pc, got, cache>>
    BY <1>3 DEF UplinkChanges, handler
  <2>2. \A v \in Uplinks : had[v] \subseteq had'[v]
    BY <2>1 DEF VlanTypeOK
  <2>3. \A v \in Uplinks, n \in 0..MaxMTU : ReadFrom(n, had[v]) => ReadFrom(n, had'[v])
    BY <2>2 DEF ReadFrom
  <2>4. \A x \in Conn : pc[x] \in {"get", "store"} => Out(x) \in Uplinks
    BY Outs DEF Phases
  <2>5. \A x \in Conn : pc[x] = "get" => mtuOf'[Out(x)] \in had'[Out(x)]
    BY <2>1, <2>2, <2>4 DEF CacheRight, VlanTypeOK
  <2>6. \A x \in Conn : pc[x] = "store" => ReadFrom(got'[x], had'[Out(x)])
    BY <2>1, <2>3, <2>4 DEF CacheRight, VlanTypeOK, ReadFrom
  <2>7. \A v \in Uplinks : cache[v] # NotCached => ReadFrom(cache'[v], had'[v])
    BY <2>1, <2>3 DEF CacheRight, VlanTypeOK, ReadFrom
  <2> QED BY <2>1, <2>5, <2>6, <2>7 DEF CacheRight, ReadFrom
<1>4. CASE VlanRestart
  BY <1>4 DEF VlanRestart, CacheRight, VlanTypeOK
<1>5. CASE UNCHANGED vars
  BY <1>1, <1>5 DEF vars
<1> QED BY <1>1, <1>2, <1>3, <1>4, <1>5 DEF Next

-----------------------------------------------------------------------------
LEMMA InitInv == Init => IInv
<1> SUFFICES ASSUME Init PROVE VlanInv
  BY BootInitInv DEF Init, IInv
<1> USE DEF Init, VlanInit
<1>1. VlanTypeOK
  BY MaxMTUType DEF VlanTypeOK
<1>2. Phases /\ ServedRight /\ CacheRight
  BY DEF Phases, ServedRight, CacheRight
<1> QED BY <1>1, <1>2 DEF VlanInv

LEMMA StepInv == IInv /\ [Next]_vars => IInv'
BY BootByNext, BootStepInv, VlanTypeStep, PhasesStep, CacheStep DEF IInv, VlanInv

\* The inductive invariant of the vlan elements in a forwarder that starts.
THEOREM Invariant == Spec => []IInv
BY InitInv, StepInv, PTL DEF Spec

\* What the forwarder does while it serves is a run of its start: it leaves
\* the links, the addresses and the uplinks alone.
THEOREM ServesAsStarted == Spec => BootSpec
<1>1. Init => BootInit
  BY DEF Init
<1> QED BY <1>1, BootByNext, PTL DEF Spec, BootSpec

\* Every variable keeps its type, and nothing that getMTU returns exceeds 65535.
THEOREM TypeCorrect == Spec => []TypeOK
<1>1. IInv => TypeOK
  BY DEF IInv, BootInv, VlanInv, TypeOK
<1> QED BY <1>1, Invariant, PTL

\* A served connection stays on the bridge of its egress point, and that bridge
\* has the uplink (vlanClient, mtuClient, ConfigureOvS).
THEOREM BreakoutReachesUplinkCorrect == Spec => []BreakoutReachesUplink
<1>1. ASSUME IInv PROVE BreakoutReachesUplink
  <2> SUFFICES ASSUME NEW x \in served \ Recalled, Via[x] # NoPoint
               PROVE  /\ portOn[x] = Bridge[Via[x]]
                      /\ Out(x) # NoLink => uplinkOn[Out(x)] = Bridge[Via[x]]
    BY DEF BreakoutReachesUplink
  <2>1. x \in Conn /\ OnEgress(x) /\ boot = "ready"
    BY <1>1 DEF IInv, VlanInv, VlanTypeOK, ServedRight, Phases
  <2>2. ASSUME Out(x) # NoLink PROVE Configured(Via[x])
    BY <1>1, <2>1, <2>2, Outs
       DEF IInv, BootInv, PointsDone, Started, Uplinked, Moving
  <2> QED BY <2>1, <2>2, Outs DEF OnEgress, Configured
<1> QED BY <1>1, Invariant, PTL

\* The MTU a request answers with is one behind a valid MTU its uplink has had
\* while the cache was being filled (mtuClient).
THEOREM MTUFitsCorrect == Spec => MTUFits
<1>1. IInv /\ [Next]_vars =>
        [\A x \in Conn : Answers(x) =>
           \E n \in had[Out(x)] : n <= MaxMTU /\ Behind(mtu[x], n, mtu'[x])]_vars
  BY AnswerFits DEF IInv, VlanInv
<1> QED BY <1>1, Invariant, PTL DEF Spec, MTUFits

\* The promises of the start hold while the forwarder serves.
THEOREM StartCorrect == Spec => [](AddressesMoved /\ TunnelAddressPresent)
BY ServesAsStarted, BootAddressesMoved, BootTunnelAddress, PTL
\* While it serves, too, no address is on two links, and what has been handed over
\* stays on its bridge: serving connections takes no step of the hand-over.
THEOREM HandOverKept ==
  ASSUME DistinctAddrs
  PROVE  Spec => []NoAddressTwice /\ ImplementsHandOver
BY ServesAsStarted, BootNoAddressTwice, BootHandsOver, PTL
=============================================================================
