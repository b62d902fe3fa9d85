-------------------------- MODULE L2ConnectProofs --------------------------
(***************************************************************************)
(* Proofs about L2Connect, for any connections, ports, VLAN ids and VNIs:   *)
(* type correctness, CrossConnected, NoFlowLeft, and that L2Connect         *)
(* implements CrossConnect.                                                 *)
(***************************************************************************)
EXTENDS L2Connect, TLAPS

FlowsOf(x) == {ToClient[x], ToEndpoint[x]}

\* What a rule or a point of one connection says is not changed by a step.
LEMMA FlowOrder ==
  ASSUME NEW x \in Conn
  PROVE  /\ FirstFlow[x] \in FlowsOf(x) /\ SecondFlow[x] \in FlowsOf(x)
         /\ FlowsOf(x) = {FirstFlow[x], SecondFlow[x]}
BY DEF FirstFlow, SecondFlow, FlowsOf

\* The inductive invariant.  Only wired connections touch the flow table, and
\* a connection has what it added, and its endpoint entry, until it deletes it.
OnlyWired ==
  /\ \A x \in VlanConns : pc[x] \notin {"add1", "add2", "del1", "del2"}
  /\ endpoint \subseteq Wired
  /\ \A f \in flows : \E x \in Wired : f \in FlowsOf(x)

Enters(x) ==
  /\ pc[x] \in {"add1", "add2", "up", "refresh", "del1", "del2"} => x \in endpoint
  /\ x \in endpoint => pc[x] \in {"add1", "add2", "up", "refresh", "closing",
                                 "del1", "del2"}

\* A connection that is told of every failure is marked as cross connected only
\* while it has its two rules.
Keeps(x) ==
  /\ pc[x] = "idle" => client[x] = "none"
  /\ pc[x] = "next" => client[x] = "stored"
  /\ pc[x] = "add2" => FirstFlow[x] \in flows
  /\ pc[x] \in {"up", "refresh"} =>
       FlowsOf(x) \subseteq flows /\ client[x] = "connected"

IInv ==
  /\ TypeOK /\ OnlyWired
  /\ \A x \in Wired : Enters(x)
  /\ \A x \in Assured : Keeps(x)

-----------------------------------------------------------------------------
(* The flow table.                                                          *)

LEMMA PointsOfFlows ==
  ASSUME NEW x \in Conn, NEW f \in FlowsOf(x)
  PROVE  f.from \in Points(x) /\ Covers(f.from, f.from)
BY DEF FlowsOf, ToClient, ToEndpoint, Points, Covers

\* Rules of different connections have nothing in common, and the two rules of
\* one have different matches.
LEMMA FlowsApart ==
  ASSUME DistinctPoints,
         NEW x \in Wired, NEW y \in Wired, NEW f \in FlowsOf(x), NEW g \in FlowsOf(y),
         f # g
  PROVE  ~Covers(f.from, g.from)
<1>1. CASE x # y
  BY <1>1, PointsOfFlows DEF DistinctPoints, Wired
<1>2. CASE x = y
  <2>1. f.from.port # g.from.port
    BY <1>2 DEF DistinctPoints, FlowsOf, ToClient, ToEndpoint, Wired
  <2> QED BY <2>1 DEF Covers
<1> QED BY <1>1, <1>2

\* add-flow of one rule keeps every other.
LEMMA AddFlowKeeps ==
  ASSUME DistinctPoints, OnlyWired, NEW x \in Wired, NEW f \in FlowsOf(x), AddFlow(f)
  PROVE  flows' = flows \cup {f}
<1>1. ASSUME NEW g \in flows, g.from = f.from PROVE g = f
  <2>1. PICK y \in Wired : g \in FlowsOf(y)
    BY DEF OnlyWired
  <2>2. Covers(f.from, g.from)
    BY <1>1, PointsOfFlows DEF Wired
  <2> QED BY <2>1, <2>2, FlowsApart
<1> QED BY <1>1 DEF AddFlow

\* del-flows with the match of one rule deletes that rule and no other.
LEMMA DelFlowsKeeps ==
  ASSUME DistinctPoints, OnlyWired, NEW x \in Wired, NEW f \in FlowsOf(x),
         DelFlows(f.from)
  PROVE  flows' = flows \ {f}
<1>1. ASSUME NEW g \in flows, Covers(f.from, g.from) PROVE g = f
  <2>1. PICK y \in Wired : g \in FlowsOf(y)
    BY DEF OnlyWired
  <2> QED BY <1>1, <2>1, FlowsApart
<1>2. Covers(f.from, f.from)
  BY PointsOfFlows DEF Wired
<1> QED BY <1>1, <1>2 DEF DelFlows

\* What enters at a point of x is matched by the rule of x, if it is there.
LEMMA MatchingIs ==
  ASSUME DistinctPoints, NEW x \in Wired, NEW f \in FlowsOf(x),
         \A g \in flows : \E y \in Wired : g \in FlowsOf(y)
  PROVE  Matching(f.from) = flows \cap {f}
<1>1. ASSUME NEW g \in flows, Covers(g.from, f.from) PROVE g = f
  <2>1. PICK y \in Wired : g \in FlowsOf(y)
    OBVIOUS
  <2> QED BY <1>1, <2>1, FlowsApart
<1>2. Covers(f.from, f.from)
  BY PointsOfFlows DEF Wired
<1> QED BY <1>1, <1>2 DEF Matching

-----------------------------------------------------------------------------
(* The invariant.                                                           *)

\* What each step does to the flow table.
LEMMA FlowStep ==
  ASSUME DistinctPoints, IInv, NEW x \in Conn, Step(x)
  PROVE  \/ UNCHANGED flows
         \/ x \in Wired /\ pc[x] = "add1" /\ flows' = flows \cup {FirstFlow[x]}
         \/ x \in Wired /\ pc[x] = "add2" /\ flows' = flows \cup {SecondFlow[x]}
         \/ x \in Wired /\ pc[x] = "del1" /\ flows' = flows \ {FirstFlow[x]}
         \/ x \in Wired /\ pc[x] = "del2" /\ flows' = flows \ {SecondFlow[x]}
<1>1. OnlyWired
  BY DEF IInv
<1>2. CASE AddFirst(x)
  BY <1>1, <1>2, FlowOrder, AddFlowKeeps DEF AddFirst, Goto, OnlyWired, Wired
<1>3. CASE AddSecond(x)
  BY <1>1, <1>3, FlowOrder, AddFlowKeeps DEF AddSecond, Goto, OnlyWired, Wired
<1>4. CASE DeleteFirst(x)
  BY <1>1, <1>4, FlowOrder, DelFlowsKeeps DEF DeleteFirst, Goto, OnlyWired, Wired
<1>5. CASE DeleteSecond(x)
  BY <1>1, <1>5, FlowOrder, DelFlowsKeeps DEF DeleteSecond, Goto, OnlyWired, Wired
<1>6. CASE \/ Request(x) \/ NextOk(x) \/ NextFails(x) \/ Refresh(x)
           \/ RefreshReturns(x) \/ AddFails(x) \/ Close(x) \/ NextClosed(x)
           \/ Release(x) \/ Keep(x) \/ DeleteFails(x)
  BY <1>6 DEF Request, NextOk, NextFails, Refresh, RefreshReturns, AddFails,
              Close, NextClosed, Release, Keep, DeleteFails
<1> QED BY <1>2, <1>3, <1>4, <1>5, <1>6 DEF Step

\* What each step does to the rest.
LEMMA ControlStep ==
  ASSUME TypeOK, OnlyWired, NEW x \in Conn, Step(x)
  PROVE  /\ pc' = [pc EXCEPT ![x] = pc'[x]]
         /\ \A y \in Conn \ {x} : client'[y] = client[y]
         /\ endpoint' \subseteq endpoint \cup ({x} \cap Wired)
         /\ pc' \in [Conn -> {"idle", "next", "add1", "add2", "up", "refresh",
                              "closing", "del1", "del2", "release"}]
         /\ client' \in [Conn -> {"none", "stored", "connected"}]
         /\ x \in VlanConns => pc'[x] \notin {"add1", "add2", "del1", "del2"}
<1> USE DEF Goto, TypeOK, OnlyWired, Wired
<1>1. CASE Request(x) \/ NextFails(x) \/ Refresh(x) \/ RefreshReturns(x)
  BY <1>1 DEF Request, NextFails, Refresh, RefreshReturns
<1>2. CASE NextOk(x)
  BY <1>2 DEF NextOk
<1>3. CASE AddFirst(x) \/ AddSecond(x) \/ AddFails(x)
  BY <1>3 DEF AddFirst, AddSecond, AddFails
<1>4. CASE Close(x) \/ NextClosed(x) \/ Release(x) \/ Keep(x)
  BY <1>4 DEF Close, NextClosed, Release, Keep
<1>5. CASE DeleteFirst(x) \/ DeleteSecond(x) \/ DeleteFails(x)
  BY <1>5 DEF DeleteFirst, DeleteSecond, DeleteFails
<1> QED BY <1>1, <1>2, <1>3, <1>4, <1>5 DEF Step

LEMMA Initially == Init => IInv
BY L2Assumption DEF Init, IInv, TypeOK, OnlyWired, Enters, Keeps, Assured, Wired

LEMMA Preserved ==
  ASSUME DistinctPoints, IInv, [Next]_vars
  PROVE  IInv'
<1>1. CASE UNCHANGED vars
  BY <1>1 DEF IInv, TypeOK, OnlyWired, Enters, Keeps, vars
<1>2. CASE Restart
  <2>1. flows' \subseteq flows
    BY <1>2 DEF Restart
  <2> QED
    BY <1>2, <2>1, L2Assumption
       DEF Restart, IInv, TypeOK, OnlyWired, Enters, Keeps, Assured, Wired
<1>3. ASSUME NEW x \in Conn, Step(x) PROVE IInv'
  <2>1. TypeOK /\ OnlyWired
    BY DEF IInv
  <2>2. /\ pc' = [pc EXCEPT ![x] = pc'[x]]
        /\ \A y \in Conn \ {x} : client'[y] = client[y]
        /\ endpoint' \subseteq endpoint \cup ({x} \cap Wired)
        /\ x \in VlanConns => pc'[x] \notin {"add1", "add2", "del1", "del2"}
    BY <1>3, <2>1, ControlStep
  <2>3. \/ UNCHANGED flows
        \/ x \in Wired /\ pc[x] = "add1" /\ flows' = flows \cup {FirstFlow[x]}
        \/ x \in Wired /\ pc[x] = "add2" /\ flows' = flows \cup {SecondFlow[x]}
        \/ x \in Wired /\ pc[x] = "del1" /\ flows' = flows \ {FirstFlow[x]}
        \/ x \in Wired /\ pc[x] = "del2" /\ flows' = flows \ {SecondFlow[x]}
    BY <1>3, FlowStep
  <2>4. OnlyWired'
    <3>1. \A f \in flows' : \E y \in Wired : f \in FlowsOf(y)
      BY <2>1, <2>3, FlowOrder DEF OnlyWired, Wired
    <3>2. \A y \in VlanConns : pc'[y] \notin {"add1", "add2", "del1", "del2"}
      BY <2>1, <2>2, L2Assumption DEF OnlyWired, TypeOK
    <3>3. endpoint' \subseteq Wired
      BY <2>1, <2>2 DEF OnlyWired
    <3> QED BY <3>1, <3>2, <3>3 DEF OnlyWired
  <2>5. TypeOK'
    <3>1. \A f \in flows' : \E y \in Conn : f \in FlowsOf(y)
      BY <2>4 DEF OnlyWired, Wired
    <3>2. flows' \subseteq {ToClient[y] : y \in Conn} \cup {ToEndpoint[y] : y \in Conn}
      BY <3>1 DEF FlowsOf
    <3> QED BY <1>3, <2>1, <2>2, <3>2, ControlStep DEF TypeOK, Wired
  <2>6. ASSUME NEW y \in Wired, y # x
        PROVE  Enters(y)' /\ (y \in Assured => Keeps(y)')
    <3>1. Enters(y) /\ (y \in Assured => Keeps(y)) /\ y \in Conn
      BY DEF IInv, Wired
    <3>2. pc'[y] = pc[y] /\ client'[y] = client[y]
      BY <2>1, <2>2, <2>6, <3>1 DEF TypeOK
    <3>3. \A g \in FlowsOf(y) : g \in flows => g \in flows'
      <4>1. \A g \in FlowsOf(y), f \in FlowsOf(x) : x \in Wired => g # f
        BY <2>6, <3>1, PointsOfFlows DEF DistinctPoints
      <4> QED BY <2>3, <4>1, FlowOrder
    <3>4. y \in endpoint <=> y \in endpoint'
      BY <1>3, <2>6 DEF Step, Request, NextOk, NextFails, AddFirst, AddSecond, AddFails,
                        Refresh, RefreshReturns, Close, NextClosed, Release, Keep,
                        DeleteFirst, DeleteSecond, DeleteFails
    <3>5. Enters(y)'
      BY <3>1, <3>2, <3>4 DEF Enters
    <3>6. y \in Assured => Keeps(y)'
      BY <3>1, <3>2, <3>3, FlowOrder DEF Keeps
    <3> QED BY <3>5, <3>6
  <2>7. ASSUME x \in Wired PROVE Enters(x)'
    <3>1. Enters(x)
      BY <2>7 DEF IInv
    <3> USE DEF Goto, TypeOK, Enters, Wired
    <3>2. CASE Request(x) \/ NextOk(x) \/ NextFails(x) \/ Refresh(x) \/ RefreshReturns(x)
      BY <2>1, <2>7, <3>1, <3>2 DEF Request, NextOk, NextFails, Refresh, RefreshReturns
    <3>3. CASE AddFirst(x) \/ AddSecond(x) \/ AddFails(x)
      BY <2>1, <2>7, <3>1, <3>3 DEF AddFirst, AddSecond, AddFails
    <3>4. CASE Close(x) \/ NextClosed(x) \/ Release(x) \/ Keep(x)
      BY <2>1, <2>7, <3>1, <3>4 DEF Close, NextClosed, Release, Keep
    <3>5. CASE DeleteFirst(x) \/ DeleteSecond(x) \/ DeleteFails(x)
      BY <2>1, <2>7, <3>1, <3>5 DEF DeleteFirst, DeleteSecond, DeleteFails
    <3> QED BY <1>3, <3>2, <3>3, <3>4, <3>5 DEF Step
  <2>8. ASSUME x \in Assured PROVE Keeps(x)'
    <3>1. Keeps(x) /\ x \in Wired /\ x \in Conn /\ Told(x)
      BY <2>8 DEF IInv, Assured, Wired
    <3> USE DEF Goto, TypeOK, Keeps, Wired, Told
    <3>2. CASE Request(x) \/ NextOk(x) \/ NextFails(x) \/ Refresh(x) \/ RefreshReturns(x)
      BY <2>1, <3>1, <3>2 DEF Request, NextOk, NextFails, Refresh, RefreshReturns
    <3>3. CASE AddFirst(x) \/ AddSecond(x)
      <4>1. ASSUME AddFirst(x) PROVE FirstFlow[x] \in flows'
        BY <3>1, <4>1 DEF AddFirst, AddFlow
      <4>2. ASSUME AddSecond(x) PROVE FlowsOf(x) \subseteq flows'
        <5>1. AddFlow(SecondFlow[x]) /\ FirstFlow[x] \in flows
          BY <3>1, <4>2 DEF AddSecond
        <5>2. flows' = flows \cup {SecondFlow[x]}
          BY <2>1, <3>1, <5>1, FlowOrder, AddFlowKeeps
        <5> QED BY <3>1, <5>1, <5>2, FlowOrder
      <4> QED BY <2>1, <3>1, <3>3, <4>1, <4>2 DEF AddFirst, AddSecond
    <3>4. CASE AddFails(x) \/ Close(x) \/ NextClosed(x) \/ Release(x) \/ Keep(x)
      BY <2>1, <3>1, <3>4 DEF AddFails, Close, NextClosed, Release, Keep
    <3>5. CASE DeleteFirst(x) \/ DeleteSecond(x) \/ DeleteFails(x)
      BY <2>1, <3>1, <3>5 DEF DeleteFirst, DeleteSecond, DeleteFails
    <3> QED BY <1>3, <3>2, <3>3, <3>4, <3>5 DEF Step
  <2>9. \A y \in Wired : Enters(y)'
    BY <2>6, <2>7
  <2>10. \A y \in Assured : Keeps(y)'
    BY <2>6, <2>8 DEF Assured
  <2> QED BY <2>4, <2>5, <2>9, <2>10 DEF IInv, Assured
<1> QED BY <1>1, <1>2, <1>3 DEF Next

\* The inductive invariant holds in every reachable state.
THEOREM Invariant == ASSUME DistinctPoints PROVE Spec => []IInv
<1>1. IInv /\ [Next]_vars => IInv'
  BY Preserved
<1> QED BY <1>1, Initially, PTL DEF Spec

\* Every variable keeps its type: the flow table never holds a rule that no
\* connection has written.
THEOREM TypeCorrect == ASSUME DistinctPoints PROVE Spec => []TypeOK
<1>1. IInv => TypeOK
  BY DEF IInv
<1> QED BY <1>1, Invariant, PTL

-----------------------------------------------------------------------------
(* Cross connections.                                                       *)

\* A direction passes packets as soon as its rule is in the table.
LEMMA ReachIs ==
  ASSUME DistinctPoints, IInv, NEW x \in Wired
  PROVE  /\ "toEndpoint" \in Passes(x) <=> ToEndpoint[x] \in flows
         /\ "toClient" \in Passes(x) <=> ToClient[x] \in flows
         /\ Passes(x) \subseteq {"toEndpoint", "toClient"}
<1>1. ToEndpoint[x] \in FlowsOf(x) /\ ToClient[x] \in FlowsOf(x)
  BY DEF FlowsOf
<1>2. /\ ToEndpoint[x].from = ClientPoint[x]
      /\ ToClient[x].from = EndpointPoint[x]
  BY DEF ToEndpoint, ToClient, Wired
<1>3. /\ Matching(ClientPoint[x]) = flows \cap {ToEndpoint[x]}
      /\ Matching(EndpointPoint[x]) = flows \cap {ToClient[x]}
  BY <1>1, <1>2, MatchingIs DEF IInv, OnlyWired
<1> QED BY <1>3 DEF Passes

\* With points that differ, an established connection that is told of its own
\* failures passes packets in both directions, whatever fails and whatever other
\* connections do.
THEOREM CrossConnectedCorrect == ASSUME DistinctPoints PROVE Spec => []CrossConnected
<1>1. IInv => CrossConnected
  <2>1. ASSUME IInv, NEW x \in Established PROVE Reach[x] = {"toEndpoint", "toClient"}
    <3>1. x \in Assured /\ x \in Wired /\ Reach[x] = Passes(x)
      BY DEF Established, Assured, Reach
    <3>2. ToEndpoint[x] \in flows /\ ToClient[x] \in flows
      BY <2>1, <3>1 DEF IInv, Keeps, Established, FlowsOf
    <3> QED BY <2>1, <3>1, <3>2, ReachIs
  <2> QED BY <2>1 DEF CrossConnected
<1> QED BY <1>1, Invariant, PTL

\* Two sets of directions with the same members are one.
LEMMA SameDirections ==
  ASSUME NEW A \in SUBSET {"toEndpoint", "toClient"},
         NEW B \in SUBSET {"toEndpoint", "toClient"},
         "toEndpoint" \in A <=> "toEndpoint" \in B,
         "toClient" \in A <=> "toClient" \in B
  PROVE  A = B
<1>1. A \subseteq B /\ B \subseteq A
  OBVIOUS
<1> QED BY <1>1

\* Every step is one of the abstract element's, or a stutter.
LEMMA StepSimulates ==
  ASSUME DistinctPoints, IInv, IInv', NEW x \in Conn, Step(x)
  PROVE  [Promise!Next]_Promise!vars
<1> DEFINE Dirs == {"toEndpoint", "toClient"}
<1>1. /\ pc' = [pc EXCEPT ![x] = pc'[x]]
      /\ \A y \in Conn \ {x} : client'[y] = client[y]
  BY ControlStep DEF IInv
<1>2. Reach = [y \in Assured |-> Reach[y]] /\ Reach' = [y \in Assured |-> Reach'[y]]
  BY DEF Reach
<1>3. \A y \in Assured :
        /\ "toEndpoint" \in Reach[y] <=> ToEndpoint[y] \in flows
        /\ "toClient" \in Reach[y] <=> ToClient[y] \in flows
        /\ Reach[y] \subseteq Dirs
  BY ReachIs DEF Reach, Assured
<1>4. \A y \in Assured :
        /\ "toEndpoint" \in Reach'[y] <=> ToEndpoint[y] \in flows'
        /\ "toClient" \in Reach'[y] <=> ToClient[y] \in flows'
        /\ Reach'[y] \subseteq Dirs
  <2>1. ASSUME NEW y \in Wired
        PROVE  /\ Matching(ClientPoint[y])' = flows' \cap {ToEndpoint[y]}
               /\ Matching(EndpointPoint[y])' = flows' \cap {ToClient[y]}
    <3>1. \A g \in flows' : \E z \in Wired : g \in FlowsOf(z)
      BY DEF IInv, OnlyWired
    <3>2. ASSUME NEW f \in FlowsOf(y)
          PROVE  {g \in flows' : Covers(g.from, f.from)} = flows' \cap {f}
      <4>1. ASSUME NEW g \in flows', Covers(g.from, f.from) PROVE g = f
        BY <3>1, <4>1, FlowsApart
      <4>2. Covers(f.from, f.from)
        BY PointsOfFlows DEF Wired
      <4> QED BY <4>1, <4>2
    <3>3. /\ ToEndpoint[y] \in FlowsOf(y) /\ ToClient[y] \in FlowsOf(y)
          /\ ToEndpoint[y].from = ClientPoint[y]
          /\ ToClient[y].from = EndpointPoint[y]
      BY DEF FlowsOf, ToEndpoint, ToClient, Wired
    <3> QED BY <3>2, <3>3 DEF Matching
  <2> QED BY <2>1 DEF Reach, Passes, Assured
<1>5. \A y \in Established : Reach[y] = Dirs
  BY <1>3 DEF IInv, Keeps, Established, FlowsOf
<1>6. \A y \in Assured \ {x} : Reach'[y] = Reach[y]
  <2>1. ASSUME NEW y \in Wired, y # x, NEW g \in FlowsOf(y)
        PROVE  g \in flows' <=> g \in flows
    <3>1. \A f \in FlowsOf(x) : x \in Wired => g # f
      BY <2>1, PointsOfFlows DEF DistinctPoints, Wired
    <3> QED BY <3>1, FlowStep, FlowOrder
  <2> QED BY <1>3, <1>4, <2>1, SameDirections DEF FlowsOf, Assured
<1>7. \A y \in Assured \ {x} : y \in Established' <=> y \in Established
  BY <1>1 DEF Established, IInv, TypeOK, Wired, Assured
<1>8. x \notin Assured => UNCHANGED <<Established, Reach>>
  BY <1>2, <1>6, <1>7 DEF Established
<1>9. CASE x \in Assured
  <2>1. Reach' = [Reach EXCEPT ![x] = Reach'[x]]
    BY <1>2, <1>6
  <2>2. ToEndpoint[x] # ToClient[x]
    BY <1>9 DEF DistinctPoints, ToEndpoint, ToClient, Wired, Assured
  <2>3. ASSUME x \in Established', x \notin Established PROVE Promise!Establish(x)
    <3>1. AddSecond(x)
      BY <1>9, <2>3
         DEF Step, Request, NextOk, NextFails, AddFirst, AddFails, Refresh,
             RefreshReturns, Close, NextClosed, Release, Keep, DeleteFirst, DeleteSecond,
             DeleteFails, Goto, Established, IInv, Keeps, TypeOK, Wired, Assured
    <3>2. Reach'[x] = Dirs
      BY <1>4, <1>9, <2>3 DEF IInv, Keeps, Established, FlowsOf
    <3>3. Reach[x] # {}
      BY <1>3, <1>9, <3>1 DEF IInv, Keeps, AddSecond, Goto, FirstFlow, Assured, Wired
    <3>4. Established' = Established \cup {x}
      BY <1>7, <2>3 DEF Established
    <3> QED BY <2>1, <3>2, <3>3, <3>4 DEF Promise!Establish, Promise!Direction
  <2>4. ASSUME x \in Established, x \notin Established' PROVE Promise!Release(x)
    <3>1. pc[x] \notin {"add1", "add2", "del1", "del2"}
      BY <2>4 DEF Established
    <3>2. flows' = flows
      BY <3>1, FlowStep
    <3>3. Reach'[x] = Reach[x]
      BY <1>3, <1>4, <1>9, <3>2, SameDirections
    <3>4. Reach' = Reach
      BY <1>2, <2>1, <3>3
    <3>5. Established' = Established \ {x}
      BY <1>7, <2>4 DEF Established
    <3> QED BY <2>4, <3>4, <3>5 DEF Promise!Release
  <2>5. ASSUME x \in Established, x \in Established' PROVE UNCHANGED <<Established, Reach>>
    <3>1. Reach'[x] = Dirs
      BY <1>4, <2>5, <1>9 DEF IInv, Keeps, Established, FlowsOf
    <3>2. Reach[x] = Dirs
      BY <1>5, <2>5
    <3> QED BY <1>2, <1>7, <2>1, <2>5, <3>1, <3>2 DEF Established
  <2>6. ASSUME x \notin Established, x \notin Established'
        PROVE  \/ UNCHANGED <<Established, Reach>>
               \/ \E d \in Dirs : Promise!Wire(x, d) \/ Promise!Unwire(x, d)
    <3>1. Established' = Established
      BY <1>7, <2>6 DEF Established
    <3>2. CASE flows' = flows
      <4>1. Reach'[x] = Reach[x]
        BY <1>3, <1>4, <1>9, <3>2, SameDirections
      <4> QED BY <1>2, <2>1, <3>1, <4>1
    <3>3. ASSUME NEW f \in FlowsOf(x), flows' = flows \cup {f} \/ flows' = flows \ {f}
          PROVE  \E d \in Dirs : Promise!Wire(x, d) \/ Promise!Unwire(x, d)
      <4> DEFINE d == IF f = ToEndpoint[x] THEN "toEndpoint" ELSE "toClient"
      <4>1. CASE flows' = flows \cup {f}
        <5>1. Reach'[x] = Reach[x] \cup {d}
          BY <1>3, <1>4, <1>9, <2>2, <3>3, <4>1 DEF FlowsOf
        <5> QED BY <2>1, <2>6, <3>1, <5>1 DEF Promise!Wire
      <4>2. CASE flows' = flows \ {f}
        <5>1. Reach'[x] = Reach[x] \ {d}
          BY <1>3, <1>4, <1>9, <2>2, <3>3, <4>2 DEF FlowsOf
        <5> QED BY <2>1, <2>6, <3>1, <5>1 DEF Promise!Unwire
      <4> QED BY <3>3, <4>1, <4>2
    <3> QED BY <3>2, <3>3, FlowStep, FlowOrder
  <2> QED BY <1>9, <2>3, <2>4, <2>5, <2>6
          DEF Promise!Next, Promise!vars, Promise!Direction
<1> QED BY <1>8, <1>9 DEF Promise!vars

LEMMA RestartSimulates ==
  ASSUME DistinctPoints, IInv, IInv', Restart
  PROVE  Promise!Crash
<1>1. Established' = {}
  BY DEF Restart, Established, Wired, Assured
<1>2. CASE flows' = flows
  <2>1. Reach' = Reach
    BY <1>2 DEF Reach, Passes, Matching
  <2> QED BY <1>1, <2>1 DEF Promise!Crash
<1>3. CASE flows' = {}
  <2>1. ASSUME NEW p PROVE Matching(p)' = {}
    BY <1>3 DEF Matching
  <2>2. Reach' = [x \in Assured |-> {}]
    BY <2>1 DEF Reach, Passes
  <2> QED BY <1>1, <2>2 DEF Promise!Crash
<1> QED BY <1>2, <1>3 DEF Restart

\* L2Connect implements the cross connect of CrossConnect: a connection is
\* established only when it passes packets in both directions, and no step
\* changes what another connection passes.
THEOREM ImplementsCorrect == ASSUME DistinctPoints PROVE Spec => ImplementsCrossConnect
<1>1. Init => Promise!Init
  <2>1. ASSUME Init, NEW p PROVE Matching(p) = {}
    BY <2>1 DEF Init, Matching
  <2>2. ASSUME Init PROVE Reach = [x \in Assured |-> {}]
    BY <2>1, <2>2 DEF Reach, Passes
  <2>3. ASSUME Init PROVE Established = {}
    BY <2>3 DEF Init, Established, Assured, Wired
  <2> QED BY <2>2, <2>3 DEF Promise!Init
<1>2. IInv /\ IInv' /\ [Next]_vars => [Promise!Next]_Promise!vars
  <2>1. ASSUME UNCHANGED vars PROVE UNCHANGED Promise!vars
    BY <2>1 DEF vars, Promise!vars, Established, Reach, Passes, Matching
  <2> QED BY <2>1, StepSimulates, RestartSimulates DEF Next, Promise!Next
<1> QED BY <1>1, <1>2, Invariant, PTL DEF Spec, ImplementsCrossConnect, Promise!Spec

-----------------------------------------------------------------------------
(* Nothing is left behind.                                                  *)

\* The hypothesis that no deletion fails.
DeletesAll == \A x \in Conn : Faults[x] \cap {"delete", "clean"} = {}

\* What a connection may then still have in the table: nothing before it adds and
\* after it deletes, and nothing while it has no endpoint entry.
Cleans(x) ==
  /\ pc[x] \in {"idle", "next", "release"} => FlowsOf(x) \cap flows = {}
  /\ x \notin endpoint => FlowsOf(x) \cap flows = {}
  /\ pc[x] = "del2" => FirstFlow[x] \notin flows

CleanInv == \A x \in Wired : Cleans(x)

LEMMA CleanPreserved ==
  ASSUME DistinctPoints, DeletesAll, IInv, CleanInv, [Next]_vars
  PROVE  CleanInv'
<1>1. CASE UNCHANGED vars
  BY <1>1 DEF vars, CleanInv, Cleans
<1>2. CASE Restart
  <2>1. flows' = {}
    BY <1>2 DEF Restart, DeletesAll
  <2> QED BY <1>2, <2>1 DEF Restart, CleanInv, Cleans, Wired
<1>3. ASSUME NEW x \in Conn, Step(x) PROVE CleanInv'
  <2>1. pc' = [pc EXCEPT ![x] = pc'[x]]
    BY <1>3, ControlStep DEF IInv
  <2>2. \A y \in Wired \ {x} : \A g \in FlowsOf(y) : g \in flows' <=> g \in flows
    <3>1. ASSUME NEW y \in Wired, y # x, NEW g \in FlowsOf(y), NEW f \in FlowsOf(x), x \in Wired
          PROVE  g # f
      BY <3>1, PointsOfFlows DEF DistinctPoints, Wired
    <3> QED BY <1>3, <3>1, FlowStep, FlowOrder
  <2>3. \A y \in Wired \ {x} : y \in endpoint' <=> y \in endpoint
    BY <1>3 DEF Step, Request, NextOk, NextFails, AddFirst, AddSecond, AddFails,
                Refresh, RefreshReturns, Close, NextClosed, Release, Keep,
                DeleteFirst, DeleteSecond, DeleteFails
  <2>4. \A y \in Wired \ {x} : Cleans(y)'
    BY <2>1, <2>2, <2>3, FlowOrder DEF CleanInv, Cleans, IInv, TypeOK, Wired
  <2>5. ASSUME x \in Wired PROVE Cleans(x)'
    <3> USE DEF Goto, Cleans, Enters, IInv, TypeOK
    <3>1. Cleans(x) /\ Enters(x) /\ FlowsOf(x) = {FirstFlow[x], SecondFlow[x]}
      BY <2>5, FlowOrder DEF CleanInv
    <3>2. CASE Request(x) \/ NextOk(x) \/ NextFails(x)
      BY <2>5, <3>1, <3>2 DEF Request, NextOk, NextFails, Wired
    <3>3. CASE Refresh(x) \/ RefreshReturns(x) \/ Close(x)
      BY <2>5, <3>1, <3>3 DEF Refresh, RefreshReturns, Close
    <3>4. CASE AddFirst(x) \/ AddSecond(x) \/ AddFails(x)
      BY <2>5, <3>1, <3>4 DEF AddFirst, AddSecond, AddFails
    <3>5. CASE NextClosed(x) \/ Release(x) \/ Keep(x)
      BY <2>5, <3>1, <3>5 DEF NextClosed, Release, Keep
    <3>6. CASE DeleteFirst(x)
      <4>1. flows' = flows \ {FirstFlow[x]}
        BY <2>5, <3>6, FlowOrder, DelFlowsKeeps DEF DeleteFirst
      <4> QED BY <2>5, <3>1, <3>6, <4>1 DEF DeleteFirst
    <3>7. CASE DeleteSecond(x)
      <4>1. flows' = flows \ {SecondFlow[x]}
        BY <2>5, <3>7, FlowOrder, DelFlowsKeeps DEF DeleteSecond
      <4> QED BY <2>5, <3>1, <3>7, <4>1 DEF DeleteSecond
    <3>8. ~DeleteFails(x)
      BY DEF DeleteFails, DeletesAll
    <3> QED BY <1>3, <3>2, <3>3, <3>4, <3>5, <3>6, <3>7, <3>8 DEF Step
  <2> QED BY <2>4, <2>5 DEF CleanInv
<1> QED BY <1>1, <1>2, <1>3 DEF Next

\* What a connection may still have in the table, at every moment.
THEOREM CleanInvariant ==
  ASSUME DistinctPoints, DeletesAll
  PROVE  Spec => []CleanInv
<1>1. Init => CleanInv
  BY DEF Init, CleanInv, Cleans, Wired
<1>2. IInv /\ CleanInv /\ [Next]_vars => CleanInv'
  BY CleanPreserved
<1> QED BY <1>1, <1>2, Invariant, PTL DEF Spec

\* When del-flows does not fail, a connection that is closed, or whose Request
\* has failed, leaves no rule at its points, whatever add-flow did.
THEOREM NoFlowLeftCorrect ==
  ASSUME DistinctPoints, DeletesAll
  PROVE  Spec => []NoFlowLeft
<1>1. IInv /\ CleanInv => NoFlowLeft
  <2>1. ASSUME IInv, CleanInv, NEW x \in Wired, pc[x] = "idle",
               NEW f \in flows, f.from \in Points(x)
        PROVE  FALSE
    <3>1. PICK y \in Wired : f \in FlowsOf(y)
      BY <2>1 DEF IInv, OnlyWired
    <3>2. y = x
      BY <2>1, <3>1, PointsOfFlows DEF DistinctPoints, Wired, Covers
    <3> QED BY <2>1, <3>1, <3>2 DEF CleanInv, Cleans
  <2> QED BY <2>1 DEF NoFlowLeft
<1> QED BY <1>1, Invariant, CleanInvariant, PTL

-----------------------------------------------------------------------------
(* When points differ.                                                     *)

\* The point that the rules of a connection match on one of its sides.
PointAt(s) == IF s[1] = "client" THEN ClientPoint[s[2]] ELSE EndpointPoint[s[2]]

\* Two sides whose ports differ, or whose tags tell them apart, have points that
\* cover neither the other.
LEMMA SidesApart ==
  ASSUME PortsApart, NEW s \in Sides, NEW t \in Sides, s # t
  PROVE  ~Covers(PointAt(s), PointAt(t))
<1> DEFINE i == InfoAt(s)
           j == InfoAt(t)
<1>1. s[1] \in {"client", "endpoint"} /\ t[1] \in {"client", "endpoint"}
      /\ s[2] \in Wired /\ t[2] \in Wired
  BY DEF Sides
<1>2. PointAt(s).port = i.port /\ PointAt(t).port = j.port
  BY <1>1 DEF PointAt, InfoAt, ClientPoint, EndpointPoint, LocalPoint, TunnelPoint, Wired
<1>3. CASE i.port # j.port
  BY <1>2, <1>3 DEF Covers
<1>4. CASE i.port = j.port /\ i.tunnel /\ j.tunnel /\ i.vni # j.vni
  <2>1. PointAt(s).tag = <<"vni", i.vni>> /\ PointAt(t).tag = <<"vni", j.vni>>
    BY <1>1, <1>4
       DEF PortsApart, PointAt, InfoAt, ClientPoint, EndpointPoint, LocalPoint, TunnelPoint, Wired
  <2> QED BY <1>4, <2>1 DEF Covers, Any
<1>5. CASE /\ i.port = j.port /\ ~i.tunnel /\ ~j.tunnel
           /\ s[1] = "endpoint" /\ t[1] = "endpoint"
           /\ i.vlan > 0 /\ j.vlan > 0 /\ i.vlan # j.vlan
  <2>1. PointAt(s).tag = <<"vlan", i.vlan>> /\ PointAt(t).tag = <<"vlan", j.vlan>>
    BY <1>1, <1>5 DEF PointAt, InfoAt, EndpointPoint, LocalPoint, Wired
  <2> QED BY <1>5, <2>1 DEF Covers, Any
<1> QED BY <1>3, <1>4, <1>5 DEF PortsApart

\* What the connections' ports are decides that no rule takes the traffic of
\* another connection (createLocalCrossConnect, createRemoteCrossConnect).
THEOREM PortsApartSuffice ==
  ASSUME PortsApart
  PROVE  DistinctPoints
<1>1. ASSUME NEW x \in Wired
      PROVE  /\ <<"client", x>> \in Sides /\ <<"endpoint", x>> \in Sides
             /\ PointAt(<<"client", x>>) = ClientPoint[x]
             /\ PointAt(<<"endpoint", x>>) = EndpointPoint[x]
  BY DEF Sides, PointAt
<1>2. ASSUME NEW x \in Wired PROVE ClientPoint[x].port # EndpointPoint[x].port
  <2>1. <<"client", x>> # <<"endpoint", x>>
    OBVIOUS
  <2>2. /\ InfoAt(<<"client", x>>) = ClientInfo[x]
        /\ InfoAt(<<"endpoint", x>>) = EndpointInfo[x]
    BY DEF InfoAt
  <2>3. ClientInfo[x].port # EndpointInfo[x].port
    BY <1>1, <2>1, <2>2 DEF PortsApart
  <2> QED BY <2>3 DEF ClientPoint, EndpointPoint, LocalPoint, TunnelPoint, Wired
<1>3. ASSUME NEW x \in Wired, NEW y \in Wired, x # y,
             NEW p \in Points(x), NEW q \in Points(y)
      PROVE  ~Covers(p, q)
  <2>1. PICK s \in Sides : s[2] = x /\ PointAt(s) = p
    BY <1>1 DEF Points
  <2>2. PICK t \in Sides : t[2] = y /\ PointAt(t) = q
    BY <1>1 DEF Points
  <2> QED BY <1>3, <2>1, <2>2, SidesApart
<1> QED BY <1>2, <1>3 DEF DistinctPoints
=============================================================================
