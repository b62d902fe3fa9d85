-------------------------- MODULE ForwarderProofs --------------------------
(***************************************************************************)
(* Proofs about Forwarder.  Every run of the chain is a run of each of its  *)
(* components, so that what is proved of them holds here; what the chain    *)
(* adds is the order in which its elements establish and take down.         *)
(***************************************************************************)
EXTENDS Forwarder, FiniteSetTheorems, TLAPS

LEMMA EndsDiffer ==
  ASSUME NEW x \in Conn, NEW y
  PROVE  /\ S(x) \in Ends /\ C(x) \in Ends /\ C(x) \in ClientEnds
         /\ S(x) # C(y) /\ S(x) \notin ClientEnds
         /\ S(x) = S(y) => x = y
         /\ C(x) = C(y) => x = y
BY DEF S, C, Ends, ClientEnds

\* A step of an end is one of its component, and leaves the other alone.
StepOf(e) ==
  \/ e \in KernelEnds /\ K!Step(e) /\ UNCHANGED vxlanVars
  \/ e \notin KernelEnds /\ V!Step(e) /\ UNCHANGED kernelVars

LEMMA EndSteps ==
  ASSUME NEW e \in Ends
  PROVE  Begins(e) \/ SetsUp(e) \/ SetupFails(e) \/ GoesOn(e) \/ GivesUp(e)
         \/ Undoes(e) \/ Refreshes(e) \/ Refreshed(e) \/ Closes(e)
         \/ ClosesAgain(e) \/ Recalls(e) \/ Kept(e)
         \/ NextIsClosed(e) \/ Resets(e) => StepOf(e)
BY DEF Begins, SetsUp, SetupFails, GoesOn, GivesUp, Undoes, Refreshes, Refreshed,
       Closes, ClosesAgain, Recalls, Kept, NextIsClosed, Resets, OfEnd, StepOf,
       K!Step, K!Locking,
       K!NextReturns, V!Step

LEMMA UnloadSteps == ASSUME NEW e, Unloads(e) PROVE StepOf(e) \/ UNCHANGED endVars
BY DEF Unloads, StepOf, K!Step

\* A step of a handler moves one end or none, and the cross connect or not.
LEMMA ChainSteps ==
  ASSUME NEW x \in Conn, Arrives(x) \/ Refresh(x) \/ Close(x) \/ Progress(x)
  PROVE  /\ StepOf(S(x)) \/ StepOf(C(x)) \/ UNCHANGED endVars
         /\ L!Step(x) \/ UNCHANGED flowVars
<1> USE EndsDiffer, EndSteps, UnloadSteps
<1>1. CASE Arrives(x) \/ Refresh(x) \/ Close(x)
  BY <1>1 DEF Arrives, Refresh, Close, L!Step
<1>2. CASE ServerSetup(x) \/ CallsClientChain(x) \/ Succeeds(x) \/ Fails(x)
           \/ ServerUndo(x) \/ RefreshReturns(x) \/ ServerReset(x)
  BY <1>2 DEF ServerSetup, CallsClientChain, Succeeds, Fails, ServerUndo,
              RefreshReturns, ServerReset, L!Step
<1>3. CASE ClientBegins(x) \/ ClientSetup(x) \/ ClientFails(x) \/ CrossConnects(x)
           \/ ChainCloses(x) \/ ClientCloses(x)
  BY <1>3 DEF ClientBegins, ClientSetup, ClientFails, CrossConnects, ChainCloses,
              ClientCloses, L!Step
<1>4. CASE ClientReset(x) \/ RecallReturns(x) \/ FailedUnloads(x) \/ ClientClosed(x)
           \/ Disconnects(x)
  BY <1>4 DEF ClientReset, RecallReturns, FailedUnloads, ClientClosed, Disconnects,
              L!Step
<1> QED BY <1>1, <1>2, <1>3, <1>4 DEF Progress

LEMMA KernelByNext == [Next]_vars => [K!Next]_(K!vars)
<1> USE DEF K!vars, K!maps, K!host, kernelVars, vxlanVars, endVars
<1>1. ASSUME NEW e, StepOf(e) PROVE [K!Next]_(K!vars)
  BY <1>1 DEF StepOf, K!Next
<1>2. CASE UNCHANGED endVars
  BY <1>2
<1>3. ASSUME NEW p \in Mortal, LinkGone(p) PROVE [K!Next]_(K!vars)
  BY <1>3 DEF LinkGone, K!Next
<1>4. CASE Restart
  BY <1>4 DEF Restart, K!Next
<1> QED BY <1>1, <1>2, <1>3, <1>4, ChainSteps DEF Next, vars

LEMMA VxlanByNext == [Next]_vars => [V!Next]_(V!vars)
<1> USE DEF V!vars, kernelVars, vxlanVars, endVars
<1>1. ASSUME NEW e \in Ends, StepOf(e) PROVE [V!Next]_(V!vars)
  BY <1>1 DEF StepOf, V!Next
<1>2. CASE UNCHANGED endVars
  BY <1>2
<1>3. ASSUME NEW p \in Mortal, LinkGone(p) PROVE [V!Next]_(V!vars)
  BY <1>3 DEF LinkGone
<1>4. CASE Restart
  BY <1>4 DEF Restart, V!Next
<1> QED BY <1>1, <1>2, <1>3, <1>4, ChainSteps, EndsDiffer DEF Next, vars

LEMMA FlowsByNext == [Next]_vars => [L!Next]_(L!vars)
<1> USE DEF L!vars, flowVars
<1>1. ASSUME NEW x \in Conn, L!Step(x) PROVE [L!Next]_(L!vars)
  BY <1>1 DEF L!Next
<1>2. CASE UNCHANGED flowVars
  BY <1>2
<1>3. ASSUME NEW p \in Mortal, LinkGone(p) PROVE [L!Next]_(L!vars)
  BY <1>3 DEF LinkGone
<1>4. CASE Restart
  BY <1>4 DEF Restart, L!Next
<1> QED BY <1>1, <1>2, <1>3, <1>4, ChainSteps DEF Next, vars

\* Whatever the connections of the forwarder do and whatever fails, each of its
\* components behaves as its own module says.
THEOREM ComponentRuns == Spec => K!Spec /\ V!Spec /\ L!Spec
<1>1. Init => K!Init /\ V!Init /\ L!Init
  BY DEF Init
<1> QED BY <1>1, KernelByNext, VxlanByNext, FlowsByNext, PTL
        DEF Spec, K!Spec, V!Spec, L!Spec

-----------------------------------------------------------------------------
(* The order of the chain.                                                 *)

\* A connection that is served is marked as cross connected, unless a failed refresh
\* has closed it; one that is being cross connected has its client end up, and one
\* that is cross connected too, unless a failed refresh has closed that; the server end
\* waits for all of it.
Ordered(x) ==
  /\ Serving(x) /\ "refresh" \notin FlowFaults[x] => lpc[x] \in {"up", "refresh"}
  /\ lpc[x] \in {"up", "refresh"} => client[x] = "connected"
  /\ lpc[x] \in {"add1", "add2"} => Phase(C(x)) = "up"
  /\ lpc[x] = "up" => Phase(C(x)) = "up" \/ (MayRecall(x) /\ Phase(C(x)) = "kept")
  /\ lpc[x] = "refresh" => Phase(C(x)) = "up" \/ MayRecall(x)
  /\ lpc[x] \in {"idle", "release"} \/ Phase(S(x)) \in Waiting

\* What the components guarantee and the order relies on.
Types == K!TypeOK /\ V!TypeOK /\ L!TypeOK

Guaranteed == Types /\ L!IInv

OrderInv == Guaranteed /\ \A x \in Conn : Ordered(x)

\* A step of one end leaves the phases of the others.
LEMMA OthersStay ==
  ASSUME Types, NEW e, StepOf(e), NEW d \in Ends \ {e}
  PROVE  Phase(d)' = Phase(d)
<1>1. ASSUME NEW b \in KernelEnds \ {e}, K!Step(e) PROVE kpc'[b] = kpc[b]
  BY <1>1 DEF Types, K!TypeOK, K!Step, K!Request, K!Refresh, K!Close,
              K!RefreshReturns, K!NextClosed, K!Unload, K!Rollback, K!NextReturns,
              K!NextOk, K!NextFails, K!VlanBreakout, K!VlanBreakoutFails, K!Locking,
              K!SetupOk, K!SetupFails, K!SetupFailsSmartVF, K!Undo, K!CloseReset,
              K!RefreshRecalls, K!Keep, K!CloseAgain, K!ResetAgain, K!Goto
<1>2. ASSUME NEW b \in Ends \ (KernelEnds \cup {e}), V!Step(e) PROVE vpc'[b] = vpc[b]
  BY <1>2 DEF Types, V!TypeOK, V!Step, V!Request, V!Refresh, V!Close, V!AddOk,
              V!AddFails, V!NextOk, V!NextFails, V!Undo, V!RefreshReturns,
              V!NextClosed, V!CloseRemove, V!Recall, V!RecallRemove, V!Goto
<1> QED BY <1>1, <1>2 DEF StepOf, Phase, kernelVars, vxlanVars

\* A step of one connection leaves the others where l2ovsconnect has them.
LEMMA OtherFlowsStay ==
  ASSUME Types, NEW x, L!Step(x), NEW y \in Conn \ {x}
  PROVE  /\ lpc'[y] = lpc[y] /\ client'[y] = client[y]
         /\ y \in endpoint' <=> y \in endpoint
BY DEF Types, L!TypeOK, L!Step, L!Request, L!NextOk, L!NextFails, L!Refresh,
       L!RefreshReturns, L!AddFirst, L!AddSecond, L!AddFails, L!Close, L!Keep,
       L!NextClosed, L!Release, L!DeleteFirst, L!DeleteSecond, L!DeleteFails, L!Goto

\* A server end is up only when its next element has returned.
LEMMA ServerComesUp ==
  ASSUME Types, NEW x \in Conn,
         Begins(S(x)) \/ SetsUp(S(x)) \/ SetupFails(S(x)) \/ GivesUp(S(x))
         \/ Undoes(S(x)) \/ Closes(S(x)) \/ NextIsClosed(S(x)) \/ Resets(S(x))
  PROVE  ~Serving(x)'
<1> DEFINE e == S(x)
<1>0. e \in Ends /\ e \notin ClientEnds
  BY EndsDiffer
<1>1. ASSUME e \in KernelEnds PROVE kpc'[e] \notin {"up", "refresh"}
  BY <1>0, <1>1 DEF Types, K!TypeOK, Begins, SetsUp, SetupFails, GivesUp, Undoes,
     Closes, NextIsClosed, Resets, OfEnd, K!Request, K!SetupOk, K!SetupFails,
     K!SetupFailsSmartVF, K!NextFails, K!Undo, K!Rollback, K!Close, K!NextClosed,
     K!CloseReset, K!ResetAgain, K!Goto
<1>2. ASSUME e \notin KernelEnds PROVE vpc'[e] \notin {"up", "refresh"}
  BY <1>0, <1>2 DEF Types, V!TypeOK, Begins, SetsUp, SetupFails, GivesUp, Undoes,
     Closes, NextIsClosed, Resets, OfEnd, V!Request, V!AddOk, V!AddFails,
     V!NextFails, V!Undo, V!Close, V!NextClosed, V!CloseRemove, V!Goto
<1> QED BY <1>1, <1>2 DEF Serving, Phase

\* A client end that is up, or kept, is left so by all but Close and a refresh.
LEMMA ClientStaysUp ==
  ASSUME NEW e, Phase(e) \in {"up", "kept"},
         Begins(e) \/ SetsUp(e) \/ SetupFails(e) \/ GoesOn(e) \/ GivesUp(e)
         \/ NextIsClosed(e) \/ Resets(e)
  PROVE  FALSE
BY DEF Phase, Begins, SetsUp, SetupFails, GoesOn, GivesUp, NextIsClosed, Resets,
       OfEnd, K!ResetAgain, K!Request, K!SetupOk, K!SetupFails, K!SetupFailsSmartVF, K!NextOk,
       K!NextFails, K!NextClosed, K!CloseReset, K!Goto, V!Request, V!AddOk,
       V!AddFails, V!NextOk, V!NextFails, V!NextClosed, V!CloseRemove, V!Goto

\* Where a client end is that a failed refresh has closed, before and after its error
\* is returned.
LEMMA KeptGoes ==
  ASSUME Types, NEW e \in Ends, Kept(e)
  PROVE  Phase(e) \in {"unload", "recall"} /\ Phase(e)' = "kept"
BY DEF Types, K!TypeOK, V!TypeOK, Kept, OfEnd, Phase, K!Keep, V!RecallRemove, K!Goto, V!Goto

\* Where a client end is that sets up its port.
LEMMA ClientSetsUp ==
  ASSUME NEW x \in Conn, ClientSetup(x)
  PROVE  Phase(C(x)) \in {"next", "setup", "add"}
BY DEF ClientSetup, GoesOn, SetsUp, SetupFails, OfEnd, Phase, K!NextOk, K!SetupOk,
       K!SetupFails, K!SetupFailsSmartVF, V!NextOk, V!AddOk, V!AddFails, K!Goto, V!Goto

\* What a server end sets up or undoes it does while nothing waits for it.
LEMMA ServerWaits ==
  ASSUME Types, NEW x \in Conn
  PROVE  /\ SetsUp(S(x)) \/ SetupFails(S(x)) \/ Undoes(S(x))
              => Phase(S(x)) \notin Waiting
         /\ GoesOn(S(x)) \/ Refreshes(S(x)) \/ Refreshed(S(x)) \/ Closes(S(x))
              => Phase(S(x))' \in Waiting
<1> DEFINE e == S(x)
<1>0. e \in Ends /\ e \notin ClientEnds
  BY EndsDiffer
<1> USE <1>0 DEF Types, Waiting, Phase, OfEnd
<1>1. SetsUp(e) \/ SetupFails(e) \/ Undoes(e) => Phase(e) \notin Waiting
  BY DEF SetsUp, SetupFails, Undoes, K!SetupOk, K!SetupFails, K!SetupFailsSmartVF,
         K!Undo, K!Rollback, K!Goto, V!AddOk, V!AddFails, V!Undo, V!Goto
<1>2. ASSUME e \in KernelEnds
      PROVE  GoesOn(e) \/ Refreshes(e) \/ Refreshed(e) \/ Closes(e) => kpc'[e] \in Waiting
  BY <1>2 DEF K!TypeOK, GoesOn, Refreshes, Refreshed, Closes, K!NextOk, K!Refresh,
              K!RefreshReturns, K!Close, K!Goto
<1>3. ASSUME e \notin KernelEnds
      PROVE  GoesOn(e) \/ Refreshes(e) \/ Refreshed(e) \/ Closes(e) => vpc'[e] \in Waiting
  BY <1>3 DEF V!TypeOK, GoesOn, Refreshes, Refreshed, Closes, V!NextOk, V!Refresh,
              V!RefreshReturns, V!Close, V!Goto
<1> QED BY <1>1, <1>2, <1>3

\* The steps of a connection keep its own order.
LEMMA OrderedOwn ==
  ASSUME Guaranteed, NEW x \in Conn, Ordered(x),
         Arrives(x) \/ Refresh(x) \/ Close(x) \/ Progress(x)
  PROVE  Ordered(x)'
<1> USE DEF Guaranteed, Types, Ordered
<1>0. /\ S(x) \in Ends /\ C(x) \in Ends /\ S(x) # C(x)
      /\ lpc \in [Conn -> {"idle", "next", "add1", "add2", "up", "refresh",
                          "closing", "del1", "del2", "release"}]
      /\ client \in [Conn -> {"none", "stored", "connected"}]
  BY EndsDiffer DEF L!TypeOK
<1>1. ASSUME StepOf(S(x)) PROVE Phase(C(x))' = Phase(C(x))
  BY <1>0, <1>1, OthersStay
<1>2. ASSUME StepOf(C(x))
      PROVE  Serving(x)' = Serving(x) /\ Phase(S(x))' = Phase(S(x))
  BY <1>0, <1>2, OthersStay DEF Serving
<1>3. ASSUME UNCHANGED endVars
      PROVE  Serving(x)' = Serving(x) /\ Phase(C(x))' = Phase(C(x))
             /\ Phase(S(x))' = Phase(S(x))
  BY <1>3 DEF Serving, Phase, endVars, kernelVars, vxlanVars
<1>R. MayRecall(x)' = MayRecall(x)
  BY DEF MayRecall
<1>4. CASE Arrives(x) \/ ServerSetup(x) \/ ServerUndo(x) \/ Close(x)
  <2>1. /\ StepOf(S(x)) /\ ~Serving(x)' /\ lpc' = lpc /\ client' = client
    BY <1>0, <1>4, EndSteps, ServerComesUp
       DEF Arrives, ServerSetup, ServerUndo, Close, flowVars
  <2>2. lpc[x] \in {"idle", "release"} \/ Phase(S(x))' \in Waiting
    BY <1>4, ServerWaits DEF Arrives, ServerSetup, ServerUndo, Close
  <2> QED BY <1>1, <1>R, <2>1, <2>2
<1>5. CASE Fails(x) \/ ServerReset(x)
  <2>1. /\ StepOf(S(x)) /\ ~Serving(x)'
    BY <1>0, <1>5, EndSteps, ServerComesUp DEF Fails, ServerReset
  <2>2. (lpc' = lpc /\ lpc[x] \in {"idle", "release"}) \/ lpc'[x] = "idle"
    BY <1>0, <1>5 DEF Fails, ServerReset, L!Release, L!Goto, flowVars
  <2> QED BY <1>1, <2>1, <2>2
<1>6. CASE Succeeds(x)
  <2>1. StepOf(S(x)) /\ lpc[x] = "up" /\ lpc' = lpc /\ client' = client
    BY <1>0, <1>6, EndSteps DEF Succeeds, flowVars
  <2>2. Phase(S(x))' \in Waiting
    BY <1>6, ServerWaits DEF Succeeds
  <2> QED BY <1>1, <1>R, <2>1, <2>2
<1>7. CASE Refresh(x) \/ RefreshReturns(x)
  <2>1. StepOf(S(x)) /\ Serving(x) /\ client' = client
    BY <1>0, <1>7, EndSteps
       DEF Refresh, RefreshReturns, Refreshes, Refreshed, OfEnd, L!Refresh, L!Keep,
           L!Goto, Serving, Phase, K!Refresh, K!RefreshReturns, V!Refresh,
           V!RefreshReturns, K!Goto, V!Goto, flowVars
  <2>2. Phase(S(x))' \in Waiting
    BY <1>7, ServerWaits DEF Refresh, RefreshReturns
  <2>3. \/ lpc[x] = "up" /\ lpc'[x] = "refresh"
        \/ lpc[x] = "release" /\ lpc'[x] = "idle"
        \/ lpc[x] \in {"up", "idle"} /\ lpc'[x] = lpc[x]
    BY <1>0, <1>7 DEF Refresh, RefreshReturns, L!Refresh, L!Keep, L!Goto, flowVars
  <2> QED BY <1>1, <1>R, <2>1, <2>2, <2>3
<1>8. CASE CallsClientChain(x) \/ ChainCloses(x)
  <2>1. /\ UNCHANGED endVars /\ lpc'[x] \in {"next", "closing"}
        /\ Phase(S(x)) \in Waiting
    BY <1>0, <1>8 DEF CallsClientChain, ChainCloses, L!Request, L!Close, L!Goto, Waiting
  <2>2. Serving(x) => "refresh" \in FlowFaults[x]
    BY <1>0, <1>8 DEF CallsClientChain, ChainCloses, L!Request, L!Goto, Serving
  <2> QED BY <1>3, <2>1, <2>2
<1>9. CASE ClientBegins(x) \/ ClientSetup(x) \/ ClientCloses(x)
  <2>1. StepOf(C(x)) /\ lpc' = lpc /\ client' = client
    BY <1>0, <1>9, EndSteps DEF ClientBegins, ClientSetup, ClientCloses, flowVars
  <2>2. \/ lpc[x] \notin {"add1", "add2", "up", "refresh"}
        \/ lpc[x] = "refresh" /\ MayRecall(x)
    <3>1. CASE ClientSetup(x)
      BY <3>1, ClientSetsUp
    <3>2. CASE ClientBegins(x) \/ ClientCloses(x)
      BY <3>2 DEF ClientBegins, ClientCloses
    <3> QED BY <1>9, <3>1, <3>2
  <2> QED BY <1>2, <1>R, <2>1, <2>2
<1>10. CASE ClientFails(x) \/ ClientReset(x) \/ FailedUnloads(x)
  <2>1. StepOf(C(x)) \/ UNCHANGED endVars
    BY <1>0, <1>10, EndSteps, UnloadSteps DEF ClientFails, ClientReset, FailedUnloads
  <2>2. CASE ClientReset(x) /\ lpc' = lpc /\ client' = client
    <3>1. Phase(C(x)) \notin {"up", "kept"}
      BY <2>2, ClientStaysUp DEF ClientReset
    <3> QED BY <1>2, <1>3, <1>R, <2>1, <2>2, <3>1
  <2>3. CASE L!NextFails(x)
    <3>1. lpc[x] = "next" /\ lpc'[x] = "release"
      BY <1>0, <2>3 DEF L!NextFails, L!Goto
    <3> QED BY <1>2, <1>3, <2>1, <3>1
  <2> QED BY <1>10, <2>2, <2>3 DEF ClientFails, ClientReset, FailedUnloads, flowVars
<1>11. CASE CrossConnects(x)
  <2>1. UNCHANGED endVars
    BY <1>11 DEF CrossConnects
  <2>2. /\ lpc[x] \in {"next", "add1", "add2", "refresh"}
        /\ lpc[x] = "refresh" => lpc'[x] = "up" /\ Phase(C(x)) \in {"up", "kept"}
        /\ lpc[x] # "refresh" => Phase(C(x)) = "up"
        /\ lpc'[x] \in {"add1", "add2", "up", "closing"}
        /\ lpc'[x] = "up" => client'[x] = "connected"
    <3>1. CASE Phase(C(x)) = "up" /\ L!NextOk(x)
      BY <1>0, <3>1 DEF L!NextOk, L!Goto
    <3>2. CASE Phase(C(x)) \in {"up", "kept"} /\ L!RefreshReturns(x)
      BY <1>0, <3>2 DEF L!RefreshReturns, L!Goto
    <3>3. CASE L!AddFirst(x) \/ L!AddSecond(x) \/ L!AddFails(x)
      BY <1>0, <3>3 DEF L!AddFirst, L!AddSecond, L!AddFails, L!Goto
    <3> QED BY <1>11, <3>1, <3>2, <3>3 DEF CrossConnects
  <2> QED BY <1>3, <1>R, <2>1, <2>2
<1>12. CASE ClientClosed(x) \/ Disconnects(x)
  <2>1. StepOf(C(x)) \/ UNCHANGED endVars
    BY <1>0, <1>12, UnloadSteps DEF ClientClosed, Disconnects
  <2>2. /\ lpc[x] \in {"closing", "del1", "del2"}
        /\ lpc'[x] \in {"del1", "del2", "release"}
    BY <1>0, <1>12 DEF ClientClosed, Disconnects, L!NextClosed, L!DeleteFirst,
                       L!DeleteSecond, L!DeleteFails, L!Goto
  <2> QED BY <1>2, <1>3, <2>1, <2>2
<1>13. CASE RecallReturns(x)
  <2>1. StepOf(C(x))
    BY <1>0, <1>13, EndSteps DEF RecallReturns
  <2>2. lpc[x] = "refresh" /\ lpc'[x] = "up" /\ client' = client
    BY <1>0, <1>13 DEF RecallReturns, L!RefreshReturns, L!Goto
  <2>3. Phase(C(x)) # "up" /\ Phase(C(x))' = "kept"
    BY <1>0, <1>13, KeptGoes DEF RecallReturns
  <2> QED BY <1>2, <1>R, <2>1, <2>2, <2>3
<1> QED BY <1>4, <1>5, <1>6, <1>7, <1>8, <1>9, <1>10, <1>11, <1>12, <1>13 DEF Progress

\* They leave the order of the others.
LEMMA OrderedOthers ==
  ASSUME Guaranteed, NEW x \in Conn, NEW y \in Conn \ {x}, Ordered(y),
         Arrives(x) \/ Refresh(x) \/ Close(x) \/ Progress(x)
  PROVE  Ordered(y)'
<1>1. lpc'[y] = lpc[y] /\ client'[y] = client[y]
  BY ChainSteps, OtherFlowsStay DEF flowVars, Guaranteed
<1>2. ASSUME NEW e, StepOf(e), e \in {S(x), C(x)}
      PROVE  Phase(S(y))' = Phase(S(y)) /\ Phase(C(y))' = Phase(C(y))
  BY <1>2, OthersStay, EndsDiffer DEF Guaranteed
<1>3. ASSUME UNCHANGED endVars
      PROVE  Phase(S(y))' = Phase(S(y)) /\ Phase(C(y))' = Phase(C(y))
  BY <1>3 DEF Phase, endVars, kernelVars, vxlanVars
<1> QED BY <1>1, <1>2, <1>3, ChainSteps DEF Ordered, Serving, MayRecall

LEMMA OrderStep ==
  ASSUME Guaranteed, \A x \in Conn : Ordered(x), [Next]_vars
  PROVE  \A x \in Conn : Ordered(x)'
<1>1. ASSUME NEW x \in Conn, Arrives(x) \/ Refresh(x) \/ Close(x) \/ Progress(x),
             NEW y \in Conn
      PROVE  Ordered(y)'
  BY <1>1, OrderedOwn, OrderedOthers
<1>2. ASSUME NEW y \in Conn, UNCHANGED <<kpc, vpc, lpc, client>> PROVE Ordered(y)'
  BY <1>2 DEF Ordered, Serving, Phase, MayRecall
<1>3. CASE \E p \in Mortal : LinkGone(p)
  BY <1>2, <1>3 DEF LinkGone, K!LinkGone, vxlanVars, flowVars
<1>4. CASE Restart
  BY <1>4, EndsDiffer DEF Restart, K!Restart, V!Restart, L!Restart, Ordered, Serving, Phase
<1>5. CASE UNCHANGED vars
  BY <1>2, <1>5 DEF vars, endVars, kernelVars, vxlanVars, flowVars
<1> QED BY <1>1, <1>3, <1>4, <1>5 DEF Next

LEMMA OrderInit == Init => \A x \in Conn : Ordered(x)
BY EndsDiffer DEF Init, K!Init, V!Init, L!Init, Ordered, Serving, Phase

\* The order of the chain, at every moment.
THEOREM OrderInvariant ==
  ASSUME L!DistinctPoints
  PROVE  Spec => []OrderInv
<1>1. Spec => []Guaranteed
  <2>1. K!Spec => []K!TypeOK
    BY ForwarderAssumption, K!TypeCorrect
  <2>2. V!Spec => []V!TypeOK
    BY ForwarderAssumption, V!TypeCorrect
  <2>3. L!Spec => []L!IInv
    BY ForwarderAssumption, L!Invariant
  <2>4. L!IInv => L!TypeOK
    BY DEF L!IInv
  <2> QED BY <2>1, <2>2, <2>3, <2>4, ComponentRuns, PTL DEF Guaranteed, Types
<1>2. (\A x \in Conn : Ordered(x)) /\ Guaranteed /\ [Next]_vars
      => (\A x \in Conn : Ordered(x))'
  BY OrderStep
<1> QED BY <1>1, <1>2, OrderInit, PTL DEF Spec, OrderInv

\* A served connection has its ports and carries what its client and its endpoint
\* send, whatever the other connections do, whatever fails, and whatever their failed
\* refreshes close (newEndPoint, the whole chain).
THEOREM EndToEndCorrect ==
  ASSUME Apart
  PROVE  Spec => []EndToEnd
<1>1. K!Spec => []K!InUsePlugged
  BY ForwarderAssumption, K!InUsePluggedCorrect DEF Apart, K!SoleBreakout
<1>2. V!Spec => []V!TunnelLeadsToRemote
  BY ForwarderAssumption, V!TunnelLeadsToRemoteCorrect DEF Apart
<1>3. L!Spec => []L!CrossConnected
  BY ForwarderAssumption, L!CrossConnectedCorrect DEF Apart
<1>4. Spec => []OrderInv
  BY OrderInvariant DEF Apart
<1>5. K!InUsePlugged /\ V!TunnelLeadsToRemote /\ L!CrossConnected /\ OrderInv
      => EndToEnd
  <2> SUFFICES ASSUME K!InUsePlugged, V!TunnelLeadsToRemote, L!CrossConnected,
                      OrderInv, NEW x \in Conn, Serving(x)
               PROVE  /\ Plugged(S(x))
                      /\ ~MayRecall(x) /\ "refresh" \notin FlowFaults[x] => Plugged(C(x))
                      /\ L!Told(x) => L!Passes(x) = {"toEndpoint", "toClient"}
    BY DEF EndToEnd
  <2>1. Ordered(x)
    BY DEF OrderInv
  <2>2. ASSUME NEW e \in Ends, Phase(e) \in {"up", "refresh"} PROVE Plugged(e)
    BY <2>2 DEF Phase, Plugged, K!InUsePlugged, K!InUse, K!Recalled, V!TunnelLeadsToRemote
  <2>3. Plugged(S(x))
    BY <2>2, EndsDiffer DEF Serving
  <2>4. ASSUME ~MayRecall(x), "refresh" \notin FlowFaults[x] PROVE Plugged(C(x))
    BY <2>1, <2>2, <2>4, EndsDiffer DEF Ordered
  <2>5. ASSUME L!Told(x) PROVE L!Passes(x) = {"toEndpoint", "toClient"}
    <3>1. x \in L!Established
      BY <2>1, <2>5 DEF Ordered, L!Told, L!Established, L!Assured, L!Wired
    <3>2. L!Reach[x] = L!Passes(x)
      BY <2>5 DEF L!Reach, L!Assured, L!Wired
    <3> QED BY <3>1, <3>2 DEF L!CrossConnected
  <2> QED BY <2>3, <2>4, <2>5
<1> QED BY <1>1, <1>2, <1>3, <1>4, <1>5, ComponentRuns, PTL

-----------------------------------------------------------------------------
(* The chain unwinds from its far end.                                     *)

\* What l2ovsconnect waits for or has left, and what waits for it.
Unwound(x) ==
  /\ lpc[x] \in {"idle", "release"} => Phase(C(x)) = "idle"
  /\ lpc[x] = "closing" /\ x \notin endpoint => Phase(C(x)) = "idle"
  /\ lpc[x] \in {"del1", "del2"} => Phase(C(x)) \in {"idle", "unload"}
  /\ lpc[x] = "release" => Phase(S(x)) \in Waiting \cup {"reset", "remove"}

\* From where, and whereto, the steps lead that matter to it.
LEMMA WhereEndsGo ==
  ASSUME Types, NEW e \in Ends
  PROVE  /\ SetsUp(e) \/ SetupFails(e) \/ GoesOn(e) \/ Undoes(e) =>
              Phase(e) \notin {"idle", "unload", "reset", "remove"}
         /\ Resets(e) \/ NextIsClosed(e) =>
              Phase(e) \in {"reset", "remove", "again", "closing"}
         /\ Closes(e) \/ ClosesAgain(e) => Phase(e) \in {"up", "kept"}
         /\ Resets(e) /\ e \in ClientEnds =>
              Phase(e)' = IF e \in KernelEnds THEN "unload" ELSE "idle"
         /\ GivesUp(e) /\ e \in ClientEnds => Phase(e)' = "idle"
         /\ NextIsClosed(e) => Phase(e)' \in {"reset", "remove"}
         /\ Phase(e) = "unload" => e \in KernelEnds
         /\ Unloads(e) /\ Phase(e) \in {"idle", "unload"} => Phase(e)' = "idle"
<1> USE DEF Phase, Types
<1>1. CASE e \in KernelEnds
  BY <1>1 DEF K!TypeOK, SetsUp, SetupFails, GoesOn, Undoes, Resets, GivesUp, NextIsClosed,
              Unloads, Closes, ClosesAgain, OfEnd, K!SetupOk, K!SetupFails,
              K!SetupFailsSmartVF, K!NextOk, K!Undo, K!Rollback, K!CloseReset, K!NextFails,
              K!NextClosed, K!Unload, K!Close, K!CloseAgain, K!ResetAgain, K!Goto
<1>2. CASE e \notin KernelEnds
  BY <1>2 DEF V!TypeOK, SetsUp, SetupFails, GoesOn, Undoes, Resets, GivesUp, NextIsClosed,
              Unloads, Closes, ClosesAgain, OfEnd, V!AddOk, V!AddFails, V!NextOk, V!Undo,
              V!CloseRemove, V!NextFails, V!NextClosed, V!Close, V!Goto, endVars, vxlanVars
<1> QED BY <1>1, <1>2

LEMMA UnwoundOwn ==
  ASSUME Guaranteed, NEW x \in Conn, Ordered(x), Unwound(x),
         Arrives(x) \/ Refresh(x) \/ Close(x) \/ Progress(x)
  PROVE  Unwound(x)'
<1> USE DEF Guaranteed, Types, Unwound
<1>0. /\ S(x) \in Ends /\ C(x) \in Ends /\ C(x) \in ClientEnds /\ S(x) # C(x)
      /\ lpc \in [Conn -> {"idle", "next", "add1", "add2", "up", "refresh",
                          "closing", "del1", "del2", "release"}]
  BY EndsDiffer DEF L!TypeOK
<1>1. ASSUME StepOf(S(x)) PROVE Phase(C(x))' = Phase(C(x))
  BY <1>0, <1>1, OthersStay
<1>2. ASSUME StepOf(C(x)) \/ UNCHANGED endVars PROVE Phase(S(x))' = Phase(S(x))
  BY <1>0, <1>2, OthersStay DEF Phase, endVars, kernelVars, vxlanVars
<1>3. lpc[x] \in {"idle", "release"} \/ Phase(S(x)) \in Waiting
  BY DEF Ordered
<1>4. CASE Arrives(x) \/ ServerSetup(x) \/ ServerUndo(x) \/ Close(x)
  <2>1. StepOf(S(x)) /\ lpc' = lpc /\ endpoint' = endpoint
    BY <1>0, <1>4, EndSteps DEF Arrives, ServerSetup, ServerUndo, Close, flowVars
  <2>2. lpc[x] = "release" => Phase(S(x))' \in Waiting
    BY <1>0, <1>4, ServerWaits, WhereEndsGo DEF Arrives, ServerSetup, ServerUndo, Close
  <2> QED BY <1>1, <2>1, <2>2
<1>5. CASE Fails(x) \/ ServerReset(x)
  <2>1. StepOf(S(x)) /\ lpc[x] \in {"idle", "release"}
    BY <1>0, <1>5, EndSteps DEF Fails, ServerReset, L!Release, L!Goto
  <2>2. \/ lpc'[x] = "idle"
        \/ lpc'[x] = "release" /\ Phase(S(x))' \in {"reset", "remove"}
    BY <1>0, <1>5, WhereEndsGo DEF Fails, ServerReset, L!Release, L!Goto, flowVars
  <2> QED BY <1>1, <2>1, <2>2
<1>6. CASE Succeeds(x) \/ Refresh(x) \/ RefreshReturns(x)
  <2>1. \/ lpc'[x] \in {"up", "refresh"}
        \/ lpc[x] \in {"idle", "release"} /\ lpc'[x] = "idle"
    BY <1>0, <1>6 DEF Succeeds, Refresh, RefreshReturns, L!Refresh, L!Keep, L!Goto, flowVars
  <2>2. StepOf(S(x))
    BY <1>0, <1>6, EndSteps DEF Succeeds, Refresh, RefreshReturns
  <2> QED BY <1>1, <2>1, <2>2
<1>7. CASE ChainCloses(x)
  <2>1. /\ UNCHANGED endVars /\ lpc'[x] = "closing" /\ endpoint' = endpoint
        /\ lpc[x] \in {"up", "idle"}
    BY <1>0, <1>7 DEF ChainCloses, L!Close, L!Goto
  <2>2. Phase(C(x))' = Phase(C(x))
    BY <2>1 DEF Phase, endVars, kernelVars, vxlanVars
  <2>3. lpc[x] = "up" => x \in endpoint
    BY DEF L!IInv, L!Enters, L!Wired
  <2> QED BY <2>1, <2>2, <2>3
<1>8. CASE CallsClientChain(x) \/ CrossConnects(x)
  <2>1. \/ lpc'[x] \in {"next", "add1", "add2", "up"}
        \/ /\ lpc'[x] = "closing" /\ endpoint' = endpoint
           /\ lpc[x] \in {"add1", "add2"}
    BY <1>0, <1>8 DEF CallsClientChain, CrossConnects, L!Request, L!RefreshReturns,
                      L!NextOk, L!AddFirst, L!AddSecond, L!AddFails, L!Goto
  <2>2. lpc[x] \in {"add1", "add2"} => x \in endpoint
    BY DEF L!IInv, L!Enters, L!Wired
  <2> QED BY <2>1, <2>2
<1>9. CASE ClientBegins(x) \/ ClientSetup(x) \/ ClientCloses(x)
  <2>1. /\ lpc' = lpc /\ endpoint' = endpoint
        /\ lpc[x] \notin {"idle", "release", "del1", "del2"}
    BY <1>0, <1>9, WhereEndsGo DEF ClientBegins, ClientSetup, ClientCloses, flowVars
  <2>2. lpc[x] = "closing" => Phase(C(x)) # "idle"
    BY <1>0, <1>9, WhereEndsGo DEF ClientBegins, ClientSetup, ClientCloses
  <2> QED BY <2>1, <2>2
<1>10. CASE ClientFails(x) \/ ClientReset(x) \/ FailedUnloads(x)
  <2>1. StepOf(C(x)) \/ UNCHANGED endVars
    BY <1>0, <1>10, EndSteps, UnloadSteps DEF ClientFails, ClientReset, FailedUnloads
  <2>2. \/ lpc[x] = "next" /\ lpc'[x] = "release" /\ Phase(C(x))' = "idle"
        \/ /\ lpc'[x] = lpc[x] /\ lpc'[x] \notin {"idle", "release", "del1", "del2"}
           /\ endpoint' = endpoint /\ Phase(C(x)) # "idle"
    <3>1. CASE ClientFails(x)
      BY <1>0, <3>1, WhereEndsGo
         DEF ClientFails, L!NextFails, L!Goto, Phase, endVars, kernelVars, vxlanVars
    <3>2. CASE ClientReset(x)
      BY <1>0, <3>2, WhereEndsGo DEF ClientReset, L!NextFails, L!Goto, flowVars
    <3>3. CASE FailedUnloads(x)
      BY <1>0, <3>3, WhereEndsGo DEF FailedUnloads, L!NextFails, L!Goto
    <3> QED BY <1>10, <3>1, <3>2, <3>3
  <2> QED BY <1>2, <1>3, <2>1, <2>2
<1>11. CASE ClientClosed(x)
  <2>1. Phase(C(x))' = Phase(C(x)) /\ Phase(C(x)) \in {"idle", "unload"}
    BY <1>11 DEF ClientClosed, Phase, endVars, kernelVars, vxlanVars
  <2>2. /\ lpc[x] = "closing"
        /\ lpc'[x] = IF x \in endpoint THEN "del1" ELSE "release"
    BY <1>0, <1>11 DEF ClientClosed, L!NextClosed, L!Goto
  <2> QED BY <1>2, <1>3, <1>11, <2>1, <2>2 DEF ClientClosed
<1>12. CASE Disconnects(x)
  <2>1. CASE L!DeleteFirst(x) /\ UNCHANGED endVars
    BY <1>0, <2>1 DEF L!DeleteFirst, L!Goto, Phase, endVars, kernelVars, vxlanVars
  <2>2. CASE (L!DeleteSecond(x) \/ L!DeleteFails(x)) /\ Unloads(C(x))
    <3>1. lpc[x] \in {"del1", "del2"} /\ lpc'[x] = "release"
      BY <1>0, <2>2 DEF L!DeleteSecond, L!DeleteFails, L!Goto
    <3> QED BY <1>0, <1>2, <1>3, <2>2, <3>1, UnloadSteps, WhereEndsGo
  <2> QED BY <1>12, <2>1, <2>2 DEF Disconnects
<1>13. CASE RecallReturns(x)
  <2>1. lpc'[x] \in {"up", "add1"}
    BY <1>0, <1>13 DEF RecallReturns, L!RefreshReturns, L!Goto
  <2> QED BY <2>1
<1> QED BY <1>4, <1>5, <1>6, <1>7, <1>8, <1>9, <1>10, <1>11, <1>12, <1>13 DEF Progress

LEMMA UnwoundOthers ==
  ASSUME Guaranteed, NEW x \in Conn, NEW y \in Conn \ {x}, Unwound(y),
         Arrives(x) \/ Refresh(x) \/ Close(x) \/ Progress(x)
  PROVE  Unwound(y)'
<1>1. lpc'[y] = lpc[y] /\ (y \in endpoint' <=> y \in endpoint)
  BY ChainSteps, OtherFlowsStay DEF flowVars, Guaranteed
<1>2. ASSUME NEW e, StepOf(e), e \in {S(x), C(x)}
      PROVE  Phase(S(y))' = Phase(S(y)) /\ Phase(C(y))' = Phase(C(y))
  BY <1>2, OthersStay, EndsDiffer DEF Guaranteed
<1>3. ASSUME UNCHANGED endVars
      PROVE  Phase(S(y))' = Phase(S(y)) /\ Phase(C(y))' = Phase(C(y))
  BY <1>3 DEF Phase, endVars, kernelVars, vxlanVars
<1> QED BY <1>1, <1>2, <1>3, ChainSteps DEF Unwound

UnwoundInv == \A x \in Conn : Unwound(x)

\* The chain has unwound below whatever has returned, at every moment.
THEOREM UnwoundInvariant ==
  ASSUME L!DistinctPoints
  PROVE  Spec => []UnwoundInv
<1>1. Init => UnwoundInv
  BY EndsDiffer DEF Init, K!Init, V!Init, L!Init, UnwoundInv, Unwound, Phase
<1>2. OrderInv /\ UnwoundInv /\ [Next]_vars => UnwoundInv'
  <2> SUFFICES ASSUME OrderInv, UnwoundInv, [Next]_vars PROVE UnwoundInv'
    OBVIOUS
  <2> USE DEF OrderInv, UnwoundInv
  <2>1. ASSUME NEW x \in Conn, Arrives(x) \/ Refresh(x) \/ Close(x) \/ Progress(x)
        PROVE  UnwoundInv'
    BY <2>1, UnwoundOwn, UnwoundOthers
  <2>2. ASSUME UNCHANGED <<kpc, vpc, lpc, endpoint>> PROVE UnwoundInv'
    BY <2>2 DEF Unwound, Phase
  <2>3. CASE \E p \in Mortal : LinkGone(p)
    BY <2>2, <2>3 DEF LinkGone, K!LinkGone, vxlanVars, flowVars
  <2>4. CASE Restart
    BY <2>4, EndsDiffer DEF Restart, K!Restart, V!Restart, L!Restart, Unwound, Phase
  <2>5. CASE UNCHANGED vars
    BY <2>2, <2>5 DEF vars, endVars, kernelVars, vxlanVars, flowVars
  <2> QED BY <2>1, <2>3, <2>4, <2>5 DEF Next
<1> QED BY <1>1, <1>2, OrderInvariant, PTL DEF Spec

\* A server element takes its port down, or returns an error, only when its client
\* end is down and its rules are not being worked on: every error path of the chain
\* unwinds from the far end, whatever fails on it.
THEOREM UnwoundFirstCorrect ==
  ASSUME L!DistinctPoints
  PROVE  Spec => []UnwoundFirst
<1>1. OrderInv /\ UnwoundInv => UnwoundFirst
  BY DEF OrderInv, Ordered, UnwoundInv, Unwound, UnwoundFirst
<1> QED BY <1>1, OrderInvariant, UnwoundInvariant, PTL

\* When every Request and Close has returned and none is up, nothing is left on the
\* host and in the maps: no port, link, count or parent, no tunnel, no rule.
NothingLeft ==
  (\A x \in Conn : Phase(S(x)) = "idle") =>
    /\ \A p \in K!Port : kcount[p] = K!Absent /\ bridge[p] = "none"
    /\ \A g \in K!Groups : parentIf[g] = NoPort
    /\ links = {}
    /\ \A p \in V!Port : tun[p] = NoTunnel
    /\ flows = {} /\ endpoint = {}

THEOREM NothingLeftCorrect ==
  ASSUME Apart, K!NothingLeaks, V!NothingLeaks, L!DeletesAll
  PROVE  Spec => []NothingLeft
<1>1. K!Spec => []K!CleanWhenIdle
  BY ForwarderAssumption, K!CleanWhenIdleCorrect DEF Apart
<1>2. V!Spec => []V!NoTunnelWhenIdle
  BY ForwarderAssumption, V!NoTunnelWhenIdleCorrect DEF Apart
<1>3. L!Spec => []L!CleanInv
  BY ForwarderAssumption, L!CleanInvariant DEF Apart
<1>4. Spec => []OrderInv /\ []UnwoundInv
  BY OrderInvariant, UnwoundInvariant, PTL DEF Apart
<1>5. K!CleanWhenIdle /\ V!NoTunnelWhenIdle /\ L!CleanInv /\ OrderInv /\ UnwoundInv
      => NothingLeft
  <2> SUFFICES ASSUME K!CleanWhenIdle, V!NoTunnelWhenIdle, L!CleanInv, OrderInv,
                      UnwoundInv, \A x \in Conn : Phase(S(x)) = "idle"
               PROVE  /\ \A p \in K!Port : kcount[p] = K!Absent /\ bridge[p] = "none"
                      /\ \A g \in K!Groups : parentIf[g] = NoPort
                      /\ links = {}
                      /\ \A p \in V!Port : tun[p] = NoTunnel
                      /\ flows = {} /\ endpoint = {}
    BY DEF NothingLeft
  <2>1. \A x \in Conn : lpc[x] = "idle" /\ Phase(C(x)) = "idle"
    BY DEF OrderInv, Ordered, UnwoundInv, Unwound, Waiting
  <2>2. \A e \in Ends : Phase(e) = "idle"
    BY <2>1 DEF Ends, ClientEnds
  <2>3. \A e \in KernelEnds : kpc[e] = "idle"
    BY <2>2, ForwarderAssumption DEF ForwarderAssumption, Phase
  <2>4. \A e \in Ends \ KernelEnds : vpc[e] = "idle"
    BY <2>2 DEF Phase
  <2>5. flows = {} /\ endpoint = {}
    BY <2>1 DEF L!FlowsOf, OrderInv, Guaranteed, L!IInv, L!OnlyWired, L!Enters,
                L!CleanInv, L!Cleans, L!Wired
  <2> QED BY <2>3, <2>4, <2>5 DEF K!CleanWhenIdle, V!NoTunnelWhenIdle
<1> QED BY <1>1, <1>2, <1>3, <1>4, <1>5, ComponentRuns, PTL

-----------------------------------------------------------------------------
(* No rule outlives its port but during a Close.                           *)

\* An end that is in use, or that will be taken down, has its port.
LEMMA PortStays ==
  ASSUME K!PInv, V!IInv, NEW e \in Ends,
         \/ Phase(e) \in {"up", "refresh"}
         \/ Phase(e) \in {"next", "closing"} /\ e \notin ClientEnds
  PROVE  PortThere(e)
<1>1. CASE e \in KernelEnds
  <2>1. kheld[e] # NoPort /\ bridge[kheld[e]] # "none"
    BY <1>1 DEF K!PInv, K!IInv, K!Phases, K!MustHold, K!Releasing, K!Plugged,
                K!Relies, K!Recalled, Phase
  <2>2. K!Target(e) = kheld[e]
    BY <1>1, <2>1 DEF K!PInv, K!IInv, K!HeldIsTarget
  <2> QED BY <1>1, <2>1, <2>2 DEF PortThere
<1>2. CASE e \notin KernelEnds
  <2>1. e \in vheld
    BY <1>2 DEF V!IInv, V!HeldInPhase, V!HeldRight, V!MayHold, V!MustHold, V!Twice, Phase
  <2>2. tun[V!Tunnel(e)] # NoTunnel
    BY <2>1, ForwarderAssumption, V!HeldThere
  <2> QED BY <1>2, <2>2 DEF PortThere
<1> QED BY <1>1, <1>2

\* When no deletion of rules fails, a rule names a port that is gone only while its
\* connection is being closed, unless a failed refresh of its own may have closed its
\* client end alone (l2ConnectClient, Close).
THEOREM DanglingCorrect ==
  ASSUME Apart, L!DeletesAll
  PROVE  Spec => []DanglingOnlyWhileClosing
<1>1. K!Spec => []K!PInv
  BY ForwarderAssumption, K!PluggedInvariant DEF Apart, K!SoleBreakout
<1>2. V!Spec => []V!IInv
  BY ForwarderAssumption, V!Invariant DEF Apart
<1>3. L!Spec => []L!CleanInv
  BY ForwarderAssumption, L!CleanInvariant DEF Apart
<1>4. Spec => []OrderInv
  BY OrderInvariant DEF Apart
<1>5. K!PInv /\ V!IInv /\ L!CleanInv /\ OrderInv => DanglingOnlyWhileClosing
  <2> SUFFICES ASSUME K!PInv, V!IInv, L!CleanInv, OrderInv, NEW x \in Conn,
                      ~MayRecall(x), RulesOf(x) # {},
                      lpc[x] \notin {"closing", "del1", "del2"}
               PROVE  PortThere(S(x)) /\ PortThere(C(x))
    BY DEF DanglingOnlyWhileClosing
  <2>1. L!Cleans(x) /\ Ordered(x) /\ L!TypeOK /\ L!Enters(x)
    BY DEF L!CleanInv, L!Wired, OrderInv, Guaranteed, Types, L!IInv
  <2>2. lpc[x] \in {"add1", "add2", "up", "refresh"}
    BY <2>1 DEF RulesOf, L!Cleans, L!FlowsOf, L!TypeOK
  <2>3. Phase(C(x)) = "up" /\ Phase(S(x)) \in Waiting
    BY <2>1, <2>2 DEF Ordered
  <2> QED BY <2>3, PortStays, EndsDiffer DEF Waiting
<1> QED BY <1>1, <1>2, <1>3, <1>4, <1>5, ComponentRuns, PTL

\* When no deletion of rules fails, a connection whose server element has returned an
\* error, or has been closed, has no rule in the flow table, whatever has failed on the
\* way up or down and however often its refreshes were closed.
THEOREM NoRuleLeftCorrect ==
  ASSUME L!DistinctPoints, L!DeletesAll
  PROVE  Spec => []NoRuleLeft
<1>1. L!Spec => []L!CleanInv
  BY ForwarderAssumption, L!CleanInvariant
<1>2. L!CleanInv /\ OrderInv => NoRuleLeft
  BY DEF L!CleanInv, L!Cleans, L!FlowsOf, L!Wired, OrderInv, Ordered, Waiting, NoRuleLeft,
         RulesOf
<1> QED BY <1>1, <1>2, OrderInvariant, ComponentRuns, PTL

-----------------------------------------------------------------------------
(* The promises of the elements, kept in the chain.                        *)

\* In the chain, too, l2ovsconnect wires and takes down one direction at a time, and
\* never one of a connection that is established, nor of one that is served: of the
\* connections in L!Assured, whose add-flows do not fail silently and whose refreshes are
\* not closed from above, CrossConnect is implemented by what the forwarder does,
\* restarts and every failure, and the failed refreshes of the others, included.
THEOREM ChainCrossConnects ==
  ASSUME L!DistinctPoints
  PROVE  Spec => /\ L!ImplementsCrossConnect
                 /\ [](\A x \in L!Assured : Serving(x) => x \in L!Established)
<1>1. L!Spec => L!ImplementsCrossConnect
  BY ForwarderAssumption, L!ImplementsCorrect
<1>2. OrderInv => \A x \in L!Assured : Serving(x) => x \in L!Established
  BY DEF OrderInv, Ordered, L!Assured, L!Told, L!Established, L!Wired
<1> QED BY <1>1, <1>2, OrderInvariant, ComponentRuns, PTL

\* When nothing leaks, the ports that connections share, of either mechanism, are
\* plugged by their first user and unplugged by their last (SharedPort).
THEOREM ChainSharesPorts ==
  ASSUME Apart, K!NothingLeaks, V!NothingLeaks
  PROVE  Spec => K!ImplementsSharedPort /\ V!ImplementsSharedPort
<1>1. K!Spec => K!ImplementsSharedPort
  BY ForwarderAssumption, K!SharedPortRefined DEF Apart
<1>2. V!Spec => V!ImplementsSharedPort
  BY ForwarderAssumption, V!SharedPortRefined DEF Apart
<1> QED BY <1>1, <1>2, ComponentRuns

\* When nothing leaks and no setup of a client end fails, the holder of the mutex of
\* the veth pairs can always run on, so that no Request or Close waits for it in vain.
THEOREM ChainLocks ==
  ASSUME Apart, K!NothingLeaks, K!ClientsSetUp
  PROVE  Spec => [](K!HolderCanRun /\ \A e \in KernelEnds : kpc[e] # "stuck")
<1>1. K!Spec => [](K!HolderCanRun /\ \A e \in KernelEnds : kpc[e] # "stuck")
  BY ForwarderAssumption, K!HolderCanRunCorrect DEF Apart
<1> QED BY <1>1, ComponentRuns

\* The hypothesis Apart follows from what the ports and addresses are: names differ,
\* the addresses of the remotes are written with as many digits, and ports that
\* connections share are told apart by VLAN id or VNI; and from that no failed refresh
\* closes a port that is shared.
THEOREM PortsKeepApart ==
  ASSUME K!DistinctNames, K!UniformTagging, K!ResetOnce, V!SameWidths,
         V!ClientsCountFirst, V!RemovedOnce, L!PortsApart
  PROVE  Apart
BY ForwarderAssumption, V!WidthsDistinguish, L!PortsApartSuffice DEF Apart
=============================================================================
