SPECIFICATION FairSpec
CONSTANTS
  End <- RollbackEnds
  Clients = {"c1", "c2", "v1"}
  VFs = {"v1"}
  Tagged = {"c1", "c2"}
  Breakout = {"s1"}
  Service <- OneService
  IfName <- OwnName
  Mortal = {}
  Faults <- RollbackFaults
  CanRestart = FALSE
  MaxCount = 2
  NoEnd = NoEnd
  NoPort = NoPort
INVARIANTS TypeOK InUsePlugged SharedParentKnown CleanWhenIdle SetupFailsOnlyOnFault HolderCanRun
PROPERTIES HandlersReturn ImplementsSharedPort
