SPECIFICATION Spec
CONSTANTS
  End <- FaultyEnds
  Clients = {}
  VFs = {"v1"}
  Tagged = {"s1", "s2"}
  Breakout = {"v1"}
  Service <- OneService
  IfName <- OwnName
  Mortal = {"s1"}
  Faults <- AllFaults
  CanRestart = TRUE
  MaxCount = 2
  NoEnd = NoEnd
  NoPort = NoPort
INVARIANTS VethCountExact NeverUndercounted InUsePlugged
PROPERTY InUseStays
