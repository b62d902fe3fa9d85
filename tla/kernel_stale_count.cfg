SPECIFICATION Spec
CONSTANTS
  End <- TwoClients
  Clients = {"c1", "c2"}
  VFs = {}
  Tagged = {"c1", "c2"}
  Breakout = {}
  Service <- OneService
  IfName <- OwnName
  Mortal = {"c1"}
  Faults <- NoFaults
  CanRestart = FALSE
  MaxCount = 2
  NoEnd = NoEnd
  NoPort = NoPort
INVARIANT SetupFailsOnlyOnFault
