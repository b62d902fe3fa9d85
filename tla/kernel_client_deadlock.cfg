SPECIFICATION FairSpec
CONSTANTS
  End <- DeadlockEnds
  Clients = {"c1"}
  VFs = {}
  Tagged = {}
  Breakout = {}
  Service <- OneService
  IfName <- OwnName
  Mortal = {}
  Faults <- PortNumberFault
  CanRestart = FALSE
  MaxCount = 2
  NoEnd = NoEnd
  NoPort = NoPort
PROPERTY HandlersReturn
CHECK_DEADLOCK FALSE
