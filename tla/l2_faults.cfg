SPECIFICATION Spec
CONSTANTS
  Conn = {"a", "in", "out", "breakout"}
  VlanConns = {"breakout"}
  ClientInfo <- Clients
  EndpointInfo <- Endpoints
  Faults <- FlowFaults
  CanRestart = TRUE
INVARIANTS TypeOK CrossConnected
PROPERTY ImplementsCrossConnect
