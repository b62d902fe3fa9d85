SPECIFICATION Spec
CONSTANTS
  End <- FourEnds
  Clients = {"c1", "c2"}
  Remote <- TwoRemotes
  Faults <- CleanFaults
  CanRestart = FALSE
  MaxCount = 4
  NoTunnel = NoTunnel
INVARIANT NoTunnelWhenIdle
PROPERTY ImplementsSharedPort
