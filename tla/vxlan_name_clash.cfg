SPECIFICATION Spec
CONSTANTS
  End <- TwoClients
  Clients = {"c1", "c2"}
  Remote <- ClashingRemotes
  Faults <- NoFaults
  CanRestart = FALSE
  MaxCount = 4
  NoTunnel = NoTunnel
INVARIANT TunnelLeadsToRemote
