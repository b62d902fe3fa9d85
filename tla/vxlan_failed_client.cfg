SPECIFICATION Spec
CONSTANTS
  End <- TwoClients
  Clients = {"c1", "c2"}
  Remote <- OneRemote
  Faults <- CreateFault
  CanRestart = FALSE
  MaxCount = 4
  NoTunnel = NoTunnel
INVARIANT TunnelLeadsToRemote
