SPECIFICATION Spec
CONSTANTS
  End <- FourEnds
  Clients = {"c1", "c2"}
  Remote <- TwoRemotes
  Faults <- LateFaults
  CanRestart = TRUE
  MaxCount = 4
  NoTunnel = NoTunnel
INVARIANTS TypeOK NeverUndercounted TunnelLeadsToRemote AddFailsOnlyOnFault
