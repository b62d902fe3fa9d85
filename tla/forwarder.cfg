SPECIFICATION FairSpec
CONSTANTS
  Conn = {"a", "b"}
  KernelEnds <- Kernel
  VFEnds <- Smart
  TaggedEnds = {}
  Service <- OneService
  IfName <- Names
  Mortal = {"veth"}
  KernelFaults <- Rollbacks
  Remote <- OneRemote
  VxlanFaults <- TunnelFaults
  Info <- PortInfo
  FlowFaults <- RuleFaults
  CanRestart = TRUE
  MaxCount = 4
  NoEnd = NoEnd
  NoPort = NoPort
  NoTunnel = NoTunnel
INVARIANTS EndToEnd DanglingOnlyWhileClosing UnwoundFirst NoRuleLeft
PROPERTY ChainReturns
