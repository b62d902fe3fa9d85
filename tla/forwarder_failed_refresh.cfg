SPECIFICATION Spec
CONSTANTS
  Conn = {"a"}
  KernelEnds <- Kernel
  VFEnds <- Smart
  TaggedEnds = {}
  Service <- OneService
  IfName <- Names
  Mortal = {}
  KernelFaults <- NoKernelFaults
  Remote <- OneRemote
  VxlanFaults <- NoVxlanFaults
  Info <- PortInfo
  FlowFaults <- RefreshFails
  CanRestart = FALSE
  MaxCount = 4
  NoEnd = NoEnd
  NoPort = NoPort
  NoTunnel = NoTunnel
INVARIANT ServedHasRules
