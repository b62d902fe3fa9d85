SPECIFICATION Spec
CONSTANTS
  L2Point = {"p", "q", "r"}
  Uplink <- PointUplink
  Bridge <- PointBridge
  Link = {"eth1", "br1"}
  Rank <- Index
  Addr = {"tunnel4", "other6"}
  V4 = {"tunnel4"}
  Network <- Masked
  HostAddrs <- AddrsAtStart
  SrcIP = "net4"
  BootFaults = {"read", "add-br", "add-port", "netlink"}
  CanRestart = TRUE
  Nsm = "br-nsm"
  NoLink = NoLink
  NoAddr = NoAddr
  Conn = {"a", "b"}
  Via <- Label
  AnswerMTU = {0, 1450}
  LinkMTU = {1400, 1500, 70000}
  Recalled = {"b"}
  NoPoint = NoPoint
INVARIANTS TypeOK AddressesMoved NoAddressTwice TunnelAddressPresent BreakoutReachesUplink
PROPERTIES ImplementsHandOver MTUFits
