SPECIFICATION Spec
CONSTANTS
  lan = lan
  own = own
  PeerId = {pa, pb}
  Handle = {h1, h2}
  Ip = {lan, own}
  Port = {1}
  ListenerId = {x1, x2}
  Conn = {}
  Data = {0}
  NoData = 0
  DiscoveryPort = 1
  MAX_FORWARDING_HOPS = 2
  OwnIp = own
  LanPackets <- MCLanPackets
  PeerMessages <- MCGame
  MaxConnectionId = 2
  MaxInbox = 1
SYMMETRY Symmetry
INVARIANTS
  TypeOK
  RelayedGamesAgree
  LocalGamesAgree
  DeadPeerPending
  LivePeerKnown
  DeadListenerPending
  ListenPortsInUse
PROPERTIES
  IdsNeverRebound
CHECK_DEADLOCK FALSE
