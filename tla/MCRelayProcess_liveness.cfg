SPECIFICATION FairSpec
CONSTANTS
  lan = lan
  own = own
  PeerId = {pa}
  Handle = {h1, h2}
  Ip = {lan, own}
  Port = {1}
  ListenerId = {x1}
  Conn = {c1}
  Data = {0}
  NoData = 0
  DiscoveryPort = 1
  MAX_FORWARDING_HOPS = 2
  OwnIp = own
  LanPackets <- MCNoPackets
  PeerMessages <- MCTraffic
  MaxConnectionId = 1
  MaxInbox = 1
PROPERTIES
  ClosedPeersForgotten
  DeadListenersForgotten
  UnknownConnectionsEnd
CHECK_DEADLOCK FALSE
