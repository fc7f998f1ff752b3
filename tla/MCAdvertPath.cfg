SPECIFICATION FairSpec
CONSTANTS
  KeyOf <- MCKeyOf
  Text <- MCText
  MaxHanded <- MCMaxHanded
  MaxPings <- MCMaxPings
  PortText = {"1", "2"}
  MAX_PACKET_SIZE = 18
  MAX_MOTD_LEN = 2
  Near = "responder"
  Hosted <- MCHosted
  Noise <- MCNoise
  GamePort = "1"
  ListenPort = "2"
  MaxDatagrams = 2
INVARIANTS
  TypeOK
  NoOwnFault
  PlayersSee
PROPERTIES
  IsSession
  AdvertArrives
CHECK_DEADLOCK FALSE
