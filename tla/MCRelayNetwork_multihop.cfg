SPECIFICATION FairSpec
CONSTANTS
  a = a
  b = b
  h = h
  Relay = {a, b, h}
  Session = {1, 2}
  Initiator <- MCLineInitiator
  Responder <- MCLineResponder
  LanGame <- MCOneGame
  Player = {p1}
  Dialed = {d1}
  Faults = {"eof"}
  MaxChunks = 1
  MaxAdverts = 1
  MAX_FORWARDING_HOPS = 2
PROPERTIES
  PlayerEndReachesGame
CHECK_DEADLOCK FALSE
