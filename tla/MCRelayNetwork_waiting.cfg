SPECIFICATION FairSpec
CONSTANTS
  a = a
  b = b
  h = h
  Relay = {a, b}
  Session = {1}
  Initiator <- MCPairInitiator
  Responder <- MCPairResponder
  LanGame <- MCOneGame
  Player = {p1}
  Dialed = {d1}
  Faults = {"dial"}
  MaxChunks = 1
  MaxAdverts = 1
  MAX_FORWARDING_HOPS = 2
PROPERTIES
  NoPlayerLeftWaiting
CHECK_DEADLOCK FALSE
