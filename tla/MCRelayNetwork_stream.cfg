SPECIFICATION Spec
CONSTANTS
  a = a
  b = b
  h = h
  Relay = {a, b}
  Session = {1}
  Initiator <- MCPairInitiator
  Responder <- MCPairResponder
  LanGame <- MCTwoGames
  Player = {p1}
  Dialed = {d1}
  Faults = {"eof", "session", "dial"}
  MaxChunks = 2
  MaxAdverts = 1
  MAX_FORWARDING_HOPS = 2
INVARIANTS
  TypeOK
  StreamIntact
  EndsMatch
  GameIdsAgree
CHECK_DEADLOCK FALSE
