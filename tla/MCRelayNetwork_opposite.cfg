SPECIFICATION Spec
CONSTANTS
  a = a
  b = b
  h = h
  Relay = {a, b}
  Session = {1}
  Initiator <- MCPairInitiator
  Responder <- MCPairResponder
  LanGame <- MCBothHost
  Player = {p1, p2}
  Dialed = {d1, d2}
  Faults = {}
  MaxChunks = 1
  MaxAdverts = 1
  MAX_FORWARDING_HOPS = 2
SYMMETRY Symmetry
INVARIANTS
  EndsMatch
CHECK_DEADLOCK FALSE
