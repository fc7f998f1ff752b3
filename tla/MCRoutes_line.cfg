SPECIFICATION Spec
CONSTANTS
  a = a
  b = b
  h = h
  Relay = {a, b, h}
  Session = {1, 2}
  Initiator <- MCLineInitiator
  Responder <- MCLineResponder
  LanGame <- MCOneGame
  Player = {p1, p2}
  Dialed = {d1, d2}
  Faults = {}
  MaxChunks = 1
  MaxAdverts = 1
  MAX_FORWARDING_HOPS = 2
  Up <- MCLineUp
SYMMETRY Symmetry
INVARIANTS
  RoutesInv
  EndsMatch
  NothingLost
CHECK_DEADLOCK FALSE
