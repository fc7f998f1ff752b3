SPECIFICATION FairSpec
CONSTANTS
  MaxPlayers = 3
INVARIANTS
  TypeOK
PROPERTIES
  KeepsContract
  AbandonedListenerEnds
CHECK_DEADLOCK FALSE
