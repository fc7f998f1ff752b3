SPECIFICATION FairSpec
CONSTANTS
  own = own
  Incoming = {own,i1,i2}
  KeyOf <- MCKeyOf
  Self = "self"
  Dialer = {t1}
  Args = {}
  Typed = {"", "yes", "host"}
  MaxLines = 2
INVARIANTS
  TypeOK
  OnlyWelcomeRun
  OneQuestion
PROPERTIES
  EveryoneAnswered
CHECK_DEADLOCK FALSE
