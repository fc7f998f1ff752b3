SPECIFICATION FairSpec
CONSTANTS
  own = own
  Incoming = {own}
  KeyOf <- MCKeyOf
  Self = "self"
  Dialer = {t1}
  Args = {}
  Typed = {"", "host"}
  MaxLines = 2
PROPERTIES
  CancelHolds
CHECK_DEADLOCK FALSE
