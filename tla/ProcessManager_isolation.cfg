SPECIFICATION Spec
CONSTANTS
  MaxPID = 5
  NumPages = 1
  ExitCodes = {0}
  Nil = Nil
INVARIANTS
  PrivateAddressSpaces
CHECK_DEADLOCK FALSE
