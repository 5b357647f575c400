CONSTANTS
  a = a
  b = b
  Clients <- MCClients
  MaxSessions = 1
  MaxNodes = 2
  MaxTimes = 2
SPECIFICATION Spec
INVARIANTS TypeOK WalkerSafe
PROPERTIES ClosedIsTold LiveIsTold
CHECK_DEADLOCK FALSE
