CONSTANTS
  a = a
  Clients <- MCClients
  Chans <- MCChans
  Arrivals <- MCArrivals
  SelfMode = FALSE
  MaxDelay = 1
  MaxRecv = 4
SPECIFICATION Spec
INVARIANTS TypeOK OnePlaceInOrder DecodersGetStream
PROPERTIES AllHandled StopReturns
CHECK_DEADLOCK FALSE
