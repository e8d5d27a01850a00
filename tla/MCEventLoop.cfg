SPECIFICATION Spec
CONSTANTS
  e1 = e1
  e2 = e2
  d1 = d1
  NULL = NULL
  Fd <- MCFd
  EventId <- MCEventId
  DnsId <- MCDnsId
  MaxBatch = 2
  MaxDepth = 3
  ConnectMayFail = FALSE
  ListenLate = FALSE
SYMMETRY Symmetric
INVARIANTS TypeOK RegistryLive DnsLinked FdOwned ToldOnce ArmedIsKnown
PROPERTIES ClosedByOwner
CHECK_DEADLOCK FALSE
