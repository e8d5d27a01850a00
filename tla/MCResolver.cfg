SPECIFICATION QuerySpec
CONSTANTS
  Domains <- MCDomains
  Queries <- MCQueries
  Records <- MCRecords
  MaxRecords = 3
  Rcodes = {3}
  Hosts <- MCHosts
INVARIANTS AsksForDomain ReadsInStep AddressesRight GeneratedIsRead
PROPERTIES HeardUnlessLost
CHECK_DEADLOCK FALSE
