CONSTANTS
  Requesters = {c1, c2, c3}
  MaxInflight = 2
  Threads = 1
  MaxRequests = 4
SPECIFICATION FairServiceSpec
INVARIANTS
  ServiceTypeOK
  PermitsHeldByJobs
PROPERTIES
  RequestsAnswered
  PermitsReturn
CHECK_DEADLOCK FALSE
