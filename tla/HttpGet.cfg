\* The system may stop: every url cached, or every permit lost.
CHECK_DEADLOCK FALSE
SPECIFICATION FairSpec
CONSTANTS
  maxCount = 2
  Requests = {r1, r2, r3}
  Urls = {u1, u2}
  NoUrl = NoUrl
INVARIANTS TypeOK PermitsCounted FetchedOnce
PROPERTIES ThrottleSpec WaiterServed
