\* The system may stop: every call has given up and scrolling waits for one.
CHECK_DEADLOCK FALSE
SPECIFICATION FairSpec
CONSTANTS
  maxCount = 1
  Calls = {c1, c2, c3}
  Queries = {q, all}
  NoQuery = NoQuery
  Everything = all
  MaxPages = 2
INVARIANT ResultsInOrder
PROPERTIES PermitKept TurnComes
