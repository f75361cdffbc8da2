\* Creations that race, and orders in the workshop, with liveness.
SPECIFICATION LiveSpec
CONSTANTS
  r1 = r1
  r2 = r2
  r3 = r3
  r4 = r4
  q1 = q1
  q2 = q2
  q3 = q3
  l1 = l1
  l2 = l2
  k1 = k1
  o1 = o1
  None = None
  Requests <- MCRequests
  Quotes <- MCQuotes
  V2 <- MCV2
  Lines <- MCLines
  Pieces <- MCPieces
  Reports <- MCReports
  Required <- MCRequired
  Keys <- MCKeys
  Opening <- MCOpening
  Calls <- MCCalls
  Usages <- MCUsages
INVARIANTS NeverClashes RepliesOwnOrder SpentOnce CancelledSpentNothing KeyRecordsOnce ClosedIsAccounted
PROPERTIES RetryIsRecognised RefinesBook EveryRequestEnds
CHECK_DEADLOCK FALSE
