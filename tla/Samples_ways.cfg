\* Through the order, directly, or both ways at once, and decided, with liveness.
SPECIFICATION LiveSpec
CONSTANTS
  r1 = r1
  r2 = r2
  r3 = r3
  r4 = r4
  None = None
  Requests <- Four
  Usages <- AnyWay
  Births <- AllBirths
INVARIANTS OneWayAgrees SpentIsPaid
PROPERTIES DecidedOnce EveryRequestEnds
CHECK_DEADLOCK FALSE
