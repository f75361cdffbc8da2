\* Both ways at once: the material.
SPECIFICATION Spec
CONSTANTS
  r1 = r1
  r2 = r2
  r3 = r3
  r4 = r4
  None = None
  Requests <- Three
  Usages <- BothWays
  Births <- OfOwnQuotation
INVARIANTS SpentOnce
CHECK_DEADLOCK FALSE
