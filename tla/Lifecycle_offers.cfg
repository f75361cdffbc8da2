\* Two requests at a time on a quotation and its duplicates.
SPECIFICATION Spec
CONSTANTS
  q1 = q1
  q2 = q2
  q3 = q3
  r1 = r1
  r2 = r2
  None = None
  Quotations <- Three
  Fresh <- First
  Requests <- Pair
  MaxContent = 1
  MaxMaster = 1
  MaxTime = 2
  Validity = 1
SYMMETRY LifeSymmetry
INVARIANTS IssuedAsShown SentIsGood ReplacedOnce
PROPERTIES KeepsTheBook
CHECK_DEADLOCK FALSE
