\* A task may hang on a piece of another quotation.
SPECIFICATION Spec
CONSTANTS
  q1 = q1
  q2 = q2
  l1 = l1
  l2 = l2
  cup = cup
  turning = turning
  decoration = decoration
  own = own
  hired = hired
  x1 = x1
  None = None
  Gone = Gone
  Quotations <- TwoQuotations
  Lines <- TwoLines
  Products <- Cup
  Techniques <- Turning
  Manual <- Nothing
  Workers <- OnlyOwn
  Knows <- Turner
  Default <- Himself
  Loose <- OneTask
  MaxPieces = 1
  MaxRate = 1
  MaxEdits = 5
  ForeignLines = TRUE

PROPERTIES IssuedStands
SYMMETRY WorkSymmetry
CHECK_DEADLOCK FALSE
