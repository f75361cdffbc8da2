\* The content of two drafts, and the masters it is built from.
SPECIFICATION Spec
CONSTANTS
  q1 = q1
  q2 = q2
  l1 = l1
  l2 = l2
  cup = cup
  turning = turning
  decoration = decoration
  own = own
  hired = hired
  x1 = x1
  None = None
  Gone = Gone
  Quotations <- TwoQuotations
  Lines <- TwoLines
  Products <- Cup
  Techniques <- Both
  Manual <- Decoration
  Workers <- People
  Knows <- Skills
  Default <- Defaults
  Loose <- OneTask
  MaxPieces = 2
  MaxRate = 2
  MaxEdits = 4
  ForeignLines = FALSE
INVARIANTS PriceIsOfContent WorkFollowsPieces
PROPERTIES IssuedStands DecisionsStand
SYMMETRY WorkSymmetry
CHECK_DEADLOCK FALSE
