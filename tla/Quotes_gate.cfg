\* The offer of a sample and its payment, and the gate of the order.
SPECIFICATION Spec
CONSTANTS
  r1 = r1
  r2 = r2
  p1 = p1
  b1 = b1
  b2 = b2
  cup = cup
  nothing = nothing
  None = None
  Requests <- Two
  Quotes <- OneQuote
  Bulk <- TwoBulk
  Inputs <- CupOrNothing
  Whole <- OnlyCup
  Rates <- TwoRates
  MaxSamples = 3
  Usages <- OfferOrGate
SYMMETRY Interchangeable
INVARIANTS OneLinePerPayment
PROPERTIES OfferKept OnlyApprovedGoesOn
CHECK_DEADLOCK FALSE
