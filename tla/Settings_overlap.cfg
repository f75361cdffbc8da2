\* Two administrators who save the same settings at once.
SPECIFICATION Spec
CONSTANTS
  b1 = b1
  c1 = c1
  c2 = c2
  a1 = a1
  a2 = a2
  None = None
  Admins <- Pair
  Choices <- MCChoices
  Budgets <- MCSaves
  Quotations <- Three
  Builder <- OfBuilder
  Contents <- MCContents
  MaxCharge = 1
  Openings <- MCOpenings
  CreationEnabled = TRUE
SYMMETRY OfferSymmetry
PROPERTIES NoSilentOverwrite
CHECK_DEADLOCK FALSE
