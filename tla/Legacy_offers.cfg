\* Two administrators at the settings and at three quotations.
SPECIFICATION Spec
CONSTANTS
  b1 = b1
  c1 = c1
  c2 = c2
  a1 = a1
  a2 = a2
  None = None
  Admins <- Pair
  Choices <- MCChoices
  Budgets <- MCBudgets
  Quotations <- Three
  Builder <- OfBuilder
  Contents <- MCContents
  MaxCharge = 1
  Openings <- MCOpenings
  CreationEnabled = TRUE
SYMMETRY OfferSymmetry
INVARIANTS OfferAddsUp SettingsKept
PROPERTIES OfferIsFinal PriceTrail VersionProtects
CHECK_DEADLOCK FALSE
