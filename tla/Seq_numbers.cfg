\* Requests around a change of year, a change of format and imports, with liveness.
SPECIFICATION LiveSpec
CONSTANTS
  r1 = r1
  r2 = r2
  r3 = r3
  a1 = a1
  i1 = i1
  i2 = i2
  None = None
  Requests <- Three
  Admins <- OneAdmin
  Imports <- TwoImports
  Casts <- MCCasts
  Imported <- OneOrThree
  Units <- YearlyNever
  FirstPolicy = "YEARLY"
  MonthDays = 1
  YearDays = 1
  MaxDay = 1
INVARIANTS RegisterSound
PROPERTIES EditsOverlapSafely EveryRequestEnds
CHECK_DEADLOCK FALSE
