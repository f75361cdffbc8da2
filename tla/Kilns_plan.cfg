SPECIFICATION KilnLiveSpec
CONSTANTS
  Sources = {1, 2, 9}
  Loads = {9}
  Lines = {"cup", "vase", "tile"}
  Owner <- Owners
  Pieces <- HowMany
  Volume <- Volumes
  Needs <- Fires
  Alone = {2}
  Batches = {1, 2, 3}
  Capacity <- Room
  Openings <- Starts
  Calls <- Wishes
  Requests = {r1, r2}
  Nil = Nil
INVARIANTS PlanAddsUp LoadedRight
PROPERTIES FiredStays EveryRequestEnds
CHECK_DEADLOCK FALSE
