\* Jobs of four kinds that share two materials, with liveness.
SPECIFICATION LiveSpec
CONSTANTS
  t1 = t1
  t2 = t2
  t3 = t3
  t4 = t4
  la = la
  lb = lb
  lc = lc
  None = None
  Slots <- MCSlots
  Prepared <- MCPrepared
  Lots <- MCLots
  SlotOf <- MCSlotOf
  Txns <- FourTxns
  JobOf <- MixJobs
  Opening <- MCOpening
  OpeningLots <- MCOpeningLots
INVARIANTS LedgerAddsUp WholeJob ChecksNeverCircle
PROPERTIES EveryTxnEnds
CHECK_DEADLOCK FALSE
