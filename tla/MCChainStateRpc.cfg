CONSTANTS
  Blocks <- HeavyBlocks
  Genesis = 0
  Parent <- HeavyParent
  Ancestors <- HeavyAncestors
  nChainWork <- HeavyWork
  Address <- HeavyAddress
  CheckFails = {}
  ConnectFails = {}
  Damaged = {2}
  Threads = {t1}
  Null = Null
  Operations = {"invalidate", "reconsider", "prune", "diskfull"}
  MIN_BLOCKS_TO_KEEP = 1
  MaxWork = 10
  MaxSequence = 7
  MaxPrecious = 1
SPECIFICATION Spec
CHECK_DEADLOCK FALSE
INVARIANTS
  ReceivedConsistent
  ActiveChainValid
