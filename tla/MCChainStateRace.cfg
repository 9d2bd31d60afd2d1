CONSTANTS
  Blocks <- ForkBlocks
  Genesis = 0
  Parent <- ForkParent
  Ancestors <- ForkAncestors
  nChainWork <- ForkWork
  Address <- ForkAddress
  CheckFails = {}
  ConnectFails = {}
  Damaged = {}
  Threads = {t1, t2}
  Null = Null
  Operations = {}
  MIN_BLOCKS_TO_KEEP = 2
  MaxWork = 10
  MaxSequence = 7
  MaxPrecious = 1
SPECIFICATION Spec
INVARIANT BestChainActivated
