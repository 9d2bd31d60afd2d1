CONSTANTS
  Blocks <- ForkBlocks
  Genesis = 0
  Parent <- ForkParent
  Ancestors <- ForkAncestors
  nChainWork <- ForkWork
  Address <- ForkAddress
  CheckFails = {}
  ConnectFails = {}
  Damaged = {}
  Threads = {t1}
  Null = Null
  Operations = {"prune"}
  MIN_BLOCKS_TO_KEEP = 1
  MaxWork = 10
  MaxSequence = 8
  MaxPrecious = 1
SPECIFICATION Spec
CHECK_DEADLOCK FALSE
INVARIANTS
  CandidatesRestored
  UnlinkedExact
  BestChainActivated
