CONSTANTS
  Blocks <- EvenBlocks
  Genesis = 0
  Parent <- EvenParent
  Ancestors <- EvenAncestors
  nChainWork <- EvenWork
  Address <- EvenAddress
  CheckFails = {}
  ConnectFails = {}
  Damaged = {}
  Threads = {t1}
  Null = Null
  Operations = {"invalidate", "precious"}
  MIN_BLOCKS_TO_KEEP = 2
  MaxWork = 10
  MaxSequence = 7
  MaxPrecious = 2
SPECIFICATION Spec
INVARIANTS
  TypeOK
  CandidatesRestored
  BestChainActivated
