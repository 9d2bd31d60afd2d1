CONSTANTS
  Blocks <- TwigBlocks
  Genesis = 0
  Parent <- TwigParent
  Ancestors <- TwigAncestors
  nChainWork <- TwigWork
  Address <- TwigAddress
  CheckFails = {3}
  ConnectFails = {5}
  Damaged = {}
  Threads = {t1}
  Null = Null
  Operations = {"invalidate"}
  MIN_BLOCKS_TO_KEEP = 2
  MaxWork = 10
  MaxSequence = 7
  MaxPrecious = 1
SPECIFICATION Spec
INVARIANTS
  ScriptsOnScripts
  FailureHasCause
  CandidatesSound
  CandidatesRestored
  BestIsCandidate
  UnlinkedExact
  ActiveChainValid
  BestChainActivated
PROPERTY
  PruneLeavesCandidate
