CONSTANTS
    x1 = x1  x2 = x2  v1 = v1  v2 = v2  b1 = b1  b2 = b2  b3 = b3
    Txids <- MCTxids
    Values <- MCValues
    Blocks <- MCBlocks
    Pruned = Pruned
    NullBlock = NullBlock
    NoEntry = NoEntry
    MaxFailures = 1
SPECIFICATION Spec
INVARIANTS TypeOK FlagsSound FreshNeverMisapplied BestBlockMatchesCoins
PROPERTIES ReadsOwnWrites Refinement
SYMMETRY Symmetry
