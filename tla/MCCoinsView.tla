---------------------------- MODULE MCCoinsView ----------------------------
\* Two transactions with two values each, and three blocks, which no definition
\* tells apart.  All properties are safety properties, so symmetry is sound.
EXTENDS CoinsView, TLC

CONSTANTS x1, x2, v1, v2, b1, b2, b3

MCTxids  == {x1, x2}
MCValues == {v1, v2}
MCBlocks == {b1, b2, b3}

Symmetry == Permutations(MCTxids) \cup Permutations(MCValues) \cup Permutations(MCBlocks)
=============================================================================
