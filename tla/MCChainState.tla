---------------------------- MODULE MCChainState ----------------------------
(***************************************************************************)
(* Small trees for ChainState.  Blocks are numbers; 0 is the genesis       *)
(* block.                                                                  *)
(***************************************************************************)
EXTENDS ChainState

\* Two branches: 0 - 1 - 2 - 3 and 0 - 4 - 5.
ForkBlocks == 0..5
ForkParent == [b \in 1..5 |-> IF b = 4 THEN 0 ELSE b - 1]
ForkAncestors ==
  [b \in 0..5 |-> IF b < 4 THEN 0..b ELSE {0} \cup (4..b)]
ForkWork == [b \in 0..5 |-> IF b < 4 THEN b + 1 ELSE b - 2]

\* The pointers of the entries, in an order that is not the order of the blocks.
ForkAddress == [b \in 0..5 |-> 10 - b]

\* A branch that branches again: 0 - 1 - 2, 1 - 3 and 0 - 4 - 5.
TwigBlocks == ForkBlocks
TwigAddress == ForkAddress
TwigParent == [b \in 1..5 |-> IF b = 3 THEN 1 ELSE IF b = 4 THEN 0 ELSE b - 1]
TwigAncestors ==
  [b \in 0..5 |-> CASE b = 3 -> {0, 1, 3}
                    [] b > 3 -> {0} \cup (4..b)
                    [] OTHER -> 0..b]
TwigWork == [b \in 0..5 |-> CASE b = 3 -> 3 [] b > 3 -> b - 2 [] OTHER -> b + 1]

\* Two short branches, the second one heavier: 0 - 1 - 2 and 0 - 3 - 4.
HeavyBlocks == 0..4
HeavyParent == [b \in 1..4 |-> IF b = 3 THEN 0 ELSE b - 1]
HeavyAncestors == [b \in 0..4 |-> IF b < 3 THEN 0..b ELSE {0} \cup (3..b)]
HeavyAddress == [b \in 0..4 |-> 10 - b]
HeavyWork == [b \in 0..4 |-> IF b = 4 THEN 5 ELSE IF b = 3 THEN 2 ELSE b + 1]

\* A branch of two blocks and one of a single block with the same work: 0 - 1 - 2
\* and 0 - 3.
EvenBlocks == 0..3
EvenParent == [b \in 1..3 |-> IF b = 3 THEN 0 ELSE b - 1]
EvenAncestors == [b \in 0..3 |-> IF b < 3 THEN 0..b ELSE {0, 3}]
EvenAddress == [b \in 0..3 |-> 10 - b]
EvenWork == [b \in 0..3 |-> IF b = 3 THEN 3 ELSE b + 1]

=============================================================================
