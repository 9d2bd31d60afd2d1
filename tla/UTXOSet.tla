------------------------------ MODULE UTXOSet ------------------------------
(***************************************************************************)
(* What the coins views promise (CCoinsView, coins.h:304-327): three       *)
(* versions of one map from transactions to their unspent outputs, each    *)
(* with the block whose state it is.  A block is applied to a working copy *)
(* that is committed whole or abandoned; the committed version is saved    *)
(* whole; a crash returns to the saved one.  There are no caches.  The one *)
(* thing that is not as one would wish is what a failed save leaves.       *)
(***************************************************************************)
CONSTANTS Txids, Coins, Blocks, NullBlock, Pruned

VARIABLES
    disk, current,   \* [coins, best]: the saved and the committed version
    working,         \* the map the open block works on
    open             \* whether a block is being applied

vars == <<disk, current, working, open>>

Empty == [coins |-> [x \in Txids |-> Pruned], best |-> NullBlock]

Init ==
    /\ disk = Empty /\ current = Empty
    /\ working = Empty.coins
    /\ open = FALSE

Open ==
    /\ ~open
    /\ open' = TRUE
    /\ working' = current.coins
    /\ UNCHANGED <<disk, current>>

Write(x, c) ==
    /\ open
    /\ working' = [working EXCEPT ![x] = c]
    /\ UNCHANGED <<disk, current, open>>

Commit(b) ==
    /\ open
    /\ open' = FALSE
    /\ current' = [coins |-> working, best |-> b]
    /\ UNCHANGED <<disk, working>>

Abandon ==
    /\ open
    /\ open' = FALSE
    /\ working' = current.coins
    /\ UNCHANGED <<disk, current>>

Save ==
    /\ ~open
    /\ disk' = current
    /\ UNCHANGED <<current, working, open>>

\* What was not saved is gone from the committed version, which keeps the name
\* of its block.
SaveFails ==
    /\ ~open
    /\ current' = [coins |-> disk.coins, best |-> current.best]
    /\ working' = disk.coins
    /\ UNCHANGED <<disk, open>>

Crash ==
    /\ current' = disk
    /\ working' = disk.coins
    /\ open' = FALSE
    /\ UNCHANGED disk

Next ==
    \/ Open \/ Abandon \/ Save \/ SaveFails \/ Crash
    \/ \E x \in Txids, c \in Coins : Write(x, c)
    \/ \E b \in Blocks : Commit(b)

Spec == Init /\ [][Next]_vars
=============================================================================
