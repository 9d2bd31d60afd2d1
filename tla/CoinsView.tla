----------------------------- MODULE CoinsView -----------------------------
(***************************************************************************)
(* The unspent outputs (coins.h, coins.cpp, txdb.cpp): a database, the     *)
(* cache pcoinsTip on it, and the cache a block is applied to.  What is    *)
(* stored for a transaction (CCoins) is an opaque value, Pruned when no    *)
(* output is left; Cleanup makes "no output left" and "empty vout" one.    *)
(* All users hold cs_main while a block's view lives, so its steps do not  *)
(* interleave with operations on pcoinsTip other than its own fetches.     *)
(***************************************************************************)
EXTENDS Naturals

CONSTANTS
    Txids,
    Values,        \* coins with an output left
    Pruned,        \* coins without one; a missing record of the database
    Blocks,
    NullBlock,     \* the null hash of a cache that has not asked its base
    NoEntry,       \* a txid that is not in a cache
    MaxFailures    \* how many database writes may fail

Coins == Values \cup {Pruned}

\* CCoinsCacheEntry.  No cache keeps an entry that was emptied and that its
\* base does not have: there is nothing to write for it.
Entry == {e \in [coins : Coins, DIRTY : BOOLEAN, FRESH : BOOLEAN] :
             ~(e.DIRTY /\ e.FRESH /\ e.coins = Pruned)}

ASSUME CoinsAssumption ==
    /\ Pruned \notin Values
    /\ NullBlock \notin Blocks
    /\ NoEntry \notin Entry
    /\ MaxFailures \in Nat

VARIABLES
    db, dbBest,       \* the database: DB_COINS records and DB_BEST_BLOCK
    tip, tipBest,     \* pcoinsTip: cacheCoins and hashBlock
    view,             \* cacheCoins of the view of the block being applied
    live,             \* whether that view exists
    failures,         \* database writes that have failed
    stateOf           \* the coins of each block that has been committed

vars == <<db, dbBest, tip, tipBest, view, live, failures, stateOf>>

EmptyCache == [x \in Txids |-> NoEntry]
NoCoins    == [x \in Txids |-> Pruned]

\* What a reader of pcoinsTip and of the block's view sees.
TipCoins(x)  == IF tip[x] = NoEntry THEN db[x] ELSE tip[x].coins
ViewCoins(x) == IF view[x] = NoEntry THEN TipCoins(x) ELSE view[x].coins

GetBestBlock == IF tipBest = NullBlock THEN dbBest ELSE tipBest

TypeOK ==
    /\ db \in [Txids -> Coins]
    /\ dbBest \in Blocks \cup {NullBlock} /\ tipBest \in Blocks \cup {NullBlock}
    /\ tip \in [Txids -> Entry \cup {NoEntry}]
    /\ view \in [Txids -> Entry \cup {NoEntry}]
    /\ live \in BOOLEAN
    /\ failures \in 0..MaxFailures
    /\ stateOf \in [Blocks \cup {NullBlock} -> {{}} \cup {{m} : m \in [Txids -> Coins]}]

Init ==
    /\ db = NoCoins /\ dbBest = NullBlock
    /\ tip = EmptyCache /\ tipBest = NullBlock
    /\ view = EmptyCache /\ live = FALSE
    /\ failures = 0
    /\ stateOf = [b \in Blocks \cup {NullBlock} |-> IF b = NullBlock THEN {NoCoins} ELSE {}]

-----------------------------------------------------------------------------
\* The methods of CCoinsViewCache, as functions of one entry.

\* FetchCoins: entry e after asking a base that has coins c, or has none.
Fetched(e, have, c) ==
    IF e # NoEntry \/ ~have THEN e
    ELSE [coins |-> c, DIRTY |-> FALSE, FRESH |-> c = Pruned]

TipFetched(x) == Fetched(tip[x], db[x] # Pruned, db[x])

\* A wrong destructor that drops every emptied entry, fresh or not.
ReleasePruned(e, c) ==
    IF c = Pruned THEN NoEntry ELSE [e EXCEPT !.coins = c]

\* A wrong destructor that never erases the entry.
ReleaseKeeps(e, c) == [e EXCEPT !.coins = c]

\* ~CCoinsModifier, after the caller has set the coins to c.
Release(e, c) ==
    IF e.FRESH /\ c = Pruned THEN NoEntry ELSE [e EXCEPT !.coins = c]

\* The entry ModifyCoins hands out, given the entry f its base fetched.
Modifiable(e, f) ==
    IF e # NoEntry THEN [e EXCEPT !.DIRTY = TRUE]
    ELSE IF f = NoEntry THEN [coins |-> Pruned, DIRTY |-> TRUE, FRESH |-> TRUE]
    ELSE [coins |-> f.coins, DIRTY |-> TRUE, FRESH |-> f.coins = Pruned]

\* A wrong ModifyNewCoins that also marks dirty entries and coinbases fresh.
NewModifiableFresh(e, coinbase) == [coins |-> Pruned, DIRTY |-> TRUE, FRESH |-> TRUE]

\* The entry ModifyNewCoins hands out.
NewModifiable(e, coinbase) ==
    LET old == IF e = NoEntry THEN [coins |-> Pruned, DIRTY |-> FALSE, FRESH |-> FALSE] ELSE e
    IN  [coins |-> Pruned, DIRTY |-> TRUE,
         FRESH |-> old.FRESH \/ (~coinbase /\ ~old.DIRTY)]

\* The error BatchWrite throws for child entry e and parent entry p.
Misapplied(p, e) ==
    e # NoEntry /\ e.DIRTY /\ e.FRESH /\ p # NoEntry /\ p.coins # Pruned

\* A wrong merge that hands the child's FRESH flag to an existing entry.
MergeFresh(p, e) ==
    IF e = NoEntry \/ ~e.DIRTY THEN p
    ELSE IF p = NoEntry
         THEN IF e.FRESH /\ e.coins = Pruned THEN NoEntry ELSE e
         ELSE IF p.FRESH /\ e.coins = Pruned THEN NoEntry
              ELSE [coins |-> e.coins, DIRTY |-> TRUE, FRESH |-> p.FRESH \/ e.FRESH]

\* BatchWrite: parent entry p after child entry e has been written into it.
Merge(p, e) ==
    IF e = NoEntry \/ ~e.DIRTY THEN p
    ELSE IF p = NoEntry
         THEN IF e.FRESH /\ e.coins = Pruned THEN NoEntry ELSE e
         ELSE IF p.FRESH /\ e.coins = Pruned THEN NoEntry
              ELSE [p EXCEPT !.coins = e.coins, !.DIRTY = TRUE]

\* CCoinsViewDB::BatchWrite: the record for a txid whose cache entry is e.
Stored(c, e) == IF e = NoEntry \/ ~e.DIRTY THEN c ELSE e.coins

-----------------------------------------------------------------------------
\* The block's view.

\* CCoinsViewCache view(pcoinsTip), and the GetBestBlock both caches remember.
OpenView ==
    /\ ~live
    /\ live' = TRUE
    /\ view' = EmptyCache
    /\ tipBest' = GetBestBlock
    /\ UNCHANGED <<db, dbBest, tip, failures, stateOf>>

\* AccessCoins, GetCoins, HaveCoins on the view; a miss also fills pcoinsTip.
ViewFetch(x) ==
    LET f == TipFetched(x)
    IN  /\ live /\ view[x] = NoEntry
        /\ tip' = [tip EXCEPT ![x] = f]
        /\ view' = [view EXCEPT ![x] =
                      IF f = NoEntry THEN NoEntry ELSE Fetched(NoEntry, TRUE, f.coins)]
        /\ UNCHANGED <<db, dbBest, tipBest, live, failures, stateOf>>

\* A CCoinsModifier from ModifyCoins that leaves the coins at c: an output
\* spent (UpdateCoins), restored (ApplyTxInUndo) or all removed (DisconnectBlock).
ModifyCoins(x, c) ==
    /\ live
    /\ tip' = IF view[x] = NoEntry THEN [tip EXCEPT ![x] = TipFetched(x)] ELSE tip
    /\ view' = [view EXCEPT ![x] = Release(Modifiable(view[x], TipFetched(x)), c)]
    /\ UNCHANGED <<db, dbBest, tipBest, live, failures, stateOf>>

\* A CCoinsModifier from ModifyNewCoins that leaves the outputs of a
\* transaction of the block.  ConnectBlock has rejected a block that would
\* overwrite unspent outputs (BIP 30); the exempted duplicates are coinbases.
ModifyNewCoins(x, coinbase, c) ==
    /\ live
    /\ coinbase \/ ViewCoins(x) = Pruned
    /\ view' = [view EXCEPT ![x] = Release(NewModifiable(view[x], coinbase), c)]
    /\ UNCHANGED <<db, dbBest, tip, tipBest, live, failures, stateOf>>

\* SetBestBlock(b) at the end of ConnectBlock or DisconnectBlock, then Flush.
\* A block determines its coins.
FlushView(b) ==
    LET after == [x \in Txids |-> ViewCoins(x)]
    IN  /\ live
        /\ \A x \in Txids : ~Misapplied(tip[x], view[x])
        /\ stateOf[b] \subseteq {after}
        /\ tip' = [x \in Txids |-> Merge(tip[x], view[x])]
        /\ tipBest' = b
        /\ view' = EmptyCache
        /\ live' = FALSE
        /\ stateOf' = [stateOf EXCEPT ![b] = {after}]
        /\ UNCHANGED <<db, dbBest, failures>>

\* The view is destroyed unflushed: the block failed or was only tested.
DiscardView ==
    /\ live
    /\ view' = EmptyCache
    /\ live' = FALSE
    /\ UNCHANGED <<db, dbBest, tip, tipBest, failures, stateOf>>

-----------------------------------------------------------------------------
\* pcoinsTip.

\* A look-up on pcoinsTip, by the memory pool or by a query.
TipFetch(x) ==
    /\ ~live
    /\ tip' = [tip EXCEPT ![x] = TipFetched(x)]
    /\ UNCHANGED <<db, dbBest, tipBest, view, live, failures, stateOf>>

\* A wrong Uncache that looks at the FRESH flag only.
UncacheDirty(x) ==
    /\ ~live
    /\ tip[x] # NoEntry /\ ~tip[x].FRESH
    /\ tip' = [tip EXCEPT ![x] = NoEntry]
    /\ UNCHANGED <<db, dbBest, tipBest, view, live, failures, stateOf>>

\* A transaction was refused: the coins fetched for it are dropped again.
Uncache(x) ==
    /\ ~live
    /\ tip[x] # NoEntry /\ ~tip[x].DIRTY /\ ~tip[x].FRESH
    /\ tip' = [tip EXCEPT ![x] = NoEntry]
    /\ UNCHANGED <<db, dbBest, tipBest, view, live, failures, stateOf>>

\* A wrong flush that does not write the best block.
FlushTipCoinsOnly ==
    /\ ~live
    /\ db' = [x \in Txids |-> Stored(db[x], tip[x])]
    /\ tip' = EmptyCache
    /\ UNCHANGED <<dbBest, tipBest, view, live, failures, stateOf>>

\* pcoinsTip->Flush(): one atomic database batch with the best block.
FlushTip ==
    /\ ~live
    /\ db' = [x \in Txids |-> Stored(db[x], tip[x])]
    /\ dbBest' = GetBestBlock
    /\ tip' = EmptyCache
    /\ UNCHANGED <<tipBest, view, live, failures, stateOf>>

\* The batch fails: CCoinsViewDB::BatchWrite has emptied the cache before it
\* throws, and FlushStateToDisk turns the exception into AbortNode.  Until
\* Shutdown has flushed once more the caches stay in use.
FlushTipFails ==
    /\ ~live
    /\ failures < MaxFailures
    /\ failures' = failures + 1
    /\ tip' = EmptyCache
    /\ UNCHANGED <<db, dbBest, tipBest, view, live, stateOf>>

\* The process ends, or a read of the database fails and the process aborts.
Crash ==
    /\ tip' = EmptyCache /\ tipBest' = NullBlock
    /\ view' = EmptyCache /\ live' = FALSE
    /\ UNCHANGED <<db, dbBest, failures, stateOf>>

Next ==
    \/ OpenView \/ DiscardView \/ FlushTip \/ FlushTipFails \/ Crash
    \/ \E x \in Txids : ViewFetch(x) \/ TipFetch(x) \/ Uncache(x)
    \/ \E x \in Txids, c \in Coins : ModifyCoins(x, c)
    \/ \E x \in Txids, coinbase \in BOOLEAN, c \in Coins : ModifyNewCoins(x, coinbase, c)
    \/ \E b \in Blocks : FlushView(b)

Spec == Init /\ [][Next]_vars

-----------------------------------------------------------------------------
\* Properties.

\* A FRESH flag is only set where the next level has no unspent output for
\* the transaction, and an entry that is not DIRTY equals the next level:
\* the two meanings coins.h:269-270 gives to the flags.
FlagsSound ==
    \A x \in Txids :
        /\ tip[x] # NoEntry =>
              /\ tip[x].FRESH => db[x] = Pruned
              /\ ~tip[x].DIRTY => tip[x].coins = db[x]
        /\ view[x] # NoEntry =>
              /\ view[x].FRESH => TipCoins(x) = Pruned
              /\ ~view[x].DIRTY => view[x].coins = TipCoins(x)

\* The logic_error of BatchWrite (coins.cpp:215) is never thrown.
FreshNeverMisapplied == \A x \in Txids : ~Misapplied(tip[x], view[x])

\* A block's view reads back what was last written to it, and a write to one
\* transaction leaves the others alone, whichever way the cache stores it.
ReadsOwnWrites ==
    [][\A x \in Txids, c \in Coins :
          ModifyCoins(x, c) \/ (\E coinbase \in BOOLEAN : ModifyNewCoins(x, coinbase, c))
          => \A y \in Txids : ViewCoins(y)' = IF y = x THEN c ELSE ViewCoins(y)]_vars

\* As long as no database write has failed, the database and pcoinsTip hold
\* the coins of the block they name, whatever was fetched, uncached, flushed,
\* discarded or lost in a crash.
BestBlockMatchesCoins ==
    failures = 0 =>
        /\ stateOf[dbBest] = {db}
        /\ stateOf[GetBestBlock] = {[x \in Txids |-> TipCoins(x)]}

\* The database names the block "whose state this CCoinsView currently
\* represents" (coins.h:315).  A failed write breaks it: see FlushTipFails.
DatabaseRepresentsBestBlock == stateOf[dbBest] = {db}

\* The caches are invisible: database, pcoinsTip and view behave as the three
\* plain maps of UTXOSet.
UTXO == INSTANCE UTXOSet WITH
    disk    <- [coins |-> db, best |-> dbBest],
    current <- [coins |-> [x \in Txids |-> TipCoins(x)], best |-> GetBestBlock],
    working <- [x \in Txids |-> ViewCoins(x)],
    open    <- live

Refinement == UTXO!Spec
=============================================================================
