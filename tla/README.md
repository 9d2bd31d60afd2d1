# Sigecoin in TLA+

Sigecoin is a full node of the Bitcoin family (a fork of Bitcoin Core 0.14): it
receives headers, blocks and transactions from peers, keeps the tree of blocks,
follows the best valid chain, maintains the set of unspent outputs, a memory
pool and a wallet, and answers RPCs. This directory holds TLA+ models of the
parts whose correctness depends on the order in which things happen, the TLC
configurations that check them on small instances, and TLAPS proofs for
arbitrary instances.

Paths below are relative to `src/sige/`. Line numbers are those of the source
the models were translated from; `PROJECT.json` maps every definition to its
lines, lists the components, hazards, runs, findings and theorems.

    CheckQueue     the script-check queue               proofs: CheckQueueProofs
    UTXOSet        what the coins views promise         (abstract)
    CoinsView      the caches over the coins database   proofs: CoinsViewProofs
    ChainState     block tree, candidates, active chain proofs: ChainStateProofs
    MC*            small instances for TLC

To check: `tlc -config MCCheckQueue.cfg MCCheckQueue`, and so on for each run;
`tlapm CheckQueueProofs.tla`, and so on for each proof module.

## 1. Inventory

### The chain

**Block tree and active chain** (`src/validation.cpp`, `src/chain.{h,cpp}`).
State: `mapBlockIndex` (every known header with its `nStatus` flags, `nTx`,
`nChainTx`, `nSequenceId`), `setBlockIndexCandidates`, `mapBlocksUnlinked`,
`chainActive`, the counters behind `preciousblock`, `setDirtyBlockIndex`, all
under `cs_main`. Operations: accept a header, accept a block, link what waited
for it, `ActivateBestChain`, `InvalidateBlock`, `ResetBlockFailureFlags`,
`PreciousBlock`, prune, load, rewind, verify. Hard: blocks come in any order,
`ActivateBestChain` drops `cs_main` between two steps and keeps its target, a
reorganisation may fail half-way, pruning removes data that a reorganisation may
need, RPCs revise earlier verdicts. Correct when: `CheckBlockIndex`'s assertions
hold, and every call ends on the best chain that is valid and available.

**Unspent outputs** (`src/coins.{h,cpp}`, `src/txdb.cpp`). State: the coins
database with its best block, the cache `pcoinsTip` on it, and a short-lived view
per block; each cache entry is DIRTY or FRESH. Operations: fetch, modify, modify
new, flush a view, flush to disk, uncache. Hard: the flags are an optimisation
whose mistakes only show two flushes later; a crash or failed write between them.
Correct when: the caches cannot be seen, and the database always holds the coins
of the block it names.

**Block connection and undo** (`ConnectBlock`, `DisconnectBlock`, `UpdateCoins`,
`ApplyTxInUndo`). Correct when disconnecting restores exactly what connecting
changed.

**Script-check queue** (`src/checkqueue.h`). State: a vector of checks, counters
`nTodo`, `nIdle`, `nTotal`, the status `fAllOk`, a mutex and two condition
variables. Hard: wake-ups, interruption, and the master's early exit. Correct
when: the master's result is the conjunction of the checks, every check is
accounted for once, and nothing of a block is running when `Wait` has returned.

**Persistence** (`FlushStateToDisk`, `CBlockTreeDB`, block and undo files,
`LoadBlockIndexDB`, `VerifyDB`). Correct when after a crash at any point the
index covers whatever the coins database refers to.

**Signature cache** (`src/cuckoocache.h`), **deployment states**
(`src/versionbits.cpp`), **difficulty** (`src/pow.cpp`), **skip list**
(`src/chain.cpp`), **Merkle trees**: algorithms with a cache or an optimisation,
correct when they agree with the direct definition. `CheckProofOfWork` in this
tree returns true for every hash (`src/pow.cpp:91-93`, marked for removal), so no
model refuses a header for lack of work.

### Transactions

**Memory pool** (`src/txmempool.cpp`). State: `mapTx`, `mapLinks`, `mapNextTx`,
`mapDeltas`, and in every entry cached totals over its ancestors and
descendants. Operations: add, remove (block, conflict, reorganisation, expiry,
size limit, replacement), prioritise, rebuild after a disconnected block. Hard:
the totals are updated by differences. Correct when `CTxMemPool::check` holds.

**Block assembly** (`src/miner.cpp`): packages by ancestor fee rate, with a set of
modified entries; correct when the result is ordered by dependency and within its
limits. **Fee estimation** (`src/policy/fees.cpp`): decaying averages.

**Relay and orphans** (`src/netprocessing.cpp`, `src/limitedmap.h`): orphans in
two indexes, `recentRejects`, `mapAskFor` and `mapAlreadyAskedFor` with their
retry times.

### Peers

**Block download** (`src/netprocessing.cpp`). State: `mapBlocksInFlight`, per peer
the list of its downloads and counters, best known and last common block, global
counts. Operations: announce, request, receive, time out, stall, disconnect,
compact block. Correct when `FinalizeNode`'s assertions hold and every announced
block is eventually requested from a peer that stays.

**Connections** (`src/net.cpp`): five threads, reference-counted `CNode`s, pause
flags between the socket and message threads, semaphores for outbound slots,
`Interrupt` and `Stop`. Correct when no node is deleted in use, no peer stays
paused for ever, and `Stop` returns.

**Addresses** (`src/addrman.cpp`): new and tried tables, reference counts,
`vRandom`; correct when `Check_` holds. **Network time**, **Tor control**: small.

### Wallet

**Transactions** (`wallet/wallet.cpp`): `mapWallet`, `mapTxSpends`, and the states
confirmed, conflicted, abandoned, in the pool, driven by the validation signals.
**Keys and key pool** (`TopUpKeyPool`, `ReserveKeyFromKeyPool`, `KeepKey`,
`ReturnKey`, `NewKeyPool`, `EncryptWallet`): correct when no key is handed out
twice and no index is reused while its record is in use. **Database**
(`wallet/db.cpp`, `wallet/wallet_db.cpp`): Berkeley DB transactions.

### Services

**Scheduler** (`src/scheduler.cpp`), **HTTP work queue** (`src/httpserver.cpp`),
**RPC dispatch**, **start-up and shutdown** (`src/init.cpp`), validation signals
and ZMQ. The rest (script interpreter, serialization, cryptography, addresses,
GUI, tools, vendored libraries) is sequential code over data, which a model
checker does not reach; `PROJECT.json` lists it with the reason.

### How they interact

The message thread calls `ProcessMessages`, which calls `ProcessNewBlock`;
that stores the block under `cs_main` and runs `ActivateBestChain`, which
connects blocks through a coins view, the check queue and undo data, updates the
memory pool and signals wallet and net processing. RPC threads call the same
functions. `FlushStateToDisk` runs at the end of most of them. The scheduler and
shutdown flush as well. `cs_main` is the lock all of them share; the interesting
interleavings are at the places that release it.

## 2. The models

### CheckQueue

An action is one critical section of the mutex, or the execution of a batch
outside it. `pc` says where each thread is in `Loop`. `Enter`, `Resume` and
`CleanUp` are the three ways to reach the inner `while` (first entry, return from
`cond.wait`, end of a batch); each changes the counters and then goes on as
`Return`, `Sleep` or `Take` (`Proceed`) without releasing the lock, as the code
does. `Add` notifies one worker for one check and all for more. A wait may wake
spuriously; a worker may be interrupted in its wait, which leaves `nIdle` and
`nTotal` as they were. The vector is a set: a thread takes any `nNow` checks,
which includes the last ones that the code takes.

Left out: the import thread belongs to the same thread group as the workers
(`src/init.cpp:1563`) and can be interrupted while it waits as the master. The
control's destructor then waits again; `nIdle` and `nTotal` are both one too high
from then on, which `IsIdle` does not notice. `MasterReturns` speaks of masters
that are not interrupted.

### UTXOSet and CoinsView

`CoinsView` has the database, `pcoinsTip` and the view of one block. The two
caches are functions from transaction to an entry with its flags, and the methods
of `CCoinsViewCache` are operators on one entry (`Fetched`, `Modifiable`,
`NewModifiable`, `Release`, `Merge`, `Stored`), used at both levels. What is
stored for a transaction is opaque, or `Pruned` when nothing is left. `Crash` can
happen at any time; `FlushTipFails` is a batch that throws after the cache has
been emptied. `stateOf` is a history variable: the coins of every block that was
committed, which a block determines. `UTXOSet` is the same system without caches:
saved, committed and working copies of one map. `CoinsView!Refinement` maps what a
reader of each level sees to those three.

### ChainState

The tree of all blocks that may ever arrive is a constant, with parents,
ancestors and work. A flag of `nStatus` is a set of blocks. An action is one
critical section of `cs_main`: a call of `ProcessNewBlock` is its `AcceptBlock`
followed by the steps of `ActivateBestChain`, one action per iteration
(`ActivateNothing`, `ActivateBestChainStep`), with `mostWork[t]` kept in between.
`FindMostWorkChain` is not a loop here: the candidates it passes over and what it
does to them are computed as sets (`Passed`, `FoundFailed`, `FoundMissing`,
`FoundUnusable`), in the order of `CBlockIndexWorkComparator`. In the same way
`Goal` is where `ActivateBestChainStep` stops (more work than the old tip) and
`Stuck` the blocks on the way that do not connect. Whether a block fails
`CheckBlock` or `ConnectBlock` is a constant of the block. The RPCs, pruning and
failing block writes are enabled by the constant `Operations`, so that a run can
leave out those that are known to break an assertion (section 4).

What can go wrong on the way is kept apart as the code does it:

- A block connects from memory if it is the target and the caller passed it
  (`pblock`), from disk otherwise. A block that has no data cannot be read, which
  shuts the node down (`Unreadable`). A stored copy of a block in `Damaged` fails
  `CheckBlock` with `CorruptionPossible`: it does not connect and is not marked
  (`Corrupted`, `InvalidBlockFound`; 1310 and 2402).
- A block is taken off the chain if it has data and undo data and is not damaged
  (`Undoable`). Without data `DisconnectTip` shuts the node down. Without undo data
  (1591) it only fails: `ActivateBestChain` returns false (`failure`), and
  `InvalidateBlock` stops, but the RPC goes on to `ActivateBestChain`. A pruned
  block that is received again has data and no undo data, since it is not connected
  again. The genesis block never has undo data.
- `WriteBlockToDisk` may fail (`"diskfull"`): `AbortNode` is called, and the
  entry is still updated as if the block were stored (3213-3215).

`MaxPrecious` stands for the smallest `int32_t`, at which the counter of
`preciousblock` stops. `AtRest` means that no call of `ActivateBestChain` is under
way and that the last one succeeded.

Left out: `setDirtyBlockIndex`, `pindexBestHeader`, `pindexBestInvalid`, warnings,
checkpoints, flushing and restart; multiplicities in `mapBlocksUnlinked`.

## 3. Runs

| run | instance | what it shows |
|---|---|---|
| `checkqueue` | 2 workers, 1 master, 4 checks, batches of at most 2 | counters, result, idleness, no stragglers, the master returns |
| `coins` | 2 transactions, 2 values, 3 blocks, 1 failed write | flags, reads, best block, refinement of `UTXOSet` |
| `coins_write_failure` | the same | finding 1 |
| `chain_single` | tree of 6 blocks, 1 thread, one block fails `CheckBlock`, one `ConnectBlock`, invalidate | the assertions of `CheckBlockIndex`, the best block stays a candidate, best chain active at rest |
| `chain_precious` | tree of 4, two branches of equal work, 1 thread, invalidate, precious | ties are decided as asked, the counter saturates |
| `chain_prune` | tree of 6, 1 thread, pruning | missing data is remembered and recovered from |
| `chain_rpc` | tree of 5, 1 thread, invalidate, reconsider, prune, failing writes, one damaged block | received data stays consistent, the active chain stays valid as far as it can be undone |
| `chain_threads` | tree of 6, 2 threads, one block fails `ConnectBlock`, one is damaged | everything received is linked, every call returns unless it meets the damaged block |
| `chain_race` | tree of 6, 2 threads | finding 2 |
| `chain_race_assert` | tree of 6, 2 threads, invalidate | finding 3 |
| `chain_reconsider_flags` | tree of 6, 1 thread, invalidate, reconsider | finding 4 |
| `chain_midway` | tree of 6, 1 thread, one block fails `ConnectBlock` | finding 5 |

The candidates are checked in three forms. `CandidatesComplete` is the assertion of
`CheckBlockIndex` as it stands; finding 5 is about it. `CandidatesRestored` is the
same where `ActivateBestChain` itself asserts it, after it succeeded.
`BestIsCandidate` is what holds in between: the best valid, available block is in
the set at every moment, so the loop can always come back to it.

**Bounds.** Four checks and batches of two make a thread meet a queue that is
empty, shorter and longer than a batch, and let two threads hold a batch while a
third check waits; blocks follow each other without end, so a counter that is not
reset shows in the next one. Two transactions let a write to one disturb the
other, two values tell a stale coin from a fresh one, three blocks give a
predecessor, a successor and a competitor. The trees have a branch point at the
genesis block, one above it, and branches of equal and of greater work, so that
ties, reorganisations that fail half-way and blocks that wait two levels deep all
occur; `MaxSequence` lets every block arrive once (and again after pruning),
`MaxPrecious = 2` in `chain_precious` lets `preciousblock` use two reverse numbers,
reset and saturate. `chain_precious` has a tree of its own, small enough for any
sequence of the RPCs. `chain_prune` and `chain_rpc` allow a stop, since the bound on sequence numbers, or a node that has aborted,
ends the behaviour. Symmetry is used only in `coins`, which has no liveness
property.

**Fairness.** `CheckQueue` assumes that a thread that can take the mutex
eventually does, that a batch ends, and that a control object is waited for or
destroyed (the destructor waits); nothing is assumed of workers starting, of
spurious wake-ups or of interruptions. `ChainState!FairSpec` assumes that a
thread inside `ActivateBestChain` gets `cs_main` again; arrivals are not fair.

## 4. Findings

1. `CCoinsViewDB::BatchWrite` (`src/txdb.cpp:60`) erases the cache entries while
   it builds the batch. If the write throws, the flush in `Shutdown` stores the
   new best block without its coins; `GetBestBlock` then no longer names "the
   block hash whose state this CCoinsView currently represents"
   (`src/coins.h:315`).
2. `ActivateBestChain` keeps `pindexMostWork` while it releases `cs_main`
   (`src/validation.cpp:2493`). If another thread moves on to a better tip, the
   first call goes back to its own target and returns: "The result is either
   failure or an activated best chain" (2462) does not hold.
3. For the same reason, after `invalidateblock` in another thread the call
   connects a block that is no longer a candidate, and
   `PruneBlockIndexCandidates` asserts on an empty set (2358-2359).
4. `ResetBlockFailureFlags` (2641) clears ancestors but not their other
   descendants, against the assertion at 4051.
5. `CheckBlockIndex` asserts that the tip is a candidate (4056-4060), and runs when
   a header or a block is accepted (3123, 3237). If another thread is between two
   iterations of `ActivateBestChain`, after a block of a new branch connected and
   the next one failed, the tip has less work than the old one and is not in the
   set.

Further limits of the code explain which operations the runs combine, which
exceptions the properties make and which hypotheses the theorems have. They are
not findings, since no comment or assertion excludes them.

- `invalidateblock` on a block at or below one that cannot be disconnected marks it
  and leaves it active. If the reason is missing undo data or a damaged copy, the RPC
  reports success. `ActiveChainValid` names this exception.
- A chain through a damaged stored block is chosen again in every iteration, since
  the block is never marked: the call does not return until the node is shut down.
  `ActivationReturns` names this exception.
- A reorganisation that fails for lack of undo data leaves the chain where it stopped,
  with the tip out of the candidates, and the call fails. `AtRest` excludes it.
- With two threads and pruning, a call may connect from memory a target whose file
  was pruned while it was between two iterations: undo data without data. So
  `ReceivedIsConsistent` assumes no pruning or one thread.
- Pruning and `preciousblock` together break `UnlinkedExact`, since `preciousblock` puts
  a block back among the candidates that waits in `mapBlocksUnlinked`; no run
  combines them.
- In `ConnectBlock`, `txdata` (1864) is declared after `control` (1854), so an early
  return destroys it before the control joins the workers. Object lifetimes are not
  modelled; `NoStragglers` speaks of the time after the join.

Three more concern linking. `reconsiderblock` does not offer the ancestors
it clears as candidates. A block that arrives on a failed, unlinked parent is not
kept in `mapBlocksUnlinked` (2727). A block that waits there and is pruned is
forgotten (3315), so that its `nChainTx` is not set when its ancestors arrive. So
`CandidatesRestored`, `LinkedComplete` and `BestChainActivated` are checked
without `reconsiderblock`, and `LinkedComplete` without pruning too.

## 5. Proofs

All theorems are about every value of the constants that satisfies the named
assumptions (finite sets; for the block tree: ancestors form a chain and work
grows along it), with any number of threads, checks, transactions and blocks.

**CheckQueueProofs** proves all five invariants of the run. The inductive
invariant joins to them what a thread in each position holds (`PositionInv`), what
`nIdle` and `nTotal` count, interrupted workers included (`CountsInv`), and that
`fAllOk` and the local results of finished batches are right about the checks they
cover (`StatusInv`). `ResultCorrect` alone is not inductive: it speaks of a master
that has returned, and the step that returns needs to know that nothing is pending
and that every result is merged. A critical section is proved in two parts: the
first leaves a state that satisfies `Mid`, and from `Mid` each of `Return`,
`Sleep` and `Take` restores the invariant.

**CoinsViewProofs** proves all four invariants, the action property and the
refinement. The inductive invariant is `TypeOK`, `FlagsSound` for each transaction
at both levels, `BestBlockMatchesCoins`, and that a view that is not alive is
empty. The lemmas say that each method on
one entry keeps `FlagsSound`; the flush of a view needs that a FRESH entry of the view lies above
nothing, which is `NeverMisapplied`. The refinement holds with failed writes too,
because `UTXOSet` says what they do.

**ChainStateProofs** proves `TypeOK` under all operations and interleavings,
`ReceivedConsistent` without pruning or with one thread, `ActiveChainValid` with one
thread, `FailureHasCause` without `reconsiderblock` (finding 4 refutes it with), and
`CandidatesSound` without `preciousblock` and pruning. The inductive invariant
`IInv` adds to the type that what is linked, the tip and every remembered target
included, is received and linked below (`LinkedInv`), and how data and waiting blocks
are related (`DataInv`). The lemmas establish that the extremes chosen by `Lowest`,
`Highest` and `FindMostWorkChain` exist, that the fork lies on both chains, and what
linking a block visits.

That undo data implies data needs more: a block is connected from memory even
without data, so the target must still be stored (`StoredInv`). That is immediate
without pruning. With it, it follows for one thread from `TargetInv`: a remembered
target lies strictly above the tip, where nothing is pruned, has its data, and
nothing on the way to it has failed. The last part is also what `ActiveChainValid`
needs when the next iteration connects it; a target just chosen is clear because
`FindMostWorkChain` met no obstacle, and `invalidateblock` marks an active block only
if it walks down past it or stops on a block that cannot be undone. With two
threads finding 3 shows why `TargetInv` fails.

`CandidatesSound` needs in addition that nothing linked still waits in
`mapBlocksUnlinked` (`SoundInv`); otherwise a second visit would renumber a candidate.

**Only model-checked:** `MasterReturns` and `ActivationReturns` (liveness is out of
the prover's reach); `ScriptsOnScripts`, `LinkedComplete`, `CandidatesRestored`,
`BestIsCandidate`, `UnlinkedExact`, `BestChainActivated` and `PruneLeavesCandidate`.

## 6. Plan

In this order, the most important behaviour first:

| module | composes | state and steps | properties |
|---|---|---|---|
| `ChainDisk` | block index, files, coins | `FlushStateToDisk` one write at a time, crash, `LoadBlockIndexDB` | after a crash the index covers the coins; what is loaded satisfies the invariants of `ChainState` up to the lines that break them (3509) |
| `BlockUndo` | coins of one block | connect and disconnect | disconnecting is the inverse, errors included |
| `MemPool` | chain tip | all additions and removals, replacement, reorganisation, prioritise | totals equal their definition; no orphaned child; refines a plain set of transactions; 716 against 938 as a violation |
| `BlockDownload` | peers, block tree | in-flight map, windows, stalling, timeouts, compact blocks | `FinalizeNode`'s assertions, no double count, every block is requested |
| `TxRelay` | peers | orphans, rejects, retry times | the two orphan indexes agree, a transaction is asked for again |
| `Wallet`, `KeyPool` | validation signals | conflicts, abandoning, reserve, keep, return, restart | no key twice, abandoned descendants, conflicts follow the chain |
| `Connections` | threads | references, pause flags, semaphores, stop | no deletion in use, `Stop` returns |
| `AddrMan` | | add, good, evict | `Check_` |
| `Scheduler`, `WorkQueue` | threads | queues with stop | tasks run once, stop ends |
| `Algorithms` | | skip list, versionbits, retarget, Merkle root, cuckoo cache, limitedmap | equal to the reference definition on all small inputs |

Abstract specifications worth stating: `UTXOSet` (done), a chain that only ever
moves to a best valid block for `ChainState`, a pool that is a consistent set of
transactions for `MemPool`, a key dispenser for `KeyPool`. Runs: one per module on
two peers, three to five transactions or two keys, with crashes where the code
persists; runs that share a question with an earlier one replace it.

Theorems to prove next: `LinkedComplete` without pruning and failures,
`PruneLeavesCandidate` for one thread; the totals of `MemPool` for additions; the counters of `BlockDownload`; the reference counts of
`AddrMan` and `Connections`; index coverage after a crash for `ChainDisk`.

`PROJECT.json` lists the weightiest hazards. Others that the planned modules
should also reach, at their lines: pruned files unlinked before the coins are
flushed (`src/validation.cpp:2064`); `BLOCK_FAILED_CHILD` set without marking the
block dirty (2329); the pool refilled while `chainActive` still ends at the
disconnected block (2211); unsigned totals changed by signed differences
(`src/txmempool.cpp:333`); eviction of whole packages at the limit (1096); block
availability and last common block after a reorganisation
(`src/netprocessing.cpp:368`, 472); `recentRejects` reset lazily (898); `setAskFor`
cleared only by an answer (`src/net.cpp:2541`); pause flags set and cleared by
different threads (1313); `stop(drain)` with tasks that reschedule themselves
(`src/scheduler.cpp:86`); items queued after `Interrupt` (`src/httpserver.cpp:107`);
the early exit of the deployment cache (`src/versionbits.cpp:43`); the retarget
interval (`src/pow.cpp:43`); the choice between skip and parent
(`src/chain.cpp:92`); a displaced cache entry (`src/cuckoocache.h:423`); a reserved
key after a crash (`wallet/wallet.cpp:2647`); a transaction whose write to the
wallet failed (2354).

## 7. Not modelled

The script interpreter and the stateless consensus checks (constants of a block
or a check here), proof-of-work arithmetic, serialization, cryptography, name
resolution, the GUI, tools and vendored libraries. LevelDB is assumed to write a
batch atomically or not at all; Boost condition variables may wake spuriously.
