----------------------------- MODULE ChainState -----------------------------
(***************************************************************************)
(* The block tree and the active chain (validation.cpp): mapBlockIndex     *)
(* with the status of every entry, setBlockIndexCandidates,                *)
(* mapBlocksUnlinked, chainActive, and the operations on them: arrival of  *)
(* headers and blocks, ActivateBestChain, the RPCs invalidateblock,        *)
(* reconsiderblock and preciousblock, and pruning.                         *)
(*                                                                         *)
(* Every action is one critical section of cs_main.  ActivateBestChain     *)
(* releases cs_main between two iterations of its loop and keeps its       *)
(* pindexMostWork meanwhile, so each thread has a mostWork of its own and  *)
(* the iterations of several threads interleave.                           *)
(*                                                                         *)
(* The tree of all blocks that can ever arrive is a constant; a flag of    *)
(* nStatus is the set of the blocks that have it.  nTx > 0 and             *)
(* BLOCK_VALID_TRANSACTIONS are one set, hasTx (ReceivedBlockTransactions  *)
(* sets both), and nChainTx > 0 is the set linked.  A pair (pprev, b) of   *)
(* mapBlocksUnlinked is represented by b; its multiplicity is not kept.    *)
(* setDirtyBlockIndex and the writing of the index to disk are left out.   *)
(***************************************************************************)
EXTENDS Integers, FiniteSets

CONSTANTS
  Blocks,             \* every block that can arrive
  Genesis,
  Parent,             \* pprev
  Ancestors,          \* the block itself and everything below it
  nChainWork,
  Address,            \* the order of the CBlockIndex pointers
  CheckFails,         \* blocks that fail CheckBlock or ContextualCheckBlock
  ConnectFails,       \* blocks that fail ConnectBlock
  Damaged,            \* blocks whose transactions are damaged on disk
  Threads,            \* callers of ProcessNewBlock and of the RPCs
  Null,
  Operations,         \* the optional operations the environment uses
  MIN_BLOCKS_TO_KEEP,
  MaxWork,            \* bound on nChainWork, which has 256 bits
  MaxSequence,        \* bound on nBlockSequenceId
  MaxPrecious         \* -numeric_limits<int32_t>::min()

ASSUME TreeAssumption ==
  /\ IsFiniteSet(Blocks)
  /\ Genesis \in Blocks /\ Null \notin Blocks
  /\ Parent \in [Blocks \ {Genesis} -> Blocks]
  /\ Ancestors \in [Blocks -> SUBSET Blocks]
  /\ Ancestors[Genesis] = {Genesis}
  /\ \A b \in Blocks : Genesis \in Ancestors[b]
  /\ \A b \in Blocks \ {Genesis} :
        /\ Ancestors[b] = Ancestors[Parent[b]] \cup {b}
        /\ b \notin Ancestors[Parent[b]]
  /\ \A b \in Blocks : \A c \in Ancestors[b] : Ancestors[c] \subseteq Ancestors[b]

\* The blocks below a block are a chain.
ASSUME ChainAssumption ==
  \A b \in Blocks : \A S \in SUBSET Ancestors[b] :
     S # {} => /\ \E low \in S : \A c \in S : low \in Ancestors[c]
               /\ \E high \in S : \A c \in S : c \in Ancestors[high]

ASSUME WorkAssumption ==
  /\ MaxWork \in Nat /\ nChainWork \in [Blocks -> 0..MaxWork]
  /\ \A b \in Blocks : \A c \in Ancestors[b] \ {b} : nChainWork[c] < nChainWork[b]
  /\ Address \in [Blocks -> Nat]
  /\ \A a, b \in Blocks : Address[a] = Address[b] => a = b

ASSUME ParameterAssumption ==
  /\ CheckFails \subseteq Blocks \ {Genesis}
  /\ ConnectFails \subseteq Blocks \ {Genesis}
  /\ Damaged \subseteq Blocks \ {Genesis}
  /\ MIN_BLOCKS_TO_KEEP \in Nat /\ MaxSequence \in Nat /\ MaxPrecious \in Nat \ {0}

VARIABLES
  known,          \* mapBlockIndex: every entry is at least BLOCK_VALID_TREE
  hasTx,          \* BLOCK_VALID_TRANSACTIONS or more, nTx > 0
  scripts,        \* BLOCK_VALID_SCRIPTS
  data,           \* BLOCK_HAVE_DATA
  undo,           \* BLOCK_HAVE_UNDO
  failedValid,    \* BLOCK_FAILED_VALID
  failedChild,    \* BLOCK_FAILED_CHILD
  linked,         \* nChainTx > 0
  nSequenceId,
  candidates,     \* setBlockIndexCandidates
  unlinked,       \* mapBlocksUnlinked
  tip,            \* chainActive.Tip()
  nBlockSequenceId, nBlockReverseSequenceId, nLastPreciousChainwork,
  fHavePruned,
  aborted,        \* AbortNode was called
  activating,     \* the threads inside ActivateBestChain
  mostWork,       \* pindexMostWork of each of them
  pblock,         \* the block each of them was given in memory
  failure         \* the call of ActivateBestChain that returned last failed

flags == <<hasTx, scripts, data, undo, failedValid, failedChild, linked>>
precious == <<nBlockReverseSequenceId, nLastPreciousChainwork>>
calls == <<activating, mostWork, pblock, failure>>
vars == <<known, flags, nSequenceId, candidates, unlinked, tip,
          nBlockSequenceId, precious, fHavePruned, aborted, calls>>

(***************************************************************************)
(* Reading the tree.                                                       *)
(***************************************************************************)
nHeight(b) == Cardinality(Ancestors[b]) - 1

Failed(b) == b \in failedValid \cup failedChild

\* CBlockIndex::IsValid(BLOCK_VALID_TRANSACTIONS)
IsValid(b) == b \in hasTx /\ ~Failed(b)

\* CBlockIndexWorkComparator: does a sort before b, given sequence numbers seq?
SortsBefore(seq, a, b) ==
  \/ nChainWork[a] < nChainWork[b]
  \/ /\ nChainWork[a] = nChainWork[b]
     /\ \/ seq[a] > seq[b]
        \/ seq[a] = seq[b] /\ Address[a] > Address[b]

Worse(a, b) == SortsBefore(nSequenceId, a, b)

ChainActive == Ancestors[tip]

\* The blocks above `base' on the way to b.
Route(b, base) == Ancestors[b] \ Ancestors[base]

Lowest(S) == CHOOSE b \in S : \A c \in S : b \in Ancestors[c]
Highest(S) == CHOOSE b \in S : \A c \in S : c \in Ancestors[b]

\* CChain::FindFork
FindFork(b) == Highest(Ancestors[b] \cap ChainActive)

Init ==
  /\ known = {Genesis} /\ hasTx = {Genesis} /\ data = {Genesis}
  /\ linked = {Genesis} /\ candidates = {Genesis}
  /\ scripts = {} /\ undo = {} /\ failedValid = {} /\ failedChild = {}
  /\ unlinked = {} /\ tip = Genesis
  /\ nSequenceId = [b \in Blocks |-> IF b = Genesis THEN 1 ELSE 0]
  /\ nBlockSequenceId = 2
  /\ nBlockReverseSequenceId = -1 /\ nLastPreciousChainwork = 0
  /\ fHavePruned = FALSE /\ aborted = FALSE
  /\ activating = {} /\ mostWork = [t \in Threads |-> Null]
  /\ pblock = [t \in Threads |-> Null] /\ failure = FALSE

(***************************************************************************)
(* Headers and blocks arrive.                                              *)
(***************************************************************************)

\* AcceptBlockHeader: known and not failed, or new on a parent that is not.
AcceptableHeader(b) ==
  /\ b # Genesis
  /\ IF b \in known THEN ~Failed(b)
                    ELSE Parent[b] \in known /\ ~Failed(Parent[b])

AddToBlockIndex(b) == known' = known \cup {b}

\* ProcessNewBlockHeaders with one header that is not known yet.  A block whose
\* body was corrupted on the way leaves no more than this either.
ProcessNewBlockHeader(b) ==
  /\ ~aborted
  /\ b \notin known /\ AcceptableHeader(b)
  /\ AddToBlockIndex(b)
  /\ UNCHANGED <<flags, nSequenceId, candidates, unlinked, tip,
                 nBlockSequenceId, precious, fHavePruned, aborted, calls>>

\* A thread enters ActivateBestChain, with pindexMostWork = NULL and the block b
\* or Null in memory.
CallActivateBestChain(t, b) ==
  /\ activating' = activating \cup {t}
  /\ mostWork' = [mostWork EXCEPT ![t] = Null]
  /\ pblock' = [pblock EXCEPT ![t] = b]
  /\ UNCHANGED failure

\* AcceptBlock returns before it looks at the block itself.
Ignored(b, fRequested) ==
  \/ b \in data
  \/ /\ ~fRequested
     /\ \/ b \in hasTx
        \/ nChainWork[b] <= nChainWork[tip]
        \/ nHeight(b) > nHeight(tip) + MIN_BLOCKS_TO_KEEP

\* ProcessNewBlock of a block that AcceptBlock ignores: only its header counts.
ProcessIgnoredBlock(t, b, fRequested) ==
  /\ ~aborted /\ t \notin activating
  /\ AcceptableHeader(b) /\ Ignored(b, fRequested)
  /\ AddToBlockIndex(b)
  /\ CallActivateBestChain(t, b)
  /\ UNCHANGED <<flags, nSequenceId, candidates, unlinked, tip,
                 nBlockSequenceId, precious, fHavePruned, aborted>>

\* ProcessNewBlock of a block that fails CheckBlock or ContextualCheckBlock.
ProcessBadBlock(t, b, fRequested) ==
  /\ ~aborted /\ t \notin activating
  /\ AcceptableHeader(b) /\ ~Ignored(b, fRequested) /\ b \in CheckFails
  /\ known' = known \cup {b}
  /\ failedValid' = failedValid \cup {b}
  /\ UNCHANGED <<hasTx, scripts, data, undo, failedChild, linked, nSequenceId,
                 candidates, unlinked, tip, nBlockSequenceId, precious,
                 fHavePruned, aborted, calls>>

\* A wrong Visited: every descendant is visited, received or not.
VisitedAll(b) == {c \in known : b \in Ancestors[c]}

\* A wrong Visited: the blocks that wait for b are forgotten.
VisitedAlone(b) == {c \in Blocks : c = b}

\* The blocks the queue of ReceivedBlockTransactions visits: b, and what waits
\* in mapBlocksUnlinked for a block that is visited.
Visited(b) ==
  {c \in Blocks : b \in Ancestors[c] /\ Route(c, b) \subseteq unlinked}

\* The order in which the queue takes them: lower blocks first.
VisitOrders(S) ==
  {order \in [S -> 1..Cardinality(S)] :
     \A c, d \in S : /\ order[c] = order[d] => c = d
                     /\ nHeight(c) < nHeight(d) => order[c] < order[d]}

\* A wrong NewCandidates: also those that are worse than the tip.
NewCandidatesAll(visited, seq) == visited

NewCandidates(visited, seq) == {c \in visited : ~SortsBefore(seq, c, tip)}

\* A wrong StillWaiting: what was visited stays in mapBlocksUnlinked.
StillWaitingAll(visited) == unlinked

StillWaiting(visited) == {c \in unlinked : Parent[c] \notin visited}

ReceivedBlockTransactions(b) ==
  /\ hasTx' = hasTx \cup {b}
  /\ data' = data \cup {b}
  /\ \/ /\ Parent[b] \in linked
        /\ LET visited == Visited(b) IN
           \E order \in VisitOrders(visited) :
              LET seq == [c \in Blocks |-> IF c \in visited
                                           THEN nBlockSequenceId + order[c] - 1
                                           ELSE nSequenceId[c]]
              IN  /\ nSequenceId' = seq
                  /\ nBlockSequenceId' = nBlockSequenceId + Cardinality(visited)
                  /\ candidates' = candidates \cup NewCandidates(visited, seq)
                  /\ linked' = linked \cup visited
                  /\ unlinked' = StillWaiting(visited)
     \/ /\ Parent[b] \notin linked
        /\ unlinked' = IF Failed(Parent[b]) THEN unlinked ELSE unlinked \cup {b}
        /\ linked' = linked \ {b}
        /\ UNCHANGED <<nSequenceId, nBlockSequenceId, candidates>>

\* ProcessNewBlock of a block that is stored.  If WriteBlockToDisk fails the node
\* is shut down, but the entry is updated all the same.
ProcessNewBlock(t, b, fRequested) ==
  /\ ~aborted /\ t \notin activating
  /\ nBlockSequenceId < MaxSequence
  /\ AcceptableHeader(b) /\ ~Ignored(b, fRequested) /\ b \notin CheckFails
  /\ known' = known \cup {b}
  /\ aborted' \in BOOLEAN /\ (aborted' => "diskfull" \in Operations)
  /\ ReceivedBlockTransactions(b)
  /\ CallActivateBestChain(t, b)
  /\ UNCHANGED <<scripts, undo, failedValid, failedChild, tip, precious,
                 fHavePruned>>

(***************************************************************************)
(* ActivateBestChain.                                                      *)
(***************************************************************************)

\* A wrong Obstacles: failed blocks do not count.
ObstaclesMissing(c) == {b \in Route(c, tip) : b \notin data}

\* FindMostWorkChain takes the candidates best first and walks each one down to
\* the active chain; the first block it meets that failed or lacks its data
\* makes the candidate unusable.
Obstacles(c) == {b \in Route(c, tip) : Failed(b) \/ b \notin data}
Obstacle(c) == Highest(Obstacles(c))
AboveObstacle(c) == Route(c, Obstacle(c))
Usable == {c \in candidates : Obstacles(c) = {}}
FindMostWorkChain ==
  IF Usable = {} THEN Null
  ELSE CHOOSE c \in Usable : \A d \in Usable \ {c} : Worse(d, c)
Passed ==
  {c \in candidates \ Usable : Usable = {} \/ Worse(FindMostWorkChain, c)}
PassedFailed == {c \in Passed : Failed(Obstacle(c))}

\* A wrong FoundFailed: the blocks below the failed one are marked as well.
FoundFailedRoute == UNION {Route(c, tip) : c \in PassedFailed}

FoundFailed == UNION {AboveObstacle(c) : c \in PassedFailed}

\* A wrong FoundMissing: a chain that lacks data is dropped for good.
FoundMissingNone == {}

\* A wrong FoundMissing: the block without data is put back as well.
FoundMissingToo ==
  UNION {AboveObstacle(c) \cup {Obstacle(c)} : c \in Passed \ PassedFailed}

FoundMissing == UNION {AboveObstacle(c) : c \in Passed \ PassedFailed}

FoundUnusable == UNION {AboveObstacle(c) \cup {Obstacle(c)} : c \in Passed}

\* A wrong PruneBlockIndexCandidates: the current tip goes too.
PruneWithTip(set, top) == {c \in set : Worse(top, c)}

\* PruneBlockIndexCandidates, for the tip `top'.
PruneBlockIndexCandidates(set, top) == {c \in set : ~Worse(c, top)}

\* How far ActivateBestChainStep gets towards `target': DisconnectTip down to
\* the fork, then ConnectTip until the chain has more work than before.
Undone(target) == Route(tip, FindFork(target))
Goal(target) ==
  LET route == Route(target, FindFork(target))
  IN  Lowest({target} \cup {b \in route : nChainWork[b] > nChainWork[tip]})

\* The blocks DisconnectTip can take off: DisconnectBlock needs their undo data,
\* which a pruned block does not get back when it is received again, and finds
\* that damaged transactions do not match the coins.
Undoable == (data \cap undo) \ Damaged

\* DisconnectTip fails on a block and the chain stays there.  A block that cannot
\* be read shuts the node down; any other failure only ends the call.
DisconnectFails(target) ==
  LET lost == Undone(target) \ Undoable
  IN  /\ lost # {}
      /\ tip' = Highest(lost)
      /\ aborted' = (Highest(lost) \notin data)
      /\ UNCHANGED <<known, hasTx, scripts, data, undo, failedValid, linked,
                     nSequenceId, nBlockSequenceId, precious, fHavePruned>>

\* ConnectTip takes the block that was asked for from memory, if the caller gave
\* it, and every other block from disk.
InMemory(t, target, b) == b = target /\ b = pblock[t]
Unreadable(t, target, b) == b \notin data /\ ~InMemory(t, target, b)
Corrupted(t, target, b) == b \in data \cap Damaged /\ ~InMemory(t, target, b)

\* The blocks on the way that do not connect.
Stuck(t, target) ==
  {b \in Route(Goal(target), FindFork(target)) :
     \/ b \in ConnectFails
     \/ Unreadable(t, target, b) \/ Corrupted(t, target, b)}

\* A wrong Raised: only the last of the connected blocks.
RaisedLast(new) == {b \in new : \A c \in new : c \in Ancestors[b]}

Raised(new) == {b \in new : ~Failed(b)}

\* ConnectBlock writes undo data and raises the validity.
Connect(target, end) ==
  LET new == Route(end, FindFork(target))
  IN  /\ tip' = end
      /\ undo' = undo \cup new
      /\ scripts' = scripts \cup Raised(new)

ConnectAll(t, target, set) ==
  /\ Undone(target) \subseteq Undoable /\ Stuck(t, target) = {}
  /\ Connect(target, Goal(target))
  /\ candidates' = IF Goal(target) = FindFork(target) THEN set
                   ELSE PruneBlockIndexCandidates(set, Goal(target))
  /\ UNCHANGED <<known, hasTx, data, failedValid, linked, nSequenceId,
                 nBlockSequenceId, precious, fHavePruned, aborted>>

\* The block InvalidBlockFound marks: none if the block could not be read, or if
\* it may be the stored copy that is wrong (CorruptionPossible).
InvalidBlockFound(t, target, bad) ==
  {b \in {bad} : ~Unreadable(t, target, b) /\ ~Corrupted(t, target, b)}

\* ConnectTip fails on a block: InvalidBlockFound, and the chain stays below it.
\* A block that cannot be read shuts the node down instead.
ConnectSome(t, target, set) ==
  LET bad == Lowest(Stuck(t, target))
      end == Parent[bad]
      invalid == InvalidBlockFound(t, target, bad)
      left == IF end = FindFork(target) THEN set
              ELSE PruneBlockIndexCandidates(set, end)
  IN  /\ Undone(target) \subseteq Undoable /\ Stuck(t, target) # {}
      /\ Connect(target, end)
      /\ failedValid' = failedValid \cup invalid
      /\ candidates' = left \ invalid
      /\ aborted' = Unreadable(t, target, bad)
      /\ UNCHANGED <<known, hasTx, data, linked, nSequenceId,
                     nBlockSequenceId, precious, fHavePruned>>

\* The call returns, or goes on with the next iteration and its pindexMostWork.
Return(t, fRet) ==
  /\ activating' = activating \ {t}
  /\ mostWork' = [mostWork EXCEPT ![t] = Null]
  /\ pblock' = [pblock EXCEPT ![t] = Null]
  /\ failure' = ~fRet

\* A wrong Continue: the call returns after its first step.
ContinueNot(t, target) == Return(t, TRUE)

Continue(t, target) ==
  /\ mostWork' = [mostWork EXCEPT ![t] = target]
  /\ UNCHANGED <<activating, pblock, failure>>

\* A wrong Rethink: the chain with the invalid block stays the target.
RethinkNot(t, target) == Continue(t, target)

\* A block did not connect: "Wipe cache, we may need another branch now."
Rethink(t, target) == Continue(t, Null)

\* One iteration that finds nothing to do.
ActivateNothing(t) ==
  /\ ~aborted /\ t \in activating
  /\ LET target == IF mostWork[t] = Null THEN FindMostWorkChain ELSE mostWork[t]
     IN  target \in {Null, tip}
  /\ IF mostWork[t] = Null
     THEN /\ failedChild' = failedChild \cup FoundFailed
          /\ unlinked' = unlinked \cup FoundMissing
          /\ candidates' = candidates \ FoundUnusable
     ELSE UNCHANGED <<failedChild, unlinked, candidates>>
  /\ Return(t, TRUE)
  /\ UNCHANGED <<known, hasTx, scripts, data, undo, failedValid, linked,
                 nSequenceId, tip, nBlockSequenceId, precious,
                 fHavePruned, aborted>>

\* One iteration that moves the tip.
ActivateBestChainStep(t) ==
  LET find == mostWork[t] = Null
      target == IF find THEN FindMostWorkChain ELSE mostWork[t]
      set == IF find THEN candidates \ FoundUnusable ELSE candidates
  IN  /\ ~aborted /\ t \in activating
      /\ target \notin {Null, tip}
      /\ failedChild' = IF find THEN failedChild \cup FoundFailed ELSE failedChild
      /\ unlinked' = IF find THEN unlinked \cup FoundMissing ELSE unlinked
      /\ \/ /\ DisconnectFails(target)
            /\ candidates' = set
            /\ Return(t, FALSE)
         \/ /\ ConnectAll(t, target, set)
            /\ IF Goal(target) = target THEN Return(t, TRUE) ELSE Continue(t, target)
         \/ /\ ConnectSome(t, target, set)
            /\ IF Unreadable(t, target, Lowest(Stuck(t, target)))
               THEN Return(t, FALSE)
               ELSE Rethink(t, target)

(***************************************************************************)
(* The RPCs and pruning.                                                   *)
(***************************************************************************)

\* A wrong PutBack: nothing.
PutBackNone(b, end) == {}

\* What InvalidateBlock inserts once the tip is `end': the valid blocks that are
\* now as good as the tip.
PutBack(b, end) ==
  {c \in linked \ (Route(tip, end) \cup {b}) : IsValid(c) /\ ~Worse(c, end)}

\* The active blocks from b to the tip, none if b is not active.
From(b) == {c \in ChainActive : b \in Ancestors[c]}

\* invalidateblock: InvalidateBlock disconnects every active block from the tip
\* down to b, and puts back what is now as good as the tip.
InvalidateBlock(t, b) ==
  LET end == IF From(b) = {} THEN tip ELSE Parent[b]
  IN  /\ "invalidate" \in Operations
      /\ ~aborted /\ t \notin activating
      /\ b \in known
      /\ From(b) \subseteq Undoable
      /\ failedValid' = failedValid \cup {b}
      /\ failedChild' = failedChild \cup From(b)
      /\ tip' = end
      /\ candidates' = (candidates \ ({b} \cup From(b))) \cup PutBack(b, end)
      /\ CallActivateBestChain(t, Null)
      /\ UNCHANGED <<known, hasTx, scripts, data, undo, linked, nSequenceId,
                     unlinked, nBlockSequenceId, precious, fHavePruned, aborted>>

\* InvalidateBlock when DisconnectTip fails on the way, which it always does for
\* the genesis block.  Unless the node is shut down the RPC goes on.
InvalidateBlockFails(t, b) ==
  LET lost == From(b) \ Undoable
      end == Highest(lost)
      walked == Route(tip, end) \cup {end}
  IN  /\ "invalidate" \in Operations
      /\ ~aborted /\ t \notin activating
      /\ b \in known /\ lost # {}
      /\ failedValid' = failedValid \cup {b}
      /\ failedChild' = failedChild \cup walked
      /\ candidates' = candidates \ ({b} \cup walked)
      /\ tip' = end
      /\ aborted' = (end \notin data)
      /\ IF end \in data THEN CallActivateBestChain(t, Null) ELSE UNCHANGED calls
      /\ UNCHANGED <<known, hasTx, scripts, data, undo, linked, nSequenceId,
                     unlinked, nBlockSequenceId, precious, fHavePruned>>

\* reconsiderblock: ResetBlockFailureFlags.
ReconsiderBlock(t, b) ==
  LET above == {c \in known : b \in Ancestors[c] /\ ~IsValid(c)}
      below == {c \in Ancestors[b] : Failed(c)}
  IN  /\ "reconsider" \in Operations
      /\ ~aborted /\ t \notin activating
      /\ b \in known
      /\ failedValid' = failedValid \ (above \cup below)
      /\ failedChild' = failedChild \ (above \cup below)
      /\ candidates' = candidates \cup
           {c \in above : c \in hasTx /\ c \in linked /\ Worse(tip, c)}
      /\ CallActivateBestChain(t, Null)
      /\ UNCHANGED <<known, hasTx, scripts, data, undo, linked, nSequenceId,
                     unlinked, tip, nBlockSequenceId, precious, fHavePruned,
                     aborted>>

\* A wrong NextReverseId: the counter goes up.
NextReverseIdUp(id) == id + 1

\* The counter stops at the smallest int32_t, here -MaxPrecious.
NextReverseId(id) == IF id > -MaxPrecious THEN id - 1 ELSE id

\* A wrong Reinserted: b is not put back.
ReinsertedNot(b, seq) == candidates \ {b}

\* PreciousBlock erases b before it changes its sequence number, puts it back if
\* it is valid and linked, and prunes what is now worse than the tip.
Reinserted(b, seq) ==
  IF IsValid(b) /\ b \in linked
  THEN {c \in candidates \cup {b} : ~SortsBefore(seq, c, tip)}
  ELSE candidates \ {b}

\* preciousblock: b sorts as if it had been received before its competitors.
PreciousBlock(t, b) ==
  LET id == IF nChainWork[tip] > nLastPreciousChainwork
            THEN -1 ELSE nBlockReverseSequenceId
      seq == [nSequenceId EXCEPT ![b] = id]
  IN  /\ "precious" \in Operations
      /\ ~aborted /\ t \notin activating
      /\ b \in known /\ nChainWork[b] >= nChainWork[tip]
      /\ nLastPreciousChainwork' = nChainWork[tip]
      /\ nSequenceId' = seq
      /\ nBlockReverseSequenceId' = NextReverseId(id)
      /\ candidates' = Reinserted(b, seq)
      /\ CallActivateBestChain(t, Null)
      /\ UNCHANGED <<known, flags, unlinked, tip, nBlockSequenceId,
                     fHavePruned, aborted>>

\* FindFilesToPrune and PruneOneBlockFile, for files that hold the blocks S, all
\* of them at least MIN_BLOCKS_TO_KEEP below the tip.
PruneBlockFiles(S) ==
  /\ "prune" \in Operations
  /\ ~aborted
  /\ S # {} /\ S \subseteq data
  /\ \A b \in S : nHeight(b) + MIN_BLOCKS_TO_KEEP <= nHeight(tip)
  /\ data' = data \ S
  /\ undo' = undo \ S
  /\ unlinked' = unlinked \ S
  /\ fHavePruned' = TRUE
  /\ UNCHANGED <<known, hasTx, scripts, failedValid, failedChild, linked,
                 nSequenceId, candidates, tip, nBlockSequenceId, precious,
                 aborted, calls>>

Next ==
  \/ \E b \in Blocks : ProcessNewBlockHeader(b)
  \/ \E t \in Threads, b \in Blocks, fRequested \in BOOLEAN :
        \/ ProcessIgnoredBlock(t, b, fRequested)
        \/ ProcessBadBlock(t, b, fRequested)
        \/ ProcessNewBlock(t, b, fRequested)
  \/ \E t \in Threads : ActivateNothing(t) \/ ActivateBestChainStep(t)
  \/ \E t \in Threads, b \in Blocks :
        \/ InvalidateBlock(t, b)
        \/ InvalidateBlockFails(t, b)
        \/ ReconsiderBlock(t, b)
        \/ PreciousBlock(t, b)
  \/ \E S \in SUBSET Blocks : PruneBlockFiles(S)

Spec == Init /\ [][Next]_vars

\* A thread inside ActivateBestChain is scheduled again and again until it returns.
FairSpec ==
  Spec /\ \A t \in Threads : WF_vars(ActivateNothing(t) \/ ActivateBestChainStep(t))

(***************************************************************************)
(* What the code claims.                                                   *)
(***************************************************************************)

\* Every variable has its type.
TypeOK ==
  /\ known \subseteq Blocks /\ hasTx \subseteq Blocks /\ scripts \subseteq Blocks
  /\ data \subseteq Blocks /\ undo \subseteq Blocks \ {Genesis}
  /\ failedValid \subseteq Blocks /\ failedChild \subseteq Blocks
  /\ linked \subseteq Blocks /\ candidates \subseteq Blocks
  /\ unlinked \subseteq Blocks \ {Genesis}
  /\ nSequenceId \in [Blocks -> {i \in Int : i >= -MaxPrecious}]
  /\ tip \in Blocks
  /\ nBlockSequenceId \in Nat \ {0}
  /\ nBlockReverseSequenceId \in -MaxPrecious..-1
  /\ nLastPreciousChainwork \in Nat
  /\ fHavePruned \in BOOLEAN /\ aborted \in BOOLEAN
  /\ activating \subseteq Threads
  /\ mostWork \in [Threads -> Blocks \cup {Null}]
  /\ pblock \in [Threads -> Blocks \cup {Null}] /\ failure \in BOOLEAN

InvalidAncestor(b) == Ancestors[b] \cap failedValid # {}
NeverProcessed(b) == ~(Ancestors[b] \subseteq hasTx)
Missing(b) == ~(Ancestors[b] \subseteq data)

\* Every call of ActivateBestChain has returned, the last one with success.
AtRest == activating = {} /\ ~aborted /\ ~failure

\* CheckBlockIndex, the part about received blocks: nChainTx is set only when the
\* block and all its ancestors have been received; only such blocks have a
\* positive sequence number; undo data needs block data; what has data has been
\* received, and still has it if nothing was pruned.
ReceivedConsistent ==
  \A b \in known :
    /\ b \in linked => ~NeverProcessed(b)
    /\ nSequenceId[b] > 0 => b \in linked
    /\ b \in undo => b \in data
    /\ b \in data => b \in hasTx
    /\ ~fHavePruned => (b \in hasTx => b \in data)

\* CheckBlockIndex: "SCRIPTS valid implies all parents are SCRIPTS valid".
ScriptsOnScripts == \A b \in scripts : Ancestors[b] \ {Genesis} \subseteq scripts

\* CheckBlockIndex: "All parents having had data (at some point) is equivalent to
\* ... nChainTx being set"; this is the direction that linking must establish.
LinkedComplete == \A b \in known : ~NeverProcessed(b) => b \in linked

\* CheckBlockIndex: a failure flag is set only where an ancestor is invalid.
FailureHasCause == \A b \in known : Failed(b) => InvalidAncestor(b)

\* CheckBlockIndex: a candidate is fully received and no worse than the tip.
CandidatesSound ==
  \A b \in candidates : ~Worse(b, tip) /\ ~NeverProcessed(b)

\* CheckBlockIndex: what is as good as the tip, valid and available is a
\* candidate: "chainActive.Tip() must also be there even if some data has been
\* pruned".  The code asserts it whenever a header or a block arrives.
CandidatesComplete ==
  \A b \in known :
    /\ ~Worse(b, tip) /\ ~NeverProcessed(b) /\ ~InvalidAncestor(b)
    /\ ~Missing(b) \/ b = tip
    => b \in candidates \/ aborted

\* The assertion CandidatesComplete where ActivateBestChain itself checks it,
\* once it has succeeded.  It is not true while a call is between two iterations.
CandidatesRestored == AtRest => CandidatesComplete

\* What is true at any moment, also in the middle of a reorganization that just
\* failed: the best valid and available block is a candidate, so "we may need to
\* return to it later" is possible.
BestIsCandidate ==
  LET contenders == {b \in known : ~NeverProcessed(b) /\ ~InvalidAncestor(b) /\ ~Missing(b)}
  IN  \A b \in contenders :
        (\A c \in contenders : ~Worse(b, c)) => b \in candidates \/ aborted

\* CheckBlockIndex on mapBlocksUnlinked: a block that was received before one of
\* its ancestors waits there, and nothing waits without reason.  So does, once
\* ActivateBestChain has succeeded, a block as good as the tip that FindMostWorkChain
\* dropped because an ancestor was pruned.
UnlinkedExact ==
  \A b \in known \ {Genesis} :
    /\ b \in data /\ NeverProcessed(b) /\ ~InvalidAncestor(b) => b \in unlinked
    /\ b \in unlinked => b \in data /\ Missing(b)
    /\ /\ AtRest /\ b \in data /\ ~NeverProcessed(b) /\ Missing(b)
       /\ ~Worse(b, tip) /\ b \notin candidates /\ ~InvalidAncestor(b)
       => b \in unlinked

\* PruneBlockIndexCandidates, after each connected block: "Either the current tip
\* or a successor of it we're working towards is left in setBlockIndexCandidates".
\* (A block that failed to connect leaves the set after that.)
PruneLeavesCandidate ==
  [][tip' \notin ChainActive
       => candidates' \cup (failedValid' \ failedValid) # {}]_vars

\* FindMostWorkChain stops at the active chain because "we know all blocks in it
\* are valid already": a failed block is active only where InvalidateBlock could
\* not get down to it, at or below a block that cannot be disconnected.
ActiveChainValid ==
  \A b \in ChainActive : Failed(b) => aborted \/ ~(From(b) \subseteq Undoable)

\* ActivateBestChain: "The result is either failure or an activated best chain":
\* when every call has returned and the last one did not fail, no usable chain
\* sorts after the tip, by its work and then by the order of arrival that
\* preciousblock may change.
BestChainActivated ==
  AtRest =>
    \A b \in known :
      /\ ~NeverProcessed(b) /\ ~InvalidAncestor(b)
      /\ Route(b, tip) \subseteq data
      => ~Worse(tip, b)

\* The chain that ActivateBestChain chooses has a block whose stored copy is
\* damaged.  Such a block does not connect and is not marked, so that the next
\* iteration chooses the same chain again.
ChoosesCorrupted(t) ==
  /\ mostWork[t] = Null /\ FindMostWorkChain # Null
  /\ LET stuck == Stuck(t, FindMostWorkChain)
     IN  stuck # {} /\ Corrupted(t, FindMostWorkChain, Lowest(stuck))

\* ActivateBestChain, "The result is either failure or an activated best chain":
\* a call returns or the node is shut down.  The one exception is that a call
\* comes upon a damaged block: it tries that block again and again, and may undo
\* what another call does meanwhile.
ActivationReturns ==
  \A t \in Threads :
    t \in activating ~> \/ t \notin activating \/ aborted
                        \/ \E u \in activating : ChoosesCorrupted(u)

=============================================================================
