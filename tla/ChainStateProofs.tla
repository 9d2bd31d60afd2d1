-------------------------- MODULE ChainStateProofs --------------------------
(***************************************************************************)
(* Theorems about ChainState, for every finite block tree, every set of    *)
(* threads and every choice of the blocks that fail.                       *)
(***************************************************************************)
EXTENDS ChainState, TLAPS, FiniteSetTheorems, WellFoundedInduction

(***************************************************************************)
(* The tree.                                                               *)
(***************************************************************************)

\* A block is one of its ancestors, as the walks along pprev start at it.
LEMMA AncestorsReflexive ==
  ASSUME NEW b \in Blocks
  PROVE  b \in Ancestors[b] /\ Ancestors[b] \subseteq Blocks
<1>1. CASE b = Genesis
  BY <1>1, TreeAssumption
<1>2. CASE b # Genesis
  BY <1>2, TreeAssumption
<1> QED BY <1>1, <1>2

\* pprev is an ancestor, and it is not above the block.
LEMMA ParentBelow ==
  ASSUME NEW b \in Blocks, b # Genesis
  PROVE  /\ Parent[b] \in Blocks
         /\ Parent[b] \in Ancestors[b]
         /\ Ancestors[Parent[b]] \subseteq Ancestors[b]
         /\ Ancestors[b] = Ancestors[Parent[b]] \cup {b}
         /\ b \notin Ancestors[Parent[b]]
<1>1. Parent[b] \in Blocks
  BY TreeAssumption
<1>2. Parent[b] \in Ancestors[Parent[b]]
  BY <1>1, AncestorsReflexive
<1> QED BY <1>1, <1>2, TreeAssumption

\* An ancestor of an ancestor is an ancestor.
LEMMA AncestorsTransitive ==
  ASSUME NEW b \in Blocks, NEW c \in Ancestors[b]
  PROVE  c \in Blocks /\ Ancestors[c] \subseteq Ancestors[b]
BY TreeAssumption

\* Two blocks of one chain are comparable.
LEMMA Comparable ==
  ASSUME NEW b \in Blocks, NEW c \in Ancestors[b], NEW d \in Ancestors[b]
  PROVE  c \in Ancestors[d] \/ d \in Ancestors[c]
<1>1. {c, d} \in SUBSET Ancestors[b] /\ {c, d} # {}
  OBVIOUS
<1>2. PICK low \in {c, d} : \A e \in {c, d} : low \in Ancestors[e]
  BY <1>1, ChainAssumption
<1> QED BY <1>2

\* Two blocks below each other are equal: the work grows along the chain.
LEMMA Antisymmetric ==
  ASSUME NEW b \in Blocks, NEW c \in Ancestors[b], b \in Ancestors[c]
  PROVE  b = c
<1>1. c \in Blocks
  BY AncestorsTransitive
<1>2. nChainWork[b] \in Nat /\ nChainWork[c] \in Nat
  BY <1>1, WorkAssumption
<1>3. b # c => nChainWork[c] < nChainWork[b] /\ nChainWork[b] < nChainWork[c]
  BY <1>1, WorkAssumption
<1> QED BY <1>2, <1>3

\* A non-empty part of a chain has a lowest and a highest block.
LEMMA Extremes ==
  ASSUME NEW b \in Blocks, NEW S, S \subseteq Ancestors[b], S # {}
  PROVE  /\ Lowest(S) \in S /\ \A c \in S : Lowest(S) \in Ancestors[c]
         /\ Highest(S) \in S /\ \A c \in S : c \in Ancestors[Highest(S)]
<1>1. S \in SUBSET Ancestors[b]
  OBVIOUS
<1>2. \E low \in S : \A c \in S : low \in Ancestors[c]
  BY <1>1, ChainAssumption
<1>3. \E high \in S : \A c \in S : c \in Ancestors[high]
  BY <1>1, ChainAssumption
<1>4. Lowest(S) \in S /\ \A c \in S : Lowest(S) \in Ancestors[c]
  BY <1>2 DEF Lowest
<1>5. Highest(S) \in S /\ \A c \in S : c \in Ancestors[Highest(S)]
  BY <1>3 DEF Highest
<1> QED BY <1>4, <1>5

\* What lies above one block of a chain has that block below it.
LEMMA RouteAbove ==
  ASSUME NEW b \in Blocks, NEW base \in Ancestors[b], NEW c \in Route(b, base)
  PROVE  c \in Ancestors[b] /\ base \in Ancestors[c] /\ c \in Blocks
BY Comparable, AncestorsTransitive DEF Route

\* CChain::FindFork finds a block of both chains.
LEMMA ForkInBoth ==
  ASSUME tip \in Blocks, NEW b \in Blocks
  PROVE  /\ FindFork(b) \in Blocks
         /\ FindFork(b) \in Ancestors[b]
         /\ FindFork(b) \in Ancestors[tip]
<1> DEFINE S == Ancestors[b] \cap Ancestors[tip]
<1>1. S \subseteq Ancestors[b] /\ S # {}
  BY TreeAssumption
<1>2. Highest(S) \in S
  BY <1>1, Extremes
<1> QED BY <1>2, AncestorsReflexive DEF FindFork, ChainActive

\* The target of ActivateBestChainStep lies on the way to pindexMostWork, at or
\* above the fork.
LEMMA GoalOnRoute ==
  ASSUME tip \in Blocks, NEW target \in Blocks
  PROVE  Goal(target) \in Ancestors[target] /\ Goal(target) \in Blocks
<1> DEFINE S == {target} \cup {b \in Route(target, FindFork(target)) :
                                 nChainWork[b] > nChainWork[tip]}
<1>1. S \subseteq Ancestors[target] /\ S # {}
  BY AncestorsReflexive DEF Route
<1>2. Lowest(S) \in S
  BY <1>1, Extremes
<1>3. Goal(target) = Lowest(S)
  BY DEF Goal
<1> QED BY <1>1, <1>2, <1>3, AncestorsReflexive

\* The block ConnectTip fails on lies above the fork, and everything between the
\* fork and its parent connects.
LEMMA StuckBlock ==
  ASSUME tip \in Blocks, NEW t \in Threads, NEW target \in Blocks,
         Stuck(t, target) # {}, NEW bad, bad = Lowest(Stuck(t, target))
  PROVE  /\ bad \in Blocks /\ bad # Genesis
         /\ bad \in Ancestors[target] /\ bad \notin Ancestors[FindFork(target)]
         /\ Parent[bad] \in Ancestors[target]
         /\ Route(Parent[bad], FindFork(target))
              \subseteq Route(Goal(target), FindFork(target)) \ Stuck(t, target)
<1>1. Goal(target) \in Blocks /\ Goal(target) \in Ancestors[target]
  BY GoalOnRoute
<1>2. Stuck(t, target) \subseteq Ancestors[Goal(target)]
  BY DEF Stuck, Route
<1>3. bad \in Stuck(t, target) /\ \A c \in Stuck(t, target) : bad \in Ancestors[c]
  BY <1>1, <1>2, Extremes
<1>4. FindFork(target) \in Blocks
  BY ForkInBoth
<1>5. bad \in Ancestors[Goal(target)] /\ bad \notin Ancestors[FindFork(target)]
  BY <1>3 DEF Stuck, Route
<1>6. bad \in Blocks /\ bad # Genesis
  BY <1>1, <1>4, <1>5, TreeAssumption
<1>7. bad \in Ancestors[target]
  BY <1>1, <1>5, AncestorsTransitive
<1>8. Parent[bad] \in Ancestors[target]
  BY <1>6, <1>7, AncestorsTransitive, ParentBelow
<1>9. ASSUME NEW c \in Route(Parent[bad], FindFork(target))
      PROVE  c \in Route(Goal(target), FindFork(target)) \ Stuck(t, target)
  <2>1. c \in Ancestors[Parent[bad]] /\ c \notin Ancestors[FindFork(target)]
    BY <1>9 DEF Route
  <2>2. c \in Ancestors[Goal(target)]
    BY <2>1, <1>1, <1>5, <1>6, AncestorsTransitive, ParentBelow
  <2>3. ASSUME c \in Stuck(t, target) PROVE FALSE
    <3>1. bad \in Ancestors[c]
      BY <1>3, <2>3
    <3>2. bad \in Ancestors[Parent[bad]]
      BY <2>1, <3>1, <1>6, ParentBelow, AncestorsTransitive
    <3> QED BY <3>2, <1>6, ParentBelow
  <2> QED BY <2>1, <2>2, <2>3 DEF Route
<1> QED BY <1>5, <1>6, <1>7, <1>8, <1>9

\* The blocks InvalidateBlock disconnects are active, and b is the lowest of them.
LEMMA FromActive ==
  ASSUME tip \in Blocks, NEW b \in Blocks
  PROVE  /\ From(b) \subseteq Ancestors[tip] /\ From(b) \subseteq Blocks
         /\ From(b) # {} => b \in From(b)
<1>1. From(b) \subseteq Ancestors[tip] /\ From(b) \subseteq Blocks
  BY AncestorsReflexive DEF From, ChainActive
<1>2. ASSUME From(b) # {} PROVE b \in From(b)
  <2>1. PICK c \in Ancestors[tip] : b \in Ancestors[c]
    BY <1>2 DEF From, ChainActive
  <2> QED BY <2>1, AncestorsTransitive, AncestorsReflexive DEF From, ChainActive
<1> QED BY <1>1, <1>2

\* Where a failing DisconnectTip leaves the chain: on the highest of the active
\* blocks it should take off and cannot.
LEMMA LostBlock ==
  ASSUME tip \in Blocks, NEW S, S \subseteq Ancestors[tip], S # {}
  PROVE  /\ Highest(S) \in S /\ Highest(S) \in Ancestors[tip] /\ Highest(S) \in Blocks
         /\ S \subseteq Ancestors[Highest(S)]
BY Extremes, AncestorsReflexive

(***************************************************************************)
(* FindMostWorkChain.                                                      *)
(***************************************************************************)

\* The block that makes FindMostWorkChain give up a candidate is the first one
\* its walk meets: what it passed before lies above it, is valid and has data.
LEMMA ObstacleFirst ==
  ASSUME tip \in Blocks, NEW c \in Blocks, Obstacles(c) # {}
  PROVE  /\ Obstacle(c) \in Blocks \ {Genesis} /\ Obstacle(c) \in Obstacles(c)
         /\ \A d \in AboveObstacle(c) :
               /\ d \in Blocks \ {Genesis} /\ d \in data
               /\ d \in Ancestors[c] /\ Obstacle(c) \in Ancestors[d]
<1> DEFINE o == Obstacle(c)
<1>1. Obstacles(c) \subseteq Ancestors[c]
  BY DEF Obstacles, Route
<1>2. o \in Obstacles(c) /\ \A d \in Obstacles(c) : d \in Ancestors[o]
  BY <1>1, Extremes DEF Obstacle
<1>3. o \in Ancestors[c] /\ o \notin Ancestors[tip]
  BY <1>2 DEF Obstacles, Route
<1>4. o \in Blocks \ {Genesis}
  BY <1>3, AncestorsReflexive, TreeAssumption
<1>5. ASSUME NEW d \in AboveObstacle(c)
      PROVE  /\ d \in Blocks \ {Genesis} /\ d \in data
             /\ d \in Ancestors[c] /\ o \in Ancestors[d]
  <2>1. d \in Ancestors[c] /\ d \notin Ancestors[o]
    BY <1>5 DEF AboveObstacle, Route
  <2>2. o \in Ancestors[d] /\ d \in Blocks
    BY <1>3, <2>1, Comparable, AncestorsReflexive
  <2>3. d \notin Ancestors[tip]
    BY <1>3, <2>2, AncestorsTransitive
  <2>4. d \in data
    BY <1>2, <2>1, <2>3 DEF Obstacles, Route
  <2>5. d # Genesis
    BY <1>4, <2>1, TreeAssumption
  <2> QED BY <2>1, <2>2, <2>4, <2>5
<1> HIDE DEF o
<1>6. o = Obstacle(c)
  BY DEF o
<1> QED BY <1>2, <1>4, <1>5, <1>6

\* A non-empty set of natural numbers has a least element.
LEMMA SetHasMin ==
  ASSUME NEW T, T \subseteq Nat, T # {}
  PROVE  \E m \in T : \A k \in T : m <= k
<1>1. PICK x \in T : \A y \in T : ~ (<<y, x>> \in OpToRel(<, Nat))
  BY NatLessThanWellFounded, WFMin
<1>2. ASSUME NEW y \in T
      PROVE  x <= y
  <2>1. <<y, x>> \in Nat \X Nat
    OBVIOUS
  <2>2. ~(<<y, x>>[1] < <<y, x>>[2])
    BY <1>1, <2>1 DEF OpToRel
  <2> QED BY <2>2
<1> QED BY <1>2

\* CBlockIndexWorkComparator has a best element in every non-empty set of blocks:
\* of the blocks with the most work, those received first, and of these the one
\* with the lowest address.
LEMMA BestExists ==
  ASSUME NEW S, S \subseteq Blocks, S # {},
         nSequenceId \in [Blocks -> {i \in Int : i >= -MaxPrecious}]
  PROVE  \E c \in S : \A d \in S \ {c} : Worse(d, c)
<1> DEFINE work == {MaxWork - nChainWork[b] : b \in S}
<1>1. work \subseteq Nat /\ work # {}
  BY WorkAssumption
<1>2. PICK w \in work : \A k \in work : w <= k
  BY <1>1, SetHasMin
<1>3. PICK x \in S : w = MaxWork - nChainWork[x]
  BY <1>2
<1>4. \A d \in S : nChainWork[d] <= nChainWork[x]
  <2> SUFFICES ASSUME NEW d \in S PROVE nChainWork[d] <= nChainWork[x]
    OBVIOUS
  <2>1. MaxWork - nChainWork[x] <= MaxWork - nChainWork[d]
    BY <1>2, <1>3
  <2> QED BY <2>1, WorkAssumption
<1> HIDE DEF work
<1> DEFINE heavy == {b \in S : nChainWork[b] = nChainWork[x]}
           seqs == {nSequenceId[b] + MaxPrecious : b \in heavy}
<1>5. seqs \subseteq Nat /\ seqs # {}
  BY <1>3, ParameterAssumption
<1>6. PICK q \in seqs : \A k \in seqs : q <= k
  BY <1>5, SetHasMin
<1>7. PICK y \in heavy : q = nSequenceId[y] + MaxPrecious
  BY <1>6
<1>8. \A d \in heavy : nSequenceId[y] <= nSequenceId[d]
  <2> SUFFICES ASSUME NEW d \in heavy PROVE nSequenceId[y] <= nSequenceId[d]
    OBVIOUS
  <2>1. nSequenceId[y] + MaxPrecious <= nSequenceId[d] + MaxPrecious
    BY <1>6, <1>7
  <2> QED BY <2>1, <1>7, ParameterAssumption
<1> HIDE DEF seqs
<1> DEFINE early == {b \in heavy : nSequenceId[b] = nSequenceId[y]}
           places == {Address[b] : b \in early}
<1>9. places \subseteq Nat /\ places # {}
  BY <1>7, WorkAssumption
<1>10. PICK a \in places : \A k \in places : a <= k
  BY <1>9, SetHasMin
<1>11. PICK z \in early : a = Address[z]
  BY <1>10
<1>12. z \in S /\ nChainWork[z] = nChainWork[x] /\ nSequenceId[z] = nSequenceId[y]
  BY <1>11
<1>13. ASSUME NEW d \in S \ {z}
       PROVE  Worse(d, z)
  <2>1. nChainWork[d] <= nChainWork[z]
    BY <1>4, <1>12
  <2>2. nChainWork[d] = nChainWork[z] => nSequenceId[z] <= nSequenceId[d]
    BY <1>8, <1>12
  <2>3. nChainWork[d] = nChainWork[z] /\ nSequenceId[d] = nSequenceId[z]
        => Address[z] <= Address[d]
    BY <1>10, <1>11, <1>12
  <2>4. Address[d] # Address[z]
    BY <1>12, WorkAssumption
  <2>5. /\ nChainWork[d] \in Nat /\ nChainWork[z] \in Nat
        /\ nSequenceId[d] \in Int /\ nSequenceId[z] \in Int
        /\ Address[d] \in Nat /\ Address[z] \in Nat
    BY <1>12, WorkAssumption
  <2> QED BY ONLY <2>1, <2>2, <2>3, <2>4, <2>5 DEF Worse, SortsBefore
<1> QED BY <1>12, <1>13

\* FindMostWorkChain returns nothing or a usable candidate, the best of them.
LEMMA MostWorkUsable ==
  ASSUME candidates \subseteq Blocks,
         nSequenceId \in [Blocks -> {i \in Int : i >= -MaxPrecious}]
  PROVE  \/ Usable = {} /\ FindMostWorkChain = Null
         \/ /\ FindMostWorkChain \in Usable
            /\ FindMostWorkChain \in Blocks
            /\ \A d \in Usable \ {FindMostWorkChain} : Worse(d, FindMostWorkChain)
<1>1. CASE Usable = {}
  BY <1>1 DEF FindMostWorkChain
<1>2. CASE Usable # {}
  <2>1. Usable \subseteq candidates
    BY DEF Usable
  <2>2. \E c \in Usable : \A d \in Usable \ {c} : Worse(d, c)
    BY <1>2, <2>1, BestExists
  <2> QED BY <1>2, <2>1, <2>2 DEF FindMostWorkChain
<1> QED BY <1>1, <1>2

(***************************************************************************)
(* Type correctness, and what CheckBlockIndex claims of received blocks.   *)
(***************************************************************************)

\* nChainTx is set along whole chains only, which is what makes it mean "all
\* ancestors received", and the active chain and every pindexMostWork are such.
\* This is inductive together with TypeOK.
LinkedInv ==
  /\ Genesis \in linked
  /\ \A b \in linked : Ancestors[b] \subseteq linked
  /\ linked \subseteq hasTx
  /\ candidates \subseteq linked
  /\ tip \in linked
  /\ \A t \in Threads : mostWork[t] = Null \/ mostWork[t] \in linked
  /\ \A b \in Blocks : nSequenceId[b] > 0 => b \in linked

\* Where the data of a block is.
DataInv ==
  /\ hasTx \cap CheckFails = {}
  /\ data \subseteq hasTx
  /\ ~fHavePruned => hasTx \subseteq data
  /\ unlinked \subseteq data

IInv == TypeOK /\ LinkedInv /\ DataInv

\* A block that is visited has been received, and so has all that is below it.
LEMMA VisitedLinked ==
  ASSUME NEW b \in Blocks \ {Genesis}, Parent[b] \in linked,
         LinkedInv, DataInv, TypeOK
  PROVE  /\ b \in Visited(b) /\ Visited(b) \subseteq Blocks
         /\ \A c \in Visited(b) : c = b \/ c \in unlinked
         /\ \A c \in Visited(b) : Ancestors[c] \subseteq linked \cup Visited(b)
<1>1. b \in Ancestors[b] /\ Route(b, b) = {}
  BY AncestorsReflexive DEF Route
<1>2. b \in Visited(b) /\ Visited(b) \subseteq Blocks
  BY <1>1 DEF Visited
<1>3. ASSUME NEW c \in Visited(b), c # b
      PROVE  c \in unlinked
  <2>1. c \in Blocks /\ b \in Ancestors[c] /\ Route(c, b) \subseteq unlinked
    BY DEF Visited
  <2>2. c \notin Ancestors[b]
    BY <1>3, <2>1, Antisymmetric
  <2>3. c \in Route(c, b)
    BY <2>1, <2>2, AncestorsReflexive DEF Route
  <2> QED BY <2>1, <2>3
<1>4. ASSUME NEW c \in Visited(b), NEW d \in Ancestors[c], d \notin linked
      PROVE  d \in Visited(b)
  <2>1. c \in Blocks /\ b \in Ancestors[c] /\ Route(c, b) \subseteq unlinked
    BY DEF Visited
  <2>2. CASE d \in Ancestors[b]
    <3>1. d = b \/ d \in Ancestors[Parent[b]]
      BY <2>2, ParentBelow
    <3>2. Ancestors[Parent[b]] \subseteq linked
      BY DEF LinkedInv
    <3> QED BY <1>2, <1>4, <3>1, <3>2
  <2>3. CASE d \notin Ancestors[b]
    <3>1. d \in Blocks /\ b \in Ancestors[d] /\ Ancestors[d] \subseteq Ancestors[c]
      BY <2>1, <2>3, Comparable, AncestorsTransitive
    <3>2. Route(d, b) \subseteq Route(c, b)
      BY <3>1 DEF Route
    <3> QED BY <2>1, <3>1, <3>2 DEF Visited
  <2> QED BY <2>2, <2>3
<1> QED BY <1>2, <1>3, <1>4

\* ReceivedBlockTransactions keeps the invariant.
LEMMA ReceivedKeeps ==
  ASSUME IInv, NEW t \in Threads, NEW b \in Blocks, NEW fRequested \in BOOLEAN,
         ProcessNewBlock(t, b, fRequested)
  PROVE  IInv'
<1>1. b # Genesis /\ Parent[b] \in Blocks
  BY ParentBelow DEF ProcessNewBlock, AcceptableHeader
<1> USE DEF IInv
<1>2. /\ known' = known \cup {b} /\ hasTx' = hasTx \cup {b}
      /\ data' = data \cup {b} /\ b \notin CheckFails
      /\ scripts' = scripts /\ undo' = undo
      /\ failedValid' = failedValid /\ failedChild' = failedChild /\ tip' = tip
      /\ nBlockReverseSequenceId' = nBlockReverseSequenceId
      /\ nLastPreciousChainwork' = nLastPreciousChainwork
      /\ fHavePruned' = fHavePruned /\ aborted' \in BOOLEAN
      /\ activating' = activating \cup {t}
      /\ mostWork' = [mostWork EXCEPT ![t] = Null]
      /\ pblock' = [pblock EXCEPT ![t] = b] /\ failure' = failure
  BY DEF ProcessNewBlock, ReceivedBlockTransactions, CallActivateBestChain, precious
<1>3. CASE Parent[b] \in linked
  <2> DEFINE visited == Visited(b)
  <2>1. /\ b \in visited /\ visited \subseteq Blocks
        /\ \A c \in visited : c = b \/ c \in unlinked
        /\ \A c \in visited : Ancestors[c] \subseteq linked \cup visited
    BY <1>1, <1>3, VisitedLinked
  <2>2. PICK order \in VisitOrders(visited) :
          /\ nSequenceId' = [c \in Blocks |-> IF c \in visited
                                              THEN nBlockSequenceId + order[c] - 1
                                              ELSE nSequenceId[c]]
          /\ nBlockSequenceId' = nBlockSequenceId + Cardinality(visited)
          /\ candidates' = candidates \cup NewCandidates(visited, nSequenceId')
          /\ linked' = linked \cup visited
          /\ unlinked' = StillWaiting(visited)
    BY <1>3 DEF ProcessNewBlock, ReceivedBlockTransactions
  <2>3. Cardinality(visited) \in Nat
    BY <2>1, TreeAssumption, FS_Subset, FS_CardinalityType
  <2>4. order \in [visited -> 1..Cardinality(visited)]
    BY DEF VisitOrders
  <2>5. NewCandidates(visited, nSequenceId') \subseteq visited
    BY DEF NewCandidates
  <2>6. StillWaiting(visited) \subseteq unlinked
    BY DEF StillWaiting
  <2> HIDE DEF visited
  <2>7. nBlockSequenceId \in Nat /\ nBlockSequenceId >= 1
    BY DEF TypeOK
  <2>8. \A c \in visited : /\ nBlockSequenceId + order[c] - 1 \in Int
                           /\ nBlockSequenceId + order[c] - 1 >= 1
    BY <2>3, <2>4, <2>7
  <2>9. nSequenceId' \in [Blocks -> {i \in Int : i >= -MaxPrecious}]
    BY <2>2, <2>8, ParameterAssumption DEF TypeOK
  <2>10. TypeOK'
    <3>1. /\ linked' \subseteq Blocks /\ candidates' \subseteq Blocks
          /\ unlinked' \subseteq Blocks \ {Genesis}
      BY <2>1, <2>2, <2>5, <2>6 DEF TypeOK
    <3>2. nBlockSequenceId' \in Nat \ {0}
      BY <2>2, <2>3, <2>7
    <3> QED BY <1>1, <1>2, <2>9, <3>1, <3>2 DEF TypeOK
  <2>11. hasTx' = hasTx \cup {b} /\ visited \subseteq hasTx'
    BY <1>2, <2>1 DEF DataInv
  <2>12. LinkedInv'
    <3>1. Genesis \in linked' /\ linked' \subseteq hasTx'
      BY <2>2, <2>11 DEF LinkedInv
    <3>2. \A c \in linked' : Ancestors[c] \subseteq linked'
      BY <2>1, <2>2 DEF LinkedInv
    <3>3. candidates' \subseteq linked'
      BY <2>2, <2>5 DEF LinkedInv
    <3>4. \A c \in Blocks : nSequenceId'[c] > 0 => c \in linked'
      BY <2>2 DEF LinkedInv
    <3>5. /\ tip' \in linked'
          /\ \A u \in Threads : mostWork'[u] = Null \/ mostWork'[u] \in linked'
      BY <1>2, <2>2 DEF LinkedInv, TypeOK
    <3> QED BY <3>1, <3>2, <3>3, <3>4, <3>5 DEF LinkedInv
  <2>13. DataInv'
    BY <1>2, <2>2, <2>6 DEF DataInv
  <2> QED BY <2>10, <2>12, <2>13
<1>4. CASE Parent[b] \notin linked
  <2>1. /\ unlinked' \subseteq unlinked \cup {b} /\ linked' = linked \ {b}
        /\ nSequenceId' = nSequenceId /\ nBlockSequenceId' = nBlockSequenceId
        /\ candidates' = candidates
    BY <1>4 DEF ProcessNewBlock, ReceivedBlockTransactions
  <2>2. b \notin linked
    BY <1>1, <1>4, ParentBelow DEF LinkedInv
  <2>3. linked' = linked
    BY <2>1, <2>2
  <2>4. TypeOK'
    BY <1>1, <1>2, <2>1, <2>3 DEF TypeOK
  <2>5. LinkedInv'
    BY <1>2, <2>1, <2>3 DEF LinkedInv, TypeOK
  <2>6. DataInv'
    BY <1>2, <2>1 DEF DataInv
  <2> QED BY <2>4, <2>5, <2>6
<1> QED BY <1>3, <1>4

\* What FindMostWorkChain does to the candidates it gives up: it marks blocks
\* above a failed one, and puts blocks that have their data in mapBlocksUnlinked.
LEMMA FoundBlocks ==
  ASSUME tip \in Blocks, candidates \subseteq Blocks
  PROVE  /\ \A d \in FoundFailed : /\ d \in Blocks
                                   /\ \E o \in Blocks : Failed(o) /\ o \in Ancestors[d]
         /\ FoundMissing \subseteq data
         /\ FoundMissing \subseteq Blocks \ {Genesis}
<1>1. ASSUME NEW c \in Passed
      PROVE  c \in Blocks /\ Obstacles(c) # {}
  BY DEF Passed, Usable
<1>2. ASSUME NEW d \in FoundFailed
      PROVE  /\ d \in Blocks
             /\ \E o \in Blocks : Failed(o) /\ o \in Ancestors[d]
  <2>1. PICK c \in PassedFailed : d \in AboveObstacle(c)
    BY DEF FoundFailed
  <2>2. c \in Passed /\ Failed(Obstacle(c))
    BY DEF PassedFailed
  <2> QED BY <1>1, <2>1, <2>2, ObstacleFirst
<1>3. ASSUME NEW d \in FoundMissing
      PROVE  d \in data /\ d \in Blocks \ {Genesis}
  <2>1. PICK c \in Passed : d \in AboveObstacle(c)
    BY DEF FoundMissing
  <2> QED BY <1>1, <2>1, ObstacleFirst
<1> QED BY <1>2, <1>3

\* Where a step of ActivateBestChain ends: on an active block or on the way to its
\* target, with no new candidate.
LEMMA StepEnds ==
  ASSUME tip \in Blocks, NEW t \in Threads, NEW target \in Blocks, NEW set,
         \/ DisconnectFails(target) /\ candidates' = set
         \/ ConnectAll(t, target, set)
         \/ ConnectSome(t, target, set)
  PROVE  /\ tip' \in Ancestors[tip] \cup Ancestors[target] /\ tip' \in Blocks
         /\ aborted' = aborted \/ aborted' \in BOOLEAN
         /\ undo' \subseteq undo \cup (Blocks \ {Genesis})
         /\ scripts' \subseteq scripts \cup Blocks
         /\ failedValid' \subseteq failedValid \cup Blocks
         /\ candidates' \subseteq set
         /\ UNCHANGED <<known, hasTx, data, linked, nSequenceId, nBlockSequenceId,
                        precious, fHavePruned>>
<1>1. CASE DisconnectFails(target) /\ candidates' = set
  <2> DEFINE lost == Undone(target) \ Undoable
  <2>1. lost \subseteq Ancestors[tip] /\ lost # {}
    BY <1>1 DEF DisconnectFails, Undone, Route
  <2>2. Highest(lost) \in Ancestors[tip] /\ Highest(lost) \in Blocks
    BY <2>1, LostBlock
  <2> QED BY <1>1, <2>2 DEF DisconnectFails
<1>2. ASSUME NEW end \in Ancestors[target], Connect(target, end)
      PROVE  /\ tip' \in Ancestors[target] /\ tip' \in Blocks
             /\ undo' \subseteq undo \cup (Blocks \ {Genesis})
             /\ scripts' \subseteq scripts \cup Blocks
  <2>1. end \in Blocks /\ FindFork(target) \in Blocks
    BY AncestorsReflexive, ForkInBoth
  <2>2. Route(end, FindFork(target)) \subseteq Blocks \ {Genesis}
    BY <2>1, TreeAssumption DEF Route
  <2> QED BY <1>2, <2>1, <2>2 DEF Connect, Raised
<1>3. CASE ConnectAll(t, target, set)
  <2>1. Goal(target) \in Ancestors[target] /\ Connect(target, Goal(target))
    BY <1>3, GoalOnRoute DEF ConnectAll
  <2>2. candidates' \subseteq set
    BY <1>3 DEF ConnectAll, PruneBlockIndexCandidates
  <2> QED BY <1>2, <1>3, <2>1, <2>2 DEF ConnectAll
<1>4. CASE ConnectSome(t, target, set)
  <2> DEFINE bad == Lowest(Stuck(t, target))
  <2>1. bad \in Blocks /\ Parent[bad] \in Ancestors[target]
    BY <1>4, StuckBlock DEF ConnectSome
  <2>2. Connect(target, Parent[bad])
    BY <1>4 DEF ConnectSome
  <2>3. failedValid' \subseteq failedValid \cup Blocks
    BY <1>4, <2>1 DEF ConnectSome, InvalidBlockFound
  <2>4. candidates' \subseteq set
    BY <1>4 DEF ConnectSome, PruneBlockIndexCandidates
  <2>5. aborted' \in BOOLEAN
    BY <1>4 DEF ConnectSome, Unreadable
  <2>6. UNCHANGED <<known, hasTx, data, linked, nSequenceId, nBlockSequenceId,
                    precious, fHavePruned>>
    BY <1>4 DEF ConnectSome
  <2> QED BY <1>2, <2>1, <2>2, <2>3, <2>4, <2>5, <2>6
<1> QED BY <1>1, <1>3, <1>4

\* A step of ActivateBestChain keeps the invariant.
LEMMA ActivateKeeps ==
  ASSUME IInv, NEW t \in Threads, ActivateBestChainStep(t)
  PROVE  IInv'
<1> DEFINE target == IF mostWork[t] = Null THEN FindMostWorkChain ELSE mostWork[t]
           set == IF mostWork[t] = Null THEN candidates \ FoundUnusable ELSE candidates
<1> USE DEF IInv
<1>1. /\ FoundMissing \subseteq data /\ FoundMissing \subseteq Blocks \ {Genesis}
      /\ FoundFailed \subseteq Blocks
  BY FoundBlocks DEF TypeOK
<1>2. target \in Blocks /\ target \in linked
  <2>1. target # Null
    BY DEF ActivateBestChainStep
  <2>2. FindMostWorkChain = Null \/ FindMostWorkChain \in candidates
    BY MostWorkUsable DEF TypeOK, Usable
  <2> QED BY <2>1, <2>2 DEF LinkedInv, TypeOK
<1>3. set \subseteq candidates
  OBVIOUS
<1>4. /\ failedChild' \subseteq failedChild \cup FoundFailed
      /\ unlinked' \subseteq unlinked \cup FoundMissing
  BY DEF ActivateBestChainStep
<1>5. \/ DisconnectFails(target) /\ candidates' = set /\ Return(t, FALSE)
      \/ ConnectAll(t, target, set) /\ (Return(t, TRUE) \/ Continue(t, target))
      \/ ConnectSome(t, target, set) /\ (Return(t, FALSE) \/ Continue(t, Null))
  BY DEF ActivateBestChainStep, Rethink
<1> HIDE DEF target, set
<1>6. /\ activating' \subseteq activating
      /\ mostWork' \in {[mostWork EXCEPT ![t] = Null], [mostWork EXCEPT ![t] = target]}
      /\ pblock' \in {pblock, [pblock EXCEPT ![t] = Null]}
      /\ failure' \in {failure, TRUE, FALSE}
  BY <1>5 DEF Return, Continue
<1>7. /\ tip' \in Ancestors[tip] \cup Ancestors[target] /\ tip' \in Blocks
      /\ aborted' = aborted \/ aborted' \in BOOLEAN
      /\ undo' \subseteq undo \cup (Blocks \ {Genesis})
      /\ scripts' \subseteq scripts \cup Blocks
      /\ failedValid' \subseteq failedValid \cup Blocks
      /\ candidates' \subseteq set
      /\ UNCHANGED <<known, hasTx, data, linked, nSequenceId, nBlockSequenceId,
                     precious, fHavePruned>>
  <2>1. tip \in Blocks
    BY DEF TypeOK
  <2> QED BY ONLY <1>2, <1>5, <2>1, StepEnds, t \in Threads
<1>8. TypeOK'
  BY <1>1, <1>2, <1>3, <1>4, <1>6, <1>7 DEF TypeOK, precious
<1>9. LinkedInv'
  BY <1>2, <1>3, <1>6, <1>7 DEF LinkedInv, TypeOK
<1>10. DataInv'
  BY <1>1, <1>4, <1>7 DEF DataInv
<1> QED BY <1>8, <1>9, <1>10

\* An iteration that finds nothing to do keeps the invariant.
LEMMA ActivateNothingKeeps ==
  ASSUME IInv, NEW t \in Threads, ActivateNothing(t)
  PROVE  IInv'
<1> USE DEF IInv
<1>1. /\ FoundMissing \subseteq data /\ FoundMissing \subseteq Blocks \ {Genesis}
      /\ FoundFailed \subseteq Blocks
  BY FoundBlocks DEF TypeOK
<1>2. /\ failedChild' \subseteq failedChild \cup FoundFailed
      /\ unlinked' \subseteq unlinked \cup FoundMissing
      /\ candidates' \subseteq candidates
      /\ activating' \subseteq activating
      /\ mostWork' = [mostWork EXCEPT ![t] = Null]
      /\ pblock' = [pblock EXCEPT ![t] = Null] /\ failure' = FALSE
      /\ UNCHANGED <<known, hasTx, scripts, data, undo, failedValid, linked,
                     nSequenceId, tip, nBlockSequenceId, precious,
                     fHavePruned, aborted>>
  BY DEF ActivateNothing, Return
<1>3. TypeOK'
  BY <1>1, <1>2 DEF TypeOK, precious
<1>4. LinkedInv'
  BY <1>2 DEF LinkedInv, TypeOK
<1>5. DataInv'
  BY <1>1, <1>2 DEF DataInv
<1> QED BY <1>3, <1>4, <1>5

\* What invalidateblock does to the chain: it goes down, by every block from b up or
\* until one of them cannot be disconnected.
LEMMA InvalidateEnds ==
  ASSUME tip \in Blocks, undo \subseteq Blocks \ {Genesis},
         NEW t \in Threads, NEW b \in Blocks,
         InvalidateBlock(t, b) \/ InvalidateBlockFails(t, b)
  PROVE  /\ tip' \in Ancestors[tip] /\ tip' \in Blocks
         /\ failedValid' = failedValid \cup {b}
         /\ failedChild' \subseteq failedChild \cup {c \in Blocks : b \in Ancestors[c]}
<1>1. /\ From(b) \subseteq Ancestors[tip] /\ From(b) \subseteq Blocks
      /\ From(b) # {} => b \in From(b)
  BY FromActive
<1>2. CASE InvalidateBlock(t, b)
  <2>1. /\ From(b) \subseteq Undoable
        /\ tip' = (IF From(b) = {} THEN tip ELSE Parent[b])
        /\ failedValid' = failedValid \cup {b}
        /\ failedChild' = failedChild \cup From(b)
    BY <1>2 DEF InvalidateBlock
  <2>2. tip' \in Ancestors[tip] /\ tip' \in Blocks
    <3>1. CASE From(b) = {}
      BY <2>1, <3>1, AncestorsReflexive
    <3>2. CASE From(b) # {}
      <4>1. b \in Ancestors[tip] /\ b # Genesis
        BY <1>1, <2>1, <3>2 DEF Undoable
      <4> QED BY <2>1, <3>2, <4>1, ParentBelow, AncestorsTransitive
    <3> QED BY <3>1, <3>2
  <2> QED BY <1>1, <2>1, <2>2 DEF From
<1>3. CASE InvalidateBlockFails(t, b)
  <2> DEFINE lost == From(b) \ Undoable
             end == Highest(lost)
  <2>1. /\ lost # {} /\ tip' = end
        /\ failedValid' = failedValid \cup {b}
        /\ failedChild' = failedChild \cup (Route(tip, end) \cup {end})
    BY <1>3 DEF InvalidateBlockFails
  <2>2. end \in lost /\ end \in Ancestors[tip] /\ end \in Blocks
    BY <1>1, <2>1, LostBlock
  <2>3. b \in Ancestors[end]
    BY <2>2 DEF From
  <2> HIDE DEF lost, end
  <2>4. ASSUME NEW d \in Route(tip, end) PROVE d \in Blocks /\ b \in Ancestors[d]
    BY <2>2, <2>3, <2>4, RouteAbove, AncestorsTransitive
  <2> QED BY <2>1, <2>2, <2>3, <2>4
<1> QED BY <1>2, <1>3

\* invalidateblock keeps the invariant, whether or not it can disconnect what it
\* has to.
LEMMA InvalidateKeeps ==
  ASSUME IInv, NEW t \in Threads, NEW b \in Blocks,
         InvalidateBlock(t, b) \/ InvalidateBlockFails(t, b)
  PROVE  IInv'
<1> USE DEF IInv
<1>1. /\ tip' \in Ancestors[tip] /\ tip' \in Blocks
      /\ failedValid' = failedValid \cup {b}
      /\ failedChild' \subseteq failedChild \cup {c \in Blocks : b \in Ancestors[c]}
  BY InvalidateEnds DEF TypeOK
<1>2. /\ aborted' = aborted \/ aborted' \in BOOLEAN
      /\ candidates' \subseteq candidates \cup linked
      /\ activating' \subseteq activating \cup {t}
      /\ mostWork' \in {mostWork, [mostWork EXCEPT ![t] = Null]}
      /\ pblock' \in {pblock, [pblock EXCEPT ![t] = Null]}
      /\ UNCHANGED <<known, hasTx, scripts, data, undo, linked, nSequenceId,
                     unlinked, nBlockSequenceId, precious, fHavePruned, failure>>
  <2>1. CASE InvalidateBlock(t, b)
    BY <2>1 DEF InvalidateBlock, CallActivateBestChain, PutBack
  <2>2. CASE InvalidateBlockFails(t, b)
    BY <2>2 DEF InvalidateBlockFails, CallActivateBestChain, calls
  <2> QED BY <2>1, <2>2
<1>3. TypeOK'
  BY <1>1, <1>2 DEF TypeOK, precious
<1>4. LinkedInv'
  BY <1>1, <1>2 DEF LinkedInv, TypeOK
<1>5. DataInv'
  BY <1>2 DEF DataInv
<1> QED BY <1>3, <1>4, <1>5

\* preciousblock keeps the invariant: it gives out negative numbers only.
LEMMA PreciousKeeps ==
  ASSUME IInv, NEW t \in Threads, NEW b \in Blocks, PreciousBlock(t, b)
  PROVE  IInv'
<1> USE DEF IInv
<1> DEFINE id == IF nChainWork[tip] > nLastPreciousChainwork
                 THEN -1 ELSE nBlockReverseSequenceId
<1>1. id \in -MaxPrecious..-1 /\ NextReverseId(id) \in -MaxPrecious..-1
  BY ParameterAssumption DEF NextReverseId, TypeOK
<1>2. /\ nSequenceId' = [nSequenceId EXCEPT ![b] = id]
      /\ nBlockReverseSequenceId' = NextReverseId(id)
      /\ nLastPreciousChainwork' = nChainWork[tip]
      /\ candidates' \subseteq candidates \cup linked
      /\ activating' = activating \cup {t}
      /\ mostWork' = [mostWork EXCEPT ![t] = Null]
      /\ pblock' = [pblock EXCEPT ![t] = Null]
      /\ UNCHANGED <<known, hasTx, scripts, data, undo, failedValid, failedChild,
                     linked, unlinked, tip, nBlockSequenceId, fHavePruned,
                     aborted, failure>>
  BY DEF PreciousBlock, Reinserted, CallActivateBestChain, flags
<1> HIDE DEF id
<1>3. nSequenceId' \in [Blocks -> {i \in Int : i >= -MaxPrecious}]
  BY <1>1, <1>2, ParameterAssumption DEF TypeOK
<1>4. nBlockReverseSequenceId' \in -MaxPrecious..-1
  BY <1>1, <1>2
<1>5. nLastPreciousChainwork' \in Nat
  <2>1. nLastPreciousChainwork' = nChainWork[tip] /\ tip \in Blocks
    BY <1>2 DEF TypeOK
  <2>2. nChainWork[tip] \in 0..MaxWork
    BY ONLY <2>1, WorkAssumption
  <2> QED BY <2>1, <2>2, WorkAssumption
<1>6. TypeOK'
  BY <1>2, <1>3, <1>4, <1>5 DEF TypeOK
<1>7. LinkedInv'
  <2>1. \A c \in Blocks : nSequenceId'[c] > 0 => c \in linked
    BY <1>1, <1>2 DEF LinkedInv, TypeOK
  <2> QED BY <1>2, <2>1 DEF LinkedInv, TypeOK
<1>8. DataInv'
  BY <1>2 DEF DataInv
<1> QED BY <1>6, <1>7, <1>8

\* The invariant holds at the start and every step keeps it.
LEMMA InvInit == Init => IInv
<1> SUFFICES ASSUME Init PROVE IInv
  OBVIOUS
<1>1. TypeOK
  <2>1. nSequenceId \in [Blocks -> {i \in Int : i >= -MaxPrecious}]
    <3>1. \A b \in Blocks :
            (IF b = Genesis THEN 1 ELSE 0) \in {i \in Int : i >= -MaxPrecious}
      BY ParameterAssumption
    <3> QED BY <3>1 DEF Init
  <2>2. /\ mostWork \in [Threads -> Blocks \cup {Null}]
        /\ pblock \in [Threads -> Blocks \cup {Null}]
    BY DEF Init
  <2>3. /\ known = {Genesis} /\ hasTx = {Genesis} /\ data = {Genesis}
        /\ linked = {Genesis} /\ candidates = {Genesis}
        /\ scripts = {} /\ undo = {} /\ failedValid = {} /\ failedChild = {}
        /\ unlinked = {} /\ tip = Genesis /\ nBlockSequenceId = 2
        /\ nBlockReverseSequenceId = -1 /\ nLastPreciousChainwork = 0
        /\ fHavePruned = FALSE /\ aborted = FALSE /\ activating = {}
        /\ failure = FALSE
    BY DEF Init
  <2>4. /\ nBlockSequenceId \in Nat \ {0}
        /\ nBlockReverseSequenceId \in -MaxPrecious..-1
        /\ nLastPreciousChainwork \in Nat
    BY ParameterAssumption DEF Init
  <2>5. {Genesis} \subseteq Blocks
    BY TreeAssumption
  <2> QED BY ONLY <2>1, <2>2, <2>3, <2>4, <2>5 DEF TypeOK
<1>2. LinkedInv
  BY TreeAssumption DEF Init, LinkedInv
<1>3. DataInv
  BY ParameterAssumption DEF Init, DataInv
<1> QED BY <1>1, <1>2, <1>3 DEF IInv

LEMMA InvNext == IInv /\ [Next]_vars => IInv'
<1> SUFFICES ASSUME IInv, [Next]_vars PROVE IInv'
  OBVIOUS
<1>1. ASSUME NEW b \in Blocks, ProcessNewBlockHeader(b) PROVE IInv'
  BY <1>1 DEF ProcessNewBlockHeader, AddToBlockIndex, flags, precious, calls,
              IInv, TypeOK, LinkedInv, DataInv
<1>2. ASSUME NEW t \in Threads, NEW b \in Blocks, NEW f \in BOOLEAN,
             ProcessIgnoredBlock(t, b, f)
      PROVE  IInv'
  BY <1>2 DEF ProcessIgnoredBlock, AddToBlockIndex, CallActivateBestChain, flags,
              precious, IInv, TypeOK, LinkedInv, DataInv
<1>3. ASSUME NEW t \in Threads, NEW b \in Blocks, NEW f \in BOOLEAN,
             ProcessBadBlock(t, b, f)
      PROVE  IInv'
  BY <1>3 DEF ProcessBadBlock, calls, precious, IInv, TypeOK, LinkedInv, DataInv
<1>4. ASSUME NEW t \in Threads, NEW b \in Blocks, ReconsiderBlock(t, b)
      PROVE  IInv'
  <2>1. Ancestors[b] \subseteq Blocks
    BY AncestorsReflexive
  <2> QED BY <1>4, <2>1 DEF ReconsiderBlock, CallActivateBestChain, precious,
                            IInv, TypeOK, LinkedInv, DataInv
<1>5. ASSUME NEW S \in SUBSET Blocks, PruneBlockFiles(S)
      PROVE  IInv'
  BY <1>5 DEF PruneBlockFiles, calls, precious, IInv, TypeOK, LinkedInv, DataInv
<1>6. CASE UNCHANGED vars
  BY <1>6 DEF vars, flags, precious, calls, IInv, TypeOK, LinkedInv, DataInv
<1> QED BY <1>1, <1>2, <1>3, <1>4, <1>5, <1>6, ReceivedKeeps, ActivateKeeps,
           ActivateNothingKeeps, InvalidateKeeps, PreciousKeeps DEF Next

\* The inductive invariant is one.
LEMMA InvAlways == Spec => []IInv
BY InvInit, InvNext, PTL DEF Spec

\* Every variable keeps its type, for every tree and any number of threads.
THEOREM TypeCorrect == Spec => []TypeOK
<1>1. IInv => TypeOK
  BY DEF IInv
<1> QED BY <1>1, InvAlways, PTL

(***************************************************************************)
(* Block data and undo data, when nothing is pruned or one thread runs.    *)
(*                                                                         *)
(* With two threads and pruning a call may connect, from memory, a block   *)
(* that it chose before the other thread moved on and the block was pruned.*)
(***************************************************************************)

\* What a thread keeps as pindexMostWork has its data, and so has undo data.
StoredInv ==
  /\ undo \subseteq data
  /\ \A t \in Threads : mostWork[t] = Null \/ mostWork[t] \in data

\* The pindexMostWork of the only thread lies above the tip, and nothing on the way
\* there has failed.
TargetInv ==
  \A t \in Threads :
    mostWork[t] # Null =>
      /\ t \in activating /\ mostWork[t] \in data
      /\ tip \in Ancestors[mostWork[t]] \ {mostWork[t]}
      /\ \A b \in Route(mostWork[t], tip) : ~Failed(b)

\* The height grows along a chain.
LEMMA HeightGrows ==
  ASSUME NEW b \in Blocks, NEW c \in Ancestors[b], c # b
  PROVE  nHeight(c) \in Int /\ nHeight(b) \in Int /\ nHeight(c) < nHeight(b)
<1>1. c \in Blocks /\ Ancestors[c] \subseteq Ancestors[b] /\ Ancestors[c] # Ancestors[b]
  BY AncestorsTransitive, AncestorsReflexive, Antisymmetric
<1>2. IsFiniteSet(Ancestors[b])
  BY TreeAssumption, FS_Subset, AncestorsReflexive
<1>3. /\ IsFiniteSet(Ancestors[c])
      /\ Cardinality(Ancestors[c]) <= Cardinality(Ancestors[b])
      /\ Cardinality(Ancestors[b]) # Cardinality(Ancestors[c])
  BY <1>1, <1>2, FS_Subset
<1>4. Cardinality(Ancestors[b]) \in Nat /\ Cardinality(Ancestors[c]) \in Nat
  BY <1>2, <1>3, FS_CardinalityType
<1> QED BY <1>3, <1>4 DEF nHeight

\* FindFork finds the highest block of both chains, ActivateBestChainStep goes up
\* from there, and it stops before its target only if that is not active.
LEMMA GoalAboveFork ==
  ASSUME tip \in Blocks, NEW target \in Blocks
  PROVE  /\ \A c \in Ancestors[target] : c \in Ancestors[tip] => c \in Ancestors[FindFork(target)]
         /\ FindFork(target) \in Ancestors[Goal(target)]
         /\ Goal(target) # target => target \notin Ancestors[tip]
<1> DEFINE both == Ancestors[target] \cap Ancestors[tip]
           ahead == {target} \cup {b \in Route(target, FindFork(target)) :
                                     nChainWork[b] > nChainWork[tip]}
<1>1. both \subseteq Ancestors[target] /\ both # {}
  BY TreeAssumption
<1>2. \A c \in both : c \in Ancestors[FindFork(target)]
  BY <1>1, Extremes DEF FindFork, ChainActive
<1>3. ahead \subseteq Ancestors[target] /\ ahead # {}
  BY AncestorsReflexive DEF Route
<1>4. Lowest(ahead) \in ahead
  BY <1>3, Extremes
<1>5. Goal(target) \in {target} \cup Route(target, FindFork(target))
  BY <1>4 DEF Goal
<1>6. FindFork(target) \in Ancestors[target] /\ FindFork(target) \in Blocks
  BY ForkInBoth
<1>7. FindFork(target) \in Ancestors[Goal(target)]
  BY <1>5, <1>6, RouteAbove
<1>8. ASSUME Goal(target) # target, target \in Ancestors[tip]
      PROVE  FALSE
  <2>1. target \in Ancestors[FindFork(target)]
    BY <1>2, <1>8, AncestorsReflexive
  <2>2. Ancestors[target] \subseteq Ancestors[FindFork(target)]
    BY <1>6, <2>1, AncestorsTransitive
  <2> QED BY <1>5, <1>8, <2>2 DEF Route
<1> QED BY <1>2, <1>7, <1>8

\* A target that FindMostWorkChain just chose can be reached: what lies between it
\* and the active chain has its data, has not failed and is not marked now.
LEMMA ChosenClear ==
  ASSUME IInv, FindMostWorkChain # Null, NEW b \in Route(FindMostWorkChain, tip)
  PROVE  b \in data /\ ~Failed(b) /\ b \notin FoundFailed
<1>1. /\ tip \in Blocks /\ candidates \subseteq Blocks
      /\ nSequenceId \in [Blocks -> {i \in Int : i >= -MaxPrecious}]
  BY DEF IInv, TypeOK
<1>2. FindMostWorkChain \in Usable /\ FindMostWorkChain \in Blocks
  BY <1>1, MostWorkUsable
<1>3. Obstacles(FindMostWorkChain) = {}
  BY <1>2 DEF Usable
<1>4. b \in data /\ ~Failed(b)
  BY <1>3 DEF Obstacles
<1>5. ASSUME b \in FoundFailed
      PROVE  FALSE
  <2>1. PICK c \in PassedFailed : b \in AboveObstacle(c)
    BY <1>5 DEF FoundFailed
  <2>2. c \in Blocks /\ Obstacles(c) # {}
    BY <1>1, <2>1 DEF PassedFailed, Passed, Usable
  <2>3. Obstacle(c) \in Obstacles(c) /\ Obstacle(c) \in Ancestors[b]
    BY <1>1, <2>1, <2>2, ObstacleFirst
  <2>4. Obstacle(c) \in Route(FindMostWorkChain, tip)
    BY <1>2, <2>3, AncestorsTransitive DEF Obstacles, Route
  <2> QED BY <1>3, <2>3, <2>4 DEF Obstacles
<1> QED BY <1>4, <1>5

\* What ConnectTip connects has its data, or is the target.
LEMMA ConnectedStored ==
  ASSUME tip \in Blocks, NEW t \in Threads, NEW target \in Blocks, NEW set,
         ConnectAll(t, target, set) \/ ConnectSome(t, target, set)
  PROVE  \A c \in undo' : \/ c \in undo \/ c \in data
                          \/ c = target /\ target \notin Ancestors[tip]
<1> DEFINE fork == FindFork(target)
<1>1. ASSUME NEW c \in Route(Goal(target), fork) \ Stuck(t, target)
      PROVE  c \in data \/ (c = target /\ target \notin Ancestors[tip])
  <2>1. c \in data \/ c = target
    BY <1>1 DEF Stuck, Unreadable, InMemory
  <2>2. c \notin Ancestors[fork]
    BY <1>1 DEF Route
  <2> QED BY <2>1, <2>2, GoalAboveFork, AncestorsReflexive
<1>2. CASE ConnectAll(t, target, set)
  BY <1>1, <1>2 DEF ConnectAll, Connect
<1>3. CASE ConnectSome(t, target, set)
  <2>1. Route(Parent[Lowest(Stuck(t, target))], fork)
          \subseteq Route(Goal(target), fork) \ Stuck(t, target)
    BY <1>3, StuckBlock DEF ConnectSome
  <2>2. undo' = undo \cup Route(Parent[Lowest(Stuck(t, target))], fork)
    BY <1>3 DEF ConnectSome, Connect
  <2> QED BY <1>1, <2>1, <2>2
<1> QED BY <1>2, <1>3

\* A step of ActivateBestChain keeps both.
LEMMA StoredActivate ==
  ASSUME IInv, StoredInv, NEW t \in Threads, ActivateBestChainStep(t)
  PROVE  StoredInv'
<1> DEFINE target == IF mostWork[t] = Null THEN FindMostWorkChain ELSE mostWork[t]
           set == IF mostWork[t] = Null THEN candidates \ FoundUnusable ELSE candidates
<1>1. /\ tip \in Blocks /\ candidates \subseteq Blocks
      /\ nSequenceId \in [Blocks -> {i \in Int : i >= -MaxPrecious}]
      /\ mostWork \in [Threads -> Blocks \cup {Null}]
  BY DEF IInv, TypeOK
<1>2. target # Null /\ target \in Blocks
  <2>1. target # Null
    BY DEF ActivateBestChainStep
  <2> QED BY <1>1, <2>1, MostWorkUsable
<1>3. target \notin Ancestors[tip] => target \in data
  BY <1>2, ChosenClear, AncestorsReflexive DEF StoredInv, Route
<1>4. \/ DisconnectFails(target) /\ candidates' = set
      \/ ConnectAll(t, target, set)
      \/ ConnectSome(t, target, set)
  BY DEF ActivateBestChainStep
<1>5. \/ mostWork' = [mostWork EXCEPT ![t] = Null]
      \/ mostWork' = [mostWork EXCEPT ![t] = target] /\ Goal(target) # target
  BY DEF ActivateBestChainStep, Return, Rethink, Continue
<1> HIDE DEF target, set
<1>6. data' = data /\ undo' \subseteq data
  <2>1. CASE DisconnectFails(target) /\ candidates' = set
    BY <2>1 DEF DisconnectFails, StoredInv
  <2>2. ASSUME ConnectAll(t, target, set) \/ ConnectSome(t, target, set)
        PROVE  undo' \subseteq data
    BY <1>1, <1>2, <1>3, <2>2, ConnectedStored DEF StoredInv
  <2>3. CASE ConnectAll(t, target, set)
    BY <2>2, <2>3 DEF ConnectAll
  <2>4. CASE ConnectSome(t, target, set)
    BY <2>2, <2>4 DEF ConnectSome
  <2> QED BY <1>4, <2>1, <2>3, <2>4
<1>7. Goal(target) # target => target \in data
  BY <1>1, <1>2, <1>3, GoalAboveFork
<1> QED BY <1>1, <1>5, <1>6, <1>7 DEF StoredInv

\* So does every other step, given that pruning spares what the thread works towards.
LEMMA StoredNext ==
  ASSUME IInv, StoredInv, [Next]_vars, "prune" \notin Operations \/ TargetInv'
  PROVE  StoredInv'
<1>1. mostWork \in [Threads -> Blocks \cup {Null}]
  BY DEF IInv, TypeOK
<1>2. ASSUME undo' = undo, data \subseteq data',
             NEW t \in Threads, mostWork' \in {mostWork, [mostWork EXCEPT ![t] = Null]}
      PROVE  StoredInv'
  BY <1>1, <1>2 DEF StoredInv
<1>3. ASSUME undo' = undo, data' = data, mostWork' = mostWork
      PROVE  StoredInv'
  BY <1>3 DEF StoredInv
<1>4. ASSUME NEW b \in Blocks, ProcessNewBlockHeader(b) PROVE StoredInv'
  BY <1>3, <1>4 DEF ProcessNewBlockHeader, flags, calls
<1>5. ASSUME NEW t \in Threads, NEW b \in Blocks, NEW f \in BOOLEAN,
             \/ ProcessIgnoredBlock(t, b, f)
             \/ ProcessBadBlock(t, b, f)
             \/ ProcessNewBlock(t, b, f)
      PROVE  StoredInv'
  BY <1>2, <1>5 DEF ProcessIgnoredBlock, ProcessBadBlock, ProcessNewBlock,
                    ReceivedBlockTransactions, CallActivateBestChain, flags, calls
<1>6. ASSUME NEW t \in Threads, ActivateNothing(t)
      PROVE  StoredInv'
  <2>1. undo' = undo /\ data' = data /\ mostWork' = [mostWork EXCEPT ![t] = Null]
    BY <1>6 DEF ActivateNothing, Return
  <2> QED BY <1>2, <2>1
<1>7. ASSUME NEW t \in Threads, NEW b \in Blocks,
             \/ InvalidateBlock(t, b) \/ InvalidateBlockFails(t, b)
             \/ ReconsiderBlock(t, b) \/ PreciousBlock(t, b)
      PROVE  StoredInv'
  BY <1>2, <1>7 DEF InvalidateBlock, InvalidateBlockFails, ReconsiderBlock,
                    PreciousBlock, CallActivateBestChain, flags, calls
<1>8. ASSUME NEW S \in SUBSET Blocks, PruneBlockFiles(S)
      PROVE  StoredInv'
  <2>1. TargetInv' /\ undo' = undo \ S /\ data' = data \ S
    BY <1>8 DEF PruneBlockFiles
  <2> QED BY <2>1 DEF StoredInv, TargetInv
<1>9. CASE UNCHANGED vars
  BY <1>3, <1>9 DEF vars, flags, calls
<1> QED BY <1>4, <1>5, <1>6, <1>7, <1>8, <1>9, StoredActivate DEF Next

\* A step of the only thread that goes on towards its target leaves the way clear.
LEMMA TargetActivate ==
  ASSUME IInv, TargetInv, NEW t \in Threads, \A u \in Threads : u = t,
         ActivateBestChainStep(t)
  PROVE  TargetInv'
<1> DEFINE target == IF mostWork[t] = Null THEN FindMostWorkChain ELSE mostWork[t]
           set == IF mostWork[t] = Null THEN candidates \ FoundUnusable ELSE candidates
<1>1. /\ tip \in Blocks /\ candidates \subseteq Blocks
      /\ nSequenceId \in [Blocks -> {i \in Int : i >= -MaxPrecious}]
      /\ mostWork \in [Threads -> Blocks \cup {Null}]
  BY DEF IInv, TypeOK
<1>2. target # Null /\ target \in Blocks
  <2>1. target # Null
    BY DEF ActivateBestChainStep
  <2> QED BY <1>1, <2>1, MostWorkUsable
<1>3. t \in activating
  BY DEF ActivateBestChainStep
<1>4. /\ target \notin Ancestors[tip] => target \in data
      /\ \A b \in Route(target, tip) : ~Failed(b) /\ b \notin failedChild'
  <2>1. CASE mostWork[t] = Null
    <3>1. \A b \in Route(target, tip) : b \in data /\ ~Failed(b) /\ b \notin FoundFailed
      BY <1>2, <2>1, ChosenClear
    <3>2. failedChild' = failedChild \cup FoundFailed
      BY <2>1 DEF ActivateBestChainStep
    <3> QED BY <1>2, <3>1, <3>2, AncestorsReflexive DEF Failed, Route
  <2>2. CASE mostWork[t] # Null
    <3>1. failedChild' = failedChild
      BY <2>2 DEF ActivateBestChainStep
    <3> QED BY <2>2, <3>1 DEF TargetInv, Failed
  <2> QED BY <2>1, <2>2
<1>5. \/ mostWork'[t] = Null
      \/ /\ ConnectAll(t, target, set) /\ Goal(target) # target
         /\ Continue(t, target)
  BY <1>1 DEF ActivateBestChainStep, Return, Rethink, Continue
<1> HIDE DEF target, set
<1>6. CASE mostWork'[t] = Null
  BY <1>6 DEF TargetInv
<1>7. CASE /\ ConnectAll(t, target, set) /\ Goal(target) # target
           /\ Continue(t, target)
  <2>1. /\ mostWork' = [mostWork EXCEPT ![t] = target]
        /\ activating' = activating
        /\ tip' = Goal(target) /\ data' = data /\ failedValid' = failedValid
    BY <1>7 DEF Continue, ConnectAll, Connect
  <2>2. mostWork'[t] = target
    BY <1>1, <2>1
  <2>3. Goal(target) \in Ancestors[target] \ {target} /\ Goal(target) \in Blocks
    BY <1>1, <1>2, <1>7, GoalOnRoute
  <2>4. target \in data'
    BY <1>1, <1>2, <1>4, <1>7, <2>1, GoalAboveFork
  <2>5. ASSUME NEW b \in Route(target, Goal(target))
        PROVE  ~Failed(b)'
    <3>1. b \in Route(target, tip)
      <4>1. Ancestors[FindFork(target)] \subseteq Ancestors[Goal(target)]
        BY <1>1, <1>2, <2>3, GoalAboveFork, AncestorsTransitive
      <4> QED BY <1>1, <1>2, <2>5, <4>1, GoalAboveFork DEF Route
    <3> QED BY <1>4, <2>1, <3>1 DEF Failed
  <2>6. \A b \in Route(target, tip') : ~Failed(b)'
    BY <2>1, <2>5
  <2>7. (\A b \in Route(mostWork[t], tip) : ~Failed(b))'
    BY <2>2, <2>6 DEF Route
  <2>8. /\ t \in activating' /\ mostWork'[t] \in data'
        /\ tip' \in Ancestors[mostWork'[t]] \ {mostWork'[t]}
    BY <1>3, <2>1, <2>2, <2>3, <2>4
  <2> QED BY <2>7, <2>8 DEF TargetInv
<1> QED BY <1>5, <1>6, <1>7

\* So does every other step of the only thread, and pruning, which stays below the
\* tip.
LEMMA TargetNext ==
  ASSUME \A t, u \in Threads : t = u, IInv, TargetInv, [Next]_vars
  PROVE  TargetInv'
<1>1. mostWork \in [Threads -> Blocks \cup {Null}]
  BY DEF IInv, TypeOK
<1>2. ASSUME NEW t \in Threads, mostWork'[t] = Null
      PROVE  TargetInv'
  BY <1>2 DEF TargetInv
<1>3. ASSUME NEW t \in Threads, t \notin activating,
             mostWork' \in {mostWork, [mostWork EXCEPT ![t] = Null]}
      PROVE  TargetInv'
  BY <1>1, <1>2, <1>3 DEF TargetInv
<1>4. ASSUME UNCHANGED <<mostWork, activating, data, tip, failedValid, failedChild>>
      PROVE  TargetInv'
  BY <1>4 DEF TargetInv, Route, Failed
<1>5. ASSUME NEW b \in Blocks, ProcessNewBlockHeader(b) PROVE TargetInv'
  BY <1>4, <1>5 DEF ProcessNewBlockHeader, flags, calls
<1>6. ASSUME NEW t \in Threads, NEW b \in Blocks, NEW f \in BOOLEAN,
             \/ ProcessIgnoredBlock(t, b, f)
             \/ ProcessBadBlock(t, b, f)
             \/ ProcessNewBlock(t, b, f)
      PROVE  TargetInv'
  BY <1>3, <1>6 DEF ProcessIgnoredBlock, ProcessBadBlock, ProcessNewBlock,
                    CallActivateBestChain, calls
<1>7. ASSUME NEW t \in Threads, ActivateNothing(t)
      PROVE  TargetInv'
  BY <1>1, <1>2, <1>7 DEF ActivateNothing, Return
<1>8. ASSUME NEW t \in Threads, ActivateBestChainStep(t)
      PROVE  TargetInv'
  BY <1>8, TargetActivate
<1>9. ASSUME NEW t \in Threads, NEW b \in Blocks,
             \/ InvalidateBlock(t, b) \/ InvalidateBlockFails(t, b)
             \/ ReconsiderBlock(t, b) \/ PreciousBlock(t, b)
      PROVE  TargetInv'
  <2>1. t \notin activating /\ mostWork' \in {mostWork, [mostWork EXCEPT ![t] = Null]}
    BY <1>9 DEF InvalidateBlock, InvalidateBlockFails, ReconsiderBlock,
                PreciousBlock, CallActivateBestChain, calls
  <2> QED BY <1>3, <2>1
<1>10. ASSUME NEW S \in SUBSET Blocks, PruneBlockFiles(S)
       PROVE  TargetInv'
  <2>1. /\ UNCHANGED <<mostWork, activating, tip, failedValid, failedChild>>
        /\ data' = data \ S
        /\ \A b \in S : nHeight(b) + MIN_BLOCKS_TO_KEEP <= nHeight(tip)
    BY <1>10 DEF PruneBlockFiles, calls
  <2>2. ASSUME NEW t \in Threads, mostWork[t] # Null
        PROVE  mostWork[t] \notin S
    <3>1. mostWork[t] \in Blocks /\ tip \in Ancestors[mostWork[t]] /\ tip # mostWork[t]
      BY <1>1, <2>2 DEF TargetInv
    <3>2. /\ nHeight(tip) \in Int /\ nHeight(mostWork[t]) \in Int
          /\ nHeight(tip) < nHeight(mostWork[t])
      BY <3>1, HeightGrows
    <3> QED BY <2>1, <3>2, ParameterAssumption
  <2> QED BY <2>1, <2>2 DEF TargetInv, Route, Failed
<1>11. CASE UNCHANGED vars
  BY <1>4, <1>11 DEF vars, flags, calls
<1> QED BY <1>5, <1>6, <1>7, <1>8, <1>9, <1>10, <1>11 DEF Next

\* With one thread both hold always.
LEMMA TargetAlways ==
  ASSUME \A t, u \in Threads : t = u
  PROVE  Spec => [](IInv /\ TargetInv /\ StoredInv)
<1>1. Init => IInv /\ TargetInv /\ StoredInv
  BY InvInit DEF Init, TargetInv, StoredInv
<1>2. IInv /\ TargetInv /\ StoredInv /\ [Next]_vars => (IInv /\ TargetInv /\ StoredInv)'
  BY InvNext, TargetNext, StoredNext
<1> QED BY <1>1, <1>2, PTL DEF Spec

\* What CheckBlockIndex asserts of received blocks holds for every tree: nChainTx
\* is set only on complete chains, and sequence numbers, undo data, block data and
\* the pruning flag agree with it, as long as block files are not pruned behind a
\* second thread.
THEOREM ReceivedIsConsistent ==
  ASSUME "prune" \notin Operations \/ \A t, u \in Threads : t = u
  PROVE  Spec => []ReceivedConsistent
<1>1. IInv /\ StoredInv => ReceivedConsistent
  BY DEF IInv, TypeOK, LinkedInv, DataInv, StoredInv, ReceivedConsistent, NeverProcessed
<1>2. CASE "prune" \notin Operations
  <2>1. Init => StoredInv
    BY DEF Init, StoredInv
  <2>2. IInv /\ StoredInv /\ [Next]_vars => StoredInv'
    BY <1>2, StoredNext
  <2> QED BY <1>1, <2>1, <2>2, InvAlways, PTL DEF Spec
<1>3. CASE \A t, u \in Threads : t = u
  <2>1. Spec => [](IInv /\ TargetInv /\ StoredInv)
    BY <1>3, TargetAlways
  <2> QED BY <1>1, <2>1, PTL
<1> QED BY <1>2, <1>3

(***************************************************************************)
(* No failed block on the active chain, with one thread.                   *)
(***************************************************************************)

\* FindMostWorkChain marks no active block.
LEMMA FoundOffChain ==
  ASSUME tip \in Blocks, candidates \subseteq Blocks
  PROVE  FoundFailed \cap Ancestors[tip] = {}
<1> SUFFICES ASSUME NEW d \in FoundFailed, d \in Ancestors[tip] PROVE FALSE
  OBVIOUS
<1>1. PICK c \in PassedFailed : d \in AboveObstacle(c)
  BY DEF FoundFailed
<1>2. c \in Blocks /\ Obstacles(c) # {}
  BY <1>1 DEF PassedFailed, Passed, Usable
<1>3. Obstacle(c) \in Obstacles(c) /\ Obstacle(c) \in Ancestors[d] /\ d \in Blocks
  BY <1>1, <1>2, ObstacleFirst
<1>4. Obstacle(c) \in Ancestors[tip]
  BY <1>3, AncestorsTransitive
<1> QED BY <1>3, <1>4 DEF Obstacles, Route

\* Where the connecting part of a step ends: at or above the fork, with undo data
\* for what is above it, and never on a block that is marked in the same step.
LEMMA ConnectEnds ==
  ASSUME tip \in Blocks, NEW t \in Threads, NEW target \in Blocks, NEW set,
         ConnectAll(t, target, set) \/ ConnectSome(t, target, set)
  PROVE  \E end \in Ancestors[target] :
           /\ tip' = end /\ FindFork(target) \in Ancestors[end]
           /\ undo' = undo \cup Route(end, FindFork(target))
           /\ data' = data
           /\ Undone(target) \subseteq Undoable
           /\ failedValid' \cap Ancestors[end] \subseteq failedValid
<1> DEFINE fork == FindFork(target)
<1>1. CASE ConnectAll(t, target, set)
  <2>1. Goal(target) \in Ancestors[target] /\ fork \in Ancestors[Goal(target)]
    BY GoalOnRoute, GoalAboveFork
  <2>2. /\ tip' = Goal(target) /\ undo' = undo \cup Route(Goal(target), fork)
        /\ data' = data /\ failedValid' = failedValid
        /\ Undone(target) \subseteq Undoable
    BY <1>1 DEF ConnectAll, Connect
  <2> QED BY <2>1, <2>2
<1>2. CASE ConnectSome(t, target, set)
  <2> DEFINE bad == Lowest(Stuck(t, target))
  <2>1. /\ bad \in Blocks /\ bad # Genesis /\ bad \in Ancestors[target]
        /\ bad \notin Ancestors[fork] /\ Parent[bad] \in Ancestors[target]
    BY <1>2, StuckBlock DEF ConnectSome
  <2>2. fork \in Ancestors[target] /\ fork \in Blocks
    BY ForkInBoth
  <2>3. fork \in Ancestors[bad] /\ fork # bad
    BY <2>1, <2>2, Comparable, AncestorsReflexive
  <2>4. fork \in Ancestors[Parent[bad]] /\ bad \notin Ancestors[Parent[bad]]
    <3> HIDE DEF fork, bad
    <3>1. /\ Ancestors[bad] = Ancestors[Parent[bad]] \cup {bad}
          /\ bad \notin Ancestors[Parent[bad]]
      BY <2>1, ParentBelow
    <3> QED BY <2>3, <3>1
  <2>5. /\ tip' = Parent[bad] /\ undo' = undo \cup Route(Parent[bad], fork)
        /\ data' = data /\ Undone(target) \subseteq Undoable
        /\ failedValid' \subseteq failedValid \cup {bad}
    BY <1>2 DEF ConnectSome, Connect, InvalidBlockFound
  <2> HIDE DEF bad
  <2> QED BY <2>1, <2>4, <2>5
<1> QED BY <1>1, <1>2

\* A step of ActivateBestChain connects no failed block, and takes off nothing that
\* kept a failed block on the chain.
LEMMA ValidActivate ==
  ASSUME IInv, TargetInv, ActiveChainValid, NEW t \in Threads, ActivateBestChainStep(t)
  PROVE  ActiveChainValid'
<1> DEFINE target == IF mostWork[t] = Null THEN FindMostWorkChain ELSE mostWork[t]
           set == IF mostWork[t] = Null THEN candidates \ FoundUnusable ELSE candidates
<1>1. /\ tip \in Blocks /\ candidates \subseteq Blocks
      /\ nSequenceId \in [Blocks -> {i \in Int : i >= -MaxPrecious}]
      /\ mostWork \in [Threads -> Blocks \cup {Null}]
  BY DEF IInv, TypeOK
<1>2. target # Null /\ target \in Blocks
  <2>1. target # Null
    BY DEF ActivateBestChainStep
  <2> QED BY <1>1, <2>1, MostWorkUsable
<1>3. ~aborted /\ failedChild' \subseteq failedChild \cup FoundFailed
  BY DEF ActivateBestChainStep
<1>4. \A b \in Route(target, tip) : ~Failed(b) /\ b \notin failedChild'
  <2>1. CASE mostWork[t] = Null
    <3>1. \A b \in Route(target, tip) : ~Failed(b) /\ b \notin FoundFailed
      BY <1>2, <2>1, ChosenClear
    <3> QED BY <1>3, <3>1 DEF Failed
  <2>2. CASE mostWork[t] # Null
    <3>1. failedChild' = failedChild
      BY <2>2 DEF ActivateBestChainStep
    <3> QED BY <2>2, <3>1 DEF TargetInv, Failed
  <2> QED BY <2>1, <2>2
<1>5. \/ DisconnectFails(target) /\ candidates' = set
      \/ ConnectAll(t, target, set)
      \/ ConnectSome(t, target, set)
  BY DEF ActivateBestChainStep
<1> HIDE DEF target, set
<1>6. CASE DisconnectFails(target) /\ candidates' = set
  <2> DEFINE lost == Undone(target) \ Undoable
             end == Highest(lost)
  <2>1. lost \subseteq Ancestors[tip] /\ lost # {}
    BY <1>6 DEF DisconnectFails, Undone, Route
  <2>2. end \in lost /\ end \in Blocks
    BY <1>1, <2>1, LostBlock
  <2>3. tip' = end /\ Undoable' = Undoable
    BY <1>6 DEF DisconnectFails, Undoable
  <2>4. end \notin Undoable' /\ end \in Ancestors[end]
    BY <2>2, <2>3, AncestorsReflexive
  <2> HIDE DEF end
  <2> QED BY <2>3, <2>4 DEF ActiveChainValid, ChainActive, From
<1>7. CASE ConnectAll(t, target, set) \/ ConnectSome(t, target, set)
  <2> DEFINE fork == FindFork(target)
  <2>1. PICK end \in Ancestors[target] :
           /\ tip' = end /\ fork \in Ancestors[end]
           /\ undo' = undo \cup Route(end, fork)
           /\ data' = data
           /\ Undone(target) \subseteq Undoable
           /\ failedValid' \cap Ancestors[end] \subseteq failedValid
    BY <1>1, <1>2, <1>7, ConnectEnds
  <2>2. /\ end \in Blocks /\ Ancestors[end] \subseteq Ancestors[target]
        /\ Ancestors[fork] \subseteq Ancestors[end]
    BY <1>2, <2>1, AncestorsTransitive
  <2>3. ASSUME NEW b \in Ancestors[end], Failed(b)'
        PROVE  \E c \in Ancestors[end] : b \in Ancestors[c] /\ c \notin Undoable'
    <3>1. b \in failedValid \/ b \in failedChild'
      BY <2>1, <2>3 DEF Failed
    <3>2. b \in Ancestors[tip]
      BY <1>4, <2>2, <3>1 DEF Route, Failed
    <3>3. Failed(b)
      BY <1>1, <1>3, <3>1, <3>2, FoundOffChain DEF Failed
    <3>4. PICK c \in Ancestors[tip] : b \in Ancestors[c] /\ c \notin Undoable
      BY <1>3, <3>2, <3>3 DEF ActiveChainValid, ChainActive, From
    <3>5. c \in Ancestors[fork]
      BY <2>1, <3>4 DEF Undone, Route
    <3>6. c \notin Undoable'
      BY <2>1, <3>4, <3>5 DEF Undoable, Route
    <3> QED BY <2>2, <3>4, <3>5, <3>6
  <2> QED BY <2>1, <2>3 DEF ActiveChainValid, ChainActive, From
<1> QED BY <1>5, <1>6, <1>7

\* invalidateblock disconnects what it marks, or ends on a block that it cannot
\* disconnect.
LEMMA ValidInvalidate ==
  ASSUME IInv, ActiveChainValid, NEW t \in Threads, NEW b \in Blocks,
         InvalidateBlock(t, b) \/ InvalidateBlockFails(t, b)
  PROVE  ActiveChainValid'
<1>1. tip \in Blocks /\ undo \subseteq Blocks \ {Genesis}
  BY DEF IInv, TypeOK
<1>2. ~aborted /\ Undoable' = Undoable
  BY DEF InvalidateBlock, InvalidateBlockFails, Undoable
<1>3. /\ From(b) \subseteq Ancestors[tip] /\ From(b) \subseteq Blocks
      /\ From(b) # {} => b \in From(b)
  BY <1>1, FromActive
<1>4. CASE InvalidateBlock(t, b)
  <2> DEFINE end == IF From(b) = {} THEN tip ELSE Parent[b]
  <2>1. /\ From(b) \subseteq Undoable /\ tip' = end
        /\ failedValid' = failedValid \cup {b}
        /\ failedChild' = failedChild \cup From(b)
    BY <1>4 DEF InvalidateBlock
  <2>2. /\ end \in Blocks /\ Ancestors[end] \subseteq Ancestors[tip]
        /\ b \notin Ancestors[end]
        /\ \A c \in Ancestors[tip] : c \notin From(b) => c \in Ancestors[end]
    <3>1. CASE From(b) = {}
      <4>1. b \notin Ancestors[tip]
        BY <3>1, AncestorsReflexive DEF From, ChainActive
      <4> QED BY <1>1, <3>1, <4>1
    <3>2. CASE From(b) # {}
      <4>1. b \in Ancestors[tip] /\ b # Genesis
        BY <1>1, <1>3, <2>1, <3>2 DEF Undoable
      <4>2. /\ Parent[b] \in Blocks /\ b \notin Ancestors[Parent[b]]
            /\ Ancestors[b] = Ancestors[Parent[b]] \cup {b}
            /\ Ancestors[Parent[b]] \subseteq Ancestors[b]
            /\ Ancestors[b] \subseteq Ancestors[tip]
        BY <1>1, <4>1, ParentBelow, AncestorsTransitive
      <4>3. ASSUME NEW c \in Ancestors[tip], c \notin From(b)
            PROVE  c \in Ancestors[Parent[b]]
        <5>1. b \notin Ancestors[c]
          BY <4>3 DEF From, ChainActive
        <5>2. c \in Ancestors[b] /\ c # b
          BY <1>1, <4>1, <5>1, Comparable, AncestorsReflexive
        <5> QED BY <4>2, <5>2
      <4> QED BY <3>2, <4>2, <4>3
    <3> QED BY <3>1, <3>2
  <2> HIDE DEF end
  <2>3. ASSUME NEW d \in Ancestors[end], Failed(d)'
        PROVE  \E c \in Ancestors[end] : d \in Ancestors[c] /\ c \notin Undoable
    <3>1. d \notin From(b) /\ d # b
      BY <2>2, AncestorsTransitive DEF From
    <3>2. Failed(d)
      BY <2>1, <2>3, <3>1 DEF Failed
    <3>3. PICK c \in Ancestors[tip] : d \in Ancestors[c] /\ c \notin Undoable
      BY <1>2, <2>2, <3>2 DEF ActiveChainValid, ChainActive, From
    <3> QED BY <2>1, <2>2, <3>3
  <2> QED BY <1>2, <2>1, <2>3 DEF ActiveChainValid, ChainActive, From
<1>5. CASE InvalidateBlockFails(t, b)
  <2> DEFINE lost == From(b) \ Undoable
             end == Highest(lost)
  <2>1. lost # {} /\ tip' = end
    BY <1>5 DEF InvalidateBlockFails
  <2>2. end \in lost /\ end \in Ancestors[end]
    BY <1>1, <1>3, <2>1, LostBlock, AncestorsReflexive
  <2>3. end \notin Undoable
    BY <2>2
  <2> HIDE DEF lost, end
  <2> QED BY <1>2, <2>1, <2>2, <2>3 DEF ActiveChainValid, ChainActive, From
<1> QED BY <1>4, <1>5

\* Every step keeps the active chain free of failed blocks.
LEMMA ValidNext ==
  ASSUME IInv, TargetInv, StoredInv, ActiveChainValid, [Next]_vars
  PROVE  ActiveChainValid'
<1>1. tip \in Blocks /\ candidates \subseteq Blocks
  BY DEF IInv, TypeOK
<1>2. ASSUME tip' = tip, aborted => aborted', Undoable' \subseteq Undoable,
             \A b \in Ancestors[tip] : Failed(b)' => Failed(b)
      PROVE  ActiveChainValid'
  BY <1>2 DEF ActiveChainValid, ChainActive, From
<1>3. ASSUME NEW b \in Blocks, ProcessNewBlockHeader(b) PROVE ActiveChainValid'
  BY <1>2, <1>3 DEF ProcessNewBlockHeader, flags, Undoable, Failed
<1>4. ASSUME NEW t \in Threads, NEW b \in Blocks, NEW f \in BOOLEAN,
             ProcessIgnoredBlock(t, b, f)
      PROVE  ActiveChainValid'
  BY <1>2, <1>4 DEF ProcessIgnoredBlock, flags, Undoable, Failed
<1>5. ASSUME NEW t \in Threads, NEW b \in Blocks, NEW f \in BOOLEAN,
             ProcessBadBlock(t, b, f)
      PROVE  ActiveChainValid'
  <2>1. b \notin Ancestors[tip]
    BY <1>5 DEF ProcessBadBlock, IInv, LinkedInv, DataInv
  <2>2. /\ tip' = tip /\ aborted' = aborted /\ undo' = undo /\ data' = data
        /\ failedValid' = failedValid \cup {b} /\ failedChild' = failedChild
    BY <1>5 DEF ProcessBadBlock
  <2> QED BY <1>2, <2>1, <2>2 DEF Undoable, Failed
<1>6. ASSUME NEW t \in Threads, NEW b \in Blocks, NEW f \in BOOLEAN,
             ProcessNewBlock(t, b, f)
      PROVE  ActiveChainValid'
  <2>1. b \notin data
    BY <1>6 DEF ProcessNewBlock, Ignored
  <2>2. /\ tip' = tip /\ ~aborted /\ undo' = undo /\ data' = data \cup {b}
        /\ failedValid' = failedValid /\ failedChild' = failedChild
    BY <1>6 DEF ProcessNewBlock, ReceivedBlockTransactions
  <2> QED BY <1>2, <2>1, <2>2 DEF StoredInv, Undoable, Failed
<1>7. ASSUME NEW t \in Threads, ActivateNothing(t)
      PROVE  ActiveChainValid'
  <2>1. /\ tip' = tip /\ aborted' = aborted /\ undo' = undo /\ data' = data
        /\ failedValid' = failedValid
        /\ failedChild' \subseteq failedChild \cup FoundFailed
    BY <1>7 DEF ActivateNothing
  <2> QED BY <1>1, <1>2, <2>1, FoundOffChain DEF Undoable, Failed
<1>8. ASSUME NEW t \in Threads, NEW b \in Blocks, ReconsiderBlock(t, b)
      PROVE  ActiveChainValid'
  BY <1>2, <1>8 DEF ReconsiderBlock, Undoable, Failed
<1>9. ASSUME NEW t \in Threads, NEW b \in Blocks, PreciousBlock(t, b)
      PROVE  ActiveChainValid'
  BY <1>2, <1>9 DEF PreciousBlock, flags, Undoable, Failed
<1>10. ASSUME NEW S \in SUBSET Blocks, PruneBlockFiles(S)
       PROVE  ActiveChainValid'
  BY <1>2, <1>10 DEF PruneBlockFiles, Undoable, Failed
<1>11. CASE UNCHANGED vars
  BY <1>2, <1>11 DEF vars, flags, Undoable, Failed
<1> QED BY <1>3, <1>4, <1>5, <1>6, <1>7, <1>8, <1>9, <1>10, <1>11, ValidActivate,
           ValidInvalidate DEF Next

\* FindMostWorkChain relies on it: as long as one thread at a time is in
\* ActivateBestChain, a failed block is on the active chain only if the node was shut
\* down or a block above it, or it itself, cannot be disconnected, for every tree and
\* every sequence of arrivals, RPCs and pruning.
THEOREM ActiveChainIsValid ==
  ASSUME \A t, u \in Threads : t = u
  PROVE  Spec => []ActiveChainValid
<1>1. Init => ActiveChainValid
  BY DEF Init, ActiveChainValid, Failed
<1>2. Spec => [](IInv /\ TargetInv /\ StoredInv)
  BY TargetAlways
<1>3. IInv /\ TargetInv /\ StoredInv /\ ActiveChainValid /\ [Next]_vars => ActiveChainValid'
  BY ValidNext
<1> QED BY <1>1, <1>2, <1>3, PTL DEF Spec

(***************************************************************************)
(* Failure flags have a cause, as long as reconsiderblock is not used.     *)
(***************************************************************************)

\* The same claim for every block, known or not, which is inductive.
CauseInv == \A b \in Blocks : Failed(b) => InvalidAncestor(b)

\* A flag below a block is also a cause for the block, and causes stay.
LEMMA CauseAbove ==
  ASSUME NEW d \in Blocks, NEW o \in Ancestors[d], InvalidAncestor(o),
         failedValid \subseteq failedValid'
  PROVE  InvalidAncestor(d)'
BY AncestorsTransitive DEF InvalidAncestor

\* Every step but reconsiderblock keeps it.
LEMMA CauseNext ==
  ASSUME "reconsider" \notin Operations, IInv, CauseInv, [Next]_vars
  PROVE  CauseInv'
<1> SUFFICES ASSUME NEW d \in Blocks, Failed(d)' PROVE InvalidAncestor(d)'
  BY DEF CauseInv
<1>1. d \in Ancestors[d]
  BY AncestorsReflexive
<1>2. tip \in Blocks /\ candidates \subseteq Blocks
  BY DEF IInv, TypeOK
<1>3. ASSUME failedValid \subseteq failedValid', d \in failedValid' \cup failedChild
      PROVE  InvalidAncestor(d)'
  <2>1. CASE d \in failedValid'
    BY <1>1, <2>1 DEF InvalidAncestor
  <2>2. CASE d \in failedChild
    BY <1>1, <1>3, <2>2, CauseAbove DEF CauseInv, Failed
  <2> QED BY <1>3, <2>1, <2>2
<1>4. ASSUME failedValid \subseteq failedValid', d \in FoundFailed
      PROVE  InvalidAncestor(d)'
  BY <1>2, <1>4, FoundBlocks, CauseAbove DEF CauseInv
<1>5. ASSUME NEW b \in Ancestors[d], b \in failedValid'
      PROVE  InvalidAncestor(d)'
  BY <1>5 DEF InvalidAncestor
<1>6. d \in failedValid' \cup failedChild'
  BY DEF Failed
<1>7. ASSUME NEW t \in Threads, ActivateNothing(t)
      PROVE  InvalidAncestor(d)'
  BY <1>3, <1>4, <1>6, <1>7 DEF ActivateNothing
<1>8. ASSUME NEW t \in Threads, ActivateBestChainStep(t)
      PROVE  InvalidAncestor(d)'
  <2>1. failedValid \subseteq failedValid'
    BY <1>8 DEF ActivateBestChainStep, DisconnectFails, ConnectAll, ConnectSome
  <2>2. failedChild' \subseteq failedChild \cup FoundFailed
    BY <1>8 DEF ActivateBestChainStep
  <2> QED BY <1>3, <1>4, <1>6, <2>1, <2>2
<1>9. ASSUME NEW t \in Threads, NEW b \in Blocks,
             InvalidateBlock(t, b) \/ InvalidateBlockFails(t, b)
      PROVE  InvalidAncestor(d)'
  <2>1. /\ failedValid' = failedValid \cup {b}
        /\ failedChild' \subseteq failedChild \cup {c \in Blocks : b \in Ancestors[c]}
    BY <1>2, <1>9, InvalidateEnds DEF IInv, TypeOK
  <2> QED BY <1>3, <1>5, <1>6, <2>1
<1>10. ASSUME NEW t \in Threads, NEW b \in Blocks, ReconsiderBlock(t, b)
       PROVE  FALSE
  BY <1>10 DEF ReconsiderBlock
<1>11. ASSUME failedValid \subseteq failedValid', failedChild' = failedChild
       PROVE  InvalidAncestor(d)'
  BY <1>3, <1>6, <1>11
<1>12. ASSUME NEW b \in Blocks, ProcessNewBlockHeader(b) PROVE InvalidAncestor(d)'
  BY <1>11, <1>12 DEF ProcessNewBlockHeader, flags
<1>13. ASSUME NEW t \in Threads, NEW b \in Blocks, NEW f \in BOOLEAN,
              \/ ProcessIgnoredBlock(t, b, f)
              \/ ProcessBadBlock(t, b, f)
              \/ ProcessNewBlock(t, b, f)
       PROVE  InvalidAncestor(d)'
  BY <1>11, <1>13 DEF ProcessIgnoredBlock, ProcessBadBlock, ProcessNewBlock, flags
<1>14. ASSUME NEW t \in Threads, NEW b \in Blocks, PreciousBlock(t, b)
       PROVE  InvalidAncestor(d)'
  BY <1>11, <1>14 DEF PreciousBlock, flags
<1>15. ASSUME NEW S \in SUBSET Blocks, PruneBlockFiles(S)
       PROVE  InvalidAncestor(d)'
  BY <1>11, <1>15 DEF PruneBlockFiles
<1>16. CASE UNCHANGED vars
  BY <1>11, <1>16 DEF vars, flags
<1> QED BY <1>7, <1>8, <1>9, <1>10, <1>12, <1>13, <1>14, <1>15, <1>16 DEF Next

\* As CheckBlockIndex asserts, BLOCK_FAILED_VALID or BLOCK_FAILED_CHILD on a block
\* means that the block or an ancestor is BLOCK_FAILED_VALID, in every behaviour
\* without reconsiderblock.
THEOREM FailuresHaveCause ==
  ASSUME "reconsider" \notin Operations
  PROVE  Spec => []FailureHasCause
<1>1. Init => CauseInv
  BY DEF Init, CauseInv, Failed
<1>2. IInv /\ CauseInv /\ [Next]_vars => CauseInv'
  BY CauseNext
<1>3. IInv /\ CauseInv => FailureHasCause
  BY DEF IInv, TypeOK, CauseInv, FailureHasCause
<1> QED BY <1>1, <1>2, <1>3, InvAlways, PTL DEF Spec

(***************************************************************************)
(* The candidates, without preciousblock and without pruning.              *)
(***************************************************************************)

\* Nothing was pruned, so nothing complete waits in mapBlocksUnlinked and no
\* sequence number is given twice; and no candidate is worse than the tip.
SoundInv ==
  /\ fHavePruned = FALSE
  /\ unlinked \cap linked = {}
  /\ \A b \in candidates : ~Worse(b, tip)

\* Moving the tip down the chain makes no candidate worse than the tip.
LEMMA LowerTip ==
  ASSUME tip \in Blocks, NEW low \in Ancestors[tip], NEW c \in Blocks,
         nSequenceId \in [Blocks -> {i \in Int : i >= -MaxPrecious}],
         ~Worse(c, tip)
  PROVE  ~Worse(c, low)
<1>1. low \in Blocks
  BY AncestorsReflexive
<1>2. low = tip \/ nChainWork[low] < nChainWork[tip]
  BY WorkAssumption
<1>3. nChainWork[low] \in Nat /\ nChainWork[tip] \in Nat /\ nChainWork[c] \in Nat
  BY <1>1, WorkAssumption
<1> QED BY <1>2, <1>3 DEF Worse, SortsBefore

\* Without pruning, what is complete has its data, and FindMostWorkChain gives up
\* candidates for failed blocks only.
LEMMA NothingMissing ==
  ASSUME IInv, SoundInv
  PROVE  linked \subseteq data /\ FoundMissing = {}
<1>1. linked \subseteq data
  BY DEF IInv, LinkedInv, DataInv, SoundInv
<1>2. ASSUME NEW c \in Passed
      PROVE  Failed(Obstacle(c))
  <2>1. c \in linked /\ c \in Blocks /\ Obstacles(c) # {} /\ tip \in Blocks
    BY DEF Passed, Usable, IInv, TypeOK, LinkedInv
  <2>2. Obstacle(c) \in Obstacles(c)
    BY <2>1, ObstacleFirst
  <2>3. Obstacle(c) \in linked
    BY <2>1, <2>2 DEF Obstacles, Route, IInv, LinkedInv
  <2> QED BY <1>1, <2>2, <2>3 DEF Obstacles
<1>3. Passed \ PassedFailed = {}
  BY <1>2 DEF PassedFailed
<1> QED BY <1>1, <1>3 DEF FoundMissing

\* A block that is stored was not complete before, and neither was what waited
\* for it; none of it goes on waiting.
LEMMA VisitedNew ==
  ASSUME IInv, SoundInv, NEW b \in Blocks \ {Genesis}, b \notin data,
         Parent[b] \in linked
  PROVE  /\ Visited(b) \cap linked = {}
         /\ StillWaiting(Visited(b)) \cap (linked \cup Visited(b)) = {}
<1>1. linked \subseteq data /\ unlinked \subseteq data
  BY NothingMissing DEF IInv, DataInv
<1>2. \A c \in Visited(b) : c = b \/ c \in unlinked
  BY VisitedLinked DEF IInv
<1>3. Visited(b) \cap linked = {}
  BY <1>1, <1>2 DEF SoundInv
<1>4. ASSUME NEW c \in StillWaiting(Visited(b)), c \in Visited(b)
      PROVE  FALSE
  <2>1. c \in unlinked /\ Parent[c] \notin Visited(b) /\ c # b
    BY <1>1 DEF StillWaiting
  <2>2. c \in Blocks \ {Genesis} /\ b \in Ancestors[c] /\ Route(c, b) \subseteq unlinked
    BY <1>4, <2>1 DEF Visited, IInv, TypeOK
  <2>3. b \in Ancestors[Parent[c]] /\ Parent[c] \in Blocks
    BY <2>1, <2>2, ParentBelow
  <2>4. Route(Parent[c], b) \subseteq Route(c, b)
    BY <2>2, ParentBelow DEF Route
  <2> QED BY <2>1, <2>2, <2>3, <2>4 DEF Visited
<1>5. StillWaiting(Visited(b)) \cap linked = {}
  BY DEF StillWaiting, SoundInv
<1> QED BY <1>3, <1>4, <1>5

\* ReceivedBlockTransactions keeps it.
LEMMA SoundReceived ==
  ASSUME IInv, SoundInv, NEW t \in Threads, NEW b \in Blocks,
         NEW fRequested \in BOOLEAN, ProcessNewBlock(t, b, fRequested)
  PROVE  SoundInv'
<1>1. b \in Blocks \ {Genesis} /\ b \notin data
  BY DEF ProcessNewBlock, AcceptableHeader, Ignored
<1>2. tip' = tip /\ fHavePruned' = fHavePruned
  BY DEF ProcessNewBlock
<1>3. tip \in linked /\ linked \subseteq Blocks /\ candidates \subseteq linked
  BY DEF IInv, TypeOK, LinkedInv
<1>4. CASE Parent[b] \in linked
  <2> DEFINE visited == Visited(b)
  <2>1. PICK order \in VisitOrders(visited) :
          /\ nSequenceId' = [c \in Blocks |-> IF c \in visited
                                              THEN nBlockSequenceId + order[c] - 1
                                              ELSE nSequenceId[c]]
          /\ candidates' = candidates \cup NewCandidates(visited, nSequenceId')
          /\ linked' = linked \cup visited
          /\ unlinked' = StillWaiting(visited)
    BY <1>4 DEF ProcessNewBlock, ReceivedBlockTransactions
  <2>2. visited \cap linked = {} /\ unlinked' \cap linked' = {}
    BY <1>1, <1>4, <2>1, VisitedNew
  <2> HIDE DEF visited
  <2>3. ASSUME NEW c \in linked
        PROVE  nSequenceId'[c] = nSequenceId[c]
    BY <1>3, <2>1, <2>2
  <2>4. ASSUME NEW c \in candidates'
        PROVE  ~SortsBefore(nSequenceId', c, tip)
    <3>1. CASE c \in candidates
      <4>1. ~SortsBefore(nSequenceId, c, tip) /\ c \in linked
        BY <1>3, <3>1 DEF SoundInv, Worse
      <4> QED BY <1>3, <2>3, <4>1 DEF SortsBefore
    <3>2. CASE c \in NewCandidates(visited, nSequenceId')
      BY <3>2 DEF NewCandidates
    <3> QED BY <2>1, <2>4, <3>1, <3>2
  <2>5. \A c \in candidates' : ~Worse(c, tip)'
    BY <1>2, <2>4 DEF Worse, SortsBefore
  <2> QED BY <1>2, <1>3, <2>1, <2>2, <2>5 DEF SoundInv
<1>5. CASE Parent[b] \notin linked
  <2>1. b \notin linked
    BY <1>1, NothingMissing
  <2>2. /\ unlinked' \subseteq unlinked \cup {b} /\ linked' = linked
        /\ nSequenceId' = nSequenceId /\ candidates' = candidates
    BY <1>5, <2>1 DEF ProcessNewBlock, ReceivedBlockTransactions
  <2>3. unlinked' \cap linked' = {}
    BY <2>1, <2>2 DEF SoundInv
  <2> QED BY <1>2, <1>3, <2>2, <2>3 DEF SoundInv, Worse, SortsBefore
<1> QED BY <1>4, <1>5

\* A step of ActivateBestChain keeps it: the tip goes down the chain, or up to a
\* block that PruneBlockIndexCandidates compares the candidates with.
LEMMA SoundActivate ==
  ASSUME IInv, SoundInv, NEW t \in Threads, ActivateBestChainStep(t)
  PROVE  SoundInv'
<1> DEFINE target == IF mostWork[t] = Null THEN FindMostWorkChain ELSE mostWork[t]
           set == IF mostWork[t] = Null THEN candidates \ FoundUnusable ELSE candidates
           fork == FindFork(target)
<1>1. /\ tip \in Blocks /\ candidates \subseteq Blocks
      /\ nSequenceId \in [Blocks -> {i \in Int : i >= -MaxPrecious}]
      /\ mostWork \in [Threads -> Blocks \cup {Null}]
  BY DEF IInv, TypeOK
<1>2. FoundMissing = {}
  BY NothingMissing
<1>3. target \in Blocks
  <2>1. target # Null
    BY DEF ActivateBestChainStep
  <2> QED BY <1>1, <2>1, MostWorkUsable
<1>4. fork \in Ancestors[tip] /\ fork \in Blocks
  BY <1>1, <1>3, ForkInBoth
<1>5. unlinked' = unlinked
  BY <1>2 DEF ActivateBestChainStep
<1>6. set \subseteq candidates
  OBVIOUS
<1>7. \/ DisconnectFails(target) /\ candidates' = set
      \/ ConnectAll(t, target, set)
      \/ ConnectSome(t, target, set)
  BY DEF ActivateBestChainStep
<1> HIDE DEF target, set
<1>8. PICK top \in Blocks :
        /\ tip' = top
        /\ \/ top \in Ancestors[tip] /\ candidates' \subseteq set
           \/ candidates' \subseteq PruneBlockIndexCandidates(set, top)
        /\ UNCHANGED <<linked, nSequenceId, fHavePruned>>
  <2>1. CASE DisconnectFails(target) /\ candidates' = set
    <3> DEFINE lost == Undone(target) \ Undoable
    <3>1. lost \subseteq Ancestors[tip] /\ lost # {}
      BY <2>1 DEF DisconnectFails, Undone, Route
    <3>2. Highest(lost) \in Ancestors[tip] /\ Highest(lost) \in Blocks
      BY <1>1, <3>1, LostBlock
    <3> QED BY <2>1, <3>2 DEF DisconnectFails
  <2>2. CASE ConnectAll(t, target, set)
    <3>1. Goal(target) \in Blocks
      BY <1>1, <1>3, GoalOnRoute
    <3> QED BY <1>4, <2>2, <3>1 DEF ConnectAll, Connect
  <2>3. CASE ConnectSome(t, target, set)
    <3> DEFINE end == Parent[Lowest(Stuck(t, target))]
    <3>0. end \in Ancestors[target]
      BY <1>1, <1>3, <2>3, StuckBlock DEF ConnectSome
    <3>1. end \in Blocks
      <4> HIDE DEF end
      <4> QED BY <1>3, <3>0, AncestorsTransitive
    <3>2. /\ tip' = end
          /\ candidates' \subseteq (IF end = fork THEN set
                                    ELSE PruneBlockIndexCandidates(set, end))
          /\ UNCHANGED <<linked, nSequenceId, fHavePruned>>
      BY <2>3 DEF ConnectSome, Connect
    <3> QED BY <1>4, <3>1, <3>2
  <2> QED BY <1>7, <2>1, <2>2, <2>3
<1>9. ASSUME NEW c \in candidates'
      PROVE  ~Worse(c, top)
  <2>1. CASE top \in Ancestors[tip] /\ candidates' \subseteq set
    <3>1. c \in candidates
      BY <1>6, <1>9, <2>1
    <3>2. ~Worse(c, tip) /\ c \in Blocks
      BY <1>1, <3>1 DEF SoundInv
    <3> QED BY <1>1, <2>1, <3>2, LowerTip
  <2>2. CASE candidates' \subseteq PruneBlockIndexCandidates(set, top)
    BY <1>9, <2>2 DEF PruneBlockIndexCandidates
  <2> QED BY <1>8, <2>1, <2>2
<1>10. \A c \in candidates' : ~Worse(c, tip)'
  BY <1>8, <1>9 DEF Worse, SortsBefore
<1> QED BY <1>5, <1>8, <1>10 DEF SoundInv

\* invalidateblock keeps it: the tip goes down, and only blocks as good as the new
\* tip are put back.
LEMMA SoundInvalidate ==
  ASSUME IInv, SoundInv, NEW t \in Threads, NEW b \in Blocks,
         InvalidateBlock(t, b) \/ InvalidateBlockFails(t, b)
  PROVE  SoundInv'
<1>1. /\ tip \in Blocks /\ candidates \subseteq Blocks
      /\ nSequenceId \in [Blocks -> {i \in Int : i >= -MaxPrecious}]
  BY DEF IInv, TypeOK
<1>2. PICK end \in Ancestors[tip] : tip' = end
  BY InvalidateEnds DEF IInv, TypeOK
<1>3. /\ candidates' \subseteq candidates \cup PutBack(b, end)
      /\ UNCHANGED <<linked, nSequenceId, unlinked, fHavePruned>>
  BY <1>2 DEF InvalidateBlock, InvalidateBlockFails
<1>4. ASSUME NEW c \in candidates'
      PROVE  ~Worse(c, end)
  <2>1. CASE c \in candidates
    <3>1. ~Worse(c, tip) /\ c \in Blocks
      BY <1>1, <2>1 DEF SoundInv
    <3> QED BY <1>1, <1>2, <3>1, LowerTip
  <2>2. CASE c \in PutBack(b, end)
    BY <2>2 DEF PutBack
  <2> QED BY <1>3, <2>1, <2>2
<1>5. \A c \in candidates' : ~Worse(c, tip)'
  BY <1>2, <1>3, <1>4 DEF Worse, SortsBefore
<1> QED BY <1>3, <1>5 DEF SoundInv

\* Every other step keeps it too.
LEMMA SoundNext ==
  ASSUME "precious" \notin Operations, "prune" \notin Operations,
         IInv, SoundInv, [Next]_vars
  PROVE  SoundInv'
<1>1. ASSUME UNCHANGED <<linked, nSequenceId, unlinked, tip, fHavePruned>>,
             \A c \in candidates' : ~Worse(c, tip)
      PROVE  SoundInv'
  <2>1. \A c \in candidates' : ~Worse(c, tip)'
    BY <1>1 DEF Worse, SortsBefore
  <2> QED BY <1>1, <2>1 DEF SoundInv
<1>2. ASSUME NEW b \in Blocks, ProcessNewBlockHeader(b) PROVE SoundInv'
  BY <1>1, <1>2 DEF ProcessNewBlockHeader, flags, SoundInv
<1>3. ASSUME NEW t \in Threads, NEW b \in Blocks, NEW f \in BOOLEAN,
             ProcessIgnoredBlock(t, b, f)
      PROVE  SoundInv'
  BY <1>1, <1>3 DEF ProcessIgnoredBlock, flags, SoundInv
<1>4. ASSUME NEW t \in Threads, NEW b \in Blocks, NEW f \in BOOLEAN,
             ProcessBadBlock(t, b, f)
      PROVE  SoundInv'
  BY <1>1, <1>4 DEF ProcessBadBlock, SoundInv
<1>5. ASSUME NEW t \in Threads, ActivateNothing(t)
      PROVE  SoundInv'
  <2>1. unlinked' = unlinked /\ candidates' \subseteq candidates
    BY <1>5, NothingMissing DEF ActivateNothing
  <2>2. UNCHANGED <<linked, nSequenceId, tip, fHavePruned>>
    BY <1>5 DEF ActivateNothing
  <2> QED BY <1>1, <2>1, <2>2 DEF SoundInv
<1>6. ASSUME NEW t \in Threads, NEW b \in Blocks, ReconsiderBlock(t, b)
      PROVE  SoundInv'
  <2>1. /\ UNCHANGED <<linked, nSequenceId, unlinked, tip, fHavePruned>>
        /\ \A c \in candidates' : c \in candidates \/ (c \in linked /\ Worse(tip, c))
    BY <1>6 DEF ReconsiderBlock
  <2>2. ASSUME NEW c \in linked, Worse(tip, c)
        PROVE  ~Worse(c, tip)
    <3>1. c \in Blocks /\ tip \in Blocks
      BY DEF IInv, TypeOK
    <3>2. /\ nChainWork[c] \in Nat /\ nChainWork[tip] \in Nat
          /\ Address[c] \in Nat /\ Address[tip] \in Nat
      BY <3>1, WorkAssumption
    <3>3. nSequenceId[c] \in Int /\ nSequenceId[tip] \in Int
      BY <3>1 DEF IInv, TypeOK
    <3> QED BY ONLY <2>2, <3>2, <3>3 DEF Worse, SortsBefore
  <2>3. \A c \in candidates' : ~Worse(c, tip)
    BY <2>1, <2>2 DEF SoundInv
  <2> QED BY <1>1, <2>1, <2>3
<1>7. ASSUME NEW t \in Threads, NEW b \in Blocks, PreciousBlock(t, b)
      PROVE  FALSE
  BY <1>7 DEF PreciousBlock
<1>8. ASSUME NEW S \in SUBSET Blocks, PruneBlockFiles(S)
      PROVE  FALSE
  BY <1>8 DEF PruneBlockFiles
<1>9. CASE UNCHANGED vars
  BY <1>1, <1>9 DEF vars, flags, SoundInv
<1> QED BY <1>2, <1>3, <1>4, <1>5, <1>6, <1>7, <1>8, <1>9, SoundReceived,
           SoundActivate, SoundInvalidate DEF Next

\* As CheckBlockIndex asserts, every entry of setBlockIndexCandidates has all its
\* ancestors and sorts no lower than the tip, however the threads interleave and
\* blocks are invalidated and reconsidered.
THEOREM CandidatesAreSound ==
  ASSUME "precious" \notin Operations, "prune" \notin Operations
  PROVE  Spec => []CandidatesSound
<1>1. Init => SoundInv
  <2> SUFFICES ASSUME Init PROVE SoundInv
    OBVIOUS
  <2>1. ~Worse(Genesis, Genesis)
    <3>1. nChainWork[Genesis] \in Nat /\ Address[Genesis] \in Nat
      BY TreeAssumption, WorkAssumption
    <3>2. nSequenceId[Genesis] = 1
      BY TreeAssumption DEF Init
    <3> QED BY <3>1, <3>2 DEF Worse, SortsBefore
  <2> QED BY <2>1 DEF Init, SoundInv
<1>2. IInv /\ SoundInv /\ [Next]_vars => SoundInv'
  BY SoundNext
<1>3. IInv /\ SoundInv => CandidatesSound
  BY DEF IInv, LinkedInv, SoundInv, CandidatesSound, NeverProcessed
<1> QED BY <1>1, <1>2, <1>3, InvAlways, PTL DEF Spec

=============================================================================
