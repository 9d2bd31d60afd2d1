-------------------------- MODULE CoinsViewProofs --------------------------
(***************************************************************************)
(* The flags of the coins caches are sound, pcoinsTip and the database     *)
(* hold the coins of the block they name, and the caches implement the     *)
(* plain maps of UTXOSet, for any transactions, values and blocks.  Every  *)
(* method of a cache is first treated as a function of one entry.          *)
(***************************************************************************)
EXTENDS CoinsView, TLAPS

Slot == Entry \cup {NoEntry}

\* What a reader sees through entry e of a cache whose base has coins c, and
\* what the flags of e say about c.
Seen(e, c) == IF e = NoEntry THEN c ELSE e.coins
Sound(e, c) ==
    e # NoEntry =>
        /\ e.FRESH => c = Pruned
        /\ ~e.DIRTY => e.coins = c

\* A view that is not alive is empty.
ViewClosed == ~live => view = EmptyCache

IInv == TypeOK /\ FlagsSound /\ ViewClosed /\ BestBlockMatchesCoins
-----------------------------------------------------------------------------
\* FetchCoins changes neither what is seen nor what the flags mean.
LEMMA FetchSound ==
    ASSUME NEW e \in Slot, NEW c \in Coins, Sound(e, c)
    PROVE  LET f == Fetched(e, c # Pruned, c)
           IN  /\ f \in Slot /\ Sound(f, c) /\ Seen(f, c) = Seen(e, c)
               /\ f = NoEntry => Seen(e, c) = Pruned
<1>1. CASE e # NoEntry \/ c = Pruned
  BY <1>1 DEF Slot, Sound, Seen, Fetched
<1>2. CASE e = NoEntry /\ c # Pruned
  <2> DEFINE f == [coins |-> c, DIRTY |-> FALSE, FRESH |-> FALSE]
  <2>1. Fetched(e, c # Pruned, c) = f
    BY <1>2 DEF Fetched
  <2>2. f \in Entry
    BY <1>2 DEF Entry
  <2>3. f # NoEntry
    BY <2>2, CoinsAssumption
  <2> QED
    BY <1>2, <2>1, <2>2, <2>3 DEF Slot, Sound, Seen
<1> QED
  BY <1>1, <1>2

\* Likewise for a view that fetches from pcoinsTip.
LEMMA FetchViewSound ==
    ASSUME NEW f \in Slot, NEW t \in Coins,
           f = NoEntry => t = Pruned,
           f # NoEntry => f.coins = t
    PROVE  LET v == IF f = NoEntry THEN NoEntry ELSE Fetched(NoEntry, TRUE, f.coins)
           IN  v \in Slot /\ Sound(v, t) /\ Seen(v, t) = t
  BY CoinsAssumption DEF Slot, Sound, Seen, Fetched, Entry, Coins

\* A modifier leaves an entry through which the written coins are seen.
LEMMA ModifySound ==
    ASSUME NEW e \in Slot, NEW f \in Slot, NEW t \in Coins, NEW c \in Coins,
           Sound(e, t),
           f = NoEntry => t = Pruned,
           f # NoEntry => f.coins = t
    PROVE  LET r == Release(Modifiable(e, f), c)
           IN  r \in Slot /\ Sound(r, t) /\ Seen(r, t) = c
  BY CoinsAssumption DEF Slot, Sound, Seen, Modifiable, Release, Entry, Coins

\* So does a modifier for new coins, given that nothing unspent is overwritten
\* unless by a coinbase.
LEMMA ModifyNewSound ==
    ASSUME NEW e \in Slot, NEW t \in Coins, NEW c \in Coins, NEW coinbase \in BOOLEAN,
           Sound(e, t),
           coinbase \/ Seen(e, t) = Pruned
    PROVE  LET r == Release(NewModifiable(e, coinbase), c)
           IN  r \in Slot /\ Sound(r, t) /\ Seen(r, t) = c
  BY CoinsAssumption DEF Slot, Sound, Seen, NewModifiable, Release, Entry, Coins

\* BatchWrite into a cache: the parent then shows what the child showed.
LEMMA MergeSound ==
    ASSUME NEW p \in Slot, NEW e \in Slot, NEW c \in Coins,
           Sound(p, c), Sound(e, Seen(p, c))
    PROVE  LET m == Merge(p, e)
           IN  m \in Slot /\ Sound(m, c) /\ Seen(m, c) = Seen(e, Seen(p, c))
  BY CoinsAssumption DEF Slot, Sound, Seen, Merge, Entry, Coins

\* BatchWrite into the database stores what was seen.
LEMMA StoredSound ==
    ASSUME NEW p \in Slot, NEW c \in Coins, Sound(p, c)
    PROVE  Stored(c, p) = Seen(p, c)
  BY CoinsAssumption DEF Slot, Sound, Seen, Stored, Entry, Coins

\* FRESH on a child's entry and unspent outputs in the parent exclude each other.
LEMMA SoundNotMisapplied ==
    ASSUME NEW p \in Slot, NEW e \in Slot, NEW c \in Coins, Sound(e, Seen(p, c))
    PROVE  ~Misapplied(p, e)
  BY CoinsAssumption DEF Slot, Sound, Seen, Misapplied
-----------------------------------------------------------------------------
\* The invariant, entry by entry.
LEMMA Pointwise ==
    ASSUME TypeOK, NEW x \in Txids
    PROVE  /\ tip[x] \in Slot /\ view[x] \in Slot /\ db[x] \in Coins
           /\ TipCoins(x) = Seen(tip[x], db[x])
           /\ ViewCoins(x) = Seen(view[x], TipCoins(x))
           /\ TipCoins(x) \in Coins /\ ViewCoins(x) \in Coins
  BY CoinsAssumption DEF TypeOK, Slot, Seen, TipCoins, ViewCoins, Entry

\* FlagsSound is soundness of every entry.
LEMMA FlagsPointwise ==
    FlagsSound <=> \A x \in Txids : Sound(tip[x], db[x]) /\ Sound(view[x], TipCoins(x))
  BY DEF FlagsSound, Sound

\* What TipFetched inserts can be seen and is sound.
LEMMA TipFetchedSound ==
    ASSUME TypeOK, FlagsSound, NEW x \in Txids
    PROVE  /\ TipFetched(x) \in Slot
           /\ Sound(TipFetched(x), db[x])
           /\ Seen(TipFetched(x), db[x]) = TipCoins(x)
           /\ TipFetched(x) = NoEntry => TipCoins(x) = Pruned
           /\ TipFetched(x) # NoEntry => TipFetched(x).coins = TipCoins(x)
<1>1. tip[x] \in Slot /\ db[x] \in Coins /\ Sound(tip[x], db[x])
      /\ TipCoins(x) = Seen(tip[x], db[x])
  BY Pointwise, FlagsPointwise
<1>2. /\ TipFetched(x) \in Slot
      /\ Sound(TipFetched(x), db[x])
      /\ Seen(TipFetched(x), db[x]) = TipCoins(x)
      /\ TipFetched(x) = NoEntry => TipCoins(x) = Pruned
  BY <1>1, FetchSound DEF TipFetched
<1> QED
  BY <1>2 DEF Seen

\* The initial state satisfies the invariant.
LEMMA InitIInv == Init => IInv
<1> SUFFICES ASSUME Init PROVE IInv
  OBVIOUS
<1>1. TypeOK
  <2>1. NoCoins \in [Txids -> Coins]
    BY DEF NoCoins, Coins
  <2>2. EmptyCache \in [Txids -> Entry \cup {NoEntry}]
    BY DEF EmptyCache
  <2>3. {NoCoins} \in {{m} : m \in [Txids -> Coins]}
    BY <2>1
  <2>4. stateOf \in [Blocks \cup {NullBlock} -> {{}} \cup {{m} : m \in [Txids -> Coins]}]
    BY <2>3 DEF Init
  <2>5. failures \in 0..MaxFailures
    BY CoinsAssumption DEF Init
  <2> QED
    BY <2>1, <2>2, <2>4, <2>5 DEF Init, TypeOK
<1>2. FlagsSound /\ ViewClosed
  BY DEF Init, FlagsSound, ViewClosed, EmptyCache
<1>3. BestBlockMatchesCoins
  BY DEF Init, BestBlockMatchesCoins, GetBestBlock, TipCoins, EmptyCache, NoCoins
<1> QED
  BY <1>1, <1>2, <1>3 DEF IInv

\* A step that changes entries of pcoinsTip without changing what is seen
\* through them, and the view, keeps the invariant.
LEMMA SameTip ==
    ASSUME IInv,
           tip' \in [Txids -> Slot], view' \in [Txids -> Slot], live' \in BOOLEAN,
           \A x \in Txids : Sound(tip'[x], db[x]) /\ Seen(tip'[x], db[x]) = TipCoins(x),
           \A x \in Txids : Sound(view'[x], TipCoins(x)),
           ~live' => view' = EmptyCache,
           UNCHANGED <<db, dbBest, failures, stateOf>>,
           tipBest' = tipBest \/ tipBest' = GetBestBlock
    PROVE  IInv' /\ \A x \in Txids : TipCoins(x)' = TipCoins(x)
<1>1. TypeOK'
  <2>1. tipBest' \in Blocks \cup {NullBlock}
    BY DEF IInv, TypeOK, GetBestBlock
  <2> QED
    BY <2>1 DEF IInv, TypeOK, Slot
<1>2. \A x \in Txids : TipCoins(x)' = TipCoins(x)
  BY DEF TipCoins, Seen
<1>3. FlagsSound'
  BY <1>2 DEF FlagsSound, Sound
<1>4. GetBestBlock' = GetBestBlock
  BY DEF GetBestBlock
<1>5. [x \in Txids |-> TipCoins(x)]' = [x \in Txids |-> TipCoins(x)]
  BY <1>2
<1>6. BestBlockMatchesCoins'
  BY <1>4, <1>5 DEF IInv, BestBlockMatchesCoins
<1> QED
  BY <1>1, <1>2, <1>3, <1>6 DEF IInv, ViewClosed

\* What the steps of a block's view do to the maps a reader sees.
SameTipCoins  == \A x \in Txids : TipCoins(x)' = TipCoins(x)
SameViewCoins == \A x \in Txids : ViewCoins(x)' = ViewCoins(x)

\* The facts about single entries that the invariant gives.
LEMMA Entries ==
    ASSUME IInv
    PROVE  /\ TypeOK /\ FlagsSound
           /\ \A x \in Txids :
                 /\ tip[x] \in Slot /\ view[x] \in Slot /\ db[x] \in Coins
                 /\ TipCoins(x) = Seen(tip[x], db[x]) /\ TipCoins(x) \in Coins
                 /\ ViewCoins(x) = Seen(view[x], TipCoins(x)) /\ ViewCoins(x) \in Coins
                 /\ Sound(tip[x], db[x]) /\ Sound(view[x], TipCoins(x))
           /\ tip \in [Txids -> Slot] /\ view \in [Txids -> Slot]
<1>1. TypeOK /\ FlagsSound
  BY DEF IInv
<1>2. tip \in [Txids -> Slot] /\ view \in [Txids -> Slot]
  BY <1>1 DEF TypeOK, Slot
<1> QED
  BY <1>1, <1>2, Pointwise, FlagsPointwise

\* OpenView shows pcoinsTip.
LEMMA OpenViewStep ==
    ASSUME IInv, OpenView
    PROVE  IInv' /\ SameTipCoins /\ \A x \in Txids : ViewCoins(x)' = TipCoins(x)
<1> USE Entries
<1>1. view' \in [Txids -> Slot] /\ \A x \in Txids : Sound(view'[x], TipCoins(x))
  BY DEF OpenView, EmptyCache, Slot, Sound
<1>2. IInv' /\ SameTipCoins
  BY <1>1, SameTip DEF OpenView, SameTipCoins
<1>3. \A x \in Txids : ViewCoins(x)' = TipCoins(x)
  BY <1>2 DEF OpenView, SameTipCoins, ViewCoins, EmptyCache
<1> QED
  BY <1>2, <1>3

\* A look-up in the view is not seen.
LEMMA ViewFetchStep ==
    ASSUME IInv, NEW x \in Txids, ViewFetch(x)
    PROVE  IInv' /\ SameTipCoins /\ SameViewCoins
<1> DEFINE f == TipFetched(x)
           v == IF f = NoEntry THEN NoEntry ELSE Fetched(NoEntry, TRUE, f.coins)
<1>1. /\ f \in Slot /\ Sound(f, db[x]) /\ Seen(f, db[x]) = TipCoins(x)
      /\ v \in Slot /\ Sound(v, TipCoins(x)) /\ Seen(v, TipCoins(x)) = TipCoins(x)
  BY Entries, TipFetchedSound, FetchViewSound
<1>2. tip' = [tip EXCEPT ![x] = f] /\ view' = [view EXCEPT ![x] = v]
  BY DEF ViewFetch
<1> HIDE DEF f, v
<1>3. tip' \in [Txids -> Slot] /\ view' \in [Txids -> Slot]
  BY <1>1, <1>2, Entries
<1>4. \A y \in Txids : Sound(tip'[y], db[y]) /\ Seen(tip'[y], db[y]) = TipCoins(y)
  BY <1>1, <1>2, Entries
<1>5. \A y \in Txids : Sound(view'[y], TipCoins(y)) /\ Seen(view'[y], TipCoins(y)) = ViewCoins(y)
  BY <1>1, <1>2, Entries DEF ViewFetch, Seen
<1>6. IInv' /\ SameTipCoins
  BY <1>3, <1>4, <1>5, SameTip, Entries DEF ViewFetch, SameTipCoins, TypeOK
<1> QED
  BY <1>5, <1>6 DEF SameViewCoins, SameTipCoins, ViewCoins, Seen

\* A modification is seen in the view and nowhere else.
LEMMA ModifyCoinsStep ==
    ASSUME IInv, NEW x \in Txids, NEW c \in Coins, ModifyCoins(x, c)
    PROVE  /\ IInv' /\ SameTipCoins
           /\ \A y \in Txids : ViewCoins(y)' = IF y = x THEN c ELSE ViewCoins(y)
<1> DEFINE f == TipFetched(x)
           v == Release(Modifiable(view[x], f), c)
<1>1. /\ f \in Slot /\ Sound(f, db[x]) /\ Seen(f, db[x]) = TipCoins(x)
      /\ v \in Slot /\ Sound(v, TipCoins(x)) /\ Seen(v, TipCoins(x)) = c
  BY Entries, TipFetchedSound, ModifySound
<1>2. /\ tip' = [tip EXCEPT ![x] = f] \/ tip' = tip
      /\ view' = [view EXCEPT ![x] = v]
  BY DEF ModifyCoins
<1> HIDE DEF f, v
<1>3. tip' \in [Txids -> Slot] /\ view' \in [Txids -> Slot]
  BY <1>1, <1>2, Entries
<1>4. \A y \in Txids : Sound(tip'[y], db[y]) /\ Seen(tip'[y], db[y]) = TipCoins(y)
  BY <1>1, <1>2, Entries
<1>5. \A y \in Txids : /\ Sound(view'[y], TipCoins(y))
                       /\ Seen(view'[y], TipCoins(y)) = IF y = x THEN c ELSE ViewCoins(y)
  BY <1>1, <1>2, Entries
<1>6. IInv' /\ SameTipCoins
  BY <1>3, <1>4, <1>5, SameTip, Entries DEF ModifyCoins, SameTipCoins, TypeOK
<1> QED
  BY <1>5, <1>6 DEF SameTipCoins, ViewCoins, Seen

\* So is the creation of new coins.
LEMMA ModifyNewCoinsStep ==
    ASSUME IInv, NEW x \in Txids, NEW c \in Coins, NEW coinbase \in BOOLEAN,
           ModifyNewCoins(x, coinbase, c)
    PROVE  /\ IInv' /\ SameTipCoins
           /\ \A y \in Txids : ViewCoins(y)' = IF y = x THEN c ELSE ViewCoins(y)
<1> DEFINE v == Release(NewModifiable(view[x], coinbase), c)
<1>1. v \in Slot /\ Sound(v, TipCoins(x)) /\ Seen(v, TipCoins(x)) = c
  BY Entries, ModifyNewSound DEF ModifyNewCoins
<1>2. view' = [view EXCEPT ![x] = v] /\ tip' = tip
  BY DEF ModifyNewCoins
<1> HIDE DEF v
<1>3. tip' \in [Txids -> Slot] /\ view' \in [Txids -> Slot]
  BY <1>1, <1>2, Entries
<1>4. \A y \in Txids : Sound(tip'[y], db[y]) /\ Seen(tip'[y], db[y]) = TipCoins(y)
  BY <1>2, Entries
<1>5. \A y \in Txids : /\ Sound(view'[y], TipCoins(y))
                       /\ Seen(view'[y], TipCoins(y)) = IF y = x THEN c ELSE ViewCoins(y)
  BY <1>1, <1>2, Entries
<1>6. IInv' /\ SameTipCoins
  BY <1>3, <1>4, <1>5, SameTip, Entries DEF ModifyNewCoins, SameTipCoins, TypeOK
<1> QED
  BY <1>5, <1>6 DEF SameTipCoins, ViewCoins, Seen

\* An abandoned view leaves pcoinsTip as it was.
LEMMA DiscardViewStep ==
    ASSUME IInv, DiscardView
    PROVE  IInv' /\ SameTipCoins /\ \A x \in Txids : ViewCoins(x)' = TipCoins(x)
<1>1. view' \in [Txids -> Slot] /\ \A x \in Txids : Sound(view'[x], TipCoins(x))
  BY DEF DiscardView, EmptyCache, Slot, Sound
<1>2. IInv' /\ SameTipCoins
  BY <1>1, SameTip, Entries DEF DiscardView, SameTipCoins
<1>3. \A x \in Txids : ViewCoins(x)' = TipCoins(x)
  BY <1>2 DEF DiscardView, SameTipCoins, ViewCoins, EmptyCache
<1> QED
  BY <1>2, <1>3

\* Neither filling pcoinsTip nor dropping an unmodified entry is seen.
LEMMA TipEntryStep ==
    ASSUME IInv, NEW x \in Txids, TipFetch(x) \/ Uncache(x)
    PROVE  IInv' /\ SameTipCoins /\ SameViewCoins
<1>1. PICK f \in Slot : /\ tip' = [tip EXCEPT ![x] = f]
                        /\ Sound(f, db[x]) /\ Seen(f, db[x]) = TipCoins(x)
  <2>1. CASE TipFetch(x)
    BY <2>1, Entries, TipFetchedSound DEF TipFetch
  <2>2. CASE Uncache(x)
    <3>1. Seen(NoEntry, db[x]) = TipCoins(x)
      BY <2>2, Entries DEF Uncache, Seen, Sound
    <3> QED
      BY <2>2, <3>1 DEF Uncache, Slot, Sound
  <2> QED
    BY <2>1, <2>2
<1>2. UNCHANGED <<db, dbBest, tipBest, view, live, failures, stateOf>>
  BY DEF TipFetch, Uncache
<1>3. tip' \in [Txids -> Slot]
  BY <1>1, Entries
<1>4. \A y \in Txids : Sound(tip'[y], db[y]) /\ Seen(tip'[y], db[y]) = TipCoins(y)
  BY <1>1, Entries
<1>5. IInv' /\ SameTipCoins
  BY <1>2, <1>3, <1>4, SameTip, Entries DEF SameTipCoins, IInv, ViewClosed, TypeOK
<1> QED
  BY <1>2, <1>5 DEF SameTipCoins, SameViewCoins, ViewCoins

\* The maps of TipCoins and ViewCoins as functions.
TipMap  == [x \in Txids |-> TipCoins(x)]
ViewMap == [x \in Txids |-> ViewCoins(x)]

\* A flushed view becomes what pcoinsTip shows, under the block it was for.
LEMMA FlushViewStep ==
    ASSUME IInv, NEW b \in Blocks, FlushView(b)
    PROVE  /\ IInv'
           /\ \A x \in Txids : TipCoins(x)' = ViewCoins(x) /\ ViewCoins(x)' = ViewCoins(x)
           /\ GetBestBlock' = b
<1>1. \A x \in Txids : /\ Merge(tip[x], view[x]) \in Slot
                       /\ Sound(Merge(tip[x], view[x]), db[x])
                       /\ Seen(Merge(tip[x], view[x]), db[x]) = ViewCoins(x)
  <2> TAKE x \in Txids
  <2>1. /\ tip[x] \in Slot /\ view[x] \in Slot /\ db[x] \in Coins
        /\ Sound(tip[x], db[x]) /\ Sound(view[x], Seen(tip[x], db[x]))
        /\ ViewCoins(x) = Seen(view[x], Seen(tip[x], db[x]))
    BY Entries
  <2> QED
    BY ONLY <2>1, MergeSound
<1>2. /\ tip' = [x \in Txids |-> Merge(tip[x], view[x])]
      /\ tipBest' = b /\ view' = EmptyCache /\ live' = FALSE
      /\ stateOf' = [stateOf EXCEPT ![b] = {ViewMap}]
      /\ stateOf[b] \subseteq {ViewMap}
      /\ UNCHANGED <<db, dbBest, failures>>
  BY DEF FlushView, ViewMap
<1>3. tip' \in [Txids -> Slot] /\ view' \in [Txids -> Slot]
  BY <1>1, <1>2 DEF EmptyCache, Slot
<1>4. \A x \in Txids : Sound(tip'[x], db[x]) /\ Seen(tip'[x], db[x]) = ViewCoins(x)
  BY <1>1, <1>2
<1>5. \A x \in Txids : TipCoins(x)' = ViewCoins(x)
  BY <1>2, <1>4 DEF TipCoins, Seen
<1>6. \A x \in Txids : ViewCoins(x)' = ViewCoins(x)
  BY <1>2, <1>5 DEF ViewCoins, EmptyCache
<1>7. b # NullBlock /\ GetBestBlock' = b
  BY <1>2, CoinsAssumption DEF GetBestBlock
<1>8. TypeOK'
  <2>1. ViewMap \in [Txids -> Coins]
    BY Entries DEF ViewMap
  <2>2. {ViewMap} \in {{m} : m \in [Txids -> Coins]}
    BY <2>1
  <2>3. stateOf' \in [Blocks \cup {NullBlock} -> {{}} \cup {{m} : m \in [Txids -> Coins]}]
    BY <1>2, <2>2, Entries DEF TypeOK
  <2> QED
    BY <1>2, <1>3, <2>3, Entries DEF TypeOK, Slot
<1>9. FlagsSound'
  <2>1. \A x \in Txids : Sound(view'[x], TipCoins(x)')
    BY <1>2 DEF Sound, EmptyCache
  <2>2. \A x \in Txids : Sound(tip'[x], db'[x])
    BY <1>2, <1>4
  <2> QED
    BY <2>1, <2>2 DEF FlagsSound, Sound
<1>10. BestBlockMatchesCoins'
  <2> SUFFICES ASSUME failures = 0
               PROVE  stateOf'[dbBest] = {db} /\ stateOf'[b] = {TipMap'}
    BY <1>2, <1>7 DEF BestBlockMatchesCoins, TipMap
  <2>1. stateOf[dbBest] = {db}
    BY DEF IInv, BestBlockMatchesCoins
  <2>2. stateOf'[b] = {ViewMap}
    BY <1>2, Entries DEF TypeOK
  <2>3. TipMap' = ViewMap
    BY <1>5 DEF TipMap, ViewMap
  <2>4. CASE dbBest = b
    BY <1>2, <2>1, <2>2, <2>3, <2>4
  <2>5. CASE dbBest # b
    BY <1>2, <2>1, <2>2, <2>3, <2>5, Entries DEF TypeOK
  <2> QED
    BY <2>4, <2>5
<1>11. ViewClosed'
  BY <1>2 DEF ViewClosed
<1> QED
  BY <1>5, <1>6, <1>7, <1>8, <1>9, <1>10, <1>11 DEF IInv

\* A flush of pcoinsTip saves what is seen and does not change it.
LEMMA FlushTipStep ==
    ASSUME IInv, FlushTip
    PROVE  /\ IInv' /\ SameTipCoins /\ SameViewCoins
           /\ db' = TipMap /\ dbBest' = GetBestBlock /\ GetBestBlock' = GetBestBlock
<1>1. \A x \in Txids : Stored(db[x], tip[x]) = TipCoins(x)
  BY Entries, StoredSound
<1>2. db' = TipMap
  BY <1>1 DEF FlushTip, TipMap
<1>3. /\ dbBest' = GetBestBlock /\ tip' = EmptyCache /\ view' = EmptyCache /\ view = EmptyCache
      /\ UNCHANGED <<tipBest, view, live, failures, stateOf>>
  BY DEF FlushTip, IInv, ViewClosed
<1>4. GetBestBlock' = GetBestBlock /\ GetBestBlock \in Blocks \cup {NullBlock}
  BY <1>3, Entries DEF GetBestBlock, TypeOK
<1>5. SameTipCoins
  BY <1>2, <1>3 DEF SameTipCoins, TipCoins, TipMap, EmptyCache
<1>6. SameViewCoins
  BY <1>3, <1>5 DEF SameTipCoins, SameViewCoins, ViewCoins
<1>7. TypeOK'
  <2>1. TipMap \in [Txids -> Coins]
    BY Entries DEF TipMap
  <2>2. EmptyCache \in [Txids -> Entry \cup {NoEntry}]
    BY DEF EmptyCache
  <2> QED
    BY <1>2, <1>3, <1>4, <2>1, <2>2, Entries DEF TypeOK
<1>8. FlagsSound' /\ ViewClosed'
  BY <1>3 DEF FlagsSound, EmptyCache, ViewClosed
<1>9. BestBlockMatchesCoins'
  <2>1. TipMap' = TipMap
    BY <1>5 DEF TipMap, SameTipCoins
  <2>2. failures = 0 => stateOf[GetBestBlock] = {TipMap}
    BY DEF IInv, BestBlockMatchesCoins, TipMap
  <2> QED
    BY <1>2, <1>3, <1>4, <2>1, <2>2 DEF BestBlockMatchesCoins, TipMap
<1> QED
  BY <1>2, <1>3, <1>4, <1>5, <1>6, <1>7, <1>8, <1>9 DEF IInv

\* After a failed write, and after a crash, the database is what is seen.
LEMMA LossStep ==
    ASSUME IInv, FlushTipFails \/ Crash
    PROVE  IInv' /\ \A x \in Txids : TipCoins(x)' = db[x] /\ ViewCoins(x)' = db[x]
<1>1. /\ tip' = EmptyCache /\ view' = EmptyCache
      /\ UNCHANGED <<db, dbBest, stateOf>>
      /\ tipBest' \in {tipBest, NullBlock} /\ live' = FALSE
      /\ failures' \in 0..MaxFailures
  BY CoinsAssumption, SMT DEF FlushTipFails, Crash, IInv, ViewClosed, TypeOK
<1>2. \A x \in Txids : TipCoins(x)' = db[x] /\ ViewCoins(x)' = db[x]
  BY <1>1 DEF TipCoins, ViewCoins, EmptyCache
<1>3. TypeOK' /\ FlagsSound' /\ ViewClosed'
  BY <1>1, Entries DEF TypeOK, FlagsSound, ViewClosed, EmptyCache
<1>4. BestBlockMatchesCoins'
  <2>1. CASE Crash
    <3>1. GetBestBlock' = dbBest /\ failures' = failures
      BY <2>1 DEF Crash, GetBestBlock
    <3>2. TipMap' = db
      BY <1>2, Entries DEF TipMap, TypeOK
    <3>3. failures = 0 => stateOf[dbBest] = {db}
      BY DEF IInv, BestBlockMatchesCoins
    <3> QED
      BY <1>1, <3>1, <3>2, <3>3 DEF BestBlockMatchesCoins, TipMap
  <2>2. CASE FlushTipFails
    <3>1. failures' # 0
      BY <2>2, Entries, CoinsAssumption, SMT DEF FlushTipFails, TypeOK
    <3> QED
      BY <3>1 DEF BestBlockMatchesCoins
  <2> QED
    BY <2>1, <2>2
<1> QED
  BY <1>2, <1>3, <1>4 DEF IInv
-----------------------------------------------------------------------------
\* Every step keeps the invariant.
THEOREM Inductive == IInv /\ [Next]_vars => IInv'
<1> SUFFICES ASSUME IInv, [Next]_vars PROVE IInv'
  OBVIOUS
<1>1. CASE OpenView
  BY <1>1, OpenViewStep
<1>2. CASE DiscardView
  BY <1>2, DiscardViewStep
<1>3. CASE FlushTip
  BY <1>3, FlushTipStep
<1>4. CASE FlushTipFails \/ Crash
  BY <1>4, LossStep
<1>5. ASSUME NEW x \in Txids, ViewFetch(x) \/ TipFetch(x) \/ Uncache(x) PROVE IInv'
  BY <1>5, ViewFetchStep, TipEntryStep
<1>6. ASSUME NEW x \in Txids, NEW c \in Coins, ModifyCoins(x, c) PROVE IInv'
  BY <1>6, ModifyCoinsStep
<1>7. ASSUME NEW x \in Txids, NEW coinbase \in BOOLEAN, NEW c \in Coins,
             ModifyNewCoins(x, coinbase, c)
      PROVE  IInv'
  BY <1>7, ModifyNewCoinsStep
<1>8. ASSUME NEW b \in Blocks, FlushView(b) PROVE IInv'
  BY <1>8, FlushViewStep
<1>9. CASE UNCHANGED vars
  <2>1. TypeOK' /\ FlagsSound' /\ ViewClosed'
    BY <1>9 DEF vars, IInv, TypeOK, FlagsSound, TipCoins, ViewClosed
  <2>2. BestBlockMatchesCoins'
    BY <1>9 DEF vars, IInv, BestBlockMatchesCoins, GetBestBlock, TipCoins
  <2> QED
    BY <2>1, <2>2 DEF IInv
<1> QED
  BY <1>1, <1>2, <1>3, <1>4, <1>5, <1>6, <1>7, <1>8, <1>9 DEF Next

\* The inductive invariant holds in every reachable state.
THEOREM Invariance == Spec => []IInv
  BY InitIInv, Inductive, PTL DEF Spec

\* The caches never hold an entry the code could not have made.
THEOREM TypeCorrect == Spec => []TypeOK
<1>1. IInv => TypeOK
  BY DEF IInv
<1> QED
  BY <1>1, Invariance, PTL

\* The FRESH and DIRTY flags mean what coins.h says at both levels.
THEOREM FlagsAreSound == Spec => []FlagsSound
<1>1. IInv => FlagsSound
  BY DEF IInv
<1> QED
  BY <1>1, Invariance, PTL

\* BatchWrite never throws "FRESH flag misapplied".
THEOREM NeverMisapplied == Spec => []FreshNeverMisapplied
<1>1. IInv => FreshNeverMisapplied
  BY Entries, SoundNotMisapplied DEF FreshNeverMisapplied
<1> QED
  BY <1>1, Invariance, PTL

\* Without failed writes the coins always belong to the named best block.
THEOREM BestBlockIsRight == Spec => []BestBlockMatchesCoins
<1>1. IInv => BestBlockMatchesCoins
  BY DEF IInv
<1> QED
  BY <1>1, Invariance, PTL

\* A view reads back what was written to it.
THEOREM ReadsOwn == Spec => ReadsOwnWrites
<1> DEFINE A == \A x \in Txids, c \in Coins :
          ModifyCoins(x, c) \/ (\E coinbase \in BOOLEAN : ModifyNewCoins(x, coinbase, c))
          => \A y \in Txids : ViewCoins(y)' = IF y = x THEN c ELSE ViewCoins(y)
<1>1. IInv => A
  BY ModifyCoinsStep, ModifyNewCoinsStep
<1>2. IInv => [A]_vars
  BY <1>1
<1>3. ReadsOwnWrites <=> [][A]_vars
  BY DEF ReadsOwnWrites
<1> HIDE DEF A
<1> QED
  BY <1>2, <1>3, Invariance, PTL DEF Spec
-----------------------------------------------------------------------------
\* Refinement.

\* Equal coins give equal maps.
LEMMA MapsExt ==
    /\ SameTipCoins => TipMap' = TipMap
    /\ SameViewCoins => ViewMap' = ViewMap
    /\ (\A x \in Txids : ViewCoins(x)' = TipCoins(x)) => ViewMap' = TipMap
    /\ (\A x \in Txids : TipCoins(x)' = ViewCoins(x)) => TipMap' = ViewMap
    /\ ViewMap = [x \in Txids |-> ViewCoins(x)]
  BY DEF SameTipCoins, SameViewCoins, TipMap, ViewMap

\* A step of the caches is a step of the plain maps, or is not seen there.
LEMMA StepRefines ==
    ASSUME IInv, [Next]_vars
    PROVE  [UTXO!Next]_(UTXO!vars)
<1> USE DEF TipMap, ViewMap
<1>1. CASE OpenView
  <2>1. GetBestBlock' = GetBestBlock /\ SameTipCoins /\ ViewMap' = TipMap
    BY <1>1, OpenViewStep, MapsExt DEF OpenView, GetBestBlock
  <2>2. UTXO!Open
    BY <1>1, <2>1, MapsExt DEF OpenView, UTXO!Open
  <2> QED
    BY <2>2 DEF UTXO!Next
<1>2. CASE DiscardView
  <2>1. GetBestBlock' = GetBestBlock /\ SameTipCoins /\ ViewMap' = TipMap
    BY <1>2, DiscardViewStep, MapsExt DEF DiscardView, GetBestBlock
  <2>2. UTXO!Abandon
    BY <1>2, <2>1, MapsExt DEF DiscardView, UTXO!Abandon
  <2> QED
    BY <2>2 DEF UTXO!Next
<1>3. CASE FlushTip
  <2>1. UTXO!Save
    BY <1>3, FlushTipStep, MapsExt DEF FlushTip, UTXO!Save
  <2> QED
    BY <2>1 DEF UTXO!Next
<1>4. CASE FlushTipFails
  <2>1. TipMap' = db /\ ViewMap' = db /\ GetBestBlock' = GetBestBlock
    BY <1>4, LossStep, Entries DEF FlushTipFails, GetBestBlock, TypeOK
  <2>2. UTXO!SaveFails
    BY <1>4, <2>1 DEF FlushTipFails, UTXO!SaveFails
  <2> QED
    BY <2>2 DEF UTXO!Next
<1>5. CASE Crash
  <2>1. TipMap' = db /\ ViewMap' = db /\ GetBestBlock' = dbBest
    BY <1>5, LossStep, Entries DEF Crash, GetBestBlock, TypeOK
  <2>2. UTXO!Crash
    BY <1>5, <2>1 DEF Crash, UTXO!Crash
  <2> QED
    BY <2>2 DEF UTXO!Next
<1>6. ASSUME NEW x \in Txids, ViewFetch(x) \/ TipFetch(x) \/ Uncache(x)
      PROVE  UNCHANGED UTXO!vars
  <2>1. GetBestBlock' = GetBestBlock /\ UNCHANGED <<db, dbBest, live>>
    BY <1>6 DEF ViewFetch, TipFetch, Uncache, GetBestBlock
  <2>2. SameTipCoins /\ SameViewCoins
    BY <1>6, ViewFetchStep, TipEntryStep
  <2> QED
    BY <2>1, <2>2, MapsExt DEF UTXO!vars
<1>7. ASSUME NEW x \in Txids, NEW c \in Coins,
             \/ ModifyCoins(x, c)
             \/ \E coinbase \in BOOLEAN : ModifyNewCoins(x, coinbase, c)
      PROVE  UTXO!Next
  <2>1. live /\ GetBestBlock' = GetBestBlock /\ UNCHANGED <<db, dbBest, live>>
    BY <1>7 DEF ModifyCoins, ModifyNewCoins, GetBestBlock
  <2>2. SameTipCoins /\ \A y \in Txids : ViewCoins(y)' = IF y = x THEN c ELSE ViewCoins(y)
    BY <1>7, ModifyCoinsStep, ModifyNewCoinsStep
  <2>3. ViewMap' = [ViewMap EXCEPT ![x] = c]
    BY <2>2
  <2>4. UTXO!Write(x, c)
    BY <2>1, <2>2, <2>3, MapsExt DEF UTXO!Write
  <2> QED
    BY <2>4 DEF UTXO!Next
<1>8. ASSUME NEW b \in Blocks, FlushView(b)
      PROVE  UTXO!Next
  <2>1. TipMap' = ViewMap /\ ViewMap' = ViewMap /\ GetBestBlock' = b
    BY <1>8, FlushViewStep, MapsExt DEF SameViewCoins
  <2>2. UTXO!Commit(b)
    BY <1>8, <2>1 DEF FlushView, UTXO!Commit
  <2> QED
    BY <2>2 DEF UTXO!Next
<1>9. CASE UNCHANGED vars
  BY <1>9 DEF vars, UTXO!vars, TipCoins, ViewCoins, GetBestBlock
<1> QED
  BY <1>1, <1>2, <1>3, <1>4, <1>5, <1>6, <1>7, <1>8, <1>9 DEF Next

\* Database, pcoinsTip and view implement the three plain maps of UTXOSet, failed
\* writes included: caching, flags and fetches are invisible.
THEOREM Implements == Spec => Refinement
<1>1. Init => UTXO!Init
  BY DEF Init, UTXO!Init, UTXO!Empty, TipCoins, ViewCoins, GetBestBlock, EmptyCache, NoCoins
<1>2. IInv /\ [Next]_vars => [UTXO!Next]_(UTXO!vars)
  BY StepRefines
<1> QED
  BY <1>1, <1>2, Invariance, PTL DEF Spec, Refinement, UTXO!Spec
=============================================================================
