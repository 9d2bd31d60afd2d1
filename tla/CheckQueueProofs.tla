-------------------------- MODULE CheckQueueProofs --------------------------
(***************************************************************************)
(* Proofs that the check queue is correct for any finite set of workers,   *)
(* any finite set of checks and any batch size.                            *)
(***************************************************************************)
EXTENDS CheckQueue, FiniteSetTheorems, TLAPS

\* The positions of a thread that is counted in nTotal, and in nIdle.
Counted == {"waiting", "woken", "run", "done", "dead"}
Idle    == {"waiting", "woken", "dead"}

In(p, S) == {t \in Threads : p[t] \in S}

CountsInv ==
    /\ nTotal = Cardinality(In(pc, Counted))
    /\ nIdle  = Cardinality(In(pc, Idle))

PositionInv ==
    /\ pc[Master] # "dead"
    /\ \A w \in Workers : pc[w] # "open"
    /\ \A t \in Threads : vChecks[t] # {} <=> pc[t] \in {"run", "done"}
    /\ pc[Master] = "out" => Pending = {} /\ fAllOk

StatusInv ==
    /\ Pending \subseteq added
    /\ fAllOk /\ pc[Master] # "out" => (added \ Pending) \cap failing = {}
    /\ ~fAllOk => failing # {}
    /\ \A t \in Threads : pc[t] = "done" /\ fOk[t] => vChecks[t] \cap failing = {}
    /\ \A t \in Threads : pc[t] \in {"run", "done"} /\ ~fOk[t] => failing # {}

IInv == TypeOK /\ TodoCounts /\ CountsInv /\ PositionInv /\ StatusInv /\ ResultCorrect

-----------------------------------------------------------------------------
\* Inside a critical section of thread t: what is true of everything but t.

Others(t) == Threads \ {t}
InBut(p, S, t) == {u \in Others(t) : p[u] \in S}
PendingBut(t) == queue \cup UNION {vChecks[u] : u \in Others(t)}

MidCounts(t, p, tot, idle, todo) ==
    /\ tot  = Cardinality(InBut(p, Counted, t)) + 1
    /\ idle = Cardinality(InBut(p, Idle, t))
    /\ todo = Cardinality(PendingBut(t))
    /\ \A u \in Others(t) : vChecks[u] \cap queue = {}
    /\ \A u, v \in Others(t) : u # v => vChecks[u] \cap vChecks[v] = {}

MidPositions(t, p, ok) ==
    /\ p \in [Threads -> Positions]
    /\ p[Master] # "dead"
    /\ \A w \in Workers : p[w] # "open"
    /\ \A u \in Others(t) : vChecks[u] # {} <=> p[u] \in {"run", "done"}
    /\ t # Master /\ p[Master] = "out" =>
          PendingBut(t) = {} /\ ok /\ (fRet <=> failing = {})

MidStatus(t, p, ok) ==
    /\ ok \in BOOLEAN
    /\ PendingBut(t) \subseteq added
    /\ ok /\ (t = Master \/ p[Master] # "out") =>
          (added \ PendingBut(t)) \cap failing = {}
    /\ ~ok => failing # {}
    /\ \A u \in Others(t) : p[u] = "done" /\ fOk[u] => vChecks[u] \cap failing = {}
    /\ \A u \in Others(t) : p[u] \in {"run", "done"} /\ ~fOk[u] => failing # {}

Mid(t, p, tot, idle, todo, ok) ==
    TypeOK /\ MidCounts(t, p, tot, idle, todo) /\ MidPositions(t, p, ok) /\ MidStatus(t, p, ok)

-----------------------------------------------------------------------------
\* The size of a disjoint union, used to move checks between queue, batches and nTodo.
LEMMA DisjointUnion ==
  ASSUME NEW S, NEW T, IsFiniteSet(S), IsFiniteSet(T), S \cap T = {}
  PROVE  /\ Cardinality(S) \in Nat /\ Cardinality(T) \in Nat
         /\ Cardinality(S \cup T) = Cardinality(S) + Cardinality(T)
  <1>1. Cardinality(S) \in Nat /\ Cardinality(T) \in Nat BY FS_CardinalityType
  <1>2. Cardinality(S \cap T) = 0 BY FS_EmptySet
  <1>3. Cardinality(S \cup T) = Cardinality(S) + Cardinality(T) - Cardinality(S \cap T)
    BY FS_Union
  <1> QED BY <1>1, <1>2, <1>3

\* Threads and what they hold are finite.
LEMMA ThreadsFinite == IsFiniteSet(Threads)
  BY CheckQueueAssumption, FS_AddElement DEF Threads

\* Every set of threads is finite, so nTotal and nIdle can be its size.
LEMMA SubsetsFinite ==
  ASSUME NEW p, NEW S, NEW t
  PROVE  IsFiniteSet(In(p, S)) /\ IsFiniteSet(InBut(p, S, t))
  <1>1. In(p, S) \in SUBSET Threads /\ InBut(p, S, t) \in SUBSET Threads
    BY DEF In, InBut, Others
  <1> QED BY <1>1, ThreadsFinite, FS_Subset

\* The checks queued or held are finite and so have a size nTodo can equal.
LEMMA PendingFinite ==
  ASSUME TypeOK, NEW t \in Threads
  PROVE  /\ Pending \in SUBSET Checks /\ PendingBut(t) \in SUBSET Checks
         /\ IsFiniteSet(Pending) /\ IsFiniteSet(PendingBut(t))
         /\ IsFiniteSet(vChecks[t]) /\ IsFiniteSet(queue)
         /\ Pending = PendingBut(t) \cup vChecks[t]
  <1>1. Pending \in SUBSET Checks /\ PendingBut(t) \in SUBSET Checks
    BY DEF TypeOK, Pending, PendingBut, Others
  <1>2. vChecks[t] \in SUBSET Checks /\ queue \in SUBSET Checks
    BY DEF TypeOK
  <1>3. Pending = PendingBut(t) \cup vChecks[t]
    BY DEF TypeOK, Pending, PendingBut, Others
  <1> QED BY <1>1, <1>2, <1>3, CheckQueueAssumption, FS_Subset

\* Counting the threads in some positions, with and without thread t.
LEMMA CountSplit ==
  ASSUME NEW p, NEW S, NEW t \in Threads
  PROVE  Cardinality(In(p, S)) =
           IF p[t] \in S THEN Cardinality(InBut(p, S, t)) + 1
                         ELSE Cardinality(InBut(p, S, t))
  <1>1. t \notin InBut(p, S, t) BY DEF InBut, Others
  <1>2. IsFiniteSet(InBut(p, S, t)) BY SubsetsFinite
  <1>3. CASE p[t] \in S
    <2>1. In(p, S) = InBut(p, S, t) \cup {t} BY <1>3 DEF In, InBut, Others
    <2> QED BY <1>1, <1>2, <1>3, <2>1, FS_AddElement
  <1>4. CASE p[t] \notin S
    <2>1. In(p, S) = InBut(p, S, t) BY <1>4 DEF In, InBut, Others
    <2> QED BY <1>4, <2>1
  <1> QED BY <1>3, <1>4

-----------------------------------------------------------------------------
\* The first part of each critical section establishes Mid.

\* Counting a thread into nTotal on its first iteration (checkqueue.h:88).
LEMMA EnterMid ==
  ASSUME IInv, NEW t \in Threads, pc[t] = "enter"
  PROVE  Mid(t, pc, nTotal + 1, nIdle, nTodo, fAllOk)
  <1> USE DEF IInv
  <1>1. vChecks[t] = {} BY DEF PositionInv
  <1>2. Pending = PendingBut(t) BY <1>1, PendingFinite
  <1>3. MidCounts(t, pc, nTotal + 1, nIdle, nTodo)
    <2>1. nTotal = Cardinality(InBut(pc, Counted, t)) /\ nIdle = Cardinality(InBut(pc, Idle, t))
      BY CountSplit DEF CountsInv, Counted, Idle
    <2> QED BY <1>2, <2>1 DEF MidCounts, TodoCounts, Others
  <1>4. MidPositions(t, pc, fAllOk)
    BY <1>2 DEF MidPositions, PositionInv, TypeOK, Others, ResultCorrect
  <1>5. MidStatus(t, pc, fAllOk)
    BY <1>2 DEF MidStatus, StatusInv, TypeOK, Others
  <1> QED BY <1>3, <1>4, <1>5 DEF Mid

\* Counting a thread out of nIdle when cond.wait returns (checkqueue.h:103).
LEMMA ResumeMid ==
  ASSUME IInv, NEW t \in Threads, pc[t] = "woken"
  PROVE  Mid(t, pc, nTotal, nIdle - 1, nTodo, fAllOk)
  <1> USE DEF IInv
  <1>1. vChecks[t] = {} BY DEF PositionInv
  <1>2. Pending = PendingBut(t) BY <1>1, PendingFinite
  <1>3. MidCounts(t, pc, nTotal, nIdle - 1, nTodo)
    <2>1. /\ nTotal = Cardinality(InBut(pc, Counted, t)) + 1
          /\ nIdle = Cardinality(InBut(pc, Idle, t)) + 1
      BY CountSplit DEF CountsInv, Counted, Idle
    <2>2. Cardinality(InBut(pc, Idle, t)) \in Nat
      BY SubsetsFinite, FS_CardinalityType
    <2> QED BY <1>2, <2>1, <2>2 DEF MidCounts, TodoCounts, Others
  <1>4. MidPositions(t, pc, fAllOk)
    BY <1>2 DEF MidPositions, PositionInv, TypeOK, Others, ResultCorrect
  <1>5. MidStatus(t, pc, fAllOk)
    BY <1>2 DEF MidStatus, StatusInv, TypeOK, Others
  <1> QED BY <1>3, <1>4, <1>5 DEF Mid

\* Merging a batch: its result goes to fAllOk and its size off nTodo (checkqueue.h:81-85).
LEMMA CleanUpMid ==
  ASSUME IInv, NEW t \in Threads, pc[t] = "done", NEW woken,
         woken = {} \/ (woken = {Master} /\ t # Master /\ pc[Master] = "waiting")
  PROVE  Mid(t, Wake(pc, woken), nTotal, nIdle,
             nTodo - Cardinality(vChecks[t]), fAllOk /\ fOk[t])
  <1> USE DEF IInv
  <1> DEFINE p == Wake(pc, woken)
             ok == fAllOk /\ fOk[t]
  <1>1. p \in [Threads -> Positions] BY DEF Wake, TypeOK, Positions
  <1>2. \A u \in Threads : p[u] = pc[u] \/ (pc[u] = "waiting" /\ p[u] = "woken")
    BY DEF Wake
  <1>3. \A u \in Threads : /\ p[u] \in Counted <=> pc[u] \in Counted
                           /\ p[u] \in Idle <=> pc[u] \in Idle
                           /\ p[u] \in {"run", "done"} <=> pc[u] \in {"run", "done"}
                           /\ p[u] = "done" <=> pc[u] = "done"
                           /\ p[u] = "out" <=> pc[u] = "out"
                           /\ p[u] = "open" <=> pc[u] = "open"
                           /\ p[u] = "dead" <=> pc[u] = "dead"
    BY <1>2 DEF Counted, Idle
  <1>4. pc[Master] # "out"
    <2>1. vChecks[t] # {} BY DEF PositionInv
    <2>2. Pending # {} BY <2>1, PendingFinite
    <2> QED BY <2>2 DEF PositionInv
  <1>5. MidCounts(t, p, nTotal, nIdle, nTodo - Cardinality(vChecks[t]))
    <2>1. /\ nTotal = Cardinality(InBut(pc, Counted, t)) + 1
          /\ nIdle = Cardinality(InBut(pc, Idle, t))
      BY CountSplit DEF CountsInv, Counted, Idle
    <2>2. InBut(p, Counted, t) = InBut(pc, Counted, t) /\ InBut(p, Idle, t) = InBut(pc, Idle, t)
      BY <1>3 DEF InBut, Others
    <2>3. PendingBut(t) \cap vChecks[t] = {} BY DEF TodoCounts, PendingBut, Others
    <2>4. Cardinality(Pending) = Cardinality(PendingBut(t)) + Cardinality(vChecks[t])
      BY <2>3, PendingFinite, DisjointUnion
    <2>5. Cardinality(PendingBut(t)) \in Nat /\ Cardinality(vChecks[t]) \in Nat
      BY PendingFinite, FS_CardinalityType
    <2>6. nTodo - Cardinality(vChecks[t]) = Cardinality(PendingBut(t))
      BY <2>4, <2>5 DEF TodoCounts
    <2> HIDE DEF p
    <2> QED BY <2>1, <2>2, <2>6 DEF MidCounts, TodoCounts, Others
  <1>6. MidPositions(t, p, ok)
    <2> HIDE DEF p, ok
    <2> QED BY <1>1, <1>3, <1>4 DEF MidPositions, PositionInv, TypeOK, Others, Threads
  <1>7. MidStatus(t, p, ok)
    <2> HIDE DEF p
    <2>1. Pending = PendingBut(t) \cup vChecks[t] BY PendingFinite
    <2>2. ok \in BOOLEAN BY DEF TypeOK
    <2>3. PendingBut(t) \subseteq added BY <2>1 DEF StatusInv
    <2>4. ok => (added \ PendingBut(t)) \cap failing = {}
      BY <1>4, <2>1 DEF StatusInv
    <2>5. ~ok => failing # {}
      BY DEF StatusInv
    <2> QED BY <1>3, <2>2, <2>3, <2>4, <2>5 DEF MidStatus, StatusInv, Others
  <1> QED BY <1>5, <1>6, <1>7 DEF Mid

-----------------------------------------------------------------------------
\* The second part of each critical section leads from Mid to IInv.

\* What the first part of a critical section leaves is well typed.
LEMMA MidTypes ==
  ASSUME NEW t \in Threads, NEW p, NEW tot, NEW idle, NEW todo, NEW ok,
         Mid(t, p, tot, idle, todo, ok)
  PROVE  tot - 1 \in Nat /\ tot \in Nat /\ idle \in Nat /\ todo \in Nat /\ ok \in BOOLEAN
  <1>1. /\ Cardinality(InBut(p, Counted, t)) \in Nat
        /\ Cardinality(InBut(p, Idle, t)) \in Nat
        /\ Cardinality(PendingBut(t)) \in Nat
    BY SubsetsFinite, PendingFinite, FS_CardinalityType DEF Mid
  <1> QED BY <1>1 DEF Mid, MidCounts, MidStatus

\* Only the thread in the critical section changes position after Mid.
LEMMA CountsAfter ==
  ASSUME NEW t \in Threads, NEW p, NEW q, NEW S,
         \A u \in Others(t) : q[u] = p[u]
  PROVE  Cardinality(In(q, S)) = IF q[t] \in S THEN Cardinality(InBut(p, S, t)) + 1
                                               ELSE Cardinality(InBut(p, S, t))
  <1>1. InBut(q, S, t) = InBut(p, S, t) BY DEF InBut
  <1> QED BY <1>1, CountSplit

\* The master leaves Loop and resets the status (checkqueue.h:92-100).
LEMMA ReturnStep ==
  ASSUME NEW t \in Threads, NEW p, NEW tot, NEW idle, NEW todo, NEW ok,
         Mid(t, p, tot, idle, todo, ok),
         Return(t, p, tot, idle, todo, ok), UNCHANGED <<added, failing>>
  PROVE  IInv'
  <1> USE DEF Return, MayReturn
  <1>1. TypeOK' BY MidTypes DEF TypeOK, Mid, MidPositions, Positions
  <1>2. Pending' = PendingBut(t)
    BY DEF Mid, TypeOK, Pending, PendingBut, Others
  <1>3. PendingBut(t) = {}
    BY PendingFinite, FS_EmptySet DEF Mid, MidCounts
  <1>4. TodoCounts'
    BY <1>2 DEF Mid, MidCounts, TodoCounts, TypeOK, Others
  <1>5. CountsInv'
    <2>0. (\A u \in Others(t) : pc'[u] = p[u]) /\ pc'[t] = "out"
      BY DEF Mid, MidPositions, Others
    <2>a. pc'[t] \notin Counted /\ pc'[t] \notin Idle BY <2>0 DEF Counted, Idle
    <2>1. Cardinality(In(pc', Counted)) = Cardinality(InBut(p, Counted, t))
      BY ONLY <2>0, <2>a, t \in Threads, CountsAfter
    <2>b. Cardinality(In(pc', Idle)) = Cardinality(InBut(p, Idle, t))
      BY ONLY <2>0, <2>a, t \in Threads, CountsAfter
    <2>2. Cardinality(InBut(p, Counted, t)) \in Nat
      BY SubsetsFinite, FS_CardinalityType
    <2> QED BY <2>1, <2>b, <2>2, SMT DEF Mid, MidCounts, CountsInv
  <1>6. PositionInv'
    BY <1>2, <1>3 DEF Mid, MidPositions, PositionInv, TypeOK, Others, Threads
  <1>7. StatusInv'
    BY <1>2, <1>3 DEF Mid, MidPositions, MidStatus, StatusInv, TypeOK, Others
  <1>8. ResultCorrect'
    BY <1>3 DEF Mid, MidPositions, MidStatus, ResultCorrect, TypeOK
  <1> QED BY <1>1, <1>4, <1>5, <1>6, <1>7, <1>8 DEF IInv

\* A thread without work goes to sleep (checkqueue.h:101-102).
LEMMA SleepStep ==
  ASSUME NEW t \in Threads, NEW p, NEW tot, NEW idle, NEW todo, NEW ok,
         Mid(t, p, tot, idle, todo, ok),
         Sleep(t, p, tot, idle, todo, ok), UNCHANGED <<added, failing>>
  PROVE  IInv'
  <1> USE DEF Sleep, MayReturn
  <1>1. TypeOK' BY MidTypes DEF TypeOK, Mid, MidPositions, Positions
  <1>2. Pending' = PendingBut(t)
    BY DEF Mid, TypeOK, Pending, PendingBut, Others
  <1>3. TodoCounts'
    BY <1>2 DEF Mid, MidCounts, TodoCounts, TypeOK, Others
  <1>4. CountsInv'
    <2>0. (\A u \in Others(t) : pc'[u] = p[u]) /\ pc'[t] = "waiting"
      BY DEF Mid, MidPositions, Others
    <2>a. pc'[t] \in Counted /\ pc'[t] \in Idle BY <2>0 DEF Counted, Idle
    <2>1. /\ Cardinality(In(pc', Counted)) = Cardinality(InBut(p, Counted, t)) + 1
          /\ Cardinality(In(pc', Idle)) = Cardinality(InBut(p, Idle, t)) + 1
      BY <2>0, <2>a, CountsAfter
    <2> QED BY <2>1, SMT DEF Mid, MidCounts, CountsInv
  <1>5. PositionInv'
    BY <1>2 DEF Mid, MidPositions, PositionInv, TypeOK, Others, Threads
  <1>6. StatusInv'
    BY <1>2 DEF Mid, MidPositions, MidStatus, StatusInv, TypeOK, Others
  <1>7. ResultCorrect'
    BY DEF Mid, MidPositions, MidStatus, ResultCorrect, TypeOK
  <1> QED BY <1>1, <1>3, <1>4, <1>5, <1>6, <1>7 DEF IInv

\* A nonempty queue always yields a batch of the computed length: queue.back() is never called on an empty vector.
LEMMA BatchesNonempty ==
  ASSUME TypeOK, NEW tot \in Nat, NEW idle \in Nat, NEW batch \in Batches(BatchLength(tot, idle))
  PROVE  batch # {} /\ batch \subseteq queue
  <1>1. Cardinality(queue) \in Nat
    <2>1. IsFiniteSet(queue) BY CheckQueueAssumption, FS_Subset DEF TypeOK
    <2> QED BY <2>1, FS_CardinalityType
  <1> DEFINE C == Cardinality(queue)
             x == C \div (tot + idle + 1)
  <1>2. x \in Int BY <1>1
  <1>3. BatchLength(tot, idle) # 0
    <2> HIDE DEF x
    <2>1. Smaller(nBatchSize, x) \in Int BY <1>2, CheckQueueAssumption DEF Smaller
    <2>2. Larger(1, Smaller(nBatchSize, x)) # 0 BY <2>1 DEF Larger
    <2> QED BY <2>2 DEF BatchLength, x
  <1> QED BY <1>3, FS_EmptySet DEF Batches

\* A thread moves a batch from the queue to itself (checkqueue.h:110-119).
LEMMA TakeStep ==
  ASSUME NEW t \in Threads, NEW p, NEW tot, NEW idle, NEW todo, NEW ok,
         Mid(t, p, tot, idle, todo, ok),
         Take(t, p, tot, idle, todo, ok), UNCHANGED <<added, failing>>
  PROVE  IInv'
  <1>0. PICK batch \in Batches(BatchLength(tot, idle)) :
          queue' = queue \ batch /\ vChecks' = [vChecks EXCEPT ![t] = batch]
    BY DEF Take
  <1>a. batch # {} /\ batch \subseteq queue BY BatchesNonempty, MidTypes DEF Mid
  <1> USE DEF Take
  <1>1. TypeOK' BY <1>0, <1>a, MidTypes DEF TypeOK, Mid, MidPositions, Positions
  <1>2. Pending' = PendingBut(t)
    <2>1. \A u \in Others(t) : vChecks'[u] = vChecks[u] BY <1>0 DEF Mid, TypeOK, Others
    <2>2. vChecks'[t] = batch BY <1>0 DEF Mid, TypeOK
    <2>3. UNION {vChecks'[u] : u \in Threads}
            = batch \cup UNION {vChecks[u] : u \in Others(t)}
      BY <2>1, <2>2 DEF Others
    <2> QED BY <1>0, <1>a, <2>3 DEF Pending, PendingBut
  <1>3. TodoCounts'
    BY <1>0, <1>a, <1>2 DEF Mid, MidCounts, TodoCounts, TypeOK, Others
  <1>4. CountsInv'
    <2>0. (\A u \in Others(t) : pc'[u] = p[u]) /\ pc'[t] = "run"
      BY DEF Mid, MidPositions, Others
    <2>1. pc'[t] \in Counted /\ pc'[t] \notin Idle BY <2>0 DEF Counted, Idle
    <2>2. Cardinality(In(pc', Counted)) = Cardinality(InBut(p, Counted, t)) + 1
      BY ONLY <2>0, <2>1, t \in Threads, CountsAfter
    <2>3. Cardinality(In(pc', Idle)) = Cardinality(InBut(p, Idle, t))
      BY ONLY <2>0, <2>1, t \in Threads, CountsAfter
    <2> QED BY <2>2, <2>3, SMT DEF Mid, MidCounts, CountsInv
  <1>5. PositionInv'
    <2>1. PendingBut(t) # {} BY <1>a DEF PendingBut
    <2>2. pc'[Master] # "out" BY <2>1 DEF Mid, MidPositions, Threads
    <2> QED BY <1>0, <1>a, <2>2 DEF Mid, MidPositions, PositionInv, TypeOK, Others, Threads
  <1>6. StatusInv'
    BY <1>0, <1>2 DEF Mid, MidPositions, MidStatus, StatusInv, TypeOK, Others
  <1>7. ResultCorrect'
    BY DEF Mid, MidPositions, MidStatus, ResultCorrect, TypeOK
  <1> QED BY <1>1, <1>3, <1>4, <1>5, <1>6, <1>7 DEF IInv

\* Whatever way a critical section ends, it re-establishes the invariant.
LEMMA ProceedStep ==
  ASSUME NEW t \in Threads, NEW p, NEW tot, NEW idle, NEW todo, NEW ok,
         Mid(t, p, tot, idle, todo, ok), Proceed(t, p, tot, idle, todo, ok)
  PROVE  IInv'
  BY ReturnStep, SleepStep, TakeStep DEF Proceed

-----------------------------------------------------------------------------
\* The steps outside the critical sections of Loop.

\* Positions change, but not between the classes that are counted.
LEMMA SameCounts ==
  ASSUME NEW p, NEW q, NEW S, \A t \in Threads : q[t] \in S <=> p[t] \in S
  PROVE  In(q, S) = In(p, S)
  BY DEF In

\* The constructed queue satisfies the invariant.
LEMMA InitIInv == Init => IInv
  <1> SUFFICES ASSUME Init PROVE IInv OBVIOUS
  <1> USE DEF Init
  <1>1. TypeOK BY DEF TypeOK, Positions
  <1>2. Pending = {} BY DEF Pending
  <1>3. In(pc, Counted) = {} /\ In(pc, Idle) = {} BY DEF In, Counted, Idle
  <1>4. TodoCounts BY <1>2, FS_EmptySet DEF TodoCounts
  <1>5. CountsInv BY <1>3, FS_EmptySet DEF CountsInv
  <1>6. PositionInv BY <1>2 DEF PositionInv, Threads
  <1>7. StatusInv BY <1>2 DEF StatusInv
  <1>8. ResultCorrect BY DEF ResultCorrect
  <1> QED BY <1>1, <1>4, <1>5, <1>6, <1>7, <1>8 DEF IInv

\* A step that only moves one thread between positions of the same class.
LEMMA MoveStep ==
  ASSUME IInv, NEW t \in Threads, NEW x \in Positions,
         pc' = [pc EXCEPT ![t] = x],
         UNCHANGED <<queue, nTodo, nIdle, nTotal, fAllOk, vChecks, fOk, added, failing, fRet>>,
         \/ t # Master /\ pc[t] = "out" /\ x = "enter"
         \/ pc[t] = "open" /\ x = "enter"
         \/ pc[t] = "waiting" /\ x = "woken"
         \/ t # Master /\ pc[t] \in {"waiting", "woken"} /\ x = "dead"
  PROVE  IInv'
  <1> USE DEF IInv
  <1>1. TypeOK' BY DEF TypeOK
  <1>2. Pending' = Pending BY DEF Pending
  <1>3. TodoCounts' BY <1>2 DEF TodoCounts
  <1>4. CountsInv'
    <2>1. \A u \in Threads : /\ pc'[u] \in Counted <=> pc[u] \in Counted
                             /\ pc'[u] \in Idle <=> pc[u] \in Idle
      BY DEF TypeOK, Counted, Idle
    <2>2. In(pc', Counted) = In(pc, Counted) /\ In(pc', Idle) = In(pc, Idle)
      BY ONLY <2>1, SameCounts
    <2> QED BY <2>2, SMT DEF CountsInv
  <1>5. pc'[Master] = "out" <=> pc[Master] = "out" BY DEF TypeOK, Threads
  <1>6. PositionInv' BY <1>2, <1>5 DEF PositionInv, TypeOK, Threads
  <1>7. StatusInv' BY <1>2, <1>5 DEF StatusInv, TypeOK
  <1>8. ResultCorrect' BY <1>5 DEF ResultCorrect
  <1> QED BY <1>1, <1>3, <1>4, <1>6, <1>7, <1>8

\* Constructing a control object keeps the invariant.
LEMMA OpenControlStep == IInv /\ OpenControl => IInv'
  <1> SUFFICES ASSUME IInv, OpenControl PROVE IInv' OBVIOUS
  <1> USE DEF IInv, OpenControl
  <1>1. TypeOK' BY DEF TypeOK, Positions
  <1>2. Pending' = Pending /\ Pending = {} /\ fAllOk BY DEF Pending, PositionInv
  <1>3. TodoCounts' BY <1>2 DEF TodoCounts
  <1>4. CountsInv'
    <2>1. \A u \in Threads : /\ pc'[u] \in Counted <=> pc[u] \in Counted
                             /\ pc'[u] \in Idle <=> pc[u] \in Idle
      BY DEF TypeOK, Counted, Idle
    <2>2. In(pc', Counted) = In(pc, Counted) /\ In(pc', Idle) = In(pc, Idle)
      BY ONLY <2>1, SameCounts
    <2> QED BY <2>2, SMT DEF CountsInv
  <1>5. PositionInv' BY <1>2, CheckQueueAssumption DEF PositionInv, TypeOK, Threads
  <1>6. \A t \in Threads : pc[t] \notin {"run", "done"} BY <1>2 DEF PositionInv, Pending
  <1>7. StatusInv' BY <1>2, <1>6 DEF StatusInv, TypeOK, Threads
  <1>8. ResultCorrect' BY DEF ResultCorrect, TypeOK, Threads
  <1> QED BY <1>1, <1>3, <1>4, <1>5, <1>7, <1>8

\* Executing a batch outside the lock keeps the invariant.
LEMMA ExecuteStep ==
  ASSUME IInv, NEW t \in Threads, Execute(t)
  PROVE  IInv'
  <1> USE DEF IInv, Execute
  <1>1. TypeOK' BY DEF TypeOK, Positions
  <1>2. Pending' = Pending BY DEF Pending
  <1>3. TodoCounts' BY <1>2 DEF TodoCounts
  <1>4. CountsInv'
    <2>1. \A u \in Threads : /\ pc'[u] \in Counted <=> pc[u] \in Counted
                             /\ pc'[u] \in Idle <=> pc[u] \in Idle
      BY DEF TypeOK, Counted, Idle
    <2>2. In(pc', Counted) = In(pc, Counted) /\ In(pc', Idle) = In(pc, Idle)
      BY ONLY <2>1, SameCounts
    <2> QED BY <2>2, SMT DEF CountsInv
  <1>5. pc'[Master] = "out" <=> pc[Master] = "out" BY DEF TypeOK, Threads
  <1>6. PositionInv' BY <1>2, <1>5 DEF PositionInv, TypeOK, Threads
  <1>7. StatusInv' BY <1>2, <1>5 DEF StatusInv, TypeOK
  <1>8. ResultCorrect' BY <1>5 DEF ResultCorrect
  <1> QED BY <1>1, <1>3, <1>4, <1>6, <1>7, <1>8

\* Adding the checks of a transaction keeps the invariant.
LEMMA AddStep == IInv /\ Add => IInv'
  <1> SUFFICES ASSUME IInv, Add PROVE IInv' OBVIOUS
  <1> USE DEF IInv
  <1>1. PICK new \in SUBSET (Checks \ added) \ {{}} :
          /\ queue' = queue \cup new
          /\ nTodo' = nTodo + Cardinality(new)
          /\ added' = added \cup new
          /\ \E bad \in SUBSET new : failing' = failing \cup bad
          /\ \E woken \in IF Cardinality(new) = 1 THEN NotifyOne ELSE NotifyAll :
                pc' = Wake(pc, woken)
    BY DEF Add
  <1>2. PICK bad \in SUBSET new : failing' = failing \cup bad BY <1>1
  <1>3. PICK woken \in SUBSET Sleepers : pc' = Wake(pc, woken)
    BY <1>1 DEF NotifyOne, NotifyAll
  <1>4. UNCHANGED <<nIdle, nTotal, fAllOk, vChecks, fOk, fRet>> /\ pc[Master] = "open"
    BY DEF Add
  <1>5. \A u \in Threads : pc'[u] = pc[u] \/ (u # Master /\ pc[u] = "waiting" /\ pc'[u] = "woken")
    BY <1>3, <1>4 DEF Wake, Sleepers
  <1>6. pc' \in [Threads -> Positions]
    BY <1>3 DEF Wake, TypeOK, Positions
  <1>7. IsFiniteSet(new) /\ IsFiniteSet(Pending) /\ Pending \cap new = {}
    <2>1. IsFiniteSet(Checks) /\ new \in SUBSET Checks BY CheckQueueAssumption
    <2>2. Master \in Threads BY DEF Threads
    <2> QED BY <2>1, <2>2, PendingFinite, FS_Subset DEF StatusInv
  <1>8. Pending' = Pending \cup new BY <1>1, <1>4 DEF Pending
  <1>9. TypeOK'
    <2>1. Cardinality(new) \in Nat BY <1>7, FS_CardinalityType
    <2> QED BY <1>1, <1>2, <1>4, <1>6, <2>1 DEF TypeOK
  <1>10. TodoCounts'
    <2>1. nTodo' = Cardinality(Pending')
      BY <1>1, <1>7, <1>8, DisjointUnion DEF TodoCounts
    <2>2. \A t \in Threads : vChecks[t] \subseteq Pending BY DEF Pending
    <2> QED BY <1>1, <1>4, <1>7, <2>1, <2>2 DEF TodoCounts
  <1>11. CountsInv'
    <2>1. \A u \in Threads : /\ pc'[u] \in Counted <=> pc[u] \in Counted
                             /\ pc'[u] \in Idle <=> pc[u] \in Idle
      BY <1>5 DEF Counted, Idle
    <2>2. In(pc', Counted) = In(pc, Counted) /\ In(pc', Idle) = In(pc, Idle)
      BY ONLY <2>1, SameCounts
    <2> QED BY <1>4, <2>2, SMT DEF CountsInv
  <1>12. pc'[Master] = "open" BY <1>4, <1>5 DEF Threads
  <1>13. PositionInv' BY <1>4, <1>5, <1>12 DEF PositionInv, Threads
  <1>14. StatusInv'
    <2>1. /\ Pending' \subseteq added'
          /\ fAllOk' => (added' \ Pending') \cap failing' = {}
          /\ ~fAllOk' => failing' # {}
      BY <1>1, <1>2, <1>4, <1>8 DEF StatusInv, TypeOK
    <2>2. \A t \in Threads : pc'[t] = "done" /\ fOk'[t] => vChecks'[t] \cap failing' = {}
      <3>1. \A t \in Threads : vChecks[t] \cap new = {} BY <1>7 DEF Pending
      <3> QED BY <1>2, <1>4, <1>5, <3>1 DEF StatusInv
    <2>3. \A t \in Threads : pc'[t] \in {"run", "done"} /\ ~fOk'[t] => failing' # {}
      BY <1>2, <1>4, <1>5 DEF StatusInv
    <2> QED BY <2>1, <2>2, <2>3 DEF StatusInv
  <1>15. ResultCorrect' BY <1>12 DEF ResultCorrect
  <1> QED BY <1>9, <1>10, <1>11, <1>13, <1>14, <1>15

-----------------------------------------------------------------------------
\* IInv is inductive.
THEOREM Inductive == IInv /\ [Next]_vars => IInv'
  <1> SUFFICES ASSUME IInv, [Next]_vars PROVE IInv' OBVIOUS
  <1>1. CASE OpenControl BY <1>1, OpenControlStep
  <1>2. CASE Add BY <1>2, AddStep
  <1>3. CASE CallWait
    BY <1>3, MoveStep DEF CallWait, Threads, Positions
  <1>4. ASSUME NEW w \in Workers, StartWorker(w) PROVE IInv'
    BY <1>4, MoveStep, CheckQueueAssumption DEF StartWorker, Threads, Positions
  <1>5. ASSUME NEW w \in Workers, Interrupt(w) PROVE IInv'
    BY <1>5, MoveStep, CheckQueueAssumption DEF Interrupt, Threads, Positions
  <1>6. ASSUME NEW t \in Threads, Enter(t) PROVE IInv'
    BY <1>6, EnterMid, ProceedStep DEF Enter
  <1>7. ASSUME NEW t \in Threads, Resume(t) PROVE IInv'
    BY <1>7, ResumeMid, ProceedStep DEF Resume
  <1>8. ASSUME NEW t \in Threads, CleanUp(t) PROVE IInv'
    BY <1>8, CleanUpMid, ProceedStep DEF CleanUp
  <1>9. ASSUME NEW t \in Threads, Execute(t) PROVE IInv'
    BY <1>9, ExecuteStep
  <1>10. ASSUME NEW t \in Threads, SpuriousWakeup(t) PROVE IInv'
    BY <1>10, MoveStep DEF SpuriousWakeup, Positions
  <1>11. CASE UNCHANGED vars
    BY <1>11 DEF vars, IInv, TypeOK, TodoCounts, CountsInv, PositionInv, StatusInv,
                 ResultCorrect, Pending, In
  <1> QED BY <1>1, <1>2, <1>3, <1>4, <1>5, <1>6, <1>7, <1>8, <1>9, <1>10, <1>11
        DEF Next, LoopStep

\* The inductive invariant holds in every reachable state.
THEOREM Invariance == Spec => []IInv
  BY InitIInv, Inductive, PTL DEF Spec

\* The variables of the queue keep their types.
THEOREM TypeCorrect == Spec => []TypeOK
  <1>1. IInv => TypeOK BY DEF IInv
  <1> QED BY <1>1, Invariance, PTL

\* nTodo always counts the checks not yet accounted for, each held once.
THEOREM TodoCountsHolds == Spec => []TodoCounts
  <1>1. IInv => TodoCounts BY DEF IInv
  <1> QED BY <1>1, Invariance, PTL

\* Wait returns true exactly when no check of the block fails.
THEOREM ResultIsCorrect == Spec => []ResultCorrect
  <1>1. IInv => ResultCorrect BY DEF IInv
  <1> QED BY <1>1, Invariance, PTL

\* When Wait has returned, no check of the block is queued or held.
THEOREM NoStragglersHolds == Spec => []NoStragglers
  <1>1. IInv => NoStragglers
    BY DEF IInv, NoStragglers, PositionInv, Pending
  <1> QED BY <1>1, Invariance, PTL

\* The assertion of the control object's constructor never fails.
THEOREM ControlFindsIdleHolds == Spec => []ControlFindsIdle
  <1>1. ASSUME IInv, pc[Master] = "out" PROVE IsIdle
    <2> USE DEF IInv
    <2>1. Pending = {} /\ fAllOk BY <1>1 DEF PositionInv
    <2>2. nTodo = 0 BY <1>1, <2>1, FS_EmptySet DEF TodoCounts
    <2>3. \A t \in Threads : vChecks[t] = {} BY <2>1 DEF Pending
    <2>4. \A t \in Threads : pc[t] \in Counted <=> pc[t] \in Idle
      BY <1>1, <2>3 DEF PositionInv, Counted, Idle
    <2>5. In(pc, Counted) = In(pc, Idle) BY <2>4 DEF In
    <2> QED BY <1>1, <2>1, <2>2, <2>5 DEF CountsInv, IsIdle
  <1>2. IInv => ControlFindsIdle BY <1>1 DEF ControlFindsIdle
  <1> QED BY <1>2, Invariance, PTL
=============================================================================
