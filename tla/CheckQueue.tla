----------------------------- MODULE CheckQueue -----------------------------
(***************************************************************************)
(* The script-check queue (checkqueue.h): a master that adds checks while  *)
(* connecting a block and then joins its workers until every check of the  *)
(* block has been accounted for.  An action is one critical section of the *)
(* mutex, or the execution of a batch outside it.  The vector `queue' is a *)
(* set of checks: "the order of booleans doesn't matter" (checkqueue.h:43),*)
(* so a thread takes any nNow of them.                                     *)
(***************************************************************************)
EXTENDS Integers, FiniteSets

CONSTANTS
    Workers,     \* the threads started by ThreadScriptCheck
    Master,      \* the thread that connects a block
    Checks,      \* the checks one block can need
    nBatchSize   \* the largest batch a thread takes

ASSUME CheckQueueAssumption ==
    /\ IsFiniteSet(Workers)
    /\ IsFiniteSet(Checks)
    /\ Master \notin Workers
    /\ nBatchSize \in Nat \ {0}

VARIABLES
    queue, nTodo, nIdle, nTotal, fAllOk,   \* guarded by the mutex
    pc,        \* where each thread is
    vChecks,   \* the batch each thread holds; nNow is its size
    fOk,       \* the local result of each thread
    added,     \* the checks the current control object has added
    failing,   \* those of them that evaluate to false
    fRet       \* what the last Wait returned

vars == <<queue, nTodo, nIdle, nTotal, fAllOk, pc, vChecks, fOk, added, failing, fRet>>

Threads == Workers \cup {Master}

\* Which of the positions below a thread is in.
\*   out      not in Loop: a worker not yet started, a master without a control
\*   open     (master) holds a CCheckQueueControl and may Add
\*   enter    is about to take the lock for the first time
\*   waiting  blocked in cond.wait        woken  notified, needs the lock again
\*   run      executes its batch          done   needs the lock for the clean-up
\*   dead     (worker) left by an interruption
Positions == {"out", "open", "enter", "waiting", "woken", "run", "done", "dead"}

Smaller(a, b) == IF a < b THEN a ELSE b
Larger(a, b)  == IF a > b THEN a ELSE b

\* max(1, min(nBatchSize, queue.size() / (nTotal + nIdle + 1))).
BatchLength(tot, idle) ==
    Larger(1, Smaller(nBatchSize, Cardinality(queue) \div (tot + idle + 1)))

Batches(n) == {b \in SUBSET queue : Cardinality(b) = n}

TypeOK ==
    /\ queue \in SUBSET Checks
    /\ nTodo \in Nat /\ nIdle \in Nat /\ nTotal \in Nat
    /\ fAllOk \in BOOLEAN
    /\ pc \in [Threads -> Positions]
    /\ vChecks \in [Threads -> SUBSET Checks]
    /\ fOk \in [Threads -> BOOLEAN]
    /\ added \in SUBSET Checks
    /\ failing \in SUBSET added
    /\ fRet \in BOOLEAN

Init ==
    /\ queue = {} /\ nTodo = 0 /\ nIdle = 0 /\ nTotal = 0 /\ fAllOk = TRUE
    /\ pc = [t \in Threads |-> "out"]
    /\ vChecks = [t \in Threads |-> {}]
    /\ fOk = [t \in Threads |-> TRUE]
    /\ added = {} /\ failing = {} /\ fRet = TRUE

IsIdle == nTotal = nIdle /\ nTodo = 0 /\ fAllOk

-----------------------------------------------------------------------------
\* The control object.

\* A CCheckQueueControl is constructed; that IsIdle holds is asserted there.
OpenControl ==
    /\ pc[Master] = "out"
    /\ pc' = [pc EXCEPT ![Master] = "open"]
    /\ added' = {} /\ failing' = {}
    /\ UNCHANGED <<queue, nTodo, nIdle, nTotal, fAllOk, vChecks, fOk, fRet>>

\* The workers woken by a notification on condWorker: none if none waits,
\* any one of them for notify_one, all of them for notify_all.
Sleepers == {w \in Workers : pc[w] = "waiting"}
NotifyOne == IF Sleepers = {} THEN {{}} ELSE {{w} : w \in Sleepers}
NotifyAll == {Sleepers}

Wake(p, woken) == [t \in Threads |-> IF t \in woken THEN "woken" ELSE p[t]]

\* Add: the checks of one transaction, some of which may fail when executed.
Add ==
    /\ pc[Master] = "open"
    /\ \E new \in SUBSET (Checks \ added) \ {{}} :
        /\ queue' = queue \cup new
        /\ nTodo' = nTodo + Cardinality(new)
        /\ added' = added \cup new
        /\ \E bad \in SUBSET new : failing' = failing \cup bad
        /\ \E woken \in IF Cardinality(new) = 1 THEN NotifyOne ELSE NotifyAll :
              pc' = Wake(pc, woken)
    /\ UNCHANGED <<nIdle, nTotal, fAllOk, vChecks, fOk, fRet>>

\* Wait, or the destructor of a control that was not waited for.
CallWait ==
    /\ pc[Master] = "open"
    /\ pc' = [pc EXCEPT ![Master] = "enter"]
    /\ UNCHANGED <<queue, nTodo, nIdle, nTotal, fAllOk, vChecks, fOk, added, failing, fRet>>

\* A worker thread starts.
StartWorker(w) ==
    /\ pc[w] = "out"
    /\ pc' = [pc EXCEPT ![w] = "enter"]
    /\ UNCHANGED <<queue, nTodo, nIdle, nTotal, fAllOk, vChecks, fOk, added, failing, fRet>>

-----------------------------------------------------------------------------
\* Loop.  The rest of a critical section once its first part has changed the
\* counters to tot, idle, todo, the status to ok and the positions to p.

\* A wrong test that lets the master leave when the queue is merely empty.
MayReturnEarly(t, todo) == t = Master

MayReturn(t, todo) == t = Master /\ todo = 0

\* A wrong return that leaves the status of the finished block in place.
ReturnWithoutReset(t, p, tot, idle, todo, ok) ==
    /\ queue = {} /\ MayReturn(t, todo)
    /\ nTotal' = tot - 1 /\ nIdle' = idle /\ nTodo' = todo
    /\ fRet' = ok
    /\ fAllOk' = ok
    /\ pc' = [p EXCEPT ![t] = "out"]
    /\ vChecks' = [vChecks EXCEPT ![t] = {}]
    /\ UNCHANGED <<queue, fOk>>

Return(t, p, tot, idle, todo, ok) ==
    /\ queue = {} /\ MayReturn(t, todo)
    /\ nTotal' = tot - 1 /\ nIdle' = idle /\ nTodo' = todo
    /\ fRet' = ok
    /\ fAllOk' = TRUE
    /\ pc' = [p EXCEPT ![t] = "out"]
    /\ vChecks' = [vChecks EXCEPT ![t] = {}]
    /\ UNCHANGED <<queue, fOk>>

\* A wrong wait that does not count the sleeping thread as idle.
SleepUncounted(t, p, tot, idle, todo, ok) ==
    /\ queue = {} /\ ~MayReturn(t, todo)
    /\ nTotal' = tot /\ nIdle' = idle /\ nTodo' = todo
    /\ fAllOk' = ok
    /\ pc' = [p EXCEPT ![t] = "waiting"]
    /\ vChecks' = [vChecks EXCEPT ![t] = {}]
    /\ UNCHANGED <<queue, fOk, fRet>>

Sleep(t, p, tot, idle, todo, ok) ==
    /\ queue = {} /\ ~MayReturn(t, todo)
    /\ nTotal' = tot /\ nIdle' = idle + 1 /\ nTodo' = todo
    /\ fAllOk' = ok
    /\ pc' = [p EXCEPT ![t] = "waiting"]
    /\ vChecks' = [vChecks EXCEPT ![t] = {}]
    /\ UNCHANGED <<queue, fOk, fRet>>

\* A wrong take that copies the batch instead of swapping it out.
TakeCopies(t, p, tot, idle, todo, ok) ==
    /\ queue # {}
    /\ nTotal' = tot /\ nIdle' = idle /\ nTodo' = todo
    /\ fAllOk' = ok
    /\ \E batch \in Batches(BatchLength(tot, idle)) :
        vChecks' = [vChecks EXCEPT ![t] = batch]
    /\ fOk' = [fOk EXCEPT ![t] = ok]
    /\ pc' = [p EXCEPT ![t] = "run"]
    /\ UNCHANGED <<queue, fRet>>

Take(t, p, tot, idle, todo, ok) ==
    /\ queue # {}
    /\ nTotal' = tot /\ nIdle' = idle /\ nTodo' = todo
    /\ fAllOk' = ok
    /\ \E batch \in Batches(BatchLength(tot, idle)) :
        /\ queue' = queue \ batch
        /\ vChecks' = [vChecks EXCEPT ![t] = batch]
    /\ fOk' = [fOk EXCEPT ![t] = ok]
    /\ pc' = [p EXCEPT ![t] = "run"]
    /\ UNCHANGED fRet

Proceed(t, p, tot, idle, todo, ok) ==
    /\ \/ Return(t, p, tot, idle, todo, ok)
       \/ Sleep(t, p, tot, idle, todo, ok)
       \/ Take(t, p, tot, idle, todo, ok)
    /\ UNCHANGED <<added, failing>>

\* The first critical section of a Loop.
Enter(t) ==
    /\ pc[t] = "enter"
    /\ Proceed(t, pc, nTotal + 1, nIdle, nTodo, fAllOk)

\* cond.wait has returned.
Resume(t) ==
    /\ pc[t] = "woken"
    /\ Proceed(t, pc, nTotal, nIdle - 1, nTodo, fAllOk)

\* A wrong clean-up that never notifies condMaster.
CleanUpSilently(t) ==
    /\ pc[t] = "done"
    /\ Proceed(t, pc, nTotal, nIdle, nTodo - Cardinality(vChecks[t]), fAllOk /\ fOk[t])

\* A wrong clean-up that forgets to merge the local result.
CleanUpUnmerged(t) ==
    /\ pc[t] = "done"
    /\ Proceed(t, pc, nTotal, nIdle, nTodo - Cardinality(vChecks[t]), fAllOk)

\* The clean-up of a finished batch; the last one tells the master.
CleanUp(t) ==
    LET todo  == nTodo - Cardinality(vChecks[t])
        woken == IF todo = 0 /\ t # Master /\ pc[Master] = "waiting"
                 THEN {Master} ELSE {}
    IN  /\ pc[t] = "done"
        /\ Proceed(t, Wake(pc, woken), nTotal, nIdle, todo, fAllOk /\ fOk[t])

\* The checks of a batch are executed until one fails, none if one had failed.
Execute(t) ==
    /\ pc[t] = "run"
    /\ fOk' = [fOk EXCEPT ![t] = fOk[t] /\ vChecks[t] \cap failing = {}]
    /\ pc' = [pc EXCEPT ![t] = "done"]
    /\ UNCHANGED <<queue, nTodo, nIdle, nTotal, fAllOk, vChecks, added, failing, fRet>>

\* A wait on a condition variable may end without a notification.
SpuriousWakeup(t) ==
    /\ pc[t] = "waiting"
    /\ pc' = [pc EXCEPT ![t] = "woken"]
    /\ UNCHANGED <<queue, nTodo, nIdle, nTotal, fAllOk, vChecks, fOk, added, failing, fRet>>

\* threadGroup.interrupt_all(): the wait throws and the worker unwinds,
\* leaving nIdle and nTotal as they were.  (ThreadImport is in the same group; its
\* interruption while it waits as the master is not modelled.)
Interrupt(w) ==
    /\ pc[w] \in {"waiting", "woken"}
    /\ pc' = [pc EXCEPT ![w] = "dead"]
    /\ UNCHANGED <<queue, nTodo, nIdle, nTotal, fAllOk, vChecks, fOk, added, failing, fRet>>

LoopStep(t) == Enter(t) \/ Resume(t) \/ CleanUp(t) \/ Execute(t)

Next ==
    \/ OpenControl \/ Add \/ CallWait
    \/ \E w \in Workers : StartWorker(w) \/ Interrupt(w)
    \/ \E t \in Threads : LoopStep(t) \/ SpuriousWakeup(t)

\* A thread that can take the mutex eventually does, and a control object is
\* eventually waited for or destroyed.
Fairness ==
    /\ WF_vars(CallWait)
    /\ \A t \in Threads : WF_vars(LoopStep(t))

Spec == Init /\ [][Next]_vars /\ Fairness
-----------------------------------------------------------------------------
\* Properties.

\* The checks that have been added and not yet accounted for in nTodo.
Pending == queue \cup UNION {vChecks[t] : t \in Threads}

\* nTodo counts exactly the checks that are queued or in some thread's batch,
\* and no check is in two places: none is lost or executed twice.
TodoCounts ==
    /\ nTodo = Cardinality(Pending)
    /\ \A t \in Threads : vChecks[t] \cap queue = {}
    /\ \A t, u \in Threads : t # u => vChecks[t] \cap vChecks[u] = {}

\* The assertion of CCheckQueueControl's constructor: a master that has no
\* control object always finds the queue idle.
ControlFindsIdle == pc[Master] = "out" => IsIdle

\* Wait returned true exactly when every check added for the block succeeds.
ResultCorrect == pc[Master] = "out" => (fRet <=> failing = {})

\* Once Wait has returned no thread holds or will execute a check of that
\* block, so the transactions the checks point into may be freed.
NoStragglers ==
    pc[Master] = "out" =>
        /\ queue = {}
        /\ \A t \in Threads : pc[t] \notin {"run", "done"} /\ vChecks[t] = {}

\* A master that has opened a control object eventually gets its result: no
\* wake-up is lost, even when workers are interrupted or never start.
MasterReturns == pc[Master] = "open" ~> pc[Master] = "out"
=============================================================================
