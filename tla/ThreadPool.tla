----------------------------- MODULE ThreadPool -----------------------------
(***************************************************************************)
(* threadUtil/threadPool.cpp and threadUtil/worker.cpp.                    *)
(*                                                                         *)
(* Three kinds of thread:                                                  *)
(*   - the caller (mPc), who calls dispatchTask, startDispatch,            *)
(*     waitForCompletion and terminate;                                    *)
(*   - the query thread (qPc), which runs threadPool::queryThreads: it     *)
(*     feeds the workers from sQ and collects what they produce in resQ;   *)
(*   - the worker threads (wPc), which run worker::threadFunc.             *)
(*                                                                         *)
(* The mutex stMtx protects sQ, resQ and totalIn.  It is held across       *)
(* several steps only while a worker is being fed (qPc in {"spawn",        *)
(* "push"}); every other critical section is one action, and so is every   *)
(* critical section of a worker's runMtx.                                  *)
(***************************************************************************)
EXTENDS Naturals, Sequences, SequencesExt, Places

CONSTANTS
  MaxThreads,   \* threads in the pool (the maxThreads of threadPool.h)
  MaxTasks,     \* bound: tasks the caller dispatches in all
  MaxBatches,   \* bound: calls of waitForCompletion
  NullFunc      \* tasks whose type is in functionTable with a null function
                \* (dispatchTask dereferences end() for a type that is not)

ASSUME PoolAssumption ==
  /\ MaxThreads \in Nat \ {0}
  /\ MaxTasks \in Nat
  /\ MaxBatches \in Nat
  /\ NullFunc \subseteq Nat

VARIABLES
  \* the caller, and the members of threadPool
  mPc,          \* where the caller is
  mIdx,         \* terminate(): the worker being terminated
  currentId,    \* the next task identifier
  totalIn,      \* tasks dispatched (never reset by the code)
  sQ,           \* tasks not yet given to a worker
  resQ,         \* results not yet reported
  workersAlive, \* FALSE once terminate() has been called
  failedIds,    \* what the last waitForCompletion reported
  endWake,      \* endCond was notified while the caller waits on it
  \* the query thread
  qPc, qIdx,    \* where it is, and the worker it is looking at
  qHand,        \* the result taken from a worker and not yet in resQ
  \* the workers
  wPc,          \* where each worker thread is; "none": not yet started
  taskQ,        \* the tasks waiting in each worker
  resultsQ,     \* the results waiting in each worker
  finish,       \* set by worker::terminate
  wHand,        \* the task a worker runs
  tSz,          \* taskQ.size() after the last pop
  wWake,        \* condVar was notified while the worker waits on it
  \* history
  base,         \* the first identifier of the current batch
  batches,      \* waits that have returned
  outcome       \* return code of each task that has run (or was rejected)

callerVars == <<mPc, mIdx, currentId, totalIn, failedIds, base, batches>>
poolVars   == <<sQ, resQ, workersAlive, endWake>>
queryVars  == <<qPc, qIdx, qHand>>
workerVars == <<wPc, taskQ, resultsQ, finish, wHand, tSz, wWake>>
vars == <<callerVars, poolVars, queryVars, workerVars, outcome>>

Worker == 1 .. MaxThreads
TaskId == 0 .. MaxTasks - 1
maxInQ == 1
RC     == {0, 1}     \* 0 is success; every other code means "failed"
NotRun == 2
Result == [id : TaskId, rc : RC]

\* The mutex stMtx is not held by the query thread.
StFree == qPc \notin {"spawn", "push"}

\* The while condition of waitForCompletion.
Outstanding_OffByOne == totalIn > Len(resQ) + 1     \* a mutation
Outstanding == totalIn > Len(resQ)

\* What waitForCompletion reports of the results in resQ.
FailedIds == {r.id : r \in {s \in ToSet(resQ) : s.rc # 0}}

\* Delivering into resQ makes it this long; is the caller to be woken?
IsLast_First(n) == n = 1                             \* a mutation
IsLast(n) == n = totalIn

\* worker::ready.
Ready_Late(w) == Len(taskQ[w]) <= maxInQ              \* a mutation
Ready(w) == Len(taskQ[w]) < maxInQ

\* The while condition of queryThreads.
KeepQuerying == workersAlive

TypeOK ==
  /\ mPc \in {"dispatching", "started", "waiting", "blocked", "done",
              "joinQuery", "stopWorker", "notifyWorker", "joinWorker"}
  /\ mIdx \in 1 .. MaxThreads + 1
  /\ currentId \in 0 .. MaxTasks
  /\ totalIn \in 0 .. MaxTasks
  /\ sQ \in Seq(TaskId)
  /\ resQ \in Seq(Result)
  /\ workersAlive \in BOOLEAN
  /\ failedIds \subseteq TaskId
  /\ endWake \in BOOLEAN
  /\ qPc \in {"off", "check", "feed", "spawn", "push", "collect", "deliver", "exited"}
  /\ qIdx \in 1 .. MaxThreads + 1
  /\ qHand \in Seq(Result)
  /\ wPc \in [Worker -> {"none", "check", "lock", "waiting", "run", "exited"}]
  /\ taskQ \in [Worker -> Seq(TaskId)]
  /\ \A w \in Worker : Len(taskQ[w]) <= maxInQ
  /\ resultsQ \in [Worker -> Seq(Result)]
  /\ finish \in [Worker -> BOOLEAN]
  /\ wHand \in [Worker -> Seq(TaskId)]
  /\ tSz \in [Worker -> Nat]
  /\ wWake \in [Worker -> BOOLEAN]
  /\ base \in 0 .. MaxTasks
  /\ batches \in 0 .. MaxBatches
  /\ outcome \in [TaskId -> RC \cup {NotRun}]

Init ==
  /\ mPc = "dispatching" /\ mIdx = 1
  /\ currentId = 0 /\ totalIn = 0
  /\ sQ = <<>> /\ resQ = <<>>
  /\ workersAlive = TRUE
  /\ failedIds = {} /\ endWake = FALSE
  /\ qPc = "off" /\ qIdx = 1 /\ qHand = <<>>
  /\ wPc = [w \in Worker |-> "none"]
  /\ taskQ = [w \in Worker |-> <<>>]
  /\ resultsQ = [w \in Worker |-> <<>>]
  /\ finish = [w \in Worker |-> FALSE]
  /\ wHand = [w \in Worker |-> <<>>]
  /\ tSz = [w \in Worker |-> 0]
  /\ wWake = [w \in Worker |-> FALSE]
  /\ base = 0 /\ batches = 0
  /\ outcome = [t \in TaskId |-> NotRun]

-----------------------------------------------------------------------------
(* The caller *)

\* dispatchTask, for a task that has a function and for one that has none.
\* It may be called before startDispatch (regTests/threadTest.cpp) or after.
DispatchTask ==
  /\ mPc \in {"dispatching", "started"}
  /\ StFree
  /\ batches < MaxBatches
  /\ currentId < MaxTasks
  /\ currentId' = currentId + 1
  /\ totalIn' = totalIn + 1
  /\ \/ /\ currentId \notin NullFunc
        /\ sQ' = Append(sQ, currentId)
        /\ UNCHANGED <<resQ, outcome>>
     \/ /\ currentId \in NullFunc
        /\ resQ' = Append(resQ, [id |-> currentId, rc |-> 1])
        /\ outcome' = [outcome EXCEPT ![currentId] = 1]
        /\ UNCHANGED sQ
  /\ UNCHANGED <<mPc, mIdx, failedIds, base, batches, workersAlive, endWake,
                 queryVars, workerVars>>

\* startDispatch: creates the workers and the query thread.
StartDispatch ==
  /\ mPc = "dispatching"
  /\ mPc' = "started"
  /\ qPc' = "check"
  /\ UNCHANGED <<mIdx, currentId, totalIn, failedIds, base, batches, poolVars,
                 qIdx, qHand, workerVars, outcome>>

WaitForCompletion ==
  /\ mPc = "started"
  /\ batches < MaxBatches
  /\ mPc' = "waiting"
  /\ UNCHANGED <<mIdx, currentId, totalIn, failedIds, base, batches, poolVars,
                 queryVars, workerVars, outcome>>

\* The while condition of waitForCompletion fails: wait on endCond.
WaitBlock ==
  /\ mPc = "waiting" /\ StFree
  /\ Outstanding
  /\ mPc' = "blocked"
  /\ UNCHANGED <<mIdx, currentId, totalIn, failedIds, base, batches, poolVars,
                 queryVars, workerVars, outcome>>

\* endCond.wait returns after a notification, or spuriously.
WaitNotified ==
  /\ mPc = "blocked" /\ endWake /\ StFree
  /\ mPc' = "waiting" /\ endWake' = FALSE
  /\ UNCHANGED <<mIdx, currentId, totalIn, failedIds, base, batches, sQ, resQ,
                 workersAlive, queryVars, workerVars, outcome>>

WaitSpurious ==
  /\ mPc = "blocked" /\ ~endWake /\ StFree
  /\ mPc' = "waiting"
  /\ UNCHANGED <<mIdx, currentId, totalIn, failedIds, base, batches, poolVars,
                 queryVars, workerVars, outcome>>

\* waitForCompletion drains resQ and returns.  It leaves totalIn alone.
WaitReturn ==
  /\ mPc = "waiting" /\ StFree
  /\ ~Outstanding
  /\ failedIds' = FailedIds
  /\ resQ' = <<>>
  /\ base' = currentId
  /\ batches' = batches + 1
  /\ mPc' = "started"
  /\ UNCHANGED <<mIdx, currentId, totalIn, sQ, workersAlive, endWake,
                 queryVars, workerVars, outcome>>

\* terminate: the callers make it after a wait, with nothing outstanding.
Terminate ==
  /\ mPc = "started"
  /\ base = currentId
  /\ workersAlive' = FALSE
  /\ mPc' = "joinQuery"
  /\ UNCHANGED <<mIdx, currentId, totalIn, failedIds, base, batches, sQ, resQ,
                 endWake, queryVars, workerVars, outcome>>

JoinQuery ==
  /\ mPc = "joinQuery" /\ qPc = "exited"
  /\ mPc' = "stopWorker"
  /\ UNCHANGED <<mIdx, currentId, totalIn, failedIds, base, batches, poolVars,
                 queryVars, workerVars, outcome>>

\* worker::terminate, in three steps: finish is set without the lock, ...
StopWorker ==
  /\ mPc = "stopWorker" /\ mIdx <= MaxThreads
  /\ \/ /\ wPc[mIdx] = "none"
        /\ mIdx' = mIdx + 1
        /\ UNCHANGED <<mPc, finish>>
     \/ /\ wPc[mIdx] # "none"
        /\ finish' = [finish EXCEPT ![mIdx] = TRUE]
        /\ mPc' = "notifyWorker"
        /\ UNCHANGED mIdx
  /\ UNCHANGED <<currentId, totalIn, failedIds, base, batches, poolVars,
                 queryVars, wPc, taskQ, resultsQ, wHand, tSz, wWake, outcome>>

\* ... the condition variable is notified under it, ...
NotifyWorker ==
  /\ mPc = "notifyWorker"
  /\ wWake' = [wWake EXCEPT ![mIdx] = (wPc[mIdx] = "waiting")]
  /\ mPc' = "joinWorker"
  /\ UNCHANGED <<mIdx, currentId, totalIn, failedIds, base, batches, poolVars,
                 queryVars, wPc, taskQ, resultsQ, finish, wHand, tSz, outcome>>

\* ... and the thread is joined.
JoinWorker ==
  /\ mPc = "joinWorker" /\ wPc[mIdx] = "exited"
  /\ mIdx' = mIdx + 1
  /\ mPc' = "stopWorker"
  /\ UNCHANGED <<currentId, totalIn, failedIds, base, batches, poolVars,
                 queryVars, workerVars, outcome>>

TerminateDone ==
  /\ mPc = "stopWorker" /\ mIdx = MaxThreads + 1
  /\ mPc' = "done"
  /\ UNCHANGED <<mIdx, currentId, totalIn, failedIds, base, batches, poolVars,
                 queryVars, workerVars, outcome>>

CallerStep ==
  \/ StartDispatch \/ WaitBlock \/ WaitNotified \/ WaitReturn
  \/ JoinQuery \/ StopWorker \/ NotifyWorker \/ JoinWorker \/ TerminateDone

Caller ==
  CallerStep \/ DispatchTask \/ WaitForCompletion \/ WaitSpurious \/ Terminate

-----------------------------------------------------------------------------
(* The query thread *)

QueryCheck ==
  /\ qPc = "check"
  /\ qIdx' = 1
  /\ qPc' = IF KeepQuerying THEN "feed" ELSE "exited"
  /\ UNCHANGED <<callerVars, poolVars, qHand, workerVars, outcome>>

\* Under stMtx: is the worker ready, and is there a task for it?
QueryFeed ==
  /\ qPc = "feed"
  /\ qIdx <= MaxThreads
  /\ \/ /\ Ready(qIdx) /\ sQ # <<>>
        /\ qPc' = IF wPc[qIdx] = "none" THEN "spawn" ELSE "push"
        /\ UNCHANGED qIdx
     \/ /\ ~(Ready(qIdx) /\ sQ # <<>>)
        /\ qIdx' = qIdx + 1
        /\ UNCHANGED qPc
  /\ UNCHANGED <<callerVars, poolVars, qHand, workerVars, outcome>>

\* worker::addTask creates the thread of the worker on its first task ...
QuerySpawn ==
  /\ qPc = "spawn"
  /\ wPc' = [wPc EXCEPT ![qIdx] = "check"]
  /\ qPc' = "push"
  /\ UNCHANGED <<callerVars, poolVars, qIdx, qHand, taskQ, resultsQ, finish,
                 wHand, tSz, wWake, outcome>>

\* ... pushes the task and notifies; stMtx is released after sQ.pop().
QueryPush ==
  /\ qPc = "push"
  /\ taskQ' = [taskQ EXCEPT ![qIdx] = Append(@, Head(sQ))]
  /\ sQ' = Tail(sQ)
  /\ wWake' = [wWake EXCEPT ![qIdx] = (wPc[qIdx] = "waiting")]
  /\ qPc' = "feed"
  /\ qIdx' = qIdx + 1
  /\ UNCHANGED <<callerVars, resQ, workersAlive, endWake, qHand,
                 wPc, resultsQ, finish, wHand, tSz, outcome>>

QueryFed ==
  /\ qPc = "feed" /\ qIdx = MaxThreads + 1
  /\ qPc' = "collect" /\ qIdx' = 1
  /\ UNCHANGED <<callerVars, poolVars, qHand, workerVars, outcome>>

\* worker::getResult, under the worker's runMtx.
QueryCollect ==
  /\ qPc = "collect"
  /\ qIdx <= MaxThreads
  /\ \/ /\ resultsQ[qIdx] # <<>>
        /\ qHand' = <<Head(resultsQ[qIdx])>>
        /\ resultsQ' = [resultsQ EXCEPT ![qIdx] = Tail(@)]
        /\ qPc' = "deliver"
        /\ UNCHANGED qIdx
     \/ /\ resultsQ[qIdx] = <<>>
        /\ qIdx' = qIdx + 1
        /\ UNCHANGED <<qHand, resultsQ, qPc>>
  /\ UNCHANGED <<callerVars, poolVars, wPc, taskQ, finish, wHand, tSz, wWake,
                 outcome>>

\* Under stMtx: the result enters resQ; the last one wakes the caller.
QueryDeliver ==
  /\ qPc = "deliver"
  /\ resQ' = resQ \o qHand
  /\ qHand' = <<>>
  /\ endWake' = (endWake \/ (IsLast(Len(resQ')) /\ mPc = "blocked"))
  /\ qPc' = "collect"
  /\ qIdx' = qIdx + 1
  /\ UNCHANGED <<callerVars, sQ, workersAlive, workerVars, outcome>>

QueryCollected ==
  /\ qPc = "collect" /\ qIdx = MaxThreads + 1
  /\ qPc' = "check"
  /\ UNCHANGED <<callerVars, poolVars, qIdx, qHand, workerVars, outcome>>

Query ==
  \/ QueryCheck \/ QueryFeed \/ QuerySpawn \/ QueryPush \/ QueryFed
  \/ QueryCollect \/ QueryDeliver \/ QueryCollected

-----------------------------------------------------------------------------
(* A worker thread *)

\* The while condition of threadFunc, evaluated without the lock.
WorkerCheck(w) ==
  /\ wPc[w] = "check"
  /\ wPc' = [wPc EXCEPT ![w] =
               IF tSz[w] > 0 \/ ~finish[w] THEN "lock" ELSE "exited"]
  /\ UNCHANGED <<callerVars, poolVars, queryVars, taskQ, resultsQ, finish,
                 wHand, tSz, wWake, outcome>>

\* A mutation: the task is copied but not popped.
TakeTask_NoPop(w) ==
  \/ /\ taskQ[w] # <<>>
     /\ wHand' = [wHand EXCEPT ![w] = <<Head(taskQ[w])>>]
     /\ tSz' = [tSz EXCEPT ![w] = 0]
     /\ wPc' = [wPc EXCEPT ![w] = "run"]
     /\ UNCHANGED taskQ
  \/ /\ taskQ[w] = <<>>
     /\ wPc' = [wPc EXCEPT ![w] = "check"]
     /\ UNCHANGED <<tSz, wHand, taskQ>>

\* The second half of the critical section: take the next task, if any.
TakeTask(w) ==
  \/ /\ taskQ[w] # <<>>
     /\ wHand' = [wHand EXCEPT ![w] = <<Head(taskQ[w])>>]
     /\ taskQ' = [taskQ EXCEPT ![w] = Tail(@)]
     /\ tSz' = [tSz EXCEPT ![w] = Len(taskQ[w]) - 1]
     /\ wPc' = [wPc EXCEPT ![w] = "run"]
  \/ /\ taskQ[w] = <<>>
     /\ tSz' = [tSz EXCEPT ![w] = 0]
     /\ wPc' = [wPc EXCEPT ![w] = "check"]
     /\ UNCHANGED <<wHand, taskQ>>

\* Under runMtx: wait if there is nothing to do, else take the task.
WorkerLock(w) ==
  /\ wPc[w] = "lock"
  /\ \/ /\ taskQ[w] = <<>>
        /\ wPc' = [wPc EXCEPT ![w] = "waiting"]
        /\ UNCHANGED <<taskQ, wHand, tSz>>
     \/ taskQ[w] # <<>> /\ TakeTask(w)
  /\ UNCHANGED <<callerVars, poolVars, queryVars, resultsQ, finish, wWake,
                 outcome>>

\* condVar.wait returns after a notification, or spuriously.  The code
\* tests the queue with an if: it does not wait again.
WorkerNotified(w) ==
  /\ wPc[w] = "waiting" /\ wWake[w]
  /\ wWake' = [wWake EXCEPT ![w] = FALSE]
  /\ TakeTask(w)
  /\ UNCHANGED <<callerVars, poolVars, queryVars, resultsQ, finish, outcome>>

WorkerSpurious(w) ==
  /\ wPc[w] = "waiting" /\ ~wWake[w]
  /\ TakeTask(w)
  /\ UNCHANGED <<callerVars, poolVars, queryVars, resultsQ, finish, wWake,
                 outcome>>

\* The task runs, with any return code, and its result is queued.
WorkerRun(w) ==
  /\ wPc[w] = "run"
  /\ \E rc \in RC :
       /\ resultsQ' = [resultsQ EXCEPT ![w] =
                         Append(@, [id |-> Head(wHand[w]), rc |-> rc])]
       /\ outcome' = [outcome EXCEPT ![Head(wHand[w])] = rc]
  /\ wHand' = [wHand EXCEPT ![w] = <<>>]
  /\ wPc' = [wPc EXCEPT ![w] = "check"]
  /\ UNCHANGED <<callerVars, poolVars, queryVars, taskQ, finish, tSz, wWake>>

WorkerStep(w) ==
  WorkerCheck(w) \/ WorkerLock(w) \/ WorkerNotified(w) \/ WorkerRun(w)

Next ==
  \/ Caller
  \/ Query
  \/ \E w \in Worker : WorkerStep(w) \/ WorkerSpurious(w)

Spec == Init /\ [][Next]_vars

\* Threads keep running.  A spurious wakeup is never owed, the caller owes
\* no further call, but it does owe the steps of a call it has made.  A
\* mutex is free again and again, and taken again and again by the thread
\* that wants it: strong fairness for the steps that need stMtx.
Fairness ==
  /\ WF_vars(CallerStep)
  /\ SF_vars(WaitNotified) /\ SF_vars(WaitBlock) /\ SF_vars(WaitReturn)
  /\ WF_vars(Query)
  /\ \A w \in Worker : WF_vars(WorkerStep(w))

FairSpec == Spec /\ Fairness

-----------------------------------------------------------------------------
(* Properties *)

\* The tasks dispatched since the last waitForCompletion returned.
Batch == base .. currentId - 1

\* The places where a task can be between its dispatch and the report, and
\* the tasks that are there.
SQ == <<"sQ", 0>>
RESQ == <<"resQ", 0>>
QHAND == <<"qHand", 0>>
TASKQ(w) == <<"taskQ", w>>
WHAND(w) == <<"wHand", w>>
RESULTSQ(w) == <<"resultsQ", w>>
Place == {SQ, RESQ, QHAND} \cup {TASKQ(w) : w \in Worker}
           \cup {WHAND(w) : w \in Worker} \cup {RESULTSQ(w) : w \in Worker}
Ids(s) == [i \in DOMAIN s |-> s[i].id]
HeldAt(p) ==
  CASE p[1] = "sQ" -> sQ
    [] p[1] = "resQ" -> Ids(resQ)
    [] p[1] = "qHand" -> Ids(qHand)
    [] p[1] = "taskQ" -> taskQ[p[2]]
    [] p[1] = "wHand" -> wHand[p[2]]
    [] p[1] = "resultsQ" -> Ids(resultsQ[p[2]])
Held == [p \in Place |-> HeldAt(p)]

\* A task of the batch is in exactly one place on its way from sQ through a
\* worker to resQ, and a task that was reported is nowhere: queryThreads and
\* threadFunc, copying front() and popping later, neither lose nor repeat one.
OneHolder == Apart(Held) /\ Carried(Held) = Batch

\* When terminate returns every worker thread is gone and none of them left
\* a task or a result behind.
NothingAbandoned ==
  mPc = "done" =>
    /\ qPc = "exited" /\ sQ = <<>> /\ qHand = <<>>
    /\ \A w \in Worker :
         /\ wPc[w] \in {"none", "exited"}
         /\ taskQ[w] = <<>> /\ wHand[w] = <<>> /\ resultsQ[w] = <<>>

\* waitForCompletion reports exactly the tasks of its batch that a worker ran
\* with a failure, or that had no function.
ReportExact ==
  [][batches' # batches =>
       /\ \A t \in Batch : outcome[t] # NotRun
       /\ failedIds' = {t \in Batch : outcome[t] = 1}]_vars

\* The caller and its results as dispatch.h sees them.
Phase ==
  CASE mPc \in {"dispatching", "started"} -> "open"
    [] mPc \in {"waiting", "blocked"} -> "waiting"
    [] OTHER -> "over"
FinishedIds == {r.id : r \in ToSet(resQ)}

\* The pool keeps the promise of the abstract class it derives from.
Contract == INSTANCE Dispatch WITH
  Task     <- TaskId,
  phase    <- Phase,
  issued   <- 0 .. currentId - 1,
  batch    <- Batch,
  finished <- FinishedIds,
  failed   <- FailedIds,
  reported <- failedIds
ImplementsDispatch == Contract!Spec

\* A call of waitForCompletion returns, if the functions of the tasks do.
WaitCompletes == mPc = "waiting" ~> mPc = "started"

\* worker::terminate "Terminates the execution thread" (worker.cpp): the
\* join in it returns.
WorkerJoined == mPc = "joinWorker" ~> mPc # "joinWorker"

-----------------------------------------------------------------------------
(* The inductive invariant, from which ThreadPool_proofs derives the safety  *)
(* properties.                                                               *)

\* What the caller knows at each of its steps.  totalIn counts every task
\* ever dispatched, so a wait can return only while base is still 0.
CallerAt ==
  /\ totalIn = currentId /\ base <= currentId
  /\ mPc = "dispatching" => qPc = "off"
  /\ mPc \in {"waiting", "blocked"} => batches < MaxBatches
  /\ mPc \in {"joinQuery", "stopWorker", "notifyWorker", "joinWorker", "done"} =>
       base = currentId
  /\ mPc \in {"stopWorker", "notifyWorker", "joinWorker", "done"} =>
       /\ qPc = "exited"
       /\ \A w \in Worker : w < mIdx => wPc[w] \in {"none", "exited"}
  /\ mPc \in {"dispatching", "started", "waiting", "blocked", "joinQuery"} => mIdx = 1
  /\ mPc \in {"notifyWorker", "joinWorker"} => mIdx <= MaxThreads
  /\ mPc = "done" => mIdx = MaxThreads + 1

\* While a worker is fed, stMtx keeps the task in sQ and nobody else fills
\* the worker's queue.
QueryAt ==
  /\ qPc \in {"spawn", "push", "deliver"} => qIdx <= MaxThreads
  /\ qPc \in {"spawn", "push"} => sQ # <<>> /\ taskQ[qIdx] = <<>>
  /\ qPc = "spawn" => wPc[qIdx] = "none"
  /\ Len(qHand) = (IF qPc = "deliver" THEN 1 ELSE 0)

\* A worker has a task in hand exactly while it runs it.
WorkersAt ==
  \A w \in Worker : Len(wHand[w]) = (IF wPc[w] = "run" THEN 1 ELSE 0)

\* A result carries the return code of the run of its task.
Codes(s, codes) == \A i \in DOMAIN s : codes[s[i].id] = s[i].rc
Outcomes ==
  /\ Codes(resQ, outcome)
  /\ Codes(qHand, outcome)
  /\ \A w \in Worker : Codes(resultsQ[w], outcome)

\* The queues, the hands and the control of the three kinds of thread agree
\* on where each task of the batch is.
IInv == TypeOK /\ OneHolder /\ CallerAt /\ QueryAt /\ WorkersAt /\ Outcomes
=============================================================================
