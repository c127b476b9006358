-------------------------- MODULE ThreadPool_proofs --------------------------
(***************************************************************************)
(* Proofs about ThreadPool, for any number of threads, tasks and batches.  *)
(***************************************************************************)
EXTENDS ThreadPool, QueueLemmas

-----------------------------------------------------------------------------
(* Type correctness *)

\* The second half of a worker's critical section keeps the types.
LEMMA TakeType ==
  ASSUME TypeOK, NEW w \in Worker, TakeTask(w)
  PROVE  /\ wPc' \in [Worker -> {"none", "check", "lock", "waiting", "run", "exited"}]
         /\ taskQ' \in [Worker -> Seq(TaskId)]
         /\ \A v \in Worker : Len(taskQ'[v]) <= maxInQ
         /\ wHand' \in [Worker -> Seq(TaskId)]
         /\ tSz' \in [Worker -> Nat]
<1>1. taskQ[w] \in Seq(TaskId) /\ Len(taskQ[w]) \in Nat
  BY LenProperties DEF TypeOK
<1>2. CASE taskQ[w] # <<>>
  <2>1. /\ wHand' = [wHand EXCEPT ![w] = <<Head(taskQ[w])>>]
        /\ taskQ' = [taskQ EXCEPT ![w] = Tail(taskQ[w])]
        /\ tSz' = [tSz EXCEPT ![w] = Len(taskQ[w]) - 1]
        /\ wPc' = [wPc EXCEPT ![w] = "run"]
    BY <1>2 DEF TakeTask
  <2>2. /\ Head(taskQ[w]) \in TaskId /\ Tail(taskQ[w]) \in Seq(TaskId)
        /\ Len(Tail(taskQ[w])) = Len(taskQ[w]) - 1 /\ Len(taskQ[w]) - 1 \in Nat
    BY <1>1, <1>2, HeadTailProperties, EmptySeq
  <2>3. Len(taskQ[w]) - 1 <= maxInQ
    BY <1>1 DEF TypeOK, maxInQ
  <2>4. wHand' \in [Worker -> Seq(TaskId)]
    <3>1. <<Head(taskQ[w])>> \in Seq(TaskId)
      BY <2>2
    <3>2. QED
      BY <2>1, <3>1 DEF TypeOK
  <2>5. /\ taskQ' \in [Worker -> Seq(TaskId)]
        /\ \A v \in Worker : Len(taskQ'[v]) <= maxInQ
    BY <2>1, <2>2, <2>3 DEF TypeOK
  <2>6. tSz' \in [Worker -> Nat]
    BY <2>1, <2>2 DEF TypeOK
  <2>7. wPc' \in [Worker -> {"none", "check", "lock", "waiting", "run", "exited"}]
    BY <2>1 DEF TypeOK
  <2>8. QED
    BY <2>4, <2>5, <2>6, <2>7
<1>3. CASE taskQ[w] = <<>>
  <2>1. /\ tSz' = [tSz EXCEPT ![w] = 0] /\ wPc' = [wPc EXCEPT ![w] = "check"]
        /\ wHand' = wHand /\ taskQ' = taskQ
    BY <1>3 DEF TakeTask
  <2>2. tSz' \in [Worker -> Nat]
    BY <2>1 DEF TypeOK
  <2>3. wPc' \in [Worker -> {"none", "check", "lock", "waiting", "run", "exited"}]
    BY <2>1 DEF TypeOK
  <2>4. QED
    BY <2>1, <2>2, <2>3 DEF TypeOK
<1>4. QED
  BY <1>2, <1>3

\* Every step leaves the variables in their types, given what the inductive
\* invariant says of the counters and of the queue of a worker that is fed.
LEMMA TypeStep ==
  IInv /\ [Next]_vars => TypeOK'
<1>0. SUFFICES ASSUME IInv, [Next]_vars
               PROVE  TypeOK'
  OBVIOUS
<1> TypeOK
  BY <1>0 DEF IInv
<1> USE DEF TypeOK, callerVars, poolVars, queryVars, workerVars
<1>1. CASE DispatchTask
  <2>1. currentId \in TaskId /\ currentId' \in 0 .. MaxTasks
    BY <1>1, PoolAssumption DEF DispatchTask, TaskId
  <2>2. totalIn' \in 0 .. MaxTasks
    BY <1>0, <1>1, <2>1 DEF DispatchTask, IInv, CallerAt
  <2>3. [id |-> currentId, rc |-> 1] \in Result
    BY <2>1 DEF Result, RC
  <2>4. sQ' \in Seq(TaskId) /\ resQ' \in Seq(Result)
    <3>1. /\ Append(sQ, currentId) \in Seq(TaskId)
          /\ Append(resQ, [id |-> currentId, rc |-> 1]) \in Seq(Result)
      BY <2>1, <2>3, AppendProperties
    <3>2. QED
      BY <1>1, <3>1 DEF DispatchTask
  <2>5. outcome' \in [TaskId -> RC \cup {NotRun}]
    BY <1>1 DEF DispatchTask, RC
  <2>6. QED
    BY <1>1, <2>1, <2>2, <2>4, <2>5 DEF DispatchTask
<1>2. CASE StartDispatch
  BY <1>2 DEF StartDispatch
<1>3. CASE WaitForCompletion
  BY <1>3 DEF WaitForCompletion
<1>4. CASE WaitBlock
  BY <1>4 DEF WaitBlock
<1>5. CASE WaitNotified
  BY <1>5 DEF WaitNotified
<1>6. CASE WaitSpurious
  BY <1>6 DEF WaitSpurious
<1>7. CASE WaitReturn
  <2>1. batches' \in 0 .. MaxBatches
    BY <1>0, <1>7, PoolAssumption DEF IInv, WaitReturn, CallerAt
  <2>2. failedIds' \subseteq TaskId
    <3>1. \A r \in ToSet(resQ) : r \in Result
      BY LenProperties, ElementOfSeq DEF ToSet
    <3>2. \A r \in Result : r.id \in TaskId
      BY DEF Result
    <3>3. QED
      BY <1>7, <3>1, <3>2 DEF WaitReturn, FailedIds
  <2>3. QED
    BY <1>7, <2>1, <2>2 DEF WaitReturn
<1>8. CASE Terminate
  BY <1>8 DEF Terminate
<1>9. CASE JoinQuery
  BY <1>9 DEF JoinQuery
<1>10. CASE StopWorker
  <2>1. mIdx' \in 1 .. MaxThreads + 1
    BY <1>10, PoolAssumption DEF StopWorker
  <2>2. finish' \in [Worker -> BOOLEAN]
    BY <1>10 DEF StopWorker
  <2>3. QED
    BY <1>10, <2>1, <2>2 DEF StopWorker
<1>11. CASE NotifyWorker
  BY <1>11 DEF NotifyWorker
<1>12. CASE JoinWorker
  <2>1. mIdx' \in 1 .. MaxThreads + 1
    BY <1>0, <1>12, PoolAssumption DEF JoinWorker, IInv, CallerAt
  <2>2. QED
    BY <1>12, <2>1 DEF JoinWorker
<1>13. CASE TerminateDone
  BY <1>13 DEF TerminateDone
<1>14. CASE QueryCheck
  BY <1>14, PoolAssumption DEF QueryCheck
<1>15. CASE QueryFeed
  <2>1. qIdx' \in 1 .. MaxThreads + 1
    BY <1>15, PoolAssumption DEF QueryFeed
  <2>2. QED
    BY <1>15, <2>1 DEF QueryFeed
<1>16. CASE QuerySpawn
  BY <1>16 DEF QuerySpawn
<1>17. CASE QueryPush
  <2>1. qIdx \in Worker /\ sQ # <<>> /\ taskQ[qIdx] = <<>>
    BY <1>0, <1>17, PoolAssumption DEF QueryPush, IInv, QueryAt, Worker
  <2>2. Head(sQ) \in TaskId /\ Tail(sQ) \in Seq(TaskId)
    BY <2>1, HeadTailProperties
  <2>3. taskQ' = [taskQ EXCEPT ![qIdx] = Append(taskQ[qIdx], Head(sQ))]
    BY <1>17 DEF QueryPush
  <2>4. Append(taskQ[qIdx], Head(sQ)) = <<Head(sQ)>>
    BY ONLY <2>1, Append(<<>>, Head(sQ)) = <<Head(sQ)>>
  <2>5. taskQ' \in [Worker -> Seq(TaskId)] /\ \A w \in Worker : Len(taskQ'[w]) <= maxInQ
    <3>1. <<Head(sQ)>> \in Seq(TaskId) /\ Len(<<Head(sQ)>>) = 1
      BY <2>2
    <3>2. PICK q \in Seq(TaskId) : q = <<Head(sQ)>> /\ Len(q) = 1
      BY <3>1
    <3>3. taskQ' = [taskQ EXCEPT ![qIdx] = q]
      BY <2>3, <2>4, <3>2
    <3>4. taskQ' \in [Worker -> Seq(TaskId)]
      BY <3>3
    <3>5. \A w \in Worker : taskQ'[w] = taskQ[w] \/ taskQ'[w] = q
      BY <3>3
    <3>6. \A w \in Worker : Len(taskQ[w]) <= maxInQ
      OBVIOUS
    <3>7. Len(q) <= maxInQ
      BY <3>2 DEF maxInQ
    <3>8. \A w \in Worker : Len(taskQ'[w]) <= maxInQ
      BY ONLY <3>5, <3>6, <3>7
    <3>9. QED
      BY <3>4, <3>8
  <2>6. qIdx' \in 1 .. MaxThreads + 1
    BY <1>17, <2>1, PoolAssumption DEF QueryPush, Worker
  <2>7. wWake' \in [Worker -> BOOLEAN]
    BY <1>17 DEF QueryPush
  <2>8. QED
    BY <1>17, <2>2, <2>5, <2>6, <2>7 DEF QueryPush
<1>18. CASE QueryFed
  BY <1>18, PoolAssumption DEF QueryFed
<1>19. CASE QueryCollect
  <2>1. qIdx \in Worker /\ qIdx' \in 1 .. MaxThreads + 1
    <3>1. qIdx \in Worker
      BY <1>19, PoolAssumption DEF QueryCollect, Worker
    <3>2. qIdx' = qIdx \/ qIdx' = qIdx + 1
      BY ONLY <1>19 DEF QueryCollect
    <3>3. QED
      BY ONLY <3>1, <3>2, PoolAssumption DEF Worker
  <2>2. resultsQ[qIdx] \in Seq(Result)
    BY <2>1
  <2>3. qHand' \in Seq(Result) /\ resultsQ' \in [Worker -> Seq(Result)]
    <3>1. CASE resultsQ[qIdx] # <<>>
      <4>1. Head(resultsQ[qIdx]) \in Result /\ Tail(resultsQ[qIdx]) \in Seq(Result)
        BY <2>2, <3>1, HeadTailProperties
      <4>2. <<Head(resultsQ[qIdx])>> \in Seq(Result)
        BY <4>1
      <4>3. QED
        BY <1>19, <3>1, <4>1, <4>2 DEF QueryCollect
    <3>2. CASE resultsQ[qIdx] = <<>>
      BY <1>19, <3>2 DEF QueryCollect
    <3>3. QED
      BY <3>1, <3>2
  <2>4. QED
    BY <1>19, <2>1, <2>3 DEF QueryCollect
<1>20. CASE QueryDeliver
  <2>1. resQ' \in Seq(Result)
    BY <1>20, ConcatProperties DEF QueryDeliver
  <2>2. qIdx' \in 1 .. MaxThreads + 1
    BY <1>0, <1>20, PoolAssumption DEF QueryDeliver, IInv, QueryAt
  <2>3. endWake' \in BOOLEAN
    BY <1>20 DEF QueryDeliver
  <2>4. QED
    BY <1>20, <2>1, <2>2, <2>3 DEF QueryDeliver
<1>21. CASE QueryCollected
  BY <1>21 DEF QueryCollected
<1>22. ASSUME NEW w \in Worker, WorkerCheck(w)
       PROVE  TypeOK'
  <2>1. wPc' \in [Worker -> {"none", "check", "lock", "waiting", "run", "exited"}]
    BY <1>22 DEF WorkerCheck
  <2>2. QED
    BY <1>22, <2>1 DEF WorkerCheck
<1>23. ASSUME NEW w \in Worker, WorkerLock(w)
       PROVE  TypeOK'
  <2>1. CASE TakeTask(w)
    BY <1>23, <2>1, TakeType DEF WorkerLock
  <2>2. CASE wPc' = [wPc EXCEPT ![w] = "waiting"] /\ UNCHANGED <<taskQ, wHand, tSz>>
    BY <1>23, <2>2 DEF WorkerLock
  <2>3. QED
    BY <1>23, <2>1, <2>2 DEF WorkerLock
<1>24. ASSUME NEW w \in Worker, WorkerNotified(w)
       PROVE  TypeOK'
  <2>1. wWake' \in [Worker -> BOOLEAN]
    BY <1>24 DEF WorkerNotified
  <2>2. QED
    BY <1>24, <2>1, TakeType DEF WorkerNotified
<1>25. ASSUME NEW w \in Worker, WorkerSpurious(w)
       PROVE  TypeOK'
  BY ZenonT(40), <1>25, TakeType DEF WorkerSpurious
<1>26. ASSUME NEW w \in Worker, WorkerRun(w)
       PROVE  TypeOK'
  <2>1. wHand[w] \in Seq(TaskId) /\ Len(wHand[w]) = 1
    BY <1>0, <1>26 DEF WorkerRun, IInv, WorkersAt
  <2>2. Head(wHand[w]) \in TaskId
    BY <2>1, OneElement
  <2>3. PICK rc \in RC :
          /\ resultsQ' = [resultsQ EXCEPT ![w] =
                            Append(resultsQ[w], [id |-> Head(wHand[w]), rc |-> rc])]
          /\ outcome' = [outcome EXCEPT ![Head(wHand[w])] = rc]
    BY <1>26 DEF WorkerRun
  <2>4. [id |-> Head(wHand[w]), rc |-> rc] \in Result
    BY <2>2 DEF Result
  <2>5. Append(resultsQ[w], [id |-> Head(wHand[w]), rc |-> rc]) \in Seq(Result)
    BY <2>4, AppendProperties
  <2>6. resultsQ' \in [Worker -> Seq(Result)]
    BY <2>3, <2>5
  <2>7. outcome' \in [TaskId -> RC \cup {NotRun}]
    BY <2>2, <2>3
  <2>8. /\ wHand' \in [Worker -> Seq(TaskId)]
        /\ wPc' \in [Worker -> {"none", "check", "lock", "waiting", "run", "exited"}]
    BY <1>26 DEF WorkerRun
  <2>9. QED
    BY <1>26, <2>6, <2>7, <2>8 DEF WorkerRun
<1>27. CASE UNCHANGED vars
  BY <1>27 DEF vars
<1>28. QED
  BY <1>0, <1>1, <1>2, <1>3, <1>4, <1>5, <1>6, <1>7, <1>8, <1>9, <1>10,
     <1>11, <1>12, <1>13, <1>14, <1>15, <1>16, <1>17, <1>18, <1>19, <1>20,
     <1>21, <1>22, <1>23, <1>24, <1>25, <1>26, <1>27
  DEF Next, Caller, CallerStep, Query, WorkerStep

-----------------------------------------------------------------------------
(* The places of the pool *)

\* The place of each queue and hand, and what it holds.
LEMMA HeldFacts ==
  ASSUME TypeOK
  PROVE  /\ Held[SQ] = sQ /\ Held[RESQ] = Ids(resQ) /\ Held[QHAND] = Ids(qHand)
         /\ \A w \in Worker : /\ Held[TASKQ(w)] = taskQ[w]
                              /\ Held[WHAND(w)] = wHand[w]
                              /\ Held[RESULTSQ(w)] = Ids(resultsQ[w])
BY DEF Held, HeldAt, Place, SQ, RESQ, QHAND, TASKQ, WHAND, RESULTSQ

\* The same of the next state.
LEMMA HeldNext ==
  ASSUME TypeOK'
  PROVE  /\ Held'[SQ] = sQ' /\ Held'[RESQ] = Ids(resQ') /\ Held'[QHAND] = Ids(qHand')
         /\ \A w \in Worker : /\ Held'[TASKQ(w)] = taskQ'[w]
                              /\ Held'[WHAND(w)] = wHand'[w]
                              /\ Held'[RESULTSQ(w)] = Ids(resultsQ'[w])
BY DEF Held, HeldAt, Place, SQ, RESQ, QHAND, TASKQ, WHAND, RESULTSQ

\* There are no other places.
LEMMA PlaceFacts ==
  /\ SQ \in Place /\ RESQ \in Place /\ QHAND \in Place
  /\ \A w \in Worker :
       TASKQ(w) \in Place /\ WHAND(w) \in Place /\ RESULTSQ(w) \in Place
  /\ \A p \in Place :
       \/ p \in {SQ, RESQ, QHAND}
       \/ \E w \in Worker : p \in {TASKQ(w), WHAND(w), RESULTSQ(w)}
BY DEF Place

\* They all differ.
LEMMA PlacesDiffer ==
  /\ SQ # RESQ /\ SQ # QHAND /\ RESQ # QHAND
  /\ \A w \in Worker :
       /\ {SQ, RESQ, QHAND} \cap {TASKQ(w), WHAND(w), RESULTSQ(w)} = {}
       /\ TASKQ(w) # WHAND(w) /\ WHAND(w) # RESULTSQ(w) /\ TASKQ(w) # RESULTSQ(w)
       /\ \A v \in Worker \ {w} :
            {TASKQ(v), WHAND(v), RESULTSQ(v)} \cap {TASKQ(w), WHAND(w), RESULTSQ(w)} = {}
BY DEF SQ, RESQ, QHAND, TASKQ, WHAND, RESULTSQ

\* The identifiers of a sequence of results.
LEMMA IdsFacts ==
  ASSUME NEW s \in Seq(Result)
  PROVE  /\ Ids(s) \in Seq(TaskId) /\ Len(Ids(s)) = Len(s)
         /\ DOMAIN Ids(s) = DOMAIN s /\ DOMAIN s = 1 .. Len(s) /\ Len(s) \in Nat
         /\ \A i \in DOMAIN s : Ids(s)[i] = s[i].id
         /\ (s = <<>>) <=> (Ids(s) = <<>>)
<1>1. Len(s) \in Nat /\ DOMAIN s = 1 .. Len(s)
  BY LenProperties
<1>2. \A i \in 1 .. Len(s) : s[i] \in Result
  BY <1>1, ElementOfSeq
<1>3. Ids(s) = [i \in 1 .. Len(s) |-> s[i].id]
  BY <1>1 DEF Ids
<1>4. Ids(s) \in [1 .. Len(s) -> TaskId]
  BY <1>2, <1>3 DEF Result
<1>5. Ids(s) \in Seq(TaskId) /\ Len(Ids(s)) = Len(s)
  BY <1>1, <1>4
<1>6. (s = <<>>) <=> (Ids(s) = <<>>)
  BY <1>5, EmptySeq
<1>7. QED
  BY <1>1, <1>3, <1>5, <1>6

\* ... of one with another result at its end ...
LEMMA IdsAppend ==
  ASSUME NEW s \in Seq(Result), NEW r \in Result
  PROVE  Ids(Append(s, r)) = Append(Ids(s), r.id)
<1>1. /\ Append(s, r) \in Seq(Result) /\ Len(Append(s, r)) = Len(s) + 1
      /\ \A i \in 1 .. Len(s) : Append(s, r)[i] = s[i]
      /\ Append(s, r)[Len(s) + 1] = r
  BY AppendProperties
<1>2. r.id \in TaskId
  BY DEF Result
<1>3. /\ Ids(s) \in Seq(TaskId) /\ Len(Ids(s)) = Len(s) /\ Len(s) \in Nat
      /\ DOMAIN s = 1 .. Len(s)
      /\ \A i \in DOMAIN s : Ids(s)[i] = s[i].id
  BY IdsFacts
<1>4. /\ Append(Ids(s), r.id) \in Seq(TaskId)
      /\ Len(Append(Ids(s), r.id)) = Len(s) + 1
      /\ \A i \in 1 .. Len(s) : Append(Ids(s), r.id)[i] = s[i].id
      /\ Append(Ids(s), r.id)[Len(s) + 1] = r.id
  BY <1>2, <1>3, AppendProperties
<1>5. /\ Ids(Append(s, r)) \in Seq(TaskId)
      /\ Len(Ids(Append(s, r))) = Len(s) + 1
      /\ DOMAIN Append(s, r) = 1 .. Len(s) + 1
      /\ \A i \in 1 .. Len(s) + 1 : Ids(Append(s, r))[i] = Append(s, r)[i].id
  BY <1>1, IdsFacts
<1>6. \A i \in 1 .. Len(s) + 1 : Ids(Append(s, r))[i] = Append(Ids(s), r.id)[i]
  BY <1>1, <1>3, <1>4, <1>5
<1>7. QED
  BY <1>4, <1>5, <1>6, SeqEqual

\* ... and of one whose first result has been taken.
LEMMA IdsTail ==
  ASSUME NEW s \in Seq(Result), s # <<>>
  PROVE  Ids(Tail(s)) = Tail(Ids(s)) /\ Head(Ids(s)) = Head(s).id
<1>1. /\ Tail(s) \in Seq(Result) /\ Len(s) \in Nat \ {0} /\ Len(Tail(s)) = Len(s) - 1
      /\ Head(s) = s[1] /\ DOMAIN s = 1 .. Len(s)
      /\ \A i \in 1 .. Len(s) - 1 : Tail(s)[i] = s[i + 1]
  BY HeadTailProperties, LenProperties, EmptySeq
<1>2. /\ Ids(s) \in Seq(TaskId) /\ Len(Ids(s)) = Len(s) /\ Ids(s) # <<>>
      /\ \A i \in 1 .. Len(s) : Ids(s)[i] = s[i].id
  BY <1>1, IdsFacts
<1>3. /\ Tail(Ids(s)) \in Seq(TaskId) /\ Len(Tail(Ids(s))) = Len(s) - 1
      /\ Head(Ids(s)) = Ids(s)[1]
      /\ \A i \in 1 .. Len(s) - 1 : Tail(Ids(s))[i] = Ids(s)[i + 1]
  BY SMTT(30), <1>2, HeadTailProperties
<1>4. /\ Ids(Tail(s)) \in Seq(TaskId) /\ Len(Ids(Tail(s))) = Len(s) - 1
      /\ DOMAIN Tail(s) = 1 .. Len(s) - 1
      /\ \A i \in 1 .. Len(s) - 1 : Ids(Tail(s))[i] = Tail(s)[i].id
  BY <1>1, IdsFacts
<1>5. \A i \in 1 .. Len(s) - 1 : Ids(Tail(s))[i] = Tail(Ids(s))[i]
  BY <1>1, <1>2, <1>3, <1>4
<1>6. Ids(Tail(s)) = Tail(Ids(s))
  BY <1>1, <1>3, <1>4, <1>5, SeqEqual
<1>7. QED
  BY <1>1, <1>2, <1>3, <1>6

\* Every place holds a sequence of task identifiers.
LEMMA HeldType ==
  ASSUME TypeOK
  PROVE  Held \in Fillings(Place, TaskId) /\ DOMAIN Held = Place
<1>1. Held = [p \in Place |-> HeldAt(p)]
  BY DEF Held
<1>2. ASSUME NEW p \in Place
      PROVE  Held[p] \in Seq(TaskId)
  <2>1. CASE p \in {SQ, RESQ, QHAND}
    BY <2>1, HeldFacts, IdsFacts DEF TypeOK
  <2>2. ASSUME NEW w \in Worker, p \in {TASKQ(w), WHAND(w), RESULTSQ(w)}
        PROVE  Held[p] \in Seq(TaskId)
    <3>1. /\ taskQ[w] \in Seq(TaskId) /\ wHand[w] \in Seq(TaskId)
          /\ resultsQ[w] \in Seq(Result)
      BY DEF TypeOK
    <3>2. Ids(resultsQ[w]) \in Seq(TaskId)
      BY <3>1, IdsFacts
    <3>3. QED
      BY <2>2, <3>1, <3>2, HeldFacts
  <2>3. QED
    BY <2>1, <2>2, PlaceFacts
<1>3. QED
  BY ONLY <1>1, <1>2 DEF Fillings

\* The same of the next state.
LEMMA HeldTypeNext ==
  ASSUME TypeOK'
  PROVE  Held' \in Fillings(Place, TaskId) /\ DOMAIN Held' = Place
<1>1. Held' = [p \in Place |-> HeldAt(p)']
  BY DEF Held, Place
<1>2. ASSUME NEW p \in Place
      PROVE  Held'[p] \in Seq(TaskId)
  <2>1. CASE p \in {SQ, RESQ, QHAND}
    BY <2>1, HeldNext, IdsFacts DEF TypeOK
  <2>2. ASSUME NEW w \in Worker, p \in {TASKQ(w), WHAND(w), RESULTSQ(w)}
        PROVE  Held'[p] \in Seq(TaskId)
    <3>1. /\ taskQ'[w] \in Seq(TaskId) /\ wHand'[w] \in Seq(TaskId)
          /\ resultsQ'[w] \in Seq(Result)
      BY DEF TypeOK
    <3>2. Ids(resultsQ'[w]) \in Seq(TaskId)
      BY <3>1, IdsFacts
    <3>3. QED
      BY <2>2, <3>1, <3>2, HeldNext
  <2>3. QED
    BY <2>1, <2>2, PlaceFacts
<1>3. QED
  BY ONLY <1>1, <1>2 DEF Fillings

\* Outside the places X whose queues change, everything stays where it is.
LEMMA Elsewhere ==
  ASSUME TypeOK, TypeOK', NEW X,
         SQ \in X \/ sQ' = sQ, RESQ \in X \/ resQ' = resQ,
         QHAND \in X \/ qHand' = qHand,
         \A w \in Worker : /\ TASKQ(w) \in X \/ taskQ'[w] = taskQ[w]
                           /\ WHAND(w) \in X \/ wHand'[w] = wHand[w]
                           /\ RESULTSQ(w) \in X \/ resultsQ'[w] = resultsQ[w]
  PROVE  \A p \in DOMAIN Held \ X : Held'[p] = Held[p]
<1>1. /\ Held[SQ] = sQ /\ Held[RESQ] = Ids(resQ) /\ Held[QHAND] = Ids(qHand)
      /\ \A w \in Worker : /\ Held[TASKQ(w)] = taskQ[w]
                           /\ Held[WHAND(w)] = wHand[w]
                           /\ Held[RESULTSQ(w)] = Ids(resultsQ[w])
  BY HeldFacts
<1>2. /\ Held'[SQ] = sQ' /\ Held'[RESQ] = Ids(resQ') /\ Held'[QHAND] = Ids(qHand')
      /\ \A w \in Worker : /\ Held'[TASKQ(w)] = taskQ'[w]
                           /\ Held'[WHAND(w)] = wHand'[w]
                           /\ Held'[RESULTSQ(w)] = Ids(resultsQ'[w])
  BY HeldNext
<1>3. SUFFICES ASSUME NEW p \in Place, p \notin X
               PROVE  Held'[p] = Held[p]
  BY HeldType
<1>4. CASE p \in {SQ, RESQ, QHAND}
  BY <1>1, <1>2, <1>3, <1>4
<1>5. ASSUME NEW w \in Worker, p \in {TASKQ(w), WHAND(w), RESULTSQ(w)}
      PROVE  Held'[p] = Held[p]
  BY <1>1, <1>2, <1>3, <1>5
<1>6. QED
  BY <1>4, <1>5, PlaceFacts

\* A step after which every queue and hand is the same moves no task.
LEMMA NothingMoves ==
  ASSUME TypeOK, TypeOK', UNCHANGED <<sQ, resQ, qHand, taskQ, wHand, resultsQ>>
  PROVE  Held' = Held
<1>1. \A p \in DOMAIN Held \ {} : Held'[p] = Held[p]
  BY Elsewhere
<1>2. Held \in Fillings(Place, TaskId) /\ Held' \in Fillings(Place, TaskId)
  BY HeldType, HeldTypeNext
<1>3. QED
  BY <1>1, <1>2 DEF Fillings

-----------------------------------------------------------------------------
(* What each step does to the places *)

\* dispatchTask puts a new task in sQ, or its failure in resQ.
LEMMA DispatchEffect ==
  ASSUME TypeOK, TypeOK', DispatchTask
  PROVE  /\ currentId \in TaskId
         /\ \/ Pushed(Held, Held', SQ, currentId)
            \/ Pushed(Held, Held', RESQ, currentId)
<1>1. currentId \in TaskId
  BY PoolAssumption DEF TypeOK, DispatchTask, TaskId
<1>2. UNCHANGED <<qHand, taskQ, wHand, resultsQ>>
  BY DEF DispatchTask, queryVars, workerVars
<1>3. CASE sQ' = Append(sQ, currentId) /\ UNCHANGED <<resQ, outcome>>
  <2>1. \A p \in DOMAIN Held \ {SQ} : Held'[p] = Held[p]
    BY <1>2, <1>3, Elsewhere
  <2>2. Held'[SQ] = Append(Held[SQ], currentId)
    BY <1>3, HeldFacts, HeldNext
  <2>3. QED
    BY <1>1, <2>1, <2>2 DEF Pushed
<1>4. CASE resQ' = Append(resQ, [id |-> currentId, rc |-> 1]) /\ UNCHANGED sQ
  <2>1. \A p \in DOMAIN Held \ {RESQ} : Held'[p] = Held[p]
    BY <1>2, <1>4, Elsewhere
  <2>2. [id |-> currentId, rc |-> 1] \in Result /\ resQ \in Seq(Result)
    BY <1>1 DEF Result, RC, TypeOK
  <2>3. Ids(resQ') = Append(Ids(resQ), currentId)
    BY <1>4, <2>2, IdsAppend
  <2>4. Held'[RESQ] = Append(Held[RESQ], currentId)
    BY <2>3, HeldFacts, HeldNext
  <2>5. QED
    BY <1>1, <2>1, <2>4 DEF Pushed
<1>5. QED
  BY <1>3, <1>4 DEF DispatchTask

\* addTask moves the head of sQ to the queue of the worker it is at.
LEMMA PushEffect ==
  ASSUME TypeOK, TypeOK', QueryAt, QueryPush
  PROVE  qIdx \in Worker /\ Moved(Held, Held', SQ, TASKQ(qIdx))
<1>1. qIdx \in Worker /\ sQ # <<>>
  BY PoolAssumption DEF TypeOK, QueryAt, QueryPush, Worker
<1>2. /\ taskQ' = [taskQ EXCEPT ![qIdx] = Append(@, Head(sQ))] /\ sQ' = Tail(sQ)
      /\ UNCHANGED <<resQ, qHand, wHand, resultsQ>>
  BY DEF QueryPush
<1>3. /\ taskQ'[qIdx] = Append(taskQ[qIdx], Head(sQ))
      /\ \A w \in Worker \ {qIdx} : taskQ'[w] = taskQ[w]
  BY <1>1, <1>2 DEF TypeOK
<1>4. \A p \in DOMAIN Held \ {SQ, TASKQ(qIdx)} : Held'[p] = Held[p]
  <2>1. \A w \in Worker : TASKQ(w) \in {SQ, TASKQ(qIdx)} \/ taskQ'[w] = taskQ[w]
    BY <1>3
  <2>2. QED
    BY <1>2, <2>1, Elsewhere
<1>5. Held[SQ] # <<>> /\ Held'[SQ] = Tail(Held[SQ])
  BY <1>1, <1>2, HeldFacts, HeldNext
<1>6. Held'[TASKQ(qIdx)] = Append(Held[TASKQ(qIdx)], Head(Held[SQ]))
  BY <1>1, <1>3, HeldFacts, HeldNext
<1>7. QED
  BY <1>1, <1>4, <1>5, <1>6, PlacesDiffer DEF Moved

\* threadFunc moves the task of its queue to its hand, or finds none.
LEMMA TakeEffect ==
  ASSUME TypeOK, TypeOK', NEW w \in Worker, TakeTask(w),
         UNCHANGED <<sQ, resQ, qHand, resultsQ>>
  PROVE  Held' = Held \/ (wHand[w] = <<>> => Moved(Held, Held', TASKQ(w), WHAND(w)))
<1>1. CASE taskQ[w] = <<>>
  <2>1. UNCHANGED <<wHand, taskQ>>
    BY <1>1 DEF TakeTask
  <2>2. Held' = Held
    BY <2>1, NothingMoves
  <2>3. QED
    BY <2>2
<1>2. ASSUME taskQ[w] # <<>>, wHand[w] = <<>>
      PROVE  Moved(Held, Held', TASKQ(w), WHAND(w))
  <2>1. /\ wHand' = [wHand EXCEPT ![w] = <<Head(taskQ[w])>>]
        /\ taskQ' = [taskQ EXCEPT ![w] = Tail(taskQ[w])]
    BY <1>2 DEF TakeTask
  <2>2. /\ wHand'[w] = Append(wHand[w], Head(taskQ[w])) /\ taskQ'[w] = Tail(taskQ[w])
        /\ \A v \in Worker \ {w} : wHand'[v] = wHand[v] /\ taskQ'[v] = taskQ[v]
    BY <1>2, <2>1 DEF TypeOK
  <2>3. \A p \in DOMAIN Held \ {TASKQ(w), WHAND(w)} : Held'[p] = Held[p]
    <3>1. \A v \in Worker :
            /\ TASKQ(v) \in {TASKQ(w), WHAND(w)} \/ taskQ'[v] = taskQ[v]
            /\ WHAND(v) \in {TASKQ(w), WHAND(w)} \/ wHand'[v] = wHand[v]
      BY <2>2
    <3>2. QED
      BY <3>1, Elsewhere
  <2>4. Held[TASKQ(w)] # <<>> /\ Held'[TASKQ(w)] = Tail(Held[TASKQ(w)])
    BY <1>2, <2>2, HeldFacts, HeldNext
  <2>5. Held'[WHAND(w)] = Append(Held[WHAND(w)], Head(Held[TASKQ(w)]))
    BY <2>2, HeldFacts, HeldNext
  <2>6. QED
    BY <2>3, <2>4, <2>5, PlacesDiffer DEF Moved
<1>3. QED
  BY <1>1, <1>2

\* A worker that has run its task moves it from its hand to its results.
LEMMA RunEffect ==
  ASSUME TypeOK, TypeOK', WorkersAt, NEW w \in Worker, WorkerRun(w)
  PROVE  Moved(Held, Held', WHAND(w), RESULTSQ(w))
<1>1. Len(wHand[w]) = 1 /\ wHand[w] \in Seq(TaskId) /\ resultsQ[w] \in Seq(Result)
  BY DEF WorkerRun, WorkersAt, TypeOK
<1>2. /\ wHand[w] # <<>> /\ Head(wHand[w]) \in TaskId
      /\ Tail(wHand[w]) = <<>>
  BY <1>1, OneElement
<1>3. PICK rc \in RC :
        resultsQ' = [resultsQ EXCEPT ![w] =
                       Append(@, [id |-> Head(wHand[w]), rc |-> rc])]
  BY DEF WorkerRun
<1>4. /\ wHand' = [wHand EXCEPT ![w] = <<>>]
      /\ UNCHANGED <<sQ, resQ, qHand, taskQ>>
  BY DEF WorkerRun, poolVars, queryVars
<1>5. /\ resultsQ'[w] = Append(resultsQ[w], [id |-> Head(wHand[w]), rc |-> rc])
      /\ wHand'[w] = <<>>
      /\ \A v \in Worker \ {w} : resultsQ'[v] = resultsQ[v] /\ wHand'[v] = wHand[v]
  BY <1>3, <1>4 DEF TypeOK
<1>6. [id |-> Head(wHand[w]), rc |-> rc] \in Result
  BY <1>2 DEF Result
<1>7. Ids(resultsQ'[w]) = Append(Ids(resultsQ[w]), Head(wHand[w]))
  BY <1>1, <1>5, <1>6, IdsAppend
<1>8. \A p \in DOMAIN Held \ {WHAND(w), RESULTSQ(w)} : Held'[p] = Held[p]
  <2>1. \A v \in Worker :
          /\ WHAND(v) \in {WHAND(w), RESULTSQ(w)} \/ wHand'[v] = wHand[v]
          /\ RESULTSQ(v) \in {WHAND(w), RESULTSQ(w)} \/ resultsQ'[v] = resultsQ[v]
    BY <1>5
  <2>2. QED
    BY <1>4, <2>1, Elsewhere
<1>9. Held[WHAND(w)] # <<>> /\ Held'[WHAND(w)] = Tail(Held[WHAND(w)])
  BY <1>2, <1>5, HeldFacts, HeldNext
<1>10. Held'[RESULTSQ(w)] = Append(Held[RESULTSQ(w)], Head(Held[WHAND(w)]))
  BY <1>7, HeldFacts, HeldNext
<1>11. QED
  BY <1>8, <1>9, <1>10, PlacesDiffer DEF Moved

\* queryThreads takes the first result of the worker it is at, ...
LEMMA CollectEffect ==
  ASSUME TypeOK, TypeOK', QueryAt, QueryCollect
  PROVE  \/ UNCHANGED <<qHand, resultsQ>> /\ Held' = Held
         \/ qIdx \in Worker /\ Moved(Held, Held', RESULTSQ(qIdx), QHAND)
<1>1. qIdx \in Worker /\ qHand = <<>>
  <2>1. qIdx \in Worker /\ Len(qHand) = 0
    BY PoolAssumption DEF TypeOK, QueryAt, QueryCollect, Worker
  <2>2. QED
    BY <2>1, EmptySeq DEF TypeOK
<1>2. UNCHANGED <<sQ, resQ, taskQ, wHand>>
  BY DEF QueryCollect, poolVars
<1>3. CASE resultsQ[qIdx] = <<>>
  <2>1. UNCHANGED <<qHand, resultsQ>>
    BY <1>3 DEF QueryCollect
  <2>2. Held' = Held
    BY <1>2, <2>1, NothingMoves
  <2>3. QED
    BY <2>1, <2>2
<1>4. CASE resultsQ[qIdx] # <<>>
  <2>1. /\ qHand' = <<Head(resultsQ[qIdx])>>
        /\ resultsQ' = [resultsQ EXCEPT ![qIdx] = Tail(resultsQ[qIdx])]
    BY <1>4 DEF QueryCollect
  <2>2. /\ resultsQ'[qIdx] = Tail(resultsQ[qIdx])
        /\ \A v \in Worker \ {qIdx} : resultsQ'[v] = resultsQ[v]
    BY <1>1, <2>1 DEF TypeOK
  <2>3. \A p \in DOMAIN Held \ {RESULTSQ(qIdx), QHAND} : Held'[p] = Held[p]
    <3>1. \A v \in Worker :
            RESULTSQ(v) \in {RESULTSQ(qIdx), QHAND} \/ resultsQ'[v] = resultsQ[v]
      BY <2>2
    <3>2. QED
      BY <1>2, <3>1, Elsewhere
  <2>4. resultsQ[qIdx] \in Seq(Result) /\ Head(resultsQ[qIdx]) \in Result
    <3>1. resultsQ[qIdx] \in Seq(Result)
      BY <1>1 DEF TypeOK
    <3>2. QED
      BY <1>4, <3>1, HeadTailProperties
  <2>5. /\ Ids(resultsQ[qIdx]) # <<>>
        /\ Ids(resultsQ'[qIdx]) = Tail(Ids(resultsQ[qIdx]))
        /\ Head(Ids(resultsQ[qIdx])) = Head(resultsQ[qIdx]).id
    BY <1>4, <2>2, <2>4, IdsTail, IdsFacts
  <2>6. Ids(qHand') = Append(Ids(qHand), Head(resultsQ[qIdx]).id)
    <3>1. qHand' = Append(qHand, Head(resultsQ[qIdx])) /\ qHand \in Seq(Result)
      BY <1>1, <2>1 DEF TypeOK
    <3>2. QED
      BY <2>4, <3>1, IdsAppend
  <2>7. /\ Held[RESULTSQ(qIdx)] = Ids(resultsQ[qIdx])
        /\ Held'[RESULTSQ(qIdx)] = Ids(resultsQ'[qIdx])
        /\ Held[QHAND] = Ids(qHand) /\ Held'[QHAND] = Ids(qHand')
    BY <1>1, HeldFacts, HeldNext
  <2>8. Moved(Held, Held', RESULTSQ(qIdx), QHAND)
    BY <1>1, <2>3, <2>5, <2>6, <2>7, PlacesDiffer DEF Moved
  <2>9. QED
    BY <1>1, <2>8
<1>5. QED
  BY <1>3, <1>4

\* ... and delivers it into resQ.
LEMMA DeliverEffect ==
  ASSUME TypeOK, TypeOK', QueryAt, QueryDeliver
  PROVE  /\ Moved(Held, Held', QHAND, RESQ)
         /\ \E r \in Result : qHand = <<r>> /\ resQ' = Append(resQ, r)
<1>1. Len(qHand) = 1 /\ qHand \in Seq(Result) /\ resQ \in Seq(Result)
  BY DEF QueryAt, QueryDeliver, TypeOK
<1>2. PICK r \in Result : qHand = <<r>>
  BY <1>1, OneElement
<1>3. resQ' = Append(resQ, r) /\ qHand' = <<>>
  <2>1. resQ' = resQ \o <<r>> /\ qHand' = <<>>
    BY <1>2 DEF QueryDeliver
  <2>2. resQ \o <<r>> = Append(resQ, r)
    BY <1>1, <1>2, AppendIsConcat
  <2>3. QED
    BY <2>1, <2>2
<1>4. UNCHANGED <<sQ, taskQ, wHand, resultsQ>>
  BY DEF QueryDeliver, workerVars
<1>5. \A p \in DOMAIN Held \ {QHAND, RESQ} : Held'[p] = Held[p]
  BY <1>4, Elsewhere
<1>6. Ids(resQ') = Append(Ids(resQ), r.id)
  BY <1>1, <1>2, <1>3, IdsAppend
<1>7. Ids(qHand) = <<r.id>> /\ Ids(qHand') = <<>>
  <2>1. Ids(qHand) = <<r.id>>
    BY <1>2 DEF Ids
  <2>2. Ids(qHand') = <<>>
    BY <1>3 DEF Ids
  <2>3. QED
    BY <2>1, <2>2
<1>8. /\ Held[QHAND] = Ids(qHand) /\ Held'[QHAND] = Ids(qHand')
      /\ Held[RESQ] = Ids(resQ) /\ Held'[RESQ] = Ids(resQ')
  BY HeldFacts, HeldNext
<1>9. Moved(Held, Held', QHAND, RESQ)
  BY <1>5, <1>6, <1>7, <1>8, PlacesDiffer DEF Moved
<1>10. QED
  BY <1>2, <1>3, <1>9

\* A wait that may return has the whole batch in resQ: the results are
\* different tasks of the batch, and as many as were dispatched.
LEMMA AllInMeansDone ==
  ASSUME TypeOK, OneHolder, CallerAt, ~Outstanding
  PROVE  Batch = {resQ[i].id : i \in DOMAIN resQ}
<1> DEFINE num == Len(resQ)
           ids == Ids(resQ)
<1>1. /\ currentId \in Nat /\ base \in Nat /\ base <= currentId
      /\ totalIn = currentId /\ resQ \in Seq(Result)
  BY PoolAssumption DEF TypeOK, CallerAt
<1>2. /\ ids \in Seq(TaskId) /\ Len(ids) = num /\ num \in Nat
      /\ DOMAIN ids = 1 .. num /\ DOMAIN resQ = 1 .. num
      /\ \A i \in 1 .. num : ids[i] = resQ[i].id
  BY <1>1, IdsFacts
<1>3. num >= currentId
  BY <1>1, <1>2 DEF Outstanding
<1>4. Held[RESQ] = ids /\ RESQ \in DOMAIN Held
  BY HeldFacts, HeldType, PlaceFacts
<1> HIDE DEF ids
<1>5. \A i \in 1 .. num : ids[i] \in base .. currentId - 1
  <2>1. \A i \in DOMAIN ids : ids[i] \in Carried(Held)
    BY ONLY <1>4 DEF Carried
  <2>2. QED
    BY <1>2, <2>1 DEF OneHolder, Batch
<1>6. \A i, j \in 1 .. num : ids[i] = ids[j] => i = j
  <2>1. Apart(Held)
    BY DEF OneHolder
  <2>2. \A i, j \in DOMAIN ids : ids[i] = ids[j] => i = j
    BY ONLY <1>4, <2>1 DEF Apart
  <2>3. QED
    BY <1>2, <2>2
<1>7. ids \in [1 .. num -> base .. currentId - 1]
  BY <1>2, <1>5
<1> HIDE DEF num
<1>8. /\ num <= (currentId - 1) - base + 1
      /\ num = (currentId - 1) - base + 1 =>
           \A t \in base .. currentId - 1 : \E i \in 1 .. num : ids[i] = t
  <2> DEFINE top == currentId - 1
  <2>1. top \in Int /\ base \in Int /\ base <= top + 1 /\ num \in Nat
    BY <1>1, <1>2
  <2> HIDE DEF top
  <2>2. \A g \in [1 .. num -> base .. top] :
          (\A i, j \in 1 .. num : g[i] = g[j] => i = j) =>
            /\ num <= top - base + 1
            /\ num = top - base + 1 =>
                 \A t \in base .. top : \E i \in 1 .. num : g[i] = t
    BY ZenonT(40), <2>1, DistinctInInterval
  <2>3. ids \in [1 .. num -> base .. top]
    BY <1>7 DEF top
  <2>4. /\ num <= top - base + 1
        /\ num = top - base + 1 => \A t \in base .. top : \E i \in 1 .. num : ids[i] = t
    BY <2>2, <2>3, <1>6
  <2>5. QED
    BY <2>4 DEF top
<1>9. num = (currentId - 1) - base + 1
  BY <1>1, <1>2, <1>3, <1>8
<1>10. QED
  BY <1>2, <1>5, <1>8, <1>9 DEF Batch

\* waitForCompletion takes everything that is anywhere in the pool.
LEMMA ReturnEffect ==
  ASSUME TypeOK, TypeOK', OneHolder, CallerAt, WaitReturn
  PROVE  Cleared(Held, Held', RESQ)
<1>1. resQ' = <<>> /\ UNCHANGED <<sQ, qHand, taskQ, wHand, resultsQ>>
  BY DEF WaitReturn, queryVars, workerVars
<1>2. \A p \in DOMAIN Held \ {RESQ} : Held'[p] = Held[p]
  BY <1>1, Elsewhere
<1>3. Ids(resQ') = <<>>
  BY <1>1 DEF Ids
<1>4. Held[RESQ] = Ids(resQ) /\ Held'[RESQ] = <<>>
  BY <1>3, HeldFacts, HeldNext
<1>5. Carried(Held) = {resQ[i].id : i \in DOMAIN resQ}
  BY AllInMeansDone DEF WaitReturn, OneHolder
<1>6. {resQ[i].id : i \in DOMAIN resQ} = {Ids(resQ)[i] : i \in DOMAIN Ids(resQ)}
  BY DEF Ids
<1>7. QED
  BY <1>2, <1>4, <1>5, <1>6 DEF Cleared

-----------------------------------------------------------------------------
(* The inductive invariant is preserved *)

\* A task that moves from one place to another stays the only one of its kind.
LEMMA MovedKeeps ==
  ASSUME TypeOK, TypeOK', OneHolder, UNCHANGED <<base, currentId>>,
         NEW p \in Place, NEW q \in Place, Moved(Held, Held', p, q)
  PROVE  OneHolder'
<1>1. Held \in Fillings(Place, TaskId) /\ Held' \in Fillings(Place, TaskId)
  BY HeldType, HeldTypeNext
<1>2. Apart(Held') /\ Carried(Held') = Carried(Held)
  BY <1>1, MoveKeeps DEF OneHolder
<1>3. Batch' = Batch
  BY DEF Batch
<1>4. QED
  BY <1>2, <1>3 DEF OneHolder

\* ... as does every task when none moves.
LEMMA StillKeeps ==
  ASSUME TypeOK, TypeOK', OneHolder,
         UNCHANGED <<base, currentId, sQ, resQ, qHand, taskQ, wHand, resultsQ>>
  PROVE  OneHolder'
<1>1. Held' = Held
  BY NothingMoves
<1>2. Batch' = Batch
  BY DEF Batch
<1>3. QED
  BY <1>1, <1>2 DEF OneHolder

\* A task taken from a worker's queue comes to the hand of that worker.
LEMMA TakeKeeps ==
  ASSUME IInv, TypeOK', NEW w \in Worker, TakeTask(w), wPc[w] # "run",
         UNCHANGED <<base, currentId, sQ, resQ, qHand, resultsQ>>
  PROVE  OneHolder'
<1> TypeOK /\ OneHolder
  BY DEF IInv
<1>1. wHand[w] = <<>>
  <2>1. Len(wHand[w]) = 0 /\ wHand[w] \in Seq(TaskId)
    BY DEF IInv, WorkersAt, TypeOK
  <2>2. QED
    BY <2>1, EmptySeq
<1>2. CASE Held' = Held
  <2>1. Batch' = Batch
    BY DEF Batch
  <2>2. QED
    BY <1>2, <2>1 DEF OneHolder
<1>3. CASE Moved(Held, Held', TASKQ(w), WHAND(w))
  <2>1. TASKQ(w) \in Place /\ WHAND(w) \in Place
    BY PlaceFacts
  <2>2. QED
    BY <1>3, <2>1, MovedKeeps
<1>4. QED
  BY <1>1, <1>2, <1>3, TakeEffect

\* Every step leaves each task of the batch in exactly one place.
LEMMA OneHolderStep ==
  IInv /\ [Next]_vars => OneHolder'
<1>0. SUFFICES ASSUME IInv, [Next]_vars
               PROVE  OneHolder'
  OBVIOUS
<1> TypeOK /\ TypeOK' /\ OneHolder /\ CallerAt /\ QueryAt /\ WorkersAt
  BY <1>0, TypeStep DEF IInv
<1>a. Held \in Fillings(Place, TaskId) /\ Held' \in Fillings(Place, TaskId)
  BY HeldType, HeldTypeNext
<1>b. SQ \in Place /\ RESQ \in Place /\ QHAND \in Place
  BY PlaceFacts
<1>c. Apart(Held) /\ Carried(Held) = Batch
  BY DEF OneHolder
<1>1. CASE DispatchTask
  <2>1. /\ currentId \in TaskId
        /\ \/ Pushed(Held, Held', SQ, currentId)
           \/ Pushed(Held, Held', RESQ, currentId)
    BY <1>1, DispatchEffect
  <2>2. currentId \notin Batch /\ Batch' = Batch \cup {currentId}
    <3>1. currentId' = currentId + 1 /\ base' = base
      BY <1>1 DEF DispatchTask
    <3>2. currentId \in Nat /\ base \in Nat /\ base <= currentId
      BY PoolAssumption DEF TypeOK, CallerAt
    <3>3. QED
      BY ONLY <3>1, <3>2 DEF Batch
  <2>3. Apart(Held') /\ Carried(Held') = Carried(Held) \cup {currentId}
    BY <1>a, <1>b, <1>c, <2>1, <2>2, PushKeeps
  <2>4. QED
    BY <1>c, <2>2, <2>3 DEF OneHolder
<1>2. CASE WaitReturn
  <2>1. Cleared(Held, Held', RESQ)
    BY <1>2, ReturnEffect
  <2>2. Apart(Held') /\ Carried(Held') = {}
    BY <1>a, <1>b, <1>c, <2>1, ClearKeeps
  <2>3. Batch' = {}
    <3>1. base' = currentId /\ currentId' = currentId /\ currentId \in Nat
      BY <1>2, PoolAssumption DEF WaitReturn, TypeOK
    <3>2. QED
      BY ONLY <3>1 DEF Batch
  <2>4. QED
    BY <2>2, <2>3 DEF OneHolder
<1>3. CASE QueryPush
  <2>1. UNCHANGED <<base, currentId>>
    BY <1>3 DEF QueryPush, callerVars
  <2>2. qIdx \in Worker /\ Moved(Held, Held', SQ, TASKQ(qIdx))
    BY <1>3, PushEffect
  <2>3. TASKQ(qIdx) \in Place
    BY <2>2, PlaceFacts
  <2>4. QED
    BY <1>b, <2>1, <2>2, <2>3, MovedKeeps
<1>4. CASE QueryCollect
  <2>1. UNCHANGED <<base, currentId, sQ, resQ, taskQ, wHand>>
    BY <1>4 DEF QueryCollect, callerVars, poolVars
  <2>2. CASE UNCHANGED <<qHand, resultsQ>>
    BY <2>1, <2>2, StillKeeps
  <2>3. CASE qIdx \in Worker /\ Moved(Held, Held', RESULTSQ(qIdx), QHAND)
    <3>1. RESULTSQ(qIdx) \in Place
      BY <2>3, PlaceFacts
    <3>2. QED
      BY <1>b, <2>1, <2>3, <3>1, MovedKeeps
  <2>4. QED
    BY <1>4, <2>2, <2>3, CollectEffect
<1>5. CASE QueryDeliver
  <2>1. UNCHANGED <<base, currentId>>
    BY <1>5 DEF QueryDeliver, callerVars
  <2>2. Moved(Held, Held', QHAND, RESQ)
    BY <1>5, DeliverEffect
  <2>3. QED
    BY <1>b, <2>1, <2>2, MovedKeeps
<1>6. ASSUME NEW w \in Worker, WorkerRun(w)
      PROVE  OneHolder'
  <2>1. UNCHANGED <<base, currentId>>
    BY <1>6 DEF WorkerRun, callerVars
  <2>2. Moved(Held, Held', WHAND(w), RESULTSQ(w))
    BY <1>6, RunEffect
  <2>3. WHAND(w) \in Place /\ RESULTSQ(w) \in Place
    BY PlaceFacts
  <2>4. QED
    BY <2>1, <2>2, <2>3, MovedKeeps
<1>7. ASSUME NEW w \in Worker, WorkerLock(w) \/ WorkerNotified(w) \/ WorkerSpurious(w)
      PROVE  OneHolder'
  <2>1. UNCHANGED <<base, currentId, sQ, resQ, qHand, resultsQ>> /\ wPc[w] # "run"
    BY <1>7
    DEF WorkerLock, WorkerNotified, WorkerSpurious, callerVars, poolVars, queryVars
  <2>2. CASE TakeTask(w)
    BY <1>0, <2>1, <2>2, TakeKeeps
  <2>3. CASE UNCHANGED <<taskQ, wHand>>
    BY <2>1, <2>3, StillKeeps
  <2>4. QED
    BY <1>7, <2>2, <2>3 DEF WorkerLock, WorkerNotified, WorkerSpurious
<1>8. CASE \/ StartDispatch \/ WaitForCompletion \/ WaitBlock \/ WaitNotified
           \/ WaitSpurious \/ Terminate \/ JoinQuery \/ StopWorker
           \/ NotifyWorker \/ JoinWorker \/ TerminateDone
  <2>1. UNCHANGED <<base, currentId, sQ, resQ, qHand, taskQ, wHand, resultsQ>>
    BY <1>8
    DEF StartDispatch, WaitForCompletion, WaitBlock, WaitNotified, WaitSpurious,
        Terminate, JoinQuery, StopWorker, NotifyWorker, JoinWorker,
        TerminateDone, poolVars, queryVars, workerVars
  <2>2. QED
    BY <2>1, StillKeeps
<1>9. CASE QueryCheck \/ QueryFeed \/ QuerySpawn \/ QueryFed \/ QueryCollected
  <2>1. UNCHANGED <<base, currentId, sQ, resQ, qHand, taskQ, wHand, resultsQ>>
    BY <1>9
    DEF QueryCheck, QueryFeed, QuerySpawn, QueryFed, QueryCollected,
        callerVars, poolVars, workerVars
  <2>2. QED
    BY <2>1, StillKeeps
<1>10. ASSUME NEW w \in Worker, WorkerCheck(w)
       PROVE  OneHolder'
  <2>1. UNCHANGED <<base, currentId, sQ, resQ, qHand, taskQ, wHand, resultsQ>>
    BY <1>10 DEF WorkerCheck, callerVars, poolVars, queryVars
  <2>2. QED
    BY <2>1, StillKeeps
<1>11. CASE UNCHANGED vars
  <2>1. UNCHANGED <<base, currentId, sQ, resQ, qHand, taskQ, wHand, resultsQ>>
    BY <1>11 DEF vars, callerVars, poolVars, queryVars, workerVars
  <2>2. QED
    BY <2>1, StillKeeps
<1>12. QED
  BY <1>0, <1>1, <1>2, <1>3, <1>4, <1>5, <1>6, <1>7, <1>8, <1>9, <1>10, <1>11
  DEF Next, Caller, CallerStep, Query, WorkerStep

\* A worker that has not started, or has ended, takes no step; the others
\* never become one of the first kind.
LEMMA WorkerPc ==
  ASSUME TypeOK, NEW w \in Worker, WorkerStep(w) \/ WorkerSpurious(w)
  PROVE  /\ wPc[w] \in {"check", "lock", "waiting", "run"}
         /\ \A v \in Worker \ {w} : wPc'[v] = wPc[v]
         /\ UNCHANGED <<callerVars, poolVars, queryVars>>
<1>1. wPc[w] \in {"check", "lock", "waiting", "run"}
  BY DEF WorkerStep, WorkerCheck, WorkerLock, WorkerNotified, WorkerRun, WorkerSpurious
<1>2. \E x : wPc' = [wPc EXCEPT ![w] = x]
  BY DEF WorkerStep, WorkerCheck, WorkerLock, WorkerNotified, WorkerRun,
         WorkerSpurious, TakeTask
<1>3. UNCHANGED <<callerVars, poolVars, queryVars>>
  BY DEF WorkerStep, WorkerCheck, WorkerLock, WorkerNotified, WorkerRun, WorkerSpurious
<1>4. QED
  BY <1>1, <1>2, <1>3 DEF TypeOK

\* The caller goes on knowing what it knows at each of its steps.
LEMMA CallerAtStep ==
  IInv /\ [Next]_vars => CallerAt'
<1>0. SUFFICES ASSUME IInv, [Next]_vars
               PROVE  CallerAt'
  OBVIOUS
<1>a. TypeOK /\ CallerAt /\ TypeOK'
  BY <1>0, TypeStep DEF IInv
<1>b. /\ currentId \in Int /\ base \in Int /\ mIdx \in Int /\ MaxThreads \in Int
      /\ batches \in Int
  BY <1>a, PoolAssumption DEF TypeOK
<1>1. CASE DispatchTask
  BY <1>a, <1>b, <1>1 DEF DispatchTask, CallerAt, queryVars, workerVars
<1>2. CASE \/ StartDispatch \/ WaitForCompletion \/ WaitBlock \/ WaitNotified
           \/ WaitSpurious \/ Terminate
  BY <1>a, <1>b, <1>2
  DEF StartDispatch, WaitForCompletion, WaitBlock, WaitNotified, WaitSpurious,
      Terminate, CallerAt, queryVars, workerVars
<1>3. CASE WaitReturn
  BY <1>a, <1>b, <1>3 DEF WaitReturn, CallerAt, queryVars, workerVars
<1>4. CASE JoinQuery
  <2>1. mIdx = 1
    BY <1>0, <1>4 DEF IInv, CallerAt, JoinQuery
  <2>2. QED
    BY <1>a, <1>b, <1>4, <2>1 DEF JoinQuery, CallerAt, queryVars, workerVars, Worker
<1>5. CASE StopWorker
  <2>1. mIdx \in Worker
    BY <1>a, <1>b, <1>5 DEF StopWorker, TypeOK, Worker
  <2>2. /\ UNCHANGED <<currentId, totalIn, base, batches, qPc, wPc>>
        /\ mPc = "stopWorker" /\ mIdx <= MaxThreads
        /\ \/ wPc[mIdx] = "none" /\ mIdx' = mIdx + 1 /\ mPc' = mPc
           \/ mIdx' = mIdx /\ mPc' = "notifyWorker"
    BY <1>5 DEF StopWorker, queryVars
  <2>3. \A w \in Worker : w < mIdx + 1 => w < mIdx \/ w = mIdx
    BY <1>b DEF Worker
  <2>4. QED
    BY <1>a, <1>b, <2>1, <2>2, <2>3 DEF CallerAt
<1>6. CASE NotifyWorker
  BY <1>a, <1>b, <1>6 DEF NotifyWorker, CallerAt, queryVars
<1>7. CASE JoinWorker
  <2>1. /\ UNCHANGED <<currentId, totalIn, base, batches, qPc, wPc>>
        /\ mPc = "joinWorker" /\ wPc[mIdx] = "exited" /\ mIdx' = mIdx + 1
        /\ mPc' = "stopWorker"
    BY <1>7 DEF JoinWorker, queryVars, workerVars
  <2>2. \A w \in Worker : w < mIdx + 1 => w < mIdx \/ w = mIdx
    BY <1>b DEF Worker
  <2>3. QED
    BY <1>a, <1>b, <2>1, <2>2 DEF CallerAt
<1>8. CASE TerminateDone
  BY <1>a, <1>b, <1>8 DEF TerminateDone, CallerAt, queryVars, workerVars
<1>9. CASE Query
  <2>1. qPc # "exited" /\ UNCHANGED callerVars
    BY <1>9
    DEF Query, QueryCheck, QueryFeed, QuerySpawn, QueryPush, QueryFed,
        QueryCollect, QueryDeliver, QueryCollected
  <2>2. qPc # "off"
    BY <1>9
    DEF Query, QueryCheck, QueryFeed, QuerySpawn, QueryPush, QueryFed,
        QueryCollect, QueryDeliver, QueryCollected
  <2>3. QED
    BY <1>a, <2>1, <2>2 DEF CallerAt, callerVars
<1>10. ASSUME NEW w \in Worker, WorkerStep(w) \/ WorkerSpurious(w)
       PROVE  CallerAt'
  BY <1>a, <1>10, WorkerPc DEF CallerAt, callerVars, queryVars
<1>11. CASE UNCHANGED vars
  BY <1>a, <1>11 DEF vars, CallerAt, callerVars, queryVars, workerVars
<1>12. QED
  BY <1>0, <1>1, <1>2, <1>3, <1>4, <1>5, <1>6, <1>7, <1>8, <1>9, <1>10, <1>11
  DEF Next, Caller, CallerStep

\* What a worker's step does to its queue, its hand and its place.
LEMMA WorkerEffect ==
  ASSUME IInv, NEW w \in Worker, WorkerStep(w) \/ WorkerSpurious(w)
  PROVE  /\ \A v \in Worker \ {w} : taskQ'[v] = taskQ[v] /\ wHand'[v] = wHand[v]
         /\ taskQ[w] = <<>> => taskQ'[w] = <<>>
         /\ Len(wHand'[w]) = (IF wPc'[w] = "run" THEN 1 ELSE 0)
<1> TypeOK /\ WorkersAt
  BY DEF IInv
<1>1. Len(wHand[w]) = (IF wPc[w] = "run" THEN 1 ELSE 0)
  BY DEF WorkersAt
<1>2. ASSUME TakeTask(w), wPc[w] # "run"
      PROVE  /\ \A v \in Worker \ {w} : taskQ'[v] = taskQ[v] /\ wHand'[v] = wHand[v]
             /\ taskQ[w] = <<>> => taskQ'[w] = <<>>
             /\ Len(wHand'[w]) = (IF wPc'[w] = "run" THEN 1 ELSE 0)
  <2>1. CASE taskQ[w] = <<>>
    <3>1. wPc' = [wPc EXCEPT ![w] = "check"] /\ wHand' = wHand /\ taskQ' = taskQ
      BY <1>2, <2>1 DEF TakeTask
    <3>2. wPc'[w] = "check"
      BY <3>1 DEF TypeOK
    <3>3. QED
      BY <1>1, <1>2, <2>1, <3>1, <3>2
  <2>2. CASE taskQ[w] # <<>>
    <3>1. PICK x : x = Head(taskQ[w])
      OBVIOUS
    <3>2. PICK y : y = Tail(taskQ[w])
      OBVIOUS
    <3>3. /\ wHand' = [wHand EXCEPT ![w] = <<x>>] /\ taskQ' = [taskQ EXCEPT ![w] = y]
          /\ wPc' = [wPc EXCEPT ![w] = "run"]
      BY <1>2, <2>2, <3>1, <3>2 DEF TakeTask
    <3>4. /\ wPc'[w] = "run" /\ wHand'[w] = <<x>>
          /\ \A v \in Worker \ {w} : taskQ'[v] = taskQ[v] /\ wHand'[v] = wHand[v]
      BY <3>3 DEF TypeOK
    <3>5. QED
      BY <2>2, <3>4
  <2>3. QED
    BY <2>1, <2>2
<1>3. ASSUME UNCHANGED <<taskQ, wHand>>, wPc[w] # "run", wPc'[w] # "run"
      PROVE  /\ \A v \in Worker \ {w} : taskQ'[v] = taskQ[v] /\ wHand'[v] = wHand[v]
             /\ taskQ[w] = <<>> => taskQ'[w] = <<>>
             /\ Len(wHand'[w]) = (IF wPc'[w] = "run" THEN 1 ELSE 0)
  BY <1>1, <1>3
<1>4. CASE WorkerCheck(w)
  <2>1. UNCHANGED <<taskQ, wHand>> /\ wPc[w] # "run"
    BY <1>4 DEF WorkerCheck
  <2>2. wPc'[w] \in {"lock", "exited"}
    BY <1>4 DEF WorkerCheck, TypeOK
  <2>3. QED
    BY <1>3, <2>1, <2>2
<1>5. CASE WorkerLock(w)
  <2>1. wPc[w] # "run"
    BY <1>5 DEF WorkerLock
  <2>2. CASE wPc' = [wPc EXCEPT ![w] = "waiting"] /\ UNCHANGED <<taskQ, wHand, tSz>>
    <3>1. wPc'[w] = "waiting"
      BY <2>2 DEF TypeOK
    <3>2. QED
      BY <1>3, <2>1, <2>2, <3>1
  <2>3. QED
    BY <1>2, <1>5, <2>1, <2>2 DEF WorkerLock
<1>6. CASE WorkerNotified(w) \/ WorkerSpurious(w)
  BY <1>2, <1>6 DEF WorkerNotified, WorkerSpurious
<1>7. CASE WorkerRun(w)
  <2>1. /\ wHand' = [wHand EXCEPT ![w] = <<>>] /\ wPc' = [wPc EXCEPT ![w] = "check"]
        /\ taskQ' = taskQ
    BY <1>7 DEF WorkerRun
  <2>2. /\ wHand'[w] = <<>> /\ wPc'[w] = "check"
        /\ \A v \in Worker \ {w} : wHand'[v] = wHand[v]
    BY <2>1 DEF TypeOK
  <2>3. QED
    BY <2>1, <2>2
<1>8. QED
  BY <1>4, <1>5, <1>6, <1>7 DEF WorkerStep

\* A worker goes on having a task in hand exactly while it runs it.
LEMMA WorkersAtStep ==
  IInv /\ [Next]_vars => WorkersAt'
<1>0. SUFFICES ASSUME IInv, [Next]_vars
               PROVE  WorkersAt'
  OBVIOUS
<1>a. TypeOK /\ WorkersAt /\ QueryAt
  BY <1>0 DEF IInv
<1>1. CASE Caller
  <2>1. UNCHANGED <<wPc, wHand>>
    BY <1>1
    DEF Caller, CallerStep, DispatchTask, StartDispatch, WaitForCompletion,
        WaitBlock, WaitNotified, WaitSpurious, WaitReturn, Terminate, JoinQuery,
        StopWorker, NotifyWorker, JoinWorker, TerminateDone, workerVars
  <2>2. QED
    BY <1>a, <2>1 DEF WorkersAt
<1>2. CASE QuerySpawn
  <2>1. wHand' = wHand /\ wPc[qIdx] = "none" /\ wPc' = [wPc EXCEPT ![qIdx] = "check"]
    BY <1>a, <1>2 DEF QuerySpawn, QueryAt
  <2>2. DOMAIN wPc = Worker
    BY <1>a DEF TypeOK
  <2>3. \A w \in Worker :
          wPc'[w] = wPc[w] \/ (wPc[w] = "none" /\ wPc'[w] = "check")
    BY ONLY <2>1, <2>2
  <2>4. QED
    BY <1>a, <2>1, <2>3 DEF WorkersAt
<1>3. CASE Query /\ ~QuerySpawn
  <2>1. UNCHANGED <<wPc, wHand>>
    BY <1>3
    DEF Query, QueryCheck, QueryFeed, QueryPush, QueryFed, QueryCollect,
        QueryDeliver, QueryCollected, workerVars
  <2>2. QED
    BY <1>a, <2>1 DEF WorkersAt
<1>4. ASSUME NEW w \in Worker, WorkerStep(w) \/ WorkerSpurious(w)
      PROVE  WorkersAt'
  <2>1. /\ \A v \in Worker \ {w} : wHand'[v] = wHand[v] /\ wPc'[v] = wPc[v]
        /\ Len(wHand'[w]) = (IF wPc'[w] = "run" THEN 1 ELSE 0)
    BY <1>0, <1>a, <1>4, WorkerEffect, WorkerPc
  <2>2. QED
    BY <1>a, <2>1 DEF WorkersAt
<1>5. CASE UNCHANGED vars
  BY <1>a, <1>5 DEF vars, workerVars, WorkersAt
<1>6. QED
  BY <1>0, <1>1, <1>2, <1>3, <1>4, <1>5 DEF Next

\* The query thread goes on finding the task and the empty queue it has seen.
LEMMA QueryAtStep ==
  IInv /\ [Next]_vars => QueryAt'
<1>0. SUFFICES ASSUME IInv, [Next]_vars
               PROVE  QueryAt'
  OBVIOUS
<1>a. TypeOK /\ QueryAt /\ CallerAt /\ TypeOK'
  BY <1>0, TypeStep DEF IInv
<1>1. ASSUME UNCHANGED <<qPc, qIdx, qHand, sQ, taskQ, wPc>>
      PROVE  QueryAt'
  BY <1>a, <1>1 DEF QueryAt
<1>2. CASE DispatchTask
  <2>1. UNCHANGED <<qPc, qIdx, qHand, taskQ, wPc>> /\ qPc \notin {"spawn", "push"}
    BY <1>2 DEF DispatchTask, StFree, queryVars, workerVars
  <2>2. QED
    BY <1>a, <2>1 DEF QueryAt
<1>3. CASE StartDispatch
  <2>1. qPc = "off" /\ qPc' = "check" /\ UNCHANGED qHand
    BY <1>a, <1>3 DEF StartDispatch, CallerAt
  <2>2. QED
    BY <1>a, <2>1 DEF QueryAt
<1>4. CASE Caller /\ ~DispatchTask /\ ~StartDispatch
  <2>1. UNCHANGED <<qPc, qIdx, qHand, sQ, taskQ, wPc>>
    BY <1>4
    DEF Caller, CallerStep, WaitForCompletion, WaitBlock, WaitNotified,
        WaitSpurious, WaitReturn, Terminate, JoinQuery, StopWorker, NotifyWorker,
        JoinWorker, TerminateDone, poolVars, queryVars, workerVars
  <2>2. QED
    BY <1>1, <2>1
<1>5. CASE QueryCheck \/ QueryFed \/ QueryCollected
  <2>1. /\ qPc \in {"check", "feed", "collect"} /\ qHand' = qHand
        /\ qPc' \in {"feed", "exited", "collect", "check"}
    BY <1>5 DEF QueryCheck, QueryFed, QueryCollected
  <2>2. QED
    BY <1>a, <2>1 DEF QueryAt
<1>6. CASE QueryFeed
  <2>1. CASE Ready(qIdx) /\ sQ # <<>>
    <3>1. /\ qPc' = (IF wPc[qIdx] = "none" THEN "spawn" ELSE "push")
          /\ UNCHANGED <<qIdx, sQ, taskQ, wPc, qHand>>
          /\ qPc = "feed" /\ qIdx <= MaxThreads
      BY <1>6, <2>1 DEF QueryFeed, poolVars, workerVars
    <3>2. taskQ[qIdx] = <<>>
      <4>1. qIdx \in Worker
        BY <1>a, <3>1, PoolAssumption DEF TypeOK, Worker
      <4>2. taskQ[qIdx] \in Seq(TaskId) /\ Len(taskQ[qIdx]) \in Nat
        BY <1>a, <4>1, LenProperties DEF TypeOK
      <4>3. Len(taskQ[qIdx]) = 0
        BY <2>1, <4>2 DEF Ready, maxInQ
      <4>4. QED
        BY <4>2, <4>3, EmptySeq
    <3>3. QED
      BY <1>a, <2>1, <3>1, <3>2 DEF QueryAt
  <2>2. CASE ~(Ready(qIdx) /\ sQ # <<>>)
    <3>1. qPc' = "feed" /\ qPc = "feed" /\ qHand' = qHand
      BY <1>6, <2>2 DEF QueryFeed
    <3>2. QED
      BY <1>a, <3>1 DEF QueryAt
  <2>3. QED
    BY <2>1, <2>2
<1>7. CASE QuerySpawn
  <2>1. qPc = "spawn" /\ qPc' = "push" /\ UNCHANGED <<qIdx, sQ, taskQ, qHand>>
    BY <1>7 DEF QuerySpawn, poolVars
  <2>2. QED
    BY <1>a, <2>1 DEF QueryAt
<1>8. CASE QueryPush
  <2>1. qPc = "push" /\ qPc' = "feed" /\ qHand' = qHand
    BY <1>8 DEF QueryPush
  <2>2. QED
    BY <1>a, <2>1 DEF QueryAt
<1>9. CASE QueryCollect
  <2>1. CASE resultsQ[qIdx] # <<>>
    <3>1. /\ qPc' = "deliver" /\ qIdx' = qIdx /\ qIdx <= MaxThreads
          /\ qHand' = <<Head(resultsQ[qIdx])>>
      BY <1>9, <2>1 DEF QueryCollect
    <3>2. Len(qHand') = 1
      BY <3>1
    <3>3. QED
      BY <3>1, <3>2 DEF QueryAt
  <2>2. CASE resultsQ[qIdx] = <<>>
    <3>1. qPc' = "collect" /\ qPc = "collect" /\ qHand' = qHand
      BY <1>9, <2>2 DEF QueryCollect
    <3>2. QED
      BY <1>a, <3>1 DEF QueryAt
  <2>3. QED
    BY <2>1, <2>2
<1>10. CASE QueryDeliver
  <2>1. qPc' = "collect" /\ qHand' = <<>>
    BY <1>10 DEF QueryDeliver
  <2>2. QED
    BY <2>1 DEF QueryAt
<1>11. ASSUME NEW w \in Worker, WorkerStep(w) \/ WorkerSpurious(w)
       PROVE  QueryAt'
  <2>1. UNCHANGED <<qPc, qIdx, qHand, sQ>>
    BY <1>a, <1>11, WorkerPc DEF poolVars, queryVars
  <2>2. ASSUME qPc \in {"spawn", "push"}
        PROVE  taskQ'[qIdx] = <<>>
    <3>1. qIdx \in Worker /\ taskQ[qIdx] = <<>>
      BY <1>a, <2>2, PoolAssumption DEF QueryAt, TypeOK, Worker
    <3>2. /\ \A v \in Worker \ {w} : taskQ'[v] = taskQ[v]
          /\ taskQ[w] = <<>> => taskQ'[w] = <<>>
      BY <1>0, <1>11, WorkerEffect
    <3>3. QED
      BY <3>1, <3>2
  <2>3. ASSUME qPc = "spawn"
        PROVE  wPc'[qIdx] = "none"
    <3>1. qIdx \in Worker /\ wPc[qIdx] = "none"
      BY <1>a, <2>3, PoolAssumption DEF QueryAt, TypeOK, Worker
    <3>2. wPc[w] # "none" /\ \A v \in Worker \ {w} : wPc'[v] = wPc[v]
      BY <1>a, <1>11, WorkerPc
    <3>3. QED
      BY <3>1, <3>2
  <2>4. QED
    BY <1>a, <2>1, <2>2, <2>3 DEF QueryAt
<1>12. CASE UNCHANGED vars
  BY <1>1, <1>12 DEF vars, poolVars, queryVars, workerVars
<1>13. QED
  BY <1>0, <1>2, <1>3, <1>4, <1>5, <1>6, <1>7, <1>8, <1>9, <1>10, <1>11, <1>12
  DEF Next, Query

-----------------------------------------------------------------------------
(* The outcomes *)

\* The tasks whose results are in s.
IdSet(s) == {s[i].id : i \in DOMAIN s}

\* A result taken from a queue or put into one is the one that was there: a
\* queue whose results carry the codes of their tasks goes on doing so.
LEMMA CodesTail ==
  ASSUME NEW s \in Seq(Result), NEW codes, Codes(s, codes), s # <<>>
  PROVE  /\ Head(s) \in Result /\ codes[Head(s).id] = Head(s).rc
         /\ Codes(Tail(s), codes)
<1>1. /\ Head(s) \in Result /\ Head(s) = s[1] /\ 1 \in DOMAIN s
      /\ \A i \in DOMAIN Tail(s) : i + 1 \in DOMAIN s /\ Tail(s)[i] = s[i + 1]
  BY TailFacts
<1>2. QED
  BY <1>1 DEF Codes

LEMMA CodesAppend ==
  ASSUME NEW s \in Seq(Result), NEW codes, Codes(s, codes),
         NEW r \in Result, codes[r.id] = r.rc
  PROVE  Codes(Append(s, r), codes)
<1>1. /\ Len(s) \in Nat /\ DOMAIN s = 1 .. Len(s)
      /\ DOMAIN Append(s, r) = 1 .. Len(s) + 1
      /\ \A i \in 1 .. Len(s) : Append(s, r)[i] = s[i]
      /\ Append(s, r)[Len(s) + 1] = r
  BY AppendFacts
<1>2. \A i \in 1 .. Len(s) + 1 : i \in 1 .. Len(s) \/ i = Len(s) + 1
  BY <1>1
<1>3. QED
  BY <1>1, <1>2 DEF Codes

\* The code of a task that has no result in s yet does not matter to s.
LEMMA CodesOther ==
  ASSUME NEW s \in Seq(Result), NEW codes, Codes(s, codes), NEW t, NEW rc,
         t \notin IdSet(s), DOMAIN codes = TaskId
  PROVE  Codes(s, [codes EXCEPT ![t] = rc])
<1>1. \A i \in DOMAIN s : s[i] \in Result
  BY ElementOfSeq, LenProperties
<1>2. \A i \in DOMAIN s : s[i].id \in TaskId /\ s[i].id # t
  BY <1>1 DEF Result, IdSet
<1>3. QED
  BY <1>2 DEF Codes

\* The results are of tasks of the batch, and never of one that runs.
LEMMA ResultsOf ==
  ASSUME TypeOK, OneHolder, WorkersAt
  PROVE  /\ IdSet(resQ) \subseteq Batch /\ IdSet(qHand) \subseteq Batch
         /\ \A w \in Worker : IdSet(resultsQ[w]) \subseteq Batch
         /\ \A w \in Worker : wPc[w] = "run" =>
              /\ Head(wHand[w]) \notin IdSet(resQ) \cup IdSet(qHand)
              /\ \A v \in Worker : Head(wHand[w]) \notin IdSet(resultsQ[v])
<1> DEFINE Back == {RESQ, QHAND} \cup {RESULTSQ(w) : w \in Worker}
           At(p) == {Held[p][i] : i \in DOMAIN Held[p]}
<1>1. \A s : {Ids(s)[i] : i \in DOMAIN Ids(s)} = IdSet(s)
  BY DEF Ids, IdSet
<1>2. /\ At(RESQ) = IdSet(resQ) /\ At(QHAND) = IdSet(qHand)
      /\ \A w \in Worker : At(RESULTSQ(w)) = IdSet(resultsQ[w])
  BY <1>1, HeldFacts
<1>3. Back \subseteq DOMAIN Held /\ DOMAIN Held = Place
  BY HeldType, PlaceFacts
<1> HIDE DEF Back
<1>4. \A p \in Back : At(p) \subseteq Batch
  <2>1. \A p \in Back : At(p) \subseteq Carried(Held)
    BY ONLY <1>3 DEF Carried
  <2>2. QED
    BY <2>1 DEF OneHolder
<1>5. ASSUME NEW w \in Worker, wPc[w] = "run"
      PROVE  \A p \in Back : Head(wHand[w]) \notin At(p)
  <2>1. Head(wHand[w]) = wHand[w][1] /\ 1 \in DOMAIN wHand[w]
    <3>1. wHand[w] \in Seq(TaskId) /\ Len(wHand[w]) = 1
      BY <1>5 DEF TypeOK, WorkersAt
    <3>2. QED
      BY <3>1, OneElement
  <2>2. Held[WHAND(w)] = wHand[w] /\ WHAND(w) \in DOMAIN Held
    BY <1>3, HeldFacts, PlaceFacts
  <2>3. WHAND(w) \notin Back
    BY PlacesDiffer DEF WHAND, RESQ, QHAND, RESULTSQ, Back
  <2>4. Apart(Held)
    BY DEF OneHolder
  <2>5. \A p \in Back : \A i \in DOMAIN Held[p] : Held[p][i] # wHand[w][1]
    BY ONLY <1>3, <2>1, <2>2, <2>3, <2>4 DEF Apart
  <2>6. QED
    BY <2>1, <2>5
<1> HIDE DEF At
<1>6. RESQ \in Back /\ QHAND \in Back /\ \A w \in Worker : RESULTSQ(w) \in Back
  BY DEF Back
<1>7. QED
  BY <1>2, <1>4, <1>5, <1>6

\* A task that runs, or has no function, gets its code before any result of it
\* exists; later the result carries the code along.
LEMMA OutcomesStep ==
  IInv /\ [Next]_vars => Outcomes'
<1>0. SUFFICES ASSUME IInv, [Next]_vars
               PROVE  Outcomes'
  OBVIOUS
<1>a. TypeOK /\ OneHolder /\ WorkersAt /\ QueryAt /\ CallerAt /\ Outcomes /\ TypeOK'
  BY <1>0, TypeStep DEF IInv
<1>b. /\ resQ \in Seq(Result) /\ qHand \in Seq(Result)
      /\ \A w \in Worker : resultsQ[w] \in Seq(Result)
      /\ DOMAIN outcome = TaskId
      /\ DOMAIN resultsQ = Worker
      /\ Codes(resQ, outcome) /\ Codes(qHand, outcome)
      /\ \A w \in Worker : Codes(resultsQ[w], outcome)
  BY <1>a DEF TypeOK, Outcomes
<1>c. /\ IdSet(resQ) \subseteq Batch /\ IdSet(qHand) \subseteq Batch
      /\ \A w \in Worker : IdSet(resultsQ[w]) \subseteq Batch
      /\ \A w \in Worker : wPc[w] = "run" =>
           /\ Head(wHand[w]) \notin IdSet(resQ) \cup IdSet(qHand)
           /\ \A v \in Worker : Head(wHand[w]) \notin IdSet(resultsQ[v])
  BY <1>a, ResultsOf
<1>1. ASSUME UNCHANGED <<resQ, qHand, resultsQ, outcome>>
      PROVE  Outcomes'
  BY <1>a, <1>1 DEF Outcomes
<1>2. CASE DispatchTask
  <2>1. UNCHANGED <<qHand, resultsQ>>
    BY <1>2 DEF DispatchTask, queryVars, workerVars
  <2>2. CASE currentId \notin NullFunc
    <3>1. UNCHANGED <<resQ, outcome>>
      BY <1>2, <2>2 DEF DispatchTask
    <3>2. QED
      BY <1>1, <2>1, <3>1
  <2>3. CASE currentId \in NullFunc
    <3> DEFINE r == [id |-> currentId, rc |-> 1]
    <3>1. /\ resQ' = Append(resQ, r)
          /\ outcome' = [outcome EXCEPT ![currentId] = 1]
      BY <1>2, <2>3 DEF DispatchTask
    <3>2. currentId \in TaskId /\ currentId \notin Batch
      <4>1. currentId \in TaskId
        BY <1>a, <1>2, DispatchEffect
      <4>2. currentId \in Int /\ base \in Int
        BY <1>a, PoolAssumption DEF TypeOK
      <4>3. QED
        BY <4>1, <4>2 DEF Batch
    <3>3. r \in Result /\ outcome'[r.id] = r.rc
      BY <1>b, <3>1, <3>2 DEF Result, RC
    <3>4. /\ currentId \notin IdSet(resQ) /\ currentId \notin IdSet(qHand)
          /\ \A w \in Worker : currentId \notin IdSet(resultsQ[w])
      BY <1>c, <3>2
    <3>5. /\ Codes(resQ, outcome') /\ Codes(qHand, outcome')
          /\ \A w \in Worker : Codes(resultsQ[w], outcome')
      BY <1>b, <3>1, <3>4, CodesOther
    <3> HIDE DEF r
    <3>6. Codes(resQ', outcome')
      BY <1>b, <3>1, <3>3, <3>5, CodesAppend
    <3>7. QED
      BY <2>1, <3>5, <3>6 DEF Outcomes
  <2>4. QED
    BY <2>2, <2>3
<1>3. CASE WaitReturn
  <2>1. resQ' = <<>> /\ UNCHANGED <<qHand, resultsQ, outcome>>
    BY <1>3 DEF WaitReturn, queryVars, workerVars
  <2>2. Codes(resQ', outcome')
    BY <2>1 DEF Codes
  <2>3. QED
    BY <1>b, <2>1, <2>2 DEF Outcomes
<1>4. CASE Caller /\ ~DispatchTask /\ ~WaitReturn
  <2>1. UNCHANGED <<resQ, qHand, resultsQ, outcome>>
    BY <1>4
    DEF Caller, CallerStep, StartDispatch, WaitForCompletion, WaitBlock,
        WaitNotified, WaitSpurious, Terminate, JoinQuery, StopWorker,
        NotifyWorker, JoinWorker, TerminateDone, poolVars, queryVars, workerVars
  <2>2. QED
    BY <1>1, <2>1
<1>5. CASE Query /\ ~QueryCollect /\ ~QueryDeliver
  <2>1. UNCHANGED <<resQ, qHand, resultsQ, outcome>>
    BY <1>5
    DEF Query, QueryCheck, QueryFeed, QuerySpawn, QueryPush, QueryFed,
        QueryCollected, poolVars, workerVars
  <2>2. QED
    BY <1>1, <2>1
<1>6. CASE QueryCollect
  <2>1. CASE resultsQ[qIdx] # <<>>
    <3>1. /\ qHand' = <<Head(resultsQ[qIdx])>>
          /\ resultsQ' = [resultsQ EXCEPT ![qIdx] = Tail(resultsQ[qIdx])]
          /\ UNCHANGED <<resQ, outcome>> /\ qPc = "collect" /\ qIdx <= MaxThreads
      BY <1>6, <2>1 DEF QueryCollect, poolVars
    <3>2. qIdx \in Worker
      BY <1>a, <3>1, PoolAssumption DEF TypeOK, Worker
    <3>3. /\ outcome[Head(resultsQ[qIdx]).id] = Head(resultsQ[qIdx]).rc
          /\ Codes(Tail(resultsQ[qIdx]), outcome)
      BY <1>b, <2>1, <3>2, CodesTail
    <3>4. Codes(qHand', outcome)
      BY <3>1, <3>3 DEF Codes
    <3>5. \A w \in Worker : resultsQ'[w] = resultsQ[w]
                             \/ (w = qIdx /\ resultsQ'[w] = Tail(resultsQ[qIdx]))
      BY ONLY <1>b, <3>1
    <3>6. \A w \in Worker : Codes(resultsQ'[w], outcome)
      BY ONLY <1>b, <3>3, <3>5
    <3>7. QED
      BY <1>b, <3>1, <3>4, <3>6 DEF Outcomes
  <2>2. CASE resultsQ[qIdx] = <<>>
    <3>1. UNCHANGED <<resQ, qHand, resultsQ, outcome>>
      BY <1>6, <2>2 DEF QueryCollect, poolVars
    <3>2. QED
      BY <1>1, <3>1
  <2>3. QED
    BY <2>1, <2>2
<1>7. CASE QueryDeliver
  <2>1. qHand' = <<>> /\ UNCHANGED <<resultsQ, outcome>>
    BY <1>7 DEF QueryDeliver, workerVars
  <2>2. PICK r \in Result : qHand = <<r>> /\ resQ' = Append(resQ, r)
    BY <1>a, <1>7, DeliverEffect
  <2>3. outcome[r.id] = r.rc
    BY <1>b, <2>2 DEF Codes
  <2>4. Codes(resQ', outcome)
    BY <1>b, <2>2, <2>3, CodesAppend
  <2>5. Codes(qHand', outcome)
    BY <2>1 DEF Codes
  <2>6. QED
    BY <1>b, <2>1, <2>4, <2>5 DEF Outcomes
<1>8. ASSUME NEW w \in Worker, WorkerRun(w)
      PROVE  Outcomes'
  <2> DEFINE t == Head(wHand[w])
  <2>1. PICK rc \in RC :
          /\ resultsQ' = [resultsQ EXCEPT ![w] = Append(resultsQ[w], [id |-> t, rc |-> rc])]
          /\ outcome' = [outcome EXCEPT ![t] = rc]
    BY <1>8 DEF WorkerRun
  <2>2. wPc[w] = "run" /\ UNCHANGED <<resQ, qHand>>
    BY <1>8 DEF WorkerRun, poolVars, queryVars
  <2>3. t \in TaskId
    <3>1. wHand[w] \in Seq(TaskId) /\ Len(wHand[w]) = 1
      BY <1>a, <1>8, <2>2 DEF TypeOK, WorkersAt
    <3>2. QED
      BY <3>1, OneElement
  <2> DEFINE r == [id |-> t, rc |-> rc]
  <2>4. r \in Result /\ outcome'[r.id] = r.rc
    BY <1>b, <2>1, <2>3 DEF Result
  <2>5. /\ t \notin IdSet(resQ) /\ t \notin IdSet(qHand)
        /\ \A v \in Worker : t \notin IdSet(resultsQ[v])
    BY <1>c, <1>8, <2>2
  <2> HIDE DEF t
  <2>6. /\ Codes(resQ, outcome') /\ Codes(qHand, outcome')
        /\ \A v \in Worker : Codes(resultsQ[v], outcome')
    BY <1>b, <2>1, <2>5, CodesOther
  <2>7. resultsQ' = [resultsQ EXCEPT ![w] = Append(resultsQ[w], r)]
    BY <2>1
  <2> HIDE DEF r
  <2>8. Codes(Append(resultsQ[w], r), outcome')
    BY <1>b, <1>8, <2>4, <2>6, CodesAppend
  <2>9. \A v \in Worker : resultsQ'[v] = resultsQ[v]
                           \/ resultsQ'[v] = Append(resultsQ[w], r)
    BY ONLY <1>b, <2>7
  <2>10. \A v \in Worker : Codes(resultsQ'[v], outcome')
    BY ONLY <2>6, <2>8, <2>9
  <2>11. QED
    BY <2>2, <2>6, <2>10 DEF Outcomes
<1>9. ASSUME NEW w \in Worker, WorkerStep(w) \/ WorkerSpurious(w), ~WorkerRun(w)
      PROVE  Outcomes'
  <2>1. UNCHANGED <<resQ, qHand, resultsQ, outcome>>
    BY <1>9
    DEF WorkerStep, WorkerCheck, WorkerLock, WorkerNotified, WorkerSpurious,
        poolVars, queryVars
  <2>2. QED
    BY <1>1, <2>1
<1>10. CASE UNCHANGED vars
  BY <1>1, <1>10 DEF vars, poolVars, queryVars, workerVars
<1>11. QED
  BY <1>0, <1>2, <1>3, <1>4, <1>5, <1>6, <1>7, <1>8, <1>9, <1>10 DEF Next

-----------------------------------------------------------------------------
(* The theorems *)

\* With nothing dispatched every place is empty.
LEMMA InitInv ==
  Init => IInv
<1>0. SUFFICES ASSUME Init
               PROVE  IInv
  OBVIOUS
<1>1. TypeOK
  <2>1. /\ mPc = "dispatching" /\ mIdx = 1 /\ currentId = 0 /\ totalIn = 0
        /\ sQ = <<>> /\ resQ = <<>> /\ workersAlive = TRUE /\ failedIds = {}
        /\ endWake = FALSE /\ qPc = "off" /\ qIdx = 1 /\ qHand = <<>>
        /\ base = 0 /\ batches = 0
    BY <1>0 DEF Init
  <2>2. 0 \in 0 .. MaxTasks /\ 1 \in 1 .. MaxThreads + 1 /\ 0 \in 0 .. MaxBatches
    BY PoolAssumption
  <2>3. <<>> \in Seq(TaskId) /\ <<>> \in Seq(Result)
    OBVIOUS
  <2>4. /\ wPc \in [Worker -> {"none", "check", "lock", "waiting", "run", "exited"}]
        /\ finish \in [Worker -> BOOLEAN] /\ wWake \in [Worker -> BOOLEAN]
        /\ tSz \in [Worker -> Nat]
        /\ outcome \in [TaskId -> RC \cup {NotRun}]
    BY <1>0 DEF Init
  <2>5. taskQ \in [Worker -> Seq(TaskId)] /\ wHand \in [Worker -> Seq(TaskId)]
    BY <1>0, <2>3 DEF Init
  <2>6. resultsQ \in [Worker -> Seq(Result)]
    BY <1>0, <2>3 DEF Init
  <2>7. \A w \in Worker : Len(taskQ[w]) <= maxInQ
    BY <1>0 DEF Init, maxInQ
  <2>8. QED
    BY <2>1, <2>2, <2>3, <2>4, <2>5, <2>6, <2>7 DEF TypeOK
<1>2. OneHolder
  <2>1. Ids(<<>>) = <<>>
    BY DEF Ids
  <2>2. ASSUME NEW p \in DOMAIN Held
        PROVE  Held[p] = <<>>
    <3>1. p \in Place
      BY <1>1, HeldType
    <3>2. /\ sQ = <<>> /\ resQ = <<>> /\ qHand = <<>>
          /\ \A w \in Worker : taskQ[w] = <<>> /\ wHand[w] = <<>> /\ resultsQ[w] = <<>>
      BY <1>0 DEF Init
    <3>3. QED
      BY <1>1, <2>1, <3>1, <3>2, HeldFacts, PlaceFacts
  <2>3. Apart(Held) /\ Carried(Held) = {}
    BY <2>2 DEF Apart, Carried
  <2>4. Batch = {}
    BY <1>0 DEF Init, Batch
  <2>5. QED
    BY <2>3, <2>4 DEF OneHolder
<1>3. CallerAt
  BY <1>0 DEF Init, CallerAt
<1>4. QueryAt /\ WorkersAt
  BY <1>0 DEF Init, QueryAt, WorkersAt
<1>5. Outcomes
  BY <1>0 DEF Init, Outcomes, Codes
<1>6. QED
  BY <1>1, <1>2, <1>3, <1>4, <1>5 DEF IInv

\* The queues, the hands and the control of all threads stay in agreement, for
\* every number of workers and tasks.
THEOREM Invariance == Spec => []IInv
<1>1. Init => IInv
  BY InitInv
<1>2. IInv /\ [Next]_vars => IInv'
  BY TypeStep, OneHolderStep, CallerAtStep, QueryAtStep, WorkersAtStep, OutcomesStep
  DEF IInv
<1>3. QED
  BY <1>1, <1>2, PTL DEF Spec

\* queryThreads and threadFunc neither lose nor repeat a task, however the
\* threads interleave.
THEOREM NeitherLostNorRepeated == Spec => []OneHolder
<1>1. IInv => OneHolder
  BY DEF IInv
<1>2. QED
  BY Invariance, <1>1, PTL

\* No place holds anything when the batch is empty.
LEMMA EmptyBatch ==
  ASSUME TypeOK, OneHolder, base = currentId
  PROVE  /\ sQ = <<>> /\ qHand = <<>>
         /\ \A w \in Worker :
              taskQ[w] = <<>> /\ wHand[w] = <<>> /\ resultsQ[w] = <<>>
<1>1. Carried(Held) = {}
  BY PoolAssumption DEF OneHolder, Batch, TypeOK
<1>2. \A p \in DOMAIN Held : DOMAIN Held[p] = {}
  <2>1. ASSUME NEW p \in DOMAIN Held, NEW i \in DOMAIN Held[p]
        PROVE  Held[p][i] \in Carried(Held)
    BY DEF Carried
  <2>2. QED
    BY <1>1, <2>1
<1>3. ASSUME NEW S, NEW s \in Seq(S), DOMAIN s = {}
      PROVE  s = <<>>
  <2>1. Len(s) \in Nat /\ DOMAIN s = 1 .. Len(s)
    BY LenProperties
  <2>2. Len(s) = 0
    <3>1. ASSUME Len(s) > 0 PROVE FALSE
      <4>1. 1 \in DOMAIN s
        BY <2>1, <3>1
      <4>2. QED
        BY <1>3, <4>1
    <3>2. QED
      BY <2>1, <3>1
  <2>3. QED
    BY <2>2, EmptySeq
<1>4. \A p \in Place : DOMAIN Held[p] = {}
  BY <1>2, HeldType
<1>5. /\ DOMAIN sQ = {} /\ DOMAIN Ids(qHand) = {}
      /\ \A w \in Worker : /\ DOMAIN taskQ[w] = {} /\ DOMAIN wHand[w] = {}
                            /\ DOMAIN Ids(resultsQ[w]) = {}
  BY <1>4, HeldFacts, PlaceFacts
<1>6. DOMAIN qHand = {} /\ \A w \in Worker : DOMAIN resultsQ[w] = {}
  BY <1>5 DEF Ids
<1>7. /\ sQ \in Seq(TaskId) /\ qHand \in Seq(Result)
      /\ \A w \in Worker : /\ taskQ[w] \in Seq(TaskId) /\ wHand[w] \in Seq(TaskId)
                            /\ resultsQ[w] \in Seq(Result)
  BY DEF TypeOK
<1>8. sQ = <<>> /\ qHand = <<>>
  BY <1>3, <1>5, <1>6, <1>7
<1>9. ASSUME NEW w \in Worker
      PROVE  taskQ[w] = <<>> /\ wHand[w] = <<>> /\ resultsQ[w] = <<>>
  BY <1>3, <1>5, <1>6, <1>7
<1>10. QED
  BY <1>8, <1>9

\* terminate leaves no thread and no task behind.
THEOREM NothingLeftBehind == Spec => []NothingAbandoned
<1>1. ASSUME IInv, mPc = "done"
      PROVE  /\ qPc = "exited" /\ sQ = <<>> /\ qHand = <<>>
             /\ \A w \in Worker :
                  /\ wPc[w] \in {"none", "exited"}
                  /\ taskQ[w] = <<>> /\ wHand[w] = <<>> /\ resultsQ[w] = <<>>
  <2>1. TypeOK /\ OneHolder /\ CallerAt
    BY <1>1 DEF IInv
  <2>2. /\ base = currentId /\ qPc = "exited" /\ mIdx = MaxThreads + 1
        /\ \A w \in Worker : w < mIdx => wPc[w] \in {"none", "exited"}
    BY <1>1, <2>1 DEF CallerAt
  <2>3. \A w \in Worker : wPc[w] \in {"none", "exited"}
    BY <2>2, PoolAssumption DEF Worker
  <2>4. QED
    BY <2>1, <2>2, <2>3, EmptyBatch
<1>2. IInv => NothingAbandoned
  BY <1>1 DEF NothingAbandoned
<1>3. QED
  BY Invariance, <1>2, PTL

\* waitForCompletion reports exactly the tasks of its batch that failed.
THEOREM WaitReportsExactly == Spec => ReportExact
<1>1. ASSUME IInv, [Next]_vars, batches' # batches
      PROVE  /\ \A t \in Batch : outcome[t] # NotRun
             /\ failedIds' = {t \in Batch : outcome[t] = 1}
  <2>1. TypeOK /\ OneHolder /\ CallerAt /\ Outcomes
    BY <1>1 DEF IInv
  <2>2. WaitReturn
    <3>1. CASE Caller
      BY <1>1, <3>1
      DEF Caller, CallerStep, DispatchTask, StartDispatch, WaitForCompletion,
          WaitBlock, WaitNotified, WaitSpurious, Terminate, JoinQuery,
          StopWorker, NotifyWorker, JoinWorker, TerminateDone
    <3>2. CASE Query
      BY <1>1, <3>2
      DEF Query, QueryCheck, QueryFeed, QuerySpawn, QueryPush, QueryFed,
          QueryCollect, QueryDeliver, QueryCollected, callerVars
    <3>3. ASSUME NEW w \in Worker, WorkerStep(w) \/ WorkerSpurious(w)
          PROVE  FALSE
      BY <1>1, <2>1, <3>3, WorkerPc DEF callerVars
    <3>4. QED
      BY <1>1, <3>1, <3>2, <3>3 DEF Next, vars, callerVars
  <2>3. ~Outstanding /\ failedIds' = FailedIds
    BY <2>2 DEF WaitReturn
  <2>4. Batch = {resQ[i].id : i \in DOMAIN resQ}
    BY <2>1, <2>3, AllInMeansDone
  <2>5. \A i \in DOMAIN resQ : resQ[i].rc \in RC /\ outcome[resQ[i].id] = resQ[i].rc
    <3>1. \A i \in DOMAIN resQ : resQ[i] \in Result
      BY <2>1, ElementOfSeq, LenProperties DEF TypeOK
    <3>2. QED
      BY <2>1, <3>1 DEF Outcomes, Codes, Result
  <2>6. FailedIds = {resQ[i].id : i \in {j \in DOMAIN resQ : resQ[j].rc # 0}}
    BY DEF FailedIds, ToSet
  <2>7. \A t \in Batch : outcome[t] # NotRun
    BY <2>4, <2>5 DEF NotRun, RC
  <2>8. FailedIds = {t \in Batch : outcome[t] = 1}
    BY <2>4, <2>5, <2>6 DEF RC
  <2>9. QED
    BY <2>3, <2>7, <2>8
<1>2. IInv /\ [Next]_vars =>
        [batches' # batches =>
           /\ \A t \in Batch : outcome[t] # NotRun
           /\ failedIds' = {t \in Batch : outcome[t] = 1}]_vars
  BY <1>1
<1>3. QED
  BY Invariance, <1>2, PTL DEF Spec, ReportExact

-----------------------------------------------------------------------------
(* The pool implements the abstract class dispatch *)

\* What the caller sees of resQ when a result enters it.
LEMMA AppendedResult ==
  ASSUME TypeOK, NEW r \in Result, resQ' = Append(resQ, r)
  PROVE  /\ FinishedIds' = FinishedIds \cup {r.id}
         /\ FailedIds' = IF r.rc # 0 THEN FailedIds \cup {r.id} ELSE FailedIds
<1>1. /\ Len(resQ) \in Nat /\ DOMAIN resQ = 1 .. Len(resQ)
      /\ DOMAIN resQ' = 1 .. Len(resQ) + 1
      /\ \A i \in 1 .. Len(resQ) : resQ'[i] = resQ[i]
      /\ resQ'[Len(resQ) + 1] = r
  <2>1. resQ \in Seq(Result)
    BY DEF TypeOK
  <2>2. QED
    BY <2>1, AppendFacts
<1>2. \A i \in 1 .. Len(resQ) + 1 : i \in 1 .. Len(resQ) \/ i = Len(resQ) + 1
  BY <1>1
<1>3. Len(resQ) + 1 \in 1 .. Len(resQ) + 1 /\ 1 .. Len(resQ) \subseteq 1 .. Len(resQ) + 1
  BY <1>1
<1>4. ToSet(resQ') = ToSet(resQ) \cup {r}
  BY <1>1, <1>2, <1>3 DEF ToSet
<1>5. QED
  BY <1>4 DEF FinishedIds, FailedIds

\* When resQ, the identifiers and the phase stay, nothing has happened for the
\* abstract class.
LEMMA Unseen ==
  ASSUME UNCHANGED <<resQ, currentId, base, failedIds>>, Phase' = Phase
  PROVE  UNCHANGED Contract!vars
BY DEF Contract!vars, Batch, FinishedIds, FailedIds

\* Every step of the pool is a step of the abstract class, or none: a result is
\* finished once, when it enters resQ, and a wait returns with all of them.
LEMMA ContractStep ==
  IInv /\ IInv' /\ [Next]_vars => [Contract!Next]_(Contract!vars)
<1>0. SUFFICES ASSUME IInv, IInv', [Next]_vars
               PROVE  [Contract!Next]_(Contract!vars)
  OBVIOUS
<1>a. /\ TypeOK /\ TypeOK' /\ OneHolder /\ CallerAt /\ QueryAt /\ WorkersAt
      /\ currentId \in Nat /\ base \in Nat
  BY SMTT(30), <1>0, PoolAssumption DEF IInv, TypeOK
<1>1. CASE DispatchTask
  <2>1. /\ mPc \in {"dispatching", "started"} /\ currentId' = currentId + 1
        /\ UNCHANGED <<mPc, failedIds, base>>
    BY <1>1 DEF DispatchTask
  <2>2. currentId \in TaskId /\ base <= currentId
    BY <1>a, <1>1, DispatchEffect DEF CallerAt
  <2>3. /\ currentId \notin 0 .. currentId - 1
        /\ 0 .. currentId' - 1 = (0 .. currentId - 1) \cup {currentId}
        /\ Batch' = Batch \cup {currentId}
    BY <1>a, <2>1, <2>2 DEF Batch
  <2>4. Phase = "open" /\ Phase' = "open"
    BY <2>1 DEF Phase
  <2>5. CASE resQ' = resQ
    <3>1. FinishedIds' = FinishedIds /\ FailedIds' = FailedIds
      BY <2>5 DEF FinishedIds, FailedIds
    <3>2. Contract!DispatchTask(currentId)
      BY <2>1, <2>3, <2>4, <3>1 DEF Contract!DispatchTask
    <3>3. QED
      BY <2>2, <3>2 DEF Contract!Next
  <2>6. CASE resQ' # resQ
    <3> DEFINE r == [id |-> currentId, rc |-> 1]
    <3>1. resQ' = Append(resQ, r)
      BY <1>1, <2>6 DEF DispatchTask
    <3>2. r \in Result /\ r.id = currentId /\ r.rc # 0
      BY <2>2 DEF Result, RC
    <3> HIDE DEF r
    <3>3. /\ FinishedIds' = FinishedIds \cup {currentId}
          /\ FailedIds' = FailedIds \cup {currentId}
      BY <1>a, <3>1, <3>2, AppendedResult
    <3>4. Contract!RejectTask(currentId)
      BY <2>1, <2>3, <2>4, <3>3 DEF Contract!RejectTask
    <3>5. QED
      BY <2>2, <3>4 DEF Contract!Next
  <2>7. QED
    BY <2>5, <2>6
<1>2. CASE WaitForCompletion
  <2>1. /\ mPc = "started" /\ mPc' = "waiting"
        /\ UNCHANGED <<resQ, currentId, base, failedIds>>
    BY <1>2 DEF WaitForCompletion, poolVars
  <2>2. Contract!Wait
    BY <2>1 DEF Contract!Wait, Phase, Batch, FinishedIds, FailedIds
  <2>3. QED
    BY <2>2 DEF Contract!Next
<1>3. CASE WaitReturn
  <2>1. /\ mPc = "waiting" /\ mPc' = "started" /\ ~Outstanding
        /\ failedIds' = FailedIds /\ resQ' = <<>> /\ base' = currentId
        /\ currentId' = currentId
    BY <1>3 DEF WaitReturn
  <2>2. FinishedIds = Batch
    BY <1>a, <2>1, AllInMeansDone DEF FinishedIds, ToSet
  <2>3. Batch' = {}
    BY <1>a, <2>1 DEF Batch
  <2>4. FinishedIds' = {} /\ FailedIds' = {}
    BY <2>1 DEF FinishedIds, FailedIds, ToSet
  <2>5. Contract!Return
    BY <2>1, <2>2, <2>3, <2>4 DEF Contract!Return, Phase
  <2>6. QED
    BY <2>5 DEF Contract!Next
<1>4. CASE Terminate
  <2>1. /\ mPc = "started" /\ mPc' = "joinQuery"
        /\ UNCHANGED <<resQ, currentId, base, failedIds>>
    BY <1>4 DEF Terminate
  <2>2. Contract!End
    BY <2>1 DEF Contract!End, Phase, Batch, FinishedIds, FailedIds
  <2>3. QED
    BY <2>2 DEF Contract!Next
<1>5. CASE \/ StartDispatch \/ WaitBlock \/ WaitNotified \/ WaitSpurious
           \/ JoinQuery \/ StopWorker \/ NotifyWorker \/ JoinWorker \/ TerminateDone
  <2>1. /\ UNCHANGED <<resQ, currentId, base, failedIds>>
        /\ \/ mPc' = mPc
           \/ {mPc, mPc'} \subseteq {"dispatching", "started"}
           \/ {mPc, mPc'} \subseteq {"waiting", "blocked"}
           \/ {mPc, mPc'} \subseteq {"joinQuery", "stopWorker", "notifyWorker",
                                    "joinWorker", "done"}
    BY <1>5
    DEF StartDispatch, WaitBlock, WaitNotified, WaitSpurious, JoinQuery, StopWorker,
        NotifyWorker, JoinWorker, TerminateDone, poolVars
  <2>2. Phase' = Phase
    BY <2>1 DEF Phase
  <2>3. QED
    BY <2>1, <2>2, Unseen
<1>6. CASE QueryDeliver
  <2>1. PICK r \in Result : qHand = <<r>> /\ resQ' = Append(resQ, r)
    BY <1>a, <1>6, DeliverEffect
  <2>2. UNCHANGED <<mPc, currentId, base, failedIds>>
    BY <1>6 DEF QueryDeliver, callerVars
  <2>3. /\ FinishedIds' = FinishedIds \cup {r.id}
        /\ FailedIds' \in {FailedIds, FailedIds \cup {r.id}}
    BY <1>a, <2>1, AppendedResult
  <2>4. r.id \in Batch /\ r.id \notin FinishedIds
    <3>1. Held[QHAND] = Ids(qHand) /\ Held[RESQ] = Ids(resQ) /\ DOMAIN Held = Place
      BY <1>a, HeldFacts, HeldType
    <3>2. QHAND \in DOMAIN Held /\ RESQ \in DOMAIN Held /\ QHAND # RESQ
      BY <3>1, PlaceFacts, PlacesDiffer
    <3>3. 1 \in DOMAIN Ids(qHand) /\ Ids(qHand)[1] = r.id
      BY <2>1 DEF Ids
    <3>4. Apart(Held) /\ Carried(Held) = Batch
      BY <1>a DEF OneHolder
    <3>5. r.id \in Carried(Held)
      BY ONLY <3>1, <3>2, <3>3 DEF Carried
    <3>6. \A i \in DOMAIN Ids(resQ) : Ids(resQ)[i] # r.id
      BY ONLY <3>1, <3>2, <3>3, <3>4 DEF Apart
    <3>7. r.id \notin FinishedIds
      BY <3>6 DEF Ids, FinishedIds, ToSet
    <3>8. QED
      BY <3>4, <3>5, <3>7
  <2>5. Phase # "over" /\ Phase' = Phase
    <3>1. base # currentId
      BY <1>a, <2>4 DEF Batch
    <3>2. mPc \in {"dispatching", "started", "waiting", "blocked"}
      BY <1>a, <3>1 DEF CallerAt, TypeOK
    <3>3. QED
      BY <2>2, <3>2 DEF Phase
  <2>6. Contract!Finish(r.id)
    BY <2>2, <2>3, <2>4, <2>5 DEF Contract!Finish, Batch
  <2>7. r.id \in TaskId
    BY DEF Result
  <2>8. QED
    BY <2>6, <2>7 DEF Contract!Next
<1>7. CASE Query /\ ~QueryDeliver
  <2>1. UNCHANGED <<mPc, resQ, currentId, base, failedIds>>
    BY <1>7
    DEF Query, QueryCheck, QueryFeed, QuerySpawn, QueryPush, QueryFed,
        QueryCollect, QueryCollected, callerVars, poolVars
  <2>2. Phase' = Phase
    BY <2>1 DEF Phase
  <2>3. QED
    BY <2>1, <2>2, Unseen
<1>8. ASSUME NEW w \in Worker, WorkerStep(w) \/ WorkerSpurious(w)
      PROVE  UNCHANGED Contract!vars
  <2>1. UNCHANGED <<mPc, resQ, currentId, base, failedIds>>
    BY <1>a, <1>8, WorkerPc DEF callerVars, poolVars
  <2>2. Phase' = Phase
    BY <2>1 DEF Phase
  <2>3. QED
    BY <2>1, <2>2, Unseen
<1>9. CASE UNCHANGED vars
  <2>1. UNCHANGED <<mPc, resQ, currentId, base, failedIds>>
    BY <1>9 DEF vars, callerVars, poolVars
  <2>2. Phase' = Phase
    BY <2>1 DEF Phase
  <2>3. QED
    BY <2>1, <2>2, Unseen
<1>10. QED
  BY <1>0, <1>1, <1>2, <1>3, <1>4, <1>5, <1>6, <1>7, <1>8, <1>9
  DEF Next, Caller, CallerStep

\* threadPool keeps what the abstract class dispatch promises.
THEOREM Refinement == Spec => ImplementsDispatch
<1>1. Init => Contract!Init
  <2>1. SUFFICES ASSUME Init
                 PROVE  Contract!Init
    OBVIOUS
  <2>2. /\ mPc = "dispatching" /\ currentId = 0 /\ base = 0
        /\ resQ = <<>> /\ failedIds = {}
    BY <2>1 DEF Init
  <2>3. QED
    BY <2>2 DEF Contract!Init, Phase, Batch, FinishedIds, FailedIds, ToSet
<1>2. IInv /\ IInv' /\ [Next]_vars => [Contract!Next]_(Contract!vars)
  BY ContractStep
<1>3. QED
  BY Invariance, <1>1, <1>2, PTL DEF Spec, ImplementsDispatch, Contract!Spec
=============================================================================
