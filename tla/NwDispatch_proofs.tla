-------------------------- MODULE NwDispatch_proofs --------------------------
(***************************************************************************)
(* Proofs about NwDispatch, for any number of agents, tasks and batches.   *)
(***************************************************************************)
EXTENDS NwDispatch, QueueLemmas

-----------------------------------------------------------------------------
(* Type correctness *)

\* Every step of the caller, of the dispatch thread or of an agent leaves
\* the variables in their types, given what IInv says of the counters and of
\* busy agents.
LEMMA TypeStep ==
  IInv /\ [Next]_vars => TypeOK'
<1>0. SUFFICES ASSUME IInv, [Next]_vars
               PROVE  TypeOK'
  OBVIOUS
<1> TypeOK
  BY <1>0 DEF IInv
<1> USE DEF TypeOK, callerVars, sharedVars, serverVars, agentVars, netVars
<1>1. CASE StartDispatch
  BY <1>1 DEF StartDispatch
<1>2. CASE DispatchTask
  <2>1. taskId \in TaskId /\ taskId' \in 0 .. MaxTasks
    BY <1>2, NwAssumption DEF DispatchTask, TaskId
  <2>2. taskQ' \in Seq(TaskId)
    BY <1>2, <2>1, AppendProperties DEF DispatchTask
  <2>3. QED
    BY <1>2, <2>1, <2>2 DEF DispatchTask
<1>3. CASE CountTask
  <2>1. tasksDispatched' \in 0 .. MaxTasks
    BY <1>0, <1>3, NwAssumption DEF IInv, CountTask, Accounting, NextOut
  <2>2. QED
    BY <1>3, <2>1 DEF CountTask
<1>4. CASE WaitForCompletion
  BY <1>4 DEF WaitForCompletion
<1>5. CASE WaitBlock
  BY <1>5 DEF WaitBlock
<1>6. CASE WaitNotified
  BY <1>6 DEF WaitNotified
<1>7. CASE WaitSpurious
  BY <1>7 DEF WaitSpurious
<1>8. CASE WaitReturn
  <2>1. batches' \in 0 .. MaxBatches
    BY <1>0, <1>8, NwAssumption DEF IInv, WaitReturn, Accounting
  <2>2. failedIds' \subseteq TaskId
    <3>1. \A r \in ToSet(resultList) : r \in Result
      BY LenProperties, ElementOfSeq DEF ToSet
    <3>2. \A r \in Result : r.id \in TaskId
      BY DEF Result
    <3>3. QED
      BY <1>8, <3>1, <3>2 DEF WaitReturn, FailedIds
  <2>3. tasksDispatched' \in 0 .. MaxTasks /\ resultList' \in Seq(Result)
    BY <1>8, NwAssumption DEF WaitReturn
  <2>4. QED
    BY <1>8, <2>1, <2>2, <2>3 DEF WaitReturn
<1>9. CASE Terminate
  BY <1>9 DEF Terminate
<1>10. CASE JoinDispatch
  BY <1>10 DEF JoinDispatch
<1>11. CASE TerminateClient
  <2>1. toAgent' \in [Agents -> Seq(TaskId \cup {Term})]
    <3>1. PICK a \in closing : SendOk(a, Term) \/ UNCHANGED toAgent
      BY <1>11 DEF TerminateClient
    <3>2. Append(toAgent[a], Term) \in Seq(TaskId \cup {Term})
      BY AppendProperties
    <3>3. QED
      BY <3>1, <3>2 DEF SendOk
  <2>2. closing' \subseteq Agents /\ pc' \in {pc, "killed"}
    BY <1>11 DEF TerminateClient, SendFatal
  <2>3. QED
    BY <1>11, <2>1, <2>2 DEF TerminateClient
<1>12. CASE Exit
  BY <1>12 DEF Exit
<1>13. CASE CheckAlive
  BY <1>13 DEF CheckAlive
<1>14. CASE LookForNewClients
  BY <1>14 DEF LookForNewClients
<1>15. CASE HandleReads
  BY <1>15 DEF HandleReads
<1>16. CASE ReadResult
  <2>1. PICK a \in rdSet :
          /\ rdSet' = rdSet \ {a}
          /\ \/ /\ fromAgent[a] # <<>>
                /\ resultList' = Append(resultList, Head(fromAgent[a]))
                /\ endWake' = (endWake \/ (LastResult(Len(resultList')) /\ pc = "blocked"))
                /\ fromAgent' = [fromAgent EXCEPT ![a] = Tail(@)]
                /\ active' = active \ {a}
                /\ \E d \in 0 .. MaxDuration : took' = [took EXCEPT ![a] = d]
             \/ UNCHANGED <<resultList, endWake, fromAgent, active, took>>
    BY <1>16 DEF ReadResult
  <2>2. resultList' \in Seq(Result) /\ fromAgent' \in [Agents -> Seq(Result)]
    <3>1. CASE fromAgent[a] # <<>>
      <4>1. /\ Head(fromAgent[a]) \in Result
            /\ Tail(fromAgent[a]) \in Seq(Result)
        BY <3>1, HeadTailProperties
      <4>2. Append(resultList, Head(fromAgent[a])) \in Seq(Result)
        BY <4>1, AppendProperties
      <4>3. QED
        BY ZenonT(40), <2>1, <4>1, <4>2
    <3>2. CASE UNCHANGED <<resultList, fromAgent>>
      BY <3>2
    <3>3. QED
      BY <2>1, <3>1, <3>2
  <2>3. took' \in [Agents -> Fresh .. MaxDuration]
    <3>1. 0 .. MaxDuration \subseteq Fresh .. MaxDuration
      BY NwAssumption DEF Fresh
    <3>2. QED
      BY <2>1, <3>1
  <2>4. endWake' \in BOOLEAN
    BY <2>1
  <2>5. /\ dPc' \in {"writes", "reading"}
        /\ UNCHANGED <<callerVars, taskQ, clientList, cliVec, agentVars, toAgent>>
    BY <1>16 DEF ReadResult
  <2>6. QED
    BY <2>1, <2>2, <2>3, <2>4, <2>5
<1>17. CASE HandleWrites
  BY <1>17 DEF HandleWrites, Idle
<1>18. CASE WriteTask
  <2>1. PICK a \in cliVec :
          \/ /\ SendOk(a, Head(taskQ))
             /\ active' = active \cup {a}
             /\ cliVec' = cliVec \ {a}
             /\ taskQ' = Tail(taskQ)
             /\ UNCHANGED pc
          \/ SendFatal(a) /\ UNCHANGED <<toAgent, active, cliVec, taskQ>>
    BY <1>18 DEF WriteTask
  <2>2. taskQ # <<>>
    BY <1>18 DEF WriteTask
  <2>3. Head(taskQ) \in TaskId /\ Tail(taskQ) \in Seq(TaskId)
    BY <2>2, HeadTailProperties
  <2>4. toAgent' \in [Agents -> Seq(TaskId \cup {Term})]
    <3>1. Append(toAgent[a], Head(taskQ)) \in Seq(TaskId \cup {Term})
      BY <2>3, AppendProperties
    <3>2. QED
      BY <2>1, <3>1 DEF SendOk
  <2>5. taskQ' \in Seq(TaskId) /\ pc' \in {pc, "killed"}
    BY <2>1, <2>3 DEF SendFatal
  <2>6. active' \subseteq Agents /\ cliVec' \subseteq Agents
    BY <2>1
  <2>7. QED
    BY <1>18, <2>4, <2>5, <2>6 DEF WriteTask
<1>19. CASE WritesDone
  BY <1>19 DEF WritesDone
<1>20. ASSUME NEW a \in Agents, AgentConnect(a) PROVE TypeOK'
  BY <1>20 DEF AgentConnect
<1>21. ASSUME NEW a \in Agents, AgentReceive(a) PROVE TypeOK'
  <2>1. toAgent[a] \in Seq(TaskId \cup {Term}) /\ toAgent[a] # <<>>
    BY <1>21 DEF AgentReceive
  <2>2. /\ Tail(toAgent[a]) \in Seq(TaskId \cup {Term})
        /\ Head(toAgent[a]) \in TaskId \cup {Term}
    BY <2>1, HeadTailProperties
  <2>3. toAgent' \in [Agents -> Seq(TaskId \cup {Term})]
    BY <1>21, <2>2 DEF AgentReceive
  <2>4. running' \in [Agents -> Seq(TaskId)]
    <3>1. CASE Head(toAgent[a]) \in TaskId
      <4>1. <<Head(toAgent[a])>> \in Seq(TaskId)
        BY <3>1
      <4>2. QED
        BY ZenonT(60), <1>21, <4>1 DEF AgentReceive
    <3>2. CASE Head(toAgent[a]) = Term
      BY <1>21, <3>2 DEF AgentReceive, EndOfConnection
    <3>3. QED
      BY <2>2, <3>1, <3>2
  <2>5. aPc' \in [Agents -> {"off", "idle", "busy", "gone"}]
    BY <1>21 DEF AgentReceive
  <2>6. QED
    BY <1>21, <2>3, <2>4, <2>5 DEF AgentReceive
<1>22. ASSUME NEW a \in Agents, AgentFinish(a) PROVE TypeOK'
  <2>1. running[a] \in Seq(TaskId) /\ running[a] # <<>>
    BY <1>0, <1>22 DEF IInv, AgentFinish, OnePerAgent
  <2>2. Head(running[a]) \in TaskId
    BY <2>1, HeadTailProperties
  <2>3. PICK rc \in RC :
          /\ fromAgent' = [fromAgent EXCEPT ![a] =
                             Append(@, [id |-> Head(running[a]), rc |-> rc])]
          /\ outcome' = [outcome EXCEPT ![Head(running[a])] = rc]
    BY <1>22 DEF AgentFinish
  <2>4. [id |-> Head(running[a]), rc |-> rc] \in Result
    BY <2>2 DEF Result
  <2>5. fromAgent' \in [Agents -> Seq(Result)]
    BY <2>3, <2>4, AppendProperties
  <2>6. outcome' \in [TaskId -> RC \cup {NotRun}]
    BY <2>2, <2>3
  <2>7. running' \in [Agents -> Seq(TaskId)]
    BY <1>22 DEF AgentFinish
  <2>8. QED
    BY <1>22, <2>5, <2>6, <2>7 DEF AgentFinish
<1>23. ASSUME NEW a \in Agents, AgentEOF(a) PROVE TypeOK'
  BY <1>23 DEF AgentEOF
<1>24. ASSUME NEW a \in Agents, AgentCrash(a) PROVE TypeOK'
  <2>1. crashes' \in 0 .. MaxCrashes
    BY <1>24, NwAssumption DEF AgentCrash
  <2>2. QED
    BY <1>24, <2>1 DEF AgentCrash
<1>25. CASE UNCHANGED vars
  BY <1>25 DEF vars
<1>26. QED
  BY <1>0, <1>1, <1>2, <1>3, <1>4, <1>5, <1>6, <1>7, <1>8, <1>9, <1>10,
     <1>11, <1>12, <1>13, <1>14, <1>15, <1>16, <1>17, <1>18, <1>19, <1>20,
     <1>21, <1>22, <1>23, <1>24, <1>25
  DEF Next, Caller, CallerStep, Server, AgentStep

-----------------------------------------------------------------------------
(* Consequences of the inductive invariant *)

\* The lengths and the domains of the queues and of the messages.
LEMMA TypeFacts ==
  ASSUME TypeOK
  PROVE  /\ taskId \in Int /\ base \in Int /\ tasksDispatched \in Int
         /\ Len(taskQ) \in Nat /\ DOMAIN taskQ = 1 .. Len(taskQ)
         /\ Len(resultList) \in Nat /\ DOMAIN resultList = 1 .. Len(resultList)
         /\ \A i \in 1 .. Len(resultList) : resultList[i] \in Result
         /\ \A a \in Agents :
              /\ Len(toAgent[a]) \in Nat
              /\ Len(running[a]) \in Nat
              /\ Len(fromAgent[a]) \in Nat
<1>1. taskId \in Int /\ base \in Int /\ tasksDispatched \in Int
  BY NwAssumption DEF TypeOK
<1>2. /\ Len(taskQ) \in Nat /\ DOMAIN taskQ = 1 .. Len(taskQ)
      /\ Len(resultList) \in Nat /\ DOMAIN resultList = 1 .. Len(resultList)
  BY LenProperties DEF TypeOK
<1>3. \A i \in 1 .. Len(resultList) : resultList[i] \in Result
  BY ElementOfSeq DEF TypeOK
<1>4. ASSUME NEW a \in Agents
      PROVE  /\ Len(toAgent[a]) \in Nat
             /\ Len(running[a]) \in Nat
             /\ Len(fromAgent[a]) \in Nat
  BY LenProperties DEF TypeOK
<1>5. QED
  BY <1>1, <1>2, <1>3, <1>4

\* When the batch has been counted: with as many results as tasks dispatched
\* the queue is empty, every task of the batch has a result, and no agent
\* holds one.
LEMMA AllInMeansDone ==
  ASSUME IInv, tasksDispatched = taskId - base
  PROVE  /\ Len(resultList) <= tasksDispatched
         /\ AllIn(Len(resultList)) =>
              /\ taskQ = <<>>
              /\ \A t \in Batch : t \in ResultIds
              /\ \A a \in Agents, t \in TaskId : ~Holds(a, t)
<1> TypeOK
  BY DEF IInv
<1> DEFINE num == Len(resultList)
           ids == [i \in 1 .. num |-> resultList[i].id]
<1>1. /\ taskId \in Int /\ base \in Int /\ num \in Nat /\ Len(taskQ) \in Nat
      /\ DOMAIN resultList = 1 .. num
  BY TypeFacts
<1>2. base <= NextOut
  BY DEF IInv, Accounting
<1>3. NextOut = taskId - Len(taskQ) /\ NextOut \in Int
  BY <1>1 DEF NextOut
<1>4. ids \in [1 .. num -> base .. NextOut - 1]
  BY <1>1 DEF IInv, Custody
<1>5. \A i, j \in 1 .. num : ids[i] = ids[j] => i = j
  BY <1>1 DEF IInv, Custody
<1> HIDE DEF ids
<1>6. /\ num <= NextOut - base
      /\ num = NextOut - base =>
           \A t \in base .. NextOut - 1 : \E i \in 1 .. num : ids[i] = t
  <2> DEFINE top == NextOut - 1
  <2>1. top \in Int /\ base <= top + 1
    BY <1>2, <1>3, <1>1
  <2>2. top - base + 1 = NextOut - base
    BY <1>1, <1>3
  <2>3. ids \in [1 .. num -> base .. top]
    BY <1>4
  <2> HIDE DEF top, num
  <2>4. /\ num <= top - base + 1
        /\ num = top - base + 1 => \A t \in base .. top : \E i \in 1 .. num : ids[i] = t
    <3>1. base \in Int /\ num \in Nat
      BY <1>1
    <3>2. \A g \in [1 .. num -> base .. top] :
            (\A i, j \in 1 .. num : g[i] = g[j] => i = j) =>
              /\ num <= top - base + 1
              /\ num = top - base + 1 =>
                   \A t \in base .. top : \E i \in 1 .. num : g[i] = t
      BY ZenonT(40), <2>1, <3>1, DistinctInInterval
    <3>3. QED
      BY <3>2, <2>3, <1>5
  <2>5. QED
    BY <2>2, <2>4 DEF top
<1>7. num <= tasksDispatched
  BY <1>1, <1>2, <1>3, <1>6
<1>8. ASSUME num = tasksDispatched
      PROVE  /\ taskQ = <<>>
             /\ \A t \in Batch : t \in ResultIds
             /\ \A a \in Agents, t \in TaskId : ~Holds(a, t)
  <2>1. Len(taskQ) = 0 /\ num = NextOut - base /\ NextOut = taskId
    BY <1>1, <1>2, <1>3, <1>6, <1>8
  <2>2. taskQ = <<>>
    BY <2>1, EmptySeq DEF TypeOK
  <2>3. \A t \in Batch : t \in ResultIds
    BY <1>1, <1>6, <2>1 DEF Batch, ResultIds, ids
  <2>4. QED
    BY <2>1, <2>2, <2>3 DEF Batch, IInv, Custody
<1>9. QED
  BY <1>7, <1>8 DEF AllIn

\* A connection that carries no terminating message, to an agent that is not
\* active, is empty in both directions, and the agent runs nothing.
LEMMA IdleIsEmpty ==
  ASSUME IInv, NEW a \in Agents, a \notin active,
         ~(Len(toAgent[a]) = 1 /\ toAgent[a][1] = Term)
  PROVE  toAgent[a] = <<>> /\ running[a] = <<>> /\ fromAgent[a] = <<>>
<1> TypeOK
  BY DEF IInv
<1>1. /\ Len(toAgent[a]) \in Nat /\ Len(running[a]) \in Nat
      /\ Len(fromAgent[a]) \in Nat
  BY TypeFacts
<1>2. Len(toAgent[a]) + Len(running[a]) + Len(fromAgent[a]) <= 1
  BY DEF IInv, OnePerAgent, Load
<1>3. \A t \in TaskId : ~Holds(a, t)
  BY DEF IInv, OnePerAgent
<1>4. Len(toAgent[a]) # 1
  <2>1. Len(toAgent[a]) = 1 => toAgent[a][1] \in TaskId \cup {Term}
    <3>1. toAgent[a] \in Seq(TaskId \cup {Term})
      BY DEF TypeOK
    <3>2. QED
      BY <3>1, ElementOfSeq
  <2>2. QED
    BY <1>3, <2>1 DEF Holds
<1>5. Len(running[a]) # 1
  <2>1. Len(running[a]) = 1 => running[a][1] \in TaskId
    <3>1. running[a] \in Seq(TaskId)
      BY DEF TypeOK
    <3>2. QED
      BY <3>1, ElementOfSeq
  <2>2. QED
    BY <1>3, <2>1 DEF Holds
<1>6. Len(fromAgent[a]) # 1
  <2>1. Len(fromAgent[a]) = 1 => fromAgent[a][1].id \in TaskId
    <3>1. fromAgent[a] \in Seq(Result)
      BY DEF TypeOK
    <3>2. Len(fromAgent[a]) = 1 => fromAgent[a][1] \in Result
      BY <3>1, ElementOfSeq
    <3>3. QED
      BY <3>2 DEF Result
  <2>2. QED
    BY <1>3, <2>1 DEF Holds
<1>7. Len(toAgent[a]) = 0 /\ Len(running[a]) = 0 /\ Len(fromAgent[a]) = 0
  <2>1. \A x, y, z \in Nat :
          x + y + z <= 1 /\ x # 1 /\ y # 1 /\ z # 1 => x = 0 /\ y = 0 /\ z = 0
    OBVIOUS
  <2>2. QED
    BY <1>1, <1>2, <1>4, <1>5, <1>6, <2>1
<1>8. QED
  BY <1>7, EmptySeq DEF TypeOK

-----------------------------------------------------------------------------
(* The inductive invariant is preserved *)

\* The counters of the caller go on agreeing with the batch.
LEMMA AccountingStep ==
  IInv /\ [Next]_vars => Accounting'
<1>0. SUFFICES ASSUME IInv, [Next]_vars
               PROVE  Accounting'
  OBVIOUS
<1>a. TypeOK /\ Accounting
  BY <1>0 DEF IInv
<1>b. /\ taskId \in Int /\ base \in Int /\ tasksDispatched \in Int
      /\ Len(taskQ) \in Nat /\ Len(resultList) \in Nat
  BY <1>a, TypeFacts
<1>1. CASE DispatchTask
  <2>1. Len(taskQ') = Len(taskQ) + 1
    BY <1>1, <1>a, AppendProperties DEF DispatchTask, TypeOK
  <2>2. QED
    BY <1>1, <1>a, <1>b, <2>1 DEF DispatchTask, Accounting, NextOut
<1>2. CASE CountTask
  BY <1>2, <1>a, <1>b DEF CountTask, Accounting, NextOut, sharedVars
<1>3. CASE WaitReturn
  <2>1. tasksDispatched = taskId - base
    BY <1>3, <1>a DEF WaitReturn, Accounting
  <2>2. taskQ = <<>>
    BY <1>0, <1>3, <2>1, AllInMeansDone DEF WaitReturn
  <2>3. Len(taskQ) = 0
    BY <2>2
  <2>4. QED
    BY <1>3, <1>a, <1>b, <2>3 DEF WaitReturn, Accounting, NextOut
<1>4. CASE ReadResult
  <2>1. /\ UNCHANGED <<pc, taskId, taskQ, tasksDispatched, base, batches>>
        /\ \/ UNCHANGED <<resultList, endWake>>
           \/ endWake' = (endWake \/ (LastResult(Len(resultList')) /\ pc = "blocked"))
    BY <1>4 DEF ReadResult, callerVars
  <2>2. QED
    BY <1>a, <2>1 DEF Accounting, NextOut, LastResult
<1>5. CASE WriteTask
  <2>1. Len(taskQ') = Len(taskQ) - 1 \/ taskQ' = taskQ
    BY <1>5, <1>a, HeadTailProperties DEF WriteTask, TypeOK
  <2>2. pc' \in {pc, "killed"}
    BY <1>5 DEF WriteTask, SendFatal
  <2>3. UNCHANGED <<taskId, tasksDispatched, resultList, endWake, base, batches>>
    BY <1>5 DEF WriteTask
  <2>4. QED
    BY <1>a, <1>b, <2>1, <2>2, <2>3 DEF Accounting, NextOut
<1> USE DEF Accounting, NextOut, sharedVars
<1>6. CASE StartDispatch
  BY <1>6, <1>a DEF StartDispatch
<1>7. CASE WaitForCompletion
  BY <1>7, <1>a DEF WaitForCompletion
<1>8. CASE WaitBlock
  BY <1>8, <1>a, <1>b DEF WaitBlock, AllIn
<1>9. CASE WaitNotified \/ WaitSpurious
  BY <1>9, <1>a DEF WaitNotified, WaitSpurious
<1>10. CASE Terminate
  BY <1>10, <1>a DEF Terminate
<1>11. CASE JoinDispatch
  BY <1>11, <1>a DEF JoinDispatch
<1>12. CASE TerminateClient
  BY <1>12, <1>a DEF TerminateClient, SendFatal
<1>13. CASE Exit
  BY <1>13, <1>a DEF Exit
<1>14. ASSUME UNCHANGED <<pc, taskId, taskQ, tasksDispatched, resultList,
                          endWake, base, batches>>
       PROVE  Accounting'
  BY <1>14, <1>a
<1>15. CASE \/ CheckAlive \/ LookForNewClients \/ HandleReads \/ HandleWrites
            \/ WritesDone
  BY <1>14, <1>15
  DEF CheckAlive, LookForNewClients, HandleReads, HandleWrites, WritesDone,
      callerVars
<1>16. ASSUME NEW a \in Agents,
              AgentStep(a) \/ AgentConnect(a) \/ AgentCrash(a)
       PROVE  Accounting'
  BY <1>14, <1>16
  DEF AgentStep, AgentReceive, AgentFinish, AgentEOF, AgentConnect, AgentCrash,
      callerVars
<1>17. CASE UNCHANGED vars
  BY <1>14, <1>17 DEF vars, callerVars
<1>18. QED
  BY <1>0, <1>1, <1>2, <1>3, <1>4, <1>5, <1>6, <1>7, <1>8, <1>9, <1>10,
     <1>11, <1>12, <1>13, <1>15, <1>16, <1>17
  DEF Next, Caller, CallerStep, Server

\* A connection and its agent hold one message at most, so that the others
\* of the three places are empty.
LEMMA OneMessage ==
  ASSUME IInv, NEW a \in Agents
  PROVE  /\ toAgent[a] # <<>> =>
              Len(toAgent[a]) = 1 /\ Len(running[a]) = 0 /\ Len(fromAgent[a]) = 0
         /\ running[a] # <<>> =>
              Len(toAgent[a]) = 0 /\ Len(running[a]) = 1 /\ Len(fromAgent[a]) = 0
         /\ fromAgent[a] # <<>> =>
              Len(toAgent[a]) = 0 /\ Len(running[a]) = 0 /\ Len(fromAgent[a]) = 1
<1> TypeOK
  BY DEF IInv
<1>1. /\ Len(toAgent[a]) \in Nat /\ Len(running[a]) \in Nat
      /\ Len(fromAgent[a]) \in Nat
  BY TypeFacts
<1>2. Len(toAgent[a]) + Len(running[a]) + Len(fromAgent[a]) <= 1
  BY DEF IInv, OnePerAgent, Load
<1>3. /\ toAgent[a] # <<>> => Len(toAgent[a]) # 0
      /\ running[a] # <<>> => Len(running[a]) # 0
      /\ fromAgent[a] # <<>> => Len(fromAgent[a]) # 0
  BY EmptySeq DEF TypeOK
<1>4. \A x, y, z \in Nat : x + y + z <= 1 =>
        /\ x # 0 => x = 1 /\ y = 0 /\ z = 0
        /\ y # 0 => x = 0 /\ y = 1 /\ z = 0
        /\ z # 0 => x = 0 /\ y = 0 /\ z = 1
  OBVIOUS
<1>5. QED
  BY <1>1, <1>2, <1>3, <1>4

\* A task that is written goes to an agent that held nothing, and is the
\* first of the queue.
LEMMA WriteEffect ==
  ASSUME IInv, WriteTask, UNCHANGED pc
  PROVE  \E a \in cliVec :
           /\ Len(toAgent[a]) = 0 /\ Len(running[a]) = 0 /\ Len(fromAgent[a]) = 0
           /\ NextOut \in TaskId /\ NextOut' = NextOut + 1
           /\ toAgent' = [toAgent EXCEPT ![a] = <<NextOut>>]
           /\ active' = active \cup {a}
           /\ cliVec' = cliVec \ {a}
           /\ Len(taskQ') = Len(taskQ) - 1
           /\ \A i \in 1 .. Len(taskQ') : taskQ'[i] = NextOut' + i - 1
<1> TypeOK
  BY DEF IInv
<1>1. /\ taskId \in Int /\ base \in Int /\ Len(taskQ) \in Nat
      /\ DOMAIN taskQ = 1 .. Len(taskQ)
  BY TypeFacts
<1>2. Up /\ taskQ # <<>> /\ taskId' = taskId
  BY DEF WriteTask
<1>3. /\ Len(taskQ) # 0 /\ Head(taskQ) = taskQ[1] /\ Head(taskQ) \in TaskId
      /\ Tail(taskQ) \in Seq(TaskId) /\ Len(Tail(taskQ)) = Len(taskQ) - 1
      /\ \A i \in 1 .. Len(Tail(taskQ)) : Tail(taskQ)[i] = taskQ[i + 1]
  BY <1>2, HeadTailProperties, EmptySeq DEF TypeOK
<1>4. \A i \in 1 .. Len(taskQ) : taskQ[i] = NextOut + i - 1
  BY <1>1 DEF IInv, Custody
<1>5. Head(taskQ) = NextOut /\ NextOut \in Int
  BY <1>1, <1>3, <1>4 DEF NextOut
<1>6. pc # "killed"
  BY <1>2 DEF Up
<1>7. PICK a \in cliVec :
         /\ SendOk(a, Head(taskQ))
         /\ active' = active \cup {a}
         /\ cliVec' = cliVec \ {a}
         /\ taskQ' = Tail(taskQ)
  BY <1>6 DEF WriteTask, SendFatal
<1>8. a \in Agents /\ a \notin active
  BY DEF TypeOK, IInv, OnePerAgent
<1>9. ~(Len(toAgent[a]) = 1 /\ toAgent[a][1] = Term)
  <2>1. base # taskId
    BY <1>1, <1>3 DEF IInv, Accounting, NextOut
  <2>2. pc \notin {"closing", "exited", "killed"}
    BY <1>6, <2>1 DEF IInv, Accounting
  <2>3. QED
    BY <1>8, <2>2 DEF IInv, OnePerAgent
<1>10. toAgent[a] = <<>> /\ running[a] = <<>> /\ fromAgent[a] = <<>>
  BY <1>8, <1>9, IdleIsEmpty
<1>11. Append(toAgent[a], Head(taskQ)) = <<NextOut>>
  BY <1>5, <1>10
<1>12. toAgent' = [toAgent EXCEPT ![a] = <<NextOut>>]
  BY <1>7, <1>11 DEF SendOk
<1>13. Len(taskQ') = Len(taskQ) - 1 /\ NextOut' = NextOut + 1
  BY <1>1, <1>2, <1>3, <1>7 DEF NextOut
<1>14. \A i \in 1 .. Len(taskQ') : taskQ'[i] = NextOut' + i - 1
  BY <1>1, <1>3, <1>4, <1>5, <1>7, <1>13
<1>15. QED
  BY <1>3, <1>5, <1>7, <1>10, <1>12, <1>13, <1>14

\* An agent that takes a message from its connection, or answers, still
\* holds the same task.
LEMMA AgentKeepsTask ==
  ASSUME IInv, NEW a \in Agents, AgentReceive(a) \/ AgentFinish(a)
  PROVE  /\ \A b \in Agents : Load(b)' = Load(b)
         /\ \A b \in Agents, t \in TaskId : Holds(b, t)' <=> Holds(b, t)
<1> TypeOK
  BY DEF IInv
<1>1. CASE AgentReceive(a)
  <2>1. toAgent[a] # <<>>
    BY <1>1 DEF AgentReceive
  <2>2. Len(toAgent[a]) = 1 /\ Len(running[a]) = 0 /\ Len(fromAgent[a]) = 0
    BY <2>1, OneMessage
  <2>3. Head(toAgent[a]) = toAgent[a][1] /\ Len(Tail(toAgent[a])) = 0
    BY <2>1, <2>2, HeadTailProperties DEF TypeOK
  <2>4. \/ UNCHANGED <<toAgent, running, fromAgent>>
        \/ /\ toAgent' = [toAgent EXCEPT ![a] = Tail(@)]
           /\ running' = [running EXCEPT ![a] = <<Head(toAgent[a])>>]
           /\ fromAgent' = fromAgent
    BY <1>1 DEF AgentReceive
  <2>5. CASE UNCHANGED <<toAgent, running, fromAgent>>
    BY <2>5 DEF Holds, Load
  <2>6. CASE /\ toAgent' = [toAgent EXCEPT ![a] = Tail(@)]
             /\ running' = [running EXCEPT ![a] = <<Head(toAgent[a])>>]
             /\ fromAgent' = fromAgent
    <3>1. /\ toAgent'[a] = Tail(toAgent[a])
          /\ running'[a] = <<toAgent[a][1]>>
          /\ fromAgent'[a] = fromAgent[a]
      BY <2>3, <2>6 DEF TypeOK
    <3>2. \A b \in Agents \ {a} : /\ toAgent'[b] = toAgent[b]
                                  /\ running'[b] = running[b]
                                  /\ fromAgent'[b] = fromAgent[b]
      BY <2>6 DEF TypeOK
    <3>3. /\ Len(toAgent'[a]) = 0 /\ Len(fromAgent'[a]) = 0
          /\ Len(running'[a]) = 1 /\ running'[a][1] = toAgent[a][1]
      BY <2>2, <2>3, <3>1
    <3>4. /\ Load(a)' = Load(a)
          /\ \A t \in TaskId : Holds(a, t)' <=> Holds(a, t)
      BY <2>2, <3>3 DEF Holds, Load
    <3>5. \A b \in Agents \ {a} :
            /\ Load(b)' = Load(b)
            /\ \A t \in TaskId : Holds(b, t)' <=> Holds(b, t)
      BY <3>2 DEF Holds, Load
    <3>6. QED
      BY <3>4, <3>5
  <2>7. QED
    BY <2>4, <2>5, <2>6
<1>2. CASE AgentFinish(a)
  <2>1. running[a] # <<>>
    BY <1>2 DEF AgentFinish, IInv, OnePerAgent
  <2>2. Len(toAgent[a]) = 0 /\ Len(running[a]) = 1 /\ Len(fromAgent[a]) = 0
    BY <2>1, OneMessage
  <2>3. Head(running[a]) = running[a][1] /\ fromAgent[a] = <<>>
    BY <2>1, <2>2, EmptySeq DEF TypeOK
  <2>4. PICK rc \in RC :
          fromAgent' = [fromAgent EXCEPT ![a] =
                          Append(fromAgent[a], [id |-> running[a][1], rc |-> rc])]
    BY <1>2, <2>3 DEF AgentFinish
  <2>5. running' = [running EXCEPT ![a] = <<>>] /\ toAgent' = toAgent
    BY <1>2 DEF AgentFinish
  <2>6. /\ toAgent'[a] = toAgent[a]
        /\ running'[a] = <<>>
        /\ fromAgent'[a] = <<[id |-> running[a][1], rc |-> rc]>>
    BY <2>3, <2>4, <2>5 DEF TypeOK
  <2>7. \A b \in Agents \ {a} : /\ toAgent'[b] = toAgent[b]
                                /\ running'[b] = running[b]
                                /\ fromAgent'[b] = fromAgent[b]
    BY <2>4, <2>5 DEF TypeOK
  <2>8. /\ Len(running'[a]) = 0 /\ Len(fromAgent'[a]) = 1
        /\ fromAgent'[a][1].id = running[a][1]
    BY <2>6
  <2>9. /\ Load(a)' = Load(a)
        /\ \A t \in TaskId : Holds(a, t)' <=> Holds(a, t)
    BY <2>2, <2>6, <2>8 DEF Holds, Load
  <2>10. \A b \in Agents \ {a} :
           /\ Load(b)' = Load(b)
           /\ \A t \in TaskId : Holds(b, t)' <=> Holds(b, t)
    BY <2>7 DEF Holds, Load
  <2>11. QED
    BY <2>9, <2>10
<1>3. QED
  BY <1>1, <1>2

\* Writing the first task of the queue to agent a gives it that task, and
\* changes nothing for the others.
LEMMA WriteHolds ==
  ASSUME IInv, NEW a \in Agents,
         Len(toAgent[a]) = 0, Len(running[a]) = 0, Len(fromAgent[a]) = 0,
         NEW m \in TaskId \cup {Term},
         toAgent' = [toAgent EXCEPT ![a] = <<m>>],
         UNCHANGED <<running, fromAgent>>
  PROVE  /\ Load(a)' = 1
         /\ \A b \in Agents \ {a} : Load(b)' = Load(b)
         /\ \A b \in Agents, t \in TaskId :
              Holds(b, t)' <=> Holds(b, t) \/ (b = a /\ t = m)
<1> TypeOK
  BY DEF IInv
<1>1. /\ toAgent'[a] = <<m>> /\ running'[a] = running[a]
      /\ fromAgent'[a] = fromAgent[a]
  BY DEF TypeOK
<1>2. \A b \in Agents \ {a} : /\ toAgent'[b] = toAgent[b]
                              /\ running'[b] = running[b]
                              /\ fromAgent'[b] = fromAgent[b]
  BY DEF TypeOK
<1>3. /\ Len(toAgent'[a]) = 1 /\ toAgent'[a][1] = m
      /\ Len(running'[a]) = 0 /\ Len(fromAgent'[a]) = 0
  BY <1>1
<1>4. /\ Load(a)' = 1
      /\ \A t \in TaskId : Holds(a, t)' <=> Holds(a, t) \/ t = m
  <2>1. Load(a)' = 1
    BY ONLY <1>3 DEF Load
  <2>2. ASSUME NEW t \in TaskId PROVE Holds(a, t)' <=> t = m
    BY <1>3 DEF Holds
  <2>3. ASSUME NEW t \in TaskId PROVE ~Holds(a, t)
    BY DEF Holds
  <2>4. QED
    BY <2>1, <2>2, <2>3
<1>5. \A b \in Agents \ {a} :
        /\ Load(b)' = Load(b)
        /\ \A t \in TaskId : Holds(b, t)' <=> Holds(b, t)
  BY <1>2 DEF Holds, Load
<1>6. QED
  BY <1>4, <1>5

\* Reading a result takes the task from the agent that held it and puts it
\* at the end of resultList, or changes neither.
LEMMA ReadEffect ==
  ASSUME IInv, ReadResult
  PROVE  \/ UNCHANGED <<resultList, fromAgent, active>>
         \/ \E a \in Agents, r \in Result :
              /\ Len(fromAgent[a]) = 1 /\ r = fromAgent[a][1]
              /\ \A t \in TaskId : Holds(a, t) <=> t = r.id
              /\ active' = active \ {a}
              /\ Len(resultList') = Len(resultList) + 1
              /\ \A i \in 1 .. Len(resultList) : resultList'[i] = resultList[i]
              /\ resultList'[Len(resultList) + 1] = r
              /\ Load(a)' = 0
              /\ fromAgent' = [fromAgent EXCEPT ![a] = <<>>]
              /\ \A b \in Agents \ {a} : Load(b)' = Load(b)
              /\ \A b \in Agents, t \in TaskId :
                   Holds(b, t)' <=> Holds(b, t) /\ b # a
<1> TypeOK
  BY DEF IInv
<1>1. SUFFICES ASSUME ~UNCHANGED <<resultList, fromAgent, active>>
               PROVE  \E a \in Agents, r \in Result :
              /\ Len(fromAgent[a]) = 1 /\ r = fromAgent[a][1]
              /\ \A t \in TaskId : Holds(a, t) <=> t = r.id
              /\ active' = active \ {a}
              /\ Len(resultList') = Len(resultList) + 1
              /\ \A i \in 1 .. Len(resultList) : resultList'[i] = resultList[i]
              /\ resultList'[Len(resultList) + 1] = r
              /\ Load(a)' = 0
              /\ fromAgent' = [fromAgent EXCEPT ![a] = <<>>]
              /\ \A b \in Agents \ {a} : Load(b)' = Load(b)
              /\ \A b \in Agents, t \in TaskId :
                   Holds(b, t)' <=> Holds(b, t) /\ b # a
  OBVIOUS
<1>2. PICK a \in rdSet :
         /\ fromAgent[a] # <<>>
         /\ resultList' = Append(resultList, Head(fromAgent[a]))
         /\ fromAgent' = [fromAgent EXCEPT ![a] = Tail(@)]
         /\ active' = active \ {a}
  BY <1>1 DEF ReadResult
<1>3. a \in Agents /\ UNCHANGED <<toAgent, running>>
  BY DEF ReadResult, agentVars, TypeOK
<1>4. Len(toAgent[a]) = 0 /\ Len(running[a]) = 0 /\ Len(fromAgent[a]) = 1
  BY <1>2, <1>3, OneMessage
<1>5. /\ Head(fromAgent[a]) = fromAgent[a][1] /\ Head(fromAgent[a]) \in Result
      /\ Tail(fromAgent[a]) \in Seq(Result) /\ Len(Tail(fromAgent[a])) = 0
  BY <1>2, <1>3, <1>4, HeadTailProperties DEF TypeOK
<1>6. Tail(fromAgent[a]) = <<>>
  BY <1>5, EmptySeq
<1>7. /\ Len(resultList') = Len(resultList) + 1
      /\ \A i \in 1 .. Len(resultList) : resultList'[i] = resultList[i]
      /\ resultList'[Len(resultList) + 1] = fromAgent[a][1]
  BY <1>2, <1>5, AppendProperties DEF TypeOK
<1>8. /\ toAgent'[a] = toAgent[a] /\ running'[a] = running[a]
      /\ fromAgent'[a] = <<>>
  BY <1>2, <1>3, <1>6 DEF TypeOK
<1>9. \A b \in Agents \ {a} : /\ toAgent'[b] = toAgent[b]
                              /\ running'[b] = running[b]
                              /\ fromAgent'[b] = fromAgent[b]
  BY <1>2, <1>3 DEF TypeOK
<1>10. Load(a)' = 0 /\ \A t \in TaskId : ~Holds(a, t)'
  <2>1. Len(toAgent'[a]) = 0 /\ Len(running'[a]) = 0 /\ Len(fromAgent'[a]) = 0
    BY <1>4, <1>8
  <2>2. QED
    BY <2>1 DEF Load, Holds
<1>11. \A b \in Agents \ {a} :
         /\ Load(b)' = Load(b)
         /\ \A t \in TaskId : Holds(b, t)' <=> Holds(b, t)
  BY <1>9 DEF Holds, Load
<1>12. \A t \in TaskId : Holds(a, t) <=> t = fromAgent[a][1].id
  BY <1>4 DEF Holds
<1>13. fromAgent' = [fromAgent EXCEPT ![a] = <<>>]
  BY <1>2, <1>6
<1>14. \A b \in Agents, t \in TaskId : Holds(b, t)' <=> Holds(b, t) /\ b # a
  BY <1>10, <1>11
<1>15. fromAgent[a][1] \in Result
  BY <1>5
<1>16. QED
  BY <1>2, <1>3, <1>4, <1>7, <1>10, <1>11, <1>12, <1>13, <1>14, <1>15

\* Between batches the queue is empty and no agent holds a task.
LEMMA BetweenBatches ==
  ASSUME IInv, base = taskId
  PROVE  /\ Len(taskQ) = 0
         /\ \A a \in Agents, t \in TaskId : ~Holds(a, t)
         /\ \A a \in Agents : a \notin active
<1> TypeOK
  BY DEF IInv
<1>1. taskId \in Int /\ base \in Int /\ Len(taskQ) \in Nat
  BY TypeFacts
<1>2. Len(taskQ) = 0
  BY <1>1 DEF IInv, Accounting, NextOut
<1>3. \A a \in Agents, t \in TaskId : ~Holds(a, t)
  BY <1>1, <1>2 DEF IInv, Custody, NextOut
<1>4. \A a \in Agents : a \notin active
  BY <1>3 DEF IInv, OnePerAgent
<1>5. QED
  BY <1>2, <1>3, <1>4

\* The terminating message goes to an agent that holds nothing.
LEMMA TerminateEffect ==
  ASSUME IInv, TerminateClient, UNCHANGED pc
  PROVE  \E a \in closing :
           /\ closing' = closing \ {a}
           /\ Len(toAgent[a]) = 0 /\ Len(running[a]) = 0 /\ Len(fromAgent[a]) = 0
           /\ toAgent' = [toAgent EXCEPT ![a] = <<Term>>]
<1> TypeOK
  BY DEF IInv
<1>1. pc = "closing"
  BY DEF TerminateClient
<1>2. base = taskId
  BY <1>1 DEF IInv, Accounting
<1>3. PICK a \in closing : closing' = closing \ {a} /\ SendOk(a, Term)
  BY <1>1 DEF TerminateClient, SendFatal
<1>4. a \in Agents /\ a \notin active
  BY <1>2, BetweenBatches DEF TypeOK
<1>5. ~(Len(toAgent[a]) = 1 /\ toAgent[a][1] = Term)
  BY <1>4 DEF IInv, OnePerAgent
<1>6. toAgent[a] = <<>> /\ running[a] = <<>> /\ fromAgent[a] = <<>>
  BY <1>4, <1>5, IdleIsEmpty
<1>7. Append(toAgent[a], Term) = <<Term>>
  BY <1>6
<1>8. QED
  BY <1>3, <1>6, <1>7 DEF SendOk

\* A step keeps track of every task: what leaves the queue is with one agent,
\* what leaves an agent is a result.
LEMMA CustodyStep ==
  IInv /\ [Next]_vars => Custody'
<1>0. SUFFICES ASSUME IInv, [Next]_vars
               PROVE  Custody'
  OBVIOUS
<1>a. TypeOK /\ Accounting /\ Custody /\ TypeOK' /\ Accounting'
  BY <1>0, TypeStep, AccountingStep DEF IInv
<1>b. /\ taskId \in Int /\ base \in Int
      /\ Len(taskQ) \in Nat /\ DOMAIN taskQ = 1 .. Len(taskQ)
      /\ Len(resultList) \in Nat /\ DOMAIN resultList = 1 .. Len(resultList)
      /\ NextOut \in Int /\ base <= NextOut
  BY <1>a, TypeFacts DEF NextOut, Accounting
<1>d. base .. NextOut - 1 \subseteq TaskId
  <2>1. 0 <= base /\ taskId <= MaxTasks /\ MaxTasks \in Nat
    BY <1>a, NwAssumption DEF TypeOK
  <2>2. QED
    BY <1>b, <2>1 DEF TaskId, NextOut
<1>c. DOMAIN taskQ' = 1 .. Len(taskQ') /\ Len(taskQ') \in Nat
  BY <1>a, LenProperties DEF TypeOK
<1>1. ASSUME UNCHANGED <<taskId, taskQ, base, resultList, toAgent, running,
                         fromAgent>>
      PROVE  Custody'
  BY <1>1, <1>a DEF Custody, NextOut, ResultIds, Holds
<1>2. CASE DispatchTask
  <2>1. /\ Len(taskQ') = Len(taskQ) + 1 /\ taskId' = taskId + 1
        /\ \A i \in 1 .. Len(taskQ) : taskQ'[i] = taskQ[i]
        /\ taskQ'[Len(taskQ) + 1] = taskId
    BY <1>2, <1>a, <1>b, AppendProperties DEF DispatchTask, TypeOK, TaskId
  <2>2. UNCHANGED <<base, resultList, toAgent, running, fromAgent>>
    BY <1>2 DEF DispatchTask, netVars, agentVars
  <2>3. NextOut' = NextOut
    BY <1>b, <2>1 DEF NextOut
  <2>4. \A i \in 1 .. Len(taskQ) : taskQ[i] = NextOut + i - 1
    BY <1>a, <1>b DEF Custody
  <2>5. \A i \in 1 .. Len(taskQ') : taskQ'[i] = NextOut' + i - 1
    BY <1>b, <2>1, <2>3, <2>4 DEF NextOut
  <2>6. QED
    BY <1>a, <1>c, <2>2, <2>3, <2>5 DEF Custody, ResultIds, Holds
<1>3. CASE WaitReturn
  <2>1. tasksDispatched = taskId - base /\ AllIn(Len(resultList))
    BY <1>3, <1>a DEF WaitReturn, Accounting
  <2>2. taskQ = <<>> /\ \A a \in Agents, t \in TaskId : ~Holds(a, t)
    BY <1>0, <2>1, AllInMeansDone
  <2>3. /\ base' = taskId /\ taskId' = taskId /\ resultList' = <<>>
        /\ UNCHANGED <<taskQ, toAgent, running, fromAgent>>
    BY <1>3 DEF WaitReturn, netVars, agentVars
  <2>4. \A a \in Agents, t \in TaskId : ~Holds(a, t)'
    BY <2>2, <2>3 DEF Holds
  <2>5. Len(taskQ') = 0 /\ NextOut' = taskId
    BY <1>b, <2>2, <2>3 DEF NextOut
  <2>6. base' .. NextOut' - 1 = {}
    BY <1>b, <2>3, <2>5
  <2>7. DOMAIN resultList' = {} /\ DOMAIN taskQ' = {}
    BY <2>2, <2>3
  <2>8. QED
    BY <2>4, <2>6, <2>7 DEF Custody
<1>4. CASE WriteTask
  <2>1. CASE pc' # pc
    <3>1. UNCHANGED <<taskId, taskQ, base, resultList, toAgent, running, fromAgent>>
      BY <1>4, <2>1 DEF WriteTask, agentVars
    <3>2. QED
      BY <3>1, <1>1
  <2>2. CASE pc' = pc
    <3>1. PICK a \in cliVec, h \in TaskId :
            /\ Len(toAgent[a]) = 0 /\ Len(running[a]) = 0 /\ Len(fromAgent[a]) = 0
            /\ h = NextOut /\ NextOut' = h + 1
            /\ toAgent' = [toAgent EXCEPT ![a] = <<h>>]
            /\ \A i \in 1 .. Len(taskQ') : taskQ'[i] = NextOut' + i - 1
      BY <1>0, <1>4, <2>2, WriteEffect
    <3>2. a \in Agents /\ UNCHANGED <<base, resultList, running, fromAgent>>
      BY <1>4, <1>a DEF WriteTask, agentVars, TypeOK
    <3>3. \A b \in Agents, t \in TaskId :
            Holds(b, t)' <=> Holds(b, t) \/ (b = a /\ t = h)
      BY <1>0, <3>1, <3>2, WriteHolds
    <3>4. ResultIds' = ResultIds /\ h \notin ResultIds
      BY <1>a, <1>b, <3>1, <3>2 DEF ResultIds, Custody
    <3>5. \A b \in Agents : ~Holds(b, h)
      BY <1>a, <1>b, <3>1 DEF Custody
    <3>6. base .. NextOut' - 1 = (base .. NextOut - 1) \cup {h}
      BY <1>b, <3>1
    <3>7. \A b \in Agents, t \in TaskId :
            Holds(b, t)' => t \in base .. NextOut' - 1 /\ t \notin ResultIds
      BY <1>a, <3>3, <3>4, <3>6 DEF Custody
    <3>8. \A b, c \in Agents, t \in TaskId : Holds(b, t)' /\ Holds(c, t)' => b = c
      BY <1>a, <3>3, <3>5 DEF Custody
    <3>9. \A t \in base .. NextOut' - 1 :
            t \in ResultIds \/ \E b \in Agents : Holds(b, t)'
      <4>1. \A t \in base .. NextOut - 1 :
              t \in TaskId /\ (t \in ResultIds \/ \E b \in Agents : Holds(b, t))
        BY <1>a, <1>d DEF Custody
      <4>2. Holds(a, h)'
        BY <3>2, <3>3
      <4>3. QED
        BY <3>2, <3>3, <3>6, <4>1, <4>2
    <3>10. \A i \in DOMAIN resultList' : resultList'[i].id \in base .. NextOut' - 1
      BY <1>a, <3>2, <3>6 DEF Custody
    <3>11. QED
      BY <1>a, <1>c, <3>1, <3>2, <3>4, <3>7, <3>8, <3>9, <3>10 DEF Custody
  <2>3. QED
    BY <2>1, <2>2
<1>5. CASE ReadResult
  <2>1. UNCHANGED <<taskId, taskQ, base, toAgent, running>>
    BY <1>5 DEF ReadResult, callerVars, agentVars
  <2>2. CASE UNCHANGED <<resultList, fromAgent, active>>
    BY <2>1, <2>2, <1>1
  <2>3. CASE ~UNCHANGED <<resultList, fromAgent, active>>
    <3>1. PICK a \in Agents, r \in Result :
            /\ \A t \in TaskId : Holds(a, t) <=> t = r.id
            /\ Len(resultList') = Len(resultList) + 1
            /\ \A i \in 1 .. Len(resultList) : resultList'[i] = resultList[i]
            /\ resultList'[Len(resultList) + 1] = r
            /\ \A b \in Agents, t \in TaskId :
                 Holds(b, t)' <=> Holds(b, t) /\ b # a
      BY <1>0, <1>5, <2>3, ReadEffect
    <3>2. r.id \in TaskId /\ NextOut' = NextOut
      BY <2>1 DEF Result, NextOut
    <3>3. DOMAIN resultList' = 1 .. Len(resultList) + 1
      BY <1>a, <3>1, LenProperties DEF TypeOK
    <3>4. r.id \in base .. NextOut - 1 /\ r.id \notin ResultIds
      BY <1>a, <3>1, <3>2 DEF Custody
    <3>5. ResultIds' = ResultIds \cup {r.id}
      BY <1>b, <3>1, <3>3 DEF ResultIds
    <3>6. \A i \in DOMAIN resultList' : resultList'[i].id \in base .. NextOut - 1
      BY <1>a, <1>b, <3>1, <3>3, <3>4 DEF Custody
    <3>7. \A i \in 1 .. Len(resultList) : resultList[i].id # r.id
      BY <1>b, <3>4 DEF ResultIds
    <3>8. \A i, j \in DOMAIN resultList' :
            resultList'[i].id = resultList'[j].id => i = j
      BY <1>a, <1>b, <3>1, <3>3, <3>7 DEF Custody
    <3>9. \A b \in Agents, t \in TaskId :
            Holds(b, t)' => t \in base .. NextOut - 1 /\ t \notin ResultIds'
      BY <1>a, <3>1, <3>2, <3>5 DEF Custody
    <3>10. \A b, c \in Agents, t \in TaskId : Holds(b, t)' /\ Holds(c, t)' => b = c
      BY <1>a, <3>1 DEF Custody
    <3>11. \A t \in base .. NextOut - 1 :
             t \in ResultIds' \/ \E b \in Agents : Holds(b, t)'
      BY <1>a, <1>d, <3>1, <3>5 DEF Custody
    <3>12. QED
      BY <1>a, <2>1, <3>2, <3>6, <3>8, <3>9, <3>10, <3>11 DEF Custody
  <2>4. QED
    BY <2>2, <2>3
<1>6. CASE TerminateClient
  <2>1. UNCHANGED <<taskId, taskQ, base, resultList, running, fromAgent>>
    BY <1>6 DEF TerminateClient, sharedVars, agentVars
  <2>2. CASE pc' # pc
    BY <1>1, <1>6, <2>1, <2>2 DEF TerminateClient
  <2>3. CASE pc' = pc
    <3>1. PICK a \in closing :
            /\ Len(toAgent[a]) = 0 /\ Len(running[a]) = 0 /\ Len(fromAgent[a]) = 0
            /\ toAgent' = [toAgent EXCEPT ![a] = <<Term>>]
      BY <1>0, <1>6, <2>3, TerminateEffect
    <3>2. a \in Agents /\ Term \notin TaskId
      BY <1>a, NwAssumption DEF TypeOK, TaskId
    <3>3. \A b \in Agents, t \in TaskId : Holds(b, t)' <=> Holds(b, t)
      BY <1>0, <2>1, <3>1, <3>2, WriteHolds
    <3>4. NextOut' = NextOut /\ ResultIds' = ResultIds
      BY <2>1 DEF NextOut, ResultIds
    <3>5. QED
      BY <1>a, <1>d, <2>1, <3>3, <3>4 DEF Custody
  <2>4. QED
    BY <2>2, <2>3
<1>7. ASSUME NEW a \in Agents, AgentReceive(a) \/ AgentFinish(a)
      PROVE  Custody'
  <2>1. UNCHANGED <<taskId, taskQ, base, resultList>>
    BY <1>7 DEF AgentReceive, AgentFinish, callerVars, sharedVars
  <2>2. \A b \in Agents, t \in TaskId : Holds(b, t)' <=> Holds(b, t)
    BY <1>0, <1>7, AgentKeepsTask
  <2>3. NextOut' = NextOut /\ ResultIds' = ResultIds
    BY <2>1 DEF NextOut, ResultIds
  <2>4. QED
    BY <1>a, <1>d, <2>1, <2>2, <2>3 DEF Custody
<1>8. CASE \/ StartDispatch \/ CountTask \/ WaitForCompletion \/ WaitBlock
           \/ WaitNotified \/ WaitSpurious \/ Terminate \/ JoinDispatch \/ Exit
  BY <1>1, <1>8
  DEF StartDispatch, CountTask, WaitForCompletion, WaitBlock, WaitNotified,
      WaitSpurious, Terminate, JoinDispatch, Exit, sharedVars, agentVars, netVars
<1>9. CASE \/ CheckAlive \/ LookForNewClients \/ HandleReads \/ HandleWrites
           \/ WritesDone
  BY <1>1, <1>9
  DEF CheckAlive, LookForNewClients, HandleReads, HandleWrites, WritesDone,
      callerVars, sharedVars, agentVars, netVars
<1>10. ASSUME NEW a \in Agents, AgentEOF(a) \/ AgentConnect(a) \/ AgentCrash(a)
       PROVE  Custody'
  BY <1>1, <1>10
  DEF AgentEOF, AgentConnect, AgentCrash, callerVars, sharedVars, netVars
<1>11. CASE UNCHANGED vars
  BY <1>1, <1>11 DEF vars, callerVars, sharedVars, agentVars, netVars
<1>12. QED
  BY <1>0, <1>2, <1>3, <1>4, <1>5, <1>6, <1>7, <1>8, <1>9, <1>10, <1>11
  DEF Next, Caller, CallerStep, Server, AgentStep

\* A step leaves an agent active exactly while it holds a task, with at most
\* one message under way.
LEMMA OnePerAgentStep ==
  IInv /\ [Next]_vars => OnePerAgent'
<1>0. SUFFICES ASSUME IInv, [Next]_vars
               PROVE  OnePerAgent'
  OBVIOUS
<1>a. TypeOK /\ OnePerAgent /\ TypeOK'
  BY <1>0, TypeStep DEF IInv
<1>1. ASSUME UNCHANGED <<toAgent, running, fromAgent, active>>,
             cliVec' \cap active = {},
             \A a \in Agents : aPc'[a] = "busy" => aPc[a] = "busy",
             \/ /\ pc' = pc \/ pc' = "exited" \/ pc' = "killed"
                /\ closing' \subseteq closing
             \/ pc # "closing" /\ pc # "exited" /\ pc # "killed"
      PROVE  OnePerAgent'
  <2>1. \A a \in Agents : Load(a)' = Load(a)
    BY <1>1 DEF Load
  <2>2. \A a \in Agents, t \in TaskId : Holds(a, t)' <=> Holds(a, t)
    BY <1>1 DEF Holds
  <2>3. ASSUME NEW a \in Agents, Len(toAgent'[a]) = 1, toAgent'[a][1] = Term
        PROVE  pc' \in {"closing", "exited", "killed"} /\ a \notin closing'
    <3>1. pc \in {"closing", "exited", "killed"} /\ a \notin closing
      BY <1>a, <1>1, <2>3 DEF OnePerAgent
    <3>2. QED
      BY <1>1, <3>1
  <2>4. \A a \in Agents : aPc'[a] = "busy" => running'[a] # <<>>
    BY <1>a, <1>1 DEF OnePerAgent
  <2>5. QED
    BY <1>a, <1>1, <2>1, <2>2, <2>3, <2>4 DEF OnePerAgent
<1>2. CASE \/ StartDispatch \/ DispatchTask \/ CountTask \/ WaitForCompletion
           \/ WaitBlock \/ WaitNotified \/ WaitSpurious \/ WaitReturn
           \/ Terminate \/ JoinDispatch
  <2>1. UNCHANGED <<toAgent, running, fromAgent, active, cliVec, aPc>>
    BY <1>2
    DEF StartDispatch, DispatchTask, CountTask, WaitForCompletion, WaitBlock,
        WaitNotified, WaitSpurious, WaitReturn, Terminate, JoinDispatch,
        serverVars, agentVars, netVars
  <2>2. pc # "closing" /\ pc # "exited" /\ pc # "killed"
    BY <1>2
    DEF StartDispatch, DispatchTask, CountTask, WaitForCompletion, WaitBlock,
        WaitNotified, WaitSpurious, WaitReturn, Terminate, JoinDispatch
  <2>3. QED
    BY <1>a, <1>1, <2>1, <2>2 DEF OnePerAgent
<1>3. CASE Exit
  <2>1. /\ UNCHANGED <<toAgent, running, fromAgent, active, cliVec, aPc, closing>>
        /\ pc' = "exited"
    BY <1>3 DEF Exit, serverVars, agentVars, netVars
  <2>2. QED
    BY <1>a, <1>1, <2>1 DEF OnePerAgent
<1>4. CASE TerminateClient
  <2>1. UNCHANGED <<running, fromAgent, active, cliVec, aPc>> /\ pc = "closing"
    BY <1>4 DEF TerminateClient, serverVars, agentVars
  <2>2. CASE pc' # pc
    <3>1. toAgent' = toAgent /\ pc' = "killed" /\ closing' \subseteq closing
      BY <1>4, <2>2 DEF TerminateClient, SendFatal
    <3>2. QED
      BY <1>a, <1>1, <2>1, <3>1 DEF OnePerAgent
  <2>3. CASE pc' = pc
    <3>1. PICK a \in closing :
            /\ closing' = closing \ {a}
            /\ Len(toAgent[a]) = 0 /\ Len(running[a]) = 0 /\ Len(fromAgent[a]) = 0
            /\ toAgent' = [toAgent EXCEPT ![a] = <<Term>>]
      BY <1>0, <1>4, <2>3, TerminateEffect
    <3>2. a \in Agents /\ Term \notin TaskId
      BY <1>a, NwAssumption DEF TypeOK, TaskId
    <3>3. /\ Load(a)' = 1
          /\ \A b \in Agents \ {a} : Load(b)' = Load(b)
          /\ \A b \in Agents, t \in TaskId :
               Holds(b, t)' <=> Holds(b, t) \/ (b = a /\ t = Term)
      BY <1>0, <2>1, <3>1, <3>2, WriteHolds
    <3>4. \A b \in Agents : Load(b)' <= 1
      BY <1>a, <3>3 DEF OnePerAgent
    <3>5. \A b \in Agents : b \in active' <=> \E t \in TaskId : Holds(b, t)'
      BY <1>a, <2>1, <3>2, <3>3 DEF OnePerAgent
    <3>6. \A b \in Agents : Len(toAgent'[b]) = 1 /\ toAgent'[b][1] = Term =>
            pc' \in {"closing", "exited", "killed"} /\ b \notin closing'
      <4>1. \A b \in Agents \ {a} : toAgent'[b] = toAgent[b]
        BY <3>1 DEF TypeOK
      <4>2. QED
        BY <1>a, <2>1, <2>3, <3>1, <4>1 DEF OnePerAgent
    <3>7. QED
      BY <1>a, <2>1, <3>4, <3>5, <3>6 DEF OnePerAgent
  <2>4. QED
    BY <2>2, <2>3
<1>5. CASE CheckAlive \/ LookForNewClients \/ HandleReads
  <2>1. UNCHANGED <<toAgent, running, fromAgent, active, cliVec, aPc, pc, closing>>
    BY <1>5
    DEF CheckAlive, LookForNewClients, HandleReads, callerVars, agentVars, netVars
  <2>2. QED
    BY <1>a, <1>1, <2>1 DEF OnePerAgent
<1>6. CASE HandleWrites \/ WritesDone
  <2>1. UNCHANGED <<toAgent, running, fromAgent, active, aPc, pc, closing>>
    BY <1>6 DEF HandleWrites, WritesDone, callerVars, agentVars, netVars
  <2>2. cliVec' \in {clientList \ active, cliVec, {}}
    BY <1>6 DEF HandleWrites, WritesDone, Idle
  <2>3. cliVec' \cap active = {}
    BY <1>a, <2>2 DEF OnePerAgent
  <2>4. QED
    BY <1>1, <2>1, <2>3
<1>7. CASE WriteTask
  <2>1. UNCHANGED <<running, fromAgent, aPc, closing>>
    BY <1>7 DEF WriteTask, agentVars
  <2>2. CASE pc' # pc
    <3>1. UNCHANGED <<toAgent, active, cliVec>> /\ pc' = "killed"
      BY <1>7, <2>2 DEF WriteTask, SendFatal
    <3>2. QED
      BY <1>a, <1>1, <2>1, <3>1 DEF OnePerAgent
  <2>3. CASE pc' = pc
    <3>1. PICK a \in cliVec, h \in TaskId :
            /\ Len(toAgent[a]) = 0 /\ Len(running[a]) = 0 /\ Len(fromAgent[a]) = 0
            /\ toAgent' = [toAgent EXCEPT ![a] = <<h>>]
            /\ active' = active \cup {a}
            /\ cliVec' = cliVec \ {a}
      BY <1>0, <1>7, <2>3, WriteEffect
    <3>2. a \in Agents /\ Term \notin TaskId
      BY <1>a, NwAssumption DEF TypeOK, TaskId
    <3>3. /\ Load(a)' = 1
          /\ \A b \in Agents \ {a} : Load(b)' = Load(b)
          /\ \A b \in Agents, t \in TaskId :
               Holds(b, t)' <=> Holds(b, t) \/ (b = a /\ t = h)
      BY <1>0, <2>1, <3>1, <3>2, WriteHolds
    <3>4. \A b \in Agents : Load(b)' <= 1
      BY <1>a, <3>3 DEF OnePerAgent
    <3>5. \A b \in Agents : b \in active' <=> \E t \in TaskId : Holds(b, t)'
      BY <1>a, <3>1, <3>2, <3>3 DEF OnePerAgent
    <3>6. \A b \in Agents : Len(toAgent'[b]) = 1 /\ toAgent'[b][1] = Term =>
            pc' \in {"closing", "exited", "killed"} /\ b \notin closing'
      <4>1. \A b \in Agents \ {a} : toAgent'[b] = toAgent[b]
        BY <1>a, <3>1 DEF TypeOK
      <4>2. toAgent'[a][1] = h
        BY <1>a, <3>1, <3>2 DEF TypeOK
      <4>3. QED
        BY <1>a, <2>1, <2>3, <3>2, <4>1, <4>2 DEF OnePerAgent
    <3>7. cliVec' \cap active' = {}
      BY <1>a, <3>1 DEF OnePerAgent
    <3>8. QED
      BY <1>a, <2>1, <3>4, <3>5, <3>6, <3>7 DEF OnePerAgent
  <2>4. QED
    BY <2>2, <2>3
<1>8. CASE ReadResult
  <2>1. UNCHANGED <<toAgent, running, aPc, cliVec, pc, closing>>
    BY <1>8 DEF ReadResult, callerVars, agentVars
  <2>2. CASE UNCHANGED <<resultList, fromAgent, active>>
    BY <1>a, <1>1, <2>1, <2>2 DEF OnePerAgent
  <2>3. CASE ~UNCHANGED <<resultList, fromAgent, active>>
    <3>1. PICK a \in Agents, r \in Result :
            /\ \A t \in TaskId : Holds(a, t) <=> t = r.id
            /\ active' = active \ {a}
            /\ Load(a)' = 0
            /\ \A b \in Agents \ {a} : Load(b)' = Load(b)
            /\ \A b \in Agents, t \in TaskId :
                 Holds(b, t)' <=> Holds(b, t) /\ b # a
      BY <1>0, <1>8, <2>3, ReadEffect
    <3>2. \A b \in Agents : Load(b)' <= 1
      BY <1>a, <3>1 DEF OnePerAgent
    <3>3. \A b \in Agents : b \in active' <=> \E t \in TaskId : Holds(b, t)'
      BY <1>a, <3>1 DEF OnePerAgent
    <3>4. cliVec' \cap active' = {}
      BY <1>a, <2>1, <3>1 DEF OnePerAgent
    <3>5. QED
      BY <1>a, <2>1, <3>2, <3>3, <3>4 DEF OnePerAgent
  <2>4. QED
    BY <2>2, <2>3
<1>9. ASSUME NEW a \in Agents, AgentReceive(a) \/ AgentFinish(a)
      PROVE  OnePerAgent'
  <2>1. UNCHANGED <<active, cliVec, pc, closing>>
    BY <1>9 DEF AgentReceive, AgentFinish, callerVars, serverVars
  <2>2. /\ \A b \in Agents : Load(b)' = Load(b)
        /\ \A b \in Agents, t \in TaskId : Holds(b, t)' <=> Holds(b, t)
    BY <1>0, <1>9, AgentKeepsTask
  <2>3. \A b \in Agents : aPc'[b] = "busy" => running'[b] # <<>>
    <3>1. aPc'[a] = "busy" => running'[a] # <<>>
      <4>1. CASE AgentFinish(a)
        BY <1>a, <4>1 DEF AgentFinish, TypeOK
      <4>2. CASE AgentReceive(a)
        <5>1. CASE aPc' = [aPc EXCEPT ![a] = "gone"]
          BY <1>a, <5>1 DEF TypeOK
        <5>2. CASE running' = [running EXCEPT ![a] = <<Head(toAgent[a])>>]
          <6>1. running'[a] = <<Head(toAgent[a])>>
            BY <1>a, <5>2 DEF TypeOK
          <6>2. QED
            BY <6>1
        <5>3. QED
          BY <4>2, <5>1, <5>2 DEF AgentReceive
      <4>3. QED
        BY <1>9, <4>1, <4>2
    <3>2. \A b \in Agents \ {a} : aPc'[b] = aPc[b] /\ running'[b] = running[b]
      BY <1>a, <1>9 DEF AgentReceive, AgentFinish, TypeOK
    <3>3. QED
      BY <1>a, <3>1, <3>2 DEF OnePerAgent
  <2>4. \A b \in Agents : Len(toAgent'[b]) = 1 => toAgent'[b] = toAgent[b]
    <3>1. CASE AgentFinish(a)
      BY <3>1 DEF AgentFinish
    <3>2. CASE AgentReceive(a)
      <4>1. Len(toAgent[a]) = 1 /\ Len(Tail(toAgent[a])) = 0
        <5>1. toAgent[a] # <<>>
          BY <3>2 DEF AgentReceive
        <5>2. QED
          BY <1>0, <1>a, <5>1, OneMessage, HeadTailProperties DEF TypeOK
      <4>2. toAgent'[a] \in {toAgent[a], Tail(toAgent[a])}
        BY <1>a, <3>2 DEF AgentReceive, TypeOK
      <4>3. \A b \in Agents \ {a} : toAgent'[b] = toAgent[b]
        BY <1>a, <3>2 DEF AgentReceive, TypeOK
      <4>4. QED
        BY <4>1, <4>2, <4>3
    <3>3. QED
      BY <1>9, <3>1, <3>2
  <2>5. \A b \in Agents : Len(toAgent'[b]) = 1 /\ toAgent'[b][1] = Term =>
          pc' \in {"closing", "exited", "killed"} /\ b \notin closing'
    BY <1>a, <2>1, <2>4 DEF OnePerAgent
  <2>6. QED
    BY <1>a, <2>1, <2>2, <2>3, <2>5 DEF OnePerAgent
<1>10. ASSUME NEW a \in Agents, AgentEOF(a) \/ AgentConnect(a) \/ AgentCrash(a)
       PROVE  OnePerAgent'
  <2>1. UNCHANGED <<toAgent, running, fromAgent, active, cliVec, pc, closing>>
    BY <1>10
    DEF AgentEOF, AgentConnect, AgentCrash, callerVars, serverVars, netVars
  <2>2. \A b \in Agents : aPc'[b] = "busy" => aPc[b] = "busy"
    BY <1>a, <1>10 DEF AgentEOF, AgentConnect, AgentCrash, TypeOK
  <2>3. QED
    BY <1>a, <1>1, <2>1, <2>2 DEF OnePerAgent
<1>11. CASE UNCHANGED vars
  <2>1. UNCHANGED <<toAgent, running, fromAgent, active, cliVec, pc, closing, aPc>>
    BY <1>11 DEF vars, callerVars, serverVars, agentVars, netVars
  <2>2. QED
    BY <1>a, <1>1, <2>1 DEF OnePerAgent
<1>12. QED
  BY <1>0, <1>2, <1>3, <1>4, <1>5, <1>6, <1>7, <1>8, <1>9, <1>10, <1>11
  DEF Next, Caller, CallerStep, Server, AgentStep

\* A step records the return code of a task when the agent answers, and the
\* answer and the result carry that code from then on.
LEMMA OutcomesStep ==
  IInv /\ [Next]_vars => Outcomes'
<1>0. SUFFICES ASSUME IInv, [Next]_vars
               PROVE  Outcomes'
  OBVIOUS
<1>a. TypeOK /\ Custody /\ Outcomes /\ TypeOK'
  BY <1>0, TypeStep DEF IInv
<1>b. Len(resultList) \in Nat /\ DOMAIN resultList = 1 .. Len(resultList)
  BY <1>a, TypeFacts
<1>1. ASSUME UNCHANGED <<resultList, fromAgent, outcome>>
      PROVE  Outcomes'
  BY <1>a, <1>1 DEF Outcomes
<1>2. CASE WaitReturn
  BY <1>a, <1>2 DEF WaitReturn, Outcomes, agentVars, netVars
<1>3. CASE ReadResult
  <2>1. outcome' = outcome
    BY <1>3 DEF ReadResult, agentVars
  <2>2. CASE UNCHANGED <<resultList, fromAgent, active>>
    BY <1>1, <2>1, <2>2
  <2>3. CASE ~UNCHANGED <<resultList, fromAgent, active>>
    <3>1. PICK a \in Agents, r \in Result :
            /\ Len(fromAgent[a]) = 1 /\ r = fromAgent[a][1]
            /\ Len(resultList') = Len(resultList) + 1
            /\ \A i \in 1 .. Len(resultList) : resultList'[i] = resultList[i]
            /\ resultList'[Len(resultList) + 1] = r
            /\ fromAgent' = [fromAgent EXCEPT ![a] = <<>>]
      BY <1>0, <1>3, <2>3, ReadEffect
    <3>2. DOMAIN resultList' = 1 .. Len(resultList) + 1
      BY <1>a, <3>1, LenProperties DEF TypeOK
    <3>3. outcome[r.id] = r.rc
      BY <1>a, <3>1 DEF Outcomes
    <3>4. \A i \in DOMAIN resultList' : outcome[resultList'[i].id] = resultList'[i].rc
      BY <1>a, <1>b, <3>1, <3>2, <3>3 DEF Outcomes
    <3>5. fromAgent'[a] = <<>> /\ \A b \in Agents \ {a} : fromAgent'[b] = fromAgent[b]
      BY <1>a, <3>1 DEF TypeOK
    <3>6. Len(fromAgent'[a]) = 0
      BY <3>5
    <3>7. QED
      BY <1>a, <2>1, <3>4, <3>5, <3>6 DEF Outcomes
  <2>4. QED
    BY <2>2, <2>3
<1>4. ASSUME NEW a \in Agents, AgentFinish(a)
      PROVE  Outcomes'
  <2>1. running[a] # <<>>
    BY <1>0, <1>4 DEF AgentFinish, IInv, OnePerAgent
  <2>2. Len(running[a]) = 1 /\ fromAgent[a] = <<>>
    BY <1>0, <1>a, <2>1, OneMessage, EmptySeq DEF TypeOK
  <2>3. PICK h \in TaskId : h = Head(running[a]) /\ h = running[a][1]
    <3>1. running[a] \in Seq(TaskId)
      BY <1>a DEF TypeOK
    <3>2. Head(running[a]) \in TaskId /\ Head(running[a]) = running[a][1]
      BY <2>1, <3>1, HeadTailProperties
    <3>3. QED
      BY <3>2
  <2>4. PICK rc \in RC :
          /\ fromAgent' = [fromAgent EXCEPT ![a] =
                             Append(fromAgent[a], [id |-> h, rc |-> rc])]
          /\ outcome' = [outcome EXCEPT ![h] = rc]
    BY <1>4, <2>3 DEF AgentFinish
  <2>5. resultList' = resultList
    BY <1>4 DEF AgentFinish, sharedVars
  <2>6. Holds(a, h)
    BY <2>2, <2>3 DEF Holds
  <2>7. \A i \in DOMAIN resultList : resultList[i].id \in TaskId \ {h}
    <3>1. h \notin ResultIds
      BY <1>a, <2>6 DEF Custody
    <3>2. \A i \in DOMAIN resultList : resultList[i] \in Result
      BY <1>a, TypeFacts
    <3>3. QED
      BY <3>1, <3>2 DEF ResultIds, Result
  <2>8. \A t \in TaskId \ {h} : outcome'[t] = outcome[t]
    BY <1>a, <2>4 DEF TypeOK
  <2>9. outcome'[h] = rc
    BY <1>a, <2>4 DEF TypeOK
  <2>10. \A i \in DOMAIN resultList' :
           outcome'[resultList'[i].id] = resultList'[i].rc
    BY <1>a, <2>5, <2>7, <2>8 DEF Outcomes
  <2>11. ASSUME NEW b \in Agents, Len(fromAgent'[b]) = 1
         PROVE  outcome'[fromAgent'[b][1].id] = fromAgent'[b][1].rc
    <3>1. CASE b = a
      <4>1. fromAgent'[a] = <<[id |-> h, rc |-> rc]>>
        BY <1>a, <2>2, <2>4 DEF TypeOK
      <4>2. QED
        BY <2>9, <3>1, <4>1
    <3>2. CASE b # a
      <4>1. fromAgent'[b] = fromAgent[b]
        BY <1>a, <2>4, <3>2 DEF TypeOK
      <4>2. fromAgent[b][1] \in Result
        <5>1. fromAgent[b] \in Seq(Result) /\ Len(fromAgent[b]) = 1
          BY <1>a, <2>11, <4>1 DEF TypeOK
        <5>2. QED
          BY <5>1, ElementOfSeq
      <4>3. fromAgent[b][1].id \in TaskId /\ Holds(b, fromAgent[b][1].id)
        BY <2>11, <4>1, <4>2 DEF Holds, Result
      <4>4. fromAgent[b][1].id # h
        BY <1>a, <2>6, <3>2, <4>3 DEF Custody
      <4>5. QED
        BY <1>a, <2>8, <2>11, <4>1, <4>3, <4>4 DEF Outcomes
    <3>3. QED
      BY <3>1, <3>2
  <2>12. QED
    BY <2>10, <2>11 DEF Outcomes
<1>5. CASE \/ StartDispatch \/ DispatchTask \/ CountTask \/ WaitForCompletion
           \/ WaitBlock \/ WaitNotified \/ WaitSpurious \/ Terminate
           \/ JoinDispatch \/ TerminateClient \/ Exit
  BY <1>1, <1>5
  DEF StartDispatch, DispatchTask, CountTask, WaitForCompletion, WaitBlock,
      WaitNotified, WaitSpurious, Terminate, JoinDispatch, TerminateClient, Exit,
      sharedVars, agentVars, netVars
<1>6. CASE \/ CheckAlive \/ LookForNewClients \/ HandleReads \/ HandleWrites
           \/ WriteTask \/ WritesDone
  BY <1>1, <1>6
  DEF CheckAlive, LookForNewClients, HandleReads, HandleWrites, WriteTask,
      WritesDone, sharedVars, agentVars, netVars
<1>7. ASSUME NEW a \in Agents,
             \/ AgentReceive(a) \/ AgentEOF(a) \/ AgentConnect(a) \/ AgentCrash(a)
      PROVE  Outcomes'
  BY <1>1, <1>7
  DEF AgentReceive, AgentEOF, AgentConnect, AgentCrash, sharedVars, netVars
<1>8. CASE UNCHANGED vars
  BY <1>1, <1>8 DEF vars, sharedVars, agentVars, netVars
<1>9. QED
  BY <1>0, <1>2, <1>3, <1>4, <1>5, <1>6, <1>7, <1>8
  DEF Next, Caller, CallerStep, Server, AgentStep

\* The state in which nothing has been dispatched and nobody has connected
\* satisfies the inductive invariant.
LEMMA InitInv ==
  Init => IInv
<1>0. SUFFICES ASSUME Init
               PROVE  IInv
  OBVIOUS
<1>1. TypeOK
  <2>1. 0 \in 0 .. MaxTasks /\ 0 \in 0 .. MaxBatches /\ 0 \in 0 .. MaxCrashes
    BY NwAssumption
  <2>2. took \in [Agents -> Fresh .. MaxDuration]
    BY <1>0, NwAssumption DEF Init, Fresh
  <2>3. /\ running \in [Agents -> Seq(TaskId)]
        /\ toAgent \in [Agents -> Seq(TaskId \cup {Term})]
        /\ fromAgent \in [Agents -> Seq(Result)]
    BY <1>0 DEF Init
  <2>4. outcome \in [TaskId -> RC \cup {NotRun}]
    BY <1>0 DEF Init
  <2>5. aPc \in [Agents -> {"off", "idle", "busy", "gone"}]
    BY <1>0 DEF Init
  <2>6. /\ pc = "init" /\ dPc = "off"
        /\ failedIds = {} /\ closing = {} /\ clientList = {} /\ active = {}
        /\ rdSet = {} /\ cliVec = {} /\ backlog = {}
    BY <1>0 DEF Init
  <2>7. /\ taskId = 0 /\ tasksDispatched = 0 /\ base = 0 /\ batches = 0
        /\ crashes = 0
    BY <1>0 DEF Init
  <2>8. alive \in BOOLEAN /\ endWake \in BOOLEAN
    BY <1>0, Zenon DEF Init
  <2>9. taskQ \in Seq(TaskId) /\ resultList \in Seq(Result)
    BY <1>0 DEF Init
  <2>10. QED
    BY <2>1, <2>2, <2>3, <2>4, <2>5, <2>6, <2>7, <2>8, <2>9 DEF TypeOK
<1>2. NextOut = 0
  <2>1. Len(taskQ) = 0 /\ taskId = 0
    BY <1>0 DEF Init
  <2>2. QED
    BY <2>1 DEF NextOut
<1>3. Accounting
  BY <1>0, <1>2 DEF Init, Accounting
<1>4. \A a \in Agents : /\ toAgent[a] = <<>> /\ Len(toAgent[a]) = 0
                        /\ running[a] = <<>> /\ Len(running[a]) = 0
                        /\ fromAgent[a] = <<>> /\ Len(fromAgent[a]) = 0
  BY <1>0 DEF Init
<1>5. \A a \in Agents, t \in TaskId : ~Holds(a, t)
  BY <1>4 DEF Holds
<1>6. DOMAIN taskQ = {} /\ DOMAIN resultList = {} /\ base = 0
  BY <1>0 DEF Init
<1>7. Custody
  BY <1>2, <1>5, <1>6 DEF Custody
<1>8. OnePerAgent
  <2>1. cliVec \cap active = {} /\ \A a \in Agents : a \notin active /\ aPc[a] = "off"
    BY <1>0 DEF Init
  <2>2. \A a \in Agents : Load(a) <= 1
    <3>1. ASSUME NEW a \in Agents PROVE Load(a) = 0
      <4>1. Len(toAgent[a]) = 0 /\ Len(running[a]) = 0 /\ Len(fromAgent[a]) = 0
        BY <1>4
      <4>2. QED
        BY ONLY <4>1 DEF Load
    <3>2. QED
      BY <3>1
  <2>3. QED
    BY <1>4, <1>5, <2>1, <2>2 DEF OnePerAgent
<1>9. Outcomes
  BY <1>4, <1>6 DEF Outcomes
<1>10. QED
  BY <1>1, <1>3, <1>7, <1>8, <1>9 DEF IInv

-----------------------------------------------------------------------------
(* The theorems *)

\* In every run the counters, the queues, the messages and the agents agree
\* on where each task is: the inductive invariant always holds.
THEOREM Invariance == Spec => []IInv
<1>1. Init => IInv
  BY InitInv
<1>2. IInv /\ [Next]_vars => IInv'
  BY TypeStep, AccountingStep, CustodyStep, OnePerAgentStep, OutcomesStep DEF IInv
<1>3. QED
  BY <1>1, <1>2, PTL DEF Spec

\* In every run the variables stay in their types.
THEOREM TypeCorrect == Spec => []TypeOK
<1>1. IInv => TypeOK
  BY DEF IInv
<1>2. QED
  BY <1>1, Invariance, PTL

\* In every run a connection carries at most one message, and none to an
\* agent that is taken for idle, so that no two messages can be read as one.
THEOREM MessagesStopAndWait == Spec => []StopAndWait
<1>1. IInv => StopAndWait
  <2>0. SUFFICES ASSUME IInv
                 PROVE  StopAndWait
    OBVIOUS
  <2>1. ASSUME NEW a \in Agents, a \notin active, toAgent[a] # <<Term>>
        PROVE  Load(a) = 0
    <3>1. toAgent[a] \in Seq(TaskId \cup {Term})
      BY <2>0 DEF IInv, TypeOK
    <3>2. ~(Len(toAgent[a]) = 1 /\ toAgent[a][1] = Term)
      BY <2>1, <3>1
    <3>3. toAgent[a] = <<>> /\ running[a] = <<>> /\ fromAgent[a] = <<>>
      BY <2>0, <2>1, <3>2, IdleIsEmpty
    <3>4. QED
      BY <3>3 DEF Load
  <2>2. QED
    BY <2>0, <2>1 DEF StopAndWait, IInv, OnePerAgent
<1>2. QED
  BY <1>1, Invariance, PTL

\* In every run the caller sleeps on endCond only while a task of its batch
\* has no result yet, or after the notification that will wake it: the
\* notification of the last result is never missed.
THEOREM NeverSleepsForNothing == Spec => []BlockedHasWork
<1>1. IInv => BlockedHasWork
  <2>0. SUFFICES ASSUME IInv, pc = "blocked", ~endWake
                 PROVE  \E t \in Batch : t \notin {r.id : r \in ToSet(resultList)}
    BY DEF BlockedHasWork
  <2> TypeOK
    BY <2>0 DEF IInv
  <2>1. /\ tasksDispatched = taskId - base
        /\ Len(resultList) # tasksDispatched
    BY <2>0 DEF IInv, Accounting
  <2>2. /\ taskId \in Int /\ base \in Int /\ tasksDispatched \in Int
        /\ Len(resultList) \in Nat /\ DOMAIN resultList = 1 .. Len(resultList)
    BY TypeFacts
  <2>3. Len(resultList) < tasksDispatched
    BY <2>0, <2>1, <2>2, AllInMeansDone
  <2>4. {r.id : r \in ToSet(resultList)} = ResultIds
    BY DEF ToSet, ResultIds
  <2>5. SUFFICES ASSUME \A t \in Batch : t \in ResultIds
                 PROVE  FALSE
    BY <2>4
  <2>6. PICK f \in [Batch -> 1 .. Len(resultList)] :
          \A t \in Batch : resultList[f[t]].id = t
    <3> DEFINE g == [t \in Batch |->
                       CHOOSE i \in 1 .. Len(resultList) : resultList[i].id = t]
    <3>1. \A t \in Batch : \E i \in 1 .. Len(resultList) : resultList[i].id = t
      BY <2>2, <2>5 DEF ResultIds
    <3>2. \A t \in Batch : g[t] \in 1 .. Len(resultList) /\ resultList[g[t]].id = t
      BY <3>1
    <3>3. g \in [Batch -> 1 .. Len(resultList)]
      BY <3>2
    <3> HIDE DEF g
    <3>4. QED
      BY <3>2, <3>3
  <2>7. f \in Injection(Batch, 1 .. Len(resultList))
    BY <2>6 DEF Injection, IsInjective
  <2>8. Cardinality(Batch) = taskId - base
    BY <2>1, <2>2, <2>3, FS_Interval DEF Batch
  <2>9. IsFiniteSet(1 .. Len(resultList)) /\ Cardinality(1 .. Len(resultList)) = Len(resultList)
    BY <2>2, FS_Interval
  <2>10. Cardinality(Batch) <= Cardinality(1 .. Len(resultList))
    BY <2>7, <2>9, FS_Injection
  <2>11. QED
    BY <2>1, <2>2, <2>3, <2>8, <2>9, <2>10
<1>2. QED
  BY <1>1, Invariance, PTL

\* In every run waitForCompletion reports exactly the tasks of its batch that
\* an agent ran and answered with a failure.
THEOREM WaitReportsExactly == Spec => ReportExact
<1>1. IInv /\ [Next]_vars =>
        [batches' # batches =>
           /\ \A t \in Batch : outcome[t] # NotRun
           /\ failedIds' = {t \in Batch : outcome[t] = 1}]_vars
  <2>0. SUFFICES ASSUME IInv, [Next]_vars, batches' # batches
                 PROVE  /\ \A t \in Batch : outcome[t] # NotRun
                        /\ failedIds' = {t \in Batch : outcome[t] = 1}
    OBVIOUS
  <2> TypeOK
    BY <2>0 DEF IInv
  <2>1. WaitReturn
    BY <2>0
    DEF Next, Caller, CallerStep, Server, AgentStep, StartDispatch, DispatchTask,
        CountTask, WaitForCompletion, WaitBlock, WaitNotified, WaitSpurious,
        Terminate, JoinDispatch, TerminateClient, Exit, CheckAlive,
        LookForNewClients, HandleReads, ReadResult, HandleWrites, WriteTask,
        WritesDone, AgentConnect, AgentReceive, AgentFinish, AgentEOF,
        AgentCrash, vars, callerVars
  <2>2. tasksDispatched = taskId - base /\ AllIn(Len(resultList))
    BY <2>0, <2>1 DEF WaitReturn, IInv, Accounting
  <2>3. \A t \in Batch : t \in ResultIds
    BY <2>0, <2>2, AllInMeansDone
  <2>4. /\ DOMAIN resultList = 1 .. Len(resultList)
        /\ \A i \in DOMAIN resultList : resultList[i] \in Result
    BY TypeFacts
  <2>5. \A i \in DOMAIN resultList :
          /\ resultList[i].rc \in RC
          /\ outcome[resultList[i].id] = resultList[i].rc
          /\ resultList[i].id \in Batch
    <3>1. \A i \in DOMAIN resultList : resultList[i].id \in base .. NextOut - 1
      BY <2>0 DEF IInv, Custody
    <3>2. base .. NextOut - 1 \subseteq Batch
      BY TypeFacts DEF NextOut, Batch
    <3>3. QED
      BY <2>0, <2>4, <3>1, <3>2 DEF IInv, Outcomes, Result
  <2>6. \A t \in Batch : \E i \in DOMAIN resultList : resultList[i].id = t
    BY <2>3 DEF ResultIds
  <2>7. \A t \in Batch : outcome[t] # NotRun
    BY <2>5, <2>6 DEF RC, NotRun
  <2>8. FailedIds = {resultList[i].id : i \in {j \in DOMAIN resultList : resultList[j].rc # 0}}
    BY <2>4 DEF FailedIds, ToSet
  <2>9. FailedIds = {t \in Batch : outcome[t] = 1}
    BY <2>5, <2>6, <2>8 DEF RC
  <2>10. QED
    BY <2>1, <2>7, <2>9 DEF WaitReturn
<1>2. QED
  BY <1>1, Invariance, PTL DEF Spec, ReportExact

-----------------------------------------------------------------------------
(* nwDispatch keeps the contract of dispatch.h *)

\* A step after which the caller is in the same phase, and that touches
\* neither the batch nor the results, is invisible through the interface.
LEMMA Invisible ==
  ASSUME Phase' = Phase,
         UNCHANGED <<taskId, base, resultList, failedIds>>
  PROVE  UNCHANGED Contract!vars
BY DEF Contract!vars, Batch, FinishedIds, FailedIds

\* A step that ends the caller's use of the dispatcher, and touches neither
\* the batch nor the results, is the contract's End, or invisible when the
\* end had come before.
LEMMA Ending ==
  ASSUME Phase' = "over",
         UNCHANGED <<taskId, base, resultList, failedIds>>
  PROVE  [Contract!Next]_(Contract!vars)
<1>1. CASE Phase = "over"
  BY <1>1, Invisible
<1>2. CASE Phase # "over"
  <2>1. Contract!End
    BY <1>2 DEF Contract!End, Batch, FinishedIds, FailedIds
  <2>2. QED
    BY <2>1 DEF Contract!Next
<1>3. QED
  BY <1>1, <1>2

\* The phase of the caller, by the place it is at.
LEMMA PhaseFacts ==
  /\ pc \in {"init", "open", "counting"} => Phase = "open"
  /\ pc \in {"waiting", "blocked"} => Phase = "waiting"
  /\ pc \in {"joining", "closing", "exited", "killed"} => Phase = "over"
BY DEF Phase

\* The same of the next state.
LEMMA PhaseNext ==
  /\ pc' \in {"init", "open", "counting"} => Phase' = "open"
  /\ pc' \in {"waiting", "blocked"} => Phase' = "waiting"
  /\ pc' \in {"joining", "closing", "exited", "killed"} => Phase' = "over"
BY DEF Phase

\* In every run nwDispatch keeps the promise of the abstract class dispatch:
\* identifiers are fresh, a task finishes once, waitForCompletion returns only
\* when the batch is done, and reports exactly the tasks that failed.
THEOREM Refinement == Spec => ImplementsDispatch
<1>1. Init => Contract!Init
  <2>0. SUFFICES ASSUME Init
                 PROVE  Contract!Init
    OBVIOUS
  <2>1. /\ pc = "init" /\ taskId = 0 /\ base = 0 /\ failedIds = {}
        /\ resultList = <<>>
    BY <2>0 DEF Init
  <2>2. ToSet(resultList) = {}
    BY <2>1 DEF ToSet
  <2>3. FinishedIds = {} /\ FailedIds = {}
    BY <2>2 DEF FinishedIds, FailedIds
  <2>4. 0 .. taskId - 1 = {} /\ Batch = {}
    BY <2>1 DEF Batch
  <2>5. QED
    BY <2>1, <2>3, <2>4, PhaseFacts DEF Contract!Init
<1>2. IInv /\ [Next]_vars => [Contract!Next]_(Contract!vars)
  <2>0. SUFFICES ASSUME IInv, [Next]_vars
                 PROVE  [Contract!Next]_(Contract!vars)
    OBVIOUS
  <2> TypeOK /\ TypeOK'
    BY <2>0, TypeStep DEF IInv
  <2>1. CASE StartDispatch
    <3>1. UNCHANGED <<taskId, base, resultList, failedIds>>
      BY <2>1 DEF StartDispatch, sharedVars
    <3>2. pc = "init" /\ pc' \in {"open", "exited"}
      BY <2>1 DEF StartDispatch
    <3>3. QED
      BY <3>1, <3>2, PhaseFacts, PhaseNext, Invisible, Ending
  <2>2. CASE DispatchTask
    <3>1. /\ pc = "open" /\ pc' = "counting" /\ taskId' = taskId + 1
          /\ taskId < MaxTasks
          /\ UNCHANGED <<base, resultList, failedIds>>
      BY <2>2 DEF DispatchTask
    <3>2. taskId \in TaskId /\ base \in Int /\ base <= taskId /\ taskId \in Nat
      <4>1. base <= NextOut
        BY <2>0 DEF IInv, Accounting
      <4>2. QED
        BY <3>1, <4>1, TypeFacts, NwAssumption DEF NextOut, TaskId, TypeOK
    <3>3. /\ (0 .. taskId - 1)' = (0 .. taskId - 1) \cup {taskId}
          /\ taskId \notin 0 .. taskId - 1
          /\ Batch' = Batch \cup {taskId}
      BY <3>1, <3>2 DEF Batch
    <3>4. Contract!DispatchTask(taskId)
      BY <3>1, <3>3, PhaseFacts, PhaseNext
      DEF Contract!DispatchTask, FinishedIds, FailedIds
    <3>5. QED
      BY <3>2, <3>4 DEF Contract!Next
  <2>3. CASE WaitForCompletion
    <3>1. /\ pc = "open" /\ pc' = "waiting"
          /\ UNCHANGED <<taskId, base, resultList, failedIds>>
      BY <2>3 DEF WaitForCompletion, sharedVars
    <3>2. Contract!Wait
      BY <3>1, PhaseFacts, PhaseNext DEF Contract!Wait, Batch, FinishedIds, FailedIds
    <3>3. QED
      BY <3>2 DEF Contract!Next
  <2>4. CASE WaitReturn
    <3>1. /\ pc = "waiting" /\ pc' = "open" /\ AllIn(Len(resultList))
          /\ taskId' = taskId /\ base' = taskId /\ resultList' = <<>>
          /\ failedIds' = FailedIds
      BY <2>4 DEF WaitReturn
    <3>2. tasksDispatched = taskId - base
      BY <2>0, <3>1 DEF IInv, Accounting
    <3>3. Batch \subseteq ResultIds
      BY <2>0, <3>1, <3>2, AllInMeansDone
    <3>4. ResultIds = FinishedIds
      BY DEF ResultIds, FinishedIds, ToSet
    <3>5. ResultIds \subseteq Batch
      BY <2>0, TypeFacts DEF ResultIds, IInv, Custody, NextOut, Batch
    <3>6. ToSet(resultList') = {}
      BY <3>1 DEF ToSet
    <3>7. FinishedIds' = {} /\ FailedIds' = {}
      BY <3>6 DEF FinishedIds, FailedIds
    <3>8. Batch' = {}
      BY <3>1, TypeFacts DEF Batch
    <3>9. Contract!Return
      BY <3>1, <3>3, <3>4, <3>5, <3>7, <3>8, PhaseFacts, PhaseNext
      DEF Contract!Return
    <3>10. QED
      BY <3>9 DEF Contract!Next
  <2>5. CASE ReadResult
    <3>1. UNCHANGED <<pc, taskId, base, failedIds>>
      BY <2>5 DEF ReadResult, callerVars
    <3>2. CASE resultList' = resultList
      BY <3>1, <3>2, Invisible DEF Phase
    <3>3. CASE resultList' # resultList
      <4>1. PICK a \in Agents, r \in Result :
              /\ \A t \in TaskId : Holds(a, t) <=> t = r.id
              /\ Len(resultList') = Len(resultList) + 1
              /\ \A i \in 1 .. Len(resultList) : resultList'[i] = resultList[i]
              /\ resultList'[Len(resultList) + 1] = r
        BY <2>0, <2>5, <3>3, ReadEffect
      <4>2. r.id \in TaskId /\ Holds(a, r.id)
        BY <4>1 DEF Result
      <4>3. r.id \in base .. NextOut - 1 /\ r.id \notin ResultIds
        BY <2>0, <4>2 DEF IInv, Custody
      <4>4. ResultIds = FinishedIds
        BY DEF ResultIds, FinishedIds, ToSet
      <4>5. r.id \in Batch \ FinishedIds
        BY <4>3, <4>4, TypeFacts DEF NextOut, Batch
      <4>6. ToSet(resultList') = ToSet(resultList) \cup {r}
        <5>1. DOMAIN resultList' = 1 .. Len(resultList) + 1
          BY <4>1, LenProperties DEF TypeOK
        <5>2. DOMAIN resultList = 1 .. Len(resultList) /\ Len(resultList) \in Nat
          BY TypeFacts
        <5>3. QED
          BY <4>1, <5>1, <5>2 DEF ToSet
      <4>7. /\ FinishedIds' = FinishedIds \cup {r.id}
            /\ FailedIds' \in {FailedIds, FailedIds \cup {r.id}}
        BY <4>6 DEF FinishedIds, FailedIds
      <4>8. Phase # "over"
        <5>1. pc \notin {"joining", "closing", "exited", "killed"}
          <6>1. Up
            BY <2>5 DEF ReadResult
          <6>2. base < taskId
            BY <4>3, TypeFacts DEF NextOut
          <6>3. QED
            BY <2>0, <6>1, <6>2, TypeFacts DEF IInv, Accounting, Up
        <5>2. QED
          BY <5>1, PhaseFacts DEF TypeOK
      <4>9. Contract!Finish(r.id)
        BY <3>1, <4>5, <4>7, <4>8 DEF Contract!Finish, Phase, Batch
      <4>10. QED
        BY <4>2, <4>9 DEF Contract!Next
    <3>4. QED
      BY <3>2, <3>3
  <2>6. CASE CountTask \/ WaitBlock \/ WaitNotified \/ WaitSpurious
    <3>1. UNCHANGED <<taskId, base, resultList, failedIds>>
      BY <2>6 DEF CountTask, WaitBlock, WaitNotified, WaitSpurious, sharedVars
    <3>2. \/ pc = "counting" /\ pc' = "open"
          \/ pc = "waiting" /\ pc' = "blocked"
          \/ pc = "blocked" /\ pc' = "waiting"
      BY <2>6 DEF CountTask, WaitBlock, WaitNotified, WaitSpurious
    <3>3. QED
      BY <3>1, <3>2, PhaseFacts, PhaseNext, Invisible
  <2>7. CASE Terminate \/ JoinDispatch \/ TerminateClient \/ Exit
    <3>1. UNCHANGED <<taskId, base, resultList, failedIds>>
      BY <2>7 DEF Terminate, JoinDispatch, TerminateClient, Exit, sharedVars
    <3>2. pc' \in {"joining", "closing", "exited", "killed"}
      BY <2>7 DEF Terminate, JoinDispatch, TerminateClient, Exit, SendFatal
    <3>3. QED
      BY <3>1, <3>2, PhaseNext, Ending
  <2>8. CASE WriteTask
    <3>1. UNCHANGED <<taskId, base, resultList, failedIds>>
      BY <2>8 DEF WriteTask
    <3>2. pc' \in {pc, "killed"}
      BY <2>8 DEF WriteTask, SendFatal
    <3>3. CASE pc' = pc
      BY <3>1, <3>3, Invisible DEF Phase
    <3>4. CASE pc' = "killed"
      BY <3>1, <3>4, PhaseNext, Ending
    <3>5. QED
      BY <3>2, <3>3, <3>4
  <2>9. CASE \/ CheckAlive \/ LookForNewClients \/ HandleReads \/ HandleWrites
             \/ WritesDone
    <3>1. UNCHANGED <<pc, taskId, base, resultList, failedIds>>
      BY <2>9
      DEF CheckAlive, LookForNewClients, HandleReads, HandleWrites, WritesDone,
          callerVars, sharedVars
    <3>2. QED
      BY <3>1, Invisible DEF Phase
  <2>10. ASSUME NEW a \in Agents, AgentStep(a) \/ AgentConnect(a) \/ AgentCrash(a)
         PROVE  UNCHANGED Contract!vars
    <3>1. UNCHANGED <<pc, taskId, base, resultList, failedIds>>
      BY <2>10
      DEF AgentStep, AgentReceive, AgentFinish, AgentEOF, AgentConnect,
          AgentCrash, callerVars, sharedVars
    <3>2. QED
      BY <3>1, Invisible DEF Phase
  <2>11. CASE UNCHANGED vars
    <3>1. UNCHANGED <<pc, taskId, base, resultList, failedIds>>
      BY <2>11 DEF vars, callerVars, sharedVars
    <3>2. QED
      BY <3>1, Invisible DEF Phase
  <2>12. QED
    BY <2>0, <2>1, <2>2, <2>3, <2>4, <2>5, <2>6, <2>7, <2>8, <2>9, <2>10, <2>11
    DEF Next, Caller, CallerStep, Server
<1>3. QED
  BY <1>1, <1>2, Invariance, PTL DEF Spec, ImplementsDispatch, Contract!Spec
=============================================================================
