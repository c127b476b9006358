----------------------------- MODULE NwDispatch -----------------------------
(***************************************************************************)
(* io/nwDispatch.cpp on the initiator, mains/agent.cpp on the agents, and  *)
(* the connections between them (common/protocol.cpp, common/tcpUtil.cpp). *)
(*                                                                         *)
(*   - The caller (pc) dispatches tasks, waits for them and terminates.    *)
(*   - The dispatch thread (dPc) runs nwDispatch::manageQs: it accepts     *)
(*     agents, reads results, and hands queued tasks to idle agents.       *)
(*   - Each agent (aPc) reads a task, runs it and answers.                 *)
(*                                                                         *)
(* disMtx protects taskQ and resultList.  It is held across several steps  *)
(* only while tasks are written out (dPc = "writing"); every other         *)
(* critical section is one action.  A connection is a FIFO of whole        *)
(* messages in each direction: a message of at most msgSizeLimit bytes is  *)
(* taken to arrive in one piece.  The order of file descriptors is left    *)
(* open.                                                                   *)
(***************************************************************************)
EXTENDS Integers, Sequences, FiniteSets, SequencesExt

CONSTANTS
  Agents,       \* the agents that may connect
  Term,         \* the message "F" that ends a session
  Oversize,     \* tasks whose message is longer than msgSizeLimit
  MaxTasks,     \* bound: tasks the caller dispatches in all
  MaxBatches,   \* bound: calls of waitForCompletion
  MaxDuration,  \* bound: seconds a task takes, as time() measures them
  MaxCrashes    \* bound: agents that crash

ASSUME NwAssumption ==
  /\ IsFiniteSet(Agents)
  /\ Cardinality(Agents) <= 16      \* struct pollfd rdFd[16], wrFd[16]
  /\ Term \notin Nat
  /\ Oversize \subseteq Nat
  /\ MaxTasks \in Nat /\ MaxBatches \in Nat
  /\ MaxDuration \in Nat /\ MaxCrashes \in Nat

VARIABLES
  \* the caller, and the members of nwDispatch
  pc,              \* where the caller is
  taskId,          \* the next task identifier
  taskQ,           \* tasks not yet written to an agent
  tasksDispatched, \* tasks counted since the last wait returned
  resultList,      \* results since the last wait returned
  failedIds,       \* what the last waitForCompletion reported
  alive,           \* FALSE once terminate() has been called
  endWake,         \* endCond was notified while the caller waits on it
  closing,         \* terminate(): the clients still to be told
  \* the dispatch thread
  dPc,             \* where it is
  clientList,      \* the agents accepted
  active,          \* those that have been given a task and did not answer
  took,            \* lastReply - lastDispatch of each; Fresh: lastReply = 0
  rdSet,           \* handleReads(): readable clients not yet looked at
  cliVec,          \* handleWrites(): idle clients not yet given a task
  \* the agents and the network
  aPc,             \* where each agent is
  running,         \* the task an agent runs
  backlog,         \* agents connected and not yet accepted
  toAgent,         \* messages on the way to each agent
  fromAgent,       \* results on the way from each agent
  \* history
  base,            \* the first identifier of the current batch
  batches,         \* waits that have returned
  crashes,         \* agents that have crashed
  outcome          \* return code of each task that has run

callerVars == <<pc, taskId, tasksDispatched, failedIds, alive, closing,
                base, batches>>
sharedVars == <<taskQ, resultList, endWake>>
serverVars == <<dPc, clientList, active, took, rdSet, cliVec>>
agentVars  == <<aPc, running, backlog, crashes, outcome>>
netVars    == <<toAgent, fromAgent>>
vars == <<callerVars, sharedVars, serverVars, agentVars, netVars>>

TaskId == 0 .. MaxTasks - 1
RC     == {0, 1}              \* agent.cpp: handRc
NotRun == 2
Result == [id : TaskId, rc : RC]
Fresh  == -1

TypeOK ==
  /\ pc \in {"init", "open", "counting", "waiting", "blocked", "joining",
             "closing", "exited", "killed"}
  /\ taskId \in 0 .. MaxTasks
  /\ taskQ \in Seq(TaskId)
  /\ tasksDispatched \in 0 .. MaxTasks
  /\ resultList \in Seq(Result)
  /\ failedIds \subseteq TaskId
  /\ alive \in BOOLEAN /\ endWake \in BOOLEAN
  /\ closing \subseteq Agents
  /\ dPc \in {"off", "check", "accept", "reads", "reading", "writes", "writing",
              "exited"}
  /\ clientList \subseteq Agents
  /\ active \subseteq Agents
  /\ took \in [Agents -> Fresh .. MaxDuration]
  /\ rdSet \subseteq Agents /\ cliVec \subseteq Agents
  /\ aPc \in [Agents -> {"off", "idle", "busy", "gone"}]
  /\ running \in [Agents -> Seq(TaskId)]
  /\ backlog \subseteq Agents
  /\ toAgent \in [Agents -> Seq(TaskId \cup {Term})]
  /\ fromAgent \in [Agents -> Seq(Result)]
  /\ base \in 0 .. MaxTasks
  /\ batches \in 0 .. MaxBatches
  /\ crashes \in 0 .. MaxCrashes
  /\ outcome \in [TaskId -> RC \cup {NotRun}]

Init ==
  /\ pc = "init"
  /\ taskId = 0 /\ taskQ = <<>> /\ tasksDispatched = 0 /\ resultList = <<>>
  /\ failedIds = {} /\ alive = TRUE /\ endWake = FALSE /\ closing = {}
  /\ dPc = "off" /\ clientList = {} /\ active = {}
  /\ took = [a \in Agents |-> Fresh]
  /\ rdSet = {} /\ cliVec = {}
  /\ aPc = [a \in Agents |-> "off"]
  /\ running = [a \in Agents |-> <<>>]
  /\ backlog = {}
  /\ toAgent = [a \in Agents |-> <<>>] /\ fromAgent = [a \in Agents |-> <<>>]
  /\ base = 0 /\ batches = 0 /\ crashes = 0
  /\ outcome = [t \in TaskId |-> NotRun]

\* The process of the initiator runs.
Up == pc \notin {"exited", "killed"}

\* disMtx is not held by the dispatch thread.
DisFree == dPc # "writing"

\* The comparison waitForCompletion makes, with n results in resultList ...
AllIn_OneShort(n) == tasksDispatched \in {n, n + 1}      \* a mutation
AllIn(n) == tasksDispatched = n

\* ... and the one addToResults makes before it notifies.
LastResult_Ids(n) == n = taskId                          \* a mutation
LastResult(n) == tasksDispatched = n

\* What waitForCompletion reports of the results in resultList.
FailedIds == {r.id : r \in {s \in ToSet(resultList) : s.rc # 0}}

-----------------------------------------------------------------------------
(* The caller *)

\* startDispatch: bind and listen may fail, and the callers then give up.
StartDispatch ==
  /\ pc = "init"
  /\ \/ pc' = "open" /\ dPc' = "check"
     \/ pc' = "exited" /\ UNCHANGED dPc
  /\ UNCHANGED <<taskId, tasksDispatched, failedIds, alive, closing, base,
                 batches, sharedVars, clientList, active, took, rdSet, cliVec,
                 agentVars, netVars>>

\* dispatchTask enqueues the task under disMtx ...
DispatchTask ==
  /\ pc = "open" /\ DisFree
  /\ batches < MaxBatches
  /\ taskId < MaxTasks
  /\ taskQ' = Append(taskQ, taskId)
  /\ taskId' = taskId + 1
  /\ pc' = "counting"
  /\ UNCHANGED <<tasksDispatched, failedIds, alive, closing, base, batches,
                 resultList, endWake, serverVars, agentVars, netVars>>

\* ... and counts it after the mutex has been released.
CountTask ==
  /\ pc = "counting"
  /\ tasksDispatched' = tasksDispatched + 1
  /\ pc' = "open"
  /\ UNCHANGED <<taskId, failedIds, alive, closing, base, batches, sharedVars,
                 serverVars, agentVars, netVars>>

WaitForCompletion ==
  /\ pc = "open"
  /\ batches < MaxBatches
  /\ pc' = "waiting"
  /\ UNCHANGED <<taskId, tasksDispatched, failedIds, alive, closing, base,
                 batches, sharedVars, serverVars, agentVars, netVars>>

WaitBlock ==
  /\ pc = "waiting" /\ DisFree
  /\ ~AllIn(Len(resultList))
  /\ pc' = "blocked"
  /\ UNCHANGED <<taskId, tasksDispatched, failedIds, alive, closing, base,
                 batches, sharedVars, serverVars, agentVars, netVars>>

\* endCond.wait returns after a notification, or spuriously.
WaitNotified ==
  /\ pc = "blocked" /\ endWake /\ DisFree
  /\ pc' = "waiting" /\ endWake' = FALSE
  /\ UNCHANGED <<taskId, tasksDispatched, failedIds, alive, closing, base,
                 batches, taskQ, resultList, serverVars, agentVars, netVars>>

WaitSpurious ==
  /\ pc = "blocked" /\ ~endWake /\ DisFree
  /\ pc' = "waiting"
  /\ UNCHANGED <<taskId, tasksDispatched, failedIds, alive, closing, base,
                 batches, sharedVars, serverVars, agentVars, netVars>>

WaitReturn ==
  /\ pc = "waiting" /\ DisFree
  /\ AllIn(Len(resultList))
  /\ failedIds' = FailedIds
  /\ tasksDispatched' = 0
  /\ resultList' = <<>>
  /\ base' = taskId
  /\ batches' = batches + 1
  /\ pc' = "open"
  /\ UNCHANGED <<taskId, alive, closing, taskQ, endWake, serverVars, agentVars,
                 netVars>>

\* terminate: its callers make it after a wait, with nothing outstanding.
Terminate ==
  /\ pc = "open"
  /\ base = taskId
  /\ alive' = FALSE
  /\ pc' = "joining"
  /\ UNCHANGED <<taskId, tasksDispatched, failedIds, closing, base, batches,
                 sharedVars, serverVars, agentVars, netVars>>

JoinDispatch ==
  /\ pc = "joining" /\ dPc = "exited"
  /\ pc' = "closing"
  /\ closing' = clientList
  /\ UNCHANGED <<taskId, tasksDispatched, failedIds, alive, base, batches,
                 sharedVars, serverVars, agentVars, netVars>>

\* A message is written to an agent.  To one that has gone the bytes may
\* vanish, or the second write of writeWithSizePrefix raises SIGPIPE, which
\* nothing in the program handles.
SendOk_Retry(a, m) ==                                     \* a mutation
  toAgent' = [toAgent EXCEPT ![a] = Append(Append(@, m), m)]
SendOk(a, m) == toAgent' = [toAgent EXCEPT ![a] = Append(@, m)]
SendFatal(a) == aPc[a] = "gone" /\ pc' = "killed"

TerminateClient ==
  /\ pc = "closing"
  /\ \E a \in closing :
       /\ closing' = closing \ {a}
       /\ \/ SendOk(a, Term) /\ UNCHANGED pc
          \/ SendFatal(a) /\ UNCHANGED toAgent
  /\ UNCHANGED <<taskId, tasksDispatched, failedIds, alive, base, batches,
                 sharedVars, serverVars, agentVars, fromAgent>>

\* terminate returns, main returns, and the sockets are closed.
Exit ==
  /\ pc = "closing" /\ closing = {}
  /\ pc' = "exited"
  /\ UNCHANGED <<taskId, tasksDispatched, failedIds, alive, closing, base,
                 batches, sharedVars, serverVars, agentVars, netVars>>

\* The steps of a call that has been made, which the caller is bound to take.
CallerStep ==
  \/ CountTask \/ WaitBlock \/ WaitNotified \/ WaitReturn \/ JoinDispatch
  \/ TerminateClient \/ Exit

Caller ==
  \/ CallerStep \/ StartDispatch \/ DispatchTask \/ WaitForCompletion
  \/ WaitSpurious \/ Terminate

-----------------------------------------------------------------------------
(* The dispatch thread *)

\* The while condition of manageQs.
KeepServing_Clients == alive \/ clientList # {}           \* a mutation
KeepServing == alive

CheckAlive ==
  /\ Up /\ dPc = "check"
  /\ dPc' = IF KeepServing THEN "accept" ELSE "exited"
  /\ UNCHANGED <<callerVars, sharedVars, clientList, active, took, rdSet,
                 cliVec, agentVars, netVars>>

\* Accepts at most one agent.
LookForNewClients ==
  /\ Up /\ dPc = "accept"
  /\ \/ \E a \in backlog :
          /\ backlog' = backlog \ {a}
          /\ clientList' = clientList \cup {a}
     \/ backlog = {} /\ UNCHANGED <<backlog, clientList>>
  /\ dPc' = "reads"
  /\ UNCHANGED <<callerVars, sharedVars, active, took, rdSet, cliVec, aPc,
                 running, crashes, outcome, netVars>>

\* poll: a socket is readable when a result is there, and at end of file.
Readable(a) == fromAgent[a] # <<>> \/ aPc[a] = "gone"

HandleReads ==
  /\ Up /\ dPc = "reads"
  /\ rdSet' = {a \in clientList \cap active : Readable(a)}
  /\ dPc' = IF rdSet' = {} THEN "writes" ELSE "reading"
  /\ UNCHANGED <<callerVars, sharedVars, clientList, active, took, cliVec,
                 agentVars, netVars>>

\* readResult and addToResults.  At end of file readResult fails, the error
\* is logged, and the client stays active.
ReadResult ==
  /\ Up /\ dPc = "reading"
  /\ \E a \in rdSet :
       /\ rdSet' = rdSet \ {a}
       /\ \/ /\ fromAgent[a] # <<>>
             /\ resultList' = Append(resultList, Head(fromAgent[a]))
             /\ endWake' = (endWake \/ (LastResult(Len(resultList')) /\ pc = "blocked"))
             /\ fromAgent' = [fromAgent EXCEPT ![a] = Tail(@)]
             /\ active' = active \ {a}
             /\ \E d \in 0 .. MaxDuration : took' = [took EXCEPT ![a] = d]
          \/ /\ fromAgent[a] = <<>>
             /\ UNCHANGED <<resultList, endWake, fromAgent, active, took>>
  /\ dPc' = IF rdSet' = {} THEN "writes" ELSE "reading"
  /\ UNCHANGED <<callerVars, taskQ, clientList, cliVec, agentVars, toAgent>>

\* The clients that may be given a task: those not active.
Idle_All == clientList                                   \* a mutation
Idle_Once == {a \in clientList \ active : took[a] = Fresh} \* a mutation
Idle == clientList \ active

\* Idle clients are collected and disMtx is taken.  With nothing to hand
\* out it is released at once.
HandleWrites ==
  /\ Up /\ dPc = "writes"
  /\ \/ /\ Idle # {} /\ taskQ # <<>>
        /\ cliVec' = Idle
        /\ dPc' = "writing"
     \/ /\ Idle = {} \/ taskQ = <<>>
        /\ dPc' = "check"
        /\ UNCHANGED cliVec
  /\ UNCHANGED <<callerVars, sharedVars, clientList, active, took, rdSet,
                 agentVars, netVars>>

\* The comparison handleWrites sorts by: a client that has not answered yet
\* (lastReply = 0, Fresh is the least value of took) comes first, then the
\* one that answered fastest.
Before(a, b) == took[a] < took[b]

\* One iteration of the loop of handleWrites.
WriteTask ==
  /\ Up /\ dPc = "writing" /\ taskQ # <<>>
  /\ \E a \in cliVec :
       /\ ~ \E b \in cliVec : Before(b, a)
       /\ \/ /\ SendOk(a, Head(taskQ))
             /\ active' = active \cup {a}
             /\ cliVec' = cliVec \ {a}
             /\ taskQ' = Tail(taskQ)
             /\ UNCHANGED pc
          \/ SendFatal(a) /\ UNCHANGED <<toAgent, active, cliVec, taskQ>>
  /\ UNCHANGED <<taskId, tasksDispatched, failedIds, alive, closing, base,
                 batches, resultList, endWake, dPc, clientList, took, rdSet,
                 agentVars, fromAgent>>

\* The loop ends and disMtx is released.
WritesDone ==
  /\ Up /\ dPc = "writing"
  /\ cliVec = {} \/ taskQ = <<>>
  /\ dPc' = "check" /\ cliVec' = {}
  /\ UNCHANGED <<callerVars, sharedVars, clientList, active, took, rdSet,
                 agentVars, netVars>>

Server ==
  \/ CheckAlive \/ LookForNewClients \/ HandleReads \/ ReadResult
  \/ HandleWrites \/ WriteTask \/ WritesDone

-----------------------------------------------------------------------------
(* An agent *)

\* main connects, and exits if nobody listens.
AgentConnect(a) ==
  /\ aPc[a] = "off"
  /\ \/ /\ Up /\ pc # "init"
        /\ aPc' = [aPc EXCEPT ![a] = "idle"]
        /\ backlog' = backlog \cup {a}
     \/ /\ ~(Up /\ pc # "init")
        /\ aPc' = [aPc EXCEPT ![a] = "gone"]
        /\ UNCHANGED backlog
  /\ UNCHANGED <<callerVars, sharedVars, serverVars, running, crashes, outcome,
                 netVars>>

\* readFromSocket: a message above msgSizeLimit is read and thrown away, and
\* the caller gets an empty one.
Drained(m) == m \in Oversize
EndOfConnection(m) == m = Term

\* The agent gets a message.  An empty one ends it, as "F" does.
AgentReceive(a) ==
  /\ aPc[a] = "idle" /\ toAgent[a] # <<>>
  /\ LET m == Head(toAgent[a]) IN
     \/ /\ ~Drained(m) /\ ~EndOfConnection(m)
        /\ aPc' = [aPc EXCEPT ![a] = "busy"]
        /\ running' = [running EXCEPT ![a] = <<m>>]
        /\ toAgent' = [toAgent EXCEPT ![a] = Tail(@)]
     \/ /\ Drained(m) \/ EndOfConnection(m)
        /\ aPc' = [aPc EXCEPT ![a] = "gone"]
        /\ UNCHANGED <<running, toAgent>>
  /\ UNCHANGED <<callerVars, sharedVars, serverVars, backlog, crashes, outcome,
                 fromAgent>>

\* The handler returns true or false, and the result is written back.
AgentFinish(a) ==
  /\ aPc[a] = "busy"
  /\ \E rc \in RC :
       /\ fromAgent' = [fromAgent EXCEPT ![a] =
                          Append(@, [id |-> Head(running[a]), rc |-> rc])]
       /\ outcome' = [outcome EXCEPT ![Head(running[a])] = rc]
  /\ running' = [running EXCEPT ![a] = <<>>]
  /\ aPc' = [aPc EXCEPT ![a] = "idle"]
  /\ UNCHANGED <<callerVars, sharedVars, serverVars, backlog, crashes, toAgent>>

\* The initiator's process has ended: the agent reads end of file.
AgentEOF(a) ==
  /\ aPc[a] = "idle" /\ toAgent[a] = <<>> /\ ~Up
  /\ aPc' = [aPc EXCEPT ![a] = "gone"]
  /\ UNCHANGED <<callerVars, sharedVars, serverVars, running, backlog, crashes,
                 outcome, netVars>>

\* The agent's process dies, with whatever it held.
AgentCrash(a) ==
  /\ aPc[a] \in {"idle", "busy"}
  /\ crashes < MaxCrashes
  /\ crashes' = crashes + 1
  /\ aPc' = [aPc EXCEPT ![a] = "gone"]
  /\ UNCHANGED <<callerVars, sharedVars, serverVars, running, backlog, outcome,
                 netVars>>

AgentStep(a) == AgentReceive(a) \/ AgentFinish(a) \/ AgentEOF(a)

Next ==
  \/ Caller
  \/ Server
  \/ \E a \in Agents : AgentStep(a) \/ AgentConnect(a) \/ AgentCrash(a)

Spec == Init /\ [][Next]_vars

\* The threads keep running, and a handler is taken to return: what one that
\* does not return comes to is in Job.  Nobody owes a call, a connection, a
\* crash or a spurious wakeup.
Fairness ==
  /\ WF_vars(CallerStep)
  /\ WF_vars(Server)
  /\ \A a \in Agents : WF_vars(AgentStep(a))

FairSpec == Spec /\ Fairness

-----------------------------------------------------------------------------
(* Properties *)

Batch == base .. taskId - 1

\* At most one message is under way on a connection, in either direction or
\* in the agent, and none while the dispatch thread takes the client for
\* idle.  readFromSocket reads up to a whole buffer whatever the size prefix
\* says, so two messages back to back would be taken for one.
Load(a) == Len(toAgent[a]) + Len(running[a]) + Len(fromAgent[a])
StopAndWait ==
  \A a \in Agents :
    /\ Load(a) <= 1
    /\ a \notin active /\ toAgent[a] # <<Term>> => Load(a) = 0

\* The caller sleeps on endCond only while a task of its batch has no result
\* yet, although tasksDispatched is counted outside the mutex.
BlockedHasWork ==
  pc = "blocked" /\ ~endWake =>
    \E t \in Batch : t \notin {r.id : r \in ToSet(resultList)}

\* waitForCompletion reports exactly the tasks of its batch that an agent
\* ran and answered with a failure.
ReportExact ==
  [][batches' # batches =>
       /\ \A t \in Batch : outcome[t] # NotRun
       /\ failedIds' = {t \in Batch : outcome[t] = 1}]_vars

\* The caller and its results as dispatch.h sees them.
Phase ==
  CASE pc \in {"init", "open", "counting"} -> "open"
    [] pc \in {"waiting", "blocked"} -> "waiting"
    [] OTHER -> "over"
FinishedIds == {r.id : r \in ToSet(resultList)}

\* nwDispatch keeps the promise of the abstract class it derives from.
Contract == INSTANCE Dispatch WITH
  Task     <- TaskId,
  phase    <- Phase,
  issued   <- 0 .. taskId - 1,
  batch    <- Batch,
  finished <- FinishedIds,
  failed   <- FailedIds,
  reported <- failedIds
ImplementsDispatch == Contract!Spec

\* A task went to agent a, which is gone: no result will ever come.
LostWith(a) ==
  aPc[a] = "gone" /\ (running[a] # <<>> \/ \E m \in ToSet(toAgent[a]) : m # Term)

\* Once an agent has been accepted, waitForCompletion returns unless an
\* agent took a task with it (or its death killed the initiator): the death
\* of an agent that holds nothing delays no one.  An agent whose handler never
\* returned would hold up the wait as a dead one does; here they all return.
WaitCompletes ==
  pc = "waiting" /\ clientList # {} ~>
    pc \in {"open", "killed"} \/ \E a \in Agents : LostWith(a)

\* terminate returns, and every agent that ever connected ends: told so,
\* or by the end of file it reads when the initiator is gone.
AgentsReleased ==
  pc = "joining" ~> ~Up /\ \A a \in Agents : aPc[a] \in {"off", "gone"}

-----------------------------------------------------------------------------
(* The inductive invariant, from which NwDispatch_proofs derives the safety  *)
(* properties.                                                               *)

\* The first task still queued: taskQ holds NextOut .. taskId - 1, in order.
NextOut == taskId - Len(taskQ)
ResultIds == {resultList[i].id : i \in DOMAIN resultList}

\* Agent a, or its connection, holds task t.
Holds(a, t) ==
  \/ Len(toAgent[a]) = 1 /\ toAgent[a][1] = t
  \/ Len(running[a]) = 1 /\ running[a][1] = t
  \/ Len(fromAgent[a]) = 1 /\ fromAgent[a][1].id = t

\* The caller's counters agree with the batch.
Accounting ==
  /\ base <= NextOut
  /\ pc = "counting" => tasksDispatched = taskId - base - 1
  /\ pc \notin {"counting", "killed"} => tasksDispatched = taskId - base
  /\ pc \in {"waiting", "blocked"} => batches < MaxBatches
  /\ pc \in {"init", "joining", "closing", "exited"} => base = taskId
  /\ pc = "blocked" /\ ~endWake => Len(resultList) # tasksDispatched

\* Every task that left the queue is with one agent or has one result.
Custody ==
  /\ \A i \in DOMAIN taskQ : taskQ[i] = NextOut + i - 1
  /\ \A i \in DOMAIN resultList : resultList[i].id \in base .. NextOut - 1
  /\ \A i, j \in DOMAIN resultList : resultList[i].id = resultList[j].id => i = j
  /\ \A a \in Agents, t \in TaskId :
       Holds(a, t) => t \in base .. NextOut - 1 /\ t \notin ResultIds
  /\ \A a, b \in Agents, t \in TaskId : Holds(a, t) /\ Holds(b, t) => a = b
  /\ \A t \in base .. NextOut - 1 : t \in ResultIds \/ \E a \in Agents : Holds(a, t)

\* An agent holds a task exactly while it counts as active.
OnePerAgent ==
  /\ cliVec \cap active = {}
  /\ \A a \in Agents :
       /\ Load(a) <= 1
       /\ a \in active <=> \E t \in TaskId : Holds(a, t)
       /\ aPc[a] = "busy" => running[a] # <<>>
       /\ Len(toAgent[a]) = 1 /\ toAgent[a][1] = Term =>
            pc \in {"closing", "exited", "killed"} /\ a \notin closing

\* The history of the return codes agrees with the results.
Outcomes ==
  /\ \A i \in DOMAIN resultList : outcome[resultList[i].id] = resultList[i].rc
  /\ \A a \in Agents : Len(fromAgent[a]) = 1 =>
       outcome[fromAgent[a][1].id] = fromAgent[a][1].rc

\* The counters, the queues, the messages and the agents agree on where each
\* task of the batch is; the other safety properties follow from this.
IInv == TypeOK /\ Accounting /\ Custody /\ OnePerAgent /\ Outcomes
=============================================================================
