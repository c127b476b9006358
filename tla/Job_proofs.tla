----------------------------- MODULE Job_proofs -----------------------------
(****************************************************************************)
(* Proofs about Job, for any number of agents, segments, blocks and faults, *)
(* and about the way the job cuts its files, FilePartition, for every file, *)
(* every number of agents and cores and every limit of a block.             *)
(****************************************************************************)
EXTENDS Job, FilePartition, QueueLemmas

-----------------------------------------------------------------------------
(* The steps in three groups *)

\* Steps of sortHandler on one agent.
SortStep(a) ==
  \/ SortBegin(a) \/ \E k \in 1 .. MaxBlocks : SortBlock(a, k)
  \/ SortBlocksDone(a) \/ MergeBlocks(a) \/ UnlinkBlocks(a)

\* The segments have their numbers, and the merge task is none of them.
LEMMA Numbers ==
  /\ MergeTask \notin Segment /\ 0 \notin Segment /\ MergeTask # 0
  /\ Segment \subseteq 0 .. MergeTask /\ MergeTask \in 0 .. MergeTask
  /\ 0 \in 0 .. MergeTask /\ 1 .. Segments + 1 = Segment \cup {MergeTask}
BY JobAssumption DEF Segment, MergeTask

\* No record of a block is in a file that does not exist.
LEMMA NoFileFacts ==
  /\ {} # NoFile
  /\ \A i \in Segment : \A K : ~(NoFile \subseteq {<<i, k>> : k \in K})
  /\ \A i \in Segment : \A k : {<<i, k>>} # NoFile
<1>1. <<0, 0>> \in NoFile /\ <<0, 0>> \notin {}
  BY DEF NoFile
<1>2. ASSUME NEW i \in Segment, NEW K
      PROVE  <<0, 0>> \notin {<<i, k>> : k \in K}
  <2>1. i # 0
    BY Numbers
  <2>2. \A k \in K : <<i, k>> # <<0, 0>>
    BY <2>1
  <2>3. QED
    BY <2>2
<1>3. ASSUME NEW i \in Segment, NEW k
      PROVE  <<0, 0>> \notin {<<i, k>>}
  <2>1. i # 0
    BY Numbers
  <2>2. QED
    BY <2>1
<1>4. QED
  BY <1>1, <1>2, <1>3

\* What such a step leaves alone: everything but its own segment and its own
\* scratch files; and it forgets no failure.
Frame(a) ==
  /\ agent[a].task \in Segment
  /\ agent'[a].task = agent[a].task
  /\ \A b \in Agent \ {a} : agent'[b] = agent[b]
  /\ hurt \subseteq hurt'
  /\ \A j \in Segment \ {agent[a].task} :
       /\ split'[j] = split[j] /\ piece'[j] = piece[j]
       /\ \A k \in 0 .. MaxBlocks : <<j, k>> \in hurt' <=> <<j, k>> \in hurt
  /\ \A b \in Agent \ {a} : scratch'[b] = scratch[b]
  /\ UNCHANGED <<dispatcher, lsort, output, given>>

\* A step of sortHandler is about its own segment and its own disk only.
LEMMA OwnSegmentOnly ==
  ASSUME TypeOK, NEW a \in Agent, SortStep(a)
  PROVE  Frame(a)
<1> USE DEF Frame, TypeOK, AgentState, HasTask, files, ghosts, Hurt, Hangs
<1>1. CASE SortBegin(a)
  BY <1>1 DEF SortBegin, Becomes, Dies
<1>2. ASSUME NEW k \in 1 .. MaxBlocks, SortBlock(a, k)
      PROVE  Frame(a)
  BY <1>2 DEF SortBlock
<1>3. CASE SortBlocksDone(a)
  BY <1>3 DEF SortBlocksDone, Becomes
<1>4. CASE MergeBlocks(a)
  BY <1>4 DEF MergeBlocks, Becomes, Dies
<1>5. CASE UnlinkBlocks(a)
  BY <1>5 DEF UnlinkBlocks, Becomes
<1> HIDE DEF Frame, TypeOK
<1>6. QED
  BY <1>1, <1>2, <1>3, <1>4, <1>5 DEF SortStep

-----------------------------------------------------------------------------
(* Type correctness *)

\* An agent that goes somewhere else stays in its type.
LEMMA BecomesType ==
  ASSUME agent \in [Agent -> AgentState], NEW a \in Agent,
         NEW x \in {"idle", "blocks", "merge", "unlink", "true", "false", "hung", "dead"},
         agent' = [agent EXCEPT ![a].pc = x]
  PROVE  agent' \in [Agent -> AgentState]
BY DEF AgentState

\* An agent that gets a task stays in its type.
LEMMA GivenType ==
  ASSUME agent \in [Agent -> AgentState], NEW a \in Agent,
         NEW t \in 0 .. MergeTask, agent' = [agent EXCEPT ![a].task = t]
  PROVE  agent' \in [Agent -> AgentState]
BY DEF AgentState

\* sortHandler leaves the variables in their types: what it merges are files
\* that exist.
LEMMA SortTypeStep ==
  ASSUME TypeOK, NEW a \in Agent, SortStep(a)
  PROVE  TypeOK'
<1> USE DEF HasTask, files, ghosts, lsort, dispatcher, Hurt, Fault, Hangs
<1>0. agent \in [Agent -> AgentState]
  BY DEF TypeOK
<1>9. scratch \in [Agent -> [1 .. MaxBlocks -> Content]]
  BY DEF TypeOK
<1>1. /\ piece \in [Segment -> Content]
      /\ hurt \subseteq Segment \X (0 .. MaxBlocks)
      /\ split \in [Segment -> 0 .. MaxBlocks]
      /\ faults \in 0 .. MaxFaults /\ MaxBlocks \in Nat /\ MaxFaults \in Nat
  BY JobAssumption DEF TypeOK
<1>2. /\ agent' \in [Agent -> AgentState] /\ piece' \in [Segment -> Content]
      /\ scratch' \in [Agent -> [1 .. MaxBlocks -> Content]]
      /\ hurt' \subseteq Segment \X (0 .. MaxBlocks)
      /\ split' \in [Segment -> 0 .. MaxBlocks]
      /\ faults' \in 0 .. MaxFaults
      => TypeOK'
  BY OwnSegmentOnly DEF Frame, TypeOK, D!TypeOK
<1>3. CASE SortBegin(a)
  <2>1. agent' \in [Agent -> AgentState]
    <3>1. \A n \in 1 .. MaxBlocks : 1 .. n \in SUBSET (1 .. MaxBlocks)
      BY <1>1
    <3>2. \/ agent' = [agent EXCEPT ![a].pc = "false"]
          \/ agent' = [agent EXCEPT ![a].pc = "dead"]
          \/ agent' = [agent EXCEPT ![a].pc = "hung"]
          \/ \E n \in 1 .. MaxBlocks :
               agent' = [agent EXCEPT ![a].pc = "blocks", ![a].todo = 1 .. n]
      BY <1>3 DEF SortBegin, Becomes, Dies
    <3>3. QED
      BY <1>0, <3>1, <3>2 DEF AgentState
  <2>2. QED
    BY <1>1, <1>9, <1>2, <1>3, <2>1 DEF SortBegin
<1>4. ASSUME NEW k \in 1 .. MaxBlocks, SortBlock(a, k)
      PROVE  TypeOK'
  <2>1. agent' \in [Agent -> AgentState]
    <3>1. /\ agent[a].todo \ {k} \in SUBSET (1 .. MaxBlocks)
          /\ agent[a].done \cup {k} \in SUBSET (1 .. MaxBlocks)
      BY <1>0 DEF AgentState
    <3>2. \/ agent' = [agent EXCEPT ![a].todo = @ \ {k}]
          \/ agent' = [agent EXCEPT ![a].todo = @ \ {k}, ![a].done = @ \cup {k}]
      BY <1>4 DEF SortBlock
    <3>3. QED
      BY <1>0, <3>1, <3>2 DEF AgentState
  <2>2. {<<agent[a].task, k>>} \in Content
    BY <1>4 DEF SortBlock, Content, Block
  <2>3. scratch' \in [Agent -> [1 .. MaxBlocks -> Content]]
    <3> DEFINE f == {<<agent[a].task, k>>}
    <3>1. scratch' = scratch \/ scratch' = [scratch EXCEPT ![a][k] = f]
      BY <1>4 DEF SortBlock
    <3>2. f \in Content
      BY <2>2
    <3> HIDE DEF f
    <3>3. [scratch[a] EXCEPT ![k] = f] \in [1 .. MaxBlocks -> Content]
      BY <1>9, <3>2
    <3>4. QED
      BY <1>9, <3>1, <3>3
  <2>4. QED
    BY <1>1, <1>9, <1>2, <1>4, <2>1, <2>3 DEF SortBlock
<1>5. CASE SortBlocksDone(a)
  <2>1. agent' \in [Agent -> AgentState]
    <3>1. agent[a].done \in SUBSET (1 .. MaxBlocks)
      BY <1>0 DEF AgentState
    <3>2. \/ agent' = [agent EXCEPT ![a].pc = "false", ![a].done = agent[a].done]
          \/ agent' = [agent EXCEPT ![a].pc = "merge", ![a].done = agent[a].done]
          \/ agent' = [agent EXCEPT ![a].pc = "hung"]
      BY <1>5 DEF SortBlocksDone, Sorted, Becomes
    <3>3. QED
      BY <1>0, <3>1, <3>2 DEF AgentState
  <2>2. QED
    BY <1>1, <1>9, <1>2, <1>5, <2>1 DEF SortBlocksDone
<1>6. CASE MergeBlocks(a)
  <2> DEFINE ins == {scratch[a][k] : k \in agent[a].done}
  <2>1. agent' \in [Agent -> AgentState]
    <3>1. \/ agent' = [agent EXCEPT ![a].pc = "unlink"]
          \/ agent' = [agent EXCEPT ![a].pc = "dead"]
          \/ agent' = [agent EXCEPT ![a].pc = "hung"]
      BY <1>6 DEF MergeBlocks, Becomes, Dies
    <3>2. QED
      BY <1>1, <3>1, <1>0, BecomesType
  <2>2. /\ NoFile \notin ins => UNION ins \in Content
        /\ SUBSET UNION (ins \ {NoFile}) \subseteq Content
    <3>1. \A f \in ins : f \in Content
      <4>1. agent[a].done \subseteq 1 .. MaxBlocks
        BY <1>0 DEF AgentState
      <4>2. scratch[a] \in [1 .. MaxBlocks -> Content]
        BY <1>9
      <4>3. \A k \in agent[a].done : scratch[a][k] \in Content
        BY <4>1, <4>2
      <4>4. QED
        BY <4>3
    <3>2. QED
      BY <3>1 DEF Content
  <2>3. {} \in Content
    BY DEF Content
  <2> HIDE DEF ins
  <2>4. piece' \in [Segment -> Content]
    BY <1>1, <1>6, <2>2, <2>3 DEF MergeBlocks, ins
  <2>5. QED
    BY <1>1, <1>9, <1>2, <1>6, <2>1, <2>4 DEF MergeBlocks
<1>7. CASE UnlinkBlocks(a)
  <2>1. agent' \in [Agent -> AgentState]
    BY <1>1, <1>7, <1>0, BecomesType DEF UnlinkBlocks, Becomes
  <2>2. scratch' \in [Agent -> [1 .. MaxBlocks -> Content]]
    <3> DEFINE f == [k \in 1 .. MaxBlocks |->
                     IF k \in agent[a].done THEN NoFile ELSE scratch[a][k]]
    <3>1. scratch' = [scratch EXCEPT ![a] = f]
      BY <1>7 DEF UnlinkBlocks
    <3>2. NoFile \in Content
      BY DEF Content
    <3>3. f \in [1 .. MaxBlocks -> Content]
      BY <1>9, <3>2
    <3> HIDE DEF f
    <3>4. QED
      BY <1>9, <3>1, <3>3
  <2>3. QED
    BY <1>1, <1>9, <1>2, <1>7, <2>1, <2>2 DEF UnlinkBlocks
<1>8. QED
  BY <1>3, <1>4, <1>5, <1>6, <1>7 DEF SortStep

\* So do the steps of lsort, of the network and of the merge task.
LEMMA TypeStep ==
  TypeOK /\ [Next]_vars => TypeOK'
<1>0. SUFFICES ASSUME TypeOK, [Next]_vars
               PROVE  TypeOK'
  OBVIOUS
<1> TypeOK
  BY <1>0
<1> USE Numbers DEF TypeOK, D!TypeOK, dispatcher, lsort, files, ghosts, Fault
<1>1. CASE Start
  BY <1>1, JobAssumption DEF Start
<1>2. CASE DispatchIter
  <2>1. CASE serial' = serial + 1 /\ D!DispatchTask(serial') /\ UNCHANGED <<main, faults>>
    BY <1>2, <2>1, JobAssumption DEF DispatchIter, D!DispatchTask, Segment
  <2>2. CASE Fault /\ main' = "hung" /\ UNCHANGED <<serial, dispatcher>>
    BY <1>2, <2>2, JobAssumption DEF DispatchIter
  <2>3. QED
    BY <1>2, <2>1, <2>2 DEF DispatchIter
<1>3. CASE WaitForSorts
  BY <1>3 DEF WaitForSorts, D!Wait
<1>4. CASE SortsDone
  BY <1>4 DEF SortsDone, D!Return, OutArgs
<1>5. CASE DispatchMerge
  BY <1>5 DEF DispatchMerge, D!DispatchTask
<1>6. CASE WaitForMerge
  BY <1>6 DEF WaitForMerge, D!Wait
<1>7. CASE MergeDone
  BY <1>7 DEF MergeDone, D!Return
<1>8. CASE Unlink
  <2>1. NoFile \in Content
    BY DEF Content
  <2>2. QED
    BY <1>8, <2>1 DEF Unlink
<1>9. CASE Terminate
  BY <1>9 DEF Terminate, D!End
<1>10. ASSUME NEW a \in Agent, SortStep(a)
       PROVE  TypeOK'
  BY <1>10, SortTypeStep
<1>11. ASSUME NEW a \in Agent, MergePieces(a)
       PROVE  TypeOK'
  <2> DEFINE ins == {piece[i] : i \in Inputs(mergeArgs)}
  <2>1. NoFile \notin ins => SUBSET UNION ins \subseteq Content
    <3>1. \A f \in ins : f \in Content
      BY DEF Inputs
    <3>2. QED
      BY <3>1 DEF Content
  <2> HIDE DEF ins
  <2>2. output' \in Content
    BY <1>11, <2>1 DEF MergePieces, ins
  <2>3. \/ agent' = [agent EXCEPT ![a].pc = "true"]
        \/ agent' = [agent EXCEPT ![a].pc = "false"]
        \/ agent' = [agent EXCEPT ![a].pc = "dead"]
        \/ agent' = [agent EXCEPT ![a].pc = "hung"]
    BY <1>11 DEF MergePieces, Becomes, Dies, Hangs
  <2>4. agent' \in [Agent -> AgentState]
    BY <2>3, BecomesType
  <2>5. QED
    BY <1>11, <2>2, <2>4, JobAssumption DEF MergePieces, Hangs
<1>12. ASSUME NEW a \in Agent, Give(a)
       PROVE  TypeOK'
  <2>1. PICK t \in Queued :
          given' = given \cup {t} /\ agent' = [agent EXCEPT ![a].task = t]
    BY <1>12 DEF Give, First
  <2>2. t \in issued /\ t \in 0 .. MergeTask
    BY <2>1 DEF Queued
  <2>3. agent' \in [Agent -> AgentState]
    BY <2>1, <2>2, GivenType
  <2>4. QED
    BY <1>12, <2>1, <2>2, <2>3 DEF Give
<1>13. ASSUME NEW a \in Agent, GiveToDead(a)
       PROVE  TypeOK'
  <2>1. CASE UNCHANGED <<dispatcher, main>>
    <3>1. PICK t \in Queued :
            given' = given \cup {t} /\ agent' = [agent EXCEPT ![a].task = t]
      BY <1>13, <2>1 DEF GiveToDead, First, D!End
    <3>2. t \in issued /\ t \in 0 .. MergeTask
      BY <3>1 DEF Queued
    <3>3. agent' \in [Agent -> AgentState]
      BY <3>1, <3>2, GivenType
    <3>4. QED
      BY <1>13, <2>1, <3>1, <3>2, <3>3 DEF GiveToDead
  <2>2. CASE D!End /\ main' = "killed" /\ UNCHANGED <<given, agent>>
    BY <1>13, <2>2 DEF GiveToDead, D!End
  <2>3. QED
    BY <1>13, <2>1, <2>2 DEF GiveToDead
<1>14. ASSUME NEW a \in Agent, Answer(a)
       PROVE  TypeOK'
  <2>1. agent' \in [Agent -> AgentState]
    <3>1. agent' = [agent EXCEPT ![a] = Idle]
      BY <1>14 DEF Answer
    <3>2. Idle \in AgentState
      BY Zenon, Numbers DEF Idle, AgentState
    <3>3. QED
      BY <3>1, <3>2
  <2>2. D!TypeOK' /\ given' \subseteq issued'
    <3>1. UNCHANGED dispatcher \/ D!Finish(agent[a].task)
      BY <1>14 DEF Answer
    <3>2. given' = given
      BY <1>14 DEF Answer
    <3>3. QED
      BY <3>1, <3>2 DEF D!Finish
  <2>3. QED
    BY <1>14, <2>1, <2>2 DEF Answer
<1>15. ASSUME NEW a \in Agent, AgentCrash(a)
       PROVE  TypeOK'
  <2>1. agent' \in [Agent -> AgentState]
    BY <1>15, BecomesType DEF AgentCrash, Dies
  <2>2. QED
    BY <1>15, <2>1, JobAssumption DEF AgentCrash
<1>16. CASE UNCHANGED vars
  BY <1>16 DEF vars
<1> HIDE DEF TypeOK
<1>17. QED
  BY <1>0, <1>1, <1>2, <1>3, <1>4, <1>5, <1>6, <1>7, <1>8, <1>9, <1>10, <1>11,
     <1>12, <1>13, <1>14, <1>15, <1>16
  DEF Next, Main, Handler, SortStep

-----------------------------------------------------------------------------
(* The initial states, and what steps leave as it was *)

\* Nothing is dispatched, sorted or written at the start.
LEMMA InitInvariant ==
  Init => IInv
<1>0. SUFFICES ASSUME Init
               PROVE  IInv
  OBVIOUS
<1> USE <1>0 DEF Init, D!Init
<1>1. Idle \in AgentState
  BY Zenon, Numbers DEF Idle, AgentState
<1>2. NoFile \in Content
  BY DEF Content
<1>3. agent \in [Agent -> AgentState]
  BY <1>1
<1>4. \A a \in Agent : agent[a].task = 0 /\ agent[a].pc = "idle"
  BY DEF Idle
<1>5. TypeOK
  BY <1>2, <1>3, JobAssumption DEF TypeOK, D!TypeOK, Segment
<1>6. Stages /\ OwnBlocks
  BY DEF Stages, OwnBlocks, MergeTask
<1>7. Custody
  BY <1>4 DEF Custody, Fresh
<1>8. Sorting /\ Results /\ Merging
  BY <1>4, Numbers DEF Sorting, Results, Merging
<1>9. QED
  BY <1>5, <1>6, <1>7, <1>8 DEF IInv

\* An agent that goes somewhere else keeps the rest.
LEMMA BecomesEffect ==
  ASSUME agent \in [Agent -> AgentState], NEW a \in Agent, NEW x,
         agent' = [agent EXCEPT ![a].pc = x]
  PROVE  /\ agent'[a].pc = x /\ agent'[a].task = agent[a].task
         /\ agent'[a].todo = agent[a].todo /\ agent'[a].done = agent[a].done
         /\ \A b \in Agent \ {a} : agent'[b] = agent[b]
         /\ \A b \in Agent : agent'[b].task = agent[b].task
BY DEF AgentState

\* An agent that gets a task keeps the rest.
LEMMA GivenEffect ==
  ASSUME agent \in [Agent -> AgentState], NEW a \in Agent, NEW t,
         agent' = [agent EXCEPT ![a].task = t]
  PROVE  /\ agent'[a].task = t /\ agent'[a].pc = agent[a].pc
         /\ agent'[a].todo = agent[a].todo /\ agent'[a].done = agent[a].done
         /\ \A b \in Agent \ {a} : agent'[b] = agent[b]
BY DEF AgentState

\* What became of a segment stays, however many steps fail elsewhere.
LEMMA OutcomeKept ==
  ASSUME NEW i \in Segment, split'[i] = split[i], piece'[i] = piece[i],
         hurt \subseteq hurt'
  PROVE  /\ BadCause(i) => BadCause(i)'
         /\ GoodPiece(i) => GoodPiece(i)'
BY DEF BadCause, GoodPiece, Blocks, AtMostOne

\* A segment nobody has begun with stays so until a step is about it.
LEMMA FreshKept ==
  ASSUME NEW i \in Segment, split'[i] = split[i], piece'[i] = piece[i],
         \A k \in 0 .. MaxBlocks : <<i, k>> \in hurt' <=> <<i, k>> \in hurt
  PROVE  Fresh(i) => Fresh(i)'
BY DEF Fresh

\* An agent that does nothing has got as far as it had.
LEMMA ProgressKept ==
  ASSUME NEW b \in Agent, NEW i \in Segment, agent'[b] = agent[b],
         scratch'[b] = scratch[b], split'[i] = split[i], piece'[i] = piece[i],
         hurt \subseteq hurt',
         \A k \in 0 .. MaxBlocks : <<i, k>> \in hurt' <=> <<i, k>> \in hurt
  PROVE  Progress(b, i) => Progress(b, i)'
<1>1. Fresh(i) => Fresh(i)'
  BY FreshKept
<1>2. (BadCause(i) => BadCause(i)') /\ (GoodPiece(i) => GoodPiece(i)')
  BY OutcomeKept
<1>3. QED
  BY <1>1, <1>2 DEF Progress, Held, Tried, OnDisk, AtMostOne

\* When the whole batch has finished, no agent has a task.
LEMMA NoHolder ==
  ASSUME Custody, batch \subseteq finished
  PROVE  \A a \in Agent : agent[a].task = 0
BY DEF Custody

\* The steps that are not about tasks or segments.
Aside ==
  \/ Start \/ WaitForSorts \/ DispatchIter \/ DispatchMerge \/ WaitForMerge \/ Terminate

\* They leave the agents, the files and the results alone.
LEMMA AsideEffect ==
  ASSUME TypeOK, Aside
  PROVE  /\ UNCHANGED <<agent, given, files, ghosts, finished, failed, reported, mergeArgs>>
         /\ batch \subseteq batch'
BY DEF Aside, Start, DispatchIter, WaitForSorts, DispatchMerge, WaitForMerge,
       Terminate, D!DispatchTask, D!Wait, D!End, dispatcher, files, ghosts

-----------------------------------------------------------------------------
(* Stages *)

\* Where main is tells which tasks are in the batch.
LEMMA StagesStep ==
  IInv /\ [Next]_vars => Stages'
<1>0. SUFFICES ASSUME IInv, [Next]_vars
               PROVE  Stages'
  OBVIOUS
<1> TypeOK /\ Stages
  BY <1>0 DEF IInv
<1> USE DEF dispatcher, lsort
<1>1. ASSUME UNCHANGED <<dispatcher, lsort>>
      PROVE  Stages'
  BY <1>1 DEF Stages
<1>2. CASE Start
  BY <1>2 DEF Start, Stages
<1>3. CASE DispatchIter
  <2>1. batch' = 1 .. serial' /\ main' \in {"iters", "hung"}
    <3>1. batch = 1 .. serial /\ serial \in 0 .. Segments /\ main = "iters"
      BY <1>3 DEF DispatchIter, Stages, TypeOK
    <3>2. CASE serial' = serial + 1 /\ batch' = batch \cup {serial'} /\ main' = main
      BY <3>1, <3>2
    <3>3. CASE main' = "hung" /\ UNCHANGED <<serial, batch>>
      BY <3>1, <3>3
    <3>4. QED
      BY <1>3, <3>2, <3>3 DEF DispatchIter, D!DispatchTask
  <2>2. MergeTask \notin batch'
    BY <1>3, <2>1, JobAssumption DEF DispatchIter, MergeTask, TypeOK
  <2>3. QED
    BY <1>3, <2>1, <2>2 DEF DispatchIter, Stages
<1>4. CASE WaitForSorts
  BY <1>4, Numbers DEF WaitForSorts, D!Wait, Stages, Segment
<1>5. CASE SortsDone
  BY <1>5 DEF SortsDone, D!Return, Stages
<1>6. CASE DispatchMerge
  BY <1>6 DEF DispatchMerge, D!DispatchTask, Stages
<1>7. CASE WaitForMerge
  BY <1>7 DEF WaitForMerge, D!Wait, Stages
<1>8. CASE MergeDone
  BY <1>8 DEF MergeDone, D!Return, Stages
<1>9. CASE Unlink
  BY <1>9 DEF Unlink, Stages
<1>10. CASE Terminate
  BY <1>10 DEF Terminate, D!End, Stages
<1>11. ASSUME NEW a \in Agent, SortStep(a)
       PROVE  Stages'
  BY <1>1, <1>11, OwnSegmentOnly DEF Frame
<1>12. ASSUME NEW a \in Agent, MergePieces(a) \/ Give(a) \/ AgentCrash(a)
       PROVE  Stages'
  BY <1>1, <1>12 DEF MergePieces, Give, AgentCrash
<1>13. ASSUME NEW a \in Agent, GiveToDead(a)
       PROVE  Stages'
  BY <1>13 DEF GiveToDead, D!End, Stages
<1>14. ASSUME NEW a \in Agent, Answer(a)
       PROVE  Stages'
  BY <1>14 DEF Answer, D!Finish, Stages
<1>15. CASE UNCHANGED vars
  BY <1>1, <1>15 DEF vars
<1>16. QED
  BY <1>0, <1>2, <1>3, <1>4, <1>5, <1>6, <1>7, <1>8, <1>9, <1>10, <1>11,
     <1>12, <1>13, <1>14, <1>15
  DEF Next, Main, Handler, SortStep

-----------------------------------------------------------------------------
(* Custody *)

\* A task is given to one agent, which holds it until its result is back.
LEMMA CustodyStep ==
  IInv /\ [Next]_vars => Custody'
<1>0. SUFFICES ASSUME IInv, [Next]_vars
               PROVE  Custody'
  OBVIOUS
<1> TypeOK /\ Custody /\ agent \in [Agent -> AgentState]
  BY <1>0 DEF IInv, TypeOK
<1> USE DEF dispatcher, lsort, files, ghosts
<1>1. ASSUME UNCHANGED <<given, finished>>, batch \subseteq batch',
             \A b \in Agent : agent'[b].task = agent[b].task,
             \A i \in Segment \ given : Fresh(i)'
      PROVE  Custody'
  BY <1>1 DEF Custody
<1>2. ASSUME UNCHANGED <<piece, split, hurt>>
      PROVE  \A i \in Segment \ given : Fresh(i)'
  BY <1>2 DEF Custody, Fresh
<1>3. CASE Aside
  BY <1>1, <1>2, <1>3, AsideEffect
<1>4. CASE SortsDone \/ MergeDone
  <2>1. \A a \in Agent : agent'[a].task = 0
    BY <1>4, NoHolder DEF SortsDone, MergeDone, D!Return
  <2>2. given' = given /\ \A i \in Segment \ given : Fresh(i)'
    BY <1>2, <1>4 DEF SortsDone, MergeDone
  <2>3. QED
    BY <2>1, <2>2 DEF Custody
<1>5. CASE Unlink
  <2>1. \A i \in Segment \ given : Fresh(i)'
    BY <1>5 DEF Unlink, Custody, Fresh, TypeOK
  <2>2. QED
    BY <1>1, <1>5, <2>1 DEF Unlink
<1>6. ASSUME NEW a \in Agent, SortStep(a)
      PROVE  Custody'
  <2>1. Frame(a)
    BY <1>6, OwnSegmentOnly
  <2>2. agent[a].task \in given
    BY <2>1, Numbers DEF Frame, Custody
  <2>3. ASSUME NEW i \in Segment \ given
        PROVE  Fresh(i)'
    BY <2>1, <2>2, FreshKept DEF Frame, Custody
  <2>4. QED
    BY <1>1, <2>1, <2>3 DEF Frame
<1>7. ASSUME NEW a \in Agent, MergePieces(a) \/ AgentCrash(a)
      PROVE  Custody'
  <2>1. PICK x : agent' = [agent EXCEPT ![a].pc = x]
    BY <1>7 DEF MergePieces, AgentCrash, Becomes, Dies, Hangs
  <2>2. \A b \in Agent : agent'[b].task = agent[b].task
    BY <2>1, BecomesEffect
  <2>3. UNCHANGED <<given, finished, batch, piece, split, hurt>>
    BY <1>7 DEF MergePieces, AgentCrash
  <2>4. QED
    BY <1>1, <1>2, <2>2, <2>3
<1>8. ASSUME NEW a \in Agent, NEW t \in Queued, UNCHANGED <<dispatcher, files, ghosts>>,
             given' = given \cup {t}, agent' = [agent EXCEPT ![a].task = t]
      PROVE  Custody'
  <2>1. agent'[a].task = t /\ \A b \in Agent \ {a} : agent'[b] = agent[b]
    BY <1>8, GivenEffect
  <2>2. \A i \in Segment \ given' : Fresh(i)'
    BY <1>2, <1>8
  <2>3. t \in batch /\ t \notin given /\ t \notin finished
    BY DEF Queued
  <2>4. QED
    BY <1>8, <2>1, <2>2, <2>3 DEF Custody
<1>9. ASSUME NEW a \in Agent, Give(a)
      PROVE  Custody'
  BY <1>8, <1>9 DEF Give, First
<1>10. ASSUME NEW a \in Agent, GiveToDead(a)
       PROVE  Custody'
  <2>1. CASE UNCHANGED <<dispatcher, main>>
    BY <1>8, <1>10, <2>1 DEF GiveToDead, First, D!End
  <2>2. CASE D!End /\ UNCHANGED <<given, agent>>
    BY <1>1, <1>2, <1>10, <2>2 DEF GiveToDead, D!End
  <2>3. QED
    BY <1>10, <2>1, <2>2 DEF GiveToDead
<1>11. ASSUME NEW a \in Agent, Answer(a)
       PROVE  Custody'
  <2>1. agent' = [agent EXCEPT ![a] = Idle]
    BY <1>11 DEF Answer
  <2>2. agent'[a].task = 0 /\ \A b \in Agent \ {a} : agent'[b] = agent[b]
    BY <2>1 DEF Idle
  <2>3. given' = given /\ batch' = batch /\ finished' \subseteq finished \cup {agent[a].task}
    BY <1>11 DEF Answer, D!Finish
  <2>4. \A i \in Segment \ given' : Fresh(i)'
    BY <1>2, <1>11 DEF Answer
  <2>5. QED
    BY <2>2, <2>3, <2>4 DEF Custody
<1>12. CASE UNCHANGED vars
  BY <1>1, <1>2, <1>12 DEF vars
<1>13. QED
  BY <1>0, <1>3, <1>4, <1>5, <1>6, <1>7, <1>9, <1>10, <1>11, <1>12
  DEF Next, Main, Handler, SortStep, Aside

-----------------------------------------------------------------------------
(* Sorting *)

\* What multiMerge reads from the sorted blocks on the agent's disk.
LEMMA MergedBlocks ==
  ASSUME NEW a \in Agent, NEW i \in Segment, OnDisk(a, i)
  PROVE  UNION {scratch[a][k] : k \in agent[a].done} = {<<i, k>> : k \in agent[a].done}
<1>1. {scratch[a][k] : k \in agent[a].done} = {{<<i, k>>} : k \in agent[a].done}
  BY DEF OnDisk
<1>2. QED
  BY <1>1

\* sortHandler, on its own segment: what it has sorted is on its disk, what it
\* has not sorted failed, and what it merges is what it has sorted.
LEMMA SortProgress ==
  ASSUME TypeOK, NEW a \in Agent, SortStep(a), NEW i \in Segment,
         agent[a].task = i, Progress(a, i)
  PROVE  Progress(a, i)'
<1>1. agent \in [Agent -> AgentState] /\ split \in [Segment -> 0 .. MaxBlocks]
  BY DEF TypeOK
<1>2. scratch \in [Agent -> [1 .. MaxBlocks -> Content]] /\ piece \in [Segment -> Content]
  BY DEF TypeOK
<1>3. agent[a].done \subseteq 1 .. MaxBlocks
  BY <1>1 DEF AgentState
<1> USE DEF HasTask, files, ghosts, Hurt
<1>h. CASE Hangs(a)
  <2>1. agent'[a].pc = "hung"
    BY <1>1, <1>h, BecomesEffect DEF Hangs, Becomes
  <2>2. QED
    BY <2>1 DEF Progress
<1>4. CASE SortBegin(a)
  <2>1. Fresh(i) /\ agent[a].todo = {} /\ agent[a].done = {}
    BY <1>4 DEF SortBegin, Progress, Held
  <2>2. CASE Hurt(i, 0) /\ (Becomes(a, "false") \/ Dies(a)) /\ UNCHANGED split
    <3>1. split'[i] = 0 /\ <<i, 0>> \in hurt'
      BY <2>1, <2>2 DEF Fresh
    <3>2. BadCause(i)'
      BY <3>1 DEF BadCause
    <3>3. agent'[a].pc \in {"false", "dead"}
      BY SMTT(30), <1>1, <2>2, BecomesEffect DEF Becomes, Dies
    <3>4. QED
      BY <3>2, <3>3 DEF Progress
  <2>3. ASSUME NEW n \in 1 .. MaxBlocks, split' = [split EXCEPT ![i] = n],
               agent' = [agent EXCEPT ![a].pc = "blocks", ![a].todo = 1 .. n]
        PROVE  Progress(a, i)'
    <3>1. agent'[a].pc = "blocks" /\ agent'[a].todo = 1 .. n /\ agent'[a].done = {}
      BY <1>1, <2>1, <2>3 DEF AgentState
    <3>2. split'[i] = n /\ n # 0
      BY <1>1, <2>3, JobAssumption
    <3>3. QED
      BY <3>1, <3>2 DEF Progress, Held, Tried, OnDisk
  <2>4. QED
    BY <1>4, <1>h, <2>2, <2>3 DEF SortBegin
<1>5. ASSUME NEW k \in 1 .. MaxBlocks, SortBlock(a, k)
      PROVE  Progress(a, i)'
  <2>1. /\ agent[a].pc = "blocks" /\ k \in agent[a].todo /\ split' = split
        /\ agent'[a].pc = "blocks" /\ agent'[a].todo = agent[a].todo \ {k}
    BY <1>1, <1>5 DEF SortBlock, AgentState
  <2>2. /\ split[i] # 0 /\ Held(a) \subseteq 1 .. split[i]
        /\ Tried(a, i) /\ OnDisk(a, i)
    BY <2>1 DEF Progress
  <2>3. CASE /\ agent'[a].done = agent[a].done \cup {k}
             /\ scratch'[a] = [scratch[a] EXCEPT ![k] = {<<i, k>>}]
             /\ hurt' = hurt
    <3>1. \A j \in agent'[a].done : scratch'[a][j] = {<<i, j>>}
      BY ZenonT(40), <1>2, <1>3, <2>2, <2>3 DEF OnDisk
    <3>2. Held(a)' = Held(a)
      BY <2>1, <2>3 DEF Held
    <3>3. Tried(a, i)'
      BY <2>1, <2>2, <2>3, <3>2 DEF Tried
    <3>4. QED
      BY <2>1, <2>2, <3>1, <3>2, <3>3 DEF Progress, OnDisk
  <2>4. CASE /\ agent'[a].done = agent[a].done /\ scratch' = scratch
             /\ hurt' = hurt \cup {<<i, k>>}
    <3>1. Held(a)' \subseteq Held(a) /\ \A j \in Held(a) \ {k} : j \in Held(a)'
      BY <2>1, <2>4 DEF Held
    <3>2. Tried(a, i)'
      BY <2>1, <2>2, <2>4, <3>1 DEF Tried
    <3>3. QED
      BY <2>1, <2>2, <2>4, <3>1, <3>2 DEF Progress, OnDisk
  <2>5. CASE /\ scratch' = [scratch EXCEPT ![a][k] = {<<i, k>>}]
             /\ agent' = [agent EXCEPT ![a].todo = @ \ {k}, ![a].done = @ \cup {k}]
             /\ hurt' = hurt
    BY <1>1, <1>2, <2>3, <2>5 DEF AgentState
  <2>6. CASE /\ scratch' = scratch /\ hurt' = hurt \cup {<<i, k>>}
             /\ agent' = [agent EXCEPT ![a].todo = @ \ {k}]
    BY <1>1, <2>4, <2>6 DEF AgentState
  <2>7. QED
    BY <1>5, <2>5, <2>6 DEF SortBlock
<1>6. CASE SortBlocksDone(a) /\ ~Hangs(a)
  <2>1. /\ agent[a].pc = "blocks" /\ agent[a].todo = {}
        /\ agent'[a].todo = {} /\ agent'[a].done = agent[a].done
        /\ agent'[a].pc = IF AtMostOne(agent[a].done) THEN "false" ELSE "merge"
        /\ UNCHANGED <<split, hurt, scratch, piece>>
    BY <1>1, <1>6 DEF SortBlocksDone, Sorted, AgentState
  <2>2. /\ split[i] # 0 /\ Held(a) \subseteq 1 .. split[i]
        /\ Tried(a, i) /\ OnDisk(a, i)
    BY <2>1 DEF Progress
  <2>3. AtMostOne(agent[a].done) => BadCause(i)
    <3>1. \A b \in Blocks(i) \ hurt : \E k \in agent[a].done : b = <<i, k>>
      BY <2>1, <2>2 DEF Blocks, Tried, Held
    <3>2. QED
      BY <2>2, <3>1 DEF AtMostOne, BadCause
  <2>4. BadCause(i) => BadCause(i)'
    BY <2>1, OutcomeKept
  <2>5. Tried(a, i)' /\ OnDisk(a, i)' /\ Held(a)' = Held(a)
    BY <2>1, <2>2 DEF Tried, OnDisk, Held
  <2>6. QED
    BY <2>1, <2>2, <2>3, <2>4, <2>5 DEF Progress
<1>7. CASE MergeBlocks(a) /\ ~Hangs(a)
  <2> DEFINE ins == {scratch[a][k] : k \in agent[a].done}
  <2>1. /\ agent[a].pc = "merge" /\ agent[a].todo = {} /\ ~AtMostOne(agent[a].done)
        /\ split[i] # 0 /\ Held(a) \subseteq 1 .. split[i]
        /\ Tried(a, i) /\ OnDisk(a, i)
    BY <1>7 DEF MergeBlocks, Progress
  <2>2. UNION ins = {<<i, k>> : k \in agent[a].done}
    BY <2>1, MergedBlocks
  <2>3. UNCHANGED <<split, scratch>> /\ hurt \subseteq hurt'
    BY <1>7 DEF MergeBlocks
  <2>4. CASE Dies(a)
    <3>1. agent'[a].pc = "dead"
      BY <1>1, <2>4, BecomesEffect DEF Dies
    <3>2. QED
      BY <3>1 DEF Progress
  <2>5. CASE Becomes(a, "unlink") /\ (<<i, 0>> \in hurt' \/ piece'[i] = UNION ins)
    <3>1. /\ agent'[a].pc = "unlink" /\ agent'[a].todo = agent[a].todo
          /\ agent'[a].done = agent[a].done
      BY <1>1, <2>5, BecomesEffect DEF Becomes
    <3>2. Tried(a, i)' /\ OnDisk(a, i)' /\ Held(a)' = Held(a)
      BY <2>1, <2>3, <3>1 DEF Tried, OnDisk, Held
    <3>3. QED
      BY <2>1, <2>2, <2>3, <2>5, <3>1, <3>2 DEF Progress
  <2>6. QED
    BY <1>2, <1>7, <2>4, <2>5 DEF MergeBlocks
<1>8. CASE UnlinkBlocks(a) /\ ~Hangs(a)
  <2>1. /\ agent[a].pc = "unlink" /\ agent[a].todo = {} /\ ~AtMostOne(agent[a].done)
        /\ split[i] # 0 /\ Tried(a, i)
        /\ <<i, 0>> \in hurt \/ piece[i] = {<<i, k>> : k \in agent[a].done}
    BY <1>8 DEF UnlinkBlocks, Progress
  <2>2. PICK k \in agent[a].done : TRUE
    BY <2>1 DEF AtMostOne
  <2>3. <<i, 0>> \in hurt \/ (piece[i] # {} /\ Blocks(i) \subseteq piece[i] \cup hurt)
    BY <2>1, <2>2 DEF Blocks, Tried, Held
  <2>4. UNCHANGED <<split, piece, hurt>> /\ agent'[a].pc = "true"
    BY <1>1, <1>8, BecomesEffect DEF UnlinkBlocks, Becomes
  <2>5. GoodPiece(i)'
    BY <2>1, <2>3, <2>4 DEF GoodPiece, Blocks
  <2>6. QED
    BY <2>4, <2>5 DEF Progress
<1>9. QED
  BY <1>h, <1>4, <1>5, <1>6, <1>7, <1>8 DEF SortStep

\* An agent and its segment agree after every step, of that agent or another.
LEMMA SortingStep ==
  IInv /\ [Next]_vars => Sorting'
<1>0. SUFFICES ASSUME IInv, [Next]_vars
               PROVE  Sorting'
  OBVIOUS
<1> TypeOK /\ Custody /\ Sorting /\ Stages /\ agent \in [Agent -> AgentState]
  BY <1>0 DEF IInv, TypeOK
<1> USE DEF dispatcher, lsort, files, ghosts
<1>1. ASSUME UNCHANGED <<scratch, split, piece, hurt>>, NEW b \in Agent,
             agent'[b] = agent[b], agent'[b].task \in Segment
      PROVE  Progress(b, agent[b].task)'
  <2>1. PICK i \in Segment : agent[b].task = i
    BY <1>1
  <2>2. Progress(b, i)
    BY <2>1 DEF Sorting
  <2>3. Progress(b, i)'
    BY <1>1, <2>2, ProgressKept
  <2>4. agent'[b].task = i
    BY <1>1, <2>1
  <2>5. QED
    BY <2>3, <2>4
<1>2. CASE Aside
  BY <1>1, <1>2, AsideEffect DEF Sorting
<1>3. CASE SortsDone \/ MergeDone
  <2>1. UNCHANGED <<scratch, split, piece, hurt, agent>>
    BY <1>3 DEF SortsDone, MergeDone
  <2>2. QED
    BY <1>1, <2>1 DEF Sorting
<1>4. CASE Unlink
  <2>1. batch = {}
    BY <1>4 DEF Unlink, Stages
  <2>2. \A a \in Agent : agent[a].task = 0
    BY <2>1, NoHolder
  <2>3. agent' = agent
    BY <1>4 DEF Unlink
  <2>4. QED
    BY <2>2, <2>3, Numbers DEF Sorting
<1>5. ASSUME NEW a \in Agent, SortStep(a)
      PROVE  Sorting'
  <2>1. Frame(a)
    BY <1>5, OwnSegmentOnly
  <2>2. SUFFICES ASSUME NEW b \in Agent, agent'[b].task \in Segment
                 PROVE  Progress(b, agent[b].task)'
    BY DEF Sorting
  <2>3. CASE b = a
    <3>1. PICK i \in Segment : agent[a].task = i
      BY <2>1 DEF Frame
    <3>2. Progress(a, i) /\ agent'[a].task = i
      BY <2>1, <3>1 DEF Frame, Sorting
    <3>3. Progress(a, i)'
      BY <1>5, <3>1, <3>2, SortProgress
    <3>4. QED
      BY <2>3, <3>2, <3>3
  <2>4. CASE b # a
    <3>1. agent'[b] = agent[b]
      BY <2>1, <2>4 DEF Frame
    <3>2. PICK i \in Segment : agent[b].task = i
      BY <2>2, <3>1
    <3>3. Progress(b, i) /\ i # agent[a].task
      BY <2>4, <3>2, Numbers DEF Custody, Sorting
    <3>4. Progress(b, i)'
      BY <2>1, <2>4, <3>1, <3>3, ProgressKept DEF Frame
    <3>5. QED
      BY <3>1, <3>2, <3>4
  <2>5. QED
    BY <2>3, <2>4
<1>6. ASSUME NEW a \in Agent, MergePieces(a)
      PROVE  Sorting'
  <2>1. PICK x : agent' = [agent EXCEPT ![a].pc = x]
    BY <1>6 DEF MergePieces, Becomes, Dies, Hangs
  <2>2. agent'[a].task = MergeTask /\ \A b \in Agent \ {a} : agent'[b] = agent[b]
    BY <1>6, <2>1, BecomesEffect DEF MergePieces
  <2>3. UNCHANGED <<scratch, split, piece, hurt>>
    BY <1>6 DEF MergePieces
  <2>4. QED
    BY <1>1, <2>2, <2>3, Numbers DEF Sorting
<1>7. ASSUME NEW a \in Agent, NEW t \in Queued, UNCHANGED <<files, ghosts>>,
             agent' = [agent EXCEPT ![a].task = t],
             agent[a] = Idle \/ agent[a].pc = "dead"
      PROVE  Sorting'
  <2>1. /\ agent'[a].task = t /\ agent'[a].pc = agent[a].pc
        /\ agent'[a].todo = agent[a].todo /\ agent'[a].done = agent[a].done
        /\ \A b \in Agent \ {a} : agent'[b] = agent[b]
    BY <1>7, GivenEffect
  <2>2. t \in Segment => Fresh(t)
    BY DEF Queued, Custody
  <2>3. t \in Segment => Fresh(t)'
    BY <1>7, <2>2, FreshKept
  <2>4. t \in Segment => Progress(a, t)'
    BY <1>7, <2>1, <2>3 DEF Progress, Held, Idle
  <2>5. QED
    BY <1>1, <1>7, <2>1, <2>4 DEF Sorting
<1>8. ASSUME NEW a \in Agent, Give(a)
      PROVE  Sorting'
  BY <1>7, <1>8 DEF Give, First
<1>9. ASSUME NEW a \in Agent, GiveToDead(a)
      PROVE  Sorting'
  <2>1. CASE UNCHANGED <<dispatcher, main>>
    BY <1>7, <1>9, <2>1 DEF GiveToDead, First, D!End
  <2>2. CASE UNCHANGED <<given, agent>>
    BY <1>1, <1>9, <2>2 DEF GiveToDead, Sorting
  <2>3. QED
    BY <1>9, <2>1, <2>2 DEF GiveToDead
<1>10. ASSUME NEW a \in Agent, Answer(a)
       PROVE  Sorting'
  <2>1. agent' = [agent EXCEPT ![a] = Idle]
    BY <1>10 DEF Answer
  <2>2. agent'[a].task = 0 /\ \A b \in Agent \ {a} : agent'[b] = agent[b]
    BY <2>1 DEF Idle
  <2>3. UNCHANGED <<scratch, split, piece, hurt>>
    BY <1>10 DEF Answer
  <2>4. QED
    BY <1>1, <2>2, <2>3, Numbers DEF Sorting
<1>11. ASSUME NEW a \in Agent, AgentCrash(a)
       PROVE  Sorting'
  <2>1. agent'[a].pc = "dead" /\ \A b \in Agent \ {a} : agent'[b] = agent[b]
    BY <1>11, BecomesEffect DEF AgentCrash, Dies
  <2>2. Progress(a, agent[a].task)'
    BY <2>1 DEF Progress
  <2>3. UNCHANGED <<scratch, split, piece, hurt>>
    BY <1>11 DEF AgentCrash
  <2>4. QED
    BY <1>1, <2>1, <2>2, <2>3 DEF Sorting
<1>12. CASE UNCHANGED vars
  BY <1>1, <1>12 DEF vars, Sorting
<1>13. QED
  BY <1>0, <1>2, <1>3, <1>4, <1>5, <1>6, <1>8, <1>9, <1>10, <1>11, <1>12
  DEF Next, Main, Handler, SortStep, Aside

-----------------------------------------------------------------------------
(* OwnBlocks *)

\* A file of sorted blocks is written where there was none, from what its own
\* agent has sorted.
LEMMA OwnBlocksStep ==
  IInv /\ [Next]_vars => OwnBlocks'
<1>0. SUFFICES ASSUME IInv, [Next]_vars
               PROVE  OwnBlocks'
  OBVIOUS
<1> TypeOK /\ Sorting /\ OwnBlocks /\ piece \in [Segment -> Content]
  BY <1>0 DEF IInv, TypeOK
<1> USE DEF files, ghosts
<1>1. ASSUME UNCHANGED <<piece, split>>
      PROVE  OwnBlocks'
  BY <1>1 DEF OwnBlocks, Blocks
<1>2. CASE Unlink
  BY <1>2 DEF Unlink, OwnBlocks, Blocks
<1>3. ASSUME NEW a \in Agent, SortStep(a)
      PROVE  OwnBlocks'
  <2>1. Frame(a)
    BY <1>3, OwnSegmentOnly
  <2>2. PICK i \in Segment : agent[a].task = i
    BY <2>1 DEF Frame
  <2>3. Progress(a, i)
    BY <2>2 DEF Sorting
  <2>4. SUFFICES piece'[i] = NoFile \/ piece'[i] \subseteq Blocks(i)'
    BY <2>1, <2>2 DEF Frame, OwnBlocks, Blocks
  <2>5. CASE SortBegin(a)
    <3>1. piece[i] = NoFile
      BY <2>3, <2>5 DEF SortBegin, HasTask, Progress, Fresh
    <3>2. QED
      BY <2>5, <3>1 DEF SortBegin
  <2>6. CASE MergeBlocks(a)
    <3>1. split' = split /\ Held(a) \subseteq 1 .. split[i] /\ OnDisk(a, i)
      BY <2>3, <2>6 DEF MergeBlocks, HasTask, Progress
    <3>2. {<<i, k>> : k \in agent[a].done} \subseteq Blocks(i)'
      BY <3>1 DEF Held, Blocks
    <3>3. \/ piece'[i] \in {piece[i], {}}
          \/ piece'[i] \subseteq UNION {scratch[a][k] : k \in agent[a].done}
      BY <2>2, <2>6 DEF MergeBlocks
    <3>4. piece[i] = NoFile \/ piece[i] \subseteq Blocks(i)'
      BY <3>1 DEF OwnBlocks, Blocks
    <3>5. QED
      BY <3>1, <3>2, <3>3, <3>4, MergedBlocks
  <2>7. CASE ~SortBegin(a) /\ ~MergeBlocks(a)
    BY <1>1, <1>3, <2>7 DEF SortStep, SortBlock, SortBlocksDone, UnlinkBlocks, OwnBlocks
  <2>8. QED
    BY <2>5, <2>6, <2>7
<1>4. CASE Aside
  BY <1>1, <1>4, AsideEffect
<1>5. CASE SortsDone \/ MergeDone
  BY <1>1, <1>5 DEF SortsDone, MergeDone
<1>6. ASSUME NEW a \in Agent,
             MergePieces(a) \/ Give(a) \/ GiveToDead(a) \/ Answer(a) \/ AgentCrash(a)
      PROVE  OwnBlocks'
  BY <1>1, <1>6 DEF MergePieces, Give, GiveToDead, Answer, AgentCrash
<1>7. CASE UNCHANGED vars
  BY <1>1, <1>7 DEF vars
<1>8. QED
  BY <1>0, <1>2, <1>3, <1>4, <1>5, <1>6, <1>7 DEF Next, Main, Handler, SortStep, Aside

-----------------------------------------------------------------------------
(* Results *)

\* A result says what became of its segment.
LEMMA ResultsStep ==
  IInv /\ [Next]_vars => Results'
<1>0. SUFFICES ASSUME IInv, [Next]_vars
               PROVE  Results'
  OBVIOUS
<1> /\ TypeOK /\ Stages /\ Custody /\ Sorting /\ Results
    /\ finished \subseteq batch /\ failed \subseteq finished
    /\ agent \in [Agent -> AgentState]
  BY <1>0 DEF IInv, TypeOK, D!TypeOK
<1> USE DEF dispatcher, lsort, files, ghosts
<1>1. ASSUME UNCHANGED <<mergeArgs, split, piece>>, hurt \subseteq hurt', Sifted
      PROVE  Sifted'
  <2>1. ASSUME NEW i \in Segment
        PROVE  (BadCause(i) => BadCause(i)') /\ (GoodPiece(i) => GoodPiece(i)')
    BY <1>1, OutcomeKept
  <2>2. QED
    BY <1>1, <2>1 DEF Sifted
<1>2. ASSUME UNCHANGED <<split, piece>>, hurt \subseteq hurt', NEW i \in Segment
      PROVE  (BadCause(i) => BadCause(i)') /\ (GoodPiece(i) => GoodPiece(i)')
  BY <1>2, OutcomeKept
<1>3. ASSUME UNCHANGED <<mergeArgs, split, piece, finished, failed>>, hurt \subseteq hurt',
             \/ main' = main
             \/ main' \in {"iters", "sorts", "terminate", "exit", "killed", "hung"}
             \/ main \in {"merge", "mergeWait", "merging"}
      PROVE  Results'
  BY <1>1, <1>2, <1>3 DEF Results
<1>4. CASE Aside
  <2>1. \/ main' = main
        \/ main' \in {"iters", "sorts", "terminate", "exit", "killed", "hung"}
        \/ main \in {"merge", "mergeWait", "merging"}
    BY <1>4 DEF Aside, Start, DispatchIter, WaitForSorts, DispatchMerge, WaitForMerge,
                Terminate
  <2>2. QED
    BY <1>3, <1>4, <2>1, AsideEffect
<1>5. CASE SortsDone
  <2>1. /\ finished = Segment /\ finished' = {} /\ mergeArgs' = Segment \ failed
        /\ UNCHANGED <<split, piece, hurt>>
    BY <1>5 DEF SortsDone, D!Return, OutArgs, Stages
  <2>2. Sifted'
    <3>1. SUFFICES ASSUME NEW i \in Segment
                   PROVE  IF i \in mergeArgs' THEN GoodPiece(i)' ELSE BadCause(i)'
      BY DEF Sifted
    <3>2. IF i \in failed THEN BadCause(i) ELSE GoodPiece(i)
      BY <2>1 DEF Results
    <3>3. QED
      BY <1>2, <2>1, <3>2
  <2>3. QED
    BY <2>1, <2>2 DEF Results
<1>6. CASE MergeDone
  <2>1. /\ finished' = {} /\ main = "merging"
        /\ UNCHANGED <<mergeArgs, split, piece, hurt>>
    BY <1>6 DEF MergeDone, D!Return
  <2>2. Sifted'
    BY <1>1, <2>1 DEF Results
  <2>3. QED
    BY <2>1, <2>2 DEF Results
<1>7. CASE Unlink
  <2>1. finished' = {} /\ main' = "terminate"
    BY <1>7 DEF Unlink, Stages
  <2>2. QED
    BY <2>1 DEF Results
<1>8. ASSUME NEW a \in Agent, SortStep(a)
      PROVE  Results'
  <2>1. Frame(a)
    BY <1>8, OwnSegmentOnly
  <2>2. agent[a].task \in batch /\ agent[a].task \notin finished
    BY <2>1, Numbers DEF Frame, Custody
  <2>3. main \notin {"merge", "mergeWait", "merging", "unlink"}
    BY <2>1, <2>2, Numbers DEF Frame, Stages
  <2>4. ASSUME NEW i \in Segment \ {agent[a].task}
        PROVE  (BadCause(i) => BadCause(i)') /\ (GoodPiece(i) => GoodPiece(i)')
    BY <2>1, OutcomeKept DEF Frame
  <2>5. UNCHANGED <<finished, failed, main>>
    BY <2>1 DEF Frame
  <2>6. QED
    BY <2>2, <2>3, <2>4, <2>5 DEF Results
<1>9. ASSUME NEW a \in Agent,
             MergePieces(a) \/ Give(a) \/ GiveToDead(a) \/ AgentCrash(a)
      PROVE  Results'
  BY <1>3, <1>9 DEF MergePieces, Give, GiveToDead, D!End, AgentCrash
<1>10. ASSUME NEW a \in Agent, Answer(a)
       PROVE  Results'
  <2> DEFINE t == agent[a].task
  <2>1. UNCHANGED <<main, mergeArgs, split, piece, hurt>>
    BY <1>10 DEF Answer
  <2>2. CASE UNCHANGED dispatcher
    BY <1>3, <2>1, <2>2
  <2>3. CASE /\ finished' = finished \cup {t} /\ failed' \in {failed, failed \cup {t}}
             /\ t \notin finished /\ (t \in failed' <=> agent[a].pc = "false")
    <3>1. agent[a].pc \in {"true", "false"}
      BY <1>10 DEF Answer, Result
    <3>2. ASSUME NEW i \in finished' \cap Segment
          PROVE  IF i \in failed' THEN BadCause(i) ELSE GoodPiece(i)
      <4>1. CASE i = t
        <5>1. Progress(a, i)
          BY <4>1 DEF Sorting
        <5>2. QED
          BY <2>3, <3>1, <4>1, <5>1 DEF Progress
      <4>2. CASE i # t
        BY <2>3, <4>2 DEF Results
      <4>3. QED
        BY <4>1, <4>2
    <3>3. \A i \in finished' \cap Segment :
            IF i \in failed' THEN BadCause(i)' ELSE GoodPiece(i)'
      BY <1>2, <2>1, <3>2
    <3>4. main \in {"merge", "mergeWait", "merging", "unlink"} => Sifted'
      BY <1>1, <2>1 DEF Results
    <3>5. QED
      BY <2>1, <3>3, <3>4 DEF Results
  <2>4. QED
    BY <1>10, <2>2, <2>3 DEF Answer, D!Finish
<1>11. CASE UNCHANGED vars
  BY <1>3, <1>11 DEF vars
<1>12. QED
  BY <1>0, <1>4, <1>5, <1>6, <1>7, <1>8, <1>9, <1>10, <1>11
  DEF Next, Main, Handler, SortStep, Aside

-----------------------------------------------------------------------------
(* Merging *)

\* What the merge has accounted for stays.
LEMMA MergedKept ==
  ASSUME UNCHANGED <<mergeArgs, split, piece, output>>, hurt \subseteq hurt'
  PROVE  /\ Merged => Merged'
         /\ Accounted => Accounted'
<1>1. Emptied => Emptied'
  BY DEF Emptied
<1>2. ASSUME NEW i \in Segment
      PROVE  BadCause(i) => BadCause(i)'
  BY <1>2, OutcomeKept
<1>3. QED
  BY <1>1, <1>2 DEF Merged, Accounted, Blocks

\* Only the batch of the merge task has a merge task to hold.
LEMMA NoMergeTask ==
  ASSUME TypeOK, Custody, MergeTask \notin batch
  PROVE  /\ \A a \in Agent : agent[a].task # MergeTask
         /\ MergeTask \notin finished
BY Numbers DEF Custody, TypeOK, D!TypeOK

\* The merge task: what it read, and what lsort makes of its result.
LEMMA MergingStep ==
  IInv /\ [Next]_vars => Merging'
<1>0. SUFFICES ASSUME IInv, [Next]_vars
               PROVE  Merging'
  OBVIOUS
<1> /\ TypeOK /\ Stages /\ Custody /\ Results /\ Merging
    /\ finished \subseteq batch /\ failed \subseteq finished
    /\ agent \in [Agent -> AgentState]
  BY <1>0 DEF IInv, TypeOK, D!TypeOK
<1> USE DEF dispatcher, lsort, files, ghosts
\* Nothing changes but where main is, and it stays while the merge task is held.
<1>1. ASSUME UNCHANGED <<agent, finished, failed, reported, mergeArgs, split, piece,
                         output, hurt>>,
             main \in {"mergeWait", "merging"} => main' \in {"mergeWait", "merging"},
             main' # "unlink",
             main' \in {"terminate", "exit"} /\ code' = 0 =>
               main \in {"terminate", "exit"} /\ code = 0
      PROVE  Merging'
  BY <1>1, MergedKept DEF Merging
<1>2. CASE Aside
  <2>1. /\ UNCHANGED <<agent, finished, failed, reported, mergeArgs, split, piece,
                       output, hurt>>
    BY <1>2, AsideEffect
  <2>2. /\ main \in {"mergeWait", "merging"} => main' \in {"mergeWait", "merging"}
        /\ main' # "unlink"
        /\ main' \in {"terminate", "exit"} /\ code' = 0 =>
             main \in {"terminate", "exit"} /\ code = 0
    BY <1>2 DEF Aside, Start, DispatchIter, WaitForSorts, DispatchMerge, WaitForMerge,
                Terminate
  <2>3. QED
    BY <1>1, <2>1, <2>2
<1>3. CASE SortsDone
  <2>1. /\ finished' = {} /\ main' \in {"terminate", "merge"} /\ agent' = agent
        /\ main' = "terminate" => code' = -1
    BY <1>3 DEF SortsDone, D!Return
  <2>2. \A a \in Agent : agent[a].task = 0
    BY <1>3, NoHolder DEF SortsDone, D!Return
  <2>3. QED
    BY <2>1, <2>2, Numbers DEF Merging
<1>4. CASE MergeDone
  <2>1. /\ finished' = {} /\ agent' = agent /\ reported' = failed
        /\ main' = IF failed = {} THEN "unlink" ELSE "terminate"
        /\ main = "merging" /\ finished = batch
        /\ UNCHANGED <<mergeArgs, split, piece, output, hurt>>
    BY <1>4 DEF MergeDone, D!Return, Succeeded
  <2>2. \A a \in Agent : agent[a].task = 0
    BY <2>1, NoHolder
  <2>3. failed = {} => Merged
    BY <2>1 DEF Stages, Merging
  <2>4. Merged => Merged'
    BY <2>1, MergedKept
  <2>5. QED
    BY <2>1, <2>2, <2>3, <2>4, Numbers DEF Merging
<1>5. CASE Unlink
  <2>1. /\ main = "unlink" /\ main' = "terminate"
        /\ UNCHANGED <<agent, finished, mergeArgs, split, output, hurt>>
    BY <1>5 DEF Unlink
  <2>2. MergeTask \notin batch
    BY <2>1 DEF Stages
  <2>3. ASSUME NEW i \in Segment
        PROVE  IF i \in mergeArgs
               THEN split[i] # 0 /\ (Emptied \/ Blocks(i) \subseteq output \cup hurt)
               ELSE BadCause(i)
    <3>1. Merged /\ Sifted
      BY <2>1 DEF Merging, Results
    <3>2. CASE i \in mergeArgs
      BY <3>1, <3>2 DEF Sifted, GoodPiece, Merged, Emptied
    <3>3. QED
      BY <3>1, <3>2 DEF Sifted
  <2>4. Accounted'
    BY <2>1, <2>3 DEF Accounted, Emptied, Blocks, BadCause, AtMostOne
  <2>5. QED
    BY <2>1, <2>2, <2>4, NoMergeTask DEF Merging
<1>6. ASSUME NEW a \in Agent, SortStep(a)
      PROVE  Merging'
  <2>1. Frame(a)
    BY <1>6, OwnSegmentOnly
  <2>2. agent[a].task \in batch /\ agent[a].task # MergeTask
    BY <2>1, Numbers DEF Frame, Custody
  <2>3. MergeTask \notin batch /\ main \notin {"unlink", "terminate", "exit"}
    BY <2>2 DEF Stages
  <2>4. \A b \in Agent : agent'[b].task # MergeTask
    BY <2>1, <2>3, NoMergeTask DEF Frame
  <2>5. UNCHANGED <<main, finished, failed>>
    BY <2>1 DEF Frame
  <2>6. QED
    BY <2>3, <2>4, <2>5 DEF Merging
<1>7. ASSUME NEW a \in Agent, MergePieces(a)
      PROVE  Merging'
  <2> DEFINE ins == {piece[i] : i \in mergeArgs}
  <2>1. /\ agent[a].task = MergeTask
        /\ UNCHANGED <<dispatcher, lsort, piece, hurt>>
    BY <1>7 DEF MergePieces
  <2>2. /\ main \in {"mergeWait", "merging"} /\ MergeTask \notin finished
        /\ \A b \in Agent \ {a} : agent[b].task # MergeTask
    BY <2>1, Numbers DEF Merging, Custody
  <2>3. PICK x \in {"true", "false", "hung", "dead"} : agent' = [agent EXCEPT ![a].pc = x]
    BY <1>7 DEF MergePieces, Becomes, Dies, Hangs
  <2>4. agent'[a].pc = x /\ \A b \in Agent \ {a} : agent'[b] = agent[b]
    BY <2>3, BecomesEffect
  <2>5. {} \in ins => Emptied
    <3>1. Sifted
      BY <2>2 DEF Results
    <3>2. ASSUME NEW i \in mergeArgs, piece[i] = {}
          PROVE  <<i, 0>> \in hurt
      BY <3>1, <3>2 DEF Sifted, GoodPiece, TypeOK
    <3>3. QED
      BY <3>2 DEF Emptied
  <2>6. x = "true" => output' = UNION ins \/ {} \in ins
    <3>1. \/ output' = UNION ins
          \/ Becomes(a, "false") \/ Becomes(a, "hung")
          \/ {} \in ins
      BY <1>7 DEF MergePieces, Inputs, Hangs
    <3>2. /\ Becomes(a, "false") => agent'[a].pc = "false"
          /\ Becomes(a, "hung") => agent'[a].pc = "hung"
      BY BecomesEffect DEF Becomes
    <3>3. QED
      BY <2>4, <3>1, <3>2
  <2>7. output' = UNION ins => \A i \in mergeArgs : piece[i] \subseteq output'
    OBVIOUS
  <2> HIDE DEF ins
  <2>8. x = "true" => Merged'
    BY <2>1, <2>5, <2>6, <2>7 DEF Merged, Emptied
  <2>9. QED
    BY <2>1, <2>2, <2>4, <2>8 DEF Merging
<1>8. ASSUME NEW a \in Agent, NEW t \in Queued, phase # "over",
             agent[a].pc \in {"idle", "dead"},
             UNCHANGED <<dispatcher, lsort, files, ghosts>>,
             agent' = [agent EXCEPT ![a].task = t]
      PROVE  Merging'
  <2>1. /\ agent'[a].task = t /\ agent'[a].pc = agent[a].pc
        /\ \A b \in Agent \ {a} : agent'[b] = agent[b]
    BY <1>8, GivenEffect
  <2>2. t = MergeTask => main \in {"mergeWait", "merging"}
    BY <1>8 DEF Queued, Stages
  <2>3. (Merged => Merged') /\ (Accounted => Accounted')
    BY <1>8, MergedKept
  <2>4. QED
    BY <1>8, <2>1, <2>2, <2>3 DEF Merging
<1>9. ASSUME NEW a \in Agent, Give(a)
      PROVE  Merging'
  <2>1. agent[a].pc = "idle"
    BY <1>9 DEF Give, Idle
  <2>2. QED
    BY <1>8, <1>9, <2>1 DEF Give, First
<1>10. ASSUME NEW a \in Agent, GiveToDead(a)
       PROVE  Merging'
  <2>1. CASE UNCHANGED <<dispatcher, main>>
    BY <1>8, <1>10, <2>1 DEF GiveToDead, First, D!End
  <2>2. CASE /\ Queued # {} /\ D!End /\ main' = "killed"
             /\ UNCHANGED <<given, agent>>
    <3>1. \A b \in Agent : agent[b].task # MergeTask
      <4>1. SUFFICES ASSUME NEW b \in Agent, agent[b].task = MergeTask
                     PROVE  FALSE
        OBVIOUS
      <4>2. MergeTask \in given /\ batch = {MergeTask}
        BY <4>1, Numbers DEF Custody, Stages
      <4>3. QED
        BY <2>2, <4>2 DEF Queued
    <3>2. UNCHANGED <<agent, finished, failed, mergeArgs, split, piece, output, hurt>>
      BY <1>10, <2>2 DEF GiveToDead, D!End
    <3>3. Merged => Merged'
      BY <3>2, MergedKept
    <3>4. QED
      BY <2>2, <3>1, <3>2, <3>3 DEF Merging
  <2>3. QED
    BY <1>10, <2>1, <2>2 DEF GiveToDead
<1>11. ASSUME NEW a \in Agent, Answer(a)
       PROVE  Merging'
  <2> DEFINE t == agent[a].task
  <2>1. agent' = [agent EXCEPT ![a] = Idle] /\ UNCHANGED <<lsort, files, ghosts>>
    BY <1>11 DEF Answer
  <2>2. agent'[a].task # MergeTask /\ \A b \in Agent \ {a} : agent'[b] = agent[b]
    BY <2>1, Numbers DEF Idle
  <2>3. (Merged => Merged') /\ (Accounted => Accounted')
    BY <2>1, MergedKept
  <2>4. reported' = reported
    BY <1>11 DEF Answer, D!Finish
  <2>5. MergeTask \in finished' \ failed' => Merged
    <3>1. CASE UNCHANGED dispatcher
      BY <3>1 DEF Merging
    <3>2. CASE /\ finished' = finished \cup {t} /\ failed' \in {failed, failed \cup {t}}
               /\ (t \in failed' <=> agent[a].pc = "false")
      <4>1. agent[a].pc \in {"true", "false"}
        BY <1>11 DEF Answer, Result
      <4>2. CASE t = MergeTask
        BY <3>2, <4>1, <4>2 DEF Merging
      <4>3. CASE t # MergeTask
        BY <3>2, <4>3 DEF Merging
      <4>4. QED
        BY <4>2, <4>3
    <3>3. QED
      BY <1>11, <3>1, <3>2 DEF Answer, D!Finish
  <2>6. QED
    BY <2>1, <2>2, <2>3, <2>4, <2>5 DEF Merging
<1>12. ASSUME NEW a \in Agent, AgentCrash(a)
       PROVE  Merging'
  <2>1. agent' = [agent EXCEPT ![a].pc = "dead"]
        /\ UNCHANGED <<dispatcher, lsort, files, ghosts>>
    BY <1>12 DEF AgentCrash, Dies
  <2>2. /\ agent'[a].pc = "dead" /\ agent'[a].task = agent[a].task
        /\ \A b \in Agent \ {a} : agent'[b] = agent[b]
    BY <2>1, BecomesEffect
  <2>3. (Merged => Merged') /\ (Accounted => Accounted')
    BY <2>1, MergedKept
  <2>4. QED
    BY <2>1, <2>2, <2>3 DEF Merging
<1>13. CASE UNCHANGED vars
  <2>1. (Merged => Merged') /\ (Accounted => Accounted')
    BY <1>13, MergedKept DEF vars
  <2>2. QED
    BY <1>13, <2>1 DEF vars, Merging
<1>14. QED
  BY <1>0, <1>2, <1>3, <1>4, <1>5, <1>6, <1>7, <1>9, <1>10, <1>11, <1>12, <1>13
  DEF Next, Main, Handler, SortStep, Aside

-----------------------------------------------------------------------------
(* The theorems *)

\* The dispatcher, the agents and the files agree in every state.
THEOREM Invariance ==
  Spec => []IInv
<1>1. IInv /\ [Next]_vars => IInv'
  BY TypeStep, StagesStep, CustodyStep, SortingStep, OwnBlocksStep, ResultsStep, MergingStep
  DEF IInv
<1>2. QED
  BY InitInvariant, <1>1, PTL DEF Spec

\* A sorted segment never holds the blocks of an earlier task: whatever the
\* agent kept in its scratch directory, it merges what it has sorted itself.
THEOREM SegmentsAreOwn ==
  Spec => []OwnBlocks
<1>1. IInv => OwnBlocks
  BY DEF IInv
<1>2. QED
  BY Invariance, <1>1, PTL

\* When lsort exits with 0, every record that is missing was lost for one of
\* the causes the code has: no block goes missing on its way.
THEOREM LossesHaveCauses ==
  Spec => []LossHasCause
<1>1. IInv => LossHasCause
  <2>1. SUFFICES ASSUME IInv, main = "exit", code = 0, reported = {}, ~Emptied,
                        NEW i \in Segment
                 PROVE  /\ split[i] = 0 => <<i, 0>> \in hurt
                        /\ \A b \in Blocks(i) :
                             b \in output \cup hurt \/ AtMostOne(Blocks(i) \ hurt)
    BY DEF LossHasCause
  <2>2. Accounted
    BY <2>1 DEF IInv, Merging
  <2>3. CASE i \in mergeArgs
    BY <2>1, <2>2, <2>3 DEF Accounted
  <2>4. CASE i \notin mergeArgs
    <3>1. BadCause(i)
      BY <2>2, <2>4 DEF Accounted
    <3>2. split[i] = 0 => Blocks(i) = {}
      BY DEF Blocks
    <3>3. QED
      BY <3>1, <3>2 DEF BadCause
  <2>5. QED
    BY <2>3, <2>4
<1>2. QED
  BY Invariance, <1>1, PTL

\* Unlink is the only step that removes a sorted segment, once it is merged.
LEMMA SegmentRemoval ==
  ASSUME IInv, [Next]_vars, NEW i \in Segment, piece[i] # NoFile, piece'[i] = NoFile
  PROVE  piece[i] \subseteq output \/ Emptied
<1> TypeOK /\ Sorting /\ Merging /\ piece \in [Segment -> Content]
  BY DEF IInv, TypeOK
<1> piece[i] # NoFile /\ piece'[i] = NoFile
  OBVIOUS
<1> USE DEF files, ghosts
<1>1. ASSUME piece' = piece
      PROVE  FALSE
  BY <1>1
<1>2. CASE Unlink
  BY <1>2 DEF Unlink, Merging, Merged
<1>3. ASSUME NEW a \in Agent, SortStep(a)
      PROVE  FALSE
  <2>1. Frame(a)
    BY <1>3, OwnSegmentOnly
  <2>2. agent[a].task = i
    BY <2>1 DEF Frame
  <2>3. CASE MergeBlocks(a)
    <3>1. Progress(a, i)
      BY <2>2 DEF Sorting
    <3>2. OnDisk(a, i)
      BY <2>3, <3>1 DEF MergeBlocks, HasTask, Progress
    <3>3. \/ piece'[i] \in {piece[i], {}}
          \/ piece'[i] \subseteq UNION {scratch[a][k] : k \in agent[a].done}
      BY <2>2, <2>3 DEF MergeBlocks
    <3>4. QED
      BY <3>2, <3>3, MergedBlocks, NoFileFacts
  <2>4. CASE ~MergeBlocks(a)
    BY <1>1, <1>3, <2>4
    DEF SortStep, SortBegin, SortBlock, SortBlocksDone, UnlinkBlocks
  <2>5. QED
    BY <2>3, <2>4
<1>4. CASE Aside
  BY <1>1, <1>4, AsideEffect
<1>5. CASE SortsDone \/ MergeDone
  BY <1>1, <1>5 DEF SortsDone, MergeDone
<1>6. ASSUME NEW a \in Agent,
             MergePieces(a) \/ Give(a) \/ GiveToDead(a) \/ Answer(a) \/ AgentCrash(a)
      PROVE  FALSE
  BY <1>1, <1>6 DEF MergePieces, Give, GiveToDead, Answer, AgentCrash
<1>7. CASE UNCHANGED vars
  BY <1>1, <1>7 DEF vars
<1>8. QED
  BY <1>2, <1>3, <1>4, <1>5, <1>6, <1>7 DEF Next, Main, Handler, SortStep, Aside

\* UnlinkBlocks is the only step that removes a block, once it is merged.
LEMMA BlockRemoval ==
  ASSUME IInv, [Next]_vars, NEW a \in Agent, NEW k \in 1 .. MaxBlocks,
         scratch[a][k] # NoFile, scratch'[a][k] = NoFile
  PROVE  scratch[a][k] \subseteq piece[agent[a].task] \/ <<agent[a].task, 0>> \in hurt
<1> /\ TypeOK /\ Sorting
    /\ scratch \in [Agent -> [1 .. MaxBlocks -> Content]]
  BY DEF IInv, TypeOK
<1> scratch[a][k] # NoFile /\ scratch'[a][k] = NoFile
  OBVIOUS
<1> USE DEF files
<1>1. ASSUME scratch' = scratch
      PROVE  FALSE
  BY <1>1
<1>2. ASSUME NEW b \in Agent, SortStep(b)
      PROVE  scratch[a][k] \subseteq piece[agent[a].task] \/ <<agent[a].task, 0>> \in hurt
  <2>1. Frame(b)
    BY <1>2, OwnSegmentOnly
  <2>2. a = b
    BY <2>1 DEF Frame
  <2>3. PICK i \in Segment : agent[a].task = i
    BY <2>1, <2>2 DEF Frame
  <2>4. ASSUME NEW j \in 1 .. MaxBlocks, SortBlock(b, j)
        PROVE  FALSE
    <3>1. scratch' = scratch \/ scratch' = [scratch EXCEPT ![a][j] = {<<i, j>>}]
      BY <2>2, <2>3, <2>4 DEF SortBlock
    <3>2. {<<i, j>>} # NoFile
      BY NoFileFacts
    <3>3. QED
      BY <1>1, <3>1, <3>2
  <2>5. CASE UnlinkBlocks(b)
    <3>1. Progress(a, i) /\ agent[a].pc = "unlink"
      BY <2>2, <2>3, <2>5 DEF UnlinkBlocks, HasTask, Sorting
    <3>2. k \in agent[a].done
      BY <2>2, <2>5 DEF UnlinkBlocks
    <3>3. scratch[a][k] = {<<i, k>>}
      BY <3>1, <3>2 DEF Progress, OnDisk
    <3>4. QED
      BY <2>3, <3>1, <3>2, <3>3 DEF Progress
  <2>6. CASE SortBegin(b) \/ SortBlocksDone(b) \/ MergeBlocks(b)
    BY <1>1, <2>6 DEF SortBegin, SortBlocksDone, MergeBlocks
  <2>7. QED
    BY <1>2, <2>4, <2>5, <2>6 DEF SortStep
<1>3. CASE Aside
  BY <1>1, <1>3, AsideEffect
<1>4. CASE SortsDone \/ MergeDone \/ Unlink
  BY <1>1, <1>4 DEF SortsDone, MergeDone, Unlink
<1>5. ASSUME NEW b \in Agent,
             MergePieces(b) \/ Give(b) \/ GiveToDead(b) \/ Answer(b) \/ AgentCrash(b)
      PROVE  FALSE
  BY <1>1, <1>5 DEF MergePieces, Give, GiveToDead, Answer, AgentCrash
<1>6. CASE UNCHANGED vars
  BY <1>1, <1>6 DEF vars
<1>7. QED
  BY <1>2, <1>3, <1>4, <1>5, <1>6 DEF Next, Main, Handler, SortStep, Aside

\* Nothing is removed before its records are where they were merged to, unless
\* a multiMerge failed on an agent.
THEOREM NothingRemovedEarly ==
  Spec => RemovedIsMerged
<1>1. IInv /\ [Next]_vars =>
        [/\ \A i \in Segment :
              piece[i] # NoFile /\ piece'[i] = NoFile => piece[i] \subseteq output \/ Emptied
         /\ \A a \in Agent, k \in 1 .. MaxBlocks :
              LET i == agent[a].task
              IN  scratch[a][k] # NoFile /\ scratch'[a][k] = NoFile =>
                    scratch[a][k] \subseteq piece[i] \/ <<i, 0>> \in hurt
        ]_vars
  BY SegmentRemoval, BlockRemoval
<1>2. QED
  BY Invariance, <1>1, PTL DEF Spec, RemovedIsMerged

-----------------------------------------------------------------------------
(* FilePartition: the least and the greatest of a set of offsets *)

\* A set of natural numbers has a least element.
LEMMA MinNat ==
  ASSUME NEW S, S \subseteq Nat, S # {}
  PROVE  Min(S) \in S /\ \A y \in S : Min(S) <= y
<1>1. PICK x \in S : \A y \in S : x <= y
  BY LeastNat
<1>2. QED
  BY <1>1 DEF Min

\* A set of natural numbers with an upper bound has a greatest element.
LEMMA MaxNat ==
  ASSUME NEW S, S \subseteq Nat, S # {}, NEW w \in Nat, \A b \in S : b <= w
  PROVE  Max(S) \in S /\ \A y \in S : y <= Max(S)
<1> DEFINE T == {w - b : b \in S}
<1>1. T \subseteq Nat /\ T # {}
  <2>1. \A b \in S : w - b \in Nat
    OBVIOUS
  <2>2. PICK b \in S : TRUE
    OBVIOUS
  <2>3. w - b \in T
    OBVIOUS
  <2>4. QED
    BY <2>1, <2>3
<1>2. Min(T) \in T /\ \A y \in T : Min(T) <= y
  BY <1>1, MinNat
<1>3. PICK x \in S : Min(T) = w - x
  BY <1>2
<1>4. \A y \in S : w - x <= w - y
  BY <1>2, <1>3
<1>5. \A y \in S : x >= y
  BY <1>4
<1>6. QED
  BY <1>5 DEF Max
-----------------------------------------------------------------------------
(* The offsets of a partition *)

\* The size of the file is its last boundary, and offsets up to twice as large
\* do not wrap around.
LEMMA FileFacts ==
  ASSUME recFile \in Files
  PROVE  /\ Boundaries \subseteq Nat /\ 0 \in Boundaries /\ FileSize \in Boundaries
         /\ FileSize \in Nat /\ \A b \in Boundaries : b <= FileSize
         /\ Width \in Nat /\ 2 * FileSize < Width
<1>1. /\ Boundaries \subseteq Nat /\ 0 \in Boundaries /\ Width \in Nat
      /\ \A b \in Boundaries : 2 * b < Width
  BY PartitionAssumption DEF Boundaries
<1>2. \A b \in Boundaries : b <= Width
  BY <1>1
<1>3. FileSize \in Boundaries /\ \A b \in Boundaries : b <= FileSize
  BY <1>1, <1>2, MaxNat DEF FileSize
<1>4. QED
  BY <1>1, <1>3

\* What is known of the variables of a partition.
LEMMA StateFacts ==
  ASSUME PartitionTypeOK
  PROVE  /\ recFile \in Files
         /\ currentOffset \in Nat /\ currentOffset \in Boundaries
         /\ fileBegin \in Nat /\ fileBegin \in Boundaries
         /\ fileEnd \in Nat /\ fileEnd \in Boundaries /\ fileEnd <= FileSize
         /\ currentOffset <= FileSize /\ interval \in Nat
BY FileFacts DEF PartitionTypeOK

\* currentOffset + interval - 1 wraps around only when both are zero.
LEMMA EndOffsetFacts ==
  ASSUME PartitionTypeOK, pc = "ready"
  PROVE  /\ EndOffset \in Nat
         /\ interval > 0 => EndOffset = currentOffset + interval - 1
         /\ interval = 0 /\ currentOffset > 0 => EndOffset = currentOffset - 1
         /\ interval = 0 /\ currentOffset = 0 => EndOffset = Width - 1
<1>1. /\ currentOffset \in Nat /\ interval \in Nat /\ FileSize \in Nat
      /\ currentOffset <= FileSize /\ interval <= FileSize
      /\ Width \in Nat /\ 2 * FileSize < Width
  BY StateFacts, FileFacts DEF PartitionTypeOK
<1> DEFINE a == currentOffset + interval
<1>2. a \in Nat /\ a < Width /\ Width \in Nat \ {0}
  BY <1>1
<1>3. EndOffset = (a + Width - 1) % Width
  BY DEF EndOffset
<1>4. ASSUME a > 0
      PROVE  EndOffset = a - 1
  <2>1. a - 1 \in 0 .. Width - 1 /\ a + Width - 1 = (a - 1) + Width
    BY <1>2, <1>4
  <2> HIDE DEF a
  <2>2. ((a - 1) + Width) % Width = a - 1
    BY <1>2, <2>1
  <2>3. QED
    BY <1>3, <2>1, <2>2
<1>5. ASSUME a = 0
      PROVE  EndOffset = Width - 1
  <2>1. Width - 1 \in 0 .. Width - 1 /\ a + Width - 1 = Width - 1
    BY <1>2, <1>5
  <2> HIDE DEF a
  <2>2. (Width - 1) % Width = Width - 1
    BY <1>2, <2>1
  <2>3. QED
    BY <1>3, <2>1, <2>2
<1>6. QED
  BY <1>1, <1>2, <1>4, <1>5

\* The end of a record is found behind every offset within the file, and no
\* record ends in between.
LEMMA LineEndFacts ==
  ASSUME recFile \in Files, NEW x \in Nat, x < FileSize
  PROVE  /\ LineEnd(x) \in Boundaries /\ x < LineEnd(x)
         /\ \A b \in Boundaries : x < b => LineEnd(x) <= b
<1> DEFINE S == {b \in Boundaries : b > x}
<1>1. S \subseteq Nat /\ S # {}
  BY FileFacts
<1>2. Min(S) \in S /\ \A b \in S : Min(S) <= b
  BY <1>1, MinNat
<1>3. LineEnd(x) = Min(S)
  BY DEF LineEnd
<1>4. QED
  BY <1>2, <1>3

-----------------------------------------------------------------------------
(* The steps of a partition *)

\* An iteration that ends on a record is one more that does.
LEMMA EmitKeeps ==
  ASSUME CutOnRecords, pc # "new", NEW to \in Boundaries, Emit(to),
         UNCHANGED <<recFile, fileOpen, interval, fileBegin, fileEnd>>,
         interval > 0 => currentOffset < to
  PROVE  CutOnRecords'
<1>1. PartitionTypeOK /\ pc' = pc /\ currentOffset' = to
  BY DEF CutOnRecords, Emit
<1> DEFINE it == [from |-> currentOffset, to |-> to]
<1>2. Boundaries' = Boundaries /\ FileSize' = FileSize /\ Iter' = Iter
  BY DEF Boundaries, FileSize, Iter
<1>3. it \in Iter
  BY <1>1, StateFacts, FileFacts DEF Iter
<1>4. iters \in Seq(Iter) /\ iters' = Append(iters, it)
  BY <1>1 DEF PartitionTypeOK, Emit
<1> HIDE DEF it
<1>5. /\ iters' \in Seq(Iter) /\ Len(iters) \in Nat /\ DOMAIN iters = 1 .. Len(iters)
      /\ DOMAIN iters' = 1 .. Len(iters) + 1 /\ Len(iters') = Len(iters) + 1
      /\ \A i \in 1 .. Len(iters) : iters'[i] = iters[i]
      /\ iters'[Len(iters) + 1] = it
  BY <1>3, <1>4, AppendFacts, AppendProperties
<1>6. it.from = currentOffset /\ it.to = to
  BY DEF it
<1>7. PartitionTypeOK'
  <2>1. iters' \in Seq(Iter')
    BY <1>2, <1>5
  <2>2. currentOffset' \in Boundaries'
    BY <1>1, <1>2
  <2>3. QED
    BY <1>1, <1>2, <2>1, <2>2 DEF PartitionTypeOK
<1>8. ASSUME NEW i \in DOMAIN iters'
      PROVE  /\ iters'[i].to \in Boundaries
             /\ iters'[i].from = (IF i = 1 THEN fileBegin ELSE iters'[i - 1].to)
             /\ interval > 0 => iters'[i].from < iters'[i].to
  <2>1. CASE i = Len(iters) + 1
    <3>1. CASE iters = <<>>
      <4>1. Len(iters) = 0 /\ currentOffset = fileBegin
        BY <3>1 DEF CutOnRecords
      <4>2. QED
        BY <1>5, <1>6, <2>1, <4>1
    <3>2. CASE iters # <<>>
      <4>1. Len(iters) # 0
        BY <1>4, <3>2, EmptySeq
      <4>2. i # 1 /\ i - 1 = Len(iters) /\ Len(iters) \in 1 .. Len(iters)
        BY <1>5, <2>1, <4>1
      <4>3. iters'[i - 1] = iters[Len(iters)]
        BY ONLY <1>5, <4>2
      <4>4. currentOffset = iters[Len(iters)].to
        BY <3>2 DEF CutOnRecords, Last
      <4>5. QED
        BY <1>5, <1>6, <2>1, <4>2, <4>3, <4>4
    <3>3. QED
      BY <3>1, <3>2
  <2>2. CASE i # Len(iters) + 1
    <3>1. i \in 1 .. Len(iters) /\ (i # 1 => i - 1 \in 1 .. Len(iters))
      BY <1>5, <2>2
    <3>2. iters'[i] = iters[i] /\ (i # 1 => iters'[i - 1] = iters[i - 1])
      BY <1>5, <3>1
    <3>3. /\ iters[i].to \in Boundaries
          /\ iters[i].from = (IF i = 1 THEN fileBegin ELSE iters[i - 1].to)
          /\ interval > 0 => iters[i].from < iters[i].to
      BY <1>5, <3>1 DEF CutOnRecords
    <3>4. QED
      BY <3>2, <3>3
  <2>3. QED
    BY <2>1, <2>2
<1>9. iters' # <<>> /\ currentOffset' = Last(iters').to
  <2>1. Last(iters') = it
    BY <1>5 DEF Last
  <2>2. iters' # <<>>
    BY <1>5, EmptySeq
  <2>3. QED
    BY <1>1, <1>6, <2>1, <2>2
<1>10. QED
  BY <1>2, <1>7, <1>8, <1>9 DEF CutOnRecords

\* A step that generates no iteration.
LEMMA SameIters ==
  ASSUME CutOnRecords, PartitionTypeOK',
         UNCHANGED <<recFile, iters>>,
         \/ UNCHANGED <<interval, fileBegin, currentOffset>>
         \/ iters = <<>> /\ currentOffset' = fileBegin'
  PROVE  CutOnRecords'
<1>1. Boundaries' = Boundaries
  BY DEF Boundaries
<1>2. CASE UNCHANGED <<interval, fileBegin, currentOffset>>
  BY <1>1, <1>2 DEF CutOnRecords, Last
<1>3. CASE iters = <<>> /\ currentOffset' = fileBegin'
  <2>1. DOMAIN iters' = {}
    BY <1>3
  <2>2. QED
    BY <1>1, <1>3, <2>1 DEF CutOnRecords
<1>4. QED
  BY <1>2, <1>3

\* The first call on a partition fixes its segment and its interval.
LEMMA OpenKeeps ==
  PartitionIInv /\ (OpenFails \/ SetNumIter \/ SetInterval \/ SplitFileBySize) => PartitionIInv'
<1>0. SUFFICES ASSUME PartitionIInv, OpenFails \/ SetNumIter \/ SetInterval \/ SplitFileBySize
               PROVE  PartitionIInv'
  OBVIOUS
<1>a. PartitionTypeOK /\ CutOnRecords /\ NoRecordLost
  BY <1>0 DEF PartitionIInv, CutOnRecords
<1>b. /\ pc = "new" /\ UNCHANGED <<recFile, iters>> /\ iters = <<>>
      /\ ~fileOpen /\ currentOffset = 0 /\ fileBegin = 0
  BY <1>0, <1>a DEF PartitionTypeOK, OpenFails, SetNumIter, SetInterval, SplitFileBySize
<1>c. /\ Boundaries' = Boundaries /\ FileSize' = FileSize /\ Iter' = Iter
  BY <1>b DEF Boundaries, FileSize, Iter
<1>d. /\ Boundaries \subseteq Nat /\ 0 \in Boundaries /\ FileSize \in Boundaries
      /\ FileSize \in Nat /\ \A b \in Boundaries : b <= FileSize
      /\ Width \in Nat /\ 2 * FileSize < Width
  BY <1>a, FileFacts, StateFacts
<1>1. CASE OpenFails
  <2>1. PartitionTypeOK'
    BY <1>1, <1>a, <1>b, <1>c DEF OpenFails, PartitionTypeOK
  <2>2. CutOnRecords'
    BY <1>1, <1>a, <2>1, SameIters DEF OpenFails
  <2>3. NoRecordLost' /\ HangsOnlyAtEnd'
    BY <1>1, <1>a, <1>b, <1>c DEF OpenFails, NoRecordLost, HangsOnlyAtEnd
  <2>4. QED
    BY <2>2, <2>3 DEF PartitionIInv
<1>2. CASE SetNumIter
  <2>1. PICK num \in NumAgents : interval' = FileSize \div num
    BY <1>2 DEF SetNumIter
  <2>2. FileSize \div num \in Nat /\ FileSize \div num <= FileSize
    <3>1. num \in Nat \ {0}
      BY PartitionAssumption
    <3>2. QED
      BY <1>d, <3>1
  <2>3. interval' \in 0 .. Width - 1 /\ interval' <= FileSize
    BY <1>d, <2>1, <2>2
  <2>4. PartitionTypeOK'
    BY <1>2, <1>a, <1>b, <1>c, <1>d, <2>3 DEF SetNumIter, PartitionTypeOK
  <2>5. CutOnRecords'
    BY <1>2, <1>a, <1>b, <2>4, SameIters DEF SetNumIter
  <2>6. NoRecordLost' /\ HangsOnlyAtEnd'
    BY <1>2, <1>b, <1>c, <1>d DEF SetNumIter, NoRecordLost, HangsOnlyAtEnd
  <2>7. QED
    BY <2>5, <2>6 DEF PartitionIInv
<1>3. CASE SetInterval
  <2>1. PICK begin \in Boundaries, end \in Boundaries :
          /\ begin < end
          /\ \E cores \in NumCores, limit \in BlockLimits \ {0} :
               interval' = Min({limit, (end - begin) \div cores}) % Width32
          /\ fileBegin' = begin /\ currentOffset' = begin /\ fileEnd' = end
    BY <1>3 DEF SetInterval
  <2>2. PICK cores \in NumCores, limit \in BlockLimits \ {0} :
          interval' = Min({limit, (end - begin) \div cores}) % Width32
    BY <2>1
  <2> DEFINE part == (end - begin) \div cores
             least == Min({limit, part})
  <2>3. part \in Nat /\ part <= FileSize
    <3>1. cores \in Nat \ {0} /\ end - begin \in Nat
      BY <1>d, <2>1, PartitionAssumption
    <3>2. part \in Nat /\ part <= end - begin
      BY ONLY <3>1
    <3>3. end - begin <= FileSize /\ end - begin \in Nat
      BY <1>d, <2>1
    <3> HIDE DEF part
    <3>4. QED
      BY <1>d, <3>2, <3>3
  <2>4. limit \in Nat
    BY <1>d, PartitionAssumption
  <2> HIDE DEF part
  <2>5. least \in Nat /\ least <= FileSize
    <3> DEFINE S == {limit, part}
    <3>1. S \subseteq Nat /\ S # {} /\ part \in S
      BY <2>3, <2>4
    <3>2. Min(S) \in S /\ \A y \in S : Min(S) <= y
      BY <3>1, MinNat
    <3>3. QED
      BY <1>d, <2>3, <3>1, <3>2
  <2> HIDE DEF least
  <2>6. least % Width32 \in Nat /\ least % Width32 <= FileSize
    <3>1. Width32 \in Nat \ {0}
      BY PartitionAssumption
    <3>2. least % Width32 \in 0 .. Width32 - 1 /\ least % Width32 <= least
      BY ONLY <2>5, <3>1
    <3>3. QED
      BY <1>d, <2>5, <3>1, <3>2
  <2>7. interval' \in 0 .. Width - 1 /\ interval' <= FileSize
    <3>1. interval' = least % Width32
      BY <2>2 DEF least, part
    <3>2. QED
      BY <1>d, <2>6, <3>1
  <2>8. PartitionTypeOK'
    BY <1>3, <1>a, <1>b, <1>c, <2>1, <2>7 DEF SetInterval, PartitionTypeOK
  <2>9. CutOnRecords'
    BY <1>3, <1>a, <1>b, <2>1, <2>8, SameIters DEF SetInterval
  <2>10. NoRecordLost' /\ HangsOnlyAtEnd'
    BY <1>3, <1>b, <1>c, <1>d, <2>1 DEF SetInterval, NoRecordLost, HangsOnlyAtEnd
  <2>11. QED
    BY <2>9, <2>10 DEF PartitionIInv
<1>4. CASE SplitFileBySize
  <2>1. PICK begin \in Boundaries, end \in Boundaries :
          begin < end /\ fileBegin' = begin /\ currentOffset' = begin /\ fileEnd' = end
    BY <1>4 DEF SplitFileBySize
  <2>2. interval' \in 0 .. Width - 1
    BY <1>4, PartitionAssumption DEF SplitFileBySize
  <2>3. PartitionTypeOK'
    BY <1>4, <1>a, <1>b, <1>c, <2>1, <2>2 DEF SplitFileBySize, PartitionTypeOK
  <2>4. CutOnRecords'
    BY <1>4, <1>a, <1>b, <2>1, <2>3, SameIters DEF SplitFileBySize
  <2>5. NoRecordLost' /\ HangsOnlyAtEnd'
    BY <1>4, <1>b, <1>c, <1>d, <2>1 DEF SplitFileBySize, NoRecordLost, HangsOnlyAtEnd
  <2>6. QED
    BY <2>4, <2>5 DEF PartitionIInv
<1>5. QED
  BY <1>0, <1>1, <1>2, <1>3, <1>4

\* An iteration of getNextIter ends on a record, at most one record behind the
\* end of the segment; the search hangs at the end of the file only.
LEMMA GetNextIterKeeps ==
  PartitionIInv /\ GetNextIter => PartitionIInv'
<1>0. SUFFICES ASSUME PartitionIInv, GetNextIter
               PROVE  PartitionIInv'
  OBVIOUS
<1>a. PartitionTypeOK /\ CutOnRecords /\ NoRecordLost /\ HangsOnlyAtEnd
  BY <1>0 DEF PartitionIInv, CutOnRecords
<1>b. /\ pc = "ready" /\ UNCHANGED <<recFile, fileOpen, interval, fileBegin, fileEnd>>
  BY <1>0 DEF GetNextIter
<1>c. /\ Boundaries' = Boundaries /\ FileSize' = FileSize /\ Iter' = Iter
  BY <1>b DEF Boundaries, FileSize, Iter
<1>d. /\ Boundaries \subseteq Nat /\ FileSize \in Nat /\ Width \in Nat
      /\ \A b \in Boundaries : b <= FileSize
      /\ 2 * FileSize < Width /\ recFile \in Files
      /\ currentOffset \in Nat /\ currentOffset \in Boundaries
      /\ fileEnd \in Nat /\ fileEnd \in Boundaries /\ fileEnd <= FileSize
      /\ interval \in Nat
  BY <1>a, FileFacts, StateFacts
<1>e. /\ EndOffset \in Nat
      /\ interval > 0 => EndOffset = currentOffset + interval - 1
      /\ interval = 0 /\ currentOffset > 0 => EndOffset = currentOffset - 1
      /\ interval = 0 /\ currentOffset = 0 => EndOffset = Width - 1
  BY <1>a, <1>b, EndOffsetFacts
<1>1. CASE currentOffset >= fileEnd
  <2>1. pc' = "done" /\ UNCHANGED <<currentOffset, iters>>
    BY <1>0, <1>1, <1>d DEF GetNextIter
  <2>2. PartitionTypeOK'
    BY <1>a, <1>b, <1>c, <2>1 DEF PartitionTypeOK
  <2>3. CutOnRecords'
    BY <1>a, <1>b, <2>1, <2>2, SameIters
  <2>4. NoRecordLost' /\ HangsOnlyAtEnd'
    BY <1>1, <1>a, <1>b, <1>c, <2>1 DEF NoRecordLost, HangsOnlyAtEnd
  <2>5. QED
    BY <2>3, <2>4 DEF PartitionIInv
<1>2. CASE currentOffset < fileEnd /\ Emit(fileEnd)
  <2>1. CutOnRecords'
    BY <1>2, <1>a, <1>b, <1>d, EmitKeeps
  <2>2. NoRecordLost' /\ HangsOnlyAtEnd'
    BY <1>2, <1>b, <1>c, <1>d DEF Emit, NoRecordLost, HangsOnlyAtEnd
  <2>3. QED
    BY <2>1, <2>2 DEF PartitionIInv
<1>3. CASE /\ currentOffset < fileEnd /\ ~Beyond(EndOffset) /\ EndOffset < FileSize
           /\ Emit(LineEnd(EndOffset))
  <2> DEFINE to == LineEnd(EndOffset)
  <2>1. /\ to \in Boundaries /\ EndOffset < to
        /\ \A b \in Boundaries : EndOffset < b => to <= b
    BY <1>3, <1>d, <1>e, LineEndFacts
  <2>2. EndOffset <= fileEnd
    BY <1>3, <1>d, <1>e DEF Beyond
  <2>3. Emit(to)
    BY <1>3
  <2> HIDE DEF to
  <2>4. interval > 0 => currentOffset < to
    BY <1>d, <1>e, <2>1
  <2>5. CutOnRecords'
    BY <1>a, <1>b, <2>1, <2>3, <2>4, EmitKeeps
  <2>6. \A b \in Boundaries : ~(fileEnd < b /\ b < to)
    BY <1>d, <1>e, <2>1, <2>2
  <2>7. NoRecordLost' /\ HangsOnlyAtEnd'
    BY <1>b, <1>c, <2>3, <2>6 DEF Emit, NoRecordLost, HangsOnlyAtEnd
  <2>8. QED
    BY <2>5, <2>7 DEF PartitionIInv
<1>4. CASE /\ currentOffset < fileEnd /\ ~Beyond(EndOffset) /\ EndOffset >= FileSize
           /\ pc' = "hung" /\ UNCHANGED <<currentOffset, iters>>
  <2>1. EndOffset = fileEnd /\ fileEnd = FileSize
    BY <1>4, <1>d, <1>e DEF Beyond
  <2>2. fileEnd - currentOffset = interval - 1
    BY <1>4, <1>d, <1>e, <2>1
  <2>3. PartitionTypeOK'
    BY <1>4, <1>a, <1>b, <1>c DEF PartitionTypeOK
  <2>4. CutOnRecords'
    BY <1>4, <1>a, <1>b, <2>3, SameIters
  <2>5. NoRecordLost' /\ HangsOnlyAtEnd'
    BY <1>4, <1>a, <1>b, <1>c, <2>1, <2>2 DEF NoRecordLost, HangsOnlyAtEnd
  <2>6. QED
    BY <2>4, <2>5 DEF PartitionIInv
<1>5. QED
  BY <1>0, <1>1, <1>2, <1>3, <1>4 DEF GetNextIter

\* A segment of splitFileBySize ends on a record of the file segment.
LEMMA SplitNextKeeps ==
  PartitionIInv /\ SplitNext => PartitionIInv'
<1>0. SUFFICES ASSUME PartitionIInv, SplitNext
               PROVE  PartitionIInv'
  OBVIOUS
<1>a. PartitionTypeOK /\ CutOnRecords /\ NoRecordLost /\ HangsOnlyAtEnd
  BY <1>0 DEF PartitionIInv, CutOnRecords
<1>b. /\ pc = "split" /\ UNCHANGED <<recFile, fileOpen, interval, fileBegin, fileEnd>>
  BY <1>0 DEF SplitNext
<1>c. /\ Boundaries' = Boundaries /\ FileSize' = FileSize /\ Iter' = Iter
  BY <1>b DEF Boundaries, FileSize, Iter
<1>d. /\ Boundaries \subseteq Nat /\ FileSize \in Nat /\ recFile \in Files
      /\ \A b \in Boundaries : b <= FileSize
      /\ currentOffset \in Nat /\ currentOffset \in Boundaries
      /\ fileEnd \in Nat /\ fileEnd \in Boundaries /\ fileEnd <= FileSize
      /\ interval \in Nat
  BY <1>a, FileFacts, StateFacts
<1> DEFINE last == currentOffset + interval
           to == LineEnd(last)
<1>1. CASE currentOffset >= fileEnd
  <2>1. pc' = "done" /\ UNCHANGED <<currentOffset, iters>>
    BY <1>0, <1>1, <1>d DEF SplitNext
  <2>2. PartitionTypeOK'
    BY <1>a, <1>b, <1>c, <2>1 DEF PartitionTypeOK
  <2>3. CutOnRecords'
    BY <1>a, <1>b, <2>1, <2>2, SameIters
  <2>4. NoRecordLost' /\ HangsOnlyAtEnd'
    BY <1>1, <1>a, <1>b, <1>c, <2>1 DEF NoRecordLost, HangsOnlyAtEnd
  <2>5. QED
    BY <2>3, <2>4 DEF PartitionIInv
<1>2. CASE currentOffset < fileEnd /\ Emit(fileEnd)
  <2>1. CutOnRecords'
    BY <1>2, <1>a, <1>b, <1>d, EmitKeeps
  <2>2. NoRecordLost' /\ HangsOnlyAtEnd'
    BY <1>2, <1>b, <1>c, <1>d DEF Emit, NoRecordLost, HangsOnlyAtEnd
  <2>3. QED
    BY <2>1, <2>2 DEF PartitionIInv
<1>3. CASE currentOffset < fileEnd /\ last < fileEnd /\ Emit(to)
  <2>1. /\ to \in Boundaries /\ last < to
        /\ \A b \in Boundaries : last < b => to <= b
    BY <1>3, <1>d, LineEndFacts
  <2>2. Emit(to) /\ last < fileEnd
    BY <1>3
  <2> HIDE DEF to
  <2>3. interval > 0 => currentOffset < to
    BY <1>d, <2>1
  <2>4. CutOnRecords'
    BY <1>a, <1>b, <2>1, <2>2, <2>3, EmitKeeps
  <2>5. to <= fileEnd
    BY <1>d, <2>1, <2>2
  <2>6. NoRecordLost' /\ HangsOnlyAtEnd'
    <3>1. \A b \in Boundaries : ~(fileEnd < b /\ b < to)
      BY <1>d, <2>1, <2>5
    <3>2. QED
      BY <1>b, <1>c, <2>2, <2>5, <3>1 DEF Emit, NoRecordLost, HangsOnlyAtEnd
  <2>7. QED
    BY <2>4, <2>6 DEF PartitionIInv
<1>4. QED
  BY <1>0, <1>1, <1>2, <1>3 DEF SplitNext

-----------------------------------------------------------------------------
(* The theorems about a partition *)

\* The three safety properties hold at the start, and together are inductive.
THEOREM PartitionInvariance ==
  PartitionSpec => []PartitionIInv
<1>1. PartitionInit => PartitionIInv
  <2>1. SUFFICES ASSUME PartitionInit
                 PROVE  PartitionIInv
    OBVIOUS
  <2>2. /\ recFile \in Files /\ iters = <<>> /\ DOMAIN iters = {}
        /\ <<>> \in Seq(Iter)
    BY <2>1 DEF PartitionInit
  <2>3. /\ 0 \in Boundaries /\ FileSize \in Nat /\ Width \in Nat
        /\ 2 * FileSize < Width /\ Boundaries \subseteq Nat
    BY <2>2, FileFacts
  <2>4. PartitionTypeOK
    <3>1. 0 \in 0 .. Width - 1
      BY <2>3
    <3>2. fileOpen \in BOOLEAN /\ ~fileOpen
      BY <2>1, Zenon DEF PartitionInit
    <3>3. QED
      BY <2>1, <2>2, <2>3, <3>1, <3>2 DEF PartitionInit, PartitionTypeOK
  <2>5. CutOnRecords
    BY <2>1, <2>2, <2>4 DEF PartitionInit, CutOnRecords
  <2>6. NoRecordLost /\ HangsOnlyAtEnd
    BY <2>1, <2>3 DEF PartitionInit, NoRecordLost, HangsOnlyAtEnd
  <2>7. QED
    BY <2>5, <2>6 DEF PartitionIInv
<1>2. PartitionIInv /\ [PartitionNext]_partitionVars => PartitionIInv'
  <2>1. PartitionIInv /\ UNCHANGED partitionVars => PartitionIInv'
    <3>1. SUFFICES ASSUME PartitionIInv, UNCHANGED partitionVars
                   PROVE  PartitionIInv'
      OBVIOUS
    <3>2. /\ Boundaries' = Boundaries /\ FileSize' = FileSize /\ Iter' = Iter
          /\ UNCHANGED <<recFile, pc, fileOpen, interval, fileBegin, fileEnd,
                         currentOffset, iters>>
      BY <3>1 DEF partitionVars, Boundaries, FileSize, Iter
    <3>3. PartitionTypeOK'
      BY <3>1, <3>2 DEF PartitionIInv, CutOnRecords, PartitionTypeOK
    <3>4. CutOnRecords'
      BY <3>1, <3>2, <3>3, SameIters DEF PartitionIInv
    <3>5. QED
      BY <3>1, <3>2, <3>4 DEF PartitionIInv, NoRecordLost, HangsOnlyAtEnd
  <2>2. QED
    BY <2>1, OpenKeeps, GetNextIterKeeps, SplitNextKeeps DEF PartitionNext
<1>3. QED
  BY <1>1, <1>2, PTL DEF PartitionSpec

\* The iterations of getNextIter and splitFileBySize follow one another, begin
\* and end on a record, and are empty only with an interval of zero.
THEOREM IterationsAreRecords ==
  PartitionSpec => []CutOnRecords
<1>1. PartitionIInv => CutOnRecords
  BY DEF PartitionIInv
<1>2. QED
  BY PartitionInvariance, <1>1, PTL

\* The iterations leave out no record of the segment, and take in at most one
\* that is behind it.
THEOREM SegmentCovered ==
  PartitionSpec => []NoRecordLost
<1>1. PartitionIInv => NoRecordLost
  BY DEF PartitionIInv
<1>2. QED
  BY PartitionInvariance, <1>1, PTL

\* The search of getNextIter for a '\n' runs past the end of the file only with
\* a last iteration of interval - 1 bytes, in a segment that ends the file.
THEOREM HangsOnlyThere ==
  PartitionSpec => []HangsOnlyAtEnd
<1>1. PartitionIInv => HangsOnlyAtEnd
  BY DEF PartitionIInv
<1>2. QED
  BY PartitionInvariance, <1>1, PTL
=============================================================================
