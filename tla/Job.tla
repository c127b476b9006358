-------------------------------- MODULE Job ---------------------------------
(***************************************************************************)
(* One run of lsort (mains/lsort.cpp, common/dispatchIterations.cpp) with  *)
(* its agents (handlers/sortHandler.cpp, multiMergeHandler.cpp), and the   *)
(* files that pass between them.  lsort dispatches one sort task for each  *)
(* segment of the input, waits, and dispatches one task that merges the    *)
(* sorted segments.  On an agent sortHandler does the same over again: it  *)
(* sorts the blocks of its segment and merges them.                        *)
(*                                                                         *)
(* nwDispatch is the contract of Dispatch: a task is an identifier, 1 .. n *)
(* for the segments and n + 1 for the merge.  What merging does to single  *)
(* records is in Merge; here a file is the set of the blocks it holds the  *)
(* records of, and a block is <<segment, number>>.                         *)
(*                                                                         *)
(* Not every call returns: FilePartition has getNextIter in a loop without *)
(* end, ThreadPool and BufferedWriter a terminate and a stopWrites that    *)
(* join for ever, BufferedReader and Merge a merge that spins.  Who makes  *)
(* such a call is "hung" from then on.                                     *)
(***************************************************************************)
EXTENDS Integers

CONSTANTS
  Agent,
  Segments,   \* iterations filePartition makes of the input file
  MaxBlocks,  \* bound: blocks sortHandler makes of a segment
  MaxFaults   \* bound: steps that fail or never end, and agents that die

ASSUME JobAssumption ==
  /\ Segments \in Nat /\ MaxBlocks \in Nat \ {0} /\ MaxFaults \in Nat

Segment == 1 .. Segments
MergeTask == Segments + 1
Block == Segment \X (1 .. MaxBlocks)
NoFile == {<<0, 0>>}   \* no file holds this
Content == (SUBSET Block) \cup {NoFile}

VARIABLES
  phase, issued, batch, finished, failed, reported,  \* of the dispatcher
  main,       \* where lsort is
  code,       \* what it exits with
  serial,     \* how many iterations filePartition has made
  mergeArgs,  \* the sorted segments to merge
  piece,      \* the sorted segments, one file each on the shared file system
  output,     \* the output file
  scratch,    \* an agent's sorted blocks, one file each on its own disk
  agent,      \* what each agent does
  given,      \* tasks that were sent to an agent
  split,      \* ghost: the blocks each segment was divided into
  hurt,       \* ghost: <<i, k>> when the sort of block k of segment i failed,
              \* <<i, 0>> when another step of its handler did
  faults      \* how many steps have failed, or not ended

D == INSTANCE Dispatch WITH Task <- 1 .. Segments + 1

dispatcher == <<phase, issued, batch, finished, failed, reported>>
lsort == <<main, code, serial, mergeArgs>>
files == <<piece, output, scratch>>
ghosts == <<split, hurt>>
vars == <<dispatcher, lsort, files, agent, given, ghosts, faults>>

\* sortHandler still has to sort the blocks "todo" of its segment, and has
\* sorted the blocks "done".
AgentState ==
  [pc : {"idle", "blocks", "merge", "unlink", "true", "false", "hung", "dead"},
   task : 0 .. MergeTask, todo : SUBSET (1 .. MaxBlocks), done : SUBSET (1 .. MaxBlocks)]
Idle == [pc |-> "idle", task |-> 0, todo |-> {}, done |-> {}]

TypeOK ==
  /\ D!TypeOK
  /\ main \in {"start", "iters", "sorts", "merge", "mergeWait", "merging",
               "unlink", "terminate", "exit", "killed", "hung"}
  /\ code \in {0, -1} /\ serial \in 0 .. Segments
  /\ mergeArgs \subseteq Segment
  /\ piece \in [Segment -> Content] /\ output \in Content
  /\ scratch \in [Agent -> [1 .. MaxBlocks -> Content]]
  /\ agent \in [Agent -> AgentState]
  /\ given \subseteq issued
  /\ split \in [Segment -> 0 .. MaxBlocks] /\ hurt \subseteq Segment \X (0 .. MaxBlocks)
  /\ faults \in 0 .. MaxFaults

Init ==
  /\ D!Init
  /\ main = "start" /\ code = 0 /\ serial = 0 /\ mergeArgs = {}
  /\ piece = [i \in Segment |-> NoFile] /\ output = NoFile
  /\ scratch = [a \in Agent |-> [k \in 1 .. MaxBlocks |-> NoFile]]
  /\ agent = [a \in Agent |-> Idle]
  /\ given = {} /\ faults = 0
  /\ split = [i \in Segment |-> 0] /\ hurt = {}

\* A step that fails or does not end, as long as the bound allows one more.
Fault == faults < MaxFaults /\ faults' = faults + 1
Hurt(i, k) == Fault /\ hurt' = hurt \cup {<<i, k>>}

AtMostOne(S) == \A x, y \in S : x = y

-----------------------------------------------------------------------------
(* lsort: main and dispatchIters *)

\* The input file is opened and the dispatch thread started, or not.
Start ==
  /\ main = "start"
  /\ \/ main' = "iters" /\ UNCHANGED <<code, faults>>
     \/ main' = "exit" /\ code' = -1 /\ Fault
  /\ UNCHANGED <<dispatcher, serial, mergeArgs, files, agent, given, ghosts>>

\* dispatchIters: every iteration becomes a task, in order, unless getNextIter
\* does not return ...
DispatchIter ==
  /\ main = "iters" /\ serial < Segments
  /\ \/ /\ serial' = serial + 1
        /\ D!DispatchTask(serial')
        /\ UNCHANGED <<main, faults>>
     \/ Fault /\ main' = "hung" /\ UNCHANGED <<serial, dispatcher>>
  /\ UNCHANGED <<code, mergeArgs, files, agent, given, ghosts>>

\* ... waitForCompletion is called ...
WaitForSorts ==
  /\ main = "iters" /\ serial = Segments
  /\ D!Wait
  /\ main' = "sorts"
  /\ UNCHANGED <<code, serial, mergeArgs, files, agent, given, ghosts, faults>>

\* ... and the outputs of the tasks that did not fail are returned.
OutArgs(fails) == Segment \ fails

\* main gives up when there are fewer than two.
SortsDone ==
  /\ main = "sorts"
  /\ D!Return
  /\ mergeArgs' = OutArgs(reported')
  /\ \/ AtMostOne(mergeArgs') /\ main' = "terminate" /\ code' = -1
     \/ ~AtMostOne(mergeArgs') /\ main' = "merge" /\ UNCHANGED code
  /\ UNCHANGED <<serial, files, agent, given, ghosts, faults>>

DispatchMerge ==
  /\ main = "merge"
  /\ D!DispatchTask(MergeTask)
  /\ main' = "mergeWait"
  /\ UNCHANGED <<code, serial, mergeArgs, files, agent, given, ghosts, faults>>

WaitForMerge ==
  /\ main = "mergeWait"
  /\ D!Wait
  /\ main' = "merging"
  /\ UNCHANGED <<code, serial, mergeArgs, files, agent, given, ghosts, faults>>

\* The sorted segments are removed unless the merge failed.
Succeeded_Always(fails) == TRUE                          \* a mutation
Succeeded(fails) == fails = {}
MergeDone ==
  /\ main = "merging"
  /\ D!Return
  /\ main' = IF Succeeded(reported') THEN "unlink" ELSE "terminate"
  /\ UNCHANGED <<code, serial, mergeArgs, files, agent, given, ghosts, faults>>

Unlink ==
  /\ main = "unlink"
  /\ piece' = [i \in Segment |-> IF i \in mergeArgs THEN NoFile ELSE piece[i]]
  /\ main' = "terminate"
  /\ UNCHANGED <<dispatcher, code, serial, mergeArgs, output, scratch, agent, given,
                 ghosts, faults>>

Terminate ==
  /\ main = "terminate"
  /\ D!End
  /\ main' = "exit"
  /\ UNCHANGED <<code, serial, mergeArgs, files, agent, given, ghosts, faults>>

-----------------------------------------------------------------------------
(* The network between them, as NwDispatch has it *)

Queued == batch \ (given \cup finished)
First(t) == t \in Queued /\ \A u \in Queued : t <= u

\* The longest waiting task goes to an agent without one.
Give(a) ==
  /\ phase # "over" /\ agent[a] = Idle
  /\ \E t \in Queued :
       /\ First(t)
       /\ given' = given \cup {t}
       /\ agent' = [agent EXCEPT ![a].task = t]
  /\ UNCHANGED <<dispatcher, lsort, files, ghosts, faults>>

\* An agent that died while it had no task is given one all the same: it is
\* lost, or the write ends lsort.
GiveToDead(a) ==
  /\ phase # "over" /\ agent[a].pc = "dead" /\ agent[a].task = 0
  /\ \/ /\ \E t \in Queued :
             /\ First(t)
             /\ given' = given \cup {t}
             /\ agent' = [agent EXCEPT ![a].task = t]
        /\ UNCHANGED <<dispatcher, main>>
     \/ /\ Queued # {}
        /\ D!End /\ main' = "killed"
        /\ UNCHANGED <<given, agent>>
  /\ UNCHANGED <<code, serial, mergeArgs, files, ghosts, faults>>

\* The handler has returned, and its result gets back.
Result_OnSuccess == {"true"}                             \* a mutation
Result == {"true", "false"}
Answer(a) ==
  /\ agent[a].pc \in Result
  /\ IF phase = "over" THEN UNCHANGED dispatcher
     ELSE /\ D!Finish(agent[a].task)
          /\ agent[a].task \in failed' <=> agent[a].pc = "false"
  /\ agent' = [agent EXCEPT ![a] = Idle]
  /\ UNCHANGED <<lsort, files, given, ghosts, faults>>

Dies(a) == agent' = [agent EXCEPT ![a].pc = "dead"]

AgentCrash(a) ==
  /\ agent[a].pc # "dead"
  /\ Fault /\ Dies(a)
  /\ UNCHANGED <<dispatcher, lsort, files, given, ghosts>>

-----------------------------------------------------------------------------
(* An agent: sortHandler::handler *)

Becomes(a, where) == agent' = [agent EXCEPT ![a].pc = where]
HasTask(a, where) == agent[a].pc = where /\ agent[a].task \in Segment

\* A step of the handler does not return.  What the threads of its pool still
\* write in the scratch directory nobody reads.
Hangs(a) == Fault /\ Becomes(a, "hung")

\* The configuration is invalid or the input cannot be opened, the division by
\* the number of threads ends an agent with one core, getNextIter does not
\* return, or filePartition divides the segment.
SortBegin(a) ==
  /\ HasTask(a, "idle")
  /\ LET i == agent[a].task
     IN  \/ /\ Hurt(i, 0) /\ (Becomes(a, "false") \/ Dies(a))
            /\ UNCHANGED split
         \/ Hangs(a) /\ UNCHANGED ghosts
         \/ \E n \in 1 .. MaxBlocks :
              /\ split' = [split EXCEPT ![i] = n]
              /\ agent' = [agent EXCEPT ![a].pc = "blocks", ![a].todo = 1 .. n]
              /\ UNCHANGED <<hurt, faults>>
  /\ UNCHANGED <<dispatcher, lsort, files, given>>

\* A thread of the pool runs sortBlock.
SortBlock(a, k) ==
  /\ HasTask(a, "blocks") /\ k \in agent[a].todo
  /\ \/ /\ scratch' = [scratch EXCEPT ![a][k] = {<<agent[a].task, k>>}]
        /\ agent' = [agent EXCEPT ![a].todo = @ \ {k}, ![a].done = @ \cup {k}]
        /\ UNCHANGED <<hurt, faults>>
     \/ /\ Hurt(agent[a].task, k)
        /\ agent' = [agent EXCEPT ![a].todo = @ \ {k}]
        /\ UNCHANGED scratch
  /\ UNCHANGED <<dispatcher, lsort, piece, output, given, split>>

\* dispatchIters on the pool: the merge arguments are the blocks whose sort
\* did not fail.  One block is as bad as none; the handler then returns when
\* the threads of the pool have been joined.
Sorted_All(a) == 1 .. split[agent[a].task]               \* a mutation
Sorted(a) == agent[a].done
SortBlocksDone(a) ==
  /\ HasTask(a, "blocks") /\ agent[a].todo = {}
  /\ \/ /\ agent' = [agent EXCEPT
             ![a].pc = IF AtMostOne(Sorted(a)) THEN "false" ELSE "merge",
             ![a].done = Sorted(a)]
        /\ UNCHANGED faults
     \/ AtMostOne(Sorted(a)) /\ Hangs(a)
  /\ UNCHANGED <<dispatcher, lsort, files, given, ghosts>>

\* multiMerge.  It opens the output first: what cannot be read leaves an
\* empty file, and an output that cannot be opened ends the agent.  One that
\* does not return has written as much as it may.
MergeBlocks(a) ==
  /\ HasTask(a, "merge")
  /\ LET i == agent[a].task
         ins == {scratch[a][k] : k \in agent[a].done}
     IN  \/ /\ NoFile \notin ins
            /\ piece' = [piece EXCEPT ![i] = UNION ins]
            /\ Becomes(a, "unlink")
            /\ UNCHANGED <<hurt, faults>>
         \/ /\ Hurt(i, 0)
            /\ piece' = [piece EXCEPT ![i] = {}]
            /\ Becomes(a, "unlink")
         \/ /\ Hurt(i, 0) /\ Dies(a)
            /\ UNCHANGED piece
         \/ /\ Hangs(a) /\ UNCHANGED hurt
            /\ \E part \in SUBSET UNION (ins \ {NoFile}) :
                 piece' = [piece EXCEPT ![i] = part]
  /\ UNCHANGED <<dispatcher, lsort, output, scratch, given, split>>

\* The blocks are removed, and the handler succeeds, whatever multiMerge
\* returned, if the threads of the pool can be joined.
UnlinkBlocks(a) ==
  /\ HasTask(a, "unlink")
  /\ scratch' = [scratch EXCEPT ![a] =
                   [k \in 1 .. MaxBlocks |-> IF k \in agent[a].done THEN NoFile ELSE @[k]]]
  /\ \/ Becomes(a, "true") /\ UNCHANGED faults
     \/ Hangs(a)
  /\ UNCHANGED <<dispatcher, lsort, piece, output, given, ghosts>>

-----------------------------------------------------------------------------
(* An agent: multiMergeHandler::handler *)

Inputs_OneLess(args) == args \ {Segments}                \* a mutation
Inputs(args) == args
\* An input without records is undefined behaviour (Merge): the agent may die
\* or spin, and it may write anything.  It may spin in any other merge too.
MergePieces(a) ==
  /\ agent[a].pc = "idle" /\ agent[a].task = MergeTask
  /\ LET ins == {piece[i] : i \in Inputs(mergeArgs)}
     IN  \/ /\ {NoFile, {}} \cap ins = {}
            /\ output' = UNION ins
            /\ Becomes(a, "true") /\ UNCHANGED faults
         \/ /\ NoFile \in ins \/ {} \notin ins
            /\ Becomes(a, "false") /\ UNCHANGED output
            /\ IF NoFile \in ins THEN UNCHANGED faults ELSE Fault
         \/ /\ NoFile \notin ins /\ {} \in ins
            /\ Becomes(a, "true") \/ Dies(a) \/ Becomes(a, "hung")
            /\ output' \in SUBSET UNION ins /\ UNCHANGED faults
         \/ /\ {NoFile, {}} \cap ins = {} /\ Hangs(a)
            /\ output' \in SUBSET UNION ins
  /\ UNCHANGED <<dispatcher, lsort, piece, scratch, given, ghosts>>

-----------------------------------------------------------------------------
Main ==
  \/ Start \/ DispatchIter \/ WaitForSorts \/ SortsDone
  \/ DispatchMerge \/ WaitForMerge \/ MergeDone \/ Unlink \/ Terminate
Handler(a) ==
  \/ SortBegin(a) \/ \E k \in 1 .. MaxBlocks : SortBlock(a, k)
  \/ SortBlocksDone(a) \/ MergeBlocks(a) \/ UnlinkBlocks(a) \/ MergePieces(a)
Next ==
  \/ Main
  \/ \E a \in Agent : Handler(a) \/ Give(a) \/ GiveToDead(a) \/ Answer(a) \/ AgentCrash(a)

Spec == Init /\ [][Next]_vars

\* A step of main or of a handler that can be taken is taken; that it may never
\* end is one of its outcomes.  The dispatcher serves its queue and its clients.
FairSpec ==
  /\ Spec /\ WF_vars(Main)
  /\ \A a \in Agent :
       WF_vars(Handler(a)) /\ WF_vars(Answer(a)) /\ WF_vars(Give(a) \/ GiveToDead(a))

-----------------------------------------------------------------------------
(* Properties *)

Blocks(i) == {<<i, k>> : k \in 1 .. split[i]}
\* multiMerge failed on an agent, and a segment without records is merged.
Emptied == \E i \in mergeArgs : <<i, 0>> \in hurt

\* Nobody is told of records that are dropped, and lsort exits with 0 even when
\* the merge task failed.  But when it exits with 0 after a merge that succeeded,
\* a block is missing from the output only if its own sort failed or no other
\* block of its segment was sorted, a segment that was never divided only if its
\* handler failed, and anything else only if multiMerge failed on an agent.
LossHasCause ==
  main = "exit" /\ code = 0 /\ reported = {} /\ ~Emptied =>
    \A i \in Segment :
      /\ split[i] = 0 => <<i, 0>> \in hurt
      /\ \A b \in Blocks(i) :
           b \in output \cup hurt \/ AtMostOne(Blocks(i) \ hurt)

\* A sorted segment holds records of that segment only: sortHandler never
\* merges a block file that an earlier task left in the scratch directory.
OwnBlocks == \A i \in Segment : piece[i] = NoFile \/ piece[i] \subseteq Blocks(i)

\* A file is removed only when its records are in the file they were merged
\* into.  sortHandler removes the blocks even after a multiMerge that failed,
\* and what follows from the empty segment is undefined.
RemovedIsMerged ==
  [][/\ \A i \in Segment :
          piece[i] # NoFile /\ piece'[i] = NoFile => piece[i] \subseteq output \/ Emptied
     /\ \A a \in Agent, k \in 1 .. MaxBlocks :
          LET i == agent[a].task
          IN  scratch[a][k] # NoFile /\ scratch'[a][k] = NoFile =>
                scratch[a][k] \subseteq piece[i] \/ <<i, 0>> \in hurt
    ]_vars

\* lsort ends, unless an agent died or hangs, whose task is waited for, or its
\* own getNextIter never returned.  An agent hangs in the getNextIter of its
\* segment (filePartition.cpp:31), in a merge whose reader spins or cannot be
\* joined (bufferedReader.cpp:98, 223), in one whose writer cannot be joined
\* (bufferedWriter.cpp:142), or where it joins the workers of its pool
\* (worker.cpp:83).
MainEnds ==
  main = "start" ~>
    \/ main \in {"exit", "killed", "hung"}
    \/ \E a \in Agent : agent[a].pc \in {"dead", "hung"}

-----------------------------------------------------------------------------
(* The inductive invariant, from which Job_proofs derives the safety        *)
(* properties.                                                               *)

\* Nobody has begun to sort segment i.
Fresh(i) == split[i] = 0 /\ piece[i] = NoFile /\ \A k \in 0 .. MaxBlocks : <<i, k>> \notin hurt

\* Why a sort task may fail, and what one that succeeds has left.
BadCause(i) ==
  IF split[i] = 0 THEN <<i, 0>> \in hurt ELSE AtMostOne(Blocks(i) \ hurt)
GoodPiece(i) ==
  /\ split[i] # 0
  /\ <<i, 0>> \in hurt \/ (piece[i] # {} /\ Blocks(i) \subseteq piece[i] \cup hurt)

\* What the batch holds while main is where it is.
Stages ==
  /\ main = "start" => serial = 0
  /\ main \in {"start", "merge", "unlink", "terminate", "exit"} => batch = {}
  /\ main \in {"iters", "hung"} => batch = 1 .. serial
  /\ main = "sorts" => batch = Segment
  /\ main \in {"mergeWait", "merging"} => batch = {MergeTask}
  /\ MergeTask \in batch => batch = {MergeTask} /\ main \in {"mergeWait", "merging", "killed"}
  /\ main = "killed" => phase = "over"

\* An agent holds a task of the batch that was given to it alone and is not
\* finished; a segment nobody has begun with is untouched.
Custody ==
  /\ \A a \in Agent : agent[a].task # 0 =>
       /\ agent[a].task \in given /\ agent[a].task \in batch
       /\ agent[a].task \notin finished
  /\ \A a, b \in Agent : agent[a].task # 0 /\ agent[a].task = agent[b].task => a = b
  /\ \A i \in Segment \ given : Fresh(i)

\* How far agent a is with its segment, and what is in its files.
Held(a) == agent[a].todo \cup agent[a].done
Tried(a, i) == \A k \in 1 .. split[i] : k \in Held(a) \/ <<i, k>> \in hurt
OnDisk(a, i) == \A k \in agent[a].done : scratch[a][k] = {<<i, k>>}
Progress(a, i) ==
  /\ agent[a].pc = "idle" => Fresh(i) /\ Held(a) = {}
  /\ agent[a].pc \in {"blocks", "merge", "unlink"} =>
       /\ split[i] # 0 /\ Held(a) \subseteq 1 .. split[i]
       /\ Tried(a, i) /\ OnDisk(a, i)
  /\ agent[a].pc \in {"merge", "unlink"} => agent[a].todo = {} /\ ~AtMostOne(agent[a].done)
  /\ agent[a].pc = "unlink" =>
       <<i, 0>> \in hurt \/ piece[i] = {<<i, k>> : k \in agent[a].done}
  /\ agent[a].pc = "true" => GoodPiece(i)
  /\ agent[a].pc = "false" => BadCause(i)
Sorting == \A a \in Agent : agent[a].task \in Segment => Progress(a, agent[a].task)

\* How the sort tasks ended, as the results and then mergeArgs have it.
Sifted == \A i \in Segment : IF i \in mergeArgs THEN GoodPiece(i) ELSE BadCause(i)
Results ==
  /\ \A i \in finished \cap Segment : IF i \in failed THEN BadCause(i) ELSE GoodPiece(i)
  /\ main \in {"merge", "mergeWait", "merging", "unlink"} => Sifted

\* The merge task has succeeded, and accounts for every segment.
Merged == Emptied \/ \A i \in mergeArgs : piece[i] \subseteq output
Accounted ==
  \A i \in Segment :
    IF i \in mergeArgs THEN split[i] # 0 /\ (Emptied \/ Blocks(i) \subseteq output \cup hurt)
    ELSE BadCause(i)
Merging ==
  /\ \A a \in Agent : agent[a].task = MergeTask =>
       /\ main \in {"mergeWait", "merging"}
       /\ agent[a].pc \in {"idle", "true", "false", "hung", "dead"}
       /\ agent[a].pc = "true" => Merged
  /\ MergeTask \in finished \ failed => Merged
  /\ main = "unlink" => Merged /\ reported = {}
  /\ main \in {"terminate", "exit"} /\ code = 0 /\ reported = {} => Accounted

\* The dispatcher, the agents and the files agree on what became of every
\* segment; the safety properties follow from this.
IInv == TypeOK /\ Stages /\ Custody /\ Sorting /\ OwnBlocks /\ Results /\ Merging
=============================================================================
