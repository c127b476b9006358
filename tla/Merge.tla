------------------------------- MODULE Merge --------------------------------
(***************************************************************************)
(* Everything that sorts or merges records: multiMerge (the agent, at the  *)
(* end of a sort task), multiMergeHandler (the merge task), the two-way    *)
(* merges and sortBlock of mergeSort.cpp, and blockSortHandler, which      *)
(* ssort runs.  One call is made; op says which.                           *)
(*                                                                         *)
(* A file is the sequence of its records, and a record is a number, as     *)
(* strcmp orders them; 0 is the empty record.  Readers and writers are     *)
(* used by what BufferedReader and BufferedWriter are shown to do: a       *)
(* reader is the records it has not yet handed out.                        *)
(***************************************************************************)
EXTENDS Integers, Sequences, FiniteSets, SequencesExt

CONSTANTS
  Record,     \* the records
  Long,       \* those that do not fit in the 128 bytes of mergeBlocks
  Lists,      \* what the input files may hold
  Missing,    \* a file that cannot be opened
  Alone,      \* lists whose last record is empty and alone in a reader's block
  Stray,      \* lists with which a reader's thread goes astray
  MaxInputs   \* bound: input files, or blocks of the one input file

ASSUME MergeAssumption ==
  /\ Record \subseteq Nat /\ Long \subseteq Record /\ 0 \notin Long
  /\ Lists \subseteq Seq(Record)
  /\ Missing \notin Lists
  /\ Alone \subseteq Lists /\ Stray \subseteq Lists /\ Alone \cap Stray = {}
  /\ \A s \in Alone : s # <<>> /\ Last(s) = 0
  \* a file of one empty record, and one without records, are always such
  /\ {<<0>>} \cap Lists \subseteq Alone /\ {<<>>} \cap Lists \subseteq Stray
  /\ MaxInputs \in Nat

VARIABLES
  op,       \* the function called
  inputs,   \* the input files; the blocks of the file for ssort
  canWrite, \* the output file can be opened
  pc,
  rest,     \* the records of each input still to be merged
  running,  \* inputs whose reader has a thread, or whose block is being sorted
  out       \* the records written

vars == <<op, inputs, canWrite, pc, rest, running, out>>

Merges == {"multiMerge", "mergeHandler", "mergeFiles", "mergeBlocks"}
Op == Merges \cup {"sortBlock", "ssort"}
\* Those that read with a bufferedReader.
Buffered == op \in {"multiMerge", "mergeHandler", "mergeFiles"}
Sorted(s) == \A i, j \in DOMAIN s : i < j => s[i] <= s[j]

\* What the callers pass: the merges get files that were sorted, and a sort
\* a segment with a record in it.
Callable ==
  \A i \in DOMAIN inputs : inputs[i] # Missing =>
    IF op \in Merges THEN Sorted(inputs[i]) ELSE inputs[i] # <<>>
Arity ==
  CASE op \in {"mergeFiles", "mergeBlocks"} -> Len(inputs) = 2
    [] op = "sortBlock" -> Len(inputs) = 1
    [] OTHER -> TRUE

TypeOK ==
  /\ op \in Op
  /\ inputs \in Seq(Lists \cup {Missing}) /\ Len(inputs) <= MaxInputs
  /\ canWrite \in BOOLEAN
  /\ pc \in {"call", "sorting", "merge", "true", "false", "hung", "crash", "wild"}
  /\ rest \in Seq(Seq(Record)) /\ Len(rest) <= Len(inputs)
  /\ running \subseteq DOMAIN inputs
  /\ out \in Seq(Record)

Init ==
  /\ op \in Op /\ canWrite \in BOOLEAN
  /\ inputs \in BoundedSeq(Lists \cup {Missing}, MaxInputs)
  /\ Callable /\ Arity
  /\ pc = "call" /\ rest = <<>> /\ running = {} /\ out = <<>>

\* How often a record is in a list, and in a number of lists.
At(r, s) == {i \in DOMAIN s : s[i] = r}
Times(r, s) == Cardinality(At(r, s))
Slots(r, lists) == UNION {{i} \X At(r, lists[i]) : i \in DOMAIN lists}
TimesIn(r, lists) == Cardinality(Slots(r, lists))
Total(r, written, lists) == Times(r, written) + TimesIn(r, lists)

\* std::sort, by what it promises.
SortingsOf(s) ==
  {t \in [DOMAIN s -> ToSet(s)] :
     Sorted(t) /\ \A r \in ToSet(s) : Times(r, t) = Times(r, s)}

\* The inputs a loop opens before it meets one it cannot open.
Unopened == {i \in DOMAIN inputs : inputs[i] = Missing}
OpenedFirst == {i \in DOMAIN inputs : \A j \in Unopened : i < j}

-----------------------------------------------------------------------------
(* The beginning of a call *)

Return(value) == pc' = value /\ UNCHANGED <<rest, running, out>>
Fail(left) == pc' = "false" /\ running' = left /\ UNCHANGED <<rest, out>>
Hang == pc' = "hung" /\ running' \in SUBSET OpenedFirst /\ UNCHANGED <<rest, out>>

\* What a reader hands out of a file: a chunk that is one empty record has
\* size 0, and is thrown away.
Handed(s) == IF Buffered /\ s \in Alone THEN Front(s) ELSE s

\* A reader that was started goes astray: nothing is claimed of what follows.
Strays == {i \in OpenedFirst : Buffered /\ inputs[i] \in Stray}
GoAstray == Strays # {} /\ Return("wild")

\* An input comes to its end.  A reader whose thread has not yet cleared ioAvail
\* is not complete, and asked for one more record it spins in getBuffer.
GoesOn == pc' = "merge"
GoesOnOrSpins(ended) == GoesOn \/ (Buffered /\ ended /\ pc' = "hung")

\* All files are open.  mergeFiles asks its readers whether they are complete
\* before it asks for the first record, the others do not.
StartMerge ==
  /\ Unopened = {} /\ canWrite /\ Strays = {}
  /\ rest' = [i \in DOMAIN inputs |-> Handed(inputs[i])]
  /\ LET ended == \E i \in DOMAIN inputs : rest'[i] = <<>>
     IN  IF Buffered /\ ended /\ op # "mergeFiles" THEN pc' = "hung"
         ELSE GoesOnOrSpins(ended)
  /\ running' = IF Buffered THEN DOMAIN inputs ELSE {}
  /\ UNCHANGED out

\* multiMerge starts the writer first; when that fails it stops a thread
\* that was never created.  When a reader fails those before it are cleaned up:
\* the join of a thread that waits on a full queue does not return, nor that of a
\* writer that has missed the notification of stopWrites.
MultiMergeCleanup_None == OpenedFirst                    \* a mutation
MultiMergeCleanup == {}
OpenMultiMerge ==
  /\ op = "multiMerge"
  /\ \/ Len(inputs) + 1 < 3 /\ Fail({})
     \/ Len(inputs) + 1 >= 3 /\ ~canWrite /\ Return("crash")
     \/ /\ Len(inputs) + 1 >= 3 /\ canWrite
        /\ \/ StartMerge \/ GoAstray
           \/ Unopened # {} /\ (Fail(MultiMergeCleanup) \/ Hang)

\* multiMergeHandler starts the readers first, and leaves them as they are
\* when one of them or the writer fails.
OpenMergeHandler ==
  /\ op = "mergeHandler"
  /\ \/ Len(inputs) + 1 < 3 /\ Fail({})
     \/ Len(inputs) + 1 >= 3 /\ (Unopened # {} \/ ~canWrite) /\ Fail(OpenedFirst)
     \/ Len(inputs) + 1 >= 3 /\ (StartMerge \/ GoAstray)

\* mergeFiles returns from under its readers; mergeBlocks has none.
OpenTwoWay ==
  /\ op \in {"mergeFiles", "mergeBlocks"}
  /\ \/ StartMerge \/ GoAstray
     \/ /\ Unopened # {} \/ ~canWrite
        /\ Fail(IF op = "mergeFiles" THEN OpenedFirst ELSE {})

\* sortBlock reads its segment, sorts it and writes it.
SortBlock ==
  /\ op = "sortBlock"
  /\ \/ /\ Unopened # {} \/ ~canWrite
        /\ Fail({})
     \/ /\ Unopened = {} /\ canWrite
        /\ out' \in SortingsOf(inputs[1])
        /\ pc' = "true" /\ UNCHANGED <<rest, running>>

\* blockSortHandler: one thread per block; one that cannot open the file has no
\* records.  runSort fails on a file that is not there.  With one core there is a
\* division by zero, and getNextIter may not return (FilePartition).  For a file
\* that filePartition cannot open there are no blocks, and nobody looks at what
\* setInterval returned.
OpenSsort ==
  /\ op = "ssort"
  /\ \/ Unopened = DOMAIN inputs /\ Fail({})
     \/ Return("crash") \/ Return("hung")
     \/ /\ running' = IF Unopened = DOMAIN inputs THEN {} ELSE DOMAIN inputs
        /\ rest' = [i \in running' |-> IF i \in Unopened THEN <<>> ELSE inputs[i]]
        /\ pc' = "sorting" /\ UNCHANGED out

Call ==
  /\ pc = "call"
  /\ \/ OpenMultiMerge \/ OpenMergeHandler \/ OpenTwoWay \/ SortBlock \/ OpenSsort
  /\ UNCHANGED <<op, inputs, canWrite>>

\* blockSort::operator() of one thread.
BlockSort ==
  /\ pc = "sorting"
  /\ \E i \in running :
       /\ \E t \in SortingsOf(rest[i]) : rest' = [rest EXCEPT ![i] = t]
       /\ running' = running \ {i}
  /\ UNCHANGED <<op, inputs, canWrite, pc, out>>

\* The threads are joined and the writer started.
JoinBlocks ==
  /\ pc = "sorting" /\ running = {}
  /\ pc' = IF canWrite THEN "merge" ELSE "false"
  /\ UNCHANGED <<op, inputs, canWrite, rest, running, out>>

-----------------------------------------------------------------------------
(* The merges, one iteration at a time *)

\* The inputs a loop looks for its smallest record in.  The loop of
\* blockSortHandler stops one block before the last.
Candidates_SkipFirst == DOMAIN rest \ (IF Len(rest) > 1 THEN {1} ELSE {})  \* a mutation
Candidates ==
  IF op = "ssort" THEN {1} \cup 2 .. Len(rest) - 1 ELSE DOMAIN rest

\* The first of the inputs with the smallest head.
MinIndex ==
  CHOOSE i \in Candidates : \A j \in Candidates :
    rest[i][1] < rest[j][1] \/ (rest[i][1] = rest[j][1] /\ i <= j)

\* getLineAndIncr; an input that is complete is cleaned up and erased.
Advanced_Keep(i) == [rest EXCEPT ![i] = IF Len(@) > 1 THEN Tail(@) ELSE @]  \* a mutation
Advanced(i) ==
  IF Len(rest[i]) = 1 THEN RemoveAt(rest, i) ELSE [rest EXCEPT ![i] = Tail(@)]

\* The readers were joined; the writer's thread may miss the end (BufferedWriter).
Finish ==
  /\ pc' = "true" \/ (op # "mergeBlocks" /\ pc' = "hung")
  /\ running' = {} /\ UNCHANGED <<rest, out>>

\* multiMerge, multiMergeHandler and blockSortHandler.  A block without records
\* is asked for one all the same: nothing is said of what follows.
MergeMany ==
  /\ pc = "merge" /\ op \in {"multiMerge", "mergeHandler", "ssort"}
  /\ \/ /\ rest # <<>> /\ \A i \in DOMAIN rest : rest[i] # <<>>
        /\ out' = Append(out, rest[MinIndex][1])
        /\ rest' = Advanced(MinIndex)
        /\ GoesOnOrSpins(Len(rest[MinIndex]) = 1)
        /\ UNCHANGED running
     \/ /\ rest # <<>> /\ \E i \in DOMAIN rest : rest[i] = <<>>
        /\ Return("wild")
     \/ rest = <<>> /\ Finish
  /\ UNCHANGED <<op, inputs, canWrite>>

\* The streams of mergeBlocks fail for good on a record that is too long.
Has(i) == rest[i] # <<>> /\ (op = "mergeBlocks" => rest[i][1] \notin Long)
Without(lists, ins) ==
  [i \in DOMAIN lists |-> IF i \in ins THEN Tail(lists[i]) ELSE lists[i]]
Take(ins, recs) ==
  /\ rest' = Without(rest, ins) /\ out' = out \o recs
  /\ GoesOnOrSpins(\E i \in ins : rest'[i] = <<>>)

\* An empty record of the first file makes mergeBlocks write the record of
\* the second one, and leave it there.
Extra == IF op = "mergeBlocks" /\ rest[1][1] = 0 /\ rest[2][1] # 0
         THEN <<rest[2][1]>> ELSE <<>>

Compare ==
  LET a == rest[1][1]  b == rest[2][1]
  IN  \/ a < b /\ Take({1}, Append(Extra, a))
      \/ a > b /\ Take({2}, Append(Extra, b))
      \/ a = b /\ Take({1, 2}, <<a, b>>)

\* mergeFiles and mergeBlocks.
MergeTwo ==
  /\ pc = "merge" /\ op \in {"mergeFiles", "mergeBlocks"}
  /\ \/ Has(1) /\ Has(2) /\ Compare /\ UNCHANGED running
     \/ \E i \in {1, 2} : /\ Has(i) /\ ~Has(3 - i)
                          /\ Take({i}, <<rest[i][1]>>) /\ UNCHANGED running
     \/ ~Has(1) /\ ~Has(2) /\ Finish
  /\ UNCHANGED <<op, inputs, canWrite>>

Next == Call \/ BlockSort \/ JoinBlocks \/ MergeMany \/ MergeTwo

Spec == Init /\ [][Next]_vars

-----------------------------------------------------------------------------
(* Properties *)

FirstIsEmpty == op = "mergeBlocks" /\ 0 \in ToSet(inputs[1])
SomeLong == op = "mergeBlocks" /\ Long \cap UNION {ToSet(inputs[i]) : i \in {1, 2}} # {}

\* How often record r is thrown away by the readers of the inputs.
Dropped(r) ==
  IF r = 0 THEN Cardinality({i \in DOMAIN inputs : Buffered /\ inputs[i] \in Alone})
  ELSE 0

\* What belongs to each step of a call: nothing is read before it begins, a
\* merge goes on only with all its files open, what uses no thread returns,
\* a two-way merge keeps its two lists, and the blocks keep their places while
\* they are sorted.
Shape ==
  /\ Callable /\ Arity
  /\ pc = "call" => rest = <<>> /\ running = {} /\ out = <<>>
  /\ pc \in {"sorting", "merge", "true"} => Unopened = {} \/ op = "ssort"
  /\ pc = "hung" => op \notin {"mergeBlocks", "sortBlock"}
  /\ pc = "sorting" => op = "ssort" /\ (running = {} \/ DOMAIN rest = DOMAIN inputs)
  /\ op = "sortBlock" => rest = <<>> /\ pc # "merge"
  /\ pc \in {"merge", "true"} /\ op \in {"mergeFiles", "mergeBlocks"} =>
       Len(rest) = 2 /\ \A i \in {1, 2} : ToSet(rest[i]) \subseteq ToSet(inputs[i])

\* At every moment of a call that has not hung each record of the inputs has
\* been written or is still to come, once, and in the end nothing is still to
\* come.  Three cases are excepted: a reader throws away an empty record that is
\* alone in a block, mergeBlocks repeats records of its second file when the
\* first holds an empty one, and it loses what follows a record that is too long.
Expected(r) == TimesIn(r, inputs) - Dropped(r)
Counted ==
  pc \in {"sorting", "merge", "true"} /\ Unopened = {} =>
    \A r \in Record :
      LET there == Total(r, out, rest)
      IN  /\ there >= Expected(r)
          /\ FirstIsEmpty \/ there <= Expected(r)
Emptied == pc = "true" => SomeLong \/ \A i \in DOMAIN rest : rest[i] = <<>>
Conserved == TypeOK /\ Shape /\ Counted /\ Emptied

\* What a merge or sortBlock has written is sorted, each list still to be
\* merged is, and no record still to come is smaller than one written.
InOrder(written, lists) ==
  /\ Sorted(written)
  /\ \A i \in DOMAIN lists :
       /\ Sorted(lists[i])
       /\ written # <<>> => \A r \in ToSet(lists[i]) : Last(written) <= r
Ordered == op \notin {"ssort", "mergeBlocks"} => InOrder(out, rest)

\* A call that returns leaves no thread running.  Only the merge task and
\* mergeFiles do, when one of their files cannot be opened.
ReadersStopped ==
  pc \in {"true", "false"} /\ running # {} =>
    /\ op \in {"mergeHandler", "mergeFiles"} /\ pc = "false"
    /\ Unopened # {} \/ ~canWrite

\* blockSortHandler "Sorts the input range and writes to an output file": what
\* ssort has written is sorted.
SsortSorts == op = "ssort" /\ pc = "true" => Sorted(out)

\* The safety properties; together they are inductive.
IInv == Conserved /\ Ordered /\ ReadersStopped
=============================================================================
