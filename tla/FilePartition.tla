--------------------------- MODULE FilePartition ----------------------------
(***************************************************************************)
(* common/filePartition.cpp: divides a file, or a segment of one, into     *)
(* iterations [from, to) of about the same size that end on a record.      *)
(* lsort divides the whole file among the agents (setNumIter); on an agent *)
(* sortHandler divides its part again (setInterval).  splitFileBySize of   *)
(* common/fileUtil.cpp, which filePartition has replaced, is here too.     *)
(*                                                                         *)
(* A file is the set of the offsets where its records end, behind their    *)
(* '\n', with 0, where the first one begins.                               *)
(* Offsets are unsigned and wrap around at Width, which stands for 2^64.   *)
(*                                                                         *)
(* Definitions that other modules have too are called Partition..., so     *)
(* that this one can be extended together with Job.                        *)
(***************************************************************************)
EXTENDS Integers, Sequences, FiniteSets, FiniteSetsExt, SequencesExt

CONSTANTS
  Files,      \* the files that may be divided
  NumAgents,  \* the arguments setNumIter may be called with
  NumCores,   \* worker threads of an agent (hardware_concurrency() - 1)
  BlockLimits, \* values of blockSizeLimit, in bytes
  Width,      \* one more than the largest offset
  Width32,    \* one more than the largest uint32_t
  MaxIters    \* bound: calls of getNextIter

ASSUME PartitionAssumption ==
  /\ Width \in Nat /\ Width32 \in Nat \ {0}
  \* every record ends in '\n': getNextIter looks for it without end.  An
  \* offset has room for twice the size of the file
  /\ \A f \in Files : /\ f \subseteq Nat /\ 0 \in f
                      /\ \A b \in f : 2 * b < Width
  \* setNumIter and sortHandler divide by these
  /\ NumAgents \subseteq Nat \ {0} /\ NumCores \subseteq Nat \ {0}
  /\ \A limit \in BlockLimits : limit \in 0 .. Width - 1
  /\ MaxIters \in Nat

VARIABLES
  recFile,       \* the file
  pc,            \* "new", "ready", "hung" in the loop at end of file, "done";
                 \* "split" inside splitFileBySize
  fileOpen,
  interval,
  fileBegin,
  fileEnd,
  currentOffset,
  iters          \* the iterations generated so far; the serial is the index

partitionVars ==
  <<recFile, pc, fileOpen, interval, fileBegin, fileEnd, currentOffset, iters>>

\* Where a record may begin or end.
Boundaries == recFile
FileSize == Max(Boundaries)
Iter == [from : 0 .. FileSize, to : 0 .. FileSize]

PartitionTypeOK ==
  /\ recFile \in Files
  /\ pc \in {"new", "ready", "split", "hung", "done"}
  /\ fileOpen \in BOOLEAN
  /\ interval \in 0 .. Width - 1
  /\ fileBegin \in Boundaries /\ fileEnd \in Boundaries
  /\ currentOffset \in Boundaries
  /\ iters \in Seq(Iter)
  /\ pc = "new" => ~fileOpen /\ iters = <<>> /\ currentOffset = 0 /\ fileBegin = 0
  /\ pc = "ready" => interval <= FileSize

PartitionInit ==
  /\ recFile \in Files
  /\ pc = "new" /\ fileOpen = FALSE
  /\ interval = 0 /\ fileBegin = 0 /\ fileEnd = 0 /\ currentOffset = 0
  /\ iters = <<>>

\* openFile fails, and getNextIter then returns false.
OpenFails ==
  /\ pc = "new"
  /\ pc' = "done"
  /\ UNCHANGED <<recFile, fileOpen, interval, fileBegin, fileEnd,
                 currentOffset, iters>>

SetNumIter ==
  /\ pc = "new"
  /\ \E num \in NumAgents : interval' = FileSize \div num
  /\ fileEnd' = FileSize
  /\ fileOpen' = TRUE
  /\ pc' = "ready"
  /\ UNCHANGED <<recFile, fileBegin, currentOffset, iters>>

\* sortHandler computes the interval from the segment, as a uint32_t.  The
\* segment is an iteration of another partition, so that it begins and ends
\* on a record.
SetInterval ==
  /\ pc = "new"
  /\ \E begin, end \in Boundaries :
       /\ begin < end
       /\ \E cores \in NumCores, limit \in BlockLimits \ {0} :
            interval' = Min({limit, (end - begin) \div cores}) % Width32
       /\ fileBegin' = begin /\ currentOffset' = begin
       /\ fileEnd' = end
  /\ fileOpen' = TRUE
  /\ pc' = "ready"
  /\ UNCHANGED <<recFile, iters>>

\* getArgs: the next iteration is from currentOffset up to this offset.
Emit(to) ==
  /\ iters' = Append(iters, [from |-> currentOffset, to |-> to])
  /\ currentOffset' = to
  /\ UNCHANGED pc

EndOffset == (currentOffset + interval + Width - 1) % Width

\* tellg() after the loop that looks for '\n' from this offset on.
LineEnd_Raw(offset) == offset                            \* a mutation
LineEnd_Last(offset) == Max(Boundaries)                  \* a mutation
LineEnd(offset) == Min({b \in Boundaries : b > offset})

\* getNextIter.  The test is with '>': an end offset equal to fileEnd is
\* looked up in the file, where the next record begins, or the end of the
\* file, where the loop never ends.
Beyond_Late(offset) == offset > fileEnd + 1              \* a mutation
Beyond(offset) == offset > fileEnd
GetNextIter ==
  /\ pc = "ready" /\ Len(iters) < MaxIters
  /\ \/ /\ currentOffset >= fileEnd
        /\ pc' = "done"
        /\ UNCHANGED <<currentOffset, iters>>
     \/ /\ currentOffset < fileEnd /\ Beyond(EndOffset)
        /\ Emit(fileEnd)
     \/ /\ currentOffset < fileEnd /\ ~Beyond(EndOffset)
        /\ EndOffset < FileSize
        /\ Emit(LineEnd(EndOffset))
     \/ /\ currentOffset < fileEnd /\ ~Beyond(EndOffset)
        /\ EndOffset >= FileSize
        /\ pc' = "hung"
        /\ UNCHANGED <<currentOffset, iters>>
  /\ UNCHANGED <<recFile, fileOpen, interval, fileBegin, fileEnd>>

\* splitFileBySize, one turn of its loop at a time.
SplitFileBySize ==
  /\ pc = "new"
  /\ \E begin, end \in Boundaries :
       /\ begin < end
       /\ fileBegin' = begin /\ currentOffset' = begin /\ fileEnd' = end
  /\ interval' \in BlockLimits
  /\ fileOpen' = TRUE
  /\ pc' = "split"
  /\ UNCHANGED <<recFile, iters>>

SplitNext ==
  /\ pc = "split" /\ Len(iters) < MaxIters
  /\ LET last == currentOffset + interval
     IN  \/ currentOffset < fileEnd /\ last >= fileEnd /\ Emit(fileEnd)
         \/ currentOffset < fileEnd /\ last < fileEnd /\ Emit(LineEnd(last))
         \/ /\ currentOffset >= fileEnd
            /\ pc' = "done" /\ UNCHANGED <<currentOffset, iters>>
  /\ UNCHANGED <<recFile, fileOpen, interval, fileBegin, fileEnd>>

PartitionNext ==
  \/ OpenFails \/ SetNumIter \/ SetInterval \/ GetNextIter
  \/ SplitFileBySize \/ SplitNext

PartitionSpec == PartitionInit /\ [][PartitionNext]_partitionVars
PartitionFairSpec ==
  PartitionSpec /\ WF_partitionVars(GetNextIter) /\ WF_partitionVars(SplitNext)

-----------------------------------------------------------------------------
(* Properties *)

\* The state is well typed, and the iterations follow one another from the
\* beginning of the segment, each begins and ends on a record, and none is empty
\* (an interval of zero, a segment of fewer bytes than cores, is the exception).
CutOnRecords ==
  /\ PartitionTypeOK
  /\ \A i \in DOMAIN iters :
       /\ iters[i].to \in Boundaries
       /\ iters[i].from = (IF i = 1 THEN fileBegin ELSE iters[i - 1].to)
       /\ interval > 0 => iters[i].from < iters[i].to
  /\ currentOffset = IF iters = <<>> THEN fileBegin ELSE Last(iters).to

\* When getNextIter returns false every record of the segment is in an
\* iteration.  At no time is more than one record beyond the segment in one;
\* splitFileBySize leaves the records beyond it alone.
NoRecordLost ==
  /\ pc = "done" /\ fileOpen => currentOffset >= fileEnd
  /\ ~ \E b \in Boundaries : fileEnd < b /\ b < currentOffset
  /\ pc = "split" => currentOffset <= fileEnd

\* The search for '\n' runs past the end of the file only for a last
\* iteration of exactly interval - 1 bytes that ends the file.
HangsOnlyAtEnd ==
  pc = "hung" => fileEnd = FileSize /\ fileEnd - currentOffset = interval - 1

\* The calls of getNextIter come to an end, except for an interval of zero (a
\* segment of fewer bytes than cores, or a quotient that 32 bits cut to zero)
\* in a segment that is not the first.  splitFileBySize always ends.
IterationsEnd ==
  \/ pc = "ready" /\ (interval > 0 \/ fileBegin = 0)
  \/ pc = "split"
  ~> pc \in {"hung", "done"}

\* filePartition is a "class to divide a delimited file" (filePartition.h):
\* no iteration of a segment reaches into the next one.
DividesSegment == \A i \in DOMAIN iters : iters[i].to <= fileEnd

\* The safety properties; together they are inductive.
PartitionIInv == CutOnRecords /\ NoRecordLost /\ HangsOnlyAtEnd
=============================================================================
