# distributed-sort: specifications, model checking and proofs

`distributed-sort` sorts large files of newline-terminated records. An
initiator (`lsort`) cuts the input into one segment per agent, sends every
agent a *sort* task over TCP, waits for all of them, and then sends one agent a
*merge* task for the sorted pieces. An agent sorts its segment with a pool of
threads, one block per task, and merges the blocks. All file I/O of the merges
goes through a reader and a writer that have a thread of their own. `ssort` does
the same on one machine without intermediate files.

This directory holds TLA+ models of that program from the threads and the bytes
on a socket up to a whole run of `lsort`, TLC configurations that check them on
small instances, and TLAPS proofs for every value of the constants.

Run a model with `tlc -config X.cfg M`, a proof with `tlapm M.tla`.

## 1. The system

| part | source | state | operations | talks to |
|---|---|---|---|---|
| dispatch interface | `incl/dispatch.h` | none | `dispatchTask`, `waitForCompletion`, `terminate` | implemented by the two below |
| thread pool | `threadUtil/threadPool.cpp` | `sQ`, `resQ`, `totalIn`, `workersAlive` under `stMtx`, `endCond` | the above and `startDispatch`; the thread `queryThreads` | workers |
| worker | `threadUtil/worker.cpp` | `taskQ`, `resultsQ` under `runMtx`, `condVar`, `finish` | `addTask`, `ready`, `getResult`, `terminate`; the thread `threadFunc` | query thread |
| network dispatcher | `io/nwDispatch.cpp` | `taskQ`, `resultList` under `disMtx`, `tasksDispatched`, `alive`, `clientList` | the above and `startDispatch`; the thread `manageQs` | agents, by TCP |
| agent | `mains/agent.cpp` | its socket, the current task | connect; read, run, answer | dispatcher, handlers |
| messages | `common/protocol.cpp`, `common/tcpUtil.cpp` | none | encode and decode; a size prefix and a body | sockets |
| buffered writer | `io/bufferedWriter.cpp` | current buffer, `writeQ` under `qMtx`, `reserveList` under `resMtx`, `incoming` | `startBuffers`, `addToBuffer`, `stopWrites`, `cleanup`; the thread `writeBuffers` | file |
| buffered reader | `io/bufferedReader.cpp` | current buffer and line, `bufferQ` under `qMtx`, `reserveList` under `resMtx`, `ioAvail`, `bufferAlive` | `initBuffers`, `getCurrentLine`, `getLineAndIncr`, `isReadComplete`, `cleanup`; the thread `fillBuffers` | file |
| file partition | `common/filePartition.cpp` | `interval`, `currentOffset`, `fileEnd`, `serial` | `setNumIter`, `setInterval`, `getNextIter` | file |
| iterations | `common/dispatchIterations.cpp` | id-to-output table | `dispatchIters` | partition and a dispatcher |
| lsort | `mains/lsort.cpp` | merge arguments | main | partition, network dispatcher |
| sort handler | `handlers/sortHandler.cpp` | merge arguments, block files | `handler` | partition, thread pool, merge |
| ssort | `handlers/blockSortHandler.cpp`, `blockSort.cpp`, `mains/ssort.cpp` | blocks of records, a thread each | `handler` | partition, writer |
| merges | `mergeSort/multiMerge.cpp`, `mergeSort.cpp`, `handlers/multiMergeHandler.cpp` | heads of the inputs | `multiMerge`, `mergeFiles`, `mergeBlocks`, `sortBlock` | readers, writer |
| handler factory | `handlers/msgHandler.cpp` | none | `getHandler` | agent |
| logger, config | `common/*ogger.cpp`, `*onfig.cpp`, `fileUtil.cpp` | log file, key/value table | append; look up | everybody |

Behaviours that are hard here, and what makes each part correct:

* **Wake-ups.** Four condition variables, three of them with the wait under an
  `if`, and flags (`finish`, `incoming`, `ioAvail`, `alive`, `workersAlive`)
  that are set without the mutex the waiter holds. Correct: nobody sleeps while
  there is work, and every join returns.
* **Counting to the end.** Both dispatchers decide that the last result has come
  by comparing two counters that different threads move, one of them outside the
  mutex. Correct: the wait returns exactly when every task of the batch has a
  result, and reports exactly the failures.
* **Custody.** A task travels through queues, hands and sockets; a buffer through
  a queue, two threads and a reserve. Correct: each is in one place at a time.
* **Agents come and go.** They connect at any time, exit on a message they
  cannot read, and may die. Correct: what they do not hold is not affected.
* **Bytes.** `readFromSocket` reads a full buffer whatever the size prefix says,
  TCP cuts and joins, and the prefix is 16 bits wide. Correct: the task that is
  run is the task that was sent, and a success is reported only for one.
* **Files come and go.** Blocks, sorted segments and the output are written by
  one task and read and removed by another, while any of them may fail. Correct:
  nothing is removed before it is merged, no leftover is merged, and what is
  missing in the end has a cause.
* **Boundaries.** Files that end on a block boundary, intervals that end on the
  end of the segment, buffers filled to the last byte. Correct: records are cut
  nowhere, lost nowhere, and repeated nowhere.

## 2. Modules

| module | what it is | extends / instances |
|---|---|---|
| `Dispatch` | abstract contract of class `dispatch` | |
| `ThreadPool` | thread pool and workers | `Dispatch` by refinement, `Places` |
| `NwDispatch` | network dispatcher, connections, agents, and the calls `lsort` makes | `Dispatch` by refinement |
| `Wire` | one connection, byte by byte, with the text of the messages | |
| `Places` | where the things are that travel through queues: in one place, at most once | |
| `BufferedWriter` | the writer and its thread | `Places` |
| `BufferedReader` | the reader and its thread | `Places` |
| `FilePartition` | iterations over a file or a segment | |
| `Merge` | every function that sorts or merges records | |
| `Job` | a run of `lsort` with its agents, handlers and files | `Dispatch` as a part |
| `QueueLemmas` | lemmas about queues, places and least numbers | `Places` |
| `..._proofs` | theorems about the module they are named after, for all constants | that module, `QueueLemmas` |
| `Job_proofs` | theorems about `Job` and about `FilePartition`, which cuts its files | both, `QueueLemmas` |
| `MC...` | instances for TLC | the module they are named after |

The modules are layered. `ThreadPool` and `NwDispatch` are shown to implement
`Dispatch`, and `Job` uses the dispatcher only by that contract. `Merge` uses
readers and writers by what `BufferedReader` and `BufferedWriter` are shown to
promise; `Job` takes a whole merge for one step, with the outcomes `Merge` has.
`Places` says of a
pool's tasks and of a writer's or reader's buffers what their queues have in
common. `Wire` looks below `NwDispatch`: the message that is one element of a queue there
is two writes of bytes here.

A definition whose name has a suffix (`Idle_All`, `Full_Over`, ...) and the
comment "a mutation" is a wrong variant of the definition after it. It is used
nowhere; putting it in the place of the right one must break a property, which is
how each property is known to depend on the code.

### Dispatch

Sets instead of queues: `issued` identifiers, the current `batch`, what has
`finished`, what of that `failed`, what was `reported`. A wait returns only when
the whole batch has finished and reports exactly its failures. It says nothing
of threads, results in flight or agents.

### ThreadPool

`mPc` is the caller (`dispatchTask`, `startDispatch`, `waitForCompletion`,
`terminate`), `qPc` the query thread, `wPc[w]` the worker threads. One critical
section is one action, except `queryThreads`' feeding of a worker, which holds
`stMtx` while it takes `runMtx` and may start a thread: it is `QueryFeed`,
`QuerySpawn`, `QueryPush`, with `stMtx` held throughout (`StFree`). The query
thread's position in `threadVec` is kept, because which worker is asked when
decides who gets a task. A condition variable is a set of sleepers and a pending
notification; a notification that finds nobody asleep is lost, and a sleeper may
wake spuriously. `totalIn` is never reset, as in the code; `MaxBatches = 1`
because no caller waits twice on one pool (a second wait would block for ever).
A task type that is not in `functionTable` dereferences `end()`; callers use
types that are, so only a null function is modelled (`NullFunc`).

### NwDispatch

`pc` is the initiator's main thread, `dPc` the dispatch thread, `aPc[a]` agent
`a`. `DispatchTask` and `CountTask` are two actions since `tasksDispatched++`
comes after `disMtx` is released. `manageQs` is `CheckAlive`,
`LookForNewClients`, `HandleReads` (the poll), `ReadResult` (one client),
`HandleWrites` (the poll and the lock), `WriteTask` (one client), `WritesDone`.
The order in which idle clients get tasks is the code's comparison of
`lastReply - lastDispatch` (`took`, `Fresh` for a client that never answered).
A connection is a FIFO of whole messages each way. An agent ends on the
terminating message, on end of file, on a message above `msgSizeLimit`
(`Oversize`), or by a crash. A write to a socket whose peer has gone may be
swallowed, or raise `SIGPIPE`, which nothing handles: `SendFatal` ends the
initiator. End of file on a client's socket changes nothing in the dispatcher,
as in the code: the client stays active and its task is lost.

### Wire

The two ends of one connection. A byte is its ASCII code, a message is text:
`TaskText` and `ResultText` are `encodeTask` and `encodeResult`, `Frags` is
`splitString`, `Decoded` and `IsResult` are the decoders with what they leave
undefined (`Decoded` is a set: when `decodeTask` fails, the type is whatever was
in memory). `writeWithSizePrefix` is `WriteSize` and `WriteBody`; `readFromSocket`
is `ReadSize`, `ReadBody` and the loop `Drain`. TCP may cut a write in two
(`Deliver`, at most `MaxCuts` times) and, as bytes of several writes gather in
`buf`, join them. The size prefix is two bytes in base `Base`, which keeps the
point where its width is exceeded within reach. The dispatcher is `Send` and
`TakeResult` (with `stoi` throwing on a word that is no number), the agent
`TakeTask` with each branch of the loop of `main`: network error, terminating
message, no handler for the type, the handler's own test of its arguments.

`Joined` and `Frags` are recursive functions that put a text together word by word
and take it apart byte by byte, as the loops of `encodeTask` and `splitString` do.
`WireAssumption` says what the code gives them: every task has arguments, their bytes
are no control characters, a serial number is one digit (so at most nine tasks), a
result fits into the buffer, and a byte of text that is taken for the first byte of a
size announces a message too long. The last one is `32 * 256 > msgSizeLimit`, with 256
for the limit (`incl/tcpUtil.h:30`), in the code, and the small numbers of the run keep it.

### BufferedWriter, BufferedReader

Memory is modelled: `content[b]` is what lies in buffer `b`, and a queue entry
names a buffer, so that a buffer reused too early would be seen to change the
file or the records handed out. Records are numbers with a size in bytes.
The reader keeps the four ways a chunk can end that `readFromStream` tells apart:
a full block with the rest of its last record, a short block (`eofbit` and
`failbit`), a block of one empty record (size 0, thrown away), and nothing left
at all. In the last case `gcount() - 1` wraps around and the code looks for a
newline outside the buffer. The rest of the record a block ends in is appended to it
without a look at the end of the buffer, so that a record with more than
`nominalRecordSize` bytes before its newline may be written past it. In both cases
(`Astray`) the read thread goes to `"wild"`, after which nothing is claimed. Every
property of the reader says when it may happen or excludes it; `StaysInBuffer` says
what it takes.
Beside the queued chunks the read thread fills one buffer and the caller holds one or
two, and `getReserveBuffer` allocates whenever the reserve is empty: `IInv` has the
number of buffers that may exist at once, `bufferSizeLimit + 2` or `reserveSize` if
that is more. The header promises less (section 4, smaller disagreements).
The caller asks `isReadComplete` before it asks for a record, as `multiMerge` and
`brTest` do (`multiMerge` asks for the first one without), or gives up before the
first record, as `multiMerge` does when a later file cannot be opened. A file of
the reader is the sequence of the offsets where its records end, and a chunk the
numbers of its first and last record; the file of the writer is what has been
written to it.

### FilePartition

A file is the set of the offsets where its records end, with 0 (`Boundaries`).
`SetNumIter` is how `lsort` calls
it, `SetInterval` how `sortHandler` does with a segment from the first partition
and an interval computed from the cores and the block limit, cut to 32 bits
(`Width32`), and `SplitFileBySize` is the function of that name. Offsets wrap at
`Width`, since `currentOffset + interval - 1` is unsigned and `interval` can be
zero. The search for a newline is `LineEnd`; at the end of the file it never ends
(`"hung"`). The definitions that every module has are called `PartitionInit`,
`PartitionNext` and so on here, so that one module of proofs can extend this one and
`Job`.

### Merge

One call of one function (`op`). The actions are the opening of the files with
every early return and what it leaves running (`OpenMultiMerge`,
`OpenMergeHandler`, `OpenTwoWay`, `SortBlock`, `OpenSsort`), the block threads of
`ssort` (`BlockSort`, `JoinBlocks`), and one iteration of a merge loop
(`MergeMany`, `MergeTwo`). `std::sort` is any sorted list that holds each record
as often (`SortingsOf`). A file is a sequence of numbers, which is how `strcmp`
orders records; 0 is the empty record, which `mergeBlocks` treats specially
(`Extra`), and `Long` holds the records that overflow its 128 bytes and stop
its streams for good. Inputs are what the callers pass: sorted files for a merge,
a segment that is not empty for a sort.

A file read with a `bufferedReader` is not always handed out whole, as
`BufferedReader` shows. `Alone` are the lists whose last record is empty and alone in
its block, which the reader throws away (`Handed`); `<<0>>` is always one of them.
`Stray` are those with which the read thread leaves its buffer: a file without a
record, one that ends on a full block, or a record that is too long. Which lists these are depends on the size of a block,
so they are constants; the run has some of each. With a stray input the call may end
in `"wild"`, of which nothing is claimed. A merge that asks a reader for a record when
none is left ends in `"hung"`: `multiMerge` and the merge task do so at once with a
file that is one empty record, `mergeFiles` asks `isReadComplete` before, and in all of
them the answer may come before `ioAvail` is cleared (`GoesOnOrSpins`, finding 2). The
same place stands for a `cleanup` or `stopWrites` whose join does not return (`Hang`,
`Finish`).

### Job

The composition: `main` of `lsort` (`Start` to `Terminate`, with `dispatchIters`
as `DispatchIter`, `WaitForSorts`, `OutArgs`), the dispatcher (`Dispatch`,
instanced with the tasks 1 .. n + 1), who gives tasks to whom (`Give`,
`GiveToDead`, `Answer`, as `NwDispatch` has it), and on every agent the two
handlers step by step: `SortBegin`, one `SortBlock` per block in any order (the
pool), `SortBlocksDone`, `MergeBlocks`, `UnlinkBlocks`; `MergePieces`. A file is
the set of the blocks whose records it holds, or `NoFile`. Agents have a disk of
their own (`scratch`) whose block files have the same names for every task, and
share the file system of the sorted segments (`piece`) and of `output`. Any step
may fail where the code has an error path, and an agent may die at any point; the
ghost `hurt` remembers what failed, since the program does not, and `split` how
many blocks a segment was cut into.

A step may also never end, and whoever made it is `"hung"` from then on: `getNextIter`
in `dispatchIters`, on an agent (`SortBegin`) or in `main` (`DispatchIter`), where
`FilePartition` has its search for a newline run past the end of the file;
`multiMerge` and the merge task (`MergeBlocks`, `MergePieces`), where `Merge` has them
spin or join for ever; and `terminate` of the pool (`SortBlocksDone`, `UnlinkBlocks`),
which may join a worker for ever (finding 1). A hung agent keeps its task, so that the
dispatcher waits for it as for a dead one. `MaxFaults` bounds failed, unending and
fatal steps together.

`Job` speaks of whole blocks. Which single records a merge drops, repeats or reorders is
in `Merge`.

## 3. Runs

| run | bounds | what it shows |
|---|---|---|
| `pool` | 2 workers, 3 tasks (one without a function), 1 batch | `IInv`, `OneHolder`, `NothingAbandoned`, the refinement of `Dispatch`, `WaitCompletes` |
| `pool_join` | 1 worker, 1 task | **violated** `WorkerJoined` |
| `network` | 2 agents, 3 tasks (one too long), 2 batches, 1 crash, task times 0..1 | `IInv`, `StopAndWait`, `BlockedHasWork`, `ReportExact`, the refinement of `Dispatch`, `WaitCompletes`, `AgentsReleased` |
| `wire` | 3 lists of tasks around `msgSizeLimit` = 12 and a prefix of 16 values, 2 cuts, agent may die | `IInv`, `HandlerExact`, `SuccessIsReal`, `DispatcherSurvives`, `Answered` |
| `writer` | 7 records, 4-byte buffers, 1 spare | `IInv`, `RecordsInOrder`, `Complete`, `QueuedWritten`, `StopReturns` |
| `reader` | 6 files, 3-byte blocks, 2 queued chunks | `IInv`, `RecordsInOrder`, `CompleteMeansAll`, `StaysInBuffer`, `AllDelivered`, `AbandonReturns` |
| `reader_end` | one file of two records | **violated** `EndIsSeen` |
| `partition` | all files of up to 5 records of 1..3 bytes, 1..4 agents or cores, 3 block limits | `CutOnRecords`, `NoRecordLost`, `HangsOnlyAtEnd`, `IterationsEnd` |
| `partition_segment` | one file of 5 records, 2 agents, 3 cores | **violated** `DividesSegment` |
| `merge` | up to 3 inputs, each missing, any list of up to 2 records, or one of 5 longer ones with empty and long records | `Conserved`, `Ordered`, `ReadersStopped` |
| `ssort_merge` | the same | **violated** `SsortSorts` |
| `job` | 2 agents, 3 segments of up to 2 blocks, 3 faults | `IInv`, `LossHasCause`, `OwnBlocks`, `RemovedIsMerged`, `MainEnds` |

Type correctness is checked as a conjunct of `IInv`, `CutOnRecords` or
`Conserved`. Deadlock checking is off everywhere because every program here ends
(or stands still for want of a call, a connection or a lost agent); the liveness
properties say where it must not.

Why the bounds are enough. *Pool*: with two workers and three tasks one worker is
busy while the other is fed, a task waits in `sQ`, and a worker's queue fills to
`maxInQ`; the failure path has both a null function and a return code.
*Network*: two agents give a choice of whom to serve, one crash hits the idle
agent, the working one or the one whose result is on the wire; two batches make
results of the first meet the counter of the second, as in `lsort`. *Wire*: a
message of exactly the limit, one above it, two above the width of the prefix
(one whose remainder decodes as a task, one whose does not), a name with a space;
one cut separates the bytes of a prefix or of a body, two can do both. *Writer* and
*reader*: fewer spare buffers than buffers in use, so that `new` and the reserve
are both used and buffers are recycled; records fill a buffer exactly, one short,
and one over; one file of the reader has a record too long for its buffer.
*Partition*: every placement of a boundary against an interval that
the small sizes allow, with an interval of zero, one, a record and more than the
file, and one that is cut by the narrow integer. *Merge*: three inputs give the
searches a first, an inner and a last one; the lists hold equal, empty and long
records, and among them are files whose last block is one empty record and files that
lead a reader astray. *Job*: an agent gets a second segment after its first, with the blocks of
a failed one still on its disk; three faults drop a segment and still hit the
merge, or fail both blocks of one segment and one of another; two segments that
remain are merged, one is not; any of the three may be a step that never ends.

`MaxTasks`, `MaxBatches`, `MaxDuration`, `MaxCrashes`, `MaxIters`, `MaxCuts`,
`MaxInputs`, `MaxBlocks` and `MaxFaults` are bounds of the models, not of the code.
`MaxIters` cuts off an interval of zero, with which `getNextIter` yields empty
iterations for ever.

### Fairness

Weak fairness of each thread and of each agent's steps: a thread that can run
runs. That a call returns does not follow, and is nowhere assumed of the component a
model is about: `worker::terminate`, `stopWrites`, `cleanup`, `getBuffer` and
`getNextIter` wait or loop in their models as they do in the code. Where a model calls
another component, an unending call is one of the outcomes of the step (`"hung"` in
`Merge` and `Job`). The exceptions are the models in which the work of a task is the
environment: in `ThreadPool` the function of a task, in `NwDispatch` and `Wire` a
handler is taken to return, so that `WaitCompletes` and `Answered` are about the
dispatchers alone; what becomes of a run with handlers that do not return is in `Job`. In `ThreadPool` the steps of the waiting
caller that need `stMtx` are strongly fair: the query thread takes and
releases the mutex again and again, and the caller is assumed to get it at some
time; an implementation of `std::mutex` that starves a waiter for ever would break
this assumption. `NwDispatch` needs no more than weak fairness. In the reader both
threads run and the caller reads until it is told to stop; in the writer the write
thread runs, and a call of `stopWrites` goes on once it has been made. In `Wire` both
programs run and TCP delivers what was written. In `Job` `main` and the handlers take
each step they can, with every outcome it may have, and the network gives out tasks and brings results back (`WaitCompletes` and the
handling of agents one after the other are `NwDispatch`'s). Nobody is obliged to
make a call, to connect, to fail, to crash or to wake spuriously.

## 4. What the runs found

1. **A worker may never be joined** (`pool_join`). `worker::terminate` sets
   `finish` and notifies without excluding that the worker is between its loop
   test and its wait.
2. **A caller at the end of the file may spin for ever** (`reader_end`). `ioAvail`
   is cleared after the last buffer was pushed; a caller that has consumed that
   buffer in between is told to go on.
3. **A segment's last iteration may include the next segment's first record**
   (`partition_segment`), which then appears twice in the output. The run has a file
   whose records end at 2, 5, 6, 9 and 12 and the segment [0, 6) that two agents give
   it; with three cores the iterations are [0, 2), [2, 5) and [5, 9).
4. **`ssort` does not sort** with two or more blocks (`ssort_merge`). The search for
   the smallest head stops one block short.

Properties that hold only with an exception, named in the property, because the
code does not do more:

* `StopReturns`: `stopWrites` returns unless its notification falls between the
  write thread's loop test and its wait, the pattern of finding 1.
* `AbandonReturns`: a reader given up early is joined only if the whole file fits
  in its queue; otherwise its thread waits on the full queue for ever.
* `WaitCompletes`: the wait of `lsort` returns unless a task is lost with an agent,
  by a crash or because its message is above `msgSizeLimit`, which the agent takes
  for a network error. `Answered` has the same exception.
* `MainEnds`: `lsort` ends unless an agent dies or hangs (in `getNextIter`, in a merge,
  in `terminate` of its pool), or its own `getNextIter` does not return.
* `HandlerExact`, `DispatcherSurvives`: a short read of a size or a body is taken
  for the whole, so both hold only while TCP cuts no write; a task whose text is
  longer than the prefix can say may be run as a shorter one.
* `Conserved`: a reader throws away an empty record that is alone in its block (all
  merges but `mergeBlocks`); `mergeBlocks` repeats records when its first file holds an
  empty one and drops what follows a record of 128 bytes or more. Of a call that has
  hung, and of one with an input that leads its reader astray, nothing is claimed.
* `StaysInBuffer`: the reader stays in its buffer unless the file ends with a full
  block, or a record with more than `nominalRecordSize` bytes before its newline is
  still to be read.
* `ReadersStopped`: `multiMergeHandler` and `mergeFiles` return from under the
  readers they have started when a file cannot be opened.
* `LossHasCause`: blocks and segments that failed are left out of the merge and
  nobody is told. It speaks of a run in which the merge task succeeded; after one that
  failed `lsort` exits with 0 as well. `RemovedIsMerged`: a `multiMerge` that failed on
  an agent is only logged, its blocks are removed, and the task is reported as a success.
* `HangsOnlyAtEnd`, `IterationsEnd`: `getNextIter` does not return when the rest of
  the file is exactly `interval - 1` bytes, and yields empty iterations when
  `interval` is zero and `fileBegin` is not.

* `IInv` of the reader: up to `bufferSizeLimit + 2` buffers exist, see below.

Smaller disagreements. `bufferedReader.h:8` says "The number of buffers will not exceed
bufferSizeLimit at any time", which the code does not keep: only the length of the queue
is compared with the limit (`bufferedReader.cpp:18`, `25`), and `getReserveBuffer`
allocates whenever the reserve list is empty (`191`). In the instance of the run, where
`reserveSize` and `bufferSizeLimit` are both 2 (both are 10 in the code), a third buffer
is allocated as soon as the caller has taken the first, the second is queued and the
read thread wants one to fill, and a fourth when the caller, in the middle of
`getBuffer`, has both the buffer it has used up and the next. `OneOwner`, proved as a
part of `IInv`, is the bound that does hold. `dispatchIterations.cpp:10` calls `outArgs` the "Failed
tasks" and returns the outputs of those that succeeded; a chunk that is one empty
line is dropped by the reader (`RecordsInOrder` names it as the only exception), and
a file that is one empty line makes `multiMerge` and the merge task spin for ever.

The flags above are plain `bool`s read and written by two threads without a
mutex, which C++ calls a data race. The models take each read to return a value
that was written, since every iteration of each loop also locks a mutex and the
flag is reloaded.

## 5. Proofs

Each proof rests on the assumption of its module and on nothing else. Each has the
same plan: a safety property that matters is seldom inductive, so the module states
an `IInv` that is, TLC checks it on the instance of the run first (for the
partition and the merges the properties of the run are its conjuncts), and the
proof shows `Init => IInv`, `IInv /\ [Next]_vars => IInv'` conjunct by conjunct and
action by action, and that `IInv` implies the property.

What is common to several proofs is in `QueueLemmas`. `PopKeeps`, `PushKeeps`,
`MoveKeeps` and `ClearKeeps` are about `Places`: when a thing moves from the head of
one queue to the end of another, nothing is in two places and nothing is lost. They
carry the tasks of the pool and the buffers of the writer and the reader; the
component's proof only has to say which of the moves a step makes. `LeastNat` (a
set of naturals that is not empty has a least element) stands in for induction
where a `CHOOSE` or a search has to find something.

### NwDispatch_proofs

For every set of at most 16 agents and every number of tasks, batches and crashes,
from the assumption `NwAssumption` alone:

| theorem | statement |
|---|---|
| `Invariance` | `Spec => []IInv` |
| `TypeCorrect` | `Spec => []TypeOK` |
| `MessagesStopAndWait` | `Spec => []StopAndWait` |
| `NeverSleepsForNothing` | `Spec => []BlockedHasWork` |
| `WaitReportsExactly` | `Spec => ReportExact` |
| `Refinement` | `Spec => ImplementsDispatch` |

None of the three safety properties is inductive. `StopAndWait` depends on an
active client being exactly one that holds a task; `BlockedHasWork` on the
results being distinct members of the batch, so that as many results as tasks
means all of them; `ReportExact` on each result carrying the return code its
agent gave. `IInv` is the conjunction of

* `TypeOK`;
* `Accounting`: `tasksDispatched` is the size of the batch, or one less while the
  caller is between the two halves of `dispatchTask`;
* `Custody`: the queue holds the identifiers `NextOut .. taskId - 1` in order, and
  each identifier of the batch below `NextOut` has one result or is held by one
  agent, never both and never by two;
* `OnePerAgent`: an agent, with its connection, holds at most one task, and
  exactly while its client counts as active;
* `Outcomes`: results agree with the return codes.

The proof has one lemma per conjunct (`TypeStep`, `AccountingStep`, `CustodyStep`,
`OnePerAgentStep`, `OutcomesStep`) with one step per action. They rest on lemmas
about the two kinds of move a task makes: `WriteEffect` and `WriteHolds` (from the
queue to an agent), `AgentKeepsTask` (within an agent and its connection) and
`ReadEffect` (from an agent to the results). `AllInMeansDone` does the counting:
distinct results, as many as the batch has tasks, are all of them; it rests on
`DistinctInInterval`, about the cardinality of an interval.

`Refinement` maps every step to one of the contract or to a stutter: `DispatchTask`
issues an identifier, `ReadResult` finishes a task, the return of the wait reports,
and everything else is invisible (`Invisible`) or ends the use of the dispatcher
(`Ending`). That a task finishes once is `Custody`: a result that arrives is of a
task that an agent held, and such a task has no result yet.

### ThreadPool_proofs

For every number of threads, tasks and batches, from `PoolAssumption`:

| theorem | statement |
|---|---|
| `Invariance` | `Spec => []IInv` |
| `NeitherLostNorRepeated` | `Spec => []OneHolder` |
| `NothingLeftBehind` | `Spec => []NothingAbandoned` |
| `WaitReportsExactly` | `Spec => ReportExact` |
| `Refinement` | `Spec => ImplementsDispatch` |

`OneHolder` says that the queues and hands (`sQ`, `taskQ`, `wHand`, `resultsQ`,
`qHand`, `resQ`) partition the batch. It needs to know that a hand is empty when
something is taken into it, and that the worker the query thread has picked is still
idle when the task is pushed, though `stMtx` and `runMtx` are two mutexes: that is
`QueryAt` and `WorkersAt`. `CallerAt` has what the caller knows: `totalIn` counts
every task ever dispatched, so a wait can end only in the first batch, and `terminate`
has joined the workers it has passed. `Outcomes` ties the code of a result to the run
of its task. `AllInMeansDone` does the counting: when `resQ` is as long as `totalIn`,
`resQ` holds the whole batch, so every other place is empty, which gives
`NothingAbandoned` once the threads have stopped.

### BufferedWriter_proofs

For all records, buffer sizes and numbers of buffers, from `WriterAssumption`:

| theorem | statement |
|---|---|
| `Invariance` | `Spec => []IInv` |
| `NothingLostOrReordered` | `Spec => []RecordsInOrder` |
| `StoppedComplete` | `Spec => []Complete` |

`RecordsInOrder` is about memory: the entries of the queue name buffers, and what
they stand for is what lies in those buffers when they are written. It is kept
because each allocated buffer has one owner (`OneOwner`: current buffer, reserve,
queue, or the hand of the write thread), so that a store into the current buffer
leaves the queued ones alone (`StoreFrame`), because records never overlap or run over
the end (`Fits`), and because the caller's position is behind the last record
(`CurrentAt`). `Chained` runs through file, hand, queue and current buffer; appending
to and removing from it are lemmas (`ChainedAppend`, `ChainedHead`). `ControlAt` has
what is empty at each step, and with it `Complete` follows.

### BufferedReader_proofs

For all files, with records of any length, block sizes and queue limits, from
`ReaderAssumption`:

| theorem | statement |
|---|---|
| `Invariance` | `Spec => []IInv` |
| `NothingLostOrReordered` | `Spec => []RecordsInOrder` |
| `AstrayForCause` | `Spec => []StaysInBuffer` |
| `CompleteIsComplete` | `Spec => []CompleteMeansAll` |

The argument is the writer's, with the buffers going round: `OneOwner` has five
places, and adds that beside those of the queue at most two buffers are ever
allocated (the caller's and the read thread's). `InTurn` says that what was handed
out, the rest of the current buffer and the chunks in flight follow one another in
the file. `ReadFacts` is the arithmetic of `readFromStream`: a block ends inside or at
the end of a record, the rest of that record is added, and the block after it begins
where this one ended; the last record that ends in a block is found as the greatest
one, not by induction. `ReaderAt` ties `ioAvail` and the state of the stream to the read
thread's place and keeps the queue below its limit; with `CallerAt` an answer "complete"
means that no chunk is left anywhere.

### Merge_proofs

For every set of records, all inputs and any number of them, from
`MergeAssumption`:

| theorem | statement |
|---|---|
| `Invariance` | `Spec => []IInv` |
| `EachRecordOnce` | `Spec => []Conserved` |
| `WrittenInOrder` | `Spec => []Ordered` |
| `ThreadsLeft` | `Spec => []ReadersStopped` |

`IInv` is the conjunction of the three properties; `Conserved` carries `TypeOK` and
`Shape`, which says what belongs to each step of a call. How often a record is in a
list is the number of its places there, and in several lists the number of pairs of a
list and a place (`Slots`): taking a head, removing a list and sorting a block each
map places to places one to one (`SameSize`), which gives `TimesTail`,
`TimesReplace`, `TimesRemove` and `TimesSorted`, and from these that written and
still-to-come records stay the same in total (`TakeTotal`, `TakeLastTotal`). No sum
is taken, so no induction is needed. `MinFacts` shows that a loop finds a least head,
and `TakeInOrder` that a least head may be written next; the two equal heads of a
two-way merge are written by taking one after the other (`BothTaken`). `ExtraFacts` is
the empty record of `mergeBlocks`: without one in the first file nothing is repeated.
What is counted against the inputs is what their readers hand out: `Expected` is less
by one for each input that ends with an empty record alone in its block.
`ssort` keeps its records like the others, but its loop looks past the last block,
so `Ordered` leaves it out (finding 4).

### Job_proofs

For every set of agents and every number of segments, blocks and faults, from
`JobAssumption` alone:

| theorem | statement |
|---|---|
| `Invariance` | `Spec => []IInv` |
| `SegmentsAreOwn` | `Spec => []OwnBlocks` |
| `LossesHaveCauses` | `Spec => []LossHasCause` |
| `NothingRemovedEarly` | `Spec => RemovedIsMerged` |

Each of the three is about a file and steps that were made long before, by
another process, and none is inductive. `IInv` carries the connection:

* `TypeOK` and `Stages`: which tasks the batch holds where `main` is;
* `Custody`: an agent's task is of the batch, given to it alone and not finished,
  and a segment not given to anyone is untouched (`Fresh`);
* `Sorting`: how far each agent is (`Progress`): each block of its segment is still
  to be sorted, was sorted (and is on its disk under its name) or has failed;
  after the merge the segment is exactly what was sorted, or a failure is on record;
* `OwnBlocks`;
* `Results`: a task that failed has a cause (`BadCause`), one that succeeded has
  left what it should (`GoodPiece`), and `mergeArgs` sifts the segments accordingly;
* `Merging`: a merge task that succeeded has its inputs in the output (`Merged`), and
  once the segments are removed every segment is accounted for (`Accounted`).

One lemma per conjunct (`TypeStep`, `StagesStep`, `CustodyStep`, `SortingStep`,
`OwnBlocksStep`, `ResultsStep`, `MergingStep`). Three lemmas keep the cases few: a step
of `sortHandler` touches its own segment and disk only (`OwnSegmentOnly`), it makes
`Progress` (`SortProgress`), and the steps of `main` that only move on leave the rest
alone (`AsideEffect`). `OutcomeKept`, `ProgressKept` and `MergedKept` say that what is
known of a segment survives every step that is not about it. `SegmentRemoval` and
`BlockRemoval` find the one action that removes a file of each kind.

### Job_proofs: the partition

For all files, agents, cores, block limits and both widths, from
`PartitionAssumption`:

| theorem | statement |
|---|---|
| `PartitionInvariance` | `PartitionSpec => []PartitionIInv` |
| `IterationsAreRecords` | `PartitionSpec => []CutOnRecords` |
| `SegmentCovered` | `PartitionSpec => []NoRecordLost` |
| `HangsOnlyThere` | `PartitionSpec => []HangsOnlyAtEnd` |

The conjuncts of `PartitionIInv` are the three properties. `LineEnd` is the least boundary behind
an offset, so no boundary lies between the two (`LineEndFacts`); `EndOffsetFacts` is the
unsigned arithmetic, where an interval of zero at offset zero wraps; `EmitKeeps` adds
one iteration, and `OpenKeeps` covers the three ways to begin.

### Wire_proofs

For every list of up to nine tasks, every length of the names in them, every base of a
byte, every size of the buffer and any number of cuts, from `WireAssumption` alone:

| theorem | statement |
|---|---|
| `Invariance` | `Spec => []IInv` |
| `TypeCorrect` | `Spec => []TypeOK` |
| `TasksArriveWhole` | `Spec => []HandlerExact` |
| `NoFalseSuccess` | `Spec => []SuccessIsReal` |
| `DispatcherOutlivesAgent` | `Spec => []DispatcherSurvives` |
| `FragsOfJoined` | `Frags(Joined(words)) = words` for every list of words, of any length, none of which holds a space |

Each property is about what an end makes of bytes that the other one wrote several
steps before, so `IInv` has to say which bytes are where. `Stream` does: of a size and
a body, what has not been read is the buffer followed by the writes on the way, and, as
long as nothing was cut, in whole writes. `AgentInStep` and `DispatcherInStep` say for
each place an end may be in which message that is, or that the end has lost its way:
`Adrift` and `Lost` for the agent, `Astray` for the dispatcher. `InOrder` holds what
was handled and what was answered against the tasks.

What happens after a cut is why the proof is long. An agent that reads part of a
message takes the rest for a size; `Misread` says that this size is too long, so the
agent throws bytes away and never handles a task again. A dispatcher that reads part of
an answer either finds no result in it or throws (`PrefixDecoded`, `ResultFacts`), and
what is left (`Garbled`) never looks like the beginning of an answer. So no sequence of
cuts makes a failure of one task the success of another.

The proof has these parts:

* the text: `Frags` undoes `Joined` (`FragsOfJoined`), and what a decoder makes of a
  text of which the tail is missing (`TextPrefix`). Induction over the length of a text
  and over the number of words is a statement about the set of the numbers for which
  the claim holds (`Induct`, from `LeastNat`), since an induction theorem that takes an
  operator could not be used; `Recursion` gives the values of a recursive function
  in the same way;
* bytes on the way: how a write, a delivery of the first n bytes and a read change
  `Stream`, `Garbled` and `Adrift` (`StreamBegins`, `StreamGrows`, `StreamDelivery`,
  `StreamSize`, `StreamShort`, `StreamBody` and their like);
* the parts of the invariant as relations of plain values (`AgentAt`, `DispatcherAt`),
  with one lemma per step that an end makes (`AgentTold`, `AgentReadsSize`,
  `DispatcherReadsBody`, ...);
* the actions: what each does to the variables (`ReadSizeForm`, `DeliverForm`, ...) and
  that it keeps the invariant (`SendStep`, `TakeTaskStep`, `AgentReads`,
  `DispatcherDelivery`, ...), put together in `Step`.

### Only model-checked

* The liveness properties (`WaitCompletes`, `AgentsReleased`, `QueuedWritten`,
  `StopReturns`, `AllDelivered`, `AbandonReturns`, `IterationsEnd`, `Answered`,
  `MainEnds`): temporal proofs under fairness need `ENABLED`, which the prover used
  does not reason about.
* What the four runs that expect a violation show: there a counterexample is the
  proof.

## 6. Not modelled

* The logger, the configuration file and the file utilities other than
  `splitFileBySize`: I/O under one mutex, or read once before any thread starts.
* What an overrun of `pollfd[16]` does (the models assume at most 16 agents).
* Writes that fail on a full disk: neither `bufferedWriter` nor its callers look at
  the state of the stream, so there is no behaviour of the code to model but the
  loss itself.
* A second batch on one thread pool, which no caller makes.
* Errors of socket calls other than `bind` and `connect`.
* Headers that no source file implements, scripts, test programs and the data
  generator.

Nothing of the plan is left to be modelled, and every invariant that a passing run
checks is a theorem for all values of the constants. What is left to be proved is the
liveness, for which a prover would have to know `ENABLED`.
