--------------------------- MODULE BufferedWriter ---------------------------
(***************************************************************************)
(* io/bufferedWriter.cpp: records are added to a current buffer; a full    *)
(* buffer is queued, written to the file by a thread of its own, and       *)
(* recycled.                                                               *)
(*                                                                         *)
(*   - the caller (cPc): startBuffers, addToBuffer, stopWrites, cleanup;   *)
(*   - the write thread (wPc): writeBuffers.                               *)
(*                                                                         *)
(* qMtx protects writeQ and resMtx protects reserveList; every critical    *)
(* section of either is one action.  A record is its number, 1, 2, ... in  *)
(* the order of the calls, and RecSize gives its bytes, '\n' included.     *)
(* Memory is kept per buffer, so that a buffer that is reused while it is  *)
(* still queued would be seen to corrupt the file, and a record keeps the  *)
(* offset it was copied to, so that one past the end would be seen.        *)
(***************************************************************************)
EXTENDS Naturals, Sequences, SequencesExt, Places

CONSTANTS
  RecSize,      \* the sizes of the records that are added, in order
  BufferSize,   \* bytes in a buffer
  ReserveSize   \* spare buffers allocated at the start (10 in the code)

ASSUME WriterAssumption ==
  /\ RecSize \in Seq(Nat \ {0})
  /\ BufferSize \in Nat
  /\ ReserveSize \in Nat
  \* addToBuffer writes past the buffer with a record that is longer
  /\ \A i \in DOMAIN RecSize : RecSize[i] <= BufferSize

VARIABLES
  cPc,          \* where the caller is
  added,        \* records added so far
  currentBuffer, \* the buffer being filled; 0: nullptr
  currentPos,   \* bytes in it
  recs,         \* records in it
  incoming,     \* FALSE before startBuffers and after stopWrites
  wPc,          \* where the write thread is
  wHand,        \* the queue entry it is writing
  wWake,        \* condVar was notified while the write thread waits on it
  writeQ,       \* full buffers, [buf, n]: the first n records of buf
  reserveList,  \* buffers free for reuse
  allocated,    \* buffers that new has returned and delete has not freed
  content,      \* the memory of each buffer: records, and where they start
  file          \* the records written to outFStr

callerVars == <<cPc, added, currentBuffer, currentPos, recs>>
writerVars == <<wPc, wHand>>
vars == <<callerVars, incoming, writerVars, wWake, writeQ, reserveList,
          allocated, content, file>>

Record == DOMAIN RecSize
Buffer == 1 .. ReserveSize + 1 + Len(RecSize)
Entry  == [buf : Buffer, n : Nat]
Copy   == [rec : Record, at : Nat]

TypeOK ==
  /\ cPc \in {"new", "adding", "newBuffer", "stopping", "notify", "join",
              "drain", "stopped", "done"}
  /\ added \in 0 .. Len(RecSize)
  /\ currentBuffer \in Buffer \cup {0}
  /\ currentPos \in 0 .. BufferSize
  /\ recs \in Nat
  /\ incoming \in BOOLEAN
  /\ wPc \in {"off", "check", "lock", "waiting", "write", "return", "exited"}
  /\ wHand \in Seq(Entry)
  /\ wWake \in BOOLEAN
  /\ writeQ \in Seq(Entry)
  /\ reserveList \in Seq(Buffer)
  /\ allocated \subseteq Buffer
  /\ content \in [Buffer -> Seq(Copy)]
  /\ file \in Seq(Record)

Init ==
  /\ cPc = "new" /\ added = 0 /\ currentBuffer = 0 /\ currentPos = 0
  /\ recs = 0 /\ incoming = FALSE
  /\ wPc = "off" /\ wHand = <<>> /\ wWake = FALSE
  /\ writeQ = <<>> /\ reserveList = <<>> /\ allocated = {}
  /\ content = [b \in Buffer |-> <<>>] /\ file = <<>>

\* What writing a queue entry appends to the file.
Data(e) == [i \in 1 .. e.n |-> content[e.buf][i].rec]

-----------------------------------------------------------------------------
(* The caller *)

\* The file may not open; the callers then give up.  Otherwise one buffer
\* more than reserveSize is allocated, and the first becomes the current one.
StartBuffers ==
  /\ cPc = "new"
  /\ \/ /\ cPc' = "done"
        /\ UNCHANGED <<reserveList, currentBuffer, allocated, incoming, wPc>>
     \/ /\ cPc' = "adding"
        /\ currentBuffer' = 1
        /\ reserveList' = [i \in 1 .. ReserveSize |-> i + 1]
        /\ allocated' = 1 .. ReserveSize + 1
        /\ incoming' = TRUE
        /\ wPc' = "check"
  /\ UNCHANGED <<added, currentPos, recs, wHand, wWake, writeQ, content, file>>

\* addToBuffer's test: there is no room for the next record.
Full_NoNewline(r) == RecSize[r] - 1 + currentPos > BufferSize   \* a mutation
Full(r) == RecSize[r] + currentPos > BufferSize

\* The memcpy of addToBuffer, into buffer b with n records and p bytes in it.
Store(b, n, p) ==
  /\ added' = added + 1
  /\ content' = [content EXCEPT ![b] = Append(SubSeq(@, 1, n),
                                               [rec |-> added', at |-> p])]
  /\ recs' = n + 1
  /\ currentPos' = p + RecSize[added']

AddToBuffer ==
  /\ cPc = "adding" /\ added < Len(RecSize)
  /\ ~Full(added + 1)
  /\ Store(currentBuffer, recs, currentPos)
  /\ UNCHANGED <<cPc, currentBuffer, incoming, writerVars, wWake, writeQ,
                 reserveList, allocated, file>>

\* The first half of cycleBuffers: the current buffer is queued under qMtx.
Enqueue_Front(e) == writeQ' = <<e>> \o writeQ            \* a mutation
Enqueue(e) == writeQ' = Append(writeQ, e)
QueueCurrent_Silent ==                                   \* a mutation
  Enqueue([buf |-> currentBuffer, n |-> recs]) /\ UNCHANGED wWake
QueueCurrent ==
  /\ Enqueue([buf |-> currentBuffer, n |-> recs])
  /\ wWake' = (wPc = "waiting")

AddCycle ==
  /\ cPc = "adding" /\ added < Len(RecSize)
  /\ Full(added + 1)
  /\ QueueCurrent
  /\ cPc' = "newBuffer"
  /\ UNCHANGED <<added, currentBuffer, currentPos, recs, incoming, writerVars,
                 reserveList, allocated, content, file>>

\* getNewBuffer takes a buffer from the reserve, or allocates one (the lowest
\* that is free, for new to have one outcome).
Spare_Shared(l) == l                                     \* a mutation
Spare(l) == Tail(l)
GetNewBuffer ==
  \/ /\ reserveList # <<>>
     /\ currentBuffer' = Head(reserveList)
     /\ reserveList' = Spare(reserveList)
     /\ UNCHANGED allocated
  \/ /\ reserveList = <<>>
     /\ currentBuffer' \in Buffer \ allocated
     /\ \A b \in Buffer \ allocated : currentBuffer' <= b
     /\ allocated' = allocated \cup {currentBuffer'}
     /\ UNCHANGED reserveList

\* The rest of addToBuffer, with a new buffer.
AddInNewBuffer ==
  /\ cPc = "newBuffer"
  /\ GetNewBuffer
  /\ Store(currentBuffer', 0, 0)
  /\ cPc' = "adding"
  /\ UNCHANGED <<incoming, writerVars, wWake, writeQ, file>>

\* stopWrites queues the last buffer, ...
StopWrites ==
  /\ cPc = "adding"
  /\ QueueCurrent
  /\ currentBuffer' = 0 /\ currentPos' = 0 /\ recs' = 0
  /\ cPc' = "stopping"
  /\ UNCHANGED <<added, incoming, writerVars, reserveList, allocated, content,
                 file>>

\* ... clears incoming without the lock, ...
ClearIncoming ==
  /\ cPc = "stopping"
  /\ incoming' = FALSE
  /\ cPc' = "notify"
  /\ UNCHANGED <<added, currentBuffer, currentPos, recs, writerVars, wWake,
                 writeQ, reserveList, allocated, content, file>>

\* ... notifies under it, ...
NotifyWriter_Current ==  \* a mutation: an empty queue is not notified
  /\ cPc = "notify"
  /\ wWake' = (wWake \/ (wPc = "waiting" /\ writeQ # <<>>))
  /\ cPc' = "join"
  /\ UNCHANGED <<added, currentBuffer, currentPos, recs, incoming, writerVars,
                 writeQ, reserveList, allocated, content, file>>
NotifyWriter ==
  /\ cPc = "notify"
  /\ wWake' = (wPc = "waiting")
  /\ cPc' = "join"
  /\ UNCHANGED <<added, currentBuffer, currentPos, recs, incoming, writerVars,
                 writeQ, reserveList, allocated, content, file>>

\* ... joins the thread ...
JoinWriter ==
  /\ cPc = "join" /\ wPc = "exited"
  /\ cPc' = "drain"
  /\ UNCHANGED <<added, currentBuffer, currentPos, recs, incoming, writerVars,
                 wWake, writeQ, reserveList, allocated, content, file>>

\* ... and writes what the thread left in the queue.
Drain ==
  /\ cPc = "drain"
  /\ \/ /\ writeQ # <<>>
        /\ file' = file \o Data(Head(writeQ))
        /\ reserveList' = Append(reserveList, Head(writeQ).buf)
        /\ writeQ' = Tail(writeQ)
        /\ UNCHANGED cPc
     \/ /\ writeQ = <<>>
        /\ cPc' = "stopped"
        /\ UNCHANGED <<file, reserveList, writeQ>>
  /\ UNCHANGED <<added, currentBuffer, currentPos, recs, incoming, writerVars,
                 wWake, allocated, content>>

\* cleanup deletes every buffer in the reserve.
Cleanup ==
  /\ cPc = "stopped"
  /\ reserveList' = <<>>
  /\ allocated' = allocated \ ToSet(reserveList)
  /\ cPc' = "done"
  /\ UNCHANGED <<added, currentBuffer, currentPos, recs, incoming, writerVars,
                 wWake, writeQ, content, file>>

Stopping ==
  AddInNewBuffer \/ ClearIncoming \/ NotifyWriter \/ JoinWriter \/ Drain
Caller == StartBuffers \/ AddToBuffer \/ AddCycle \/ StopWrites \/ Cleanup
            \/ Stopping

-----------------------------------------------------------------------------
(* The write thread *)

WriterCheck ==
  /\ wPc = "check"
  /\ wPc' = IF incoming THEN "lock" ELSE "exited"
  /\ UNCHANGED <<callerVars, incoming, wHand, wWake, writeQ, reserveList,
                 allocated, content, file>>

\* The second half of the critical section: take an entry, if there is one.
TakeEntry ==
  \/ /\ writeQ # <<>>
     /\ wHand' = <<Head(writeQ)>> /\ writeQ' = Tail(writeQ)
     /\ wPc' = "write"
  \/ /\ writeQ = <<>>
     /\ wPc' = "check"
     /\ UNCHANGED <<wHand, writeQ>>

WriterLock ==
  /\ wPc = "lock"
  /\ \/ writeQ = <<>> /\ wPc' = "waiting" /\ UNCHANGED <<wHand, writeQ>>
     \/ writeQ # <<>> /\ TakeEntry
  /\ UNCHANGED <<callerVars, incoming, wWake, reserveList, allocated, content,
                 file>>

\* The wait returns after a notification, or spuriously; it is not repeated.
WriterNotified ==
  /\ wPc = "waiting" /\ wWake
  /\ wWake' = FALSE
  /\ TakeEntry
  /\ UNCHANGED <<callerVars, incoming, reserveList, allocated, content, file>>

WriterSpurious ==
  /\ wPc = "waiting" /\ ~wWake
  /\ TakeEntry
  /\ UNCHANGED <<callerVars, incoming, wWake, reserveList, allocated, content,
                 file>>

WriterWrite ==
  /\ wPc = "write"
  /\ file' = file \o Data(Head(wHand))
  /\ wPc' = "return"
  /\ UNCHANGED <<callerVars, incoming, wHand, wWake, writeQ, reserveList,
                 allocated, content>>

WriterReturn ==
  /\ wPc = "return"
  /\ reserveList' = Append(reserveList, Head(wHand).buf)
  /\ wHand' = <<>>
  /\ wPc' = "check"
  /\ UNCHANGED <<callerVars, incoming, wWake, writeQ, allocated, content, file>>

Writer ==
  WriterCheck \/ WriterLock \/ WriterNotified \/ WriterWrite \/ WriterReturn

Next == Caller \/ Writer \/ WriterSpurious

Spec == Init /\ [][Next]_vars

\* Both threads take the steps of a call that has been made.
FairSpec == Spec /\ WF_vars(Writer) /\ WF_vars(Stopping)

-----------------------------------------------------------------------------
(* Properties *)

\* The entries not in the file yet, oldest first.
Pending == (IF wPc = "write" THEN wHand ELSE <<>>) \o writeQ
Current ==
  IF cPc = "adding" THEN <<[buf |-> currentBuffer, n |-> recs]>> ELSE <<>>

\* Entry e holds consecutive records in memory m, from Before(e, m) + 1 to
\* Through(e, m).
Before(e, m) == IF e.n = 0 THEN 0 ELSE m[e.buf][1].rec - 1
Through(e, m) == Before(e, m) + e.n
Whole(e, m) ==
  /\ e.n <= Len(m[e.buf])
  /\ \A i \in 1 .. e.n : m[e.buf][i].rec = Before(e, m) + i

\* The entries of q hold the records from + 1, ..., to, in this order.
Chained(q, from, to, m) ==
  /\ \A i \in DOMAIN q :
       /\ Whole(q[i], m)
       /\ Before(q[i], m) = IF i = 1 THEN from ELSE Through(q[i - 1], m)
  /\ to = IF q = <<>> THEN from ELSE Through(q[Len(q)], m)

\* The file, the buffer being written, the queue and the current buffer are,
\* in this order and at every moment, the records that were added: recycling
\* a buffer never overwrites, reorders, repeats or drops one.
RecordsInOrder ==
  /\ file = [i \in 1 .. Len(file) |-> i]
  /\ Chained(Pending \o Current, Len(file), added, content)

\* When stopWrites returns, the file holds every record that was added; after
\* cleanup no buffer is left allocated.
Complete ==
  /\ cPc = "stopped" => file = [i \in 1 .. added |-> i]
  /\ cPc = "done" => allocated = {} /\ writeQ = <<>>

\* A full buffer is written even if no other is ever queued after it.
QueuedWritten ==
  \A i \in Record :
    (\E e \in ToSet(writeQ) : i \in ToSet(Data(e))) ~> i \in ToSet(file)

\* stopWrites returns if, when it notifies, the write thread waits already, is
\* bound to test incoming once more, or will find a buffer in the queue.  Only
\* a thread between its test and its wait misses the notification, for good.
StopReturns == cPc = "notify" /\ (wPc = "lock" => writeQ # <<>>) ~> cPc = "stopped"

-----------------------------------------------------------------------------
(* The inductive invariant, from which BufferedWriter_proofs derives the     *)
(* safety properties.                                                        *)

\* The places where a buffer can be; while the caller is between cycleBuffers
\* and getNewBuffer, currentBuffer still points to the one it has queued.
Bufs(s) == [i \in DOMAIN s |-> s[i].buf]
Place == {"currentBuffer", "reserveList", "writeQ", "wHand"}
HeldAt(p) ==
  CASE p = "currentBuffer" -> Bufs(Current)
    [] p = "reserveList" -> reserveList
    [] p = "writeQ" -> Bufs(writeQ)
    [] p = "wHand" -> Bufs(wHand)
Held == [p \in Place |-> HeldAt(p)]

\* Every allocated buffer has one owner.
OneOwner == Apart(Held) /\ Carried(Held) = allocated

\* No record is copied past the end of its buffer, or over another one.
After(c) == c.at + RecSize[c.rec]
Fits ==
  \A b \in Buffer : \A i \in DOMAIN content[b] :
    /\ After(content[b][i]) <= BufferSize
    /\ content[b][i].at = IF i = 1 THEN 0 ELSE After(content[b][i - 1])

\* The caller writes behind the last record of the current buffer.
CurrentAt ==
  cPc = "adding" =>
    /\ currentBuffer \in Buffer
    /\ IF recs = 0 THEN currentPos = 0
       ELSE /\ recs = Len(content[currentBuffer])
            /\ currentPos = After(content[currentBuffer][recs])

\* What is empty, and who runs, at each step of the caller and the thread.
ControlAt ==
  /\ Len(wHand) = (IF wPc \in {"write", "return"} THEN 1 ELSE 0)
  /\ cPc = "new" =>
       /\ wPc = "off" /\ added = 0 /\ currentPos = 0 /\ recs = 0
       /\ writeQ = <<>> /\ reserveList = <<>> /\ allocated = {} /\ file = <<>>
  /\ cPc = "newBuffer" => added < Len(RecSize)
  /\ cPc \in {"drain", "stopped"} => wPc = "exited"
  /\ cPc = "stopped" => writeQ = <<>>
  /\ cPc = "done" => wPc \in {"off", "exited"} /\ writeQ = <<>> /\ allocated = {}

IInv ==
  TypeOK /\ OneOwner /\ Fits /\ CurrentAt /\ ControlAt /\ RecordsInOrder
=============================================================================
