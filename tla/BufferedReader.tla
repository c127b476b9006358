--------------------------- MODULE BufferedReader ---------------------------
(***************************************************************************)
(* io/bufferedReader.cpp: a thread reads a file in chunks that end on a    *)
(* record, and a caller takes the records one at a time.                   *)
(*                                                                         *)
(*   - the read thread (rPc): fillBuffers;                                 *)
(*   - the caller (cPc): initBuffers, isReadComplete, getCurrentLine and   *)
(*     getLineAndIncr, cleanup.  It asks isReadComplete before it asks     *)
(*     for another record, as multiMerge and brTest do.                    *)
(*                                                                         *)
(* qMtx protects bufferQ and resMtx protects reserveList; every critical   *)
(* section of either is one action.  A file is the sequence of the offsets *)
(* where its records end, '\n' included, and a record is its number.  A    *)
(* chunk is the records first .. last that it holds: it always begins on a *)
(* record.                                                                 *)
(***************************************************************************)
EXTENDS Integers, Sequences, FiniteSets, SequencesExt, Places

CONSTANTS
  Files,             \* the files that may be read
  BufferSize,        \* bytes in a buffer
  NominalRecordSize, \* bytes left free for the rest of the last record (20)
  BufferSizeLimit,   \* chunks that may be queued (10)
  ReserveSize        \* buffers allocated at the start (10)

ASSUME ReaderAssumption ==
  /\ BufferSize \in Nat /\ NominalRecordSize \in Nat
  /\ NominalRecordSize < BufferSize
  /\ BufferSizeLimit \in Nat \ {0} /\ ReserveSize \in Nat
  \* every record ends in '\n'
  /\ \A f \in Files :
       /\ f \in Seq(Nat)
       /\ \A i \in DOMAIN f : f[i] - (IF i = 1 THEN 0 ELSE f[i - 1]) \in Nat \ {0}

VARIABLES
  recFile,      \* the file
  nextRec,      \* the first record not yet read from it
  streamGood,   \* inFStr is neither at eof nor failed
  rPc,          \* where the read thread is
  rBuff,        \* the buffer it fills; 0: none
  ioAvail,      \* FALSE once the read thread is done
  rWake,        \* condVar was notified while the read thread waits on it
  bufferQ,      \* chunks read and not yet taken, as buffers
  bufferAlive,  \* bufferQ was not empty after the last pop
  reserveList,  \* buffers free for reuse
  allocated,    \* buffers that new has returned and delete has not freed
  content,      \* the chunk in the memory of each buffer
  cPc,          \* where the caller is
  cBuff,        \* the buffer it has popped and not yet made current; 0: none
  currentBuffer, \* the buffer whose records are handed out; 0: nullptr
  currentLine,  \* records of it handed out
  lines,        \* records in it (lines.size())
  output,       \* the records handed out
  dropped       \* history: records in chunks that were thrown away

readVars   == <<nextRec, streamGood, rPc, rBuff, ioAvail, dropped>>
callerVars == <<cPc, cBuff, currentBuffer, currentLine, lines, output,
                bufferAlive>>
vars == <<recFile, readVars, rWake, bufferQ, reserveList, allocated, content,
          callerVars>>

NumRecs == Len(recFile)
Record  == 1 .. NumRecs
\* readFromStream asks for this many bytes at once.
Request == BufferSize - NominalRecordSize
\* Room for every buffer the code could have allocated.
Buffer == 1 .. ReserveSize + BufferSizeLimit + 2
Chunk  == [first : Nat, last : Nat]
NoChunk == [first |-> 1, last |-> 0]

\* Bytes of the first k records, and of the records first .. last.
EndOf(k) == IF k = 0 THEN 0 ELSE recFile[k]
Bytes(first, last) == EndOf(last) - EndOf(first - 1)

TypeOK ==
  /\ recFile \in Files
  /\ nextRec \in 1 .. NumRecs + 1
  /\ streamGood \in BOOLEAN
  /\ rPc \in {"off", "check", "lock", "waiting", "get", "read", "push",
              "return", "end", "exited", "wild"}
  /\ rBuff \in Buffer \cup {0}
  /\ ioAvail \in BOOLEAN /\ rWake \in BOOLEAN
  /\ bufferQ \in Seq(Buffer)
  /\ bufferAlive \in BOOLEAN
  /\ reserveList \in Seq(Buffer)
  /\ allocated \subseteq Buffer
  /\ content \in [Buffer -> Chunk]
  /\ cPc \in {"new", "check", "get", "spin", "pop", "recycle", "join",
              "abandon", "done", "failed"}
  /\ cBuff \in Buffer \cup {0}
  /\ currentBuffer \in Buffer \cup {0}
  /\ currentLine \in Nat /\ lines \in Nat /\ currentLine <= lines
  /\ output \in Seq(Record)
  /\ dropped \subseteq Record

Init ==
  /\ recFile \in Files
  /\ nextRec = 1 /\ streamGood = TRUE
  /\ rPc = "off" /\ rBuff = 0 /\ ioAvail = FALSE /\ rWake = FALSE
  /\ bufferQ = <<>> /\ bufferAlive = FALSE
  /\ reserveList = <<>> /\ allocated = {}
  /\ content = [b \in Buffer |-> NoChunk]
  /\ cPc = "new" /\ cBuff = 0 /\ currentBuffer = 0
  /\ currentLine = 0 /\ lines = 0 /\ output = <<>> /\ dropped = {}

-----------------------------------------------------------------------------
(* The read thread *)

\* The while condition of fillBuffers.
ReadCheck ==
  /\ rPc = "check"
  /\ rPc' = IF streamGood THEN "lock" ELSE "end"
  /\ UNCHANGED <<recFile, nextRec, streamGood, rBuff, ioAvail, dropped, rWake,
                 bufferQ, reserveList, allocated, content, callerVars>>

\* Under qMtx: wait if the queue is full.
Full_Early(n) == n >= BufferSizeLimit - 1               \* a mutation
Full_Over(n) == n > BufferSizeLimit                      \* a mutation
Full(n) == n >= BufferSizeLimit

ReadLock ==
  /\ rPc = "lock"
  /\ rPc' = IF Full(Len(bufferQ)) THEN "waiting" ELSE "get"
  /\ UNCHANGED <<recFile, nextRec, streamGood, rBuff, ioAvail, dropped, rWake,
                 bufferQ, reserveList, allocated, content, callerVars>>

\* The wait returns after a notification, or spuriously; the size is read
\* again, and with a queue still full the loop starts over.
AfterWait == rPc' = IF Full(Len(bufferQ)) THEN "check" ELSE "get"

ReadNotified ==
  /\ rPc = "waiting" /\ rWake
  /\ rWake' = FALSE
  /\ AfterWait
  /\ UNCHANGED <<recFile, nextRec, streamGood, rBuff, ioAvail, dropped,
                 bufferQ, reserveList, allocated, content, callerVars>>

ReadSpurious ==
  /\ rPc = "waiting" /\ ~rWake
  /\ AfterWait
  /\ UNCHANGED <<recFile, nextRec, streamGood, rBuff, ioAvail, dropped, rWake,
                 bufferQ, reserveList, allocated, content, callerVars>>

\* getReserveBuffer takes a buffer from the reserve, or allocates one (the
\* lowest that is free, for new to have one outcome).
Spare_Shared(l) == l                                     \* a mutation
Spare(l) == Tail(l)
GetReserveBuffer ==
  /\ rPc = "get"
  /\ \/ /\ reserveList # <<>>
        /\ rBuff' = Head(reserveList)
        /\ reserveList' = Spare(reserveList)
        /\ UNCHANGED allocated
     \/ /\ reserveList = <<>>
        /\ rBuff' \in Buffer \ allocated
        /\ \A b \in Buffer \ allocated : rBuff' <= b
        /\ allocated' = allocated \cup {rBuff'}
        /\ UNCHANGED reserveList
  /\ rPc' = "read"
  /\ UNCHANGED <<recFile, nextRec, streamGood, ioAvail, dropped, rWake,
                 bufferQ, content, callerVars>>

\* The records that readFromStream gets: a block of Request bytes, or what
\* is left, and then the rest of the record k the block ends in.
Left_OffByOne == Bytes(nextRec, NumRecs) - 1             \* a mutation
Left == Bytes(nextRec, NumRecs)
LastRead(k) ==
  /\ Bytes(nextRec, k) >= Request \/ k = NumRecs
  /\ k = nextRec \/ Bytes(nextRec, k - 1) < Request

\* With nothing left gcount() - 1 wraps around, and readFromStream reads
\* outside the buffer; it writes past its end when the record the block ends in
\* needs more bytes than are left free.
Astray ==
  \/ Left = 0
  \/ \E k \in nextRec .. NumRecs : LastRead(k) /\ Bytes(nextRec, k) > BufferSize

\* readFromStream.  A short block sets eofbit and failbit, a full one does
\* not, even if it ends the file.  The size it returns leaves out the last
\* '\n', so that a block of one empty record has size 0.
ReadFromStream ==
  /\ rPc = "read"
  /\ \/ /\ ~Astray
        /\ \E k \in nextRec .. NumRecs :
             /\ LastRead(k)
             /\ content' = [content EXCEPT ![rBuff] =
                              [first |-> nextRec, last |-> k]]
             /\ nextRec' = k + 1
             /\ \/ /\ Bytes(nextRec, k) > 1
                   /\ rPc' = "push"
                   /\ UNCHANGED dropped
                \/ /\ Bytes(nextRec, k) = 1
                   /\ rPc' = "return"
                   /\ dropped' = dropped \cup {k}
        /\ streamGood' = (Left >= Request)
     \/ /\ Astray
        /\ rPc' = "wild"
        /\ UNCHANGED <<content, nextRec, streamGood, dropped>>
  /\ UNCHANGED <<recFile, rBuff, ioAvail, rWake, bufferQ, reserveList,
                 allocated, callerVars>>

PushBuffer ==
  /\ rPc = "push"
  /\ bufferQ' = Append(bufferQ, rBuff)
  /\ rBuff' = 0
  /\ rPc' = "check"
  /\ UNCHANGED <<recFile, nextRec, streamGood, ioAvail, dropped, rWake,
                 reserveList, allocated, content, callerVars>>

ReturnUnused ==
  /\ rPc = "return"
  /\ reserveList' = Append(reserveList, rBuff)
  /\ rBuff' = 0
  /\ rPc' = "check"
  /\ UNCHANGED <<recFile, nextRec, streamGood, ioAvail, dropped, rWake,
                 bufferQ, allocated, content, callerVars>>

ReadEnd ==
  /\ rPc = "end"
  /\ ioAvail' = FALSE
  /\ rPc' = "exited"
  /\ UNCHANGED <<recFile, nextRec, streamGood, rBuff, dropped, rWake, bufferQ,
                 reserveList, allocated, content, callerVars>>

Reader ==
  \/ ReadCheck \/ ReadLock \/ ReadNotified \/ GetReserveBuffer
  \/ ReadFromStream \/ PushBuffer \/ ReturnUnused \/ ReadEnd

-----------------------------------------------------------------------------
(* The caller.  After a wild read or write the process is taken to be dead. *)

Alive == rPc # "wild"

\* initBuffers; the file may not open.  multiMerge asks for a record first,
\* brTest asks isReadComplete first, and multiMerge calls cleanup at once
\* when another of its files does not open.
InitBuffers ==
  /\ cPc = "new"
  /\ \/ /\ cPc' = "failed"
        /\ UNCHANGED <<ioAvail, reserveList, allocated, rPc>>
     \/ /\ cPc' \in {"get", "check", "abandon"}
        /\ ioAvail' = TRUE
        /\ reserveList' = [i \in 1 .. ReserveSize |-> i]
        /\ allocated' = 1 .. ReserveSize
        /\ rPc' = "check"
  /\ UNCHANGED <<recFile, nextRec, streamGood, rBuff, dropped, rWake, bufferQ,
                 content, cBuff, currentBuffer, currentLine, lines, output,
                 bufferAlive>>

\* isReadComplete.  It reads ioAvail first, and once that is FALSE the read
\* thread changes nothing any more: one step stands for the three reads.
ReadComplete_NoQueue ==                                  \* a mutation
  ~ioAvail /\ currentLine >= lines
ReadComplete ==
  ~ioAvail /\ ~bufferAlive /\ currentLine >= lines /\ bufferQ = <<>>

IsReadComplete ==
  /\ Alive /\ cPc = "check"
  /\ cPc' = IF ReadComplete THEN "join" ELSE "get"
  /\ UNCHANGED <<recFile, readVars, rWake, bufferQ, reserveList, allocated,
                 content, cBuff, currentBuffer, currentLine, lines, output,
                 bufferAlive>>

\* getLineAndIncr, when the current buffer has a record left.
GetLine ==
  /\ Alive /\ cPc = "get" /\ currentLine < lines
  /\ output' = Append(output, content[currentBuffer].first + currentLine)
  /\ currentLine' = currentLine + 1
  /\ cPc' = "check"
  /\ UNCHANGED <<recFile, readVars, rWake, bufferQ, reserveList, allocated,
                 content, cBuff, currentBuffer, lines, bufferAlive>>

\* getBuffer: with room in the queue the read thread is notified; then, if
\* the queue was empty, the caller spins until it is not.
Room_Never(n) == n >= BufferSizeLimit                    \* a mutation
Room(n) == n < BufferSizeLimit

GetBuffer ==
  /\ Alive /\ cPc = "get" /\ currentLine = lines
  /\ rWake' = (rWake \/ (Room(Len(bufferQ)) /\ rPc = "waiting"))
  /\ cPc' = IF bufferQ = <<>> THEN "spin" ELSE "pop"
  /\ UNCHANGED <<recFile, readVars, bufferQ, reserveList, allocated, content,
                 cBuff, currentBuffer, currentLine, lines, output, bufferAlive>>

Spin ==
  /\ Alive /\ cPc = "spin" /\ bufferQ # <<>>
  /\ cPc' = "pop"
  /\ UNCHANGED <<recFile, readVars, rWake, bufferQ, reserveList, allocated,
                 content, cBuff, currentBuffer, currentLine, lines, output,
                 bufferAlive>>

PopBuffer ==
  /\ Alive /\ cPc = "pop"
  /\ cBuff' = Head(bufferQ)
  /\ bufferQ' = Tail(bufferQ)
  /\ bufferAlive' = (Len(bufferQ) > 1)
  /\ cPc' = "recycle"
  /\ UNCHANGED <<recFile, readVars, rWake, reserveList, allocated, content,
                 currentBuffer, currentLine, lines, output>>

\* The old buffer goes back to the reserve, and the new one is cut into lines.
Recycle ==
  /\ Alive /\ cPc = "recycle"
  /\ reserveList' = IF currentBuffer = 0 THEN reserveList
                    ELSE Append(reserveList, currentBuffer)
  /\ currentBuffer' = cBuff
  /\ cBuff' = 0
  /\ currentLine' = 0
  /\ lines' = content[cBuff].last - content[cBuff].first + 1
  /\ cPc' = "get"
  /\ UNCHANGED <<recFile, readVars, rWake, bufferQ, allocated, content, output,
                 bufferAlive>>

\* cleanup joins the read thread and deletes the buffers, but for those
\* still queued.
Cleanup ==
  /\ Alive /\ cPc \in {"join", "abandon"} /\ rPc = "exited"
  /\ allocated' = allocated \ (ToSet(reserveList) \cup {currentBuffer})
  /\ reserveList' = <<>>
  /\ cPc' = IF cPc = "join" THEN "done" ELSE "failed"
  /\ UNCHANGED <<recFile, readVars, rWake, bufferQ, content, cBuff,
                 currentBuffer, currentLine, lines, output, bufferAlive>>

CallerStep ==
  \/ IsReadComplete \/ GetLine \/ GetBuffer \/ Spin \/ PopBuffer \/ Recycle
  \/ Cleanup

Next == InitBuffers \/ CallerStep \/ Reader \/ ReadSpurious

Spec == Init /\ [][Next]_vars

\* Both threads run, and the caller reads on until it is told to stop.
FairSpec == Spec /\ WF_vars(Reader) /\ WF_vars(CallerStep)

-----------------------------------------------------------------------------
(* Properties *)

\* The buffers with chunks between the file and the caller, oldest first.
One(b) == IF b = 0 THEN <<>> ELSE <<b>>
InFlight == One(cBuff) \o bufferQ \o (IF rPc = "push" THEN <<rBuff>> ELSE <<>>)

\* The records in each buffer, and those of the current one not handed out.
RecordsIn == [b \in Buffer |-> content[b].first .. content[b].last]
Rest ==
  IF currentBuffer = 0 THEN {}
  ELSE content[currentBuffer].first + currentLine .. content[currentBuffer].last

AllBefore(R, S) == \A r \in R, s \in S : r < s

\* The records of S, and behind them those that m gives for the buffers of q,
\* one buffer behind the other, are the records of A.
InTurn(S, q, m, A) ==
  /\ \A k \in DOMAIN q :
       /\ AllBefore(S, m[q[k]])
       /\ \A l \in DOMAIN q : k < l => AllBefore(m[q[k]], m[q[l]])
  /\ S \cup UNION {m[q[k]] : k \in DOMAIN q} = A

\* What was handed out, what is left of the current buffer, and the chunks
\* queued follow one another in the order of the file, with no record twice,
\* and make up what was read from it: no buffer is refilled while its records
\* are still wanted.  The only records missing are those of a chunk that was
\* one empty record.
RecordsInOrder ==
  /\ \A i, j \in DOMAIN output : i < j => output[i] < output[j]
  /\ AllBefore(ToSet(output), Rest)
  /\ InTurn(ToSet(output) \cup Rest, InFlight, RecordsIn, 1 .. nextRec - 1 \ dropped)
  /\ \A r \in dropped : r < nextRec /\ Bytes(r, r) = 1

\* When isReadComplete says so, the whole file has been handed out, and
\* cleanup then deletes every buffer.
CompleteMeansAll ==
  /\ cPc \in {"join", "done"} => ToSet(output) = Record \ dropped
  /\ cPc = "done" => allocated = {}

\* The read thread leaves its buffer only when it has already read the last
\* record of the file, with a last block that was not short, or when a record
\* still to be read has more than nominalRecordSize bytes before its '\n'.
StaysInBuffer ==
  rPc = "wild" =>
    /\ streamGood
    /\ \/ nextRec = NumRecs + 1
       \/ \E k \in nextRec .. NumRecs : Bytes(k, k) > NominalRecordSize + 1

\* Every record read from the file reaches a caller who goes on reading, but
\* for those in a chunk that is thrown away, unless the read thread goes
\* astray: neither side waits for ever for the other while work is left.
AllDelivered ==
  \A i \in 1 .. Max({Len(f) : f \in Files}) :
    (cPc \in {"get", "check"} /\ i \in Record) ~>
       i \in ToSet(output) \cup dropped \/ ~Alive

\* cleanup returns to a caller who gives up before the first record if all the
\* chunks of the file fit in the queue; with a longer file the read thread
\* waits on the full queue, and cleanup for the read thread.
AbandonReturns ==
  cPc = "abandon" /\ Bytes(1, NumRecs) < BufferSizeLimit * Request
    ~> cPc = "failed" \/ ~Alive

\* isReadComplete "returns if the file has been read completely"
\* (bufferedReader.cpp): a caller who reads a file to its end is told so.
EndIsSeen == cPc \in {"get", "check"} ~> cPc = "done" \/ ~Alive

-----------------------------------------------------------------------------
(* The inductive invariant, from which BufferedReader_proofs derives the     *)
(* safety properties.                                                        *)

\* The places where a buffer can be; cleanup deletes the current buffer and
\* leaves the pointer to it.
Place == {"rBuff", "bufferQ", "cBuff", "currentBuffer", "reserveList"}
HeldAt(p) ==
  CASE p = "rBuff" -> One(rBuff)
    [] p = "bufferQ" -> bufferQ
    [] p = "cBuff" -> One(cBuff)
    [] p = "currentBuffer" -> IF cPc \in {"done", "failed"} THEN <<>>
                              ELSE One(currentBuffer)
    [] p = "reserveList" -> reserveList
Held == [p \in Place |-> HeldAt(p)]

\* Every allocated buffer has one owner, and beside those of the queue at most
\* two are ever needed.  The header promises less: "The number of buffers will
\* not exceed bufferSizeLimit at any time" (incl/bufferedReader.h:8) is not
\* what the code does, which limits the queue alone (lines 18 and 25).
OneOwner ==
  /\ Apart(Held) /\ Carried(Held) = allocated
  /\ \/ Cardinality(allocated) <= ReserveSize
     \/ Cardinality(allocated) <= BufferSizeLimit + 2

\* A chunk fits in its buffer with the rest of its last record.
Fits ==
  \A b \in Buffer :
    /\ content[b].first \in 1 .. content[b].last + 1
    /\ content[b].last < nextRec
    /\ Bytes(content[b].first, content[b].last) <= BufferSize

\* The lines of the current buffer are the records of its chunk.
CurrentAt ==
  IF currentBuffer = 0 THEN lines = 0
  ELSE lines = content[currentBuffer].last - content[currentBuffer].first + 1

\* What the read thread knows at each of its steps: the queue never holds
\* more than bufferSizeLimit chunks, and a stream that is no longer good has
\* nothing left.
ReaderAt ==
  /\ rBuff = 0 <=> rPc \notin {"read", "push", "return", "wild"}
  /\ ioAvail <=> rPc \notin {"off", "exited"}
  /\ Len(bufferQ) <= BufferSizeLimit
  /\ rPc \in {"get", "read", "push"} => Len(bufferQ) < BufferSizeLimit
  /\ rPc \in {"lock", "waiting", "get", "read", "wild"} => streamGood
  /\ rPc \in {"end", "exited"} => ~streamGood
  /\ ~streamGood => nextRec = NumRecs + 1

\* What the caller knows at each of its steps.
CallerAt ==
  /\ cPc = "new" =>
       /\ rPc = "off" /\ bufferQ = <<>> /\ reserveList = <<>> /\ allocated = {}
       /\ currentBuffer = 0
  /\ rPc = "off" => cPc \in {"new", "failed"}
  /\ cPc = "failed" => rPc \in {"off", "exited"}
  /\ cBuff = 0 <=> cPc # "recycle"
  /\ cPc = "pop" => bufferQ # <<>>
  /\ cPc \in {"spin", "pop", "recycle"} => currentLine = lines
  /\ cPc \in {"join", "done"} =>
       rPc = "exited" /\ bufferQ = <<>> /\ currentLine = lines
  /\ cPc = "done" => allocated = {}

IInv ==
  /\ TypeOK /\ OneOwner /\ Fits /\ CurrentAt /\ ReaderAt /\ CallerAt
  /\ RecordsInOrder /\ StaysInBuffer
=============================================================================
