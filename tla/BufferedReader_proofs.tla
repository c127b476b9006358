------------------------ MODULE BufferedReader_proofs ------------------------
(***************************************************************************)
(* The safety properties of BufferedReader, for every file and every       *)
(* number and size of the buffers.                                         *)
(***************************************************************************)
EXTENDS BufferedReader, QueueLemmas

(* The file *)

\* The ends of the records, one by one.
LEMMA EndFacts ==
  ASSUME recFile \in Files
  PROVE  /\ NumRecs \in Nat /\ DOMAIN recFile = 1 .. NumRecs
         /\ EndOf(0) = 0
         /\ \A i \in 0 .. NumRecs : EndOf(i) \in Nat
         /\ \A i \in 1 .. NumRecs : EndOf(i) - EndOf(i - 1) \in Nat \ {0}
<1>1. /\ recFile \in Seq(Nat)
      /\ \A i \in DOMAIN recFile :
           recFile[i] - (IF i = 1 THEN 0 ELSE recFile[i - 1]) \in Nat \ {0}
  BY ReaderAssumption
<1>2. NumRecs \in Nat /\ DOMAIN recFile = 1 .. NumRecs
  BY <1>1, LenProperties DEF NumRecs
<1>3. \A i \in 1 .. NumRecs : recFile[i] \in Nat
  BY <1>1, <1>2, ElementOfSeq DEF NumRecs
<1>4. EndOf(0) = 0
  BY DEF EndOf
<1>5. \A i \in 0 .. NumRecs : EndOf(i) \in Nat
  BY <1>2, <1>3 DEF EndOf
<1>6. ASSUME NEW i \in 1 .. NumRecs
      PROVE  EndOf(i) - EndOf(i - 1) \in Nat \ {0}
  <2>1. i # 0 /\ (i - 1 = 0 <=> i = 1)
    BY <1>2
  <2>2. EndOf(i) = recFile[i] /\ EndOf(i - 1) = IF i = 1 THEN 0 ELSE recFile[i - 1]
    BY <2>1 DEF EndOf
  <2>3. QED
    BY <1>1, <1>2, <2>2
<1>7. QED
  BY <1>2, <1>4, <1>5, <1>6

\* No record is empty: each ends behind all the ones before it.
LEMMA EndsIncrease ==
  ASSUME recFile \in Files, NEW i \in 0 .. NumRecs, NEW j \in 0 .. NumRecs, i < j
  PROVE  EndOf(i) < EndOf(j)
<1> DEFINE S == {k \in 1 .. NumRecs : i < k /\ EndOf(k) <= EndOf(i)}
<1>a. /\ NumRecs \in Nat
      /\ \A k \in 0 .. NumRecs : EndOf(k) \in Nat
      /\ \A k \in 1 .. NumRecs : EndOf(k) - EndOf(k - 1) \in Nat \ {0}
      /\ NominalRecordSize \in Nat
  BY EndFacts, ReaderAssumption
<1>1. SUFFICES ASSUME ~(EndOf(i) < EndOf(j))
               PROVE  FALSE
  OBVIOUS
<1>2. j \in S
  <2>1. j \in 1 .. NumRecs
    BY <1>a
  <2>2. EndOf(j) <= EndOf(i)
    BY <1>1, <1>a
  <2>3. QED
    BY <2>1, <2>2
<1>3. PICK k \in S : \A y \in S : k <= y
  <2>1. S \subseteq Nat
    BY <1>a
  <2>2. QED
    BY <1>2, <2>1, LeastNat
<1>4. /\ k \in 1 .. NumRecs /\ i < k /\ EndOf(k) <= EndOf(i)
      /\ k - 1 \in 0 .. NumRecs /\ EndOf(k) \in Nat /\ EndOf(k - 1) \in Nat
      /\ EndOf(k) - EndOf(k - 1) >= 1 /\ EndOf(i) \in Nat
  BY <1>3, <1>a
<1>5. CASE k - 1 = i
  BY <1>4, <1>5
<1>6. CASE k - 1 # i
  <2>1. k - 1 \in 1 .. NumRecs /\ i < k - 1
    BY <1>4, <1>6, <1>a
  <2>2. k - 1 \notin S
    BY <1>3, <1>4
  <2>3. EndOf(k - 1) > EndOf(i)
    BY <1>4, <2>1, <2>2
  <2>4. QED
    BY <1>4, <2>3
<1>7. QED
  BY <1>5, <1>6

\* What readFromStream may get when something is left.
LEMMA ReadFacts ==
  ASSUME recFile \in Files, nextRec \in 1 .. NumRecs + 1,
         NEW k \in nextRec .. NumRecs, LastRead(k)
  PROVE  /\ k \in 1 .. NumRecs /\ nextRec \in 1 .. NumRecs
         /\ Bytes(nextRec, k) \in Nat
         /\ Bytes(nextRec, k) > BufferSize => Bytes(k, k) > NominalRecordSize + 1
         /\ Bytes(nextRec, k) = 1 => k = nextRec
         /\ ~(Left >= Request) => k = NumRecs
<1>a. /\ NumRecs \in Nat
      /\ \A l \in 0 .. NumRecs : EndOf(l) \in Nat
      /\ \A l \in 1 .. NumRecs : EndOf(l) - EndOf(l - 1) \in Nat \ {0}
      /\ BufferSize \in Nat /\ NominalRecordSize \in Nat /\ NominalRecordSize < BufferSize
      /\ Request \in Nat /\ Request = BufferSize - NominalRecordSize
  BY EndFacts, ReaderAssumption DEF Request
<1>1. /\ k \in 1 .. NumRecs /\ nextRec \in 1 .. NumRecs /\ nextRec <= k
      /\ nextRec - 1 \in 0 .. NumRecs /\ k - 1 \in 0 .. NumRecs /\ k \in 0 .. NumRecs
      /\ nextRec \in 0 .. NumRecs /\ NumRecs \in 0 .. NumRecs
  BY <1>a
<1>2. /\ EndOf(k) \in Nat /\ EndOf(nextRec - 1) \in Nat /\ EndOf(k - 1) \in Nat
      /\ EndOf(nextRec) \in Nat /\ EndOf(NumRecs) \in Nat
      /\ EndOf(k) - EndOf(k - 1) \in Nat \ {0}
      /\ EndOf(nextRec) - EndOf(nextRec - 1) \in Nat \ {0}
  BY <1>a, <1>1
<1>3. EndOf(nextRec - 1) < EndOf(k)
  BY <1>1, EndsIncrease
<1>4. nextRec < k => EndOf(nextRec) < EndOf(k)
  BY <1>1, EndsIncrease
<1>5. k < NumRecs => EndOf(k) < EndOf(NumRecs)
  BY <1>1, EndsIncrease
<1>6. /\ Bytes(nextRec, k) = EndOf(k) - EndOf(nextRec - 1)
      /\ Bytes(nextRec, k - 1) = EndOf(k - 1) - EndOf(nextRec - 1)
      /\ Left = EndOf(NumRecs) - EndOf(nextRec - 1)
  BY DEF Bytes, Left
<1>7. /\ Bytes(nextRec, k) >= Request \/ k = NumRecs
      /\ k = nextRec \/ Bytes(nextRec, k - 1) < Request
  BY DEF LastRead
<1>8. Bytes(nextRec, k) \in Nat
  BY <1>2, <1>3, <1>6
<1>9. ASSUME Bytes(nextRec, k) > BufferSize
      PROVE  Bytes(k, k) > NominalRecordSize + 1
  <2>1. Bytes(k, k) = EndOf(k) - EndOf(k - 1)
    BY DEF Bytes
  <2>2. Bytes(nextRec, k - 1) < Request
    <3>1. CASE k = nextRec
      <4>1. Bytes(nextRec, k - 1) = 0
        BY <1>2, <1>6, <3>1
      <4>2. QED
        BY <1>a, <4>1
    <3>2. QED
      BY <1>7, <3>1
  <2>3. QED
    BY <1>2, <1>6, <1>9, <1>a, <2>1, <2>2
<1>10. Bytes(nextRec, k) = 1 => k = nextRec
  BY <1>1, <1>2, <1>4, <1>6
<1>11. ~(Left >= Request) => k = NumRecs
  BY <1>1, <1>2, <1>5, <1>6, <1>7, <1>a
<1>12. QED
  BY <1>1, <1>8, <1>9, <1>10, <1>11

\* Nothing is left only behind the last record.
LEMMA NothingLeft ==
  ASSUME recFile \in Files, nextRec \in 1 .. NumRecs + 1, Left = 0
  PROVE  nextRec = NumRecs + 1
<1>a. NumRecs \in Nat /\ \A l \in 0 .. NumRecs : EndOf(l) \in Nat
  BY EndFacts
<1>1. SUFFICES ASSUME nextRec # NumRecs + 1
               PROVE  FALSE
  OBVIOUS
<1>2. nextRec - 1 \in 0 .. NumRecs /\ NumRecs \in 0 .. NumRecs /\ nextRec - 1 < NumRecs
  BY <1>1, <1>a
<1>3. EndOf(nextRec - 1) < EndOf(NumRecs)
  BY <1>2, EndsIncrease
<1>4. QED
  BY <1>2, <1>3, <1>a DEF Left, Bytes

-----------------------------------------------------------------------------
(* Types *)

\* A chunk is what the fields of its record say.
LEMMA ChunkFacts ==
  ASSUME NEW c \in Chunk
  PROVE  c.first \in Nat /\ c.last \in Nat
BY DEF Chunk

\* The buffers that hold something.
LEMMA BufferFacts ==
  ASSUME TypeOK
  PROVE  /\ rBuff # 0 => rBuff \in Buffer
         /\ cBuff # 0 => cBuff \in Buffer
         /\ currentBuffer # 0 => currentBuffer \in Buffer
         /\ 0 \notin Buffer
         /\ \A b \in Buffer : content[b] \in Chunk
BY DEF TypeOK, Buffer

\* The next record of the current buffer, when it is not at its end.
LEMMA LineFacts ==
  ASSUME TypeOK, Fits, CurrentAt
  PROVE  /\ currentLine < lines =>
              /\ currentBuffer \in Buffer
              /\ content[currentBuffer].first + currentLine \in Record
              /\ content[currentBuffer].first + currentLine <= content[currentBuffer].last
         /\ currentLine = lines => Rest = {}
<1>1. /\ currentLine \in Nat /\ lines \in Nat /\ nextRec \in 1 .. NumRecs + 1
      /\ NumRecs \in Nat
  BY EndFacts DEF TypeOK
<1>2. CASE currentBuffer = 0
  BY <1>1, <1>2 DEF CurrentAt, Rest
<1>3. CASE currentBuffer # 0
  <2>1. PICK b \in Buffer : b = currentBuffer
    BY <1>3, BufferFacts
  <2>2. /\ content[b].first \in Nat /\ content[b].last \in Nat
        /\ content[b].first \in 1 .. content[b].last + 1 /\ content[b].last < nextRec
        /\ lines = content[b].last - content[b].first + 1
    BY <1>3, <2>1, BufferFacts, ChunkFacts DEF Fits, CurrentAt
  <2>3. ASSUME currentLine = lines
        PROVE  Rest = {}
    <3>1. Rest = content[b].first + currentLine .. content[b].last
      BY <1>3, <2>1 DEF Rest
    <3>2. QED
      BY <1>1, <2>2, <2>3, <3>1
  <2>4. ASSUME currentLine < lines
        PROVE  /\ content[b].first + currentLine \in 1 .. NumRecs
               /\ content[b].first + currentLine <= content[b].last
    BY <1>1, <2>2, <2>4
  <2>5. QED
    BY <2>1, <2>3, <2>4 DEF Record
<1>4. QED
  BY <1>2, <1>3

\* The chunk in a buffer, and how many records it holds.
LEMMA LinesOf ==
  ASSUME TypeOK, Fits, NEW b \in Buffer
  PROVE  content[b].last - content[b].first + 1 \in Nat
<1>1. /\ content[b].first \in Nat /\ content[b].last \in Nat
      /\ content[b].first \in 1 .. content[b].last + 1
  BY BufferFacts, ChunkFacts DEF Fits
<1>2. QED
  BY <1>1

\* A step keeps every variable in its type.
LEMMA TypeStep ==
  IInv /\ [Next]_vars => TypeOK'
<1>0. SUFFICES ASSUME IInv, [Next]_vars
               PROVE  TypeOK'
  OBVIOUS
<1>a. TypeOK /\ ReaderAt /\ CallerAt /\ CurrentAt /\ Fits
  BY <1>0 DEF IInv
<1>b. bufferQ \in Seq(Buffer) /\ reserveList \in Seq(Buffer)
  BY <1>a DEF TypeOK
<1>c. recFile' = recFile
  BY <1>0 DEF Next, CallerStep, Reader, InitBuffers, IsReadComplete, GetLine, GetBuffer,
              Spin, PopBuffer, Recycle, Cleanup, ReadCheck, ReadLock, ReadNotified,
              ReadSpurious, GetReserveBuffer, ReadFromStream, PushBuffer, ReturnUnused,
              ReadEnd, vars
<1>d. NumRecs' = NumRecs /\ Record' = Record
  BY <1>c DEF NumRecs, Record
<1>1. CASE InitBuffers
  <2>1. CASE UNCHANGED <<ioAvail, reserveList, allocated, rPc>>
    BY <1>a, <1>d, <1>1, <2>1 DEF InitBuffers, TypeOK
  <2>2. CASE /\ ioAvail' = TRUE /\ reserveList' = [i \in 1 .. ReserveSize |-> i]
             /\ allocated' = 1 .. ReserveSize /\ rPc' = "check"
    <3>1. 1 .. ReserveSize \subseteq Buffer
      BY ReaderAssumption DEF Buffer
    <3>2. reserveList' \in Seq(Buffer)
      BY <2>2, <3>1, ReaderAssumption
    <3>3. QED
      BY <1>a, <1>d, <1>1, <2>2, <3>1, <3>2 DEF InitBuffers, TypeOK
  <2>3. QED
    BY <1>1, <2>1, <2>2 DEF InitBuffers
<1>2. CASE ReadCheck \/ ReadLock \/ ReadNotified \/ ReadSpurious \/ ReadEnd
  BY ZenonT(40), <1>a, <1>d, <1>2
  DEF ReadCheck, ReadLock, ReadNotified, ReadSpurious, ReadEnd, AfterWait, TypeOK,
      callerVars
<1>3. CASE GetReserveBuffer
  <2>1. rBuff' \in Buffer /\ reserveList' \in Seq(Buffer) /\ allocated' \subseteq Buffer
    <3>1. CASE reserveList # <<>>
      BY <1>a, <1>b, <1>3, <3>1, HeadTailProperties DEF GetReserveBuffer, Spare, TypeOK
    <3>2. CASE reserveList = <<>>
      BY <1>a, <1>b, <1>3, <3>2 DEF GetReserveBuffer, TypeOK
    <3>3. QED
      BY <3>1, <3>2
  <2>2. QED
    BY <1>a, <1>d, <1>3, <2>1 DEF GetReserveBuffer, TypeOK, callerVars
<1>4. CASE ReadFromStream
  <2>1. CASE ~Astray
    <3>1. PICK k \in nextRec .. NumRecs :
            /\ LastRead(k)
            /\ content' = [content EXCEPT ![rBuff] = [first |-> nextRec, last |-> k]]
            /\ nextRec' = k + 1
            /\ \/ rPc' = "push" /\ dropped' = dropped
               \/ rPc' = "return" /\ dropped' = dropped \cup {k}
      BY <1>4, <2>1, <1>a DEF ReadFromStream
    <3>2. k \in 1 .. NumRecs /\ nextRec \in 1 .. NumRecs /\ NumRecs \in Nat
      BY <1>a, <3>1, ReadFacts, EndFacts DEF TypeOK
    <3>3. content' \in [Buffer -> Chunk]
      <4>0. k \in Nat /\ nextRec \in Nat
        BY <3>2
      <4>1. PICK c \in Chunk : c = [first |-> nextRec, last |-> k]
        BY ONLY <4>0 DEF Chunk
      <4>2. content' = [content EXCEPT ![rBuff] = c] /\ content \in [Buffer -> Chunk]
        BY <3>1, <4>1, <1>a DEF TypeOK
      <4>3. QED
        BY ONLY <4>2, <4>1
    <3>4. nextRec' \in 1 .. NumRecs + 1 /\ dropped' \subseteq Record
      <4>1. k \in Record /\ dropped \subseteq Record
        BY <1>a, <3>2 DEF TypeOK, Record
      <4>2. k + 1 \in 1 .. NumRecs + 1
        BY ONLY <3>2
      <4>3. QED
        BY <3>1, <4>1, <4>2
    <3>5. streamGood' \in BOOLEAN
      <4>1. streamGood' = (Left >= Request)
        BY <1>4, <2>1, <1>a DEF ReadFromStream
      <4>2. (streamGood' = TRUE) \/ (streamGood' = FALSE)
        <5>1. CASE Left >= Request
          BY ONLY <4>1, <5>1
        <5>2. CASE ~(Left >= Request)
          BY ONLY <4>1, <5>2
        <5>3. QED
          BY <5>1, <5>2
      <4>3. QED
        BY ONLY <4>2
    <3>6. QED
      BY <1>a, <1>d, <1>4, <3>1, <3>3, <3>4, <3>5 DEF ReadFromStream, TypeOK, callerVars
  <2>2. CASE Astray
    BY <1>a, <1>d, <1>4, <2>2 DEF ReadFromStream, TypeOK, callerVars
  <2>3. QED
    BY <1>4, <2>1, <2>2 DEF ReadFromStream
<1>5. CASE PushBuffer \/ ReturnUnused
  <2>1. rBuff \in Buffer
    BY <1>a, <1>5, BufferFacts DEF PushBuffer, ReturnUnused, ReaderAt
  <2>2. Append(bufferQ, rBuff) \in Seq(Buffer) /\ Append(reserveList, rBuff) \in Seq(Buffer)
    BY <1>b, <2>1, AppendProperties
  <2>3. CASE PushBuffer
    BY <1>a, <1>d, <2>2, <2>3 DEF PushBuffer, TypeOK, callerVars
  <2>4. CASE ReturnUnused
    BY <1>a, <1>d, <2>2, <2>4 DEF ReturnUnused, TypeOK, callerVars
  <2>5. QED
    BY <1>5, <2>3, <2>4
<1>6. CASE IsReadComplete \/ Spin \/ GetBuffer
  <2>1. rWake' \in BOOLEAN
    <3>1. CASE IsReadComplete \/ Spin
      BY <1>a, <3>1 DEF IsReadComplete, Spin, TypeOK
    <3>2. CASE GetBuffer
      <4>1. rWake' = (rWake \/ (Room(Len(bufferQ)) /\ rPc = "waiting"))
        BY <3>2 DEF GetBuffer
      <4>2. QED
        BY ONLY <4>1
    <3>3. QED
      BY <1>6, <3>1, <3>2
  <2>2. QED
    BY <1>a, <1>d, <1>6, <2>1 DEF IsReadComplete, Spin, GetBuffer, TypeOK, readVars
<1>7. CASE GetLine
  <2>0. currentLine < lines
    BY <1>7 DEF GetLine
  <2>1. PICK r \in Record : r = content[currentBuffer].first + currentLine
    BY <1>a, <2>0, LineFacts
  <2>2. output' \in Seq(Record)
    <3>1. output' = Append(output, r) /\ output \in Seq(Record)
      BY <1>a, <1>7, <2>1 DEF GetLine, TypeOK
    <3>2. QED
      BY ONLY <3>1, r \in Record, AppendProperties
  <2>3. currentLine' \in Nat /\ currentLine' <= lines
    BY <1>a, <1>7 DEF GetLine, TypeOK
  <2>4. QED
    BY <1>a, <1>d, <1>7, <2>2, <2>3 DEF GetLine, TypeOK, readVars
<1>8. CASE PopBuffer
  <2>1. Head(bufferQ) \in Buffer /\ Tail(bufferQ) \in Seq(Buffer)
    BY <1>a, <1>b, <1>8, HeadTailProperties DEF PopBuffer, CallerAt
  <2>2. bufferAlive' \in BOOLEAN
    BY <1>8 DEF PopBuffer
  <2>3. QED
    BY <1>a, <1>d, <1>8, <2>1, <2>2 DEF PopBuffer, TypeOK, readVars
<1>9. CASE Recycle
  <2>1. PICK b \in Buffer : b = cBuff
    BY <1>a, <1>9, BufferFacts DEF Recycle, CallerAt
  <2>2. lines' \in Nat
    BY <1>a, <1>9, <2>1, LinesOf DEF Recycle
  <2>3. reserveList' \in Seq(Buffer)
    <3>1. CASE currentBuffer = 0
      BY <1>b, <1>9, <3>1 DEF Recycle
    <3>2. CASE currentBuffer # 0
      BY <1>a, <1>b, <1>9, <3>2, BufferFacts, AppendProperties DEF Recycle
    <3>3. QED
      BY <3>1, <3>2
  <2>4. QED
    BY <1>a, <1>d, <1>9, <2>1, <2>2, <2>3 DEF Recycle, TypeOK, readVars
<1>10. CASE Cleanup
  <2>1. <<>> \in Seq(Buffer)
    OBVIOUS
  <2>2. QED
    BY <1>a, <1>d, <1>10, <2>1 DEF Cleanup, TypeOK, readVars
<1>11. CASE UNCHANGED vars
  BY <1>a, <1>d, <1>11 DEF vars, readVars, callerVars, TypeOK
<1>12. QED
  BY <1>0, <1>1, <1>2, <1>3, <1>4, <1>5, <1>6, <1>7, <1>8, <1>9, <1>10, <1>11
  DEF Next, CallerStep, Reader

-----------------------------------------------------------------------------
(* What readFromStream does *)

\* Only readFromStream changes the memory, and what was read from the file.
LEMMA OnlyRead ==
  ASSUME [Next]_vars
  PROVE  /\ recFile' = recFile
         /\ \/ ReadFromStream /\ ~Astray
            \/ UNCHANGED <<content, nextRec, streamGood, dropped>>
BY DEF Next, CallerStep, Reader, InitBuffers, IsReadComplete, GetLine, GetBuffer,
       Spin, PopBuffer, Recycle, Cleanup, ReadCheck, ReadLock, ReadNotified,
       ReadSpurious, GetReserveBuffer, ReadFromStream, PushBuffer, ReturnUnused,
       ReadEnd, vars, readVars

\* The chunk that a successful read puts into the buffer.
LEMMA ReadEffect ==
  ASSUME TypeOK, ReaderAt, ReadFromStream, ~Astray
  PROVE  \E k \in 1 .. NumRecs :
           /\ rBuff \in Buffer /\ nextRec \in 1 .. NumRecs /\ nextRec <= k
           /\ nextRec' = k + 1 /\ k + 1 \in 1 .. NumRecs + 1
           /\ content'[rBuff].first = nextRec /\ content'[rBuff].last = k
           /\ \A b \in Buffer \ {rBuff} : content'[b] = content[b]
           /\ Bytes(nextRec, k) <= BufferSize
           /\ ~(Left >= Request) => k = NumRecs
           /\ \/ rPc' = "push" /\ dropped' = dropped
              \/ /\ rPc' = "return" /\ k = nextRec /\ Bytes(k, k) = 1
                 /\ dropped' = dropped \cup {k}
<1>1. rBuff \in Buffer /\ content \in [Buffer -> Chunk] /\ recFile \in Files
      /\ nextRec \in 1 .. NumRecs + 1
  BY BufferFacts DEF ReaderAt, ReadFromStream, TypeOK
<1>2. PICK k \in nextRec .. NumRecs :
        /\ LastRead(k)
        /\ content' = [content EXCEPT ![rBuff] = [first |-> nextRec, last |-> k]]
        /\ nextRec' = k + 1
        /\ \/ rPc' = "push" /\ dropped' = dropped
           \/ /\ Bytes(nextRec, k) = 1 /\ rPc' = "return"
              /\ dropped' = dropped \cup {k}
  BY DEF ReadFromStream
<1>3. /\ k \in 1 .. NumRecs /\ nextRec \in 1 .. NumRecs /\ NumRecs \in Nat
      /\ Bytes(nextRec, k) <= BufferSize
      /\ Bytes(nextRec, k) = 1 => k = nextRec
      /\ ~(Left >= Request) => k = NumRecs
  <2>1. Bytes(nextRec, k) \in Nat /\ BufferSize \in Nat
    BY <1>1, <1>2, ReadFacts, ReaderAssumption
  <2>2. ~(Bytes(nextRec, k) > BufferSize)
    BY <1>2 DEF Astray
  <2>3. Bytes(nextRec, k) <= BufferSize
    BY <2>1, <2>2
  <2>4. QED
    BY <1>1, <1>2, <2>3, ReadFacts, EndFacts
<1>4. nextRec <= k /\ k + 1 \in 1 .. NumRecs + 1
  BY ONLY <1>1, <1>2, <1>3
<1>5. /\ content'[rBuff] = [first |-> nextRec, last |-> k]
      /\ \A b \in Buffer \ {rBuff} : content'[b] = content[b]
  BY <1>1, <1>2
<1>6. content'[rBuff].first = nextRec /\ content'[rBuff].last = k
  BY ONLY <1>5
<1>7. QED
  BY <1>1, <1>2, <1>3, <1>4, <1>5, <1>6

\* A read that goes astray changes neither the memory nor the file.
LEMMA ReadAstray ==
  ASSUME TypeOK, ReaderAt, ReadFromStream, Astray
  PROVE  /\ rPc' = "wild" /\ UNCHANGED <<content, nextRec, streamGood, dropped>>
         /\ \/ nextRec = NumRecs + 1
            \/ \E k \in nextRec .. NumRecs : Bytes(k, k) > NominalRecordSize + 1
<1>1. rPc' = "wild" /\ UNCHANGED <<content, nextRec, streamGood, dropped>>
  BY DEF ReadFromStream
<1>2. recFile \in Files /\ nextRec \in 1 .. NumRecs + 1
  BY DEF TypeOK
<1>3. CASE Left = 0
  BY <1>1, <1>2, <1>3, NothingLeft
<1>4. CASE \E k \in nextRec .. NumRecs : LastRead(k) /\ Bytes(nextRec, k) > BufferSize
  BY <1>1, <1>2, <1>4, ReadFacts
<1>5. QED
  BY <1>3, <1>4 DEF Astray

\* No step puts more into a buffer than fits.
LEMMA FitsStep ==
  IInv /\ [Next]_vars => Fits'
<1>0. SUFFICES ASSUME IInv, [Next]_vars
               PROVE  Fits'
  OBVIOUS
<1>a. TypeOK /\ ReaderAt /\ Fits
  BY <1>0 DEF IInv
<1>1. CASE UNCHANGED <<content, nextRec, recFile>>
  BY <1>a, <1>1 DEF Fits, Bytes, EndOf
<1>2. CASE ReadFromStream /\ ~Astray
  <2>1. PICK k \in 1 .. NumRecs :
          /\ rBuff \in Buffer /\ nextRec \in 1 .. NumRecs /\ nextRec <= k
          /\ nextRec' = k + 1
          /\ content'[rBuff].first = nextRec /\ content'[rBuff].last = k
          /\ \A b \in Buffer \ {rBuff} : content'[b] = content[b]
          /\ Bytes(nextRec, k) <= BufferSize
    BY <1>a, <1>2, ReadEffect
  <2>2. recFile' = recFile
    BY <1>0, OnlyRead
  <2>3. SUFFICES ASSUME NEW b \in Buffer
                 PROVE  /\ content'[b].first \in 1 .. content'[b].last + 1
                        /\ content'[b].last < nextRec'
                        /\ EndOf(content'[b].last) - EndOf(content'[b].first - 1)
                             <= BufferSize
    BY <2>2 DEF Fits, Bytes, EndOf
  <2>4. CASE b = rBuff
    BY <2>1, <2>4 DEF Bytes
  <2>5. CASE b # rBuff
    <3>1. content'[b] = content[b] /\ content[b].last \in Nat
      BY <1>a, <2>1, <2>5, BufferFacts, ChunkFacts
    <3>2. /\ content[b].first \in 1 .. content[b].last + 1
          /\ content[b].last < nextRec
          /\ EndOf(content[b].last) - EndOf(content[b].first - 1) <= BufferSize
      BY <1>a DEF Fits, Bytes
    <3>3. content[b].last < nextRec'
      BY <2>1, <3>1, <3>2
    <3>4. QED
      BY <3>1, <3>2, <3>3
  <2>6. QED
    BY <2>4, <2>5
<1>3. QED
  BY <1>0, <1>1, <1>2, OnlyRead

-----------------------------------------------------------------------------
(* Who owns each buffer *)

\* The sequence of one buffer, or none.
LEMMA OneFacts ==
  ASSUME NEW b \in Buffer \cup {0}
  PROVE  /\ One(b) \in Seq(Buffer)
         /\ b = 0 => One(b) = <<>>
         /\ b # 0 => /\ One(b) = <<b>> /\ One(b) # <<>> /\ Head(One(b)) = b
                     /\ Tail(One(b)) = <<>> /\ DOMAIN One(b) = {1} /\ One(b)[1] = b
                     /\ b \in Buffer /\ Append(<<>>, b) = One(b)
<1>1. CASE b = 0
  BY <1>1 DEF One
<1>2. CASE b # 0
  <2>1. b \in Buffer
    BY <1>2
  <2>2. One(b) = <<b>>
    BY <1>2 DEF One
  <2>3. /\ <<b>> \in Seq(Buffer) /\ <<b>> # <<>> /\ Head(<<b>>) = b /\ Tail(<<b>>) = <<>>
        /\ DOMAIN <<b>> = {1} /\ <<b>>[1] = b /\ Append(<<>>, b) = <<b>>
    BY ONLY <2>1
  <2>4. QED
    BY <1>2, <2>1, <2>2, <2>3
<1>3. QED
  BY <1>1, <1>2

\* The caller has not ended.
Running == cPc \notin {"done", "failed"}

\* What each place holds.
LEMMA HeldFacts ==
  /\ DOMAIN Held = Place
  /\ Held["rBuff"] = One(rBuff) /\ Held["bufferQ"] = bufferQ
  /\ Held["cBuff"] = One(cBuff) /\ Held["reserveList"] = reserveList
  /\ Held["currentBuffer"] = IF Running THEN One(currentBuffer) ELSE <<>>
BY DEF Held, HeldAt, Place, Running

\* The same of the next state.
LEMMA HeldNext ==
  /\ DOMAIN Held' = Place
  /\ Held'["rBuff"] = One(rBuff') /\ Held'["bufferQ"] = bufferQ'
  /\ Held'["cBuff"] = One(cBuff') /\ Held'["reserveList"] = reserveList'
  /\ Held'["currentBuffer"] = IF Running' THEN One(currentBuffer') ELSE <<>>
BY DEF Held, HeldAt, Place, Running, One

LEMMA HeldType ==
  ASSUME TypeOK
  PROVE  Held \in Fillings(Place, Buffer)
<1>1. /\ rBuff \in Buffer \cup {0} /\ cBuff \in Buffer \cup {0}
      /\ currentBuffer \in Buffer \cup {0}
      /\ bufferQ \in Seq(Buffer) /\ reserveList \in Seq(Buffer) /\ <<>> \in Seq(Buffer)
  BY DEF TypeOK
<1>2. /\ One(rBuff) \in Seq(Buffer) /\ One(cBuff) \in Seq(Buffer)
      /\ One(currentBuffer) \in Seq(Buffer)
  BY <1>1, OneFacts
<1>3. \A p \in Place : HeldAt(p) \in Seq(Buffer)
  BY <1>1, <1>2 DEF HeldAt, Place
<1>4. QED
  BY <1>3 DEF Held, Fillings

LEMMA HeldTypeNext ==
  ASSUME TypeOK'
  PROVE  Held' \in Fillings(Place, Buffer)
<1>1. /\ rBuff' \in Buffer \cup {0} /\ cBuff' \in Buffer \cup {0}
      /\ currentBuffer' \in Buffer \cup {0}
      /\ bufferQ' \in Seq(Buffer) /\ reserveList' \in Seq(Buffer) /\ <<>> \in Seq(Buffer)
  BY DEF TypeOK
<1>2. /\ One(rBuff') \in Seq(Buffer) /\ One(cBuff') \in Seq(Buffer)
      /\ One(currentBuffer') \in Seq(Buffer)
  BY <1>1, OneFacts
<1>3. /\ \A p \in Place : Held'[p] \in Seq(Buffer)
      /\ Held' = [p \in Place |-> Held'[p]]
  BY <1>1, <1>2 DEF Held, HeldAt, Place, One
<1>4. QED
  BY <1>3 DEF Fillings

\* The buffer the read thread fills is nowhere else.
LEMMA FilledApart ==
  ASSUME TypeOK, OneOwner, rBuff # 0
  PROVE  /\ \A i \in DOMAIN bufferQ : bufferQ[i] # rBuff
         /\ cBuff # rBuff
         /\ Running => currentBuffer # rBuff
<1>1. DOMAIN One(rBuff) = {1} /\ One(rBuff)[1] = rBuff
  BY OneFacts DEF TypeOK
<1>2. \A p \in Place \ {"rBuff"} : \A i \in DOMAIN Held[p] : Held[p][i] # rBuff
  BY <1>1, HeldFacts DEF OneOwner, Apart, Place
<1>3. \A i \in DOMAIN bufferQ : bufferQ[i] # rBuff
  BY <1>2, HeldFacts DEF Place
<1>4. ASSUME cBuff = rBuff
      PROVE  FALSE
  <2>1. DOMAIN Held["cBuff"] = {1} /\ Held["cBuff"][1] = rBuff
    BY <1>1, <1>4, HeldFacts
  <2>2. QED
    BY <1>2, <2>1 DEF Place
<1>5. ASSUME currentBuffer = rBuff, Running
      PROVE  FALSE
  <2>1. DOMAIN Held["currentBuffer"] = {1} /\ Held["currentBuffer"][1] = rBuff
    BY <1>1, <1>5, HeldFacts
  <2>2. QED
    BY <1>2, <2>1 DEF Place
<1>6. QED
  BY <1>3, <1>4, <1>5

\* getReserveBuffer takes a spare buffer, or a new one.
LEMMA GetEffect ==
  ASSUME TypeOK, TypeOK', ReaderAt, GetReserveBuffer
  PROVE  \/ Moved(Held, Held', "reserveList", "rBuff") /\ allocated' = allocated
         \/ /\ Pushed(Held, Held', "rBuff", rBuff') /\ reserveList = <<>>
            /\ rBuff' \in Buffer \ allocated /\ allocated' = allocated \cup {rBuff'}
<1>1. /\ rBuff = 0 /\ rBuff' \in Buffer \cup {0} /\ 0 \notin Buffer
      /\ UNCHANGED <<bufferQ, callerVars>> /\ reserveList \in Seq(Buffer)
  BY BufferFacts DEF GetReserveBuffer, ReaderAt, TypeOK
<1>2. rBuff' \in Buffer
  BY <1>1, HeadTailProperties DEF GetReserveBuffer
<1>3. One(rBuff) = <<>> /\ One(rBuff') = Append(<<>>, rBuff')
  BY <1>1, <1>2, OneFacts
<1>4. /\ Held["rBuff"] = <<>> /\ Held'["rBuff"] = Append(<<>>, rBuff')
      /\ Held'["bufferQ"] = Held["bufferQ"] /\ Held'["cBuff"] = Held["cBuff"]
      /\ Held'["currentBuffer"] = Held["currentBuffer"]
      /\ Held["reserveList"] = reserveList /\ Held'["reserveList"] = reserveList'
  BY <1>1, <1>3, HeldFacts, HeldNext DEF callerVars, Running
<1>5. CASE reserveList # <<>>
  <2>1. /\ rBuff' = Head(reserveList) /\ reserveList' = Tail(reserveList)
        /\ allocated' = allocated
    BY <1>5 DEF GetReserveBuffer, Spare
  <2>2. Moved(Held, Held', "reserveList", "rBuff")
    BY ONLY <1>4, <1>5, <2>1, HeldFacts DEF Moved, Place
  <2>3. QED
    BY <2>1, <2>2
<1>6. CASE reserveList = <<>>
  <2>1. /\ rBuff' \in Buffer \ allocated /\ reserveList' = reserveList
        /\ allocated' = allocated \cup {rBuff'}
    BY <1>6 DEF GetReserveBuffer
  <2>2. Pushed(Held, Held', "rBuff", rBuff')
    BY ONLY <1>4, <2>1, HeldFacts DEF Pushed, Place
  <2>3. QED
    BY <1>6, <2>1, <2>2
<1>7. QED
  BY <1>5, <1>6

\* The buffer that was filled goes to the queue, ...
LEMMA PushEffect ==
  ASSUME TypeOK, ReaderAt, PushBuffer
  PROVE  Moved(Held, Held', "rBuff", "bufferQ")
<1>1. /\ rBuff \in Buffer \cup {0} /\ rBuff # 0 /\ rBuff' = 0
      /\ bufferQ' = Append(bufferQ, rBuff) /\ UNCHANGED <<reserveList, callerVars>>
  BY DEF PushBuffer, ReaderAt, TypeOK
<1>2. /\ One(rBuff) # <<>> /\ Head(One(rBuff)) = rBuff /\ Tail(One(rBuff)) = <<>>
      /\ One(rBuff') = <<>>
  BY <1>1, OneFacts
<1>3. /\ Held["rBuff"] = One(rBuff) /\ Held'["rBuff"] = <<>>
      /\ Held'["bufferQ"] = Append(Held["bufferQ"], rBuff)
      /\ Held'["cBuff"] = Held["cBuff"] /\ Held'["reserveList"] = Held["reserveList"]
      /\ Held'["currentBuffer"] = Held["currentBuffer"]
  BY <1>1, <1>2, HeldFacts, HeldNext DEF callerVars, Running
<1>4. QED
  BY ONLY <1>2, <1>3, HeldFacts DEF Moved, Place

\* ... or back to the reserve.
LEMMA ReturnEffect ==
  ASSUME TypeOK, ReaderAt, ReturnUnused
  PROVE  Moved(Held, Held', "rBuff", "reserveList")
<1>1. /\ rBuff \in Buffer \cup {0} /\ rBuff # 0 /\ rBuff' = 0
      /\ reserveList' = Append(reserveList, rBuff) /\ UNCHANGED <<bufferQ, callerVars>>
  BY DEF ReturnUnused, ReaderAt, TypeOK
<1>2. /\ One(rBuff) # <<>> /\ Head(One(rBuff)) = rBuff /\ Tail(One(rBuff)) = <<>>
      /\ One(rBuff') = <<>>
  BY <1>1, OneFacts
<1>3. /\ Held["rBuff"] = One(rBuff) /\ Held'["rBuff"] = <<>>
      /\ Held'["reserveList"] = Append(Held["reserveList"], rBuff)
      /\ Held'["cBuff"] = Held["cBuff"] /\ Held'["bufferQ"] = Held["bufferQ"]
      /\ Held'["currentBuffer"] = Held["currentBuffer"]
  BY <1>1, <1>2, HeldFacts, HeldNext DEF callerVars, Running
<1>4. QED
  BY ONLY <1>2, <1>3, HeldFacts DEF Moved, Place

\* The caller takes the first buffer of the queue.
LEMMA PopEffect ==
  ASSUME TypeOK, CallerAt, PopBuffer
  PROVE  /\ Moved(Held, Held', "bufferQ", "cBuff")
         /\ cBuff = 0 /\ cBuff' \in Buffer /\ bufferQ # <<>>
         /\ cBuff' = Head(bufferQ) /\ bufferQ' = Tail(bufferQ)
<1>1. /\ bufferQ \in Seq(Buffer) /\ bufferQ # <<>> /\ cBuff = 0
      /\ cBuff' = Head(bufferQ) /\ bufferQ' = Tail(bufferQ)
      /\ UNCHANGED <<rBuff, reserveList, currentBuffer>>
      /\ Running /\ Running'
  BY DEF PopBuffer, CallerAt, TypeOK, readVars, Running
<1>2. Head(bufferQ) \in Buffer /\ 0 \notin Buffer
  BY <1>1, HeadTailProperties, BufferFacts
<1>3. One(cBuff) = <<>> /\ One(cBuff') = Append(<<>>, cBuff')
  BY <1>1, <1>2, OneFacts
<1>4. /\ Held["cBuff"] = <<>> /\ Held'["cBuff"] = Append(<<>>, cBuff')
      /\ Held["bufferQ"] = bufferQ /\ Held'["bufferQ"] = bufferQ'
      /\ Held'["rBuff"] = Held["rBuff"] /\ Held'["reserveList"] = Held["reserveList"]
      /\ Held'["currentBuffer"] = Held["currentBuffer"]
  BY <1>1, <1>3, HeldFacts, HeldNext
<1>5. Moved(Held, Held', "bufferQ", "cBuff")
  BY ONLY <1>1, <1>4, HeldFacts DEF Moved, Place
<1>6. QED
  BY <1>1, <1>2, <1>5

\* The consumed buffer goes to the reserve, and the new one takes its place.
LEMMA RecycleEffect ==
  ASSUME TypeOK, TypeOK', CallerAt, Recycle
  PROVE  \E g \in Fillings(Place, Buffer) :
           /\ g = Held \/ Moved(Held, g, "currentBuffer", "reserveList")
           /\ Moved(g, Held', "cBuff", "currentBuffer")
<1>1. /\ cBuff # 0 /\ cBuff' = 0 /\ currentBuffer' = cBuff
      /\ cBuff \in Buffer \cup {0} /\ currentBuffer \in Buffer \cup {0}
      /\ UNCHANGED <<rBuff, bufferQ>> /\ Running /\ Running'
      /\ reserveList' = IF currentBuffer = 0 THEN reserveList
                        ELSE Append(reserveList, currentBuffer)
  BY DEF Recycle, CallerAt, TypeOK, readVars, Running
<1>2. /\ One(cBuff) # <<>> /\ Head(One(cBuff)) = cBuff /\ Tail(One(cBuff)) = <<>>
      /\ One(cBuff') = <<>> /\ Append(<<>>, cBuff) = One(cBuff)
  BY <1>1, OneFacts
<1>3. /\ Held["cBuff"] = One(cBuff) /\ Held'["cBuff"] = <<>>
      /\ Held["currentBuffer"] = One(currentBuffer) /\ Held'["currentBuffer"] = One(cBuff)
      /\ Held["reserveList"] = reserveList /\ Held'["reserveList"] = reserveList'
      /\ Held'["rBuff"] = Held["rBuff"] /\ Held'["bufferQ"] = Held["bufferQ"]
  BY <1>1, <1>2, HeldFacts, HeldNext
<1>4. CASE currentBuffer = 0
  <2>1. Held["currentBuffer"] = <<>> /\ Held'["reserveList"] = Held["reserveList"]
    BY <1>1, <1>3, <1>4, OneFacts
  <2>2. Moved(Held, Held', "cBuff", "currentBuffer")
    BY ONLY <1>2, <1>3, <2>1, HeldFacts DEF Moved, Place
  <2>3. QED
    BY <2>2, HeldType
<1>5. CASE currentBuffer # 0
  <2>1. /\ One(currentBuffer) # <<>> /\ Head(One(currentBuffer)) = currentBuffer
        /\ Tail(One(currentBuffer)) = <<>>
        /\ reserveList' = Append(reserveList, currentBuffer)
    BY <1>1, <1>5, OneFacts
  <2> DEFINE h == [Held EXCEPT !["currentBuffer"] = <<>>, !["reserveList"] = reserveList']
  <2>2. h \in Fillings(Place, Buffer)
    <3>1. <<>> \in Seq(Buffer) /\ reserveList' \in Seq(Buffer)
      BY DEF TypeOK
    <3>2. Held \in Fillings(Place, Buffer)
      BY HeldType
    <3>3. QED
      BY ONLY <3>1, <3>2 DEF Fillings
  <2>3. /\ DOMAIN h = Place /\ h["currentBuffer"] = <<>> /\ h["reserveList"] = reserveList'
        /\ \A p \in Place \ {"currentBuffer", "reserveList"} : h[p] = Held[p]
    BY HeldFacts DEF Place
  <2> HIDE DEF h
  <2>4. Moved(Held, h, "currentBuffer", "reserveList")
    BY ONLY <1>3, <2>1, <2>3, HeldFacts DEF Moved, Place
  <2>5. Moved(h, Held', "cBuff", "currentBuffer")
    BY ONLY <1>2, <1>3, <2>3, HeldFacts DEF Moved, Place
  <2>6. QED
    BY <2>2, <2>4, <2>5
<1>6. QED
  BY <1>4, <1>5

\* cleanup deletes the reserve and the current buffer, and leaves the queue.
LEMMA CleanupEffect ==
  ASSUME TypeOK, ReaderAt, CallerAt, OneOwner, Cleanup
  PROVE  /\ Apart(Held') /\ Carried(Held') = allocated'
         /\ allocated' \subseteq allocated
         /\ bufferQ = <<>> => allocated' = {}
<1>1. /\ rPc = "exited" /\ rBuff = 0 /\ rBuff' = 0 /\ cBuff = 0 /\ cBuff' = 0
      /\ bufferQ' = bufferQ /\ reserveList' = <<>> /\ Running /\ ~Running'
      /\ allocated' = allocated \ (ToSet(reserveList) \cup {currentBuffer})
      /\ currentBuffer \in Buffer \cup {0}
  BY DEF Cleanup, ReaderAt, CallerAt, TypeOK, readVars, Running
<1>2. One(rBuff) = <<>> /\ One(cBuff) = <<>> /\ DOMAIN <<>> = {}
  BY <1>1, OneFacts
<1>3. /\ DOMAIN Held = Place /\ DOMAIN Held' = Place
      /\ Held["rBuff"] = <<>> /\ Held["cBuff"] = <<>> /\ Held["bufferQ"] = bufferQ
      /\ Held["reserveList"] = reserveList /\ Held["currentBuffer"] = One(currentBuffer)
      /\ Held'["bufferQ"] = bufferQ
      /\ \A p \in Place \ {"bufferQ"} : Held'[p] = <<>>
  BY <1>1, <1>2, HeldFacts, HeldNext DEF Place
<1>4. Apart(Held) /\ Carried(Held) = allocated
  BY DEF OneOwner
<1>5. "bufferQ" \in Place /\ "reserveList" \in Place /\ "currentBuffer" \in Place
  BY DEF Place
<1>6. Apart(Held')
  <2>1. SUFFICES ASSUME NEW p \in Place, NEW q \in Place,
                        NEW i \in DOMAIN Held'[p], NEW j \in DOMAIN Held'[q],
                        Held'[p][i] = Held'[q][j]
                 PROVE  p = q /\ i = j
    BY <1>3 DEF Apart
  <2>2. p = "bufferQ" /\ q = "bufferQ"
    BY <1>2, <1>3
  <2>3. i \in DOMAIN Held["bufferQ"] /\ j \in DOMAIN Held["bufferQ"]
        /\ Held["bufferQ"][i] = Held["bufferQ"][j]
    BY <1>3, <2>1, <2>2
  <2>4. i = j
    BY <1>3, <1>4, <1>5, <2>3 DEF Apart
  <2>5. QED
    BY <2>2, <2>4
<1>7. Carried(Held') = {bufferQ[i] : i \in DOMAIN bufferQ}
  BY ONLY <1>2, <1>3, <1>5 DEF Carried
<1>8. \A i \in DOMAIN bufferQ :
        /\ bufferQ[i] \in allocated
        /\ bufferQ[i] \notin ToSet(reserveList)
        /\ bufferQ[i] # currentBuffer
  <2>1. SUFFICES ASSUME NEW i \in DOMAIN bufferQ
                 PROVE  /\ bufferQ[i] \in allocated
                        /\ bufferQ[i] \notin ToSet(reserveList)
                        /\ bufferQ[i] # currentBuffer
    OBVIOUS
  <2>2. bufferQ[i] \in allocated
    BY <1>3, <1>4, <1>5 DEF Carried
  <2>3. bufferQ[i] \notin ToSet(reserveList)
    <3>1. \A j \in DOMAIN reserveList : bufferQ[i] # reserveList[j]
      BY <1>3, <1>4, <1>5 DEF Apart
    <3>2. QED
      BY <3>1 DEF ToSet
  <2>4. bufferQ[i] # currentBuffer
    <3>1. CASE currentBuffer = 0
      <4>1. allocated \subseteq Buffer /\ 0 \notin Buffer
        BY BufferFacts DEF TypeOK
      <4>2. QED
        BY <2>2, <3>1, <4>1
    <3>2. CASE currentBuffer # 0
      <4>1. DOMAIN One(currentBuffer) = {1} /\ One(currentBuffer)[1] = currentBuffer
        BY <1>1, <3>2, OneFacts
      <4>2. QED
        BY <1>3, <1>4, <1>5, <4>1 DEF Apart
    <3>3. QED
      BY <3>1, <3>2
  <2>5. QED
    BY <2>2, <2>3, <2>4
<1>9. \A b \in allocated : \/ \E i \in DOMAIN bufferQ : b = bufferQ[i]
                           \/ b \in ToSet(reserveList) \/ b = currentBuffer
  <2>1. SUFFICES ASSUME NEW p \in Place, NEW i \in DOMAIN Held[p]
                 PROVE  \/ \E j \in DOMAIN bufferQ : Held[p][i] = bufferQ[j]
                        \/ Held[p][i] \in ToSet(reserveList) \/ Held[p][i] = currentBuffer
    BY <1>3, <1>4 DEF Carried
  <2>2. p \in {"bufferQ", "reserveList", "currentBuffer"}
    BY <1>2, <1>3 DEF Place
  <2>3. CASE p = "bufferQ"
    BY <1>3, <2>3
  <2>4. CASE p = "reserveList"
    BY <1>3, <2>4 DEF ToSet
  <2>5. CASE p = "currentBuffer"
    <3>1. currentBuffer # 0
      BY <1>1, <1>2, <1>3, <2>5, OneFacts
    <3>2. DOMAIN One(currentBuffer) = {1} /\ One(currentBuffer)[1] = currentBuffer
      BY <1>1, <3>1, OneFacts
    <3>3. QED
      BY <1>3, <2>5, <3>2
  <2>6. QED
    BY <2>2, <2>3, <2>4, <2>5
<1>10. allocated' = {bufferQ[i] : i \in DOMAIN bufferQ}
  BY ONLY <1>1, <1>8, <1>9
<1>11. bufferQ = <<>> => allocated' = {}
  BY ONLY <1>2, <1>10
<1>12. QED
  BY <1>1, <1>6, <1>7, <1>10, <1>11

\* initBuffers allocates the reserve.
LEMMA StartEffect ==
  ASSUME TypeOK, ReaderAt, CallerAt, InitBuffers, cPc' # "failed"
  PROVE  OneOwner'
<1>1. /\ rPc = "off" /\ rBuff = 0 /\ rBuff' = 0 /\ cBuff = 0 /\ cBuff' = 0
      /\ bufferQ' = <<>> /\ reserveList' = [i \in 1 .. ReserveSize |-> i]
      /\ currentBuffer' = 0 /\ allocated' = 1 .. ReserveSize
  BY DEF InitBuffers, CallerAt, ReaderAt
<1> DEFINE l == [i \in 1 .. ReserveSize |-> i]
<1>2. /\ ReserveSize \in Nat /\ DOMAIN l = 1 .. ReserveSize
      /\ \A i \in DOMAIN l : l[i] = i
  BY ReaderAssumption
<1>3. DOMAIN <<>> = {} /\ One(0) = <<>>
  BY OneFacts
<1>4. /\ DOMAIN Held' = Place /\ "reserveList" \in Place
      /\ Held'["reserveList"] = l
      /\ \A p \in Place \ {"reserveList"} : Held'[p] = <<>>
  BY <1>1, <1>3, HeldNext DEF Place
<1> HIDE DEF l
<1>5. Apart(Held')
  BY ONLY <1>2, <1>3, <1>4 DEF Apart
<1>6. Carried(Held') = 1 .. ReserveSize
  BY ONLY <1>2, <1>3, <1>4 DEF Carried
<1>7. Cardinality(1 .. ReserveSize) <= ReserveSize
  <2>1. Cardinality(1 .. ReserveSize) = IF 1 > ReserveSize THEN 0 ELSE ReserveSize - 1 + 1
    BY <1>2, FS_Interval
  <2>2. QED
    BY ONLY <1>2, <2>1
<1>8. QED
  BY <1>1, <1>5, <1>6, <1>7 DEF OneOwner

\* A queue holds at most as many buffers as it is long.
LEMMA QueueSize ==
  ASSUME NEW q \in Seq(Buffer)
  PROVE  IsFiniteSet(ToSet(q)) /\ Cardinality(ToSet(q)) <= Len(q)
<1>1. Len(q) \in Nat /\ DOMAIN q = 1 .. Len(q) /\ q \in [1 .. Len(q) -> Buffer]
  BY LenProperties
<1>2. q \in Surjection(1 .. Len(q), ToSet(q))
  BY <1>1 DEF Surjection, ToSet
<1>3. IsFiniteSet(1 .. Len(q)) /\ Cardinality(1 .. Len(q)) = Len(q)
  BY SMTT(20), <1>1, FS_Interval
<1>4. QED
  BY <1>2, <1>3, FS_Surjection

\* A set with one more element.
LEMMA OneMore ==
  ASSUME NEW S, NEW x, IsFiniteSet(S)
  PROVE  /\ IsFiniteSet(S \cup {x}) /\ Cardinality(S) \in Nat
         /\ Cardinality(S \cup {x}) \in Nat
         /\ Cardinality(S \cup {x}) <= Cardinality(S) + 1
<1>1. /\ IsFiniteSet(S \cup {x})
      /\ Cardinality(S \cup {x}) = IF x \in S THEN Cardinality(S) ELSE Cardinality(S) + 1
  BY FS_AddElement
<1>2. Cardinality(S) \in Nat
  BY FS_CardinalityType
<1>3. QED
  BY ONLY <1>1, <1>2

\* With the reserve empty, a queue that is not full leaves few buffers.
LEMMA FewBuffers ==
  ASSUME TypeOK, OneOwner, rBuff = 0, reserveList = <<>>, Len(bufferQ) < BufferSizeLimit,
         NEW b
  PROVE  Cardinality(allocated \cup {b}) <= BufferSizeLimit + 2
<1> DEFINE S == ToSet(bufferQ)
<1>1. IsFiniteSet(S) /\ Cardinality(S) <= Len(bufferQ) /\ Len(bufferQ) \in Nat
  BY QueueSize, LenProperties DEF TypeOK
<1> HIDE DEF S
<1>2. /\ IsFiniteSet(S \cup {cBuff}) /\ IsFiniteSet((S \cup {cBuff}) \cup {currentBuffer})
      /\ Cardinality(S \cup {cBuff}) <= Cardinality(S) + 1
      /\ Cardinality((S \cup {cBuff}) \cup {currentBuffer})
           <= Cardinality(S \cup {cBuff}) + 1
      /\ Cardinality(S) \in Nat /\ Cardinality(S \cup {cBuff}) \in Nat
      /\ Cardinality((S \cup {cBuff}) \cup {currentBuffer}) \in Nat
  BY <1>1, OneMore
<1> DEFINE U == (S \cup {cBuff}) \cup {currentBuffer}
<1>3. allocated \subseteq U
  <2>1. /\ DOMAIN Held = Place /\ Carried(Held) = allocated
        /\ Held["rBuff"] = <<>> /\ Held["bufferQ"] = bufferQ /\ Held["cBuff"] = One(cBuff)
        /\ Held["currentBuffer"] \in {<<>>, One(currentBuffer)}
        /\ Held["reserveList"] = <<>>
    BY HeldFacts DEF One, OneOwner
  <2>2. /\ DOMAIN <<>> = {} /\ cBuff \in Buffer \cup {0} /\ currentBuffer \in Buffer \cup {0}
    BY DEF TypeOK
  <2>3. /\ \A i \in DOMAIN One(cBuff) : One(cBuff)[i] = cBuff
        /\ \A i \in DOMAIN One(currentBuffer) : One(currentBuffer)[i] = currentBuffer
    <3>1. \A c \in Buffer \cup {0} : \A i \in DOMAIN One(c) : One(c)[i] = c
      <4>1. SUFFICES ASSUME NEW c \in Buffer \cup {0}, NEW i \in DOMAIN One(c)
                     PROVE  One(c)[i] = c
        OBVIOUS
      <4>2. c # 0
        BY <2>2, <4>1, OneFacts
      <4>3. QED
        BY <4>1, <4>2, OneFacts
    <3>2. QED
      BY <2>2, <3>1
  <2>4. SUFFICES ASSUME NEW p \in Place, NEW i \in DOMAIN Held[p]
                 PROVE  Held[p][i] \in U
    BY <2>1 DEF Carried
  <2>5. CASE p = "bufferQ"
    BY <2>1, <2>5 DEF S, ToSet
  <2>6. CASE p = "cBuff"
    BY <2>1, <2>3, <2>6
  <2>7. CASE p = "currentBuffer"
    BY <2>1, <2>2, <2>3, <2>7
  <2>8. QED
    BY <2>1, <2>2, <2>5, <2>6, <2>7 DEF Place
<1>4. IsFiniteSet(U) /\ Cardinality(U) <= Len(bufferQ) + 2 /\ Cardinality(U) \in Nat
  BY <1>1, <1>2
<1> HIDE DEF U
<1>5. /\ IsFiniteSet(U \cup {b}) /\ Cardinality(U \cup {b}) <= Cardinality(U) + 1
      /\ Cardinality(U \cup {b}) \in Nat
  BY <1>4, OneMore
<1>6. Cardinality(allocated \cup {b}) <= Cardinality(U \cup {b})
      /\ Cardinality(allocated \cup {b}) \in Nat
  <2>1. allocated \cup {b} \in SUBSET (U \cup {b})
    BY <1>3
  <2>2. QED
    BY <1>5, <2>1, FS_Subset, FS_CardinalityType
<1>7. BufferSizeLimit \in Nat
  BY ReaderAssumption
<1>8. QED
  BY <1>1, <1>4, <1>5, <1>6, <1>7

\* A buffer that goes from one owner to another has one owner.
LEMMA MovedKeeps ==
  ASSUME TypeOK, TypeOK', OneOwner, allocated' = allocated,
         NEW p \in Place, NEW q \in Place, Moved(Held, Held', p, q)
  PROVE  OneOwner'
<1>1. Held \in Fillings(Place, Buffer) /\ Held' \in Fillings(Place, Buffer)
  BY HeldType, HeldTypeNext
<1>2. Apart(Held) /\ Carried(Held) = allocated
  BY DEF OneOwner
<1>3. Apart(Held') /\ Carried(Held') = Carried(Held)
  BY <1>1, <1>2, MoveKeeps
<1>4. QED
  BY <1>2, <1>3 DEF OneOwner

\* Every step leaves each allocated buffer with one owner.
LEMMA OneOwnerStep ==
  IInv /\ [Next]_vars => OneOwner'
<1>0. SUFFICES ASSUME IInv, [Next]_vars
               PROVE  OneOwner'
  OBVIOUS
<1>a. TypeOK /\ ReaderAt /\ CallerAt /\ OneOwner /\ TypeOK'
  BY <1>0, TypeStep DEF IInv
<1>b. /\ "rBuff" \in Place /\ "bufferQ" \in Place /\ "cBuff" \in Place
      /\ "currentBuffer" \in Place /\ "reserveList" \in Place
  BY DEF Place
<1>c. /\ Held \in Fillings(Place, Buffer) /\ Held' \in Fillings(Place, Buffer)
      /\ Apart(Held) /\ Carried(Held) = allocated
      /\ \/ Cardinality(allocated) <= ReserveSize
         \/ Cardinality(allocated) <= BufferSizeLimit + 2
  BY <1>a, HeldType, HeldTypeNext DEF OneOwner
<1>d. ASSUME UNCHANGED <<rBuff, bufferQ, cBuff, currentBuffer, reserveList, allocated>>,
             Running <=> Running'
      PROVE  OneOwner'
  <2>1. Held' = Held
    BY <1>d DEF Held, HeldAt, One, Running
  <2>2. QED
    BY <1>c, <1>d, <2>1 DEF OneOwner
<1>1. CASE InitBuffers
  <2>1. CASE cPc' # "failed"
    BY <1>1, <1>a, <2>1, StartEffect
  <2>2. CASE cPc' = "failed"
    <3>1. /\ UNCHANGED <<rBuff, bufferQ, cBuff, currentBuffer, reserveList, allocated>>
          /\ currentBuffer = 0
      BY <1>1, <1>a, <2>2 DEF InitBuffers, CallerAt
    <3>2. Held' = Held
      BY <3>1 DEF Held, HeldAt, One
    <3>3. QED
      BY <1>c, <3>1, <3>2 DEF OneOwner
  <2>3. QED
    BY <2>1, <2>2
<1>2. CASE GetReserveBuffer
  <2>1. CASE Moved(Held, Held', "reserveList", "rBuff") /\ allocated' = allocated
    BY <1>a, <1>b, <2>1, MovedKeeps
  <2>2. CASE /\ Pushed(Held, Held', "rBuff", rBuff') /\ reserveList = <<>>
             /\ rBuff' \in Buffer \ allocated /\ allocated' = allocated \cup {rBuff'}
    <3>1. PICK b \in Buffer : b = rBuff'
      BY <2>2
    <3>2. Apart(Held') /\ Carried(Held') = Carried(Held) \cup {b}
      BY <1>b, <1>c, <2>2, <3>1, PushKeeps
    <3>3. rBuff = 0 /\ Len(bufferQ) < BufferSizeLimit
      BY <1>2, <1>a DEF GetReserveBuffer, ReaderAt
    <3>4. Cardinality(allocated \cup {b}) <= BufferSizeLimit + 2
      BY <1>a, <2>2, <3>3, FewBuffers
    <3>5. QED
      BY <1>c, <2>2, <3>1, <3>2, <3>4 DEF OneOwner
  <2>3. QED
    BY <1>2, <1>a, <2>1, <2>2, GetEffect
<1>3. CASE PushBuffer
  <2>1. allocated' = allocated
    BY <1>3 DEF PushBuffer
  <2>2. QED
    BY <1>3, <1>a, <1>b, <2>1, PushEffect, MovedKeeps
<1>4. CASE ReturnUnused
  <2>1. allocated' = allocated
    BY <1>4 DEF ReturnUnused
  <2>2. QED
    BY <1>4, <1>a, <1>b, <2>1, ReturnEffect, MovedKeeps
<1>5. CASE PopBuffer
  <2>1. allocated' = allocated
    BY <1>5 DEF PopBuffer
  <2>2. QED
    BY <1>5, <1>a, <1>b, <2>1, PopEffect, MovedKeeps
<1>6. CASE Recycle
  <2>1. allocated' = allocated
    BY <1>6 DEF Recycle
  <2>2. PICK g \in Fillings(Place, Buffer) :
          /\ g = Held \/ Moved(Held, g, "currentBuffer", "reserveList")
          /\ Moved(g, Held', "cBuff", "currentBuffer")
    BY <1>6, <1>a, RecycleEffect
  <2>3. Apart(g) /\ Carried(g) = Carried(Held)
    BY <1>b, <1>c, <2>2, MoveKeeps
  <2>4. Apart(Held') /\ Carried(Held') = Carried(g)
    BY <1>b, <1>c, <2>2, <2>3, MoveKeeps
  <2>5. QED
    BY <1>c, <2>1, <2>3, <2>4 DEF OneOwner
<1>7. CASE Cleanup
  <2>1. /\ Apart(Held') /\ Carried(Held') = allocated' /\ allocated' \in SUBSET allocated
    BY <1>7, <1>a, CleanupEffect
  <2>2. IsFiniteSet(allocated)
    <3>1. IsFiniteSet(Buffer) /\ allocated \in SUBSET Buffer
      BY <1>a, ReaderAssumption, FS_Interval DEF Buffer, TypeOK
    <3>2. QED
      BY <3>1, FS_Subset
  <2>3. /\ Cardinality(allocated') <= Cardinality(allocated)
        /\ Cardinality(allocated) \in Nat /\ Cardinality(allocated') \in Nat
    BY <2>1, <2>2, FS_Subset, FS_CardinalityType
  <2>4. ReserveSize \in Nat /\ BufferSizeLimit \in Nat
    BY ReaderAssumption
  <2>5. QED
    BY <1>c, <2>1, <2>3, <2>4 DEF OneOwner
<1>8. CASE \/ ReadCheck \/ ReadLock \/ ReadNotified \/ ReadSpurious \/ ReadFromStream
           \/ ReadEnd \/ UNCHANGED vars
  BY <1>8, <1>d DEF ReadCheck, ReadLock, ReadNotified, ReadSpurious, ReadFromStream,
       ReadEnd, vars, readVars, callerVars, Running
<1>9. CASE IsReadComplete \/ GetLine \/ GetBuffer \/ Spin
  BY <1>9, <1>d DEF IsReadComplete, GetLine, GetBuffer, Spin, readVars, Running
<1>10. QED
  BY <1>0, <1>1, <1>2, <1>3, <1>4, <1>5, <1>6, <1>7, <1>8, <1>9
  DEF Next, CallerStep, Reader

-----------------------------------------------------------------------------
(* Control *)

\* While the read thread reads, the caller has not ended, and the buffer it
\* fills is not the current one.
LEMMA ReadFrame ==
  ASSUME TypeOK, ReaderAt, CallerAt, OneOwner, ReadFromStream
  PROVE  /\ Running /\ rBuff \in Buffer /\ rBuff # currentBuffer /\ rBuff # cBuff
         /\ \A i \in DOMAIN bufferQ : bufferQ[i] # rBuff
<1>1. rPc = "read" /\ rBuff # 0 /\ rBuff \in Buffer
  BY BufferFacts DEF ReadFromStream, ReaderAt
<1>2. Running
  BY <1>1 DEF CallerAt, Running
<1>3. QED
  BY <1>1, <1>2, FilledApart

\* The lines of the current buffer stay the records of its chunk.
LEMMA CurrentAtStep ==
  IInv /\ [Next]_vars => CurrentAt'
<1>0. SUFFICES ASSUME IInv, [Next]_vars
               PROVE  CurrentAt'
  OBVIOUS
<1>a. TypeOK /\ ReaderAt /\ CallerAt /\ OneOwner /\ CurrentAt
  BY <1>0 DEF IInv
<1>1. CASE ReadFromStream /\ ~Astray
  <2>1. UNCHANGED <<currentBuffer, lines>>
    BY <1>1 DEF ReadFromStream, callerVars
  <2>2. currentBuffer # 0 => content'[currentBuffer] = content[currentBuffer]
    <3>1. \A b \in Buffer \ {rBuff} : content'[b] = content[b]
      BY <1>a, <1>1, ReadEffect
    <3>2. QED
      BY <1>a, <1>1, <3>1, ReadFrame, BufferFacts
  <2>3. QED
    BY <1>a, <2>1, <2>2 DEF CurrentAt
<1>2. CASE Recycle
  <2>1. /\ currentBuffer' = cBuff /\ content' = content
        /\ lines' = content[cBuff].last - content[cBuff].first + 1 /\ cBuff # 0
    BY <1>a, <1>2 DEF Recycle, CallerAt
  <2>2. QED
    BY <2>1 DEF CurrentAt
<1>3. CASE UNCHANGED <<currentBuffer, lines, content>>
  BY <1>a, <1>3 DEF CurrentAt
<1>4. QED
  BY <1>0, <1>1, <1>2, <1>3
  DEF Next, CallerStep, Reader, InitBuffers, IsReadComplete, GetLine, GetBuffer,
      Spin, PopBuffer, Cleanup, ReadCheck, ReadLock, ReadNotified, ReadSpurious,
      GetReserveBuffer, ReadFromStream, PushBuffer, ReturnUnused, ReadEnd, vars,
      callerVars

\* Every step keeps what is known of the read thread.
LEMMA ReaderAtStep ==
  IInv /\ [Next]_vars => ReaderAt'
<1>0. SUFFICES ASSUME IInv, [Next]_vars
               PROVE  ReaderAt'
  OBVIOUS
<1>a. TypeOK /\ ReaderAt /\ CallerAt
  BY <1>0 DEF IInv
<1>b. NumRecs' = NumRecs
  BY <1>0, OnlyRead DEF NumRecs
<1>c. /\ bufferQ \in Seq(Buffer) /\ Len(bufferQ) \in Nat /\ BufferSizeLimit \in Nat \ {0}
  BY <1>a, LenProperties, ReaderAssumption DEF TypeOK
<1>1. CASE InitBuffers
  <2>1. CASE UNCHANGED <<ioAvail, rPc>>
    BY <1>a, <1>b, <1>1, <2>1 DEF InitBuffers, ReaderAt
  <2>2. CASE ioAvail' = TRUE /\ rPc' = "check"
    <3>1. rBuff = 0 /\ rBuff' = 0
      BY <1>a, <1>1 DEF InitBuffers, ReaderAt, CallerAt
    <3>2. ioAvail' /\ rPc' = "check" /\ UNCHANGED <<bufferQ, streamGood, nextRec>>
      BY <1>1, <2>2 DEF InitBuffers
    <3>3. QED
      BY <1>a, <1>b, <3>1, <3>2 DEF ReaderAt
  <2>3. QED
    BY <1>1, <2>1, <2>2 DEF InitBuffers
<1>2. CASE ReadCheck
  BY <1>a, <1>b, <1>2 DEF ReadCheck, ReaderAt
<1>3. CASE ReadLock
  <2>1. rPc' = "waiting" \/ (rPc' = "get" /\ Len(bufferQ) < BufferSizeLimit)
    BY <1>c, <1>3 DEF ReadLock, Full
  <2>2. rPc = "lock" /\ UNCHANGED <<rBuff, ioAvail, bufferQ, streamGood, nextRec>>
    BY <1>3 DEF ReadLock
  <2>3. QED
    BY <1>a, <1>b, <2>1, <2>2 DEF ReaderAt
<1>4. CASE ReadNotified \/ ReadSpurious
  <2>1. rPc' = "check" \/ (rPc' = "get" /\ Len(bufferQ) < BufferSizeLimit)
    BY <1>c, <1>4 DEF ReadNotified, ReadSpurious, AfterWait, Full
  <2>2. rPc = "waiting" /\ UNCHANGED <<rBuff, ioAvail, bufferQ, streamGood, nextRec>>
    BY <1>4 DEF ReadNotified, ReadSpurious
  <2>3. QED
    BY <1>a, <1>b, <2>1, <2>2 DEF ReaderAt
<1>5. CASE GetReserveBuffer
  <2>1. rBuff' # 0
    <3>1. reserveList # <<>> => Head(reserveList) \in Buffer
      BY <1>a, HeadTailProperties DEF TypeOK
    <3>2. QED
      BY <1>a, <1>5, <3>1, BufferFacts DEF GetReserveBuffer
  <2>2. /\ rPc = "get" /\ rPc' = "read"
        /\ UNCHANGED <<ioAvail, bufferQ, streamGood, nextRec>>
    BY <1>5 DEF GetReserveBuffer
  <2>3. QED
    BY <1>a, <1>b, <2>1, <2>2 DEF ReaderAt
<1>6. CASE ReadFromStream
  <2>1. rPc = "read" /\ UNCHANGED <<rBuff, ioAvail, bufferQ>>
    BY <1>6 DEF ReadFromStream
  <2>2. CASE ~Astray
    <3>1. PICK k \in 1 .. NumRecs :
            /\ nextRec' = k + 1
            /\ ~(Left >= Request) => k = NumRecs
            /\ rPc' \in {"push", "return"}
      BY <1>a, <1>6, <2>2, ReadEffect
    <3>2. streamGood' = (Left >= Request)
      BY <1>6, <2>2, <1>a DEF ReadFromStream
    <3>3. ~streamGood' => nextRec' = NumRecs' + 1
      <4>1. CASE Left >= Request
        BY <3>2, <4>1
      <4>2. CASE ~(Left >= Request)
        BY <1>b, <3>1, <4>2
      <4>3. QED
        BY <4>1, <4>2
    <3>4. QED
      BY <1>a, <1>b, <2>1, <3>1, <3>3 DEF ReaderAt
  <2>3. CASE Astray
    <3>1. rPc' = "wild" /\ UNCHANGED <<nextRec, streamGood>>
      BY <1>a, <1>6, <2>3, ReadAstray
    <3>2. QED
      BY <1>a, <1>b, <2>1, <3>1 DEF ReaderAt
  <2>4. QED
    BY <2>2, <2>3
<1>7. CASE PushBuffer
  <2>1. rBuff \in Buffer
    BY <1>a, <1>7, BufferFacts DEF PushBuffer, ReaderAt
  <2>2. Len(bufferQ') = Len(bufferQ) + 1 /\ Len(bufferQ) < BufferSizeLimit
    BY <1>a, <1>c, <1>7, <2>1, AppendProperties DEF PushBuffer, ReaderAt
  <2>3. Len(bufferQ') <= BufferSizeLimit
    BY ONLY <1>c, <2>2
  <2>4. /\ rPc = "push" /\ rPc' = "check" /\ rBuff' = 0
        /\ UNCHANGED <<ioAvail, streamGood, nextRec>>
    BY <1>7 DEF PushBuffer
  <2>5. QED
    BY <1>a, <1>b, <2>3, <2>4 DEF ReaderAt
<1>8. CASE ReturnUnused
  BY <1>a, <1>b, <1>8 DEF ReturnUnused, ReaderAt
<1>9. CASE ReadEnd
  <2>1. /\ rPc = "end" /\ rPc' = "exited" /\ ~ioAvail'
        /\ UNCHANGED <<rBuff, bufferQ, streamGood, nextRec>>
    BY <1>9 DEF ReadEnd
  <2>2. QED
    BY <1>a, <1>b, <2>1 DEF ReaderAt
<1>10. CASE PopBuffer
  <2>1. Len(bufferQ') = Len(bufferQ) - 1
    BY <1>a, <1>c, <1>10, HeadTailProperties DEF PopBuffer, CallerAt
  <2>2. UNCHANGED <<rPc, rBuff, ioAvail, streamGood, nextRec>>
    BY <1>10 DEF PopBuffer, readVars
  <2>3. /\ Len(bufferQ) <= BufferSizeLimit => Len(bufferQ') <= BufferSizeLimit
        /\ Len(bufferQ) < BufferSizeLimit => Len(bufferQ') < BufferSizeLimit
    BY ONLY <1>c, <2>1
  <2>4. QED
    BY <1>a, <1>b, <2>2, <2>3 DEF ReaderAt
<1>11. CASE IsReadComplete \/ GetLine \/ GetBuffer \/ Spin \/ Recycle \/ Cleanup
            \/ UNCHANGED vars
  <2>1. UNCHANGED <<rPc, rBuff, ioAvail, bufferQ, streamGood, nextRec>>
    BY <1>11 DEF IsReadComplete, GetLine, GetBuffer, Spin, Recycle, Cleanup, vars,
                 readVars
  <2>2. QED
    BY <1>a, <1>b, <2>1 DEF ReaderAt
<1>12. QED
  BY <1>0, <1>1, <1>2, <1>3, <1>4, <1>5, <1>6, <1>7, <1>8, <1>9, <1>10, <1>11
  DEF Next, CallerStep, Reader

\* Every step keeps what is known of the caller.
LEMMA CallerAtStep ==
  IInv /\ [Next]_vars => CallerAt'
<1>0. SUFFICES ASSUME IInv, [Next]_vars
               PROVE  CallerAt'
  OBVIOUS
<1>a. TypeOK /\ ReaderAt /\ CallerAt /\ OneOwner
  BY <1>0 DEF IInv
<1>1. CASE InitBuffers
  BY <1>a, <1>1 DEF InitBuffers, CallerAt
<1>2. CASE \/ ReadCheck \/ ReadLock \/ ReadNotified \/ ReadSpurious
           \/ GetReserveBuffer \/ ReadFromStream \/ ReturnUnused \/ ReadEnd
  <2>1. /\ rPc \notin {"off", "exited"} /\ rPc' # "off"
        /\ UNCHANGED <<callerVars, bufferQ>>
    BY <1>2 DEF ReadCheck, ReadLock, ReadNotified, ReadSpurious, AfterWait,
                GetReserveBuffer, ReadFromStream, ReturnUnused, ReadEnd
  <2>2. QED
    BY <1>a, <2>1 DEF CallerAt, callerVars
<1>3. CASE PushBuffer
  <2>1. /\ rPc \notin {"off", "exited"} /\ rPc' # "off" /\ UNCHANGED callerVars
        /\ bufferQ' = Append(bufferQ, rBuff) /\ rBuff \in Buffer /\ bufferQ \in Seq(Buffer)
    BY <1>a, <1>3, BufferFacts DEF PushBuffer, ReaderAt, TypeOK
  <2>2. bufferQ' # <<>>
    BY <2>1, AppendProperties
  <2>3. QED
    BY <1>a, <2>1, <2>2 DEF CallerAt, callerVars
<1>4. CASE IsReadComplete
  <2>1. /\ cPc = "check" /\ cPc' \in {"join", "get"}
        /\ UNCHANGED <<rPc, bufferQ, cBuff, currentLine, lines, currentBuffer>>
    BY <1>4 DEF IsReadComplete, readVars
  <2>2. cPc' = "join" => rPc = "exited" /\ bufferQ = <<>> /\ currentLine = lines
    <3>1. cPc' = "join" => ~ioAvail /\ bufferQ = <<>> /\ currentLine >= lines
      BY <1>4 DEF IsReadComplete, ReadComplete
    <3>2. ~ioAvail => rPc = "exited"
      BY <1>a, <2>1 DEF ReaderAt, CallerAt
    <3>3. currentLine >= lines => currentLine = lines
      BY <1>a DEF TypeOK
    <3>4. QED
      BY <3>1, <3>2, <3>3
  <2>3. QED
    BY <1>a, <2>1, <2>2 DEF CallerAt
<1>5. CASE GetLine
  BY <1>a, <1>5 DEF GetLine, CallerAt, readVars
<1>6. CASE GetBuffer
  BY <1>a, <1>6 DEF GetBuffer, CallerAt, readVars
<1>7. CASE Spin
  BY <1>a, <1>7 DEF Spin, CallerAt, readVars
<1>8. CASE PopBuffer
  <2>1. cBuff' # 0
    BY <1>a, <1>8, PopEffect, BufferFacts
  <2>2. QED
    BY <1>a, <1>8, <2>1 DEF PopBuffer, CallerAt, readVars
<1>9. CASE Recycle
  BY <1>a, <1>9 DEF Recycle, CallerAt, readVars
<1>10. CASE Cleanup
  <2>1. bufferQ = <<>> => allocated' = {}
    BY <1>a, <1>10, CleanupEffect
  <2>2. QED
    BY <1>a, <1>10, <2>1 DEF Cleanup, CallerAt, readVars
<1>11. CASE UNCHANGED vars
  BY <1>a, <1>11 DEF vars, readVars, callerVars, CallerAt
<1>12. QED
  BY <1>0, <1>1, <1>2, <1>3, <1>4, <1>5, <1>6, <1>7, <1>8, <1>9, <1>10, <1>11
  DEF Next, CallerStep, Reader

\* A read goes astray only with nothing left, or a record that is too long.
LEMMA WildStep ==
  IInv /\ [Next]_vars => StaysInBuffer'
<1>0. SUFFICES ASSUME IInv, [Next]_vars
               PROVE  StaysInBuffer'
  OBVIOUS
<1>a. TypeOK /\ ReaderAt /\ StaysInBuffer
  BY <1>0 DEF IInv
<1>b. NumRecs' = NumRecs /\ \A k : Bytes(k, k)' = Bytes(k, k)
  BY <1>0, OnlyRead DEF NumRecs, Bytes, EndOf
<1>1. CASE ReadFromStream
  <2>1. CASE ~Astray
    BY <1>a, <1>1, <2>1, ReadEffect DEF StaysInBuffer
  <2>2. CASE Astray
    <3>1. /\ UNCHANGED <<nextRec, streamGood>>
          /\ \/ nextRec = NumRecs + 1
             \/ \E k \in nextRec .. NumRecs : Bytes(k, k) > NominalRecordSize + 1
      BY <1>a, <1>1, <2>2, ReadAstray
    <3>2. streamGood
      BY <1>a, <1>1 DEF ReadFromStream, ReaderAt
    <3>3. QED
      BY <1>b, <3>1, <3>2 DEF StaysInBuffer
  <2>3. QED
    BY <2>1, <2>2
<1>2. CASE ~ReadFromStream
  <2>1. UNCHANGED <<nextRec, streamGood>> /\ (rPc' = "wild" => rPc = "wild")
    BY <1>0, <1>2
    DEF Next, CallerStep, Reader, InitBuffers, IsReadComplete, GetLine, GetBuffer,
        Spin, PopBuffer, Recycle, Cleanup, ReadCheck, ReadLock, ReadNotified,
        ReadSpurious, AfterWait, GetReserveBuffer, PushBuffer, ReturnUnused, ReadEnd,
        vars, readVars
  <2>2. QED
    BY <1>a, <1>b, <2>1 DEF StaysInBuffer
<1>3. QED
  BY <1>1, <1>2
-----------------------------------------------------------------------------
(* Records in order *)

\* Records that come in turn do so in any table that agrees on the queue.
LEMMA InTurnFrame ==
  ASSUME NEW S, NEW q, NEW m, NEW n, NEW A, InTurn(S, q, m, A),
         \A k \in DOMAIN q : n[q[k]] = m[q[k]]
  PROVE  InTurn(S, q, n, A)
<1>1. \A k \in DOMAIN q :
        /\ AllBefore(S, n[q[k]])
        /\ \A l \in DOMAIN q : k < l => AllBefore(n[q[k]], n[q[l]])
  BY DEF InTurn
<1>2. S \cup UNION {n[q[k]] : k \in DOMAIN q} = A
  BY DEF InTurn
<1>3. QED
  BY <1>1, <1>2 DEF InTurn

\* The first of the queue joins what comes before the queue.
LEMMA InTurnHead ==
  ASSUME NEW B, NEW q \in Seq(B), q # <<>>, NEW S, NEW m, NEW A, InTurn(S, q, m, A)
  PROVE  /\ AllBefore(S, m[Head(q)])
         /\ InTurn(S \cup m[Head(q)], Tail(q), m, A)
<1>1. PICK t \in Seq(B) : t = Tail(q)
  BY TailFacts
<1>2. PICK h \in B : h = Head(q)
  BY TailFacts
<1>3. /\ Len(q) \in Nat \ {0} /\ 1 \in DOMAIN q /\ q[1] = h
      /\ DOMAIN q = 1 .. Len(q) /\ DOMAIN t = 1 .. Len(q) - 1
      /\ \A i \in DOMAIN t : i + 1 \in DOMAIN q /\ t[i] = q[i + 1]
  BY <1>1, <1>2, TailFacts
<1>4. /\ \A k \in DOMAIN q : AllBefore(S, m[q[k]])
      /\ \A k, l \in DOMAIN q : k < l => AllBefore(m[q[k]], m[q[l]])
      /\ S \cup UNION {m[q[k]] : k \in DOMAIN q} = A
  BY DEF InTurn
<1>5. ASSUME NEW k \in DOMAIN t
      PROVE  /\ AllBefore(S \cup m[h], m[t[k]])
             /\ \A l \in DOMAIN t : k < l => AllBefore(m[t[k]], m[t[l]])
  <2>1. k + 1 \in DOMAIN q /\ 1 < k + 1 /\ t[k] = q[k + 1]
    BY <1>3
  <2>2. AllBefore(S, m[t[k]]) /\ AllBefore(m[h], m[t[k]])
    BY <1>3, <1>4, <2>1
  <2>3. \A l \in DOMAIN t : k < l => AllBefore(m[t[k]], m[t[l]])
    <3>1. \A l \in DOMAIN t : k < l => l + 1 \in DOMAIN q /\ k + 1 < l + 1
      BY <1>3
    <3>2. QED
      BY <1>3, <1>4, <2>1, <3>1
  <2>4. QED
    BY <2>2, <2>3 DEF AllBefore
<1>6. (S \cup m[h]) \cup UNION {m[t[k]] : k \in DOMAIN t} = A
  <2>1. \A k \in DOMAIN q : k = 1 \/ (k - 1 \in DOMAIN t /\ t[k - 1] = q[k])
    <3>1. \A k \in 1 .. Len(q) : k = 1 \/ (k - 1 \in 1 .. Len(q) - 1 /\ (k - 1) + 1 = k)
      BY <1>3
    <3>2. QED
      BY <1>3, <3>1
  <2>2. QED
    BY SMTT(20), <1>3, <1>4, <2>1
<1>7. InTurn(S \cup m[h], t, m, A)
  BY ONLY <1>5, <1>6 DEF InTurn
<1>8. QED
  BY <1>1, <1>2, <1>3, <1>4, <1>7

\* A chunk of later records joins the end of the queue.
LEMMA InTurnAppend ==
  ASSUME NEW B, NEW q \in Seq(B), NEW b \in B, NEW S, NEW m, NEW A,
         InTurn(S, q, m, A), AllBefore(A, m[b])
  PROVE  InTurn(S, Append(q, b), m, A \cup m[b])
<1>1. PICK t \in Seq(B) : t = Append(q, b)
  BY AppendFacts
<1>2. /\ Len(q) \in Nat /\ DOMAIN q = 1 .. Len(q) /\ DOMAIN t = 1 .. Len(q) + 1
      /\ \A i \in 1 .. Len(q) : t[i] = q[i]
      /\ t[Len(q) + 1] = b
  BY <1>1, AppendFacts
<1>3. /\ \A k \in DOMAIN q : AllBefore(S, m[q[k]])
      /\ \A k, l \in DOMAIN q : k < l => AllBefore(m[q[k]], m[q[l]])
      /\ S \cup UNION {m[q[k]] : k \in DOMAIN q} = A
  BY DEF InTurn
<1>4. \A k \in DOMAIN t : \/ k \in DOMAIN q /\ t[k] = q[k]
                          \/ k = Len(q) + 1 /\ t[k] = b
  BY <1>2
<1>5. \A k \in DOMAIN q : m[q[k]] \subseteq A
  BY <1>3
<1>6. AllBefore(S, m[b]) /\ \A k \in DOMAIN q : AllBefore(m[q[k]], m[b])
  BY <1>3, <1>5 DEF AllBefore
<1>7. ASSUME NEW k \in DOMAIN t, NEW l \in DOMAIN t, k < l
      PROVE  AllBefore(m[t[k]], m[t[l]])
  <2>1. k \in DOMAIN q /\ t[k] = q[k]
    BY ONLY <1>2, <1>7
  <2>2. QED
    BY <1>3, <1>4, <1>6, <1>7, <2>1
<1>8. \A k \in DOMAIN t : AllBefore(S, m[t[k]])
  BY <1>3, <1>4, <1>6
<1>9. S \cup UNION {m[t[k]] : k \in DOMAIN t} = A \cup m[b]
  <2>1. \A k \in DOMAIN q : k \in DOMAIN t
    BY <1>2
  <2>2. Len(q) + 1 \in DOMAIN t
    BY <1>2
  <2>3. QED
    BY <1>2, <1>3, <1>4, <2>1, <2>2
<1>10. QED
  BY <1>1, <1>7, <1>8, <1>9 DEF InTurn

\* The buffer popped, in front of the queue.
LEMMA FlightFacts ==
  ASSUME NEW c \in Buffer \cup {0}, NEW q \in Seq(Buffer)
  PROVE  /\ One(c) \o q \in Seq(Buffer)
         /\ One(c) \o q \o <<>> = One(c) \o q
         /\ c = 0 => One(c) \o q = q
         /\ c # 0 => /\ One(c) \o q # <<>>
                     /\ Head(One(c) \o q) = c /\ Tail(One(c) \o q) = q
         /\ \A r \in Buffer : /\ One(c) \o q \o <<r>> = Append(One(c) \o q, r)
                              /\ Append(One(c) \o q, r) = One(c) \o Append(q, r)
         /\ \A i \in DOMAIN (One(c) \o q) :
              (One(c) \o q)[i] = c \/ \E j \in DOMAIN q : (One(c) \o q)[i] = q[j]
<1> DEFINE s == One(c) \o q
<1>1. One(c) \in Seq(Buffer) /\ s \in Seq(Buffer)
  BY OneFacts, ConcatProperties
<1>2. s \o <<>> = s
  BY <1>1, ConcatEmptySeq
<1>3. \A r \in Buffer : s \o <<r>> = Append(s, r)
  BY <1>1, AppendIsConcat
<1>4. CASE c = 0
  <2>1. s = q
    BY <1>4, OneFacts, ConcatEmptySeq
  <2>2. \A r \in Buffer : Append(q, r) = One(c) \o Append(q, r)
    BY SMTT(20), <1>4, OneFacts, ConcatEmptySeq, AppendFacts
  <2>3. QED
    BY <1>1, <1>2, <1>3, <1>4, <2>1, <2>2
<1>5. CASE c # 0
  <2>1. c \in Buffer /\ One(c) = <<c>>
    BY <1>5, OneFacts
  <2>2. /\ s # <<>> /\ Head(s) = c /\ Tail(s) = q
        /\ \A r \in Buffer : Append(s, r) = One(c) \o Append(q, r)
    BY <2>1, PutFirst
  <2>3. \A i \in DOMAIN s : s[i] = c \/ \E j \in DOMAIN q : s[i] = q[j]
    <3> HIDE DEF s
    <3>1. /\ DOMAIN s = 1 .. Len(s) /\ Len(s) \in Nat \ {0} /\ s[1] = c
          /\ DOMAIN q = 1 .. Len(s) - 1
          /\ \A i \in DOMAIN q : q[i] = s[i + 1]
      BY <1>1, <2>2, TailFacts
    <3>2. \A i \in 1 .. Len(s) : i = 1 \/ (i - 1 \in 1 .. Len(s) - 1 /\ (i - 1) + 1 = i)
      BY <3>1
    <3>3. QED
      BY <3>1, <3>2
  <2>4. QED
    BY <1>1, <1>2, <1>3, <1>5, <2>2, <2>3
<1>6. QED
  BY <1>4, <1>5

\* The buffers in flight, now and in the next state.
LEMMA FlightNow ==
  ASSUME TypeOK, ReaderAt
  PROVE  /\ One(cBuff) \o bufferQ \in Seq(Buffer) /\ InFlight \in Seq(Buffer)
         /\ rPc # "push" => InFlight = One(cBuff) \o bufferQ
         /\ rPc = "push" => /\ rBuff \in Buffer
                            /\ InFlight = Append(One(cBuff) \o bufferQ, rBuff)
<1>1. cBuff \in Buffer \cup {0} /\ bufferQ \in Seq(Buffer)
  BY DEF TypeOK
<1>2. rPc = "push" => rBuff \in Buffer
  BY BufferFacts DEF ReaderAt
<1>3. One(cBuff) \o bufferQ \in Seq(Buffer)
  BY <1>1, FlightFacts
<1>4. rPc # "push" => InFlight = One(cBuff) \o bufferQ
  BY <1>1, FlightFacts DEF InFlight
<1>5. rPc = "push" => InFlight = Append(One(cBuff) \o bufferQ, rBuff)
  BY <1>1, <1>2, FlightFacts DEF InFlight
<1>6. InFlight \in Seq(Buffer)
  <2>1. PICK w \in Seq(Buffer) : w = One(cBuff) \o bufferQ
    BY <1>3
  <2>2. \A r \in Buffer : Append(w, r) \in Seq(Buffer)
    BY AppendFacts
  <2>3. QED
    BY <1>2, <1>4, <1>5, <2>1, <2>2
<1>7. QED
  BY <1>2, <1>3, <1>4, <1>5, <1>6

LEMMA FlightNext ==
  ASSUME TypeOK', ReaderAt'
  PROVE  /\ rPc' # "push" => InFlight' = One(cBuff') \o bufferQ'
         /\ rPc' = "push" => InFlight' = Append(One(cBuff') \o bufferQ', rBuff')
<1>1. cBuff' \in Buffer \cup {0} /\ bufferQ' \in Seq(Buffer)
  BY DEF TypeOK
<1>2. rPc' = "push" => rBuff' \in Buffer
  BY DEF ReaderAt, TypeOK
<1>3. rPc' # "push" => InFlight' = One(cBuff') \o bufferQ'
  BY <1>1, FlightFacts DEF InFlight, One
<1>4. rPc' = "push" => InFlight' = Append(One(cBuff') \o bufferQ', rBuff')
  BY SMTT(20), <1>1, <1>2, FlightFacts DEF InFlight, One
<1>5. QED
  BY <1>3, <1>4
\* The chunk tables and the sizes of records depend on the memory and on the
\* file alone.
LEMMA TableFacts ==
  /\ \A b \in Buffer : RecordsIn[b] = content[b].first .. content[b].last
  /\ \A b \in Buffer : RecordsIn'[b] = content'[b].first .. content'[b].last
  /\ content' = content => RecordsIn' = RecordsIn
  /\ recFile' = recFile => \A r : Bytes(r, r)' = Bytes(r, r)
<1>1. recFile' = recFile => \A r : Bytes(r, r)' = Bytes(r, r)
  BY DEF Bytes, EndOf
<1>2. QED
  BY <1>1 DEF RecordsIn

\* Every step but a read and a change of the current buffer leaves the chunks
\* in flight as they are.
LEMMA FlightSame ==
  ASSUME TypeOK, TypeOK', ReaderAt, ReaderAt', CallerAt, [Next]_vars,
         ~ReadFromStream, ~Recycle
  PROVE  InFlight' = InFlight
<1>a. /\ cBuff \in Buffer \cup {0} /\ bufferQ \in Seq(Buffer)
      /\ cBuff' \in Buffer \cup {0} /\ bufferQ' \in Seq(Buffer)
  BY DEF TypeOK
<1>b. /\ rPc # "push" => InFlight = One(cBuff) \o bufferQ
      /\ rPc = "push" => /\ rBuff \in Buffer
                         /\ InFlight = Append(One(cBuff) \o bufferQ, rBuff)
      /\ rPc' # "push" => InFlight' = One(cBuff') \o bufferQ'
      /\ rPc' = "push" => InFlight' = Append(One(cBuff') \o bufferQ', rBuff')
  BY FlightNow, FlightNext
<1>1. CASE PushBuffer
  <2>1. /\ rPc = "push" /\ rPc' = "check" /\ cBuff' = cBuff
        /\ bufferQ' = Append(bufferQ, rBuff)
    BY <1>1 DEF PushBuffer, callerVars
  <2>2. Append(One(cBuff) \o bufferQ, rBuff) = One(cBuff) \o Append(bufferQ, rBuff)
    BY <1>a, <1>b, <2>1, FlightFacts
  <2>3. QED
    BY <1>b, <2>1, <2>2
<1>2. CASE PopBuffer
  <2>1. /\ UNCHANGED <<rPc, rBuff>>
        /\ cBuff = 0 /\ cBuff' \in Buffer /\ bufferQ # <<>>
        /\ cBuff' = Head(bufferQ) /\ bufferQ' = Tail(bufferQ)
    BY <1>2, PopEffect DEF PopBuffer, readVars
  <2>2. One(cBuff) \o bufferQ = bufferQ
    BY <1>a, <2>1, FlightFacts
  <2>3. One(cBuff') \o bufferQ' = bufferQ
    <3>1. cBuff' # 0
      BY <2>1, BufferFacts
    <3>2. One(cBuff') = <<Head(bufferQ)>>
      BY <2>1, <3>1 DEF One
    <3>3. <<Head(bufferQ)>> \o Tail(bufferQ) = bufferQ
      BY <1>a, <2>1, HeadFirst
    <3>4. QED
      BY <2>1, <3>2, <3>3
  <2>4. QED
    BY <1>b, <2>1, <2>2, <2>3
<1>3. CASE UNCHANGED <<cBuff, bufferQ, rBuff>> /\ (rPc = "push" <=> rPc' = "push")
  <2>1. One(cBuff') \o bufferQ' = One(cBuff) \o bufferQ
    BY <1>3
  <2>2. QED
    BY <1>b, <1>3, <2>1
<1>4. CASE GetReserveBuffer
  <2>1. rPc = "get" /\ rPc' = "read" /\ UNCHANGED <<cBuff, bufferQ>>
    BY <1>4 DEF GetReserveBuffer, callerVars
  <2>2. One(cBuff') \o bufferQ' = One(cBuff) \o bufferQ
    BY <2>1
  <2>3. QED
    BY <1>b, <2>1, <2>2
<1>5. CASE ReturnUnused
  <2>1. rPc = "return" /\ rPc' = "check" /\ UNCHANGED <<cBuff, bufferQ>>
    BY <1>5 DEF ReturnUnused, callerVars
  <2>2. One(cBuff') \o bufferQ' = One(cBuff) \o bufferQ
    BY <2>1
  <2>3. QED
    BY <1>b, <2>1, <2>2
<1>6. CASE InitBuffers
  <2>1. UNCHANGED <<cBuff, bufferQ, rBuff>> /\ rPc = "off" /\ rPc' # "push"
    BY <1>6 DEF InitBuffers, CallerAt
  <2>2. QED
    BY <1>3, <2>1
<1>7. CASE ReadCheck \/ ReadLock \/ ReadNotified \/ ReadSpurious \/ ReadEnd
  <2>1. UNCHANGED <<cBuff, bufferQ, rBuff>> /\ rPc # "push" /\ rPc' # "push"
    BY <1>7 DEF ReadCheck, ReadLock, ReadNotified, ReadSpurious, ReadEnd, AfterWait,
                callerVars
  <2>2. QED
    BY <1>3, <2>1
<1>8. CASE IsReadComplete \/ GetLine \/ GetBuffer \/ Spin \/ Cleanup \/ UNCHANGED vars
  <2>1. UNCHANGED <<cBuff, bufferQ, rBuff, rPc>>
    BY <1>8 DEF IsReadComplete, GetLine, GetBuffer, Spin, Cleanup, vars, readVars,
                callerVars
  <2>2. QED
    BY <1>3, <2>1
<1>9. QED
  BY <1>1, <1>2, <1>4, <1>5, <1>6, <1>7, <1>8 DEF Next, CallerStep, Reader

\* A step that changes neither the records handed out nor those on their way.
LEMMA OrderSame ==
  ASSUME RecordsInOrder,
         UNCHANGED <<recFile, content, nextRec, dropped, output, InFlight, Rest>>
  PROVE  RecordsInOrder'
<1>1. RecordsIn' = RecordsIn /\ \A r : Bytes(r, r)' = Bytes(r, r)
  BY TableFacts
<1>2. \A i, j \in DOMAIN output' : i < j => output'[i] < output'[j]
  BY DEF RecordsInOrder
<1>3. ToSet(output') = ToSet(output)
  OBVIOUS
<1>4. AllBefore(ToSet(output'), Rest')
  BY <1>3 DEF RecordsInOrder
<1>5. InTurn(ToSet(output') \cup Rest', InFlight', RecordsIn', 1 .. nextRec' - 1 \ dropped')
  BY <1>1, <1>3 DEF RecordsInOrder
<1>6. \A r \in dropped' : r < nextRec' /\ Bytes(r, r)' = 1
  BY <1>1 DEF RecordsInOrder
<1>7. QED
  BY <1>2, <1>4, <1>5, <1>6 DEF RecordsInOrder
\* The next record handed out is the least of those that are left.
LEMMA OrderGetLine ==
  ASSUME TypeOK, Fits, CurrentAt, RecordsInOrder, GetLine, InFlight' = InFlight
  PROVE  RecordsInOrder'
<1>a. /\ UNCHANGED <<recFile, content, nextRec, dropped, currentBuffer>>
      /\ output' = Append(output, content[currentBuffer].first + currentLine)
      /\ currentLine' = currentLine + 1 /\ currentLine < lines
  BY DEF GetLine, readVars
<1>1. PICK b \in Buffer : b = currentBuffer
  BY <1>a, LineFacts
<1>2. /\ content[b].first \in Nat /\ content[b].last \in Nat /\ currentLine \in Nat
      /\ content[b].first + currentLine <= content[b].last
      /\ b # 0
  BY <1>1, <1>a, LineFacts, BufferFacts, ChunkFacts DEF TypeOK
<1>3. PICK r \in Record : r = content[b].first + currentLine
  BY <1>1, <1>a, LineFacts
<1>4. Rest = content[b].first + currentLine .. content[b].last
  BY <1>1, <1>2 DEF Rest
<1>5. Rest' = content[b].first + (currentLine + 1) .. content[b].last
  BY <1>1, <1>2, <1>a DEF Rest
<1>6. Rest = {r} \cup Rest' /\ \A s \in Rest' : r < s
  <2>1. PICK l \in Nat : l = content[b].last
    BY <1>2
  <2>2. r \in Nat /\ r <= l /\ content[b].first + (currentLine + 1) = r + 1
    BY ONLY <1>2, <1>3, <2>1 DEF Record
  <2>3. r .. l = {r} \cup (r + 1 .. l) /\ \A s \in r + 1 .. l : r < s
    BY ONLY <2>1, <2>2
  <2>4. QED
    BY <1>3, <1>4, <1>5, <2>1, <2>2, <2>3
<1>7. /\ output \in Seq(Record) /\ output' = Append(output, r)
      /\ output' \in Seq(Record)
      /\ Len(output) \in Nat /\ DOMAIN output = 1 .. Len(output)
      /\ DOMAIN output' = 1 .. Len(output) + 1
      /\ \A i \in 1 .. Len(output) : output'[i] = output[i]
      /\ output'[Len(output) + 1] = r
  BY <1>1, <1>3, <1>a, AppendFacts DEF TypeOK
<1>8. \A i \in DOMAIN output : output[i] \in ToSet(output)
  BY DEF ToSet
<1>9. ToSet(output') = ToSet(output) \cup {r}
  BY <1>7 DEF ToSet
<1>10. /\ \A i, j \in DOMAIN output : i < j => output[i] < output[j]
       /\ \A s \in ToSet(output), t \in Rest : s < t
  BY DEF RecordsInOrder, AllBefore
<1>11. ASSUME NEW i \in DOMAIN output', NEW j \in DOMAIN output', i < j
       PROVE  output'[i] < output'[j]
  <2>1. i \in 1 .. Len(output) /\ (j \in 1 .. Len(output) \/ j = Len(output) + 1)
    BY ONLY <1>7, <1>11
  <2>2. output[i] < r
    BY <1>6, <1>7, <1>8, <1>10, <2>1
  <2>3. QED
    BY <1>7, <1>10, <1>11, <2>1, <2>2
<1>12. AllBefore(ToSet(output'), Rest')
  BY <1>6, <1>9, <1>10 DEF AllBefore
<1>13. ToSet(output') \cup Rest' = ToSet(output) \cup Rest
  BY <1>6, <1>9
<1>14. InTurn(ToSet(output') \cup Rest', InFlight', RecordsIn', 1 .. nextRec' - 1 \ dropped')
  <2>1. RecordsIn' = RecordsIn
    BY <1>a, TableFacts
  <2>2. QED
    BY <1>a, <1>13, <2>1 DEF RecordsInOrder
<1>15. \A q \in dropped' : q < nextRec' /\ Bytes(q, q)' = 1
  BY <1>a, TableFacts DEF RecordsInOrder
<1>16. QED
  BY <1>11, <1>12, <1>14, <1>15 DEF RecordsInOrder

\* The chunk that becomes current is the oldest in flight, and the current one
\* was at its end.
LEMMA OrderRecycle ==
  ASSUME TypeOK, TypeOK', ReaderAt, ReaderAt', CallerAt, Fits, CurrentAt,
         RecordsInOrder, Recycle
  PROVE  RecordsInOrder'
<1>a. /\ UNCHANGED <<recFile, content, nextRec, dropped, output, bufferQ, rBuff, rPc>>
      /\ currentBuffer' = cBuff /\ cBuff' = 0 /\ currentLine' = 0
      /\ cBuff # 0 /\ currentLine = lines
  BY DEF Recycle, readVars, CallerAt
<1>1. PICK b \in Buffer : b = cBuff
  BY <1>a, BufferFacts
<1>2. content[b].first \in Nat /\ content[b].last \in Nat /\ b # 0
  BY <1>1, <1>a, BufferFacts, ChunkFacts
<1>3. Rest = {}
  BY <1>a, LineFacts
<1>4. Rest' = content[b].first + 0 .. content[b].last
  BY <1>1, <1>2, <1>a DEF Rest
<1>5. Rest' = RecordsIn[b]
  BY <1>2, <1>4, TableFacts
<1>6. /\ InFlight \in Seq(Buffer) /\ InFlight # <<>>
      /\ Head(InFlight) = b /\ Tail(InFlight) = InFlight'
  <2>1. cBuff \in Buffer \cup {0} /\ bufferQ \in Seq(Buffer)
    BY DEF TypeOK
  <2>2. One(cBuff) \o bufferQ # <<>> /\ One(cBuff) = <<b>> /\ InFlight \in Seq(Buffer)
    BY <1>1, <1>a, <2>1, FlightFacts, FlightNow DEF One
  <2>3. One(cBuff') \o bufferQ' = bufferQ
    <3>1. One(0) \o bufferQ = bufferQ
      BY <2>1, FlightFacts
    <3>2. One(cBuff') = One(0)
      BY <1>a
    <3>3. QED
      BY <1>a, <3>1, <3>2
  <2>4. CASE rPc # "push"
    <3>1. InFlight = <<b>> \o bufferQ /\ InFlight' = bufferQ
      BY <1>a, <2>2, <2>3, <2>4, FlightNow, FlightNext
    <3>2. QED
      BY <2>1, <2>2, <3>1, PutFirst
  <2>5. CASE rPc = "push"
    <3>1. PICK r \in Buffer : r = rBuff
      BY <2>5, FlightNow
    <3>2. InFlight = Append(<<b>> \o bufferQ, r) /\ InFlight' = Append(bufferQ, r)
      BY <1>a, <2>2, <2>3, <2>5, <3>1, FlightNow, FlightNext
    <3>3. InFlight = <<b>> \o Append(bufferQ, r)
      BY <2>1, <3>2, PutFirst
    <3>4. Append(bufferQ, r) \in Seq(Buffer)
      BY <2>1, AppendFacts
    <3>5. QED
      BY <2>2, <3>2, <3>3, <3>4, PutFirst
  <2>6. QED
    BY <2>4, <2>5
<1>7. InTurn(ToSet(output), InFlight, RecordsIn, 1 .. nextRec - 1 \ dropped)
  <2>1. ToSet(output) \cup Rest = ToSet(output)
    BY <1>3
  <2>2. QED
    BY <2>1 DEF RecordsInOrder
<1>8. /\ AllBefore(ToSet(output), RecordsIn[b])
      /\ InTurn(ToSet(output) \cup RecordsIn[b], InFlight', RecordsIn,
                1 .. nextRec - 1 \ dropped)
  BY <1>6, <1>7, InTurnHead
<1>9. RecordsIn' = RecordsIn /\ \A r : Bytes(r, r)' = Bytes(r, r)
  BY <1>a, TableFacts
<1>10. \A i, j \in DOMAIN output' : i < j => output'[i] < output'[j]
  BY <1>a DEF RecordsInOrder
<1>11. ToSet(output') = ToSet(output)
  BY <1>a
<1>12. AllBefore(ToSet(output'), Rest')
  BY <1>5, <1>8, <1>11
<1>13. InTurn(ToSet(output') \cup Rest', InFlight', RecordsIn', 1 .. nextRec' - 1 \ dropped')
  BY <1>a, <1>5, <1>8, <1>9, <1>11
<1>14. \A r \in dropped' : r < nextRec' /\ Bytes(r, r)' = 1
  BY <1>a, <1>9 DEF RecordsInOrder
<1>15. QED
  BY <1>10, <1>12, <1>13, <1>14 DEF RecordsInOrder

\* A chunk read follows everything read before it; one that is a single empty
\* record is dropped.
LEMMA OrderRead ==
  ASSUME TypeOK, TypeOK', ReaderAt, ReaderAt', CallerAt, OneOwner, RecordsInOrder,
         ReadFromStream, ~Astray
  PROVE  RecordsInOrder'
<1>a. /\ UNCHANGED <<recFile, rBuff, bufferQ, cBuff, output, currentBuffer, currentLine>>
      /\ rPc = "read" /\ nextRec \in 1 .. NumRecs + 1 /\ NumRecs \in Nat
      /\ dropped \subseteq Record
  BY EndFacts DEF ReadFromStream, callerVars, TypeOK
<1>1. PICK k \in 1 .. NumRecs :
        /\ rBuff \in Buffer /\ nextRec \in 1 .. NumRecs /\ nextRec <= k
        /\ nextRec' = k + 1
        /\ content'[rBuff].first = nextRec /\ content'[rBuff].last = k
        /\ \A b \in Buffer \ {rBuff} : content'[b] = content[b]
        /\ \/ rPc' = "push" /\ dropped' = dropped
           \/ /\ rPc' = "return" /\ k = nextRec /\ Bytes(k, k) = 1
              /\ dropped' = dropped \cup {k}
  BY ReadEffect
<1>2. /\ rBuff # currentBuffer /\ rBuff # cBuff
      /\ \A i \in DOMAIN bufferQ : bufferQ[i] # rBuff
  BY ReadFrame
<1> DEFINE q == One(cBuff) \o bufferQ
           S == ToSet(output) \cup Rest
           A == 1 .. nextRec - 1 \ dropped
<1>3. q \in Seq(Buffer) /\ InFlight = q
  BY <1>a, FlightNow
<1>4. Rest' = Rest
  <2>1. currentBuffer # 0 => content'[currentBuffer] = content[currentBuffer]
    BY <1>1, <1>2, BufferFacts
  <2>2. QED
    BY <1>a, <2>1 DEF Rest
<1>5. ToSet(output') = ToSet(output)
  BY <1>a
<1>6. \A i \in DOMAIN q : q[i] \in Buffer \ {rBuff}
  <2>1. cBuff \in Buffer \cup {0} /\ bufferQ \in Seq(Buffer)
    BY DEF TypeOK
  <2>2. \A i \in DOMAIN q : q[i] = cBuff \/ \E j \in DOMAIN bufferQ : q[i] = bufferQ[j]
    BY <2>1, FlightFacts
  <2>3. \A i \in DOMAIN q : q[i] \in Buffer
    BY <1>3, ElementOfSeq, LenProperties
  <2>4. QED
    BY <1>2, <2>2, <2>3
<1> HIDE DEF q
<1>7. \A i \in DOMAIN q : RecordsIn'[q[i]] = RecordsIn[q[i]]
  BY <1>1, <1>6, TableFacts
<1>8. InTurn(S, q, RecordsIn', A)
  <2>1. InTurn(S, q, RecordsIn, A)
    BY <1>3 DEF RecordsInOrder
  <2>2. QED
    BY <1>7, <2>1, InTurnFrame
<1>9. RecordsIn'[rBuff] = nextRec .. k
  BY <1>1, TableFacts
<1>10. \A r \in dropped : r < nextRec /\ Bytes(r, r)' = 1 /\ r \in Nat
  <2>1. \A r \in dropped : r < nextRec /\ Bytes(r, r) = 1 /\ r \in Nat
    BY <1>a DEF RecordsInOrder, Record
  <2>2. \A r : Bytes(r, r)' = Bytes(r, r)
    BY <1>a, TableFacts
  <2>3. QED
    BY <2>1, <2>2
<1>11. /\ \A i, j \in DOMAIN output' : i < j => output'[i] < output'[j]
       /\ AllBefore(ToSet(output'), Rest')
  BY <1>a, <1>4, <1>5 DEF RecordsInOrder
<1>12. CASE rPc' = "push" /\ dropped' = dropped
  <2>1. InFlight' = Append(q, rBuff)
    BY <1>a, <1>12, FlightNext DEF q
  <2>2. AllBefore(A, nextRec .. k)
    BY <1>a, <1>1 DEF AllBefore
  <2>3. InTurn(S, Append(q, rBuff), RecordsIn', A \cup RecordsIn'[rBuff])
    BY <1>1, <1>3, <1>8, <1>9, <2>2, InTurnAppend
  <2>4. A \cup (nextRec .. k) = 1 .. nextRec' - 1 \ dropped'
    <3>1. A \cup (nextRec .. k) = 1 .. (k + 1) - 1 \ dropped
      BY ONLY <1>a, <1>1, <1>10
    <3>2. QED
      BY <1>1, <1>12, <3>1
  <2>5. InTurn(ToSet(output') \cup Rest', InFlight', RecordsIn',
               1 .. nextRec' - 1 \ dropped')
    BY <1>4, <1>5, <1>9, <2>1, <2>3, <2>4
  <2>6. \A r \in dropped' : r < nextRec' /\ Bytes(r, r)' = 1
    BY <1>a, <1>1, <1>10, <1>12
  <2>7. QED
    BY <1>11, <2>5, <2>6 DEF RecordsInOrder
<1>13. CASE /\ rPc' = "return" /\ k = nextRec /\ Bytes(k, k) = 1
            /\ dropped' = dropped \cup {k}
  <2>1. InFlight' = q
    BY <1>a, <1>13, FlightNext DEF q
  <2>2. A = 1 .. nextRec' - 1 \ dropped'
    <3>1. A = 1 .. (k + 1) - 1 \ (dropped \cup {k})
      BY ONLY <1>a, <1>1, <1>13
    <3>2. QED
      BY <1>1, <1>13, <3>1
  <2>3. InTurn(ToSet(output') \cup Rest', InFlight', RecordsIn',
               1 .. nextRec' - 1 \ dropped')
    BY <1>4, <1>5, <1>8, <2>1, <2>2
  <2>4. \A r \in dropped' : r < nextRec' /\ Bytes(r, r)' = 1
    <3>1. Bytes(k, k)' = 1
      BY <1>a, <1>13, TableFacts
    <3>2. QED
      BY <1>a, <1>1, <1>10, <1>13, <3>1
  <2>5. QED
    BY <1>11, <2>3, <2>4 DEF RecordsInOrder
<1>14. QED
  BY <1>1, <1>12, <1>13
\* Every step keeps the records in order.
LEMMA OrderStep ==
  IInv /\ [Next]_vars => RecordsInOrder'
<1>0. SUFFICES ASSUME IInv, [Next]_vars
               PROVE  RecordsInOrder'
  OBVIOUS
<1>a. /\ TypeOK /\ OneOwner /\ Fits /\ CurrentAt /\ ReaderAt /\ CallerAt
      /\ RecordsInOrder /\ TypeOK' /\ ReaderAt'
  BY <1>0, TypeStep, ReaderAtStep DEF IInv
<1>1. CASE ReadFromStream
  <2>1. CASE ~Astray
    BY <1>a, <1>1, <2>1, OrderRead
  <2>2. CASE Astray
    <3>1. /\ UNCHANGED <<recFile, content, nextRec, dropped, output, currentBuffer,
                         currentLine, cBuff, bufferQ>>
          /\ rPc = "read" /\ rPc' = "wild"
      BY <1>a, <1>1, <2>2, ReadAstray DEF ReadFromStream, callerVars
    <3>2. InFlight' = InFlight
      <4>1. One(cBuff') \o bufferQ' = One(cBuff) \o bufferQ
        BY <3>1
      <4>2. QED
        BY <1>a, <3>1, <4>1, FlightNow, FlightNext
    <3>3. Rest' = Rest
      BY <3>1 DEF Rest
    <3>4. QED
      BY <1>a, <3>1, <3>2, <3>3, OrderSame
  <2>3. QED
    BY <2>1, <2>2
<1>2. CASE Recycle
  BY <1>a, <1>2, OrderRecycle
<1>3. CASE ~ReadFromStream /\ ~Recycle
  <2>1. InFlight' = InFlight
    BY <1>0, <1>a, <1>3, FlightSame
  <2>2. CASE GetLine
    BY <1>a, <2>1, <2>2, OrderGetLine
  <2>3. CASE ~GetLine
    <3>1. UNCHANGED <<recFile, content, nextRec, dropped>>
      BY <1>0, <1>3, OnlyRead
    <3>2. UNCHANGED <<output, currentBuffer, currentLine>>
      BY <1>0, <1>3, <2>3
      DEF Next, CallerStep, Reader, InitBuffers, IsReadComplete, GetBuffer, Spin,
          PopBuffer, Cleanup, ReadCheck, ReadLock, ReadNotified, ReadSpurious,
          GetReserveBuffer, PushBuffer, ReturnUnused, ReadEnd, vars, callerVars
    <3>3. Rest' = Rest
      BY <3>1, <3>2 DEF Rest
    <3>4. QED
      BY <1>a, <2>1, <3>1, <3>2, <3>3, OrderSame
  <2>4. QED
    BY <2>2, <2>3
<1>4. QED
  BY <1>1, <1>2, <1>3

-----------------------------------------------------------------------------
(* The invariant and what follows from it *)

\* At the start nothing is read and no buffer is allocated.
LEMMA InitInv ==
  Init => IInv
<1>0. SUFFICES ASSUME Init
               PROVE  IInv
  OBVIOUS
<1>a. /\ recFile \in Files /\ nextRec = 1 /\ streamGood = TRUE
      /\ rPc = "off" /\ rBuff = 0 /\ ioAvail = FALSE /\ rWake = FALSE
      /\ bufferQ = <<>> /\ bufferAlive = FALSE
      /\ reserveList = <<>> /\ allocated = {}
      /\ content = [b \in Buffer |-> NoChunk]
      /\ cPc = "new" /\ cBuff = 0 /\ currentBuffer = 0
      /\ currentLine = 0 /\ lines = 0 /\ output = <<>> /\ dropped = {}
  BY <1>0 DEF Init
<1>b. NumRecs \in Nat /\ EndOf(0) = 0
  BY <1>a, EndFacts
<1>1. TypeOK
  <2>1. NoChunk \in Chunk
    BY DEF NoChunk, Chunk
  <2>2. content \in [Buffer -> Chunk]
    BY <1>a, <2>1
  <2>3. nextRec \in 1 .. NumRecs + 1
    BY <1>a, <1>b
  <2>4. bufferQ \in Seq(Buffer) /\ reserveList \in Seq(Buffer) /\ output \in Seq(Record)
    BY <1>a
  <2>5. /\ streamGood \in BOOLEAN /\ ioAvail \in BOOLEAN /\ rWake \in BOOLEAN
        /\ bufferAlive \in BOOLEAN
    BY <1>a
  <2>6. /\ rBuff \in Buffer \cup {0} /\ cBuff \in Buffer \cup {0}
        /\ currentBuffer \in Buffer \cup {0} /\ allocated \subseteq Buffer
        /\ currentLine \in Nat /\ lines \in Nat /\ currentLine <= lines
        /\ dropped \subseteq Record
    BY <1>a
  <2>7. QED
    BY <1>a, <2>2, <2>3, <2>4, <2>5, <2>6 DEF TypeOK
<1>2. OneOwner
  <2>1. \A p \in Place : Held[p] = <<>>
    BY <1>a, HeldFacts DEF Place, One
  <2>2. Apart(Held) /\ Carried(Held) = {}
    BY <2>1, HeldFacts DEF Apart, Carried
  <2>3. Cardinality(allocated) <= ReserveSize
    BY <1>a, FS_EmptySet, ReaderAssumption
  <2>4. QED
    BY <1>a, <2>2, <2>3 DEF OneOwner
<1>3. Fits
  <2>1. SUFFICES ASSUME NEW b \in Buffer
                 PROVE  /\ content[b].first \in 1 .. content[b].last + 1
                        /\ content[b].last < nextRec
                        /\ Bytes(content[b].first, content[b].last) <= BufferSize
    BY DEF Fits
  <2>2. content[b].first = 1 /\ content[b].last = 0
    BY <1>a DEF NoChunk
  <2>3. Bytes(1, 0) = 0
    BY <1>b DEF Bytes
  <2>4. BufferSize \in Nat
    BY ReaderAssumption
  <2>5. QED
    BY <1>a, <2>2, <2>3, <2>4
<1>4. CurrentAt
  BY <1>a DEF CurrentAt
<1>5. ReaderAt
  <2>1. Len(bufferQ) = 0
    BY <1>a
  <2>2. QED
    BY <1>a, <2>1, ReaderAssumption DEF ReaderAt
<1>6. CallerAt
  BY <1>a DEF CallerAt
<1>7. RecordsInOrder
  <2>1. InFlight = <<>>
    <3>1. One(cBuff) \o bufferQ = <<>>
      BY <1>a, OneFacts, FlightFacts, <<>> \in Seq(Buffer)
    <3>2. QED
      BY <1>a, <1>1, <1>5, <3>1, FlightNow
  <2>2. Rest = {} /\ ToSet(output) = {}
    BY <1>a DEF Rest, ToSet
  <2>3. 1 .. nextRec - 1 \ dropped = {}
    BY <1>a
  <2>4. InTurn({}, <<>>, RecordsIn, {})
    BY DEF InTurn
  <2>5. InTurn(ToSet(output) \cup Rest, InFlight, RecordsIn, 1 .. nextRec - 1 \ dropped)
    BY <2>1, <2>2, <2>3, <2>4
  <2>6. QED
    BY <1>a, <2>2, <2>5 DEF RecordsInOrder, AllBefore
<1>8. StaysInBuffer
  BY <1>a DEF StaysInBuffer
<1>9. QED
  BY <1>1, <1>2, <1>3, <1>4, <1>5, <1>6, <1>7, <1>8 DEF IInv

\* In every reachable state: the variables have their types, every allocated
\* buffer has one owner and no more than max(reserveSize, bufferSizeLimit + 2)
\* are ever allocated, a chunk fits in its buffer, and the queue never holds
\* more than bufferSizeLimit chunks (fillBuffers, getReserveBuffer, getBuffer
\* and cleanup).
THEOREM Invariance == Spec => []IInv
<1>1. Init => IInv
  BY InitInv
<1>2. IInv /\ [Next]_vars => IInv'
  BY TypeStep, OneOwnerStep, FitsStep, CurrentAtStep, ReaderAtStep, CallerAtStep,
     OrderStep, WildStep DEF IInv
<1>3. QED
  BY <1>1, <1>2, PTL DEF Spec

\* getLineAndIncr hands out the records in the order of the file, none twice,
\* and between the file and the caller none is lost but for the chunks of one
\* empty record: no buffer is refilled while its records are still wanted.
THEOREM NothingLostOrReordered == Spec => []RecordsInOrder
<1>1. IInv => RecordsInOrder
  BY DEF IInv
<1>2. QED
  BY Invariance, <1>1, PTL

\* readFromStream leaves its buffer only after the last record of the file, when
\* the last block was not short, or with a record that is longer than
\* nominalRecordSize still to be read.
THEOREM AstrayForCause == Spec => []StaysInBuffer
<1>1. IInv => StaysInBuffer
  BY DEF IInv
<1>2. QED
  BY Invariance, <1>1, PTL

\* When isReadComplete returns TRUE every record of the file that was not
\* thrown away has been handed out, and cleanup then frees every buffer.
THEOREM CompleteIsComplete == Spec => []CompleteMeansAll
<1>1. IInv => CompleteMeansAll
  <2>0. SUFFICES ASSUME IInv
                 PROVE  CompleteMeansAll
    OBVIOUS
  <2>a. /\ TypeOK /\ Fits /\ CurrentAt /\ ReaderAt /\ CallerAt /\ RecordsInOrder
    BY <2>0 DEF IInv
  <2>1. cPc = "done" => allocated = {}
    BY <2>a DEF CallerAt
  <2>2. ASSUME cPc \in {"join", "done"}
        PROVE  ToSet(output) = Record \ dropped
    <3>1. rPc = "exited" /\ bufferQ = <<>> /\ currentLine = lines /\ cBuff = 0
      BY <2>a, <2>2 DEF CallerAt
    <3>2. nextRec = NumRecs + 1
      BY <2>a, <3>1 DEF ReaderAt
    <3>3. Rest = {}
      BY <2>a, <3>1, LineFacts
    <3>4. InFlight = <<>>
      <4>1. One(cBuff) \o bufferQ = <<>>
        BY <3>1, FlightFacts, <<>> \in Seq(Buffer)
      <4>2. QED
        BY <2>a, <3>1, <4>1, FlightNow
    <3>5. ToSet(output) \cup Rest = 1 .. nextRec - 1 \ dropped
      <4>1. InTurn(ToSet(output) \cup Rest, <<>>, RecordsIn, 1 .. nextRec - 1 \ dropped)
        BY <2>a, <3>4 DEF RecordsInOrder
      <4>2. QED
        BY <4>1 DEF InTurn
    <3>6. nextRec - 1 = NumRecs
      <4>1. NumRecs \in Nat
        BY <2>a, EndFacts DEF TypeOK
      <4>2. QED
        BY <3>2, <4>1
    <3>7. QED
      BY <3>3, <3>5, <3>6 DEF Record
  <2>3. QED
    BY <2>1, <2>2 DEF CompleteMeansAll
<1>2. QED
  BY Invariance, <1>1, PTL
=============================================================================
