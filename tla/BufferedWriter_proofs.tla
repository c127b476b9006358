------------------------ MODULE BufferedWriter_proofs ------------------------
(***************************************************************************)
(* The safety properties of BufferedWriter, for every list of record sizes *)
(* and every number and size of the buffers.                               *)
(***************************************************************************)
EXTENDS BufferedWriter, QueueLemmas

(* Chains of queue entries *)

\* An entry with a natural number of records ends where it says.
LEMMA EntryFacts ==
  ASSUME NEW e \in Entry
  PROVE  e.n \in Nat /\ e.buf \in Buffer
BY DEF Entry

\* An empty chain goes nowhere.
LEMMA ChainedNil ==
  ASSUME NEW a, NEW b, NEW m
  PROVE  Chained(<<>>, a, b, m) <=> a = b
BY DEF Chained

\* A chain is its first entry and a chain that starts behind it.
LEMMA ChainedHead ==
  ASSUME NEW q \in Seq(Entry), q # <<>>, NEW a, NEW b, NEW m,
         Chained(q, a, b, m)
  PROVE  /\ Whole(Head(q), m) /\ Before(Head(q), m) = a
         /\ Chained(Tail(q), Through(Head(q), m), b, m)
<1>1. /\ Tail(q) \in Seq(Entry) /\ Head(q) = q[1] /\ Len(q) \in Nat \ {0}
      /\ 1 \in DOMAIN q /\ DOMAIN q = 1 .. Len(q)
      /\ DOMAIN Tail(q) = 1 .. Len(q) - 1
      /\ \A i \in DOMAIN Tail(q) : i + 1 \in DOMAIN q /\ Tail(q)[i] = q[i + 1]
  BY TailFacts
<1>2. /\ \A i \in DOMAIN q :
           /\ Whole(q[i], m)
           /\ Before(q[i], m) = IF i = 1 THEN a ELSE Through(q[i - 1], m)
      /\ b = Through(q[Len(q)], m)
  BY DEF Chained
<1>3. Whole(Head(q), m) /\ Before(Head(q), m) = a
  BY <1>1, <1>2
<1>4. ASSUME NEW i \in DOMAIN Tail(q)
      PROVE  /\ Whole(Tail(q)[i], m)
             /\ Before(Tail(q)[i], m) =
                  IF i = 1 THEN Through(Head(q), m) ELSE Through(Tail(q)[i - 1], m)
  <2>1. i \in 1 .. Len(q) - 1 /\ i + 1 \in DOMAIN q /\ Tail(q)[i] = q[i + 1]
        /\ i + 1 # 1 /\ (i + 1) - 1 = i
    BY <1>1
  <2>2. Whole(q[i + 1], m) /\ Before(q[i + 1], m) = Through(q[(i + 1) - 1], m)
    BY <1>2, <2>1
  <2>3. ASSUME i # 1
        PROVE  Tail(q)[i - 1] = q[i]
    <3>1. i - 1 \in DOMAIN Tail(q) /\ (i - 1) + 1 = i
      BY <1>1, <2>1, <2>3
    <3>2. QED
      BY <1>1, <3>1
  <2>4. QED
    BY <1>1, <2>1, <2>2, <2>3
<1>5. b = IF Tail(q) = <<>> THEN Through(Head(q), m)
          ELSE Through(Tail(q)[Len(Tail(q))], m)
  <2>1. Len(Tail(q)) = Len(q) - 1
    BY <1>1, HeadTailProperties
  <2>2. CASE Tail(q) = <<>>
    <3>1. Len(q) = 1
      <4>1. Len(Tail(q)) = 0
        BY <1>1, <2>2, EmptySeq
      <4>2. Len(q) \in Nat
        BY LenProperties
      <4>3. Len(q) - 1 = 0
        BY ONLY <2>1, <4>1
      <4>4. QED
        BY ONLY <4>2, <4>3
    <3>2. QED
      BY <1>1, <1>2, <2>2, <3>1
  <2>3. CASE Tail(q) # <<>>
    <3>1. Len(Tail(q)) # 0
      BY <1>1, <2>3, EmptySeq
    <3>2. Len(q) - 1 \in DOMAIN Tail(q) /\ (Len(q) - 1) + 1 = Len(q)
      BY <1>1, <2>1, <3>1
    <3>3. Tail(q)[Len(q) - 1] = q[Len(q)]
      BY <1>1, <3>2
    <3>4. QED
      BY <1>2, <2>1, <2>3, <3>3
  <2>4. QED
    BY <2>2, <2>3
<1>6. QED
  BY <1>3, <1>4, <1>5 DEF Chained

\* A chain is its last entry behind a chain that ends before it.
LEMMA ChainedAppend ==
  ASSUME NEW q \in Seq(Entry), NEW e \in Entry, NEW a, NEW b, NEW m
  PROVE  Chained(Append(q, e), a, b, m) <=>
           Whole(e, m) /\ b = Through(e, m) /\ Chained(q, a, Before(e, m), m)
<1> DEFINE p == Append(q, e)
           n == Len(q)
<1>1. /\ p \in Seq(Entry) /\ n \in Nat /\ DOMAIN q = 1 .. n
      /\ DOMAIN p = 1 .. n + 1
      /\ \A i \in 1 .. n : p[i] = q[i]
      /\ p[n + 1] = e
  BY AppendFacts
<1>2. Len(p) = n + 1 /\ p # <<>> /\ (q = <<>> <=> n = 0)
  BY AppendProperties, EmptySeq
<1> HIDE DEF p, n
<1> DEFINE Link(i) == /\ Whole(p[i], m)
                      /\ Before(p[i], m) = IF i = 1 THEN a ELSE Through(p[i - 1], m)
<1>3. Chained(p, a, b, m) <=> (\A i \in 1 .. n + 1 : Link(i)) /\ b = Through(e, m)
  BY <1>1, <1>2 DEF Chained
<1>4. (\A i \in 1 .. n + 1 : Link(i)) <=> (\A i \in 1 .. n : Link(i)) /\ Link(n + 1)
  <2> HIDE DEF Link
  <2>1. \A i \in 1 .. n + 1 : i \in 1 .. n \/ i = n + 1
    BY <1>1
  <2>2. n + 1 \in 1 .. n + 1 /\ 1 .. n \subseteq 1 .. n + 1
    BY <1>1
  <2>3. QED
    BY <2>1, <2>2
<1>5. Link(n + 1) <=>
        Whole(e, m) /\ Before(e, m) = IF q = <<>> THEN a ELSE Through(q[n], m)
  <2>1. CASE n = 0
    BY <1>1, <1>2, <2>1
  <2>2. CASE n # 0
    <3>1. n + 1 # 1 /\ (n + 1) - 1 = n /\ n \in 1 .. n
      BY <1>1, <2>2
    <3>2. p[(n + 1) - 1] = q[n]
      BY <1>1, <3>1
    <3>3. QED
      BY <1>1, <1>2, <2>2, <3>1, <3>2
  <2>3. QED
    BY <2>1, <2>2
<1>6. \A i \in 1 .. n : Link(i) <=>
        /\ Whole(q[i], m)
        /\ Before(q[i], m) = IF i = 1 THEN a ELSE Through(q[i - 1], m)
  <2>1. \A i \in 1 .. n : i = 1 \/ i - 1 \in 1 .. n
    BY <1>1
  <2>2. QED
    BY <1>1, <2>1
<1> HIDE DEF Link
<1>7. Chained(q, a, Before(e, m), m) <=>
        /\ \A i \in 1 .. n : Link(i)
        /\ Before(e, m) = IF q = <<>> THEN a ELSE Through(q[n], m)
  BY <1>1, <1>6 DEF Chained, n
<1>8. QED
  BY <1>3, <1>4, <1>5, <1>7 DEF p

\* A chain does not depend on the memory of other buffers.
LEMMA ChainedFrame ==
  ASSUME NEW q, NEW a, NEW b, NEW m, NEW k, Chained(q, a, b, m),
         \A i \in DOMAIN q : k[q[i].buf] = m[q[i].buf],
         DOMAIN q = 1 .. Len(q), Len(q) \in Nat, q # <<>> => Len(q) # 0
  PROVE  Chained(q, a, b, k)
<1>1. ASSUME NEW e, k[e.buf] = m[e.buf]
      PROVE  /\ Whole(e, k) <=> Whole(e, m)
             /\ Before(e, k) = Before(e, m) /\ Through(e, k) = Through(e, m)
  BY <1>1 DEF Whole, Before, Through
<1>2. \A i \in DOMAIN q : /\ Whole(q[i], k) <=> Whole(q[i], m)
                          /\ Before(q[i], k) = Before(q[i], m)
                          /\ Through(q[i], k) = Through(q[i], m)
  BY <1>1
<1>3. \A i \in DOMAIN q : i # 1 => i - 1 \in DOMAIN q
  OBVIOUS
<1>4. q # <<>> => Len(q) \in DOMAIN q
  OBVIOUS
<1>5. QED
  BY <1>2, <1>3, <1>4 DEF Chained

-----------------------------------------------------------------------------
(* Memory, the queue and the current buffer *)

\* The entry that cycleBuffers queues.
Cur == [buf |-> currentBuffer, n |-> recs]

\* A record copied behind the first n of a buffer.
LEMMA StoreFacts ==
  ASSUME NEW s \in Seq(Copy), NEW n \in Nat, n <= Len(s), NEW c \in Copy
  PROVE  LET t == Append(SubSeq(s, 1, n), c)
         IN  /\ t \in Seq(Copy) /\ Len(t) = n + 1 /\ DOMAIN t = 1 .. n + 1
             /\ \A i \in 1 .. n : t[i] = s[i]
             /\ t[n + 1] = c
<1> DEFINE u == SubSeq(s, 1, n)
<1>1. Len(s) \in Nat /\ DOMAIN s = 1 .. Len(s) /\ \A i \in 1 .. Len(s) : s[i] \in Copy
  BY LenProperties, ElementOfSeq
<1>2. \A i \in 1 .. n : s[i] \in Copy
  BY <1>1
<1>3. /\ u \in Seq(Copy) /\ Len(u) = (IF 1 <= n THEN n - 1 + 1 ELSE 0)
      /\ \A i \in 1 .. n - 1 + 1 : u[i] = s[1 + i - 1]
  BY <1>2, SubSeqProperties
<1> HIDE DEF u
<1>4. Len(u) = n
  BY <1>3
<1>5. \A i \in 1 .. n : u[i] = s[i]
  <2>1. \A i \in 1 .. n : i \in 1 .. n - 1 + 1 /\ 1 + i - 1 = i
    OBVIOUS
  <2>2. QED
    BY <1>3, <2>1
<1>6. /\ Append(u, c) \in Seq(Copy)
      /\ DOMAIN Append(u, c) = 1 .. Len(u) + 1 /\ Len(Append(u, c)) = Len(u) + 1
      /\ \A i \in 1 .. Len(u) : Append(u, c)[i] = u[i]
      /\ Append(u, c)[Len(u) + 1] = c
  BY <1>3, AppendFacts, AppendProperties
<1>7. QED
  BY <1>4, <1>5, <1>6 DEF u

\* The current buffer with one more record in it.
LEMMA StoredEntry ==
  ASSUME NEW d \in Entry, NEW e \in Entry, e.buf = d.buf, e.n = d.n + 1,
         NEW m, NEW k, NEW p \in Nat,
         added \in Nat, added + 1 \in Record, m[d.buf] \in Seq(Copy),
         d.n # 0 => Whole(d, m) /\ Through(d, m) = added,
         k[d.buf] = Append(SubSeq(m[d.buf], 1, d.n), [rec |-> added + 1, at |-> p])
  PROVE  /\ Whole(e, k) /\ Through(e, k) = added + 1
         /\ Before(e, k) = IF d.n = 0 THEN added ELSE Before(d, m)
<1> DEFINE c == [rec |-> added + 1, at |-> p]
           b == d.buf
           n == d.n
<1>0. n \in Nat
  BY EntryFacts
<1>1. c \in Copy /\ c.rec = added + 1
  BY DEF Copy
<1>2. n <= Len(m[b])
  <2>1. n # 0 => n <= Len(m[b])
    BY DEF Whole
  <2>2. QED
    BY <1>0, <2>1, LenProperties
<1>e. /\ d.buf = b /\ d.n = n /\ e.buf = b /\ e.n = n + 1 /\ n + 1 # 0
      /\ n # 0 => Whole(d, m) /\ Through(d, m) = added
  BY <1>0
<1>f. m[b] \in Seq(Copy) /\ k[b] = Append(SubSeq(m[b], 1, n), c) /\ added \in Nat
  OBVIOUS
<1> HIDE DEF c, b, n
<1>3. /\ Len(k[b]) = n + 1 /\ \A i \in 1 .. n : k[b][i] = m[b][i]
      /\ k[b][n + 1] = c
  BY <1>0, <1>1, <1>2, <1>f, StoreFacts
<1>4. CASE n = 0
  <2>1. Before(e, k) = added
    BY <1>1, <1>3, <1>4, <1>e, <1>f DEF Before
  <2>2. \A i \in 1 .. n + 1 : i = 1
    BY <1>4
  <2>3. Whole(e, k)
    BY <1>1, <1>3, <1>4, <1>e, <2>1, <2>2 DEF Whole
  <2>4. QED
    BY <1>4, <1>e, <1>f, <2>1, <2>3 DEF Through
<1>5. CASE n # 0
  <2>1. /\ Before(d, m) = m[b][1].rec - 1
        /\ \A i \in 1 .. n : m[b][i].rec = Before(d, m) + i
        /\ Before(d, m) + n = added
    BY <1>5, <1>e DEF Whole, Through, Before
  <2>2. Before(d, m) \in Int
    <3>1. m[b][1] \in Copy
      <4>1. 1 <= Len(m[b]) /\ Len(m[b]) \in Nat
        BY <1>0, <1>2, <1>5, <1>f, LenProperties
      <4>2. QED
        BY <1>f, <4>1, ElementOfSeq
    <3>2. m[b][1].rec \in Int
      <4>1. m[b][1].rec \in Record
        BY <3>1 DEF Copy
      <4>2. Record \subseteq Int
        BY WriterAssumption, LenProperties DEF Record
      <4>3. QED
        BY <4>1, <4>2
    <3>3. QED
      BY <2>1, <3>2
  <2>a. Before(d, m) + (n + 1) = added + 1
    <3>1. Before(d, m) + n = added /\ n \in Int
      BY <1>0, <2>1
    <3>2. QED
      BY ONLY <2>2, <3>1
  <2>3. Before(e, k) = Before(d, m)
    <3>1. k[b][1] = m[b][1]
      BY <1>0, <1>3, <1>5
    <3>2. QED
      BY <1>e, <2>1, <3>1 DEF Before
  <2>4. \A i \in 1 .. n + 1 : k[b][i].rec = Before(d, m) + i
    <3>1. \A i \in 1 .. n + 1 : i \in 1 .. n \/ i = n + 1
      BY <1>0
    <3>2. k[b][n + 1].rec = Before(d, m) + (n + 1)
      BY ONLY <1>1, <1>3, <2>a
    <3>3. QED
      BY ONLY <1>3, <2>1, <3>1, <3>2
  <2>5. Through(e, k) = added + 1
    BY ONLY <1>e, <2>3, <2>a DEF Through
  <2>6. Whole(e, k)
    <3>1. n + 1 <= n + 1
      BY <1>0
    <3>2. QED
      BY ONLY <1>3, <1>e, <2>3, <2>4, <3>1 DEF Whole
  <2>7. QED
    BY <1>5, <1>e, <2>3, <2>5, <2>6
<1>6. QED
  BY <1>4, <1>5

\* What is pending, oldest first.
LEMMA PendingIs ==
  ASSUME TypeOK, ControlAt
  PROVE  /\ Pending \in Seq(Entry)
         /\ wPc # "write" => Pending = writeQ
         /\ wPc = "write" =>
              /\ Head(wHand) \in Entry
              /\ Pending = <<Head(wHand)>> \o writeQ /\ Pending # <<>>
              /\ Head(Pending) = Head(wHand) /\ Tail(Pending) = writeQ
<1>1. writeQ \in Seq(Entry) /\ wHand \in Seq(Entry)
  BY DEF TypeOK
<1>2. CASE wPc = "write"
  <2>1. Len(wHand) = 1
    BY <1>2 DEF ControlAt
  <2>2. wHand = <<Head(wHand)>> /\ Head(wHand) \in Entry
    BY <1>1, <2>1, OneElement
  <2>3. Pending = <<Head(wHand)>> \o writeQ
    BY <1>2, <2>2 DEF Pending
  <2>4. QED
    BY <1>1, <1>2, <2>2, <2>3, PutFirst
<1>3. CASE wPc # "write"
  <2>1. Pending = writeQ
    BY <1>1, <1>3, ConcatEmptySeq DEF Pending
  <2>2. QED
    BY <1>1, <1>3, <2>1
<1>4. QED
  BY <1>2, <1>3

\* The same of the next state.
LEMMA PendingNext ==
  ASSUME TypeOK', ControlAt'
  PROVE  /\ Pending' \in Seq(Entry)
         /\ wPc' # "write" => Pending' = writeQ'
         /\ wPc' = "write" =>
              /\ Head(wHand') \in Entry
              /\ Pending' = <<Head(wHand')>> \o writeQ'
<1>1. writeQ' \in Seq(Entry) /\ wHand' \in Seq(Entry)
  BY DEF TypeOK
<1>2. CASE wPc' = "write"
  <2>1. Len(wHand') = 1
    BY <1>2 DEF ControlAt
  <2>2. wHand' = <<Head(wHand')>> /\ Head(wHand') \in Entry
    BY <1>1, <2>1, OneElement
  <2>3. Pending' = <<Head(wHand')>> \o writeQ'
    BY <1>2, <2>2 DEF Pending
  <2>4. QED
    BY <1>1, <1>2, <2>2, <2>3, PutFirst
<1>3. CASE wPc' # "write"
  <2>1. Pending' = writeQ'
    BY <1>1, <1>3, ConcatEmptySeq DEF Pending
  <2>2. QED
    BY <1>1, <1>3, <2>1
<1>4. QED
  BY <1>2, <1>3

\* The records in order, with the current buffer as the last entry, if any.
LEMMA OrderIs ==
  ASSUME TypeOK, ControlAt, CurrentAt
  PROVE  RecordsInOrder <=>
           /\ file = [i \in 1 .. Len(file) |-> i]
           /\ cPc = "adding" => /\ Cur \in Entry /\ Whole(Cur, content)
                                /\ added = Through(Cur, content)
           /\ Chained(Pending, Len(file),
                      IF cPc = "adding" THEN Before(Cur, content) ELSE added, content)
<1>1. Pending \in Seq(Entry)
  BY PendingIs
<1>2. CASE cPc = "adding"
  <2>1. Cur \in Entry
    BY <1>2 DEF CurrentAt, TypeOK, Cur, Entry
  <2>2. Pending \o Current = Append(Pending, Cur)
    BY <1>1, <1>2, <2>1, AppendIsConcat DEF Current, Cur
  <2>3. QED
    BY <1>1, <1>2, <2>1, <2>2, ChainedAppend DEF RecordsInOrder
<1>3. CASE cPc # "adding"
  <2>1. Pending \o Current = Pending
    BY <1>1, <1>3, ConcatEmptySeq DEF Current
  <2>2. QED
    BY <1>3, <2>1 DEF RecordsInOrder
<1>4. QED
  BY <1>2, <1>3

\* The same of the next state.
LEMMA OrderNext ==
  ASSUME TypeOK', ControlAt', CurrentAt'
  PROVE  RecordsInOrder' <=>
           /\ file' = [i \in 1 .. Len(file') |-> i]
           /\ cPc' = "adding" => /\ Cur' \in Entry /\ Whole(Cur', content')
                                 /\ added' = Through(Cur', content')
           /\ Chained(Pending', Len(file'),
                      IF cPc' = "adding" THEN Before(Cur', content') ELSE added', content')
<1>1. Pending' \in Seq(Entry)
  BY PendingNext
<1>2. CASE cPc' = "adding"
  <2>1. Cur' \in Entry
    BY <1>2 DEF CurrentAt, TypeOK, Cur, Entry
  <2>2. Pending' \o Current' = Append(Pending', Cur')
    BY <1>1, <1>2, <2>1, AppendIsConcat DEF Current, Cur
  <2>3. QED
    BY <1>1, <1>2, <2>1, <2>2, ChainedAppend DEF RecordsInOrder
<1>3. CASE cPc' # "adding"
  <2>1. Pending' \o Current' = Pending'
    BY <1>1, <1>3, ConcatEmptySeq DEF Current
  <2>2. QED
    BY <1>3, <2>1 DEF RecordsInOrder
<1>4. QED
  BY <1>2, <1>3

-----------------------------------------------------------------------------
(* Types *)

\* The entry in the thread's hand, and what a step of the thread takes.
LEMMA TakeType ==
  ASSUME TypeOK, TakeEntry
  PROVE  /\ wHand' \in Seq(Entry) /\ writeQ' \in Seq(Entry)
         /\ wPc' \in {"off", "check", "lock", "waiting", "write", "return", "exited"}
<1>1. writeQ \in Seq(Entry) /\ wHand \in Seq(Entry)
  BY DEF TypeOK
<1>2. CASE writeQ # <<>> /\ wHand' = <<Head(writeQ)>> /\ writeQ' = Tail(writeQ)
  <2>1. Head(writeQ) \in Entry /\ Tail(writeQ) \in Seq(Entry)
    BY <1>1, <1>2, HeadTailProperties
  <2>2. PICK e \in Entry : e = Head(writeQ)
    BY <2>1
  <2>3. <<e>> \in Seq(Entry)
    OBVIOUS
  <2>4. QED
    BY <1>2, <2>1, <2>2, <2>3 DEF TakeEntry
<1>3. CASE UNCHANGED <<wHand, writeQ>>
  BY <1>1, <1>3 DEF TakeEntry
<1>4. QED
  BY <1>2, <1>3 DEF TakeEntry

\* A buffer with one more record in it.
LEMMA StoreType ==
  ASSUME TypeOK, NEW b \in Buffer, NEW n \in Nat, NEW p \in Nat, Store(b, n, p),
         n <= Len(content[b]), added < Len(RecSize), p + RecSize[added + 1] <= BufferSize
  PROVE  /\ added' = added + 1 /\ added + 1 \in Record
         /\ added' \in 0 .. Len(RecSize)
         /\ recs' = n + 1 /\ recs' \in Nat
         /\ currentPos' = p + RecSize[added + 1] /\ currentPos' \in 0 .. BufferSize
         /\ content' \in [Buffer -> Seq(Copy)]
         /\ \A o \in Buffer \ {b} : content'[o] = content[o]
         /\ content'[b] = Append(SubSeq(content[b], 1, n), [rec |-> added + 1, at |-> p])
<1>1. /\ added \in Nat /\ Len(RecSize) \in Nat /\ BufferSize \in Nat
      /\ Record = 1 .. Len(RecSize)
  BY WriterAssumption, LenProperties DEF TypeOK, Record
<1>2. added + 1 \in Record /\ added + 1 \in 0 .. Len(RecSize)
  BY <1>1
<1>3. RecSize[added + 1] \in Nat
  BY <1>1, <1>2, WriterAssumption, ElementOfSeq DEF Record
<1>4. added' = added + 1 /\ recs' = n + 1 /\ currentPos' = p + RecSize[added + 1]
  BY DEF Store
<1>5. p + RecSize[added + 1] \in 0 .. BufferSize
  BY <1>1, <1>3
<1> DEFINE c == [rec |-> added + 1, at |-> p]
           t == Append(SubSeq(content[b], 1, n), c)
<1>6. c \in Copy
  BY <1>2 DEF Copy
<1>7. content' = [content EXCEPT ![b] = t]
  BY <1>4 DEF Store
<1>8. content[b] \in Seq(Copy) /\ content \in [Buffer -> Seq(Copy)]
  BY DEF TypeOK
<1> HIDE DEF c
<1>9. t \in Seq(Copy)
  BY <1>6, <1>8, StoreFacts
<1> HIDE DEF t
<1>10. /\ content' \in [Buffer -> Seq(Copy)] /\ content'[b] = t
       /\ \A o \in Buffer \ {b} : content'[o] = content[o]
  BY ONLY <1>7, <1>8, <1>9
<1>11. QED
  BY <1>2, <1>4, <1>5, <1>10 DEF t, c

\* What is stored by addToBuffer, in the current buffer ...
LEMMA AddFacts ==
  ASSUME TypeOK, CurrentAt, AddToBuffer
  PROVE  /\ currentBuffer \in Buffer /\ recs \in Nat /\ currentPos \in Nat
         /\ Store(currentBuffer, recs, currentPos)
         /\ recs <= Len(content[currentBuffer])
         /\ added < Len(RecSize) /\ currentPos + RecSize[added + 1] <= BufferSize
<1>1. /\ currentBuffer \in Buffer /\ recs \in Nat /\ currentPos \in Nat
      /\ Store(currentBuffer, recs, currentPos)
      /\ added < Len(RecSize) /\ ~Full(added + 1)
      /\ added \in Nat /\ cPc = "adding"
  BY WriterAssumption DEF AddToBuffer, CurrentAt, TypeOK
<1>2. recs <= Len(content[currentBuffer])
  <2>1. content[currentBuffer] \in Seq(Copy)
    BY <1>1 DEF TypeOK
  <2>2. Len(content[currentBuffer]) \in Nat
    BY <2>1, LenProperties
  <2>3. QED
    BY <1>1, <2>2 DEF CurrentAt
<1>3. RecSize[added + 1] \in Nat /\ BufferSize \in Nat
  <2>1. added + 1 \in 1 .. Len(RecSize)
    BY <1>1, WriterAssumption, LenProperties
  <2>2. QED
    BY <2>1, WriterAssumption, ElementOfSeq
<1>4. currentPos + RecSize[added + 1] <= BufferSize
  BY <1>1, <1>3 DEF Full
<1>5. QED
  BY <1>1, <1>2, <1>4

\* ... or in a new one.
LEMMA NewFacts ==
  ASSUME TypeOK, ControlAt, AddInNewBuffer
  PROVE  /\ currentBuffer' \in Buffer /\ Store(currentBuffer', 0, 0)
         /\ 0 <= Len(content[currentBuffer'])
         /\ added < Len(RecSize) /\ 0 + RecSize[added + 1] <= BufferSize
         /\ reserveList' \in Seq(Buffer) /\ allocated' \subseteq Buffer
<1>1. /\ added < Len(RecSize) /\ Store(currentBuffer', 0, 0) /\ GetNewBuffer
      /\ added \in Nat /\ reserveList \in Seq(Buffer) /\ allocated \subseteq Buffer
  BY WriterAssumption DEF AddInNewBuffer, ControlAt, TypeOK
<1>2. /\ currentBuffer' \in Buffer /\ reserveList' \in Seq(Buffer)
      /\ allocated' \subseteq Buffer
  <2>1. CASE reserveList # <<>>
    BY <1>1, <2>1, HeadTailProperties DEF GetNewBuffer, Spare
  <2>2. CASE reserveList = <<>>
    BY <1>1, <2>2 DEF GetNewBuffer
  <2>3. QED
    BY <2>1, <2>2
<1>3. 0 <= Len(content[currentBuffer'])
  <2>1. content[currentBuffer'] \in Seq(Copy)
    BY <1>2 DEF TypeOK
  <2>2. QED
    BY <2>1, LenProperties
<1>4. 0 + RecSize[added + 1] <= BufferSize
  <2>1. added + 1 \in DOMAIN RecSize
    BY <1>1, WriterAssumption, LenProperties
  <2>2. RecSize[added + 1] \in Nat /\ RecSize[added + 1] <= BufferSize
    BY <2>1, WriterAssumption, ElementOfSeq, LenProperties
  <2>3. QED
    BY <2>2
<1>5. QED
  BY <1>1, <1>2, <1>3, <1>4

\* What writing an entry adds to the file.
LEMMA DataType ==
  ASSUME TypeOK, NEW e \in Entry, Whole(e, content)
  PROVE  /\ Data(e) \in Seq(Record) /\ Len(Data(e)) = e.n
         /\ \A i \in 1 .. e.n : Data(e)[i] = Before(e, content) + i
<1>1. e.n \in Nat /\ e.buf \in Buffer /\ content[e.buf] \in Seq(Copy)
  BY EntryFacts DEF TypeOK
<1>2. Len(content[e.buf]) \in Nat /\ e.n <= Len(content[e.buf])
  BY <1>1, LenProperties DEF Whole
<1>3. \A i \in 1 .. e.n : content[e.buf][i] \in Copy
  BY <1>1, <1>2, ElementOfSeq
<1>4. \A i \in 1 .. e.n : content[e.buf][i].rec \in Record
  BY <1>3 DEF Copy
<1>5. Data(e) \in Seq(Record) /\ Len(Data(e)) = e.n
  BY <1>1, <1>4 DEF Data
<1>6. \A i \in 1 .. e.n : Data(e)[i] = Before(e, content) + i
  BY DEF Data, Whole
<1>7. QED
  BY <1>5, <1>6

\* Writing an entry that continues the file: the file goes on in order.
LEMMA WriteFacts ==
  ASSUME TypeOK, file = [i \in 1 .. Len(file) |-> i],
         NEW e \in Entry, Whole(e, content), Before(e, content) = Len(file),
         file' = file \o Data(e)
  PROVE  /\ file' \in Seq(Record) /\ Len(file') = Through(e, content)
         /\ file' = [i \in 1 .. Len(file') |-> i]
<1>1. file \in Seq(Record) /\ Len(file) \in Nat /\ e.n \in Nat
  BY EntryFacts, LenProperties DEF TypeOK
<1>2. /\ Data(e) \in Seq(Record) /\ Len(Data(e)) = e.n
      /\ \A i \in 1 .. e.n : Data(e)[i] = Len(file) + i
  BY DataType
<1>3. /\ file' \in Seq(Record) /\ Len(file') = Len(file) + e.n
      /\ \A i \in 1 .. Len(file) + e.n :
           file'[i] = IF i <= Len(file) THEN file[i] ELSE Data(e)[i - Len(file)]
  <2> DEFINE d == Data(e)
  <2>1. d \in Seq(Record) /\ Len(d) = e.n /\ file' = file \o d
    BY <1>2
  <2> HIDE DEF d
  <2>2. /\ file \o d \in Seq(Record) /\ Len(file \o d) = Len(file) + Len(d)
        /\ \A i \in 1 .. Len(file) + Len(d) :
             (file \o d)[i] = IF i <= Len(file) THEN file[i] ELSE d[i - Len(file)]
    <3>1. file \in Seq(Record) /\ d \in Seq(Record)
      BY <1>1, <2>1
    <3>2. QED
      BY ONLY <3>1, ConcatProperties
  <2>3. /\ file' \in Seq(Record) /\ Len(file') = Len(file) + e.n
        /\ \A i \in 1 .. Len(file) + e.n :
             file'[i] = IF i <= Len(file) THEN file[i] ELSE d[i - Len(file)]
    <3>1. file \o d = file' /\ Len(d) = e.n
      BY <2>1
    <3>2. QED
      BY ONLY <2>2, <3>1, Zenon
  <2>4. QED
    BY ONLY <2>3 DEF d
<1>4. Len(file') = Through(e, content)
  BY <1>3 DEF Through
<1>5. ASSUME NEW i \in 1 .. Len(file) + e.n
      PROVE  file'[i] = i
  <2>1. CASE i <= Len(file)
    <3>1. i \in 1 .. Len(file)
      BY <1>1, <2>1
    <3>2. file[i] = i
      BY <3>1
    <3>3. QED
      BY <1>3, <2>1, <3>2
  <2>2. CASE ~(i <= Len(file))
    <3>1. i - Len(file) \in 1 .. e.n /\ Len(file) + (i - Len(file)) = i
      BY ONLY <1>1, <2>2, i \in 1 .. Len(file) + e.n
    <3>2. Data(e)[i - Len(file)] = i
      BY ONLY <1>2, <3>1
    <3>3. QED
      BY <1>3, <2>2, <3>2
  <2>3. QED
    BY <2>1, <2>2
<1>6. DOMAIN file' = 1 .. Len(file')
  BY <1>3, LenProperties
<1>7. \A i \in DOMAIN file' : file'[i] = i
  BY ONLY <1>3, <1>5, <1>6
<1>8. file' = [i \in DOMAIN file' |-> file'[i]]
  <2>1. file' \in [1 .. Len(file') -> Record]
    BY <1>3, LenProperties
  <2>2. QED
    BY ONLY <2>1
<1>9. file' = [i \in 1 .. Len(file') |-> i]
  BY ONLY <1>6, <1>7, <1>8
<1>10. QED
  BY <1>3, <1>4, <1>9

\* The end of the chain of pending entries.
End == IF cPc = "adding" THEN Before(Cur, content) ELSE added

\* The entry that is written next continues the file, and the rest of the
\* queue continues that entry.
LEMMA NextEntry ==
  ASSUME IInv
  PROVE  /\ file = [i \in 1 .. Len(file) |-> i]
         /\ wPc = "write" =>
              /\ Head(wHand) \in Entry /\ Whole(Head(wHand), content)
              /\ Before(Head(wHand), content) = Len(file)
              /\ Chained(writeQ, Through(Head(wHand), content), End, content)
         /\ wPc # "write" =>
              /\ Chained(writeQ, Len(file), End, content)
              /\ writeQ # <<>> =>
                   /\ Head(writeQ) \in Entry /\ Whole(Head(writeQ), content)
                   /\ Before(Head(writeQ), content) = Len(file)
                   /\ Chained(Tail(writeQ), Through(Head(writeQ), content), End, content)
<1>1. TypeOK /\ ControlAt /\ CurrentAt /\ RecordsInOrder
  BY DEF IInv
<1>2. /\ file = [i \in 1 .. Len(file) |-> i]
      /\ Chained(Pending, Len(file), End, content)
  BY <1>1, OrderIs DEF End
<1>3. CASE wPc = "write"
  <2>1. /\ Pending \in Seq(Entry) /\ Pending # <<>>
        /\ Head(Pending) = Head(wHand) /\ Tail(Pending) = writeQ
        /\ Head(wHand) \in Entry
    BY <1>1, <1>3, PendingIs
  <2>2. QED
    BY <1>2, <1>3, <2>1, ChainedHead
<1>4. CASE wPc # "write"
  <2>1. Pending = writeQ /\ writeQ \in Seq(Entry)
    BY <1>1, <1>4, PendingIs
  <2>2. writeQ # <<>> => Head(writeQ) \in Entry
    BY <2>1, HeadTailProperties
  <2>3. QED
    BY <1>2, <1>4, <2>1, <2>2, ChainedHead
<1>5. QED
  BY <1>2, <1>3, <1>4

\* The entry in the hand of the write thread.
LEMMA HandFacts ==
  ASSUME TypeOK, ControlAt, wPc \in {"write", "return"}
  PROVE  Head(wHand) \in Entry /\ wHand = <<Head(wHand)>> /\ Head(wHand).buf \in Buffer
<1>1. wHand \in Seq(Entry) /\ Len(wHand) = 1
  BY DEF TypeOK, ControlAt
<1>2. QED
  BY <1>1, OneElement, EntryFacts

\* A step keeps every variable in its type.
LEMMA TypeStep ==
  IInv /\ [Next]_vars => TypeOK'
<1>0. SUFFICES ASSUME IInv, [Next]_vars
               PROVE  TypeOK'
  OBVIOUS
<1>a. TypeOK /\ ControlAt /\ CurrentAt
  BY <1>0 DEF IInv
<1>b. writeQ \in Seq(Entry) /\ wHand \in Seq(Entry) /\ reserveList \in Seq(Buffer)
  BY <1>a DEF TypeOK
<1>1. CASE StartBuffers
  <2>1. CASE UNCHANGED <<reserveList, currentBuffer, allocated, incoming, wPc>>
    BY <1>a, <1>1, <2>1 DEF StartBuffers, TypeOK
  <2>2. CASE /\ cPc' = "adding" /\ currentBuffer' = 1
             /\ reserveList' = [i \in 1 .. ReserveSize |-> i + 1]
             /\ allocated' = 1 .. ReserveSize + 1 /\ incoming' = TRUE /\ wPc' = "check"
    <3>1. /\ 1 \in Buffer /\ 1 .. ReserveSize + 1 \subseteq Buffer
          /\ \A i \in 1 .. ReserveSize : i + 1 \in Buffer
      BY WriterAssumption, LenProperties DEF Buffer
    <3>2. reserveList' \in Seq(Buffer)
      BY <2>2, <3>1, WriterAssumption
    <3>3. QED
      BY <1>a, <1>1, <2>2, <3>1, <3>2 DEF StartBuffers, TypeOK
  <2>3. QED
    BY <1>1, <2>1, <2>2 DEF StartBuffers
<1>2. CASE AddToBuffer
  <2>1. /\ added' \in 0 .. Len(RecSize) /\ recs' \in Nat
        /\ currentPos' \in 0 .. BufferSize /\ content' \in [Buffer -> Seq(Copy)]
    BY <1>a, <1>2, AddFacts, StoreType
  <2>2. QED
    BY <1>a, <1>2, <2>1 DEF AddToBuffer, TypeOK, writerVars
<1>3. CASE AddCycle \/ StopWrites
  <2>1. [buf |-> currentBuffer, n |-> recs] \in Entry
    BY <1>a, <1>3 DEF AddCycle, StopWrites, CurrentAt, TypeOK, Entry
  <2>2. /\ writeQ' = Append(writeQ, [buf |-> currentBuffer, n |-> recs])
        /\ wWake' = (wPc = "waiting")
    BY <1>3 DEF AddCycle, StopWrites, QueueCurrent, Enqueue
  <2>3. writeQ' \in Seq(Entry)
    BY <1>b, <2>1, <2>2, AppendProperties
  <2>4. CASE AddCycle
    BY <1>a, <2>2, <2>3, <2>4 DEF AddCycle, TypeOK, writerVars
  <2>5. CASE StopWrites
    BY <1>a, <2>2, <2>3, <2>5, WriterAssumption DEF StopWrites, TypeOK, writerVars
  <2>6. QED
    BY <1>3, <2>4, <2>5
<1>4. CASE AddInNewBuffer
  <2>1. /\ currentBuffer' \in Buffer /\ Store(currentBuffer', 0, 0)
        /\ 0 <= Len(content[currentBuffer']) /\ 0 \in Nat
        /\ added < Len(RecSize) /\ 0 + RecSize[added + 1] <= BufferSize
        /\ reserveList' \in Seq(Buffer) /\ allocated' \subseteq Buffer
    BY <1>a, <1>4, NewFacts
  <2>2. \A b \in Buffer : Store(b, 0, 0) /\ 0 <= Len(content[b]) =>
          /\ added' \in 0 .. Len(RecSize) /\ recs' \in Nat
          /\ currentPos' \in 0 .. BufferSize /\ content' \in [Buffer -> Seq(Copy)]
    BY <1>a, <2>1, StoreType
  <2>3. /\ added' \in 0 .. Len(RecSize) /\ recs' \in Nat
        /\ currentPos' \in 0 .. BufferSize /\ content' \in [Buffer -> Seq(Copy)]
    BY <2>1, <2>2
  <2>4. QED
    BY <1>a, <1>4, <2>1, <2>3 DEF AddInNewBuffer, TypeOK, writerVars
<1>5. CASE ClearIncoming \/ NotifyWriter \/ JoinWriter
  BY <1>a, <1>5 DEF ClearIncoming, NotifyWriter, JoinWriter, TypeOK, writerVars
<1>6. CASE Drain
  <2>1. CASE writeQ # <<>>
    <3>1. Head(writeQ) \in Entry /\ Tail(writeQ) \in Seq(Entry)
      BY <1>b, <2>1, HeadTailProperties
    <3>2. reserveList' \in Seq(Buffer)
      <4>1. Head(writeQ).buf \in Buffer
        BY <3>1, EntryFacts
      <4>2. reserveList' = Append(reserveList, Head(writeQ).buf)
        BY <1>6, <2>1 DEF Drain
      <4>3. QED
        BY <1>b, <4>1, <4>2, AppendProperties
    <3>3. wPc # "write"
      BY <1>a, <1>6 DEF Drain, ControlAt
    <3>4. file' \in Seq(Record)
      BY <1>0, <1>a, <1>6, <2>1, <3>3, NextEntry, WriteFacts DEF Drain
    <3>5. QED
      BY <1>a, <1>6, <2>1, <3>1, <3>2, <3>4 DEF Drain, TypeOK, writerVars
  <2>2. CASE writeQ = <<>>
    BY <1>a, <1>6, <2>2 DEF Drain, TypeOK, writerVars
  <2>3. QED
    BY <2>1, <2>2
<1>7. CASE Cleanup
  <2>1. <<>> \in Seq(Buffer)
    OBVIOUS
  <2>2. QED
    BY <1>a, <1>7, <2>1 DEF Cleanup, TypeOK, writerVars
<1>8. CASE WriterCheck
  BY <1>a, <1>8 DEF WriterCheck, TypeOK, callerVars
<1>9. CASE WriterLock
  <2>1. /\ wHand' \in Seq(Entry) /\ writeQ' \in Seq(Entry)
        /\ wPc' \in {"off", "check", "lock", "waiting", "write", "return", "exited"}
    BY <1>a, <1>b, <1>9, TakeType DEF WriterLock
  <2>2. QED
    BY <1>a, <1>9, <2>1 DEF WriterLock, TypeOK, callerVars
<1>10. CASE WriterNotified \/ WriterSpurious
  <2>1. /\ wHand' \in Seq(Entry) /\ writeQ' \in Seq(Entry)
        /\ wPc' \in {"off", "check", "lock", "waiting", "write", "return", "exited"}
    BY <1>a, <1>10, TakeType DEF WriterNotified, WriterSpurious
  <2>2. QED
    BY <1>a, <1>10, <2>1 DEF WriterNotified, WriterSpurious, TypeOK, callerVars
<1>11. CASE WriterWrite
  <2>1. file' \in Seq(Record)
    BY <1>0, <1>a, <1>11, NextEntry, WriteFacts DEF WriterWrite
  <2>2. QED
    BY <1>a, <1>11, <2>1 DEF WriterWrite, TypeOK, callerVars
<1>12. CASE WriterReturn
  <2>1. Head(wHand).buf \in Buffer
    BY <1>a, <1>12, HandFacts DEF WriterReturn
  <2>2. reserveList' \in Seq(Buffer)
    BY <1>b, <1>12, <2>1, AppendProperties DEF WriterReturn
  <2>3. <<>> \in Seq(Entry)
    OBVIOUS
  <2>4. QED
    BY <1>a, <1>12, <2>2, <2>3 DEF WriterReturn, TypeOK, callerVars
<1>13. CASE UNCHANGED vars
  BY <1>a, <1>13 DEF vars, callerVars, writerVars, TypeOK
<1>14. QED
  BY <1>0, <1>1, <1>2, <1>3, <1>4, <1>5, <1>6, <1>7, <1>8, <1>9, <1>10, <1>11,
     <1>12, <1>13 DEF Next, Caller, Stopping, Writer

-----------------------------------------------------------------------------
(* Who owns each buffer *)

\* The buffers of a sequence of entries.
LEMMA BufsFacts ==
  ASSUME NEW s \in Seq(Entry)
  PROVE  /\ Bufs(s) \in Seq(Buffer) /\ Len(Bufs(s)) = Len(s)
         /\ DOMAIN Bufs(s) = DOMAIN s /\ DOMAIN s = 1 .. Len(s) /\ Len(s) \in Nat
         /\ \A i \in DOMAIN s : Bufs(s)[i] = s[i].buf
         /\ (s = <<>>) <=> (Bufs(s) = <<>>)
<1>1. Len(s) \in Nat /\ DOMAIN s = 1 .. Len(s)
  BY LenProperties
<1>2. \A i \in 1 .. Len(s) : s[i] \in Entry
  BY <1>1, ElementOfSeq
<1>3. \A i \in 1 .. Len(s) : s[i].buf \in Buffer
  BY <1>2 DEF Entry
<1>4. Bufs(s) \in Seq(Buffer) /\ Len(Bufs(s)) = Len(s)
  BY <1>1, <1>3 DEF Bufs
<1>5. (s = <<>>) <=> (Bufs(s) = <<>>)
  BY <1>4, EmptySeq
<1>6. QED
  BY <1>1, <1>4, <1>5 DEF Bufs

\* ... of one entry,
LEMMA BufsOne ==
  ASSUME NEW e \in Entry
  PROVE  Bufs(<<e>>) = <<e.buf>> /\ Bufs(<<>>) = <<>>
BY DEF Bufs

\* ... of one more entry,
LEMMA BufsAppend ==
  ASSUME NEW s \in Seq(Entry), NEW e \in Entry
  PROVE  Bufs(Append(s, e)) = Append(Bufs(s), e.buf)
<1>1. Append(s, e) = s \o <<e>> /\ e.buf \in Buffer
  BY AppendIsConcat, EntryFacts
<1>2. /\ Append(s, e) \in Seq(Entry) /\ Len(Append(s, e)) = Len(s) + 1
      /\ \A i \in 1 .. Len(s) : Append(s, e)[i] = s[i]
      /\ Append(s, e)[Len(s) + 1] = e
  BY AppendProperties
<1>3. /\ Bufs(s) \in Seq(Buffer) /\ Len(Bufs(s)) = Len(s) /\ Len(s) \in Nat
      /\ DOMAIN s = 1 .. Len(s)
      /\ \A i \in DOMAIN s : Bufs(s)[i] = s[i].buf
  BY BufsFacts
<1>4. /\ Append(Bufs(s), e.buf) \in Seq(Buffer)
      /\ Len(Append(Bufs(s), e.buf)) = Len(s) + 1
      /\ \A i \in 1 .. Len(s) : Append(Bufs(s), e.buf)[i] = Bufs(s)[i]
      /\ Append(Bufs(s), e.buf)[Len(s) + 1] = e.buf
  BY <1>1, <1>3, AppendProperties
<1> DEFINE t == Append(s, e)
<1> HIDE DEF t
<1>5. /\ Bufs(t) \in Seq(Buffer) /\ Len(Bufs(t)) = Len(s) + 1
      /\ \A i \in 1 .. Len(s) + 1 : Bufs(t)[i] = t[i].buf
  <2>1. t \in Seq(Entry) /\ Len(t) = Len(s) + 1
    BY <1>2 DEF t
  <2>2. QED
    BY <2>1, BufsFacts
<1>6. \A i \in 1 .. Len(s) + 1 : i \in 1 .. Len(s) \/ i = Len(s) + 1
  BY <1>3
<1>7. \A i \in 1 .. Len(s) + 1 : Bufs(t)[i] = Append(Bufs(s), e.buf)[i]
  BY ONLY <1>2, <1>3, <1>4, <1>5, <1>6 DEF t
<1>8. QED
  BY <1>4, <1>5, <1>7, SeqEqual DEF t

\* ... and without the first entry.
LEMMA BufsTail ==
  ASSUME NEW s \in Seq(Entry), s # <<>>
  PROVE  Bufs(Tail(s)) = Tail(Bufs(s)) /\ Head(Bufs(s)) = Head(s).buf
<1>1. /\ Tail(s) \in Seq(Entry) /\ Len(s) \in Nat \ {0} /\ Len(Tail(s)) = Len(s) - 1
      /\ Head(s) = s[1] /\ DOMAIN s = 1 .. Len(s)
      /\ \A i \in 1 .. Len(s) - 1 : Tail(s)[i] = s[i + 1]
  BY HeadTailProperties, LenProperties, EmptySeq
<1>2. /\ Bufs(s) \in Seq(Buffer) /\ Len(Bufs(s)) = Len(s) /\ Bufs(s) # <<>>
      /\ \A i \in 1 .. Len(s) : Bufs(s)[i] = s[i].buf
  BY <1>1, BufsFacts
<1>3. /\ Tail(Bufs(s)) \in Seq(Buffer) /\ Len(Tail(Bufs(s))) = Len(s) - 1
      /\ Head(Bufs(s)) = Bufs(s)[1]
      /\ \A i \in 1 .. Len(s) - 1 : Tail(Bufs(s))[i] = Bufs(s)[i + 1]
  <2> DEFINE t == Bufs(s)
  <2>1. t \in Seq(Buffer) /\ t # <<>> /\ Len(t) = Len(s)
    BY <1>2
  <2> HIDE DEF t
  <2>2. /\ Tail(t) \in Seq(Buffer) /\ Len(Tail(t)) = Len(t) - 1 /\ Head(t) = t[1]
        /\ \A i \in 1 .. Len(Tail(t)) : Tail(t)[i] = t[i + 1]
    BY ONLY <2>1, HeadTailProperties
  <2>3. \A i \in 1 .. Len(s) - 1 : i \in 1 .. Len(Tail(t))
    BY ONLY <2>1, <2>2
  <2>4. QED
    BY ONLY <2>1, <2>2, <2>3 DEF t
<1>4. /\ Bufs(Tail(s)) \in Seq(Buffer) /\ Len(Bufs(Tail(s))) = Len(s) - 1
      /\ \A i \in 1 .. Len(s) - 1 : Bufs(Tail(s))[i] = Tail(s)[i].buf
  <2> DEFINE t == Tail(s)
  <2>1. t \in Seq(Entry) /\ Len(t) = Len(s) - 1
    BY <1>1
  <2> HIDE DEF t
  <2>2. /\ Bufs(t) \in Seq(Buffer) /\ Len(Bufs(t)) = Len(t)
        /\ DOMAIN t = 1 .. Len(t) /\ \A i \in DOMAIN t : Bufs(t)[i] = t[i].buf
    BY ONLY <2>1, BufsFacts
  <2>3. QED
    BY ONLY <2>1, <2>2 DEF t
<1>5. \A i \in 1 .. Len(s) - 1 : i \in 1 .. Len(s) /\ i + 1 \in 1 .. Len(s)
  BY <1>1
<1>6. \A i \in 1 .. Len(s) - 1 : Bufs(Tail(s))[i] = Tail(Bufs(s))[i]
  BY ONLY <1>1, <1>2, <1>3, <1>4, <1>5
<1>7. Bufs(Tail(s)) = Tail(Bufs(s))
  BY ONLY <1>3, <1>4, <1>6, SeqEqual
<1>8. Head(Bufs(s)) = Head(s).buf
  <2>1. 1 \in 1 .. Len(s)
    BY <1>1
  <2>2. QED
    BY ONLY <1>1, <1>2, <1>3, <2>1
<1>9. QED
  BY <1>7, <1>8

\* What each place holds.
LEMMA HeldFacts ==
  /\ DOMAIN Held = Place
  /\ Held["currentBuffer"] = Bufs(Current) /\ Held["reserveList"] = reserveList
  /\ Held["writeQ"] = Bufs(writeQ) /\ Held["wHand"] = Bufs(wHand)
BY DEF Held, HeldAt, Place

\* The same of the next state.
LEMMA HeldNext ==
  /\ DOMAIN Held' = Place
  /\ Held'["currentBuffer"] = Bufs(Current') /\ Held'["reserveList"] = reserveList'
  /\ Held'["writeQ"] = Bufs(writeQ') /\ Held'["wHand"] = Bufs(wHand')
BY DEF Held, HeldAt, Place

\* The buffer that is being filled.
LEMMA CurrentFacts ==
  ASSUME TypeOK, CurrentAt
  PROVE  /\ cPc = "adding" => /\ Cur \in Entry /\ Current = <<Cur>>
                              /\ Bufs(Current) = <<currentBuffer>>
                              /\ currentBuffer \in Buffer
         /\ cPc # "adding" => Current = <<>> /\ Bufs(Current) = <<>>
         /\ Bufs(Current) \in Seq(Buffer)
<1>1. CASE cPc = "adding"
  <2>1. Cur \in Entry /\ currentBuffer \in Buffer
    BY <1>1 DEF CurrentAt, TypeOK, Cur, Entry
  <2>2. Current = <<Cur>>
    BY <1>1 DEF Current, Cur
  <2>3. Bufs(<<Cur>>) = <<Cur.buf>>
    BY <2>1, BufsOne
  <2>4. Cur.buf = currentBuffer
    BY DEF Cur
  <2>5. PICK b \in Buffer : b = currentBuffer
    BY <2>1
  <2>6. <<b>> \in Seq(Buffer)
    OBVIOUS
  <2>7. Bufs(Current) = <<b>>
    BY ONLY <2>2, <2>3, <2>4, <2>5
  <2>8. QED
    BY ONLY <1>1, <2>1, <2>2, <2>5, <2>6, <2>7
<1>2. CASE cPc # "adding"
  BY <1>2 DEF Current, Bufs
<1>3. QED
  BY <1>1, <1>2

\* The same of the next state.
LEMMA CurrentNext ==
  ASSUME TypeOK', CurrentAt'
  PROVE  /\ cPc' = "adding" => /\ Cur' \in Entry /\ Current' = <<Cur'>>
                               /\ Bufs(Current') = <<currentBuffer'>>
                               /\ currentBuffer' \in Buffer
         /\ cPc' # "adding" => Current' = <<>> /\ Bufs(Current') = <<>>
         /\ Bufs(Current') \in Seq(Buffer)
<1>1. CASE cPc' = "adding"
  <2>1. Cur' \in Entry /\ currentBuffer' \in Buffer
    BY <1>1 DEF CurrentAt, TypeOK, Cur, Entry
  <2>2. Current' = <<Cur'>>
    BY <1>1 DEF Current, Cur
  <2>3. Bufs(<<Cur'>>) = <<Cur'.buf>>
    BY <2>1, BufsOne
  <2>4. Cur'.buf = currentBuffer'
    BY DEF Cur
  <2>5. PICK b \in Buffer : b = currentBuffer'
    BY <2>1
  <2>6. <<b>> \in Seq(Buffer)
    OBVIOUS
  <2>7. Bufs(Current') = <<b>>
    BY ONLY <2>2, <2>3, <2>4, <2>5
  <2>8. QED
    BY ONLY <1>1, <2>1, <2>2, <2>5, <2>6, <2>7
<1>2. CASE cPc' # "adding"
  BY <1>2 DEF Current, Bufs
<1>3. QED
  BY <1>1, <1>2

LEMMA HeldType ==
  ASSUME TypeOK, CurrentAt
  PROVE  Held \in Fillings(Place, Buffer)
<1>1. /\ Bufs(Current) \in Seq(Buffer) /\ reserveList \in Seq(Buffer)
      /\ Bufs(writeQ) \in Seq(Buffer) /\ Bufs(wHand) \in Seq(Buffer)
  <2>1. writeQ \in Seq(Entry) /\ wHand \in Seq(Entry) /\ reserveList \in Seq(Buffer)
    BY DEF TypeOK
  <2>2. QED
    BY <2>1, CurrentFacts, BufsFacts
<1>2. \A p \in Place : HeldAt(p) \in Seq(Buffer)
  BY <1>1 DEF HeldAt, Place
<1>3. QED
  BY <1>2 DEF Held, Fillings

LEMMA HeldTypeNext ==
  ASSUME TypeOK', CurrentAt'
  PROVE  Held' \in Fillings(Place, Buffer)
<1>1. /\ Bufs(Current') \in Seq(Buffer) /\ reserveList' \in Seq(Buffer)
      /\ Bufs(writeQ') \in Seq(Buffer) /\ Bufs(wHand') \in Seq(Buffer)
  <2>1. writeQ' \in Seq(Entry) /\ wHand' \in Seq(Entry) /\ reserveList' \in Seq(Buffer)
    BY DEF TypeOK
  <2>2. QED
    BY <2>1, CurrentNext, BufsFacts
<1>2. \A p \in Place : HeldAt(p)' \in Seq(Buffer)
  BY <1>1 DEF HeldAt, Place
<1>3. QED
  BY <1>2 DEF Held, Fillings
-----------------------------------------------------------------------------
(* The memory of the buffers *)

\* A record is copied to where the ones before it end, and within the buffer.
LEMMA StoreFits ==
  ASSUME TypeOK, Fits, NEW b \in Buffer, NEW n \in Nat, NEW p \in Nat,
         Store(b, n, p), n <= Len(content[b]), added < Len(RecSize),
         p + RecSize[added + 1] <= BufferSize,
         p = IF n = 0 THEN 0 ELSE After(content[b][n])
  PROVE  /\ Fits'
         /\ recs' = n + 1 /\ recs' = Len(content'[b])
         /\ currentPos' = After(content'[b][recs'])
<1> DEFINE c == [rec |-> added + 1, at |-> p]
           t == Append(SubSeq(content[b], 1, n), c)
<1>1. /\ added + 1 \in Record /\ recs' = n + 1
      /\ currentPos' = p + RecSize[added + 1]
      /\ \A o \in Buffer \ {b} : content'[o] = content[o]
      /\ content'[b] = t
  BY StoreType
<1>2. c \in Copy /\ After(c) = p + RecSize[added + 1] /\ c.at = p
  BY <1>1 DEF Copy, After
<1>3. content[b] \in Seq(Copy)
  BY DEF TypeOK
<1> HIDE DEF c
<1>4. /\ Len(t) = n + 1 /\ DOMAIN t = 1 .. n + 1
      /\ \A i \in 1 .. n : t[i] = content[b][i]
      /\ t[n + 1] = c
  BY <1>2, <1>3, StoreFacts
<1> HIDE DEF t
<1>5. ASSUME NEW i \in DOMAIN t
      PROVE  After(t[i]) <= BufferSize /\ t[i].at = IF i = 1 THEN 0 ELSE After(t[i - 1])
  <2>1. CASE i = n + 1
    <3>1. After(t[i]) <= BufferSize /\ t[i].at = p
      BY <1>2, <1>4, <2>1
    <3>2. CASE n = 0
      BY <2>1, <3>1, <3>2
    <3>3. CASE n # 0
      <4>1. i # 1 /\ i - 1 = n /\ n \in 1 .. n
        BY <2>1, <3>3
      <4>2. t[i - 1] = content[b][n]
        BY ONLY <1>4, <4>1
      <4>3. QED
        BY <3>1, <3>3, <4>1, <4>2
    <3>4. QED
      BY <3>2, <3>3
  <2>2. CASE i # n + 1
    <3>1. i \in 1 .. n /\ i \in DOMAIN content[b]
      <4>1. DOMAIN content[b] = 1 .. Len(content[b]) /\ Len(content[b]) \in Nat
        BY <1>3, LenProperties
      <4>2. QED
        BY <1>4, <2>2, <4>1
    <3>2. /\ t[i] = content[b][i]
          /\ i = 1 \/ (i - 1 \in 1 .. n /\ t[i - 1] = content[b][i - 1])
      BY <1>4, <3>1
    <3>3. /\ After(content[b][i]) <= BufferSize
          /\ content[b][i].at = IF i = 1 THEN 0 ELSE After(content[b][i - 1])
      BY <3>1 DEF Fits
    <3>4. QED
      BY <3>2, <3>3
  <2>3. QED
    BY <2>1, <2>2
<1>6. ASSUME NEW o \in Buffer, NEW i \in DOMAIN content'[o]
      PROVE  /\ After(content'[o][i]) <= BufferSize
             /\ content'[o][i].at = IF i = 1 THEN 0 ELSE After(content'[o][i - 1])
  <2>1. CASE o = b
    BY <1>1, <1>5, <1>6, <2>1
  <2>2. CASE o # b
    <3>1. content'[o] = content[o]
      BY <1>1, <2>2
    <3>2. QED
      BY <1>6, <3>1 DEF Fits
  <2>3. QED
    BY <2>1, <2>2
<1>7. Fits'
  BY <1>6 DEF Fits, After
<1>8. QED
  BY <1>1, <1>2, <1>4, <1>7

\* What addToBuffer stores ...
LEMMA AddFits ==
  ASSUME TypeOK, CurrentAt, Fits, AddToBuffer
  PROVE  /\ Fits'
         /\ recs' = recs + 1 /\ recs' = Len(content'[currentBuffer])
         /\ currentPos' = After(content'[currentBuffer][recs'])
<1>1. /\ currentBuffer \in Buffer /\ recs \in Nat /\ currentPos \in Nat
      /\ Store(currentBuffer, recs, currentPos)
      /\ recs <= Len(content[currentBuffer])
      /\ added < Len(RecSize) /\ currentPos + RecSize[added + 1] <= BufferSize
  BY AddFacts
<1>2. currentPos = IF recs = 0 THEN 0 ELSE After(content[currentBuffer][recs])
  BY DEF AddToBuffer, CurrentAt
<1>3. QED
  BY <1>1, <1>2, StoreFits

\* ... in a new buffer.
LEMMA NewFits ==
  ASSUME TypeOK, ControlAt, Fits, AddInNewBuffer
  PROVE  /\ Fits'
         /\ recs' = 1 /\ recs' = Len(content'[currentBuffer'])
         /\ currentPos' = After(content'[currentBuffer'][recs'])
<1>1. PICK b \in Buffer : b = currentBuffer'
  BY NewFacts
<1>2. /\ Store(b, 0, 0) /\ 0 <= Len(content[b])
      /\ added < Len(RecSize) /\ 0 + RecSize[added + 1] <= BufferSize
  BY <1>1, NewFacts
<1>3. /\ Fits' /\ recs' = 0 + 1 /\ recs' = Len(content'[b])
      /\ currentPos' = After(content'[b][recs'])
  BY <1>2, StoreFits
<1>4. QED
  BY <1>1, <1>3

\* Every step keeps the records within their buffers.
LEMMA FitsStep ==
  IInv /\ [Next]_vars => Fits'
<1>0. SUFFICES ASSUME IInv, [Next]_vars
               PROVE  Fits'
  OBVIOUS
<1>a. TypeOK /\ ControlAt /\ CurrentAt /\ Fits
  BY <1>0 DEF IInv
<1>1. CASE AddToBuffer
  BY <1>a, <1>1, AddFits
<1>2. CASE AddInNewBuffer
  BY <1>a, <1>2, NewFits
<1>3. CASE content' = content
  BY <1>a, <1>3 DEF Fits, After
<1>4. QED
  BY <1>0, <1>1, <1>2, <1>3
  DEF Next, Caller, Stopping, Writer, StartBuffers, AddCycle, StopWrites,
      ClearIncoming, NotifyWriter, JoinWriter, Drain, Cleanup, WriterCheck,
      WriterLock, WriterNotified, WriterSpurious, WriterWrite, WriterReturn, vars

\* The caller stays behind the last record of the current buffer.
LEMMA CurrentAtStep ==
  IInv /\ [Next]_vars => CurrentAt'
<1>0. SUFFICES ASSUME IInv, [Next]_vars
               PROVE  CurrentAt'
  OBVIOUS
<1>a. TypeOK /\ ControlAt /\ CurrentAt /\ Fits /\ TypeOK'
  BY <1>0, TypeStep DEF IInv
<1>1. CASE AddToBuffer
  <2>1. /\ recs' = recs + 1 /\ recs' = Len(content'[currentBuffer])
        /\ currentPos' = After(content'[currentBuffer][recs'])
    BY <1>a, <1>1, AddFits
  <2>2. currentBuffer \in Buffer /\ recs \in Nat /\ currentBuffer' = currentBuffer
    BY <1>a, <1>1 DEF AddToBuffer, CurrentAt, TypeOK
  <2>3. recs' # 0
    BY <2>1, <2>2
  <2>4. QED
    BY <2>1, <2>2, <2>3 DEF CurrentAt, After
<1>2. CASE AddInNewBuffer
  <2>1. /\ recs' = 1 /\ recs' = Len(content'[currentBuffer'])
        /\ currentPos' = After(content'[currentBuffer'][recs'])
    BY <1>a, <1>2, NewFits
  <2>2. currentBuffer' \in Buffer
    BY <1>a, <1>2, NewFacts
  <2>3. QED
    BY <2>1, <2>2 DEF CurrentAt, After
<1>3. CASE StartBuffers
  <2>1. CASE cPc' = "adding" /\ currentBuffer' = 1
    <3>1. 1 \in Buffer /\ recs' = 0 /\ currentPos' = 0
      BY <1>a, <1>3, WriterAssumption, LenProperties DEF StartBuffers, ControlAt, Buffer
    <3>2. QED
      BY <2>1, <3>1 DEF CurrentAt
  <2>2. CASE cPc' = "done"
    BY <2>2 DEF CurrentAt
  <2>3. QED
    BY <1>3, <2>1, <2>2 DEF StartBuffers
<1>4. CASE cPc' # "adding"
  BY <1>4 DEF CurrentAt
<1>5. CASE UNCHANGED <<callerVars, content>>
  BY <1>a, <1>5 DEF CurrentAt, callerVars, After
<1>6. QED
  BY <1>0, <1>1, <1>2, <1>3, <1>4, <1>5
  DEF Next, Caller, Stopping, Writer, AddCycle, StopWrites,
      ClearIncoming, NotifyWriter, JoinWriter, Drain, Cleanup, WriterCheck,
      WriterLock, WriterNotified, WriterSpurious, WriterWrite, WriterReturn, vars,
      callerVars
-----------------------------------------------------------------------------
(* What each step does to the owners of the buffers *)

\* cycleBuffers and stopWrites hand the current buffer to the queue.
LEMMA QueueEffect ==
  ASSUME TypeOK, TypeOK', CurrentAt, CurrentAt', AddCycle \/ StopWrites
  PROVE  Moved(Held, Held', "currentBuffer", "writeQ")
<1>1. /\ cPc = "adding" /\ cPc' # "adding" /\ writeQ' = Append(writeQ, Cur)
      /\ UNCHANGED <<reserveList, wHand>>
  BY DEF AddCycle, StopWrites, QueueCurrent, Enqueue, Cur, writerVars
<1>2. Cur \in Entry /\ currentBuffer \in Buffer /\ writeQ \in Seq(Entry)
  BY <1>1, CurrentFacts DEF TypeOK
<1>3. Bufs(Current) = <<currentBuffer>> /\ Bufs(Current') = <<>>
  BY <1>1, CurrentFacts, CurrentNext
<1>4. Bufs(writeQ') = Append(Bufs(writeQ), currentBuffer)
  <2>1. Cur.buf = currentBuffer
    BY DEF Cur
  <2>2. QED
    BY <1>1, <1>2, <2>1, BufsAppend
<1>5. PICK b \in Buffer : b = currentBuffer
  BY <1>2
<1>6. <<b>> # <<>> /\ Head(<<b>>) = b /\ Tail(<<b>>) = <<>>
  OBVIOUS
<1>7. /\ Held["currentBuffer"] = <<b>> /\ Held'["currentBuffer"] = <<>>
      /\ Held'["writeQ"] = Append(Held["writeQ"], b)
      /\ Held'["reserveList"] = Held["reserveList"] /\ Held'["wHand"] = Held["wHand"]
  BY <1>1, <1>3, <1>4, <1>5, HeldFacts, HeldNext
<1>8. QED
  BY ONLY <1>6, <1>7, HeldFacts DEF Moved, Place

\* getNewBuffer takes a spare buffer, or a new one.
LEMMA NewEffect ==
  ASSUME TypeOK, TypeOK', CurrentAt, CurrentAt', AddInNewBuffer
  PROVE  \/ /\ Moved(Held, Held', "reserveList", "currentBuffer")
            /\ allocated' = allocated
         \/ /\ Pushed(Held, Held', "currentBuffer", currentBuffer')
            /\ currentBuffer' \in Buffer \ allocated
            /\ allocated' = allocated \cup {currentBuffer'}
<1>1. /\ cPc # "adding" /\ cPc' = "adding" /\ UNCHANGED <<writeQ, wHand>>
      /\ reserveList \in Seq(Buffer)
  BY DEF AddInNewBuffer, writerVars, TypeOK
<1>2. PICK b \in Buffer : b = currentBuffer'
  BY <1>1 DEF CurrentAt
<1>3. Bufs(Current) = <<>> /\ Bufs(Current') = <<b>>
  BY <1>1, <1>2, CurrentFacts, CurrentNext
<1>4. Append(<<>>, b) = <<b>>
  OBVIOUS
<1>5. /\ Held'["currentBuffer"] = Append(Held["currentBuffer"], b)
      /\ Held'["writeQ"] = Held["writeQ"] /\ Held'["wHand"] = Held["wHand"]
      /\ Held["reserveList"] = reserveList /\ Held'["reserveList"] = reserveList'
  BY <1>1, <1>3, <1>4, HeldFacts, HeldNext
<1>6. CASE reserveList # <<>>
  <2>1. b = Head(reserveList) /\ reserveList' = Tail(reserveList) /\ UNCHANGED allocated
    BY <1>2, <1>6 DEF AddInNewBuffer, GetNewBuffer, Spare
  <2>2. Moved(Held, Held', "reserveList", "currentBuffer")
    BY ONLY <1>5, <1>6, <2>1, HeldFacts DEF Moved, Place
  <2>3. QED
    BY <2>1, <2>2
<1>7. CASE reserveList = <<>>
  <2>1. /\ b \in Buffer \ allocated /\ reserveList' = reserveList
        /\ allocated' = allocated \cup {b}
    BY <1>2, <1>7 DEF AddInNewBuffer, GetNewBuffer
  <2>2. Pushed(Held, Held', "currentBuffer", b)
    BY ONLY <1>5, <2>1, HeldFacts DEF Pushed, Place
  <2>3. QED
    BY <1>2, <2>1, <2>2
<1>8. QED
  BY <1>6, <1>7

\* The write thread takes the first buffer of the queue into its hand.
LEMMA TakeEffect ==
  ASSUME TypeOK, ControlAt, wPc # "write", wPc # "return", TakeEntry,
         UNCHANGED <<callerVars, reserveList>>
  PROVE  Held' = Held \/ Moved(Held, Held', "writeQ", "wHand")
<1>1. Current' = Current
  BY DEF Current, callerVars
<1>2. CASE writeQ = <<>>
  <2>1. UNCHANGED <<wHand, writeQ>>
    BY <1>2 DEF TakeEntry
  <2>2. QED
    BY <1>1, <2>1 DEF Held, HeldAt
<1>3. CASE writeQ # <<>>
  <2>1. writeQ \in Seq(Entry) /\ wHand = <<>>
    <3>1. Len(wHand) = 0 /\ wHand \in Seq(Entry) /\ writeQ \in Seq(Entry)
      BY DEF ControlAt, TypeOK
    <3>2. QED
      BY <3>1, EmptySeq
  <2>2. PICK e \in Entry : e = Head(writeQ)
    BY <1>3, <2>1, HeadTailProperties
  <2>3. wHand' = <<e>> /\ writeQ' = Tail(writeQ)
    BY <1>3, <2>2 DEF TakeEntry
  <2>4. /\ Bufs(writeQ') = Tail(Bufs(writeQ)) /\ Head(Bufs(writeQ)) = e.buf
        /\ Bufs(writeQ) # <<>>
    BY <1>3, <2>1, <2>2, <2>3, BufsTail, BufsFacts
  <2>5. Bufs(wHand') = <<e.buf>> /\ Bufs(wHand) = <<>>
    BY <2>1, <2>3, BufsOne
  <2>6. Append(<<>>, e.buf) = <<e.buf>>
    OBVIOUS
  <2>7. /\ Held["writeQ"] # <<>> /\ Held'["writeQ"] = Tail(Held["writeQ"])
        /\ Held'["wHand"] = Append(Held["wHand"], Head(Held["writeQ"]))
        /\ Held'["currentBuffer"] = Held["currentBuffer"]
        /\ Held'["reserveList"] = Held["reserveList"]
    BY <1>1, <2>4, <2>5, <2>6, HeldFacts, HeldNext
  <2>8. QED
    BY ONLY <2>7, HeldFacts DEF Moved, Place
<1>4. QED
  BY <1>2, <1>3

\* The buffer that the write thread has written goes to the reserve, ...
LEMMA ReturnEffect ==
  ASSUME TypeOK, ControlAt, WriterReturn
  PROVE  Moved(Held, Held', "wHand", "reserveList")
<1>1. PICK e \in Entry : e = Head(wHand) /\ wHand = <<e>>
  BY HandFacts DEF WriterReturn
<1>2. /\ reserveList' = Append(reserveList, e.buf) /\ wHand' = <<>>
      /\ writeQ' = writeQ /\ Current' = Current
  BY <1>1 DEF WriterReturn, callerVars, Current
<1>3. Bufs(wHand) = <<e.buf>> /\ Bufs(wHand') = <<>>
  BY <1>1, <1>2, BufsOne
<1>4. <<e.buf>> # <<>> /\ Head(<<e.buf>>) = e.buf /\ Tail(<<e.buf>>) = <<>>
  OBVIOUS
<1>5. /\ Held["wHand"] # <<>> /\ Held'["wHand"] = Tail(Held["wHand"])
      /\ Held'["reserveList"] = Append(Held["reserveList"], Head(Held["wHand"]))
      /\ Held'["currentBuffer"] = Held["currentBuffer"]
      /\ Held'["writeQ"] = Held["writeQ"]
  BY <1>2, <1>3, <1>4, HeldFacts, HeldNext
<1>6. QED
  BY ONLY <1>5, HeldFacts DEF Moved, Place

\* ... as does each that stopWrites writes.
LEMMA DrainEffect ==
  ASSUME TypeOK, Drain
  PROVE  Held' = Held \/ Moved(Held, Held', "writeQ", "reserveList")
<1>1. UNCHANGED wHand /\ Current' = Current
  BY DEF Drain, writerVars, Current
<1>2. CASE writeQ = <<>>
  <2>1. UNCHANGED <<reserveList, writeQ>>
    BY <1>2 DEF Drain
  <2>2. QED
    BY <1>1, <2>1 DEF Held, HeldAt
<1>3. CASE writeQ # <<>>
  <2>1. writeQ \in Seq(Entry)
    BY DEF TypeOK
  <2>2. PICK e \in Entry : e = Head(writeQ)
    BY <1>3, <2>1, HeadTailProperties
  <2>3. reserveList' = Append(reserveList, e.buf) /\ writeQ' = Tail(writeQ)
    BY <1>3, <2>2 DEF Drain
  <2>4. /\ Bufs(writeQ') = Tail(Bufs(writeQ)) /\ Head(Bufs(writeQ)) = e.buf
        /\ Bufs(writeQ) # <<>>
    BY <1>3, <2>1, <2>2, <2>3, BufsTail, BufsFacts
  <2>5. /\ Held["writeQ"] # <<>> /\ Held'["writeQ"] = Tail(Held["writeQ"])
        /\ Held'["reserveList"] = Append(Held["reserveList"], Head(Held["writeQ"]))
        /\ Held'["currentBuffer"] = Held["currentBuffer"]
        /\ Held'["wHand"] = Held["wHand"]
    BY <1>1, <2>3, <2>4, HeldFacts, HeldNext
  <2>6. QED
    BY ONLY <2>5, HeldFacts DEF Moved, Place
<1>4. QED
  BY <1>2, <1>3

\* After stopWrites every buffer is in the reserve, and cleanup deletes it.
LEMMA CleanupEffect ==
  ASSUME TypeOK, CurrentAt, ControlAt, OneOwner, Cleanup
  PROVE  Cleared(Held, Held', "reserveList") /\ allocated' = {}
<1>1. /\ cPc = "stopped" /\ cPc' = "done" /\ reserveList' = <<>>
      /\ allocated' = allocated \ ToSet(reserveList)
      /\ wPc = "exited" /\ writeQ = <<>> /\ UNCHANGED <<writeQ, wHand>>
  BY DEF Cleanup, ControlAt, writerVars
<1>2. wHand = <<>>
  <2>1. Len(wHand) = 0 /\ wHand \in Seq(Entry)
    BY <1>1 DEF ControlAt, TypeOK
  <2>2. QED
    BY <2>1, EmptySeq
<1>3. Bufs(<<>>) = <<>>
  BY DEF Bufs
<1>4. Current = <<>> /\ Current' = <<>>
  BY <1>1 DEF Current
<1>5. /\ Held["currentBuffer"] = <<>> /\ Held["writeQ"] = <<>> /\ Held["wHand"] = <<>>
      /\ Held'["currentBuffer"] = <<>> /\ Held'["writeQ"] = <<>>
      /\ Held'["wHand"] = <<>> /\ Held'["reserveList"] = <<>>
      /\ Held["reserveList"] = reserveList
  BY <1>1, <1>2, <1>3, <1>4, HeldFacts, HeldNext
<1>6. Carried(Held) \subseteq {reserveList[i] : i \in DOMAIN reserveList}
  <2>1. SUFFICES ASSUME NEW p \in Place, NEW i \in DOMAIN Held[p]
                 PROVE  Held[p][i] \in {reserveList[j] : j \in DOMAIN reserveList}
    BY HeldFacts DEF Carried
  <2>2. DOMAIN <<>> = {}
    OBVIOUS
  <2>3. p = "reserveList"
    BY <1>5, <2>2 DEF Place
  <2>4. QED
    BY <1>5, <2>3
<1>7. allocated' = {}
  BY <1>1, <1>6 DEF OneOwner, ToSet
<1>8. Cleared(Held, Held', "reserveList")
  BY ONLY <1>5, <1>6, HeldFacts DEF Cleared, Place
<1>9. QED
  BY <1>7, <1>8

\* startBuffers allocates the first buffer and the reserve.
LEMMA StartEffect ==
  ASSUME TypeOK', CurrentAt', ControlAt, StartBuffers, cPc' = "adding"
  PROVE  OneOwner'
<1>1. /\ currentBuffer' = 1 /\ reserveList' = [i \in 1 .. ReserveSize |-> i + 1]
      /\ allocated' = 1 .. ReserveSize + 1 /\ wHand' = wHand /\ writeQ' = <<>>
      /\ wPc = "off" /\ wPc' = "check"
  BY DEF StartBuffers, ControlAt
<1>2. wHand' = <<>>
  <2>1. Len(wHand') = 0 /\ wHand' \in Seq(Entry)
    BY <1>1 DEF ControlAt, TypeOK
  <2>2. QED
    BY <2>1, EmptySeq
<1>3. Bufs(<<>>) = <<>>
  BY DEF Bufs
<1> DEFINE l == [i \in 1 .. ReserveSize |-> i + 1]
<1>4. /\ Held'["currentBuffer"] = <<1>> /\ Held'["reserveList"] = l
      /\ Held'["writeQ"] = <<>> /\ Held'["wHand"] = <<>> /\ DOMAIN Held' = Place
  BY <1>1, <1>2, <1>3, HeldNext, CurrentNext
<1>5. /\ ReserveSize \in Nat /\ DOMAIN l = 1 .. ReserveSize
      /\ \A i \in DOMAIN l : l[i] = i + 1
  BY WriterAssumption
<1>6. DOMAIN <<1>> = {1} /\ <<1>>[1] = 1 /\ DOMAIN <<>> = {}
  OBVIOUS
<1> HIDE DEF l
<1>7. Apart(Held')
  <2>1. SUFFICES ASSUME NEW p \in Place, NEW q \in Place,
                        NEW i \in DOMAIN Held'[p], NEW j \in DOMAIN Held'[q],
                        Held'[p][i] = Held'[q][j]
                 PROVE  p = q /\ i = j
    BY <1>4 DEF Apart
  <2>2. p \in {"currentBuffer", "reserveList"} /\ q \in {"currentBuffer", "reserveList"}
    BY <1>4, <1>6 DEF Place
  <2>3. QED
    BY <1>4, <1>5, <1>6, <2>1, <2>2
<1>8. Carried(Held') = 1 .. ReserveSize + 1
  <2>1. ASSUME NEW p \in Place, NEW i \in DOMAIN Held'[p]
        PROVE  Held'[p][i] \in 1 .. ReserveSize + 1
    <3>1. p \in {"currentBuffer", "reserveList"}
      BY <1>4, <1>6 DEF Place
    <3>2. QED
      BY <1>4, <1>5, <1>6, <3>1
  <2>2. ASSUME NEW x \in 1 .. ReserveSize + 1
        PROVE  \E p \in Place : \E i \in DOMAIN Held'[p] : x = Held'[p][i]
    <3>1. CASE x = 1
      BY <1>4, <1>6, <3>1 DEF Place
    <3>2. CASE x # 1
      <4>1. x - 1 \in DOMAIN l /\ l[x - 1] = x
        BY <1>5, <3>2
      <4>2. QED
        BY <1>4, <4>1 DEF Place
    <3>3. QED
      BY <3>1, <3>2
  <2>3. QED
    BY <1>4, <2>1, <2>2 DEF Carried
<1>9. QED
  BY <1>1, <1>7, <1>8 DEF OneOwner
-----------------------------------------------------------------------------
(* Control and ownership are preserved *)

\* Every step keeps what is known of the caller and the thread.
LEMMA ControlAtStep ==
  IInv /\ [Next]_vars => ControlAt'
<1>0. SUFFICES ASSUME IInv, [Next]_vars
               PROVE  ControlAt'
  OBVIOUS
<1>a. TypeOK /\ ControlAt /\ CurrentAt /\ OneOwner
  BY <1>0 DEF IInv
<1>b. Len(<<>>) = 0
  OBVIOUS
<1>1. CASE StartBuffers
  BY <1>a, <1>1 DEF StartBuffers, ControlAt
<1>2. CASE AddToBuffer
  BY <1>a, <1>2 DEF AddToBuffer, ControlAt, writerVars
<1>3. CASE AddCycle
  BY <1>a, <1>3 DEF AddCycle, ControlAt, writerVars
<1>4. CASE StopWrites
  BY <1>a, <1>4 DEF StopWrites, ControlAt, writerVars
<1>5. CASE AddInNewBuffer
  BY <1>a, <1>5 DEF AddInNewBuffer, ControlAt, writerVars
<1>6. CASE ClearIncoming \/ NotifyWriter \/ JoinWriter
  BY <1>a, <1>6 DEF ClearIncoming, NotifyWriter, JoinWriter, ControlAt, writerVars
<1>7. CASE Drain
  BY <1>a, <1>7 DEF Drain, ControlAt, writerVars
<1>8. CASE Cleanup
  <2>1. allocated' = {}
    BY <1>a, <1>8, CleanupEffect
  <2>2. QED
    BY <1>a, <1>8, <2>1 DEF Cleanup, ControlAt, writerVars
<1>9. CASE WriterCheck
  BY <1>a, <1>9 DEF WriterCheck, ControlAt, callerVars
<1>10. ASSUME WriterLock \/ WriterNotified \/ WriterSpurious
       PROVE  ControlAt'
  <2>1. /\ UNCHANGED <<callerVars, reserveList, allocated, file>>
        /\ wPc \in {"lock", "waiting"}
    BY <1>10 DEF WriterLock, WriterNotified, WriterSpurious
  <2>2. cPc' \notin {"new", "drain", "stopped", "done"}
    BY <1>a, <2>1 DEF ControlAt, callerVars
  <2>3. Len(wHand') = (IF wPc' \in {"write", "return"} THEN 1 ELSE 0)
    <3>1. CASE TakeEntry /\ writeQ # <<>>
      <4>1. wHand' = <<Head(writeQ)>> /\ wPc' = "write"
        BY <3>1 DEF TakeEntry
      <4>2. QED
        BY <4>1
    <3>2. CASE wHand' = wHand /\ wPc' \in {"waiting", "check"}
      BY <1>a, <2>1, <3>2 DEF ControlAt
    <3>3. QED
      BY <1>10, <3>1, <3>2 DEF WriterLock, WriterNotified, WriterSpurious, TakeEntry
  <2>4. cPc' = "newBuffer" => added' < Len(RecSize)
    BY <1>a, <2>1 DEF ControlAt, callerVars
  <2>5. QED
    BY <2>2, <2>3, <2>4 DEF ControlAt
<1>11. CASE WriterWrite
  BY <1>a, <1>11 DEF WriterWrite, ControlAt, callerVars
<1>12. CASE WriterReturn
  BY <1>a, <1>b, <1>12 DEF WriterReturn, ControlAt, callerVars
<1>13. CASE UNCHANGED vars
  BY <1>a, <1>13 DEF vars, callerVars, writerVars, ControlAt
<1>14. QED
  BY <1>0, <1>1, <1>2, <1>3, <1>4, <1>5, <1>6, <1>7, <1>8, <1>9, <1>10, <1>11,
     <1>12, <1>13 DEF Next, Caller, Stopping, Writer

\* A buffer that goes from one owner to another has one owner.
LEMMA MovedKeeps ==
  ASSUME TypeOK, TypeOK', CurrentAt, CurrentAt', OneOwner, allocated' = allocated,
         NEW p \in Place, NEW q \in Place,
         Held' = Held \/ Moved(Held, Held', p, q)
  PROVE  OneOwner'
<1>1. Held \in Fillings(Place, Buffer) /\ Held' \in Fillings(Place, Buffer)
  BY HeldType, HeldTypeNext
<1>2. Apart(Held) /\ Carried(Held) = allocated
  BY DEF OneOwner
<1>3. CASE Held' = Held
  BY <1>2, <1>3 DEF OneOwner
<1>4. CASE Moved(Held, Held', p, q)
  BY <1>1, <1>2, <1>4, MoveKeeps DEF OneOwner
<1>5. QED
  BY <1>3, <1>4

\* Every step leaves each allocated buffer with one owner.
LEMMA OneOwnerStep ==
  IInv /\ [Next]_vars => OneOwner'
<1>0. SUFFICES ASSUME IInv, [Next]_vars
               PROVE  OneOwner'
  OBVIOUS
<1>a. /\ TypeOK /\ ControlAt /\ CurrentAt /\ OneOwner
      /\ TypeOK' /\ ControlAt' /\ CurrentAt'
  BY <1>0, TypeStep, CurrentAtStep, ControlAtStep DEF IInv
<1>b. /\ "currentBuffer" \in Place /\ "reserveList" \in Place
      /\ "writeQ" \in Place /\ "wHand" \in Place
  BY DEF Place
<1>c. /\ Held \in Fillings(Place, Buffer) /\ Held' \in Fillings(Place, Buffer)
      /\ Apart(Held) /\ Carried(Held) = allocated
  BY <1>a, HeldType, HeldTypeNext DEF OneOwner
<1>d. ASSUME UNCHANGED <<reserveList, writeQ, wHand, allocated>>, Current' = Current
      PROVE  OneOwner'
  <2>1. Held' = Held
    BY <1>d DEF Held, HeldAt
  <2>2. QED
    BY <1>c, <1>d, <2>1 DEF OneOwner
<1>1. CASE StartBuffers
  <2>1. CASE cPc' = "adding"
    BY <1>1, <1>a, <2>1, StartEffect
  <2>2. CASE cPc' # "adding"
    <3>1. UNCHANGED <<reserveList, writeQ, wHand, allocated>> /\ cPc = "new"
      BY <1>1, <2>2 DEF StartBuffers
    <3>2. Current = <<>> /\ Current' = <<>>
      BY <2>2, <3>1 DEF Current
    <3>3. QED
      BY <1>d, <3>1, <3>2
  <2>3. QED
    BY <2>1, <2>2
<1>2. CASE AddToBuffer
  <2>1. /\ UNCHANGED <<reserveList, writeQ, wHand, allocated, currentBuffer>>
        /\ cPc = "adding" /\ cPc' = "adding"
    BY <1>2 DEF AddToBuffer, writerVars
  <2>2. Bufs(Current) = <<currentBuffer>> /\ Bufs(Current') = <<currentBuffer>>
    BY <1>a, <2>1, CurrentFacts, CurrentNext
  <2>3. Held' = Held
    BY <2>1, <2>2 DEF Held, HeldAt
  <2>4. QED
    BY <1>c, <2>1, <2>3 DEF OneOwner
<1>3. CASE AddCycle \/ StopWrites
  <2>1. allocated' = allocated
    BY <1>3 DEF AddCycle, StopWrites
  <2>2. QED
    BY <1>3, <1>a, <1>b, <2>1, QueueEffect, MovedKeeps
<1>4. CASE AddInNewBuffer
  <2>1. CASE /\ Moved(Held, Held', "reserveList", "currentBuffer")
             /\ allocated' = allocated
    BY <1>a, <1>b, <2>1, MovedKeeps
  <2>2. CASE /\ Pushed(Held, Held', "currentBuffer", currentBuffer')
             /\ currentBuffer' \in Buffer \ allocated
             /\ allocated' = allocated \cup {currentBuffer'}
    <3>1. PICK b \in Buffer : b = currentBuffer'
      BY <2>2
    <3>2. Apart(Held') /\ Carried(Held') = Carried(Held) \cup {b}
      BY <1>b, <1>c, <2>2, <3>1, PushKeeps
    <3>3. QED
      BY <1>c, <2>2, <3>1, <3>2 DEF OneOwner
  <2>3. QED
    BY <1>4, <1>a, <2>1, <2>2, NewEffect
<1>5. CASE Drain
  <2>1. allocated' = allocated
    BY <1>5 DEF Drain
  <2>2. QED
    BY <1>5, <1>a, <1>b, <2>1, DrainEffect, MovedKeeps
<1>6. CASE Cleanup
  <2>1. Cleared(Held, Held', "reserveList") /\ allocated' = {}
    BY <1>6, <1>a, CleanupEffect
  <2>2. Apart(Held') /\ Carried(Held') = {}
    BY <1>b, <1>c, <2>1, ClearKeeps
  <2>3. QED
    BY <2>1, <2>2 DEF OneOwner
<1>7. CASE WriterLock \/ WriterNotified \/ WriterSpurious
  <2>1. /\ UNCHANGED <<callerVars, reserveList, allocated>>
        /\ wPc # "write" /\ wPc # "return"
        /\ TakeEntry \/ UNCHANGED <<wHand, writeQ>>
    BY <1>7 DEF WriterLock, WriterNotified, WriterSpurious
  <2>2. CASE TakeEntry
    BY <1>a, <1>b, <2>1, <2>2, TakeEffect, MovedKeeps
  <2>3. CASE UNCHANGED <<wHand, writeQ>>
    <3>1. Current' = Current
      BY <2>1 DEF Current, callerVars
    <3>2. QED
      BY <1>d, <2>1, <2>3, <3>1
  <2>4. QED
    BY <2>1, <2>2, <2>3
<1>8. CASE WriterReturn
  <2>1. allocated' = allocated
    BY <1>8 DEF WriterReturn
  <2>2. QED
    BY <1>8, <1>a, <1>b, <2>1, ReturnEffect, MovedKeeps
<1>9. CASE ClearIncoming \/ NotifyWriter \/ JoinWriter \/ WriterCheck \/ WriterWrite
           \/ UNCHANGED vars
  <2>1. UNCHANGED <<reserveList, writeQ, wHand, allocated>> /\ Current' = Current
    BY <1>9 DEF ClearIncoming, NotifyWriter, JoinWriter, WriterCheck, WriterWrite,
                vars, callerVars, writerVars, Current
  <2>2. QED
    BY <1>d, <2>1
<1>10. QED
  BY <1>0, <1>1, <1>2, <1>3, <1>4, <1>5, <1>6, <1>7, <1>8, <1>9
  DEF Next, Caller, Stopping, Writer
-----------------------------------------------------------------------------
(* The records stay in order *)

\* The entries to be written are those of the queue and of the thread's hand.
LEMMA PendingElements ==
  ASSUME TypeOK, ControlAt, NEW i \in DOMAIN Pending
  PROVE  \/ wPc = "write" /\ Pending[i] = Head(wHand)
         \/ \E j \in DOMAIN writeQ : Pending[i] = writeQ[j]
<1>1. CASE wPc = "write"
  <2>1. /\ Pending \in Seq(Entry) /\ Pending # <<>>
        /\ Head(Pending) = Head(wHand) /\ Tail(Pending) = writeQ
    BY <1>1, PendingIs
  <2> DEFINE q == Pending
  <2>2. q \in Seq(Entry) /\ q # <<>> /\ i \in DOMAIN q
    BY <2>1
  <2>3. Head(q) = Head(wHand) /\ Tail(q) = writeQ
    BY <2>1
  <2> HIDE DEF q
  <2>4. /\ Head(q) = q[1] /\ Len(q) \in Nat /\ DOMAIN q = 1 .. Len(q)
        /\ DOMAIN Tail(q) = 1 .. Len(q) - 1
        /\ \A j \in DOMAIN Tail(q) : Tail(q)[j] = q[j + 1]
    BY ONLY <2>2, TailFacts
  <2>5. CASE i = 1
    BY <1>1, <2>3, <2>4, <2>5 DEF q
  <2>6. CASE i # 1
    <3>1. i - 1 \in DOMAIN Tail(q) /\ (i - 1) + 1 = i
      BY ONLY <2>2, <2>4, <2>6
    <3>2. i - 1 \in DOMAIN writeQ /\ writeQ[i - 1] = q[i]
      BY ONLY <2>3, <2>4, <3>1
    <3>3. QED
      BY <3>2 DEF q
  <2>7. QED
    BY <2>5, <2>6
<1>2. CASE wPc # "write"
  BY <1>2, PendingIs
<1>3. QED
  BY <1>1, <1>2

\* No entry to be written is of the current buffer or of a spare one.
LEMMA PendingOwned ==
  ASSUME TypeOK, ControlAt, CurrentAt, OneOwner, NEW i \in DOMAIN Pending
  PROVE  /\ Pending[i].buf \in allocated
         /\ cPc = "adding" => Pending[i].buf # currentBuffer
         /\ reserveList # <<>> => Pending[i].buf # Head(reserveList)
<1>1. \E p \in {"writeQ", "wHand"} : \E j \in DOMAIN Held[p] : Held[p][j] = Pending[i].buf
  <2>1. CASE wPc = "write" /\ Pending[i] = Head(wHand)
    <3>1. Head(wHand) \in Entry /\ wHand = <<Head(wHand)>>
      BY <2>1, HandFacts
    <3>2. Bufs(wHand) = <<Head(wHand).buf>>
      BY <3>1, BufsOne
    <3>3. 1 \in DOMAIN Bufs(wHand) /\ Bufs(wHand)[1] = Pending[i].buf
      BY <2>1, <3>2
    <3>4. QED
      BY <3>3, HeldFacts
  <2>2. CASE \E j \in DOMAIN writeQ : Pending[i] = writeQ[j]
    <3>1. PICK j \in DOMAIN writeQ : Pending[i] = writeQ[j]
      BY <2>2
    <3>2. writeQ \in Seq(Entry)
      BY DEF TypeOK
    <3>3. j \in DOMAIN Bufs(writeQ) /\ Bufs(writeQ)[j] = Pending[i].buf
      BY <3>1, <3>2, BufsFacts
    <3>4. QED
      BY <3>3, HeldFacts
  <2>3. QED
    BY <2>1, <2>2, PendingElements
<1>2. PICK p \in {"writeQ", "wHand"} : \E j \in DOMAIN Held[p] : Held[p][j] = Pending[i].buf
  BY <1>1
<1>3. PICK j \in DOMAIN Held[p] : Held[p][j] = Pending[i].buf
  BY <1>2
<1>4. /\ DOMAIN Held = Place /\ p \in Place /\ p # "currentBuffer" /\ p # "reserveList"
      /\ "currentBuffer" \in Place /\ "reserveList" \in Place
      /\ Apart(Held) /\ Carried(Held) = allocated
  BY HeldFacts DEF Place, OneOwner
<1>5. Pending[i].buf \in allocated
  BY <1>3, <1>4 DEF Carried
<1>6. ASSUME NEW r \in Place, NEW k \in DOMAIN Held[r], p # r
      PROVE  Held[r][k] # Pending[i].buf
  BY <1>3, <1>4, <1>6 DEF Apart
<1>7. cPc = "adding" => Pending[i].buf # currentBuffer
  <2>1. SUFFICES ASSUME cPc = "adding"
                 PROVE  Pending[i].buf # currentBuffer
    OBVIOUS
  <2>2. Held["currentBuffer"] = <<currentBuffer>>
    BY <2>1, CurrentFacts, HeldFacts
  <2>3. 1 \in DOMAIN Held["currentBuffer"] /\ Held["currentBuffer"][1] = currentBuffer
    BY <2>2
  <2>4. QED
    BY <1>4, <1>6, <2>3
<1>8. reserveList # <<>> => Pending[i].buf # Head(reserveList)
  <2>1. SUFFICES ASSUME reserveList # <<>>
                 PROVE  Pending[i].buf # Head(reserveList)
    OBVIOUS
  <2>2. 1 \in DOMAIN reserveList /\ Head(reserveList) = reserveList[1]
    BY <2>1, TailFacts DEF TypeOK
  <2>3. QED
    BY <1>4, <1>6, <2>2, HeldFacts
<1>9. QED
  BY <1>5, <1>7, <1>8

\* Copying a record to another buffer leaves the entries to be written alone.
LEMMA StoreFrame ==
  ASSUME TypeOK, ControlAt, NEW b, NEW from, NEW to,
         \A i \in DOMAIN Pending : Pending[i].buf # b,
         \A o \in Buffer \ {b} : content'[o] = content[o],
         Chained(Pending, from, to, content)
  PROVE  Chained(Pending, from, to, content')
<1> DEFINE q == Pending
<1>1. q \in Seq(Entry)
  BY PendingIs
<1>2. \A i \in DOMAIN q : q[i].buf # b
  OBVIOUS
<1>3. Chained(q, from, to, content)
  OBVIOUS
<1> HIDE DEF q
<1>4. DOMAIN q = 1 .. Len(q) /\ Len(q) \in Nat /\ (q # <<>> => Len(q) # 0)
  BY <1>1, LenProperties, EmptySeq
<1>5. \A i \in DOMAIN q : q[i].buf \in Buffer
  <2>1. \A i \in DOMAIN q : q[i] \in Entry
    BY <1>1, <1>4, ElementOfSeq
  <2>2. QED
    BY <2>1, EntryFacts
<1>6. \A i \in DOMAIN q : content'[q[i].buf] = content[q[i].buf]
  BY <1>2, <1>5
<1>7. Chained(q, from, to, content')
  BY <1>3, <1>4, <1>6, ChainedFrame
<1>8. QED
  BY <1>7 DEF q

\* What the thread takes from the queue is still to be written, and the first.
LEMMA TakePending ==
  ASSUME TypeOK, ControlAt, TypeOK', ControlAt', wPc \in {"lock", "waiting"},
         TakeEntry
  PROVE  Pending' = Pending
<1>1. Pending = writeQ /\ writeQ \in Seq(Entry)
  BY PendingIs DEF TypeOK
<1>2. CASE writeQ # <<>>
  <2>1. wHand' = <<Head(writeQ)>> /\ writeQ' = Tail(writeQ) /\ wPc' = "write"
    BY <1>2 DEF TakeEntry
  <2>2. Pending' = <<Head(wHand')>> \o writeQ'
    BY <2>1, PendingNext
  <2>3. <<Head(writeQ)>> \o Tail(writeQ) = writeQ
    BY <1>1, <1>2, HeadFirst
  <2>4. Head(wHand') = Head(writeQ)
    BY <2>1
  <2>5. QED
    BY <1>1, <2>1, <2>2, <2>3, <2>4
<1>3. CASE writeQ = <<>>
  <2>1. writeQ' = writeQ /\ wPc' = "check"
    BY <1>3 DEF TakeEntry
  <2>2. QED
    BY <1>1, <2>1, PendingNext
<1>4. QED
  BY <1>2, <1>3

\* A step that changes neither the records nor their order.
LEMMA SameOrder ==
  ASSUME RecordsInOrder, UNCHANGED <<file, added, content>>,
         Pending' = Pending, Current' = Current
  PROVE  RecordsInOrder'
BY DEF RecordsInOrder

\* Every step keeps the records in order.
LEMMA RecordsInOrderStep ==
  IInv /\ [Next]_vars => RecordsInOrder'
<1>0. SUFFICES ASSUME IInv, [Next]_vars
               PROVE  RecordsInOrder'
  OBVIOUS
<1>a. /\ TypeOK /\ ControlAt /\ CurrentAt /\ OneOwner /\ RecordsInOrder
      /\ TypeOK' /\ ControlAt' /\ CurrentAt'
  BY <1>0, TypeStep, CurrentAtStep, ControlAtStep DEF IInv
<1>b. /\ file = [i \in 1 .. Len(file) |-> i]
      /\ Chained(Pending, Len(file), End, content)
      /\ cPc = "adding" => /\ Cur \in Entry /\ Whole(Cur, content)
                           /\ added = Through(Cur, content)
  BY <1>a, OrderIs DEF End
<1>c. Pending \in Seq(Entry)
  BY <1>a, PendingIs
<1>1. CASE StartBuffers
  <2>1. /\ Len(file') = 0 /\ file' = <<>> /\ added' = 0 /\ recs' = 0 /\ writeQ' = <<>>
        /\ wPc' # "write" /\ content' = content
    <3>1. Len(<<>>) = 0
      OBVIOUS
    <3>2. QED
      BY <1>a, <1>1, <3>1 DEF StartBuffers, ControlAt
  <2>2. file' = [i \in 1 .. Len(file') |-> i]
    BY <2>1
  <2>3. Pending' = <<>>
    BY <1>a, <2>1, PendingNext
  <2>4. CASE cPc' = "adding"
    <3>1. Cur' \in Entry /\ Cur'.n = 0 /\ Cur'.buf \in Buffer
      <4>1. Cur' \in Entry
        BY <1>a, <2>4, CurrentNext
      <4>2. Cur'.n = 0
        BY <2>1 DEF Cur
      <4>3. QED
        BY <4>1, <4>2 DEF Entry
    <3>2. content'[Cur'.buf] \in Seq(Copy)
      BY <1>a, <3>1 DEF TypeOK
    <3>3. 0 <= Len(content'[Cur'.buf])
      BY <3>2, LenProperties
    <3>4. /\ Whole(Cur', content') /\ Before(Cur', content') = 0
          /\ Through(Cur', content') = 0
      BY ONLY <3>1, <3>3 DEF Whole, Before, Through
    <3>5. Chained(Pending', Len(file'), Before(Cur', content'), content')
      BY <2>1, <2>3, <3>4, ChainedNil
    <3>6. QED
      BY <1>a, <2>1, <2>2, <2>4, <3>1, <3>4, <3>5, OrderNext
  <2>5. CASE cPc' # "adding"
    <3>1. Chained(Pending', Len(file'), added', content')
      BY <2>1, <2>3, ChainedNil
    <3>2. QED
      BY <1>a, <2>2, <2>5, <3>1, OrderNext
  <2>6. QED
    BY <2>4, <2>5
<1>2. CASE AddToBuffer
  <2>1. /\ cPc = "adding" /\ cPc' = "adding" /\ currentBuffer' = currentBuffer
        /\ UNCHANGED <<wPc, wHand, writeQ, file>>
    BY <1>2 DEF AddToBuffer, writerVars
  <2>2. /\ currentBuffer \in Buffer /\ recs \in Nat /\ currentPos \in Nat
        /\ Store(currentBuffer, recs, currentPos)
        /\ recs <= Len(content[currentBuffer])
        /\ added < Len(RecSize) /\ currentPos + RecSize[added + 1] <= BufferSize
    BY <1>a, <1>2, AddFacts
  <2>3. /\ added' = added + 1 /\ added + 1 \in Record /\ recs' = recs + 1
        /\ \A o \in Buffer \ {currentBuffer} : content'[o] = content[o]
        /\ content'[currentBuffer] =
             Append(SubSeq(content[currentBuffer], 1, recs),
                    [rec |-> added + 1, at |-> currentPos])
    BY <1>a, <2>2, StoreType
  <2>4. added \in Nat /\ content[currentBuffer] \in Seq(Copy)
    BY <1>a, <2>2 DEF TypeOK
  <2>5. /\ Whole([buf |-> currentBuffer, n |-> recs], content)
        /\ Through([buf |-> currentBuffer, n |-> recs], content) = added
    BY <1>b, <2>1 DEF Cur
  <2>6. /\ Whole(Cur', content') /\ Through(Cur', content') = added'
        /\ Before(Cur', content') = IF recs = 0 THEN added ELSE Before(Cur, content)
    <3>1. /\ Cur \in Entry /\ Cur' \in Entry /\ Cur.buf = currentBuffer /\ Cur.n = recs
          /\ Cur'.buf = currentBuffer /\ Cur'.n = recs + 1
      BY <1>a, <2>1, <2>3, CurrentFacts, CurrentNext DEF Cur
    <3>2. PICK e \in Entry : e = Cur'
      BY <3>1
    <3>3. \E k : k = content'
      OBVIOUS
    <3>4. PICK k : k = content'
      BY <3>3
    <3>5. /\ e.buf = Cur.buf /\ e.n = Cur.n + 1 /\ Cur \in Entry
          /\ currentPos \in Nat /\ added \in Nat /\ added + 1 \in Record
          /\ content[Cur.buf] \in Seq(Copy)
          /\ Cur.n # 0 => Whole(Cur, content) /\ Through(Cur, content) = added
          /\ k[Cur.buf] = Append(SubSeq(content[Cur.buf], 1, Cur.n),
                                 [rec |-> added + 1, at |-> currentPos])
      BY <1>b, <2>1, <2>2, <2>3, <2>4, <3>1, <3>2, <3>4
    <3>6. /\ Whole(e, k) /\ Through(e, k) = added + 1
          /\ Before(e, k) = IF Cur.n = 0 THEN added ELSE Before(Cur, content)
      BY ONLY <3>5, StoredEntry, ZenonT(40)
    <3>7. QED
      BY <2>3, <3>1, <3>2, <3>4, <3>6
  <2>7. Before(Cur', content') = Before(Cur, content)
    <3>1. CASE recs = 0
      <4>1. Before(Cur, content) = 0 /\ Through(Cur, content) = 0
        BY <3>1 DEF Cur, Before, Through
      <4>2. QED
        BY <1>b, <2>1, <2>6, <3>1, <4>1
    <3>2. CASE recs # 0
      BY <2>6, <3>2
    <3>3. QED
      BY <3>1, <3>2
  <2>8. Whole(Cur', content') /\ Through(Cur', content') = added'
    BY <2>6
  <2>9. Pending' = Pending
    BY <2>1 DEF Pending
  <2>10. Chained(Pending, Len(file), Before(Cur, content), content')
    <3>1. Chained(Pending, Len(file), Before(Cur, content), content)
      BY <1>b, <2>1 DEF End
    <3>2. \A i \in DOMAIN Pending : Pending[i].buf # currentBuffer
      BY <1>a, <2>1, PendingOwned
    <3>3. QED
      BY <1>a, <2>3, <3>1, <3>2, StoreFrame
  <2>11. Cur' \in Entry
    BY <1>a, <2>1, CurrentNext
  <2>12. QED
    BY <1>a, <1>b, <2>1, <2>7, <2>8, <2>9, <2>10, <2>11, OrderNext
<1>3. CASE AddCycle \/ StopWrites
  <2>1. /\ cPc = "adding" /\ cPc' # "adding" /\ writeQ' = Append(writeQ, Cur)
        /\ UNCHANGED <<wPc, wHand, file, added, content>>
    BY <1>3 DEF AddCycle, StopWrites, QueueCurrent, Enqueue, Cur, writerVars
  <2>2. Cur \in Entry /\ writeQ \in Seq(Entry)
    BY <1>a, <1>b, <2>1 DEF TypeOK
  <2>3. Pending' = Append(Pending, Cur)
    <3>1. CASE wPc = "write"
      <4>1. /\ Head(wHand) \in Entry
            /\ Pending = <<Head(wHand)>> \o writeQ
        BY <1>a, <3>1, PendingIs
      <4>2. Pending' = <<Head(wHand)>> \o Append(writeQ, Cur)
        BY <1>a, <2>1, <3>1, PendingNext
      <4>3. Append(<<Head(wHand)>> \o writeQ, Cur) = <<Head(wHand)>> \o Append(writeQ, Cur)
        BY <2>2, <4>1, PutFirst
      <4>4. QED
        BY <4>1, <4>2, <4>3
    <3>2. CASE wPc # "write"
      BY <1>a, <2>1, <3>2, PendingIs, PendingNext
    <3>3. QED
      BY <3>1, <3>2
  <2>4. Chained(Append(Pending, Cur), Len(file), added, content)
    <3>1. Chained(Pending, Len(file), Before(Cur, content), content)
      BY <1>b, <2>1 DEF End
    <3>2. QED
      BY <1>b, <1>c, <2>1, <3>1, ChainedAppend
  <2>5. QED
    BY <1>a, <1>b, <2>1, <2>3, <2>4, OrderNext
<1>4. CASE AddInNewBuffer
  <2>1. /\ cPc = "newBuffer" /\ cPc' = "adding" /\ UNCHANGED <<wPc, wHand, writeQ, file>>
    BY <1>4 DEF AddInNewBuffer, writerVars
  <2>2. PICK b \in Buffer : b = currentBuffer'
    BY <1>a, <1>4, NewFacts
  <2>3. /\ Store(b, 0, 0) /\ 0 <= Len(content[b])
        /\ added < Len(RecSize) /\ 0 + RecSize[added + 1] <= BufferSize
    BY <1>a, <1>4, <2>2, NewFacts
  <2>4. /\ added' = added + 1 /\ added + 1 \in Record /\ recs' = 0 + 1
        /\ \A o \in Buffer \ {b} : content'[o] = content[o]
        /\ content'[b] = Append(SubSeq(content[b], 1, 0), [rec |-> added + 1, at |-> 0])
    BY <1>a, <2>3, StoreType
  <2>5. added \in Nat /\ content[b] \in Seq(Copy)
    BY <1>a DEF TypeOK
  <2>6. PICK d \in Entry : d.buf = b /\ d.n = 0
    <3>1. [buf |-> b, n |-> 0] \in Entry
      BY DEF Entry
    <3>2. QED
      BY <3>1
  <2>7. /\ Whole(Cur', content') /\ Through(Cur', content') = added'
        /\ Before(Cur', content') = added
    <3>1. Cur' \in Entry /\ Cur'.buf = b /\ Cur'.n = 0 + 1
      BY <1>a, <2>1, <2>2, <2>4, CurrentNext DEF Cur
    <3>2. PICK e \in Entry : e = Cur'
      BY <3>1
    <3>3. \E k : k = content'
      OBVIOUS
    <3>4. PICK k : k = content'
      BY <3>3
    <3>5. /\ e.buf = d.buf /\ e.n = d.n + 1
          /\ added \in Nat /\ added + 1 \in Record
          /\ content[d.buf] \in Seq(Copy) /\ 0 \in Nat /\ d.n = 0
          /\ k[d.buf] = Append(SubSeq(content[d.buf], 1, d.n),
                               [rec |-> added + 1, at |-> 0])
      BY <2>4, <2>5, <2>6, <3>1, <3>2, <3>4
    <3>6. /\ Whole(e, k) /\ Through(e, k) = added + 1
          /\ Before(e, k) = IF d.n = 0 THEN added ELSE Before(d, content)
      BY ONLY <3>5, StoredEntry, ZenonT(40)
    <3>7. QED
      BY <2>4, <3>2, <3>4, <3>5, <3>6
  <2>8. Pending' = Pending
    BY <2>1 DEF Pending
  <2>9. \A i \in DOMAIN Pending : Pending[i].buf # b
    <3>1. \A i \in DOMAIN Pending :
            /\ Pending[i].buf \in allocated
            /\ reserveList # <<>> => Pending[i].buf # Head(reserveList)
      BY <1>a, PendingOwned
    <3>2. (reserveList # <<>> /\ b = Head(reserveList)) \/ b \notin allocated
      BY <1>4, <2>2 DEF AddInNewBuffer, GetNewBuffer
    <3>3. QED
      BY <3>1, <3>2
  <2>10. Chained(Pending, Len(file), added, content')
    <3>1. Chained(Pending, Len(file), added, content)
      BY <1>b, <2>1 DEF End
    <3>2. QED
      BY <1>a, <2>4, <2>9, <3>1, StoreFrame
  <2>11. Cur' \in Entry
    BY <1>a, <2>1, CurrentNext
  <2>12. QED
    BY <1>a, <1>b, <2>1, <2>7, <2>8, <2>10, <2>11, OrderNext
<1>5. CASE Drain
  <2>1. CASE writeQ # <<>>
    <3>1. /\ wPc = "exited" /\ wPc' = "exited" /\ cPc = "drain" /\ cPc' = "drain"
          /\ file' = file \o Data(Head(writeQ)) /\ writeQ' = Tail(writeQ)
          /\ UNCHANGED <<added, content>>
      BY <1>a, <1>5, <2>1 DEF Drain, ControlAt, writerVars
    <3>2. /\ Head(writeQ) \in Entry /\ Whole(Head(writeQ), content)
          /\ Before(Head(writeQ), content) = Len(file)
          /\ Chained(Tail(writeQ), Through(Head(writeQ), content), added, content)
      BY <1>0, <2>1, <3>1, NextEntry DEF End
    <3>3. /\ Len(file') = Through(Head(writeQ), content)
          /\ file' = [i \in 1 .. Len(file') |-> i]
      BY <1>a, <1>b, <3>1, <3>2, WriteFacts
    <3>4. Pending' = Tail(writeQ)
      BY <1>a, <3>1, PendingNext
    <3>5. QED
      BY <1>a, <3>1, <3>2, <3>3, <3>4, OrderNext
  <2>2. CASE writeQ = <<>>
    <3>1. Pending' = Pending /\ Current' = Current /\ UNCHANGED <<file, added, content>>
      BY <1>5, <2>2 DEF Drain, writerVars, Pending, Current
    <3>2. QED
      BY <1>a, <3>1, SameOrder
  <2>3. QED
    BY <2>1, <2>2
<1>6. CASE WriterWrite
  <2>1. /\ wPc = "write" /\ wPc' = "return" /\ UNCHANGED <<callerVars, writeQ, content>>
        /\ file' = file \o Data(Head(wHand))
    BY <1>6 DEF WriterWrite
  <2>2. /\ Head(wHand) \in Entry /\ Whole(Head(wHand), content)
        /\ Before(Head(wHand), content) = Len(file)
        /\ Chained(writeQ, Through(Head(wHand), content), End, content)
    BY <1>0, <2>1, NextEntry
  <2>3. /\ Len(file') = Through(Head(wHand), content)
        /\ file' = [i \in 1 .. Len(file') |-> i]
    BY <1>a, <1>b, <2>1, <2>2, WriteFacts
  <2>4. Pending' = writeQ
    BY <1>a, <2>1, PendingNext
  <2>5. cPc' = cPc /\ added' = added /\ Cur' = Cur
    BY <2>1 DEF callerVars, Cur
  <2>6. QED
    BY <1>a, <1>b, <2>1, <2>2, <2>3, <2>4, <2>5, OrderNext DEF End
<1>7. CASE WriterLock \/ WriterNotified \/ WriterSpurious
  <2>1. /\ UNCHANGED <<callerVars, content, file>> /\ wPc \in {"lock", "waiting"}
        /\ TakeEntry \/ (wPc' = "waiting" /\ UNCHANGED <<wHand, writeQ>>)
    BY <1>7 DEF WriterLock, WriterNotified, WriterSpurious
  <2>2. Current' = Current /\ UNCHANGED <<file, added, content>>
    BY <2>1 DEF Current, callerVars
  <2>3. CASE TakeEntry
    BY <1>a, <2>1, <2>2, <2>3, TakePending, SameOrder
  <2>4. CASE wPc' = "waiting" /\ UNCHANGED <<wHand, writeQ>>
    <3>1. Pending' = Pending
      BY <2>1, <2>4 DEF Pending
    <3>2. QED
      BY <1>a, <2>2, <3>1, SameOrder
  <2>5. QED
    BY <2>1, <2>3, <2>4
<1>8. CASE ClearIncoming \/ NotifyWriter \/ JoinWriter \/ Cleanup \/ UNCHANGED vars
  <2>1. Pending' = Pending /\ Current' = Current /\ UNCHANGED <<file, added, content>>
    BY <1>8 DEF ClearIncoming, NotifyWriter, JoinWriter, Cleanup, vars, callerVars,
                writerVars, Pending, Current
  <2>2. QED
    BY <1>a, <2>1, SameOrder
<1>9. CASE WriterCheck \/ WriterReturn
  <2>1. /\ wPc # "write" /\ wPc' # "write"
        /\ UNCHANGED <<callerVars, writeQ, content, file>>
    BY <1>9 DEF WriterCheck, WriterReturn
  <2>2. Current' = Current /\ UNCHANGED <<file, added, content>>
    BY <2>1 DEF Current, callerVars
  <2>3. Pending' = Pending
    BY <1>a, <2>1, PendingIs, PendingNext
  <2>4. QED
    BY <1>a, <2>2, <2>3, SameOrder
<1>10. QED
  BY <1>0, <1>1, <1>2, <1>3, <1>4, <1>5, <1>6, <1>7, <1>8, <1>9
  DEF Next, Caller, Stopping, Writer
-----------------------------------------------------------------------------
(* The theorems *)

\* The inductive invariant holds at the start.
LEMMA InitInv ==
  Init => IInv
<1>0. SUFFICES ASSUME Init
               PROVE  IInv
  OBVIOUS
<1>a. Len(<<>>) = 0
  OBVIOUS
<1>1. TypeOK
  <2>1. /\ <<>> \in Seq(Entry) /\ <<>> \in Seq(Buffer) /\ <<>> \in Seq(Record)
        /\ <<>> \in Seq(Copy)
    OBVIOUS
  <2>2. content \in [Buffer -> Seq(Copy)]
    BY <1>0, <2>1 DEF Init
  <2>3. 0 \in 0 .. Len(RecSize) /\ 0 \in 0 .. BufferSize
    BY WriterAssumption, LenProperties
  <2>4. QED
    BY <1>0, <2>1, <2>2, <2>3 DEF Init, TypeOK
<1>2. CurrentAt
  BY <1>0 DEF Init, CurrentAt
<1>3. ControlAt
  BY <1>0, <1>a DEF Init, ControlAt
<1>4. Fits
  BY <1>0 DEF Init, Fits
<1>5. OneOwner
  <2>1. Current = <<>> /\ Bufs(<<>>) = <<>>
    BY <1>0 DEF Init, Current, Bufs
  <2>2. \A p \in Place : Held[p] = <<>>
    BY <1>0, <2>1, HeldFacts DEF Init, Place
  <2>3. DOMAIN Held = Place /\ DOMAIN <<>> = {}
    BY HeldFacts
  <2>4. Apart(Held) /\ Carried(Held) = {}
    BY <2>2, <2>3 DEF Apart, Carried
  <2>5. QED
    BY <1>0, <2>4 DEF Init, OneOwner
<1>6. RecordsInOrder
  <2>1. Pending = <<>> /\ writeQ = <<>>
    BY <1>0, <1>1, <1>3, PendingIs DEF Init
  <2>2. file = [i \in 1 .. Len(file) |-> i] /\ Len(file) = 0
    BY <1>0, <1>a DEF Init
  <2>3. Chained(Pending, Len(file), added, content) /\ cPc # "adding"
    BY <1>0, <2>1, <2>2, ChainedNil DEF Init
  <2>4. QED
    BY <1>1, <1>2, <1>3, <2>2, <2>3, OrderIs
<1>7. QED
  BY <1>1, <1>2, <1>3, <1>4, <1>5, <1>6 DEF IInv

\* The inductive invariant holds in every state: types and sizes, one owner
\* for each buffer, no record past the end of a buffer, the caller behind the
\* last record, and the records in order.
THEOREM Invariance ==
  Spec => []IInv
<1>1. Init => IInv
  BY InitInv
<1>2. IInv /\ [Next]_vars => IInv'
  BY TypeStep, OneOwnerStep, FitsStep, CurrentAtStep, ControlAtStep,
     RecordsInOrderStep DEF IInv
<1>3. QED
  BY <1>1, <1>2, PTL DEF Spec

\* At every moment the file, the buffer that is being written, the queue and
\* the current buffer hold the records that were added, in order: the recycling
\* of buffers by addToBuffer and writeBuffers loses, repeats or mixes up none.
THEOREM NothingLostOrReordered ==
  Spec => []RecordsInOrder
<1>1. IInv => RecordsInOrder
  BY DEF IInv
<1>2. QED
  BY Invariance, <1>1, PTL

\* When stopWrites has returned the file is complete, and when cleanup has, no
\* buffer is left allocated.
THEOREM StoppedComplete ==
  Spec => []Complete
<1>1. ASSUME IInv
      PROVE  Complete
  <2>1. TypeOK /\ ControlAt /\ CurrentAt /\ RecordsInOrder
    BY <1>1 DEF IInv
  <2>2. ASSUME cPc = "stopped"
        PROVE  file = [i \in 1 .. added |-> i]
    <3>1. wPc = "exited" /\ writeQ = <<>>
      BY <2>1, <2>2 DEF ControlAt
    <3>2. Pending = <<>>
      BY <2>1, <3>1, PendingIs
    <3>3. /\ file = [i \in 1 .. Len(file) |-> i]
          /\ Chained(Pending, Len(file), added, content)
      BY <2>1, <2>2, OrderIs
    <3>4. Len(file) = added
      BY <3>2, <3>3, ChainedNil
    <3>5. QED
      BY <3>3, <3>4
  <2>3. cPc = "done" => allocated = {} /\ writeQ = <<>>
    BY <2>1 DEF ControlAt
  <2>4. QED
    BY <2>2, <2>3 DEF Complete
<1>2. QED
  BY Invariance, <1>1, PTL
=============================================================================
