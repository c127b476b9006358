----------------------------- MODULE Wire_proofs -----------------------------
(***************************************************************************)
(* The safety properties of Wire, for every list of tasks, every size of   *)
(* the buffer and of a byte, and any number of cuts.                       *)
(***************************************************************************)
EXTENDS Wire, QueueLemmas

-----------------------------------------------------------------------------
(* Recursion and induction over an interval *)

\* Induction from 0 to m.
LEMMA Induct ==
  ASSUME NEW m \in Nat, NEW P, 0 \in P, \A i \in 0 .. m - 1 : i \in P => i + 1 \in P
  PROVE  0 .. m \subseteq P
<1> DEFINE N == {i \in 0 .. m : i \notin P}
<1>1. SUFFICES ASSUME N # {}
               PROVE  FALSE
  OBVIOUS
<1>2. PICK x \in N : \A y \in N : x <= y
  <2>1. N \subseteq Nat
    OBVIOUS
  <2> HIDE DEF N
  <2>2. QED
    BY <1>1, <2>1, LeastNat
<1>3. x \in 1 .. m /\ x \notin P
  BY <1>2
<1>4. x - 1 \in 0 .. m - 1 /\ (x - 1) + 1 = x /\ ~ (x <= x - 1)
  BY <1>3
<1>5. x - 1 \notin N
  BY <1>2, <1>4
<1>6. QED
  BY <1>3, <1>4, <1>5

\* The value of f at 0 is e and every other one follows from the one before.
Follows(f, m, e, G) ==
  f[0] = e /\ \A i \in 1 .. m : f[i] = G[<<i, f[i - 1]>>]

\* There is such a function.
LEMMA Recursion ==
  ASSUME NEW m \in Nat, NEW S, NEW e \in S, NEW G \in [(1 .. m) \X S -> S]
  PROVE  \E f \in [0 .. m -> S] : Follows(f, m, e, G)
<1> DEFINE Steps(f, n) == f[0] = e /\ \A i \in 1 .. n : f[i] = G[<<i, f[i - 1]>>]
           P == {n \in 0 .. m : \E f \in [0 .. n -> S] : Steps(f, n)}
<1>1. 0 \in P
  <2>1. [i \in 0 .. 0 |-> e] \in [0 .. 0 -> S] /\ Steps([i \in 0 .. 0 |-> e], 0)
    OBVIOUS
  <2>2. 0 \in 0 .. m
    OBVIOUS
  <2> HIDE DEF Steps
  <2>3. QED
    BY <2>1, <2>2
<1>2. ASSUME NEW n \in 0 .. m - 1, n \in P
      PROVE  n + 1 \in P
  <2>1. PICK f \in [0 .. n -> S] : Steps(f, n)
    BY <1>2
  <2> DEFINE v == G[<<n + 1, f[n]>>]
             g == [i \in 0 .. n + 1 |-> IF i <= n THEN f[i] ELSE v]
  <2>2. n \in Nat /\ n + 1 \in 1 .. m /\ f[n] \in S
    OBVIOUS
  <2>3. v \in S
    BY <2>2
  <2> HIDE DEF v
  <2>4. g \in [0 .. n + 1 -> S]
    BY <2>3
  <2>5. g[0] = e /\ \A i \in 1 .. n : g[i] = G[<<i, g[i - 1]>>]
    BY <2>1
  <2>6. g[n + 1] = v /\ g[n] = f[n] /\ (n + 1) - 1 = n
    BY <2>2
  <2>7. \A i \in 1 .. n + 1 : g[i] = G[<<i, g[i - 1]>>]
    <3>1. \A i \in 1 .. n + 1 : i \in 1 .. n \/ i = n + 1
      OBVIOUS
    <3>2. g[n + 1] = G[<<n + 1, g[(n + 1) - 1]>>]
      BY <2>6 DEF v
    <3> HIDE DEF g
    <3>3. QED
      BY ONLY <3>1, <3>2, <2>5
  <2> HIDE DEF g
  <2>8. QED
    BY <2>2, <2>4, <2>5, <2>7
<1>3. 0 .. m \subseteq P
  <2> HIDE DEF P
  <2>1. QED
    BY <1>1, <1>2, Induct
<1>4. m \in P
  BY <1>3
<1>5. QED
  BY <1>4 DEF Follows

\* Induction on the length of a sequence.
LEMMA SeqInduct ==
  ASSUME NEW S, NEW P, <<>> \in P,
         \A s \in Seq(S), e \in S : s \in P => Append(s, e) \in P
  PROVE  Seq(S) \subseteq P
<1> SUFFICES ASSUME NEW q \in Seq(S)
             PROVE  q \in P
  OBVIOUS
<1> DEFINE m == Len(q)
           L == {n \in 0 .. m : \A s \in Seq(S) : Len(s) = n => s \in P}
<1>1. m \in Nat /\ 0 \in 0 .. m
  BY LenProperties
<1>2. 0 \in L
  <2>1. \A s \in Seq(S) : Len(s) = 0 => s = <<>>
    BY EmptySeq
  <2>2. QED
    BY <1>1, <2>1
<1>3. ASSUME NEW n \in 0 .. m - 1, n \in L
      PROVE  n + 1 \in L
  <2>1. SUFFICES ASSUME NEW s \in Seq(S), Len(s) = n + 1
                 PROVE  s \in P
    BY <1>1
  <2>2. s # <<>>
    BY <2>1, EmptySeq, <1>1
  <2>3. PICK t \in Seq(S), e \in S : s = Append(t, e)
    BY <2>2, SequenceEmptyOrAppend
  <2>4. Len(s) = Len(t) + 1 /\ Len(t) \in Nat
    BY <2>3, AppendProperties, LenProperties
  <2>5. Len(t) = n
    BY <2>1, <2>4, <1>1
  <2>6. t \in P
    BY <1>3, <2>5
  <2>7. QED
    BY <2>3, <2>6
<1>4. 0 .. m \subseteq L
  <2> HIDE DEF L, m
  <2>1. QED
    BY <1>1, <1>2, <1>3, Induct
<1>5. QED
  BY <1>1, <1>4

-----------------------------------------------------------------------------
(* splitString *)

\* What splitString has at any moment.
Pieces == Seq(Seq(Nat)) \ {<<>>}

\* What one byte does to the pieces.
LEMMA ScannedFacts ==
  ASSUME NEW p \in Pieces, NEW c \in Nat
  PROVE  /\ Scanned(p, c) \in Pieces
         /\ Len(p) \in Nat \ {0} /\ p[Len(p)] \in Seq(Nat)
         /\ c = Sp => Scanned(p, c) = Append(p, <<>>)
         /\ c # Sp => Scanned(p, c) = [p EXCEPT ![Len(p)] = Append(p[Len(p)], c)]
         /\ Len(p) > 1 => Len(Scanned(p, c)) > 1 /\ Scanned(p, c)[1] = p[1]
<1>1. /\ p \in Seq(Seq(Nat)) /\ Len(p) \in Nat \ {0} /\ p[Len(p)] \in Seq(Nat)
      /\ Len(p) \in DOMAIN p /\ DOMAIN p = 1 .. Len(p)
  BY LenProperties, EmptySeq, ElementOfSeq DEF Pieces
<1>2. CASE c = Sp
  <2>1. Scanned(p, c) = Append(p, <<>>) /\ <<>> \in Seq(Nat)
    BY <1>2 DEF Scanned
  <2>2. /\ Append(p, <<>>) \in Seq(Seq(Nat)) /\ Len(Append(p, <<>>)) = Len(p) + 1
        /\ \A i \in 1 .. Len(p) : Append(p, <<>>)[i] = p[i]
    BY <1>1, <2>1, AppendProperties
  <2>3. Append(p, <<>>) # <<>>
    BY <1>1, <2>2, EmptySeq
  <2>4. QED
    BY <1>1, <1>2, <2>1, <2>2, <2>3 DEF Pieces
<1>3. CASE c # Sp
  <2>1. Scanned(p, c) = [p EXCEPT ![Len(p)] = Append(p[Len(p)], c)]
    BY <1>3 DEF Scanned
  <2>2. Append(p[Len(p)], c) \in Seq(Nat)
    BY <1>1, AppendProperties
  <2>3. Scanned(p, c) \in Seq(Seq(Nat)) /\ Len(Scanned(p, c)) = Len(p)
    BY <1>1, <2>1, <2>2, ExceptSeq
  <2>4. Scanned(p, c) # <<>>
    BY <1>1, <2>3, EmptySeq
  <2>5. Len(p) > 1 => Scanned(p, c)[1] = p[1]
    BY <1>1, <2>1
  <2>6. QED
    BY <1>1, <1>3, <2>1, <2>3, <2>4, <2>5 DEF Pieces
<1>4. QED
  BY <1>2, <1>3

\* The loop of splitString.
LEMMA FragsSteps ==
  ASSUME NEW str \in Seq(Nat)
  PROVE  \E f \in [0 .. Len(str) -> Pieces] :
           /\ f[0] = <<<<>>>> /\ Frags(str) = f[Len(str)]
           /\ \A i \in 1 .. Len(str) : f[i] = Scanned(f[i - 1], str[i])
<1> DEFINE m == Len(str)
           R(f) == f = [i \in 0 .. m |-> IF i = 0 THEN <<<<>>>>
                                          ELSE Scanned(f[i - 1], str[i])]
           G == [p \in (1 .. m) \X Pieces |-> Scanned(p[2], str[p[1]])]
<1>1. m \in Nat /\ \A i \in 1 .. m : str[i] \in Nat
  BY LenProperties, ElementOfSeq
<1>2. <<<<>>>> \in Pieces
  <2>1. <<>> \in Seq(Nat)
    OBVIOUS
  <2>2. QED
    BY <2>1 DEF Pieces
<1>3. G \in [(1 .. m) \X Pieces -> Pieces]
  BY <1>1, ScannedFacts
<1>4. \A i \in 1 .. m : \A p \in Pieces : G[<<i, p>>] = Scanned(p, str[i])
  OBVIOUS
<1> HIDE DEF G, m
<1>5. PICK f \in [0 .. m -> Pieces] :
        f[0] = <<<<>>>> /\ \A i \in 1 .. m : f[i] = G[<<i, f[i - 1]>>]
  <2>1. PICK e \in Pieces : e = <<<<>>>>
    BY <1>2
  <2>2. \E f \in [0 .. m -> Pieces] : Follows(f, m, e, G)
    BY <1>1, <1>3, Recursion
  <2>3. QED
    BY <2>1, <2>2 DEF Follows
<1>6. \A i \in 1 .. m : i - 1 \in 0 .. m /\ i # 0
  BY <1>1
<1>7. \A i \in 1 .. m : f[i] = Scanned(f[i - 1], str[i])
  BY <1>4, <1>5, <1>6
<1>8. R(f)
  <2>1. \A i \in 0 .. m : f[i] = IF i = 0 THEN <<<<>>>> ELSE Scanned(f[i - 1], str[i])
    <3>1. \A i \in 0 .. m : i = 0 \/ (i \in 1 .. m /\ i # 0)
      BY <1>1
    <3>2. QED
      BY ONLY <1>5, <1>7, <3>1
  <2>2. QED
    BY ONLY <2>1, f \in [0 .. m -> Pieces]
<1> DEFINE g == CHOOSE h : R(h)
<1>9. R(g)
  BY <1>8
<1>10. Frags(str) = g[m]
  BY DEF Frags, m
<1> HIDE DEF g
<1>11. /\ g[0] = <<<<>>>>
       /\ \A i \in 1 .. m : g[i] = Scanned(g[i - 1], str[i])
  BY <1>1, <1>6, <1>9
<1> DEFINE P == {i \in 0 .. m : g[i] = f[i]}
<1>12. 0 \in P
  <2>1. 0 \in 0 .. m
    BY <1>1
  <2>2. QED
    BY <1>5, <1>11, <2>1
<1>13. \A i \in 0 .. m - 1 : i \in P => i + 1 \in P
  <2>1. ASSUME NEW i \in 0 .. m - 1, i \in P
        PROVE  i + 1 \in P
    <3>1. i + 1 \in 1 .. m /\ (i + 1) - 1 = i /\ i + 1 \in 0 .. m
      BY <1>1
    <3>2. g[i] = f[i]
      BY <2>1
    <3>3. g[i + 1] = f[i + 1]
      BY <1>7, <1>11, <3>1, <3>2
    <3>4. QED
      BY <3>1, <3>3
  <2>2. QED
    BY <2>1
<1>14. 0 .. m \subseteq P
  <2> HIDE DEF P
  <2>1. QED
    BY <1>1, <1>12, <1>13, Induct
<1>15. g[m] = f[m]
  BY <1>1, <1>14
<1>16. QED
  BY <1>5, <1>7, <1>10, <1>15 DEF m

\* Without a byte there is one piece, and it is empty.
LEMMA FragsNil == Frags(<<>>) = <<<<>>>>
<1>1. <<>> \in Seq(Nat) /\ Len(<<>>) = 0
  BY EmptySeq
<1>2. QED
  BY <1>1, FragsSteps

\* One more byte is one more turn of the loop.
LEMMA FragsAppend ==
  ASSUME NEW s \in Seq(Nat), NEW c \in Nat
  PROVE  Frags(s) \in Pieces /\ Frags(Append(s, c)) = Scanned(Frags(s), c)
<1> DEFINE m == Len(s)
           t == Append(s, c)
<1>1. /\ t \in Seq(Nat) /\ Len(t) = m + 1 /\ m \in Nat
      /\ \A i \in 1 .. m : t[i] = s[i]
      /\ t[m + 1] = c
  BY AppendProperties, LenProperties
<1> HIDE DEF t
<1>2. PICK f \in [0 .. m -> Pieces] :
           /\ f[0] = <<<<>>>> /\ Frags(s) = f[m]
           /\ \A i \in 1 .. m : f[i] = Scanned(f[i - 1], s[i])
  BY FragsSteps
<1>0. PICK g \in [0 .. Len(t) -> Pieces] :
           /\ g[0] = <<<<>>>> /\ Frags(t) = g[Len(t)]
           /\ \A i \in 1 .. Len(t) : g[i] = Scanned(g[i - 1], t[i])
  BY <1>1, FragsSteps
<1>3. /\ g \in [0 .. m + 1 -> Pieces]
      /\ g[0] = <<<<>>>> /\ Frags(t) = g[m + 1]
      /\ \A i \in 1 .. m + 1 : g[i] = Scanned(g[i - 1], t[i])
  BY <1>0, <1>1
<1> HIDE DEF m
<1> DEFINE P == {i \in 0 .. m : g[i] = f[i]}
<1>4. 0 \in P
  <2>1. 0 \in 0 .. m
    BY <1>1
  <2>2. QED
    BY <1>2, <1>3, <2>1
<1>5. ASSUME NEW i \in 0 .. m - 1, i \in P
      PROVE  i + 1 \in P
  <2>1. i + 1 \in 1 .. m /\ (i + 1) - 1 = i /\ i + 1 \in 0 .. m /\ i + 1 \in 1 .. m + 1
    BY <1>1
  <2>2. g[i] = f[i]
    BY <1>5
  <2>3. g[i + 1] = f[i + 1]
    BY <1>1, <1>2, <1>3, <2>1, <2>2
  <2>4. QED
    BY <2>1, <2>3
<1>6. 0 .. m \subseteq P
  <2> HIDE DEF P
  <2>1. QED
    BY <1>1, <1>4, <1>5, Induct
<1>7. g[m] = f[m] /\ f[m] \in Pieces
  BY <1>1, <1>6
<1>8. g[m + 1] = Scanned(g[m], c)
  <2>1. m + 1 \in 1 .. m + 1 /\ (m + 1) - 1 = m
    BY <1>1
  <2>2. g[m + 1] = Scanned(g[(m + 1) - 1], t[m + 1])
    BY <1>3, <2>1
  <2>3. QED
    BY <1>1, <2>1, <2>2
<1>9. QED
  BY <1>2, <1>3, <1>7, <1>8 DEF t

\* The bytes of a word.
Letter == Nat \ {Sp}

\* A word is added to the last piece.
LEMMA FragsWord ==
  ASSUME NEW s \in Seq(Nat), NEW q \in Seq(Seq(Nat)), Frags(s) = Append(q, <<>>)
  PROVE  \A w \in Seq(Letter) : Frags(s \o w) = Append(q, w)
<1> DEFINE P == {w \in Seq(Letter) : Frags(s \o w) = Append(q, w)}
<1>1. <<>> \in P
  <2>1. s \o <<>> = s /\ <<>> \in Seq(Letter)
    BY ConcatEmptySeq, EmptySeq
  <2>2. QED
    BY <2>1
<1>2. ASSUME NEW w \in Seq(Letter), NEW c \in Letter, w \in P
      PROVE  Append(w, c) \in P
  <2>1. w \in Seq(Nat) /\ Append(w, c) \in Seq(Letter) /\ c \in Nat /\ c # Sp
    BY SeqMonotonic, AppendProperties DEF Letter
  <2>2. s \o Append(w, c) = Append(s \o w, c) /\ s \o w \in Seq(Nat)
    <3>1. /\ Append(w, c) = w \o <<c>> /\ <<c>> \in Seq(Nat)
          /\ s \o w \in Seq(Nat)
      BY <2>1, AppendIsConcat, ConcatProperties
    <3>2. s \o (w \o <<c>>) = (s \o w) \o <<c>>
      BY <2>1, <3>1, ConcatAssociative
    <3>3. Append(s \o w, c) = (s \o w) \o <<c>>
      BY <2>1, <3>1, AppendIsConcat
    <3>4. QED
      BY <3>1, <3>2, <3>3
  <2>3. Frags(s \o w) = Append(q, w)
    BY <1>2
  <2> DEFINE p == Append(q, w)
  <2>4. Frags(s \o Append(w, c)) = Scanned(p, c) /\ p \in Pieces
    BY <2>1, <2>2, <2>3, FragsAppend
  <2>5. /\ Len(p) = Len(q) + 1 /\ Len(q) \in Nat /\ p \in Seq(Seq(Nat))
        /\ \A i \in 1 .. Len(q) : p[i] = q[i]
        /\ p[Len(q) + 1] = w
    BY <2>1, AppendProperties, LenProperties
  <2> HIDE DEF p
  <2> DEFINE v == Append(w, c)
             r == [p EXCEPT ![Len(p)] = v]
  <2>6. Scanned(p, c) = r
    BY <2>1, <2>4, <2>5, ScannedFacts
  <2>7. v \in Seq(Nat)
    BY <2>1, AppendProperties
  <2> HIDE DEF v
  <2>8. Len(p) \in 1 .. Len(p)
    BY <2>5
  <2>9. /\ r \in Seq(Seq(Nat)) /\ Len(r) = Len(p)
        /\ \A j \in 1 .. Len(p) : r[j] = IF j = Len(p) THEN v ELSE p[j]
    BY <2>5, <2>7, <2>8, ExceptSeq
  <2> HIDE DEF r
  <2>10. /\ Append(q, v) \in Seq(Seq(Nat)) /\ Len(Append(q, v)) = Len(q) + 1
         /\ \A i \in 1 .. Len(q) : Append(q, v)[i] = q[i]
         /\ Append(q, v)[Len(q) + 1] = v
    BY <2>7, AppendProperties
  <2>11. r = Append(q, v)
    <3>0. Len(r) = Len(q) + 1 /\ Len(p) = Len(q) + 1 /\ Len(q) \in Nat
      BY ONLY <2>5, <2>9
    <3>1. \A j \in 1 .. Len(r) :
             \/ j \in 1 .. Len(q) /\ j # Len(p)
             \/ j = Len(q) + 1 /\ j = Len(p)
      BY ONLY <3>0
    <3>2. \A j \in 1 .. Len(r) : r[j] = Append(q, v)[j]
      BY <2>5, <2>9, <2>10, <3>1
    <3>3. QED
      BY <2>5, <2>9, <2>10, <3>2, SeqEqual
  <2>12. QED
    BY <2>1, <2>4, <2>6, <2>11 DEF v
<1>3. Seq(Letter) \subseteq P
  <2> HIDE DEF P
  <2>1. QED
    BY <1>1, <1>2, SeqInduct
<1>4. QED
  BY <1>3

\* A word alone is one piece; behind a space it is one piece more.
LEMMA FragsPieces ==
  ASSUME NEW w \in Seq(Letter)
  PROVE  /\ Frags(w) = <<w>>
         /\ \A s \in Seq(Nat) : Frags(s \o <<Sp>> \o w) = Append(Frags(s), w)
<1>1. <<>> \in Seq(Nat) /\ <<>> \in Seq(Seq(Nat)) /\ w \in Seq(Nat)
  BY SeqMonotonic DEF Letter
<1>2. Frags(w) = <<w>>
  <2>1. Frags(<<>>) = Append(<<>>, <<>>)
    BY FragsNil
  <2>2. Frags(<<>> \o w) = Append(<<>>, w)
    BY <1>1, <2>1, FragsWord
  <2>3. <<>> \o w = w
    BY <1>1, ConcatEmptySeq
  <2>4. QED
    BY <2>2, <2>3
<1>3. ASSUME NEW s \in Seq(Nat)
      PROVE  Frags(s \o <<Sp>> \o w) = Append(Frags(s), w)
  <2>1. Sp \in Nat
    BY DEF Sp
  <2>2. Append(s, Sp) \in Seq(Nat) /\ Append(s, Sp) = s \o <<Sp>>
    BY <2>1, AppendProperties, AppendIsConcat
  <2>3. Frags(s) \in Pieces /\ Frags(Append(s, Sp)) = Scanned(Frags(s), Sp)
    BY <2>1, FragsAppend
  <2>4. Scanned(Frags(s), Sp) = Append(Frags(s), <<>>)
    BY <2>1, <2>3, ScannedFacts
  <2>5. Frags(s) \in Seq(Seq(Nat))
    BY <2>3 DEF Pieces
  <2>6. Frags(Append(s, Sp) \o w) = Append(Frags(s), w)
    BY <2>2, <2>3, <2>4, <2>5, FragsWord
  <2>7. QED
    BY <2>2, <2>6
<1>4. QED
  BY <1>2, <1>3

-----------------------------------------------------------------------------
(* encodeTask and encodeResult *)

\* What the loop that joins words has after the k-th word.
JoinedUpTo(f, words) ==
  /\ f[1] = words[1] /\ Joined(words) = f[Len(words)]
  /\ \A k \in 2 .. Len(words) : f[k] = f[k - 1] \o <<Sp>> \o words[k]

\* The recursive function Joined unfolds as its definition says.
LEMMA JoinedSteps ==
  ASSUME NEW C, Sp \in C, NEW words \in Seq(Seq(C)), words # <<>>
  PROVE  \E f \in [1 .. Len(words) -> Seq(C)] : JoinedUpTo(f, words)
<1> DEFINE n == Len(words)
           R(f) == f = [k \in 1 .. n |-> IF k = 1 THEN words[1]
                                          ELSE f[k - 1] \o <<Sp>> \o words[k]]
           G == [p \in (1 .. n - 1) \X Seq(C) |-> p[2] \o <<Sp>> \o words[p[1] + 1]]
<1>1. n \in Nat \ {0} /\ \A k \in 1 .. n : words[k] \in Seq(C)
  BY EmptySeq, ElementOfSeq
<1>2. \A s, w \in Seq(C) : s \o <<Sp>> \o w \in Seq(C)
  <2>1. SUFFICES ASSUME NEW s \in Seq(C), NEW w \in Seq(C)
                 PROVE  s \o <<Sp>> \o w \in Seq(C)
    OBVIOUS
  <2>2. <<Sp>> \in Seq(C)
    OBVIOUS
  <2>3. s \o <<Sp>> \in Seq(C)
    BY <2>2, ConcatProperties
  <2>4. QED
    BY <2>3, ConcatProperties
<1>3. n - 1 \in Nat /\ words[1] \in Seq(C)
  BY <1>1
<1>4. G \in [(1 .. n - 1) \X Seq(C) -> Seq(C)]
  <2>1. \A p \in (1 .. n - 1) \X Seq(C) : p[1] + 1 \in 1 .. n /\ p[2] \in Seq(C)
    BY <1>1
  <2>2. QED
    BY <1>1, <1>2, <2>1
<1>5. \A i \in 1 .. n - 1 : \A s \in Seq(C) :
        G[<<i, s>>] = s \o <<Sp>> \o words[i + 1]
  OBVIOUS
<1> HIDE DEF G, n
<1>6. PICK h \in [0 .. n - 1 -> Seq(C)] : Follows(h, n - 1, words[1], G)
  BY <1>3, <1>4, Recursion
<1> DEFINE f == [k \in 1 .. n |-> h[k - 1]]
<1>7. f \in [1 .. n -> Seq(C)] /\ f[1] = words[1]
  <2>1. \A k \in 1 .. n : k - 1 \in 0 .. n - 1
    BY <1>1
  <2>2. 1 \in 1 .. n /\ h[0] = words[1] /\ 1 - 1 = 0
    BY <1>1, <1>6 DEF Follows
  <2>3. QED
    BY <2>1, <2>2
<1>8. \A k \in 2 .. n : f[k] = f[k - 1] \o <<Sp>> \o words[k]
  <2>1. SUFFICES ASSUME NEW k \in 2 .. n
                 PROVE  f[k] = f[k - 1] \o <<Sp>> \o words[k]
    OBVIOUS
  <2>2. /\ k - 1 \in 1 .. n - 1 /\ (k - 1) - 1 \in 0 .. n - 1 /\ (k - 1) + 1 = k
        /\ k \in 1 .. n /\ k - 1 \in 1 .. n
    BY <1>1
  <2>3. h[k - 1] = G[<<k - 1, h[(k - 1) - 1]>>]
    BY <1>6, <2>2 DEF Follows
  <2>4. h[k - 1] = h[(k - 1) - 1] \o <<Sp>> \o words[(k - 1) + 1]
    BY <1>5, <2>2, <2>3
  <2>5. f[k] = h[k - 1] /\ f[k - 1] = h[(k - 1) - 1]
    BY <2>2
  <2>6. QED
    BY <2>2, <2>4, <2>5
<1> HIDE DEF f
<1>9. R(f)
  <2>1. \A k \in 1 .. n : k = 1 \/ (k \in 2 .. n /\ k # 1)
    BY <1>1
  <2>2. \A k \in 1 .. n : f[k] = IF k = 1 THEN words[1]
                                 ELSE f[k - 1] \o <<Sp>> \o words[k]
    BY ONLY <2>1, <1>7, <1>8
  <2>3. QED
    BY ONLY <2>2, <1>7
<1> DEFINE g == CHOOSE j : R(j)
<1>10. R(g)
  BY <1>9
<1>11. Joined(words) = g[n]
  BY DEF Joined, n
<1> HIDE DEF g
<1>12. g[1] = words[1] /\ \A k \in 2 .. n : g[k] = g[k - 1] \o <<Sp>> \o words[k]
  <2>1. 1 \in 1 .. n /\ \A k \in 2 .. n : k \in 1 .. n /\ k # 1
    BY <1>1
  <2>2. QED
    BY <1>10, <2>1
<1> DEFINE P == {i \in 0 .. n - 1 : g[i + 1] = f[i + 1]}
<1>13. 0 \in P
  <2>1. 0 \in 0 .. n - 1 /\ 0 + 1 = 1
    BY <1>1
  <2>2. QED
    BY <1>7, <1>12, <2>1
<1>14. ASSUME NEW i \in 0 .. (n - 1) - 1, i \in P
       PROVE  i + 1 \in P
  <2>1. i + 1 \in 0 .. n - 1 /\ (i + 1) + 1 \in 2 .. n /\ ((i + 1) + 1) - 1 = i + 1
    BY <1>1
  <2>2. g[i + 1] = f[i + 1]
    BY <1>14
  <2>3. g[(i + 1) + 1] = f[(i + 1) + 1]
    BY <1>8, <1>12, <2>1, <2>2
  <2>4. QED
    BY <2>1, <2>3
<1>15. 0 .. n - 1 \subseteq P
  <2> HIDE DEF P
  <2>1. QED
    BY <1>3, <1>13, <1>14, Induct
<1>16. g[n] = f[n]
  <2>1. n - 1 \in 0 .. n - 1 /\ (n - 1) + 1 = n
    BY <1>1
  <2>2. QED
    BY <1>15, <2>1
<1>17. QED
  BY <1>7, <1>8, <1>11, <1>16 DEF n, JoinedUpTo

\* A word more is a space and the word.
LEMMA JoinedAppend ==
  ASSUME NEW C, Sp \in C, NEW words \in Seq(Seq(C)), NEW w \in Seq(C)
  PROVE  /\ words = <<>> => Joined(Append(words, w)) = w
         /\ words # <<>> => /\ Joined(words) \in Seq(C)
                            /\ Joined(Append(words, w)) = Joined(words) \o <<Sp>> \o w
<1> DEFINE n == Len(words)
           more == Append(words, w)
<1>1. /\ more \in Seq(Seq(C)) /\ more # <<>> /\ Len(more) = n + 1 /\ n \in Nat
      /\ \A i \in 1 .. n : more[i] = words[i]
      /\ more[n + 1] = w
  BY AppendProperties, LenProperties
<1> HIDE DEF more
<1>0. PICK g \in [1 .. Len(more) -> Seq(C)] : JoinedUpTo(g, more)
  BY <1>1, JoinedSteps
<1>2. /\ g \in [1 .. n + 1 -> Seq(C)]
      /\ g[1] = more[1] /\ Joined(more) = g[n + 1]
      /\ \A k \in 2 .. n + 1 : g[k] = g[k - 1] \o <<Sp>> \o more[k]
  BY <1>0, <1>1 DEF JoinedUpTo
<1>3. CASE words = <<>>
  <2>1. n = 0
    BY <1>3, EmptySeq
  <2>2. QED
    BY <1>1, <1>2, <1>3, <2>1 DEF more
<1>4. CASE words # <<>>
  <2>0. PICK f \in [1 .. n -> Seq(C)] : JoinedUpTo(f, words)
    BY <1>4, JoinedSteps
  <2>1. /\ f[1] = words[1] /\ Joined(words) = f[n]
        /\ \A k \in 2 .. n : f[k] = f[k - 1] \o <<Sp>> \o words[k]
    BY <2>0 DEF JoinedUpTo
  <2>2. n \in Nat \ {0}
    BY <1>4, EmptySeq
  <2> HIDE DEF n
  <2> DEFINE P == {i \in 0 .. n - 1 : g[i + 1] = f[i + 1]}
  <2>3. 0 \in P
    <3>1. 0 \in 0 .. n - 1 /\ 0 + 1 = 1 /\ 1 \in 1 .. n
      BY <2>2
    <3>2. QED
      BY <1>1, <1>2, <2>1, <3>1
  <2>4. ASSUME NEW i \in 0 .. (n - 1) - 1, i \in P
        PROVE  i + 1 \in P
    <3>1. /\ i + 1 \in 0 .. n - 1 /\ (i + 1) + 1 \in 2 .. n
          /\ ((i + 1) + 1) - 1 = i + 1 /\ (i + 1) + 1 \in 1 .. n
          /\ (i + 1) + 1 \in 2 .. n + 1
      BY <2>2
    <3>2. g[i + 1] = f[i + 1]
      BY <2>4
    <3>3. g[(i + 1) + 1] = f[(i + 1) + 1]
      <4>1. PICK k \in 2 .. n : k = (i + 1) + 1 /\ k - 1 = i + 1
        BY <3>1
      <4>2. k \in 1 .. n /\ k \in 2 .. n + 1
        BY <2>2
      <4>3. g[k] = g[k - 1] \o <<Sp>> \o words[k]
        BY ONLY <1>1, <1>2, <4>2
      <4>4. f[k] = f[k - 1] \o <<Sp>> \o words[k]
        BY <2>1
      <4>5. QED
        BY <3>2, <4>1, <4>3, <4>4
    <3>4. QED
      BY <3>1, <3>3
  <2>5. 0 .. n - 1 \subseteq P
    <3>1. n - 1 \in Nat
      BY <2>2
    <3> HIDE DEF P
    <3>2. QED
      BY <2>3, <2>4, <3>1, Induct
  <2>6. g[n] = f[n] /\ f[n] \in Seq(C)
    <3>1. n - 1 \in 0 .. n - 1 /\ (n - 1) + 1 = n /\ n \in 1 .. n
      BY <2>2
    <3>2. QED
      BY <2>1, <2>5, <3>1
  <2>7. g[n + 1] = g[n] \o <<Sp>> \o w
    <3>1. n + 1 \in 2 .. n + 1 /\ (n + 1) - 1 = n
      BY <2>2
    <3>2. g[n + 1] = g[(n + 1) - 1] \o <<Sp>> \o more[n + 1]
      BY <1>1, <1>2, <3>1
    <3>3. QED
      BY <1>1, <3>1, <3>2
  <2>8. QED
    BY <1>1, <1>2, <1>4, <2>1, <2>6, <2>7 DEF more
<1>5. QED
  BY <1>3, <1>4

\* splitString takes apart what encodeTask and encodeResult have put together,
\* however many words there are and however long they are.
THEOREM FragsOfJoined ==
  \A words \in Seq(Seq(Letter)) : words # <<>> =>
    Joined(words) \in Seq(Nat) /\ Frags(Joined(words)) = words
<1> DEFINE P == {words \in Seq(Seq(Letter)) :
                   words # <<>> => /\ Joined(words) \in Seq(Nat)
                                   /\ Frags(Joined(words)) = words}
<1>1. Sp \in Nat /\ Letter \subseteq Nat
  BY DEF Sp, Letter
<1>2. <<>> \in P
  OBVIOUS
<1>3. ASSUME NEW words \in Seq(Seq(Letter)), NEW w \in Seq(Letter), words \in P
      PROVE  Append(words, w) \in P
  <2>1. w \in Seq(Nat) /\ words \in Seq(Seq(Nat))
    <3>1. Seq(Letter) \subseteq Seq(Nat)
      BY <1>1, SeqMonotonic
    <3>2. QED
      BY <3>1, SeqMonotonic
  <2>2. Append(words, w) \in Seq(Seq(Letter))
    BY AppendProperties
  <2>3. CASE words = <<>>
    <3>1. Joined(Append(words, w)) = w
      BY <1>1, <2>1, <2>3, JoinedAppend
    <3>2. Frags(w) = <<w>> /\ Append(words, w) = <<w>>
      BY <2>3, FragsPieces
    <3>3. QED
      BY <2>1, <2>2, <3>1, <3>2
  <2>4. CASE words # <<>>
    <3>1. Joined(words) \in Seq(Nat) /\ Frags(Joined(words)) = words
      BY <1>3, <2>4
    <3>2. Joined(Append(words, w)) = Joined(words) \o <<Sp>> \o w
      BY <1>1, <2>1, <2>4, JoinedAppend
    <3>3. Frags(Joined(Append(words, w))) = Append(words, w)
      BY <3>1, <3>2, FragsPieces
    <3>4. <<Sp>> \in Seq(Nat)
      BY <1>1
    <3>5. Joined(words) \o <<Sp>> \in Seq(Nat)
      BY <3>1, <3>4, ConcatProperties
    <3>6. Joined(Append(words, w)) \in Seq(Nat)
      BY <2>1, <3>2, <3>5, ConcatProperties
    <3>7. QED
      BY <2>2, <3>3, <3>6
  <2>5. QED
    BY <2>3, <2>4
<1>4. Seq(Seq(Letter)) \subseteq P
  <2> HIDE DEF P
  <2>1. QED
    BY <1>2, <1>3, SeqInduct
<1>5. QED
  BY <1>4

-----------------------------------------------------------------------------
(* What is on the way to an end *)

\* Concatenation is associative.
LEMMA Assoc == \A s, t, u \in Seq(Nat) : (s \o t) \o u = s \o (t \o u)
BY ConcatAssociative

\* What follows the same beginning is equal.
LEMMA Cancel == \A s, t, v \in Seq(Nat) : s \o t = s \o v => t = v
BY ConcatSimplifications

\* The elements of a concatenation.
LEMMA Concat ==
  \A s, t \in Seq(Nat) :
    /\ s \o t \in Seq(Nat) /\ Len(s \o t) = Len(s) + Len(t)
    /\ Len(s) \in Nat /\ Len(t) \in Nat
    /\ \A i \in 1 .. Len(s) : (s \o t)[i] = s[i]
    /\ \A i \in 1 .. Len(t) : (s \o t)[Len(s) + i] = t[i]
<1> SUFFICES ASSUME NEW s \in Seq(Nat), NEW t \in Seq(Nat)
             PROVE  /\ s \o t \in Seq(Nat) /\ Len(s \o t) = Len(s) + Len(t)
                    /\ Len(s) \in Nat /\ Len(t) \in Nat
                    /\ \A i \in 1 .. Len(s) : (s \o t)[i] = s[i]
                    /\ \A i \in 1 .. Len(t) : (s \o t)[Len(s) + i] = t[i]
  OBVIOUS
<1>1. /\ s \o t \in Seq(Nat) /\ Len(s \o t) = Len(s) + Len(t)
      /\ Len(s) \in Nat /\ Len(t) \in Nat
  BY ConcatProperties, LenProperties
<1>2. \A i \in 1 .. Len(s) + Len(t) :
        (s \o t)[i] = IF i <= Len(s) THEN s[i] ELSE t[i - Len(s)]
  BY ConcatProperties
<1>3. \A i \in 1 .. Len(s) : i \in 1 .. Len(s) + Len(t) /\ i <= Len(s)
  BY <1>1
<1>4. \A i \in 1 .. Len(t) : /\ Len(s) + i \in 1 .. Len(s) + Len(t)
                             /\ ~ (Len(s) + i <= Len(s)) /\ (Len(s) + i) - Len(s) = i
  BY <1>1
<1>5. QED
  BY <1>1, <1>2, <1>3, <1>4

\* The two parts TCP cuts a write in.
LEMMA Cut ==
  ASSUME NEW s \in Seq(Nat), NEW n \in 1 .. Len(s)
  PROVE  /\ SubSeq(s, 1, n) \in Seq(Nat) /\ SubSeq(s, n + 1, Len(s)) \in Seq(Nat)
         /\ Len(SubSeq(s, 1, n)) = n /\ Len(SubSeq(s, n + 1, Len(s))) = Len(s) - n
         /\ Len(s) \in Nat
         /\ \A i \in 1 .. n : SubSeq(s, 1, n)[i] = s[i]
         /\ \A i \in 1 .. Len(s) - n : SubSeq(s, n + 1, Len(s))[i] = s[n + i]
         /\ \A u \in Seq(Nat) : (u \o SubSeq(s, 1, n)) \o SubSeq(s, n + 1, Len(s)) = u \o s
         /\ n = Len(s) => SubSeq(s, 1, n) = s
<1> DEFINE a == SubSeq(s, 1, n)
           b == SubSeq(s, n + 1, Len(s))
<1>1. Len(s) \in Nat /\ n \in Nat /\ n <= Len(s) /\ 1 <= n
  BY LenProperties
<1>2. \A i \in 1 .. Len(s) : s[i] \in Nat
  BY ElementOfSeq
<1>3. (\A i \in 1 .. n : s[i] \in Nat) /\ (\A i \in n + 1 .. Len(s) : s[i] \in Nat)
  BY <1>1, <1>2
<1>4. /\ a \in Seq(Nat) /\ Len(a) = n
      /\ \A i \in 1 .. n : a[i] = s[i]
  <2>1. /\ a \in Seq(Nat)
        /\ Len(a) = IF 1 <= n THEN n - 1 + 1 ELSE 0
        /\ \A i \in 1 .. n - 1 + 1 : a[i] = s[1 + i - 1]
    BY <1>1, <1>3, SubSeqProperties
  <2>2. n - 1 + 1 = n /\ \A i \in 1 .. n : 1 + i - 1 = i
    BY <1>1
  <2> HIDE DEF a
  <2>3. QED
    BY <1>1, <2>1, <2>2
<1>5. /\ b \in Seq(Nat) /\ Len(b) = Len(s) - n
      /\ \A i \in 1 .. Len(s) - n : b[i] = s[n + i]
  <2>1. /\ b \in Seq(Nat)
        /\ Len(b) = IF n + 1 <= Len(s) THEN Len(s) - (n + 1) + 1 ELSE 0
        /\ \A i \in 1 .. Len(s) - (n + 1) + 1 : b[i] = s[(n + 1) + i - 1]
    <3>1. n + 1 \in Int /\ Len(s) \in Int
      BY <1>1
    <3>2. QED
      BY <1>3, <3>1, SubSeqProperties
  <2>2. /\ Len(s) - (n + 1) + 1 = Len(s) - n
        /\ \A i \in 1 .. Len(s) - n : (n + 1) + i - 1 = n + i
    BY <1>1
  <2> HIDE DEF b
  <2>3. Len(b) = Len(s) - n
    <3>1. Len(b) = IF n + 1 <= Len(s) THEN Len(s) - (n + 1) + 1 ELSE 0
      BY <2>1
    <3>2. QED
      BY ONLY <1>1, <3>1
  <2>4. \A i \in 1 .. Len(s) - n : b[i] = s[n + i]
    <3>1. \A i \in 1 .. Len(s) - n : b[i] = s[(n + 1) + i - 1]
      BY <1>1, <2>1, <2>2
    <3>2. QED
      BY <2>2, <3>1
  <2>5. QED
    BY <2>1, <2>3, <2>4
<1>7. n = Len(s) => a = s
  <2>1. SubSeq(s, 1, Len(s)) = s
    BY SubSeqFull
  <2>2. QED
    BY ONLY <2>1
<1> HIDE DEF a, b
<1>6. a \o b = s
  <2>1. /\ a \o b \in Seq(Nat) /\ Len(a \o b) = Len(a) + Len(b)
        /\ \A i \in 1 .. Len(a) + Len(b) :
             (a \o b)[i] = IF i <= Len(a) THEN a[i] ELSE b[i - Len(a)]
    BY <1>4, <1>5, ConcatProperties
  <2>2. Len(a) + Len(b) = Len(s)
    BY <1>1, <1>4, <1>5
  <2>3. \A i \in 1 .. Len(s) : (a \o b)[i] = s[i]
    <3>1. \A i \in 1 .. Len(s) :
            \/ i \in 1 .. n /\ i <= n
            \/ i - n \in 1 .. Len(s) - n /\ n + (i - n) = i /\ ~ (i <= n)
      BY <1>1
    <3>2. QED
      BY <1>4, <1>5, <2>1, <2>2, <3>1
  <2>4. QED
    BY <1>4, <2>1, <2>2, <2>3, SeqEqual
<1>8. \A u \in Seq(Nat) : (u \o a) \o b = u \o s
  <2>1. SUFFICES ASSUME NEW u \in Seq(Nat)
                 PROVE  (u \o a) \o b = u \o s
    OBVIOUS
  <2>0. a \in Seq(Nat) /\ b \in Seq(Nat)
    BY <1>4, <1>5
  <2>2. (u \o a) \o b = u \o (a \o b)
    BY <2>0, Assoc
  <2>3. QED
    BY <1>6, <2>2
<1>9. QED
  BY <1>1, <1>4, <1>5, <1>7, <1>8 DEF a, b

\* A write is a sequence of bytes.
LEMMA First ==
  \A w \in Seq(Seq(Nat)) : Len(w) \in {1, 2} => w[1] \in Seq(Nat)
<1> SUFFICES ASSUME NEW w \in Seq(Seq(Nat)), Len(w) \in {1, 2}
             PROVE  w[1] \in Seq(Nat)
  OBVIOUS
<1>1. 1 \in 1 .. Len(w)
  OBVIOUS
<1>2. QED
  BY <1>1, ElementOfSeq

\* What has arrived after a delivery, and what is still on the way.
Arrived(w, u, n) == u \o SubSeq(w[1], 1, n)
Remaining(w, n) ==
  IF n = Len(w[1]) THEN Tail(w)
  ELSE <<SubSeq(w[1], n + 1, Len(w[1]))>> \o Tail(w)

\* What a delivery leaves of the writes on the way: the first one is gone, or
\* shorter.
LEMMA Delivery ==
  ASSUME NEW w \in Seq(Seq(Nat)), NEW u \in Seq(Nat), w # <<>>,
         NEW n \in 1 .. Len(w[1])
  PROVE  /\ Arrived(w, u, n) \in Seq(Nat) /\ Remaining(w, n) \in Seq(Seq(Nat))
         /\ w[1] \in Seq(Nat) /\ Head(w) = w[1] /\ Len(w) \in Nat \ {0}
         /\ Len(Tail(w)) = Len(w) - 1 /\ Tail(w) \in Seq(Seq(Nat))
         /\ \A j \in 1 .. Len(w) - 1 : Tail(w)[j] = w[j + 1]
         /\ n < Len(w[1]) =>
              /\ Len(Remaining(w, n)) = Len(w)
              /\ Remaining(w, n)[1] = SubSeq(w[1], n + 1, Len(w[1]))
              /\ \A j \in 2 .. Len(w) : Remaining(w, n)[j] = w[j]
<1>1. /\ w[1] \in Seq(Nat) /\ Head(w) = w[1] /\ Len(w) \in Nat \ {0}
      /\ Len(Tail(w)) = Len(w) - 1 /\ Tail(w) \in Seq(Seq(Nat))
      /\ \A j \in 1 .. Len(w) - 1 : Tail(w)[j] = w[j + 1]
  BY TailFacts, HeadTailProperties
<1> DEFINE a == SubSeq(w[1], 1, n)
           b == SubSeq(w[1], n + 1, Len(w[1]))
           t == Tail(w)
<1>2. a \in Seq(Nat) /\ b \in Seq(Nat)
  BY <1>1, Cut
<1>3. Arrived(w, u, n) \in Seq(Nat)
  BY <1>2, ConcatProperties DEF Arrived
<1> HIDE DEF a, b, t
<1>4. /\ <<b>> \in Seq(Seq(Nat)) /\ Len(<<b>>) = 1 /\ <<b>>[1] = b
  BY <1>2
<1>5. /\ <<b>> \o t \in Seq(Seq(Nat)) /\ Len(<<b>> \o t) = 1 + Len(t)
      /\ \A i \in 1 .. 1 + Len(t) : (<<b>> \o t)[i] = IF i <= 1 THEN <<b>>[i] ELSE t[i - 1]
  BY <1>1, <1>4, ConcatProperties DEF t
<1>6. n < Len(w[1]) => Remaining(w, n) = <<b>> \o t
  BY <1>1, LenProperties DEF Remaining, b, t
<1>7. n = Len(w[1]) => Remaining(w, n) = t
  BY DEF Remaining, t
<1>8. Remaining(w, n) = t \/ Remaining(w, n) = <<b>> \o t
  BY DEF Remaining, b, t
<1>9. /\ Len(<<b>> \o t) = Len(w) /\ (<<b>> \o t)[1] = b
      /\ \A j \in 2 .. Len(w) : (<<b>> \o t)[j] = w[j]
  <2>1. Len(t) = Len(w) - 1 /\ 1 \in 1 .. 1 + Len(t) /\ 1 <= 1 /\ 1 + Len(t) = Len(w)
    BY <1>1 DEF t
  <2>2. \A j \in 2 .. Len(w) : /\ j \in 1 .. 1 + Len(t) /\ ~ (j <= 1)
                               /\ j - 1 \in 1 .. Len(w) - 1 /\ (j - 1) + 1 = j
    BY <1>1, <2>1
  <2>3. \A j \in 2 .. Len(w) : t[j - 1] = w[j]
    <3>1. \A j \in 1 .. Len(w) - 1 : t[j] = w[j + 1]
      BY <1>1 DEF t
    <3>2. QED
      BY <2>2, <3>1
  <2>4. \A j \in 2 .. Len(w) : (<<b>> \o t)[j] = t[j - 1]
    BY <1>5, <2>2
  <2>5. (<<b>> \o t)[1] = b
    BY <1>4, <1>5, <2>1
  <2>6. QED
    BY <1>5, <2>1, <2>3, <2>4, <2>5
<1>10. QED
  BY <1>1, <1>3, <1>5, <1>6, <1>8, <1>9 DEF b, t

\* A stream stays what it is when a part of it arrives, whole or not.
LEMMA StreamDelivery ==
  ASSUME NEW w \in Seq(Seq(Nat)), NEW u \in Seq(Nat), w # <<>>,
         NEW n \in 1 .. Len(w[1]),
         NEW rest \in Seq(Nat), NEW body \in Seq(Nat),
         NEW whole \in BOOLEAN, NEW still \in BOOLEAN,
         still => whole /\ n = Len(w[1]),
         Stream(w, u, whole, rest, body)
  PROVE  Stream(Remaining(w, n), Arrived(w, u, n), still, rest, body)
<1> DEFINE w2 == Remaining(w, n)
           u2 == Arrived(w, u, n)
           b == SubSeq(w[1], n + 1, Len(w[1]))
<1>1. /\ w2 \in Seq(Seq(Nat)) /\ w[1] \in Seq(Nat) /\ Len(w) \in Nat \ {0}
      /\ Len(Tail(w)) = Len(w) - 1 /\ Tail(w) \in Seq(Seq(Nat))
      /\ \A j \in 1 .. Len(w) - 1 : Tail(w)[j] = w[j + 1]
      /\ n < Len(w[1]) => /\ Len(w2) = Len(w) /\ w2[1] = b
                          /\ \A j \in 2 .. Len(w) : w2[j] = w[j]
  BY Delivery
<1>2. /\ b \in Seq(Nat) /\ Len(b) = Len(w[1]) - n /\ Len(w[1]) \in Nat
      /\ u2 \o b = u \o w[1]
      /\ n = Len(w[1]) => u2 = u \o w[1]
  <2>1. PICK s \in Seq(Nat) : s = w[1]
    BY <1>1
  <2>2. n \in 1 .. Len(s)
    BY <2>1
  <2>3. /\ SubSeq(s, n + 1, Len(s)) \in Seq(Nat)
        /\ Len(SubSeq(s, n + 1, Len(s))) = Len(s) - n /\ Len(s) \in Nat
        /\ (u \o SubSeq(s, 1, n)) \o SubSeq(s, n + 1, Len(s)) = u \o s
        /\ n = Len(s) => SubSeq(s, 1, n) = s
    BY <2>2, Cut
  <2>4. QED
    BY <2>1, <2>3 DEF Arrived
<1>3. n = Len(w[1]) => w2 = Tail(w)
  BY DEF Remaining
<1>4. n < Len(w[1]) => b # <<>> /\ ~ still
  <2>1. <<>> \in Seq(Nat) /\ Len(<<>>) = 0
    BY EmptySeq
  <2>2. n < Len(w[1]) => Len(b) # 0 /\ n # Len(w[1])
    BY <1>2
  <2> HIDE DEF b
  <2>3. QED
    BY <2>1, <2>2
<1>5. n = Len(w[1]) \/ n < Len(w[1])
  BY <1>2
<1>6. \/ Len(w) = 1 /\ w[1] # <<>> /\ u \o w[1] = rest \o body
      \/ /\ Len(w) = 2 /\ w[1] # <<>> /\ u \o w[1] = rest
         /\ body # <<>> /\ w[2] = body
  BY DEF Stream
<1> HIDE DEF w2, u2, b
<1>7. CASE n < Len(w[1])
  <2>1. Len(w2) = Len(w) /\ w2[1] = b /\ b # <<>> /\ ~ still
    BY <1>1, <1>4, <1>7
  <2>2. Len(w) = 2 => w2[2] = w[2]
    <3>1. Len(w) = 2 => 2 \in 2 .. Len(w)
      OBVIOUS
    <3>2. QED
      BY <1>1, <1>7, <3>1
  <2>3. Stream(w2, u2, still, rest, body)
    BY <1>2, <1>6, <2>1, <2>2 DEF Stream
  <2>4. QED
    BY <2>3 DEF w2, u2
<1>8. CASE n = Len(w[1])
  <2>1. w2 = Tail(w) /\ u2 = u \o w[1]
    BY <1>2, <1>3, <1>8
  <2>2. CASE Len(w) = 1 /\ u \o w[1] = rest \o body
    <3>1. Len(w2) = 0
      BY <1>1, <2>1, <2>2
    <3>2. w2 = <<>>
      BY <1>1, <3>1, EmptySeq
    <3>3. Stream(w2, u2, still, rest, body)
      BY <2>1, <2>2, <3>2 DEF Stream
    <3>4. QED
      BY <3>3 DEF w2, u2
  <2>3. CASE /\ Len(w) = 2 /\ u \o w[1] = rest /\ body # <<>> /\ w[2] = body
    <3>1. Len(w2) = 1 /\ w2[1] = w[2]
      <4>1. 1 \in 1 .. Len(w) - 1 /\ 1 + 1 = 2
        BY <2>3
      <4>2. Tail(w)[1] = w[2] /\ Len(Tail(w)) = 1
        <5>1. PICK t : /\ t = Tail(w) /\ Len(t) = Len(w) - 1
                       /\ \A j \in 1 .. Len(w) - 1 : t[j] = w[j + 1]
          BY <1>1
        <5>2. Len(w) - 1 = 1 /\ Len(w) = 2
          BY <2>3
        <5>3. Len(t) = 1 /\ t[1] = w[2]
          BY ONLY <4>1, <5>1, <5>2
        <5>4. QED
          BY <5>1, <5>3
      <4>3. QED
        BY <2>1, <4>2
    <3>2. Stream(w2, u2, still, rest, body)
      BY <2>1, <2>3, <3>1 DEF Stream
    <3>3. QED
      BY <3>2 DEF w2, u2
  <2>4. QED
    BY <1>6, <2>2, <2>3
<1>9. QED
  BY <1>5, <1>7, <1>8

\* The size is written first ...
LEMMA StreamBegins ==
  ASSUME NEW rest \in Seq(Nat), rest # <<>>, NEW whole \in BOOLEAN
  PROVE  Stream(Append(<<>>, rest), <<>>, whole, rest, <<>>)
<1> DEFINE w == Append(<<>>, rest)
<1>1. w = <<rest>> /\ Len(w) = 1 /\ w[1] = rest
  OBVIOUS
<1>2. <<>> \o rest = rest /\ rest \o <<>> = rest
  BY ConcatEmptySeq
<1> HIDE DEF w
<1>3. Stream(w, <<>>, whole, rest, <<>>)
  BY <1>1, <1>2 DEF Stream
<1>4. QED
  BY <1>3 DEF w

\* ... and the body second.
LEMMA StreamGrows ==
  ASSUME NEW w \in Seq(Seq(Nat)), NEW u \in Seq(Nat), NEW rest \in Seq(Nat),
         NEW body \in Seq(Nat), body # <<>>,
         NEW whole \in BOOLEAN, Stream(w, u, whole, rest, <<>>)
  PROVE  Stream(Append(w, body), u, whole, rest, body)
<1> DEFINE x == Append(w, body)
<1>1. /\ Len(x) = Len(w) + 1 /\ Len(w) \in Nat /\ x[Len(w) + 1] = body
      /\ \A i \in 1 .. Len(w) : x[i] = w[i]
  BY AppendProperties, LenProperties
<1>2. rest \o <<>> = rest
  BY ConcatEmptySeq
<1> HIDE DEF x
<1>3. CASE w = <<>> /\ u = rest
  <2>1. Len(x) = 1 /\ x[1] = body
    BY <1>1, <1>3, EmptySeq
  <2>2. Stream(x, u, whole, rest, body)
    BY <1>3, <2>1 DEF Stream
  <2>3. QED
    BY <2>2 DEF x
<1>4. CASE /\ Len(w) = 1 /\ w[1] # <<>> /\ u \o w[1] = rest
           /\ whole => u = rest \/ u = <<>>
  <2>1. Len(x) = 2 /\ x[2] = body /\ x[1] = w[1]
    <3>1. 1 \in 1 .. Len(w)
      BY <1>4
    <3>2. QED
      BY <1>1, <1>4, <3>1
  <2>2. u # rest
    <3>1. 1 \in 1 .. Len(w)
      BY <1>4
    <3>2. w[1] \in Seq(Nat)
      BY <3>1, ElementOfSeq
    <3>3. u = rest => w[1] = <<>>
      BY <1>4, <3>2, ConcatSimplifications!idRight
    <3>4. QED
      BY <1>4, <3>3
  <2>3. Stream(x, u, whole, rest, body)
    BY <1>4, <2>1, <2>2 DEF Stream
  <2>4. QED
    BY <2>3 DEF x
<1>5. QED
  BY <1>2, <1>3, <1>4 DEF Stream

\* The bytes behind the first n.
LEMMA Behind ==
  ASSUME NEW s \in Seq(Nat), NEW n \in 0 .. Len(s)
  PROVE  /\ SubSeq(s, n + 1, Len(s)) \in Seq(Nat)
         /\ Len(SubSeq(s, n + 1, Len(s))) = Len(s) - n
         /\ \A i \in 1 .. Len(s) - n : SubSeq(s, n + 1, Len(s))[i] = s[n + i]
<1>1. CASE n = 0
  <2>1. SubSeq(s, 1, Len(s)) = s
    BY SubSeqFull
  <2>2. Len(s) \in Nat /\ n + 1 = 1 /\ \A i \in 1 .. Len(s) : n + i = i
    BY <1>1, LenProperties
  <2>3. SubSeq(s, n + 1, Len(s)) = s
    BY <2>1, <2>2
  <2>4. QED
    BY <1>1, <2>2, <2>3
<1>2. CASE n # 0
  <2>1. n \in 1 .. Len(s)
    BY <1>2, LenProperties
  <2>2. QED
    BY <2>1, Cut
<1>3. QED
  BY <1>1, <1>2

\* A read of the two bytes of the size finds them ...
LEMMA StreamSize ==
  ASSUME NEW w \in Seq(Seq(Nat)), NEW u \in Seq(Nat), NEW rest \in Seq(Nat),
         NEW body \in Seq(Nat), NEW whole \in BOOLEAN,
         Stream(w, u, whole, rest, body), Len(rest) = 2, Len(u) >= 2
  PROVE  /\ u[1] = rest[1] /\ u[2] = rest[2]
         /\ Stream(w, SubSeq(u, 3, Len(u)), whole, <<>>, body)
<1> DEFINE r == SubSeq(u, 3, Len(u))
<1>1. /\ r \in Seq(Nat) /\ Len(r) = Len(u) - 2 /\ Len(u) \in Nat
      /\ \A i \in 1 .. Len(u) - 2 : r[i] = u[2 + i]
  <2>1. 2 \in 0 .. Len(u) /\ 2 + 1 = 3 /\ Len(u) \in Nat
    BY LenProperties
  <2>2. QED
    BY <2>1, Behind
<1>3. <<>> \in Seq(Nat) /\ <<>> \o body = body
  BY ConcatEmptySeq, EmptySeq
<1> HIDE DEF r
<1>2. ASSUME NEW x \in Seq(Nat), u \o x = rest \o body
      PROVE  u[1] = rest[1] /\ u[2] = rest[2] /\ r \o x = body /\ u = rest \o r
  <2>1. \A i \in 1 .. Len(u) : (u \o x)[i] = u[i]
    BY Concat
  <2>2. \A i \in 1 .. 2 : (rest \o body)[i] = rest[i]
    <3>1. \A i \in 1 .. Len(rest) : (rest \o body)[i] = rest[i]
      BY Concat
    <3>2. QED
      BY <3>1
  <2>3. \A i \in 1 .. 2 : i \in 1 .. Len(u)
    BY <1>1
  <2>4. \A i \in 1 .. 2 : u[i] = rest[i]
    BY <1>2, <2>1, <2>2, <2>3
  <2>6. rest \o r = u
    <3>1. 2 \in 1 .. Len(u) /\ 2 + 1 = 3
      BY <1>1
    <3>2. /\ SubSeq(u, 1, 2) \in Seq(Nat) /\ Len(SubSeq(u, 1, 2)) = 2
          /\ \A i \in 1 .. 2 : SubSeq(u, 1, 2)[i] = u[i]
          /\ (<<>> \o SubSeq(u, 1, 2)) \o r = <<>> \o u
      BY <1>3, <3>1, Cut DEF r
    <3>3. SubSeq(u, 1, 2) = rest
      BY <2>4, <3>2, SeqEqual
    <3>4. <<>> \o rest = rest /\ <<>> \o u = u
      BY ConcatEmptySeq
    <3>5. QED
      BY <3>2, <3>3, <3>4
  <2>7. rest \o (r \o x) = rest \o body /\ r \o x \in Seq(Nat)
    <3>1. (rest \o r) \o x = rest \o (r \o x)
      BY <1>1, Assoc
    <3>2. r \o x \in Seq(Nat)
      BY <1>1, Concat
    <3>3. QED
      BY <1>2, <2>6, <3>1, <3>2
  <2>8. r \o x = body
    BY <2>7, Cancel
  <2>9. 1 \in 1 .. 2 /\ 2 \in 1 .. 2
    OBVIOUS
  <2>10. QED
    BY <2>4, <2>6, <2>8, <2>9
<1>4. CASE w = <<>> /\ u = rest \o body
  <2>1. u \o <<>> = rest \o body /\ r \o <<>> = r
    BY <1>1, <1>4, ConcatEmptySeq
  <2>2. u[1] = rest[1] /\ u[2] = rest[2] /\ r = body
    BY <1>2, <1>3, <2>1
  <2>3. Stream(w, r, whole, <<>>, body)
    BY <1>3, <1>4, <2>2 DEF Stream
  <2>4. QED
    BY <2>2, <2>3 DEF r
<1>5. CASE /\ Len(w) = 1 /\ w[1] # <<>> /\ u \o w[1] = rest \o body
           /\ whole => u = rest \/ (u = <<>> /\ body = <<>>)
  <2>1. w[1] \in Seq(Nat)
    BY <1>5, First
  <2>2. u[1] = rest[1] /\ u[2] = rest[2] /\ r \o w[1] = body /\ u = rest \o r
    BY <1>2, <1>5, <2>1
  <2>3. whole => r = <<>>
    <3>1. u # <<>>
      BY EmptySeq
    <3>2. u = rest => r = <<>>
      BY <1>1, <2>2, ConcatSimplifications!idRight
    <3>3. QED
      BY <1>5, <3>1, <3>2
  <2>4. Stream(w, r, whole, <<>>, body)
    BY <1>3, <1>5, <2>2, <2>3 DEF Stream
  <2>5. QED
    BY <2>2, <2>4 DEF r
<1>6. CASE Len(w) = 2 /\ w[1] # <<>> /\ u \o w[1] = rest
  <2>1. PICK x \in Seq(Nat) : x = w[1] /\ x # <<>>
    BY <1>6, First
  <2>2. Len(u \o x) = Len(u) + Len(x) /\ Len(x) \in Nat \ {0}
    BY <2>1, Concat, EmptySeq
  <2>3. u \o x = rest
    BY <1>6, <2>1
  <2>4. 2 = Len(u) + Len(x)
    <3>1. Len(rest) = 2
      OBVIOUS
    <3>2. QED
      BY <2>2, <2>3, <3>1
  <2>6. Len(u) \in Nat /\ Len(x) \in Nat \ {0}
    BY <1>1, <2>2
  <2>7. FALSE
    BY ONLY <2>4, <2>6, Len(u) >= 2
  <2>5. QED
    BY <2>7
<1>7. QED
  BY <1>4, <1>5, <1>6 DEF Stream

\* ... unless TCP has cut the size in two: then its second byte is the next
\* one, and only bytes of the body follow.
Late(w, c, body) ==
  \A j \in DOMAIN w : \A i \in DOMAIN w[j] :
    \/ i = 1 /\ j = 1 /\ w[j][i] = c
    \/ (i > 1 \/ j > 1) /\ \E m \in DOMAIN body : w[j][i] = body[m]

\* A read that finds only one byte of a size found a cut write; the other byte
\* of the size, and bytes of the body, are still on the way.
LEMMA StreamShort ==
  ASSUME NEW w \in Seq(Seq(Nat)), NEW u \in Seq(Nat), NEW rest \in Seq(Nat),
         NEW body \in Seq(Nat), NEW whole \in BOOLEAN,
         Stream(w, u, whole, rest, body), Len(rest) = 2, u # <<>>, ~ (Len(u) >= 2)
  PROVE  ~ whole /\ Late(w, rest[2], body)
<1>1. Len(u) = 1 /\ 1 \in 1 .. Len(u)
  <2>1. PICK n \in Nat \ {0} : n = Len(u)
    BY EmptySeq
  <2>2. ~ (n >= 2)
    BY <2>1
  <2>3. n = 1
    BY ONLY <2>2, n \in Nat \ {0}
  <2>4. QED
    BY <2>1, <2>3
<1>2. ASSUME NEW x \in Seq(Nat), x # <<>>, NEW more \in Seq(Nat), u \o x = rest \o more
      PROVE  \A i \in DOMAIN x :
               \/ i = 1 /\ x[i] = rest[2]
               \/ i > 1 /\ \E m \in DOMAIN more : x[i] = more[m]
  <2>1. /\ Len(u \o x) = Len(u) + Len(x) /\ Len(x) \in Nat
        /\ \A i \in 1 .. Len(x) : (u \o x)[Len(u) + i] = x[i]
    BY Concat
  <2>2. /\ Len(rest \o more) = Len(rest) + Len(more) /\ Len(more) \in Nat
        /\ \A i \in 1 .. Len(rest) : (rest \o more)[i] = rest[i]
        /\ \A i \in 1 .. Len(more) : (rest \o more)[Len(rest) + i] = more[i]
    BY Concat
  <2> DEFINE z == rest \o more
  <2>3. /\ \A i \in 1 .. Len(x) : z[1 + i] = x[i]
        /\ \A i \in 1 .. 2 : z[i] = rest[i]
        /\ \A i \in 1 .. Len(more) : z[2 + i] = more[i]
    BY <1>1, <1>2, <2>1, <2>2
  <2>4. 1 + Len(x) = 2 + Len(more)
    BY <1>1, <1>2, <2>1, <2>2
  <2> HIDE DEF z
  <2>5. DOMAIN x = 1 .. Len(x) /\ DOMAIN more = 1 .. Len(more)
    BY LenProperties
  <2>6. SUFFICES ASSUME NEW i \in 1 .. Len(x)
                 PROVE  \/ i = 1 /\ x[i] = rest[2]
                        \/ i > 1 /\ \E m \in DOMAIN more : x[i] = more[m]
    BY <2>5
  <2>7. CASE i = 1
    <3>1. z[1 + i] = x[i] /\ 1 + i = 2 /\ 2 \in 1 .. 2
      BY <2>3, <2>7
    <3>2. QED
      BY <2>3, <2>7, <3>1
  <2>8. CASE i # 1
    <3>1. i - 1 \in 1 .. Len(more) /\ 2 + (i - 1) = 1 + i /\ i > 1
      BY <2>1, <2>2, <2>4, <2>8
    <3>2. z[2 + (i - 1)] = more[i - 1] /\ z[1 + i] = x[i]
      BY <2>3, <3>1
    <3>3. x[i] = more[i - 1] /\ i - 1 \in DOMAIN more
      BY <2>5, <3>1, <3>2
    <3>4. QED
      BY <3>1, <3>3
  <2>9. QED
    BY <2>7, <2>8
<1>3. CASE w = <<>> /\ u = rest \o body
  <2>1. Len(rest \o body) = Len(rest) + Len(body) /\ Len(body) \in Nat
    BY Concat
  <2>2. 1 = 2 + Len(body)
    BY <1>1, <1>3, <2>1
  <2>3. QED
    BY <2>1, <2>2
<1>4. CASE /\ Len(w) = 1 /\ w[1] # <<>> /\ u \o w[1] = rest \o body
           /\ whole => u = rest \/ (u = <<>> /\ body = <<>>)
  <2>1. w[1] \in Seq(Nat) /\ DOMAIN w = {1}
    BY <1>4, First, LenProperties
  <2>2. \A i \in DOMAIN w[1] :
           \/ i = 1 /\ w[1][i] = rest[2]
           \/ i > 1 /\ \E m \in DOMAIN body : w[1][i] = body[m]
    BY <1>2, <1>4, <2>1
  <2>3. u # rest
    <3>1. Len(u) # 2
      BY <1>1
    <3>2. QED
      BY <3>1
  <2>4. QED
    BY <1>4, <2>1, <2>2, <2>3 DEF Late
<1>5. CASE /\ Len(w) = 2 /\ w[1] # <<>> /\ u \o w[1] = rest
           /\ w[2] = body /\ (whole => u = <<>>)
  <2>1. w[1] \in Seq(Nat) /\ DOMAIN w = {1, 2}
    BY <1>5, First, LenProperties
  <2>2. <<>> \in Seq(Nat) /\ rest \o <<>> = rest /\ DOMAIN <<>> = {}
    BY ConcatEmptySeq, EmptySeq
  <2>3. \A i \in DOMAIN w[1] :
           \/ i = 1 /\ w[1][i] = rest[2]
           \/ i > 1 /\ \E m \in DOMAIN <<>> : w[1][i] = <<>>[m]
    BY <1>2, <1>5, <2>1, <2>2
  <2>4. \A i \in DOMAIN w[1] : i = 1 /\ w[1][i] = rest[2]
    BY <2>2, <2>3
  <2>5. \A i \in DOMAIN w[2] : \E m \in DOMAIN body : w[2][i] = body[m]
    BY <1>5
  <2>6. ~ whole
    BY <1>5
  <2>7. Late(w, rest[2], body)
    <3>1. SUFFICES ASSUME NEW j \in {1, 2}, NEW i \in DOMAIN w[j]
                   PROVE  \/ i = 1 /\ j = 1 /\ w[j][i] = rest[2]
                          \/ /\ i > 1 \/ j > 1
                             /\ \E m \in DOMAIN body : w[j][i] = body[m]
      BY <2>1 DEF Late
    <3>2. CASE j = 1
      BY <2>4, <3>2
    <3>3. CASE j = 2
      BY <2>5, <3>3
    <3>4. QED
      BY <3>2, <3>3
  <2>8. QED
    BY <2>6, <2>7
<1>6. QED
  BY <1>3, <1>4, <1>5 DEF Stream

\* A read of the body finds all of it, or a part of it that TCP has cut off.
LEMMA StreamBody ==
  ASSUME NEW w \in Seq(Seq(Nat)), NEW u \in Seq(Nat),
         NEW body \in Seq(Nat), NEW whole \in BOOLEAN,
         Stream(w, u, whole, <<>>, body), u # <<>>
  PROVE  /\ Len(u) <= Len(body) /\ \A i \in 1 .. Len(u) : u[i] = body[i]
         /\ \/ w = <<>> /\ u = body
            \/ /\ ~ whole /\ u # body /\ DOMAIN w = {1} /\ w # <<>> /\ w[1] # <<>>
               /\ \A i \in DOMAIN w[1] : \E m \in DOMAIN body : w[1][i] = body[m]
<1>1. <<>> \in Seq(Nat) /\ <<>> \o body = body
  BY EmptySeq, ConcatEmptySeq
<1>2. CASE w = <<>> /\ u = body
  <2>1. Len(u) \in Nat
    BY LenProperties
  <2>2. QED
    BY <1>2, <2>1
<1>3. CASE /\ Len(w) = 1 /\ w[1] # <<>> /\ u \o w[1] = body
           /\ whole => u = <<>> \/ (u = <<>> /\ body = <<>>)
  <2>1. PICK x \in Seq(Nat) : x = w[1] /\ x # <<>>
    BY <1>3, First
  <2>2. /\ Len(u \o x) = Len(u) + Len(x) /\ Len(u) \in Nat /\ Len(x) \in Nat
        /\ \A i \in 1 .. Len(u) : (u \o x)[i] = u[i]
        /\ \A i \in 1 .. Len(x) : (u \o x)[Len(u) + i] = x[i]
    BY Concat
  <2>3. Len(x) # 0 /\ DOMAIN w = {1} /\ w # <<>>
    <3>1. Len(x) # 0
      BY <2>1, EmptySeq
    <3>2. DOMAIN w = 1 .. Len(w) /\ Len(w) = 1
      BY <1>3, LenProperties
    <3>3. w = <<>> => Len(w) = 0
      BY EmptySeq
    <3>4. QED
      BY <3>1, <3>2, <3>3
  <2>4. /\ Len(body) = Len(u) + Len(x)
        /\ \A i \in 1 .. Len(u) : body[i] = u[i]
        /\ \A i \in 1 .. Len(x) : body[Len(u) + i] = x[i]
    BY <1>3, <2>1, <2>2
  <2>5. Len(u) <= Len(body) /\ u # body
    BY <2>2, <2>3, <2>4
  <2>6. DOMAIN x = 1 .. Len(x) /\ DOMAIN body = 1 .. Len(body)
    BY LenProperties
  <2>7. \A i \in DOMAIN x : Len(u) + i \in DOMAIN body /\ x[i] = body[Len(u) + i]
    BY <2>2, <2>4, <2>6
  <2>8. QED
    BY <1>3, <2>1, <2>3, <2>4, <2>5, <2>7
<1>4. CASE Len(w) = 2 /\ w[1] # <<>> /\ u \o w[1] = <<>>
  <2>1. PICK x \in Seq(Nat) : x = w[1]
    BY <1>4, First
  <2>2. u = <<>>
    BY <1>4, <2>1, ConcatSimplifications
  <2>3. QED
    BY <2>2
<1>5. QED
  BY <1>1, <1>2, <1>3, <1>4 DEF Stream

\* Where nothing is, nothing more was written.
LEMMA StreamEmpty ==
  ASSUME NEW rest \in Seq(Nat), NEW body \in Seq(Nat), NEW whole \in BOOLEAN,
         NEW w, NEW u, w = <<>>, u = <<>>, Stream(w, u, whole, rest, body)
  PROVE  rest = <<>> /\ body = <<>>
<1>1. Len(w) # 1 /\ Len(w) # 2
  <2>1. Len(w) = 0
    BY EmptySeq
  <2>2. QED
    BY <2>1
<1>2. rest \o body = <<>>
  BY <1>1 DEF Stream
<1>3. QED
  BY <1>2, ConcatSimplifications

-----------------------------------------------------------------------------
(* The size prefix *)

\* Quotient and remainder.
LEMMA Divides ==
  ASSUME NEW b \in Nat \ {0}, NEW x \in Nat
  PROVE  /\ x \div b \in Nat /\ x % b \in 0 .. b - 1 /\ (x \div b) * b + (x % b) = x
         /\ x < b => (x % b) = x
         /\ (x % b) <= x
<1>1. /\ x \div b \in Nat /\ x % b \in 0 .. b - 1 /\ (x \div b) * b + (x % b) = x
  OBVIOUS
<1>2. x < b => (x % b) = x
  OBVIOUS
<1>3. (x \div b) * b >= 0
  BY <1>1
<1>4. (x % b) <= x
  <2>1. PICK q \in Nat, r \in Nat : r = x % b /\ q = (x \div b) * b /\ q + r = x
    BY <1>1, <1>3
  <2>2. r <= x
    BY ONLY <2>1, q \in Nat, r \in Nat
  <2>3. QED
    BY <2>1, <2>2
<1>5. QED
  BY <1>1, <1>2, <1>4

\* What WireAssumption says of the numbers.
LEMMA Limits ==
  /\ Base \in Nat \ {0} /\ Width \in Nat \ {0}
  /\ msgSizeLimit \in Nat /\ 4 <= msgSizeLimit /\ msgSizeLimit < Width
<1>1. /\ Base \in Nat \ {0} /\ msgSizeLimit \in Nat
      /\ 4 <= msgSizeLimit /\ msgSizeLimit < Width
  BY WireAssumption
<1>2. Base * Base \in Nat /\ Base * Base > 0
  BY <1>1
<1>3. QED
  BY <1>1, <1>2 DEF Width

\* The size is what the reader makes of its two bytes, and the body is a part
\* of the message: all of it, when the size is wide enough.
LEMMA SizeFacts ==
  ASSUME NEW str \in Seq(Nat)
  PROVE  /\ Announced(str) \in Nat /\ Announced(str) <= Len(str)
         /\ Size(str) \in Seq(Nat) /\ Len(Size(str)) = 2 /\ Size(str) # <<>>
         /\ Size(str)[1] * Base + Size(str)[2] = Announced(str)
         /\ Size(str)[2] = Announced(str) % Base
         /\ Body(str) \in Seq(Nat) /\ Len(Body(str)) = Announced(str)
         /\ \A i \in 1 .. Announced(str) : Body(str)[i] = str[i]
         /\ Len(str) < Width => Announced(str) = Len(str) /\ Body(str) = str
<1>1. Len(str) \in Nat /\ \A i \in 1 .. Len(str) : str[i] \in Nat
  BY LenProperties, ElementOfSeq
<1>2. PICK a \in Nat : /\ a = Announced(str) /\ a <= Len(str)
                       /\ Len(str) < Width => a = Len(str)
  <2>1. PICK n \in Nat : n = Len(str)
    BY <1>1
  <2>2. PICK b \in Nat \ {0} : b = Width
    BY Limits
  <2>3. n % b \in 0 .. b - 1 /\ (n % b) <= n /\ (n < b => (n % b) = n)
    BY Divides
  <2>4. n % b \in Nat
    BY <2>3
  <2>5. Announced(str) = n % b
    BY <2>1, <2>2 DEF Announced
  <2>6. QED
    BY <2>1, <2>2, <2>3, <2>4, <2>5
<1>3. PICK q \in Nat, r \in Nat : q = a \div Base /\ r = a % Base /\ q * Base + r = a
  <2>1. PICK b \in Nat \ {0} : b = Base
    BY Limits
  <2>2. a \div b \in Nat /\ a % b \in 0 .. b - 1 /\ (a \div b) * b + (a % b) = a
    BY Divides
  <2>3. a % b \in Nat
    BY <2>2
  <2>4. QED
    BY <2>1, <2>2, <2>3
<1>4. Size(str) = <<q, r>>
  BY <1>2, <1>3 DEF Size
<1>5. /\ <<q, r>> \in Seq(Nat) /\ Len(<<q, r>>) = 2 /\ <<q, r>> # <<>>
      /\ <<q, r>>[1] = q /\ <<q, r>>[2] = r
  OBVIOUS
<1>6. Body(str) = SubSeq(str, 1, a)
  BY <1>2 DEF Body
<1>7. /\ SubSeq(str, 1, a) \in Seq(Nat) /\ Len(SubSeq(str, 1, a)) = a
      /\ \A i \in 1 .. a : SubSeq(str, 1, a)[i] = str[i]
  <2>1. CASE a = 0
    <3>1. SubSeq(str, 1, a) = <<>>
      BY <2>1, SubSeqEmpty
    <3>2. <<>> \in Seq(Nat) /\ Len(<<>>) = 0 /\ 1 .. a = {}
      BY <2>1, EmptySeq
    <3>3. QED
      BY <2>1, <3>1, <3>2
  <2>2. CASE a # 0
    <3>1. a \in 1 .. Len(str)
      BY <1>1, <1>2, <2>2
    <3>2. QED
      BY <3>1, Cut
  <2>3. QED
    BY <2>1, <2>2
<1>8. Len(str) < Width => SubSeq(str, 1, a) = str
  <2>1. SubSeq(str, 1, Len(str)) = str
    BY SubSeqFull
  <2>2. QED
    BY <1>2, <2>1
<1>9. QED
  BY <1>2, <1>3, <1>4, <1>5, <1>6, <1>7, <1>8

\* A byte of text for the first of a size: whatever follows, the message is
\* too long.  And so it is if a byte of text follows a byte that is misread.
LEMMA Misreading ==
  /\ \A c \in Nat : c >= Sp => Misread(c) /\ \A b \in Nat : TooLong(c * Base + b)
  /\ \A c, b \in Nat : Misread(c) /\ b >= Sp => TooLong(c * Base + b)
<1>1. Sp * Base > msgSizeLimit /\ Sp \in Nat
  BY WireAssumption DEF Sp
<1>2. ASSUME NEW c \in Nat, c >= Sp
      PROVE  c * Base \in Nat /\ c * Base > msgSizeLimit
  <2>1. PICK d \in Nat : c = Sp + d
    <3>1. c - Sp \in Nat /\ c = Sp + (c - Sp)
      BY <1>1, <1>2
    <3>2. QED
      BY <3>1
  <2>2. PICK m \in Nat, x \in Nat : m = Sp * Base /\ x = d * Base
    BY <1>1, Limits
  <2>3. c * Base = m + x
    BY <2>1, <2>2, <1>1, Limits
  <2>4. QED
    BY <1>1, <2>2, <2>3, Limits
<1>3. \A c \in Nat : c * Base \in Nat
  BY Limits
<1>4. ASSUME NEW c \in Nat, c >= Sp
      PROVE  Misread(c) /\ \A b \in Nat : TooLong(c * Base + b)
  <2>1. PICK x \in Nat : x = c * Base /\ x > msgSizeLimit
    BY <1>2, <1>4
  <2>2. \A b \in Nat : x + b > msgSizeLimit
    BY <2>1, Limits
  <2>3. QED
    BY <1>1, <2>1, <2>2 DEF Misread, TooLong
<1>5. ASSUME NEW c \in Nat, NEW b \in Nat, Misread(c), b >= Sp
      PROVE  TooLong(c * Base + b)
  <2>1. PICK x \in Nat : x = c * Base
    BY <1>3
  <2>2. x + Sp > msgSizeLimit
    BY <1>5, <2>1 DEF Misread
  <2>3. x + b > msgSizeLimit
    BY <1>1, <1>5, <2>2, Limits
  <2>4. QED
    BY <2>1, <2>3 DEF TooLong
<1>6. QED
  BY <1>4, <1>5

-----------------------------------------------------------------------------
(* What is read after a cut *)

\* A text, of spaces and of what names and numbers are made of.
TextBytes(s) == \A i \in DOMAIN s : s[i] >= Sp

\* Every byte of v has arrived before, or now from the first write ...
Gained(v, w, u) ==
  \A i \in DOMAIN v :
    \/ i \in DOMAIN u /\ v[i] = u[i]
    \/ \E k \in DOMAIN w[1] : v[i] = w[1][k] /\ (i > 1 => u # <<>> \/ k > 1)
\* ... and every byte of z was on the way behind another one.
Left(z, w) ==
  \A j \in DOMAIN z : \A i \in DOMAIN z[j] :
    \E l \in DOMAIN w : \E k \in DOMAIN w[l] : z[j][i] = w[l][k] /\ (l > 1 \/ k > 1)

\* A delivery, seen byte by byte.
LEMMA DeliveryBytes ==
  ASSUME NEW w \in Seq(Seq(Nat)), NEW u \in Seq(Nat), w # <<>>,
         NEW n \in 1 .. Len(w[1])
  PROVE  /\ Arrived(w, u, n) \in Seq(Nat) /\ Remaining(w, n) \in Seq(Seq(Nat))
         /\ Arrived(w, u, n) # <<>>
         /\ u # <<>> => Arrived(w, u, n)[1] = u[1]
         /\ u = <<>> => Arrived(w, u, n)[1] = w[1][1]
         /\ 1 \in DOMAIN w /\ w[1] # <<>>
         /\ Gained(Arrived(w, u, n), w, u) /\ Left(Remaining(w, n), w)
<1> DEFINE a == SubSeq(w[1], 1, n)
           b == SubSeq(w[1], n + 1, Len(w[1]))
           u2 == Arrived(w, u, n)
           w2 == Remaining(w, n)
<1>1. /\ u2 \in Seq(Nat) /\ w2 \in Seq(Seq(Nat))
      /\ w[1] \in Seq(Nat) /\ Len(w) \in Nat \ {0}
      /\ Len(Tail(w)) = Len(w) - 1 /\ Tail(w) \in Seq(Seq(Nat))
      /\ \A j \in 1 .. Len(w) - 1 : Tail(w)[j] = w[j + 1]
      /\ n < Len(w[1]) => /\ Len(w2) = Len(w) /\ w2[1] = b
                          /\ \A j \in 2 .. Len(w) : w2[j] = w[j]
  BY Delivery
<1>2. PICK x \in Seq(Nat) : x = w[1] /\ n \in 1 .. Len(x) /\ DOMAIN x = 1 .. Len(x)
  BY <1>1, LenProperties
<1>3. /\ a \in Seq(Nat) /\ Len(a) = n /\ Len(x) \in Nat
      /\ b \in Seq(Nat) /\ Len(b) = Len(x) - n
      /\ \A i \in 1 .. n : a[i] = x[i]
      /\ \A i \in 1 .. Len(x) - n : b[i] = x[n + i]
  <2>1. /\ SubSeq(x, 1, n) \in Seq(Nat) /\ SubSeq(x, n + 1, Len(x)) \in Seq(Nat)
        /\ Len(SubSeq(x, 1, n)) = n /\ Len(SubSeq(x, n + 1, Len(x))) = Len(x) - n
        /\ Len(x) \in Nat
        /\ \A i \in 1 .. n : SubSeq(x, 1, n)[i] = x[i]
        /\ \A i \in 1 .. Len(x) - n : SubSeq(x, n + 1, Len(x))[i] = x[n + i]
    BY <1>2, Cut
  <2>2. a = SubSeq(x, 1, n) /\ b = SubSeq(x, n + 1, Len(x))
    BY <1>2
  <2> HIDE DEF a, b
  <2>3. QED
    BY <2>1, <2>2
<1>4. u2 = u \o a
  BY DEF Arrived
<1>5. n = Len(x) => w2 = Tail(w)
  BY <1>2 DEF Remaining
<1> HIDE DEF a, b, u2, w2
<1>6. /\ Len(u2) = Len(u) + n /\ Len(u) \in Nat
      /\ \A i \in 1 .. Len(u) : u2[i] = u[i]
      /\ \A i \in 1 .. n : u2[Len(u) + i] = x[i]
  BY <1>3, <1>4, Concat
<1>15. PICK lu \in Nat, lx \in Nat, lw \in Nat \ {0} :
         /\ lu = Len(u) /\ lx = Len(x) /\ lw = Len(w)
         /\ n \in 1 .. lx /\ DOMAIN x = 1 .. lx /\ DOMAIN w = 1 .. lw
         /\ DOMAIN u = 1 .. lu /\ DOMAIN u2 = 1 .. lu + n
  <2>1. DOMAIN u2 = 1 .. Len(u2) /\ DOMAIN u = 1 .. Len(u) /\ DOMAIN w = 1 .. Len(w)
    BY <1>1, LenProperties
  <2>2. QED
    BY <1>1, <1>2, <1>3, <1>6, <2>1
<1>16. n \in 1 .. lx
  BY <1>15
<1>7. /\ \A i \in 1 .. lu : u2[i] = u[i]
      /\ \A i \in 1 .. n : u2[lu + i] = x[i]
  BY <1>6, <1>15
<1>8. ASSUME NEW i \in DOMAIN u2
      PROVE  \/ i \in DOMAIN u /\ u2[i] = u[i]
             \/ \E k \in DOMAIN w[1] : u2[i] = w[1][k] /\ (i > 1 => u # <<>> \/ k > 1)
  <2>0. i \in 1 .. lu + n
    BY <1>15
  <2>1. CASE i \in 1 .. lu
    BY <1>7, <1>15, <2>1
  <2>2. CASE i \notin 1 .. lu
    <3>1. PICK k \in 1 .. n : k = i - lu /\ lu + k = i
      <4>1. i - lu \in 1 .. n /\ lu + (i - lu) = i
        BY ONLY <1>16, <2>0, <2>2, lu \in Nat, lx \in Nat
      <4>2. QED
        BY <4>1
    <3>2. k \in 1 .. lx
      BY ONLY <1>16, lx \in Nat, k \in 1 .. n
    <3>3. u2[i] = x[k]
      BY <1>7, <3>1
    <3>4. u = <<>> => lu = 0
      BY <1>15, EmptySeq
    <3>5. u = <<>> => k = i
      BY <3>1, <3>4
    <3>6. QED
      BY <1>2, <1>15, <3>2, <3>3, <3>5
  <2>3. QED
    BY <2>1, <2>2
<1>9. ASSUME NEW j \in DOMAIN w2, NEW i \in DOMAIN w2[j]
      PROVE  \E l \in DOMAIN w : \E k \in DOMAIN w[l] :
               w2[j][i] = w[l][k] /\ (l > 1 \/ k > 1)
  <2>1. DOMAIN w2 = 1 .. Len(w2)
    BY <1>1, LenProperties
  <2>2. CASE n = lx
    <3>1. PICK t : t = Tail(w) /\ Len(t) = lw - 1 /\ \A m \in 1 .. lw - 1 : t[m] = w[m + 1]
      BY <1>1, <1>15
    <3>2. w2 = t
      BY <1>5, <1>15, <2>2, <3>1
    <3>3. j \in 1 .. lw - 1
      BY <2>1, <3>1, <3>2
    <3>4. j + 1 \in 1 .. lw /\ j + 1 > 1
      BY ONLY <3>3, lw \in Nat \ {0}
    <3>5. w2[j] = w[j + 1]
      BY <3>1, <3>2, <3>3
    <3>6. QED
      BY <1>15, <3>4, <3>5
  <2>3. CASE n < lx /\ j = 1
    <3>1. w2[j] = b
      BY <1>1, <1>2, <1>15, <2>3
    <3>2. DOMAIN b = 1 .. Len(x) - n
      BY <1>3, LenProperties
    <3>3. i \in 1 .. lx - n
      BY <1>15, <3>1, <3>2
    <3>4. n + i \in 1 .. lx /\ n + i > 1
      BY ONLY <1>16, <3>3, lx \in Nat
    <3>5. b[i] = x[n + i]
      BY <1>3, <1>15, <3>3
    <3>6. 1 \in DOMAIN w
      BY <1>15
    <3>7. QED
      BY <1>2, <1>15, <2>3, <3>1, <3>4, <3>5, <3>6
  <2>4. CASE n < lx /\ j # 1
    <3>1. Len(w2) = lw /\ \A m \in 2 .. lw : w2[m] = w[m]
      BY <1>1, <1>2, <1>15, <2>4
    <3>2. j \in 1 .. lw
      BY <2>1, <3>1
    <3>3. j \in 2 .. lw /\ j > 1
      BY ONLY <3>2, <2>4, lw \in Nat \ {0}
    <3>4. w2[j] = w[j]
      BY <3>1, <3>3
    <3>5. QED
      BY <1>15, <3>2, <3>3, <3>4
  <2>5. n = lx \/ n < lx
    BY <1>15
  <2>6. QED
    BY <2>2, <2>3, <2>4, <2>5
<1>10. u2 # <<>>
  BY <1>1, <1>6, EmptySeq
<1>11. u # <<>> => u2[1] = u[1]
  <2>1. u # <<>> => 1 \in 1 .. Len(u)
    BY <1>6, EmptySeq
  <2>2. QED
    BY <1>6, <2>1
<1>12. u = <<>> => u2[1] = w[1][1]
  <2>1. u = <<>> => Len(u) = 0 /\ Len(u) + 1 = 1
    BY EmptySeq
  <2>2. 1 \in 1 .. n
    BY <1>2
  <2>3. QED
    BY <1>2, <1>6, <2>1, <2>2
<1>13. 1 \in DOMAIN w /\ w[1] # <<>>
  <2>1. DOMAIN w = 1 .. Len(w)
    BY LenProperties
  <2>2. x = <<>> => Len(x) = 0
    BY EmptySeq
  <2>3. QED
    BY <1>1, <1>2, <2>1, <2>2
<1>14. QED
  BY <1>1, <1>8, <1>9, <1>10, <1>11, <1>12, <1>13 DEF u2, w2, Gained, Left

\* A delivery, whole or cut, leaves what is garbled garbled, ...
LEMMA GarbledDelivery ==
  ASSUME NEW w \in Seq(Seq(Nat)), NEW u \in Seq(Nat), w # <<>>,
         NEW n \in 1 .. Len(w[1]), Garbled(w, u)
  PROVE  Garbled(Remaining(w, n), Arrived(w, u, n))
<1> DEFINE u2 == Arrived(w, u, n)
           w2 == Remaining(w, n)
<1>1. 1 \in DOMAIN w /\ Gained(u2, w, u) /\ Left(w2, w)
  BY DeliveryBytes
<1> HIDE DEF u2, w2
<1>2. \A i \in DOMAIN u2 : Misread(u2[i]) /\ (i > 1 => u2[i] >= Sp)
  BY <1>1 DEF Garbled, Gained
<1>3. \A j \in DOMAIN w2 : \A i \in DOMAIN w2[j] : Misread(w2[j][i]) /\ w2[j][i] >= Sp
  BY <1>1 DEF Garbled, Left
<1>4. Garbled(w2, u2)
  BY <1>2, <1>3 DEF Garbled
<1>5. QED
  BY <1>4 DEF u2, w2

\* ... so does a read of any number of bytes ...
LEMMA GarbledRead ==
  ASSUME NEW w \in Seq(Seq(Nat)), NEW u \in Seq(Nat), NEW n \in 0 .. Len(u),
         Garbled(w, u)
  PROVE  Garbled(w, SubSeq(u, n + 1, Len(u)))
<1> DEFINE v == SubSeq(u, n + 1, Len(u))
<1>1. /\ v \in Seq(Nat) /\ Len(v) = Len(u) - n
      /\ \A i \in 1 .. Len(u) - n : v[i] = u[n + i]
  BY Behind
<1> HIDE DEF v
<1>2. PICK m \in Nat : m = Len(u) /\ n \in 0 .. m
  BY LenProperties
<1>3. DOMAIN u = 1 .. m /\ DOMAIN v = 1 .. m - n
  BY <1>1, <1>2, LenProperties
<1>4. u = <<>> => m = 0
  BY <1>2, EmptySeq
<1>5. ASSUME NEW i \in DOMAIN v
      PROVE  Misread(v[i]) /\ (i > 1 => v[i] >= Sp)
  <2>1. i \in 1 .. m - n
    BY <1>3
  <2>2. n + i \in 1 .. m /\ (i > 1 => n + i > 1)
    BY ONLY <1>2, <2>1, m \in Nat
  <2>3. v[i] = u[n + i]
    BY <1>1, <1>2, <2>1
  <2>4. QED
    BY <1>3, <2>2, <2>3 DEF Garbled
<1>6. u = <<>> => v = <<>>
  <2>1. v # <<>> => Len(v) # 0
    BY <1>1, EmptySeq
  <2>2. m = 0 => m - n = 0
    <3>1. PICK p \in Nat : p = n /\ p <= m
      BY <1>2
    <3>2. m = 0 => m - p = 0
      BY ONLY <3>1, p \in Nat, m \in Nat
    <3>3. QED
      BY <3>1, <3>2
  <2>3. QED
    BY <1>1, <1>2, <1>4, <2>1, <2>2
<1>7. ASSUME NEW j \in DOMAIN w, NEW i \in DOMAIN w[j]
      PROVE  Misread(w[j][i]) /\ (v # <<>> \/ j > 1 \/ i > 1 => w[j][i] >= Sp)
  BY <1>6 DEF Garbled
<1>8. Garbled(w, v)
  BY <1>5, <1>7 DEF Garbled
<1>9. QED
  BY <1>8 DEF v

\* ... and the write of a text.
LEMMA GarbledGrows ==
  ASSUME NEW w \in Seq(Seq(Nat)), NEW u \in Seq(Nat), NEW body \in Seq(Nat),
         TextBytes(body), Garbled(w, u)
  PROVE  Garbled(Append(w, body), u)
<1> DEFINE x == Append(w, body)
<1>1. /\ Len(w) \in Nat /\ DOMAIN w = 1 .. Len(w) /\ DOMAIN x = 1 .. Len(w) + 1
      /\ \A i \in 1 .. Len(w) : x[i] = w[i]
      /\ x[Len(w) + 1] = body
  BY AppendFacts
<1>2. \A i \in DOMAIN body : body[i] >= Sp /\ Misread(body[i])
  <2>1. \A i \in DOMAIN body : body[i] \in Nat
    BY LenProperties, ElementOfSeq
  <2>2. QED
    BY <2>1, Misreading DEF TextBytes
<1> HIDE DEF x
<1>3. \A j \in DOMAIN x : (j \in DOMAIN w /\ x[j] = w[j]) \/ x[j] = body
  BY <1>1
<1>4. ASSUME NEW j \in DOMAIN x, NEW i \in DOMAIN x[j]
      PROVE  Misread(x[j][i]) /\ (u # <<>> \/ j > 1 \/ i > 1 => x[j][i] >= Sp)
  BY <1>2, <1>3 DEF Garbled
<1>5. Garbled(x, u)
  BY <1>4 DEF Garbled
<1>6. QED
  BY <1>5 DEF x

\* What is left on the way when a read got half of a size, or of an answer, is
\* garbled.
LEMMA GarbledBegins ==
  ASSUME NEW w \in Seq(Seq(Nat)), NEW body \in Seq(Nat), TextBytes(body)
  PROVE  /\ \A c : Misread(c) /\ Late(w, c, body) => Garbled(w, <<>>)
         /\ (\A j \in DOMAIN w : \A i \in DOMAIN w[j] :
               \E m \in DOMAIN body : w[j][i] = body[m]) => Garbled(w, <<>>)
<1>1. DOMAIN <<>> = {} /\ <<>> = <<>>
  OBVIOUS
<1>2. \A i \in DOMAIN body : body[i] >= Sp /\ Misread(body[i])
  <2>1. \A i \in DOMAIN body : body[i] \in Nat
    BY LenProperties, ElementOfSeq
  <2>2. QED
    BY <2>1, Misreading DEF TextBytes
<1>3. ASSUME NEW c, Misread(c), Late(w, c, body)
      PROVE  Garbled(w, <<>>)
  <2>1. ASSUME NEW j \in DOMAIN w, NEW i \in DOMAIN w[j]
        PROVE  Misread(w[j][i]) /\ (j > 1 \/ i > 1 => w[j][i] >= Sp)
    <3>1. \/ i = 1 /\ j = 1 /\ w[j][i] = c
          \/ \E m \in DOMAIN body : w[j][i] = body[m]
      BY <1>3 DEF Late
    <3>2. CASE i = 1 /\ j = 1 /\ w[j][i] = c
      BY <1>3, <3>2
    <3>3. CASE \E m \in DOMAIN body : w[j][i] = body[m]
      BY <1>2, <3>3
    <3>4. QED
      BY <3>1, <3>2, <3>3
  <2>2. QED
    BY <1>1, <2>1 DEF Garbled
<1>4. ASSUME \A j \in DOMAIN w : \A i \in DOMAIN w[j] :
               \E m \in DOMAIN body : w[j][i] = body[m]
      PROVE  Garbled(w, <<>>)
  BY <1>1, <1>2, <1>4 DEF Garbled
<1>5. QED
  BY <1>3, <1>4

\* A garbled size is too long.
LEMMA GarbledSize ==
  ASSUME NEW w \in Seq(Seq(Nat)), NEW u \in Seq(Nat), Garbled(w, u), Len(u) >= 2
  PROVE  TooLong(u[1] * Base + u[2])
<1>1. PICK m \in Nat : m = Len(u) /\ m >= 2
  BY LenProperties
<1>2. DOMAIN u = 1 .. m /\ 1 \in 1 .. m /\ 2 \in 1 .. m
  BY <1>1, LenProperties
<1>3. u[1] \in Nat /\ u[2] \in Nat
  BY <1>1, <1>2, ElementOfSeq
<1>4. Misread(u[1]) /\ u[2] >= Sp
  BY <1>2 DEF Garbled
<1>5. QED
  BY <1>3, <1>4, Misreading

\* An agent that is adrift stays so, whatever is written to it and however it
\* is delivered, until it reads a size, which is then too long.
LEMMA AdriftKeeps ==
  ASSUME NEW w \in Seq(Seq(Nat)), NEW u \in Seq(Nat), Adrift(w, u)
  PROVE  /\ \A x \in Seq(Nat) : Adrift(Append(w, x), u)
         /\ w # <<>> => \A n \in 1 .. Len(w[1]) :
                           Adrift(Remaining(w, n), Arrived(w, u, n))
         /\ ~ (w = <<>> /\ u = <<>>)
         /\ u # <<>> /\ Len(u) >= 2 => TooLong(u[1] * Base + u[2])
<1>1. ASSUME NEW x \in Seq(Nat)
      PROVE  Adrift(Append(w, x), u)
  <2>1. /\ Append(w, x) # <<>>
        /\ \A i \in 1 .. Len(w) : Append(w, x)[i] = w[i]
    BY AppendProperties
  <2>2. w # <<>> => 1 \in 1 .. Len(w)
    BY EmptySeq
  <2>3. QED
    BY <2>1, <2>2 DEF Adrift
<1>2. ASSUME w # <<>>, NEW n \in 1 .. Len(w[1])
      PROVE  Adrift(Remaining(w, n), Arrived(w, u, n))
  <2>1. /\ Arrived(w, u, n) # <<>>
        /\ u # <<>> => Arrived(w, u, n)[1] = u[1]
        /\ u = <<>> => Arrived(w, u, n)[1] = w[1][1]
    BY <1>2, DeliveryBytes
  <2>2. QED
    BY <2>1 DEF Adrift
<1>3. ~ (w = <<>> /\ u = <<>>)
  BY DEF Adrift
<1>4. ASSUME u # <<>>, Len(u) >= 2
      PROVE  TooLong(u[1] * Base + u[2])
  <2>1. PICK m \in Nat : m = Len(u) /\ m >= 2
    BY <1>4, LenProperties
  <2>2. 1 \in 1 .. m /\ 2 \in 1 .. m
    BY <2>1
  <2>3. u[1] \in Nat /\ u[2] \in Nat
    BY <2>1, <2>2, ElementOfSeq
  <2>4. u[1] >= Sp
    BY <1>4 DEF Adrift
  <2>5. QED
    BY <2>3, <2>4, Misreading
<1>5. QED
  BY <1>1, <1>2, <1>3, <1>4

-----------------------------------------------------------------------------
(* The text of a task *)

\* A sequence is one of the set its elements are in.
LEMMA Within ==
  ASSUME NEW S, NEW L, NEW s \in Seq(S), \A i \in 1 .. Len(s) : s[i] \in L
  PROVE  s \in Seq(L)
<1>1. Len(s) \in Nat
  BY LenProperties
<1>2. SubSeq(s, 1, Len(s)) \in Seq(L)
  <2>1. PICK m \in Int : m = Len(s)
    BY <1>1
  <2>2. \A i \in 1 .. m : s[i] \in L
    BY <2>1
  <2>3. SubSeq(s, 1, m) \in Seq(L)
    BY <2>2, SubSeqProperties
  <2>4. QED
    BY <2>1, <2>3
<1>3. QED
  BY <1>2, SubSeqFull

\* An element added behind a sequence that begins with a.
LEMMA AppendBehind ==
  ASSUME NEW C, NEW a \in C, NEW more \in Seq(C), NEW w \in C
  PROVE  Append(<<a>> \o more, w) = <<a>> \o Append(more, w)
BY PutFirst

\* The text begins with the first word and a space.
LEMMA JoinedBegins ==
  ASSUME NEW a \in Seq(Nat)
  PROVE  \A more \in Seq(Seq(Nat)) : more # <<>> =>
           \E t \in Seq(Nat) : Joined(<<a>> \o more) = a \o (<<Sp>> \o t)
<1> DEFINE P == {more \in Seq(Seq(Nat)) : more # <<>> =>
                  \E t \in Seq(Nat) : Joined(<<a>> \o more) = a \o (<<Sp>> \o t)}
<1>1. Sp \in Nat /\ <<Sp>> \in Seq(Nat)
  BY DEF Sp
<1>2. <<>> \in P
  OBVIOUS
<1>3. ASSUME NEW more \in Seq(Seq(Nat)), NEW w \in Seq(Nat), more \in P
      PROVE  Append(more, w) \in P
  <2>1. /\ <<a>> \o more \in Seq(Seq(Nat)) /\ <<a>> \o more # <<>>
        /\ Append(<<a>> \o more, w) = <<a>> \o Append(more, w)
    <3>1. <<a>> \o more \in Seq(Seq(Nat)) /\ <<a>> \o more # <<>>
      BY PutFirst
    <3>2. Append(<<a>> \o more, w) = <<a>> \o Append(more, w)
      BY AppendBehind
    <3>3. QED
      BY <3>1, <3>2
  <2>2. Append(more, w) \in Seq(Seq(Nat))
    BY AppendProperties
  <2>3. Joined(<<a>> \o Append(more, w)) = Joined(<<a>> \o more) \o <<Sp>> \o w
    BY <1>1, <2>1, JoinedAppend
  <2>4. \E t \in Seq(Nat) : Joined(<<a>> \o Append(more, w)) = a \o (<<Sp>> \o t)
    <3>1. CASE more = <<>>
      <4>1. <<a>> \o more = <<a>> /\ <<a>> = Append(<<>>, a)
        <5>1. <<a>> \in Seq(Seq(Nat))
          OBVIOUS
        <5>2. QED
          BY <3>1, <5>1, ConcatEmptySeq
      <4>2. <<>> \in Seq(Seq(Nat))
        BY EmptySeq
      <4>3. Joined(Append(<<>>, a)) = a
        BY <1>1, <4>2, JoinedAppend
      <4>4. Joined(<<a>> \o Append(more, w)) = (a \o <<Sp>>) \o w
        BY <2>3, <4>1, <4>3
      <4>5. (a \o <<Sp>>) \o w = a \o (<<Sp>> \o w)
        BY <1>1, Assoc
      <4>6. QED
        BY <4>4, <4>5
    <3>2. CASE more # <<>>
      <4>1. PICK t \in Seq(Nat) : Joined(<<a>> \o more) = a \o (<<Sp>> \o t)
        BY <1>3, <3>2
      <4>2. /\ <<Sp>> \o t \in Seq(Nat) /\ <<Sp>> \o w \in Seq(Nat)
            /\ t \o (<<Sp>> \o w) \in Seq(Nat) /\ a \o (<<Sp>> \o t) \in Seq(Nat)
        BY <1>1, Concat
      <4>3. Joined(<<a>> \o Append(more, w)) = (a \o (<<Sp>> \o t)) \o (<<Sp>> \o w)
        <5>1. ((a \o (<<Sp>> \o t)) \o <<Sp>>) \o w = (a \o (<<Sp>> \o t)) \o (<<Sp>> \o w)
          BY <1>1, <4>2, Assoc
        <5>2. QED
          BY <2>3, <4>1, <5>1
      <4>4. (a \o (<<Sp>> \o t)) \o (<<Sp>> \o w) = a \o ((<<Sp>> \o t) \o (<<Sp>> \o w))
        BY <4>2, Assoc
      <4>5. (<<Sp>> \o t) \o (<<Sp>> \o w) = <<Sp>> \o (t \o (<<Sp>> \o w))
        BY <1>1, <4>2, Assoc
      <4>6. QED
        BY <4>2, <4>3, <4>4, <4>5
    <3>3. QED
      BY <3>1, <3>2
  <2>5. QED
    BY <2>2, <2>4
<1>4. Seq(Seq(Nat)) \subseteq P
  <2> HIDE DEF P
  <2>1. QED
    BY <1>2, <1>3, SeqInduct
<1>5. QED
  BY <1>4

\* The sequence of two elements.
LEMMA Pair ==
  ASSUME NEW S, NEW x \in S, NEW y \in S
  PROVE  /\ <<x, y>> \in Seq(S) /\ Len(<<x, y>>) = 2
         /\ <<x, y>>[1] = x /\ <<x, y>>[2] = y
         /\ Append(<<x>>, y) = <<x, y>> /\ <<x>> \o <<y>> = <<x, y>>
<1>1. /\ <<x>> \in Seq(S) /\ <<y>> \in Seq(S) /\ <<x, y>> \in Seq(S)
      /\ Len(<<x>>) = 1 /\ <<x>>[1] = x
      /\ Len(<<x, y>>) = 2 /\ <<x, y>>[1] = x /\ <<x, y>>[2] = y
  OBVIOUS
<1> DEFINE p == <<x>>
           q == <<x, y>>
           r == Append(p, y)
<1>2. /\ r \in Seq(S) /\ Len(r) = Len(p) + 1 /\ r[Len(p) + 1] = y
      /\ \A i \in 1 .. Len(p) : r[i] = p[i]
  BY <1>1, AppendProperties
<1> HIDE DEF p, q, r
<1>3. Len(r) = 2 /\ r[1] = x /\ r[2] = y
  <2>1. Len(p) = 1 /\ p[1] = x /\ 1 \in 1 .. 1
    BY <1>1 DEF p
  <2>2. QED
    BY <1>2, <2>1
<1>4. r = q
  <2>1. q \in Seq(S) /\ Len(q) = 2 /\ q[1] = x /\ q[2] = y
    BY <1>1 DEF q
  <2>2. \A i \in 1 .. 2 : r[i] = q[i]
    <3>1. \A i \in 1 .. 2 : i = 1 \/ i = 2
      OBVIOUS
    <3>2. QED
      BY <1>3, <2>1, <3>1
  <2>3. QED
    BY <1>2, <1>3, <2>1, <2>2, SeqEqual
<1>5. r = p \o <<y>>
  <2>1. p \in Seq(S)
    BY <1>1 DEF p
  <2>2. QED
    BY <2>1, AppendIsConcat DEF r
<1>6. QED
  BY <1>1, <1>4, <1>5 DEF p, q, r

\* A byte of text is a letter or a space.
LEMMA CharFacts ==
  /\ Char \subseteq Nat /\ Sp \in Char /\ Letter \subseteq Nat
  /\ \A c \in Char : c >= Sp /\ (c # Sp => c \in Letter)
  /\ \A n \in 1 .. 9 : /\ T \in Char \ {Sp} /\ Zero + n - 1 \in Char \ {Sp}
                       /\ T \in Nat /\ Zero + n - 1 \in Nat
  /\ {Sort, Merge, Block} \subseteq Char \ {Sp}
  /\ \A rc \in {0, 1} : Zero + rc \in Char \ {Sp} /\ (Zero + rc) - Zero = rc
<1>1. /\ Char \subseteq Nat /\ Sp \in Char /\ Letter \subseteq Nat
      /\ \A c \in Char : c >= Sp /\ (c # Sp => c \in Letter)
  BY DEF Char, Sp, Letter
<1>2. \A n \in 1 .. 9 : /\ T \in Char \ {Sp} /\ Zero + n - 1 \in Char \ {Sp}
                        /\ T \in Nat /\ Zero + n - 1 \in Nat
  BY DEF Char, Sp, T, Zero
<1>3. {Sort, Merge, Block} \subseteq Char \ {Sp}
  BY DEF Char, Sp, Sort, Merge, Block
<1>4. \A rc \in {0, 1} : Zero + rc \in Char \ {Sp} /\ (Zero + rc) - Zero = rc
  BY DEF Char, Sp, Zero
<1>5. QED
  BY <1>1, <1>2, <1>3, <1>4

\* What WireAssumption says of a task.
LEMMA TaskFacts ==
  ASSUME tasks \in Workloads, NEW n \in 1 .. Len(tasks)
  PROVE  /\ tasks[n].type \in {Sort, Merge, Block}
         /\ tasks[n].args \in Seq(Seq(Char)) \ {<<>>} /\ n \in 1 .. 9
<1> DEFINE R == [type : {Sort, Merge, Block}, args : Seq(Seq(Char)) \ {<<>>}]
<1>1. tasks \in Seq(R) /\ Len(tasks) < 10
  BY WireAssumption
<1>2. tasks[n] \in R
  <2> HIDE DEF R
  <2>1. QED
    BY <1>1, ElementOfSeq
<1>3. Len(tasks) \in Nat
  BY <1>1, LenProperties
<1>4. n \in 1 .. 9
  BY <1>1, <1>3
<1>5. QED
  BY <1>2, <1>4

\* The number of a task is a word of two letters.
LEMMA IdFacts ==
  ASSUME NEW n \in 1 .. 9
  PROVE  /\ Id(n) \in Seq(Char) /\ Id(n) \in Seq(Letter) /\ Id(n) \in Seq(Nat)
         /\ Len(Id(n)) = 2 /\ Id(n)[1] = T /\ Id(n)[2] = Zero + n - 1
<1>1. PICK a, b : /\ a \in Char \ {Sp} /\ b \in Char \ {Sp} /\ a \in Nat /\ b \in Nat
                  /\ a = T /\ b = Zero + n - 1
  BY CharFacts
<1>2. Id(n) = <<a, b>> /\ a \in Letter /\ b \in Letter
  BY <1>1, CharFacts DEF Id
<1>3. QED
  BY <1>1, <1>2

\* What the text of the task n begins with.
Opens(s, n) ==
  /\ s \in Seq(Nat) /\ TextBytes(s) /\ Len(s) >= 3
  /\ s[1] = T /\ s[2] = Zero + n - 1 /\ s[3] = Sp

\* encodeTask writes the serial number, a space and the rest.
LEMMA TextOpens ==
  ASSUME tasks \in Workloads, NEW n \in 1 .. Len(tasks)
  PROVE  Opens(TaskText(n), n)
<1> DEFINE a == Id(n)
           ty == <<tasks[n].type>>
           args == tasks[n].args
           more == <<ty>> \o args
<1>1. /\ tasks[n].type \in Char /\ n \in 1 .. 9
      /\ args \in Seq(Seq(Char)) /\ Sp \in Char /\ Char \subseteq Nat
  BY TaskFacts, CharFacts
<1>2. /\ a \in Seq(Char) /\ a \in Seq(Nat) /\ Len(a) = 2
      /\ a[1] = T /\ a[2] = Zero + n - 1
  BY <1>1, IdFacts
<1>3. ty \in Seq(Char)
  BY <1>1
<1> HIDE DEF a, ty, args
<1>4. <<a, ty>> \o args = <<a>> \o more
  <2>1. <<a>> \in Seq(Seq(Char)) /\ <<ty>> \in Seq(Seq(Char))
    BY <1>2, <1>3
  <2>2. (<<a>> \o <<ty>>) \o args = <<a>> \o (<<ty>> \o args)
    BY <1>1, <2>1, ConcatAssociative
  <2>3. <<a>> \o <<ty>> = <<a, ty>>
    BY <1>2, <1>3, Pair
  <2>4. QED
    BY <2>2, <2>3
<1>5. more \in Seq(Seq(Char)) /\ more # <<>>
  BY <1>1, <1>3, PutFirst
<1> HIDE DEF more
<1>6. more \in Seq(Seq(Nat))
  <2>1. Seq(Char) \subseteq Seq(Nat)
    BY <1>1, SeqMonotonic
  <2>2. QED
    BY <1>5, <2>1, SeqMonotonic
<1>7. PICK t \in Seq(Nat) : Joined(<<a>> \o more) = a \o (<<Sp>> \o t)
  BY <1>2, <1>5, <1>6, JoinedBegins
<1> DEFINE s == Joined(<<a>> \o more)
<1>8. s \in Seq(Char)
  <2>1. <<a>> \o more \in Seq(Seq(Char)) /\ <<a>> \o more # <<>>
    BY <1>2, <1>5, PutFirst
  <2>2. <<>> \in Seq(Char)
    BY EmptySeq
  <2>3. QED
    BY <1>1, <2>1, <2>2, JoinedAppend
<1>9. TaskText(n) = s
  BY <1>4 DEF TaskText, a, ty, args
<1> HIDE DEF s
<1>10. s \in Seq(Nat) /\ TextBytes(s)
  <2>1. s \in Seq(Nat)
    BY <1>1, <1>8, SeqMonotonic
  <2>2. \A i \in DOMAIN s : s[i] \in Char
    BY <1>8, LenProperties, ElementOfSeq
  <2>3. QED
    BY <2>1, <2>2, CharFacts DEF TextBytes
<1>11. Len(s) >= 3 /\ s[1] = T /\ s[2] = Zero + n - 1 /\ s[3] = Sp
  <2>1. PICK z \in Seq(Nat) : z = <<Sp>> \o t /\ Len(z) = 1 + Len(t) /\ z[1] = Sp
    <3>1. <<Sp>> \in Seq(Nat) /\ Len(<<Sp>>) = 1 /\ 1 \in 1 .. 1 /\ <<Sp>>[1] = Sp
      BY CharFacts
    <3>2. QED
      BY <3>1, Concat
  <2>2. /\ Len(a \o z) = Len(a) + Len(z) /\ Len(z) \in Nat
        /\ \A i \in 1 .. Len(a) : (a \o z)[i] = a[i]
        /\ \A i \in 1 .. Len(z) : (a \o z)[Len(a) + i] = z[i]
    BY <1>2, Concat
  <2>3. s = a \o z
    BY <1>7, <2>1 DEF s
  <2>4. /\ Len(s) = 2 + Len(z)
        /\ \A i \in 1 .. 2 : s[i] = a[i]
        /\ \A i \in 1 .. Len(z) : s[2 + i] = z[i]
    BY <1>2, <2>2, <2>3
  <2>5. 1 \in 1 .. Len(z) /\ 2 + 1 = 3 /\ Len(t) \in Nat
    BY <2>1, <2>2, LenProperties
  <2>6. s[1] = a[1] /\ s[2] = a[2] /\ s[3] = z[1]
    BY <2>4, <2>5
  <2>7. Len(s) >= 3
    BY <2>1, <2>4, <2>5
  <2>8. QED
    BY <1>2, <2>1, <2>6, <2>7
<1>12. QED
  BY <1>9, <1>10, <1>11 DEF Opens

\* The first piece stays what it is once a space was read.
LEMMA FragsFirst ==
  ASSUME NEW w \in Seq(Letter)
  PROVE  \A t \in Seq(Nat) :
           LET p == Frags((w \o <<Sp>>) \o t)
           IN  p \in Pieces /\ Len(p) > 1 /\ p[1] = w
<1> DEFINE F1(t) == Frags((w \o <<Sp>>) \o t)
           P == {t \in Seq(Nat) : F1(t) \in Pieces /\ Len(F1(t)) > 1 /\ F1(t)[1] = w}
<1>0. w \in Seq(Nat) /\ Sp \in Nat /\ <<Sp>> \in Seq(Nat) /\ w \o <<Sp>> \in Seq(Nat)
  <2>1. w \in Seq(Nat)
    BY SeqMonotonic, CharFacts
  <2>2. Sp \in Nat /\ <<Sp>> \in Seq(Nat)
    BY DEF Sp
  <2>3. QED
    BY <2>1, <2>2, Concat
<1>1. <<>> \in P
  <2>1. (w \o <<Sp>>) \o <<>> = Append(w, Sp)
    BY <1>0, ConcatEmptySeq, AppendIsConcat
  <2>2. Frags(w) = <<w>> /\ Frags(w) \in Pieces /\ Frags(Append(w, Sp)) = Scanned(Frags(w), Sp)
    BY <1>0, FragsPieces, FragsAppend
  <2>3. Scanned(Frags(w), Sp) = Append(<<w>>, <<>>) /\ Scanned(Frags(w), Sp) \in Pieces
    BY <1>0, <2>2, ScannedFacts
  <2>4. <<>> \in Seq(Nat)
    BY EmptySeq
  <2>5. PICK e \in Seq(Nat) : e = <<>>
    BY <2>4
  <2>6. PICK S : S = Seq(Nat)
    OBVIOUS
  <2>7. w \in S /\ e \in S
    BY <1>0, <2>6
  <2>8. Append(<<w>>, e) = <<w, e>> /\ Len(<<w, e>>) = 2 /\ <<w, e>>[1] = w
    <3>1. Append(<<w>>, e) = <<w, e>>
      <4>1. <<w>> \in Seq(S)
        BY <2>7
      <4>2. Append(<<w>>, e) = <<w>> \o <<e>>
        BY <2>7, <4>1, AppendIsConcat
      <4>3. <<w>> \o <<e>> = <<w, e>>
        BY <2>7, Pair
      <4>4. QED
        BY <4>2, <4>3
    <3>2. Len(<<w, e>>) = 2
      BY <2>7, Pair
    <3>3. <<w, e>>[1] = w
      BY <2>7, Pair
    <3>4. QED
      BY <3>1, <3>2, <3>3
  <2>9. F1(e) = <<w, e>> /\ F1(e) \in Pieces
    BY <2>1, <2>2, <2>3, <2>5, <2>8
  <2> HIDE DEF F1
  <2>10. F1(e) \in Pieces /\ Len(F1(e)) > 1 /\ F1(e)[1] = w
    BY <2>8, <2>9
  <2>11. e \in P
    BY <2>10
  <2>12. QED
    BY <2>5, <2>11
<1>2. ASSUME NEW t \in Seq(Nat), NEW c \in Nat, t \in P
      PROVE  Append(t, c) \in P
  <2>1. (w \o <<Sp>>) \o Append(t, c) = Append((w \o <<Sp>>) \o t, c)
    <3>1. PICK z \in Seq(Nat) : z = w \o <<Sp>>
      BY <1>0
    <3>2. <<c>> \in Seq(Nat) /\ z \o t \in Seq(Nat)
      BY Concat
    <3>3. (z \o t) \o <<c>> = z \o (t \o <<c>>)
      BY <3>2, Assoc
    <3>4. Append(t, c) = t \o <<c>> /\ Append(z \o t, c) = (z \o t) \o <<c>>
      BY <3>2, AppendIsConcat
    <3>5. QED
      BY <3>1, <3>3, <3>4
  <2>2. (w \o <<Sp>>) \o t \in Seq(Nat)
    BY <1>0, Concat
  <2>3. F1(Append(t, c)) = Scanned(F1(t), c)
    BY <2>1, <2>2, FragsAppend
  <2>4. F1(t) \in Pieces /\ Len(F1(t)) > 1 /\ F1(t)[1] = w
    BY <1>2
  <2>5. Append(t, c) \in Seq(Nat)
    BY AppendProperties
  <2> HIDE DEF F1
  <2>6. Scanned(F1(t), c) \in Pieces /\ Len(Scanned(F1(t), c)) > 1 /\ Scanned(F1(t), c)[1] = w
    BY <2>4, ScannedFacts
  <2>7. QED
    BY <2>3, <2>5, <2>6
<1>3. Seq(Nat) \subseteq P
  <2> HIDE DEF P
  <2>1. QED
    BY <1>1, <1>2, SeqInduct
<1>4. QED
  BY <1>3

\* A task a part of whose text was read has its own number, or none.
LEMMA TextPrefix ==
  ASSUME NEW n \in 1 .. 9, NEW s \in Seq(Nat), Opens(s, n),
         NEW str \in Seq(Nat), str # <<>>, Len(str) <= Len(s),
         \A i \in 1 .. Len(str) : str[i] = s[i]
  PROVE  /\ TypeOf(str) = T /\ Frags(str) \in Pieces
         /\ Len(Frags(str)) > 2 => Frags(str)[1] = Id(n)
<1>1. PICK m \in Nat \ {0} : m = Len(str)
  BY EmptySeq
<1>2. DOMAIN str = 1 .. m /\ \A i \in 1 .. m : str[i] = s[i] /\ str[i] \in Nat
  BY <1>1, LenProperties, ElementOfSeq
<1>3. /\ Id(n) \in Seq(Letter) /\ Id(n) \in Seq(Nat)
      /\ Len(Id(n)) = 2 /\ Id(n)[1] = T /\ Id(n)[2] = Zero + n - 1
  BY IdFacts
<1>4. TypeOf(str) = T
  <2>1. 1 \in 1 .. m
    BY <1>1
  <2>2. Head(str) = str[1]
    BY TailFacts
  <2>3. QED
    BY <1>2, <2>1, <2>2 DEF TypeOf, Opens
<1>5. CASE m <= 2
  <2>1. \A i \in 1 .. m : i = 1 \/ i = 2
    BY <1>5
  <2>2. \A i \in 1 .. m : str[i] \in Letter
    <3>1. T \in Letter /\ Zero + n - 1 \in Letter
      BY CharFacts
    <3>2. QED
      BY <1>2, <2>1, <3>1 DEF Opens
  <2>3. str \in Seq(Letter)
    BY <1>1, <2>2, Within
  <2>4. Frags(str) = <<str>>
    BY <2>3, FragsPieces
  <2>5. Len(<<str>>) = 1 /\ <<str>> \in Pieces
    BY DEF Pieces
  <2>6. QED
    BY <1>4, <2>4, <2>5
<1>6. CASE m > 2
  <2>1. PICK t \in Seq(Nat) : str = (Id(n) \o <<Sp>>) \o t
    <3>1. 3 \in 1 .. m
      BY <1>6
    <3>2. /\ SubSeq(str, 1, 3) \in Seq(Nat) /\ SubSeq(str, 4, m) \in Seq(Nat)
          /\ Len(SubSeq(str, 1, 3)) = 3
          /\ \A i \in 1 .. 3 : SubSeq(str, 1, 3)[i] = str[i]
          /\ (<<>> \o SubSeq(str, 1, 3)) \o SubSeq(str, 4, m) = <<>> \o str
      <4>1. 3 \in 1 .. Len(str) /\ 3 + 1 = 4 /\ <<>> \in Seq(Nat)
        BY <1>1, <3>1, EmptySeq
      <4>2. PICK k \in 1 .. Len(str) : k = 3
        BY <4>1
      <4>3. /\ SubSeq(str, 1, k) \in Seq(Nat) /\ SubSeq(str, k + 1, Len(str)) \in Seq(Nat)
            /\ Len(SubSeq(str, 1, k)) = k
            /\ \A i \in 1 .. k : SubSeq(str, 1, k)[i] = str[i]
            /\ \A u \in Seq(Nat) : (u \o SubSeq(str, 1, k)) \o SubSeq(str, k + 1, Len(str)) = u \o str
        BY Cut
      <4>4. k + 1 = 4
        BY <4>1, <4>2
      <4>5. QED
        BY <1>1, <4>1, <4>2, <4>3, <4>4
    <3>3. <<>> \o SubSeq(str, 1, 3) = SubSeq(str, 1, 3) /\ <<>> \o str = str
      BY <3>2, ConcatEmptySeq
    <3>4. PICK z \in Seq(Nat) : /\ z = Id(n) \o <<Sp>> /\ Len(z) = 3
                                /\ z[1] = T /\ z[2] = Zero + n - 1 /\ z[3] = Sp
      <4>1. <<Sp>> \in Seq(Nat) /\ Len(<<Sp>>) = 1 /\ <<Sp>>[1] = Sp
        BY CharFacts
      <4>2. /\ Id(n) \o <<Sp>> \in Seq(Nat) /\ Len(Id(n) \o <<Sp>>) = Len(Id(n)) + Len(<<Sp>>)
            /\ \A i \in 1 .. Len(Id(n)) : (Id(n) \o <<Sp>>)[i] = Id(n)[i]
            /\ \A i \in 1 .. Len(<<Sp>>) : (Id(n) \o <<Sp>>)[Len(Id(n)) + i] = <<Sp>>[i]
        BY <1>3, <4>1, Concat
      <4>3. PICK z : z = Id(n) \o <<Sp>>
        OBVIOUS
      <4>4. /\ z \in Seq(Nat) /\ Len(z) = 3
            /\ \A i \in 1 .. 2 : z[i] = Id(n)[i]
            /\ \A i \in 1 .. 1 : z[2 + i] = <<Sp>>[i]
        BY <1>3, <4>1, <4>2, <4>3
      <4>5. z[1] = Id(n)[1] /\ z[2] = Id(n)[2] /\ z[2 + 1] = <<Sp>>[1]
        BY <4>4
      <4>6. z[1] = T /\ z[2] = Zero + n - 1 /\ z[3] = Sp
        BY <1>3, <4>1, <4>5
      <4>7. QED
        BY <4>3, <4>4, <4>6
    <3>5. SubSeq(str, 1, 3) = z
      <4>1. \A i \in 1 .. 3 : i \in 1 .. m /\ (i = 1 \/ i = 2 \/ i = 3)
        BY <1>6
      <4>2. \A i \in 1 .. 3 : str[i] = z[i]
        BY <1>2, <3>4, <4>1 DEF Opens
      <4>3. PICK y \in Seq(Nat) : /\ y = SubSeq(str, 1, 3) /\ Len(y) = 3
                                  /\ \A i \in 1 .. 3 : y[i] = str[i]
        BY <3>2
      <4>4. \A i \in 1 .. 3 : y[i] = z[i]
        BY <4>2, <4>3
      <4>5. Len(y) = Len(z) /\ \A i \in 1 .. Len(y) : y[i] = z[i]
        BY <3>4, <4>3, <4>4
      <4>6. y = z
        BY <4>5, SeqEqual
      <4>7. QED
        BY <4>3, <4>6
    <3>6. QED
      BY <3>2, <3>3, <3>4, <3>5
  <2>2. QED
    BY <1>3, <1>4, <2>1, FragsFirst
<1>7. QED
  BY <1>1, <1>5, <1>6

-----------------------------------------------------------------------------
(* The messages and the answers *)

\* The messages the dispatcher writes are text; of them only the end of the
\* session is the byte F.
LEMMA MessageFacts ==
  ASSUME tasks \in Workloads, NEW n \in 1 .. Len(tasks) + 1
  PROVE  /\ Message(n) \in Seq(Nat) /\ TextBytes(Message(n)) /\ Message(n) # <<>>
         /\ n <= Len(tasks) => /\ n \in 1 .. Len(tasks) /\ n \in 1 .. 9
                               /\ Opens(Message(n), n) /\ Message(n) # <<F>>
                               /\ Message(n) = TaskText(n)
         /\ ~ (n <= Len(tasks)) => n = Len(tasks) + 1 /\ Message(n) = <<F>>
<1>1. Len(tasks) \in Nat
  <2>1. tasks \in Seq([type : {Sort, Merge, Block}, args : Seq(Seq(Char)) \ {<<>>}])
    BY WireAssumption
  <2>2. QED
    BY <2>1, LenProperties
<1>2. CASE n <= Len(tasks)
  <2>1. n \in 1 .. Len(tasks) /\ Message(n) = TaskText(n)
    BY <1>1, <1>2 DEF Message
  <2>2. n \in 1 .. 9
    BY <2>1, TaskFacts
  <2>3. Opens(Message(n), n)
    BY <2>1, TextOpens
  <2>4. Message(n) \in Seq(Nat) /\ TextBytes(Message(n)) /\ Len(Message(n)) >= 3
    BY <2>3 DEF Opens
  <2>5. Len(<<F>>) = 1 /\ Len(<<>>) = 0
    OBVIOUS
  <2>6. Message(n) # <<F>> /\ Message(n) # <<>>
    <3>1. Len(Message(n)) # 1 /\ Len(Message(n)) # 0
      <4>1. PICK m \in Nat : m = Len(Message(n))
        BY <2>4, LenProperties
      <4>2. QED
        BY <2>4, <4>1
    <3>2. QED
      BY <2>5, <3>1
  <2>7. QED
    BY <1>2, <2>1, <2>2, <2>3, <2>4, <2>6
<1>3. CASE ~ (n <= Len(tasks))
  <2>1. n = Len(tasks) + 1 /\ Message(n) = <<F>>
    BY <1>1, <1>3 DEF Message
  <2>2. <<F>> \in Seq(Nat) /\ TextBytes(<<F>>) /\ <<F>> # <<>>
    BY DEF TextBytes, F, Sp
  <2>3. QED
    BY <1>3, <2>1, <2>2
<1>4. QED
  BY <1>2, <1>3

\* The handler that is called with the whole text of a task, whose names hold
\* no space, is called with the task.
LEMMA TextDecoded ==
  ASSUME tasks \in Workloads, NEW n \in 1 .. Len(tasks), Plain(n)
  PROVE  Decoded(TaskText(n)) =
           {[id |-> Id(n), type |-> tasks[n].type, args |-> tasks[n].args]}
<1> DEFINE S == Seq(Letter)
           a == Id(n)
           ty == <<tasks[n].type>>
           args == tasks[n].args
           words == <<a, ty>> \o args
<1>1. /\ tasks[n].type \in Letter /\ tasks[n].type \in Nat /\ n \in 1 .. 9
      /\ args \in Seq(Seq(Char)) \ {<<>>}
  BY TaskFacts, CharFacts
<1>2. args \in Seq(S)
  <2>1. \A i \in 1 .. Len(args) : args[i] \in S
    <3>1. ASSUME NEW i \in 1 .. Len(args)
          PROVE  args[i] \in S
      <4>1. PICK w \in Seq(Char) : w = args[i]
        BY <1>1, ElementOfSeq
      <4>2. \A j \in 1 .. Len(w) : w[j] # Sp
        <5>1. DOMAIN args = 1 .. Len(args)
          BY <1>1, LenProperties
        <5>2. QED
          BY <4>1, <5>1 DEF Plain, Contains
      <4>3. \A j \in 1 .. Len(w) : w[j] \in Char
        BY ElementOfSeq
      <4>4. \A j \in 1 .. Len(w) : w[j] \in Letter
        BY <4>2, <4>3, CharFacts
      <4>5. w \in Seq(Letter)
        BY <4>4, Within
      <4>6. QED
        BY <4>1, <4>5
    <3>2. QED
      BY <3>1
  <2>2. args \in Seq(Seq(Char))
    BY <1>1
  <2> HIDE DEF args, S
  <2>3. QED
    BY <2>1, <2>2, Within
<1>3. a \in S /\ ty \in S /\ Head(ty) = tasks[n].type /\ ty # <<>>
  <2>1. a \in S
    BY <1>1, IdFacts
  <2>2. PICK z \in Letter : z = tasks[n].type
    BY <1>1
  <2>3. <<z>> \in Seq(Letter) /\ Head(<<z>>) = z /\ <<z>> # <<>>
    OBVIOUS
  <2>4. QED
    BY <2>1, <2>2, <2>3
<1>4. args # <<>> /\ Len(args) \in Nat \ {0}
  BY <1>1, <1>2, EmptySeq
<1>5. TaskText(n) = Joined(words)
  BY DEF TaskText
<1>6. PICK x \in Seq(S) : x = <<a, ty>> /\ Len(x) = 2 /\ x[1] = a /\ x[2] = ty
  <2> HIDE DEF S, a, ty
  <2>1. <<a, ty>> \in Seq(S)
    BY <1>3, Pair
  <2>2. Len(<<a, ty>>) = 2
    BY <1>3, Pair
  <2>3. <<a, ty>>[1] = a /\ <<a, ty>>[2] = ty
    BY <1>3, Pair
  <2>4. QED
    BY <2>1, <2>2, <2>3
<1> DEFINE y == x \o args
<1>7. words = y
  BY <1>6
<1> HIDE DEF S, a, ty, args, words
<1>8. y \in Seq(S) /\ Len(y) = 2 + Len(args) /\ y[1] = a /\ y[2] = ty
  <2>1. /\ y \in Seq(S) /\ Len(y) = Len(x) + Len(args)
        /\ \A i \in 1 .. Len(x) + Len(args) : y[i] = IF i <= Len(x) THEN x[i] ELSE args[i - Len(x)]
    BY <1>2, ConcatProperties
  <2>2. 1 \in 1 .. 2 + Len(args) /\ 2 \in 1 .. 2 + Len(args)
    BY <1>4
  <2> HIDE DEF y
  <2>3. y[1] = x[1] /\ y[2] = x[2]
    BY <1>6, <2>1, <2>2
  <2>4. QED
    BY <1>6, <2>1, <2>3
<1>9. SubSeq(y, 3, Len(y)) = args
  <2>1. PICK m \in Nat \ {0} : m = Len(args)
    BY <1>4
  <2>2. 3 \in Len(x) + 1 .. Len(x) + Len(args) /\ 2 + m \in Len(x) + 1 .. Len(x) + Len(args)
    BY <1>6, <2>1
  <2>3. SubSeq(y, 3, 2 + m) = SubSeq(args, 3 - Len(x), (2 + m) - Len(x))
    BY <1>2, <2>2, SubSeqOfConcat2
  <2>4. 3 - Len(x) = 1 /\ (2 + m) - Len(x) = m
    BY <1>6
  <2>5. SubSeq(args, 1, Len(args)) = args
    BY <1>2, SubSeqFull
  <2>6. QED
    BY <1>8, <2>1, <2>3, <2>4, <2>5
<1>10. Frags(Joined(y)) = y
  <2>1. y # <<>>
    <3>1. Len(<<>>) = 0 /\ Len(y) # 0
      BY <1>4, <1>8
    <3>2. QED
      BY <3>1
  <2> HIDE DEF y
  <2>2. QED
    BY <1>8, <2>1, FragsOfJoined DEF S
<1>11. TypeOf(ty) = tasks[n].type
  BY <1>3 DEF TypeOf
<1>12. ~ (Len(y) <= 2)
  BY <1>4, <1>8
<1> HIDE DEF y
<1>13. Decoded(TaskText(n)) = {[id |-> y[1], type |-> TypeOf(y[2]), args |-> SubSeq(y, 3, Len(y))]}
  BY <1>5, <1>7, <1>10, <1>12 DEF Decoded
<1>14. QED
  BY <1>8, <1>9, <1>11, <1>13 DEF a, args

\* A handler that is called with a part of a task fails unless it was told
\* the number of the task.
LEMMA PrefixDecoded ==
  ASSUME NEW n \in 1 .. 9, NEW s \in Seq(Nat), Opens(s, n),
         NEW str \in Seq(Nat), str # <<>>, Len(str) <= Len(s),
         \A i \in 1 .. Len(str) : str[i] = s[i]
  PROVE  /\ ~ (str = <<>> \/ TypeOf(str) = F)
         /\ \A task \in Decoded(str) :
              /\ task.id \in {Id(n), <<>>} /\ task.type \in Nat
              /\ task.args \in Seq(Seq(Nat))
              /\ \A rc \in ReturnCode(task.type, task.args) :
                   rc \in {0, 1} /\ (rc = 0 => task.id = Id(n))
<1>1. /\ TypeOf(str) = T /\ Frags(str) \in Pieces
      /\ Len(Frags(str)) > 2 => Frags(str)[1] = Id(n)
  BY TextPrefix
<1>2. ~ (str = <<>> \/ TypeOf(str) = F)
  BY <1>1 DEF T, F
<1>3. PICK p \in Seq(Seq(Nat)) : p = Frags(str) /\ Len(p) \in Nat
  BY <1>1, LenProperties DEF Pieces
<1>4. ASSUME NEW task \in Decoded(str)
      PROVE  /\ task.id \in {Id(n), <<>>} /\ task.type \in Nat
             /\ task.args \in Seq(Seq(Nat))
             /\ \A rc \in ReturnCode(task.type, task.args) :
                  rc \in {0, 1} /\ (rc = 0 => task.id = Id(n))
  <2>1. CASE Len(p) <= 2
    <3>1. /\ task.id = <<>> /\ task.type \in {0, Sort, Merge, Block}
          /\ task.args = <<>>
      BY <1>3, <2>1 DEF Decoded
    <3>2. /\ {0, Sort, Merge, Block} \subseteq Nat /\ <<>> \in Seq(Seq(Nat))
          /\ Len(<<>>) = 0
      BY EmptySeq DEF Sort, Merge, Block
    <3>3. ReturnCode(task.type, task.args) = {1}
      BY <3>1, <3>2 DEF ReturnCode, Accepts
    <3>4. QED
      BY <3>1, <3>2, <3>3
  <2>2. CASE ~ (Len(p) <= 2)
    <3>1. /\ task.id = p[1] /\ task.type = TypeOf(p[2])
          /\ task.args = SubSeq(p, 3, Len(p))
      BY <1>3, <2>2 DEF Decoded
    <3>2. PICK m \in Nat : m = Len(p) /\ m > 2
      BY <1>3, <2>2
    <3>3. task.id = Id(n)
      BY <1>1, <1>3, <3>1, <3>2
    <3>4. PICK w \in Seq(Nat) : w = p[2]
      <4>1. 2 \in 1 .. Len(p)
        BY <3>2
      <4>2. QED
        BY <4>1, ElementOfSeq
    <3>5. TypeOf(w) \in Nat
      <4>1. w # <<>> => Head(w) \in Nat
        BY TailFacts
      <4>2. QED
        BY <4>1 DEF TypeOf
    <3>6. SubSeq(p, 3, m) \in Seq(Seq(Nat))
      <4>1. \A i \in 3 .. m : i \in 1 .. Len(p)
        BY <3>2
      <4>2. \A i \in 3 .. m : p[i] \in Seq(Nat)
        BY <4>1, ElementOfSeq
      <4>3. QED
        BY <3>2, <4>2, SubSeqProperties
    <3>7. ReturnCode(task.type, task.args) \subseteq {0, 1}
      BY DEF ReturnCode
    <3>8. QED
      BY <3>1, <3>2, <3>3, <3>4, <3>5, <3>6, <3>7
  <2>3. QED
    BY <2>1, <2>2
<1>5. QED
  BY <1>2, <1>4

\* A result is told back as it was sent.
LEMMA ResultFacts ==
  ASSUME NEW n \in 1 .. 9, NEW id \in {Id(n), <<>>}, NEW rc \in {0, 1}
  PROVE  /\ ResultText(id, rc) \in Seq(Nat) /\ TextBytes(ResultText(id, rc))
         /\ ResultText(id, rc) # <<F>> /\ Len(ResultText(id, rc)) \in {2, 4}
         /\ IsResult(ResultText(id, rc)) /\ ~ Throws(ResultText(id, rc))
         /\ Head(Frags(ResultText(id, rc))) = id
         /\ Head(Last(Frags(ResultText(id, rc)))) - Zero = rc
         /\ \A str \in Seq(Nat) : IsStrictPrefix(str, ResultText(id, rc)) =>
              ~ IsResult(str) \/ Throws(str)
<1> DEFINE R == ResultText(id, rc)
           S == Seq(Letter)
           z == Zero + rc
           w == <<z>>
<1>1. PICK m \in {0, 2} : m = Len(id)
  <2>1. Len(<<>>) = 0
    OBVIOUS
  <2>2. QED
    BY <2>1, IdFacts
<1>2. id \in Seq(Char) /\ id \in S /\ id \in Seq(Nat)
  <2>1. <<>> \in Seq(Char) /\ <<>> \in S /\ <<>> \in Seq(Nat)
    BY EmptySeq
  <2>2. QED
    BY <2>1, IdFacts
<1>3. z \in Char /\ z \in Letter /\ z \in Nat /\ z - Zero = rc /\ z \in Zero .. Zero + 9
  <2>1. z \in Char \ {Sp} /\ z - Zero = rc
    BY CharFacts
  <2>2. z \in Zero .. Zero + 9
    BY DEF Zero
  <2>3. QED
    BY <2>1, <2>2, CharFacts
<1> HIDE DEF z
<1>4. /\ w \in Seq(Char) /\ w \in S /\ w \in Seq(Nat) /\ Len(w) = 1 /\ w[1] = z
      /\ Head(w) = z /\ w # <<>>
  <2>1. /\ w \in Seq(Char) /\ w \in Seq(Letter) /\ w \in Seq(Nat) /\ Len(w) = 1 /\ w[1] = z
    BY <1>3
  <2>2. Head(w) = z /\ w # <<>>
    BY <1>3
  <2>3. QED
    BY <2>1, <2>2
<1> HIDE DEF w, S
<1>5. Sp \in Char /\ <<Sp>> \in Seq(Nat) /\ Len(<<Sp>>) = 1
  BY CharFacts
<1>6. R = id \o <<Sp>> \o w /\ R \in Seq(Char)
  <2>1. /\ <<id>> \in Seq(Seq(Char)) /\ <<id>> # <<>> /\ <<>> \in Seq(Seq(Char))
        /\ <<id>> = Append(<<>>, id)
    <3>1. <<id>> \in Seq(Seq(Char)) /\ <<>> \in Seq(Seq(Char)) /\ <<id>> # <<>>
      BY <1>2, EmptySeq
    <3>2. Append(<<>>, id) = <<>> \o <<id>>
      BY <1>2, <3>1, AppendIsConcat
    <3>3. <<>> \o <<id>> = <<id>>
      BY <3>1, ConcatEmptySeq
    <3>4. QED
      BY <3>1, <3>2, <3>3
  <2>2. Joined(<<id>>) = id
    <3>1. PICK v \in Seq(Char) : v = id
      BY <1>2
    <3>2. PICK words \in Seq(Seq(Char)) : words = <<>>
      BY <2>1
    <3>3. Sp \in Char
      BY <1>5
    <3>4. Joined(Append(words, v)) = v
      BY <3>2, <3>3, JoinedAppend
    <3>5. QED
      BY <2>1, <3>1, <3>2, <3>4
  <2>3. Append(<<id>>, w) = <<id, w>>
    <3>1. Append(<<id>>, w) = <<id>> \o <<w>>
      BY <1>4, <2>1, AppendIsConcat
    <3>2. <<id>> \o <<w>> = <<id, w>>
      BY <1>2, <1>4, Pair
    <3>3. QED
      BY <3>1, <3>2
  <2>4. Joined(Append(<<id>>, w)) = Joined(<<id>>) \o <<Sp>> \o w
    BY <1>4, <1>5, <2>1, JoinedAppend
  <2>5. /\ Append(<<id>>, w) \in Seq(Seq(Char)) /\ Append(<<id>>, w) # <<>>
        /\ <<>> \in Seq(Char)
    BY <1>4, <2>1, AppendProperties, EmptySeq
  <2>6. Joined(Append(<<id>>, w)) \in Seq(Char)
    BY <1>5, <2>5, JoinedAppend
  <2>7. R = Joined(<<id, w>>)
    BY DEF ResultText, w, z
  <2>8. QED
    BY <2>2, <2>3, <2>4, <2>6, <2>7
<1> HIDE DEF R
<1>7. R \in Seq(Nat) /\ TextBytes(R)
  <2>1. R \in Seq(Nat)
    BY <1>6, SeqMonotonic, CharFacts
  <2>2. \A i \in DOMAIN R : R[i] \in Char
    BY <1>6, LenProperties, ElementOfSeq
  <2>3. QED
    BY <2>1, <2>2, CharFacts DEF TextBytes
<1>8. PICK q \in Seq(Nat) : /\ q = id \o <<Sp>> /\ Len(q) = m + 1
                            /\ \A i \in 1 .. m : q[i] = id[i]
  <2>1. /\ id \o <<Sp>> \in Seq(Nat) /\ Len(id \o <<Sp>>) = Len(id) + Len(<<Sp>>)
        /\ \A i \in 1 .. Len(id) : (id \o <<Sp>>)[i] = id[i]
    BY <1>2, <1>5, Concat
  <2>2. QED
    BY <1>1, <1>5, <2>1
<1>9. /\ R = q \o w /\ Len(R) = m + 2
      /\ \A i \in 1 .. m + 1 : R[i] = q[i]
  <2>1. R = q \o w
    BY <1>6, <1>8
  <2>2. /\ Len(q \o w) = Len(q) + Len(w)
        /\ \A i \in 1 .. Len(q) : (q \o w)[i] = q[i]
    BY <1>4, Concat
  <2>3. QED
    BY <1>1, <1>4, <1>8, <2>1, <2>2
<1>10. Len(R) \in {2, 4} /\ R # <<F>> /\ R # <<>>
  <2>1. Len(R) \in {2, 4}
    <3>1. m = 0 \/ m = 2
      OBVIOUS
    <3>2. m + 2 \in {2, 4}
      BY ONLY <3>1
    <3>3. Len(R) = m + 2
      BY <1>9
    <3>4. QED
      BY ONLY <3>2, <3>3
  <2>2. Len(<<F>>) = 1 /\ Len(<<>>) = 0
    OBVIOUS
  <2>3. Len(R) # 1 /\ Len(R) # 0
    BY ONLY <2>1
  <2>4. QED
    BY <2>1, <2>2, <2>3
<1>11. Frags(id) = <<id>> /\ Frags(R) = <<id, w>> /\ Frags(q) = <<id, <<>>>>
  <2>1. Frags(id) = <<id>>
    BY <1>2, FragsPieces DEF S
  <2>2. PICK e \in Seq(Letter) : e = <<>>
    BY EmptySeq
  <2>3. \A v \in Seq(Letter) : Frags(id \o <<Sp>> \o v) = Append(Frags(id), v)
    BY <1>2, FragsPieces DEF S
  <2>4. \A v \in S : Append(<<id>>, v) = <<id, v>>
    <3>1. ASSUME NEW v \in S
          PROVE  Append(<<id>>, v) = <<id, v>>
      <4>1. <<id>> \in Seq(S)
        BY <1>2
      <4>2. Append(<<id>>, v) = <<id>> \o <<v>>
        BY <4>1, AppendIsConcat
      <4>3. <<id>> \o <<v>> = <<id, v>>
        BY <1>2, Pair
      <4>4. QED
        BY <4>2, <4>3
    <3>2. QED
      BY <3>1
  <2>5. Frags(R) = <<id, w>>
    BY <1>4, <1>6, <2>1, <2>3, <2>4 DEF S
  <2>6. q \o e = q
    BY <2>2, ConcatEmptySeq
  <2>7. Frags(q) = <<id, e>>
    BY <1>8, <2>1, <2>3, <2>4, <2>6 DEF S
  <2>8. QED
    BY <2>1, <2>2, <2>5, <2>7
<1>12. \A v \in S : /\ Len(<<id, v>>) = 2 /\ Head(<<id, v>>) = id /\ Last(<<id, v>>) = v
  <2>1. ASSUME NEW v \in S
        PROVE  Len(<<id, v>>) = 2 /\ Head(<<id, v>>) = id /\ Last(<<id, v>>) = v
    <3>1. PICK y : y = <<id, v>>
      OBVIOUS
    <3>2. y \in Seq(S)
      BY <1>2, <3>1, Pair
    <3>3. Len(y) = 2
      BY <1>2, <3>1, Pair
    <3>4. y[1] = id /\ y[2] = v
      BY <3>1
    <3>5. Head(y) = y[1]
      BY <3>2, <3>3, EmptySeq, TailFacts
    <3>6. QED
      BY <3>1, <3>3, <3>4, <3>5 DEF Last
  <2>2. QED
    BY <2>1
<1>13. IsResult(R) /\ ~ Throws(R) /\ Head(Frags(R)) = id /\ Head(Last(Frags(R))) - Zero = rc
  <2>1. Len(<<id, w>>) = 2 /\ Head(<<id, w>>) = id /\ Last(<<id, w>>) = w
    BY <1>4, <1>12
  <2>2. TypeOf(w) = z
    BY <1>4 DEF TypeOf
  <2>3. QED
    BY <1>3, <1>4, <1>10, <1>11, <2>1, <2>2 DEF IsResult, Throws
<1>14. ASSUME NEW str \in Seq(Nat), IsStrictPrefix(str, R)
       PROVE  ~ IsResult(str) \/ Throws(str)
  <2>1. PICK k \in Nat : k = Len(str) /\ Len(str) <= Len(R) /\ k <= m + 2
    <3>1. Len(str) \in Nat
      BY LenProperties
    <3>2. QED
      BY <1>9, <1>14, <3>1 DEF IsStrictPrefix, IsPrefix
  <2>2. \A i \in 1 .. k : str[i] = R[i]
    <3>1. SubSeq(str, 1, k) = str
      BY <2>1, SubSeqFull
    <3>2. SubSeq(str, 1, Len(str)) = SubSeq(R, 1, Len(str))
      BY <1>14 DEF IsStrictPrefix, IsPrefix
    <3>3. CASE k = 0
      BY <3>3
    <3>4. CASE k # 0
      <4>1. k \in 1 .. Len(R)
        BY <1>1, <1>9, <2>1, <3>4
      <4>2. \A i \in 1 .. k : SubSeq(R, 1, k)[i] = R[i]
        BY <1>7, <4>1, Cut
      <4>3. QED
        BY <2>1, <3>1, <3>2, <4>2
    <3>5. QED
      BY <3>3, <3>4
  <2>3. k # m + 2
    <3>1. ASSUME k = m + 2
          PROVE  FALSE
      <4>1. Len(str) = Len(R) /\ \A i \in 1 .. Len(str) : str[i] = R[i]
        BY <1>9, <2>1, <2>2, <3>1
      <4>2. str = R
        BY <1>7, <4>1, SeqEqual
      <4>3. QED
        BY <1>14, <4>2 DEF IsStrictPrefix
    <3>2. QED
      BY <3>1
  <2>4. CASE k = m + 1
    <3>1. Len(str) = Len(q) /\ \A i \in 1 .. Len(str) : str[i] = q[i]
      BY <1>8, <1>9, <2>1, <2>2, <2>4
    <3>2. str = q
      BY <3>1, SeqEqual
    <3>3. PICK e \in S : e = <<>>
      BY EmptySeq DEF S
    <3>4. Frags(str) = <<id, e>> /\ Len(<<id, e>>) = 2 /\ Last(<<id, e>>) = e
      BY <1>11, <1>12, <3>2, <3>3
    <3>5. TypeOf(e) = 0 /\ 0 \notin Zero .. Zero + 9
      BY <3>3 DEF TypeOf, Zero
    <3>6. QED
      BY <3>4, <3>5 DEF IsResult, Throws
  <2>5. CASE k <= m
    <3>1. \A i \in 1 .. k : i \in 1 .. m /\ i \in 1 .. m + 1
      BY <1>1, <2>5
    <3>2. \A i \in 1 .. k : str[i] = id[i]
      BY <1>8, <1>9, <2>2, <3>1
    <3>3. \A i \in 1 .. m : id[i] \in Letter
      BY <1>1, <1>2, ElementOfSeq DEF S
    <3>4. \A i \in 1 .. k : str[i] \in Letter
      BY <3>1, <3>2, <3>3
    <3>5. str \in Seq(Letter)
      BY <2>1, <3>4, Within
    <3>6. Frags(str) = <<str>>
      BY <3>5, FragsPieces
    <3>7. Len(<<str>>) = 1
      OBVIOUS
    <3>8. QED
      BY <3>6, <3>7 DEF IsResult
  <2>6. QED
    BY <1>1, <2>1, <2>3, <2>4, <2>5
<1>15. QED
  BY <1>7, <1>10, <1>13, <1>14 DEF R

-----------------------------------------------------------------------------
(* The parts of the invariant as relations of the values they depend on: k,  *)
(* the message sent last, m, and its answer r, where the dispatcher, d, and  *)
(* the agent, a, are, the tasks handled, h, what is on the way, w, and has   *)
(* arrived, u, and the text t of the end in question.                        *)
\* Nothing is on the way, or waits to be read; an end that handles no task
\* any more; what has been written of the message.
Still(w, u) == w = <<>> /\ u = <<>>
Losing(a, t) == a \in {"drain", "spin", "closed", "dead", "out"} \/ (a = "got" /\ t = <<>>)
Sent(d, m) == IF d = "writeBody" THEN <<>> ELSE Body(m)
\* The agent reads the message sent last.
TakesTask(d, a, m, w, u, t, whole) ==
  \/ a = "size" /\ Stream(w, u, whole, Size(m), Sent(d, m))
  \/ a = "body" /\ Stream(w, u, whole, <<>>, Sent(d, m)) /\ ~ TooLong(Announced(m))
  \/ /\ a = "got" /\ d # "writeBody"
     /\ \/ t = Sent(d, m) /\ Still(w, u)
        \/ IsPrefix(t, Sent(d, m)) /\ ~ whole /\ Adrift(w, u)
\* AgentInStep.
AgentAt(k, d, a, h, m, r, w, u, t, whole) ==
  \/ Losing(a, t)
  \/ a = "off" /\ Still(w, u) /\ k = 0 /\ h = 0
  \/ a = "size" /\ Still(w, u) /\ (h = k \/ d = "writeSize")
  \/ a = "size" /\ ~ whole /\ Adrift(w, u)
  \/ h = k - 1 /\ d \notin {"ready", "writeSize"} /\ TakesTask(d, a, m, w, u, t, whole)
  \/ /\ h = k /\ k > 0 /\ a \in {"writeSize", "writeBody"} /\ t = r
     /\ Still(w, u) \/ (~ whole /\ Adrift(w, u))

\* Astray, Waiting and DispatcherInStep.
AstrayAt(k, d, a, h, r, w, u, t, whole) ==
  /\ d \in {"size", "got", "drain", "spin", "dead"}
  /\ d = "got" => t = <<>> \/ (h = k /\ IsStrictPrefix(t, r))
  /\ a \in {"closed", "dead"} \/ (h = k /\ a # "writeSize")
  /\ Garbled(w, u)
  /\ whole => /\ Still(w, u) /\ a \in {"closed", "dead"}
              /\ d = "size" \/ (d = "got" /\ t = <<>>)
AnswerAt(d, a, r, w, u, whole, sent) ==
  /\ a = "writeBody" => sent = <<>>
  /\ sent = <<>> => a \in {"writeBody", "dead"}
  /\ \/ d = "size" /\ Stream(w, u, whole, Size(r), sent)
     \/ d = "body" /\ Stream(w, u, whole, <<>>, sent)
WaitAt(k, d, a, h, r, w, u, t, whole) ==
  \/ AstrayAt(k, d, a, h, r, w, u, t, whole)
  \/ d = "size" /\ Still(w, u) /\ (h < k \/ a \in {"writeSize", "dead"})
  \/ /\ h = k /\ a # "writeSize"
     /\ \/ \E sent \in {<<>>, r} : AnswerAt(d, a, r, w, u, whole, sent)
        \/ d = "got" /\ a # "writeBody" /\ t = r /\ Still(w, u)
DispatcherAt(k, d, a, h, l, n, m, r, w, u, t, whole) ==
  \/ d = "off" /\ k = 0 /\ l = k /\ h = k /\ Still(w, u)
  \/ /\ d = "ready" /\ l = k /\ h = k /\ k <= n
     /\ Still(w, u) /\ a \notin {"writeSize", "writeBody"}
  \/ d = "closed" /\ k = 0 /\ l = k /\ h = k
  \/ d = "closed" /\ k = n + 1 /\ k > 0 /\ l = k - 1 /\ h = k - 1
  \/ /\ d \in {"writeSize", "writeBody"} /\ k > 0 /\ l = k - 1 /\ h = k - 1
     /\ Still(w, u) /\ t = m
  \/ /\ k > 0 /\ l = k - 1 /\ h \in {k - 1, k} /\ k <= n
     /\ WaitAt(k, d, a, h, r, w, u, t, whole)

\* The parts of the invariant of the current state.
AgentState ==
  AgentAt(next - 1, pc["dispatcher"], pc["agent"], Len(handled), Message(next - 1),
          Reply(next - 1), wire["agent"], buf["agent"], text["agent"], cuts = 0)
DispatcherState ==
  DispatcherAt(next - 1, pc["dispatcher"], pc["agent"], Len(handled), Len(results),
               Len(tasks), Message(next - 1), Reply(next - 1), wire["dispatcher"],
               buf["dispatcher"], text["dispatcher"], cuts = 0)

\* The two ways to write the agent's part of the invariant agree ...
LEMMA AgentForm ==
  /\ TypeOK => (AgentInStep <=> AgentState)
  /\ TypeOK' => (AgentInStep' <=> AgentState')
<1>1. \A c \in 0 .. MaxCuts : c > 0 <=> ~ (c = 0)
  BY WireAssumption
<1>2. TypeOK => (AgentInStep <=> AgentState)
  BY <1>1 DEF TypeOK, AgentInStep, AgentState, AgentAt, TakesTask, Still, Losing, Sent,
              Lost, Quiet, Drifting, Coming
<1>3. TypeOK' => (AgentInStep' <=> AgentState')
  BY <1>1 DEF TypeOK, AgentInStep, AgentState, AgentAt, TakesTask, Still, Losing, Sent,
              Lost, Quiet, Drifting, Coming
<1>4. QED
  BY <1>2, <1>3

\* ... and those of the dispatcher's.
LEMMA DispatcherForm ==
  /\ DispatcherInStep <=> DispatcherState
  /\ DispatcherInStep' <=> DispatcherState'
<1>1. DispatcherInStep <=> DispatcherState
  BY DEF DispatcherInStep, DispatcherState, DispatcherAt, WaitAt, AnswerAt, AstrayAt,
         Still, Quiet, Coming, Waiting, Astray
<1>2. DispatcherInStep' <=> DispatcherState'
  BY DEF DispatcherInStep, DispatcherState, DispatcherAt, WaitAt, AnswerAt, AstrayAt,
         Still, Quiet, Coming, Waiting, Astray
<1>3. QED
  BY <1>1, <1>2

\* What was whole may be taken for cut.
LEMMA StreamStill ==
  \A w, u, rest, body : \A whole, still \in BOOLEAN :
    (still => whole) /\ Stream(w, u, whole, rest, body) => Stream(w, u, still, rest, body)
BY DEF Stream

(* The agent's part of the invariant, step by step *)

\* Where the dispatcher is does not matter unless it writes, or is about to.
LEMMA AgentKeeps ==
  ASSUME NEW k, NEW d, NEW a, NEW h, NEW m, NEW r, NEW w, NEW u, NEW t,
         NEW whole \in BOOLEAN, NEW still \in BOOLEAN, NEW e, still => whole,
         e = d \/ (d # "writeBody" /\ e \notin {"ready", "writeSize", "writeBody"}
                   /\ (h = k \/ d # "writeSize")),
         AgentAt(k, d, a, h, m, r, w, u, t, whole)
  PROVE  AgentAt(k, e, a, h, m, r, w, u, t, still)
<1>1. TakesTask(d, a, m, w, u, t, whole) /\ e # d =>
        TakesTask(e, a, m, w, u, t, still)
  BY StreamStill DEF TakesTask, Sent
<1>2. TakesTask(d, a, m, w, u, t, whole) => TakesTask(d, a, m, w, u, t, still)
  BY StreamStill DEF TakesTask
<1>3. QED
  BY <1>1, <1>2 DEF AgentAt

\* Before the first task.
LEMMA AgentIdle ==
  ASSUME NEW d, NEW a, NEW m, NEW r, NEW w, NEW u, NEW t,
         NEW whole \in BOOLEAN, NEW e,
         AgentAt(0, d, a, 0, m, r, w, u, t, whole)
  PROVE  /\ AgentAt(0, e, a, 0, m, r, w, u, t, whole)
         /\ a \notin {"writeSize", "writeBody"}
BY DEF AgentAt, TakesTask, Losing

\* A task is sent to an agent that waits, or that handles no task any more.
LEMMA AgentExpects ==
  ASSUME NEW k \in Nat, NEW a, NEW m, NEW r, NEW w, NEW u, NEW t,
         NEW whole \in BOOLEAN, NEW m2, NEW r2,
         a \notin {"off", "writeSize", "writeBody"},
         AgentAt(k, "ready", a, k, m, r, w, u, t, whole)
  PROVE  AgentAt(k + 1, "writeSize", a, k, m2, r2, w, u, t, whole)
BY DEF AgentAt, Losing

\* The size of a message is on the way to the agent ...
LEMMA AgentTold ==
  ASSUME NEW k \in Nat \ {0}, NEW a, NEW h, NEW m \in Seq(Nat), NEW r,
         NEW w \in Seq(Seq(Nat)), NEW u \in Seq(Nat), NEW t,
         NEW whole \in BOOLEAN, h = k - 1,
         AgentAt(k, "writeSize", a, h, m, r, w, u, t, whole)
  PROVE  AgentAt(k, "writeBody", a, h, m, r, Append(w, Size(m)), u, t, whole)
<1>1. Size(m) \in Seq(Nat) /\ Size(m) # <<>> /\ h # k /\ ~ (k = 0 /\ h = 0)
  BY SizeFacts
<1>2. CASE Losing(a, t)
  BY <1>2 DEF AgentAt
<1>3. CASE a = "size" /\ Still(w, u)
  <2>1. Stream(Append(<<>>, Size(m)), <<>>, whole, Size(m), <<>>)
    BY <1>1, StreamBegins
  <2>2. Stream(Append(w, Size(m)), u, whole, Size(m), Sent("writeBody", m))
    BY <1>3, <2>1 DEF Sent, Still
  <2>3. QED
    BY <1>3, <2>2 DEF AgentAt, TakesTask
<1>4. CASE a = "size" /\ ~ whole /\ Adrift(w, u)
  <2>1. Adrift(Append(w, Size(m)), u)
    BY <1>1, <1>4, AdriftKeeps
  <2>2. QED
    BY <1>4, <2>1 DEF AgentAt
<1>5. QED
  BY <1>1, <1>2, <1>3, <1>4 DEF AgentAt

\* ... and then the message itself.
LEMMA AgentSent ==
  ASSUME NEW k \in Nat \ {0}, NEW a, NEW h, NEW m \in Seq(Nat), NEW r,
         NEW w \in Seq(Seq(Nat)), NEW u \in Seq(Nat), NEW t,
         NEW whole \in BOOLEAN, h = k - 1, NEW d \in {"size", "closed"},
         AgentAt(k, "writeBody", a, h, m, r, w, u, t, whole)
  PROVE  /\ Body(m) = <<>> => AgentAt(k, d, a, h, m, r, w, u, t, whole)
         /\ Body(m) # <<>> => AgentAt(k, d, a, h, m, r, Append(w, Body(m)), u, t, whole)
<1> SUFFICES ASSUME NEW w2, w2 = IF Body(m) = <<>> THEN w ELSE Append(w, Body(m))
             PROVE  AgentAt(k, d, a, h, m, r, w2, u, t, whole)
  OBVIOUS
<1>1. /\ Size(m) \in Seq(Nat) /\ Body(m) \in Seq(Nat) /\ h # k
      /\ ~ (k = 0 /\ h = 0) /\ <<>> \in Seq(Nat)
  BY SizeFacts, EmptySeq
<1>2. CASE Losing(a, t)
  BY <1>2 DEF AgentAt
<1>3. CASE a = "size" /\ ~ whole /\ Adrift(w, u)
  <2>1. Adrift(w2, u)
    BY <1>1, <1>3, AdriftKeeps
  <2>2. QED
    BY <1>3, <2>1 DEF AgentAt
<1>4. CASE TakesTask("writeBody", a, m, w, u, t, whole)
  <2>1. ASSUME NEW rest \in Seq(Nat), Stream(w, u, whole, rest, <<>>)
        PROVE  Stream(w2, u, whole, rest, Body(m))
    <3>1. Body(m) # <<>> => Stream(Append(w, Body(m)), u, whole, rest, Body(m))
      BY <1>1, <2>1, StreamGrows
    <3>2. QED
      BY <2>1, <3>1
  <2>2. TakesTask(d, a, m, w2, u, t, whole)
    BY <1>1, <1>4, <2>1 DEF TakesTask, Sent
  <2>3. QED
    BY <2>2 DEF AgentAt
<1>5. QED
  BY <1>1, <1>2, <1>3, <1>4 DEF AgentAt

\* What readFromSocket makes of the bytes u that have arrived, first of the
\* two of the size, ...
SizeRead(u, t, p2, t2, u2) ==
  \/ ~ (Len(u) >= 2) /\ p2 = "got" /\ t2 = <<>> /\ u2 = <<>>
  \/ /\ Len(u) >= 2 /\ u2 = SubSeq(u, 3, Len(u)) /\ t2 = t
     /\ p2 = IF TooLong(u[1] * Base + u[2]) THEN "drain" ELSE "body"
\* ... then of the rest.
BodyRead(u, t2, u2) == Len(u) <= msgSizeLimit => t2 = u /\ u2 = <<>>

\* The agent reads a size: the one of the message, or it is lost, ...
LEMMA AgentReadsSize ==
  ASSUME NEW k, NEW d, NEW h, NEW m \in Seq(Nat), NEW r,
         NEW w \in Seq(Seq(Nat)), NEW u \in Seq(Nat), NEW t, NEW whole \in BOOLEAN,
         NEW p2, NEW t2, NEW u2, SizeRead(u, t, p2, t2, u2),
         AgentAt(k, d, "size", h, m, r, w, u, t, whole)
  PROVE  AgentAt(k, d, p2, h, m, r, w, u2, t2, whole)
<1>1. CASE p2 # "body"
  BY <1>1 DEF SizeRead, AgentAt, Losing
<1>2. CASE p2 = "body"
  <2>1. /\ Len(u) >= 2 /\ ~ TooLong(u[1] * Base + u[2])
        /\ u2 = SubSeq(u, 3, Len(u)) /\ t2 = t
    BY <1>2 DEF SizeRead
  <2>2. u # <<>>
    <3>1. Len(<<>>) = 0
      OBVIOUS
    <3>2. QED
      BY <2>1, <3>1
  <2>3. ~ Adrift(w, u) /\ ~ Still(w, u) /\ ~ Losing("size", t)
    BY <2>1, <2>2, AdriftKeeps DEF Still, Losing
  <2>4. /\ h = k - 1 /\ d \notin {"ready", "writeSize"}
        /\ Stream(w, u, whole, Size(m), Sent(d, m))
    BY <2>3 DEF AgentAt, TakesTask
  <2>5. /\ Size(m) \in Seq(Nat) /\ Sent(d, m) \in Seq(Nat) /\ Len(Size(m)) = 2
        /\ Size(m)[1] * Base + Size(m)[2] = Announced(m)
    BY SizeFacts, EmptySeq DEF Sent
  <2>6. /\ u[1] = Size(m)[1] /\ u[2] = Size(m)[2]
        /\ Stream(w, u2, whole, <<>>, Sent(d, m))
    BY <2>1, <2>4, <2>5, StreamSize
  <2>7. ~ TooLong(Announced(m))
    BY <2>1, <2>5, <2>6
  <2>8. QED
    BY <1>2, <2>4, <2>6, <2>7 DEF AgentAt, TakesTask
<1>3. QED
  BY <1>1, <1>2

\* ... then the message, or, when it was cut, a beginning of it.
LEMMA AgentReadsBody ==
  ASSUME NEW k, NEW d, NEW h, NEW m \in Seq(Nat), NEW r, TextBytes(m),
         NEW w \in Seq(Seq(Nat)), NEW u \in Seq(Nat), NEW t, NEW whole \in BOOLEAN,
         NEW t2, NEW u2, BodyRead(u, t2, u2),
         AgentAt(k, d, "body", h, m, r, w, u, t, whole)
  PROVE  AgentAt(k, d, "got", h, m, r, w, u2, t2, whole)
<1>1. /\ h = k - 1 /\ d \notin {"ready", "writeSize"}
      /\ Stream(w, u, whole, <<>>, Sent(d, m)) /\ ~ TooLong(Announced(m))
  BY DEF AgentAt, TakesTask, Losing
<1>2. CASE u = <<>>
  <2>1. Len(u) = 0 /\ 0 <= msgSizeLimit
    BY <1>2, Limits
  <2>2. t2 = <<>>
    BY <1>2, <2>1 DEF BodyRead
  <2>3. QED
    BY <2>2 DEF AgentAt, Losing
<1>3. CASE u # <<>>
  <2>1. Sent(d, m) \in Seq(Nat) /\ Body(m) \in Seq(Nat) /\ Len(Body(m)) = Announced(m)
    BY SizeFacts, EmptySeq DEF Sent
  <2>2. PICK b \in Seq(Nat) : b = Sent(d, m)
    BY <2>1
  <2>3. /\ Len(u) <= Len(b) /\ \A i \in 1 .. Len(u) : u[i] = b[i]
        /\ \/ w = <<>> /\ u = b
           \/ /\ ~ whole /\ u # b /\ DOMAIN w = {1} /\ w # <<>> /\ w[1] # <<>>
              /\ \A i \in DOMAIN w[1] : \E j \in DOMAIN b : w[1][i] = b[j]
    BY <1>1, <1>3, <2>2, StreamBody
  <2>4. PICK y \in Nat \ {0}, x \in Nat : y = Len(u) /\ x = Len(b)
    BY <1>3, EmptySeq, LenProperties
  <2>5. d # "writeBody" /\ b = Body(m)
    <3>1. b # <<>>
      <4>1. Len(<<>>) = 0 /\ Len(b) # 0
        BY <2>3, <2>4
      <4>2. QED
        BY <4>1
    <3>2. QED
      BY <2>2, <3>1 DEF Sent
  <2>6. t2 = u /\ u2 = <<>>
    <3>1. Announced(m) <= msgSizeLimit
      <4>1. Announced(m) \in Nat
        BY SizeFacts
      <4>2. QED
        BY <1>1, <4>1, Limits DEF TooLong
    <3>2. Len(u) <= msgSizeLimit
      <4>1. Len(b) = Announced(m)
        BY <2>1, <2>5
      <4>2. QED
        BY <2>3, <2>4, <3>1, <4>1, Limits
    <3>3. QED
      BY <3>2 DEF BodyRead
  <2>7. CASE w = <<>> /\ u = b
    BY <1>1, <2>2, <2>5, <2>6, <2>7 DEF AgentAt, TakesTask, Still
  <2>8. CASE ~ (w = <<>> /\ u = b)
    <3>1. Adrift(w, u2)
      <4>1. TextBytes(b)
        <5>1. /\ DOMAIN b = 1 .. x /\ x = Announced(m) /\ Announced(m) <= Len(m)
              /\ \A i \in 1 .. x : b[i] = m[i]
          BY <2>1, <2>4, <2>5, LenProperties, SizeFacts
        <5>2. Len(m) \in Nat /\ DOMAIN m = 1 .. Len(m)
          BY LenProperties
        <5>3. \A i \in 1 .. x : i \in DOMAIN m
          BY <5>1, <5>2
        <5>4. QED
          BY <5>1, <5>3 DEF TextBytes
      <4>2. PICK z \in Seq(Nat) : z = w[1]
        <5>1. 1 \in 1 .. Len(w)
          BY <2>3, <2>8, LenProperties
        <5>2. QED
          BY <5>1, ElementOfSeq
      <4>3. 1 \in DOMAIN z
        BY <2>3, <2>8, <4>2, TailFacts
      <4>4. w # <<>> /\ w[1] # <<>> /\ w[1][1] >= Sp
        BY <2>3, <2>8, <4>1, <4>2, <4>3 DEF TextBytes
      <4>5. QED
        BY <2>6, <4>4 DEF Adrift
    <3>2. IsPrefix(t2, b)
      <4>1. SubSeq(u, 1, y) = u
        BY <2>4, SubSeqFull
      <4>2. SubSeq(b, 1, y) = u
        <5>1. y \in 1 .. Len(b)
          BY <2>3, <2>4
        <5>2. PICK z \in Seq(Nat) : /\ z = SubSeq(b, 1, y) /\ Len(z) = y
                                    /\ \A i \in 1 .. y : z[i] = b[i]
          BY <5>1, Cut
        <5>3. Len(z) = Len(u) /\ \A i \in 1 .. Len(z) : z[i] = u[i]
          BY <2>3, <2>4, <5>2
        <5>4. QED
          BY <5>2, <5>3, SeqEqual
      <4>3. QED
        BY <2>3, <2>4, <2>6, <4>1, <4>2 DEF IsPrefix
    <3>3. ~ whole
      BY <2>3, <2>8
    <3>4. QED
      BY <1>1, <2>2, <2>5, <3>1, <3>2, <3>3 DEF AgentAt, TakesTask
  <2>9. QED
    BY <2>7, <2>8
<1>4. QED
  BY <1>2, <1>3

\* TCP delivers a write to the agent, or the first bytes of it.
LEMMA AgentReceives ==
  ASSUME NEW k, NEW d, NEW a, NEW h, NEW m \in Seq(Nat), NEW r,
         NEW w \in Seq(Seq(Nat)), NEW u \in Seq(Nat), NEW t,
         NEW whole \in BOOLEAN, NEW still \in BOOLEAN, w # <<>>,
         NEW n \in 1 .. Len(w[1]), still => whole /\ n = Len(w[1]),
         AgentAt(k, d, a, h, m, r, w, u, t, whole)
  PROVE  AgentAt(k, d, a, h, m, r, Remaining(w, n), Arrived(w, u, n), t, still)
<1> DEFINE w2 == Remaining(w, n)
           u2 == Arrived(w, u, n)
<1>1. Size(m) \in Seq(Nat) /\ Sent(d, m) \in Seq(Nat) /\ <<>> \in Seq(Nat)
  BY SizeFacts, EmptySeq DEF Sent
<1>2. \A rest \in Seq(Nat) : Stream(w, u, whole, rest, Sent(d, m)) =>
                             Stream(w2, u2, still, rest, Sent(d, m))
  BY <1>1, StreamDelivery
<1>3. Adrift(w, u) => Adrift(w2, u2)
  BY AdriftKeeps
<1>4. ~ Still(w, u) /\ (still => whole)
  BY DEF Still
<1> HIDE DEF w2, u2
<1>5. TakesTask(d, a, m, w, u, t, whole) => TakesTask(d, a, m, w2, u2, t, still)
  BY <1>1, <1>2, <1>3, <1>4 DEF TakesTask
<1>6. AgentAt(k, d, a, h, m, r, w2, u2, t, still)
  BY <1>3, <1>4, <1>5 DEF AgentAt
<1>7. QED
  BY <1>6 DEF w2, u2

(* The dispatcher's part of the invariant, step by step *)

\* What is known of an answer: it fits, and nobody takes its size for the
\* beginning of another.
Answer(r) ==
  /\ r \in Seq(Nat) /\ TextBytes(r) /\ r # <<F>> /\ r # <<>>
  /\ Len(r) <= msgSizeLimit /\ Body(r) = r
  /\ Size(r) \in Seq(Nat) /\ Size(r) # <<>> /\ Len(Size(r)) = 2
  /\ Misread(Size(r)[2])
  /\ ~ TooLong(Size(r)[1] * Base + Size(r)[2])

\* An answer, with or without an id, is what Answer says.
LEMMA AnswerFacts ==
  ASSUME NEW r \in Seq(Nat), TextBytes(r), r # <<F>>, Len(r) \in {2, 4}
  PROVE  Answer(r)
<1>1. PICK x \in {2, 4} : x = Len(r)
  OBVIOUS
<1>2. /\ x < Width /\ x <= msgSizeLimit /\ ~ TooLong(x)
  <2>1. /\ 4 <= msgSizeLimit /\ msgSizeLimit < Width
        /\ msgSizeLimit \in Nat /\ Width \in Nat
    BY Limits
  <2>2. x \in Nat /\ x <= 4
    OBVIOUS
  <2>3. x <= msgSizeLimit
    BY ONLY <2>1, <2>2
  <2>4. x < Width
    BY ONLY <2>1, <2>2
  <2>5. QED
    BY <2>1, <2>2, <2>3, <2>4 DEF TooLong
<1>3. Misread(x % Base)
  BY WireAssumption
<1>4. /\ Size(r) \in Seq(Nat) /\ Len(Size(r)) = 2 /\ Size(r) # <<>>
      /\ Size(r)[1] * Base + Size(r)[2] = Announced(r)
      /\ Size(r)[2] = Announced(r) % Base
      /\ Len(r) < Width => Announced(r) = Len(r) /\ Body(r) = r
  BY SizeFacts
<1>5. Announced(r) = x /\ Body(r) = r
  BY <1>1, <1>2, <1>4
<1>6. r # <<>>
  <2>1. Len(<<>>) = 0
    OBVIOUS
  <2>2. Len(r) # 0
    <3>1. x # 0
      OBVIOUS
    <3>2. QED
      BY <1>1, <3>1
  <2>3. QED
    BY <2>1, <2>2
<1>7. QED
  BY <1>1, <1>2, <1>3, <1>4, <1>5, <1>6 DEF Answer

\* The agent moves, but neither begins nor ends to write, and TCP cuts.
LEMMA DispatcherKeeps ==
  ASSUME NEW k, NEW d, NEW a, NEW h, NEW l, NEW n, NEW m, NEW r, NEW w, NEW u, NEW t,
         NEW whole \in BOOLEAN, NEW still \in BOOLEAN, NEW b, still => whole,
         \/ b = a
         \/ b = "dead"
         \/ /\ a \notin {"writeSize", "writeBody", "closed", "dead"}
            /\ b \notin {"writeSize", "writeBody"},
         DispatcherAt(k, d, a, h, l, n, m, r, w, u, t, whole)
  PROVE  DispatcherAt(k, d, b, h, l, n, m, r, w, u, t, still)
<1>1. AstrayAt(k, d, a, h, r, w, u, t, whole) => AstrayAt(k, d, b, h, r, w, u, t, still)
  BY DEF AstrayAt
<1>2. ASSUME NEW sent, AnswerAt(d, a, r, w, u, whole, sent)
      PROVE  AnswerAt(d, b, r, w, u, still, sent)
  BY <1>2, StreamStill DEF AnswerAt
<1>3. WaitAt(k, d, a, h, r, w, u, t, whole)
      => WaitAt(k, d, b, h, r, w, u, t, still)
  BY <1>1, <1>2 DEF WaitAt
<1>4. QED
  BY <1>3 DEF DispatcherAt

\* The dispatcher takes the next task when the last one is answered.
LEMMA DispatcherSends ==
  ASSUME NEW k \in Nat, NEW a, NEW h, NEW l, NEW n, NEW m, NEW r, NEW w, NEW u, NEW t,
         NEW whole \in BOOLEAN, NEW m2, NEW r2,
         DispatcherAt(k, "ready", a, h, l, n, m, r, w, u, t, whole)
  PROVE  /\ DispatcherAt(k + 1, "writeSize", a, h, l, n, m2, r2, w, u, m2, whole)
         /\ h = k /\ l = k /\ k <= n /\ a \notin {"writeSize", "writeBody"}
<1>1. /\ h = k /\ l = k /\ k <= n /\ a \notin {"writeSize", "writeBody"}
      /\ Still(w, u)
  BY DEF DispatcherAt, WaitAt, AstrayAt, AnswerAt
<1>2. k + 1 > 0 /\ (k + 1) - 1 = k
  OBVIOUS
<1>3. QED
  BY <1>1, <1>2 DEF DispatcherAt

\* The dispatcher writes a message.
LEMMA DispatcherWrites ==
  ASSUME NEW k \in Nat, NEW d \in {"writeSize", "writeBody"}, NEW a, NEW h, NEW l,
         NEW n \in Nat, NEW m, NEW r, NEW w, NEW u, NEW t, NEW whole \in BOOLEAN,
         DispatcherAt(k, d, a, h, l, n, m, r, w, u, t, whole)
  PROVE  /\ k > 0 /\ h = k - 1 /\ t = m
         /\ DispatcherAt(k, "writeBody", a, h, l, n, m, r, w, u, t, whole)
         /\ k = n + 1 => DispatcherAt(k, "closed", a, h, l, n, m, r, w, u, t, whole)
         /\ k <= n => DispatcherAt(k, "size", a, h, l, n, m, r, w, u, t, whole)
<1>1. k > 0 /\ h = k - 1 /\ l = k - 1 /\ t = m /\ Still(w, u)
  BY DEF DispatcherAt, WaitAt, AstrayAt, AnswerAt
<1>2. h < k
  BY <1>1
<1>3. k <= n => WaitAt(k, "size", a, h, r, w, u, t, whole)
  BY <1>1, <1>2 DEF WaitAt
<1>4. QED
  BY <1>1, <1>3 DEF DispatcherAt

\* The agent has handled the task.
LEMMA DispatcherServed ==
  ASSUME NEW k \in Nat \ {0}, NEW d, NEW a, NEW h, NEW l, NEW n \in Nat,
         NEW m, NEW r, NEW w, NEW u, NEW t, NEW whole \in BOOLEAN, NEW r2,
         h = k - 1, k <= n, d \notin {"ready", "writeSize", "writeBody"}, a = "got",
         DispatcherAt(k, d, a, h, l, n, m, r, w, u, t, whole)
  PROVE  DispatcherAt(k, d, "writeSize", k, l, n, m, r2, w, u, t, whole)
<1>1. h # k /\ k # n + 1
  OBVIOUS
<1>2. l = k - 1 /\ d = "size" /\ Still(w, u)
  BY <1>1 DEF DispatcherAt, WaitAt, AstrayAt
<1>3. QED
  BY <1>2 DEF DispatcherAt, WaitAt

\* The size of an answer is on the way to the dispatcher ...
LEMMA DispatcherTold ==
  ASSUME NEW k \in Nat \ {0}, NEW d, NEW l, NEW n,
         NEW m, NEW r, NEW w \in Seq(Seq(Nat)), NEW u \in Seq(Nat), NEW t,
         NEW whole \in BOOLEAN, Answer(r),
         DispatcherAt(k, d, "writeSize", k, l, n, m, r, w, u, t, whole)
  PROVE  DispatcherAt(k, d, "writeBody", k, l, n, m, r, Append(w, Size(r)), u, t, whole)
<1>1. k # 0 /\ k # k - 1
  OBVIOUS
<1>2. l = k - 1 /\ k <= n /\ d = "size" /\ Still(w, u)
  BY <1>1 DEF DispatcherAt, WaitAt, AstrayAt
<1>3. Size(r) \in Seq(Nat) /\ Size(r) # <<>>
  BY DEF Answer
<1>4. Stream(Append(<<>>, Size(r)), <<>>, whole, Size(r), <<>>)
  BY <1>3, StreamBegins
<1>5. AnswerAt(d, "writeBody", r, Append(w, Size(r)), u, whole, <<>>)
  BY <1>2, <1>4 DEF AnswerAt, Still
<1>6. WaitAt(k, d, "writeBody", k, r, Append(w, Size(r)), u, t, whole)
  BY <1>5 DEF WaitAt
<1>7. QED
  BY <1>2, <1>6 DEF DispatcherAt

\* ... and then the answer itself.
LEMMA DispatcherAnswered ==
  ASSUME NEW k \in Nat \ {0}, NEW d, NEW l, NEW n,
         NEW m, NEW r, NEW w \in Seq(Seq(Nat)), NEW u \in Seq(Nat), NEW t,
         NEW whole \in BOOLEAN, Answer(r),
         DispatcherAt(k, d, "writeBody", k, l, n, m, r, w, u, t, whole)
  PROVE  DispatcherAt(k, d, "size", k, l, n, m, r, Append(w, r), u, t, whole)
<1>1. k # 0 /\ k # k - 1 /\ ~ (k < k)
  OBVIOUS
<1>2. l = k - 1 /\ k <= n /\ WaitAt(k, d, "writeBody", k, r, w, u, t, whole)
  BY <1>1 DEF DispatcherAt
<1>3. r \in Seq(Nat) /\ r # <<>> /\ TextBytes(r) /\ Size(r) \in Seq(Nat) /\ <<>> \in Seq(Nat)
  BY EmptySeq DEF Answer
<1>4. CASE AstrayAt(k, d, "writeBody", k, r, w, u, t, whole)
  <2>1. Garbled(Append(w, r), u)
    BY <1>3, <1>4, GarbledGrows DEF AstrayAt
  <2>2. AstrayAt(k, d, "size", k, r, Append(w, r), u, t, whole)
    BY <1>4, <2>1 DEF AstrayAt
  <2>3. QED
    BY <1>2, <2>2 DEF DispatcherAt, WaitAt
<1>5. CASE \E sent \in {<<>>, r} : AnswerAt(d, "writeBody", r, w, u, whole, sent)
  <2>1. AnswerAt(d, "writeBody", r, w, u, whole, <<>>)
    BY <1>5 DEF AnswerAt
  <2>2. \A rest \in Seq(Nat) : Stream(w, u, whole, rest, <<>>) =>
                               Stream(Append(w, r), u, whole, rest, r)
    BY <1>3, StreamGrows
  <2>3. AnswerAt(d, "size", r, Append(w, r), u, whole, r)
    BY <1>3, <2>1, <2>2 DEF AnswerAt
  <2>4. WaitAt(k, d, "size", k, r, Append(w, r), u, t, whole)
    BY <2>3 DEF WaitAt
  <2>5. QED
    BY <1>2, <2>4 DEF DispatcherAt
<1>6. QED
  BY <1>1, <1>2, <1>4, <1>5 DEF WaitAt

\* Nothing is garbled as far as it goes.
LEMMA GarbledNothing == Garbled(<<>>, <<>>)
<1>1. DOMAIN <<>> = {}
  OBVIOUS
<1>2. QED
  BY <1>1 DEF Garbled

\* The dispatcher reads a size: the one of the answer, or from there on only
\* what is garbled, ...
LEMMA DispatcherReadsSize ==
  ASSUME NEW k \in Nat, NEW a, NEW h, NEW l, NEW n, NEW m, NEW r,
         NEW w \in Seq(Seq(Nat)), NEW u \in Seq(Nat), NEW t,
         NEW whole \in BOOLEAN, NEW p2, NEW t2, NEW u2,
         SizeRead(u, t, p2, t2, u2), h = k => Answer(r),
         u # <<>> \/ (w = <<>> /\ a \in {"closed", "dead"}),
         DispatcherAt(k, "size", a, h, l, n, m, r, w, u, t, whole)
  PROVE  DispatcherAt(k, p2, a, h, l, n, m, r, w, u2, t2, whole)
<1>1. /\ k > 0 /\ l = k - 1 /\ h \in {k - 1, k} /\ k <= n
      /\ WaitAt(k, "size", a, h, r, w, u, t, whole)
  BY DEF DispatcherAt
<1>2. Len(u) \in Nat /\ Len(<<>>) = 0
  BY LenProperties
<1>3. Len(u) >= 2 => u # <<>>
  BY <1>2
<1>4. SUFFICES WaitAt(k, p2, a, h, r, w, u2, t2, whole)
  BY <1>1 DEF DispatcherAt
<1>5. CASE AstrayAt(k, "size", a, h, r, w, u, t, whole)
  <2>1. Garbled(w, u2)
    <3>1. CASE Len(u) >= 2
      <4>1. PICK c \in 0 .. Len(u) : c = 2 /\ c + 1 = 3
        BY <1>2, <3>1
      <4>2. Garbled(w, SubSeq(u, c + 1, Len(u)))
        BY <1>5, GarbledRead DEF AstrayAt
      <4>3. QED
        BY <3>1, <4>1, <4>2 DEF SizeRead
    <3>2. CASE ~ (Len(u) >= 2)
      <4>1. PICK c \in 0 .. Len(u) : c = Len(u)
        BY <1>2
      <4>2. Garbled(w, SubSeq(u, c + 1, Len(u)))
        BY <1>5, GarbledRead DEF AstrayAt
      <4>3. SubSeq(u, c + 1, Len(u)) = <<>>
        BY <1>2, <4>1, SubSeqEmpty
      <4>4. QED
        BY <3>2, <4>2, <4>3 DEF SizeRead
    <3>3. QED
      BY <3>1, <3>2
  <2>2. Len(u) >= 2 => p2 = "drain"
    BY <1>5, GarbledSize DEF AstrayAt, SizeRead
  <2>3. AstrayAt(k, p2, a, h, r, w, u2, t2, whole)
    <3>1. CASE Len(u) >= 2
      <4>1. ~ whole /\ p2 = "drain"
        BY <1>3, <1>5, <2>2, <3>1 DEF AstrayAt, Still
      <4>2. QED
        BY <1>5, <2>1, <4>1 DEF AstrayAt
    <3>2. CASE ~ (Len(u) >= 2)
      <4>1. p2 = "got" /\ t2 = <<>> /\ u2 = <<>>
        BY <3>2 DEF SizeRead
      <4>2. QED
        BY <1>5, <2>1, <4>1 DEF AstrayAt, Still
    <3>3. QED
      BY <3>1, <3>2
  <2>4. QED
    BY <2>3 DEF WaitAt
<1>6. CASE Still(w, u)
  <2>1. p2 = "got" /\ t2 = <<>> /\ u2 = <<>> /\ w = <<>> /\ a \in {"closed", "dead"}
    BY <1>3, <1>6 DEF SizeRead, Still
  <2>2. AstrayAt(k, p2, a, h, r, w, u2, t2, whole)
    BY <2>1, GarbledNothing DEF AstrayAt, Still
  <2>3. QED
    BY <2>2 DEF WaitAt
<1>7. ASSUME h = k, a # "writeSize",
             NEW sent \in {<<>>, r}, AnswerAt("size", a, r, w, u, whole, sent)
      PROVE  WaitAt(k, p2, a, h, r, w, u2, t2, whole)
  <2>1. Answer(r) /\ Stream(w, u, whole, Size(r), sent)
    BY <1>7 DEF AnswerAt
  <2>2. /\ sent \in Seq(Nat) /\ TextBytes(sent) /\ Size(r) \in Seq(Nat)
        /\ Len(Size(r)) = 2 /\ Size(r) # <<>>
    <3>1. <<>> \in Seq(Nat) /\ TextBytes(<<>>)
      BY EmptySeq DEF TextBytes
    <3>2. QED
      BY <2>1, <3>1 DEF Answer
  <2>3. u # <<>>
    <3>1. u = <<>> => w = <<>>
      OBVIOUS
    <3>2. QED
      BY <2>1, <2>2, <3>1, StreamEmpty
  <2>4. CASE Len(u) >= 2
    <3>1. /\ u[1] = Size(r)[1] /\ u[2] = Size(r)[2]
          /\ Stream(w, SubSeq(u, 3, Len(u)), whole, <<>>, sent)
      <4>1. PICK rest \in Seq(Nat) : rest = Size(r) /\ Len(rest) = 2
        BY <2>2
      <4>2. PICK body \in Seq(Nat) : body = sent
        BY <2>2
      <4>3. Stream(w, u, whole, rest, body) /\ Len(rest) = 2
        BY <2>1, <4>1, <4>2
      <4>4. /\ u[1] = rest[1] /\ u[2] = rest[2]
            /\ Stream(w, SubSeq(u, 3, Len(u)), whole, <<>>, body)
        BY <2>4, <4>3, StreamSize
      <4>5. QED
        BY <4>1, <4>2, <4>4
    <3>2. p2 = "body" /\ u2 = SubSeq(u, 3, Len(u))
      BY <2>1, <2>4, <3>1 DEF SizeRead, Answer
    <3>3. AnswerAt(p2, a, r, w, u2, whole, sent)
      BY <1>7, <3>1, <3>2 DEF AnswerAt
    <3>4. QED
      BY <1>7, <3>3 DEF WaitAt
  <2>5. CASE ~ (Len(u) >= 2)
    <3>1. ~ whole /\ Late(w, Size(r)[2], sent)
      BY <2>1, <2>2, <2>3, <2>5, StreamShort
    <3>2. Garbled(w, <<>>)
      BY <2>1, <2>2, <3>1, GarbledBegins DEF Answer
    <3>3. p2 = "got" /\ t2 = <<>> /\ u2 = <<>>
      BY <2>5 DEF SizeRead
    <3>4. AstrayAt(k, p2, a, h, r, w, u2, t2, whole)
      BY <1>7, <3>1, <3>2, <3>3 DEF AstrayAt
    <3>5. QED
      BY <3>4 DEF WaitAt
  <2>6. QED
    BY <2>4, <2>5
<1>8. QED
  BY <1>1, <1>5, <1>6, <1>7 DEF WaitAt

\* ... then the answer, or, when it was cut, a beginning of it.
LEMMA DispatcherReadsBody ==
  ASSUME NEW k \in Nat, NEW a, NEW h, NEW l, NEW n, NEW m, NEW r,
         NEW w \in Seq(Seq(Nat)), NEW u \in Seq(Nat), NEW t,
         NEW whole \in BOOLEAN, NEW t2, NEW u2,
         BodyRead(u, t2, u2), h = k => Answer(r),
         u # <<>> \/ (w = <<>> /\ a \in {"closed", "dead"}),
         DispatcherAt(k, "body", a, h, l, n, m, r, w, u, t, whole)
  PROVE  DispatcherAt(k, "got", a, h, l, n, m, r, w, u2, t2, whole)
<1>1. /\ k > 0 /\ l = k - 1 /\ h \in {k - 1, k} /\ k <= n
      /\ WaitAt(k, "body", a, h, r, w, u, t, whole)
  BY DEF DispatcherAt
<1>2. SUFFICES WaitAt(k, "got", a, h, r, w, u2, t2, whole)
  BY <1>1 DEF DispatcherAt
<1>3. PICK sent \in {<<>>, r} :
        h = k /\ a # "writeSize" /\ AnswerAt("body", a, r, w, u, whole, sent)
  BY <1>1 DEF WaitAt, AstrayAt
<1>4. /\ Answer(r) /\ Stream(w, u, whole, <<>>, sent)
      /\ a = "writeBody" => sent = <<>>
  BY <1>3 DEF AnswerAt
<1>5. sent \in Seq(Nat) /\ TextBytes(sent) /\ Len(sent) <= msgSizeLimit
  <2>1. <<>> \in Seq(Nat) /\ TextBytes(<<>>) /\ Len(<<>>) = 0
    BY EmptySeq DEF TextBytes
  <2>2. 0 <= msgSizeLimit
    BY Limits
  <2>3. QED
    BY <1>4, <2>1, <2>2 DEF Answer
<1>6. CASE u = <<>>
  <2>1. t2 = <<>> /\ u2 = <<>> /\ w = <<>> /\ a \in {"closed", "dead"}
    <3>1. Len(u) = 0 /\ 0 <= msgSizeLimit
      BY <1>6, Limits
    <3>2. QED
      BY <1>6, <3>1 DEF BodyRead
  <2>2. AstrayAt(k, "got", a, h, r, w, u2, t2, whole)
    BY <2>1, GarbledNothing DEF AstrayAt, Still
  <2>3. QED
    BY <2>2 DEF WaitAt
<1>7. CASE u # <<>>
  <2>1. /\ Len(u) <= Len(sent) /\ \A i \in 1 .. Len(u) : u[i] = sent[i]
        /\ \/ w = <<>> /\ u = sent
           \/ /\ ~ whole /\ u # sent /\ DOMAIN w = {1} /\ w # <<>> /\ w[1] # <<>>
              /\ \A i \in DOMAIN w[1] : \E j \in DOMAIN sent : w[1][i] = sent[j]
    BY <1>4, <1>5, <1>7, StreamBody
  <2>2. PICK y \in Nat \ {0}, x \in Nat : y = Len(u) /\ x = Len(sent)
    BY <1>5, <1>7, EmptySeq, LenProperties
  <2>3. sent = r /\ a # "writeBody"
    <3>1. sent # <<>>
      <4>1. Len(<<>>) = 0 /\ Len(sent) # 0
        BY <2>1, <2>2
      <4>2. QED
        BY <4>1
    <3>2. QED
      BY <1>4, <3>1
  <2>4. t2 = u /\ u2 = <<>>
    <3>1. Len(u) <= msgSizeLimit
      BY <1>5, <2>1, <2>2, Limits
    <3>2. QED
      BY <3>1 DEF BodyRead
  <2>5. CASE w = <<>> /\ u = sent
    BY <1>3, <2>3, <2>4, <2>5 DEF WaitAt, Still
  <2>6. CASE ~ (w = <<>> /\ u = sent)
    <3>1. Garbled(w, <<>>)
      <4>1. \A j \in DOMAIN w : \A i \in DOMAIN w[j] : \E x2 \in DOMAIN sent : w[j][i] = sent[x2]
        BY <2>1, <2>6
      <4>2. QED
        BY <1>5, <4>1, GarbledBegins
    <3>2. IsStrictPrefix(t2, r)
      <4>1. SubSeq(u, 1, y) = u
        BY <2>2, SubSeqFull
      <4>2. SubSeq(sent, 1, y) = u
        <5>1. y \in 1 .. Len(sent)
          BY <2>1, <2>2
        <5>2. PICK z \in Seq(Nat) : /\ z = SubSeq(sent, 1, y) /\ Len(z) = y
                                    /\ \A i \in 1 .. y : z[i] = sent[i]
          BY <1>5, <5>1, Cut
        <5>3. Len(z) = Len(u) /\ \A i \in 1 .. Len(z) : z[i] = u[i]
          BY <2>1, <2>2, <5>2
        <5>4. QED
          BY <5>2, <5>3, SeqEqual
      <4>3. QED
        BY <2>1, <2>2, <2>3, <2>4, <2>6, <4>1, <4>2 DEF IsPrefix, IsStrictPrefix
    <3>3. AstrayAt(k, "got", a, h, r, w, u2, t2, whole)
      BY <1>3, <2>1, <2>4, <2>6, <3>1, <3>2 DEF AstrayAt
    <3>4. QED
      BY <3>3 DEF WaitAt
  <2>7. QED
    BY <2>5, <2>6
<1>8. QED
  BY <1>6, <1>7

\* The loop that throws bytes away.
LEMMA DispatcherDrains ==
  ASSUME NEW k, NEW a, NEW h, NEW l, NEW n, NEW m, NEW r,
         NEW w \in Seq(Seq(Nat)), NEW u \in Seq(Nat), NEW t,
         NEW whole \in BOOLEAN, NEW c \in 0 .. Len(u), NEW p2, NEW t2,
         p2 \in {"drain", "spin"} \/ (p2 = "got" /\ t2 = <<>>),
         DispatcherAt(k, "drain", a, h, l, n, m, r, w, u, t, whole)
  PROVE  DispatcherAt(k, p2, a, h, l, n, m, r, w, SubSeq(u, c + 1, Len(u)), t2, whole)
<1>1. /\ k > 0 /\ l = k - 1 /\ h \in {k - 1, k} /\ k <= n
      /\ AstrayAt(k, "drain", a, h, r, w, u, t, whole)
  BY DEF DispatcherAt, WaitAt, AnswerAt
<1>2. Garbled(w, SubSeq(u, c + 1, Len(u)))
  BY <1>1, GarbledRead DEF AstrayAt
<1>3. AstrayAt(k, p2, a, h, r, w, SubSeq(u, c + 1, Len(u)), t2, whole)
  BY <1>1, <1>2 DEF AstrayAt
<1>4. QED
  BY <1>1, <1>3 DEF DispatcherAt, WaitAt

\* TCP delivers a write to the dispatcher, or the first bytes of it.
LEMMA DispatcherReceives ==
  ASSUME NEW k \in Nat, NEW d, NEW a, NEW h, NEW l, NEW n, NEW m, NEW r,
         NEW w \in Seq(Seq(Nat)), NEW u \in Seq(Nat), NEW t,
         NEW whole \in BOOLEAN, NEW still \in BOOLEAN, w # <<>>,
         h = k /\ k > 0 => Answer(r),
         NEW c \in 1 .. Len(w[1]), still => whole /\ c = Len(w[1]),
         DispatcherAt(k, d, a, h, l, n, m, r, w, u, t, whole)
  PROVE  DispatcherAt(k, d, a, h, l, n, m, r, Remaining(w, c), Arrived(w, u, c), t, still)
<1> DEFINE w2 == Remaining(w, c)
           u2 == Arrived(w, u, c)
<1>1. ~ Still(w, u) /\ (still => whole) /\ <<>> \in Seq(Nat)
  BY EmptySeq DEF Still
<1>2. Garbled(w, u) => Garbled(w2, u2)
  BY GarbledDelivery
<1>3. \A rest, body \in Seq(Nat) : Stream(w, u, whole, rest, body) =>
                                   Stream(w2, u2, still, rest, body)
  BY StreamDelivery
<1> HIDE DEF w2, u2
<1>4. AstrayAt(k, d, a, h, r, w, u, t, whole) => AstrayAt(k, d, a, h, r, w2, u2, t, still)
  BY <1>1, <1>2 DEF AstrayAt
<1>5. ASSUME Answer(r), NEW sent \in {<<>>, r}, AnswerAt(d, a, r, w, u, whole, sent)
      PROVE  AnswerAt(d, a, r, w2, u2, still, sent)
  <2>1. Size(r) \in Seq(Nat) /\ sent \in Seq(Nat)
    BY <1>1, <1>5 DEF Answer
  <2>2. QED
    BY <1>1, <1>3, <1>5, <2>1 DEF AnswerAt
<1>6. k > 0 /\ WaitAt(k, d, a, h, r, w, u, t, whole) => WaitAt(k, d, a, h, r, w2, u2, t, still)
  BY <1>1, <1>4, <1>5 DEF WaitAt
<1>7. DispatcherAt(k, d, a, h, l, n, m, r, w2, u2, t, still)
  BY <1>1, <1>6 DEF DispatcherAt
<1>8. QED
  BY <1>7 DEF w2, u2

\* What readResult makes of the text it was given.
LEMMA DispatcherTakes ==
  ASSUME NEW k, NEW a, NEW h, NEW l, NEW n, NEW m, NEW r, NEW w, NEW u, NEW t,
         NEW whole \in BOOLEAN,
         DispatcherAt(k, "got", a, h, l, n, m, r, w, u, t, whole)
  PROVE  /\ k > 0 /\ k <= n /\ l = k - 1
         /\ \/ /\ t = <<>> \/ (h = k /\ IsStrictPrefix(t, r))
               /\ DispatcherAt(k, "size", a, h, l, n, m, r, w, u, t, whole)
               /\ whole => t = <<>>
               /\ ~ whole => DispatcherAt(k, "dead", a, h, l, n, m, r, w, u, t, whole)
            \/ /\ t = r /\ h = k
               /\ DispatcherAt(k, "ready", a, h, k, n, m, r, w, u, t, whole)
<1>1. /\ k > 0 /\ l = k - 1 /\ h \in {k - 1, k} /\ k <= n
      /\ WaitAt(k, "got", a, h, r, w, u, t, whole)
  BY DEF DispatcherAt
<1>2. CASE AstrayAt(k, "got", a, h, r, w, u, t, whole)
  <2>1. AstrayAt(k, "size", a, h, r, w, u, t, whole)
    BY <1>2 DEF AstrayAt
  <2>2. ~ whole => AstrayAt(k, "dead", a, h, r, w, u, t, whole)
    BY <1>2 DEF AstrayAt
  <2>3. (t = <<>> \/ (h = k /\ IsStrictPrefix(t, r))) /\ (whole => t = <<>>)
    BY <1>2 DEF AstrayAt
  <2>4. QED
    BY <1>1, <2>1, <2>2, <2>3 DEF DispatcherAt, WaitAt
<1>3. CASE /\ h = k /\ a # "writeSize" /\ a # "writeBody"
           /\ t = r /\ Still(w, u)
  BY <1>1, <1>3 DEF DispatcherAt
<1>4. QED
  BY <1>1, <1>2, <1>3 DEF WaitAt, AnswerAt

-----------------------------------------------------------------------------
(* The steps of the two ends *)

\* There are two ends, each the other's peer.
LEMMA Ends ==
  /\ "agent" \in End /\ "dispatcher" \in End /\ \A e \in End : e = "agent" \/ e = "dispatcher"
  /\ Peer("agent") = "dispatcher" /\ Peer("dispatcher") = "agent"
<1>1. \A e \in End : e = "agent" \/ e = "dispatcher"
  BY DEF End
<1>2. Peer("agent") \in End /\ Peer("agent") # "agent"
  <2>1. \E p \in End : p # "agent"
    BY DEF End
  <2>2. QED
    BY <2>1 DEF Peer
<1>3. Peer("dispatcher") \in End /\ Peer("dispatcher") # "dispatcher"
  <2>1. \E p \in End : p # "dispatcher"
    BY DEF End
  <2>2. QED
    BY <2>1 DEF Peer
<1>4. QED
  BY <1>1, <1>2, <1>3 DEF End

\* What TypeOK says of the counters ...
LEMMA TypeFacts ==
  ASSUME TypeOK
  PROVE  /\ tasks \in Workloads /\ Len(tasks) \in 0 .. 9
         /\ next - 1 \in 0 .. Len(tasks) + 1 /\ next \in Nat
         /\ Len(handled) \in 0 .. next - 1 /\ Len(results) \in 0 .. next - 1
         /\ cuts \in 0 .. MaxCuts /\ MaxCuts \in Nat
<1>1. Len(tasks) \in Nat /\ Len(tasks) < 10
  <2>1. tasks \in Seq([type : {Sort, Merge, Block}, args : Seq(Seq(Char)) \ {<<>>}])
    BY WireAssumption DEF TypeOK
  <2>2. Len(tasks) \in Nat
    BY <2>1, LenProperties
  <2>3. QED
    BY <2>2, WireAssumption DEF TypeOK
<1>2. Len(handled) \in Nat /\ Len(results) \in Nat
  BY LenProperties DEF TypeOK
<1>3. /\ tasks \in Workloads /\ next \in 1 .. Len(tasks) + 2
      /\ Len(handled) < next /\ Len(results) < next /\ cuts \in 0 .. MaxCuts
  BY DEF TypeOK
<1>4. MaxCuts \in Nat
  BY WireAssumption
<1>5. PICK x \in Nat, y \in Nat, h \in Nat, l \in Nat :
        x = next /\ y = Len(tasks) /\ h = Len(handled) /\ l = Len(results)
  <2>1. next \in Nat
    BY <1>1, <1>3
  <2>2. QED
    BY <1>1, <1>2, <2>1
<1>6. y < 10 /\ x \in 1 .. y + 2 /\ h < x /\ l < x
  BY <1>1, <1>3, <1>5
<1>7. y \in 0 .. 9 /\ x - 1 \in 0 .. y + 1 /\ h \in 0 .. x - 1 /\ l \in 0 .. x - 1
  BY ONLY <1>6, x \in Nat, y \in Nat, h \in Nat, l \in Nat
<1>8. QED
  BY <1>3, <1>4, <1>5, <1>7

\* ... and of an end.
LEMMA EndFacts ==
  ASSUME TypeOK, NEW e \in End
  PROVE  /\ text[e] \in Seq(Nat) /\ left[e] \in Nat
         /\ wire[e] \in Seq(Seq(Nat) \ {<<>>}) /\ wire[e] \in Seq(Seq(Nat))
         /\ buf[e] \in Seq(Nat)
<1>1. /\ text[e] \in Seq(Nat) /\ left[e] \in Nat /\ buf[e] \in Seq(Nat)
      /\ wire[e] \in Seq(Seq(Nat) \ {<<>>})
  BY DEF TypeOK, Byte
<1>2. wire[e] \in Seq(Seq(Nat))
  <2>1. Seq(Nat) \ {<<>>} \subseteq Seq(Nat)
    OBVIOUS
  <2>2. QED
    BY <1>1, <2>1, SeqMonotonic
<1>3. QED
  BY <1>1, <1>2

\* The message and the answer do not change behind the back of the ends.
LEMMA Renewed ==
  ASSUME tasks' = tasks
  PROVE  /\ Message(next - 1)' = Message(next' - 1)
         /\ next' = next => Message(next - 1)' = Message(next - 1)
         /\ next' = next /\ handled' = handled => Reply(next - 1)' = Reply(next - 1)
         /\ next' = next =>
              Reply(next - 1)' = ResultText(handled'[next - 1].id, handled'[next - 1].rc)
<1>1. /\ Message(next - 1)' = Message(next' - 1)
      /\ next' = next => Message(next - 1)' = Message(next - 1)
  BY DEF Message, TaskText, Id
<1>2. /\ next' = next /\ handled' = handled => Reply(next - 1)' = Reply(next - 1)
      /\ next' = next =>
              Reply(next - 1)' = ResultText(handled'[next - 1].id, handled'[next - 1].rc)
  BY DEF Reply
<1>3. QED
  BY <1>1, <1>2

\* IInv, with its parts in that form.
WInv == TypeOK /\ InOrder /\ AgentState /\ DispatcherState /\ HandlerExact

\* Nothing handled, no result, and no new cut: these parts stay as they are.
LEMMA Records ==
  ASSUME InOrder, HandlerExact, tasks' = tasks, handled' = handled, results' = results,
         cuts' = 0 => cuts = 0
  PROVE  InOrder' /\ HandlerExact'
<1>1. InOrder'
  BY DEF InOrder, Id
<1>2. HandlerExact'
  BY DEF HandlerExact, Id, Plain, TaskText
<1>3. QED
  BY <1>1, <1>2

\* Where an end is.
Place == {"off", "ready", "writeSize", "writeBody", "size", "body",
           "drain", "spin", "got", "closed", "dead", "out"}

\* The dispatcher comes up, or cannot bind its port.
LEMMA ListenStep ==
  ASSUME WInv, Listen
  PROVE  WInv'
<1>1. /\ pc["dispatcher"] = "off" /\ pc \in [End -> Place]
      /\ UNCHANGED <<tasks, text, left, wire, buf, next, handled, results, cuts>>
  BY DEF Listen, WInv, TypeOK, Place
<1>2. PICK there \in {"ready", "closed"} : pc' = [pc EXCEPT !["dispatcher"] = there]
  BY DEF Listen
<1>3. /\ pc'["dispatcher"] = there /\ pc'["agent"] = pc["agent"]
      /\ there \in Place /\ pc' \in [End -> Place]
  BY <1>1, <1>2, Ends DEF Place
<1>4. InOrder' /\ HandlerExact'
  BY <1>1, Records DEF WInv
<1>5. TypeOK'
  BY <1>1, <1>3 DEF WInv, TypeOK, Place
<1>6. /\ next - 1 = 0 /\ Len(results) = 0 /\ Len(handled) = 0
      /\ Still(wire["dispatcher"], buf["dispatcher"]) /\ 0 <= Len(tasks)
  <2>1. DispatcherState /\ Len(tasks) \in 0 .. 9
    BY TypeFacts DEF WInv
  <2>2. QED
    BY <1>1, <2>1 DEF DispatcherState, DispatcherAt, WaitAt, AstrayAt, AnswerAt
<1>7. AgentState' /\ pc["agent"] \notin {"writeSize", "writeBody"}
  <2>1. PICK whole \in BOOLEAN : whole = (cuts = 0)
    OBVIOUS
  <2>2. AgentAt(0, pc["dispatcher"], pc["agent"], 0, Message(next - 1), Reply(next - 1),
                wire["agent"], buf["agent"], text["agent"], whole)
    BY <1>6, <2>1 DEF WInv, AgentState
  <2>3. /\ AgentAt(0, there, pc["agent"], 0, Message(next - 1), Reply(next - 1),
                   wire["agent"], buf["agent"], text["agent"], whole)
        /\ pc["agent"] \notin {"writeSize", "writeBody"}
    BY <2>2, AgentIdle
  <2>4. QED
    BY <1>1, <1>3, <1>6, <2>1, <2>3, Renewed DEF AgentState
<1>8. DispatcherState'
  BY <1>1, <1>3, <1>6, <1>7 DEF DispatcherState, DispatcherAt
<1>9. QED
  BY <1>4, <1>5, <1>7, <1>8 DEF WInv

\* The agent connects, or finds nobody.
LEMMA ConnectStep ==
  ASSUME WInv, Connect
  PROVE  WInv'
<1>1. /\ pc["agent"] = "off" /\ pc \in [End -> Place]
      /\ UNCHANGED <<tasks, text, left, wire, buf, next, handled, results, cuts>>
  BY DEF Connect, WInv, TypeOK, Place
<1>2. PICK there \in {"out", "size"} : pc' = [pc EXCEPT !["agent"] = there]
  BY DEF Connect
<1>3. /\ pc'["agent"] = there /\ pc'["dispatcher"] = pc["dispatcher"]
      /\ there \in Place /\ pc' \in [End -> Place]
  BY <1>1, <1>2, Ends DEF Place
<1>4. InOrder' /\ HandlerExact'
  BY <1>1, Records DEF WInv
<1>5. TypeOK'
  BY <1>1, <1>3 DEF WInv, TypeOK, Place
<1>6. AgentState'
  <2>1. /\ Still(wire["agent"], buf["agent"]) /\ Len(handled) = next - 1
    BY <1>1 DEF WInv, AgentState, AgentAt, TakesTask, Losing
  <2>2. QED
    BY <1>1, <1>3, <2>1 DEF AgentState, AgentAt, Losing
<1>7. DispatcherState'
  <2>1. PICK whole \in BOOLEAN : whole = (cuts = 0)
    OBVIOUS
  <2>2. DispatcherAt(next - 1, pc["dispatcher"], pc["agent"], Len(handled), Len(results),
               Len(tasks), Message(next - 1), Reply(next - 1), wire["dispatcher"],
               buf["dispatcher"], text["dispatcher"], whole)
    BY <2>1 DEF WInv, DispatcherState
  <2>3. DispatcherAt(next - 1, pc["dispatcher"], there, Len(handled), Len(results),
               Len(tasks), Message(next - 1), Reply(next - 1), wire["dispatcher"],
               buf["dispatcher"], text["dispatcher"], whole)
    BY <1>1, <2>2, DispatcherKeeps
  <2>4. QED
    BY <1>1, <1>3, <2>1, <2>3, Renewed DEF DispatcherState
<1>8. QED
  BY <1>4, <1>5, <1>6, <1>7 DEF WInv

\* The answer the agent owes, or has given.
LEMMA ReplyFacts ==
  ASSUME WInv, Len(handled) = next - 1, next - 1 > 0
  PROVE  /\ Answer(Reply(next - 1)) /\ next - 1 \in DOMAIN handled
         /\ IsResult(Reply(next - 1)) /\ ~ Throws(Reply(next - 1))
         /\ Head(Frags(Reply(next - 1))) = handled[next - 1].id
         /\ Head(Last(Frags(Reply(next - 1)))) - Zero = handled[next - 1].rc
         /\ \A str \in Seq(Nat) : IsStrictPrefix(str, Reply(next - 1)) =>
              ~ IsResult(str) \/ Throws(str)
<1>1. PICK k \in Nat : k = next - 1 /\ k > 0
  BY TypeFacts DEF WInv
<1>2. k <= Len(tasks) /\ Len(tasks) \in 0 .. 9
  <2>1. Len(tasks) \in 0 .. 9
    BY TypeFacts DEF WInv
  <2>2. k # 0 /\ k # k - 1
    BY <1>1
  <2>3. QED
    BY <1>1, <2>1, <2>2 DEF WInv, DispatcherState, DispatcherAt
<1>3. k \in 1 .. 9
  <2>1. PICK y \in 0 .. 9 : y = Len(tasks)
    BY <1>2
  <2>2. k <= y /\ k > 0
    BY <1>1, <1>2, <2>1
  <2>3. QED
    BY ONLY <2>2, k \in Nat, y \in 0 .. 9
<1>4. k \in DOMAIN handled /\ handled[k].id \in {Id(k), <<>>} /\ handled[k].rc \in {0, 1}
  <2>1. DOMAIN handled = 1 .. Len(handled) /\ k \in 1 .. Len(handled)
    BY <1>1, LenProperties DEF WInv, TypeOK
  <2>2. handled[k] \in [id : Seq(Byte), type : Byte, args : Seq(Seq(Byte)), rc : {0, 1}]
    <3> DEFINE R == [id : Seq(Byte), type : Byte, args : Seq(Seq(Byte)), rc : {0, 1}]
    <3>1. handled \in Seq(R)
      BY DEF WInv, TypeOK
    <3> HIDE DEF R
    <3>2. QED
      BY <2>1, <3>1, ElementOfSeq DEF R
  <2>3. QED
    BY <2>1, <2>2 DEF WInv, InOrder
<1>5. PICK id \in {Id(k), <<>>}, rc \in {0, 1} : id = handled[k].id /\ rc = handled[k].rc
  BY <1>4
<1>6. Reply(k) = ResultText(id, rc)
  BY <1>5 DEF Reply
<1>7. /\ ResultText(id, rc) \in Seq(Nat) /\ TextBytes(ResultText(id, rc))
      /\ ResultText(id, rc) # <<F>> /\ Len(ResultText(id, rc)) \in {2, 4}
  BY <1>3, ResultFacts
<1>8. /\ IsResult(ResultText(id, rc)) /\ ~ Throws(ResultText(id, rc))
      /\ Head(Frags(ResultText(id, rc))) = id
      /\ Head(Last(Frags(ResultText(id, rc)))) - Zero = rc
      /\ \A str \in Seq(Nat) : IsStrictPrefix(str, ResultText(id, rc)) =>
           ~ IsResult(str) \/ Throws(str)
  BY <1>3, ResultFacts
<1>9. Answer(ResultText(id, rc))
  BY <1>7, AnswerFacts
<1>10. QED
  BY <1>1, <1>4, <1>5, <1>6, <1>8, <1>9

\* With every task answered the agent does not depend on the dispatcher.
LEMMA AgentFree ==
  ASSUME NEW k \in Nat, NEW d, NEW a, NEW m, NEW r, NEW w, NEW u, NEW t,
         NEW whole \in BOOLEAN, NEW e,
         AgentAt(k, d, a, k, m, r, w, u, t, whole)
  PROVE  AgentAt(k, e, a, k, m, r, w, u, t, whole)
<1>1. k # k - 1
  OBVIOUS
<1>2. QED
  BY <1>1 DEF AgentAt

\* The dispatcher turns to the next message.
LEMMA SendStep ==
  ASSUME WInv, Send
  PROVE  WInv'
<1>1. /\ pc["dispatcher"] = "ready" /\ pc["agent"] \notin {"off", "out"}
      /\ next' = next + 1 /\ pc' = [pc EXCEPT !["dispatcher"] = "writeSize"]
      /\ text' = [text EXCEPT !["dispatcher"] = Message(next)]
      /\ UNCHANGED <<tasks, left, wire, buf, handled, results, cuts>>
  BY DEF Send
<1>2. pc \in [End -> Place] /\ text \in [End -> Seq(Nat)]
  BY DEF WInv, TypeOK, Place, Byte
<1>3. /\ pc'["dispatcher"] = "writeSize" /\ pc'["agent"] = pc["agent"]
      /\ pc' \in [End -> Place]
      /\ text'["dispatcher"] = Message(next) /\ text'["agent"] = text["agent"]
  BY <1>1, <1>2, Ends DEF Place
<1>4. InOrder' /\ HandlerExact'
  BY <1>1, Records DEF WInv
<1>5. PICK whole \in BOOLEAN : whole = (cuts = 0)
  OBVIOUS
<1>6. PICK k \in Nat : /\ k = next - 1 /\ next = k + 1 /\ next' - 1 = k + 1
                       /\ Message(next - 1)' = Message(next)
  <2>1. next - 1 \in Nat /\ next \in Nat
    BY TypeFacts DEF WInv
  <2>2. next' - 1 = next /\ next = (next - 1) + 1
    BY <1>1, <2>1
  <2>3. Message(next - 1)' = Message(next' - 1)
    BY <1>1, Renewed
  <2>4. QED
    BY <2>1, <2>2, <2>3
<1>7. /\ DispatcherAt(k + 1, "writeSize", pc["agent"], Len(handled), Len(results),
                      Len(tasks), Message(next), Reply(next - 1)', wire["dispatcher"],
                      buf["dispatcher"], Message(next), whole)
      /\ Len(handled) = k /\ k <= Len(tasks) /\ pc["agent"] \notin {"writeSize", "writeBody"}
  <2>1. DispatcherAt(k, "ready", pc["agent"], Len(handled), Len(results), Len(tasks),
                     Message(next - 1), Reply(next - 1), wire["dispatcher"],
                     buf["dispatcher"], text["dispatcher"], whole)
    BY <1>1, <1>5, <1>6 DEF WInv, DispatcherState
  <2>2. QED
    BY <2>1, DispatcherSends
<1>8. DispatcherState'
  BY <1>1, <1>3, <1>5, <1>6, <1>7 DEF DispatcherState
<1>9. AgentState'
  <2>1. AgentAt(k, "ready", pc["agent"], k, Message(next - 1), Reply(next - 1),
                wire["agent"], buf["agent"], text["agent"], whole)
    BY <1>1, <1>5, <1>6, <1>7 DEF WInv, AgentState
  <2>2. pc["agent"] \notin {"off", "writeSize", "writeBody"}
    BY <1>1, <1>7
  <2>3. AgentAt(k + 1, "writeSize", pc["agent"], k, Message(next), Reply(next - 1)',
                wire["agent"], buf["agent"], text["agent"], whole)
    BY <2>1, <2>2, AgentExpects
  <2>4. QED
    BY <1>1, <1>3, <1>5, <1>6, <1>7, <2>3 DEF AgentState
<1>10. TypeOK'
  <2>1. Len(tasks) \in 0 .. 9 /\ tasks \in Workloads
    BY TypeFacts DEF WInv
  <2>2. next \in 1 .. Len(tasks) + 1
    BY <1>6, <1>7, <2>1
  <2>3. Message(next) \in Seq(Nat)
    BY <2>1, <2>2, MessageFacts
  <2>4. text' \in [End -> Seq(Nat)]
    BY <1>1, <1>2, <2>3
  <2>5. /\ next' \in 1 .. Len(tasks) + 2 /\ Len(handled) < next' /\ Len(results) < next'
    <3>1. Len(handled) < next /\ Len(results) < next /\ Len(results) \in Int /\ Len(handled) \in Int
      BY TypeFacts DEF WInv, TypeOK
    <3>2. QED
      BY <1>1, <2>1, <2>2, <3>1
  <2>6. QED
    BY <1>1, <1>3, <2>4, <2>5 DEF WInv, TypeOK, Place, Byte
<1>11. QED
  BY <1>4, <1>8, <1>9, <1>10 DEF WInv

\* The agent dies at any moment.
LEMMA CrashStep ==
  ASSUME WInv, AgentCrash
  PROVE  WInv'
<1>1. /\ pc' = [pc EXCEPT !["agent"] = "dead"] /\ pc \in [End -> Place]
      /\ UNCHANGED <<tasks, text, left, wire, buf, next, handled, results, cuts>>
  BY DEF AgentCrash, Die, WInv, TypeOK, Place
<1>2. /\ pc'["agent"] = "dead" /\ pc'["dispatcher"] = pc["dispatcher"]
      /\ pc' \in [End -> Place]
  BY <1>1, Ends DEF Place
<1>3. InOrder' /\ HandlerExact'
  BY <1>1, Records DEF WInv
<1>4. TypeOK'
  BY <1>1, <1>2 DEF WInv, TypeOK, Place
<1>5. AgentState'
  BY <1>2 DEF AgentState, AgentAt, Losing
<1>6. DispatcherState'
  <2>1. PICK whole \in BOOLEAN : whole = (cuts = 0)
    OBVIOUS
  <2>2. DispatcherAt(next - 1, pc["dispatcher"], pc["agent"], Len(handled), Len(results),
               Len(tasks), Message(next - 1), Reply(next - 1), wire["dispatcher"],
               buf["dispatcher"], text["dispatcher"], whole)
    BY <2>1 DEF WInv, DispatcherState
  <2>3. DispatcherAt(next - 1, pc["dispatcher"], "dead", Len(handled), Len(results),
               Len(tasks), Message(next - 1), Reply(next - 1), wire["dispatcher"],
               buf["dispatcher"], text["dispatcher"], whole)
    BY <2>2, DispatcherKeeps
  <2>4. QED
    BY <1>1, <1>2, <2>1, <2>3, Renewed DEF DispatcherState
<1>7. QED
  BY <1>3, <1>4, <1>5, <1>6 DEF WInv

\* readResult: a result is recorded only when it is the answer.
LEMMA TakeResultStep ==
  ASSUME WInv, TakeResult
  PROVE  WInv'
<1> DEFINE str == text["dispatcher"]
<1>1. /\ pc["dispatcher"] = "got" /\ pc \in [End -> Place]
      /\ UNCHANGED <<tasks, text, left, wire, buf, next, handled, cuts>>
  BY DEF TakeResult, WInv, TypeOK, Place
<1>2. PICK whole \in BOOLEAN : whole = (cuts = 0)
  OBVIOUS
<1>3. PICK k \in Nat : k = next - 1 /\ Len(handled) \in Nat /\ Len(results) \in Nat
  BY TypeFacts DEF WInv
<1>4. /\ k > 0 /\ k <= Len(tasks) /\ Len(results) = k - 1
      /\ \/ /\ str = <<>> \/ (Len(handled) = k /\ IsStrictPrefix(str, Reply(k)))
            /\ DispatcherAt(k, "size", pc["agent"], Len(handled), Len(results), Len(tasks),
                     Message(k), Reply(k), wire["dispatcher"], buf["dispatcher"], str, whole)
            /\ whole => str = <<>>
            /\ ~ whole => DispatcherAt(k, "dead", pc["agent"], Len(handled), Len(results),
                     Len(tasks), Message(k), Reply(k), wire["dispatcher"],
                     buf["dispatcher"], str, whole)
         \/ /\ str = Reply(k) /\ Len(handled) = k
            /\ DispatcherAt(k, "ready", pc["agent"], Len(handled), k, Len(tasks),
                     Message(k), Reply(k), wire["dispatcher"], buf["dispatcher"], str, whole)
  <2>1. DispatcherAt(k, "got", pc["agent"], Len(handled), Len(results), Len(tasks),
                     Message(k), Reply(k), wire["dispatcher"], buf["dispatcher"], str, whole)
    BY <1>1, <1>2, <1>3 DEF WInv, DispatcherState
  <2> HIDE DEF str
  <2>2. QED
    BY <2>1, DispatcherTakes
<1>5. AgentAt(k, "got", pc["agent"], Len(handled), Message(k), Reply(k), wire["agent"],
              buf["agent"], text["agent"], whole)
  BY <1>1, <1>2, <1>3 DEF WInv, AgentState
<1>6. str \in Seq(Nat)
  BY EndFacts, Ends DEF WInv
<1>7. /\ Message(next - 1)' = Message(k) /\ Reply(next - 1)' = Reply(k) /\ next' - 1 = k
  BY <1>1, <1>3, Renewed
<1> HIDE DEF str
<1>8. CASE str = <<>> \/ (Len(handled) = k /\ IsStrictPrefix(str, Reply(k)))
  <2>1. ~ IsResult(str) \/ Throws(str)
    <3>1. CASE str = <<>>
      BY <3>1 DEF IsResult
    <3>2. CASE Len(handled) = k /\ IsStrictPrefix(str, Reply(k))
      BY <1>3, <1>4, <1>6, <3>2, ReplyFacts
    <3>3. QED
      BY <1>8, <3>1, <3>2
  <2>2. Throws(str) => IsResult(str) /\ str # <<>>
    BY DEF Throws, IsResult
  <2>3. PICK there \in {"size", "dead"} :
          /\ pc' = [pc EXCEPT !["dispatcher"] = there] /\ results' = results
          /\ there = "dead" => str # <<>>
    BY <2>1, <2>2 DEF TakeResult, str
  <2>4. /\ pc'["dispatcher"] = there /\ pc'["agent"] = pc["agent"]
        /\ pc' \in [End -> Place]
    BY <1>1, <2>3, Ends DEF Place
  <2>5. ~ (str = Reply(k) /\ Len(handled) = k)
    <3>1. ASSUME str = Reply(k), Len(handled) = k
          PROVE  FALSE
      <4>1. IsResult(Reply(k)) /\ ~ Throws(Reply(k))
        BY <1>3, <1>4, <3>1, ReplyFacts
      <4>2. QED
        BY <2>1, <3>1, <4>1
    <3>2. QED
      BY <3>1
  <2>6. DispatcherAt(k, there, pc["agent"], Len(handled), Len(results), Len(tasks),
                     Message(k), Reply(k), wire["dispatcher"], buf["dispatcher"], str, whole)
    BY <1>4, <2>3, <2>5
  <2>7. DispatcherState'
    BY <1>1, <1>2, <1>7, <2>3, <2>4, <2>6 DEF DispatcherState, str
  <2>8. AgentAt(k, there, pc["agent"], Len(handled), Message(k), Reply(k), wire["agent"],
                buf["agent"], text["agent"], whole)
    <3>1. there \notin {"ready", "writeSize", "writeBody"}
      BY <2>3
    <3>2. QED
      BY <1>5, <3>1, AgentKeeps
  <2>9. AgentState'
    BY <1>1, <1>2, <1>7, <2>4, <2>8 DEF AgentState
  <2>10. InOrder' /\ HandlerExact'
    BY <1>1, <2>3, Records DEF WInv
  <2>11. TypeOK'
    BY <1>1, <2>3, <2>4 DEF WInv, TypeOK, Place
  <2>12. QED
    BY <2>7, <2>9, <2>10, <2>11 DEF WInv
<1>9. CASE /\ str = Reply(k) /\ Len(handled) = k
           /\ DispatcherAt(k, "ready", pc["agent"], Len(handled), k, Len(tasks),
                     Message(k), Reply(k), wire["dispatcher"], buf["dispatcher"], str, whole)
  <2>1. /\ IsResult(str) /\ ~ Throws(str) /\ k \in DOMAIN handled
        /\ Head(Frags(str)) = handled[k].id
        /\ Head(Last(Frags(str))) - Zero = handled[k].rc
    BY <1>3, <1>4, <1>9, ReplyFacts
  <2>2. PICK id, rc : id = handled[k].id /\ rc = handled[k].rc
    OBVIOUS
  <2>3. /\ pc' = [pc EXCEPT !["dispatcher"] = "ready"]
        /\ results' = Append(results, [id |-> id, rc |-> rc])
    BY <2>1, <2>2 DEF TakeResult, str
  <2>4. /\ pc'["dispatcher"] = "ready" /\ pc'["agent"] = pc["agent"]
        /\ pc' \in [End -> Place]
    BY <1>1, <2>3, Ends DEF Place
  <2>5. id \in Seq(Nat) /\ rc \in {0, 1}
    <3> DEFINE R == [id : Seq(Byte), type : Byte, args : Seq(Seq(Byte)), rc : {0, 1}]
    <3>1. handled \in Seq(R)
      BY DEF WInv, TypeOK
    <3>2. handled[k] \in R
      <4> HIDE DEF R
      <4>1. k \in 1 .. Len(handled)
        BY <2>1, <3>1, LenProperties
      <4>2. QED
        BY <3>1, <4>1, ElementOfSeq
    <3>3. QED
      BY <2>2, <3>2 DEF Byte
  <2> DEFINE R == [id : Seq(Nat), rc : {0, 1}]
             e == [id |-> id, rc |-> rc]
  <2>6. results \in Seq(R) /\ e \in R /\ e.id = handled[k].id /\ e.rc = handled[k].rc
    BY <2>2, <2>5 DEF WInv, TypeOK, Byte
  <2>7. results' = Append(results, e)
    BY <2>3
  <2> HIDE DEF R, e
  <2>8. /\ results' \in Seq(R) /\ Len(results') = Len(results) + 1
        /\ DOMAIN results = 1 .. Len(results) /\ DOMAIN results' = 1 .. Len(results) + 1
        /\ \A i \in 1 .. Len(results) : results'[i] = results[i]
        /\ results'[Len(results) + 1] = e
    <3>1. Append(results, e) \in Seq(R) /\ Len(Append(results, e)) = Len(results) + 1
      BY <2>6, AppendProperties
    <3>2. QED
      BY <2>6, <2>7, <3>1, AppendFacts
  <2>9. Len(results) + 1 = k /\ Len(results') = k
    BY <1>4, <2>8
  <2>10. DispatcherState'
    BY <1>1, <1>2, <1>7, <1>9, <2>4, <2>9 DEF DispatcherState, str
  <2>11. AgentAt(k, "ready", pc["agent"], k, Message(k), Reply(k), wire["agent"],
                buf["agent"], text["agent"], whole)
    BY <1>5, <1>9, AgentFree
  <2>12. AgentState'
    BY <1>1, <1>2, <1>7, <1>9, <2>4, <2>11 DEF AgentState
  <2>13. HandlerExact'
    BY <1>1 DEF WInv, HandlerExact, Id, Plain, TaskText
  <2>14. InOrder'
    <3>1. \A n \in 1 .. k : n \in 1 .. Len(results) \/ n = k
      BY <1>3, <2>9
    <3>2. \A n \in 1 .. k : n \in DOMAIN handled /\ results'[n].id = handled[n].id
                                                /\ results'[n].rc = handled[n].rc
      <4>1. \A n \in 1 .. Len(results) : n \in DOMAIN handled
                 /\ results[n].id = handled[n].id /\ results[n].rc = handled[n].rc
        BY <2>8 DEF WInv, InOrder
      <4>2. /\ results'[k] = e
            /\ \A n \in 1 .. Len(results) : results'[n] = results[n]
        BY <2>8, <2>9
      <4>3. QED
        BY <2>1, <2>6, <3>1, <4>1, <4>2
    <3>3. DOMAIN results' = 1 .. k
      BY <2>8, <2>9
    <3>4. QED
      BY <1>1, <3>2, <3>3 DEF WInv, InOrder, Id
  <2>15. TypeOK'
    <3>1. Len(results') < next'
      <4>1. next \in Nat
        BY TypeFacts DEF WInv
      <4>2. QED
        BY <1>1, <1>3, <2>9, <4>1
    <3>2. results' \in Seq([id : Seq(Byte), rc : {0, 1}])
      BY <2>8 DEF R, Byte
    <3>3. QED
      BY <1>1, <2>4, <3>1, <3>2 DEF WInv, TypeOK, Place
  <2>16. QED
    BY <2>10, <2>12, <2>13, <2>14, <2>15 DEF WInv
<1>10. QED
  BY <1>4, <1>8, <1>9

\* What the agent has read of the task it is to handle.
LEMMA TaskRead ==
  ASSUME WInv, pc["agent"] = "got", text["agent"] # <<>>, TypeOf(text["agent"]) # F
  PROVE  LET k == next - 1
             str == text["agent"]
         IN  /\ k \in 1 .. 9 /\ k \in 1 .. Len(tasks) /\ Len(handled) = k - 1
             /\ pc["dispatcher"] \notin {"ready", "writeSize", "writeBody"}
             /\ Opens(Message(k), k) /\ Message(k) = TaskText(k)
             /\ Len(str) <= Len(Message(k)) /\ \A i \in 1 .. Len(str) : str[i] = Message(k)[i]
             /\ \/ str = Body(Message(k)) /\ Still(wire["agent"], buf["agent"])
                \/ cuts # 0 /\ Adrift(wire["agent"], buf["agent"])
<1>1. PICK k \in Nat, str \in Seq(Nat) :
        k = next - 1 /\ str = text["agent"] /\ k <= Len(tasks) + 1
  BY TypeFacts, EndFacts, Ends DEF WInv
<1> DEFINE m == Message(k)
           d == pc["dispatcher"]
<1>2. /\ Len(handled) = k - 1 /\ d \notin {"ready", "writeSize", "writeBody"}
      /\ \/ str = Body(m) /\ Still(wire["agent"], buf["agent"])
         \/ IsPrefix(str, Body(m)) /\ cuts # 0 /\ Adrift(wire["agent"], buf["agent"])
  BY <1>1 DEF WInv, AgentState, AgentAt, TakesTask, Losing, Sent
<1>3. Len(handled) \in Nat /\ Len(tasks) \in 0 .. 9 /\ tasks \in Workloads
  BY TypeFacts DEF WInv
<1>4. k \in 1 .. Len(tasks) + 1
  BY <1>1, <1>2, <1>3
<1>5. m \in Seq(Nat)
  BY <1>3, <1>4, MessageFacts
<1> HIDE DEF m
<1>6. Len(str) <= Len(m) /\ \A i \in 1 .. Len(str) : str[i] = m[i]
  <2>1. PICK b \in Seq(Nat), x \in Nat : /\ b = Body(m) /\ Len(b) = x /\ x <= Len(m)
                                         /\ \A i \in 1 .. x : b[i] = m[i]
    BY <1>5, SizeFacts
  <2>2. PICK y \in Nat, z \in Nat : y = Len(str) /\ z = Len(m)
    BY <1>5, LenProperties
  <2>3. CASE str = b
    BY <2>1, <2>3
  <2>4. CASE IsPrefix(str, b)
    <3>1. y <= x /\ SubSeq(str, 1, y) = SubSeq(b, 1, y)
      BY <2>1, <2>2, <2>4 DEF IsPrefix
    <3>2. SubSeq(str, 1, y) = str
      BY <2>2, SubSeqFull
    <3>3. \A i \in 1 .. y : str[i] = b[i]
      <4>1. CASE y = 0
        BY <4>1
      <4>2. CASE y # 0
        <5>1. y \in 1 .. Len(b)
          BY <2>1, <3>1, <4>2
        <5>2. \A i \in 1 .. y : SubSeq(b, 1, y)[i] = b[i]
          BY <5>1, Cut
        <5>3. QED
          BY <3>1, <3>2, <5>2
      <4>3. QED
        BY <4>1, <4>2
    <3>4. \A i \in 1 .. y : i \in 1 .. x
      BY <3>1
    <3>5. QED
      BY <2>1, <2>2, <3>1, <3>3, <3>4
  <2>5. QED
    BY <1>2, <2>1, <2>3, <2>4 DEF m
<1>7. k <= Len(tasks)
  <2>1. ASSUME ~ (k <= Len(tasks))
        PROVE  FALSE
    <3>1. m = <<F>>
      BY <1>3, <1>4, <2>1, MessageFacts DEF m
    <3>2. 1 \in 1 .. Len(str) /\ Head(str) = str[1]
      BY <1>1, TailFacts
    <3>3. TypeOf(str) = F
      BY <1>1, <1>6, <3>1, <3>2 DEF TypeOf
    <3>4. QED
      BY <1>1, <3>3
  <2>2. QED
    BY <2>1
<1>8. /\ k \in 1 .. Len(tasks) /\ k \in 1 .. 9 /\ Opens(m, k) /\ m = TaskText(k)
  BY <1>3, <1>4, <1>7, MessageFacts DEF m
<1>9. QED
  BY <1>1, <1>2, <1>6, <1>8 DEF m

\* The agent's main: what is decoded is the task sent last, or without an id.
LEMMA TakeTaskStep ==
  ASSUME WInv, TakeTask
  PROVE  WInv'
<1> DEFINE str == text["agent"]
<1>1. /\ pc["agent"] = "got" /\ pc \in [End -> Place] /\ text \in [End -> Seq(Nat)]
      /\ UNCHANGED <<tasks, left, wire, buf, next, results, cuts>>
  BY DEF TakeTask, WInv, TypeOK, Place, Byte
<1>2. PICK whole \in BOOLEAN : whole = (cuts = 0)
  OBVIOUS
<1>3. PICK k \in Nat : k = next - 1 /\ Len(handled) \in Nat /\ next = k + 1
  BY TypeFacts DEF WInv
<1>4. DispatcherAt(k, pc["dispatcher"], "got", Len(handled), Len(results), Len(tasks),
                   Message(k), Reply(k), wire["dispatcher"], buf["dispatcher"],
                   text["dispatcher"], whole)
  BY <1>1, <1>2, <1>3 DEF WInv, DispatcherState
<1>5. Message(next - 1)' = Message(k) /\ next' - 1 = k
  BY <1>1, <1>3, Renewed
<1>6. CASE Die("closed")
  <2>1. /\ pc' = [pc EXCEPT !["agent"] = "closed"]
        /\ UNCHANGED <<text, handled>>
    BY <1>6 DEF Die
  <2>2. /\ pc'["agent"] = "closed" /\ pc'["dispatcher"] = pc["dispatcher"]
        /\ pc' \in [End -> Place]
    BY <1>1, <2>1, Ends DEF Place
  <2>3. InOrder' /\ HandlerExact'
    BY <1>1, <2>1, Records DEF WInv
  <2>4. TypeOK'
    BY <1>1, <2>1, <2>2 DEF WInv, TypeOK, Place
  <2>5. AgentState'
    BY <2>2 DEF AgentState, AgentAt, Losing
  <2>6. DispatcherAt(k, pc["dispatcher"], "closed", Len(handled), Len(results), Len(tasks),
                     Message(k), Reply(k), wire["dispatcher"], buf["dispatcher"],
                     text["dispatcher"], whole)
    BY <1>4, DispatcherKeeps
  <2>7. Reply(next - 1)' = Reply(k)
    BY <1>1, <1>3, <2>1, Renewed
  <2>8. DispatcherState'
    BY <1>1, <1>2, <1>5, <2>1, <2>2, <2>6, <2>7 DEF DispatcherState
  <2>9. QED
    BY <2>3, <2>4, <2>5, <2>8 DEF WInv
<1>7. ASSUME ~ (str = <<>> \/ TypeOf(str) = F), NEW task \in Decoded(str),
             NEW rc \in ReturnCode(task.type, task.args),
             handled' = Append(handled, [id |-> task.id, type |-> task.type,
                                         args |-> task.args, rc |-> rc]),
             text' = [text EXCEPT !["agent"] = ResultText(task.id, rc)],
             pc' = [pc EXCEPT !["agent"] = "writeSize"]
      PROVE  WInv'
  <2>1. /\ k \in 1 .. 9 /\ k \in 1 .. Len(tasks) /\ Len(handled) = k - 1
        /\ pc["dispatcher"] \notin {"ready", "writeSize", "writeBody"}
        /\ Opens(Message(k), k) /\ Message(k) = TaskText(k)
        /\ Len(str) <= Len(Message(k)) /\ \A i \in 1 .. Len(str) : str[i] = Message(k)[i]
        /\ \/ str = Body(Message(k)) /\ Still(wire["agent"], buf["agent"])
           \/ cuts # 0 /\ Adrift(wire["agent"], buf["agent"])
    BY <1>1, <1>3, <1>7, TaskRead
  <2>2. str \in Seq(Nat) /\ Message(k) \in Seq(Nat)
    BY <2>1, EndFacts, Ends DEF WInv, Opens
  <2> HIDE DEF str
  <2>3. /\ task.id \in {Id(k), <<>>} /\ task.type \in Nat /\ task.args \in Seq(Seq(Nat))
        /\ rc \in {0, 1} /\ (rc = 0 => task.id = Id(k))
    BY <1>7, <2>1, <2>2, PrefixDecoded
  <2> DEFINE R == [id : Seq(Nat), type : Nat, args : Seq(Seq(Nat)), rc : {0, 1}]
             e == [id |-> task.id, type |-> task.type, args |-> task.args, rc |-> rc]
  <2>4. /\ task.id \in Seq(Nat) /\ e \in R /\ e.id = task.id /\ e.rc = rc
        /\ e.type = task.type /\ e.args = task.args
    <3>1. task.id \in Seq(Nat)
      BY <2>1, <2>3, IdFacts, EmptySeq
    <3>2. QED
      BY <2>3, <3>1
  <2>5. handled \in Seq(R) /\ handled' = Append(handled, e)
    BY <1>7 DEF WInv, TypeOK, Byte
  <2> HIDE DEF R, e
  <2>6. /\ handled' \in Seq(R) /\ Len(handled') = Len(handled) + 1
        /\ DOMAIN handled = 1 .. Len(handled) /\ DOMAIN handled' = 1 .. Len(handled) + 1
        /\ \A i \in 1 .. Len(handled) : handled'[i] = handled[i]
        /\ handled'[Len(handled) + 1] = e
    <3>1. Append(handled, e) \in Seq(R) /\ Len(Append(handled, e)) = Len(handled) + 1
      BY <2>4, <2>5, AppendProperties
    <3>2. QED
      BY <2>4, <2>5, <3>1, AppendFacts
  <2>7. /\ Len(handled) + 1 = k /\ Len(handled') = k /\ DOMAIN handled' = 1 .. k
        /\ handled'[k] = e /\ \A n \in 1 .. k : n \in DOMAIN handled \/ n = k
        /\ \A n \in DOMAIN handled : handled'[n] = handled[n]
    <3>1. Len(handled) + 1 = k
      BY <2>1
    <3>2. Len(handled') = k /\ DOMAIN handled' = 1 .. k /\ handled'[k] = e
      BY <2>6, <3>1
    <3>3. \A n \in 1 .. k : n \in DOMAIN handled \/ n = k
      BY <1>3, <2>6, <3>1
    <3>4. QED
      BY <2>6, <3>1, <3>2, <3>3
  <2>8. /\ pc'["agent"] = "writeSize" /\ pc'["dispatcher"] = pc["dispatcher"]
        /\ text'["agent"] = ResultText(task.id, rc)
        /\ text'["dispatcher"] = text["dispatcher"] /\ pc' \in [End -> Place]
    BY <1>1, <1>7, Ends DEF Place
  <2>9. Reply(next - 1)' = ResultText(task.id, rc)
    <3>1. Reply(next - 1)' = ResultText(handled'[next - 1].id, handled'[next - 1].rc)
      BY <1>1, Renewed
    <3>2. QED
      BY <1>3, <2>4, <2>7, <3>1
  <2>10. AgentState'
    BY <1>1, <1>2, <1>5, <2>1, <2>7, <2>8, <2>9 DEF AgentState, AgentAt
  <2>11. DispatcherAt(k, pc["dispatcher"], "writeSize", k, Len(results), Len(tasks),
                      Message(k), Reply(next - 1)', wire["dispatcher"], buf["dispatcher"],
                      text["dispatcher"], whole)
    <3>1. k \in Nat \ {0} /\ k <= Len(tasks) /\ Len(tasks) \in Nat
      BY <2>1, TypeFacts DEF WInv
    <3>2. QED
      BY <1>4, <2>1, <3>1, DispatcherServed
  <2>12. DispatcherState'
    BY <1>1, <1>2, <1>5, <2>7, <2>8, <2>11 DEF DispatcherState
  <2>13. InOrder'
    <3>1. \A n \in DOMAIN handled' :
            /\ handled'[n].id \in {Id(n), <<>>}
            /\ handled'[n].rc = 0 => handled'[n].id = Id(n)
      BY <2>3, <2>4, <2>7 DEF WInv, InOrder
    <3>2. \A n \in DOMAIN results : n \in DOMAIN handled' /\ results[n].id = handled'[n].id
                                                   /\ results[n].rc = handled'[n].rc
      <4>1. \A n \in DOMAIN handled : n \in DOMAIN handled'
        BY <2>6, <2>1
      <4>2. QED
        BY <2>7, <4>1 DEF WInv, InOrder
    <3>3. QED
      BY <1>1, <3>1, <3>2 DEF InOrder, Id
  <2>14. HandlerExact'
    <3>1. SUFFICES ASSUME cuts = 0, NEW n \in 1 .. k, Plain(n), Len(TaskText(n)) < Width
                   PROVE  /\ handled'[n].id = Id(n) /\ handled'[n].type = tasks[n].type
                          /\ handled'[n].args = tasks[n].args
      BY <1>1, <2>7 DEF HandlerExact, Id, Plain, TaskText
    <3>2. CASE n \in DOMAIN handled
      BY <2>7, <3>1, <3>2 DEF WInv, HandlerExact
    <3>3. CASE n = k
      <4>1. str = TaskText(k)
        BY <2>1, <2>2, <3>1, <3>3, SizeFacts
      <4>2. tasks \in Workloads
        BY DEF WInv, TypeOK
      <4>3. Decoded(str) = {[id |-> Id(k), type |-> tasks[k].type, args |-> tasks[k].args]}
        BY <2>1, <3>1, <3>3, <4>1, <4>2, TextDecoded
      <4>4. /\ task.id = Id(k) /\ task.type = tasks[k].type /\ task.args = tasks[k].args
        BY <1>7, <4>3
      <4>5. QED
        BY <2>4, <2>7, <3>3, <4>4
    <3>4. QED
      BY <2>7, <3>2, <3>3
  <2>15. TypeOK'
    <3>1. ResultText(task.id, rc) \in Seq(Nat)
      BY <2>1, <2>3, ResultFacts
    <3>2. text' \in [End -> Seq(Nat)]
      BY <1>1, <1>7, <3>1
    <3>3. Len(handled') < next'
      BY <1>1, <1>3, <2>7
    <3>4. handled' \in Seq([id : Seq(Byte), type : Byte, args : Seq(Seq(Byte)), rc : {0, 1}])
      BY <2>6 DEF R, Byte
    <3>5. QED
      BY <1>1, <2>8, <3>2, <3>3, <3>4 DEF WInv, TypeOK, Place, Byte
  <2>16. QED
    BY <2>10, <2>12, <2>13, <2>14, <2>15 DEF WInv
<1>8. QED
  BY <1>6, <1>7 DEF TakeTask

-----------------------------------------------------------------------------
(* The socket: what each operation does to the two ends *)

\* The smaller of two numbers.
LEMMA MinOfTwo ==
  ASSUME NEW x \in Nat, NEW y \in Nat
  PROVE  /\ Min({x, y}) \in 0 .. y
         /\ y <= x => Min({x, y}) = y
         /\ x <= y => Min({x, y}) = x
<1>1. CASE x <= y
  <2>1. \A z : (z \in {x, y} /\ \A v \in {x, y} : z =< v) <=> z = x
    BY <1>1
  <2>2. Min({x, y}) = CHOOSE z : z \in {x, y} /\ \A v \in {x, y} : z =< v
    BY DEF Min
  <2>3. Min({x, y}) = x
    BY <2>1, <2>2
  <2>4. QED
    BY <1>1, <2>3
<1>2. CASE y <= x
  <2>1. \A z : (z \in {x, y} /\ \A v \in {x, y} : z =< v) <=> z = y
    BY <1>2
  <2>2. Min({x, y}) = CHOOSE z : z \in {x, y} /\ \A v \in {x, y} : z =< v
    BY DEF Min
  <2>3. Min({x, y}) = y
    BY <2>1, <2>2
  <2>4. QED
    BY <1>2, <2>3
<1>3. QED
  BY <1>1, <1>2

\* How many bytes a read that asks for n returns.
LEMMA CountFacts ==
  ASSUME TypeOK, NEW e \in End, NEW n \in Nat
  PROVE  /\ Count(e, n) \in 0 .. Len(buf[e]) /\ Len(buf[e]) \in Nat
         /\ Len(buf[e]) <= n => Count(e, n) = Len(buf[e])
         /\ n <= Len(buf[e]) => Count(e, n) = n
<1>1. Len(buf[e]) \in Nat
  BY EndFacts, LenProperties
<1>2. QED
  BY <1>1, MinOfTwo DEF Count

\* Only the end e and the bytes to the other one change.
LEMMA WriteSizeForm ==
  ASSUME TypeOK, NEW e \in End, WriteSize(e)
  PROVE  /\ TypeOK' /\ pc[e] = "writeSize" /\ pc'[e] = "writeBody"
         /\ pc'[Peer(e)] = pc[Peer(e)]
         /\ wire'[Peer(e)] = Append(wire[Peer(e)], Size(text[e])) /\ wire'[e] = wire[e]
         /\ UNCHANGED <<tasks, text, left, buf, next, handled, results, cuts>>
<1>1. /\ pc[e] = "writeSize"
      /\ wire' = [wire EXCEPT ![Peer(e)] = Append(@, Size(text[e]))]
      /\ pc' = [pc EXCEPT ![e] = "writeBody"]
      /\ UNCHANGED <<tasks, text, left, buf, next, handled, results, cuts>>
  BY DEF WriteSize
<1>2. PICK p \in End : p = Peer(e) /\ p # e
  BY Ends
<1>3. /\ pc \in [End -> Place] /\ wire \in [End -> Seq(Seq(Nat) \ {<<>>})]
  BY DEF TypeOK, Place, Byte
<1>4. Append(wire[p], Size(text[e])) \in Seq(Seq(Nat) \ {<<>>})
  <2>1. Size(text[e]) \in Seq(Nat) \ {<<>>}
    BY EndFacts, SizeFacts
  <2>2. wire[p] \in Seq(Seq(Nat) \ {<<>>})
    BY EndFacts
  <2>3. QED
    BY <2>1, <2>2, AppendProperties
<1>5. /\ pc' \in [End -> Place] /\ wire' \in [End -> Seq(Seq(Nat) \ {<<>>})]
  BY <1>1, <1>2, <1>3, <1>4 DEF Place
<1>6. TypeOK'
  BY <1>1, <1>5 DEF TypeOK, Place, Byte
<1>7. QED
  BY <1>1, <1>2, <1>3, <1>6

\* ... and the body, ...
LEMMA WriteBodyForm ==
  ASSUME TypeOK, NEW e \in End, WriteBody(e)
  PROVE  /\ TypeOK' /\ pc[e] = "writeBody"
         /\ pc'[e] = IF text[e] = <<F>> THEN "closed" ELSE "size"
         /\ pc'[Peer(e)] = pc[Peer(e)]
         /\ wire'[Peer(e)] = IF Body(text[e]) = <<>> THEN wire[Peer(e)]
                             ELSE Append(wire[Peer(e)], Body(text[e]))
         /\ wire'[e] = wire[e]
         /\ UNCHANGED <<tasks, text, left, buf, next, handled, results, cuts>>
<1>1. /\ pc[e] = "writeBody"
      /\ wire' = [wire EXCEPT ![Peer(e)] =
                    IF Body(text[e]) = <<>> THEN @ ELSE Append(@, Body(text[e]))]
      /\ pc' = [pc EXCEPT ![e] = IF text[e] = <<F>> THEN "closed" ELSE "size"]
      /\ UNCHANGED <<tasks, text, left, buf, next, handled, results, cuts>>
  BY DEF WriteBody
<1>2. PICK p \in End : p = Peer(e) /\ p # e
  BY Ends
<1>3. /\ pc \in [End -> Place] /\ wire \in [End -> Seq(Seq(Nat) \ {<<>>})]
  BY DEF TypeOK, Place, Byte
<1> DEFINE w == IF Body(text[e]) = <<>> THEN wire[p] ELSE Append(wire[p], Body(text[e]))
<1>4. w \in Seq(Seq(Nat) \ {<<>>})
  <2>1. Body(text[e]) \in Seq(Nat)
    BY EndFacts, SizeFacts
  <2>2. wire[p] \in Seq(Seq(Nat) \ {<<>>})
    BY EndFacts
  <2>3. QED
    BY <2>1, <2>2, AppendProperties
<1>5. /\ wire' = [wire EXCEPT ![p] = w]
      /\ pc' = [pc EXCEPT ![e] = IF text[e] = <<F>> THEN "closed" ELSE "size"]
  BY <1>1, <1>2
<1> HIDE DEF w
<1>6. /\ pc' \in [End -> Place] /\ wire' \in [End -> Seq(Seq(Nat) \ {<<>>})]
  BY <1>3, <1>4, <1>5 DEF Place
<1>7. TypeOK'
  BY <1>1, <1>6 DEF TypeOK, Place, Byte
<1>8. wire'[p] = w /\ wire'[e] = wire[e] /\ pc'[p] = pc[p]
  BY <1>2, <1>3, <1>5
<1>9. pc'[e] = IF text[e] = <<F>> THEN "closed" ELSE "size"
  BY <1>3, <1>5
<1>10. QED
  BY <1>1, <1>2, <1>7, <1>8, <1>9 DEF w

\* What a read that asks for n bytes leaves in the buffer.
LEMMA ReadForm ==
  ASSUME TypeOK, NEW e \in End, NEW n \in Nat, Read(e, n)
  PROVE  /\ buf'[e] = SubSeq(buf[e], Count(e, n) + 1, Len(buf[e]))
         /\ buf' \in [End -> Seq(Nat)] /\ buf'[Peer(e)] = buf[Peer(e)]
         /\ buf[e] # <<>> \/ AtEnd(e)
<1>1. /\ buf[e] # <<>> \/ AtEnd(e)
      /\ buf' = [buf EXCEPT ![e] = SubSeq(@, Count(e, n) + 1, Len(@))]
      /\ buf \in [End -> Seq(Nat)]
  BY DEF Read, CanRead, TypeOK, Byte
<1>2. PICK c \in 0 .. Len(buf[e]) : c = Count(e, n)
  BY CountFacts
<1>3. SubSeq(buf[e], c + 1, Len(buf[e])) \in Seq(Nat)
  BY EndFacts, Behind
<1>4. Peer(e) \in End /\ Peer(e) # e
  BY Ends
<1>5. QED
  BY <1>1, <1>2, <1>3, <1>4

\* The read of a size, ...
LEMMA ReadSizeForm ==
  ASSUME TypeOK, NEW e \in End, ReadSize(e)
  PROVE  /\ TypeOK' /\ pc[e] = "size"
         /\ SizeRead(buf[e], text[e], pc'[e], text'[e], buf'[e])
         /\ buf[e] # <<>> \/ AtEnd(e)
         /\ pc'[Peer(e)] = pc[Peer(e)] /\ text'[Peer(e)] = text[Peer(e)]
         /\ buf'[Peer(e)] = buf[Peer(e)] /\ wire' = wire
         /\ UNCHANGED <<tasks, next, handled, results, cuts>>
<1>1. /\ pc[e] = "size" /\ Read(e, 2)
      /\ UNCHANGED <<tasks, wire, next, handled, results, cuts>>
  BY DEF ReadSize
<1>2. PICK p \in End : p = Peer(e) /\ p # e
  BY Ends
<1>3. /\ pc \in [End -> Place] /\ text \in [End -> Seq(Nat)] /\ left \in [End -> Nat]
      /\ <<>> \in Seq(Nat)
  BY EmptySeq DEF TypeOK, Place, Byte
<1>4. PICK u \in Seq(Nat), y \in Nat : u = buf[e] /\ y = Len(u)
  BY EndFacts, LenProperties
<1>5. /\ buf'[e] = SubSeq(u, Count(e, 2) + 1, y) /\ buf' \in [End -> Seq(Nat)]
      /\ buf'[p] = buf[p] /\ (u # <<>> \/ AtEnd(e))
      /\ Count(e, 2) = IF y <= 2 THEN y ELSE 2
  <2>1. PICK n \in Nat : n = 2
    OBVIOUS
  <2>2. /\ buf'[e] = SubSeq(buf[e], Count(e, n) + 1, Len(buf[e]))
        /\ buf' \in [End -> Seq(Nat)] /\ buf'[Peer(e)] = buf[Peer(e)]
        /\ buf[e] # <<>> \/ AtEnd(e)
    BY <1>1, <2>1, ReadForm
  <2>3. /\ Len(buf[e]) <= n => Count(e, n) = Len(buf[e])
        /\ n <= Len(buf[e]) => Count(e, n) = n
    BY CountFacts
  <2>4. Count(e, 2) = IF y <= 2 THEN y ELSE 2
    BY <1>4, <2>1, <2>3
  <2>5. QED
    BY <1>2, <1>4, <2>1, <2>2, <2>4
<1>6. CASE ~ (y >= 2)
  <2>1. /\ pc' = [pc EXCEPT ![e] = "got"] /\ text' = [text EXCEPT ![e] = <<>>] /\ left' = left
    BY <1>4, <1>6 DEF ReadSize, Got
  <2>2. buf'[e] = <<>>
    <3>1. buf'[e] = SubSeq(u, y + 1, y)
      BY <1>5, <1>6
    <3>2. QED
      BY <3>1, SubSeqEmpty
  <2>3. SizeRead(u, text[e], pc'[e], text'[e], buf'[e])
    BY <1>3, <1>4, <1>6, <2>1, <2>2 DEF SizeRead
  <2>4. pc' \in [End -> Place] /\ text' \in [End -> Seq(Nat)]
    BY <1>3, <2>1 DEF Place
  <2>5. TypeOK'
    BY <1>1, <1>5, <2>1, <2>4 DEF TypeOK, Place, Byte
  <2>6. QED
    BY <1>1, <1>2, <1>3, <1>4, <1>5, <2>1, <2>3, <2>5
<1>7. CASE y >= 2
  <2>1. u[1] \in Nat /\ u[2] \in Nat
    BY <1>4, <1>7, ElementOfSeq
  <2>2. PICK size \in Nat : size = u[1] * Base + u[2]
    BY <2>1, Limits
  <2>3. PICK there \in {"drain", "body"}, n \in Nat :
          /\ pc' = [pc EXCEPT ![e] = there] /\ text' = text
          /\ left' = [left EXCEPT ![e] = n]
          /\ there = IF TooLong(size) THEN "drain" ELSE "body"
    <3>1. CASE TooLong(size)
      <4>1. pc' = [pc EXCEPT ![e] = "drain"] /\ text' = text /\ left' = [left EXCEPT ![e] = size]
        BY <1>4, <1>7, <2>2, <3>1 DEF ReadSize
      <4>2. QED
        BY <3>1, <4>1
    <3>2. CASE ~ TooLong(size)
      <4>1. pc' = [pc EXCEPT ![e] = "body"] /\ text' = text /\ left' = left
        BY <1>4, <1>7, <2>2, <3>2 DEF ReadSize
      <4>2. left[e] \in Nat /\ left = [left EXCEPT ![e] = left[e]]
        BY <1>3
      <4>3. QED
        BY <3>2, <4>1, <4>2
    <3>3. QED
      BY <3>1, <3>2
  <2>4. buf'[e] = SubSeq(u, 3, Len(u))
    <3>1. PICK c : c = Count(e, 2)
      OBVIOUS
    <3>2. c = 2 /\ c + 1 = 3
      BY <1>5, <1>7, <3>1
    <3>3. buf'[e] = SubSeq(u, c + 1, y)
      BY <1>5, <3>1
    <3>4. QED
      BY <1>4, <3>2, <3>3
  <2>5. SizeRead(u, text[e], pc'[e], text'[e], buf'[e])
    BY <1>3, <1>4, <1>7, <2>2, <2>3, <2>4 DEF SizeRead
  <2>6. /\ pc' \in [End -> Place] /\ left' \in [End -> Nat]
    BY <1>3, <2>3 DEF Place
  <2>7. TypeOK'
    BY <1>1, <1>5, <2>3, <2>6 DEF TypeOK, Place, Byte
  <2>8. QED
    BY <1>1, <1>2, <1>3, <1>4, <1>5, <2>3, <2>5, <2>7
<1>8. QED
  BY <1>6, <1>7

\* ... of a body ...
LEMMA ReadBodyForm ==
  ASSUME TypeOK, NEW e \in End, ReadBody(e)
  PROVE  /\ TypeOK' /\ pc[e] = "body" /\ pc'[e] = "got"
         /\ BodyRead(buf[e], text'[e], buf'[e])
         /\ buf[e] # <<>> \/ AtEnd(e)
         /\ pc'[Peer(e)] = pc[Peer(e)] /\ text'[Peer(e)] = text[Peer(e)]
         /\ buf'[Peer(e)] = buf[Peer(e)] /\ wire' = wire
         /\ UNCHANGED <<tasks, next, handled, results, cuts>>
<1>1. /\ pc[e] = "body" /\ Read(e, msgSizeLimit)
      /\ pc' = [pc EXCEPT ![e] = "got"]
      /\ text' = [text EXCEPT ![e] = SubSeq(buf[e], 1, Count(e, msgSizeLimit))]
      /\ UNCHANGED <<tasks, left, wire, next, handled, results, cuts>>
  BY DEF ReadBody, Got
<1>2. PICK p \in End : p = Peer(e) /\ p # e
  BY Ends
<1>3. /\ pc \in [End -> Place] /\ text \in [End -> Seq(Nat)]
  BY DEF TypeOK, Place, Byte
<1>4. PICK u \in Seq(Nat), y \in Nat, c \in Nat :
        u = buf[e] /\ y = Len(u) /\ c = Count(e, msgSizeLimit) /\ c \in 0 .. y
  <2>1. /\ buf[e] \in Seq(Nat) /\ Len(buf[e]) \in Nat
        /\ Count(e, msgSizeLimit) \in 0 .. Len(buf[e])
    BY EndFacts, LenProperties, CountFacts, Limits
  <2>2. Count(e, msgSizeLimit) \in Nat
    BY <2>1
  <2>3. QED
    BY <2>1, <2>2
<1>5. /\ buf'[e] = SubSeq(u, c + 1, y) /\ buf' \in [End -> Seq(Nat)]
      /\ buf'[p] = buf[p] /\ (u # <<>> \/ AtEnd(e))
      /\ y <= msgSizeLimit => c = y
  BY <1>1, <1>2, <1>4, ReadForm, CountFacts, Limits
<1>6. SubSeq(u, 1, c) \in Seq(Nat)
  <2>1. \A i \in 1 .. c : u[i] \in Nat
    BY <1>4, ElementOfSeq
  <2>2. QED
    BY <2>1, SubSeqProperties
<1>7. text'[e] = SubSeq(u, 1, c)
  BY <1>1, <1>3, <1>4
<1>8. BodyRead(u, text'[e], buf'[e])
  <2>1. ASSUME y <= msgSizeLimit
        PROVE  text'[e] = u /\ buf'[e] = <<>>
    <3>1. text'[e] = SubSeq(u, 1, y) /\ buf'[e] = SubSeq(u, y + 1, y)
      BY <1>5, <1>7, <2>1
    <3>2. SubSeq(u, 1, y) = u
      BY <1>4, SubSeqFull
    <3>3. SubSeq(u, y + 1, y) = <<>>
      BY SubSeqEmpty
    <3>4. QED
      BY <3>1, <3>2, <3>3
  <2>2. QED
    BY <1>4, <2>1 DEF BodyRead
<1>9. pc' \in [End -> Place] /\ text' \in [End -> Seq(Nat)]
  BY <1>1, <1>3, <1>4, <1>6 DEF Place
<1>10. TypeOK'
  BY <1>1, <1>5, <1>9 DEF TypeOK, Place, Byte
<1>11. QED
  BY <1>1, <1>2, <1>3, <1>4, <1>5, <1>8, <1>10

\* What is left to throw away is not negative.
LEMMA MaxOfTwo ==
  ASSUME NEW x \in Int
  PROVE  Max({0, x}) \in Nat
<1>1. \E z \in {0, x} : \A y \in {0, x} : z >= y
  <2>1. CASE x <= 0
    BY <2>1
  <2>2. CASE 0 <= x
    BY <2>2
  <2>3. QED
    BY <2>1, <2>2
<1>2. Max({0, x}) \in {0, x} /\ Max({0, x}) >= 0
  <2>1. /\ (CHOOSE z \in {0, x} : \A y \in {0, x} : z >= y) \in {0, x}
        /\ (CHOOSE z \in {0, x} : \A y \in {0, x} : z >= y) >= 0
    BY <1>1
  <2>2. QED
    BY <2>1 DEF Max
<1>3. QED
  BY <1>2

\* ... and of what is thrown away.
LEMMA DrainForm ==
  ASSUME TypeOK, NEW e \in End, Drain(e)
  PROVE  /\ TypeOK' /\ pc[e] = "drain"
         /\ \E c \in 0 .. Len(buf[e]) : buf'[e] = SubSeq(buf[e], c + 1, Len(buf[e]))
         /\ pc'[e] \in {"drain", "spin"} \/ (pc'[e] = "got" /\ text'[e] = <<>>)
         /\ pc'[Peer(e)] = pc[Peer(e)] /\ text'[Peer(e)] = text[Peer(e)]
         /\ buf'[Peer(e)] = buf[Peer(e)] /\ wire' = wire
         /\ UNCHANGED <<tasks, next, handled, results, cuts>>
<1>1. /\ pc[e] = "drain" /\ Read(e, msgSizeLimit)
      /\ left' = [left EXCEPT ![e] = Max({0, @ - Count(e, msgSizeLimit)})]
      /\ UNCHANGED <<tasks, wire, next, handled, results, cuts>>
  BY DEF Drain
<1>2. PICK p \in End : p = Peer(e) /\ p # e
  BY Ends
<1>3. /\ pc \in [End -> Place] /\ text \in [End -> Seq(Nat)] /\ left \in [End -> Nat]
      /\ <<>> \in Seq(Nat)
  BY EmptySeq DEF TypeOK, Place, Byte
<1>4. Count(e, msgSizeLimit) \in 0 .. Len(buf[e])
  BY CountFacts, Limits
<1>5. /\ buf'[e] = SubSeq(buf[e], Count(e, msgSizeLimit) + 1, Len(buf[e]))
      /\ buf' \in [End -> Seq(Nat)] /\ buf'[p] = buf[p]
  BY <1>1, <1>2, ReadForm, Limits
<1>6. left' \in [End -> Nat]
  <2>1. left[e] \in Nat /\ Count(e, msgSizeLimit) \in Int
    BY <1>3, <1>4
  <2>2. left[e] - Count(e, msgSizeLimit) \in Int
    BY <2>1
  <2>3. Max({0, left[e] - Count(e, msgSizeLimit)}) \in Nat
    BY <2>2, MaxOfTwo
  <2>4. left' = [left EXCEPT ![e] = Max({0, left[e] - Count(e, msgSizeLimit)})]
    BY <1>1
  <2>5. QED
    BY <1>3, <2>3, <2>4
<1>7. /\ pc' \in [End -> Place] /\ text' \in [End -> Seq(Nat)]
      /\ pc'[e] \in {"drain", "spin"} \/ (pc'[e] = "got" /\ text'[e] = <<>>)
      /\ pc'[p] = pc[p] /\ text'[p] = text[p]
  <2>1. CASE pc' = [pc EXCEPT ![e] = "spin"] /\ text' = text
    BY <1>2, <1>3, <2>1 DEF Place
  <2>2. CASE pc' = pc /\ text' = text
    BY <1>1, <1>2, <1>3, <2>2
  <2>3. CASE pc' = [pc EXCEPT ![e] = "got"] /\ text' = [text EXCEPT ![e] = <<>>]
    BY <1>2, <1>3, <2>3 DEF Place
  <2>4. QED
    BY <2>1, <2>2, <2>3 DEF Drain, Got
<1>8. TypeOK'
  BY <1>1, <1>5, <1>6, <1>7 DEF TypeOK, Place, Byte
<1>9. QED
  BY <1>1, <1>2, <1>4, <1>5, <1>7, <1>8

\* A delivery of n bytes.
LEMMA DeliverForm ==
  ASSUME TypeOK, NEW e \in End, Deliver(e)
  PROVE  /\ TypeOK' /\ wire[e] # <<>>
         /\ \E n \in 1 .. Len(wire[e][1]) :
              /\ wire'[e] = Remaining(wire[e], n) /\ buf'[e] = Arrived(wire[e], buf[e], n)
              /\ cuts' = 0 => cuts = 0 /\ n = Len(wire[e][1])
         /\ wire'[Peer(e)] = wire[Peer(e)] /\ buf'[Peer(e)] = buf[Peer(e)]
         /\ UNCHANGED <<tasks, pc, text, left, next, handled, results>>
<1>1. /\ wire[e] # <<>>
      /\ UNCHANGED <<tasks, pc, text, left, next, handled, results>>
  BY DEF Deliver
<1>2. PICK p \in End : p = Peer(e) /\ p # e
  BY Ends
<1> DEFINE S == Seq(Nat) \ {<<>>}
<1>3. /\ wire \in [End -> Seq(S)] /\ buf \in [End -> Seq(Nat)]
      /\ cuts \in 0 .. MaxCuts /\ MaxCuts \in Nat
  BY TypeFacts DEF TypeOK, Byte
<1>4. PICK w \in Seq(Seq(Nat)), u \in Seq(Nat) : w = wire[e] /\ u = buf[e] /\ w \in Seq(S)
  BY EndFacts
<1>5. /\ Head(w) = w[1] /\ w[1] \in S /\ Tail(w) \in Seq(S)
  <2> HIDE DEF S
  <2>1. QED
    BY <1>1, <1>4, TailFacts
<1>6. PICK x \in S, z \in Nat \ {0} : x = w[1] /\ z = Len(x)
  BY <1>5, EmptySeq
<1>7. PICK n \in IF cuts < MaxCuts THEN 1 .. z ELSE {z} :
        /\ buf' = [buf EXCEPT ![e] = u \o SubSeq(x, 1, n)]
        /\ wire' = [wire EXCEPT ![e] = IF n = z THEN Tail(w)
                                       ELSE <<SubSeq(x, n + 1, z)>> \o Tail(w)]
        /\ cuts' = IF n < z THEN cuts + 1 ELSE cuts
  BY <1>3, <1>4, <1>5, <1>6 DEF Deliver
<1>8. n \in 1 .. z /\ n \in 1 .. Len(w[1]) /\ (n < z => cuts < MaxCuts)
  BY <1>6, <1>7
<1>9. Arrived(w, u, n) = u \o SubSeq(x, 1, n) /\ Arrived(w, u, n) \in Seq(Nat)
  BY <1>1, <1>4, <1>6, <1>8, Delivery DEF Arrived
<1>10. /\ Remaining(w, n) = IF n = z THEN Tail(w) ELSE <<SubSeq(x, n + 1, z)>> \o Tail(w)
  BY <1>6 DEF Remaining
<1>11. Remaining(w, n) \in Seq(S)
  <2>1. CASE n = z
    BY <1>5, <1>10, <2>1
  <2>2. CASE n # z
    <3>1. PICK y : y = SubSeq(x, n + 1, z)
      OBVIOUS
    <3>2. y \in Seq(Nat) /\ Len(y) = z - n
      BY <1>6, <1>8, <3>1, Cut
    <3>3. y # <<>>
      <4>1. z - n # 0 /\ Len(<<>>) = 0
        BY <1>8, <2>2
      <4>2. QED
        BY <3>2, <4>1
    <3>4. y \in S
      BY <3>2, <3>3
    <3>5. <<y>> \o Tail(w) \in Seq(S)
      <4> HIDE DEF S
      <4>1. QED
        BY <1>5, <3>4, PutFirst
    <3>6. QED
      BY <1>10, <2>2, <3>1, <3>5
  <2>3. QED
    BY <2>1, <2>2
<1>12. /\ buf' = [buf EXCEPT ![e] = Arrived(w, u, n)]
       /\ wire' = [wire EXCEPT ![e] = Remaining(w, n)]
  BY <1>7, <1>9, <1>10
<1> HIDE DEF S
<1>13. /\ buf' \in [End -> Seq(Nat)] /\ buf'[e] = Arrived(w, u, n) /\ buf'[p] = buf[p]
       /\ wire' \in [End -> Seq(S)] /\ wire'[e] = Remaining(w, n) /\ wire'[p] = wire[p]
  BY <1>2, <1>3, <1>9, <1>11, <1>12
<1>14. cuts' \in 0 .. MaxCuts /\ (cuts' = 0 => cuts = 0 /\ n = z)
  BY <1>3, <1>6, <1>7, <1>8
<1>15. TypeOK'
  BY <1>1, <1>13, <1>14 DEF TypeOK, Byte, S
<1>16. QED
  BY <1>1, <1>2, <1>4, <1>6, <1>8, <1>13, <1>14, <1>15

-----------------------------------------------------------------------------
(* The socket: the steps of the two ends *)

\* A step that handles no task and reads no result leaves these parts as they
\* were.
LEMMA Frame ==
  ASSUME WInv, tasks' = tasks, next' = next, handled' = handled, results' = results,
         cuts' = 0 => cuts = 0
  PROVE  /\ InOrder' /\ HandlerExact' /\ next' - 1 = next - 1
         /\ Message(next - 1)' = Message(next - 1) /\ Reply(next - 1)' = Reply(next - 1)
BY Records, Renewed DEF WInv

\* What the steps below have in common.
LEMMA Values ==
  ASSUME WInv
  PROVE  /\ next - 1 \in Nat /\ Len(tasks) \in Nat /\ (cuts = 0) \in BOOLEAN
         /\ Message(next - 1) \in Seq(Nat) \/ next - 1 = 0
         /\ next - 1 > 0 => TextBytes(Message(next - 1))
         /\ Len(handled) = next - 1 /\ next - 1 > 0 => Answer(Reply(next - 1))
         /\ \A e \in End : /\ text[e] \in Seq(Nat) /\ wire[e] \in Seq(Seq(Nat))
                           /\ buf[e] \in Seq(Nat)
<1>1. /\ next - 1 \in 0 .. Len(tasks) + 1 /\ Len(tasks) \in 0 .. 9 /\ tasks \in Workloads
  BY TypeFacts DEF WInv
<1>2. next - 1 \in Nat /\ Len(tasks) \in Nat
  BY <1>1
<1>3. ASSUME next - 1 # 0
      PROVE  Message(next - 1) \in Seq(Nat) /\ TextBytes(Message(next - 1))
  <2>1. PICK x \in Nat, y \in Nat : x = next - 1 /\ y = Len(tasks)
    BY <1>2
  <2>2. x \in 0 .. y + 1 /\ x # 0
    BY <1>1, <1>3, <2>1
  <2>3. x \in 1 .. y + 1
    BY ONLY <2>2, x \in Nat, y \in Nat
  <2>4. QED
    BY <1>1, <2>1, <2>3, MessageFacts
<1>4. Len(handled) = next - 1 /\ next - 1 > 0 => Answer(Reply(next - 1))
  BY ReplyFacts
<1>5. QED
  BY <1>2, <1>3, <1>4, EndFacts DEF WInv

\* The dispatcher writes the size of a message ...
LEMMA DispatcherWritesSize ==
  ASSUME WInv, WriteSize("dispatcher")
  PROVE  WInv'
<1>1. /\ TypeOK' /\ pc["dispatcher"] = "writeSize" /\ pc'["dispatcher"] = "writeBody"
      /\ pc'["agent"] = pc["agent"] /\ wire'["dispatcher"] = wire["dispatcher"]
      /\ wire'["agent"] = Append(wire["agent"], Size(text["dispatcher"]))
      /\ UNCHANGED <<tasks, text, left, buf, next, handled, results, cuts>>
  BY WriteSizeForm, Ends DEF WInv
<1>2. PICK k \in Nat, whole \in BOOLEAN : k = next - 1 /\ whole = (cuts = 0)
  BY Values
<1>3. /\ InOrder' /\ HandlerExact' /\ next' - 1 = k
      /\ Message(next - 1)' = Message(k) /\ Reply(next - 1)' = Reply(k)
  BY <1>1, <1>2, Frame
<1>4. DispatcherAt(k, "writeSize", pc["agent"], Len(handled), Len(results), Len(tasks),
                   Message(k), Reply(k), wire["dispatcher"], buf["dispatcher"],
                   text["dispatcher"], whole)
  BY <1>1, <1>2 DEF WInv, DispatcherState
<1>5. /\ k > 0 /\ Len(handled) = k - 1 /\ text["dispatcher"] = Message(k)
      /\ DispatcherAt(k, "writeBody", pc["agent"], Len(handled), Len(results), Len(tasks),
                   Message(k), Reply(k), wire["dispatcher"], buf["dispatcher"],
                   text["dispatcher"], whole)
  <2>1. Len(tasks) \in Nat
    BY Values
  <2>2. QED
    BY <1>4, <2>1, DispatcherWrites
<1>6. AgentAt(k, "writeSize", pc["agent"], Len(handled), Message(k), Reply(k),
              wire["agent"], buf["agent"], text["agent"], whole)
  BY <1>1, <1>2 DEF WInv, AgentState
<1>7. AgentAt(k, "writeBody", pc["agent"], Len(handled), Message(k), Reply(k),
              wire'["agent"], buf["agent"], text["agent"], whole)
  <2>1. /\ k \in Nat \ {0} /\ Message(k) \in Seq(Nat)
        /\ wire["agent"] \in Seq(Seq(Nat)) /\ buf["agent"] \in Seq(Nat)
    BY <1>2, <1>5, Values, Ends
  <2>2. AgentAt(k, "writeBody", pc["agent"], Len(handled), Message(k), Reply(k),
                Append(wire["agent"], Size(Message(k))), buf["agent"], text["agent"], whole)
    BY <1>5, <1>6, <2>1, AgentTold
  <2>3. QED
    BY <1>1, <1>5, <2>2
<1>8. AgentState'
  BY <1>1, <1>2, <1>3, <1>7 DEF AgentState
<1>9. DispatcherState'
  BY <1>1, <1>2, <1>3, <1>5 DEF DispatcherState
<1>10. QED
  BY <1>1, <1>3, <1>8, <1>9 DEF WInv

\* ... and the message, after which it waits or is done.
LEMMA DispatcherWritesBody ==
  ASSUME WInv, WriteBody("dispatcher")
  PROVE  WInv'
<1> DEFINE m == text["dispatcher"]
<1>1. /\ TypeOK' /\ pc["dispatcher"] = "writeBody"
      /\ pc'["dispatcher"] = IF m = <<F>> THEN "closed" ELSE "size"
      /\ pc'["agent"] = pc["agent"] /\ wire'["dispatcher"] = wire["dispatcher"]
      /\ wire'["agent"] = IF Body(m) = <<>> THEN wire["agent"]
                          ELSE Append(wire["agent"], Body(m))
      /\ UNCHANGED <<tasks, text, left, buf, next, handled, results, cuts>>
  BY WriteBodyForm, Ends DEF WInv
<1>2. PICK k \in Nat, whole \in BOOLEAN : k = next - 1 /\ whole = (cuts = 0)
  BY Values
<1>3. /\ InOrder' /\ HandlerExact' /\ next' - 1 = k
      /\ Message(next - 1)' = Message(k) /\ Reply(next - 1)' = Reply(k)
  BY <1>1, <1>2, Frame
<1>4. DispatcherAt(k, "writeBody", pc["agent"], Len(handled), Len(results), Len(tasks),
                   Message(k), Reply(k), wire["dispatcher"], buf["dispatcher"],
                   m, whole)
  BY <1>1, <1>2 DEF WInv, DispatcherState
<1>5. /\ k > 0 /\ Len(handled) = k - 1 /\ m = Message(k)
      /\ k = Len(tasks) + 1 =>
           DispatcherAt(k, "closed", pc["agent"], Len(handled), Len(results), Len(tasks),
                   Message(k), Reply(k), wire["dispatcher"], buf["dispatcher"], m, whole)
      /\ k <= Len(tasks) =>
           DispatcherAt(k, "size", pc["agent"], Len(handled), Len(results), Len(tasks),
                   Message(k), Reply(k), wire["dispatcher"], buf["dispatcher"], m, whole)
  <2>1. Len(tasks) \in Nat
    BY Values
  <2> HIDE DEF m
  <2>2. QED
    BY <1>4, <2>1, DispatcherWrites
<1>6. AgentAt(k, "writeBody", pc["agent"], Len(handled), Message(k), Reply(k),
              wire["agent"], buf["agent"], text["agent"], whole)
  BY <1>1, <1>2 DEF WInv, AgentState
<1>7. DispatcherAt(k, pc'["dispatcher"], pc["agent"], Len(handled), Len(results), Len(tasks),
                   Message(k), Reply(k), wire["dispatcher"], buf["dispatcher"], m, whole)
  <2>1. k \in 1 .. Len(tasks) + 1 /\ tasks \in Workloads
    BY <1>2, <1>5, TypeFacts DEF WInv
  <2>2. k <= Len(tasks) => m # <<F>>
    BY <1>5, <2>1, MessageFacts
  <2>3. ~ (k <= Len(tasks)) => k = Len(tasks) + 1 /\ m = <<F>>
    BY <1>5, <2>1, MessageFacts
  <2>4. QED
    BY <1>1, <1>5, <2>2, <2>3
<1>8. pc'["dispatcher"] \in {"size", "closed"}
  BY <1>1
<1>9. AgentAt(k, pc'["dispatcher"], pc["agent"], Len(handled), Message(k), Reply(k),
              wire'["agent"], buf["agent"], text["agent"], whole)
  <2>1. PICK d \in {"size", "closed"} : d = pc'["dispatcher"]
    BY <1>8
  <2>2. PICK m2 \in Seq(Nat), w \in Seq(Seq(Nat)), u \in Seq(Nat) :
          m2 = Message(k) /\ w = wire["agent"] /\ u = buf["agent"] /\ k \in Nat \ {0}
    BY <1>2, <1>5, Values, Ends
  <2>3. PICK w2 : w2 = wire'["agent"]
    OBVIOUS
  <2>4. w2 = IF Body(m2) = <<>> THEN w ELSE Append(w, Body(m2))
    BY <1>1, <1>5, <2>2, <2>3
  <2>5. AgentAt(k, "writeBody", pc["agent"], Len(handled), m2, Reply(k), w, u,
                text["agent"], whole)
    BY <1>6, <2>2
  <2>6. /\ Body(m2) = <<>> =>
             AgentAt(k, d, pc["agent"], Len(handled), m2, Reply(k), w, u, text["agent"], whole)
        /\ Body(m2) # <<>> =>
             AgentAt(k, d, pc["agent"], Len(handled), m2, Reply(k), Append(w, Body(m2)), u,
                     text["agent"], whole)
    <3>1. Len(handled) = k - 1
      BY <1>5
    <3>2. QED
      BY <2>2, <2>5, <3>1, AgentSent
  <2>7. AgentAt(k, d, pc["agent"], Len(handled), m2, Reply(k), w2, u, text["agent"], whole)
    BY <2>4, <2>6
  <2>8. QED
    BY <2>1, <2>2, <2>3, <2>7
<1>10. AgentState'
  BY <1>1, <1>2, <1>3, <1>9 DEF AgentState
<1>11. DispatcherState'
  BY <1>1, <1>2, <1>3, <1>7 DEF DispatcherState
<1>12. QED
  BY <1>1, <1>3, <1>10, <1>11 DEF WInv

\* The agent writes its answer, and so has handled the last task.
LEMMA AgentWrites ==
  ASSUME WInv, pc["agent"] \in {"writeSize", "writeBody"}
  PROVE  /\ Len(handled) = next - 1 /\ next - 1 > 0 /\ next - 1 \in Nat
         /\ text["agent"] = Reply(next - 1) /\ Answer(Reply(next - 1))
         /\ \/ Still(wire["agent"], buf["agent"])
            \/ cuts # 0 /\ Adrift(wire["agent"], buf["agent"])
<1>1. /\ Len(handled) = next - 1 /\ next - 1 > 0 /\ text["agent"] = Reply(next - 1)
      /\ \/ Still(wire["agent"], buf["agent"])
         \/ cuts # 0 /\ Adrift(wire["agent"], buf["agent"])
  BY DEF WInv, AgentState, AgentAt, Losing, TakesTask
<1>2. QED
  BY <1>1, Values

\* The agent writes the size of an answer ...
LEMMA AgentWritesSize ==
  ASSUME WInv, WriteSize("agent")
  PROVE  WInv'
<1>1. /\ TypeOK' /\ pc["agent"] = "writeSize" /\ pc'["agent"] = "writeBody"
      /\ pc'["dispatcher"] = pc["dispatcher"] /\ wire'["agent"] = wire["agent"]
      /\ wire'["dispatcher"] = Append(wire["dispatcher"], Size(text["agent"]))
      /\ UNCHANGED <<tasks, text, left, buf, next, handled, results, cuts>>
  BY WriteSizeForm, Ends DEF WInv
<1>2. PICK k \in Nat, whole \in BOOLEAN : k = next - 1 /\ whole = (cuts = 0)
  BY Values
<1>3. /\ InOrder' /\ HandlerExact' /\ next' - 1 = k
      /\ Message(next - 1)' = Message(k) /\ Reply(next - 1)' = Reply(k)
  BY <1>1, <1>2, Frame
<1>4. /\ Len(handled) = k /\ k > 0 /\ text["agent"] = Reply(k) /\ Answer(Reply(k))
      /\ \/ Still(wire["agent"], buf["agent"])
         \/ ~ whole /\ Adrift(wire["agent"], buf["agent"])
  BY <1>1, <1>2, AgentWrites
<1>5. AgentState'
  BY <1>1, <1>2, <1>3, <1>4 DEF AgentState, AgentAt
<1>6. DispatcherAt(k, pc["dispatcher"], "writeBody", k, Len(results), Len(tasks),
                   Message(k), Reply(k), Append(wire["dispatcher"], Size(Reply(k))),
                   buf["dispatcher"], text["dispatcher"], whole)
  <2>1. DispatcherAt(k, pc["dispatcher"], "writeSize", k, Len(results), Len(tasks),
                     Message(k), Reply(k), wire["dispatcher"],
                     buf["dispatcher"], text["dispatcher"], whole)
    BY <1>1, <1>2, <1>4 DEF WInv, DispatcherState
  <2>2. /\ k \in Nat \ {0} /\ wire["dispatcher"] \in Seq(Seq(Nat))
        /\ buf["dispatcher"] \in Seq(Nat)
    BY <1>4, Values, Ends
  <2>3. QED
    BY <1>4, <2>1, <2>2, DispatcherTold
<1>7. DispatcherState'
  BY <1>1, <1>2, <1>3, <1>4, <1>6 DEF DispatcherState
<1>8. QED
  BY <1>1, <1>3, <1>5, <1>7 DEF WInv

\* ... and the answer, after which it waits for the next task.
LEMMA AgentWritesBody ==
  ASSUME WInv, WriteBody("agent")
  PROVE  WInv'
<1>1. /\ TypeOK' /\ pc["agent"] = "writeBody"
      /\ pc'["agent"] = IF text["agent"] = <<F>> THEN "closed" ELSE "size"
      /\ pc'["dispatcher"] = pc["dispatcher"] /\ wire'["agent"] = wire["agent"]
      /\ wire'["dispatcher"] = IF Body(text["agent"]) = <<>> THEN wire["dispatcher"]
                               ELSE Append(wire["dispatcher"], Body(text["agent"]))
      /\ UNCHANGED <<tasks, text, left, buf, next, handled, results, cuts>>
  BY WriteBodyForm, Ends DEF WInv
<1>2. PICK k \in Nat, whole \in BOOLEAN : k = next - 1 /\ whole = (cuts = 0)
  BY Values
<1>3. /\ InOrder' /\ HandlerExact' /\ next' - 1 = k
      /\ Message(next - 1)' = Message(k) /\ Reply(next - 1)' = Reply(k)
  BY <1>1, <1>2, Frame
<1>4. /\ Len(handled) = k /\ k > 0 /\ text["agent"] = Reply(k) /\ Answer(Reply(k))
      /\ \/ Still(wire["agent"], buf["agent"])
         \/ ~ whole /\ Adrift(wire["agent"], buf["agent"])
  BY <1>1, <1>2, AgentWrites
<1>5. pc'["agent"] = "size" /\ wire'["dispatcher"] = Append(wire["dispatcher"], Reply(k))
  BY <1>1, <1>4 DEF Answer
<1>6. AgentState'
  BY <1>1, <1>2, <1>3, <1>4, <1>5 DEF AgentState, AgentAt
<1>7. DispatcherAt(k, pc["dispatcher"], "size", k, Len(results), Len(tasks),
                   Message(k), Reply(k), Append(wire["dispatcher"], Reply(k)),
                   buf["dispatcher"], text["dispatcher"], whole)
  <2>1. DispatcherAt(k, pc["dispatcher"], "writeBody", k, Len(results), Len(tasks),
                     Message(k), Reply(k), wire["dispatcher"],
                     buf["dispatcher"], text["dispatcher"], whole)
    BY <1>1, <1>2, <1>4 DEF WInv, DispatcherState
  <2>2. /\ k \in Nat \ {0} /\ wire["dispatcher"] \in Seq(Seq(Nat))
        /\ buf["dispatcher"] \in Seq(Nat)
    BY <1>4, Values, Ends
  <2>3. QED
    BY <1>4, <2>1, <2>2, DispatcherAnswered
<1>8. DispatcherState'
  BY <1>1, <1>2, <1>3, <1>4, <1>5, <1>7 DEF DispatcherState
<1>9. QED
  BY <1>1, <1>3, <1>6, <1>8 DEF WInv

\* The dispatcher reads: nothing else moves.
LEMMA DispatcherMoved ==
  ASSUME WInv, TypeOK', wire' = wire,
         UNCHANGED <<tasks, next, handled, results, cuts>>,
         pc'["agent"] = pc["agent"], text'["agent"] = text["agent"],
         buf'["agent"] = buf["agent"],
         pc["dispatcher"] \in {"size", "body", "drain"},
         pc'["dispatcher"] \in {"got", "body", "drain", "spin"},
         DispatcherAt(next - 1, pc'["dispatcher"], pc["agent"], Len(handled), Len(results),
                      Len(tasks), Message(next - 1), Reply(next - 1), wire["dispatcher"],
                      buf'["dispatcher"], text'["dispatcher"], cuts = 0)
  PROVE  WInv'
<1>1. PICK k \in Nat, whole \in BOOLEAN : k = next - 1 /\ whole = (cuts = 0)
  BY Values
<1>2. /\ InOrder' /\ HandlerExact' /\ next' - 1 = k
      /\ Message(next - 1)' = Message(k) /\ Reply(next - 1)' = Reply(k)
  BY <1>1, Frame
<1>3. AgentAt(k, pc["dispatcher"], pc["agent"], Len(handled), Message(k), Reply(k),
              wire["agent"], buf["agent"], text["agent"], whole)
  BY <1>1 DEF WInv, AgentState
<1>4. AgentAt(k, pc'["dispatcher"], pc["agent"], Len(handled), Message(k), Reply(k),
              wire["agent"], buf["agent"], text["agent"], whole)
  BY <1>3, AgentKeeps
<1>5. AgentState'
  BY <1>1, <1>2, <1>4 DEF AgentState
<1>6. DispatcherState'
  BY <1>1, <1>2 DEF DispatcherState
<1>7. QED
  BY <1>2, <1>5, <1>6 DEF WInv

\* Whatever the dispatcher reads of it, the invariant holds.
LEMMA DispatcherReads ==
  ASSUME WInv, ReadSize("dispatcher") \/ ReadBody("dispatcher") \/ Drain("dispatcher")
  PROVE  WInv'
<1>1. PICK k \in Nat, whole \in BOOLEAN : k = next - 1 /\ whole = (cuts = 0)
  BY Values
<1>2. PICK n \in Nat, w \in Seq(Seq(Nat)), u \in Seq(Nat) :
        n = Len(tasks) /\ w = wire["dispatcher"] /\ u = buf["dispatcher"]
  BY Values, Ends
<1>3. DispatcherAt(k, pc["dispatcher"], pc["agent"], Len(handled), Len(results), n,
                   Message(k), Reply(k), w, u, text["dispatcher"], whole)
  BY <1>1, <1>2 DEF WInv, DispatcherState
<1>4. AtEnd("dispatcher") => w = <<>> /\ pc["agent"] \in {"closed", "dead"}
  BY <1>2, Ends DEF AtEnd
<1>5. CASE ReadSize("dispatcher")
  <2>1. /\ TypeOK' /\ pc["dispatcher"] = "size"
        /\ SizeRead(u, text["dispatcher"], pc'["dispatcher"], text'["dispatcher"],
                    buf'["dispatcher"])
        /\ u # <<>> \/ AtEnd("dispatcher")
        /\ pc'["agent"] = pc["agent"] /\ text'["agent"] = text["agent"]
        /\ buf'["agent"] = buf["agent"] /\ wire' = wire
        /\ UNCHANGED <<tasks, next, handled, results, cuts>>
    BY <1>2, <1>5, ReadSizeForm, Ends DEF WInv
  <2>2. DispatcherAt(k, "size", pc["agent"], Len(handled), Len(results), n,
                     Message(k), Reply(k), w, u, text["dispatcher"], whole)
    BY <1>3, <2>1
  <2>3. Len(handled) = k => Answer(Reply(k))
    <3>1. k > 0
      BY <2>2 DEF DispatcherAt
    <3>2. QED
      BY <1>1, <3>1, Values
  <2>4. DispatcherAt(k, pc'["dispatcher"], pc["agent"], Len(handled), Len(results), n,
                     Message(k), Reply(k), w, buf'["dispatcher"], text'["dispatcher"], whole)
    BY <1>4, <2>1, <2>2, <2>3, DispatcherReadsSize
  <2>5. pc'["dispatcher"] \in {"got", "body", "drain"}
    BY <2>1 DEF SizeRead
  <2>6. QED
    BY <1>1, <1>2, <2>1, <2>4, <2>5, DispatcherMoved
<1>6. CASE ReadBody("dispatcher")
  <2>1. /\ TypeOK' /\ pc["dispatcher"] = "body" /\ pc'["dispatcher"] = "got"
        /\ BodyRead(u, text'["dispatcher"], buf'["dispatcher"])
        /\ u # <<>> \/ AtEnd("dispatcher")
        /\ pc'["agent"] = pc["agent"] /\ text'["agent"] = text["agent"]
        /\ buf'["agent"] = buf["agent"] /\ wire' = wire
        /\ UNCHANGED <<tasks, next, handled, results, cuts>>
    BY <1>2, <1>6, ReadBodyForm, Ends DEF WInv
  <2>2. DispatcherAt(k, "body", pc["agent"], Len(handled), Len(results), n,
                     Message(k), Reply(k), w, u, text["dispatcher"], whole)
    BY <1>3, <2>1
  <2>3. Len(handled) = k => Answer(Reply(k))
    <3>1. k > 0
      BY <2>2 DEF DispatcherAt
    <3>2. QED
      BY <1>1, <3>1, Values
  <2>4. DispatcherAt(k, "got", pc["agent"], Len(handled), Len(results), n,
                     Message(k), Reply(k), w, buf'["dispatcher"], text'["dispatcher"], whole)
    BY <1>4, <2>1, <2>2, <2>3, DispatcherReadsBody
  <2>5. QED
    BY <1>1, <1>2, <2>1, <2>4, DispatcherMoved
<1>7. CASE Drain("dispatcher")
  <2>1. /\ TypeOK' /\ pc["dispatcher"] = "drain"
        /\ \E c \in 0 .. Len(u) : buf'["dispatcher"] = SubSeq(u, c + 1, Len(u))
        /\ \/ pc'["dispatcher"] \in {"drain", "spin"}
           \/ pc'["dispatcher"] = "got" /\ text'["dispatcher"] = <<>>
        /\ pc'["agent"] = pc["agent"] /\ text'["agent"] = text["agent"]
        /\ buf'["agent"] = buf["agent"] /\ wire' = wire
        /\ UNCHANGED <<tasks, next, handled, results, cuts>>
    BY <1>2, <1>7, DrainForm, Ends DEF WInv
  <2>2. PICK c \in 0 .. Len(u) : buf'["dispatcher"] = SubSeq(u, c + 1, Len(u))
    BY <2>1
  <2>3. DispatcherAt(k, "drain", pc["agent"], Len(handled), Len(results), n,
                     Message(k), Reply(k), w, u, text["dispatcher"], whole)
    BY <1>3, <2>1
  <2>4. DispatcherAt(k, pc'["dispatcher"], pc["agent"], Len(handled), Len(results), n,
                     Message(k), Reply(k), w, SubSeq(u, c + 1, Len(u)),
                     text'["dispatcher"], whole)
    BY <2>1, <2>3, DispatcherDrains
  <2>5. pc'["dispatcher"] \in {"got", "drain", "spin"}
    BY <2>1
  <2>6. QED
    BY <1>1, <1>2, <2>1, <2>2, <2>4, <2>5, DispatcherMoved
<1>8. QED
  BY <1>5, <1>6, <1>7

\* Before the first task there is no message; it could be any.
LEMMA AgentUntold ==
  ASSUME NEW k \in Nat, NEW d, NEW a, NEW h \in 0 .. k, NEW m, NEW r, NEW w, NEW u,
         NEW t, NEW whole \in BOOLEAN, NEW m2, k = 0 \/ m = m2,
         AgentAt(k, d, a, h, m, r, w, u, t, whole)
  PROVE  AgentAt(k, d, a, h, m2, r, w, u, t, whole)
<1>1. CASE k = 0
  <2>1. h # k - 1 /\ ~ (k > 0)
    BY <1>1
  <2>2. QED
    BY <2>1 DEF AgentAt
<1>2. QED
  BY <1>1

\* A text that stands for the message, there being one or not.
LEMMA SomeMessage ==
  ASSUME WInv, NEW k \in Nat, k = next - 1
  PROVE  \E m \in Seq(Nat) : TextBytes(m) /\ (k = 0 \/ m = Message(k))
<1>1. CASE k = 0
  <2>1. <<>> \in Seq(Nat) /\ TextBytes(<<>>)
    BY EmptySeq DEF TextBytes
  <2>2. QED
    BY <1>1, <2>1
<1>2. CASE k # 0
  <2>1. k > 0
    BY ONLY <1>2, k \in Nat
  <2>2. Message(k) \in Seq(Nat) /\ TextBytes(Message(k))
    BY <2>1, <1>2, Values
  <2>3. QED
    BY <2>2
<1>3. QED
  BY <1>1, <1>2

\* The agent reads: nothing else moves.
LEMMA AgentMoved ==
  ASSUME WInv, TypeOK', wire' = wire,
         UNCHANGED <<tasks, next, handled, results, cuts>>,
         pc'["dispatcher"] = pc["dispatcher"], text'["dispatcher"] = text["dispatcher"],
         buf'["dispatcher"] = buf["dispatcher"],
         pc["agent"] \in {"size", "body", "drain"},
         pc'["agent"] \in {"got", "body", "drain", "spin"},
         AgentAt(next - 1, pc["dispatcher"], pc'["agent"], Len(handled), Message(next - 1),
                 Reply(next - 1), wire["agent"], buf'["agent"], text'["agent"], cuts = 0)
  PROVE  WInv'
<1>1. PICK k \in Nat, whole \in BOOLEAN : k = next - 1 /\ whole = (cuts = 0)
  BY Values
<1>2. /\ InOrder' /\ HandlerExact' /\ next' - 1 = k
      /\ Message(next - 1)' = Message(k) /\ Reply(next - 1)' = Reply(k)
  BY <1>1, Frame
<1>3. DispatcherAt(k, pc["dispatcher"], pc["agent"], Len(handled), Len(results), Len(tasks),
                   Message(k), Reply(k), wire["dispatcher"], buf["dispatcher"],
                   text["dispatcher"], whole)
  BY <1>1 DEF WInv, DispatcherState
<1>4. DispatcherAt(k, pc["dispatcher"], pc'["agent"], Len(handled), Len(results), Len(tasks),
                   Message(k), Reply(k), wire["dispatcher"], buf["dispatcher"],
                   text["dispatcher"], whole)
  BY <1>3, DispatcherKeeps
<1>5. AgentState'
  BY <1>1, <1>2 DEF AgentState
<1>6. DispatcherState'
  BY <1>1, <1>2, <1>4 DEF DispatcherState
<1>7. QED
  BY <1>2, <1>5, <1>6 DEF WInv

\* Whatever the agent reads of it, the invariant holds.
LEMMA AgentReads ==
  ASSUME WInv, ReadSize("agent") \/ ReadBody("agent") \/ Drain("agent")
  PROVE  WInv'
<1>1. PICK k \in Nat, whole \in BOOLEAN : k = next - 1 /\ whole = (cuts = 0)
  BY Values
<1>2. PICK w \in Seq(Seq(Nat)), u \in Seq(Nat) : w = wire["agent"] /\ u = buf["agent"]
  BY Values, Ends
<1>3. PICK m \in Seq(Nat) : TextBytes(m) /\ (k = 0 \/ m = Message(k))
  BY <1>1, SomeMessage
<1>4. PICK h \in 0 .. k : h = Len(handled)
  BY <1>1, TypeFacts DEF WInv
<1>5. AgentAt(k, pc["dispatcher"], pc["agent"], h, m, Reply(k), w, u, text["agent"], whole)
  <2>1. AgentAt(k, pc["dispatcher"], pc["agent"], h, Message(k), Reply(k), w, u,
                text["agent"], whole)
    BY <1>1, <1>2, <1>4 DEF WInv, AgentState
  <2>2. QED
    BY <1>3, <2>1, AgentUntold
<1>6. SUFFICES
        /\ TypeOK' /\ wire' = wire
        /\ UNCHANGED <<tasks, next, handled, results, cuts>>
        /\ pc'["dispatcher"] = pc["dispatcher"] /\ text'["dispatcher"] = text["dispatcher"]
        /\ buf'["dispatcher"] = buf["dispatcher"]
        /\ pc["agent"] \in {"size", "body", "drain"}
        /\ pc'["agent"] \in {"got", "body", "drain", "spin"}
        /\ AgentAt(k, pc["dispatcher"], pc'["agent"], h, m, Reply(k), w, buf'["agent"],
                   text'["agent"], whole)
  <2>1. ASSUME AgentAt(k, pc["dispatcher"], pc'["agent"], h, m, Reply(k), w, buf'["agent"],
                   text'["agent"], whole)
        PROVE  AgentAt(k, pc["dispatcher"], pc'["agent"], h, Message(k), Reply(k), w,
                   buf'["agent"], text'["agent"], whole)
    BY <1>3, <2>1, AgentUntold
  <2>2. QED
    BY <1>1, <1>2, <1>4, <2>1, AgentMoved
<1>7. CASE ReadSize("agent")
  <2>1. /\ TypeOK' /\ pc["agent"] = "size"
        /\ SizeRead(u, text["agent"], pc'["agent"], text'["agent"], buf'["agent"])
        /\ pc'["dispatcher"] = pc["dispatcher"] /\ text'["dispatcher"] = text["dispatcher"]
        /\ buf'["dispatcher"] = buf["dispatcher"] /\ wire' = wire
        /\ UNCHANGED <<tasks, next, handled, results, cuts>>
    BY <1>2, <1>7, ReadSizeForm, Ends DEF WInv
  <2>2. AgentAt(k, pc["dispatcher"], "size", h, m, Reply(k), w, u, text["agent"], whole)
    BY <1>5, <2>1
  <2>3. AgentAt(k, pc["dispatcher"], pc'["agent"], h, m, Reply(k), w, buf'["agent"],
                text'["agent"], whole)
    BY <2>1, <2>2, AgentReadsSize
  <2>4. pc'["agent"] \in {"got", "body", "drain"}
    BY <2>1 DEF SizeRead
  <2>5. QED
    BY <2>1, <2>3, <2>4
<1>8. CASE ReadBody("agent")
  <2>1. /\ TypeOK' /\ pc["agent"] = "body" /\ pc'["agent"] = "got"
        /\ BodyRead(u, text'["agent"], buf'["agent"])
        /\ pc'["dispatcher"] = pc["dispatcher"] /\ text'["dispatcher"] = text["dispatcher"]
        /\ buf'["dispatcher"] = buf["dispatcher"] /\ wire' = wire
        /\ UNCHANGED <<tasks, next, handled, results, cuts>>
    BY <1>2, <1>8, ReadBodyForm, Ends DEF WInv
  <2>2. AgentAt(k, pc["dispatcher"], "body", h, m, Reply(k), w, u, text["agent"], whole)
    BY <1>5, <2>1
  <2>3. AgentAt(k, pc["dispatcher"], "got", h, m, Reply(k), w, buf'["agent"],
                text'["agent"], whole)
    BY <1>3, <2>1, <2>2, AgentReadsBody
  <2>4. QED
    BY <2>1, <2>3
<1>9. CASE Drain("agent")
  <2>1. /\ TypeOK' /\ pc["agent"] = "drain"
        /\ \/ pc'["agent"] \in {"drain", "spin"}
           \/ pc'["agent"] = "got" /\ text'["agent"] = <<>>
        /\ pc'["dispatcher"] = pc["dispatcher"] /\ text'["dispatcher"] = text["dispatcher"]
        /\ buf'["dispatcher"] = buf["dispatcher"] /\ wire' = wire
        /\ UNCHANGED <<tasks, next, handled, results, cuts>>
    BY <1>9, DrainForm, Ends DEF WInv
  <2>2. Losing(pc'["agent"], text'["agent"])
    BY <2>1 DEF Losing
  <2>3. QED
    BY <2>1, <2>2 DEF AgentAt
<1>10. QED
  BY <1>7, <1>8, <1>9

(* TCP *)

\* The bytes of a write to the agent arrive ...
LEMMA AgentDelivery ==
  ASSUME WInv, Deliver("agent")
  PROVE  WInv'
<1>1. PICK k \in Nat, whole \in BOOLEAN : k = next - 1 /\ whole = (cuts = 0)
  BY Values
<1>2. PICK w \in Seq(Seq(Nat)), u \in Seq(Nat) : w = wire["agent"] /\ u = buf["agent"]
  BY Values, Ends
<1>3. PICK m \in Seq(Nat) : TextBytes(m) /\ (k = 0 \/ m = Message(k))
  BY <1>1, SomeMessage
<1>4. PICK h \in 0 .. k : h = Len(handled)
  BY <1>1, TypeFacts DEF WInv
<1>5. /\ TypeOK' /\ w # <<>>
      /\ \E n \in 1 .. Len(w[1]) :
           /\ wire'["agent"] = Remaining(w, n) /\ buf'["agent"] = Arrived(w, u, n)
           /\ cuts' = 0 => cuts = 0 /\ n = Len(w[1])
      /\ wire'["dispatcher"] = wire["dispatcher"] /\ buf'["dispatcher"] = buf["dispatcher"]
      /\ UNCHANGED <<tasks, pc, text, left, next, handled, results>>
  BY <1>2, DeliverForm, Ends DEF WInv
<1>6. PICK n \in 1 .. Len(w[1]) :
        /\ wire'["agent"] = Remaining(w, n) /\ buf'["agent"] = Arrived(w, u, n)
        /\ cuts' = 0 => cuts = 0 /\ n = Len(w[1])
  BY <1>5
<1>7. PICK still \in BOOLEAN : still = (cuts' = 0)
  OBVIOUS
<1>8. still => whole /\ n = Len(w[1])
  BY <1>1, <1>6, <1>7
<1>9. /\ InOrder' /\ HandlerExact' /\ next' - 1 = k
      /\ Message(next - 1)' = Message(k) /\ Reply(next - 1)' = Reply(k)
  BY <1>1, <1>5, <1>6, Frame
<1>10. AgentAt(k, pc["dispatcher"], pc["agent"], h, Message(k), Reply(k),
               wire'["agent"], buf'["agent"], text["agent"], still)
  <2>1. AgentAt(k, pc["dispatcher"], pc["agent"], h, Message(k), Reply(k), w, u,
                text["agent"], whole)
    BY <1>1, <1>2, <1>4 DEF WInv, AgentState
  <2>2. AgentAt(k, pc["dispatcher"], pc["agent"], h, m, Reply(k), w, u,
                text["agent"], whole)
    BY <1>3, <2>1, AgentUntold
  <2>3. AgentAt(k, pc["dispatcher"], pc["agent"], h, m, Reply(k),
                Remaining(w, n), Arrived(w, u, n), text["agent"], still)
    BY <1>5, <1>8, <2>2, AgentReceives
  <2>4. AgentAt(k, pc["dispatcher"], pc["agent"], h, m, Reply(k),
               wire'["agent"], buf'["agent"], text["agent"], still)
    BY <1>6, <2>3
  <2>5. QED
    BY <1>3, <2>4, AgentUntold
<1>11. DispatcherAt(k, pc["dispatcher"], pc["agent"], Len(handled), Len(results), Len(tasks),
                    Message(k), Reply(k), wire["dispatcher"], buf["dispatcher"],
                    text["dispatcher"], still)
  <2>1. DispatcherAt(k, pc["dispatcher"], pc["agent"], Len(handled), Len(results), Len(tasks),
                     Message(k), Reply(k), wire["dispatcher"], buf["dispatcher"],
                     text["dispatcher"], whole)
    BY <1>1 DEF WInv, DispatcherState
  <2>2. QED
    BY <1>8, <2>1, DispatcherKeeps
<1>12. AgentState'
  BY <1>4, <1>5, <1>7, <1>9, <1>10 DEF AgentState
<1>13. DispatcherState'
  BY <1>5, <1>7, <1>9, <1>11 DEF DispatcherState
<1>14. QED
  BY <1>5, <1>9, <1>12, <1>13 DEF WInv

\* ... and those of a write to the dispatcher.
LEMMA DispatcherDelivery ==
  ASSUME WInv, Deliver("dispatcher")
  PROVE  WInv'
<1>1. PICK k \in Nat, whole \in BOOLEAN : k = next - 1 /\ whole = (cuts = 0)
  BY Values
<1>2. PICK w \in Seq(Seq(Nat)), u \in Seq(Nat) :
        w = wire["dispatcher"] /\ u = buf["dispatcher"]
  BY Values, Ends
<1>3. /\ TypeOK' /\ w # <<>>
      /\ \E n \in 1 .. Len(w[1]) :
           /\ wire'["dispatcher"] = Remaining(w, n) /\ buf'["dispatcher"] = Arrived(w, u, n)
           /\ cuts' = 0 => cuts = 0 /\ n = Len(w[1])
      /\ wire'["agent"] = wire["agent"] /\ buf'["agent"] = buf["agent"]
      /\ UNCHANGED <<tasks, pc, text, left, next, handled, results>>
  BY <1>2, DeliverForm, Ends DEF WInv
<1>4. PICK n \in 1 .. Len(w[1]) :
        /\ wire'["dispatcher"] = Remaining(w, n) /\ buf'["dispatcher"] = Arrived(w, u, n)
        /\ cuts' = 0 => cuts = 0 /\ n = Len(w[1])
  BY <1>3
<1>5. PICK still \in BOOLEAN : still = (cuts' = 0)
  OBVIOUS
<1>6. still => whole /\ n = Len(w[1])
  BY <1>1, <1>4, <1>5
<1>7. /\ InOrder' /\ HandlerExact' /\ next' - 1 = k
      /\ Message(next - 1)' = Message(k) /\ Reply(next - 1)' = Reply(k)
  BY <1>1, <1>3, <1>4, Frame
<1>8. Len(handled) = k /\ k > 0 => Answer(Reply(k))
  BY <1>1, Values
<1>9. DispatcherAt(k, pc["dispatcher"], pc["agent"], Len(handled), Len(results), Len(tasks),
                   Message(k), Reply(k), wire'["dispatcher"], buf'["dispatcher"],
                   text["dispatcher"], still)
  <2>1. DispatcherAt(k, pc["dispatcher"], pc["agent"], Len(handled), Len(results), Len(tasks),
                     Message(k), Reply(k), w, u, text["dispatcher"], whole)
    BY <1>1, <1>2 DEF WInv, DispatcherState
  <2>2. DispatcherAt(k, pc["dispatcher"], pc["agent"], Len(handled), Len(results), Len(tasks),
                     Message(k), Reply(k), Remaining(w, n), Arrived(w, u, n),
                     text["dispatcher"], still)
    BY <1>3, <1>6, <1>8, <2>1, DispatcherReceives
  <2>3. QED
    BY <1>4, <2>2
<1>10. AgentAt(k, pc["dispatcher"], pc["agent"], Len(handled), Message(k), Reply(k),
               wire["agent"], buf["agent"], text["agent"], still)
  <2>1. AgentAt(k, pc["dispatcher"], pc["agent"], Len(handled), Message(k), Reply(k),
                wire["agent"], buf["agent"], text["agent"], whole)
    BY <1>1 DEF WInv, AgentState
  <2>2. QED
    BY <1>6, <2>1, AgentKeeps
<1>11. AgentState'
  BY <1>3, <1>5, <1>7, <1>10 DEF AgentState
<1>12. DispatcherState'
  BY <1>3, <1>5, <1>7, <1>9 DEF DispatcherState
<1>13. QED
  BY <1>3, <1>7, <1>11, <1>12 DEF WInv

-----------------------------------------------------------------------------
(* The theorems *)

\* The invariant holds when neither program has connected.
LEMMA InitForm ==
  Init => TypeOK /\ InOrder /\ AgentInStep /\ DispatcherInStep /\ HandlerExact
<1> SUFFICES ASSUME Init
             PROVE  TypeOK /\ InOrder /\ AgentInStep /\ DispatcherInStep /\ HandlerExact
  OBVIOUS
<1>1. /\ tasks \in Workloads /\ next = 1 /\ cuts = 0 /\ next - 1 = 0
      /\ pc = [e \in End |-> "off"] /\ text = [e \in End |-> <<>>]
      /\ left = [e \in End |-> 0] /\ wire = [e \in End |-> <<>>]
      /\ buf = [e \in End |-> <<>>] /\ handled = <<>> /\ results = <<>>
  BY DEF Init
<1>2. Len(handled) = 0 /\ Len(results) = 0 /\ DOMAIN handled = {} /\ DOMAIN results = {}
  BY <1>1
<1>3. \A S : <<>> \in Seq(S)
  OBVIOUS
<1>4. Len(tasks) \in Nat
  <2>1. tasks \in Seq([type : {Sort, Merge, Block}, args : Seq(Seq(Char)) \ {<<>>}])
    BY <1>1, WireAssumption
  <2>2. QED
    BY <2>1, LenProperties
<1>5. TypeOK
  <2>1. next \in 1 .. Len(tasks) + 2 /\ 0 < next
    BY <1>1, <1>4
  <2>2. cuts \in 0 .. MaxCuts
    BY <1>1, WireAssumption
  <2>3. /\ text \in [End -> Seq(Byte)] /\ buf \in [End -> Seq(Byte)]
        /\ wire \in [End -> Seq(Seq(Byte) \ {<<>>})]
    BY <1>1, <1>3
  <2>4. /\ handled \in Seq([id : Seq(Byte), type : Byte, args : Seq(Seq(Byte)), rc : {0, 1}])
        /\ results \in Seq([id : Seq(Byte), rc : {0, 1}])
    BY <1>1, <1>3
  <2>5. left \in [End -> Nat]
    BY <1>1
  <2>6. pc \in [End -> {"off", "ready", "writeSize", "writeBody", "size", "body",
                        "drain", "spin", "got", "closed", "dead", "out"}]
    BY <1>1
  <2>7. QED
    BY <1>1, <1>2, <2>1, <2>2, <2>3, <2>4, <2>5, <2>6 DEF TypeOK
<1>6. InOrder /\ HandlerExact
  BY <1>2 DEF InOrder, HandlerExact
<1>7. Quiet("agent") /\ Quiet("dispatcher") /\ pc["agent"] = "off" /\ pc["dispatcher"] = "off"
  BY <1>1, Ends DEF Quiet
<1>8. AgentInStep
  BY <1>1, <1>2, <1>7 DEF AgentInStep
<1>9. DispatcherInStep
  BY <1>1, <1>2, <1>7 DEF DispatcherInStep
<1>10. QED
  BY <1>5, <1>6, <1>8, <1>9

\* Nothing changes.
LEMMA Stutter ==
  ASSUME WInv, UNCHANGED vars
  PROVE  WInv'
<1>1. /\ InOrder' /\ HandlerExact' /\ next' - 1 = next - 1
      /\ Message(next - 1)' = Message(next - 1) /\ Reply(next - 1)' = Reply(next - 1)
  BY Frame DEF vars
<1>2. TypeOK'
  BY DEF WInv, TypeOK, vars
<1>3. AgentState' /\ DispatcherState'
  BY <1>1 DEF WInv, AgentState, DispatcherState, vars
<1>4. QED
  BY <1>1, <1>2, <1>3 DEF WInv

\* Every step of either end and of TCP keeps the invariant.
LEMMA Step ==
  ASSUME WInv, [Next]_vars
  PROVE  WInv'
<1>1. CASE Listen
  BY <1>1, ListenStep
<1>2. CASE Connect
  BY <1>2, ConnectStep
<1>3. CASE Send
  BY <1>3, SendStep
<1>4. CASE TakeResult
  BY <1>4, TakeResultStep
<1>5. CASE TakeTask
  BY <1>5, TakeTaskStep
<1>6. CASE AgentCrash
  BY <1>6, CrashStep
<1>7. CASE Socket("dispatcher")
  BY <1>7, DispatcherWritesSize, DispatcherWritesBody, DispatcherReads DEF Socket
<1>8. CASE Socket("agent")
  BY <1>8, AgentWritesSize, AgentWritesBody, AgentReads DEF Socket
<1>9. CASE Deliver("agent")
  BY <1>9, AgentDelivery
<1>10. CASE Deliver("dispatcher")
  BY <1>10, DispatcherDelivery
<1>11. CASE UNCHANGED vars
  BY <1>11, Stutter
<1>12. QED
  BY <1>1, <1>2, <1>3, <1>4, <1>5, <1>6, <1>7, <1>8, <1>9, <1>10, <1>11, Ends DEF Next

\* The invariant of the model and its parts as relations.
LEMMA Forms == (IInv <=> WInv) /\ (IInv' <=> WInv')
BY AgentForm, DispatcherForm DEF IInv, WInv

\* The inductive invariant of the connection: where the agent and the
\* dispatcher are says which bytes of which message are on the way.
THEOREM Invariance == Spec => []IInv
<1>1. Init => IInv
  BY InitForm DEF IInv
<1>2. IInv /\ [Next]_vars => IInv'
  BY Forms, Step
<1>3. QED
  BY <1>1, <1>2, PTL DEF Spec

\* Every variable stays in its type.
THEOREM TypeCorrect == Spec => []TypeOK
<1>1. IInv => TypeOK
  BY DEF IInv
<1>2. QED
  BY <1>1, Invariance, PTL

\* As long as no write is cut, a handler is called with the task that was
\* dispatched.
THEOREM TasksArriveWhole == Spec => []HandlerExact
<1>1. IInv => HandlerExact
  BY DEF IInv
<1>2. QED
  BY <1>1, Invariance, PTL

\* A success the dispatcher believes in is the success of that task's handler,
\* whatever TCP did to the bytes.
THEOREM NoFalseSuccess == Spec => []SuccessIsReal
<1>1. IInv => SuccessIsReal
  <2>1. InOrder => SuccessIsReal
    BY DEF InOrder, SuccessIsReal
  <2>2. QED
    BY <2>1 DEF IInv
<1>2. QED
  BY <1>1, Invariance, PTL

\* Without a cut no text the dispatcher reads makes stoi throw, and no size
\* starts the loop that throws bytes away.
THEOREM DispatcherOutlivesAgent == Spec => []DispatcherSurvives
<1>1. WInv => DispatcherSurvives
  BY DEF WInv, DispatcherState, DispatcherAt, WaitAt, AstrayAt, AnswerAt, DispatcherSurvives
<1>2. QED
  BY <1>1, Forms, Invariance, PTL
=============================================================================
