----------------------------- MODULE QueueLemmas -----------------------------
(***************************************************************************)
(* Lemmas about queues that the proofs of several components share.        *)
(***************************************************************************)
EXTENDS Places, Integers, FiniteSetTheorems, SequenceTheorems, WellFoundedInduction, TLAPS

\* A set of natural numbers has a least element.
LEMMA LeastNat ==
  ASSUME NEW S, S \subseteq Nat, S # {}
  PROVE  \E x \in S : \A y \in S : x <= y
<1>1. \E x \in S : \A y \in S : ~ (<<y, x>> \in OpToRel(<, Nat))
  BY NatLessThanWellFounded, WFMin
<1>2. PICK x \in S : \A y \in S : ~ (<<y, x>> \in OpToRel(<, Nat))
  BY <1>1
<1>3. ASSUME NEW y \in S, y < x
      PROVE  FALSE
  <2>1. x \in Nat /\ y \in Nat
    OBVIOUS
  <2>2. <<y, x>> \in OpToRel(<, Nat)
    BY <1>3, <2>1 DEF OpToRel
  <2>3. QED
    BY <1>2, <2>2
<1>4. \A y \in S : x <= y
  BY <1>3
<1>5. QED
  BY <1>4

\* The positions and the elements of a sequence after its head is removed.
LEMMA TailFacts ==
  ASSUME NEW S, NEW s \in Seq(S), s # <<>>
  PROVE  /\ Tail(s) \in Seq(S) /\ Head(s) \in S /\ Head(s) = s[1]
         /\ Len(s) \in Nat \ {0} /\ 1 \in DOMAIN s
         /\ DOMAIN Tail(s) = 1 .. Len(s) - 1
         /\ DOMAIN s = 1 .. Len(s)
         /\ \A i \in DOMAIN Tail(s) : i + 1 \in DOMAIN s /\ Tail(s)[i] = s[i + 1]
<1>1. /\ Tail(s) \in Seq(S) /\ Head(s) \in S /\ Head(s) = s[1]
      /\ Len(Tail(s)) = Len(s) - 1
      /\ \A i \in 1 .. Len(s) - 1 : Tail(s)[i] = s[i + 1]
  BY HeadTailProperties
<1>2. Len(s) \in Nat \ {0} /\ DOMAIN s = 1 .. Len(s)
  BY LenProperties, EmptySeq
<1>3. DOMAIN Tail(s) = 1 .. Len(s) - 1
  BY <1>1, LenProperties
<1>4. QED
  BY <1>1, <1>2, <1>3

\* The positions and the elements of a sequence with one more at its end.
LEMMA AppendFacts ==
  ASSUME NEW S, NEW s \in Seq(S), NEW t \in S
  PROVE  /\ Append(s, t) \in Seq(S)
         /\ Len(s) \in Nat /\ DOMAIN s = 1 .. Len(s)
         /\ DOMAIN Append(s, t) = 1 .. Len(s) + 1
         /\ \A i \in 1 .. Len(s) : Append(s, t)[i] = s[i]
         /\ Append(s, t)[Len(s) + 1] = t
<1>1. /\ Append(s, t) \in Seq(S) /\ Len(Append(s, t)) = Len(s) + 1
      /\ \A i \in 1 .. Len(s) : Append(s, t)[i] = s[i]
      /\ Append(s, t)[Len(s) + 1] = t
  BY AppendProperties
<1>2. Len(s) \in Nat /\ DOMAIN s = 1 .. Len(s)
  BY LenProperties
<1>3. DOMAIN Append(s, t) = 1 .. Len(s) + 1
  BY <1>1, LenProperties
<1>4. QED
  BY <1>1, <1>2, <1>3

\* A sequence of one element.
LEMMA OneElement ==
  ASSUME NEW S, NEW s \in Seq(S), Len(s) = 1
  PROVE  /\ s # <<>> /\ s[1] \in S /\ s = <<s[1]>> /\ DOMAIN s = {1}
         /\ Head(s) = s[1] /\ Tail(s) = <<>>
<1>1. s # <<>>
  BY EmptySeq
<1>2. s[1] \in S
  BY ElementOfSeq
<1>3. /\ Head(s) = s[1] /\ Tail(s) \in Seq(S) /\ Len(Tail(s)) = 0
  BY <1>1, HeadTailProperties
<1>4. Tail(s) = <<>>
  BY <1>3, EmptySeq
<1>5. PICK e \in S : e = s[1]
  BY <1>2
<1>6. <<e>> \in Seq(S) /\ Len(<<e>>) = 1 /\ <<e>>[1] = e
  OBVIOUS
<1>7. \A i \in 1 .. Len(s) : s[i] = <<e>>[i]
  <2>1. \A i \in 1 .. 1 : i = 1
    OBVIOUS
  <2>2. QED
    BY ONLY <2>1, <1>5, <1>6, Len(s) = 1
<1>8. s = <<e>>
  BY <1>6, <1>7, SeqEqual
<1>9. DOMAIN s = {1}
  <2>1. DOMAIN s = 1 .. 1
    BY LenProperties
  <2>2. QED
    BY ONLY <2>1
<1>10. QED
  BY <1>1, <1>2, <1>3, <1>4, <1>5, <1>8, <1>9

\* An element put in front of a sequence.
LEMMA PutFirst ==
  ASSUME NEW S, NEW s \in Seq(S), NEW h \in S
  PROVE  /\ <<h>> \o s \in Seq(S) /\ <<h>> \o s # <<>>
         /\ Head(<<h>> \o s) = h /\ Tail(<<h>> \o s) = s
         /\ \A e \in S : Append(<<h>> \o s, e) = <<h>> \o Append(s, e)
<1> DEFINE t == <<h>> \o s
<1>1. <<h>> \in Seq(S) /\ Len(<<h>>) = 1 /\ <<h>>[1] = h
  OBVIOUS
<1>2. /\ t \in Seq(S) /\ Len(t) = 1 + Len(s) /\ Len(s) \in Nat
      /\ \A i \in 1 .. 1 + Len(s) : t[i] = IF i <= 1 THEN <<h>>[i] ELSE s[i - 1]
  BY <1>1, ConcatProperties, LenProperties
<1>3. \A e \in S : Append(t, e) = <<h>> \o Append(s, e)
  <2>1. SUFFICES ASSUME NEW e \in S
                 PROVE  Append(t, e) = <<h>> \o Append(s, e)
    OBVIOUS
  <2>2. Append(t, e) = t \o <<e>> /\ Append(s, e) = s \o <<e>> /\ <<e>> \in Seq(S)
    BY <1>2, AppendIsConcat
  <2>3. (<<h>> \o s) \o <<e>> = <<h>> \o (s \o <<e>>)
    BY <1>1, <2>2, ConcatAssociative
  <2>4. QED
    BY <2>2, <2>3
<1> HIDE DEF t
<1>4. t # <<>> /\ t[1] = h /\ \A i \in 1 .. Len(s) : t[i + 1] = s[i]
  BY <1>1, <1>2, EmptySeq
<1>5. /\ Head(t) = t[1] /\ Tail(t) \in Seq(S) /\ Len(Tail(t)) = Len(t) - 1
      /\ \A i \in 1 .. Len(Tail(t)) : Tail(t)[i] = t[i + 1]
  BY <1>2, <1>4, HeadTailProperties
<1>6. Len(Tail(t)) = Len(s)
  <2>1. Len(t) - 1 = Len(s)
    BY <1>2
  <2>2. QED
    BY ONLY <1>5, <2>1
<1>7. \A i \in 1 .. Len(s) : Tail(t)[i] = s[i]
  BY <1>4, <1>5, <1>6
<1>8. Tail(t) = s
  BY <1>5, <1>6, <1>7, SeqEqual
<1>9. QED
  BY <1>2, <1>3, <1>4, <1>5, <1>8 DEF t

\* A sequence is its head in front of its tail.
LEMMA HeadFirst ==
  ASSUME NEW S, NEW s \in Seq(S), s # <<>>
  PROVE  <<Head(s)>> \o Tail(s) = s
<1>1. PICK h \in S : h = Head(s)
  BY HeadTailProperties
<1>2. PICK t \in Seq(S) : t = Tail(s) /\ Len(t) = Len(s) - 1
  BY HeadTailProperties
<1>3. Len(s) \in Nat \ {0} /\ h = s[1] /\ \A i \in 1 .. Len(t) : t[i] = s[i + 1]
  BY <1>1, <1>2, EmptySeq, HeadTailProperties, LenProperties
<1>4. /\ <<h>> \in Seq(S) /\ Len(<<h>>) = 1 /\ <<h>>[1] = h
  OBVIOUS
<1>5. /\ <<h>> \o t \in Seq(S) /\ Len(<<h>> \o t) = 1 + Len(t)
      /\ \A i \in 1 .. 1 + Len(t) : (<<h>> \o t)[i] = IF i <= 1 THEN h ELSE t[i - 1]
  BY <1>4, ConcatProperties
<1>6. 1 + Len(t) = Len(s)
  BY ONLY <1>2, <1>3
<1>7. \A i \in 1 .. Len(s) : (<<h>> \o t)[i] = s[i]
  <2>1. \A i \in 1 .. Len(s) : i <= 1 => i = 1
    BY <1>3
  <2>2. \A i \in 1 .. Len(s) : ~(i <= 1) => i - 1 \in 1 .. Len(t) /\ (i - 1) + 1 = i
    BY ONLY <1>2, <1>3, <1>6
  <2>3. QED
    BY <1>3, <1>5, <1>6, <2>1, <2>2
<1>8. QED
  BY <1>1, <1>2, <1>5, <1>6, <1>7, SeqEqual

\* Removing the head of one place removes that from what is carried.
LEMMA PopKeeps ==
  ASSUME NEW P, NEW S
  PROVE  \A f, g \in Fillings(P, S) : \A p \in P : \A t :
           Apart(f) /\ Popped(f, g, p, t) =>
             /\ Apart(g) /\ Carried(g) = Carried(f) \ {t}
             /\ t \in Carried(f) /\ t \in S
<1> SUFFICES ASSUME NEW f \in Fillings(P, S), NEW g \in Fillings(P, S),
                    NEW p \in P, NEW t, Apart(f), Popped(f, g, p, t)
             PROVE  /\ Apart(g) /\ Carried(g) = Carried(f) \ {t}
                    /\ t \in Carried(f) /\ t \in S
  OBVIOUS
<1>a. f \in [P -> Seq(S)] /\ g \in [P -> Seq(S)]
  BY DEF Fillings
<1>b. /\ f[p] # <<>> /\ t = Head(f[p])
      /\ g[p] = Tail(f[p]) /\ \A r \in P \ {p} : g[r] = f[r]
  BY <1>a DEF Popped
<1>0. f[p] \in Seq(S)
  BY <1>a
<1>1. /\ Tail(f[p]) \in Seq(S) /\ Head(f[p]) \in S /\ Head(f[p]) = f[p][1]
      /\ 1 \in DOMAIN f[p] /\ Len(f[p]) \in Nat
      /\ DOMAIN Tail(f[p]) = 1 .. Len(f[p]) - 1
      /\ DOMAIN f[p] = 1 .. Len(f[p])
      /\ \A i \in DOMAIN Tail(f[p]) :
           i + 1 \in DOMAIN f[p] /\ Tail(f[p])[i] = f[p][i + 1]
  BY <1>0, <1>b, TailFacts
<1>2. DOMAIN g = P /\ DOMAIN f = P
  BY <1>a
<1>3. g[p] = Tail(f[p]) /\ \A q \in P \ {p} : g[q] = f[q]
  BY <1>b
<1>4. ASSUME NEW q \in P
      PROVE  \A i \in DOMAIN g[q] :
               LET k == IF q = p THEN i + 1 ELSE i
               IN  k \in DOMAIN f[q] /\ g[q][i] = f[q][k]
  BY <1>1, <1>3
<1>5. Apart(g)
  <2>1. SUFFICES ASSUME NEW q \in P, NEW r \in P,
                        NEW i \in DOMAIN g[q], NEW j \in DOMAIN g[r],
                        g[q][i] = g[r][j]
                 PROVE  q = r /\ i = j
    BY <1>2 DEF Apart
  <2>2. PICK k \in DOMAIN f[q] : g[q][i] = f[q][k] /\ k = IF q = p THEN i + 1 ELSE i
    BY <1>4
  <2>3. PICK m \in DOMAIN f[r] : g[r][j] = f[r][m] /\ m = IF r = p THEN j + 1 ELSE j
    BY <1>4
  <2>4. q = r /\ k = m
    <3>1. /\ Apart(f) /\ q \in DOMAIN f /\ r \in DOMAIN f
          /\ k \in DOMAIN f[q] /\ m \in DOMAIN f[r] /\ f[q][k] = f[r][m]
      BY <1>2, <2>1, <2>2, <2>3
    <3>2. QED
      BY ONLY <3>1 DEF Apart
  <2>5. CASE q = p
    <3>1. i \in Int /\ j \in Int
      <4>1. i \in DOMAIN g[p] /\ j \in DOMAIN g[p]
        BY <2>4, <2>5
      <4>2. DOMAIN g[p] = 1 .. Len(f[p]) - 1 /\ Len(f[p]) \in Nat
        BY <1>1, <1>3
      <4>3. QED
        BY ONLY <4>1, <4>2
    <3>2. QED
      BY <2>2, <2>3, <2>4, <2>5, <3>1
  <2>6. QED
    BY <2>2, <2>3, <2>4, <2>5
<1>6. ASSUME NEW x
      PROVE  x \in Carried(g) <=> x \in Carried(f) /\ x # t
  <2>1. ASSUME NEW q \in P, NEW i \in DOMAIN g[q], x = g[q][i]
        PROVE  x \in Carried(f) /\ x # t
    <3>1. PICK k \in DOMAIN f[q] : x = f[q][k] /\ k = IF q = p THEN i + 1 ELSE i
      BY <1>4, <2>1
    <3>2. x \in Carried(f)
      BY <1>2, <3>1 DEF Carried
    <3>3. ASSUME x = f[p][1]
          PROVE  FALSE
      <4>1. q = p /\ k = 1
        BY <1>1, <1>2, <3>1, <3>3 DEF Apart
      <4>2. i + 1 = 1 /\ i \in 1 .. Len(f[p]) - 1
        BY <1>1, <1>3, <3>1, <4>1
      <4>3. QED
        BY <1>1, <4>2
    <3>4. QED
      BY <1>1, <1>b, <3>2, <3>3
  <2>2. ASSUME NEW q \in P, NEW i \in DOMAIN f[q], x = f[q][i], x # t
        PROVE  x \in Carried(g)
    <3>1. CASE q # p
      BY <1>2, <1>3, <2>2, <3>1 DEF Carried
    <3>2. CASE q = p
      <4>1. i \in 1 .. Len(f[p]) /\ i # 1
        BY <1>1, <1>b, <2>2, <3>2
      <4>2. i - 1 \in DOMAIN Tail(f[p]) /\ (i - 1) + 1 = i
        BY <1>1, <4>1
      <4>3. g[p][i - 1] = x /\ i - 1 \in DOMAIN g[p]
        BY <1>1, <1>3, <2>2, <3>2, <4>2
      <4>4. p \in DOMAIN g
        BY <1>2
      <4>5. QED
        BY ONLY <4>3, <4>4 DEF Carried
    <3>3. QED
      BY <3>1, <3>2
  <2>3. QED
    BY <1>2, <2>1, <2>2 DEF Carried
<1>7. t \in Carried(f)
  BY <1>1, <1>2, <1>b DEF Carried
<1>8. QED
  BY <1>1, <1>b, <1>5, <1>6, <1>7

\* Adding something new at the end of one place adds it to what is carried.
LEMMA PushKeeps ==
  ASSUME NEW P, NEW S
  PROVE  \A f, g \in Fillings(P, S) : \A p \in P, t \in S :
           Apart(f) /\ t \notin Carried(f) /\ Pushed(f, g, p, t) =>
             Apart(g) /\ Carried(g) = Carried(f) \cup {t}
<1> SUFFICES ASSUME NEW f \in Fillings(P, S), NEW g \in Fillings(P, S),
                    NEW p \in P, NEW t \in S, Apart(f), t \notin Carried(f),
                    Pushed(f, g, p, t)
             PROVE  Apart(g) /\ Carried(g) = Carried(f) \cup {t}
  OBVIOUS
<1>0. f[p] \in Seq(S)
  BY DEF Fillings
<1>1. /\ Append(f[p], t) \in Seq(S)
      /\ Len(f[p]) \in Nat /\ DOMAIN f[p] = 1 .. Len(f[p])
      /\ DOMAIN Append(f[p], t) = 1 .. Len(f[p]) + 1
      /\ \A i \in 1 .. Len(f[p]) : Append(f[p], t)[i] = f[p][i]
      /\ Append(f[p], t)[Len(f[p]) + 1] = t
  BY <1>0, AppendFacts
<1>2. DOMAIN g = P /\ DOMAIN f = P
  BY DEF Fillings
<1>3. g[p] = Append(f[p], t) /\ \A q \in P \ {p} : g[q] = f[q]
  BY <1>2 DEF Pushed
<1>4. ASSUME NEW q \in P, NEW i \in DOMAIN g[q]
      PROVE  \/ i \in DOMAIN f[q] /\ g[q][i] = f[q][i]
             \/ q = p /\ i = Len(f[p]) + 1 /\ g[q][i] = t
  BY <1>1, <1>3
<1>5. ASSUME NEW q \in P, NEW i \in DOMAIN f[q]
      PROVE  i \in DOMAIN g[q] /\ g[q][i] = f[q][i] /\ f[q][i] # t
  <2>1. f[q][i] \in Carried(f)
    BY <1>2 DEF Carried
  <2>2. i \in DOMAIN g[q] /\ g[q][i] = f[q][i]
    <3>1. CASE q = p
      <4>1. /\ DOMAIN g[q] = 1 .. Len(f[q]) + 1 /\ DOMAIN f[q] = 1 .. Len(f[q])
            /\ Len(f[q]) \in Nat
            /\ \A k \in 1 .. Len(f[q]) : g[q][k] = f[q][k]
        BY <1>1, <1>3, <3>1
      <4>2. QED
        BY ONLY <4>1, i \in DOMAIN f[q]
    <3>2. CASE q # p
      BY <1>3, <3>2
    <3>3. QED
      BY <3>1, <3>2
  <2>3. QED
    BY <2>1, <2>2
<1>6. Apart(g)
  <2>1. SUFFICES ASSUME NEW q \in P, NEW r \in P,
                        NEW i \in DOMAIN g[q], NEW j \in DOMAIN g[r],
                        g[q][i] = g[r][j]
                 PROVE  q = r /\ i = j
    BY <1>2 DEF Apart
  <2>2. CASE i \in DOMAIN f[q] /\ g[q][i] = f[q][i]
    <3>1. f[q][i] # t
      BY <1>5, <2>2
    <3>2. \/ j \in DOMAIN f[r] /\ g[r][j] = f[r][j]
          \/ g[r][j] = t
      BY <1>4
    <3>3. /\ Apart(f) /\ q \in DOMAIN f /\ r \in DOMAIN f
          /\ i \in DOMAIN f[q] /\ j \in DOMAIN f[r] /\ f[q][i] = f[r][j]
      BY <1>2, <2>1, <2>2, <3>1, <3>2
    <3>4. QED
      BY ONLY <3>3 DEF Apart
  <2>3. CASE q = p /\ i = Len(f[p]) + 1 /\ g[q][i] = t
    BY <1>4, <1>5, <2>1, <2>3
  <2>4. QED
    BY <1>4, <2>2, <2>3
<1>7. Carried(g) = Carried(f) \cup {t}
  <2>1. t \in Carried(g)
    <3>1. Len(f[p]) + 1 \in DOMAIN g[p] /\ g[p][Len(f[p]) + 1] = t
      BY <1>1, <1>3
    <3>2. QED
      BY <1>2, <3>1 DEF Carried
  <2>2. Carried(f) \subseteq Carried(g)
    BY <1>2, <1>5 DEF Carried
  <2>3. Carried(g) \subseteq Carried(f) \cup {t}
    BY <1>2, <1>4 DEF Carried
  <2>4. QED
    BY <2>1, <2>2, <2>3
<1>8. QED
  BY <1>6, <1>7

\* What moves from the head of one place to the end of another is still in
\* exactly one place, and nothing else has moved.
LEMMA MoveKeeps ==
  ASSUME NEW P, NEW S
  PROVE  \A f, g \in Fillings(P, S) : \A p, q \in P :
           Apart(f) /\ Moved(f, g, p, q) => Apart(g) /\ Carried(g) = Carried(f)
<1> TAKE f, g \in Fillings(P, S)
<1> TAKE p, q \in P
<1> HAVE Apart(f) /\ Moved(f, g, p, q)
<1> DEFINE t == Head(f[p])
           h == [f EXCEPT ![p] = Tail(f[p])]
<1>1. Tail(f[p]) \in Seq(S)
  <2>1. f[p] \in Seq(S) /\ f[p] # <<>>
    BY DEF Moved, Fillings
  <2>2. QED
    BY <2>1, TailFacts
<1>2. h \in Fillings(P, S) /\ Popped(f, h, p, t)
  BY <1>1 DEF Moved, Popped, Fillings
<1>3. /\ h[p] = Tail(f[p]) /\ \A r \in P \ {p} : h[r] = f[r]
      /\ DOMAIN h = P /\ DOMAIN f = P
  BY <1>1 DEF Fillings
<1>4. Pushed(h, g, q, t)
  BY <1>3 DEF Moved, Pushed
<1> HIDE DEF h, t
<1>5. Apart(h) /\ Carried(h) = Carried(f) \ {t} /\ t \in Carried(f) /\ t \in S
  BY <1>2, PopKeeps
<1>6. Apart(g) /\ Carried(g) = Carried(h) \cup {t}
  BY <1>2, <1>4, <1>5, PushKeeps
<1>7. QED
  BY <1>5, <1>6

\* Emptying the place that holds everything leaves nothing carried.
LEMMA ClearKeeps ==
  ASSUME NEW P, NEW S
  PROVE  \A f, g \in Fillings(P, S) : \A p \in P :
           Apart(f) /\ Cleared(f, g, p) => Apart(g) /\ Carried(g) = {}
<1> SUFFICES ASSUME NEW f \in Fillings(P, S), NEW g \in Fillings(P, S),
                    NEW p \in P, Apart(f), Cleared(f, g, p)
             PROVE  Apart(g) /\ Carried(g) = {}
  OBVIOUS
<1>1. DOMAIN g = P /\ DOMAIN f = P
  BY DEF Fillings
<1>2. ASSUME NEW q \in P, NEW i \in DOMAIN g[q]
      PROVE  FALSE
  <2>1. q # p /\ g[q] = f[q]
    BY <1>1, <1>2 DEF Cleared
  <2>2. f[q][i] \in Carried(f)
    BY <1>1, <1>2, <2>1 DEF Carried
  <2>3. PICK j \in DOMAIN f[p] : f[p][j] = f[q][i]
    BY <2>2 DEF Cleared
  <2>4. QED
    BY <1>1, <1>2, <2>1, <2>3 DEF Apart
<1>3. QED
  BY <1>1, <1>2 DEF Apart, Carried

\* A sequence of n different numbers between lo and hi has at most
\* hi - lo + 1 elements, and with that many every number occurs in it.
LEMMA DistinctInInterval ==
  ASSUME NEW lo \in Int, NEW hi \in Int, NEW n \in Nat, lo <= hi + 1
  PROVE  \A f \in [1 .. n -> lo .. hi] :
           (\A i, j \in 1 .. n : f[i] = f[j] => i = j) =>
             /\ n <= hi - lo + 1
             /\ n = hi - lo + 1 => \A t \in lo .. hi : \E i \in 1 .. n : f[i] = t
<1>0. SUFFICES
        ASSUME NEW f \in [1 .. n -> lo .. hi],
               \A i, j \in 1 .. n : f[i] = f[j] => i = j
        PROVE  /\ n <= hi - lo + 1
               /\ n = hi - lo + 1 => \A t \in lo .. hi : \E i \in 1 .. n : f[i] = t
  OBVIOUS
<1>1. f \in Injection(1 .. n, lo .. hi)
  BY <1>0 DEF Injection, IsInjective
<1>2. /\ IsFiniteSet(lo .. hi)
      /\ Cardinality(lo .. hi) = IF lo > hi THEN 0 ELSE hi - lo + 1
  BY FS_Interval
<1>3. Cardinality(1 .. n) = n
  BY FS_Interval
<1>4. /\ Cardinality(1 .. n) <= Cardinality(lo .. hi)
      /\ Cardinality(1 .. n) = Cardinality(lo .. hi)
           <=> f \in Surjection(1 .. n, lo .. hi)
  BY <1>1, <1>2, FS_Injection
<1>5. Cardinality(lo .. hi) = hi - lo + 1
  BY <1>2
<1>6. n = hi - lo + 1 => f \in Surjection(1 .. n, lo .. hi)
  BY <1>3, <1>4, <1>5
<1>7. QED
  BY <1>3, <1>4, <1>5, <1>6 DEF Surjection
=============================================================================
