---------------------------- MODULE Merge_proofs ----------------------------
(***************************************************************************)
(* What TLAPS proves of the merges, for every set of records, all inputs   *)
(* and any number of them: the safety properties that the runs check are   *)
(* together inductive.  The count of a record is the size of the set of    *)
(* its places, and every step moves places about one for one.              *)
(***************************************************************************)
EXTENDS Merge, QueueLemmas, FunctionTheorems

-----------------------------------------------------------------------------
(* How often a record is in a list *)

\* A function that is one to one and onto keeps the size of a finite set.
LEMMA SameSize ==
  ASSUME NEW S, NEW T, IsFiniteSet(S), NEW f \in [S -> T],
         \A a, b \in S : f[a] = f[b] => a = b,
         \A t \in T : \E s \in S : f[s] = t
  PROVE  IsFiniteSet(T) /\ Cardinality(T) = Cardinality(S)
<1>1. f \in Bijection(S, T)
  BY Fun_IsBij
<1>2. ExistsBijection(S, T)
  BY <1>1, Fun_ExistsBij
<1>3. QED
  BY <1>2, FS_Bijection

\* The places of a record in a list are finitely many.
LEMMA AtFacts ==
  ASSUME NEW S, NEW s \in Seq(S), NEW r
  PROVE  /\ IsFiniteSet(At(r, s)) /\ At(r, s) \subseteq 1 .. Len(s)
         /\ Times(r, s) \in Nat
         /\ \A i \in DOMAIN s : s[i] = r => i \in At(r, s)
<1>1. Len(s) \in Nat /\ DOMAIN s = 1 .. Len(s)
  BY LenProperties
<1>2. At(r, s) \subseteq 1 .. Len(s)
  BY <1>1 DEF At
<1>3. IsFiniteSet(1 .. Len(s))
  BY <1>1, FS_Interval
<1>4. IsFiniteSet(At(r, s))
  BY <1>2, <1>3, FS_Subset
<1>5. Times(r, s) \in Nat
  BY <1>4, FS_CardinalityType DEF Times
<1>6. QED
  BY <1>2, <1>4, <1>5 DEF At

LEMMA TimesEmpty ==
  ASSUME NEW r
  PROVE  Times(r, <<>>) = 0
<1>1. At(r, <<>>) = {}
  BY DEF At
<1>2. QED
  BY <1>1, FS_EmptySet DEF Times

\* A record written is one more of its kind.
LEMMA TimesAppend ==
  ASSUME NEW S, NEW s \in Seq(S), NEW x \in S, NEW r
  PROVE  Times(r, Append(s, x)) = Times(r, s) + (IF x = r THEN 1 ELSE 0)
<1>1. PICK t \in Seq(S) : t = Append(s, x)
  BY AppendFacts
<1>2. /\ Len(s) \in Nat /\ DOMAIN s = 1 .. Len(s) /\ DOMAIN t = 1 .. Len(s) + 1
      /\ \A i \in 1 .. Len(s) : t[i] = s[i]
      /\ t[Len(s) + 1] = x
  BY <1>1, AppendFacts
<1>3. IsFiniteSet(At(r, s)) /\ Times(r, s) \in Nat /\ Len(s) + 1 \notin At(r, s)
  <2>1. Len(s) + 1 \notin 1 .. Len(s)
    BY <1>2
  <2>2. QED
    BY <2>1, AtFacts
<1>4. CASE x = r
  <2>1. At(r, t) = At(r, s) \cup {Len(s) + 1}
    BY <1>2, <1>4 DEF At
  <2>2. Cardinality(At(r, t)) = Cardinality(At(r, s)) + 1
    BY <1>3, <2>1, FS_AddElement
  <2>3. QED
    BY <1>1, <1>4, <2>2 DEF Times
<1>5. CASE x # r
  <2>1. At(r, t) = At(r, s)
    BY <1>2, <1>5 DEF At
  <2>2. QED
    BY <1>1, <1>3, <1>5, <2>1 DEF Times
<1>6. QED
  BY <1>4, <1>5

\* A record taken from the front is one less of its kind.
LEMMA TimesTail ==
  ASSUME NEW S, NEW s \in Seq(S), s # <<>>, NEW r
  PROVE  Times(r, s) = Times(r, Tail(s)) + (IF s[1] = r THEN 1 ELSE 0)
<1>1. PICK t \in Seq(S) : t = Tail(s)
  BY TailFacts
<1>2. /\ Len(s) \in Nat \ {0} /\ 1 \in DOMAIN s /\ DOMAIN s = 1 .. Len(s)
      /\ DOMAIN t = 1 .. Len(s) - 1
      /\ \A i \in DOMAIN t : i + 1 \in DOMAIN s /\ t[i] = s[i + 1]
  BY <1>1, TailFacts
<1>3. IsFiniteSet(At(r, t)) /\ Times(r, t) \in Nat
  BY AtFacts
<1> DEFINE rest1 == At(r, s) \ {1}
           f == [i \in At(r, t) |-> i + 1]
<1>4. \A i \in At(r, t) : i \in 1 .. Len(s) - 1 /\ i + 1 \in rest1
  <2>1. \A i \in 1 .. Len(s) - 1 : i + 1 # 1
    BY <1>2
  <2>2. QED
    BY <1>2, <2>1 DEF At
<1>5. \A j \in rest1 : \E i \in At(r, t) : i + 1 = j
  <2>1. \A j \in 1 .. Len(s) : j # 1 => j - 1 \in 1 .. Len(s) - 1 /\ (j - 1) + 1 = j
    BY <1>2
  <2>2. QED
    BY <1>2, <2>1 DEF At
<1>6. \A a, b \in At(r, t) : a + 1 = b + 1 => a = b
  BY <1>2, <1>4
<1>7. IsFiniteSet(rest1) /\ Cardinality(rest1) = Cardinality(At(r, t))
  <2>1. f \in [At(r, t) -> rest1]
    BY <1>4
  <2>2. /\ \A a, b \in At(r, t) : f[a] = f[b] => a = b
        /\ \A j \in rest1 : \E i \in At(r, t) : f[i] = j
    BY <1>5, <1>6
  <2> HIDE DEF f, rest1
  <2>3. QED
    BY <1>3, <2>1, <2>2, SameSize
<1>8. CASE s[1] = r
  <2>1. At(r, s) = rest1 \cup {1} /\ 1 \notin rest1
    BY <1>2, <1>8 DEF At
  <2> HIDE DEF rest1
  <2>2. Cardinality(At(r, s)) = Cardinality(rest1) + 1
    BY <1>7, <2>1, FS_AddElement
  <2>3. QED
    BY <1>1, <1>7, <1>8, <2>2 DEF Times
<1>9. CASE s[1] # r
  <2>1. At(r, s) = rest1
    BY <1>9 DEF At
  <2> HIDE DEF rest1
  <2>2. QED
    BY <1>1, <1>3, <1>7, <1>9, <2>1 DEF Times
<1>10. QED
  BY <1>8, <1>9

\* What std::sort makes of a list holds each record as often.
LEMMA TimesSorted ==
  ASSUME NEW S, NEW s \in Seq(S), NEW t \in SortingsOf(s)
  PROVE  /\ t \in Seq(S) /\ DOMAIN t = DOMAIN s /\ Sorted(t)
         /\ \A r : Times(r, t) = Times(r, s)
<1>1. /\ t \in [DOMAIN s -> ToSet(s)] /\ Sorted(t)
      /\ \A r \in ToSet(s) : Times(r, t) = Times(r, s)
  BY DEF SortingsOf
<1>2. Len(s) \in Nat /\ DOMAIN s = 1 .. Len(s) /\ \A i \in DOMAIN s : s[i] \in S
  BY LenProperties, ElementOfSeq
<1>3. ToSet(s) \subseteq S
  BY <1>2 DEF ToSet
<1>4. t \in Seq(S)
  <2>1. t \in [1 .. Len(s) -> S]
    BY <1>1, <1>2, <1>3
  <2>2. QED
    BY <1>2, <2>1
<1>5. ASSUME NEW r, r \notin ToSet(s)
      PROVE  Times(r, t) = Times(r, s)
  <2>1. At(r, t) = {} /\ At(r, s) = {}
    BY <1>1, <1>5 DEF At, ToSet
  <2>2. QED
    BY <2>1 DEF Times
<1>6. QED
  BY <1>1, <1>4, <1>5
-----------------------------------------------------------------------------
(* How often it is in a number of lists *)

\* The places of a record outside list m.
Others(r, lists, m) == {p \in Slots(r, lists) : p[1] # m}

LEMMA SlotFacts ==
  ASSUME NEW r, NEW lists
  PROVE  /\ \A i \in DOMAIN lists : \A j \in At(r, lists[i]) : <<i, j>> \in Slots(r, lists)
         /\ \A p \in Slots(r, lists) : \E i \in DOMAIN lists : \E j \in At(r, lists[i]) :
              p = <<i, j>>
<1>1. ASSUME NEW i \in DOMAIN lists, NEW j \in At(r, lists[i])
      PROVE  <<i, j>> \in Slots(r, lists)
  BY DEF Slots
<1>2. ASSUME NEW p \in Slots(r, lists)
      PROVE  \E i \in DOMAIN lists : \E j \in At(r, lists[i]) : p = <<i, j>>
  <2>1. PICK i \in DOMAIN lists : p \in {i} \X At(r, lists[i])
    BY DEF Slots
  <2>2. QED
    BY <2>1
<1>3. QED
  BY <1>1, <1>2

LEMMA SlotsFinite ==
  ASSUME NEW S, NEW lists \in Seq(Seq(S)), NEW r
  PROVE  IsFiniteSet(Slots(r, lists)) /\ TimesIn(r, lists) \in Nat
<1>1. /\ Len(lists) \in Nat /\ DOMAIN lists = 1 .. Len(lists)
      /\ \A i \in DOMAIN lists : lists[i] \in Seq(S)
  BY LenProperties, ElementOfSeq
<1> DEFINE g == [i \in DOMAIN lists |-> {i} \X At(r, lists[i])]
           T == {g[i] : i \in DOMAIN lists}
<1>2. \A U \in T : IsFiniteSet(U)
  <2>1. ASSUME NEW i \in DOMAIN lists
        PROVE  IsFiniteSet({i} \X At(r, lists[i]))
    <3>1. IsFiniteSet({i}) /\ IsFiniteSet(At(r, lists[i]))
      BY <1>1, FS_Singleton, AtFacts
    <3>2. QED
      BY <3>1, FS_Product
  <2>2. QED
    BY <2>1
<1>3. IsFiniteSet(T)
  <2>1. IsFiniteSet(DOMAIN lists)
    BY <1>1, FS_Interval
  <2>2. g \in Surjection(DOMAIN lists, T)
    BY DEF Surjection
  <2>3. QED
    BY <2>1, <2>2, FS_Surjection
<1>4. Slots(r, lists) = UNION T
  BY DEF Slots
<1>5. IsFiniteSet(Slots(r, lists))
  <2> HIDE DEF T
  <2>1. QED
    BY <1>2, <1>3, <1>4, FS_UNION
<1>6. QED
  BY <1>5, FS_CardinalityType DEF TimesIn

\* The places in list m and those in the others.
LEMMA SlotsSplit ==
  ASSUME NEW S, NEW lists \in Seq(Seq(S)), NEW m \in DOMAIN lists, NEW r
  PROVE  /\ IsFiniteSet(Others(r, lists, m)) /\ Cardinality(Others(r, lists, m)) \in Nat
         /\ TimesIn(r, lists) = Cardinality(Others(r, lists, m)) + Times(r, lists[m])
<1> DEFINE A == Others(r, lists, m)
           B == {<<m, j>> : j \in At(r, lists[m])}
           f == [j \in At(r, lists[m]) |-> <<m, j>>]
<1>1. lists[m] \in Seq(S)
  BY ElementOfSeq, LenProperties
<1>2. IsFiniteSet(At(r, lists[m])) /\ Times(r, lists[m]) \in Nat
  BY <1>1, AtFacts
<1>3. IsFiniteSet(B) /\ Cardinality(B) = Times(r, lists[m])
  <2>1. f \in [At(r, lists[m]) -> B]
    OBVIOUS
  <2>2. /\ \A a, b \in At(r, lists[m]) : f[a] = f[b] => a = b
        /\ \A p \in B : \E j \in At(r, lists[m]) : f[j] = p
    OBVIOUS
  <2> HIDE DEF f, B
  <2>3. QED
    BY <1>2, <2>1, <2>2, SameSize DEF Times
<1>4. Slots(r, lists) = A \cup B
  <2>1. ASSUME NEW p \in Slots(r, lists)
        PROVE  p \in A \cup B
    <3>1. PICK i, j : i \in DOMAIN lists /\ j \in At(r, lists[i]) /\ p = <<i, j>>
      BY SlotFacts
    <3>2. p[1] = i
      BY <3>1
    <3>3. QED
      BY <3>1, <3>2 DEF Others
  <2>2. ASSUME NEW p \in A \cup B
        PROVE  p \in Slots(r, lists)
    BY SlotFacts DEF Others
  <2>3. QED
    BY <2>1, <2>2
<1>5. A \cap B = {}
  <2>1. \A p \in B : p[1] = m
    OBVIOUS
  <2>2. QED
    BY <2>1 DEF Others
<1>6. IsFiniteSet(A)
  <2>1. IsFiniteSet(Slots(r, lists)) /\ A \subseteq Slots(r, lists)
    BY SlotsFinite DEF Others
  <2>2. QED
    BY <2>1, FS_Subset
<1> HIDE DEF A, B
<1>7. Cardinality(A \cup B) = Cardinality(A) + Cardinality(B) - Cardinality(A \cap B)
  BY <1>3, <1>6, FS_Union
<1>8. Cardinality(A) \in Nat /\ Cardinality(A \cap B) = 0
  BY <1>5, <1>6, FS_CardinalityType, FS_EmptySet
<1>9. Cardinality(A \cup B) = Cardinality(A) + Times(r, lists[m])
  BY ONLY <1>2, <1>3, <1>7, <1>8
<1>10. QED
  BY <1>4, <1>6, <1>8, <1>9 DEF A, TimesIn

\* Two numbers of lists that differ at most in list m.
Differ(lists, new, m) ==
  DOMAIN new = DOMAIN lists /\ \A i \in DOMAIN lists : i # m => new[i] = lists[i]

LEMMA SetList ==
  ASSUME NEW S, NEW lists \in Seq(Seq(S)), NEW m \in DOMAIN lists, NEW t \in Seq(S),
         NEW new, new = [lists EXCEPT ![m] = t]
  PROVE  new \in Seq(Seq(S)) /\ Differ(lists, new, m) /\ new[m] = t
<1>1. /\ Len(lists) \in Nat /\ DOMAIN lists = 1 .. Len(lists)
      /\ lists \in [1 .. Len(lists) -> Seq(S)]
  BY LenProperties
<1>2. new \in [1 .. Len(lists) -> Seq(S)]
  BY <1>1
<1>3. new \in Seq(Seq(S))
  BY <1>1, <1>2
<1>4. QED
  BY <1>1, <1>3 DEF Differ

\* Another list in the place of one.
LEMMA TimesReplace ==
  ASSUME NEW S, NEW lists \in Seq(Seq(S)), NEW new \in Seq(Seq(S)), NEW m \in DOMAIN lists,
         Differ(lists, new, m), NEW r
  PROVE  TimesIn(r, new) + Times(r, lists[m]) = TimesIn(r, lists) + Times(r, new[m])
<1>1. /\ DOMAIN new = DOMAIN lists
      /\ \A i \in DOMAIN lists : i # m => new[i] = lists[i]
      /\ new[m] \in Seq(S) /\ lists[m] \in Seq(S)
  BY ElementOfSeq, LenProperties DEF Differ
<1>2. Others(r, new, m) = Others(r, lists, m)
  <2>1. ASSUME NEW p \in Others(r, new, m)
        PROVE  p \in Others(r, lists, m)
    <3>1. PICK i, j : i \in DOMAIN new /\ j \in At(r, new[i]) /\ p = <<i, j>>
      BY SlotFacts DEF Others
    <3>2. i # m /\ p[1] = i
      BY <3>1 DEF Others
    <3>3. QED
      BY <1>1, <3>1, <3>2, SlotFacts DEF Others
  <2>2. ASSUME NEW p \in Others(r, lists, m)
        PROVE  p \in Others(r, new, m)
    <3>1. PICK i, j : i \in DOMAIN lists /\ j \in At(r, lists[i]) /\ p = <<i, j>>
      BY SlotFacts DEF Others
    <3>2. i # m /\ p[1] = i
      BY <3>1 DEF Others
    <3>3. QED
      BY <1>1, <3>1, <3>2, SlotFacts DEF Others
  <2>3. QED
    BY <2>1, <2>2
<1>3. PICK c \in Nat : c = Cardinality(Others(r, lists, m))
  BY SlotsSplit
<1>4. TimesIn(r, lists) = c + Times(r, lists[m])
  BY <1>3, SlotsSplit
<1>5. TimesIn(r, new) = c + Times(r, new[m])
  BY <1>1, <1>2, <1>3, SlotsSplit
<1>6. Times(r, new[m]) \in Nat /\ Times(r, lists[m]) \in Nat
  BY <1>1, AtFacts
<1>7. QED
  BY ONLY <1>3, <1>4, <1>5, <1>6

\* The lists that are left when one is removed.
LEMMA RemoveFacts ==
  ASSUME NEW S, NEW s \in Seq(S), NEW m \in DOMAIN s
  PROVE  /\ RemoveAt(s, m) \in Seq(S) /\ Len(s) \in Nat \ {0} /\ DOMAIN s = 1 .. Len(s)
         /\ Len(RemoveAt(s, m)) = Len(s) - 1
         /\ DOMAIN RemoveAt(s, m) = 1 .. Len(s) - 1
         /\ \A i \in 1 .. Len(s) - 1 :
              /\ i < m => RemoveAt(s, m)[i] = s[i]
              /\ i >= m => RemoveAt(s, m)[i] = s[i + 1]
<1>1. /\ Len(s) \in Nat /\ DOMAIN s = 1 .. Len(s) /\ m \in 1 .. Len(s)
      /\ \A i \in 1 .. Len(s) : s[i] \in S
  BY LenProperties, ElementOfSeq
<1>2. PICK a : a = SubSeq(s, 1, m - 1)
  OBVIOUS
<1>3. PICK b : b = SubSeq(s, m + 1, Len(s))
  OBVIOUS
<1>4. /\ a \in Seq(S) /\ Len(a) = m - 1
      /\ \A i \in 1 .. m - 1 : a[i] = s[i]
  <2>1. \A i \in 1 .. m - 1 : s[i] \in S
    BY <1>1
  <2>2. 1 \in Int /\ m - 1 \in Int
    BY <1>1
  <2>3. /\ a \in Seq(S) /\ Len(a) = IF 1 <= m - 1 THEN m - 1 - 1 + 1 ELSE 0
        /\ \A i \in 1 .. m - 1 - 1 + 1 : a[i] = s[1 + i - 1]
    BY <1>2, <2>1, <2>2, SubSeqProperties
  <2>4. m - 1 - 1 + 1 = m - 1 /\ \A i \in 1 .. m - 1 : 1 + i - 1 = i
    BY <1>1
  <2>5. Len(a) = m - 1
    BY ONLY <1>1, <2>3
  <2>6. QED
    BY <2>3, <2>4, <2>5
<1>5. /\ b \in Seq(S) /\ Len(b) = Len(s) - m
      /\ \A i \in 1 .. Len(s) - m : b[i] = s[m + i]
  <2>1. \A i \in m + 1 .. Len(s) : s[i] \in S
    BY <1>1
  <2>2. m + 1 \in Int /\ Len(s) \in Int
    BY <1>1
  <2>3. /\ b \in Seq(S)
        /\ Len(b) = IF m + 1 <= Len(s) THEN Len(s) - (m + 1) + 1 ELSE 0
        /\ \A i \in 1 .. Len(s) - (m + 1) + 1 : b[i] = s[(m + 1) + i - 1]
    BY <1>3, <2>1, <2>2, SubSeqProperties
  <2>4. /\ Len(s) - (m + 1) + 1 = Len(s) - m
        /\ \A i \in 1 .. Len(s) - m : (m + 1) + i - 1 = m + i
    BY <1>1
  <2>5. Len(b) = Len(s) - m
    BY ONLY <1>1, <2>3
  <2>6. QED
    BY <2>3, <2>4, <2>5
<1>6. PICK c : c = a \o b
  OBVIOUS
<1>7. RemoveAt(s, m) = c
  BY <1>2, <1>3, <1>6 DEF RemoveAt
<1>8. /\ c \in Seq(S) /\ Len(c) = Len(a) + Len(b)
      /\ \A i \in 1 .. Len(a) + Len(b) : c[i] = IF i <= Len(a) THEN a[i] ELSE b[i - Len(a)]
  BY <1>4, <1>5, <1>6, ConcatProperties
<1>9. Len(c) = Len(s) - 1 /\ Len(a) + Len(b) = Len(s) - 1
  BY ONLY <1>1, <1>4, <1>5, <1>8
<1>10. DOMAIN c = 1 .. Len(s) - 1
  BY <1>8, <1>9, LenProperties
<1>11. ASSUME NEW i \in 1 .. Len(s) - 1
       PROVE  /\ i < m => c[i] = s[i]
              /\ i >= m => c[i] = s[i + 1]
  <2>1. c[i] = IF i <= m - 1 THEN a[i] ELSE b[i - (m - 1)]
    BY <1>4, <1>8, <1>9
  <2>2. ASSUME i < m
        PROVE  c[i] = s[i]
    <3>1. i <= m - 1 /\ i \in 1 .. m - 1
      BY <1>1, <2>2
    <3>2. QED
      BY <1>4, <2>1, <3>1
  <2>3. ASSUME i >= m
        PROVE  c[i] = s[i + 1]
    <3>1. /\ ~(i <= m - 1) /\ i - (m - 1) \in 1 .. Len(s) - m
          /\ m + (i - (m - 1)) = i + 1
      BY <1>1, <2>3
    <3>2. QED
      BY <1>5, <2>1, <3>1
  <2>4. QED
    BY <2>2, <2>3
<1>12. Len(s) # 0
  BY <1>1
<1>13. QED
  BY <1>1, <1>7, <1>8, <1>9, <1>10, <1>11, <1>12

\* One list removed.
LEMMA TimesRemove ==
  ASSUME NEW S, NEW lists \in Seq(Seq(S)), NEW m \in DOMAIN lists, NEW r
  PROVE  TimesIn(r, RemoveAt(lists, m)) + Times(r, lists[m]) = TimesIn(r, lists)
<1>1. PICK new \in Seq(Seq(S)) : new = RemoveAt(lists, m)
  BY RemoveFacts
<1>2. /\ Len(lists) \in Nat /\ DOMAIN lists = 1 .. Len(lists) /\ m \in 1 .. Len(lists)
      /\ DOMAIN new = 1 .. Len(lists) - 1
      /\ \A i \in 1 .. Len(lists) - 1 : /\ i < m => new[i] = lists[i]
                                        /\ i >= m => new[i] = lists[i + 1]
  BY <1>1, RemoveFacts
<1> DEFINE up == [i \in 1 .. Len(lists) - 1 |-> IF i < m THEN i ELSE i + 1]
           f == [p \in Slots(r, new) |-> <<up[p[1]], p[2]>>]
<1>3. /\ \A i \in 1 .. Len(lists) - 1 :
           up[i] \in 1 .. Len(lists) /\ up[i] # m /\ new[i] = lists[up[i]]
      /\ \A i, j \in 1 .. Len(lists) - 1 : up[i] = up[j] => i = j
      /\ \A j \in 1 .. Len(lists) : j # m => \E i \in 1 .. Len(lists) - 1 : up[i] = j
  <2>1. ASSUME NEW i \in 1 .. Len(lists) - 1
        PROVE  up[i] \in 1 .. Len(lists) /\ up[i] # m /\ new[i] = lists[up[i]]
    <3>1. CASE i < m
      BY <1>2, <3>1
    <3>2. CASE i >= m
      BY <1>2, <3>2
    <3>3. QED
      BY <1>2, <3>1, <3>2
  <2>2. \A i, j \in 1 .. Len(lists) - 1 : up[i] = up[j] => i = j
    <3>1. ASSUME NEW i \in 1 .. Len(lists) - 1, NEW j \in 1 .. Len(lists) - 1, i < j
          PROVE  up[i] # up[j]
      <4>1. i \in Int /\ j \in Int /\ m \in Int
        BY <1>2
      <4>2. (IF i < m THEN i ELSE i + 1) # (IF j < m THEN j ELSE j + 1)
        BY ONLY <3>1, <4>1
      <4>3. QED
        BY <4>2
    <3>2. \A i, j \in 1 .. Len(lists) - 1 : i # j => i < j \/ j < i
      BY <1>2
    <3>3. QED
      BY <3>1, <3>2
  <2>3. ASSUME NEW j \in 1 .. Len(lists), j # m
        PROVE  \E i \in 1 .. Len(lists) - 1 : up[i] = j
    <3>1. CASE j < m
      <4>1. j \in 1 .. Len(lists) - 1 /\ up[j] = j
        BY <1>2, <3>1
      <4>2. QED
        BY <4>1
    <3>2. CASE j > m
      <4>1. j - 1 \in 1 .. Len(lists) - 1 /\ up[j - 1] = j
        BY <1>2, <3>2
      <4>2. QED
        BY <4>1
    <3>3. QED
      BY <1>2, <2>3, <3>1, <3>2
  <2>4. QED
    BY <2>1, <2>2, <2>3
<1> HIDE DEF up
<1>4. f \in [Slots(r, new) -> Others(r, lists, m)]
  <2>1. SUFFICES ASSUME NEW p \in Slots(r, new)
                 PROVE  <<up[p[1]], p[2]>> \in Others(r, lists, m)
    OBVIOUS
  <2>2. PICK i, j : i \in DOMAIN new /\ j \in At(r, new[i]) /\ p = <<i, j>>
    BY SlotFacts
  <2>3. p[1] = i /\ p[2] = j
    BY <2>2
  <2>4. up[i] \in DOMAIN lists /\ up[i] # m /\ j \in At(r, lists[up[i]])
    BY <1>2, <1>3, <2>2
  <2>5. <<up[i], j>> \in Slots(r, lists)
    BY <2>4, SlotFacts
  <2>6. QED
    BY <2>3, <2>4, <2>5 DEF Others
<1>5. ASSUME NEW p \in Slots(r, new), NEW q \in Slots(r, new), f[p] = f[q]
      PROVE  p = q
  <2>1. PICK i, j : i \in DOMAIN new /\ j \in At(r, new[i]) /\ p = <<i, j>>
    BY SlotFacts
  <2>2. PICK k, l : k \in DOMAIN new /\ l \in At(r, new[k]) /\ q = <<k, l>>
    BY SlotFacts
  <2>3. up[i] = up[k] /\ j = l
    BY <1>5, <2>1, <2>2
  <2>4. QED
    BY <1>2, <1>3, <2>1, <2>2, <2>3
<1>6. ASSUME NEW q \in Others(r, lists, m)
      PROVE  \E p \in Slots(r, new) : f[p] = q
  <2>1. PICK i, j : i \in DOMAIN lists /\ j \in At(r, lists[i]) /\ q = <<i, j>>
    BY SlotFacts DEF Others
  <2>2. i # m
    BY <2>1 DEF Others
  <2>3. PICK k \in 1 .. Len(lists) - 1 : up[k] = i
    BY <1>2, <1>3, <2>1, <2>2
  <2>4. <<k, j>> \in Slots(r, new)
    BY <1>2, <1>3, <2>1, <2>3, SlotFacts
  <2>5. f[<<k, j>>] = <<up[k], j>>
    BY <2>4
  <2>6. QED
    BY <2>1, <2>3, <2>4, <2>5
<1> HIDE DEF f
<1>7. Cardinality(Others(r, lists, m)) = Cardinality(Slots(r, new))
  <2>1. IsFiniteSet(Slots(r, new))
    BY SlotsFinite
  <2>2. QED
    BY <1>4, <1>5, <1>6, <2>1, SameSize
<1>8. QED
  BY <1>1, <1>7, SlotsSplit DEF TimesIn

\* No lists, and one.
LEMMA TimesInFew ==
  /\ \A r : TimesIn(r, <<>>) = 0
  /\ \A S : \A lists \in Seq(Seq(S)) : Len(lists) = 1 =>
       \A r : TimesIn(r, lists) = Times(r, lists[1])
<1>1. ASSUME NEW r
      PROVE  TimesIn(r, <<>>) = 0
  <2>1. Slots(r, <<>>) = {}
    BY SlotFacts
  <2>2. QED
    BY <2>1, FS_EmptySet DEF TimesIn
<1>2. ASSUME NEW S, NEW lists \in Seq(Seq(S)), Len(lists) = 1, NEW r
      PROVE  TimesIn(r, lists) = Times(r, lists[1])
  <2>1. DOMAIN lists = {1} /\ lists[1] \in Seq(S)
    BY <1>2, OneElement
  <2>2. Others(r, lists, 1) = {}
    <3>1. SUFFICES ASSUME NEW p \in Others(r, lists, 1)
                   PROVE  FALSE
      OBVIOUS
    <3>2. PICK i, j : i \in DOMAIN lists /\ j \in At(r, lists[i]) /\ p = <<i, j>>
      BY SlotFacts DEF Others
    <3>3. p[1] = i
      BY <3>2
    <3>4. QED
      BY <2>1, <3>2, <3>3 DEF Others
  <2>3. TimesIn(r, lists) = Cardinality(Others(r, lists, 1)) + Times(r, lists[1])
    BY <2>1, SlotsSplit
  <2>4. Times(r, lists[1]) \in Nat /\ Cardinality(Others(r, lists, 1)) = 0
    BY <2>1, <2>2, AtFacts, FS_EmptySet
  <2>5. QED
    BY <2>3, <2>4
<1>3. QED
  BY <1>1, <1>2
-----------------------------------------------------------------------------
(* One record goes from a list to the output *)

\* The output with one or two records more.
LEMMA OutFacts ==
  ASSUME NEW S, NEW o \in Seq(S), NEW a \in S, NEW b \in S
  PROVE  /\ Append(<<>>, a) = <<a>> /\ Append(<<a>>, b) = <<a, b>>
         /\ Append(o, a) \in Seq(S) /\ o \o <<a>> = Append(o, a)
         /\ o \o <<a, b>> = Append(Append(o, a), b)
<1>1. <<a>> \in Seq(S) /\ <<b>> \in Seq(S) /\ <<>> \in Seq(S) /\ <<a, b>> \in Seq(S)
  OBVIOUS
<1>2. Append(<<>>, a) = <<a>>
  BY <1>1, AppendIsConcat, ConcatEmptySeq
<1>3. Append(<<a>>, b) = <<a, b>>
  <2>1. PICK t \in Seq(S) : t = Append(<<a>>, b)
    BY <1>1, AppendFacts
  <2>2. Len(<<a>>) = 1 /\ <<a>>[1] = a /\ Len(<<a, b>>) = 2 /\ <<a, b>>[1] = a
        /\ <<a, b>>[2] = b
    OBVIOUS
  <2>3. Len(t) = Len(<<a>>) + 1 /\ t[Len(<<a>>) + 1] = b
        /\ \A i \in 1 .. Len(<<a>>) : t[i] = <<a>>[i]
    BY <1>1, <2>1, AppendProperties
  <2>4. Len(t) = 2 /\ t[1] = a /\ t[2] = b
    <3>1. Len(t) = 1 + 1 /\ t[1 + 1] = b /\ \A i \in 1 .. 1 : t[i] = <<a>>[i]
      BY <2>2, <2>3
    <3>2. 1 \in 1 .. 1 /\ 1 + 1 = 2
      OBVIOUS
    <3>3. QED
      BY <2>2, <3>1, <3>2
  <2>5. \A i \in 1 .. 2 : t[i] = <<a, b>>[i]
    <3>1. \A i \in 1 .. 2 : i = 1 \/ i = 2
      OBVIOUS
    <3>2. QED
      BY <2>2, <2>4, <3>1
  <2>6. t = <<a, b>>
    BY <1>1, <2>2, <2>4, <2>5, SeqEqual
  <2>7. QED
    BY <2>1, <2>6
<1>4. Append(o, a) \in Seq(S) /\ o \o <<a>> = Append(o, a)
  BY AppendFacts, AppendIsConcat
<1>5. o \o <<a, b>> = Append(Append(o, a), b)
  <2>1. <<a, b>> = <<a>> \o <<b>>
    BY <1>1, <1>3, AppendIsConcat
  <2>2. o \o (<<a>> \o <<b>>) = (o \o <<a>>) \o <<b>>
    BY <1>1, ConcatAssociative
  <2>3. Append(Append(o, a), b) = Append(o, a) \o <<b>>
    BY <1>4, AppendIsConcat
  <2>4. QED
    BY <1>4, <2>1, <2>2, <2>3
<1>6. QED
  BY <1>2, <1>3, <1>4, <1>5

\* The head of list m is taken.
Took(lists, new, m) ==
  lists[m] # <<>> /\ Differ(lists, new, m) /\ new[m] = Tail(lists[m])

\* Taking the head of a list takes one record of its kind.
LEMMA TakeCount ==
  ASSUME NEW S, NEW lists \in Seq(Seq(S)), NEW new \in Seq(Seq(S)), NEW m \in DOMAIN lists,
         Took(lists, new, m), NEW r
  PROVE  /\ lists[m][1] \in S /\ TimesIn(r, new) \in Nat /\ TimesIn(r, lists) \in Nat
         /\ TimesIn(r, new) + (IF lists[m][1] = r THEN 1 ELSE 0) = TimesIn(r, lists)
<1>0. lists[m] # <<>> /\ Differ(lists, new, m) /\ new[m] = Tail(lists[m])
  BY DEF Took
<1>1. PICK s \in Seq(S) : s = lists[m]
  BY ElementOfSeq, LenProperties
<1>2. PICK t \in Seq(S) : t = Tail(s)
  BY <1>0, <1>1, TailFacts
<1>3. s[1] \in S /\ Times(r, s) = Times(r, t) + (IF s[1] = r THEN 1 ELSE 0)
  BY <1>0, <1>1, <1>2, TimesTail, TailFacts
<1>4. Times(r, t) \in Nat
  BY AtFacts
<1>5. TimesIn(r, new) + Times(r, lists[m]) = TimesIn(r, lists) + Times(r, new[m])
  BY <1>0, TimesReplace
<1>6. TimesIn(r, new) + Times(r, s) = TimesIn(r, lists) + Times(r, t)
  BY <1>0, <1>1, <1>2, <1>5
<1>7. TimesIn(r, new) \in Nat /\ TimesIn(r, lists) \in Nat
  BY SlotsFinite
<1>8. TimesIn(r, new) + (IF s[1] = r THEN 1 ELSE 0) = TimesIn(r, lists)
  BY ONLY <1>3, <1>4, <1>6, <1>7
<1>9. QED
  BY <1>1, <1>3, <1>7, <1>8

\* So does taking the only record of a list, and the list with it.
LEMMA TakeLastCount ==
  ASSUME NEW S, NEW lists \in Seq(Seq(S)), NEW m \in DOMAIN lists, Len(lists[m]) = 1, NEW r
  PROVE  TimesIn(r, RemoveAt(lists, m)) + (IF lists[m][1] = r THEN 1 ELSE 0)
           = TimesIn(r, lists)
<1>1. PICK s \in Seq(S) : s = lists[m]
  BY ElementOfSeq, LenProperties
<1>2. s # <<>> /\ Tail(s) = <<>>
  BY <1>1, OneElement
<1>3. Times(r, s) = Times(r, <<>>) + (IF s[1] = r THEN 1 ELSE 0)
  BY <1>2, TimesTail
<1>4. Times(r, <<>>) = 0
  BY TimesEmpty
<1>5. Times(r, s) = IF s[1] = r THEN 1 ELSE 0
  BY ONLY <1>3, <1>4
<1>6. QED
  BY <1>1, <1>5, TimesRemove

\* The least of the heads goes behind what is written.
LEMMA TakeInOrder ==
  ASSUME NEW o \in Seq(Record), NEW lists \in Seq(Seq(Record)), InOrder(o, lists),
         NEW m \in DOMAIN lists,
         \A i \in DOMAIN lists : lists[i] # <<>> => lists[m][1] <= lists[i][1],
         NEW new, Took(lists, new, m)
  PROVE  InOrder(Append(o, lists[m][1]), new)
<1>0. lists[m] # <<>> /\ Differ(lists, new, m) /\ new[m] = Tail(lists[m])
  BY DEF Took
<1>1. PICK s \in Seq(Record) : s = lists[m]
  BY ElementOfSeq, LenProperties
<1>2. PICK t \in Seq(Record) : t = Tail(s)
  BY <1>0, <1>1, TailFacts
<1>3. PICK x \in Record : x = s[1]
  BY <1>0, <1>1, TailFacts
<1>5. DOMAIN new = DOMAIN lists /\ new[m] = t /\ \A i \in DOMAIN lists \ {m} : new[i] = lists[i]
  BY <1>0, <1>1, <1>2 DEF Differ
<1>6. PICK w \in Seq(Record) : w = Append(o, x)
  BY AppendFacts
<1>a. Record \subseteq Nat
  BY MergeAssumption
<1>7. /\ Len(o) \in Nat /\ DOMAIN o = 1 .. Len(o) /\ DOMAIN w = 1 .. Len(o) + 1
      /\ \A i \in 1 .. Len(o) : w[i] = o[i]
      /\ w[Len(o) + 1] = x
  BY <1>6, AppendFacts
<1>b. x \in Nat /\ \A i \in 1 .. Len(o) : o[i] \in Nat
  BY <1>a, ElementOfSeq
<1>8. Len(w) = Len(o) + 1 /\ Last(w) = x
  BY <1>6, <1>7, AppendProperties DEF Last
<1>9. /\ Len(s) \in Nat \ {0} /\ 1 \in DOMAIN s /\ DOMAIN s = 1 .. Len(s)
      /\ DOMAIN t = 1 .. Len(s) - 1
      /\ \A i \in DOMAIN t : i + 1 \in DOMAIN s /\ t[i] = s[i + 1]
  BY <1>0, <1>1, <1>2, TailFacts
<1>10. \A i \in DOMAIN lists : Sorted(lists[i]) /\ lists[i] \in Seq(Record)
  BY ElementOfSeq, LenProperties DEF InOrder
<1>11. ASSUME NEW i \in DOMAIN lists, NEW k \in DOMAIN lists[i]
       PROVE  x <= lists[i][k]
  <2>1. lists[i] # <<>> /\ 1 \in DOMAIN lists[i] /\ k \in Nat \ {0}
        /\ lists[i][1] \in Nat /\ lists[i][k] \in Nat
    <3>1. /\ Len(lists[i]) \in Nat /\ DOMAIN lists[i] = 1 .. Len(lists[i])
          /\ \A j \in DOMAIN lists[i] : lists[i][j] \in Record
      BY <1>10, LenProperties, ElementOfSeq
    <3>2. 1 \in DOMAIN lists[i] /\ k \in Nat \ {0} /\ Len(lists[i]) # 0
      BY <3>1
    <3>3. lists[i] # <<>>
      BY <1>10, <3>2, EmptySeq
    <3>4. QED
      BY <1>a, <3>1, <3>2, <3>3
  <2>2. x <= lists[i][1]
    BY <1>1, <1>3, <2>1
  <2>3. lists[i][1] <= lists[i][k]
    <3>1. CASE k = 1
      BY <2>1, <3>1
    <3>2. CASE k # 1
      <4>1. 1 < k
        BY <2>1, <3>2
      <4>2. QED
        BY <1>10, <2>1, <4>1 DEF Sorted
    <3>3. QED
      BY <3>1, <3>2
  <2>4. x \in Nat
    BY <1>b
  <2>5. QED
    BY ONLY <2>1, <2>2, <2>3, <2>4
<1>12. Sorted(w)
  <2>1. SUFFICES ASSUME NEW i \in DOMAIN w, NEW j \in DOMAIN w, i < j
                 PROVE  w[i] <= w[j]
    BY DEF Sorted
  <2>2. i \in 1 .. Len(o) /\ (j \in 1 .. Len(o) \/ j = Len(o) + 1) /\ Len(o) \in 1 .. Len(o)
    BY ONLY <1>7, <2>1
  <2>3. Sorted(o)
    BY DEF InOrder
  <2>4. CASE j \in 1 .. Len(o)
    BY <1>7, <2>1, <2>2, <2>3, <2>4 DEF Sorted
  <2>5. CASE j = Len(o) + 1
    <3>1. o[Len(o)] <= x
      <4>1. o # <<>>
        BY <1>7, <2>2, EmptySeq
      <4>2. x \in ToSet(lists[m])
        BY <1>1, <1>3, <1>9 DEF ToSet
      <4>3. QED
        BY <4>1, <4>2 DEF InOrder, Last
    <3>2. o[i] <= o[Len(o)]
      <4>1. CASE i = Len(o)
        <5>1. o[i] \in Nat /\ o[Len(o)] = o[i]
          BY <1>b, <2>2, <4>1
        <5>2. QED
          BY ONLY <5>1
      <4>2. CASE i # Len(o)
        <5>1. i < Len(o)
          BY <1>7, <2>2, <4>2
        <5>2. QED
          BY <1>7, <2>2, <2>3, <5>1 DEF Sorted
      <4>3. QED
        BY <4>1, <4>2
    <3>3. QED
      <4>1. /\ w[i] = o[i] /\ w[j] = x
            /\ o[i] \in Nat /\ o[Len(o)] \in Nat /\ x \in Nat
        BY <1>7, <1>b, <2>2, <2>5
      <4>2. QED
        BY ONLY <3>1, <3>2, <4>1
  <2>6. QED
    BY <2>2, <2>4, <2>5
<1>13. ASSUME NEW i \in DOMAIN new
       PROVE  Sorted(new[i]) /\ \A r \in ToSet(new[i]) : x <= r
  <2>1. CASE i # m
    <3>1. new[i] = lists[i] /\ i \in DOMAIN lists
      BY <1>5, <2>1
    <3>2. QED
      BY <1>10, <1>11, <3>1 DEF ToSet
  <2>2. CASE i = m
    <3>1. new[i] = t /\ Sorted(s)
      BY <1>1, <1>5, <1>10, <2>2
    <3>2. Sorted(t)
      <4>1. SUFFICES ASSUME NEW k \in DOMAIN t, NEW l \in DOMAIN t, k < l
                     PROVE  t[k] <= t[l]
        BY DEF Sorted
      <4>2. k + 1 \in DOMAIN s /\ l + 1 \in DOMAIN s /\ k + 1 < l + 1
        BY <1>9, <4>1
      <4>3. QED
        BY <1>9, <3>1, <4>2 DEF Sorted
    <3>3. \A k \in DOMAIN t : x <= t[k]
      BY <1>1, <1>9, <1>11
    <3>4. QED
      BY <3>1, <3>2, <3>3 DEF ToSet
  <2>3. QED
    BY <2>1, <2>2
<1>14. InOrder(w, new)
  BY <1>8, <1>12, <1>13 DEF InOrder
<1>15. QED
  BY <1>1, <1>3, <1>6, <1>14

\* Fewer lists are as much in order.
LEMMA FewerInOrder ==
  ASSUME NEW o, NEW lists, NEW less, InOrder(o, lists),
         \A i \in DOMAIN less : \E j \in DOMAIN lists : less[i] = lists[j]
  PROVE  InOrder(o, less)
BY DEF InOrder
\* Written and still to come: taking a head moves one record over.
LEMMA TakeTotal ==
  ASSUME NEW S, NEW o \in Seq(S), NEW lists \in Seq(Seq(S)), NEW new \in Seq(Seq(S)),
         NEW m \in DOMAIN lists, Took(lists, new, m), NEW r
  PROVE  /\ lists[m][1] \in S /\ Append(o, lists[m][1]) \in Seq(S)
         /\ Total(r, Append(o, lists[m][1]), new) = Total(r, o, lists)
<1>1. PICK x \in S : x = lists[m][1]
  BY TakeCount
<1>2. /\ TimesIn(r, new) \in Nat /\ TimesIn(r, lists) \in Nat
      /\ TimesIn(r, new) + (IF lists[m][1] = r THEN 1 ELSE 0) = TimesIn(r, lists)
  BY TakeCount
<1>3. Times(r, o) \in Nat
  BY AtFacts
<1>4. Times(r, Append(o, x)) = Times(r, o) + (IF x = r THEN 1 ELSE 0)
  BY TimesAppend
<1>5. Times(r, Append(o, x)) + TimesIn(r, new) = Times(r, o) + TimesIn(r, lists)
  BY ONLY <1>1, <1>2, <1>3, <1>4
<1>6. Append(o, x) \in Seq(S)
  BY AppendFacts
<1>7. QED
  BY <1>1, <1>5, <1>6 DEF Total

LEMMA TakeLastTotal ==
  ASSUME NEW S, NEW o \in Seq(S), NEW lists \in Seq(Seq(S)), NEW m \in DOMAIN lists,
         Len(lists[m]) = 1, NEW r
  PROVE  /\ lists[m][1] \in S /\ Append(o, lists[m][1]) \in Seq(S)
         /\ Total(r, Append(o, lists[m][1]), RemoveAt(lists, m)) = Total(r, o, lists)
<1>1. PICK x \in S : x = lists[m][1]
  <2>1. lists[m] \in Seq(S)
    BY ElementOfSeq, LenProperties
  <2>2. QED
    BY <2>1, OneElement
<1>2. RemoveAt(lists, m) \in Seq(Seq(S))
  BY RemoveFacts
<1>3. TimesIn(r, RemoveAt(lists, m)) \in Nat /\ TimesIn(r, lists) \in Nat
  BY <1>2, SlotsFinite
<1>4. TimesIn(r, RemoveAt(lists, m)) + (IF x = r THEN 1 ELSE 0) = TimesIn(r, lists)
  BY <1>1, TakeLastCount
<1>5. Times(r, o) \in Nat
  BY AtFacts
<1>6. Times(r, Append(o, x)) = Times(r, o) + (IF x = r THEN 1 ELSE 0)
  BY TimesAppend
<1>7. Times(r, Append(o, x)) + TimesIn(r, RemoveAt(lists, m))
        = Times(r, o) + TimesIn(r, lists)
  BY ONLY <1>3, <1>4, <1>5, <1>6
<1>8. Append(o, x) \in Seq(S)
  BY AppendFacts
<1>9. QED
  BY <1>1, <1>7, <1>8 DEF Total

LEMMA TailSubset ==
  ASSUME NEW S, NEW s \in Seq(S), s # <<>>
  PROVE  ToSet(Tail(s)) \subseteq ToSet(s) /\ s[1] \in ToSet(s)
BY TailFacts DEF ToSet
-----------------------------------------------------------------------------
(* The state *)

\* A loop over lists with records in them finds a least head.
LEMMA MinFacts ==
  ASSUME rest \in Seq(Seq(Record)), rest # <<>>, \A i \in DOMAIN rest : rest[i] # <<>>
  PROVE  /\ MinIndex \in DOMAIN rest
         /\ \A j \in Candidates : rest[MinIndex][1] <= rest[j][1]
<1>1. /\ Len(rest) \in Nat \ {0} /\ DOMAIN rest = 1 .. Len(rest)
  BY LenProperties, EmptySeq
<1>2. \A j \in DOMAIN rest : rest[j][1] \in Nat
  <2>1. ASSUME NEW j \in DOMAIN rest
        PROVE  rest[j][1] \in Nat
    <3>1. rest[j] \in Seq(Record) /\ rest[j] # <<>>
      BY ElementOfSeq, LenProperties
    <3>2. rest[j][1] \in Record
      BY <3>1, TailFacts
    <3>3. QED
      BY <3>2, MergeAssumption
  <2>2. QED
    BY <2>1
<1>3. /\ Candidates \subseteq DOMAIN rest /\ Candidates # {} /\ Candidates \subseteq Nat
  <2>1. 1 \in DOMAIN rest /\ 2 .. Len(rest) - 1 \subseteq DOMAIN rest /\ DOMAIN rest \subseteq Nat
    BY <1>1
  <2>2. QED
    BY <2>1 DEF Candidates
<1> DEFINE heads == {rest[j][1] : j \in Candidates}
<1>4. PICK h \in heads : \A y \in heads : h <= y
  <2>1. heads \subseteq Nat /\ heads # {}
    BY <1>2, <1>3
  <2> HIDE DEF heads
  <2>2. QED
    BY <2>1, LeastNat
<1> DEFINE firsts == {j \in Candidates : rest[j][1] = h}
<1>5. PICK i \in firsts : \A j \in firsts : i <= j
  <2>1. firsts \subseteq Nat /\ firsts # {}
    BY <1>3, <1>4
  <2> HIDE DEF firsts
  <2>2. QED
    BY <2>1, LeastNat
<1>6. ASSUME NEW j \in Candidates
      PROVE  rest[i][1] < rest[j][1] \/ (rest[i][1] = rest[j][1] /\ i <= j)
  <2>1. h \in Nat /\ rest[j][1] \in Nat /\ h <= rest[j][1] /\ rest[i][1] = h
    BY <1>2, <1>3, <1>4, <1>5
  <2>2. CASE rest[j][1] = h
    BY <1>5, <2>1, <2>2
  <2>3. CASE rest[j][1] # h
    BY <2>1, <2>3
  <2>4. QED
    BY <2>2, <2>3
<1>7. /\ MinIndex \in Candidates
      /\ \A j \in Candidates :
           rest[MinIndex][1] < rest[j][1] \/ (rest[MinIndex][1] = rest[j][1] /\ MinIndex <= j)
  <2>1. i \in Candidates
    BY <1>5
  <2> DEFINE P(k) == \A j \in Candidates :
                       rest[k][1] < rest[j][1] \/ (rest[k][1] = rest[j][1] /\ k <= j)
  <2>2. P(i)
    BY <1>6
  <2>3. MinIndex = CHOOSE k \in Candidates : P(k)
    BY DEF MinIndex
  <2> HIDE DEF P
  <2>4. MinIndex \in Candidates /\ P(MinIndex)
    BY <2>1, <2>2, <2>3
  <2>5. QED
    BY <2>4 DEF P
<1>8. ASSUME NEW j \in Candidates
      PROVE  rest[MinIndex][1] <= rest[j][1]
  <2>1. rest[MinIndex][1] \in Nat /\ rest[j][1] \in Nat
    BY <1>2, <1>3, <1>7
  <2>2. rest[MinIndex][1] < rest[j][1] \/ rest[MinIndex][1] = rest[j][1]
    BY <1>7
  <2>3. QED
    BY ONLY <2>1, <2>2
<1>9. QED
  BY <1>3, <1>7, <1>8

\* What depends on the call alone is the same after every step.
LEMMA Frame ==
  ASSUME op' = op, inputs' = inputs
  PROVE  /\ Callable' <=> Callable
         /\ Arity' <=> Arity
         /\ FirstIsEmpty' <=> FirstIsEmpty
         /\ SomeLong' <=> SomeLong
         /\ Unopened' = Unopened
         /\ \A r : Expected(r)' = Expected(r)
BY DEF Callable, Arity, FirstIsEmpty, SomeLong, Unopened, Expected, Dropped, Buffered

\* With every file open the inputs are lists of records.
LEMMA InputFacts ==
  ASSUME TypeOK
  PROVE  /\ Len(inputs) \in Nat /\ DOMAIN inputs = 1 .. Len(inputs)
         /\ \A i \in DOMAIN inputs : inputs[i] # Missing => inputs[i] \in Seq(Record)
         /\ Unopened = {} => inputs \in Seq(Seq(Record))
<1>1. /\ Len(inputs) \in Nat /\ DOMAIN inputs = 1 .. Len(inputs)
      /\ inputs \in [1 .. Len(inputs) -> Lists \cup {Missing}]
  BY LenProperties DEF TypeOK
<1>2. ASSUME NEW i \in DOMAIN inputs, inputs[i] # Missing
      PROVE  inputs[i] \in Seq(Record)
  BY <1>1, <1>2, MergeAssumption
<1>3. ASSUME Unopened = {}
      PROVE  inputs \in Seq(Seq(Record))
  <2>1. \A i \in 1 .. Len(inputs) : inputs[i] \in Seq(Record)
    BY <1>1, <1>2, <1>3 DEF Unopened
  <2>2. inputs \in [1 .. Len(inputs) -> Seq(Record)]
    BY <1>1, <2>1
  <2>3. QED
    BY <1>1, <2>2
<1>4. QED
  BY <1>1, <1>2, <1>3

\* A list without its last element.
LEMMA FrontFacts ==
  ASSUME NEW S, NEW s \in Seq(S), s # <<>>
  PROVE  /\ Len(s) \in Nat \ {0} /\ DOMAIN s = 1 .. Len(s)
         /\ Front(s) \in Seq(S) /\ DOMAIN Front(s) = 1 .. Len(s) - 1
         /\ \A i \in 1 .. Len(s) - 1 : Front(s)[i] = s[i]
<1>1. /\ Len(s) \in Nat \ {0} /\ DOMAIN s = 1 .. Len(s)
      /\ \A i \in 1 .. Len(s) : s[i] \in S
  BY LenProperties, EmptySeq, ElementOfSeq
<1>2. PICK f : f = SubSeq(s, 1, Len(s) - 1)
  OBVIOUS
<1>3. /\ f \in Seq(S) /\ Len(f) = IF 1 <= Len(s) - 1 THEN Len(s) - 1 - 1 + 1 ELSE 0
      /\ \A i \in 1 .. Len(s) - 1 - 1 + 1 : f[i] = s[1 + i - 1]
  <2>1. \A i \in 1 .. Len(s) - 1 : s[i] \in S
    BY <1>1
  <2>2. 1 \in Int /\ Len(s) - 1 \in Int
    BY <1>1
  <2>3. QED
    BY <1>2, <2>1, <2>2, SubSeqProperties
<1>4. /\ Len(s) - 1 - 1 + 1 = Len(s) - 1
      /\ \A i \in 1 .. Len(s) - 1 : 1 + i - 1 = i
  BY <1>1
<1>5. Len(f) = Len(s) - 1
  <2>1. PICK n \in Nat \ {0} : n = Len(s)
    BY <1>1
  <2>2. PICK m : m = Len(f)
    OBVIOUS
  <2>3. m = IF 1 <= n - 1 THEN n - 1 - 1 + 1 ELSE 0
    BY <1>3, <2>1, <2>2
  <2>4. m = n - 1
    BY ONLY <2>1, <2>3
  <2>5. QED
    BY <2>1, <2>2, <2>4
<1>6. DOMAIN f = 1 .. Len(s) - 1
  BY <1>3, <1>5, LenProperties
<1>7. QED
  BY <1>1, <1>2, <1>3, <1>4, <1>6 DEF Front

\* What a reader hands out of a file is the file, or all but an empty record at
\* its end.
LEMMA HandedFacts ==
  ASSUME TypeOK, NEW i \in DOMAIN inputs, inputs[i] # Missing
  PROVE  /\ Handed(inputs[i]) \in Seq(Record)
         /\ Sorted(inputs[i]) => Sorted(Handed(inputs[i]))
         /\ ToSet(Handed(inputs[i])) \subseteq ToSet(inputs[i])
         /\ \A r \in Record : r # 0 => At(r, Handed(inputs[i])) = At(r, inputs[i])
         /\ IF Buffered /\ inputs[i] \in Alone
            THEN /\ At(0, inputs[i]) = At(0, Handed(inputs[i])) \cup {Len(inputs[i])}
                 /\ Len(inputs[i]) \notin At(0, Handed(inputs[i]))
            ELSE Handed(inputs[i]) = inputs[i]
<1>1. PICK s \in Seq(Record) : s = inputs[i]
  BY InputFacts
<1>2. CASE ~(Buffered /\ s \in Alone)
  BY <1>1, <1>2 DEF Handed
<1>3. CASE Buffered /\ s \in Alone
  <2>1. s # <<>> /\ s[Len(s)] = 0
    BY <1>3, MergeAssumption DEF Last
  <2>2. PICK f \in Seq(Record) : f = Front(s)
    BY <2>1, FrontFacts
  <2>3. /\ Len(s) \in Nat \ {0} /\ DOMAIN s = 1 .. Len(s) /\ DOMAIN f = 1 .. Len(s) - 1
        /\ \A k \in 1 .. Len(s) - 1 : f[k] = s[k]
    BY <2>1, <2>2, FrontFacts
  <2>4. /\ \A k \in 1 .. Len(s) - 1 : k \in 1 .. Len(s)
        /\ \A k \in 1 .. Len(s) : k \in 1 .. Len(s) - 1 \/ k = Len(s)
        /\ Len(s) \notin 1 .. Len(s) - 1
        /\ Len(s) \in 1 .. Len(s)
    <3>1. PICK n \in Nat \ {0} : n = Len(s)
      BY <2>3
    <3>2. /\ \A k \in 1 .. n - 1 : k \in 1 .. n
          /\ \A k \in 1 .. n : k \in 1 .. n - 1 \/ k = n
          /\ n \notin 1 .. n - 1 /\ n \in 1 .. n
      BY ONLY <3>1
    <3>3. QED
      BY <3>1, <3>2
  <2>5. Sorted(s) => Sorted(f)
    BY <2>3, <2>4 DEF Sorted
  <2>6. ToSet(f) \subseteq ToSet(s)
    BY <2>3, <2>4 DEF ToSet
  <2>7. \A r \in Record : r # 0 => At(r, f) = At(r, s)
    BY <2>1, <2>3, <2>4 DEF At
  <2>8. At(0, s) = At(0, f) \cup {Len(s)} /\ Len(s) \notin At(0, f)
    BY <2>1, <2>3, <2>4 DEF At
  <2>9. Handed(inputs[i]) = f
    BY <1>1, <1>3, <2>2 DEF Handed
  <2>10. QED
    BY <1>1, <1>3, <2>5, <2>6, <2>7, <2>8, <2>9
<1>4. QED
  BY <1>1, <1>2, <1>3

\* The lists that a merge begins with hold each record as often as is expected.
LEMMA HandedCount ==
  ASSUME TypeOK, Unopened = {}, NEW lists, NEW r \in Record,
         lists = [i \in DOMAIN inputs |-> Handed(inputs[i])]
  PROVE  TimesIn(r, lists) = Expected(r) /\ Expected(r) \in Nat
<1>1. /\ inputs \in Seq(Seq(Record)) /\ DOMAIN inputs = 1 .. Len(inputs)
      /\ Len(inputs) \in Nat
      /\ \A i \in DOMAIN inputs : inputs[i] # Missing
  BY InputFacts DEF Unopened
<1>2. lists \in Seq(Seq(Record))
  <2>1. \A i \in DOMAIN inputs : Handed(inputs[i]) \in Seq(Record)
    BY <1>1, HandedFacts
  <2>2. lists \in [1 .. Len(inputs) -> Seq(Record)]
    BY <1>1, <2>1
  <2>3. QED
    BY <1>1, <2>2
<1>3. /\ IsFiniteSet(Slots(r, lists)) /\ TimesIn(r, lists) \in Nat
      /\ TimesIn(r, inputs) \in Nat
  BY <1>1, <1>2, SlotsFinite
<1>4. CASE r # 0
  <2>1. \A i \in DOMAIN inputs : At(r, Handed(inputs[i])) = At(r, inputs[i])
    BY <1>1, <1>4, HandedFacts
  <2>2. DOMAIN lists = DOMAIN inputs /\ \A i \in DOMAIN lists : At(r, lists[i]) = At(r, inputs[i])
    BY <2>1
  <2>3. Slots(r, lists) = Slots(r, inputs)
    <3>1. ASSUME NEW p \in Slots(r, lists)
          PROVE  p \in Slots(r, inputs)
      BY <2>2, SlotFacts
    <3>2. ASSUME NEW p \in Slots(r, inputs)
          PROVE  p \in Slots(r, lists)
      BY <2>2, SlotFacts
    <3>3. QED
      BY <3>1, <3>2
  <2>4. Expected(r) = TimesIn(r, inputs)
    BY <1>3, <1>4 DEF Expected, Dropped
  <2>5. QED
    BY <1>3, <2>3, <2>4 DEF TimesIn
<1>5. CASE r = 0
  <2> DEFINE D == {i \in DOMAIN inputs : Buffered /\ inputs[i] \in Alone}
             E == {<<i, Len(inputs[i])>> : i \in D}
             f == [i \in D |-> <<i, Len(inputs[i])>>]
             L == Slots(0, lists)
  <2>1. IsFiniteSet(D)
    <3>1. IsFiniteSet(DOMAIN inputs) /\ D \subseteq DOMAIN inputs
      BY <1>1, FS_Interval
    <3>2. QED
      BY <3>1, FS_Subset
  <2>2. IsFiniteSet(E) /\ Cardinality(E) = Cardinality(D)
    <3>1. f \in [D -> E]
      OBVIOUS
    <3>2. /\ \A a, b \in D : f[a] = f[b] => a = b
          /\ \A p \in E : \E i \in D : f[i] = p
      OBVIOUS
    <3> HIDE DEF D, E, f
    <3>3. QED
      BY <2>1, <3>1, <3>2, SameSize
  <2>3. \A i \in DOMAIN inputs :
          /\ i \in D => /\ At(0, inputs[i]) = At(0, lists[i]) \cup {Len(inputs[i])}
                        /\ Len(inputs[i]) \notin At(0, lists[i])
          /\ i \notin D => At(0, inputs[i]) = At(0, lists[i])
    BY <1>1, HandedFacts
  <2>4. DOMAIN lists = DOMAIN inputs
    OBVIOUS
  <2>5. Slots(0, inputs) = L \cup E
    <3>1. ASSUME NEW p \in Slots(0, inputs)
          PROVE  p \in L \cup E
      <4>1. PICK i, j : i \in DOMAIN inputs /\ j \in At(0, inputs[i]) /\ p = <<i, j>>
        BY SlotFacts
      <4>2. j \in At(0, lists[i]) \/ (i \in D /\ j = Len(inputs[i]))
        BY <2>3, <4>1
      <4>3. QED
        BY <2>4, <4>1, <4>2, SlotFacts
    <3>2. ASSUME NEW p \in L
          PROVE  p \in Slots(0, inputs)
      <4>1. PICK i, j : i \in DOMAIN lists /\ j \in At(0, lists[i]) /\ p = <<i, j>>
        BY SlotFacts
      <4>2. i \in DOMAIN inputs /\ j \in At(0, inputs[i])
        BY <2>3, <2>4, <4>1
      <4>3. QED
        BY <4>1, <4>2, SlotFacts
    <3>3. ASSUME NEW p \in E
          PROVE  p \in Slots(0, inputs)
      <4>1. PICK i \in D : p = <<i, Len(inputs[i])>>
        OBVIOUS
      <4>2. i \in DOMAIN inputs /\ Len(inputs[i]) \in At(0, inputs[i])
        BY <2>3
      <4>3. QED
        BY <4>1, <4>2, SlotFacts
    <3>4. QED
      BY <3>1, <3>2, <3>3
  <2>6. L \cap E = {}
    <3>1. ASSUME NEW p \in L, p \in E
          PROVE  FALSE
      <4>1. PICK i \in D : p = <<i, Len(inputs[i])>>
        BY <3>1
      <4>2. PICK k, j : k \in DOMAIN lists /\ j \in At(0, lists[k]) /\ p = <<k, j>>
        BY SlotFacts
      <4>3. k = i /\ j = Len(inputs[i])
        BY <4>1, <4>2
      <4>4. QED
        BY <2>3, <4>2, <4>3
    <3>2. QED
      BY <3>1
  <2>7. IsFiniteSet(L) /\ Cardinality(L) = TimesIn(0, lists)
    BY <1>3, <1>5 DEF TimesIn
  <2>8. Dropped(0) = Cardinality(D)
    BY DEF Dropped
  <2>9. Cardinality(D) \in Nat
    BY <2>1, FS_CardinalityType
  <2> HIDE DEF D, E, f, L
  <2>10. Cardinality(L \cup E) = Cardinality(L) + Cardinality(E) - Cardinality(L \cap E)
    BY <2>2, <2>7, FS_Union
  <2>11. Cardinality(L \cap E) = 0
    BY <2>6, FS_EmptySet
  <2>12. TimesIn(0, inputs) = TimesIn(0, lists) + Dropped(0)
    <3>1. TimesIn(0, inputs) = Cardinality(L \cup E)
      BY <2>5 DEF TimesIn
    <3>2. QED
      BY <1>3, <1>5, <2>2, <2>7, <2>8, <2>9, <2>10, <2>11, <3>1
  <2>13. QED
    BY <1>3, <1>5, <2>8, <2>9, <2>12 DEF Expected
<1>6. QED
  BY <1>4, <1>5

\* Where no reader is used every record is expected.
LEMMA AllExpected ==
  ASSUME TypeOK, Unopened = {}, ~Buffered, NEW r \in Record
  PROVE  Expected(r) = TimesIn(r, inputs) /\ Expected(r) \in Nat
<1>1. TimesIn(r, inputs) \in Nat
  BY InputFacts, SlotsFinite
<1>2. Dropped(r) = 0
  <2>1. {i \in DOMAIN inputs : Buffered /\ inputs[i] \in Alone} = {}
    OBVIOUS
  <2>2. Cardinality({i \in DOMAIN inputs : Buffered /\ inputs[i] \in Alone}) = 0
    BY <2>1, FS_EmptySet
  <2>3. QED
    BY <2>2 DEF Dropped
<1>3. QED
  BY <1>1, <1>2 DEF Expected
-----------------------------------------------------------------------------
(* The beginning of a call *)

LEMMA NothingYet ==
  /\ InOrder(<<>>, <<>>)
  /\ \A lists : (\A i \in DOMAIN lists : Sorted(lists[i])) => InOrder(<<>>, lists)
  /\ <<>> \in Seq(Record) /\ <<>> \in Seq(Seq(Record)) /\ Len(<<>>) = 0
BY DEF InOrder, Sorted

LEMMA InitIInv == Init => IInv
<1> SUFFICES ASSUME Init
             PROVE  IInv
  OBVIOUS
<1>1. /\ op \in Op /\ canWrite \in BOOLEAN /\ Callable /\ Arity
      /\ pc = "call" /\ rest = <<>> /\ running = {} /\ out = <<>>
      /\ inputs \in BoundedSeq(Lists \cup {Missing}, MaxInputs)
  BY DEF Init
<1>2. inputs \in Seq(Lists \cup {Missing}) /\ Len(inputs) <= MaxInputs
  <2>1. PICK k \in 0 .. MaxInputs : inputs \in [1 .. k -> Lists \cup {Missing}]
    BY <1>1 DEF BoundedSeq, SeqOf
  <2>2. k \in Nat /\ k <= MaxInputs
    BY <2>1, MergeAssumption
  <2>3. inputs \in Seq(Lists \cup {Missing}) /\ Len(inputs) = k
    BY <2>1, <2>2
  <2>4. QED
    BY <2>2, <2>3
<1>3. Len(inputs) \in Nat
  BY <1>2, LenProperties
<1>4. TypeOK
  BY <1>1, <1>2, <1>3, NothingYet DEF TypeOK
<1>5. Shape
  BY <1>1 DEF Shape
<1>6. Counted /\ Emptied /\ Ordered /\ ReadersStopped
  BY <1>1, NothingYet DEF Counted, Emptied, Ordered, ReadersStopped
<1>7. QED
  BY <1>4, <1>5, <1>6 DEF IInv, Conserved

\* A call that fails, crashes, hangs or goes astray before it has merged anything.
LEMMA FailKeeps ==
  ASSUME IInv, pc = "call", UNCHANGED <<op, inputs, canWrite>>,
         rest' = rest, out' = out, pc' \in {"false", "crash", "hung", "wild"},
         pc' = "hung" => op \notin {"mergeBlocks", "sortBlock"},
         running' \subseteq DOMAIN inputs,
         pc' = "false" /\ running' # {} =>
           op \in {"mergeHandler", "mergeFiles"} /\ (Unopened # {} \/ ~canWrite)
  PROVE  IInv'
<1>1. TypeOK /\ Shape /\ rest = <<>> /\ out = <<>>
  BY DEF IInv, Conserved, Shape
<1>2. TypeOK'
  BY <1>1 DEF TypeOK
<1>3. Shape'
  BY <1>1, Frame DEF Shape
<1>4. Counted' /\ Emptied'
  BY DEF Counted, Emptied
<1>5. Ordered'
  BY <1>1, NothingYet DEF Ordered
<1>6. ReadersStopped'
  BY Frame DEF ReadersStopped
<1>7. QED
  BY <1>2, <1>3, <1>4, <1>5, <1>6 DEF IInv, Conserved

\* A merge begins with all its files still to come.
LEMMA StartKeeps ==
  ASSUME IInv, pc = "call", UNCHANGED <<op, inputs, canWrite>>, op \in Merges, StartMerge
  PROVE  IInv'
<1>1. /\ TypeOK /\ Callable /\ Arity /\ rest = <<>> /\ out = <<>>
      /\ op # "sortBlock" /\ op # "ssort"
  BY DEF IInv, Conserved, Shape, Merges
<1>2. Unopened = {} /\ \A i \in DOMAIN inputs : inputs[i] # Missing
  BY DEF StartMerge, Unopened
<1>3. inputs \in Seq(Seq(Record)) /\ Len(inputs) \in Nat /\ DOMAIN inputs = 1 .. Len(inputs)
  BY <1>1, <1>2, InputFacts
<1>4. PICK lists : lists = [i \in DOMAIN inputs |-> Handed(inputs[i])]
  OBVIOUS
<1>5. /\ pc' \in {"merge", "hung"} /\ (pc' = "hung" => Buffered)
      /\ rest' = lists /\ out' = out /\ running' \subseteq DOMAIN inputs
  BY <1>4 DEF StartMerge, GoesOn, GoesOnOrSpins
<1>6. \A i \in DOMAIN inputs : /\ lists[i] \in Seq(Record)
                               /\ Sorted(inputs[i]) => Sorted(lists[i])
                               /\ ToSet(lists[i]) \subseteq ToSet(inputs[i])
  BY <1>1, <1>2, <1>4, HandedFacts
<1>7. lists \in Seq(Seq(Record)) /\ Len(lists) = Len(inputs)
  <2>1. PICK n \in Nat : n = Len(inputs) /\ DOMAIN inputs = 1 .. n
    BY <1>3
  <2>2. DOMAIN lists = 1 .. n /\ lists = [i \in 1 .. n |-> lists[i]]
    BY <1>4, <2>1
  <2>3. \A i \in 1 .. n : lists[i] \in Seq(Record)
    BY <1>6, <2>1
  <2>4. lists \in [1 .. n -> Seq(Record)]
    BY <2>2, <2>3
  <2>5. lists \in Seq(Seq(Record)) /\ Len(lists) = n
    BY <2>4
  <2>6. QED
    BY <2>1, <2>5
<1>8. TypeOK'
  BY <1>1, <1>3, <1>5, <1>7 DEF TypeOK
<1>9. Shape'
  <2>1. op \in {"mergeFiles", "mergeBlocks"} => Len(inputs) = 2 /\ DOMAIN inputs = {1, 2}
    <3>1. ASSUME op \in {"mergeFiles", "mergeBlocks"}
          PROVE  Len(inputs) = 2
      BY <1>1, <3>1 DEF Arity
    <3>2. 1 .. 2 = {1, 2}
      OBVIOUS
    <3>3. QED
      BY <1>3, <3>1, <3>2
  <2>2. Callable' /\ Arity' /\ Unopened' = {}
    BY <1>1, <1>2, Frame
  <2>3. pc' = "hung" => op \notin {"mergeBlocks", "sortBlock"}
    BY <1>5 DEF Buffered
  <2>4. op \in {"mergeFiles", "mergeBlocks"} =>
          Len(rest') = 2 /\ \A i \in {1, 2} : ToSet(rest'[i]) \subseteq ToSet(inputs'[i])
    BY <1>5, <1>6, <1>7, <2>1
  <2>5. QED
    BY <1>1, <1>5, <2>2, <2>3, <2>4 DEF Shape
<1>10. Counted'
  <2>1. ASSUME NEW r \in Record
        PROVE  Total(r, out', rest') = Expected(r) /\ Expected(r) \in Nat
    <3>1. Times(r, out') = 0 /\ TimesIn(r, rest') = Expected(r) /\ Expected(r) \in Nat
      BY <1>1, <1>2, <1>4, <1>5, TimesEmpty, HandedCount
    <3>2. QED
      BY <3>1 DEF Total
  <2>2. \A r \in Record : /\ Total(r, out', rest') >= Expected(r)
                          /\ Total(r, out', rest') <= Expected(r)
    BY <2>1
  <2>3. \A r \in Record : Expected(r)' = Expected(r)
    BY Frame
  <2>4. QED
    BY <2>2, <2>3 DEF Counted
<1>11. Ordered'
  <2>1. \A i \in DOMAIN inputs : Sorted(inputs[i])
    BY <1>1, <1>2 DEF Callable
  <2>2. InOrder(<<>>, lists)
    <3>1. DOMAIN lists = DOMAIN inputs
      BY <1>4
    <3>2. \A i \in DOMAIN lists : Sorted(lists[i])
      BY <1>6, <2>1, <3>1
    <3>3. QED
      BY <3>2, NothingYet
  <2>3. QED
    BY <1>1, <1>5, <2>2 DEF Ordered
<1>12. Emptied' /\ ReadersStopped'
  BY <1>5 DEF Emptied, ReadersStopped
<1>13. QED
  BY <1>8, <1>9, <1>10, <1>11, <1>12 DEF IInv, Conserved

\* sortBlock is one step.
LEMMA SortBlockKeeps ==
  ASSUME IInv, pc = "call", UNCHANGED <<op, inputs, canWrite>>, SortBlock
  PROVE  IInv'
<1>1. /\ TypeOK /\ Callable /\ Arity /\ rest = <<>> /\ out = <<>> /\ running = {}
      /\ op = "sortBlock"
  BY DEF IInv, Conserved, Shape, SortBlock
<1>2. CASE Unopened # {} \/ ~canWrite
  <2>1. pc' = "false" /\ running' = {} /\ rest' = rest /\ out' = out
    BY <1>2 DEF SortBlock, Fail
  <2>2. QED
    BY <2>1, FailKeeps
<1>3. CASE Unopened = {} /\ canWrite
  <2>1. /\ out' \in SortingsOf(inputs[1]) /\ pc' = "true"
        /\ rest' = rest /\ running' = running
    BY <1>3 DEF SortBlock
  <2>2. /\ inputs \in Seq(Seq(Record)) /\ Len(inputs) = 1 /\ inputs[1] \in Seq(Record)
    <3>1. inputs \in Seq(Seq(Record)) /\ Len(inputs) = 1
      BY <1>1, <1>3, InputFacts DEF Arity
    <3>2. QED
      BY <3>1, OneElement
  <2>3. out' \in Seq(Record) /\ Sorted(out') /\ \A r : Times(r, out') = Times(r, inputs[1])
    BY <2>1, <2>2, TimesSorted
  <2>4. TypeOK'
    BY <1>1, <2>1, <2>3 DEF TypeOK
  <2>5. Shape'
    BY <1>1, <1>3, <2>1, Frame DEF Shape
  <2>6. Counted'
    <3>1. ASSUME NEW r \in Record
          PROVE  /\ Total(r, out', rest') = TimesIn(r, inputs)
                 /\ TimesIn(r, inputs) \in Nat
      <4>1. TimesIn(r, rest') = 0
        BY <1>1, <2>1, TimesInFew
      <4>2. TimesIn(r, inputs) = Times(r, inputs[1])
        BY <2>2, TimesInFew
      <4>3. Times(r, out') = Times(r, inputs[1]) /\ TimesIn(r, inputs) \in Nat
        BY <2>2, <2>3, SlotsFinite
      <4>4. QED
        BY <4>1, <4>2, <4>3 DEF Total
    <3>2. \A r \in Record : Expected(r)' = Expected(r) /\ Expected(r) = TimesIn(r, inputs)
      BY <1>1, <1>3, Frame, AllExpected DEF Buffered
    <3>3. \A r \in Record : /\ Total(r, out', rest') >= Expected(r)'
                            /\ Total(r, out', rest') <= Expected(r)'
      BY <3>1, <3>2
    <3>4. QED
      BY <3>3 DEF Counted
  <2>7. Emptied' /\ ReadersStopped'
    BY <1>1, <2>1 DEF Emptied, ReadersStopped
  <2>8. Ordered'
    BY <1>1, <2>1, <2>3 DEF Ordered, InOrder
  <2>9. QED
    BY <2>4, <2>5, <2>6, <2>7, <2>8 DEF IInv, Conserved
<1>4. QED
  BY <1>2, <1>3 DEF SortBlock

\* ssort has the blocks in memory, or nothing when there is no file.
LEMMA OpenSsortKeeps ==
  ASSUME IInv, pc = "call", UNCHANGED <<op, inputs, canWrite>>, OpenSsort
  PROVE  IInv'
<1>1. /\ TypeOK /\ Callable /\ Arity /\ rest = <<>> /\ out = <<>> /\ running = {}
      /\ op = "ssort"
  BY DEF IInv, Conserved, Shape, OpenSsort
<1>2. CASE Fail({})
  <2>1. pc' = "false" /\ running' = {} /\ rest' = rest /\ out' = out
    BY <1>2 DEF Fail
  <2>2. QED
    BY <2>1, FailKeeps
<1>3. CASE pc' = "sorting"
  <2>1. PICK got : got = IF Unopened = DOMAIN inputs THEN {} ELSE DOMAIN inputs
    OBVIOUS
  <2>2. /\ running' = got /\ out' = out
        /\ rest' = [i \in got |-> IF i \in Unopened THEN <<>> ELSE inputs[i]]
    BY <1>3, <2>1 DEF OpenSsort, Fail, Return
  <2>3. /\ Len(inputs) \in Nat /\ DOMAIN inputs = 1 .. Len(inputs)
        /\ \A i \in DOMAIN inputs : inputs[i] # Missing => inputs[i] \in Seq(Record)
        /\ Unopened = {} => inputs \in Seq(Seq(Record))
    BY <1>1, InputFacts
  <2>4. \A i \in DOMAIN inputs :
          (IF i \in Unopened THEN <<>> ELSE inputs[i]) \in Seq(Record)
    BY <2>3, NothingYet DEF Unopened
  <2>5. PICK n \in Nat : n <= Len(inputs) /\ got = 1 .. n /\ (n = 0 \/ n = Len(inputs))
    <3>1. got = 1 .. 0 \/ got = 1 .. Len(inputs)
      BY <2>1, <2>3
    <3>2. 0 \in Nat /\ 0 <= Len(inputs) /\ Len(inputs) <= Len(inputs)
      BY <2>3
    <3>3. QED
      BY <2>3, <3>1, <3>2
  <2>6. rest' \in Seq(Seq(Record)) /\ Len(rest') = n
    <3>1. \A i \in 1 .. n : (IF i \in Unopened THEN <<>> ELSE inputs[i]) \in Seq(Record)
      <4>1. n \in Nat /\ Len(inputs) \in Nat /\ n <= Len(inputs)
        BY <2>3, <2>5
      <4>2. \A i \in 1 .. n : i \in 1 .. Len(inputs)
        BY ONLY <4>1
      <4>3. QED
        BY <2>3, <2>4, <4>2
    <3>2. rest' = [i \in 1 .. n |-> IF i \in Unopened THEN <<>> ELSE inputs[i]]
      BY <2>2, <2>5
    <3>3. rest' \in [1 .. n -> Seq(Record)]
      BY <3>1, <3>2
    <3>4. QED
      BY <2>5, <3>3
  <2>7. TypeOK'
    BY <1>1, <1>3, <2>1, <2>2, <2>5, <2>6 DEF TypeOK
  <2>8. Shape'
    <3>1. running' = {} \/ DOMAIN rest' = DOMAIN inputs'
      BY <2>1, <2>2
    <3>2. QED
      BY <1>1, <1>3, <3>1, Frame DEF Shape
  <2>9. Counted'
    <3>1. SUFFICES ASSUME Unopened = {}
                   PROVE  \A r \in Record : /\ Total(r, out', rest') = TimesIn(r, inputs)
                                            /\ TimesIn(r, inputs) \in Nat
      <4>1. ASSUME Unopened = {} =>
                     \A r \in Record : /\ Total(r, out', rest') = TimesIn(r, inputs)
                                       /\ TimesIn(r, inputs) \in Nat
            PROVE  Counted'
        <5>1. Unopened = {} =>
                \A r \in Record : Expected(r)' = Expected(r) /\ Expected(r) = TimesIn(r, inputs)
          BY <1>1, Frame, AllExpected DEF Buffered
        <5>2. Unopened = {} =>
                \A r \in Record : /\ Total(r, out', rest') >= Expected(r)'
                                  /\ Total(r, out', rest') <= Expected(r)'
          BY <4>1, <5>1
        <5>3. QED
          BY <5>2, Frame DEF Counted
      <4>2. QED
        BY <4>1
    <3>2. inputs \in Seq(Seq(Record)) /\ \A r : TimesIn(r, inputs) \in Nat
      BY <2>3, <3>1, SlotsFinite
    <3>3. rest' = inputs
      <4>1. got = DOMAIN inputs
        BY <2>1, <3>1
      <4>2. \A i \in DOMAIN inputs : rest'[i] = inputs[i]
        BY <2>2, <3>1, <4>1
      <4>3. Len(rest') = Len(inputs) /\ rest' \in Seq(Seq(Record))
        <5>1. 1 .. n = 1 .. Len(inputs)
          BY <2>3, <2>5, <4>1
        <5>2. n = Len(inputs)
          <6>1. CASE n = 0
            <7>1. Len(inputs) \notin 1 .. Len(inputs)
              BY <5>1, <6>1
            <7>2. QED
              BY <2>3, <6>1, <7>1
          <6>2. QED
            BY <2>5, <6>1
        <5>3. QED
          BY <2>6, <5>2
      <4>4. QED
        BY <2>3, <3>2, <4>2, <4>3, SeqEqual
    <3>4. \A r : Times(r, out') = 0
      BY <1>1, <2>2, TimesEmpty
    <3>5. QED
      BY <3>2, <3>3, <3>4 DEF Total
  <2>10. Emptied' /\ ReadersStopped' /\ Ordered'
    BY <1>1, <1>3 DEF Emptied, ReadersStopped, Ordered
  <2>11. QED
    BY <2>7, <2>8, <2>9, <2>10 DEF IInv, Conserved
<1>4. CASE Return("crash") \/ Return("hung")
  BY <1>1, <1>4, FailKeeps DEF Return
<1>5. QED
  BY <1>2, <1>3, <1>4 DEF OpenSsort

LEMMA CallKeeps ==
  ASSUME IInv, Call
  PROVE  IInv'
<1>1. /\ pc = "call" /\ UNCHANGED <<op, inputs, canWrite>>
      /\ TypeOK /\ running = {} /\ OpenedFirst \subseteq DOMAIN inputs
  BY DEF Call, IInv, Conserved, Shape, OpenedFirst
<1>2. ASSUME GoAstray \/ Return("crash")
      PROVE  IInv'
  BY <1>1, <1>2, FailKeeps DEF GoAstray, Return
<1>3. ASSUME Fail({})
      PROVE  IInv'
  BY <1>1, <1>3, FailKeeps DEF Fail
<1>4. CASE OpenMultiMerge
  <2>1. CASE StartMerge
    BY <1>1, <1>4, <2>1, StartKeeps DEF OpenMultiMerge, Merges
  <2>2. CASE Hang
    BY <1>1, <1>4, <2>2, FailKeeps DEF Hang, OpenMultiMerge
  <2>3. QED
    BY <1>2, <1>3, <1>4, <2>1, <2>2 DEF OpenMultiMerge, MultiMergeCleanup
<1>5. CASE OpenMergeHandler
  <2>1. CASE StartMerge
    BY <1>1, <1>5, <2>1, StartKeeps DEF OpenMergeHandler, Merges
  <2>2. CASE (Unopened # {} \/ ~canWrite) /\ Fail(OpenedFirst)
    BY <1>1, <1>5, <2>2, FailKeeps DEF Fail, OpenMergeHandler
  <2>3. QED
    BY <1>2, <1>3, <1>5, <2>1, <2>2 DEF OpenMergeHandler
<1>6. CASE OpenTwoWay
  <2>1. CASE StartMerge
    BY <1>1, <1>6, <2>1, StartKeeps DEF OpenTwoWay, Merges
  <2>2. CASE /\ Unopened # {} \/ ~canWrite
             /\ Fail(IF op = "mergeFiles" THEN OpenedFirst ELSE {})
    <3>1. CASE op = "mergeFiles"
      BY <1>1, <2>2, <3>1, FailKeeps DEF Fail
    <3>2. CASE op # "mergeFiles"
      BY <1>1, <2>2, <3>2, FailKeeps DEF Fail
    <3>3. QED
      BY <3>1, <3>2
  <2>3. QED
    BY <1>2, <1>6, <2>1, <2>2 DEF OpenTwoWay
<1>7. CASE SortBlock
  BY <1>1, <1>7, SortBlockKeeps
<1>8. CASE OpenSsort
  BY <1>1, <1>8, OpenSsortKeeps
<1>9. QED
  BY <1>4, <1>5, <1>6, <1>7, <1>8 DEF Call
-----------------------------------------------------------------------------
(* The blocks of ssort *)

\* A step that writes what it takes, or more when that is allowed, keeps count.
LEMMA CountedKeeps ==
  ASSUME op' = op, inputs' = inputs, TypeOK, TypeOK', Counted,
         pc \in {"sorting", "merge", "true"},
         \A r \in Record :
           LET before == Total(r, out, rest)
               after == Total(r, out', rest')
           IN  after >= before /\ (FirstIsEmpty \/ after = before)
  PROVE  Counted'
<1>1. /\ FirstIsEmpty' <=> FirstIsEmpty
      /\ Unopened' = Unopened
      /\ \A r \in Record : Expected(r)' = Expected(r)
  BY Frame
<1>2. ASSUME Unopened = {}, NEW r \in Record
      PROVE  /\ Total(r, out', rest') >= Expected(r)
             /\ FirstIsEmpty \/ Total(r, out', rest') <= Expected(r)
  <2>1. PICK before : before = Total(r, out, rest)
    OBVIOUS
  <2>2. PICK after : after = Total(r, out', rest')
    OBVIOUS
  <2>3. PICK given : given = Expected(r)
    OBVIOUS
  <2>4. before \in Nat
    <3>1. Times(r, out) \in Nat /\ TimesIn(r, rest) \in Nat
      BY AtFacts, SlotsFinite DEF TypeOK
    <3>2. QED
      BY <2>1, <3>1 DEF Total
  <2>5. after \in Nat
    <3>1. out' \in Seq(Record) /\ rest' \in Seq(Seq(Record))
      BY DEF TypeOK
    <3>2. Times(r, out') \in Nat /\ TimesIn(r, rest') \in Nat
      BY <3>1, AtFacts, SlotsFinite
    <3>3. QED
      BY <2>2, <3>2 DEF Total
  <2>6. given \in Nat
    <3>1. PICK lists : lists = [i \in DOMAIN inputs |-> Handed(inputs[i])]
      OBVIOUS
    <3>2. QED
      BY <1>2, <2>3, <3>1, HandedCount
  <2>7. before >= given /\ (FirstIsEmpty \/ before <= given)
    BY <1>2, <2>1, <2>3 DEF Counted
  <2>8. after >= before /\ (FirstIsEmpty \/ after = before)
    BY <2>1, <2>2
  <2>9. after >= given
    BY ONLY <2>4, <2>5, <2>6, <2>7, <2>8
  <2>10. CASE FirstIsEmpty
    BY <2>2, <2>3, <2>9, <2>10
  <2>11. CASE ~FirstIsEmpty
    <3>1. before <= given /\ after = before
      BY <2>7, <2>8, <2>11
    <3>2. QED
      BY <2>2, <2>3, <2>9, <3>1
  <2>12. QED
    BY <2>10, <2>11
<1>3. QED
  BY <1>1, <1>2 DEF Counted

LEMMA BlockSortKeeps ==
  ASSUME IInv, BlockSort
  PROVE  IInv'
<1>1. /\ TypeOK /\ Shape /\ Counted /\ UNCHANGED <<op, inputs, canWrite, pc, out>>
      /\ pc = "sorting" /\ op = "ssort"
  BY DEF IInv, Conserved, BlockSort, Shape
<1>2. PICK i \in running : /\ \E t \in SortingsOf(rest[i]) : rest' = [rest EXCEPT ![i] = t]
                           /\ running' = running \ {i}
  BY DEF BlockSort
<1>3. PICK t \in SortingsOf(rest[i]) : rest' = [rest EXCEPT ![i] = t]
  BY <1>2
<1>4. rest \in Seq(Seq(Record)) /\ DOMAIN rest = DOMAIN inputs /\ i \in DOMAIN rest
      /\ Len(rest) <= Len(inputs)
  BY <1>1, <1>2 DEF Shape, TypeOK
<1>5. rest[i] \in Seq(Record)
  BY <1>4, ElementOfSeq, LenProperties
<1>6. t \in Seq(Record) /\ \A r : Times(r, t) = Times(r, rest[i])
  BY <1>5, TimesSorted
<1>7. PICK new : new = rest'
  OBVIOUS
<1>8. new \in Seq(Seq(Record)) /\ Differ(rest, new, i) /\ new[i] = t
  BY <1>3, <1>4, <1>6, <1>7, SetList
<1>9. DOMAIN new = DOMAIN rest /\ Len(new) = Len(rest)
  <2>1. DOMAIN new = DOMAIN rest
    BY <1>8 DEF Differ
  <2>2. Len(new) \in Nat /\ Len(rest) \in Nat /\ 1 .. Len(new) = 1 .. Len(rest)
    BY <1>4, <1>8, <2>1, LenProperties
  <2>3. Len(new) = Len(rest)
    <3>1. CASE Len(new) < Len(rest)
      BY <2>2, <3>1
    <3>2. CASE Len(rest) < Len(new)
      BY <2>2, <3>2
    <3>3. QED
      BY <2>2, <3>1, <3>2
  <2>4. QED
    BY <2>1, <2>3
<1>10. TypeOK'
  BY <1>1, <1>2, <1>4, <1>7, <1>8, <1>9 DEF TypeOK
<1>11. Shape'
  BY <1>1, <1>4, <1>7, <1>9, Frame DEF Shape
<1>12. Counted'
  <2>1. ASSUME NEW r \in Record
        PROVE  /\ Total(r, out', rest') = Total(r, out, rest)
               /\ Total(r, out, rest) \in Nat
    <3>1. TimesIn(r, new) + Times(r, rest[i]) = TimesIn(r, rest) + Times(r, new[i])
      BY <1>4, <1>8, TimesReplace
    <3>2. Times(r, new[i]) = Times(r, rest[i])
      BY <1>6, <1>8
    <3>3. Times(r, rest[i]) \in Nat
      BY <1>5, AtFacts
    <3>4. TimesIn(r, new) \in Nat /\ TimesIn(r, rest) \in Nat
      BY <1>4, <1>8, SlotsFinite
    <3>5. TimesIn(r, new) = TimesIn(r, rest)
      BY ONLY <3>1, <3>2, <3>3, <3>4
    <3>6. Times(r, out) \in Nat
      BY <1>1, AtFacts DEF TypeOK
    <3>7. QED
      BY <1>1, <1>7, <3>4, <3>5, <3>6 DEF Total
  <2>2. \A r \in Record :
          /\ Total(r, out', rest') >= Total(r, out, rest)
          /\ Total(r, out', rest') = Total(r, out, rest)
    BY <2>1
  <2>3. QED
    BY <1>1, <1>10, <2>2, CountedKeeps
<1>13. Emptied' /\ Ordered' /\ ReadersStopped'
  BY <1>1 DEF Emptied, Ordered, ReadersStopped
<1>14. QED
  BY <1>10, <1>11, <1>12, <1>13 DEF IInv, Conserved

LEMMA JoinBlocksKeeps ==
  ASSUME IInv, JoinBlocks
  PROVE  IInv'
<1>1. /\ TypeOK /\ Shape /\ Counted
      /\ UNCHANGED <<op, inputs, canWrite, rest, running, out>>
      /\ pc = "sorting" /\ op = "ssort" /\ running = {} /\ pc' \in {"merge", "false"}
  BY DEF IInv, Conserved, JoinBlocks, Shape
<1>2. TypeOK'
  BY <1>1 DEF TypeOK
<1>3. Shape'
  BY <1>1, Frame DEF Shape
<1>4. Counted'
  BY <1>1, Frame DEF Counted
<1>5. Emptied' /\ Ordered' /\ ReadersStopped'
  BY <1>1 DEF Emptied, Ordered, ReadersStopped
<1>6. QED
  BY <1>2, <1>3, <1>4, <1>5 DEF IInv, Conserved
-----------------------------------------------------------------------------
(* The merges *)

\* An iteration that takes a record goes on, or hangs at the end of an input.
Iterates ==
  /\ UNCHANGED <<op, inputs, canWrite, running>>
  /\ pc' \in {"merge", "hung"} /\ (pc' = "hung" => Buffered)

\* What it leaves as it was.
LEMMA IteratesFacts ==
  ASSUME Iterates, IInv, pc = "merge"
  PROVE  /\ UNCHANGED <<op, inputs, canWrite, running>> /\ pc' \in {"merge", "hung"}
         /\ pc' = "hung" => op \notin {"mergeBlocks", "sortBlock"}
         /\ op # "sortBlock" /\ (Unopened = {} \/ op = "ssort")
         /\ Callable' /\ Arity' /\ Unopened' = Unopened
<1>1. Shape /\ op' = op /\ inputs' = inputs
  BY DEF IInv, Conserved, Iterates
<1>2. Callable' /\ Arity' /\ Unopened' = Unopened
  BY <1>1, Frame DEF Shape
<1>3. QED
  BY <1>1, <1>2 DEF Iterates, Buffered, Shape

\* A merge over any number of inputs takes the head of list m.
LEMMA TakeOneOfMany ==
  ASSUME IInv, pc = "merge", op \in {"multiMerge", "mergeHandler", "ssort"},
         Iterates,
         NEW m \in DOMAIN rest, rest[m] # <<>>,
         op # "ssort" => \A j \in DOMAIN rest : rest[m][1] <= rest[j][1],
         out' = Append(out, rest[m][1]), rest' = Advanced(m)
  PROVE  IInv'
<1>1. /\ TypeOK /\ Shape /\ Counted
      /\ rest \in Seq(Seq(Record)) /\ out \in Seq(Record) /\ Len(rest) <= Len(inputs)
  BY DEF IInv, Conserved, TypeOK
<1>0. /\ UNCHANGED <<op, inputs, canWrite, running>> /\ pc' \in {"merge", "hung"}
      /\ pc' = "hung" => op \notin {"mergeBlocks", "sortBlock"}
      /\ op # "sortBlock" /\ (Unopened = {} \/ op = "ssort")
      /\ Callable' /\ Arity' /\ Unopened' = Unopened
  BY IteratesFacts
<1>2. PICK s \in Seq(Record) : s = rest[m]
  BY <1>1, ElementOfSeq, LenProperties
<1>3. PICK t \in Seq(Record) : t = Tail(s)
  BY <1>2, TailFacts
<1>4. PICK new : new = [rest EXCEPT ![m] = t]
  OBVIOUS
<1>5. new \in Seq(Seq(Record)) /\ Differ(rest, new, m) /\ Took(rest, new, m)
  BY <1>1, <1>2, <1>3, <1>4, SetList DEF Took
<1>6. /\ Len(rest) \in Nat /\ DOMAIN rest = 1 .. Len(rest)
      /\ Len(inputs) \in Nat /\ MaxInputs \in Nat /\ Len(inputs) <= MaxInputs
  BY <1>1, LenProperties, MergeAssumption DEF TypeOK
<1>7. rest' = IF Len(s) = 1 THEN RemoveAt(rest, m) ELSE new
  BY <1>2, <1>3, <1>4 DEF Advanced
<1>8. CASE Len(s) = 1
  <2>1. PICK less : less = RemoveAt(rest, m)
    OBVIOUS
  <2>2. /\ less \in Seq(Seq(Record)) /\ Len(less) = Len(rest) - 1
        /\ DOMAIN less = 1 .. Len(rest) - 1
        /\ \A i \in 1 .. Len(rest) - 1 : /\ i < m => less[i] = rest[i]
                                         /\ i >= m => less[i] = rest[i + 1]
    BY <1>1, <2>1, RemoveFacts
  <2>3. rest' = less
    BY <1>7, <1>8, <2>1
  <2>4. Len(less) <= Len(inputs)
    BY <1>1, <1>6, <2>2
  <2>5. \A r : /\ Append(out, rest[m][1]) \in Seq(Record)
               /\ Total(r, Append(out, rest[m][1]), less) = Total(r, out, rest)
    BY <1>1, <1>2, <1>8, <2>1, TakeLastTotal
  <2>6. ASSUME op # "ssort"
        PROVE  InOrder(out', less)
    <3>1. InOrder(out, rest)
      BY <2>6 DEF IInv, Ordered
    <3>2. InOrder(Append(out, rest[m][1]), new)
      BY <1>1, <1>5, <2>6, <3>1, TakeInOrder
    <3>3. ASSUME NEW i \in DOMAIN less
          PROVE  \E j \in DOMAIN new : less[i] = new[j]
      <4>1. DOMAIN new = 1 .. Len(rest) /\ \A j \in 1 .. Len(rest) : j # m => new[j] = rest[j]
        BY <1>5, <1>6 DEF Differ
      <4>2. CASE i < m
        <5>1. i \in 1 .. Len(rest) /\ i # m
          BY <1>6, <2>2, <4>2
        <5>2. QED
          BY <2>2, <4>1, <4>2, <5>1
      <4>3. CASE i >= m
        <5>1. i + 1 \in 1 .. Len(rest) /\ i + 1 # m
          BY <1>6, <2>2, <4>3
        <5>2. QED
          BY <2>2, <4>1, <4>3, <5>1
      <4>4. i < m \/ i >= m
        BY <1>6, <2>2
      <4>5. QED
        BY <4>2, <4>3, <4>4
    <3>4. QED
      BY <3>2, <3>3, FewerInOrder
  <2>7. QED
    <3>1. TypeOK'
      BY <1>0, <1>1, <2>2, <2>3, <2>4, <2>5 DEF TypeOK
    <3>2. Shape'
      BY <1>0, <1>1 DEF Shape
    <3>3. Counted'
      <4>1. \A r \in Record : Total(r, out, rest) \in Nat
        <5>1. \A r \in Record : Times(r, out) \in Nat /\ TimesIn(r, rest) \in Nat
          BY <1>1, AtFacts, SlotsFinite
        <5>2. QED
          BY <5>1 DEF Total
      <4>2. \A r \in Record :
              /\ Total(r, out', rest') >= Total(r, out, rest)
              /\ Total(r, out', rest') = Total(r, out, rest)
        BY <2>3, <2>5, <4>1
      <4>3. QED
        BY <1>0, <1>1, <3>1, <4>2, CountedKeeps
    <3>4. Emptied' /\ Ordered' /\ ReadersStopped'
      BY <1>0, <2>3, <2>6 DEF Emptied, Ordered, ReadersStopped
    <3>5. QED
      BY <3>1, <3>2, <3>3, <3>4 DEF IInv, Conserved
<1>9. CASE Len(s) # 1
  <2>1. rest' = new
    BY <1>7, <1>9
  <2>2. Len(new) = Len(rest)
    BY <1>4
  <2>3. \A r : /\ Append(out, rest[m][1]) \in Seq(Record)
               /\ Total(r, Append(out, rest[m][1]), new) = Total(r, out, rest)
    <3>1. ASSUME NEW r
          PROVE  /\ Append(out, rest[m][1]) \in Seq(Record)
                 /\ Total(r, Append(out, rest[m][1]), new) = Total(r, out, rest)
      BY <1>1, <1>5, TakeTotal
    <3>2. QED
      BY <3>1
  <2>4. ASSUME op # "ssort"
        PROVE  InOrder(out', new)
    <3>1. InOrder(out, rest)
      BY <2>4 DEF IInv, Ordered
    <3>2. QED
      BY <1>1, <1>5, <2>4, <3>1, TakeInOrder
  <2>5. QED
    <3>1. TypeOK'
      BY <1>0, <1>1, <1>5, <2>1, <2>2, <2>3 DEF TypeOK
    <3>2. Shape'
      BY <1>0, <1>1 DEF Shape
    <3>3. Counted'
      <4>1. \A r \in Record : Total(r, out, rest) \in Nat
        <5>1. \A r \in Record : Times(r, out) \in Nat /\ TimesIn(r, rest) \in Nat
          BY <1>1, AtFacts, SlotsFinite
        <5>2. QED
          BY <5>1 DEF Total
      <4>2. \A r \in Record :
              /\ Total(r, out', rest') >= Total(r, out, rest)
              /\ Total(r, out', rest') = Total(r, out, rest)
        BY <2>1, <2>3, <4>1
      <4>3. QED
        BY <1>0, <1>1, <3>1, <4>2, CountedKeeps
    <3>4. Emptied' /\ Ordered' /\ ReadersStopped'
      BY <1>0, <2>1, <2>4 DEF Emptied, Ordered, ReadersStopped
    <3>5. QED
      BY <3>1, <3>2, <3>3, <3>4 DEF IInv, Conserved
<1>10. QED
  BY <1>8, <1>9

\* A merge that has nothing more to take, or asks a block that has no record.
LEMMA StopKeeps ==
  ASSUME IInv, pc = "merge", op # "sortBlock",
         UNCHANGED <<op, inputs, canWrite, rest, out>>, pc' \in {"true", "wild", "hung"},
         pc' = "hung" => op # "mergeBlocks",
         pc' = "true" => running' = {} /\ (SomeLong \/ \A i \in DOMAIN rest : rest[i] = <<>>),
         running' \subseteq running
  PROVE  IInv'
<1>1. TypeOK /\ Shape /\ Counted /\ Ordered
  BY DEF IInv, Conserved
<1>2. TypeOK'
  BY <1>1 DEF TypeOK
<1>3. Shape'
  BY <1>1, Frame DEF Shape
<1>4. Counted'
  BY <1>1, Frame DEF Counted
<1>5. Emptied'
  BY Frame DEF Emptied
<1>6. Ordered' /\ ReadersStopped'
  BY <1>1 DEF Ordered, ReadersStopped
<1>7. QED
  BY <1>2, <1>3, <1>4, <1>5, <1>6 DEF IInv, Conserved

LEMMA MergeManyKeeps ==
  ASSUME IInv, MergeMany
  PROVE  IInv'
<1>1. /\ pc = "merge" /\ op \in {"multiMerge", "mergeHandler", "ssort"}
      /\ UNCHANGED <<op, inputs, canWrite>> /\ rest \in Seq(Seq(Record))
  BY DEF MergeMany, IInv, Conserved, TypeOK
<1>2. CASE /\ rest # <<>> /\ \A i \in DOMAIN rest : rest[i] # <<>>
           /\ out' = Append(out, rest[MinIndex][1])
           /\ rest' = Advanced(MinIndex)
           /\ GoesOnOrSpins(Len(rest[MinIndex]) = 1)
           /\ UNCHANGED running
  <2>1. /\ MinIndex \in DOMAIN rest
        /\ \A j \in Candidates : rest[MinIndex][1] <= rest[j][1]
    BY <1>1, <1>2, MinFacts
  <2>2. op # "ssort" => Candidates = DOMAIN rest
    BY DEF Candidates
  <2>3. Iterates
    BY <1>1, <1>2 DEF Iterates, GoesOn, GoesOnOrSpins
  <2>4. QED
    BY <1>1, <1>2, <2>1, <2>2, <2>3, TakeOneOfMany
<1>3. CASE Return("wild")
  BY <1>1, <1>3, StopKeeps DEF Return
<1>4. CASE rest = <<>> /\ Finish
  BY <1>1, <1>4, StopKeeps DEF Finish
<1>5. QED
  BY <1>2, <1>3, <1>4 DEF MergeMany
-----------------------------------------------------------------------------
(* The two-way merges *)

LEMMA TwoLists ==
  ASSUME NEW S, NEW lists \in Seq(Seq(S)), Len(lists) = 2
  PROVE  DOMAIN lists = {1, 2} /\ \A i \in {1, 2} : lists[i] \in Seq(S)
<1>1. DOMAIN lists = 1 .. 2
  BY LenProperties
<1>2. 1 .. 2 = {1, 2}
  OBVIOUS
<1>3. \A i \in 1 .. 2 : lists[i] \in Seq(S)
  BY ElementOfSeq
<1>4. QED
  BY <1>1, <1>2, <1>3

\* Nothing is added to either of two lists.
Within(new, lists) == \A i \in {1, 2} : ToSet(new[i]) \subseteq ToSet(lists[i])

\* What taking the head of one of two lists does.
TookOne(lists, new, m) == lists[m] # <<>> /\ new = Without(lists, {m})

LEMMA TakeFacts ==
  ASSUME NEW S, NEW lists \in Seq(Seq(S)), Len(lists) = 2, NEW m \in {1, 2},
         NEW new, TookOne(lists, new, m)
  PROVE  /\ new \in Seq(Seq(S)) /\ Len(new) = 2 /\ DOMAIN new = {1, 2} /\ m \in DOMAIN lists
         /\ Took(lists, new, m)
         /\ Within(new, lists)
<1>0. lists[m] # <<>> /\ new = Without(lists, {m})
  BY DEF TookOne
<1>1. DOMAIN lists = {1, 2} /\ \A i \in {1, 2} : lists[i] \in Seq(S)
  BY TwoLists
<1>2. PICK t \in Seq(S) : t = Tail(lists[m]) /\ ToSet(t) \subseteq ToSet(lists[m])
  BY <1>0, <1>1, TailFacts, TailSubset
<1>3. /\ DOMAIN new = {1, 2} /\ new[m] = t
      /\ \A i \in {1, 2} : i # m => new[i] = lists[i]
  BY <1>0, <1>1, <1>2 DEF Without
<1>4. \A i \in {1, 2} : new[i] \in Seq(S) /\ ToSet(new[i]) \subseteq ToSet(lists[i])
  <2>1. ASSUME NEW i \in {1, 2}
        PROVE  new[i] \in Seq(S) /\ ToSet(new[i]) \subseteq ToSet(lists[i])
    <3>1. CASE i = m
      BY <1>2, <1>3, <3>1
    <3>2. CASE i # m
      BY <1>1, <1>3, <3>2
    <3>3. QED
      BY <3>1, <3>2
  <2>2. QED
    BY <2>1
<1>5. new \in Seq(Seq(S)) /\ Len(new) = 2
  <2>1. new \in [1 .. 2 -> Seq(S)]
    <3>1. 1 .. 2 = {1, 2} /\ 2 \in Nat
      OBVIOUS
    <3>2. new = [i \in {1, 2} |-> new[i]]
      BY <1>0, <1>1 DEF Without
    <3>3. QED
      BY <1>4, <3>1, <3>2
  <2>2. PICK n \in Nat : n = 2
    OBVIOUS
  <2>3. new \in [1 .. n -> Seq(S)]
    BY <2>1, <2>2
  <2>4. new \in Seq(Seq(S)) /\ Len(new) = n
    BY <2>3
  <2>5. QED
    BY <2>2, <2>4
<1>6. Took(lists, new, m)
  BY <1>0, <1>1, <1>2, <1>3 DEF Took, Differ
<1>7. QED
  BY <1>1, <1>3, <1>4, <1>5, <1>6 DEF Within

\* What a two-way merge has between two iterations.
LEMMA TwoFacts ==
  ASSUME IInv, pc = "merge", op \in {"mergeFiles", "mergeBlocks"}
  PROVE  /\ TypeOK /\ Shape /\ Counted /\ Len(inputs) = 2 /\ Unopened = {}
         /\ rest \in Seq(Seq(Record)) /\ out \in Seq(Record)
         /\ Len(rest) = 2 /\ DOMAIN rest = {1, 2} /\ Within(rest, inputs)
         /\ \A i \in {1, 2} : /\ rest[i] \in Seq(Record)
                              /\ rest[i] # <<>> => /\ rest[i][1] \in Record
                                                   /\ rest[i][1] \in Nat
                                                   /\ rest[i][1] \in ToSet(inputs[i])
         /\ op = "mergeFiles" => InOrder(out, rest)
<1>1. /\ TypeOK /\ Shape /\ Counted /\ Ordered /\ Len(inputs) = 2 /\ Unopened = {}
      /\ Len(rest) = 2 /\ Within(rest, inputs)
  BY DEF IInv, Conserved, Shape, Arity, Within
<1>2. rest \in Seq(Seq(Record)) /\ out \in Seq(Record)
  BY <1>1 DEF TypeOK
<1>3. DOMAIN rest = {1, 2} /\ \A i \in {1, 2} : rest[i] \in Seq(Record)
  BY <1>1, <1>2, TwoLists
<1>4. ASSUME NEW i \in {1, 2}, rest[i] # <<>>
      PROVE  rest[i][1] \in Record /\ rest[i][1] \in Nat /\ rest[i][1] \in ToSet(inputs[i])
  <2>1. PICK s \in Seq(Record) : s = rest[i]
    BY <1>3
  <2>2. s[1] \in Record /\ s[1] \in ToSet(s)
    BY <1>4, <2>1, TailFacts, TailSubset
  <2>3. ToSet(s) \subseteq ToSet(inputs[i])
    BY <1>1, <2>1 DEF Within
  <2>4. QED
    BY <2>1, <2>2, <2>3, MergeAssumption
<1>5. op = "mergeFiles" => InOrder(out, rest)
  BY <1>1 DEF Ordered
<1>6. QED
  BY <1>1, <1>2, <1>3, <1>4, <1>5

\* An iteration that leaves two lists of what was there.
LEMMA TwoKeeps ==
  ASSUME IInv, pc = "merge", op \in {"mergeFiles", "mergeBlocks"},
         Iterates,
         rest' \in Seq(Seq(Record)), Len(rest') = 2,
         Within(rest', rest),
         out' \in Seq(Record),
         \A r \in Record :
           /\ Total(r, out', rest') >= Total(r, out, rest)
           /\ FirstIsEmpty \/ Total(r, out', rest') = Total(r, out, rest),
         op = "mergeFiles" => InOrder(out', rest')
  PROVE  IInv'
<1>1. /\ TypeOK /\ Shape /\ Counted /\ Len(inputs) = 2
      /\ Within(rest, inputs)
  BY TwoFacts
<1>0. /\ UNCHANGED <<op, inputs, canWrite, running>> /\ pc' \in {"merge", "hung"}
      /\ pc' = "hung" => op \notin {"mergeBlocks", "sortBlock"}
      /\ op # "sortBlock" /\ (Unopened = {} \/ op = "ssort")
      /\ Callable' /\ Arity' /\ Unopened' = Unopened
  BY IteratesFacts
<1>2. TypeOK'
  BY <1>0, <1>1 DEF TypeOK
<1>3. Shape'
  <2>1. \A i \in {1, 2} : ToSet(rest'[i]) \subseteq ToSet(inputs'[i])
    BY <1>0, <1>1 DEF Within
  <2>2. QED
    BY <1>0, <1>1, <2>1 DEF Shape
<1>4. Counted'
  BY <1>0, <1>1, <1>2, CountedKeeps
<1>5. Emptied' /\ Ordered' /\ ReadersStopped'
  BY <1>0 DEF Emptied, Ordered, ReadersStopped
<1>6. QED
  BY <1>2, <1>3, <1>4, <1>5 DEF IInv, Conserved

\* The two-way merges take one head, and write it or, before it, a record that
\* stays where it is when the first file holds an empty one.
LEMMA OneTaken ==
  ASSUME IInv, pc = "merge", op \in {"mergeFiles", "mergeBlocks"},
         Iterates,
         NEW m \in {1, 2}, rest[m] # <<>>,
         rest' = Without(rest, {m}),
         \/ out' = Append(out, rest[m][1])
         \/ /\ FirstIsEmpty /\ op = "mergeBlocks"
            /\ \E e \in Record : out' = Append(Append(out, e), rest[m][1]),
         op = "mergeFiles" =>
           \A i \in DOMAIN rest : rest[i] # <<>> => rest[m][1] <= rest[i][1]
  PROVE  IInv'
<1>1. /\ rest \in Seq(Seq(Record)) /\ out \in Seq(Record) /\ Len(rest) = 2
      /\ op = "mergeFiles" => InOrder(out, rest)
  BY TwoFacts
<1>2. PICK new : new = rest' /\ TookOne(rest, new, m)
  BY DEF TookOne
<1>3. /\ new \in Seq(Seq(Record)) /\ Len(new) = 2 /\ m \in DOMAIN rest
      /\ Took(rest, new, m)
      /\ Within(new, rest)
  BY <1>1, <1>2, TakeFacts
<1>4. \A r \in Record : Total(r, out, rest) \in Nat
  <2>1. \A r \in Record : Times(r, out) \in Nat /\ TimesIn(r, rest) \in Nat
    BY <1>1, AtFacts, SlotsFinite
  <2>2. QED
    BY <2>1 DEF Total
<1>5. CASE out' = Append(out, rest[m][1])
  <2>1. ASSUME NEW r \in Record
        PROVE  out' \in Seq(Record) /\ Total(r, out', new) = Total(r, out, rest)
    <3>0. /\ rest \in Seq(Seq(Record)) /\ out \in Seq(Record) /\ new \in Seq(Seq(Record))
          /\ m \in DOMAIN rest /\ Took(rest, new, m)
      BY <1>1, <1>3
    <3>1. /\ Append(out, rest[m][1]) \in Seq(Record)
          /\ Total(r, Append(out, rest[m][1]), new) = Total(r, out, rest)
      BY ONLY <3>0, TakeTotal
    <3>2. QED
      BY <1>5, <3>1
  <2>2. rest[m][1] \in Record
    BY <1>3, TwoFacts
  <2>3. op = "mergeFiles" => InOrder(out', new)
    <3>1. ASSUME op = "mergeFiles"
          PROVE  InOrder(Append(out, rest[m][1]), new)
      BY <1>1, <1>3, <3>1, TakeInOrder
    <3>2. QED
      BY <1>5, <3>1
  <2>4. \A r \in Record : /\ Total(r, out', rest') >= Total(r, out, rest)
                          /\ Total(r, out', rest') = Total(r, out, rest)
    <3>1. \A r \in Record : Total(r, out', rest') = Total(r, out, rest)
      BY <1>2, <2>1
    <3>2. QED
      BY ONLY <1>4, <3>1
  <2>5. out' \in Seq(Record)
    BY <2>1, <2>2
  <2>6. QED
    BY <1>2, <1>3, <2>3, <2>4, <2>5, TwoKeeps
<1>6. CASE FirstIsEmpty /\ op = "mergeBlocks" /\ out' # Append(out, rest[m][1])
  <2>1. PICK e \in Record : out' = Append(Append(out, e), rest[m][1])
    BY <1>6
  <2>2. PICK more \in Seq(Record) : more = Append(out, e)
    BY <1>1, AppendFacts
  <2>3. rest[m][1] \in Record
    BY <1>3, TwoFacts
  <2>4. out' \in Seq(Record)
    BY <2>1, <2>2, <2>3, AppendFacts
  <2>5. ASSUME NEW r \in Record
        PROVE  Total(r, out', rest') >= Total(r, out, rest)
    <3>0. /\ rest \in Seq(Seq(Record)) /\ more \in Seq(Record) /\ new \in Seq(Seq(Record))
          /\ m \in DOMAIN rest /\ Took(rest, new, m)
      BY <1>1, <1>3, <2>2
    <3>1. Total(r, Append(more, rest[m][1]), new) = Total(r, more, rest)
      BY ONLY <3>0, TakeTotal
    <3>2. Total(r, out', rest') = Total(r, more, rest)
      BY <1>2, <2>1, <2>2, <3>1
    <3>3. Times(r, more) = Times(r, out) + (IF e = r THEN 1 ELSE 0)
      BY <1>1, <2>2, TimesAppend
    <3>4. Times(r, out) \in Nat /\ TimesIn(r, rest) \in Nat
      BY <1>1, AtFacts, SlotsFinite
    <3>5. Times(r, more) + TimesIn(r, rest) >= Times(r, out) + TimesIn(r, rest)
      BY ONLY <3>3, <3>4
    <3>6. QED
      BY <3>2, <3>5 DEF Total
  <2>6. QED
    BY <1>2, <1>3, <1>6, <2>4, <2>5, TwoKeeps
<1>7. QED
  BY <1>5, <1>6

\* Two heads that are equal are written one after the other.
LEMMA BothTaken ==
  ASSUME IInv, pc = "merge", op \in {"mergeFiles", "mergeBlocks"},
         Iterates,
         rest[1] # <<>>, rest[2] # <<>>, rest[1][1] = rest[2][1],
         Take({1, 2}, <<rest[1][1], rest[2][1]>>)
  PROVE  IInv'
<1>1. /\ rest \in Seq(Seq(Record)) /\ out \in Seq(Record) /\ Len(rest) = 2
      /\ DOMAIN rest = {1, 2}
      /\ rest[1][1] \in Record /\ rest[1][1] \in Nat
      /\ op = "mergeFiles" => InOrder(out, rest)
  BY TwoFacts
<1>2. PICK x \in Record : x = rest[1][1] /\ x = rest[2][1] /\ x \in Nat
  BY <1>1
<1>3. PICK mid : mid = Without(rest, {1}) /\ TookOne(rest, mid, 1)
  BY DEF TookOne
<1>4. PICK new : new = Without(mid, {2})
  OBVIOUS
<1>5. /\ mid \in Seq(Seq(Record)) /\ Len(mid) = 2 /\ DOMAIN mid = {1, 2}
      /\ Took(rest, mid, 1) /\ 1 \in DOMAIN rest
      /\ Within(mid, rest)
  BY <1>1, <1>3, TakeFacts
<1>6. mid[2] = rest[2] /\ mid[2] # <<>> /\ mid[1] = Tail(rest[1])
  BY <1>1, <1>3 DEF Without
<1>7. /\ new \in Seq(Seq(Record)) /\ Len(new) = 2 /\ DOMAIN new = {1, 2}
      /\ Took(mid, new, 2) /\ 2 \in DOMAIN mid
      /\ Within(new, mid)
  <2>1. TookOne(mid, new, 2)
    BY <1>4, <1>6 DEF TookOne
  <2>2. QED
    BY <1>5, <2>1, TakeFacts
<1>8. rest' = new
  <2>1. new = [i \in {1, 2} |-> Tail(rest[i])]
    <3>1. new[1] = Tail(rest[1]) /\ new[2] = Tail(rest[2])
      BY <1>4, <1>5, <1>6 DEF Without
    <3>2. new = [i \in {1, 2} |-> new[i]]
      BY <1>4, <1>5 DEF Without
    <3>3. QED
      BY <3>1, <3>2
  <2>2. rest' = [i \in {1, 2} |-> Tail(rest[i])]
    BY <1>1 DEF Take, Without
  <2>3. QED
    BY <2>1, <2>2
<1>9. PICK o \in Seq(Record) : o = Append(out, x)
  BY <1>1, AppendFacts
<1>10. out' = Append(o, x)
  <2>1. out' = out \o <<x, x>>
    BY <1>2 DEF Take
  <2>2. QED
    BY <1>1, <1>9, <2>1, OutFacts
<1>11. out' \in Seq(Record)
  BY <1>9, <1>10, AppendFacts
<1>12. ASSUME NEW r \in Record
       PROVE  Total(r, out', rest') = Total(r, out, rest) /\ Total(r, out, rest) \in Nat
  <2>1. Total(r, Append(out, rest[1][1]), mid) = Total(r, out, rest)
    BY <1>1, <1>5, TakeTotal
  <2>2. Total(r, Append(o, mid[2][1]), new) = Total(r, o, mid)
    BY <1>5, <1>7, TakeTotal
  <2>3. Times(r, out) \in Nat /\ TimesIn(r, rest) \in Nat
    BY <1>1, AtFacts, SlotsFinite
  <2>4. Total(r, out, rest) \in Nat
    BY <2>3 DEF Total
  <2>5. Append(out, rest[1][1]) = o /\ Append(o, mid[2][1]) = out'
    BY <1>2, <1>6, <1>9, <1>10
  <2>6. QED
    BY <1>8, <2>1, <2>2, <2>4, <2>5
<1>13. ASSUME op = "mergeFiles"
       PROVE  InOrder(out', rest')
  <2>1. \A i \in DOMAIN rest : rest[i] # <<>> => rest[1][1] <= rest[i][1]
    <3>1. rest[1][1] <= rest[1][1] /\ rest[1][1] <= rest[2][1]
      BY <1>2
    <3>2. QED
      BY <1>1, <3>1
  <2>2. InOrder(Append(out, rest[1][1]), mid)
    BY <1>1, <1>5, <1>13, <2>1, TakeInOrder
  <2>3. InOrder(o, mid)
    BY <1>2, <1>9, <2>2
  <2>4. o # <<>> /\ Last(o) = x
    <3>1. Len(o) = Len(out) + 1 /\ o[Len(out) + 1] = x /\ Len(out) \in Nat
      BY <1>1, <1>9, AppendProperties, LenProperties
    <3>2. Len(o) # 0
      BY <3>1
    <3>3. QED
      BY <1>9, <3>1, <3>2, EmptySeq DEF Last
  <2>5. \A i \in DOMAIN mid : mid[i] # <<>> => mid[2][1] <= mid[i][1]
    <3>1. ASSUME NEW i \in DOMAIN mid, mid[i] # <<>>
          PROVE  x <= mid[i][1]
      <4>1. mid[i] \in Seq(Record)
        BY <1>5, ElementOfSeq, LenProperties
      <4>2. mid[i][1] \in ToSet(mid[i])
        BY <3>1, <4>1, TailSubset
      <4>3. QED
        BY <2>3, <2>4, <4>2 DEF InOrder
    <3>2. QED
      BY <1>2, <1>6, <3>1
  <2>6. InOrder(Append(o, mid[2][1]), new)
    BY <1>5, <1>7, <2>3, <2>5, TakeInOrder
  <2>7. QED
    BY <1>2, <1>6, <1>8, <1>10, <2>6
<1>14. QED
  <2>1. Within(rest', rest)
    BY <1>5, <1>7, <1>8 DEF Within
  <2>2. rest' \in Seq(Seq(Record)) /\ Len(rest') = 2
    BY <1>7, <1>8
  <2>3. \A r \in Record : /\ Total(r, out', rest') >= Total(r, out, rest)
                          /\ Total(r, out', rest') = Total(r, out, rest)
    BY <1>12
  <2>4. QED
    BY <1>11, <1>13, <2>1, <2>2, <2>3, TwoKeeps

\* Unless the first file holds an empty record nothing is written twice.
LEMMA ExtraFacts ==
  ASSUME IInv, pc = "merge", op \in {"mergeFiles", "mergeBlocks"},
         rest[1] # <<>>, rest[2] # <<>>
  PROVE  \/ Extra = <<>>
         \/ /\ FirstIsEmpty /\ op = "mergeBlocks"
            /\ rest[2][1] \in Record /\ Extra = <<rest[2][1]>>
<1>1. rest[2][1] \in Record /\ rest[1][1] \in ToSet(inputs[1])
  BY TwoFacts
<1>2. CASE op = "mergeBlocks" /\ rest[1][1] = 0 /\ rest[2][1] # 0
  BY <1>1, <1>2 DEF Extra, FirstIsEmpty
<1>3. CASE ~(op = "mergeBlocks" /\ rest[1][1] = 0 /\ rest[2][1] # 0)
  BY <1>3 DEF Extra
<1>4. QED
  BY <1>2, <1>3

\* So the smaller head is written, and at most one record before it.
LEMMA SmallerTaken ==
  ASSUME IInv, pc = "merge", op \in {"mergeFiles", "mergeBlocks"},
         Iterates,
         rest[1] # <<>>, rest[2] # <<>>,
         NEW m \in {1, 2}, rest[m][1] < rest[3 - m][1],
         Take({m}, Append(Extra, rest[m][1]))
  PROVE  IInv'
<1>1. /\ rest \in Seq(Seq(Record)) /\ out \in Seq(Record) /\ DOMAIN rest = {1, 2}
      /\ \A i \in {1, 2} : rest[i][1] \in Record /\ rest[i][1] \in Nat
  BY TwoFacts
<1>2. rest[m] # <<>>
  OBVIOUS
<1>3. PICK x \in Record : x = rest[m][1]
  BY <1>1
<1>4. /\ rest' = Without(rest, {m})
      /\ out' = out \o Append(Extra, x)
  BY <1>3 DEF Take
<1>5. \/ out' = Append(out, x)
      \/ /\ FirstIsEmpty /\ op = "mergeBlocks"
         /\ \E e \in Record : out' = Append(Append(out, e), x)
  <2>1. CASE Extra = <<>>
    <3>1. Append(<<>>, x) = <<x>> /\ out \o <<x>> = Append(out, x)
      BY <1>1, OutFacts
    <3>2. QED
      BY <1>4, <2>1, <3>1
  <2>2. CASE /\ FirstIsEmpty /\ op = "mergeBlocks"
             /\ rest[2][1] \in Record /\ Extra = <<rest[2][1]>>
    <3>1. PICK e \in Record : e = rest[2][1] /\ Extra = <<e>>
      BY <2>2
    <3>2. Append(<<e>>, x) = <<e, x>> /\ out \o <<e, x>> = Append(Append(out, e), x)
      BY <1>1, OutFacts
    <3>3. QED
      BY <1>4, <2>2, <3>1, <3>2
  <2>3. QED
    BY <2>1, <2>2, ExtraFacts
<1>6. \A i \in DOMAIN rest : rest[i] # <<>> => rest[m][1] <= rest[i][1]
  <2>1. ASSUME NEW i \in {1, 2}
        PROVE  rest[m][1] <= rest[i][1]
    <3>1. i = m \/ i = 3 - m
      OBVIOUS
    <3>2. rest[m][1] \in Nat /\ rest[i][1] \in Nat
      BY <1>1
    <3>3. rest[i][1] = rest[m][1] \/ rest[m][1] < rest[i][1]
      BY <3>1
    <3>4. QED
      BY ONLY <3>2, <3>3
  <2>2. QED
    BY <1>1, <2>1
<1>7. QED
  BY <1>2, <1>3, <1>4, <1>5, <1>6, OneTaken
LEMMA MergeTwoKeeps ==
  ASSUME IInv, MergeTwo
  PROVE  IInv'
<1>1. /\ pc = "merge" /\ op \in {"mergeFiles", "mergeBlocks"}
      /\ UNCHANGED <<op, inputs, canWrite>>
  BY DEF MergeTwo
<1>2. /\ rest \in Seq(Seq(Record)) /\ out \in Seq(Record) /\ DOMAIN rest = {1, 2}
      /\ \A i \in {1, 2} : rest[i] # <<>> => /\ rest[i][1] \in Record /\ rest[i][1] \in Nat
                                             /\ rest[i][1] \in ToSet(inputs[i])
  BY <1>1, TwoFacts
<1>0. \A ins, recs : Take(ins, recs) /\ UNCHANGED running => Iterates
  BY <1>1 DEF Take, Iterates, GoesOn, GoesOnOrSpins
<1>3. CASE Has(1) /\ Has(2) /\ Compare /\ UNCHANGED running
  <2>1. rest[1] # <<>> /\ rest[2] # <<>>
    BY <1>3 DEF Has
  <2>2. 3 - 1 = 2 /\ 3 - 2 = 1 /\ 1 \in {1, 2} /\ 2 \in {1, 2}
    OBVIOUS
  <2>3. CASE rest[1][1] < rest[2][1] /\ Take({1}, Append(Extra, rest[1][1]))
    BY <1>0, <1>1, <1>3, <2>1, <2>2, <2>3, SmallerTaken
  <2>4. CASE rest[1][1] > rest[2][1] /\ Take({2}, Append(Extra, rest[2][1]))
    <3>1. rest[2][1] < rest[3 - 2][1]
      BY <1>2, <2>1, <2>2, <2>4
    <3>2. QED
      BY <1>0, <1>1, <1>3, <2>1, <2>2, <2>4, <3>1, SmallerTaken
  <2>5. CASE rest[1][1] = rest[2][1] /\ Take({1, 2}, <<rest[1][1], rest[2][1]>>)
    BY <1>0, <1>1, <1>3, <2>1, <2>5, BothTaken
  <2>6. QED
    BY <1>3, <2>3, <2>4, <2>5 DEF Compare
<1>4. CASE \E i \in {1, 2} : /\ Has(i) /\ ~Has(3 - i)
                             /\ Take({i}, <<rest[i][1]>>) /\ UNCHANGED running
  <2>1. PICK i \in {1, 2} : /\ Has(i) /\ ~Has(3 - i)
                            /\ Take({i}, <<rest[i][1]>>) /\ UNCHANGED running
    BY <1>4
  <2>2. rest[i] # <<>> /\ (op = "mergeFiles" => rest[3 - i] = <<>>)
    BY <2>1 DEF Has
  <2>3. PICK x \in Record : x = rest[i][1] /\ x \in Nat
    BY <1>2, <2>2
  <2>4. out' = Append(out, rest[i][1]) /\ rest' = Without(rest, {i})
    <3>1. out' = out \o <<x>> /\ rest' = Without(rest, {i})
      BY <2>1, <2>3 DEF Take
    <3>2. out \o <<x>> = Append(out, x)
      BY <1>2, OutFacts
    <3>3. QED
      BY <2>3, <3>1, <3>2
  <2>5. op = "mergeFiles" =>
          \A j \in DOMAIN rest : rest[j] # <<>> => rest[i][1] <= rest[j][1]
    <3>1. ASSUME op = "mergeFiles", NEW j \in {1, 2}, rest[j] # <<>>
          PROVE  rest[i][1] <= rest[j][1]
      <4>1. j = i \/ j = 3 - i
        OBVIOUS
      <4>2. j = i
        BY <2>2, <3>1, <4>1
      <4>3. QED
        BY <2>3, <4>2
    <3>2. QED
      BY <1>2, <3>1
  <2>6. QED
    BY <1>0, <1>1, <2>1, <2>2, <2>4, <2>5, OneTaken
<1>5. CASE ~Has(1) /\ ~Has(2) /\ Finish
  <2>1. SomeLong \/ \A i \in DOMAIN rest : rest[i] = <<>>
    <3>1. ASSUME NEW i \in {1, 2}, rest[i] # <<>>
          PROVE  SomeLong
      <4>1. op = "mergeBlocks" /\ rest[i][1] \in Long
        BY <1>5, <3>1 DEF Has
      <4>2. rest[i][1] \in ToSet(inputs[i])
        BY <1>2, <3>1
      <4>3. QED
        BY <4>1, <4>2 DEF SomeLong
    <3>2. QED
      BY <1>2, <3>1
  <2>2. QED
    BY <1>1, <1>5, <2>1, StopKeeps DEF Finish
<1>6. QED
  BY <1>3, <1>4, <1>5 DEF MergeTwo
-----------------------------------------------------------------------------
(* The theorems *)

LEMMA StepKeeps == IInv /\ [Next]_vars => IInv'
<1> SUFFICES ASSUME IInv, [Next]_vars
             PROVE  IInv'
  OBVIOUS
<1>1. CASE Call
  BY <1>1, CallKeeps
<1>2. CASE BlockSort
  BY <1>2, BlockSortKeeps
<1>3. CASE JoinBlocks
  BY <1>3, JoinBlocksKeeps
<1>4. CASE MergeMany
  BY <1>4, MergeManyKeeps
<1>5. CASE MergeTwo
  BY <1>5, MergeTwoKeeps
<1>6. CASE UNCHANGED vars
  <2>1. TypeOK'
    BY <1>6 DEF vars, IInv, Conserved, TypeOK
  <2>2. Shape'
    BY <1>6, Frame DEF vars, IInv, Conserved, Shape
  <2>3. Counted'
    BY <1>6, Frame DEF vars, IInv, Conserved, Counted
  <2>4. Emptied'
    BY <1>6, Frame DEF vars, IInv, Conserved, Emptied
  <2>5. Ordered' /\ ReadersStopped'
    BY <1>6, Frame DEF vars, IInv, Ordered, ReadersStopped
  <2>6. QED
    BY <2>1, <2>2, <2>3, <2>4, <2>5 DEF IInv, Conserved
<1>7. QED
  BY <1>1, <1>2, <1>3, <1>4, <1>5, <1>6 DEF Next

\* The safety properties of the merges hold together in every reachable state.
THEOREM Invariance == Spec => []IInv
<1>1. Init => IInv
  BY InitIInv
<1>2. IInv /\ [Next]_vars => IInv'
  BY StepKeeps
<1>3. QED
  BY <1>1, <1>2, PTL DEF Spec

\* No sort or merge loses or repeats a record, but for three cases: at every
\* moment of a call that has not hung each record of the inputs has been written
\* or is still to come, once, and a call that ends well has written all.  The
\* cases are those of the property: an empty record that is alone in a reader's
\* block (bufferedReader.cpp throws it away), the records of its second file that
\* mergeBlocks repeats, and those it loses behind one that is too long.
THEOREM EachRecordOnce == Spec => []Conserved
<1>1. IInv => Conserved
  BY DEF IInv
<1>2. QED
  BY Invariance, <1>1, PTL

\* What multiMerge, the merge task, mergeFiles and sortBlock have written is
\* sorted at every moment, and nothing smaller is still to come.
THEOREM WrittenInOrder == Spec => []Ordered
<1>1. IInv => Ordered
  BY DEF IInv
<1>2. QED
  BY Invariance, <1>1, PTL

\* A call that returns leaves reader threads behind only when it is a merge
\* task or mergeFiles and one of its files could not be opened.
THEOREM ThreadsLeft == Spec => []ReadersStopped
<1>1. IInv => ReadersStopped
  BY DEF IInv
<1>2. QED
  BY Invariance, <1>1, PTL
=============================================================================
