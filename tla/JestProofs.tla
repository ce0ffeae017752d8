----------------------------- MODULE JestProofs -----------------------------
(***************************************************************************)
(* Proofs about Jest.  The order of texts is total, so the keys of a map   *)
(* can be put in order; a text that is read in two parts gives the entries *)
(* of the first part and, for the other keys, those of the second; hence   *)
(* what the lines that save() writes give, whatever lies behind them.      *)
(***************************************************************************)
EXTENDS Jest, DataLemmas

Chars == Letters \cup Blanks
Keys == Seq(Letters \ {"="})

-----------------------------------------------------------------------------
(***************************************************************************)
(* The order.                                                              *)
(***************************************************************************)

\* A character has a place in the alphabet, and no other has it.
LEMMA CodeFacts ==
    ASSUME NEW c \in Letters
    PROVE  Code(c) \in Nat /\ Alphabet[Code(c)] = c
<1>1. \E i \in DOMAIN Alphabet : Alphabet[i] = c
  BY DEF Letters, ToSet
<1>2. DOMAIN Alphabet \subseteq Nat
  BY JestAssumption
<1>3. QED
  BY <1>1, <1>2 DEF Code

\* k is before l because of the first n + 1 characters.
DiffersAt(k, l, n) ==
    /\ n \in Nat /\ n < Len(l) /\ n <= Len(k) /\ \A i \in 1 .. n : k[i] = l[i]
    /\ n < Len(k) => Code(k[n + 1]) < Code(l[n + 1])

\* Of two keys in order, the place where they first differ.
LEMMA BeforeDiffers ==
    ASSUME NEW k \in Keys, NEW l \in Keys
    PROVE  Before(k, l) <=> \E n \in Nat : DiffersAt(k, l, n)
<1>1. Len(l) \in Nat
  BY DEF Keys
<1>2. \A n : n \in 0 .. Len(l) - 1 <=> n \in Nat /\ n < Len(l)
  BY <1>1
<1>3. ASSUME Before(k, l) PROVE \E n \in Nat : DiffersAt(k, l, n)
  <2>1. PICK n \in 0 .. Len(l) - 1 :
            /\ n <= Len(k) /\ \A i \in 1 .. n : k[i] = l[i]
            /\ n < Len(k) => Code(k[n + 1]) < Code(l[n + 1])
    BY <1>3, Zenon DEF Before
  <2>2. QED
    BY <1>2, <2>1, Zenon DEF DiffersAt
<1>4. ASSUME NEW n \in Nat, DiffersAt(k, l, n) PROVE Before(k, l)
  BY <1>2, <1>4, Zenon DEF Before, DiffersAt
<1>5. QED
  BY <1>3, <1>4

\* The codes of the characters of a key.
LEMMA KeyCodes ==
    ASSUME NEW k \in Keys
    PROVE  Len(k) \in Nat /\ \A i \in 1 .. Len(k) : k[i] \in Letters /\ Code(k[i]) \in Nat
<1>1. Len(k) \in Nat /\ \A i \in 1 .. Len(k) : k[i] \in Letters
  BY DEF Keys
<1>2. QED
  BY <1>1, CodeFacts

\* The order is asymmetric.
LEMMA NotBothBefore ==
    ASSUME NEW k \in Keys, NEW l \in Keys, Before(k, l)
    PROVE  ~Before(l, k)
<1>1. SUFFICES ASSUME Before(l, k) PROVE FALSE
  OBVIOUS
<1>2. PICK n \in Nat : DiffersAt(k, l, n)
  BY BeforeDiffers
<1>3. PICK m \in Nat : DiffersAt(l, k, m)
  BY <1>1, BeforeDiffers
<1>4. /\ Len(k) \in Nat /\ \A i \in 1 .. Len(k) : Code(k[i]) \in Nat
      /\ Len(l) \in Nat /\ \A i \in 1 .. Len(l) : Code(l[i]) \in Nat
  BY KeyCodes
<1>5. CASE n < m
  <2>1. n + 1 \in 1 .. m /\ n + 1 \in 1 .. Len(k)
    BY <1>3, <1>4, <1>5 DEF DiffersAt
  <2>2. k[n + 1] = l[n + 1] /\ Code(k[n + 1]) \in Nat /\ n < Len(k)
    BY <1>3, <1>4, <2>1 DEF DiffersAt
  <2>3. QED
    BY <1>2, <2>2 DEF DiffersAt
<1>6. CASE m < n
  <2>1. m + 1 \in 1 .. n /\ m + 1 \in 1 .. Len(l)
    BY <1>2, <1>4, <1>6 DEF DiffersAt
  <2>2. k[m + 1] = l[m + 1] /\ Code(l[m + 1]) \in Nat /\ m < Len(l)
    BY <1>2, <1>4, <2>1 DEF DiffersAt
  <2>3. QED
    BY <1>3, <2>2 DEF DiffersAt
<1>7. CASE n = m
  <2>1. n < Len(k) /\ n < Len(l) /\ n + 1 \in 1 .. Len(k) /\ n + 1 \in 1 .. Len(l)
    BY <1>2, <1>3, <1>4, <1>7 DEF DiffersAt
  <2>2. Code(k[n + 1]) < Code(l[n + 1]) /\ Code(l[n + 1]) < Code(k[n + 1])
    BY <1>2, <1>3, <1>7, <2>1 DEF DiffersAt
  <2>3. QED
    BY <1>4, <2>1, <2>2
<1>8. QED
  BY <1>5, <1>6, <1>7

\* The order is transitive: the smaller of the two places of difference decides.
LEMMA BeforeTransitive ==
    ASSUME NEW k \in Keys, NEW l \in Keys, NEW h \in Keys, Before(k, l), Before(l, h)
    PROVE  Before(k, h)
<1>1. PICK n \in Nat : DiffersAt(k, l, n)
  BY BeforeDiffers
<1>2. PICK m \in Nat : DiffersAt(l, h, m)
  BY BeforeDiffers
<1>3. /\ Len(k) \in Nat /\ \A i \in 1 .. Len(k) : Code(k[i]) \in Nat
      /\ Len(l) \in Nat /\ \A i \in 1 .. Len(l) : Code(l[i]) \in Nat
      /\ Len(h) \in Nat /\ \A i \in 1 .. Len(h) : Code(h[i]) \in Nat
  BY KeyCodes
<1>4. CASE n < m
  <2>1. n + 1 \in 1 .. m /\ \A i \in 1 .. n : i \in 1 .. m
    BY <1>4
  <2>2. l[n + 1] = h[n + 1] /\ \A i \in 1 .. n : k[i] = h[i]
    BY <1>1, <1>2, <2>1 DEF DiffersAt
  <2>3. DiffersAt(k, h, n)
    BY <1>1, <1>2, <1>3, <1>4, <2>2 DEF DiffersAt
  <2>4. QED
    BY <2>3, BeforeDiffers
<1>5. CASE m < n
  <2>1. m + 1 \in 1 .. n /\ \A i \in 1 .. m : i \in 1 .. n
    BY <1>5
  <2>2. k[m + 1] = l[m + 1] /\ \A i \in 1 .. m : k[i] = h[i]
    BY <1>1, <1>2, <2>1 DEF DiffersAt
  <2>3. m < Len(h) /\ m <= Len(k) /\ m < Len(l)
    BY <1>1, <1>2, <1>3, <1>5 DEF DiffersAt
  <2>4. DiffersAt(k, h, m)
    BY <1>2, <2>2, <2>3 DEF DiffersAt
  <2>5. QED
    BY <2>4, BeforeDiffers
<1>6. CASE n = m
  <2>1. n < Len(h) /\ n <= Len(k) /\ n < Len(l) /\ \A i \in 1 .. n : k[i] = h[i]
    BY <1>1, <1>2, <1>6 DEF DiffersAt
  <2>2. ASSUME n < Len(k) PROVE Code(k[n + 1]) < Code(h[n + 1])
    <3>1. n + 1 \in 1 .. Len(k) /\ n + 1 \in 1 .. Len(l) /\ n + 1 \in 1 .. Len(h)
      BY <1>3, <2>1, <2>2
    <3>2. Code(k[n + 1]) < Code(l[n + 1]) /\ Code(l[n + 1]) < Code(h[n + 1])
      BY <1>1, <1>2, <1>6, <2>1, <2>2 DEF DiffersAt
    <3>3. QED
      BY <1>3, <3>1, <3>2
  <2>3. DiffersAt(k, h, n)
    BY <2>1, <2>2 DEF DiffersAt
  <2>4. QED
    BY <2>3, BeforeDiffers
<1>7. QED
  BY <1>4, <1>5, <1>6

\* Of two different keys one comes first.
LEMMA BeforeTotal ==
    ASSUME NEW k \in Keys, NEW l \in Keys, k # l
    PROVE  Before(k, l) \/ Before(l, k)
<1> DEFINE N == {n \in Nat : ~(n + 1 <= Len(k) /\ n + 1 <= Len(l) /\ k[n + 1] = l[n + 1])}
<1>1. Len(k) \in Nat /\ Len(l) \in Nat
  BY KeyCodes
<1>2. Len(k) \in N
  BY <1>1
<1>3. PICK n \in N : \A m \in N : n <= m
  BY <1>2, Least
<1>4. \A i \in 1 .. n : i <= Len(k) /\ i <= Len(l) /\ k[i] = l[i]
  <2>1. SUFFICES ASSUME NEW i \in 1 .. n PROVE i <= Len(k) /\ i <= Len(l) /\ k[i] = l[i]
    OBVIOUS
  <2>2. i - 1 \in Nat /\ ~(n <= i - 1) /\ (i - 1) + 1 = i
    OBVIOUS
  <2>3. i - 1 \notin N
    BY <1>3, <2>2
  <2>4. QED
    BY <2>2, <2>3
<1>5. n \in Nat /\ n <= Len(k) /\ n <= Len(l)
  <2>1. CASE n = 0
    BY <1>1, <2>1
  <2>2. CASE n # 0
    <3>1. n \in 1 .. n
      BY <2>2
    <3>2. QED
      BY <1>4, <3>1
  <2>3. QED
    BY <2>1, <2>2
<1>6. CASE n = Len(k) /\ n = Len(l)
  <2>1. k \in Seq(Letters) /\ l \in Seq(Letters) /\ \A i \in 1 .. Len(k) : k[i] = l[i]
    BY <1>4, <1>6 DEF Keys
  <2>2. QED
    BY <1>6, <2>1, SeqEqual
<1>7. CASE n = Len(k) /\ n < Len(l)
  <2>1. DiffersAt(k, l, n)
    BY <1>1, <1>4, <1>5, <1>7 DEF DiffersAt
  <2>2. QED
    BY <1>5, <2>1, BeforeDiffers
<1>8. CASE n < Len(k) /\ n = Len(l)
  <2>1. DiffersAt(l, k, n)
    BY <1>1, <1>4, <1>5, <1>8 DEF DiffersAt
  <2>2. QED
    BY <1>5, <2>1, BeforeDiffers
<1>9. CASE n < Len(k) /\ n < Len(l)
  <2>1. n + 1 \in 1 .. Len(k) /\ n + 1 \in 1 .. Len(l)
    BY <1>1, <1>5, <1>9
  <2>2. k[n + 1] # l[n + 1]
    BY <1>1, <1>3, <1>5, <2>1
  <2>3. k[n + 1] \in Letters /\ l[n + 1] \in Letters
    BY <2>1, KeyCodes
  <2>4. /\ Code(k[n + 1]) \in Nat /\ Code(l[n + 1]) \in Nat
        /\ Code(k[n + 1]) # Code(l[n + 1])
    BY <2>2, <2>3, CodeFacts
  <2>5. DiffersAt(k, l, n) \/ DiffersAt(l, k, n)
    BY <1>1, <1>4, <1>5, <1>9, <2>4 DEF DiffersAt
  <2>6. QED
    BY <1>5, <2>5, BeforeDiffers
<1>10. QED
  BY <1>1, <1>5, <1>6, <1>7, <1>8, <1>9

\* A finite set of keys that is not empty has a last one.
LEMMA LastKey ==
    ASSUME NEW K \in SUBSET Keys, IsFiniteSet(K), K # {}
    PROVE  \E x \in K : \A y \in K : y # x => Before(y, x)
<1> DEFINE HasLast(D) == \E x \in D : \A y \in D : y # x => Before(y, x)
           N == {n \in Nat : \A D \in SUBSET Keys :
                    IsFiniteSet(D) /\ Cardinality(D) = n /\ D # {} => HasLast(D)}
<1>1. 0 \in N
  BY FS_EmptySet
<1>2. ASSUME NEW n \in Nat, n \in N PROVE n + 1 \in N
  <2>1. SUFFICES ASSUME NEW D \in SUBSET Keys, IsFiniteSet(D), Cardinality(D) = n + 1, D # {}
                 PROVE  HasLast(D)
    OBVIOUS
  <2>2. PICK d \in D : TRUE
    BY <2>1
  <2> DEFINE C == D \ {d}
  <2>3. IsFiniteSet(C) /\ Cardinality(C) = n /\ C \in SUBSET Keys
    <3>1. IsFiniteSet(D \ {d}) /\ Cardinality(D \ {d}) = Cardinality(D) - 1
      BY <2>1, FS_RemoveElement, Zenon
    <3>2. QED
      BY <2>1, <3>1
  <2>4. CASE C = {}
    BY <2>4
  <2>5. CASE C # {}
    <3>1. PICK c \in C : \A y \in C : y # c => Before(y, c)
      BY <1>2, <2>3, <2>5
    <3>2. c \in Keys /\ d \in Keys /\ c # d /\ c \in D
      OBVIOUS
    <3>3. CASE Before(d, c)
      BY <3>1, <3>2, <3>3
    <3>4. CASE Before(c, d)
      <4>1. ASSUME NEW y \in D, y # d PROVE Before(y, d)
        <5>1. y \in Keys /\ (y = c \/ Before(y, c))
          BY <3>1, <4>1
        <5>2. QED
          BY <3>2, <3>4, <5>1, BeforeTransitive
      <4>2. QED
        BY <4>1
    <3>5. QED
      BY <3>2, <3>3, <3>4, BeforeTotal
  <2>6. QED
    BY <2>4, <2>5
<1>3. \A n \in Nat : n \in N
  <2> HIDE DEF N
  <2>1. QED
    BY <1>1, <1>2, SetInduction
<1>4. Cardinality(K) \in Nat
  BY FS_CardinalityType
<1>5. QED
  BY <1>3, <1>4

\* s has the keys of K in their order.
Sorted(s, K, n) == s \in [1 .. n -> K] /\ \A i, j \in 1 .. n : i < j => Before(s[i], s[j])

\* The keys of a finite set can be put in order.
LEMMA SortedExists ==
    ASSUME NEW K \in SUBSET Keys, IsFiniteSet(K)
    PROVE  \E s : Sorted(s, K, Cardinality(K))
<1> DEFINE N == {n \in Nat : \A D \in SUBSET Keys :
                    IsFiniteSet(D) /\ Cardinality(D) = n => \E s : Sorted(s, D, n)}
<1>1. 0 \in N
  <2>1. SUFFICES ASSUME NEW D \in SUBSET Keys PROVE \E s : Sorted(s, D, 0)
    OBVIOUS
  <2>2. 1 .. 0 = {}
    OBVIOUS
  <2>3. Sorted([i \in 1 .. 0 |-> {}], D, 0)
    BY <2>2 DEF Sorted
  <2>4. QED
    BY <2>3
<1>2. ASSUME NEW n \in Nat, n \in N PROVE n + 1 \in N
  <2>1. SUFFICES ASSUME NEW D \in SUBSET Keys, IsFiniteSet(D), Cardinality(D) = n + 1
                 PROVE  \E s : Sorted(s, D, n + 1)
    OBVIOUS
  <2>2. D # {}
    BY <2>1, FS_EmptySet
  <2>3. PICK d \in D : \A y \in D : y # d => Before(y, d)
    BY <2>1, <2>2, LastKey
  <2> DEFINE C == D \ {d}
  <2>4. IsFiniteSet(C) /\ Cardinality(C) = n /\ C \in SUBSET Keys
    <3>1. IsFiniteSet(D \ {d}) /\ Cardinality(D \ {d}) = Cardinality(D) - 1
      BY <2>1, FS_RemoveElement, Zenon
    <3>2. QED
      BY <2>1, <3>1
  <2>5. PICK s : Sorted(s, C, n)
    BY <1>2, <2>4
  <2> DEFINE t == [i \in 1 .. n + 1 |-> IF i = n + 1 THEN d ELSE s[i]]
  <2>6. \A i \in 1 .. n : i \in 1 .. n + 1 /\ i # n + 1 /\ t[i] = s[i] /\ s[i] \in D /\ s[i] # d
    BY <2>5 DEF Sorted
  <2>7. t[n + 1] = d /\ \A i \in 1 .. n + 1 : i = n + 1 \/ i \in 1 .. n
    OBVIOUS
  <2> HIDE DEF t
  <2>8. t \in [1 .. n + 1 -> D]
    BY <2>6, <2>7 DEF t
  <2>9. ASSUME NEW i \in 1 .. n + 1, NEW j \in 1 .. n + 1, i < j PROVE Before(t[i], t[j])
    <3>1. i \in 1 .. n
      BY <2>9
    <3>2. CASE j = n + 1
      BY <2>3, <2>6, <2>7, <3>1, <3>2
    <3>3. CASE j \in 1 .. n
      BY <2>5, <2>6, <2>9, <3>1, <3>3 DEF Sorted
    <3>4. QED
      BY <2>7, <3>2, <3>3
  <2>10. QED
    BY <2>8, <2>9 DEF Sorted
<1>3. \A n \in Nat : n \in N
  <2> HIDE DEF N
  <2>1. QED
    BY <1>1, <1>2, SetInduction
<1>4. Cardinality(K) \in Nat
  BY FS_CardinalityType
<1>5. QED
  BY <1>3, <1>4

\* InOrder gives every key once, each before those behind it.
LEMMA InOrderFacts ==
    ASSUME NEW K \in SUBSET Keys, IsFiniteSet(K)
    PROVE  /\ InOrder(K) \in Seq(K) /\ Len(InOrder(K)) = Cardinality(K)
           /\ \A i, j \in 1 .. Cardinality(K) : i < j => Before(InOrder(K)[i], InOrder(K)[j])
           /\ \A i, j \in 1 .. Cardinality(K) : InOrder(K)[i] = InOrder(K)[j] => i = j
           /\ \A k \in K : \E i \in 1 .. Cardinality(K) : InOrder(K)[i] = k
<1> DEFINE n == Cardinality(K)
           s == InOrder(K)
<1>1. n \in Nat
  BY FS_CardinalityType
<1>2. \E t \in [1 .. n -> K] : \A i, j \in DOMAIN t : i < j => Before(t[i], t[j])
  <2>1. PICK t : Sorted(t, K, n)
    BY SortedExists
  <2>2. QED
    BY <2>1 DEF Sorted
<1>3. s \in [1 .. n -> K] /\ \A i, j \in DOMAIN s : i < j => Before(s[i], s[j])
  BY <1>2 DEF InOrder
<1> HIDE DEF n, s
<1>4. \A i, j \in 1 .. n : i < j => Before(s[i], s[j])
  BY <1>3
<1>5. ASSUME NEW i \in 1 .. n, NEW j \in 1 .. n, s[i] = s[j] PROVE i = j
  <2>1. s[i] \in Keys
    BY <1>3
  <2>2. ~Before(s[i], s[i])
    BY <2>1, NotBothBefore
  <2>3. ~(i < j) /\ ~(j < i)
    BY <1>4, <1>5, <2>2
  <2>4. QED
    BY <1>1, <2>3
<1>6. s \in Injection(1 .. n, K)
  BY <1>3, <1>5 DEF Injection, IsInjective
<1>7. IsFiniteSet(1 .. n) /\ Cardinality(1 .. n) = n
  BY <1>1, FS_Interval
<1>8. s \in Surjection(1 .. n, K)
  BY <1>6, <1>7, FS_Injection DEF n
<1>9. \A k \in K : \E i \in 1 .. n : s[i] = k
  BY <1>8 DEF Surjection
<1>10. s \in Seq(K) /\ Len(s) = n
  BY <1>1, <1>3
<1>11. QED
  BY <1>4, <1>5, <1>9, <1>10 DEF n, s

-----------------------------------------------------------------------------
(***************************************************************************)
(* Words and pairs.                                                        *)
(***************************************************************************)

\* The word that starts at i ends before n.
Ends(text, i, n) ==
    /\ n \in i .. Len(text) + 1 /\ \A j \in i .. n - 1 : text[j] \notin Blanks
    /\ n = Len(text) + 1 \/ text[n] \in Blanks

\* A word runs from its start to the place before the next blank or the end.
LEMMA WordIs ==
    ASSUME NEW text \in Texts, NEW i \in 1 .. Len(text), NEW n, Ends(text, i, n)
    PROVE  WordAt(text, i) = SubSeq(text, i, n - 1)
<1> DEFINE S == {j \in i .. Len(text) : text[j] \in Blanks} \cup {Len(text) + 1}
<1>1. Len(text) \in Nat /\ n \in Nat
  BY DEF Texts, Ends
<1>2. S \in SUBSET Nat /\ n \in S
  BY <1>1 DEF Ends
<1>3. \A j \in S : n <= j
  BY <1>1 DEF Ends
<1>4. Min(S) = n
  <2> HIDE DEF S
  <2>1. QED
    BY <1>2, <1>3, MinIs
<1>5. QED
  BY <1>4, Zenon DEF WordAt

\* Every place of a text has such an end.
LEMMA WordEnds ==
    ASSUME NEW text \in Texts, NEW i \in 1 .. Len(text)
    PROVE  \E n \in Nat : Ends(text, i, n)
<1> DEFINE S == {j \in i .. Len(text) : text[j] \in Blanks} \cup {Len(text) + 1}
<1>1. Len(text) \in Nat
  BY DEF Texts
<1>2. S \in SUBSET Nat /\ S # {}
  BY <1>1
<1>3. PICK n \in S : \A j \in S : n <= j
  BY <1>2, Least
<1>4. ASSUME NEW j \in i .. n - 1 PROVE text[j] \notin Blanks
  <2>1. j \in i .. Len(text) /\ ~(n <= j)
    BY <1>1, <1>3
  <2>2. QED
    BY <1>3, <2>1
<1>5. Ends(text, i, n)
  BY <1>1, <1>3, <1>4 DEF Ends
<1>6. QED
  BY <1>2, <1>5

\* A word has no blank.
LEMMA WordType ==
    ASSUME NEW text \in Texts, NEW i \in 1 .. Len(text)
    PROVE  WordAt(text, i) \in Seq(Letters)
<1>1. PICK n \in Nat : Ends(text, i, n)
  BY WordEnds
<1> DEFINE w == SubSeq(text, i, n - 1)
<1>2. Len(text) \in Nat /\ i \in 1 .. Len(text) + 1 /\ n - 1 \in i - 1 .. Len(text)
  BY <1>1 DEF Ends, Texts
<1>3. /\ w \in Seq(Chars) /\ Len(w) = (n - 1) - i + 1
      /\ \A j \in 1 .. (n - 1) - i + 1 : w[j] = text[i + j - 1]
  BY <1>2, Part DEF Texts, Chars
<1>4. ASSUME NEW j \in 1 .. Len(w) PROVE w[j] \in Letters
  <2>1. i + j - 1 \in i .. n - 1
    BY <1>2, <1>3
  <2>2. w[j] \notin Blanks /\ w[j] \in Chars
    BY <1>1, <1>3, <2>1 DEF Ends
  <2>3. QED
    BY <2>2 DEF Chars
<1>5. w \in Seq(Letters)
  <2> HIDE DEF w
  <2>1. QED
    BY <1>3, <1>4
<1>6. QED
  BY <1>1, <1>5, WordIs

\* The two parts of a pair: the key ends at the first '='.
LEMMA PairIs ==
    ASSUME NEW k \in Keys, NEW v \in Seq(Letters)
    PROVE  LET word == k \o <<"=">> \o v IN HasPair(word) /\ PairOf(word) = <<k, v>>
<1> DEFINE e == <<"=">>
           ke == k \o e
           word == ke \o v
           S == {i \in DOMAIN word : word[i] = "="}
           n == Len(k) + 1
<1>1. /\ k \in Seq(Letters) /\ e \in Seq(Letters) /\ Len(e) = 1 /\ e[1] = "="
      /\ Len(k) \in Nat /\ Len(v) \in Nat /\ \A i \in 1 .. Len(k) : k[i] # "="
  BY JestAssumption DEF Keys
<1> HIDE DEF e
<1>2. /\ ke \in Seq(Letters) /\ Len(ke) = n /\ \A i \in 1 .. Len(k) : ke[i] = k[i]
      /\ ke[n] = "="
  <2>1. /\ k \o e \in Seq(Letters) /\ Len(k \o e) = Len(k) + Len(e)
        /\ \A i \in 1 .. Len(k) : (k \o e)[i] = k[i]
        /\ \A i \in 1 .. Len(e) : (k \o e)[Len(k) + i] = e[i]
    <3>1. k \in Seq(Letters) /\ e \in Seq(Letters)
      BY <1>1
    <3>2. QED
      BY ONLY <3>1, Joined
  <2>2. 1 \in 1 .. Len(e)
    BY <1>1
  <2>3. QED
    BY <1>1, <2>1, <2>2
<1> HIDE DEF ke
<1>3. /\ word \in Seq(Letters) /\ Len(word) = n + Len(v)
      /\ \A i \in 1 .. n : word[i] = ke[i]
      /\ \A i \in 1 .. Len(v) : word[n + i] = v[i]
  <2>1. ke \in Seq(Letters) /\ v \in Seq(Letters)
    BY <1>2
  <2>2. /\ ke \o v \in Seq(Letters) /\ Len(ke \o v) = Len(ke) + Len(v)
        /\ \A i \in 1 .. Len(ke) : (ke \o v)[i] = ke[i]
        /\ \A i \in 1 .. Len(v) : (ke \o v)[Len(ke) + i] = v[i]
    BY ONLY <2>1, Joined
  <2>3. QED
    BY <1>2, <2>2
<1> HIDE DEF word
<1>4. n \in 1 .. Len(word) /\ word[n] = "=" /\ DOMAIN word = 1 .. Len(word)
  BY <1>1, <1>2, <1>3
<1>5. S \in SUBSET Nat /\ n \in S
  BY <1>4
<1>6. ASSUME NEW i \in S PROVE n <= i
  <2>1. i \in Nat /\ i >= 1 /\ word[i] = "="
    BY <1>4
  <2>2. SUFFICES ASSUME i <= Len(k) PROVE FALSE
    BY <1>1, <2>1
  <2>3. i \in 1 .. Len(k) /\ i \in 1 .. n
    BY <1>1, <2>1, <2>2
  <2>4. QED
    BY <1>1, <1>2, <1>3, <2>1, <2>3
<1>7. Min(S) = n
  <2> HIDE DEF S
  <2>1. QED
    BY <1>5, <1>6, MinIs
<1>8. HasPair(word)
  BY <1>4 DEF HasPair, ToSet
<1>9. SubSeq(word, 1, n - 1) = k
  <2> DEFINE a == SubSeq(word, 1, Len(k))
  <2>1. Len(k) \in 0 .. Len(word)
    BY <1>1, <1>3
  <2>2. a \in Seq(Letters) /\ Len(a) = Len(k) /\ \A i \in 1 .. Len(k) : a[i] = word[i]
    BY <1>3, <2>1, FrontPart
  <2>3. \A i \in 1 .. Len(k) : a[i] = k[i]
    BY <1>1, <1>2, <1>3, <2>2
  <2>4. a = k
    <3> HIDE DEF a
    <3>1. QED
      BY <1>1, <2>2, <2>3, SeqEqual
  <2>5. n - 1 = Len(k)
    BY <1>1
  <2>6. QED
    BY <2>4, <2>5
<1>10. SubSeq(word, n + 1, Len(word)) = v
  <2> DEFINE b == SubSeq(word, n + 1, Len(word))
  <2>1. n \in 0 .. Len(word) /\ Len(word) - n = Len(v)
    BY <1>1, <1>3
  <2>2. b \in Seq(Letters) /\ Len(b) = Len(v) /\ \A i \in 1 .. Len(v) : b[i] = word[n + i]
    BY <1>3, <2>1, BackPart
  <2>3. QED
    <3> HIDE DEF b
    <3>1. b = v
      BY <1>3, <2>2, SeqEqual
    <3>2. QED
      BY <3>1 DEF b
<1>11. PairOf(word) = <<k, v>>
  BY <1>7, <1>9, <1>10, Zenon DEF PairOf
<1>12. QED
  BY <1>8, <1>11 DEF word, ke, e

\* The key of a pair has no '=' and no blank, the value no blank.
LEMMA PairType ==
    ASSUME NEW word \in Seq(Letters), HasPair(word)
    PROVE  PairOf(word)[1] \in Keys /\ PairOf(word)[2] \in Seq(Letters)
<1> DEFINE S == {i \in DOMAIN word : word[i] = "="}
           n == Min(S)
<1>1. Len(word) \in Nat /\ DOMAIN word = 1 .. Len(word)
  OBVIOUS
<1>2. S \in SUBSET Nat /\ S # {}
  BY <1>1 DEF HasPair, ToSet
<1>3. n \in S /\ \A i \in S : n <= i
  <2> HIDE DEF S
  <2>1. QED
    BY <1>2, MinNat
<1> HIDE DEF n
<1>4. n \in 1 .. Len(word) /\ n - 1 \in 0 .. Len(word) /\ n \in 0 .. Len(word)
  BY <1>1, <1>3
<1> DEFINE a == SubSeq(word, 1, n - 1)
<1>5. a \in Seq(Letters) /\ Len(a) = n - 1 /\ \A i \in 1 .. n - 1 : a[i] = word[i]
  BY <1>4, FrontPart
<1>6. ASSUME NEW i \in 1 .. Len(a) PROVE a[i] \in Letters \ {"="}
  <2>1. i \in 1 .. n - 1 /\ i \in DOMAIN word /\ ~(n <= i)
    BY <1>1, <1>4, <1>5
  <2>2. a[i] = word[i] /\ word[i] # "=" /\ word[i] \in Letters
    BY <1>3, <1>5, <2>1
  <2>3. QED
    BY <2>2
<1>7. a \in Keys
  <2> HIDE DEF a
  <2>1. QED
    BY <1>5, <1>6 DEF Keys
<1>8. SubSeq(word, n + 1, Len(word)) \in Seq(Letters)
  BY <1>4, BackPart
<1>9. PairOf(word) = <<a, SubSeq(word, n + 1, Len(word))>>
  BY Zenon DEF PairOf, n
<1>10. QED
  BY <1>7, <1>8, <1>9

-----------------------------------------------------------------------------
(***************************************************************************)
(* Reading a text in two parts, of which the first ends with a blank.      *)
(***************************************************************************)

Closed(text) == text = <<>> \/ text[Len(text)] \in Blanks

\* Where the characters of two joined texts are.
LEMMA TextsJoined ==
    ASSUME NEW t \in Texts, NEW u \in Texts
    PROVE  /\ t \o u \in Texts /\ Len(t) \in Nat /\ Len(u) \in Nat /\ Len(t \o u) = Len(t) + Len(u)
           /\ \A i \in 1 .. Len(t) : (t \o u)[i] = t[i]
           /\ \A i \in 1 .. Len(u) : (t \o u)[Len(t) + i] = u[i]
BY Joined DEF Texts

\* The words of the first part.
LEMMA FirstWords ==
    ASSUME NEW t \in Texts, NEW u \in Texts, Closed(t), NEW i \in 1 .. Len(t)
    PROVE  /\ i \in WordStarts(t \o u) <=> i \in WordStarts(t)
           /\ WordAt(t \o u, i) = WordAt(t, i)
<1> DEFINE w == t \o u
<1>1. /\ w \in Texts /\ Len(t) \in Nat /\ Len(u) \in Nat /\ Len(w) = Len(t) + Len(u)
      /\ \A j \in 1 .. Len(t) : w[j] = t[j]
  BY TextsJoined
<1>2. DOMAIN t = 1 .. Len(t) /\ DOMAIN w = 1 .. Len(w)
  BY <1>1 DEF Texts
<1> HIDE DEF w
<1>3. i \in 1 .. Len(w)
  BY <1>1
<1>4. i \in WordStarts(w) <=> i \in WordStarts(t)
  <2>1. CASE i = 1
    BY <1>1, <1>2, <1>3, <2>1 DEF WordStarts
  <2>2. CASE i # 1
    <3>1. i - 1 \in 1 .. Len(t)
      BY <1>1, <2>2
    <3>2. w[i - 1] = t[i - 1] /\ w[i] = t[i]
      BY <1>1, <3>1
    <3>3. QED
      BY <1>2, <1>3, <2>2, <3>2 DEF WordStarts
  <2>3. QED
    BY <2>1, <2>2
<1>5. PICK n \in Nat : Ends(t, i, n)
  BY WordEnds
<1>6. n \in i .. Len(t) /\ t[n] \in Blanks
  <2>1. Len(t) \in i .. Len(t) /\ t # <<>>
    BY <1>1
  <2>2. t[Len(t)] \in Blanks
    BY <2>1 DEF Closed
  <2>3. n # Len(t) + 1
    <3>1. SUFFICES ASSUME n = Len(t) + 1 PROVE FALSE
      OBVIOUS
    <3>2. Len(t) \in i .. n - 1
      BY <1>1, <2>1, <3>1
    <3>3. QED
      BY <1>5, <2>2, <3>2 DEF Ends
  <2>4. QED
    BY <1>1, <1>5, <2>3 DEF Ends
<1>7. Ends(w, i, n)
  <2>1. n \in 1 .. Len(t) /\ \A j \in i .. n - 1 : j \in 1 .. Len(t)
    BY <1>1, <1>6
  <2>2. w[n] \in Blanks /\ \A j \in i .. n - 1 : w[j] \notin Blanks
    BY <1>1, <1>5, <1>6, <2>1 DEF Ends
  <2>3. n \in i .. Len(w) + 1
    BY <1>1, <1>6
  <2>4. QED
    BY <2>2, <2>3 DEF Ends
<1>8. WordAt(t, i) = SubSeq(t, i, n - 1) /\ WordAt(w, i) = SubSeq(w, i, n - 1)
  BY <1>1, <1>3, <1>5, <1>7, WordIs
<1>9. SubSeq(w, i, n - 1) = SubSeq(t, i, n - 1)
  <2> DEFINE a == SubSeq(w, i, n - 1)
             b == SubSeq(t, i, n - 1)
             m == (n - 1) - i + 1
  <2>1. i \in 1 .. Len(t) + 1 /\ n - 1 \in i - 1 .. Len(t)
    BY <1>1, <1>6
  <2>2. i \in 1 .. Len(w) + 1 /\ n - 1 \in i - 1 .. Len(w)
    BY <1>1, <2>1
  <2>3. a \in Texts /\ Len(a) = m /\ \A j \in 1 .. m : a[j] = w[i + j - 1]
    BY <1>1, <2>2, Part DEF Texts
  <2>4. b \in Texts /\ Len(b) = m /\ \A j \in 1 .. m : b[j] = t[i + j - 1]
    BY <2>1, Part DEF Texts
  <2>5. \A j \in 1 .. m : i + j - 1 \in 1 .. Len(t)
    BY <1>1, <1>6
  <2>6. \A j \in 1 .. m : a[j] = b[j]
    <3> HIDE DEF a, b, m
    <3>1. QED
      BY <1>1, <2>3, <2>4, <2>5
  <2>7. a = b
    <3> HIDE DEF a, b, m
    <3>1. QED
      BY <2>3, <2>4, <2>6, SeqEqual DEF Texts
  <2>8. QED
    BY <2>7
<1>10. QED
  BY <1>4, <1>8, <1>9 DEF w

\* The words of the second part.
LEMMA SecondWords ==
    ASSUME NEW t \in Texts, NEW u \in Texts, Closed(t), NEW i \in 1 .. Len(u)
    PROVE  /\ Len(t) + i \in WordStarts(t \o u) <=> i \in WordStarts(u)
           /\ WordAt(t \o u, Len(t) + i) = WordAt(u, i)
<1> DEFINE w == t \o u
           l == Len(t)
<1>1. /\ w \in Texts /\ l \in Nat /\ Len(u) \in Nat /\ Len(w) = l + Len(u)
      /\ \A j \in 1 .. l : w[j] = t[j]
      /\ \A j \in 1 .. Len(u) : w[l + j] = u[j]
  BY TextsJoined
<1>2. DOMAIN u = 1 .. Len(u) /\ DOMAIN w = 1 .. Len(w)
  BY <1>1 DEF Texts
<1>3. l # 0 => t[l] \in Blanks
  <2>1. t = <<>> => l = 0
    OBVIOUS
  <2>2. QED
    BY <2>1 DEF Closed
<1> HIDE DEF w, l
<1>4. l + i \in 1 .. Len(w) /\ w[l + i] = u[i]
  BY <1>1
<1>5. l + i \in WordStarts(w) <=> i \in WordStarts(u)
  <2>1. CASE i = 1 /\ l = 0
    BY <1>2, <1>4, <2>1 DEF WordStarts
  <2>2. CASE i = 1 /\ l # 0
    <3>1. (l + i) - 1 = l /\ l \in 1 .. l
      BY <1>1, <2>2
    <3>2. w[(l + i) - 1] \in Blanks
      BY <1>1, <1>3, <2>2, <3>1
    <3>3. QED
      BY <1>2, <1>4, <2>2, <3>2 DEF WordStarts
  <2>3. CASE i # 1
    <3>1. (l + i) - 1 = l + (i - 1) /\ i - 1 \in 1 .. Len(u) /\ l + i # 1
      BY <1>1, <2>3
    <3>2. w[(l + i) - 1] = u[i - 1]
      BY <1>1, <3>1
    <3>3. QED
      BY <1>2, <1>4, <2>3, <3>1, <3>2 DEF WordStarts
  <2>4. QED
    BY <2>1, <2>2, <2>3
<1>6. PICK n \in Nat : Ends(u, i, n)
  BY WordEnds
<1>7. Ends(w, l + i, l + n)
  <2>1. n \in i .. Len(u) + 1 /\ l + n \in l + i .. Len(w) + 1
    BY <1>1, <1>6 DEF Ends
  <2>2. ASSUME NEW j \in l + i .. (l + n) - 1 PROVE w[j] \notin Blanks
    <3>1. j - l \in i .. n - 1 /\ j - l \in 1 .. Len(u) /\ l + (j - l) = j
      BY <1>1, <2>1
    <3>2. w[j] = u[j - l] /\ u[j - l] \notin Blanks
      BY <1>1, <1>6, <3>1 DEF Ends
    <3>3. QED
      BY <3>2
  <2>3. l + n = Len(w) + 1 \/ w[l + n] \in Blanks
    <3>1. CASE n = Len(u) + 1
      BY <1>1, <3>1
    <3>2. CASE n # Len(u) + 1
      <4>1. n \in 1 .. Len(u)
        BY <1>1, <2>1, <3>2
      <4>2. u[n] \in Blanks
        BY <1>6, <3>2, Zenon DEF Ends
      <4>3. QED
        BY <1>1, <4>1, <4>2
    <3>3. QED
      BY <3>1, <3>2
  <2>4. QED
    BY <2>1, <2>2, <2>3 DEF Ends
<1>8. WordAt(u, i) = SubSeq(u, i, n - 1) /\ WordAt(w, l + i) = SubSeq(w, l + i, (l + n) - 1)
  BY <1>1, <1>4, <1>6, <1>7, WordIs
<1>9. SubSeq(w, l + i, (l + n) - 1) = SubSeq(u, i, n - 1)
  <2> DEFINE p == l + i
             q == (l + n) - 1
             a == SubSeq(w, p, q)
             b == SubSeq(u, i, n - 1)
             m == (n - 1) - i + 1
  <2>1. n \in i .. Len(u) + 1
    BY <1>6 DEF Ends
  <2>2. i \in 1 .. Len(u) + 1 /\ n - 1 \in i - 1 .. Len(u)
    BY <1>1, <2>1
  <2>3. p \in 1 .. Len(w) + 1 /\ q \in p - 1 .. Len(w) /\ q - p + 1 = m
    BY <1>1, <2>1
  <2>4. a \in Texts /\ Len(a) = m /\ \A j \in 1 .. m : a[j] = w[p + j - 1]
    <3> HIDE DEF p, q, m
    <3>1. QED
      BY <1>1, <2>3, Part DEF Texts
  <2>5. b \in Texts /\ Len(b) = m /\ \A j \in 1 .. m : b[j] = u[i + j - 1]
    BY <2>2, Part DEF Texts
  <2>6. \A j \in 1 .. m : i + j - 1 \in 1 .. Len(u) /\ p + j - 1 = l + (i + j - 1)
    BY <1>1, <2>1
  <2>7. \A j \in 1 .. m : a[j] = b[j]
    <3> HIDE DEF a, b, m, p
    <3>1. QED
      BY <1>1, <2>4, <2>5, <2>6
  <2>8. a = b
    <3> HIDE DEF a, b, m
    <3>1. QED
      BY <2>4, <2>5, <2>7, SeqEqual DEF Texts
  <2>9. QED
    BY <2>8
<1>10. QED
  BY <1>5, <1>8, <1>9 DEF w, l

\* Read takes the first entry of a key.
First(text, k, i) ==
    /\ i \in Entries(text) /\ KeyAt(text, i) = k
    /\ \A j \in Entries(text) : KeyAt(text, j) = k => i <= j

\* Entries are places of the text.
LEMMA EntriesType ==
    ASSUME NEW text \in Texts
    PROVE  Entries(text) \subseteq 1 .. Len(text) /\ 1 .. Len(text) \subseteq Nat
BY DEF Texts, Entries, WordStarts

\* What is read for a key is the value of its first entry.
LEMMA ReadFirst ==
    ASSUME NEW text \in Texts, NEW k, NEW i, First(text, k, i)
    PROVE  k \in DOMAIN Read(text) /\ Read(text)[k] = ValueAt(text, i)
<1> DEFINE S == {j \in Entries(text) : KeyAt(text, j) = k}
<1>1. S \in SUBSET Nat
  BY EntriesType
<1>2. i \in S /\ \A j \in S : i <= j
  BY DEF First
<1>3. Min(S) = i
  <2> HIDE DEF S
  <2>1. QED
    BY <1>1, <1>2, MinIs
<1>4. QED
  BY <1>2, <1>3, Zenon DEF Read

\* Every key that is read has a first entry.
LEMMA FirstExists ==
    ASSUME NEW text \in Texts, NEW k
    PROVE  k \in DOMAIN Read(text) <=> \E i \in Nat : First(text, k, i)
<1>1. ASSUME k \in DOMAIN Read(text) PROVE \E i \in Nat : First(text, k, i)
  <2> DEFINE S == {j \in Entries(text) : KeyAt(text, j) = k}
  <2>1. S \in SUBSET Nat
    BY EntriesType
  <2>2. S # {}
    BY <1>1 DEF Read
  <2>3. PICK i \in S : \A j \in S : i <= j
    <3> HIDE DEF S
    <3>1. QED
      BY <2>1, <2>2, Least
  <2>4. First(text, k, i)
    BY <2>3, Zenon DEF First
  <2>5. QED
    BY <2>1, <2>4
<1>2. QED
  BY <1>1, ReadFirst

\* Entries of the first part are entries of the whole, with their keys and values,
LEMMA FirstEntries ==
    ASSUME NEW t \in Texts, NEW u \in Texts, Closed(t), NEW i \in 1 .. Len(t)
    PROVE  /\ i \in Entries(t \o u) <=> i \in Entries(t)
           /\ KeyAt(t \o u, i) = KeyAt(t, i) /\ ValueAt(t \o u, i) = ValueAt(t, i)
BY FirstWords, Zenon DEF Entries, KeyAt, ValueAt

\* and those of the second part are too, moved behind the first.
LEMMA SecondEntries ==
    ASSUME NEW t \in Texts, NEW u \in Texts, Closed(t), NEW i \in 1 .. Len(u)
    PROVE  /\ Len(t) + i \in Entries(t \o u) <=> i \in Entries(u)
           /\ KeyAt(t \o u, Len(t) + i) = KeyAt(u, i)
           /\ ValueAt(t \o u, Len(t) + i) = ValueAt(u, i)
BY SecondWords, Zenon DEF Entries, KeyAt, ValueAt

\* An entry of the whole is one of the first part or one of the second.
LEMMA EntryOfPart ==
    ASSUME NEW t \in Texts, NEW u \in Texts, NEW j \in Entries(t \o u)
    PROVE  j \in 1 .. Len(t) \/ \E i \in 1 .. Len(u) : j = Len(t) + i
<1>1. Len(t) \in Nat /\ Len(u) \in Nat /\ j \in 1 .. Len(t) + Len(u)
  BY TextsJoined, EntriesType
<1>2. CASE j <= Len(t)
  BY <1>1, <1>2
<1>3. CASE ~(j <= Len(t))
  <2>1. j - Len(t) \in 1 .. Len(u) /\ j = Len(t) + (j - Len(t))
    BY <1>1, <1>3
  <2>2. QED
    BY <2>1
<1>4. QED
  BY <1>2, <1>3

\* Reading two parts: the first part's entries stay, the second adds the other keys.
LEMMA ReadJoined ==
    ASSUME NEW t \in Texts, NEW u \in Texts, Closed(t)
    PROVE  /\ DOMAIN Read(t \o u) = DOMAIN Read(t) \cup DOMAIN Read(u)
           /\ \A k \in DOMAIN Read(t) : Read(t \o u)[k] = Read(t)[k]
           /\ \A k \in DOMAIN Read(u) \ DOMAIN Read(t) : Read(t \o u)[k] = Read(u)[k]
<1> DEFINE w == t \o u
<1>1. w \in Texts /\ Len(t) \in Nat /\ Len(u) \in Nat
  BY TextsJoined
<1>2. ASSUME NEW k \in DOMAIN Read(t) PROVE k \in DOMAIN Read(w) /\ Read(w)[k] = Read(t)[k]
  <2>1. PICK i \in Nat : First(t, k, i)
    BY FirstExists
  <2>2. i \in 1 .. Len(t) /\ i \in Entries(t)
    BY <2>1, EntriesType DEF First
  <2>3. i \in Entries(w) /\ KeyAt(w, i) = k /\ ValueAt(w, i) = ValueAt(t, i)
    BY <2>1, <2>2, FirstEntries DEF First
  <2>4. ASSUME NEW j \in Entries(w), KeyAt(w, j) = k PROVE i <= j
    <3>1. CASE j \in 1 .. Len(t)
      <4>1. j \in Entries(t) /\ KeyAt(t, j) = k
        BY <2>4, <3>1, FirstEntries
      <4>2. QED
        BY <2>1, <4>1 DEF First
    <3>2. CASE \E h \in 1 .. Len(u) : j = Len(t) + h
      BY <1>1, <2>2, <3>2
    <3>3. QED
      BY <2>4, <3>1, <3>2, EntryOfPart
  <2>5. First(w, k, i)
    BY <2>3, <2>4 DEF First
  <2>6. QED
    BY <1>1, <2>1, <2>3, <2>5, ReadFirst
<1>3. ASSUME NEW k \in DOMAIN Read(u), k \notin DOMAIN Read(t)
      PROVE  k \in DOMAIN Read(w) /\ Read(w)[k] = Read(u)[k]
  <2>1. PICK i \in Nat : First(u, k, i)
    BY FirstExists
  <2>2. i \in 1 .. Len(u) /\ i \in Entries(u)
    BY <2>1, EntriesType DEF First
  <2>3. /\ Len(t) + i \in Entries(w) /\ KeyAt(w, Len(t) + i) = k
        /\ ValueAt(w, Len(t) + i) = ValueAt(u, i)
    BY <2>1, <2>2, SecondEntries DEF First
  <2>4. ASSUME NEW j \in Entries(w), KeyAt(w, j) = k PROVE Len(t) + i <= j
    <3>1. CASE j \in 1 .. Len(t)
      <4>1. j \in Entries(t) /\ KeyAt(t, j) = k
        BY <2>4, <3>1, FirstEntries
      <4>2. k \in DOMAIN Read(t)
        BY <4>1 DEF Read
      <4>3. QED
        BY <1>3, <4>2
    <3>2. CASE \E h \in 1 .. Len(u) : j = Len(t) + h
      <4>1. PICK h \in 1 .. Len(u) : j = Len(t) + h
        BY <3>2
      <4>2. h \in Entries(u) /\ KeyAt(u, h) = k
        BY <2>4, <4>1, SecondEntries
      <4>3. i <= h
        BY <2>1, <4>2 DEF First
      <4>4. QED
        BY <1>1, <2>2, <4>1, <4>3
    <3>3. QED
      BY <2>4, <3>1, <3>2, EntryOfPart
  <2>5. First(w, k, Len(t) + i)
    BY <2>3, <2>4 DEF First
  <2>6. QED
    BY <1>1, <2>1, <2>3, <2>5, ReadFirst
<1>4. ASSUME NEW k \in DOMAIN Read(w) PROVE k \in DOMAIN Read(t) \cup DOMAIN Read(u)
  <2>1. PICK j \in Entries(w) : KeyAt(w, j) = k
    BY DEF Read
  <2>2. CASE j \in 1 .. Len(t)
    <3>1. j \in Entries(t) /\ KeyAt(t, j) = k
      BY <2>1, <2>2, FirstEntries
    <3>2. QED
      BY <3>1 DEF Read
  <2>3. CASE \E h \in 1 .. Len(u) : j = Len(t) + h
    <3>1. PICK h \in 1 .. Len(u) : j = Len(t) + h
      BY <2>3
    <3>2. h \in Entries(u) /\ KeyAt(u, h) = k
      BY <2>1, <3>1, SecondEntries
    <3>3. QED
      BY <3>2 DEF Read
  <2>4. QED
    BY <2>2, <2>3, EntryOfPart
<1>5. QED
  BY <1>2, <1>3, <1>4

\* What is read has keys and values without blanks, and finitely many.
LEMMA ReadType ==
    ASSUME NEW text \in Texts
    PROVE  /\ IsFiniteSet(DOMAIN Read(text)) /\ DOMAIN Read(text) \subseteq Keys
           /\ \A k \in DOMAIN Read(text) : Read(text)[k] \in Seq(Letters)
<1>1. ASSUME NEW i \in Entries(text) PROVE KeyAt(text, i) \in Keys /\ ValueAt(text, i) \in Seq(Letters)
  <2>1. i \in 1 .. Len(text) /\ HasPair(WordAt(text, i))
    BY EntriesType DEF Entries
  <2>2. WordAt(text, i) \in Seq(Letters)
    BY <2>1, WordType
  <2>3. QED
    BY <2>1, <2>2, PairType DEF KeyAt, ValueAt
<1>2. DOMAIN Read(text) \subseteq Keys
  BY <1>1 DEF Read
<1>3. ASSUME NEW k \in DOMAIN Read(text) PROVE Read(text)[k] \in Seq(Letters)
  <2>1. PICK i \in Nat : First(text, k, i)
    BY FirstExists
  <2>2. i \in Entries(text) /\ Read(text)[k] = ValueAt(text, i)
    BY <2>1, ReadFirst DEF First
  <2>3. QED
    BY <1>1, <2>2
<1>4. IsFiniteSet(DOMAIN Read(text))
  <2> DEFINE f == [i \in Entries(text) |-> KeyAt(text, i)]
  <2>1. Len(text) \in Nat /\ Len(text) \in Int /\ 1 \in Int
    BY DEF Texts
  <2>2. IsFiniteSet(1 .. Len(text))
    BY <2>1, FS_Interval
  <2>3. IsFiniteSet(Entries(text))
    BY <2>2, EntriesType, FS_Subset
  <2>4. f \in Surjection(Entries(text), DOMAIN Read(text))
    BY DEF Surjection, Read
  <2>5. QED
    BY <2>3, <2>4, FS_Surjection
<1>5. QED
  BY <1>2, <1>3, <1>4

-----------------------------------------------------------------------------
(***************************************************************************)
(* A line.                                                                 *)
(***************************************************************************)

\* What operator>> takes of a value.
Visible(v) == IF v = <<>> \/ v[1] \in Blanks THEN <<>> ELSE WordAt(v, 1)

\* The characters of a line.
LEMMA LineChars ==
    ASSUME NEW k \in Keys, NEW v \in Texts
    PROVE  LET a == k \o <<"=">>
               p == Len(k) + 1
           IN  /\ a \in Seq(Letters) /\ Len(a) = p /\ p \in Nat /\ Len(v) \in Nat
               /\ Line(k, v) \in Texts /\ Len(Line(k, v)) = p + Len(v) + 1
               /\ \A i \in 1 .. p : Line(k, v)[i] = a[i] /\ a[i] \notin Blanks
               /\ \A i \in 1 .. Len(v) : Line(k, v)[p + i] = v[i]
               /\ Line(k, v)[p + Len(v) + 1] = "nl"
<1> DEFINE e == <<"=">>
           nl == <<"nl">>
           a == k \o e
           b == a \o v
           L == b \o nl
           p == Len(k) + 1
<1>1. /\ k \in Seq(Letters) /\ e \in Seq(Letters) /\ Len(e) = 1 /\ Len(k) \in Nat
      /\ Letters \cap Blanks = {}
  BY JestAssumption DEF Keys
<1>2. nl \in Texts /\ Len(nl) = 1 /\ nl[1] = "nl"
  BY DEF Texts, Blanks
<1> HIDE DEF e, nl
<1>3. a \in Seq(Letters) /\ Len(a) = p
  <2>1. k \in Seq(Letters) /\ e \in Seq(Letters)
    BY <1>1
  <2>2. k \o e \in Seq(Letters) /\ Len(k \o e) = Len(k) + Len(e)
    BY ONLY <2>1, Joined
  <2>3. QED
    BY <1>1, <2>2
<1> HIDE DEF a
<1>4. a \in Texts /\ \A i \in 1 .. Len(a) : a[i] \notin Blanks
  BY <1>1, <1>3 DEF Texts
<1>5. /\ a \o v \in Texts /\ Len(v) \in Nat /\ Len(a \o v) = Len(a) + Len(v)
      /\ \A i \in 1 .. Len(a) : (a \o v)[i] = a[i]
      /\ \A i \in 1 .. Len(v) : (a \o v)[Len(a) + i] = v[i]
  BY <1>4, TextsJoined
<1>6. /\ b \o nl \in Texts /\ Len(b \o nl) = Len(b) + Len(nl)
      /\ \A i \in 1 .. Len(b) : (b \o nl)[i] = b[i]
      /\ \A i \in 1 .. Len(nl) : (b \o nl)[Len(b) + i] = nl[i]
  BY <1>2, <1>5, TextsJoined
<1> HIDE DEF b, L
<1>7. b \in Texts /\ Len(b) = p + Len(v)
  BY <1>3, <1>5 DEF b
<1>8. L \in Texts /\ Len(L) = p + Len(v) + 1
  BY <1>2, <1>6, <1>7 DEF L
<1>9. ASSUME NEW i \in 1 .. p PROVE L[i] = a[i] /\ a[i] \notin Blanks
  <2>1. i \in 1 .. Len(b) /\ i \in 1 .. Len(a)
    BY <1>1, <1>3, <1>5, <1>7
  <2>2. b[i] = a[i]
    BY <1>5, <2>1 DEF b
  <2>3. L[i] = b[i]
    BY <1>6, <2>1 DEF L
  <2>4. QED
    BY <1>4, <2>1, <2>2, <2>3
<1>10. ASSUME NEW i \in 1 .. Len(v) PROVE L[p + i] = v[i]
  <2>1. p + i \in 1 .. Len(b)
    BY <1>1, <1>5, <1>7
  <2>2. b[p + i] = v[i]
    BY <1>3, <1>5 DEF b
  <2>3. L[p + i] = b[p + i]
    BY <1>6, <2>1 DEF L
  <2>4. QED
    BY <2>2, <2>3
<1>11. L[p + Len(v) + 1] = "nl"
  <2>1. 1 \in 1 .. Len(nl)
    BY <1>2
  <2>2. (b \o nl)[Len(b) + 1] = "nl"
    BY <1>2, <1>6, <2>1
  <2>3. QED
    BY <1>7, <2>2 DEF L
<1>12. Line(k, v) = L
  BY DEF Line, L, b, a, e, nl
<1>13. p \in Nat
  BY <1>1
<1>14. QED
  BY <1>3, <1>5, <1>8, <1>9, <1>10, <1>11, <1>12, <1>13 DEF a, e

\* What is visible of a value: its characters before the first blank.
LEMMA VisibleFacts ==
    ASSUME NEW v \in Texts
    PROVE  \E n \in 1 .. Len(v) + 1 :
              /\ Visible(v) \in Seq(Letters) /\ Len(Visible(v)) = n - 1
              /\ \A i \in 1 .. n - 1 : Visible(v)[i] = v[i] /\ v[i] \notin Blanks
              /\ n = Len(v) + 1 \/ v[n] \in Blanks
<1>1. Len(v) \in Nat
  BY DEF Texts
<1>2. CASE v = <<>> \/ v[1] \in Blanks
  <2>1. Visible(v) = <<>>
    BY <1>2 DEF Visible
  <2>2. 1 \in 1 .. Len(v) + 1 /\ 1 .. 1 - 1 = {} /\ (v = <<>> => 1 = Len(v) + 1)
    BY <1>1
  <2>3. <<>> \in Seq(Letters) /\ Len(<<>>) = 1 - 1
    OBVIOUS
  <2>4. QED
    BY <1>2, <2>1, <2>2, <2>3
<1>3. CASE ~(v = <<>> \/ v[1] \in Blanks)
  <2>1. Len(v) # 0
    BY <1>3 DEF Texts
  <2>2. 1 \in 1 .. Len(v)
    BY <1>1, <2>1
  <2>3. PICK n \in Nat : Ends(v, 1, n)
    BY <2>2, WordEnds
  <2>4. Visible(v) = SubSeq(v, 1, n - 1) /\ Visible(v) \in Seq(Letters)
    BY <1>3, <2>2, <2>3, WordIs, WordType DEF Visible
  <2>5. n \in 1 .. Len(v) + 1 /\ n - 1 \in 0 .. Len(v)
    BY <1>1, <2>3 DEF Ends
  <2>6. Len(SubSeq(v, 1, n - 1)) = n - 1 /\ \A i \in 1 .. n - 1 : SubSeq(v, 1, n - 1)[i] = v[i]
    BY <2>5, FrontPart DEF Texts
  <2>7. (\A i \in 1 .. n - 1 : v[i] \notin Blanks) /\ (n = Len(v) + 1 \/ v[n] \in Blanks)
    BY <2>3, Zenon DEF Ends
  <2>8. QED
    BY <2>4, <2>5, <2>6, <2>7
<1>4. QED
  BY <1>2, <1>3

\* All of a value without blanks is visible.
LEMMA AllVisible ==
    ASSUME NEW v \in Seq(Letters)
    PROVE  v \in Texts /\ Visible(v) = v
<1>1. v \in Texts /\ Len(v) \in Nat /\ \A i \in 1 .. Len(v) : v[i] \notin Blanks
  BY JestAssumption DEF Texts
<1>2. PICK n \in 1 .. Len(v) + 1 :
              /\ Visible(v) \in Seq(Letters) /\ Len(Visible(v)) = n - 1
              /\ \A i \in 1 .. n - 1 : Visible(v)[i] = v[i] /\ v[i] \notin Blanks
              /\ n = Len(v) + 1 \/ v[n] \in Blanks
  BY <1>1, VisibleFacts
<1>3. n = Len(v) + 1
  BY <1>1, <1>2
<1>4. Len(Visible(v)) = Len(v) /\ \A i \in 1 .. Len(Visible(v)) : Visible(v)[i] = v[i]
  BY <1>1, <1>2, <1>3
<1>5. QED
  BY <1>1, <1>2, <1>4, SeqEqual

\* The first word of a line is the key, '=' and what is visible of the value.
LEMMA LineWord ==
    ASSUME NEW k \in Keys, NEW v \in Texts
    PROVE  /\ 1 \in WordStarts(Line(k, v))
           /\ WordAt(Line(k, v), 1) = k \o <<"=">> \o Visible(v)
<1> DEFINE L == Line(k, v)
           a == k \o <<"=">>
           p == Len(k) + 1
           x == Visible(v)
<1>1. /\ a \in Seq(Letters) /\ Len(a) = p /\ p \in Nat /\ Len(v) \in Nat
      /\ L \in Texts /\ Len(L) = p + Len(v) + 1
      /\ \A i \in 1 .. p : L[i] = a[i] /\ a[i] \notin Blanks
      /\ \A i \in 1 .. Len(v) : L[p + i] = v[i]
      /\ L[p + Len(v) + 1] = "nl"
  BY LineChars
<1>2. p >= 1
  BY DEF Keys
<1>3. PICK n \in 1 .. Len(v) + 1 :
              /\ x \in Seq(Letters) /\ Len(x) = n - 1
              /\ \A i \in 1 .. n - 1 : x[i] = v[i] /\ v[i] \notin Blanks
              /\ n = Len(v) + 1 \/ v[n] \in Blanks
  BY VisibleFacts
<1> HIDE DEF L, a, p, x
<1>4. 1 \in 1 .. p /\ 1 \in 1 .. Len(L) /\ DOMAIN L = 1 .. Len(L)
  BY <1>1, <1>2 DEF Texts
<1>5. 1 \in WordStarts(L)
  BY <1>1, <1>4 DEF WordStarts
<1>6. Ends(L, 1, p + n)
  <2>1. p + n \in 1 .. Len(L) + 1
    BY <1>1, <1>2, <1>3
  <2>2. ASSUME NEW j \in 1 .. (p + n) - 1 PROVE L[j] \notin Blanks
    <3>1. CASE j <= p
      <4>1. j \in 1 .. p
        BY <1>1, <1>3, <3>1
      <4>2. QED
        BY <1>1, <4>1
    <3>2. CASE ~(j <= p)
      <4>1. j - p \in 1 .. n - 1 /\ j - p \in 1 .. Len(v) /\ p + (j - p) = j
        BY <1>1, <1>3, <3>2
      <4>2. L[j] = v[j - p] /\ v[j - p] \notin Blanks
        BY <1>1, <1>3, <4>1
      <4>3. QED
        BY <4>2
    <3>3. QED
      BY <3>1, <3>2
  <2>3. L[p + n] \in Blanks
    <3>1. CASE n = Len(v) + 1
      <4>1. p + n = p + Len(v) + 1
        BY <1>1, <3>1
      <4>2. QED
        BY <1>1, <4>1 DEF Blanks
    <3>2. CASE n # Len(v) + 1
      <4>1. n \in 1 .. Len(v) /\ v[n] \in Blanks
        BY <1>1, <1>3, <3>2
      <4>2. QED
        BY <1>1, <4>1
    <3>3. QED
      BY <3>1, <3>2
  <2>4. QED
    BY <2>1, <2>2, <2>3 DEF Ends
<1>7. WordAt(L, 1) = SubSeq(L, 1, (p + n) - 1)
  BY <1>1, <1>4, <1>6, WordIs
<1>8. SubSeq(L, 1, (p + n) - 1) = a \o x
  <2> DEFINE m == (p + n) - 1
             w == SubSeq(L, 1, m)
  <2>1. m \in 0 .. Len(L) /\ m = p + (n - 1)
    BY <1>1, <1>3
  <2>2. w \in Texts /\ Len(w) = m /\ \A i \in 1 .. m : w[i] = L[i]
    <3> HIDE DEF m
    <3>1. QED
      BY <1>1, <2>1, FrontPart DEF Texts
  <2>3. a \in Texts /\ x \in Texts
    BY <1>1, <1>3 DEF Texts
  <2>4. /\ a \o x \in Texts /\ Len(a \o x) = Len(a) + Len(x)
        /\ \A i \in 1 .. Len(a) : (a \o x)[i] = a[i]
        /\ \A i \in 1 .. Len(x) : (a \o x)[Len(a) + i] = x[i]
    BY <2>3, TextsJoined
  <2> HIDE DEF m, w
  <2>5. ASSUME NEW i \in 1 .. m PROVE w[i] = (a \o x)[i]
    <3>1. CASE i <= p
      <4>1. i \in 1 .. p /\ i \in 1 .. Len(a)
        BY <1>1, <2>1, <3>1
      <4>2. QED
        BY <1>1, <2>2, <2>4, <4>1
    <3>2. CASE ~(i <= p)
      <4>1. i - p \in 1 .. n - 1 /\ i - p \in 1 .. Len(v) /\ p + (i - p) = i
        BY <1>1, <1>3, <2>1, <3>2
      <4>2. L[i] = v[i - p] /\ x[i - p] = v[i - p]
        BY <1>1, <1>3, <4>1
      <4>3. (a \o x)[p + (i - p)] = x[i - p]
        BY <1>1, <1>3, <2>4, <4>1
      <4>4. QED
        BY <2>2, <4>1, <4>2, <4>3
    <3>3. QED
      BY <3>1, <3>2
  <2>6. Len(a \o x) = m
    BY <1>1, <1>3, <2>1, <2>4
  <2>7. w = a \o x
    BY <2>2, <2>4, <2>5, <2>6, SeqEqual DEF Texts
  <2>8. QED
    BY <2>7 DEF w, m
<1>9. QED
  BY <1>5, <1>7, <1>8 DEF L, a, x

\* Reading a line.
LEMMA ReadLine ==
    ASSUME NEW k \in Keys, NEW v \in Texts
    PROVE  /\ Line(k, v) \in Texts /\ Line(k, v) # <<>> /\ Closed(Line(k, v))
           /\ k \in DOMAIN Read(Line(k, v)) /\ Read(Line(k, v))[k] = Visible(v)
           /\ v \in Seq(Letters) => DOMAIN Read(Line(k, v)) = {k}
<1> DEFINE L == Line(k, v)
           a == k \o <<"=">>
           p == Len(k) + 1
<1>1. /\ a \in Seq(Letters) /\ Len(a) = p /\ p \in Nat /\ Len(v) \in Nat
      /\ L \in Texts /\ Len(L) = p + Len(v) + 1
      /\ \A i \in 1 .. p : L[i] = a[i] /\ a[i] \notin Blanks
      /\ \A i \in 1 .. Len(v) : L[p + i] = v[i]
      /\ L[p + Len(v) + 1] = "nl"
  BY LineChars
<1>2. 1 \in WordStarts(L) /\ WordAt(L, 1) = k \o <<"=">> \o Visible(v)
  BY LineWord
<1>3. Visible(v) \in Seq(Letters)
  BY VisibleFacts
<1>4. HasPair(WordAt(L, 1)) /\ PairOf(WordAt(L, 1)) = <<k, Visible(v)>>
  BY <1>2, <1>3, PairIs
<1> HIDE DEF L, a, p
<1>5. L # <<>> /\ Closed(L)
  <2>1. Len(L) # 0 /\ L[Len(L)] \in Blanks
    BY <1>1 DEF Blanks
  <2>2. QED
    BY <2>1 DEF Closed
<1>6. 1 \in Entries(L) /\ KeyAt(L, 1) = k /\ ValueAt(L, 1) = Visible(v)
  BY <1>2, <1>4 DEF Entries, KeyAt, ValueAt
<1>7. First(L, k, 1)
  <2>1. \A j \in Entries(L) : 1 <= j
    BY <1>1, EntriesType
  <2>2. QED
    BY <1>6, <2>1 DEF First
<1>8. k \in DOMAIN Read(L) /\ Read(L)[k] = Visible(v)
  BY <1>1, <1>6, <1>7, ReadFirst
<1>9. ASSUME v \in Seq(Letters) PROVE DOMAIN Read(L) = {k}
  <2>1. ASSUME NEW j \in 1 .. p + Len(v) PROVE L[j] \notin Blanks
    <3>1. CASE j \in 1 .. p
      BY <1>1, <3>1
    <3>2. CASE j \notin 1 .. p
      <4>1. j - p \in 1 .. Len(v) /\ p + (j - p) = j
        BY <1>1, <3>2
      <4>2. L[j] = v[j - p] /\ v[j - p] \in Letters
        BY <1>1, <1>9, <4>1
      <4>3. QED
        BY <4>2, JestAssumption
    <3>3. QED
      BY <3>1, <3>2
  <2>2. ASSUME NEW j \in Entries(L) PROVE j = 1
    <3>1. SUFFICES ASSUME j # 1 PROVE FALSE
      OBVIOUS
    <3>2. j \in 1 .. Len(L) /\ L[j - 1] \in Blanks
      BY <1>1, <3>1, EntriesType DEF Entries, WordStarts
    <3>3. j - 1 \in 1 .. p + Len(v)
      BY <1>1, <3>1, <3>2
    <3>4. QED
      BY <2>1, <3>2, <3>3
  <2>3. DOMAIN Read(L) = {KeyAt(L, j) : j \in Entries(L)}
    BY DEF Read
  <2>4. QED
    BY <1>6, <2>2, <2>3
<1>10. QED
  BY <1>1, <1>5, <1>8, <1>9 DEF L

-----------------------------------------------------------------------------
(***************************************************************************)
(* The text of a map.                                                      *)
(***************************************************************************)

\* The maps that occur: only the uri may have blanks.
Config(map) ==
    /\ IsFiniteSet(DOMAIN map) /\ DOMAIN map \subseteq Keys
    /\ \A k \in DOMAIN map : map[k] \in Texts /\ (k # UriKey => map[k] \in Seq(Letters))

\* The first n lines.
Order(map) == InOrder(DOMAIN map)
Size(map) == Cardinality(DOMAIN map)
Lines(map, n) == [i \in 1 .. n |-> Line(Order(map)[i], map[Order(map)[i]])]
FirstLines(map, n) == FlattenSeq(Lines(map, n))

\* InOrder lists every key of a map once, in the order of std::map.
LEMMA OrderFacts ==
    ASSUME NEW map, Config(map)
    PROVE  /\ Size(map) \in Nat /\ DOMAIN Order(map) = 1 .. Size(map)
           /\ \A i \in 1 .. Size(map) : Order(map)[i] \in DOMAIN map /\ Order(map)[i] \in Keys
           /\ \A i, j \in 1 .. Size(map) : i < j => Before(Order(map)[i], Order(map)[j])
           /\ \A i, j \in 1 .. Size(map) : Order(map)[i] = Order(map)[j] => i = j
           /\ \A k \in DOMAIN map : \E i \in 1 .. Size(map) : Order(map)[i] = k
<1> DEFINE K == DOMAIN map
<1>1. K \in SUBSET Keys /\ IsFiniteSet(K)
  BY DEF Config
<1>2. Cardinality(K) \in Nat
  BY <1>1, FS_CardinalityType
<1> HIDE DEF K
<1>3. InOrder(K) \in Seq(K) /\ Len(InOrder(K)) = Cardinality(K)
  BY <1>1, InOrderFacts
<1>4. DOMAIN InOrder(K) = 1 .. Cardinality(K) /\ \A i \in 1 .. Cardinality(K) : InOrder(K)[i] \in K
  BY <1>3
<1>5. /\ \A i, j \in 1 .. Cardinality(K) : i < j => Before(InOrder(K)[i], InOrder(K)[j])
      /\ \A i, j \in 1 .. Cardinality(K) : InOrder(K)[i] = InOrder(K)[j] => i = j
      /\ \A k \in K : \E i \in 1 .. Cardinality(K) : InOrder(K)[i] = k
  BY <1>1, InOrderFacts
<1>6. \A i \in 1 .. Cardinality(K) : InOrder(K)[i] \in Keys
  BY <1>1, <1>4
<1>7. QED
  BY <1>2, <1>4, <1>5, <1>6, Zenon DEF Order, Size, K

\* The lines of a map are texts, and only the uri's value may hold a blank.
LEMMA LineOfMap ==
    ASSUME NEW map, Config(map), NEW i \in 1 .. Size(map)
    PROVE  /\ Order(map)[i] \in Keys /\ map[Order(map)[i]] \in Texts
           /\ Order(map)[i] # UriKey => map[Order(map)[i]] \in Seq(Letters)
           /\ Line(Order(map)[i], map[Order(map)[i]]) \in Texts
<1>1. Order(map)[i] \in Keys /\ Order(map)[i] \in DOMAIN map
  BY OrderFacts
<1>2. map[Order(map)[i]] \in Texts /\ (Order(map)[i] # UriKey => map[Order(map)[i]] \in Seq(Letters))
  BY <1>1 DEF Config
<1>3. QED
  BY <1>1, <1>2, ReadLine

\* write() writes all lines.
LEMMA WrittenIsFirstLines ==
    ASSUME NEW map, Config(map)
    PROVE  Written(map) = FirstLines(map, Size(map))
<1>1. DOMAIN Order(map) = 1 .. Size(map)
  BY OrderFacts
<1>2. QED
  BY <1>1, Zenon DEF Written, FirstLines, Lines, Order

\* One line more is appended to the text.
LEMMA NextLine ==
    ASSUME NEW map, Config(map), NEW n \in Nat, n + 1 \in 1 .. Size(map)
    PROVE  FirstLines(map, n + 1) = FirstLines(map, n) \o Line(Order(map)[n + 1], map[Order(map)[n + 1]])
<1> DEFINE l == Line(Order(map)[n + 1], map[Order(map)[n + 1]])
           s == Lines(map, n)
           t == Lines(map, n + 1)
<1>1. Size(map) \in Nat
  BY OrderFacts
<1>2. \A i \in 1 .. n + 1 : i \in 1 .. Size(map)
  BY <1>1
<1>3. \A i \in 1 .. n + 1 : Line(Order(map)[i], map[Order(map)[i]]) \in Texts
  BY <1>2, LineOfMap
<1>4. s \in [1 .. n -> Texts] /\ t \in [1 .. n + 1 -> Texts] /\ l \in Texts
  <2>1. n + 1 \in 1 .. n + 1 /\ \A i \in 1 .. n : i \in 1 .. n + 1
    OBVIOUS
  <2>2. QED
    BY <1>3, <2>1 DEF Lines
<1>5. t[n + 1] = l /\ \A i \in 1 .. n : t[i] = s[i]
  BY DEF Lines
<1> HIDE DEF s, t, l
<1>6. s \in Seq(Texts) /\ Len(s) = n /\ t \in Seq(Texts) /\ Len(t) = n + 1
  BY <1>4
<1>7. t = Append(s, l)
  <2>1. /\ Append(s, l) \in Seq(Texts) /\ Len(Append(s, l)) = n + 1
        /\ \A i \in 1 .. n : Append(s, l)[i] = s[i]
        /\ Append(s, l)[n + 1] = l
    BY <1>4, <1>6
  <2>2. \A i \in 1 .. n + 1 : i \in 1 .. n \/ i = n + 1
    OBVIOUS
  <2>3. \A i \in 1 .. n + 1 : t[i] = Append(s, l)[i]
    BY <1>5, <2>1, <2>2
  <2>4. QED
    BY <1>6, <2>1, <2>3, SeqEqual
<1>8. FlattenSeq(Append(s, l)) = FlattenSeq(s) \o l
  BY <1>4, <1>6, FlattenAppend DEF Texts
<1>9. QED
  BY <1>7, <1>8 DEF FirstLines, s, t, l

\* No lines are no text.
LEMMA NoLines ==
    ASSUME NEW map
    PROVE  FirstLines(map, 0) = <<>>
<1>1. Lines(map, 0) = <<>>
  BY DEF Lines
<1>2. QED
  BY <1>1, FlattenEmpty DEF FirstLines

\* Nothing is read from nothing, and a text is closed when its last part is.
LEMMA EmptyText == <<>> \in Texts /\ Closed(<<>>) /\ DOMAIN Read(<<>>) = {}
<1>1. <<>> \in Texts /\ Closed(<<>>) /\ Len(<<>>) = 0
  BY DEF Texts, Closed
<1>2. Entries(<<>>) = {}
  BY <1>1, EntriesType
<1>3. QED
  BY <1>1, <1>2 DEF Read

\* Two parts end with a blank when the second does.
LEMMA ClosedJoined ==
    ASSUME NEW t \in Texts, NEW u \in Texts, Closed(u), u # <<>>
    PROVE  Closed(t \o u)
<1>1. /\ Len(t) \in Nat /\ Len(u) \in Nat /\ Len(t \o u) = Len(t) + Len(u)
      /\ \A i \in 1 .. Len(u) : (t \o u)[Len(t) + i] = u[i]
  BY TextsJoined
<1>2. u[Len(u)] \in Blanks /\ Len(u) # 0
  BY DEF Closed, Texts
<1>3. Len(u) \in 1 .. Len(u)
  BY <1>1, <1>2
<1>4. QED
  BY <1>1, <1>2, <1>3 DEF Closed

\* Reading the first n lines: a key that no uri precedes has what is visible of its value;
\* until the uri is among them, there are no other keys.  (A uri may hold anything, and
\* what follows its first blank is read as words of its own.)
NoUri(map, n) == \A j \in 1 .. n : Order(map)[j] # UriKey
Reads(map, n) ==
    /\ FirstLines(map, n) \in Texts /\ Closed(FirstLines(map, n))
    /\ \A i \in 1 .. n : NoUri(map, i - 1) =>
          /\ Order(map)[i] \in DOMAIN Read(FirstLines(map, n))
          /\ Read(FirstLines(map, n))[Order(map)[i]] = Visible(map[Order(map)[i]])
    /\ NoUri(map, n) => \A k \in DOMAIN Read(FirstLines(map, n)) : \E j \in 1 .. n : Order(map)[j] = k

\* The line of the next key does not disturb what was read before it.
LEMMA ReadsNext ==
    ASSUME NEW map, Config(map), NEW n \in Nat, n + 1 \in 1 .. Size(map), Reads(map, n)
    PROVE  Reads(map, n + 1)
<1> DEFINE t == FirstLines(map, n)
           k == Order(map)[n + 1]
           v == map[k]
           u == Line(k, v)
<1>1. t \in Texts /\ Closed(t)
  BY DEF Reads
<1>2. k \in Keys /\ v \in Texts /\ (k # UriKey => v \in Seq(Letters))
  BY LineOfMap
<1>3. /\ u \in Texts /\ u # <<>> /\ Closed(u)
      /\ k \in DOMAIN Read(u) /\ Read(u)[k] = Visible(v)
      /\ k # UriKey => DOMAIN Read(u) = {k}
  BY <1>2, ReadLine
<1>4. FirstLines(map, n + 1) = t \o u
  BY NextLine
<1>5. /\ \A i \in 1 .. n : NoUri(map, i - 1) =>
              Order(map)[i] \in DOMAIN Read(t) /\ Read(t)[Order(map)[i]] = Visible(map[Order(map)[i]])
      /\ NoUri(map, n) => \A l \in DOMAIN Read(t) : \E j \in 1 .. n : Order(map)[j] = l
  BY DEF Reads
<1> HIDE DEF t, u
<1>6. t \o u \in Texts /\ Closed(t \o u)
  BY <1>1, <1>3, TextsJoined, ClosedJoined
<1>7. /\ DOMAIN Read(t \o u) = DOMAIN Read(t) \cup DOMAIN Read(u)
      /\ \A l \in DOMAIN Read(t) : Read(t \o u)[l] = Read(t)[l]
      /\ \A l \in DOMAIN Read(u) \ DOMAIN Read(t) : Read(t \o u)[l] = Read(u)[l]
  BY <1>1, <1>3, ReadJoined
<1>8. \A i \in 1 .. n + 1 : i \in 1 .. n \/ i = n + 1
  OBVIOUS
<1>9. \A i \in 1 .. n : i \in 1 .. n + 1 /\ i # n + 1 /\ i \in 1 .. Size(map)
  BY OrderFacts
<1>10. NoUri(map, n + 1) => NoUri(map, n) /\ k # UriKey
  BY <1>9 DEF NoUri
<1>11. \A j \in 1 .. n : Order(map)[j] # k
  BY <1>9, OrderFacts
<1>12. ASSUME NEW i \in 1 .. n + 1, NoUri(map, i - 1)
       PROVE  Order(map)[i] \in DOMAIN Read(t \o u) /\ Read(t \o u)[Order(map)[i]] = Visible(map[Order(map)[i]])
  <2>1. CASE i \in 1 .. n
    BY <1>5, <1>7, <1>12, <2>1
  <2>2. CASE i = n + 1
    <3>1. NoUri(map, n)
      BY <1>12, <2>2
    <3>2. k \notin DOMAIN Read(t)
      BY <1>5, <1>11, <3>1
    <3>3. QED
      BY <1>3, <1>7, <2>2, <3>2
  <2>3. QED
    BY <1>8, <2>1, <2>2
<1>13. ASSUME NoUri(map, n + 1), NEW l \in DOMAIN Read(t \o u)
       PROVE  \E j \in 1 .. n + 1 : Order(map)[j] = l
  <2>1. l \in DOMAIN Read(t) \/ l = k
    BY <1>3, <1>7, <1>10, <1>13
  <2>2. n + 1 \in 1 .. n + 1
    OBVIOUS
  <2>3. QED
    BY <1>5, <1>9, <1>10, <1>13, <2>1, <2>2
<1>14. QED
  BY <1>4, <1>6, <1>12, <1>13, Zenon DEF Reads

\* Induction over the lines.
LEMMA ReadsAll ==
    ASSUME NEW map, Config(map)
    PROVE  Reads(map, Size(map))
<1> DEFINE N == {n \in Nat : n <= Size(map) => Reads(map, n)}
<1>1. 0 \in N
  <2>1. FirstLines(map, 0) = <<>>
    BY NoLines
  <2>2. Reads(map, 0)
    BY <2>1, EmptyText DEF Reads
  <2>3. QED
    BY <2>2
<1>2. ASSUME NEW n \in Nat, n \in N PROVE n + 1 \in N
  <2>1. SUFFICES ASSUME n + 1 <= Size(map) PROVE Reads(map, n + 1)
    OBVIOUS
  <2>2. Size(map) \in Nat
    BY OrderFacts
  <2>3. n <= Size(map) /\ n + 1 \in 1 .. Size(map)
    BY <2>1, <2>2
  <2>4. Reads(map, n)
    BY <1>2, <2>3
  <2>5. QED
    BY <2>3, <2>4, ReadsNext
<1> HIDE DEF N
<1>3. \A n \in Nat : n \in N
  BY <1>1, <1>2, SetInduction
<1>4. Size(map) \in Nat /\ Size(map) <= Size(map)
  BY OrderFacts
<1>5. QED
  BY <1>3, <1>4 DEF N

\* What a map with a method and a uri leaves in the file.
LEMMA ReadWritten ==
    ASSUME NEW map, Config(map), MethodKey \in DOMAIN map, UriKey \in DOMAIN map
    PROVE  /\ Written(map) \in Texts /\ Closed(Written(map))
           /\ MethodKey \in DOMAIN Read(Written(map)) /\ Read(Written(map))[MethodKey] = map[MethodKey]
           /\ UriKey \in DOMAIN Read(Written(map)) /\ Read(Written(map))[UriKey] = Visible(map[UriKey])
<1> DEFINE s == Order(map)
           n == Size(map)
<1>1. /\ n \in Nat
      /\ \A i, j \in 1 .. n : i < j => Before(s[i], s[j])
      /\ \A i, j \in 1 .. n : s[i] = s[j] => i = j
      /\ \A k \in DOMAIN map : \E i \in 1 .. n : s[i] = k
  BY OrderFacts
<1>2. Reads(map, n) /\ Written(map) = FirstLines(map, n)
  BY ReadsAll, WrittenIsFirstLines
<1> HIDE DEF s, n
<1>3. PICK m \in 1 .. n : s[m] = MethodKey
  BY <1>1
<1>4. PICK u \in 1 .. n : s[u] = UriKey
  BY <1>1
<1>5. MethodKey \in Keys /\ UriKey \in Keys /\ Before(MethodKey, UriKey)
  BY JestAssumption DEF Keys
<1>6. MethodKey # UriKey /\ ~Before(UriKey, MethodKey)
  BY <1>5, NotBothBefore
<1>7. m < u
  <2>1. ~(u < m) /\ m # u
    BY <1>1, <1>3, <1>4, <1>6
  <2>2. QED
    BY <1>1, <2>1
<1>8. \A i \in 1 .. u - 1 : i \in 1 .. n /\ i # u
  BY <1>1
<1>9. NoUri(map, u - 1)
  BY <1>1, <1>4, <1>8 DEF NoUri, s
<1>10. \A i \in 1 .. m - 1 : i \in 1 .. u - 1
  BY <1>1, <1>7
<1>11. NoUri(map, m - 1)
  BY <1>9, <1>10 DEF NoUri
<1>12. map[MethodKey] \in Seq(Letters)
  BY <1>6 DEF Config
<1>13. Visible(map[MethodKey]) = map[MethodKey]
  BY <1>12, AllVisible
<1>14. FirstLines(map, n) \in Texts /\ Closed(FirstLines(map, n))
  BY <1>2 DEF Reads
<1>15. \A i \in 1 .. n : NoUri(map, i - 1) =>
          /\ s[i] \in DOMAIN Read(FirstLines(map, n))
          /\ Read(FirstLines(map, n))[s[i]] = Visible(map[s[i]])
  BY <1>2 DEF Reads, s
<1>16. QED
  BY <1>2, <1>3, <1>4, <1>9, <1>11, <1>13, <1>14, <1>15

\* Whatever of the old file is left behind the text comes too late to be read.
LEMMA ReadOver ==
    ASSUME NEW map, Config(map), MethodKey \in DOMAIN map, UriKey \in DOMAIN map, NEW old \in Texts
    PROVE  /\ Over(Written(map), old) \in Texts
           /\ Get(Read(Over(Written(map), old)), MethodKey) = map[MethodKey]
           /\ Get(Read(Over(Written(map), old)), UriKey) = Visible(map[UriKey])
<1> DEFINE t == Written(map)
           u == SubSeq(old, Len(t) + 1, Len(old))
<1>1. /\ t \in Texts /\ Closed(t)
      /\ MethodKey \in DOMAIN Read(t) /\ Read(t)[MethodKey] = map[MethodKey]
      /\ UriKey \in DOMAIN Read(t) /\ Read(t)[UriKey] = Visible(map[UriKey])
  BY ReadWritten
<1> HIDE DEF t
<1>2. Len(t) \in Nat /\ Len(old) \in Nat /\ \A i \in 1 .. Len(old) : old[i] \in Letters \cup Blanks
  BY <1>1 DEF Texts
<1>3. \A i \in Len(t) + 1 .. Len(old) : old[i] \in Letters \cup Blanks
  BY <1>2
<1>4. u \in Texts
  BY <1>2, <1>3, SubSeqProperties DEF Texts
<1>5. Over(t, old) = t \o u
  BY DEF Over
<1> HIDE DEF u
<1>6. t \o u \in Texts
  BY <1>1, <1>4, TextsJoined
<1>7. /\ DOMAIN Read(t \o u) = DOMAIN Read(t) \cup DOMAIN Read(u)
      /\ \A l \in DOMAIN Read(t) : Read(t \o u)[l] = Read(t)[l]
  BY <1>1, <1>4, ReadJoined
<1>8. QED
  BY <1>1, <1>5, <1>6, <1>7 DEF Get, t

-----------------------------------------------------------------------------
(***************************************************************************)
(* get() and put().                                                        *)
(***************************************************************************)

\* What the assumption says of keys, methods and uris, as texts.
LEMMA KeysAre ==
    /\ MethodKey \in Keys /\ UriKey \in Keys /\ MethodKey # UriKey
    /\ Keys \subseteq Texts /\ Seq(Letters) \subseteq Texts /\ <<>> \in Seq(Letters)
    /\ Methods \subseteq Seq(Letters) /\ UriTexts \subseteq Texts
<1>1. MethodKey \in Keys /\ UriKey \in Keys /\ Before(MethodKey, UriKey)
  BY JestAssumption DEF Keys
<1>2. MethodKey # UriKey
  BY <1>1, NotBothBefore
<1>3. Keys \subseteq Texts /\ Seq(Letters) \subseteq Texts /\ <<>> \in Seq(Letters)
  BY DEF Keys, Texts
<1>4. QED
  BY <1>1, <1>2, <1>3, JestAssumption DEF Texts

\* What init() reads is a map that can be written and read back.
LEMMA ReadConfig ==
    ASSUME NEW text \in Texts
    PROVE  Config(Read(text))
<1>1. /\ IsFiniteSet(DOMAIN Read(text)) /\ DOMAIN Read(text) \subseteq Keys
      /\ \A k \in DOMAIN Read(text) : Read(text)[k] \in Seq(Letters)
  BY ReadType
<1>2. QED
  BY <1>1, KeysAre, Zenon DEF Config

\* A value that fits a key: that of the method has no blanks.
Fits(key, value) == key \in Keys /\ value \in Texts /\ (key # UriKey => value \in Seq(Letters))

\* get() gives a value that may be put back under the same key.
LEMMA GetFits ==
    ASSUME NEW map, Config(map), NEW key \in Keys
    PROVE  Fits(key, Get(map, key))
<1>1. CASE key \in DOMAIN map
  BY <1>1 DEF Config, Get, Fits
<1>2. CASE key \notin DOMAIN map
  BY <1>2, KeysAre DEF Get, Fits
<1>3. QED
  BY <1>1, <1>2

\* put() keeps such a map such a map, and changes the one entry.
LEMMA PutConfig ==
    ASSUME NEW map, Config(map), NEW key \in Keys, NEW value \in Texts, Fits(key, value)
    PROVE  /\ Config(Put(map, key, value)) /\ DOMAIN Put(map, key, value) = DOMAIN map \cup {key}
           /\ Put(map, key, value)[key] = value
           /\ \A k \in DOMAIN map \ {key} : Put(map, key, value)[k] = map[k]
<1> DEFINE new == Put(map, key, value)
<1>1. /\ DOMAIN new = DOMAIN map \cup {key} /\ new[key] = value
      /\ \A k \in DOMAIN map \ {key} : new[k] = map[k]
  BY DEF Put
<1> HIDE DEF new
<1>2. IsFiniteSet(DOMAIN map) /\ DOMAIN map \subseteq Keys
  BY DEF Config
<1>3. IsFiniteSet(DOMAIN map \cup {key})
  BY <1>2, FS_AddElement
<1>4. DOMAIN new \subseteq Keys
  BY <1>1, <1>2 DEF Fits
<1>5. ASSUME NEW k \in DOMAIN new PROVE new[k] \in Texts /\ (k # UriKey => new[k] \in Seq(Letters))
  <2>1. CASE k = key
    BY <1>1, <2>1 DEF Fits
  <2>2. CASE k # key
    BY <1>1, <1>5, <2>2 DEF Config
  <2>3. QED
    BY <2>1, <2>2
<1>6. Config(new)
  BY <1>1, <1>3, <1>4, <1>5, Zenon DEF Config
<1>7. QED
  BY <1>1, <1>6 DEF new

\* Both keys, as Start and Save put them.
LEMMA PutBoth ==
    ASSUME NEW old, Config(old), NEW m, NEW u, Fits(MethodKey, m), Fits(UriKey, u)
    PROVE  /\ Config(Put(Put(old, MethodKey, m), UriKey, u))
           /\ MethodKey \in DOMAIN Put(Put(old, MethodKey, m), UriKey, u)
           /\ UriKey \in DOMAIN Put(Put(old, MethodKey, m), UriKey, u)
           /\ Put(Put(old, MethodKey, m), UriKey, u)[MethodKey] = m
           /\ Put(Put(old, MethodKey, m), UriKey, u)[UriKey] = u
<1> DEFINE one == Put(old, MethodKey, m)
           two == Put(one, UriKey, u)
<1>1. Config(one) /\ MethodKey \in DOMAIN one /\ one[MethodKey] = m
  <2>1. MethodKey \in Keys /\ m \in Texts /\ Config(old) /\ Fits(MethodKey, m)
    BY DEF Fits
  <2>2. /\ Config(Put(old, MethodKey, m))
        /\ DOMAIN Put(old, MethodKey, m) = DOMAIN old \cup {MethodKey}
        /\ Put(old, MethodKey, m)[MethodKey] = m
        /\ \A k \in DOMAIN old \ {MethodKey} : Put(old, MethodKey, m)[k] = old[k]
    BY ONLY <2>1, PutConfig
  <2>3. QED
    BY <2>2
<1> HIDE DEF one
<1>2. /\ Config(two) /\ DOMAIN two = DOMAIN one \cup {UriKey} /\ two[UriKey] = u
      /\ \A k \in DOMAIN one \ {UriKey} : two[k] = one[k]
  <2>1. UriKey \in Keys /\ u \in Texts /\ Config(one) /\ Fits(UriKey, u)
    BY <1>1 DEF Fits
  <2>2. QED
    BY ONLY <2>1, PutConfig
<1> HIDE DEF two
<1>3. Config(two) /\ MethodKey \in DOMAIN two /\ UriKey \in DOMAIN two /\ two[MethodKey] = m /\ two[UriKey] = u
  BY <1>1, <1>2, KeysAre
<1>4. QED
  BY <1>3 DEF one, two

-----------------------------------------------------------------------------
(***************************************************************************)
(* The invariant.  A file can only be read back when its lines came from   *)
(* keys without '=' and values without blanks but for the last, the uri:   *)
(* the maps of all processes are such maps, since they are read from such  *)
(* a file.                                                                 *)
(***************************************************************************)

Jesters == [method : Methods, uri : Texts,
            data : BOOLEAN, content : BOOLEAN, interactive : BOOLEAN]
Places == {"off", "options", "method", "headers", "data", "validate", "execute"}
Sessions == [method : Texts, uri : Texts]

MainInv ==
    /\ pc \in [Procs -> Places]
    /\ jester \in [Procs -> Jesters] /\ \A p \in Procs : ~(jester[p].data /\ jester[p].content)
    /\ runs \in 0 .. MaxRuns /\ given \in [Procs -> 0 .. MaxOptions]
SessionInv ==
    /\ file \in Texts /\ saved \in Sessions
    /\ DOMAIN values = Procs /\ \A p \in Procs : Config(values[p])
    /\ SessionRestored
IInv == MainInv /\ SessionInv

\* The two properties follow from the invariant.
LEMMA InvImplies ==
    ASSUME IInv
    PROVE  TypeOK /\ SessionRestored
<1>1. \A p \in Procs : Config(values[p])
  BY DEF IInv, SessionInv
<1>2. \A p \in Procs : \A k \in DOMAIN values[p] : k \in Texts /\ values[p][k] \in Texts
  BY <1>1, KeysAre DEF Config
<1>3. /\ pc \in [Procs -> Places] /\ jester \in [Procs -> Jesters]
      /\ \A p \in Procs : ~(jester[p].data /\ jester[p].content)
      /\ runs \in 0 .. MaxRuns /\ given \in [Procs -> 0 .. MaxOptions]
      /\ file \in Texts /\ saved \in Sessions /\ SessionRestored
  BY DEF IInv, MainInv, SessionInv
<1>4. QED
  BY <1>2, <1>3, Zenon DEF TypeOK, Places, Jesters, Sessions

\* A new jester.
LEMMA FreshType == Fresh \in Jesters /\ ~(Fresh.data /\ Fresh.content)
<1>1. <<>> \in Texts /\ GetName \in Methods
  BY EmptyText, JestAssumption
<1>2. QED
  BY <1>1 DEF Fresh, Jesters

\* The invariant holds before the first run.
LEMMA InitInv ==
    ASSUME Init
    PROVE  IInv
<1>1. MainInv
  <2>1. MaxRuns \in Nat /\ MaxOptions \in Nat
    BY JestAssumption
  <2>2. pc \in [Procs -> Places] /\ runs \in 0 .. MaxRuns /\ given \in [Procs -> 0 .. MaxOptions]
    BY <2>1 DEF Init, Places
  <2>3. jester \in [Procs -> Jesters] /\ \A p \in Procs : ~(jester[p].data /\ jester[p].content)
    BY FreshType DEF Init
  <2>4. QED
    BY <2>2, <2>3 DEF MainInv
<1>2. SessionInv
  <2>1. file \in Texts /\ saved \in Sessions /\ saved.uri = <<>>
    BY EmptyText DEF Init, Sessions
  <2>2. DOMAIN Empty = {}
    BY DEF Empty
  <2>3. IsFiniteSet(DOMAIN Empty)
    BY <2>2, FS_EmptySet
  <2>4. Config(Empty)
    BY <2>2, <2>3 DEF Config
  <2>5. DOMAIN values = Procs /\ \A p \in Procs : Config(values[p])
    BY <2>4 DEF Init
  <2>6. QED
    BY <2>1, <2>5 DEF SessionInv, SessionRestored
<1>3. QED
  BY <1>1, <1>2 DEF IInv

\* A step that leaves the file and the maps alone.
LEMMA SessionKept ==
    ASSUME SessionInv, UNCHANGED <<file, values, saved>>
    PROVE  SessionInv'
BY DEF SessionInv, SessionRestored, Config

\* Nothing happens.
LEMMA StutterInv ==
    ASSUME IInv, UNCHANGED vars
    PROVE  IInv'
<1>1. SessionInv'
  BY SessionKept DEF IInv, vars
<1>2. MainInv'
  BY DEF IInv, MainInv, vars
<1>3. QED
  BY <1>1, <1>2 DEF IInv

-----------------------------------------------------------------------------
(***************************************************************************)
(* The steps, one lemma for each kind of them.                             *)
(***************************************************************************)

\* set_method keeps the types, and data and content as they were.
LEMMA MethodType ==
    ASSUME NEW j \in Jesters, NEW name
    PROVE  /\ Method(j, name) \in Jesters
           /\ Method(j, name).data = j.data /\ Method(j, name).content = j.content
BY DEF Method, Jesters

\* init and the first set_method and set_uri.
LEMMA StartInv ==
    ASSUME IInv, NEW p \in Procs, Start(p)
    PROVE  IInv'
<1> DEFINE read == Read(file)
           m == Get(read, MethodKey)
           u == Get(read, UriKey)
           got == Put(Put(read, MethodKey, m), UriKey, u)
           new == [Method(Fresh, got[MethodKey]) EXCEPT !.uri = got[UriKey]]
<1>1. file \in Texts /\ DOMAIN values = Procs /\ \A q \in Procs : Config(values[q])
  BY DEF IInv, SessionInv
<1>2. Config(read)
  BY <1>1, ReadConfig
<1>3. /\ values' = [values EXCEPT ![p] = got] /\ jester' = [jester EXCEPT ![p] = new]
      /\ pc[p] = "off" /\ runs < MaxRuns /\ runs' = runs + 1 /\ given' = [given EXCEPT ![p] = 0]
      /\ pc' = [pc EXCEPT ![p] = "options"]
      /\ file' = file /\ saved' = saved
  BY DEF Start, Goto
<1> HIDE DEF read
<1>4. Fits(MethodKey, m) /\ Fits(UriKey, u)
  BY <1>2, KeysAre, GetFits
<1> HIDE DEF m, u
<1>5. Config(got) /\ got[MethodKey] = m /\ got[UriKey] = u
  BY <1>2, <1>4, PutBoth
<1> HIDE DEF got
<1>6. new \in Jesters /\ ~(new.data /\ new.content)
  <2>1. /\ Method(Fresh, got[MethodKey]) \in Jesters
        /\ ~(Method(Fresh, got[MethodKey]).data /\ Method(Fresh, got[MethodKey]).content)
    BY FreshType, MethodType
  <2>2. got[UriKey] \in Texts
    BY <1>4, <1>5 DEF Fits
  <2>3. QED
    BY <2>1, <2>2 DEF Jesters
<1> HIDE DEF new
<1>7. MainInv'
  <2>1. pc' \in [Procs -> Places] /\ runs' \in 0 .. MaxRuns /\ given' \in [Procs -> 0 .. MaxOptions]
    BY <1>3, JestAssumption DEF IInv, MainInv, Places
  <2>2. jester' \in [Procs -> Jesters] /\ \A q \in Procs : ~(jester'[q].data /\ jester'[q].content)
    BY <1>3, <1>6 DEF IInv, MainInv
  <2>3. QED
    BY <2>1, <2>2 DEF MainInv
<1>8. SessionInv'
  <2>1. DOMAIN values' = Procs /\ \A q \in Procs : Config(values'[q])
    BY <1>1, <1>3, <1>5
  <2>2. file' \in Texts /\ saved' \in Sessions /\ SessionRestored'
    BY <1>3 DEF IInv, SessionInv, SessionRestored
  <2>3. QED
    BY <2>1, <2>2 DEF SessionInv
<1>9. QED
  BY <1>7, <1>8 DEF IInv

\* An option or a line at a prompt.
LEMMA InputInv ==
    ASSUME IInv, NEW p \in Procs, NEW where, NEW new \in Jesters, ~(new.data /\ new.content),
           Input(p, where, new)
    PROVE  IInv'
<1>1. MainInv'
  <2>1. pc' \in [Procs -> Places] /\ runs' \in 0 .. MaxRuns
    BY DEF IInv, MainInv, Input
  <2>2. given' \in [Procs -> 0 .. MaxOptions]
    BY JestAssumption DEF IInv, MainInv, Input
  <2>3. jester' \in [Procs -> Jesters] /\ \A q \in Procs : ~(jester'[q].data /\ jester'[q].content)
    BY DEF IInv, MainInv, Input
  <2>4. QED
    BY <2>1, <2>2, <2>3 DEF MainInv
<1>2. SessionInv'
  BY SessionKept DEF IInv, Input
<1>3. QED
  BY <1>1, <1>2 DEF IInv

\* What each of them does to the jester.
LEMMA InputTypes ==
    ASSUME NEW j \in Jesters, ~(j.data /\ j.content)
    PROVE  /\ \A text \in UriTexts : LET new == [j EXCEPT !.uri = text]
                                     IN  new \in Jesters /\ ~(new.data /\ new.content)
           /\ \A name \in Methods : LET new == Method(j, name)
                                    IN  new \in Jesters /\ ~(new.data /\ new.content)
           /\ AppendData(j) \in Jesters /\ ~(AppendData(j).data /\ AppendData(j).content)
           /\ \A some \in BOOLEAN : LET new == WithContent(j, some)
                                    IN  new \in Jesters /\ ~(new.data /\ new.content)
           /\ LET new == [j EXCEPT !.interactive = TRUE]
              IN  new \in Jesters /\ ~(new.data /\ new.content)
<1>1. ASSUME NEW text \in UriTexts
      PROVE  LET new == [j EXCEPT !.uri = text] IN new \in Jesters /\ ~(new.data /\ new.content)
  <2>1. text \in Texts
    BY KeysAre
  <2>2. QED
    BY <2>1 DEF Jesters
<1>2. ASSUME NEW name \in Methods
      PROVE  LET new == Method(j, name) IN new \in Jesters /\ ~(new.data /\ new.content)
  BY MethodType
<1>3. AppendData(j) \in Jesters /\ ~(AppendData(j).data /\ AppendData(j).content)
  BY DEF AppendData, Jesters
<1>4. ASSUME NEW some \in BOOLEAN
      PROVE  LET new == WithContent(j, some) IN new \in Jesters /\ ~(new.data /\ new.content)
  BY DEF WithContent, Jesters
<1>5. LET new == [j EXCEPT !.interactive = TRUE] IN new \in Jesters /\ ~(new.data /\ new.content)
  BY DEF Jesters
<1>6. QED
  BY <1>1, <1>2, <1>3, <1>4, <1>5

\* A step to another place of main that changes nothing else.
LEMMA GotoInv ==
    ASSUME IInv, NEW p \in Procs, NEW where \in Places, Goto(p, where),
           UNCHANGED <<file, jester, values, runs, given, saved>>
    PROVE  IInv'
<1>1. MainInv'
  BY DEF IInv, MainInv, Goto
<1>2. SessionInv'
  BY SessionKept DEF IInv
<1>3. QED
  BY <1>1, <1>2 DEF IInv

\* The prompt for the method.
LEMMA GetMethodInv ==
    ASSUME IInv, NEW p \in Procs, NEW name, GetMethod(p, name)
    PROVE  IInv'
<1>1. Method(jester[p], name) \in Jesters /\ ~(Method(jester[p], name).data /\ Method(jester[p], name).content)
  BY MethodType DEF IInv, MainInv
<1>2. jester' = [jester EXCEPT ![p] = Method(jester[p], name)] /\ pc' = [pc EXCEPT ![p] = "headers"]
  BY DEF GetMethod, Goto, IInv, MainInv
<1>3. MainInv'
  <2>1. jester' \in [Procs -> Jesters] /\ \A q \in Procs : ~(jester'[q].data /\ jester'[q].content)
    BY <1>1, <1>2 DEF IInv, MainInv
  <2>2. pc' \in [Procs -> Places]
    BY <1>2 DEF IInv, MainInv, Places
  <2>3. QED
    BY <2>1, <2>2 DEF IInv, MainInv, GetMethod
<1>4. SessionInv'
  BY SessionKept DEF IInv, GetMethod
<1>5. QED
  BY <1>3, <1>4 DEF IInv

\* put() and save(): the step that writes the file.
LEMMA SaveInv ==
    ASSUME IInv, NEW p \in Procs, Save(p)
    PROVE  IInv'
<1> DEFINE m == jester[p].method
           u == jester[p].uri
           map == Put(Put(values[p], MethodKey, m), UriKey, u)
<1>1. /\ file \in Texts /\ DOMAIN values = Procs /\ \A q \in Procs : Config(values[q])
      /\ m \in Methods /\ u \in Texts
  BY DEF IInv, MainInv, SessionInv, Jesters
<1>2. /\ u # <<>> /\ values' = [values EXCEPT ![p] = map] /\ file' = Over(Written(map), file)
      /\ saved' = [method |-> m, uri |-> u]
      /\ pc' = [pc EXCEPT ![p] = "execute"] /\ UNCHANGED <<jester, runs, given>>
  BY DEF Save, Goto
<1> HIDE DEF m, u
<1>3. Fits(MethodKey, m) /\ Fits(UriKey, u)
  BY <1>1, KeysAre DEF Fits
<1>4. /\ Config(map) /\ MethodKey \in DOMAIN map /\ UriKey \in DOMAIN map
      /\ map[MethodKey] = m /\ map[UriKey] = u
  BY <1>1, <1>3, PutBoth
<1> HIDE DEF map
<1>5. file' \in Texts /\ Get(Read(file'), MethodKey) = m /\ Get(Read(file'), UriKey) = Visible(u)
  BY <1>1, <1>2, <1>4, ReadOver
<1>6. saved'.method = m /\ saved'.uri = u
  BY <1>2
<1>7. SessionRestored'
  <2>1. Visible(u) = IF u[1] \in Blanks THEN <<>> ELSE WordAt(u, 1)
    BY <1>2, Zenon DEF Visible
  <2>2. QED
    BY <1>5, <1>6, <2>1, Zenon DEF SessionRestored
<1>8. SessionInv'
  <2>1. DOMAIN values' = Procs /\ \A q \in Procs : Config(values'[q])
    BY <1>1, <1>2, <1>4
  <2>2. saved' \in Sessions
    BY <1>1, <1>2, KeysAre DEF Sessions
  <2>3. QED
    BY <1>5, <1>7, <2>1, <2>2 DEF SessionInv
<1>9. MainInv'
  BY <1>2 DEF IInv, MainInv, Places
<1>10. QED
  BY <1>8, <1>9 DEF IInv

\* The invariant is inductive.
LEMMA NextInv ==
    ASSUME IInv, [Next]_vars
    PROVE  IInv'
<1>1. ASSUME NEW p \in Procs PROVE jester[p] \in Jesters /\ ~(jester[p].data /\ jester[p].content)
  BY DEF IInv, MainInv
<1>2. CASE \E p \in Procs : Start(p)
  BY <1>2, StartInv
<1>3. CASE \E p \in Procs : StartFails(p)
  <2>1. MainInv'
    BY <1>3, JestAssumption DEF IInv, MainInv, StartFails
  <2>2. SessionInv'
    BY <1>3, SessionKept DEF IInv, StartFails
  <2>3. QED
    BY <2>1, <2>2 DEF IInv
<1>4. ASSUME NEW p \in Procs, NEW text \in UriTexts, OptionUri(p, text) PROVE IInv'
  BY <1>1, <1>4, InputTypes, InputInv DEF OptionUri
<1>5. ASSUME NEW p \in Procs, NEW name \in Methods, OptionMethod(p, name) PROVE IInv'
  BY <1>1, <1>5, InputTypes, InputInv DEF OptionMethod
<1>6. ASSUME NEW p \in Procs, GiveData(p) PROVE IInv'
  BY <1>1, <1>6, InputTypes, InputInv DEF GiveData
<1>7. ASSUME NEW p \in Procs, NEW some \in BOOLEAN, OptionContent(p, some) PROVE IInv'
  BY <1>1, <1>7, InputTypes, InputInv DEF OptionContent
<1>8. ASSUME NEW p \in Procs, OptionInteractive(p) PROVE IInv'
  BY <1>1, <1>8, InputTypes, InputInv DEF OptionInteractive
<1>9. ASSUME NEW p \in Procs, GiveHeader(p) PROVE IInv'
  BY <1>1, <1>9, InputTypes, InputInv DEF GiveHeader
<1>10. CASE \E p \in Procs : OptionFails(p) \/ ValidateFails(p) \/ Execute(p)
  <2>1. PICK p \in Procs :
            Goto(p, "off") /\ UNCHANGED <<file, jester, values, runs, given, saved>>
    BY <1>10 DEF OptionFails, ValidateFails, Execute, Exit
  <2>2. QED
    BY <2>1, GotoInv DEF Places
<1>11. CASE \E p \in Procs : OptionsDone(p) \/ EndOfHeaders(p) \/ EndOfData(p)
  <2>1. PICK p \in Procs : \E where \in {"method", "validate", "data"} :
            Goto(p, where) /\ UNCHANGED <<file, jester, values, runs, given, saved>>
    BY <1>11 DEF OptionsDone, EndOfHeaders, EndOfData
  <2>2. QED
    BY <2>1, GotoInv DEF Places
<1>12. CASE \E p \in Procs, name \in Methods \cup {<<>>} : GetMethod(p, name)
  BY <1>12, GetMethodInv
<1>13. CASE \E p \in Procs : Save(p)
  BY <1>13, SaveInv
<1>15. CASE UNCHANGED vars
  BY <1>15, StutterInv
<1>16. QED
  BY <1>2, <1>3, <1>4, <1>5, <1>6, <1>7, <1>8, <1>9, <1>10, <1>11, <1>12, <1>13, <1>15
  DEF Next

-----------------------------------------------------------------------------

\* The members of every jester, map and of the file have the types of jester.h
\* and config.h, and append_data and set_content never leave data beside content, for
\* any alphabet, keys, methods and uris, and any number of runs that share the file.
THEOREM TypeCorrect == Spec => []TypeOK
<1>1. Init => IInv
  BY InitInv
<1>2. IInv /\ [Next]_vars => IInv'
  BY NextInv
<1>3. IInv => TypeOK
  BY InvImplies
<1>4. QED
  BY <1>1, <1>2, <1>3, PTL DEF Spec

\* config::save and config::init are inverse on the session, although save() does not
\* truncate the file: whatever uris the runs were given and however they overlap, reading
\* the file gives the method of the last save() and its uri up to the first blank.
THEOREM SessionIsRestored == Spec => []SessionRestored
<1>1. Init => IInv
  BY InitInv
<1>2. IInv /\ [Next]_vars => IInv'
  BY NextInv
<1>3. IInv => SessionRestored
  BY InvImplies
<1>4. QED
  BY <1>1, <1>2, <1>3, PTL DEF Spec

=============================================================================
