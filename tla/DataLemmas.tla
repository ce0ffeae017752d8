----------------------------- MODULE DataLemmas -----------------------------
(***************************************************************************)
(* Facts about the data of the models that the proofs of several           *)
(* components rest on.  Min and Max of FiniteSetsExt pick a member, and    *)
(* induction, stated for sets: both come from the well-foundedness of < on *)
(* Nat.  With them, what Keep and FlattenSeq compute.                      *)
(***************************************************************************)
EXTENDS Integers, Filter, FiniteSetsExt, SequencesExt, WellFoundedInduction, SequenceTheorems,
        FiniteSetTheorems, TLAPS

\* A set of natural numbers that is not empty has a least member.
LEMMA Least ==
    ASSUME NEW S \in SUBSET Nat, S # {}
    PROVE  \E x \in S : \A y \in S : x <= y
<1>1. PICK x \in S : \A y \in S : ~ (<<y, x>> \in OpToRel(<, Nat))
  BY WFMin, NatLessThanWellFounded, Zenon
<1>2. \A y \in S : ~ (y < x)
  BY <1>1 DEF OpToRel
<1>3. QED
  BY <1>2

\* Min is that member.
LEMMA MinNat ==
    ASSUME NEW S \in SUBSET Nat, S # {}
    PROVE  Min(S) \in S /\ \A y \in S : Min(S) <= y
BY Least DEF Min

LEMMA MinIs ==
    ASSUME NEW S \in SUBSET Nat, NEW n \in S, \A y \in S : n <= y
    PROVE  Min(S) = n
<1>1. Min(S) \in S /\ Min(S) <= n
  BY MinNat
<1>2. Min(S) \in Nat /\ n \in Nat /\ n <= Min(S)
  BY <1>1
<1>3. QED
  BY <1>1, <1>2

\* A set of natural numbers that is not empty and has an upper bound has a greatest.
LEMMA MaxNat ==
    ASSUME NEW S \in SUBSET Nat, S # {}, NEW b \in Nat, \A y \in S : y <= b
    PROVE  Max(S) \in S /\ \A y \in S : Max(S) >= y
<1> DEFINE T == {n \in Nat : \A y \in S : y <= n}
<1>1. PICK x \in T : \A y \in T : x <= y
  <2>1. T \in SUBSET Nat /\ b \in T
    OBVIOUS
  <2>2. QED
    BY <2>1, Least
<1>2. x \in S
  <2>1. SUFFICES ASSUME x \notin S PROVE FALSE
    OBVIOUS
  <2>2. \A y \in S : y <= x - 1
    BY <1>1, <2>1
  <2>3. x - 1 \in Nat
    <3>1. PICK y \in S : TRUE
      OBVIOUS
    <3>2. y \in Nat /\ y <= x - 1
      BY <2>2, <3>1
    <3>3. QED
      BY <1>1, <3>2
  <2>4. x - 1 \in T
    BY <2>2, <2>3
  <2>5. QED
    BY <1>1, <2>4
<1>3. \E m \in S : \A y \in S : m >= y
  BY <1>1, <1>2
<1>4. QED
  BY <1>3 DEF Max

\* Induction: a set with 0 and with the successor of each of its members has every
\* natural number.
LEMMA SetInduction ==
    ASSUME NEW S, 0 \in S, \A n \in Nat : n \in S => n + 1 \in S
    PROVE  \A n \in Nat : n \in S
<1> SUFFICES ASSUME Nat \ S # {} PROVE FALSE
  OBVIOUS
<1>1. PICK x \in Nat \ S : \A y \in Nat \ S : x <= y
  BY Least
<1>2. x - 1 \in Nat /\ x - 1 \in S
  BY <1>1
<1>3. (x - 1) + 1 \in S
  BY <1>2
<1>4. QED
  BY <1>1, <1>3

-----------------------------------------------------------------------------
(***************************************************************************)
(* Sequences.                                                              *)
(***************************************************************************)

LEMMA FunctionIsSeq ==
    ASSUME NEW n \in Nat, NEW S, NEW f \in [1 .. n -> S]
    PROVE  f \in Seq(S) /\ Len(f) = n
OBVIOUS

\* Where the elements of two joined sequences are.
LEMMA Joined ==
    ASSUME NEW S, NEW s \in Seq(S), NEW t \in Seq(S)
    PROVE  /\ s \o t \in Seq(S) /\ Len(s \o t) = Len(s) + Len(t)
           /\ \A i \in 1 .. Len(s) : (s \o t)[i] = s[i]
           /\ \A i \in 1 .. Len(t) : (s \o t)[Len(s) + i] = t[i]
OBVIOUS

\* A part of a sequence.
LEMMA Part ==
    ASSUME NEW S, NEW s \in Seq(S), NEW m \in 1 .. Len(s) + 1, NEW n \in m - 1 .. Len(s)
    PROVE  /\ SubSeq(s, m, n) \in Seq(S) /\ Len(SubSeq(s, m, n)) = n - m + 1
           /\ \A i \in 1 .. n - m + 1 : SubSeq(s, m, n)[i] = s[m + i - 1] /\ m + i - 1 \in DOMAIN s
<1>1. \A i \in m .. n : s[i] \in S
  OBVIOUS
<1>2. /\ SubSeq(s, m, n) \in Seq(S)
      /\ Len(SubSeq(s, m, n)) = IF m <= n THEN n - m + 1 ELSE 0
      /\ \A i \in 1 .. n - m + 1 : SubSeq(s, m, n)[i] = s[m + i - 1]
  BY <1>1, SubSeqProperties
<1>3. QED
  BY <1>2

\* The first p elements, and those behind them.
LEMMA FrontPart ==
    ASSUME NEW S, NEW s \in Seq(S), NEW p \in 0 .. Len(s)
    PROVE  /\ SubSeq(s, 1, p) \in Seq(S) /\ Len(SubSeq(s, 1, p)) = p
           /\ \A i \in 1 .. p : SubSeq(s, 1, p)[i] = s[i]
<1>1. 1 \in 1 .. Len(s) + 1 /\ p \in 1 - 1 .. Len(s) /\ p - 1 + 1 = p
  OBVIOUS
<1>2. QED
  BY <1>1, Part

LEMMA BackPart ==
    ASSUME NEW S, NEW s \in Seq(S), NEW p \in 0 .. Len(s)
    PROVE  /\ SubSeq(s, p + 1, Len(s)) \in Seq(S) /\ Len(SubSeq(s, p + 1, Len(s))) = Len(s) - p
           /\ \A i \in 1 .. Len(s) - p : SubSeq(s, p + 1, Len(s))[i] = s[p + i]
<1> DEFINE m == p + 1
           t == SubSeq(s, m, Len(s))
<1>1. m \in 1 .. Len(s) + 1 /\ Len(s) \in m - 1 .. Len(s)
  OBVIOUS
<1>2. Len(s) - m + 1 = Len(s) - p /\ \A i \in 1 .. Len(s) - p : m + i - 1 = p + i
  OBVIOUS
<1> HIDE DEF m
<1>3. t \in Seq(S) /\ Len(t) = Len(s) - m + 1 /\ \A i \in 1 .. Len(s) - m + 1 : t[i] = s[m + i - 1]
  BY <1>1, Part
<1> HIDE DEF t
<1>4. t \in Seq(S) /\ Len(t) = Len(s) - p /\ \A i \in 1 .. Len(s) - p : t[i] = s[p + i]
  BY <1>2, <1>3
<1>5. QED
  BY <1>4 DEF t, m

LEMMA FrontOfJoined ==
    ASSUME NEW S, NEW s \in Seq(S), NEW t \in Seq(S), NEW p \in 0 .. Len(s)
    PROVE  SubSeq(s \o t, 1, p) = SubSeq(s, 1, p)
<1> DEFINE u == s \o t
<1>1. /\ u \in Seq(S) /\ Len(u) = Len(s) + Len(t) /\ \A i \in 1 .. Len(s) : u[i] = s[i]
      /\ p \in 0 .. Len(u)
  BY Joined
<1> HIDE DEF u
<1>2. SubSeq(u, 1, p) \in Seq(S) /\ Len(SubSeq(u, 1, p)) = p /\ \A i \in 1 .. p : SubSeq(u, 1, p)[i] = u[i]
  BY <1>1, FrontPart
<1>3. SubSeq(s, 1, p) \in Seq(S) /\ Len(SubSeq(s, 1, p)) = p /\ \A i \in 1 .. p : SubSeq(s, 1, p)[i] = s[i]
  BY FrontPart
<1>4. \A i \in 1 .. p : SubSeq(u, 1, p)[i] = SubSeq(s, 1, p)[i]
  BY <1>1, <1>2, <1>3
<1>5. SubSeq(u, 1, p) = SubSeq(s, 1, p)
  BY <1>2, <1>3, <1>4, SeqEqual
<1>6. QED
  BY <1>5 DEF u

\* Induction over sequences: a set with the empty sequence, and with every sequence that
\* is one element longer than one of its members, has every sequence.
LEMMA SeqInduction ==
    ASSUME NEW X, NEW Q, <<>> \in Q, \A t \in Seq(X), x \in X : t \in Q => Append(t, x) \in Q
    PROVE  \A t \in Seq(X) : t \in Q
<1> DEFINE N == {n \in Nat : \A t \in Seq(X) : Len(t) = n => t \in Q}
<1>1. 0 \in N
  OBVIOUS
<1>2. ASSUME NEW n \in Nat, n \in N PROVE n + 1 \in N
  <2>1. SUFFICES ASSUME NEW t \in Seq(X), Len(t) = n + 1 PROVE t \in Q
    OBVIOUS
  <2> DEFINE f == SubSeq(t, 1, n)
  <2>2. f \in Seq(X) /\ Len(f) = n /\ t[n + 1] \in X
    BY <2>1
  <2>3. t = Append(f, t[n + 1])
    BY <2>1
  <2> HIDE DEF f
  <2>4. f \in Q
    BY <1>2, <2>2
  <2>5. QED
    BY <2>2, <2>3, <2>4
<1>3. \A n \in Nat : n \in N
  <2> HIDE DEF N
  <2>1. QED
    BY <1>1, <1>2, SetInduction
<1>4. QED
  BY <1>3

-----------------------------------------------------------------------------
(***************************************************************************)
(* Keep.  A trail is what Keep builds element by element.                  *)
(***************************************************************************)
Step(s, S, g, i) == IF s[i] \in S THEN Append(g[i - 1], s[i]) ELSE g[i - 1]

Trail(s, S, n, g) ==
    /\ DOMAIN g = 0 .. n /\ g[0] = <<>>
    /\ \A i \in 1 .. n : g[i] = Step(s, S, g, i)

\* The first n elements of two sequences are the same.
Alike(s, t, n) == \A i \in 1 .. n : s[i] = t[i]

\* The trails of two sequences agree as long as the sequences do.
LEMMA TrailsAgree ==
    ASSUME NEW s, NEW t, NEW S, NEW m \in Nat, NEW n \in Nat, NEW g, NEW h, NEW k \in Nat,
           k <= m, k <= n, Trail(s, S, m, g), Trail(t, S, n, h), Alike(s, t, k)
    PROVE  g[k] = h[k]
<1> DEFINE N == {i \in Nat : i <= k => g[i] = h[i]}
<1>1. 0 \in N
  BY DEF Trail
<1>2. ASSUME NEW i \in Nat, i \in N PROVE i + 1 \in N
  <2>1. SUFFICES ASSUME i + 1 <= k PROVE g[i + 1] = h[i + 1]
    OBVIOUS
  <2>2. i + 1 \in 1 .. m /\ i + 1 \in 1 .. n /\ (i + 1) - 1 = i /\ i + 1 \in 1 .. k
    BY <2>1
  <2>3. g[i] = h[i]
    BY <1>2, <2>1
  <2>4. QED
    BY <2>2, <2>3 DEF Trail, Step, Alike
<1>3. \A i \in Nat : i \in N
  <2> HIDE DEF N
  <2>1. QED
    BY <1>1, <1>2, SetInduction
<1>4. QED
  BY <1>3

\* There is a trail over every sequence.
LEMMA TrailExists ==
    ASSUME NEW X, NEW s \in Seq(X), NEW S
    PROVE  \E g \in [0 .. Len(s) -> Seq(X)] : Trail(s, S, Len(s), g)
<1> DEFINE N == {n \in Nat : n <= Len(s) => \E g \in [0 .. n -> Seq(X)] : Trail(s, S, n, g)}
<1>1. 0 \in N
  <2> DEFINE g == [i \in 0 .. 0 |-> <<>>]
  <2>1. g \in [0 .. 0 -> Seq(X)] /\ Trail(s, S, 0, g)
    BY DEF Trail
  <2>2. QED
    BY <2>1
<1>2. ASSUME NEW n \in Nat, n \in N PROVE n + 1 \in N
  <2>1. SUFFICES ASSUME n + 1 <= Len(s)
                 PROVE  \E h \in [0 .. n + 1 -> Seq(X)] : Trail(s, S, n + 1, h)
    OBVIOUS
  <2>2. PICK g \in [0 .. n -> Seq(X)] : Trail(s, S, n, g)
    BY <1>2, <2>1
  <2> DEFINE new == IF s[n + 1] \in S THEN Append(g[n], s[n + 1]) ELSE g[n]
             h == [i \in 0 .. n + 1 |-> IF i = n + 1 THEN new ELSE g[i]]
  <2>3. new \in Seq(X)
    <3>1. g[n] \in Seq(X) /\ s[n + 1] \in X
      BY <2>1
    <3>2. QED
      BY <3>1
  <2> HIDE DEF new
  <2>4. h \in [0 .. n + 1 -> Seq(X)]
    BY <2>3
  <2>5. ASSUME NEW i \in 1 .. n + 1 PROVE h[i] = Step(s, S, h, i)
    <3>1. CASE i = n + 1
      <4>1. h[i] = new /\ h[i - 1] = g[n]
        BY <3>1
      <4>2. QED
        BY <3>1, <4>1 DEF Step, new
    <3>2. CASE i # n + 1
      <4>1. i \in 1 .. n /\ h[i] = g[i] /\ h[i - 1] = g[i - 1]
        BY <3>2
      <4> HIDE DEF h
      <4>2. g[i] = Step(s, S, g, i)
        BY <2>2, <4>1 DEF Trail
      <4>3. QED
        BY <4>1, <4>2 DEF Step
    <3>3. QED
      BY <3>1, <3>2
  <2>6. h[0] = <<>>
    BY <2>2 DEF Trail
  <2>7. Trail(s, S, n + 1, h)
    <3>1. DOMAIN h = 0 .. n + 1
      OBVIOUS
    <3> HIDE DEF h
    <3>2. QED
      BY <2>5, <2>6, <3>1 DEF Trail
  <2>8. QED
    BY <2>4, <2>7
<1>3. \A n \in Nat : n \in N
  <2> HIDE DEF N
  <2>1. QED
    BY <1>1, <1>2, SetInduction
<1>4. QED
  BY <1>3

\* Keep is where any trail ends.
LEMMA KeepIsTrail ==
    ASSUME NEW X, NEW s \in Seq(X), NEW S, NEW g, Trail(s, S, Len(s), g)
    PROVE  Keep(s, S) = g[Len(s)] /\ Keep(s, S) \in Seq(X)
<1> DEFINE Def(f) == [i \in 0 .. Len(s) |->
                        IF i = 0 THEN <<>>
                        ELSE IF s[i] \in S THEN Append(f[i - 1], s[i]) ELSE f[i - 1]]
           kept == CHOOSE f : f = Def(f)
<1>1. Len(s) \in Nat
  OBVIOUS
<1>2. PICK h \in [0 .. Len(s) -> Seq(X)] : Trail(s, S, Len(s), h)
  BY TrailExists
<1>3. h = Def(h)
  <2>1. ASSUME NEW i \in 0 .. Len(s)
        PROVE  h[i] = IF i = 0 THEN <<>>
                      ELSE IF s[i] \in S THEN Append(h[i - 1], s[i]) ELSE h[i - 1]
    <3>1. i = 0 \/ i \in 1 .. Len(s)
      BY <1>1
    <3>2. QED
      BY <1>2, <3>1 DEF Trail, Step
  <2>2. QED
    BY <1>2, <2>1
<1>4. kept = Def(kept)
  BY <1>3
<1>5. Trail(s, S, Len(s), kept)
  <2> DEFINE k == kept
  <2>1. k = Def(k)
    BY <1>4
  <2> HIDE DEF k
  <2>2. DOMAIN k = 0 .. Len(s)
    BY <2>1
  <2>3. \A i \in 0 .. Len(s) : k[i] = Def(k)[i]
    BY <2>1, Zenon
  <2>4. k[0] = <<>>
    BY <1>1, <2>3
  <2>5. ASSUME NEW i \in 1 .. Len(s) PROVE k[i] = Step(s, S, k, i)
    <3>1. i \in 0 .. Len(s) /\ i # 0
      BY <1>1
    <3>2. k[i] = Def(k)[i]
      BY <2>3, <3>1
    <3>3. QED
      BY <3>1, <3>2 DEF Step
  <2>6. Trail(s, S, Len(s), k)
    BY <2>2, <2>4, <2>5 DEF Trail
  <2>7. QED
    BY <2>6 DEF k
<1>6. Keep(s, S) = kept[Len(s)]
  BY DEF Keep
<1> HIDE DEF kept
<1>7. kept[Len(s)] = g[Len(s)] /\ kept[Len(s)] = h[Len(s)]
  <2>1. Alike(s, s, Len(s))
    BY DEF Alike
  <2>2. QED
    BY <1>1, <1>2, <1>5, <2>1, TrailsAgree
<1>8. QED
  BY <1>1, <1>2, <1>6, <1>7

LEMMA KeepType ==
    ASSUME NEW X, NEW s \in Seq(X), NEW S
    PROVE  Keep(s, S) \in Seq(X)
BY TrailExists, KeepIsTrail

LEMMA KeepEmpty ==
    ASSUME NEW S
    PROVE  Keep(<<>>, S) = <<>>
<1>1. <<>> \in Seq({}) /\ Len(<<>>) = 0
  OBVIOUS
<1>2. PICK g \in [0 .. Len(<<>>) -> Seq({})] : Trail(<<>>, S, Len(<<>>), g)
  BY <1>1, TrailExists
<1>3. Keep(<<>>, S) = g[0]
  BY <1>1, <1>2, KeepIsTrail
<1>4. QED
  BY <1>2, <1>3 DEF Trail

\* One element more.
LEMMA KeepAppend ==
    ASSUME NEW X, NEW s \in Seq(X), NEW x \in X, NEW S
    PROVE  Keep(Append(s, x), S) = IF x \in S THEN Append(Keep(s, S), x) ELSE Keep(s, S)
<1> DEFINE t == Append(s, x)
           n == Len(s)
<1>1. /\ t \in Seq(X) /\ Len(t) = n + 1 /\ n \in Nat /\ t[n + 1] = x
      /\ \A i \in 1 .. n : s[i] = t[i]
  OBVIOUS
<1> HIDE DEF t
<1>2. PICK g \in [0 .. Len(s) -> Seq(X)] : Trail(s, S, Len(s), g)
  BY TrailExists
<1>3. PICK h \in [0 .. Len(t) -> Seq(X)] : Trail(t, S, Len(t), h)
  BY <1>1, TrailExists
<1>4. Keep(s, S) = g[n] /\ Keep(t, S) = h[n + 1]
  BY <1>1, <1>2, <1>3, KeepIsTrail
<1>5. g[n] = h[n]
  <2> DEFINE m == n + 1
  <2>1. /\ Trail(s, S, n, g) /\ Trail(t, S, m, h)
        /\ n \in Nat /\ m \in Nat /\ n <= n /\ n <= m /\ Alike(s, t, n)
    BY <1>1, <1>2, <1>3 DEF Alike
  <2> HIDE DEF n, m
  <2>2. QED
    BY ONLY <2>1, TrailsAgree
<1>6. h[n + 1] = IF x \in S THEN Append(h[n], x) ELSE h[n]
  <2>1. n + 1 \in 1 .. Len(t) /\ (n + 1) - 1 = n
    BY <1>1
  <2>2. h[n + 1] = Step(t, S, h, n + 1)
    BY <1>3, <2>1 DEF Trail
  <2>3. QED
    BY <1>1, <2>1, <2>2 DEF Step
<1>7. QED
  BY <1>4, <1>5, <1>6 DEF t

\* Keep of joined sequences.
LEMMA KeepConcat ==
    ASSUME NEW X, NEW s \in Seq(X), NEW t \in Seq(X), NEW S
    PROVE  Keep(s \o t, S) = Keep(s, S) \o Keep(t, S)
<1> DEFINE Q == {u \in Seq(X) : Keep(s \o u, S) = Keep(s, S) \o Keep(u, S)}
<1>1. Keep(s, S) \in Seq(X)
  BY KeepType
<1>2. <<>> \in Q
  BY <1>1, KeepEmpty
<1>3. ASSUME NEW u \in Seq(X), NEW x \in X, u \in Q PROVE Append(u, x) \in Q
  <2>1. s \o Append(u, x) = Append(s \o u, x) /\ s \o u \in Seq(X) /\ Append(u, x) \in Seq(X)
    OBVIOUS
  <2>2. Keep(Append(s \o u, x), S) = IF x \in S THEN Append(Keep(s \o u, S), x) ELSE Keep(s \o u, S)
    BY <2>1, KeepAppend
  <2>3. Keep(Append(u, x), S) = IF x \in S THEN Append(Keep(u, S), x) ELSE Keep(u, S)
    BY KeepAppend
  <2>4. Keep(s \o u, S) = Keep(s, S) \o Keep(u, S) /\ Keep(u, S) \in Seq(X)
    BY <1>3, KeepType
  <2>5. Append(Keep(s, S) \o Keep(u, S), x) = Keep(s, S) \o Append(Keep(u, S), x)
    <3>1. ASSUME NEW a \in Seq(X), NEW b \in Seq(X)
          PROVE  a \o Append(b, x) = Append(a \o b, x)
      OBVIOUS
    <3>2. QED
      BY <1>1, <2>4, <3>1
  <2>6. QED
    BY <2>1, <2>2, <2>3, <2>4, <2>5
<1>4. \A u \in Seq(X) : u \in Q
  <2> HIDE DEF Q
  <2>1. QED
    BY <1>2, <1>3, SeqInduction
<1>5. QED
  BY <1>4

\* Keep drops everything, or nothing.
LEMMA KeepNone ==
    ASSUME NEW X, NEW s \in Seq(X), NEW S, \A i \in 1 .. Len(s) : s[i] \notin S
    PROVE  Keep(s, S) = <<>>
<1> DEFINE Q == {u \in Seq(X \ S) : Keep(u, S) = <<>>}
<1>1. <<>> \in Q
  BY KeepEmpty
<1>2. ASSUME NEW u \in Seq(X \ S), NEW x \in X \ S, u \in Q PROVE Append(u, x) \in Q
  BY <1>2, KeepAppend, SMTT(30)
<1>3. \A u \in Seq(X \ S) : u \in Q
  <2> HIDE DEF Q
  <2>1. QED
    BY <1>1, <1>2, SeqInduction
<1>4. s \in Seq(X \ S)
  OBVIOUS
<1>5. QED
  BY <1>3, <1>4

LEMMA KeepAll ==
    ASSUME NEW X, NEW s \in Seq(X), NEW S, \A i \in 1 .. Len(s) : s[i] \in S
    PROVE  Keep(s, S) = s
<1> DEFINE Q == {u \in Seq(S) : Keep(u, S) = u}
<1>1. <<>> \in Q
  BY KeepEmpty
<1>2. ASSUME NEW u \in Seq(S), NEW x \in S, u \in Q PROVE Append(u, x) \in Q
  BY <1>2, KeepAppend
<1>3. \A u \in Seq(S) : u \in Q
  <2> HIDE DEF Q
  <2>1. QED
    BY <1>1, <1>2, SeqInduction
<1>4. s \in Seq(S)
  OBVIOUS
<1>5. QED
  BY <1>3, <1>4

\* All but one element of v: the others move up.
LEMMA KeepAllButOne ==
    ASSUME NEW X, NEW v \in Seq(X), NEW p \in 1 .. Len(v), NEW S, v[p] \notin S,
           \A i \in 1 .. Len(v) : i # p => v[i] \in S
    PROVE  /\ Len(Keep(v, S)) = Len(v) - 1
           /\ \A i \in 1 .. Len(v) - 1 : Keep(v, S)[i] = IF i < p THEN v[i] ELSE v[i + 1]
<1> DEFINE a == SubSeq(v, 1, p - 1)
           c == SubSeq(v, p, p)
           b == SubSeq(v, p + 1, Len(v))
<1>1. Len(v) \in Nat /\ p \in Nat /\ 1 <= p /\ p <= Len(v)
  OBVIOUS
<1>2. a \in Seq(X) /\ Len(a) = p - 1 /\ \A i \in 1 .. p - 1 : a[i] = v[i]
  BY <1>1, FrontPart
<1>3. b \in Seq(X) /\ Len(b) = Len(v) - p /\ \A i \in 1 .. Len(v) - p : b[i] = v[p + i]
  BY <1>1, BackPart
<1>4. c \in Seq(X) /\ Len(c) = 1 /\ c[1] = v[p]
  <2>1. p \in 1 .. Len(v) + 1 /\ p \in p - 1 .. Len(v) /\ p - p + 1 = 1
    BY <1>1
  <2>2. QED
    BY <2>1, Part
<1>5. v = (a \o c) \o b
  <2>1. SubSeq(v, 1, p) = a \o c
    BY <1>1, ConcatAdjacentSubSeq
  <2>2. SubSeq(v, 1, Len(v)) = SubSeq(v, 1, p) \o b
    BY <1>1, ConcatAdjacentSubSeq
  <2>3. QED
    BY <2>1, <2>2, SubSeqFull
<1> HIDE DEF a, b, c
<1>6. Keep(a, S) = a
  BY <1>1, <1>2, KeepAll
<1>7. Keep(b, S) = b
  <2>1. \A i \in 1 .. Len(b) : b[i] \in S
    BY <1>1, <1>3
  <2>2. QED
    BY <1>3, <2>1, KeepAll
<1>8. Keep(c, S) = <<>>
  <2>1. \A i \in 1 .. Len(c) : c[i] \notin S
    BY <1>4
  <2>2. QED
    BY <1>4, <2>1, KeepNone
<1>9. Keep(v, S) = a \o b
  <2> DEFINE ac == a \o c
  <2>1. ac \in Seq(X)
    BY <1>2, <1>4
  <2>2. Keep(ac, S) = Keep(a, S) \o Keep(c, S)
    BY <1>2, <1>4, KeepConcat
  <2>3. v = ac \o b
    BY <1>5
  <2> HIDE DEF ac
  <2>4. Keep(ac \o b, S) = Keep(ac, S) \o Keep(b, S)
    BY <1>3, <2>1, KeepConcat
  <2>5. a \o <<>> = a
    BY <1>2
  <2>6. Keep(ac, S) = a
    BY <1>6, <1>8, <2>2, <2>5
  <2>7. QED
    BY <1>7, <2>3, <2>4, <2>6
<1>10. /\ Len(a \o b) = (p - 1) + (Len(v) - p)
       /\ \A i \in 1 .. p - 1 : (a \o b)[i] = a[i]
       /\ \A i \in 1 .. Len(v) - p : (a \o b)[(p - 1) + i] = b[i]
  <2>1. /\ Len(a \o b) = Len(a) + Len(b)
        /\ \A i \in 1 .. Len(a) : (a \o b)[i] = a[i]
        /\ \A i \in 1 .. Len(b) : (a \o b)[Len(a) + i] = b[i]
    <3>1. a \in Seq(X) /\ b \in Seq(X)
      BY <1>2, <1>3
    <3>2. QED
      BY ONLY <3>1, Joined
  <2>2. QED
    BY <1>1, <1>2, <1>3, <2>1
<1>11. ASSUME NEW i \in 1 .. Len(v) - 1 PROVE (a \o b)[i] = IF i < p THEN v[i] ELSE v[i + 1]
  <2>1. CASE i < p
    BY <1>1, <1>2, <1>10, <2>1
  <2>2. CASE ~(i < p)
    <3> DEFINE k == i - (p - 1)
    <3>1. k \in 1 .. Len(v) - p /\ p + k = i + 1 /\ (p - 1) + k = i
      BY <1>1, <2>2
    <3> HIDE DEF k
    <3>2. QED
      BY <1>1, <1>3, <1>10, <2>2, <3>1
  <2>3. QED
    BY <2>1, <2>2
<1>12. QED
  BY <1>1, <1>9, <1>10, <1>11

-----------------------------------------------------------------------------
(***************************************************************************)
(* FlattenSeq, in the same way.                                            *)
(***************************************************************************)
Flat(ss, n, g) ==
    /\ DOMAIN g = 1 .. n
    /\ \A i \in 1 .. n : g[i] = IF i = 1 THEN ss[i] ELSE g[i - 1] \o ss[i]

LEMMA FlatsAgree ==
    ASSUME NEW s, NEW t, NEW m \in Nat, NEW n \in Nat, NEW g, NEW h, m <= n,
           Flat(s, m, g), Flat(t, n, h), \A i \in 1 .. m : s[i] = t[i]
    PROVE  \A k \in 1 .. m : g[k] = h[k]
<1> DEFINE N == {i \in Nat : i + 1 <= m => g[i + 1] = h[i + 1]}
<1>1. 0 \in N
  <2>1. SUFFICES ASSUME 1 <= m PROVE g[1] = h[1]
    OBVIOUS
  <2>2. 1 \in 1 .. m /\ 1 \in 1 .. n
    BY <2>1
  <2>3. g[1] = s[1] /\ h[1] = t[1]
    BY <2>2 DEF Flat
  <2>4. QED
    BY <2>2, <2>3
<1>2. ASSUME NEW i \in Nat, i \in N PROVE i + 1 \in N
  <2>1. SUFFICES ASSUME (i + 1) + 1 <= m PROVE g[(i + 1) + 1] = h[(i + 1) + 1]
    OBVIOUS
  <2> DEFINE j == (i + 1) + 1
  <2>2. j \in 1 .. m /\ j \in 1 .. n /\ j - 1 = i + 1 /\ j # 1
    BY <2>1
  <2>3. g[i + 1] = h[i + 1]
    BY <1>2, <2>1
  <2> HIDE DEF j
  <2>4. g[j] = g[j - 1] \o s[j] /\ h[j] = h[j - 1] \o t[j]
    BY <2>2 DEF Flat
  <2>5. g[j] = h[j]
    BY <2>2, <2>3, <2>4
  <2>6. QED
    BY <2>5 DEF j
<1>3. \A i \in Nat : i \in N
  <2> HIDE DEF N
  <2>1. QED
    BY <1>1, <1>2, SetInduction
<1>4. ASSUME NEW k \in 1 .. m PROVE g[k] = h[k]
  <2>1. k - 1 \in N /\ (k - 1) + 1 = k
    BY <1>3
  <2>2. QED
    BY <2>1
<1>5. QED
  BY <1>4

LEMMA FlatExists ==
    ASSUME NEW X, NEW ss \in Seq(Seq(X))
    PROVE  \E g \in [1 .. Len(ss) -> Seq(X)] : Flat(ss, Len(ss), g)
<1> DEFINE N == {n \in Nat : n <= Len(ss) => \E g \in [1 .. n -> Seq(X)] : Flat(ss, n, g)}
<1>1. 0 \in N
  <2> DEFINE g == [i \in 1 .. 0 |-> <<>>]
  <2>1. g \in [1 .. 0 -> Seq(X)] /\ Flat(ss, 0, g)
    BY DEF Flat
  <2>2. QED
    BY <2>1
<1>2. ASSUME NEW n \in Nat, n \in N PROVE n + 1 \in N
  <2>1. SUFFICES ASSUME n + 1 <= Len(ss)
                 PROVE  \E h \in [1 .. n + 1 -> Seq(X)] : Flat(ss, n + 1, h)
    OBVIOUS
  <2>2. PICK g \in [1 .. n -> Seq(X)] : Flat(ss, n, g)
    BY <1>2, <2>1
  <2> DEFINE new == IF n = 0 THEN ss[n + 1] ELSE g[n] \o ss[n + 1]
             h == [i \in 1 .. n + 1 |-> IF i = n + 1 THEN new ELSE g[i]]
  <2>3. new \in Seq(X)
    <3>1. ss[n + 1] \in Seq(X) /\ (n # 0 => g[n] \in Seq(X))
      BY <2>1
    <3>2. QED
      BY <3>1
  <2> HIDE DEF new
  <2>4. h \in [1 .. n + 1 -> Seq(X)]
    BY <2>3
  <2>5. ASSUME NEW i \in 1 .. n + 1 PROVE h[i] = IF i = 1 THEN ss[i] ELSE h[i - 1] \o ss[i]
    <3>1. CASE i = n + 1
      <4>1. h[i] = new /\ (n # 0 => h[i - 1] = g[n])
        BY <3>1
      <4> HIDE DEF h
      <4>2. QED
        BY <3>1, <4>1 DEF new
    <3>2. CASE i # n + 1
      <4>1. i \in 1 .. n /\ h[i] = g[i] /\ (i # 1 => h[i - 1] = g[i - 1])
        BY <3>2
      <4> HIDE DEF h
      <4>2. g[i] = IF i = 1 THEN ss[i] ELSE g[i - 1] \o ss[i]
        BY <2>2, <4>1 DEF Flat
      <4>3. QED
        BY <4>1, <4>2
    <3>3. QED
      BY <3>1, <3>2
  <2>6. Flat(ss, n + 1, h)
    <3>1. DOMAIN h = 1 .. n + 1
      OBVIOUS
    <3> HIDE DEF h
    <3>2. QED
      BY <2>5, <3>1 DEF Flat
  <2>7. QED
    BY <2>4, <2>6
<1>3. \A n \in Nat : n \in N
  <2> HIDE DEF N
  <2>1. QED
    BY <1>1, <1>2, SetInduction
<1>4. QED
  BY <1>3

LEMMA FlattenEmpty == FlattenSeq(<<>>) = <<>>
BY DEF FlattenSeq

LEMMA FlattenIsFlat ==
    ASSUME NEW X, NEW ss \in Seq(Seq(X)), ss # <<>>, NEW g, Flat(ss, Len(ss), g)
    PROVE  FlattenSeq(ss) = g[Len(ss)] /\ FlattenSeq(ss) \in Seq(X)
<1> DEFINE Def(f) == [i \in 1 .. Len(ss) |-> IF i = 1 THEN ss[i] ELSE f[i - 1] \o ss[i]]
           flat == CHOOSE f : f = Def(f)
<1>1. Len(ss) \in Nat \ {0}
  OBVIOUS
<1>2. PICK h \in [1 .. Len(ss) -> Seq(X)] : Flat(ss, Len(ss), h)
  BY FlatExists
<1>3. h = Def(h)
  BY <1>2 DEF Flat
<1>4. flat = Def(flat)
  BY <1>3
<1>5. Flat(ss, Len(ss), flat)
  <2> DEFINE k == flat
  <2>1. k = Def(k)
    BY <1>4
  <2> HIDE DEF k
  <2>2. DOMAIN k = 1 .. Len(ss)
    BY <2>1
  <2>3. \A i \in 1 .. Len(ss) : k[i] = Def(k)[i]
    BY <2>1, Zenon
  <2>4. Flat(ss, Len(ss), k)
    BY <2>2, <2>3 DEF Flat
  <2>5. QED
    BY <2>4 DEF k
<1>6. FlattenSeq(ss) = flat[Len(ss)]
  BY <1>1 DEF FlattenSeq
<1> HIDE DEF flat
<1>7. flat[Len(ss)] = g[Len(ss)] /\ flat[Len(ss)] = h[Len(ss)]
  <2> DEFINE n == Len(ss)
  <2>1. /\ n \in Nat /\ n # 0 /\ n <= n /\ \A i \in 1 .. n : ss[i] = ss[i]
        /\ Flat(ss, n, flat) /\ Flat(ss, n, g) /\ Flat(ss, n, h)
    BY <1>1, <1>2, <1>5
  <2> HIDE DEF n
  <2>2. \A k \in 1 .. n : flat[k] = g[k] /\ flat[k] = h[k]
    BY ONLY <2>1, FlatsAgree
  <2>3. flat[n] = g[n] /\ flat[n] = h[n]
    BY <2>1, <2>2
  <2>4. QED
    BY <2>3 DEF n
<1>8. h[Len(ss)] \in Seq(X)
  <2>1. h \in [1 .. Len(ss) -> Seq(X)] /\ Len(ss) \in 1 .. Len(ss)
    BY <1>1, <1>2
  <2>2. QED
    BY <2>1, Zenon
<1>9. FlattenSeq(ss) = g[Len(ss)] /\ FlattenSeq(ss) = h[Len(ss)]
  BY <1>6, <1>7, Zenon
<1>10. QED
  BY ONLY <1>8, <1>9

LEMMA FlattenType ==
    ASSUME NEW X, NEW ss \in Seq(Seq(X))
    PROVE  FlattenSeq(ss) \in Seq(X)
<1>1. CASE ss = <<>>
  <2>1. FlattenSeq(ss) = <<>>
    BY <1>1, FlattenEmpty, Zenon
  <2>2. QED
    BY <2>1
<1>2. CASE ss # <<>>
  <2>1. PICK g \in [1 .. Len(ss) -> Seq(X)] : Flat(ss, Len(ss), g)
    BY FlatExists
  <2>2. QED
    BY <1>2, <2>1, FlattenIsFlat
<1>3. QED
  BY <1>1, <1>2

\* One sequence more.
LEMMA FlattenAppend ==
    ASSUME NEW X, NEW ss \in Seq(Seq(X)), NEW x \in Seq(X)
    PROVE  FlattenSeq(Append(ss, x)) = FlattenSeq(ss) \o x
<1> DEFINE tt == Append(ss, x)
           n == Len(ss)
<1>1. /\ tt \in Seq(Seq(X)) /\ Len(tt) = n + 1 /\ n \in Nat /\ tt[n + 1] = x /\ tt # <<>>
      /\ \A i \in 1 .. n : ss[i] = tt[i]
  OBVIOUS
<1> HIDE DEF tt
<1>2. PICK h \in [1 .. Len(tt) -> Seq(X)] : Flat(tt, Len(tt), h)
  BY <1>1, FlatExists
<1>3. FlattenSeq(tt) = h[n + 1]
  BY <1>1, <1>2, FlattenIsFlat
<1>4. n + 1 \in 1 .. Len(tt) /\ (n + 1) - 1 = n
  BY <1>1
<1>5. h[n + 1] = IF n + 1 = 1 THEN tt[n + 1] ELSE h[(n + 1) - 1] \o tt[n + 1]
  BY <1>2, <1>4 DEF Flat
<1>6. CASE ss = <<>>
  <2>1. h[n + 1] = x /\ FlattenSeq(ss) = <<>>
    BY <1>1, <1>5, <1>6, FlattenEmpty
  <2>2. QED
    BY <1>3, <2>1 DEF tt
<1>7. CASE ss # <<>>
  <2>1. n \in Nat \ {0}
    BY <1>7
  <2> DEFINE f == [i \in 1 .. n |-> h[i]]
  <2>2. ASSUME NEW i \in 1 .. n PROVE f[i] = IF i = 1 THEN ss[i] ELSE f[i - 1] \o ss[i]
    <3>1. /\ i \in 1 .. Len(tt) /\ f[i] = h[i] /\ (i # 1 => f[i - 1] = h[i - 1])
          /\ ss[i] = tt[i]
      BY <1>1
    <3> HIDE DEF f
    <3>2. h[i] = IF i = 1 THEN tt[i] ELSE h[i - 1] \o tt[i]
      BY <1>2, <3>1 DEF Flat
    <3>3. QED
      BY <3>1, <3>2
  <2>3. FlattenSeq(ss) = h[n]
    <3>1. DOMAIN f = 1 .. Len(ss) /\ f[Len(ss)] = h[n]
      BY <2>1
    <3> HIDE DEF f
    <3>2. Flat(ss, Len(ss), f)
      BY <2>2, <3>1 DEF Flat
    <3>3. FlattenSeq(ss) = f[Len(ss)]
      BY <1>7, <3>2, FlattenIsFlat
    <3>4. QED
      BY <3>1, <3>3
  <2>4. h[n + 1] = h[n] \o x
    BY <1>1, <1>4, <1>5, <2>1
  <2>5. QED
    BY <1>3, <2>3, <2>4 DEF tt
<1>8. QED
  BY <1>6, <1>7

=============================================================================
