------------------------- MODULE TelnetSocketProofs -------------------------
(***************************************************************************)
(* Proofs about TelnetSocket, for every stream the peer sends, every way   *)
(* to cut it into chunks and any set of listeners.                         *)
(***************************************************************************)
EXTENDS TelnetSocket, DataLemmas, FiniteSetTheorems, SequenceTheorems, TLAPS

-----------------------------------------------------------------------------
(***************************************************************************)
(* The listeners.                                                          *)
(***************************************************************************)

\* A listener is in the vector once, although std::remove leaves the vector as long
\* as it was.
UniqueInv ==
    \A i, j \in DOMAIN listeners : listeners[i] = listeners[j] /\ listeners[i] # Null => i = j

\* One that was added and not removed is there.
ExpectedInv == \A l \in expected : \E i \in DOMAIN listeners : listeners[i] = l

NullAhead == \E i \in at .. until : listeners[i] = Null
Ahead(l) == \E i \in at .. until : listeners[i] = l
ToldOnce(l) == \E i \in DOMAIN told : told[i] = l /\ \A j \in DOMAIN told : told[j] = l => i = j
Untold(l) == \A i \in DOMAIN told : told[i] # l

\* In a loop that will not end at a null pointer, a listener that is due is either still
\* to come and was not called, or was called once.
LoopInv ==
    at # 0 => \/ NullAhead
              \/ \A l \in due : (Ahead(l) /\ Untold(l)) \/ (~Ahead(l) /\ ToldOnce(l))

ListInv == ListTypeOK /\ UniqueInv /\ ExpectedInv /\ LoopInv

\* std::remove of the listener at index p: at the end nothing changes; elsewhere those
\* behind it move up, and the last one is null.
Shifted(v, p) ==
    [i \in DOMAIN v |-> IF p = Len(v) \/ i < p THEN v[i] ELSE IF i < Len(v) THEN v[i + 1] ELSE Null]

LEMMA RemovedIsShifted ==
    ASSUME ListTypeOK, UniqueInv, NEW l \in Listeners, NEW p \in DOMAIN listeners, listeners[p] = l
    PROVE  Removed(l) = Shifted(listeners, p)
<1> DEFINE T == Listeners \cup {Null}
           S == T \ {l}
           v == listeners
           kept == Keep(v, S)
<1>1. v \in Seq(T) /\ p \in 1 .. Len(v) /\ Len(v) \in Nat /\ l \in T /\ DOMAIN v = 1 .. Len(v)
  BY DEF ListTypeOK
<1>2. v[p] \notin S /\ \A i \in 1 .. Len(v) : v[i] \in T /\ (i # p => v[i] # l /\ v[i] \in S)
  BY <1>1, ListenersAssumption DEF UniqueInv
<1>3. Removed(l) = [i \in DOMAIN v |-> IF i <= Len(kept) THEN kept[i] ELSE IF v[i] = l THEN l ELSE Null]
  BY DEF Removed
<1> HIDE DEF T, S
<1>4. Len(kept) = Len(v) - 1 /\ \A i \in 1 .. Len(v) - 1 : kept[i] = IF i < p THEN v[i] ELSE v[i + 1]
  BY <1>1, <1>2, KeepAllButOne
<1>5. ASSUME NEW i \in DOMAIN v
      PROVE  (IF i <= Len(kept) THEN kept[i] ELSE IF v[i] = l THEN l ELSE Null) = Shifted(v, p)[i]
  <2> HIDE DEF kept
  <2>1. CASE i = Len(v)
    BY <1>1, <1>2, <1>4, <2>1 DEF Shifted
  <2>2. CASE i # Len(v)
    <3>1. i \in 1 .. Len(v) - 1
      BY <1>1, <2>2
    <3>2. QED
      BY <1>1, <1>4, <3>1 DEF Shifted
  <2>3. QED
    BY <2>1, <2>2
<1> HIDE DEF v, kept
<1>6. QED
  BY <1>3, <1>5 DEF Shifted, v

LEMMA ListInitially == ListInit => ListInv
<1> USE DEF ListInit
<1>1. ListInit => ListTypeOK
  <2>1. SUFFICES ASSUME ListInit PROVE ListTypeOK
    OBVIOUS
  <2>2. crashed \in BOOLEAN
    BY <2>1
  <2>3. QED
    BY <2>1, <2>2, ListenersAssumption DEF ListTypeOK
<1>2. ListInit => UniqueInv /\ ExpectedInv /\ LoopInv
  BY DEF UniqueInv, ExpectedInv, LoopInv
<1>3. QED
  BY <1>1, <1>2 DEF ListInv

LEMMA AddKeepsList ==
    ASSUME ListInv, NEW l \in Listeners, AddListener(l)
    PROVE  ListInv'
<1> USE DEF ListInv
<1>1. /\ listeners \in Seq(Listeners \cup {Null}) /\ listeners' = Added(l) /\ l # Null
      /\ UNCHANGED <<at, until, told, due>> /\ expected' = expected \cup {l}
      /\ until \in 0 .. Len(listeners) /\ at \in 0 .. until + 1
  BY ListenersAssumption DEF ListTypeOK, AddListener, loopVars
<1>2. /\ listeners' \in Seq(Listeners \cup {Null}) /\ Len(listeners) <= Len(listeners')
      /\ \A i \in DOMAIN listeners : i \in DOMAIN listeners' /\ listeners'[i] = listeners[i]
      /\ \E i \in DOMAIN listeners' : listeners'[i] = l
  BY <1>1 DEF Added, Contains
<1>3. ListTypeOK'
  <2>1. crashed' \in BOOLEAN
    <3>1. crashed' \in IF at # 0 /\ ~Contains(listeners, l) THEN BOOLEAN ELSE {FALSE}
      BY DEF AddListener
    <3>2. QED
      BY <3>1, Zenon
  <2>2. /\ listOps' \in 0 .. MaxListOps /\ expected' \subseteq Listeners /\ told' \in Seq(Listeners)
        /\ due' \subseteq expected'
    BY <1>1, ListenersAssumption DEF ListTypeOK, AddListener, MayChange
  <2>3. until' \in 0 .. Len(listeners') /\ at' \in 0 .. until' + 1
    BY <1>1, <1>2
  <2>4. QED
    BY <1>1, <1>2, <2>1, <2>2, <2>3 DEF ListTypeOK
<1>4. UniqueInv'
  <2>1. CASE Contains(listeners, l)
    BY <1>1, <2>1 DEF UniqueInv, Added
  <2>2. CASE ~Contains(listeners, l)
    <3>1. listeners' = Append(listeners, l) /\ \A i \in 1 .. Len(listeners) : listeners[i] # l
      BY <1>1, <2>2 DEF Added, Contains
    <3>2. QED
      BY <1>1, <3>1 DEF UniqueInv
  <2>3. QED
    BY <2>1, <2>2
<1>5. ExpectedInv'
  BY <1>1, <1>2 DEF ExpectedInv
<1>6. LoopInv'
  <2>1. CASE at = 0
    BY <1>1, <2>1 DEF LoopInv
  <2>2. CASE at # 0
    <3>1. \A i \in at .. until : i \in DOMAIN listeners /\ listeners'[i] = listeners[i]
      BY <1>1, <1>2, <2>2
    <3>2. NullAhead' <=> NullAhead
      BY <1>1, <3>1 DEF NullAhead
    <3>3. \A m : /\ Ahead(m)' <=> Ahead(m)
                 /\ Untold(m)' <=> Untold(m)
                 /\ ToldOnce(m)' <=> ToldOnce(m)
      BY <1>1, <3>1 DEF Ahead, Untold, ToldOnce
    <3>4. QED
      BY <1>1, <3>2, <3>3 DEF LoopInv
  <2>3. QED
    BY <2>1, <2>2
<1>7. QED
  BY <1>3, <1>4, <1>5, <1>6

LEMMA RemoveKeepsList ==
    ASSUME ListInv, NEW l \in Listeners, RemoveListener(l)
    PROVE  ListInv'
<1> USE DEF ListInv
<1> DEFINE v == listeners
           w == listeners'
<1>1. /\ v \in Seq(Listeners \cup {Null}) /\ l # Null
      /\ until \in 0 .. Len(v) /\ at \in 0 .. until + 1
      /\ DOMAIN v = 1 .. Len(v) /\ Len(v) \in Nat
      /\ expected' = expected \ {l} /\ UNCHANGED <<at, until, told, crashed>>
      /\ due' \subseteq due \ {l} /\ (until < Len(v) => due' = {})
  BY ListenersAssumption DEF ListTypeOK, RemoveListener, loopVars
<1>2. /\ crashed' \in BOOLEAN /\ listOps' \in 0 .. MaxListOps /\ expected' \subseteq Listeners
      /\ told' \in Seq(Listeners) /\ due' \subseteq expected'
  <2>1. crashed' \in BOOLEAN
    BY <1>1 DEF ListTypeOK
  <2>2. QED
    BY <1>1, <2>1, ListenersAssumption DEF ListTypeOK, RemoveListener, MayChange
<1>3. CASE w = v
  <2>1. ListTypeOK'
    BY <1>2, <1>1, <1>3 DEF ListTypeOK
  <2>2. UniqueInv' /\ ExpectedInv'
    BY <1>1, <1>3 DEF UniqueInv, ExpectedInv
  <2>3. LoopInv'
    BY <1>1, <1>3 DEF LoopInv, NullAhead, Ahead, Untold, ToldOnce
  <2>4. QED
    BY <2>1, <2>2, <2>3
<1>4. CASE w # v
  <2>1. PICK p \in DOMAIN v : v[p] = l
    BY <1>1, <1>4 DEF Contains, RemoveListener
  <2>2. w = Shifted(v, p)
    BY <1>4, <2>1, RemovedIsShifted DEF RemoveListener
  <2>3. p # Len(v)
    <3>1. SUFFICES ASSUME p = Len(v) PROVE w = v
      BY <1>4
    <3>2. w = [i \in DOMAIN v |-> v[i]]
      BY <2>2, <3>1 DEF Shifted
    <3>3. QED
      BY <1>1, <3>2
  <2>4. /\ DOMAIN w = 1 .. Len(v)
        /\ \A i \in 1 .. Len(v) : w[i] = IF i < p THEN v[i] ELSE IF i < Len(v) THEN v[i + 1] ELSE Null
    BY <1>1, <2>2, <2>3 DEF Shifted
  <2> HIDE DEF w
  <2>5. w \in [1 .. Len(v) -> Listeners \cup {Null}]
    <3>1. w = [i \in 1 .. Len(v) |-> w[i]]
      BY <1>1, <2>2, <2>4 DEF Shifted
    <3>2. \A i \in 1 .. Len(v) : w[i] \in Listeners \cup {Null}
      BY <1>1, <2>4
    <3>3. QED
      BY <3>1, <3>2
  <2>6. w \in Seq(Listeners \cup {Null}) /\ Len(w) = Len(v) /\ w[Len(v)] = Null
    BY <1>1, <2>1, <2>4, <2>5
  <2>7. ListTypeOK'
    BY <1>2, <1>1, <2>6 DEF ListTypeOK, w
  <2>8. ASSUME NEW i \in 1 .. Len(v), NEW j \in 1 .. Len(v), w[i] = w[j], w[i] # Null PROVE i = j
    <3> DEFINE up(k) == IF k < p THEN k ELSE k + 1
    <3>1. \A k \in {i, j} : up(k) \in 1 .. Len(v) /\ w[k] = v[up(k)]
      BY <1>1, <2>1, <2>3, <2>4, <2>8
    <3>2. up(i) = up(j)
      BY <1>1, <2>8, <3>1 DEF UniqueInv
    <3>3. QED
      BY <1>1, <2>1, <3>2
  <2>9. UniqueInv'
    BY <2>4, <2>8 DEF UniqueInv, w
  <2>10. ASSUME NEW m \in expected' PROVE \E i \in 1 .. Len(v) : w[i] = m
    <3>1. m \in expected /\ m # l
      BY <1>1
    <3>2. PICK i \in DOMAIN v : v[i] = m
      BY <3>1 DEF ExpectedInv
    <3>3. i # p
      BY <2>1, <3>1, <3>2
    <3>4. CASE i < p
      BY <1>1, <2>1, <2>4, <3>2, <3>4
    <3>5. CASE i > p
      <4>1. i - 1 \in 1 .. Len(v) /\ w[i - 1] = v[i]
        BY <1>1, <2>1, <2>4, <3>5
      <4>2. QED
        BY <3>2, <4>1
    <3>6. QED
      BY <1>1, <2>1, <3>3, <3>4, <3>5
  <2>11. ExpectedInv'
    BY <2>4, <2>10 DEF ExpectedInv, w
  <2>12. LoopInv'
    <3>1. CASE until < Len(v)
      BY <1>1, <3>1 DEF LoopInv
    <3>2. CASE until = Len(v) /\ at <= Len(v)
      <4>1. NullAhead'
        BY <1>1, <2>1, <2>4, <2>6, <3>2 DEF NullAhead, w
      <4>2. QED
        BY <4>1 DEF LoopInv
    <3>3. CASE until = Len(v) /\ at = Len(v) + 1
      <4>1. ~NullAhead /\ \A m : ~Ahead(m)
        BY <1>1, <3>3 DEF NullAhead, Ahead
      <4>2. \A m \in due : ToldOnce(m)
        BY <1>1, <3>3, <4>1 DEF LoopInv
      <4>3. \A m : ~Ahead(m)'
        BY <1>1, <3>3 DEF Ahead
      <4>4. \A m \in due' : ToldOnce(m)'
        BY <1>1, <4>2 DEF ToldOnce
      <4>5. QED
        BY <4>3, <4>4 DEF LoopInv
    <3>4. \/ until < Len(v)
          \/ until = Len(v) /\ at <= Len(v)
          \/ until = Len(v) /\ at = Len(v) + 1
      <4>1. Len(v) \in Nat /\ until \in 0 .. Len(v) /\ at \in 0 .. until + 1
        BY <1>1
      <4>2. QED
        BY ONLY <4>1
    <3>5. QED
      BY <3>1, <3>2, <3>3, <3>4
  <2>13. QED
    BY <2>7, <2>9, <2>11, <2>12
<1>5. QED
  BY <1>3, <1>4

LEMMA BeginKeepsList ==
    ASSUME ListInv, at = 0, NotifyBegin
    PROVE  ListInv'
<1> USE DEF ListInv, NotifyBegin
<1>1. ListTypeOK' /\ UniqueInv' /\ ExpectedInv'
  BY DEF ListTypeOK, UniqueInv, ExpectedInv
<1>2. LoopInv'
  BY DEF ListTypeOK, ExpectedInv, LoopInv, Ahead, Untold
<1>3. QED
  BY <1>1, <1>2

LEMMA EndKeepsList ==
    ASSUME ListInv, NotifyEnd
    PROVE  ListInv'
BY DEF ListInv, NotifyEnd, ListTypeOK, UniqueInv, ExpectedInv, LoopInv

LEMMA NextKeepsList ==
    ASSUME ListInv, NotifyNext
    PROVE  ListInv'
<1> USE DEF ListInv
<1>1. /\ listeners \in Seq(Listeners \cup {Null}) /\ at \in DOMAIN listeners /\ at \in 1 .. until
      /\ until \in 0 .. Len(listeners)
      /\ DOMAIN listeners = 1 .. Len(listeners) /\ Len(listeners) \in Nat /\ told \in Seq(Listeners)
      /\ UNCHANGED <<listeners, until, expected, due, listOps>>
  BY DEF ListTypeOK, NotifyNext
<1>2. CASE listeners[at] = Null
  <2>1. crashed' = TRUE /\ UNCHANGED <<at, told>>
    BY <1>2 DEF NotifyNext
  <2>2. ListTypeOK'
    BY <1>1, <2>1 DEF ListTypeOK
  <2>3. UniqueInv' /\ ExpectedInv' /\ LoopInv'
    BY <1>1, <2>1 DEF UniqueInv, ExpectedInv, LoopInv, NullAhead, Ahead, Untold, ToldOnce
  <2>4. QED
    BY <2>2, <2>3
<1>3. CASE listeners[at] # Null
  <2>1. /\ at' = at + 1 /\ told' = Append(told, listeners[at]) /\ UNCHANGED crashed
        /\ listeners[at] \in Listeners
    BY <1>1, <1>3 DEF NotifyNext
  <2>2. ListTypeOK'
    BY <1>1, <2>1 DEF ListTypeOK
  <2>3. UniqueInv' /\ ExpectedInv'
    BY <1>1, <2>1 DEF UniqueInv, ExpectedInv
  <2>4. LoopInv'
    <3>1. CASE NullAhead
      <4>1. NullAhead'
        BY <1>1, <1>3, <2>1, <3>1 DEF NullAhead
      <4>2. QED
        BY <4>1 DEF LoopInv
    <3>2. CASE ~NullAhead
      <4>1. ASSUME NEW l \in due
            PROVE  (Ahead(l)' /\ Untold(l)') \/ (~Ahead(l)' /\ ToldOnce(l)')
        <5>1. l \in Listeners /\ ((Ahead(l) /\ Untold(l)) \/ (~Ahead(l) /\ ToldOnce(l)))
          BY <1>1, <3>2 DEF LoopInv, ListTypeOK
        <5>2. /\ DOMAIN told' = 1 .. Len(told) + 1 /\ told'[Len(told) + 1] = listeners[at]
              /\ DOMAIN told = 1 .. Len(told) /\ \A i \in 1 .. Len(told) : told'[i] = told[i]
          BY <1>1, <2>1
        <5>3. CASE listeners[at] = l
          <6>1. Ahead(l) /\ Untold(l)
            BY <1>1, <5>1, <5>3 DEF Ahead
          <6>2. ~Ahead(l)'
            BY <1>1, <1>3, <2>1, <5>3 DEF Ahead, UniqueInv
          <6>3. ToldOnce(l)'
            <7>1. \A j \in 1 .. Len(told) : told'[j] # l
              BY <5>2, <6>1 DEF Untold
            <7>2. \A j \in DOMAIN told' : told'[j] = l => Len(told) + 1 = j
              BY <1>1, <5>2, <7>1
            <7>3. Len(told) + 1 \in DOMAIN told'
              BY <1>1, <5>2
            <7>4. QED
              BY <5>2, <5>3, <7>2, <7>3 DEF ToldOnce
          <6>4. QED
            BY <6>2, <6>3
        <5>4. CASE listeners[at] # l
          <6>1. Ahead(l)' <=> Ahead(l)
            <7>1. \A i \in at .. until : listeners[i] = l => i \in at + 1 .. until
              BY <1>1, <5>4
            <7>2. QED
              BY <1>1, <2>1, <7>1 DEF Ahead
          <6>2. Untold(l) => Untold(l)'
            BY <1>1, <5>2, <5>4 DEF Untold
          <6>3. ToldOnce(l) => ToldOnce(l)'
            BY <1>1, <5>2, <5>4 DEF ToldOnce
          <6>4. QED
            BY <5>1, <6>1, <6>2, <6>3
        <5>5. QED
          BY <5>3, <5>4
      <4>2. QED
        BY <1>1, <4>1 DEF LoopInv
    <3>3. QED
      BY <3>1, <3>2
  <2>5. QED
    BY <2>2, <2>3, <2>4
<1>4. QED
  BY <1>2, <1>3

\* The loop runs while read_to_buffer is in notify_did_read.
LoopAt == at # 0 => rpc = "notify"

LEMMA StepKeepsList ==
    ASSUME ListInv, LoopAt, [Next]_vars
    PROVE  ListInv' /\ LoopAt'
<1>1. CASE UNCHANGED listVars
  <2>1. ListInv'
    BY <1>1 DEF listVars, loopVars, ListInv, ListTypeOK, UniqueInv, ExpectedInv, LoopInv, NullAhead, Ahead,
                Untold, ToldOnce
  <2>2. at # 0 => rpc' = rpc
    BY <1>1 DEF LoopAt, vars, Next, Recv, OnRecv, Escaped, HandleTelopt, HandleSubNeg,
                HandleSubNegInverted, Scanning, OtherCommand, AppendChunk, Notify, ReadReturns,
                Readln, ChangeListeners, NotifyBegin, NotifyEnd, listVars, loopVars
  <2>3. QED
    BY <1>1, <2>1, <2>2 DEF LoopAt, listVars, loopVars
<1>2. CASE AppendChunk
  <2>1. at = 0
    BY <1>2 DEF LoopAt, AppendChunk
  <2>2. QED
    BY <1>2, <2>1, BeginKeepsList DEF AppendChunk, LoopAt
<1>3. CASE Notify
  BY <1>3, NextKeepsList DEF Notify, LoopAt
<1>4. CASE ReadReturns
  BY <1>4, EndKeepsList DEF ReadReturns, NotifyEnd, LoopAt
<1>5. CASE ChangeListeners
  <2>1. PICK l \in Listeners : AddListener(l) \/ RemoveListener(l)
    BY <1>5 DEF ChangeListeners
  <2>2. LoopAt'
    BY <1>5, <2>1 DEF ChangeListeners, LoopAt, AddListener, RemoveListener, loopVars
  <2>3. QED
    BY <2>1, <2>2, AddKeepsList, RemoveKeepsList
<1>6. CASE HandleSubNegInverted
  <2>1. /\ UNCHANGED <<listeners, at, until, told, expected, due, listOps>>
        /\ crashed' \in BOOLEAN /\ at = 0
    BY <1>6 DEF HandleSubNegInverted, Scanning, LoopAt, loopVars
  <2>2. ListTypeOK'
    BY <2>1 DEF ListInv, ListTypeOK
  <2>3. UniqueInv' /\ ExpectedInv' /\ LoopInv'
    BY <2>1 DEF ListInv, UniqueInv, ExpectedInv, LoopInv
  <2>4. QED
    BY <2>1, <2>2, <2>3 DEF ListInv, LoopAt
<1>7. QED
  BY <1>1, <1>2, <1>3, <1>4, <1>5, <1>6
     DEF vars, Next, Recv, OnRecv, Escaped, HandleTelopt, HandleSubNeg, OtherCommand, Readln

LEMMA ListAlways == Spec => [](ListInv /\ LoopAt)
<1>1. Init => ListInv /\ LoopAt
  BY ListInitially DEF Init, ListInit, LoopAt
<1>2. ListInv /\ LoopAt /\ [Next]_vars => (ListInv /\ LoopAt)'
  BY StepKeepsList
<1>3. QED
  BY <1>1, <1>2, PTL DEF Spec

\* RoundTellsAll, for any set of listeners: whenever notify_did_read comes to the end its
\* loop began with (buffered_socket.cpp), also when listeners added others, or removed
\* themselves or others, on the way, each that was there at the beginning and was not
\* removed has been called, and only once; unless one was removed after an addition.
THEOREM RoundIsComplete == Spec => RoundTellsAll
<1> DEFINE Called == at # 0 /\ at' = 0
               => \A l \in due : Cardinality({i \in DOMAIN told : told[i] = l}) = 1
<1>1. ASSUME ListInv, [Next]_vars PROVE Called
  <2>1. SUFFICES ASSUME at # 0, at' = 0, NEW l \in due
                 PROVE  Cardinality({i \in DOMAIN told : told[i] = l}) = 1
    OBVIOUS
  <2>2. at > until /\ at \in Nat /\ until \in Nat
    <3>1. at \in Nat /\ until \in Nat
      BY <1>1 DEF ListInv, ListTypeOK
    <3>2. ReadReturns
      <4>1. ~ UNCHANGED listVars
        BY <2>1 DEF listVars, loopVars
      <4>2. ~AppendChunk /\ ~ChangeListeners
        <5>1. ASSUME NEW m \in Listeners, AddListener(m) \/ RemoveListener(m) PROVE at' = at
          BY <5>1 DEF AddListener, RemoveListener, loopVars
        <5>2. QED
          BY <2>1, <5>1 DEF AppendChunk, NotifyBegin, ChangeListeners
      <4>3. ~Notify
        BY <2>1, <3>1 DEF Notify, NotifyNext
      <4>4. ~HandleSubNegInverted
        BY <2>1 DEF HandleSubNegInverted, loopVars
      <4>5. QED
        BY <1>1, <4>1, <4>2, <4>3, <4>4
           DEF vars, Next, Recv, OnRecv, Escaped, HandleTelopt, HandleSubNeg, OtherCommand, Readln
    <3>3. QED
      BY <3>1, <3>2 DEF ReadReturns, NotifyEnd
  <2>3. ~NullAhead /\ ~Ahead(l)
    BY <2>2 DEF NullAhead, Ahead
  <2>4. ToldOnce(l)
    BY <1>1, <2>1, <2>3 DEF ListInv, LoopInv
  <2>5. PICK i \in DOMAIN told : {j \in DOMAIN told : told[j] = l} = {i}
    BY <2>4 DEF ToldOnce
  <2>6. Cardinality({i}) = 1
    BY FS_Singleton
  <2>7. QED
    BY <2>5, <2>6
<1>2. ListInv /\ [Next]_vars => [Called]_vars
  BY <1>1
<1>3. QED
  BY <1>2, ListAlways, PTL DEF RoundTellsAll, Spec
-----------------------------------------------------------------------------
(***************************************************************************)
(* The stream: the items of the peer, one after the other.                 *)
(***************************************************************************)

Cell == [byte : Bytes, last : BOOLEAN]
Stream(s) == FlattenSeq([i \in DOMAIN s |-> Marked(Encode(s[i]))])

\* The position of the last byte of each item.
Ends(s) == [i \in 0 .. Len(s) |-> Len(Stream(SubSeq(s, 1, i)))]

\* The byte sequence of an item, for each kind.
LEMMA Encoded ==
    ASSUME NEW x \in Items
    PROVE  /\ x = "text" => Encode(x) = <<"a">>
           /\ x = "newline" => Encode(x) = <<"nl">>
           /\ x = "option" => Encode(x) = <<"IAC", "OPT", "o">>
           /\ x = "subneg" => Encode(x) = <<"IAC", "SB", "o", "x", "IAC", "SE">>
           /\ x = "emptysubneg" => Encode(x) = <<"IAC", "SB", "o", "IAC", "SE">>
           /\ x = "escape" => Encode(x) = <<"IAC", "IAC">>
           /\ x = "command" => Encode(x) = <<"IAC", "CMD">>
           /\ x = "textWILL" => Encode(x) = <<"aOPT">>
           /\ x = "textSB" => Encode(x) = <<"aSB">>
           /\ x = "subneg255" => Encode(x) = <<"IAC", "SB", "o", "IAC", "IAC", "xOPT", "x", "IAC", "SE">>
           /\ x = "notypesubneg" => Encode(x) = <<"IAC", "SB", "IAC", "SE">>
BY DEF Encode

LEMMA EncodeType ==
    ASSUME NEW x \in Items
    PROVE  Encode(x) \in Seq(Bytes) /\ Len(Encode(x)) \in Nat \ {0}
<1>1. \A b \in {"IAC", "OPT", "SB", "SE", "CMD", "o", "x", "a", "nl", "aOPT", "aSB", "xOPT"} : b \in Bytes
  BY DEF Bytes
<1>2. <<"a">> \in Seq(Bytes) /\ Len(<<"a">>) \in Nat \ {0}
  BY <1>1
<1>3. <<"nl">> \in Seq(Bytes) /\ Len(<<"nl">>) \in Nat \ {0}
  BY <1>1
<1>4. <<"IAC", "OPT", "o">> \in Seq(Bytes) /\ Len(<<"IAC", "OPT", "o">>) \in Nat \ {0}
  BY <1>1
<1>5. /\ <<"IAC", "SB", "o", "x", "IAC", "SE">> \in Seq(Bytes)
      /\ Len(<<"IAC", "SB", "o", "x", "IAC", "SE">>) \in Nat \ {0}
  BY <1>1
<1>6. <<"IAC", "SB", "o", "IAC", "SE">> \in Seq(Bytes) /\ Len(<<"IAC", "SB", "o", "IAC", "SE">>) \in Nat \ {0}
  BY <1>1
<1>7. <<"IAC", "IAC">> \in Seq(Bytes) /\ Len(<<"IAC", "IAC">>) \in Nat \ {0}
  BY <1>1
<1>8. <<"IAC", "CMD">> \in Seq(Bytes) /\ Len(<<"IAC", "CMD">>) \in Nat \ {0}
  BY <1>1
<1>9. <<"aOPT">> \in Seq(Bytes) /\ Len(<<"aOPT">>) \in Nat \ {0}
  BY <1>1
<1>10. <<"aSB">> \in Seq(Bytes) /\ Len(<<"aSB">>) \in Nat \ {0}
  BY <1>1
<1>11. /\ <<"IAC", "SB", "o", "IAC", "IAC", "xOPT", "x", "IAC", "SE">> \in Seq(Bytes)
       /\ Len(<<"IAC", "SB", "o", "IAC", "IAC", "xOPT", "x", "IAC", "SE">>) \in Nat \ {0}
  BY <1>1
<1>12. <<"IAC", "SB", "IAC", "SE">> \in Seq(Bytes) /\ Len(<<"IAC", "SB", "IAC", "SE">>) \in Nat \ {0}
  BY <1>1
<1>13. QED
  BY <1>2, <1>3, <1>4, <1>5, <1>6, <1>7, <1>8, <1>9, <1>10, <1>11, <1>12, Encoded, Zenon DEF Items

LEMMA MarkedType ==
    ASSUME NEW b \in Seq(Bytes)
    PROVE  /\ Marked(b) \in Seq(Cell) /\ Len(Marked(b)) = Len(b)
           /\ \A j \in 1 .. Len(b) : Marked(b)[j] = [byte |-> b[j], last |-> j = Len(b)]
<1> DEFINE n == Len(b)
           m == [i \in 1 .. n |-> [byte |-> b[i], last |-> i = Len(b)]]
<1>1. n \in Nat /\ Marked(b) = m
  BY DEF Marked
<1>2. ASSUME NEW i \in 1 .. n PROVE [byte |-> b[i], last |-> i = Len(b)] \in Cell
  <2>1. b[i] \in Bytes
    OBVIOUS
  <2>2. (i = Len(b)) \in BOOLEAN
    OBVIOUS
  <2>3. QED
    BY <2>1, <2>2 DEF Cell
<1>3. m \in [1 .. n -> Cell]
  BY <1>2
<1>4. m \in Seq(Cell) /\ Len(m) = n
  <2>1. DOMAIN m = 1 .. n
    OBVIOUS
  <2> HIDE DEF m
  <2>2. QED
    BY <1>1, <1>3, <2>1
<1>5. QED
  BY <1>1, <1>4

LEMMA StreamAppend ==
    ASSUME NEW s \in Seq(Items), NEW x \in Items
    PROVE  Stream(Append(s, x)) = Stream(s) \o Marked(Encode(x))
<1> DEFINE f == [i \in DOMAIN s |-> Marked(Encode(s[i]))]
           t == Append(s, x)
           g == [i \in DOMAIN t |-> Marked(Encode(t[i]))]
           y == Marked(Encode(x))
<1>1. \A z \in Items : Marked(Encode(z)) \in Seq(Cell)
  BY EncodeType, MarkedType
<1>2. f \in Seq(Seq(Cell)) /\ Len(f) = Len(s)
  <2>1. Len(s) \in Nat /\ f \in [1 .. Len(s) -> Seq(Cell)]
    BY <1>1
  <2> HIDE DEF f
  <2>2. QED
    BY <2>1, FunctionIsSeq
<1>3. g \in Seq(Seq(Cell)) /\ Len(g) = Len(s) + 1
  BY <1>1
<1>4. y \in Seq(Cell)
  BY <1>1
<1>5. g = Append(f, y)
  <2>1. \A i \in 1 .. Len(s) : g[i] = f[i]
    OBVIOUS
  <2>2. g[Len(s) + 1] = y
    OBVIOUS
  <2> HIDE DEF f, g, y
  <2>3. Append(f, y) \in Seq(Seq(Cell)) /\ Len(Append(f, y)) = Len(s) + 1
    BY <1>2, <1>4
  <2>4. \A i \in 1 .. Len(s) + 1 : g[i] = Append(f, y)[i]
    BY <1>2, <1>4, <2>1, <2>2
  <2>5. QED
    BY <1>3, <2>3, <2>4, SeqEqual
<1> HIDE DEF f, y
<1>6. FlattenSeq(Append(f, y)) = FlattenSeq(f) \o y
  BY <1>2, <1>4, FlattenAppend
<1>7. FlattenSeq(g) = FlattenSeq(f) \o y
  BY <1>5, <1>6
<1>8. QED
  BY <1>7 DEF Stream, f, y

LEMMA StreamType ==
    ASSUME NEW s \in Seq(Items)
    PROVE  Stream(s) \in Seq(Cell)
<1> DEFINE f == [i \in DOMAIN s |-> Marked(Encode(s[i]))]
<1>1. \A z \in Items : Marked(Encode(z)) \in Seq(Cell)
  BY EncodeType, MarkedType
<1>2. f \in Seq(Seq(Cell))
  <2>1. Len(s) \in Nat /\ f \in [1 .. Len(s) -> Seq(Cell)]
    BY <1>1
  <2> HIDE DEF f
  <2>2. QED
    BY <2>1, FunctionIsSeq
<1> HIDE DEF f
<1>3. FlattenSeq(f) \in Seq(Cell)
  BY <1>2, FlattenType
<1>4. QED
  BY <1>3 DEF Stream, f

LEMMA StreamEmpty == Stream(<<>>) = <<>>
<1>1. [i \in DOMAIN <<>> |-> Marked(Encode(<<>>[i]))] = <<>>
  OBVIOUS
<1>2. QED
  BY <1>1, FlattenEmpty DEF Stream

\* S is the stream of the items s, and e[i] is where item i ends.
Shape(s, S, e) ==
    /\ S \in Seq(Cell)
    /\ e \in [0 .. Len(s) -> Nat] /\ e[0] = 0 /\ e[Len(s)] = Len(S)
    /\ \A i, j \in 0 .. Len(s) : i < j => e[i] < e[j]
    /\ \A p \in 1 .. Len(S) : \E i \in 1 .. Len(s) : e[i - 1] < p /\ p <= e[i]
    /\ \A i \in 1 .. Len(s) :
          /\ e[i] = e[i - 1] + Len(Encode(s[i]))
          /\ \A j \in 1 .. Len(Encode(s[i])) :
                S[e[i - 1] + j] = [byte |-> Encode(s[i])[j], last |-> j = Len(Encode(s[i]))]

LEMMA ShapeAppend ==
    ASSUME NEW s \in Seq(Items), NEW S, NEW e, Shape(s, S, e), NEW x \in Items,
           NEW f, NEW n, n = Len(s), f \in [0 .. n + 1 -> Nat], \A i \in 0 .. n : f[i] = e[i],
           f[n + 1] = Len(S) + Len(Encode(x))
    PROVE  Shape(Append(s, x), S \o Marked(Encode(x)), f)
<1> DEFINE t == Append(s, x)
           c == Encode(x)
           M == Marked(c)
           T == S \o M
           E(z) == Encode(z)
<1>1. /\ t \in Seq(Items) /\ Len(t) = n + 1 /\ n \in Nat /\ t[n + 1] = x
      /\ \A i \in 1 .. n : t[i] = s[i] /\ s[i] \in Items
  OBVIOUS
<1>2. c \in Seq(Bytes) /\ Len(c) \in Nat \ {0}
  BY EncodeType
<1>3. /\ M \in Seq(Cell) /\ Len(M) = Len(c)
      /\ \A j \in 1 .. Len(c) : M[j] = [byte |-> c[j], last |-> j = Len(c)]
  BY <1>2, MarkedType
<1>4. /\ S \in Seq(Cell) /\ Len(S) \in Nat /\ e \in [0 .. n -> Nat] /\ e[0] = 0 /\ e[n] = Len(S)
      /\ \A i, j \in 0 .. n : i < j => e[i] < e[j]
      /\ \A p \in 1 .. Len(S) : \E i \in 1 .. n : e[i - 1] < p /\ p <= e[i]
  <2>1. /\ S \in Seq(Cell) /\ e \in [0 .. n -> Nat] /\ e[0] = 0 /\ e[n] = Len(S)
        /\ \A i, j \in 0 .. n : i < j => e[i] < e[j]
        /\ \A p \in 1 .. Len(S) : \E i \in 1 .. n : e[i - 1] < p /\ p <= e[i]
    BY Zenon DEF Shape
  <2>2. QED
    BY <2>1
<1>5. \A i \in 1 .. n :
          /\ e[i] = e[i - 1] + Len(Encode(s[i]))
          /\ \A j \in 1 .. Len(Encode(s[i])) :
                S[e[i - 1] + j] = [byte |-> Encode(s[i])[j], last |-> j = Len(Encode(s[i]))]
  BY DEF Shape
<1> HIDE DEF t, c, M
<1>6. /\ T \in Seq(Cell) /\ Len(T) = Len(S) + Len(c) /\ \A i \in 1 .. Len(S) : T[i] = S[i]
      /\ \A i \in 1 .. Len(c) : T[Len(S) + i] = M[i]
  BY <1>3, <1>4, Joined
<1> HIDE DEF T
<1>7. f[n + 1] = f[n] + Len(c) /\ f[n] = Len(S) /\ f[0] = 0 /\ f[Len(t)] = Len(T)
  <2>1. n \in 0 .. n /\ 0 \in 0 .. n
    BY <1>1
  <2>2. f[n] = e[n] /\ f[0] = e[0]
    BY <2>1
  <2>3. f[n + 1] = Len(S) + Len(c)
    BY DEF c
  <2>4. QED
    BY <1>1, <1>4, <1>6, <2>2, <2>3
<1>8. ASSUME NEW i \in 0 .. n + 1, NEW j \in 0 .. n + 1, i < j PROVE f[i] < f[j]
  <2>1. i \in 0 .. n /\ n \in 0 .. n /\ (i = n \/ i < n)
    BY <1>1, <1>8
  <2>2. f[i] = e[i] /\ f[n] = e[n] /\ e[i] \in Nat /\ e[n] \in Nat
    BY <1>4, <2>1
  <2>3. e[i] <= e[n]
    BY <1>4, <2>1, <2>2
  <2>4. CASE j = n + 1
    BY <1>2, <1>7, <2>2, <2>3, <2>4
  <2>5. CASE j # n + 1
    <3>1. j \in 0 .. n
      BY <1>1, <2>5
    <3>2. f[j] = e[j] /\ e[i] < e[j]
      BY <1>4, <1>8, <2>1, <3>1
    <3>3. QED
      BY <2>2, <3>2
  <2>6. QED
    BY <2>4, <2>5
<1>9. ASSUME NEW p \in 1 .. Len(T) PROVE \E i \in 1 .. n + 1 : f[i - 1] < p /\ p <= f[i]
  <2>1. CASE p <= Len(S)
    <3>1. PICK i \in 1 .. n : e[i - 1] < p /\ p <= e[i]
      BY <1>4, <1>6, <2>1
    <3>2. f[i - 1] = e[i - 1] /\ f[i] = e[i] /\ i \in 1 .. n + 1
      BY <1>1, SMTT(30)
    <3>3. QED
      BY <3>1, <3>2
  <2>2. CASE p > Len(S)
    <3>1. n + 1 \in 1 .. n + 1 /\ (n + 1) - 1 = n /\ f[n] < p /\ p <= f[n + 1]
      BY <1>1, <1>2, <1>4, <1>6, <1>7, <2>2
    <3>2. QED
      BY <3>1
  <2>3. QED
    BY <1>4, <1>6, <2>1, <2>2
<1>10. ASSUME NEW i \in 1 .. n + 1
       PROVE  /\ f[i] = f[i - 1] + Len(E(t[i]))
              /\ \A j \in 1 .. Len(E(t[i])) :
                    T[f[i - 1] + j] = [byte |-> E(t[i])[j], last |-> j = Len(E(t[i]))]
  <2>1. CASE i = n + 1
    <3>1. E(t[i]) = c /\ f[i - 1] = Len(S) /\ f[i] = f[i - 1] + Len(c)
      BY <1>1, <1>7, <2>1 DEF c
    <3>2. \A j \in 1 .. Len(c) : T[Len(S) + j] = [byte |-> c[j], last |-> j = Len(c)]
      BY <1>3, <1>6
    <3> HIDE DEF E
    <3>3. QED
      BY <3>1, <3>2
  <2>2. CASE i # n + 1
    <3>1. i \in 1 .. n /\ i - 1 \in 0 .. n /\ i \in 0 .. n /\ i - 1 < i /\ E(t[i]) = E(s[i])
      BY <1>1, <2>2
    <3>2. f[i] = e[i] /\ f[i - 1] = e[i - 1] /\ e[i] <= Len(S) /\ e[i - 1] \in Nat
      <4>1. n \in 0 .. n /\ (i = n \/ i < n)
        BY <1>1, <3>1
      <4>2. f[i] = e[i] /\ f[i - 1] = e[i - 1] /\ e[i] \in Nat /\ e[i - 1] \in Nat /\ e[n] \in Nat
        BY <1>4, <3>1, <4>1
      <4>3. QED
        BY <1>4, <3>1, <4>1, <4>2
    <3>3. /\ e[i] = e[i - 1] + Len(E(s[i]))
          /\ \A j \in 1 .. Len(E(s[i])) :
                S[e[i - 1] + j] = [byte |-> E(s[i])[j], last |-> j = Len(E(s[i]))]
      BY <1>5, <3>1
    <3>4. Len(E(s[i])) \in Nat
      BY <1>1, <3>1, EncodeType
    <3> HIDE DEF E
    <3>5. \A j \in 1 .. Len(E(s[i])) : e[i - 1] + j \in 1 .. Len(S)
      BY <1>4, <3>2, <3>3, <3>4
    <3>6. \A j \in 1 .. Len(E(s[i])) : T[e[i - 1] + j] = S[e[i - 1] + j]
      BY <1>6, <3>5
    <3>7. \A j \in 1 .. Len(E(s[i])) :
             T[e[i - 1] + j] = [byte |-> E(s[i])[j], last |-> j = Len(E(s[i]))]
      BY <3>3, <3>6
    <3>8. QED
      BY <3>1, <3>2, <3>3, <3>7, Zenon
  <2>3. QED
    BY <2>1, <2>2
<1>11. Shape(t, T, f)
  BY <1>1, <1>6, <1>7, <1>8, <1>9, <1>10 DEF Shape
<1>12. QED
  BY <1>11 DEF t, T, M, c

\* The first items of a longer sequence of items.
LEMMA FirstItems ==
    ASSUME NEW X, NEW s \in Seq(X), NEW x \in X, NEW i \in 0 .. Len(s)
    PROVE  SubSeq(Append(s, x), 1, i) = SubSeq(s, 1, i)
<1> DEFINE t == Append(s, x)
<1>1. t \in Seq(X) /\ Len(t) = Len(s) + 1 /\ Len(s) \in Nat /\ \A k \in 1 .. Len(s) : t[k] = s[k]
  OBVIOUS
<1> HIDE DEF t
<1>2. /\ SubSeq(t, 1, i) \in Seq(X) /\ Len(SubSeq(t, 1, i)) = i
      /\ \A k \in 1 .. i : SubSeq(t, 1, i)[k] = t[k]
  <2>1. i \in 0 .. Len(t)
    BY <1>1
  <2>2. QED
    BY <1>1, <2>1, FrontPart
<1>3. /\ SubSeq(s, 1, i) \in Seq(X) /\ Len(SubSeq(s, 1, i)) = i
      /\ \A k \in 1 .. i : SubSeq(s, 1, i)[k] = s[k]
  BY FrontPart
<1>4. \A k \in 1 .. i : SubSeq(t, 1, i)[k] = SubSeq(s, 1, i)[k]
  BY <1>1, <1>2, <1>3
<1>5. SubSeq(t, 1, i) = SubSeq(s, 1, i)
  BY <1>2, <1>3, <1>4, SeqEqual
<1>6. QED
  BY <1>5 DEF t

LEMMA StreamShape == \A s \in Seq(Items) : Shape(s, Stream(s), Ends(s))
<1> DEFINE Q == {s \in Seq(Items) : Shape(s, Stream(s), Ends(s))}
<1>1. <<>> \in Q
  <2>1. <<>> \in Seq(Items) /\ <<>> \in Seq(Cell) /\ Len(<<>>) = 0
    OBVIOUS
  <2>2. SubSeq(<<>>, 1, 0) = <<>>
    OBVIOUS
  <2>3. Ends(<<>>) = [i \in 0 .. 0 |-> Len(Stream(SubSeq(<<>>, 1, i)))]
    BY <2>1 DEF Ends
  <2>4. Ends(<<>>)[0] = 0 /\ Ends(<<>>) \in [0 .. 0 -> Nat]
    <3>1. ASSUME NEW i \in 0 .. 0 PROVE Len(Stream(SubSeq(<<>>, 1, i))) = 0
      <4>1. SubSeq(<<>>, 1, i) = <<>>
        BY <2>2
      <4>2. Stream(SubSeq(<<>>, 1, i)) = <<>>
        BY <4>1, StreamEmpty, Zenon
      <4>3. QED
        BY <2>1, <4>2, Zenon
    <3>2. QED
      BY <2>3, <3>1
  <2> DEFINE e == Ends(<<>>)
             z == <<>>
  <2>5. z \in Seq(Cell) /\ e \in [0 .. Len(z) -> Nat] /\ e[0] = 0 /\ Len(z) = 0
    BY <2>1, <2>4
  <2> HIDE DEF e, z
  <2>6. Shape(z, z, e)
    BY <2>5 DEF Shape
  <2>7. QED
    BY <2>1, <2>6, StreamEmpty DEF e, z
<1>2. ASSUME NEW s \in Seq(Items), NEW x \in Items, s \in Q PROVE Append(s, x) \in Q
  <2> DEFINE t == Append(s, x)
             n == Len(s)
             f == Ends(t)
             e == Ends(s)
             S == Stream(s)
             M == Marked(Encode(x))
  <2>1. t \in Seq(Items) /\ Len(t) = n + 1 /\ n \in Nat /\ Shape(s, S, e)
    BY <1>2
  <2>2. Stream(t) = S \o M
    BY StreamAppend
  <2>3. S \in Seq(Cell) /\ M \in Seq(Cell) /\ Len(M) = Len(Encode(x))
    BY StreamType, EncodeType, MarkedType
  <2>4. \A i \in 0 .. n : SubSeq(t, 1, i) = SubSeq(s, 1, i)
    BY FirstItems
  <2>5. SubSeq(t, 1, n + 1) = t
    BY <2>1, SubSeqFull
  <2> HIDE DEF t, S, M
  <2>6. \A i \in 0 .. n + 1 : SubSeq(t, 1, i) \in Seq(Items)
    BY <2>1, FrontPart
  <2>7. \A i \in 0 .. n + 1 : Stream(SubSeq(t, 1, i)) \in Seq(Cell)
    BY <2>6, StreamType
  <2>8. \A i \in 0 .. n + 1 : Len(Stream(SubSeq(t, 1, i))) \in Nat
    BY <2>7
  <2>9. f \in [0 .. n + 1 -> Nat]
    BY <2>1, <2>8 DEF Ends
  <2>10. ASSUME NEW i \in 0 .. n PROVE f[i] = e[i]
    <3>1. f[i] = Len(Stream(SubSeq(t, 1, i))) /\ e[i] = Len(Stream(SubSeq(s, 1, i)))
      BY <2>1 DEF Ends
    <3>2. QED
      BY <2>4, <3>1, Zenon
  <2>11. f[n + 1] = Len(S) + Len(Encode(x))
    <3>1. f[n + 1] = Len(Stream(SubSeq(t, 1, n + 1)))
      BY <2>1 DEF Ends
    <3>2. f[n + 1] = Len(S \o M)
      BY <2>2, <2>5, <3>1, Zenon
    <3>3. Len(S \o M) = Len(S) + Len(M)
      BY <2>3
    <3> HIDE DEF f
    <3>4. QED
      BY <2>3, <3>2, <3>3
  <2> HIDE DEF e, f, n
  <2>12. Shape(Append(s, x), S \o Marked(Encode(x)), f)
    BY <2>1, <2>9, <2>10, <2>11, ShapeAppend DEF n
  <2>13. QED
    BY <2>1, <2>2, <2>12 DEF t, M, f
<1>3. \A s \in Seq(Items) : s \in Q
  <2> HIDE DEF Q
  <2>1. QED
    BY <1>1, <1>2, SeqInduction
<1>4. QED
  BY <1>3
BytesOf(c) == [i \in DOMAIN c |-> c[i].byte]

LEMMA BytesOfType ==
    ASSUME NEW c \in Seq(Cell)
    PROVE  /\ BytesOf(c) \in Seq(Bytes) /\ Len(BytesOf(c)) = Len(c)
           /\ \A i \in 1 .. Len(c) : BytesOf(c)[i] = c[i].byte
<1> DEFINE f == BytesOf(c)
<1>1. \A i \in 1 .. Len(c) : c[i].byte \in Bytes
  <2>1. \A i \in 1 .. Len(c) : c[i] \in Cell
    BY ElementOfSeq
  <2>2. \A z \in Cell : z.byte \in Bytes
    BY DEF Cell
  <2>3. QED
    BY <2>1, <2>2, Zenon
<1>2. Len(c) \in Nat /\ f \in [1 .. Len(c) -> Bytes] /\ \A i \in 1 .. Len(c) : f[i] = c[i].byte
  BY <1>1 DEF BytesOf
<1> HIDE DEF f
<1>3. f \in Seq(Bytes) /\ Len(f) = Len(c)
  BY <1>2, FunctionIsSeq
<1>4. QED
  BY <1>2, <1>3 DEF f

LEMMA BytesOfJoined ==
    ASSUME NEW u \in Seq(Cell), NEW v \in Seq(Cell)
    PROVE  BytesOf(u \o v) = BytesOf(u) \o BytesOf(v)
<1> DEFINE w == u \o v
           f == BytesOf(u)
           g == BytesOf(v)
           h == BytesOf(w)
<1>1. /\ w \in Seq(Cell) /\ Len(w) = Len(u) + Len(v) /\ \A i \in 1 .. Len(u) : w[i] = u[i]
      /\ \A i \in 1 .. Len(v) : w[Len(u) + i] = v[i]
  BY Joined
<1> HIDE DEF w
<1>2. f \in Seq(Bytes) /\ Len(f) = Len(u) /\ \A i \in 1 .. Len(u) : f[i] = u[i].byte
  BY BytesOfType
<1>3. g \in Seq(Bytes) /\ Len(g) = Len(v) /\ \A i \in 1 .. Len(v) : g[i] = v[i].byte
  BY BytesOfType
<1>4. h \in Seq(Bytes) /\ Len(h) = Len(w) /\ \A i \in 1 .. Len(w) : h[i] = w[i].byte
  BY <1>1, BytesOfType
<1> HIDE DEF f, g, h
<1>5. /\ f \o g \in Seq(Bytes) /\ Len(f \o g) = Len(f) + Len(g)
      /\ \A i \in 1 .. Len(f) : (f \o g)[i] = f[i]
      /\ \A i \in 1 .. Len(g) : (f \o g)[Len(f) + i] = g[i]
  <2>1. f \in Seq(Bytes) /\ g \in Seq(Bytes)
    BY <1>2, <1>3
  <2>2. QED
    BY ONLY <2>1, Joined
<1>6. ASSUME NEW i \in 1 .. Len(w) PROVE h[i] = (f \o g)[i]
  <2>1. Len(u) \in Nat /\ Len(v) \in Nat
    OBVIOUS
  <2>2. CASE i <= Len(u)
    <3>1. i \in 1 .. Len(u) /\ i \in 1 .. Len(f)
      BY <1>2, <2>1, <2>2
    <3>2. (f \o g)[i] = f[i] /\ f[i] = u[i].byte /\ w[i] = u[i] /\ h[i] = w[i].byte
      BY <1>1, <1>2, <1>4, <1>5, <3>1
    <3>3. QED
      BY <3>2
  <2>3. CASE ~(i <= Len(u))
    <3> DEFINE k == i - Len(u)
    <3>1. k \in 1 .. Len(v) /\ i = Len(u) + k
      BY <1>1, <2>1, <2>3
    <3> HIDE DEF k
    <3>2. w[i] = v[k] /\ (f \o g)[i] = g[k]
      BY <1>1, <1>2, <1>3, <1>5, <3>1
    <3>3. QED
      BY <1>3, <1>4, <3>1, <3>2
  <2>4. QED
    BY <2>2, <2>3
<1>7. Len(h) = Len(f \o g)
  BY <1>1, <1>2, <1>3, <1>4, <1>5
<1>8. h = f \o g
  BY <1>4, <1>5, <1>6, <1>7, SeqEqual
<1>9. QED
  BY <1>8 DEF f, g, h, w

LEMMA BytesOfMarked ==
    ASSUME NEW b \in Seq(Bytes)
    PROVE  BytesOf(Marked(b)) = b
<1> DEFINE m == Marked(b)
<1>1. m \in Seq(Cell) /\ Len(m) = Len(b) /\ \A j \in 1 .. Len(b) : m[j] = [byte |-> b[j], last |-> j = Len(b)]
  BY MarkedType
<1> HIDE DEF m
<1>2. /\ BytesOf(m) \in Seq(Bytes) /\ Len(BytesOf(m)) = Len(m)
      /\ \A i \in 1 .. Len(m) : BytesOf(m)[i] = m[i].byte
  BY <1>1, BytesOfType
<1>3. ASSUME NEW i \in 1 .. Len(b) PROVE BytesOf(m)[i] = b[i]
  <2>1. BytesOf(m)[i] = m[i].byte
    BY <1>1, <1>2
  <2>2. m[i] = [byte |-> b[i], last |-> i = Len(b)]
    BY <1>1
  <2>3. m[i].byte = b[i]
    BY <2>2
  <2>4. QED
    BY <2>1, <2>3
<1>4. BytesOf(m) = b
  BY <1>1, <1>2, <1>3, SeqEqual
<1>5. QED
  BY <1>4 DEF m

LEMMA SentAppend ==
    ASSUME NEW s \in Seq(Items), NEW x \in Items
    PROVE  Sent(Append(s, x)) = Sent(s) \o Encode(x)
<1> DEFINE f == [i \in DOMAIN s |-> Encode(s[i])]
           t == Append(s, x)
           g == [i \in DOMAIN t |-> Encode(t[i])]
           y == Encode(x)
<1>1. \A z \in Items : Encode(z) \in Seq(Bytes)
  BY EncodeType
<1>2. f \in Seq(Seq(Bytes)) /\ Len(f) = Len(s)
  <2>1. Len(s) \in Nat /\ f \in [1 .. Len(s) -> Seq(Bytes)]
    BY <1>1
  <2> HIDE DEF f
  <2>2. QED
    BY <2>1, FunctionIsSeq
<1>3. g \in Seq(Seq(Bytes)) /\ Len(g) = Len(s) + 1
  <2>1. Len(s) + 1 \in Nat /\ g \in [1 .. Len(s) + 1 -> Seq(Bytes)]
    BY <1>1
  <2> HIDE DEF g
  <2>2. QED
    BY <2>1, FunctionIsSeq
<1>4. y \in Seq(Bytes)
  BY <1>1
<1>5. g = Append(f, y)
  <2>1. \A i \in 1 .. Len(s) : g[i] = f[i]
    OBVIOUS
  <2>2. g[Len(s) + 1] = y
    OBVIOUS
  <2> HIDE DEF f, g, y
  <2>3. Append(f, y) \in Seq(Seq(Bytes)) /\ Len(Append(f, y)) = Len(s) + 1
    BY <1>2, <1>4
  <2>4. \A i \in 1 .. Len(s) + 1 : g[i] = Append(f, y)[i]
    BY <1>2, <1>4, <2>1, <2>2
  <2>5. QED
    BY <1>3, <2>3, <2>4, SeqEqual
<1> HIDE DEF f, y
<1>6. FlattenSeq(Append(f, y)) = FlattenSeq(f) \o y
  BY <1>2, <1>4, FlattenAppend
<1>7. FlattenSeq(g) = FlattenSeq(f) \o y
  BY <1>5, <1>6
<1>8. QED
  BY <1>7 DEF Sent, f, y

\* What the peer sent is the stream without its marks.
LEMMA SentIsBytes == \A s \in Seq(Items) : Sent(s) = BytesOf(Stream(s))
<1> DEFINE Q == {s \in Seq(Items) : Sent(s) = BytesOf(Stream(s))}
<1>1. <<>> \in Q
  <2>1. [i \in DOMAIN <<>> |-> Encode(<<>>[i])] = <<>> /\ <<>> \in Seq(Items)
    OBVIOUS
  <2>2. Sent(<<>>) = <<>>
    BY <2>1, FlattenEmpty DEF Sent
  <2>3. BytesOf(<<>>) = <<>>
    BY DEF BytesOf
  <2>4. QED
    BY <2>1, <2>2, <2>3, StreamEmpty, Zenon
<1>2. ASSUME NEW s \in Seq(Items), NEW x \in Items, s \in Q PROVE Append(s, x) \in Q
  <2> DEFINE c == Encode(x)
             S == Stream(s)
             M == Marked(c)
  <2>1. c \in Seq(Bytes) /\ S \in Seq(Cell)
    BY EncodeType, StreamType
  <2>2. M \in Seq(Cell) /\ BytesOf(M) = c
    BY <2>1, MarkedType, BytesOfMarked
  <2>3. Stream(Append(s, x)) = S \o M /\ Sent(Append(s, x)) = Sent(s) \o c
    BY StreamAppend, SentAppend
  <2>4. BytesOf(S \o M) = BytesOf(S) \o BytesOf(M)
    BY <2>1, <2>2, BytesOfJoined
  <2>5. Sent(s) = BytesOf(S) /\ Append(s, x) \in Seq(Items)
    BY <1>2
  <2> HIDE DEF c, S, M
  <2>6. Sent(Append(s, x)) = BytesOf(Stream(Append(s, x)))
    BY <2>2, <2>3, <2>4, <2>5, Zenon
  <2>7. QED
    BY <2>5, <2>6
<1>3. \A s \in Seq(Items) : s \in Q
  <2> HIDE DEF Q
  <2>1. QED
    BY <1>1, <1>2, SeqInduction
<1>4. QED
  BY <1>3

\* The stream begins with that of the first items.
LEMMA StreamFront ==
    \A s \in Seq(Items) : \A i \in 0 .. Len(s) : SubSeq(Stream(s), 1, Ends(s)[i]) = Stream(SubSeq(s, 1, i))
<1> DEFINE Q == {s \in Seq(Items) :
                    \A i \in 0 .. Len(s) : SubSeq(Stream(s), 1, Ends(s)[i]) = Stream(SubSeq(s, 1, i))}
<1>1. <<>> \in Q
  <2>1. ASSUME NEW i \in 0 .. Len(<<>>)
        PROVE  SubSeq(Stream(<<>>), 1, Ends(<<>>)[i]) = Stream(SubSeq(<<>>, 1, i))
    <3>1. i = 0 /\ SubSeq(<<>>, 1, i) = <<>> /\ <<>> \in Seq(Items) /\ Len(<<>>) = 0
      OBVIOUS
    <3>2. Stream(SubSeq(<<>>, 1, i)) = <<>> /\ Stream(<<>>) = <<>>
      BY <3>1, StreamEmpty, Zenon
    <3>3. Shape(<<>>, Stream(<<>>), Ends(<<>>))
      BY <3>1, StreamShape, Zenon
    <3>4. Ends(<<>>)[i] = 0
      BY <3>1, <3>3 DEF Shape
    <3>5. SubSeq(<<>>, 1, 0) = <<>>
      OBVIOUS
    <3>6. QED
      BY <3>2, <3>4, <3>5, Zenon
  <2>2. QED
    BY <2>1
<1>2. ASSUME NEW s \in Seq(Items), NEW x \in Items, s \in Q PROVE Append(s, x) \in Q
  <2> DEFINE t == Append(s, x)
             n == Len(s)
             S == Stream(s)
             M == Marked(Encode(x))
  <2>1. t \in Seq(Items) /\ Len(t) = n + 1 /\ n \in Nat
    OBVIOUS
  <2>2. Stream(t) = S \o M
    BY StreamAppend
  <2>3. S \in Seq(Cell) /\ M \in Seq(Cell) /\ Len(S) \in Nat
    BY StreamType, EncodeType, MarkedType
  <2>4. \A i \in 0 .. n : SubSeq(t, 1, i) = SubSeq(s, 1, i)
    BY FirstItems
  <2>5. SubSeq(t, 1, n + 1) = t
    BY <2>1, SubSeqFull
  <2>6. Shape(s, S, Ends(s))
    BY StreamShape
  <2>7. ASSUME NEW i \in 0 .. n PROVE SubSeq(Stream(t), 1, Ends(t)[i]) = Stream(SubSeq(t, 1, i))
    <3> DEFINE k == Ends(s)[i]
    <3>1. Ends(t)[i] = Len(Stream(SubSeq(t, 1, i))) /\ k = Len(Stream(SubSeq(s, 1, i)))
      BY <2>1 DEF Ends
    <3>2. Ends(t)[i] = k /\ SubSeq(S, 1, k) = Stream(SubSeq(t, 1, i))
      BY <1>2, <2>4, <3>1, Zenon
    <3>3. k \in 0 .. Len(S)
      <4>1. /\ Ends(s) \in [0 .. n -> Nat] /\ Ends(s)[n] = Len(S)
            /\ \A a, b \in 0 .. n : a < b => Ends(s)[a] < Ends(s)[b]
        BY <2>6, Zenon DEF Shape
      <4>2. k \in Nat /\ (i = n \/ i < n) /\ n \in 0 .. n
        BY <2>1, <4>1
      <4> HIDE DEF n, S
      <4>3. QED
        BY <2>3, <4>1, <4>2
    <3> HIDE DEF S, M, k
    <3>4. SubSeq(S \o M, 1, k) = SubSeq(S, 1, k)
      BY <2>3, <3>3, FrontOfJoined
    <3>5. QED
      BY <2>2, <3>2, <3>4, Zenon
  <2>8. SubSeq(Stream(t), 1, Ends(t)[n + 1]) = Stream(SubSeq(t, 1, n + 1))
    <3>1. Ends(t)[n + 1] = Len(Stream(SubSeq(t, 1, n + 1)))
      BY <2>1 DEF Ends
    <3>2. Ends(t)[n + 1] = Len(Stream(t))
      BY <2>5, <3>1, Zenon
    <3>3. Stream(t) \in Seq(Cell)
      BY <2>1, StreamType
    <3>4. SubSeq(Stream(t), 1, Len(Stream(t))) = Stream(t)
      BY <3>3, SubSeqFull
    <3>5. QED
      BY <2>5, <3>2, <3>4, Zenon
  <2> HIDE DEF t
  <2>9. ASSUME NEW i \in 0 .. n + 1 PROVE SubSeq(Stream(t), 1, Ends(t)[i]) = Stream(SubSeq(t, 1, i))
    <3>1. i = n + 1 \/ i \in 0 .. n
      BY <2>1
    <3>2. QED
      BY <2>7, <2>8, <3>1, Zenon
  <2>10. t \in Q
    BY <2>1, <2>9
  <2>11. QED
    BY <2>10 DEF t
<1>3. \A s \in Seq(Items) : s \in Q
  <2> HIDE DEF Q
  <2>1. QED
    BY <1>1, <1>2, SeqInduction
<1>4. QED
  BY <1>3

\* The same, byte by byte.
LEMMA EncodedBytes ==
    ASSUME NEW x \in Items
    PROVE  /\ x = "text" => Len(Encode(x)) = 1 /\ Encode(x)[1] = "a"
           /\ x = "newline" => Len(Encode(x)) = 1 /\ Encode(x)[1] = "nl"
           /\ x = "option" =>
                 Len(Encode(x)) = 3 /\ Encode(x)[1] = "IAC" /\ Encode(x)[2] = "OPT" /\ Encode(x)[3] = "o"
           /\ x = "subneg" =>
                 /\ Len(Encode(x)) = 6 /\ Encode(x)[1] = "IAC" /\ Encode(x)[2] = "SB" /\ Encode(x)[3] = "o"
                 /\ Encode(x)[4] = "x" /\ Encode(x)[5] = "IAC" /\ Encode(x)[6] = "SE"
           /\ x = "emptysubneg" =>
                 /\ Len(Encode(x)) = 5 /\ Encode(x)[1] = "IAC" /\ Encode(x)[2] = "SB" /\ Encode(x)[3] = "o"
                 /\ Encode(x)[4] = "IAC" /\ Encode(x)[5] = "SE"
           /\ x = "escape" => Len(Encode(x)) = 2 /\ Encode(x)[1] = "IAC" /\ Encode(x)[2] = "IAC"
           /\ x = "command" => Len(Encode(x)) = 2 /\ Encode(x)[1] = "IAC" /\ Encode(x)[2] = "CMD"
           /\ x = "textWILL" =>
                 /\ Len(Encode(x)) = 1 /\ Encode(x)[1] = "aOPT"
           /\ x = "textSB" =>
                 /\ Len(Encode(x)) = 1 /\ Encode(x)[1] = "aSB"
           /\ x = "subneg255" =>
                 /\ Len(Encode(x)) = 9 /\ Encode(x)[1] = "IAC" /\ Encode(x)[2] = "SB" /\ Encode(x)[3] = "o"
                 /\ Encode(x)[4] = "IAC" /\ Encode(x)[5] = "IAC" /\ Encode(x)[6] = "xOPT" /\ Encode(x)[7] = "x"
                 /\ Encode(x)[8] = "IAC" /\ Encode(x)[9] = "SE"
           /\ x = "notypesubneg" =>
                 /\ Len(Encode(x)) = 4 /\ Encode(x)[1] = "IAC" /\ Encode(x)[2] = "SB" /\ Encode(x)[3] = "IAC"
                 /\ Encode(x)[4] = "SE"
<1>1. CASE x = "text"
  <2>1. Encode(x) = <<"a">>
    BY <1>1, Encoded
  <2>2. QED
    BY <1>1, <2>1
<1>2. CASE x = "newline"
  <2>1. Encode(x) = <<"nl">>
    BY <1>2, Encoded
  <2>2. QED
    BY <1>2, <2>1
<1>3. CASE x = "option"
  <2>1. Encode(x) = <<"IAC", "OPT", "o">>
    BY <1>3, Encoded
  <2>2. QED
    BY <1>3, <2>1
<1>4. CASE x = "subneg"
  <2>1. Encode(x) = <<"IAC", "SB", "o", "x", "IAC", "SE">>
    BY <1>4, Encoded
  <2>2. QED
    BY <1>4, <2>1
<1>5. CASE x = "emptysubneg"
  <2>1. Encode(x) = <<"IAC", "SB", "o", "IAC", "SE">>
    BY <1>5, Encoded
  <2>2. QED
    BY <1>5, <2>1
<1>6. CASE x = "escape"
  <2>1. Encode(x) = <<"IAC", "IAC">>
    BY <1>6, Encoded
  <2>2. QED
    BY <1>6, <2>1
<1>7. CASE x = "command"
  <2>1. Encode(x) = <<"IAC", "CMD">>
    BY <1>7, Encoded
  <2>2. QED
    BY <1>7, <2>1
<1>8. CASE x = "textWILL"
  <2>1. Encode(x) = <<"aOPT">>
    BY <1>8, Encoded
  <2>2. QED
    BY <1>8, <2>1
<1>9. CASE x = "textSB"
  <2>1. Encode(x) = <<"aSB">>
    BY <1>9, Encoded
  <2>2. QED
    BY <1>9, <2>1
<1>10. CASE x = "subneg255"
  <2>1. Encode(x) = <<"IAC", "SB", "o", "IAC", "IAC", "xOPT", "x", "IAC", "SE">>
    BY <1>10, Encoded
  <2>2. QED
    BY <1>10, <2>1
<1>11. CASE x = "notypesubneg"
  <2>1. Encode(x) = <<"IAC", "SB", "IAC", "SE">>
    BY <1>11, Encoded
  <2>2. QED
    BY <1>11, <2>1
<1>12. QED
  BY <1>1, <1>2, <1>3, <1>4, <1>5, <1>6, <1>7, <1>8, <1>9, <1>10, <1>11 DEF Items

TextItems == {"text", "newline", "textWILL", "textSB"}

\* Where a byte can be in an item.
LEMMA PlaceInItem ==
    ASSUME NEW x \in Items, NEW j \in 1 .. Len(Encode(x))
    PROVE  /\ Encode(x)[j] = "OPT" => x = "option" /\ j = 2
           /\ Encode(x)[j] = "SB" => x \in {"subneg", "emptysubneg", "subneg255", "notypesubneg"} /\ j = 2
           /\ Encode(x)[j] = "aOPT" => x = "textWILL"
           /\ Encode(x)[j] = "aSB" => x = "textSB"
           /\ Encode(x)[j] = "xOPT" => x = "subneg255" /\ j = 6
           /\ Encode(x)[j] \in Text => x \in TextItems /\ j = 1
           /\ Encode(x)[j] = "IAC" /\ x # "escape" => j < Len(Encode(x))
           /\ x \notin TextItems => Encode(x)[1] = "IAC"
           /\ x \in TextItems => Encode(x)[j] \in Text /\ j = 1 /\ Len(Encode(x)) = 1
<1>1. CASE x = "text"
  <2>1. Len(Encode(x)) = 1
    BY <1>1, EncodedBytes
  <2>2. j = 1
    BY <2>1
  <2>3. QED
    BY <1>1, <2>1, <2>2, EncodedBytes DEF Text, TextItems
<1>2. CASE x = "newline"
  <2>1. Len(Encode(x)) = 1
    BY <1>2, EncodedBytes
  <2>2. j = 1
    BY <2>1
  <2>3. QED
    BY <1>2, <2>1, <2>2, EncodedBytes DEF Text, TextItems
<1>3. CASE x = "option"
  <2>1. Len(Encode(x)) = 3
    BY <1>3, EncodedBytes
  <2>2. j = 1 \/ j = 2 \/ j = 3
    BY <2>1
  <2>3. QED
    BY <1>3, <2>1, <2>2, EncodedBytes DEF Text, TextItems
<1>4. CASE x = "subneg"
  <2>1. Len(Encode(x)) = 6
    BY <1>4, EncodedBytes
  <2>2. j = 1 \/ j = 2 \/ j = 3 \/ j = 4 \/ j = 5 \/ j = 6
    BY <2>1
  <2>3. QED
    BY <1>4, <2>1, <2>2, EncodedBytes DEF Text, TextItems
<1>5. CASE x = "emptysubneg"
  <2>1. Len(Encode(x)) = 5
    BY <1>5, EncodedBytes
  <2>2. j = 1 \/ j = 2 \/ j = 3 \/ j = 4 \/ j = 5
    BY <2>1
  <2>3. QED
    BY <1>5, <2>1, <2>2, EncodedBytes DEF Text, TextItems
<1>6. CASE x = "escape"
  <2>1. Len(Encode(x)) = 2
    BY <1>6, EncodedBytes
  <2>2. j = 1 \/ j = 2
    BY <2>1
  <2>3. QED
    BY <1>6, <2>1, <2>2, EncodedBytes DEF Text, TextItems
<1>7. CASE x = "command"
  <2>1. Len(Encode(x)) = 2
    BY <1>7, EncodedBytes
  <2>2. j = 1 \/ j = 2
    BY <2>1
  <2>3. QED
    BY <1>7, <2>1, <2>2, EncodedBytes DEF Text, TextItems
<1>8. CASE x = "textWILL"
  <2>1. Len(Encode(x)) = 1
    BY <1>8, EncodedBytes
  <2>2. j = 1
    BY <2>1
  <2>3. QED
    BY <1>8, <2>1, <2>2, EncodedBytes DEF Text, TextItems
<1>9. CASE x = "textSB"
  <2>1. Len(Encode(x)) = 1
    BY <1>9, EncodedBytes
  <2>2. j = 1
    BY <2>1
  <2>3. QED
    BY <1>9, <2>1, <2>2, EncodedBytes DEF Text, TextItems
<1>10. CASE x = "subneg255"
  <2>1. Len(Encode(x)) = 9
    BY <1>10, EncodedBytes
  <2>2. j = 1 \/ j = 2 \/ j = 3 \/ j = 4 \/ j = 5 \/ j = 6 \/ j = 7 \/ j = 8 \/ j = 9
    BY <2>1
  <2>3. QED
    BY <1>10, <2>1, <2>2, EncodedBytes DEF Text, TextItems
<1>11. CASE x = "notypesubneg"
  <2>1. Len(Encode(x)) = 4
    BY <1>11, EncodedBytes
  <2>2. j = 1 \/ j = 2 \/ j = 3 \/ j = 4
    BY <2>1
  <2>3. QED
    BY <1>11, <2>1, <2>2, EncodedBytes DEF Text, TextItems
<1>12. QED
  BY <1>1, <1>2, <1>3, <1>4, <1>5, <1>6, <1>7, <1>8, <1>9, <1>10, <1>11 DEF Items

\* The byte at position p of the stream is the j-th of item i.
Owns(s, S, e, p, i, j) ==
    /\ i \in 1 .. Len(s) /\ j \in 1 .. Len(Encode(s[i]))
    /\ p = e[i - 1] + j /\ S[p].byte = Encode(s[i])[j] /\ (S[p].last <=> p = e[i])

\* Every byte of the stream is one of an item.
LEMMA Owner ==
    ASSUME NEW s \in Seq(Items), NEW S, NEW e, Shape(s, S, e), NEW p \in 1 .. Len(S)
    PROVE  \E i, j : Owns(s, S, e, p, i, j)
<1>1. PICK i \in 1 .. Len(s) : e[i - 1] < p /\ p <= e[i]
  BY DEF Shape
<1>2. /\ e[i] = e[i - 1] + Len(Encode(s[i]))
      /\ \A j \in 1 .. Len(Encode(s[i])) :
            S[e[i - 1] + j] = [byte |-> Encode(s[i])[j], last |-> j = Len(Encode(s[i]))]
  BY DEF Shape
<1>3. e[i - 1] \in Nat /\ Len(Encode(s[i])) \in Nat
  <2>1. s[i] \in Items /\ i - 1 \in 0 .. Len(s)
    OBVIOUS
  <2>2. e \in [0 .. Len(s) -> Nat]
    BY DEF Shape
  <2>3. QED
    BY <2>1, <2>2, EncodeType
<1>4. S \in Seq(Cell) /\ p \in Nat
  BY DEF Shape
<1> DEFINE j == p - e[i - 1]
<1>5. j \in 1 .. Len(Encode(s[i])) /\ p = e[i - 1] + j /\ (j = Len(Encode(s[i])) <=> p = e[i])
  BY <1>1, <1>2, <1>3, <1>4
<1> HIDE DEF j
<1>6. S[p] = [byte |-> Encode(s[i])[j], last |-> j = Len(Encode(s[i]))]
  BY <1>2, <1>5
<1>7. S[p].byte = Encode(s[i])[j] /\ S[p].last = (j = Len(Encode(s[i])))
  BY <1>6
<1>8. Owns(s, S, e, p, i, j)
  BY <1>5, <1>7 DEF Owns
<1>9. QED
  BY <1>8

\* The bytes of item i.
LEMMA InItem ==
    ASSUME NEW s \in Seq(Items), NEW S, NEW e, Shape(s, S, e), NEW i \in 1 .. Len(s)
    PROVE  /\ s[i] \in Items /\ e[i] = e[i - 1] + Len(Encode(s[i]))
           /\ e[i - 1] \in Nat /\ e[i] \in Nat /\ e[i] <= Len(S)
           /\ \A j \in 1 .. Len(Encode(s[i])) :
                 /\ S[e[i - 1] + j].byte = Encode(s[i])[j]
                 /\ S[e[i - 1] + j].last <=> j = Len(Encode(s[i]))
<1>1. s[i] \in Items /\ i - 1 \in 0 .. Len(s) /\ i \in 0 .. Len(s) /\ Len(s) \in 0 .. Len(s) /\ Len(s) \in Nat
  OBVIOUS
<1>2. /\ e[i] = e[i - 1] + Len(Encode(s[i]))
      /\ \A j \in 1 .. Len(Encode(s[i])) :
            S[e[i - 1] + j] = [byte |-> Encode(s[i])[j], last |-> j = Len(Encode(s[i]))]
  BY DEF Shape
<1>3. /\ e \in [0 .. Len(s) -> Nat] /\ e[Len(s)] = Len(S)
      /\ \A a, b \in 0 .. Len(s) : a < b => e[a] < e[b]
  BY Zenon DEF Shape
<1>4. e[i - 1] \in Nat /\ e[i] \in Nat /\ e[Len(s)] \in Nat
  BY <1>1, <1>3
<1>5. e[i] <= Len(S)
  <2>1. i = Len(s) \/ i < Len(s)
    OBVIOUS
  <2>2. QED
    BY <1>1, <1>3, <1>4, <2>1
<1>6. ASSUME NEW j \in 1 .. Len(Encode(s[i]))
      PROVE  /\ S[e[i - 1] + j].byte = Encode(s[i])[j]
             /\ S[e[i - 1] + j].last <=> j = Len(Encode(s[i]))
  <2>1. S[e[i - 1] + j] = [byte |-> Encode(s[i])[j], last |-> j = Len(Encode(s[i]))]
    BY <1>2
  <2>2. S[e[i - 1] + j].byte = Encode(s[i])[j]
    BY <2>1
  <2>3. S[e[i - 1] + j].last = (j = Len(Encode(s[i])))
    BY <2>1
  <2>4. QED
    BY <2>2, <2>3
<1>7. QED
  BY <1>1, <1>2, <1>4, <1>5, <1>6

\* An option command in the stream is in an option, and its code follows.
LEMMA OptionHere ==
    ASSUME NEW s \in Seq(Items), NEW S, NEW e, Shape(s, S, e), NEW p \in 1 .. Len(S),
           S[p].byte = "OPT"
    PROVE  \E i \in 1 .. Len(s) : s[i] = "option" /\ p = e[i - 1] + 2 /\ e[i] = p + 1 /\ S[p + 1].byte = "o"
<1>1. PICK i, j : Owns(s, S, e, p, i, j)
  BY Owner
<1>2. /\ i \in 1 .. Len(s) /\ j \in 1 .. Len(Encode(s[i]))
      /\ p = e[i - 1] + j /\ S[p].byte = Encode(s[i])[j]
  BY <1>1 DEF Owns
<1>3. /\ s[i] \in Items /\ e[i] = e[i - 1] + Len(Encode(s[i])) /\ e[i - 1] \in Nat
      /\ \A k \in 1 .. Len(Encode(s[i])) : S[e[i - 1] + k].byte = Encode(s[i])[k]
  BY <1>2, InItem
<1>4. s[i] = "option" /\ j = 2
  BY <1>2, <1>3, PlaceInItem, SMTT(30)
<1>5. Len(Encode(s[i])) = 3 /\ Encode(s[i])[3] = "o"
  BY <1>3, <1>4, EncodedBytes
<1>6. S[e[i - 1] + 3].byte = "o" /\ p + 1 = e[i - 1] + 3
  <2>1. 3 \in 1 .. Len(Encode(s[i]))
    BY <1>5
  <2>2. S[e[i - 1] + 3].byte = "o"
    BY <1>3, <1>5, <2>1, Zenon
  <2>3. QED
    BY <1>2, <1>3, <1>4, <2>2
<1>7. p = e[i - 1] + 2 /\ e[i] = p + 1 /\ S[p + 1].byte = "o"
  BY <1>2, <1>3, <1>4, <1>5, <1>6
<1>8. QED
  BY <1>2, <1>4, <1>7

\* The bytes behind SB at position p: the option code, if there is one, a parameter or
\* none, IAC and SE; or the first two bytes of an escaped 255.
SubNegAt(S, p, x) ==
    /\ x \in {"subneg", "emptysubneg", "subneg255"} => S[p + 1].byte = "o"
    /\ x = "subneg" => S[p + 2].byte = "x" /\ S[p + 3].byte = "IAC" /\ S[p + 4].byte = "SE"
    /\ x = "emptysubneg" => S[p + 2].byte = "IAC" /\ S[p + 3].byte = "SE"
    /\ x = "subneg255" => S[p + 2].byte = "IAC" /\ S[p + 3].byte = "IAC"

LEMMA SubNegHere ==
    ASSUME NEW s \in Seq(Items), NEW S, NEW e, Shape(s, S, e), NEW p \in 1 .. Len(S),
           S[p].byte = "SB"
    PROVE  \E i \in 1 .. Len(s) :
              /\ s[i] \in {"subneg", "emptysubneg", "subneg255", "notypesubneg"}
              /\ p = e[i - 1] + 2 /\ SubNegAt(S, p, s[i])
              /\ s[i] = "subneg" => e[i] = p + 4
              /\ s[i] = "emptysubneg" => e[i] = p + 3
<1>1. PICK i, j : Owns(s, S, e, p, i, j)
  BY Owner
<1>2. /\ i \in 1 .. Len(s) /\ j \in 1 .. Len(Encode(s[i]))
      /\ p = e[i - 1] + j /\ S[p].byte = Encode(s[i])[j]
  BY <1>1 DEF Owns
<1>3. /\ s[i] \in Items /\ e[i] = e[i - 1] + Len(Encode(s[i])) /\ e[i - 1] \in Nat
      /\ \A k \in 1 .. Len(Encode(s[i])) : S[e[i - 1] + k].byte = Encode(s[i])[k]
  BY <1>2, InItem
<1>4. s[i] \in {"subneg", "emptysubneg", "subneg255", "notypesubneg"} /\ j = 2
  <2>1. Encode(s[i])[j] = "SB"
    BY <1>2
  <2>2. QED
    BY <1>2, <1>3, <2>1, PlaceInItem
<1>5. /\ p = e[i - 1] + 2 /\ p + 1 = e[i - 1] + 3 /\ p + 2 = e[i - 1] + 4
      /\ p + 3 = e[i - 1] + 5 /\ p + 4 = e[i - 1] + 6
  <2>1. j = 2 /\ p = e[i - 1] + j /\ e[i - 1] \in Nat
    BY <1>2, <1>3, <1>4
  <2>2. QED
    BY ONLY <2>1, SMTT(30)
<1>6. CASE s[i] = "subneg"
  <2>1. /\ Len(Encode(s[i])) = 6 /\ Encode(s[i])[3] = "o" /\ Encode(s[i])[4] = "x"
        /\ Encode(s[i])[5] = "IAC" /\ Encode(s[i])[6] = "SE"
    BY <1>3, <1>6, EncodedBytes
  <2>2. /\ S[e[i - 1] + 3].byte = "o" /\ S[e[i - 1] + 4].byte = "x" /\ S[e[i - 1] + 5].byte = "IAC"
        /\ S[e[i - 1] + 6].byte = "SE"
    <3>1. \A k \in {3, 4, 5, 6} : k \in 1 .. Len(Encode(s[i]))
      BY <2>1
    <3>2. QED
      BY <1>3, <2>1, <3>1, Zenon
  <2>3. SubNegAt(S, p, s[i])
    BY <1>5, <1>6, <2>2 DEF SubNegAt
  <2>4. e[i] = p + 4
    BY <1>3, <1>5, <2>1
  <2>5. QED
    BY <1>2, <1>4, <1>5, <1>6, <2>3, <2>4
<1>7. CASE s[i] = "emptysubneg"
  <2>1. Len(Encode(s[i])) = 5 /\ Encode(s[i])[3] = "o" /\ Encode(s[i])[4] = "IAC" /\ Encode(s[i])[5] = "SE"
    BY <1>3, <1>7, EncodedBytes
  <2>2. S[e[i - 1] + 3].byte = "o" /\ S[e[i - 1] + 4].byte = "IAC" /\ S[e[i - 1] + 5].byte = "SE"
    <3>1. \A k \in {3, 4, 5} : k \in 1 .. Len(Encode(s[i]))
      BY <2>1
    <3>2. QED
      BY <1>3, <2>1, <3>1, Zenon
  <2>3. SubNegAt(S, p, s[i])
    BY <1>5, <1>7, <2>2 DEF SubNegAt
  <2>4. e[i] = p + 3
    BY <1>3, <1>5, <2>1
  <2>5. QED
    BY <1>2, <1>4, <1>5, <1>7, <2>3, <2>4
<1>8. CASE s[i] = "subneg255"
  <2>1. Len(Encode(s[i])) = 9 /\ Encode(s[i])[3] = "o" /\ Encode(s[i])[4] = "IAC" /\ Encode(s[i])[5] = "IAC"
    BY <1>3, <1>8, EncodedBytes
  <2>2. S[e[i - 1] + 3].byte = "o" /\ S[e[i - 1] + 4].byte = "IAC" /\ S[e[i - 1] + 5].byte = "IAC"
    <3>1. \A k \in {3, 4, 5} : k \in 1 .. Len(Encode(s[i]))
      BY <2>1
    <3>2. QED
      BY <1>3, <2>1, <3>1, Zenon
  <2>3. SubNegAt(S, p, s[i])
    BY <1>5, <1>8, <2>2 DEF SubNegAt
  <2>4. QED
    BY <1>2, <1>4, <1>5, <1>8, <2>3
<1>9. CASE s[i] = "notypesubneg"
  <2>1. SubNegAt(S, p, s[i])
    BY <1>9 DEF SubNegAt
  <2>2. QED
    BY <1>2, <1>4, <1>5, <1>9, <2>1
<1>10. QED
  BY <1>4, <1>6, <1>7, <1>8, <1>9

\* Text is an item of its own.
LEMMA TextHere ==
    ASSUME NEW s \in Seq(Items), NEW S, NEW e, Shape(s, S, e), NEW p \in 1 .. Len(S),
           S[p].byte \in Text
    PROVE  \E i \in 1 .. Len(s) : p = e[i]
<1>1. PICK i, j : Owns(s, S, e, p, i, j)
  BY Owner
<1>2. /\ i \in 1 .. Len(s) /\ j \in 1 .. Len(Encode(s[i]))
      /\ p = e[i - 1] + j /\ S[p].byte = Encode(s[i])[j]
  BY <1>1 DEF Owns
<1>3. s[i] \in Items /\ e[i] = e[i - 1] + Len(Encode(s[i])) /\ e[i - 1] \in Nat
  BY <1>2, InItem
<1>4. Encode(s[i])[j] \in Text
  BY <1>2
<1>5. s[i] \in TextItems /\ j = 1
  BY <1>2, <1>3, <1>4, PlaceInItem
<1>6. Len(Encode(s[i])) = 1
  BY <1>2, <1>3, <1>5, PlaceInItem
<1>7. QED
  BY <1>2, <1>3, <1>5, <1>6

\* Which items have the byte 255, escaped, in them.
LEMMA PairInItem ==
    ASSUME NEW x \in Items, NEW j \in 1 .. Len(Encode(x)), j + 1 <= Len(Encode(x)),
           Encode(x)[j] = "IAC", Encode(x)[j + 1] = "IAC"
    PROVE  j = 1 \/ (x = "subneg255" /\ j = 4)
<1>1. CASE x \in TextItems
  <2>1. Encode(x)[j] \in Text
    BY <1>1, PlaceInItem
  <2>2. QED
    BY <2>1 DEF Text
<1>2. CASE x = "option"
  <2>1. Len(Encode(x)) = 3
    BY <1>2, EncodedBytes
  <2>2. j = 1 \/ j = 2
    BY <2>1
  <2>3. QED
    BY <1>2, <2>2, EncodedBytes
<1>3. CASE x = "subneg"
  <2>1. Len(Encode(x)) = 6
    BY <1>3, EncodedBytes
  <2>2. j = 1 \/ j = 2 \/ j = 3 \/ j = 4 \/ j = 5
    BY <2>1
  <2>3. QED
    BY <1>3, <2>2, EncodedBytes
<1>4. CASE x = "emptysubneg"
  <2>1. Len(Encode(x)) = 5
    BY <1>4, EncodedBytes
  <2>2. j = 1 \/ j = 2 \/ j = 3 \/ j = 4
    BY <2>1
  <2>3. QED
    BY <1>4, <2>2, EncodedBytes
<1>5. CASE x = "subneg255"
  <2>1. Len(Encode(x)) = 9
    BY <1>5, EncodedBytes
  <2>2. j = 1 \/ j = 2 \/ j = 3 \/ j = 4 \/ j = 5 \/ j = 6 \/ j = 7 \/ j = 8
    BY <2>1
  <2>3. QED
    BY <1>5, <2>2, EncodedBytes
<1>6. CASE x = "notypesubneg"
  <2>1. Len(Encode(x)) = 4
    BY <1>6, EncodedBytes
  <2>2. j = 1 \/ j = 2 \/ j = 3
    BY <2>1
  <2>3. QED
    BY <1>6, <2>2, EncodedBytes
<1>7. CASE x \in {"escape", "command"}
  <2>1. Len(Encode(x)) = 2
    BY <1>7, EncodedBytes
  <2>2. QED
    BY <2>1
<1>8. QED
  BY <1>1, <1>2, <1>3, <1>4, <1>5, <1>6, <1>7 DEF Items, TextItems

\* An IAC that ends an item is the second of a pair.
LEMMA LastIAC ==
    ASSUME NEW s \in Seq(Items), NEW S, NEW e, Shape(s, S, e), NEW q \in 1 .. Len(S),
           S[q].byte = "IAC", S[q].last
    PROVE  q - 1 \in 1 .. Len(S) /\ PairAt(S, q - 1)
<1>1. PICK i, j : Owns(s, S, e, q, i, j)
  BY Owner
<1>2. /\ i \in 1 .. Len(s) /\ j \in 1 .. Len(Encode(s[i])) /\ q = e[i - 1] + j
      /\ Encode(s[i])[j] = "IAC" /\ q = e[i]
  BY <1>1 DEF Owns
<1>3. /\ s[i] \in Items /\ e[i] = e[i - 1] + Len(Encode(s[i])) /\ e[i - 1] \in Nat /\ e[i] <= Len(S)
      /\ \A k \in 1 .. Len(Encode(s[i])) :
            S[e[i - 1] + k].byte = Encode(s[i])[k] /\ (S[e[i - 1] + k].last <=> k = Len(Encode(s[i])))
  BY <1>2, InItem
<1>4. j = Len(Encode(s[i])) /\ j \in Nat
  <2>1. Len(Encode(s[i])) \in Nat /\ e[i - 1] \in Nat /\ j \in Nat
    BY <1>2, <1>3, EncodeType
  <2>2. e[i - 1] + j = e[i - 1] + Len(Encode(s[i]))
    BY <1>2, <1>3
  <2>3. QED
    BY ONLY <2>1, <2>2
<1>5. s[i] = "escape"
  BY <1>2, <1>3, <1>4, PlaceInItem
<1>6. Len(Encode(s[i])) = 2 /\ Encode(s[i])[1] = "IAC"
  BY <1>3, <1>5, EncodedBytes
<1>7. q - 1 = e[i - 1] + 1 /\ q = e[i - 1] + 2 /\ Len(S) \in Nat
  <2>1. S \in Seq(Cell)
    BY DEF Shape
  <2>2. QED
    BY <1>2, <1>3, <1>4, <1>6, <2>1
<1>8. S[e[i - 1] + 1].byte = "IAC" /\ ~S[e[i - 1] + 1].last
  <2>1. 1 \in 1 .. Len(Encode(s[i])) /\ 1 # Len(Encode(s[i]))
    BY <1>6
  <2>2. QED
    BY <1>3, <1>6, <2>1, Zenon
<1>9. q - 1 < Len(S) /\ (q - 1) + 1 = q /\ q - 1 \in 1 .. Len(S)
  BY <1>3, <1>7
<1>10. S[q - 1].byte = "IAC" /\ ~S[q - 1].last
  BY <1>7, <1>8
<1>11. QED
  BY <1>9, <1>10 DEF PairAt

\* The byte before an item is the last of another.
LEMMA BeforeItem ==
    ASSUME NEW s \in Seq(Items), NEW S, NEW e, Shape(s, S, e), NEW i \in 1 .. Len(s), e[i - 1] \in 1 .. Len(S)
    PROVE  S[e[i - 1]].last
<1>1. e[0] = 0
  BY DEF Shape
<1>2. i # 1
  BY <1>1
<1>3. i - 1 \in 1 .. Len(s)
  BY <1>2
<1> DEFINE k == i - 1
<1> HIDE DEF k
<1>4. k \in 1 .. Len(s)
  BY <1>3 DEF k
<1>5. /\ s[k] \in Items /\ e[k] = e[k - 1] + Len(Encode(s[k]))
      /\ \A j \in 1 .. Len(Encode(s[k])) : S[e[k - 1] + j].last <=> j = Len(Encode(s[k]))
  BY <1>4, InItem
<1>6. Len(Encode(s[k])) \in 1 .. Len(Encode(s[k]))
  BY <1>5, EncodeType
<1>7. S[e[k]].last
  BY <1>5, <1>6
<1>8. QED
  BY <1>7 DEF k

\* A byte behind an IAC that only looks like a command: that IAC ends a pair.
LEMMA LooksBehindPair ==
    ASSUME NEW s \in Seq(Items), NEW S, NEW e, Shape(s, S, e), NEW q \in 1 .. Len(S), q + 1 <= Len(S),
           S[q].byte = "IAC", S[q + 1].byte \in {"aOPT", "aSB", "xOPT"}
    PROVE  q - 1 \in 1 .. Len(S) /\ PairAt(S, q - 1)
<1> DEFINE p == q + 1
<1>0. S \in Seq(Cell) /\ Len(S) \in Nat /\ q \in Nat
  BY DEF Shape
<1>1. p \in 1 .. Len(S) /\ p \in Nat /\ q = p - 1 /\ S[p].byte \in {"aOPT", "aSB", "xOPT"}
  BY <1>0
<1> HIDE DEF p
<1>2. PICK i, j : Owns(s, S, e, p, i, j)
  BY <1>1, Owner
<1>3. /\ i \in 1 .. Len(s) /\ j \in 1 .. Len(Encode(s[i])) /\ p = e[i - 1] + j
      /\ Encode(s[i])[j] \in {"aOPT", "aSB", "xOPT"}
  BY <1>1, <1>2 DEF Owns
<1>4. /\ s[i] \in Items /\ e[i] = e[i - 1] + Len(Encode(s[i])) /\ e[i - 1] \in Nat
      /\ \A k \in 1 .. Len(Encode(s[i])) :
            S[e[i - 1] + k].byte = Encode(s[i])[k] /\ (S[e[i - 1] + k].last <=> k = Len(Encode(s[i])))
  BY <1>3, InItem
<1>5. CASE Encode(s[i])[j] \in {"aOPT", "aSB"}
  <2>1. j = 1
    <3>1. Encode(s[i])[j] \in Text
      BY <1>5 DEF Text
    <3>2. QED
      BY <1>3, <1>4, <3>1, PlaceInItem
  <2>2. e[i - 1] = q
    BY <1>1, <1>3, <1>4, <2>1
  <2>3. S[q].last
    BY <1>3, <2>2, BeforeItem
  <2>4. QED
    BY <2>3, LastIAC
<1>6. CASE Encode(s[i])[j] = "xOPT"
  <2>1. s[i] = "subneg255" /\ j = 6
    BY <1>3, <1>4, <1>6, PlaceInItem
  <2>2. Len(Encode(s[i])) = 9 /\ Encode(s[i])[4] = "IAC"
    BY <1>4, <2>1, EncodedBytes
  <2>3. q = e[i - 1] + 5 /\ q - 1 = e[i - 1] + 4 /\ (q - 1) + 1 = q
    <3>1. p \in Nat /\ e[i - 1] \in Nat /\ q = p - 1 /\ p = e[i - 1] + 6
      BY <1>1, <1>3, <1>4, <2>1
    <3>2. QED
      BY ONLY <3>1
  <2>4. S[e[i - 1] + 4].byte = "IAC" /\ ~S[e[i - 1] + 4].last
    <3>1. 4 \in 1 .. Len(Encode(s[i])) /\ 4 # Len(Encode(s[i]))
      BY <2>2
    <3>2. QED
      BY <1>4, <2>2, <3>1, Zenon
  <2>5. S[q - 1].byte = "IAC" /\ ~S[q - 1].last
    BY <2>3, <2>4
  <2>6. q - 1 < Len(S) /\ q - 1 \in 1 .. Len(S)
    <3>1. q \in 1 .. Len(S) /\ Len(S) \in Nat /\ e[i - 1] \in Nat /\ q = e[i - 1] + 5
      BY <1>0, <1>4, <2>3
    <3>2. QED
      BY ONLY <3>1
  <2>7. QED
    BY <2>3, <2>5, <2>6 DEF PairAt
<1>7. QED
  BY <1>3, <1>5, <1>6

\* An IAC in front of a pair ends another one.
LEMMA IACBeforePair ==
    ASSUME NEW s \in Seq(Items), NEW S, NEW e, Shape(s, S, e), NEW q \in 1 .. Len(S), q + 1 <= Len(S),
           S[q].byte = "IAC", PairAt(S, q + 1)
    PROVE  q - 1 \in 1 .. Len(S) /\ PairAt(S, q - 1)
<1> DEFINE p == q + 1
<1>0. S \in Seq(Cell) /\ Len(S) \in Nat /\ q \in Nat
  BY DEF Shape
<1>1. /\ p \in 1 .. Len(S) /\ p \in Nat /\ q = p - 1 /\ S[p].byte = "IAC" /\ ~S[p].last
      /\ S[p + 1].byte = "IAC"
  BY <1>0 DEF PairAt
<1> HIDE DEF p
<1>2. PICK i, j : Owns(s, S, e, p, i, j)
  BY <1>1, Owner
<1>3. /\ i \in 1 .. Len(s) /\ j \in 1 .. Len(Encode(s[i])) /\ p = e[i - 1] + j
      /\ Encode(s[i])[j] = "IAC" /\ p # e[i]
  BY <1>1, <1>2 DEF Owns
<1>4. /\ s[i] \in Items /\ e[i] = e[i - 1] + Len(Encode(s[i])) /\ e[i - 1] \in Nat
      /\ \A k \in 1 .. Len(Encode(s[i])) : S[e[i - 1] + k].byte = Encode(s[i])[k]
      /\ Len(Encode(s[i])) \in Nat
  BY <1>3, InItem, EncodeType
<1>5. j \in Nat /\ j + 1 <= Len(Encode(s[i])) /\ p + 1 = e[i - 1] + (j + 1) /\ j + 1 \in 1 .. Len(Encode(s[i]))
  <2>1. j \in 1 .. Len(Encode(s[i])) /\ e[i - 1] + j # e[i - 1] + Len(Encode(s[i]))
    BY <1>3, <1>4
  <2>2. j + 1 <= Len(Encode(s[i])) /\ j \in Nat
    BY <1>4, <2>1
  <2>3. p = e[i - 1] + j /\ e[i - 1] \in Nat /\ Len(Encode(s[i])) \in Nat
    BY <1>3, <1>4
  <2>4. QED
    BY ONLY <2>2, <2>3
<1>6. Encode(s[i])[j + 1] = "IAC"
  BY <1>1, <1>4, <1>5
<1>7. j = 1 \/ (s[i] = "subneg255" /\ j = 4)
  BY <1>3, <1>4, <1>5, <1>6, PairInItem
<1>8. CASE j = 1
  <2>1. e[i - 1] = q
    BY <1>1, <1>3, <1>4, <1>8
  <2>2. S[q].last
    BY <1>3, <2>1, BeforeItem
  <2>3. QED
    BY <2>2, LastIAC
<1>9. CASE s[i] = "subneg255" /\ j = 4
  <2>1. Len(Encode(s[i])) = 9 /\ Encode(s[i])[3] = "o"
    BY <1>4, <1>9, EncodedBytes
  <2>2. q = e[i - 1] + 3
    <3>1. p \in Nat /\ e[i - 1] \in Nat /\ q = p - 1 /\ p = e[i - 1] + 4
      BY <1>1, <1>3, <1>4, <1>9
    <3>2. QED
      BY ONLY <3>1
  <2>3. S[e[i - 1] + 3].byte = "o"
    <3>1. 3 \in 1 .. Len(Encode(s[i]))
      BY <2>1
    <3>2. QED
      BY <1>4, <2>1, <3>1, Zenon
  <2>4. QED
    BY <2>2, <2>3
<1>10. QED
  BY <1>7, <1>8, <1>9
-----------------------------------------------------------------------------
(***************************************************************************)
(* What the scanner does to a chunk.                                       *)
(***************************************************************************)

LEMMA Erased ==
    ASSUME NEW X, NEW c \in Seq(X), NEW f \in 1 .. Len(c), NEW g \in f .. Len(c)
    PROVE  /\ Erase(c, f, g) \in Seq(X) /\ Len(Erase(c, f, g)) = Len(c) - (g - f + 1)
           /\ \A i \in 1 .. f - 1 : Erase(c, f, g)[i] = c[i]
           /\ \A i \in f .. Len(c) - (g - f + 1) : Erase(c, f, g)[i] = c[i + (g - f + 1)]
<1> DEFINE a == SubSeq(c, 1, f - 1)
           b == SubSeq(c, g + 1, Len(c))
<1>1. Len(c) \in Nat /\ f \in Nat /\ g \in Nat /\ 1 <= f /\ f <= g /\ g <= Len(c)
  OBVIOUS
<1>2. a \in Seq(X) /\ Len(a) = f - 1 /\ \A i \in 1 .. f - 1 : a[i] = c[i]
  <2>1. f - 1 \in 0 .. Len(c)
    BY <1>1
  <2>2. QED
    BY <2>1, FrontPart
<1>3. b \in Seq(X) /\ Len(b) = Len(c) - g /\ \A i \in 1 .. Len(c) - g : b[i] = c[g + i]
  <2>1. g \in 0 .. Len(c)
    BY <1>1
  <2>2. QED
    BY <2>1, BackPart
<1> HIDE DEF a, b
<1>4. /\ a \o b \in Seq(X) /\ Len(a \o b) = Len(a) + Len(b)
      /\ \A i \in 1 .. Len(a) : (a \o b)[i] = a[i]
      /\ \A i \in 1 .. Len(b) : (a \o b)[Len(a) + i] = b[i]
  <2>1. a \in Seq(X) /\ b \in Seq(X)
    BY <1>2, <1>3
  <2>2. QED
    BY ONLY <2>1, Joined
<1>5. ASSUME NEW i \in f .. Len(c) - (g - f + 1) PROVE (a \o b)[i] = c[i + (g - f + 1)]
  <2> DEFINE k == i - (f - 1)
  <2>1. k \in 1 .. Len(c) - g /\ i = (f - 1) + k /\ g + k = i + (g - f + 1)
    BY <1>1
  <2> HIDE DEF k
  <2>2. (a \o b)[i] = b[k]
    BY <1>2, <1>3, <1>4, <2>1
  <2>3. b[k] = c[g + k]
    BY <1>3, <2>1
  <2>4. QED
    BY <2>1, <2>2, <2>3
<1>6. Erase(c, f, g) = a \o b
  BY DEF Erase, a, b
<1>7. Len(a \o b) = Len(c) - (g - f + 1) /\ \A i \in 1 .. f - 1 : (a \o b)[i] = c[i]
  BY <1>1, <1>2, <1>3, <1>4
<1>8. QED
  BY <1>4, <1>5, <1>6, <1>7

\* The IAC and what follows it, erased one after the other.
LEMMA ErasedTwice ==
    ASSUME NEW X, NEW c \in Seq(X), NEW f \in 1 .. Len(c), NEW g \in f .. Len(c) - 1
    PROVE  Erase(Erase(c, f, f), f, g) = Erase(c, f, g + 1)
<1> DEFINE d == Erase(c, f, f)
           u == Erase(d, f, g)
           v == Erase(c, f, g + 1)
<1>1. Len(c) \in Nat /\ f \in Nat /\ g \in Nat /\ 1 <= f /\ f <= g /\ g + 1 <= Len(c)
  OBVIOUS
<1>2. /\ d \in Seq(X) /\ Len(d) = Len(c) - 1
      /\ \A i \in 1 .. f - 1 : d[i] = c[i]
  <2>1. f \in f .. Len(c) /\ f - f + 1 = 1
    BY <1>1
  <2>2. /\ d \in Seq(X) /\ Len(d) = Len(c) - (f - f + 1)
        /\ \A i \in 1 .. f - 1 : d[i] = c[i]
        /\ \A i \in f .. Len(c) - (f - f + 1) : d[i] = c[i + (f - f + 1)]
    BY <2>1, Erased
  <2> HIDE DEF d
  <2>3. QED
    BY <2>1, <2>2
<1>3. \A k \in f .. Len(c) - 1 : d[k] = c[k + 1]
  <2>1. f \in f .. Len(c) /\ f - f + 1 = 1
    BY <1>1
  <2>2. \A i \in f .. Len(c) - (f - f + 1) : d[i] = c[i + (f - f + 1)]
    BY <2>1, Erased
  <2> HIDE DEF d
  <2>3. QED
    BY <2>1, <2>2
<1> HIDE DEF d
<1> DEFINE n == g - f + 1
           m == (g + 1) - f + 1
<1>4. /\ u \in Seq(X) /\ Len(u) = Len(d) - n
      /\ \A i \in 1 .. f - 1 : u[i] = d[i]
      /\ \A i \in f .. Len(d) - n : u[i] = d[i + n]
  <2>1. f \in 1 .. Len(d) /\ g \in f .. Len(d)
    BY <1>1, <1>2
  <2>2. QED
    BY <1>2, <2>1, Erased
<1>5. /\ v \in Seq(X) /\ Len(v) = Len(c) - m
      /\ \A i \in 1 .. f - 1 : v[i] = c[i]
      /\ \A i \in f .. Len(c) - m : v[i] = c[i + m]
  <2>1. g + 1 \in f .. Len(c)
    BY <1>1
  <2>2. QED
    BY <2>1, Erased
<1>6. n \in Nat /\ n >= 1 /\ m = n + 1 /\ Len(c) - m = Len(d) - n
  BY <1>1, <1>2
<1> HIDE DEF u, v, n, m
<1>7. ASSUME NEW i \in 1 .. Len(d) - n PROVE u[i] = v[i]
  <2>1. CASE i < f
    <3>1. i \in 1 .. f - 1
      BY <1>1, <2>1
    <3>2. u[i] = d[i] /\ v[i] = c[i] /\ d[i] = c[i]
      BY <1>2, <1>4, <1>5, <3>1
    <3>3. QED
      BY <3>2
  <2>2. CASE ~(i < f)
    <3>1. i \in f .. Len(d) - n /\ i + n \in f .. Len(c) - 1 /\ (i + n) + 1 = i + m
      BY <1>1, <1>2, <1>6, <2>2
    <3>2. QED
      BY <1>3, <1>4, <1>5, <1>6, <3>1
  <2>3. QED
    BY <2>1, <2>2
<1>8. u = v
  BY <1>4, <1>5, <1>6, <1>7, SeqEqual
<1>9. QED
  BY <1>8 DEF u, v, d

\* Erasing what is not of S leaves the same of S.
LEMMA KeepErased ==
    ASSUME NEW X, NEW c \in Seq(X), NEW f \in 1 .. Len(c), NEW g \in f .. Len(c), NEW S,
           \A i \in f .. g : c[i] \notin S
    PROVE  Keep(Erase(c, f, g), S) = Keep(c, S)
<1> DEFINE a == SubSeq(c, 1, f - 1)
           w == SubSeq(c, f, g)
           b == SubSeq(c, g + 1, Len(c))
           aw == a \o w
<1>1. Len(c) \in Nat /\ f \in Nat /\ g \in Nat /\ 1 <= f /\ f <= g /\ g <= Len(c)
  OBVIOUS
<1>2. a \in Seq(X)
  <2>1. f - 1 \in 0 .. Len(c)
    BY <1>1
  <2>2. QED
    BY <2>1, FrontPart
<1>3. b \in Seq(X)
  <2>1. g \in 0 .. Len(c)
    BY <1>1
  <2>2. QED
    BY <2>1, BackPart
<1>4. w \in Seq(X) /\ \A i \in 1 .. Len(w) : w[i] \notin S
  <2>1. f \in 1 .. Len(c) + 1 /\ g \in f - 1 .. Len(c)
    BY <1>1
  <2>2. w \in Seq(X) /\ Len(w) = g - f + 1 /\ \A i \in 1 .. g - f + 1 : w[i] = c[f + i - 1]
    BY <2>1, Part
  <2>3. \A i \in 1 .. g - f + 1 : f + i - 1 \in f .. g
    BY <1>1
  <2> HIDE DEF w
  <2>4. QED
    BY <2>2, <2>3
<1>5. c = aw \o b
  <2>1. 1 \in 1 .. Len(c) + 1 /\ f - 1 \in 1 - 1 .. Len(c) /\ g \in f - 1 .. Len(c) /\ (f - 1) + 1 = f
    BY <1>1
  <2>2. SubSeq(c, 1, f - 1) \o SubSeq(c, (f - 1) + 1, g) = SubSeq(c, 1, g)
    BY <2>1, ConcatAdjacentSubSeq
  <2>3. SubSeq(c, 1, g) = aw
    BY <2>1, <2>2
  <2>4. SubSeq(c, 1, g) \o b = SubSeq(c, 1, Len(c))
    <3>1. g \in 1 - 1 .. Len(c) /\ Len(c) \in g .. Len(c)
      BY <1>1
    <3>2. QED
      BY <2>1, <3>1, ConcatAdjacentSubSeq
  <2>5. SubSeq(c, 1, Len(c)) = c
    BY SubSeqFull
  <2>6. QED
    BY <2>3, <2>4, <2>5, Zenon
<1>6. Erase(c, f, g) = a \o b
  BY DEF Erase
<1> HIDE DEF a, w, b
<1>7. Keep(w, S) = <<>>
  BY <1>4, KeepNone
<1>8. Keep(aw, S) = Keep(a, S) \o Keep(w, S) /\ aw \in Seq(X)
  BY <1>2, <1>4, KeepConcat
<1>9. Keep(a, S) \in Seq(X)
  BY <1>2, KeepType
<1>10. Keep(aw, S) = Keep(a, S)
  <2>1. Keep(a, S) \o <<>> = Keep(a, S)
    BY <1>9
  <2>2. QED
    BY <1>7, <1>8, <2>1, Zenon
<1> HIDE DEF aw
<1>11. Keep(aw \o b, S) = Keep(aw, S) \o Keep(b, S)
  <2>1. aw \in Seq(X) /\ b \in Seq(X)
    BY <1>3, <1>8
  <2>2. QED
    BY ONLY <2>1, KeepConcat
<1>12. Keep(a \o b, S) = Keep(a, S) \o Keep(b, S)
  BY <1>2, <1>3, KeepConcat
<1>13. QED
  BY <1>5, <1>6, <1>10, <1>11, <1>12, Zenon

LEMMA FoundIAC ==
    ASSUME NEW c \in Seq(Bytes), NEW from \in 1 .. Len(c) + 1
    PROVE  /\ FindIAC(c, from) \in from .. Len(c) + 1
           /\ \A i \in from .. FindIAC(c, from) - 1 : c[i] # "IAC"
           /\ FindIAC(c, from) # Len(c) + 1 => c[FindIAC(c, from)] = "IAC"
<1> DEFINE I == {i \in from .. Len(c) : c[i] = "IAC"} \cup {Len(c) + 1}
           f == FindIAC(c, from)
<1>1. I \in SUBSET Nat /\ I # {}
  OBVIOUS
<1>2. f = Min(I)
  BY DEF FindIAC
<1>3. f \in I /\ \A y \in I : f <= y
  BY <1>1, <1>2, MinNat
<1> HIDE DEF f
<1>4. f \in from .. Len(c) + 1 /\ (f # Len(c) + 1 => c[f] = "IAC")
  BY <1>3
<1>5. ASSUME NEW i \in from .. f - 1, c[i] = "IAC" PROVE FALSE
  <2>1. i \in I
    BY <1>4, <1>5
  <2>2. QED
    BY <1>3, <1>4, <2>1
<1>6. QED
  BY <1>4, <1>5 DEF f

\* handle_sub_neg finds the end of a sub-negotiation when all of it is there.
LEMMA SubNegScan ==
    ASSUME NEW r \in Seq(Bytes), NEW F \in 1 .. Len(r), NEW n \in {2, 3},
           F + 1 <= Len(r) => r[F + 1] = "o",
           n = 3 /\ F + 2 <= Len(r) => r[F + 2] = "x",
           F + n <= Len(r) => r[F + n] = "IAC",
           F + n + 1 <= Len(r) => r[F + n + 1] = "SE"
    PROVE  /\ F + n + 1 <= Len(r) => EndsSubNeg(r, F) /\ FindIAC(r, F + 1) = F + n
           /\ F + n + 1 > Len(r) => ~EndsSubNeg(r, F)
<1> DEFINE end == FindIAC(r, F + 1)
<1>1. Len(r) \in Nat /\ F \in Nat /\ F >= 1 /\ F <= Len(r) /\ F + 1 \in 1 .. Len(r) + 1
  OBVIOUS
<1>2. /\ end \in F + 1 .. Len(r) + 1
      /\ \A i \in F + 1 .. end - 1 : r[i] # "IAC"
      /\ end # Len(r) + 1 => r[end] = "IAC"
  BY <1>1, FoundIAC
<1>3. EndsSubNeg(r, F) <=> F < Len(r) /\ F + 2 <= Len(r) /\ end < Len(r) /\ r[end + 1] = "SE"
  BY DEF EndsSubNeg
<1> HIDE DEF end
<1>4. \A i \in F + 1 .. F + n - 1 : i <= Len(r) => r[i] # "IAC"
  BY <1>1
<1>5. end >= F + n \/ end = Len(r) + 1
  BY <1>1, <1>2, <1>4
<1>6. CASE F + n + 1 <= Len(r)
  <2>1. r[F + n] = "IAC" /\ r[F + n + 1] = "SE"
    BY <1>1, <1>6
  <2>2. end = F + n
    BY <1>1, <1>2, <1>5, <1>6, <2>1
  <2>3. EndsSubNeg(r, F)
    BY <1>1, <1>3, <1>6, <2>1, <2>2
  <2>4. QED
    BY <1>1, <1>6, <2>2, <2>3 DEF end
<1>7. CASE F + n + 1 > Len(r)
  <2>1. ~(end < Len(r))
    BY <1>1, <1>2, <1>5, <1>7
  <2>2. QED
    BY <1>1, <1>3, <1>7, <2>1
<1>8. QED
  BY <1>1, <1>6, <1>7

\* A sub-negotiation with an escaped 255: it gives up at the first IAC of the pair.
LEMMA SubNegGivesUp ==
    ASSUME NEW r \in Seq(Bytes), NEW F \in 1 .. Len(r),
           F + 1 <= Len(r) => r[F + 1] = "o",
           F + 2 <= Len(r) => r[F + 2] = "IAC",
           F + 3 <= Len(r) => r[F + 3] = "IAC"
    PROVE  ~EndsSubNeg(r, F)
<1> DEFINE end == FindIAC(r, F + 1)
<1>1. Len(r) \in Nat /\ F \in Nat /\ F >= 1 /\ F <= Len(r) /\ F + 1 \in 1 .. Len(r) + 1
  OBVIOUS
<1>2. /\ end \in F + 1 .. Len(r) + 1
      /\ \A i \in F + 1 .. end - 1 : r[i] # "IAC"
      /\ end # Len(r) + 1 => r[end] = "IAC"
  BY <1>1, FoundIAC
<1>3. EndsSubNeg(r, F) => end < Len(r) /\ r[end + 1] = "SE"
  BY DEF EndsSubNeg
<1> HIDE DEF end
<1>4. SUFFICES ASSUME end < Len(r), r[end + 1] = "SE" PROVE FALSE
  BY <1>3
<1>5. end # F + 1
  BY <1>1, <1>2, <1>4
<1>6. end = F + 2
  BY <1>1, <1>2, <1>4, <1>5
<1>7. QED
  BY <1>1, <1>4, <1>6
-----------------------------------------------------------------------------
(***************************************************************************)
(* The invariant of the receiving side.                                    *)
(***************************************************************************)

Kinds == {"option", "subneg", "emptysubneg"}

All == Stream(items)

\* How many bytes recv() has returned, and how many were before this chunk.
Read == Len(All) - Len(wire)
Base == Read - Len(chunk)

ScanType ==
    /\ items \in Seq(Items) /\ chunk \in Seq(Bytes) /\ pos \in 1 .. Len(chunk) + 1
    /\ rpc \in {"idle", "scan", "notify"} /\ (rpc # "scan" => chunk = <<>> /\ pos = 1)
    /\ events \in Seq(Kinds)

BufferType == inBuffer \in Seq(Bytes) /\ delivered \in Seq(Bytes) /\ taken \in Seq(Bytes)

\* The wire is the rest of the stream.
WireInv ==
    /\ wire \in Seq(Cell) /\ Len(wire) <= Len(All)
    /\ wire = SubSeq(All, Read + 1, Len(All))

\* What is still to be scanned of the chunk is the last that was read.
ChunkInv == Base >= 0 /\ \A i \in pos .. Len(chunk) : chunk[i] = All[Base + i].byte

\* A step of the scanner: bytes f to g of the chunk are dropped.
Erases(f, g) ==
    /\ f = Found /\ f \in pos .. Len(chunk) - 1 /\ g \in f .. Len(chunk)
    /\ chunk' = Erase(chunk, f, g) /\ pos' \in {f, Len(chunk') + 1}
    /\ events' = events \/ \E x \in Kinds : events' = Append(events, x)
    /\ UNCHANGED <<streamVars, rpc, bufferVars, taken>>

\* Where it goes on: at the end, behind a byte that is no IAC, or behind two.
GoesOn(f, g) ==
    \/ pos' = Len(chunk') + 1
    \/ g = f /\ chunk[f + 1] # "IAC"
    \/ g = f + 1 /\ chunk[f + 1] = "IAC"
    \/ g = f + 2 /\ chunk[f + 1] \in Options
    \/ chunk[g] = "SE"

\* What it should be: no text is among the bytes that are dropped, and when a callback is
\* made they are the item that it reports; a negotiation of a kind that is decoded has
\* no callback only when it has not arrived.
Drops(f, g) ==
    /\ f = Found /\ f \in pos .. Len(chunk) - 1 /\ g \in f .. Len(chunk)
    /\ chunk' = Erase(chunk, f, g) /\ pos' \in {f, Len(chunk') + 1}
    /\ \A i \in f .. g : chunk[i] \notin Text
    /\ \/ /\ events' = events
          /\ chunk[f + 1] \in {"OPT", "SB"} =>
                \E i \in 1 .. Len(items) :
                    Ends(items)[i - 1] = Base + f - 1 /\ (items[i] \in Kinds => Ends(items)[i] > Read)
       \/ \E i \in 1 .. Len(items) :
             /\ Ends(items)[i - 1] = Base + f - 1 /\ Ends(items)[i] = Base + g
             /\ items[i] \in Kinds /\ events' = Append(events, items[i]) /\ pos' = f
    /\ UNCHANGED <<streamVars, rpc, bufferVars, taken>>

LEMMA DropsErases == ASSUME NEW f, NEW g, Drops(f, g) PROVE Erases(f, g)
BY DEF Drops, Erases

\* Byte q of the stream is the first of a pair IAC IAC.
Pair(q) == q \in 1 .. Len(All) /\ PairAt(All, q)

\* on_recv never stands between the two bytes of a pair, if no chunk was cut there.
AlignInv == cut \in BOOLEAN /\ (~cut => ~Pair(Base + pos - 1) /\ ~Pair(Read))

\* The streams for which the scanner does what it should.
Legible ==
    /\ cut => \A i \in 1 .. Len(items) : items[i] \notin LooksLikeCommand
    /\ \A i \in 1 .. Len(items) : items[i] # "notypesubneg"

ScanAction == Escaped \/ HandleTelopt \/ HandleSubNeg \/ OtherCommand

LEMMA NotText == "IAC" \notin Text /\ "OPT" \notin Text /\ "SB" \notin Text /\ "SE" \notin Text
                 /\ "o" \notin Text /\ "x" \notin Text
BY DEF Text

LEMMA ReadIsNat ==
    ASSUME ScanType, WireInv
    PROVE  /\ Shape(items, All, Ends(items)) /\ All \in Seq(Cell) /\ Len(All) \in Nat /\ Len(wire) \in Nat
           /\ Read \in Nat /\ Read <= Len(All) /\ Len(wire) = Len(All) - Read
<1>1. Shape(items, All, Ends(items)) /\ All \in Seq(Cell)
  BY StreamShape, StreamType DEF ScanType, All
<1>2. Len(All) \in Nat /\ Len(wire) \in Nat
  BY <1>1 DEF WireInv
<1>3. QED
  BY <1>1, <1>2 DEF WireInv, Read

LEMMA ScanNumbers ==
    ASSUME ScanType, WireInv, ChunkInv
    PROVE  /\ items \in Seq(Items) /\ chunk \in Seq(Bytes) /\ Len(chunk) \in Nat
           /\ pos \in 1 .. Len(chunk) + 1 /\ pos \in Nat
           /\ Read \in Nat /\ Base \in Nat /\ Base + Len(chunk) = Read /\ Read <= Len(All) /\ Len(All) \in Nat
           /\ Shape(items, All, Ends(items))
<1>1. Len(chunk) \in Nat /\ pos \in 1 .. Len(chunk) + 1
  BY DEF ScanType
<1>2. Read \in Nat /\ Read <= Len(All) /\ Len(All) \in Nat /\ Shape(items, All, Ends(items))
  BY ReadIsNat
<1>3. QED
  BY <1>1, <1>2 DEF ScanType, ChunkInv, Base

\* The IAC that is found, and what is in the chunk without it.
LEMMA ScanPlace ==
    ASSUME ScanType, WireInv, ChunkInv, Scanning
    PROVE  /\ Found \in pos .. Len(chunk) - 1 /\ chunk[Found] = "IAC"
           /\ \A i \in pos .. Found - 1 : chunk[i] # "IAC"
           /\ Found \in 1 .. Len(chunk) /\ Found + 1 \in pos .. Len(chunk) /\ Found \in Nat
           /\ Rest \in Seq(Bytes) /\ Len(Rest) = Len(chunk) - 1 /\ Rest = Erase(chunk, Found, Found)
           /\ \A i \in Found .. Len(chunk) - 1 : Rest[i] = chunk[i + 1]
           /\ \A i \in Found .. Len(chunk) : chunk[i] = All[Base + i].byte
           /\ Command = chunk[Found + 1]
           /\ \A g \in Found .. Len(chunk) - 1 : Erase(Rest, Found, g) = Erase(chunk, Found, g + 1)
<1> DEFINE F == Found
           r == Rest
           n == Len(chunk)
<1>1. chunk \in Seq(Bytes) /\ pos \in 1 .. n + 1 /\ n \in Nat /\ pos \in Nat
  BY ScanNumbers
<1>2. F \in pos .. n - 1 /\ chunk[F] = "IAC" /\ \A i \in pos .. F - 1 : chunk[i] # "IAC"
  <2>1. /\ F \in pos .. n + 1 /\ (F # n + 1 => chunk[F] = "IAC")
        /\ \A i \in pos .. F - 1 : chunk[i] # "IAC"
    BY <1>1, FoundIAC DEF Found
  <2>2. F < n
    BY DEF Scanning
  <2> HIDE DEF F
  <2>3. QED
    BY <1>1, <2>1, <2>2
<1> HIDE DEF F
<1>3. /\ F \in 1 .. n - 1 /\ F \in 1 .. n /\ F + 1 \in pos .. n /\ n - 1 \in Nat
      /\ F \in Nat
  BY <1>1, <1>2
<1>4. /\ r \in Seq(Bytes) /\ Len(r) = n - 1 /\ r = Erase(chunk, F, F)
      /\ \A i \in F .. n - 1 : r[i] = chunk[i + 1]
  <2>1. F \in F .. n /\ F - F + 1 = 1
    BY <1>3
  <2>2. r = Erase(chunk, F, F)
    BY DEF Rest, F
  <2>3. /\ Erase(chunk, F, F) \in Seq(Bytes) /\ Len(Erase(chunk, F, F)) = n - (F - F + 1)
        /\ \A i \in F .. n - (F - F + 1) : Erase(chunk, F, F)[i] = chunk[i + (F - F + 1)]
    BY <1>1, <1>3, <2>1, Erased
  <2> HIDE DEF r
  <2>4. QED
    BY <2>1, <2>2, <2>3
<1>5. \A i \in F .. n : chunk[i] = All[Base + i].byte
  BY <1>1, <1>2 DEF ChunkInv
<1>6. Command = chunk[F + 1]
  BY DEF Command, F
<1>7. \A g \in F .. n - 1 : Erase(r, F, g) = Erase(chunk, F, g + 1)
  BY <1>1, <1>3, <1>4, ErasedTwice
<1>8. QED
  BY <1>2, <1>3, <1>4, <1>5, <1>6, <1>7 DEF F

LEMMA EraseStep ==
    ASSUME ScanType, WireInv, ChunkInv, ScanAction
    PROVE  \E f, g : Erases(f, g) /\ GoesOn(f, g)
<1> DEFINE F == Found
           r == Rest
           n == Len(chunk)
<1>1. Scanning /\ UNCHANGED <<streamVars, rpc, bufferVars, taken>>
  BY DEF ScanAction, Escaped, HandleTelopt, HandleSubNeg, OtherCommand
<1>2. n \in Nat
  BY ScanNumbers
<1>3. /\ F \in pos .. n - 1 /\ F \in 1 .. n /\ F \in Nat
      /\ r \in Seq(Bytes) /\ Len(r) = n - 1 /\ r = Erase(chunk, F, F)
      /\ \A i \in F .. n - 1 : r[i] = chunk[i + 1]
      /\ Command = chunk[F + 1]
      /\ \A g \in F .. n - 1 : Erase(r, F, g) = Erase(chunk, F, g + 1)
  BY <1>1, ScanPlace
<1> HIDE DEF F, r
<1>4. F <= n - 1 /\ F >= 1 /\ F \in F .. n /\ F + 1 \in F .. n
  BY <1>2, <1>3
<1>5. CASE Escaped
  <2>1. Command = "IAC" /\ chunk' = Erase(r, F, F) /\ pos' = F /\ events' = events
    BY <1>5 DEF Escaped, F, r
  <2>2. F \in F .. n - 1
    BY <1>2, <1>3
  <2>3. chunk' = Erase(chunk, F, F + 1)
    BY <1>3, <2>1, <2>2
  <2>4. Erases(F, F + 1) /\ GoesOn(F, F + 1)
    BY <1>1, <1>3, <1>4, <2>1, <2>3 DEF Erases, GoesOn, F
  <2>5. QED
    BY <2>4
<1>6. CASE OtherCommand
  <2>1. Command # "IAC" /\ chunk' = r /\ pos' = F /\ events' = events
    BY <1>6 DEF OtherCommand, F, r
  <2>2. Erases(F, F) /\ GoesOn(F, F)
    BY <1>1, <1>3, <1>4, <2>1 DEF Erases, GoesOn, F
  <2>3. QED
    BY <2>2
<1>7. CASE HandleTelopt
  <2>1. CASE F = Len(r)
    <3>1. chunk' = r /\ pos' = Len(r) + 1 /\ events' = events
      BY <1>7, <2>1 DEF HandleTelopt, F, r
    <3>2. Erases(F, F) /\ GoesOn(F, F)
      BY <1>1, <1>3, <1>4, <3>1 DEF Erases, GoesOn, F
    <3>3. QED
      BY <3>2
  <2>2. CASE F # Len(r)
    <3>1. events' = Append(events, "option") /\ chunk' = Erase(r, F, F + 1) /\ pos' = F /\ Command \in Options
      BY <1>7, <2>2 DEF HandleTelopt, F, r
    <3>2. F + 1 \in F .. n - 1 /\ F + 2 \in F .. n /\ (F + 1) + 1 = F + 2
      BY <1>2, <1>3, <2>2
    <3>3. chunk' = Erase(chunk, F, F + 2)
      BY <1>3, <3>1, <3>2
    <3>4. Erases(F, F + 2) /\ GoesOn(F, F + 2)
      BY <1>1, <1>3, <3>1, <3>2, <3>3 DEF Erases, GoesOn, F, Kinds
    <3>5. QED
      BY <3>4
  <2>3. QED
    BY <2>1, <2>2
<1>8. CASE HandleSubNeg
  <2>1. Command # "IAC" /\ pos' = F
    BY <1>8 DEF HandleSubNeg, SubNegs, F
  <2>2. CASE ~EndsSubNeg(r, F)
    <3>1. chunk' = r /\ events' = events
      BY <1>8, <2>2 DEF HandleSubNeg, F, r
    <3>2. Erases(F, F) /\ GoesOn(F, F)
      BY <1>1, <1>3, <1>4, <2>1, <3>1 DEF Erases, GoesOn, F
    <3>3. QED
      BY <3>2
  <2>3. CASE EndsSubNeg(r, F)
    <3> DEFINE end == FindIAC(r, F + 1)
    <3>1. /\ events' = Append(events, IF end > F + 2 THEN "subneg" ELSE "emptysubneg")
          /\ chunk' = Erase(r, F, end + 1)
      BY <1>8, <2>3 DEF HandleSubNeg, F, r
    <3>2. end < Len(r) /\ r[end + 1] = "SE"
      BY <2>3 DEF EndsSubNeg
    <3>3. F + 1 \in 1 .. Len(r) + 1
      BY <1>2, <1>3
    <3>4. end \in F + 1 .. Len(r) + 1
      BY <1>3, <3>3, FoundIAC
    <3> HIDE DEF end
    <3>5. end \in Nat /\ end + 1 \in F .. n - 1 /\ end + 2 \in F .. n /\ (end + 1) + 1 = end + 2
      BY <1>2, <1>3, <3>2, <3>4
    <3>6. chunk' = Erase(chunk, F, end + 2) /\ chunk[end + 2] = "SE"
      BY <1>3, <3>1, <3>2, <3>5
    <3>7. \E x \in Kinds : events' = Append(events, x)
      BY <3>1 DEF Kinds
    <3>8. Erases(F, end + 2) /\ GoesOn(F, end + 2)
      BY <1>1, <1>3, <2>1, <3>5, <3>6, <3>7 DEF Erases, GoesOn, F
    <3>9. QED
      BY <3>8
  <2>4. QED
    BY <2>2, <2>3
<1>9. QED
  BY <1>5, <1>6, <1>7, <1>8 DEF ScanAction

\* The IAC that is found is not the second of a pair.
LEMMA FoundIsAligned ==
    ASSUME ScanType, WireInv, ChunkInv, AlignInv, Scanning, ~cut
    PROVE  ~Pair(Base + Found - 1)
<1> DEFINE F == Found
<1>1. F \in pos .. Len(chunk) - 1 /\ \A i \in pos .. F - 1 : chunk[i] # "IAC"
  BY ScanPlace
<1>2. /\ Len(chunk) \in Nat /\ pos \in Nat /\ Base \in Nat
  BY ScanNumbers
<1> HIDE DEF F
<1>3. CASE F = pos
  BY <1>3 DEF AlignInv, F
<1>4. CASE F # pos
  <2>1. F - 1 \in pos .. F - 1 /\ F - 1 \in pos .. Len(chunk) /\ Base + (F - 1) = Base + F - 1
    BY <1>1, <1>2, <1>4
  <2>2. chunk[F - 1] # "IAC" /\ chunk[F - 1] = All[Base + (F - 1)].byte
    BY <1>1, <2>1 DEF ChunkInv
  <2>3. ~PairAt(All, Base + F - 1)
    BY <2>1, <2>2 DEF PairAt
  <2>4. QED
    BY <2>3 DEF Pair, F
<1>5. QED
  BY <1>3, <1>4

\* So what is taken for a command is one.
LEMMA CommandIsOne ==
    ASSUME ScanType, WireInv, ChunkInv, AlignInv, Scanning, cut => \A i \in 1 .. Len(items) : items[i] \notin LooksLikeCommand
    PROVE  Command \notin {"aOPT", "aSB", "xOPT"}
<1> DEFINE q == Base + Found
           e == Ends(items)
<1>1. /\ Found \in 1 .. Len(chunk) /\ Found + 1 \in pos .. Len(chunk) /\ Found \in Nat
      /\ chunk[Found] = "IAC" /\ Command = chunk[Found + 1]
      /\ \A i \in Found .. Len(chunk) : chunk[i] = All[Base + i].byte
  BY ScanPlace
<1>2. /\ Len(chunk) \in Nat /\ Base \in Nat /\ Base + Len(chunk) = Read /\ Read <= Len(All) /\ Len(All) \in Nat
      /\ items \in Seq(Items) /\ Shape(items, All, e)
  BY ScanNumbers
<1>3. /\ q \in 1 .. Len(All) /\ q + 1 \in 1 .. Len(All) /\ q + 1 <= Len(All) /\ q - 1 = Base + Found - 1
      /\ q + 1 = Base + (Found + 1) /\ Found \in Found .. Len(chunk) /\ Found + 1 \in Found .. Len(chunk)
  <2>1. /\ Found \in Nat /\ Found >= 1 /\ Found + 1 <= Len(chunk)
        /\ Len(chunk) \in Nat /\ Base \in Nat /\ Base + Len(chunk) = Read /\ Read <= Len(All) /\ Len(All) \in Nat
    BY <1>1, <1>2
  <2>2. QED
    BY ONLY <2>1
<1>4. All[q].byte = "IAC" /\ All[q + 1].byte = Command
  BY <1>1, <1>3
<1> HIDE DEF q, e
<1>5. SUFFICES ASSUME Command \in {"aOPT", "aSB", "xOPT"} PROVE FALSE
  OBVIOUS
<1>6. CASE cut
  <2>1. PICK i, j : Owns(items, All, e, q + 1, i, j)
    BY <1>2, <1>3, Owner
  <2>2. /\ i \in 1 .. Len(items) /\ j \in 1 .. Len(Encode(items[i]))
        /\ Encode(items[i])[j] \in {"aOPT", "aSB", "xOPT"} /\ items[i] \in Items
    BY <1>2, <1>4, <1>5, <2>1 DEF Owns
  <2>3. items[i] \in LooksLikeCommand
    BY <2>2, PlaceInItem DEF LooksLikeCommand
  <2>4. QED
    BY <1>6, <2>2, <2>3
<1>7. CASE ~cut
  <2>1. q - 1 \in 1 .. Len(All) /\ PairAt(All, q - 1)
    <3>1. All[q + 1].byte \in {"aOPT", "aSB", "xOPT"}
      BY <1>4, <1>5
    <3>2. QED
      BY <1>2, <1>3, <1>4, <3>1, LooksBehindPair
  <2>2. Pair(Base + Found - 1)
    BY <1>3, <2>1 DEF Pair
  <2>3. QED
    BY <1>7, <2>2, FoundIsAligned
<1>8. QED
  BY <1>6, <1>7 DEF AlignInv

LEMMA ScanStep ==
    ASSUME ScanType, WireInv, ChunkInv, AlignInv, Legible, ScanAction
    PROVE  \E f, g : Drops(f, g)
<1> DEFINE F == Found
           r == Rest
           n == Len(chunk)
           e == Ends(items)
<1>1. /\ items \in Seq(Items) /\ chunk \in Seq(Bytes) /\ pos \in 1 .. n + 1 /\ n \in Nat
      /\ Read \in Nat /\ Base \in Nat /\ Base + n = Read /\ Read <= Len(All) /\ Len(All) \in Nat
      /\ Shape(items, All, e)
  BY ScanNumbers
<1>2. Scanning /\ UNCHANGED <<streamVars, rpc, bufferVars, taken>>
  BY DEF ScanAction, Escaped, HandleTelopt, HandleSubNeg, OtherCommand
<1>3. F \in pos .. n - 1 /\ chunk[F] = "IAC"
  BY <1>2, ScanPlace
<1>5. /\ r \in Seq(Bytes) /\ Len(r) = n - 1 /\ r = Erase(chunk, F, F)
      /\ \A i \in F .. n - 1 : r[i] = chunk[i + 1]
  BY <1>2, ScanPlace
<1>6. \A i \in F .. n : chunk[i] = All[Base + i].byte
  BY <1>2, ScanPlace
<1>7. Command = chunk[F + 1] /\ Command \notin {"aOPT", "aSB", "xOPT"}
  BY <1>2, ScanPlace, CommandIsOne DEF Legible
<1>8. \A g \in F .. n - 1 : Erase(r, F, g) = Erase(chunk, F, g + 1)
  BY <1>2, ScanPlace
<1> HIDE DEF F, r
<1>4. /\ F \in 1 .. n - 1 /\ F \in 1 .. n /\ F + 1 \in pos .. n /\ n - 1 \in Nat
      /\ F \in Nat
  BY <1>1, <1>3

\* The command at its place in the stream.
<1> DEFINE p == Base + F + 1
<1>9. p \in 1 .. Len(All) /\ All[p].byte = chunk[F + 1] /\ p \in Nat /\ p = Base + (F + 1)
  <2>1. p = Base + (F + 1) /\ p \in 1 .. Len(All) /\ p \in Nat
    BY <1>1, <1>4
  <2>2. chunk[F + 1] = All[Base + (F + 1)].byte
    BY <1>1, <1>4, <1>6
  <2> HIDE DEF p
  <2>3. QED
    BY <2>1, <2>2
<1> HIDE DEF p
<1>10. CASE Escaped
  <2>1. Command = "IAC" /\ chunk' = Erase(r, F, F) /\ pos' = F /\ events' = events
    BY <1>10 DEF Escaped, F, r
  <2>2. chunk' = Erase(chunk, F, F + 1) /\ F + 1 \in F .. n
    BY <1>4, <1>8, <2>1
  <2>3. \A i \in F .. F + 1 : chunk[i] \notin Text
    <3>1. \A i \in F .. F + 1 : i = F \/ i = F + 1
      BY <1>4
    <3>2. QED
      BY <1>3, <1>7, <2>1, <3>1, NotText, Zenon
  <2>4. chunk[F + 1] \notin {"OPT", "SB"}
    BY <1>7, <2>1
  <2>5. Drops(F, F + 1)
    BY <1>2, <1>3, <2>1, <2>2, <2>3, <2>4 DEF Drops, F
  <2>6. QED
    BY <2>5
<1>11. CASE OtherCommand
  <2>1. Command \notin {"IAC", "OPT", "SB"} /\ chunk' = r /\ pos' = F /\ events' = events
    BY <1>11 DEF OtherCommand, F, r, Options, SubNegs
  <2>2. chunk' = Erase(chunk, F, F) /\ F \in F .. n
    BY <1>4, <1>5, <2>1
  <2>3. \A i \in F .. F : chunk[i] \notin Text
    BY <1>3, <1>4, NotText
  <2>4. chunk[F + 1] \notin {"OPT", "SB"}
    BY <1>7, <2>1
  <2>5. Drops(F, F)
    BY <1>2, <1>3, <2>1, <2>2, <2>3, <2>4 DEF Drops, F
  <2>6. QED
    BY <2>5
<1>12. CASE HandleTelopt
  <2>1. Command = "OPT"
    BY <1>7, <1>12 DEF HandleTelopt, Options
  <2>2. PICK i \in 1 .. Len(items) :
            items[i] = "option" /\ p = e[i - 1] + 2 /\ e[i] = p + 1 /\ All[p + 1].byte = "o"
    <3>1. items \in Seq(Items) /\ Shape(items, All, e) /\ p \in 1 .. Len(All) /\ All[p].byte = "OPT"
      BY <1>1, <1>7, <1>9, <2>1
    <3> HIDE DEF e
    <3>2. QED
      BY ONLY <3>1, OptionHere
  <2>3. e[i - 1] \in Nat /\ e[i] \in Nat
    BY <1>1, InItem
  <2> HIDE DEF e
  <2>4. e[i - 1] = Base + F - 1 /\ e[i] = Base + F + 2
    <3>1. /\ Base \in Nat /\ F \in Nat /\ p = Base + (F + 1) /\ p = e[i - 1] + 2 /\ e[i] = p + 1
          /\ e[i - 1] \in Nat
      BY <1>1, <1>4, <1>9, <2>2, <2>3
    <3>2. QED
      BY ONLY <3>1
  <2>5. CASE F = Len(r)
    <3>1. chunk' = r /\ pos' = Len(r) + 1 /\ events' = events
      BY <1>12, <2>5 DEF HandleTelopt, F, r
    <3>2. chunk' = Erase(chunk, F, F) /\ F \in F .. n /\ pos' = Len(chunk') + 1
      BY <1>4, <1>5, <3>1
    <3>3. \A k \in F .. F : chunk[k] \notin Text
      BY <1>3, <1>4, NotText
    <3>4. e[i] > Read
      <4>1. Base \in Nat /\ F \in Nat /\ n \in Nat /\ F = n - 1 /\ Base + n = Read /\ e[i] = Base + F + 2
        BY <1>1, <1>4, <1>5, <2>4, <2>5
      <4>2. QED
        BY ONLY <4>1
    <3>5. Drops(F, F)
      BY <1>2, <1>3, <2>4, <3>1, <3>2, <3>3, <3>4 DEF Drops, F, e
    <3>6. QED
      BY <3>5
  <2>6. CASE F # Len(r)
    <3>1. events' = Append(events, "option") /\ chunk' = Erase(r, F, F + 1) /\ pos' = F
      BY <1>12, <2>6 DEF HandleTelopt, F, r
    <3>2. F + 1 \in F .. n - 1 /\ F + 2 \in F .. n /\ (F + 1) + 1 = F + 2
      BY <1>4, <1>5, <2>6
    <3>3. chunk' = Erase(chunk, F, F + 2)
      BY <1>8, <3>1, <3>2
    <3>4. chunk[F + 2] = "o"
      <4>1. Base + (F + 2) = p + 1
        BY <1>1, <1>4, <1>9
      <4>2. QED
        BY <1>6, <2>2, <3>2, <4>1
    <3>5. \A k \in F .. F + 2 : chunk[k] \notin Text
      <4>1. \A k \in F .. F + 2 : k = F \/ k = F + 1 \/ k = F + 2
        BY <1>4
      <4>2. QED
        BY <1>3, <1>7, <2>1, <3>4, <4>1, NotText
    <3>6. Base + (F + 2) = e[i]
      BY <1>1, <1>4, <2>4
    <3>7. Drops(F, F + 2)
      BY <1>2, <1>3, <2>2, <2>4, <3>1, <3>2, <3>3, <3>5, <3>6 DEF Drops, F, e, Kinds
    <3>8. QED
      BY <3>7
  <2>7. QED
    BY <2>5, <2>6
<1>13. CASE HandleSubNeg
  <2>1. Command = "SB"
    BY <1>7, <1>13 DEF HandleSubNeg, SubNegs
  <2>2. PICK i \in 1 .. Len(items) :
            /\ items[i] \in {"subneg", "emptysubneg", "subneg255", "notypesubneg"}
            /\ p = e[i - 1] + 2 /\ SubNegAt(All, p, items[i])
            /\ items[i] = "subneg" => e[i] = p + 4
            /\ items[i] = "emptysubneg" => e[i] = p + 3
    <3>1. items \in Seq(Items) /\ Shape(items, All, e) /\ p \in 1 .. Len(All) /\ All[p].byte = "SB"
      BY <1>1, <1>7, <1>9, <2>1
    <3> HIDE DEF e
    <3>2. QED
      BY ONLY <3>1, SubNegHere
  <2>3. e[i - 1] \in Nat /\ e[i] \in Nat
    BY <1>1, InItem
  <2> HIDE DEF e
  \* The bytes behind SB, as far as they are in the chunk.
  <2>7. \A k \in 1 .. 4 : F + k <= n - 1 => r[F + k] = chunk[F + k + 1] /\ chunk[F + k + 1] = All[p + k].byte
    <3>1. SUFFICES ASSUME NEW k \in 1 .. 4, F + k <= n - 1
                   PROVE  r[F + k] = chunk[F + k + 1] /\ chunk[F + k + 1] = All[p + k].byte
      OBVIOUS
    <3>2. F + k \in F .. n - 1 /\ F + k + 1 \in F .. n /\ Base + (F + k + 1) = p + k
      BY <1>1, <1>4, <1>9, <3>1
    <3>3. QED
      BY <1>5, <1>6, <3>2
  <2>15. CASE items[i] = "subneg255"
    <3>1. All[p + 1].byte = "o" /\ All[p + 2].byte = "IAC" /\ All[p + 3].byte = "IAC"
      BY <2>2, <2>15 DEF SubNegAt
    <3>2. /\ F + 1 <= Len(r) => r[F + 1] = "o"
          /\ F + 2 <= Len(r) => r[F + 2] = "IAC"
          /\ F + 3 <= Len(r) => r[F + 3] = "IAC"
      <4>1. 1 \in 1 .. 4 /\ 2 \in 1 .. 4 /\ 3 \in 1 .. 4
        OBVIOUS
      <4>2. QED
        BY <1>5, <2>7, <3>1, <4>1
    <3>3. F \in 1 .. Len(r)
      BY <1>4, <1>5
    <3>4. ~EndsSubNeg(r, F)
      BY <1>5, <3>2, <3>3, SubNegGivesUp
    <3>5. chunk' = r /\ pos' = F /\ events' = events
      BY <1>13, <3>4 DEF HandleSubNeg, F, r
    <3>6. chunk' = Erase(chunk, F, F) /\ F \in F .. n
      BY <1>4, <1>5, <3>5
    <3>7. \A k \in F .. F : chunk[k] \notin Text
      BY <1>3, <1>4, NotText
    <3>8. e[i - 1] = Base + F - 1
      <4>1. Base \in Nat /\ F \in Nat /\ p = Base + (F + 1) /\ p = e[i - 1] + 2 /\ e[i - 1] \in Nat
        BY <1>1, <1>4, <1>9, <2>2, <2>3
      <4>2. QED
        BY ONLY <4>1
    <3>9. items[i] \notin Kinds
      BY <2>15 DEF Kinds
    <3>10. Drops(F, F)
      BY <1>2, <1>3, <3>5, <3>6, <3>7, <3>8, <3>9 DEF Drops, F, e
    <3>11. QED
      BY <3>10
  <2>16. SUFFICES ASSUME items[i] \in {"subneg", "emptysubneg"} PROVE \E f, g : Drops(f, g)
    BY <2>2, <2>15 DEF Legible
  <2> DEFINE m == IF items[i] = "subneg" THEN 3 ELSE 2
  <2>4. m \in {2, 3} /\ m \in Nat /\ (m = 3 <=> items[i] = "subneg") /\ (m = 2 <=> items[i] = "emptysubneg")
    BY <2>16
  <2>5. e[i] = p + m + 1
    BY <1>9, <2>2, <2>16
  <2> HIDE DEF m
  <2>6. e[i - 1] = Base + F - 1 /\ e[i] = Base + F + m + 2
    <3>1. /\ Base \in Nat /\ F \in Nat /\ p = Base + (F + 1) /\ p = e[i - 1] + 2 /\ e[i] = p + m + 1
          /\ e[i - 1] \in Nat /\ m \in Nat
      <4>1. e[i - 1] \in Nat /\ m \in Nat /\ Base \in Nat /\ F \in Nat
        BY <1>1, <1>4, <2>3, <2>4
      <4>2. p = Base + (F + 1) /\ p = e[i - 1] + 2 /\ e[i] = p + m + 1
        BY <1>9, <2>2, <2>5
      <4>3. QED
        BY <4>1, <4>2, Zenon
    <3>2. QED
      BY ONLY <3>1
  <2>8. /\ All[p + 1].byte = "o" /\ (m = 3 => All[p + 2].byte = "x")
        /\ All[p + m].byte = "IAC" /\ All[p + m + 1].byte = "SE"
    <3>0. SubNegAt(All, p, items[i])
      BY <2>2
    <3>1. CASE m = 3
      BY <1>9, <2>4, <3>0, <3>1 DEF SubNegAt
    <3>2. CASE m = 2
      BY <1>9, <2>4, <3>0, <3>2 DEF SubNegAt
    <3>3. QED
      BY <2>4, <3>1, <3>2
  <2>9. /\ F + 1 <= Len(r) => r[F + 1] = "o"
        /\ m = 3 /\ F + 2 <= Len(r) => r[F + 2] = "x"
        /\ F + m <= Len(r) => r[F + m] = "IAC"
        /\ F + m + 1 <= Len(r) => r[F + m + 1] = "SE"
    <3>1. /\ 1 \in 1 .. 4 /\ 2 \in 1 .. 4 /\ m \in 1 .. 4 /\ m + 1 \in 1 .. 4
          /\ F + m + 1 = F + (m + 1) /\ p + m + 1 = p + (m + 1)
      BY <1>4, <1>9, <2>4
    <3>2. QED
      BY <1>5, <2>7, <2>8, <3>1
  <2>10. F \in 1 .. Len(r)
    BY <1>4, <1>5
  <2>11. /\ F + m + 1 <= Len(r) => EndsSubNeg(r, F) /\ FindIAC(r, F + 1) = F + m
         /\ F + m + 1 > Len(r) => ~EndsSubNeg(r, F)
    BY <1>5, <2>4, <2>9, <2>10, SubNegScan
  <2>12. CASE F + m + 1 > Len(r)
    <3>1. chunk' = r /\ pos' = F /\ events' = events
      BY <1>13, <2>11, <2>12 DEF HandleSubNeg, F, r
    <3>2. chunk' = Erase(chunk, F, F) /\ F \in F .. n
      BY <1>4, <1>5, <3>1
    <3>3. \A k \in F .. F : chunk[k] \notin Text
      BY <1>3, <1>4, NotText
    <3>4. e[i] > Read
      <4>1. /\ Base \in Nat /\ F \in Nat /\ n \in Nat /\ m \in Nat /\ F + m + 1 > n - 1 /\ Base + n = Read
            /\ e[i] = Base + F + m + 2
        <5>1. Base \in Nat /\ F \in Nat /\ n \in Nat /\ m \in Nat /\ Base + n = Read /\ e[i] = Base + F + m + 2
          BY <1>1, <1>4, <2>4, <2>6, Zenon
        <5>2. F + m + 1 > n - 1
          BY <1>5, <2>12
        <5>3. QED
          BY <5>1, <5>2, Zenon
      <4>2. QED
        BY ONLY <4>1
    <3>5. Drops(F, F)
      BY <1>2, <1>3, <2>6, <3>1, <3>2, <3>3, <3>4 DEF Drops, F, e
    <3>6. QED
      BY <3>5
  <2>13. CASE F + m + 1 <= Len(r)
    <3> DEFINE end == FindIAC(r, F + 1)
    <3>1. /\ events' = Append(events, IF end > F + 2 THEN "subneg" ELSE "emptysubneg")
          /\ chunk' = Erase(r, F, end + 1) /\ pos' = F
      BY <1>13, <2>11, <2>13 DEF HandleSubNeg, F, r
    <3>2. end = F + m
      BY <2>11, <2>13
    <3> HIDE DEF end
    <3>3. (IF end > F + 2 THEN "subneg" ELSE "emptysubneg") = items[i]
      BY <1>4, <2>4, <2>16, <3>2
    <3>4. F + m + 1 \in F .. n - 1 /\ F + m + 2 \in F .. n /\ (F + m + 1) + 1 = F + m + 2
      BY <1>4, <1>5, <2>4, <2>13, SMTT(30)
    <3>5. chunk' = Erase(chunk, F, F + m + 2)
      BY <1>8, <3>1, <3>2, <3>4
    <3>6. ASSUME NEW k \in F .. F + m + 2 PROVE chunk[k] \notin Text
      <4>1. CASE k = F \/ k = F + 1
        BY <1>3, <1>7, <2>1, <4>1, NotText
      <4>2. CASE k > F + 1
        <5> DEFINE d == k - (F + 1)
        <5>1. d \in 1 .. 4 /\ d \in 1 .. m + 1 /\ k = F + d + 1 /\ F + d <= n - 1
          BY <1>4, <2>4, <3>4, <4>2
        <5>2. d = 1 \/ (m = 3 /\ d = 2) \/ d = m \/ d = m + 1
          BY <2>4, <5>1
        <5>3. p + m + 1 = p + (m + 1)
          BY <1>9, <2>4
        <5> HIDE DEF d
        <5>4. chunk[k] = All[p + d].byte
          BY <2>7, <5>1
        <5>5. All[p + d].byte \notin Text
          BY <2>8, <5>2, <5>3, NotText
        <5>6. QED
          BY <5>4, <5>5
      <4>3. QED
        BY <1>4, <2>4, <4>1, <4>2
    <3>7. Base + (F + m + 2) = e[i]
      BY <1>1, <1>4, <2>4, <2>6
    <3>8. items[i] \in Kinds
      BY <2>16 DEF Kinds
    <3>9. events' = Append(events, items[i])
      BY <3>1, <3>3
    <3>10. Drops(F, F + m + 2)
      BY <1>2, <1>3, <2>6, <3>1, <3>4, <3>5, <3>6, <3>7, <3>8, <3>9 DEF Drops, F, e
    <3>11. QED
      BY <3>10
  <2>14. QED
    BY <1>4, <1>5, <2>4, <2>12, <2>13
<1>14. QED
  BY <1>10, <1>11, <1>12, <1>13 DEF ScanAction

\* recv() returns the next bytes of the stream.
LEMMA RecvStep ==
    ASSUME ScanType, WireInv, NEW n \in Nat \ {0}, Recv(n)
    PROVE  /\ chunk = <<>> /\ chunk' \in Seq(Bytes) /\ Len(chunk') = n /\ pos' = 1
           /\ \A i \in 1 .. n : chunk'[i] = All[Read + i].byte
           /\ wire' \in Seq(Cell) /\ Len(wire') <= Len(All)
           /\ wire' = SubSeq(All, Read + n + 1, Len(All))
           /\ items' = items /\ events' = events /\ All' = All /\ Read' = Read + n /\ rpc' = "scan"
           /\ arrived' = arrived + Cardinality({i \in 1 .. n : All[Read + i].last})
           /\ split' = (split \/ ~All[Read + n].last)
           /\ cut' = (cut \/ Pair(Read + n))
           /\ Read + n <= Len(All)
<1> DEFINE got == SubSeq(wire, 1, n)
<1>1. /\ All \in Seq(Cell) /\ Len(All) \in Nat /\ Len(wire) \in Nat /\ Read \in Nat
      /\ Read <= Len(All) /\ Len(wire) = Len(All) - Read
  BY ReadIsNat
<1>2. /\ n <= Len(wire) /\ chunk' = BytesOf(got) /\ wire' = SubSeq(wire, n + 1, Len(wire))
      /\ arrived' = arrived + Cardinality({i \in DOMAIN got : got[i].last})
      /\ split' = (split \/ ~got[n].last) /\ cut' = (cut \/ PairAt(wire, n))
      /\ items' = items /\ events' = events /\ pos' = 1 /\ rpc = "idle" /\ rpc' = "scan"
  BY DEF Recv, BytesOf
<1>3. wire \in Seq(Cell) /\ \A i \in 1 .. Len(wire) : wire[i] = All[Read + i]
  <2>1. Read \in 0 .. Len(All)
    BY <1>1
  <2>2. wire = SubSeq(All, Read + 1, Len(All))
    BY DEF WireInv
  <2>3. QED
    BY <1>1, <2>1, <2>2, BackPart
<1>4. got \in Seq(Cell) /\ Len(got) = n /\ \A i \in 1 .. n : got[i] = wire[i]
  <2>1. n \in 0 .. Len(wire)
    BY <1>1, <1>2
  <2>2. QED
    BY <1>3, <2>1, FrontPart
<1> HIDE DEF got
<1>5. \A i \in 1 .. n : got[i] = All[Read + i]
  <2>1. \A i \in 1 .. n : i \in 1 .. Len(wire)
    BY <1>1, <1>2
  <2>2. QED
    BY <1>3, <1>4, <2>1, Zenon
<1>6. chunk' \in Seq(Bytes) /\ Len(chunk') = n /\ \A i \in 1 .. n : chunk'[i] = All[Read + i].byte
  <2>1. /\ BytesOf(got) \in Seq(Bytes) /\ Len(BytesOf(got)) = Len(got)
        /\ \A i \in 1 .. Len(got) : BytesOf(got)[i] = got[i].byte
    BY <1>4, BytesOfType
  <2>2. QED
    BY <1>2, <1>4, <1>5, <2>1
<1>7. wire' \in Seq(Cell) /\ Len(wire') = Len(wire) - n
  <2>1. n \in 0 .. Len(wire)
    BY <1>1, <1>2
  <2>2. QED
    BY <1>2, <1>3, <2>1, BackPart
<1>8. wire' = SubSeq(All, Read + n + 1, Len(All))
  <2> DEFINE w == SubSeq(wire, n + 1, Len(wire))
             k == Read + n
             v == SubSeq(All, k + 1, Len(All))
  <2>1. w \in Seq(Cell) /\ Len(w) = Len(wire) - n /\ \A i \in 1 .. Len(wire) - n : w[i] = wire[n + i]
    <3>1. n \in 0 .. Len(wire)
      BY <1>1, <1>2
    <3>2. QED
      BY <1>3, <3>1, BackPart
  <2>2. k \in 0 .. Len(All) /\ Len(All) - k = Len(wire) - n
    BY <1>1, <1>2
  <2> HIDE DEF w, k
  <2>3. v \in Seq(Cell) /\ Len(v) = Len(All) - k /\ \A i \in 1 .. Len(All) - k : v[i] = All[k + i]
    BY <1>1, <2>2, BackPart
  <2> HIDE DEF v
  <2>4. ASSUME NEW i \in 1 .. Len(wire) - n PROVE w[i] = v[i]
    <3>1. n + i \in 1 .. Len(wire) /\ Read + (n + i) = k + i
      BY <1>1, <1>2 DEF k
    <3>2. w[i] = wire[n + i] /\ wire[n + i] = All[Read + (n + i)] /\ v[i] = All[k + i]
      BY <1>3, <2>1, <2>2, <2>3, <3>1
    <3>3. QED
      BY <3>1, <3>2
  <2>5. w = v
    BY <2>1, <2>2, <2>3, <2>4, SeqEqual
  <2>6. QED
    BY <1>2, <2>5 DEF w, v, k
<1>9. All' = All /\ Read' = Read + n
  <2>1. All' = All
    BY <1>2 DEF All
  <2>2. Read' = Len(All) - Len(wire')
    BY <2>1 DEF Read
  <2>3. QED
    BY <1>1, <1>2, <1>7, <2>1, <2>2
<1>10. chunk = <<>>
  BY <1>2 DEF ScanType
<1>11. {i \in DOMAIN got : got[i].last} = {i \in 1 .. n : All[Read + i].last}
  BY <1>4, <1>5
<1>12. got[n].last = All[Read + n].last
  <2>1. n \in 1 .. n
    OBVIOUS
  <2>2. QED
    BY <1>5, <2>1
<1>13. arrived' = arrived + Cardinality({i \in 1 .. n : All[Read + i].last})
  BY <1>2, <1>11, Zenon
<1>14. split' = (split \/ ~All[Read + n].last)
  BY <1>2, <1>12, Zenon
<1>15. Len(wire') <= Len(All) /\ Read + n <= Len(All)
  BY <1>1, <1>2, <1>7
<1>16. PairAt(wire, n) <=> Pair(Read + n)
  <2>1. Read + n \in 1 .. Len(All) /\ (n < Len(wire) <=> Read + n < Len(All)) /\ n \in 1 .. Len(wire)
    BY <1>1, <1>2
  <2>2. wire[n] = All[Read + n]
    BY <1>3, <2>1
  <2>3. n < Len(wire) => wire[n + 1] = All[(Read + n) + 1]
    <3>1. SUFFICES ASSUME n < Len(wire) PROVE wire[n + 1] = All[(Read + n) + 1]
      OBVIOUS
    <3>2. n + 1 \in 1 .. Len(wire) /\ Read + (n + 1) = (Read + n) + 1
      BY <1>1, <3>1
    <3>3. QED
      BY <1>3, <3>2
  <2>4. QED
    BY <2>1, <2>2, <2>3 DEF PairAt, Pair
<1>17. cut' = (cut \/ Pair(Read + n))
  BY <1>2, <1>16
<1>18. QED
  BY <1>2, <1>6, <1>7, <1>8, <1>9, <1>10, <1>13, <1>14, <1>15, <1>17

ScanInv == ScanType /\ WireInv /\ ChunkInv

LEMMA RecvKeepsScan ==
    ASSUME ScanInv, NEW n \in Nat \ {0}, Recv(n)
    PROVE  ScanInv'
<1> USE DEF ScanInv
<1>1. /\ chunk' \in Seq(Bytes) /\ Len(chunk') = n /\ pos' = 1
      /\ \A i \in 1 .. n : chunk'[i] = All[Read + i].byte
      /\ wire' \in Seq(Cell) /\ Len(wire') <= Len(All)
      /\ wire' = SubSeq(All, Read + n + 1, Len(All))
      /\ items' = items /\ events' = events /\ All' = All /\ Read' = Read + n /\ rpc' = "scan"
  BY RecvStep
<1>2. Read \in Nat
  BY ReadIsNat
<1>3. ScanType'
  BY <1>1 DEF ScanType
<1>4. WireInv'
  BY <1>1 DEF WireInv
<1>5. Base' = Read
  BY <1>1, <1>2 DEF Base
<1>6. ChunkInv'
  BY <1>1, <1>2, <1>5 DEF ChunkInv
<1>7. QED
  BY <1>3, <1>4, <1>6

LEMMA ErasesKeepsScan ==
    ASSUME ScanInv, NEW f, NEW g, Erases(f, g), rpc = "scan"
    PROVE  /\ ScanInv' /\ All' = All /\ Read' = Read /\ Len(chunk') = Len(chunk) - (g - f + 1)
           /\ Base' = Base + (g - f + 1)
           /\ \A i \in 1 .. f - 1 : chunk'[i] = chunk[i]
<1> USE DEF ScanInv
<1> DEFINE n == g - f + 1
           c == chunk
           d == chunk'
<1>1. /\ f \in pos .. Len(c) - 1 /\ g \in f .. Len(c) /\ d = Erase(c, f, g)
      /\ pos' = f \/ pos' = Len(d) + 1
      /\ wire' = wire /\ items' = items /\ rpc' = rpc
  BY DEF Erases, streamVars
<1>2. c \in Seq(Bytes) /\ Len(c) \in Nat /\ pos \in 1 .. Len(c) + 1 /\ items \in Seq(Items)
  BY DEF ScanType
<1>3. f \in 1 .. Len(c) /\ f \in Nat /\ g \in Nat /\ n \in Nat /\ n >= 1 /\ n <= Len(c) /\ f <= Len(c) - n + 1
  BY <1>1, <1>2
<1>4. /\ d \in Seq(Bytes) /\ Len(d) = Len(c) - n
      /\ \A i \in 1 .. f - 1 : d[i] = c[i]
      /\ \A i \in f .. Len(c) - n : d[i] = c[i + n]
  <2>1. /\ Erase(c, f, g) \in Seq(Bytes) /\ Len(Erase(c, f, g)) = Len(c) - n
        /\ \A i \in 1 .. f - 1 : Erase(c, f, g)[i] = c[i]
        /\ \A i \in f .. Len(c) - n : Erase(c, f, g)[i] = c[i + n]
    BY <1>1, <1>2, <1>3, Erased
  <2>2. QED
    BY <1>1, <2>1
<1>5. All' = All /\ Read' = Read
  BY <1>1 DEF All, Read
<1>6. Read \in Nat /\ Base \in Nat /\ Base = Read - Len(c)
  <2>1. Read \in Nat
    BY ReadIsNat
  <2>2. QED
    BY <1>2, <2>1 DEF ChunkInv, Base
<1>7. Base' = Base + n
  <2>1. Base' = Read - Len(d)
    BY <1>5 DEF Base
  <2> HIDE DEF n, c, d
  <2>2. QED
    BY <1>2, <1>3, <1>4, <1>6, <2>1
<1>8. pos' \in f .. Len(d) + 1 /\ pos' \in 1 .. Len(d) + 1
  <2> HIDE DEF n, c, d
  <2>1. QED
    BY <1>1, <1>2, <1>3, <1>4
<1>9. events' \in Seq(Kinds)
  <2>1. events \in Seq(Kinds)
    BY DEF ScanType
  <2>2. events' = events \/ \E x \in Kinds : events' = Append(events, x)
    BY DEF Erases
  <2>3. QED
    BY <2>1, <2>2
<1>10. ScanType'
  BY <1>1, <1>2, <1>4, <1>8, <1>9 DEF ScanType
<1>11. WireInv'
  BY <1>1, <1>5 DEF WireInv
<1>12. ChunkInv'
  <2>1. ASSUME NEW i \in pos' .. Len(d) PROVE d[i] = All[Base + n + i].byte
    <3> HIDE DEF n, c, d
    <3>1. i \in f .. Len(c) - n /\ i + n \in pos .. Len(c) /\ Base + (i + n) = Base + n + i
      BY <1>1, <1>2, <1>3, <1>4, <1>6, <1>8, SMTT(30)
    <3>2. d[i] = c[i + n]
      BY <1>4, <3>1
    <3>3. c[i + n] = All[Base + (i + n)].byte
      BY <3>1 DEF ChunkInv, c
    <3>4. QED
      BY <3>1, <3>2, <3>3
  <2>2. Base' >= 0
    BY <1>3, <1>6, <1>7
  <2>3. QED
    BY <1>5, <1>7, <2>1, <2>2 DEF ChunkInv
<1>13. QED
  BY <1>4, <1>5, <1>7, <1>10, <1>11, <1>12

LEMMA DropsKeepsScan ==
    ASSUME ScanInv, NEW f, NEW g, Drops(f, g), rpc = "scan"
    PROVE  /\ ScanInv' /\ All' = All /\ Read' = Read /\ Len(chunk') = Len(chunk) - (g - f + 1)
           /\ \A i \in 1 .. f - 1 : chunk'[i] = chunk[i]
BY DropsErases, ErasesKeepsScan

\* The chunk is done with: it went to inBuffer_, or it was lost.
Clears == /\ chunk' = <<>> /\ pos' = 1 /\ rpc' \in {"idle", "notify"}
          /\ UNCHANGED <<streamVars, events>>

LEMMA AppendClears == AppendChunk \/ HandleSubNegInverted => Clears
BY DEF AppendChunk, HandleSubNegInverted, Clears

LEMMA ClearsKeepsScan ==
    ASSUME ScanInv, Clears
    PROVE  ScanInv' /\ All' = All /\ Read' = Read /\ Base' = Read
<1> USE DEF ScanInv
<1>1. /\ chunk' = <<>> /\ pos' = 1 /\ rpc' \in {"idle", "notify"} /\ wire' = wire /\ items' = items
      /\ events' = events
  BY DEF Clears, streamVars
<1>2. All' = All /\ Read' = Read
  BY <1>1 DEF All, Read
<1>3. ScanType'
  BY <1>1 DEF ScanType
<1>4. WireInv'
  BY <1>1, <1>2 DEF WireInv
<1>5. Base' = Read /\ Read \in Nat
  <2>1. Read \in Nat
    BY ReadIsNat
  <2>2. Base' = Read - Len(chunk') /\ Len(chunk') = 0
    BY <1>1, <1>2 DEF Base
  <2>3. QED
    BY <2>1, <2>2
<1>6. ChunkInv'
  <2>1. Base' >= 0 /\ Len(chunk') = 0
    BY <1>1, <1>5
  <2>2. QED
    BY <1>1, <2>1 DEF ChunkInv
<1>7. QED
  BY <1>1, <1>2, <1>3, <1>4, <1>5, <1>6

LEMMA AppendKeepsScan ==
    ASSUME ScanInv, AppendChunk
    PROVE  ScanInv' /\ All' = All /\ Read' = Read /\ chunk' = <<>>
BY AppendClears, ClearsKeepsScan DEF Clears

\* The steps of the listeners and of the program that reads lines.
Outside == /\ UNCHANGED <<streamVars, scanVars, delivered>>
           /\ rpc' = rpc \/ (rpc = "notify" /\ rpc' = "idle")

LEMMA OutsideKeepsScan ==
    ASSUME ScanInv, Outside
    PROVE  ScanInv' /\ All' = All /\ Read' = Read
<1> USE DEF ScanInv
<1>1. /\ chunk' = chunk /\ pos' = pos /\ wire' = wire /\ items' = items /\ events' = events
      /\ rpc' = rpc \/ (rpc = "notify" /\ rpc' = "idle")
  BY DEF Outside, streamVars, scanVars
<1>2. All' = All /\ Read' = Read /\ Base' = Base
  BY <1>1 DEF All, Read, Base
<1>3. ScanType'
  BY <1>1 DEF ScanType
<1>4. WireInv' /\ ChunkInv'
  BY <1>1, <1>2 DEF WireInv, ChunkInv
<1>5. QED
  BY <1>2, <1>3, <1>4

\* The kinds of steps the receiving side takes.
LEMMA StepKinds ==
    ASSUME ScanInv, [Next]_vars
    PROVE  \/ \E n \in Nat \ {0} : Recv(n)
           \/ rpc = "scan" /\ ScanAction
           \/ AppendChunk
           \/ HandleSubNegInverted
           \/ Outside
<1> USE DEF ScanInv
<1>1. CASE \E n \in 1 .. MaxRecv : Recv(n)
  BY <1>1
<1>2. CASE ScanAction
  <2>1. rpc = "scan"
    BY <1>2 DEF ScanAction, Escaped, HandleTelopt, HandleSubNeg, OtherCommand, Scanning
  <2>2. QED
    BY <1>2, <2>1
<1>3. CASE Notify
  BY <1>3 DEF Notify, Outside, bufferVars
<1>4. CASE ReadReturns
  BY <1>4 DEF ReadReturns, Outside, bufferVars
<1>5. CASE Readln
  BY <1>5 DEF Readln, Outside
<1>6. CASE ChangeListeners
  BY <1>6 DEF ChangeListeners, Outside, bufferVars
<1>7. CASE UNCHANGED vars
  BY <1>7 DEF vars, Outside, bufferVars
<1>8. QED
  BY <1>1, <1>2, <1>3, <1>4, <1>5, <1>6, <1>7 DEF Next, OnRecv, ScanAction

LEMMA StepKeepsScan ==
    ASSUME ScanInv, [Next]_vars
    PROVE  ScanInv'
<1>1. CASE rpc = "scan" /\ ScanAction
  <2>1. PICK f, g : Erases(f, g)
    BY <1>1, EraseStep DEF ScanInv
  <2>2. QED
    BY <1>1, <2>1, ErasesKeepsScan
<1>2. QED
  BY <1>1, StepKinds, RecvKeepsScan, AppendClears, ClearsKeepsScan, OutsideKeepsScan

LEMMA EraseKeepsAligned ==
    ASSUME ScanInv, AlignInv, rpc = "scan", ScanAction
    PROVE  AlignInv'
<1> USE DEF ScanInv
<1>1. PICK f, g : Erases(f, g) /\ GoesOn(f, g)
  BY EraseStep
<1>2. /\ f = Found /\ f \in pos .. Len(chunk) - 1 /\ g \in f .. Len(chunk)
      /\ pos' \in {f, Len(chunk') + 1} /\ cut' = cut
  BY <1>1 DEF Erases, streamVars
<1>3. All' = All /\ Read' = Read /\ Base' = Base + (g - f + 1) /\ Len(chunk') = Len(chunk) - (g - f + 1)
  BY <1>1, ErasesKeepsScan
<1>4. SUFFICES ASSUME ~cut PROVE ~Pair(Base' + pos' - 1)
  BY <1>2, <1>3 DEF AlignInv, Pair
<1>5. Scanning
  BY DEF ScanAction, Escaped, HandleTelopt, HandleSubNeg, OtherCommand
<1>6. /\ Len(chunk) \in Nat /\ pos \in Nat /\ Base \in Nat /\ Base + Len(chunk) = Read
      /\ Read <= Len(All) /\ Len(All) \in Nat /\ items \in Seq(Items) /\ Shape(items, All, Ends(items))
      /\ pos >= 1
  BY ScanNumbers
<1>7. f \in Nat /\ f >= 1 /\ f + 1 <= Len(chunk) /\ g \in Nat /\ g >= f /\ g <= Len(chunk)
  BY <1>2, <1>6
<1>8. /\ chunk[f] = "IAC" /\ Command = chunk[f + 1]
      /\ \A i \in f .. Len(chunk) : chunk[i] = All[Base + i].byte
  BY <1>2, <1>5, ScanPlace
<1>9. CASE pos' = Len(chunk') + 1
  <2>1. Base' + pos' - 1 = Read
    BY <1>3, <1>6, <1>7, <1>9
  <2>2. QED
    BY <1>4, <2>1 DEF AlignInv
<1>10. CASE pos' = f /\ pos' # Len(chunk') + 1
  <2>1. Base' + pos' - 1 = Base + g
    BY <1>3, <1>6, <1>7, <1>10
  <2>2. SUFFICES ASSUME Pair(Base + g) PROVE FALSE
    BY <2>1
  <2>3. PairAt(All, Base + g) /\ Base + g \in 1 .. Len(All)
    BY <2>2 DEF Pair
  <2>4. chunk[g] = "IAC"
    <3>1. All[Base + g].byte = "IAC" /\ g \in f .. Len(chunk)
      BY <1>2, <2>3 DEF PairAt
    <3>2. QED
      BY <1>8, <3>1
  <2>5. CASE g = f /\ chunk[f + 1] # "IAC"
    <3>1. f + 1 \in f .. Len(chunk) /\ Base + (f + 1) = (Base + g) + 1
      BY <1>6, <1>7, <2>5
    <3>2. All[(Base + g) + 1].byte = "IAC"
      BY <2>3 DEF PairAt
    <3>3. QED
      BY <1>8, <2>5, <3>1, <3>2
  <2>6. CASE g = f + 1 /\ chunk[f + 1] = "IAC"
    <3> DEFINE q == Base + f
    <3>1. /\ q \in 1 .. Len(All) /\ q + 1 <= Len(All) /\ q + 1 = Base + g /\ q - 1 = Base + f - 1
          /\ f \in f .. Len(chunk)
      BY <1>6, <1>7, <2>6
    <3>2. All[q].byte = "IAC"
      BY <1>8, <3>1
    <3> HIDE DEF q
    <3>3. q - 1 \in 1 .. Len(All) /\ PairAt(All, q - 1)
      <4>1. PairAt(All, q + 1)
        BY <2>3, <3>1
      <4>2. QED
        BY <1>6, <3>1, <3>2, <4>1, IACBeforePair
    <3>4. Pair(Base + Found - 1)
      BY <1>2, <3>1, <3>3 DEF Pair
    <3>5. QED
      BY <1>4, <1>5, <3>4, FoundIsAligned
  <2>7. CASE g = f + 2 /\ chunk[f + 1] \in Options
    <3>1. Command = "OPT"
      BY <1>4, <1>5, <1>8, <2>7, CommandIsOne DEF Options
    <3> DEFINE p == Base + (f + 1)
    <3>2. p \in 1 .. Len(All) /\ p + 1 = Base + g /\ f + 1 \in f .. Len(chunk)
      BY <1>6, <1>7, <2>7
    <3>3. All[p].byte = "OPT"
      BY <1>8, <3>1, <3>2
    <3> HIDE DEF p
    <3>4. All[p + 1].byte = "o"
      BY <1>6, <3>2, <3>3, OptionHere
    <3>5. QED
      BY <2>3, <3>2, <3>4 DEF PairAt
  <2>8. CASE chunk[g] = "SE"
    BY <2>4, <2>8
  <2>9. QED
    BY <1>1, <1>10, <2>5, <2>6, <2>7, <2>8 DEF GoesOn
<1>11. QED
  BY <1>2, <1>9, <1>10

LEMMA StepKeepsAligned ==
    ASSUME ScanInv, AlignInv, [Next]_vars
    PROVE  AlignInv'
<1>1. ASSUME NEW n \in Nat \ {0}, Recv(n) PROVE AlignInv'
  <2>1. /\ chunk = <<>> /\ Len(chunk') = n /\ pos' = 1 /\ All' = All /\ Read' = Read + n
        /\ cut' = (cut \/ Pair(Read + n))
    BY <1>1, RecvStep DEF ScanInv
  <2>2. Read \in Nat
    BY ReadIsNat DEF ScanInv
  <2>3. Base' + pos' - 1 = Read
    BY <2>1, <2>2 DEF Base
  <2>4. cut' \in BOOLEAN /\ (~cut' => ~cut /\ ~Pair(Read + n))
    BY <2>1 DEF AlignInv
  <2>5. ~cut' => ~Pair(Read)' /\ ~Pair(Base + pos - 1)'
    BY <2>1, <2>3, <2>4 DEF AlignInv, Pair
  <2>6. QED
    BY <2>4, <2>5 DEF AlignInv
<1>2. CASE Clears
  <2>1. All' = All /\ Read' = Read /\ Base' = Read /\ pos' = 1 /\ cut' = cut
    BY <1>2, ClearsKeepsScan DEF Clears, streamVars
  <2>2. Base' + pos' - 1 = Read
    <3>1. Read \in Nat
      BY ReadIsNat DEF ScanInv
    <3>2. QED
      BY <2>1, <3>1
  <2>3. QED
    BY <2>1, <2>2 DEF AlignInv, Pair
<1>3. CASE Outside
  <2>1. All' = All /\ Read' = Read
    BY <1>3, OutsideKeepsScan
  <2>2. chunk' = chunk /\ pos' = pos /\ cut' = cut
    BY <1>3 DEF Outside, streamVars, scanVars
  <2>3. Base' = Base
    BY <2>1, <2>2 DEF Base
  <2>4. QED
    BY <2>1, <2>2, <2>3 DEF AlignInv, Pair
<1>4. QED
  BY <1>1, <1>2, <1>3, StepKinds, EraseKeepsAligned, AppendClears

\* In a stream that is legible, no chunk is lost.
LEMMA NoneLost ==
    ASSUME ScanInv, AlignInv, Legible
    PROVE  ~HandleSubNegInverted
<1> USE DEF ScanInv
<1> DEFINE F == Found
           r == Rest
<1>1. SUFFICES ASSUME HandleSubNegInverted PROVE FALSE
  OBVIOUS
<1>2. Scanning /\ Command \in SubNegs /\ EndsSubNeg(r, F) /\ FindIAC(r, F + 1) = F + 1
  BY <1>1 DEF HandleSubNegInverted, Inverted
<1>3. Command = "SB"
  BY <1>2, CommandIsOne DEF Legible, SubNegs
<1>4. /\ F \in 1 .. Len(chunk) /\ F \in Nat /\ F + 1 \in pos .. Len(chunk) /\ Command = chunk[F + 1]
      /\ r \in Seq(Bytes) /\ Len(r) = Len(chunk) - 1
      /\ \A i \in F .. Len(chunk) - 1 : r[i] = chunk[i + 1]
      /\ \A i \in F .. Len(chunk) : chunk[i] = All[Base + i].byte
  BY <1>2, ScanPlace
<1>5. /\ Len(chunk) \in Nat /\ Base \in Nat /\ Base + Len(chunk) = Read
      /\ Read <= Len(All) /\ Len(All) \in Nat /\ items \in Seq(Items) /\ Shape(items, All, Ends(items))
  BY ScanNumbers
<1>6. F < Len(r)
  BY <1>2 DEF EndsSubNeg
<1> HIDE DEF F, r
<1> DEFINE p == Base + (F + 1)
<1>7. /\ p \in 1 .. Len(All) /\ p + 1 = Base + (F + 2) /\ F + 1 \in F .. Len(chunk) /\ F + 2 \in F .. Len(chunk)
      /\ F + 1 \in F .. Len(chunk) - 1 /\ (F + 1) + 1 = F + 2 /\ F + 1 \in 1 .. Len(r) + 1 /\ F + 1 # Len(r) + 1
  <2>1. /\ F \in Nat /\ F >= 1 /\ Len(r) = Len(chunk) - 1 /\ F < Len(r) /\ Len(chunk) \in Nat /\ Base \in Nat
        /\ Base + Len(chunk) = Read /\ Read <= Len(All) /\ Len(All) \in Nat
    BY <1>4, <1>5, <1>6
  <2>2. QED
    BY ONLY <2>1
<1>8. All[p].byte = "SB"
  BY <1>3, <1>4, <1>7
<1>9. All[p + 1].byte = r[F + 1]
  BY <1>4, <1>7
<1> HIDE DEF p
<1>10. PICK i \in 1 .. Len(items) :
          /\ items[i] \in {"subneg", "emptysubneg", "subneg255", "notypesubneg"}
          /\ SubNegAt(All, p, items[i])
  BY <1>5, <1>7, <1>8, SubNegHere
<1>11. r[F + 1] = "o"
  BY <1>9, <1>10 DEF SubNegAt, Legible
<1>12. r[F + 1] = "IAC"
  BY <1>2, <1>4, <1>7, FoundIAC
<1>13. QED
  BY <1>11, <1>12

LEMMA LegibleSteps ==
    ASSUME ScanInv, AlignInv, Legible, [Next]_vars
    PROVE  \/ \E n \in Nat \ {0} : Recv(n)
           \/ rpc = "scan" /\ \E f, g : Drops(f, g)
           \/ AppendChunk
           \/ Outside
<1>1. CASE rpc = "scan" /\ ScanAction
  <2>1. \E f, g : Drops(f, g)
    BY <1>1, ScanStep DEF ScanInv
  <2>2. QED
    BY <1>1, <2>1
<1>2. QED
  BY <1>1, StepKinds, NoneLost

LEMMA InitItems ==
    ASSUME Init
    PROVE  items \in Seq(Items)
<1>1. PICK n \in 0 .. MaxItems : items \in [1 .. n -> Items]
  BY DEF Init
<1>2. n \in Nat
  BY TelnetAssumption
<1>3. QED
  BY <1>1, <1>2

LEMMA ScanInitially ==
    ASSUME Init
    PROVE  ScanInv /\ AlignInv /\ Read = 0
<1>1. items \in Seq(Items) /\ wire = All
  BY InitItems DEF Init, All, Stream
<1>2. All \in Seq(Cell) /\ Len(All) \in Nat
  BY <1>1, StreamType DEF All
<1>3. Read = 0
  BY <1>1, <1>2 DEF Read
<1>4. ScanType
  BY <1>1 DEF Init, ScanType
<1>5. WireInv
  <2>1. SubSeq(All, 1, Len(All)) = All
    BY <1>2, SubSeqFull
  <2>2. SubSeq(All, Read + 1, Len(All)) = All
    BY <1>3, <2>1
  <2>3. QED
    BY <1>1, <1>2, <2>2 DEF WireInv
<1>6. ChunkInv
  <2>1. chunk = <<>> /\ pos = 1 /\ Len(chunk) = 0
    BY DEF Init
  <2>2. QED
    BY <1>3, <2>1 DEF ChunkInv, Base
<1>7. AlignInv
  <2>1. cut = FALSE /\ Base + pos - 1 = 0
    <3>1. cut = FALSE /\ pos = 1 /\ Len(chunk) = 0
      BY DEF Init
    <3>2. QED
      BY <1>3, <3>1 DEF Base
  <2>2. ~Pair(0)
    BY DEF Pair
  <2>3. QED
    BY <1>3, <2>1, <2>2 DEF AlignInv
<1>8. QED
  BY <1>3, <1>4, <1>5, <1>6, <1>7 DEF ScanInv
-----------------------------------------------------------------------------
(***************************************************************************)
(* The items that have arrived.                                            *)
(***************************************************************************)

LEMMA EndsOrdered ==
    ASSUME NEW s \in Seq(Items), NEW S, NEW e, Shape(s, S, e)
    PROVE  /\ Len(s) \in Nat /\ Len(S) \in Nat /\ e[0] = 0 /\ e[Len(s)] = Len(S)
           /\ \A i \in 0 .. Len(s) : e[i] \in Nat
           /\ \A i, j \in 0 .. Len(s) : i <= j => e[i] <= e[j]
           /\ \A i, j \in 0 .. Len(s) : e[i] < e[j] => i < j
           /\ \A i, j \in 0 .. Len(s) : i < j => e[i] < e[j]
<1>1. /\ S \in Seq(Cell) /\ e \in [0 .. Len(s) -> Nat] /\ e[0] = 0 /\ e[Len(s)] = Len(S)
      /\ \A i, j \in 0 .. Len(s) : i < j => e[i] < e[j]
  BY Zenon DEF Shape
<1>2. Len(s) \in Nat /\ Len(S) \in Nat
  BY <1>1
<1>3. \A i \in 0 .. Len(s) : e[i] \in Nat
  BY <1>1
<1>4. \A i, j \in 0 .. Len(s) : i <= j => e[i] <= e[j]
  BY <1>1, <1>2, <1>3
<1>5. \A i, j \in 0 .. Len(s) : e[i] < e[j] => i < j
  BY <1>1, <1>2, <1>3
<1>6. QED
  BY <1>1, <1>2, <1>3, <1>4, <1>5

\* Item a is the last that ends at position k or before.
LastBefore(s, e, a, k) ==
    a \in 0 .. Len(s) /\ e[a] <= k /\ (a < Len(s) => k < e[a + 1])

Marks(S, k, n) == {i \in 1 .. n : S[k + i].last}

\* The marked bytes of a chunk are the ends of the items that arrive with it.
LEMMA CountEnds ==
    ASSUME NEW s \in Seq(Items), NEW S, NEW e, Shape(s, S, e), NEW k \in Nat, NEW n \in Nat,
           k + n <= Len(S), NEW a, LastBefore(s, e, a, k)
    PROVE  \E b \in a .. Len(s) :
              /\ LastBefore(s, e, b, k + n)
              /\ Cardinality(Marks(S, k, n)) = b - a
<1> DEFINE N == Len(s)
           I == {i \in 0 .. N : e[i] <= k + n}
           b == Max(I)
           M == Marks(S, k, n)
<1> USE DEF Marks
<1>1. /\ N \in Nat /\ Len(S) \in Nat /\ e[0] = 0
      /\ \A i \in 0 .. N : e[i] \in Nat
      /\ \A i, j \in 0 .. N : i <= j => e[i] <= e[j]
      /\ \A i, j \in 0 .. N : e[i] < e[j] => i < j
      /\ \A i, j \in 0 .. N : i < j => e[i] < e[j]
  BY EndsOrdered
<1>2. a \in 0 .. N /\ e[a] <= k /\ (a < N => k < e[a + 1])
  BY DEF LastBefore
<1> HIDE DEF N
<1>3. a \in I /\ I \in SUBSET Nat /\ \A y \in I : y <= N
  BY <1>1, <1>2
<1>4. b \in I /\ \A y \in I : b >= y
  <2> HIDE DEF I
  <2>1. I # {}
    BY <1>3
  <2>2. QED
    BY <1>1, <1>3, <2>1, MaxNat
<1> HIDE DEF b
<1>5. b \in 0 .. N /\ a <= b /\ e[b] <= k + n /\ (b < N => k + n < e[b + 1])
  <2>1. b \in 0 .. N /\ a <= b /\ e[b] <= k + n
    BY <1>3, <1>4
  <2>2. ASSUME b < N PROVE k + n < e[b + 1]
    <3>1. b + 1 \in 0 .. N /\ ~(b + 1 <= b)
      BY <1>1, <2>1, <2>2
    <3>2. b + 1 \notin I
      BY <1>4, <2>1, <3>1
    <3>3. e[b + 1] \in Nat
      BY <1>1, <3>1
    <3>4. QED
      BY <3>1, <3>2, <3>3
  <2>3. QED
    BY <2>1, <2>2
<1> HIDE DEF I
<1> DEFINE J == a + 1 .. b
           h == [j \in J |-> e[j] - k]
<1>6. ASSUME NEW j \in J PROVE j \in 1 .. N /\ j \in 0 .. N /\ e[j] \in Nat /\ k < e[j] /\ e[j] <= k + n
  <2>1. j \in 1 .. N /\ j \in 0 .. N /\ a + 1 \in 0 .. N /\ a < N /\ a + 1 <= j /\ j <= b
    BY <1>1, <1>2, <1>5
  <2>2. e[j] \in Nat /\ e[a + 1] \in Nat /\ e[b] \in Nat /\ e[a + 1] <= e[j] /\ e[j] <= e[b]
    BY <1>1, <1>5, <2>1
  <2>3. QED
    BY <1>2, <1>5, <2>1, <2>2
<1>7. ASSUME NEW j \in J PROVE e[j] - k \in M
  <2>1. e[j] - k \in 1 .. n /\ k + (e[j] - k) = e[j]
    BY <1>6
  <2>2. /\ s[j] \in Items /\ e[j] = e[j - 1] + Len(Encode(s[j]))
        /\ \A q \in 1 .. Len(Encode(s[j])) : S[e[j - 1] + q].last <=> q = Len(Encode(s[j]))
    BY <1>6, InItem DEF N
  <2>3. Len(Encode(s[j])) \in 1 .. Len(Encode(s[j]))
    BY <2>2, EncodeType
  <2>4. S[e[j]].last
    BY <2>2, <2>3
  <2>5. QED
    BY <2>1, <2>4
<1>8. ASSUME NEW i \in M PROVE \E j \in J : e[j] - k = i
  <2> DEFINE p == k + i
  <2>1. p \in 1 .. Len(S) /\ p \in Nat /\ k < p /\ p <= k + n /\ S[p].last /\ p - k = i
    BY <1>1
  <2> HIDE DEF p
  <2>2. PICK j, q : Owns(s, S, e, p, j, q)
    BY <2>1, Owner
  <2>3. j \in 1 .. N /\ p = e[j]
    BY <2>1, <2>2 DEF Owns, N
  <2>4. j \in 0 .. N /\ e[a] < e[j] /\ a < j
    <3>1. j \in 0 .. N
      BY <1>1, <2>3
    <3>2. e[a] \in Nat /\ e[j] \in Nat
      BY <1>1, <1>2, <3>1
    <3>3. e[a] < e[j]
      BY <1>2, <2>1, <2>3, <3>2
    <3>4. QED
      BY <1>1, <1>2, <3>1, <3>3
  <2>5. j <= b
    <3>1. CASE b = N
      BY <1>1, <2>3, <3>1
    <3>2. CASE b < N
      <4>1. b + 1 \in 0 .. N /\ e[b + 1] \in Nat /\ e[j] \in Nat
        BY <1>1, <1>5, <2>4, <3>2
      <4>2. e[j] < e[b + 1]
        BY <1>5, <2>1, <2>3, <3>2, <4>1
      <4>3. j < b + 1
        BY <1>1, <2>4, <4>1, <4>2
      <4>4. QED
        BY <1>1, <1>5, <2>4, <4>3
    <3>3. QED
      BY <1>1, <1>5, <3>1, <3>2
  <2>6. j \in J
    BY <1>1, <1>2, <1>5, <2>3, <2>4, <2>5
  <2>7. QED
    BY <2>1, <2>3, <2>6
<1>9. ExistsBijection(J, M)
  <2>1. h \in [J -> M]
    BY <1>7
  <2>2. \A i, j \in J : h[i] = h[j] => i = j
    <3>1. SUFFICES ASSUME NEW i \in J, NEW j \in J, h[i] = h[j] PROVE i = j
      OBVIOUS
    <3>2. e[i] \in Nat /\ e[j] \in Nat /\ e[i] - k = e[j] - k /\ i \in 0 .. N /\ j \in 0 .. N
      BY <1>6, <3>1
    <3>3. e[i] = e[j]
      BY <3>2
    <3>4. ~(i < j) /\ ~(j < i)
      BY <1>1, <3>2, <3>3
    <3>5. QED
      BY <1>1, <3>2, <3>4
  <2>3. \A i \in M : \E j \in J : h[j] = i
    BY <1>8
  <2> HIDE DEF h, J, M
  <2>4. h \in Bijection(J, M)
    BY <2>1, <2>2, <2>3 DEF Bijection, Injection, Surjection, IsInjective
  <2>5. QED
    BY <2>4 DEF ExistsBijection
<1>10. IsFiniteSet(J) /\ Cardinality(J) = b - a
  <2>1. a + 1 \in Int /\ b \in Int
    BY <1>1, <1>2, <1>5
  <2>2. IsFiniteSet(a + 1 .. b) /\ Cardinality(a + 1 .. b) = IF a + 1 > b THEN 0 ELSE b - (a + 1) + 1
    BY <2>1, FS_Interval
  <2>3. QED
    BY <1>1, <1>2, <1>5, <2>2
<1>11. Cardinality(M) = b - a
  <2> HIDE DEF J, M
  <2>1. Cardinality(M) = Cardinality(J)
    BY <1>9, <1>10, FS_Bijection
  <2>2. QED
    BY <1>10, <2>1
<1>12. LastBefore(s, e, b, k + n)
  BY <1>5 DEF LastBefore, N
<1>13. b \in a .. Len(s)
  BY <1>1, <1>2, <1>5 DEF N
<1>14. QED
  BY <1>11, <1>12, <1>13

LEMMA LastIsEnd ==
    ASSUME NEW s \in Seq(Items), NEW S, NEW e, Shape(s, S, e), NEW b, NEW p \in Nat,
           LastBefore(s, e, b, p), NEW j \in 1 .. Len(s), p = e[j]
    PROVE  j = b
<1>1. /\ Len(s) \in Nat
      /\ \A i \in 0 .. Len(s) : e[i] \in Nat
      /\ \A i, k \in 0 .. Len(s) : e[i] < e[k] => i < k
      /\ \A i, k \in 0 .. Len(s) : i < k => e[i] < e[k]
  BY EndsOrdered
<1>2. b \in 0 .. Len(s) /\ e[b] <= p /\ (b < Len(s) => p < e[b + 1])
  BY DEF LastBefore
<1>3. j \in 0 .. Len(s) /\ e[b] \in Nat /\ e[j] \in Nat
  BY <1>1, <1>2
<1>4. ~(j < b)
  BY <1>1, <1>2, <1>3
<1>5. ~(b < j)
  <2>1. SUFFICES ASSUME b < j PROVE FALSE
    OBVIOUS
  <2>2. b < Len(s) /\ b + 1 \in 0 .. Len(s)
    BY <1>1, <1>2, <1>3, <2>1
  <2>3. e[j] < e[b + 1]
    BY <1>2, <2>2
  <2>4. j < b + 1
    BY <1>1, <1>3, <2>2, <2>3
  <2>5. QED
    BY <1>2, <1>3, <2>1, <2>4
<1>6. QED
  BY <1>1, <1>2, <1>3, <1>4, <1>5

\* arrived counts the items that were read to the last byte; while every chunk ended
\* with an item, what was read ends with the last of them.
ArrivedInv ==
    /\ LastBefore(items, Ends(items), arrived, Read)
    /\ split \in BOOLEAN /\ (~split => ~cut /\ Read = Ends(items)[arrived])

LEMMA RecvKeepsArrived ==
    ASSUME ScanInv, ArrivedInv, NEW n \in Nat \ {0}, Recv(n)
    PROVE  ArrivedInv'
<1> DEFINE e == Ends(items)
           a == arrived
           k == Read
           M == Marks(All, k, n)
<1>1. /\ items' = items /\ All' = All /\ Read' = Read + n
      /\ arrived' = a + Cardinality(M)
      /\ split' = (split \/ ~All[Read + n].last) /\ cut' = (cut \/ Pair(Read + n))
      /\ Read + n <= Len(All)
  BY RecvStep DEF ScanInv, Marks
<1>2. Shape(items, All, e) /\ k \in Nat /\ items \in Seq(Items)
  BY ReadIsNat DEF ScanInv, ScanType
<1>3. LastBefore(items, e, a, k) /\ n \in Nat
  BY DEF ArrivedInv
<1> HIDE DEF e, a, k
<1>4. PICK b \in a .. Len(items) : LastBefore(items, e, b, k + n) /\ Cardinality(M) = b - a
  <2>1. k + n <= Len(All)
    BY <1>1 DEF k
  <2>2. QED
    BY <1>2, <1>3, <2>1, CountEnds
<1>5. Len(items) \in Nat /\ a \in Nat
  BY <1>2, <1>3 DEF LastBefore
<1>6. arrived' = b
  <2> HIDE DEF M
  <2>1. QED
    BY <1>1, <1>4, <1>5
<1>7. split' \in BOOLEAN
  BY <1>1
<1>8. ASSUME ~split' PROVE k + n = e[b]
  <2> DEFINE p == k + n
  <2>1. p \in 1 .. Len(All) /\ p \in Nat
    BY <1>1, <1>2 DEF k
  <2>2. All[p].last
    BY <1>1, <1>8 DEF k
  <2>3. LastBefore(items, e, b, p)
    BY <1>4
  <2> HIDE DEF p
  <2>4. PICK j, q : Owns(items, All, e, p, j, q)
    BY <1>2, <2>1, Owner
  <2>5. j \in 1 .. Len(items) /\ p = e[j]
    BY <2>2, <2>4 DEF Owns
  <2>6. QED
    <3>1. p = e[b]
      BY <1>2, <2>1, <2>3, <2>5, LastIsEnd
    <3>2. QED
      BY <3>1 DEF p
<1>9. Ends(items)' = e /\ Read' = k + n
  BY <1>1 DEF e, k
<1>10. ~split' => ~cut'
  <2>1. SUFFICES ASSUME ~split' PROVE ~cut'
    OBVIOUS
  <2>2. ~split /\ All[Read + n].last
    BY <1>1, <2>1
  <2>3. ~Pair(Read + n)
    BY <2>2 DEF Pair, PairAt
  <2>4. QED
    BY <1>1, <2>2, <2>3 DEF ArrivedInv
<1>11. QED
  BY <1>1, <1>4, <1>6, <1>7, <1>8, <1>9, <1>10 DEF ArrivedInv

LEMMA OtherKeepsArrived ==
    ASSUME ArrivedInv, UNCHANGED streamVars
    PROVE  ArrivedInv'
BY DEF ArrivedInv, streamVars, Read, All

LEMMA StepKeepsArrived ==
    ASSUME ScanInv, ArrivedInv, [Next]_vars
    PROVE  ArrivedInv'
<1>1. (\E n \in Nat \ {0} : Recv(n)) \/ UNCHANGED streamVars
  BY StepKinds DEF ScanAction, Escaped, HandleTelopt, HandleSubNeg, OtherCommand, AppendChunk,
                   HandleSubNegInverted, Outside
<1>2. QED
  BY <1>1, RecvKeepsArrived, OtherKeepsArrived

LEMMA ArrivedInitially ==
    ASSUME Init
    PROVE  ArrivedInv
<1> DEFINE e == Ends(items)
<1>1. ScanInv /\ Read = 0
  BY ScanInitially
<1>2. Shape(items, All, e) /\ items \in Seq(Items)
  BY <1>1, ReadIsNat DEF ScanInv, ScanType
<1>3. /\ Len(items) \in Nat /\ e[0] = 0
      /\ \A i \in 0 .. Len(items) : e[i] \in Nat
      /\ \A i, j \in 0 .. Len(items) : i < j => e[i] < e[j]
  BY <1>2, EndsOrdered
<1>4. arrived = 0 /\ split = FALSE /\ cut = FALSE
  BY DEF Init
<1> HIDE DEF e
<1>5. LastBefore(items, e, 0, 0)
  <2>1. ASSUME 0 < Len(items) PROVE 0 < e[0 + 1]
    <3>1. 0 \in 0 .. Len(items) /\ 1 \in 0 .. Len(items) /\ 0 + 1 = 1
      BY <1>3, <2>1
    <3>2. QED
      BY <1>3, <3>1
  <2>2. QED
    BY <1>3, <2>1 DEF LastBefore
<1>6. QED
  BY <1>1, <1>3, <1>4, <1>5 DEF ArrivedInv, e
-----------------------------------------------------------------------------
(***************************************************************************)
(* The input buffer.                                                       *)
(***************************************************************************)

Visible == Bytes \ {"nl"}

\* ReadlnKeepsText, with the visible characters of each part.
BufferInv == BufferType /\ Keep(taken \o inBuffer, Visible) = Keep(delivered, Visible)

LEMMA AppendKeepsBuffer ==
    ASSUME ScanType, BufferInv, AppendChunk
    PROVE  BufferInv'
<1> DEFINE ti == taken \o inBuffer
<1>1. /\ inBuffer' = inBuffer \o chunk /\ delivered' = delivered \o chunk /\ taken' = taken
      /\ inBuffer \in Seq(Bytes) /\ delivered \in Seq(Bytes) /\ taken \in Seq(Bytes)
      /\ chunk \in Seq(Bytes)
  BY DEF AppendChunk, BufferInv, BufferType, ScanType
<1>2. BufferType'
  BY <1>1 DEF BufferType
<1>3. ti \in Seq(Bytes) /\ taken' \o inBuffer' = ti \o chunk
  <2>1. (taken \o inBuffer) \o chunk = taken \o (inBuffer \o chunk)
    BY <1>1, ConcatAssociative, SMTT(30)
  <2>2. taken' \o inBuffer' = taken \o (inBuffer \o chunk)
    BY <1>1
  <2>3. ti \in Seq(Bytes)
    BY <1>1
  <2>4. QED
    BY <2>1, <2>2, <2>3, Zenon
<1> HIDE DEF ti
<1>4. Keep(ti \o chunk, Visible) = Keep(ti, Visible) \o Keep(chunk, Visible)
  <2>1. ti \in Seq(Bytes) /\ chunk \in Seq(Bytes)
    BY <1>1, <1>3
  <2>2. QED
    BY ONLY <2>1, KeepConcat
<1>5. Keep(delivered \o chunk, Visible) = Keep(delivered, Visible) \o Keep(chunk, Visible)
  <2>1. delivered \in Seq(Bytes) /\ chunk \in Seq(Bytes)
    BY <1>1
  <2>2. QED
    BY ONLY <2>1, KeepConcat
<1>6. Keep(ti, Visible) = Keep(delivered, Visible)
  BY DEF BufferInv, ti
<1>7. Keep(taken' \o inBuffer', Visible) = Keep(delivered', Visible)
  BY <1>1, <1>3, <1>4, <1>5, <1>6, Zenon
<1>8. Visible' = Visible
  BY DEF Visible
<1>9. QED
  BY <1>2, <1>7, <1>8 DEF BufferInv

LEMMA ReadlnKeepsBuffer ==
    ASSUME BufferInv, Readln
    PROVE  BufferInv'
<1> DEFINE b == inBuffer
           n == Len(b)
           l == LineEnd
           m == NextLine
           I == {i \in DOMAIN b : b[i] = "nl"} \cup {n + 1}
           J == {i \in l .. n : b[i] # "nl"} \cup {n + 1}
           x == SubSeq(b, 1, l - 1)
           y == SubSeq(b, m, n)
<1>1. /\ b \in Seq(Bytes) /\ n \in Nat /\ DOMAIN b = 1 .. n /\ taken \in Seq(Bytes)
      /\ delivered \in Seq(Bytes)
  BY DEF BufferInv, BufferType
<1>2. taken' = taken \o x /\ inBuffer' = y /\ delivered' = delivered
  BY DEF Readln
<1>3. l \in I /\ \A i \in I : l <= i
  <2>1. I \in SUBSET Nat /\ I # {}
    BY <1>1
  <2>2. l = Min(I)
    BY DEF LineEnd
  <2>3. QED
    BY <2>1, <2>2, MinNat
<1>4. l \in 1 .. n + 1 /\ (l <= n => b[l] = "nl")
  <2> HIDE DEF l
  <2>1. QED
    BY <1>1, <1>3
<1>5. m \in J /\ \A i \in J : m <= i
  <2>1. J \in SUBSET Nat /\ J # {}
    <3> HIDE DEF l
    <3>1. QED
      BY <1>1, <1>4
  <2>2. m = Min(J)
    BY DEF NextLine
  <2>3. QED
    BY <2>1, <2>2, MinNat
<1> HIDE DEF l, m
<1>6. m \in l .. n + 1 /\ \A i \in l .. m - 1 : b[i] = "nl"
  <2>1. m \in l .. n + 1
    BY <1>1, <1>4, <1>5
  <2>2. ASSUME NEW i \in l .. m - 1, b[i] # "nl" PROVE FALSE
    <3>1. i \in J
      BY <1>1, <1>4, <2>1, <2>2
    <3>2. QED
      BY <1>4, <1>5, <2>1, <3>1
  <2>3. QED
    BY <2>1, <2>2
<1>7. x \in Seq(Bytes)
  <2>1. l - 1 \in 0 .. Len(b)
    BY <1>1, <1>4
  <2>2. QED
    BY <1>1, <2>1, FrontPart
<1>8. y \in Seq(Bytes)
  <2>1. m \in 1 .. Len(b) + 1 /\ n \in m - 1 .. Len(b)
    BY <1>1, <1>4, <1>6
  <2>2. QED
    BY <1>1, <2>1, Part
<1>9. Keep(x \o y, Visible) = Keep(b, Visible)
  <2>1. CASE l = n + 1
    <3>1. l - 1 = n /\ m = n + 1
      BY <1>1, <1>4, <1>6, <2>1
    <3>2. x = b
      BY <1>1, <3>1, SubSeqFull
    <3>3. y = <<>>
      BY <1>1, <3>1, SubSeqEmpty
    <3>4. b \o <<>> = b
      BY <1>1
    <3>5. QED
      BY <3>2, <3>3, <3>4, Zenon
  <2>2. CASE l # n + 1
    <3>1. l \in 1 .. n /\ b[l] = "nl" /\ m # l
      <4>1. l \in 1 .. n /\ b[l] = "nl"
        BY <1>1, <1>4, <2>2
      <4>2. m # l
        BY <1>5, <4>1
      <4>3. QED
        BY <4>1, <4>2
    <3> DEFINE g == m - 1
    <3>2. g \in l .. n /\ g + 1 = m /\ \A i \in l .. g : b[i] \notin Visible
      BY <1>1, <1>6, <3>1 DEF Visible
    <3>3. Erase(b, l, g) = x \o y
      BY <3>2 DEF Erase
    <3> HIDE DEF g
    <3>4. Keep(Erase(b, l, g), Visible) = Keep(b, Visible)
      BY <1>1, <3>1, <3>2, KeepErased
    <3>5. QED
      BY <3>3, <3>4
  <2>3. QED
    BY <2>1, <2>2
<1> HIDE DEF x, y, b
<1>10. (taken \o x) \o y = taken \o (x \o y)
  BY <1>1, <1>7, <1>8, ConcatAssociative, SMTT(30)
<1> DEFINE xy == x \o y
<1>11. xy \in Seq(Bytes)
  BY <1>7, <1>8
<1>12. Keep(xy, Visible) = Keep(b, Visible)
  BY <1>9
<1> HIDE DEF xy
<1>13. Keep(taken \o xy, Visible) = Keep(taken, Visible) \o Keep(xy, Visible)
  BY <1>1, <1>11, KeepConcat, SMTT(30)
<1>14. Keep(taken \o b, Visible) = Keep(taken, Visible) \o Keep(b, Visible)
  BY <1>1, KeepConcat
<1>15. Keep(taken \o b, Visible) = Keep(delivered, Visible)
  BY DEF BufferInv, b
<1>16. taken' \o inBuffer' = taken \o xy
  BY <1>2, <1>10 DEF xy
<1>17. Keep(taken' \o inBuffer', Visible) = Keep(delivered', Visible)
  BY <1>2, <1>12, <1>13, <1>14, <1>15, <1>16, Zenon
<1>18. BufferType'
  BY <1>1, <1>2, <1>7, <1>8 DEF BufferType
<1>19. Visible' = Visible
  BY DEF Visible
<1>20. QED
  BY <1>17, <1>18, <1>19 DEF BufferInv

LEMMA StepKeepsBuffer ==
    ASSUME ScanInv, BufferInv, [Next]_vars
    PROVE  BufferInv'
<1>1. CASE UNCHANGED <<inBuffer, delivered, taken>>
  BY <1>1 DEF BufferInv, BufferType, Visible
<1>2. AppendChunk \/ Readln \/ UNCHANGED <<inBuffer, delivered, taken>>
  BY DEF vars, bufferVars, Next, Recv, OnRecv, Escaped, HandleTelopt, HandleSubNeg, OtherCommand,
         HandleSubNegInverted, Notify, ReadReturns, ChangeListeners
<1>3. QED
  BY <1>1, <1>2, AppendKeepsBuffer, ReadlnKeepsBuffer DEF ScanInv

LEMMA BufferInitially ==
    ASSUME Init
    PROVE  BufferInv
<1>1. taken = <<>> /\ inBuffer = <<>> /\ delivered = <<>>
  BY DEF Init
<1>2. <<>> \o <<>> = <<>> /\ <<>> \in Seq(Bytes)
  OBVIOUS
<1>3. QED
  BY <1>1, <1>2, Zenon DEF BufferInv, BufferType

RecvInv == ScanInv /\ AlignInv /\ ArrivedInv /\ BufferInv

LEMMA RecvAlways == Spec => []RecvInv
<1>1. Init => RecvInv
  BY ScanInitially, ArrivedInitially, BufferInitially DEF RecvInv
<1>2. RecvInv /\ [Next]_vars => RecvInv'
  BY StepKeepsScan, StepKeepsAligned, StepKeepsArrived, StepKeepsBuffer DEF RecvInv
<1>3. QED
  BY <1>1, <1>2, PTL DEF Spec

\* TypeOK, for every stream and every set of listeners: the scanner's index stays within
\* its chunk although handlers erase from it, and arrived within the items.
THEOREM TypeCorrect == Spec => []TypeOK
<1>1. RecvInv /\ ListInv => TypeOK
  <2>1. SUFFICES ASSUME RecvInv, ListInv PROVE TypeOK
    OBVIOUS
  <2>2. wire \in Seq([byte : Bytes, last : BOOLEAN])
    BY <2>1 DEF RecvInv, ScanInv, WireInv, Cell
  <2>3. items \in Seq(Items) /\ arrived \in 0 .. Len(items) /\ split \in BOOLEAN /\ cut \in BOOLEAN
    BY <2>1 DEF RecvInv, ScanInv, ScanType, ArrivedInv, AlignInv, LastBefore
  <2>4. /\ chunk \in Seq(Bytes) /\ pos \in 1 .. Len(chunk) + 1 /\ rpc \in {"idle", "scan", "notify"}
        /\ events \in Seq({"option", "subneg", "emptysubneg"})
    BY <2>1 DEF RecvInv, ScanInv, ScanType, Kinds
  <2>5. inBuffer \in Seq(Bytes) /\ delivered \in Seq(Bytes) /\ taken \in Seq(Bytes) /\ ListTypeOK
    BY <2>1 DEF RecvInv, BufferInv, BufferType, ListInv
  <2>6. QED
    BY <2>2, <2>3, <2>4, <2>5 DEF TypeOK
<1>2. QED
  BY <1>1, RecvAlways, ListAlways, PTL

\* ReadlnKeepsText, for any stream: readln (buffered_socket.cpp) returns every character
\* that is not a newline, once and in order, whenever it is called and however the lines
\* arrive.
THEOREM ReadlnLosesNothing == Spec => []ReadlnKeepsText
<1>1. RecvInv => ReadlnKeepsText
  BY DEF RecvInv, BufferInv, ReadlnKeepsText, Visible
<1>2. QED
  BY <1>1, RecvAlways, PTL
-----------------------------------------------------------------------------
(***************************************************************************)
(* The text and the callbacks.                                             *)
(***************************************************************************)

\* The callbacks ev are some of the items s, in their order, that end at d or before.
Embeds(ev, s, e, d) ==
    \E of \in [DOMAIN ev -> 1 .. Len(s)] :
        /\ \A i, j \in DOMAIN ev : i < j => of[i] < of[j]
        /\ \A i \in DOMAIN ev : ev[i] = s[of[i]] /\ e[of[i]] <= d

\* The text that was received is the text that was read, whatever the scanner dropped.
TextInv == TextOf(delivered) \o TextOf(chunk) = TextOf(BytesOf(SubSeq(All, 1, Read)))

\* The callbacks are those of items the scanner has passed.
EventInv == Embeds(events, items, Ends(items), Base + pos - 1)

LEMMA EmbedsMore ==
    ASSUME NEW ev, NEW s \in Seq(Items), NEW S, NEW e, Shape(s, S, e), NEW d \in Nat, NEW c \in Nat,
           d <= c, Embeds(ev, s, e, d)
    PROVE  Embeds(ev, s, e, c)
<1>1. PICK of \in [DOMAIN ev -> 1 .. Len(s)] :
          /\ \A i, j \in DOMAIN ev : i < j => of[i] < of[j]
          /\ \A i \in DOMAIN ev : ev[i] = s[of[i]] /\ e[of[i]] <= d
  BY DEF Embeds
<1>2. \A i \in DOMAIN ev : e[of[i]] \in Nat
  <2>1. \A k \in 1 .. Len(s) : e[k] \in Nat
    BY EndsOrdered
  <2>2. QED
    BY <2>1
<1>3. \A i \in DOMAIN ev : e[of[i]] <= c
  BY <1>1, <1>2
<1>4. QED
  BY <1>1, <1>3 DEF Embeds

LEMMA EmbedsAppend ==
    ASSUME NEW ev \in Seq(Kinds), NEW s \in Seq(Items), NEW S, NEW e, Shape(s, S, e), NEW d \in Nat,
           Embeds(ev, s, e, d), NEW k \in 1 .. Len(s), d <= e[k - 1]
    PROVE  Embeds(Append(ev, s[k]), s, e, e[k])
<1>1. PICK of \in [DOMAIN ev -> 1 .. Len(s)] :
          /\ \A i, j \in DOMAIN ev : i < j => of[i] < of[j]
          /\ \A i \in DOMAIN ev : ev[i] = s[of[i]] /\ e[of[i]] <= d
  BY DEF Embeds
<1> DEFINE n == Len(ev)
           ev2 == Append(ev, s[k])
           of2 == [i \in 1 .. n + 1 |-> IF i = n + 1 THEN k ELSE of[i]]
<1>2. n \in Nat /\ DOMAIN ev = 1 .. n /\ Len(s) \in Nat
  OBVIOUS
<1>3. /\ DOMAIN ev2 = 1 .. n + 1 /\ ev2[n + 1] = s[k]
      /\ \A i \in 1 .. n : ev2[i] = ev[i]
  BY <1>2
<1>4. /\ of2 \in [1 .. n + 1 -> 1 .. Len(s)] /\ of2[n + 1] = k
      /\ \A i \in 1 .. n : of2[i] = of[i]
  BY <1>2
<1>5. /\ \A i \in 0 .. Len(s) : e[i] \in Nat
      /\ \A i, j \in 0 .. Len(s) : i <= j => e[i] <= e[j]
      /\ \A i, j \in 0 .. Len(s) : e[i] < e[j] => i < j
      /\ \A i, j \in 0 .. Len(s) : i < j => e[i] < e[j]
  BY EndsOrdered
<1>6. ASSUME NEW i \in 1 .. n PROVE of[i] \in 1 .. Len(s) /\ of[i] < k /\ e[of[i]] <= e[k]
  <2>1. /\ of[i] \in 1 .. Len(s) /\ of[i] \in 0 .. Len(s)
        /\ k - 1 \in 0 .. Len(s) /\ k \in 0 .. Len(s) /\ k - 1 < k
    BY <1>2
  <2>2. e[of[i]] \in Nat /\ e[k - 1] \in Nat /\ e[k] \in Nat /\ e[k - 1] < e[k] /\ e[of[i]] <= d
    BY <1>1, <1>2, <1>5, <2>1
  <2>3. e[of[i]] < e[k]
    BY <2>2
  <2>4. QED
    BY <1>5, <2>1, <2>2, <2>3
<1> HIDE DEF ev2, of2
<1>7. ASSUME NEW i \in 1 .. n + 1, NEW j \in 1 .. n + 1, i < j PROVE of2[i] < of2[j]
  <2>1. i \in 1 .. n /\ of2[i] = of[i]
    BY <1>2, <1>4, <1>7
  <2>2. CASE j = n + 1
    BY <1>4, <1>6, <2>1, <2>2
  <2>3. CASE j # n + 1
    <3>1. j \in 1 .. n
      BY <1>2, <2>3
    <3>2. QED
      BY <1>1, <1>2, <1>4, <1>7, <2>1, <3>1
  <2>4. QED
    BY <2>2, <2>3
<1>8. ASSUME NEW i \in 1 .. n + 1 PROVE ev2[i] = s[of2[i]] /\ e[of2[i]] <= e[k]
  <2>1. CASE i = n + 1
    BY <1>2, <1>3, <1>4, <1>5, <2>1
  <2>2. CASE i # n + 1
    <3>1. i \in 1 .. n
      BY <1>2, <2>2
    <3>2. QED
      BY <1>1, <1>2, <1>3, <1>4, <1>6, <3>1
  <2>3. QED
    BY <2>1, <2>2
<1>9. Embeds(ev2, s, e, e[k])
  BY <1>3, <1>4, <1>7, <1>8 DEF Embeds
<1>10. QED
  BY <1>9 DEF ev2

\* ev is some of t, in its order.
SomeOf(ev, t) ==
    \E of \in [DOMAIN ev -> DOMAIN t] :
        /\ \A i, j \in DOMAIN ev : i < j => of[i] < of[j]
        /\ \A i \in DOMAIN ev : ev[i] = t[of[i]]

LEMMA EmbedsArrived ==
    ASSUME NEW ev, NEW s \in Seq(Items), NEW S, NEW e, Shape(s, S, e), NEW d \in Nat,
           Embeds(ev, s, e, d), NEW a, LastBefore(s, e, a, d)
    PROVE  SomeOf(ev, SubSeq(s, 1, a))
<1>1. PICK of \in [DOMAIN ev -> 1 .. Len(s)] :
          /\ \A i, j \in DOMAIN ev : i < j => of[i] < of[j]
          /\ \A i \in DOMAIN ev : ev[i] = s[of[i]] /\ e[of[i]] <= d
  BY DEF Embeds
<1>2. /\ Len(s) \in Nat
      /\ \A i \in 0 .. Len(s) : e[i] \in Nat
      /\ \A i, j \in 0 .. Len(s) : e[i] < e[j] => i < j
  BY EndsOrdered
<1>3. a \in 0 .. Len(s) /\ (a < Len(s) => d < e[a + 1])
  BY DEF LastBefore
<1> DEFINE t == SubSeq(s, 1, a)
<1>4. t \in Seq(Items) /\ Len(t) = a /\ \A i \in 1 .. a : t[i] = s[i]
  BY <1>3, FrontPart
<1>5. DOMAIN t = 1 .. a
  BY <1>4
<1> HIDE DEF t
<1>6. ASSUME NEW i \in DOMAIN ev PROVE of[i] \in 1 .. a
  <2> DEFINE q == of[i]
  <2>1. q \in 1 .. Len(s) /\ q \in 0 .. Len(s) /\ e[q] <= d
    BY <1>1
  <2> HIDE DEF q
  <2>2. CASE a = Len(s)
    BY <2>1, <2>2 DEF q
  <2>3. CASE a # Len(s)
    <3>1. a < Len(s) /\ a + 1 \in 0 .. Len(s) /\ d < e[a + 1]
      BY <1>2, <1>3, <2>3
    <3>2. e[q] \in Nat /\ e[a + 1] \in Nat
      BY <1>2, <2>1, <3>1
    <3>3. e[q] < e[a + 1]
      BY <2>1, <3>1, <3>2
    <3>4. q < a + 1
      BY <1>2, <2>1, <3>1, <3>3
    <3>5. q \in 1 .. a
      BY <1>3, <2>1, <3>4
    <3>6. QED
      BY <3>5 DEF q
  <2>4. QED
    BY <2>2, <2>3
<1>7. of \in [DOMAIN ev -> DOMAIN t]
  BY <1>5, <1>6
<1>8. \A i \in DOMAIN ev : ev[i] = t[of[i]]
  BY <1>1, <1>4, <1>6
<1>9. SomeOf(ev, t)
  BY <1>1, <1>7, <1>8 DEF SomeOf
<1>10. QED
  BY <1>9 DEF t

\* The bytes of the stream up to k, and of the n that follow.
LEMMA BytesOfMore ==
    ASSUME NEW S \in Seq(Cell), NEW k \in Nat, NEW n \in Nat, k + n <= Len(S)
    PROVE  /\ BytesOf(SubSeq(S, 1, k + n)) = BytesOf(SubSeq(S, 1, k)) \o BytesOf(SubSeq(S, k + 1, k + n))
           /\ BytesOf(SubSeq(S, 1, k)) \in Seq(Bytes)
           /\ BytesOf(SubSeq(S, k + 1, k + n)) \in Seq(Bytes)
           /\ Len(BytesOf(SubSeq(S, k + 1, k + n))) = n
           /\ \A i \in 1 .. n : BytesOf(SubSeq(S, k + 1, k + n))[i] = S[k + i].byte
<1> DEFINE u == SubSeq(S, 1, k)
           v == SubSeq(S, k + 1, k + n)
           w == SubSeq(S, 1, k + n)
<1>1. u \in Seq(Cell)
  <2>1. k \in 0 .. Len(S)
    OBVIOUS
  <2>2. QED
    BY <2>1, FrontPart
<1>2. v \in Seq(Cell) /\ Len(v) = n /\ \A i \in 1 .. n : v[i] = S[k + i]
  <2> DEFINE m == k + 1
             q == k + n
  <2>1. m \in 1 .. Len(S) + 1 /\ q \in m - 1 .. Len(S) /\ q - m + 1 = n
        /\ \A i \in 1 .. n : m + i - 1 = k + i
    OBVIOUS
  <2> HIDE DEF m, q
  <2>2. /\ SubSeq(S, m, q) \in Seq(Cell) /\ Len(SubSeq(S, m, q)) = q - m + 1
        /\ \A i \in 1 .. q - m + 1 : SubSeq(S, m, q)[i] = S[m + i - 1]
    BY <2>1, Part
  <2>3. SubSeq(S, m, q) \in Seq(Cell) /\ Len(SubSeq(S, m, q)) = n
        /\ \A i \in 1 .. n : SubSeq(S, m, q)[i] = S[k + i]
    BY <2>1, <2>2
  <2>4. QED
    BY <2>3 DEF m, q
<1>3. w = u \o v
  <2>1. 1 \in 1 .. Len(S) + 1 /\ k \in 1 - 1 .. Len(S) /\ k + n \in k .. Len(S)
    OBVIOUS
  <2>2. QED
    BY <2>1, ConcatAdjacentSubSeq
<1> HIDE DEF u, v, w
<1>4. BytesOf(w) = BytesOf(u) \o BytesOf(v)
  BY <1>1, <1>2, <1>3, BytesOfJoined
<1>5. BytesOf(u) \in Seq(Bytes) /\ BytesOf(v) \in Seq(Bytes) /\ Len(BytesOf(v)) = n
      /\ \A i \in 1 .. n : BytesOf(v)[i] = S[k + i].byte
  <2>1. BytesOf(u) \in Seq(Bytes)
    BY <1>1, BytesOfType
  <2>2. BytesOf(v) \in Seq(Bytes) /\ Len(BytesOf(v)) = Len(v)
        /\ \A i \in 1 .. Len(v) : BytesOf(v)[i] = v[i].byte
    BY <1>2, BytesOfType
  <2>3. QED
    BY <1>2, <2>1, <2>2
<1>6. QED
  BY <1>4, <1>5 DEF u, v, w

LEMMA RecvKeepsText ==
    ASSUME ScanInv, BufferType, TextInv, NEW n \in Nat \ {0}, Recv(n)
    PROVE  TextInv'
<1> DEFINE k == Read
           p == BytesOf(SubSeq(All, 1, k))
           q == BytesOf(SubSeq(All, k + 1, k + n))
<1>1. /\ chunk = <<>> /\ chunk' \in Seq(Bytes) /\ Len(chunk') = n
      /\ \A i \in 1 .. n : chunk'[i] = All[k + i].byte
      /\ All' = All /\ Read' = k + n /\ k + n <= Len(All)
  BY RecvStep DEF ScanInv
<1>2. All \in Seq(Cell) /\ k \in Nat
  BY ReadIsNat DEF ScanInv
<1>3. delivered' = delivered /\ delivered \in Seq(Bytes)
  BY DEF Recv, bufferVars, BufferType
<1> HIDE DEF k
<1>4. /\ BytesOf(SubSeq(All, 1, k + n)) = p \o q /\ p \in Seq(Bytes) /\ q \in Seq(Bytes)
      /\ Len(q) = n /\ \A i \in 1 .. n : q[i] = All[k + i].byte
  <2>1. All \in Seq(Cell) /\ k \in Nat /\ n \in Nat /\ k + n <= Len(All)
    BY <1>1, <1>2
  <2>2. QED
    BY ONLY <2>1, BytesOfMore, ZenonT(30)
<1>5. chunk' = q
  <2> HIDE DEF q
  <2>1. QED
    BY <1>1, <1>4, SeqEqual
<1>6. TextOf(delivered) = TextOf(p)
  <2>1. TextOf(chunk) = <<>>
    BY <1>1, KeepEmpty DEF TextOf
  <2>2. TextOf(delivered) \in Seq(Bytes)
    BY <1>3, KeepType DEF TextOf
  <2>3. TextOf(delivered) \o <<>> = TextOf(delivered)
    BY <2>2
  <2>4. TextOf(delivered) \o TextOf(chunk) = TextOf(p)
    BY DEF TextInv, k
  <2>5. QED
    BY <2>1, <2>3, <2>4
<1> HIDE DEF p, q
<1>7. TextOf(p \o q) = TextOf(p) \o TextOf(q)
  BY <1>4, KeepConcat DEF TextOf
<1>8. TextOf(BytesOf(SubSeq(All, 1, k + n))) = TextOf(delivered) \o TextOf(chunk')
  BY <1>4, <1>5, <1>6, <1>7
<1>9. QED
  BY <1>1, <1>3, <1>8 DEF TextInv

LEMMA DropsKeepsText ==
    ASSUME ScanInv, TextInv, NEW f, NEW g, Drops(f, g), rpc = "scan"
    PROVE  TextInv'
<1>1. /\ f \in pos .. Len(chunk) - 1 /\ g \in f .. Len(chunk) /\ chunk' = Erase(chunk, f, g)
      /\ \A i \in f .. g : chunk[i] \notin Text
      /\ delivered' = delivered
  BY DEF Drops, bufferVars
<1>2. chunk \in Seq(Bytes) /\ Len(chunk) \in Nat /\ pos \in 1 .. Len(chunk) + 1
  BY DEF ScanInv, ScanType
<1>3. f \in 1 .. Len(chunk)
  BY <1>1, <1>2
<1>4. Keep(Erase(chunk, f, g), Text) = Keep(chunk, Text)
  BY ONLY <1>1, <1>2, <1>3, KeepErased
<1>5. TextOf(chunk') = TextOf(chunk)
  BY <1>1, <1>4, Zenon DEF TextOf
<1>6. All' = All /\ Read' = Read
  BY DropsKeepsScan
<1>7. QED
  BY <1>1, <1>5, <1>6 DEF TextInv

LEMMA AppendKeepsText ==
    ASSUME ScanInv, BufferType, TextInv, AppendChunk
    PROVE  TextInv'
<1>1. delivered' = delivered \o chunk
  BY DEF AppendChunk
<1>2. chunk \in Seq(Bytes) /\ delivered \in Seq(Bytes)
  BY DEF ScanInv, ScanType, BufferType
<1>3. All' = All /\ Read' = Read /\ chunk' = <<>>
  BY AppendKeepsScan
<1>4. TextOf(delivered') = TextOf(delivered) \o TextOf(chunk)
  BY <1>1, <1>2, KeepConcat DEF TextOf
<1>5. TextOf(chunk') = <<>>
  BY <1>3, KeepEmpty DEF TextOf
<1>6. TextOf(delivered) \o TextOf(chunk) \in Seq(Bytes)
  <2>1. TextOf(delivered) \in Seq(Bytes) /\ TextOf(chunk) \in Seq(Bytes)
    BY <1>2, KeepType DEF TextOf
  <2>2. QED
    BY <2>1
<1>7. TextOf(delivered') \o TextOf(chunk') = TextOf(delivered) \o TextOf(chunk)
  BY <1>4, <1>5, <1>6
<1>8. QED
  BY <1>3, <1>7 DEF TextInv

LEMMA StepKeepsTextRead ==
    ASSUME ScanInv, AlignInv, Legible, BufferType, TextInv, [Next]_vars
    PROVE  TextInv'
<1>1. ASSUME Outside PROVE TextInv'
  <2>1. All' = All /\ Read' = Read
    BY <1>1, OutsideKeepsScan
  <2>2. chunk' = chunk /\ delivered' = delivered
    BY <1>1 DEF Outside, scanVars
  <2>3. QED
    BY <2>1, <2>2 DEF TextInv
<1>2. QED
  BY <1>1, LegibleSteps, RecvKeepsText, DropsKeepsText, AppendKeepsText

\* Where the scanner is in the stream.
LEMMA PlaceIsNat ==
    ASSUME ScanInv
    PROVE  /\ Base \in Nat /\ Len(chunk) \in Nat /\ pos \in 1 .. Len(chunk) + 1
           /\ Base + Len(chunk) = Read /\ Base + pos - 1 \in Nat /\ Base + pos - 1 <= Read
           /\ (rpc # "scan" => Base + pos - 1 = Read)
<1>1. Read \in Nat /\ chunk \in Seq(Bytes) /\ pos \in 1 .. Len(chunk) + 1
  BY ReadIsNat DEF ScanInv, ScanType
<1>2. Base = Read - Len(chunk) /\ Base >= 0 /\ Len(chunk) \in Nat
  BY <1>1 DEF Base, ScanInv, ChunkInv
<1>3. rpc # "scan" => Len(chunk) = 0 /\ pos = 1
  BY DEF ScanInv, ScanType
<1>4. QED
  BY <1>1, <1>2, <1>3

LEMMA RecvKeepsEvents ==
    ASSUME ScanInv, EventInv, NEW n \in Nat \ {0}, Recv(n)
    PROVE  EventInv'
<1>1. /\ chunk = <<>> /\ Len(chunk') = n /\ pos' = 1
      /\ items' = items /\ events' = events /\ Read' = Read + n
  BY RecvStep DEF ScanInv
<1>2. rpc # "scan"
  BY DEF Recv
<1>3. Base + pos - 1 = Read /\ Read \in Nat
  BY <1>2, PlaceIsNat, ReadIsNat DEF ScanInv
<1>4. Base' = Read
  BY <1>1, <1>3 DEF Base
<1>5. Base' + pos' - 1 = Base + pos - 1
  BY <1>1, <1>3, <1>4
<1>6. QED
  BY <1>1, <1>5, Zenon DEF EventInv

LEMMA DropsKeepsEvents ==
    ASSUME ScanInv, EventInv, NEW f, NEW g, Drops(f, g), rpc = "scan"
    PROVE  EventInv'
<1> DEFINE e == Ends(items)
           d == Base + pos - 1
           c == Base' + pos' - 1
<1>1. Shape(items, All, e) /\ items \in Seq(Items) /\ items' = items /\ events \in Seq(Kinds)
  BY ReadIsNat DEF ScanInv, ScanType, Drops, streamVars
<1>2. /\ Base \in Nat /\ Len(chunk) \in Nat /\ pos \in 1 .. Len(chunk) + 1
      /\ Base + Len(chunk) = Read /\ d \in Nat
  BY PlaceIsNat
<1>3. ScanInv' /\ Read' = Read /\ Len(chunk') = Len(chunk) - (g - f + 1)
  BY DropsKeepsScan
<1>4. /\ f \in pos .. Len(chunk) - 1 /\ g \in f .. Len(chunk)
      /\ pos' = f \/ pos' = Len(chunk') + 1
  BY DEF Drops
<1>5. Base' = Base + (g - f + 1)
  <2>1. Base' = Read - Len(chunk')
    BY <1>3 DEF Base
  <2>2. QED
    BY <1>2, <1>3, <1>4, <2>1
<1>6. c \in Nat /\ d <= c /\ d <= Base + f - 1 /\ (pos' = f => c = Base + g)
  BY <1>2, <1>3, <1>4, <1>5
<1>7. Embeds(events, items, e, d)
  BY DEF EventInv
<1> HIDE DEF c, d, e
<1>8. CASE events' = events
  <2>1. Embeds(events, items, e, c)
    BY <1>1, <1>2, <1>6, <1>7, EmbedsMore
  <2>2. QED
    BY <1>1, <1>8, <2>1 DEF EventInv, c, e
<1>9. CASE \E i \in 1 .. Len(items) :
             /\ Ends(items)[i - 1] = Base + f - 1 /\ Ends(items)[i] = Base + g
             /\ items[i] \in Kinds /\ events' = Append(events, items[i]) /\ pos' = f
  <2>1. PICK i \in 1 .. Len(items) :
             /\ e[i - 1] = Base + f - 1 /\ e[i] = Base + g
             /\ events' = Append(events, items[i]) /\ pos' = f
    BY <1>9 DEF e
  <2>2. d <= e[i - 1] /\ e[i] = c
    BY <1>6, <2>1
  <2>3. Embeds(Append(events, items[i]), items, e, e[i])
    BY <1>1, <1>2, <1>7, <2>1, <2>2, EmbedsAppend
  <2>4. Embeds(events', items', e, c)
    BY <1>1, <2>1, <2>2, <2>3
  <2>5. QED
    BY <1>1, <2>4 DEF EventInv, c, e
<1>10. QED
  BY <1>8, <1>9 DEF Drops

LEMMA AppendKeepsEvents ==
    ASSUME ScanInv, EventInv, AppendChunk
    PROVE  EventInv'
<1> DEFINE e == Ends(items)
           d == Base + pos - 1
           c == Base' + pos' - 1
<1>1. Shape(items, All, e) /\ items \in Seq(Items) /\ items' = items /\ events' = events
  BY ReadIsNat DEF ScanInv, ScanType, AppendChunk, streamVars
<1>2. d \in Nat /\ d <= Read /\ Read \in Nat
  BY PlaceIsNat, ReadIsNat DEF ScanInv
<1>3. Read' = Read
  BY AppendKeepsScan
<1>4. c = Read
  <2>1. Len(chunk') = 0 /\ pos' = 1
    BY DEF AppendChunk
  <2>2. Base' = Read
    BY <1>2, <1>3, <2>1 DEF Base
  <2>3. QED
    BY <1>2, <2>1, <2>2
<1>5. Embeds(events, items, e, d)
  BY DEF EventInv
<1> HIDE DEF c, d, e
<1>6. Embeds(events, items, e, c)
  BY <1>1, <1>2, <1>4, <1>5, EmbedsMore
<1>7. QED
  BY <1>1, <1>6 DEF EventInv, c, e

LEMMA StepKeepsEvents ==
    ASSUME ScanInv, AlignInv, Legible, EventInv, [Next]_vars
    PROVE  EventInv'
<1>1. ASSUME Outside PROVE EventInv'
  BY <1>1 DEF Outside, streamVars, scanVars, EventInv, Base, Read, All
<1>2. QED
  BY <1>1, LegibleSteps, RecvKeepsEvents, DropsKeepsEvents, AppendKeepsEvents

LEMMA NothingRead ==
    ASSUME Init
    PROVE  TextInv /\ EventInv
<1>1. ScanInv /\ Read = 0
  BY ScanInitially
<1>2. All \in Seq(Cell) /\ items \in Seq(Items) /\ Len(items) \in Nat
  BY <1>1, ReadIsNat DEF ScanInv, ScanType
<1>3. delivered = <<>> /\ chunk = <<>> /\ events = <<>>
  BY DEF Init
<1>4. TextInv
  <2>1. SubSeq(All, 1, Read) = <<>>
    BY <1>1, <1>2
  <2>2. BytesOf(<<>>) = <<>>
    BY DEF BytesOf
  <2>3. TextOf(<<>>) = <<>>
    BY KeepEmpty DEF TextOf
  <2>4. <<>> \o <<>> = <<>>
    OBVIOUS
  <2>5. QED
    BY <1>3, <2>1, <2>2, <2>3, <2>4 DEF TextInv
<1>5. EventInv
  <2> DEFINE of == [i \in DOMAIN events |-> 1]
  <2>1. DOMAIN events = {}
    BY <1>3
  <2>2. of \in [DOMAIN events -> 1 .. Len(items)]
    BY <2>1
  <2>3. QED
    BY <2>1, <2>2 DEF EventInv, Embeds
<1>6. QED
  BY <1>4, <1>5

\* The text of the bytes that were read is that of the items that have arrived.
LEMMA TextRead ==
    ASSUME NEW s \in Seq(Items), NEW a, NEW k \in Nat, k <= Len(Stream(s)),
           LastBefore(s, Ends(s), a, k)
    PROVE  TextOf(BytesOf(SubSeq(Stream(s), 1, k))) = TextOf(Sent(SubSeq(s, 1, a)))
<1> DEFINE S == Stream(s)
           e == Ends(s)
           m == e[a]
           n == k - m
           p == BytesOf(SubSeq(S, 1, m))
           q == BytesOf(SubSeq(S, m + 1, m + n))
<1>1. Shape(s, S, e) /\ S \in Seq(Cell) /\ Len(S) \in Nat
  BY StreamShape, StreamType
<1>2. a \in 0 .. Len(s) /\ m <= k /\ k <= Len(S) /\ LastBefore(s, e, a, k)
  BY DEF LastBefore
<1>3. p = Sent(SubSeq(s, 1, a))
  <2>1. SubSeq(S, 1, m) = Stream(SubSeq(s, 1, a))
    BY <1>2, StreamFront
  <2>2. SubSeq(s, 1, a) \in Seq(Items)
    BY <1>2, FrontPart
  <2>3. QED
    BY <2>1, <2>2, SentIsBytes
<1> HIDE DEF S, e
<1>4. /\ Len(s) \in Nat
      /\ \A i \in 0 .. Len(s) : e[i] \in Nat
  BY <1>1, EndsOrdered
<1>5. m \in Nat /\ n \in Nat /\ m + n = k /\ m + n <= Len(S)
  BY <1>2, <1>4
<1> HIDE DEF m, n
<1>6. /\ BytesOf(SubSeq(S, 1, m + n)) = p \o q /\ p \in Seq(Bytes) /\ q \in Seq(Bytes)
      /\ Len(q) = n /\ \A i \in 1 .. n : q[i] = S[m + i].byte
  BY <1>1, <1>5, BytesOfMore, ZenonT(30)
<1> HIDE DEF p, q
<1>7. \A i \in 1 .. Len(q) : q[i] \notin Text
  <2>1. SUFFICES ASSUME NEW i \in 1 .. n, S[m + i].byte \in Text PROVE FALSE
    BY <1>6
  <2>2. m + i \in 1 .. Len(S) /\ m < m + i /\ m + i <= k
    BY <1>1, <1>5
  <2>3. PICK j \in 1 .. Len(s) : m + i = e[j]
    BY <1>1, <2>1, <2>2, TextHere
  <2>4. LastBefore(s, e, a, m + i)
    <3>1. a < Len(s) => k < e[a + 1] /\ e[a + 1] \in Nat
      BY <1>2, <1>4 DEF LastBefore
    <3>2. QED
      BY <1>2, <1>5, <2>2, <3>1, SMTT(30) DEF LastBefore, m
  <2>5. j = a
    BY <1>1, <1>5, <2>3, <2>4, LastIsEnd
  <2>6. QED
    BY <1>5, <2>2, <2>3, <2>5 DEF m
<1>8. TextOf(q) = <<>> /\ TextOf(p) \in Seq(Bytes)
  BY <1>6, <1>7, KeepNone, KeepType DEF TextOf
<1>9. TextOf(p \o q) = TextOf(p) \o TextOf(q)
  BY <1>6, KeepConcat DEF TextOf
<1>10. TextOf(p) \o <<>> = TextOf(p)
  BY <1>8
<1>11. QED
  BY <1>3, <1>5, <1>6, <1>8, <1>9, <1>10 DEF S

\* A stream that is legible was so before: chunks are cut, and stay so.
LEMMA LegibleBefore ==
    ASSUME ScanInv, AlignInv, [Next]_vars, Legible'
    PROVE  Legible
<1>1. items' = items /\ (cut => cut')
  <2>1. ASSUME NEW n \in Nat \ {0}, Recv(n) PROVE items' = items /\ (cut => cut')
    BY <2>1 DEF Recv
  <2>2. (\E n \in Nat \ {0} : Recv(n)) \/ UNCHANGED streamVars
    BY StepKinds DEF ScanAction, Escaped, HandleTelopt, HandleSubNeg, OtherCommand, AppendChunk,
                     HandleSubNegInverted, Outside
  <2>3. QED
    BY <2>1, <2>2 DEF streamVars
<1>2. QED
  BY <1>1 DEF Legible

\* NeitherEatenNorForged, for every stream that has no sub-negotiation without a type, and
\* in which, when a chunk was cut inside an escaped 255, there are no bytes that look
\* like WILL to DONT or SB: on_recv (telnet/socket.cpp) drops no text, whatever command
\* it takes the bytes for, and on_telopt and on_sub_neg are called for negotiations that
\* the peer sent, each once and in their order, also when a chunk ends inside a command.
THEOREM TextAndCallbacksAreSent == Spec => []NeitherEatenNorForged
<1> DEFINE I == RecvInv /\ (Legible => TextInv /\ EventInv)
<1>1. Init => I
  BY ScanInitially, ArrivedInitially, BufferInitially, NothingRead DEF RecvInv
<1>2. I /\ [Next]_vars => I'
  <2>1. SUFFICES ASSUME I, [Next]_vars PROVE I'
    OBVIOUS
  <2>2. ScanInv /\ AlignInv /\ ArrivedInv /\ BufferInv /\ BufferType
    BY <2>1 DEF RecvInv, BufferInv
  <2>3. RecvInv'
    BY <2>1, <2>2, StepKeepsScan, StepKeepsAligned, StepKeepsArrived, StepKeepsBuffer DEF RecvInv
  <2>4. Legible' => TextInv' /\ EventInv'
    <3>1. SUFFICES ASSUME Legible' PROVE TextInv' /\ EventInv'
      OBVIOUS
    <3>2. Legible /\ TextInv /\ EventInv
      BY <2>1, <2>2, <3>1, LegibleBefore
    <3>3. QED
      BY <2>1, <2>2, <3>2, StepKeepsTextRead, StepKeepsEvents
  <2>5. QED
    BY <2>3, <2>4
<1>3. I => NeitherEatenNorForged
  <2>0. SUFFICES ASSUME I, rpc # "scan", cut => ToSet(items) \cap LooksLikeCommand = {},
                        "notypesubneg" \notin ToSet(items)
        PROVE /\ TextOf(delivered) = TextOf(Sent(Arrived))
              /\ \E of \in [DOMAIN events -> DOMAIN Arrived] :
                          /\ \A i, j \in DOMAIN events : i < j => of[i] < of[j]
                          /\ \A i \in DOMAIN events : events[i] = Arrived[of[i]]
    BY DEF NeitherEatenNorForged
  <2>1. TextInv /\ EventInv
    <3>1. \A i \in 1 .. Len(items) : items[i] \in ToSet(items)
      BY <2>0 DEF ToSet, RecvInv, ScanInv, ScanType
    <3>2. Legible
      BY <2>0, <3>1 DEF Legible
    <3>3. QED
      BY <2>0, <3>2
  <2>2. ScanInv /\ ArrivedInv /\ BufferType
    BY <2>0 DEF RecvInv, BufferInv
  <2>3. /\ Shape(items, All, Ends(items)) /\ items \in Seq(Items) /\ Read \in Nat /\ Read <= Len(All)
        /\ LastBefore(items, Ends(items), arrived, Read) /\ delivered \in Seq(Bytes) /\ chunk = <<>>
        /\ Base + pos - 1 = Read
    BY <2>0, <2>2, ReadIsNat, PlaceIsNat DEF ScanInv, ScanType, ArrivedInv, BufferType
  <2>4. TextOf(delivered) = TextOf(Sent(Arrived))
    <3>1. TextOf(delivered) \in Seq(Bytes) /\ TextOf(chunk) = <<>>
      BY <2>3, KeepType, KeepEmpty DEF TextOf
    <3>2. TextOf(delivered) \o TextOf(chunk) = TextOf(delivered)
      BY <3>1
    <3>3. TextOf(BytesOf(SubSeq(Stream(items), 1, Read))) = TextOf(Sent(SubSeq(items, 1, arrived)))
      BY <2>3, TextRead DEF All
    <3>4. QED
      BY <2>1, <3>2, <3>3 DEF TextInv, All, Arrived
  <2>5. Embeds(events, items, Ends(items), Read)
    BY <2>1, <2>3 DEF EventInv
  <2>6. SomeOf(events, SubSeq(items, 1, arrived))
    BY <2>3, <2>5, EmbedsArrived
  <2>7. QED
    BY <2>4, <2>6, Zenon DEF Arrived, SomeOf
<1>4. QED
  BY <1>1, <1>2, <1>3, PTL DEF Spec
-----------------------------------------------------------------------------
(***************************************************************************)
(* Streams of text and negotiations, in chunks that end with an item.      *)
(***************************************************************************)

Plain(s) == \A i \in 1 .. Len(s) : s[i] \notin Undecoded

\* Up to its position the scanner has let pass text only, and made a callback for every
\* negotiation.
DecodeInv ==
    ~split /\ Plain(items) =>
        /\ \A i \in 1 .. Len(delivered) : delivered[i] \in Text
        /\ \A i \in 1 .. pos - 1 : chunk[i] \in Text
        /\ \E b \in 0 .. Len(items) : /\ Ends(items)[b] = Base + pos - 1
                                      /\ events = Negotiations(SubSeq(items, 1, b))

\* A stretch of the stream from one end to another in which there is no IAC is text.
LEMMA Stretch ==
    ASSUME NEW s \in Seq(Items), NEW S, NEW e, Shape(s, S, e),
           NEW b \in 0 .. Len(s), NEW c \in b .. Len(s),
           \A p \in e[b] + 1 .. e[c] : S[p].byte # "IAC"
    PROVE  /\ \A i \in b + 1 .. c : s[i] \in TextItems
           /\ \A p \in e[b] + 1 .. e[c] : S[p].byte \in Text
<1>1. /\ Len(s) \in Nat /\ Len(S) \in Nat /\ e[Len(s)] = Len(S)
      /\ \A i \in 0 .. Len(s) : e[i] \in Nat
      /\ \A i, j \in 0 .. Len(s) : i <= j => e[i] <= e[j]
      /\ \A i, j \in 0 .. Len(s) : e[i] < e[j] => i < j
  BY EndsOrdered
<1>2. c \in 0 .. Len(s) /\ e[b] \in Nat /\ e[c] \in Nat /\ e[c] <= Len(S)
  <2>1. c \in 0 .. Len(s) /\ Len(s) \in 0 .. Len(s) /\ c <= Len(s)
    BY <1>1
  <2>2. QED
    BY <1>1, <2>1
<1>3. ASSUME NEW i \in b + 1 .. c PROVE s[i] \in TextItems
  <2>1. i \in 1 .. Len(s) /\ i - 1 \in 0 .. Len(s) /\ i \in 0 .. Len(s) /\ b <= i - 1 /\ i <= c
    BY <1>1
  <2>2. /\ s[i] \in Items /\ e[i] = e[i - 1] + Len(Encode(s[i])) /\ e[i - 1] \in Nat
        /\ \A j \in 1 .. Len(Encode(s[i])) : S[e[i - 1] + j].byte = Encode(s[i])[j]
    <3>1. s \in Seq(Items) /\ Shape(s, S, e) /\ i \in 1 .. Len(s)
      BY <2>1
    <3>2. s[i] \in Items /\ e[i] = e[i - 1] + Len(Encode(s[i])) /\ e[i - 1] \in Nat
      BY ONLY <3>1, InItem
    <3>3. \A j \in 1 .. Len(Encode(s[i])) : S[e[i - 1] + j].byte = Encode(s[i])[j]
      BY ONLY <3>1, InItem, SMTT(30)
    <3>4. QED
      BY <3>2, <3>3
  <2>3. Len(Encode(s[i])) \in Nat \ {0}
    BY <2>2, EncodeType
  <2>4. 1 \in 1 .. Len(Encode(s[i]))
    BY <2>3
  <2>5. e[b] <= e[i - 1] /\ e[i] <= e[c]
    BY <1>1, <1>2, <2>1
  <2>6. e[i - 1] + 1 \in e[b] + 1 .. e[c]
    BY <1>2, <2>2, <2>3, <2>5, SMTT(30)
  <2>7. S[e[i - 1] + 1].byte = Encode(s[i])[1] /\ S[e[i - 1] + 1].byte # "IAC"
    BY <2>2, <2>4, <2>6, Zenon
  <2>8. QED
    BY <2>2, <2>4, <2>7, PlaceInItem
<1>4. ASSUME NEW p \in e[b] + 1 .. e[c] PROVE S[p].byte \in Text
  <2>1. p \in 1 .. Len(S) /\ e[b] < p /\ p <= e[c] /\ p \in Nat
    BY <1>1, <1>2
  <2>2. PICK i, j : Owns(s, S, e, p, i, j)
    BY <2>1, Owner
  <2>3. /\ i \in 1 .. Len(s) /\ j \in 1 .. Len(Encode(s[i]))
        /\ p = e[i - 1] + j /\ S[p].byte = Encode(s[i])[j]
    BY <2>2 DEF Owns
  <2>4. s[i] \in Items /\ e[i] = e[i - 1] + Len(Encode(s[i])) /\ e[i - 1] \in Nat /\ e[i] \in Nat
    BY <2>3, InItem
  <2>5. Len(Encode(s[i])) \in Nat
    BY <2>4, EncodeType
  <2>6. e[b] < e[i] /\ e[i - 1] < e[c]
    <3>1. /\ e[b] \in Nat /\ e[c] \in Nat /\ e[b] < p /\ p <= e[c] /\ p = e[i - 1] + j
          /\ e[i - 1] \in Nat /\ e[i] = e[i - 1] + Len(Encode(s[i])) /\ j \in 1 .. Len(Encode(s[i]))
          /\ Len(Encode(s[i])) \in Nat
      BY <1>2, <2>1, <2>3, <2>4, <2>5
    <3>2. QED
      BY ONLY <3>1, SMTT(30)
  <2>7. i \in 0 .. Len(s) /\ i - 1 \in 0 .. Len(s)
    BY <1>1, <2>3, SMTT(30)
  <2>8. b < i /\ i - 1 < c
    BY <1>1, <1>2, <2>6, <2>7
  <2>9. i \in b + 1 .. c
    BY <1>2, <2>3, <2>8
  <2>10. s[i] \in TextItems
    BY <1>3, <2>9
  <2>11. QED
    BY <2>3, <2>4, <2>10, PlaceInItem
<1>5. QED
  BY <1>3, <1>4

\* The first IAC behind an end begins a negotiation.
LEMMA CommandStarts ==
    ASSUME NEW s \in Seq(Items), NEW S, NEW e, Shape(s, S, e), Plain(s), NEW b \in 0 .. Len(s),
           NEW p \in e[b] + 1 .. Len(S), S[p].byte = "IAC", \A q \in e[b] + 1 .. p - 1 : S[q].byte # "IAC"
    PROVE  \E i \in 1 .. Len(s) : s[i] \in Kinds /\ e[i - 1] = p - 1 /\ S[p + 1].byte \in {"OPT", "SB"} /\ e[i] > p
<1>1. /\ Len(s) \in Nat /\ Len(S) \in Nat
      /\ \A i \in 0 .. Len(s) : e[i] \in Nat
      /\ \A i, j \in 0 .. Len(s) : i <= j => e[i] <= e[j]
      /\ \A i, j \in 0 .. Len(s) : e[i] < e[j] => i < j
  BY EndsOrdered
<1>2. e[b] \in Nat /\ p \in 1 .. Len(S) /\ p \in Nat /\ e[b] < p
  BY <1>1
<1>3. PICK i, j : Owns(s, S, e, p, i, j)
  BY <1>2, Owner
<1>4. /\ i \in 1 .. Len(s) /\ j \in 1 .. Len(Encode(s[i]))
      /\ p = e[i - 1] + j /\ S[p].byte = Encode(s[i])[j]
  BY <1>3 DEF Owns
<1>5. /\ s[i] \in Items /\ e[i] = e[i - 1] + Len(Encode(s[i])) /\ e[i - 1] \in Nat /\ e[i] \in Nat
      /\ \A k \in 1 .. Len(Encode(s[i])) : S[e[i - 1] + k].byte = Encode(s[i])[k]
  BY <1>4, InItem
<1>6. Len(Encode(s[i])) \in Nat \ {0}
  BY <1>5, EncodeType
<1>7. s[i] \in Kinds
  <2>1. s[i] \notin TextItems
    <3>1. Encode(s[i])[j] = "IAC"
      BY <1>4
    <3>2. SUFFICES ASSUME s[i] \in TextItems PROVE FALSE
      OBVIOUS
    <3>3. Encode(s[i])[j] \in Text
      BY <1>4, <1>5, <3>2, PlaceInItem
    <3>4. QED
      BY <3>1, <3>3, NotText
  <2>2. s[i] \notin Undecoded
    BY <1>4 DEF Plain
  <2>3. QED
    BY <1>5, <2>1, <2>2 DEF Items, Kinds, TextItems, Undecoded
<1>8. Encode(s[i])[1] = "IAC" /\ Encode(s[i])[2] \in {"OPT", "SB"} /\ Len(Encode(s[i])) >= 3
  BY <1>5, <1>7, EncodedBytes, SMTT(30) DEF Kinds
<1>9. j = 1
  <2>1. SUFFICES ASSUME j # 1 PROVE FALSE
    OBVIOUS
  <2>2. 1 \in 1 .. Len(Encode(s[i]))
    BY <1>6
  <2>3. S[e[i - 1] + 1].byte = "IAC"
    BY <1>5, <1>8, <2>2, Zenon
  <2>4. e[b] < e[i]
    <3>1. /\ e[b] \in Nat /\ e[i] \in Nat /\ e[i - 1] \in Nat /\ e[b] < p /\ p = e[i - 1] + j
          /\ j \in 1 .. Len(Encode(s[i])) /\ e[i] = e[i - 1] + Len(Encode(s[i]))
          /\ Len(Encode(s[i])) \in Nat
      BY <1>2, <1>4, <1>5, <1>6
    <3>2. QED
      BY ONLY <3>1, SMTT(30)
  <2>5. i \in 0 .. Len(s) /\ i - 1 \in 0 .. Len(s)
    BY <1>1, <1>4, SMTT(30)
  <2>6. b < i
    BY <1>1, <2>4, <2>5
  <2>7. b <= i - 1
    BY <1>1, <1>4, <2>6
  <2>8. e[b] <= e[i - 1]
    BY <1>1, <2>5, <2>7
  <2>9. e[i - 1] + 1 \in e[b] + 1 .. p - 1
    <3>1. j >= 2 /\ j \in Nat
      BY <1>4, <1>6, <2>1
    <3>2. /\ e[b] \in Nat /\ e[i - 1] \in Nat /\ p = e[i - 1] + j /\ p \in Nat
          /\ e[b] <= e[i - 1] /\ j >= 2 /\ j \in Nat
      BY <1>2, <1>4, <1>5, <2>8, <3>1
    <3>3. QED
      BY ONLY <3>2
  <2>10. QED
    BY <2>3, <2>9
<1>10. S[e[i - 1] + 2].byte \in {"OPT", "SB"}
  <2>1. 2 \in 1 .. Len(Encode(s[i]))
    BY <1>6, <1>8
  <2>2. QED
    BY <1>5, <1>8, <2>1, Zenon
<1>11. p + 1 = e[i - 1] + 2 /\ e[i - 1] = p - 1 /\ e[i] > p
  <2>1. /\ e[i] \in Nat /\ e[i - 1] \in Nat /\ p = e[i - 1] + 1
        /\ e[i] = e[i - 1] + Len(Encode(s[i])) /\ Len(Encode(s[i])) >= 3
        /\ Len(Encode(s[i])) \in Nat
    BY <1>4, <1>5, <1>6, <1>8, <1>9
  <2>2. QED
    BY ONLY <2>1, SMTT(30)
<1>12. QED
  BY <1>4, <1>7, <1>10, <1>11

\* Items without a negotiation add no callback.
LEMMA NoNegotiation ==
    ASSUME NEW s \in Seq(Items), NEW b \in 0 .. Len(s), NEW c \in b .. Len(s),
           \A i \in b + 1 .. c : s[i] \in TextItems
    PROVE  Negotiations(SubSeq(s, 1, c)) = Negotiations(SubSeq(s, 1, b))
<1> DEFINE u == SubSeq(s, 1, b)
           v == SubSeq(s, b + 1, c)
           K == {"option", "subneg", "emptysubneg"}
<1>1. u \in Seq(Items)
  BY FrontPart
<1>2. v \in Seq(Items) /\ \A i \in 1 .. Len(v) : v[i] \notin K
  <2>1. b + 1 \in 1 .. Len(s) + 1 /\ c \in (b + 1) - 1 .. Len(s)
    OBVIOUS
  <2>2. /\ v \in Seq(Items) /\ Len(v) = c - (b + 1) + 1
        /\ \A i \in 1 .. c - (b + 1) + 1 : v[i] = s[(b + 1) + i - 1]
    BY <2>1, Part
  <2> HIDE DEF v
  <2>3. ASSUME NEW i \in 1 .. Len(v) PROVE v[i] \notin K
    <3>1. i \in 1 .. c - (b + 1) + 1 /\ (b + 1) + i - 1 \in b + 1 .. c
      BY <2>2
    <3>2. v[i] \in TextItems
      BY <2>2, <3>1
    <3>3. QED
      BY <3>2 DEF TextItems
  <2>4. QED
    BY <2>2, <2>3
<1>3. SubSeq(s, 1, c) = u \o v
  <2>1. 1 \in 1 .. Len(s) + 1 /\ b \in 1 - 1 .. Len(s) /\ c \in b .. Len(s)
    OBVIOUS
  <2>2. QED
    BY <2>1, ConcatAdjacentSubSeq
<1> HIDE DEF u, v, K
<1>4. Keep(u \o v, K) = Keep(u, K) \o Keep(v, K)
  BY <1>1, <1>2, KeepConcat
<1>5. Keep(v, K) = <<>> /\ Keep(u, K) \in Seq(Items)
  BY <1>1, <1>2, KeepNone, KeepType
<1>6. Keep(u \o v, K) = Keep(u, K)
  BY <1>4, <1>5
<1>7. QED
  BY <1>3, <1>6 DEF Negotiations, u, K

LEMMA OneNegotiation ==
    ASSUME NEW s \in Seq(Items), NEW i \in 1 .. Len(s), s[i] \in Kinds
    PROVE  Negotiations(SubSeq(s, 1, i)) = Append(Negotiations(SubSeq(s, 1, i - 1)), s[i])
<1> DEFINE u == SubSeq(s, 1, i - 1)
           w == SubSeq(s, 1, i)
<1>1. u \in Seq(Items) /\ Len(u) = i - 1 /\ \A j \in 1 .. i - 1 : u[j] = s[j]
  <2>1. i - 1 \in 0 .. Len(s)
    OBVIOUS
  <2>2. QED
    BY <2>1, FrontPart
<1>2. w \in Seq(Items) /\ Len(w) = i /\ \A j \in 1 .. i : w[j] = s[j]
  BY FrontPart
<1>3. s[i] \in Items
  OBVIOUS
<1> HIDE DEF u, w
<1>4. w = Append(u, s[i])
  BY <1>1, <1>2, <1>3
<1>5. Keep(Append(u, s[i]), Kinds) = Append(Keep(u, Kinds), s[i])
  BY <1>1, <1>3, KeepAppend
<1>6. QED
  BY <1>4, <1>5 DEF Negotiations, Kinds, u, w

LEMMA RecvKeepsDecode ==
    ASSUME ScanInv, DecodeInv, NEW n \in Nat \ {0}, Recv(n)
    PROVE  DecodeInv'
<1>1. /\ chunk = <<>> /\ Len(chunk') = n /\ pos' = 1
      /\ items' = items /\ events' = events /\ Read' = Read + n
      /\ split' = (split \/ ~All[Read + n].last)
  BY RecvStep DEF ScanInv
<1>2. delivered' = delivered /\ rpc # "scan"
  BY DEF Recv, bufferVars
<1>3. Base + pos - 1 = Read /\ Read \in Nat
  BY <1>2, PlaceIsNat, ReadIsNat DEF ScanInv
<1>4. Base' = Read
  BY <1>1, <1>3 DEF Base
<1>5. Base' + pos' - 1 = Base + pos - 1 /\ pos' - 1 = 0
  BY <1>1, <1>3, <1>4
<1>6. SUFFICES ASSUME ~split', Plain(items')
      PROVE /\ \A i \in 1 .. Len(delivered') : delivered'[i] \in Text
            /\ \A i \in 1 .. pos' - 1 : chunk'[i] \in Text
            /\ \E b \in 0 .. Len(items') : /\ Ends(items')[b] = Base' + pos' - 1
                                           /\ events' = Negotiations(SubSeq(items', 1, b))
  BY DEF DecodeInv, Text
<1>7. ~split /\ Plain(items)
  BY <1>1, <1>6
<1>8. \A i \in 1 .. pos' - 1 : chunk'[i] \in Text
  BY <1>5
<1>9. QED
  BY <1>1, <1>2, <1>5, <1>7, <1>8, Zenon DEF DecodeInv

\* From the scanner's position to the next IAC there is text.
LEMMA DropsKeepsDecode ==
    ASSUME ScanInv, ArrivedInv, DecodeInv, NEW f, NEW g, Drops(f, g), rpc = "scan"
    PROVE  DecodeInv'
<1> DEFINE e == Ends(items)
           k == Base
           c == chunk
           m == Base + pos - 1
<1>1. /\ f = FindIAC(c, pos) /\ f \in pos .. Len(c) - 1 /\ g \in f .. Len(c)
      /\ items' = items /\ split' = split /\ delivered' = delivered
  BY DEF Drops, Found, streamVars, bufferVars
<1>2. /\ Shape(items, All, e) /\ items \in Seq(Items) /\ c \in Seq(Bytes) /\ All \in Seq(Cell)
      /\ Read \in Nat /\ Read <= Len(All) /\ Len(All) \in Nat
  BY ReadIsNat DEF ScanInv, ScanType
<1>3. /\ k \in Nat /\ Len(c) \in Nat /\ pos \in 1 .. Len(c) + 1
      /\ k + Len(c) = Read /\ m \in Nat /\ m = k + pos - 1
  BY PlaceIsNat
<1>4. ScanInv' /\ Read' = Read /\ Len(chunk') = Len(c) - (g - f + 1) /\ \A i \in 1 .. f - 1 : chunk'[i] = c[i]
  BY DropsKeepsScan
<1>5. Base' = k + (g - f + 1)
  <2>1. Base' = Read - Len(chunk')
    BY <1>4 DEF Base
  <2>2. QED
    BY <1>1, <1>3, <1>4, <2>1
<1>6. c[f] = "IAC" /\ \A i \in pos .. f - 1 : c[i] # "IAC"
  <2>1. f # Len(c) + 1
    BY <1>1, <1>3
  <2>2. QED
    BY <1>1, <1>2, <1>3, <2>1, FoundIAC
<1>7. \A i \in pos .. Len(c) : c[i] = All[k + i].byte
  BY DEF ScanInv, ChunkInv
<1>8. SUFFICES ASSUME ~split', Plain(items')
      PROVE /\ \A i \in 1 .. Len(delivered') : delivered'[i] \in Text
            /\ \A i \in 1 .. pos' - 1 : chunk'[i] \in Text
            /\ \E b \in 0 .. Len(items') : /\ Ends(items')[b] = Base' + pos' - 1
                                           /\ events' = Negotiations(SubSeq(items', 1, b))
  BY DEF DecodeInv, Text
<1>9. ~split /\ Plain(items)
  BY <1>1, <1>8
<1>10. /\ \A i \in 1 .. Len(delivered) : delivered[i] \in Text
       /\ \A i \in 1 .. pos - 1 : c[i] \in Text
  BY <1>9 DEF DecodeInv
<1>11. PICK b \in 0 .. Len(items) : e[b] = m /\ events = Negotiations(SubSeq(items, 1, b))
  BY <1>9 DEF DecodeInv
<1>12. arrived \in 0 .. Len(items) /\ Read = e[arrived]
  BY <1>9 DEF ArrivedInv, LastBefore
<1>13. /\ Len(items) \in Nat
       /\ \A i \in 0 .. Len(items) : e[i] \in Nat
       /\ \A i, j \in 0 .. Len(items) : i <= j => e[i] <= e[j]
       /\ \A i, j \in 0 .. Len(items) : e[i] < e[j] => i < j
       /\ \A i, j \in 0 .. Len(items) : i < j => e[i] < e[j]
  BY <1>2, EndsOrdered
<1>14. \/ /\ events' = events
          /\ c[f + 1] \in {"OPT", "SB"} =>
                \E i \in 1 .. Len(items) : e[i - 1] = k + f - 1 /\ (items[i] \in Kinds => e[i] > Read)
       \/ \E i \in 1 .. Len(items) :
             /\ e[i - 1] = k + f - 1 /\ e[i] = k + g
             /\ items[i] \in Kinds /\ events' = Append(events, items[i]) /\ pos' = f
  BY DEF Drops
<1> HIDE DEF e, k, c, m
<1>15. /\ k + f \in m + 1 .. Len(All) /\ f \in pos .. Len(c) /\ f + 1 \in pos .. Len(c)
       /\ k + (f + 1) = (k + f) + 1
       /\ (k + f) - 1 = k + f - 1 /\ k + f < Read
  <2>1. /\ f \in pos .. Len(c) - 1 /\ g \in f .. Len(c) /\ Read \in Nat /\ Read <= Len(All) /\ Len(All) \in Nat
        /\ k \in Nat /\ Len(c) \in Nat /\ pos \in 1 .. Len(c) + 1 /\ k + Len(c) = Read /\ m = k + pos - 1
    BY <1>1, <1>2, <1>3
  <2>2. QED
    BY ONLY <2>1
<1>16. All[k + f].byte = "IAC" /\ c[f + 1] = All[(k + f) + 1].byte
  BY <1>6, <1>7, <1>15
<1>17. \A q \in m + 1 .. (k + f) - 1 : All[q].byte # "IAC" /\ q - k \in pos .. f - 1 /\ k + (q - k) = q
  <2>1. ASSUME NEW q \in m + 1 .. (k + f) - 1
        PROVE  All[q].byte # "IAC" /\ q - k \in pos .. f - 1 /\ k + (q - k) = q
    <3>1. q - k \in pos .. f - 1 /\ q - k \in pos .. Len(c) /\ k + (q - k) = q
      BY <1>1, <1>3, SMTT(30)
    <3>2. c[q - k] = All[k + (q - k)].byte
      BY <1>7, <3>1
    <3>3. QED
      BY <1>6, <3>1, <3>2
  <2>2. QED
    BY <2>1
<1>18. PICK i \in 1 .. Len(items) :
           /\ items[i] \in Kinds /\ e[i - 1] = (k + f) - 1
           /\ All[(k + f) + 1].byte \in {"OPT", "SB"} /\ e[i] > k + f
  <2> DEFINE p == k + f
  <2>1. p \in e[b] + 1 .. Len(All) /\ All[p].byte = "IAC" /\ \A q \in e[b] + 1 .. p - 1 : All[q].byte # "IAC"
    BY <1>11, <1>15, <1>16, <1>17
  <2>2. p + 1 = (k + f) + 1 /\ p - 1 = (k + f) - 1
    OBVIOUS
  <2> HIDE DEF p
  <2>3. \E i \in 1 .. Len(items) :
            items[i] \in Kinds /\ e[i - 1] = p - 1 /\ All[p + 1].byte \in {"OPT", "SB"} /\ e[i] > p
    BY <1>2, <1>9, <1>11, <2>1, CommandStarts
  <2>4. QED
    BY <2>3 DEF p
<1>19. ~ (\E j \in 1 .. Len(items) : e[j - 1] = k + f - 1 /\ (items[j] \in Kinds => e[j] > Read))
  <2>0. SUFFICES ASSUME NEW j \in 1 .. Len(items), e[j - 1] = k + f - 1, items[j] \in Kinds => e[j] > Read
                 PROVE  FALSE
    OBVIOUS
  <2>1. e[j] > Read /\ e[j - 1] = k + f - 1
    <3>1. e[j - 1] = e[i - 1]
      BY <1>15, <1>18, <2>0
    <3>2. j - 1 \in 0 .. Len(items) /\ i - 1 \in 0 .. Len(items) /\ e[i - 1] \in Nat
      BY <1>13
    <3>3. ~(j - 1 < i - 1) /\ ~(i - 1 < j - 1)
      BY <1>13, <3>1, <3>2
    <3>4. j = i
      BY <1>13, <3>3
    <3>5. QED
      BY <1>18, <2>0, <3>4
  <2>2. j - 1 \in 0 .. Len(items) /\ j \in 0 .. Len(items)
    BY <1>13
  <2>3. e[j - 1] < e[arrived]
    BY <1>3, <1>12, <1>15, <2>1
  <2>4. j - 1 < arrived
    BY <1>12, <1>13, <2>2, <2>3
  <2>5. j <= arrived
    BY <1>12, <1>13, <2>4
  <2>6. e[j] <= Read /\ e[j] \in Nat
    BY <1>12, <1>13, <2>2, <2>5
  <2>7. QED
    BY <1>2, <2>1, <2>6
<1>20. PICK j \in 1 .. Len(items) :
             /\ e[j - 1] = k + f - 1 /\ e[j] = k + g
             /\ items[j] \in Kinds /\ events' = Append(events, items[j]) /\ pos' = f
  BY <1>14, <1>16, <1>18, <1>19
<1>21. j - 1 \in b .. Len(items) /\ j - 1 \in 0 .. Len(items)
  <2>1. j - 1 \in 0 .. Len(items) /\ j \in 0 .. Len(items)
    BY <1>13
  <2>2. e[b] < e[j]
    BY <1>1, <1>3, <1>11, <1>13, <1>20, <2>1
  <2>3. b < j
    BY <1>13, <2>1, <2>2
  <2>4. QED
    BY <1>13, <2>1, <2>3
<1>22. /\ \A q \in b + 1 .. j - 1 : items[q] \in TextItems
       /\ \A q \in e[b] + 1 .. e[j - 1] : All[q].byte \in Text
  <2> DEFINE a == j - 1
  <2>1. \A q \in e[b] + 1 .. e[a] : All[q].byte # "IAC"
    BY <1>11, <1>15, <1>17, <1>20
  <2>2. a \in b .. Len(items)
    BY <1>21
  <2> HIDE DEF a
  <2>3. /\ \A q \in b + 1 .. a : items[q] \in TextItems
        /\ \A q \in e[b] + 1 .. e[a] : All[q].byte \in Text
    BY <1>2, <2>1, <2>2, Stretch
  <2>4. QED
    BY <2>3 DEF a
<1>23. ASSUME NEW q \in 1 .. pos' - 1 PROVE chunk'[q] \in Text
  <2>1. q \in 1 .. f - 1 /\ chunk'[q] = c[q]
    BY <1>4, <1>20
  <2>2. CASE q \in 1 .. pos - 1
    BY <1>10, <2>1, <2>2
  <2>3. CASE q \notin 1 .. pos - 1
    <3>1. q \in pos .. Len(c) /\ k + q \in e[b] + 1 .. e[j - 1]
      <4>1. /\ q \in 1 .. f - 1 /\ q \notin 1 .. pos - 1 /\ e[b] = m /\ e[j - 1] = k + f - 1
            /\ f \in pos .. Len(c) - 1 /\ k \in Nat /\ Len(c) \in Nat /\ pos \in 1 .. Len(c) + 1
            /\ m = k + pos - 1
        BY <1>1, <1>3, <1>11, <1>20, <2>1, <2>3
      <4>2. QED
        BY ONLY <4>1
    <3>2. c[q] = All[k + q].byte
      BY <1>7, <3>1
    <3>3. QED
      BY <1>22, <2>1, <3>1, <3>2
  <2>4. QED
    BY <2>2, <2>3
<1>24. events' = Negotiations(SubSeq(items, 1, j))
  <2>1. Negotiations(SubSeq(items, 1, j - 1)) = Negotiations(SubSeq(items, 1, b))
    <3> DEFINE a == j - 1
    <3>1. a \in b .. Len(items) /\ \A q \in b + 1 .. a : items[q] \in TextItems
      BY <1>21, <1>22
    <3> HIDE DEF a
    <3>2. Negotiations(SubSeq(items, 1, a)) = Negotiations(SubSeq(items, 1, b))
      BY <1>2, <3>1, NoNegotiation
    <3>3. QED
      BY <3>2 DEF a
  <2>2. Negotiations(SubSeq(items, 1, j)) = Append(Negotiations(SubSeq(items, 1, j - 1)), items[j])
    BY <1>2, <1>20, OneNegotiation
  <2>3. QED
    BY <1>11, <1>20, <2>1, <2>2, Zenon
<1>25. Ends(items')[j] = Base' + pos' - 1
  <2>1. e[j] = Base' + pos' - 1
    <3>1. /\ e[j] = k + g /\ pos' = f /\ Base' = k + (g - f + 1) /\ k \in Nat /\ Len(c) \in Nat
          /\ f \in pos .. Len(c) - 1 /\ g \in f .. Len(c) /\ pos \in 1 .. Len(c) + 1
      BY <1>1, <1>3, <1>5, <1>20
    <3>2. QED
      BY ONLY <3>1
  <2>2. QED
    BY <1>1, <2>1 DEF e
<1>26. \A q \in 1 .. Len(delivered') : delivered'[q] \in Text
  BY <1>1, <1>10
<1>27. j \in 0 .. Len(items)
  BY <1>13
<1>28. QED
  BY <1>1, <1>23, <1>24, <1>25, <1>26, <1>27

\* An item does not end with IAC.
LEMMA EndIsNoCommand ==
    ASSUME NEW s \in Seq(Items), NEW S, NEW e, Shape(s, S, e), Plain(s), NEW i \in 1 .. Len(s)
    PROVE  S[e[i]].byte # "IAC"
<1> DEFINE n == Len(Encode(s[i]))
<1>1. /\ s[i] \in Items /\ e[i] = e[i - 1] + n
      /\ \A j \in 1 .. n : S[e[i - 1] + j].byte = Encode(s[i])[j]
  BY InItem
<1>2. n \in Nat \ {0} /\ n \in 1 .. n
  BY <1>1, EncodeType
<1>3. S[e[i]].byte = Encode(s[i])[n]
  BY <1>1, <1>2, Zenon
<1>4. s[i] # "escape"
  BY DEF Plain, Undecoded
<1>5. SUFFICES ASSUME Encode(s[i])[n] = "IAC" PROVE FALSE
  BY <1>3
<1>6. n < Len(Encode(s[i]))
  BY <1>1, <1>2, <1>4, <1>5, PlaceInItem
<1>7. QED
  BY <1>2, <1>6

\* on_recv ends: what is left of the chunk is text, since an IAC would be its last byte.
LEMMA AppendKeepsDecode ==
    ASSUME ScanInv, ArrivedInv, BufferType, DecodeInv, AppendChunk
    PROVE  DecodeInv'
<1> DEFINE e == Ends(items)
           k == Base
           c == chunk
           m == Base + pos - 1
           f == Found
           a == arrived
<1>1. /\ rpc = "scan" /\ ~(f < Len(c)) /\ delivered' = delivered \o c /\ pos' = 1 /\ chunk' = <<>>
      /\ items' = items /\ split' = split /\ events' = events /\ arrived' = a
  BY DEF AppendChunk, Scanning, streamVars
<1>2. /\ Shape(items, All, e) /\ items \in Seq(Items) /\ c \in Seq(Bytes) /\ All \in Seq(Cell)
      /\ Read \in Nat /\ Read <= Len(All) /\ Len(All) \in Nat /\ delivered \in Seq(Bytes)
  BY ReadIsNat DEF ScanInv, ScanType, BufferType
<1>3. /\ k \in Nat /\ Len(c) \in Nat /\ pos \in 1 .. Len(c) + 1 /\ k + Len(c) = Read /\ m \in Nat
      /\ m = k + pos - 1
  BY PlaceIsNat
<1>4. Read' = Read
  BY AppendKeepsScan
<1>5. f \in pos .. Len(c) + 1 /\ \A i \in pos .. f - 1 : c[i] # "IAC"
  BY <1>2, <1>3, FoundIAC DEF Found
<1>6. \A i \in pos .. Len(c) : c[i] = All[k + i].byte
  BY DEF ScanInv, ChunkInv
<1>7. SUFFICES ASSUME ~split', Plain(items')
      PROVE /\ \A i \in 1 .. Len(delivered') : delivered'[i] \in Text
            /\ \A i \in 1 .. pos' - 1 : chunk'[i] \in Text
            /\ \E b \in 0 .. Len(items') : /\ Ends(items')[b] = Base' + pos' - 1
                                           /\ events' = Negotiations(SubSeq(items', 1, b))
  BY DEF DecodeInv, Text
<1>8. ~split /\ Plain(items)
  BY <1>1, <1>7
<1>9. /\ \A i \in 1 .. Len(delivered) : delivered[i] \in Text
      /\ \A i \in 1 .. pos - 1 : c[i] \in Text
  BY <1>8 DEF DecodeInv
<1>10. PICK b \in 0 .. Len(items) : e[b] = m /\ events = Negotiations(SubSeq(items, 1, b))
  BY <1>8 DEF DecodeInv
<1>11. a \in 0 .. Len(items) /\ Read = e[a]
  BY <1>8 DEF ArrivedInv, LastBefore
<1>12. Len(items) \in Nat /\ \A i, j \in 0 .. Len(items) : i < j => e[i] < e[j]
  BY <1>2, EndsOrdered
<1> HIDE DEF e, k, c, m, f, a
<1>13. m <= Read /\ a \in b .. Len(items)
  <2>1. m <= Read
    <3>1. pos \in 1 .. Len(c) + 1 /\ k \in Nat /\ Len(c) \in Nat /\ k + Len(c) = Read /\ m = k + pos - 1
      BY <1>3
    <3>2. QED
      BY ONLY <3>1
  <2>2. ~(a < b)
    BY <1>2, <1>3, <1>10, <1>11, <1>12, <2>1
  <2>3. QED
    BY <1>11, <1>12, <2>1, <2>2
<1>14. ASSUME NEW q \in e[b] + 1 .. e[a] PROVE All[q].byte # "IAC"
  <2>1. CASE q = e[a]
    <3>1. a \in 1 .. Len(items)
      <4>1. a # b
        BY <1>3, <1>10, <2>1
      <4>2. QED
        BY <1>11, <1>12, <1>13, <4>1
    <3>2. QED
      BY <1>2, <1>8, <2>1, <3>1, EndIsNoCommand
  <2>2. CASE q # e[a]
    <3>1. q - k \in pos .. f - 1 /\ q - k \in pos .. Len(c) /\ k + (q - k) = q
      <4>1. /\ q \in m + 1 .. Read /\ q # Read /\ k \in Nat /\ Len(c) \in Nat /\ pos \in 1 .. Len(c) + 1
            /\ k + Len(c) = Read /\ m = k + pos - 1 /\ f \in pos .. Len(c) + 1 /\ ~(f < Len(c))
        BY <1>1, <1>3, <1>5, <1>10, <1>11, <2>2
      <4>2. QED
        BY ONLY <4>1
    <3>2. c[q - k] = All[k + (q - k)].byte /\ c[q - k] # "IAC"
      BY <1>5, <1>6, <3>1
    <3>3. QED
      BY <3>1, <3>2
  <2>3. QED
    BY <2>1, <2>2
<1>15. /\ \A q \in b + 1 .. a : items[q] \in TextItems
       /\ \A q \in e[b] + 1 .. e[a] : All[q].byte \in Text
  BY <1>2, <1>13, <1>14, Stretch
<1>16. ASSUME NEW q \in 1 .. Len(c) PROVE c[q] \in Text
  <2>1. CASE q \in 1 .. pos - 1
    BY <1>9, <2>1
  <2>2. CASE q \notin 1 .. pos - 1
    <3>1. q \in pos .. Len(c) /\ k + q \in e[b] + 1 .. e[a]
      <4>1. /\ q \in 1 .. Len(c) /\ q \notin 1 .. pos - 1 /\ e[b] = m /\ e[a] = Read
            /\ k \in Nat /\ Len(c) \in Nat /\ pos \in 1 .. Len(c) + 1 /\ k + Len(c) = Read /\ m = k + pos - 1
        BY <1>3, <1>10, <1>11, <2>2
      <4>2. QED
        BY ONLY <4>1
    <3>2. QED
      BY <1>6, <1>15, <3>1
  <2>3. QED
    BY <2>1, <2>2
<1>17. \A q \in 1 .. Len(delivered') : delivered'[q] \in Text
  <2>1. delivered \in Seq(Text) /\ c \in Seq(Text)
    <3>1. /\ Len(delivered) \in Nat /\ delivered \in [1 .. Len(delivered) -> Text]
          /\ Len(c) \in Nat /\ c \in [1 .. Len(c) -> Text]
      BY <1>2, <1>9, <1>16
    <3>2. QED
      BY <3>1, FunctionIsSeq
  <2>2. delivered \o c \in Seq(Text)
    BY <2>1
  <2>3. QED
    BY <1>1, <2>2
<1>18. events' = Negotiations(SubSeq(items, 1, a))
  <2>1. Negotiations(SubSeq(items, 1, a)) = Negotiations(SubSeq(items, 1, b))
    BY <1>2, <1>13, <1>15, NoNegotiation
  <2>2. QED
    BY <1>1, <1>10, <2>1
<1>19. Ends(items')[a] = Base' + pos' - 1
  <2>1. Base' = Read - Len(chunk') /\ Len(chunk') = 0
    BY <1>1, <1>4 DEF Base
  <2>2. e[a] = Base' + pos' - 1
    BY <1>1, <1>2, <1>11, <2>1
  <2>3. QED
    BY <1>1, <2>2 DEF e
<1>20. \A i \in 1 .. pos' - 1 : chunk'[i] \in Text
  BY <1>1
<1>21. QED
  BY <1>1, <1>11, <1>17, <1>18, <1>19, <1>20

LEMMA StepKeepsDecode ==
    ASSUME ScanInv, AlignInv, ArrivedInv, BufferType, DecodeInv, [Next]_vars
    PROVE  DecodeInv'
<1>1. ASSUME Outside PROVE DecodeInv'
  BY <1>1 DEF Outside, streamVars, scanVars, DecodeInv, Base, Read, All
<1>2. CASE ~(~split' /\ Plain(items'))
  BY <1>2 DEF DecodeInv, Plain
<1>3. CASE ~split' /\ Plain(items')
  <2>1. ArrivedInv'
    BY StepKeepsArrived
  <2>2. Legible'
    BY <1>3, <2>1 DEF Legible, ArrivedInv, Plain, Undecoded
  <2>3. Legible
    BY <2>2, LegibleBefore
  <2>4. QED
    BY <1>1, <2>3, LegibleSteps, RecvKeepsDecode, DropsKeepsDecode, AppendKeepsDecode
<1>4. QED
  BY <1>2, <1>3

LEMMA NothingDecoded ==
    ASSUME Init
    PROVE  DecodeInv
<1>1. ScanInv /\ Read = 0
  BY ScanInitially
<1>2. items \in Seq(Items) /\ Len(items) \in Nat /\ Ends(items)[0] = 0
  BY <1>1, ReadIsNat, EndsOrdered DEF ScanInv, ScanType
<1>3. delivered = <<>> /\ chunk = <<>> /\ pos = 1 /\ events = <<>> /\ rpc # "scan"
  BY DEF Init
<1>4. Base + pos - 1 = 0
  BY <1>1, <1>3, PlaceIsNat
<1>5. SubSeq(items, 1, 0) = <<>>
  BY <1>2
<1>6. Negotiations(<<>>) = <<>>
  BY KeepEmpty DEF Negotiations
<1>7. 0 \in 0 .. Len(items)
  BY <1>2
<1>8. \E b \in 0 .. Len(items) : /\ Ends(items)[b] = Base + pos - 1
                                 /\ events = Negotiations(SubSeq(items, 1, b))
  BY <1>2, <1>3, <1>4, <1>5, <1>6, <1>7
<1>9. \A i \in 1 .. Len(delivered) : delivered[i] \in Text
  BY <1>3
<1>10. \A i \in 1 .. pos - 1 : chunk[i] \in Text
  BY <1>3
<1>11. QED
  BY <1>8, <1>9, <1>10 DEF DecodeInv

\* DecodedUnlessSplit, for any stream of text, also of bytes that look like commands, and
\* of negotiations without a 255 among their parameters: when chunks end where items end,
\* on_recv (telnet/socket.cpp) leaves exactly the text and makes exactly one callback for
\* each negotiation.  (An escaped 255, a command that is no negotiation, and a
\* sub-negotiation with a 255 or without a type are not decoded, however they arrive.)
THEOREM WholeItemsAreDecoded == Spec => []DecodedUnlessSplit
<1>1. Init => DecodeInv
  BY NothingDecoded
<1>2. RecvInv /\ DecodeInv /\ [Next]_vars => DecodeInv'
  BY StepKeepsDecode DEF RecvInv, BufferInv
<1>3. RecvInv /\ NeitherEatenNorForged /\ DecodeInv => DecodedUnlessSplit
  <2>1. SUFFICES ASSUME RecvInv, NeitherEatenNorForged, DecodeInv, rpc # "scan", ~split,
                        ToSet(items) \cap Undecoded = {}
        PROVE  delivered = TextOf(Sent(Arrived)) /\ events = Negotiations(Arrived)
    BY DEF DecodedUnlessSplit
  <2>2. ScanInv /\ ArrivedInv /\ BufferType
    BY <2>1 DEF RecvInv, BufferInv
  <2>3. /\ Shape(items, All, Ends(items)) /\ items \in Seq(Items) /\ delivered \in Seq(Bytes)
        /\ arrived \in 0 .. Len(items) /\ Read = Ends(items)[arrived] /\ Base + pos - 1 = Read
    BY <2>1, <2>2, ReadIsNat, PlaceIsNat DEF ScanInv, ScanType, ArrivedInv, LastBefore, BufferType
  <2>4. Plain(items)
    <3>1. DOMAIN items = 1 .. Len(items)
      BY <2>3
    <3>2. \A i \in 1 .. Len(items) : items[i] \in ToSet(items)
      BY <3>1, Zenon DEF ToSet
    <3>3. QED
      BY <2>1, <3>2 DEF Plain
  <2>5. \A i \in 1 .. Len(delivered) : delivered[i] \in Text
    BY <2>1, <2>4 DEF DecodeInv
  <2>6. delivered = TextOf(Sent(Arrived))
    <3>1. TextOf(delivered) = delivered
      BY <2>3, <2>5, KeepAll DEF TextOf
    <3>2. ~cut /\ "notypesubneg" \notin ToSet(items)
      BY <2>1, <2>2 DEF ArrivedInv, Undecoded
    <3>3. QED
      BY <2>1, <3>1, <3>2 DEF NeitherEatenNorForged
  <2>7. PICK b \in 0 .. Len(items) : /\ Ends(items)[b] = Base + pos - 1
                                     /\ events = Negotiations(SubSeq(items, 1, b))
    BY <2>1, <2>4 DEF DecodeInv
  <2>8. b = arrived
    <3>1. /\ Len(items) \in Nat /\ \A i \in 0 .. Len(items) : Ends(items)[i] \in Nat
          /\ \A i, j \in 0 .. Len(items) : i < j => Ends(items)[i] < Ends(items)[j]
      BY <2>3, EndsOrdered
    <3>2. ~(b < arrived) /\ ~(arrived < b)
      BY <2>3, <2>7, <3>1
    <3>3. QED
      BY <2>3, <2>7, <3>1, <3>2
  <2>9. QED
    BY <2>6, <2>7, <2>8 DEF Arrived
<1>4. QED
  BY <1>1, <1>2, <1>3, RecvAlways, TextAndCallbacksAreSent, PTL DEF Spec

=============================================================================
