-------------------------- MODULE HttpClientProofs --------------------------
(***************************************************************************)
(* Proofs about HttpClient, for every set of uris and any number of        *)
(* requests, lines and settings.                                           *)
(***************************************************************************)
EXTENDS HttpClient, DataLemmas, FiniteSetTheorems, SequenceTheorems, TLAPS

-----------------------------------------------------------------------------
(***************************************************************************)
(* The members: what client, answer and response_ look like.               *)
(***************************************************************************)

Clients == [uri : Uris, headers : SUBSET HeaderNames]

\* The lines of request r of some kinds, as the server writes them.
LinesOf(r, kinds) == {l \in Lines : l.req = r /\ l.kind \in kinds /\ l.end}

Answers(r) == {a \in [status : Seq(LinesOf(r, StatusKinds)), headers : Seq(LinesOf(r, HeaderKinds)),
                      body : Seq(LinesOf(r, BodyKinds))] : Len(a.status) = 1}

FieldMaps == UNION {[D -> {l \in Lines : l.kind \in HeaderKinds}] : D \in SUBSET {"a", "b"}}
Responses == [value : Seq(Lines), code : 0 .. MaxRequests, version : 0 .. MaxRequests,
              headers : FieldMaps, content : Seq(Lines)]

\* The client keeps its members' types.
ClientInv == impl \in Impls /\ client \in Clients

\* A request that is not at the network has no answer, the answer is one of this
\* request, and so is every line of it that has arrived.
WireInv ==
    /\ pc \in {"idle", "connect", "write", "read", "init", "options", "append", "headers",
              "perform", "parse"}
    /\ req \in 0 .. MaxRequests /\ lines \in Nat
    /\ pc # "idle" => req # 0
    /\ answer = NoAnswer \/ answer \in Answers(req)
    /\ pc \notin {"read", "perform", "parse"} => answer = NoAnswer
    /\ pc \notin {"perform", "parse"} => value = <<>> /\ at = 0
    /\ value \in Seq(Lines) /\ \A i \in DOMAIN value : value[i].req = req
    /\ at \in 0 .. Len(Stream(answer))

\* What curl::request holds: the handle, and the list if there is one.
Held == (IF pc \in {"options", "append", "headers", "perform"} THEN 1 ELSE 0) + (IF list THEN 1 ELSE 0)

\* What exists besides was lost by the calls that failed, a handle and a list at most by each.
Counted == handles \in Nat /\ failed \in Nat /\ Held <= handles /\ handles <= Held + 2 * failed
HandleInv ==
    /\ todo \subseteq HeaderNames /\ list \in BOOLEAN
    /\ list => pc \in {"append", "headers", "perform"}
    /\ Counted

\* response_ has its types and is of one request.
ResponseInv == response \in Responses /\ ResponseOfOneRequest

\* The head of an answer: the status line, the headers and the empty line.
HeadLen(a) == Len(a.headers) + 2

\* The head arrives unchanged: curl drops lines behind it only, and what recv() cuts is
\* the last line.
HeadInv ==
    /\ pc = "perform" =>
          /\ Len(value) <= at
          /\ at <= HeadLen(answer) => Len(value) = at
          /\ at >= HeadLen(answer) => Len(value) >= HeadLen(answer)
          /\ \A i \in 1 .. Len(value) : i <= HeadLen(answer) => value[i] = Stream(answer)[i]
    /\ pc = "parse" =>
          \A i \in 1 .. Len(value) :
             i <= HeadLen(answer)
                => value[i] = Stream(answer)[i] \/ (i = Len(value) /\ value[i].end = FALSE)

\* response_ was parsed from an answer of the server, if it was.
OriginInv == origin = NoAnswer \/ \E r \in 1 .. MaxRequests : origin \in Answers(r)

-----------------------------------------------------------------------------
(***************************************************************************)
(* The operators: an answer as lines, and what parse takes out of lines.   *)
(***************************************************************************)

\* Before the server has answered there are no lines.
LEMMA NoStream == Stream(NoAnswer) = <<>>
BY DEF Stream, NoAnswer

\* The lines of an answer, one after the other.
LEMMA StreamFacts ==
    ASSUME NEW r \in 1 .. MaxRequests, NEW a \in Answers(r)
    PROVE  /\ Stream(a) \in Seq(LinesOf(r, Kinds))
           /\ Len(Stream(a)) = HeadLen(a) + Len(a.body)
           /\ Stream(a)[1] = a.status[1]
           /\ \A i \in 1 .. Len(a.headers) : Stream(a)[i + 1] = a.headers[i]
           /\ Stream(a)[HeadLen(a)] = LineOf(r, 0, "blank")
           /\ \A i \in 1 .. Len(a.body) : Stream(a)[HeadLen(a) + i] = a.body[i]
<1> DEFINE S == LinesOf(r, Kinds)
           st == a.status
           hs == a.headers
           bs == a.body
           blank == LineOf(r, 0, "blank")
           head == st \o hs
           full == head \o <<blank>>
<1>1. /\ st \in Seq(LinesOf(r, StatusKinds)) /\ Len(st) = 1
      /\ hs \in Seq(LinesOf(r, HeaderKinds)) /\ bs \in Seq(LinesOf(r, BodyKinds))
  BY DEF Answers
<1>2. /\ LinesOf(r, StatusKinds) \subseteq S /\ LinesOf(r, HeaderKinds) \subseteq S
      /\ LinesOf(r, BodyKinds) \subseteq S
  BY DEF LinesOf, Kinds
<1>3. blank \in S
  BY DEF LinesOf, LineOf, Lines, Kinds
<1> HIDE DEF S, st, hs, bs, blank
<1>4. st \in Seq(S) /\ hs \in Seq(S) /\ bs \in Seq(S)
  BY <1>1, <1>2
<1>5. st # <<>> /\ st[1] \in LinesOf(r, StatusKinds)
  BY <1>1
<1>6. st[1].req = r
  BY <1>5 DEF LinesOf
<1>7. Stream(a) = full \o bs
  BY <1>5, <1>6 DEF Stream, st, hs, bs, blank
<1>8. /\ head \in Seq(S) /\ Len(head) = Len(hs) + 1
      /\ head[1] = st[1]
      /\ \A i \in 1 .. Len(hs) : head[i + 1] = hs[i]
  <2>1. /\ head \in Seq(S) /\ Len(head) = Len(st) + Len(hs)
        /\ \A i \in 1 .. Len(st) : head[i] = st[i]
        /\ \A i \in 1 .. Len(hs) : head[Len(st) + i] = hs[i]
    BY <1>4, Joined
  <2> HIDE DEF head
  <2>2. QED
    BY <1>1, <2>1
<1> HIDE DEF head
<1>9. /\ full \in Seq(S) /\ Len(full) = Len(hs) + 2
      /\ full[Len(hs) + 2] = blank
      /\ \A i \in 1 .. Len(hs) + 1 : full[i] = head[i]
  BY <1>1, <1>3, <1>8
<1> HIDE DEF full
<1>10. /\ Stream(a) \in Seq(S) /\ Len(Stream(a)) = Len(full) + Len(bs)
       /\ \A i \in 1 .. Len(full) : Stream(a)[i] = full[i]
       /\ \A i \in 1 .. Len(bs) : Stream(a)[Len(full) + i] = bs[i]
  <2>1. /\ full \o bs \in Seq(S) /\ Len(full \o bs) = Len(full) + Len(bs)
        /\ \A i \in 1 .. Len(full) : (full \o bs)[i] = full[i]
        /\ \A i \in 1 .. Len(bs) : (full \o bs)[Len(full) + i] = bs[i]
    <3>1. full \in Seq(S) /\ bs \in Seq(S)
      BY <1>4, <1>9
    <3>2. QED
      BY ONLY <3>1, Joined
  <2>2. QED
    BY <1>7, <2>1
<1>11. HeadLen(a) = Len(full) /\ Len(hs) \in Nat /\ Len(bs) \in Nat
  BY <1>1, <1>9 DEF HeadLen, hs
<1>12. /\ Stream(a)[1] = st[1]
       /\ \A i \in 1 .. Len(hs) : Stream(a)[i + 1] = hs[i]
  BY <1>8, <1>9, <1>10, <1>11
<1>13. QED
  <2>1. Stream(a)[HeadLen(a)] = blank
    BY <1>9, <1>10, <1>11
  <2>2. \A i \in 1 .. Len(bs) : Stream(a)[HeadLen(a) + i] = bs[i]
    BY <1>10, <1>11
  <2>3. QED
    BY <1>10, <1>11, <1>12, <2>1, <2>2 DEF S, st, hs, bs, blank

\* The loop of parse ends at a line of the text.
LEMMA LoopEndFacts ==
    ASSUME NEW v \in Seq(Lines), v # <<>>
    PROVE  /\ LoopEnd(v) \in 1 .. Len(v)
           /\ Bare(v) # {} => Min(Bare(v)) \in 2 .. Len(v)
<1> DEFINE ends == Ended(v) \cup {1}
           blanks == {i \in Ended(v) : v[i].kind = "blank"}
<1>1. ends \in SUBSET Nat /\ ends # {} /\ \A y \in ends : y \in 1 .. Len(v)
  BY DEF Ended
<1>2. Max(ends) \in ends /\ \A y \in ends : Max(ends) >= y
  <2>1. Len(v) \in Nat /\ \A y \in ends : y <= Len(v)
    BY <1>1
  <2> HIDE DEF ends
  <2>2. QED
    BY <1>1, <2>1, MaxNat
<1>3. blanks \cup {Max(ends)} \in SUBSET Nat
  BY <1>1, <1>2
<1>4. LoopEnd(v) \in blanks \cup {Max(ends)}
  BY <1>3, MinNat DEF LoopEnd
<1>5. LoopEnd(v) \in 1 .. Len(v)
  BY <1>1, <1>2, <1>4
<1>6. Bare(v) # {} => Min(Bare(v)) \in Bare(v)
  <2>1. Bare(v) \in SUBSET Nat
    BY <1>5 DEF Bare
  <2>2. QED
    BY <2>1, MinNat
<1>7. Bare(v) \subseteq 2 .. Len(v)
  BY <1>5 DEF Bare
<1>8. QED
  BY <1>5, <1>6, <1>7

\* A header map has the keys of its lines, each with the last line of the key.
LEMMA HeaderMapFacts ==
    ASSUME NEW ls \in Seq(Lines)
    PROVE  /\ HeaderMap(ls) \in FieldMaps
           /\ \A k \in DOMAIN HeaderMap(ls) : \E i \in DOMAIN ls : HeaderMap(ls)[k] = ls[i]
           /\ \A k \in {"a", "b"} :
                LET of == {i \in DOMAIN ls : KeyOf(ls[i]) = k}
                IN  /\ k \in DOMAIN HeaderMap(ls) <=> of # {}
                    /\ \A i \in of : (\A j \in of : j <= i) => HeaderMap(ls)[k] = ls[i]
<1> DEFINE kinds == {ls[i].kind : i \in DOMAIN ls}
           of(k) == {i \in DOMAIN ls : KeyOf(ls[i]) = k}
<1>1. DOMAIN HeaderMap(ls) = Keys(kinds)
  BY DEF HeaderMap
<1>2. \A k \in Keys(kinds) : HeaderMap(ls)[k] = ls[Max(of(k))]
  BY DEF HeaderMap
<1>3. Keys(kinds) \subseteq {"a", "b"}
  BY DEF Keys
<1>4. ASSUME NEW k \in {"a", "b"} PROVE k \in Keys(kinds) <=> of(k) # {}
  BY <1>4 DEF Keys, KeyOf
<1>5. ASSUME NEW k \in {"a", "b"}, of(k) # {}
      PROVE  Max(of(k)) \in of(k) /\ \A j \in of(k) : Max(of(k)) >= j
  <2>1. of(k) \in SUBSET Nat /\ Len(ls) \in Nat /\ \A j \in of(k) : j <= Len(ls)
    OBVIOUS
  <2> HIDE DEF of
  <2>2. QED
    BY <1>5, <2>1, MaxNat
<1>6. ASSUME NEW k \in Keys(kinds)
      PROVE  HeaderMap(ls)[k] \in {l \in Lines : l.kind \in HeaderKinds}
  <2>1. Max(of(k)) \in of(k)
    BY <1>3, <1>4, <1>5
  <2>2. KeyOf(ls[Max(of(k))]) = k /\ ls[Max(of(k))] \in Lines
    BY <2>1
  <2>3. ls[Max(of(k))].kind \in HeaderKinds
    BY <1>3, <2>2 DEF KeyOf, HeaderKinds
  <2>4. QED
    BY <1>2, <2>2, <2>3
<1>7. HeaderMap(ls) \in FieldMaps
  <2>1. HeaderMap(ls) \in [Keys(kinds) -> {l \in Lines : l.kind \in HeaderKinds}]
    BY <1>6 DEF HeaderMap
  <2>2. QED
    BY <1>3, <2>1 DEF FieldMaps
<1>8. ASSUME NEW k \in DOMAIN HeaderMap(ls)
      PROVE  \E i \in DOMAIN ls : HeaderMap(ls)[k] = ls[i]
  <2>1. Max(of(k)) \in DOMAIN ls
    BY <1>1, <1>3, <1>4, <1>5
  <2>2. QED
    BY <1>1, <1>2, <2>1
<1>9. ASSUME NEW k \in {"a", "b"}, NEW i \in of(k), \A j \in of(k) : j <= i
      PROVE  HeaderMap(ls)[k] = ls[i]
  <2>1. Max(of(k)) = i
    <3>1. Max(of(k)) \in of(k) /\ Max(of(k)) >= i
      BY <1>5, <1>9
    <3>2. QED
      BY <1>9, <3>1
  <2>2. QED
    BY <1>2, <1>4, <1>9, <2>1
<1>10. QED
  BY <1>1, <1>4, <1>7, <1>8, <1>9

\* parse makes a response of the text it is given and of nothing else, except the version.
LEMMA ParsedFacts ==
    ASSUME NEW old \in Responses, NEW v \in Seq(Lines)
    PROVE  /\ Parsed(old, v) \in Responses
           /\ Parsed(old, v).value = v
           /\ Parsed(old, v).code # 0 => v # <<>> /\ Parsed(old, v).code = v[1].req
           /\ \A k \in DOMAIN Parsed(old, v).headers :
                 \E i \in DOMAIN v : Parsed(old, v).headers[k] = v[i]
           /\ \A j \in DOMAIN Parsed(old, v).content :
                 \E i \in DOMAIN v : Parsed(old, v).content[j] = v[i]
<1> DEFINE made(code, version, headers, content) ==
             [value |-> v, code |-> code, version |-> version, headers |-> headers, content |-> content]
           none == <<>>
<1>1. old.version \in 0 .. MaxRequests /\ 0 \in 0 .. MaxRequests
  BY HttpAssumption DEF Responses
<1>2. none \in FieldMaps
  <2>1. none \in [{} -> {l \in Lines : l.kind \in HeaderKinds}]
    OBVIOUS
  <2>2. QED
    BY <2>1 DEF FieldMaps
<1>3. CASE v = <<>> \/ ~v[1].end \/ v[1].kind = "other"
  <2>1. Parsed(old, v) = made(0, old.version, none, v)
    BY <1>3 DEF Parsed, NoResponse
  <2>2. QED
    BY <1>1, <1>2, <2>1 DEF Responses
<1>4. CASE ~(v = <<>> \/ ~v[1].end \/ v[1].kind = "other")
  <2>1. v # <<>> /\ v[1] \in Lines
    BY <1>4
  <2>2. v[1].req \in 0 .. MaxRequests
    BY <2>1, HttpAssumption DEF Lines
  <2>3. CASE v[1].kind = "noreason"
    <3>1. Parsed(old, v) = made(v[1].req, old.version, none, v)
      BY <1>4, <2>3 DEF Parsed, NoResponse
    <3>2. QED
      BY <1>1, <1>2, <2>1, <2>2, <3>1 DEF Responses
  <2>4. CASE v[1].kind # "noreason" /\ Bare(v) # {}
    <3> DEFINE ls == SubSeq(v, 2, Min(Bare(v)) - 1)
    <3>1. Parsed(old, v) = made(v[1].req, v[1].req, HeaderMap(ls), none)
      BY <1>4, <2>4 DEF Parsed, NoResponse
    <3>2. Min(Bare(v)) \in 2 .. Len(v)
      BY <2>1, <2>4, LoopEndFacts
    <3>3. /\ ls \in Seq(Lines)
          /\ \A i \in DOMAIN ls : ls[i] = v[i + 1] /\ i + 1 \in DOMAIN v
      <4>1. 2 \in 1 .. Len(v) + 1 /\ Min(Bare(v)) - 1 \in 2 - 1 .. Len(v)
        BY <3>2
      <4>2. QED
        BY <4>1, Part
    <3> HIDE DEF ls
    <3>4. /\ HeaderMap(ls) \in FieldMaps
          /\ \A k \in DOMAIN HeaderMap(ls) : \E i \in DOMAIN v : HeaderMap(ls)[k] = v[i]
      BY <3>3, HeaderMapFacts
    <3>5. QED
      BY <2>1, <2>2, <3>1, <3>4 DEF Responses
  <2>5. CASE v[1].kind # "noreason" /\ Bare(v) = {}
    <3> DEFINE ls == SubSeq(v, 2, LoopEnd(v))
               rest == SubSeq(v, LoopEnd(v) + 1, Len(v))
    <3>1. Parsed(old, v) = made(v[1].req, v[1].req, HeaderMap(ls), rest)
      BY <1>4, <2>5 DEF Parsed, NoResponse
    <3>2. LoopEnd(v) \in 1 .. Len(v)
      BY <2>1, LoopEndFacts
    <3>3. /\ ls \in Seq(Lines)
          /\ \A i \in DOMAIN ls : ls[i] = v[i + 1] /\ i + 1 \in DOMAIN v
      <4>1. 2 \in 1 .. Len(v) + 1 /\ LoopEnd(v) \in 2 - 1 .. Len(v)
        BY <3>2
      <4>2. QED
        BY <4>1, Part
    <3>4. /\ rest \in Seq(Lines)
          /\ \A i \in DOMAIN rest : rest[i] = v[LoopEnd(v) + i] /\ LoopEnd(v) + i \in DOMAIN v
      <4>1. LoopEnd(v) + 1 \in 1 .. Len(v) + 1 /\ Len(v) \in (LoopEnd(v) + 1) - 1 .. Len(v)
        BY <3>2
      <4>2. QED
        BY <3>2, <4>1, Part
    <3> HIDE DEF ls, rest
    <3>5. /\ HeaderMap(ls) \in FieldMaps
          /\ \A k \in DOMAIN HeaderMap(ls) : \E i \in DOMAIN v : HeaderMap(ls)[k] = v[i]
      BY <3>3, HeaderMapFacts
    <3>6. QED
      BY <2>1, <2>2, <3>1, <3>4, <3>5 DEF Responses
  <2>6. QED
    BY <2>3, <2>4, <2>5
<1>5. QED
  BY <1>3, <1>4

\* The loop of parse ends where the head does, once the head has arrived.
LEMMA LoopEndIsHead ==
    ASSUME NEW r \in 1 .. MaxRequests, NEW a \in Answers(r), NEW v \in Seq(Lines),
           Len(v) >= HeadLen(a), \A i \in 1 .. HeadLen(a) : v[i] = Stream(a)[i]
    PROVE  LoopEnd(v) = HeadLen(a)
<1> DEFINE h == HeadLen(a)
           hs == a.headers
           str == Stream(a)
           ends == Ended(v) \cup {1}
           blanks == {i \in Ended(v) : v[i].kind = "blank"}
<1>1. /\ hs \in Seq(LinesOf(r, HeaderKinds)) /\ h = Len(hs) + 2
      /\ h <= Len(v) /\ \A i \in 1 .. h : v[i] = str[i]
      /\ \A i \in 1 .. Len(hs) : str[i + 1] = hs[i]
      /\ str[h] = LineOf(r, 0, "blank")
  BY StreamFacts DEF HeadLen, Answers
<1> HIDE DEF h, hs, str
<1>2. h \in Nat /\ Len(hs) \in Nat /\ h >= 2 /\ Len(v) \in Nat
  BY <1>1
<1>3. \A i \in 1 .. Len(hs) : v[i + 1].kind \in HeaderKinds
  <2>1. \A i \in 1 .. Len(hs) : hs[i] \in LinesOf(r, HeaderKinds)
    BY <1>1
  <2>2. \A i \in 1 .. Len(hs) : v[i + 1] = hs[i]
    BY <1>1, <1>2
  <2>3. QED
    BY <2>1, <2>2 DEF LinesOf
<1>4. h \in blanks
  <2>1. v[h] = LineOf(r, 0, "blank")
    BY <1>1, <1>2
  <2>2. QED
    BY <1>1, <1>2, <2>1 DEF LineOf, Ended
<1>5. \A i \in blanks : i >= h
  <2>1. SUFFICES ASSUME NEW i \in blanks, i < h PROVE FALSE
    BY <1>2 DEF Ended
  <2>2. i \in 2 .. h - 1 /\ v[i].kind = "blank"
    BY <1>2, <2>1 DEF Ended
  <2>3. i - 1 \in 1 .. Len(hs) /\ (i - 1) + 1 = i
    BY <1>1, <1>2, <2>2
  <2>4. QED
    BY <1>3, <2>2, <2>3 DEF HeaderKinds
<1>6. Max(ends) \in Nat /\ Max(ends) >= h
  <2>1. /\ ends \in SUBSET Nat /\ ends # {} /\ \A y \in ends : y <= Len(v)
        /\ h \in ends
    BY <1>2, <1>4 DEF Ended
  <2> HIDE DEF ends
  <2>2. Max(ends) \in ends /\ \A y \in ends : Max(ends) >= y
    BY <1>2, <2>1, MaxNat
  <2>3. QED
    BY <2>1, <2>2
<1>7. LoopEnd(v) \in blanks \cup {Max(ends)} /\ LoopEnd(v) <= h
  <2> DEFINE T == blanks \cup {Max(ends)}
  <2>1. LoopEnd(v) = Min(T)
    BY DEF LoopEnd
  <2>2. blanks \subseteq Nat
    BY <1>2 DEF Ended
  <2> HIDE DEF ends, blanks
  <2>3. T \in SUBSET Nat /\ h \in T
    BY <1>4, <1>6, <2>2
  <2> HIDE DEF T
  <2>4. Min(T) \in T /\ \A y \in T : Min(T) <= y
    BY <2>3, MinNat
  <2>5. LoopEnd(v) \in T /\ LoopEnd(v) <= h
    BY <2>1, <2>3, <2>4
  <2>6. QED
    BY <2>5 DEF T
<1>8. LoopEnd(v) \in Int
  BY <1>6, <1>7 DEF Ended
<1>9. LoopEnd(v) = h
  <2> HIDE DEF ends, blanks
  <2>1. LoopEnd(v) >= h
    BY <1>5, <1>6, <1>7
  <2>2. QED
    BY <1>2, <1>7, <1>8, <2>1
<1>10. QED
  BY <1>9 DEF h

\* Once the head has arrived, parse finds the server's headers and content.
LEMMA HeadParsed ==
    ASSUME NEW r \in 1 .. MaxRequests, NEW a \in Answers(r), NEW old \in Responses,
           NEW v \in Seq(Lines), Len(v) >= HeadLen(a),
           \A i \in 1 .. HeadLen(a) : v[i] = Stream(a)[i],
           a.status[1].kind = "status", \A i \in DOMAIN a.headers : a.headers[i].kind # "bare"
    PROVE  /\ Parsed(old, v).code = v[1].req
           /\ \A k \in {"a", "b"} :
                LET of == {i \in DOMAIN a.headers : KeyOf(a.headers[i]) = k}
                IN  /\ k \in DOMAIN Parsed(old, v).headers <=> of # {}
                    /\ \A i \in of : (\A j \in of : j <= i)
                                        => Parsed(old, v).headers[k] = a.headers[i]
           /\ v = Stream(a) => Parsed(old, v).content = a.body
           /\ Len(Parsed(old, v).content) = Len(v) - HeadLen(a)
<1> DEFINE h == HeadLen(a)
           hs == a.headers
           bs == a.body
           str == Stream(a)
           ls == SubSeq(v, 2, h)
           rest == SubSeq(v, h + 1, Len(v))
<1>1. /\ hs \in Seq(LinesOf(r, HeaderKinds)) /\ bs \in Seq(LinesOf(r, BodyKinds))
      /\ h = Len(hs) + 2 /\ h <= Len(v) /\ \A i \in 1 .. h : v[i] = str[i]
      /\ \A i \in DOMAIN hs : hs[i].kind # "bare"
      /\ str \in Seq(LinesOf(r, Kinds)) /\ str[1].kind = "status"
      /\ \A i \in 1 .. Len(hs) : str[i + 1] = hs[i]
      /\ str[h] = LineOf(r, 0, "blank") /\ Len(str) = h + Len(bs)
      /\ \A i \in 1 .. Len(bs) : str[h + i] = bs[i]
  BY StreamFacts DEF HeadLen, Answers
<1>2. LoopEnd(v) = h
  BY LoopEndIsHead
<1> HIDE DEF h, hs, bs, str
<1>3. h \in Nat /\ Len(hs) \in Nat /\ h >= 2 /\ Len(v) \in Nat /\ Len(bs) \in Nat
  BY <1>1
<1>4. v[1].end /\ v[1].kind = "status" /\ v # <<>>
  <2>1. str[1] \in LinesOf(r, Kinds)
    BY <1>1, <1>3
  <2>2. QED
    BY <1>1, <1>3, <2>1 DEF LinesOf
<1>5. ASSUME NEW i \in 1 .. Len(hs) PROVE v[i + 1] = hs[i]
  <2>1. i + 1 \in 1 .. h
    BY <1>1, <1>3
  <2>2. QED
    BY <1>1, <2>1
<1>6. Bare(v) = {}
  <2>1. SUFFICES ASSUME NEW i \in 2 .. h, v[i].kind = "bare" PROVE FALSE
    BY <1>2 DEF Bare
  <2>2. CASE i = h
    BY <1>1, <1>3, <2>1, <2>2 DEF LineOf
  <2>3. CASE i # h
    <3>1. i - 1 \in 1 .. Len(hs) /\ (i - 1) + 1 = i
      BY <1>1, <1>3, <2>1, <2>3
    <3>2. v[(i - 1) + 1] = hs[i - 1] /\ i - 1 \in DOMAIN hs
      BY <1>1, <1>5, <3>1
    <3>3. QED
      BY <1>1, <2>1, <3>1, <3>2
  <2>4. QED
    BY <2>2, <2>3
<1>7. /\ Parsed(old, v).code = v[1].req
      /\ Parsed(old, v).headers = HeaderMap(ls)
      /\ Parsed(old, v).content = rest
  BY <1>2, <1>4, <1>6 DEF Parsed, NoResponse
<1>8. /\ ls \in Seq(Lines) /\ Len(ls) = Len(hs) + 1
      /\ \A i \in 1 .. Len(hs) : ls[i] = hs[i]
      /\ ls[Len(hs) + 1] = LineOf(r, 0, "blank")
  <2>1. 2 \in 1 .. Len(v) + 1 /\ h \in 2 - 1 .. Len(v) /\ h - 2 + 1 = Len(hs) + 1
    BY <1>1, <1>3
  <2>2. /\ ls \in Seq(Lines) /\ Len(ls) = Len(hs) + 1
        /\ \A i \in 1 .. Len(hs) + 1 : ls[i] = v[i + 1]
    BY <2>1, Part
  <2> HIDE DEF ls
  <2>3. v[h] = LineOf(r, 0, "blank")
    BY <1>1, <1>3
  <2>4. h = (Len(hs) + 1) + 1
    BY <1>1, <1>3
  <2>5. ASSUME NEW i \in 1 .. Len(hs) PROVE ls[i] = hs[i]
    BY <1>3, <1>5, <2>2
  <2>6. ls[Len(hs) + 1] = LineOf(r, 0, "blank")
    BY <1>3, <2>2, <2>3, <2>4
  <2>7. QED
    BY <2>2, <2>5, <2>6
<1>9. /\ rest \in Seq(Lines) /\ Len(rest) = Len(v) - h
      /\ \A i \in 1 .. Len(v) - h : rest[i] = v[h + i]
  <2>1. /\ h + 1 \in 1 .. Len(v) + 1 /\ Len(v) \in (h + 1) - 1 .. Len(v)
        /\ Len(v) - (h + 1) + 1 = Len(v) - h
    BY <1>1, <1>3
  <2>2. /\ rest \in Seq(Lines) /\ Len(rest) = Len(v) - h
        /\ \A i \in 1 .. Len(v) - h : rest[i] = v[h + 1 + i - 1]
    BY <2>1, Part
  <2> HIDE DEF rest
  <2>3. ASSUME NEW i \in 1 .. Len(v) - h PROVE h + 1 + i - 1 = h + i
    BY <1>3
  <2>4. QED
    BY <2>2, <2>3
<1> HIDE DEF ls, rest
<1>10. ASSUME NEW k \in {"a", "b"}
       PROVE  LET of == {i \in DOMAIN hs : KeyOf(hs[i]) = k}
              IN  /\ k \in DOMAIN HeaderMap(ls) <=> of # {}
                  /\ \A i \in of : (\A j \in of : j <= i) => HeaderMap(ls)[k] = hs[i]
  <2> DEFINE of == {i \in DOMAIN hs : KeyOf(hs[i]) = k}
             ofls == {i \in DOMAIN ls : KeyOf(ls[i]) = k}
  <2>1. KeyOf(ls[Len(hs) + 1]) # k
    BY <1>8 DEF KeyOf, LineOf
  <2>2. of = ofls
    <3>1. DOMAIN hs = 1 .. Len(hs) /\ DOMAIN ls = 1 .. Len(hs) + 1
      BY <1>1, <1>3, <1>8
    <3>2. QED
      BY <1>3, <1>8, <2>1, <3>1
  <2>3. /\ k \in DOMAIN HeaderMap(ls) <=> ofls # {}
        /\ \A i \in ofls : (\A j \in ofls : j <= i) => HeaderMap(ls)[k] = ls[i]
    BY <1>8, HeaderMapFacts
  <2>4. ASSUME NEW i \in of PROVE ls[i] = hs[i]
    <3>1. i \in 1 .. Len(hs)
      BY <1>1
    <3>2. QED
      BY <1>8, <3>1
  <2>5. QED
    BY <2>2, <2>3, <2>4
<1>11. v = str => rest = bs
  <2>1. SUFFICES ASSUME v = str PROVE rest = bs
    OBVIOUS
  <2>2. Len(rest) = Len(bs) /\ Len(v) - h = Len(bs)
    BY <1>1, <1>3, <1>9, <2>1
  <2>3. ASSUME NEW i \in 1 .. Len(bs) PROVE rest[i] = bs[i]
    BY <1>1, <1>9, <2>1, <2>2
  <2>4. rest \in Seq(Lines) /\ bs \in Seq(LinesOf(r, BodyKinds))
    BY <1>1, <1>9
  <2>5. QED
    BY ONLY <2>2, <2>3, <2>4
<1>12. QED
  BY <1>7, <1>9, <1>10, <1>11 DEF h, hs, bs, str

\* What one recv() returns: lines of this answer as they are, the last perhaps cut.
LEMMA ArrivingFacts ==
    ASSUME NEW r \in 1 .. MaxRequests, answer \in Answers(r), NEW n \in 0 .. Len(Stream(answer)),
           NEW cut \in BOOLEAN, n + (IF cut THEN 1 ELSE 0) <= Len(Stream(answer))
    PROVE  /\ Arriving(n, cut) \in Seq(Lines)
           /\ \A i \in DOMAIN Arriving(n, cut) : Arriving(n, cut)[i].req = r
           /\ \A i \in 1 .. Len(Arriving(n, cut)) :
                 \/ Arriving(n, cut)[i] = Stream(answer)[i]
                 \/ i = Len(Arriving(n, cut)) /\ Arriving(n, cut)[i].end = FALSE
<1> DEFINE str == Stream(answer)
           whole == SubSeq(str, 1, n)
           last == [str[n + 1] EXCEPT !.kind = "part", !.end = FALSE]
<1>1. str \in Seq(LinesOf(r, Kinds)) /\ n \in 0 .. Len(str)
  BY StreamFacts
<1>2. n \in 0 .. Len(str) /\ n + (IF cut THEN 1 ELSE 0) <= Len(str)
  OBVIOUS
<1>3. Arriving(n, cut) = whole \o (IF cut THEN <<last>> ELSE <<>>)
  BY DEF Arriving
<1> HIDE DEF str
<1>4. /\ whole \in Seq(LinesOf(r, Kinds)) /\ Len(whole) = n
      /\ \A i \in 1 .. n : whole[i] = str[i]
  <2>1. 1 \in 1 .. Len(str) + 1 /\ n \in 1 - 1 .. Len(str) /\ n - 1 + 1 = n
    BY <1>1
  <2>2. QED
    BY <1>1, <2>1, Part
<1> HIDE DEF whole
<1>5. /\ whole \in Seq(Lines)
      /\ \A i \in 1 .. n : whole[i].req = r
  <2>1. \A i \in 1 .. n : whole[i] \in LinesOf(r, Kinds)
    BY <1>4
  <2>2. LinesOf(r, Kinds) \subseteq Lines /\ \A l \in LinesOf(r, Kinds) : l.req = r
    BY DEF LinesOf
  <2>3. QED
    BY <1>4, <2>1, <2>2
<1>6. CASE cut
  <2>1. last \in Lines /\ last.req = r /\ last.end = FALSE
    <3>1. str[n + 1] \in LinesOf(r, Kinds)
      BY <1>1, <1>2, <1>6
    <3>2. QED
      BY <3>1 DEF LinesOf, Lines, Kinds
  <2> HIDE DEF last
  <2>2. /\ whole \o <<last>> \in Seq(Lines) /\ Len(whole \o <<last>>) = n + 1
        /\ \A i \in 1 .. n : (whole \o <<last>>)[i] = whole[i]
        /\ (whole \o <<last>>)[n + 1] = last
    BY <1>1, <1>4, <1>5, <2>1
  <2>3. Arriving(n, cut) = whole \o <<last>>
    BY <1>3, <1>6
  <2>4. QED
    BY <1>1, <1>4, <1>5, <2>1, <2>2, <2>3 DEF str
<1>7. CASE ~cut
  <2>1. Arriving(n, cut) = whole
    BY <1>3, <1>5, <1>7
  <2>2. QED
    BY <1>1, <1>4, <1>5, <2>1 DEF str
<1>8. QED
  BY <1>6, <1>7

\* What the callback of curl appends: the next lines, up to one with a NUL byte.
Appended(n) ==
    LET chunk == SubSeq(Stream(answer), at + 1, at + n)
        nul == SelectInSeq(chunk, LAMBDA l : l.kind = "nul")
    IN  IF nul = 0 THEN chunk ELSE SubSeq(chunk, 1, nul - 1)

LEMMA AppendedFacts ==
    ASSUME NEW r \in 1 .. MaxRequests, answer \in Answers(r), at \in Nat, NEW n \in Nat \ {0},
           at + n <= Len(Stream(answer))
    PROVE  /\ Appended(n) \in Seq(LinesOf(r, Kinds)) /\ Len(Appended(n)) <= n
           /\ \A i \in 1 .. Len(Appended(n)) : Appended(n)[i] = Stream(answer)[at + i]
           /\ \/ Len(Appended(n)) = n
              \/ /\ at + Len(Appended(n)) + 1 \in 1 .. Len(Stream(answer))
                 /\ Stream(answer)[at + Len(Appended(n)) + 1].kind = "nul"
<1> DEFINE str == Stream(answer)
           chunk == SubSeq(str, at + 1, at + n)
           I == {i \in 1 .. Len(chunk) : chunk[i].kind = "nul"}
<1>1. str \in Seq(LinesOf(r, Kinds)) /\ at + n <= Len(str)
  BY StreamFacts
<1>2. Appended(n) = IF I = {} \/ Min(I) = 0 THEN chunk ELSE SubSeq(chunk, 1, Min(I) - 1)
  BY DEF Appended, SelectInSeq
<1> HIDE DEF str
<1>3. /\ chunk \in Seq(LinesOf(r, Kinds)) /\ Len(chunk) = n
      /\ \A i \in 1 .. n : chunk[i] = str[at + i]
  <2>1. /\ at + 1 \in 1 .. Len(str) + 1 /\ at + n \in (at + 1) - 1 .. Len(str)
        /\ (at + n) - (at + 1) + 1 = n /\ \A i \in 1 .. n : (at + 1) + i - 1 = at + i
    BY <1>1
  <2>2. QED
    BY <1>1, <2>1, Part
<1> HIDE DEF chunk
<1>4. CASE I = {}
  BY <1>2, <1>3, <1>4 DEF str
<1>5. CASE I # {}
  <2>1. I \in SUBSET Nat
    BY <1>3
  <2>2. Min(I) \in I
    BY <1>5, <2>1, MinNat
  <2> DEFINE m == Min(I)
  <2>3. m \in 1 .. n /\ chunk[m].kind = "nul"
    BY <1>3, <2>2
  <2> HIDE DEF I, m
  <2>4. Appended(n) = SubSeq(chunk, 1, m - 1)
    BY <1>2, <1>5, <2>3 DEF m
  <2>5. /\ Appended(n) \in Seq(LinesOf(r, Kinds)) /\ Len(Appended(n)) = m - 1
        /\ \A i \in 1 .. m - 1 : Appended(n)[i] = chunk[i]
    <3>1. 1 \in 1 .. Len(chunk) + 1 /\ m - 1 \in 1 - 1 .. Len(chunk) /\ (m - 1) - 1 + 1 = m - 1
      BY <1>3, <2>3
    <3>2. QED
      BY <1>3, <2>4, <3>1, Part
  <2>6. str[at + m].kind = "nul" /\ at + m \in 1 .. Len(str) /\ at + (m - 1) + 1 = at + m
    BY <1>1, <1>3, <2>3
  <2>7. \A i \in 1 .. m - 1 : Appended(n)[i] = str[at + i]
    BY <1>3, <2>3, <2>5
  <2>8. QED
    BY <2>3, <2>5, <2>6, <2>7 DEF str
<1>6. QED
  BY <1>4, <1>5

-----------------------------------------------------------------------------
(***************************************************************************)
(* The steps, by what they do to the request.                              *)
(***************************************************************************)

\* The program changes the client.
Configure ==
    \/ \E i \in Impls : SetRequestType(i)
    \/ \E n \in HeaderNames : AddHeader(n) \/ RemoveHeader(n)
    \/ \E u \in Uris : AssignCopy(u) \/ AssignMove(u)

\* request() is left by an exception after it began.
Abandon ==
    \/ SocketConnectFails \/ SocketWriteFails \/ SocketReadFails
    \/ CurlInitFails \/ CurlSetoptFails \/ CurlFails

\* The request goes on and nothing has come from the network yet.
Appending == \E n \in HeaderNames : CurlAppend(n) \/ CurlAppendFails(n)
Advance ==
    \/ SocketConnect \/ SocketWrite \/ CurlInit \/ CurlOptions
    \/ Appending \/ CurlAppended \/ CurlHeaders

Served ==
    \E status \in StatusKinds, headers \in Texts(HeaderKinds, MaxWork - lines - sets) :
       \E body \in Texts(BodyKinds, MaxWork - lines - sets - Len(headers)) : Serve(status, headers, body)

LEMMA NextCases ==
    ASSUME Next
    PROVE  \/ Configure \/ Abandon \/ Advance \/ Served
           \/ RequestThrows \/ Request
           \/ \E n \in 0 .. Len(Stream(answer)), cut \in BOOLEAN : SocketRead(n, cut)
           \/ \E n \in 1 .. Len(Stream(answer)) : CurlChunk(n)
           \/ CurlDone \/ Parse
BY Zenon DEF Next, Configure, Abandon, Advance, Appending, Served

LEMMA ConfigureFacts ==
    ASSUME Configure
    PROVE  /\ pc = "idle" /\ UNCHANGED <<pc, netVars, curlVars, origin, req, lines>>
           /\ response' = response \/ response' = NoResponse
BY DEF Configure, SetRequestType, AddHeader, RemoveHeader, AssignCopy, AssignMove, Setting

LEMMA AbandonFacts ==
    ASSUME Abandon
    PROVE  Throw /\ pc \in {"connect", "write", "read", "init", "options", "headers", "perform"}
BY DEF Abandon, SocketConnectFails, SocketWriteFails, SocketReadFails, CurlInitFails,
       CurlSetoptFails, CurlFails

LEMMA AdvanceFacts ==
    ASSUME Advance
    PROVE  /\ pc \in {"connect", "write", "init", "options", "append", "headers"}
           /\ pc' \in {"write", "read", "options", "append", "headers", "perform"}
           /\ UNCHANGED <<impl, client, response, netVars, origin, counters>>
BY DEF Advance, SocketConnect, SocketWrite, CurlInit, CurlOptions, Appending, CurlAppend,
       CurlAppendFails, CurlAppended, CurlHeaders

-----------------------------------------------------------------------------
(***************************************************************************)
(* The invariants, one after the other.                                    *)
(***************************************************************************)

LEMMA NewClient == \A u \in Uris : Client(u) \in Clients
BY DEF Client, Clients, HeaderNames

LEMMA ClientStep ==
    ASSUME ClientInv, [Next]_vars
    PROVE  ClientInv'
<1>1. impl \in Impls /\ client \in Clients
  BY DEF ClientInv
<1>2. CASE UNCHANGED <<impl, client>>
  BY <1>1, <1>2 DEF ClientInv
<1>3. CASE \E i \in Impls : SetRequestType(i)
  BY <1>1, <1>3 DEF SetRequestType, ClientInv
<1>4. CASE \E n \in HeaderNames : AddHeader(n) \/ RemoveHeader(n)
  BY <1>1, <1>4 DEF AddHeader, RemoveHeader, ClientInv, Clients
<1>7. CASE \E u \in Uris : AssignCopy(u) \/ AssignMove(u)
  BY <1>1, <1>7, NewClient DEF AssignCopy, AssignMove, ClientInv
<1>8. CASE Next
  <2>1. CASE Configure
    BY <1>3, <1>4, <1>7, <2>1 DEF Configure
  <2>2. CASE ~Configure
    BY <1>2, <1>8, <2>2, NextCases, AbandonFacts, AdvanceFacts
       DEF Throw, Served, Serve, RequestThrows, Request, SocketRead, CurlChunk, CurlDone, Parse
  <2>3. QED
    BY <2>1, <2>2
<1>9. QED
  BY <1>2, <1>8 DEF vars

\* An answer that the server gives.
LEMMA ServeFacts ==
    ASSUME WireInv, Served
    PROVE  /\ answer' \in Answers(req) /\ lines' \in Nat /\ answer = NoAnswer
           /\ pc \in {"read", "perform"} /\ req \in 1 .. MaxRequests
           /\ UNCHANGED <<impl, client, response, pc, at, value, curlVars, origin, req, sets>>
<1>1. PICK status \in StatusKinds, headers \in Texts(HeaderKinds, MaxWork - lines - sets) :
         \E body \in Texts(BodyKinds, MaxWork - lines - sets - Len(headers)) :
             Serve(status, headers, body)
  BY DEF Served
<1>2. PICK body \in Texts(BodyKinds, MaxWork - lines - sets - Len(headers)) :
         Serve(status, headers, body)
  BY <1>1
<1>3. req \in 1 .. MaxRequests /\ pc \in {"read", "perform"} /\ lines \in Nat /\ req \in Int
  BY <1>2, HttpAssumption DEF WireInv, Serve
<1>4. headers \in Seq(HeaderKinds) /\ body \in Seq(BodyKinds)
  BY DEF Texts
<1>5. /\ HeaderKinds \subseteq Kinds /\ BodyKinds \subseteq Kinds /\ StatusKinds \subseteq Kinds
  BY DEF Kinds
<1>6. \A i \in Nat, k \in Kinds : Line(i, k) \in Lines /\ Line(i, k).req = req
                                   /\ Line(i, k).kind = k /\ Line(i, k).end
  BY <1>3 DEF Line, LineOf, Lines
<1>7. \A i \in Nat, k \in Kinds : \A ks : k \in ks => Line(i, k) \in LinesOf(req, ks)
  BY <1>6 DEF LinesOf
<1> DEFINE hs == [i \in DOMAIN headers |-> Line(i, headers[i])]
           bs == [i \in DOMAIN body |-> Line(i, body[i])]
           st == <<Line(1, status)>>
<1>8. st \in Seq(LinesOf(req, StatusKinds)) /\ Len(st) = 1
  BY <1>5, <1>7
<1>9. hs \in Seq(LinesOf(req, HeaderKinds))
  <2>1. \A i \in 1 .. Len(headers) : Line(i, headers[i]) \in LinesOf(req, HeaderKinds)
    BY <1>4, <1>5, <1>7
  <2>2. QED
    BY <1>4, <2>1
<1>10. bs \in Seq(LinesOf(req, BodyKinds))
  <2>1. \A i \in 1 .. Len(body) : Line(i, body[i]) \in LinesOf(req, BodyKinds)
    BY <1>4, <1>5, <1>7
  <2>2. QED
    BY <1>4, <2>1
<1>11. answer' = [status |-> st, headers |-> hs, body |-> bs]
  BY <1>2 DEF Serve
<1> HIDE DEF hs, bs, st
<1>12. answer' \in Answers(req)
  BY <1>8, <1>9, <1>10, <1>11 DEF Answers
<1>13. QED
  BY <1>2, <1>3, <1>4, <1>12 DEF Serve

\* curl's callback.
LEMMA ChunkFacts ==
    ASSUME WireInv, NEW n \in 1 .. Len(Stream(answer)), CurlChunk(n)
    PROVE  /\ pc = "perform" /\ pc' = "perform" /\ at' = at + n /\ at' \in 0 .. Len(Stream(answer))
           /\ req \in 1 .. MaxRequests /\ answer \in Answers(req)
           /\ value' = value \o Appended(n)
           /\ UNCHANGED <<impl, client, response, answer, curlVars, origin, counters>>
<1>1. /\ pc = "perform" /\ at + n <= Len(Stream(answer)) /\ at' = at + n
      /\ UNCHANGED <<impl, client, response, pc, answer, curlVars, origin, counters>>
  BY DEF CurlChunk
<1>2. value' = value \o Appended(n)
  BY DEF CurlChunk, Appended
<1>3. answer # NoAnswer
  BY NoStream
<1>4. answer \in Answers(req) /\ req \in 1 .. MaxRequests
  BY <1>1, <1>3, HttpAssumption DEF WireInv
<1>5. Len(Stream(answer)) \in Nat
  BY <1>4, StreamFacts
<1>6. QED
  BY <1>1, <1>2, <1>4, <1>5 DEF WireInv

\* read_to_buffer.
LEMMA SocketReadFacts ==
    ASSUME WireInv, NEW n \in 0 .. Len(Stream(answer)), NEW cut \in BOOLEAN, SocketRead(n, cut)
    PROVE  /\ pc = "read" /\ pc' = "parse" /\ at' = n
           /\ req \in 1 .. MaxRequests
           /\ value' \in Seq(Lines) /\ \A i \in DOMAIN value' : value'[i].req = req
           /\ \A i \in 1 .. Len(value') :
                 value'[i] = Stream(answer)[i] \/ (i = Len(value') /\ value'[i].end = FALSE)
           /\ UNCHANGED <<impl, client, response, answer, curlVars, origin, counters>>
<1>1. /\ pc = "read" /\ pc' = "parse" /\ at' = n /\ value' = Arriving(n, cut)
      /\ n + (IF cut THEN 1 ELSE 0) <= Len(Stream(answer))
      /\ UNCHANGED <<impl, client, response, answer, curlVars, origin, counters>>
  BY DEF SocketRead
<1>2. req \in 1 .. MaxRequests
  BY <1>1, HttpAssumption DEF WireInv
<1>3. CASE answer = NoAnswer
  <2>1. n = 0 /\ ~cut
    BY <1>1, <1>3, NoStream
  <2>2. value' = <<>>
    BY <1>1, <1>3, <2>1, NoStream DEF Arriving
  <2>3. QED
    BY <1>1, <1>2, <2>2
<1>4. CASE answer \in Answers(req)
  BY <1>1, <1>2, <1>4, ArrivingFacts, ZenonT(30)
<1>5. QED
  BY <1>3, <1>4 DEF WireInv

\* The request and the answers stay in step.
LEMMA WireStep ==
    ASSUME WireInv, [Next]_vars
    PROVE  WireInv'
<1>1. CASE UNCHANGED <<pc, netVars, req, lines>>
  BY <1>1 DEF WireInv, netVars
<1>2. CASE Throw \/ Parse
  <2>1. /\ pc' = "idle" /\ answer' = NoAnswer /\ at' = 0 /\ value' = <<>> /\ UNCHANGED <<req, lines>>
    BY <1>2 DEF Throw, Parse, Unwind, counters
  <2>2. Stream(answer') = <<>>
    BY <2>1, NoStream
  <2>3. QED
    BY <2>1, <2>2 DEF WireInv
<1>3. CASE RequestThrows
  BY <1>3, HttpAssumption DEF WireInv, RequestThrows, netVars
<1>4. CASE Request
  <2>1. /\ pc = "idle" /\ pc' \in {"connect", "init"} /\ req < MaxRequests /\ req' = req + 1
        /\ UNCHANGED <<answer, at, value, lines>>
    BY <1>4 DEF Request
  <2>2. QED
    BY <2>1, HttpAssumption DEF WireInv
<1>5. CASE Served
  <2>1. /\ answer' \in Answers(req) /\ req' = req /\ lines' \in Nat /\ at' = at /\ value' = value
        /\ pc' = pc /\ pc \in {"read", "perform"} /\ at = 0
    BY <1>5, ServeFacts, NoStream DEF WireInv
  <2>2. Len(Stream(answer')) \in Nat
    BY <1>5, <2>1, ServeFacts, StreamFacts
  <2>3. QED
    BY <2>1, <2>2 DEF WireInv
<1>6. CASE Advance
  BY <1>6, AdvanceFacts DEF WireInv, netVars, counters
<1>7. CASE \E n \in 0 .. Len(Stream(answer)), cut \in BOOLEAN : SocketRead(n, cut)
  <2>1. PICK n \in 0 .. Len(Stream(answer)), cut \in BOOLEAN : SocketRead(n, cut)
    BY <1>7
  <2>2. /\ pc = "read" /\ pc' = "parse" /\ at' \in 0 .. Len(Stream(answer))
        /\ value' \in Seq(Lines) /\ \A i \in DOMAIN value' : value'[i].req = req
        /\ UNCHANGED <<answer, req, lines>>
    BY <2>1, SocketReadFacts DEF counters
  <2>3. QED
    BY <2>2 DEF WireInv
<1>8. CASE \E n \in 1 .. Len(Stream(answer)) : CurlChunk(n)
  <2>1. PICK n \in 1 .. Len(Stream(answer)) : CurlChunk(n)
    BY <1>8
  <2>2. /\ pc = "perform" /\ pc' = "perform" /\ at' \in 0 .. Len(Stream(answer))
        /\ req \in 1 .. MaxRequests /\ answer \in Answers(req) /\ value' = value \o Appended(n)
        /\ UNCHANGED <<answer, req, lines>>
    BY <2>1, ChunkFacts DEF counters
  <2>3. Appended(n) \in Seq(LinesOf(req, Kinds))
    <3>1. at \in Nat /\ n \in Nat \ {0} /\ at + n <= Len(Stream(answer))
      BY <2>1 DEF WireInv, CurlChunk
    <3>2. QED
      BY <2>2, <3>1, AppendedFacts
  <2>4. Appended(n) \in Seq(Lines) /\ \A i \in DOMAIN Appended(n) : Appended(n)[i].req = req
    <3>1. LinesOf(req, Kinds) \subseteq Lines /\ \A l \in LinesOf(req, Kinds) : l.req = req
      BY DEF LinesOf
    <3> DEFINE S == LinesOf(req, Kinds)
               new == Appended(n)
    <3>2. new \in Seq(S)
      BY <2>3
    <3> HIDE DEF S, new
    <3>3. new \in Seq(Lines) /\ \A i \in DOMAIN new : new[i] \in S
      BY <3>1, <3>2 DEF S
    <3>4. QED
      BY <3>1, <3>3 DEF S, new
  <2>5. value' \in Seq(Lines) /\ \A i \in DOMAIN value' : value'[i].req = req
    <3> DEFINE new == Appended(n)
    <3>1. /\ value \in Seq(Lines) /\ \A i \in DOMAIN value : value[i].req = req
          /\ new \in Seq(Lines) /\ \A i \in DOMAIN new : new[i].req = req
      BY <2>4 DEF WireInv
    <3> HIDE DEF new
    <3>2. /\ value \o new \in Seq(Lines)
          /\ \A i \in DOMAIN (value \o new) : (value \o new)[i].req = req
      BY <3>1
    <3>3. QED
      BY <2>2, <3>2 DEF new
  <2>6. QED
    BY <2>2, <2>5 DEF WireInv
<1>9. CASE CurlDone
  BY <1>9 DEF WireInv, CurlDone, netVars, counters
<1>10. CASE Next
  BY <1>1, <1>2, <1>3, <1>4, <1>5, <1>6, <1>7, <1>8, <1>9, <1>10, NextCases, ConfigureFacts,
     AbandonFacts
<1>11. QED
  BY <1>1, <1>10 DEF vars, counters

\* The list, if there is one, and the handle are freed.
LEMMA FreedHandles ==
    ASSUME HandleInv, pc = "perform", pc' \in {"idle", "parse"}, Freed, failed' = failed, todo' = todo
    PROVE  HandleInv'
<1>1. handles \in Nat /\ failed \in Nat /\ todo \subseteq HeaderNames /\ list' = FALSE
      /\ Held' = 0
  BY DEF HandleInv, Counted, Held, Freed
<1>2. CASE list
  <2>1. handles' = handles - 2 /\ 2 <= handles /\ handles <= 2 + 2 * failed
    BY <1>2 DEF HandleInv, Counted, Held, Freed
  <2>2. Counted'
    BY <1>1, <2>1 DEF Counted
  <2>3. QED
    BY <1>1, <2>2, Zenon DEF HandleInv
<1>3. CASE ~list
  <2>1. handles' = handles - 1 /\ 1 <= handles /\ handles <= 1 + 2 * failed
    BY <1>3 DEF HandleInv, Counted, Held, Freed
  <2>2. Counted'
    BY <1>1, <2>1 DEF Counted
  <2>3. QED
    BY <1>1, <2>2, Zenon DEF HandleInv
<1>4. QED
  BY <1>2, <1>3

\* A call that fails loses what request() held, and counts.
LEMMA HandleStep ==
    ASSUME HandleInv, ClientInv, [Next]_vars
    PROVE  HandleInv'
<1>1. CASE UNCHANGED <<pc, curlVars>>
  BY <1>1 DEF HandleInv, Counted, Held, curlVars
<1>2. CASE Abandon
  <2>1. CASE SocketConnectFails \/ SocketWriteFails \/ SocketReadFails \/ CurlInitFails
    BY <2>1 DEF HandleInv, Counted, Held, SocketConnectFails, SocketWriteFails, SocketReadFails, CurlInitFails,
       Throw, Unwind, curlVars
  <2>2. CASE CurlSetoptFails
    <3>1. /\ handles \in Nat /\ failed \in Nat /\ todo \subseteq HeaderNames
          /\ handles <= 2 + 2 * failed
      BY DEF HandleInv, Counted, Held
    <3>2. pc' = "idle" /\ list' = FALSE /\ failed' = failed + 1 /\ handles' = handles /\ todo' = todo
      BY <2>2 DEF CurlSetoptFails, Throw, Unwind
    <3>3. Held' = 0
      BY <3>2 DEF Held
    <3>4. Counted'
      BY <3>1, <3>2, <3>3 DEF Counted
    <3>5. QED
      BY <3>1, <3>2, <3>4, Zenon DEF HandleInv
  <2>3. CASE CurlFails
    <3>1. pc = "perform" /\ pc' = "idle" /\ Freed /\ failed' = failed /\ todo' = todo
      BY <2>3 DEF CurlFails, Throw, Unwind
    <3>2. QED
      BY <3>1, FreedHandles
  <2>4. QED
    BY <1>2, <2>1, <2>2, <2>3 DEF Abandon
<1>3. CASE Advance
  <2>1. CASE SocketConnect \/ SocketWrite
    BY <2>1 DEF HandleInv, Counted, Held, SocketConnect, SocketWrite, curlVars
  <2>2. CASE CurlInit
    BY <2>2 DEF HandleInv, Counted, Held, CurlInit
  <2>3. CASE CurlOptions
    <3>1. todo' \subseteq HeaderNames
      BY <2>3 DEF CurlOptions, ClientInv, Clients
    <3>2. QED
      BY <2>3, <3>1 DEF HandleInv, Counted, Held, CurlOptions
  <2>4. CASE Appending
    <3>1. /\ pc = "append" /\ pc' = "append" /\ todo' \subseteq HeaderNames
          /\ handles \in Nat /\ failed \in Nat
      BY <2>4 DEF HandleInv, Counted, Appending, CurlAppend, CurlAppendFails
    <3>2. \/ list' = TRUE /\ failed' = failed /\ handles' = IF list THEN handles ELSE handles + 1
          \/ list' = FALSE /\ failed' = failed + 1 /\ handles' = handles
      BY <2>4 DEF Appending, CurlAppend, CurlAppendFails
    <3>3. CASE list
      <4>1. Held = 2 /\ Held' = IF list' THEN 2 ELSE 1
        BY <3>1, <3>3 DEF Held
      <4>2. Counted'
        BY <3>1, <3>2, <3>3, <4>1 DEF HandleInv, Counted
      <4>3. QED
        BY <3>1, <3>2, <4>2, Zenon DEF HandleInv
    <3>4. CASE ~list
      <4>1. Held = 1 /\ Held' = IF list' THEN 2 ELSE 1
        BY <3>1, <3>4 DEF Held
      <4>2. Counted'
        BY <3>1, <3>2, <3>4, <4>1 DEF HandleInv, Counted
      <4>3. QED
        BY <3>1, <3>2, <4>2, Zenon DEF HandleInv
    <3>5. QED
      BY <3>3, <3>4
  <2>5. CASE CurlAppended \/ CurlHeaders
    BY <2>5 DEF HandleInv, Counted, Held, CurlAppended, CurlHeaders, curlVars
  <2>6. QED
    BY <1>3, <2>1, <2>2, <2>3, <2>4, <2>5 DEF Advance
<1>4. CASE Request
  BY <1>4 DEF HandleInv, Counted, Held, Request, curlVars
<1>5. CASE \E n \in 0 .. Len(Stream(answer)), cut \in BOOLEAN : SocketRead(n, cut)
  BY <1>5 DEF HandleInv, Counted, Held, SocketRead, curlVars
<1>6. CASE CurlDone
  <2>1. pc = "perform" /\ pc' = "parse" /\ Freed /\ failed' = failed /\ todo' = todo
    BY <1>6 DEF CurlDone
  <2>2. QED
    BY <2>1, FreedHandles
<1>7. CASE Parse
  BY <1>7 DEF HandleInv, Counted, Held, Parse, Unwind, curlVars
<1>8. CASE Served \/ RequestThrows \/ \E n \in 1 .. Len(Stream(answer)) : CurlChunk(n)
  BY <1>1, <1>8 DEF Served, Serve, RequestThrows, CurlChunk
<1>9. CASE Next
  BY <1>1, <1>2, <1>3, <1>4, <1>5, <1>6, <1>7, <1>8, <1>9, NextCases, ConfigureFacts
<1>10. QED
  BY <1>1, <1>9 DEF vars

\* ResponseOfOneRequest, of any response.
OneRequest(p) ==
    LET from == {p.value[i].req : i \in DOMAIN p.value}
    IN  /\ Cardinality(from) <= 1
        /\ {p.code} \ {0} \subseteq from
        /\ {p.headers[k].req : k \in DOMAIN p.headers} \subseteq from
        /\ {p.content[i].req : i \in DOMAIN p.content} \subseteq from

LEMMA FewLines ==
    ASSUME NEW S, NEW r, S \subseteq {r}
    PROVE  Cardinality(S) <= 1
<1>1. CASE S = {}
  BY <1>1, FS_EmptySet
<1>2. CASE S = {r}
  <2>1. Cardinality({r}) = 1
    BY FS_Singleton, Zenon
  <2>2. QED
    BY <1>2, <2>1
<1>3. QED
  BY <1>1, <1>2

\* A response that was parsed from lines of one request.
LEMMA ParsedIsOne ==
    ASSUME NEW old \in Responses, NEW v \in Seq(Lines), NEW r, \A i \in DOMAIN v : v[i].req = r
    PROVE  OneRequest(Parsed(old, v))
<1> DEFINE p == Parsed(old, v)
           from == {v[i].req : i \in DOMAIN v}
<1>1. /\ p.value = v
      /\ p.code # 0 => v # <<>> /\ p.code = v[1].req
      /\ \A k \in DOMAIN p.headers : \E i \in DOMAIN v : p.headers[k] = v[i]
      /\ \A j \in DOMAIN p.content : \E i \in DOMAIN v : p.content[j] = v[i]
  BY ParsedFacts
<1> HIDE DEF p
<1>2. Cardinality(from) <= 1
  <2>1. from \subseteq {r}
    OBVIOUS
  <2> HIDE DEF from
  <2>2. QED
    BY <2>1, FewLines
<1>3. {p.code} \ {0} \subseteq from
  <2>1. v # <<>> => 1 \in DOMAIN v
    OBVIOUS
  <2>2. QED
    BY <1>1, <2>1
<1>4. {p.headers[k].req : k \in DOMAIN p.headers} \subseteq from
  BY <1>1
<1>5. {p.content[j].req : j \in DOMAIN p.content} \subseteq from
  BY <1>1
<1>6. OneRequest(p)
  BY <1>1, <1>2, <1>3, <1>4, <1>5 DEF OneRequest
<1>7. QED
  BY <1>6 DEF p

LEMMA NoResponseFacts == NoResponse \in Responses /\ OneRequest(NoResponse)
<1>1. <<>> \in FieldMaps
  <2>1. <<>> \in [{} -> {l \in Lines : l.kind \in HeaderKinds}]
    OBVIOUS
  <2>2. QED
    BY <2>1 DEF FieldMaps
<1>2. NoResponse \in Responses
  BY <1>1, HttpAssumption DEF NoResponse, Responses
<1>3. {NoResponse.value[i].req : i \in DOMAIN NoResponse.value} = {}
  BY DEF NoResponse
<1>4. Cardinality({}) <= 1
  BY FS_EmptySet
<1>5. OneRequest(NoResponse)
  BY <1>3, <1>4 DEF OneRequest, NoResponse
<1>6. QED
  BY <1>2, <1>5

\* Who changes response_: parse, and the assignment that moves a client.
LEMMA ResponseChanges ==
    ASSUME [Next]_vars
    PROVE  \/ UNCHANGED <<response, origin>>
           \/ response' = NoResponse /\ UNCHANGED origin
           \/ Parse
<1>1. CASE Configure
  BY <1>1, ConfigureFacts
<1>2. CASE Next /\ ~Configure
  BY <1>2, NextCases, AbandonFacts, AdvanceFacts
     DEF Throw, Served, Serve, RequestThrows, Request, SocketRead, CurlChunk, CurlDone
<1>3. CASE UNCHANGED vars
  BY <1>3 DEF vars
<1>4. QED
  BY <1>1, <1>2, <1>3

LEMMA ResponseStep ==
    ASSUME ResponseInv, WireInv, [Next]_vars
    PROVE  ResponseInv'
<1>1. response \in Responses /\ OneRequest(response)
  BY DEF ResponseInv, ResponseOfOneRequest, OneRequest
<1>2. response' \in Responses /\ OneRequest(response')
  <2>1. CASE Parse
    <3>1. response' = Parsed(response, value)
      BY <2>1 DEF Parse
    <3>2. QED
      BY <1>1, <3>1, ParsedFacts, ParsedIsOne DEF WireInv
  <2>2. QED
    BY <1>1, <2>1, ResponseChanges, NoResponseFacts
<1>3. QED
  BY <1>2 DEF ResponseInv, ResponseOfOneRequest, OneRequest

\* A line with a NUL byte is behind the head.
LEMMA NulBehindHead ==
    ASSUME NEW r \in 1 .. MaxRequests, NEW a \in Answers(r), NEW j \in 1 .. Len(Stream(a)),
           Stream(a)[j].kind = "nul"
    PROVE  j > HeadLen(a)
<1> DEFINE h == HeadLen(a)
           hs == a.headers
           str == Stream(a)
<1>1. /\ hs \in Seq(LinesOf(r, HeaderKinds)) /\ h = Len(hs) + 2
      /\ str[1] \in LinesOf(r, StatusKinds)
      /\ \A i \in 1 .. Len(hs) : str[i + 1] = hs[i]
      /\ str[h] = LineOf(r, 0, "blank")
      /\ j \in Nat \ {0} /\ str[j].kind = "nul"
  <2>1. a.status[1] \in LinesOf(r, StatusKinds) /\ hs \in Seq(LinesOf(r, HeaderKinds))
    BY DEF Answers
  <2>2. /\ str[1] = a.status[1] /\ \A i \in 1 .. Len(hs) : str[i + 1] = hs[i]
        /\ str[h] = LineOf(r, 0, "blank") /\ Len(str) \in Nat
    BY StreamFacts
  <2>3. QED
    BY <2>1, <2>2 DEF HeadLen
<1> HIDE DEF h, hs, str
<1>2. h \in Nat /\ Len(hs) \in Nat
  BY <1>1
<1>3. SUFFICES ASSUME j <= h PROVE FALSE
  BY <1>1, <1>2 DEF h
<1>4. CASE j = 1
  BY <1>1, <1>4 DEF LinesOf, StatusKinds
<1>5. CASE j = h
  BY <1>1, <1>5 DEF LineOf
<1>6. CASE j # 1 /\ j # h
  <2>1. j - 1 \in 1 .. Len(hs) /\ (j - 1) + 1 = j
    BY <1>1, <1>2, <1>3, <1>6
  <2>2. hs[j - 1] \in LinesOf(r, HeaderKinds) /\ str[j] = hs[j - 1]
    BY <1>1, <2>1
  <2>3. QED
    BY <1>1, <2>2 DEF LinesOf, HeaderKinds
<1>7. QED
  BY <1>4, <1>5, <1>6

\* The head arrives as it was sent.
LEMMA HeadStep ==
    ASSUME HeadInv, WireInv, WireInv', [Next]_vars
    PROVE  HeadInv'
<1>1. CASE UNCHANGED <<pc, netVars>>
  BY <1>1 DEF HeadInv, netVars
<1>2. CASE pc' \notin {"perform", "parse"}
  BY <1>2 DEF HeadInv
<1>3. CASE Advance
  <2>1. /\ pc \in {"connect", "write", "init", "options", "append", "headers"} /\ pc' # "parse"
        /\ UNCHANGED <<answer, at, value>>
    BY <1>3, AdvanceFacts DEF netVars
  <2>2. answer' = NoAnswer /\ at' = 0 /\ value' = <<>>
    BY <2>1 DEF WireInv
  <2>3. QED
    BY <2>1, <2>2 DEF HeadInv, HeadLen, NoAnswer
<1>4. CASE Served
  <2>1. /\ answer' \in Answers(req) /\ answer = NoAnswer /\ UNCHANGED <<pc, at, value, req>>
        /\ pc \in {"read", "perform"} /\ req \in 1 .. MaxRequests /\ at = 0
    BY <1>4, ServeFacts, NoStream DEF WireInv
  <2>2. pc = "perform" => value = <<>>
    <3>1. HeadLen(NoAnswer) = 2
      BY DEF HeadLen, NoAnswer
    <3>2. QED
      BY <2>1, <3>1 DEF HeadInv, WireInv
  <2>3. HeadLen(answer') \in Nat /\ HeadLen(answer') >= 2
    BY <2>1 DEF HeadLen, Answers
  <2>4. QED
    BY <2>1, <2>2, <2>3 DEF HeadInv
<1>5. CASE \E n \in 0 .. Len(Stream(answer)), cut \in BOOLEAN : SocketRead(n, cut)
  BY <1>5, SocketReadFacts DEF HeadInv
<1>6. CASE \E n \in 1 .. Len(Stream(answer)) : CurlChunk(n)
  <2>1. PICK n \in 1 .. Len(Stream(answer)) : CurlChunk(n)
    BY <1>6
  <2> DEFINE h == HeadLen(answer)
             new == Appended(n)
             m == Len(new)
             str == Stream(answer)
             old == value
  <2>2. /\ pc = "perform" /\ pc' = "perform" /\ at' = at + n
        /\ req \in 1 .. MaxRequests /\ answer \in Answers(req) /\ answer' = answer
        /\ value' = old \o new
    BY <2>1, ChunkFacts
  <2>3. at \in Nat /\ n \in Nat \ {0} /\ at + n <= Len(str) /\ h \in Nat
    BY <2>1, <2>2 DEF WireInv, CurlChunk, HeadLen, Answers
  <2>4. /\ new \in Seq(LinesOf(req, Kinds)) /\ m <= n
        /\ \A i \in 1 .. m : new[i] = str[at + i]
        /\ m = n \/ (at + m + 1 \in 1 .. Len(str) /\ str[at + m + 1].kind = "nul")
    BY <2>2, <2>3, AppendedFacts
  <2>5. m = n \/ at + m >= h
    <3>1. SUFFICES ASSUME at + m + 1 \in 1 .. Len(str), str[at + m + 1].kind = "nul"
                   PROVE  at + m >= h
      BY <2>4
    <3>2. at + m + 1 > h
      BY <2>2, <3>1, NulBehindHead
    <3>3. QED
      BY <2>3, <2>4, <3>2
  <2>6. /\ old \in Seq(Lines) /\ Len(old) <= at /\ (at <= h => Len(old) = at)
        /\ (at >= h => Len(old) >= h) /\ \A i \in 1 .. Len(old) : i <= h => old[i] = str[i]
    BY <2>2 DEF WireInv, HeadInv
  <2> HIDE DEF h, new, str, old, m
  <2>7. m \in Nat
    BY <2>4 DEF m
  <2>8. /\ Len(old \o new) = Len(old) + m
        /\ \A i \in 1 .. Len(old) : (old \o new)[i] = old[i]
        /\ \A i \in 1 .. m : (old \o new)[Len(old) + i] = new[i]
    BY <2>4, <2>6 DEF m
  <2>9. /\ Len(old \o new) <= at + n
        /\ at + n <= h => Len(old \o new) = at + n
        /\ at + n >= h => Len(old \o new) >= h
    <3> DEFINE k == Len(old)
    <3>1. k \in Nat
      BY <2>6
    <3>2. /\ k <= at /\ (at <= h => k = at) /\ (at >= h => k >= h)
          /\ m <= n /\ m \in Nat /\ Len(old \o new) = k + m
      BY <2>4, <2>6, <2>7, <2>8
    <3> HIDE DEF k
    <3>3. QED
      BY <2>3, <2>5, <3>1, <3>2
  <2>10. ASSUME NEW i \in 1 .. Len(old \o new), i <= h PROVE (old \o new)[i] = str[i]
    <3>1. CASE i <= Len(old)
      BY <2>6, <2>8, <2>10, <3>1
    <3>2. CASE i > Len(old)
      <4>1. Len(old) = at
        BY <2>3, <2>6, <2>10, <3>2
      <4>2. i - at \in 1 .. m /\ at + (i - at) = i
        BY <2>3, <2>7, <2>8, <3>2, <4>1
      <4>3. QED
        BY <2>4, <2>8, <4>1, <4>2
    <3>3. QED
      BY <2>6, <3>1, <3>2
  <2>11. QED
    BY <2>2, <2>9, <2>10 DEF HeadInv, h, str
<1>7. CASE CurlDone
  <2>1. pc = "perform" /\ pc' = "parse" /\ UNCHANGED <<answer, at, value>>
    BY <1>7 DEF CurlDone, netVars
  <2>2. QED
    BY <2>1 DEF HeadInv
<1>8. CASE Throw \/ Parse \/ RequestThrows \/ Request
  BY <1>1, <1>2, <1>8 DEF Throw, Parse, Unwind, RequestThrows, Request
<1>9. CASE Next
  BY <1>1, <1>3, <1>4, <1>5, <1>6, <1>7, <1>8, <1>9, NextCases, ConfigureFacts, AbandonFacts
<1>10. QED
  BY <1>1, <1>9 DEF vars

\* HeadDecidesContent, of any answer and response.
Decided(a, p) ==
    /\ a.status # <<>> /\ a.status[1].kind = "status"
    /\ \A i \in DOMAIN a.headers : a.headers[i].kind # "bare"
    /\ Len(p.value) >= HeadLen(a) /\ p.value[HeadLen(a)].end
    => /\ p.code = p.value[1].req
       /\ \A k \in {"a", "b"} :
            LET of == {i \in DOMAIN a.headers : KeyOf(a.headers[i]) = k}
            IN  /\ k \in DOMAIN p.headers <=> of # {}
                /\ \A i \in of : (\A j \in of : j <= i) => p.headers[k] = a.headers[i]
       /\ p.value = Stream(a) => p.content = a.body
       /\ Len(p.content) = Len(p.value) - HeadLen(a)

LEMMA DecidedStep ==
    ASSUME HeadInv, WireInv, ResponseInv, OriginInv, Decided(origin, response), [Next]_vars
    PROVE  OriginInv' /\ Decided(origin', response')
<1>1. CASE UNCHANGED <<response, origin>>
  BY <1>1 DEF OriginInv
<1>2. CASE response' = NoResponse /\ UNCHANGED origin
  <2>1. ~(Len(NoResponse.value) >= HeadLen(origin))
    <3>1. HeadLen(origin) \in Nat /\ HeadLen(origin) >= 2
      BY DEF OriginInv, Answers, HeadLen, NoAnswer
    <3>2. QED
      BY <3>1 DEF NoResponse
  <2>2. QED
    BY <1>2, <2>1 DEF OriginInv, Decided
<1>3. CASE Parse
  <2>1. pc = "parse" /\ origin' = answer /\ response' = Parsed(response, value)
    BY <1>3 DEF Parse
  <2>2. CASE answer = NoAnswer
    BY <2>1, <2>2 DEF OriginInv, Decided, NoAnswer
  <2>3. CASE answer \in Answers(req)
    <3>1. req \in 1 .. MaxRequests /\ response \in Responses /\ value \in Seq(Lines)
      BY <2>1, HttpAssumption DEF WireInv, ResponseInv
    <3>2. Parsed(response, value).value = value
      BY <3>1, ParsedFacts
    <3>3. \A i \in 1 .. Len(value) :
             i <= HeadLen(answer)
                => value[i] = Stream(answer)[i] \/ (i = Len(value) /\ value[i].end = FALSE)
      BY <2>1 DEF HeadInv
    <3>4. HeadLen(answer) \in Nat
      BY <2>3 DEF HeadLen, Answers
    <3>5. SUFFICES ASSUME answer.status[1].kind = "status",
                          \A i \in DOMAIN answer.headers : answer.headers[i].kind # "bare",
                          Len(value) >= HeadLen(answer), value[HeadLen(answer)].end
                   PROVE  Decided(answer, Parsed(response, value))
      BY <2>1, <2>3, <3>1, <3>2 DEF OriginInv, Decided
    <3>6. ASSUME NEW i \in 1 .. HeadLen(answer) PROVE value[i] = Stream(answer)[i]
      <4>1. i \in 1 .. Len(value) /\ (i = Len(value) => i = HeadLen(answer))
        BY <3>1, <3>4, <3>5
      <4>2. QED
        BY <3>3, <3>4, <3>5, <4>1
    <3>7. QED
      BY <2>3, <3>1, <3>2, <3>5, <3>6, HeadParsed DEF Decided
  <2>4. QED
    BY <2>2, <2>3 DEF WireInv
<1>4. QED
  BY <1>1, <1>2, <1>3, ResponseChanges

-----------------------------------------------------------------------------
(***************************************************************************)
(* The theorems.                                                           *)
(***************************************************************************)
IInv == ClientInv /\ WireInv /\ HandleInv /\ ResponseInv /\ HeadInv /\ OriginInv /\ HeadDecidesContent

LEMMA DecidesIsDecided == HeadDecidesContent <=> Decided(origin, response)
BY DEF HeadDecidesContent, Decided, HeadLen

\* The inductive invariant.
LEMMA Invariance == Spec => []IInv
<1>1. Init => IInv
  <2>1. SUFFICES ASSUME Init PROVE IInv
    OBVIOUS
  <2>2. ClientInv /\ HandleInv
    <3>1. ClientInv
      BY <2>1, NewClient DEF Init, ClientInv, Impls
    <3>2. pc = "idle" /\ handles = 0 /\ todo = {} /\ list = FALSE /\ failed = 0
      BY <2>1 DEF Init
    <3>3. Counted
      BY <3>2 DEF Counted, Held
    <3>4. QED
      BY <3>1, <3>2, <3>3, Zenon DEF HandleInv
  <2>3. WireInv
    BY <2>1, NoStream, HttpAssumption DEF Init, WireInv
  <2>4. ResponseInv
    BY <2>1, NoResponseFacts, ZenonT(30) DEF Init, ResponseInv, ResponseOfOneRequest, OneRequest
  <2>5. HeadInv /\ OriginInv /\ HeadDecidesContent
    BY <2>1 DEF Init, HeadInv, OriginInv, HeadDecidesContent, NoAnswer
  <2>6. QED
    BY <2>2, <2>3, <2>4, <2>5 DEF IInv
<1>2. IInv /\ [Next]_vars => IInv'
  <2>1. SUFFICES ASSUME IInv, [Next]_vars PROVE IInv'
    OBVIOUS
  <2>2. ClientInv' /\ WireInv' /\ HandleInv' /\ ResponseInv'
    BY <2>1, ClientStep, WireStep, HandleStep, ResponseStep DEF IInv
  <2>3. HeadInv'
    BY <2>1, <2>2, HeadStep DEF IInv
  <2>4. OriginInv' /\ Decided(origin', response')
    BY <2>1, DecidedStep, DecidesIsDecided DEF IInv
  <2>5. HeadDecidesContent'
    BY <2>4 DEF HeadDecidesContent, Decided, HeadLen
  <2>6. QED
    BY <2>2, <2>3, <2>4, <2>5 DEF IInv
<1>3. QED
  BY <1>1, <1>2, PTL DEF Spec

\* The client and its response keep the types of client.h, whatever arrives.
THEOREM TypeCorrect == Spec => []TypeOK
<1>1. IInv => TypeOK
  <2>1. SUFFICES ASSUME IInv PROVE TypeOK
    OBVIOUS
  <2>2. client.uri \in Uris /\ client.headers \subseteq HeaderNames
    BY <2>1 DEF IInv, ClientInv, Clients
  <2>3. /\ response.value \in Seq(Lines) /\ response.content \in Seq(Lines)
        /\ response.code \in 0 .. MaxRequests /\ response.version \in 0 .. MaxRequests
        /\ response.headers \in FieldMaps
    BY <2>1 DEF IInv, ResponseInv, Responses
  <2>4. \A k \in DOMAIN response.headers : response.headers[k].kind \in HeaderKinds
    BY <2>3 DEF FieldMaps
  <2>5. QED
    BY <2>1, <2>2, <2>3, <2>4 DEF IInv, ClientInv, WireInv, HandleInv, Counted, TypeOK
<1>2. QED
  BY <1>1, Invariance, PTL

\* However requests fail, are cut or are repeated, response_ shows one answer.
THEOREM ResponseIsOfOneRequest == Spec => []ResponseOfOneRequest
<1>1. IInv => ResponseOfOneRequest
  BY DEF IInv, ResponseInv
<1>2. QED
  BY <1>1, Invariance, PTL

\* Once the head of an answer has arrived, parse takes it apart where the server put it
\* together, for every number of headers and lines and every way the answer arrives.
THEOREM HeadIsFound == Spec => []HeadDecidesContent
<1>1. IInv => HeadDecidesContent
  BY DEF IInv
<1>2. QED
  BY <1>1, Invariance, PTL

\* Whatever fails, and however often, a call of setopt or slist_append that failed costs a
\* handle and a list at most, and nothing else costs any.
THEOREM LeaksAreFailures == Spec => []LeaksNeedFailures
<1>1. IInv => LeaksNeedFailures
  BY DEF IInv, HandleInv, Counted, Held, LeaksNeedFailures
<1>2. QED
  BY <1>1, Invariance, PTL

=============================================================================
