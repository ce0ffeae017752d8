---------------------------- MODULE SocketProofs ----------------------------
(***************************************************************************)
(* Proofs about Socket, for any objects, any descriptors and any program   *)
(* discipline unless a theorem says otherwise.                             *)
(***************************************************************************)
EXTENDS Socket, TLAPS

\* Storage without an object holds no descriptor.
DeadHoldNothing == \A o \in Objects : ~obj[o].alive => obj[o].sock = INVALID

OwnershipInv == TypeOK /\ DeadHoldNothing /\ NoDangling /\ UniqueOwner

\* Closing, securing and attaching stay within the type.
LEMMA RecordTypes ==
    ASSUME NEW s \in Socket
    PROVE  /\ Closed(s) \in Socket /\ Closed(s).alive = s.alive
           /\ Closed(s).sock = INVALID
           /\ Reset(s) \in Socket /\ Reset(s).alive = s.alive
           /\ Reset(s).sock = INVALID
           /\ \A v \in BOOLEAN : /\ Secured(s, v) \in Socket
                                 /\ Secured(s, v).sock = s.sock
                                 /\ Secured(s, v).alive = s.alive
           /\ MovedFrom(s) \in Socket /\ MovedFrom(s).alive = s.alive
           /\ MovedFrom(s).sock = INVALID
           /\ AssignedFrom(s) \in Socket /\ AssignedFrom(s).alive = s.alive
           /\ AssignedFrom(s).sock = INVALID
BY FdsAssumption, FlagsAssumption, ZenonT(30)
   DEF Socket, Closed, ShutdownLayer, Reset, IsValid, Secured, MovedFrom,
       AssignedFrom, INVALID, Layers

\* openssl_layer::attach yields socket objects and changes no descriptor.
LEMMA AttachedTypes ==
    ASSUME NEW s \in Socket, NEW state, NEW t \in Attached(s, state)
    PROVE  /\ t \in Socket /\ t.sock = s.sock /\ t.alive = s.alive
           /\ t.non_blocking = s.non_blocking /\ t.moved = s.moved
           /\ t.bio \in {s.bio, s.sock}
<1>1. CASE s.ssl \in {"none", "down"}
  BY <1>1 DEF Attached
<1>2. CASE s.ssl \notin {"none", "down"}
  <2>1. PICK e \in Layers : t = [s EXCEPT !.ssl = e, !.bio = s.sock]
    BY <1>2, Zenon DEF Attached, Layers
  <2>2. QED
    BY <2>1 DEF Socket
<1>3. QED
  BY <1>1, <1>2

\* The constructors yield socket objects.
LEMMA RawTypes ==
    /\ \A f \in Fds : /\ Raw(f) \in Socket /\ Raw(f).sock = f /\ Raw(f).alive
                       /\ ~Raw(f).non_blocking /\ ~Raw(f).moved
    /\ Fresh \in Socket /\ Fresh.sock = INVALID /\ Fresh.alive
    /\ ~Fresh.non_blocking /\ ~Fresh.moved
    /\ Dead \in Socket /\ Dead.sock = INVALID /\ ~Dead.alive
BY FdsAssumption DEF Socket, Raw, Fresh, Dead, INVALID, Layers

\* The step puts s, of the right type, in the place of object o.  What s holds
\* is open afterwards and was either free or o's own before, and nothing is
\* closed but what o held.
Replaces(o, s) ==
    /\ s \in Socket
    /\ obj' = [obj EXCEPT ![o] = s]
    /\ kernel' \in [Fds -> Kernel]
    /\ flags' \in [Fds -> BOOLEAN]
    /\ ~s.alive => s.sock = INVALID
    /\ \A f \in Fds : s.sock = f => kernel'[f] # "free"
    /\ \A f \in Fds : s.sock = f => kernel[f] = "free" \/ obj[o].sock = f
    /\ \A f \in Fds : kernel[f] # "free" /\ kernel'[f] = "free"
                       => obj[o].sock = f

\* A member function that replaces one object, releases what it held and opens
\* at most one free descriptor keeps the ownership invariant.
LEMMA ReplaceOne ==
    ASSUME OwnershipInv, NEW o \in Objects, NEW s, Replaces(o, s)
    PROVE  OwnershipInv'
<1> USE DEF Replaces
<1>1. TypeOK'
  BY DEF OwnershipInv, TypeOK
<1>2. DeadHoldNothing'
  BY DEF OwnershipInv, TypeOK, DeadHoldNothing
<1>3. \A p \in Objects, f \in Fds :
        p # o /\ Holds(p, f)' => Holds(p, f) /\ kernel[f] # "free"
  BY DEF OwnershipInv, TypeOK, NoDangling, Holds
<1>4. \A f \in Fds : Holds(o, f)' <=> s.alive /\ s.sock = f
  BY DEF OwnershipInv, TypeOK, Holds
<1>5. \A p \in Objects, f \in Fds : Holds(p, f) /\ obj[o].sock = f => p = o
  BY FdsAssumption
     DEF OwnershipInv, TypeOK, UniqueOwner, DeadHoldNothing, Holds, INVALID
<1>6. NoDangling'
  BY <1>3, <1>4, <1>5 DEF NoDangling
<1>7. UniqueOwner'
  <2>1. SUFFICES ASSUME NEW p \in Objects, NEW q \in Objects, NEW f \in Fds,
                        Holds(p, f)', Holds(q, f)'
                 PROVE  p = q
    BY DEF UniqueOwner
  <2>2. CASE p # o /\ q # o
    BY <2>1, <2>2, <1>3 DEF OwnershipInv, UniqueOwner
  <2>3. CASE p = o /\ q # o
    BY <2>1, <2>3, <1>3, <1>4, <1>5
  <2>4. CASE q = o /\ p # o
    BY <2>1, <2>4, <1>3, <1>4, <1>5
  <2>5. QED
    BY <2>2, <2>3, <2>4
<1>8. QED
  BY <1>1, <1>2, <1>6, <1>7 DEF OwnershipInv

\* What a step to a larger or a smaller table does.
LEMMA TableTypes ==
    ASSUME TypeOK
    PROVE  /\ \A o \in Objects :
                /\ Released(obj[o]) \in [Fds -> Kernel]
                /\ \A f \in Fds : Released(obj[o])[f] =
                                    IF f = obj[o].sock THEN "free" ELSE kernel[f]
           /\ \A k \in [Fds -> Kernel], f \in Fds, st \in Kernel :
                Opens(k, f, st) => /\ k[f] = "free"
                                   /\ kernel' \in [Fds -> Kernel]
                                   /\ flags' \in [Fds -> BOOLEAN]
                                   /\ kernel'[f] = st
                                   /\ flags'[f] = FALSE
                                   /\ \A g \in Fds \ {f} : /\ kernel'[g] = k[g]
                                                            /\ flags'[g] = flags[g]
BY DEF TypeOK, Released, Opens, Kernel

\* A move hands the descriptor of p to o; p holds nothing after it and what o
\* held before is closed.
LEMMA Transfer ==
    ASSUME OwnershipInv,
           NEW o \in Objects, NEW p \in Objects, o # p, obj[p].alive,
           NEW s \in Socket, s.sock = INVALID,
           obj' = [obj EXCEPT ![o] = obj[p], ![p] = s],
           kernel' = Released(obj[o]), UNCHANGED flags
    PROVE  OwnershipInv'
<1>1. TypeOK'
  BY TableTypes DEF OwnershipInv, TypeOK
<1>2. DeadHoldNothing'
  BY DEF OwnershipInv, TypeOK, DeadHoldNothing
<1>3. ASSUME NEW q \in Objects, NEW f \in Fds, Holds(q, f)'
      PROVE  /\ q # p
             /\ Holds(IF q = o THEN p ELSE q, f)
  BY <1>3, FdsAssumption DEF OwnershipInv, TypeOK, Holds, INVALID
<1>4. ASSUME NEW q \in Objects, NEW f \in Fds, Holds(q, f), q # o
      PROVE  kernel'[f] # "free"
  <2>1. kernel[f] # "free"
    BY <1>4 DEF OwnershipInv, NoDangling
  <2>2. obj[o].sock # f
    BY <1>4, FdsAssumption
       DEF OwnershipInv, TypeOK, UniqueOwner, DeadHoldNothing, Holds, INVALID
  <2>3. QED
    BY <2>1, <2>2, TableTypes DEF OwnershipInv
<1>5. NoDangling'
  BY <1>3, <1>4 DEF NoDangling
<1>6. UniqueOwner'
  <2>1. SUFFICES ASSUME NEW q \in Objects, NEW r \in Objects, NEW f \in Fds,
                        Holds(q, f)', Holds(r, f)'
                 PROVE  q = r
    BY DEF UniqueOwner
  <2>2. (IF q = o THEN p ELSE q) = (IF r = o THEN p ELSE r)
    BY <2>1, <1>3 DEF OwnershipInv, UniqueOwner
  <2>3. QED
    BY <2>1, <2>2, <1>3
<1>7. QED
  BY <1>1, <1>2, <1>5, <1>6 DEF OwnershipInv

\* Every member function keeps the ownership invariant.
LEMMA OwnershipStep ==
    ASSUME OwnershipInv, [Next]_vars
    PROVE  OwnershipInv'
<1>1. TypeOK /\ DeadHoldNothing /\ NoDangling
  BY DEF OwnershipInv
<1>2. CASE UNCHANGED vars
  BY <1>2 DEF vars, OwnershipInv, TypeOK, DeadHoldNothing, NoDangling,
              UniqueOwner, Holds
<1>3. ASSUME NEW o \in Objects, Construct(o)
      PROVE  OwnershipInv'
  <2>1. Replaces(o, Fresh)
    BY <1>1, <1>3, RawTypes, FdsAssumption
       DEF Construct, TypeOK, INVALID, Replaces
  <2>2. QED
    BY <2>1, ReplaceOne
<1>4. ASSUME NEW o \in Objects, NEW l \in Objects, NEW f \in Fds, Accept(l, o, f)
      PROVE  OwnershipInv'
  <2>1. Replaces(o, Raw(f))
    BY <1>1, <1>4, RawTypes DEF Accept, Opens, TypeOK, Kernel, Replaces
  <2>2. QED
    BY <2>1, ReplaceOne
<1>5. ASSUME NEW o \in Objects, NEW secure \in BOOLEAN, ConstructConnect(o, secure)
      PROVE  OwnershipInv'
  <2>1. CASE /\ obj' = [obj EXCEPT ![o] = Secured(Fresh, secure)]
             /\ UNCHANGED <<kernel, flags>>
    <3> DEFINE s == Secured(Fresh, secure)
    <3>1. s \in Socket /\ s.sock = INVALID /\ s.alive
      BY RecordTypes, RawTypes
    <3> HIDE DEF s
    <3>2. Replaces(o, s)
      BY <1>1, <2>1, <3>1, FdsAssumption DEF TypeOK, INVALID, Replaces, s
    <3>3. QED
      BY <3>2, ReplaceOne
  <2>2. ASSUME NEW f \in Fds,
               Opens(kernel, f, "connected"),
               NEW s \in Attached(Secured(Raw(f), secure), "connected"),
               obj' = [obj EXCEPT ![o] = IF s.ssl = "broken" THEN Dead ELSE s]
        PROVE  OwnershipInv'
    <3>1. Secured(Raw(f), secure) \in Socket /\ Secured(Raw(f), secure).sock = f
          /\ Secured(Raw(f), secure).alive
      BY RecordTypes, RawTypes
    <3>2. s \in Socket /\ s.sock = f /\ s.alive
      BY <2>2, <3>1, AttachedTypes
    <3>3. Replaces(o, IF s.ssl = "broken" THEN Dead ELSE s)
      BY <1>1, <2>2, <3>2, RawTypes, FdsAssumption
         DEF Opens, TypeOK, Kernel, INVALID, Replaces
    <3>4. QED
      BY <3>3, ReplaceOne
  <2>3. QED
    BY <1>5, <2>1, <2>2 DEF ConstructConnect
<1>6. ASSUME NEW o \in Objects, ConnectFail(o)
      PROVE  OwnershipInv'
  <2> DEFINE s == Reset(obj[o])
  <2>1. s \in Socket /\ s.sock = INVALID /\ s.alive
    BY <1>1, <1>6, RecordTypes DEF TypeOK, ConnectFail, Usable
  <2>2. Replaces(o, s)
    BY <1>1, <1>6, <2>1, FdsAssumption
       DEF ConnectFail, TypeOK, INVALID, Kernel, Replaces, Released
  <2>3. QED
    BY <2>2, ReplaceOne
<1>7. ASSUME NEW o \in Objects, NEW f \in Fds, Connect(o, f)
      PROVE  OwnershipInv'
  <2> DEFINE t == [Reset(obj[o]) EXCEPT !.sock = f, !.moved = FALSE]
  <2>1. Reset(obj[o]) \in Socket /\ Reset(obj[o]).alive
    BY <1>1, <1>7, RecordTypes DEF TypeOK, Connect, Usable
  <2>2. t \in Socket /\ t.sock = f /\ t.alive
    BY <2>1 DEF Socket
  <2>3. PICK s \in Attached(t, "connected") : obj' = [obj EXCEPT ![o] = s]
    BY <1>7 DEF Connect
  <2>4. s \in Socket /\ s.sock = f /\ s.alive
    BY <2>2, <2>3, AttachedTypes
  <2>5. Replaces(o, s)
    BY <1>1, <1>7, <2>3, <2>4
       DEF Connect, Opens, Released, TypeOK, Kernel, Replaces
  <2>6. QED
    BY <2>5, ReplaceOne
<1>8. ASSUME NEW o \in Objects, NEW f \in Fds, Listen(o, f)
      PROVE  OwnershipInv'
  <2> DEFINE t == [obj[o] EXCEPT !.sock = f, !.moved = FALSE]
  <2>1. t \in Socket /\ t.sock = f /\ t.alive
    BY <1>1, <1>8 DEF TypeOK, Listen, Usable, Socket
  <2>2. CASE Opens(kernel, f, "bound") /\ obj' = [obj EXCEPT ![o] = t]
    <3>1. Replaces(o, t)
      BY <1>1, <2>1, <2>2 DEF Opens, TypeOK, Kernel, Replaces
    <3>2. QED
      BY <3>1, ReplaceOne
  <2>3. ASSUME Opens(kernel, f, "listening"),
               NEW s \in Attached(t, "listening"), obj' = [obj EXCEPT ![o] = s]
        PROVE  OwnershipInv'
    <3>1. s \in Socket /\ s.sock = f /\ s.alive
      BY <2>1, <2>3, AttachedTypes
    <3>2. Replaces(o, s)
      BY <1>1, <2>3, <3>1 DEF Opens, TypeOK, Kernel, Replaces
    <3>3. QED
      BY <3>2, ReplaceOne
  <2>4. QED
    BY <1>8, <2>2, <2>3 DEF Listen
<1>9. ASSUME NEW o \in Objects, Close(o)
      PROVE  OwnershipInv'
  <2> DEFINE s == Closed(obj[o])
  <2>1. s \in Socket /\ s.sock = INVALID /\ s.alive
    BY <1>1, <1>9, RecordTypes DEF TypeOK, Close
  <2>2. Replaces(o, s)
    BY <1>1, <1>9, <2>1, FdsAssumption
       DEF Close, TypeOK, INVALID, Kernel, Replaces, Released
  <2>3. QED
    BY <2>2, ReplaceOne
<1>10. ASSUME NEW o \in Objects, Destroy(o)
       PROVE  OwnershipInv'
  <2>1. Replaces(o, Dead)
    BY <1>1, <1>10, RawTypes, FdsAssumption
       DEF Destroy, TypeOK, INVALID, Kernel, Replaces, Released
  <2>2. QED
    BY <2>1, ReplaceOne
<1>11. ASSUME NEW o \in Objects, NEW p \in Objects, MoveConstruct(o, p)
       PROVE  OwnershipInv'
  <2>1. obj[p] \in Socket /\ obj[p].alive /\ o # p
    BY <1>1, <1>11 DEF TypeOK, MoveConstruct
  <2>2. kernel = Released(obj[o])
    BY <1>1, <1>11, FdsAssumption
       DEF TypeOK, DeadHoldNothing, MoveConstruct, Released, INVALID
  <2>3. MovedFrom(obj[p]) \in Socket /\ MovedFrom(obj[p]).sock = INVALID
    BY <2>1, RecordTypes
  <2>4. QED
    BY <1>11, <2>1, <2>2, <2>3, Transfer DEF MoveConstruct
<1>12. ASSUME NEW o \in Objects, NEW p \in Objects, MoveAssign(o, p)
       PROVE  OwnershipInv'
  <2>1. AssignedFrom(obj[p]) \in Socket /\ AssignedFrom(obj[p]).sock = INVALID
    BY <1>1, RecordTypes DEF TypeOK
  <2>2. QED
    BY <1>12, <2>1, Transfer DEF MoveAssign
<1>13. ASSUME NEW o \in Objects, NEW b \in BOOLEAN, SetNonBlocking(o, b)
       PROVE  OwnershipInv'
  <2> DEFINE s == [obj[o] EXCEPT !.non_blocking = b]
  <2>1. s \in Socket /\ s.sock = obj[o].sock /\ s.alive
    BY <1>1, <1>13 DEF TypeOK, Socket, SetNonBlocking
  <2>2. Replaces(o, s)
    BY <1>1, <1>13, <2>1 DEF SetNonBlocking, TypeOK, Replaces, NoDangling, Holds
  <2>3. QED
    BY <2>2, ReplaceOne
<1>14. ASSUME NEW o \in Objects, NEW value \in BOOLEAN, SetSecure(o, value)
       PROVE  OwnershipInv'
  <2> DEFINE s == Secured(obj[o], value)
  <2>1. s \in Socket /\ s.sock = obj[o].sock /\ s.alive
    BY <1>1, <1>14, RecordTypes DEF TypeOK, SetSecure
  <2>2. Replaces(o, s)
    BY <1>1, <1>14, <2>1 DEF SetSecure, TypeOK, Replaces, NoDangling, Holds
  <2>3. QED
    BY <2>2, ReplaceOne
<1>15. QED
  BY <1>2, <1>3, <1>4, <1>5, <1>6, <1>7, <1>8, <1>9, <1>10, <1>11, <1>12, <1>13,
     <1>14 DEF Next

\* No object is alive at first, so nothing is held.
LEMMA OwnershipInit == Init => OwnershipInv
<1> SUFFICES ASSUME Init PROVE OwnershipInv
  OBVIOUS
<1>1. TypeOK
  BY RawTypes DEF Init, TypeOK, Kernel
<1>2. \A o \in Objects : obj[o].sock = INVALID /\ ~obj[o].alive
  BY RawTypes DEF Init
<1>3. QED
  BY <1>1, <1>2 DEF OwnershipInv, DeadHoldNothing, NoDangling, UniqueOwner, Holds

\* The ownership invariant holds in every reachable state.
LEMMA Ownership == Spec => []OwnershipInv
<1>1. Init => OwnershipInv
  BY OwnershipInit
<1>2. OwnershipInv /\ [Next]_vars => OwnershipInv'
  BY OwnershipStep
<1>3. QED
  BY <1>1, <1>2, PTL DEF Spec

\* Whatever the program does with its sockets, the objects and the descriptor
\* table stay within their types: no member function stores a number that is
\* neither INVALID nor a descriptor.
THEOREM TypeCorrect == Spec => []TypeOK
<1>1. OwnershipInv => TypeOK
  BY DEF OwnershipInv
<1>2. QED
  BY <1>1, Ownership, PTL

\* Whatever the program does, no object holds a closed descriptor.
THEOREM NeverDangling == Spec => []NoDangling
<1>1. OwnershipInv => NoDangling
  BY DEF OwnershipInv
<1>2. QED
  BY <1>1, Ownership, PTL

\* Whatever the program does, a descriptor has at most one owner.
THEOREM OneOwner == Spec => []UniqueOwner
<1>1. OwnershipInv => UniqueOwner
  BY DEF OwnershipInv
<1>2. QED
  BY <1>1, Ownership, PTL

-----------------------------------------------------------------------------
(***************************************************************************)
(* The TLS handle.  A socket that is not valid has no handle on any        *)
(* descriptor, so a fresh descriptor never meets an old one.               *)
(***************************************************************************)

\* Every step keeps the TLS handle on its object's own descriptor.
LEMMA SessionStep ==
    ASSUME ~Relisten, TypeOK, SessionOnOwnDescriptor, [Next]_vars
    PROVE  SessionOnOwnDescriptor'
<1> DEFINE Own(s) == s.bio # INVALID => s.bio = s.sock
<1>1. \A o \in Objects : obj[o] \in Socket /\ Own(obj[o])
  BY DEF TypeOK, SessionOnOwnDescriptor
<1>2. SUFFICES ASSUME NEW o \in Objects PROVE Own(obj'[o])
  BY DEF SessionOnOwnDescriptor
<1>3. Own(Fresh) /\ Own(Dead) /\ \A f \in Fds : Own(Raw(f))
  BY DEF Fresh, Dead, Raw
<1>4. ASSUME NEW s \in Socket, Own(s)
      PROVE  /\ Own(Closed(s)) /\ Own(Reset(s)) /\ Own(MovedFrom(s))
             /\ Own(AssignedFrom(s)) /\ \A v \in BOOLEAN : Own(Secured(s, v))
             /\ Reset(s).bio = INVALID
  BY <1>4 DEF Closed, ShutdownLayer, Reset, IsValid, MovedFrom, AssignedFrom,
              Secured, Socket
<1>5. ASSUME NEW s \in Socket, NEW state, NEW t \in Attached(s, state), Own(s)
      PROVE  Own(t)
  BY <1>5, AttachedTypes
<1>6. CASE UNCHANGED vars
  BY <1>1, <1>6 DEF vars
<1>7. ASSUME NEW p \in Objects, Construct(p) PROVE Own(obj'[o])
  BY <1>1, <1>3, <1>7 DEF Construct, TypeOK
<1>8. ASSUME NEW p \in Objects, NEW l \in Objects, NEW f \in Fds, Accept(l, p, f)
      PROVE  Own(obj'[o])
  BY <1>1, <1>3, <1>8 DEF Accept, TypeOK
<1>9. ASSUME NEW p \in Objects, NEW v \in BOOLEAN, ConstructConnect(p, v)
      PROVE  Own(obj'[o])
  <2>1. Own(Secured(Fresh, v)) /\ \A f \in Fds : Own(Secured(Raw(f), v))
    BY <1>3, <1>4, RawTypes
  <2>2. \A f \in Fds : \A s \in Attached(Secured(Raw(f), v), "connected") : Own(s)
    BY <2>1, <1>5, RecordTypes, RawTypes
  <2>3. QED
    BY <1>1, <1>3, <1>9, <2>1, <2>2 DEF ConstructConnect, TypeOK
<1>10. ASSUME NEW p \in Objects, ConnectFail(p) PROVE Own(obj'[o])
  BY <1>1, <1>4, <1>10 DEF ConnectFail, TypeOK
<1>11. ASSUME NEW p \in Objects, NEW f \in Fds, Connect(p, f)
       PROVE  Own(obj'[o])
  <2> DEFINE t == [Reset(obj[p]) EXCEPT !.sock = f, !.moved = FALSE]
  <2>1. Reset(obj[p]) \in Socket /\ Reset(obj[p]).bio = INVALID
    BY <1>1, <1>4, RecordTypes
  <2>2. t \in Socket /\ Own(t)
    BY <2>1 DEF Socket
  <2>3. \A s \in Attached(t, "connected") : Own(s)
    BY <2>2, <1>5
  <2>4. QED
    BY <1>1, <1>11, <2>3 DEF Connect, TypeOK
<1>12. ASSUME NEW p \in Objects, NEW f \in Fds, Listen(p, f)
       PROVE  Own(obj'[o])
  <2> DEFINE t == [obj[p] EXCEPT !.sock = f, !.moved = FALSE]
  <2>1. obj[p].bio = INVALID
    BY <1>1, <1>12 DEF Listen, IsValid
  <2>2. t \in Socket /\ Own(t)
    BY <1>1, <2>1 DEF Socket
  <2>3. \A s \in Attached(t, "listening") : Own(s)
    BY <2>2, <1>5
  <2>4. QED
    BY <1>1, <1>12, <2>2, <2>3 DEF Listen, TypeOK
<1>13. ASSUME NEW p \in Objects, Close(p) \/ Destroy(p)
       PROVE  Own(obj'[o])
  BY <1>1, <1>3, <1>4, <1>13 DEF Close, Destroy, TypeOK
<1>14. ASSUME NEW p \in Objects, NEW q \in Objects,
              MoveConstruct(p, q) \/ MoveAssign(p, q)
       PROVE  Own(obj'[o])
  <2>1. obj'[o] \in {obj[o], obj[q], MovedFrom(obj[q]), AssignedFrom(obj[q])}
    BY <1>14 DEF MoveConstruct, MoveAssign, TypeOK
  <2>2. Own(obj[o]) /\ Own(obj[q]) /\ Own(MovedFrom(obj[q])) /\ Own(AssignedFrom(obj[q]))
    BY <1>1, <1>4
  <2> HIDE DEF Own
  <2>3. QED
    BY <2>1, <2>2
<1>15. ASSUME NEW p \in Objects, NEW b \in BOOLEAN, SetNonBlocking(p, b)
       PROVE  Own(obj'[o])
  BY <1>1, <1>15 DEF SetNonBlocking, TypeOK, Socket
<1>16. ASSUME NEW p \in Objects, NEW v \in BOOLEAN, SetSecure(p, v)
       PROVE  Own(obj'[o])
  BY <1>1, <1>4, <1>16 DEF SetSecure, TypeOK
<1>17. QED
  BY <1>6, <1>7, <1>8, <1>9, <1>10, <1>11, <1>12, <1>13, <1>14, <1>15, <1>16
     DEF Next

\* As long as listen() is called on sockets that are not valid (socket_server
\* refuses the other case), a TLS handle never outlives the descriptor it was
\* set on, whatever is moved, closed, reconnected or made secure in between.
THEOREM SessionSafe == ~Relisten => (Spec => []SessionOnOwnDescriptor)
<1> SUFFICES ASSUME ~Relisten PROVE Spec => []SessionOnOwnDescriptor
  OBVIOUS
<1>1. Init => SessionOnOwnDescriptor
  BY DEF Init, SessionOnOwnDescriptor, Dead, Fresh, Raw
<1>2. TypeOK /\ SessionOnOwnDescriptor /\ [Next]_vars => SessionOnOwnDescriptor'
  BY SessionStep
<1>3. QED
  BY <1>1, <1>2, TypeCorrect, PTL DEF Spec

-----------------------------------------------------------------------------
(***************************************************************************)
(* Blocking mode.  A socket that is not valid, unless a move emptied it,   *)
(* says "blocking", which is what a fresh descriptor is.                   *)
(***************************************************************************)

\* What object s says of itself agrees with table entry flag(s.sock).
ModeOf(s, fl) ==
    s.alive => /\ s.sock \in Fds => s.non_blocking = fl[s.sock]
               /\ s.sock = INVALID /\ ~s.moved => ~s.non_blocking
               /\ s.moved => s.sock = INVALID

ModeInv == \A o \in Objects : ModeOf(obj[o], flags)

\* close() leaves non_blocking_ as it is for a new descriptor.
LEMMA ClosedMode ==
    ASSUME NEW s \in Socket
    PROVE  ~Closed(s).non_blocking /\ MovedFrom(s).moved /\ AssignedFrom(s).moved
           /\ Closed(s).moved = s.moved
BY DEF Socket, Closed, ShutdownLayer, MovedFrom, AssignedFrom

\* set_secure changes neither the descriptor nor the mode.
LEMMA SecuredMode ==
    ASSUME NEW s \in Socket, NEW v \in BOOLEAN
    PROVE  Secured(s, v).non_blocking = s.non_blocking /\ Secured(s, v).moved = s.moved
BY DEF Socket, Secured

\* Every step keeps non_blocking_ equal to O_NONBLOCK.
LEMMA ModeStep ==
    ASSUME ~Relisten, ~ReuseMoved, OwnershipInv, ModeInv, [Next]_vars
    PROVE  ModeInv'
<1>1. \A o \in Objects : obj[o] \in Socket /\ ModeOf(obj[o], flags)
  BY DEF OwnershipInv, TypeOK, ModeInv
<1>2. SUFFICES ASSUME NEW o \in Objects PROVE ModeOf(obj'[o], flags')
  BY DEF ModeInv
<1> USE FdsAssumption DEF INVALID

\* An object left alone is not disturbed by the opening of a descriptor.
<1>3. ASSUME NEW p \in Objects, o # p, NEW f \in Fds, NEW st,
             Opens(kernel, f, st) \/ Opens(Released(obj[p]), f, st)
      PROVE  ModeOf(obj[o], flags')
  <2>1. ASSUME obj[o].alive, obj[o].sock = f PROVE FALSE
    <3>1. kernel[f] # "free"
      BY <2>1 DEF OwnershipInv, NoDangling, Holds
    <3>2. obj[p].sock # f
      <4>1. CASE obj[p].alive
        BY <1>3, <2>1, <4>1, Zenon DEF OwnershipInv, UniqueOwner, Holds
      <4>2. CASE ~obj[p].alive
        BY <1>3, <4>2 DEF OwnershipInv, DeadHoldNothing
      <4> QED
        BY <4>1, <4>2
    <3>3. QED
      BY <1>3, <3>1, <3>2 DEF Opens, Released, OwnershipInv, TypeOK
  <2>2. flags' = [flags EXCEPT ![f] = FALSE]
    BY <1>3 DEF Opens
  <2>3. QED
    BY <1>1, <2>1, <2>2 DEF ModeOf, OwnershipInv, TypeOK
<1>4. \A fl : /\ ModeOf(Fresh, fl) /\ ModeOf(Dead, fl)
              /\ \A v \in BOOLEAN : ModeOf(Secured(Fresh, v), fl)
  BY RawTypes, RecordTypes, SecuredMode DEF ModeOf
<1>5. ASSUME NEW s \in Socket, NEW fl, ModeOf(s, fl)
      PROVE  /\ ModeOf(Closed(s), fl) /\ ModeOf(Reset(s), fl)
             /\ ModeOf(MovedFrom(s), fl) /\ ModeOf(AssignedFrom(s), fl)
             /\ \A v \in BOOLEAN : ModeOf(Secured(s, v), fl)
  <2>0. /\ Closed(s).sock = INVALID /\ ~Closed(s).non_blocking
        /\ MovedFrom(s).sock = INVALID /\ MovedFrom(s).moved
        /\ AssignedFrom(s).sock = INVALID /\ AssignedFrom(s).moved
    BY RecordTypes, ClosedMode
  <2>1. ModeOf(Closed(s), fl)
    BY <2>0 DEF ModeOf
  <2>2. ModeOf(Reset(s), fl)
    BY <1>5, <2>1 DEF Reset
  <2>3. ModeOf(MovedFrom(s), fl) /\ ModeOf(AssignedFrom(s), fl)
    BY <2>0 DEF ModeOf
  <2>4. \A v \in BOOLEAN : ModeOf(Secured(s, v), fl)
    BY <1>5, RecordTypes, SecuredMode DEF ModeOf
  <2>5. QED
    BY <2>1, <2>2, <2>3, <2>4

\* A blocking object put on a fresh descriptor agrees with it.
<1>6. ASSUME NEW f \in Fds, flags' = [flags EXCEPT ![f] = FALSE], NEW s \in Socket,
             s.sock = f, ~s.non_blocking, ~s.moved
      PROVE  ModeOf(s, flags')
  <2>1. flags'[f] = FALSE
    BY <1>6 DEF OwnershipInv, TypeOK
  <2>2. s.non_blocking = FALSE
    BY <1>6 DEF Socket
  <2>3. QED
    BY <1>6, <2>1, <2>2 DEF ModeOf
<1>7. CASE UNCHANGED vars
  BY <1>1, <1>7 DEF vars
<1>8. ASSUME NEW p \in Objects, Construct(p) PROVE ModeOf(obj'[o], flags')
  BY <1>1, <1>4, <1>8 DEF Construct, OwnershipInv, TypeOK
<1>9. ASSUME NEW p \in Objects, NEW l \in Objects, NEW f \in Fds, Accept(l, p, f)
      PROVE  ModeOf(obj'[o], flags')
  <2>1. ModeOf(Raw(f), flags')
    BY <1>9, <1>6, RawTypes DEF Accept, Opens
  <2>2. o # p => ModeOf(obj[o], flags')
    BY <1>3, <1>9 DEF Accept
  <2>3. QED
    BY <1>9, <2>1, <2>2 DEF Accept, OwnershipInv, TypeOK
<1>10. ASSUME NEW p \in Objects, NEW v \in BOOLEAN, ConstructConnect(p, v)
       PROVE  ModeOf(obj'[o], flags')
  <2>1. CASE /\ obj' = [obj EXCEPT ![p] = Secured(Fresh, v)]
             /\ UNCHANGED <<kernel, flags>>
    BY <1>1, <1>4, <2>1 DEF OwnershipInv, TypeOK
  <2>2. ASSUME NEW f \in Fds, Opens(kernel, f, "connected"),
               NEW s \in Attached(Secured(Raw(f), v), "connected"),
               obj' = [obj EXCEPT ![p] = IF s.ssl = "broken" THEN Dead ELSE s]
        PROVE  ModeOf(obj'[o], flags')
    <3> DEFINE t == Secured(Raw(f), v)
    <3>1. t \in Socket /\ t.sock = f
      BY RecordTypes, RawTypes
    <3>2. ~t.non_blocking /\ ~t.moved
      BY RawTypes, SecuredMode
    <3>3. ModeOf(s, flags')
      <4>1. /\ s \in Socket /\ s.sock = f
            /\ s.non_blocking = t.non_blocking /\ s.moved = t.moved
        BY <2>2, <3>1, AttachedTypes
      <4>2. QED
        BY <2>2, <3>2, <4>1, <1>6 DEF Opens
    <3>4. o # p => ModeOf(obj[o], flags')
      BY <1>3, <2>2
    <3>5. QED
      BY <2>2, <3>3, <3>4, <1>4 DEF OwnershipInv, TypeOK
  <2>3. QED
    BY <1>10, <2>1, <2>2 DEF ConstructConnect
<1>11. ASSUME NEW p \in Objects, ConnectFail(p) PROVE ModeOf(obj'[o], flags')
  BY <1>1, <1>5, <1>11 DEF ConnectFail, OwnershipInv, TypeOK
<1>12. ASSUME NEW p \in Objects, NEW f \in Fds, Connect(p, f)
       PROVE  ModeOf(obj'[o], flags')
  <2> DEFINE t == [Reset(obj[p]) EXCEPT !.sock = f, !.moved = FALSE]
  <2>1. Reset(obj[p]) \in Socket
    BY <1>1, RecordTypes
  <2>2. ~Reset(obj[p]).non_blocking
    BY <1>1, <1>12, ClosedMode DEF Connect, Usable, ModeOf, Reset, IsValid
  <2>3. t \in Socket /\ t.sock = f /\ ~t.non_blocking /\ ~t.moved
    BY <2>1, <2>2 DEF Socket
  <2>4. \A s \in Attached(t, "connected") : ModeOf(s, flags')
    <3> HIDE DEF t
    <3>1. \A s \in Attached(t, "connected") :
            /\ s \in Socket /\ s.sock = f
            /\ s.non_blocking = t.non_blocking /\ s.moved = t.moved
      BY <2>3, AttachedTypes
    <3>2. flags' = [flags EXCEPT ![f] = FALSE]
      BY <1>12 DEF Connect, Opens
    <3>3. QED
      BY <2>3, <3>1, <3>2, <1>6
  <2>5. o # p => ModeOf(obj[o], flags')
    BY <1>3, <1>12 DEF Connect
  <2>6. QED
    BY <1>12, <2>4, <2>5 DEF Connect, OwnershipInv, TypeOK
<1>13. ASSUME NEW p \in Objects, NEW f \in Fds, Listen(p, f)
       PROVE  ModeOf(obj'[o], flags')
  <2> DEFINE t == [obj[p] EXCEPT !.sock = f, !.moved = FALSE]
  <2>1. ~obj[p].non_blocking
    BY <1>1, <1>13 DEF Listen, Usable, ModeOf, IsValid
  <2>2. t \in Socket /\ t.sock = f /\ ~t.non_blocking /\ ~t.moved
    BY <1>1, <2>1 DEF Socket
  <2>3. ModeOf(t, flags') /\ \A s \in Attached(t, "listening") : ModeOf(s, flags')
    <3> HIDE DEF t
    <3>1. \A s \in Attached(t, "listening") :
            /\ s \in Socket /\ s.sock = f
            /\ s.non_blocking = t.non_blocking /\ s.moved = t.moved
      BY <2>2, AttachedTypes
    <3>2. flags' = [flags EXCEPT ![f] = FALSE]
      BY <1>13 DEF Listen, Opens
    <3>3. QED
      BY <2>2, <3>1, <3>2, <1>6
  <2>4. o # p => ModeOf(obj[o], flags')
    BY <1>3, <1>13 DEF Listen
  <2>5. QED
    BY <1>13, <2>3, <2>4 DEF Listen, OwnershipInv, TypeOK
<1>14. ASSUME NEW p \in Objects, Close(p) \/ Destroy(p)
       PROVE  ModeOf(obj'[o], flags')
  BY <1>1, <1>4, <1>5, <1>14 DEF Close, Destroy, OwnershipInv, TypeOK
<1>15. ASSUME NEW p \in Objects, NEW q \in Objects,
              MoveConstruct(p, q) \/ MoveAssign(p, q)
       PROVE  ModeOf(obj'[o], flags')
  BY <1>1, <1>5, <1>15 DEF MoveConstruct, MoveAssign, OwnershipInv, TypeOK
<1>16. ASSUME NEW p \in Objects, NEW b \in BOOLEAN, SetNonBlocking(p, b)
       PROVE  ModeOf(obj'[o], flags')
  <2>1. o # p /\ obj[o].alive => obj[o].sock # obj[p].sock \/ obj[o].sock = INVALID
    BY <1>1, <1>16 DEF SetNonBlocking, OwnershipInv, UniqueOwner, Holds, Socket
  <2>2. obj[p].sock \in Fds /\ obj[p].alive
    BY <1>1, <1>16 DEF SetNonBlocking, IsValid, Socket
  <2>3. CASE o = p
    BY <1>1, <1>16, <2>2, <2>3
       DEF SetNonBlocking, ModeOf, OwnershipInv, TypeOK, Socket
  <2>4. CASE o # p
    BY <1>1, <1>16, <2>1, <2>2, <2>4
       DEF SetNonBlocking, ModeOf, OwnershipInv, TypeOK, Socket
  <2>5. QED
    BY <2>3, <2>4
<1>17. ASSUME NEW p \in Objects, NEW v \in BOOLEAN, SetSecure(p, v)
       PROVE  ModeOf(obj'[o], flags')
  BY <1>1, <1>5, <1>17 DEF SetSecure, OwnershipInv, TypeOK
<1>18. QED
  BY <1>7, <1>8, <1>9, <1>10, <1>11, <1>12, <1>13, <1>14, <1>15, <1>16, <1>17
     DEF Next

\* As long as connect() and listen() are not called on moved-from sockets, nor
\* listen() on valid ones, is_non_blocking() tells the mode of the descriptor.
THEOREM ModeSafe == ~Relisten /\ ~ReuseMoved => (Spec => []ModeAgrees)
<1> SUFFICES ASSUME ~Relisten, ~ReuseMoved PROVE Spec => []ModeAgrees
  OBVIOUS
<1>1. Init => ModeInv
  BY RawTypes DEF Init, ModeInv, ModeOf
<1>2. OwnershipInv /\ ModeInv /\ [Next]_vars => ModeInv'
  BY ModeStep
<1>3. OwnershipInv /\ ModeInv => ModeAgrees
  BY FdsAssumption DEF OwnershipInv, TypeOK, ModeInv, ModeOf, ModeAgrees, IsValid,
                       Socket, INVALID
<1>4. QED
  BY <1>1, <1>2, <1>3, Ownership, PTL DEF Spec

-----------------------------------------------------------------------------
(***************************************************************************)
(* RAII.  A descriptor that has an owner has one until it is closed; and   *)
(* without a TLS layer no constructor throws after it has opened one.      *)
(***************************************************************************)

\* What is open after a step is owned after it, if it was owned before it or the
\* step opened it; a step that opens it must not be the throwing constructor.
LEMMA OwnerStep ==
    ASSUME ~Relisten, OwnershipInv, [Next]_vars,
           NEW f \in Fds, kernel'[f] # "free",
           kernel[f] # "free" => \E o \in Objects : Holds(o, f),
           ~OpenSSL \/ kernel[f] # "free"
    PROVE  \E o \in Objects : Holds(o, f)'
<1> USE FdsAssumption DEF INVALID
<1>1. obj \in [Objects -> Socket] /\ kernel \in [Fds -> Kernel]
  BY DEF OwnershipInv, TypeOK
<1>2. kernel'[f] # "free"
  OBVIOUS
<1>3. kernel[f] # "free" => \E o \in Objects : Holds(o, f)
  OBVIOUS
<1>4. CASE UNCHANGED vars
  BY <1>2, <1>3, <1>4 DEF vars, Holds

\* Object o now holds g, which the step opened, and nothing else was opened.
<1>5. ASSUME NEW o \in Objects, NEW s \in Socket, s.alive, NEW g \in Fds, s.sock = g,
             obj' = [obj EXCEPT ![o] = s],
             kernel'[f] # "free" => f = g \/ (kernel[f] # "free" /\ obj[o].sock # f)
      PROVE  \E q \in Objects : Holds(q, f)'
  <2>1. CASE f = g
    BY <1>1, <1>5, <2>1 DEF Holds
  <2>2. CASE f # g
    BY <1>1, <1>2, <1>3, <1>5, <2>2 DEF Holds
  <2>3. QED
    BY <2>1, <2>2

\* Object o no longer holds anything, and what it held is closed.
<1>6. ASSUME NEW o \in Objects, NEW s \in Socket, obj' = [obj EXCEPT ![o] = s],
             kernel' = Released(obj[o])
      PROVE  \E q \in Objects : Holds(q, f)'
  <2>1. kernel[f] # "free" /\ obj[o].sock # f
    BY <1>1, <1>2, <1>6 DEF Released
  <2>2. QED
    BY <1>1, <1>3, <1>6, <2>1 DEF Holds

\* Object o, which held nothing, still holds nothing.
<1>7. ASSUME NEW o \in Objects, NEW s \in Socket, obj' = [obj EXCEPT ![o] = s],
             ~obj[o].alive, UNCHANGED kernel
      PROVE  \E q \in Objects : Holds(q, f)'
  BY <1>1, <1>2, <1>3, <1>7 DEF Holds
<1>8. ASSUME NEW o \in Objects, Construct(o) PROVE \E q \in Objects : Holds(q, f)'
  BY <1>7, <1>8, RawTypes DEF Construct
<1>9. ASSUME NEW o \in Objects, NEW l \in Objects, NEW g \in Fds, Accept(l, o, g)
      PROVE  \E q \in Objects : Holds(q, f)'
  <2>1. obj[o].sock # f
    BY <1>1, <1>9 DEF Accept, OwnershipInv, DeadHoldNothing
  <2>2. QED
    BY <1>1, <1>5, <1>9, <2>1, RawTypes DEF Accept, Opens
<1>10. ASSUME NEW o \in Objects, NEW v \in BOOLEAN, ConstructConnect(o, v)
       PROVE  \E q \in Objects : Holds(q, f)'
  <2>1. obj[o].sock # f /\ ~obj[o].alive
    BY <1>1, <1>10 DEF ConstructConnect, OwnershipInv, DeadHoldNothing
  <2>2. CASE /\ obj' = [obj EXCEPT ![o] = Secured(Fresh, v)]
             /\ UNCHANGED <<kernel, flags>>
    BY <1>7, <2>1, <2>2, RawTypes, RecordTypes
  <2>3. ASSUME NEW g \in Fds, Opens(kernel, g, "connected"),
               NEW s \in Attached(Secured(Raw(g), v), "connected"),
               obj' = [obj EXCEPT ![o] = IF s.ssl = "broken" THEN Dead ELSE s]
        PROVE  \E q \in Objects : Holds(q, f)'
    <3> DEFINE t == Secured(Raw(g), v)
    <3>0. CASE kernel[f] # "free"
      <4>1. PICK q \in Objects : Holds(q, f)
        BY <1>3, <3>0
      <4>2. q # o /\ obj'[q] = obj[q]
        BY <1>1, <2>1, <2>3, <4>1 DEF Holds
      <4> QED
        BY <4>1, <4>2 DEF Holds
    <3> SUFFICES ASSUME ~OpenSSL PROVE \E q \in Objects : Holds(q, f)'
      BY <3>0
    <3>1. t \in Socket /\ t.sock = g /\ t.alive
      BY RecordTypes, RawTypes
    <3>2. t.ssl = "none"
      BY DEF Raw, Secured
    <3>3. s = t
      BY <2>3, <3>2 DEF Attached
    <3>4. obj' = [obj EXCEPT ![o] = t]
      BY <2>3, <3>2, <3>3
    <3>5. kernel'[f] # "free" => f = g \/ kernel[f] # "free"
      BY <1>1, <2>3 DEF Opens
    <3> HIDE DEF t
    <3>6. QED
      BY <1>5, <2>1, <3>1, <3>4, <3>5
  <2>4. QED
    BY <1>10, <2>2, <2>3 DEF ConstructConnect
<1>11. ASSUME NEW o \in Objects, ConnectFail(o) \/ Close(o) \/ Destroy(o)
       PROVE  \E q \in Objects : Holds(q, f)'
  <2>1. Reset(obj[o]) \in Socket /\ Closed(obj[o]) \in Socket /\ Dead \in Socket
    BY <1>1, RecordTypes, RawTypes
  <2>2. QED
    BY <1>6, <1>11, <2>1 DEF ConnectFail, Close, Destroy
<1>12. ASSUME NEW o \in Objects, NEW g \in Fds, Connect(o, g)
       PROVE  \E q \in Objects : Holds(q, f)'
  <2> DEFINE t == [Reset(obj[o]) EXCEPT !.sock = g, !.moved = FALSE]
  <2>1. Reset(obj[o]) \in Socket /\ Reset(obj[o]).alive
    BY <1>1, <1>12, RecordTypes DEF Connect, Usable
  <2>2. t \in Socket /\ t.sock = g /\ t.alive
    BY <2>1 DEF Socket
  <2>3. PICK s \in Attached(t, "connected") : obj' = [obj EXCEPT ![o] = s]
    BY <1>12 DEF Connect
  <2> HIDE DEF t
  <2>4. s \in Socket /\ s.sock = g /\ s.alive
    BY ONLY <2>2, <2>3, AttachedTypes
  <2>5. kernel'[f] # "free" => f = g \/ (kernel[f] # "free" /\ obj[o].sock # f)
    BY <1>1, <1>12 DEF Connect, Opens, Released
  <2>6. QED
    BY <1>5, <2>3, <2>4, <2>5
<1>13. ASSUME NEW o \in Objects, NEW g \in Fds, Listen(o, g)
       PROVE  \E q \in Objects : Holds(q, f)'
  <2> DEFINE t == [obj[o] EXCEPT !.sock = g, !.moved = FALSE]
  <2>1. obj[o].sock = INVALID
    BY <1>13 DEF Listen, IsValid
  <2>2. t \in Socket /\ t.sock = g /\ t.alive
    BY <1>1, <1>13 DEF Listen, Usable, Socket
  <2>3. ASSUME NEW s \in Attached(t, "listening")
        PROVE  s \in Socket /\ s.sock = g /\ s.alive
    <3> HIDE DEF t
    <3>1. t \in Socket
      BY <2>2
    <3>2. s \in Socket /\ s.sock = t.sock /\ s.alive = t.alive
      BY <3>1, AttachedTypes
    <3>3. QED
      BY <2>2, <3>2
  <2>4. \/ obj' = [obj EXCEPT ![o] = t]
        \/ \E s \in Attached(t, "listening") : obj' = [obj EXCEPT ![o] = s]
    BY <1>13, Zenon DEF Listen
  <2> HIDE DEF t
  <2>7. PICK s \in Socket : s.sock = g /\ s.alive /\ obj' = [obj EXCEPT ![o] = s]
    BY <2>2, <2>3, <2>4, Zenon
  <2>5. kernel'[f] # "free" => f = g \/ (kernel[f] # "free" /\ obj[o].sock # f)
    BY <1>1, <1>13, <2>1 DEF Listen, Opens
  <2>6. QED
    BY <1>5, <2>5, <2>7
<1>14. ASSUME NEW o \in Objects, NEW p \in Objects,
              MoveConstruct(o, p) \/ MoveAssign(o, p)
       PROVE  \E q \in Objects : Holds(q, f)'
  <2>1. kernel[f] # "free" /\ (Holds(o, f) => FALSE)
    BY <1>1, <1>2, <1>14 DEF MoveConstruct, MoveAssign, Released, Holds
  <2>2. PICK q \in Objects : Holds(q, f)
    BY <1>3, <2>1
  <2>3. Holds(IF q = p THEN o ELSE q, f)'
    BY <1>1, <1>14, <2>1, <2>2 DEF MoveConstruct, MoveAssign, Holds
  <2>4. QED
    BY <2>3
<1>15. ASSUME NEW o \in Objects,
              \/ \E b \in BOOLEAN : SetNonBlocking(o, b)
              \/ \E v \in BOOLEAN : SetSecure(o, v)
       PROVE  \E q \in Objects : Holds(q, f)'
  <2>1. \A v \in BOOLEAN : /\ Secured(obj[o], v).sock = obj[o].sock
                           /\ Secured(obj[o], v).alive = obj[o].alive
    BY <1>1, RecordTypes
  <2>2. \A q \in Objects : Holds(q, f) => Holds(q, f)'
    <3>1. CASE \E b \in BOOLEAN : SetNonBlocking(o, b)
      BY <1>1, <3>1 DEF SetNonBlocking, Holds, Socket
    <3>2. CASE \E v \in BOOLEAN : SetSecure(o, v)
      BY <1>1, <2>1, <3>2 DEF SetSecure, Holds
    <3>3. QED
      BY <1>15, <3>1, <3>2
  <2>3. QED
    BY <1>2, <1>3, <1>15, <2>2 DEF SetNonBlocking, SetSecure
<1>16. QED
  BY <1>4, <1>8, <1>9, <1>10, <1>11, <1>12, <1>13, <1>14, <1>15 DEF Next

\* Built without OpenSSL, and with listen() called on sockets that are not
\* valid, no sequence of operations leaves a descriptor open without an owner.
THEOREM LeakFree == ~Relisten /\ ~OpenSSL => (Spec => []NoLeak)
<1> SUFFICES ASSUME ~Relisten, ~OpenSSL PROVE Spec => []NoLeak
  OBVIOUS
<1>1. Init => NoLeak
  BY DEF Init, NoLeak
<1>2. OwnershipInv /\ NoLeak /\ [Next]_vars => NoLeak'
  <2> SUFFICES ASSUME OwnershipInv, NoLeak, [Next]_vars,
                      NEW f \in Fds, kernel'[f] # "free"
               PROVE  \E o \in Objects : Holds(o, f)'
    BY DEF NoLeak, Owned
  <2> QED
    BY OwnerStep DEF NoLeak, Owned
<1>3. QED
  BY <1>1, <1>2, Ownership, PTL DEF Spec

\* With or without OpenSSL, and with listen() called on sockets that are not
\* valid: no operation takes a descriptor from its last owner without closing it.
THEOREM OwnedTillClosed == ~Relisten => (Spec => NeverOrphaned)
<1> SUFFICES ASSUME ~Relisten PROVE Spec => NeverOrphaned
  OBVIOUS
<1>1. OwnershipInv /\ [Next]_vars
      => [\A f \in Fds : Owned(f) /\ ~Owned(f)' => kernel'[f] = "free"]_vars
  <2> SUFFICES ASSUME OwnershipInv, Next, NEW f \in Fds, Owned(f), kernel'[f] # "free"
               PROVE  Owned(f)'
    OBVIOUS
  <2>1. kernel[f] # "free"
    BY DEF OwnershipInv, NoDangling, Owned
  <2> QED
    BY <2>1, OwnerStep DEF Owned
<1>2. QED
  BY <1>1, Ownership, PTL DEF Spec, NeverOrphaned

=============================================================================
