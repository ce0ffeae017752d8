-------------------------- MODULE SyncServerProofs --------------------------
(***************************************************************************)
(* Proofs about SyncServer, for any number of connections, descriptors,    *)
(* starts and frequencies, and for both back ends.                         *)
(***************************************************************************)
EXTENDS SyncServer, DataLemmas, FiniteSetTheorems, SequenceTheorems, TLAPS

-----------------------------------------------------------------------------
(***************************************************************************)
(* The threads: who runs the loop, and what stop() has done already.       *)
(***************************************************************************)
LifeInv ==
    /\ ~bg /\ ~fg => spc = "none"
    /\ bg \/ fg => spc # "none"
    /\ ~(bg /\ fg)
    /\ spc = "done" => bg
    /\ stpc = "clear" => ~bg
    /\ stpc \in {"join", "clear"} => sock = INVALID
    /\ stpc \in {"shutdown", "closesocket", "invalidate"} => sock # INVALID
    /\ stpc = "idle" /\ sock = INVALID => ~bg

\* The types of the variables of the threads.
LifeTypes ==
    /\ bg \in BOOLEAN /\ fg \in BOOLEAN
    /\ stpc \in {"idle", "shutdown", "closesocket", "invalidate", "join", "clear"}
    /\ spc \in {"none", "check", "poll", "accept", "add", "iterate", "notify", "done", "dead"}

\* What an action of the loop does to the variables of the threads.
LoopStep ==
    /\ spc \in {"check", "poll", "accept", "add", "iterate", "notify"}
    /\ spc' \in {"check", "poll", "accept", "add", "iterate", "notify", "dead"}
    /\ UNCHANGED <<sock, bg, fg, stpc>>

\* The descriptor that a start gets.
LEMMA LowestFree ==
    ASSUME Free # {}
    PROVE  Min(Free) \in Fds /\ kernel[Min(Free)] = "free" /\ Min(Free) # INVALID
<1>1. Free \in SUBSET Nat /\ Free \subseteq Fds
  BY SyncAssumption DEF Free, Fds
<1>2. Min(Free) \in Free
  BY <1>1, MinNat
<1>3. QED
  BY <1>2 DEF Free, Fds, INVALID

\* Two free descriptors are at least one.
LEMMA TwoFree ==
    ASSUME Cardinality(Free) >= 2
    PROVE  Free # {} /\ Free \ {Min(Free)} # {}
<1>1. IsFiniteSet(Free)
  <2>1. Free \in SUBSET Fds /\ IsFiniteSet(Fds)
    BY SyncAssumption, FS_Interval DEF Free, Fds
  <2>2. QED
    BY <2>1, FS_Subset
<1>2. Free # {}
  BY FS_EmptySet
<1>3. Cardinality(Free \ {Min(Free)}) >= 1
  <2>1. /\ Cardinality(Free) \in Nat
        /\ Cardinality(Free \ {Min(Free)}) \in {Cardinality(Free), Cardinality(Free) - 1}
    BY <1>1, FS_RemoveElement, FS_CardinalityType, Zenon
  <2>2. QED
    BY <2>1
<1>4. QED
  BY <1>2, <1>3, FS_EmptySet

\* A start finds a descriptor, and with epoll two.
LEMMA StartFree ==
    ASSUME Listening
    PROVE  Free # {} /\ (backend = "epoll" => Cardinality(Free) >= 2)
<1>1. Cardinality(Free) >= IF backend = "epoll" THEN 2 ELSE 1
  BY Zenon DEF Listening
<1>2. QED
  BY <1>1, FS_EmptySet

\* The actions of the loop that neither look at sock_ nor leave the loop.
LEMMA LoopSteps ==
    ASSUME Loop
    PROVE  LoopStep \/ LoopCheck \/ SelectThrows
<1>1. ASSUME EpollEvent \/ EpollTimeout \/ Select PROVE LoopStep
  BY <1>1 DEF LoopStep, EpollEvent, EpollTimeout, Select, Goto, lifeVars
<1>2. ASSUME AcceptFails \/ Accept \/ AddSocket PROVE LoopStep
  BY <1>2 DEF LoopStep, AcceptFails, Accept, AfterSend, AddSocket, AfterAccept, Goto, lifeVars
<1>3. ASSUME Serve \/ ServeFails \/ ServeCloses \/ IterateDone PROVE LoopStep
  BY <1>3 DEF LoopStep, Serve, ServeFails, AfterSend, ServeCloses, IterateDone, Visiting, Goto, lifeVars
<1>4. ASSUME Notify \/ NotifyCloses PROVE LoopStep
  BY <1>4 DEF LoopStep, Notify, NotifyCloses, Goto, lifeVars
<1>5. QED
  BY <1>1, <1>2, <1>3, <1>4 DEF Loop

\* Peers and set_frequency change nothing about the threads.
LEMMA QuietSteps ==
    ASSUME \/ UNCHANGED vars
           \/ \E c \in Conns : PeerConnect(c) \/ PeerAsk(c) \/ PeerQuit(c)
           \/ \E f \in Frequencies : SetFrequency(f)
    PROVE  UNCHANGED <<sock, bg, fg, stpc, spc, cur, todo, kernel, sockets, inset, outset, ownClose,
                       maxdesc, output, backend>>
BY DEF vars, PeerConnect, PeerAsk, PeerQuit, SetFrequency, lifeVars, loopVars, kernelVars, connVars,
       setVars

\* Every step keeps LifeInv.
LEMMA LifeStep ==
    ASSUME LifeTypes, LifeInv, [Next]_vars
    PROVE  LifeTypes' /\ LifeInv'
<1> USE DEF LifeTypes, LifeInv
<1>1. CASE Start \/ StartInBackground
  <2>1. sock' # INVALID
    BY <1>1, StartFree, LowestFree DEF Start, StartInBackground, Listening
  <2>2. stpc = "idle" /\ ~fg /\ ~bg
    BY <1>1 DEF Start, StartInBackground, Listening, MayStart
  <2>3. stpc' = stpc /\ spc' = "check"
    BY <1>1 DEF Start, StartInBackground, Listening
  <2>4. (fg' /\ ~bg') \/ (bg' /\ ~fg')
    BY <1>1, <2>2 DEF Start, StartInBackground
  <2>5. bg' \in BOOLEAN /\ fg' \in BOOLEAN
    BY <1>1 DEF Start, StartInBackground
  <2>6. QED
    BY <2>1, <2>2, <2>3, <2>4, <2>5
<1>2. CASE StartFails
  BY <1>2, LowestFree DEF StartFails, MayStart, loopVars
<1>3. CASE Stop
  BY <1>3 DEF Stop, lifeVars, loopVars
<1>4. CASE StopStep
  <2>1. CASE StopShutdown \/ StopCloseSocket
    BY <2>1 DEF StopShutdown, StopCloseSocket, lifeVars, loopVars
  <2>2. CASE StopInvalidate
    BY <2>2 DEF StopInvalidate, loopVars
  <2>3. CASE StopJoin
    BY <2>3 DEF StopJoin
  <2>4. CASE StopClear
    BY <2>4 DEF StopClear, lifeVars, loopVars
  <2>5. QED
    BY <1>4, <2>1, <2>2, <2>3, <2>4 DEF StopStep
<1>5. CASE LoopStep
  BY <1>5 DEF LoopStep
<1>6. CASE LoopCheck
  <2>1. /\ spc = "check" /\ UNCHANGED <<sock, bg, stpc>>
        /\ spc' = IF sock # INVALID THEN "poll" ELSE IF fg THEN "none" ELSE "done"
        /\ fg' = (fg /\ sock # INVALID)
    BY <1>6 DEF LoopCheck
  <2>2. CASE sock # INVALID
    BY <2>1, <2>2
  <2>3. CASE sock = INVALID
    BY <2>1, <2>3
  <2>4. QED
    BY <2>2, <2>3
<1>7. CASE SelectThrows
  BY <1>7 DEF SelectThrows
<1>8. CASE UNCHANGED <<sock, bg, fg, stpc, spc>>
  BY <1>8
<1>9. CASE StartPollFails
  BY <1>8, <1>9 DEF StartPollFails, loopVars
<1>10. QED
  BY <1>1, <1>2, <1>3, <1>4, <1>5, <1>6, <1>8, <1>7, <1>9, LoopSteps, QuietSteps DEF Next

-----------------------------------------------------------------------------
(***************************************************************************)
(* The descriptor table and the map.  The listening descriptor is sock_    *)
(* until stop() has closed it; accept() adds nothing after that; and while *)
(* iterate_connections runs, no entry it has still to visit goes away.     *)
(***************************************************************************)
TableInv ==
    /\ MapMirrorsKernel
    /\ \A fd \in Fds : kernel[fd] = "server" => fd = sock /\ stpc # "invalidate"
    /\ sock # INVALID /\ stpc # "invalidate" => kernel[sock] = "server"
    /\ sock = INVALID \/ stpc = "invalidate" => lstate = "closed"
    /\ spc = "add" => cur \in Fds /\ kernel[cur] \in Conns \cup {"free"}
    /\ spc = "iterate" => \A fd \in todo : sockets[fd] # "none"

Descriptions == {"free", "server", "epoll"} \cup Conns

\* Opens changes the lowest free descriptor and no other.
LEMMA OpensLowest ==
    ASSUME NEW table \in [Fds -> Descriptions], NEW what \in Descriptions,
           NEW S \in SUBSET Fds, \A d \in Fds : d \in S <=> table[d] = "free", S # {}
    PROVE  /\ Min(S) \in Fds /\ table[Min(S)] = "free"
           /\ Opens(table, what) \in [Fds -> Descriptions]
           /\ Opens(table, what)[Min(S)] = what
           /\ \A d \in Fds : d # Min(S) => Opens(table, what)[d] = table[d]
<1>1. S \in SUBSET Nat
  BY SyncAssumption DEF Fds
<1>2. Min(S) \in S
  BY <1>1, MinNat
<1>3. Opens(table, what) = [table EXCEPT ![Min(S)] = what]
  <2>1. S = {d \in Fds : table[d] = "free"}
    OBVIOUS
  <2>2. QED
    BY <2>1 DEF Opens
<1>4. Min(S) \in Fds /\ table[Min(S)] = "free"
  BY <1>2
<1>5. QED
  BY <1>3, <1>4

\* What server::listen does to the table and to the sets.
LEMMA ListenFacts ==
    ASSUME TypeOK, Listening
    PROVE  /\ sock' \in Fds /\ kernel[sock'] = "free" /\ kernel'[sock'] = "server"
           /\ kernel' \in [Fds -> Descriptions]
           /\ \A fd \in Fds \ {sock'} :
                 kernel'[fd] = kernel[fd] \/ (kernel[fd] = "free" /\ kernel'[fd] = "epoll")
           /\ inset' \subseteq inset \cup {sock'} /\ outset' = outset
           /\ maxdesc' \in {maxdesc, sock'}
<1> DEFINE one == Opens(kernel, "server")
<1>1. kernel \in [Fds -> Descriptions] /\ {"server", "epoll"} \subseteq Descriptions
  BY DEF TypeOK, Descriptions
<1>2. sock' = Min(Free) /\ Free # {} /\ (backend = "epoll" => Free \ {Min(Free)} # {})
  BY TwoFree, StartFree DEF Listening
<1>3. sock' \in Fds /\ kernel[sock'] = "free"
      /\ Free \in SUBSET Fds /\ \A d \in Fds : d \in Free <=> kernel[d] = "free"
  BY <1>2, LowestFree DEF Free
<1>4. /\ one \in [Fds -> Descriptions] /\ one[sock'] = "server"
      /\ \A d \in Fds : d # sock' => one[d] = kernel[d]
  <2>1. "server" \in Descriptions
    BY <1>1
  <2>2. QED
    BY <1>1, <1>2, <1>3, <2>1, OpensLowest DEF one
<1> HIDE DEF one
<1>5. CASE backend = "epoll"
  <2>1. kernel' = Opens(one, "epoll") /\ UNCHANGED <<inset, outset, maxdesc>>
    BY <1>5 DEF Listening, EpollListen, setVars, one
  <2>2. PICK next \in Free : next # sock'
    BY <1>2, <1>5
  <2> DEFINE left == {d \in Fds : one[d] = "free"}
             low == Min(left)
  <2>3. left # {} /\ left \in SUBSET Fds /\ \A d \in Fds : d \in left <=> one[d] = "free"
    BY <1>3, <1>4, <2>2
  <2> HIDE DEF left
  <2>4. /\ low \in Fds /\ one[low] = "free" /\ kernel' \in [Fds -> Descriptions]
        /\ kernel'[low] = "epoll" /\ \A d \in Fds : d # low => kernel'[d] = one[d]
    <3>1. "epoll" \in Descriptions
      BY <1>1
    <3>2. /\ low \in Fds /\ one[low] = "free" /\ Opens(one, "epoll") \in [Fds -> Descriptions]
          /\ Opens(one, "epoll")[low] = "epoll"
          /\ \A d \in Fds : d # low => Opens(one, "epoll")[d] = one[d]
      BY <1>4, <2>3, <3>1, OpensLowest
    <3>3. QED
      BY <2>1, <3>2
  <2> HIDE DEF low
  <2>5. QED
    BY <1>3, <1>4, <2>1, <2>4
<1>6. CASE backend # "epoll"
  <2>1. kernel' = one /\ maxdesc' = sock' /\ inset' = inset \cup {sock'} /\ outset' = outset
    BY <1>2, <1>6 DEF Listening, SelectListen, one
  <2>2. QED
    BY <1>3, <1>4, <2>1
<1>7. QED
  BY <1>5, <1>6

\* What a start that fails in impl::listen does to the table.
LEMMA PollFailFacts ==
    ASSUME TypeOK, StartPollFails
    PROVE  /\ kernel' \in [Fds -> Descriptions]
           /\ \A fd \in Fds :
                 kernel'[fd] = kernel[fd] \/ (kernel[fd] = "free" /\ kernel'[fd] = "epoll")
<1> DEFINE one == Opens(kernel, "server")
           two == Opens(one, "epoll")
<1>1. kernel \in [Fds -> Descriptions] /\ {"server", "epoll", "free"} \subseteq Descriptions
  BY DEF TypeOK, Descriptions
<1>2. CASE UNCHANGED kernel
  BY <1>1, <1>2
<1>3. CASE Cardinality(Free) >= 2 /\ kernel' = [two EXCEPT ![Min(Free)] = "free"]
  <2>1. Free # {} /\ Free \ {Min(Free)} # {}
    BY <1>3, TwoFree
  <2>2. /\ Min(Free) \in Fds /\ kernel[Min(Free)] = "free"
        /\ Free \in SUBSET Fds /\ \A d \in Fds : d \in Free <=> kernel[d] = "free"
    BY <2>1, LowestFree DEF Free
  <2>3. /\ one \in [Fds -> Descriptions] /\ one[Min(Free)] = "server"
        /\ \A d \in Fds : d # Min(Free) => one[d] = kernel[d]
    <3>1. "server" \in Descriptions
      BY <1>1
    <3>2. QED
      BY <1>1, <2>1, <2>2, <3>1, OpensLowest DEF one
  <2> HIDE DEF one
  <2> DEFINE left == {d \in Fds : one[d] = "free"}
             low == Min(left)
  <2>4. left # {} /\ left \in SUBSET Fds /\ \A d \in Fds : d \in left <=> one[d] = "free"
    BY <2>1, <2>2, <2>3
  <2> HIDE DEF left
  <2>5. /\ low \in Fds /\ one[low] = "free" /\ two \in [Fds -> Descriptions]
        /\ two[low] = "epoll" /\ \A d \in Fds : d # low => two[d] = one[d]
    <3>1. "epoll" \in Descriptions
      BY <1>1
    <3>2. QED
      BY <2>3, <2>4, <3>1, OpensLowest
  <2> HIDE DEF low, two
  <2>6. \A d \in Fds : kernel'[d] = IF d = Min(Free) THEN "free" ELSE two[d]
    BY <1>3, <2>5
  <2>7. kernel' \in [Fds -> Descriptions]
    BY <1>1, <1>3, <2>5
  <2>8. low # Min(Free)
    BY <2>3, <2>5
  <2>9. QED
    BY <2>2, <2>3, <2>5, <2>6, <2>7, <2>8
<1>4. QED
  BY <1>2, <1>3 DEF StartPollFails, one, two

\* What a start that fails in ::listen, and what accept(), does to the table.
LEMMA OpenFacts ==
    ASSUME TypeOK, Free # {}, NEW what \in Descriptions
    PROVE  /\ Min(Free) \in Fds /\ kernel[Min(Free)] = "free"
           /\ Opens(kernel, what) \in [Fds -> Descriptions]
           /\ Opens(kernel, what)[Min(Free)] = what
           /\ \A d \in Fds : d # Min(Free) => Opens(kernel, what)[d] = kernel[d]
<1>1. kernel \in [Fds -> Descriptions]
  BY DEF TypeOK, Descriptions
<1>2. Min(Free) \in Fds /\ kernel[Min(Free)] = "free"
      /\ Free \in SUBSET Fds /\ \A d \in Fds : d \in Free <=> kernel[d] = "free"
  BY LowestFree DEF Free
<1>3. QED
  BY <1>1, <1>2, OpensLowest

\* The connection that iterate_connections visits is one.
LEMMA VisitFacts ==
    ASSUME TypeOK, TableInv, Visiting
    PROVE  Visited \in todo /\ Visited \in Fds /\ sockets[Visited] \in Conns
<1>1. todo \in SUBSET Nat /\ todo \subseteq Fds /\ todo # {}
  BY SyncAssumption DEF TypeOK, Visiting, Fds
<1>2. Visited \in todo
  BY <1>1, MinNat DEF Visited
<1>3. QED
  BY <1>1, <1>2 DEF TypeOK, TableInv, Visiting

\* start and stop keep the types.
LEMMA ControlTypes ==
    ASSUME TypeOK, LifeTypes', \/ Start \/ StartInBackground \/ StartFails \/ StartPollFails
                               \/ \E f \in Frequencies : SetFrequency(f)
                               \/ Stop \/ StopStep
    PROVE  TypeOK'
<1> USE SyncAssumption DEF LifeTypes
<1>1. CASE Start \/ StartInBackground
  <2>1. Listening
    BY <1>1 DEF Start, StartInBackground
  <2>2. /\ sock' \in Fds /\ kernel' \in [Fds -> {"free", "server", "epoll"} \cup Conns]
        /\ inset' \subseteq Fds /\ outset' \subseteq Fds /\ maxdesc' \in Fds \cup {0}
    BY <2>1, ListenFacts DEF TypeOK, Descriptions
  <2>3. starts' \in 0 .. MaxStarts
    BY <2>1 DEF Listening, MayStart, TypeOK
  <2>4. QED
    BY <2>1, <2>2, <2>3 DEF Listening, TypeOK, connVars, peerVars
<1>2. CASE StartFails
  <2>1. kernel' \in [Fds -> {"free", "server", "epoll"} \cup Conns] /\ sock' \in Fds
    <3>1. "server" \in Descriptions /\ Free # {} /\ sock' = Min(Free) /\ kernel' = Opens(kernel, "server")
      BY <1>2 DEF StartFails, Descriptions
    <3>2. QED
      BY <3>1, OpenFacts DEF Descriptions
  <2>2. starts' \in 0 .. MaxStarts
    BY <1>2 DEF StartFails, MayStart, TypeOK
  <2>3. QED
    BY <1>2, <2>1, <2>2 DEF StartFails, TypeOK, setVars, loopVars, connVars, peerVars
<1>3. CASE StartPollFails
  <2>1. starts' \in 0 .. MaxStarts
    BY <1>3 DEF StartPollFails, MayStart, TypeOK
  <2>2. kernel' \in [Fds -> {"free", "server", "epoll"} \cup Conns]
    BY <1>3, PollFailFacts DEF Descriptions
  <2>3. QED
    BY <1>3, <2>1, <2>2 DEF StartPollFails, TypeOK, setVars, loopVars, connVars, peerVars
<1>4. CASE \E f \in Frequencies : SetFrequency(f)
  <2>1. frequency' \in Nat
    BY <1>4 DEF SetFrequency
  <2>2. QED
    BY <1>4, <2>1 DEF SetFrequency, TypeOK, kernelVars, setVars, loopVars, connVars, peerVars
<1>5. CASE Stop
  BY <1>5 DEF Stop, TypeOK, kernelVars, setVars, lifeVars, loopVars, connVars, peerVars
<1>6. CASE StopShutdown
  <2>1. peer' \in [Conns -> {"away", "open", "closed", "reset"}]
    BY <1>6 DEF StopShutdown, TypeOK
  <2>2. QED
    BY <1>6, <2>1 DEF StopShutdown, TypeOK, setVars, lifeVars, loopVars, connVars
<1>7. CASE StopCloseSocket
  BY <1>7 DEF StopCloseSocket, TypeOK, setVars, lifeVars, loopVars, connVars, peerVars
<1>8. CASE StopInvalidate
  BY <1>8 DEF StopInvalidate, TypeOK, kernelVars, setVars, loopVars, connVars, peerVars
<1>9. CASE StopJoin
  BY <1>9 DEF StopJoin, TypeOK, kernelVars, setVars, connVars, peerVars
<1>10. CASE StopClear
  <2>1. /\ kernel' \in [Fds -> {"free", "server", "epoll"} \cup Conns]
        /\ sockets' \in [Fds -> Conns \cup {"none"}] /\ output' \subseteq Conns
    BY <1>10 DEF StopClear, TypeOK
  <2>2. QED
    BY <1>10, <2>1 DEF StopClear, TypeOK, setVars, lifeVars, loopVars, peerVars
<1>11. QED
  BY <1>1, <1>2, <1>3, <1>4, <1>5, <1>6, <1>7, <1>8, <1>9, <1>10 DEF StopStep

\* The loop keeps the types.
LEMMA LoopTypes ==
    ASSUME TypeOK, TableInv, LifeTypes', Loop
    PROVE  TypeOK'
<1> USE DEF LifeTypes
<1>1. CASE LoopCheck \/ SelectThrows
  BY <1>1 DEF LoopCheck, SelectThrows, TypeOK, kernelVars, setVars, connVars, peerVars
<1>2. CASE EpollEvent \/ EpollTimeout \/ IterateDone \/ Notify
  BY <1>2 DEF EpollEvent, EpollTimeout, IterateDone, Notify, Goto, TypeOK, kernelVars, setVars,
              lifeVars, connVars, peerVars
<1>3. CASE Select
  <2>1. inset' \subseteq Fds /\ outset' \subseteq Fds /\ todo' \subseteq Fds
    BY <1>3 DEF Select, TypeOK, ReadyIn, ReadyOut, Goto
  <2>2. QED
    BY <1>3, <2>1 DEF Select, Goto, TypeOK, kernelVars, lifeVars, connVars, peerVars
<1>4. ASSUME NEW map, AfterAccept(map)
      PROVE  todo' \subseteq Fds /\ UNCHANGED <<backend, frequency, sock, starts>>
  BY <1>4 DEF AfterAccept, Goto, TypeOK, lifeVars
<1>5. CASE AcceptFails
  <2>1. AfterAccept(sockets) /\ UNCHANGED <<kernelVars, setVars, cur, connVars, peerVars, ownClose>>
    BY <1>5 DEF AcceptFails
  <2>2. todo' \subseteq Fds /\ UNCHANGED <<backend, frequency, sock, starts>>
    BY <1>4, <2>1
  <2>3. QED
    BY <2>1, <2>2 DEF TypeOK, kernelVars, setVars, connVars, peerVars
<1>6. CASE Accept
  <2>1. /\ Free # {} /\ cur' = Min(Free) /\ backlog # <<>> /\ backlog' = Tail(backlog)
        /\ UNCHANGED <<backend, frequency, sock, starts, lstate, edge, inset, outset, maxdesc, todo,
                       sockets, peer, request>>
    BY <1>6 DEF Accept, AfterSend, Goto, lifeVars, setVars, peerVars
  <2>2. cur' \in Fds /\ backlog' \in Seq(Conns) /\ Head(backlog) \in Conns
    BY <2>1, OpenFacts, HeadTailProperties DEF TypeOK, Descriptions
  <2>3. Opens(kernel, Head(backlog)) \in [Fds -> {"free", "server", "epoll"} \cup Conns]
    BY <2>1, <2>2, OpenFacts DEF Descriptions
  <2>4. /\ kernel' \in [Fds -> {"free", "server", "epoll"} \cup Conns]
        /\ output' \subseteq Conns /\ ownClose' \in BOOLEAN
    BY <1>6, <2>2, <2>3 DEF Accept, TypeOK
  <2>5. QED
    BY <2>1, <2>2, <2>4 DEF TypeOK
<1>7. CASE AddSocket
  <2>1. cur \in Fds /\ cur' = INVALID
    BY <1>7 DEF AddSocket, TableInv
  <2>2. sockets' \in [Fds -> Conns \cup {"none"}]
    BY <1>7, <2>1 DEF AddSocket, TypeOK
  <2>3. Max({maxdesc, cur}) \in {maxdesc, cur}
    <3>1. {maxdesc, cur} \in SUBSET Nat /\ maxdesc \in 0 .. MaxFd /\ cur \in 0 .. MaxFd
      BY <2>1, SyncAssumption DEF TypeOK, Fds
    <3>2. \A y \in {maxdesc, cur} : y <= MaxFd
      BY <3>1, SyncAssumption
    <3>3. QED
      BY <3>1, <3>2, MaxNat, SyncAssumption
  <2>4. inset' \subseteq Fds /\ outset' \subseteq Fds /\ maxdesc' \in Fds \cup {0}
    BY <1>7, <2>1, <2>3 DEF AddSocket, TypeOK, setVars
  <2>5. todo' \subseteq Fds /\ UNCHANGED <<backend, frequency, sock, starts>>
    BY <1>4, <1>7 DEF AddSocket
  <2>6. QED
    BY <1>7, <2>1, <2>2, <2>4, <2>5 DEF AddSocket, TypeOK, kernelVars, peerVars
<1>8. ASSUME Visiting, ReadVisited
      PROVE  request' \in [Conns -> {"none", "queued", "read"}]
  BY <1>8, VisitFacts DEF ReadVisited, TypeOK
<1>9. CASE Serve
  <2>1. output' \subseteq Conns
    <3>1. sockets[Visited] \in Conns
      BY <1>9, VisitFacts DEF Serve
    <3>2. QED
      BY <1>9, <3>1 DEF Serve, TypeOK
  <2>2. request' \in [Conns -> {"none", "queued", "read"}]
    BY <1>8, <1>9 DEF Serve
  <2>3. QED
    BY <1>9, <2>1, <2>2 DEF Serve, Goto, TypeOK, kernelVars, setVars, lifeVars
<1>10. CASE ServeFails
  <2>1. Visited \in Fds
    BY <1>10, VisitFacts DEF ServeFails
  <2>2. request' \in [Conns -> {"none", "queued", "read"}]
    BY <1>8, <1>10 DEF ServeFails, TypeOK
  <2>3. /\ kernel' \in [Fds -> {"free", "server", "epoll"} \cup Conns]
        /\ sockets' \in [Fds -> Conns \cup {"none"}]
    BY <1>10, <2>1 DEF ServeFails, TypeOK
  <2>4. QED
    BY <1>10, <2>2, <2>3 DEF ServeFails, Goto, TypeOK, lifeVars
<1>11. ASSUME NEW fd \in Fds, ClosedByListener(fd)
       PROVE  /\ kernel' \in [Fds -> {"free", "server", "epoll"} \cup Conns]
              /\ sockets' \in [Fds -> Conns \cup {"none"}] /\ output' \subseteq Conns
              /\ ownClose' \in BOOLEAN
              /\ UNCHANGED <<lstate, backlog, edge, inset, outset, maxdesc>>
  BY <1>11 DEF ClosedByListener, TypeOK, setVars
<1>12. CASE ServeCloses
  <2>1. Visited \in Fds /\ ClosedByListener(Visited)
    BY <1>12, VisitFacts DEF ServeCloses
  <2>2. request' \in [Conns -> {"none", "queued", "read"}]
    BY <1>8, <1>12 DEF ServeCloses
  <2>3. UNCHANGED <<backend, frequency, sock, starts, cur, peer>> /\ todo' = todo \ {Visited}
    BY <1>12 DEF ServeCloses, Goto, lifeVars
  <2>4. QED
    BY <1>11, <2>1, <2>2, <2>3 DEF TypeOK
<1>13. CASE NotifyCloses
  <2>1. PICK fd \in Fds : ClosedByListener(fd)
    BY <1>13 DEF NotifyCloses
  <2>2. UNCHANGED <<backend, frequency, sock, starts, cur, todo, peer, request>>
    BY <1>13 DEF NotifyCloses, Goto, lifeVars, peerVars
  <2>3. QED
    BY <1>11, <2>1, <2>2 DEF TypeOK
<1>14. QED
  BY <1>1, <1>2, <1>3, <1>5, <1>6, <1>7, <1>9, <1>10, <1>12, <1>13 DEF Loop

\* The peers keep the types.
LEMMA PeerTypes ==
    ASSUME TypeOK, \E c \in Conns : PeerConnect(c) \/ PeerAsk(c) \/ PeerQuit(c)
    PROVE  TypeOK'
<1>1. PICK c \in Conns : PeerConnect(c) \/ PeerAsk(c) \/ PeerQuit(c)
  OBVIOUS
<1>2. CASE PeerConnect(c)
  <2>1. backlog' \in Seq(Conns)
    BY <1>2, AppendProperties DEF PeerConnect, TypeOK
  <2>2. QED
    BY <1>2, <2>1 DEF PeerConnect, TypeOK, setVars, lifeVars, loopVars, connVars
<1>3. CASE PeerAsk(c)
  BY <1>3 DEF PeerAsk, TypeOK, kernelVars, setVars, lifeVars, loopVars, connVars
<1>4. CASE PeerQuit(c)
  BY <1>4 DEF PeerQuit, TypeOK, kernelVars, setVars, lifeVars, loopVars, connVars
<1>5. QED
  BY <1>1, <1>2, <1>3, <1>4

\* A start finds no loop and no listening descriptor.
LEMMA StartAlone ==
    ASSUME LifeInv, MayStart
    PROVE  spc = "none" /\ sock = INVALID /\ stpc = "idle"
BY DEF LifeInv, MayStart

\* A connection ends: its entry and its descriptor go together.
LEMMA DropEntry ==
    ASSUME TypeOK, TableInv, NEW fd \in Fds, sockets[fd] \in Conns,
           kernel' = [kernel EXCEPT ![fd] = "free"],
           sockets' = [sockets EXCEPT ![fd] = "none"],
           UNCHANGED <<sock, stpc, lstate, cur>>, spc # "add", spc' # "add",
           spc' = "iterate" => spc = "iterate" /\ todo' \subseteq todo \ {fd}
    PROVE  TableInv'
<1>1. /\ \A d \in Fds : kernel'[d] = IF d = fd THEN "free" ELSE kernel[d]
      /\ \A d \in Fds : sockets'[d] = IF d = fd THEN "none" ELSE sockets[d]
  BY DEF TypeOK
<1>2. "free" \notin Conns
  BY SyncAssumption
<1>3. kernel[fd] = sockets[fd] /\ (fd # sock \/ stpc = "invalidate")
  <2>1. "server" \notin Conns /\ "none" \notin Conns /\ fd # INVALID
    BY SyncAssumption DEF INVALID, Fds
  <2>2. kernel[fd] = sockets[fd]
    BY <2>1 DEF TableInv, MapMirrorsKernel
  <2>3. fd = sock /\ stpc # "invalidate" => kernel[fd] = "server"
    BY <2>1 DEF TableInv
  <2>4. QED
    BY <2>1, <2>2, <2>3
<1>4. MapMirrorsKernel'
  BY <1>1, <1>2 DEF TableInv, MapMirrorsKernel
<1>5. sock' # INVALID /\ stpc' # "invalidate" => kernel'[sock'] = "server"
  BY <1>1, <1>3 DEF TableInv, TypeOK
<1>6. QED
  BY <1>1, <1>4, <1>5 DEF TableInv, TypeOK

\* start and stop keep TableInv.
LEMMA ControlTable ==
    ASSUME TypeOK, LifeInv, TableInv,
           Start \/ StartInBackground \/ StartFails \/ StartPollFails \/ Stop \/ StopStep
    PROVE  TableInv'
<1>1. /\ {"free", "server", "epoll", "none"} \cap Conns = {} /\ INVALID \notin Fds
  BY SyncAssumption DEF Fds, INVALID
<1>2. CASE Start \/ StartInBackground
  <2>1. Listening /\ MayStart
    BY <1>2 DEF Start, StartInBackground, Listening
  <2>2. /\ UNCHANGED <<stpc, cur, todo, sockets>> /\ lstate' = "listening" /\ spc' = "check"
    BY <2>1 DEF Listening, connVars
  <2>3. spc = "none" /\ sock = INVALID /\ stpc = "idle"
    BY <2>1, StartAlone
  <2>4. /\ sock' \in Fds /\ kernel[sock'] = "free" /\ kernel'[sock'] = "server"
        /\ \A fd \in Fds \ {sock'} :
              kernel'[fd] = kernel[fd] \/ (kernel[fd] = "free" /\ kernel'[fd] = "epoll")
    BY <2>1, ListenFacts
  <2>5. MapMirrorsKernel'
    BY <1>1, <2>2, <2>3, <2>4 DEF TableInv, MapMirrorsKernel, TypeOK
  <2>6. \A fd \in Fds : kernel'[fd] = "server" => fd = sock' /\ stpc' # "invalidate"
    BY <1>1, <2>2, <2>3, <2>4 DEF TableInv
  <2>7. QED
    BY <1>1, <2>2, <2>3, <2>4, <2>5, <2>6 DEF TableInv
<1>3. CASE StartFails
  <2>1. /\ UNCHANGED <<stpc, spc, cur, todo, sockets>> /\ MayStart
        /\ Free # {} /\ sock' = Min(Free) /\ kernel' = Opens(kernel, "server")
    BY <1>3 DEF StartFails, connVars, loopVars
  <2>2. spc = "none" /\ sock = INVALID /\ stpc = "idle"
    BY <2>1, StartAlone
  <2>3. "server" \in Descriptions
    BY DEF Descriptions
  <2>4. /\ sock' \in Fds /\ kernel[sock'] = "free" /\ kernel'[sock'] = "server"
        /\ \A fd \in Fds : fd # sock' => kernel'[fd] = kernel[fd]
    BY <2>1, <2>3, OpenFacts
  <2>5. MapMirrorsKernel'
    BY <1>1, <2>1, <2>2, <2>4 DEF TableInv, MapMirrorsKernel, TypeOK
  <2>6. \A fd \in Fds : kernel'[fd] = "server" => fd = sock' /\ stpc' # "invalidate"
    BY <1>1, <2>1, <2>2, <2>4 DEF TableInv
  <2>7. QED
    BY <1>1, <2>1, <2>2, <2>4, <2>5, <2>6 DEF TableInv
<1>4. CASE Stop
  BY <1>4 DEF Stop, TableInv, MapMirrorsKernel, kernelVars, lifeVars, loopVars, connVars
<1>5. CASE StopShutdown
  BY <1>5 DEF StopShutdown, TableInv, MapMirrorsKernel, LifeInv, lifeVars, loopVars, connVars
<1>6. CASE StopCloseSocket
  <2>1. /\ UNCHANGED <<sock, spc, cur, todo, sockets>> /\ stpc = "closesocket" /\ stpc' = "invalidate"
        /\ lstate' = "closed" /\ kernel' = [kernel EXCEPT ![sock] = "free"]
    BY <1>6 DEF StopCloseSocket, lifeVars, loopVars, connVars
  <2>2. sock \in Fds /\ kernel[sock] = "server"
    BY <2>1 DEF LifeInv, TableInv, TypeOK
  <2>3. \A fd \in Fds : kernel'[fd] = IF fd = sock THEN "free" ELSE kernel[fd]
    BY <2>1, <2>2 DEF TypeOK
  <2>4. MapMirrorsKernel'
    BY <1>1, <2>1, <2>2, <2>3 DEF TableInv, MapMirrorsKernel, TypeOK
  <2>5. QED
    BY <1>1, <2>1, <2>3, <2>4 DEF TableInv
<1>7. CASE StopInvalidate
  <2>1. /\ UNCHANGED <<kernel, lstate, spc, cur, todo, sockets>> /\ stpc = "invalidate"
        /\ stpc' = "join" /\ sock' = INVALID
    BY <1>7 DEF StopInvalidate, kernelVars, loopVars, connVars
  <2>2. \A fd \in Fds : kernel[fd] # "server"
    BY <2>1 DEF TableInv
  <2>3. QED
    BY <2>1, <2>2 DEF TableInv, MapMirrorsKernel
<1>8. CASE StopJoin
  BY <1>8 DEF StopJoin, TableInv, MapMirrorsKernel, LifeInv, kernelVars, connVars
<1>9. CASE StopClear
  <2>1. /\ UNCHANGED <<lstate, sock, spc, cur, todo>> /\ stpc = "clear" /\ stpc' = "idle"
        /\ spc # "iterate" /\ sock = INVALID
        /\ \A fd \in Fds : kernel'[fd] = IF sockets[fd] = "none" THEN kernel[fd] ELSE "free"
        /\ \A fd \in Fds : sockets'[fd] = "none"
    BY <1>9 DEF StopClear, LifeInv, lifeVars, loopVars
  <2>2. MapMirrorsKernel'
    BY <1>1, <2>1 DEF TableInv, MapMirrorsKernel
  <2>3. QED
    BY <1>1, <2>1, <2>2 DEF TableInv
<1>10. CASE StartPollFails
  <2>1. /\ UNCHANGED <<sock, stpc, spc, cur, todo, sockets, lstate>> /\ MayStart
        /\ \A fd \in Fds :
              kernel'[fd] = kernel[fd] \/ (kernel[fd] = "free" /\ kernel'[fd] = "epoll")
    BY <1>10, PollFailFacts DEF StartPollFails, connVars, loopVars
  <2>2. spc = "none" /\ sock = INVALID /\ stpc = "idle"
    BY <2>1, StartAlone
  <2>3. MapMirrorsKernel'
    BY <1>1, <2>1, <2>2 DEF TableInv, MapMirrorsKernel, TypeOK
  <2>4. QED
    BY <1>1, <2>1, <2>2, <2>3 DEF TableInv
<1>11. QED
  BY <1>2, <1>3, <1>4, <1>5, <1>6, <1>7, <1>8, <1>9, <1>10 DEF StopStep

\* The loop keeps TableInv.
LEMMA LoopTable ==
    ASSUME TypeOK, LifeInv, TableInv, Loop
    PROVE  TableInv'
<1>1. /\ {"free", "server", "epoll", "none"} \cap Conns = {} /\ INVALID \notin Fds
  BY SyncAssumption DEF Fds, INVALID
<1>2. CASE LoopCheck \/ SelectThrows
  BY <1>2 DEF LoopCheck, SelectThrows, TableInv, MapMirrorsKernel, kernelVars, connVars
<1>3. CASE EpollEvent \/ EpollTimeout \/ IterateDone \/ Notify
  BY <1>3 DEF EpollEvent, EpollTimeout, IterateDone, Notify, Goto, TableInv, MapMirrorsKernel,
              kernelVars, lifeVars, connVars
<1>4. CASE Select
  <2>1. /\ UNCHANGED <<kernel, lstate, sock, stpc, cur, sockets>> /\ spc # "add"
        /\ \/ spc' = "accept"
           \/ spc' = "iterate" /\ \A fd \in todo' : sockets[fd] # "none"
    BY <1>4 DEF Select, Goto, kernelVars, lifeVars, connVars
  <2>2. QED
    BY <2>1 DEF TableInv, MapMirrorsKernel
<1>5. ASSUME NEW map, AfterAccept(map)
      PROVE  /\ UNCHANGED <<sock, stpc>>
             /\ \/ spc' = "notify"
                \/ spc' = "iterate" /\ \A fd \in todo' : map[fd] # "none"
  BY <1>5 DEF AfterAccept, Goto, lifeVars
<1>6. CASE AcceptFails
  <2>1. UNCHANGED <<kernel, lstate, cur, sockets>> /\ spc = "accept" /\ AfterAccept(sockets)
    BY <1>6 DEF AcceptFails, kernelVars, connVars
  <2>2. /\ UNCHANGED <<sock, stpc>>
        /\ \/ spc' = "notify"
           \/ spc' = "iterate" /\ \A fd \in todo' : sockets[fd] # "none"
    BY <1>5, <2>1
  <2>3. QED
    BY <2>1, <2>2 DEF TableInv, MapMirrorsKernel
<1>7. CASE Accept
  <2>1. /\ Free # {} /\ cur' = Min(Free) /\ backlog # <<>> /\ lstate = "listening"
        /\ UNCHANGED <<sock, stpc, lstate, todo, sockets>> /\ spc = "accept"
        /\ \/ spc' = "add" /\ kernel' = Opens(kernel, Head(backlog))
           \/ spc' \in {"add", "dead"} /\ kernel' = kernel
    BY <1>7 DEF Accept, AfterSend, Goto, lifeVars
  <2>2. Head(backlog) \in Conns
    BY <2>1, HeadTailProperties DEF TypeOK
  <2>3. /\ cur' \in Fds /\ kernel[cur'] = "free"
        /\ Opens(kernel, Head(backlog))[cur'] = Head(backlog)
        /\ \A fd \in Fds : fd # cur' => Opens(kernel, Head(backlog))[fd] = kernel[fd]
    BY <2>1, <2>2, OpenFacts DEF Descriptions
  <2>4. /\ kernel'[cur'] \in Conns \cup {"free"}
        /\ \A fd \in Fds : fd # cur' => kernel'[fd] = kernel[fd]
    BY <2>1, <2>2, <2>3
  <2>5. MapMirrorsKernel'
    BY <1>1, <2>1, <2>3, <2>4 DEF TableInv, MapMirrorsKernel, TypeOK
  <2>6. sock # INVALID /\ stpc # "invalidate" => sock # cur'
    BY <2>3 DEF TableInv
  <2>7. sock # INVALID => sock \in Fds
    BY DEF TypeOK
  <2>8. \A fd \in Fds : kernel'[fd] = "server" => kernel[fd] = "server"
    BY <1>1, <2>4
  <2>9. QED
    BY <1>1, <2>1, <2>3, <2>4, <2>5, <2>6, <2>7, <2>8 DEF TableInv
<1>8. CASE AddSocket
  <2>1. /\ UNCHANGED <<kernel, lstate>> /\ spc = "add" /\ AfterAccept(sockets') /\ cur \in Fds
        /\ sockets' = [sockets EXCEPT ![cur] = IF kernel[cur] \in Conns THEN kernel[cur] ELSE @]
    BY <1>8 DEF AddSocket, TableInv, kernelVars
  <2>2. /\ UNCHANGED <<sock, stpc>>
        /\ \/ spc' = "notify"
           \/ spc' = "iterate" /\ \A fd \in todo' : sockets'[fd] # "none"
    BY <1>5, <2>1
  <2>3. /\ \A fd \in Fds \ {cur} : sockets'[fd] = sockets[fd]
        /\ sockets'[cur] = IF kernel[cur] \in Conns THEN kernel[cur] ELSE sockets[cur]
    BY <2>1 DEF TypeOK
  <2>4. MapMirrorsKernel'
    BY <2>1, <2>2, <2>3 DEF TableInv, MapMirrorsKernel
  <2>5. QED
    BY <2>1, <2>2, <2>4 DEF TableInv
<1>9. CASE Serve
  BY <1>9 DEF Serve, Visiting, Goto, TableInv, MapMirrorsKernel, kernelVars, lifeVars
<1>10. CASE ServeFails
  <2>1. Visited \in Fds /\ sockets[Visited] \in Conns
    BY <1>10, VisitFacts DEF ServeFails
  <2>2. /\ kernel' = [kernel EXCEPT ![Visited] = "free"]
        /\ sockets' = [sockets EXCEPT ![Visited] = "none"]
        /\ UNCHANGED <<sock, stpc, lstate, cur>> /\ spc = "iterate" /\ spc' \in {"iterate", "dead"}
        /\ todo' = todo \ {Visited}
    BY <1>10 DEF ServeFails, AfterSend, Visiting, Goto, lifeVars
  <2>3. QED
    BY <2>1, <2>2, DropEntry
<1>11. CASE ServeCloses
  <2>1. Visited \in Fds /\ sockets[Visited] \in Conns
    BY <1>11, VisitFacts DEF ServeCloses
  <2>2. /\ kernel' = [kernel EXCEPT ![Visited] = "free"]
        /\ sockets' = [sockets EXCEPT ![Visited] = "none"]
        /\ UNCHANGED <<sock, stpc, lstate, cur>> /\ spc = "iterate" /\ spc' \in {"iterate", "dead"}
        /\ todo' = todo \ {Visited}
    BY <1>11 DEF ServeCloses, ClosedByListener, Visiting, Goto, lifeVars
  <2>3. QED
    BY <2>1, <2>2, DropEntry
<1>12. CASE NotifyCloses
  <2>1. PICK fd \in Fds : sockets[fd] # "none" /\ ClosedByListener(fd)
    BY <1>12 DEF NotifyCloses
  <2>2. /\ kernel' = [kernel EXCEPT ![fd] = "free"]
        /\ sockets' = [sockets EXCEPT ![fd] = "none"]
        /\ UNCHANGED <<sock, stpc, lstate, cur, todo>> /\ spc = "notify" /\ spc' \in {"notify", "dead"}
    BY <1>12, <2>1 DEF NotifyCloses, ClosedByListener, Goto, lifeVars
  <2>3. sockets[fd] \in Conns
    BY <2>1 DEF TypeOK
  <2>4. QED
    BY <2>2, <2>3, DropEntry
<1>13. QED
  BY <1>2, <1>3, <1>4, <1>6, <1>7, <1>8, <1>9, <1>10, <1>11, <1>12 DEF Loop

\* Every step keeps TableInv.
LEMMA TableStep ==
    ASSUME TypeOK, LifeInv, TableInv, [Next]_vars
    PROVE  TableInv'
<1>1. CASE UNCHANGED <<sock, stpc, spc, cur, todo, kernel, sockets, lstate>>
  BY <1>1 DEF TableInv, MapMirrorsKernel
<1>2. ASSUME \/ UNCHANGED vars
             \/ \E c \in Conns : PeerConnect(c) \/ PeerAsk(c) \/ PeerQuit(c)
             \/ \E f \in Frequencies : SetFrequency(f)
      PROVE  lstate' = lstate
  BY <1>2 DEF vars, PeerConnect, PeerAsk, PeerQuit, SetFrequency, kernelVars
<1>3. QED
  BY <1>1, <1>2, ControlTable, LoopTable, QuietSteps DEF Next

-----------------------------------------------------------------------------
(***************************************************************************)
(* Descriptors that only peers have touched: as long as neither stop() nor *)
(* a listener has closed one, every watched descriptor is open, and the    *)
(* program runs unless a SIGPIPE has ended it.                             *)
(***************************************************************************)
OpenInv ==
    ~ownClose =>
        /\ (SigpipeIgnored => spc # "dead") /\ stpc # "invalidate"
        /\ sock = INVALID => spc = "none" /\ \A fd \in Fds : sockets[fd] = "none"
        /\ \A fd \in inset \cup outset : kernel[fd] # "free"
        /\ spc = "add" => kernel[cur] \in Conns

\* The select back end does not find a closed descriptor that nobody closed.
LEMMA NoThrow ==
    ASSUME OpenInv, SelectThrows
    PROVE  ownClose
BY DEF OpenInv, SelectThrows, BadFd, Watched

\* Every step keeps OpenInv.
LEMMA OpenStep ==
    ASSUME TypeOK, LifeInv, TableInv, OpenInv, [Next]_vars
    PROVE  OpenInv'
<1>1. /\ {"free", "server", "epoll", "none"} \cap Conns = {} /\ INVALID \notin Fds
  BY SyncAssumption DEF Fds, INVALID
<1>2. SUFFICES ASSUME ~ownClose' PROVE OpenInv'
  BY DEF OpenInv
<1>3. ownClose' = ownClose \/ ownClose'
  BY DEF Next, vars, Start, StartInBackground, Listening, StartFails, StartPollFails, SetFrequency,
         Stop, StopStep, StopShutdown, StopCloseSocket, StopInvalidate, StopJoin, StopClear, Loop,
         LoopCheck, EpollEvent, EpollTimeout, SelectThrows, Select, AcceptFails, Accept, AddSocket,
         Serve, ServeFails, ServeCloses, ClosedByListener, IterateDone, Notify, NotifyCloses,
         PeerConnect, PeerAsk, PeerQuit
<1>4. ~ownClose
  BY <1>2, <1>3 DEF TypeOK
<1>5. /\ (SigpipeIgnored => spc # "dead") /\ stpc # "invalidate"
      /\ sock = INVALID => spc = "none" /\ \A fd \in Fds : sockets[fd] = "none"
      /\ \A fd \in inset \cup outset : kernel[fd] # "free"
      /\ spc = "add" => kernel[cur] \in Conns
  BY <1>4 DEF OpenInv
<1>6. CASE Start \/ StartInBackground
  <2>1. Listening
    BY <1>6 DEF Start, StartInBackground
  <2>2. spc' = "check" /\ stpc' = stpc
    BY <2>1 DEF Listening
  <2>3. /\ sock' \in Fds /\ kernel'[sock'] = "server"
        /\ \A fd \in Fds \ {sock'} :
              kernel'[fd] = kernel[fd] \/ (kernel[fd] = "free" /\ kernel'[fd] = "epoll")
        /\ inset' \subseteq inset \cup {sock'} /\ outset' = outset
    BY <2>1, ListenFacts
  <2>4. QED
    BY <1>1, <1>5, <2>2, <2>3 DEF OpenInv, TypeOK
<1>7. CASE StartFails
  <2>1. /\ UNCHANGED <<stpc, spc, cur, inset, outset>> /\ MayStart
        /\ Free # {} /\ sock' = Min(Free) /\ kernel' = Opens(kernel, "server")
    BY <1>7 DEF StartFails, loopVars, setVars
  <2>2. "server" \in Descriptions /\ spc = "none"
    BY <2>1, StartAlone DEF Descriptions
  <2>3. /\ sock' \in Fds /\ kernel'[sock'] = "server"
        /\ \A fd \in Fds : fd # sock' => kernel'[fd] = kernel[fd]
    BY <2>1, <2>2, OpenFacts
  <2>4. QED
    BY <1>1, <1>5, <2>1, <2>2, <2>3 DEF OpenInv, TypeOK
<1>8. CASE Stop
  BY <1>5, <1>8 DEF Stop, OpenInv, kernelVars, lifeVars, loopVars, connVars, setVars
<1>9. CASE StopShutdown \/ StopJoin
  BY <1>5, <1>9 DEF StopShutdown, StopJoin, OpenInv, LifeInv, kernelVars, lifeVars, loopVars, connVars,
                    setVars
<1>10. CASE StopCloseSocket
  BY <1>2, <1>10 DEF StopCloseSocket
<1>11. CASE StopInvalidate
  BY <1>5, <1>11 DEF StopInvalidate
<1>12. CASE StopClear
  <2>1. /\ UNCHANGED <<sock, spc, cur, inset, outset>> /\ stpc' = "idle" /\ sock = INVALID
        /\ \A fd \in Fds : kernel'[fd] = IF sockets[fd] = "none" THEN kernel[fd] ELSE "free"
        /\ \A fd \in Fds : sockets'[fd] = "none"
    BY <1>12 DEF StopClear, LifeInv, lifeVars, loopVars, setVars
  <2>2. \A fd \in Fds : kernel'[fd] = kernel[fd]
    BY <1>5, <2>1
  <2>3. QED
    BY <1>5, <2>1, <2>2 DEF OpenInv, TypeOK
<1>13. CASE LoopCheck
  BY <1>5, <1>13 DEF LoopCheck, OpenInv, kernelVars, setVars, connVars
<1>14. CASE SelectThrows
  BY <1>4, <1>14, NoThrow
<1>15. CASE EpollEvent \/ EpollTimeout \/ IterateDone \/ Notify
  BY <1>5, <1>15 DEF EpollEvent, EpollTimeout, IterateDone, Notify, Goto, OpenInv, kernelVars, setVars,
                     lifeVars, connVars
<1>16. CASE Select
  BY <1>5, <1>16 DEF Select, ReadyIn, ReadyOut, Goto, OpenInv, kernelVars, lifeVars, connVars
<1>17. CASE AcceptFails
  BY <1>5, <1>17 DEF AcceptFails, AfterAccept, Goto, OpenInv, kernelVars, setVars, lifeVars, connVars
<1>18. CASE Accept
  <2>1. /\ Free # {} /\ cur' = Min(Free) /\ backlog # <<>> /\ kernel' = Opens(kernel, Head(backlog))
        /\ UNCHANGED <<sock, stpc, inset, outset>> /\ spc = "accept" /\ spc' = "add"
    BY <1>2, <1>18 DEF Accept, AfterSend, Goto, lifeVars, setVars
  <2>2. Head(backlog) \in Conns
    BY <2>1, HeadTailProperties DEF TypeOK
  <2>3. /\ cur' \in Fds /\ kernel'[cur'] = Head(backlog)
        /\ \A fd \in Fds : fd # cur' => kernel'[fd] = kernel[fd]
    BY <2>1, <2>2, OpenFacts DEF Descriptions
  <2>4. sock # INVALID
    BY <1>5, <2>1
  <2>5. QED
    BY <1>1, <1>5, <2>1, <2>2, <2>3, <2>4 DEF OpenInv, TypeOK
<1>19. CASE AddSocket
  <2>1. /\ UNCHANGED <<kernel, sock, stpc>> /\ spc = "add" /\ spc' \in {"notify", "iterate"}
        /\ inset' \subseteq inset \cup {cur} /\ outset' \subseteq outset \cup {cur}
    BY <1>19 DEF AddSocket, AfterAccept, Goto, kernelVars, lifeVars, setVars
  <2>2. QED
    BY <1>1, <1>5, <2>1 DEF OpenInv
<1>20. CASE Serve
  BY <1>5, <1>20 DEF Serve, Visiting, Goto, OpenInv, kernelVars, setVars, lifeVars
<1>21. CASE ServeFails
  <2>1. Visited \in Fds
    BY <1>21, VisitFacts DEF ServeFails
  <2>2. /\ UNCHANGED <<sock, stpc>> /\ spc = "iterate" /\ spc' \in {"iterate", "dead"}
        /\ SigpipeIgnored => spc' = "iterate"
        /\ inset' = inset \ {Visited} /\ outset' = outset \ {Visited}
        /\ kernel' = [kernel EXCEPT ![Visited] = "free"]
    BY <1>21 DEF ServeFails, AfterSend, Visiting, Goto, lifeVars
  <2>3. \A fd \in Fds : fd # Visited => kernel'[fd] = kernel[fd]
    BY <2>2 DEF TypeOK
  <2>4. QED
    BY <1>5, <2>2, <2>3 DEF OpenInv, TypeOK
<1>22. CASE ServeCloses \/ NotifyCloses
  BY <1>2, <1>22 DEF ServeCloses, NotifyCloses, ClosedByListener
<1>23. CASE UNCHANGED <<sock, stpc, spc, cur, kernel, sockets, inset, outset, ownClose>>
  BY <1>23 DEF OpenInv
<1>24. CASE StartPollFails
  <2>1. /\ UNCHANGED <<sock, stpc, spc, cur, sockets, inset, outset>>
        /\ \A fd \in Fds :
              kernel'[fd] = kernel[fd] \/ (kernel[fd] = "free" /\ kernel'[fd] = "epoll")
    BY <1>24, PollFailFacts DEF StartPollFails, connVars, loopVars, setVars
  <2>2. spc = "none"
    BY <1>24, StartAlone DEF StartPollFails
  <2>3. QED
    BY <1>5, <2>1, <2>2 DEF OpenInv, TypeOK
<1>25. QED
  BY <1>6, <1>7, <1>8, <1>9, <1>10, <1>11, <1>12, <1>13, <1>14, <1>15, <1>16, <1>17, <1>18, <1>19,
     <1>20, <1>21, <1>22, <1>23, <1>24, QuietSteps DEF Next, Loop, StopStep

-----------------------------------------------------------------------------
(***************************************************************************)
(* wait_time.  The quotient delta of the microseconds and the frequency is *)
(* taken apart into seconds and microseconds again; with q whole seconds   *)
(* passed, f times the wait is at most delta's numerator less q seconds.   *)
(***************************************************************************)

\* What integer division by the frequency and by a second leaves.
LEMMA DivBound ==
    ASSUME NEW d \in Nat, NEW f \in Nat \ {0}
    PROVE  d \div f \in Nat /\ f * (d \div f) <= d
OBVIOUS

LEMMA DivMod ==
    ASSUME NEW d \in Nat
    PROVE  /\ d \div Usec \in Nat /\ d % Usec \in 0 .. Usec - 1
           /\ d = Usec * (d \div Usec) + (d % Usec)
BY SyncAssumption

\* f times a wait of delta, less q whole seconds, is at most the numerator less them.
LEMMA Scaled ==
    ASSUME NEW f \in Nat \ {0}, NEW delta \in Nat, NEW d \in Nat, NEW u \in Nat, f * delta <= d
    PROVE  f * (delta - u) <= d - u
<1>1. f * (delta - u) = f * delta - f * u
  OBVIOUS
<1>2. f * u = (f - 1) * u + u
  OBVIOUS
<1>3. (f - 1) * u \in Nat /\ f * delta \in Nat
  OBVIOUS
<1>4. QED
  BY <1>1, <1>2, <1>3

\* For every frequency and any two clock values in order, the wait ends within one
\* interval of the last poll.
LEMMA WaitTimeBounded ==
    ASSUME NEW ls \in Nat, NEW ns \in Nat, NEW lu \in 0 .. Usec - 1, NEW nu \in 0 .. Usec - 1,
           NEW f \in Nat \ {0}, (ns - ls) * Usec + nu - lu >= 0
    PROVE  LET delta == (lu - nu + Usec) \div f
               sec == ls - ns + delta \div Usec
               usec == delta % Usec
           IN  /\ sec \in Int /\ usec \in Nat
               /\ f * (sec * Usec + usec) <= Usec - ((ns - ls) * Usec + nu - lu)
<1> DEFINE d == lu - nu + Usec
           delta == d \div f
           k == delta \div Usec
           sec == ls - ns + k
           usec == delta % Usec
           q == ns - ls
           u == q * Usec
<1>1. d \in Nat /\ Usec \in Nat \ {0} /\ q \in Int
  BY SyncAssumption
<1>2. delta \in Nat /\ f * delta <= d
  BY <1>1, DivBound
<1>3. k \in Nat /\ usec \in 0 .. Usec - 1 /\ delta = Usec * k + usec
  BY <1>2, DivMod
<1>4. sec = k - q /\ sec \in Int /\ usec \in Nat
  BY <1>1, <1>3
<1>5. d = Usec + lu - nu
  BY <1>1
<1>6. q >= 0
  <2> HIDE DEF q
  <2>1. SUFFICES ASSUME q <= -1 PROVE q * Usec + nu - lu < 0
    BY <1>1 DEF q
  <2>2. (q + 1) * Usec <= 0
    BY <1>1, <2>1
  <2>3. (q + 1) * Usec = q * Usec + Usec
    BY <1>1
  <2>4. QED
    BY <1>1, <2>2, <2>3
<1> HIDE DEF d, delta, k, sec, usec, q
<1>7. u \in Nat
  BY <1>1, <1>6
<1>8. sec * Usec + usec = delta - u
  <2>1. (k - q) * Usec = k * Usec - u
    BY <1>1, <1>3
  <2>2. k * Usec \in Int /\ k * Usec = Usec * k
    BY <1>1, <1>3
  <2> HIDE DEF u
  <2>3. QED
    BY <1>1, <1>2, <1>3, <1>4, <1>7, <2>1, <2>2
<1> HIDE DEF u
<1>9. f * (delta - u) <= d - u
  BY <1>1, <1>2, <1>7, Scaled
<1>10. d - u = Usec - (u + nu - lu)
  BY <1>1, <1>5, <1>7
<1>11. QED
  BY <1>4, <1>8, <1>9, <1>10 DEF d, delta, k, sec, usec, q, u

-----------------------------------------------------------------------------
(***************************************************************************)
(* The theorems.                                                           *)
(***************************************************************************)
IInv == TypeOK /\ LifeInv /\ TableInv /\ OpenInv

\* The inductive invariant.
LEMMA Invariance == Spec => []IInv
<1>1. Init => IInv
  <2>1. SUFFICES ASSUME Init PROVE IInv
    OBVIOUS
  <2>2. TypeOK
    <3>1. /\ kernel \in [Fds -> {"free", "server", "epoll"} \cup Conns]
          /\ sockets \in [Fds -> Conns \cup {"none"}]
          /\ peer \in [Conns -> {"away", "open", "closed", "reset"}]
          /\ request \in [Conns -> {"none", "queued", "read"}]
      BY <2>1 DEF Init
    <3>2. backlog \in Seq(Conns)
      BY <2>1 DEF Init
    <3>3. frequency \in Nat /\ starts \in 0 .. MaxStarts
      BY <2>1, SyncAssumption DEF Init
    <3>4. QED
      BY <2>1, <3>1, <3>2, <3>3 DEF Init, TypeOK
  <2>3. LifeInv /\ TableInv /\ OpenInv
    BY <2>1, SyncAssumption DEF Init, LifeInv, TableInv, OpenInv, MapMirrorsKernel, INVALID
  <2>4. QED
    BY <2>2, <2>3 DEF IInv
<1>2. IInv /\ [Next]_vars => IInv'
  <2>1. SUFFICES ASSUME IInv, [Next]_vars PROVE IInv'
    OBVIOUS
  <2>2. LifeTypes' /\ LifeInv'
    BY <2>1, LifeStep DEF IInv, LifeTypes, TypeOK
  <2>3. TypeOK'
    <3>1. CASE UNCHANGED vars
      BY <2>1, <3>1 DEF IInv, TypeOK, vars, kernelVars, setVars, lifeVars, loopVars, connVars, peerVars
    <3>2. QED
      BY <2>1, <2>2, <3>1, ControlTypes, LoopTypes, PeerTypes DEF IInv, Next
  <2>4. TableInv' /\ OpenInv'
    BY <2>1, TableStep, OpenStep DEF IInv
  <2>5. QED
    BY <2>2, <2>3, <2>4 DEF IInv
<1>3. QED
  BY <1>1, <1>2, PTL DEF Spec

\* Every variable of the polling server keeps its type, for both back ends.
THEOREM TypeCorrect == Spec => []TypeOK
<1>1. IInv => TypeOK
  BY DEF IInv
<1>2. QED
  BY <1>1, Invariance, PTL

\* sockets_ agrees with the descriptor table, however descriptors are closed, handed out
\* again, accepted and dropped, by whatever thread.
THEOREM MapIsFresh == Spec => []MapMirrorsKernel
<1>1. IInv => MapMirrorsKernel
  BY DEF IInv, TableInv
<1>2. QED
  BY <1>1, Invariance, PTL

\* In a program that ignores SIGPIPE, no sequence of connects, requests, closes and
\* resets of the peers makes select() fail or ends the program.
THEOREM PeersCannotKill == SigpipeIgnored => (Spec => SurvivesPeers)
<1> SUFFICES ASSUME SigpipeIgnored PROVE Spec => SurvivesPeers
  OBVIOUS
<1>1. IInv /\ IInv' /\ [Next]_vars => [SelectThrows \/ spc' = "dead" => ownClose']_vars
  <2>1. SUFFICES ASSUME IInv, IInv', SelectThrows \/ spc' = "dead" PROVE ownClose'
    OBVIOUS
  <2>2. CASE SelectThrows
    BY <2>1, <2>2, NoThrow DEF IInv, SelectThrows
  <2>3. CASE spc' = "dead"
    BY <2>1, <2>3 DEF IInv, OpenInv
  <2>4. QED
    BY <2>1, <2>2, <2>3
<1>2. QED
  BY <1>1, Invariance, PTL DEF Spec, SurvivesPeers

\* When stop() returns, and start() is not running, there is no loop and no connection.
THEOREM StopIsClean == Spec => StopLeavesNothing
<1>1. IInv /\ [Next]_vars
      => [stpc # "idle" /\ stpc' = "idle" /\ ~fg'
            => spc' = "none" /\ \A fd \in Fds : kernel'[fd] \notin Conns]_vars
  <2>1. SUFFICES ASSUME IInv, [Next]_vars, stpc # "idle", stpc' = "idle", ~fg'
                 PROVE  spc' = "none" /\ \A fd \in Fds : kernel'[fd] \notin Conns
    OBVIOUS
  <2>2. StopClear
    BY <2>1, LoopSteps, QuietSteps DEF Next, Start, StartInBackground, Listening, StartFails, Stop,
       StartPollFails, StopStep, StopShutdown, StopCloseSocket, StopInvalidate, StopJoin, LoopStep,
       LoopCheck, SelectThrows
  <2>3. spc' = spc /\ fg' = fg /\ stpc = "clear"
    BY <2>2 DEF StopClear, loopVars, lifeVars
  <2>4. spc = "none"
    BY <2>1, <2>3 DEF IInv, LifeInv
  <2>5. \A fd \in Fds : kernel'[fd] = IF sockets[fd] = "none" THEN kernel[fd] ELSE "free"
    BY <2>2 DEF StopClear
  <2>6. ASSUME NEW fd \in Fds PROVE kernel'[fd] \notin Conns
    BY <2>1, <2>4, <2>5, SyncAssumption DEF IInv, TableInv, MapMirrorsKernel
  <2>7. QED
    BY <2>3, <2>4, <2>6
<1>2. QED
  BY <1>1, Invariance, PTL DEF Spec, StopLeavesNothing

\* A poll waits at most until one interval after the last poll, whatever the frequency,
\* the microseconds of a second and the two readings of the clock.
THEOREM WaitIsBounded == Spec => []StallBounded
<1>1. IInv => StallBounded
  <2>1. SUFFICES ASSUME IInv, NEW last \in Clock, NEW now \in Clock, NEW f \in 1 .. frequency,
                        Passed(last, now) >= 0, WaitTime(last, now, f) # NoTime
                 PROVE  /\ WaitTime(last, now, f).sec >= 0
                        /\ f * (WaitTime(last, now, f).sec * Usec + WaitTime(last, now, f).usec)
                             <= Usec - Passed(last, now)
    BY DEF StallBounded
  <2> DEFINE delta == (last.usec - now.usec + Usec) \div f
             sec == last.sec - now.sec + delta \div Usec
             usec == delta % Usec
  <2>2. /\ last.sec \in Nat /\ last.usec \in 0 .. Usec - 1
        /\ now.sec \in Nat /\ now.usec \in 0 .. Usec - 1
    BY <2>1 DEF Clock
  <2>3. f \in Nat \ {0}
    BY <2>1 DEF IInv, TypeOK
  <2>4. (now.sec - last.sec) * Usec + now.usec - last.usec >= 0
    BY <2>1 DEF Passed
  <2>5. /\ sec \in Int /\ usec \in Nat
        /\ f * (sec * Usec + usec) <= Usec - Passed(last, now)
    BY <2>2, <2>3, <2>4, WaitTimeBounded DEF Passed
  <2> HIDE DEF delta
  <2>6. /\ sec > 0 \/ (sec = 0 /\ usec > 0)
        /\ WaitTime(last, now, f) = [sec |-> sec, usec |-> usec]
    BY <2>1, <2>3 DEF WaitTime, delta
  <2> HIDE DEF sec, usec
  <2>7. QED
    BY <2>5, <2>6
<1>2. QED
  BY <1>1, Invariance, PTL

=============================================================================
