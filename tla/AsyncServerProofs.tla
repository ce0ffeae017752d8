------------------------- MODULE AsyncServerProofs -------------------------
(***************************************************************************)
(* Proofs about AsyncServer: the types, the lifetime of the i/o threads,   *)
(* and what start and stop promise for any number of clients.              *)
(***************************************************************************)
EXTENDS AsyncServer, TLAPS

-----------------------------------------------------------------------------
(***************************************************************************)
(* Types.                                                                  *)
(***************************************************************************)

\* The steps of one i/o thread keep the types: they change valid, thr, out,
\* inq and got at p only.
LEMMA ClientTypes ==
    ASSUME TypeOK, NEW p \in Peers, Client(p)
    PROVE  TypeOK'
<1> USE DEF Goto, TypeOK, Serving, ThreadAt, Messages, serverVars, loopVars,
            stopVars, clientVars, peerVars
<1>1. CASE ClientCheck(p)
  BY <1>1 DEF ClientCheck
<1>2. CASE ClientWriteNothing(p)
  BY <1>2 DEF ClientWriteNothing
<1>3. CASE ClientSend(p)
  BY <1>3 DEF ClientSend, Sent
<1>4. CASE ClientSendFails(p)
  BY <1>4 DEF ClientSendFails
<1>5. CASE ClientClear(p)
  <2>1. CloseAfterWrite \in BOOLEAN
    BY SwitchesAssumption
  <2>2. valid' \in [Peers -> BOOLEAN]
    BY <1>5, <2>1 DEF ClientClear
  <2>3. thr' \in [Peers -> ThreadAt] /\ out' \in [Peers -> SUBSET Messages]
    BY <1>5 DEF ClientClear
  <2> QED
    BY <1>5, <2>2, <2>3 DEF ClientClear
<1>10. CASE ClientSeemsShort(p)
  <2>1. got' \in [Peers -> SUBSET Messages] /\ out' \in [Peers -> SUBSET Messages]
    BY <1>10 DEF ClientSeemsShort, Sent
  <2>2. /\ valid' \in [Peers -> BOOLEAN] /\ thr' \in [Peers -> ThreadAt]
        /\ sent' \in [Peers -> SUBSET Messages]
    BY <1>10 DEF ClientSeemsShort
  <2> QED
    BY <1>10, <2>1, <2>2 DEF ClientSeemsShort
<1>6. CASE ClientRead(p)
  <2>1. inq' \in [Peers -> BOOLEAN] /\ out' \in [Peers -> SUBSET Messages]
    BY <1>6 DEF ClientRead
  <2>2. thr' \in [Peers -> ThreadAt]
    BY <1>6 DEF ClientRead
  <2> QED
    BY <1>6, <2>1, <2>2 DEF ClientRead
<1>7. CASE ClientReturn(p)
  BY <1>7 DEF ClientReturn
<1>8. CASE ClientReadEof(p)
  BY <1>8 DEF ClientReadEof
<1>9. CASE ClientReadFails(p)
  BY <1>9 DEF ClientReadFails
<1> QED
  BY <1>1, <1>2, <1>3, <1>4, <1>5, <1>6, <1>7, <1>8, <1>9, <1>10 DEF Client

\* The steps of the server loop keep the types, and cur is a connection
\* whenever on_accept works on it.
LEMMA LoopTypes ==
    ASSUME TypeOK, Loop
    PROVE  TypeOK'
<1> USE DEF TypeOK, LoopAt, Serving, serverVars, loopVars, stopVars, clientVars, peerVars
<1>1. CASE LoopCheck
  <2>1. fg' \in BOOLEAN
    BY <1>1 DEF LoopCheck
  <2> QED
    BY <1>1, <2>1 DEF LoopCheck
<1>2. CASE LoopAccept
  <2>1. Head(backlog) \in Peers /\ Tail(backlog) \in Seq(Peers)
    BY <1>2 DEF LoopAccept
  <2> QED
    BY <1>2, <2>1 DEF LoopAccept
<1>3. CASE LoopAcceptFails
  BY <1>3 DEF LoopAcceptFails
<1>4. CASE LoopCreate
  BY <1>4 DEF LoopCreate
<1>5. CASE LoopSpawn
  <2>1. thr' \in [Peers -> ThreadAt]
    BY <1>5 DEF LoopSpawn, ThreadAt
  <2> QED
    BY <1>5, <2>1 DEF LoopSpawn
<1>6. CASE LoopListeners
  <2>1. out' \in [Peers -> SUBSET Messages]
    BY <1>6 DEF LoopListeners, Messages
  <2> QED
    BY <1>6, <2>1 DEF LoopListeners
<1>7. CASE LoopDrop
  BY <1>7 DEF LoopDrop
<1>8. CASE LoopRelease
  BY <1>8 DEF LoopRelease
<1> QED
  BY <1>1, <1>2, <1>3, <1>4, <1>5, <1>6, <1>7, <1>8 DEF Loop

\* start and stop keep the types.
LEMMA ControlTypes ==
    ASSUME TypeOK,
           \/ StartInBackground \/ Start \/ StartFails \/ StopByProgram \/ StopStep
           \/ \E p \in Peers : StopByListener(p)
    PROVE  TypeOK'
<1> USE SwitchesAssumption
    DEF TypeOK, LoopAt, StopAt, Serving, serverVars, loopVars, stopVars, clientVars, peerVars
<1>1. CASE StartInBackground \/ Start
  <2>1. bg' \in BOOLEAN /\ fg' \in BOOLEAN
    BY <1>1 DEF StartInBackground, Start
  <2>2. Listening
    BY <1>1 DEF StartInBackground, Start
  <2> QED
    BY <2>1, <2>2 DEF Listening, MayStart
<1>2. CASE StartFails
  BY <1>2 DEF StartFails, MayStart
<1>3. CASE StopByProgram
  BY <1>3 DEF StopByProgram, Stop
<1>4. CASE StopShutdown
  <2>1. backlog' \in Seq(Peers)
    BY <1>4 DEF StopShutdown
  <2> QED
    BY <1>4, <2>1 DEF StopShutdown
<1>5. CASE StopCloseSocket
  BY <1>5 DEF StopCloseSocket
<1>6. CASE StopInvalidate
  BY <1>6 DEF StopInvalidate
<1>7. CASE StopJoin
  BY <1>7 DEF StopJoin
<1>8. CASE \E p \in Peers : StopByListener(p)
  BY <1>8 DEF StopByListener, Stop
<1> QED
  BY <1>1, <1>2, <1>3, <1>4, <1>5, <1>6, <1>7, <1>8 DEF StopStep

\* The remote ends keep the types.
LEMMA PeerTypes ==
    ASSUME TypeOK, NEW p \in Peers, PeerConnect(p) \/ PeerAsk(p) \/ PeerQuit(p)
    PROVE  TypeOK'
<1> USE DEF TypeOK, Serving, serverVars, loopVars, stopVars, clientVars, peerVars
<1>1. CASE PeerConnect(p)
  <2>1. backlog' \in Seq(Peers)
    BY <1>1 DEF PeerConnect
  <2> QED
    BY <1>1, <2>1 DEF PeerConnect
<1>2. CASE PeerAsk(p)
  BY <1>2 DEF PeerAsk
<1>3. CASE PeerQuit(p)
  BY <1>3 DEF PeerQuit
<1> QED
  BY <1>1, <1>2, <1>3

\* TypeOK is inductive as it stands: no step of any thread leaves the values the
\* code can produce, and on_accept never works on the INVALID of a failed accept.
THEOREM TypeCorrect == Spec => []TypeOK
<1>1. Init => TypeOK
  <2> SUFFICES ASSUME Init PROVE TypeOK
    OBVIOUS
  <2> USE DEF Init
  <2>1. backlog \in Seq(Peers) /\ starts \in 0 .. MaxStarts
    BY SwitchesAssumption
  <2>2. spc \in LoopAt /\ stpc \in StopAt /\ (spc \in Serving => cur \in Peers)
    BY DEF LoopAt, StopAt, Serving
  <2>3. /\ valid \in [Peers -> BOOLEAN] /\ inq \in [Peers -> BOOLEAN]
        /\ asked \in [Peers -> BOOLEAN]
    OBVIOUS
  <2>4. /\ obj \in [Peers -> {"none", "live", "dead"}] /\ thr \in [Peers -> ThreadAt]
        /\ out \in [Peers -> SUBSET Messages] /\ got \in [Peers -> SUBSET Messages]
        /\ peer \in [Peers -> {"away", "open", "closed", "reset"}]
    BY DEF ThreadAt
  <2> QED
    BY <2>1, <2>2, <2>3, <2>4 DEF TypeOK
<1>2. TypeOK /\ [Next]_vars => TypeOK'
  <2> SUFFICES ASSUME TypeOK, [Next]_vars PROVE TypeOK'
    OBVIOUS
  <2>1. CASE StartInBackground \/ Start \/ StartFails \/ StopByProgram \/ StopStep
    BY <2>1, ControlTypes
  <2>2. CASE Loop
    BY <2>2, LoopTypes
  <2>3. ASSUME NEW p \in Peers, StopByListener(p) PROVE TypeOK'
    BY <2>3, ControlTypes
  <2>4. ASSUME NEW p \in Peers, Client(p) PROVE TypeOK'
    BY <2>4, ClientTypes
  <2>5. ASSUME NEW p \in Peers, PeerConnect(p) \/ PeerAsk(p) \/ PeerQuit(p)
        PROVE  TypeOK'
    BY <2>5, PeerTypes
  <2>6. CASE UNCHANGED vars
    BY <2>6 DEF vars, serverVars, loopVars, stopVars, clientVars, peerVars, TypeOK, Serving
  <2> QED
    BY <2>1, <2>2, <2>3, <2>4, <2>5, <2>6 DEF Next
<1> QED
  BY <1>1, <1>2, PTL DEF Spec

-----------------------------------------------------------------------------
(***************************************************************************)
(* Lifetimes.  That an i/o thread works on a live object needs the object  *)
(* to be live already when on_connect starts the thread.                   *)
(***************************************************************************)

LifetimeInv == ThreadWithinLifetime /\ (spc = "spawn" => obj[cur] = "live")

\* Every step of every thread keeps LifetimeInv.
LEMMA LifetimeStep ==
    ASSUME TypeOK, LifetimeInv, [Next]_vars
    PROVE  LifetimeInv'
<1> USE DEF LifetimeInv, ThreadWithinLifetime, Running, TypeOK, Serving,
            serverVars, loopVars, stopVars, clientVars, peerVars
<1>1. CASE StartInBackground \/ Start \/ StartFails
  BY <1>1 DEF StartInBackground, Start, Listening, StartFails
<1>2. CASE StopByProgram
  BY <1>2 DEF StopByProgram, Stop
<1>3. CASE StopStep
  BY <1>3 DEF StopStep, StopShutdown, StopCloseSocket, StopInvalidate, StopJoin
<1>4. CASE LoopCheck \/ LoopAccept \/ LoopAcceptFails \/ LoopListeners \/ LoopRelease
  BY <1>4 DEF LoopCheck, LoopAccept, LoopAcceptFails, LoopListeners, LoopRelease
<1>5. CASE LoopCreate
  BY <1>5 DEF LoopCreate
<1>6. CASE LoopSpawn
  BY <1>6 DEF LoopSpawn
<1>7. CASE LoopDrop
  BY <1>7 DEF LoopDrop
<1>8. ASSUME NEW p \in Peers, Client(p) PROVE LifetimeInv'
  <2>1. /\ thr[p] \notin {"none", "done"}
        /\ obj' = obj /\ spc' = spc /\ cur' = cur
        /\ \A q \in Peers : q # p => thr'[q] = thr[q]
    BY <1>8 DEF Client, ClientCheck, ClientWriteNothing, ClientSend, ClientSendFails,
                ClientClear, ClientSeemsShort, Sent, ClientRead, ClientReturn, ClientReadEof,
                ClientReadFails, Goto
  <2> QED
    BY <2>1
<1>9. ASSUME NEW p \in Peers, StopByListener(p) \/ PeerConnect(p) \/ PeerAsk(p) \/ PeerQuit(p)
      PROVE  LifetimeInv'
  BY <1>9 DEF StopByListener, Stop, PeerConnect, PeerAsk, PeerQuit
<1>10. CASE UNCHANGED vars
  BY <1>10 DEF vars
<1> QED
  BY <1>1, <1>2, <1>3, <1>4, <1>5, <1>6, <1>7, <1>8, <1>9, <1>10 DEF Next, Loop

\* LifetimeInv holds in every reachable state.
LEMMA Lifetime == Spec => []LifetimeInv
<1>1. Init => LifetimeInv
  BY DEF Init, LifetimeInv, ThreadWithinLifetime, Running
<1>2. TypeOK /\ LifetimeInv /\ [Next]_vars => LifetimeInv'
  BY LifetimeStep
<1> QED
  BY <1>1, <1>2, TypeCorrect, PTL DEF Spec

\* For any number of clients, any factory and any listeners, the i/o thread of a
\* default_client runs only while its object is live: ~default_client joins it.
THEOREM ThreadSafe == Spec => []ThreadWithinLifetime
<1>1. LifetimeInv => ThreadWithinLifetime
  BY DEF LifetimeInv
<1> QED
  BY <1>1, Lifetime, PTL

-----------------------------------------------------------------------------
(***************************************************************************)
(* start and stop, when only the program calls stop().                     *)
(***************************************************************************)

\* Who is in stop(), and who runs the loop: a background thread exists only while
\* sock_ is set or a stop() is about to join it, never next to a thread inside
\* start(), and without either there is no loop.  stop() joins after sock_ was
\* invalidated, and no start sets it meanwhile.
LifecycleInv ==
    /\ stpc # "idle" => stopper = "main"
    /\ bg => sock \/ stpc = "join"
    /\ stpc = "join" => ~sock
    /\ ~(bg /\ fg)
    /\ ~bg /\ ~fg => spc = "none"

\* A start finds no thread: sock_ is INVALID and nobody is in stop().
LEMMA StartAlone ==
    ASSUME TypeOK, LifecycleInv, MayStart
    PROVE  ~bg /\ spc = "none"
BY DEF TypeOK, LifecycleInv, MayStart

\* Every step keeps LifecycleInv when listeners do not call stop().
LEMMA LifecycleStep ==
    ASSUME Stoppers = {}, TypeOK, LifecycleInv, [Next]_vars
    PROVE  LifecycleInv'
<1> USE SwitchesAssumption
    DEF LifecycleInv, TypeOK, serverVars, loopVars, stopVars, clientVars, peerVars
<1>1. CASE StartInBackground \/ Start
  BY <1>1, StartAlone DEF StartInBackground, Start, Listening, MayStart
<1>2. CASE StartFails
  BY <1>2, StartAlone DEF StartFails, MayStart
<1>3. CASE StopByProgram
  BY <1>3 DEF StopByProgram, Stop
<1>4. CASE StopShutdown \/ StopCloseSocket \/ StopInvalidate
  BY <1>4 DEF StopShutdown, StopCloseSocket, StopInvalidate
<1>5. CASE StopJoin
  BY <1>5 DEF StopJoin
<1>6. CASE Loop
  BY <1>6 DEF Loop, LoopCheck, LoopAccept, LoopAcceptFails, LoopCreate, LoopSpawn,
              LoopListeners, LoopDrop, LoopRelease
<1>7. ASSUME NEW p \in Peers, Client(p) PROVE LifecycleInv'
  BY <1>7 DEF Client, ClientCheck, ClientWriteNothing, ClientSend, ClientSendFails,
              ClientClear, ClientSeemsShort, Sent, ClientRead, ClientReturn, ClientReadEof,
                ClientReadFails, Goto
<1>8. ASSUME NEW p \in Peers, StopByListener(p) \/ PeerConnect(p) \/ PeerAsk(p) \/ PeerQuit(p)
      PROVE  LifecycleInv'
  BY <1>8 DEF StopByListener, PeerConnect, PeerAsk, PeerQuit
<1>9. CASE UNCHANGED vars
  BY <1>9 DEF vars
<1> QED
  BY <1>1, <1>2, <1>3, <1>4, <1>5, <1>6, <1>7, <1>8, <1>9 DEF Next, StopStep

\* LifecycleInv holds in every reachable state when listeners do not call stop().
LEMMA Lifecycle == Stoppers = {} /\ Spec => []LifecycleInv
<1> SUFFICES ASSUME Stoppers = {} PROVE Spec => []LifecycleInv
  OBVIOUS
<1>1. Init => LifecycleInv
  BY DEF Init, LifecycleInv
<1>2. TypeOK /\ LifecycleInv /\ [Next]_vars => LifecycleInv'
  BY LifecycleStep
<1> QED
  BY <1>1, <1>2, TypeCorrect, PTL DEF Spec

\* When listeners do not call stop(), start_in_background and start never
\* replace a thread that was not joined, however often the program starts and
\* stops and wherever the loop and the clients are.
THEOREM NoThreadReplaced == Stoppers = {} /\ Spec => StartFindsNoThread
<1> SUFFICES ASSUME Stoppers = {} PROVE Spec => StartFindsNoThread
  OBVIOUS
<1>1. TypeOK /\ LifecycleInv /\ [Next]_vars
      => [starts' # starts => ~bg /\ spc = "none"]_vars
  <2> SUFFICES ASSUME TypeOK, LifecycleInv, Next, starts' # starts
               PROVE  ~bg /\ spc = "none"
    OBVIOUS
  <2>1. CASE StartInBackground \/ Start \/ StartFails
    BY <2>1, StartAlone DEF StartInBackground, Start, Listening, StartFails
  <2>2. CASE StopByProgram \/ StopStep
    BY <2>2 DEF StopByProgram, Stop, StopStep, StopShutdown, StopCloseSocket,
                StopInvalidate, StopJoin, serverVars
  <2>3. CASE Loop
    BY <2>3 DEF Loop, LoopCheck, LoopAccept, LoopAcceptFails, LoopCreate, LoopSpawn,
                LoopListeners, LoopDrop, LoopRelease, serverVars
  <2>4. ASSUME NEW p \in Peers, Client(p) PROVE FALSE
    BY <2>4 DEF Client, ClientCheck, ClientWriteNothing, ClientSend, ClientSendFails,
                ClientClear, ClientSeemsShort, Sent, ClientRead, ClientReturn, ClientReadEof,
                ClientReadFails, Goto, serverVars
  <2>5. ASSUME NEW p \in Peers,
               StopByListener(p) \/ PeerConnect(p) \/ PeerAsk(p) \/ PeerQuit(p)
        PROVE  FALSE
    BY <2>5 DEF StopByListener, PeerConnect, PeerAsk, PeerQuit, serverVars
  <2> QED
    BY <2>1, <2>2, <2>3, <2>4, <2>5 DEF Next
<1> QED
  BY <1>1, TypeCorrect, Lifecycle, PTL DEF Spec, StartFindsNoThread

-----------------------------------------------------------------------------
(***************************************************************************)
(* What stop() leaves behind.                                              *)
(***************************************************************************)

\* Of the clients the factory does not keep the loop owns the only one: it
\* destroys each before it accepts the next.
OneClientInv ==
    \A p \in Peers \ Retain :
        obj[p] = "live" => p = cur /\ spc \in {"spawn", "listeners", "drop"}

\* Every step keeps OneClientInv.
LEMMA OneClientStep ==
    ASSUME TypeOK, LifecycleInv, OneClientInv, [Next]_vars
    PROVE  OneClientInv'
<1> USE DEF OneClientInv, TypeOK, Serving, serverVars, loopVars, stopVars, clientVars,
            peerVars
<1>1. CASE StartInBackground \/ Start \/ StartFails
  BY <1>1, StartAlone DEF StartInBackground, Start, Listening, StartFails
<1>2. CASE StopByProgram \/ StopShutdown \/ StopCloseSocket \/ StopInvalidate
  BY <1>2 DEF StopByProgram, Stop, StopShutdown, StopCloseSocket, StopInvalidate
<1>3. CASE StopJoin
  BY <1>3 DEF StopJoin
<1>4. CASE LoopCheck \/ LoopAccept \/ LoopAcceptFails \/ LoopSpawn \/ LoopListeners
  BY <1>4 DEF LoopCheck, LoopAccept, LoopAcceptFails, LoopSpawn, LoopListeners
<1>5. CASE LoopCreate
  BY <1>5 DEF LoopCreate
<1>6. CASE LoopDrop
  BY <1>6 DEF LoopDrop
<1>7. CASE LoopRelease
  BY <1>7 DEF LoopRelease
<1>8. ASSUME NEW p \in Peers, Client(p) PROVE OneClientInv'
  BY <1>8 DEF Client, ClientCheck, ClientWriteNothing, ClientSend, ClientSendFails,
              ClientClear, ClientSeemsShort, Sent, ClientRead, ClientReturn, ClientReadEof,
                ClientReadFails, Goto
<1>9. ASSUME NEW p \in Peers, StopByListener(p) \/ PeerConnect(p) \/ PeerAsk(p) \/ PeerQuit(p)
      PROVE  OneClientInv'
  BY <1>9 DEF StopByListener, Stop, PeerConnect, PeerAsk, PeerQuit
<1>10. CASE UNCHANGED vars
  BY <1>10 DEF vars
<1> QED
  BY <1>1, <1>2, <1>3, <1>4, <1>5, <1>6, <1>7, <1>8, <1>9, <1>10 DEF Next, StopStep, Loop

\* When listeners do not call stop(): once the stop() of a background server has
\* returned no loop runs, and no i/o thread and no client object is left but
\* those the factory keeps, for any number of clients and restarts.
THEOREM StopLeavesNothing == Stoppers = {} /\ Spec => []StopQuiesces
<1> SUFFICES ASSUME Stoppers = {} PROVE Spec => []StopQuiesces
  OBVIOUS
<1>1. Init => OneClientInv
  BY DEF Init, OneClientInv
<1>2. TypeOK /\ LifecycleInv /\ OneClientInv /\ [Next]_vars => OneClientInv'
  BY OneClientStep
<1>3. LifecycleInv /\ OneClientInv /\ LifetimeInv => StopQuiesces
  BY DEF LifecycleInv, OneClientInv, LifetimeInv, ThreadWithinLifetime, StopQuiesces
<1> QED
  BY <1>1, <1>2, <1>3, TypeCorrect, Lifecycle, Lifetime, PTL DEF Spec

-----------------------------------------------------------------------------
(***************************************************************************)
(* AsyncServer implements ServerLifecycle.                                 *)
(***************************************************************************)

\* A step of a client's i/o thread, of a peer or of a listener is a stutter of the
\* life cycle.
LEMMA ClientStutters ==
    ASSUME NEW p \in Peers, Stoppers = {},
           Client(p) \/ StopByListener(p) \/ PeerConnect(p) \/ PeerAsk(p) \/ PeerQuit(p)
    PROVE  UNCHANGED <<Phase, Active>>
<1>1. spc' = spc /\ sock' = sock /\ obj' = obj
  BY DEF Client, ClientCheck, ClientWriteNothing, ClientSend, ClientSendFails,
         ClientClear, ClientSeemsShort, Sent, ClientRead, ClientReturn, ClientReadEof,
                ClientReadFails, Goto,
         StopByListener, PeerConnect, PeerAsk, PeerQuit,
         serverVars, loopVars, stopVars, clientVars
<1> QED
  BY <1>1 DEF Phase, Active

\* Every step of AsyncServer is a step of the life cycle or a stutter of it.
LEMMA LifecycleSimulation ==
    ASSUME Stoppers = {}, TypeOK, LifecycleInv, OneClientInv, [Next]_vars
    PROVE  [Abstract!Next]_(Abstract!vars)
<1> USE DEF Abstract!vars, serverVars, loopVars, stopVars, clientVars, peerVars
<1>1. CASE StartInBackground \/ Start
  <2>1. spc = "none" /\ spc' = "check" /\ sock' /\ obj' = obj
    BY <1>1, StartAlone DEF StartInBackground, Start, Listening
  <2>2. Abstract!Start
    BY <2>1 DEF Abstract!Start, Phase, Active
  <2> QED
    BY <2>2 DEF Abstract!Next
<1>2. CASE StartFails
  <2>1. spc = "none" /\ spc' = spc /\ obj' = obj
    BY <1>2, StartAlone DEF StartFails
  <2> QED
    BY <2>1 DEF Phase, Active
<1>3. CASE StopByProgram \/ StopShutdown \/ StopCloseSocket
  <2>1. spc' = spc /\ sock' = sock /\ obj' = obj
    BY <1>3 DEF StopByProgram, Stop, StopShutdown, StopCloseSocket
  <2> QED
    BY <2>1 DEF Phase, Active
<1>4. CASE StopInvalidate
  <2>1. spc' = spc /\ ~sock' /\ obj' = obj
    BY <1>4 DEF StopInvalidate
  <2>2. CASE spc # "none" /\ sock
    <3>1. Abstract!Halt
      BY <2>1, <2>2 DEF Abstract!Halt, Phase, Active
    <3> QED
      BY <3>1 DEF Abstract!Next
  <2>3. CASE spc = "none" \/ ~sock
    BY <2>1, <2>3 DEF Phase, Active, TypeOK
  <2> QED
    BY <2>2, <2>3
<1>5. CASE StopJoin
  <2>1. ~sock /\ sock' = sock /\ obj' = obj
    BY <1>5 DEF StopJoin, LifecycleInv
  <2>2. CASE bg
    <3>1. spc = "done" /\ spc' = "none"
      BY <1>5, <2>2 DEF StopJoin
    <3>2. Active = {}
      BY <3>1 DEF OneClientInv, Active
    <3>3. Abstract!Stopped
      BY <2>1, <3>1, <3>2 DEF Abstract!Stopped, Phase, Active
    <3> QED
      BY <3>3 DEF Abstract!Next
  <2>3. CASE ~bg
    <3>1. spc' = spc
      BY <1>5, <2>3 DEF StopJoin
    <3> QED
      BY <2>1, <3>1 DEF Phase, Active
  <2> QED
    BY <2>2, <2>3
<1>6. CASE LoopCheck
  <2>1. spc = "check" /\ sock' = sock /\ obj' = obj
    BY <1>6 DEF LoopCheck
  <2>2. CASE sock \/ ~fg
    <3>1. spc' # "none"
      BY <1>6, <2>2 DEF LoopCheck
    <3> QED
      BY <2>1, <3>1 DEF Phase, Active
  <2>3. CASE ~sock /\ fg
    <3>1. spc' = "none"
      BY <1>6, <2>3 DEF LoopCheck
    <3>2. Active = {}
      BY <2>1 DEF OneClientInv, Active
    <3>3. Abstract!Stopped
      BY <2>1, <2>3, <3>1, <3>2 DEF Abstract!Stopped, Phase, Active
    <3> QED
      BY <3>3 DEF Abstract!Next
  <2> QED
    BY <2>2, <2>3
<1>7. CASE LoopAccept \/ LoopAcceptFails \/ LoopSpawn \/ LoopListeners \/ LoopRelease
  <2>1. spc # "none" /\ spc' # "none" /\ sock' = sock /\ obj' = obj
    BY <1>7 DEF LoopAccept, LoopAcceptFails, LoopSpawn, LoopListeners, LoopRelease
  <2> QED
    BY <2>1 DEF Phase, Active
<1>8. CASE LoopCreate
  <2>1. /\ spc = "create" /\ spc' = "spawn" /\ sock' = sock /\ cur \in Peers
        /\ obj' = [obj EXCEPT ![cur] = "live"]
    BY <1>8 DEF LoopCreate, TypeOK, Serving
  <2>2. Phase' = Phase /\ Phase # "stopped"
    BY <2>1 DEF Phase
  <2>3. CASE cur \in Retain
    <3>1. Active' = Active
      BY <2>1, <2>3 DEF Active, TypeOK
    <3> QED
      BY <2>2, <3>1
  <2>4. CASE cur \notin Retain
    <3>1. Active = {}
      BY <2>1 DEF OneClientInv, Active
    <3>2. Active' = Active \cup {cur}
      BY <2>1, <2>4, <3>1 DEF Active, TypeOK
    <3>3. Abstract!Accept(cur)
      BY <2>2, <3>1, <3>2 DEF Abstract!Accept
    <3> QED
      BY <2>1, <2>4, <3>3 DEF Abstract!Next
  <2> QED
    BY <2>3, <2>4
<1>9. CASE LoopDrop
  <2>1. /\ spc = "drop" /\ spc' = "check" /\ sock' = sock /\ cur \in Peers \ Retain
        /\ obj' = [obj EXCEPT ![cur] = "dead"]
    BY <1>9 DEF LoopDrop, TypeOK, Serving
  <2>2. Phase' = Phase
    BY <2>1 DEF Phase
  <2>3. Active' = Active \ {cur}
    BY <2>1 DEF Active, TypeOK
  <2>4. CASE cur \in Active
    <3>1. Abstract!End(cur)
      BY <2>2, <2>3, <2>4 DEF Abstract!End
    <3> QED
      BY <2>1, <3>1 DEF Abstract!Next
  <2>5. CASE cur \notin Active
    BY <2>2, <2>3, <2>5
  <2> QED
    BY <2>4, <2>5
<1>10. ASSUME NEW p \in Peers,
              Client(p) \/ StopByListener(p) \/ PeerConnect(p) \/ PeerAsk(p) \/ PeerQuit(p)
       PROVE  [Abstract!Next]_(Abstract!vars)
  BY <1>10, ClientStutters
<1>11. CASE UNCHANGED vars
  BY <1>11 DEF vars, Phase, Active
<1> QED
  BY <1>1, <1>2, <1>3, <1>4, <1>5, <1>6, <1>7, <1>8, <1>9, <1>10, <1>11
  DEF Next, StopStep, Loop

\* When listeners do not call stop(), the async server is an implementation of the
\* life cycle of ServerLifecycle, for any number of peers, whatever they do, for
\* any factory and any number of starts.
THEOREM LifecycleRefinement == Stoppers = {} /\ Spec => ImplementsLifecycle
<1> SUFFICES ASSUME Stoppers = {} PROVE Spec => ImplementsLifecycle
  OBVIOUS
<1>1. Init => Abstract!Init
  BY DEF Init, Abstract!Init, Phase, Active
<1>2. Init => OneClientInv
  BY DEF Init, OneClientInv
<1>3. TypeOK /\ LifecycleInv /\ OneClientInv /\ [Next]_vars => OneClientInv'
  BY OneClientStep
<1>4. TypeOK /\ LifecycleInv /\ OneClientInv /\ [Next]_vars
      => [Abstract!Next]_(Abstract!vars)
  BY LifecycleSimulation
<1> QED
  BY <1>1, <1>2, <1>3, <1>4, TypeCorrect, Lifecycle, PTL
  DEF Spec, ImplementsLifecycle, Abstract!Spec

=============================================================================
