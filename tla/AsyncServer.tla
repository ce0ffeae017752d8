---------------------------- MODULE AsyncServer ----------------------------
(***************************************************************************)
(* coda::net::socket_server run by async::server, with async::             *)
(* default_client sockets (socket_server.cpp, async/server.cpp,            *)
(* async/client.cpp): the threads, who waits for whom, and what start and  *)
(* stop promise.                                                           *)
(*                                                                         *)
(* Threads: the program, which calls start and stop; the server loop; one  *)
(* i/o thread per client.  The steps of a thread are the points at which   *)
(* another thread can see or change what it works on.  The listener is the *)
(* one of the repository's own tests: on_did_read writes a response and    *)
(* on_did_write closes the socket.                                         *)
(***************************************************************************)
EXTENDS Integers, Sequences

CONSTANTS
    Peers,           \* remote ends; each connects at most once
    Unreliable,      \* peers that may stay silent, or close or reset at any time
    DefaultClient,   \* the factory makes default_client, else buffered_socket
    Retain,          \* clients to which the factory keeps a shared_ptr
    Stoppers,        \* clients whose listener may call stop() in on_did_read
    Greets,          \* the listener's on_connect writes a greeting
    CloseAfterWrite, \* the listener's on_did_write closes the socket
    MaxStarts        \* bound: calls of start

ASSUME PeersAssumption ==
    /\ Unreliable \subseteq Peers /\ Retain \subseteq Peers /\ Stoppers \subseteq Peers
    /\ "main" \notin Peers /\ "none" \notin Peers
ASSUME SwitchesAssumption ==
    /\ DefaultClient \in BOOLEAN /\ Greets \in BOOLEAN /\ CloseAfterWrite \in BOOLEAN
    /\ MaxStarts \in Nat

VARIABLES
    sock,     \* the server's sock_ is not INVALID
    lsock,    \* its descriptor
    backlog,  \* connections the kernel holds for accept()
    bg,       \* backgroundThread_ is set
    fg,       \* a thread of the program is inside start()
    starts,   \* calls of start so far
    spc,      \* where the server loop is, "none" when no thread runs it
    cur,      \* the connection the server loop is working on
    stpc,     \* where a call of stop() is
    stopper,  \* the thread in it
    obj,      \* the client objects
    valid,    \* is_valid() of the client objects
    thr,      \* where the client's i/o thread is
    out,      \* outBuffer_ of the client: what it is to send
    sent,     \* what send() took of it, until its result has been looked at
    inq,      \* a request waits in the kernel's receive queue
    peer,     \* the remote end
    asked,    \* it has sent its request
    got       \* what it has received

serverVars == <<sock, lsock, backlog, bg, fg, starts>>
loopVars == <<spc, cur>>
stopVars == <<stpc, stopper>>
clientVars == <<obj, valid, thr, out, sent, inq>>
peerVars == <<peer, asked, got>>
vars == <<serverVars, loopVars, stopVars, clientVars, peerVars>>

Messages == {"greeting", "response"}

LoopAt == {"none", "check", "accept", "create", "spawn", "listeners", "drop", "done"}
StopAt == {"idle", "shutdown", "closesocket", "invalidate", "join"}
ThreadAt == {"none", "check", "write", "clear", "read", "callback", "done"}

Init ==
    /\ sock = FALSE /\ lsock = "closed" /\ backlog = <<>>
    /\ bg = FALSE /\ fg = FALSE /\ starts = 0
    /\ spc = "none" /\ cur = "none"
    /\ stpc = "idle" /\ stopper = "none"
    /\ obj = [p \in Peers |-> "none"]
    /\ valid = [p \in Peers |-> FALSE]
    /\ thr = [p \in Peers |-> "none"]
    /\ out = [p \in Peers |-> {}]
    /\ sent = [p \in Peers |-> {}]
    /\ inq = [p \in Peers |-> FALSE]
    /\ peer = [p \in Peers |-> "away"]
    /\ asked = [p \in Peers |-> FALSE]
    /\ got = [p \in Peers |-> {}]

-----------------------------------------------------------------------------
(***************************************************************************)
(* start_in_background, start and stop.                                    *)
(***************************************************************************)

\* Fault: start does not look at is_valid().
MayStartAlways ==
    /\ stopper # "main" /\ ~fg /\ starts < MaxStarts

\* The program, which is not inside start() or stop(), may start: is_valid() is
\* checked.
MayStart ==
    /\ stopper # "main" /\ ~fg /\ starts < MaxStarts
    /\ ~sock

\* listen succeeds; async::server::on_start leaves the socket blocking.
Listening ==
    /\ MayStart
    /\ sock' = TRUE /\ lsock' = "listening"
    /\ spc' = "check"
    /\ starts' = starts + 1
    /\ UNCHANGED <<backlog, cur, stopVars, clientVars, peerVars>>

\* A new thread enters run().
StartInBackground == Listening /\ bg' = TRUE /\ UNCHANGED fg

\* The calling thread enters run().
Start == Listening /\ fg' = TRUE /\ UNCHANGED bg

\* bind succeeds and ::listen does not: start throws, and sock_ stays set.
StartFails ==
    /\ MayStart
    /\ sock' = TRUE /\ lsock' = "bound"
    /\ starts' = starts + 1
    /\ UNCHANGED <<backlog, bg, fg, loopVars, stopVars, clientVars, peerVars>>

\* Thread t calls stop(): notify_stop changes nothing here; close() has work to
\* do when sock_ is set.  One call of stop() at a time.
Stop(t) ==
    /\ stpc = "idle"
    /\ stopper' = t
    /\ stpc' = IF sock THEN "shutdown" ELSE "join"
    /\ UNCHANGED <<serverVars, loopVars, clientVars, peerVars>>

\* The program calls stop(), or destroys the server.
StopByProgram == Stop("main")

\* A listener calls stop() in on_did_read, on the i/o thread of client p.
StopByListener(p) ==
    /\ p \in Stoppers /\ thr[p] = "callback"
    /\ Stop(p)

\* Fault: close() without the shutdown(), which alone wakes a blocked accept().
StopShutdownMissing ==
    /\ stpc = "shutdown"
    /\ stpc' = "closesocket"
    /\ UNCHANGED <<serverVars, loopVars, stopper, clientVars, peerVars>>

\* socket::close: shutdown() ends the listening; the kernel resets the
\* connections it holds, and an accept() that waits returns with an error.
StopShutdown ==
    /\ stpc = "shutdown"
    /\ stpc' = "closesocket"
    /\ lsock' = "shut"
    /\ backlog' = <<>>
    /\ peer' = [p \in Peers |-> IF \E i \in 1 .. Len(backlog) : backlog[i] = p
                                 THEN "reset" ELSE peer[p]]
    /\ UNCHANGED <<sock, bg, fg, starts, loopVars, stopper, clientVars, asked, got>>

\* socket::close: closesocket().
StopCloseSocket ==
    /\ stpc = "closesocket"
    /\ stpc' = "invalidate"
    /\ lsock' = IF lsock = "shut" THEN "closed" ELSE lsock
    /\ UNCHANGED <<sock, backlog, bg, fg, starts, loopVars, stopper, clientVars, peerVars>>

\* socket::close: sock_ = INVALID.
StopInvalidate ==
    /\ stpc = "invalidate"
    /\ stpc' = "join"
    /\ sock' = FALSE
    /\ UNCHANGED <<lsock, backlog, bg, fg, starts, loopVars, stopper, clientVars, peerVars>>

\* Fault: stop() forgets the thread instead of joining it.
StopJoinForgets ==
    /\ stpc = "join"
    /\ stpc' = "idle" /\ stopper' = "none"
    /\ bg' = FALSE
    /\ UNCHANGED <<sock, lsock, backlog, fg, starts, loopVars, clientVars, peerVars>>

\* stop(): join the background thread, if there is one, and return.
StopJoin ==
    /\ stpc = "join"
    /\ bg => spc = "done"
    /\ stpc' = "idle" /\ stopper' = "none"
    /\ bg' = FALSE
    /\ spc' = IF bg THEN "none" ELSE spc
    /\ UNCHANGED <<sock, lsock, backlog, fg, starts, cur, clientVars, peerVars>>

StopStep ==
    \/ StopShutdown \/ StopCloseSocket \/ StopInvalidate \/ StopJoin

-----------------------------------------------------------------------------
(***************************************************************************)
(* async::server::run and socket_server::on_accept.                        *)
(***************************************************************************)

\* while (is_valid()); a loop entered by start() ends by returning from it.
LoopCheck ==
    /\ spc = "check"
    /\ spc' = IF sock THEN "accept" ELSE IF fg THEN "none" ELSE "done"
    /\ fg' = (fg /\ sock)
    /\ UNCHANGED <<sock, lsock, backlog, bg, starts, cur, stopVars, clientVars, peerVars>>

\* accept() returns a connection; it waits as long as there is none.
LoopAccept ==
    /\ spc = "accept" /\ lsock = "listening" /\ backlog # <<>>
    /\ cur' = Head(backlog)
    /\ backlog' = Tail(backlog)
    /\ spc' = "create"
    /\ UNCHANGED <<sock, lsock, bg, fg, starts, stopVars, clientVars, peerVars>>

\* Fault: the result of accept() is not compared with INVALID.
LoopAcceptUnchecked ==
    /\ spc = "accept" /\ lsock \in {"shut", "closed"}
    /\ spc' = "create" /\ cur' = "none"
    /\ UNCHANGED <<serverVars, stopVars, clientVars, peerVars>>

\* accept() on a descriptor that was shut down or closed fails: continue.
LoopAcceptFails ==
    /\ spc = "accept" /\ lsock \in {"shut", "closed"}
    /\ spc' = "check"
    /\ UNCHANGED <<serverVars, cur, stopVars, clientVars, peerVars>>

\* on_accept: factory_->create_socket.
LoopCreate ==
    /\ spc = "create"
    /\ obj' = [obj EXCEPT ![cur] = "live"]
    /\ valid' = [valid EXCEPT ![cur] = TRUE]
    /\ spc' = "spawn"
    /\ UNCHANGED <<serverVars, cur, stopVars, thr, out, sent, inq, peerVars>>

\* on_accept: notify_connect calls default_client::on_connect, which starts the
\* i/o thread; a plain buffered_socket has none.
LoopSpawn ==
    /\ spc = "spawn"
    /\ thr' = IF DefaultClient THEN [thr EXCEPT ![cur] = "check"] ELSE thr
    /\ spc' = "listeners"
    /\ UNCHANGED <<serverVars, cur, stopVars, obj, valid, out, sent, inq, peerVars>>

\* on_accept: notify_connect calls on_connect of the listeners.
LoopListeners ==
    /\ spc = "listeners"
    /\ out' = IF Greets THEN [out EXCEPT ![cur] = @ \cup {"greeting"}] ELSE out
    /\ spc' = "drop"
    /\ UNCHANGED <<serverVars, cur, stopVars, obj, valid, thr, sent, inq, peerVars>>

\* Fault: ~default_client does not join.
LoopDropAtOnce ==
    /\ spc = "drop" /\ cur \notin Retain
    /\ obj' = [obj EXCEPT ![cur] = "dead"]
    /\ valid' = [valid EXCEPT ![cur] = FALSE]
    /\ spc' = "check"
    /\ UNCHANGED <<serverVars, cur, stopVars, thr, out, sent, inq, peerVars>>

\* run() drops the shared_ptr that on_accept returned.  If it was the last one
\* ~default_client joins the i/o thread, and then ~socket closes.
LoopDrop ==
    /\ spc = "drop" /\ cur \notin Retain
    /\ thr[cur] \in {"none", "done"}
    /\ obj' = [obj EXCEPT ![cur] = "dead"]
    /\ valid' = [valid EXCEPT ![cur] = FALSE]
    /\ spc' = "check"
    /\ UNCHANGED <<serverVars, cur, stopVars, thr, out, sent, inq, peerVars>>

\* Fault: run() waits for the i/o thread of a client it does not own alone.
LoopReleaseJoins ==
    /\ spc = "drop" /\ cur \in Retain
    /\ thr[cur] \in {"none", "done"}
    /\ spc' = "check"
    /\ UNCHANGED <<serverVars, cur, stopVars, clientVars, peerVars>>

\* The factory has kept a shared_ptr: nothing is destroyed.
LoopRelease ==
    /\ spc = "drop" /\ cur \in Retain
    /\ spc' = "check"
    /\ UNCHANGED <<serverVars, cur, stopVars, clientVars, peerVars>>

Loop ==
    \/ LoopCheck \/ LoopAccept \/ LoopAcceptFails \/ LoopCreate
    \/ LoopSpawn \/ LoopListeners \/ LoopDrop \/ LoopRelease

-----------------------------------------------------------------------------
(***************************************************************************)
(* default_client::run on the i/o thread of client p.                      *)
(***************************************************************************)

\* The thread moves on and nothing else of the client changes.
Goto(p, to) ==
    /\ thr' = [thr EXCEPT ![p] = to]
    /\ UNCHANGED <<serverVars, loopVars, stopVars, obj, peer, asked>>

\* while (is_valid())
ClientCheck(p) ==
    /\ thr[p] = "check"
    /\ Goto(p, IF valid[p] THEN "write" ELSE "done")
    /\ UNCHANGED <<valid, out, sent, inq, got>>

\* write_from_buffer with an empty buffer returns true.
ClientWriteNothing(p) ==
    /\ thr[p] = "write" /\ out[p] = {}
    /\ Goto(p, "read")
    /\ UNCHANGED <<valid, out, sent, inq, got>>

\* send() takes the buffer; a peer that is there gets it.
Sent(p) == got' = IF peer[p] = "open" THEN [got EXCEPT ![p] = @ \cup out[p]] ELSE got

\* write_from_buffer: send().
ClientSend(p) ==
    /\ thr[p] = "write" /\ out[p] # {}
    /\ Sent(p)
    /\ sent' = [sent EXCEPT ![p] = out[p]]
    /\ Goto(p, "clear")
    /\ UNCHANGED <<valid, out, inq>>

\* send() fails, so write_from_buffer returns false: close() and leave.
ClientSendFails(p) ==
    /\ thr[p] = "write" /\ out[p] # {} /\ peer[p] \in {"closed", "reset"}
    /\ valid' = [valid EXCEPT ![p] = FALSE]
    /\ Goto(p, "done")
    /\ UNCHANGED <<out, sent, inq, got>>

\* write_from_buffer clears the buffer, whatever was added since its size was taken,
\* and calls on_did_write; run() leaves when that has closed the socket.  The compiler
\* may take the size before or after the call of send().
ClientClear(p) ==
    /\ thr[p] = "clear"
    /\ out' = [out EXCEPT ![p] = {}]
    /\ sent' = [sent EXCEPT ![p] = {}]
    /\ valid' = [valid EXCEPT ![p] = ~CloseAfterWrite]
    /\ Goto(p, IF CloseAfterWrite THEN "done" ELSE "read")
    /\ UNCHANGED <<inq, got>>

\* The size was taken after something was added: write_from_buffer returns false, and
\* run() leaves with close(), whose flush sends all of the buffer, or fails to.
ClientSeemsShort(p) ==
    /\ thr[p] = "clear" /\ out[p] # sent[p]
    /\ \/ Sent(p) /\ out' = [out EXCEPT ![p] = {}]
       \/ peer[p] \in {"closed", "reset"} /\ UNCHANGED <<got, out>>
    /\ sent' = [sent EXCEPT ![p] = {}]
    /\ valid' = [valid EXCEPT ![p] = FALSE]
    /\ Goto(p, "done")
    /\ UNCHANGED inq

\* read_to_buffer gets the request; on_did_read writes the response.  A
\* blocking recv() waits as long as there is nothing.
ClientRead(p) ==
    /\ thr[p] = "read" /\ inq[p]
    /\ inq' = [inq EXCEPT ![p] = FALSE]
    /\ out' = [out EXCEPT ![p] = @ \cup {"response"}]
    /\ Goto(p, "callback")
    /\ UNCHANGED <<valid, sent, got>>

\* Fault: run() reads again before it writes.
ClientReturnToRead(p) ==
    /\ thr[p] = "callback" /\ stopper # p
    /\ Goto(p, "read")
    /\ UNCHANGED <<valid, out, sent, inq, got>>

\* on_did_read returns, unless it is inside stop().
ClientReturn(p) ==
    /\ thr[p] = "callback" /\ stopper # p
    /\ Goto(p, "check")
    /\ UNCHANGED <<valid, out, sent, inq, got>>

\* The peer has closed: recv() returns 0, read_to_buffer returns true.
ClientReadEof(p) ==
    /\ thr[p] = "read" /\ ~inq[p] /\ peer[p] = "closed"
    /\ Goto(p, "check")
    /\ UNCHANGED <<valid, out, sent, inq, got>>

\* recv() fails, so read_to_buffer returns false: close() and leave.
ClientReadFails(p) ==
    /\ thr[p] = "read" /\ peer[p] = "reset"
    /\ valid' = [valid EXCEPT ![p] = FALSE]
    /\ Goto(p, "done")
    /\ UNCHANGED <<out, sent, inq, got>>

Client(p) ==
    \/ ClientCheck(p) \/ ClientWriteNothing(p) \/ ClientSend(p) \/ ClientSendFails(p)
    \/ ClientClear(p) \/ ClientSeemsShort(p) \/ ClientRead(p) \/ ClientReturn(p)
    \/ ClientReadEof(p) \/ ClientReadFails(p)

-----------------------------------------------------------------------------
(***************************************************************************)
(* The remote ends.                                                        *)
(***************************************************************************)

PeerConnect(p) ==
    /\ peer[p] = "away" /\ lsock = "listening"
    /\ peer' = [peer EXCEPT ![p] = "open"]
    /\ backlog' = Append(backlog, p)
    /\ UNCHANGED <<sock, lsock, bg, fg, starts, loopVars, stopVars, clientVars, asked, got>>

PeerAsk(p) ==
    /\ peer[p] = "open" /\ ~asked[p]
    /\ asked' = [asked EXCEPT ![p] = TRUE]
    /\ inq' = [inq EXCEPT ![p] = TRUE]
    /\ UNCHANGED <<serverVars, loopVars, stopVars, obj, valid, thr, out, sent,
                   peer, got>>

PeerQuit(p) ==
    /\ peer[p] = "open" /\ p \in Unreliable
    /\ \E end \in {"closed", "reset"} : peer' = [peer EXCEPT ![p] = end]
    /\ UNCHANGED <<serverVars, loopVars, stopVars, clientVars, asked, got>>

Next ==
    \/ StartInBackground \/ Start \/ StartFails
    \/ StopByProgram \/ StopStep
    \/ Loop
    \/ \E p \in Peers :
          \/ StopByListener(p) \/ Client(p)
          \/ PeerConnect(p) \/ PeerAsk(p) \/ PeerQuit(p)

Spec == Init /\ [][Next]_vars

(***************************************************************************)
(* Threads are scheduled; a peer that is not Unreliable sends its request. *)
(* Whether the program starts or stops, and whether a peer comes or goes,  *)
(* is left open.                                                           *)
(***************************************************************************)
FairSpec ==
    /\ Spec
    /\ WF_vars(StopStep) /\ WF_vars(Loop)
    /\ \A p \in Peers : WF_vars(Client(p))
    /\ \A p \in Peers \ Unreliable : WF_vars(PeerAsk(p))

-----------------------------------------------------------------------------
(***************************************************************************)
(* Properties.                                                             *)
(***************************************************************************)

Serving == {"create", "spawn", "listeners", "drop"}

\* Every variable has the values the code gives it, and on_accept works on a
\* connection, never on the INVALID of a failed accept().
TypeOK ==
    /\ sock \in BOOLEAN /\ lsock \in {"closed", "bound", "listening", "shut"}
    /\ backlog \in Seq(Peers) /\ bg \in BOOLEAN /\ fg \in BOOLEAN
    /\ starts \in 0 .. MaxStarts
    /\ spc \in LoopAt /\ cur \in Peers \cup {"none"}
    /\ spc \in Serving => cur \in Peers
    /\ stpc \in StopAt /\ stopper \in Peers \cup {"main", "none"}
    /\ obj \in [Peers -> {"none", "live", "dead"}]
    /\ valid \in [Peers -> BOOLEAN]
    /\ thr \in [Peers -> ThreadAt]
    /\ out \in [Peers -> SUBSET Messages] /\ sent \in [Peers -> SUBSET Messages]
    /\ inq \in [Peers -> BOOLEAN]
    /\ peer \in [Peers -> {"away", "open", "closed", "reset"}]
    /\ asked \in [Peers -> BOOLEAN] /\ got \in [Peers -> SUBSET Messages]

Running(p) == thr[p] \notin {"none", "done"}

\* An i/o thread never outlives the object whose members it works on
\* (~default_client joins it).
ThreadWithinLifetime == \A p \in Peers : Running(p) => obj[p] = "live"

\* When stop() has returned nothing of the server runs any more: no loop, and
\* no i/o thread or client object but those the factory keeps.  Only the order of
\* the joins gives this: the loop is joined by stop(), the i/o threads by the
\* loop.  (A loop run by start() is not stop()'s to wait for.)
StopQuiesces ==
    stpc = "idle" /\ ~bg /\ ~fg
        => /\ spc = "none"
           /\ \A p \in Peers \ Retain : ~Running(p) /\ obj[p] # "live"

\* start never replaces a thread that was not joined: destroying a joinable
\* std::thread ends the program.
StartFindsNoThread == [][starts' # starts => ~bg /\ spc = "none"]_vars

\* The server as its callers see it.  A failed start leaves sock_ set without a
\* loop: the server is still stopped.
Phase == IF spc = "none" THEN "stopped" ELSE IF sock THEN "running" ELSE "stopping"
Active == {p \in Peers \ Retain : obj[p] = "live"}
Abstract == INSTANCE ServerLifecycle
                WITH Conns <- Peers \ Retain, phase <- Phase, active <- Active

\* The threads, the three steps of close() and the joins implement the life cycle:
\* a start begins with nothing left of the last one, and a server reaches "stopped"
\* with its loop gone and every connection ended.
ImplementsLifecycle == Abstract!Spec

\* socket_server.h says of stop "stops the server": it returns.
StopReturns == (stpc # "idle") ~> (stpc = "idle")

\* A call of stop() ends the loop, also the one that start() runs and stop() does
\* not wait for.
LoopEnds == (stpc # "idle") ~> (spc = "none")

\* A connection that was accepted is served to the end, also when stop() is
\* called meanwhile: its peer gets the response to its request.
AcceptedIsAnswered ==
    \A p \in Peers \ Unreliable : (obj[p] = "live") ~> ("response" \in got[p])

\* A connection is accepted while the server runs, whatever the clients before
\* it do, when those that may be silent or gone are kept by the factory.
EveryPeerAccepted ==
    \A p \in Peers : (peer[p] = "open") ~> (obj[p] # "none" \/ ~sock)

=============================================================================
