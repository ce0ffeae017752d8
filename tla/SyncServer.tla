---------------------------- MODULE SyncServer -----------------------------
(***************************************************************************)
(* coda::net::sync::server, the polling server (sync/server.cpp) with its  *)
(* two back ends (sync/epoll_impl.cpp, sync/select_impl.cpp): descriptors, *)
(* the map sockets_ and the sets the back end watches, while the program   *)
(* stops and starts the server and peers come and go.                      *)
(*                                                                         *)
(* Threads: the loop, and the program, which calls start and stop.  The    *)
(* listeners do what they like: write, or close the socket in on_connect,  *)
(* on_did_write or, found with find_socket, in on_poll.  They keep no      *)
(* shared_ptr to a socket when they have returned.                         *)
(* Accepted sockets are non-blocking, as socket_factory.cpp makes them.    *)
(***************************************************************************)
EXTENDS Integers, Sequences, FiniteSetsExt

CONSTANTS
    Conns,      \* remote ends; each connects at most once
    MaxFd,      \* bound: the largest descriptor number
    MaxStarts,  \* bound: calls of start
    Backends,   \* subset of {"epoll", "select"}
    Frequencies, \* arguments of set_frequency: polls per second
    Usec,       \* microseconds in a second
    SigpipeIgnored, \* the program ignores SIGPIPE
    ListenersClose  \* listeners close connections that sockets_ holds

Fds == 1 .. MaxFd
INVALID == 0

ASSUME SyncAssumption ==
    /\ MaxFd \in Nat /\ MaxStarts \in Nat /\ Frequencies \subseteq Nat /\ Usec \in Nat \ {0}
    /\ Backends \subseteq {"epoll", "select"}
    /\ SigpipeIgnored \in BOOLEAN /\ ListenersClose \in BOOLEAN
    /\ Conns \cap {"free", "server", "epoll", "none"} = {}

VARIABLES
    backend,   \* which server_impl the build has
    kernel,    \* descriptor table: what each descriptor is
    sock,      \* sock_ of the server
    lstate,    \* state of the listening descriptor
    backlog,   \* connections the kernel holds for accept()
    edge,      \* epoll has something to report that it has not reported
    inset, outset, maxdesc,  \* in_set_, out_set_, maxdesc_ of the select back end
    frequency, \* frequency_
    bg, fg,    \* backgroundThread_ is set; a thread is inside start()
    starts,    \* calls of start so far
    stpc,      \* where stop() is
    spc,       \* where the loop is; "dead": the program has ended
    cur,       \* descriptor that was just accepted
    todo,      \* descriptors iterate_connections has still to visit
    sockets,   \* sockets_: the connection stored for a descriptor, or "none"
    output,    \* connections with has_output()
    peer,      \* state of the remote ends
    request,   \* of each peer: "none", "queued" in the kernel, or "read"
    ownClose   \* history: the program itself has closed a watched descriptor

kernelVars == <<kernel, lstate, backlog, edge>>
setVars == <<inset, outset, maxdesc>>
lifeVars == <<frequency, sock, bg, fg, starts>>
loopVars == <<spc, cur, todo>>
connVars == <<sockets, output>>
peerVars == <<peer, request>>
vars == <<backend, kernelVars, setVars, lifeVars, stpc, loopVars, connVars, peerVars, ownClose>>

Init ==
    /\ backend \in Backends
    /\ kernel = [fd \in Fds |-> "free"]
    /\ sock = INVALID /\ lstate = "closed" /\ backlog = <<>> /\ edge = FALSE
    /\ inset = {} /\ outset = {} /\ maxdesc = 0
    /\ frequency = 4 /\ bg = FALSE /\ fg = FALSE /\ starts = 0
    /\ stpc = "idle" /\ spc = "none" /\ cur = INVALID /\ todo = {}
    /\ sockets = [fd \in Fds |-> "none"] /\ output = {}
    /\ peer = [c \in Conns |-> "away"]
    /\ request = [c \in Conns |-> "none"]
    /\ ownClose = FALSE

-----------------------------------------------------------------------------
(***************************************************************************)
(* server::wait_time: how long a poll may wait, from the time of the last  *)
(* poll and now.                                                           *)
(***************************************************************************)

NoTime == [sec |-> 0, usec |-> 0]
Null == [sec |-> -1, usec |-> 0]

\* Fault: the difference of the clock values the wrong way round.
WaitTimeSwapped(last, now, f) ==
    LET delta == (now.usec - last.usec + Usec) \div f
        sec == now.sec - last.sec + delta \div Usec
        usec == delta % Usec
    IN  IF sec > 0 \/ (sec = 0 /\ usec > 0) THEN [sec |-> sec, usec |-> usec] ELSE NoTime

\* The two while loops bring the quotient into 0 .. Usec - 1.
WaitTime(last, now, f) ==
    LET delta == (last.usec - now.usec + Usec) \div f
        sec == last.sec - now.sec + delta \div Usec
        usec == delta % Usec
    IN  IF f = 0 THEN Null
        ELSE IF sec > 0 \/ (sec = 0 /\ usec > 0) THEN [sec |-> sec, usec |-> usec]
        ELSE NoTime

\* Fault: poll passes no time, as it does for a frequency of 0.
NeverTimesOut == FALSE

\* The wait of the back end ends by itself: wait_time is not NULL.
TimesOut == WaitTime(NoTime, NoTime, frequency) # Null

-----------------------------------------------------------------------------
(***************************************************************************)
(* start, start_in_background, stop.                                       *)
(***************************************************************************)

Free == {fd \in Fds : kernel[fd] = "free"}

\* The kernel hands out the lowest free descriptor.
Opens(table, what) ==
    LET fd == Min({d \in Fds : table[d] = "free"}) IN [table EXCEPT ![fd] = what]

\* Neither std::terminate nor a signal nor undefined behaviour has ended the program.
Alive == spc # "dead"

MayStart == Alive /\ stpc = "idle" /\ ~fg /\ starts < MaxStarts /\ sock = INVALID

\* set_frequency, before a start.
SetFrequency(f) ==
    /\ MayStart
    /\ frequency' = f
    /\ UNCHANGED <<backend, kernelVars, setVars, sock, bg, fg, starts, stpc, loopVars, connVars,
                   peerVars, ownClose>>

\* impl::listen: epoll makes a new descriptor and registers the listening one,
\* edge-triggered; select puts it into in_set_, on top of what an earlier start has
\* left there.
EpollListen ==
    /\ kernel' = Opens(Opens(kernel, "server"), "epoll")
    /\ UNCHANGED setVars
SelectListen(fd) ==
    /\ kernel' = Opens(kernel, "server")
    /\ maxdesc' = fd /\ inset' = inset \cup {fd} /\ UNCHANGED outset

\* server::listen: socket::listen, on_start, and impl::listen.
Listening ==
    LET fd == Min(Free) IN
    /\ MayStart
    /\ Cardinality(Free) >= IF backend = "epoll" THEN 2 ELSE 1
    /\ sock' = fd /\ lstate' = "listening" /\ edge' = FALSE
    /\ IF backend = "epoll" THEN EpollListen ELSE SelectListen(fd)
    /\ spc' = "check"
    /\ starts' = starts + 1
    /\ UNCHANGED <<backend, backlog, frequency, stpc, cur, todo, connVars, peerVars, ownClose>>

StartInBackground == Listening /\ bg' = TRUE /\ UNCHANGED fg

Start == Listening /\ fg' = TRUE /\ UNCHANGED bg

\* ::listen fails after bind: start throws, sock_ stays set.
StartFails ==
    /\ MayStart /\ Free # {}
    /\ sock' = Min(Free) /\ kernel' = Opens(kernel, "server") /\ lstate' = "bound"
    /\ starts' = starts + 1
    /\ UNCHANGED <<backend, backlog, edge, setVars, frequency, bg, fg, stpc, loopVars, connVars,
                   peerVars, ownClose>>

\* impl::listen fails: server::listen closes again, and start throws.  When it was
\* epoll_ctl that failed, the new epoll descriptor stays open.
StartPollFails ==
    /\ MayStart /\ backend = "epoll" /\ Free # {}
    /\ starts' = starts + 1
    /\ \/ UNCHANGED kernel
       \/ /\ Cardinality(Free) >= 2
          /\ kernel' = [Opens(Opens(kernel, "server"), "epoll") EXCEPT ![Min(Free)] = "free"]
    /\ UNCHANGED <<backend, lstate, backlog, edge, setVars, frequency, sock, bg, fg, stpc, loopVars, connVars,
                   peerVars, ownClose>>

\* The program calls stop().  One call of stop() at a time.
Stop ==
    /\ Alive /\ stpc = "idle"
    /\ stpc' = IF sock # INVALID THEN "shutdown" ELSE "join"
    /\ UNCHANGED <<backend, kernelVars, setVars, lifeVars, loopVars, connVars, peerVars, ownClose>>

\* socket::close: shutdown() resets what is in the backlog and reports readable.
StopShutdown ==
    /\ Alive /\ stpc = "shutdown"
    /\ stpc' = "closesocket"
    /\ lstate' = "shut" /\ edge' = TRUE
    /\ backlog' = <<>>
    /\ peer' = [c \in Conns |-> IF \E i \in DOMAIN backlog : backlog[i] = c
                                 THEN "reset" ELSE peer[c]]
    /\ UNCHANGED <<backend, kernel, setVars, lifeVars, loopVars, connVars, request, ownClose>>

\* socket::close: closesocket(), which also takes the descriptor out of epoll.
StopCloseSocket ==
    /\ Alive /\ stpc = "closesocket"
    /\ stpc' = "invalidate"
    /\ kernel' = [kernel EXCEPT ![sock] = "free"]
    /\ lstate' = "closed" /\ edge' = FALSE
    /\ ownClose' = TRUE
    /\ UNCHANGED <<backend, backlog, setVars, lifeVars, loopVars, connVars, peerVars>>

\* socket::close: sock_ = INVALID.
StopInvalidate ==
    /\ Alive /\ stpc = "invalidate"
    /\ stpc' = "join"
    /\ sock' = INVALID
    /\ UNCHANGED <<backend, kernelVars, setVars, frequency, bg, fg, starts, loopVars, connVars,
                   peerVars, ownClose>>

\* Fault: stop() clears the map without waiting for the loop.
StopJoinForgets ==
    /\ Alive /\ stpc = "join"
    /\ stpc' = "clear"
    /\ bg' = FALSE
    /\ UNCHANGED <<backend, kernelVars, setVars, frequency, sock, fg, starts, loopVars, connVars,
                   peerVars, ownClose>>

\* socket_server::stop: join the background thread, if there is one.
StopJoin ==
    /\ Alive /\ stpc = "join"
    /\ bg => spc = "done"
    /\ stpc' = "clear"
    /\ bg' = FALSE
    /\ spc' = IF bg THEN "none" ELSE spc
    /\ UNCHANGED <<backend, kernelVars, setVars, frequency, sock, fg, starts, cur, todo, connVars,
                   peerVars, ownClose>>

\* server::clear_sockets: ~socket closes each descriptor; on_close is not called.
\* A loop that runs in start() holds sockets_mutex_ while it iterates.
StopClear ==
    /\ Alive /\ stpc = "clear" /\ spc # "iterate"
    /\ stpc' = "idle"
    /\ kernel' = [fd \in Fds |-> IF sockets[fd] = "none" THEN kernel[fd] ELSE "free"]
    /\ sockets' = [fd \in Fds |-> "none"]
    /\ output' = {}
    /\ UNCHANGED <<backend, lstate, backlog, edge, setVars, lifeVars, loopVars, peerVars, ownClose>>

StopStep == StopShutdown \/ StopCloseSocket \/ StopInvalidate \/ StopJoin \/ StopClear

-----------------------------------------------------------------------------
(***************************************************************************)
(* server::run and server::poll.                                           *)
(***************************************************************************)

\* The loop moves on and nothing else changes but what the action says.
Goto(to) ==
    /\ spc' = to
    /\ UNCHANGED <<backend, lifeVars, stpc>>

\* while (is_valid()), checked again by poll and by the back end.
LoopCheck ==
    /\ spc = "check"
    /\ spc' = IF sock # INVALID THEN "poll" ELSE IF fg THEN "none" ELSE "done"
    /\ fg' = (fg /\ sock # INVALID)
    /\ UNCHANGED <<backend, kernelVars, setVars, frequency, sock, bg, starts, stpc, cur, todo, connVars,
                   peerVars, ownClose>>

\* impl::poll, epoll: the one registered descriptor has news: EPOLLIN.
EpollEvent ==
    /\ spc = "poll" /\ backend = "epoll" /\ edge
    /\ edge' = FALSE
    /\ Goto("accept")
    /\ UNCHANGED <<kernel, lstate, backlog, setVars, cur, todo, connVars, peerVars, ownClose>>

\* impl::poll, epoll: nothing until the time is up.
EpollTimeout ==
    /\ spc = "poll" /\ backend = "epoll" /\ ~edge /\ TimesOut
    /\ Goto("notify")
    /\ UNCHANGED <<kernelVars, setVars, cur, todo, connVars, peerVars, ownClose>>

Gone(c) == peer[c] \in {"closed", "reset"}

\* What select() reports as readable and as writable.
Readable(fd) ==
    \/ kernel[fd] = "server" /\ (backlog # <<>> \/ lstate = "shut")
    \/ kernel[fd] \in Conns /\ (request[kernel[fd]] = "queued" \/ Gone(kernel[fd]))
Writable(fd) == kernel[fd] \in Conns

Watched == {fd \in inset \cup outset : fd <= maxdesc}
BadFd == \E fd \in Watched : kernel[fd] = "free"
ReadyIn == {fd \in inset : fd <= maxdesc /\ Readable(fd)}
ReadyOut == {fd \in outset : fd <= maxdesc /\ Writable(fd)}

\* impl::poll, select: a watched descriptor is not open.  The exception leaves
\* run(): it ends the program on the background thread, and start() otherwise.
SelectThrows ==
    /\ spc = "poll" /\ backend = "select" /\ BadFd
    /\ spc' = IF fg THEN "none" ELSE "dead"
    /\ fg' = FALSE
    /\ UNCHANGED <<backend, kernelVars, setVars, frequency, sock, bg, starts, stpc, cur, todo, connVars,
                   peerVars, ownClose>>

\* impl::poll, select: in_set_ and out_set_ become what is ready.  With nothing
\* ready the call waits, and ends when the time is up.
Select ==
    /\ spc = "poll" /\ backend = "select" /\ ~BadFd
    /\ ReadyIn \cup ReadyOut # {} \/ TimesOut
    /\ inset' = ReadyIn /\ outset' = ReadyOut
    /\ IF sock \in ReadyIn
         THEN Goto("accept") /\ UNCHANGED todo
         ELSE Goto("iterate") /\ todo' = {fd \in Fds : sockets[fd] # "none"}
    /\ UNCHANGED <<kernelVars, maxdesc, cur, connVars, peerVars, ownClose>>

\* Where a back end goes on after accept(); iterate_connections does nothing when
\* the server has become invalid.
AfterAccept(map) ==
    IF backend = "epoll" THEN Goto("notify") /\ UNCHANGED todo
    ELSE /\ Goto("iterate")
         /\ todo' = IF sock = INVALID THEN {} ELSE {fd \in Fds : map[fd] # "none"}

\* accept() on the non-blocking descriptor returns INVALID: nobody waits, the
\* descriptor was closed, or there is no descriptor left.
AcceptFails ==
    /\ spc = "accept"
    /\ backlog = <<>> \/ lstate # "listening" \/ Free = {}
    /\ AfterAccept(sockets)
    /\ UNCHANGED <<kernelVars, setVars, cur, connVars, peerVars, ownClose>>

\* Where a thread is after a ::send to a peer.  The code does not pass MSG_NOSIGNAL:
\* a peer that has gone ends a program that does not ignore SIGPIPE.
AfterSend(to, c) == {to} \cup (IF SigpipeIgnored \/ ~Gone(c) THEN {} ELSE {"dead"})

\* accept(), and on_accept as far as on_connect of the listeners, which may write
\* a greeting, or close the socket at once, which sends what was written.  on_accept
\* still holds the socket, and cleanup_listener is not among its listeners yet.
Accept ==
    /\ spc = "accept" /\ lstate = "listening" /\ backlog # <<>> /\ Free # {}
    /\ cur' = Min(Free)
    /\ backlog' = Tail(backlog)
    /\ \/ /\ kernel' = Opens(kernel, Head(backlog))
          /\ output' \in {output, output \cup {Head(backlog)}}
          /\ UNCHANGED ownClose
          /\ Goto("add")
       \/ /\ UNCHANGED <<kernel, output>> /\ ownClose' = TRUE
          /\ \E to \in AfterSend("add", Head(backlog)) : Goto(to)
    /\ UNCHANGED <<lstate, edge, setVars, todo, sockets, peerVars>>

\* Fault: add_socket does not ask whether the socket is valid.
AddSocketUnchecked ==
    /\ spc = "add"
    /\ sockets' = [sockets EXCEPT ![cur] = kernel[cur]]
    /\ AfterAccept(sockets')
    /\ UNCHANGED <<kernelVars, setVars, cur, output, peerVars, ownClose>>

\* on_accept: add_socket, unless the socket is not valid.  The select back end then
\* watches the descriptor in any case.
AddSocket ==
    /\ spc = "add"
    /\ sockets' = [sockets EXCEPT ![cur] = IF kernel[cur] \in Conns THEN kernel[cur] ELSE @]
    /\ IF backend = "select"
         THEN /\ inset' = inset \cup {cur} /\ outset' = outset \cup {cur}
              /\ maxdesc' = Max({maxdesc, cur})
         ELSE UNCHANGED setVars
    /\ AfterAccept(sockets')
    /\ cur' = INVALID
    /\ UNCHANGED <<kernelVars, output, peerVars, ownClose>>

-----------------------------------------------------------------------------
(***************************************************************************)
(* impl::iterate_connections of the select back end, under sockets_mutex_. *)
(***************************************************************************)

Visited == Min(todo)
Visiting == spc = "iterate" /\ todo # {}
Reads(fd) == fd \in inset /\ request[sockets[fd]] = "queued" /\ peer[sockets[fd]] # "reset"
Writes(fd) == fd \in outset /\ (sockets[fd] \in output \/ Reads(fd))

\* read_to_buffer of the visited connection gets a request, if there is one.
ReadVisited ==
    request' = IF Reads(Visited) THEN [request EXCEPT ![sockets[Visited]] = "read"] ELSE request

\* The delegate returns false: read_to_buffer had nothing, or gave a request to
\* on_did_read, which may write; what there is to write is written.
Serve ==
    /\ Visiting
    /\ peer[sockets[Visited]] = "reset" => Visited \notin inset /\ ~Writes(Visited)
    /\ ReadVisited
    /\ \E wrote \in {output} \cup (IF Reads(Visited) THEN {output \cup {sockets[Visited]}} ELSE {}) :
          output' = IF Visited \in outset THEN wrote \ {sockets[Visited]} ELSE wrote
    /\ todo' = todo \ {Visited}
    /\ Goto("iterate")
    /\ UNCHANGED <<kernelVars, setVars, cur, sockets, peer, ownClose>>

\* Fault: a failed connection is erased but stays in the sets.
ServeFailsWatched ==
    /\ Visiting /\ Gone(sockets[Visited])
    /\ Visited \in inset \cup outset
    /\ kernel' = [kernel EXCEPT ![Visited] = "free"]
    /\ sockets' = [sockets EXCEPT ![Visited] = "none"]
    /\ output' = output \ {sockets[Visited]}
    /\ todo' = todo \ {Visited}
    /\ Goto("iterate")
    /\ UNCHANGED <<lstate, backlog, edge, setVars, cur, peerVars, ownClose>>

\* The delegate returns true: recv() or send() failed.  The descriptor leaves the
\* sets and the map, and ~socket closes it; or the signal of send() ends the program.
ServeFails ==
    /\ Visiting /\ Gone(sockets[Visited])
    /\ \/ /\ Visited \in inset /\ peer[sockets[Visited]] = "reset" /\ UNCHANGED request
          /\ Goto("iterate")
       \/ /\ Writes(Visited) /\ ReadVisited
          /\ \E to \in AfterSend("iterate", sockets[Visited]) : Goto(to)
    /\ inset' = inset \ {Visited} /\ outset' = outset \ {Visited}
    /\ kernel' = [kernel EXCEPT ![Visited] = "free"]
    /\ sockets' = [sockets EXCEPT ![Visited] = "none"]
    /\ output' = output \ {sockets[Visited]}
    /\ todo' = todo \ {Visited}
    /\ UNCHANGED <<lstate, backlog, edge, maxdesc, cur, peer, ownClose>>

\* Fault: cleanup_listener leaves the map alone.
ClosedByListenerKept(fd) ==
    /\ kernel' = [kernel EXCEPT ![fd] = "free"]
    /\ output' = output \ {sockets[fd]}
    /\ ownClose' = TRUE
    /\ UNCHANGED <<sockets, lstate, backlog, edge, setVars>>

\* A listener calls close(): cleanup_listener::on_close erases the map entry, then
\* the descriptor is closed.  The sets of the back end are not touched.
ClosedByListener(fd) ==
    /\ sockets' = [sockets EXCEPT ![fd] = "none"]
    /\ kernel' = [kernel EXCEPT ![fd] = "free"]
    /\ output' = output \ {sockets[fd]}
    /\ ownClose' = TRUE
    /\ UNCHANGED <<lstate, backlog, edge, setVars>>

\* on_did_write closes the visited connection, which erases the entry the iteration
\* stands on and destroys the socket inside its own write_from_buffer: undefined
\* behaviour.  The program ends, or the iteration finds its successor all the same.
ServeCloses ==
    /\ ListenersClose /\ Visiting /\ Writes(Visited) /\ peer[sockets[Visited]] # "reset"
    /\ ReadVisited
    /\ ClosedByListener(Visited)
    /\ todo' = todo \ {Visited}
    /\ \E to \in {"iterate", "dead"} : Goto(to)
    /\ UNCHANGED <<cur, peer>>

IterateDone ==
    /\ spc = "iterate" /\ todo = {}
    /\ Goto("notify")
    /\ UNCHANGED <<kernelVars, setVars, cur, todo, connVars, peerVars, ownClose>>

\* notify_poll: on_poll of the listeners returns,
Notify ==
    /\ spc = "notify"
    /\ Goto("check")
    /\ UNCHANGED <<kernelVars, setVars, cur, todo, connVars, peerVars, ownClose>>

\* or closes a connection first.  A listener that does not hold the shared_ptr of
\* find_socket meanwhile has the socket destroyed by cleanup_listener, inside its own
\* notify_close: undefined behaviour, which may end the program.
NotifyCloses ==
    /\ ListenersClose /\ spc = "notify"
    /\ \E fd \in {d \in Fds : sockets[d] # "none"} : ClosedByListener(fd)
    /\ \E to \in {"notify", "dead"} : Goto(to)
    /\ UNCHANGED <<cur, todo, peerVars>>

Loop ==
    \/ LoopCheck \/ EpollEvent \/ EpollTimeout \/ SelectThrows \/ Select
    \/ AcceptFails \/ Accept \/ AddSocket
    \/ Serve \/ ServeFails \/ ServeCloses \/ IterateDone
    \/ Notify \/ NotifyCloses

-----------------------------------------------------------------------------
(***************************************************************************)
(* The remote ends, and the specification.                                 *)
(***************************************************************************)

PeerConnect(c) ==
    /\ peer[c] = "away" /\ lstate = "listening"
    /\ peer' = [peer EXCEPT ![c] = "open"]
    /\ backlog' = Append(backlog, c) /\ edge' = TRUE
    /\ UNCHANGED <<backend, kernel, lstate, setVars, lifeVars, stpc, loopVars, connVars,
                   request, ownClose>>

PeerAsk(c) ==
    /\ peer[c] = "open" /\ request[c] = "none"
    /\ request' = [request EXCEPT ![c] = "queued"]
    /\ UNCHANGED <<backend, kernelVars, setVars, lifeVars, stpc, loopVars, connVars, peer, ownClose>>

PeerQuit(c) ==
    /\ peer[c] = "open"
    /\ \E end \in {"closed", "reset"} : peer' = [peer EXCEPT ![c] = end]
    /\ UNCHANGED <<backend, kernelVars, setVars, lifeVars, stpc, loopVars, connVars,
                   request, ownClose>>

Next ==
    \/ StartInBackground \/ Start \/ StartFails \/ StartPollFails
    \/ \E f \in Frequencies : SetFrequency(f)
    \/ Stop \/ StopStep
    \/ Loop
    \/ \E c \in Conns : PeerConnect(c) \/ PeerAsk(c) \/ PeerQuit(c)

Spec == Init /\ [][Next]_vars

\* Both threads are scheduled.
FairSpec == Spec /\ WF_vars(StopStep) /\ WF_vars(Loop)

-----------------------------------------------------------------------------
(***************************************************************************)
(* Properties.                                                             *)
(***************************************************************************)

\* Every variable has the values the code gives it.
TypeOK ==
    /\ backend \in Backends
    /\ kernel \in [Fds -> {"free", "server", "epoll"} \cup Conns]
    /\ sock \in Fds \cup {INVALID} /\ lstate \in {"closed", "bound", "listening", "shut"}
    /\ backlog \in Seq(Conns) /\ edge \in BOOLEAN
    /\ inset \subseteq Fds /\ outset \subseteq Fds /\ maxdesc \in Fds \cup {0}
    /\ frequency \in Nat /\ bg \in BOOLEAN /\ fg \in BOOLEAN /\ starts \in 0 .. MaxStarts
    /\ stpc \in {"idle", "shutdown", "closesocket", "invalidate", "join", "clear"}
    /\ spc \in {"none", "check", "poll", "accept", "add", "iterate", "notify", "done", "dead"}
    /\ cur \in Fds \cup {INVALID} /\ todo \subseteq Fds
    /\ sockets \in [Fds -> Conns \cup {"none"}] /\ output \subseteq Conns
    /\ peer \in [Conns -> {"away", "open", "closed", "reset"}]
    /\ request \in [Conns -> {"none", "queued", "read"}]
    /\ ownClose \in BOOLEAN

\* sockets_ mirrors the descriptor table: an entry names the connection its
\* descriptor belongs to, and every open connection has its entry, except the one
\* that on_accept is about to add.  A stale entry would send the traffic of a
\* descriptor that was handed out again to the wrong socket.
MapMirrorsKernel ==
    \A fd \in Fds :
        /\ sockets[fd] # "none" => kernel[fd] = sockets[fd]
        /\ kernel[fd] \in Conns => sockets[fd] = kernel[fd] \/ (spc = "add" /\ cur = fd)

\* The program does not die, and start() does not throw out of its loop, as long as
\* neither stop() nor a listener has closed a descriptor: the select back end finds no
\* closed one among those it watches, whatever peers do.  A write to a peer that has
\* gone keeps this promise only in a program that ignores SIGPIPE.
SurvivesPeers == [][SelectThrows \/ spc' = "dead" => ownClose']_vars

\* When stop() returns and no thread is inside start(), the loop is gone and no
\* descriptor of a connection is open.
StopLeavesNothing ==
    [][stpc # "idle" /\ stpc' = "idle" /\ ~fg'
        => spc' = "none" /\ \A fd \in Fds : kernel'[fd] \notin Conns]_vars

\* socket_server.h: "stops the server".  A call of stop() returns: the loop does not
\* wait in the back end for ever, sees that the server is not valid any more and ends
\* without ending the program.  So it is with epoll and a frequency above 0.  With 0
\* the loop may miss the shutdown() and wait on, and select() fails on the descriptor
\* that stop() has closed, which ends the program if the loop has its own thread.
StopReturns == (stpc # "idle") ~> (stpc = "idle")

Clock == [sec : 0 .. 1, usec : 0 .. Usec - 1]
Passed(last, now) == (now.sec - last.sec) * Usec + now.usec - last.usec

\* A poll waits no longer than one interval of the poll frequency, or of any lower
\* frequency that was set, and less the more time has passed since the last poll, if
\* the clock has not gone back.
StallBounded ==
    spc = "poll" =>
        \A last, now \in Clock, f \in 1 .. frequency :
            LET stall == WaitTime(last, now, f)
            IN  Passed(last, now) >= 0
                    => \/ stall = NoTime
                       \/ /\ stall.sec >= 0
                          /\ f * (stall.sec * Usec + stall.usec) <= Usec - Passed(last, now)

\* README.md: "A **polling_server** is a server that executes i/o synchronously for
\* each socket in intervals."  The request of a connection the server has is read,
\* unless the peer goes or the connection or the server ends.
RequestIsRead ==
    \A c \in Conns :
        (request[c] = "queued" /\ \E fd \in Fds : sockets[fd] = c)
            ~> (request[c] = "read" \/ Gone(c) \/ (\A fd \in Fds : sockets[fd] # c) \/ sock = INVALID)

=============================================================================
