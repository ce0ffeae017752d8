--------------------------- MODULE BufferedSocket ---------------------------
(***************************************************************************)
(* coda::net::buffered_socket (buffered_socket.cpp) on one thread: the     *)
(* output and input buffers, the listener callbacks and what listeners may *)
(* do inside them.                                                         *)
(*                                                                         *)
(* Member functions call listeners in the middle of their work, and a      *)
(* listener may call back into the socket, so the C++ call stack is part   *)
(* of the state: a frame is a callback that is running, or the place at    *)
(* which a member function goes on when the frame above it returns.        *)
(*                                                                         *)
(* Bytes written by the program are numbered 1, 2, 3, ... in the order of  *)
(* the write() calls; outBuffer_ holds cleared+1 .. written.               *)
(***************************************************************************)
EXTENDS Integers, Sequences, FiniteSets

CONSTANTS
    ReentrantClose,   \* the callbacks in which listeners call close()
    ReentrantConnect, \* the callbacks in which listeners call connect()
    MaxRecv,          \* MAXRECV: the most one recv() returns
    MaxBytes,         \* bound: bytes the program writes
    MaxTraffic,       \* bound: bytes the program writes and the peers send
    MaxConn,          \* bound: connections of the object
    MaxShort,         \* bound: send() calls that do not take the whole buffer
    MaxDepth,         \* bound: stack depth at which a listener may still call
    MaxNested         \* bound: calls in callbacks that nothing else bounds

Callbacks == {"on_connect", "on_close", "on_will_write", "on_did_write",
              "on_will_read", "on_did_read"}

ASSUME BoundsAssumption ==
    /\ MaxRecv \in Nat \ {0}
    /\ MaxBytes \in Nat /\ MaxTraffic \in Nat /\ MaxConn \in Nat /\ MaxShort \in Nat
    /\ MaxDepth \in Nat /\ MaxNested \in Nat
ASSUME ProgramAssumption ==
    ReentrantClose \subseteq Callbacks /\ ReentrantConnect \subseteq Callbacks

VARIABLES
    valid,      \* is_valid(): sock_ is not INVALID
    destroyed,  \* the destructor has run
    conn,       \* number of the current or last connection, 0 before the first
    closes,     \* times on_close was announced for that connection
    reopened,   \* history: that connection was opened inside a call of close()
    nonBlocking,\* is_non_blocking()
    written,    \* bytes appended to outBuffer_ so far
    cleared,    \* bytes removed from outBuffer_ so far
    wire,       \* what send() handed to the kernel: <<connection, byte>>
    short,      \* send() calls that did not take the whole buffer
    pending,    \* bytes waiting in the kernel's receive queue
    eof,        \* the peer has closed its side
    arrived,    \* bytes the peers sent so far
    read,       \* bytes appended to inBuffer_ so far
    noticed,    \* value of read when on_did_read last ran
    failed,     \* a recv() failed after other chunks of the same read
    nested,     \* calls that count against MaxNested
    stack       \* the C++ call stack, innermost frame first

outVars == <<written, cleared, wire, short>>
inVars == <<pending, eof, arrived, read, noticed, failed>>
connVars == <<valid, destroyed, conn, closes, reopened, nonBlocking>>
vars == <<connVars, outVars, inVars, nested, stack>>

\* Where a member function goes on when the frame above it returns.
Resume == {"close.flush", "close.socket", "write.send", "read.first",
           "read.more", "connect.open"}

Frames == Callbacks \cup Resume

Top(f) == stack # <<>> /\ Head(stack) = f

\* Code of the program runs: outside the library, or in one of the callbacks.
ProgramIn(callbacks) ==
    /\ ~destroyed
    /\ stack # <<>> => Head(stack) \in callbacks /\ Len(stack) <= MaxDepth

\* A call that a listener could repeat for ever in one callback.
Counted ==
    /\ stack # <<>> => nested < MaxNested
    /\ nested' = IF stack = <<>> THEN nested ELSE nested + 1

Init ==
    /\ valid \in BOOLEAN
    /\ conn = IF valid THEN 1 ELSE 0
    /\ destroyed = FALSE /\ closes = 0 /\ reopened = FALSE /\ nonBlocking = FALSE
    /\ written = 0 /\ cleared = 0 /\ wire = <<>> /\ short = 0
    /\ pending = 0 /\ eof = FALSE /\ arrived = 0
    /\ read = 0 /\ noticed = 0 /\ failed = FALSE
    /\ nested = 0 /\ stack = <<>>

-----------------------------------------------------------------------------
(***************************************************************************)
(* Output.                                                                 *)
(***************************************************************************)

\* write, writeln, operator<<: nothing but the buffer changes.
Write ==
    /\ ProgramIn(Callbacks)
    /\ written < MaxBytes /\ written + arrived < MaxTraffic
    /\ written' = written + 1
    /\ UNCHANGED <<connVars, cleared, wire, short, inVars, nested, stack>>

\* The frames write_from_buffer starts with; none when it returns at once.
WriteFrames ==
    IF valid /\ cleared < written THEN <<"on_will_write", "write.send">> ELSE <<>>

\* write_from_buffer or flush called by the program, perhaps in a callback.
WriteFromBuffer ==
    /\ ProgramIn(Callbacks)
    /\ stack' = WriteFrames \o stack
    /\ UNCHANGED <<connVars, outVars, inVars, nested>>

\* Fault: send() is given the end of the buffer instead of its start.
SentTail(n) == wire \o [i \in 1 .. n |-> <<conn, written - n + i>>]

\* The bytes cleared+1 .. cleared+n leave on the current connection.
Sent(n) == wire \o [i \in 1 .. n |-> <<conn, cleared + i>>]

\* Fault: the buffer is cleared after the listeners ran, not before.
SendAllKeeps ==
    /\ Top("write.send") /\ valid
    /\ wire' = Sent(written - cleared)
    /\ stack' = <<"on_did_write">> \o Tail(stack)
    /\ UNCHANGED <<connVars, written, cleared, short, inVars, nested>>

\* send() takes the whole buffer, which a flush in on_will_write may have emptied
\* (send() then returns 0, the size): clear it and announce on_did_write.
SendAll ==
    /\ Top("write.send") /\ valid
    /\ wire' = Sent(written - cleared)
    /\ cleared' = written
    /\ stack' = <<"on_did_write">> \o Tail(stack)
    /\ UNCHANGED <<connVars, written, short, inVars, nested>>

\* Fault: the buffer is cleared whatever send() took.
SendShortClears ==
    /\ Top("write.send") /\ valid /\ short < MaxShort
    /\ \E n \in 0 .. written - cleared - 1 : wire' = Sent(n)
    /\ short' = short + 1
    /\ cleared' = written
    /\ stack' = Tail(stack)
    /\ UNCHANGED <<connVars, written, inVars, nested>>

\* send() takes n bytes, or fails (n = 0): return false, the buffer is as it was.
SendShort ==
    /\ Top("write.send") /\ valid /\ short < MaxShort
    /\ \E n \in 0 .. written - cleared - 1 : wire' = Sent(n)
    /\ short' = short + 1
    /\ stack' = Tail(stack)
    /\ UNCHANGED <<connVars, written, cleared, inVars, nested>>

\* on_will_write closed the socket: send() returns INVALID, return false.
SendInvalid ==
    /\ Top("write.send") /\ ~valid
    /\ stack' = Tail(stack)
    /\ UNCHANGED <<connVars, outVars, inVars, nested>>

-----------------------------------------------------------------------------
(***************************************************************************)
(* Closing.                                                                *)
(***************************************************************************)

\* Fault: close() announces nothing when there is nothing to flush.
CloseQuietFrames == IF cleared < written THEN <<"on_close", "close.flush">>
                    ELSE <<"close.flush">>

\* The frames close() of a valid socket starts with.
CloseFrames == <<"on_close", "close.flush">>

Announced(frames) == IF Head(frames) = "on_close" THEN closes + 1 ELSE closes

\* close() called by the program, perhaps in a callback.
Close ==
    /\ ProgramIn(ReentrantClose)
    /\ valid
    /\ closes' = Announced(CloseFrames)
    /\ stack' = CloseFrames \o stack
    /\ UNCHANGED <<valid, destroyed, conn, reopened, nonBlocking, outVars, inVars, nested>>

\* close(): flush(), which may call back.
CloseFlush ==
    /\ Top("close.flush")
    /\ stack' = WriteFrames \o <<"close.socket">> \o Tail(stack)
    /\ UNCHANGED <<connVars, outVars, inVars, nested>>


\* close(): socket::close().  A callback may have closed it already, or have
\* opened another connection, which this closes.
CloseSocket ==
    /\ Top("close.socket")
    /\ valid' = FALSE /\ nonBlocking' = FALSE
    /\ stack' = Tail(stack)
    /\ UNCHANGED <<destroyed, conn, closes, reopened, outVars, inVars, nested>>

\* ~buffered_socket, then ~socket, whose close() is socket::close: no
\* callback, no flush.  The object outlives its member functions.
Destroy ==
    /\ ~destroyed /\ stack = <<>>
    /\ destroyed' = TRUE
    /\ valid' = FALSE /\ nonBlocking' = FALSE
    /\ UNCHANGED <<conn, closes, reopened, outVars, inVars, nested, stack>>

\* set_non_blocking: fcntl() fails on INVALID and the flag stays as it is.
SetNonBlocking ==
    /\ ProgramIn(Callbacks)
    /\ valid
    /\ nonBlocking' = ~nonBlocking
    /\ UNCHANGED <<valid, destroyed, conn, closes, reopened, outVars, inVars, nested, stack>>

-----------------------------------------------------------------------------
(***************************************************************************)
(* Connecting.                                                             *)
(***************************************************************************)

\* connect() once the name is resolved, perhaps in a callback: a valid socket is
\* closed first, and close() is the virtual one, so listeners run and the buffer
\* is flushed.
Connect ==
    /\ ProgramIn(ReentrantConnect)
    /\ stack' = (IF valid THEN CloseFrames ELSE <<>>) \o <<"connect.open">> \o stack
    /\ closes' = IF valid THEN Announced(CloseFrames) ELSE closes
    /\ UNCHANGED <<valid, destroyed, conn, reopened, nonBlocking, outVars, inVars, nested>>

\* Some address accepts the connection; it is opened inside the close() calls
\* that wait further down.
Opened ==
    /\ conn < MaxConn
    /\ valid' = TRUE
    /\ conn' = conn + 1
    /\ closes' = 0
    /\ reopened' = \E i \in 2 .. Len(stack) : stack[i] \in {"close.flush", "close.socket"}
    /\ pending' = 0 /\ eof' = FALSE
    /\ UNCHANGED <<destroyed, nonBlocking, outVars, arrived, read, noticed, failed, nested>>

\* connect() succeeds: notify_connect().
ConnectOpen ==
    /\ Top("connect.open")
    /\ Opened
    /\ stack' = <<"on_connect">> \o Tail(stack)

\* attach() throws: the caller of connect() catches it and has a valid socket
\* of which no listener was told.
ConnectThrows ==
    /\ Top("connect.open")
    /\ Opened
    /\ stack' = Tail(stack)

\* No address does.
ConnectFail ==
    /\ Top("connect.open")
    /\ stack' = Tail(stack)
    /\ UNCHANGED <<connVars, outVars, inVars, nested>>

\* notify_connect() called by the server that accepted the connection.
NotifyConnect ==
    /\ ProgramIn(Callbacks)
    /\ Counted
    /\ stack' = <<"on_connect">> \o stack
    /\ UNCHANGED <<connVars, outVars, inVars>>

-----------------------------------------------------------------------------
(***************************************************************************)
(* Input.                                                                  *)
(***************************************************************************)

PeerSend ==
    /\ valid /\ ~eof /\ written + arrived < MaxTraffic
    /\ pending' = pending + 1
    /\ arrived' = arrived + 1
    /\ UNCHANGED <<connVars, outVars, eof, read, noticed, failed, nested, stack>>

PeerClose ==
    /\ valid /\ ~eof
    /\ eof' = TRUE
    /\ UNCHANGED <<connVars, outVars, pending, arrived, read, noticed, failed, nested, stack>>

\* read_to_buffer called by the program, perhaps in a callback.
ReadToBuffer ==
    /\ ProgramIn(Callbacks)
    /\ Counted
    /\ stack' = <<"on_will_read", "read.first">> \o stack
    /\ UNCHANGED <<connVars, outVars, inVars>>

\* Fault: MAXRECV bytes are taken from the array, whatever recv() put there.
ChunkWhole ==
    /\ valid /\ pending > 0
    /\ read' = read + MaxRecv
    /\ pending' = pending - MaxRecv

\* read_chunk returns what is there, at most MAXRECV bytes; they go to inBuffer_.
Chunk ==
    LET n == IF pending < MaxRecv THEN pending ELSE MaxRecv
    IN  /\ valid /\ pending > 0
        /\ read' = read + n
        /\ pending' = pending - n

\* read_chunk returns false: the socket was closed, the peer has closed, or
\* (non-blocking, or interrupted by a signal) there is nothing to read.
NoChunk == ~valid \/ pending = 0

ReadFirst ==
    /\ Top("read.first")
    /\ Chunk
    /\ stack' = <<"read.more">> \o Tail(stack)
    /\ UNCHANGED <<connVars, outVars, eof, arrived, noticed, failed, nested>>

\* Nothing was read: return true without on_did_read.
ReadNothing ==
    /\ Top("read.first") /\ NoChunk
    /\ stack' = Tail(stack)
    /\ UNCHANGED <<connVars, outVars, inVars, nested>>

\* A non-blocking socket reads on.
ReadMore ==
    /\ Top("read.more") /\ nonBlocking
    /\ Chunk
    /\ UNCHANGED <<connVars, outVars, eof, arrived, noticed, failed, nested, stack>>

\* Fault: on_did_read is left out when the peer has closed meanwhile.
ReadDoneUnlessEof ==
    /\ Top("read.more") /\ (nonBlocking => NoChunk)
    /\ noticed' = IF eof THEN noticed ELSE read
    /\ stack' = IF eof THEN Tail(stack) ELSE <<"on_did_read">> \o Tail(stack)
    /\ UNCHANGED <<connVars, outVars, pending, eof, arrived, read, failed, nested>>

\* The loop ends: notify_did_read().
ReadDone ==
    /\ Top("read.more") /\ (nonBlocking => NoChunk)
    /\ noticed' = read
    /\ stack' = <<"on_did_read">> \o Tail(stack)
    /\ UNCHANGED <<connVars, outVars, pending, eof, arrived, read, failed, nested>>

\* recv() fails: read_chunk throws, read_to_buffer returns false.
ReadError ==
    /\ Top("read.first") \/ (Top("read.more") /\ nonBlocking)
    /\ valid
    /\ failed' = (failed \/ Top("read.more"))
    /\ stack' = Tail(stack)
    /\ UNCHANGED <<connVars, outVars, pending, eof, arrived, read, noticed, nested>>

-----------------------------------------------------------------------------
\* A callback returns.
Return ==
    /\ stack # <<>> /\ Head(stack) \in Callbacks
    /\ stack' = Tail(stack)
    /\ UNCHANGED <<connVars, outVars, inVars, nested>>

\* What the library does on its own once it is called.
Library ==
    \/ SendAll \/ SendShort \/ SendInvalid
    \/ CloseFlush \/ CloseSocket
    \/ ConnectOpen \/ ConnectThrows \/ ConnectFail
    \/ ReadFirst \/ ReadNothing \/ ReadMore \/ ReadDone \/ ReadError

Program ==
    \/ Write \/ WriteFromBuffer \/ Close \/ Destroy \/ SetNonBlocking
    \/ Connect \/ NotifyConnect \/ ReadToBuffer

Peer == PeerSend \/ PeerClose

Next == Library \/ Return \/ Program \/ Peer

Spec == Init /\ [][Next]_vars

(***************************************************************************)
(* The thread that runs the library goes on, and listeners return: the     *)
(* callbacks contain no waiting.  Nothing is assumed of the program's own  *)
(* calls nor of the peer.                                                  *)
(***************************************************************************)
FairSpec == Spec /\ WF_vars(Library) /\ WF_vars(Return)

-----------------------------------------------------------------------------
(***************************************************************************)
(* Properties.                                                             *)
(***************************************************************************)

\* Every variable has the values the code gives it.
TypeOK ==
    /\ valid \in BOOLEAN /\ destroyed \in BOOLEAN
    /\ conn \in Nat /\ closes \in Nat
    /\ reopened \in BOOLEAN /\ nonBlocking \in BOOLEAN /\ nested \in Nat
    /\ written \in Nat /\ cleared \in 0 .. written
    /\ wire \in Seq(Nat \X Nat) /\ short \in Nat
    /\ pending \in Nat /\ eof \in BOOLEAN /\ arrived \in Nat
    /\ read \in Nat /\ noticed \in Nat /\ failed \in BOOLEAN
    /\ stack \in Seq(Frames)

\* No byte overtakes another: a byte reaches the kernel only after the byte
\* written before it did, whatever short sends, flushes, closes and reconnects
\* lie between them (write_from_buffer).
NoByteSkipped ==
    \A i \in 1 .. Len(wire) :
        wire[i][2] > 1 => \E j \in 1 .. i - 1 : wire[j][2] = wire[i][2] - 1

\* outBuffer_.clear() loses nothing: a byte that left the buffer was taken by
\* the kernel, on some connection.
ClearedWasSent ==
    \A b \in 1 .. cleared : \E i \in 1 .. Len(wire) : wire[i][2] = b

\* As long as every send() takes the whole buffer, the kernel gets each byte
\* exactly once and in order, also when listeners write and close in callbacks.
ExactlyOnceUnlessShort ==
    short = 0 => /\ Len(wire) = cleared
                 /\ \A i \in 1 .. cleared : wire[i][2] = i

\* A connection ends only after its listeners were told on_close, however close()
\* and connect() nest, with two exceptions: the destructor, and a connection that
\* a listener opened inside a call of close(), which that call then ends, although
\* the comment on close() (buffered_socket.cpp:188) says it "Will update listeners".
CloseIsAnnounced == [][valid /\ ~valid' => closes > 0 \/ destroyed' \/ reopened]_vars

\* Input that went to inBuffer_ was announced by on_did_read once the read is
\* over, unless a recv() failed in the middle of a read.
InputIsAnnounced == ~failed /\ ~Top("read.more") => noticed = read


\* The calls of close() and connect() that on_did_write is waiting for.
ClosesInDidWrite ==
    {i \in 1 .. Len(stack) - 1 :
        /\ stack[i] \in {"close.flush", "close.socket", "connect.open"}
        /\ stack[i + 1] = "on_did_write"}

\* The recursion of close() or connect() -> flush() -> on_did_write -> close() is
\* paid for with bytes that left the buffer, so it ends when listeners stop
\* writing: the buffer is cleared before on_did_write is announced.
RecursionIsPaid == Cardinality(ClosesInDidWrite) <= cleared

=============================================================================
