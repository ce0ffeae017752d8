------------------------------- MODULE Socket -------------------------------
(***************************************************************************)
(* coda::net::socket (socket.cpp) and the TLS layer it owns                *)
(* (secure_layer.cpp): which C++ object holds which descriptor.            *)
(*                                                                         *)
(* The state is a set of C++ objects and the process's descriptor table.   *)
(* Every action is one whole member function, applied by one thread.       *)
(* Addresses, ports and the bytes transferred play no part here.           *)
(***************************************************************************)
EXTENDS Integers

CONSTANTS
    Objects,     \* storage in which a socket object may be alive
    Fds,         \* descriptor numbers the kernel may hand out
    OpenSSL,     \* built with OPENSSL_FOUND
    Relisten,    \* the program calls listen() on a socket that is valid
    ReuseMoved   \* the program calls connect()/listen() on a moved-from socket

ASSUME FdsAssumption == Fds \subseteq Nat
ASSUME FlagsAssumption == /\ OpenSSL \in BOOLEAN
                          /\ Relisten \in BOOLEAN
                          /\ ReuseMoved \in BOOLEAN

VARIABLES
    obj,      \* the socket objects
    kernel,   \* the descriptor table
    flags     \* O_NONBLOCK of every descriptor

vars == <<obj, kernel, flags>>

INVALID == -1

\* ssl_: null; handle_ fresh from init(); handshake failed; handshake done;
\* handle_ freed by shutdown() while ssl_ still points to the layer.
Layers == {"none", "new", "broken", "session", "down"}

Kernel == {"free", "connected", "bound", "listening"}

(***************************************************************************)
(* The members of a socket.  bio is the descriptor SSL_set_fd gave to the  *)
(* TLS handle; moved is a history bit: the object is empty because it was  *)
(* the source of a move, or took over from such an object.                 *)
(***************************************************************************)
Socket == [alive : BOOLEAN, sock : Fds \cup {INVALID}, non_blocking : BOOLEAN,
           ssl : Layers, bio : Fds \cup {INVALID}, moved : BOOLEAN]

Raw(fd) == [alive |-> TRUE, sock |-> fd, non_blocking |-> FALSE,
            ssl |-> "none", bio |-> INVALID, moved |-> FALSE]

Fresh == Raw(INVALID)

Dead == [Fresh EXCEPT !.alive = FALSE]

Init ==
    /\ obj = [o \in Objects |-> Dead]
    /\ kernel = [f \in Fds |-> "free"]
    /\ flags = [f \in Fds |-> FALSE]

IsValid(s) == s.sock # INVALID

-----------------------------------------------------------------------------
(***************************************************************************)
(* What the member functions do to one object and to the table.            *)
(***************************************************************************)

\* openssl_layer::shutdown: the handle goes, the layer stays.
ShutdownLayer(s) ==
    [s EXCEPT !.ssl = IF @ = "none" THEN "none" ELSE "down", !.bio = INVALID]

\* Faults: close() leaves non_blocking_ alone; close() leaves the TLS handle.
ClosedKeepsMode(s) == [ShutdownLayer(s) EXCEPT !.sock = INVALID]
ClosedKeepsHandle(s) == [s EXCEPT !.sock = INVALID, !.non_blocking = FALSE]

\* The object after socket::close.
Closed(s) ==
    [ShutdownLayer(s) EXCEPT !.sock = INVALID, !.non_blocking = FALSE]

\* Faults: close() only forgets the descriptor; it does not test for INVALID.
ReleasedNothing(s) == kernel
ReleasedUnchecked(s) ==
    [f \in Fds \cup {s.sock} |-> IF f = s.sock THEN "free" ELSE kernel[f]]

\* The descriptor table after shutdown + closesocket of the object's descriptor.
Released(s) == [f \in Fds |-> IF f = s.sock THEN "free" ELSE kernel[f]]

\* ::socket / ::accept return a descriptor that is free in table k; it blocks.
Opens(k, f, state) ==
    /\ k[f] = "free"
    /\ kernel' = [k EXCEPT ![f] = state]
    /\ flags' = [flags EXCEPT ![f] = FALSE]

(***************************************************************************)
(* openssl_layer::attach.  Without a handle it returns at once; otherwise  *)
(* SSL_connect succeeds, or attach throws and leaves the handle set on fd. *)
(* A handle that has finished a handshake accepts SSL_connect at once, and *)
(* on a listening descriptor a first handshake cannot succeed.             *)
(***************************************************************************)
Attached(s, state) ==
    IF s.ssl \in {"none", "down"} THEN {s}
    ELSE LET ends == IF state = "connected" THEN {"session", "broken"}
                     ELSE {"broken"} \cup ({s.ssl} \cap {"session"})
         IN  {[s EXCEPT !.ssl = e, !.bio = s.sock] : e \in ends}

-----------------------------------------------------------------------------
(***************************************************************************)
(* The member functions.                                                   *)
(***************************************************************************)

\* socket::socket()
Construct(o) ==
    /\ ~obj[o].alive
    /\ obj' = [obj EXCEPT ![o] = Fresh]
    /\ UNCHANGED <<kernel, flags>>

\* socket::accept on the listening object l, then socket(SOCKET, addr) for o.
Accept(l, o, f) ==
    /\ obj[l].alive /\ IsValid(obj[l])
    /\ kernel[obj[l].sock] = "listening"
    /\ ~obj[o].alive
    /\ Opens(kernel, f, "connected")
    /\ obj' = [obj EXCEPT ![o] = Raw(f)]

\* set_secure on s: the layer that was there is destroyed.  Without OpenSSL
\* set_secure(true) changes nothing.
Secured(s, value) ==
    IF value /\ ~OpenSSL THEN s
    ELSE [s EXCEPT !.ssl = IF value THEN "new" ELSE "none", !.bio = INVALID]

\* socket::socket(host, port, secure): set_secure, then connect.  When attach
\* throws the object was never alive and no destructor runs.
ConstructConnect(o, secure) ==
    /\ ~obj[o].alive
    /\ \/ /\ obj' = [obj EXCEPT ![o] = Secured(Fresh, secure)]
          /\ UNCHANGED <<kernel, flags>>
       \/ \E f \in Fds :
            /\ Opens(kernel, f, "connected")
            /\ \E s \in Attached(Secured(Raw(f), secure), "connected") :
                 obj' = [obj EXCEPT ![o] = IF s.ssl = "broken" THEN Dead ELSE s]

\* May the program call connect() or listen() on s?
Usable(s) == s.alive /\ (ReuseMoved \/ ~s.moved)

\* The object that connect() goes on with once the name is resolved.
Reset(s) == IF IsValid(s) THEN Closed(s) ELSE s

\* connect() when no address accepts the connection (an unresolved name
\* returns before anything is changed).
ConnectFail(o) ==
    /\ Usable(obj[o])
    /\ obj' = [obj EXCEPT ![o] = Reset(obj[o])]
    /\ kernel' = Released(obj[o])
    /\ UNCHANGED flags

\* connect() when some address accepts it; attach may then throw.
Connect(o, f) ==
    /\ Usable(obj[o])
    /\ Opens(Released(obj[o]), f, "connected")
    /\ \E s \in Attached([Reset(obj[o]) EXCEPT !.sock = f, !.moved = FALSE],
                         "connected") :
         obj' = [obj EXCEPT ![o] = s]

\* listen() once an address is bound.  ::listen fails, or succeeds and the
\* layer is attached.  The descriptor held before is overwritten, not closed.
\* (With no address bound nothing changes.)
Listen(o, f) ==
    /\ Usable(obj[o])
    /\ Relisten \/ ~IsValid(obj[o])
    /\ LET bound == [obj[o] EXCEPT !.sock = f, !.moved = FALSE]
       IN  \/ /\ Opens(kernel, f, "bound")
              /\ obj' = [obj EXCEPT ![o] = bound]
           \/ /\ Opens(kernel, f, "listening")
              /\ \E s \in Attached(bound, "listening") :
                   obj' = [obj EXCEPT ![o] = s]

\* socket::close
Close(o) ==
    /\ obj[o].alive
    /\ obj' = [obj EXCEPT ![o] = Closed(obj[o])]
    /\ kernel' = Released(obj[o])
    /\ UNCHANGED flags

\* socket::~socket
Destroy(o) ==
    /\ obj[o].alive
    /\ obj' = [obj EXCEPT ![o] = Dead]
    /\ kernel' = Released(obj[o])
    /\ UNCHANGED flags

\* Fault: the source of a move keeps the descriptor too.
MovedFromShares(s) == [s EXCEPT !.ssl = "none", !.bio = INVALID, !.moved = TRUE]

\* The source of a move construction keeps its non_blocking_.
MovedFrom(s) ==
    [s EXCEPT !.sock = INVALID, !.ssl = "none", !.bio = INVALID, !.moved = TRUE]

\* socket::socket(socket &&)
MoveConstruct(o, p) ==
    /\ ~obj[o].alive /\ obj[p].alive
    /\ obj' = [obj EXCEPT ![o] = obj[p], ![p] = MovedFrom(obj[p])]
    /\ UNCHANGED <<kernel, flags>>

\* The source of a move assignment does not.
AssignedFrom(s) == [MovedFrom(s) EXCEPT !.non_blocking = FALSE]

\* operator=(socket &&) of two different objects: close(), then take over.
MoveAssign(o, p) ==
    /\ o # p /\ obj[o].alive /\ obj[p].alive
    /\ obj' = [obj EXCEPT ![o] = obj[p], ![p] = AssignedFrom(obj[p])]
    /\ kernel' = Released(obj[o])
    /\ UNCHANGED flags

\* set_non_blocking: fcntl fails on an INVALID descriptor and nothing changes.
SetNonBlocking(o, b) ==
    /\ obj[o].alive /\ IsValid(obj[o])
    /\ flags' = [flags EXCEPT ![obj[o].sock] = b]
    /\ obj' = [obj EXCEPT ![o].non_blocking = b]
    /\ UNCHANGED kernel

\* socket::set_secure
SetSecure(o, value) ==
    /\ obj[o].alive
    /\ obj' = [obj EXCEPT ![o] = Secured(obj[o], value)]
    /\ UNCHANGED <<kernel, flags>>

Next ==
    \E o \in Objects :
        \/ Construct(o)
        \/ \E l \in Objects, f \in Fds : Accept(l, o, f)
        \/ \E secure \in BOOLEAN : ConstructConnect(o, secure)
        \/ ConnectFail(o)
        \/ \E f \in Fds : Connect(o, f)
        \/ \E f \in Fds : Listen(o, f)
        \/ Close(o)
        \/ Destroy(o)
        \/ \E p \in Objects : MoveConstruct(o, p)
        \/ \E p \in Objects : MoveAssign(o, p)
        \/ \E b \in BOOLEAN : SetNonBlocking(o, b)
        \/ \E value \in BOOLEAN : SetSecure(o, value)

Spec == Init /\ [][Next]_vars

-----------------------------------------------------------------------------
(***************************************************************************)
(* Properties.                                                             *)
(***************************************************************************)

\* The members of every object and the table have the values the code gives them.
TypeOK ==
    /\ obj \in [Objects -> Socket]
    /\ kernel \in [Fds -> Kernel]
    /\ flags \in [Fds -> BOOLEAN]

Holds(o, f) == obj[o].alive /\ obj[o].sock = f

\* A descriptor some object holds is open: sock_ is never used, and never
\* closed a second time, after closesocket (socket::close, the moves).
NoDangling ==
    \A o \in Objects, f \in Fds : Holds(o, f) => kernel[f] # "free"

\* Two objects never hold the same descriptor, so the destructor of one never
\* closes the connection of another, also when the kernel reuses numbers.
UniqueOwner ==
    \A o, p \in Objects, f \in Fds : Holds(o, f) /\ Holds(p, f) => o = p

\* The TLS handle of an object writes to the object's own descriptor: a handle
\* set on a number that was closed, and maybe reopened by someone else, would
\* send the session's bytes into a foreign connection.
SessionOnOwnDescriptor ==
    \A o \in Objects : obj[o].bio # INVALID => obj[o].bio = obj[o].sock

\* is_non_blocking() says what O_NONBLOCK of the descriptor is; read_to_buffer
\* relies on it to decide whether to loop over recv.
ModeAgrees ==
    \A o \in Objects : obj[o].alive /\ IsValid(obj[o])
                         => obj[o].non_blocking = flags[obj[o].sock]

Owned(f) == \E o \in Objects : Holds(o, f)

\* No operation takes a descriptor from its last owner without closing it: what
\* close(), the destructor, connect() and the moves give up is handed on or closed.
NeverOrphaned ==
    [][\A f \in Fds : Owned(f) /\ ~Owned(f)' => kernel'[f] = "free"]_vars

\* RAII: every open descriptor is held by an object that is alive, so that its
\* destructor closes it (socket.h: "destructor will close the socket RAII style").
NoLeak == \A f \in Fds : kernel[f] # "free" => Owned(f)

\* connect() of a socket that is_secure() ends with a TLS handle on the
\* descriptor when it returns true: a valid socket never has a layer whose
\* handle is gone, for which send() and recv() move nothing and return 0.
SecureConnectionUsable ==
    \A o \in Objects : IsValid(obj[o]) => obj[o].ssl # "down"

=============================================================================
