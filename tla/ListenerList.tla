---------------------------- MODULE ListenerList ---------------------------
(***************************************************************************)
(* listeners_ of coda::net::buffered_socket (buffered_socket.cpp): a       *)
(* vector of shared_ptrs that add_listener and remove_listener change and  *)
(* the notify_* loops walk through, calling listeners that may call        *)
(* add_listener and remove_listener themselves.                            *)
(***************************************************************************)
EXTENDS Integers, SequencesExt, Filter

CONSTANTS
    Listeners,    \* the listener objects
    Null,         \* a shared_ptr that was moved from
    MaxListOps    \* bound: calls of add_listener and remove_listener

ASSUME ListenersAssumption == Null \notin Listeners /\ MaxListOps \in Nat

VARIABLES
    listeners,  \* listeners_
    at,         \* index the notify loop is at, 0 outside of it
    until,      \* the last index of the loop, from end() when it began
    told,       \* listeners this loop has called, in order
    crashed,    \* a null or dangling pointer was used: the program is gone
    expected,   \* history: those that were added and not removed
    due,        \* history: those the loop must call
    listOps     \* calls so far

loopVars == <<at, until, told>>
listVars == <<listeners, loopVars, crashed, expected, due, listOps>>

ListInit ==
    /\ listeners = <<>> /\ at = 0 /\ until = 0 /\ told = <<>> /\ crashed = FALSE
    /\ expected = {} /\ due = {} /\ listOps = 0

\* The program calls outside of the loop; in it, a listener that the loop has called.
MayChange == ~crashed /\ at # 1 /\ listOps < MaxListOps

\* Fault: add_listener does not look for the listener first.
AddedTwice(l) == Append(listeners, l)

\* add_listener: not twice.
Added(l) == IF Contains(listeners, l) THEN listeners ELSE Append(listeners, l)

\* In the loop, a push_back that has to reallocate leaves the loop with pointers into
\* freed memory: undefined, it may end the program or go on as if nothing had moved.
AddListener(l) ==
    /\ MayChange
    /\ listeners' = Added(l)
    /\ crashed' \in IF at # 0 /\ ~Contains(listeners, l) THEN BOOLEAN ELSE {FALSE}
    /\ expected' = expected \cup {l}
    /\ listOps' = listOps + 1
    /\ UNCHANGED <<loopVars, due>>

\* remove_listener: std::remove moves the others to the front and leaves the vector
\* as long as it was; an element that was moved is null, one at the end that was to
\* be removed is still there.
Removed(l) ==
    LET kept == Keep(listeners, (Listeners \cup {Null}) \ {l})
    IN  [i \in DOMAIN listeners |->
            IF i <= Len(kept) THEN kept[i] ELSE IF listeners[i] = l THEN l ELSE Null]

\* After an add_listener in the same loop, std::remove may move the added one to where
\* the loop is, and another one past its end: then the loop owes nobody a call.
RemoveListener(l) ==
    /\ MayChange
    /\ listeners' = IF Contains(listeners, l) THEN Removed(l) ELSE listeners
    /\ expected' = expected \ {l}
    /\ due' = IF until < Len(listeners) THEN {} ELSE due \ {l}
    /\ listOps' = listOps + 1
    /\ UNCHANGED <<loopVars, crashed>>

\* notify_did_read: for (const auto &l : listeners_).
NotifyBegin ==
    /\ at' = 1 /\ until' = Len(listeners) /\ told' = <<>> /\ due' = expected
    /\ UNCHANGED <<listeners, crashed, expected, listOps>>

\* Fault: the loop calls whatever is in the vector.
NotifyNextUnchecked ==
    /\ ~crashed /\ at \in 1 .. until
    /\ at' = at + 1 /\ told' = Append(told, listeners[at])
    /\ UNCHANGED <<listeners, until, crashed, expected, due, listOps>>

\* The listener at the index is called; a call through a null pointer ends the
\* program.
NotifyNext ==
    /\ ~crashed /\ at \in 1 .. until
    /\ IF listeners[at] = Null
         THEN crashed' = TRUE /\ UNCHANGED <<at, told>>
         ELSE at' = at + 1 /\ told' = Append(told, listeners[at]) /\ UNCHANGED crashed
    /\ UNCHANGED <<listeners, until, expected, due, listOps>>

\* Every element that was there was visited.
NotifyEnd ==
    /\ ~crashed /\ at > until
    /\ at' = 0 /\ until' = 0 /\ due' = {}
    /\ UNCHANGED <<listeners, told, crashed, expected, listOps>>

ListTypeOK ==
    /\ listeners \in Seq(Listeners \cup {Null})
    /\ until \in 0 .. Len(listeners) /\ at \in 0 .. until + 1
    /\ told \in Seq(Listeners)
    /\ crashed \in BOOLEAN /\ due \subseteq expected /\ expected \subseteq Listeners
    /\ listOps \in 0 .. MaxListOps

=============================================================================
