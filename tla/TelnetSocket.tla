---------------------------- MODULE TelnetSocket ---------------------------
(***************************************************************************)
(* The receiving side of coda::net::telnet_socket (telnet/socket.cpp): what *)
(* recv() hands to on_recv is scanned for telnet commands, the rest goes   *)
(* to inBuffer_, the listeners are told, and the program takes lines out   *)
(* with readln (buffered_socket.cpp).  The peer's bytes arrive in chunks   *)
(* of any size; the scanner keeps nothing from one chunk to the next.      *)
(***************************************************************************)
EXTENDS ListenerList

CONSTANTS
    MaxItems,   \* bound: items the peer sends
    MaxStream,  \* bound: bytes the peer sends
    MaxWork,    \* bound: changes of the list, and items, which count three times
    MaxRecv     \* MAXRECV: size of a chunk at most

ASSUME TelnetAssumption == /\ MaxItems \in Nat /\ MaxStream \in Nat /\ MaxWork \in Nat
                           /\ MaxRecv \in Nat \ {0}

(***************************************************************************)
(* Bytes that the code tells apart.  "OPT" stands for WILL, WONT, DO and   *)
(* DONT, "CMD" for the other commands, "o" for an option code, "x" for a   *)
(* parameter, "a" for text and "nl" for \r or \n.  The scanner sees values: *)
(* "aOPT" and "aSB" are text, and "xOPT" is a parameter, of the value of   *)
(* WILL to DONT or of SB, as binary data or UTF-8 text may hold.           *)
(***************************************************************************)
Bytes == {"IAC", "OPT", "SB", "SE", "CMD", "o", "x", "a", "nl", "aOPT", "aSB", "xOPT"}
Text == {"a", "nl", "aOPT", "aSB"}
Options == {"OPT", "aOPT", "xOPT"}
SubNegs == {"SB", "aSB"}

Items == {"text", "newline", "textWILL", "textSB", "option", "subneg", "emptysubneg",
          "subneg255", "notypesubneg", "escape", "command"}

\* What the peer sends for an item; "subneg255" has the byte 255 among its parameters.
Encode(item) ==
    CASE item = "text" -> <<"a">>
      [] item = "newline" -> <<"nl">>
      [] item = "textWILL" -> <<"aOPT">>
      [] item = "textSB" -> <<"aSB">>
      [] item = "option" -> <<"IAC", "OPT", "o">>
      [] item = "subneg" -> <<"IAC", "SB", "o", "x", "IAC", "SE">>
      [] item = "emptysubneg" -> <<"IAC", "SB", "o", "IAC", "SE">>
      [] item = "subneg255" -> <<"IAC", "SB", "o", "IAC", "IAC", "xOPT", "x", "IAC", "SE">>
      [] item = "notypesubneg" -> <<"IAC", "SB", "IAC", "SE">>
      [] item = "escape" -> <<"IAC", "IAC">>
      [] item = "command" -> <<"IAC", "CMD">>

VARIABLES
    wire,       \* bytes under way; the last of an item is marked
    chunk,      \* the data_buffer of this recv()
    pos,        \* where on_recv is in it
    rpc,        \* where read_to_buffer is
    inBuffer,   \* inBuffer_
    items,      \* history: what the peer sent
    arrived,    \* history: how many items have arrived to the last byte
    split,      \* history: a chunk ended inside an item
    cut,        \* history: a chunk ended inside a pair IAC IAC
    delivered,  \* history: all that went into inBuffer_
    events,     \* history: calls of on_telopt and on_sub_neg
    taken       \* history: what readln returned, one after the other

streamVars == <<wire, items, arrived, split, cut>>
scanVars == <<chunk, pos, events>>
bufferVars == <<inBuffer, delivered>>
vars == <<streamVars, scanVars, rpc, bufferVars, taken, listVars>>

Marked(bytes) == [i \in DOMAIN bytes |-> [byte |-> bytes[i], last |-> i = Len(bytes)]]

\* Bytes n and n + 1 are a pair IAC IAC of one item.
PairAt(bytes, n) ==
    /\ n < Len(bytes) /\ bytes[n].byte = "IAC" /\ ~bytes[n].last
    /\ bytes[n + 1].byte = "IAC"

\* The peer has sent its items; how they are cut into chunks is open.
Init ==
    /\ items \in UNION {[1 .. n -> Items] : n \in 0 .. MaxItems}
    /\ wire = FlattenSeq([i \in DOMAIN items |-> Marked(Encode(items[i]))])
    /\ Len(wire) <= MaxStream
    /\ arrived = 0 /\ split = FALSE /\ cut = FALSE
    /\ chunk = <<>> /\ pos = 1 /\ events = <<>>
    /\ rpc = "idle"
    /\ inBuffer = <<>> /\ delivered = <<>> /\ taken = <<>>
    /\ ListInit

\* read_to_buffer, socket::recv: a chunk of n bytes, which goes to on_recv.
Recv(n) ==
    /\ ~crashed /\ rpc = "idle" /\ n <= Len(wire)
    /\ LET got == SubSeq(wire, 1, n) IN
          /\ chunk' = [i \in DOMAIN got |-> got[i].byte]
          /\ arrived' = arrived + Cardinality({i \in DOMAIN got : got[i].last})
          /\ split' = (split \/ ~got[n].last)
    /\ cut' = (cut \/ PairAt(wire, n))
    /\ wire' = SubSeq(wire, n + 1, Len(wire))
    /\ pos' = 1
    /\ rpc' = "scan"
    /\ UNCHANGED <<items, events, bufferVars, taken, listVars>>

-----------------------------------------------------------------------------
(***************************************************************************)
(* telnet_socket::on_recv, one iteration of its loop per step.             *)
(***************************************************************************)

\* std::find from a position: the index of the next IAC, Len(s) + 1 if there is none.
FindIAC(s, from) == Min({i \in from .. Len(s) : s[i] = "IAC"} \cup {Len(s) + 1})

\* erase(first, last) of a vector, both ends included.
Erase(s, first, last) == SubSeq(s, 1, first - 1) \o SubSeq(s, last + 1, Len(s))

Found == FindIAC(chunk, pos)

\* The loop goes on: an IAC that is not the last byte.  It is erased; the command
\* behind it is then at its place.
Scanning == rpc = "scan" /\ Found < Len(chunk)
Command == chunk[Found + 1]
Rest == Erase(chunk, Found, Found)

\* IAC IAC: both are erased.
Escaped ==
    /\ Scanning /\ Command = "IAC"
    /\ chunk' = Erase(Rest, Found, Found) /\ pos' = Found
    /\ UNCHANGED <<streamVars, events, rpc, bufferVars, taken, listVars>>

\* Fault: handle_telopt does not look whether the option code is there.
HandleTeloptUnchecked ==
    /\ Scanning /\ Command \in Options
    /\ events' = Append(events, "option")
    /\ chunk' = Erase(Rest, Found, Found + 1) /\ pos' = Found
    /\ UNCHANGED <<streamVars, rpc, bufferVars, taken, listVars>>

\* handle_telopt: the option code may be missing; then the command byte stays.
HandleTelopt ==
    /\ Scanning /\ Command \in Options
    /\ IF Found = Len(Rest)
         THEN chunk' = Rest /\ pos' = Len(Rest) + 1 /\ UNCHANGED events
         ELSE /\ events' = Append(events, "option")
              /\ chunk' = Erase(Rest, Found, Found + 1) /\ pos' = Found
    /\ UNCHANGED <<streamVars, rpc, bufferVars, taken, listVars>>

\* handle_sub_neg finds its end: the first IAC behind SB is there, and SE follows.
EndsSubNeg(s, it) ==
    LET end == FindIAC(s, it + 1)
    IN  it < Len(s) /\ it + 2 <= Len(s) /\ end < Len(s) /\ s[end + 1] = "SE"

\* IAC SB IAC SE: the parameters are taken from behind the type, which is the closing
\* IAC, up to that IAC: a range that ends before it begins.
Inverted == EndsSubNeg(Rest, Found) /\ FindIAC(Rest, Found + 1) = Found + 1

\* Fault: the byte behind the closing IAC is left in the data.
HandleSubNegLeavesSE ==
    /\ Scanning /\ Command \in SubNegs
    /\ IF EndsSubNeg(Rest, Found)
         THEN LET end == FindIAC(Rest, Found + 1) IN
              /\ events' = Append(events, IF end > Found + 2 THEN "subneg" ELSE "emptysubneg")
              /\ chunk' = Erase(Rest, Found, end)
         ELSE chunk' = Rest /\ UNCHANGED events
    /\ pos' = Found
    /\ UNCHANGED <<streamVars, rpc, bufferVars, taken, listVars>>

\* handle_sub_neg: an incomplete one stays in the data, without its IAC.
HandleSubNeg ==
    /\ Scanning /\ Command \in SubNegs /\ ~Inverted
    /\ IF EndsSubNeg(Rest, Found)
         THEN LET end == FindIAC(Rest, Found + 1) IN
              /\ events' = Append(events, IF end > Found + 2 THEN "subneg" ELSE "emptysubneg")
              /\ chunk' = Erase(Rest, Found, end + 1)
         ELSE chunk' = Rest /\ UNCHANGED events
    /\ pos' = Found
    /\ UNCHANGED <<streamVars, rpc, bufferVars, taken, listVars>>

\* The constructor of the vector gets the inverted range: undefined.  Its exception
\* leaves read_to_buffer, and what was in the chunk is lost, or the program ends.
HandleSubNegInverted ==
    /\ Scanning /\ Command \in SubNegs /\ Inverted
    /\ chunk' = <<>> /\ pos' = 1
    /\ rpc' = "idle"
    /\ crashed' \in BOOLEAN
    /\ UNCHANGED <<streamVars, events, bufferVars, taken, listeners, loopVars, expected, due, listOps>>

\* The switch has no case for it: the byte stays in the data.
OtherCommand ==
    /\ Scanning /\ Command \notin {"IAC"} \cup Options \cup SubNegs
    /\ chunk' = Rest /\ pos' = Found
    /\ UNCHANGED <<streamVars, events, rpc, bufferVars, taken, listVars>>

\* on_recv returns; read_to_buffer appends the chunk and calls notify_did_read.  The
\* socket is blocking: it reads one chunk.
AppendChunk ==
    /\ rpc = "scan" /\ ~Scanning
    /\ inBuffer' = inBuffer \o chunk
    /\ delivered' = delivered \o chunk
    /\ chunk' = <<>> /\ pos' = 1
    /\ rpc' = "notify"
    /\ NotifyBegin
    /\ UNCHANGED <<streamVars, events, taken>>

OnRecv ==
    \/ Escaped \/ HandleTelopt \/ HandleSubNeg \/ HandleSubNegInverted \/ OtherCommand
    \/ AppendChunk

-----------------------------------------------------------------------------
(***************************************************************************)
(* The listeners, and the program that reads lines.                        *)
(***************************************************************************)

Notify ==
    /\ rpc = "notify" /\ NotifyNext
    /\ UNCHANGED <<streamVars, scanVars, rpc, bufferVars, taken>>

ReadReturns ==
    /\ rpc = "notify" /\ NotifyEnd
    /\ rpc' = "idle"
    /\ UNCHANGED <<streamVars, scanVars, bufferVars, taken>>

LineEnd == Min({i \in DOMAIN inBuffer : inBuffer[i] = "nl"} \cup {Len(inBuffer) + 1})

\* Fault: exactly one more character is dropped with the newline.
NextLineFixed == Min({LineEnd + 2, Len(inBuffer) + 1})

\* The index behind the line: all newline characters that follow it are skipped.
NextLine == Min({i \in LineEnd .. Len(inBuffer) : inBuffer[i] # "nl"} \cup {Len(inBuffer) + 1})

\* readln, by the program or by a listener in on_did_read: up to the newline, or all
\* there is.
Readln ==
    /\ rpc # "scan" /\ at # 1 /\ ~crashed /\ inBuffer # <<>>
    /\ taken' = taken \o SubSeq(inBuffer, 1, LineEnd - 1)
    /\ inBuffer' = SubSeq(inBuffer, NextLine, Len(inBuffer))
    /\ UNCHANGED <<streamVars, scanVars, rpc, delivered, listVars>>

ChangeListeners ==
    /\ rpc # "scan"
    /\ 3 * Len(items) + listOps < MaxWork
    /\ \E l \in Listeners : AddListener(l) \/ RemoveListener(l)
    /\ UNCHANGED <<streamVars, scanVars, rpc, bufferVars, taken>>

Next ==
    \/ \E n \in 1 .. MaxRecv : Recv(n)
    \/ OnRecv
    \/ Notify \/ ReadReturns
    \/ Readln
    \/ ChangeListeners

Spec == Init /\ [][Next]_vars

-----------------------------------------------------------------------------
(***************************************************************************)
(* Properties.                                                             *)
(***************************************************************************)

\* The buffers hold bytes, on_recv stays within its chunk, the callbacks are those of
\* telnet/socket.h, and a notify loop calls listeners only.
TypeOK ==
    /\ wire \in Seq([byte : Bytes, last : BOOLEAN])
    /\ items \in Seq(Items) /\ arrived \in 0 .. Len(items)
    /\ split \in BOOLEAN /\ cut \in BOOLEAN
    /\ chunk \in Seq(Bytes) /\ pos \in 1 .. Len(chunk) + 1
    /\ rpc \in {"idle", "scan", "notify"}
    /\ inBuffer \in Seq(Bytes) /\ delivered \in Seq(Bytes)
    /\ events \in Seq({"option", "subneg", "emptysubneg"})
    /\ taken \in Seq(Bytes)
    /\ ListTypeOK

Arrived == SubSeq(items, 1, arrived)
Negotiations(s) == Keep(s, {"option", "subneg", "emptysubneg"})
TextOf(bytes) == Keep(bytes, Text)
Sent(s) == FlattenSeq([i \in DOMAIN s |-> Encode(s[i])])

\* Not decoded even when they arrive whole: on_recv drops both bytes of an escaped 255,
\* leaves other commands and sub-negotiations with an escaped 255 in the text, and
\* does the undefined for one without a type.
Undecoded == {"escape", "command", "subneg255", "notypesubneg"}

\* Items with bytes behind an escaped 255, or text, that look like a command.
LooksLikeCommand == {"textWILL", "textSB", "subneg255"}

\* When chunks end where items end, and the peer sends text of any bytes but 255 and
\* negotiations without a 255 in them, the program gets exactly the text, and one
\* callback per negotiation, in order.
DecodedUnlessSplit ==
    rpc # "scan" /\ ~split /\ ToSet(items) \cap Undecoded = {}
        => /\ delivered = TextOf(Sent(Arrived))
           /\ events = Negotiations(Arrived)

\* However the stream is cut, also inside commands, no text is taken for a part of a
\* command, and no callback is made that the peer did not ask for: the text arrives
\* in order and complete, and the callbacks are some of the negotiations in their
\* order.  Two cases are left out, in which it is false: a chunk that ended between the
\* two bytes of an escaped 255, when there are bytes that look like WILL to DONT or
\* SB, and a sub-negotiation without a type.
NeitherEatenNorForged ==
    /\ rpc # "scan"
    /\ cut => ToSet(items) \cap LooksLikeCommand = {}
    /\ "notypesubneg" \notin ToSet(items)
    => /\ TextOf(delivered) = TextOf(Sent(Arrived))
       /\ \E of \in [DOMAIN events -> DOMAIN Arrived] :
             /\ \A i, j \in DOMAIN events : i < j => of[i] < of[j]
             /\ \A i \in DOMAIN events : events[i] = Arrived[of[i]]

\* readln drops newlines and nothing else: what it returned, and what is left, is
\* what was received, also when a line arrives in pieces.
ReadlnKeepsText ==
    LET visible(s) == Keep(s, Bytes \ {"nl"})
    IN  visible(taken \o inBuffer) = visible(delivered)

\* A notify loop that completes has called every listener that was there when it
\* began and was not removed, once, also when listeners add others and remove
\* themselves or others on the way, unless one was removed after another was added in
\* the same loop.  (It may not complete: std::remove leaves null pointers in the
\* vector, and push_back may move it.)
RoundTellsAll ==
    [][at # 0 /\ at' = 0
        => \A l \in due : Cardinality({i \in DOMAIN told : told[i] = l}) = 1]_vars

=============================================================================
