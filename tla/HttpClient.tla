----------------------------- MODULE HttpClient -----------------------------
(***************************************************************************)
(* coda::net::http::client with both of its implementations: one request   *)
(* over a buffered_socket (http/socket_impl.cpp) or with libcurl           *)
(* (http/curl_impl.cpp), and http::response::parse (http/client.cpp).      *)
(*                                                                         *)
(* An answer is a sequence of lines.  A line knows the request it answers, *)
(* so that a field of response_ shows which request it is from.            *)
(***************************************************************************)
EXTENDS Integers, FiniteSets, FiniteSetsExt, SequencesExt

CONSTANTS
    Uris,           \* what coda::net::uri made of the program's text: valid or not
    MaxRequests,    \* bound: calls of request()
    MaxWork         \* bound: header and body lines in all answers, and changes of the client

ASSUME HttpAssumption ==
    /\ MaxRequests \in Nat /\ MaxWork \in Nat
    /\ \A u \in Uris : u.valid \in BOOLEAN

Impls == {"none", "socket", "curl"}
HeaderNames == {"User-Agent", "Accept"}

(***************************************************************************)
(* Lines the parser tells apart.  A status line has three fields, a        *)
(* "noreason" two; "a" and "b" are headers "key: value" with those keys,   *)
(* "tight" is "a:value", "bare" is "a:", "nocolon" has no colon.  A "nul"  *)
(* is a line of the body that begins with a NUL byte, a "part" the         *)
(* beginning of a line.                                                    *)
(***************************************************************************)
StatusKinds == {"status", "noreason", "other"}
HeaderKinds == {"a", "b", "tight", "bare", "nocolon"}
BodyKinds == {"text", "nul"}
Kinds == StatusKinds \cup HeaderKinds \cup BodyKinds \cup {"blank", "part"}

VARIABLES
    impl,       \* client::impl_, which all clients share
    client,     \* uri_, and the names in headers_
    response,   \* response_
    pc,         \* where request() is
    todo,       \* headers that are not in the list of curl::request yet
    list,       \* whether that list exists
    answer,     \* what the server answers to this request
    at,         \* lines of it that have arrived
    value,      \* what the implementation has received
    handles,    \* curl handles and header lists that exist
    req,        \* history: number of this request
    origin,     \* history: the answer that response_ was parsed from
    failed,     \* history: calls of curl_easy_setopt and curl_slist_append that failed
    lines, sets \* history: what the bounds count

netVars == <<answer, at, value>>
curlVars == <<handles, todo, list, failed>>
counters == <<req, lines, sets>>
vars == <<impl, client, response, pc, netVars, curlVars, origin, counters>>

-----------------------------------------------------------------------------
(***************************************************************************)
(* transfer, response and client objects.                                  *)
(***************************************************************************)

NoAnswer == [status |-> <<>>, headers |-> <<>>, body |-> <<>>]

\* response::response: 0 is no code, no version is the default 1.1.
NoResponse == [value |-> <<>>, code |-> 0, version |-> 0, headers |-> <<>>, content |-> <<>>]

\* client::client adds the User-Agent.
Client(u) == [uri |-> u, headers |-> {"User-Agent"}]

\* set_request_type may have been called before the client was made.
Init ==
    /\ impl \in Impls
    /\ \E u \in Uris : client = Client(u)
    /\ response = NoResponse
    /\ pc = "idle"
    /\ answer = NoAnswer /\ at = 0 /\ value = <<>>
    /\ handles = 0 /\ todo = {} /\ list = FALSE /\ failed = 0
    /\ req = 0 /\ lines = 0 /\ sets = 0 /\ origin = NoAnswer

\* The program changes the client between requests.
Setting ==
    /\ pc = "idle" /\ lines + sets < MaxWork
    /\ sets' = sets + 1
    /\ UNCHANGED <<pc, netVars, curlVars, origin, req, lines>>

\* set_request_type
SetRequestType(i) == Setting /\ impl' = i /\ UNCHANGED <<client, response>>

\* add_header, add_headers, remove_header
AddHeader(n) ==
    Setting /\ client' = [client EXCEPT !.headers = @ \cup {n}] /\ UNCHANGED <<impl, response>>
RemoveHeader(n) ==
    Setting /\ client' = [client EXCEPT !.headers = @ \ {n}] /\ UNCHANGED <<impl, response>>

\* operator= from a client of another uri: the one that copies leaves response_ alone.
AssignCopy(u) == Setting /\ client' = Client(u) /\ UNCHANGED <<impl, response>>
AssignMove(u) == Setting /\ client' = Client(u) /\ response' = NoResponse /\ UNCHANGED impl

-----------------------------------------------------------------------------
(***************************************************************************)
(* client::request and what both implementations do first.                 *)
(***************************************************************************)

Unwind == pc' = "idle" /\ answer' = NoAnswer /\ at' = 0 /\ value' = <<>>

\* The exception passes through request(): response_ is what it was.
Throw ==
    /\ Unwind
    /\ UNCHANGED <<impl, client, response, origin, counters>>

\* request: no implementation, or a uri that did not parse.
RequestThrows ==
    /\ pc = "idle" /\ req < MaxRequests
    /\ impl = "none" \/ ~client.uri.valid
    /\ req' = req + 1
    /\ UNCHANGED <<impl, client, response, pc, netVars, curlVars, origin, lines, sets>>

\* The request line and the headers are written into a buffer, or given to libcurl;
\* their text is left out.
Request ==
    /\ pc = "idle" /\ req < MaxRequests
    /\ impl # "none" /\ client.uri.valid
    /\ req' = req + 1
    /\ pc' = IF impl = "socket" THEN "connect" ELSE "init"
    /\ UNCHANGED <<impl, client, response, answer, at, value, curlVars, origin, lines, sets>>

-----------------------------------------------------------------------------
(***************************************************************************)
(* The server, and lines on their way.                                     *)
(***************************************************************************)

LineOf(r, n, kind) == [req |-> r, n |-> n, kind |-> kind, end |-> TRUE]
Line(n, kind) == LineOf(req, n, kind)

\* An answer line by line: an empty line ends the head.
Stream(a) ==
    a.status \o a.headers
        \o (IF a.status = <<>> THEN <<>> ELSE <<LineOf(a.status[1].req, 0, "blank")>>)
        \o a.body

\* The server has the request and answers it: every line ends with \r\n.
Serve(status, headers, body) ==
    /\ pc \in {"read", "perform"} /\ answer = NoAnswer
    /\ lines' = lines + Len(headers) + Len(body)
    /\ answer' = [status |-> <<Line(1, status)>>,
                  headers |-> [i \in DOMAIN headers |-> Line(i, headers[i])],
                  body |-> [i \in DOMAIN body |-> Line(i, body[i])]]
    /\ UNCHANGED <<impl, client, response, pc, at, value, curlVars, origin, req, sets>>

\* n lines, and the beginning of the next if cut.
Arriving(n, cut) ==
    LET stream == Stream(answer)
    IN  SubSeq(stream, 1, n)
          \o (IF cut THEN <<[stream[n + 1] EXCEPT !.kind = "part", !.end = FALSE]>> ELSE <<>>)

-----------------------------------------------------------------------------
(***************************************************************************)
(* socket::request.                                                        *)
(***************************************************************************)

\* No connection: the sock of this call is destroyed, nothing was sent.
SocketConnectFails == pc = "connect" /\ Throw /\ UNCHANGED curlVars

SocketConnect ==
    /\ pc = "connect"
    /\ pc' = "write"
    /\ UNCHANGED <<impl, client, response, netVars, curlVars, origin, counters>>

\* write_from_buffer: a short send throws and the connection is closed; a full one
\* clears the buffer.
SocketWriteFails == pc = "write" /\ Throw /\ UNCHANGED curlVars
SocketWrite ==
    /\ pc = "write"
    /\ pc' = "read"
    /\ UNCHANGED <<impl, client, response, netVars, curlVars, origin, counters>>

\* read_to_buffer, called once: what one recv() returns, or nothing at end of file.
SocketRead(n, cut) ==
    /\ pc = "read"
    /\ n + (IF cut THEN 1 ELSE 0) <= Len(Stream(answer))
    /\ value' = Arriving(n, cut) /\ at' = n
    /\ pc' = "parse"
    /\ UNCHANGED <<impl, client, response, answer, curlVars, origin, counters>>
SocketReadFails == pc = "read" /\ Throw /\ UNCHANGED curlVars

-----------------------------------------------------------------------------
(***************************************************************************)
(* curl::request.  A handle, and a list once a header was put into it.     *)
(***************************************************************************)

\* Fault: the null handle is used, and cleaned up in the end.
CurlInitUnchecked ==
    /\ pc = "init"
    /\ pc' = "options"
    /\ UNCHANGED <<impl, client, response, netVars, curlVars, origin, counters>>

\* curl_easy_init returns NULL.
CurlInitFails == pc = "init" /\ Throw /\ UNCHANGED curlVars
CurlInit ==
    /\ pc = "init"
    /\ handles' = handles + 1
    /\ pc' = "options"
    /\ UNCHANGED <<impl, client, response, netVars, todo, list, failed, origin, counters>>

\* The options of the url and the method, then the loop over the headers.
CurlOptions ==
    /\ pc = "options"
    /\ todo' = client.headers
    /\ pc' = "append"
    /\ UNCHANGED <<impl, client, response, netVars, handles, list, failed, origin, counters>>

\* curl_slist_append: the first one makes the list.
CurlAppend(n) ==
    /\ pc = "append" /\ n \in todo
    /\ todo' = todo \ {n}
    /\ list' = TRUE
    /\ handles' = IF list THEN handles ELSE handles + 1
    /\ UNCHANGED <<impl, client, response, pc, netVars, failed, origin, counters>>

\* It returns NULL, which is stored over the pointer to the list.
CurlAppendFails(n) ==
    /\ pc = "append" /\ n \in todo
    /\ todo' = todo \ {n}
    /\ list' = FALSE
    /\ failed' = failed + 1
    /\ UNCHANGED <<impl, client, response, pc, netVars, handles, origin, counters>>

CurlAppended ==
    /\ pc = "append" /\ todo = {}
    /\ pc' = "headers"
    /\ UNCHANGED <<impl, client, response, netVars, curlVars, origin, counters>>

\* The last options, and curl_easy_perform: the request is libcurl's now.
CurlHeaders ==
    /\ pc = "headers"
    /\ pc' = "perform"
    /\ UNCHANGED <<impl, client, response, netVars, curlVars, origin, counters>>

\* curl_set_opt throws: nobody frees the handle, and the list if it exists.
CurlSetoptFails ==
    /\ pc \in {"options", "headers"}
    /\ failed' = failed + 1
    /\ list' = FALSE
    /\ Throw /\ UNCHANGED <<handles, todo>>

\* curl_append_response_callback: n lines, appended as a C string.
CurlChunk(n) ==
    /\ pc = "perform" /\ at + n <= Len(Stream(answer))
    /\ LET chunk == SubSeq(Stream(answer), at + 1, at + n)
           nul == SelectInSeq(chunk, LAMBDA l : l.kind = "nul")
       IN  value' = value \o (IF nul = 0 THEN chunk ELSE SubSeq(chunk, 1, nul - 1))
    /\ at' = at + n
    /\ UNCHANGED <<impl, client, response, pc, answer, curlVars, origin, counters>>

\* Fault: curl_easy_cleanup is only called on the way to the return.
CurlFailsKeepsHandle ==
    /\ pc = "perform"
    /\ handles' = IF list THEN handles - 1 ELSE handles
    /\ list' = FALSE
    /\ Throw /\ UNCHANGED <<todo, failed>>

\* An error other than CURLE_PARTIAL_FILE, a timeout for one: list and handle are freed.
Freed == handles' = (IF list THEN handles - 2 ELSE handles - 1) /\ list' = FALSE
CurlFails ==
    /\ pc = "perform"
    /\ Freed
    /\ Throw /\ UNCHANGED <<todo, failed>>

\* The transfer is complete, or was cut (CURLE_PARTIAL_FILE).
CurlDone ==
    /\ pc = "perform"
    /\ Freed
    /\ pc' = "parse"
    /\ UNCHANGED <<impl, client, response, netVars, todo, failed, origin, counters>>

-----------------------------------------------------------------------------
(***************************************************************************)
(* response::parse.                                                        *)
(***************************************************************************)

\* The header map of some lines: the last line of a key counts.  "a:value" loses the
\* first character of its value.
Keys(kinds) == (IF kinds \cap {"a", "tight"} # {} THEN {"a"} ELSE {}) \cup (kinds \cap {"b"})
KeyOf(l) == IF l.kind = "tight" THEN "a" ELSE l.kind
HeaderMap(ls) ==
    [k \in Keys({ls[i].kind : i \in DOMAIN ls}) |->
        ls[Max({i \in DOMAIN ls : KeyOf(ls[i]) = k})]]

\* The lines the loop looks at: from the second to the first empty one, or to the last
\* that ends.  A "key:" stops it with std::out_of_range.
Ended(v) == {i \in 2 .. Len(v) : v[i].end}
LoopEnd(v) == Min({i \in Ended(v) : v[i].kind = "blank"} \cup {Max(Ended(v) \cup {1})})
Bare(v) == {i \in 2 .. LoopEnd(v) : v[i].kind = "bare"}

\* parse(value): clear(), then parse() of the new value.
Parsed(old, v) ==
    LET cleared == [NoResponse EXCEPT !.value = v, !.version = old.version]
    IN  IF v = <<>> \/ ~v[1].end \/ v[1].kind = "other"
          THEN [cleared EXCEPT !.content = v]
        ELSE IF v[1].kind = "noreason"
          THEN [cleared EXCEPT !.code = v[1].req, !.content = v]
        ELSE LET read == [cleared EXCEPT !.code = v[1].req, !.version = v[1].req]
             IN  IF Bare(v) # {}
                   THEN [read EXCEPT !.headers = HeaderMap(SubSeq(v, 2, Min(Bare(v)) - 1))]
                   ELSE [read EXCEPT !.headers = HeaderMap(SubSeq(v, 2, LoopEnd(v))),
                                     !.content = SubSeq(v, LoopEnd(v) + 1, Len(v))]

\* Fault: clear() forgets the headers, which the loop then adds to.
ParseKeepsHeaders ==
    /\ pc = "parse"
    /\ LET new == Parsed(response, value)
       IN  response' = [new EXCEPT !.headers =
                [k \in DOMAIN new.headers \cup DOMAIN response.headers |->
                    IF k \in DOMAIN new.headers THEN new.headers[k] ELSE response.headers[k]]]
    /\ origin' = answer
    /\ Unwind
    /\ UNCHANGED <<impl, client, curlVars, counters>>

\* Fault: the loop runs over the empty line.
ParseOverBlank ==
    /\ pc = "parse"
    /\ LET new == Parsed(response, value)
       IN  response' = [new EXCEPT !.content = IF @ = <<>> THEN @ ELSE Tail(@)]
    /\ origin' = answer
    /\ Unwind
    /\ UNCHANGED <<impl, client, curlVars, counters>>

\* The callback is called with response_, and may do what the program does when idle.
Parse ==
    /\ pc = "parse"
    /\ response' = Parsed(response, value)
    /\ origin' = answer
    /\ Unwind
    /\ UNCHANGED <<impl, client, curlVars, counters>>

-----------------------------------------------------------------------------
Texts(kinds, most) == UNION {[1 .. n -> kinds] : n \in 0 .. most}

Next ==
    \/ \E i \in Impls : SetRequestType(i)
    \/ \E n \in HeaderNames : AddHeader(n)
    \/ \E n \in HeaderNames : RemoveHeader(n)
    \/ \E u \in Uris : AssignCopy(u)
    \/ \E u \in Uris : AssignMove(u)
    \/ RequestThrows \/ Request
    \/ \E status \in StatusKinds, headers \in Texts(HeaderKinds, MaxWork - lines - sets) :
         \E body \in Texts(BodyKinds, MaxWork - lines - sets - Len(headers)) :
            Serve(status, headers, body)
    \/ SocketConnectFails \/ SocketConnect
    \/ SocketWriteFails \/ SocketWrite
    \/ \E n \in 0 .. Len(Stream(answer)), cut \in BOOLEAN : SocketRead(n, cut)
    \/ SocketReadFails
    \/ CurlInitFails \/ CurlInit
    \/ CurlOptions
    \/ \E n \in HeaderNames : CurlAppend(n)
    \/ \E n \in HeaderNames : CurlAppendFails(n)
    \/ CurlAppended \/ CurlHeaders \/ CurlSetoptFails
    \/ \E n \in 1 .. Len(Stream(answer)) : CurlChunk(n)
    \/ CurlFails \/ CurlDone
    \/ Parse

Spec == Init /\ [][Next]_vars

-----------------------------------------------------------------------------
(***************************************************************************)
(* Properties.                                                             *)
(***************************************************************************)

Lines == [req : 1 .. MaxRequests, n : Nat, kind : Kinds, end : BOOLEAN]

\* The members of the client and of its response have the types of client.h, a header
\* map holds lines of headers only, and no handle is freed twice.
TypeOK ==
    /\ impl \in Impls
    /\ client.uri \in Uris /\ client.headers \subseteq HeaderNames
    /\ pc \in {"idle", "connect", "write", "read", "init", "options", "append", "headers", "perform",
              "parse"}
    /\ \A s \in {value, response.value, response.content} : s \in Seq(Lines)
    /\ response.code \in 0 .. MaxRequests /\ response.version \in 0 .. MaxRequests
    /\ \A k \in DOMAIN response.headers : response.headers[k].kind \in HeaderKinds
    /\ handles \in Nat /\ todo \subseteq HeaderNames /\ list \in BOOLEAN /\ failed \in Nat
    /\ at \in 0 .. Len(Stream(answer))

\* response_ never mixes two answers: whatever request() did, returned or thrown, code,
\* headers and content are those of the text in full_response().  (version() is not:
\* clear() leaves the version of an earlier answer.)
ResponseOfOneRequest ==
    LET from == {response.value[i].req : i \in DOMAIN response.value}
    IN  /\ Cardinality(from) <= 1
        /\ {response.code} \ {0} \subseteq from
        /\ {response.headers[k].req : k \in DOMAIN response.headers} \subseteq from
        /\ {response.content[i].req : i \in DOMAIN response.content} \subseteq from

\* An answer with a complete status line and no "key:" whose head has arrived is taken
\* apart where the server put it together: every header with the line that was last for
\* its key, and the content is the body as far as it has come.
HeadDecidesContent ==
    LET head == Len(origin.headers) + 2
        v == response.value
    IN  /\ origin.status # <<>> /\ origin.status[1].kind = "status"
        /\ \A i \in DOMAIN origin.headers : origin.headers[i].kind # "bare"
        /\ Len(v) >= head /\ v[head].end
        => /\ response.code = v[1].req
           /\ \A k \in {"a", "b"} :
                LET of == {i \in DOMAIN origin.headers : KeyOf(origin.headers[i]) = k}
                IN  /\ k \in DOMAIN response.headers <=> of # {}
                    /\ \A i \in of : (\A j \in of : j <= i) => response.headers[k] = origin.headers[i]
           /\ v = Stream(origin) => response.content = origin.body
           /\ Len(response.content) = Len(v) - head

\* Without a failing curl_easy_setopt or curl_slist_append nothing that curl::request
\* allocated outlives it, whatever else fails: handle and list are freed on every other
\* way out.  A failing call costs a handle and a list at most.
LeaksNeedFailures == pc \in {"idle", "parse"} => handles <= 2 * failed

=============================================================================
