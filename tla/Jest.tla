-------------------------------- MODULE Jest --------------------------------
(***************************************************************************)
(* jest, the command line tool of http/crest: main.cpp, the options and    *)
(* prompts that fill a jester (jester.cpp, util.cpp), and the file         *)
(* ~/.jest/history (config.cpp) that takes method and uri from one run to  *)
(* the next.  Runs may overlap; they share the file.                       *)
(*                                                                         *)
(* save() opens the file without truncating it and writes over its         *)
(* beginning, so the file is kept character by character; the characters   *)
(* are those that reading it tells apart.                                  *)
(***************************************************************************)
EXTENDS Integers, FiniteSetsExt, SequencesExt

CONSTANTS
    Procs,      \* processes
    Alphabet,   \* the characters but the blanks, in their order
    MethodKey, UriKey,  \* the words method and uri
    GetName,    \* the name of the method GET
    Methods,    \* names of the methods, as text
    UriTexts,   \* what the user gives for a uri; the empty text is not one
    MaxRuns,    \* bound: runs of the program
    MaxOptions  \* bound: options and prompted lines of a run

Blanks == {"nl", "sp"}
Letters == ToSet(Alphabet)

\* The order of std::string: at the first place where they differ k ends or is smaller.
Code(c) == CHOOSE i \in DOMAIN Alphabet : Alphabet[i] = c
Before(k, l) ==
    \E n \in 0 .. Len(l) - 1 :
        /\ n <= Len(k) /\ \A i \in 1 .. n : k[i] = l[i]
        /\ n < Len(k) => Code(k[n + 1]) < Code(l[n + 1])

ASSUME JestAssumption ==
    /\ Alphabet \in Seq(Letters) /\ "=" \in Letters /\ Letters \cap Blanks = {}
    /\ MethodKey \in Seq(Letters \ {"="}) /\ UriKey \in Seq(Letters \ {"="})
    /\ Before(MethodKey, UriKey)
    /\ Methods \subseteq Seq(Letters) /\ GetName \in Methods
    /\ UriTexts \subseteq Seq(Letters \cup Blanks) /\ <<>> \notin UriTexts
    /\ MaxRuns \in Nat /\ MaxOptions \in Nat

VARIABLES
    file,       \* ~/.jest/history
    pc,         \* where each process is in main
    jester,     \* its jester: method_, uri_, interactive_, and whether data_ and
                \* content_ hold anything
    values,     \* its config: values_
    runs, given,\* history: what the bounds count
    saved       \* history: method and uri of the run that last did a save()

vars == <<file, pc, jester, values, runs, given, saved>>

-----------------------------------------------------------------------------
(***************************************************************************)
(* The file: operator>>, operator<<, config_io and config.                 *)
(***************************************************************************)

\* operator>> takes a word; a word without '=' leaves the pair as it was.
WordStarts(text) ==
    {i \in DOMAIN text : text[i] \notin Blanks /\ (i = 1 \/ text[i - 1] \in Blanks)}
WordAt(text, i) ==
    SubSeq(text, i, Min({j \in i .. Len(text) : text[j] \in Blanks} \cup {Len(text) + 1}) - 1)
HasPair(word) == "=" \in ToSet(word)
PairOf(word) ==
    LET eq == Min({i \in DOMAIN word : word[i] = "="})
    IN  <<SubSeq(word, 1, eq - 1), SubSeq(word, eq + 1, Len(word))>>
Entries(text) == {i \in WordStarts(text) : HasPair(WordAt(text, i))}
KeyAt(text, i) == PairOf(WordAt(text, i))[1]
ValueAt(text, i) == PairOf(WordAt(text, i))[2]

\* Fault: an entry that is read again replaces the first.
ReadLast(text) ==
    [k \in {KeyAt(text, i) : i \in Entries(text)} |->
        ValueAt(text, Max({i \in Entries(text) : KeyAt(text, i) = k}))]

\* config_io::read, into an empty map: the first entry of a key stays.  (The pair is
\* empty until a word has an '='; a file that save() wrote begins with such a word.)
Read(text) ==
    [k \in {KeyAt(text, i) : i \in Entries(text)} |->
        ValueAt(text, Min({i \in Entries(text) : KeyAt(text, i) = k}))]

\* The keys of a std::map in their order.
InOrder(keys) ==
    CHOOSE s \in [1 .. Cardinality(keys) -> keys] :
        \A i, j \in DOMAIN s : i < j => Before(s[i], s[j])

\* operator<< with the delimiter; config_io::write: the text, and the file once it lies
\* over its beginning.
Line(key, value) == key \o <<"=">> \o value \o <<"nl">>
Written(map) ==
    LET keys == InOrder(DOMAIN map)
    IN  FlattenSeq([i \in DOMAIN keys |-> Line(keys[i], map[keys[i]])])
Over(text, old) == text \o SubSeq(old, Len(text) + 1, Len(old))

\* config::get makes an empty entry for a key that is not there; config::put replaces.
Get(map, key) == IF key \in DOMAIN map THEN map[key] ELSE <<>>
Put(map, key, value) == [k \in DOMAIN map \cup {key} |-> IF k = key THEN value ELSE map[k]]

-----------------------------------------------------------------------------
(***************************************************************************)
(* jester.                                                                 *)
(***************************************************************************)

Fresh == [method |-> GetName, uri |-> <<>>,
          data |-> FALSE, content |-> FALSE, interactive |-> FALSE]
Empty == [k \in {} |-> <<>>]

\* set_method: an unknown name changes nothing.
Method(j, name) == IF name \in Methods THEN [j EXCEPT !.method = name] ELSE j

\* Fault: set_content leaves the data of an earlier -d.
ContentBesideData(j, some) == [j EXCEPT !.content = some]

\* append_data and set_content: the one clears the other.
AppendData(j) == [j EXCEPT !.data = TRUE, !.content = FALSE]
WithContent(j, some) == [j EXCEPT !.content = some, !.data = FALSE]

Init ==
    /\ file = <<>>
    /\ pc = [p \in Procs |-> "off"]
    /\ jester = [p \in Procs |-> Fresh]
    /\ values = [p \in Procs |-> Empty]
    /\ runs = 0 /\ given = [p \in Procs |-> 0]
    /\ saved = [method |-> <<>>, uri |-> <<>>]

-----------------------------------------------------------------------------
(***************************************************************************)
(* main.                                                                   *)
(***************************************************************************)

Goto(p, where) == pc' = [pc EXCEPT ![p] = where]

\* The folder is there or is made; history.init, set_method and set_uri.  get() of the
\* missing keys puts empty entries into values_.
Start(p) ==
    /\ pc[p] = "off" /\ runs < MaxRuns
    /\ runs' = runs + 1
    /\ LET read == Read(file)
           got == Put(Put(read, MethodKey, Get(read, MethodKey)), UriKey, Get(read, UriKey))
       IN  /\ values' = [values EXCEPT ![p] = got]
           /\ jester' = [jester EXCEPT ![p] =
                            [Method(Fresh, got[MethodKey]) EXCEPT !.uri = got[UriKey]]]
    /\ given' = [given EXCEPT ![p] = 0]
    /\ Goto(p, "options")
    /\ UNCHANGED <<file, saved>>

\* mkdir fails.
StartFails(p) ==
    /\ pc[p] = "off" /\ runs < MaxRuns
    /\ runs' = runs + 1
    /\ UNCHANGED <<file, pc, jester, values, given, saved>>

\* One option, or one line at a prompt, that changes the jester.
Input(p, where, new) ==
    /\ pc[p] \in where /\ given[p] < MaxOptions
    /\ given' = [given EXCEPT ![p] = @ + 1]
    /\ jester' = [jester EXCEPT ![p] = new]
    /\ UNCHANGED <<file, pc, values, runs, saved>>

\* -u, -m, -d, -c, -i and -h of parse_options; data and headers also at their prompts.
\* What append_header collects is only sent (execute), and is left out.
OptionUri(p, text) == Input(p, {"options"}, [jester[p] EXCEPT !.uri = text])
OptionMethod(p, name) == Input(p, {"options"}, Method(jester[p], name))
GiveData(p) == Input(p, {"options", "data"}, AppendData(jester[p]))
OptionContent(p, some) == Input(p, {"options"}, WithContent(jester[p], some))
OptionInteractive(p) == Input(p, {"options"}, [jester[p] EXCEPT !.interactive = TRUE])
GiveHeader(p) == Input(p, {"options", "headers"}, jester[p])

\* main returns, or the exception that ends it is not caught.
Exit(p) == Goto(p, "off") /\ UNCHANGED <<file, jester, values, runs, given, saved>>

\* An unknown method or option, data or a header without its delimiter.
OptionFails(p) == pc[p] = "options" /\ Exit(p)

OptionsDone(p) ==
    /\ pc[p] = "options"
    /\ Goto(p, IF jester[p].interactive THEN "method" ELSE "validate")
    /\ UNCHANGED <<file, jester, values, runs, given, saved>>

\* interactive::get_method: an empty line keeps the method, an unknown name asks again.
GetMethod(p, name) ==
    /\ pc[p] = "method"
    /\ name = <<>> \/ name \in Methods
    /\ jester' = [jester EXCEPT ![p] = Method(@, name)]
    /\ Goto(p, "headers")
    /\ UNCHANGED <<file, values, runs, given, saved>>

\* get_headers and get_data: "~" ends them.  Any line that is no pair, and so the empty
\* one of every getline at the end of the input, asks again and changes nothing.
EndOfHeaders(p) ==
    /\ pc[p] = "headers"
    /\ Goto(p, "data")
    /\ UNCHANGED <<file, jester, values, runs, given, saved>>
EndOfData(p) ==
    /\ pc[p] = "data"
    /\ Goto(p, "validate")
    /\ UNCHANGED <<file, jester, values, runs, given, saved>>

\* validate: without uriparser every text but the empty one is a uri.
ValidateFails(p) ==
    /\ pc[p] = "validate" /\ jester[p].uri = <<>>
    /\ Exit(p)

\* put of method and uri, and save.
Save(p) ==
    /\ pc[p] = "validate" /\ jester[p].uri # <<>>
    /\ LET map == Put(Put(values[p], MethodKey, jester[p].method), UriKey, jester[p].uri)
       IN  /\ values' = [values EXCEPT ![p] = map]
           /\ file' = Over(Written(map), file)
    /\ saved' = [method |-> jester[p].method, uri |-> jester[p].uri]
    /\ Goto(p, "execute")
    /\ UNCHANGED <<jester, runs, given>>

\* execute: the request of a client of its own (HttpClient).  What is printed and the
\* exit status are not modelled.
Execute(p) == pc[p] = "execute" /\ Exit(p)

Next ==
    \/ \E p \in Procs : Start(p)
    \/ \E p \in Procs : StartFails(p)
    \/ \E p \in Procs, text \in UriTexts : OptionUri(p, text)
    \/ \E p \in Procs, name \in Methods : OptionMethod(p, name)
    \/ \E p \in Procs : GiveData(p)
    \/ \E p \in Procs, some \in BOOLEAN : OptionContent(p, some)
    \/ \E p \in Procs : OptionInteractive(p)
    \/ \E p \in Procs : GiveHeader(p)
    \/ \E p \in Procs : OptionFails(p)
    \/ \E p \in Procs : OptionsDone(p)
    \/ \E p \in Procs, name \in Methods \cup {<<>>} : GetMethod(p, name)
    \/ \E p \in Procs : EndOfHeaders(p)
    \/ \E p \in Procs : EndOfData(p)
    \/ \E p \in Procs : ValidateFails(p)
    \/ \E p \in Procs : Save(p)
    \/ \E p \in Procs : Execute(p)

Spec == Init /\ [][Next]_vars

-----------------------------------------------------------------------------
(***************************************************************************)
(* Properties.                                                             *)
(***************************************************************************)

Texts == Seq(Letters \cup Blanks)

\* The members have the types of jester.h and config.h, and a jester never holds data and
\* content at once, whatever the order of -d, -c and prompts: execute would silently
\* drop the content.
TypeOK ==
    /\ file \in Texts
    /\ pc \in [Procs -> {"off", "options", "method", "headers", "data", "validate", "execute"}]
    /\ jester \in [Procs -> [method : Methods, uri : Texts,
                              data : BOOLEAN, content : BOOLEAN, interactive : BOOLEAN]]
    /\ \A p \in Procs :
          /\ ~(jester[p].data /\ jester[p].content)
          /\ \A k \in DOMAIN values[p] : k \in Texts /\ values[p][k] \in Texts
    /\ runs \in 0 .. MaxRuns /\ given \in [Procs -> 0 .. MaxOptions]
    /\ saved \in [method : Texts, uri : Texts]

\* What a new run finds is what the last save() put there, however long the file was
\* before, whatever of it is left behind the new text, and whoever wrote it: the method,
\* and the uri as far as it has no blank.
SessionRestored ==
    saved.uri # <<>> =>
        /\ Get(Read(file), MethodKey) = saved.method
        /\ Get(Read(file), UriKey) = (IF saved.uri[1] \in Blanks THEN <<>> ELSE WordAt(saved.uri, 1))

=============================================================================
