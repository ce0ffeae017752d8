------------------------ MODULE BufferedSocketProofs ------------------------
(***************************************************************************)
(* Proofs about BufferedSocket, for every bound and every set of callbacks *)
(* in which listeners close or reconnect the socket.                       *)
(***************************************************************************)
EXTENDS BufferedSocket, SequenceTheorems, FiniteSetTheorems, TLAPS

\* What the stack operations of the actions do to a sequence of frames.
LEMMA StackTypes ==
    ASSUME NEW s \in Seq(Frames), s # <<>>
    PROVE  /\ Tail(s) \in Seq(Frames)
           /\ Head(s) = s[1] /\ Head(s) \in Frames
           /\ Len(Tail(s)) = Len(s) - 1
           /\ \A i \in 1 .. Len(Tail(s)) : Tail(s)[i] = s[i + 1]
OBVIOUS

\* Calls and returns keep the stack a sequence of frames.
LEMMA PushTypes ==
    ASSUME NEW s \in Seq(Frames), NEW f \in Frames
    PROVE  /\ <<f>> \o s \in Seq(Frames)
           /\ Len(<<f>> \o s) = Len(s) + 1
           /\ (<<f>> \o s)[1] = f
           /\ \A i \in 1 .. Len(s) : (<<f>> \o s)[i + 1] = s[i]
           /\ Head(<<f>> \o s) = f
           /\ Tail(<<f>> \o s) = s
OBVIOUS

\* Two frames pushed at once are pushed one after the other.
LEMMA TwoFrames ==
    ASSUME NEW s \in Seq(Frames), NEW f \in Frames, NEW g \in Frames
    PROVE  <<f, g>> \o s = <<f>> \o (<<g>> \o s)
<1>1. <<f>> \in Seq(Frames) /\ <<g>> \in Seq(Frames)
  OBVIOUS
<1>2. <<f>> \o <<g>> = <<f, g>>
  <2>1. /\ <<f>> \o <<g>> \in Seq(Frames) /\ Len(<<f>> \o <<g>>) = 2
        /\ (<<f>> \o <<g>>)[1] = f /\ (<<f>> \o <<g>>)[2] = g
    BY <1>1
  <2>2. /\ <<f, g>> \in Seq(Frames) /\ Len(<<f, g>>) = 2
        /\ <<f, g>>[1] = f /\ <<f, g>>[2] = g
    OBVIOUS
  <2>3. \A i \in 1 .. 2 : (<<f>> \o <<g>>)[i] = <<f, g>>[i]
    <3>1. \A i \in 1 .. 2 : i = 1 \/ i = 2
      OBVIOUS
    <3>2. QED
      BY <2>1, <2>2, <3>1, Zenon
  <2>4. QED
    BY <2>1, <2>2, <2>3, SeqEqual
<1>3. (<<f>> \o <<g>>) \o s = <<f>> \o (<<g>> \o s)
  BY <1>1, ConcatAssociative
<1>4. QED
  BY <1>2, <1>3

\* What send() takes leaves the wire a sequence of numbered bytes.
LEMMA WireTypes ==
    ASSUME TypeOK, NEW n \in 0 .. written - cleared
    PROVE  /\ Sent(n) \in Seq(Nat \X Nat)
           /\ Len(Sent(n)) = Len(wire) + n
           /\ \A i \in 1 .. Len(wire) : Sent(n)[i] = wire[i]
           /\ \A i \in 1 .. n : Sent(n)[Len(wire) + i] = <<conn, cleared + i>>
<1> DEFINE t == [i \in 1 .. n |-> <<conn, cleared + i>>]
<1>1. n \in Nat /\ conn \in Nat /\ cleared \in Nat
  BY DEF TypeOK
<1>2. t \in Seq(Nat \X Nat) /\ Len(t) = n
  <2>1. t \in [1 .. n -> Nat \X Nat]
    BY <1>1
  <2>2. QED
    BY <1>1, <2>1, SeqDef
<1>3. \A i \in 1 .. n : t[i] = <<conn, cleared + i>>
  OBVIOUS
<1>4. wire \in Seq(Nat \X Nat) /\ Sent(n) = wire \o t
  BY DEF TypeOK, Sent
<1> HIDE DEF t
<1>5. /\ wire \o t \in Seq(Nat \X Nat)
      /\ Len(wire \o t) = Len(wire) + n
      /\ \A i \in 1 .. Len(wire) + n :
           (wire \o t)[i] = IF i <= Len(wire) THEN wire[i] ELSE t[i - Len(wire)]
  BY <1>2, <1>4, ConcatProperties
<1>6. Len(wire) \in Nat
  BY <1>4
<1>7. \A i \in 1 .. Len(wire) : (wire \o t)[i] = wire[i]
  BY <1>1, <1>5, <1>6
<1>8. ASSUME NEW i \in 1 .. n
      PROVE  (wire \o t)[Len(wire) + i] = <<conn, cleared + i>>
  <2>1. Len(wire) + i \in 1 .. Len(wire) + n /\ ~(Len(wire) + i <= Len(wire))
        /\ (Len(wire) + i) - Len(wire) = i
    BY <1>1, <1>6
  <2>2. QED
    BY <1>3, <1>5, <2>1
<1>9. QED
  BY <1>4, <1>5, <1>7, <1>8

\* The stack after a step of any action is a stack.
LEMMA StackStep ==
    ASSUME TypeOK, [Next]_vars
    PROVE  stack' \in Seq(Frames)
<1>1. stack \in Seq(Frames) /\ <<>> \in Seq(Frames)
  BY DEF TypeOK
<1>2. stack # <<>> => Tail(stack) \in Seq(Frames)
  BY <1>1
<1>3. \A s \in Seq(Frames), t \in Seq(Frames) : s \o t \in Seq(Frames)
  BY ConcatProperties
<1>4. /\ \A f \in Frames : <<f>> \in Seq(Frames)
      /\ \A f, g \in Frames : <<f, g>> \in Seq(Frames)
  OBVIOUS
<1>5. /\ "on_close" \in Frames /\ "close.flush" \in Frames /\ "close.socket" \in Frames
      /\ "on_will_write" \in Frames /\ "write.send" \in Frames
      /\ "on_did_write" \in Frames /\ "on_connect" \in Frames
      /\ "connect.open" \in Frames /\ "on_will_read" \in Frames
      /\ "read.first" \in Frames /\ "read.more" \in Frames /\ "on_did_read" \in Frames
  BY DEF Frames, Callbacks, Resume
<1>6. WriteFrames \in Seq(Frames) /\ CloseFrames \in Seq(Frames)
  BY <1>1, <1>4, <1>5 DEF WriteFrames, CloseFrames
<1>7. CASE UNCHANGED stack
  BY <1>1, <1>7
<1>8. CASE stack # <<>> /\ stack' = Tail(stack)
  BY <1>2, <1>8
<1>9. ASSUME NEW f \in {"on_did_write", "on_connect", "read.more", "on_did_read"},
             stack # <<>>, stack' = <<f>> \o Tail(stack)
      PROVE  stack' \in Seq(Frames)
  BY <1>2, <1>3, <1>4, <1>5, <1>9
<1>10. CASE CloseFlush
  BY <1>2, <1>3, <1>4, <1>5, <1>6, <1>10 DEF CloseFlush, Top
<1>11. CASE Close
  BY <1>1, <1>3, <1>6, <1>11, Zenon DEF Close
<1>12. CASE Connect
  <2> DEFINE a == IF valid THEN CloseFrames ELSE <<>>
  <2>1. a \in Seq(Frames) /\ <<"connect.open">> \in Seq(Frames)
    BY <1>1, <1>4, <1>5, <1>6
  <2>2. stack' = a \o <<"connect.open">> \o stack
    BY <1>12 DEF Connect
  <2> HIDE DEF a
  <2>3. QED
    BY <1>1, <1>3, <2>1, <2>2, Zenon
<1>18. CASE WriteFromBuffer
  BY <1>1, <1>3, <1>6, <1>18, Zenon DEF WriteFromBuffer
<1>19. CASE NotifyConnect
  BY <1>1, <1>3, <1>4, <1>5, <1>19, Zenon DEF NotifyConnect
<1>20. CASE ReadToBuffer
  BY <1>1, <1>3, <1>4, <1>5, <1>20, Zenon DEF ReadToBuffer
<1>13. CASE SendAll \/ SendShort \/ SendInvalid
  BY <1>8, <1>9, <1>13 DEF SendAll, SendShort, SendInvalid, Top
<1>14. CASE CloseSocket \/ ConnectOpen \/ ConnectThrows \/ ConnectFail \/ Return
  BY <1>8, <1>9, <1>14 DEF CloseSocket, ConnectOpen, ConnectThrows, ConnectFail, Return, Top
<1>15. CASE ReadFirst \/ ReadNothing \/ ReadMore \/ ReadDone \/ ReadError
  BY <1>7, <1>8, <1>9, <1>15
     DEF ReadFirst, ReadNothing, ReadMore, ReadDone, ReadError, Top
<1>16. CASE UNCHANGED vars \/ Write \/ Destroy \/ SetNonBlocking \/ Peer
  BY <1>7, <1>16 DEF vars, Write, Destroy, SetNonBlocking, Peer, PeerSend, PeerClose
<1>17. QED
  BY <1>10, <1>11, <1>12, <1>13, <1>14, <1>15, <1>16, <1>18, <1>19, <1>20
     DEF Next, Library, Program

\* Every step keeps the types.
LEMMA TypeStep ==
    ASSUME TypeOK, [Next]_vars
    PROVE  TypeOK'
<1>1. stack' \in Seq(Frames)
  BY StackStep
<1> USE DEF TypeOK, connVars, outVars, inVars
<1>2. CASE UNCHANGED vars
  BY <1>2 DEF vars
<1>3. CASE Write
  BY <1>3 DEF Write
<1>4. CASE SendAll
  <2>1. wire' \in Seq(Nat \X Nat)
    BY <1>4, WireTypes DEF SendAll
  <2>2. QED
    BY <1>1, <1>4, <2>1 DEF SendAll
<1>5. CASE SendShort
  <2>1. wire' \in Seq(Nat \X Nat)
    BY <1>5, WireTypes DEF SendShort
  <2>2. QED
    BY <1>1, <1>5, <2>1 DEF SendShort
<1>6. CASE SendInvalid \/ CloseFlush \/ ConnectFail \/ Return \/ ReadNothing
           \/ WriteFromBuffer
  BY <1>1, <1>6 DEF SendInvalid, CloseFlush, ConnectFail, Return, ReadNothing, WriteFromBuffer
<1>14. CASE NotifyConnect \/ ReadToBuffer
  <2>1. nested' \in Nat
    BY <1>14 DEF NotifyConnect, ReadToBuffer, Counted
  <2>2. UNCHANGED <<connVars, outVars, inVars>>
    BY <1>14 DEF NotifyConnect, ReadToBuffer
  <2>3. QED
    BY <1>1, <2>1, <2>2
<1>7. CASE Close \/ Connect
  <2>1. closes' \in Nat
    BY <1>7 DEF Close, Connect, Announced
  <2>2. UNCHANGED <<valid, destroyed, conn, reopened, nonBlocking, outVars, inVars, nested>>
    BY <1>7 DEF Close, Connect
  <2>3. QED
    BY <1>1, <2>1, <2>2
<1>8. CASE CloseSocket \/ Destroy \/ SetNonBlocking
  BY <1>1, <1>8 DEF CloseSocket, Destroy, SetNonBlocking
<1>9. CASE ConnectOpen \/ ConnectThrows
  <2>1. valid' \in BOOLEAN /\ eof' \in BOOLEAN /\ reopened' \in BOOLEAN
    BY <1>9, Zenon DEF ConnectOpen, ConnectThrows, Opened
  <2>5. conn' = conn + 1 /\ closes' = 0 /\ pending' = 0
    BY <1>9, Zenon DEF ConnectOpen, ConnectThrows, Opened
  <2>2. conn' \in Nat /\ closes' \in Nat /\ pending' \in Nat
    BY <2>5
  <2>3. UNCHANGED <<destroyed, nonBlocking, outVars, arrived, read, noticed, failed, nested>>
    BY <1>9 DEF ConnectOpen, ConnectThrows, Opened
  <2>4. QED
    BY <1>1, <2>1, <2>2, <2>3
<1>10. CASE Peer
  <2>1. eof' \in BOOLEAN
    BY <1>10 DEF Peer, PeerSend, PeerClose
  <2>2. pending' \in Nat /\ arrived' \in Nat
    BY <1>10 DEF Peer, PeerSend, PeerClose
  <2>3. UNCHANGED <<connVars, outVars, read, noticed, failed, nested, stack>>
    BY <1>10 DEF Peer, PeerSend, PeerClose
  <2>4. QED
    BY <2>1, <2>2, <2>3
<1>11. CASE ReadFirst \/ ReadMore
  <2>4. Chunk
    BY <1>11 DEF ReadFirst, ReadMore
  <2>1. read' \in Nat /\ pending' \in Nat
    BY <2>4, BoundsAssumption DEF Chunk
  <2>2. UNCHANGED <<connVars, outVars, eof, arrived, noticed, failed, nested>>
    BY <1>11 DEF ReadFirst, ReadMore
  <2>3. QED
    BY <1>1, <2>1, <2>2
<1>12. CASE ReadDone \/ ReadError
  BY <1>1, <1>12 DEF ReadDone, ReadError
<1>13. QED
  BY <1>2, <1>3, <1>4, <1>5, <1>6, <1>7, <1>8, <1>9, <1>10, <1>11, <1>12, <1>14
     DEF Next, Library, Program

\* Whatever listeners do in their callbacks, the buffers' counters, the wire and
\* the call stack keep their types; outBuffer_ never has a negative length.
THEOREM TypeCorrect == Spec => []TypeOK
<1>1. ASSUME Init PROVE TypeOK
  <2>1. valid \in BOOLEAN /\ destroyed \in BOOLEAN /\ eof \in BOOLEAN /\ failed \in BOOLEAN
    BY <1>1, Zenon DEF Init
  <2>5. reopened \in BOOLEAN /\ nonBlocking \in BOOLEAN /\ nested \in Nat
    BY <1>1 DEF Init
  <2>2. conn \in Nat
    BY <1>1 DEF Init
  <2>3. wire \in Seq(Nat \X Nat) /\ stack \in Seq(Frames)
    BY <1>1 DEF Init
  <2>4. QED
    BY <1>1, <2>1, <2>2, <2>3, <2>5 DEF Init, TypeOK
<1>2. TypeOK /\ [Next]_vars => TypeOK'
  BY TypeStep
<1>3. QED
  BY <1>1, <1>2, PTL DEF Spec

-----------------------------------------------------------------------------
(***************************************************************************)
(* The output stream.                                                      *)
(***************************************************************************)

\* Only a send changes the wire or the counters of the output buffer downwards.
LEMMA OutputStep ==
    ASSUME [Next]_vars
    PROVE  \/ SendAll \/ SendShort
           \/ UNCHANGED <<wire, cleared, short>>
BY DEF Next, Library, Program, Peer, vars, outVars, Write, WriteFromBuffer, SendInvalid,
       Close, CloseFlush, CloseSocket, Destroy, SetNonBlocking, Connect, ConnectOpen,
       ConnectThrows, Opened, ConnectFail, NotifyConnect, PeerSend, PeerClose, ReadToBuffer, ReadFirst, ReadNothing,
       ReadMore, ReadDone, ReadError, Return

\* A send of the first n bytes of the buffer keeps the order of the stream.
LEMMA SentInOrder ==
    ASSUME TypeOK, NoByteSkipped, ClearedWasSent,
           NEW n \in 0 .. written - cleared, wire' = Sent(n),
           cleared' \in {cleared, cleared + n}
    PROVE  NoByteSkipped' /\ ClearedWasSent'
<1> DEFINE w == Sent(n)
<1>1. /\ n \in Nat /\ cleared \in Nat /\ conn \in Nat /\ Len(wire) \in Nat
      /\ cleared' \in Nat
  BY DEF TypeOK
<1>2. /\ Len(w) = Len(wire) + n
      /\ \A i \in 1 .. Len(wire) : w[i] = wire[i]
      /\ \A i \in 1 .. n : w[Len(wire) + i] = <<conn, cleared + i>>
  BY WireTypes
<1> HIDE DEF w
<1>3. \A i \in 1 .. n : w[Len(wire) + i][2] = cleared + i
  BY <1>2
<1>4. ASSUME NEW i \in 1 .. Len(w), w[i][2] > 1
      PROVE  \E j \in 1 .. i - 1 : w[j][2] = w[i][2] - 1
  <2>1. CASE i <= Len(wire)
    <3>1. i \in 1 .. Len(wire) /\ wire[i][2] > 1 /\ wire[i] = w[i]
      BY <1>1, <1>2, <1>4, <2>1
    <3>2. PICK j \in 1 .. i - 1 : wire[j][2] = wire[i][2] - 1
      BY <3>1 DEF NoByteSkipped
    <3>3. j \in 1 .. Len(wire)
      BY <1>1, <3>1, <3>2
    <3>4. QED
      BY <1>2, <3>1, <3>2, <3>3
  <2>2. CASE i > Len(wire)
    <3> DEFINE k == i - Len(wire)
    <3>1. k \in 1 .. n /\ i = Len(wire) + k
      BY <1>1, <1>2, <2>2
    <3>2. w[i][2] = cleared + k
      BY <1>3, <3>1
    <3> HIDE DEF k
    <3>3. CASE k > 1
      <4>1. k - 1 \in 1 .. n /\ Len(wire) + (k - 1) = i - 1 /\ i - 1 \in 1 .. i - 1
        BY <1>1, <3>1, <3>3
      <4>2. w[i - 1][2] = cleared + (k - 1)
        BY <1>3, <4>1
      <4>3. QED
        BY <1>1, <3>1, <3>2, <4>1, <4>2
    <3>4. CASE k = 1
      <4>1. cleared \in 1 .. cleared /\ w[i][2] - 1 = cleared
        BY <1>1, <1>4, <3>2, <3>4
      <4>2. PICK j \in 1 .. Len(wire) : wire[j][2] = cleared
        BY <4>1 DEF ClearedWasSent
      <4>3. j \in 1 .. i - 1 /\ w[j] = wire[j]
        BY <1>1, <1>2, <2>2, <4>2
      <4>4. QED
        BY <4>1, <4>2, <4>3
    <3>5. QED
      BY <3>1, <3>3, <3>4
  <2>3. QED
    BY <1>1, <2>1, <2>2, <1>2
<1>5. ASSUME NEW b \in 1 .. cleared'
      PROVE  \E i \in 1 .. Len(w) : w[i][2] = b
  <2>1. CASE b <= cleared
    <3>1. PICK i \in 1 .. Len(wire) : wire[i][2] = b
      BY <1>1, <2>1 DEF ClearedWasSent
    <3>2. QED
      BY <1>1, <1>2, <3>1
  <2>2. CASE b > cleared
    <3>1. b - cleared \in 1 .. n
      BY <1>1, <2>2
    <3>2. w[Len(wire) + (b - cleared)][2] = cleared + (b - cleared)
      BY <1>3, <3>1
    <3>3. cleared + (b - cleared) = b /\ Len(wire) + (b - cleared) \in 1 .. Len(w)
      BY <1>1, <1>2, <3>1
    <3>4. QED
      BY <3>2, <3>3
  <2>3. QED
    BY <1>1, <2>1, <2>2
<1>6. wire' = w
  BY DEF w
<1>7. QED
  BY <1>4, <1>5, <1>6 DEF NoByteSkipped, ClearedWasSent

\* Every step keeps the order of the bytes and loses none.
LEMMA OrderStep ==
    ASSUME TypeOK, NoByteSkipped, ClearedWasSent, [Next]_vars
    PROVE  NoByteSkipped' /\ ClearedWasSent'
<1>1. written - cleared \in 0 .. written - cleared
      /\ cleared + (written - cleared) = written
      /\ \A n \in 0 .. written - cleared - 1 : n \in 0 .. written - cleared
  BY DEF TypeOK
<1>2. CASE SendAll
  BY <1>1, <1>2, SentInOrder DEF SendAll
<1>3. CASE SendShort
  BY <1>1, <1>3, SentInOrder DEF SendShort
<1>4. CASE UNCHANGED <<wire, cleared, short>>
  BY <1>4 DEF NoByteSkipped, ClearedWasSent
<1>5. QED
  BY <1>2, <1>3, <1>4, OutputStep

\* The order of the bytes and their completeness hold in every reachable state.
LEMMA Order == Spec => [](NoByteSkipped /\ ClearedWasSent)
<1>1. Init => NoByteSkipped /\ ClearedWasSent
  BY DEF Init, NoByteSkipped, ClearedWasSent
<1>2. TypeOK /\ NoByteSkipped /\ ClearedWasSent /\ [Next]_vars
      => NoByteSkipped' /\ ClearedWasSent'
  BY OrderStep
<1>3. QED
  BY <1>1, <1>2, TypeCorrect, PTL DEF Spec

\* For any number of bytes, short sends, connections and nested callbacks, no
\* byte reaches the kernel before the byte written before it.
THEOREM StreamOrder == Spec => []NoByteSkipped
BY Order, PTL

\* Likewise, no byte is dropped from outBuffer_ that the kernel has not taken.
THEOREM NothingLost == Spec => []ClearedWasSent
BY Order, PTL

\* The send of a whole buffer that continues an intact stream.
LEMMA ExactStep ==
    ASSUME TypeOK, ExactlyOnceUnlessShort, [Next]_vars
    PROVE  ExactlyOnceUnlessShort'
<1>1. CASE SendAll
  <2>1. SUFFICES ASSUME short = 0
                 PROVE  Len(wire') = cleared' /\ \A i \in 1 .. cleared' : wire'[i][2] = i
    BY <1>1 DEF SendAll, ExactlyOnceUnlessShort
  <2> DEFINE n == written - cleared
             w == Sent(n)
  <2>2. n \in Nat /\ n \in 0 .. written - cleared /\ cleared \in Nat /\ conn \in Nat
        /\ written = cleared + n
    BY DEF TypeOK
  <2>3. Len(wire) = cleared /\ \A i \in 1 .. cleared : wire[i][2] = i
    BY <2>1 DEF ExactlyOnceUnlessShort
  <2>4. wire' = w /\ cleared' = cleared + n
    BY <1>1, <2>2 DEF SendAll
  <2>5. /\ Len(w) = Len(wire) + n
        /\ \A i \in 1 .. Len(wire) : w[i] = wire[i]
        /\ \A i \in 1 .. n : w[Len(wire) + i] = <<conn, cleared + i>>
    BY <2>2, WireTypes
  <2> HIDE DEF w, n
  <2>6. ASSUME NEW i \in 1 .. cleared + n PROVE w[i][2] = i
    <3>1. CASE i <= cleared
      BY <2>2, <2>3, <2>5, <3>1
    <3>2. CASE i > cleared
      <4>1. i - cleared \in 1 .. n /\ cleared + (i - cleared) = i
        BY <2>2, <3>2
      <4>2. w[cleared + (i - cleared)] = <<conn, cleared + (i - cleared)>>
        BY <2>3, <2>5, <4>1
      <4>3. QED
        BY <4>1, <4>2
    <3>3. QED
      BY <2>2, <3>1, <3>2
  <2>7. QED
    BY <2>3, <2>4, <2>5, <2>6
<1>2. CASE SendShort
  BY <1>2 DEF SendShort, ExactlyOnceUnlessShort, TypeOK
<1>3. CASE UNCHANGED <<wire, cleared, short>>
  BY <1>3 DEF ExactlyOnceUnlessShort
<1>4. QED
  BY <1>1, <1>2, <1>3, OutputStep

\* For any number of bytes and connections: without a short send the kernel gets
\* every byte once, whatever listeners write and close in their callbacks.
THEOREM ExactlyOnce == Spec => []ExactlyOnceUnlessShort
<1>1. Init => ExactlyOnceUnlessShort
  BY DEF Init, ExactlyOnceUnlessShort
<1>2. TypeOK /\ ExactlyOnceUnlessShort /\ [Next]_vars => ExactlyOnceUnlessShort'
  BY ExactStep
<1>3. QED
  BY <1>1, <1>2, TypeCorrect, PTL DEF Spec

-----------------------------------------------------------------------------
(***************************************************************************)
(* The call stack.  A close() that is under way was announced for the      *)
(* current connection, unless that connection was opened inside a close(); *)
(* a read loop calls nobody before it is over.                             *)
(***************************************************************************)
CloseResume == {"close.flush", "close.socket"}

StackInvOf(s, told) ==
    /\ \A i \in 1 .. Len(s) : s[i] \in CloseResume => told
    /\ \A i \in 2 .. Len(s) : s[i] # "read.more"

Told == closes > 0 \/ reopened
StackInv == StackInvOf(stack, Told)

\* A return keeps the shape of the call stack.
LEMMA PopInv ==
    ASSUME NEW s \in Seq(Frames), s # <<>>, NEW c \in BOOLEAN, StackInvOf(s, c)
    PROVE  StackInvOf(Tail(s), c) /\ (Tail(s) # <<>> => Tail(s)[1] # "read.more")
BY StackTypes DEF StackInvOf

\* A call keeps the shape of the call stack.
LEMMA PushInv ==
    ASSUME NEW s \in Seq(Frames), NEW c \in BOOLEAN, StackInvOf(s, c), NEW f \in Frames,
           s # <<>> => s[1] # "read.more",
           f \in CloseResume => c
    PROVE  StackInvOf(<<f>> \o s, c)
<1> DEFINE t == <<f>> \o s
<1>1. /\ t \in Seq(Frames) /\ Len(t) = Len(s) + 1 /\ t[1] = f
      /\ \A i \in 1 .. Len(s) : t[i + 1] = s[i]
  BY PushTypes
<1>2. Len(s) \in Nat /\ (s = <<>> <=> Len(s) = 0)
  OBVIOUS
<1> HIDE DEF t
<1>3. ASSUME NEW i \in 2 .. Len(t) PROVE i - 1 \in 1 .. Len(s) /\ t[i] = s[i - 1]
  <2>1. i - 1 \in 1 .. Len(s) /\ (i - 1) + 1 = i
    BY <1>1, <1>2
  <2>2. QED
    BY <1>1, <2>1
<1>4. ASSUME NEW i \in 1 .. Len(t) PROVE i = 1 \/ i \in 2 .. Len(t)
  BY <1>1, <1>2
<1>5. \A i \in 1 .. Len(t) : t[i] \in CloseResume => c
  BY <1>1, <1>3, <1>4 DEF StackInvOf
<1>7. ASSUME NEW i \in 2 .. Len(t) PROVE t[i] # "read.more"
  <2>1. CASE i = 2
    <3>1. s # <<>> /\ t[i] = s[1]
      BY <1>2, <1>3, <2>1
    <3>2. QED
      BY <3>1
  <2>2. CASE i # 2
    <3>1. i - 1 \in 2 .. Len(s)
      BY <1>1, <1>2, <2>2
    <3>2. QED
      BY <1>3, <3>1 DEF StackInvOf
  <2>3. QED
    BY <2>1, <2>2
<1>8. QED
  BY <1>5, <1>7 DEF StackInvOf, t

\* Two frames pushed on top, a callback and the frame it returns to.
LEMMA PushTwoInv ==
    ASSUME NEW s \in Seq(Frames), NEW c \in BOOLEAN, StackInvOf(s, c),
           s # <<>> => s[1] # "read.more",
           NEW g \in Frames, g # "read.more", g \in CloseResume => c,
           NEW f \in Callbacks
    PROVE  StackInvOf(<<f, g>> \o s, c) /\ <<f, g>> \o s \in Seq(Frames)
<1>1. StackInvOf(<<g>> \o s, c) /\ <<g>> \o s \in Seq(Frames)
      /\ (<<g>> \o s)[1] = g
  BY PushInv, PushTypes
<1>2. f \in Frames /\ f \notin CloseResume
  BY DEF Frames, Callbacks, CloseResume
<1>3. StackInvOf(<<f>> \o (<<g>> \o s), c) /\ <<f>> \o (<<g>> \o s) \in Seq(Frames)
  BY <1>1, <1>2, PushInv, PushTypes
<1>4. <<f, g>> \o s = <<f>> \o (<<g>> \o s)
  BY <1>2, TwoFrames
<1>5. QED
  BY <1>3, <1>4

\* Every step keeps the shape of the call stack.
LEMMA StackInvStep ==
    ASSUME TypeOK, StackInv, [Next]_vars
    PROVE  StackInv'
<1>1. /\ stack \in Seq(Frames) /\ Told \in BOOLEAN /\ StackInvOf(stack, Told)
      /\ <<>> \in Seq(Frames) /\ closes \in Nat /\ reopened \in BOOLEAN
  BY DEF TypeOK, StackInv, Told
<1> DEFINE tl == Tail(stack)
<1>2. ASSUME stack # <<>>
      PROVE  /\ tl \in Seq(Frames) /\ StackInvOf(tl, Told)
             /\ tl # <<>> => tl[1] # "read.more"
  BY <1>1, <1>2, PopInv
<1> HIDE DEF tl
<1>3. /\ "on_close" \in Frames /\ "close.flush" \in Frames /\ "close.socket" \in Frames
      /\ "on_will_write" \in Frames /\ "write.send" \in Frames
      /\ "on_did_write" \in Frames /\ "on_connect" \in Frames
      /\ "connect.open" \in Frames /\ "on_will_read" \in Frames
      /\ "read.first" \in Frames /\ "read.more" \in Frames /\ "on_did_read" \in Frames
  BY DEF Frames, Callbacks, Resume
<1>4. CASE UNCHANGED <<closes, reopened>> /\ StackInvOf(stack', Told)
  BY <1>4 DEF StackInv, Told
<1>5. CASE UNCHANGED <<stack, closes, reopened>>
  BY <1>1, <1>4, <1>5
<1>6. CASE stack # <<>> /\ stack' = tl /\ UNCHANGED <<closes, reopened>>
  BY <1>2, <1>4, <1>6
<1>7. ASSUME stack # <<>>, NEW f \in {"on_did_write", "read.more", "on_did_read"},
             stack' = <<f>> \o tl, UNCHANGED <<closes, reopened>>
      PROVE  StackInv'
  <2>1. f \in Frames /\ f \notin CloseResume
    BY <1>3, <1>7 DEF CloseResume
  <2>2. StackInvOf(<<f>> \o tl, Told)
    BY <1>1, <1>2, <1>7, <2>1, PushInv
  <2>3. QED
    BY <1>4, <1>7, <2>2
<1>8. CASE SendAll \/ SendShort \/ SendInvalid \/ CloseSocket \/ ConnectFail \/ Return
  BY <1>6, <1>7, <1>8 DEF SendAll, SendShort, SendInvalid, CloseSocket, ConnectFail,
                          Return, Top, connVars, tl
<1>9. CASE ReadFirst \/ ReadNothing \/ ReadMore \/ ReadDone \/ ReadError
  BY <1>5, <1>6, <1>7, <1>9 DEF ReadFirst, ReadNothing, ReadMore, ReadDone, ReadError,
                                Top, connVars, tl
<1>10. CASE UNCHANGED vars \/ Write \/ Destroy \/ SetNonBlocking \/ Peer
  BY <1>5, <1>10 DEF vars, connVars, Write, Destroy, SetNonBlocking, Peer, PeerSend, PeerClose
<1>11. CASE ConnectOpen \/ ConnectThrows
  <2>1. /\ stack # <<>> /\ stack' \in {tl, <<"on_connect">> \o tl}
        /\ closes' = 0
        /\ reopened' = \E i \in 2 .. Len(stack) : stack[i] \in CloseResume
    BY <1>11, Zenon DEF ConnectOpen, ConnectThrows, Opened, Top, tl, CloseResume
  <2>2. Told' = (\E i \in 2 .. Len(stack) : stack[i] \in CloseResume) /\ Told' \in BOOLEAN
    <3>1. ~(0 > 0) /\ (\E i \in 2 .. Len(stack) : stack[i] \in CloseResume) \in BOOLEAN
      OBVIOUS
    <3>2. QED
      BY <2>1, <3>1, Zenon DEF Told
  <2>3. StackInvOf(tl, Told')
    <3>1. \A i \in 1 .. Len(tl) : tl[i] = stack[i + 1] /\ i + 1 \in 2 .. Len(stack)
      BY <1>1, <2>1, StackTypes DEF tl
    <3>2. \A i \in 1 .. Len(tl) : tl[i] \in CloseResume => Told'
      BY <2>2, <3>1, Zenon
    <3>3. \A i \in 2 .. Len(tl) : tl[i] # "read.more"
      BY <1>2, <2>1 DEF StackInvOf
    <3>4. QED
      BY <3>2, <3>3 DEF StackInvOf
  <2>4. StackInvOf(<<"on_connect">> \o tl, Told')
    <3>1. "on_connect" \notin CloseResume
      BY DEF CloseResume
    <3>2. QED
      BY <1>2, <1>3, <2>1, <2>2, <2>3, <3>1, PushInv
  <2>5. QED
    BY <2>1, <2>3, <2>4 DEF StackInv
<1>12. CASE CloseFlush
  <2>1. stack # <<>> /\ Head(stack) = "close.flush" /\ UNCHANGED <<closes, reopened>> /\ Told
    BY <1>1, <1>12 DEF CloseFlush, Top, connVars, StackInvOf, CloseResume
  <2> DEFINE s == <<"close.socket">> \o tl
  <2>2. s \in Seq(Frames) /\ s[1] = "close.socket" /\ StackInvOf(s, Told)
    BY <1>1, <1>2, <1>3, <2>1, PushInv, PushTypes
  <2>3. stack' = WriteFrames \o <<"close.socket">> \o tl
    BY <1>12 DEF CloseFlush, tl
  <2> HIDE DEF s
  <2>4. WriteFrames \in Seq(Frames) /\ <<"close.socket">> \in Seq(Frames)
    BY <1>3 DEF WriteFrames
  <2>5. stack' = WriteFrames \o s
    BY <1>2, <2>1, <2>3, <2>4, ConcatAssociative DEF s
  <2>6. CASE WriteFrames = <<>>
    BY <1>4, <2>1, <2>2, <2>5, <2>6, ConcatEmptySeq
  <2>7. CASE WriteFrames = <<"on_will_write", "write.send">>
    <3>1. "on_will_write" \in Callbacks /\ "write.send" \notin CloseResume
      BY DEF Callbacks, CloseResume
    <3>2. StackInvOf(<<"on_will_write", "write.send">> \o s, Told)
      BY <1>1, <1>3, <2>2, <3>1, PushTwoInv
    <3>3. QED
      BY <1>4, <2>1, <2>5, <2>7, <3>2
  <2>8. QED
    BY <2>6, <2>7 DEF WriteFrames
<1>13. ASSUME ProgramIn(Callbacks) PROVE stack # <<>> => stack[1] # "read.more"
  BY <1>1, <1>13 DEF ProgramIn, Callbacks

\* close() announces the close, so that its frame may wait on the stack.
<1>14. ASSUME NEW s \in Seq(Frames), StackInvOf(s, Told), s # <<>> => s[1] # "read.more",
              closes' = closes + 1, reopened' = reopened,
              stack' = <<"on_close", "close.flush">> \o s
       PROVE  StackInv'
  <2>1. Told' = TRUE /\ "on_close" \in Callbacks
    BY <1>1, <1>14 DEF Told, Callbacks
  <2>2. StackInvOf(s, TRUE)
    BY <1>14 DEF StackInvOf
  <2>3. StackInvOf(<<"on_close", "close.flush">> \o s, TRUE)
    BY <1>3, <1>14, <2>1, <2>2, PushTwoInv
  <2>4. QED
    BY <1>14, <2>1, <2>3 DEF StackInv
<1>15. CASE Close
  <2>1. /\ closes' = closes + 1 /\ reopened' = reopened
        /\ stack' = <<"on_close", "close.flush">> \o stack
    BY <1>15 DEF Close, CloseFrames, Announced
  <2>2. stack # <<>> => stack[1] # "read.more"
    BY <1>13, <1>15, ProgramAssumption DEF Close, ProgramIn
  <2>3. QED
    BY <1>1, <1>14, <2>1, <2>2
<1>16. CASE Connect
  <2> DEFINE s == <<"connect.open">> \o stack
             a == IF valid THEN CloseFrames ELSE <<>>
  <2>1. stack # <<>> => stack[1] # "read.more"
    BY <1>13, <1>16, ProgramAssumption DEF Connect, ProgramIn
  <2>2. s \in Seq(Frames) /\ s[1] # "read.more" /\ StackInvOf(s, Told)
    <3>1. "connect.open" \notin CloseResume
      BY DEF CloseResume
    <3>2. QED
      BY <1>1, <1>3, <2>1, <3>1, PushInv, PushTypes
  <2>3. stack' = a \o s
    <3>1. stack' = a \o <<"connect.open">> \o stack
      BY <1>16 DEF Connect
    <3>2. a \in Seq(Frames) /\ <<"connect.open">> \in Seq(Frames)
      BY <1>3 DEF CloseFrames
    <3> HIDE DEF a
    <3>3. QED
      BY <1>1, <3>1, <3>2, ConcatAssociative
  <2> HIDE DEF s
  <2>4. CASE valid
    <3>1. /\ closes' = closes + 1 /\ reopened' = reopened
          /\ stack' = <<"on_close", "close.flush">> \o s
      BY <1>16, <2>3, <2>4 DEF Connect, CloseFrames, Announced
    <3>2. QED
      BY <1>14, <2>2, <3>1
  <2>5. CASE ~valid
    <3>1. UNCHANGED <<closes, reopened>> /\ stack' = <<>> \o s
      BY <1>16, <2>3, <2>5 DEF Connect
    <3>2. <<>> \o s = s
      BY <2>2, ConcatEmptySeq
    <3>3. QED
      BY <1>4, <2>2, <3>1, <3>2
  <2>6. QED
    BY <2>4, <2>5
<1>17. CASE WriteFromBuffer \/ NotifyConnect \/ ReadToBuffer
  <2>1. UNCHANGED <<closes, reopened>> /\ ProgramIn(Callbacks)
    BY <1>17 DEF WriteFromBuffer, NotifyConnect, ReadToBuffer, connVars
  <2>2. stack' \in {<<>> \o stack, <<"on_will_write", "write.send">> \o stack,
                    <<"on_connect">> \o stack, <<"on_will_read", "read.first">> \o stack}
    BY <1>17 DEF WriteFromBuffer, NotifyConnect, ReadToBuffer, WriteFrames
  <2>3. /\ {"on_will_write", "on_will_read"} \subseteq Callbacks
        /\ "write.send" \notin CloseResume /\ "read.first" \notin CloseResume
        /\ "on_connect" \notin CloseResume
    BY DEF Callbacks, CloseResume
  <2>4. stack # <<>> => stack[1] # "read.more"
    BY <1>13, <2>1
  <2>5. <<>> \o stack = stack
    BY <1>1, ConcatEmptySeq
  <2>6. StackInvOf(<<"on_connect">> \o stack, Told)
    BY <1>1, <1>3, <2>3, <2>4, PushInv
  <2>7. StackInvOf(<<"on_will_write", "write.send">> \o stack, Told)
    BY <1>1, <1>3, <2>3, <2>4, PushTwoInv
  <2>8. StackInvOf(<<"on_will_read", "read.first">> \o stack, Told)
    BY <1>1, <1>3, <2>3, <2>4, PushTwoInv
  <2>9. QED
    BY <1>1, <1>4, <2>1, <2>2, <2>5, <2>6, <2>7, <2>8
<1>18. QED
  BY <1>8, <1>9, <1>10, <1>11, <1>12, <1>15, <1>16, <1>17 DEF Next, Library, Program

\* The call stack has its shape in every reachable state.
LEMMA StackSafe == Spec => [](TypeOK /\ StackInv)
<1>1. Init => StackInv
  BY DEF Init, StackInv, StackInvOf
<1>2. TypeOK /\ StackInv /\ [Next]_vars => StackInv'
  BY StackInvStep
<1>3. QED
  BY <1>1, <1>2, TypeCorrect, PTL DEF Spec

\* However close() and connect() nest in callbacks, a connection that was not
\* itself opened inside a close() ends only after on_close, or in the destructor.
THEOREM ClosesAnnounced == Spec => CloseIsAnnounced
<1>1. TypeOK /\ StackInv /\ [Next]_vars
      => [valid /\ ~valid' => closes > 0 \/ destroyed' \/ reopened]_vars
  <2>1. SUFFICES ASSUME TypeOK, StackInv, [Next]_vars, valid, ~valid'
                 PROVE  closes > 0 \/ destroyed' \/ reopened
    OBVIOUS
  <2>2. CloseSocket \/ Destroy
    BY <2>1 DEF Next, Library, Program, Peer, vars, connVars, Write, WriteFromBuffer,
       SendAll, SendShort, SendInvalid, Close, CloseFlush, SetNonBlocking, Connect,
       ConnectOpen, ConnectThrows, Opened, ConnectFail, NotifyConnect, PeerSend, PeerClose,
       ReadToBuffer, ReadFirst, ReadNothing, ReadMore, ReadDone, ReadError, Return
  <2>3. CASE CloseSocket
    BY <2>1, <2>3 DEF CloseSocket, Top, StackInv, StackInvOf, Told, CloseResume, TypeOK
  <2>4. CASE Destroy
    BY <2>4 DEF Destroy
  <2>5. QED
    BY <2>2, <2>3, <2>4
<1>2. QED
  BY <1>1, StackSafe, PTL DEF Spec, CloseIsAnnounced

-----------------------------------------------------------------------------
(***************************************************************************)
(* The input buffer.                                                       *)
(***************************************************************************)

\* Every step keeps InputIsAnnounced.
LEMMA InputStep ==
    ASSUME TypeOK, InputIsAnnounced, [Next]_vars
    PROVE  InputIsAnnounced'
<1>1. stack \in Seq(Frames) /\ \A c \in SUBSET Callbacks : ProgramIn(c) => ~Top("read.more")
  BY DEF TypeOK, ProgramIn, Top, Callbacks
<1>2. CASE ReadFirst
  <2>1. stack' = <<"read.more">> \o Tail(stack) /\ Tail(stack) \in Seq(Frames)
    BY <1>1, <1>2 DEF ReadFirst, Top
  <2>2. stack' # <<>> /\ Head(stack') = "read.more"
    BY <2>1
  <2>3. QED
    BY <2>2 DEF InputIsAnnounced, Top
<1>3. CASE ReadMore
  BY <1>3 DEF ReadMore, InputIsAnnounced, Top
<1>4. CASE ReadDone
  BY <1>4 DEF ReadDone, InputIsAnnounced
<1>5. CASE ReadError
  BY <1>5 DEF ReadError, InputIsAnnounced, Top
<1>6. CASE UNCHANGED <<read, noticed, failed>>
           /\ (UNCHANGED stack \/ ~Top("read.more"))
  BY <1>6 DEF InputIsAnnounced, Top
<1>7. CASE SendAll \/ SendShort \/ SendInvalid \/ CloseFlush \/ CloseSocket
           \/ ConnectOpen \/ ConnectThrows \/ ConnectFail \/ ReadNothing
  BY <1>6, <1>7 DEF SendAll, SendShort, SendInvalid, CloseFlush, CloseSocket, ConnectOpen,
                    ConnectThrows, Opened, ConnectFail, ReadNothing, Top, inVars
<1>8. CASE Return
  BY <1>6, <1>8 DEF Return, Top, inVars, Callbacks
<1>9. CASE Close \/ Connect
  <2>1. ~Top("read.more")
    BY <1>1, <1>9, ProgramAssumption DEF Close, Connect
  <2>2. QED
    BY <1>6, <1>9, <2>1 DEF Close, Connect, inVars
<1>10. CASE WriteFromBuffer \/ NotifyConnect \/ ReadToBuffer
  <2>1. ~Top("read.more")
    BY <1>1, <1>10 DEF WriteFromBuffer, NotifyConnect, ReadToBuffer
  <2>2. QED
    BY <1>6, <1>10, <2>1 DEF WriteFromBuffer, NotifyConnect, ReadToBuffer, inVars
<1>11. CASE Write \/ Peer \/ Destroy \/ SetNonBlocking \/ UNCHANGED vars
  BY <1>6, <1>11 DEF Write, Peer, PeerSend, PeerClose, Destroy, SetNonBlocking, vars, inVars
<1>12. QED
  BY <1>2, <1>3, <1>4, <1>5, <1>7, <1>8, <1>9, <1>10, <1>11 DEF Next, Library, Program

\* For any chunk size and any input: bytes in inBuffer_ that on_did_read did not
\* announce mean that a read is going on or that a recv() failed in its middle.
THEOREM InputAnnounced == Spec => []InputIsAnnounced
<1>1. Init => InputIsAnnounced
  BY DEF Init, InputIsAnnounced
<1>2. TypeOK /\ InputIsAnnounced /\ [Next]_vars => InputIsAnnounced'
  BY InputStep
<1>3. QED
  BY <1>1, <1>2, TypeCorrect, PTL DEF Spec

-----------------------------------------------------------------------------
(***************************************************************************)
(* The recursion of close().  Every on_did_write on the stack was paid for *)
(* with a byte.  A flush may find the buffer emptied by a flush inside its *)
(* on_will_write and still announce on_did_write; that one is paid for as  *)
(* well, because there was something to send when the flush began: fewer   *)
(* on_did_write calls lie below a flush than bytes were written.  DidWrites*)
(* counts from the bottom of the stack, where a call or a return moves     *)
(* nothing.                                                                *)
(***************************************************************************)
DidWrites(s) == {j \in 1 .. Len(s) : s[Len(s) + 1 - j] = "on_did_write"}
Below(s, p) == {j \in DidWrites(s) : j < p}

PaidOf(s, c, w) ==
    /\ Cardinality(DidWrites(s)) <= c
    /\ \A p \in 1 .. Len(s) :
         s[Len(s) + 1 - p] = "write.send" => Cardinality(Below(s, p)) < w

PaidInv == PaidOf(stack, cleared, written)

\* The positions of on_did_write are finitely many.
LEMMA DidWritesFinite ==
    ASSUME NEW s \in Seq(Frames)
    PROVE  IsFiniteSet(DidWrites(s)) /\ Cardinality(DidWrites(s)) \in Nat
<1>1. IsFiniteSet(1 .. Len(s))
  BY FS_Interval
<1>2. DidWrites(s) \in SUBSET (1 .. Len(s))
  BY DEF DidWrites
<1>3. QED
  BY <1>1, <1>2, FS_Subset, FS_CardinalityType

\* A call adds an on_did_write only if it is one.
LEMMA PushDidWrites ==
    ASSUME NEW s \in Seq(Frames), NEW f \in Frames
    PROVE  Cardinality(DidWrites(<<f>> \o s)) <=
             Cardinality(DidWrites(s)) + (IF f = "on_did_write" THEN 1 ELSE 0)
<1> DEFINE t == <<f>> \o s
<1>1. /\ t \in Seq(Frames) /\ Len(s) \in Nat /\ Len(t) = Len(s) + 1 /\ t[1] = f
      /\ \A i \in 1 .. Len(s) : t[i + 1] = s[i]
  BY PushTypes
<1> HIDE DEF t
<1>2. ASSUME NEW j \in DidWrites(t), j # Len(s) + 1 PROVE j \in DidWrites(s)
  <2>1. j \in 1 .. Len(t) /\ t[Len(t) + 1 - j] = "on_did_write"
    BY DEF DidWrites
  <2>2. Len(s) + 1 - j \in 1 .. Len(s) /\ (Len(s) + 1 - j) + 1 = Len(t) + 1 - j /\ j \in 1 .. Len(s)
    BY <1>1, <1>2, <2>1
  <2>3. s[Len(s) + 1 - j] = "on_did_write"
    BY <1>1, <2>1, <2>2
  <2>4. QED
    BY <2>2, <2>3 DEF DidWrites
<1>3. Len(s) + 1 \in DidWrites(t) => f = "on_did_write"
  <2>1. Len(t) + 1 - (Len(s) + 1) = 1
    BY <1>1
  <2>2. QED
    BY <1>1, <2>1 DEF DidWrites
<1>4. IsFiniteSet(DidWrites(s)) /\ Cardinality(DidWrites(s)) \in Nat
  BY DidWritesFinite
<1>5. CASE f = "on_did_write"
  <2>1. DidWrites(t) \in SUBSET (DidWrites(s) \cup {Len(s) + 1})
    BY <1>2
  <2>2. /\ IsFiniteSet(DidWrites(s) \cup {Len(s) + 1})
        /\ Cardinality(DidWrites(s) \cup {Len(s) + 1})
               \in {Cardinality(DidWrites(s)), Cardinality(DidWrites(s)) + 1}
    BY <1>4, FS_AddElement, Zenon
  <2>3. Cardinality(DidWrites(t)) <= Cardinality(DidWrites(s) \cup {Len(s) + 1})
        /\ IsFiniteSet(DidWrites(t))
    BY <2>1, <2>2, FS_Subset
  <2>4. Cardinality(DidWrites(t)) \in Nat /\ Cardinality(DidWrites(s) \cup {Len(s) + 1}) \in Nat
    BY <2>2, <2>3, FS_CardinalityType
  <2>5. QED
    BY <1>4, <1>5, <2>2, <2>3, <2>4 DEF t
<1>6. CASE f # "on_did_write"
  <2>1. DidWrites(t) \in SUBSET DidWrites(s)
    BY <1>2, <1>3, <1>6
  <2>2. Cardinality(DidWrites(t)) <= Cardinality(DidWrites(s)) /\ IsFiniteSet(DidWrites(t))
    BY <1>4, <2>1, FS_Subset
  <2>3. Cardinality(DidWrites(t)) \in Nat
    BY <2>2, FS_CardinalityType
  <2>4. QED
    BY <1>4, <1>6, <2>2, <2>3 DEF t
<1>7. QED
  BY <1>5, <1>6

\* A call moves nothing that lies below it.
LEMMA PushBelow ==
    ASSUME NEW s \in Seq(Frames), NEW f \in Frames, NEW t \in Seq(Frames), t = <<f>> \o s
    PROVE  /\ Len(t) = Len(s) + 1 /\ Len(s) \in Nat
           /\ t[Len(t) + 1 - Len(t)] = f
           /\ \A p \in 1 .. Len(s) : t[Len(t) + 1 - p] = s[Len(s) + 1 - p]
           /\ \A p \in 1 .. Len(s) : Below(t, p) = Below(s, p)
           /\ Below(t, Len(t)) = DidWrites(s)
<1>1. /\ t \in Seq(Frames) /\ Len(s) \in Nat /\ Len(t) = Len(s) + 1 /\ t[1] = f
      /\ \A i \in 1 .. Len(s) : t[i + 1] = s[i]
  BY PushTypes
<1>2. ASSUME NEW p \in 1 .. Len(s) PROVE t[Len(t) + 1 - p] = s[Len(s) + 1 - p]
  <2>1. Len(s) + 1 - p \in 1 .. Len(s) /\ (Len(s) + 1 - p) + 1 = Len(t) + 1 - p
    BY <1>1
  <2>2. QED
    BY <1>1, <2>1
<1>3. ASSUME NEW j \in 1 .. Len(s) PROVE j \in DidWrites(t) <=> j \in DidWrites(s)
  <2>1. j \in 1 .. Len(t)
    BY <1>1
  <2>2. QED
    BY <1>2, <2>1 DEF DidWrites
<1>4. DidWrites(s) \subseteq 1 .. Len(s) /\ DidWrites(t) \subseteq 1 .. Len(t)
  BY DEF DidWrites
<1>5. ASSUME NEW p \in 1 .. Len(t) PROVE \A j \in 1 .. Len(t) : j < p => j \in 1 .. Len(s)
  BY <1>1
<1>6. ASSUME NEW p \in 1 .. Len(s) PROVE Below(t, p) = Below(s, p)
  <2>1. p \in 1 .. Len(t) /\ \A j \in 1 .. Len(s) : j \in 1 .. Len(t)
    BY <1>1
  <2>2. QED
    BY <1>3, <1>4, <1>5, <2>1 DEF Below
<1>7. Below(t, Len(t)) = DidWrites(s)
  <2>1. Len(t) \in 1 .. Len(t) /\ \A j \in 1 .. Len(s) : j < Len(t)
    BY <1>1
  <2>2. QED
    BY <1>3, <1>4, <1>5, <2>1 DEF Below
<1>8. Len(t) + 1 - Len(t) = 1
  BY <1>1
<1>9. QED
  BY <1>1, <1>2, <1>6, <1>7, <1>8

\* A return keeps what was paid; below a flush less was paid than was written.
LEMMA PopPaid ==
    ASSUME NEW t \in Seq(Frames), t # <<>>, NEW c \in Nat, NEW w \in Nat, PaidOf(t, c, w)
    PROVE  /\ PaidOf(Tail(t), c, w)
           /\ t[1] = "write.send" => Cardinality(DidWrites(Tail(t))) < w
<1> DEFINE s == Tail(t)
           f == Head(t)
<1>1. s \in Seq(Frames) /\ f \in Frames /\ f = t[1] /\ t \in Seq(Frames)
  BY StackTypes
<1>2. t = <<f>> \o s
  <2>1. /\ <<f>> \o s \in Seq(Frames) /\ Len(<<f>> \o s) = Len(s) + 1
        /\ (<<f>> \o s)[1] = f /\ \A i \in 1 .. Len(s) : (<<f>> \o s)[i + 1] = s[i]
    BY <1>1, PushTypes
  <2>2. Len(t) = Len(s) + 1 /\ \A i \in 1 .. Len(s) : t[i + 1] = s[i]
    BY StackTypes
  <2>3. Len(s) \in Nat
    BY <1>1
  <2> HIDE DEF s, f
  <2>4. ASSUME NEW i \in 1 .. Len(t) PROVE t[i] = (<<f>> \o s)[i]
    <3>1. CASE i = 1
      BY <1>1, <2>1, <3>1
    <3>2. CASE i # 1
      <4>1. i - 1 \in 1 .. Len(s) /\ (i - 1) + 1 = i
        BY <2>2, <2>3, <3>2
      <4>2. QED
        BY <2>1, <2>2, <4>1
    <3>3. QED
      BY <3>1, <3>2
  <2>5. QED
    BY <2>1, <2>2, <2>4, SeqEqual
<1> HIDE DEF s, f
<1>3. /\ Len(t) = Len(s) + 1 /\ Len(s) \in Nat
      /\ t[Len(t) + 1 - Len(t)] = f
      /\ \A p \in 1 .. Len(s) : t[Len(t) + 1 - p] = s[Len(s) + 1 - p]
      /\ \A p \in 1 .. Len(s) : Below(t, p) = Below(s, p)
      /\ Below(t, Len(t)) = DidWrites(s)
  <2>1. /\ s \in Seq(Frames) /\ f \in Frames /\ t \in Seq(Frames) /\ t = <<f>> \o s
    BY <1>1, <1>2
  <2>2. QED
    BY ONLY <2>1, PushBelow, Zenon
<1>4. Cardinality(DidWrites(s)) <= c
  <2>1. DidWrites(s) \subseteq DidWrites(t)
    BY <1>3 DEF Below
  <2>2. IsFiniteSet(DidWrites(t)) /\ Cardinality(DidWrites(t)) \in Nat
        /\ Cardinality(DidWrites(s)) \in Nat
    BY <1>1, DidWritesFinite
  <2>3. Cardinality(DidWrites(s)) <= Cardinality(DidWrites(t))
    BY <2>1, <2>2, FS_Subset
  <2>4. QED
    BY <2>2, <2>3 DEF PaidOf
<1>5. \A p \in 1 .. Len(s) : p \in 1 .. Len(t)
  BY <1>3
<1>6. PaidOf(s, c, w)
  BY <1>3, <1>4, <1>5, Zenon DEF PaidOf
<1>7. f = "write.send" => Cardinality(DidWrites(s)) < w
  <2>1. Len(t) \in 1 .. Len(t)
    BY <1>3
  <2>2. QED
    BY <1>3, <2>1, Zenon DEF PaidOf
<1>8. QED
  BY <1>1, <1>6, <1>7 DEF s

\* A call keeps it: an on_did_write is paid for, a flush has something to send.
LEMMA PushPaid ==
    ASSUME NEW s \in Seq(Frames), NEW c \in Nat, NEW w \in Nat, PaidOf(s, c, w),
           NEW f \in Frames, NEW d \in Nat, c <= d,
           f = "on_did_write" => Cardinality(DidWrites(s)) < d,
           f = "write.send" => c < w
    PROVE  PaidOf(<<f>> \o s, d, w)
<1> DEFINE t == <<f>> \o s
<1>6. t \in Seq(Frames)
  BY PushTypes
<1>1. /\ Len(t) = Len(s) + 1 /\ Len(s) \in Nat
      /\ t[Len(t) + 1 - Len(t)] = f
      /\ \A p \in 1 .. Len(s) : t[Len(t) + 1 - p] = s[Len(s) + 1 - p]
      /\ \A p \in 1 .. Len(s) : Below(t, p) = Below(s, p)
      /\ Below(t, Len(t)) = DidWrites(s)
  BY <1>6, PushBelow
<1>2. Cardinality(DidWrites(s)) \in Nat /\ Cardinality(DidWrites(t)) \in Nat
  BY <1>6, DidWritesFinite
<1>3. Cardinality(DidWrites(t)) <= d
  <2>1. Cardinality(DidWrites(t)) <=
          Cardinality(DidWrites(s)) + (IF f = "on_did_write" THEN 1 ELSE 0)
    BY PushDidWrites
  <2>2. Cardinality(DidWrites(s)) <= c
    BY DEF PaidOf
  <2> HIDE DEF t
  <2>3. QED
    BY <1>2, <2>1, <2>2
<1> HIDE DEF t
<1>4. ASSUME NEW p \in 1 .. Len(t), t[Len(t) + 1 - p] = "write.send"
      PROVE  Cardinality(Below(t, p)) < w
  <2>1. CASE p \in 1 .. Len(s)
    BY <1>1, <1>4, <2>1, Zenon DEF PaidOf
  <2>2. CASE p = Len(t)
    <3>1. Cardinality(DidWrites(s)) <= c /\ c < w
      BY <1>1, <1>4, <2>2 DEF PaidOf
    <3>2. QED
      BY <1>1, <1>2, <2>2, <3>1
  <2>3. QED
    BY <1>1, <2>1, <2>2
<1>5. QED
  BY <1>3, <1>4 DEF PaidOf, t

\* The frames a call pushes that is neither: PaidOf is as it was.
LEMMA PushPlain ==
    ASSUME NEW s \in Seq(Frames), NEW c \in Nat, NEW w \in Nat, PaidOf(s, c, w),
           NEW f \in Frames, NEW g \in Frames, f \notin {"on_did_write", "write.send"},
           g # "on_did_write", g = "write.send" => c < w
    PROVE  PaidOf(<<f>> \o s, c, w) /\ PaidOf(<<f, g>> \o s, c, w)
<1> DEFINE u == <<g>> \o s
<1>1. PaidOf(<<f>> \o s, c, w) /\ PaidOf(u, c, w) /\ u \in Seq(Frames)
  BY PushPaid, PushTypes
<1>3. <<f, g>> \o s = <<f>> \o u
  BY TwoFrames
<1> HIDE DEF u
<1>2. PaidOf(<<f>> \o u, c, w)
  BY <1>1, PushPaid
<1>4. QED
  BY <1>1, <1>2, <1>3

\* Every step keeps PaidInv.
LEMMA PaidStep ==
    ASSUME TypeOK, PaidInv, [Next]_vars
    PROVE  PaidInv'
<1> DEFINE tl == Tail(stack)
<1>1. /\ stack \in Seq(Frames) /\ cleared \in Nat /\ written \in Nat /\ cleared <= written
      /\ PaidOf(stack, cleared, written)
  BY DEF TypeOK, PaidInv
<1>2. ASSUME stack # <<>>
      PROVE  /\ Head(stack) = stack[1] /\ tl \in Seq(Frames)
             /\ PaidOf(tl, cleared, written)
             /\ stack[1] = "write.send" => Cardinality(DidWrites(tl)) < written
  BY <1>1, <1>2, StackTypes, PopPaid
<1> HIDE DEF tl
<1>3. /\ "on_close" \in Frames /\ "close.flush" \in Frames /\ "close.socket" \in Frames
      /\ "on_will_write" \in Frames /\ "write.send" \in Frames
      /\ "on_did_write" \in Frames /\ "on_connect" \in Frames
      /\ "connect.open" \in Frames /\ "on_will_read" \in Frames
      /\ "read.first" \in Frames /\ "read.more" \in Frames /\ "on_did_read" \in Frames
  BY DEF Frames, Callbacks, Resume
<1>4. CASE UNCHANGED <<cleared, written>> /\ PaidOf(stack', cleared, written)
  BY <1>4 DEF PaidInv
<1>5. CASE stack # <<>> /\ stack' = tl /\ UNCHANGED <<cleared, written>>
  BY <1>2, <1>4, <1>5
<1>6. ASSUME stack # <<>>, NEW f \in {"on_connect", "read.more", "on_did_read"},
             stack' = <<f>> \o tl, UNCHANGED <<cleared, written>>
      PROVE  PaidInv'
  <2>1. f \in Frames /\ f # "on_did_write" /\ f # "write.send"
    BY <1>3, <1>6
  <2>2. PaidOf(<<f>> \o tl, cleared, written)
    BY <1>1, <1>2, <1>6, <2>1, PushPaid
  <2>3. QED
    BY <1>4, <1>6, <2>2
<1>7. CASE SendAll
  <2>1. /\ stack # <<>> /\ stack[1] = "write.send"
        /\ stack' = <<"on_did_write">> \o tl /\ cleared' = written /\ written' = written
    BY <1>2, <1>7 DEF SendAll, Top, tl
  <2>2. PaidOf(<<"on_did_write">> \o tl, written, written)
    BY <1>1, <1>2, <1>3, <2>1, PushPaid
  <2>3. QED
    BY <2>1, <2>2 DEF PaidInv
<1>8. CASE SendShort \/ SendInvalid \/ CloseSocket \/ ConnectFail \/ Return
  BY <1>5, <1>8 DEF SendShort, SendInvalid, CloseSocket, ConnectFail, Return, Top, outVars, tl
<1>9. CASE ReadNothing \/ ReadError
  BY <1>5, <1>9 DEF ReadNothing, ReadError, Top, outVars, tl
<1>10. CASE ReadFirst \/ ReadDone
  BY <1>6, <1>10 DEF ReadFirst, ReadDone, Top, outVars, tl
<1>11. CASE ConnectOpen \/ ConnectThrows
  <2>1. UNCHANGED <<cleared, written>> /\ stack # <<>> /\ stack' \in {tl, <<"on_connect">> \o tl}
    BY <1>11, Zenon DEF ConnectOpen, ConnectThrows, Opened, Top, outVars, tl
  <2>2. QED
    BY <1>5, <1>6, <2>1
<1>12. CASE UNCHANGED vars \/ ReadMore \/ Peer \/ Destroy \/ SetNonBlocking
  BY <1>1, <1>4, <1>12 DEF vars, ReadMore, Peer, PeerSend, PeerClose, Destroy,
                           SetNonBlocking, outVars
<1>13. CASE Write
  <2>1. stack' = stack /\ cleared' = cleared /\ written' = written + 1
    BY <1>13 DEF Write
  <2>2. ASSUME NEW p \in 1 .. Len(stack), stack[Len(stack) + 1 - p] = "write.send"
        PROVE  Cardinality(Below(stack, p)) < written + 1
    <3>1. Below(stack, p) \subseteq DidWrites(stack) /\ Cardinality(Below(stack, p)) < written
      BY <1>1, <2>2 DEF PaidOf, Below
    <3>2. Cardinality(Below(stack, p)) \in Nat
      BY <1>1, <3>1, DidWritesFinite, FS_Subset, FS_CardinalityType
    <3>3. QED
      BY <1>1, <3>1, <3>2
  <2>3. PaidOf(stack, cleared, written + 1)
    BY <1>1, <2>2 DEF PaidOf
  <2>4. QED
    BY <2>1, <2>3 DEF PaidInv

\* A flush of the frames s starts only when there is something to send.
<1>14. ASSUME NEW s \in Seq(Frames), PaidOf(s, cleared, written)
       PROVE  PaidOf(WriteFrames \o s, cleared, written)
  <2>1. CASE WriteFrames = <<>>
    BY <1>14, <2>1, ConcatEmptySeq
  <2>2. CASE WriteFrames = <<"on_will_write", "write.send">> /\ cleared < written
    <3>1. PaidOf(<<"on_will_write", "write.send">> \o s, cleared, written)
      BY <1>1, <1>3, <1>14, <2>2, PushPlain
    <3>2. QED
      BY <2>2, <3>1
  <2>3. QED
    BY <2>1, <2>2 DEF WriteFrames
<1>15. WriteFrames \in Seq(Frames)
  BY <1>3 DEF WriteFrames
<1>16. CASE WriteFromBuffer
  <2>1. stack' = WriteFrames \o stack /\ UNCHANGED <<cleared, written>>
    BY <1>16 DEF WriteFromBuffer, outVars
  <2>2. QED
    BY <1>1, <1>4, <1>14, <2>1
<1>17. CASE CloseFlush
  <2> DEFINE s == <<"close.socket">> \o tl
  <2>1. stack # <<>> /\ UNCHANGED <<cleared, written>>
        /\ stack' = WriteFrames \o <<"close.socket">> \o tl
    BY <1>17 DEF CloseFlush, Top, outVars, tl
  <2>2. PaidOf(s, cleared, written) /\ s \in Seq(Frames)
    BY <1>1, <1>2, <1>3, <2>1, PushPaid, PushTypes
  <2>3. stack' = WriteFrames \o s
    <3>1. <<"close.socket">> \in Seq(Frames)
      BY <1>3
    <3>2. QED
      BY <1>2, <1>15, <2>1, <3>1, ConcatAssociative
  <2> HIDE DEF s
  <2>4. QED
    BY <1>4, <1>14, <2>1, <2>2, <2>3
<1>18. CASE Close
  <2>1. stack' = <<"on_close", "close.flush">> \o stack /\ UNCHANGED <<cleared, written>>
    BY <1>18 DEF Close, CloseFrames, outVars
  <2>2. PaidOf(<<"on_close", "close.flush">> \o stack, cleared, written)
    BY <1>1, <1>3, PushPlain
  <2>3. QED
    BY <1>4, <2>1, <2>2
<1>19. CASE Connect
  <2> DEFINE s == <<"connect.open">> \o stack
             a == IF valid THEN CloseFrames ELSE <<>>
  <2>1. PaidOf(s, cleared, written) /\ s \in Seq(Frames)
    BY <1>1, <1>3, PushPaid, PushTypes
  <2>2. UNCHANGED <<cleared, written>> /\ stack' = a \o <<"connect.open">> \o stack
    BY <1>19 DEF Connect, outVars
  <2>3. stack' = a \o s
    <3>1. a \in Seq(Frames) /\ <<"connect.open">> \in Seq(Frames)
      BY <1>3 DEF CloseFrames
    <3> HIDE DEF a
    <3>2. QED
      BY <1>1, <2>2, <3>1, ConcatAssociative
  <2> HIDE DEF s
  <2>4. CASE valid
    <3>1. stack' = <<"on_close", "close.flush">> \o s
      BY <2>3, <2>4 DEF CloseFrames
    <3>2. PaidOf(<<"on_close", "close.flush">> \o s, cleared, written)
      BY <1>1, <1>3, <2>1, PushPlain
    <3>3. QED
      BY <1>4, <2>2, <3>1, <3>2
  <2>5. CASE ~valid
    <3>1. stack' = <<>> \o s
      BY <2>3, <2>5
    <3>2. <<>> \o s = s
      BY <2>1, ConcatEmptySeq
    <3>3. QED
      BY <1>4, <2>1, <2>2, <3>1, <3>2
  <2>6. QED
    BY <2>4, <2>5
<1>20. CASE NotifyConnect \/ ReadToBuffer
  <2>1. /\ stack' \in {<<"on_connect">> \o stack, <<"on_will_read", "read.first">> \o stack}
        /\ UNCHANGED <<cleared, written>>
    BY <1>20 DEF NotifyConnect, ReadToBuffer, outVars
  <2>2. PaidOf(<<"on_connect">> \o stack, cleared, written)
    BY <1>1, <1>3, PushPaid
  <2>3. PaidOf(<<"on_will_read", "read.first">> \o stack, cleared, written)
    BY <1>1, <1>3, PushPlain
  <2>4. QED
    BY <1>4, <2>1, <2>2, <2>3
<1>21. QED
  BY <1>7, <1>8, <1>9, <1>10, <1>11, <1>12, <1>13, <1>16, <1>17, <1>18, <1>19, <1>20
     DEF Next, Library, Program

\* For every depth of the stack and every listener: a close() or connect() that
\* on_did_write waits for has a byte of its own that left the buffer.
THEOREM RecursionPaid == Spec => []RecursionIsPaid
<1>1. Init => PaidInv
  <2>1. DidWrites(<<>>) = {}
    BY DEF DidWrites
  <2>2. Cardinality(DidWrites(<<>>)) = 0
    BY <2>1, FS_EmptySet
  <2>3. QED
    BY <2>2 DEF Init, PaidInv, PaidOf
<1>2. TypeOK /\ PaidInv /\ [Next]_vars => PaidInv'
  BY PaidStep
<1>3. TypeOK /\ PaidInv => RecursionIsPaid
  <2>1. SUFFICES ASSUME TypeOK, PaidInv PROVE RecursionIsPaid
    OBVIOUS
  <2>2. /\ stack \in Seq(Frames) /\ Len(stack) \in Nat /\ cleared \in Nat
        /\ Cardinality(DidWrites(stack)) <= cleared
    BY <2>1 DEF TypeOK, PaidInv, PaidOf
  <2> DEFINE below == [i \in ClosesInDidWrite |-> Len(stack) - i]
  <2>3. ASSUME NEW i \in ClosesInDidWrite PROVE Len(stack) - i \in DidWrites(stack)
    <3>1. i \in 1 .. Len(stack) - 1 /\ stack[i + 1] = "on_did_write"
      BY DEF ClosesInDidWrite
    <3>2. Len(stack) - i \in 1 .. Len(stack) /\ Len(stack) + 1 - (Len(stack) - i) = i + 1
      BY <2>2, <3>1
    <3>3. QED
      BY <3>1, <3>2 DEF DidWrites
  <2>4. below \in Injection(ClosesInDidWrite, DidWrites(stack))
    <3>1. below \in [ClosesInDidWrite -> DidWrites(stack)]
      BY <2>3
    <3>2. \A i, j \in ClosesInDidWrite : Len(stack) - i = Len(stack) - j => i = j
      BY <2>2 DEF ClosesInDidWrite
    <3>3. \A i, j \in ClosesInDidWrite : below[i] = below[j] => i = j
      BY <3>2
    <3>4. QED
      BY <3>1, <3>3 DEF Injection, IsInjective
  <2> HIDE DEF below
  <2>5. IsFiniteSet(DidWrites(stack)) /\ Cardinality(DidWrites(stack)) \in Nat
    BY <2>2, DidWritesFinite
  <2>6. IsFiniteSet(ClosesInDidWrite) /\ Cardinality(ClosesInDidWrite) <= Cardinality(DidWrites(stack))
    BY <2>4, <2>5, FS_Injection
  <2>7. Cardinality(ClosesInDidWrite) \in Nat
    BY <2>6, FS_CardinalityType
  <2>8. QED
    BY <2>2, <2>5, <2>6, <2>7 DEF RecursionIsPaid
<1>4. QED
  BY <1>1, <1>2, <1>3, TypeCorrect, PTL DEF Spec

=============================================================================
