----------------------------- MODULE WsEchoProofs -----------------------------
(***************************************************************************)
(* forkMain() for every stream of frames, every request, and every way of  *)
(* cutting both: it does what receive(), post() and handshake() by         *)
(* themselves do, so that what WsReceiveProofs and WsConnectionProofs show *)
(* of them holds here; and from that, that the client gets its echoes in   *)
(* order, and that the process ends for a reason only.                     *)
(***************************************************************************)
EXTENDS WsEcho, SequenceTheorems, TLAPS

\* The theorems about receive(), and about handshake() and post(), for the
\* constants and variables of this program.
RP == INSTANCE WsReceiveProofs WITH Limits <- {Limit}, outcome <- answer

CP == INSTANCE WsConnectionProofs WITH
        BufferSize <- BufferSize - 1, Reassign <- FALSE, early <- FALSE,
        Byte <- EchoByte, Frames <- EchoFrames, MaxPosted <- Len(Stream)

------------------------------------------------------------------------------
\* What the modules of the parts assume follows from what this one does.
LEMMA ReceiveAssumed ==
    /\ Stream \in Seq(RP!FrameHead)
    /\ Start \in [1 .. Len(Stream) + 1 -> Nat]
    /\ Start[1] = 0
    /\ \A k \in 1 .. Len(Stream) : Start[k + 1] = Start[k] + RP!Size(Stream[k])
    /\ BufferSize \in Nat \ {0}
    /\ {Limit} \subseteq Nat /\ {Limit} # {}
    /\ Segments \subseteq Nat \ {0}
<1>1. R!FrameHead = RP!FrameHead
  BY DEF R!FrameHead, RP!FrameHead
<1>2. \A f : R!Size(f) = RP!Size(f)
  BY DEF R!Size, RP!Size, R!FrameSize, RP!FrameSize, R!MaskSize, RP!MaskSize
<1> QED BY <1>1, <1>2, WsEchoAssumption DEF FrameNumbers

\* The sizes of payloads are numbers.
LEMMA LengthsAreSizes ==
    /\ Lengths \subseteq Nat
    /\ \A l \in Closings, k \in FrameNumbers : Payload(l, k) \in Lengths
<1>1. \A k \in FrameNumbers : Stream[k].payload \in Nat
  <2>1. Stream \in Seq(R!FrameHead)
    BY WsEchoAssumption
  <2>2. \A k \in FrameNumbers : Stream[k] \in R!FrameHead
    BY <2>1, ElementOfSeq DEF FrameNumbers
  <2> QED BY <2>2 DEF R!FrameHead
<1> QED BY <1>1 DEF Lengths, Payload

\* A number has its bits among the eight lowest.
LEMMA BitsAreBits == \A n : F!BitsOf(n) \in SUBSET (0 .. 7)
BY DEF F!BitsOf

\* An echo has two bytes at least, each of which says which echo it is of.
LEMMA EchoIsFrame ==
    ASSUME NEW k \in FrameNumbers, NEW n \in Nat, NEW b \in SUBSET (0 .. 7)
    PROVE  Echo(k, n, b) \in Seq(EchoByte) /\ Echo(k, n, b) # <<>>
<1>1. Extended(b) \in Nat
  BY DEF Extended
<1>2. PICK m \in Nat : m = 2 + Extended(b) + n /\ m > 0
  BY <1>1
<1>3. ASSUME NEW j \in 1 .. m PROVE <<k, j, b>> \in EchoByte
  <2>1. j \in Nat
    BY <1>2
  <2> QED BY <2>1 DEF EchoByte
<1>4. Echo(k, n, b) = [j \in 1 .. m |-> <<k, j, b>>]
  BY <1>2 DEF Echo
<1>5. Echo(k, n, b) \in Seq(EchoByte) /\ Len(Echo(k, n, b)) = m
  BY <1>2, <1>3, <1>4
<1> QED BY <1>2, <1>5, EmptySeq

\* The constants given to the connection satisfy what its module assumes.
LEMMA ConnectionAssumed ==
    /\ EchoFrames \subseteq Seq(EchoByte) \ {<<>>}
    /\ Len(Stream) \in Nat
    /\ RequestSizes \subseteq Nat \ {0} /\ ResponseSize \in Nat \ {0}
    /\ HeaderLimit \in Nat /\ BufferSize - 1 \in Nat \ {0}
    /\ FALSE \in BOOLEAN
<1>1. \A k \in FrameNumbers, n \in Lengths, b \in SUBSET (0 .. 7) :
        Echo(k, n, b) \in Seq(EchoByte) \ {<<>>}
  BY EchoIsFrame, LengthsAreSizes
<1>2. Len(Stream) \in Nat
  BY WsEchoAssumption, LenProperties
<1>3. EchoFrames \subseteq Seq(EchoByte) \ {<<>>}
  BY <1>1 DEF EchoFrames
<1> QED BY <1>2, <1>3, WsEchoAssumption

\* Two names for one step.
LEMMA SameReceive ==
    /\ R!Init => RP!Init
    /\ [R!Next]_R!vars => [RP!Next]_RP!vars
BY DEF R!Init, RP!Init, R!vars, RP!vars, R!Next, RP!Next,
       R!Receive, R!ReceiveBytes, R!ReceiveAtEnd, R!ReceiveNothing,
       R!SetNonBlock, R!SetFrameSizeLimit, R!PeerSends, R!PeerCloses,
       R!Alive, R!Smaller, R!Digest, R!StillShort, R!Parse, R!Parsed,
       R!Ended, R!Erased, R!FrameSize, R!MaskSize, R!Size, R!StreamEnd,
       RP!Receive, RP!ReceiveBytes, RP!ReceiveAtEnd, RP!ReceiveNothing,
       RP!SetNonBlock, RP!SetFrameSizeLimit, RP!PeerSends, RP!PeerCloses,
       RP!Alive, RP!Smaller, RP!Digest, RP!StillShort, RP!Parse, RP!Parsed,
       RP!Ended, RP!Erased, RP!FrameSize, RP!MaskSize, RP!Size, RP!StreamEnd

\* post() as the server instantiates it is post() as the connection does.
LEMMA SamePost ==
    /\ P!Init => CP!Init
    /\ [P!Next]_P!vars => [CP!Next]_CP!vars
BY DEF P!Init, CP!Init, P!vars, CP!vars, P!Next, CP!Next, P!Ended, CP!Ended,
       P!PostRefused, P!PostFrame, P!Flush, P!FlushPending, P!Close, P!Assign,
       P!ForgetConnection, P!Write, P!WriteFails, P!WritesSome, P!WritesAll,
       CP!PostRefused, CP!PostFrame, CP!Flush, CP!FlushPending, CP!Close,
       CP!Assign, CP!ForgetConnection, CP!Write, CP!WriteFails,
       CP!WritesSome, CP!WritesAll

\* handshake() as the server instantiates it is handshake() as the connection does.
LEMMA SameHandshake ==
    /\ H!HsInit => CP!HsInit
    /\ [H!HsNext]_H!hsVars => [CP!HsNext]_CP!hsVars
BY DEF H!HsInit, CP!HsInit, H!hsVars, CP!hsVars, H!HsNext, CP!HsNext,
       H!Kinds, H!NewConnection, H!Return, H!CanCall, H!Call, H!CallAgain,
       H!CallRead, H!CallResume, H!Smaller, H!Chunk, H!Overlong, H!Seen,
       H!Read, H!ReadTooMuch, H!ReadMore, H!ReadsLast, H!ReadInvalid,
       H!Answer, H!ReadGood, H!ReadFails, H!ReadEnd, H!HsClose, H!HsAssign,
       H!ClientSends, H!ClientEnds,
       CP!Kinds, CP!NewConnection, CP!Return, CP!CanCall, CP!Call,
       CP!CallAgain, CP!CallRead, CP!CallResume, CP!Smaller, CP!Chunk,
       CP!Overlong, CP!Seen, CP!Read, CP!ReadTooMuch, CP!ReadMore,
       CP!ReadsLast, CP!ReadInvalid, CP!Answer, CP!ReadGood, CP!ReadFails,
       CP!ReadEnd, CP!HsClose, CP!HsAssign, CP!ClientSends, CP!ClientEnds

------------------------------------------------------------------------------
\* receive() with bytes to read finds the frame that they belong to.
LEMMA FrameAtHand ==
    ASSUME RP!IInv, got < sent
    PROVE  head \in FrameNumbers
<1>1. /\ head \in 1 .. Len(Stream) + 1 /\ front <= got /\ sent <= RP!StreamEnd
      /\ front = Start[head] /\ got \in Nat /\ sent \in Nat /\ front \in Nat
  BY DEF RP!IInv, RP!TypeOK, RP!Aligned, RP!WithinStash
<1>2. Len(Stream) \in Nat /\ RP!StreamEnd = Start[Len(Stream) + 1]
  BY ConnectionAssumed DEF RP!StreamEnd
<1>3. head # Len(Stream) + 1
  BY <1>1, <1>2, WsEchoAssumption
<1> QED BY <1>1, <1>2, <1>3 DEF FrameNumbers

\* What the parts need of the rest of the program: which frames there are, and
\* what length bits.
Context == last \in Closings /\ sending \in SUBSET (0 .. 7)

\* Every step of the program and its client is one of receive(), or leaves it
\* alone; and likewise for post() and for handshake().
LEMMA StepOfParts ==
    ASSUME RP!IInv, Context, [EchoNext]_echoVars
    PROVE  [R!Next]_R!vars /\ [P!Next]_P!vars /\ [H!HsNext]_H!hsVars
<1> USE DEF receiveVars, postVars, handshakeVars, R!vars, P!vars, H!hsVars
<1>1. CASE UNCHANGED echoVars
  BY <1>1 DEF echoVars
<1>2. CASE Greet
  BY <1>2 DEF Greet, H!HsNext, H!Call
<1>3. CASE Handshake
  BY <1>3 DEF Handshake, H!HsNext
<1>4. CASE HangUp
  BY <1>4 DEF HangUp
<1>5. CASE ReceiveThrows
  BY <1>5 DEF ReceiveThrows, Receive, R!Next, R!Receive
<1>6. CASE ReceiveEchoes
  <2>1. [R!Next]_R!vars /\ [H!HsNext]_H!hsVars
    BY <1>6 DEF ReceiveEchoes, Receive, R!Next, R!Receive
  <2>2. head \in FrameNumbers
    BY <1>6, FrameAtHand DEF ReceiveEchoes, Receive, R!ReceiveBytes
  <2>3. Payload(last, head) \in Lengths /\ sending' \in SUBSET (0 .. 7)
    BY <1>6, <2>2, LengthsAreSizes, BitsAreBits
    DEF ReceiveEchoes, F!UpdatePayloadSize, Context
  <2>4. P!Next
    <3>1. CASE P!PostRefused
      BY <3>1 DEF P!Next
    <3>2. CASE P!PostFrame(Echo(head, Payload(last, head), sending'))
      BY <2>2, <2>3, <3>2 DEF P!Next, EchoFrames
    <3> QED BY <1>6, <3>1, <3>2 DEF ReceiveEchoes
  <2> QED BY <2>1, <2>4
<1>7. CASE ClientRequests
  BY <1>7 DEF ClientRequests, H!HsNext
<1>8. CASE ClientLeaves
  BY <1>8 DEF ClientLeaves, H!HsNext, R!Next
<1>9. ASSUME NEW n \in Segments, ClientSends(n)
      PROVE  [R!Next]_R!vars /\ [P!Next]_P!vars /\ [H!HsNext]_H!hsVars
  BY <1>9 DEF ClientSends, R!Next
<1> QED BY <1>1, <1>2, <1>3, <1>4, <1>5, <1>6, <1>7, <1>8, <1>9 DEF EchoNext, Server

\* The invariants of the parts, in the program.
PartsInv == RP!IInv /\ CP!PostInv /\ CP!HsInv /\ Context

\* The server starts with its parts in their initial states.
LEMMA InitParts == EchoInit => PartsInv
BY SameReceive, SamePost, SameHandshake, ReceiveAssumed, ConnectionAssumed,
   RP!InitIInv, CP!InitPostInv, CP!HsInitOK DEF EchoInit, Context, PartsInv

\* Every step of the server keeps the invariants of its parts.
LEMMA StepParts == ASSUME PartsInv, [EchoNext]_echoVars PROVE PartsInv'
<1>1. [RP!Next]_RP!vars /\ [CP!Next]_CP!vars /\ [CP!HsNext]_CP!hsVars
  BY StepOfParts, SameReceive, SamePost, SameHandshake DEF PartsInv
<1>2. RP!IInv'
  BY <1>1, ReceiveAssumed, RP!StepIInv DEF PartsInv
<1>3. CP!PostInv'
  BY <1>1, ConnectionAssumed, CP!StepPostInv DEF PartsInv
<1>4. CP!HsInv'
  BY <1>1, ConnectionAssumed, CP!HsNextKeeps DEF PartsInv
<1>5. Context'
  <2> USE DEF PartsInv, Context, echoVars
  <2>1. CASE ReceiveEchoes
    BY <2>1, BitsAreBits DEF ReceiveEchoes, F!UpdatePayloadSize
  <2>2. CASE ~ReceiveEchoes
    BY <2>2 DEF EchoNext, Server, Greet, Handshake, HangUp, ReceiveThrows,
         ClientRequests, ClientLeaves, ClientSends
  <2> QED BY <2>1, <2>2
<1> QED BY <1>2, <1>3, <1>4, <1>5 DEF PartsInv

\* What is invariant of the parts is invariant of the server.
LEMMA PartsKept == EchoSpec => []PartsInv
BY InitParts, StepParts, PTL DEF EchoSpec

\* The process that serves a client implements receive(), post() and handshake()
\* as their modules specify them: what is proved of each by itself holds of it.
THEOREM PartsImplemented == EchoSpec => R!Spec /\ P!Spec /\ H!HsSpec
<1>1. EchoInit => R!Init /\ P!Init /\ H!HsInit
  BY DEF EchoInit
<1>2. PartsInv /\ [EchoNext]_echoVars =>
        [R!Next]_R!vars /\ [P!Next]_P!vars /\ [H!HsNext]_H!hsVars
  BY StepOfParts DEF PartsInv
<1> QED
  BY <1>1, <1>2, PartsKept, PTL DEF EchoSpec, R!Spec, P!Spec, H!HsSpec

------------------------------------------------------------------------------
\* k - 1 echoes and one more are k echoes.
LEMMA EchoesGrow ==
    ASSUME NEW l \in Closings, NEW k \in FrameNumbers
    PROVE  Echoes[l][k - 1] \o Echo(k, Payload(l, k), EchoBits(l, k)) = Echoes[l][k]
BY WsEchoAssumption

\* The length bits are those of the payloads before, and of this one.
LEMMA BitsGrow ==
    ASSUME NEW l, NEW k \in Nat \ {0}
    PROVE  EchoBits(l, k) = EchoBits(l, k - 1) \cup F!BitsOf(F!LengthOf(Payload(l, k)))
<1>1. 1 .. k = (1 .. k - 1) \cup {k}
  OBVIOUS
<1> QED BY <1>1 DEF EchoBits

------------------------------------------------------------------------------
EchoTypeOK ==
    /\ pc \in {"greet", "handshake", "serve", "left", "died"}
    /\ last \in 0 .. Len(Stream)
    /\ hasty \in BOOLEAN

\* handshake() is called once, so that what it has read has no hole, and it
\* stops reading no later than at the end of the request.  The process never
\* closes the socket.
Shaking ==
    /\ conn.open
    /\ reading <=> pc = "handshake"
    /\ pc \in {"greet", "handshake"} =>
        /\ ~was /\ ~shook /\ ~conn.hole
        /\ handshakeStash = conn.taken /\ conn.taken < conn.size

\* What was posted are the echoes of the first frames: of all those received, as
\* long as nothing is pending; and `sending` has the length bits of all those
\* received.  Without it, EchoesInOrder is not inductive: the
\* frame that is echoed next need not be the one behind the last one echoed.
Answering ==
    /\ posted <= head - 1
    /\ stash = <<>> => posted = head - 1
    /\ accepted = Echoes[last][posted]
    /\ sending = EchoBits(last, head - 1)

\* The inductive invariant.
EchoInv ==
    PartsInv /\ EchoTypeOK /\ Shaking /\ Answering /\ LeavesForAReason

\* The types that the parts' invariants give.
LEMMA PartTypes ==
    ASSUME PartsInv
    PROVE  /\ conn.size \in Nat /\ conn.taken \in Nat /\ conn.arrived \in Nat
           /\ conn.written \in Nat
           /\ conn.kind \in {"good", "keyless", "refused"}
           /\ conn \in [ open : BOOLEAN, kind : {"good", "keyless", "refused"},
                         size : Nat, arrived : Nat, taken : Nat, hole : BOOLEAN,
                         ended : BOOLEAN, written : Nat, failed : BOOLEAN ]
           /\ conn.taken <= conn.arrived /\ conn.arrived <= conn.size
           /\ handshakeStash \in Nat
           /\ H!Chunk \in Nat
           /\ head \in 1 .. Len(Stream) + 1 /\ Len(Stream) \in Nat
           /\ posted \in Nat /\ accepted = wire \o stash
           /\ wire \in Seq(EchoByte)
           /\ stash \in Seq(EchoByte)
           /\ accepted \in Seq(EchoByte)
<1>1. RequestSizes \subseteq Nat /\ BufferSize - 1 \in Nat /\ Len(Stream) \in Nat
  BY ConnectionAssumed
<1>2. /\ conn \in CP!Connection /\ handshakeStash \in Nat
      /\ conn.taken <= conn.arrived /\ conn.arrived <= conn.size
  BY DEF PartsInv, CP!HsInv, CP!HsTypeOK
<1>3. conn \in [ open : BOOLEAN, kind : {"good", "keyless", "refused"},
                 size : Nat, arrived : Nat, taken : Nat, hole : BOOLEAN,
                 ended : BOOLEAN, written : Nat, failed : BOOLEAN ]
  BY <1>1, <1>2 DEF CP!Connection, CP!Kinds
<1>4. H!Chunk \in Nat
  BY <1>1, <1>2, <1>3 DEF H!Chunk, H!Smaller
<1>5. head \in 1 .. Len(Stream) + 1
  BY DEF PartsInv, RP!IInv, RP!TypeOK
<1>6. /\ posted \in Nat /\ accepted = wire \o stash
      /\ wire \in Seq(EchoByte)
      /\ stash \in Seq(EchoByte)
      /\ accepted \in Seq(EchoByte)
  BY <1>1 DEF PartsInv, CP!PostInv, CP!TypeOK, CP!WireIsWhole
<1> QED BY <1>1, <1>2, <1>3, <1>4, <1>5, <1>6

\* The server has answered nothing when it starts.
LEMMA InitEcho == EchoInit => EchoInv
<1> SUFFICES ASSUME EchoInit PROVE EchoInv
  OBVIOUS
<1>1. PartsInv
  BY InitParts
<1>2. PICK k \in H!Kinds, n \in RequestSizes : conn = H!NewConnection(k, n)
  BY DEF EchoInit, H!HsInit
<1>3. n \in Nat /\ n > 0
  BY WsEchoAssumption
<1>4. EchoTypeOK
  BY WsEchoAssumption DEF EchoInit, EchoTypeOK
<1>5. Shaking
  BY <1>2, <1>3 DEF EchoInit, H!HsInit, H!NewConnection, Shaking
<1>6. Answering
  <2>1. Echoes[last][0] = <<>> /\ EchoBits(last, 0) = {}
    BY WsEchoAssumption DEF EchoInit, EchoBits
  <2> QED BY <2>1 DEF EchoInit, R!Init, P!Init, Answering
<1>7. LeavesForAReason
  BY DEF EchoInit, LeavesForAReason
<1> QED BY <1>1, <1>4, <1>5, <1>6, <1>7 DEF EchoInv

\* The client was not answered, and there is a reason.
NotAnswered ==
    /\ conn.written = 0
    /\ \/ conn.kind # "good" \/ conn.size > HeaderLimit
       \/ conn.taken < conn.size \/ conn.failed

\* One read() of handshake(): it goes on with a request that has no hole and no
\* end yet, or ends in one of the ways that AfterHandshake tells apart.
LEMMA ReadEnds ==
    ASSUME PartsInv, Shaking, pc = "handshake", H!Read
    PROVE  /\ conn'.open
           /\ \/ /\ reading' /\ ~was' /\ ~shook' /\ ~conn'.hole
                 /\ handshakeStash' = conn'.taken /\ conn'.taken < conn'.size
              \/ ~reading' /\ result' \in {"done", "partial", "end"}
              \/ ~reading' /\ NotAnswered'
<1>1. /\ conn \in [ open : BOOLEAN, kind : {"good", "keyless", "refused"},
                    size : Nat, arrived : Nat, taken : Nat, hole : BOOLEAN,
                    ended : BOOLEAN, written : Nat, failed : BOOLEAN ]
      /\ conn.taken <= conn.arrived /\ conn.arrived <= conn.size
      /\ H!Chunk \in Nat /\ handshakeStash \in Nat
  BY PartTypes
<1>2. /\ conn.open /\ reading /\ ~was /\ ~shook /\ ~conn.hole
      /\ handshakeStash = conn.taken /\ conn.taken < conn.size
  BY DEF Shaking
<1>3. conn.written = 0
  BY <1>2 DEF PartsInv, CP!HsInv, CP!AnswerIsWhole
<1>4. H!Seen = {conn.kind}
  BY <1>2 DEF H!Seen
<1>5. PICK t \in Nat : t = conn.taken + H!Chunk
  BY <1>1
<1>6. CASE H!ReadTooMuch
  <2>1. conn' = [conn EXCEPT !.taken = t, !.hole = TRUE] /\ ~reading'
    BY <1>5, <1>6 DEF H!ReadTooMuch, H!Return
  <2>2. t > HeaderLimit /\ t <= conn.size
    BY <1>1, <1>2, <1>5, <1>6, ConnectionAssumed
    DEF H!ReadTooMuch, H!Overlong, H!Chunk, H!Smaller
  <2>3. conn'.size > HeaderLimit /\ conn'.written = 0 /\ conn'.open
    BY <1>1, <1>2, <1>3, <2>1, <2>2, ConnectionAssumed
  <2> QED BY <2>1, <2>3 DEF NotAnswered
<1>7. CASE H!ReadMore
  <2>1. /\ conn' = [conn EXCEPT !.taken = t]
        /\ handshakeStash' = handshakeStash + H!Chunk
        /\ UNCHANGED <<reading, was, shook>>
    BY <1>5, <1>7 DEF H!ReadMore
  <2>2. t < conn.size
    BY <1>1, <1>4, <1>5, <1>7 DEF H!ReadMore
  <2>3. conn'.open /\ ~conn'.hole /\ handshakeStash' = conn'.taken /\ conn'.taken < conn'.size
    BY <1>1, <1>2, <1>5, <2>1, <2>2
  <2> QED BY <1>2, <2>1, <2>3
<1>8. CASE H!ReadInvalid
  <2>1. conn' = [conn EXCEPT !.taken = t] /\ ~reading'
    BY <1>5, <1>8 DEF H!ReadInvalid, H!Return
  <2>2. conn.kind # "good"
    BY <1>4, <1>8 DEF H!ReadInvalid
  <2>3. conn'.open /\ conn'.kind # "good" /\ conn'.written = 0
    BY <1>1, <1>2, <1>3, <2>1, <2>2
  <2> QED BY <2>1, <2>3 DEF NotAnswered
<1>9. CASE H!ReadGood
  <2>1. CASE /\ conn' = [conn EXCEPT !.taken = @ + H!Chunk, !.failed = TRUE]
             /\ H!Return("errno")
    <3>1. conn' = [conn EXCEPT !.taken = t, !.failed = TRUE] /\ ~reading'
      BY <1>5, <2>1 DEF H!Return
    <3>2. conn'.open /\ conn'.failed /\ conn'.written = 0
      BY <1>1, <1>2, <1>3, <3>1
    <3> QED BY <3>1, <3>2 DEF NotAnswered
  <2>2. ASSUME NEW n, conn' = [conn EXCEPT !.taken = @ + H!Chunk, !.written = n],
               H!Return("partial") \/ H!Return("done")
        PROVE  conn'.open /\ ~reading' /\ result' \in {"done", "partial", "end"}
    <3>1. conn'.open
      BY <1>1, <1>2, <2>2
    <3> QED BY <2>2, <3>1 DEF H!Return
  <2> QED BY <1>9, <2>1, <2>2 DEF H!ReadGood, H!Answer
<1>10. CASE H!ReadFails
  <2>1. conn' = conn /\ ~reading'
    BY <1>10 DEF H!ReadFails, H!Return
  <2> QED BY <1>2, <1>3, <2>1 DEF NotAnswered
<1>11. CASE H!ReadEnd
  BY <1>2, <1>11 DEF H!ReadEnd, H!Return
<1> QED BY <1>6, <1>7, <1>8, <1>9, <1>10, <1>11 DEF H!Read

\* What receive() throws, and what it returns.
LEMMA ReceiveEnds ==
    ASSUME R!ReceiveBytes
    PROVE  /\ limit' = limit
           /\ answer'.kind = "frame" => head' = head + 1
           /\ answer'.kind # "frame" => head' = head
           /\ answer'.kind = "protocol" => Stream[head].rsv
<1> DEFINE m == got' - front
<1>1. limit' = limit /\ R!Digest(m)
  BY DEF R!ReceiveBytes
<1>2. CASE R!StillShort(m)
  BY <1>1, <1>2 DEF R!StillShort, R!Ended
<1>3. CASE R!Parse(m)
  <2>1. /\ answer' = R!Parsed(Stream[head], m)
        /\ answer'.kind = "frame" => head' = head + 1
        /\ answer'.kind # "frame" => head' = head
    BY <1>3 DEF R!Parse
  <2>2. R!Parsed(Stream[head], m).kind = "protocol" => Stream[head].rsv
    BY DEF R!Parsed, R!Ended
  <2> QED BY <1>1, <2>1, <2>2
<1> QED BY <1>1, <1>2, <1>3 DEF R!Digest

\* Every step keeps the link between the server's loop and handshake().
LEMMA ShakingKept ==
    ASSUME EchoInv, EchoNext PROVE Shaking'
<1> USE DEF EchoInv, handshakeVars
<1>1. CASE Greet
  BY <1>1 DEF Greet, H!CallRead, Shaking
<1>2. CASE Handshake
  <2>1. pc = "handshake" /\ H!Read /\ pc' = IF reading' THEN pc ELSE AfterHandshake(result')
    BY <1>2 DEF Handshake
  <2>2. reading' \in BOOLEAN
    BY StepParts, <1>2 DEF PartsInv, CP!HsInv, CP!HsTypeOK, EchoNext, Server
  <2> QED BY <2>1, <2>2, ReadEnds DEF Shaking, AfterHandshake
<1>3. CASE HangUp
  BY <1>3 DEF HangUp, Shaking
<1>4. CASE ReceiveThrows \/ ReceiveEchoes
  <2>1. pc = "serve" /\ pc' \in {"serve", "left", "died"} /\ UNCHANGED handshakeVars
    BY <1>4 DEF ReceiveThrows, ReceiveEchoes, Receive, AfterPost
  <2> QED BY <2>1 DEF Shaking
<1>5. CASE ClientRequests
  <2>1. PICK n \in 1 .. conn.size - conn.arrived : conn' = [conn EXCEPT !.arrived = @ + n]
    BY <1>5 DEF ClientRequests, H!ClientSends
  <2>2. /\ conn'.open = conn.open /\ conn'.hole = conn.hole
        /\ conn'.taken = conn.taken /\ conn'.size = conn.size
    BY <2>1, PartTypes
  <2>3. UNCHANGED <<pc, handshakeStash, reading, was, shook>>
    BY <1>5 DEF ClientRequests, H!ClientSends
  <2> QED BY <2>2, <2>3 DEF Shaking
<1>6. CASE ClientLeaves
  <2>1. /\ conn'.open = conn.open /\ conn'.hole = conn.hole
        /\ conn'.taken = conn.taken /\ conn'.size = conn.size
    BY <1>6, PartTypes DEF ClientLeaves, H!ClientEnds
  <2>2. UNCHANGED <<pc, handshakeStash, reading, was, shook>>
    BY <1>6 DEF ClientLeaves, H!ClientEnds
  <2> QED BY <2>1, <2>2 DEF Shaking
<1>7. ASSUME NEW n \in Segments, ClientSends(n) PROVE Shaking'
  BY <1>7 DEF ClientSends, Shaking
<1> QED BY <1>1, <1>2, <1>3, <1>4, <1>5, <1>6, <1>7 DEF EchoNext, Server

\* A frame is received, and its echo is posted or not.
LEMMA EchoFollows ==
    ASSUME EchoInv, ReceiveEchoes
    PROVE  /\ Answering'
           /\ stash = <<>> \/ (stash' # <<>> /\ outcome'.kind = "owes")
           /\ stash = <<>> => posted' = head
<1>1. /\ head \in Nat /\ posted \in Nat /\ posted <= head - 1
      /\ accepted = Echoes[last][posted] /\ sending = EchoBits(last, head - 1)
      /\ stash = <<>> => posted = head - 1
  BY PartTypes DEF EchoInv, Answering
<1>2. head' = head + 1 /\ last' = last
  BY ReceiveEnds DEF ReceiveEchoes, Receive
<1>3. head \in FrameNumbers /\ head - 1 \in Nat /\ (head + 1) - 1 = head
      /\ last \in Closings /\ head \in Nat \ {0}
  BY <1>1, PartTypes, FrameAtHand
  DEF ReceiveEchoes, Receive, R!ReceiveBytes, EchoInv, PartsInv, Context
<1>4. sending' = EchoBits(last, head)
  BY <1>1, <1>3, BitsGrow DEF ReceiveEchoes, F!UpdatePayloadSize
<1>5. CASE P!PostRefused
  BY <1>1, <1>2, <1>3, <1>4, <1>5 DEF P!PostRefused, P!Ended, Answering
<1>6. CASE P!PostFrame(Echo(head, Payload(last, head), sending'))
  <2>1. /\ stash = <<>> /\ posted' = posted + 1
        /\ accepted' = accepted \o Echo(head, Payload(last, head), sending')
    BY <1>6 DEF P!PostFrame
  <2>2. posted = head - 1 /\ posted' = head
    BY <1>1, <2>1
  <2>3. accepted' = Echoes[last][head]
    BY <1>1, <1>3, <1>4, <2>1, <2>2, EchoesGrow
  <2>4. accepted' = Echoes[last'][posted'] /\ sending' = EchoBits(last', head' - 1)
    BY <1>2, <1>3, <1>4, <2>2, <2>3
  <2>5. posted' <= head' - 1 /\ posted' = head' - 1
    BY <1>2, <1>3, <2>2
  <2> QED BY <2>1, <2>2, <2>4, <2>5 DEF Answering
<1> QED BY <1>5, <1>6 DEF ReceiveEchoes

\* Every step keeps the count of the frames received and of the echoes posted.
LEMMA AnsweringKept ==
    ASSUME EchoInv, EchoNext PROVE Answering'
<1> USE DEF EchoInv, receiveVars, postVars
<1>1. CASE Greet
  BY <1>1 DEF Greet, Answering
<1>2. CASE Handshake
  BY <1>2 DEF Handshake, Answering
<1>3. CASE HangUp
  BY <1>3 DEF HangUp, Answering
<1>4. CASE ReceiveThrows
  BY <1>4, ReceiveEnds DEF ReceiveThrows, Receive, Answering
<1>5. CASE ReceiveEchoes
  BY <1>5, EchoFollows
<1>6. CASE ClientRequests
  BY <1>6 DEF ClientRequests, Answering
<1>7. CASE ClientLeaves
  BY <1>7 DEF ClientLeaves, R!PeerCloses, Answering
<1>8. ASSUME NEW n \in Segments, ClientSends(n) PROVE Answering'
  BY <1>8 DEF ClientSends, R!PeerSends, Answering
<1> QED
  BY <1>1, <1>2, <1>3, <1>4, <1>5, <1>6, <1>7, <1>8 DEF EchoNext, Server

\* The reasons do not go away while the client goes on.
LEMMA ReasonsStay ==
    ASSUME EchoInv, ClientRequests \/ ClientLeaves
           \/ \E n \in Segments : ClientSends(n)
    PROVE  LeavesForAReason'
<1>1. UNCHANGED <<pc, last, wire, stash, head, limit>>
  BY DEF ClientRequests, ClientLeaves, ClientSends, R!PeerCloses, R!PeerSends,
         receiveVars, postVars
<1>2. pc = "left" => (conn.ended \/ (last # 0 /\ wire = Echoes[last][last]) \/ NotAnswered)
  BY DEF EchoInv, LeavesForAReason, NotAnswered
<1>3. pc = "died" => stash # <<>> \/ R!Refused(Stream[head])
  BY DEF EchoInv, LeavesForAReason
<1>4. \/ conn' = conn
      \/ \E n \in Nat : conn' = [conn EXCEPT !.arrived = n]
      \/ conn' = [conn EXCEPT !.ended = TRUE]
  <2>1. CASE ClientRequests
    <3>1. PICK n \in 1 .. conn.size - conn.arrived : conn' = [conn EXCEPT !.arrived = @ + n]
      BY <2>1 DEF ClientRequests, H!ClientSends
    <3>2. conn.arrived + n \in Nat
      BY PartTypes DEF EchoInv
    <3> QED BY <3>1, <3>2
  <2>2. CASE ClientLeaves
    BY <2>2 DEF ClientLeaves, H!ClientEnds
  <2>3. ASSUME NEW n \in Segments, ClientSends(n) PROVE conn' = conn
    BY <2>3 DEF ClientSends, handshakeVars
  <2> QED BY <2>1, <2>2, <2>3
<1>5. /\ conn'.written = conn.written /\ conn'.kind = conn.kind
      /\ conn'.size = conn.size /\ conn'.taken = conn.taken
      /\ conn'.failed = conn.failed /\ (conn.ended => conn'.ended)
  BY <1>4, PartTypes DEF EchoInv
<1> QED
  BY <1>1, <1>2, <1>3, <1>5 DEF LeavesForAReason, NotAnswered, R!Refused

\* Every step that ends the loop has a reason to.
LEMMA LeavesKept ==
    ASSUME EchoInv, EchoNext, PartsInv', Answering'
    PROVE  LeavesForAReason'
<1>1. CASE Greet
  BY <1>1 DEF Greet, LeavesForAReason
<1>2. CASE Handshake
  <2>1. /\ pc = "handshake" /\ H!Read
        /\ pc' = IF reading' THEN pc ELSE AfterHandshake(result')
    BY <1>2 DEF Handshake
  <2>2. pc' # "died" /\ (pc' = "left" => NotAnswered')
    BY <2>1, ReadEnds DEF EchoInv, AfterHandshake
  <2> QED BY <2>2 DEF LeavesForAReason, NotAnswered
<1>3. CASE HangUp
  BY <1>3 DEF HangUp, handshakeVars, LeavesForAReason
<1>4. CASE ReceiveThrows
  <2>1. pc' # "left" /\ (pc' = "died" => Stream[head].rsv /\ head' = head)
    BY <1>4, ReceiveEnds DEF ReceiveThrows, Receive
  <2> QED BY <2>1 DEF LeavesForAReason, R!Refused
<1>5. CASE ReceiveEchoes
  <2>1. pc' = AfterPost(head) /\ last' = last
    BY <1>5 DEF ReceiveEchoes
  <2>2. outcome'.kind = "errno" => stash' # <<>>
    BY DEF PartsInv, CP!PostInv, CP!AnswerIsExact
  <2>3. ASSUME outcome'.kind = "done" PROVE wire' = Echoes[last][head]
    <3>1. wire' = accepted'
      BY <2>3 DEF PartsInv, CP!PostInv, CP!AnswerIsExact
    <3>2. posted' = head
      BY <1>5, <2>3, EchoFollows
    <3>3. accepted' = Echoes[last'][posted']
      BY DEF Answering
    <3> QED BY <2>1, <3>1, <3>2, <3>3
  <2>4. head # 0
    BY PartTypes DEF EchoInv
  <2>5. pc' = "died" => stash' # <<>>
    BY <2>1, <2>2 DEF AfterPost
  <2>6. pc' = "left" => last' # 0 /\ wire' = Echoes[last][last]
    BY <2>1, <2>3, <2>4 DEF AfterPost
  <2> QED BY <2>1, <2>5, <2>6 DEF LeavesForAReason
<1> QED
  BY <1>1, <1>2, <1>3, <1>4, <1>5, ReasonsStay DEF EchoNext, Server

\* Every step of the server keeps the invariant.
LEMMA StepEcho == ASSUME EchoInv, [EchoNext]_echoVars PROVE EchoInv'
<1>1. PartsInv'
  BY StepParts DEF EchoInv
<1>2. CASE EchoNext
  <2>1. EchoTypeOK'
    BY <1>2 DEF EchoInv, EchoTypeOK, EchoNext, Server, Greet, Handshake,
       AfterHandshake, HangUp, ReceiveThrows, ReceiveEchoes, AfterPost,
       ClientRequests, ClientLeaves, ClientSends, Hurries
  <2> QED
    BY <1>1, <1>2, <2>1, ShakingKept, AnsweringKept, LeavesKept DEF EchoInv
<1>3. CASE UNCHANGED echoVars
  BY <1>1, <1>3 DEF echoVars, handshakeVars, receiveVars, postVars, EchoInv, EchoTypeOK,
     Shaking, Answering, LeavesForAReason, R!Refused
<1> QED BY <1>2, <1>3

\* The invariant holds always, whatever the client does.
THEOREM EchoInvariance == EchoSpec => []EchoInv
BY InitEcho, StepEcho, PTL DEF EchoSpec

\* The variables of forkMain() have their types, and those of the three
\* conversations theirs.
THEOREM EchoTypeCorrect == EchoSpec => []EchoTypeOK
BY EchoInvariance, PTL DEF EchoInv

\* Whatever the frames, and however they and the echoes are cut, the client gets
\* the echoes of its frames in order and without a gap.
\* (examples/nonblock_wsechoserver.cpp:179)
THEOREM EchoesStayInOrder == EchoSpec => []EchoesInOrder
<1>1. EchoInv => EchoesInOrder
  <2> SUFFICES ASSUME EchoInv PROVE EchoesInOrder
    OBVIOUS
  <2>1. accepted = Echoes[last][posted] /\ wire \o stash = accepted
    BY PartTypes DEF EchoInv, Answering
  <2>2. posted < head - 1 => stash # <<>>
    BY PartTypes DEF EchoInv, Answering
  <2> QED BY <2>1, <2>2 DEF EchoesInOrder
<1> QED BY <1>1, EchoInvariance, PTL

\* The process that serves a client ends only for one of the reasons that
\* LeavesForAReason lists.  (examples/nonblock_wsechoserver.cpp:98)
THEOREM ProcessEndsForAReason == EchoSpec => []LeavesForAReason
BY EchoInvariance, PTL DEF EchoInv
==============================================================================
