-------------------------------- MODULE WsEcho --------------------------------
(***************************************************************************)
(* forkMain() of examples/nonblock_wsechoserver.cpp: the process that      *)
(* serves one client on a non-blocking socket.  It composes the three      *)
(* conversations of one WebSocket object, each taken from its own module:  *)
(* the handshake, receiving, and sending.                                  *)
(*                                                                         *)
(* The client sends its request in pieces of any size.  When it has got    *)
(* the whole answer it sends the frames of Stream, in pieces of any size   *)
(* too, which may hold more than one frame; it may leave at any time.      *)
(***************************************************************************)
EXTENDS Integers, Sequences

CONSTANTS Stream, Start, BufferSize, Limit, Segments,     \* see WsReceive
          RequestSizes, ResponseSize, HeaderLimit,        \* see WsHandshake
          Closings,    \* which frame may be a close frame; 0 is none
          Echoes       \* Echoes[l][k]: what answers the first k frames, if
                       \* frame l is the close frame

VARIABLES
    pc,             \* where forkMain() is
    sending,        \* the length bits of the Frame `sending`
    last,           \* the index of the client's close frame, or 0
    hasty,          \* history: the client did not wait for an echo
    conn, handshakeStash, owed, reading, was, shook, result,
    sent, closed, nonBlock, limit, got, front, head, remaining, answer,
    open, stash, outcome, wire, accepted, posted

handshakeVars == <<conn, handshakeStash, owed, reading, was, shook, result>>
receiveVars == <<sent, closed, nonBlock, limit, got, front, head, remaining, answer>>
postVars == <<open, stash, outcome, wire, accepted, posted>>
echoVars == <<pc, sending, last, hasty, handshakeVars, receiveVars, postVars>>

FrameNumbers == 1 .. Len(Stream)

H == INSTANCE WsHandshake WITH BufferSize <- BufferSize - 1, Reassign <- FALSE

R == INSTANCE WsReceive WITH Limits <- {Limit}, outcome <- answer

\* The Frame `sending` as module WsFrame has it; only its length bits are told.
F == INSTANCE WsFrame WITH firstBytes <- sending, maskSize <- 0, payloadSize <- 0,
                           sets <- 0, wanted <- 0, PayloadSizes <- {}, MaxSets <- 0

\* The size of the payload that frame k is answered with, if l is the close frame:
\* its own, and none for a close frame.
Payload(l, k) == IF k = l THEN 0 ELSE Stream[k].payload

Extended(bits) == CASE F!Number(bits) = 126 -> 2 [] F!Number(bits) = 127 -> 8 [] OTHER -> 0

\* What toBinary() makes of `sending` for frame k, with a payload of n bytes and
\* with the length bits it has: bytes that tell the frame and these bits.
Echo(k, n, bits) == [j \in 1 .. 2 + Extended(bits) + n |-> <<k, j, bits>>]

Lengths == {0} \cup {Stream[k].payload : k \in FrameNumbers}

EchoByte == FrameNumbers \X Nat \X SUBSET (0 .. 7)

EchoFrames == {Echo(k, n, b) : k \in FrameNumbers, n \in Lengths, b \in SUBSET (0 .. 7)}

P == INSTANCE WsPost WITH
        Byte <- EchoByte, Frames <- EchoFrames, MaxPosted <- Len(Stream)

\* The length bits after k frames: those of every payload that was set so far.
EchoBits(l, k) == UNION {F!BitsOf(F!LengthOf(Payload(l, i))) : i \in 1 .. k}

ASSUME WsEchoAssumption ==
    /\ Stream \in Seq(R!FrameHead)
    /\ Start \in [1 .. Len(Stream) + 1 -> Nat] /\ Start[1] = 0
    /\ \A k \in FrameNumbers : Start[k + 1] = Start[k] + R!Size(Stream[k])
    /\ BufferSize \in Nat /\ BufferSize > 1
    /\ Limit \in Nat /\ HeaderLimit \in Nat
    /\ Segments \subseteq Nat \ {0}
    /\ RequestSizes \subseteq Nat \ {0}
    /\ ResponseSize \in Nat \ {0}
    /\ Closings \subseteq 0 .. Len(Stream)
    /\ \A l \in Closings :
        /\ Echoes[l][0] = <<>>
        /\ \A k \in FrameNumbers :
            Echoes[l][k] = Echoes[l][k - 1] \o Echo(k, Payload(l, k), EchoBits(l, k))

\* The parent has accepted the connection, made it non-blocking and forked.
EchoInit ==
    /\ pc = "greet" /\ hasty = FALSE /\ sending = {}
    /\ last \in Closings
    /\ H!HsInit /\ R!Init /\ P!Init

\* The first poll() returns and handshake() is called.
Greet ==
    /\ pc = "greet"
    /\ conn.arrived > 0 \/ conn.ended
    /\ H!CallRead
    /\ pc' = "handshake"
    /\ UNCHANGED <<sending, last, hasty, receiveVars, postVars>>

\* Mutant of AfterHandshake: a partial answer is taken for a failure.
AfterHandshakeGivingUp(r) == IF r = "done" THEN "serve" ELSE "left"

\* Where forkMain() goes when handshake() has ended: it returns for a string or
\* an int, EAGAIN included.  A ssize_t only sets an event that the main loop
\* overwrites, so the loop is entered with an answer that is not finished or at
\* the end of the stream.
AfterHandshake(r) == IF r \in {"done", "partial", "end"} THEN "serve" ELSE "left"

\* Mutant of Handshake: handshake() does not read again before it returns.
HandshakeReadingOnce ==
    /\ pc = "handshake"
    /\ H!Read
    /\ pc' = IF reading' THEN "serve" ELSE AfterHandshake(result')
    /\ UNCHANGED <<sending, last, hasty, receiveVars, postVars>>

\* One read() of handshake(), which is called once.
Handshake ==
    /\ pc = "handshake"
    /\ H!Read
    /\ pc' = IF reading' THEN pc ELSE AfterHandshake(result')
    /\ UNCHANGED <<sending, last, hasty, receiveVars, postVars>>

\* POLLRDHUP, POLLHUP or POLLERR: the server leaves, whatever there is to read.
HangUp ==
    /\ pc = "serve"
    /\ conn.ended
    /\ pc' = "left"
    /\ UNCHANGED <<sending, last, hasty, handshakeVars, receiveVars, postVars>>

\* POLLIN and receive(); POLLOUT is never asked for, as the events are set
\* again at the top of the loop.
Receive ==
    /\ pc = "serve"
    /\ ~conn.ended
    /\ R!ReceiveBytes

\* Mutant of ReceiveThrows: a ssize_t ends the loop.
ReceiveThrowsLeaving ==
    /\ Receive
    /\ answer'.kind # "frame"
    /\ pc' = "left"
    /\ UNCHANGED <<sending, last, hasty, handshakeVars, postVars>>

\* receive() throws.  A ssize_t is caught; a string is not, and ends the process.
ReceiveThrows ==
    /\ Receive
    /\ answer'.kind # "frame"
    /\ pc' = IF answer'.kind = "protocol" THEN "died" ELSE pc
    /\ UNCHANGED <<sending, last, hasty, handshakeVars, postVars>>

\* Where it goes when post() of the echo of frame k has ended: a ssize_t is
\* caught, an int is not.  After the echo of a close frame the loop ends.
AfterPost(k) ==
    IF outcome'.kind = "errno" THEN "died"
    ELSE IF outcome'.kind = "done" /\ k = last THEN "left"
    ELSE "serve"

\* Mutant of ReceiveEchoes: what is pending is flushed before the echo is posted.
ReceiveEchoesFlushing ==
    /\ Receive
    /\ answer'.kind = "frame"
    /\ F!UpdatePayloadSize(Payload(last, head))
    /\ \/ stash # <<>> /\ P!FlushPending
       \/ P!PostFrame(Echo(head, Payload(last, head), sending'))
    /\ pc' = AfterPost(head)
    /\ UNCHANGED <<last, hasty, handshakeVars>>

\* receive() returns a frame, and the answer is posted from the one Frame
\* `sending`: setPayload() or clearPayload() adds to its length bits.  If an
\* earlier answer is pending, post() throws its size, and this one is dropped.
ReceiveEchoes ==
    /\ Receive
    /\ answer'.kind = "frame"
    /\ F!UpdatePayloadSize(Payload(last, head))
    /\ P!PostRefused \/ P!PostFrame(Echo(head, Payload(last, head), sending'))
    /\ pc' = AfterPost(head)
    /\ UNCHANGED <<last, hasty, handshakeVars>>

\* The client sends bytes of its request, or leaves.
ClientRequests ==
    /\ H!ClientSends
    /\ UNCHANGED <<pc, sending, last, hasty, receiveVars, postVars>>

ClientLeaves ==
    /\ H!ClientEnds /\ R!PeerCloses
    /\ UNCHANGED <<pc, sending, last, hasty, postVars>>

\* It goes on beyond the end of a frame of which it has not got the echo.
Hurries(n) ==
    \E k \in FrameNumbers : sent + n > Start[k + 1] /\ Len(wire) < Len(Echoes[last][k])

ClientSends(n) ==
    /\ conn.written = ResponseSize
    /\ R!PeerSends(n)
    /\ hasty' = (hasty \/ Hurries(n))
    /\ UNCHANGED <<pc, sending, last, handshakeVars, postVars>>

Server == Greet \/ Handshake \/ HangUp \/ ReceiveThrows \/ ReceiveEchoes

EchoNext ==
    \/ Server
    \/ ClientRequests
    \/ ClientLeaves
    \/ \E n \in Segments : ClientSends(n)

\* The process runs.  Nothing is assumed of the client, nor of write(), which
\* may always take less than it is given.
EchoSpec == EchoInit /\ [][EchoNext]_echoVars /\ WF_echoVars(Server)
------------------------------------------------------------------------------
\* The client gets the echoes of its frames in order and without a gap, each as
\* the lengths of all frames up to it make it, dropped ones included.  Frames
\* that were received and not echoed are those behind a short write, for which
\* the process is stuck: nothing is ever written on behind a gap.
EchoesInOrder ==
    /\ accepted = Echoes[last][posted]
    /\ wire \o stash = accepted
    /\ posted < head - 1 => stash # <<>>

\* The process ends for a reason that the client has given, or the socket: it has
\* left, its close frame was answered in full, its request was refused, too long
\* or not there in full when handshake() looked, or a write failed.
LeavesForAReason ==
    /\ pc = "left" =>
        \/ conn.ended
        \/ last # 0 /\ wire = Echoes[last][last]
        \/ /\ conn.written = 0
           /\ \/ conn.kind # "good" \/ conn.size > HeaderLimit
              \/ conn.taken < conn.size \/ conn.failed
    /\ pc = "died" => stash # <<>> \/ R!Refused(Stream[head])

\* The echoes of the first k frames can be told apart: the length that each states
\* is that of its payload.  (It is not when the bits of several lengths add up to
\* another one, as LengthIsRight of module WsFrame shows.)
Readable(k) ==
    \A i \in 1 .. k :
        \/ Extended(EchoBits(last, i)) > 0
        \/ F!Number(EchoBits(last, i)) = Payload(last, i)

\* A client that waits for each echo before it goes on gets the next one too,
\* however its frames are cut, as long as it can read the echoes, unless it
\* leaves, its frame is refused, or a write was short or failed.
PatientClientIsServed ==
    \A k \in FrameNumbers :
        pc = "serve" /\ ~hasty /\ sent = Start[k + 1] /\ Readable(k)
            ~> \/ Len(wire) >= Len(Echoes[last][k])
               \/ hasty \/ conn.ended \/ R!Refused(Stream[k])
               \/ stash # <<>>

\* A good request that is there in full when the server first looks is answered,
\* unless the first write fails; the answer may stay incomplete.
WholeRequestIsAnswered ==
    pc = "greet" /\ conn.arrived = conn.size /\ conn.kind = "good" /\ conn.size <= HeaderLimit
        ~> conn.written > 0 \/ conn.failed
==============================================================================
