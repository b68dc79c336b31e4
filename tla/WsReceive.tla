------------------------------ MODULE WsReceive ------------------------------
(***************************************************************************)
(* The receiving half of ashe::WebSocket (src/WebSocket.cpp): receive(),   *)
(* stash[0], remainingRead, and the constructor of Frame that parses the   *)
(* stash.                                                                  *)
(*                                                                         *)
(* The bytes the peer writes are the frames of Stream one after the other. *)
(* A byte is known by its position, so stash[0] is the window front .. got *)
(* of the stream: receive() appends to it by moving got, and the Frame     *)
(* constructor erases from it by moving front.                             *)
(***************************************************************************)
EXTENDS Integers, Sequences

CONSTANTS Stream,       \* the frames the peer writes, in order
          Start,        \* Start[k]: the position of frame k
          BufferSize,   \* bufferSize: the most one read() returns
          Limits,       \* what setFrameSizeLimit() is called with
          Segments      \* the sizes in which the peer's bytes arrive

\* What the first bytes of a frame say.  ext is the number of bytes of the
\* extended payload length (RFC 6455, 5.2).
FrameHead ==
    [ext : {0, 2, 8}, mask : BOOLEAN, rsv : BOOLEAN, payload : Nat]

MaskSize(f) == IF f.mask THEN 4 ELSE 0

\* Frame::getFrameSize() of a frame that has no payload yet.
FrameSize(f) == 2 + f.ext + MaskSize(f)

Size(f) == FrameSize(f) + f.payload

ASSUME WsReceiveAssumption ==
    /\ Stream \in Seq(FrameHead)
    /\ Start \in [1 .. Len(Stream) + 1 -> Nat]
    /\ Start[1] = 0
    /\ \A k \in 1 .. Len(Stream) : Start[k + 1] = Start[k] + Size(Stream[k])
    /\ BufferSize \in Nat \ {0}
    /\ Limits \subseteq Nat /\ Limits # {}
    /\ Segments \subseteq Nat \ {0}

VARIABLES sent,       \* how many bytes of the stream have arrived at the socket
          closed,     \* the peer has shut its side down
          nonBlock,   \* O_NONBLOCK is set on the socket
          limit,      \* frameSizeLimit
          got,        \* how many bytes receive() has put into stash[0] so far
          front,      \* how many bytes were erased from stash[0] so far
          head,       \* the frame at the front of stash[0]
          remaining,  \* remainingRead
          outcome     \* how the last receive() ended

vars == <<sent, closed, nonBlock, limit, got, front, head, remaining, outcome>>

StreamEnd == Start[Len(Stream) + 1]

\* How receive() ends: it returns a frame, or it throws.  need is the absolute
\* value of the ssize_t thrown: positive for "more" and "oversize", negative
\* for "missing".  After "terminate" the program is gone.
Outcome ==
    [ kind : { "none", "frame", "more", "oversize", "missing", "protocol",
               "errno", "terminate" },
      need : Nat ]

Ended(kind, need) == [kind |-> kind, need |-> need]

\* Mutant of Parsed: the mask is forgotten in what must be in the stash.
ParsedWithoutMask(f, m) ==
    IF m < 2 THEN Ended("more", 2 - m)
    ELSE IF m < Size(f) - MaskSize(f) THEN Ended("missing", Size(f) - m)
    ELSE Ended("frame", 0)

\* Mutant of Parsed: what is missing is not reduced by what the stash holds.
ParsedWholeSize(f, m) ==
    IF m < 2 THEN Ended("more", 2 - m)
    ELSE IF m < Size(f) THEN Ended("missing", Size(f))
    ELSE Ended("frame", 0)

\* The Frame constructor on a stash that holds the first m bytes of f, with
\* its early throws in their order.
Parsed(f, m) ==
    IF m < 2 THEN Ended("more", 2 - m)
    ELSE IF f.rsv THEN Ended("protocol", 0)
    ELSE IF m < 2 + f.ext THEN Ended("more", f.ext + MaskSize(f))
    ELSE IF Size(f) > limit THEN Ended("oversize", Size(f))
    ELSE IF m < Size(f) THEN Ended("missing", Size(f) - m)
    ELSE Ended("frame", 0)

\* Mutant of Erased: pos is not moved past the extended length.
ErasedWithoutExt(f) == 2 + MaskSize(f) + f.payload

\* How many bytes the Frame constructor erases from the stash: pos.
Erased(f) == 2 + f.ext + MaskSize(f) + f.payload

Init ==
    /\ sent = 0
    /\ closed = FALSE
    /\ nonBlock = FALSE
    /\ limit \in Limits
    /\ got = 0
    /\ front = 0
    /\ head = 1
    /\ remaining = 0
    /\ outcome = Ended("none", 0)

\* The stash is handed to the Frame constructor; what a frame lacks is added
\* to remainingRead, which is zero at this point.
Parse(m) ==
    LET o == Parsed(Stream[head], m)
    IN /\ outcome' = o
       /\ remaining' = IF o.kind = "missing" THEN o.need ELSE 0
       /\ IF o.kind = "frame"
          THEN front' = front + Erased(Stream[head]) /\ head' = head + 1
          ELSE UNCHANGED <<front, head>>

\* remainingRead is compared with, and reduced by, the whole of the stash.
StillShort(m) ==
    /\ remaining' = remaining - m
    /\ outcome' = Ended("missing", remaining - m)
    /\ UNCHANGED <<front, head>>

\* Mutant of Digest: remainingRead is neither reduced nor reset.
DigestKeeping(m) ==
    \/ /\ remaining > m
       /\ outcome' = Ended("missing", remaining)
       /\ UNCHANGED <<front, head, remaining>>
    \/ /\ remaining <= m
       /\ LET o == Parsed(Stream[head], m)
          IN /\ outcome' = o
             /\ remaining' = remaining + (IF o.kind = "missing" THEN o.need ELSE 0)
             /\ IF o.kind = "frame"
                THEN front' = front + Erased(Stream[head]) /\ head' = head + 1
                ELSE UNCHANGED <<front, head>>

\* Mutant of Digest: remainingRead is reduced without the comparison.
DigestUncompared(m) ==
    \/ remaining # 0 /\ StillShort(m)
    \/ remaining = 0 /\ Parse(m)

\* receive() after its read(), with m bytes in stash[0].
Digest(m) ==
    \/ remaining > m /\ StillShort(m)
    \/ remaining <= m /\ Parse(m)

Alive == outcome.kind # "terminate"

Smaller(a, b) == IF a < b THEN a ELSE b

\* receive() when bytes wait at the socket.
ReceiveBytes ==
    /\ Alive
    /\ got < sent
    /\ got' = got + Smaller(sent - got, BufferSize)
    /\ Digest(got' - front)
    /\ UNCHANGED <<sent, closed, nonBlock, limit>>

\* receive() at the end of the stream: read() returns 0, and the stash is
\* parsed all the same.
ReceiveAtEnd ==
    /\ Alive
    /\ got = sent /\ closed
    /\ Digest(got - front)
    /\ UNCHANGED <<sent, closed, nonBlock, limit, got>>

\* receive() on a non-blocking socket with nothing to read: read() returns -1.
\* errno is thrown only if the stash is empty.  Otherwise the code inserts the
\* range buf.begin() .. buf.begin() - 1, std::vector throws length_error, and
\* the exception specification of receive() ends the program.
ReceiveNothing ==
    /\ Alive
    /\ got = sent /\ ~closed /\ nonBlock
    /\ outcome' = Ended(IF got = front THEN "errno" ELSE "terminate", 0)
    /\ UNCHANGED <<sent, closed, nonBlock, limit, got, front, head, remaining>>

\* setNonBlock(b).  "flags &= O_NONBLOCK" does not clear the flag.
SetNonBlock(b) ==
    /\ Alive
    /\ nonBlock' = (nonBlock \/ b)
    /\ UNCHANGED <<sent, closed, limit, got, front, head, remaining, outcome>>

\* setFrameSizeLimit().
SetFrameSizeLimit(n) ==
    /\ Alive
    /\ limit' = n
    /\ UNCHANGED <<sent, closed, nonBlock, got, front, head, remaining, outcome>>

PeerSends(n) ==
    /\ ~closed
    /\ sent + n <= StreamEnd
    /\ sent' = sent + n
    /\ UNCHANGED <<closed, nonBlock, limit, got, front, head, remaining, outcome>>

\* The peer may leave in the middle of a frame.
PeerCloses ==
    /\ ~closed
    /\ closed' = TRUE
    /\ UNCHANGED <<sent, nonBlock, limit, got, front, head, remaining, outcome>>

Receive == ReceiveBytes \/ ReceiveAtEnd \/ ReceiveNothing

Next ==
    \/ Receive
    \/ \E b \in BOOLEAN : SetNonBlock(b)
    \/ \E n \in Limits : SetFrameSizeLimit(n)
    \/ \E n \in Segments : PeerSends(n)
    \/ PeerCloses

Spec == Init /\ [][Next]_vars

\* The loop of examples/echowsserver.cpp: it calls receive() again after a frame
\* and after a ssize_t, also at the end of the stream, and leaves at a string or
\* an int.  (It leaves at a close frame too, which Stream has none of.)
GoesOn == outcome.kind \notin {"protocol", "errno", "terminate"}

\* That loop runs as long as it goes on.  Its echoes are taken to be written: a
\* peer that has shut its side down still reads.
FairSpec == Spec /\ WF_vars(GoesOn /\ Receive)
------------------------------------------------------------------------------
TypeOK ==
    /\ sent \in Nat /\ got \in Nat /\ front \in Nat /\ remaining \in Nat
    /\ closed \in BOOLEAN /\ nonBlock \in BOOLEAN /\ limit \in Nat
    /\ head \in 1 .. Len(Stream) + 1
    /\ outcome \in Outcome

\* However the stream is cut into reads, the stash begins with the first byte
\* of a frame: the parser never takes payload for a header.
Aligned == front = Start[head]

\* The parser erases only bytes that were read, and read() invents none: no
\* frame is returned before its last byte has come.
WithinStash == front <= got /\ got <= sent

\* A frame that lies complete in the stash is never held back for missing
\* bytes, although remainingRead is compared with the whole of the stash.
CompleteIsDelivered ==
    outcome.kind = "missing" => head <= Len(Stream) /\ got < Start[head + 1]

\* Frames whose length is coded in the shortest way, as RFC 6455 demands.
Minimal(f) ==
    f.ext = IF f.payload < 126 THEN 0 ELSE IF f.payload < 65536 THEN 2 ELSE 8

\* The number of bytes that receive() says it lacks is never more than the
\* frame lacks: a caller that waits for that many does not wait for ever.
NeedIsLowerBound ==
    /\ outcome.kind \in {"more", "missing"}
    /\ head <= Len(Stream)
    /\ Minimal(Stream[head])
    => 0 < outcome.need /\ outcome.need <= Start[head + 1] - got

\* receive() throws what its exception specification (libashe/WebSocket.h:155)
\* lists and nothing else.
OnlyDeclaredExceptions == outcome.kind # "terminate"

\* Frames that the parser refuses, as long as the limit stays.
Refused(f) == f.rsv \/ Size(f) > limit

\* Nothing is left for receive() to return: the frame at the front is refused,
\* or the peer has not sent the whole of it.
AllDelivered ==
    \/ ~Alive
    \/ head > Len(Stream)
    \/ Refused(Stream[head])
    \/ sent < Start[head + 1]

\* When the peer has closed, every complete frame that it sent is returned to a
\* caller that goes on after each call, up to the first frame that is refused.
EverythingIsDelivered == closed /\ GoesOn ~> AllDelivered
==============================================================================
