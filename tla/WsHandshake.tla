----------------------------- MODULE WsHandshake -----------------------------
(***************************************************************************)
(* The opening handshake of ashe::WebSocket (src/WebSocket.cpp,            *)
(* handshake()): the request is collected in handshakeStash until the empty*)
(* line, then answered; what write() does not take of the answer goes into *)
(* the same handshakeStash and is written by the following calls.          *)
(*                                                                         *)
(* Bytes are counted, not spelled.  A request is of one of three kinds: it *)
(* is answered, its key is missing, or one of its lines is refused.        *)
(***************************************************************************)
EXTENDS Integers

CONSTANTS RequestSizes,   \* the lengths of clients' requests
          ResponseSize,   \* the length of the answer
          HeaderLimit,    \* headerLimit
          BufferSize,     \* bufferSize - 1: the most one read() returns
          Reassign        \* whether a connected object may be assigned another
                          \* connection without close()

ASSUME WsHandshakeAssumption ==
    /\ RequestSizes \subseteq Nat \ {0} /\ ResponseSize \in Nat \ {0}
    /\ HeaderLimit \in Nat /\ BufferSize \in Nat \ {0}
    /\ Reassign \in BOOLEAN

VARIABLES conn,      \* the connection, see Connection
          handshakeStash,     \* how much of the request handshakeStash holds
          owed,      \* how much of the answer handshakeStash holds
          reading,   \* handshake() is in its reading loop
          was,       \* wasHandshaking
          shook,     \* handshook
          result     \* how the last handshake() ended

hsVars == <<conn, handshakeStash, owed, reading, was, shook, result>>

Kinds == {"good", "keyless", "refused"}

\* What the outside knows of the connection that fd denotes.
Connection ==
    [ open : BOOLEAN,            \* fd is not -1
      kind : Kinds,          \* what the client's request is like
      size : RequestSizes,   \* how long it is
      arrived : Nat,         \* bytes of it that reached the socket
      taken : Nat,           \* bytes of it that were read
      hole : BOOLEAN,        \* some of them were read and thrown away
      ended : BOOLEAN,       \* the client has shut its side down
      written : Nat,         \* bytes of the answer that were written
      failed : BOOLEAN ]     \* the first write of the answer failed

NewConnection(kind, size) ==
    [ open |-> TRUE, kind |-> kind, size |-> size, arrived |-> 0, taken |-> 0, hole |-> FALSE,
      ended |-> FALSE, written |-> 0, failed |-> FALSE ]

Results ==
    {"none", "done", "already", "errno", "end", "limit", "invalid", "partial"}

HsInit ==
    /\ \E k \in Kinds : \E n \in RequestSizes : conn = NewConnection(k, n)
    /\ handshakeStash = 0 /\ owed = 0
    /\ reading = FALSE /\ was = FALSE /\ shook = FALSE
    /\ result = "none"

\* handshake() ends.
Return(r) == reading' = FALSE /\ result' = r

CanCall == ~reading

\* handshake() after a successful one.
CallAgain ==
    /\ CanCall /\ shook
    /\ Return("already")
    /\ UNCHANGED <<conn, handshakeStash, owed, was, shook>>

\* handshake() enters its loop.
CallRead ==
    /\ CanCall /\ ~shook /\ ~was
    /\ reading' = TRUE
    /\ UNCHANGED <<conn, handshakeStash, owed, was, shook, result>>

\* Mutant of CallResume: the whole answer is written again.
CallResumeWhole ==
    /\ CanCall /\ ~shook /\ was
    /\ \E n \in 1 .. ResponseSize :
        /\ conn' = [conn EXCEPT !.written = @ + n]
        /\ owed' = owed - n
        /\ Return("partial")
        /\ UNCHANGED <<handshakeStash, was, shook>>

\* handshake() goes on with the answer.  The handshakeStash is not cleared when the last
\* piece of it is written.  (That header and values are not set then is in
\* module WsHeader.)
CallResume ==
    /\ CanCall /\ ~shook /\ was
    /\ \/ /\ Return("errno")
          /\ UNCHANGED <<conn, handshakeStash, owed, was, shook>>
       \/ \E n \in 1 .. owed - 1 :
            /\ conn' = [conn EXCEPT !.written = @ + n]
            /\ owed' = owed - n
            /\ Return("partial")
            /\ UNCHANGED <<handshakeStash, was, shook>>
       \/ /\ conn' = [conn EXCEPT !.written = @ + owed]
          /\ was' = FALSE /\ shook' = TRUE
          /\ Return("done")
          /\ UNCHANGED <<handshakeStash, owed>>

Smaller(a, b) == IF a < b THEN a ELSE b

\* The bytes that one read() returns; none, when fd is -1.
Chunk == IF conn.open THEN Smaller(conn.arrived - conn.taken, BufferSize) ELSE 0

\* Mutant of Overlong: the limit is compared before the bytes are added.
OverlongBefore == handshakeStash > HeaderLimit

Overlong == Chunk + handshakeStash > HeaderLimit

\* A read that would exceed the limit: its bytes are thrown away.
ReadTooMuch ==
    /\ reading /\ Chunk > 0 /\ Overlong
    /\ conn' = [conn EXCEPT !.taken = @ + Chunk, !.hole = TRUE]
    /\ Return("limit")
    /\ UNCHANGED <<handshakeStash, owed, was, shook>>

\* The request as it looks in the handshakeStash when its last byte was read.  With a
\* hole in it, it may be anything, and its end may not be recognised.
Seen == IF conn.hole THEN Kinds \cup {"unfinished"} ELSE {conn.kind}

\* Mutant of ReadMore: the loop is left after a read that returned something.
ReadMoreOnce ==
    /\ reading /\ Chunk > 0 /\ ~Overlong
    /\ conn.taken + Chunk < conn.size \/ "unfinished" \in Seen
    /\ handshakeStash' = handshakeStash + Chunk
    /\ conn' = [conn EXCEPT !.taken = @ + Chunk]
    /\ Return("errno")
    /\ UNCHANGED <<owed, was, shook>>

\* A read that does not bring the empty line: the loop goes on.
ReadMore ==
    /\ reading /\ Chunk > 0 /\ ~Overlong
    /\ conn.taken + Chunk < conn.size \/ "unfinished" \in Seen
    /\ handshakeStash' = handshakeStash + Chunk
    /\ conn' = [conn EXCEPT !.taken = @ + Chunk]
    /\ UNCHANGED <<owed, reading, was, shook, result>>

\* Mutant of ReadsLast: the end of a line is taken for the empty line.
ReadsLine ==
    /\ reading /\ Chunk > 0 /\ ~Overlong
    /\ conn.taken + Chunk >= conn.size - 2

\* The bytes that arrived complete the request.
ReadsLast ==
    /\ reading /\ Chunk > 0 /\ ~Overlong
    /\ conn.taken + Chunk = conn.size

\* A line is refused, or the key is missing (then an HTTP 400 is written).
ReadInvalid ==
    /\ ReadsLast
    /\ Seen \cap {"keyless", "refused"} # {}
    /\ handshakeStash' = handshakeStash + Chunk
    /\ conn' = [conn EXCEPT !.taken = @ + Chunk]
    /\ Return("invalid")
    /\ UNCHANGED <<owed, was, shook>>

\* Mutant of Answer: handshook is set although a part of the answer is pending.
AnswerShakesEarly ==
    /\ \E n \in 1 .. ResponseSize :
        /\ conn' = [conn EXCEPT !.taken = @ + Chunk, !.written = n]
        /\ handshakeStash' = 0 /\ owed' = ResponseSize - n
        /\ was' = FALSE /\ shook' = TRUE
        /\ Return("done")

\* The first write of the answer.  When it fails, the request stays in the
\* handshakeStash, and nothing tells the next call that it was complete.  (For header and
\* values see module WsHeader.)
Answer ==
    \/ /\ conn' = [conn EXCEPT !.taken = @ + Chunk, !.failed = TRUE]
       /\ handshakeStash' = handshakeStash + Chunk
       /\ Return("errno")
       /\ UNCHANGED <<owed, was, shook>>
    \/ \E n \in 1 .. ResponseSize - 1 :
        /\ conn' = [conn EXCEPT !.taken = @ + Chunk, !.written = n]
        /\ handshakeStash' = 0 /\ owed' = ResponseSize - n
        /\ was' = TRUE
        /\ Return("partial")
        /\ UNCHANGED shook
    \/ /\ conn' = [conn EXCEPT !.taken = @ + Chunk, !.written = ResponseSize]
       /\ handshakeStash' = 0 /\ owed' = 0
       /\ was' = FALSE /\ shook' = TRUE
       /\ Return("done")

ReadGood ==
    /\ ReadsLast
    /\ "good" \in Seen
    /\ Answer

\* Mutant of ReadFails: the next call collects the request afresh.
ReadFailsAfresh ==
    /\ reading /\ Chunk = 0 /\ ~(conn.open /\ conn.ended)
    /\ Return("errno")
    /\ handshakeStash' = 0
    /\ UNCHANGED <<conn, owed, was, shook>>

\* read() fails with EAGAIN, a signal interrupts it, or fd is -1.
ReadFails ==
    /\ reading /\ Chunk = 0 /\ ~(conn.open /\ conn.ended)
    /\ Return("errno")
    /\ UNCHANGED <<conn, handshakeStash, owed, was, shook>>

\* read() returns 0.
ReadEnd ==
    /\ reading /\ Chunk = 0 /\ conn.open /\ conn.ended
    /\ Return("end")
    /\ UNCHANGED <<conn, handshakeStash, owed, was, shook>>

\* close(): __clearStash and __clearRequest.
HsClose ==
    /\ ~reading
    /\ conn' = [conn EXCEPT !.open = FALSE]
    /\ handshakeStash' = 0 /\ owed' = 0 /\ was' = FALSE
    /\ shook' = FALSE
    /\ result' = "none"
    /\ UNCHANGED reading

\* operator=, with a connection that accept() returned: __construct copies fd
\* and calls __clearStash, but not __clearRequest.
HsAssign(kind, size) ==
    /\ ~reading
    /\ ~conn.open \/ Reassign
    /\ conn' = NewConnection(kind, size)
    /\ handshakeStash' = 0 /\ owed' = 0 /\ was' = FALSE
    /\ result' = "none"
    /\ UNCHANGED <<reading, shook>>

ClientSends ==
    /\ conn.open /\ ~conn.ended
    /\ \E n \in 1 .. conn.size - conn.arrived :
        conn' = [conn EXCEPT !.arrived = @ + n]
    /\ UNCHANGED <<handshakeStash, owed, reading, was, shook, result>>

ClientEnds ==
    /\ conn.open /\ ~conn.ended
    /\ conn' = [conn EXCEPT !.ended = TRUE]
    /\ UNCHANGED <<handshakeStash, owed, reading, was, shook, result>>

Read ==
    \/ ReadTooMuch \/ ReadMore \/ ReadInvalid \/ ReadGood
    \/ ReadFails \/ ReadEnd

Call == CallAgain \/ CallRead \/ CallResume

HsNext ==
    \/ Call
    \/ Read
    \/ HsClose
    \/ \E k \in Kinds, n \in RequestSizes : HsAssign(k, n)
    \/ ClientSends
    \/ ClientEnds

HsSpec == HsInit /\ [][HsNext]_hsVars

------------------------------------------------------------------------------
HsTypeOK ==
    /\ conn \in Connection
    /\ conn.taken <= conn.arrived /\ conn.arrived <= conn.size
    /\ handshakeStash \in Nat /\ owed \in Nat
    /\ reading \in BOOLEAN /\ was \in BOOLEAN
    /\ shook \in BOOLEAN
    /\ result \in Results

\* handshakeStash never holds more of the request than headerLimit, however the
\* request is cut and however often handshake() is called again.
HeaderBounded == handshakeStash <= HeaderLimit

\* The client gets the answer once, whole and in order: what was written and
\* what is pending are together the answer, and handshook means all of it.
AnswerIsWhole ==
    /\ was => conn.written + owed = ResponseSize /\ owed > 0
    /\ shook => conn.open /\ conn.written = ResponseSize
    /\ ~was /\ ~shook => conn.written = 0 \/ ~conn.open

\* Nobody is answered before the whole request was read, nor is a client whose
\* request is invalid.
AnswerIsDeserved ==
    conn.written > 0 =>
        /\ conn.taken = conn.size
        /\ conn.hole \/ conn.kind = "good"

\* What was read of a request is kept for the next call, and nothing of an earlier
\* connection stands before it: the lines that handshake() parses are those of
\* the client it answers.  A read over the limit is thrown away; that is a hole.
RequestIsKept ==
    conn.open /\ ~shook /\ ~was /\ ~conn.hole => handshakeStash = conn.taken

\* A call of handshake() that finds the rest of a good request at the socket, of a
\* size that the limit allows, does not end without having answered it: whatever
\* earlier calls have read, and whatever the chunks.  Only the write of the
\* answer may fail.
Served ==
    /\ reading /\ conn.open
    /\ conn.kind = "good" /\ ~conn.hole
    /\ conn.arrived = conn.size /\ conn.size <= HeaderLimit
    ~> conn.written > 0 \/ conn.failed

\* What handshake() says when it throws "Handshake already done."
\* (src/WebSocket.cpp:241): this connection was answered.
AlreadyMeansDone == result = "already" => conn.written = ResponseSize
==============================================================================
