-------------------------- MODULE WsConnectionProofs --------------------------
(***************************************************************************)
(* One WebSocket object, for all requests, answers, frames and buffers:    *)
(* first post() by itself, however write() takes the frames, then          *)
(* handshake() by itself, however the request is cut and the answer taken, *)
(* then the two on one socket: the object does what each of them by itself *)
(* does, and its frames come after the answer.                             *)
(***************************************************************************)
EXTENDS WsConnection, SequenceTheorems, TLAPS

\* What post() keeps.
PostInv == TypeOK /\ WireIsWhole /\ AnswerIsExact

\* A sequence cut in two is its two parts, and both of them are sequences.
LEMMA Cut ==
    ASSUME NEW b \in Seq(Byte), NEW n \in 1 .. Len(b) - 1
    PROVE  /\ SubSeq(b, 1, n) \in Seq(Byte)
           /\ SubSeq(b, n + 1, Len(b)) \in Seq(Byte)
           /\ Len(SubSeq(b, n + 1, Len(b))) = Len(b) - n
           /\ SubSeq(b, 1, n) \o SubSeq(b, n + 1, Len(b)) = b
<1>1. Len(b) \in Nat /\ n \in Nat /\ n >= 1 /\ n <= Len(b) - 1
  BY LenProperties
<1>2. \A i \in 1 .. Len(b) : b[i] \in Byte
  BY ElementOfSeq
<1>3. SubSeq(b, 1, n) \in Seq(Byte)
  <2>1. \A i \in 1 .. n : b[i] \in Byte
    BY <1>1, <1>2
  <2>2. 1 \in Int /\ n \in Int
    BY <1>1
  <2> QED BY <2>1, <2>2, SubSeqProperties
<1>4. /\ SubSeq(b, n + 1, Len(b)) \in Seq(Byte)
      /\ Len(SubSeq(b, n + 1, Len(b))) = Len(b) - n
  <2>1. \A i \in n + 1 .. Len(b) : b[i] \in Byte
    BY <1>1, <1>2
  <2>2. n + 1 \in Int /\ Len(b) \in Int /\ n + 1 <= Len(b)
    BY <1>1
  <2>3. /\ SubSeq(b, n + 1, Len(b)) \in Seq(Byte)
        /\ Len(SubSeq(b, n + 1, Len(b))) = Len(b) - (n + 1) + 1
    BY <2>1, <2>2, SubSeqProperties
  <2> QED BY <1>1, <2>3
<1>5. SubSeq(b, 1, n) \o SubSeq(b, n + 1, Len(b)) = SubSeq(b, 1, Len(b))
  <2>1. /\ 1 \in 1 .. Len(b) + 1 /\ n \in 1 - 1 .. Len(b)
        /\ Len(b) \in n .. Len(b)
    BY <1>1
  <2> QED BY <2>1, ConcatAdjacentSubSeq
<1>6. SubSeq(b, 1, Len(b)) = b
  BY SubSeqFull
<1> QED BY <1>3, <1>4, <1>5, <1>6

\* Concatenation is associative, on sequences of bytes.
LEMMA Joined ==
    ASSUME NEW s \in Seq(Byte), NEW t \in Seq(Byte), NEW u \in Seq(Byte)
    PROVE  (s \o t) \o u = s \o (t \o u)
BY ConcatAssociative

\* Whatever write() takes, the wire and the stash together gain the bytes that
\* were given to it, and the answer says what is pending.
LEMMA WriteIsWhole ==
    ASSUME NEW b \in Seq(Byte), b # <<>>, wire \in Seq(Byte), Write(b)
    PROVE  /\ wire' \in Seq(Byte) /\ stash' \in Seq(Byte)
           /\ outcome' \in Outcome
           /\ wire' \o stash' = wire \o b
           /\ outcome'.kind = "done" => wire' = wire \o b
           /\ outcome'.kind = "owes" =>
                outcome'.owed > 0 /\ outcome'.owed = Len(stash')
           /\ outcome'.kind = "errno" => stash' # <<>>
<1>1. CASE WriteFails(b)
  <2>1. outcome' = [kind |-> "errno", owed |-> 0]
    BY <1>1 DEF WriteFails, Ended
  <2> QED BY <1>1, <2>1 DEF WriteFails, Outcome
<1>2. CASE WritesSome(b)
  <2>1. PICK n \in 1 .. Len(b) - 1 :
            /\ wire' = wire \o SubSeq(b, 1, n)
            /\ stash' = SubSeq(b, n + 1, Len(b))
            /\ outcome' = Ended("owes", Len(b) - n)
    BY <1>2 DEF WritesSome
  <2>2. outcome' = [kind |-> "owes", owed |-> Len(b) - n]
    BY <2>1 DEF Ended
  <2>3. Len(b) - n \in Nat /\ Len(b) - n > 0
    BY LenProperties
  <2>4. outcome' \in Outcome
    BY <2>2, <2>3 DEF Outcome
  <2>5. /\ SubSeq(b, 1, n) \in Seq(Byte)
        /\ SubSeq(b, n + 1, Len(b)) \in Seq(Byte)
        /\ Len(SubSeq(b, n + 1, Len(b))) = Len(b) - n
        /\ SubSeq(b, 1, n) \o SubSeq(b, n + 1, Len(b)) = b
    BY Cut
  <2>6. wire' \o stash' = wire \o b
    <3> DEFINE a == SubSeq(b, 1, n)
               c == SubSeq(b, n + 1, Len(b))
    <3>1. /\ a \in Seq(Byte) /\ c \in Seq(Byte) /\ a \o c = b
          /\ wire' = wire \o a /\ stash' = c
      BY <2>1, <2>5
    <3> HIDE DEF a, c
    <3>2. (wire \o a) \o c = wire \o (a \o c)
      BY <3>1, Joined
    <3> QED BY <3>1, <3>2, Zenon
  <2>7. wire' \in Seq(Byte)
    BY <2>1, <2>5, ConcatProperties
  <2> QED BY <2>1, <2>2, <2>3, <2>4, <2>5, <2>6, <2>7
<1>3. CASE WritesAll(b)
  <2>1. outcome' = [kind |-> "done", owed |-> 0] /\ stash' = <<>>
    BY <1>3 DEF WritesAll, Ended
  <2>2. wire' = wire \o b /\ wire' \in Seq(Byte)
    BY <1>3, ConcatProperties DEF WritesAll
  <2>3. wire' \o stash' = wire \o b
    BY <2>1, <2>2, ConcatEmptySeq
  <2>4. outcome' \in Outcome
    BY <2>1 DEF Outcome
  <2>5. stash' \in Seq(Byte)
    BY <2>1, EmptySeq
  <2> QED BY <2>1, <2>2, <2>3, <2>4, <2>5
<1> QED BY <1>1, <1>2, <1>3 DEF Write

\* A new WebSocket has posted nothing and owes nothing.
LEMMA InitPostInv == Init => PostInv
<1>1. ASSUME Init PROVE PostInv
  <2>1. outcome = [kind |-> "none", owed |-> 0]
    BY <1>1 DEF Init, Ended
  <2>2. <<>> \in Seq(Byte) /\ <<>> \o <<>> = <<>>
    BY EmptySeq, ConcatEmptySeq
  <2>3. TypeOK
    BY <1>1, <2>1, <2>2, WsPostAssumption DEF Init, TypeOK, Outcome
  <2>4. WireIsWhole /\ AnswerIsExact
    BY <1>1, <2>1, <2>2 DEF Init, WireIsWhole, AnswerIsExact
  <2> QED BY <2>3, <2>4 DEF PostInv
<1> QED BY <1>1

\* Every call of post(), of flush(), of close() and of = keeps the invariant.
LEMMA StepPostInv == ASSUME PostInv, [Next]_vars PROVE PostInv'
<1>0. /\ open \in BOOLEAN /\ stash \in Seq(Byte) /\ wire \in Seq(Byte)
      /\ outcome \in Outcome
      /\ accepted \in Seq(Byte) /\ posted \in 0 .. MaxPosted
      /\ MaxPosted \in Nat /\ wire \o stash = accepted
  BY WsPostAssumption DEF PostInv, TypeOK, WireIsWhole
<1>1. CASE PostRefused
  <2>1. outcome' = [kind |-> "owes", owed |-> Len(stash)]
    BY <1>1 DEF PostRefused, Ended
  <2>2. Len(stash) \in Nat \ {0}
    BY <1>0, <1>1, EmptySeq DEF PostRefused
  <2>3. outcome' \in Outcome
    BY <2>1, <2>2 DEF Outcome
  <2> QED
    BY <1>0, <1>1, <2>1, <2>2, <2>3
    DEF PostRefused, PostInv, TypeOK, WireIsWhole, AnswerIsExact
<1>2. ASSUME NEW f \in Frames, PostFrame(f) PROVE PostInv'
  <2>1. f \in Seq(Byte) /\ f # <<>>
    BY WsPostAssumption
  <2>2. /\ posted < MaxPosted /\ posted' = posted + 1 /\ open' = open
        /\ stash = <<>> /\ accepted' = accepted \o f /\ Write(f)
    BY <1>2 DEF PostFrame
  <2>3. accepted = wire
    BY <1>0, <2>2, ConcatEmptySeq
  <2>4. posted' \in 0 .. MaxPosted
    BY <1>0, <2>2
  <2>5. accepted' \in Seq(Byte)
    BY <1>0, <2>1, <2>2, ConcatProperties
  <2> QED
    BY <1>0, <2>1, <2>2, <2>3, <2>4, <2>5, WriteIsWhole
    DEF PostInv, TypeOK, WireIsWhole, AnswerIsExact
<1>3. CASE Flush
  <2>1. CASE FlushPending
    BY <1>0, <2>1, WriteIsWhole
    DEF FlushPending, PostInv, TypeOK, WireIsWhole, AnswerIsExact
  <2>2. CASE /\ stash = <<>>
             /\ outcome' = Ended("done", 0)
             /\ UNCHANGED <<open, stash, wire, accepted, posted>>
    <3>1. outcome' = [kind |-> "done", owed |-> 0]
      BY <2>2 DEF Ended
    <3>2. outcome' \in Outcome
      BY <3>1 DEF Outcome
    <3>3. wire = accepted
      BY <1>0, <2>2, ConcatEmptySeq
    <3> QED
      BY <1>0, <2>2, <3>1, <3>2, <3>3
      DEF PostInv, TypeOK, WireIsWhole, AnswerIsExact
  <2> QED BY <1>3, <2>1, <2>2 DEF Flush
<1>4. ASSUME ForgetConnection, stash' = <<>>, open' \in BOOLEAN PROVE PostInv'
  <2>1. outcome' = [kind |-> "none", owed |-> 0]
    BY <1>4 DEF ForgetConnection, Ended
  <2>2. <<>> \in Seq(Byte) /\ <<>> \o <<>> = <<>>
    BY EmptySeq, ConcatEmptySeq
  <2>3. TypeOK'
    BY <1>0, <1>4, <2>1, <2>2 DEF ForgetConnection, TypeOK, Outcome
  <2>4. WireIsWhole' /\ AnswerIsExact'
    BY <1>4, <2>1, <2>2 DEF ForgetConnection, WireIsWhole, AnswerIsExact
  <2> QED BY <2>3, <2>4 DEF PostInv
<1>5. CASE Close
  BY <1>4, <1>5 DEF Close
<1>6. CASE Assign
  BY <1>4, <1>6 DEF Assign
<1>7. CASE UNCHANGED vars
  BY <1>7 DEF vars, PostInv, TypeOK, WireIsWhole, AnswerIsExact
<1> QED BY <1>1, <1>2, <1>3, <1>5, <1>6, <1>7 DEF Next

\* The invariant of post() holds of every behaviour, for any frames and any way
\* write() cuts them.  (WebSocket.cpp:171)
THEOREM PostInvariance == Spec => []PostInv
BY InitPostInv, StepPostInv, PTL DEF Spec

\* post() keeps the types of its state.
THEOREM PostTypeCorrect == Spec => []TypeOK
BY PostInvariance, PTL DEF PostInv

\* The wire and the stash together are the frames that were taken, in order.
THEOREM FramesStayWhole == Spec => []WireIsWhole
BY PostInvariance, PTL DEF PostInv

\* Every answer of post() tells exactly what is pending.
THEOREM AnswersAreExact == Spec => []AnswerIsExact
BY PostInvariance, PTL DEF PostInv

------------------------------------------------------------------------------
\* What links the phase of the handshake to the connection: while handshake()
\* reads, nothing is written; while the answer is pending, it has begun on a
\* connection that is still open.  Without it the conjuncts of AnswerIsWhole and
\* AnswerIsDeserved are not inductive: a read, or the rest of an answer, could
\* come in the wrong phase.
Phase ==
    /\ reading => ~was /\ ~shook
    /\ was => ~shook /\ conn.open /\ conn.written > 0
    /\ result \in {"done", "already"} => shook

HsInv ==
    /\ HsTypeOK /\ Phase /\ HeaderBounded
    /\ AnswerIsWhole /\ AnswerIsDeserved

\* A read returns bytes that have arrived and were not read, on an open
\* connection.
LEMMA ChunkIsThere ==
    ASSUME HsTypeOK
    PROVE  /\ Chunk \in Nat
           /\ conn.taken + Chunk <= conn.arrived
           /\ Chunk > 0 => conn.open
BY WsHandshakeAssumption DEF HsTypeOK, Connection, Chunk, Smaller

\* A new WebSocket on a new connection has not begun the handshake.
LEMMA HsInitOK == HsInit => HsInv
<1> SUFFICES ASSUME HsInit PROVE HsInv
  OBVIOUS
<1> USE WsHandshakeAssumption DEF HsInit
<1>1. PICK k \in Kinds, n \in RequestSizes : conn = NewConnection(k, n)
  OBVIOUS
<1>2. n \in Nat
  OBVIOUS
<1>3. conn \in Connection /\ conn.taken <= conn.arrived /\ conn.arrived <= conn.size
  <2>1. n \in RequestSizes /\ k \in Kinds /\ n >= 0
    BY <1>2
  <2> QED BY <1>1, <2>1 DEF Connection, NewConnection
<1>4. HsTypeOK
  BY <1>3 DEF HsTypeOK, Results
<1> QED
  BY <1>1, <1>4 DEF HsInv, Phase, HeaderBounded, AnswerIsWhole, AnswerIsDeserved, NewConnection

\* A step of the server's on the connection: it has read t bytes, and written w.
MovedTo(t, h, w, f) ==
    conn' = [conn EXCEPT !.taken = t, !.hole = h, !.written = w, !.failed = f]

\* A step that reads and writes leaves the client's side of the connection alone.
LEMMA Moved ==
    ASSUME conn \in Connection,
           NEW t \in Nat, NEW h \in BOOLEAN, NEW w \in Nat, NEW f \in BOOLEAN,
           MovedTo(t, h, w, f)
    PROVE  /\ conn' \in Connection
           /\ conn'.taken = t /\ (conn'.hole <=> h) /\ conn'.written = w
           /\ (conn'.open <=> conn.open) /\ conn'.kind = conn.kind
           /\ conn'.size = conn.size /\ conn'.arrived = conn.arrived
BY DEF Connection, MovedTo

\* Some bytes of the answer are written.
LEMMA WrittenMore ==
    ASSUME conn \in Connection, NEW n \in Nat, conn' = [conn EXCEPT !.written = @ + n]
    PROVE  /\ conn' \in Connection
           /\ conn'.written = conn.written + n
           /\ (conn'.open <=> conn.open) /\ conn'.kind = conn.kind
           /\ conn'.size = conn.size /\ conn'.arrived = conn.arrived
           /\ conn'.taken = conn.taken /\ (conn'.hole <=> conn.hole)
<1>1. /\ conn.written \in Nat /\ conn.taken \in Nat
      /\ conn.hole \in BOOLEAN /\ conn.failed \in BOOLEAN
  BY DEF Connection
<1>2. conn.written + n \in Nat
  BY <1>1
<1>3. MovedTo(conn.taken, conn.hole, conn.written + n, conn.failed)
  BY <1>1 DEF Connection, MovedTo
<1> QED BY <1>1, <1>2, <1>3, Moved

\* A call that goes on with the answer, or finds the handshake done.
LEMMA CallKeeps == ASSUME HsInv, Call PROVE HsInv'
<1> USE WsHandshakeAssumption
<1>1. CASE CallAgain
  BY <1>1 DEF CallAgain, CanCall, Return, HsInv, HsTypeOK, Results, Phase,
       HeaderBounded, AnswerIsWhole, AnswerIsDeserved
<1>2. CASE CallRead
  BY <1>2 DEF CallRead, CanCall, HsInv, HsTypeOK, Results, Phase,
       HeaderBounded, AnswerIsWhole, AnswerIsDeserved
<1>3. CASE CallResume
  <2>1. /\ ~reading /\ was /\ ~shook /\ conn.open /\ conn \in Connection
        /\ conn.written \in Nat /\ conn.written > 0 /\ owed \in Nat /\ owed > 0
        /\ conn.written + owed = ResponseSize
        /\ conn.taken = conn.size /\ (conn.hole \/ conn.kind = "good")
    BY <1>3 DEF CallResume, CanCall, HsInv, HsTypeOK, Connection, Phase,
         AnswerIsWhole, AnswerIsDeserved
  <2>2. CASE Return("errno") /\ UNCHANGED <<conn, handshakeStash, owed, was, shook>>
    BY <2>2 DEF Return, HsInv, HsTypeOK, Results, Phase,
         HeaderBounded, AnswerIsWhole, AnswerIsDeserved
  <2>3. ASSUME NEW n \in 1 .. owed - 1,
               conn' = [conn EXCEPT !.written = @ + n], owed' = owed - n,
               Return("partial"), UNCHANGED <<handshakeStash, was, shook>>
        PROVE  HsInv'
    <3>1. n \in Nat /\ n > 0 /\ owed - n \in Nat /\ owed - n > 0
      BY <2>1, <2>3
    <3>2. /\ conn' \in Connection /\ conn'.written = conn.written + n
          /\ (conn'.open <=> conn.open) /\ conn'.kind = conn.kind
          /\ conn'.size = conn.size /\ conn'.arrived = conn.arrived
          /\ conn'.taken = conn.taken /\ (conn'.hole <=> conn.hole)
      BY <2>1, <2>3, <3>1, WrittenMore
    <3>3. /\ reading' = FALSE /\ result' = "partial" /\ was' /\ ~shook'
          /\ owed' \in Nat /\ owed' > 0
          /\ conn'.written > 0 /\ conn'.written + owed' = ResponseSize
      BY <2>1, <2>3, <3>1, <3>2 DEF Return
    <3>4. handshakeStash' = handshakeStash /\ handshakeStash \in Nat
          /\ handshakeStash <= HeaderLimit /\ conn.taken <= conn.arrived
          /\ conn.arrived <= conn.size /\ was' \in BOOLEAN /\ shook' \in BOOLEAN
      BY <2>3 DEF HsInv, HsTypeOK, HeaderBounded
    <3> QED
      BY <2>1, <3>2, <3>3, <3>4 DEF HsInv, HsTypeOK, Results, Phase,
           HeaderBounded, AnswerIsWhole, AnswerIsDeserved
  <2>4. CASE /\ conn' = [conn EXCEPT !.written = @ + owed]
             /\ was' = FALSE /\ shook' = TRUE /\ Return("done")
             /\ UNCHANGED <<handshakeStash, owed>>
    <3>1. /\ conn' \in Connection /\ conn'.written = conn.written + owed
          /\ (conn'.open <=> conn.open) /\ conn'.kind = conn.kind
          /\ conn'.size = conn.size /\ conn'.arrived = conn.arrived
          /\ conn'.taken = conn.taken /\ (conn'.hole <=> conn.hole)
      BY <2>1, <2>4, WrittenMore
    <3> QED
      BY <2>1, <2>4, <3>1 DEF Return, HsInv, HsTypeOK, Results, Phase,
           HeaderBounded, AnswerIsWhole, AnswerIsDeserved
  <2> QED BY <1>3, <2>2, <2>3, <2>4 DEF CallResume
<1> QED BY <1>1, <1>2, <1>3 DEF Call

\* What every read finds: bytes of an open connection, none of whose answer has
\* been written.
LEMMA ReadFinds ==
    ASSUME HsInv, reading, Chunk > 0
    PROVE  /\ Chunk \in Nat /\ conn.taken + Chunk <= conn.arrived
           /\ conn.arrived <= conn.size /\ conn.open /\ conn.written = 0
           /\ ~was /\ ~shook
           /\ conn \in Connection /\ handshakeStash \in Nat /\ owed \in Nat
BY ChunkIsThere DEF HsInv, HsTypeOK, Phase, AnswerIsWhole

\* The reads that do not answer.
LEMMA ReadKeeps ==
    ASSUME HsInv, ReadTooMuch \/ ReadMore \/ ReadInvalid \/ ReadFails \/ ReadEnd
    PROVE  HsInv'
<1> USE WsHandshakeAssumption
<1>1. CASE ReadFails \/ ReadEnd
  <2>1. /\ reading' = FALSE /\ result' \in {"errno", "end"}
        /\ UNCHANGED <<conn, handshakeStash, owed, was, shook>>
    BY <1>1 DEF ReadFails, ReadEnd, Return
  <2> QED
    BY <2>1 DEF HsInv, HsTypeOK, Results, Phase, HeaderBounded, AnswerIsWhole,
         AnswerIsDeserved
<1>2. CASE ReadTooMuch \/ ReadMore \/ ReadInvalid
  <2>1. reading /\ Chunk > 0
    BY <1>2 DEF ReadTooMuch, ReadMore, ReadInvalid, ReadsLast
  <2>2. /\ Chunk \in Nat /\ conn.taken + Chunk <= conn.arrived
        /\ conn.arrived <= conn.size /\ conn.open /\ conn.written = 0
        /\ ~was /\ ~shook
        /\ conn \in Connection /\ handshakeStash \in Nat /\ owed \in Nat
    BY <2>1, ReadFinds
  <2>3. conn.hole \in BOOLEAN /\ conn.failed \in BOOLEAN /\ conn.taken \in Nat
    BY <2>2 DEF Connection
  <2>4. PICK t \in Nat, h \in BOOLEAN :
          t = conn.taken + Chunk /\ MovedTo(t, h, conn.written, conn.failed)
    <3>1. conn' = [conn EXCEPT !.taken = @ + Chunk, !.hole = TRUE]
          \/ conn' = [conn EXCEPT !.taken = @ + Chunk]
      BY <1>2 DEF ReadTooMuch, ReadMore, ReadInvalid
    <3>2. PICK t \in Nat : t = conn.taken + Chunk
      BY <2>2, <2>3
    <3>3. conn \in Connection
      BY <2>2
    <3>4. CASE conn' = [conn EXCEPT !.taken = @ + Chunk, !.hole = TRUE]
      <4>1. MovedTo(t, TRUE, conn.written, conn.failed)
        BY <3>2, <3>3, <3>4 DEF Connection, MovedTo
      <4> QED BY <3>2, <4>1
    <3>5. CASE conn' = [conn EXCEPT !.taken = @ + Chunk]
      <4>1. MovedTo(t, conn.hole, conn.written, conn.failed)
        BY <3>2, <3>3, <3>5 DEF Connection, MovedTo
      <4> QED BY <2>3, <3>2, <4>1
    <3> QED BY <3>1, <3>4, <3>5
  <2>5. /\ conn' \in Connection
        /\ conn'.taken = t /\ (conn'.hole <=> h) /\ conn'.written = conn.written
        /\ (conn'.open <=> conn.open) /\ conn'.kind = conn.kind
        /\ conn'.size = conn.size /\ conn'.arrived = conn.arrived
    <3>1. conn.written \in Nat
      BY <2>2 DEF Connection
    <3> QED BY <2>2, <2>3, <2>4, <3>1, Moved
  <2>6. /\ UNCHANGED <<owed, was, shook>>
        /\ reading' \in BOOLEAN
        /\ result' = result \/ result' \in {"limit", "invalid"}
    BY <1>2, <2>1 DEF ReadTooMuch, ReadMore, ReadInvalid, Return
  <2>7. handshakeStash' \in Nat /\ handshakeStash' <= HeaderLimit
    <3>1. CASE ReadTooMuch
      BY <3>1, <2>2 DEF ReadTooMuch, HsInv, HeaderBounded
    <3>2. CASE ReadMore \/ ReadInvalid
      BY <3>2, <2>2 DEF ReadMore, ReadInvalid, ReadsLast, Overlong
    <3> QED BY <1>2, <3>1, <3>2
  <2> QED
    BY <2>2, <2>4, <2>5, <2>6, <2>7 DEF HsInv, HsTypeOK, Results, Phase, HeaderBounded,
         AnswerIsWhole, AnswerIsDeserved
<1> QED BY <1>1, <1>2

\* The answer of a request that was read to its end.
LEMMA AnswerKeeps == ASSUME HsInv, ReadGood PROVE HsInv'
<1> USE WsHandshakeAssumption
<1>1. reading /\ Chunk > 0 /\ ~Overlong /\ conn.taken + Chunk = conn.size
      /\ (conn.hole \/ conn.kind = "good") /\ Answer
  BY DEF ReadGood, ReadsLast, Seen
<1>2. /\ Chunk \in Nat /\ conn.taken + Chunk <= conn.arrived
      /\ conn.arrived <= conn.size /\ conn.open /\ conn.written = 0
      /\ ~was /\ ~shook
      /\ conn \in Connection /\ handshakeStash \in Nat /\ owed \in Nat
  BY <1>1, ReadFinds
<1>3. conn.hole \in BOOLEAN /\ conn.failed \in BOOLEAN /\ conn.taken \in Nat
      /\ conn.written \in Nat
  BY <1>2 DEF Connection
<1>4. PICK t \in Nat : t = conn.taken + Chunk
  BY <1>2, <1>3
<1>5. ASSUME NEW w \in Nat, NEW f \in BOOLEAN, MovedTo(t, conn.hole, w, f)
      PROVE  /\ conn' \in Connection
             /\ conn'.taken = t /\ (conn'.hole <=> conn.hole) /\ conn'.written = w
             /\ (conn'.open <=> conn.open) /\ conn'.kind = conn.kind
             /\ conn'.size = conn.size /\ conn'.arrived = conn.arrived
  BY <1>2, <1>3, <1>4, <1>5, Moved
<1>6. handshakeStash + Chunk \in Nat /\ handshakeStash + Chunk <= HeaderLimit
  BY <1>1, <1>2 DEF Overlong
<1>7. CASE /\ conn' = [conn EXCEPT !.taken = @ + Chunk, !.failed = TRUE]
           /\ handshakeStash' = handshakeStash + Chunk
           /\ Return("errno") /\ UNCHANGED <<owed, was, shook>>
  <2>1. MovedTo(t, conn.hole, conn.written, TRUE)
    BY <1>2, <1>3, <1>4, <1>7 DEF Connection, MovedTo
  <2>2. /\ conn' \in Connection /\ conn'.taken = t /\ conn'.written = conn.written
        /\ conn'.size = conn.size /\ conn'.arrived = conn.arrived
    BY <1>3, <1>5, <2>1
  <2>4. HsTypeOK'
    BY <1>2, <1>4, <1>6, <1>7, <2>2 DEF Return, HsInv, HsTypeOK, Results
  <2>5. Phase' /\ HeaderBounded'
    BY <1>2, <1>4, <1>6, <1>7, <2>2 DEF Return, HsInv, HsTypeOK, Phase, HeaderBounded
  <2>6. AnswerIsWhole'
    BY <1>2, <1>4, <1>6, <1>7, <2>2 DEF Return, HsInv, HsTypeOK, Phase, AnswerIsWhole
  <2>7. AnswerIsDeserved'
    BY <1>2, <1>4, <1>6, <1>7, <2>2 DEF Return, HsInv, HsTypeOK, Phase, AnswerIsDeserved
  <2> QED BY <2>4, <2>5, <2>6, <2>7 DEF HsInv
<1>8. ASSUME NEW n \in 1 .. ResponseSize - 1,
             conn' = [conn EXCEPT !.taken = @ + Chunk, !.written = n],
             handshakeStash' = 0, owed' = ResponseSize - n, was' = TRUE,
             Return("partial"), UNCHANGED shook
      PROVE  HsInv'
  <2>1. n \in Nat /\ n > 0 /\ ResponseSize - n \in Nat /\ ResponseSize - n > 0
    BY <1>8
  <2>2. MovedTo(t, conn.hole, n, conn.failed)
    BY <1>2, <1>3, <1>4, <1>8 DEF Connection, MovedTo
  <2>3. /\ conn' \in Connection /\ conn'.taken = t /\ (conn'.hole <=> conn.hole)
        /\ conn'.written = n /\ (conn'.open <=> conn.open) /\ conn'.kind = conn.kind
        /\ conn'.size = conn.size /\ conn'.arrived = conn.arrived
    BY <1>3, <1>5, <2>1, <2>2
  <2>4. HsTypeOK'
    BY <1>1, <1>2, <1>4, <1>8, <2>1, <2>3 DEF Return, HsInv, HsTypeOK, Results
  <2>5. Phase' /\ HeaderBounded'
    BY <1>1, <1>2, <1>4, <1>8, <2>1, <2>3 DEF Return, HsInv, HsTypeOK, Phase, HeaderBounded
  <2>6. AnswerIsWhole'
    BY <1>1, <1>2, <1>4, <1>8, <2>1, <2>3 DEF Return, HsInv, HsTypeOK, Phase, AnswerIsWhole
  <2>7. AnswerIsDeserved'
    BY <1>1, <1>2, <1>4, <1>8, <2>1, <2>3 DEF Return, HsInv, HsTypeOK, Phase, AnswerIsDeserved
  <2> QED BY <2>4, <2>5, <2>6, <2>7 DEF HsInv
<1>9. CASE /\ conn' = [conn EXCEPT !.taken = @ + Chunk, !.written = ResponseSize]
           /\ handshakeStash' = 0 /\ owed' = 0
           /\ was' = FALSE /\ shook' = TRUE /\ Return("done")
  <2>1. MovedTo(t, conn.hole, ResponseSize, conn.failed)
    BY <1>2, <1>3, <1>4, <1>9 DEF Connection, MovedTo
  <2>2. /\ conn' \in Connection /\ conn'.taken = t /\ (conn'.hole <=> conn.hole)
        /\ conn'.written = ResponseSize /\ (conn'.open <=> conn.open)
        /\ conn'.kind = conn.kind
        /\ conn'.size = conn.size /\ conn'.arrived = conn.arrived
    BY <1>3, <1>5, <2>1
  <2>4. HsTypeOK'
    BY <1>1, <1>2, <1>4, <1>9, <2>2 DEF Return, HsInv, HsTypeOK, Results
  <2>5. Phase' /\ HeaderBounded'
    BY <1>1, <1>2, <1>4, <1>9, <2>2 DEF Return, HsInv, HsTypeOK, Phase, HeaderBounded
  <2>6. AnswerIsWhole'
    BY <1>1, <1>2, <1>4, <1>9, <2>2 DEF Return, HsInv, HsTypeOK, Phase, AnswerIsWhole
  <2>7. AnswerIsDeserved'
    BY <1>1, <1>2, <1>4, <1>9, <2>2 DEF Return, HsInv, HsTypeOK, Phase, AnswerIsDeserved
  <2> QED BY <2>4, <2>5, <2>6, <2>7 DEF HsInv
<1> QED BY <1>1, <1>7, <1>8, <1>9 DEF Answer

\* close(), and operator= where the object has no connection.
LEMMA DescriptorKeeps ==
    ASSUME HsInv, ~Reassign,
           HsClose \/ \E k \in Kinds, n \in RequestSizes : HsAssign(k, n)
    PROVE  HsInv'
<1> USE WsHandshakeAssumption
<1>1. CASE HsClose
  <2>1. conn' \in Connection /\ ~conn'.open /\ conn'.taken = conn.taken
        /\ conn'.arrived = conn.arrived /\ conn'.size = conn.size
        /\ conn'.written = conn.written /\ (conn'.hole <=> conn.hole)
        /\ conn'.kind = conn.kind
    BY <1>1 DEF HsClose, HsInv, HsTypeOK, Connection
  <2>2. HsTypeOK'
    BY <1>1, <2>1 DEF HsClose, HsInv, HsTypeOK, Results
  <2>3. Phase' /\ HeaderBounded'
    BY <1>1, <2>1 DEF HsClose, HsInv, HsTypeOK, Phase, HeaderBounded
  <2>4. AnswerIsWhole'
    BY <1>1, <2>1 DEF HsClose, HsInv, HsTypeOK, Phase, AnswerIsWhole
  <2>5. AnswerIsDeserved'
    BY <1>1, <2>1 DEF HsClose, HsInv, HsTypeOK, Phase, AnswerIsDeserved
  <2> QED BY <2>2, <2>3, <2>4, <2>5 DEF HsInv
<1>2. ASSUME NEW k \in Kinds, NEW n \in RequestSizes, HsAssign(k, n) PROVE HsInv'
  <2>1. ~reading /\ ~shook
    BY <1>2 DEF HsAssign, HsInv, AnswerIsWhole
  <2>2. n \in Nat /\ n >= 0
    OBVIOUS
  <2>3. conn' \in Connection /\ conn'.open /\ conn'.taken = 0 /\ conn'.arrived = 0
        /\ conn'.size = n /\ conn'.written = 0
    BY <1>2, <2>2 DEF HsAssign, NewConnection, Connection
  <2>4. HsTypeOK'
    <3>1. /\ handshakeStash' = 0 /\ owed' = 0 /\ was' = FALSE
          /\ reading' = reading /\ shook' = shook /\ result' = "none"
      BY <1>2 DEF HsAssign
    <3>2. reading \in BOOLEAN /\ shook \in BOOLEAN
      BY DEF HsInv, HsTypeOK
    <3>3. conn' \in Connection /\ conn'.taken <= conn'.arrived /\ conn'.arrived <= conn'.size
      BY <2>2, <2>3
    <3>4. /\ handshakeStash' \in Nat /\ owed' \in Nat /\ result' \in Results
          /\ was' \in BOOLEAN
      BY <3>1 DEF Results
    <3>5. reading' \in BOOLEAN /\ shook' \in BOOLEAN
      BY <3>1, <3>2
    <3> QED BY <3>3, <3>4, <3>5 DEF HsTypeOK
  <2>5. Phase' /\ HeaderBounded'
    BY <1>2, <2>1, <2>2, <2>3 DEF HsAssign, HsInv, HsTypeOK, Phase, HeaderBounded
  <2>6. AnswerIsWhole'
    BY <1>2, <2>1, <2>2, <2>3 DEF HsAssign, HsInv, HsTypeOK, Phase, AnswerIsWhole
  <2>7. AnswerIsDeserved'
    BY <1>2, <2>1, <2>2, <2>3 DEF HsAssign, HsInv, HsTypeOK, Phase, AnswerIsDeserved
  <2> QED BY <2>4, <2>5, <2>6, <2>7 DEF HsInv
<1> QED BY <1>1, <1>2

\* What the client does.
LEMMA ClientKeeps == ASSUME HsInv, ClientSends \/ ClientEnds PROVE HsInv'
<1>1. PICK a \in Nat : /\ conn.arrived <= a /\ a <= conn.size
                       /\ conn'.arrived = a
                       /\ conn' \in Connection
                       /\ (conn'.open <=> conn.open) /\ conn'.taken = conn.taken
                       /\ conn'.size = conn.size /\ conn'.written = conn.written
                       /\ (conn'.hole <=> conn.hole) /\ conn'.kind = conn.kind
  <2>1. conn \in Connection /\ conn.arrived \in Nat /\ conn.arrived <= conn.size
        /\ conn.size \in Nat
    BY WsHandshakeAssumption DEF HsInv, HsTypeOK, Connection
  <2>2. CASE ClientEnds
    <3>1. conn' = [conn EXCEPT !.ended = TRUE]
      BY <2>2 DEF ClientEnds
    <3>2. PICK a \in Nat : a = conn.arrived
      BY <2>1
    <3>3. /\ conn' \in Connection /\ conn'.arrived = a
          /\ (conn'.open <=> conn.open) /\ conn'.taken = conn.taken
          /\ conn'.size = conn.size /\ conn'.written = conn.written
          /\ (conn'.hole <=> conn.hole) /\ conn'.kind = conn.kind
      BY <2>1, <3>1, <3>2 DEF Connection
    <3> QED BY <2>1, <3>2, <3>3
  <2>3. CASE ClientSends
    <3>1. PICK m \in 1 .. conn.size - conn.arrived :
            conn' = [conn EXCEPT !.arrived = @ + m]
      BY <2>3 DEF ClientSends
    <3>2. PICK a \in Nat : a = conn.arrived + m
      BY <2>1
    <3>3. conn' = [conn EXCEPT !.arrived = a]
      BY <2>1, <3>1, <3>2 DEF Connection
    <3> QED BY <2>1, <3>2, <3>3 DEF Connection
  <2> QED BY <2>2, <2>3
<1>2. UNCHANGED <<handshakeStash, owed, reading, was, shook, result>>
  BY DEF ClientSends, ClientEnds
<1> QED
  BY <1>1, <1>2, WsHandshakeAssumption DEF HsInv, HsTypeOK, Connection, Results, Phase,
       HeaderBounded, AnswerIsWhole, AnswerIsDeserved

\* Every step of handshake() and of its client keeps the invariant.
LEMMA HsNextKeeps == ASSUME HsInv, ~Reassign, [HsNext]_hsVars PROVE HsInv'
<1>1. CASE UNCHANGED hsVars
  BY <1>1 DEF hsVars, HsInv, HsTypeOK, Results, Phase, HeaderBounded, AnswerIsWhole,
       AnswerIsDeserved
<1>2. CASE Read
  BY <1>2, ReadKeeps, AnswerKeeps DEF Read
<1> QED BY <1>1, <1>2, CallKeeps, DescriptorKeeps, ClientKeeps DEF HsNext

\* The strengthened invariant, of a program that closes before it assigns.
THEOREM HsInvariant == ASSUME ~Reassign PROVE HsSpec => []HsInv
<1>1. HsInv /\ [HsNext]_hsVars => HsInv'
  BY HsNextKeeps
<1> QED BY <1>1, HsInitOK, PTL DEF HsSpec

\* The variables of the handshake have their types, and no byte is read that has
\* not arrived.  (libashe/WebSocket.h:113, handshakeStash)
THEOREM HsTypeCorrect == ASSUME ~Reassign PROVE HsSpec => []HsTypeOK
BY HsInvariant, PTL DEF HsInv

\* handshake() never collects more than headerLimit bytes, however the request is
\* cut.  (WebSocket.cpp:270)
THEOREM HeaderStaysBounded == ASSUME ~Reassign PROVE HsSpec => []HeaderBounded
BY HsInvariant, PTL DEF HsInv

\* The answer is written once and whole, in as many pieces as write() makes of it,
\* and handshook means all of it.  (WebSocket.cpp:244)
THEOREM AnswersAreWhole == ASSUME ~Reassign PROVE HsSpec => []AnswerIsWhole
BY HsInvariant, PTL DEF HsInv

\* Only a whole and valid request is answered.  (WebSocket.cpp:275)
THEOREM AnswersAreDeserved == ASSUME ~Reassign PROVE HsSpec => []AnswerIsDeserved
BY HsInvariant, PTL DEF HsInv

------------------------------------------------------------------------------
\* What RequestIsKept needs beside itself.  It is an invariant of its own, as
\* HsInv holds only of a program that closes before it assigns.
Kept ==
    /\ conn \in Connection /\ handshakeStash \in Nat /\ owed \in Nat
    /\ reading => ~was /\ ~shook
    /\ RequestIsKept

\* A read puts all it returns behind what was kept, or leaves a hole.
LEMMA ReadsAreKept ==
    ASSUME Kept, reading, Chunk > 0,
           NEW h \in BOOLEAN, NEW f \in BOOLEAN, NEW w \in Nat,
           MovedTo(conn.taken + Chunk, h, w, f),
           conn.hole => h,
           /\ handshakeStash' \in Nat /\ owed' \in Nat
           /\ reading' => ~was' /\ ~shook'
           /\ handshakeStash' = handshakeStash + Chunk \/ h \/ was' \/ shook'
    PROVE  Kept'
<1> USE WsHandshakeAssumption
<1>1. Chunk \in Nat /\ conn.open /\ conn.taken \in Nat
  BY DEF Kept, Connection, Chunk, Smaller
<1>2. PICK t \in Nat : t = conn.taken + Chunk
  BY <1>1
<1>3. /\ conn' \in Connection
      /\ conn'.taken = t /\ (conn'.hole <=> h) /\ (conn'.open <=> conn.open)
  BY <1>2, Moved DEF Kept
<1> QED BY <1>1, <1>2, <1>3 DEF Kept, RequestIsKept

\* What every read but the last leaves.
LEMMA ReadingKeeps ==
    ASSUME Kept, ReadTooMuch \/ ReadMore \/ ReadInvalid
    PROVE  Kept'
<1> USE WsHandshakeAssumption
<1>1. reading /\ Chunk > 0
  BY DEF ReadTooMuch, ReadMore, ReadInvalid, ReadsLast
<1>2. /\ conn.hole \in BOOLEAN /\ conn.failed \in BOOLEAN /\ conn.written \in Nat
      /\ conn.taken \in Nat /\ Chunk \in Nat /\ handshakeStash + Chunk \in Nat
      /\ owed \in Nat /\ handshakeStash \in Nat /\ ~was /\ ~shook
  BY <1>1 DEF Kept, Connection, Chunk, Smaller
<1>3. CASE ReadTooMuch
  <2>1. MovedTo(conn.taken + Chunk, TRUE, conn.written, conn.failed)
    BY <1>3 DEF ReadTooMuch, MovedTo, Kept, Connection
  <2>2. /\ handshakeStash' \in Nat /\ owed' \in Nat /\ ~reading'
    BY <1>2, <1>3 DEF ReadTooMuch, Return
  <2> QED BY <1>1, <1>2, <2>1, <2>2, ReadsAreKept
<1>4. CASE ReadMore \/ ReadInvalid
  <2>1. MovedTo(conn.taken + Chunk, conn.hole, conn.written, conn.failed)
    BY <1>4 DEF ReadMore, ReadInvalid, MovedTo, Kept, Connection
  <2>2. /\ handshakeStash' = handshakeStash + Chunk
        /\ handshakeStash' \in Nat /\ owed' \in Nat /\ ~was' /\ ~shook'
    BY <1>2, <1>4 DEF ReadMore, ReadInvalid
  <2> QED BY <1>1, <1>2, <2>1, <2>2, ReadsAreKept
<1> QED BY <1>3, <1>4

\* The answer takes the place of the request, or the request stays.
LEMMA AnsweringKeeps == ASSUME Kept, ReadGood PROVE Kept'
<1> USE WsHandshakeAssumption
<1>1. reading /\ Chunk > 0 /\ Answer
  BY DEF ReadGood, ReadsLast
<1>2. /\ conn.hole \in BOOLEAN /\ conn.failed \in BOOLEAN /\ conn.written \in Nat
      /\ conn.taken \in Nat /\ Chunk \in Nat /\ handshakeStash + Chunk \in Nat
      /\ owed \in Nat
  BY <1>1 DEF Kept, Connection, Chunk, Smaller
<1>3. CASE /\ conn' = [conn EXCEPT !.taken = @ + Chunk, !.failed = TRUE]
           /\ handshakeStash' = handshakeStash + Chunk
           /\ Return("errno") /\ UNCHANGED <<owed, was, shook>>
  <2>1. MovedTo(conn.taken + Chunk, conn.hole, conn.written, TRUE)
    BY <1>3 DEF MovedTo, Kept, Connection
  <2> QED BY <1>1, <1>2, <1>3, <2>1, ReadsAreKept DEF Return
<1>4. ASSUME NEW n \in Nat, n <= ResponseSize,
             conn' = [conn EXCEPT !.taken = @ + Chunk, !.written = n],
             handshakeStash' = 0, owed' \in Nat, reading' = FALSE, was' \/ shook'
      PROVE  Kept'
  <2>1. MovedTo(conn.taken + Chunk, conn.hole, n, conn.failed)
    BY <1>4 DEF MovedTo, Kept, Connection
  <2> QED BY <1>1, <1>2, <1>4, <2>1, ReadsAreKept
<1>5. ASSUME NEW n \in 1 .. ResponseSize - 1,
             conn' = [conn EXCEPT !.taken = @ + Chunk, !.written = n],
             handshakeStash' = 0, owed' = ResponseSize - n, was' = TRUE, Return("partial")
      PROVE  Kept'
  <2>1. n \in Nat /\ n <= ResponseSize /\ owed' \in Nat
    BY <1>5
  <2> QED BY <1>4, <1>5, <2>1 DEF Return
<1>6. CASE /\ conn' = [conn EXCEPT !.taken = @ + Chunk, !.written = ResponseSize]
           /\ handshakeStash' = 0 /\ owed' = 0 /\ shook' = TRUE /\ Return("done")
  <2>1. ResponseSize \in Nat /\ ResponseSize <= ResponseSize /\ owed' \in Nat
    BY <1>6
  <2>2. reading' = FALSE /\ shook'
    BY <1>6 DEF Return
  <2> QED BY <1>4, <1>6, <2>1, <2>2
<1> QED BY <1>1, <1>3, <1>5, <1>6 DEF Answer

\* Calls, what ends them without a read, and what the client does.
LEMMA OtherStepsKeep ==
    ASSUME Kept, Call \/ ReadFails \/ ReadEnd \/ ClientSends \/ ClientEnds
    PROVE  Kept'
<1> USE WsHandshakeAssumption
<1>1. CASE CallAgain \/ CallRead \/ ReadFails \/ ReadEnd
  BY <1>1 DEF CallAgain, CallRead, ReadFails, ReadEnd, Return, Kept, RequestIsKept
<1>2. CASE CallResume
  <2>1. conn \in Connection /\ conn.written \in Nat /\ owed \in Nat
    BY DEF Kept, Connection
  <2>2. CASE Return("errno") /\ UNCHANGED <<conn, handshakeStash, owed, was, shook>>
    BY <2>2 DEF Return, Kept, RequestIsKept
  <2>3. ASSUME NEW n \in Nat, conn' = [conn EXCEPT !.written = @ + n],
               owed' \in Nat, reading' = FALSE, handshakeStash' = handshakeStash,
               was' \/ shook'
        PROVE  Kept'
    <3>1. conn' \in Connection
      BY <2>1, <2>3, WrittenMore
    <3> QED BY <2>3, <3>1 DEF Kept, RequestIsKept
  <2>4. ASSUME NEW n \in 1 .. owed - 1
        PROVE  n \in Nat /\ owed - n \in Nat
    BY <2>1, <2>4
  <2>5. ASSUME NEW n \in 1 .. owed - 1, conn' = [conn EXCEPT !.written = @ + n],
               owed' = owed - n, Return("partial"),
               UNCHANGED <<handshakeStash, was, shook>>
        PROVE  Kept'
    BY <1>2, <2>3, <2>4, <2>5 DEF CallResume, Return
  <2>6. CASE /\ conn' = [conn EXCEPT !.written = @ + owed]
             /\ was' = FALSE /\ shook' = TRUE /\ Return("done")
             /\ UNCHANGED <<handshakeStash, owed>>
    BY <2>1, <2>3, <2>6 DEF Return
  <2> QED BY <1>2, <2>2, <2>5, <2>6 DEF CallResume
<1>3. CASE ClientSends \/ ClientEnds
  <2>1. PICK a \in Nat, e \in BOOLEAN :
          conn' = [conn EXCEPT !.arrived = a, !.ended = e]
    <3>1. conn \in Connection /\ conn.arrived \in Nat /\ conn.ended \in BOOLEAN
      BY DEF Kept, Connection
    <3>2. CASE ClientSends
      <4>1. PICK m \in 1 .. conn.size - conn.arrived :
              conn' = [conn EXCEPT !.arrived = @ + m]
        BY <3>2 DEF ClientSends
      <4>2. PICK a \in Nat : a = conn.arrived + m
        BY <3>1
      <4>3. conn' = [conn EXCEPT !.arrived = a, !.ended = conn.ended]
        BY <3>1, <4>1, <4>2 DEF Connection
      <4> QED BY <3>1, <4>3
    <3>3. CASE ClientEnds
      <4>1. conn' = [conn EXCEPT !.arrived = conn.arrived, !.ended = TRUE]
        BY <3>1, <3>3 DEF ClientEnds, Connection
      <4> QED BY <3>1, <4>1
    <3> QED BY <1>3, <3>2, <3>3
  <2>2. /\ conn' \in Connection /\ conn'.taken = conn.taken
        /\ (conn'.hole <=> conn.hole) /\ (conn'.open <=> conn.open)
    BY <2>1 DEF Kept, Connection
  <2> QED BY <1>3, <2>2 DEF ClientSends, ClientEnds, Kept, RequestIsKept
<1> QED BY <1>1, <1>2, <1>3 DEF Call

\* The request is read and kept whole over any number of calls and connections,
\* whether or not the object is closed before it is assigned.  (WebSocket.cpp:274)
THEOREM RequestStaysWhole == HsSpec => []RequestIsKept
<1> USE WsHandshakeAssumption
<1>1. ASSUME HsInit PROVE Kept
  <2>1. PICK k \in Kinds, n \in RequestSizes : conn = NewConnection(k, n)
    BY <1>1 DEF HsInit
  <2>2. n \in Nat
    OBVIOUS
  <2> QED BY <1>1, <2>1, <2>2 DEF HsInit, NewConnection, Connection, Kept, RequestIsKept
<1>2. ASSUME Kept, [HsNext]_hsVars PROVE Kept'
  <2>1. CASE UNCHANGED hsVars
    BY <1>2, <2>1 DEF hsVars, Kept, RequestIsKept
  <2>2. CASE HsClose
    <3>1. conn' \in Connection /\ ~conn'.open
      BY <1>2, <2>2 DEF HsClose, Kept, Connection
    <3> QED BY <2>2, <3>1 DEF HsClose, Kept, RequestIsKept
  <2>3. ASSUME NEW k \in Kinds, NEW n \in RequestSizes, HsAssign(k, n) PROVE Kept'
    <3>1. n \in Nat
      OBVIOUS
    <3>2. conn' \in Connection /\ conn'.taken = 0
      BY <2>3, <3>1 DEF HsAssign, NewConnection, Connection
    <3> QED BY <1>2, <2>3, <3>2 DEF HsAssign, Kept, RequestIsKept
  <2> QED BY <1>2, <2>1, <2>2, <2>3, ReadingKeeps, AnsweringKeeps, OtherStepsKeep
          DEF HsNext, Read
<1>3. Kept => RequestIsKept
  BY DEF Kept
<1> QED BY <1>1, <1>2, <1>3, PTL DEF HsSpec

------------------------------------------------------------------------------
\* What links the two halves: they have the same descriptor, and there is nothing
\* on the wire or pending of a connection whose handshake is not done, but for
\* what the program posted too early.  FramesFollowAnswer is not inductive by
\* itself: what is pending could be written before the answer.
Linked ==
    /\ early \in BOOLEAN
    /\ open <=> conn.open
    /\ wire # <<>> \/ stash # <<>> => early \/ shook

\* A step of the composition is one of the sender, or none of its variables
\* changes; and likewise for the handshake.
LEMMA StepOfEither ==
    ASSUME [ConnectionNext]_connectionVars
    PROVE  [Next]_vars /\ [HsNext]_hsVars
<1>1. CASE UNCHANGED connectionVars
  BY <1>1 DEF connectionVars, vars, hsVars
<1>2. CASE ~reading /\ Post /\ UNCHANGED hsVars
  BY <1>2 DEF Post, Next
<1>3. CASE Shake /\ UNCHANGED <<vars, early>>
  BY <1>3 DEF Shake, HsNext, vars
<1>4. CASE CloseBoth \/ AssignBoth
  BY <1>4 DEF CloseBoth, AssignBoth, Next, HsNext
<1> QED BY <1>1, <1>2, <1>3, <1>4 DEF ConnectionNext

\* The handshake, and the client, leave the descriptor alone and handshook set.
LEMMA ShakeKeepsDescriptor ==
    ASSUME conn \in Connection, Shake
    PROVE  (conn'.open <=> conn.open) /\ (shook => shook')
<1> USE DEF Connection
<1>1. CASE Call
  BY <1>1 DEF Call, CallAgain, CallRead, CallResume
<1>2. CASE ReadTooMuch
  BY <1>2 DEF ReadTooMuch
<1>3. CASE ReadMore \/ ReadInvalid
  BY <1>3 DEF ReadMore, ReadInvalid
<1>4. CASE ReadGood
  <2>1. CASE conn' = [conn EXCEPT !.taken = @ + Chunk, !.failed = TRUE]
             /\ UNCHANGED shook
    BY <2>1
  <2>2. ASSUME NEW n, conn' = [conn EXCEPT !.taken = @ + Chunk, !.written = n],
               shook' = shook \/ shook' = TRUE
        PROVE  (conn'.open <=> conn.open) /\ (shook => shook')
    BY <2>2
  <2> QED BY <1>4, <2>1, <2>2 DEF ReadGood, Answer
<1>5. CASE ReadFails \/ ReadEnd
  BY <1>5 DEF ReadFails, ReadEnd
<1>6. CASE ClientSends \/ ClientEnds
  BY <1>6 DEF ClientSends, ClientEnds
<1> QED BY <1>1, <1>2, <1>3, <1>4, <1>5, <1>6 DEF Shake, Read

\* No step of the connection writes a frame before the handshake is over, unless
\* post() was called early.
LEMMA StepLinked ==
    ASSUME Linked, HsInv, [ConnectionNext]_connectionVars
    PROVE  Linked'
<1>1. CASE UNCHANGED connectionVars
  BY <1>1 DEF connectionVars, vars, hsVars, Linked
<1>2. CASE ~reading /\ Post /\ UNCHANGED hsVars
  <2>1. conn' = conn /\ shook' = shook /\ open' = open
    BY <1>2 DEF Post, PostRefused, Flush, FlushPending, PostFrame, hsVars
  <2>2. CASE PostRefused /\ UNCHANGED early
    BY <2>1, <2>2 DEF PostRefused, Linked
  <2>3. CASE Flush /\ UNCHANGED early
    BY <2>1, <2>3 DEF Flush, FlushPending, Linked
  <2>4. CASE early' = (early \/ result \notin {"done", "already"})
    <3>1. early' \in BOOLEAN /\ (early' \/ shook)
      BY <2>4 DEF Linked, HsInv, Phase
    <3> QED BY <2>1, <3>1 DEF Linked
  <2> QED BY <1>2, <2>2, <2>3, <2>4 DEF Post
<1>3. CASE Shake /\ UNCHANGED <<vars, early>>
  <2>1. (conn'.open <=> conn.open) /\ (shook => shook')
    BY <1>3, ShakeKeepsDescriptor DEF HsInv, HsTypeOK
  <2> QED BY <1>3, <2>1 DEF vars, Linked
<1>4. CASE CloseBoth
  <2>1. ~conn'.open
    BY <1>4 DEF CloseBoth, HsClose, HsInv, HsTypeOK, Connection
  <2> QED BY <1>4, <2>1 DEF CloseBoth, Close, ForgetConnection, Linked
<1>5. CASE AssignBoth
  <2>1. conn'.open
    BY <1>5 DEF AssignBoth, HsAssign, NewConnection
  <2> QED BY <1>5, <2>1 DEF AssignBoth, Assign, ForgetConnection, Linked
<1> QED BY <1>1, <1>2, <1>3, <1>4, <1>5 DEF ConnectionNext

\* The composition implements both of its halves: what is proved of post() and of
\* handshake() by themselves holds of an object that does both.
THEOREM HalvesImplemented == ConnectionSpec => Spec /\ HsSpec
<1>1. ConnectionInit => Init /\ HsInit
  BY DEF ConnectionInit
<1>2. [ConnectionNext]_connectionVars => [Next]_vars /\ [HsNext]_hsVars
  BY StepOfEither
<1> QED BY <1>1, <1>2, PTL DEF ConnectionSpec, Spec, HsSpec

\* No frame is on the wire of a client that has not got the whole answer, unless
\* the program posted before handshake() had said that it was done, over any
\* number of connections of one object.  (WebSocket.cpp:171, :54)
THEOREM FramesComeLater ==
    ASSUME ~Reassign PROVE ConnectionSpec => []FramesFollowAnswer
<1>1. ASSUME ConnectionInit PROVE Linked
  <2>1. PICK k \in Kinds, n \in RequestSizes : conn = NewConnection(k, n)
    BY <1>1 DEF ConnectionInit, HsInit
  <2>2. conn.open
    BY <2>1 DEF NewConnection
  <2> QED BY <1>1, <2>2 DEF ConnectionInit, Init, Linked
<1>2. Linked /\ HsInv /\ [ConnectionNext]_connectionVars => Linked'
  BY StepLinked
<1>3. Linked /\ HsInv => FramesFollowAnswer
  BY DEF Linked, HsInv, AnswerIsWhole, FramesFollowAnswer
<1>4. ConnectionSpec => []HsInv
  BY HalvesImplemented, HsInvariant, PTL
<1> QED BY <1>1, <1>2, <1>3, <1>4, PTL DEF ConnectionSpec
==============================================================================
