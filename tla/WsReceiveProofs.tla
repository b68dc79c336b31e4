--------------------------- MODULE WsReceiveProofs ---------------------------
(***************************************************************************)
(* receive() for every stream of frames, every way of cutting it into      *)
(* reads, every buffer size and every frame size limit.                    *)
(***************************************************************************)
EXTENDS WsReceive, TLAPS

\* remainingRead drifts away from what the frame lacks, because it is reduced
\* by the whole of the stash, but only downwards; this is why no complete frame
\* is held back.
RemainingIsLowerBound ==
    remaining > 0 =>
        /\ head <= Len(Stream)
        /\ got - front >= 2
        /\ remaining <= Start[head + 1] - got

IInv ==
    /\ TypeOK
    /\ Aligned
    /\ WithinStash
    /\ sent <= StreamEnd
    /\ RemainingIsLowerBound
    /\ CompleteIsDelivered
    /\ NeedIsLowerBound

\* The sizes of a frame: the parser erases exactly the frame.
LEMMA Sizes ==
    ASSUME NEW f \in FrameHead
    PROVE  /\ MaskSize(f) \in {0, 4} /\ f.ext \in {0, 2, 8} /\ f.payload \in Nat
           /\ Size(f) \in Nat
           /\ Size(f) = 2 + f.ext + MaskSize(f) + f.payload
           /\ Erased(f) = Size(f)
BY DEF FrameHead, MaskSize, Size, FrameSize, Erased

\* The positions, and the frame at the front of the stash if there is one.
LEMMA Positions ==
    ASSUME NEW k \in 1 .. Len(Stream) + 1
    PROVE  /\ Len(Stream) \in Nat
           /\ Start[k] \in Nat
           /\ StreamEnd \in Nat
           /\ k <= Len(Stream) =>
                /\ Stream[k] \in FrameHead
                /\ k + 1 \in 1 .. Len(Stream) + 1
                /\ Start[k + 1] \in Nat
                /\ Start[k + 1] = Start[k] + Size(Stream[k])
<1>1. Len(Stream) \in Nat /\ Stream \in Seq(FrameHead)
  BY WsReceiveAssumption
<1>2. Start \in [1 .. Len(Stream) + 1 -> Nat]
  BY WsReceiveAssumption
<1>3. Start[k] \in Nat /\ StreamEnd \in Nat
  BY <1>1, <1>2 DEF StreamEnd
<1>4. ASSUME k <= Len(Stream)
      PROVE  /\ Stream[k] \in FrameHead
             /\ k + 1 \in 1 .. Len(Stream) + 1
             /\ Start[k + 1] \in Nat
             /\ Start[k + 1] = Start[k] + Size(Stream[k])
  <2>1. k \in 1 .. Len(Stream) /\ k + 1 \in 1 .. Len(Stream) + 1
    BY <1>1, <1>4
  <2>2. Stream[k] \in FrameHead
    BY <1>1, <2>1
  <2>3. Start[k + 1] = Start[k] + Size(Stream[k])
    BY <2>1, WsReceiveAssumption
  <2> QED BY <1>2, <2>1, <2>2, <2>3
<1> QED BY <1>1, <1>3, <1>4

\* A stash of m bytes parsed: which frame, and with which result.
LEMMA ParsedCases ==
    ASSUME NEW f \in FrameHead, NEW m \in Nat
    PROVE  /\ Parsed(f, m) \in Outcome
           /\ Parsed(f, m).kind = "frame" => m >= Size(f)
           /\ Parsed(f, m).kind = "missing" =>
                /\ m >= 2 /\ m < Size(f)
                /\ Parsed(f, m).need = Size(f) - m
           /\ Parsed(f, m).kind = "more" /\ Minimal(f) =>
                /\ 0 < Parsed(f, m).need
                /\ Parsed(f, m).need <= Size(f) - m
<1>1. /\ MaskSize(f) \in {0, 4} /\ f.ext \in {0, 2, 8} /\ f.payload \in Nat
      /\ Size(f) \in Nat /\ Size(f) = 2 + f.ext + MaskSize(f) + f.payload
  BY Sizes
<1>2. CASE m < 2
  <2>1. Parsed(f, m) = [kind |-> "more", need |-> 2 - m]
    BY <1>2 DEF Parsed, Ended
  <2> QED BY <1>1, <1>2, <2>1 DEF Outcome
<1>3. CASE m >= 2 /\ f.rsv
  <2>1. Parsed(f, m) = [kind |-> "protocol", need |-> 0]
    BY <1>3 DEF Parsed, Ended
  <2> QED BY <2>1 DEF Outcome
<1>4. CASE m >= 2 /\ ~f.rsv /\ m < 2 + f.ext
  <2>1. Parsed(f, m) = [kind |-> "more", need |-> f.ext + MaskSize(f)]
    BY <1>4 DEF Parsed, Ended
  <2>2. Minimal(f) => f.ext <= f.payload
    BY <1>1, <1>4 DEF Minimal
  <2>3. f.ext # 0
    BY <1>1, <1>4
  <2> QED BY <1>1, <1>4, <2>1, <2>2, <2>3 DEF Outcome
<1>5. CASE m >= 2 /\ ~f.rsv /\ ~(m < 2 + f.ext) /\ Size(f) > limit
  <2>1. Parsed(f, m) = [kind |-> "oversize", need |-> Size(f)]
    BY <1>5 DEF Parsed, Ended
  <2> QED BY <1>1, <2>1 DEF Outcome
<1>6. CASE m >= 2 /\ ~f.rsv /\ ~(m < 2 + f.ext) /\ ~(Size(f) > limit)
           /\ m < Size(f)
  <2>1. Parsed(f, m) = [kind |-> "missing", need |-> Size(f) - m]
    BY <1>6 DEF Parsed, Ended
  <2> QED BY <1>1, <1>6, <2>1 DEF Outcome
<1>7. CASE m >= 2 /\ ~f.rsv /\ ~(m < 2 + f.ext) /\ ~(Size(f) > limit)
           /\ ~(m < Size(f))
  <2>1. Parsed(f, m) = [kind |-> "frame", need |-> 0]
    BY <1>7 DEF Parsed, Ended
  <2> QED BY <1>1, <1>7, <2>1 DEF Outcome
<1>8. m < 2 \/ m >= 2
  OBVIOUS
<1> QED BY <1>2, <1>3, <1>4, <1>5, <1>6, <1>7, <1>8

\* Nothing has come yet, and nothing was read.
LEMMA InitIInv == Init => IInv
<1>1. ASSUME Init PROVE IInv
  <2>1. 1 \in 1 .. Len(Stream) + 1 /\ StreamEnd \in Nat /\ limit \in Nat
    BY <1>1, WsReceiveAssumption, Positions DEF Init
  <2>2. Start[1] = 0
    BY WsReceiveAssumption
  <2>3. outcome = [kind |-> "none", need |-> 0]
    BY <1>1 DEF Init, Ended
  <2>4. outcome \in Outcome
    BY <2>3 DEF Outcome
  <2>5. TypeOK
    BY <1>1, <2>1, <2>4 DEF Init, TypeOK
  <2>7. Aligned /\ WithinStash /\ sent <= StreamEnd
    BY <1>1, <2>1, <2>2 DEF Init, Aligned, WithinStash
  <2>6. RemainingIsLowerBound /\ CompleteIsDelivered /\ NeedIsLowerBound
    BY <1>1, <2>3
    DEF Init, RemainingIsLowerBound, CompleteIsDelivered, NeedIsLowerBound
  <2> QED BY <2>5, <2>6, <2>7 DEF IInv
<1> QED BY <1>1

\* remainingRead, a lower bound of what the frame lacked at the last read, is
\* one after this read too when it is reduced by the whole of the stash.
LEMMA Drift ==
    ASSUME NEW r \in Nat, NEW first \in Nat, NEW old \in Nat, NEW new \in Nat,
           NEW end \in Nat,
           old <= new, old - first >= 2, r <= end - old, r > new - first
    PROVE  /\ r - (new - first) \in Nat /\ 0 < r - (new - first)
           /\ r - (new - first) <= end - new
           /\ new - first >= 2 /\ new < end
OBVIOUS

\* What receive() does once its read() has moved got.
LEMMA DigestKeeps ==
    ASSUME IInv, got' \in Nat, got <= got', got' <= sent,
           Digest(got' - front), UNCHANGED <<sent, closed, nonBlock, limit>>
    PROVE  IInv'
<1>0. /\ sent \in Nat /\ got \in Nat /\ front \in Nat /\ remaining \in Nat
      /\ head \in 1 .. Len(Stream) + 1 /\ Len(Stream) \in Nat
      /\ front = Start[head] /\ front <= got /\ got <= sent /\ sent <= StreamEnd
      /\ StreamEnd \in Nat
  BY Positions DEF IInv, TypeOK, Aligned, WithinStash
<1> DEFINE m == got' - front
<1>1. m \in Nat
  BY <1>0
<1>2. CASE remaining > m /\ StillShort(m)
  <2>1. /\ head <= Len(Stream) /\ got - front >= 2
        /\ remaining <= Start[head + 1] - got
    BY <1>0, <1>1, <1>2 DEF IInv, RemainingIsLowerBound
  <2>2. /\ remaining' = remaining - m /\ head' = head /\ front' = front
        /\ outcome' = [kind |-> "missing", need |-> remaining - m]
    BY <1>2 DEF StillShort, Ended
  <2>3. Start[head + 1] \in Nat
    BY <1>0, <2>1, Positions
  <2>4. /\ 0 < remaining' /\ remaining' \in Nat
        /\ remaining' <= Start[head + 1] - got'
        /\ got' - front >= 2 /\ got' < Start[head + 1]
    <3>1. remaining > got' - front
      BY <1>2
    <3>2. /\ remaining - (got' - front) \in Nat
          /\ 0 < remaining - (got' - front)
          /\ remaining - (got' - front) <= Start[head + 1] - got'
          /\ got' - front >= 2 /\ got' < Start[head + 1]
      <4> DEFINE end == Start[head + 1]
                 new == got'
      <4>1. /\ end \in Nat /\ new \in Nat /\ remaining \in Nat /\ front \in Nat
            /\ got \in Nat /\ got <= new /\ got - front >= 2
            /\ remaining <= end - got /\ remaining > new - front
        BY <1>0, <2>1, <2>3, <3>1
      <4> HIDE DEF end, new
      <4>2. /\ remaining - (new - front) \in Nat /\ 0 < remaining - (new - front)
            /\ remaining - (new - front) <= end - new
            /\ new - front >= 2 /\ new < end
        BY <4>1, Drift
      <4> QED BY <4>2 DEF end, new
    <3> QED BY <2>2, <3>2
  <2>5. outcome' \in Outcome
    BY <2>2, <2>4 DEF Outcome
  <2>6. TypeOK' /\ Aligned' /\ WithinStash' /\ sent' <= StreamEnd
    BY <1>0, <2>2, <2>4, <2>5 DEF IInv, TypeOK, Aligned, WithinStash
  <2>7. RemainingIsLowerBound' /\ CompleteIsDelivered' /\ NeedIsLowerBound'
    BY <2>1, <2>2, <2>4
    DEF RemainingIsLowerBound, CompleteIsDelivered, NeedIsLowerBound
  <2> QED BY <2>6, <2>7 DEF IInv
<1>3. CASE remaining <= m /\ Parse(m)
  <2>1. CASE m < 2
    <3>1. Parsed(Stream[head], m) = [kind |-> "more", need |-> 2 - m]
      BY <2>1 DEF Parsed, Ended
    <3>2. /\ outcome' = [kind |-> "more", need |-> 2 - m]
          /\ remaining' = 0 /\ front' = front /\ head' = head
      BY <1>3, <3>1 DEF Parse
    <3>3. outcome' \in Outcome
      BY <1>1, <2>1, <3>2 DEF Outcome
    <3>4. TypeOK' /\ Aligned' /\ WithinStash' /\ sent' <= StreamEnd
      BY <1>0, <1>1, <3>2, <3>3 DEF IInv, TypeOK, Aligned, WithinStash
    <3>5. RemainingIsLowerBound' /\ CompleteIsDelivered'
      BY <3>2 DEF RemainingIsLowerBound, CompleteIsDelivered
    <3>6. ASSUME head <= Len(Stream)
          PROVE  0 < 2 - m /\ 2 - m <= Start[head + 1] - got'
      <4>1. /\ Start[head + 1] = Start[head] + Size(Stream[head])
            /\ Stream[head] \in FrameHead
        BY <1>0, <3>6, Positions
      <4>2. Size(Stream[head]) \in Nat /\ Size(Stream[head]) >= 2
        BY <4>1, Sizes
      <4> QED BY <1>0, <1>1, <2>1, <4>1, <4>2
    <3>7. NeedIsLowerBound'
      BY <3>2, <3>6 DEF NeedIsLowerBound
    <3> QED BY <3>4, <3>5, <3>7 DEF IInv
  <2>2. CASE m >= 2
    <3>1. head <= Len(Stream)
      BY <1>0, <1>1, <2>2 DEF StreamEnd
    <3>2. /\ Start[head + 1] = front + Size(Stream[head])
          /\ Start[head + 1] \in Nat
          /\ Stream[head] \in FrameHead
          /\ head + 1 \in 1 .. Len(Stream) + 1
      BY <1>0, <3>1, Positions
    <3> DEFINE f == Stream[head]
               o == Parsed(f, m)
    <3>3. Size(f) \in Nat /\ Erased(f) = Size(f)
      BY <3>2, Sizes
    <3>4. /\ o \in Outcome
          /\ o.kind = "frame" => m >= Size(f)
          /\ o.kind = "missing" => m < Size(f) /\ o.need = Size(f) - m
          /\ o.kind = "more" /\ Minimal(f) =>
                0 < o.need /\ o.need <= Size(f) - m
      BY <1>1, <3>2, ParsedCases
    <3>5. /\ outcome' = o
          /\ remaining' = IF o.kind = "missing" THEN o.need ELSE 0
          /\ IF o.kind = "frame"
             THEN front' = front + Erased(f) /\ head' = head + 1
             ELSE front' = front /\ head' = head
      BY <1>3 DEF Parse
    <3>6. o.need \in Nat
      BY <3>4 DEF Outcome
    <3> HIDE DEF o, f
    <3>7. CASE o.kind = "frame"
      <4>1. /\ front' = Start[head + 1] /\ head' = head + 1 /\ remaining' = 0
            /\ front' <= got'
        BY <1>0, <1>1, <3>2, <3>3, <3>4, <3>5, <3>7 DEF f
      <4>2. TypeOK' /\ Aligned' /\ WithinStash' /\ sent' <= StreamEnd
        BY <1>0, <3>2, <3>4, <3>5, <4>1 DEF IInv, TypeOK, Aligned, WithinStash
      <4>3. RemainingIsLowerBound' /\ CompleteIsDelivered' /\ NeedIsLowerBound'
        BY <3>5, <3>7, <4>1
        DEF RemainingIsLowerBound, CompleteIsDelivered, NeedIsLowerBound
      <4> QED BY <4>2, <4>3 DEF IInv
    <3>8. CASE o.kind # "frame"
      <4>1. front' = front /\ head' = head /\ remaining' \in Nat
        BY <3>5, <3>6, <3>8
      <4>2. TypeOK' /\ Aligned' /\ WithinStash' /\ sent' <= StreamEnd
        BY <1>0, <1>1, <3>4, <3>5, <4>1 DEF IInv, TypeOK, Aligned, WithinStash
      <4>3. Size(f) - m = Start[head + 1] - got'
        BY <1>0, <3>2, <3>3 DEF f
      <4>4. RemainingIsLowerBound'
        BY <1>0, <2>2, <3>1, <3>4, <3>5, <4>1, <4>3 DEF RemainingIsLowerBound
      <4>5. CompleteIsDelivered'
        <5>1. ASSUME o.kind = "missing" PROVE got' < Start[head + 1]
          BY <1>0, <1>1, <3>2, <3>3, <3>4, <4>3, <5>1
        <5> QED BY <3>1, <3>5, <4>1, <5>1 DEF CompleteIsDelivered
      <4>6. ASSUME Minimal(f), o.kind \in {"more", "missing"}
            PROVE  0 < o.need /\ o.need <= Start[head + 1] - got'
        BY <1>1, <3>3, <3>4, <4>3, <4>6
      <4>7. NeedIsLowerBound'
        BY <3>5, <4>1, <4>6 DEF NeedIsLowerBound, f
      <4> QED BY <4>2, <4>4, <4>5, <4>7 DEF IInv
    <3> QED BY <3>7, <3>8
  <2> QED BY <1>1, <2>1, <2>2
<1> QED BY <1>2, <1>3 DEF Digest

\* Every step keeps the inductive invariant.
LEMMA StepIInv == ASSUME IInv, [Next]_vars PROVE IInv'
<1> USE DEF IInv, TypeOK
<1>1. CASE ReceiveBytes
  <2>1. /\ got' \in Nat /\ got <= got' /\ got' <= sent
    BY <1>1, WsReceiveAssumption DEF ReceiveBytes, Smaller
  <2> QED BY <1>1, <2>1, DigestKeeps DEF ReceiveBytes
<1>2. CASE ReceiveAtEnd
  <2>1. got' = got /\ got' = sent
    BY <1>2 DEF ReceiveAtEnd
  <2>2. Digest(got' - front)
    BY <1>2, <2>1 DEF ReceiveAtEnd
  <2> QED BY <1>2, <2>1, <2>2, DigestKeeps DEF ReceiveAtEnd
<1>3. CASE ReceiveNothing
  <2>1. /\ outcome' \in Outcome
        /\ outcome'.kind \notin {"more", "missing"}
    BY <1>3 DEF ReceiveNothing, Ended, Outcome
  <2> QED
    BY <1>3, <2>1
    DEF ReceiveNothing, Aligned, WithinStash, RemainingIsLowerBound,
        CompleteIsDelivered, NeedIsLowerBound
<1>4. ASSUME NEW b \in BOOLEAN, SetNonBlock(b) PROVE IInv'
  BY <1>4
  DEF SetNonBlock, Aligned, WithinStash, RemainingIsLowerBound,
      CompleteIsDelivered, NeedIsLowerBound
<1>8. ASSUME NEW n \in Limits, SetFrameSizeLimit(n) PROVE IInv'
  <2>1. n \in Nat
    BY WsReceiveAssumption
  <2> QED
    BY <1>8, <2>1
    DEF SetFrameSizeLimit, Aligned, WithinStash, RemainingIsLowerBound,
        CompleteIsDelivered, NeedIsLowerBound
<1>5. ASSUME NEW n \in Segments, PeerSends(n) PROVE IInv'
  <2>1. n \in Nat \ {0}
    BY WsReceiveAssumption
  <2>2. sent' \in Nat /\ sent' >= sent /\ sent' <= StreamEnd
    BY <1>5, <2>1 DEF PeerSends
  <2> QED
    BY <1>5, <2>2
    DEF PeerSends, Aligned, WithinStash, RemainingIsLowerBound,
        CompleteIsDelivered, NeedIsLowerBound
<1>6. CASE PeerCloses
  BY <1>6
  DEF PeerCloses, Aligned, WithinStash, RemainingIsLowerBound,
      CompleteIsDelivered, NeedIsLowerBound
<1>7. CASE UNCHANGED vars
  BY <1>7
  DEF vars, Aligned, WithinStash, RemainingIsLowerBound,
      CompleteIsDelivered, NeedIsLowerBound
<1> QED BY <1>1, <1>2, <1>3, <1>4, <1>5, <1>6, <1>7, <1>8 DEF Next, Receive

\* The invariant holds always, however the stream is cut and whatever read()
\* returns.
THEOREM Invariance == Spec => []IInv
BY InitIInv, StepIInv, PTL DEF Spec

\* receive() keeps the types of its state, whatever it is sent.
THEOREM TypeCorrect == Spec => []TypeOK
BY Invariance, PTL DEF IInv

\* The parser always stands at the first byte of a frame.
THEOREM AlwaysAligned == Spec => []Aligned
BY Invariance, PTL DEF IInv

\* No frame is returned, and nothing is erased, before it has been read.
THEOREM NothingInvented == Spec => []WithinStash
BY Invariance, PTL DEF IInv

\* remainingRead never holds a complete frame back.
THEOREM CompleteFramesPass == Spec => []CompleteIsDelivered
BY Invariance, PTL DEF IInv

\* What receive() says it lacks is never more than the frame lacks.
THEOREM NeedIsSafe == Spec => []NeedIsLowerBound
BY Invariance, PTL DEF IInv
==============================================================================
