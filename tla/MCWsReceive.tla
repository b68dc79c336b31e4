----------------------------- MODULE MCWsReceive -----------------------------
(***************************************************************************)
(* WsReceive for TLC: a small stream, and the positions of its frames.     *)
(***************************************************************************)
EXTENDS WsReceive, SequencesExt

Frame(ext, mask, rsv, payload) ==
    [ext |-> ext, mask |-> mask, rsv |-> rsv, payload |-> payload]

\* A masked frame, one with a two-byte length, an empty one, one with an
\* eight-byte length, one whose length is not coded in the shortest way, one
\* that breaks the protocol, and one behind it.
MixedStream ==
    << Frame(0, TRUE, FALSE, 3), Frame(2, FALSE, FALSE, 126),
       Frame(0, FALSE, FALSE, 0), Frame(8, TRUE, FALSE, 6),
       Frame(2, TRUE, FALSE, 1), Frame(0, FALSE, TRUE, 1),
       Frame(0, FALSE, FALSE, 0) >>

FrameBytes(f) == 2 + f.ext + (IF f.mask THEN 4 ELSE 0) + f.payload

\* Where each frame of s begins, and where the last one ends.
StartOf(s) ==
    [k \in 1 .. Len(s) + 1 |->
        FoldLeft(LAMBDA sum, f : sum + FrameBytes(f), 0, SubSeq(s, 1, k - 1))]

MixedStart == StartOf(MixedStream)
==============================================================================
