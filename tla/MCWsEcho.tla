------------------------------- MODULE MCWsEcho -------------------------------
(***************************************************************************)
(* WsEcho for TLC: a masked frame of one byte, one of three with an        *)
(* extended length, an empty one, whose echo states a length of three, one *)
(* of three again, and one that breaks the protocol.                       *)
(***************************************************************************)
EXTENDS WsEcho, SequencesExt

Frame(ext, mask, rsv, payload) ==
    [ext |-> ext, mask |-> mask, rsv |-> rsv, payload |-> payload]

FiveFrames ==
    << Frame(0, TRUE, FALSE, 1), Frame(2, FALSE, FALSE, 3),
       Frame(0, FALSE, FALSE, 0), Frame(0, FALSE, FALSE, 3), Frame(0, FALSE, TRUE, 1) >>

FiveStarts == << 0, 7, 14, 16, 21, 24 >>

\* The echoes of the first k frames, one behind the other.
EchoesOf ==
    [l \in Closings |->
        [k \in 0 .. Len(Stream) |->
            FoldLeft(LAMBDA bytes, i : bytes \o Echo(i, Payload(l, i), EchoBits(l, i)),
                     <<>>, [i \in 1 .. k |-> i])]]
==============================================================================
