---------------------------- MODULE MCWsConnection ----------------------------
(***************************************************************************)
(* WsConnection for TLC: frames of one, two and three bytes, all different.*)
(***************************************************************************)
EXTENDS WsConnection

ThreeFrames == {<<1>>, <<2, 3>>, <<4, 5, 6>>}
Bytes == 1 .. 6
==============================================================================
