----------------------------- MODULE WsConnection -----------------------------
(***************************************************************************)
(* One ashe::WebSocket object on one descriptor: the opening handshake of  *)
(* WsHandshake and the sending of WsPost.  Both write to the same socket,  *)
(* and close() and operator= end both.  The program is single-threaded: a  *)
(* call of one kind is over before one of the other kind begins.           *)
(*                                                                         *)
(* post() does not ask whether there was a handshake, so the program has   *)
(* to: it may post when handshake() has said that it is done.  It may also *)
(* post too early; then the answer is not the first thing on the wire.     *)
(***************************************************************************)
EXTENDS WsPost, WsHandshake

VARIABLE early     \* history: a frame was posted on this connection before
                   \* handshake() had reported success

connectionVars == <<vars, hsVars, early>>

ConnectionInit == Init /\ HsInit /\ early = FALSE

\* A call of post().
Post ==
    \/ PostRefused /\ UNCHANGED early
    \/ Flush /\ UNCHANGED early
    \/ /\ \E f \in Frames : PostFrame(f)
       /\ early' = (early \/ result \notin {"done", "already"})

\* handshake(), and what the client does meanwhile.
Shake == Call \/ Read \/ ClientSends \/ ClientEnds

\* close(): __clearStash and __clearRequest.
CloseBoth == Close /\ HsClose /\ early' = FALSE

\* operator=: __construct, which calls __clearStash alone.
AssignBoth ==
    /\ Assign /\ early' = FALSE
    /\ \E k \in Kinds, n \in RequestSizes : HsAssign(k, n)

ConnectionNext ==
    \/ ~reading /\ Post /\ UNCHANGED hsVars
    \/ Shake /\ UNCHANGED <<vars, early>>
    \/ CloseBoth
    \/ AssignBoth

ConnectionSpec == ConnectionInit /\ [][ConnectionNext]_connectionVars

\* A call of handshake() that was made runs to its end: its read() returns, with
\* bytes or without.  That handshake() is called again is not assumed.  The
\* program repeats post() on a ssize_t until nothing is pending, as
\* examples/echowsserver.cpp:32-45 does, and the socket drains.  Strong fairness
\* for post(): it cannot be called while handshake() runs, which need not keep it
\* from being called between two of these calls.
ConnectionFairSpec ==
    /\ ConnectionSpec
    /\ WF_connectionVars(Read /\ UNCHANGED <<vars, early>>)
    /\ SF_connectionVars(~reading /\ open /\ Flush /\ wire' # wire
                           /\ UNCHANGED <<hsVars, early>>)
------------------------------------------------------------------------------
\* A program that posts only after handshake() has said that it is done, and does
\* not assign over a connected object, never puts a frame on the wire of a client
\* that has not got the whole answer, over any number of connections of one
\* object: what handshook says belongs to this connection.
FramesFollowAnswer ==
    wire # <<>> /\ ~early => open /\ conn.open /\ conn.written = ResponseSize
==============================================================================
