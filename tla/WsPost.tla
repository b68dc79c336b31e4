------------------------------- MODULE WsPost -------------------------------
(***************************************************************************)
(* The sending half of ashe::WebSocket (src/WebSocket.cpp): post(frame),   *)
(* post() and stash[1], which keeps what write() did not take, with the    *)
(* calls that give the object another descriptor.                          *)
(*                                                                         *)
(* The calls may come in any order: the caller may post a frame while an   *)
(* earlier one is pending, flush when nothing is, or post on a closed      *)
(* socket.                                                                 *)
(***************************************************************************)
EXTENDS Integers, Sequences

CONSTANTS Byte,        \* what a frame is made of
          Frames,      \* what Frame::toBinary() returns for the frames posted
          MaxPosted    \* bound: how many frames one connection takes

ASSUME WsPostAssumption ==
    /\ Frames \subseteq Seq(Byte) \ {<<>>}
    /\ MaxPosted \in Nat

VARIABLES open,       \* fd is a connected socket; otherwise it is -1
          stash,      \* stash[1]
          outcome,    \* how the last call ended, and the ssize_t it threw
          wire,       \* history: the bytes written to this connection
          accepted,   \* history: the bytes of the frames post() took for it
          posted      \* history: how many frames these are

vars == <<open, stash, outcome, wire, accepted, posted>>

Outcome == [kind : {"none", "done", "owes", "errno"}, owed : Nat]

Ended(kind, owed) == [kind |-> kind, owed |-> owed]

Init ==
    /\ open = TRUE
    /\ stash = <<>>
    /\ outcome = Ended("none", 0)
    /\ wire = <<>>
    /\ accepted = <<>>
    /\ posted = 0

\* write() returns -1: EAGAIN, a broken connection, or fd = -1.
WriteFails(bytes) ==
    /\ stash' = bytes
    /\ outcome' = Ended("errno", 0)
    /\ UNCHANGED wire

\* Mutant of WritesSome: what is thrown is what was written.
WritesSomeTellingWritten(bytes) ==
    \E n \in 1 .. Len(bytes) - 1 :
        /\ wire' = wire \o SubSeq(bytes, 1, n)
        /\ stash' = SubSeq(bytes, n + 1, Len(bytes))
        /\ outcome' = Ended("owes", n)

\* write() takes some of the bytes; the stash keeps the others.
WritesSome(bytes) ==
    \E n \in 1 .. Len(bytes) - 1 :
        /\ wire' = wire \o SubSeq(bytes, 1, n)
        /\ stash' = SubSeq(bytes, n + 1, Len(bytes))
        /\ outcome' = Ended("owes", Len(bytes) - n)

WritesAll(bytes) ==
    /\ wire' = wire \o bytes
    /\ stash' = <<>>
    /\ outcome' = Ended("done", 0)

\* One call of write() and what post() makes of its result.
Write(bytes) ==
    \/ WriteFails(bytes)
    \/ open /\ WritesSome(bytes)
    \/ open /\ WritesAll(bytes)

\* post(frame) while an earlier frame is pending: the frame is not taken, and
\* the size of the stash is thrown.
PostRefused ==
    /\ stash # <<>>
    /\ outcome' = Ended("owes", Len(stash))
    /\ UNCHANGED <<open, stash, wire, accepted, posted>>

\* post(frame).
PostFrame(bytes) ==
    /\ stash = <<>>
    /\ posted < MaxPosted
    /\ posted' = posted + 1
    /\ accepted' = accepted \o bytes
    /\ Write(bytes)
    /\ UNCHANGED open

\* Mutant of Flush: post() gives up on a pending frame as post(frame) does.
FlushRefused ==
    \/ PostRefused
    \/ /\ stash = <<>>
       /\ outcome' = Ended("done", 0)
       /\ UNCHANGED <<open, stash, wire, accepted, posted>>

\* post() with something pending.
FlushPending ==
    /\ stash # <<>>
    /\ Write(stash)
    /\ UNCHANGED <<open, accepted, posted>>

\* post().
Flush ==
    \/ FlushPending
    \/ /\ stash = <<>>
       /\ outcome' = Ended("done", 0)
       /\ UNCHANGED <<open, stash, wire, accepted, posted>>

\* A connection's history ends with it.
ForgetConnection ==
    /\ wire' = <<>>
    /\ accepted' = <<>>
    /\ posted' = 0
    /\ outcome' = Ended("none", 0)

\* close(), in either mode: __clearStash.
Close ==
    /\ open' = FALSE
    /\ stash' = <<>>
    /\ ForgetConnection

\* Mutant of Assign: __construct copies fd and leaves the stash alone.
AssignKeepingStash ==
    /\ open' = TRUE
    /\ UNCHANGED stash
    /\ ForgetConnection

\* operator=, with the WebSocket that accept() returned: __construct copies fd
\* and clears the stash.
Assign ==
    /\ open' = TRUE
    /\ stash' = <<>>
    /\ ForgetConnection

Next ==
    \/ PostRefused
    \/ \E f \in Frames : PostFrame(f)
    \/ Flush
    \/ Close
    \/ Assign

Spec == Init /\ [][Next]_vars

\* The socket of an open connection drains, and the caller of a post() that
\* threw calls post() again, as the loop of examples/echowsserver.cpp:36 does;
\* so a pending frame is written on sooner or later.
FairSpec == Spec /\ WF_vars(open /\ Flush /\ wire' # wire)
------------------------------------------------------------------------------
TypeOK ==
    /\ open \in BOOLEAN
    /\ stash \in Seq(Byte)
    /\ outcome \in Outcome
    /\ wire \in Seq(Byte)
    /\ accepted \in Seq(Byte)
    /\ posted \in 0 .. MaxPosted

\* What is on the wire and what is pending are together exactly the frames that
\* post() took on this connection: none is lost, cut, repeated or mixed with
\* another one, or left over from an earlier connection of the object.
WireIsWhole == wire \o stash = accepted

\* The caller knows where it stands: a call that returns has put everything
\* that was ever taken on the wire, and a number thrown is what is pending.
AnswerIsExact ==
    /\ outcome.kind = "done" => wire = accepted
    /\ outcome.kind = "owes" => outcome.owed > 0 /\ outcome.owed = Len(stash)
    /\ outcome.kind = "errno" => stash # <<>>

\* A frame that was taken leaves the stash, unless the connection is given up.
PendingIsFlushed == open /\ stash # <<>> ~> stash = <<>> \/ ~open
==============================================================================
