----------------------------- MODULE Base64Encoder -----------------------------
(***************************************************************************)
(* ashe::Base64Encoder (src/Base64Encoder.cpp): a base64 filter of OpenSSL *)
(* pushed on a memory BIO, fed piece by piece.  OpenSSL is external and    *)
(* loaded throughout; module BioPair has the two BIOs, and the library     *)
(* that goes down.                                                         *)
(*                                                                         *)
(* The bytes are numbered as they are fed.  What is written for three of   *)
(* them, or with padding for fewer, is a group; its four characters are    *)
(* the bytes that they stand for and the alphabet.                         *)
(***************************************************************************)
EXTENDS Integers, Sequences, SequencesExt

CONSTANTS Chunks,   \* how many bytes feed() is given
          MaxFed    \* bound: how many are fed in all

ASSUME Base64Assumption == Chunks \subseteq Nat /\ MaxFed \in Nat

VARIABLES ready,     \* b64 and bio are not null
          type,      \* PLAIN or URL
          held,      \* bytes that the filter keeps for the next group
          anew,      \* the filter was reset: the next write drops them
          mem,       \* what the memory BIO holds: groups
          result,    \* what payload() returned last
          fed,       \* history: bytes fed since the last open() or clear()
          cuts,      \* history: fed, whenever finish() was called
          taken,     \* history: groups that payload() returned since then
          untaken,   \* history: payload() was not called for mem
          missed     \* history: it was not when mem was reset, or finish()
                     \* followed a clear() and nothing was fed in between

session == <<ready, type>>
filter == <<held, anew, mem>>
b64History == <<fed, cuts, taken, untaken, missed>>
b64vars == <<session, filter, result, b64History>>

Types == {"PLAIN", "URL"}

Group(bytes, alphabet) == [bytes |-> bytes, alphabet |-> alphabet]

B64Init ==
    /\ ready = FALSE /\ type = "PLAIN"
    /\ held = <<>> /\ anew = FALSE /\ mem = <<>> /\ result = <<>>
    /\ fed = 0 /\ cuts = {} /\ taken = <<>>
    /\ untaken = FALSE /\ missed = FALSE

\* The history starts again.
Restart ==
    /\ fed' = 0 /\ cuts' = {} /\ taken' = <<>>
    /\ untaken' = FALSE /\ missed' = FALSE

\* A filter and a memory that were just made, or that are gone.
Blank == held' = <<>> /\ anew' = FALSE /\ mem' = <<>>

\* open() makes two BIOs, and closes what was open.
Open(t) ==
    /\ ready' = TRUE /\ type' = t
    /\ result' = <<>>
    /\ Blank /\ Restart

\* open() throws, at either BIO: what was open stays open, with all that it has
\* encoded.  What becomes of the BIOs is in module BioPair.
OpenFails == UNCHANGED b64vars

\* close(), and the destructor.
Close ==
    /\ ready' = FALSE
    /\ result' = <<>>
    /\ Blank /\ Restart
    /\ UNCHANGED type

\* The groups of three that the bytes begin with, and the rest of them.
Whole(bytes) ==
    [g \in 1 .. Len(bytes) \div 3 |-> SubSeq(bytes, 3 * g - 2, 3 * g)]

Rest(bytes) == SubSeq(bytes, 3 * (Len(bytes) \div 3) + 1, Len(bytes))

\* BIO_write() to the filter: whole groups go on to the memory BIO.
Filtered(before, bytes) ==
    LET all == (IF anew THEN <<>> ELSE held) \o bytes
    IN  /\ mem' = before \o Whole(all)
        /\ held' = Rest(all)
        /\ anew' = FALSE

\* The memory BIO is reset, and maybe nobody has taken what it held.
Discard == missed' = (missed \/ untaken)

\* finish() may flush what clear() should have dropped.
Residue == anew /\ held # <<>>

\* Mutant of Feed: the memory BIO is not reset, although payload() was called.
FeedAppending(n) ==
    /\ ready /\ n > 0 /\ fed + n <= MaxFed
    /\ Filtered(mem, [i \in 1 .. n |-> fed + i])
    /\ Discard
    /\ fed' = fed + n /\ untaken' = (mem' # <<>>)
    /\ UNCHANGED <<session, result, cuts, taken>>

Feed(n) ==
    /\ ready /\ n > 0 /\ fed + n <= MaxFed
    /\ Filtered(<<>>, [i \in 1 .. n |-> fed + i])
    /\ Discard
    /\ fed' = fed + n /\ untaken' = (mem' # <<>>)
    /\ UNCHANGED <<session, result, cuts, taken>>

\* A feed() that returns at once, or throws: it is not ready, or has no buffer.
FeedNothing(n) ==
    /\ ~ready \/ n = 0
    /\ UNCHANGED b64vars

\* finish() flushes the filter.  Whether a filter that was reset still flushes
\* what it holds is for OpenSSL to say: either is possible.
Finish ==
    /\ ready
    /\ \/ mem' = IF held = <<>> THEN <<>> ELSE <<held>>
       \/ anew /\ mem' = <<>>
    /\ held' = <<>>
    /\ missed' = (missed \/ untaken \/ Residue)
    /\ cuts' = cuts \cup {fed} /\ untaken' = (mem' # <<>>)
    /\ UNCHANGED <<session, anew, result, fed, taken>>

\* clear() resets the filter and the memory BIO.  With an encoder that is not
\* open there is only the result to free.
Clear ==
    /\ result' = <<>>
    /\ mem' = <<>>
    /\ anew' = ready
    /\ Restart
    /\ UNCHANGED <<session, held>>

\* __popResult(): what the memory BIO holds, in the alphabet of the type.
Popped == [g \in 1 .. Len(mem) |-> Group(mem[g], type)]

Payload ==
    /\ result' = Popped
    /\ taken' = IF untaken THEN taken \o Popped ELSE taken
    /\ untaken' = FALSE
    /\ UNCHANGED <<session, filter, fed, cuts, missed>>

B64Next ==
    \/ \E t \in Types : Open(t)
    \/ OpenFails
    \/ Close
    \/ \E n \in Chunks : Feed(n) \/ FeedNothing(n)
    \/ Finish
    \/ Clear
    \/ Payload

B64Spec == B64Init /\ [][B64Next]_b64vars
------------------------------------------------------------------------------
\* What payload() has returned and what it would return now.
Output == IF untaken THEN taken \o Popped ELSE taken

\* The number of the last byte that the first g groups stand for.
Reached(groups, g) == IF g = 0 THEN 0 ELSE Last(groups[g].bytes)

\* The bytes are those that follow number e.
Follow(bytes, e) == bytes = [i \in 1 .. Len(bytes) |-> e + i]

\* What the filter keeps, unless the next write drops it.
Pending == IF anew THEN <<>> ELSE held

\* To a program that calls payload() after every feed() and finish(), all that
\* it fed comes out once and in order, in the alphabet that it asked for, and
\* only finish() pads; the filter keeps the rest.  finish() may not follow
\* clear() with nothing fed in between.
EverythingIsEncoded ==
    LET out == Output
        end == Reached(out, Len(out))
    IN  ~missed =>
            /\ \A g \in DOMAIN out :
                /\ out[g].bytes # <<>>
                /\ Follow(out[g].bytes, Reached(out, g - 1))
                /\ out[g].alphabet = type
                /\ Len(out[g].bytes) = 3 \/ Reached(out, g) \in cuts
            /\ Follow(Pending, end)
            /\ end + Len(Pending) = fed
==============================================================================
