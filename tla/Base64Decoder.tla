----------------------------- MODULE Base64Decoder -----------------------------
(***************************************************************************)
(* ashe::Base64Decoder (src/Base64Decoder.cpp): a base64 filter of OpenSSL *)
(* on a memory BIO.  feed() writes the text to the memory and reads what   *)
(* the filter makes of it into the result at once.  OpenSSL is external    *)
(* and loaded throughout, and module BioPair has the two BIOs, as for      *)
(* module Base64Encoder.                                                   *)
(*                                                                         *)
(* Characters are numbered as they are fed.  The filter decodes four of    *)
(* them, a quad, into three bytes; a byte is known by its quad, its place, *)
(* and the alphabet in which the filter saw the characters.                *)
(***************************************************************************)
EXTENDS Integers, Sequences

CONSTANTS Texts,      \* how many characters feed() is given
          MaxChars    \* bound: how many are fed to one pair of BIOs

ASSUME Base64DecoderAssumption == Texts \subseteq Nat /\ MaxChars \in Nat

VARIABLES decReady,    \* b64 and bio are not null
          decType,     \* PLAIN or URL
          partial,     \* characters that the filter keeps for the next quad
          backlog,     \* bytes that the filter has decoded and nobody has read
          decResult,   \* the result: its size, and the bytes that it begins with
          decPushed,   \* pushed
          chars,       \* history: characters fed since the last open() or clear()
          obtained,    \* history: the bytes that were put into it since then
          stale,       \* history: clear() left something in the filter
          lost,        \* history: a feed had no room for the filter to look at it
          decCuts      \* history: how many characters the feeds had, see Cut

decSession == <<decReady, decType>>
decHistory == <<chars, obtained, stale, lost, decCuts>>
decVars == <<decSession, partial, backlog, decResult, decPushed, decHistory>>

DecTypes == {"PLAIN", "URL"}

NoResult == decResult' = [size |-> 0, bytes |-> <<>>]

DecInit ==
    /\ decReady = FALSE /\ decType = "PLAIN"
    /\ partial = <<>> /\ backlog = <<>>
    /\ decResult = [size |-> 0, bytes |-> <<>>] /\ decPushed = 0
    /\ chars = 0 /\ obtained = <<>> /\ decCuts = {}
    /\ stale = FALSE /\ lost = FALSE

\* The BIOs are new or gone, and the history starts again.
Afresh ==
    /\ NoResult
    /\ partial' = <<>> /\ backlog' = <<>> /\ decPushed' = 0
    /\ chars' = 0 /\ obtained' = <<>> /\ decCuts' = {}
    /\ stale' = FALSE /\ lost' = FALSE

\* open() makes two BIOs, and closes what was open.
DecOpen(t) ==
    /\ Afresh
    /\ decReady' = TRUE /\ decType' = t

\* open() throws, at either BIO: what was open stays open, with all that the
\* filter keeps.  What becomes of the BIOs is in module BioPair.
DecOpenFails == UNCHANGED decVars

\* close(), and the destructor.
DecClose ==
    /\ Afresh
    /\ decReady' = FALSE
    /\ UNCHANGED decType

\* The alphabet in which the filter sees the characters: '-' and '_' of the URL
\* form are replaced.
Translated(t) == "PLAIN"

\* The bytes of the quads that the characters fill, and the characters left.
QuadBytes(s, alphabet) ==
    [b \in 1 .. 3 * (Len(s) \div 4) |->
        LET q == (b - 1) \div 3
        IN  [quad |-> SubSeq(s, 4 * q + 1, 4 * q + 4), place |-> b - 3 * q,
             alphabet |-> alphabet]]

LeftOver(s) == SubSeq(s, 4 * (Len(s) \div 4) + 1, Len(s))

\* The first n elements, or all if there are fewer, and those behind them.
First(s, n) == SubSeq(s, 1, IF Len(s) < n THEN Len(s) ELSE n)

Behind(s, n) == SubSeq(s, n + 1, Len(s))

\* There is no room for more: the next feed resets the memory BIO, so that what it
\* holds of this one is gone.
Overlooked(n) == Len(backlog) >= n

\* BIO_read() of n bytes with the fresh characters in the memory.  What was
\* decoded before comes first; the memory is looked at only if there is room for
\* more, and all of it is decoded then.  There may be fewer bytes than n: the rest
\* of the result is as malloc() gave it.
FilterRead(n, fresh) ==
    IF Overlooked(n)
    THEN /\ decResult' = [size |-> n, bytes |-> First(backlog, n)]
         /\ backlog' = Behind(backlog, n)
         /\ UNCHANGED partial
    ELSE LET bytes == backlog \o QuadBytes(partial \o fresh, Translated(decType))
         IN  /\ decResult' = [size |-> n, bytes |-> First(bytes, n)]
             /\ backlog' = Behind(bytes, n)
             /\ partial' = LeftOver(partial \o fresh)

\* What the history keeps of the size of a feed.
Cut(n) == IF n < 3 THEN "few" ELSE IF n % 4 = 0 THEN "quads" ELSE "ragged"

\* Mutant of DecFeed: the result gets the size of what the text stands for.
DecFeedFitted(n) ==
    /\ decReady /\ n > 0 /\ decPushed + n <= MaxChars
    /\ FilterRead(3 * (n \div 4), [i \in 1 .. n |-> chars + i])
    /\ decPushed' = decPushed + n
    /\ chars' = chars + n
    /\ obtained' = obtained \o decResult'.bytes
    /\ lost' = (lost \/ Overlooked(n))
    /\ decCuts' = decCuts \cup {Cut(n)}
    /\ UNCHANGED <<decSession, stale>>

\* feed(): the memory BIO is reset, with what the filter has not looked at, and
\* gets the text.  The result gets the size of the text, and nobody asks
\* BIO_read() how much of it was written.
DecFeed(n) ==
    /\ decReady /\ n > 0 /\ decPushed + n <= MaxChars
    /\ FilterRead(n, [i \in 1 .. n |-> chars + i])
    /\ decPushed' = decPushed + n
    /\ chars' = chars + n
    /\ obtained' = obtained \o decResult'.bytes
    /\ lost' = (lost \/ Overlooked(n))
    /\ decCuts' = decCuts \cup {Cut(n)}
    /\ UNCHANGED <<decSession, stale>>

\* feed() throws: it is not ready, has no buffer, or the text has not the form of
\* the type.  That is asked of the string up to its zero byte, whatever the
\* length says.  Without characters it just returns.
DecFeedNothing == UNCHANGED decVars

\* finish() does nothing to an open decoder, and throws otherwise.
DecFinish == UNCHANGED decVars

\* clear() frees the result.  The filter keeps what it has.
DecClear ==
    /\ NoResult
    /\ chars' = 0 /\ obtained' = <<>> /\ decCuts' = {} /\ lost' = FALSE
    /\ stale' = (stale \/ partial # <<>> \/ backlog # <<>>)
    /\ UNCHANGED <<decSession, partial, backlog, decPushed>>

\* payload() of a decoder that may change: the result is moved away.
DecTake ==
    /\ NoResult
    /\ UNCHANGED <<decSession, partial, backlog, decPushed, decHistory>>

DecNext ==
    \/ \E t \in DecTypes : DecOpen(t)
    \/ DecOpenFails \/ DecFeedNothing \/ DecFinish
    \/ DecClose
    \/ \E n \in Texts : DecFeed(n)
    \/ DecClear
    \/ DecTake

DecSpec == DecInit /\ [][DecNext]_decVars
------------------------------------------------------------------------------
\* Text that is cut at will is decoded once and in order, and readable in both
\* forms: what was written into the results and what waits for the next one are
\* the bytes of its quads, and the filter keeps the rest of it.  That needs a feed
\* that the filter looks at, as three characters or more always are; and clear()
\* must not be called while the filter keeps something.  The program cannot see
\* how much of a result was written.  If it always feeds whole quads it can tell:
\* it is three quarters, and nothing is left for finish() to do.
EverythingIsDecoded ==
    LET text == [i \in 1 .. chars |-> i]
    IN  ~stale =>
        /\ ~lost =>
            /\ obtained \o backlog = QuadBytes(text, "PLAIN")
            /\ partial = LeftOver(text)
        /\ "few" \notin decCuts => ~lost
        /\ decCuts \subseteq {"quads"} =>
            /\ partial = <<>> /\ backlog = <<>>
            /\ 4 * Len(decResult.bytes) = 3 * decResult.size
==============================================================================
