--------------------------------- MODULE Uuid ---------------------------------
(***************************************************************************)
(* ashe::UUID (src/UUID.cpp): its construction from a text or from bytes,  *)
(* copying, assignment, and the private data on the heap that every object *)
(* points to.  Characters are their ASCII codes.                           *)
(***************************************************************************)
EXTENDS Integers, Sequences, Bits

CONSTANTS Ids,         \* UUID variables of the program
          UuidTexts,   \* texts that are given to the constructor
          Raws,        \* sixteen bytes each, likewise
          MaxBlocks    \* bound: how often private data is allocated

ASSUME UuidAssumption ==
    /\ UuidTexts \subseteq Seq(1 .. 127)
    /\ Raws \subseteq [1 .. 16 -> 0 .. 255]
    /\ MaxBlocks \in Nat

VARIABLES uuidPd,  \* uuidPd[o]: the block that __pd of o points to; 0 is no object
          blocks,  \* the private data that was allocated: data and str
          given    \* history: the text or the bytes that o stands for

uuidVars == <<uuidPd, blocks, given>>

Spaces == {9, 10, 11, 12, 13, 32}

Hyphen == 45

Hyphens == {9, 14, 19, 24}

\* Where the two digits of each byte begin in a text.
DigitsOf == <<1, 3, 5, 7, 10, 12, 15, 17, 20, 22, 25, 27, 29, 31, 33, 35>>

\* The byte that the digit in each place belongs to.
ByteAt ==
    [k \in 1 .. 36 \ Hyphens |->
        CHOOSE i \in 1 .. 16 : k \in {DigitsOf[i], DigitsOf[i] + 1}]

\* trim() of StringUtils.hpp: the text between its first and last characters
\* that are not blank.
Trimmed(t) ==
    LET solid == {i \in DOMAIN t : t[i] \notin Spaces}
    IN  IF solid = {} THEN <<>>
        ELSE SubSeq(t, CHOOSE i \in solid : \A j \in solid : i <= j,
                       CHOOSE i \in solid : \A j \in solid : j <= i)

HexDigits == 48 .. 57 \cup 97 .. 102

\* The regular expression uuid_husk.
IsHusk(t) ==
    /\ Len(t) = 36
    /\ \A i \in 1 .. 36 : IF i \in Hyphens THEN t[i] = Hyphen ELSE t[i] \in HexDigits

\* validate_uuid_string(): a husk with 8, 9, a or b in its twentieth place.  It
\* looks at the text without the blanks around it.
ValidText(t) == IsHusk(Trimmed(t)) /\ Trimmed(t)[20] \in {56, 57, 97, 98}

ValidTexts == {t \in UuidTexts : ValidText(t)}

\* validate_uuid_binary()
ValidBytes(b) == b[9] \div 16 \in 8 .. 11

\* What the constructor makes of a character.
Digit(c) ==
    IF c \in 48 .. 57 THEN c - 48 ELSE IF c \in 97 .. 122 THEN c - 87 ELSE c

\* The byte that two digits make: (uint8_t)((high << 4) | low).
Joined(high, low) == Number(BitsOf(16 * high) \cup BitsOf(low))

\* The bytes that the constructor reads out of the text, blanks included: what
\* trim() and lower() return is not used.
Parsed(t) ==
    [i \in 1 .. 16 |-> Joined(Digit(t[DigitsOf[i]]), Digit(t[DigitsOf[i] + 1]))]

HexOf(n) == IF n < 10 THEN 48 + n ELSE 87 + n

\* __mkStr()
MkStr(b) ==
    [ k \in 1 .. 36 |->
        IF k \in Hyphens THEN Hyphen
        ELSE HexOf(IF k = DigitsOf[ByteAt[k]] THEN b[ByteAt[k]] \div 16
                   ELSE b[ByteAt[k]] % 16) ]

\* version(): NONE, which is 0, for the numbers that are no version.
VersionOf(b) == IF b[7] \div 16 \in 1 .. 5 THEN b[7] \div 16 ELSE 0

UuidInit ==
    /\ uuidPd = [o \in Ids |-> 0] /\ blocks = <<>> /\ given = [o \in Ids |-> <<>>]

\* The object gets private data of its own, which is never deleted.
Allocates(o, contents) ==
    /\ uuidPd[o] = 0 /\ Len(blocks) < MaxBlocks
    /\ blocks' = Append(blocks, contents)
    /\ uuidPd' = [uuidPd EXCEPT ![o] = Len(blocks')]

Filled(b) == [data |-> b, str |-> MkStr(b)]

FromText(o, t) ==
    /\ t \in ValidTexts
    /\ Allocates(o, Filled(Parsed(t)))
    /\ given' = [given EXCEPT ![o] = t]

FromBytes(o, b) ==
    /\ ValidBytes(b)
    /\ Allocates(o, Filled(b))
    /\ given' = [given EXCEPT ![o] = b]

\* Either constructor throws before it allocates.
Unfit(t) == t \notin ValidTexts /\ UNCHANGED uuidVars

UnfitBytes(b) == ~ValidBytes(b) /\ UNCHANGED uuidVars

\* Mutant of UuidCopy: the copy points to the same private data.
UuidCopyShallow(o, p) ==
    /\ uuidPd[o] = 0 /\ uuidPd[p] # 0
    /\ uuidPd' = [uuidPd EXCEPT ![o] = uuidPd[p]]
    /\ given' = [given EXCEPT ![o] = given[p]]
    /\ UNCHANGED blocks

UuidCopy(o, p) ==
    /\ uuidPd[p] # 0
    /\ Allocates(o, blocks[uuidPd[p]])
    /\ given' = [given EXCEPT ![o] = given[p]]

UuidAssign(o, p) ==
    /\ uuidPd[o] # 0 /\ uuidPd[p] # 0
    /\ blocks' = [blocks EXCEPT ![uuidPd[o]] = blocks[uuidPd[p]]]
    /\ given' = [given EXCEPT ![o] = given[p]]
    /\ UNCHANGED uuidPd

\* The destructor is empty: the private data stays allocated.
UuidDestroy(o) ==
    /\ uuidPd[o] # 0
    /\ uuidPd' = [uuidPd EXCEPT ![o] = 0]
    /\ given' = [given EXCEPT ![o] = <<>>]
    /\ UNCHANGED blocks

UuidNext ==
    \/ \E o \in Ids, t \in UuidTexts : FromText(o, t)
    \/ \E o \in Ids, b \in Raws : FromBytes(o, b)
    \/ \E t \in UuidTexts : Unfit(t)
    \/ \E b \in Raws : UnfitBytes(b)
    \/ \E o, p \in Ids : UuidCopy(o, p) \/ UuidAssign(o, p)
    \/ \E o \in Ids : UuidDestroy(o)

UuidSpec == UuidInit /\ [][UuidNext]_uuidVars
------------------------------------------------------------------------------
\* RFC 4122: the text has 8, 4, 4, 4 and 12 digits with a hyphen between, and two
\* of them denote a byte, the high one first.
PlaceOf(k) ==
    k + (IF k <= 8 THEN 0 ELSE IF k <= 12 THEN 1 ELSE IF k <= 16 THEN 2
         ELSE IF k <= 20 THEN 3 ELSE 4)

HexValue(c) == IF c < 97 THEN c - 48 ELSE c - 87

Denoted(t) ==
    [i \in 1 .. 16 |->
        16 * HexValue(t[PlaceOf(2 * i - 1)]) + HexValue(t[PlaceOf(2 * i)])]

\* A text with blanks in front is found valid, and then read from its blanks on.
BlanksInFront(t) == Len(t) > 16 /\ t[1] \in Spaces

PrivData(o) == blocks[uuidPd[o]]

\* Through all copying and assigning, an object shows one identifier, the one that
\* it was made from: the text is that of the bytes, and shows their version; two
\* objects that stand for the same text or bytes show the same; and the bytes are
\* those that were given, or that the text denotes if it has no blanks in front.
\* All of it holds whatever happens to the object that one was copied from.
UuidIsFaithful ==
    \A o \in Ids : uuidPd[o] # 0 =>
        /\ Denoted(PrivData(o).str) = PrivData(o).data /\ IsHusk(PrivData(o).str)
        /\ VersionOf(PrivData(o).data) =
            (IF PrivData(o).str[15] \in 49 .. 53 THEN PrivData(o).str[15] - 48 ELSE 0)
        /\ \A p \in Ids :
            uuidPd[p] # 0 /\ given[p] = given[o] => PrivData(p).data = PrivData(o).data
        /\ Len(given[o]) = 16 => PrivData(o).data = given[o]
        /\ Len(given[o]) # 16 /\ ~BlanksInFront(given[o]) =>
            PrivData(o).data = Denoted(Trimmed(given[o]))
==============================================================================
