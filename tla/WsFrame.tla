------------------------------- MODULE WsFrame -------------------------------
(***************************************************************************)
(* One WebSocket::Frame object (src/WebSocket.cpp): firstBytes with its    *)
(* bits, the mask and the payload, their setters, and toBinary(), which    *)
(* writes them, against the constructor that reads them.  The host is      *)
(* little-endian, as toBinary() supposes.                                  *)
(*                                                                         *)
(* firstBytes is the set of the positions of its bits that are one, as in  *)
(* module Bits.                                                            *)
(***************************************************************************)
EXTENDS Integers, Bits

CONSTANTS PayloadSizes,     \* the payload sizes that are tried
          MaxSets           \* bound: how often the payload of an object is set

ASSUME WsFrameAssumption == PayloadSizes \subseteq Nat /\ MaxSets \in Nat

VARIABLES firstBytes,     \* the first sixteen bits of the frame that are one
          maskSize,       \* mask.size()
          payloadSize,    \* payload.size()
          sets,           \* history: how often the payload was set
          wanted          \* history: what the setters were last called with

frameVars == <<firstBytes, maskSize, payloadSize, sets, wanted>>

Opcodes == {0, 1, 2, 8, 9, 10}

FinBit == {15}
RsvBits == 12 .. 14
OpcodeBits == 8 .. 11
MaskBit == {7}
LengthBits == 0 .. 6

\* The opcode stands eight bits to the left.
OpcodeAt(op) == {k + 8 : k \in BitsOf(op)}

OpcodeOf(bits) == Number({k \in LengthBits : k + 8 \in bits \cap OpcodeBits})

FrameInit ==
    /\ firstBytes = {} /\ maskSize = 0 /\ payloadSize = 0 /\ sets = 0
    /\ wanted = [fin |-> FALSE, opcode |-> 0, masked |-> FALSE]

SetFin(fin) ==
    /\ firstBytes' = IF fin THEN firstBytes \cup FinBit ELSE firstBytes \ FinBit
    /\ wanted' = [wanted EXCEPT !.fin = fin]
    /\ UNCHANGED <<maskSize, payloadSize, sets>>

SetOpcode(op) ==
    /\ firstBytes' = (firstBytes \ OpcodeBits) \cup OpcodeAt(op)
    /\ wanted' = [wanted EXCEPT !.opcode = op]
    /\ UNCHANGED <<maskSize, payloadSize, sets>>

\* What __updatePayloadSize() chooses for a payload of n bytes.
LengthOf(n) == IF n > 65535 THEN 127 ELSE IF n > 125 THEN 126 ELSE n

\* Mutant of UpdatePayloadSize: 126 is left for the sizes above 65535.
UpdatePayloadSizeShort(n) == 
    firstBytes' = firstBytes \cup BitsOf(IF n > 125 THEN 126 ELSE n)

\* __updatePayloadSize(): the bits of the new length are added to those of the
\* old one.
UpdatePayloadSize(n) == firstBytes' = firstBytes \cup BitsOf(LengthOf(n))

\* setPayload, swapPayload and clearPayload (n = 0).
SetPayload(n) ==
    /\ sets < MaxSets
    /\ sets' = sets + 1
    /\ payloadSize' = n
    /\ UpdatePayloadSize(n)
    /\ UNCHANGED <<maskSize, wanted>>

\* setMask: a number gives four bytes, and a vector is resized to four.
SetMask ==
    /\ firstBytes' = firstBytes \cup MaskBit
    /\ maskSize' = 4
    /\ wanted' = [wanted EXCEPT !.masked = TRUE]
    /\ UNCHANGED <<payloadSize, sets>>

ClearMask ==
    /\ firstBytes' = firstBytes \ MaskBit
    /\ maskSize' = 0
    /\ wanted' = [wanted EXCEPT !.masked = FALSE]
    /\ UNCHANGED <<payloadSize, sets>>

HasMask == firstBytes \cap MaskBit # {}

\* The copy constructor and operator=: firstBytes is copied bit for bit, the
\* mask set or cleared, and the length bits are updated once more.
FrameCopy ==
    /\ maskSize' = IF HasMask THEN 4 ELSE 0
    /\ UpdatePayloadSize(payloadSize)
    /\ UNCHANGED <<payloadSize, sets, wanted>>

FrameNext ==
    \/ \E b \in BOOLEAN : SetFin(b)
    \/ \E op \in Opcodes : SetOpcode(op)
    \/ \E n \in PayloadSizes : SetPayload(n)
    \/ SetMask
    \/ ClearMask
    \/ FrameCopy

FrameSpec == FrameInit /\ [][FrameNext]_frameVars

\* The length in the first bytes, and the size of the field that toBinary() writes
\* behind them.
Length == Number(firstBytes \cap LengthBits)

ExtendedSize == CASE Length = 126 -> 2 [] Length = 127 -> 8 [] OTHER -> 0

ExtendedLength == IF ExtendedSize = 2 THEN payloadSize % 65536 ELSE payloadSize

\* How many bytes toBinary() writes, and what getFrameSize() says of them.
BinarySize == 2 + ExtendedSize + (IF HasMask THEN maskSize ELSE 0) + payloadSize

FrameSize == 2 + ExtendedSize + (IF HasMask THEN 4 ELSE 0) + payloadSize

\* The payload size that the constructor reads from what toBinary() wrote, and
\* what it finds in the first bytes; it refuses frames with a reserved bit.
DecodedSize == IF ExtendedSize = 0 THEN Length ELSE ExtendedLength

DecodedHead ==
    [ fin |-> firstBytes \cap FinBit # {},
      opcode |-> OpcodeOf(firstBytes),
      masked |-> HasMask ]

HeadRefused == firstBytes \cap RsvBits # {}
------------------------------------------------------------------------------
\* What is read back has the opcode, the end mark and the mask that were last set,
\* in whatever order the setters were called.  It has the payload's size if the
\* payload was set once, and also whenever it ever had more than 125 bytes,
\* whatever it has now: the bits that are never cleared only make the length
\* longer than it needs to be.
ReadBack ==
    /\ ~HeadRefused /\ DecodedHead = wanted /\ FrameSize = BinarySize
    /\ sets <= 1 \/ ExtendedSize > 0 => DecodedSize = payloadSize

\* What RFC 6455, which src/WebSocket.cpp:7 refers to, demands of every frame,
\* and what examples/nonblock_wsechoserver.cpp:176 relies on when it sets the
\* payload of one Frame again and again: the length is the payload's.
LengthIsRight == DecodedSize = payloadSize
==============================================================================
