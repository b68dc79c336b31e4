------------------------------- MODULE MCValues -------------------------------
(***************************************************************************)
(* The parts of the library that one thread uses by itself, for TLC:       *)
(* Endian, Buffer, Base64Encoder, Base64Decoder and the BIOs of the two,   *)
(* UUID, and of WebSocket the frames, the header of a request and the      *)
(* descriptors.  They share nothing, so each behaviour is of one of them,  *)
(* its subject, and the others stay as they begin.                         *)
(***************************************************************************)
EXTENDS Endian, Buffer, Base64Encoder, Base64Decoder, BioPair, Uuid,
        WsFrame, WsHeader, WsOwner, TLC

VARIABLE subject

valueVars == <<subject, enVars, bufVars, b64vars, decVars, pairVars, uuidVars,
               frameVars, headerVars, ownVars>>

Subjects == {"Endian", "Buffer", "Base64Encoder", "Base64Decoder", "BioPair", "Uuid",
             "WsFrame", "WsHeader", "WsOwner"}

Init ==
    /\ subject \in Subjects
    /\ EnInit /\ BufInit /\ B64Init /\ DecInit /\ PairInit /\ UuidInit
    /\ FrameInit /\ HeaderInit /\ OwnInit
    /\ subject = "Endian" \/ (size = 0 /\ order = HostOrder)

OthersStay ==
    /\ subject # "Endian" => UNCHANGED enVars
    /\ subject # "Buffer" => UNCHANGED bufVars
    /\ subject # "Base64Encoder" => UNCHANGED b64vars
    /\ subject # "Base64Decoder" => UNCHANGED decVars
    /\ subject # "BioPair" => UNCHANGED pairVars
    /\ subject # "Uuid" => UNCHANGED uuidVars
    /\ subject # "WsFrame" => UNCHANGED frameVars
    /\ subject # "WsHeader" => UNCHANGED headerVars
    /\ subject # "WsOwner" => UNCHANGED ownVars
    /\ UNCHANGED subject

Next ==
    \/ subject = "Endian" /\ EnNext /\ OthersStay
    \/ subject = "Buffer" /\ BufNext /\ OthersStay
    \/ subject = "Base64Encoder" /\ B64Next /\ OthersStay
    \/ subject = "Base64Decoder" /\ DecNext /\ OthersStay
    \/ subject = "BioPair" /\ PairNext /\ OthersStay
    \/ subject = "Uuid" /\ UuidNext /\ OthersStay
    \/ subject = "WsFrame" /\ FrameNext /\ OthersStay
    \/ subject = "WsHeader" /\ HeaderNext /\ OthersStay
    \/ subject = "WsOwner" /\ OwnNext /\ OthersStay

Spec == Init /\ [][Next]_valueVars

Symmetry == Permutations(Cells)
------------------------------------------------------------------------------
\* The ASCII codes of a text.
Glyphs == "0123456789abcdef-ABCDEF "

Codes ==
    [ k \in 1 .. 24 |->
        CASE k \in 1 .. 10 -> 47 + k [] k \in 11 .. 16 -> 86 + k
          [] k = 17 -> 45 [] k \in 18 .. 23 -> 47 + k [] k = 24 -> 32 ]

Ascii(s) ==
    [ i \in 1 .. Len(s) |->
        Codes[CHOOSE k \in 1 .. 24 : SubSeq(Glyphs, k, k) = SubSeq(s, i, i)] ]

\* LASHE_UUID_NS_DNS, with blanks, with upper-case digits, of another variant, and
\* without hyphens; and a number that is no version.
UuidStrings ==
    {"6ba7b810-9dad-11d1-80b4-00c04fd430c8",
     "6ba7b810-9dad-11d1-80b4-00c04fd430c8 ",
     " 6ba7b810-9dad-11d1-80b4-00c04fd430c8",
     "6BA7B810-9DAD-11D1-80B4-00C04FD430C8",
     "6ba7b810-9dad-11d1-c0b4-00c04fd430c8",
     "6ba7b8109dad11d180b400c04fd430c8",
     "00112233-4455-6677-8899-aabbccddeeff",
     "  "}

UuidTextSet == {Ascii(s) : s \in UuidStrings}

\* Bytes of all values of a half byte, and two that are refused.
RawSet ==
    {[i \in 1 .. 16 |-> 16 * i - 1], [i \in 1 .. 16 |-> 255],
     [i \in 1 .. 16 |-> 16 * ((i + 1) % 16)]}

\* Lines with the names that may not come twice, as names and as values, with
\* two colons, with none, and with nothing on either side.
LongLineSet == {<<"x", "long">>}

LineSet ==
    LongLineSet \cup
    {<<"host", "localhost", "8080">>,
     <<"sec-websocket-key", "k1">>, <<"sec-websocket-key", "k2">>,
     <<"x", "a">>, <<"x", "host">>, <<"x", "">>, <<"y">>, <<"", "a">>}

UrlSet == {<<>>, << <<"p", "1">>, <<"q", "2">>, <<"p", "3">> >>}
==============================================================================
