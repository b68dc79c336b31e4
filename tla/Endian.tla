-------------------------------- MODULE Endian --------------------------------
(***************************************************************************)
(* The byte order conversions of src/libashe/Endian.hpp on one buffer: the *)
(* three inversions, with their hard-coded sizes and their loops, and the  *)
(* choice that from_endian_*() and to_endian_*() make for a host.          *)
(*                                                                         *)
(* A byte is known by its place in the number: 0 is the least significant. *)
(***************************************************************************)
EXTENDS Integers

CONSTANTS HostOrder,   \* the byte order of the host
          Sizes        \* the sizes of buffers

Orders == {"little", "big", "middle"}

ASSUME EndianAssumption == HostOrder \in Orders /\ Sizes \subseteq Nat

VARIABLES size,     \* of the buffer
          buf,      \* which byte of the number is where
          order,    \* the order that the buffer is in, before the call
          target,   \* the order that the call makes
          loop,     \* where the call is
          a, b,     \* its variables
          answer    \* how the last call ended

enVars == <<size, buf, order, target, loop, a, b, answer>>

Answer == {"none", "done", "EndianException", "wild"}

\* invert_endian_lb, _ml and _mb, known by the two orders they exchange.
Inversions == {{"little", "big"}, {"middle", "little"}, {"middle", "big"}}

\* What from_endian_*() and to_endian_*() do about the order o: the inversion of
\* o and the host's order, or nothing when they are the same.
Selected(o) == {o, HostOrder}

Calls == Inversions \cup {Selected(o) : o \in Orders}

\* The order that a number of n bytes is in: the byte at position i.
Place(o, i, n) ==
    CASE o = "little" -> i
      [] o = "big"    -> n - 1 - i
      [] o = "middle" -> IF i < n \div 2 THEN i + n \div 2 ELSE i - n \div 2

\* size != 0 && (size & (size - 1)) == 0: no odd number but 1 divides it.
IsPowerOfTwo(n) == n # 0 /\ \A d \in 2 .. n : n % d = 0 => d % 2 = 0

\* The sizes that the switch statements spell out, and their swaps.
Spelled == {2, 4, 8, 16}

SwapsLB(n) ==
    CASE n = 2 -> {<<0, 1>>}
      [] n = 4 -> {<<0, 3>>, <<1, 2>>}
      [] n = 8 -> {<<0, 7>>, <<1, 6>>, <<2, 5>>, <<3, 4>>}
      [] n = 16 -> {<<0, 15>>, <<1, 14>>, <<2, 13>>, <<3, 12>>,
                    <<4, 11>>, <<5, 10>>, <<6, 9>>, <<7, 8>>}

SwapsML(n) ==
    CASE n = 2 -> {<<0, 1>>}
      [] n = 4 -> {<<0, 2>>, <<1, 3>>}
      [] n = 8 -> {<<0, 4>>, <<1, 5>>, <<2, 6>>, <<3, 7>>}
      [] n = 16 -> {<<0, 8>>, <<1, 9>>, <<2, 10>>, <<3, 11>>,
                    <<4, 12>>, <<5, 13>>, <<6, 14>>, <<7, 15>>}

SwapsMB(n) ==
    CASE n = 2 -> {}
      [] n = 4 -> {<<0, 1>>, <<2, 3>>}
      [] n = 8 -> {<<0, 3>>, <<1, 2>>, <<4, 7>>, <<5, 6>>}
      [] n = 16 -> {<<0, 7>>, <<1, 6>>, <<2, 5>>, <<3, 4>>,
                    <<8, 15>>, <<9, 14>>, <<10, 13>>, <<11, 12>>}

Swaps(call, n) ==
    CASE call = {"little", "big"} -> SwapsLB(n)
      [] call = {"middle", "little"} -> SwapsML(n)
      [] call = {"middle", "big"} -> SwapsMB(n)

\* The position whose byte comes to i.
Partner(swaps, i) ==
    IF \E j \in 0 .. 15 : <<i, j>> \in swaps \/ <<j, i>> \in swaps
    THEN CHOOSE j \in 0 .. 15 : <<i, j>> \in swaps \/ <<j, i>> \in swaps
    ELSE i

EnInit ==
    /\ size \in Sizes
    /\ order \in Orders /\ target = order
    /\ order = "middle" => size = 1 \/ size % 2 = 0
    /\ buf = [i \in 0 .. size - 1 |-> Place(order, i, size)]
    /\ loop = "idle" /\ a = 0 /\ b = 0
    /\ answer = "none"

\* A call ends.
Return(o, ans) ==
    /\ order' = o /\ target' = o
    /\ loop' = "idle"
    /\ answer' = ans

Idle == loop = "idle" /\ answer # "wild"

\* The order that an inversion makes of this one.
Other(call) == CHOOSE o \in call : o # order

\* case 2, 4, 8 and 16.
InvertSpelled(call) ==
    /\ size \in Spelled
    /\ buf' = [i \in 0 .. size - 1 |-> buf[Partner(Swaps(call, size), i)]]
    /\ Return(Other(call), "done")
    /\ UNCHANGED <<size, a, b>>

\* Whether the default case refuses the size.
Refused(call) ==
    IF call = {"middle", "big"} THEN ~IsPowerOfTwo(size) ELSE size % 2 # 0

InvertRefused(call) ==
    /\ size \notin Spelled /\ Refused(call)
    /\ Return(order, "EndianException")
    /\ UNCHANGED <<size, buf, a, b>>

\* Mutant of FirstB: the first loop of PDP <-> Big begins one too high.
FirstBOneMore(call) ==
    IF call = {"little", "big"} THEN size - 1 ELSE size \div 2

\* The first value of b; -1 stands for the largest size_t.
FirstB(call) ==
    CASE call = {"little", "big"} -> size - 1
      [] call = {"middle", "little"} -> size \div 2
      [] call = {"middle", "big"} -> size \div 2 - 1

\* The default case comes to its loop.
InvertLoops(call) ==
    /\ size \notin Spelled /\ ~Refused(call)
    /\ a' = 0 /\ b' = FirstB(call)
    /\ target' = Other(call)
    /\ loop' = "first"
    /\ UNCHANGED <<size, buf, order, answer>>

\* A conversion of a buffer from one of its two orders to the other.
Invert(call) ==
    /\ Idle
    /\ call \in Inversions /\ order \in call
    /\ InvertSpelled(call) \/ InvertRefused(call) \/ InvertLoops(call)

\* The host's own order: from_endian_*() and to_endian_*() are empty.
ConvertNothing ==
    /\ Idle /\ order = HostOrder
    /\ Return(order, "done")
    /\ UNCHANGED <<size, buf, a, b>>

\* The inversion whose loop is running.
Running == {order, target}

Halves == Running = {"middle", "little"}

\* The condition of the loop; every size_t is less than -1, but itself.
GoesOn == IF Halves THEN b < size ELSE a < b \/ b = -1

\* One round of the loop.
Swap ==
    /\ loop # "idle" /\ GoesOn /\ b \in 0 .. size - 1
    /\ buf' = [buf EXCEPT ![a] = buf[b], ![b] = buf[a]]
    /\ a' = a + 1
    /\ b' = IF Halves THEN b + 1 ELSE b - 1
    /\ UNCHANGED <<size, order, target, loop, answer>>

\* A round that swaps with a byte outside the buffer: then anything may happen.
SwapWild ==
    /\ loop # "idle" /\ GoesOn /\ b \notin 0 .. size - 1
    /\ Return(order, "wild")
    /\ UNCHANGED <<size, buf, a, b>>

\* PDP <-> Big has a loop for each half.
SecondLoop ==
    /\ loop = "first" /\ ~GoesOn
    /\ Running = {"middle", "big"}
    /\ loop' = "second"
    /\ a' = size \div 2 /\ b' = size - 1
    /\ UNCHANGED <<size, buf, order, target, answer>>

LoopEnds ==
    /\ loop # "idle" /\ ~GoesOn
    /\ loop = "second" \/ Running # {"middle", "big"}
    /\ Return(target, "done")
    /\ UNCHANGED <<size, buf, a, b>>

EnNext ==
    \/ \E call \in Calls : Invert(call)
    \/ ConvertNothing
    \/ Swap
    \/ SwapWild
    \/ SecondLoop
    \/ LoopEnds

EnSpec == EnInit /\ [][EnNext]_enVars
------------------------------------------------------------------------------
EnTypeOK ==
    /\ size \in Sizes
    /\ order \in Orders /\ target \in Orders
    /\ order = target <=> loop = "idle"
    /\ buf \in [0 .. size - 1 -> Int]
    /\ loop \in {"idle", "first", "second"}
    /\ a \in Nat /\ b \in Int
    /\ answer \in Answer

\* After every sequence of conversions, the spelled-out ones and the loops alike,
\* the buffer holds the number in the order that the last one made, or, when it
\* threw, in the order before.  The loops stay inside the buffer, unless it is
\* empty (Little <-> Big, where size - 1 wraps) or has one byte (PDP <-> Big,
\* where size / 2 - 1 does).
InOrder ==
    /\ loop = "idle" /\ answer # "wild" =>
        \A i \in 0 .. size - 1 : buf[i] = Place(order, i, size)
    /\ answer = "wild" => size \in {0, 1}
==============================================================================
