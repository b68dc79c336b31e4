--------------------------------- MODULE Bits ---------------------------------
(***************************************************************************)
(* A byte as the set of the positions of its bits that are one: | is a     *)
(* union, and & with a mask an intersection.                               *)
(***************************************************************************)
EXTENDS Integers

\* What the bits are worth, the lowest first.
Weight == <<1, 2, 4, 8, 16, 32, 64, 128>>

\* The bits of the lowest byte of a number, and the byte that has these bits.
BitsOf(n) == {k \in 0 .. 7 : (n \div Weight[k + 1]) % 2 = 1}

Worth(bits, k) == IF k \in bits THEN Weight[k + 1] ELSE 0

Number(bits) ==
    Worth(bits, 0) + Worth(bits, 1) + Worth(bits, 2) + Worth(bits, 3)
        + Worth(bits, 4) + Worth(bits, 5) + Worth(bits, 6) + Worth(bits, 7)
==============================================================================
