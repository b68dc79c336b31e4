------------------------------ MODULE WireProofs ------------------------------
(***************************************************************************)
(* Theorems about what goes over the wire: the byte order of a buffer      *)
(* (module Endian), the first bytes of a frame (module WsFrame), the       *)
(* header of a request (module WsHeader), and the text and the bytes of a  *)
(* UUID (module Uuid).                                                     *)
(***************************************************************************)
EXTENDS Endian, WsFrame, WsHeader, Uuid, SequenceTheorems, FiniteSetTheorems,
        WellFoundedInduction, TLAPS
------------------------------------------------------------------------------
\* A buffer of every size: every sequence of conversions keeps the number.
LittleBig == {"little", "big"}
MiddleLittle == {"middle", "little"}
MiddleBig == {"middle", "big"}

Half == size \div 2

\* The positions that a loop has dealt with hold what they should in the end.
Dealt(i) ==
    CASE Running = LittleBig -> i < a \/ i > b
      [] Running = MiddleLittle -> i < a \/ (Half <= i /\ i < b)
      [] Running = MiddleBig ->
           IF loop = "first" THEN i < a \/ (b < i /\ i < Half)
                             ELSE i < a \/ i > b

\* Where the two variables of a loop are, and how far a can get.
Pace ==
    CASE Running = LittleBig -> b = size - 1 - a /\ 2 * a <= size
      [] Running = MiddleLittle -> b = Half + a /\ a <= Half
      [] Running = MiddleBig ->
           IF loop = "first" THEN b = Half - 1 - a /\ 2 * a <= Half
                             ELSE /\ b = size - 1 - (a - Half)
                                  /\ Half <= a /\ 2 * (a - Half) <= Half

\* The invariant of the loops.
LoopInv ==
    /\ answer # "wild"
    /\ Running \in Inversions
    /\ Running # MiddleBig => loop = "first"
    /\ size % 2 = 0 \/ (size = 1 /\ Running = MiddleBig /\ loop = "first")
    /\ size = 0 => Running # MiddleBig
    /\ Pace
    /\ \A i \in 0 .. size - 1 :
        buf[i] = Place(IF Dealt(i) THEN target ELSE order, i, size)

EnInv ==
    /\ EnTypeOK
    /\ order = "middle" => size = 1 \/ size % 2 = 0
    /\ answer = "wild" => loop = "idle"
    /\ InOrder
    /\ loop # "idle" => LoopInv
------------------------------------------------------------------------------
\* The half of an even number.
LEMMA Halving ==
    ASSUME NEW n \in Nat, n % 2 = 0
    PROVE  n \div 2 \in Nat /\ n = 2 * (n \div 2)
  OBVIOUS

\* A power of two is one or even.
LEMMA PowersAreEven ==
    ASSUME NEW n \in Nat, IsPowerOfTwo(n)
    PROVE  n # 0 /\ (n = 1 \/ n % 2 = 0)
  <1>1. CASE n \in {0, 1}
    BY <1>1 DEF IsPowerOfTwo
  <1>2. CASE n \notin {0, 1}
    <2>1. n \in 2 .. n /\ n % n = 0
      BY <1>2
    <2> QED
      BY <2>1 DEF IsPowerOfTwo
  <1> QED
    BY <1>1, <1>2

\* The names of orders and answers are what they are.
LEMMA Names ==
    /\ "little" # "big" /\ "little" # "middle" /\ "big" # "middle"
    /\ LittleBig # MiddleLittle /\ LittleBig # MiddleBig
    /\ MiddleLittle # MiddleBig
    /\ Inversions = {LittleBig, MiddleLittle, MiddleBig}
  BY DEF LittleBig, MiddleLittle, MiddleBig, Inversions

\* Places are integers.
LEMMA PlaceInt ==
    ASSUME NEW o \in Orders, NEW n \in Nat, NEW i \in 0 .. n - 1
    PROVE  Place(o, i, n) \in Int
  BY DEF Place, Orders

\* The order that an inversion makes of this one.
LEMMA OtherIs ==
    ASSUME NEW call \in Inversions, order \in call
    PROVE  /\ Other(call) \in Orders /\ Other(call) # order
           /\ call = {order, Other(call)}
  <1>1. \E o \in call : o # order
    BY DEF Inversions
  <1>2. Other(call) \in call /\ Other(call) # order
    BY <1>1 DEF Other
  <1> QED
    BY <1>2 DEF Inversions, Orders

\* Whichever way a number is inverted, what belongs to position i is now at its
\* partner.
LEMMA PartnerIs ==
    ASSUME NEW S, NEW i \in 0 .. 15, NEW j \in 0 .. 15,
           <<i, j>> \in S \/ <<j, i>> \in S,
           \A k \in 0 .. 15 : <<i, k>> \in S \/ <<k, i>> \in S => k = j
    PROVE  Partner(S, i) = j
  BY DEF Partner

\* The swaps of invert_endian_lb() exchange the two ends.
LEMMA MirrorLB ==
    ASSUME NEW n \in Spelled, NEW i \in 0 .. n - 1
    PROVE  Partner(SwapsLB(n), i) = n - 1 - i
  <1> DEFINE j == n - 1 - i
             S == SwapsLB(n)
             Paired(k) == <<i, k>> \in S \/ <<k, i>> \in S
  <1>0. i \in 0 .. 15 /\ j \in 0 .. 15
    BY DEF Spelled
  <1>1. n = 2 => Paired(j) /\ \A k \in 0 .. 15 : Paired(k) => k = j
    <2> SUFFICES ASSUME n = 2
                 PROVE  Paired(j) /\ \A k \in 0 .. 15 : Paired(k) => k = j
      OBVIOUS
    <2>1. Paired(j)
      BY DEF SwapsLB
    <2>2. \A k \in 0 .. 15 : Paired(k) => k = j
      BY DEF SwapsLB
    <2> QED
      BY <2>1, <2>2
  <1>2. n = 4 => Paired(j) /\ \A k \in 0 .. 15 : Paired(k) => k = j
    <2> SUFFICES ASSUME n = 4
                 PROVE  Paired(j) /\ \A k \in 0 .. 15 : Paired(k) => k = j
      OBVIOUS
    <2>1. Paired(j)
      BY DEF SwapsLB
    <2>2. \A k \in 0 .. 15 : Paired(k) => k = j
      BY DEF SwapsLB
    <2> QED
      BY <2>1, <2>2
  <1>3. n = 8 => Paired(j) /\ \A k \in 0 .. 15 : Paired(k) => k = j
    <2> SUFFICES ASSUME n = 8
                 PROVE  Paired(j) /\ \A k \in 0 .. 15 : Paired(k) => k = j
      OBVIOUS
    <2>1. Paired(j)
      BY DEF SwapsLB
    <2>2. \A k \in 0 .. 15 : Paired(k) => k = j
      BY DEF SwapsLB
    <2> QED
      BY <2>1, <2>2
  <1>4. n = 16 => Paired(j) /\ \A k \in 0 .. 15 : Paired(k) => k = j
    <2> SUFFICES ASSUME n = 16
                 PROVE  Paired(j) /\ \A k \in 0 .. 15 : Paired(k) => k = j
      OBVIOUS
    <2>1. Paired(j)
      BY DEF SwapsLB
    <2>2. \A k \in 0 .. 15 : Paired(k) => k = j
      BY DEF SwapsLB
    <2> QED
      BY <2>1, <2>2
  <1>5. Paired(j) /\ \A k \in 0 .. 15 : Paired(k) => k = j
    BY <1>1, <1>2, <1>3, <1>4 DEF Spelled
  <1>6. Partner(S, i) = j
    <2> HIDE DEF j, S
    <2> QED
      BY <1>0, <1>5, PartnerIs
  <1> QED
    BY <1>6

\* Those of invert_endian_ml() exchange the halves.
LEMMA MirrorML ==
    ASSUME NEW n \in Spelled, NEW i \in 0 .. n - 1
    PROVE  Partner(SwapsML(n), i) = IF i < n \div 2 THEN i + n \div 2 ELSE i - n \div 2
  <1> DEFINE j == IF i < n \div 2 THEN i + n \div 2 ELSE i - n \div 2
             S == SwapsML(n)
             Paired(k) == <<i, k>> \in S \/ <<k, i>> \in S
  <1>0. i \in 0 .. 15 /\ j \in 0 .. 15
    BY DEF Spelled
  <1>1. n = 2 => Paired(j) /\ \A k \in 0 .. 15 : Paired(k) => k = j
    <2> SUFFICES ASSUME n = 2
                 PROVE  Paired(j) /\ \A k \in 0 .. 15 : Paired(k) => k = j
      OBVIOUS
    <2>1. Paired(j)
      BY DEF SwapsML
    <2>2. \A k \in 0 .. 15 : Paired(k) => k = j
      BY DEF SwapsML
    <2> QED
      BY <2>1, <2>2
  <1>2. n = 4 => Paired(j) /\ \A k \in 0 .. 15 : Paired(k) => k = j
    <2> SUFFICES ASSUME n = 4
                 PROVE  Paired(j) /\ \A k \in 0 .. 15 : Paired(k) => k = j
      OBVIOUS
    <2>1. Paired(j)
      BY DEF SwapsML
    <2>2. \A k \in 0 .. 15 : Paired(k) => k = j
      BY DEF SwapsML
    <2> QED
      BY <2>1, <2>2
  <1>3. n = 8 => Paired(j) /\ \A k \in 0 .. 15 : Paired(k) => k = j
    <2> SUFFICES ASSUME n = 8
                 PROVE  Paired(j) /\ \A k \in 0 .. 15 : Paired(k) => k = j
      OBVIOUS
    <2>1. Paired(j)
      BY DEF SwapsML
    <2>2. \A k \in 0 .. 15 : Paired(k) => k = j
      BY DEF SwapsML
    <2> QED
      BY <2>1, <2>2
  <1>4. n = 16 => Paired(j) /\ \A k \in 0 .. 15 : Paired(k) => k = j
    <2> SUFFICES ASSUME n = 16
                 PROVE  Paired(j) /\ \A k \in 0 .. 15 : Paired(k) => k = j
      OBVIOUS
    <2>1. Paired(j)
      BY DEF SwapsML
    <2>2. \A k \in 0 .. 15 : Paired(k) => k = j
      BY DEF SwapsML
    <2> QED
      BY <2>1, <2>2
  <1>5. Paired(j) /\ \A k \in 0 .. 15 : Paired(k) => k = j
    BY <1>1, <1>2, <1>3, <1>4 DEF Spelled
  <1>6. Partner(S, i) = j
    <2> HIDE DEF j, S
    <2> QED
      BY <1>0, <1>5, PartnerIs
  <1> QED
    BY <1>6

\* Those of invert_endian_mb() turn each half round.
LEMMA MirrorMB ==
    ASSUME NEW n \in Spelled, NEW i \in 0 .. n - 1
    PROVE  Partner(SwapsMB(n), i) = IF i < n \div 2 THEN n \div 2 - 1 - i ELSE n + n \div 2 - 1 - i
  <1> DEFINE j == IF i < n \div 2 THEN n \div 2 - 1 - i ELSE n + n \div 2 - 1 - i
             S == SwapsMB(n)
             Paired(k) == <<i, k>> \in S \/ <<k, i>> \in S
  <1>0. i \in 0 .. 15 /\ j \in 0 .. 15
    BY DEF Spelled
  <1>2. n = 4 => Paired(j) /\ \A k \in 0 .. 15 : Paired(k) => k = j
    <2> SUFFICES ASSUME n = 4
                 PROVE  Paired(j) /\ \A k \in 0 .. 15 : Paired(k) => k = j
      OBVIOUS
    <2>1. Paired(j)
      BY DEF SwapsMB
    <2>2. \A k \in 0 .. 15 : Paired(k) => k = j
      BY DEF SwapsMB
    <2> QED
      BY <2>1, <2>2
  <1>3. n = 8 => Paired(j) /\ \A k \in 0 .. 15 : Paired(k) => k = j
    <2> SUFFICES ASSUME n = 8
                 PROVE  Paired(j) /\ \A k \in 0 .. 15 : Paired(k) => k = j
      OBVIOUS
    <2>1. Paired(j)
      BY DEF SwapsMB
    <2>2. \A k \in 0 .. 15 : Paired(k) => k = j
      BY DEF SwapsMB
    <2> QED
      BY <2>1, <2>2
  <1>4. n = 16 => Paired(j) /\ \A k \in 0 .. 15 : Paired(k) => k = j
    <2> SUFFICES ASSUME n = 16
                 PROVE  Paired(j) /\ \A k \in 0 .. 15 : Paired(k) => k = j
      OBVIOUS
    <2>1. Paired(j)
      BY DEF SwapsMB
    <2>2. \A k \in 0 .. 15 : Paired(k) => k = j
      BY DEF SwapsMB
    <2> QED
      BY <2>1, <2>2
  <1>1. CASE n = 2
    BY <1>0, <1>1 DEF Partner, SwapsMB
  <1>5. CASE n # 2
    <2>1. Paired(j) /\ \A k \in 0 .. 15 : Paired(k) => k = j
      BY <1>2, <1>3, <1>4, <1>5 DEF Spelled
    <2>2. Partner(S, i) = j
      <3> HIDE DEF j, S
      <3> QED
        BY <1>0, <2>1, PartnerIs
    <2> QED
      BY <2>2
  <1> QED
    BY <1>1, <1>5

\* The byte that an inversion of a spelled-out size brings to a position is the
\* one that belongs there in the other order.
LEMMA SpelledIsRight ==
    ASSUME NEW n \in Spelled, NEW i \in 0 .. n - 1,
           NEW o \in Orders, NEW t \in Orders, o # t, {o, t} \in Inversions
    PROVE  /\ Partner(Swaps({o, t}, n), i) \in 0 .. n - 1
           /\ Place(o, Partner(Swaps({o, t}, n), i), n) = Place(t, i, n)
  <1> DEFINE p == Partner(Swaps({o, t}, n), i)
  <1>0. n \in Nat /\ n % 2 = 0 /\ n \div 2 \in Nat /\ n = 2 * (n \div 2)
    BY DEF Spelled
  <1>1. CASE {o, t} = LittleBig
    <2>1. p = n - 1 - i
      BY <1>1, Names, MirrorLB DEF Swaps, LittleBig
    <2>2. (o = "little" /\ t = "big") \/ (o = "big" /\ t = "little")
      BY <1>1 DEF LittleBig, Orders
    <2> QED
      BY <1>0, <2>1, <2>2 DEF Place
  <1>2. CASE {o, t} = MiddleLittle
    <2>1. p = IF i < n \div 2 THEN i + n \div 2 ELSE i - n \div 2
      BY <1>2, Names, MirrorML DEF Swaps, LittleBig, MiddleLittle
    <2>2. (o = "little" /\ t = "middle") \/ (o = "middle" /\ t = "little")
      BY <1>2 DEF MiddleLittle, Orders
    <2> QED
      BY <1>0, <2>1, <2>2 DEF Place
  <1>3. CASE {o, t} = MiddleBig
    <2>1. p = IF i < n \div 2 THEN n \div 2 - 1 - i ELSE n + n \div 2 - 1 - i
      BY <1>3, Names, MirrorMB DEF Swaps, LittleBig, MiddleLittle, MiddleBig
    <2>2. (o = "big" /\ t = "middle") \/ (o = "middle" /\ t = "big")
      BY <1>3 DEF MiddleBig, Orders
    <2> QED
      BY <1>0, <2>1, <2>2 DEF Place
  <1> QED
    BY <1>1, <1>2, <1>3, Names
------------------------------------------------------------------------------
\* The invariant holds at the start.
LEMMA InvInit == EnInit => EnInv
  <1> SUFFICES ASSUME EnInit PROVE EnInv
    OBVIOUS
  <1> USE EndianAssumption
  <1>1. size \in Nat /\ 0 \in Nat
    BY DEF EnInit, EndianAssumption
  <1>2. buf \in [0 .. size - 1 -> Int]
    BY <1>1, PlaceInt DEF EnInit
  <1>3. EnTypeOK
    BY <1>1, <1>2 DEF EnInit, EnTypeOK, Answer
  <1>4. InOrder
    BY <1>1 DEF EnInit, InOrder
  <1> QED
    BY <1>3, <1>4 DEF EnInit, EnInv

\* case 2, 4, 8 and 16.
LEMMA SpelledStep ==
    ASSUME EnInv, NEW call \in Inversions, order \in call, Idle,
           InvertSpelled(call)
    PROVE  EnInv'
  <1> USE EndianAssumption DEF EndianAssumption
  <1> DEFINE t == Other(call)
  <1>1. t \in Orders /\ t # order /\ call = {order, t}
    BY OtherIs
  <1>2. /\ size \in Spelled /\ size \in Nat /\ size % 2 = 0 /\ size' = size
        /\ size # 0 /\ size # 1
    BY DEF InvertSpelled, Spelled
  <1>3. /\ order' = t /\ target' = t /\ loop' = "idle" /\ answer' = "done"
        /\ a' = a /\ b' = b
        /\ buf' = [i \in 0 .. size - 1 |-> buf[Partner(Swaps(call, size), i)]]
    BY DEF InvertSpelled, Return
  <1>4. \A i \in 0 .. size - 1 : buf[i] = Place(order, i, size)
    BY DEF EnInv, InOrder, Idle
  <1>5. order \in Orders
    BY DEF EnInv, EnTypeOK
  <1>6. \A i \in 0 .. size - 1 : buf'[i] = Place(t, i, size)
    <2> TAKE i \in 0 .. size - 1
    <2> DEFINE p == Partner(Swaps(call, size), i)
    <2>1. p \in 0 .. size - 1 /\ Place(order, p, size) = Place(t, i, size)
      BY <1>1, <1>2, <1>5, SpelledIsRight
    <2>2. buf'[i] = buf[p]
      BY <1>3
    <2> HIDE DEF p
    <2> QED
      BY <1>4, <2>1, <2>2
  <1>7. buf' \in [0 .. size - 1 -> Int]
    <2>1. \A i \in 0 .. size - 1 : buf'[i] \in Int
      BY <1>1, <1>2, <1>6, PlaceInt
    <2> QED
      BY <1>3, <2>1
  <1> HIDE DEF t
  <1>8. EnTypeOK'
    BY <1>1, <1>2, <1>3, <1>7 DEF EnInv, EnTypeOK, Answer
  <1>9. InOrder'
    BY <1>2, <1>3, <1>6 DEF InOrder
  <1> QED
    BY <1>2, <1>3, <1>8, <1>9 DEF EnInv

\* The default case throws.
LEMMA RefusedStep ==
    ASSUME EnInv, NEW call \in Inversions, Idle, InvertRefused(call)
    PROVE  EnInv'
  <1>1. /\ UNCHANGED <<size, buf, order, loop, a, b>> /\ target' = target
        /\ answer' = "EndianException" /\ loop = "idle" /\ answer # "wild"
    BY DEF EnInv, EnTypeOK, InvertRefused, Return, Idle
  <1>2. EnTypeOK'
    BY <1>1 DEF EnInv, EnTypeOK, Answer
  <1>3. InOrder'
    BY <1>1 DEF EnInv, InOrder
  <1> QED
    BY <1>1, <1>2, <1>3 DEF EnInv

\* from_endian_*() and to_endian_*() of the host's own order.
LEMMA NothingStep ==
    ASSUME EnInv, ConvertNothing
    PROVE  EnInv'
  <1>1. /\ UNCHANGED <<size, buf, order, loop, a, b>> /\ target' = target
        /\ answer' = "done" /\ loop = "idle" /\ answer # "wild"
    BY DEF EnInv, EnTypeOK, ConvertNothing, Return, Idle
  <1>2. EnTypeOK'
    BY <1>1 DEF EnInv, EnTypeOK, Answer
  <1>3. InOrder'
    BY <1>1 DEF EnInv, InOrder
  <1> QED
    BY <1>1, <1>2, <1>3 DEF EnInv

\* The default case comes to its loop: nothing is dealt with yet.
LEMMA LoopsStep ==
    ASSUME EnInv, NEW call \in Inversions, order \in call, Idle,
           InvertLoops(call)
    PROVE  EnInv'
  <1> USE EndianAssumption DEF EndianAssumption
  <1>1. Other(call) \in Orders /\ Other(call) # order /\ call = {order, Other(call)}
    BY OtherIs
  <1>2. /\ UNCHANGED <<size, buf, order, answer>>
        /\ target' = Other(call) /\ loop' = "first"
        /\ a' = 0 /\ b' = FirstB(call)
        /\ size \notin Spelled /\ ~Refused(call)
    BY DEF InvertLoops
  <1>3. size \in Nat /\ order \in Orders /\ buf \in [0 .. size - 1 -> Int]
    BY DEF EnInv, EnTypeOK
  <1>4. Running' = call
    BY <1>1, <1>2 DEF Running
  <1>5. answer # "wild" /\ \A i \in 0 .. size - 1 : buf[i] = Place(order, i, size)
    BY DEF EnInv, InOrder, Idle
  <1>6. /\ size % 2 = 0 \/ (size = 1 /\ call = MiddleBig)
        /\ size = 0 => call # MiddleBig
    <2>1. CASE call = MiddleBig
      BY <1>2, <1>3, <2>1, PowersAreEven DEF Refused, MiddleBig
    <2>2. CASE call # MiddleBig
      BY <1>2, <1>3, <2>2 DEF Refused, MiddleBig
    <2> QED
      BY <2>1, <2>2
  <1>7. size % 2 = 0 => Half \in Nat /\ size = 2 * Half
    BY <1>3, Halving DEF Half
  <1>8. Pace' /\ b' \in Int /\ \A i \in 0 .. size - 1 : ~Dealt(i)'
    <2>1. CASE call = LittleBig
      <3>1. b' = size - 1
        BY <1>2, <2>1, Names DEF FirstB, LittleBig
      <3> QED
        BY <1>2, <1>3, <1>4, <2>1, <3>1, Names DEF Pace, Dealt
    <2>2. CASE call = MiddleLittle
      <3>1. b' = Half
        BY <1>2, <2>2, Names DEF FirstB, LittleBig, MiddleLittle, Half
      <3>2. Half' = Half
        BY <1>2 DEF Half
      <3>3. Half \in Nat
        BY <1>6, <1>7, <2>2, Names
      <3> QED
        BY <1>2, <1>3, <1>4, <2>2, <3>1, <3>2, <3>3, Names DEF Pace, Dealt
    <2>3. CASE call = MiddleBig
      <3>1. b' = Half - 1
        BY <1>2, <2>3, Names DEF FirstB, LittleBig, MiddleLittle, MiddleBig, Half
      <3>2. Half' = Half
        BY <1>2 DEF Half
      <3>3. Half \in Nat
        <4>1. CASE size = 1
          BY <4>1 DEF Half
        <4> QED
          BY <1>6, <1>7, <4>1
      <3> QED
        BY <1>2, <1>3, <1>4, <2>3, <3>1, <3>2, <3>3, Names DEF Pace, Dealt
    <2> QED
      BY <2>1, <2>2, <2>3, Names
  <1>9. LoopInv'
    <2>1. \A i \in 0 .. size - 1 :
            buf'[i] = Place(IF Dealt(i)' THEN target' ELSE order', i, size)
      BY <1>2, <1>5, <1>8
    <2> QED
      BY <1>2, <1>4, <1>5, <1>6, <1>8, <2>1 DEF LoopInv
  <1>10. EnTypeOK'
    BY <1>1, <1>2, <1>3, <1>8 DEF EnInv, EnTypeOK
  <1> QED
    BY <1>2, <1>5, <1>9, <1>10 DEF EnInv, InOrder

\* The facts about a running loop that its steps need.
LEMMA LoopFacts ==
    ASSUME EnInv, loop # "idle"
    PROVE  /\ size \in Nat /\ a \in Nat /\ b \in Int
           /\ order \in Orders /\ target \in Orders /\ order # target
           /\ buf \in [0 .. size - 1 -> Int] /\ LoopInv
           /\ Half \in Nat
           /\ size = 2 * Half \/ (size = 1 /\ Half = 0 /\ Running = MiddleBig)
  <1> USE EndianAssumption DEF EndianAssumption
  <1>1. /\ size \in Nat /\ a \in Nat /\ b \in Int
        /\ order \in Orders /\ target \in Orders /\ order # target
        /\ buf \in [0 .. size - 1 -> Int] /\ LoopInv
    BY DEF EnInv, EnTypeOK
  <1>2. CASE size % 2 = 0
    BY <1>1, <1>2, Halving DEF Half
  <1>3. CASE size % 2 # 0
    <2>1. size = 1 /\ Running = MiddleBig
      BY <1>1, <1>3 DEF LoopInv
    <2> QED
      BY <1>1, <2>1 DEF Half
  <1> QED
    BY <1>1, <1>2, <1>3

\* A round that swaps inside the buffer deals with a and b.
LEMMA SwapStep ==
    ASSUME EnInv, Swap
    PROVE  EnInv'
  <1>0. /\ size \in Nat /\ a \in Nat /\ b \in Int
        /\ order \in Orders /\ target \in Orders /\ order # target
        /\ buf \in [0 .. size - 1 -> Int] /\ LoopInv
        /\ Half \in Nat
        /\ size = 2 * Half \/ (size = 1 /\ Half = 0 /\ Running = MiddleBig)
    BY LoopFacts DEF Swap
  <1>1. /\ UNCHANGED <<size, order, target, loop, answer>>
        /\ loop # "idle" /\ GoesOn /\ b \in 0 .. size - 1
        /\ buf' = [buf EXCEPT ![a] = buf[b], ![b] = buf[a]]
        /\ a' = a + 1 /\ b' = IF Halves THEN b + 1 ELSE b - 1
    BY DEF Swap
  <1>2. Running' = Running /\ Half' = Half
    BY <1>1 DEF Running, Half
  <1>3. \A i \in 0 .. size - 1 :
          buf[i] = Place(IF Dealt(i) THEN target ELSE order, i, size)
    BY <1>0 DEF LoopInv
  <1>4. Running \in {LittleBig, MiddleLittle, MiddleBig}
    BY <1>0, Names DEF LoopInv
  <1>5. (Halves <=> Running = MiddleLittle) /\ (GoesOn <=> IF Halves THEN b < size ELSE a < b \/ b = -1)
    BY DEF Halves, GoesOn, MiddleLittle
  <1>6. /\ a \in 0 .. size - 1 /\ a # b
        /\ Pace' /\ ~Dealt(a) /\ ~Dealt(b)
        /\ \A i \in 0 .. size - 1 : Dealt(i)' <=> Dealt(i) \/ i \in {a, b}
        /\ Place(order, a, size) = Place(target, b, size)
        /\ Place(order, b, size) = Place(target, a, size)
    <2> DEFINE Turned(p, q) ==
                 /\ Place(order, p, size) = Place(target, q, size)
                 /\ Place(order, q, size) = Place(target, p, size)
    <2>0. /\ Pace /\ a \in Nat /\ b \in Int /\ Half \in Nat /\ size \in Nat
          /\ size = 2 * Half \/ (size = 1 /\ Half = 0 /\ Running = MiddleBig)
          /\ 0 <= b /\ b < size
          /\ a' = a + 1 /\ size' = size /\ loop' = loop
      BY <1>0, <1>1 DEF LoopInv
    <2>1. CASE Running = LittleBig
      <3>1. (order = "little" /\ target = "big") \/ (order = "big" /\ target = "little")
        BY <1>0, <2>1 DEF LittleBig, Running, Orders
      <3>2. b = size - 1 - a /\ a < b /\ b' = b - 1 /\ size = 2 * Half
        BY <1>1, <1>5, <2>0, <2>1, Names DEF Pace
      <3>3. Pace' <=> b' = size - 1 - a' /\ 2 * a' <= size
        BY <1>2, <2>0, <2>1, Names DEF Pace
      <3>4. \A i : Dealt(i) <=> i < a \/ i > b
        BY <2>1, Names DEF Dealt
      <3>5. \A i : Dealt(i)' <=> i < a' \/ i > b'
        BY <1>2, <2>1, Names DEF Dealt
      <3>6. Pace' /\ a \in 0 .. size - 1 /\ a # b
        BY <2>0, <3>2, <3>3
      <3>7. ~Dealt(a) /\ ~Dealt(b)
        BY <2>0, <3>2, <3>4
      <3>8. \A i \in 0 .. size - 1 : Dealt(i)' <=> Dealt(i) \/ i \in {a, b}
        BY <2>0, <3>2, <3>4, <3>5
      <3>9. Turned(a, b)
        BY <2>0, <3>1, <3>2 DEF Place
      <3> QED
        BY <3>6, <3>7, <3>8, <3>9
    <2>2. CASE Running = MiddleLittle
      <3>1. (order = "little" /\ target = "middle") \/ (order = "middle" /\ target = "little")
        BY <1>0, <2>2 DEF MiddleLittle, Running, Orders
      <3>2. b = Half + a /\ a < Half /\ b' = b + 1 /\ size = 2 * Half
        BY <1>1, <1>5, <2>0, <2>2, Names DEF Pace
      <3>3. Pace' <=> b' = Half + a' /\ a' <= Half
        BY <1>2, <2>0, <2>2, Names DEF Pace
      <3>4. \A i : Dealt(i) <=> i < a \/ (Half <= i /\ i < b)
        BY <2>2, Names DEF Dealt
      <3>5. \A i : Dealt(i)' <=> i < a' \/ (Half <= i /\ i < b')
        BY <1>2, <2>2, Names DEF Dealt
      <3>6. Pace' /\ a \in 0 .. size - 1 /\ a # b
        BY <2>0, <3>2, <3>3
      <3>7. ~Dealt(a) /\ ~Dealt(b)
        BY <2>0, <3>2, <3>4
      <3>8. \A i \in 0 .. size - 1 : Dealt(i)' <=> Dealt(i) \/ i \in {a, b}
        BY <2>0, <3>2, <3>4, <3>5
      <3>9. Turned(a, b)
        BY <2>0, <3>1, <3>2 DEF Place, Half
      <3> QED
        BY <3>6, <3>7, <3>8, <3>9
    <2>3. CASE Running = MiddleBig
      <3>1. (order = "big" /\ target = "middle") \/ (order = "middle" /\ target = "big")
        BY <1>0, <2>3 DEF MiddleBig, Running, Orders
      <3>2. a < b /\ b' = b - 1
        BY <1>1, <1>5, <2>0, <2>3, Names
      <3>3. size = 2 * Half
        BY <2>0, <3>2
      <3>4. CASE loop = "first"
        <4>1. b = Half - 1 - a /\ 2 * a <= Half
          BY <2>0, <2>3, <3>4, Names DEF Pace
        <4>2. Pace' <=> b' = Half - 1 - a' /\ 2 * a' <= Half
          BY <1>2, <2>0, <2>3, <3>4, Names DEF Pace
        <4>3. \A i : Dealt(i) <=> i < a \/ (b < i /\ i < Half)
          BY <2>3, <3>4, Names DEF Dealt
        <4>4. \A i : Dealt(i)' <=> i < a' \/ (b' < i /\ i < Half)
          BY <1>2, <2>0, <2>3, <3>4, Names DEF Dealt
        <4>5. Pace' /\ a \in 0 .. size - 1 /\ a # b
          BY <2>0, <3>2, <3>3, <4>1, <4>2
        <4>6. ~Dealt(a) /\ ~Dealt(b)
          BY <2>0, <3>2, <3>3, <4>1, <4>3
        <4>7. \A i \in 0 .. size - 1 : Dealt(i)' <=> Dealt(i) \/ i \in {a, b}
          BY <2>0, <3>2, <3>3, <4>1, <4>3, <4>4
        <4>8. Turned(a, b)
          BY <2>0, <3>1, <3>2, <3>3, <4>1 DEF Place, Half
        <4> QED
          BY <4>5, <4>6, <4>7, <4>8
      <3>5. CASE loop # "first"
        <4>1. b = size - 1 - (a - Half) /\ Half <= a /\ 2 * (a - Half) <= Half
          BY <2>0, <2>3, <3>5, Names DEF Pace
        <4>2. Pace' <=> b' = size - 1 - (a' - Half) /\ Half <= a' /\ 2 * (a' - Half) <= Half
          BY <1>2, <2>0, <2>3, <3>5, Names DEF Pace
        <4>3. \A i : Dealt(i) <=> i < a \/ i > b
          BY <2>3, <3>5, Names DEF Dealt
        <4>4. \A i : Dealt(i)' <=> i < a' \/ i > b'
          BY <1>2, <2>0, <2>3, <3>5, Names DEF Dealt
        <4>5. Pace' /\ a \in 0 .. size - 1 /\ a # b
          BY <2>0, <3>2, <3>3, <4>1, <4>2
        <4>6. ~Dealt(a) /\ ~Dealt(b)
          BY <2>0, <3>2, <3>3, <4>1, <4>3
        <4>7. \A i \in 0 .. size - 1 : Dealt(i)' <=> Dealt(i) \/ i \in {a, b}
          BY <2>0, <3>2, <3>3, <4>1, <4>3, <4>4
        <4>8. Turned(a, b)
          BY <2>0, <3>1, <3>2, <3>3, <4>1 DEF Place, Half
        <4> QED
          BY <4>5, <4>6, <4>7, <4>8
      <3> QED
        BY <3>4, <3>5
    <2> QED
      BY <1>4, <2>1, <2>2, <2>3
  <1>7. buf' \in [0 .. size - 1 -> Int]
    BY <1>0, <1>1, <1>6
  <1>8. \A i \in 0 .. size - 1 :
          buf'[i] = Place(IF Dealt(i)' THEN target ELSE order, i, size)
    <2> TAKE i \in 0 .. size - 1
    <2>1. CASE i = a
      BY <1>0, <1>1, <1>3, <1>6, <2>1
    <2>2. CASE i = b
      BY <1>0, <1>1, <1>3, <1>6, <2>2
    <2>3. CASE i # a /\ i # b
      BY <1>0, <1>1, <1>3, <1>6, <2>3
    <2> QED
      BY <2>1, <2>2, <2>3
  <1>9. LoopInv'
    <2>1. \A i \in 0 .. size' - 1 :
            buf'[i] = Place(IF Dealt(i)' THEN target' ELSE order', i, size')
      BY <1>1, <1>8
    <2> QED
      BY <1>0, <1>1, <1>2, <1>6, <2>1 DEF LoopInv
  <1>10. EnTypeOK'
    BY <1>0, <1>1, <1>7 DEF EnInv, EnTypeOK
  <1> QED
    BY <1>1, <1>9, <1>10 DEF EnInv, InOrder

\* Only an empty buffer, or one of one byte, lets a loop out of its bounds.
LEMMA WildStep ==
    ASSUME EnInv, SwapWild
    PROVE  EnInv'
  <1>1. /\ UNCHANGED <<size, buf, a, b, order>> /\ target' = order
        /\ loop' = "idle" /\ answer' = "wild"
        /\ loop # "idle" /\ GoesOn /\ b \notin 0 .. size - 1
    BY DEF SwapWild, Return
  <1>2. /\ size \in Nat /\ a \in Nat /\ b \in Int /\ order \in Orders
        /\ buf \in [0 .. size - 1 -> Int] /\ LoopInv /\ Half \in Nat
        /\ size = 2 * Half \/ (size = 1 /\ Half = 0 /\ Running = MiddleBig)
    BY <1>1, LoopFacts
  <1>3. Pace /\ Running \in {LittleBig, MiddleLittle, MiddleBig}
    BY <1>2, Names DEF LoopInv
  <1>4. IF Running = MiddleLittle THEN b < size ELSE a < b \/ b = -1
    BY <1>1 DEF GoesOn, Halves, MiddleLittle
  <1>5. size \in {0, 1}
    <2>1. CASE Running = LittleBig
      <3>1. b = size - 1 - a /\ 2 * a <= size
        BY <1>3, <2>1, Names DEF Pace
      <3> QED
        BY <1>1, <1>2, <1>4, <2>1, <3>1, Names
    <2>2. CASE Running = MiddleLittle
      <3>1. b = Half + a /\ a <= Half
        BY <1>3, <2>2, Names DEF Pace
      <3> QED
        BY <1>1, <1>2, <1>4, <2>2, <3>1, Names
    <2>3. CASE Running = MiddleBig
      <3>1. IF loop = "first" THEN b = Half - 1 - a /\ 2 * a <= Half
            ELSE b = size - 1 - (a - Half) /\ Half <= a /\ 2 * (a - Half) <= Half
        BY <1>3, <2>3, Names DEF Pace
      <3> QED
        BY <1>1, <1>2, <1>4, <2>3, <3>1, Names
    <2> QED
      BY <1>3, <2>1, <2>2, <2>3
  <1>6. EnTypeOK'
    BY <1>1, <1>2 DEF EnInv, EnTypeOK, Answer
  <1>7. InOrder'
    BY <1>1, <1>5 DEF InOrder
  <1> QED
    BY <1>1, <1>6, <1>7 DEF EnInv

\* Between the loops of PDP <-> Big the first half is done.  A byte in the
\* middle of it is where it was, which is right.
LEMMA SecondStep ==
    ASSUME EnInv, SecondLoop
    PROVE  EnInv'
  <1>1. /\ UNCHANGED <<size, buf, order, target, answer>>
        /\ loop = "first" /\ loop' = "second" /\ ~GoesOn
        /\ Running = MiddleBig /\ a' = Half /\ b' = size - 1
    BY DEF SecondLoop, Half, MiddleBig
  <1>2. /\ size \in Nat /\ a \in Nat /\ b \in Int /\ LoopInv /\ Half \in Nat
        /\ order \in Orders /\ target \in Orders /\ order # target
        /\ size = 2 * Half \/ (size = 1 /\ Half = 0 /\ Running = MiddleBig)
    BY <1>1, LoopFacts
  <1>3. b = Half - 1 - a /\ 2 * a <= Half
    BY <1>1, <1>2, Names DEF LoopInv, Pace
  <1>4. ~(a < b) /\ b # -1
    BY <1>1, Names DEF GoesOn, Halves, MiddleLittle, MiddleBig
  <1>5. size = 2 * Half /\ size # 1
    BY <1>2, <1>3, <1>4
  <1>6. Running' = MiddleBig /\ Half' = Half
    BY <1>1 DEF Running, Half
  <1>7. (order = "big" /\ target = "middle") \/ (order = "middle" /\ target = "big")
    BY <1>1, <1>2 DEF MiddleBig, Running, Orders
  <1>8. \A i \in 0 .. size - 1 :
          buf[i] = Place(IF i < Half THEN target ELSE order, i, size)
    <2> TAKE i \in 0 .. size - 1
    <2>1. buf[i] = Place(IF Dealt(i) THEN target ELSE order, i, size)
      BY <1>2 DEF LoopInv
    <2>2. Dealt(i) <=> i < a \/ (b < i /\ i < Half)
      BY <1>1, Names DEF Dealt
    <2>3. CASE i < Half /\ ~Dealt(i)
      <3>1. 2 * i = Half - 1
        BY <1>2, <1>3, <1>4, <2>2, <2>3
      <3>2. Place(order, i, size) = Place(target, i, size)
        BY <1>2, <1>5, <1>7, <2>3, <3>1 DEF Place, Half
      <3> QED
        BY <2>1, <2>3, <3>2
    <2>4. CASE i < Half => Dealt(i)
      <3>1. Dealt(i) <=> i < Half
        BY <1>2, <1>3, <1>4, <2>2, <2>4
      <3> QED
        BY <2>1, <3>1
    <2> QED
      BY <2>3, <2>4
  <1>9. Pace'
    BY <1>1, <1>2, <1>5, <1>6, Names DEF Pace
  <1>10. \A i \in 0 .. size - 1 : Dealt(i)' <=> i < Half
    <2>1. \A i : Dealt(i)' <=> i < Half \/ i > size - 1
      BY <1>1, <1>6, Names DEF Dealt
    <2> QED
      BY <1>2, <2>1
  <1>11. LoopInv'
    <2>1. \A i \in 0 .. size' - 1 :
            buf'[i] = Place(IF Dealt(i)' THEN target' ELSE order', i, size')
      BY <1>1, <1>8, <1>10
    <2>2. size % 2 = 0
      BY <1>2, <1>5
    <2> QED
      BY <1>1, <1>2, <1>6, <1>9, <2>1, <2>2 DEF LoopInv
  <1>12. EnTypeOK'
    BY <1>1, <1>2 DEF EnInv, EnTypeOK
  <1> QED
    BY <1>1, <1>2, <1>11, <1>12 DEF EnInv, InOrder, LoopInv

\* When a loop ends every byte is dealt with, or in the middle of what is turned
\* round.
LEMMA EndStep ==
    ASSUME EnInv, LoopEnds
    PROVE  EnInv'
  <1>1. /\ UNCHANGED <<size, buf, a, b>> /\ order' = target /\ target' = target
        /\ loop' = "idle" /\ answer' = "done"
        /\ loop # "idle" /\ ~GoesOn /\ (loop = "second" \/ Running # MiddleBig)
    BY DEF LoopEnds, Return, MiddleBig
  <1>2. /\ size \in Nat /\ a \in Nat /\ b \in Int /\ LoopInv /\ Half \in Nat
        /\ order \in Orders /\ target \in Orders /\ order # target
        /\ buf \in [0 .. size - 1 -> Int]
        /\ size = 2 * Half \/ (size = 1 /\ Half = 0 /\ Running = MiddleBig)
    BY <1>1, LoopFacts
  <1>3. Pace /\ Running \in {LittleBig, MiddleLittle, MiddleBig}
    BY <1>2, Names DEF LoopInv
  <1>4. IF Running = MiddleLittle THEN ~(b < size) ELSE ~(a < b) /\ b # -1
    BY <1>1 DEF GoesOn, Halves, MiddleLittle
  <1>5. size % 2 = 0
    BY <1>1, <1>2 DEF LoopInv
  <1>6. size = 2 * Half
    BY <1>2, <1>5
  <1>7. \A i \in 0 .. size - 1 :
          ~Dealt(i) => Place(order, i, size) = Place(target, i, size)
    <2> TAKE i \in 0 .. size - 1
    <2>1. CASE Running = LittleBig
      <3>1. b = size - 1 - a /\ 2 * a <= size /\ ~(a < b)
        BY <1>3, <1>4, <2>1, Names DEF Pace
      <3>2. Dealt(i) <=> i < a \/ i > b
        BY <2>1, Names DEF Dealt
      <3> QED
        BY <1>2, <1>6, <3>1, <3>2
    <2>2. CASE Running = MiddleLittle
      <3>1. b = Half + a /\ a <= Half /\ ~(b < size)
        BY <1>3, <1>4, <2>2, Names DEF Pace
      <3>2. Dealt(i) <=> i < a \/ (Half <= i /\ i < b)
        BY <2>2, Names DEF Dealt
      <3> QED
        BY <1>2, <1>6, <3>1, <3>2
    <2>3. CASE Running = MiddleBig
      <3>1. /\ b = size - 1 - (a - Half) /\ Half <= a /\ 2 * (a - Half) <= Half
            /\ ~(a < b) /\ loop # "first"
        BY <1>1, <1>3, <1>4, <2>3, Names DEF Pace
      <3>2. Dealt(i) <=> i < a \/ i > b
        BY <2>3, <3>1, Names DEF Dealt
      <3>3. (order = "big" /\ target = "middle") \/ (order = "middle" /\ target = "big")
        BY <1>2, <2>3 DEF MiddleBig, Running, Orders
      <3>4. ~Dealt(i) => i - Half = size - 1 - i /\ ~(i < Half)
        BY <1>2, <1>6, <3>1, <3>2
      <3>5. /\ Place("big", i, size) = size - 1 - i
            /\ Place("middle", i, size) = IF i < Half THEN i + Half ELSE i - Half
        BY DEF Place, Half
      <3> QED
        BY <3>3, <3>4, <3>5
    <2> QED
      BY <1>3, <2>1, <2>2, <2>3
  <1>8. \A i \in 0 .. size - 1 : buf[i] = Place(target, i, size)
    BY <1>2, <1>7 DEF LoopInv
  <1>9. InOrder'
    BY <1>1, <1>8 DEF InOrder
  <1>10. EnTypeOK'
    BY <1>1, <1>2 DEF EnInv, EnTypeOK, Answer
  <1> QED
    BY <1>1, <1>5, <1>9, <1>10 DEF EnInv
------------------------------------------------------------------------------
\* Every step keeps it.
LEMMA InvNext == EnInv /\ [EnNext]_enVars => EnInv'
  <1> SUFFICES ASSUME EnInv, [EnNext]_enVars PROVE EnInv'
    OBVIOUS
  <1>1. ASSUME NEW call \in Calls, Invert(call) PROVE EnInv'
    BY <1>1, SpelledStep, RefusedStep, LoopsStep DEF Invert
  <1>2. CASE ConvertNothing
    BY <1>2, NothingStep
  <1>3. CASE Swap
    BY <1>3, SwapStep
  <1>4. CASE SwapWild
    BY <1>4, WildStep
  <1>5. CASE SecondLoop
    BY <1>5, SecondStep
  <1>6. CASE LoopEnds
    BY <1>6, EndStep
  <1>7. CASE UNCHANGED enVars
    <2>1. /\ UNCHANGED <<size, buf, order, target, loop, a, b, answer>>
          /\ Running' = Running /\ Half' = Half
      BY <1>7 DEF enVars, Running, Half
    <2>2. EnTypeOK' /\ InOrder'
      BY <2>1 DEF EnInv, EnTypeOK, InOrder
    <2>3. Pace' = Pace /\ \A i : Dealt(i)' = Dealt(i)
      BY <2>1 DEF Pace, Dealt
    <2>4. loop # "idle" => LoopInv'
      BY <2>1, <2>3 DEF EnInv, LoopInv
    <2> QED
      BY <2>1, <2>2, <2>4 DEF EnInv
  <1> QED
    BY <1>1, <1>2, <1>3, <1>4, <1>5, <1>6, <1>7 DEF EnNext

\* The invariant holds always.
THEOREM EnInvariance == EnSpec => []EnInv
  BY InvInit, InvNext, PTL DEF EnSpec

\* The variables of a conversion have their types, for a buffer of any size.
THEOREM EnTypeCorrect == EnSpec => []EnTypeOK
  <1>1. EnInv => EnTypeOK
    BY DEF EnInv
  <1> QED
    BY <1>1, EnInvariance, PTL

\* After any sequence of conversions of a buffer of any size the number is in the
\* order that it should be in, and no loop leaves a buffer of two bytes or more.
THEOREM OrderKept == EnSpec => []InOrder
  <1>1. EnInv => InOrder
    BY DEF EnInv
  <1> QED
    BY <1>1, EnInvariance, PTL

------------------------------------------------------------------------------
\* A frame: its setters in any order.

\* The weights.
LEMMA Weights ==
    /\ Weight[0 + 1] = 1 /\ Weight[1 + 1] = 2 /\ Weight[2 + 1] = 4
    /\ Weight[3 + 1] = 8 /\ Weight[4 + 1] = 16 /\ Weight[5 + 1] = 32
    /\ Weight[6 + 1] = 64 /\ Weight[7 + 1] = 128
BY DEF Weight

\* The bits of a number, one by one.
LEMMA BitsAre ==
    ASSUME NEW n
    PROVE  /\ 0 \in BitsOf(n) <=> (n \div 1) % 2 = 1
           /\ 1 \in BitsOf(n) <=> (n \div 2) % 2 = 1
           /\ 2 \in BitsOf(n) <=> (n \div 4) % 2 = 1
           /\ 3 \in BitsOf(n) <=> (n \div 8) % 2 = 1
           /\ 4 \in BitsOf(n) <=> (n \div 16) % 2 = 1
           /\ 5 \in BitsOf(n) <=> (n \div 32) % 2 = 1
           /\ 6 \in BitsOf(n) <=> (n \div 64) % 2 = 1
           /\ 7 \in BitsOf(n) <=> (n \div 128) % 2 = 1
<1>0. \A k \in 0 .. 7 : k \in BitsOf(n) <=> (n \div Weight[k + 1]) % 2 = 1
  BY Zenon DEF BitsOf
<1>1. 0 \in BitsOf(n) <=> (n \div 1) % 2 = 1
  <2>1. 0 \in 0 .. 7
    OBVIOUS
  <2>2. 0 \in BitsOf(n) <=> (n \div Weight[0 + 1]) % 2 = 1
    BY <1>0, <2>1, Zenon
  <2> QED BY <2>2, Weights, Zenon
<1>2. 1 \in BitsOf(n) <=> (n \div 2) % 2 = 1
  <2>1. 1 \in 0 .. 7
    OBVIOUS
  <2>2. 1 \in BitsOf(n) <=> (n \div Weight[1 + 1]) % 2 = 1
    BY <1>0, <2>1, Zenon
  <2> QED BY <2>2, Weights, Zenon
<1>3. 2 \in BitsOf(n) <=> (n \div 4) % 2 = 1
  <2>1. 2 \in 0 .. 7
    OBVIOUS
  <2>2. 2 \in BitsOf(n) <=> (n \div Weight[2 + 1]) % 2 = 1
    BY <1>0, <2>1, Zenon
  <2> QED BY <2>2, Weights, Zenon
<1>4. 3 \in BitsOf(n) <=> (n \div 8) % 2 = 1
  <2>1. 3 \in 0 .. 7
    OBVIOUS
  <2>2. 3 \in BitsOf(n) <=> (n \div Weight[3 + 1]) % 2 = 1
    BY <1>0, <2>1, Zenon
  <2> QED BY <2>2, Weights, Zenon
<1>5. 4 \in BitsOf(n) <=> (n \div 16) % 2 = 1
  <2>1. 4 \in 0 .. 7
    OBVIOUS
  <2>2. 4 \in BitsOf(n) <=> (n \div Weight[4 + 1]) % 2 = 1
    BY <1>0, <2>1, Zenon
  <2> QED BY <2>2, Weights, Zenon
<1>6. 5 \in BitsOf(n) <=> (n \div 32) % 2 = 1
  <2>1. 5 \in 0 .. 7
    OBVIOUS
  <2>2. 5 \in BitsOf(n) <=> (n \div Weight[5 + 1]) % 2 = 1
    BY <1>0, <2>1, Zenon
  <2> QED BY <2>2, Weights, Zenon
<1>7. 6 \in BitsOf(n) <=> (n \div 64) % 2 = 1
  <2>1. 6 \in 0 .. 7
    OBVIOUS
  <2>2. 6 \in BitsOf(n) <=> (n \div Weight[6 + 1]) % 2 = 1
    BY <1>0, <2>1, Zenon
  <2> QED BY <2>2, Weights, Zenon
<1>8. 7 \in BitsOf(n) <=> (n \div 128) % 2 = 1
  <2>1. 7 \in 0 .. 7
    OBVIOUS
  <2>2. 7 \in BitsOf(n) <=> (n \div Weight[7 + 1]) % 2 = 1
    BY <1>0, <2>1, Zenon
  <2> QED BY <2>2, Weights, Zenon
<1> QED BY <1>1, <1>2, <1>3, <1>4, <1>5, <1>6, <1>7, <1>8

\* A byte can be had back from its bits.
LEMMA NumberOfBits ==
    ASSUME NEW n \in 0 .. 255
    PROVE  Number(BitsOf(n)) = n
<1>0. /\ 0 \in BitsOf(n) <=> (n \div 1) % 2 = 1
      /\ 1 \in BitsOf(n) <=> (n \div 2) % 2 = 1
      /\ 2 \in BitsOf(n) <=> (n \div 4) % 2 = 1
      /\ 3 \in BitsOf(n) <=> (n \div 8) % 2 = 1
      /\ 4 \in BitsOf(n) <=> (n \div 16) % 2 = 1
      /\ 5 \in BitsOf(n) <=> (n \div 32) % 2 = 1
      /\ 6 \in BitsOf(n) <=> (n \div 64) % 2 = 1
      /\ 7 \in BitsOf(n) <=> (n \div 128) % 2 = 1
  BY BitsAre
<1>1. /\ Worth(BitsOf(n), 0) = (n \div 1) % 2
      /\ Worth(BitsOf(n), 1) = 2 * ((n \div 2) % 2)
      /\ Worth(BitsOf(n), 2) = 4 * ((n \div 4) % 2)
      /\ Worth(BitsOf(n), 3) = 8 * ((n \div 8) % 2)
      /\ Worth(BitsOf(n), 4) = 16 * ((n \div 16) % 2)
      /\ Worth(BitsOf(n), 5) = 32 * ((n \div 32) % 2)
      /\ Worth(BitsOf(n), 6) = 64 * ((n \div 64) % 2)
      /\ Worth(BitsOf(n), 7) = 128 * ((n \div 128) % 2)
  BY <1>0, Weights DEF Worth
<1>2. n = ((n \div 1) % 2) + 2 * ((n \div 2) % 2) + 4 * ((n \div 4) % 2) + 8 * ((n \div 8) % 2)
          + 16 * ((n \div 16) % 2) + 32 * ((n \div 32) % 2) + 64 * ((n \div 64) % 2)
          + 128 * ((n \div 128) % 2)
  OBVIOUS
<1> QED BY <1>1, <1>2 DEF Number

\* The bits of a number below 128 are those that a length can have.
LEMMA LengthBitsOnly ==
    ASSUME NEW n \in 0 .. 127
    PROVE  BitsOf(n) \subseteq LengthBits
<1>1. (n \div 128) % 2 = 0
  OBVIOUS
<1>2. 7 \notin BitsOf(n)
  BY <1>1, BitsAre
<1>3. BitsOf(n) \subseteq 0 .. 7
  BY DEF BitsOf
<1> QED BY <1>2, <1>3 DEF LengthBits

\* Bits of two numbers that have none in common are worth their sum.
LEMMA Disjoint ==
    ASSUME NEW x, NEW y, x \cap y = {}
    PROVE  Number(x \cup y) = Number(x) + Number(y)
<1>1. \A k \in 0 .. 7 : Weight[k + 1] \in Nat
  BY DEF Weight
<1>2. \A k \in 0 .. 7 :
        /\ Worth(x, k) \in Nat /\ Worth(y, k) \in Nat
        /\ Worth(x \cup y, k) = Worth(x, k) + Worth(y, k)
  BY <1>1 DEF Worth
<1> QED BY <1>2 DEF Number

\* All bits of a length are worth 127, and no bit nothing.
LEMMA AllBits ==
    /\ BitsOf(127) = LengthBits
    /\ BitsOf(0) = {}
<1>1. /\ 0 \in BitsOf(127) /\ 1 \in BitsOf(127) /\ 2 \in BitsOf(127)
      /\ 3 \in BitsOf(127) /\ 4 \in BitsOf(127) /\ 5 \in BitsOf(127)
      /\ 6 \in BitsOf(127)
  BY BitsAre
<1>2. /\ 0 \notin BitsOf(0) /\ 1 \notin BitsOf(0) /\ 2 \notin BitsOf(0)
      /\ 3 \notin BitsOf(0) /\ 4 \notin BitsOf(0) /\ 5 \notin BitsOf(0)
      /\ 6 \notin BitsOf(0) /\ 7 \notin BitsOf(0)
  BY BitsAre
<1>3. BitsOf(0) \subseteq 0 .. 7
  BY DEF BitsOf
<1> QED BY <1>1, <1>2, <1>3, LengthBitsOnly DEF LengthBits

\* The length that is chosen fits into seven bits.
LEMMA LengthFits ==
    ASSUME NEW n \in Nat
    PROVE  LengthOf(n) \in 0 .. 127
BY DEF LengthOf

\* The bits of the opcode, where the opcode itself has them.
High(bits) == {k \in LengthBits : k + 8 \in bits \cap OpcodeBits}

\* They are the bits that were set.
LEMMA OpcodeBitsAre ==
    ASSUME NEW bits, NEW op \in Opcodes
    PROVE  High((bits \ OpcodeBits) \cup OpcodeAt(op)) = BitsOf(op)
<1>1. \A k \in LengthBits : k \in BitsOf(op) => k \in 0 .. 3
  <2>1. (op \div 16) % 2 = 0 /\ (op \div 32) % 2 = 0 /\ (op \div 64) % 2 = 0
    BY DEF Opcodes
  <2>2. 4 \notin BitsOf(op) /\ 5 \notin BitsOf(op) /\ 6 \notin BitsOf(op)
    BY <2>1, BitsAre
  <2> QED BY <2>2 DEF LengthBits
<1>2. \A k \in LengthBits : k + 8 \in OpcodeAt(op) <=> k \in BitsOf(op)
  BY DEF OpcodeAt, BitsOf, LengthBits
<1>3. BitsOf(op) \subseteq LengthBits
  <2>1. op \in 0 .. 127
    BY DEF Opcodes
  <2> QED BY <2>1, LengthBitsOnly
<1>4. \A k \in LengthBits :
        k \in High((bits \ OpcodeBits) \cup OpcodeAt(op)) <=> k \in BitsOf(op)
  BY <1>1, <1>2 DEF High, OpcodeBits, LengthBits
<1> QED BY <1>3, <1>4 DEF High

\* The types of a frame's variables.
FrameTypeOK ==
    /\ firstBytes \subseteq 0 .. 15
    /\ maskSize \in {0, 4} /\ payloadSize \in Nat /\ sets \in Nat
    /\ wanted \in [fin : BOOLEAN, opcode : Opcodes, masked : BOOLEAN]

\* The bits say what the setters were called with, and the mask is there when its
\* bit is.
HeadIsWanted ==
    /\ \A k \in RsvBits : k \notin firstBytes
    /\ wanted.fin <=> 15 \in firstBytes
    /\ wanted.masked <=> 7 \in firstBytes
    /\ maskSize = IF 7 \in firstBytes THEN 4 ELSE 0
    /\ High(firstBytes) = BitsOf(wanted.opcode)

\* The bits of the payload's length are there, and no others if it was set once.
LengthIsThere ==
    /\ BitsOf(LengthOf(payloadSize)) \subseteq firstBytes
    /\ sets <= 1 => firstBytes \cap LengthBits = BitsOf(LengthOf(payloadSize))
    /\ sets = 0 => payloadSize = 0

\* The inductive invariant.
FrameInv == FrameTypeOK /\ HeadIsWanted /\ LengthIsThere

\* It holds at the start.
LEMMA InitFrameInv == FrameInit => FrameInv
<1> SUFFICES ASSUME FrameInit PROVE FrameInv
  OBVIOUS
<1>1. FrameTypeOK
  BY DEF FrameInit, FrameTypeOK, Opcodes
<1>2. HeadIsWanted
  BY AllBits DEF FrameInit, HeadIsWanted, High
<1>3. LengthIsThere
  <2>1. LengthOf(0) = 0
    BY DEF LengthOf
  <2> QED BY <2>1, AllBits DEF FrameInit, LengthIsThere
<1> QED BY <1>1, <1>2, <1>3 DEF FrameInv

\* A step that changes no bits of the length, and sets no payload.
LEMMA LengthStays ==
    ASSUME LengthIsThere, UNCHANGED <<payloadSize, sets>>, FrameTypeOK,
           \A k \in LengthBits : k \in firstBytes' <=> k \in firstBytes
    PROVE  LengthIsThere'
<1>1. firstBytes' \cap LengthBits = firstBytes \cap LengthBits
  OBVIOUS
<1>2. BitsOf(LengthOf(payloadSize)) \subseteq LengthBits
  BY LengthFits, LengthBitsOnly DEF FrameTypeOK
<1> QED BY <1>1, <1>2 DEF LengthIsThere

\* A step that changes only bits of the length leaves the rest as it was wanted.
LEMMA HeadStays ==
    ASSUME HeadIsWanted, UNCHANGED <<maskSize, wanted>>,
           \A k \in 7 .. 15 : k \in firstBytes' <=> k \in firstBytes
    PROVE  HeadIsWanted'
<1>1. \A k \in RsvBits : k \in 7 .. 15
  BY DEF RsvBits
<1>2. High(firstBytes') = High(firstBytes)
  BY DEF High, OpcodeBits, LengthBits
<1> QED BY <1>1, <1>2 DEF HeadIsWanted

\* The bits of a length are added.
LEMMA LengthAdded ==
    ASSUME NEW n \in Nat, UpdatePayloadSize(n), FrameTypeOK
    PROVE  /\ firstBytes' \subseteq 0 .. 15
           /\ \A k \in 7 .. 15 : k \in firstBytes' <=> k \in firstBytes
           /\ BitsOf(LengthOf(n)) \subseteq firstBytes'
           /\ firstBytes' \cap LengthBits =
                (firstBytes \cap LengthBits) \cup BitsOf(LengthOf(n))
<1>1. BitsOf(LengthOf(n)) \subseteq 0 .. 6
  BY LengthFits, LengthBitsOnly DEF LengthBits
<1>2. firstBytes' = firstBytes \cup BitsOf(LengthOf(n))
  BY DEF UpdatePayloadSize
<1>3. firstBytes \subseteq 0 .. 15
  BY DEF FrameTypeOK
<1> DEFINE bits == BitsOf(LengthOf(n))
<1> HIDE DEF bits
<1>4. /\ bits \subseteq 0 .. 6 /\ firstBytes' = firstBytes \cup bits
      /\ \A k \in bits : k \in 0 .. 15 /\ k \notin 7 .. 15
  BY <1>1, <1>2 DEF bits
<1>5. firstBytes' \subseteq 0 .. 15
  BY <1>3, <1>4
<1>6. \A k \in 7 .. 15 : k \in firstBytes' <=> k \in firstBytes
  BY <1>4
<1>7. firstBytes' \cap LengthBits = (firstBytes \cap LengthBits) \cup bits
  BY <1>4 DEF LengthBits
<1> QED BY <1>4, <1>5, <1>6, <1>7 DEF bits

\* Every setter keeps the invariant.
LEMMA FrameStep == FrameInv /\ [FrameNext]_frameVars => FrameInv'
<1> SUFFICES ASSUME FrameInv, [FrameNext]_frameVars PROVE FrameInv'
  OBVIOUS
<1>0. FrameTypeOK /\ HeadIsWanted /\ LengthIsThere
  BY DEF FrameInv
<1>1. ASSUME NEW fin \in BOOLEAN, SetFin(fin) PROVE FrameInv'
  <2>1. \A k \in 0 .. 14 : k \in firstBytes' <=> k \in firstBytes
    BY <1>1 DEF SetFin, FinBit
  <2>2. 15 \in firstBytes' <=> fin
    BY <1>1 DEF SetFin, FinBit
  <2>3. UNCHANGED <<maskSize, payloadSize, sets>>
    BY <1>1 DEF SetFin
  <2>4. /\ wanted'.fin = fin /\ wanted'.opcode = wanted.opcode
        /\ wanted'.masked = wanted.masked
        /\ wanted' \in [fin : BOOLEAN, opcode : Opcodes, masked : BOOLEAN]
    BY <1>0, <1>1 DEF SetFin, FrameTypeOK
  <2>5. FrameTypeOK'
    BY <1>0, <1>1, <2>3, <2>4 DEF FrameTypeOK, SetFin, FinBit
  <2>6. High(firstBytes') = High(firstBytes)
    BY <2>1 DEF High, OpcodeBits, LengthBits
  <2>7. HeadIsWanted'
    BY <1>0, <2>1, <2>2, <2>3, <2>4, <2>6 DEF HeadIsWanted, RsvBits
  <2>8. LengthIsThere'
    BY <1>0, <2>1, <2>3, LengthStays DEF LengthBits
  <2> QED BY <2>5, <2>7, <2>8 DEF FrameInv
<1>2. ASSUME NEW op \in Opcodes, SetOpcode(op) PROVE FrameInv'
  <2>1. OpcodeAt(op) \subseteq 8 .. 11
    <3>1. High(({} \ OpcodeBits) \cup OpcodeAt(op)) = BitsOf(op)
      BY OpcodeBitsAre
    <3>2. \A k \in BitsOf(op) : k + 8 \in 8 .. 11
      BY <3>1 DEF High, OpcodeBits
    <3> QED BY <3>2 DEF OpcodeAt
  <2>2. firstBytes' = (firstBytes \ OpcodeBits) \cup OpcodeAt(op)
    BY <1>2 DEF SetOpcode
  <2>3. \A k \in (0 .. 7) \cup (12 .. 15) : k \in firstBytes' <=> k \in firstBytes
    BY <2>1, <2>2 DEF OpcodeBits
  <2>4. UNCHANGED <<maskSize, payloadSize, sets>>
    BY <1>2 DEF SetOpcode
  <2>5. /\ wanted'.fin = wanted.fin /\ wanted'.opcode = op
        /\ wanted'.masked = wanted.masked
        /\ wanted' \in [fin : BOOLEAN, opcode : Opcodes, masked : BOOLEAN]
    BY <1>0, <1>2 DEF SetOpcode, FrameTypeOK
  <2>6. FrameTypeOK'
    <3>1. \A k \in OpcodeAt(op) : k \in 0 .. 15
      BY <2>1
    <3>2. \A k \in firstBytes : k \in 0 .. 15
      BY <1>0 DEF FrameTypeOK
    <3>3. \A k \in firstBytes' : k \in 0 .. 15
      BY <2>2, <3>1, <3>2
    <3> QED BY <1>0, <2>4, <2>5, <3>3 DEF FrameTypeOK
  <2>7. High(firstBytes') = BitsOf(op)
    BY <2>2, OpcodeBitsAre
  <2>8. HeadIsWanted'
    BY <1>0, <2>3, <2>4, <2>5, <2>7 DEF HeadIsWanted, RsvBits
  <2>9. LengthIsThere'
    BY <1>0, <2>3, <2>4, LengthStays DEF LengthBits
  <2> QED BY <2>6, <2>8, <2>9 DEF FrameInv
<1>3. ASSUME NEW n \in PayloadSizes, SetPayload(n) PROVE FrameInv'
  <2>1. /\ n \in Nat /\ sets' = sets + 1 /\ payloadSize' = n
        /\ UpdatePayloadSize(n) /\ UNCHANGED <<maskSize, wanted>>
    BY <1>3, WsFrameAssumption DEF SetPayload
  <2>2. /\ firstBytes' \subseteq 0 .. 15
        /\ \A k \in 7 .. 15 : k \in firstBytes' <=> k \in firstBytes
        /\ BitsOf(LengthOf(n)) \subseteq firstBytes'
        /\ firstBytes' \cap LengthBits = (firstBytes \cap LengthBits) \cup BitsOf(LengthOf(n))
    BY <1>0, <2>1, LengthAdded
  <2>3. FrameTypeOK'
    BY <1>0, <2>1, <2>2 DEF FrameTypeOK
  <2>4. HeadIsWanted'
    BY <1>0, <2>1, <2>2, HeadStays
  <2>5. sets' <= 1 => firstBytes' \cap LengthBits = BitsOf(LengthOf(n))
    <3> SUFFICES ASSUME sets' <= 1 PROVE firstBytes' \cap LengthBits = BitsOf(LengthOf(n))
      OBVIOUS
    <3>1. sets = 0
      BY <1>0, <2>1 DEF FrameTypeOK
    <3>2. payloadSize = 0 /\ LengthOf(0) = 0
      BY <1>0, <3>1 DEF LengthIsThere, LengthOf
    <3>3. firstBytes \cap LengthBits = {}
      BY <1>0, <3>1, <3>2, AllBits DEF LengthIsThere
    <3> QED BY <2>2, <3>3
  <2>6. sets' # 0
    BY <1>0, <2>1 DEF FrameTypeOK
  <2>7. LengthIsThere'
    BY <2>1, <2>2, <2>5, <2>6 DEF LengthIsThere
  <2> QED BY <2>3, <2>4, <2>7 DEF FrameInv
<1>4. CASE SetMask
  <2>1. firstBytes' = firstBytes \cup {7} /\ maskSize' = 4 /\ UNCHANGED <<payloadSize, sets>>
    BY <1>4 DEF SetMask, MaskBit
  <2>2. /\ wanted'.fin = wanted.fin /\ wanted'.opcode = wanted.opcode
        /\ wanted'.masked = TRUE
        /\ wanted' \in [fin : BOOLEAN, opcode : Opcodes, masked : BOOLEAN]
    BY <1>0, <1>4 DEF SetMask, FrameTypeOK
  <2>3. FrameTypeOK'
    BY <1>0, <2>1, <2>2 DEF FrameTypeOK
  <2>4. High(firstBytes') = High(firstBytes)
    BY <2>1 DEF High, OpcodeBits, LengthBits
  <2>5. HeadIsWanted'
    BY <1>0, <2>1, <2>2, <2>4 DEF HeadIsWanted, RsvBits
  <2>6. LengthIsThere'
    BY <1>0, <2>1, LengthStays DEF LengthBits
  <2> QED BY <2>3, <2>5, <2>6 DEF FrameInv
<1>5. CASE ClearMask
  <2>1. firstBytes' = firstBytes \ {7} /\ maskSize' = 0 /\ UNCHANGED <<payloadSize, sets>>
    BY <1>5 DEF ClearMask, MaskBit
  <2>2. /\ wanted'.fin = wanted.fin /\ wanted'.opcode = wanted.opcode
        /\ wanted'.masked = FALSE
        /\ wanted' \in [fin : BOOLEAN, opcode : Opcodes, masked : BOOLEAN]
    BY <1>0, <1>5 DEF ClearMask, FrameTypeOK
  <2>3. FrameTypeOK'
    BY <1>0, <2>1, <2>2 DEF FrameTypeOK
  <2>4. High(firstBytes') = High(firstBytes)
    BY <2>1 DEF High, OpcodeBits, LengthBits
  <2>5. HeadIsWanted'
    BY <1>0, <2>1, <2>2, <2>4 DEF HeadIsWanted, RsvBits
  <2>6. LengthIsThere'
    BY <1>0, <2>1, LengthStays DEF LengthBits
  <2> QED BY <2>3, <2>5, <2>6 DEF FrameInv
<1>6. CASE FrameCopy
  <2>1. /\ maskSize' = (IF HasMask THEN 4 ELSE 0) /\ UpdatePayloadSize(payloadSize)
        /\ UNCHANGED <<payloadSize, sets, wanted>>
    BY <1>6 DEF FrameCopy
  <2>2. maskSize' = maskSize /\ payloadSize \in Nat
    BY <1>0, <2>1 DEF HeadIsWanted, HasMask, MaskBit, FrameTypeOK
  <2>3. /\ firstBytes' \subseteq 0 .. 15
        /\ \A k \in 7 .. 15 : k \in firstBytes' <=> k \in firstBytes
        /\ BitsOf(LengthOf(payloadSize)) \subseteq firstBytes'
        /\ firstBytes' \cap LengthBits =
             (firstBytes \cap LengthBits) \cup BitsOf(LengthOf(payloadSize))
    BY <1>0, <2>1, <2>2, LengthAdded
  <2>4. FrameTypeOK'
    BY <1>0, <2>1, <2>2, <2>3 DEF FrameTypeOK
  <2>5. HeadIsWanted'
    BY <1>0, <2>1, <2>2, <2>3, HeadStays
  <2>6. LengthIsThere'
    BY <1>0, <2>1, <2>3 DEF LengthIsThere
  <2> QED BY <2>4, <2>5, <2>6 DEF FrameInv
<1>7. CASE UNCHANGED frameVars
  BY <1>0, <1>7 DEF frameVars, FrameInv, FrameTypeOK, HeadIsWanted, LengthIsThere
<1> QED BY <1>1, <1>2, <1>3, <1>4, <1>5, <1>6, <1>7 DEF FrameNext

\* The invariant is enough for what is read back.
LEMMA FrameInvIsEnough == FrameInv => ReadBack
<1> SUFFICES ASSUME FrameInv PROVE ReadBack
  OBVIOUS
<1>0. FrameTypeOK /\ HeadIsWanted /\ LengthIsThere
  BY DEF FrameInv
<1>1. ~HeadRefused
  BY <1>0 DEF HeadRefused, HeadIsWanted
<1>2. DecodedHead = wanted
  <2>1. OpcodeOf(firstBytes) = wanted.opcode
    <3>1. wanted.opcode \in 0 .. 127
      BY <1>0 DEF FrameTypeOK, Opcodes
    <3>2. OpcodeOf(firstBytes) = Number(High(firstBytes))
      BY DEF OpcodeOf, High
    <3> QED BY <1>0, <3>1, <3>2, NumberOfBits DEF HeadIsWanted
  <2>2. firstBytes \cap FinBit # {} <=> wanted.fin
    BY <1>0 DEF HeadIsWanted, FinBit
  <2>3. HasMask <=> wanted.masked
    BY <1>0 DEF HeadIsWanted, HasMask, MaskBit
  <2>4. /\ wanted \in [fin : BOOLEAN, opcode : Opcodes, masked : BOOLEAN]
        /\ (firstBytes \cap FinBit # {}) \in BOOLEAN /\ HasMask \in BOOLEAN
    BY <1>0 DEF FrameTypeOK, HasMask
  <2>5. (firstBytes \cap FinBit # {}) = wanted.fin /\ HasMask = wanted.masked
    BY <2>2, <2>3, <2>4
  <2> QED BY <2>1, <2>4, <2>5 DEF DecodedHead
<1>3. FrameSize = BinarySize
  BY <1>0 DEF FrameSize, BinarySize, HeadIsWanted, HasMask, MaskBit
<1> DEFINE n == LengthOf(payloadSize)
<1>4. n \in 0 .. 127 /\ payloadSize \in Nat
  BY <1>0, LengthFits DEF FrameTypeOK
<1>5. Number(BitsOf(n)) = n
  BY <1>4, NumberOfBits
<1>6. ASSUME ExtendedSize > 0 PROVE DecodedSize = payloadSize
  <2>1. CASE payloadSize > 65535
    <3>1. n = 127
      BY <1>4, <2>1 DEF LengthOf
    <3>2. LengthBits \subseteq firstBytes
      BY <1>0, <3>1, AllBits DEF LengthIsThere
    <3>3. firstBytes \cap LengthBits = BitsOf(127)
      BY <3>2, AllBits
    <3>4. Length = 127
      BY <1>5, <3>1, <3>3 DEF Length
    <3> QED BY <3>4 DEF ExtendedSize, ExtendedLength, DecodedSize
  <2>2. CASE payloadSize <= 65535
    <3>1. payloadSize % 65536 = payloadSize
      BY <1>4, <2>2
    <3> QED BY <1>6, <3>1 DEF ExtendedLength, DecodedSize
  <2> QED BY <1>4, <2>1, <2>2
<1>7. ASSUME sets <= 1, ~(ExtendedSize > 0) PROVE DecodedSize = payloadSize
  <2>1. Length = n
    BY <1>0, <1>5, <1>7 DEF Length, LengthIsThere
  <2>2. n # 126 /\ n # 127 /\ ExtendedSize = 0
    BY <1>7, <2>1 DEF ExtendedSize
  <2>3. n = payloadSize
    BY <1>4, <2>2 DEF LengthOf
  <2> QED BY <2>1, <2>2, <2>3 DEF DecodedSize
<1> QED BY <1>1, <1>2, <1>3, <1>6, <1>7 DEF ReadBack

\* The invariant holds always.
THEOREM FrameInvariance == FrameSpec => []FrameInv
  BY InitFrameInv, FrameStep, PTL DEF FrameSpec

\* What is read back from a frame has the opcode, the end mark and the mask that the
\* setters were last called with, for payloads of every size, set any number of
\* times; and its length is the payload's if it was set once, or ever was long.
THEOREM FramesAreReadBack == FrameSpec => []ReadBack
  BY FrameInvariance, FrameInvIsEnough, PTL

------------------------------------------------------------------------------
\* The header of a request: names and their values, line by line.

\* The line gives the name a value.
Says(line, name) == line[1] = name /\ Len(line) = 2 /\ line[2] # ""

\* Lines are sequences of strings, and not empty.
LEMMA LineType ==
    ASSUME NEW line \in Lines
    PROVE  /\ line \in Seq(STRING) /\ Len(line) \in Nat /\ Len(line) >= 1
           /\ \A i \in 1 .. Len(line) : line[i] \in STRING
BY WsHeaderAssumption

\* The first part of a line is a string.
LEMMA NameType ==
    ASSUME NEW line \in Lines
    PROVE  line[1] \in STRING
<1> PICK n \in Nat : n = Len(line)
  BY LineType
<1>1. n >= 1
  BY LineType
<1>2. 1 \in 1 .. n
  BY <1>1
<1> QED BY <1>2, LineType

\* One more line, which gives the name a value or does not.
LEMMA SayingMore ==
    ASSUME NEW lines \in Seq(Lines), NEW line \in Lines, NEW name, NEW n \in Nat, n = Len(lines)
    PROVE  /\ Saying(name, lines) \subseteq 1 .. n
           /\ Append(lines, line) \in Seq(Lines)
           /\ \A i \in 1 .. n : Append(lines, line)[i] = lines[i]
           /\ Append(lines, line)[n + 1] = line
           /\ Saying(name, Append(lines, line)) =
                Saying(name, lines) \cup (IF Says(line, name) THEN {n + 1} ELSE {})
<1> DEFINE more == Append(lines, line)
<1>1. /\ more \in Seq(Lines) /\ Len(more) = n + 1 /\ more[n + 1] = line
      /\ \A i \in 1 .. n : more[i] = lines[i]
      /\ DOMAIN lines = 1 .. n /\ DOMAIN more = 1 .. n + 1
  OBVIOUS
<1> HIDE DEF more
<1>2. Saying(name, lines) \subseteq 1 .. n
  BY <1>1 DEF Saying
<1>3. ASSUME NEW i \in 1 .. n
      PROVE  i \in Saying(name, more) <=> i \in Saying(name, lines)
  <2>1. i \in DOMAIN lines /\ i \in DOMAIN more /\ more[i] = lines[i]
    BY <1>1
  <2> QED BY <2>1 DEF Saying
<1>4. n + 1 \in Saying(name, more) <=> Says(line, name)
  <2>1. n + 1 \in DOMAIN more
    BY <1>1
  <2> QED BY <1>1, <2>1 DEF Saying, Says
<1>5. Saying(name, more) \subseteq 1 .. n + 1
  BY <1>1 DEF Saying
<1>6. \A i \in 1 .. n + 1 : i \in 1 .. n \/ i = n + 1
  OBVIOUS
<1>7. n + 1 \notin 1 .. n
  OBVIOUS
<1>8. Saying(name, more) = Saying(name, lines) \cup (IF Says(line, name) THEN {n + 1} ELSE {})
  BY <1>2, <1>3, <1>4, <1>5, <1>6, <1>7
<1> QED BY <1>1, <1>2, <1>8 DEF more

\* Those up to one of the lines.
UpTo(name, lines, i) == {j \in Saying(name, lines) : j <= i}

\* A list of values stays right when another line is read, and grows when the line
\* is of its name.
LEMMA ListsMore ==
    ASSUME NEW lines \in Seq(Lines), NEW line \in Lines, NEW name,
           NEW list, Lists(list, name, lines), NEW T, list \in Seq(T), <<line[2]>> \in T
    PROVE  /\ ~Says(line, name) => Lists(list, name, Append(lines, line))
           /\ Says(line, name) => Lists(Append(list, <<line[2]>>), name, Append(lines, line))
<1> PICK n \in Nat : n = Len(lines)
  OBVIOUS
<1> DEFINE more == Append(lines, line)
           mine == Saying(name, lines)
<1>1. /\ mine \subseteq 1 .. n /\ more \in Seq(Lines) /\ more[n + 1] = line
      /\ \A i \in 1 .. n : more[i] = lines[i]
      /\ Saying(name, more) = mine \cup (IF Says(line, name) THEN {n + 1} ELSE {})
  BY SayingMore
<1> HIDE DEF more, mine
<1>2. \A i \in mine : UpTo(name, more, i) = UpTo(name, lines, i)
  <2> TAKE i \in mine
  <2>1. i \in 1 .. n /\ ~(n + 1 <= i)
    BY <1>1
  <2>2. UpTo(name, lines, i) = {j \in mine : j <= i}
    BY DEF UpTo, mine
  <2>3. UpTo(name, more, i) = {j \in mine \cup (IF Says(line, name) THEN {n + 1} ELSE {}) : j <= i}
    BY <1>1 DEF UpTo
  <2> QED BY <2>1, <2>2, <2>3
<1>3. /\ Len(list) = Cardinality(mine)
      /\ \A i \in mine : list[Cardinality(UpTo(name, lines, i))] = <<lines[i][2]>>
  BY DEF Lists, UpTo, mine
<1>4. IsFiniteSet(mine)
  <2>1. IsFiniteSet(1 .. n)
    BY FS_Interval
  <2> QED BY <1>1, <2>1, FS_Subset
<1>5. ASSUME NEW i \in mine
      PROVE  Cardinality(UpTo(name, lines, i)) \in 1 .. Len(list)
  <2>1. UpTo(name, lines, i) \subseteq mine /\ i \in UpTo(name, lines, i)
    <3>1. i <= i
      BY <1>1
    <3> QED BY <3>1 DEF UpTo, mine
  <2>2. IsFiniteSet(UpTo(name, lines, i))
    BY <1>4, <2>1, FS_Subset
  <2>3. /\ Cardinality(UpTo(name, lines, i)) \in Nat /\ Cardinality(mine) \in Nat
        /\ Cardinality(UpTo(name, lines, i)) <= Cardinality(mine)
    BY <1>4, <2>1, <2>2, FS_Subset, FS_CardinalityType
  <2>4. Cardinality(UpTo(name, lines, i)) # 0
    BY <2>1, <2>2, FS_EmptySet
  <2> QED BY <1>3, <2>3, <2>4
<1>6. ASSUME ~Says(line, name) PROVE Lists(list, name, more)
  <2>1. Saying(name, more) = mine
    BY <1>1, <1>6
  <2>2. \A i \in mine : list[Cardinality(UpTo(name, more, i))] = <<more[i][2]>>
    BY <1>1, <1>2, <1>3
  <2> QED BY <1>3, <2>1, <2>2 DEF Lists, UpTo
<1>7. ASSUME Says(line, name) PROVE Lists(Append(list, <<line[2]>>), name, more)
  <2> DEFINE grown == Append(list, <<line[2]>>)
  <2> PICK c \in Nat : c = Len(list)
    OBVIOUS
  <2>1. /\ Len(grown) = c + 1 /\ grown[c + 1] = <<line[2]>>
        /\ \A i \in 1 .. c : grown[i] = list[i]
    OBVIOUS
  <2> HIDE DEF grown
  <2>2. Saying(name, more) = mine \cup {n + 1} /\ n + 1 \notin mine
    BY <1>1, <1>7
  <2>3. Cardinality(mine \cup {n + 1}) = c + 1
    BY <1>3, <1>4, <2>2, FS_AddElement
  <2>4. UpTo(name, more, n + 1) = mine \cup {n + 1}
    <3>1. \A j \in mine \cup {n + 1} : j <= n + 1
      BY <1>1
    <3> QED BY <2>2, <3>1 DEF UpTo
  <2>5. \A i \in mine : grown[Cardinality(UpTo(name, more, i))] = <<more[i][2]>>
    <3> TAKE i \in mine
    <3>1. UpTo(name, more, i) = UpTo(name, lines, i) /\ more[i] = lines[i]
      BY <1>1, <1>2
    <3>2. Cardinality(UpTo(name, lines, i)) \in 1 .. c
      BY <1>5
    <3>3. list[Cardinality(UpTo(name, lines, i))] = <<lines[i][2]>>
      BY <1>3
    <3> QED BY <2>1, <3>1, <3>2, <3>3
  <2>6. grown[Cardinality(UpTo(name, more, n + 1))] = <<more[n + 1][2]>>
    BY <1>1, <2>1, <2>3, <2>4
  <2>7. Lists(grown, name, more)
    BY <2>1, <2>2, <2>3, <2>5, <2>6 DEF Lists, UpTo
  <2> QED BY <2>7 DEF grown
<1> QED BY <1>6, <1>7 DEF more

\* The names that a header can have, and the values.
HeaderNames == STRING \ {""}

\* The map has the values that the lines give to the name.
HoldsName(map, lines, name) ==
    IF <<name>> \in DOMAIN map THEN Lists(map[<<name>>], name, lines)
                               ELSE Saying(name, lines) = {}

\* The map is what the lines make it.
Holds(map, lines) ==
    /\ lines \in Seq(Lines)
    /\ \A k \in DOMAIN map : map[k] \in Seq(Seq(STRING))
    /\ \A name \in HeaderNames : HoldsName(map, lines, name)

\* The empty map has no names.
LEMMA NoNames == DOMAIN Nothing = {}
BY DEF Nothing

\* It is what no lines make.
LEMMA NothingHolds == Holds(Nothing, <<>>)
<1>1. DOMAIN Nothing = {}
  BY NoNames
<1>2. \A name : Saying(name, <<>>) = {}
  BY DEF Saying
<1> QED BY <1>1, <1>2 DEF Holds, HoldsName

\* A sequence of one element.
LEMMA OneElement ==
    ASSUME NEW S, NEW s \in Seq(S), Len(s) = 1
    PROVE  s = <<s[1]>>
<1>1. s[1] \in S
  OBVIOUS
<1>2. <<s[1]>> \in Seq(S) /\ Len(<<s[1]>>) = 1 /\ <<s[1]>>[1] = s[1]
  BY <1>1
<1> DEFINE t == <<s[1]>>
<1> HIDE DEF t
<1>3. t \in Seq(S) /\ Len(t) = 1 /\ t[1] = s[1]
  BY <1>2 DEF t
<1>4. \A i \in 1 .. Len(s) : s[i] = t[i]
  BY <1>3
<1>5. s = t
  BY <1>3, <1>4, SeqEqual
<1> QED BY <1>5 DEF t

\* What the loop makes of a list, or of none, with one more value or none.
LEMMA ListWithValue ==
    ASSUME NEW S, NEW s \in Seq(S), NEW x \in S
    PROVE  /\ s \o <<>> = s /\ s \o <<x>> = Append(s, x)
           /\ <<>> \o <<x>> = <<x>> /\ <<x>> \in Seq(S) /\ Append(s, x) \in Seq(S)
<1>1. <<x>> \in Seq(S)
  OBVIOUS
<1> QED BY <1>1, ConcatEmptySeq, AppendIsConcat

\* What the expressions make of a line with one colon, and of one with more.
LEMMA PartsOfLine ==
    ASSUME NEW line \in Lines, Len(line) > 1
    PROVE  /\ Text(line) \in Seq(STRING)
           /\ Len(line) = 2 => Name(line) = <<line[1]>> /\ Text(line) = <<line[2]>>
           /\ Len(line) > 2 => \A name : Name(line) # <<name>>
<1> PICK n \in Nat : n = Len(line)
  BY LineType
<1>1. \A i \in 1 .. n : line[i] \in STRING
  BY LineType
<1>2. \A i \in 2 .. n : line[i] \in STRING
  BY <1>1
<1>3. \A i \in 1 .. n - 1 : line[i] \in STRING
  BY <1>1
<1>4. /\ SubSeq(line, 2, n) \in Seq(STRING)
      /\ Len(SubSeq(line, 2, n)) = n - 1
      /\ \A i \in 1 .. n - 1 : SubSeq(line, 2, n)[i] = line[i + 1]
  BY <1>2
<1>5. /\ SubSeq(line, 1, n - 1) \in Seq(STRING)
      /\ Len(SubSeq(line, 1, n - 1)) = n - 1
      /\ \A i \in 1 .. n - 1 : SubSeq(line, 1, n - 1)[i] = line[i]
  BY <1>3
<1>6. Name(line) = SubSeq(line, 1, n - 1) /\ Text(line) = SubSeq(line, 2, n)
  BY DEF Name, Text
<1>7. ASSUME n = 2 PROVE Name(line) = <<line[1]>> /\ Text(line) = <<line[2]>>
  <2>1. /\ Name(line) \in Seq(STRING) /\ Len(Name(line)) = 1 /\ Name(line)[1] = line[1]
        /\ Text(line) \in Seq(STRING) /\ Len(Text(line)) = 1 /\ Text(line)[1] = line[2]
    BY <1>4, <1>5, <1>6, <1>7
  <2>2. Name(line) = <<Name(line)[1]>> /\ Text(line) = <<Text(line)[1]>>
    BY <2>1, OneElement
  <2> QED BY <2>1, <2>2
<1>8. ASSUME n > 2 PROVE \A name : Name(line) # <<name>>
  <2>1. Len(Name(line)) = n - 1 /\ n - 1 # 1
    BY <1>5, <1>6, <1>8
  <2>2. \A name : Len(<<name>>) = 1
    OBVIOUS
  <2> QED BY <2>1, <2>2
<1> QED BY <1>4, <1>6, <1>7, <1>8

\* A line that is not skipped has a colon.
LEMMA NotSkipped ==
    ASSUME NEW line \in Lines, ~Skipped(line)
    PROVE  Len(line) > 1
<1> PICK n \in Nat : n = Len(line)
  BY LineType
<1>1. n >= 1
  BY LineType
<1>2. ~(n = 1)
  BY Zenon DEF Skipped
<1> QED BY <1>1, <1>2

\* A line is said of the names that it is entered under, and of no others.
LEMMA EnteredUnder ==
    ASSUME NEW line \in Lines, NEW name \in HeaderNames
    PROVE  /\ Skipped(line) => ~Says(line, name)
           /\ ~Skipped(line) => Len(line) > 1 /\ (Says(line, name) <=> Name(line) = <<name>>)
<1>1. /\ Len(line) \in Nat /\ Len(line) >= 1
      /\ \A i \in 1 .. Len(line) : line[i] \in STRING
  BY LineType
<1>2. ASSUME Skipped(line) PROVE ~Says(line, name)
  <2>1. name # ""
    BY DEF HeaderNames
  <2>2. Len(line) = 1 \/ line[1] = "" \/ line[2] = ""
    BY <1>2, Zenon DEF Skipped
  <2>3. ~(1 = 2)
    OBVIOUS
  <2> QED BY <2>1, <2>2, <2>3, Zenon DEF Says
<1>3. ASSUME ~Skipped(line)
      PROVE  Len(line) > 1 /\ (Says(line, name) <=> Name(line) = <<name>>)
  <2>1. Len(line) > 1
    BY <1>3, NotSkipped
  <2>2. CASE Len(line) = 2
    <3>1. Name(line) = <<line[1]>> /\ line[2] # ""
      BY <1>3, <2>1, <2>2, PartsOfLine DEF Skipped
    <3>2. <<line[1]>> = <<name>> <=> line[1] = name
      OBVIOUS
    <3> QED BY <2>1, <2>2, <3>1, <3>2 DEF Says
  <2>3. CASE Len(line) # 2
    <3> PICK n \in Nat : n = Len(line)
      BY <1>1
    <3>1. Len(line) > 2
      BY <2>1, <2>3
    <3> QED BY <2>1, <2>3, <3>1, PartsOfLine DEF Says
  <2> QED BY <2>2, <2>3
<1> QED BY <1>2, <1>3

\* The first value of a name, and the next.
LEMMA FirstSaid ==
    ASSUME NEW lines \in Seq(Lines), NEW line \in Lines, NEW name,
           Saying(name, lines) = {}, Says(line, name)
    PROVE  Lists(<< <<line[2]>> >>, name, Append(lines, line))
<1> PICK n \in Nat : n = Len(lines)
  OBVIOUS
<1>1. /\ Saying(name, Append(lines, line)) = {n + 1}
      /\ Append(lines, line)[n + 1] = line
  BY SayingMore
<1>2. {j \in {n + 1} : j <= n + 1} = {n + 1}
  OBVIOUS
<1>3. Cardinality({n + 1}) = 1
  <2>1. Cardinality({} \cup {n + 1}) = 1
    BY FS_EmptySet, FS_AddElement
  <2> QED BY <2>1
<1> DEFINE v == <<line[2]>>
           more == Append(lines, line)
<1>4. /\ Saying(name, more) = {n + 1} /\ <<more[n + 1][2]>> = v
  BY <1>1
<1> HIDE DEF v, more
<1>5. Len(<<v>>) = 1 /\ <<v>>[1] = v
  OBVIOUS
<1>6. Lists(<<v>>, name, more)
  BY <1>2, <1>3, <1>4, <1>5 DEF Lists
<1> QED BY <1>6 DEF v, more

\* A line that is entered, or skipped.
LEMMA HoldsMore ==
    ASSUME NEW line \in Lines, Holds(parsed, seen),
           seen' = Append(seen, line),
           parsed' = IF Skipped(line) THEN parsed ELSE Entered(line)
    PROVE  Holds(parsed', seen')
<1>1. seen \in Seq(Lines) /\ seen' \in Seq(Lines)
  BY DEF Holds
<1>2. CASE Skipped(line)
  <2>1. parsed' = parsed
    BY <1>2
  <2>2. ASSUME NEW name \in HeaderNames PROVE HoldsName(parsed', seen', name)
    <3>1. ~Says(line, name)
      BY <1>2, EnteredUnder
    <3>2. HoldsName(parsed, seen, name)
      BY DEF Holds
    <3>3. CASE <<name>> \in DOMAIN parsed
      <4>1. Lists(parsed[<<name>>], name, seen) /\ parsed[<<name>>] \in Seq(Seq(STRING))
        BY <3>2, <3>3 DEF HoldsName, Holds
      <4> DEFINE T == Seq(STRING) \cup {<<line[2]>>}
      <4>2. parsed[<<name>>] \in Seq(T) /\ <<line[2]>> \in T
        BY <4>1
      <4> HIDE DEF T
      <4>3. Lists(parsed[<<name>>], name, Append(seen, line))
        BY <1>1, <3>1, <4>1, <4>2, ListsMore
      <4> QED BY <2>1, <3>3, <4>3 DEF HoldsName
    <3>4. CASE <<name>> \notin DOMAIN parsed
      <4>1. Saying(name, seen) = {}
        BY <3>2, <3>4 DEF HoldsName
      <4>2. Saying(name, Append(seen, line)) = {}
        BY <1>1, <3>1, <4>1, SayingMore
      <4> QED BY <2>1, <3>4, <4>2 DEF HoldsName
    <3> QED BY <3>3, <3>4
  <2> QED BY <1>1, <2>1, <2>2 DEF Holds
<1>3. CASE ~Skipped(line)
  <2>0. Len(line) > 1
    BY <1>3, NotSkipped
  <2>1. Text(line) \in Seq(STRING)
    BY <2>0, PartsOfLine
  <2>2. parsed' = Entered(line)
    BY <1>3
  <2>3. /\ DOMAIN parsed' = DOMAIN parsed \cup {Name(line)}
        /\ \A k \in DOMAIN parsed \cup {Name(line)} :
             parsed'[k] = (IF k \in DOMAIN parsed THEN parsed[k] ELSE <<>>)
                            \o (IF k = Name(line) THEN <<Text(line)>> ELSE <<>>)
    BY <2>2 DEF Entered
  <2>4. \A k \in DOMAIN parsed : parsed[k] \in Seq(Seq(STRING))
    BY DEF Holds
  <2>5. ASSUME NEW k \in DOMAIN parsed, k # Name(line) PROVE parsed'[k] = parsed[k]
    <3>1. parsed'[k] = parsed[k] \o <<>>
      BY <2>3, <2>5
    <3>2. parsed[k] \in Seq(Seq(STRING))
      BY <2>4
    <3> QED BY <2>1, <3>1, <3>2, ListWithValue
  <2>6. ASSUME Name(line) \in DOMAIN parsed
        PROVE  parsed'[Name(line)] = Append(parsed[Name(line)], Text(line))
    <3>1. parsed'[Name(line)] = parsed[Name(line)] \o <<Text(line)>>
      BY <2>3, <2>6
    <3>2. parsed[Name(line)] \in Seq(Seq(STRING))
      BY <2>4, <2>6
    <3> QED BY <2>1, <3>1, <3>2, ListWithValue
  <2>7. ASSUME Name(line) \notin DOMAIN parsed
        PROVE  parsed'[Name(line)] = <<Text(line)>>
    <3>1. parsed'[Name(line)] = <<>> \o <<Text(line)>>
      BY <2>3, <2>7
    <3>2. <<>> \in Seq(Seq(STRING))
      OBVIOUS
    <3> QED BY <2>1, <3>1, <3>2, ListWithValue
  <2>8. \A k \in DOMAIN parsed' : parsed'[k] \in Seq(Seq(STRING))
    <3> TAKE k \in DOMAIN parsed'
    <3>1. CASE k # Name(line)
      BY <2>3, <2>4, <2>5, <3>1
    <3>2. CASE k = Name(line)
      <4>1. <<Text(line)>> \in Seq(Seq(STRING))
        BY <2>1
      <4>2. k \in DOMAIN parsed => Append(parsed[k], Text(line)) \in Seq(Seq(STRING))
        BY <2>1, <2>4
      <4> QED BY <2>6, <2>7, <3>2, <4>1, <4>2
    <3> QED BY <3>1, <3>2
  <2>9. ASSUME NEW name \in HeaderNames PROVE HoldsName(parsed', seen', name)
    <3>1. Says(line, name) <=> Name(line) = <<name>>
      BY <1>3, EnteredUnder
    <3>2. HoldsName(parsed, seen, name)
      BY DEF Holds
    <3> DEFINE T == Seq(STRING) \cup {<<line[2]>>}
    <3>3. CASE <<name>> \in DOMAIN parsed
      <4>1. Lists(parsed[<<name>>], name, seen) /\ parsed[<<name>>] \in Seq(Seq(STRING))
        BY <2>4, <3>2, <3>3 DEF HoldsName
      <4>2. parsed[<<name>>] \in Seq(T) /\ <<line[2]>> \in T
        BY <4>1
      <4> HIDE DEF T
      <4>3. CASE Says(line, name)
        <5>1. Lists(Append(parsed[<<name>>], <<line[2]>>), name, Append(seen, line))
          BY <1>1, <4>1, <4>2, <4>3, ListsMore
        <5>2. Text(line) = <<line[2]>> /\ Name(line) = <<name>>
          BY <2>0, <3>1, <4>3, PartsOfLine DEF Says
        <5>3. parsed'[<<name>>] = Append(parsed[<<name>>], <<line[2]>>)
          BY <2>6, <3>3, <5>2
        <5> QED BY <2>3, <3>3, <5>1, <5>3 DEF HoldsName
      <4>4. CASE ~Says(line, name)
        <5>1. Lists(parsed[<<name>>], name, Append(seen, line))
          BY <1>1, <4>1, <4>2, <4>4, ListsMore
        <5>2. parsed'[<<name>>] = parsed[<<name>>]
          BY <2>5, <3>1, <3>3, <4>4
        <5> QED BY <2>3, <3>3, <5>1, <5>2 DEF HoldsName
      <4> QED BY <4>3, <4>4
    <3>4. CASE <<name>> \notin DOMAIN parsed
      <4>1. Saying(name, seen) = {}
        BY <3>2, <3>4 DEF HoldsName
      <4>2. CASE Says(line, name)
        <5>1. Lists(<< <<line[2]>> >>, name, Append(seen, line))
          BY <1>1, <4>1, <4>2, FirstSaid
        <5>2. Text(line) = <<line[2]>> /\ Name(line) = <<name>>
          BY <2>0, <3>1, <4>2, PartsOfLine DEF Says
        <5>3. parsed'[<<name>>] = << <<line[2]>> >>
          BY <2>7, <3>4, <5>2
        <5> QED BY <2>3, <5>1, <5>2, <5>3 DEF HoldsName
      <4>3. CASE ~Says(line, name)
        <5>1. Saying(name, Append(seen, line)) = {}
          BY <1>1, <4>1, <4>3, SayingMore
        <5>2. <<name>> \notin DOMAIN parsed'
          BY <2>3, <3>1, <3>4, <4>3
        <5> QED BY <5>1, <5>2 DEF HoldsName
      <4> QED BY <4>2, <4>3
    <3> QED BY <3>3, <3>4
  <2> QED BY <1>1, <2>8, <2>9 DEF Holds
<1> QED BY <1>2, <1>3

\* The inductive invariant: what was read is in the local map, and what the object
\* shows is what the answered request said, if it shows anything.
HeaderInv ==
    /\ Holds(parsed, seen)
    /\ Holds(header, answered)
    /\ at # "shook" => header = Nothing

\* Every step of handshake() and close() keeps it.
LEMMA HeaderStep == HeaderInv /\ [HeaderNext]_headerVars => HeaderInv'
<1> SUFFICES ASSUME HeaderInv, [HeaderNext]_headerVars PROVE HeaderInv'
  OBVIOUS
<1>0. Holds(parsed, seen) /\ Holds(header, answered) /\ (at # "shook" => header = Nothing)
  BY DEF HeaderInv
<1>1. ASSUME NEW url \in Urls, StatusLine(url) PROVE HeaderInv'
  BY <1>0, <1>1 DEF StatusLine, HeaderInv
<1>2. ASSUME at # "shook", Throw PROVE HeaderInv'
  BY <1>0, <1>2 DEF Throw, HeaderInv
<1>3. CASE BadStatus
  BY <1>2, <1>3 DEF BadStatus
<1>4. ASSUME NEW line \in Lines, HeaderLine(line) PROVE HeaderInv'
  <2>1. at = "headers"
    BY <1>4 DEF HeaderLine
  <2>2. CASE Throw
    BY <1>2, <2>1, <2>2
  <2>3. CASE ~Throw
    <3>1. /\ parsed' = IF Skipped(line) THEN parsed ELSE Entered(line)
          /\ seen' = Append(seen, line)
          /\ UNCHANGED <<at, header, answered>>
      BY <1>4, <2>3 DEF HeaderLine
    <3>2. Holds(parsed', seen')
      BY <1>0, <3>1, HoldsMore
    <3> QED BY <1>0, <3>1, <3>2 DEF HeaderInv
  <2> QED BY <2>2, <2>3
<1>5. CASE NoKey
  BY <1>2, <1>5 DEF NoKey
<1>6. CASE Answered
  BY <1>0, <1>6 DEF Answered, HeaderInv
<1>7. CASE AnsweredInPieces
  BY <1>0, <1>7 DEF AnsweredInPieces, HeaderInv
<1>8. CASE CloseRequest
  BY <1>8, NothingHolds DEF CloseRequest, HeaderInv
<1>9. CASE UNCHANGED headerVars
  BY <1>0, <1>9 DEF headerVars, HeaderInv
<1> QED BY <1>1, <1>3, <1>4, <1>5, <1>6, <1>7, <1>8, <1>9 DEF HeaderNext

\* The invariant is enough for what the object shows.
LEMMA HeaderInvIsEnough == HeaderInv => HeaderIsFaithful
<1> SUFFICES ASSUME HeaderInv, NEW line \in Lines, NEW name, name = line[1], name # ""
             PROVE  IF <<name>> \in DOMAIN header
                    THEN Lists(header[<<name>>], name, answered) /\ at = "shook"
                    ELSE Saying(name, answered) = {}
  BY DEF HeaderIsFaithful
<1>1. name \in HeaderNames
  <2>1. line[1] \in STRING
    BY NameType
  <2> QED BY <2>1 DEF HeaderNames
<1>2. HoldsName(header, answered, name)
  BY <1>1 DEF HeaderInv, Holds
<1>3. ASSUME <<name>> \in DOMAIN header PROVE at = "shook"
  <2>1. header # Nothing
    BY <1>3, NoNames
  <2> QED BY <2>1 DEF HeaderInv
<1> QED BY <1>2, <1>3 DEF HoldsName

\* However the header lines of a request follow each other, what the object shows
\* afterwards is what the request said, whole and of no other connection.
THEOREM HeaderShowsTheRequest == HeaderSpec => []HeaderIsFaithful
<1>1. HeaderInit => HeaderInv
  BY NothingHolds DEF HeaderInit, HeaderInv
<1>2. HeaderInv /\ [HeaderNext]_headerVars => HeaderInv'
  BY HeaderStep
<1>3. HeaderInv => HeaderIsFaithful
  BY HeaderInvIsEnough
<1> QED BY <1>1, <1>2, <1>3, PTL DEF HeaderSpec

------------------------------------------------------------------------------
\* UUIDs: the digits of a text, the bytes they stand for, and who has them.

\* Sixteen bytes.
ByteArrays == [1 .. 16 -> 0 .. 255]

\* Where the digits of a byte are.
LEMMA Layout ==
    ASSUME NEW i \in 1 .. 16
    PROVE  /\ DigitsOf[i] = PlaceOf(2 * i - 1) /\ DigitsOf[i] + 1 = PlaceOf(2 * i)
           /\ DigitsOf[i] \in 1 .. 35
           /\ DigitsOf[i] \notin Hyphens /\ DigitsOf[i] + 1 \notin Hyphens
<1>1. /\ DigitsOf[1] = 1 /\ DigitsOf[2] = 3 /\ DigitsOf[3] = 5 /\ DigitsOf[4] = 7
      /\ DigitsOf[5] = 10 /\ DigitsOf[6] = 12 /\ DigitsOf[7] = 15 /\ DigitsOf[8] = 17
      /\ DigitsOf[9] = 20 /\ DigitsOf[10] = 22 /\ DigitsOf[11] = 25 /\ DigitsOf[12] = 27
      /\ DigitsOf[13] = 29 /\ DigitsOf[14] = 31 /\ DigitsOf[15] = 33 /\ DigitsOf[16] = 35
  BY DEF DigitsOf
<1>2. DigitsOf[i] = PlaceOf(2 * i - 1)
  BY <1>1 DEF PlaceOf
<1>3. DigitsOf[i] + 1 = PlaceOf(2 * i)
  BY <1>1 DEF PlaceOf
<1>4. DigitsOf[i] \in 1 .. 35 /\ DigitsOf[i] \notin Hyphens /\ DigitsOf[i] + 1 \notin Hyphens
  BY <1>1 DEF Hyphens
<1> QED BY <1>2, <1>3, <1>4

\* Each digit belongs to one byte.
LEMMA BytesApart ==
    ASSUME NEW i \in 1 .. 16, NEW j \in 1 .. 16,
           \/ DigitsOf[i] \in {DigitsOf[j], DigitsOf[j] + 1}
           \/ DigitsOf[i] + 1 \in {DigitsOf[j], DigitsOf[j] + 1}
    PROVE  i = j
<1>1. \A h \in 1 .. 32 : PlaceOf(h) \in Nat
  BY DEF PlaceOf
<1>2. \A g, h \in 1 .. 32 : g < h => PlaceOf(g) < PlaceOf(h)
  BY DEF PlaceOf
<1>3. \A g, h \in 1 .. 32 : PlaceOf(g) = PlaceOf(h) => g = h
  BY <1>1, <1>2
<1>4. /\ 2 * i - 1 \in 1 .. 32 /\ 2 * i \in 1 .. 32
      /\ 2 * j - 1 \in 1 .. 32 /\ 2 * j \in 1 .. 32
  OBVIOUS
<1>5. \/ 2 * i - 1 = 2 * j - 1 \/ 2 * i - 1 = 2 * j
      \/ 2 * i = 2 * j - 1 \/ 2 * i = 2 * j
  BY <1>3, <1>4, Layout
<1> QED BY <1>5

\* The byte of a digit.
LEMMA ByteAtIs ==
    ASSUME NEW i \in 1 .. 16
    PROVE  ByteAt[DigitsOf[i]] = i /\ ByteAt[DigitsOf[i] + 1] = i
<1>1. DigitsOf[i] \in 1 .. 36 \ Hyphens /\ DigitsOf[i] + 1 \in 1 .. 36 \ Hyphens
  BY Layout
<1>2. ASSUME NEW k \in {DigitsOf[i], DigitsOf[i] + 1} PROVE ByteAt[k] = i
  <2>1. ByteAt[k] = CHOOSE j \in 1 .. 16 : k \in {DigitsOf[j], DigitsOf[j] + 1}
    BY <1>1 DEF ByteAt
  <2>2. \A j \in 1 .. 16 : k \in {DigitsOf[j], DigitsOf[j] + 1} => j = i
    BY BytesApart
  <2>3. \E j \in 1 .. 16 : k \in {DigitsOf[j], DigitsOf[j] + 1}
    OBVIOUS
  <2> QED BY <2>1, <2>2, <2>3
<1> QED BY <1>2

\* Every place but those of the hyphens is that of a digit.
LEMMA PlacesFilled ==
    ASSUME NEW k \in 1 .. 36 \ Hyphens
    PROVE  \E i \in 1 .. 16 : k \in {DigitsOf[i], DigitsOf[i] + 1}
<1>1. \E h \in 1 .. 32 : k = PlaceOf(h)
  <2>1. CASE k <= 8
    BY <2>1 DEF PlaceOf
  <2>2. CASE 9 <= k /\ k <= 13
    <3>1. k - 1 \in 1 .. 32 /\ k = PlaceOf(k - 1)
      BY <2>2 DEF PlaceOf, Hyphens
    <3> QED BY <3>1
  <2>3. CASE 14 <= k /\ k <= 18
    <3>1. k - 2 \in 1 .. 32 /\ k = PlaceOf(k - 2)
      BY <2>3 DEF PlaceOf, Hyphens
    <3> QED BY <3>1
  <2>4. CASE 19 <= k /\ k <= 23
    <3>1. k - 3 \in 1 .. 32 /\ k = PlaceOf(k - 3)
      BY <2>4 DEF PlaceOf, Hyphens
    <3> QED BY <3>1
  <2>5. CASE 24 <= k
    <3>1. k - 4 \in 1 .. 32 /\ k = PlaceOf(k - 4)
      BY <2>5 DEF PlaceOf, Hyphens
    <3> QED BY <3>1
  <2> QED BY <2>1, <2>2, <2>3, <2>4, <2>5
<1>2. PICK h \in 1 .. 32 : k = PlaceOf(h)
  BY <1>1
<1>3. PICK i \in 1 .. 16 : h = 2 * i - 1 \/ h = 2 * i
  <2>1. CASE h % 2 = 0
    <3>1. h \div 2 \in 1 .. 16 /\ h = 2 * (h \div 2)
      BY <2>1
    <3> QED BY <3>1
  <2>2. CASE h % 2 = 1
    <3>1. (h + 1) \div 2 \in 1 .. 16 /\ h = 2 * ((h + 1) \div 2) - 1
      BY <2>2
    <3> QED BY <3>1
  <2> QED BY <2>1, <2>2
<1> QED BY <1>2, <1>3, Layout

\* What a digit is worth.
LEMMA DigitIs ==
    ASSUME NEW c \in HexDigits
    PROVE  Digit(c) = HexValue(c) /\ HexValue(c) \in 0 .. 15
BY DEF HexDigits, Digit, HexValue

\* The bits of the two digits of a byte stand side by side.
LEMMA JoinedIs ==
    ASSUME NEW x \in 0 .. 15, NEW y \in 0 .. 15
    PROVE  Joined(x, y) = 16 * x + y /\ 16 * x + y \in 0 .. 255
<1>1. BitsOf(16 * x) \cap BitsOf(y) = {}
  <2>1. /\ ((16 * x) \div 1) % 2 = 0 /\ ((16 * x) \div 2) % 2 = 0
        /\ ((16 * x) \div 4) % 2 = 0 /\ ((16 * x) \div 8) % 2 = 0
    OBVIOUS
  <2>2. /\ (y \div 16) % 2 = 0 /\ (y \div 32) % 2 = 0
        /\ (y \div 64) % 2 = 0 /\ (y \div 128) % 2 = 0
    OBVIOUS
  <2>3. /\ 0 \notin BitsOf(16 * x) /\ 1 \notin BitsOf(16 * x)
        /\ 2 \notin BitsOf(16 * x) /\ 3 \notin BitsOf(16 * x)
    <3> DEFINE n == 16 * x
    <3> HIDE DEF n
    <3>1. /\ (n \div 1) % 2 = 0 /\ (n \div 2) % 2 = 0
          /\ (n \div 4) % 2 = 0 /\ (n \div 8) % 2 = 0
      BY <2>1 DEF n
    <3>2. 0 \notin BitsOf(n) /\ 1 \notin BitsOf(n) /\ 2 \notin BitsOf(n) /\ 3 \notin BitsOf(n)
      BY <3>1, BitsAre
    <3> QED BY <3>2 DEF n
  <2>4. 4 \notin BitsOf(y) /\ 5 \notin BitsOf(y) /\ 6 \notin BitsOf(y) /\ 7 \notin BitsOf(y)
    BY <2>2, BitsAre
  <2>5. BitsOf(16 * x) \subseteq 0 .. 7 /\ BitsOf(y) \subseteq 0 .. 7
    BY DEF BitsOf
  <2> QED BY <2>3, <2>4, <2>5
<1>2. 16 * x \in 0 .. 255 /\ y \in 0 .. 255
  OBVIOUS
<1>3. Number(BitsOf(16 * x)) = 16 * x /\ Number(BitsOf(y)) = y
  BY <1>2, NumberOfBits
<1>4. 16 * x + y \in 0 .. 255
  OBVIOUS
<1> QED BY <1>1, <1>3, <1>4, Disjoint DEF Joined

\* Bits make a byte, whichever they are.
LEMMA BitsMakeByte ==
    ASSUME NEW bits
    PROVE  Number(bits) \in 0 .. 255
<1>1. /\ Worth(bits, 0) \in {0, 1} /\ Worth(bits, 1) \in {0, 2}
      /\ Worth(bits, 2) \in {0, 4} /\ Worth(bits, 3) \in {0, 8}
      /\ Worth(bits, 4) \in {0, 16} /\ Worth(bits, 5) \in {0, 32}
      /\ Worth(bits, 6) \in {0, 64} /\ Worth(bits, 7) \in {0, 128}
  BY Weights DEF Worth
<1> DEFINE w0 == Worth(bits, 0)
           w1 == Worth(bits, 1)
           w2 == Worth(bits, 2)
           w3 == Worth(bits, 3)
           w4 == Worth(bits, 4)
           w5 == Worth(bits, 5)
           w6 == Worth(bits, 6)
           w7 == Worth(bits, 7)
<1>2. Number(bits) = w0 + w1 + w2 + w3 + w4 + w5 + w6 + w7
  BY Zenon DEF Number
<1>3. /\ w0 \in 0 .. 1 /\ w1 \in 0 .. 2 /\ w2 \in 0 .. 4 /\ w3 \in 0 .. 8
      /\ w4 \in 0 .. 16 /\ w5 \in 0 .. 32 /\ w6 \in 0 .. 64 /\ w7 \in 0 .. 128
  BY <1>1
<1> HIDE DEF w0, w1, w2, w3, w4, w5, w6, w7
<1>4. w0 + w1 + w2 + w3 \in 0 .. 15
  BY <1>3
<1>5. w0 + w1 + w2 + w3 + w4 \in 0 .. 31
  BY <1>3, <1>4
<1>6. w0 + w1 + w2 + w3 + w4 + w5 \in 0 .. 63
  BY <1>3, <1>5
<1>7. w0 + w1 + w2 + w3 + w4 + w5 + w6 \in 0 .. 127
  BY <1>3, <1>6
<1>8. w0 + w1 + w2 + w3 + w4 + w5 + w6 + w7 \in 0 .. 255
  BY <1>3, <1>7
<1> QED BY <1>2, <1>8

\* Whatever the constructor reads, it makes bytes of it.
LEMMA ParsedIsBytes == ASSUME NEW t PROVE Parsed(t) \in ByteArrays
BY BitsMakeByte DEF Parsed, Joined, ByteArrays

\* The character of a digit, and what it is worth.
LEMMA HexOfIs ==
    ASSUME NEW n \in 0 .. 15
    PROVE  /\ HexOf(n) \in HexDigits /\ HexValue(HexOf(n)) = n
           /\ HexOf(n) \in 49 .. 53 <=> n \in 1 .. 5
           /\ HexOf(n) \in 49 .. 53 => HexOf(n) - 48 = n
BY DEF HexOf, HexDigits, HexValue

\* __mkStr() writes both digits of every byte.
LEMMA StringIs ==
    ASSUME NEW raw \in ByteArrays
    PROVE  /\ Len(MkStr(raw)) = 36
           /\ \A k \in Hyphens : MkStr(raw)[k] = Hyphen
           /\ \A i \in 1 .. 16 : /\ MkStr(raw)[DigitsOf[i]] = HexOf(raw[i] \div 16)
                                 /\ MkStr(raw)[DigitsOf[i] + 1] = HexOf(raw[i] % 16)
<1>1. Len(MkStr(raw)) = 36
  BY DEF MkStr
<1>2. ASSUME NEW k \in Hyphens PROVE MkStr(raw)[k] = Hyphen
  <2>1. k \in 1 .. 36
    BY DEF Hyphens
  <2> QED BY <2>1 DEF MkStr
<1>3. ASSUME NEW i \in 1 .. 16
      PROVE  /\ MkStr(raw)[DigitsOf[i]] = HexOf(raw[i] \div 16)
             /\ MkStr(raw)[DigitsOf[i] + 1] = HexOf(raw[i] % 16)
  <2> DEFINE k == DigitsOf[i]
  <2>1. k \in 1 .. 35 /\ k \notin Hyphens /\ k + 1 \notin Hyphens
    BY Layout
  <2>2. ByteAt[k] = i /\ ByteAt[k + 1] = i
    BY ByteAtIs
  <2>3. k \in 1 .. 36 /\ k + 1 \in 1 .. 36 /\ k # k + 1
    BY <2>1
  <2>4. MkStr(raw)[k] =
          HexOf(IF k = DigitsOf[ByteAt[k]] THEN raw[ByteAt[k]] \div 16 ELSE raw[ByteAt[k]] % 16)
    BY <2>1, <2>3, Zenon DEF MkStr
  <2>5. MkStr(raw)[k + 1] =
          HexOf(IF k + 1 = DigitsOf[ByteAt[k + 1]] THEN raw[ByteAt[k + 1]] \div 16
                ELSE raw[ByteAt[k + 1]] % 16)
    BY <2>1, <2>3, Zenon DEF MkStr
  <2> QED BY <2>2, <2>3, <2>4, <2>5, Zenon
<1> QED BY <1>1, <1>2, <1>3

\* The halves of a byte.
LEMMA Halves16 ==
    ASSUME NEW n \in 0 .. 255
    PROVE  n \div 16 \in 0 .. 15 /\ n % 16 \in 0 .. 15 /\ n = 16 * (n \div 16) + (n % 16)
  OBVIOUS

\* The text of an object denotes its bytes, and is one.
LEMMA StringDenotes ==
    ASSUME NEW raw \in ByteArrays
    PROVE  Denoted(MkStr(raw)) = raw /\ IsHusk(MkStr(raw))
<1>0. \A i \in 1 .. 16 : raw[i] \in 0 .. 255
  BY DEF ByteArrays
<1>1. ASSUME NEW i \in 1 .. 16 PROVE Denoted(MkStr(raw))[i] = raw[i]
  <2>1. Denoted(MkStr(raw))[i] = 16 * HexValue(MkStr(raw)[DigitsOf[i]])
                                 + HexValue(MkStr(raw)[DigitsOf[i] + 1])
    BY Layout DEF Denoted
  <2>2. /\ HexValue(MkStr(raw)[DigitsOf[i]]) = raw[i] \div 16
        /\ HexValue(MkStr(raw)[DigitsOf[i] + 1]) = raw[i] % 16
    BY <1>0, StringIs, Halves16, HexOfIs
  <2> QED BY <1>0, <2>1, <2>2, Halves16
<1>2. Denoted(MkStr(raw)) = raw
  <2>1. Denoted(MkStr(raw)) = [i \in 1 .. 16 |-> Denoted(MkStr(raw))[i]]
    BY DEF Denoted
  <2>2. raw = [i \in 1 .. 16 |-> raw[i]]
    BY DEF ByteArrays
  <2> QED BY <1>1, <2>1, <2>2
<1>3. ASSUME NEW k \in 1 .. 36, k \notin Hyphens PROVE MkStr(raw)[k] \in HexDigits
  <2>1. PICK i \in 1 .. 16 : k \in {DigitsOf[i], DigitsOf[i] + 1}
    BY <1>3, PlacesFilled
  <2>2. raw[i] \div 16 \in 0 .. 15 /\ raw[i] % 16 \in 0 .. 15
    BY <1>0, Halves16
  <2>3. MkStr(raw)[k] = HexOf(raw[i] \div 16) \/ MkStr(raw)[k] = HexOf(raw[i] % 16)
    BY <2>1, StringIs
  <2> QED BY <2>2, <2>3, HexOfIs
<1>4. IsHusk(MkStr(raw))
  BY <1>3, StringIs DEF IsHusk
<1> QED BY <1>2, <1>4

\* The version is the fifteenth character of the text.
LEMMA VersionShows ==
    ASSUME NEW raw \in ByteArrays
    PROVE  VersionOf(raw) = IF MkStr(raw)[15] \in 49 .. 53 THEN MkStr(raw)[15] - 48 ELSE 0
<1>1. raw[7] \in 0 .. 255 /\ raw[7] \div 16 \in 0 .. 15
  BY Halves16 DEF ByteArrays
<1>2. MkStr(raw)[15] = HexOf(raw[7] \div 16)
  <2>1. DigitsOf[7] = 15
    BY DEF DigitsOf
  <2>2. MkStr(raw)[DigitsOf[7]] = HexOf(raw[7] \div 16)
    BY StringIs
  <2> QED BY <2>1, <2>2
<1> QED BY <1>1, <1>2, HexOfIs DEF VersionOf

\* The order of the natural numbers as a set of pairs, which has no endless
\* descent.
Below == OpToRel(<, Nat)

\* A pair of it.
LEMMA BelowIs == ASSUME NEW x \in Nat, NEW y \in Nat, x < y PROVE <<x, y>> \in Below
BY DEF Below, OpToRel

\* A set of natural numbers has a least element, if it has any.
LEMMA Least ==
    ASSUME NEW T, T \subseteq Nat, T # {}
    PROVE  \E x \in T : \A y \in T : x <= y
<1>1. IsWellFoundedOn(Below, Nat)
  BY NatLessThanWellFounded DEF Below
<1>2. PICK x \in T : \A y \in T : ~(<<y, x>> \in Below)
  BY <1>1, WFMin
<1>3. ASSUME NEW y \in T PROVE x <= y
  <2>1. ~(y < x)
    BY <1>2, BelowIs
  <2> QED BY <2>1
<1> QED BY <1>3

\* It has a greatest element, if it is bounded.
LEMMA Greatest ==
    ASSUME NEW n \in Nat, NEW T, T \subseteq 1 .. n, T # {}
    PROVE  \E x \in T : \A y \in T : y <= x
<1> DEFINE Above == {m \in Nat : \A y \in T : y <= m}
<1>1. PICK x \in Above : \A y \in Above : x <= y
  <2>1. n \in Above
    OBVIOUS
  <2> HIDE DEF Above
  <2>2. Above \subseteq Nat
    BY DEF Above
  <2> QED BY <2>1, <2>2, Least
<1>2. x \in T
  <2> SUFFICES ASSUME x \notin T PROVE FALSE
    OBVIOUS
  <2>0. x \in Nat /\ \A y \in T : y <= x
    OBVIOUS
  <2>1. x # 0
    <3>1. PICK y \in T : y \in 1 .. n
      OBVIOUS
    <3> QED BY <2>0, <3>1
  <2>2. \A y \in T : y <= x - 1
    BY <2>0
  <2>3. x - 1 \in Above
    BY <2>1, <2>2
  <2> QED BY <2>3, <1>1
<1> QED BY <1>1, <1>2

\* trim() cuts blanks off, and nothing else.
LEMMA TrimmedIs ==
    ASSUME NEW t \in Seq(1 .. 127), Trimmed(t) # <<>>
    PROVE  \E m, n \in 1 .. Len(t) :
             /\ Trimmed(t) = SubSeq(t, m, n) /\ m <= n
             /\ t[1] \notin Spaces => m = 1
<1> DEFINE solid == {i \in DOMAIN t : t[i] \notin Spaces}
           m == CHOOSE i \in solid : \A j \in solid : i <= j
           n == CHOOSE i \in solid : \A j \in solid : j <= i
<1>1. solid # {} /\ Trimmed(t) = SubSeq(t, m, n)
  BY DEF Trimmed
<1>2. solid \subseteq 1 .. Len(t) /\ Len(t) \in Nat
  OBVIOUS
<1>3. t[1] \notin Spaces => 1 \in solid
  BY <1>1, <1>2
<1> HIDE DEF solid
<1>4. solid \subseteq Nat
  BY <1>2
<1>5. m \in solid /\ \A j \in solid : m <= j
  BY <1>1, <1>4, Least
<1>6. n \in solid /\ \A j \in solid : j <= n
  BY <1>1, <1>2, Greatest
<1> HIDE DEF m, n
<1>7. m \in 1 .. Len(t) /\ n \in 1 .. Len(t) /\ m <= n
  BY <1>2, <1>5, <1>6
<1>8. t[1] \notin Spaces => m = 1
  BY <1>2, <1>3, <1>5, <1>7
<1> QED BY <1>1, <1>7, <1>8

\* Where a byte's digits are in a text.
LEMMA PlacesOfText ==
    ASSUME NEW i \in 1 .. 16
    PROVE  /\ DigitsOf[i] \in 1 .. 36 \ Hyphens
           /\ DigitsOf[i] + 1 \in 1 .. 36 \ Hyphens
BY Layout

\* A text that is valid has at least 36 characters; the constructor reads from its
\* first 36 what it denotes, if it does not begin with a blank.
LEMMA TextIsRead ==
    ASSUME NEW t \in ValidTexts
    PROVE  /\ t \in Seq(1 .. 127) /\ Len(t) > 16 /\ Len(t) # 16
           /\ t[1] \notin Spaces => Denoted(Trimmed(t)) = Parsed(t)
<1>1. t \in Seq(1 .. 127) /\ IsHusk(Trimmed(t))
  BY UuidAssumption DEF ValidTexts, ValidText
<1>2. Len(Trimmed(t)) = 36
  BY <1>1 DEF IsHusk
<1>3. Trimmed(t) # <<>>
  <2>1. Len(<<>>) # 36
    OBVIOUS
  <2> QED BY <1>2, <2>1, Zenon
<1>4. PICK m, n \in 1 .. Len(t) :
        /\ Trimmed(t) = SubSeq(t, m, n) /\ m <= n
        /\ t[1] \notin Spaces => m = 1
  BY <1>1, <1>3, TrimmedIs
<1>5. PICK l \in Nat : l = Len(t)
  BY <1>1
<1>6. m \in Nat /\ n \in Nat /\ 1 <= m /\ n - m + 1 = 36 /\ n <= l
  BY <1>1, <1>2, <1>4, <1>5
<1>7. l > 16 /\ l # 16
  BY <1>6
<1>8. ASSUME t[1] \notin Spaces
      PROVE  Denoted(Trimmed(t)) = Parsed(t)
  <2>1. m = 1 /\ n = 36
    BY <1>4, <1>6, <1>8
  <2>2. \A k \in 1 .. 36 : Trimmed(t)[k] = t[k]
    BY <1>1, <1>4, <2>1
  <2>3. ASSUME NEW i \in 1 .. 16
        PROVE  Denoted(Trimmed(t))[i] = Parsed(t)[i]
    <3> DEFINE c == t[DigitsOf[i]]
               d == t[DigitsOf[i] + 1]
    <3>1. /\ DigitsOf[i] \in 1 .. 36 \ Hyphens /\ DigitsOf[i] + 1 \in 1 .. 36 \ Hyphens
      BY PlacesOfText
    <3>2. c \in HexDigits /\ d \in HexDigits
      BY <1>1, <2>2, <3>1 DEF IsHusk
    <3>3. Denoted(Trimmed(t))[i] = 16 * HexValue(c) + HexValue(d)
      <4>1. Denoted(Trimmed(t))[i] = 16 * HexValue(Trimmed(t)[DigitsOf[i]])
                                      + HexValue(Trimmed(t)[DigitsOf[i] + 1])
        BY Layout DEF Denoted
      <4> QED BY <2>2, <3>1, <4>1
    <3>4. Parsed(t)[i] = Joined(Digit(c), Digit(d))
      BY DEF Parsed
    <3> HIDE DEF c, d
    <3>5. /\ Digit(c) = HexValue(c) /\ HexValue(c) \in 0 .. 15
          /\ Digit(d) = HexValue(d) /\ HexValue(d) \in 0 .. 15
      BY <3>2, DigitIs
    <3>6. Parsed(t)[i] = 16 * HexValue(c) + HexValue(d)
      BY <3>4, <3>5, JoinedIs
    <3> QED BY <3>3, <3>6
  <2>4. Parsed(t) = [i \in 1 .. 16 |-> Parsed(t)[i]]
    BY DEF Parsed
  <2>5. Denoted(Trimmed(t)) = [i \in 1 .. 16 |-> Denoted(Trimmed(t))[i]]
    BY DEF Denoted
  <2> QED BY <2>3, <2>4, <2>5
<1> QED BY <1>1, <1>5, <1>7, <1>8

\* What the constructor makes of what it is given.
BytesOf(g) == IF Len(g) = 16 THEN g ELSE Parsed(g)

\* What an object can be made from.
Sources == {raw \in Raws : ValidBytes(raw)} \cup ValidTexts

Privates == {Filled(BytesOf(g)) : g \in Sources}

UuidTypeOK ==
    /\ uuidPd \in [Ids -> Nat]
    /\ given \in [Ids -> Sources \cup {<<>>}]
    /\ blocks \in Seq(Privates)
    /\ \A o \in Ids : uuidPd[o] <= Len(blocks)

\* Private data that an object points to is that of what it was made from.
ShowsGiven ==
    \A o \in Ids : uuidPd[o] # 0 =>
        given[o] \in Sources /\ blocks[uuidPd[o]] = Filled(BytesOf(given[o]))

\* No two objects point to the same.
OwnPrivates == \A o, p \in Ids : uuidPd[o] # 0 /\ uuidPd[o] = uuidPd[p] => o = p

\* The inductive invariant.
UuidInv == UuidTypeOK /\ ShowsGiven /\ OwnPrivates

\* There are no objects at first.
LEMMA InitUuidInv == UuidInit => UuidInv
<1> SUFFICES ASSUME UuidInit PROVE UuidInv
  OBVIOUS
<1>1. uuidPd \in [Ids -> Nat] /\ \A o \in Ids : uuidPd[o] = 0
  BY DEF UuidInit
<1>2. given \in [Ids -> Sources \cup {<<>>}]
  BY DEF UuidInit
<1>3. blocks \in Seq(Privates) /\ Len(blocks) = 0
  BY DEF UuidInit
<1> QED BY <1>1, <1>2, <1>3 DEF UuidInv, UuidTypeOK, ShowsGiven, OwnPrivates

\* An object that is made from g gets private data of its own.
LEMMA Allocated ==
    ASSUME UuidInv, NEW o \in Ids, NEW g \in Sources,
           Allocates(o, Filled(BytesOf(g))), given' = [given EXCEPT ![o] = g]
    PROVE  UuidInv'
<1>0. /\ uuidPd \in [Ids -> Nat] /\ given \in [Ids -> Sources \cup {<<>>}]
      /\ blocks \in Seq(Privates)
      /\ \A p \in Ids : uuidPd[p] <= Len(blocks)
  BY DEF UuidInv, UuidTypeOK
<1> PICK l \in Nat : l = Len(blocks)
  BY <1>0
<1>1. blocks' = Append(blocks, Filled(BytesOf(g))) /\ Filled(BytesOf(g)) \in Privates
  BY DEF Allocates, Privates
<1>2. /\ blocks' \in Seq(Privates) /\ Len(blocks') = l + 1
      /\ blocks'[l + 1] = Filled(BytesOf(g))
      /\ \A i \in 1 .. l : blocks'[i] = blocks[i]
  BY <1>0, <1>1
<1>3. uuidPd' = [uuidPd EXCEPT ![o] = l + 1]
  BY <1>2 DEF Allocates
<1>4. /\ uuidPd' \in [Ids -> Nat] /\ uuidPd'[o] = l + 1
      /\ \A p \in Ids \ {o} : uuidPd'[p] = uuidPd[p]
  BY <1>0, <1>3
<1>5. /\ given' \in [Ids -> Sources \cup {<<>>}] /\ given'[o] = g
      /\ \A p \in Ids \ {o} : given'[p] = given[p]
  BY <1>0
<1>6. \A p \in Ids \ {o} : uuidPd'[p] # 0 => uuidPd'[p] \in 1 .. l
  BY <1>0, <1>4
<1>7. UuidTypeOK'
  <2>1. \A p \in Ids : uuidPd'[p] <= l + 1
    BY <1>0, <1>4
  <2> QED BY <1>2, <1>4, <1>5, <2>1 DEF UuidTypeOK
<1>8. ShowsGiven'
  <2>1. ASSUME NEW p \in Ids, uuidPd'[p] # 0
        PROVE  given'[p] \in Sources /\ blocks'[uuidPd'[p]] = Filled(BytesOf(given'[p]))
    <3>1. CASE p = o
      BY <1>2, <1>4, <1>5, <3>1
    <3>2. CASE p # o
      BY <1>2, <1>4, <1>5, <1>6, <2>1, <3>2 DEF UuidInv, ShowsGiven
    <3> QED BY <3>1, <3>2
  <2> QED BY <2>1 DEF ShowsGiven
<1>9. OwnPrivates'
  BY <1>4, <1>6 DEF UuidInv, OwnPrivates
<1> QED BY <1>7, <1>8, <1>9 DEF UuidInv

\* Assignment writes to the object's own private data.
LEMMA Assigned ==
    ASSUME UuidInv, NEW o \in Ids, NEW p \in Ids, UuidAssign(o, p)
    PROVE  UuidInv'
<1>0. /\ uuidPd \in [Ids -> Nat] /\ given \in [Ids -> Sources \cup {<<>>}]
      /\ blocks \in Seq(Privates)
      /\ \A q \in Ids : uuidPd[q] <= Len(blocks)
  BY DEF UuidInv, UuidTypeOK
<1> PICK l \in Nat : l = Len(blocks)
  BY <1>0
<1>1. /\ uuidPd[o] \in 1 .. l /\ uuidPd[p] \in 1 .. l /\ uuidPd' = uuidPd
      /\ given[p] \in Sources /\ blocks[uuidPd[p]] = Filled(BytesOf(given[p]))
  BY <1>0 DEF UuidAssign, UuidInv, ShowsGiven
<1>2. blocks' = [blocks EXCEPT ![uuidPd[o]] = Filled(BytesOf(given[p]))]
  BY <1>1 DEF UuidAssign
<1>3. Filled(BytesOf(given[p])) \in Privates
  BY <1>1 DEF Privates
<1>4. /\ blocks' \in Seq(Privates) /\ Len(blocks') = l
      /\ blocks'[uuidPd[o]] = Filled(BytesOf(given[p]))
      /\ \A i \in 1 .. l : i # uuidPd[o] => blocks'[i] = blocks[i]
  BY <1>0, <1>1, <1>2, <1>3
<1>5. /\ given' \in [Ids -> Sources \cup {<<>>}] /\ given'[o] = given[p]
      /\ \A q \in Ids \ {o} : given'[q] = given[q]
  BY <1>0 DEF UuidAssign
<1>6. UuidTypeOK'
  BY <1>0, <1>1, <1>4, <1>5 DEF UuidTypeOK
<1>7. ShowsGiven'
  <2>1. ASSUME NEW q \in Ids, uuidPd'[q] # 0
        PROVE  given'[q] \in Sources /\ blocks'[uuidPd'[q]] = Filled(BytesOf(given'[q]))
    <3>1. CASE q = o
      BY <1>1, <1>4, <1>5, <3>1
    <3>2. CASE q # o
      <4>1. uuidPd[q] # uuidPd[o] /\ uuidPd[q] \in 1 .. l
        BY <1>0, <1>1, <2>1, <3>2 DEF UuidInv, OwnPrivates
      <4> QED BY <1>1, <1>4, <1>5, <2>1, <3>2, <4>1 DEF UuidInv, ShowsGiven
    <3> QED BY <3>1, <3>2
  <2> QED BY <2>1 DEF ShowsGiven
<1>8. OwnPrivates'
  BY <1>1 DEF UuidInv, OwnPrivates
<1> QED BY <1>6, <1>7, <1>8 DEF UuidInv

\* An object that ends leaves its private data behind.
LEMMA Destroyed ==
    ASSUME UuidInv, NEW o \in Ids, UuidDestroy(o)
    PROVE  UuidInv'
<1>0. /\ uuidPd \in [Ids -> Nat] /\ given \in [Ids -> Sources \cup {<<>>}]
      /\ blocks \in Seq(Privates)
      /\ \A q \in Ids : uuidPd[q] <= Len(blocks)
  BY DEF UuidInv, UuidTypeOK
<1>1. /\ uuidPd' \in [Ids -> Nat] /\ uuidPd'[o] = 0 /\ blocks' = blocks
      /\ \A q \in Ids \ {o} : uuidPd'[q] = uuidPd[q]
  BY <1>0 DEF UuidDestroy
<1>2. /\ given' \in [Ids -> Sources \cup {<<>>}]
      /\ \A q \in Ids \ {o} : given'[q] = given[q]
  BY <1>0 DEF UuidDestroy
<1>3. UuidTypeOK'
  <2>1. Len(blocks) \in Nat
    BY <1>0
  <2>2. \A q \in Ids : uuidPd'[q] <= Len(blocks')
    BY <1>0, <1>1, <2>1
  <2> QED BY <1>0, <1>1, <1>2, <2>2 DEF UuidTypeOK
<1>4. ShowsGiven'
  BY <1>1, <1>2 DEF UuidInv, ShowsGiven
<1>5. OwnPrivates'
  BY <1>1 DEF UuidInv, OwnPrivates
<1> QED BY <1>3, <1>4, <1>5 DEF UuidInv

\* Every call keeps the invariant.
LEMMA UuidStep == UuidInv /\ [UuidNext]_uuidVars => UuidInv'
<1> SUFFICES ASSUME UuidInv, [UuidNext]_uuidVars PROVE UuidInv'
  OBVIOUS
<1>1. ASSUME NEW o \in Ids, NEW t \in UuidTexts, FromText(o, t) PROVE UuidInv'
  <2>1. t \in Sources /\ BytesOf(t) = Parsed(t)
    BY <1>1, TextIsRead DEF FromText, Sources, BytesOf
  <2> QED BY <1>1, <2>1, Allocated DEF FromText
<1>2. ASSUME NEW o \in Ids, NEW raw \in Raws, FromBytes(o, raw) PROVE UuidInv'
  <2>1. Len(raw) = 16
    BY UuidAssumption
  <2>2. raw \in Sources /\ BytesOf(raw) = raw
    BY <1>2, <2>1 DEF FromBytes, Sources, BytesOf
  <2> QED BY <1>2, <2>2, Allocated DEF FromBytes
<1>3. ASSUME NEW o \in Ids, NEW p \in Ids, UuidCopy(o, p) PROVE UuidInv'
  <2>1. given[p] \in Sources /\ blocks[uuidPd[p]] = Filled(BytesOf(given[p]))
    BY <1>3 DEF UuidCopy, UuidInv, ShowsGiven
  <2>2. Allocates(o, Filled(BytesOf(given[p]))) /\ given' = [given EXCEPT ![o] = given[p]]
    BY <1>3, <2>1 DEF UuidCopy
  <2> QED BY <2>1, <2>2, Allocated
<1>4. ASSUME UNCHANGED uuidVars PROVE UuidInv'
  BY <1>4 DEF uuidVars, UuidInv, UuidTypeOK, ShowsGiven, OwnPrivates
<1> QED BY <1>1, <1>2, <1>3, <1>4, Assigned, Destroyed DEF UuidNext, Unfit, UnfitBytes

\* What an object can be made from, as the bytes it gives.
LEMMA SourceGives ==
    ASSUME NEW g \in Sources
    PROVE  /\ BytesOf(g) \in ByteArrays
           /\ Len(g) = 16 => BytesOf(g) = g
           /\ Len(g) # 16 /\ ~BlanksInFront(g) => BytesOf(g) = Denoted(Trimmed(g))
<1>1. CASE g \in Raws
  <2>1. g \in [1 .. 16 -> 0 .. 255]
    BY <1>1, UuidAssumption
  <2>2. Len(g) = 16
    BY <2>1
  <2> QED BY <2>1, <2>2 DEF BytesOf, ByteArrays
<1>2. CASE g \in ValidTexts
  <2>1. Len(g) > 16 /\ Len(g) # 16
    BY <1>2, TextIsRead
  <2>2. BytesOf(g) = Parsed(g) /\ Parsed(g) \in ByteArrays
    BY <2>1, ParsedIsBytes DEF BytesOf
  <2>3. ~BlanksInFront(g) => Denoted(Trimmed(g)) = Parsed(g)
    BY <1>2, <2>1, TextIsRead DEF BlanksInFront
  <2> QED BY <2>1, <2>2, <2>3
<1> QED BY <1>1, <1>2 DEF Sources

\* The invariant says what an object shows.
LEMMA UuidInvIsEnough == UuidInv => UuidIsFaithful
<1> SUFFICES ASSUME UuidInv, NEW o \in Ids, uuidPd[o] # 0
             PROVE  /\ Denoted(PrivData(o).str) = PrivData(o).data /\ IsHusk(PrivData(o).str)
                    /\ VersionOf(PrivData(o).data) =
                        (IF PrivData(o).str[15] \in 49 .. 53 THEN PrivData(o).str[15] - 48
                         ELSE 0)
                    /\ \A p \in Ids : uuidPd[p] # 0 /\ given[p] = given[o] =>
                        PrivData(p).data = PrivData(o).data
                    /\ Len(given[o]) = 16 => PrivData(o).data = given[o]
                    /\ Len(given[o]) # 16 /\ ~BlanksInFront(given[o]) =>
                        PrivData(o).data = Denoted(Trimmed(given[o]))
  BY DEF UuidIsFaithful
<1> DEFINE it == BytesOf(given[o])
<1>1. ASSUME NEW p \in Ids, uuidPd[p] # 0
      PROVE  given[p] \in Sources /\ PrivData(p) = Filled(BytesOf(given[p]))
  BY <1>1 DEF UuidInv, ShowsGiven, PrivData
<1>2. given[o] \in Sources /\ PrivData(o).data = it /\ PrivData(o).str = MkStr(it)
  BY <1>1 DEF Filled
<1>3. \A p \in Ids : uuidPd[p] # 0 /\ given[p] = given[o] => PrivData(p).data = it
  BY <1>1 DEF Filled
<1>4. /\ it \in ByteArrays
      /\ Len(given[o]) = 16 => it = given[o]
      /\ Len(given[o]) # 16 /\ ~BlanksInFront(given[o]) => it = Denoted(Trimmed(given[o]))
  BY <1>2, SourceGives
<1> HIDE DEF it
<1>5. /\ Denoted(MkStr(it)) = it /\ IsHusk(MkStr(it))
      /\ VersionOf(it) = IF MkStr(it)[15] \in 49 .. 53 THEN MkStr(it)[15] - 48 ELSE 0
  BY <1>4, StringDenotes, VersionShows
<1> QED BY <1>2, <1>3, <1>4, <1>5

\* The invariant holds always.
THEOREM UuidInvariance == UuidSpec => []UuidInv
BY InitUuidInv, UuidStep, PTL DEF UuidSpec

\* Objects point to private data that was allocated, and the data is what a valid
\* text or valid bytes give.
THEOREM UuidTypeCorrect == UuidSpec => []UuidTypeOK
<1>1. UuidInv => UuidTypeOK
  BY DEF UuidInv
<1> QED BY <1>1, UuidInvariance, PTL

\* Through all copying and assigning, for any number of objects and whatever texts
\* and bytes there are, an object shows one identifier as text, bytes and version,
\* and the same one as all objects that were made from the same; it is the one that
\* was given, except for a text with blanks in front.
THEOREM UuidsAreFaithful == UuidSpec => []UuidIsFaithful
BY UuidInvIsEnough, UuidInvariance, PTL
==============================================================================
