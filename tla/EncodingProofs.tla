---------------------------- MODULE EncodingProofs ----------------------------
(***************************************************************************)
(* Theorems about base64: what the decoder has written (module             *)
(* Base64Decoder), what the encoder has (module Base64Encoder), and who    *)
(* owns the BIOs of both (module BioPair).                                 *)
(*                                                                         *)
(* Bytes and characters are numbered as they are fed, so that what a       *)
(* filter has seen is a sequence of consecutive numbers.  Pieces of such   *)
(* sequences, and what stands behind them, are numbers again: that is why  *)
(* it does not matter where a program cuts what it feeds.                  *)
(***************************************************************************)
EXTENDS Base64Encoder, Base64Decoder, BioPair, SequenceTheorems, TLAPS

\* m numbers that follow a.
Numbers(a, m) == [i \in 1 .. m |-> a + i]

\* Numbers are a sequence.
LEMMA NumbersType ==
    ASSUME NEW a \in Nat, NEW m \in Nat
    PROVE  /\ Numbers(a, m) \in Seq(Nat)
           /\ Len(Numbers(a, m)) = m
           /\ \A i \in 1 .. m : Numbers(a, m)[i] = a + i
BY DEF Numbers

\* y behind x.  The facts about \o that are cited here are stated of this operator.
Then(x, y) == x \o y

\* It is a sequence as long as both.
LEMMA ThenType ==
    ASSUME NEW S, NEW x \in Seq(S), NEW y \in Seq(S)
    PROVE  Then(x, y) \in Seq(S) /\ Len(Then(x, y)) = Len(x) + Len(y)
BY ConcatProperties DEF Then

\* The elements of u elements and of v behind them.
Joined(S, x, y, u, v) ==
    /\ Then(x, y) \in Seq(S) /\ Len(Then(x, y)) = u + v
    /\ \A i \in 1 .. u + v : Then(x, y)[i] = IF i <= u THEN x[i] ELSE y[i - u]

\* They are those of the one, and of the other.
LEMMA ThenElements ==
    ASSUME NEW S, NEW x \in Seq(S), NEW y \in Seq(S), NEW u, NEW v, Len(x) = u, Len(y) = v
    PROVE  Joined(S, x, y, u, v)
BY ConcatProperties DEF Then, Joined

\* It does not matter which two are joined first.
LEMMA ThenAssociates ==
    ASSUME NEW S, NEW x \in Seq(S), NEW y \in Seq(S), NEW z \in Seq(S)
    PROVE  Then(Then(x, y), z) = Then(x, Then(y, z))
BY ConcatAssociative DEF Then

\* Numbers that follow numbers.
LEMMA NumbersConcat ==
    ASSUME NEW a \in Nat, NEW m \in Nat, NEW n \in Nat,
           NEW b \in Nat, b = a + m, NEW l \in Nat, l = m + n
    PROVE  Then(Numbers(a, m), Numbers(b, n)) = Numbers(a, l)
<1> DEFINE s == Numbers(a, m)
           t == Numbers(b, n)
           st == Numbers(a, l)
<1>1. s \in Seq(Nat) /\ Len(s) = m /\ \A i \in 1 .. m : s[i] = a + i
  BY NumbersType
<1>2. t \in Seq(Nat) /\ Len(t) = n /\ \A i \in 1 .. n : t[i] = b + i
  BY NumbersType
<1>3. st \in Seq(Nat) /\ Len(st) = m + n /\ \A i \in 1 .. m + n : st[i] = a + i
  BY NumbersType
<1> HIDE DEF s, t, st
<1>4. s \o t \in Seq(Nat) /\ Len(s \o t) = m + n
  BY <1>1, <1>2, ConcatProperties
<1>5. ASSUME NEW i \in 1 .. m + n PROVE (s \o t)[i] = st[i]
  <2>1. CASE i <= m
    <3>1. (s \o t)[i] = s[i]
      BY <1>1, <1>2, <2>1, ConcatProperties
    <3> QED BY <1>1, <1>3, <2>1, <3>1
  <2>2. CASE i > m
    <3>1. (s \o t)[i] = t[i - m]
      BY <1>1, <1>2, <2>2, ConcatProperties
    <3>2. i - m \in 1 .. n /\ b + (i - m) = a + i
      BY <2>2
    <3>3. t[i - m] = b + (i - m) /\ st[i] = a + i
      BY <1>2, <1>3, <3>2
    <3> QED BY <3>1, <3>2, <3>3
  <2>3. i <= m \/ i > m
    OBVIOUS
  <2> QED BY <2>1, <2>2, <2>3
<1>6. s \o t = st
  BY <1>3, <1>4, <1>5, SeqEqual
<1> QED BY <1>6 DEF s, t, st, Then

\* A piece of a sequence.
Piece(s, h, t) == SubSeq(s, h, t)

\* A piece of numbers.
LEMMA NumbersPiece ==
    ASSUME NEW a \in Nat, NEW m \in Nat, NEW h \in Nat, NEW t \in Nat,
           1 <= h, h <= t + 1, t <= m,
           NEW e \in Nat, e = a + h - 1, NEW l \in Nat, l = t - h + 1
    PROVE  Piece(Numbers(a, m), h, t) = Numbers(e, l)
<1>0. e \in Nat /\ l \in Nat
  OBVIOUS
<1> DEFINE s == Numbers(a, m)
           u == Numbers(e, l)
<1>1. s \in Seq(Nat) /\ Len(s) = m /\ \A i \in 1 .. m : s[i] = a + i
  BY NumbersType
<1>2. u \in Seq(Nat) /\ Len(u) = l /\ \A i \in 1 .. l : u[i] = e + i
  BY <1>0, NumbersType
<1> HIDE DEF s, u
<1>3. \A i \in h .. t : s[i] \in Nat
  BY <1>0, <1>1
<1>4. /\ SubSeq(s, h, t) \in Seq(Nat)
      /\ Len(SubSeq(s, h, t)) = IF h <= t THEN t - h + 1 ELSE 0
      /\ \A i \in 1 .. t - h + 1 : SubSeq(s, h, t)[i] = s[h + i - 1]
  BY <1>0, <1>3, SubSeqProperties
<1>5. Len(SubSeq(s, h, t)) = l
  BY <1>0, <1>4
<1>6. ASSUME NEW i \in 1 .. l PROVE SubSeq(s, h, t)[i] = u[i]
  <2>1. i \in 1 .. t - h + 1 /\ h + i - 1 \in 1 .. m
    BY <1>0
  <2>2. a + (h + i - 1) = e + i
    OBVIOUS
  <2> QED BY <1>1, <1>2, <1>4, <2>1, <2>2
<1>7. SubSeq(s, h, t) = u
  BY <1>2, <1>4, <1>5, <1>6, SeqEqual
<1> QED BY <1>7 DEF s, u, Piece

------------------------------------------------------------------------------
\* The decoder.

\* What a byte is.
DecBytes == [quad : Seq(Nat), place : Int, alphabet : {"PLAIN"}]

\* The byte at place s of the quad that follows number e.
ByteOf(e, s) == [quad |-> Numbers(e, 4), place |-> s, alphabet |-> "PLAIN"]

\* It is a byte.
LEMMA ByteOfType ==
    ASSUME NEW e \in Nat, NEW s \in 1 .. 3
    PROVE  ByteOf(e, s) \in DecBytes
<1>1. 4 \in Nat /\ s \in Int
  OBVIOUS
<1>2. Numbers(e, 4) \in Seq(Nat)
  BY <1>1, NumbersType
<1> QED BY <1>1, <1>2 DEF ByteOf, DecBytes

\* A sequence of bytes counted in quads.
LEMMA BytePlace ==
    ASSUME NEW k \in Nat, NEW b \in 1 .. 3 * k
    PROVE  \E q \in 0 .. k - 1, s \in 1 .. 3 : b = 3 * q + s
<1>1. (b - 1) \div 3 \in 0 .. k - 1 /\ b - 3 * ((b - 1) \div 3) \in 1 .. 3
  OBVIOUS
<1> QED BY <1>1

\* The bytes of k quads that follow number a.
QuadsAre(bytes, a, k) ==
    /\ bytes \in Seq(DecBytes)
    /\ Len(bytes) = 3 * k
    /\ \A q \in 0 .. k - 1, s \in 1 .. 3 : bytes[3 * q + s] = ByteOf(a + 4 * q, s)

\* That says which bytes they are.
LEMMA QuadsEqual ==
    ASSUME NEW x, NEW y, NEW a \in Nat, NEW k \in Nat, QuadsAre(x, a, k), QuadsAre(y, a, k)
    PROVE  x = y
<1>1. /\ x \in Seq(DecBytes) /\ y \in Seq(DecBytes) /\ Len(x) = Len(y) /\ Len(x) = 3 * k
  BY DEF QuadsAre
<1>2. ASSUME NEW b \in 1 .. Len(x) PROVE x[b] = y[b]
  <2>1. b \in 1 .. 3 * k
    BY <1>1
  <2> PICK q \in 0 .. k - 1, s \in 1 .. 3 : b = 3 * q + s
    BY <2>1, BytePlace
  <2> QED BY DEF QuadsAre
<1> QED BY <1>1, <1>2, SeqEqual

\* Quads behind quads.
LEMMA QuadsBehind ==
    ASSUME NEW x, NEW y, NEW a \in Nat, NEW k \in Nat, NEW j \in Nat,
           NEW e, e = a + 4 * k, NEW l, l = k + j,
           QuadsAre(x, a, k), QuadsAre(y, e, j)
    PROVE  QuadsAre(Then(x, y), a, l)
<1>1. x \in Seq(DecBytes) /\ y \in Seq(DecBytes) /\ Len(x) = 3 * k /\ Len(y) = 3 * j
  BY DEF QuadsAre
<1> PICK u \in Nat : u = 3 * k
  OBVIOUS
<1> PICK v \in Nat : v = 3 * j
  OBVIOUS
<1>2. /\ x \o y \in Seq(DecBytes) /\ Len(x \o y) = u + v
      /\ \A i \in 1 .. u + v : (x \o y)[i] = IF i <= u THEN x[i] ELSE y[i - u]
  <2>1. Len(x) = u /\ Len(y) = v
    BY <1>1
  <2>2. Joined(DecBytes, x, y, u, v)
    BY <1>1, <2>1, ThenElements
  <2> QED BY <2>2 DEF Joined, Then
<1>3. u + v = 3 * l
  OBVIOUS
<1>4. ASSUME NEW q \in 0 .. l - 1, NEW s \in 1 .. 3
      PROVE  (x \o y)[3 * q + s] = ByteOf(a + 4 * q, s)
  <2> PICK b \in Nat : b = 3 * q + s
    OBVIOUS
  <2>1. CASE q < k
    <3>1. b \in 1 .. u /\ q \in 0 .. k - 1
      BY <2>1
    <3>2. (x \o y)[b] = x[b]
      BY <1>2, <3>1
    <3>3. x[3 * q + s] = ByteOf(a + 4 * q, s)
      BY <3>1 DEF QuadsAre
    <3> QED BY <3>2, <3>3
  <2>2. CASE q >= k
    <3> PICK p \in 0 .. j - 1 : p = q - k
      BY <2>2
    <3>1. b - u = 3 * p + s /\ b \in 1 .. u + v /\ ~(b <= u)
      BY <2>2
    <3>2. (x \o y)[b] = y[b - u]
      BY <1>2, <3>1
    <3>3. y[3 * p + s] = ByteOf(e + 4 * p, s)
      BY DEF QuadsAre
    <3>4. e + 4 * p = a + 4 * q
      OBVIOUS
    <3>5. b = 3 * q + s
      OBVIOUS
    <3> QED BY <3>1, <3>2, <3>3, <3>4, <3>5
  <2>3. q < k \/ q >= k
    OBVIOUS
  <2> QED BY <2>1, <2>2, <2>3
<1>5. l \in Nat
  OBVIOUS
<1>6. QuadsAre(x \o y, a, l)
  BY <1>2, <1>3, <1>4, <1>5 DEF QuadsAre
<1> QED BY <1>6 DEF Then

\* What QuadBytes makes of numbers.
LEMMA QuadsOfNumbers ==
    ASSUME NEW a \in Nat, NEW m \in Nat, NEW k \in Nat, 4 * k <= m, m <= 4 * k + 3
    PROVE  QuadsAre(QuadBytes(Numbers(a, m), "PLAIN"), a, k)
<1> DEFINE Q == QuadBytes(Numbers(a, m), "PLAIN")
<1>0. m \div 4 = k
  OBVIOUS
<1>1. Len(Numbers(a, m)) = m
  BY NumbersType
<1>2. Q = [b \in 1 .. 3 * k |->
            LET q == (b - 1) \div 3
            IN  [quad |-> SubSeq(Numbers(a, m), 4 * q + 1, 4 * q + 4),
                 place |-> b - 3 * q, alphabet |-> "PLAIN"]]
  BY <1>0, <1>1 DEF QuadBytes
<1>3. ASSUME NEW q \in 0 .. k - 1, NEW s \in 1 .. 3
      PROVE  Q[3 * q + s] = ByteOf(a + 4 * q, s)
  <2> PICK b \in Nat : b = 3 * q + s
    OBVIOUS
  <2>1. b \in 1 .. 3 * k
    OBVIOUS
  <2>2. (b - 1) \div 3 = q
    OBVIOUS
  <2>3. SubSeq(Numbers(a, m), 4 * q + 1, 4 * q + 4) = Numbers(a + 4 * q, 4)
    <3> PICK h \in Nat : h = 4 * q + 1
      OBVIOUS
    <3> PICK t \in Nat : t = 4 * q + 4
      OBVIOUS
    <3> PICK e \in Nat : e = a + 4 * q
      OBVIOUS
    <3>1. 1 <= h /\ h <= t + 1 /\ t <= m /\ e = a + h - 1 /\ 4 = t - h + 1 /\ 4 \in Nat
      OBVIOUS
    <3>2. Piece(Numbers(a, m), h, t) = Numbers(e, 4)
      BY <3>1, NumbersPiece
    <3> QED BY <3>2 DEF Piece
  <2>4. b - 3 * q = s
    OBVIOUS
  <2>5. Q[b] = [quad |-> SubSeq(Numbers(a, m), 4 * ((b - 1) \div 3) + 1,
                                4 * ((b - 1) \div 3) + 4),
                place |-> b - 3 * ((b - 1) \div 3), alphabet |-> "PLAIN"]
    BY <1>2, <2>1
  <2> HIDE DEF Q
  <2>6. Q[b] = [quad |-> Numbers(a + 4 * q, 4), place |-> s, alphabet |-> "PLAIN"]
    BY <2>2, <2>3, <2>4, <2>5
  <2> QED BY <2>6 DEF ByteOf
<1>4. ASSUME NEW b \in 1 .. 3 * k PROVE Q[b] \in DecBytes
  <2> PICK q \in 0 .. k - 1, s \in 1 .. 3 : b = 3 * q + s
    BY BytePlace
  <2>1. a + 4 * q \in Nat
    OBVIOUS
  <2>2. Q[3 * q + s] = ByteOf(a + 4 * q, s)
    BY <1>3
  <2> HIDE DEF Q
  <2> QED BY <2>1, <2>2, ByteOfType
<1>5. Q \in Seq(DecBytes) /\ Len(Q) = 3 * k
  <2> PICK l \in Nat : l = 3 * k
    OBVIOUS
  <2>1. Q \in [1 .. l -> DecBytes]
    BY <1>2, <1>4
  <2> HIDE DEF Q
  <2> QED BY <2>1
<1> HIDE DEF Q
<1>6. QuadsAre(Q, a, k)
  BY <1>3, <1>5 DEF QuadsAre
<1> QED BY <1>6 DEF Q

\* And what is left over.
LEMMA LeftOfNumbers ==
    ASSUME NEW a \in Nat, NEW m \in Nat, NEW e \in Nat, NEW r \in 0 .. 3,
           NEW k \in Nat, m = 4 * k + r, e = a + 4 * k
    PROVE  LeftOver(Numbers(a, m)) = Numbers(e, r)
<1>1. m \div 4 = k
  OBVIOUS
<1>2. Len(Numbers(a, m)) = m
  BY NumbersType
<1> PICK h \in Nat : h = 4 * k + 1
  OBVIOUS
<1>3. LeftOver(Numbers(a, m)) = Piece(Numbers(a, m), h, m)
  BY <1>1, <1>2 DEF LeftOver, Piece
<1>4. 1 <= h /\ h <= m + 1 /\ e = a + h - 1 /\ r = m - h + 1
  OBVIOUS
<1>5. Piece(Numbers(a, m), h, m) = Numbers(e, r)
  BY <1>4, NumbersPiece
<1> QED BY <1>3, <1>5

\* x and y are the two pieces of s, of which x has room for n.
InTwo(S, s, l, n, x, y) ==
    /\ x \in Seq(S) /\ y \in Seq(S)
    /\ Then(x, y) = s
    /\ l <= n => y = <<>>
    /\ l > n => Len(y) = l - n

\* First and Behind cut a sequence in two.
LEMMA CutInTwo ==
    ASSUME NEW S, NEW s \in Seq(S), NEW n \in Nat, NEW l \in Nat, Len(s) = l
    PROVE  InTwo(S, s, l, n, First(s, n), Behind(s, n))
<1>1. CASE l <= n
  <2>1. First(s, n) = s
    <3>1. First(s, n) = SubSeq(s, 1, Len(s))
      BY <1>1 DEF First
    <3> QED BY <3>1, SubSeqFull
  <2>2. Behind(s, n) = <<>>
    BY <1>1, SubSeqEmpty DEF Behind
  <2>3. <<>> \in Seq(S) /\ s \o <<>> = s
    BY ConcatEmptySeq
  <2> QED BY <1>1, <2>1, <2>2, <2>3 DEF InTwo, Then
<1>2. CASE l > n
  <2> DEFINE x == First(s, n)
             y == Behind(s, n)
  <2>1. First(s, n) = SubSeq(s, 1, n) /\ Behind(s, n) = SubSeq(s, n + 1, l)
    BY <1>2 DEF First, Behind
  <2>2. \A i \in 1 .. l : s[i] \in S
    OBVIOUS
  <2>3. SubSeq(s, 1, n) \in Seq(S)
    <3>1. \A i \in 1 .. n : s[i] \in S
      BY <1>2, <2>2
    <3> QED BY <3>1, SubSeqProperties
  <2>4. SubSeq(s, n + 1, l) \in Seq(S) /\ Len(SubSeq(s, n + 1, l)) = l - n
    <3>1. \A i \in n + 1 .. l : s[i] \in S
      BY <2>2
    <3>2. n + 1 \in Int /\ l \in Int /\ n + 1 <= l /\ l - (n + 1) + 1 = l - n
      BY <1>2
    <3> QED BY <3>1, <3>2, SubSeqProperties
  <2>5. SubSeq(s, 1, n) \o SubSeq(s, n + 1, l) = SubSeq(s, 1, l)
    <3>1. 1 \in 1 .. Len(s) + 1 /\ n \in 1 - 1 .. Len(s) /\ l \in n .. Len(s)
      BY <1>2
    <3> QED BY <3>1, ConcatAdjacentSubSeq
  <2>6. SubSeq(s, 1, l) = s
    BY SubSeqFull
  <2>7. x \in Seq(S) /\ y \in Seq(S) /\ x \o y = s /\ Len(y) = l - n
    BY <2>1, <2>3, <2>4, <2>5, <2>6
  <2> HIDE DEF x, y
  <2>8. InTwo(S, s, l, n, x, y)
    BY <1>2, <2>7 DEF InTwo, Then
  <2> QED BY <2>8 DEF x, y
<1>3. l <= n \/ l > n
  OBVIOUS
<1> QED BY <1>1, <1>2, <1>3


\* What has come out, what waits to, and what the filter keeps, of c characters:
\* all quads that there are have come out, or wait behind a result that was too
\* small for them.
Exactly(out, wait, keep, c, k, r) ==
    /\ out \in Seq(DecBytes) /\ wait \in Seq(DecBytes)
    /\ c = 4 * k + r
    /\ QuadsAre(Then(out, wait), 0, k)
    /\ keep = Numbers(4 * k, r)

\* They are not many: a feed of three characters or more makes up for what it brings.
Light(wait, keep) == 4 * Len(wait) + 3 * Len(keep) <= 9

\* n characters that follow number c, which the filter sees behind r that follow
\* number e, are m, and make j quads and t characters that follow number f.
Counted(e, r, c, n, m, j, t, f) ==
    c = e + r /\ m = r + n /\ m = 4 * j + t /\ f = e + 4 * j

\* The bytes of the quads, and the characters.
Made(e, r, c, n, j, t, f) ==
    /\ QuadsAre(QuadBytes(Then(Numbers(e, r), Numbers(c, n)), "PLAIN"), e, j)
    /\ LeftOver(Then(Numbers(e, r), Numbers(c, n))) = Numbers(f, t)

\* What a feed makes of the characters that the filter sees.
LEMMA FeedMakes ==
    ASSUME NEW e \in Nat, NEW r \in Nat, NEW c \in Nat, NEW n \in Nat, NEW m \in Nat,
           NEW j \in Nat, NEW t \in 0 .. 3, NEW f \in Nat, Counted(e, r, c, n, m, j, t, f)
    PROVE  Made(e, r, c, n, j, t, f)
<1>0. c = e + r /\ m = r + n /\ m = 4 * j + t /\ f = e + 4 * j
  BY DEF Counted
<1>1. Then(Numbers(e, r), Numbers(c, n)) = Numbers(e, m)
  BY <1>0, NumbersConcat
<1>2. QuadsAre(QuadBytes(Numbers(e, m), "PLAIN"), e, j)
  <2>1. 4 * j <= m /\ m <= 4 * j + 3
    BY <1>0
  <2> QED BY <2>1, QuadsOfNumbers
<1>3. LeftOver(Numbers(e, m)) = Numbers(f, t)
  BY <1>0, LeftOfNumbers
<1> QED BY <1>1, <1>2, <1>3 DEF Made

\* k quads, j quads behind them, from number e on, which are l together; of the
\* bytes, z have not come out.
Waiting(wait, k, j, e, l, z) == e = 4 * k /\ l = k + j /\ z = Len(wait) + 3 * j

\* What has come out, with the first n of the bytes, and those behind them.
CutAt(out, bytes, n, l, z) ==
    /\ Then(out, First(bytes, n)) \in Seq(DecBytes) /\ Behind(bytes, n) \in Seq(DecBytes)
    /\ QuadsAre(Then(Then(out, First(bytes, n)), Behind(bytes, n)), 0, l)
    /\ z <= n => Behind(bytes, n) = <<>>
    /\ z > n => Len(Behind(bytes, n)) = z - n

\* And what becomes of the bytes that wait.
LEMMA FeedCuts ==
    ASSUME NEW out \in Seq(DecBytes), NEW wait \in Seq(DecBytes), NEW new,
           NEW k \in Nat, NEW j \in Nat, NEW e \in Nat, NEW l \in Nat, NEW z \in Nat,
           Waiting(wait, k, j, e, l, z),
           QuadsAre(Then(out, wait), 0, k), QuadsAre(new, e, j), NEW n \in Nat
    PROVE  CutAt(out, Then(wait, new), n, l, z)
<1> DEFINE bytes == Then(wait, new)
           x == First(bytes, n)
           y == Behind(bytes, n)
<1>0. e = 4 * k /\ l = k + j /\ z = Len(wait) + 3 * j
  BY DEF Waiting
<1>1. new \in Seq(DecBytes) /\ Len(new) = 3 * j
  BY DEF QuadsAre
<1>2. bytes \in Seq(DecBytes)
  BY <1>1, ThenType
<1>3. Len(bytes) = z
  BY <1>0, <1>1, ThenType
<1> HIDE DEF bytes
<1>4. InTwo(DecBytes, bytes, z, n, x, y)
  BY <1>2, <1>3, CutInTwo
<1> HIDE DEF x, y
<1>5. x \in Seq(DecBytes) /\ y \in Seq(DecBytes) /\ Then(x, y) = bytes
  BY <1>4 DEF InTwo
<1>6. Then(out, x) \in Seq(DecBytes)
  BY <1>5, ThenType
<1>7. Then(Then(out, x), y) = Then(out, bytes)
  BY <1>5, ThenAssociates
<1>8. Then(out, bytes) = Then(Then(out, wait), new)
  BY <1>1, ThenAssociates DEF bytes
<1>9. QuadsAre(Then(Then(out, wait), new), 0, l)
  <2>1. e = 0 + 4 * k /\ 0 \in Nat
    BY <1>0
  <2> QED BY <1>0, <2>1, QuadsBehind
<1>10. /\ z <= n => y = <<>>
       /\ z > n => Len(y) = z - n
  BY <1>4 DEF InTwo
<1>11. /\ Then(out, x) \in Seq(DecBytes) /\ y \in Seq(DecBytes)
       /\ QuadsAre(Then(Then(out, x), y), 0, l)
  BY <1>5, <1>6, <1>7, <1>8, <1>9
<1>12. CutAt(out, bytes, n, l, z)
  BY <1>10, <1>11 DEF CutAt, x, y
<1> QED BY <1>12 DEF bytes

\* A filter that keeps numbers, and is fed those that follow, keeps numbers still.
Exact ==
    /\ chars \in Nat
    /\ \E k \in Nat, r \in 0 .. 3 : Exactly(obtained, backlog, partial, chars, k, r)

\* What whole quads leave: an empty filter, and a result of three quarters.
Squared ==
    /\ partial = <<>> /\ backlog = <<>>
    /\ 4 * Len(decResult.bytes) = 3 * decResult.size

\* The inductive invariant.
DecInv ==
    /\ stale \in BOOLEAN /\ lost \in BOOLEAN
    /\ ~stale /\ ~lost => Exact
    /\ ~stale /\ "few" \notin decCuts => ~lost /\ Light(backlog, partial)
    /\ ~stale /\ decCuts \subseteq {"quads"} => Squared

\* An empty filter before the first character.
LEMMA ExactAfresh == Exactly(<<>>, <<>>, <<>>, 0, 0, 0)
<1>1. Then(<<>>, <<>>) = <<>> /\ <<>> \in Seq(DecBytes)
  BY ConcatEmptySeq DEF Then
<1>2. Numbers(4 * 0, 0) = <<>>
  BY DEF Numbers
<1>3. QuadsAre(<<>>, 0, 0)
  BY DEF QuadsAre
<1> QED BY <1>1, <1>2, <1>3 DEF Exactly

\* So after open() and close().
LEMMA AfreshExact == Afresh => DecInv'
<1> SUFFICES ASSUME Afresh PROVE DecInv'
  OBVIOUS
<1>1. /\ chars' = 0 /\ obtained' = <<>> /\ backlog' = <<>> /\ partial' = <<>>
      /\ stale' = FALSE /\ lost' = FALSE
  BY DEF Afresh
<1>2. 0 \in Nat /\ 0 \in 0 .. 3
  OBVIOUS
<1>3. Exact'
  BY <1>1, <1>2, ExactAfresh DEF Exact
<1>4. Light(backlog', partial')
  BY <1>1 DEF Light
<1>5. Squared'
  BY <1>1 DEF Squared, Afresh, NoResult
<1> QED BY <1>1, <1>3, <1>4, <1>5 DEF DecInv

\* And so at the start.
LEMMA InitDecInv == DecInit => DecInv
<1> SUFFICES ASSUME DecInit PROVE DecInv
  OBVIOUS
<1>1. 0 \in Nat /\ 0 \in 0 .. 3
  OBVIOUS
<1>2. Exact
  BY <1>1, ExactAfresh DEF DecInit, Exact
<1>3. Light(backlog, partial) /\ Squared
  BY DEF DecInit, Light, Squared
<1> QED BY <1>2, <1>3 DEF DecInit, DecInv

\* n characters that follow number c are fed to a filter, when out has come out,
\* wait waits to and keep is kept; the filter sees seen, and has bytes; afterwards
\* it is out2, wait2, keep2 and c2.
Feeding(n, out, wait, keep, c, seen, bytes, out2, wait2, keep2, c2) ==
    /\ seen = Then(keep, Numbers(c, n))
    /\ bytes = Then(wait, QuadBytes(seen, "PLAIN"))
    /\ out2 = Then(out, First(bytes, n))
    /\ wait2 = Behind(bytes, n)
    /\ keep2 = LeftOver(seen)
    /\ c2 = c + n

\* Exactly what it should be then; not many are left after three or more; and
\* nothing is left over of whole quads, of which the bytes are three quarters.
FedExactly(n, wait, keep, bytes, out2, wait2, keep2, c2) ==
    /\ \E l \in Nat, t \in 0 .. 3 : Exactly(out2, wait2, keep2, c2, l, t)
    /\ n >= 3 /\ Light(wait, keep) => Light(wait2, keep2)
    /\ n % 4 = 0 /\ keep = <<>> /\ wait = <<>> =>
         /\ keep2 = <<>> /\ wait2 = <<>>
         /\ 4 * Len(First(bytes, n)) = 3 * n

\* A feed that the filter looks at: what it does.
LEMMA FeedExactly ==
    ASSUME NEW out, NEW wait, NEW keep, NEW c \in Nat, NEW k \in Nat, NEW r \in 0 .. 3,
           Exactly(out, wait, keep, c, k, r),
           NEW n \in Nat,
           NEW seen, NEW bytes, NEW out2, NEW wait2, NEW keep2, NEW c2,
           Feeding(n, out, wait, keep, c, seen, bytes, out2, wait2, keep2, c2)
    PROVE  FedExactly(n, wait, keep, bytes, out2, wait2, keep2, c2)
<1> PICK e \in Nat : e = 4 * k
  OBVIOUS
<1> PICK m \in Nat : m = r + n
  OBVIOUS
<1> PICK j \in Nat, t \in 0 .. 3 : m = 4 * j + t
  <2>1. m \div 4 \in Nat /\ m - 4 * (m \div 4) \in 0 .. 3 /\ m = 4 * (m \div 4) + (m - 4 * (m \div 4))
    OBVIOUS
  <2> QED BY <2>1
<1> PICK l \in Nat : l = k + j
  OBVIOUS
<1> PICK f \in Nat : f = e + 4 * j
  OBVIOUS
<1> PICK b \in Nat : b = Len(wait)
  BY DEF Exactly
<1> PICK z \in Nat : z = b + 3 * j
  OBVIOUS
<1>0. /\ seen = Then(keep, Numbers(c, n))
      /\ out2 = Then(out, First(bytes, n))
      /\ wait2 = Behind(bytes, n)
      /\ keep2 = LeftOver(seen)
      /\ c2 = c + n
  BY DEF Feeding
<1>1. /\ keep = Numbers(e, r) /\ c = e + r
      /\ out \in Seq(DecBytes) /\ wait \in Seq(DecBytes)
      /\ QuadsAre(Then(out, wait), 0, k)
  BY DEF Exactly
<1> DEFINE new == QuadBytes(seen, "PLAIN")
<1>2. QuadsAre(new, e, j) /\ keep2 = Numbers(f, t)
  <2>1. r \in Nat /\ Counted(e, r, c, n, m, j, t, f)
    BY <1>1 DEF Counted
  <2>2. Made(e, r, c, n, j, t, f)
    BY <2>1, FeedMakes
  <2> QED BY <1>0, <1>1, <2>2 DEF Made
<1> HIDE DEF new
<1>3. bytes = Then(wait, new)
  BY DEF new, Feeding
<1>3a. bytes \in Seq(DecBytes) /\ Len(bytes) = z
  <2>1. new \in Seq(DecBytes) /\ Len(new) = 3 * j
    BY <1>2 DEF QuadsAre
  <2>2. Then(wait, new) \in Seq(DecBytes) /\ Len(Then(wait, new)) = Len(wait) + Len(new)
    BY <1>1, <2>1, ThenType
  <2> QED BY <1>3, <2>1, <2>2
<1>4. CutAt(out, bytes, n, l, z)
  <2>1. Waiting(wait, k, j, e, l, z)
    BY DEF Waiting
  <2>2. CutAt(out, Then(wait, new), n, l, z)
    BY <1>1, <1>2, <2>1, FeedCuts
  <2> QED BY <1>3, <2>2
<1>4a. /\ out2 \in Seq(DecBytes) /\ wait2 \in Seq(DecBytes)
       /\ QuadsAre(Then(out2, wait2), 0, l)
       /\ z <= n => wait2 = <<>>
       /\ z > n => Len(wait2) = z - n
  BY <1>0, <1>4 DEF CutAt
<1>5. Len(keep) = r /\ Len(keep2) = t
  <2>1. r \in Nat /\ t \in Nat
    OBVIOUS
  <2>2. Len(Numbers(e, r)) = r /\ Len(Numbers(f, t)) = t
    BY <2>1, NumbersType
  <2> QED BY <1>1, <1>2, <2>2
<1>5a. ASSUME n >= 3, Light(wait, keep) PROVE Light(wait2, keep2)
  <2>1. 4 * b + 3 * r <= 9
    BY <1>5, <1>5a DEF Light
  <2>2. CASE z <= n
    <3>1. Len(wait2) = 0
      BY <1>4a, <2>2
    <3> QED BY <1>5, <3>1 DEF Light
  <2>3. CASE z > n
    <3>1. Len(wait2) = z - n
      BY <1>4a, <2>3
    <3>2. 4 * (z - n) + 3 * t <= 9
      BY <1>5a, <2>1
    <3> QED BY <1>5, <3>1, <3>2 DEF Light
  <2>4. z <= n \/ z > n
    OBVIOUS
  <2> QED BY <2>2, <2>3, <2>4
<1>6. c2 = 4 * l + t /\ f = 4 * l
  BY <1>0, <1>1
<1>7. Exactly(out2, wait2, keep2, c2, l, t)
  BY <1>2, <1>4a, <1>6 DEF Exactly
<1>8. ASSUME n % 4 = 0, keep = <<>>, wait = <<>>
      PROVE  keep2 = <<>> /\ wait2 = <<>> /\ 4 * Len(First(bytes, n)) = 3 * n
  <2>1. r = 0 /\ b = 0
    BY <1>5, <1>8
  <2>2. t = 0 /\ n = 4 * j /\ z = 3 * j /\ z <= n
    <3>1. n = 4 * (n \div 4) /\ n \div 4 \in Nat
      BY <1>8
    <3> PICK i \in Nat : n = 4 * i
      BY <3>1
    <3>2. 4 * i = 4 * j + t
      BY <2>1
    <3>3. t = 0 /\ i = j
      BY <3>2
    <3> QED BY <2>1, <3>3
  <2>3. wait2 = <<>>
    BY <1>4a, <2>2
  <2>4. Numbers(f, 0) = <<>>
    BY DEF Numbers
  <2>5. First(bytes, n) = bytes
    <3>1. First(bytes, n) = SubSeq(bytes, 1, Len(bytes))
      BY <1>3a, <2>2 DEF First
    <3> QED BY <1>3a, <3>1, SubSeqFull
  <2>6. 4 * Len(First(bytes, n)) = 3 * n
    BY <1>3a, <2>2, <2>5
  <2> QED BY <1>2, <2>2, <2>3, <2>4, <2>6
<1> QED BY <1>5a, <1>7, <1>8 DEF FedExactly

\* What DecFeed does to an exact filter that looks at it.
LEMMA FeedExact ==
    ASSUME Exact, NEW n \in Nat, ~Overlooked(n),
           FilterRead(n, [i \in 1 .. n |-> chars + i]),
           chars' = chars + n, obtained' = obtained \o decResult'.bytes
    PROVE  /\ Exact'
           /\ n >= 3 /\ Light(backlog, partial) => Light(backlog', partial')
           /\ n % 4 = 0 /\ partial = <<>> /\ backlog = <<>> => Squared'
<1> PICK k \in Nat, r \in 0 .. 3 : Exactly(obtained, backlog, partial, chars, k, r)
  BY DEF Exact
<1> DEFINE seen == Then(partial, Numbers(chars, n))
           bytes == Then(backlog, QuadBytes(seen, "PLAIN"))
<1>1. chars \in Nat
  BY DEF Exact
<1>2. seen = partial \o [i \in 1 .. n |-> chars + i]
  BY DEF Numbers, Then
<1>3. bytes = backlog \o QuadBytes(partial \o [i \in 1 .. n |-> chars + i], "PLAIN")
  BY <1>2 DEF Then
<1>4. /\ decResult' = [size |-> n, bytes |-> First(bytes, n)]
      /\ backlog' = Behind(bytes, n)
      /\ partial' = LeftOver(seen)
  <2> HIDE DEF bytes, seen
  <2> QED BY <1>2, <1>3 DEF FilterRead, Translated
<1> HIDE DEF bytes, seen
<1>5. decResult'.bytes = First(bytes, n) /\ decResult'.size = n
  BY <1>4
<1>6. obtained' = Then(obtained, First(bytes, n))
  BY <1>5 DEF Then
<1>7. FedExactly(n, backlog, partial, bytes, obtained', backlog', partial', chars')
  <2>1. Feeding(n, obtained, backlog, partial, chars, seen, bytes,
                obtained', backlog', partial', chars')
    BY <1>4, <1>6 DEF Feeding, seen, bytes
  <2> QED BY <1>1, <2>1, FeedExactly
<1>8. chars' \in Nat
  BY <1>1
<1> QED BY <1>5, <1>7, <1>8 DEF Exact, FedExactly, Squared

\* Three characters or more are looked at.
LEMMA EnoughIsSeen ==
    ASSUME Exact, Light(backlog, partial), NEW n \in Nat, n >= 3
    PROVE  ~Overlooked(n)
<1>1. backlog \in Seq(DecBytes) /\ Len(partial) \in Nat
  <2> PICK k \in Nat, r \in 0 .. 3 : Exactly(obtained, backlog, partial, chars, k, r)
    BY DEF Exact
  <2>1. 4 * k \in Nat /\ r \in Nat
    OBVIOUS
  <2> QED BY <2>1, NumbersType DEF Exactly
<1> QED BY <1>1 DEF Light, Overlooked

\* Every step keeps the invariant.  What clear() leaves in the filter makes stale
\* true, and until then the filter is as empty as after open().
LEMMA DecStep == DecInv /\ [DecNext]_decVars => DecInv'
<1> SUFFICES ASSUME DecInv, [DecNext]_decVars PROVE DecInv'
  OBVIOUS
<1>1. ASSUME NEW u \in DecTypes, DecOpen(u) PROVE DecInv'
  BY <1>1, AfreshExact DEF DecOpen
<1>2. CASE DecClose
  BY <1>2, AfreshExact DEF DecClose
<1>3. ASSUME NEW n \in Texts, DecFeed(n) PROVE DecInv'
  <2>1. n \in Nat /\ n > 0
    BY <1>3, Base64DecoderAssumption DEF DecFeed
  <2>2. /\ FilterRead(n, [i \in 1 .. n |-> chars + i])
        /\ chars' = chars + n /\ obtained' = obtained \o decResult'.bytes
        /\ decCuts' = decCuts \cup {Cut(n)} /\ stale' = stale
        /\ lost' = (lost \/ Overlooked(n))
    BY <1>3 DEF DecFeed
  <2>3. stale' \in BOOLEAN /\ lost' \in BOOLEAN
    BY <2>2 DEF DecInv, Overlooked
  <2>4. ASSUME ~stale', ~lost' PROVE Exact'
    <3>1. Exact /\ ~Overlooked(n)
      BY <2>2, <2>4 DEF DecInv
    <3> QED BY <2>1, <2>2, <3>1, FeedExact
  <2>5. ASSUME ~stale', "few" \notin decCuts'
        PROVE  ~lost' /\ Light(backlog', partial') /\ Exact /\ ~Overlooked(n)
    <3>1. n >= 3
      <4>1. Cut(n) # "few"
        BY <2>2, <2>5
      <4> QED BY <2>1, <4>1 DEF Cut
    <3>2. Exact /\ Light(backlog, partial) /\ ~lost
      BY <2>2, <2>5 DEF DecInv
    <3>3. ~Overlooked(n)
      BY <2>1, <3>1, <3>2, EnoughIsSeen
    <3>4. Light(backlog', partial')
      BY <2>1, <2>2, <3>1, <3>2, <3>3, FeedExact
    <3> QED BY <2>2, <3>2, <3>3, <3>4
  <2>6. ASSUME ~stale', decCuts' \subseteq {"quads"} PROVE Squared'
    <3>1. "few" \notin decCuts' /\ Cut(n) = "quads" /\ decCuts \subseteq {"quads"}
      BY <2>2, <2>6
    <3>2. n % 4 = 0
      BY <2>1, <3>1 DEF Cut
    <3>3. partial = <<>> /\ backlog = <<>>
      BY <2>2, <2>6, <3>1 DEF DecInv, Squared
    <3>4. Exact /\ ~Overlooked(n)
      BY <2>5, <2>6, <3>1
    <3> QED BY <2>1, <2>2, <3>2, <3>3, <3>4, FeedExact
  <2> QED BY <2>3, <2>4, <2>5, <2>6 DEF DecInv
<1>4. CASE DecClear
  <2>1. /\ chars' = 0 /\ obtained' = <<>> /\ decCuts' = {} /\ lost' = FALSE
        /\ stale' = (stale \/ partial # <<>> \/ backlog # <<>>)
        /\ partial' = partial /\ backlog' = backlog
        /\ decResult' = [size |-> 0, bytes |-> <<>>]
    BY <1>4 DEF DecClear, NoResult
  <2>2. 0 \in Nat /\ 0 \in 0 .. 3
    OBVIOUS
  <2>3. ~stale' => Exact' /\ Light(backlog', partial') /\ Squared'
    <3> SUFFICES ASSUME ~stale' PROVE Exact' /\ Light(backlog', partial') /\ Squared'
      OBVIOUS
    <3>1. partial' = <<>> /\ backlog' = <<>>
      BY <2>1
    <3>2. Exact'
      BY <2>1, <2>2, <3>1, ExactAfresh DEF Exact
    <3>3. Light(backlog', partial')
      BY <3>1 DEF Light
    <3>4. Squared'
      BY <2>1, <3>1 DEF Squared
    <3> QED BY <3>2, <3>3, <3>4
  <2>4. stale' \in BOOLEAN
    BY <2>1 DEF DecInv
  <2> QED BY <2>1, <2>3, <2>4 DEF DecInv
<1>5. CASE DecTake
  <2>1. /\ decResult' = [size |-> 0, bytes |-> <<>>]
        /\ UNCHANGED <<partial, backlog, chars, obtained, stale, lost, decCuts>>
    BY <1>5 DEF DecTake, NoResult, decHistory
  <2>2. Squared => Squared'
    BY <2>1 DEF Squared
  <2>3. Exact => Exact'
    BY <2>1 DEF Exact
  <2> QED BY <2>1, <2>2, <2>3 DEF DecInv
<1>6. CASE UNCHANGED decVars
  BY <1>6 DEF decVars, decHistory, DecInv, Exact, Squared
<1> QED BY <1>1, <1>2, <1>3, <1>4, <1>5, <1>6
        DEF DecNext, DecOpenFails, DecFeedNothing, DecFinish

\* The invariant says what the property does, in the property's words.
LEMMA DecInvIsEnough == DecInv => EverythingIsDecoded
<1> SUFFICES ASSUME DecInv PROVE EverythingIsDecoded
  OBVIOUS
<1>1. ASSUME ~stale, ~lost
      PROVE  /\ obtained \o backlog = QuadBytes([i \in 1 .. chars |-> i], "PLAIN")
             /\ partial = LeftOver([i \in 1 .. chars |-> i])
  <2>1. Exact
    BY <1>1 DEF DecInv
  <2> PICK k \in Nat, r \in 0 .. 3 : Exactly(obtained, backlog, partial, chars, k, r)
    BY <2>1 DEF Exact
  <2>2. /\ chars = 4 * k + r /\ QuadsAre(Then(obtained, backlog), 0, k)
        /\ partial = Numbers(4 * k, r)
    BY DEF Exactly
  <2> PICK c \in Nat : c = chars
    BY <2>1 DEF Exact
  <2> PICK e \in Nat : e = 4 * k
    OBVIOUS
  <2>3. [i \in 1 .. chars |-> i] = Numbers(0, c)
    <3>1. \A i \in 1 .. c : i = 0 + i
      OBVIOUS
    <3> QED BY <3>1 DEF Numbers
  <2>4. 0 \in Nat /\ 4 * k <= c /\ c <= 4 * k + 3 /\ c = 4 * k + r /\ e = 0 + 4 * k
    BY <2>2
  <2>5. QuadsAre(QuadBytes(Numbers(0, c), "PLAIN"), 0, k)
    BY <2>4, QuadsOfNumbers
  <2>6. Then(obtained, backlog) = QuadBytes(Numbers(0, c), "PLAIN")
    BY <2>2, <2>4, <2>5, QuadsEqual
  <2>7. LeftOver(Numbers(0, c)) = Numbers(e, r)
    BY <2>4, LeftOfNumbers
  <2>8. partial = Numbers(e, r)
    BY <2>2
  <2>9. obtained \o backlog = QuadBytes([i \in 1 .. chars |-> i], "PLAIN")
    BY <2>3, <2>6 DEF Then
  <2> QED BY <2>3, <2>7, <2>8, <2>9
<1>2. /\ ~stale /\ "few" \notin decCuts => ~lost
      /\ ~stale /\ decCuts \subseteq {"quads"} => Squared
  BY DEF DecInv
<1> HIDE DEF DecInv
<1> QED BY <1>1, <1>2 DEF EverythingIsDecoded, Squared

\* Text that is cut at will is decoded once and in order, as long as the filter looks
\* at every feed; at three characters or more it always does; and of whole quads the
\* results are written to three quarters, and nothing is kept for finish().
THEOREM NothingIsHeldBack == DecSpec => []EverythingIsDecoded
<1>1. DecInit => DecInv
  BY InitDecInv
<1>2. DecInv /\ [DecNext]_decVars => DecInv'
  BY DecStep
<1>3. DecInv => EverythingIsDecoded
  BY DecInvIsEnough
<1> QED BY <1>1, <1>2, <1>3, PTL DEF DecSpec

------------------------------------------------------------------------------
\* The encoder.

\* What a group is.
Groups == [bytes : Seq(Nat), alphabet : Types]

\* The number of the last byte of the first g groups, of groups that follow number a.
EndFrom(groups, g, a) == IF g = 0 THEN a ELSE Last(groups[g].bytes)

\* A group of the bytes that follow number e, which is padded only after a cut.
Link(x, e, cs, ty) ==
    /\ x.bytes # <<>> /\ Follow(x.bytes, e) /\ x.alphabet = ty
    /\ Len(x.bytes) = 3 \/ Last(x.bytes) \in cs

\* The groups stand for the bytes behind number a, up to f.
Chained(groups, a, f, cs, ty) ==
    /\ groups \in Seq(Groups)
    /\ EndFrom(groups, Len(groups), a) = f
    /\ \A g \in 1 .. Len(groups) : Link(groups[g], EndFrom(groups, g - 1, a), cs, ty)

\* More cuts do no harm.
LEMMA ChainsKeep ==
    ASSUME NEW x, NEW a, NEW f, NEW cs, NEW ty, NEW more,
           Chained(x, a, f, cs, ty), cs \subseteq more
    PROVE  Chained(x, a, f, more, ty)
BY DEF Chained, Link

\* No groups.
LEMMA NoChain ==
    ASSUME NEW a, NEW cs, NEW ty
    PROVE  Chained(<<>>, a, a, cs, ty)
BY DEF Chained, EndFrom

\* Groups behind groups.
LEMMA ChainsJoin ==
    ASSUME NEW x, NEW y, NEW e \in Nat, NEW f \in Nat, NEW cs, NEW ty,
           Chained(x, 0, e, cs, ty), Chained(y, e, f, cs, ty)
    PROVE  Chained(Then(x, y), 0, f, cs, ty)
<1>1. x \in Seq(Groups) /\ y \in Seq(Groups)
  BY DEF Chained
<1> PICK n \in Nat : n = Len(x)
  BY <1>1
<1> PICK k \in Nat : k = Len(y)
  BY <1>1
<1> DEFINE z == x \o y
<1>0. /\ z \in Seq(Groups) /\ Len(z) = n + k
      /\ \A i \in 1 .. n + k : z[i] = IF i <= n THEN x[i] ELSE y[i - n]
  <2>1. Joined(Groups, x, y, n, k)
    BY <1>1, ThenElements
  <2> QED BY <2>1 DEF Joined, Then
<1> HIDE DEF z
<1>2. z \in Seq(Groups) /\ Len(z) = n + k
  BY <1>0
<1>3. \A i \in 1 .. n : z[i] = x[i]
  BY <1>0
<1>4. \A i \in 1 .. k : z[n + i] = y[i]
  <2> TAKE i \in 1 .. k
  <2>1. n + i \in 1 .. n + k /\ ~(n + i <= n) /\ n + i - n = i
    OBVIOUS
  <2> QED BY <1>0, <2>1
<1>5. \A i \in 0 .. n : EndFrom(z, i, 0) = EndFrom(x, i, 0)
  BY <1>3 DEF EndFrom
<1>6. EndFrom(x, n, 0) = e /\ EndFrom(y, k, e) = f
  BY DEF Chained
<1>7. ASSUME NEW i \in 0 .. k PROVE EndFrom(z, n + i, 0) = EndFrom(y, i, e)
  <2>1. CASE i = 0
    <3>1. EndFrom(z, n, 0) = e
      BY <1>5, <1>6
    <3> QED BY <2>1, <3>1 DEF EndFrom
  <2>2. CASE i # 0
    <3>1. n + i # 0 /\ i \in 1 .. k
      BY <2>2
    <3> QED BY <1>4, <2>2, <3>1 DEF EndFrom
  <2> QED BY <2>1, <2>2
<1>8. EndFrom(z, n + k, 0) = f
  BY <1>6, <1>7
<1>9. ASSUME NEW g \in 1 .. n + k
      PROVE  Link(z[g], EndFrom(z, g - 1, 0), cs, ty)
  <2>1. CASE g <= n
    <3>1. g \in 1 .. n /\ g - 1 \in 0 .. n
      BY <2>1
    <3>2. Link(x[g], EndFrom(x, g - 1, 0), cs, ty)
      BY <3>1 DEF Chained
    <3> QED BY <1>3, <1>5, <3>1, <3>2
  <2>2. CASE g > n
    <3> PICK i \in 1 .. k : g = n + i
      <4>1. g - n \in 1 .. k /\ g = n + (g - n)
        BY <2>2
      <4> QED BY <4>1
    <3>1. i - 1 \in 0 .. k /\ n + (i - 1) = g - 1
      OBVIOUS
    <3>2. Link(y[i], EndFrom(y, i - 1, e), cs, ty)
      BY DEF Chained
    <3>3. EndFrom(z, g - 1, 0) = EndFrom(y, i - 1, e)
      BY <1>7, <3>1
    <3> QED BY <1>4, <3>2, <3>3
  <2>3. g <= n \/ g > n
    OBVIOUS
  <2> QED BY <2>1, <2>2, <2>3
<1>10. Chained(z, 0, f, cs, ty)
  BY <1>2, <1>8, <1>9 DEF Chained
<1> QED BY <1>10 DEF z, Then

\* A group of numbers.
LEMMA NumbersLink ==
    ASSUME NEW e \in Nat, NEW r \in Nat, r > 0, NEW f \in Nat, f = e + r,
           NEW cs, NEW ty \in Types, r = 3 \/ f \in cs
    PROVE  /\ Group(Numbers(e, r), ty) \in Groups
           /\ Link(Group(Numbers(e, r), ty), e, cs, ty)
           /\ Last(Group(Numbers(e, r), ty).bytes) = f
<1> DEFINE b == Numbers(e, r)
<1>1. b \in Seq(Nat) /\ Len(b) = r /\ \A i \in 1 .. r : b[i] = e + i
  BY NumbersType
<1>2. Follow(b, e)
  BY <1>1 DEF Follow, Numbers
<1> HIDE DEF b
<1>3. Last(b) = f /\ b # <<>>
  BY <1>1 DEF Last
<1>4. Group(b, ty).bytes = b /\ Group(b, ty).alphabet = ty /\ Group(b, ty) \in Groups
  BY <1>1 DEF Group, Groups
<1>5. Link(Group(b, ty), e, cs, ty)
  BY <1>1, <1>2, <1>3, <1>4 DEF Link
<1> QED BY <1>3, <1>4, <1>5 DEF b

\* What finish() writes: one group.
LEMMA OneGroup ==
    ASSUME NEW e \in Nat, NEW r \in Nat, r > 0, NEW f \in Nat, f = e + r,
           NEW cs, f \in cs, NEW ty \in Types
    PROVE  Chained(<<Group(Numbers(e, r), ty)>>, e, f, cs, ty)
<1> DEFINE x == Group(Numbers(e, r), ty)
<1>1. x \in Groups /\ Link(x, e, cs, ty) /\ Last(x.bytes) = f
  BY NumbersLink
<1> HIDE DEF x
<1>2. <<x>> \in Seq(Groups) /\ Len(<<x>>) = 1 /\ <<x>>[1] = x
  BY <1>1
<1>3. EndFrom(<<x>>, 1, e) = f /\ EndFrom(<<x>>, 0, e) = e
  BY <1>1, <1>2 DEF EndFrom
<1>4. \A g \in 1 .. 1 : Link(<<x>>[g], EndFrom(<<x>>, g - 1, e), cs, ty)
  BY <1>1, <1>2, <1>3
<1>5. Chained(<<x>>, e, f, cs, ty)
  BY <1>2, <1>3, <1>4 DEF Chained
<1> QED BY <1>5 DEF x

\* The groups of three, in the alphabet ty.
InAlphabet(w, ty) == [g \in 1 .. Len(w) |-> Group(w[g], ty)]

\* m numbers that follow e are k groups of three, and r that follow f.
Grouped(e, m, k, f, r) == m = 3 * k + r /\ f = e + 3 * k

\* They are written to a memory that was reset.
Written(e, m, f, r, cs, ty) ==
    /\ Chained(InAlphabet(<<>> \o Whole(Numbers(e, m)), ty), e, f, cs, ty)
    /\ Rest(Numbers(e, m)) = Numbers(f, r)

\* What feed() writes, and what the filter keeps.
LEMMA GroupsOfNumbers ==
    ASSUME NEW e \in Nat, NEW m \in Nat, NEW k \in Nat, NEW f \in Nat, NEW r \in 0 .. 2,
           Grouped(e, m, k, f, r), NEW cs, NEW ty \in Types
    PROVE  Written(e, m, f, r, cs, ty)
<1>0. m = 3 * k + r /\ f = e + 3 * k
  BY DEF Grouped
<1> DEFINE w == Whole(Numbers(e, m))
           gs == InAlphabet(w, ty)
<1>1. Len(Numbers(e, m)) = m /\ m \div 3 = k
  <2>1. m \div 3 = k
    BY <1>0
  <2> QED BY <2>1, NumbersType
<1>2. w = [g \in 1 .. k |-> SubSeq(Numbers(e, m), 3 * g - 2, 3 * g)]
  BY <1>1 DEF Whole
<1>3. ASSUME NEW g \in 1 .. k, NEW c \in Nat, c = e + 3 * (g - 1)
      PROVE  w[g] = Numbers(c, 3)
  <2> PICK h \in Nat : h = 3 * g - 2
    OBVIOUS
  <2> PICK t \in Nat : t = 3 * g
    OBVIOUS
  <2>1. 1 <= h /\ h <= t + 1 /\ t <= m /\ c = e + h - 1 /\ 3 = t - h + 1 /\ 3 \in Nat
    BY <1>0, <1>3
  <2>2. Piece(Numbers(e, m), h, t) = Numbers(c, 3)
    BY <2>1, NumbersPiece
  <2> QED BY <1>2, <2>2 DEF Piece
<1>4. w \in Seq(Seq(Nat)) /\ Len(w) = k
  <2>1. \A g \in 1 .. k : w[g] \in Seq(Nat)
    <3> TAKE g \in 1 .. k
    <3> PICK c \in Nat : c = e + 3 * (g - 1)
      OBVIOUS
    <3>1. w[g] = Numbers(c, 3) /\ 3 \in Nat
      BY <1>3
    <3> HIDE DEF w
    <3> QED BY <3>1, NumbersType
  <2>2. w \in [1 .. k -> Seq(Nat)]
    BY <1>2, <2>1
  <2> HIDE DEF w
  <2> QED BY <2>2
<1>5. <<>> \o w = w
  BY <1>4, ConcatEmptySeq
<1> HIDE DEF w
<1>6. gs = [g \in 1 .. k |-> Group(w[g], ty)]
  BY <1>4 DEF InAlphabet
<1> HIDE DEF gs
<1>7. ASSUME NEW g \in 1 .. k, NEW c \in Nat, c = e + 3 * (g - 1), NEW d \in Nat, d = c + 3
      PROVE  gs[g] \in Groups /\ Link(gs[g], c, cs, ty) /\ Last(gs[g].bytes) = d
  <2>1. gs[g] = Group(Numbers(c, 3), ty)
    BY <1>3, <1>6, <1>7
  <2>2. 3 \in Nat /\ 3 > 0 /\ d = c + 3
    BY <1>7
  <2> QED BY <2>1, <2>2, NumbersLink
<1>8. \A g \in 1 .. k : gs[g] \in Groups
  <2> TAKE g \in 1 .. k
  <2> PICK c \in Nat : c = e + 3 * (g - 1)
    OBVIOUS
  <2> PICK d \in Nat : d = c + 3
    OBVIOUS
  <2> QED BY <1>7
<1>9. gs \in Seq(Groups) /\ Len(gs) = k
  BY <1>6, <1>8
<1>10. ASSUME NEW g \in 0 .. k, NEW c \in Nat, c = e + 3 * g
       PROVE  EndFrom(gs, g, e) = c
  <2>1. CASE g = 0
    BY <1>10, <2>1 DEF EndFrom
  <2>2. CASE g # 0
    <3> PICK p \in Nat : p = e + 3 * (g - 1)
      BY <2>2
    <3>1. g \in 1 .. k /\ c = p + 3
      BY <1>10, <2>2
    <3>2. Last(gs[g].bytes) = c
      BY <1>7, <3>1
    <3> QED BY <2>2, <3>2 DEF EndFrom
  <2> QED BY <2>1, <2>2
<1>11. \A g \in 1 .. k : Link(gs[g], EndFrom(gs, g - 1, e), cs, ty)
  <2> TAKE g \in 1 .. k
  <2> PICK c \in Nat : c = e + 3 * (g - 1)
    OBVIOUS
  <2> PICK d \in Nat : d = c + 3
    OBVIOUS
  <2>1. g - 1 \in 0 .. k
    OBVIOUS
  <2>2. EndFrom(gs, g - 1, e) = c
    BY <1>10, <2>1
  <2> QED BY <1>7, <2>2
<1>12. EndFrom(gs, k, e) = f
  BY <1>0, <1>10
<1>13. Chained(gs, e, f, cs, ty)
  BY <1>9, <1>11, <1>12 DEF Chained
<1>14. Rest(Numbers(e, m)) = Numbers(f, r)
  <2> PICK h \in Nat : h = 3 * k + 1
    OBVIOUS
  <2>1. 1 <= h /\ h <= m + 1 /\ f = e + h - 1 /\ r = m - h + 1 /\ r \in Nat
    BY <1>0
  <2>2. Piece(Numbers(e, m), h, m) = Numbers(f, r)
    BY <2>1, NumbersPiece
  <2> QED BY <1>1, <2>2 DEF Rest, Piece
<1>15. Chained(InAlphabet(<<>> \o w, ty), e, f, cs, ty)
  BY <1>5, <1>13 DEF gs
<1> QED BY <1>14, <1>15 DEF w, Written

\* The groups stand for the first bytes, and what is pending for the rest of f.
Encoded(out, pend, f, cs, ty) ==
    \E e \in Nat, r \in Nat :
        Chained(out, 0, e, cs, ty) /\ pend = Numbers(e, r) /\ f = e + r

\* The inductive invariant.
EncInv ==
    /\ ready \in BOOLEAN /\ anew \in BOOLEAN /\ type \in Types
    /\ untaken \in BOOLEAN /\ missed \in BOOLEAN
    /\ ~ready => held = <<>>
    /\ ~missed => Encoded(Output, Pending, fed, cuts, type)

\* Nothing is encoded yet.
LEMMA NothingEncoded ==
    ASSUME NEW cs, NEW ty
    PROVE  Encoded(<<>>, <<>>, 0, cs, ty)
<1>1. Chained(<<>>, 0, 0, cs, ty)
  BY NoChain
<1>2. Numbers(0, 0) = <<>>
  BY DEF Numbers
<1>3. 0 \in Nat /\ 0 = 0 + 0
  OBVIOUS
<1> QED BY <1>1, <1>2, <1>3 DEF Encoded

\* A write to the filter.
LEMMA FeedEncoded ==
    ASSUME NEW out, NEW pend, NEW f, NEW cs, NEW ty \in Types,
           Encoded(out, pend, f, cs, ty), NEW n \in Nat, NEW seen,
           seen = Then(pend, [i \in 1 .. n |-> f + i])
    PROVE  Encoded(Then(out, InAlphabet(<<>> \o Whole(seen), ty)), Rest(seen), f + n, cs, ty)
<1> PICK e \in Nat, r \in Nat :
        Chained(out, 0, e, cs, ty) /\ pend = Numbers(e, r) /\ f = e + r
  BY DEF Encoded
<1> PICK c \in Nat : c = f
  OBVIOUS
<1> PICK m \in Nat : m = r + n
  OBVIOUS
<1>1. seen = Numbers(e, m)
  <2>1. Then(Numbers(e, r), Numbers(c, n)) = Numbers(e, m)
    BY NumbersConcat
  <2>2. [i \in 1 .. n |-> f + i] = Numbers(c, n)
    BY DEF Numbers
  <2> QED BY <2>1, <2>2
<1> PICK k \in Nat, t \in 0 .. 2 : m = 3 * k + t
  <2>1. m \div 3 \in Nat /\ m - 3 * (m \div 3) \in 0 .. 2 /\ m = 3 * (m \div 3) + (m - 3 * (m \div 3))
    OBVIOUS
  <2> QED BY <2>1
<1> PICK d \in Nat : d = e + 3 * k
  OBVIOUS
<1> DEFINE w == InAlphabet(<<>> \o Whole(Numbers(e, m)), ty)
<1>2. Chained(w, e, d, cs, ty) /\ Rest(Numbers(e, m)) = Numbers(d, t)
  <2>1. Grouped(e, m, k, d, t)
    BY DEF Grouped
  <2>2. Written(e, m, d, t, cs, ty)
    BY <2>1, GroupsOfNumbers
  <2> QED BY <2>2 DEF Written
<1> HIDE DEF w
<1>3. Chained(Then(out, w), 0, d, cs, ty)
  BY <1>2, ChainsJoin
<1>4. f + n = d + t /\ t \in Nat
  OBVIOUS
<1>5. Encoded(Then(out, w), Rest(Numbers(e, m)), f + n, cs, ty)
  BY <1>2, <1>3, <1>4 DEF Encoded
<1> QED BY <1>1, <1>5 DEF w

\* finish() with something pending.
LEMMA FinishEncoded ==
    ASSUME NEW out, NEW pend, NEW f, NEW cs, NEW ty \in Types,
           Encoded(out, pend, f, cs, ty), pend # <<>>, NEW more, more = cs \cup {f}
    PROVE  Encoded(Then(out, <<Group(pend, ty)>>), <<>>, f, more, ty)
<1> PICK e \in Nat, r \in Nat :
        Chained(out, 0, e, cs, ty) /\ pend = Numbers(e, r) /\ f = e + r
  BY DEF Encoded
<1> PICK d \in Nat : d = f
  OBVIOUS
<1>1. Numbers(d, 0) = <<>> /\ Numbers(e, 0) = <<>>
  BY DEF Numbers
<1>2. r > 0
  BY <1>1
<1>3. d \in more /\ cs \subseteq more
  OBVIOUS
<1>4. Chained(<<Group(Numbers(e, r), ty)>>, e, d, more, ty)
  BY <1>2, <1>3, OneGroup
<1>5. Chained(out, 0, e, more, ty)
  BY <1>3, ChainsKeep
<1> DEFINE x == <<Group(Numbers(e, r), ty)>>
<1>6. Chained(Then(out, x), 0, d, more, ty)
  <2> HIDE DEF x
  <2>1. Chained(x, e, d, more, ty)
    BY <1>4 DEF x
  <2> QED BY <1>5, <2>1, ChainsJoin
<1>7. f = d + 0 /\ 0 \in Nat
  OBVIOUS
<1>8. Encoded(Then(out, x), <<>>, f, more, ty)
  <2> HIDE DEF x
  <2> QED BY <1>1, <1>6, <1>7 DEF Encoded
<1> QED BY <1>8

\* finish() with nothing pending.
LEMMA CutEncoded ==
    ASSUME NEW out, NEW pend, NEW f, NEW cs, NEW ty, Encoded(out, pend, f, cs, ty), NEW more,
           cs \subseteq more
    PROVE  Encoded(out, pend, f, more, ty)
BY ChainsKeep DEF Encoded

\* What has been encoded is a sequence.
LEMMA EncodedType ==
    ASSUME NEW out, NEW pend, NEW f, NEW cs, NEW ty, Encoded(out, pend, f, cs, ty)
    PROVE  out \in Seq(Groups) /\ Then(out, <<>>) = out
<1>1. out \in Seq(Groups)
  BY DEF Encoded, Chained
<1> QED BY <1>1, ConcatEmptySeq DEF Then

\* Every step keeps the invariant.  Unless something was missed, what payload()
\* returned last is all that there was to take.
LEMMA EncStep == EncInv /\ [B64Next]_b64vars => EncInv'
<1> SUFFICES ASSUME EncInv, [B64Next]_b64vars PROVE EncInv'
  OBVIOUS
<1> DEFINE Begun == /\ untaken' = FALSE /\ missed' = FALSE
                    /\ fed' = 0 /\ taken' = <<>> /\ Pending' = <<>>
<1>1. Begun => (~missed' => Encoded(Output', Pending', fed', cuts', type'))
  BY NothingEncoded DEF Output
<1>2. ASSUME NEW t \in Types, Open(t) PROVE EncInv'
  <2>1. Begun
    BY <1>2 DEF Open, Restart, Blank, Pending
  <2>2. ready' = TRUE /\ anew' = FALSE /\ type' = t
    BY <1>2 DEF Open, Blank
  <2> QED BY <1>1, <2>1, <2>2 DEF EncInv
<1>3. CASE Close
  <2>1. Begun
    BY <1>3 DEF Close, Restart, Blank, Pending
  <2>2. ready' = FALSE /\ anew' = FALSE /\ type' = type /\ held' = <<>>
    BY <1>3 DEF Close, Blank
  <2> QED BY <1>1, <2>1, <2>2 DEF EncInv
<1>4. CASE Clear
  <2>1. /\ anew' = ready /\ ready' = ready /\ held' = held /\ type' = type
        /\ untaken' = FALSE /\ missed' = FALSE /\ fed' = 0 /\ taken' = <<>>
    BY <1>4 DEF Clear, Restart, session
  <2>2. Pending' = <<>>
    BY <2>1 DEF Pending, EncInv
  <2> QED BY <1>1, <2>1, <2>2 DEF EncInv
<1>5. ASSUME NEW n \in Chunks, Feed(n) PROVE EncInv'
  <2>1. n \in Nat
    BY Base64Assumption
  <2> DEFINE seen == Pending \o [i \in 1 .. n |-> fed + i]
  <2>2. /\ ready /\ ready' = ready /\ type' = type /\ taken' = taken /\ cuts' = cuts
        /\ mem' = <<>> \o Whole(seen) /\ held' = Rest(seen) /\ anew' = FALSE
        /\ missed' = (missed \/ untaken) /\ fed' = fed + n /\ untaken' = (mem' # <<>>)
    BY <1>5 DEF Feed, Filtered, Discard, session, Pending
  <2> HIDE DEF seen
  <2>3. ASSUME ~missed' PROVE Encoded(Output', Pending', fed', cuts', type')
    <3>1. ~missed /\ ~untaken /\ Output = taken
      BY <2>2, <2>3 DEF EncInv, Output
    <3>2. Encoded(taken, Pending, fed, cuts, type) /\ type \in Types
      BY <3>1 DEF EncInv
    <3>3. seen = Then(Pending, [i \in 1 .. n |-> fed + i])
      BY DEF seen, Then
    <3>4. Encoded(Then(taken, InAlphabet(<<>> \o Whole(seen), type)), Rest(seen), fed + n,
                  cuts, type)
      BY <2>1, <3>2, <3>3, FeedEncoded
    <3>5. Popped' = InAlphabet(mem', type')
      BY DEF Popped, InAlphabet
    <3>6. Pending' = Rest(seen)
      BY <2>2 DEF Pending
    <3>7. Output' = Then(taken, InAlphabet(mem', type'))
      <4>1. CASE mem' # <<>>
        BY <2>2, <3>5, <4>1 DEF Output, Then
      <4>2. CASE mem' = <<>>
        <5>1. InAlphabet(<<>>, type') = <<>>
          BY DEF InAlphabet
        <5>2. Output' = taken
          BY <2>2, <4>2 DEF Output
        <5>3. Then(taken, <<>>) = taken
          BY <3>2, EncodedType
        <5> QED BY <4>2, <5>1, <5>2, <5>3
      <4> QED BY <4>1, <4>2
    <3> QED BY <2>2, <3>4, <3>6, <3>7
  <2> QED BY <2>2, <2>3 DEF EncInv
<1>6. CASE Finish
  <2>1. /\ ready /\ ready' = ready /\ type' = type /\ taken' = taken /\ anew' = anew
        /\ held' = <<>> /\ fed' = fed /\ cuts' = cuts \cup {fed}
        /\ missed' = (missed \/ untaken \/ Residue) /\ untaken' = (mem' # <<>>)
        /\ \/ mem' = IF held = <<>> THEN <<>> ELSE <<held>>
           \/ anew /\ mem' = <<>>
    BY <1>6 DEF Finish, session
  <2>2. ASSUME ~missed' PROVE Encoded(Output', Pending', fed', cuts', type')
    <3>1. ~missed /\ ~untaken /\ Output = taken /\ ~Residue
      BY <2>1, <2>2 DEF EncInv, Output
    <3>2. Encoded(taken, Pending, fed, cuts, type) /\ type \in Types
      BY <3>1 DEF EncInv
    <3>3. Pending = held
      BY <3>1 DEF Residue, Pending
    <3>4. Pending' = <<>>
      BY <2>1 DEF Pending
    <3>5. CASE held = <<>>
      <4>1. mem' = <<>>
        BY <2>1, <3>5
      <4>2. Output' = taken
        BY <2>1, <4>1 DEF Output
      <4>3. Encoded(taken, <<>>, fed, cuts', type)
        BY <2>1, <3>2, <3>3, <3>5, CutEncoded
      <4> QED BY <2>1, <3>4, <4>2, <4>3
    <3>6. CASE held # <<>>
      <4>1. ~anew
        BY <3>1, <3>6 DEF Residue
      <4>2. mem' = <<held>> /\ mem' # <<>>
        BY <2>1, <3>6, <4>1
      <4>3. Popped' = <<Group(held, type)>>
        <5>1. Popped' = [g \in 1 .. 1 |-> Group(<<held>>[g], type)]
          BY <2>1, <4>2 DEF Popped
        <5> QED BY <5>1
      <4>4. Output' = Then(taken, <<Group(held, type)>>)
        BY <2>1, <4>2, <4>3 DEF Output, Then
      <4>5. Encoded(Then(taken, <<Group(held, type)>>), <<>>, fed, cuts', type)
        BY <2>1, <3>2, <3>3, <3>6, FinishEncoded
      <4> QED BY <2>1, <3>4, <4>4, <4>5
    <3> QED BY <3>5, <3>6
  <2> QED BY <2>1, <2>2 DEF EncInv
<1>7. CASE Payload
  <2>1. /\ taken' = (IF untaken THEN taken \o Popped ELSE taken) /\ untaken' = FALSE
        /\ ready' = ready /\ type' = type /\ held' = held /\ anew' = anew
        /\ fed' = fed /\ cuts' = cuts /\ missed' = missed
    BY <1>7 DEF Payload, session, filter
  <2>2. Output' = Output /\ Pending' = Pending
    BY <2>1 DEF Output, Pending
  <2> QED BY <2>1, <2>2 DEF EncInv
<1>8. CASE UNCHANGED b64vars
  <2>1. /\ UNCHANGED <<ready, type, held, anew, mem, fed, cuts, taken, untaken, missed>>
    BY <1>8 DEF b64vars, session, filter, b64History
  <2>2. Output' = Output /\ Pending' = Pending
    BY <2>1 DEF Output, Pending, Popped
  <2> QED BY <2>1, <2>2 DEF EncInv
<1> QED BY <1>2, <1>3, <1>4, <1>5, <1>6, <1>7, <1>8
        DEF B64Next, OpenFails, FeedNothing

\* The invariant holds at the start.
LEMMA InitEncInv == B64Init => EncInv
<1> SUFFICES ASSUME B64Init PROVE EncInv
  OBVIOUS
<1>1. Output = <<>> /\ Pending = <<>> /\ fed = 0
  BY DEF B64Init, Output, Pending
<1>2. Encoded(Output, Pending, fed, cuts, type)
  BY <1>1, NothingEncoded
<1> QED BY <1>2 DEF B64Init, EncInv, Types

\* The invariant says what the property does, in the property's words.
LEMMA EncInvIsEnough == EncInv => EverythingIsEncoded
<1> SUFFICES ASSUME EncInv, ~missed PROVE EverythingIsEncoded
  BY DEF EverythingIsEncoded
<1>1. Encoded(Output, Pending, fed, cuts, type)
  BY DEF EncInv
<1> DEFINE out == Output
<1> HIDE DEF out
<1> PICK e \in Nat, r \in Nat :
        Chained(out, 0, e, cuts, type) /\ Pending = Numbers(e, r) /\ fed = e + r
  BY <1>1 DEF Encoded, out
<1>2. /\ out \in Seq(Groups) /\ EndFrom(out, Len(out), 0) = e
      /\ \A g \in 1 .. Len(out) : Link(out[g], EndFrom(out, g - 1, 0), cuts, type)
  BY DEF Chained
<1>3. \A g \in 0 .. Len(out) : Reached(out, g) = EndFrom(out, g, 0)
  BY DEF Reached, EndFrom
<1>4. Reached(out, Len(out)) = e
  BY <1>2, <1>3
<1>5. ASSUME NEW g \in DOMAIN out
      PROVE  /\ out[g].bytes # <<>>
             /\ Follow(out[g].bytes, Reached(out, g - 1))
             /\ out[g].alphabet = type
             /\ Len(out[g].bytes) = 3 \/ Reached(out, g) \in cuts
  <2>1. g \in 1 .. Len(out) /\ g - 1 \in 0 .. Len(out) /\ g \in 0 .. Len(out) /\ g # 0
    BY <1>2
  <2>2. Link(out[g], Reached(out, g - 1), cuts, type)
    BY <1>2, <1>3, <2>1
  <2>3. Reached(out, g) = Last(out[g].bytes)
    BY <2>1 DEF Reached
  <2> QED BY <2>2, <2>3 DEF Link
<1>6. Follow(Pending, e) /\ e + Len(Pending) = fed
  <2>1. Len(Numbers(e, r)) = r
    BY NumbersType
  <2> QED BY <2>1 DEF Follow, Numbers
<1> QED BY <1>4, <1>5, <1>6 DEF EverythingIsEncoded, out

\* All that was fed to an encoder, since it was opened or cleared, comes out once and
\* in order, to a program that takes it; only finish() pads; and this however the
\* bytes are cut, and however often the encoder is opened, closed and cleared.
THEOREM NothingIsLostInGroups == B64Spec => []EverythingIsEncoded
<1>1. B64Init => EncInv
  BY InitEncInv
<1>2. EncInv /\ [B64Next]_b64vars => EncInv'
  BY EncStep
<1>3. EncInv => EverythingIsEncoded
  BY EncInvIsEnough
<1> QED BY <1>1, <1>2, <1>3, PTL DEF B64Spec

------------------------------------------------------------------------------
\* The BIOs.

\* The pair of the object: none, or two BIOs, of which the first is pushed on the second.
Adopted ==
    \/ member = NoPair
    \/ \E b \in Bios, c \in Bios : member = [b64 |-> b, bio |-> c] /\ pushed[b] = c

\* What open() has made, before each of its calls.
InOpen ==
    \/ opening = "no" /\ local = NoPair
    \/ opening = "memory" /\ \E b \in Bios : local = [b64 |-> b, bio |-> NoBio]
    \/ /\ opening = "push"
       /\ \E b \in Bios, c \in Bios : b # c /\ local = [b64 |-> b, bio |-> c]

\* Nothing that is allocated has two owners, or none.
Owned ==
    /\ allocated = Ends(member) \cup Ends(local) \cup abandoned
    /\ Ends(member) \cap Ends(local) = {}
    /\ (Ends(member) \cup Ends(local)) \cap abandoned = {}
    /\ ~misfreed

\* The inductive invariant.
PairInv ==
    /\ pushed \in [Bios -> MaybeBios]
    /\ Adopted /\ InOpen /\ Owned

\* The chain that close() frees has both BIOs of the object.
LEMMA ChainIsPair == ASSUME Adopted PROVE Ends(member) = Chain(member.b64)
BY BioAssumption DEF Adopted, Ends, Chain, NoPair

\* Every step keeps the invariant.
LEMMA PairStep == PairInv /\ [PairNext]_pairVars => PairInv'
<1> SUFFICES ASSUME PairInv, [PairNext]_pairVars PROVE PairInv'
  OBVIOUS
<1> USE BioAssumption
<1>1. Ends(NoPair) = {}
  BY DEF Ends, NoPair
<1>2. Ends(member) = Chain(member.b64)
  BY ChainIsPair DEF PairInv
<1>3. CASE MakeFilter
  <2>1. opening = "no" /\ local = NoPair
    BY <1>3 DEF MakeFilter, PairInv, InOpen
  <2> PICK b \in Bios : New(b) /\ local' = [NoPair EXCEPT !.b64 = b]
    BY <1>3 DEF MakeFilter
  <2>2. local' = [b64 |-> b, bio |-> NoBio] /\ Ends(local') = {b}
    BY DEF NoPair, Ends
  <2>3. /\ b \notin allocated /\ allocated' = allocated \cup {b}
        /\ pushed' = [pushed EXCEPT ![b] = NoBio]
    BY DEF New
  <2>4. /\ member' = member /\ abandoned' = abandoned /\ misfreed' = misfreed
        /\ opening' = "memory" /\ Ends(member') = Ends(member)
    BY <1>3 DEF MakeFilter, Ends
  <2>5. Adopted'
    <3>1. \A c \in Bios : c # b => pushed'[c] = pushed[c]
      BY <2>3 DEF PairInv
    <3>2. member # NoPair => member.b64 # b
      BY <2>3 DEF PairInv, Adopted, Owned, Ends, NoPair
    <3> QED BY <2>4, <3>1, <3>2 DEF PairInv, Adopted
  <2>6. pushed' \in [Bios -> MaybeBios]
    BY <2>3 DEF PairInv, MaybeBios
  <2>7. Owned'
    BY <1>1, <2>1, <2>2, <2>3, <2>4 DEF PairInv, Owned
  <2> QED BY <2>2, <2>4, <2>5, <2>6, <2>7 DEF PairInv, InOpen
<1>4. CASE MakeMemory
  <2> PICK b \in Bios : local = [b64 |-> b, bio |-> NoBio]
    BY <1>4 DEF MakeMemory, PairInv, InOpen
  <2> PICK c \in Bios : New(c) /\ local' = [local EXCEPT !.bio = c]
    BY <1>4 DEF MakeMemory
  <2>1. /\ local' = [b64 |-> b, bio |-> c] /\ Ends(local') = {b, c} /\ Ends(local) = {b}
    BY DEF Ends
  <2>2. /\ c \notin allocated /\ allocated' = allocated \cup {c}
        /\ pushed' = [pushed EXCEPT ![c] = NoBio]
    BY DEF New
  <2>3. /\ member' = member /\ abandoned' = abandoned /\ misfreed' = misfreed
        /\ opening' = "push" /\ Ends(member') = Ends(member)
    BY <1>4 DEF MakeMemory, Ends
  <2>4. Adopted'
    <3>1. \A d \in Bios : d # c => pushed'[d] = pushed[d]
      BY <2>2 DEF PairInv
    <3>2. member # NoPair => member.b64 # c
      BY <2>2 DEF PairInv, Adopted, Owned, Ends, NoPair
    <3> QED BY <2>3, <3>1, <3>2 DEF PairInv, Adopted
  <2>5. pushed' \in [Bios -> MaybeBios]
    BY <2>2 DEF PairInv, MaybeBios
  <2>6. Owned'
    BY <2>1, <2>2, <2>3 DEF PairInv, Owned
  <2>7. b # c
    BY <2>1, <2>2 DEF PairInv, Owned
  <2> QED BY <2>1, <2>3, <2>4, <2>5, <2>6, <2>7 DEF PairInv, InOpen
<1>5. CASE NoMemory
  <2> PICK b \in Bios : local = [b64 |-> b, bio |-> NoBio]
    BY <1>5 DEF NoMemory, PairInv, InOpen
  <2>1. /\ pushed' = [pushed EXCEPT ![b] = NoBio] /\ local' = NoPair /\ opening' = "no"
        /\ member' = member /\ abandoned' = abandoned
        /\ allocated' = allocated \ Ends(local)
        /\ misfreed' = (misfreed \/ ~(Ends(local) \subseteq allocated))
    BY <1>5 DEF NoMemory, FreeBios
  <2>2. Ends(local) = {b} /\ Ends(local') = {} /\ Ends(member') = Ends(member)
    BY <1>1, <2>1 DEF Ends
  <2>3. Adopted'
    <3>1. \A d \in Bios : d # b => pushed'[d] = pushed[d]
      BY <2>1 DEF PairInv
    <3>2. member # NoPair => member.b64 # b
      BY <2>2 DEF PairInv, Adopted, Owned, Ends, NoPair
    <3> QED BY <2>1, <3>1, <3>2 DEF PairInv, Adopted
  <2>4. pushed' \in [Bios -> MaybeBios]
    BY <2>1 DEF PairInv, MaybeBios
  <2>5. Owned'
    BY <2>1, <2>2 DEF PairInv, Owned
  <2> QED BY <2>1, <2>3, <2>4, <2>5 DEF PairInv, InOpen
<1>6. CASE Adopt
  <2> PICK b \in Bios, c \in Bios : b # c /\ local = [b64 |-> b, bio |-> c]
    BY <1>6 DEF Adopt, PairInv, InOpen
  <2>1. /\ pushed' = [pushed EXCEPT ![b] = c]
        /\ member' = local /\ local' = NoPair /\ opening' = "no" /\ abandoned' = abandoned
        /\ allocated' = allocated \ Ends(member)
        /\ misfreed' = (misfreed \/ ~(Ends(member) \subseteq allocated))
    BY <1>2, <1>6 DEF Adopt, FreeBios
  <2>2. Ends(local') = {} /\ Ends(member') = Ends(local)
    BY <1>1, <2>1
  <2>3. pushed' \in [Bios -> MaybeBios] /\ pushed'[b] = c
    BY <2>1 DEF PairInv, MaybeBios
  <2>4. Adopted'
    BY <2>1, <2>3 DEF Adopted
  <2>5. Owned'
    BY <2>1, <2>2 DEF PairInv, Owned
  <2> QED BY <2>1, <2>3, <2>4, <2>5 DEF PairInv, InOpen
<1>7. CASE PairClose
  <2>1. /\ member' = NoPair /\ UNCHANGED <<opening, local, pushed, loaded>>
        /\ Ends(member') = {} /\ Ends(local') = Ends(local)
    BY <1>1, <1>7 DEF PairClose
  <2>2. CASE loaded
    <3>1. /\ allocated' = allocated \ Ends(member) /\ abandoned' = abandoned
          /\ misfreed' = (misfreed \/ ~(Ends(member) \subseteq allocated))
      BY <1>2, <1>7, <2>2 DEF PairClose, FreeBios
    <3>2. Owned'
      BY <2>1, <3>1 DEF PairInv, Owned
    <3> QED BY <2>1, <3>2 DEF PairInv, InOpen, Adopted
  <2>3. CASE ~loaded
    <3>1. /\ abandoned' = abandoned \cup Ends(member)
          /\ allocated' = allocated /\ misfreed' = misfreed
      BY <1>7, <2>3 DEF PairClose
    <3>2. Owned'
      BY <2>1, <3>1 DEF PairInv, Owned
    <3> QED BY <2>1, <3>2 DEF PairInv, InOpen, Adopted
  <2> QED BY <2>2, <2>3
<1>8. ASSUME UNCHANGED <<opening, member, local, pushed, allocated, abandoned, misfreed>>
      PROVE  PairInv'
  BY <1>8 DEF PairInv, Adopted, InOpen, Owned, Ends
<1> QED BY <1>3, <1>4, <1>5, <1>6, <1>7, <1>8
        DEF PairNext, NoFilter, Unload, Load, pairVars

\* Every BIO that is allocated has one owner, whatever open() meets, and none is freed
\* twice.
THEOREM BiosAreFreedOnce == PairSpec => []BiosAreOwned
<1>1. PairInit => PairInv
  BY DEF PairInit, PairInv, Adopted, InOpen, Owned, Ends, NoPair, MaybeBios
<1>2. PairInv /\ [PairNext]_pairVars => PairInv'
  BY PairStep
<1>3. PairInv => BiosAreOwned
  BY ChainIsPair DEF PairInv, Owned, BiosAreOwned
<1> QED BY <1>1, <1>2, <1>3, PTL DEF PairSpec
==============================================================================
