------------------------- MODULE StateProtocol_proofs -------------------------
(***************************************************************************)
(* Theorems about StateProtocol: what is read is what was written, and     *)
(* what is written again is what was read, field by field and bit by bit.  *)
(***************************************************************************)
EXTENDS StateProtocol, WellFoundedInduction, TLAPS

-----------------------------------------------------------------------------
(* Loops.                                                                  *)

\* Induction, said of a set: one that holds 0 and with every number below n the
\* next one too holds all numbers up to n.
LEMMA NumbersUpTo ==
    ASSUME NEW n \in Nat, NEW T, 0 \in T, \A k \in 0..(n - 1) : k \in T => k + 1 \in T
    PROVE  0..n \subseteq T
<1> SUFFICES ASSUME ~ (0..n \subseteq T) PROVE FALSE
  OBVIOUS
<1> DEFINE Missing == {k \in Nat : k <= n /\ k \notin T}
           R == {ss \in Nat \X Nat : ss[1] < ss[2]}
<1>1. Missing \in SUBSET Nat /\ Missing # {}
  OBVIOUS
<1>2. IsWellFoundedOn(R, Nat)
  BY NatLessThanWellFounded DEF OpToRel
<1>3. PICK x \in Missing : \A y \in Missing : <<y, x>> \notin R
  <2> HIDE DEF R, Missing
  <2> QED BY <1>1, <1>2, WFMin
<1>4. \A y \in Missing : ~ (y < x)
  BY <1>3
<1>5. x # 0 /\ x - 1 \in 0..(n - 1) /\ (x - 1) + 1 = x
  BY <1>3
<1>6. x - 1 \in T
  BY <1>4, <1>5
<1> QED BY <1>3, <1>5, <1>6

\* A loop over numbers runs to its end.
LEMMA LoopExists ==
    ASSUME NEW n \in Nat, NEW base \in Int, NEW step \in [(1..n) \X Int -> Int]
    PROVE  \E f \in [0..n -> Int] : f[0] = base /\ \A i \in 1..n : f[i] = step[<<i, f[i - 1]>>]
<1> DEFINE Runs(k) == \E f \in [0..k -> Int] :
                          f[0] = base /\ \A i \in 1..k : f[i] = step[<<i, f[i - 1]>>]
           T == {k \in 0..n : Runs(k)}
<1>1. 0 \in T
  <2>1. /\ [i \in 0..0 |-> base] \in [0..0 -> Int] /\ [i \in 0..0 |-> base][0] = base
        /\ \A i \in 1..0 : FALSE
    OBVIOUS
  <2>2. Runs(0)
    BY <2>1
  <2> QED BY <2>2
<1>2. ASSUME NEW k \in 0..(n - 1), k \in T PROVE k + 1 \in T
  <2>1. PICK f \in [0..k -> Int] : f[0] = base /\ \A i \in 1..k : f[i] = step[<<i, f[i - 1]>>]
    BY <1>2
  <2> DEFINE g == [i \in 0..(k + 1) |-> IF i = k + 1 THEN step[<<k + 1, f[k]>>] ELSE f[i]]
  <2>2. step[<<k + 1, f[k]>>] \in Int
    <3>1. <<k + 1, f[k]>> \in (1..n) \X Int
      OBVIOUS
    <3> QED BY <3>1
  <2>3. g \in [0..(k + 1) -> Int] /\ g[0] = base
    BY <2>1, <2>2
  <2>4. ASSUME NEW i \in 1..(k + 1) PROVE g[i] = step[<<i, g[i - 1]>>]
    <3>1. CASE i = k + 1
      <4>1. i - 1 = k /\ k \in 0..(k + 1) /\ k # k + 1
        BY <3>1
      <4>2. g[k] = f[k] /\ g[k + 1] = step[<<k + 1, f[k]>>]
        BY <4>1
      <4> QED BY <3>1, <4>1, <4>2
    <3>2. CASE i # k + 1
      <4>1. i \in 1..k /\ g[i] = f[i] /\ g[i - 1] = f[i - 1]
        BY <3>2
      <4> QED BY <2>1, <4>1
    <3> QED BY <3>1, <3>2
  <2>5. Runs(k + 1)
    <3> HIDE DEF g
    <3> QED BY <2>3, <2>4
  <2> HIDE DEF Runs
  <2> QED BY <2>5
<1>3. n \in T
  <2> HIDE DEF T
  <2> QED BY <1>1, <1>2, NumbersUpTo
<1>4. Runs(n)
  <2> HIDE DEF Runs
  <2> QED BY <1>3
<1> QED BY <1>4

-----------------------------------------------------------------------------
(* The bits of a number.                                                   *)

LEMMA PowersOfTwo ==
    ASSUME NEW i \in 0..21
    PROVE  2^i \in Nat \ {0} /\ 2^(i + 1) = 2 * 2^i
<1>1. CASE i = 0
  BY <1>1
<1>2. CASE i = 1
  BY <1>2
<1>3. CASE i = 2
  BY <1>3
<1>4. CASE i = 3
  BY <1>4
<1>5. CASE i = 4
  BY <1>5
<1>6. CASE i = 5
  BY <1>6
<1>7. CASE i = 6
  BY <1>7
<1>8. CASE i = 7
  BY <1>8
<1>9. CASE i = 8
  BY <1>9
<1>10. CASE i = 9
  BY <1>10
<1>11. CASE i = 10
  BY <1>11
<1>12. CASE i = 11
  BY <1>12
<1>13. CASE i = 12
  BY <1>13
<1>14. CASE i = 13
  BY <1>14
<1>15. CASE i = 14
  BY <1>15
<1>16. CASE i = 15
  BY <1>16
<1>17. CASE i = 16
  BY <1>17
<1>18. CASE i = 17
  BY <1>18
<1>19. CASE i = 18
  BY <1>19
<1>20. CASE i = 19
  BY <1>20
<1>21. CASE i = 20
  BY <1>21
<1>22. CASE i = 21
  BY <1>22
<1> QED BY <1>1, <1>2, <1>3, <1>4, <1>5, <1>6, <1>7, <1>8, <1>9, <1>10, <1>11,
           <1>12, <1>13, <1>14, <1>15, <1>16, <1>17, <1>18, <1>19, <1>20, <1>21, <1>22

\* The rest of a number after a division.
LEMMA Division ==
    ASSUME NEW v \in Int, NEW p \in Nat \ {0}
    PROVE  v \div p \in Int /\ v % p \in 0..(p - 1) /\ v = p * (v \div p) + (v % p)
OBVIOUS

LEMMA QuotientIs ==
    ASSUME NEW v \in Int, NEW p \in Nat \ {0}, NEW q \in Int, NEW r \in 0..(p - 1),
           v = p * q + r
    PROVE  v \div p = q /\ v % p = r
OBVIOUS

\* Halving what is left of a number.
LEMMA HalvedTwice ==
    ASSUME NEW v \in Int, NEW p \in Nat \ {0}
    PROVE  v \div (2 * p) = (v \div p) \div 2
<1> DEFINE q == v \div p
           h == q \div 2
<1>1. q \in Int /\ v % p \in 0..(p - 1) /\ v = p * q + (v % p)
  BY Division
<1>2. h \in Int /\ q % 2 \in {0, 1} /\ q = 2 * h + (q % 2)
  BY <1>1
<1> DEFINE r == p * (q % 2) + (v % p)
<1>3. r \in 0..(2 * p - 1)
  <2>1. CASE q % 2 = 0
    BY <1>1, <2>1
  <2>2. CASE q % 2 = 1
    BY <1>1, <2>2
  <2> QED BY <1>2, <2>1, <2>2
<1>4. v = (2 * p) * h + r
  <2>1. \A x, b \in Int : p * (2 * x + b) = (2 * p) * x + p * b
    OBVIOUS
  <2>2. p * (2 * h + (q % 2)) = (2 * p) * h + p * (q % 2)
    <3> HIDE DEF q, h
    <3> QED BY <2>1, <1>2
  <2>3. p * q = (2 * p) * h + p * (q % 2)
    BY <1>2, <2>2
  <2> QED BY <1>1, <1>2, <2>3
<1>5. 2 * p \in Nat \ {0}
  OBVIOUS
<1> HIDE DEF q, h, r
<1>6. v \div (2 * p) = h
  BY <1>2, <1>3, <1>4, <1>5, QuotientIs
<1> QED BY <1>6 DEF h, q

\* What is left of a number after i bits.
Left(v, i) == v \div 2^i

LEMMA LeftIs ==
    ASSUME NEW v \in Int
    PROVE  /\ Left(v, 0) = v
           /\ \A i \in 0..21 : /\ Left(v, i) \in Int /\ Left(v, i + 1) \in Int
                               /\ Bit(v, i + 1) \in {0, 1}
                               /\ Left(v, i) = Bit(v, i + 1) + 2 * Left(v, i + 1)
<1>1. Left(v, 0) = v
  BY DEF Left
<1>2. ASSUME NEW i \in 0..21
      PROVE  /\ Left(v, i) \in Int /\ Left(v, i + 1) \in Int
             /\ Bit(v, i + 1) \in {0, 1}
             /\ Left(v, i) = Bit(v, i + 1) + 2 * Left(v, i + 1)
  <2> DEFINE q == Left(v, i)
  <2>1. 2^i \in Nat \ {0} /\ 2^(i + 1) = 2 * 2^i
    BY PowersOfTwo
  <2>2. q \in Int
    BY <2>1, Division DEF Left
  <2>3. Left(v, i + 1) = q \div 2
    BY <2>1, HalvedTwice DEF Left
  <2>4. Bit(v, i + 1) = q % 2
    <3>1. (i + 1) - 1 = i
      OBVIOUS
    <3> QED BY <3>1 DEF Bit, Left
  <2> HIDE DEF q
  <2>5. q \div 2 \in Int /\ q % 2 \in {0, 1} /\ q = (q % 2) + 2 * (q \div 2)
    BY <2>2
  <2> QED BY <2>2, <2>3, <2>4, <2>5 DEF q
<1> QED BY <1>1, <1>2

LEMMA SequenceOf ==
    ASSUME NEW n \in Nat, NEW S, NEW s \in [1..n -> S]
    PROVE  Len(s) = n /\ DOMAIN s = 1..n /\ s \in Seq(S)
OBVIOUS

\* The loop of Number.
Sums(bits, w, above, f) ==
    /\ f \in [0..w -> Int] /\ f[w] = above
    /\ \A i \in 0..(w - 1) : f[i] = bits[i + 1] + 2 * f[i + 1]

LEMMA NumberIsLoop ==
    ASSUME NEW w \in 1..22, NEW bits \in [1..w -> {0, 1}], NEW above \in Int
    PROVE  \E f : Sums(bits, w, above, f) /\ Number(bits, above) = f[0]
<1>1. w \in Nat /\ Len(bits) = w
  BY SequenceOf
<1> DEFINE step == [p \in (1..w) \X Int |-> bits[w + 1 - p[1]] + 2 * p[2]]
<1>2. step \in [(1..w) \X Int -> Int]
  <2>1. ASSUME NEW p \in (1..w) \X Int PROVE bits[w + 1 - p[1]] + 2 * p[2] \in Int
    <3>1. p[1] \in 1..w /\ p[2] \in Int
      OBVIOUS
    <3>2. w + 1 - p[1] \in 1..w
      BY <3>1
    <3>3. bits[w + 1 - p[1]] \in {0, 1}
      BY <3>2
    <3> HIDE DEF step
    <3> QED BY <3>1, <3>3
  <2> QED BY <2>1
<1>3. PICK g \in [0..w -> Int] : g[0] = above /\ \A i \in 1..w : g[i] = step[<<i, g[i - 1]>>]
  <2> HIDE DEF step
  <2> QED BY <1>1, <1>2, LoopExists
<1>4. \A i \in 1..w : g[i] = bits[w + 1 - i] + 2 * g[i - 1]
  <2> SUFFICES ASSUME NEW i \in 1..w PROVE g[i] = bits[w + 1 - i] + 2 * g[i - 1]
    OBVIOUS
  <2>1. <<i, g[i - 1]>> \in (1..w) \X Int
    BY <1>3
  <2> QED BY <1>3, <2>1
<1> DEFINE Body(f) == [i \in 0..w |-> IF i = w THEN above ELSE bits[i + 1] + 2 * f[i + 1]]
           h == [i \in 0..w |-> g[w - i]]
<1>5. h = Body(h)
  <2>1. ASSUME NEW i \in 0..w PROVE h[i] = Body(h)[i]
    <3>1. CASE i = w
      BY <1>3, <3>1
    <3>2. CASE i # w
      <4>1. w - i \in 1..w /\ i + 1 \in 0..w /\ w + 1 - (w - i) = i + 1 /\ (w - i) - 1 = w - (i + 1)
        BY <3>2
      <4>2. g[w - i] = bits[i + 1] + 2 * g[w - (i + 1)]
        BY <1>4, <4>1
      <4> QED BY <3>2, <4>1, <4>2
    <3> QED BY <3>1, <3>2
  <2> QED BY <2>1
<1> DEFINE f == CHOOSE q : q = Body(q)
<1>6. f = Body(f)
  <2> HIDE DEF h, Body
  <2> QED BY <1>5
<1>7. Number(bits, above) = f[0]
  BY <1>1 DEF Number
<1> HIDE DEF f
<1>8. f[w] = above /\ \A i \in 0..(w - 1) : f[i] = bits[i + 1] + 2 * f[i + 1]
  BY <1>6
<1>9. \A i \in 0..w : f[i] \in Int
  <2> DEFINE T == {i \in 0..w : f[w - i] \in Int}
  <2>1. 0 \in T
    BY <1>8
  <2>2. ASSUME NEW i \in 0..(w - 1), i \in T PROVE i + 1 \in T
    <3>1. w - (i + 1) \in 0..(w - 1) /\ (w - (i + 1)) + 1 = w - i /\ w - i \in 1..w
      OBVIOUS
    <3>2. f[w - (i + 1)] = bits[w - i] + 2 * f[w - i]
      BY <1>8, <3>1
    <3> QED BY <2>2, <3>1, <3>2
  <2>3. 0..w \subseteq T
    <3> HIDE DEF T
    <3> QED BY <1>1, <2>1, <2>2, NumbersUpTo
  <2> SUFFICES ASSUME NEW i \in 0..w PROVE f[i] \in Int
    OBVIOUS
  <2>4. w - i \in 0..w /\ w - (w - i) = i
    OBVIOUS
  <2> QED BY <2>3, <2>4
<1>10. f \in [0..w -> Int]
  BY <1>6, <1>9
<1> QED BY <1>7, <1>8, <1>10 DEF Sums

\* A number is that of its bits and of what is left above them.
LEMMA NumberFromBits ==
    ASSUME NEW w \in 1..22, NEW v \in Int
    PROVE  Number([i \in 1..w |-> Bit(v, i)], Left(v, w)) = v
<1> DEFINE bits == [i \in 1..w |-> Bit(v, i)]
           above == Left(v, w)
<1>1. /\ Left(v, 0) = v
      /\ \A i \in 0..21 : /\ Left(v, i) \in Int /\ Left(v, i + 1) \in Int
                          /\ Bit(v, i + 1) \in {0, 1}
                          /\ Left(v, i) = Bit(v, i + 1) + 2 * Left(v, i + 1)
  BY LeftIs
<1>2. bits \in [1..w -> {0, 1}] /\ above \in Int
  <2>1. ASSUME NEW i \in 1..w PROVE Bit(v, i) \in {0, 1}
    <3>1. i - 1 \in 0..21 /\ (i - 1) + 1 = i
      OBVIOUS
    <3> QED BY <1>1, <3>1
  <2>2. w - 1 \in 0..21 /\ (w - 1) + 1 = w
    OBVIOUS
  <2>3. Left(v, w) \in Int
    BY <1>1, <2>2
  <2> QED BY <2>1, <2>3
<1> HIDE DEF above
<1>3. PICK f : Sums(bits, w, above, f) /\ Number(bits, above) = f[0]
  <2> HIDE DEF bits
  <2> QED BY <1>2, NumberIsLoop
<1> DEFINE T == {i \in 0..w : f[w - i] = Left(v, w - i)}
<1>4. 0 \in T
  BY <1>3 DEF Sums, above
<1>5. ASSUME NEW i \in 0..(w - 1), i \in T PROVE i + 1 \in T
  <2> DEFINE k == w - (i + 1)
  <2>1. k \in 0..(w - 1) /\ k \in 0..21 /\ k + 1 = w - i /\ k + 1 \in 1..w
    OBVIOUS
  <2> HIDE DEF k
  <2>2. f[k] = bits[k + 1] + 2 * f[k + 1]
    BY <1>3, <2>1 DEF Sums
  <2>3. f[k + 1] = Left(v, k + 1)
    BY <1>5, <2>1
  <2>4. bits[k + 1] = Bit(v, k + 1)
    BY <2>1
  <2>5. f[k] = Left(v, k)
    BY <1>1, <2>1, <2>2, <2>3, <2>4
  <2> QED BY <2>5 DEF k
<1>6. w \in T
  <2> HIDE DEF T
  <2> QED BY <1>4, <1>5, NumbersUpTo
<1>7. f[0] = Left(v, 0)
  BY <1>6
<1> QED BY <1>1, <1>3, <1>7 DEF above

\* The bits of a number are those it was read from.
LEMMA BitsOfNumber ==
    ASSUME NEW w \in 1..22, NEW bits \in [1..w -> {0, 1}], NEW above \in Int
    PROVE  /\ Number(bits, above) \in Int
           /\ Left(Number(bits, above), w) = above
           /\ \A i \in 1..w : Bit(Number(bits, above), i) = bits[i]
<1>1. PICK f : Sums(bits, w, above, f) /\ Number(bits, above) = f[0]
  BY NumberIsLoop
<1> DEFINE v == f[0]
<1>2. v \in Int
  BY <1>1 DEF Sums
<1> HIDE DEF v
<1>3. /\ Left(v, 0) = v
      /\ \A i \in 0..21 : /\ Left(v, i) \in Int /\ Left(v, i + 1) \in Int
                          /\ Bit(v, i + 1) \in {0, 1}
                          /\ Left(v, i) = Bit(v, i + 1) + 2 * Left(v, i + 1)
  BY <1>2, LeftIs
<1> DEFINE T == {i \in 0..w : Left(v, i) = f[i]}
<1>4. ASSUME NEW i \in 0..(w - 1), Left(v, i) = f[i]
      PROVE  Left(v, i + 1) = f[i + 1] /\ Bit(v, i + 1) = bits[i + 1]
  <2>1. f[i] = bits[i + 1] + 2 * f[i + 1] /\ f[i + 1] \in Int /\ bits[i + 1] \in {0, 1}
    BY <1>1 DEF Sums
  <2>2. /\ Left(v, i) = Bit(v, i + 1) + 2 * Left(v, i + 1)
        /\ Bit(v, i + 1) \in {0, 1} /\ Left(v, i + 1) \in Int
    <3>1. i \in 0..21
      OBVIOUS
    <3> QED BY <1>3, <3>1
  <2> QED BY <1>4, <2>1, <2>2
<1>5. 0 \in T
  BY <1>3 DEF v
<1>6. ASSUME NEW i \in 0..(w - 1), i \in T PROVE i + 1 \in T
  BY <1>4, <1>6
<1>7. 0..w \subseteq T
  <2> HIDE DEF T
  <2> QED BY <1>5, <1>6, NumbersUpTo
<1>8. Left(v, w) = above
  BY <1>7, <1>1 DEF Sums
<1>9. ASSUME NEW i \in 1..w PROVE Bit(v, i) = bits[i]
  <2>1. i - 1 \in 0..(w - 1) /\ (i - 1) + 1 = i /\ i - 1 \in 0..w
    OBVIOUS
  <2>2. Left(v, i - 1) = f[i - 1]
    BY <1>7, <2>1
  <2>3. Bit(v, (i - 1) + 1) = bits[(i - 1) + 1]
    <3> HIDE DEF T
    <3> QED BY <1>4, <2>1, <2>2
  <2> QED BY <2>1, <2>3
<1> QED BY <1>1, <1>2, <1>8, <1>9 DEF v

\* What is left above the bits of a number that fits in them.
LEMMA FitsUnsigned ==
    ASSUME NEW w \in 1..22, NEW v \in Int
    PROVE  Left(v, w) = 0 <=> v \in 0..(2^w - 1)
<1>1. w - 1 \in 0..21 /\ (w - 1) + 1 = w
  OBVIOUS
<1>2. 2^(w - 1) \in Nat \ {0} /\ 2^w = 2 * 2^(w - 1)
  BY <1>1, PowersOfTwo
<1> DEFINE p == 2^w
<1>3. p \in Nat \ {0}
  BY <1>2
<1> HIDE DEF p
<1>4. v \div p \in Int /\ v % p \in 0..(p - 1) /\ v = p * (v \div p) + (v % p)
  BY <1>3, Division
<1>5. CASE v \div p = 0
  <2>1. v \in 0..(p - 1)
    BY <1>3, <1>4, <1>5
  <2> QED BY <1>5, <2>1 DEF Left, p
<1>6. CASE v \in 0..(p - 1)
  <2>1. v = p * 0 + v
    BY <1>3
  <2>2. v \div p = 0
    BY <1>3, <1>6, <2>1, QuotientIs
  <2> QED BY <1>6, <2>2 DEF Left, p
<1> QED BY <1>5, <1>6 DEF Left, p

LEMMA FitsSigned ==
    ASSUME NEW w \in 1..22, NEW v \in Int
    PROVE  Left(v, w) = -Bit(v, w) <=> v \in (-(2^(w - 1)))..(2^(w - 1) - 1)
<1>1. w - 1 \in 0..21 /\ (w - 1) + 1 = w
  OBVIOUS
<1> DEFINE p == 2^(w - 1)
           q == Left(v, w - 1)
<1>2. p \in Nat \ {0}
  BY <1>1, PowersOfTwo
<1>3. /\ q \in Int /\ Left(v, w) \in Int /\ Bit(v, w) \in {0, 1}
      /\ q = Bit(v, w) + 2 * Left(v, w)
  <2> DEFINE i == w - 1
  <2>1. i \in 0..21 /\ i + 1 = w
    BY <1>1
  <2> HIDE DEF i
  <2>2. /\ Left(v, i) \in Int /\ Left(v, i + 1) \in Int /\ Bit(v, i + 1) \in {0, 1}
        /\ Left(v, i) = Bit(v, i + 1) + 2 * Left(v, i + 1)
    BY <2>1, LeftIs
  <2>3. /\ Left(v, i) \in Int /\ Left(v, w) \in Int /\ Bit(v, w) \in {0, 1}
        /\ Left(v, i) = Bit(v, w) + 2 * Left(v, w)
    BY <2>1, <2>2
  <2> QED BY <2>3 DEF i
<1>4. q = v \div p
  BY DEF Left
<1> HIDE DEF p
<1>5. v % p \in 0..(p - 1) /\ v = p * (v \div p) + (v % p)
  BY <1>2, Division
<1> HIDE DEF q
<1>6. Left(v, w) = -Bit(v, w) <=> q \in {0, -1}
  BY <1>3
<1>7. ASSUME q \in {0, -1} PROVE v \in (-p)..(p - 1)
  BY <1>2, <1>4, <1>5, <1>7
<1>8. ASSUME v \in (-p)..(p - 1) PROVE q \in {0, -1}
  <2>1. CASE v >= 0
    <3>1. v = p * 0 + v /\ v \in 0..(p - 1)
      BY <1>2, <1>8, <2>1
    <3> QED BY <1>2, <1>4, <3>1, QuotientIs
  <2>2. CASE v < 0
    <3>1. v = p * (-1) + (v + p) /\ v + p \in 0..(p - 1)
      BY <1>2, <1>8, <2>2
    <3>2. v \div p = -1
      BY <1>2, <3>1, QuotientIs
    <3> QED BY <1>4, <3>2
  <2> QED BY <2>1, <2>2
<1> QED BY <1>6, <1>7, <1>8 DEF p

-----------------------------------------------------------------------------
(* The fields of a packet.                                                 *)

\* A sequence of fields, each with a name of its own and a width.
IsLayout(layout) ==
    /\ Len(layout) \in Nat /\ DOMAIN layout = 1..Len(layout)
    /\ \A k \in 1..Len(layout) : layout[k][2] \in 1..22
    /\ \A j, k \in 1..Len(layout) : layout[j][1] = layout[k][1] => j = k

LEMMA EndsAre ==
    ASSUME NEW layout, IsLayout(layout)
    PROVE  /\ Ends(layout) \in [0..Len(layout) -> Int] /\ Ends(layout)[0] = 0
           /\ \A k \in 1..Len(layout) : Ends(layout)[k] = Ends(layout)[k - 1] + layout[k][2]
<1> DEFINE n == Len(layout)
<1>1. n \in Nat /\ \A k \in 1..n : layout[k][2] \in 1..22
  BY DEF IsLayout
<1>2. 0 \in Int
  OBVIOUS
<1> HIDE DEF n
<1> DEFINE step == [p \in (1..n) \X Int |-> p[2] + layout[p[1]][2]]
<1>3. step \in [(1..n) \X Int -> Int]
  <2>1. ASSUME NEW p \in (1..n) \X Int PROVE p[2] + layout[p[1]][2] \in Int
    <3>1. p[1] \in 1..n /\ p[2] \in Int
      OBVIOUS
    <3>2. layout[p[1]][2] \in Int
      BY <1>1, <3>1
    <3> HIDE DEF step
    <3> QED BY <3>1, <3>2
  <2> QED BY <2>1
<1>4. PICK g \in [0..n -> Int] : g[0] = 0 /\ \A i \in 1..n : g[i] = step[<<i, g[i - 1]>>]
  <2> HIDE DEF step
  <2> QED BY <1>1, <1>2, <1>3, LoopExists
<1>5. \A i \in 1..n : g[i] = g[i - 1] + layout[i][2]
  <2> SUFFICES ASSUME NEW i \in 1..n PROVE g[i] = g[i - 1] + layout[i][2]
    OBVIOUS
  <2>1. <<i, g[i - 1]>> \in (1..n) \X Int
    <3>1. i - 1 \in 0..n
      BY <1>1
    <3> HIDE DEF step
    <3> QED BY <1>4, <3>1
  <2> QED BY <1>4, <2>1
<1> DEFINE Body(f) == [k \in 0..n |-> IF k = 0 THEN 0 ELSE f[k - 1] + layout[k][2]]
<1>6. g = Body(g)
  BY <1>4, <1>5
<1> DEFINE f == CHOOSE q : q = Body(q)
<1>7. f = Body(f)
  <2> HIDE DEF Body
  <2> QED BY <1>6
<1>8. Ends(layout) = f
  BY DEF Ends, n
<1> HIDE DEF f
<1>9. f[0] = 0 /\ \A k \in 1..n : f[k] = f[k - 1] + layout[k][2]
  BY <1>1, <1>7
<1>10. 0..n \subseteq {k \in 0..n : f[k] = g[k]}
  <2> DEFINE T == {k \in 0..n : f[k] = g[k]}
  <2>1. 0 \in T
    BY <1>1, <1>4, <1>9
  <2>2. ASSUME NEW k \in 0..(n - 1), k \in T PROVE k + 1 \in T
    <3>1. k + 1 \in 1..n /\ (k + 1) - 1 = k
      BY <1>1
    <3>2. f[k + 1] = f[k] + layout[k + 1][2] /\ g[k + 1] = g[k] + layout[k + 1][2]
      BY <1>5, <1>9, <3>1
    <3> QED BY <2>2, <3>1, <3>2
  <2> HIDE DEF T
  <2>3. 0..n \subseteq T
    BY <1>1, <2>1, <2>2, NumbersUpTo
  <2> QED BY <2>3 DEF T
<1>11. f \in [0..n -> Int]
  BY <1>4, <1>7, <1>10
<1> QED BY <1>8, <1>9, <1>11 DEF n

\* Fields lie one behind the other.
LEMMA EndsRise ==
    ASSUME NEW layout, IsLayout(layout),
           NEW j \in 0..Len(layout), NEW k \in 0..Len(layout), j <= k
    PROVE  Ends(layout)[j] <= Ends(layout)[k]
<1> DEFINE n == Len(layout)
           end == Ends(layout)
           T == {i \in 0..(n - j) : end[j] <= end[j + i]}
<1>1. /\ end \in [0..n -> Int] /\ end[0] = 0
      /\ \A i \in 1..n : end[i] = end[i - 1] + layout[i][2] /\ layout[i][2] \in 1..22
  BY EndsAre DEF IsLayout
<1>2. n \in Nat
  BY DEF IsLayout
<1> HIDE DEF n, end
<1>3. 0 \in T
  BY <1>1, <1>2 DEF n
<1>4. ASSUME NEW i \in 0..(n - j - 1), i \in T PROVE i + 1 \in T
  <2>1. j + i + 1 \in 1..n /\ (j + i + 1) - 1 = j + i /\ j + (i + 1) = j + i + 1 /\ j + i \in 0..n
    BY <1>2 DEF n
  <2>2. end[j + i + 1] = end[j + i] + layout[j + i + 1][2] /\ layout[j + i + 1][2] \in 1..22
    BY <1>1, <2>1
  <2>3. end[j] \in Int /\ end[j + i] \in Int
    BY <1>1, <2>1 DEF n
  <2>4. end[j] <= end[j + (i + 1)]
    <3>1. end[j] <= end[j + i]
      BY <1>4
    <3>2. end[j + (i + 1)] = end[j + i] + layout[j + i + 1][2]
      <4>1. j + (i + 1) = j + i + 1
        BY <2>1
      <4> HIDE DEF T
      <4> QED BY <2>2, <4>1
    <3>3. \A a, b, w \in Int : a <= b /\ w \in 1..22 => a <= b + w
      OBVIOUS
    <3>4. layout[j + i + 1][2] \in Int
      <4>1. \A w \in 1..22 : w \in Int
        OBVIOUS
      <4> QED BY <2>2, <4>1, Zenon
    <3>5. end[j] <= end[j + i] + layout[j + i + 1][2]
      <4> HIDE DEF T
      <4> QED BY <2>2, <2>3, <3>1, <3>3, <3>4
    <3> HIDE DEF T
    <3> QED BY <3>2, <3>5
  <2>5. i + 1 \in 0..(n - j)
    BY <1>2 DEF n
  <2> QED BY <2>4, <2>5
<1>5. n - j \in Nat /\ k - j \in 0..(n - j) /\ j + (k - j) = k
  BY <1>2 DEF n
<1>6. 0..(n - j) \subseteq T
  <2> HIDE DEF T
  <2> QED BY <1>3, <1>4, <1>5, NumbersUpTo
<1> QED BY <1>5, <1>6 DEF end

\* The bits of field k.
LEMMA FieldOfBit ==
    ASSUME NEW layout, IsLayout(layout), NEW k \in 1..Len(layout), NEW i \in 1..layout[k][2]
    PROVE  /\ Ends(layout)[k - 1] + i \in 1..Width(layout)
           /\ \A j \in DOMAIN layout :
                 Ends(layout)[j - 1] < Ends(layout)[k - 1] + i
                     /\ Ends(layout)[k - 1] + i <= Ends(layout)[j] <=> j = k
<1> DEFINE n == Len(layout)
           end == Ends(layout)
           at == end[k - 1] + i
<1>1. /\ end \in [0..n -> Int] /\ end[0] = 0
      /\ \A j \in 1..n : end[j] = end[j - 1] + layout[j][2] /\ layout[j][2] \in 1..22
      /\ n \in Nat /\ DOMAIN layout = 1..n
  BY EndsAre DEF IsLayout
<1>2. \A j, l \in 0..n : j <= l => end[j] <= end[l]
  BY EndsRise
<1>3. Width(layout) = end[n]
  BY DEF Width
<1> HIDE DEF n, end
<1>4. k \in 1..n /\ k - 1 \in 0..n /\ k \in 0..n /\ n \in 0..n /\ 0 \in 0..n /\ 0 <= k - 1 /\ k <= n
  BY <1>1 DEF n
<1>5. /\ end[k - 1] \in Int /\ end[k] \in Int /\ end[n] \in Int
      /\ end[k] = end[k - 1] + layout[k][2] /\ layout[k][2] \in 1..22
  BY <1>1, <1>4
<1>6. 0 <= end[k - 1] /\ end[k] <= end[n]
  <2>1. end[0] <= end[k - 1]
    BY <1>2, <1>4
  <2>2. end[k] <= end[n]
    BY <1>2, <1>4
  <2> QED BY <1>1, <2>1, <2>2
<1>7. at \in 1..end[n] /\ end[k - 1] < at /\ at <= end[k]
  <2>1. \A a, b, c, w, m \in Int :
           b = a + w /\ m \in 1..w /\ 0 <= a /\ b <= c => a + m \in 1..c /\ a < a + m /\ a + m <= b
    OBVIOUS
  <2>2. i \in Int /\ layout[k][2] \in Int /\ i \in 1..layout[k][2]
    <3>1. \A w \in 1..22 : w \in Int /\ \A m \in 1..w : m \in Int
      OBVIOUS
    <3> QED BY <1>5, <3>1, Zenon
  <2> QED BY <1>5, <1>6, <2>1, <2>2
<1>8. ASSUME NEW j \in 1..n, end[j - 1] < at, at <= end[j] PROVE j = k
  <2>1. j - 1 \in 0..n /\ j \in 0..n /\ end[j - 1] \in Int /\ end[j] \in Int
    BY <1>1
  <2>2. CASE j < k
    <3>1. j <= k - 1
      BY <1>4, <2>2
    <3>2. end[j] <= end[k - 1]
      BY <1>2, <1>4, <2>1, <3>1
    <3> QED BY <1>5, <1>7, <1>8, <2>1, <3>2
  <2>3. CASE k < j
    <3>1. k <= j - 1
      BY <1>4, <2>3
    <3>2. end[k] <= end[j - 1]
      BY <1>2, <1>4, <2>1, <3>1
    <3> QED BY <1>5, <1>7, <1>8, <2>1, <3>2
  <2> QED BY <1>1, <1>4, <2>2, <2>3
<1> HIDE DEF at
<1>9. \A j \in DOMAIN layout : end[j - 1] < at /\ at <= end[j] <=> j = k
  BY <1>1, <1>4, <1>7, <1>8
<1> QED BY <1>3, <1>7, <1>9 DEF end, at

\* Every bit belongs to a field.
LEMMA EveryBit ==
    ASSUME NEW layout, IsLayout(layout), NEW b \in 1..Width(layout)
    PROVE  \E k \in 1..Len(layout) : \E i \in 1..layout[k][2] : b = Ends(layout)[k - 1] + i
<1> DEFINE n == Len(layout)
           end == Ends(layout)
<1>1. /\ end \in [0..n -> Int] /\ end[0] = 0
      /\ \A j \in 1..n : end[j] = end[j - 1] + layout[j][2] /\ layout[j][2] \in 1..22
      /\ n \in Nat
  BY EndsAre DEF IsLayout
<1>2. b \in 1..end[n]
  BY DEF Width
<1> HIDE DEF n, end
<1> DEFINE Has(m) == \E k \in 1..m : \E i \in 1..layout[k][2] : b = end[k - 1] + i
           T == {m \in 0..n : b <= end[m] => Has(m)}
<1>3. 0 \in T
  BY <1>1, <1>2
<1>4. ASSUME NEW m \in 0..(n - 1), m \in T PROVE m + 1 \in T
  <2>1. m + 1 \in 1..n /\ (m + 1) - 1 = m /\ m \in 0..n /\ m + 1 \in 0..n
    BY <1>1
  <2>2. /\ end[m + 1] = end[m] + layout[m + 1][2] /\ end[m] \in Int
        /\ layout[m + 1][2] \in 1..22
    BY <1>1, <2>1
  <2>3. CASE b <= end[m]
    <3>1. Has(m)
      BY <1>4, <2>3
    <3>2. Has(m + 1)
      BY <2>1, <3>1
    <3> HIDE DEF Has
    <3> QED BY <2>1, <3>2
  <2>4. CASE ~ (b <= end[m]) /\ b <= end[m + 1]
    <3>1. b - end[m] \in 1..layout[m + 1][2] /\ b = end[(m + 1) - 1] + (b - end[m])
      BY <1>2, <2>1, <2>2, <2>4
    <3>2. m + 1 \in 1..(m + 1)
      OBVIOUS
    <3>3. Has(m + 1)
      BY <3>1, <3>2
    <3> HIDE DEF Has
    <3> QED BY <2>1, <3>3
  <2>5. CASE ~ (b <= end[m + 1])
    <3> HIDE DEF Has
    <3> QED BY <2>1, <2>5
  <2> QED BY <2>3, <2>4, <2>5
<1>5. n \in Nat /\ n \in 0..n
  BY <1>1
<1>6. n \in T
  <2> HIDE DEF T
  <2>1. 0..n \subseteq T
    BY <1>5, <1>3, <1>4, NumbersUpTo
  <2> QED BY <1>5, <2>1
<1>7. Has(n)
  <2> HIDE DEF Has
  <2> QED BY <1>2, <1>6
<1> QED BY <1>7 DEF n, end

\* What is written of field k.
LEMMA WrittenBit ==
    ASSUME NEW layout, IsLayout(layout), NEW values,
           NEW k \in 1..Len(layout), NEW i \in 1..layout[k][2]
    PROVE  WriteFields(layout, values)[Ends(layout)[k - 1] + i] = Bit(values[layout[k][1]], i)
<1> DEFINE end == Ends(layout)
           at == end[k - 1] + i
<1>1. at \in 1..Width(layout)
  BY FieldOfBit
<1>2. \A j \in DOMAIN layout : end[j - 1] < at /\ at <= end[j] <=> j = k
  BY FieldOfBit
<1>3. k \in DOMAIN layout /\ end[k - 1] \in Int
  <2>1. k - 1 \in 0..Len(layout)
    BY DEF IsLayout
  <2> QED BY <2>1, EndsAre DEF IsLayout
<1>4. at - end[k - 1] = i
  BY <1>3
<1> HIDE DEF at
<1>5. (CHOOSE j \in DOMAIN layout : end[j - 1] < at /\ at <= end[j]) = k
  BY <1>2, <1>3
<1>6. at \in 1..end[Len(layout)]
  BY <1>1 DEF Width
<1> HIDE DEF end
<1>7. WriteFields(layout, values)[at] = Bit(values[layout[k][1]], at - end[k - 1])
  BY <1>5, <1>6 DEF WriteFields, end
<1> QED BY <1>4, <1>7 DEF at, end

\* What is read of field k.
LEMMA ReadIsField ==
    ASSUME NEW layout, IsLayout(layout), NEW bits, NEW start, NEW k \in 1..Len(layout)
    PROVE  ReadFields(bits, start, layout)[layout[k][1]] = ReadField(bits, start, layout, k)
<1> DEFINE name == layout[k][1]
<1>1. k \in DOMAIN layout /\ name \in Names(layout)
  BY DEF IsLayout, Names
<1>2. (CHOOSE j \in DOMAIN layout : layout[j][1] = name) = k
  BY <1>1 DEF IsLayout
<1> HIDE DEF name
<1>3. ReadFields(bits, start, layout)[name]
         = ReadField(bits, start, layout, CHOOSE j \in DOMAIN layout : layout[j][1] = name)
  BY <1>1 DEF ReadFields
<1> QED BY <1>2, <1>3 DEF name

\* The values a field has room for.
SignedRange(width) == (-(2^(width - 1)))..(2^(width - 1) - 1)

FieldRange(layout, k) ==
    IF layout[k][1] \in Signed THEN SignedRange(layout[k][2]) ELSE Unsigned(layout[k][2])

\* A value there is room for is read back.
LEMMA FieldReadBack ==
    ASSUME NEW layout, IsLayout(layout), NEW bits, NEW start, NEW k \in 1..Len(layout),
           NEW v \in Int, v \in FieldRange(layout, k),
           \A i \in 1..layout[k][2] : bits[start + Ends(layout)[k - 1] + i] = Bit(v, i)
    PROVE  ReadField(bits, start, layout, k) = v
<1> DEFINE w == layout[k][2]
           raw == [i \in 1..w |-> bits[start + Ends(layout)[k - 1] + i]]
           written == [i \in 1..w |-> Bit(v, i)]
<1>1. w \in 1..22
  BY DEF IsLayout
<1>2. raw = written
  OBVIOUS
<1> HIDE DEF w
<1>3. written \in [1..w -> {0, 1}]
  <2> SUFFICES ASSUME NEW i \in 1..w PROVE Bit(v, i) \in {0, 1}
    OBVIOUS
  <2>1. i - 1 \in 0..21 /\ (i - 1) + 1 = i
    BY <1>1
  <2> QED BY <2>1, LeftIs
<1>4. w \in Nat /\ Len(written) = w /\ written[w] = Bit(v, w)
  BY <1>1, <1>3, SequenceOf
<1>5. Number(written, Left(v, w)) = v
  BY <1>1, NumberFromBits
<1> HIDE DEF written
<1>6. CASE layout[k][1] \in Signed
  <2>1. v \in (-(2^(w - 1)))..(2^(w - 1) - 1)
    BY <1>6 DEF FieldRange, SignedRange, Unsigned, w
  <2>2. Left(v, w) = -Bit(v, w)
    BY <1>1, <2>1, FitsSigned
  <2>3. ReadField(bits, start, layout, k) = ReadSigned(raw)
    BY <1>6 DEF ReadField, w
  <2> HIDE DEF raw
  <2> QED BY <1>2, <1>4, <1>5, <2>2, <2>3 DEF ReadSigned
<1>7. CASE layout[k][1] \notin Signed
  <2>1. v \in 0..(2^w - 1)
    BY <1>7 DEF FieldRange, SignedRange, Unsigned, w
  <2>2. Left(v, w) = 0
    BY <1>1, <2>1, FitsUnsigned
  <2>3. ReadField(bits, start, layout, k) = ReadBits(raw)
    BY <1>7 DEF ReadField, w
  <2> HIDE DEF raw
  <2> QED BY <1>2, <1>5, <2>2, <2>3 DEF ReadBits
<1> QED BY <1>6, <1>7

\* What is read of any bits there is room for, and it has these bits.
LEMMA FieldWrittenBack ==
    ASSUME NEW layout, IsLayout(layout), NEW bits, NEW start, NEW k \in 1..Len(layout),
           \A i \in 1..layout[k][2] : bits[start + Ends(layout)[k - 1] + i] \in {0, 1}
    PROVE  /\ ReadField(bits, start, layout, k) \in Int
           /\ ReadField(bits, start, layout, k) \in FieldRange(layout, k)
           /\ \A i \in 1..layout[k][2] :
                 Bit(ReadField(bits, start, layout, k), i) = bits[start + Ends(layout)[k - 1] + i]
<1> DEFINE w == layout[k][2]
           raw == [i \in 1..w |-> bits[start + Ends(layout)[k - 1] + i]]
           v == ReadField(bits, start, layout, k)
<1>1. w \in 1..22
  BY DEF IsLayout
<1>2. raw \in [1..w -> {0, 1}]
  OBVIOUS
<1>3. \A i \in 1..w : raw[i] = bits[start + Ends(layout)[k - 1] + i]
  OBVIOUS
<1> HIDE DEF w
<1>4. w \in Nat /\ Len(raw) = w /\ raw[w] \in {0, 1}
  BY <1>1, <1>2, SequenceOf
<1>5. CASE layout[k][1] \in Signed
  <2>1. v = ReadSigned(raw)
    BY <1>5 DEF ReadField, w
  <2> HIDE DEF raw, v
  <2>2. v = Number(raw, -raw[w]) /\ -raw[w] \in Int
    BY <1>4, <2>1 DEF ReadSigned
  <2>3. /\ v \in Int /\ Left(v, w) = -raw[w]
        /\ \A i \in 1..w : Bit(v, i) = raw[i]
    BY <1>1, <1>2, <2>2, BitsOfNumber
  <2>4. Left(v, w) = -Bit(v, w)
    BY <1>1, <2>3
  <2>5. v \in (-(2^(w - 1)))..(2^(w - 1) - 1)
    BY <1>1, <2>3, <2>4, FitsSigned
  <2>6. v \in FieldRange(layout, k)
    BY <1>5, <2>5 DEF FieldRange, SignedRange, Unsigned, w
  <2> QED BY <1>3, <2>3, <2>6 DEF v, w
<1>6. CASE layout[k][1] \notin Signed
  <2>1. v = ReadBits(raw)
    BY <1>6 DEF ReadField, w
  <2> HIDE DEF raw, v
  <2>2. v = Number(raw, 0) /\ 0 \in Int
    BY <2>1 DEF ReadBits
  <2>3. /\ v \in Int /\ Left(v, w) = 0
        /\ \A i \in 1..w : Bit(v, i) = raw[i]
    BY <1>1, <1>2, <2>2, BitsOfNumber
  <2>4. v \in 0..(2^w - 1)
    BY <1>1, <2>3, FitsUnsigned
  <2>5. v \in FieldRange(layout, k)
    BY <1>6, <2>4 DEF FieldRange, SignedRange, Unsigned, w
  <2> QED BY <1>3, <2>3, <2>5 DEF v, w
<1> QED BY <1>5, <1>6

\* What is written are bits, as many as there is room for.
LEMMA WrittenBits ==
    ASSUME NEW layout, IsLayout(layout), NEW values,
           \A k \in 1..Len(layout) : values[layout[k][1]] \in Int
    PROVE  Width(layout) \in Nat /\ WriteFields(layout, values) \in [1..Width(layout) -> {0, 1}]
<1> DEFINE written == WriteFields(layout, values)
<1>1. Width(layout) \in Nat
  <2>1. Len(layout) \in 0..Len(layout) /\ 0 \in 0..Len(layout) /\ 0 <= Len(layout)
    BY DEF IsLayout
  <2>2. Ends(layout)[Len(layout)] \in Int /\ Ends(layout)[0] = 0
    BY <2>1, EndsAre
  <2>3. Ends(layout)[0] <= Ends(layout)[Len(layout)]
    BY <2>1, EndsRise
  <2> QED BY <2>2, <2>3 DEF Width
<1>2. written = [b \in 1..Width(layout) |-> written[b]]
  BY DEF WriteFields, Width
<1> HIDE DEF written
<1>3. ASSUME NEW b \in 1..Width(layout) PROVE written[b] \in {0, 1}
  <2>1. PICK k \in 1..Len(layout) : \E i \in 1..layout[k][2] : b = Ends(layout)[k - 1] + i
    BY EveryBit
  <2>2. PICK i \in 1..layout[k][2] : b = Ends(layout)[k - 1] + i
    BY <2>1
  <2>3. written[b] = Bit(values[layout[k][1]], i)
    BY <2>2, WrittenBit DEF written
  <2>4. i - 1 \in 0..21 /\ (i - 1) + 1 = i
    <3>1. layout[k][2] \in 1..22
      BY DEF IsLayout
    <3>2. \A w \in 1..22 : \A m \in 1..w : m - 1 \in 0..21 /\ (m - 1) + 1 = m
      OBVIOUS
    <3> QED BY <3>1, <3>2, Zenon
  <2>5. Bit(values[layout[k][1]], (i - 1) + 1) \in {0, 1}
    BY <2>4, LeftIs
  <2> QED BY <2>3, <2>4, <2>5
<1> QED BY <1>1, <1>2, <1>3 DEF written

\* There is room for the values.
FitIn(layout, values) ==
    \A k \in 1..Len(layout) :
       values[layout[k][1]] \in Int /\ values[layout[k][1]] \in FieldRange(layout, k)

\* The bits after start are those of the values.
WrittenAt(bits, start, layout, values) ==
    \A b \in 1..Width(layout) : bits[start + b] = WriteFields(layout, values)[b]

\* Only the fields of a layout.
FieldsOf(layout, values) == [name \in Names(layout) |-> values[name]]

\* What is written there is room for is read.
LEMMA FieldsReadBack ==
    ASSUME NEW layout, IsLayout(layout), NEW values, NEW bits, NEW start \in Nat,
           FitIn(layout, values), WrittenAt(bits, start, layout, values)
    PROVE  ReadFields(bits, start, layout) = FieldsOf(layout, values)
<1> USE DEF FitIn, WrittenAt, FieldsOf
<1>1. ASSUME NEW k \in 1..Len(layout)
      PROVE  ReadFields(bits, start, layout)[layout[k][1]] = values[layout[k][1]]
  <2>1. ASSUME NEW i \in 1..layout[k][2]
        PROVE  bits[start + Ends(layout)[k - 1] + i] = Bit(values[layout[k][1]], i)
    <3> DEFINE b == Ends(layout)[k - 1] + i
    <3>1. b \in 1..Width(layout)
      BY FieldOfBit
    <3>2. WriteFields(layout, values)[b] = Bit(values[layout[k][1]], i)
      BY WrittenBit
    <3>3. bits[start + b] = Bit(values[layout[k][1]], i)
      <4> HIDE DEF b
      <4> QED BY <3>1, <3>2
    <3>4. Ends(layout)[k - 1] \in Int /\ i \in Int
      <4>1. k - 1 \in 0..Len(layout)
        BY DEF IsLayout
      <4>2. layout[k][2] \in 1..22
        BY DEF IsLayout
      <4>3. \A w \in 1..22 : \A m \in 1..w : m \in Int
        OBVIOUS
      <4>4. i \in Int
        BY <4>2, <4>3, Zenon
      <4> QED BY <4>1, <4>4, EndsAre
    <3>5. start + b = start + Ends(layout)[k - 1] + i
      BY <3>4
    <3> HIDE DEF b
    <3> QED BY <3>3, <3>5
  <2>2. ReadField(bits, start, layout, k) = values[layout[k][1]]
    BY <2>1, FieldReadBack
  <2> QED BY <2>2, ReadIsField
<1>2. ASSUME NEW name \in Names(layout) PROVE ReadFields(bits, start, layout)[name] = values[name]
  <2>1. PICK k \in DOMAIN layout : name = layout[k][1]
    BY DEF Names
  <2> QED BY <1>1, <2>1 DEF IsLayout
<1>3. ReadFields(bits, start, layout)
         = [name \in Names(layout) |-> ReadFields(bits, start, layout)[name]]
  BY DEF ReadFields
<1> QED BY <1>2, <1>3

\* What is read there is room for, and it is written with the same bits.
LEMMA FieldsWrittenBack ==
    ASSUME NEW layout, IsLayout(layout), NEW bits, NEW start \in Nat,
           \A b \in 1..Width(layout) : bits[start + b] \in {0, 1}
    PROVE  /\ DOMAIN ReadFields(bits, start, layout) = Names(layout)
           /\ \A k \in 1..Len(layout) :
                 LET v == ReadFields(bits, start, layout)[layout[k][1]]
                 IN  /\ v \in Int /\ v \in FieldRange(layout, k)
                     /\ \A i \in 1..layout[k][2] :
                           Bit(v, i) = bits[start + (Ends(layout)[k - 1] + i)]
<1>1. DOMAIN ReadFields(bits, start, layout) = Names(layout)
  BY DEF ReadFields
<1>2. ASSUME NEW k \in 1..Len(layout)
      PROVE  LET v == ReadFields(bits, start, layout)[layout[k][1]]
             IN  /\ v \in Int /\ v \in FieldRange(layout, k)
                 /\ \A i \in 1..layout[k][2] :
                       Bit(v, i) = bits[start + (Ends(layout)[k - 1] + i)]
  <2> DEFINE v == ReadFields(bits, start, layout)[layout[k][1]]
  <2>1. v = ReadField(bits, start, layout, k)
    BY ReadIsField
  <2>2. ASSUME NEW i \in 1..layout[k][2]
        PROVE  start + (Ends(layout)[k - 1] + i) = start + Ends(layout)[k - 1] + i
    <3>1. Ends(layout)[k - 1] \in Int /\ i \in Int
      <4>1. k - 1 \in 0..Len(layout)
        BY DEF IsLayout
      <4>2. layout[k][2] \in 1..22
        BY DEF IsLayout
      <4>3. \A w \in 1..22 : \A m \in 1..w : m \in Int
        OBVIOUS
      <4>4. i \in Int
        BY <4>2, <4>3, Zenon
      <4> QED BY <4>1, <4>4, EndsAre
    <3> QED BY <3>1
  <2>3. ASSUME NEW i \in 1..layout[k][2]
        PROVE  bits[start + Ends(layout)[k - 1] + i] \in {0, 1}
    <3>1. Ends(layout)[k - 1] + i \in 1..Width(layout)
      BY FieldOfBit
    <3> QED BY <2>2, <3>1
  <2>4. /\ ReadField(bits, start, layout, k) \in Int
        /\ ReadField(bits, start, layout, k) \in FieldRange(layout, k)
        /\ \A i \in 1..layout[k][2] :
              Bit(ReadField(bits, start, layout, k), i) = bits[start + Ends(layout)[k - 1] + i]
    BY <2>3, FieldWrittenBack
  <2> HIDE DEF v
  <2>5. /\ v \in Int /\ v \in FieldRange(layout, k)
        /\ \A i \in 1..layout[k][2] : Bit(v, i) = bits[start + (Ends(layout)[k - 1] + i)]
    BY <2>1, <2>2, <2>4
  <2> QED BY <2>5 DEF v
<1> QED BY <1>1, <1>2

-----------------------------------------------------------------------------
(* The layouts of the protocol.                                            *)

LEMMA HeaderIs ==
    /\ IsLayout(Header) /\ Len(Header) = 4 /\ Width(Header) = 40
    /\ Names(Header) = {"magicLow", "magicHigh", "version", "kind"}
    /\ \A k \in 1..4 : Header[k][1] \notin Signed
<1>1. Len(Header) = 4 /\ DOMAIN Header = 1..4
  BY DEF Header
<1>2. /\ Header[1] = <<"magicLow", 16>> /\ Header[2] = <<"magicHigh", 16>>
      /\ Header[3] = <<"version", 4>> /\ Header[4] = <<"kind", 4>>
  BY DEF Header
<1>3. IsLayout(Header)
  BY <1>1, <1>2 DEF IsLayout
<1>4. Width(Header) = 40
  <2>1. /\ Ends(Header)[0] = 0
        /\ \A k \in 1..4 : Ends(Header)[k] = Ends(Header)[k - 1] + Header[k][2]
    BY <1>1, <1>3, EndsAre
  <2>2. /\ Ends(Header)[1] = Ends(Header)[0] + 16 /\ Ends(Header)[2] = Ends(Header)[1] + 16
        /\ Ends(Header)[3] = Ends(Header)[2] + 4 /\ Ends(Header)[4] = Ends(Header)[3] + 4
    BY <1>2, <2>1
  <2> QED BY <1>1, <2>1, <2>2 DEF Width
<1>5. Names(Header) = {"magicLow", "magicHigh", "version", "kind"}
  BY <1>1, <1>2 DEF Names
<1>6. \A k \in 1..4 : Header[k][1] \notin Signed
  BY <1>2 DEF Signed
<1> QED BY <1>1, <1>3, <1>4, <1>5, <1>6

LEMMA LayoutOfConnects ==
    ASSUME NEW kind \in {1, 2}
    PROVE  /\ IsLayout(Layout(kind)) /\ Len(Layout(kind)) = 2 /\ Width(Layout(kind)) = 24
           /\ Layout(kind)[1] = <<"clientId", 8>> /\ Layout(kind)[2] = <<"sequence", 16>>
           /\ Names(Layout(kind)) = {"clientId", "sequence"}
<1> DEFINE layout == Layout(kind)
<1>1. layout = <<<<"clientId", 8>>, <<"sequence", 16>>>>
  BY DEF Layout
<1>2. Len(layout) = 2 /\ DOMAIN layout = 1..2
  BY <1>1
<1>3. layout[1] = <<"clientId", 8>> /\ layout[2] = <<"sequence", 16>>
  BY <1>1
<1> HIDE DEF layout
<1>4. IsLayout(layout)
  BY <1>2, <1>3 DEF IsLayout
<1>5. Width(layout) = 24
  <2>1. /\ Ends(layout)[0] = 0
        /\ \A k \in 1..2 : Ends(layout)[k] = Ends(layout)[k - 1] + layout[k][2]
    BY <1>2, <1>4, EndsAre
  <2>2. Ends(layout)[1] = Ends(layout)[0] + 8 /\ Ends(layout)[2] = Ends(layout)[1] + 16
    BY <1>3, <2>1
  <2> QED BY <1>2, <2>1, <2>2 DEF Width
<1>6. Names(layout) = {"clientId", "sequence"}
  BY <1>2, <1>3 DEF Names
<1> QED BY <1>2, <1>3, <1>4, <1>5, <1>6 DEF layout

LEMMA LayoutOfSnapshots ==
    /\ IsLayout(Layout(3)) /\ Len(Layout(3)) = 7 /\ Width(Layout(3)) = 114
    /\ Layout(3)[1] = <<"clientId", 8>> /\ Layout(3)[2] = <<"tick", 16>>
    /\ Layout(3)[3] = <<"flags", 8>> /\ Layout(3)[4] = <<"x", 22>>
    /\ Layout(3)[5] = <<"y", 22>> /\ Layout(3)[6] = <<"z", 22>>
    /\ Layout(3)[7] = <<"yaw", 16>>
    /\ Names(Layout(3)) = {"clientId", "tick", "flags", "x", "y", "z", "yaw"}
    /\ Ends(Layout(3))[6] = 98
<1> DEFINE layout == Layout(3)
<1>1. layout = <<<<"clientId", 8>>, <<"tick", 16>>, <<"flags", 8>>, <<"x", 22>>, <<"y", 22>>,
                <<"z", 22>>, <<"yaw", 16>>>>
  BY DEF Layout, PositionBits
<1>2. Len(layout) = 7 /\ DOMAIN layout = 1..7
  BY <1>1
<1>3. /\ layout[1] = <<"clientId", 8>> /\ layout[2] = <<"tick", 16>>
      /\ layout[3] = <<"flags", 8>> /\ layout[4] = <<"x", 22>>
      /\ layout[5] = <<"y", 22>> /\ layout[6] = <<"z", 22>> /\ layout[7] = <<"yaw", 16>>
  BY <1>1
<1> HIDE DEF layout
<1>4. IsLayout(layout)
  BY <1>2, <1>3 DEF IsLayout
<1>5. Width(layout) = 114 /\ Ends(layout)[6] = 98 /\ Ends(layout)[0] = 0
  <2>1. /\ Ends(layout)[0] = 0
        /\ \A k \in 1..7 : Ends(layout)[k] = Ends(layout)[k - 1] + layout[k][2]
    BY <1>2, <1>4, EndsAre
  <2>2. /\ Ends(layout)[1] = Ends(layout)[0] + 8 /\ Ends(layout)[2] = Ends(layout)[1] + 16
        /\ Ends(layout)[3] = Ends(layout)[2] + 8 /\ Ends(layout)[4] = Ends(layout)[3] + 22
        /\ Ends(layout)[5] = Ends(layout)[4] + 22 /\ Ends(layout)[6] = Ends(layout)[5] + 22
        /\ Ends(layout)[7] = Ends(layout)[6] + 16
    BY <1>3, <2>1
  <2> QED BY <1>2, <2>1, <2>2 DEF Width
<1>6. Names(layout) = {"clientId", "tick", "flags", "x", "y", "z", "yaw"}
  BY <1>2, <1>3 DEF Names
<1> QED BY <1>2, <1>3, <1>4, <1>5, <1>6 DEF layout

LEMMA LayoutOfEvents ==
    /\ IsLayout(Layout(4)) /\ Len(Layout(4)) = 3 /\ Width(Layout(4)) = 32
    /\ Layout(4)[1] = <<"event", 8>> /\ Layout(4)[2] = <<"clientId", 8>>
    /\ Layout(4)[3] = <<"sequence", 16>>
    /\ Names(Layout(4)) = {"event", "clientId", "sequence"}
<1> DEFINE layout == Layout(4)
<1>1. layout = <<<<"event", 8>>, <<"clientId", 8>>, <<"sequence", 16>>>>
  BY DEF Layout
<1>2. Len(layout) = 3 /\ DOMAIN layout = 1..3
  BY <1>1
<1>3. /\ layout[1] = <<"event", 8>> /\ layout[2] = <<"clientId", 8>>
      /\ layout[3] = <<"sequence", 16>>
  BY <1>1
<1> HIDE DEF layout
<1>4. IsLayout(layout)
  BY <1>2, <1>3 DEF IsLayout
<1>5. Width(layout) = 32
  <2>1. /\ Ends(layout)[0] = 0
        /\ \A k \in 1..3 : Ends(layout)[k] = Ends(layout)[k - 1] + layout[k][2]
    BY <1>2, <1>4, EndsAre
  <2>2. /\ Ends(layout)[1] = Ends(layout)[0] + 8 /\ Ends(layout)[2] = Ends(layout)[1] + 8
        /\ Ends(layout)[3] = Ends(layout)[2] + 16
    BY <1>3, <2>1
  <2> QED BY <1>2, <2>1, <2>2 DEF Width
<1>6. Names(layout) = {"event", "clientId", "sequence"}
  BY <1>2, <1>3 DEF Names
<1> QED BY <1>2, <1>3, <1>4, <1>5, <1>6 DEF layout

-----------------------------------------------------------------------------
(* What the wire rounds.                                                   *)

LEMMA PartsAre ==
    /\ Parts \in Nat \ {0} /\ Parts \div 2 \in Nat \ {0} /\ Parts = 2 * (Parts \div 2)
BY PartsAssumption

\* Rounding goes to the nearest step, and leaves steps alone.
LEMMA RoundedIs ==
    ASSUME NEW b \in Int
    PROVE  /\ Rounded(b) \in Int /\ 2 * (Rounded(b) * Parts - b) \in (-Parts)..Parts
           /\ b >= 0 => Rounded(b) = (b + Parts \div 2) \div Parts
<1> DEFINE h == Parts \div 2
           q == (b + h) \div Parts
           m == (h - b) \div Parts
<1>1. Parts \in Nat \ {0} /\ h \in Nat \ {0} /\ Parts = 2 * h
  BY PartsAre
<1>2. Rounded(b) = IF b >= 0 THEN q ELSE -m
  BY DEF Rounded
<1> HIDE DEF h
<1>3. b + h \in Int /\ h - b \in Int
  BY <1>1
<1>4. q \in Int /\ (b + h) % Parts \in 0..(Parts - 1) /\ b + h = Parts * q + ((b + h) % Parts)
  BY <1>3, <1>1, Division
<1>5. m \in Int /\ (h - b) % Parts \in 0..(Parts - 1) /\ h - b = Parts * m + ((h - b) % Parts)
  BY <1>3, <1>1, Division
<1> HIDE DEF q, m
<1>6. \A x, y \in Int : x * y = y * x /\ (-x) * y = -(y * x)
  OBVIOUS
<1>7. Parts * q \in Int /\ Parts * m \in Int /\ q * Parts = Parts * q /\ (-m) * Parts = -(Parts * m)
  BY <1>1, <1>4, <1>5, <1>6
<1>8. CASE b >= 0
  <2>1. Rounded(b) = q
    BY <1>2, <1>8
  <2>2. 2 * (Parts * q - b) \in (-Parts)..Parts
    BY <1>1, <1>4, <1>7
  <2>3. Rounded(b) * Parts = Parts * q
    BY <1>7, <2>1
  <2> QED BY <1>4, <2>1, <2>2, <2>3 DEF q, h
<1>9. CASE ~ (b >= 0)
  <2>1. Rounded(b) = -m
    BY <1>2, <1>9
  <2>2. 2 * (-(Parts * m) - b) \in (-Parts)..Parts
    BY <1>1, <1>5, <1>7
  <2>3. Rounded(b) * Parts = -(Parts * m)
    BY <1>7, <2>1
  <2> QED BY <1>5, <1>9, <2>1, <2>2, <2>3
<1> QED BY <1>8, <1>9

LEMMA RoundedSteps ==
    ASSUME NEW v \in Int
    PROVE  Rounded(v * Parts) = v
<1> DEFINE h == Parts \div 2
           b == v * Parts
<1>1. Parts \in Nat \ {0} /\ h \in Nat \ {0} /\ Parts = 2 * h
  BY PartsAre
<1>2. Rounded(b) = IF b >= 0 THEN (b + h) \div Parts ELSE -((h - b) \div Parts)
  BY DEF Rounded
<1> HIDE DEF h
<1>3. b \in Int /\ h \in 0..(Parts - 1) /\ -v \in Int
  BY <1>1
<1>4. b + h = Parts * v + h /\ h - b = Parts * (-v) + h
  BY <1>1
<1> HIDE DEF b
<1>5. (b + h) \div Parts = v /\ (h - b) \div Parts = -v
  BY <1>1, <1>3, <1>4, QuotientIs
<1> QED BY <1>2, <1>5 DEF b

\* As far as positions reach.
Reach == 2^(PositionBits - 1)

LEMMA PositionsAre ==
    Reach \in Nat \ {0} /\ Positions = (-Reach)..(Reach - 1)
<1>1. PositionBits - 1 \in 0..21
  BY DEF PositionBits
<1>2. Reach \in Nat \ {0}
  BY <1>1, PowersOfTwo DEF Reach
<1> QED BY <1>2 DEF Positions, Reach

LEMMA QuantizedPosition ==
    ASSUME NEW b \in Int
    PROVE  /\ QuantizePosition(b) \in Positions
           /\ Rounded(b) \in Positions => QuantizePosition(b) = Rounded(b)
<1>1. Rounded(b) \in Int
  BY RoundedIs
<1>2. QuantizePosition(b) = Clamp(Rounded(b), -Reach, Reach - 1)
  BY DEF QuantizePosition, Reach
<1> QED BY <1>1, <1>2, PositionsAre DEF Clamp

LEMMA PositionKept ==
    ASSUME NEW v \in Positions
    PROVE  DequantizePosition(v) \in Int /\ QuantizePosition(DequantizePosition(v)) = v
<1>1. v \in Int
  BY PositionsAre
<1>2. DequantizePosition(v) = v * Parts /\ v * Parts \in Int
  BY <1>1, PartsAre DEF DequantizePosition
<1>3. Rounded(v * Parts) = v
  BY <1>1, RoundedSteps
<1> QED BY <1>2, <1>3, QuantizedPosition

\* A position that is rounded is the nearest one there is room for.
LEMMA PositionIsClose ==
    ASSUME NEW b \in Int
    PROVE  ClosePosition(DequantizePosition(QuantizePosition(b)), b)
<1> DEFINE v == QuantizePosition(b)
<1>1. v \in Positions /\ (Rounded(b) \in Positions => v = Rounded(b))
  BY QuantizedPosition
<1> HIDE DEF v
<1>2. v \in Int
  BY <1>1, PositionsAre
<1>3. DequantizePosition(v) = v * Parts
  BY DEF DequantizePosition
<1>4. CASE Rounded(b) \in Positions
  <2>1. v = Rounded(b)
    BY <1>1, <1>4
  <2>2. Close(v * Parts, b)
    BY <2>1, RoundedIs DEF Close
  <2> QED BY <1>3, <2>2 DEF ClosePosition, v
<1>5. CASE Rounded(b) \notin Positions
  <2>1. Rounded(DequantizePosition(v)) = v
    BY <1>2, <1>3, RoundedSteps
  <2> QED BY <1>5, <2>1 DEF ClosePosition, v
<1> QED BY <1>4, <1>5

LEMMA FullTurnIs ==
    YawMax \in Nat \ {0} /\ FullTurn \in Nat \ {0} /\ FullTurn = YawMax * Parts
<1>1. YawMax \in Nat \ {0}
  BY DEF YawMax
<1> QED BY <1>1, PartsAre DEF FullTurn

LEMMA WithinTheTurn ==
    ASSUME NEW b \in Int
    PROVE  b % FullTurn \in 0..(FullTurn - 1) /\ b % FullTurn \in Int
<1>1. FullTurn \in Nat \ {0}
  BY FullTurnIs
<1>2. b % FullTurn \in 0..(FullTurn - 1)
  BY <1>1, Division
<1> QED BY <1>1, <1>2

LEMMA QuantizedYaw ==
    ASSUME NEW b \in Int
    PROVE  QuantizeYaw(b) \in 0..YawMax /\ QuantizeYaw(b) = Rounded(b % FullTurn)
<1> DEFINE m == b % FullTurn
           h == Parts \div 2
           q == (m + h) \div Parts
<1>1. m \in 0..(FullTurn - 1)
  BY WithinTheTurn
<1>2. Parts \in Nat \ {0} /\ h \in Nat \ {0} /\ Parts = 2 * h
  BY PartsAre
<1>3. QuantizeYaw(b) = Clamp(Rounded(m), 0, YawMax)
  BY DEF QuantizeYaw
<1> HIDE DEF m, h
<1>4. m \in Int /\ m >= 0 /\ m + h \in Int
  BY <1>1, <1>2, FullTurnIs
<1>5. Rounded(m) = q
  BY <1>4, RoundedIs DEF h
<1>6. q \in Int /\ (m + h) % Parts \in 0..(Parts - 1) /\ m + h = Parts * q + ((m + h) % Parts)
  BY <1>2, <1>4, Division
<1> HIDE DEF q
<1>7. m + h \in 0..(YawMax * Parts + Parts - 1)
  BY <1>1, <1>2, FullTurnIs
<1>8. q \in 0..YawMax
  <2>1. ASSUME q <= -1 PROVE FALSE
    <3>1. Parts * q <= -Parts
      BY <1>2, <1>6, <2>1
    <3> QED BY <1>2, <1>6, <1>7, <3>1
  <2>2. ASSUME q >= YawMax + 1 PROVE FALSE
    <3>1. Parts * q >= YawMax * Parts + Parts
      <4>1. \A p, y \in Nat \ {0}, x \in Int : x >= y + 1 => p * x >= y * p + p
        OBVIOUS
      <4> QED BY <1>2, <1>6, <2>2, <4>1, FullTurnIs
    <3>2. YawMax * Parts \in Int
      BY FullTurnIs
    <3> QED BY <1>2, <1>6, <1>7, <3>1, <3>2
  <2>3. q \in Int /\ YawMax \in Int
    BY <1>6, FullTurnIs
  <2> QED BY <2>1, <2>2, <2>3
<1>9. Clamp(q, 0, YawMax) = q
  BY <1>8, FullTurnIs DEF Clamp
<1> QED BY <1>3, <1>5, <1>8, <1>9 DEF m

\* A yaw that is rounded is near the one it was, around the circle.
LEMMA YawIsClose ==
    ASSUME NEW b \in Int
    PROVE  CloseYaw(DequantizeYaw(QuantizeYaw(b)), b)
<1> DEFINE m == b % FullTurn
<1>1. m \in 0..(FullTurn - 1)
  BY WithinTheTurn
<1>2. QuantizeYaw(b) = Rounded(m)
  BY QuantizedYaw
<1> HIDE DEF m
<1>3. m \in Int
  BY <1>1, FullTurnIs
<1>4. Close(Rounded(m) * Parts, m)
  BY <1>3, RoundedIs DEF Close
<1>5. m + 0 * FullTurn = m
  BY <1>3, FullTurnIs
<1>6. Close(DequantizeYaw(QuantizeYaw(b)), (b % FullTurn) + 0 * FullTurn)
  BY <1>2, <1>4, <1>5 DEF DequantizeYaw, m
<1> QED BY <1>6 DEF CloseYaw

\* A yaw of whole steps stays, and the full turn becomes zero.
LEMMA YawKept ==
    ASSUME NEW v \in 0..YawMax
    PROVE  /\ DequantizeYaw(v) \in Int
           /\ DequantizeYaw(v) = FullTurn <=> v = YawMax
           /\ QuantizeYaw(DequantizeYaw(v)) = IF v = YawMax THEN 0 ELSE v
<1> DEFINE b == v * Parts
<1>1. Parts \in Nat \ {0} /\ YawMax \in Nat \ {0} /\ v \in Int
  BY PartsAre, FullTurnIs
<1>2. DequantizeYaw(v) = b /\ b \in Int
  BY <1>1 DEF DequantizeYaw
<1>3. v <= (YawMax - 1) => b <= (YawMax - 1) * Parts
  BY <1>1
<1>4. v = YawMax => b = FullTurn
  BY FullTurnIs
<1>5. b >= 0
  BY <1>1
<1>6. CASE v = YawMax
  <2>1. b = FullTurn * 1 + 0 /\ 0 \in 0..(FullTurn - 1) /\ 1 \in Int
    BY <1>4, <1>6, FullTurnIs
  <2>2. b % FullTurn = 0
    <3> HIDE DEF b
    <3> QED BY <1>2, <2>1, FullTurnIs, QuotientIs
  <2>3. Rounded(0) = 0
    <3>1. 0 * Parts = 0
      BY <1>1
    <3> QED BY <3>1, RoundedSteps
  <2> QED BY <1>2, <1>4, <1>6, <2>2, <2>3, QuantizedYaw
<1>7. CASE v # YawMax
  <2>1. v <= YawMax - 1
    BY <1>1, <1>7
  <2>2. b < FullTurn
    <3>1. b <= (YawMax - 1) * Parts
      BY <1>3, <2>1
    <3>2. \A p, y \in Nat \ {0}, x \in Int : x <= (y - 1) * p => x < y * p
      OBVIOUS
    <3> HIDE DEF b
    <3>3. b < YawMax * Parts
      BY <1>1, <1>2, <3>1, <3>2
    <3> QED BY <3>3, FullTurnIs
  <2>3. b = FullTurn * 0 + b /\ b \in 0..(FullTurn - 1) /\ 0 \in Int
    <3> HIDE DEF b
    <3> QED BY <1>2, <1>5, <2>2, FullTurnIs
  <2>4. b % FullTurn = b
    <3> HIDE DEF b
    <3> QED BY <1>2, <2>3, FullTurnIs, QuotientIs
  <2>5. Rounded(b) = v
    BY RoundedSteps
  <2> HIDE DEF b
  <2>6. b # FullTurn
    BY <1>2, <2>2, FullTurnIs
  <2>7. QuantizeYaw(b) = v
    BY <1>2, <2>4, <2>5, QuantizedYaw
  <2> QED BY <1>2, <1>7, <2>6, <2>7
<1> QED BY <1>6, <1>7

\* What is near the full turn is near no turn, around the circle.
LEMMA FullTurnIsNoTurn ==
    ASSUME NEW b \in Int, CloseYaw(FullTurn, b)
    PROVE  CloseYaw(0, b)
<1> DEFINE m == b % FullTurn
<1>1. m \in 0..(FullTurn - 1) /\ FullTurn \in Nat \ {0}
  BY FullTurnIs, WithinTheTurn
<1>2. PICK turn \in {-1, 0, 1} : Close(FullTurn, m + turn * FullTurn)
  BY DEF CloseYaw
<1>3. Parts \in Nat \ {0}
  BY PartsAre
<1>4. turn # -1
  <2>1. SUFFICES ASSUME turn = -1 PROVE FALSE
    OBVIOUS
  <2>2. 2 * (FullTurn - (m + (-1) * FullTurn)) \in (-Parts)..Parts
    BY <1>2, <2>1 DEF Close
  <2>3. Parts <= FullTurn
    <3>1. \A p, y \in Nat \ {0} : p <= y * p
      OBVIOUS
    <3> QED BY <1>3, <3>1, FullTurnIs
  <2>4. m \in Int /\ m <= FullTurn - 1 /\ FullTurn \in Int
    BY <1>1
  <2> HIDE DEF m
  <2> QED BY <1>3, <2>2, <2>3, <2>4
<1>5. turn - 1 \in {-1, 0}
  BY <1>2, <1>4
<1>6. 2 * (0 - (m + (turn - 1) * FullTurn)) = 2 * (FullTurn - (m + turn * FullTurn))
  <2> HIDE DEF m
  <2>1. CASE turn = 0
    BY <1>1, <2>1
  <2>2. CASE turn = 1
    BY <1>1, <2>2
  <2> QED BY <1>2, <1>4, <2>1, <2>2
<1>7. Close(0, m + (turn - 1) * FullTurn)
  BY <1>2, <1>6 DEF Close
<1> QED BY <1>5, <1>7 DEF CloseYaw

\* What there is room for in a field of so many bits.
LEMMA RangesAre ==
    /\ Positions = SignedRange(22)
    /\ Unsigned(16) = 0..YawMax /\ 17217 \in Unsigned(16) /\ 12630 \in Unsigned(16)
    /\ {1, 2} \subseteq Unsigned(8)
    /\ 1..4 \subseteq Unsigned(4)
    /\ \A w \in 1..22 : Unsigned(w) \subseteq Int
<1>1. Positions = SignedRange(22)
  <2>1. Positions = SignedRange(PositionBits)
    BY DEF Positions, SignedRange
  <2>2. PositionBits = 22
    BY DEF PositionBits
  <2> QED BY <2>1, <2>2
<1>2. ASSUME NEW w, w = 16
      PROVE  Unsigned(w) = 0..YawMax /\ 17217 \in Unsigned(w) /\ 12630 \in Unsigned(w)
  <2>1. 2^w = 65536
    BY <1>2
  <2>2. 2^w - 1 = YawMax
    BY <2>1 DEF YawMax
  <2>3. Unsigned(w) = 0..YawMax
    BY <2>2 DEF Unsigned
  <2>4. 17217 <= YawMax /\ 12630 <= YawMax /\ YawMax \in Int
    BY DEF YawMax
  <2>5. \A n \in Int : 17217 <= n /\ 12630 <= n => 17217 \in 0..n /\ 12630 \in 0..n
    OBVIOUS
  <2> QED BY <2>3, <2>4, <2>5
<1>3. {1, 2} \subseteq Unsigned(8)
  BY DEF Unsigned
<1>4. 1..4 \subseteq Unsigned(4)
  BY DEF Unsigned
<1>5. ASSUME NEW w \in 1..22 PROVE Unsigned(w) \subseteq Int
  BY DEF Unsigned
<1> QED BY <1>1, <1>2, <1>3, <1>4, <1>5

-----------------------------------------------------------------------------
(* Whole packets.                                                          *)

Packets == ConnectPackets \cup ActorSnapshots \cup ServerEventPackets

\* Packets as they are on the wire: positions and yaws in steps.
WireSnapshots ==
    [kind : {3}, clientId : Unsigned(8), tick : Unsigned(16), flags : Unsigned(8),
     x : Positions, y : Positions, z : Positions, yaw : Unsigned(16)]

WirePackets == ConnectPackets \cup WireSnapshots \cup ServerEventPackets

LEMMA PacketIsNotNone ==
    \A packet \in Packets : packet # None /\ packet # Pending
BY NoneAssumption DEF Packets

LEMMA QuantizedPackets ==
    ASSUME NEW packet \in Packets
    PROVE  Quantized(packet) \in WirePackets /\ Quantized(packet).kind = packet.kind
<1>1. CASE packet \in ConnectPackets \cup ServerEventPackets
  <2>1. packet.kind # 3
    BY <1>1 DEF ConnectPackets, ServerEventPackets
  <2> QED BY <1>1, <2>1 DEF Quantized, WirePackets
<1>2. CASE packet \in ActorSnapshots
  <2>1. /\ packet.kind = 3 /\ packet.x \in Int /\ packet.y \in Int /\ packet.z \in Int
        /\ packet.yaw \in Int
    BY <1>2 DEF ActorSnapshots
  <2>2. /\ QuantizePosition(packet.x) \in Positions /\ QuantizePosition(packet.y) \in Positions
        /\ QuantizePosition(packet.z) \in Positions /\ QuantizeYaw(packet.yaw) \in Unsigned(16)
    <3>1. Unsigned(16) = 0..YawMax
      BY RangesAre
    <3>2. QuantizeYaw(packet.yaw) \in Unsigned(16)
      BY <2>1, <3>1, QuantizedYaw
    <3> QED BY <2>1, <3>2, QuantizedPosition
  <2>3. Quantized(packet) = [packet EXCEPT !.x = QuantizePosition(@), !.y = QuantizePosition(@),
                                           !.z = QuantizePosition(@), !.yaw = QuantizeYaw(@)]
    BY <2>1 DEF Quantized
  <2>4. Quantized(packet) \in WireSnapshots
    BY <1>2, <2>2, <2>3 DEF ActorSnapshots, WireSnapshots
  <2> QED BY <2>1, <2>4 DEF WirePackets, WireSnapshots
<1> QED BY <1>1, <1>2 DEF Packets

LEMMA DequantizedPackets ==
    ASSUME NEW wire \in WirePackets
    PROVE  Dequantized(wire) \in Packets /\ Dequantized(wire).kind = wire.kind
<1>1. CASE wire \in ConnectPackets \cup ServerEventPackets
  <2>1. wire.kind # 3
    BY <1>1 DEF ConnectPackets, ServerEventPackets
  <2> QED BY <1>1, <2>1 DEF Dequantized, Packets
<1>2. CASE wire \in WireSnapshots
  <2>1. /\ wire.kind = 3 /\ wire.x \in Positions /\ wire.y \in Positions
        /\ wire.z \in Positions /\ wire.yaw \in 0..YawMax
    <3>1. Unsigned(16) = 0..YawMax
      BY RangesAre
    <3> QED BY <1>2, <3>1 DEF WireSnapshots
  <2>2. /\ DequantizePosition(wire.x) \in Int /\ DequantizePosition(wire.y) \in Int
        /\ DequantizePosition(wire.z) \in Int /\ DequantizeYaw(wire.yaw) \in Int
    BY <2>1, PositionKept, YawKept
  <2>3. Dequantized(wire) = [wire EXCEPT !.x = DequantizePosition(@), !.y = DequantizePosition(@),
                                         !.z = DequantizePosition(@), !.yaw = DequantizeYaw(@)]
    BY <2>1 DEF Dequantized
  <2>4. Dequantized(wire) \in ActorSnapshots
    BY <1>2, <2>2, <2>3 DEF ActorSnapshots, WireSnapshots
  <2> QED BY <2>1, <2>4 DEF Packets, ActorSnapshots
<1> QED BY <1>1, <1>2 DEF WirePackets

\* Every kind of packet has a layout, no wider than this.
LEMMA LayoutsAre ==
    ASSUME NEW kind \in 1..4
    PROVE  /\ IsLayout(Layout(kind)) /\ Width(Layout(kind)) \in {24, 32, 114}
           /\ "kind" \notin Names(Layout(kind))
<1>1. CASE kind \in {1, 2}
  BY <1>1, LayoutOfConnects
<1>2. CASE kind = 3
  BY <1>2, LayoutOfSnapshots
<1>3. CASE kind = 4
  BY <1>3, LayoutOfEvents
<1> QED BY <1>1, <1>2, <1>3

\* The fields of a packet on the wire fit.
LEMMA WireFieldsFit ==
    ASSUME NEW wire \in WirePackets
    PROVE  /\ wire.kind \in 1..4
           /\ wire = [name \in Names(Layout(wire.kind)) \cup {"kind"} |-> wire[name]]
           /\ FitIn(Layout(wire.kind), wire)
           /\ wire.kind = 4 => wire.event \in {1, 2}
<1> DEFINE layout == Layout(wire.kind)
<1>1. CASE wire \in ConnectPackets
  <2>1. /\ wire.kind \in {1, 2} /\ wire.clientId \in Unsigned(8) /\ wire.sequence \in Unsigned(16)
        /\ wire = [name \in {"kind", "clientId", "sequence"} |-> wire[name]]
    BY <1>1 DEF ConnectPackets
  <2>2. /\ Len(layout) = 2 /\ layout[1] = <<"clientId", 8>> /\ layout[2] = <<"sequence", 16>>
        /\ Names(layout) = {"clientId", "sequence"}
    BY <2>1, LayoutOfConnects
  <2> HIDE DEF layout
  <2>3. \A k \in 1..Len(layout) : wire[layout[k][1]] \in FieldRange(layout, k)
    BY <2>1, <2>2 DEF FieldRange, Signed
  <2>4. \A k \in 1..Len(layout) : wire[layout[k][1]] \in Int
    BY <2>1, <2>2, RangesAre
  <2>5. wire = [name \in Names(layout) \cup {"kind"} |-> wire[name]]
    <3>1. Names(layout) \cup {"kind"} = {"kind", "clientId", "sequence"}
      BY <2>2
    <3> QED BY <2>1, <3>1
  <2> QED BY <2>1, <2>3, <2>4, <2>5 DEF FitIn, layout
<1>2. CASE wire \in ServerEventPackets
  <2>1. /\ wire.kind = 4 /\ wire.event \in {1, 2} /\ wire.clientId \in Unsigned(8)
        /\ wire.sequence \in Unsigned(16)
        /\ wire = [name \in {"kind", "event", "clientId", "sequence"} |-> wire[name]]
    BY <1>2 DEF ServerEventPackets
  <2>2. /\ Len(layout) = 3 /\ layout[1] = <<"event", 8>> /\ layout[2] = <<"clientId", 8>>
        /\ layout[3] = <<"sequence", 16>> /\ Names(layout) = {"event", "clientId", "sequence"}
    BY <2>1, LayoutOfEvents
  <2>3. wire.event \in Unsigned(8)
    BY <2>1, RangesAre
  <2> HIDE DEF layout
  <2>4. \A k \in 1..Len(layout) : wire[layout[k][1]] \in FieldRange(layout, k)
    BY <2>1, <2>2, <2>3 DEF FieldRange, Signed
  <2>5. \A k \in 1..Len(layout) : wire[layout[k][1]] \in Int
    BY <2>1, <2>2, RangesAre
  <2>6. wire = [name \in Names(layout) \cup {"kind"} |-> wire[name]]
    <3>1. Names(layout) \cup {"kind"} = {"kind", "event", "clientId", "sequence"}
      BY <2>2
    <3> QED BY <2>1, <3>1
  <2>7. \A k \in 1..Len(layout) :
           wire[layout[k][1]] \in Int /\ wire[layout[k][1]] \in FieldRange(layout, k)
    BY <2>4, <2>5
  <2>8. wire.kind \in 1..4
    BY <2>1
  <2> QED BY <2>1, <2>6, <2>7, <2>8, Zenon DEF FitIn, layout
<1>3. CASE wire \in WireSnapshots
  <2>1. /\ wire.kind = 3 /\ wire.clientId \in Unsigned(8) /\ wire.tick \in Unsigned(16)
        /\ wire.flags \in Unsigned(8) /\ wire.x \in Positions /\ wire.y \in Positions
        /\ wire.z \in Positions /\ wire.yaw \in Unsigned(16)
        /\ wire = [name \in {"kind", "clientId", "tick", "flags", "x", "y", "z", "yaw"} |->
                      wire[name]]
    BY <1>3 DEF WireSnapshots
  <2>2. /\ Len(layout) = 7 /\ layout[1] = <<"clientId", 8>> /\ layout[2] = <<"tick", 16>>
        /\ layout[3] = <<"flags", 8>> /\ layout[4] = <<"x", 22>> /\ layout[5] = <<"y", 22>>
        /\ layout[6] = <<"z", 22>> /\ layout[7] = <<"yaw", 16>>
        /\ Names(layout) = {"clientId", "tick", "flags", "x", "y", "z", "yaw"}
    BY <2>1, LayoutOfSnapshots
  <2>3. wire.x \in SignedRange(22) /\ wire.y \in SignedRange(22) /\ wire.z \in SignedRange(22)
    BY <2>1, RangesAre
  <2>4. Positions \subseteq Int
    BY PositionsAre
  <2> HIDE DEF layout
  <2>5. \A k \in 1..Len(layout) : wire[layout[k][1]] \in FieldRange(layout, k)
    BY <2>1, <2>2, <2>3 DEF FieldRange, Signed
  <2>6. \A k \in 1..Len(layout) : wire[layout[k][1]] \in Int
    <3>1. Unsigned(8) \subseteq Int /\ Unsigned(16) \subseteq Int
      BY RangesAre
    <3>2. /\ wire.clientId \in Int /\ wire.tick \in Int /\ wire.flags \in Int /\ wire.x \in Int
          /\ wire.y \in Int /\ wire.z \in Int /\ wire.yaw \in Int
      BY <2>1, <2>4, <3>1
    <3> QED BY <2>2, <3>2
  <2>7. wire = [name \in Names(layout) \cup {"kind"} |-> wire[name]]
    <3>1. Names(layout) \cup {"kind"}
             = {"kind", "clientId", "tick", "flags", "x", "y", "z", "yaw"}
      BY <2>2
    <3> QED BY <2>1, <3>1
  <2>8. \A k \in 1..Len(layout) :
           wire[layout[k][1]] \in Int /\ wire[layout[k][1]] \in FieldRange(layout, k)
    BY <2>5, <2>6
  <2>9. wire.kind \in 1..4 /\ wire.kind # 4
    BY <2>1
  <2> QED BY <2>7, <2>8, <2>9, Zenon DEF FitIn, layout
<1> QED BY <1>1, <1>2, <1>3 DEF WirePackets

\* The header of a packet, and the bits it is written with.
LEMMA MarksFit ==
    ASSUME NEW kind \in 1..4
    PROVE  /\ FitIn(Header, Marks(kind))
           /\ FieldsOf(Header, Marks(kind)) = Marks(kind)
           /\ Marks(kind).kind = kind
<1> DEFINE marks == Marks(kind)
<1>1. /\ marks.magicLow = 17217 /\ marks.magicHigh = 12630 /\ marks.version = 1
      /\ marks.kind = kind
      /\ marks = [name \in {"magicLow", "magicHigh", "version", "kind"} |-> marks[name]]
  BY DEF Marks
<1> HIDE DEF marks
<1>2. /\ Header[1] = <<"magicLow", 16>> /\ Header[2] = <<"magicHigh", 16>>
      /\ Header[3] = <<"version", 4>> /\ Header[4] = <<"kind", 4>>
  BY DEF Header
<1>3. \A k \in 1..4 : FieldRange(Header, k) = Unsigned(Header[k][2])
  BY HeaderIs DEF FieldRange
<1>4. /\ marks.magicLow \in Unsigned(16) /\ marks.magicHigh \in Unsigned(16)
      /\ marks.version \in Unsigned(4) /\ marks.kind \in Unsigned(4)
  BY <1>1, RangesAre
<1>5. \A k \in 1..4 : marks[Header[k][1]] \in FieldRange(Header, k)
  BY <1>2, <1>3, <1>4
<1>6. \A k \in 1..4 : marks[Header[k][1]] \in Int
  BY <1>1, <1>2
<1>7. FieldsOf(Header, marks) = marks
  BY <1>1, HeaderIs DEF FieldsOf
<1>8. FitIn(Header, marks)
  <2>1. Len(Header) = 4
    BY HeaderIs
  <2> QED BY <1>5, <1>6, <2>1 DEF FitIn
<1>9. marks.kind = kind
  BY <1>1
<1> QED BY <1>7, <1>8, <1>9 DEF marks

\* The bits begin with the header of a kind.
HeaderAt(bits, kind) == \A b \in 1..40 : bits[b] = WriteFields(Header, Marks(kind))[b]

LEMMA SameHeader ==
    ASSUME NEW bits, NEW whole, NEW kind, NEW n \in Nat, n >= 40,
           \A b \in 1..n : bits[b] = whole[b]
    PROVE  HeaderAt(bits, kind) <=> HeaderAt(whole, kind)
<1>1. \A b \in 1..40 : b \in 1..n
  <2>1. \A m \in Nat : m >= 40 => \A b \in 1..40 : b \in 1..m
    OBVIOUS
  <2> QED BY <2>1
<1> QED BY <1>1, Zenon DEF HeaderAt

\* Bits that begin with the header of a kind are a packet of that kind, if of any.
LEMMA HeaderReadBack ==
    ASSUME NEW kind \in 1..4, NEW bits, Len(bits) \in Nat, Len(bits) >= 40,
           HeaderAt(bits, kind)
    PROVE  ReadHeader(bits) = kind
<1>1. FitIn(Header, Marks(kind))
  BY MarksFit
<1>2. WrittenAt(bits, 0, Header, Marks(kind))
  <2>1. Width(Header) = 40
    BY HeaderIs
  <2>2. \A b \in 1..40 : 0 + b = b
    OBVIOUS
  <2> QED BY <2>1, <2>2, Zenon DEF WrittenAt, HeaderAt
<1>3. 0 \in Nat /\ IsLayout(Header)
  BY HeaderIs
<1>4. ReadFields(bits, 0, Header) = FieldsOf(Header, Marks(kind))
  BY <1>1, <1>2, <1>3, FieldsReadBack
<1>5. ReadFields(bits, 0, Header) = Marks(kind) /\ Marks(kind).kind = kind
  BY <1>4, MarksFit
<1>6. ~ (Len(bits) < Width(Header))
  BY HeaderIs
<1> QED BY <1>5, <1>6 DEF ReadHeader

LEMMA LongEnough ==
    ASSUME NEW n \in Nat, NEW w \in {24, 32, 114}, n >= 40 + w
    PROVE  n >= 40 /\ ~ (n < 40 + w)
OBVIOUS

\* Bits that begin with those of a packet are that packet.
LEMMA PacketReadBack ==
    ASSUME NEW wire \in WirePackets, NEW bits, Len(bits) \in Nat,
           Len(bits) >= 40 + Width(Layout(wire.kind)),
           HeaderAt(bits, wire.kind),
           \A b \in 1..Width(Layout(wire.kind)) :
              bits[40 + b] = WriteFields(Layout(wire.kind), wire)[b]
    PROVE  DecodePacket(bits) = Dequantized(wire)
<1> DEFINE kind == wire.kind
           layout == Layout(kind)
           fields == ReadFields(bits, 40, layout)
<1>1. kind \in 1..4 /\ (kind = 4 => wire.event \in {1, 2})
  BY WireFieldsFit
<1>2. IsLayout(layout) /\ Width(layout) \in {24, 32, 114} /\ "kind" \notin Names(layout)
  BY <1>1, LayoutsAre
<1>3. ReadHeader(bits) = kind
  <2>1. Len(bits) >= 40
    BY <1>2, LongEnough, Zenon
  <2> QED BY <1>1, <2>1, HeaderReadBack
<1>4. fields = FieldsOf(layout, wire)
  <2>1. FitIn(layout, wire)
    BY WireFieldsFit
  <2>2. WrittenAt(bits, 40, layout, wire)
    BY DEF WrittenAt
  <2>3. 40 \in Nat /\ IsLayout(layout)
    BY <1>2
  <2> HIDE DEF layout, kind
  <2> QED BY <2>1, <2>2, <2>3, FieldsReadBack DEF fields
<1>5. wire = [name \in Names(layout) \cup {"kind"} |-> wire[name]]
  BY WireFieldsFit
<1>6. kind # None
  BY <1>1, NoneAssumption
<1>7. ~ (Len(bits) < Width(Header) + Width(layout))
  <2>1. ~ (Len(bits) < 40 + Width(layout))
    BY <1>2, LongEnough, Zenon
  <2>2. Width(Header) = 40
    BY HeaderIs
  <2> QED BY <2>1, <2>2, Zenon
<1>8. kind = 4 => fields.event \in {1, 2}
  <2>1. kind = 4 => "event" \in Names(layout)
    BY LayoutOfEvents
  <2> HIDE DEF fields, layout
  <2> QED BY <1>1, <1>4, <2>1 DEF FieldsOf
<1>9. [name \in DOMAIN fields \cup {"kind"} |-> IF name = "kind" THEN kind ELSE fields[name]] = wire
  <2> HIDE DEF fields, layout
  <2>1. DOMAIN fields = Names(layout) /\ \A name \in Names(layout) : fields[name] = wire[name]
    BY <1>4 DEF FieldsOf
  <2>2. \A name \in Names(layout) \cup {"kind"} :
           (IF name = "kind" THEN kind ELSE fields[name]) = wire[name]
    BY <1>2, <2>1
  <2> QED BY <1>5, <2>1, <2>2
<1>10. fields = ReadFields(bits, Width(Header), layout)
  BY HeaderIs
<1> HIDE DEF fields, layout, kind
<1>11. DecodePacket(bits)
         = Dequantized([name \in DOMAIN fields \cup {"kind"} |->
                          IF name = "kind" THEN kind ELSE fields[name]])
  BY <1>3, <1>6, <1>7, <1>8, <1>10 DEF DecodePacket, layout
<1> QED BY <1>9, <1>11

BitStrings == Seq({0, 1})

\* One string of bits after another.
LEMMA Joined ==
    ASSUME NEW first \in BitStrings, NEW second \in BitStrings
    PROVE  /\ first \o second \in BitStrings
           /\ Len(first \o second) = Len(first) + Len(second) /\ Len(first \o second) \in Nat
           /\ Len(first) \in Nat /\ Len(second) \in Nat
           /\ \A b \in 1..Len(first) : (first \o second)[b] = first[b]
           /\ \A b \in 1..Len(second) : (first \o second)[Len(first) + b] = second[b]
BY DEF BitStrings

\* Padding adds fewer bits than a byte has.
LEMMA PaddedIs ==
    ASSUME NEW bits \in BitStrings
    PROVE  /\ Padded(bits) \in BitStrings
           /\ Len(Padded(bits)) \in Len(bits)..(Len(bits) + 7)
           /\ \A b \in 1..Len(bits) : Padded(bits)[b] = bits[b]
<1> DEFINE m == (-Len(bits)) % ByteBits
           zeros == [i \in 1..m |-> 0]
<1>1. m \in 0..7
  <2>1. ByteBits = 8 /\ 8 \in Nat \ {0} /\ -Len(bits) \in Int
    BY DEF ByteBits, BitStrings
  <2>2. (-Len(bits)) % 8 \in 0..(8 - 1)
    BY <2>1, Division
  <2> QED BY <2>1, <2>2
<1> HIDE DEF m
<1>2. m \in Nat /\ zeros \in [1..m -> {0, 1}]
  BY <1>1
<1>3. zeros \in Seq({0, 1}) /\ Len(zeros) = m
  <2> HIDE DEF zeros
  <2> QED BY <1>2, SequenceOf
<1>4. Padded(bits) = bits \o zeros
  BY DEF Padded, m
<1> HIDE DEF zeros
<1>5. zeros \in BitStrings
  BY <1>3 DEF BitStrings
<1>6. /\ Padded(bits) \in BitStrings /\ Len(Padded(bits)) = Len(bits) + Len(zeros)
      /\ Len(bits) \in Nat /\ \A b \in 1..Len(bits) : Padded(bits)[b] = bits[b]
  BY <1>5, <1>4, Joined
<1> QED BY <1>1, <1>3, <1>6

\* What is encoded: the bits of the header and then those of the fields.
LEMMA EncodedIs ==
    ASSUME NEW packet \in Packets
    PROVE  LET width == Width(Layout(packet.kind))
           IN  /\ packet.kind \in 1..4 /\ width \in {24, 32, 114}
               /\ Encode(packet) \in BitStrings /\ Len(Encode(packet)) \in Nat
               /\ Len(Encode(packet)) \in (40 + width)..(40 + width + 7)
               /\ HeaderAt(Encode(packet), packet.kind)
               /\ \A b \in 1..width :
                     Encode(packet)[40 + b]
                        = WriteFields(Layout(packet.kind), Quantized(packet))[b]
<1> DEFINE kind == packet.kind
           layout == Layout(kind)
           width == Width(layout)
           wire == Quantized(packet)
           first == WriteFields(Header, Marks(kind))
           second == WriteFields(layout, wire)
<1>1. wire \in WirePackets /\ wire.kind = kind
  BY QuantizedPackets
<1>2. kind \in 1..4 /\ FitIn(layout, wire)
  <2> HIDE DEF wire
  <2> QED BY <1>1, WireFieldsFit
<1>3. IsLayout(layout) /\ width \in {24, 32, 114}
  BY <1>2, LayoutsAre
<1>4. first \in BitStrings /\ Len(first) = 40
  <2>1. IsLayout(Header) /\ Width(Header) = 40
    BY HeaderIs
  <2>2. \A k \in 1..Len(Header) : Marks(kind)[Header[k][1]] \in Int
    <3>1. FitIn(Header, Marks(kind))
      BY <1>2, MarksFit
    <3> HIDE DEF kind
    <3> QED BY <3>1 DEF FitIn
  <2>3. Width(Header) \in Nat /\ first \in [1..Width(Header) -> {0, 1}]
    BY <2>1, <2>2, WrittenBits
  <2> HIDE DEF first
  <2>4. first \in [1..40 -> {0, 1}] /\ 40 \in Nat
    BY <2>1, <2>3
  <2> QED BY <2>4, SequenceOf DEF BitStrings
<1>5. second \in BitStrings /\ Len(second) = width
  <2>1. \A k \in 1..Len(layout) : wire[layout[k][1]] \in Int
    <3> HIDE DEF layout, wire
    <3> QED BY <1>2 DEF FitIn
  <2>2. width \in Nat /\ second \in [1..width -> {0, 1}]
    <3> HIDE DEF layout, wire
    <3> QED BY <1>3, <2>1, WrittenBits
  <2> HIDE DEF second, width
  <2> QED BY <2>2, SequenceOf DEF BitStrings
<1>6. Encode(packet) = Padded(first \o second)
  BY DEF Encode
<1> HIDE DEF first, second, width, layout, wire, kind
<1>7. /\ first \o second \in BitStrings /\ Len(first \o second) = 40 + width
      /\ \A b \in 1..40 : (first \o second)[b] = first[b]
      /\ \A b \in 1..width : (first \o second)[40 + b] = second[b]
  <2>1. /\ first \o second \in BitStrings
        /\ Len(first \o second) = Len(first) + Len(second)
        /\ \A b \in 1..Len(first) : (first \o second)[b] = first[b]
        /\ \A b \in 1..Len(second) : (first \o second)[Len(first) + b] = second[b]
    BY <1>4, <1>5, Joined
  <2>2. Len(first) = 40 /\ Len(second) = width
    BY <1>4, <1>5
  <2> QED BY <2>1, <2>2, Zenon
<1>8. /\ Encode(packet) \in BitStrings /\ Len(Encode(packet)) \in (40 + width)..(40 + width + 7)
      /\ \A b \in 1..(40 + width) : Encode(packet)[b] = (first \o second)[b]
  <2> DEFINE both == first \o second
  <2>1. both \in BitStrings /\ Len(both) = 40 + width
    BY <1>7
  <2> HIDE DEF both
  <2>2. /\ Padded(both) \in BitStrings /\ Len(Padded(both)) \in Len(both)..(Len(both) + 7)
        /\ \A b \in 1..Len(both) : Padded(both)[b] = both[b]
    BY <2>1, PaddedIs
  <2> QED BY <1>6, <2>1, <2>2, Zenon DEF both
<1>9. \A b \in 1..40 : b \in 1..(40 + width)
  BY <1>3
<1>10. \A b \in 1..width : 40 + b \in 1..(40 + width)
  BY <1>3
<1>11. /\ \A b \in 1..40 : Encode(packet)[b] = first[b]
       /\ \A b \in 1..width : Encode(packet)[40 + b] = second[b]
  BY <1>7, <1>8, <1>9, <1>10
<1>12. Len(Encode(packet)) \in Nat
  BY <1>8
<1> QED BY <1>2, <1>3, <1>8, <1>11, <1>12 DEF HeaderAt, first, second, width, layout, wire, kind

\* What is encoded is decoded, whatever follows it, but for what the wire rounds.
LEMMA EncodedIsDecoded ==
    ASSUME NEW packet \in Packets, NEW tail \in BitStrings
    PROVE  DecodePacket(Encode(packet) \o tail) = Dequantized(Quantized(packet))
<1> DEFINE wire == Quantized(packet)
           width == Width(Layout(packet.kind))
           bits == Encode(packet) \o tail
<1>1. wire \in WirePackets /\ wire.kind = packet.kind
  BY QuantizedPackets
<1>2. /\ width \in {24, 32, 114} /\ Encode(packet) \in BitStrings
      /\ Len(Encode(packet)) \in (40 + width)..(40 + width + 7)
      /\ HeaderAt(Encode(packet), packet.kind)
      /\ \A b \in 1..width :
            Encode(packet)[40 + b] = WriteFields(Layout(packet.kind), wire)[b]
  BY EncodedIs
<1> HIDE DEF width, wire
<1>3. width \in {24, 32, 114} /\ Encode(packet) \in BitStrings
  BY <1>2
<1>4. /\ Len(bits) = Len(Encode(packet)) + Len(tail) /\ Len(bits) \in Nat
      /\ Len(Encode(packet)) \in Nat /\ Len(tail) \in Nat
      /\ \A b \in 1..Len(Encode(packet)) : bits[b] = Encode(packet)[b]
  BY <1>3, Joined
<1> HIDE DEF bits
<1>5. Len(bits) >= 40 + width /\ Len(Encode(packet)) >= 40 + width
  <2>1. \A n, m, w \in Int :
           n \in (40 + w)..(40 + w + 7) /\ m >= 0 => n + m >= 40 + w /\ n >= 40 + w
    OBVIOUS
  <2>2. width \in Int
    BY <1>3
  <2>3. Len(Encode(packet)) \in (40 + width)..(40 + width + 7)
    BY <1>2
  <2> QED BY <1>4, <2>1, <2>2, <2>3
<1>6. \A b \in 1..(40 + width) : bits[b] = Encode(packet)[b]
  BY <1>4, <1>5, <1>3
<1>7. HeaderAt(bits, wire.kind)
  <2>1. Len(Encode(packet)) >= 40
    BY <1>4, <1>5, <1>3
  <2>2. HeaderAt(Encode(packet), wire.kind)
    BY <1>1, <1>2
  <2> QED BY <1>4, <2>1, <2>2, SameHeader
<1>8. \A b \in 1..width : bits[40 + b] = WriteFields(Layout(wire.kind), wire)[b]
  <2>1. \A b \in 1..width : 40 + b \in 1..(40 + width)
    BY <1>3
  <2>2. \A b \in 1..width : Encode(packet)[40 + b] = WriteFields(Layout(wire.kind), wire)[b]
    BY <1>1, <1>2
  <2> QED BY <1>6, <2>1, <2>2, Zenon
<1>9. width = Width(Layout(wire.kind))
  BY <1>1 DEF width
<1> QED BY <1>1, <1>4, <1>5, <1>7, <1>8, <1>9, PacketReadBack DEF bits, wire

-----------------------------------------------------------------------------
(* From the bits to the packet and back.                                   *)

BitsAt(bits, start, layout) == \A b \in 1..Width(layout) : bits[start + b] \in {0, 1}

LEMMA BitsWithin ==
    ASSUME NEW bits \in BitStrings, NEW start \in Nat, NEW layout, Width(layout) \in Nat,
           Len(bits) >= start + Width(layout)
    PROVE  BitsAt(bits, start, layout)
BY DEF BitsAt, BitStrings

\* Values that are what was read have the bits it was read from.
LEMMA ReadIsWritten ==
    ASSUME NEW layout, IsLayout(layout), NEW bits, NEW start \in Nat, NEW values,
           BitsAt(bits, start, layout),
           \A k \in 1..Len(layout) :
              values[layout[k][1]] = ReadFields(bits, start, layout)[layout[k][1]]
    PROVE  WrittenAt(bits, start, layout, values)
<1> SUFFICES ASSUME NEW b \in 1..Width(layout)
             PROVE  bits[start + b] = WriteFields(layout, values)[b]
  BY DEF WrittenAt
<1> DEFINE v(k) == ReadFields(bits, start, layout)[layout[k][1]]
<1>1. \A k \in 1..Len(layout) : \A i \in 1..layout[k][2] :
         Bit(v(k), i) = bits[start + (Ends(layout)[k - 1] + i)]
  BY FieldsWrittenBack DEF BitsAt
<1>2. PICK k \in 1..Len(layout) : \E i \in 1..layout[k][2] : b = Ends(layout)[k - 1] + i
  BY EveryBit
<1>3. PICK i \in 1..layout[k][2] : b = Ends(layout)[k - 1] + i
  BY <1>2
<1>4. WriteFields(layout, values)[b] = Bit(values[layout[k][1]], i)
  BY <1>3, WrittenBit
<1>5. values[layout[k][1]] = v(k)
  OBVIOUS
<1> HIDE DEF v
<1> QED BY <1>1, <1>3, <1>4, <1>5

\* What is read fits.
LEMMA ReadFits ==
    ASSUME NEW layout, IsLayout(layout), NEW bits, NEW start \in Nat,
           BitsAt(bits, start, layout)
    PROVE  FitIn(layout, ReadFields(bits, start, layout))
BY FieldsWrittenBack DEF BitsAt, FitIn

\* Bits that have a kind begin with the header of that kind.
LEMMA HeaderWrittenBack ==
    ASSUME NEW bits \in BitStrings, ReadHeader(bits) # None
    PROVE  /\ ReadHeader(bits) \in 1..4 /\ Len(bits) >= 40 /\ Len(bits) \in Nat
           /\ HeaderAt(bits, ReadHeader(bits))
<1> DEFINE kind == ReadHeader(bits)
           marks == ReadFields(bits, 0, Header)
<1>1. IsLayout(Header) /\ Width(Header) = 40
  BY HeaderIs
<1>2. Len(bits) \in Nat
  BY DEF BitStrings
<1>3. Len(bits) >= 40 /\ kind \in 1..4 /\ marks = Marks(kind)
  BY <1>1, <1>2 DEF ReadHeader
<1> HIDE DEF kind
<1>4. 0 \in Nat /\ Width(Header) \in Nat /\ Len(bits) >= 0 + Width(Header)
  BY <1>1, <1>2, <1>3
<1>5. BitsAt(bits, 0, Header)
  BY <1>4, BitsWithin
<1>6. \A k \in 1..Len(Header) : Marks(kind)[Header[k][1]] = marks[Header[k][1]]
  BY <1>3
<1>7. WrittenAt(bits, 0, Header, Marks(kind))
  BY <1>1, <1>4, <1>5, <1>6, ReadIsWritten
<1>8. HeaderAt(bits, kind)
  <2>1. \A b \in 1..40 : bits[0 + b] = WriteFields(Header, Marks(kind))[b]
    BY <1>1, <1>7, Zenon DEF WrittenAt
  <2>2. \A b \in 1..40 : 0 + b = b
    OBVIOUS
  <2> QED BY <2>1, <2>2, Zenon DEF HeaderAt
<1> QED BY <1>2, <1>3, <1>8 DEF kind

\* Fields that fit are those of a packet.
WithKind(kind, fields) ==
    [name \in DOMAIN fields \cup {"kind"} |-> IF name = "kind" THEN kind ELSE fields[name]]

LEMMA FieldsArePacket ==
    ASSUME NEW kind \in 1..4, NEW fields, FitIn(Layout(kind), fields),
           DOMAIN fields = Names(Layout(kind)), kind = 4 => fields.event \in {1, 2}
    PROVE  /\ WithKind(kind, fields) \in WirePackets /\ WithKind(kind, fields).kind = kind
           /\ \A k \in 1..Len(Layout(kind)) :
                 WithKind(kind, fields)[Layout(kind)[k][1]] = fields[Layout(kind)[k][1]]
<1> DEFINE layout == Layout(kind)
           wire == WithKind(kind, fields)
<1>1. wire = [name \in DOMAIN fields \cup {"kind"} |->
                IF name = "kind" THEN kind ELSE fields[name]]
  BY DEF WithKind
<1> HIDE DEF wire
<1>2. wire.kind = kind
  BY <1>1
<1>3. CASE kind \in {1, 2}
  <2>1. /\ Len(layout) = 2 /\ layout[1] = <<"clientId", 8>> /\ layout[2] = <<"sequence", 16>>
        /\ Names(layout) = {"clientId", "sequence"}
    BY <1>3, LayoutOfConnects
  <2> HIDE DEF layout
  <2>2. \A k \in 1..2 : fields[layout[k][1]] \in FieldRange(layout, k)
    BY <2>1 DEF FitIn, layout
  <2>3. fields.clientId \in Unsigned(8) /\ fields.sequence \in Unsigned(16)
    BY <2>1, <2>2 DEF FieldRange, Signed
  <2>4. wire = [kind |-> kind, clientId |-> fields.clientId, sequence |-> fields.sequence]
    <3>1. DOMAIN fields \cup {"kind"} = {"kind", "clientId", "sequence"}
      BY <2>1 DEF layout
    <3> QED BY <1>1, <3>1
  <2>5. wire \in ConnectPackets
    BY <1>3, <2>3, <2>4 DEF ConnectPackets
  <2>6. \A k \in 1..Len(layout) : wire[layout[k][1]] = fields[layout[k][1]]
    BY <2>1, <2>4
  <2> QED BY <1>2, <2>5, <2>6 DEF WirePackets, layout, wire
<1>4. CASE kind = 4
  <2>1. /\ Len(layout) = 3 /\ layout[1] = <<"event", 8>> /\ layout[2] = <<"clientId", 8>>
        /\ layout[3] = <<"sequence", 16>> /\ Names(layout) = {"event", "clientId", "sequence"}
    BY <1>4, LayoutOfEvents
  <2> HIDE DEF layout
  <2>2. \A k \in 1..3 : fields[layout[k][1]] \in FieldRange(layout, k)
    BY <2>1 DEF FitIn, layout
  <2>3. fields.clientId \in Unsigned(8) /\ fields.sequence \in Unsigned(16)
    BY <2>1, <2>2 DEF FieldRange, Signed
  <2>4. wire = [kind |-> kind, event |-> fields.event, clientId |-> fields.clientId,
                sequence |-> fields.sequence]
    <3>1. DOMAIN fields \cup {"kind"} = {"kind", "event", "clientId", "sequence"}
      BY <2>1 DEF layout
    <3> QED BY <1>1, <3>1
  <2>5. wire \in ServerEventPackets
    BY <1>4, <2>3, <2>4 DEF ServerEventPackets
  <2>6. \A k \in 1..Len(layout) : wire[layout[k][1]] = fields[layout[k][1]]
    BY <2>1, <2>4
  <2> QED BY <1>2, <2>5, <2>6 DEF WirePackets, layout, wire
<1>5. CASE kind = 3
  <2>1. /\ Len(layout) = 7 /\ layout[1] = <<"clientId", 8>> /\ layout[2] = <<"tick", 16>>
        /\ layout[3] = <<"flags", 8>> /\ layout[4] = <<"x", 22>> /\ layout[5] = <<"y", 22>>
        /\ layout[6] = <<"z", 22>> /\ layout[7] = <<"yaw", 16>>
        /\ Names(layout) = {"clientId", "tick", "flags", "x", "y", "z", "yaw"}
    BY <1>5, LayoutOfSnapshots
  <2> HIDE DEF layout
  <2>2. \A k \in 1..7 : fields[layout[k][1]] \in FieldRange(layout, k)
    BY <2>1 DEF FitIn, layout
  <2>3. /\ fields.clientId \in Unsigned(8) /\ fields.tick \in Unsigned(16)
        /\ fields.flags \in Unsigned(8) /\ fields.x \in SignedRange(22)
        /\ fields.y \in SignedRange(22) /\ fields.z \in SignedRange(22)
        /\ fields.yaw \in Unsigned(16)
    BY <2>1, <2>2 DEF FieldRange, Signed
  <2>4. wire = [kind |-> kind, clientId |-> fields.clientId, tick |-> fields.tick,
                flags |-> fields.flags, x |-> fields.x, y |-> fields.y, z |-> fields.z,
                yaw |-> fields.yaw]
    <3>1. DOMAIN fields \cup {"kind"}
             = {"kind", "clientId", "tick", "flags", "x", "y", "z", "yaw"}
      BY <2>1 DEF layout
    <3> QED BY <1>1, <3>1
  <2>5. SignedRange(22) = Positions
    BY RangesAre
  <2>6. wire \in WireSnapshots
    BY <1>5, <2>3, <2>4, <2>5 DEF WireSnapshots
  <2>7. \A k \in 1..Len(layout) : wire[layout[k][1]] = fields[layout[k][1]]
    BY <2>1, <2>4
  <2> QED BY <1>2, <2>6, <2>7 DEF WirePackets, layout, wire
<1>6. kind \in {1, 2} \/ kind = 3 \/ kind = 4
  OBVIOUS
<1> QED BY <1>3, <1>4, <1>5, <1>6, Zenon

\* Bits that are a packet are those the packet is written with.
LEMMA PacketWrittenBack ==
    ASSUME NEW bits \in BitStrings, DecodePacket(bits) # None
    PROVE  \E wire \in WirePackets :
              /\ DecodePacket(bits) = Dequantized(wire)
              /\ Len(bits) >= 40 + Width(Layout(wire.kind))
              /\ HeaderAt(bits, wire.kind)
              /\ WrittenAt(bits, 40, Layout(wire.kind), wire)
<1> DEFINE kind == ReadHeader(bits)
           layout == Layout(kind)
           fields == ReadFields(bits, 40, layout)
           wire == WithKind(kind, fields)
<1>1. Width(Header) = 40
  BY HeaderIs
<1>2. /\ kind # None /\ ~ (Len(bits) < 40 + Width(layout))
      /\ kind = 4 => fields.event \in {1, 2}
      /\ DecodePacket(bits) = Dequantized(wire)
  BY <1>1, Zenon DEF DecodePacket, WithKind
<1>3. /\ kind \in 1..4 /\ Len(bits) \in Nat
      /\ HeaderAt(bits, kind)
  BY <1>2, HeaderWrittenBack
<1> HIDE DEF kind
<1>4. IsLayout(layout) /\ Width(layout) \in Nat
  <2>1. IsLayout(layout) /\ Width(layout) \in {24, 32, 114}
    BY <1>3, LayoutsAre
  <2> HIDE DEF layout
  <2> QED BY <2>1
<1> HIDE DEF layout
<1>5. Len(bits) >= 40 + Width(layout) /\ 40 \in Nat
  <2>1. \A n, w \in Nat : ~ (n < 40 + w) => n >= 40 + w
    OBVIOUS
  <2>2. Len(bits) >= 40 + Width(layout)
    BY <1>2, <1>3, <1>4, <2>1, Zenon
  <2> QED BY <2>2
<1>6. BitsAt(bits, 40, layout)
  BY <1>4, <1>5, BitsWithin
<1>7. FitIn(layout, fields) /\ DOMAIN fields = Names(layout)
  <2>1. FitIn(layout, fields)
    BY <1>4, <1>5, <1>6, ReadFits
  <2>2. DOMAIN fields = Names(layout)
    BY DEF ReadFields
  <2> QED BY <2>1, <2>2
<1> HIDE DEF wire
<1>8. /\ wire \in WirePackets /\ wire.kind = kind
      /\ \A k \in 1..Len(layout) : wire[layout[k][1]] = fields[layout[k][1]]
  <2> HIDE DEF fields
  <2> QED BY <1>2, <1>3, <1>7, FieldsArePacket DEF layout, wire
<1>9. WrittenAt(bits, 40, layout, wire)
  BY <1>4, <1>5, <1>6, <1>8, ReadIsWritten
<1>10. layout = Layout(wire.kind) /\ Marks(wire.kind) = Marks(kind)
  BY <1>8 DEF layout
<1> HIDE DEF fields
<1> QED BY <1>2, <1>3, <1>5, <1>8, <1>9, <1>10

\* A packet that was decoded is rounded to what it was, but for a yaw of the full turn.
LEMMA KeptOnWire ==
    ASSUME NEW wire \in WirePackets
    PROVE  LET turned == wire.kind = 3 /\ Dequantized(wire).yaw = FullTurn
               again == Quantized(Dequantized(wire))
           IN  /\ again \in WirePackets /\ again.kind = wire.kind
               /\ ~ turned => again = wire
               /\ turned => again = [wire EXCEPT !.yaw = 0]
<1> DEFINE packet == Dequantized(wire)
           again == Quantized(packet)
<1>1. packet \in Packets /\ packet.kind = wire.kind
  BY DequantizedPackets
<1>2. again \in WirePackets /\ again.kind = wire.kind
  <2> HIDE DEF packet
  <2> QED BY <1>1, QuantizedPackets
<1>3. CASE wire.kind # 3
  <2>1. again = wire
    BY <1>3 DEF Dequantized, Quantized
  <2> QED BY <1>2, <1>3, <2>1
<1>4. CASE wire.kind = 3
  <2>1. wire \in WireSnapshots
    BY <1>4 DEF WirePackets, ConnectPackets, ServerEventPackets
  <2>2. /\ wire.x \in Positions /\ wire.y \in Positions /\ wire.z \in Positions
        /\ wire.yaw \in 0..YawMax
    <3>1. Unsigned(16) = 0..YawMax
      BY RangesAre
    <3> QED BY <2>1, <3>1 DEF WireSnapshots
  <2>3. packet = [wire EXCEPT !.x = DequantizePosition(@), !.y = DequantizePosition(@),
                              !.z = DequantizePosition(@), !.yaw = DequantizeYaw(@)]
    BY <1>4 DEF Dequantized
  <2> HIDE DEF packet
  <2>4. again = [packet EXCEPT !.x = QuantizePosition(@), !.y = QuantizePosition(@),
                               !.z = QuantizePosition(@), !.yaw = QuantizeYaw(@)]
    BY <1>1, <1>4 DEF Quantized
  <2> HIDE DEF again
  <2>5. /\ packet.x = DequantizePosition(wire.x) /\ packet.y = DequantizePosition(wire.y)
        /\ packet.z = DequantizePosition(wire.z) /\ packet.yaw = DequantizeYaw(wire.yaw)
    BY <2>1, <2>3 DEF WireSnapshots
  <2>6. /\ QuantizePosition(packet.x) = wire.x /\ QuantizePosition(packet.y) = wire.y
        /\ QuantizePosition(packet.z) = wire.z
    BY <2>2, <2>5, PositionKept
  <2>7. again = [wire EXCEPT !.yaw = QuantizeYaw(packet.yaw)]
    BY <2>1, <2>3, <2>4, <2>6 DEF WireSnapshots
  <2>8. /\ packet.yaw = FullTurn <=> wire.yaw = YawMax
        /\ QuantizeYaw(packet.yaw) = IF wire.yaw = YawMax THEN 0 ELSE wire.yaw
    BY <2>2, <2>5, YawKept
  <2>9. packet.yaw = FullTurn => again = [wire EXCEPT !.yaw = 0]
    BY <2>7, <2>8
  <2>10. packet.yaw # FullTurn => again = wire
    <3>1. wire = [wire EXCEPT !.yaw = wire.yaw]
      BY <2>1 DEF WireSnapshots
    <3> QED BY <2>7, <2>8, <3>1
  <2> QED BY <1>2, <1>4, <2>9, <2>10 DEF packet, again
<1> QED BY <1>3, <1>4

\* The relay sends the bits on that it received.
LEMMA RelayedIsReceived ==
    ASSUME NEW bits \in BitStrings, NEW packet, packet = DecodePacket(bits), packet # None
    PROVE  /\ packet \in Packets
           /\ LET used == Width(Header) + Width(Layout(packet.kind))
                  turned == packet.kind = 3 /\ packet.yaw = FullTurn
              IN  \A i \in 1..used :
                     Encode(packet)[i] = IF turned /\ i > used - 16 THEN 0 ELSE bits[i]
<1>1. PICK wire \in WirePackets :
         /\ packet = Dequantized(wire)
         /\ Len(bits) >= 40 + Width(Layout(wire.kind))
         /\ HeaderAt(bits, wire.kind)
         /\ WrittenAt(bits, 40, Layout(wire.kind), wire)
  BY PacketWrittenBack
<1> DEFINE layout == Layout(packet.kind)
           width == Width(layout)
           again == Quantized(packet)
           turned == packet.kind = 3 /\ packet.yaw = FullTurn
<1>2. packet \in Packets /\ packet.kind = wire.kind
  BY <1>1, DequantizedPackets
<1>3. /\ again.kind = wire.kind
      /\ ~ turned => again = wire
      /\ turned => again = [wire EXCEPT !.yaw = 0]
  BY <1>1, <1>2, KeptOnWire
<1>4. /\ width \in {24, 32, 114}
      /\ HeaderAt(Encode(packet), packet.kind)
      /\ \A b \in 1..width : Encode(packet)[40 + b] = WriteFields(layout, again)[b]
  BY <1>2, EncodedIs
<1>5. \A b \in 1..40 : Encode(packet)[b] = bits[b]
  <2>1. HeaderAt(bits, packet.kind) /\ HeaderAt(Encode(packet), packet.kind)
    BY <1>1, <1>2, <1>4
  <2> QED BY <2>1, Zenon DEF HeaderAt
<1>6. \A b \in 1..width : bits[40 + b] = WriteFields(layout, wire)[b]
  BY <1>1, <1>2 DEF WrittenAt
<1>7. ASSUME NEW b \in 1..width
      PROVE  Encode(packet)[40 + b] = IF turned /\ b > width - 16 THEN 0 ELSE bits[40 + b]
  <2>1. CASE ~ turned
    BY <1>3, <1>4, <1>6, <2>1
  <2>2. CASE turned
    <3>1. /\ IsLayout(layout) /\ Len(layout) = 7 /\ width = 114 /\ layout[7] = <<"yaw", 16>>
          /\ Ends(layout)[6] = 98
      BY <2>2, LayoutOfSnapshots
    <3>2. \A k \in 1..6 :
             layout[k][1] \in {"clientId", "tick", "flags", "x", "y", "z"}
      BY <2>2, LayoutOfSnapshots
    <3> HIDE DEF layout
    <3>3. IsLayout(layout)
      BY <3>1
    <3>4. PICK k \in 1..Len(layout) : \E i \in 1..layout[k][2] : b = Ends(layout)[k - 1] + i
      BY <3>3, EveryBit
    <3>5. PICK i \in 1..layout[k][2] : b = Ends(layout)[k - 1] + i
      BY <3>4
    <3> HIDE DEF width
    <3>6. /\ WriteFields(layout, again)[b] = Bit(again[layout[k][1]], i)
          /\ WriteFields(layout, wire)[b] = Bit(wire[layout[k][1]], i)
      BY <3>3, <3>5, WrittenBit
    <3>7. CASE k \in 1..6
      <4>1. wire.kind = 3 /\ again = [wire EXCEPT !.yaw = 0]
        BY <1>2, <1>3, <2>2
      <4>2. wire \in WireSnapshots
        BY <4>1 DEF WirePackets, ConnectPackets, ServerEventPackets
      <4>3. again[layout[k][1]] = wire[layout[k][1]]
        <5> HIDE DEF again
        <5> QED BY <3>2, <3>7, <4>1, <4>2 DEF WireSnapshots
      <4>4. Encode(packet)[40 + b] = bits[40 + b]
        <5> HIDE DEF again
        <5> QED BY <1>4, <1>6, <3>6, <4>3
      <4>5. b <= 98
        <5>1. b <= Ends(layout)[k]
          BY <3>1, <3>5, FieldOfBit DEF IsLayout
        <5>2. Ends(layout)[k] <= Ends(layout)[6]
          <6>1. k \in 0..Len(layout) /\ 6 \in 0..Len(layout) /\ k <= 6
            BY <3>1, <3>7
          <6> QED BY <3>1, <6>1, EndsRise
        <5>3. Ends(layout)[k] \in Int
          <6>1. k \in 0..Len(layout)
            BY <3>1, <3>7
          <6> QED BY <3>1, <6>1, EndsAre
        <5>4. b \in Int
          OBVIOUS
        <5> QED BY <3>1, <5>1, <5>2, <5>3, <5>4
      <4>6. ~ (b > width - 16)
        BY <3>1, <4>5
      <4> QED BY <4>4, <4>6
    <3>8. k \in 1..7
      BY <3>1
    <3>9. CASE k = 7
      <4>1. wire \in WireSnapshots /\ again = [wire EXCEPT !.yaw = 0]
        BY <1>2, <1>3, <2>2 DEF WirePackets, ConnectPackets, ServerEventPackets
      <4>2. again.yaw = 0
        BY <4>1 DEF WireSnapshots
      <4>3. layout[7][1] = "yaw" /\ layout[7][2] = 16
        BY <3>1
      <4>4. i \in 1..16 /\ b = 98 + i
        BY <3>1, <3>5, <3>9, <4>3
      <4>5. Bit(0, i) = 0
        <5>1. i - 1 \in 0..21
          BY <4>4
        <5> DEFINE p == 2^(i - 1)
        <5>2. p \in Nat \ {0}
          BY <5>1, PowersOfTwo
        <5> HIDE DEF p
        <5>3. 0 = p * 0 + 0 /\ 0 \in 0..(p - 1) /\ 0 \in Int
          BY <5>2
        <5>4. 0 \div p = 0
          BY <5>2, <5>3, QuotientIs
        <5>5. 0 % 2 = 0
          OBVIOUS
        <5> QED BY <5>4, <5>5 DEF Bit, p
      <4>6. Encode(packet)[40 + b] = 0
        <5> HIDE DEF again
        <5> QED BY <1>4, <3>6, <3>9, <4>2, <4>3, <4>5
      <4>7. b > width - 16
        BY <3>1, <4>4
      <4> QED BY <2>2, <4>6, <4>7
    <3>10. k \in 1..6 \/ k = 7
      BY <3>8
    <3> QED BY <3>7, <3>9, <3>10
  <2> QED BY <2>1, <2>2
<1> HIDE DEF turned, width, layout
<1>8. ASSUME NEW i \in 1..(40 + width)
      PROVE  Encode(packet)[i] = IF turned /\ i > (40 + width) - 16 THEN 0 ELSE bits[i]
  <2>1. width \in Int /\ width >= 24
    BY <1>4
  <2>2. CASE i <= 40
    <3>1. i \in 1..40
      BY <2>2
    <3>2. ~ (i > (40 + width) - 16)
      BY <2>1, <2>2
    <3> QED BY <1>5, <3>1, <3>2
  <2>3. CASE ~ (i <= 40)
    <3> DEFINE b == i - 40
    <3>1. b \in 1..width /\ 40 + b = i /\ (b > width - 16 <=> i > (40 + width) - 16)
      BY <2>1, <2>3
    <3> HIDE DEF b
    <3> QED BY <1>7, <3>1
  <2> QED BY <2>2, <2>3
<1>9. Width(Header) = 40
  BY HeaderIs
<1> QED BY <1>2, <1>8, <1>9 DEF turned, width, layout

\* A packet that is cut by a byte or more is no packet.
LEMMA CutIsNothing ==
    ASSUME NEW packet \in Packets, NEW n \in Nat, n <= Len(Encode(packet)) - 8
    PROVE  /\ SubSeq(Encode(packet), 1, n) \in BitStrings
           /\ DecodePacket(SubSeq(Encode(packet), 1, n)) = None
<1> DEFINE whole == Encode(packet)
           bits == SubSeq(whole, 1, n)
           width == Width(Layout(packet.kind))
<1>1. /\ packet.kind \in 1..4 /\ width \in {24, 32, 114}
      /\ whole \in BitStrings /\ Len(whole) \in Nat
      /\ Len(whole) \in (40 + width)..(40 + width + 7)
      /\ HeaderAt(whole, packet.kind)
  BY EncodedIs
<1>2. whole \in BitStrings /\ n <= Len(whole) - 8 /\ Len(whole) \in Nat
  BY <1>1
<1> HIDE DEF whole
<1>3. bits \in BitStrings /\ Len(bits) = n /\ \A b \in 1..n : bits[b] = whole[b]
  BY <1>2 DEF BitStrings
<1> HIDE DEF bits, width
<1>4. n < 40 + width
  <2>1. \A l, w \in Int : l \in (40 + w)..(40 + w + 7) /\ n <= l - 8 => n < 40 + w
    OBVIOUS
  <2>2. width \in Int
    BY <1>1
  <2>3. Len(whole) \in (40 + width)..(40 + width + 7)
    BY <1>1
  <2> QED BY <1>2, <2>1, <2>2, <2>3
<1>5. ASSUME DecodePacket(bits) # None PROVE FALSE
  <2>1. PICK wire \in WirePackets :
           /\ DecodePacket(bits) = Dequantized(wire)
           /\ Len(bits) >= 40 + Width(Layout(wire.kind))
           /\ HeaderAt(bits, wire.kind)
           /\ WrittenAt(bits, 40, Layout(wire.kind), wire)
    BY <1>3, <1>5, PacketWrittenBack
  <2>2. wire.kind \in 1..4 /\ Width(Layout(wire.kind)) \in {24, 32, 114}
    BY LayoutsAre, WireFieldsFit
  <2>3. Len(bits) \in Nat /\ Len(bits) >= 40
    BY <1>3, <2>1, <2>2, LongEnough
  <2>4. ReadHeader(bits) = wire.kind
    BY <2>1, <2>2, <2>3, HeaderReadBack
  <2>5. HeaderAt(bits, packet.kind)
    <3>1. HeaderAt(whole, packet.kind) /\ n >= 40
      BY <1>1, <1>3, <2>3
    <3> QED BY <1>3, <3>1, SameHeader
  <2>6. ReadHeader(bits) = packet.kind
    BY <1>1, <2>3, <2>5, HeaderReadBack
  <2>7. n >= 40 + width
    <3>1. wire.kind = packet.kind
      BY <2>4, <2>6
    <3> QED BY <1>3, <2>1, <3>1, Zenon DEF width
  <2>8. width \in Int
    BY <1>1
  <2> QED BY <1>4, <2>7, <2>8
<1> QED BY <1>3, <1>5 DEF bits, whole

-----------------------------------------------------------------------------
(* What a datagram says.                                                   *)

\* A packet says what it said after it was on the wire.
LEMMA SaysWhatItSaid ==
    ASSUME NEW packet \in Packets
    PROVE  SaysWhat(Dequantized(Quantized(packet)), packet)
<1> DEFINE wire == Quantized(packet)
           after == Dequantized(wire)
<1>1. CASE packet \in ConnectPackets \cup ServerEventPackets
  <2>1. packet.kind # 3
    BY <1>1 DEF ConnectPackets, ServerEventPackets
  <2>2. after = packet
    BY <2>1 DEF Quantized, Dequantized
  <2>3. \A name \in DOMAIN packet : name \notin Signed /\ name # "yaw"
    BY <1>1 DEF ConnectPackets, ServerEventPackets, Signed
  <2> HIDE DEF after
  <2> QED BY <2>2, <2>3 DEF SaysWhat, after
<1>2. CASE packet \in ActorSnapshots
  <2>1. /\ packet.kind = 3 /\ packet.x \in Int /\ packet.y \in Int /\ packet.z \in Int
        /\ packet.yaw \in Int
        /\ DOMAIN packet = {"kind", "clientId", "tick", "flags", "x", "y", "z", "yaw"}
    BY <1>2 DEF ActorSnapshots
  <2>2. wire = [packet EXCEPT !.x = QuantizePosition(@), !.y = QuantizePosition(@),
                              !.z = QuantizePosition(@), !.yaw = QuantizeYaw(@)]
    BY <2>1 DEF Quantized
  <2>3. wire.kind = 3
    BY <2>1, QuantizedPackets
  <2> HIDE DEF wire
  <2>4. after = [wire EXCEPT !.x = DequantizePosition(@), !.y = DequantizePosition(@),
                             !.z = DequantizePosition(@), !.yaw = DequantizeYaw(@)]
    BY <2>3 DEF Dequantized
  <2> HIDE DEF after
  <2>5. /\ DOMAIN after = DOMAIN packet
        /\ after.kind = packet.kind /\ after.clientId = packet.clientId
        /\ after.tick = packet.tick /\ after.flags = packet.flags
        /\ after.x = DequantizePosition(QuantizePosition(packet.x))
        /\ after.y = DequantizePosition(QuantizePosition(packet.y))
        /\ after.z = DequantizePosition(QuantizePosition(packet.z))
        /\ after.yaw = DequantizeYaw(QuantizeYaw(packet.yaw))
    BY <1>2, <2>2, <2>4 DEF ActorSnapshots
  <2>6. \A name \in Signed : ClosePosition(after[name], packet[name])
    BY <2>1, <2>5, PositionIsClose DEF Signed
  <2>7. CloseYaw(after.yaw, packet.yaw)
    BY <2>1, <2>5, YawIsClose
  <2>8. \A name \in DOMAIN packet : name \notin Signed /\ name # "yaw" => after[name] = packet[name]
    BY <2>1, <2>5 DEF Signed
  <2>9. DOMAIN after = DOMAIN packet
    BY <2>5
  <2> QED BY <2>6, <2>7, <2>8, <2>9 DEF SaysWhat, after, wire
<1> QED BY <1>1, <1>2 DEF Packets

\* Once a packet was on the wire, it says the same however often it is sent on.
LEMMA SaysWhatTheWireSaid ==
    ASSUME NEW wire \in WirePackets, NEW original \in Packets,
           SaysWhat(Dequantized(wire), original)
    PROVE  SaysWhat(Dequantized(Quantized(Dequantized(wire))), original)
<1> DEFINE packet == Dequantized(wire)
           again == Quantized(packet)
           after == Dequantized(again)
           turned == wire.kind = 3 /\ packet.yaw = FullTurn
<1>1. /\ again.kind = wire.kind
      /\ ~ turned => again = wire
      /\ turned => again = [wire EXCEPT !.yaw = 0]
  BY KeptOnWire
<1>2. CASE ~ turned
  BY <1>1, <1>2
<1>3. CASE turned
  <2>1. wire.kind = 3 /\ packet.yaw = FullTurn /\ again = [wire EXCEPT !.yaw = 0]
    BY <1>1, <1>3
  <2>2. wire \in WireSnapshots
    BY <2>1 DEF WirePackets, ConnectPackets, ServerEventPackets
  <2>3. packet = [wire EXCEPT !.x = DequantizePosition(@), !.y = DequantizePosition(@),
                              !.z = DequantizePosition(@), !.yaw = DequantizeYaw(@)]
    BY <2>1 DEF Dequantized
  <2> HIDE DEF packet
  <2>4. again.kind = 3
    BY <1>1, <2>1
  <2> HIDE DEF again
  <2>5. after = [again EXCEPT !.x = DequantizePosition(@), !.y = DequantizePosition(@),
                              !.z = DequantizePosition(@), !.yaw = DequantizeYaw(@)]
    BY <2>4 DEF Dequantized
  <2>6. DequantizeYaw(0) = 0
    BY PartsAre DEF DequantizeYaw
  <2> HIDE DEF after
  <2>7. after = [packet EXCEPT !.yaw = 0]
    <3>1. again = [wire EXCEPT !.yaw = 0]
      BY <2>1
    <3> QED BY <2>2, <2>3, <2>5, <2>6, <3>1 DEF WireSnapshots
  <2>8. /\ DOMAIN packet = {"kind", "clientId", "tick", "flags", "x", "y", "z", "yaw"}
        /\ DOMAIN after = DOMAIN packet /\ after.yaw = 0
        /\ \A name \in DOMAIN packet : name # "yaw" => after[name] = packet[name]
    BY <2>2, <2>3, <2>7 DEF WireSnapshots
  <2>9. SaysWhat(packet, original)
    BY DEF packet
  <2>10. DOMAIN original = DOMAIN packet
    BY <2>9 DEF SaysWhat
  <2>11. original \in ActorSnapshots
    <3>1. "yaw" \in DOMAIN original
      BY <2>8, <2>10
    <3> QED BY <3>1 DEF Packets, ConnectPackets, ServerEventPackets
  <2>12. original.yaw \in Int
    BY <2>11 DEF ActorSnapshots
  <2>13. CloseYaw(packet.yaw, original.yaw)
    <3>1. "yaw" \in DOMAIN original /\ "yaw" \notin Signed
      BY <2>8, <2>10 DEF Signed
    <3> QED BY <2>9, <3>1 DEF SaysWhat
  <2>14. CloseYaw(after.yaw, original.yaw)
    BY <2>1, <2>8, <2>12, <2>13, FullTurnIsNoTurn
  <2>15. ASSUME NEW name \in DOMAIN original
         PROVE  CASE name \in Signed -> ClosePosition(after[name], original[name])
                  [] name = "yaw" -> CloseYaw(after.yaw, original.yaw)
                  [] OTHER -> after[name] = original[name]
    <3>1. CASE name = "yaw"
      BY <2>14, <3>1 DEF Signed
    <3>2. CASE name # "yaw"
      <4>1. after[name] = packet[name]
        BY <2>8, <2>10, <3>2
      <4> QED BY <2>9, <3>2, <4>1 DEF SaysWhat
    <3> QED BY <3>1, <3>2
  <2> QED BY <2>8, <2>10, <2>15 DEF SaysWhat, after, again, packet
<1> QED BY <1>2, <1>3

-----------------------------------------------------------------------------
(* The inductive invariant.                                                *)

\* A datagram nobody changed, or only made longer, is a packet that says what was sent.
SaysWhatWasSent ==
    \E packet \in Packets, tail \in BitStrings :
       /\ datagram = Encode(packet) \o tail
       /\ fault = "none" => datagram = Encode(packet)
       /\ SaysWhat(Dequantized(Quantized(packet)), sent)

CodecInv ==
    /\ sent \in Packets /\ datagram \in BitStrings
    /\ fault \in {"none", "cut", "longer", "flipped"}
    /\ received # Pending => received = DecodePacket(datagram)
    /\ fault = "cut" => DecodePacket(datagram) = None
    /\ fault \in {"none", "longer"} => SaysWhatWasSent

\* Decoding a packet that was encoded gives one on the wire's grid.
LEMMA RoundedPacket ==
    ASSUME NEW packet \in Packets
    PROVE  Dequantized(Quantized(packet)) \in Packets
<1>1. Quantized(packet) \in WirePackets
  BY QuantizedPackets
<1> QED BY <1>1, DequantizedPackets

LEMMA Unchanged ==
    ASSUME NEW packet \in Packets
    PROVE  /\ Encode(packet) \in BitStrings /\ <<>> \in BitStrings
           /\ Encode(packet) = Encode(packet) \o <<>>
<1>1. Encode(packet) \in BitStrings
  BY EncodedIs
<1>2. \A bits \in BitStrings : bits = bits \o <<>>
  BY DEF BitStrings
<1> QED BY <1>1, <1>2 DEF BitStrings

LEMMA CodecInvInit ==
    ProtocolInit => CodecInv
<1> SUFFICES ASSUME ProtocolInit PROVE CodecInv
  OBVIOUS
<1>1. sent \in Packets /\ datagram = Encode(sent) /\ fault = "none" /\ received = Pending
  BY PacketsAssumption DEF ProtocolInit, Packets
<1>2. datagram \in BitStrings
  BY <1>1, Unchanged
<1>3. SaysWhatWasSent
  BY <1>1, Unchanged, SaysWhatItSaid DEF SaysWhatWasSent
<1> QED BY <1>1, <1>2, <1>3 DEF CodecInv

LEMMA CodecInvNext ==
    CodecInv /\ [ProtocolNext]_protocolVars => CodecInv'
<1> SUFFICES ASSUME CodecInv, [ProtocolNext]_protocolVars PROVE CodecInv'
  OBVIOUS
<1>1. /\ sent \in Packets /\ datagram \in BitStrings
      /\ fault \in {"none", "cut", "longer", "flipped"}
      /\ received # Pending => received = DecodePacket(datagram)
      /\ fault = "cut" => DecodePacket(datagram) = None
      /\ fault \in {"none", "longer"} => SaysWhatWasSent
  BY DEF CodecInv
<1>2. CASE CutShort
  <2>1. PICK bytes \in 0..(Len(datagram) \div ByteBits - 1) :
           Disturbed(SubSeq(datagram, 1, bytes * ByteBits), "cut")
    BY <1>2 DEF CutShort
  <2>2. /\ fault = "none" /\ received = Pending /\ fault' = "cut" /\ received' = received
        /\ sent' = sent /\ datagram' = SubSeq(datagram, 1, bytes * 8)
    BY <2>1 DEF Disturbed, ByteBits
  <2>3. PICK packet \in Packets : datagram = Encode(packet)
    BY <1>1, <2>2 DEF SaysWhatWasSent
  <2>4. Len(datagram) \in Nat
    BY <1>1 DEF BitStrings
  <2>5. bytes * 8 \in Nat /\ bytes * 8 <= Len(datagram) - 8
    <3>1. \A l \in Nat : \A m \in 0..(l \div 8 - 1) : m * 8 \in Nat /\ m * 8 <= l - 8
      OBVIOUS
    <3>2. bytes \in 0..(Len(datagram) \div 8 - 1)
      BY DEF ByteBits
    <3> QED BY <2>4, <3>1, <3>2
  <2>6. datagram' \in BitStrings /\ DecodePacket(datagram') = None
    BY <2>2, <2>3, <2>5, CutIsNothing
  <2>7. DecodePacket(datagram)' = DecodePacket(datagram')
    OBVIOUS
  <2> QED BY <1>1, <2>2, <2>6, <2>7 DEF CodecInv
<1>3. CASE Longer
  <2> DEFINE ones == [i \in 1..8 |-> 1]
  <2>1. /\ fault = "none" /\ received = Pending /\ fault' = "longer" /\ received' = received
        /\ sent' = sent /\ datagram' = datagram \o ones
    BY <1>3 DEF Longer, Disturbed, ByteBits
  <2>2. ones \in BitStrings
    <3>1. 8 \in Nat /\ ones \in [1..8 -> {0, 1}]
      OBVIOUS
    <3> HIDE DEF ones
    <3> QED BY <3>1, SequenceOf DEF BitStrings
  <2> HIDE DEF ones
  <2>3. PICK packet \in Packets :
           datagram = Encode(packet) /\ SaysWhat(Dequantized(Quantized(packet)), sent)
    BY <1>1, <2>1 DEF SaysWhatWasSent
  <2>4. datagram' \in BitStrings
    BY <1>1, <2>1, <2>2, Joined
  <2>5. SaysWhatWasSent'
    BY <2>1, <2>2, <2>3 DEF SaysWhatWasSent
  <2> QED BY <1>1, <2>1, <2>4, <2>5 DEF CodecInv
<1>4. CASE Flipped
  <2>1. PICK i \in DOMAIN datagram : Disturbed([datagram EXCEPT ![i] = 1 - @], "flipped")
    BY <1>4 DEF Flipped
  <2>2. /\ received = Pending /\ fault' = "flipped" /\ received' = received
        /\ sent' = sent /\ datagram' = [datagram EXCEPT ![i] = 1 - @]
    BY <2>1 DEF Disturbed
  <2>3. datagram' \in BitStrings
    BY <1>1, <2>2 DEF BitStrings
  <2> QED BY <1>1, <2>2, <2>3 DEF CodecInv
<1>5. CASE Receive
  <2>1. /\ received' = DecodePacket(datagram) /\ sent' = sent /\ datagram' = datagram
        /\ fault' = fault
    BY <1>5 DEF Receive
  <2>2. SaysWhatWasSent' <=> SaysWhatWasSent
    BY <2>1 DEF SaysWhatWasSent
  <2> QED BY <1>1, <2>1, <2>2 DEF CodecInv
<1>6. CASE RelayOn
  <2>1. /\ received # Pending /\ received # None /\ datagram' = Encode(received)
        /\ received' = Pending /\ sent' = sent /\ fault' = fault
    BY <1>6 DEF RelayOn
  <2>2. received = DecodePacket(datagram)
    BY <1>1, <2>1
  <2>3. received \in Packets
    BY <1>1, <2>1, <2>2, RelayedIsReceived
  <2>4. datagram' \in BitStrings
    BY <2>1, <2>3, Unchanged
  <2>5. fault # "cut"
    BY <1>1, <2>1, <2>2
  <2>6. ASSUME fault \in {"none", "longer"} PROVE SaysWhatWasSent'
    <3>1. PICK packet \in Packets, tail \in BitStrings :
             /\ datagram = Encode(packet) \o tail
             /\ SaysWhat(Dequantized(Quantized(packet)), sent)
      BY <1>1, <2>6 DEF SaysWhatWasSent
    <3>2. received = Dequantized(Quantized(packet))
      <4>1. DecodePacket(Encode(packet) \o tail) = Dequantized(Quantized(packet))
        BY EncodedIsDecoded DEF BitStrings
      <4> QED BY <2>2, <3>1, <4>1
    <3>3. SaysWhat(Dequantized(Quantized(received)), sent)
      <4>1. Quantized(packet) \in WirePackets
        BY QuantizedPackets
      <4> QED BY <1>1, <3>1, <3>2, <4>1, SaysWhatTheWireSaid
    <3> QED BY <2>1, <2>3, <3>3, Unchanged DEF SaysWhatWasSent
  <2> QED BY <1>1, <2>1, <2>4, <2>5, <2>6 DEF CodecInv
<1>7. CASE UNCHANGED protocolVars
  <2>1. /\ received' = received /\ sent' = sent /\ datagram' = datagram /\ fault' = fault
    BY <1>7 DEF protocolVars
  <2>2. SaysWhatWasSent' <=> SaysWhatWasSent
    BY <2>1 DEF SaysWhatWasSent
  <2> QED BY <1>1, <2>1, <2>2 DEF CodecInv
<1> QED BY <1>2, <1>3, <1>4, <1>5, <1>6, <1>7 DEF ProtocolNext

LEMMA CodecInvMeans ==
    CodecInv => DatagramsMeanThePacket /\ RelayedBitsAreKept
<1> SUFFICES ASSUME CodecInv PROVE DatagramsMeanThePacket /\ RelayedBitsAreKept
  OBVIOUS
<1>1. /\ sent \in Packets /\ datagram \in BitStrings
      /\ received # Pending => received = DecodePacket(datagram)
      /\ fault = "cut" => DecodePacket(datagram) = None
      /\ fault \in {"none", "longer"} => SaysWhatWasSent
  BY DEF CodecInv
<1>2. fault = "cut" => ~ Arrived
  BY <1>1 DEF Arrived
<1>3. ASSUME fault \in {"none", "longer"}, received # Pending
      PROVE  Arrived /\ SaysWhat(received, sent)
  <2>1. PICK packet \in Packets, tail \in BitStrings :
           /\ datagram = Encode(packet) \o tail
           /\ SaysWhat(Dequantized(Quantized(packet)), sent)
    BY <1>1, <1>3 DEF SaysWhatWasSent
  <2>2. DecodePacket(Encode(packet) \o tail) = Dequantized(Quantized(packet))
    BY EncodedIsDecoded DEF BitStrings
  <2>3. received = Dequantized(Quantized(packet))
    BY <1>1, <1>3, <2>1, <2>2
  <2>4. received \in Packets
    BY <2>3, RoundedPacket
  <2>5. received # None /\ received # Pending
    BY <2>4, PacketIsNotNone
  <2> QED BY <2>1, <2>3, <2>5 DEF Arrived
<1>4. RelayedBitsAreKept
  <2> SUFFICES ASSUME Arrived
               PROVE  LET again == Encode(received)
                          used == Width(Header) + Width(Layout(received.kind))
                          turned == received.kind = 3 /\ received.yaw = FullTurn
                      IN  \A i \in 1..used :
                             again[i] = IF turned /\ i > used - 16 THEN 0 ELSE datagram[i]
    BY DEF RelayedBitsAreKept
  <2>1. received = DecodePacket(datagram) /\ received # None
    BY <1>1 DEF Arrived
  <2> QED BY <1>1, <2>1, RelayedIsReceived
<1> QED BY <1>2, <1>3, <1>4 DEF DatagramsMeanThePacket

\* Every datagram is a string of bits and what was received is what it decodes to; one
\* that was cut is no packet, and one that was not changed, or only made longer, is the
\* encoding of a packet that says what was sent (encodeActorSnapshot, decodePacket).
THEOREM ProtocolHoldsInv == ProtocolSpec => []CodecInv
<1>1. ProtocolInit => CodecInv
  BY CodecInvInit
<1>2. CodecInv /\ [ProtocolNext]_protocolVars => CodecInv'
  BY CodecInvNext
<1> QED BY <1>1, <1>2, PTL DEF ProtocolSpec

\* Whatever packets are sent, a datagram says what was sent however often the relay
\* decodes it and encodes it again: every field, positions to half a step, yaws to half a
\* step around the circle; one that is cut by a byte or more says nothing, and what
\* follows the last field is not looked at (decodePacket, and the encoders).
THEOREM ProtocolDatagramsMeanThePacket == ProtocolSpec => []DatagramsMeanThePacket
<1>1. CodecInv => DatagramsMeanThePacket
  BY CodecInvMeans
<1> QED BY <1>1, ProtocolHoldsInv, PTL

\* Whatever bits arrive, if they are a packet the relay sends the same bits on, but for the
\* padding and for a yaw of the full turn, which becomes zero (encodeActorSnapshot after
\* decodePacket).
THEOREM ProtocolRelayedBitsAreKept == ProtocolSpec => []RelayedBitsAreKept
<1>1. CodecInv => RelayedBitsAreKept
  BY CodecInvMeans
<1> QED BY <1>1, ProtocolHoldsInv, PTL
=============================================================================
