-------------------------- MODULE ColumnValuesProofs ---------------------------
(***************************************************************************)
(* Proofs about ColumnValues for every set of tables that the schema       *)
(* validation lets through, and for every value, change and record.  The   *)
(* first half is about RecordCodec: what was encoded comes back.           *)
(***************************************************************************)
EXTENDS ColumnValues, Integers, Sequences, SequencesExt, WellFoundedInduction,
        SequenceTheorems, TLAPS

-----------------------------------------------------------------------------
(***************************************************************************)
(* Induction over numbers, as facts about sets of them: a theorem with an  *)
(* operator as its parameter cannot be applied by the provers, one with a  *)
(* set can.                                                                *)
(***************************************************************************)

(* A set of natural numbers has a least element.                           *)
LEMMA LeastElement ==
  ASSUME NEW T, T \subseteq Nat, T # {}
  PROVE  \E x \in T : \A y \in T : x <= y
<1> DEFINE R == OpToRel(<, Nat)
<1>1. IsWellFoundedOn(R, Nat)
  BY NatLessThanWellFounded
<1>2. \A x, y \in Nat : x < y => <<x, y>> \in R
  BY SMT DEF OpToRel
<1> HIDE DEF R
<1>3. PICK x \in T : \A y \in T : ~(<<y, x>> \in R)
  BY <1>1, WFMin
<1>4. ASSUME NEW y \in T
      PROVE  x <= y
  <2>1. x \in Nat /\ y \in Nat
    OBVIOUS
  <2>2. ~(y < x)
    BY <1>2, <1>3, <2>1
  <2> QED BY <2>1, <2>2, SMT
<1> QED BY <1>4

(* A set that holds zero, and with a number its successor, holds them all. *)
LEMMA SetInduction ==
  ASSUME NEW S, S \subseteq Nat, 0 \in S, \A n \in S : n + 1 \in S
  PROVE  S = Nat
<1> SUFFICES ASSUME Nat \ S # {} PROVE FALSE
  OBVIOUS
<1>1. PICK x \in Nat \ S : \A y \in Nat \ S : x <= y
  BY LeastElement
<1>2. x - 1 \in Nat /\ x - 1 < x
  BY <1>1, SMT
<1>3. x - 1 \in S
  BY <1>1, <1>2, SMT
<1> QED BY <1>1, <1>2, <1>3, SMT

-----------------------------------------------------------------------------
(***************************************************************************)
(* Powers of two, as far as 16 bits go, and bits.                          *)
(***************************************************************************)
Pow(n) == 2 ^ n
Bit    == {0, 1}

LEMMA Powers ==
  /\ Pow(0) = 1 /\ Pow(1) = 2 /\ Pow(2) = 4 /\ Pow(3) = 8 /\ Pow(4) = 16 /\ Pow(5) = 32
  /\ Pow(6) = 64 /\ Pow(7) = 128 /\ Pow(8) = 256 /\ Pow(9) = 512 /\ Pow(10) = 1024
  /\ Pow(11) = 2048 /\ Pow(12) = 4096 /\ Pow(13) = 8192 /\ Pow(14) = 16384
  /\ Pow(15) = 32768 /\ Pow(16) = 65536
BY SMT DEF Pow

LEMMA PowIs ==
  ASSUME NEW n \in 0..16
  PROVE  /\ Pow(n) \in Nat /\ 1 <= Pow(n) /\ Pow(n) <= W
         /\ n >= 1 => Pow(n) = 2 * Pow(n - 1)
<1>1. \/ n = 0 \/ n = 1 \/ n = 2 \/ n = 3 \/ n = 4 \/ n = 5 \/ n = 6 \/ n = 7 \/ n = 8
      \/ n = 9 \/ n = 10 \/ n = 11 \/ n = 12 \/ n = 13 \/ n = 14 \/ n = 15 \/ n = 16
  BY SMT
<1> QED BY <1>1, Powers, SMT DEF W

LEMMA HalfOf ==
  ASSUME NEW v \in Nat, NEW a \in Nat, a >= 1
  PROVE  /\ v \div a \in Nat /\ (v \div a) % 2 \in Bit
         /\ v \div a = 2 * (v \div (2 * a)) + ((v \div a) % 2)
<1> DEFINE x == v \div a
<1>1. x \in Nat
  BY SMT
<1>2. x \div 2 = v \div (2 * a)
  BY SMT
<1> HIDE DEF x
<1>3. x % 2 \in Bit /\ x = 2 * (x \div 2) + (x % 2)
  BY <1>1, SMT DEF Bit
<1> QED BY <1>1, <1>2, <1>3 DEF x

LEMMA HalvesIs ==
  ASSUME NEW v \in Nat, NEW m \in 0..15
  PROVE  /\ v \div Pow(m) \in Nat /\ (v \div Pow(m)) % 2 \in Bit
         /\ v \div Pow(m) = 2 * (v \div Pow(m + 1)) + ((v \div Pow(m)) % 2)
<1>1. m + 1 \in 0..16 /\ m \in 0..16 /\ m + 1 >= 1 /\ (m + 1) - 1 = m
  BY SMT
<1>2. Pow(m) \in Nat /\ Pow(m) >= 1 /\ Pow(m + 1) = 2 * Pow(m)
  BY <1>1, PowIs
<1> QED BY <1>2, HalfOf

(* bu_getNumBits(): the fewest bits that hold the value.                   *)
FitsIn(value, n) == value < Pow(n) /\ (n = 0 \/ value >= Pow(n - 1))

(* getNumBits() gives as many bits as a number of 16 bits needs.           *)
LEMMA NumBitsIs ==
  ASSUME NEW value \in 0..(W - 1)
  PROVE  LET n == GetNumBits(value) IN
         /\ n \in 0..16 /\ value < Pow(n)
         /\ value >= 1 => n >= 1
         /\ value <= 255 => n <= 8
<1> DEFINE n == GetNumBits(value)
<1>1. \E k \in 0..16 : FitsIn(value, k)
  <2>1. value \in Nat /\ value < Pow(16)
    BY Powers, SMT DEF W
  <2>2. /\ value < Pow(0) => FitsIn(value, 0)
        /\ value >= Pow(0) /\ value < Pow(1) => FitsIn(value, 1)
        /\ value >= Pow(1) /\ value < Pow(2) => FitsIn(value, 2)
        /\ value >= Pow(2) /\ value < Pow(3) => FitsIn(value, 3)
        /\ value >= Pow(3) /\ value < Pow(4) => FitsIn(value, 4)
        /\ value >= Pow(4) /\ value < Pow(5) => FitsIn(value, 5)
        /\ value >= Pow(5) /\ value < Pow(6) => FitsIn(value, 6)
        /\ value >= Pow(6) /\ value < Pow(7) => FitsIn(value, 7)
        /\ value >= Pow(7) /\ value < Pow(8) => FitsIn(value, 8)
        /\ value >= Pow(8) /\ value < Pow(9) => FitsIn(value, 9)
        /\ value >= Pow(9) /\ value < Pow(10) => FitsIn(value, 10)
        /\ value >= Pow(10) /\ value < Pow(11) => FitsIn(value, 11)
        /\ value >= Pow(11) /\ value < Pow(12) => FitsIn(value, 12)
        /\ value >= Pow(12) /\ value < Pow(13) => FitsIn(value, 13)
        /\ value >= Pow(13) /\ value < Pow(14) => FitsIn(value, 14)
        /\ value >= Pow(14) /\ value < Pow(15) => FitsIn(value, 15)
        /\ value >= Pow(15) /\ value < Pow(16) => FitsIn(value, 16)
    BY SMT DEF FitsIn
  <2>3. \/ value < Pow(0)
        \/ value >= Pow(0) /\ value < Pow(1)
        \/ value >= Pow(1) /\ value < Pow(2)
        \/ value >= Pow(2) /\ value < Pow(3)
        \/ value >= Pow(3) /\ value < Pow(4)
        \/ value >= Pow(4) /\ value < Pow(5)
        \/ value >= Pow(5) /\ value < Pow(6)
        \/ value >= Pow(6) /\ value < Pow(7)
        \/ value >= Pow(7) /\ value < Pow(8)
        \/ value >= Pow(8) /\ value < Pow(9)
        \/ value >= Pow(9) /\ value < Pow(10)
        \/ value >= Pow(10) /\ value < Pow(11)
        \/ value >= Pow(11) /\ value < Pow(12)
        \/ value >= Pow(12) /\ value < Pow(13)
        \/ value >= Pow(13) /\ value < Pow(14)
        \/ value >= Pow(14) /\ value < Pow(15)
        \/ value >= Pow(15) /\ value < Pow(16)
    BY <2>1, Powers, SMT
  <2> QED BY <2>2, <2>3, SMT
<1>2. n = CHOOSE k \in 0..16 : FitsIn(value, k)
  BY DEF GetNumBits, FitsIn, Pow
<1>3. n \in 0..16 /\ FitsIn(value, n)
  <2> HIDE DEF n
  <2> QED BY <1>1, <1>2
<1> HIDE DEF n
<1>4. value < Pow(n) /\ (value >= 1 => n >= 1)
  BY <1>3, Powers, SMT DEF FitsIn
<1>5. ASSUME value <= 255 PROVE n <= 8
  <2>1. \/ n = 0 \/ n = 1 \/ n = 2 \/ n = 3 \/ n = 4 \/ n = 5 \/ n = 6 \/ n = 7 \/ n = 8
        \/ n = 9 \/ n = 10 \/ n = 11 \/ n = 12 \/ n = 13 \/ n = 14 \/ n = 15 \/ n = 16
    BY <1>3, SMT
  <2> QED BY <1>3, <1>5, <2>1, Powers, SMT DEF FitsIn
<1> QED BY <1>3, <1>4, <1>5 DEF n

-----------------------------------------------------------------------------
(***************************************************************************)
(* ToNumber(), bit by bit.                                                 *)
(***************************************************************************)
IsCount(bits, n, g) == g = [i \in 0..n |-> IF i = 0 THEN 0 ELSE 2 * g[i - 1] + bits[i]]

LEMMA CountExists ==
  ASSUME NEW bits, NEW n \in Nat
  PROVE  \E g : IsCount(bits, n, g)
<1> DEFINE S == {j \in Nat : \E g : IsCount(bits, j, g)}
<1>1. 0 \in S
  <2> DEFINE g == [i \in 0..0 |-> 0]
  <2>1. IsCount(bits, 0, g)
    BY SMT DEF IsCount
  <2> QED BY <2>1
<1>2. ASSUME NEW j \in S
      PROVE  j + 1 \in S
  <2>1. PICK g : IsCount(bits, j, g)
    OBVIOUS
  <2> DEFINE h == [i \in 0..(j + 1) |-> IF i = j + 1 THEN 2 * g[j] + bits[j + 1] ELSE g[i]]
  <2>2. IsCount(bits, j + 1, h)
    BY <2>1, SMT DEF IsCount
  <2> QED BY <2>2
<1>3. S = Nat
  BY <1>1, <1>2, SetInduction
<1> QED BY <1>3

LEMMA NumberSteps ==
  ASSUME NEW bits, Len(bits) \in Nat
  PROVE  \E g : /\ g[0] = 0 /\ \A i \in 1..Len(bits) : g[i] = 2 * g[i - 1] + bits[i]
                /\ ToNumber(bits) = g[Len(bits)]
<1> DEFINE n == Len(bits)
           g == CHOOSE h : IsCount(bits, n, h)
<1>1. IsCount(bits, n, g)
  BY CountExists
<1>2. ToNumber(bits) = g[n]
  BY DEF ToNumber, IsCount
<1>3. n \in Nat
  OBVIOUS
<1> HIDE DEF g, n
<1>4. g[0] = 0 /\ \A i \in 1..n : g[i] = 2 * g[i - 1] + bits[i]
  BY <1>1, <1>3, SMT DEF IsCount
<1> QED BY <1>2, <1>4 DEF n

(* The first n bits of m, which are those of v, are v without its last     *)
(* m - n bits.                                                             *)
BitsOf(v, m, n, bits) ==
  Len(bits) = n /\ \A j \in 1..n : bits[j] = (v \div Pow(m - j)) % 2

(* The first n of m bits of a number are the number without its lower      *)
(* bits.                                                                   *)
LEMMA NumberOfPrefix ==
  ASSUME NEW m \in 0..16, NEW n \in 0..m, NEW v \in 0..(Pow(m) - 1), NEW bits,
         BitsOf(v, m, n, bits)
  PROVE  ToNumber(bits) = v \div Pow(m - n)
<1>1. PICK g : /\ g[0] = 0 /\ \A i \in 1..n : g[i] = 2 * g[i - 1] + bits[i]
               /\ ToNumber(bits) = g[n]
  <2>1. Len(bits) = n /\ n \in Nat
    BY SMT DEF BitsOf
  <2> QED BY <2>1, NumberSteps
<1> DEFINE S == {i \in Nat : i <= n => g[i] = v \div Pow(m - i)}
<1>2. 0 \in S
  <2>1. Pow(m) \in Nat /\ Pow(m) >= 1
    BY PowIs
  <2>2. v \div Pow(m) = 0
    BY <2>1, SMT
  <2>3. m - 0 = m
    BY SMT
  <2> QED BY <1>1, <2>2, <2>3
<1>3. ASSUME NEW i \in S
      PROVE  i + 1 \in S
  <2> SUFFICES ASSUME i + 1 <= n PROVE g[i + 1] = v \div Pow(m - (i + 1))
    OBVIOUS
  <2>1. /\ i + 1 \in 1..n /\ (i + 1) - 1 = i /\ i <= n
        /\ m - (i + 1) \in 0..15 /\ (m - (i + 1)) + 1 = m - i
    BY SMT
  <2>2. g[i + 1] = 2 * (v \div Pow(m - i)) + bits[i + 1]
    BY <1>1, <2>1
  <2>3. bits[i + 1] = (v \div Pow(m - (i + 1))) % 2
    BY <2>1 DEF BitsOf
  <2>4. v \in Nat
    BY PowIs, SMT
  <2> QED BY <2>1, <2>2, <2>3, <2>4, HalvesIs
<1>4. S = Nat
  BY <1>2, <1>3, SetInduction
<1>5. n \in S /\ n <= n
  BY <1>4, SMT
<1> QED BY <1>1, <1>5

-----------------------------------------------------------------------------
(***************************************************************************)
(* Eight bits and the byte they are.                                       *)
(***************************************************************************)
LEMMA SeqOfFunction ==
  ASSUME NEW S, NEW n \in Nat, NEW f \in [1..n -> S]
  PROVE  f \in Seq(S) /\ Len(f) = n
<1>1. f \in Seq(S)
  BY SeqDef
<1>2. DOMAIN f = 1..Len(f) /\ Len(f) \in Nat
  BY <1>1, LenProperties
<1>3. 1..Len(f) = 1..n
  BY <1>2
<1>4. Len(f) = n
  BY <1>2, <1>3, SMT
<1> QED BY <1>1, <1>4

EightSum(b) ==
  128 * b[1] + 64 * b[2] + 32 * b[3] + 16 * b[4] + 8 * b[5] + 4 * b[6] + 2 * b[7] + b[8]

LEMMA OctetIs ==
  ASSUME NEW b \in [1..8 -> Bit]
  PROVE  /\ b \in Seq(Bit) /\ Len(b) = 8
         /\ ToNumber(b) = EightSum(b) /\ ToNumber(b) \in 0..255
         /\ ToBits(ToNumber(b), 8) = b
<1>1. b \in Seq(Bit) /\ Len(b) = 8
  BY SeqOfFunction
<1>2. PICK g : /\ g[0] = 0 /\ \A i \in 1..8 : g[i] = 2 * g[i - 1] + b[i]
               /\ ToNumber(b) = g[8]
  <2>1. Len(b) \in Nat
    BY <1>1, SMT
  <2> QED BY <1>1, <2>1, NumberSteps
<1>3. \A i \in 1..8 : b[i] \in Bit
  OBVIOUS
<1>4. /\ b[1] \in 0..1 /\ b[2] \in 0..1 /\ b[3] \in 0..1 /\ b[4] \in 0..1
      /\ b[5] \in 0..1 /\ b[6] \in 0..1 /\ b[7] \in 0..1 /\ b[8] \in 0..1
  BY <1>3, SMT DEF Bit
<1>5. /\ g[1] = 2 * g[0] + b[1] /\ g[2] = 2 * g[1] + b[2] /\ g[3] = 2 * g[2] + b[3]
      /\ g[4] = 2 * g[3] + b[4] /\ g[5] = 2 * g[4] + b[5] /\ g[6] = 2 * g[5] + b[6]
      /\ g[7] = 2 * g[6] + b[7] /\ g[8] = 2 * g[7] + b[8]
  BY <1>2, SMT
<1>6. ToNumber(b) = EightSum(b) /\ ToNumber(b) \in 0..255
  <2>1. g[8] = EightSum(b) /\ g[8] \in 0..255
    BY <1>2, <1>4, <1>5, SMT DEF EightSum
  <2> QED BY <1>2, <2>1
<1> DEFINE N == ToNumber(b)
<1>7. /\ (N \div 128) % 2 = b[1] /\ (N \div 64) % 2 = b[2] /\ (N \div 32) % 2 = b[3]
      /\ (N \div 16) % 2 = b[4] /\ (N \div 8) % 2 = b[5] /\ (N \div 4) % 2 = b[6]
      /\ (N \div 2) % 2 = b[7] /\ (N \div 1) % 2 = b[8]
  <2> HIDE DEF N
  <2>1. N = EightSum(b)
    BY <1>6 DEF N
  <2>2. N \div 128 = b[1]
    BY <2>1, <1>4, SMT DEF EightSum
  <2>3. N \div 64 = 2 * b[1] + b[2]
    BY <2>1, <1>4, SMT DEF EightSum
  <2>4. N \div 32 = 4 * b[1] + 2 * b[2] + b[3]
    BY <2>1, <1>4, SMT DEF EightSum
  <2>5. N \div 16 = 8 * b[1] + 4 * b[2] + 2 * b[3] + b[4]
    BY <2>1, <1>4, SMT DEF EightSum
  <2>6. N \div 8 = 16 * b[1] + 8 * b[2] + 4 * b[3] + 2 * b[4] + b[5]
    BY <2>1, <1>4, SMT DEF EightSum
  <2>7. N \div 4 = 32 * b[1] + 16 * b[2] + 8 * b[3] + 4 * b[4] + 2 * b[5] + b[6]
    BY <2>1, <1>4, SMT DEF EightSum
  <2>8. N \div 2 = 64 * b[1] + 32 * b[2] + 16 * b[3] + 8 * b[4] + 4 * b[5] + 2 * b[6] + b[7]
    BY <2>1, <1>4, SMT DEF EightSum
  <2>9. N \div 1 = N
    BY <2>1, <1>4, SMT DEF EightSum
  <2>10. \A x, y \in Int : y \in 0..1 => (2 * x + y) % 2 = y
    BY SMT
  <2>11. (N \div 128) % 2 = b[1]
    BY <2>2, <1>4, SMT
  <2>12. (N \div 64) % 2 = b[2]
    BY <2>3, <1>4, SMT
  <2>13. (N \div 32) % 2 = b[3]
    BY <2>4, <1>4, SMT
  <2>14. (N \div 16) % 2 = b[4]
    BY <2>5, <1>4, SMT
  <2>15. (N \div 8) % 2 = b[5]
    BY <2>6, <1>4, SMT
  <2>16. (N \div 4) % 2 = b[6]
    BY <2>7, <1>4, SMT
  <2>17. (N \div 2) % 2 = b[7]
    BY <2>8, <1>4, SMT
  <2>18. (N \div 1) % 2 = b[8]
    BY <2>1, <2>9, <1>4, SMT DEF EightSum
  <2> QED BY <2>11, <2>12, <2>13, <2>14, <2>15, <2>16, <2>17, <2>18
<1>8. ASSUME NEW i \in 1..8
      PROVE  (N \div 2 ^ (8 - i)) % 2 = b[i]
  <2> HIDE DEF N
  <2>1. \/ i = 1 \/ i = 2 \/ i = 3 \/ i = 4 \/ i = 5 \/ i = 6 \/ i = 7 \/ i = 8
    BY SMT
  <2>2. 2 ^ (8 - i) = Pow(8 - i)
    BY DEF Pow
  <2>3. /\ 8 - 1 = 7 /\ 8 - 2 = 6 /\ 8 - 3 = 5 /\ 8 - 4 = 4 /\ 8 - 5 = 3 /\ 8 - 6 = 2
        /\ 8 - 7 = 1 /\ 8 - 8 = 0
    BY SMT
  <2> QED BY <1>7, <2>1, <2>2, <2>3, Powers
<1>9. ToBits(N, 8) = b
  <2>1. ToBits(N, 8) = [i \in 1..8 |-> b[i]]
    <3> HIDE DEF N
    <3> QED BY <1>8 DEF ToBits
  <2> QED BY <2>1
<1> QED BY <1>1, <1>6, <1>9

(* The bits that are left, padded with zeros.                              *)
LEMMA PaddedIs ==
  ASSUME NEW r \in 1..7, NEW bits, Len(bits) = r, NEW b \in [1..8 -> Bit],
         \A j \in 1..8 : b[j] = IF j <= r THEN bits[j] ELSE 0
  PROVE  ToNumber(bits) * 2 ^ (8 - r) = ToNumber(b)
<1>1. PICK g : /\ g[0] = 0 /\ \A i \in 1..r : g[i] = 2 * g[i - 1] + bits[i]
               /\ ToNumber(bits) = g[r]
  <2>1. Len(bits) \in Nat
    BY SMT
  <2> QED BY <2>1, NumberSteps
<1>2. ToNumber(b) = EightSum(b)
  BY OctetIs
<1>3. \A j \in 1..8 : b[j] \in 0..1
  BY SMT DEF Bit
<1>4. 2 ^ (8 - r) = Pow(8 - r)
  BY DEF Pow
<1>5. ASSUME NEW i \in 1..r
      PROVE  g[i] = 2 * g[i - 1] + b[i]
  <2>1. i \in 1..8 /\ i <= r
    BY SMT
  <2>2. b[i] = bits[i]
    BY <2>1
  <2> QED BY <1>1, <2>2
<1>6. CASE r = 1
  BY <1>1, <1>2, <1>3, <1>4, <1>5, <1>6, Powers, SMT DEF EightSum
<1>7. CASE r = 2
  BY <1>1, <1>2, <1>3, <1>4, <1>5, <1>7, Powers, SMT DEF EightSum
<1>8. CASE r = 3
  BY <1>1, <1>2, <1>3, <1>4, <1>5, <1>8, Powers, SMT DEF EightSum
<1>9. CASE r = 4
  BY <1>1, <1>2, <1>3, <1>4, <1>5, <1>9, Powers, SMT DEF EightSum
<1>10. CASE r = 5
  BY <1>1, <1>2, <1>3, <1>4, <1>5, <1>10, Powers, SMT DEF EightSum
<1>11. CASE r = 6
  BY <1>1, <1>2, <1>3, <1>4, <1>5, <1>11, Powers, SMT DEF EightSum
<1>12. CASE r = 7
  BY <1>1, <1>2, <1>3, <1>4, <1>5, <1>12, Powers, SMT DEF EightSum
<1>13. \/ r = 1 \/ r = 2 \/ r = 3 \/ r = 4 \/ r = 5 \/ r = 6 \/ r = 7
  BY SMT
<1> QED BY <1>6, <1>7, <1>8, <1>9, <1>10, <1>11, <1>12, <1>13

-----------------------------------------------------------------------------
(***************************************************************************)
(* A row of bits, with zeros behind it.                                    *)
(***************************************************************************)
BitAt(bits, i) == IF i \in 1..Len(bits) THEN bits[i] ELSE 0
Octet(bits, k) == [j \in 1..8 |-> BitAt(bits, 8 * (k - 1) + j)]
Byte(bits, k)  == ToNumber(Octet(bits, k))

LEMMA BitIs ==
  ASSUME NEW bits \in Seq(Bit), NEW i \in Int
  PROVE  BitAt(bits, i) \in Bit
<1>1. CASE i \in 1..Len(bits)
  <2>1. bits[i] \in Bit
    BY <1>1, ElementOfSeq
  <2> QED BY <1>1, <2>1 DEF BitAt
<1>2. CASE ~(i \in 1..Len(bits))
  BY <1>2 DEF BitAt, Bit
<1> QED BY <1>1, <1>2

LEMMA ByteIs ==
  ASSUME NEW bits \in Seq(Bit), NEW k \in Nat
  PROVE  /\ Octet(bits, k) \in [1..8 -> Bit]
         /\ Byte(bits, k) \in 0..255
         /\ ToBits(Byte(bits, k), 8) = Octet(bits, k)
<1>1. ASSUME NEW j \in 1..8
      PROVE  BitAt(bits, 8 * (k - 1) + j) \in Bit
  <2>1. 8 * (k - 1) + j \in Int
    BY SMT
  <2> QED BY <2>1, BitIs
<1>2. Octet(bits, k) \in [1..8 -> Bit]
  BY <1>1 DEF Octet
<1> QED BY <1>2, OctetIs DEF Byte

(* Of bits behind which others are pushed, the full bytes stay.            *)
LEMMA ByteOfPrefix ==
  ASSUME NEW bits \in Seq(Bit), NEW more \in Seq(Bit), NEW k \in Nat, k >= 1, 8 * k <= Len(bits)
  PROVE  Byte(bits \o more, k) = Byte(bits, k)
<1> DEFINE both == bits \o more
<1>1. Len(both) = Len(bits) + Len(more) /\ Len(bits) \in Nat /\ Len(more) \in Nat
      /\ \A i \in 1..Len(bits) : both[i] = bits[i]
  BY ConcatProperties, SMT
<1> HIDE DEF both
<1>2. ASSUME NEW j \in 1..8
      PROVE  BitAt(both, 8 * (k - 1) + j) = BitAt(bits, 8 * (k - 1) + j)
  <2>1. /\ 8 * (k - 1) + j \in 1..Len(bits)
        /\ 8 * (k - 1) + j \in 1..Len(both)
    BY <1>1, SMT
  <2> QED BY <1>1, <2>1 DEF BitAt
<1>3. Octet(both, k) = Octet(bits, k)
  BY <1>2 DEF Octet
<1> QED BY <1>3 DEF Byte, both

(* The last bits.                                                          *)
LEMMA LastBits ==
  ASSUME NEW bits \in Seq(Bit), NEW size \in 0..Len(bits)
  PROVE  LET last == SubSeq(bits, Len(bits) - size + 1, Len(bits)) IN
         /\ last \in Seq(Bit) /\ Len(last) = size
         /\ \A j \in 1..size : last[j] = bits[Len(bits) - size + j]
<1> DEFINE L == Len(bits)
           m == L - size + 1
<1>0. L \in Nat /\ size \in Nat /\ m = L - size + 1 /\ m \in Int /\ m >= 1
  BY LenProperties, SMT
<1>1. L \in Nat /\ \A j \in 1..L : bits[j] \in Bit
  BY LenProperties, ElementOfSeq
<1> HIDE DEF m
<1>2. m >= 1 /\ size \in Nat /\ size = L - m + 1
  BY <1>0, SMT
<1>4. \A j \in m..L : bits[j] \in Bit
  <2>1. \A j \in m..L : j \in 1..L
    BY <1>0, <1>1, <1>2, SMT
  <2> QED BY <1>1, <2>1
<1>5. /\ SubSeq(bits, m, L) \in Seq(Bit)
      /\ Len(SubSeq(bits, m, L)) = IF m <= L THEN L - m + 1 ELSE 0
      /\ \A j \in 1..(L - m + 1) : SubSeq(bits, m, L)[j] = bits[m + j - 1]
  BY <1>0, <1>1, <1>2, <1>4, SubSeqProperties
<1>6. (IF m <= L THEN L - m + 1 ELSE 0) = size
  BY <1>0, <1>1, <1>2, SMT
<1>7. ASSUME NEW j \in 1..size
      PROVE  SubSeq(bits, m, L)[j] = bits[L - size + j]
  <2>1. j \in Int /\ j \in 1..(L - m + 1)
    BY <1>0, <1>1, <1>2, SMT
  <2>2. m + j - 1 = L - size + j
    BY <1>0, <1>1, <1>2, <2>1, SMT
  <2>3. SubSeq(bits, m, L)[j] = bits[m + j - 1]
    BY <1>5, <2>1
  <2> QED BY <2>2, <2>3
<1> QED BY <1>5, <1>6, <1>7 DEF m

Kept(bits, n) == IF Len(bits) > n THEN n ELSE Len(bits)

(* A bit buffer cut to n bits keeps its last ones, or all when it has no   *)
(* more.                                                                   *)
LEMMA LowBitsIs ==
  ASSUME NEW bits \in Seq(Bit), NEW n \in Nat
  PROVE  /\ LowBits(bits, n) \in Seq(Bit)
         /\ Kept(bits, n) \in 0..Len(bits) /\ Kept(bits, n) \in Nat
         /\ \/ Kept(bits, n) = Len(bits) /\ Len(bits) <= n
            \/ Kept(bits, n) = n /\ Len(bits) > n
         /\ Len(LowBits(bits, n)) = Kept(bits, n)
         /\ \A j \in 1..Kept(bits, n) :
              LowBits(bits, n)[j] = bits[Len(bits) - Kept(bits, n) + j]
<1>1. Len(bits) \in Nat
  OBVIOUS
<1>2. /\ Kept(bits, n) \in 0..Len(bits) /\ Kept(bits, n) \in Nat
      /\ \/ Kept(bits, n) = Len(bits) /\ Len(bits) <= n
         \/ Kept(bits, n) = n /\ Len(bits) > n
  BY <1>1, SMT DEF Kept
<1>3. Len(bits) - Kept(bits, n) + 1 = IF Len(bits) > n THEN Len(bits) - n + 1 ELSE 1
  BY <1>1, SMT DEF Kept
<1>4. LowBits(bits, n) = SubSeq(bits, Len(bits) - Kept(bits, n) + 1, Len(bits))
  BY <1>3 DEF LowBits
<1>5. /\ LowBits(bits, n) \in Seq(Bit) /\ Len(LowBits(bits, n)) = Kept(bits, n)
      /\ \A j \in 1..Kept(bits, n) :
           LowBits(bits, n)[j] = bits[Len(bits) - Kept(bits, n) + j]
  BY <1>2, <1>4, LastBits
<1> QED BY <1>2, <1>5

-----------------------------------------------------------------------------
(***************************************************************************)
(* A column of a schema, and the bits it gives a value.                    *)
(***************************************************************************)
ColumnIs(column) ==
  /\ column.min \in 0..column.max /\ column.max \in 0..(W - 1)
  /\ column.step \in 1..127
  /\ (column.max - column.min) % column.step = 0
  /\ column.default \in column.min..column.max
  /\ (column.default - column.min) % column.step = 0
  /\ column.virtual \in BOOLEAN

Steps(column, value) ==
  ((value - column.min) \div column.step) % Pow(NumBitsOfColumn(column))

LEMMA WIs == W = 65536 /\ W \in Nat
BY SMT DEF W

LEMMA RangeIs ==
  ASSUME NEW min, NEW max, NEW default, NEW step,
         min \in 0..max, max \in 0..(W - 1), default \in min..max, step \in 1..127
  PROVE  /\ step \in Nat /\ min \in Nat /\ max \in Nat /\ default \in Nat
         /\ min <= max /\ max <= 65535 /\ min <= default /\ default <= max
         /\ max - min \in Nat /\ max - min <= 65535
<1>1. max \in Nat /\ max <= 65535
  BY SMT DEF W
<1>2. min \in Nat /\ min <= max
  BY <1>1, SMT
<1> QED BY <1>1, <1>2, SMT

LEMMA ColumnRange ==
  ASSUME NEW column, ColumnIs(column)
  PROVE  /\ column.step \in 1..127 /\ column.step \in Nat
         /\ column.min \in Nat /\ column.max \in Nat /\ column.default \in Nat
         /\ column.min <= column.max /\ column.max <= 65535
         /\ column.min <= column.default /\ column.default <= column.max
         /\ column.max - column.min \in Nat /\ column.max - column.min <= 65535
BY RangeIs DEF ColumnIs

LEMMA UpTo ==
  ASSUME NEW e \in Nat, NEW f \in Nat, e <= f
  PROVE  e \in 0..f
BY SMT

LEMMA InRange ==
  ASSUME NEW d \in Nat, d <= 65535, NEW e \in Nat, e <= d
  PROVE  e \in 0..(W - 1)
<1>1. W - 1 = 65535 /\ W - 1 \in Nat
  BY SMT DEF W
<1>2. e <= 65535
  BY SMT
<1> QED BY <1>1, <1>2, UpTo

LEMMA RemainderIs ==
  ASSUME NEW a \in Int, NEW k \in Nat, k >= 1
  PROVE  a % k \in 0..(k - 1)
BY SMT

LEMMA QuotientIs ==
  ASSUME NEW a \in Nat, NEW b \in Nat, a <= b, NEW k \in 1..127
  PROVE  a \div k \in Nat /\ a \div k <= b \div k /\ b \div k <= b
BY SMT

(* A column of 16 bits never needs more than those, and its steps from min *)
(* fit in the bits that it gets.                                           *)
LEMMA ColumnBitsIs ==
  ASSUME NEW column, ColumnIs(column), NEW value \in Int
  PROVE  LET n == NumBitsOfColumn(column) IN
         /\ n \in 0..16
         /\ ColumnBits(column, value) \in Seq(Bit) /\ Len(ColumnBits(column, value)) = n
         /\ Steps(column, value) \in 0..(Pow(n) - 1)
         /\ BitsOf(Steps(column, value), n, n, ColumnBits(column, value))
         /\ ToNumber(ColumnBits(column, value)) = Steps(column, value)
<1> DEFINE n == NumBitsOfColumn(column)
           v == Steps(column, value)
           bits == ColumnBits(column, value)
           range == column.max - column.min
<1>1. range \in Nat /\ range <= 65535 /\ column.step \in 1..127 /\ column.min \in Nat
  BY ColumnRange
<1>2. n \in 0..16
  <2>1. range \div column.step \in 0..(W - 1)
    <3>1. range \in Nat /\ range <= range
      <4> HIDE DEF range
      <4> QED BY <1>1, SMT
    <3> HIDE DEF range
    <3>2. range \div column.step \in Nat /\ range \div column.step <= range
      BY <1>1, <3>1, QuotientIs
    <3> QED BY <1>1, <3>2, InRange
  <2> QED BY <2>1, NumBitsIs DEF NumBitsOfColumn
<1>3. Pow(n) \in Nat /\ Pow(n) >= 1
  <2> HIDE DEF n
  <2> QED BY <1>2, PowIs
<1>4. v \in 0..(Pow(n) - 1)
  <2>1. (value - column.min) \div column.step \in Int
    BY <1>1, SMT
  <2> HIDE DEF n
  <2>2. ((value - column.min) \div column.step) % Pow(n) \in 0..(Pow(n) - 1)
    BY <1>3, <2>1, RemainderIs
  <2> QED BY <2>2 DEF Steps, n
<1>5. bits = [i \in 1..n |-> (v \div Pow(n - i)) % 2]
  BY DEF ColumnBits, ToBits, Steps, Pow
<1> HIDE DEF n, v, bits
<1>6. ASSUME NEW i \in 1..n
      PROVE  (v \div Pow(n - i)) % 2 \in Bit
  <2>1. n - i \in 0..15 /\ v \in Nat
    BY <1>2, <1>3, <1>4, SMT
  <2> QED BY <2>1, HalvesIs
<1>7. bits \in [1..n -> Bit] /\ n \in Nat
  BY <1>2, <1>5, <1>6, SMT
<1>8. bits \in Seq(Bit) /\ Len(bits) = n
  BY <1>7, SeqOfFunction
<1>9. BitsOf(v, n, n, bits)
  BY <1>5, <1>8 DEF BitsOf
<1>10. ToNumber(bits) = v
  <2>1. n \in 0..n /\ n - n = 0 /\ v \in Nat
    BY <1>2, <1>3, <1>4, SMT
  <2>2. ToNumber(bits) = v \div Pow(n - n)
    BY <1>2, <1>4, <1>9, <2>1, NumberOfPrefix
  <2>3. v \div 1 = v
    BY <2>1, SMT
  <2> QED BY <2>1, <2>2, <2>3, Powers
<1> QED BY <1>2, <1>4, <1>8, <1>9, <1>10 DEF n, v, bits

(* A value of the column, with its steps, is what they give back.          *)
StepsBack(column, value) == (Steps(column, value) * column.step + column.min) % W

ValueConforms(column, value) ==
  LET steps == (value - column.min) \div column.step IN
  value = column.min + steps * column.step /\ value \in column.min..column.max

(* What is decoded from those bits is a value of 16 bits, and for a value  *)
(* that conforms to the column it is that value.                           *)
LEMMA StepsBackIs ==
  ASSUME NEW column, ColumnIs(column), NEW value \in Int
  PROVE  /\ StepsBack(column, value) \in 0..(W - 1)
         /\ ValueConforms(column, value) => StepsBack(column, value) = value
<1> DEFINE n == NumBitsOfColumn(column)
           s == Steps(column, value)
           d == column.max - column.min
           q == (value - column.min) \div column.step
<1>1. n \in 0..16 /\ s \in 0..(Pow(n) - 1) /\ Pow(n) \in Nat /\ Pow(n) >= 1
  BY ColumnBitsIs, PowIs
<1>2. /\ column.step \in 1..127 /\ column.min \in Nat /\ column.max \in 0..(W - 1)
      /\ column.max \in Nat /\ column.max <= 65535 /\ d \in Nat /\ d <= 65535
  BY ColumnRange DEF ColumnIs
<1>3. s * column.step + column.min \in Int
  <2> HIDE DEF s
  <2>1. s \in Int
    BY <1>1, SMT
  <2> QED BY <1>2, <2>1, SMT
<1>4. StepsBack(column, value) \in 0..(W - 1)
  <2> HIDE DEF s
  <2>1. W \in Nat /\ W >= 1
    BY SMT DEF W
  <2>2. (s * column.step + column.min) % W \in 0..(W - 1)
    BY <1>3, <2>1, RemainderIs
  <2> QED BY <2>2 DEF StepsBack, s
<1>5. ASSUME ValueConforms(column, value)
      PROVE  StepsBack(column, value) = value
  <2>1. value = column.min + q * column.step /\ value \in column.min..column.max
    BY <1>5 DEF ValueConforms
  <2>2. value - column.min \in Nat /\ value - column.min <= d
    BY <1>2, <2>1, SMT
  <2>3. q \in Nat /\ q <= d \div column.step /\ d \div column.step <= d /\ d \div column.step \in Nat
    <3> HIDE DEF d
    <3>1. d \in Nat /\ d <= d
      BY <1>2, SMT
    <3>2. d \div column.step \in Nat /\ d \div column.step <= d
      BY <1>2, <3>1, QuotientIs
    <3> DEFINE x == value - column.min
    <3>3. x \in Nat /\ x <= d
      BY <2>2
    <3> HIDE DEF x
    <3>4. x \div column.step \in Nat /\ x \div column.step <= d \div column.step
      BY <1>2, <3>1, <3>3, QuotientIs
    <3> QED BY <3>2, <3>4 DEF x
  <2>4. d \div column.step < Pow(n)
    <3>1. d \div column.step \in 0..(W - 1)
      BY <1>2, <2>3, InRange
    <3> QED BY <3>1, NumBitsIs DEF NumBitsOfColumn
  <2>5. q % Pow(n) = q
    <3> DEFINE e == d \div column.step
    <3>1. q \in Nat /\ q <= e /\ e \in Nat /\ e < Pow(n)
      BY <2>3, <2>4
    <3> HIDE DEF q, e, n
    <3> QED BY <3>1, <1>1, SMT
  <2>6. s = q
    BY <2>5 DEF Steps
  <2>7. StepsBack(column, value) = (q * column.step + column.min) % W
    BY <2>6 DEF StepsBack
  <2>8. q * column.step + column.min = value
    <3> HIDE DEF q
    <3> QED BY <1>2, <2>1, <2>3, SMT
  <2>9. value % W = value
    <3>1. value \in Nat /\ value <= 65535
      BY <1>2, <2>1, SMT
    <3> QED BY <3>1, WIs, SMT
  <2> QED BY <2>7, <2>8, <2>9
<1> QED BY <1>4, <1>5

-----------------------------------------------------------------------------
(***************************************************************************)
(* rc_encodeRecord(): the bits pushed so far, and what there is of them in *)
(* the bit buffer and in the bytes that are written.                       *)
(***************************************************************************)
LEMMA Pushing ==
  ASSUME NEW a \in Seq(Bit), NEW b \in Seq(Bit)
  PROVE  /\ a \o b \in Seq(Bit) /\ Len(a \o b) = Len(a) + Len(b)
         /\ Len(a) \in Nat /\ Len(b) \in Nat
         /\ \A i \in 1..(Len(a) + Len(b)) :
              (a \o b)[i] = IF i <= Len(a) THEN a[i] ELSE b[i - Len(a)]
BY ConcatProperties

(* A bit buffer that has lost its oldest bits is none the worse.           *)
LEMMA LowBitsOfBoth ==
  ASSUME NEW a \in Seq(Bit), NEW b \in Seq(Bit), NEW n \in Nat
  PROVE  LowBits(LowBits(a, n) \o b, n) = LowBits(a \o b, n)
<1> DEFINE low == LowBits(a, n)
           la  == Kept(a, n)
           p   == low \o b
           q   == a \o b
           lp  == Kept(p, n)
<1>1. /\ low \in Seq(Bit) /\ la \in Nat /\ Len(low) = la
      /\ \/ la = Len(a) /\ Len(a) <= n
         \/ la = n /\ Len(a) > n
      /\ \A j \in 1..la : low[j] = a[Len(a) - la + j]
  BY LowBitsIs
<1>2. /\ q \in Seq(Bit) /\ Len(q) = Len(a) + Len(b) /\ Len(a) \in Nat /\ Len(b) \in Nat
      /\ \A i \in 1..(Len(a) + Len(b)) : q[i] = IF i <= Len(a) THEN a[i] ELSE b[i - Len(a)]
  BY Pushing
<1> HIDE DEF low, la
<1>3. /\ p \in Seq(Bit) /\ Len(p) = la + Len(b)
      /\ \A i \in 1..(la + Len(b)) : p[i] = IF i <= la THEN low[i] ELSE b[i - la]
  <2>1. /\ low \o b \in Seq(Bit) /\ Len(low \o b) = Len(low) + Len(b)
        /\ \A i \in 1..(Len(low) + Len(b)) :
             (low \o b)[i] = IF i <= Len(low) THEN low[i] ELSE b[i - Len(low)]
    BY <1>1, Pushing
  <2> QED BY <1>1, <2>1
<1> HIDE DEF p, q
<1>4. /\ LowBits(p, n) \in Seq(Bit) /\ Len(LowBits(p, n)) = lp
      /\ \A j \in 1..lp : LowBits(p, n)[j] = p[Len(p) - lp + j]
  BY <1>3, LowBitsIs
<1>5. /\ LowBits(q, n) \in Seq(Bit) /\ Len(LowBits(q, n)) = Kept(q, n)
      /\ \A j \in 1..Kept(q, n) : LowBits(q, n)[j] = q[Len(q) - Kept(q, n) + j]
  BY <1>2, LowBitsIs
<1>6. Kept(q, n) = lp /\ lp \in Nat /\ lp <= la + Len(b) /\ lp <= Len(a) + Len(b)
  <2>1. /\ lp \in Nat
        /\ \/ lp = Len(p) /\ Len(p) <= n
           \/ lp = n /\ Len(p) > n
    BY <1>3, LowBitsIs
  <2>2. /\ Kept(q, n) \in Nat
        /\ \/ Kept(q, n) = Len(q) /\ Len(q) <= n
           \/ Kept(q, n) = n /\ Len(q) > n
    BY <1>2, LowBitsIs
  <2> HIDE DEF lp
  <2>3. lp = Kept(q, n)
    BY <1>1, <1>2, <1>3, <2>1, <2>2, SMT
  <2>4. lp <= la + Len(b) /\ lp <= Len(a) + Len(b)
    BY <1>1, <1>2, <1>3, <2>1, SMT
  <2> QED BY <2>1, <2>3, <2>4
<1> HIDE DEF lp
<1>9. ASSUME NEW j \in 1..lp
      PROVE  LowBits(p, n)[j] = LowBits(q, n)[j]
  <2> DEFINE x == Len(p) - lp + j
             y == Len(q) - lp + j
  <2>1. x \in 1..(la + Len(b)) /\ y \in 1..(Len(a) + Len(b))
    BY <1>1, <1>2, <1>3, <1>6, SMT
  <2>2. /\ x <= la => x \in 1..la /\ y <= Len(a) /\ Len(a) - la + x = y
        /\ ~(x <= la) => ~(y <= Len(a)) /\ x - la = y - Len(a)
    BY <1>1, <1>2, <1>3, <1>6, SMT
  <2>3. LowBits(p, n)[j] = p[x] /\ LowBits(q, n)[j] = q[y]
    BY <1>4, <1>5, <1>6
  <2> HIDE DEF x, y
  <2>4. p[x] = IF x <= la THEN low[x] ELSE b[x - la]
    BY <1>3, <2>1
  <2>5. q[y] = IF y <= Len(a) THEN a[y] ELSE b[y - Len(a)]
    BY <1>2, <2>1
  <2>6. x <= la => low[x] = a[y]
    BY <1>1, <2>2
  <2> QED BY <2>2, <2>3, <2>4, <2>5, <2>6
<1>10. LowBits(p, n) = LowBits(q, n)
  BY <1>4, <1>5, <1>6, <1>9, SeqEqual
<1> QED BY <1>10 DEF p, q, low

Pushed(bits, s) ==
  /\ s.bitBuffer = LowBits(bits, 32)
  /\ s.bitsInBuffer = Len(bits) % 8
  /\ s.out = [k \in 1..(Len(bits) \div 8) |-> Byte(bits, k)]

LEMMA OctetOfSeq ==
  ASSUME NEW bits \in Seq(Bit), NEW k \in Nat, NEW m \in Nat, 1 <= m, 
         NEW full \in Seq(Bit), m + 7 <= Len(full),
         \A j \in 1..8 : full[m + j - 1] = BitAt(bits, 8 * (k - 1) + j)
  PROVE  ToNumber(SubSeq(full, m, m + 7)) = Byte(bits, k)
<1> DEFINE sub == SubSeq(full, m, m + 7)
<1>1. Len(full) \in Nat /\ \A i \in 1..Len(full) : full[i] \in Bit
  BY LenProperties, ElementOfSeq
<1>2. \A i \in m..(m + 7) : full[i] \in Bit
  <2>1. \A i \in m..(m + 7) : i \in 1..Len(full)
    BY <1>1, SMT
  <2> QED BY <1>1, <2>1
<1>3. /\ m \in Int /\ m + 7 \in Int /\ (m + 7) - m + 1 = 8 /\ m <= m + 7
  BY SMT
<1>4. /\ sub \in Seq(Bit)
      /\ Len(sub) = IF m <= m + 7 THEN (m + 7) - m + 1 ELSE 0
      /\ \A i \in 1..((m + 7) - m + 1) : sub[i] = full[m + i - 1]
  BY <1>2, <1>3, SubSeqProperties
<1> HIDE DEF sub
<1>5. sub \in Seq(Bit) /\ Len(sub) = 8 /\ \A i \in 1..8 : sub[i] = full[m + i - 1]
  BY <1>3, <1>4
<1>6. Octet(bits, k) \in Seq(Bit) /\ Len(Octet(bits, k)) = 8
  BY ByteIs, OctetIs
<1>7. \A i \in 1..8 : sub[i] = Octet(bits, k)[i]
  BY <1>5 DEF Octet
<1>8. sub = Octet(bits, k)
  BY <1>5, <1>6, <1>7, SeqEqual
<1> QED BY <1>8 DEF Byte, sub

LEMMA EightsAdd ==
  ASSUME NEW len \in Nat, NEW n \in Nat
  PROVE  LET w == (len % 8) + n IN
         /\ len \div 8 \in Nat /\ w \div 8 \in Nat /\ w \in Nat /\ (len % 8) \in 0..7
         /\ (len + n) \div 8 = (len \div 8) + (w \div 8)
         /\ (len + n) % 8 = w % 8
         /\ 8 * (len \div 8) = len - (len % 8)
         /\ 8 * (w \div 8) <= w
         /\ (len % 8) <= len /\ w <= len + n /\ w <= 7 + n
BY SMT

(* The eight bits of a byte are among those that wait in the bit buffer.   *)
LEMMA Window ==
  ASSUME NEW size \in Nat, NEW w \in Nat, w <= size, NEW k \in Nat, k >= 1, 8 * k <= w
  PROVE  LET m == size - w + 8 * k - 7 IN
         /\ m \in Nat /\ 1 <= m /\ m + 7 <= size /\ m + 7 = size - w + 8 * k
         /\ \A j \in 1..8 : m + j - 1 \in 1..size
<1> DEFINE m == size - w + 8 * k - 7
<1>1. m \in Nat /\ 1 <= m /\ m + 7 <= size /\ m + 7 = size - w + 8 * k
  BY SMT
<1> HIDE DEF m
<1>2. \A j \in 1..8 : m + j - 1 \in 1..size
  BY <1>1, SMT
<1> QED BY <1>1, <1>2 DEF m

(* One turn of the loop.                                                   *)
LEMMA EncodeStep ==
  ASSUME NEW bits \in Seq(Bit), NEW column, ColumnIs(column), NEW value \in Int,
         NEW before, Pushed(bits, before)
  PROVE  Pushed(bits \o ColumnBits(column, value), EncodeColumn(column, value, before))
<1> DEFINE more == ColumnBits(column, value)
           all  == bits \o more
           len  == Len(bits)
           n    == Len(more)
           full == LowBits(all, 32)
           size == Kept(all, 32)
           w    == (len % 8) + n
           old  == [k \in 1..(len \div 8) |-> Byte(bits, k)]
           new  == [k \in 1..(w \div 8) |->
                      ToNumber(SubSeq(full, size - w + 8 * k - 7, size - w + 8 * k))]
           next == EncodeColumn(column, value, before)
<1>1. more \in Seq(Bit) /\ n \in 0..16 /\ n = NumBitsOfColumn(column)
  BY ColumnBitsIs
<1> HIDE DEF more
<1>2. /\ all \in Seq(Bit) /\ Len(all) = len + n /\ len \in Nat /\ n \in Nat
      /\ \A i \in 1..len : all[i] = bits[i]
  BY <1>1, Pushing, SMT
<1>3. full = LowBits(LowBits(bits, 32) \o more, 32)
  BY <1>1, LowBitsOfBoth
<1> HIDE DEF all
<1>4. /\ full \in Seq(Bit) /\ Len(full) = size /\ size \in Nat
      /\ \/ size = Len(all) /\ Len(all) <= 32
         \/ size = 32 /\ Len(all) > 32
      /\ \A j \in 1..size : full[j] = all[Len(all) - size + j]
  BY <1>2, LowBitsIs
<1> HIDE DEF full, size, len, n
<1>5. /\ len \div 8 \in Nat /\ w \div 8 \in Nat /\ w \in Nat /\ (len % 8) \in 0..7
      /\ (len + n) \div 8 = (len \div 8) + (w \div 8)
      /\ (len + n) % 8 = w % 8
      /\ 8 * (len \div 8) = len - (len % 8)
      /\ 8 * (w \div 8) <= w
      /\ w <= len + n /\ w <= 7 + n
  BY <1>2, EightsAdd
<1>6. next.bitBuffer = full /\ next.bitsInBuffer = w % 8 /\ next.out = old \o new
  BY <1>1, <1>3, <1>4 DEF EncodeColumn, Pushed, more, len, n, full
<1> HIDE DEF w
<1>7. ASSUME NEW k \in 1..(w \div 8)
      PROVE  new[k] = Byte(all, (len \div 8) + k)
  <2> DEFINE m == size - w + 8 * k - 7
             h == (len \div 8) + k
  <2>1. k \in Nat /\ k >= 1 /\ 8 * k <= w /\ h \in Nat
    <3>1. k \in Nat /\ k >= 1 /\ k <= w \div 8
      BY <1>5, SMT
    <3>2. 8 * k <= 8 * (w \div 8)
      BY <1>5, <3>1, SMT
    <3> QED BY <1>5, <3>1, <3>2, SMT
  <2>2. w <= size
    <3>1. w <= 23
      <4>1. n <= 16
        BY <1>1, SMT
      <4>2. \A x, y \in Nat : x <= 7 + y /\ y <= 16 => x <= 23
        BY SMT
      <4> QED BY <1>2, <1>5, <4>1, <4>2
    <3> QED BY <1>2, <1>4, <1>5, <3>1, SMT
  <2>3. /\ m \in Nat /\ 1 <= m /\ m + 7 <= size /\ m + 7 = size - w + 8 * k
        /\ \A j \in 1..8 : m + j - 1 \in 1..size
    BY <1>4, <1>5, <2>1, <2>2, Window
  <2>4. ASSUME NEW j \in 1..8
        PROVE  full[m + j - 1] = BitAt(all, 8 * (h - 1) + j)
    <3>1. m + j - 1 \in 1..size
      BY <2>3
    <3>2. Len(all) - size + (m + j - 1) = 8 * (h - 1) + j
      <4>1. 8 * h = len - (len % 8) + 8 * k
        BY <1>5, <2>1, SMT
      <4>2. w = (len % 8) + n
        BY DEF w
      <4> QED BY <1>2, <1>4, <1>5, <2>1, <4>1, <4>2, SMT
    <3>3. 8 * (h - 1) + j \in 1..Len(all)
      BY <1>2, <1>4, <3>1, <3>2, SMT
    <3> QED BY <1>4, <3>1, <3>2, <3>3 DEF BitAt
  <2>5. new[k] = ToNumber(SubSeq(full, m, size - w + 8 * k))
    OBVIOUS
  <2> HIDE DEF m, h, new
  <2>6. ToNumber(SubSeq(full, m, m + 7)) = Byte(all, h)
    BY <1>2, <1>4, <2>1, <2>3, <2>4, OctetOfSeq
  <2> QED BY <2>3, <2>5, <2>6 DEF h
<1>8. old \o new = [k \in 1..(Len(all) \div 8) |-> Byte(all, k)]
  <2> DEFINE c == len \div 8
             d == w \div 8
             whole == [k \in 1..(c + d) |-> Byte(all, k)]
             X == 0..255
  <2>1. c \in Nat /\ d \in Nat /\ Len(all) \div 8 = c + d /\ c + d \in Nat
    <3>1. c \in Nat /\ d \in Nat /\ Len(all) \div 8 = c + d
      BY <1>2, <1>5
    <3> HIDE DEF c, d
    <3> QED BY <3>1, SMT
  <2>2. \A k \in 1..c : old[k] = Byte(all, k) /\ old[k] \in X
    <3> SUFFICES ASSUME NEW k \in 1..c PROVE old[k] = Byte(all, k) /\ old[k] \in X
      OBVIOUS
    <3>1. k \in Nat /\ k >= 1 /\ 8 * k <= len
      <4>1. k \in Nat /\ k >= 1 /\ k <= c
        BY <2>1, SMT
      <4>2. 8 * c <= len
        BY <1>2, <1>5, SMT
      <4> HIDE DEF c
      <4> QED BY <1>2, <2>1, <4>1, <4>2, SMT
    <3>2. Byte(all, k) = Byte(bits, k)
      BY <1>1, <3>1, ByteOfPrefix DEF all, len
    <3>3. Byte(all, k) \in X
      BY <1>2, <3>1, ByteIs
    <3> QED BY <3>2, <3>3
  <2>3. \A k \in 1..d : new[k] = Byte(all, c + k) /\ new[k] \in X
    <3> SUFFICES ASSUME NEW k \in 1..d PROVE new[k] = Byte(all, c + k) /\ new[k] \in X
      OBVIOUS
    <3>1. new[k] = Byte(all, c + k)
      BY <1>7
    <3>2. c + k \in Nat
      BY <2>1, SMT
    <3>3. Byte(all, c + k) \in X
      BY <1>2, <3>2, ByteIs
    <3> QED BY <3>1, <3>3
  <2>4. old \in [1..c -> X] /\ new \in [1..d -> X]
    BY <2>2, <2>3
  <2>5. \A k \in 1..(c + d) : whole[k] \in X
    <3> SUFFICES ASSUME NEW k \in 1..(c + d) PROVE Byte(all, k) \in X
      OBVIOUS
    <3>1. k \in Nat
      BY <2>1, SMT
    <3> QED BY <1>2, <3>1, ByteIs
  <2>6. whole \in [1..(c + d) -> X]
    BY <2>5
  <2> HIDE DEF c, d, X, old, new, whole
  <2>7. /\ old \in Seq(X) /\ Len(old) = c /\ new \in Seq(X) /\ Len(new) = d
        /\ whole \in Seq(X) /\ Len(whole) = c + d
    BY <2>1, <2>4, <2>6, SeqOfFunction
  <2>8. /\ old \o new \in Seq(X) /\ Len(old \o new) = c + d
        /\ \A k \in 1..(c + d) : (old \o new)[k] = IF k <= c THEN old[k] ELSE new[k - c]
    BY <2>7, ConcatProperties
  <2>9. ASSUME NEW k \in 1..(c + d)
        PROVE  (old \o new)[k] = whole[k]
    <3>1. /\ k <= c => k \in 1..c
          /\ ~(k <= c) => k - c \in 1..d /\ c + (k - c) = k
      BY <2>1, SMT
    <3>2. whole[k] = Byte(all, k)
      BY DEF whole
    <3> QED BY <2>2, <2>3, <2>8, <3>1, <3>2
  <2>10. old \o new = whole
    BY <2>7, <2>8, <2>9, SeqEqual
  <2> QED BY <2>1, <2>10 DEF whole
<1>9. Len(all) % 8 = w % 8
  BY <1>2, <1>5
<1>10. next.bitBuffer = LowBits(all, 32) /\ next.bitsInBuffer = Len(all) % 8
       /\ next.out = [k \in 1..(Len(all) \div 8) |-> Byte(all, k)]
  BY <1>6, <1>8, <1>9 DEF full
<1> QED BY <1>10 DEF Pushed, all, more

-----------------------------------------------------------------------------
(***************************************************************************)
(* The bits of a record, column after column.                              *)
(***************************************************************************)
RecordIs(record) ==
  /\ Len(record) \in Nat /\ DOMAIN record = 1..Len(record)
  /\ \A i \in 1..Len(record) : ColumnIs(record[i])

DataIs(record, data) == \A i \in 1..Len(record) : data[i] \in Int

LayoutStep(record, data, g, i) ==
  IF i = 0 THEN <<>> ELSE g[i - 1] \o ColumnBits(record[i], data[i])

IsLayout(record, data, n, g) == g = [i \in 0..n |-> LayoutStep(record, data, g, i)]

Layout(record, data) == CHOOSE g : IsLayout(record, data, Len(record), g)

LEMMA LayoutExists ==
  ASSUME NEW record, NEW data, NEW n \in Nat
  PROVE  \E g : IsLayout(record, data, n, g)
<1> DEFINE S == {j \in Nat : \E g : IsLayout(record, data, j, g)}
<1>1. 0 \in S
  <2> DEFINE g == [i \in 0..0 |-> <<>>]
  <2>1. IsLayout(record, data, 0, g)
    BY SMT DEF IsLayout, LayoutStep
  <2> QED BY <2>1
<1>2. ASSUME NEW j \in S
      PROVE  j + 1 \in S
  <2>1. PICK g : IsLayout(record, data, j, g)
    OBVIOUS
  <2> DEFINE h == [i \in 0..(j + 1) |->
                     IF i = j + 1 THEN LayoutStep(record, data, g, i) ELSE g[i]]
  <2>2. ASSUME NEW i \in 0..(j + 1)
        PROVE  h[i] = LayoutStep(record, data, h, i)
    <3>1. i # j + 1 => i \in 0..j
      BY SMT
    <3>2. h[i] = LayoutStep(record, data, g, i)
      BY <2>1, <3>1 DEF IsLayout
    <3>3. i # 0 => h[i - 1] = g[i - 1]
      BY SMT
    <3> HIDE DEF h
    <3> QED BY <3>2, <3>3 DEF LayoutStep
  <2>3. h = [i \in 0..(j + 1) |-> h[i]]
    OBVIOUS
  <2> HIDE DEF h
  <2>4. h = [i \in 0..(j + 1) |-> LayoutStep(record, data, h, i)]
    BY <2>2, <2>3
  <2> QED BY <2>4 DEF IsLayout
<1>3. S = Nat
  BY <1>1, <1>2, SetInduction
<1> QED BY <1>3

LEMMA LayoutSteps ==
  ASSUME NEW record, RecordIs(record), NEW data
  PROVE  LET g == Layout(record, data) IN
         /\ g[0] = <<>>
         /\ \A i \in 1..Len(record) : g[i] = g[i - 1] \o ColumnBits(record[i], data[i])
<1> DEFINE n == Len(record)
           g == Layout(record, data)
<1>1. n \in Nat
  BY DEF RecordIs
<1>2. IsLayout(record, data, n, g)
  BY <1>1, LayoutExists DEF Layout
<1> HIDE DEF n, g
<1>3. g[0] = <<>> /\ \A i \in 1..n : g[i] = g[i - 1] \o ColumnBits(record[i], data[i])
  BY <1>1, <1>2, SMT DEF IsLayout, LayoutStep
<1> QED BY <1>3 DEF n, g

(* The bits of the first columns are a sequence of bits.                   *)
LEMMA LayoutIs ==
  ASSUME NEW record, RecordIs(record), NEW data, DataIs(record, data)
  PROVE  \A i \in Nat : i <= Len(record) => Layout(record, data)[i] \in Seq(Bit)
<1> DEFINE n == Len(record)
           g == Layout(record, data)
           S == {i \in Nat : i <= n => g[i] \in Seq(Bit)}
<1>1. n \in Nat /\ \A i \in 1..n : ColumnIs(record[i]) /\ data[i] \in Int
  BY DEF RecordIs, DataIs
<1>2. g[0] = <<>> /\ \A i \in 1..n : g[i] = g[i - 1] \o ColumnBits(record[i], data[i])
  BY LayoutSteps
<1> HIDE DEF n, g
<1>3. 0 \in S
  <2>1. <<>> \in Seq(Bit)
    OBVIOUS
  <2> QED BY <1>2, <2>1
<1>4. ASSUME NEW i \in S
      PROVE  i + 1 \in S
  <2> SUFFICES ASSUME i + 1 <= n PROVE g[i + 1] \in Seq(Bit)
    OBVIOUS
  <2>1. i + 1 \in 1..n /\ (i + 1) - 1 = i /\ i <= n
    BY <1>1, SMT
  <2>2. g[i] \in Seq(Bit)
    BY <2>1
  <2>3. ColumnBits(record[i + 1], data[i + 1]) \in Seq(Bit)
    BY <1>1, <2>1, ColumnBitsIs
  <2>4. g[i + 1] = g[i] \o ColumnBits(record[i + 1], data[i + 1])
    BY <1>2, <2>1
  <2> QED BY <2>2, <2>3, <2>4, Pushing
<1>5. S = Nat
  BY <1>3, <1>4, SetInduction
<1> QED BY <1>5 DEF n, g

(* The bits of a column follow those of the columns before it.             *)
Follows(a, bits, c) ==
  /\ Len(a) \in Nat /\ Len(bits) \in 0..16 /\ Len(c) \in Nat
  /\ Len(c) = Len(a) + Len(bits)
  /\ \A x \in 1..Len(a) : c[x] = a[x]
  /\ \A x \in 1..Len(bits) : c[Len(a) + x] = bits[x]

(* The bits of a column follow those of the columns before it.             *)
LEMMA LayoutPlaces ==
  ASSUME NEW record, RecordIs(record), NEW data, DataIs(record, data),
         NEW i \in 1..Len(record)
  PROVE  /\ Len(ColumnBits(record[i], data[i])) = NumBitsOfColumn(record[i])
         /\ Follows(Layout(record, data)[i - 1], ColumnBits(record[i], data[i]),
                    Layout(record, data)[i])
<1> DEFINE n == Len(record)
           g == Layout(record, data)
           bits == ColumnBits(record[i], data[i])
<1>1. n \in Nat /\ ColumnIs(record[i]) /\ data[i] \in Int
  BY DEF RecordIs, DataIs
<1>2. g[i] = g[i - 1] \o bits
  BY LayoutSteps
<1>3. i - 1 \in Nat /\ i - 1 <= n
  BY <1>1, SMT
<1>4. g[i - 1] \in Seq(Bit)
  BY <1>3, LayoutIs
<1>5. bits \in Seq(Bit) /\ Len(bits) = NumBitsOfColumn(record[i]) /\ Len(bits) \in 0..16
  BY <1>1, ColumnBitsIs
<1> DEFINE a == g[i - 1]
           c == g[i]
<1>6. c = a \o bits /\ a \in Seq(Bit) /\ bits \in Seq(Bit)
  BY <1>2, <1>4, <1>5
<1> HIDE DEF a, c, bits
<1>7. /\ Len(c) = Len(a) + Len(bits) /\ Len(a) \in Nat /\ Len(bits) \in Nat
      /\ \A x \in 1..(Len(a) + Len(bits)) : c[x] = IF x <= Len(a) THEN a[x] ELSE bits[x - Len(a)]
  BY <1>6, Pushing
<1>8. Len(c) \in Nat
  BY <1>7, SMT
<1>9. \A x \in 1..Len(a) : c[x] = a[x]
  <2>1. \A x \in 1..Len(a) : x \in 1..(Len(a) + Len(bits)) /\ x <= Len(a)
    BY <1>7, SMT
  <2> QED BY <1>7, <2>1
<1>10. \A x \in 1..Len(bits) : c[Len(a) + x] = bits[x]
  <2>1. \A x \in 1..Len(bits) : /\ Len(a) + x \in 1..(Len(a) + Len(bits))
                                /\ ~(Len(a) + x <= Len(a)) /\ (Len(a) + x) - Len(a) = x
    BY <1>7, SMT
  <2> QED BY <1>7, <2>1
<1> QED BY <1>5, <1>7, <1>8, <1>9, <1>10 DEF a, c, bits, Follows

(* They stay there.                                                        *)
LEMMA LayoutGrows ==
  ASSUME NEW record, RecordIs(record), NEW data, DataIs(record, data),
         NEW i \in 0..Len(record)
  PROVE  LET g == Layout(record, data)
             n == Len(record)
         IN /\ Len(g[i]) \in Nat /\ Len(g[n]) \in Nat /\ Len(g[i]) <= Len(g[n])
            /\ \A x \in 1..Len(g[i]) : g[n][x] = g[i][x]
<1> DEFINE n == Len(record)
           g == Layout(record, data)
           Prefix(a, b) == /\ Len(a) \in Nat /\ Len(b) \in Nat /\ Len(a) <= Len(b)
                           /\ \A x \in 1..Len(a) : b[x] = a[x]
           S == {d \in Nat : i + d <= n => Prefix(g[i], g[i + d])}
<1>1. n \in Nat /\ i \in Nat /\ i <= n
  <2>1. n \in Nat
    BY DEF RecordIs
  <2> QED BY <2>1, SMT
<1>2. Prefix(g[i], g[i])
  <2>1. g[i] \in Seq(Bit)
    BY <1>1, LayoutIs
  <2>2. Len(g[i]) \in Nat
    BY <2>1
  <2> HIDE DEF g
  <2>3. Len(g[i]) <= Len(g[i])
    BY <2>2, SMT
  <2> QED BY <2>2, <2>3
<1>3. \A k \in 1..n : Prefix(g[k - 1], g[k])
  <2> SUFFICES ASSUME NEW k \in 1..n PROVE Prefix(g[k - 1], g[k])
    OBVIOUS
  <2> DEFINE a == g[k - 1]
             b == g[k]
             bits == ColumnBits(record[k], data[k])
  <2>1. Follows(a, bits, b)
    BY LayoutPlaces
  <2> HIDE DEF a, b, bits
  <2>2. Len(a) <= Len(b)
    BY <2>1, SMT DEF Follows
  <2>3. Prefix(a, b)
    BY <2>1, <2>2 DEF Follows
  <2> QED BY <2>3 DEF a, b
<1>4. \A a, b, c : Prefix(a, b) /\ Prefix(b, c) => Prefix(a, c)
  <2> SUFFICES ASSUME NEW a, NEW b, NEW c, Prefix(a, b), Prefix(b, c) PROVE Prefix(a, c)
    OBVIOUS
  <2>1. Len(a) \in Nat /\ Len(b) \in Nat /\ Len(c) \in Nat /\ Len(a) <= Len(b) /\ Len(b) <= Len(c)
    OBVIOUS
  <2>2. Len(a) <= Len(c) /\ \A x \in 1..Len(a) : x \in 1..Len(b)
    BY <2>1, SMT
  <2> QED BY <2>1, <2>2
<1> HIDE DEF n, g, Prefix
<1>5. 0 \in S
  BY <1>1, <1>2, SMT
<1>6. ASSUME NEW d \in S
      PROVE  d + 1 \in S
  <2> SUFFICES ASSUME i + (d + 1) <= n PROVE Prefix(g[i], g[i + (d + 1)])
    OBVIOUS
  <2>1. i + (d + 1) \in 1..n /\ (i + (d + 1)) - 1 = i + d /\ i + d <= n
    BY <1>1, SMT
  <2>2. Prefix(g[i], g[i + d])
    BY <2>1
  <2>3. Prefix(g[i + d], g[i + (d + 1)])
    BY <1>3, <2>1
  <2> QED BY <1>4, <2>2, <2>3
<1>7. S = Nat
  BY <1>5, <1>6, SetInduction
<1>8. n - i \in Nat /\ i + (n - i) = n /\ n <= n
  BY <1>1, SMT
<1>9. Prefix(g[i], g[n])
  BY <1>7, <1>8
<1> QED BY <1>9 DEF Prefix, g, n

-----------------------------------------------------------------------------
(***************************************************************************)
(* rc_getRecordSize() and the packed record are those of the layout.       *)
(***************************************************************************)
SizeStep(record, g, i) == IF i = 0 THEN 0 ELSE g[i - 1] + NumBitsOfColumn(record[i])

IsSizes(record, n, g) == g = [i \in 0..n |-> SizeStep(record, g, i)]

LEMMA SizesExist ==
  ASSUME NEW record, NEW n \in Nat
  PROVE  \E g : IsSizes(record, n, g)
<1> DEFINE S == {j \in Nat : \E g : IsSizes(record, j, g)}
<1>1. 0 \in S
  <2> DEFINE g == [i \in 0..0 |-> 0]
  <2>1. IsSizes(record, 0, g)
    BY SMT DEF IsSizes, SizeStep
  <2> QED BY <2>1
<1>2. ASSUME NEW j \in S
      PROVE  j + 1 \in S
  <2>1. PICK g : IsSizes(record, j, g)
    OBVIOUS
  <2> DEFINE h == [i \in 0..(j + 1) |-> IF i = j + 1 THEN SizeStep(record, g, i) ELSE g[i]]
  <2>2. ASSUME NEW i \in 0..(j + 1)
        PROVE  h[i] = SizeStep(record, h, i)
    <3>1. i # j + 1 => i \in 0..j
      BY SMT
    <3>2. h[i] = SizeStep(record, g, i)
      BY <2>1, <3>1 DEF IsSizes
    <3>3. i # 0 => h[i - 1] = g[i - 1]
      BY SMT
    <3> HIDE DEF h
    <3> QED BY <3>2, <3>3 DEF SizeStep
  <2>3. h = [i \in 0..(j + 1) |-> h[i]]
    OBVIOUS
  <2> HIDE DEF h
  <2>4. h = [i \in 0..(j + 1) |-> SizeStep(record, h, i)]
    BY <2>2, <2>3
  <2> QED BY <2>4 DEF IsSizes
<1>3. S = Nat
  BY <1>1, <1>2, SetInduction
<1> QED BY <1>3

(* rc_getRecordSize() is the number of bytes for the bits of all columns.  *)
LEMMA RecordSizeIs ==
  ASSUME NEW record, RecordIs(record), NEW data, DataIs(record, data)
  PROVE  RecordSize(record) = GetNumBytes(Len(Layout(record, data)[Len(record)]))
<1> DEFINE n == Len(record)
           g == CHOOSE h : IsSizes(record, n, h)
           P == Layout(record, data)
           S == {i \in Nat : i <= n => g[i] = Len(P[i])}
<1>1. n \in Nat
  BY DEF RecordIs
<1>2. IsSizes(record, n, g)
  BY <1>1, SizesExist
<1>3. RecordSize(record) = GetNumBytes(g[n])
  BY DEF RecordSize, IsSizes, SizeStep
<1>4. P[0] = <<>>
  BY LayoutSteps
<1>5. \A i \in 1..n : Len(P[i]) = Len(P[i - 1]) + NumBitsOfColumn(record[i])
  <2> SUFFICES ASSUME NEW i \in 1..n
               PROVE  Len(P[i]) = Len(P[i - 1]) + NumBitsOfColumn(record[i])
    OBVIOUS
  <2>1. /\ Len(ColumnBits(record[i], data[i])) = NumBitsOfColumn(record[i])
        /\ Follows(P[i - 1], ColumnBits(record[i], data[i]), P[i])
    BY LayoutPlaces
  <2> HIDE DEF P
  <2> QED BY <2>1 DEF Follows
<1> HIDE DEF n, g, P
<1>6. g[0] = 0 /\ \A i \in 1..n : g[i] = g[i - 1] + NumBitsOfColumn(record[i])
  BY <1>1, <1>2, SMT DEF IsSizes, SizeStep
<1>7. 0 \in S
  BY <1>4, <1>6
<1>8. ASSUME NEW i \in S
      PROVE  i + 1 \in S
  <2> SUFFICES ASSUME i + 1 <= n PROVE g[i + 1] = Len(P[i + 1])
    OBVIOUS
  <2>1. i + 1 \in 1..n /\ (i + 1) - 1 = i /\ i <= n
    BY <1>1, SMT
  <2> QED BY <1>5, <1>6, <2>1
<1>9. S = Nat
  BY <1>7, <1>8, SetInduction
<1>10. n \in S /\ n <= n
  BY <1>1, <1>9, SMT
<1> QED BY <1>3, <1>10 DEF P, n

(* FlattenSeq()                                                            *)
FlatStep(seqs, g, i) == IF i = 1 THEN seqs[i] ELSE g[i - 1] \o seqs[i]

IsFlat(seqs, n, g) == g = [i \in 1..n |-> FlatStep(seqs, g, i)]

LEMMA FlatExists ==
  ASSUME NEW seqs, NEW n \in Nat
  PROVE  \E g : IsFlat(seqs, n, g)
<1> DEFINE S == {j \in Nat : \E g : IsFlat(seqs, j, g)}
<1>1. 0 \in S
  <2> DEFINE g == [i \in 1..0 |-> 0]
  <2>1. IsFlat(seqs, 0, g)
    BY SMT DEF IsFlat
  <2> QED BY <2>1
<1>2. ASSUME NEW j \in S
      PROVE  j + 1 \in S
  <2>1. PICK g : IsFlat(seqs, j, g)
    OBVIOUS
  <2> DEFINE h == [i \in 1..(j + 1) |-> IF i = j + 1 THEN FlatStep(seqs, g, i) ELSE g[i]]
  <2>2. ASSUME NEW i \in 1..(j + 1)
        PROVE  h[i] = FlatStep(seqs, h, i)
    <3>1. i # j + 1 => i \in 1..j
      BY SMT
    <3>2. h[i] = FlatStep(seqs, g, i)
      BY <2>1, <3>1 DEF IsFlat
    <3>3. i # 1 => h[i - 1] = g[i - 1]
      BY SMT
    <3> HIDE DEF h
    <3> QED BY <3>2, <3>3 DEF FlatStep
  <2>3. h = [i \in 1..(j + 1) |-> h[i]]
    OBVIOUS
  <2> HIDE DEF h
  <2>4. h = [i \in 1..(j + 1) |-> FlatStep(seqs, h, i)]
    BY <2>2, <2>3
  <2> QED BY <2>4 DEF IsFlat
<1>3. S = Nat
  BY <1>1, <1>2, SetInduction
<1> QED BY <1>3

(* FlattenSeq() of the columns' bits is that row of bits.                  *)
LEMMA FlattenIs ==
  ASSUME NEW seqs, Len(seqs) \in Nat, Len(seqs) # 0
  PROVE  \E g : /\ g[1] = seqs[1] /\ \A i \in 2..Len(seqs) : g[i] = g[i - 1] \o seqs[i]
                /\ FlattenSeq(seqs) = g[Len(seqs)]
<1> DEFINE n == Len(seqs)
           g == CHOOSE h : IsFlat(seqs, n, h)
<1>1. IsFlat(seqs, n, g)
  BY FlatExists
<1>2. FlattenSeq(seqs) = g[n]
  BY DEF FlattenSeq, IsFlat, FlatStep
<1>3. n \in Nat /\ n # 0
  OBVIOUS
<1> HIDE DEF g, n
<1>4. g[1] = seqs[1] /\ \A i \in 2..n : g[i] = g[i - 1] \o seqs[i]
  <2>1. \A i \in 1..n : g[i] = FlatStep(seqs, g, i)
    BY <1>1 DEF IsFlat
  <2>2. 1 \in 1..n /\ \A i \in 2..n : i \in 1..n /\ i # 1
    BY <1>3, SMT
  <2> QED BY <2>1, <2>2 DEF FlatStep
<1> QED BY <1>2, <1>4 DEF n

LEMMA LayoutFlat ==
  ASSUME NEW record, RecordIs(record), Len(record) >= 1, NEW data, DataIs(record, data)
  PROVE  FlattenSeq([i \in DOMAIN record |-> ColumnBits(record[i], data[i])])
           = Layout(record, data)[Len(record)]
<1> DEFINE n == Len(record)
           seqs == [i \in DOMAIN record |-> ColumnBits(record[i], data[i])]
           P == Layout(record, data)
<1>1. n \in Nat /\ n >= 1 /\ DOMAIN record = 1..n
  BY DEF RecordIs
<1>2. \A i \in 1..n : seqs[i] = ColumnBits(record[i], data[i])
  BY <1>1
<1>3. Len(seqs) = n
  <2> DEFINE X == {ColumnBits(record[i], data[i]) : i \in 1..n}
  <2>1. seqs \in [1..n -> X]
    BY <1>1
  <2> HIDE DEF seqs, X, n
  <2> QED BY <1>1, <2>1, SeqOfFunction
<1>4. P[0] = <<>> /\ \A i \in 1..n : P[i] = P[i - 1] \o seqs[i]
  <2>1. P[0] = <<>> /\ \A i \in 1..n : P[i] = P[i - 1] \o ColumnBits(record[i], data[i])
    BY LayoutSteps
  <2> HIDE DEF seqs, P
  <2> QED BY <1>2, <2>1
<1>5. \A i \in 1..n : seqs[i] \in Seq(Bit)
  <2> SUFFICES ASSUME NEW i \in 1..n PROVE ColumnBits(record[i], data[i]) \in Seq(Bit)
    BY <1>2
  <2>1. ColumnIs(record[i]) /\ data[i] \in Int
    BY DEF RecordIs, DataIs
  <2> QED BY <2>1, ColumnBitsIs
<1> HIDE DEF n, seqs, P
<1>6. PICK g : /\ g[1] = seqs[1] /\ \A i \in 2..n : g[i] = g[i - 1] \o seqs[i]
               /\ FlattenSeq(seqs) = g[n]
  <2>1. Len(seqs) \in Nat /\ Len(seqs) # 0
    BY <1>1, <1>3, SMT
  <2> QED BY <1>3, <2>1, FlattenIs
<1> DEFINE S == {i \in Nat : i + 1 <= n => g[i + 1] = P[i + 1]}
<1>7. 0 \in S
  <2>1. 1 \in 1..n /\ 1 - 1 = 0 /\ 0 + 1 = 1
    BY <1>1, SMT
  <2>2. P[1] = <<>> \o seqs[1]
    BY <1>4, <2>1
  <2>3. <<>> \o seqs[1] = seqs[1]
    BY <1>5, <2>1, ConcatEmptySeq
  <2> QED BY <1>6, <2>1, <2>2, <2>3
<1>8. ASSUME NEW i \in S
      PROVE  i + 1 \in S
  <2> SUFFICES ASSUME (i + 1) + 1 <= n PROVE g[(i + 1) + 1] = P[(i + 1) + 1]
    OBVIOUS
  <2>1. /\ (i + 1) + 1 \in 2..n /\ (i + 1) + 1 \in 1..n /\ ((i + 1) + 1) - 1 = i + 1
        /\ i + 1 <= n
    BY <1>1, SMT
  <2> QED BY <1>4, <1>6, <2>1
<1>9. S = Nat
  BY <1>7, <1>8, SetInduction
<1>10. n - 1 \in Nat /\ (n - 1) + 1 = n /\ n <= n
  BY <1>1, SMT
<1>11. n - 1 \in S
  BY <1>9, <1>10
<1>12. g[n] = P[n]
  BY <1>10, <1>11
<1> QED BY <1>6, <1>12 DEF seqs, P, n

-----------------------------------------------------------------------------
(***************************************************************************)
(* rc_encodeRecord() writes the packed record.                             *)
(***************************************************************************)
EncodeTurn(record, data, g, i) ==
  IF i = 0 THEN NoBits ELSE EncodeColumn(record[i], data[i], g[i - 1])

IsEncoding(record, data, n, g) == g = [i \in 0..n |-> EncodeTurn(record, data, g, i)]

LEMMA EncodingExists ==
  ASSUME NEW record, NEW data, NEW n \in Nat
  PROVE  \E g : IsEncoding(record, data, n, g)
<1> DEFINE S == {j \in Nat : \E g : IsEncoding(record, data, j, g)}
<1>1. 0 \in S
  <2> DEFINE g == [i \in 0..0 |-> NoBits]
  <2>1. IsEncoding(record, data, 0, g)
    BY SMT DEF IsEncoding, EncodeTurn
  <2> QED BY <2>1
<1>2. ASSUME NEW j \in S
      PROVE  j + 1 \in S
  <2>1. PICK g : IsEncoding(record, data, j, g)
    OBVIOUS
  <2> DEFINE h == [i \in 0..(j + 1) |-> IF i = j + 1 THEN EncodeTurn(record, data, g, i) ELSE g[i]]
  <2>2. ASSUME NEW i \in 0..(j + 1)
        PROVE  h[i] = EncodeTurn(record, data, h, i)
    <3>1. i # j + 1 => i \in 0..j
      BY SMT
    <3>2. h[i] = EncodeTurn(record, data, g, i)
      BY <2>1, <3>1 DEF IsEncoding
    <3>3. i # 0 => h[i - 1] = g[i - 1]
      BY SMT
    <3> HIDE DEF h
    <3> QED BY <3>2, <3>3 DEF EncodeTurn
  <2>3. h = [i \in 0..(j + 1) |-> h[i]]
    OBVIOUS
  <2> HIDE DEF h
  <2>4. h = [i \in 0..(j + 1) |-> EncodeTurn(record, data, h, i)]
    BY <2>2, <2>3
  <2> QED BY <2>4 DEF IsEncoding
<1>3. S = Nat
  BY <1>1, <1>2, SetInduction
<1> QED BY <1>3

(* What rc_encodeRecord() has in hand after the last column.               *)
LastTurn(record, data) ==
  (CHOOSE g : IsEncoding(record, data, Len(record), g))[Len(record)]

(* The loop of rc_encodeRecord() has pushed all columns into the bit       *)
(* buffer.                                                                 *)
LEMMA LastTurnPushed ==
  ASSUME NEW record, RecordIs(record), NEW data, DataIs(record, data)
  PROVE  Pushed(Layout(record, data)[Len(record)], LastTurn(record, data))
<1> DEFINE n == Len(record)
           g == CHOOSE h : IsEncoding(record, data, n, h)
           P == Layout(record, data)
           S == {i \in Nat : i <= n => Pushed(P[i], g[i])}
<1>1. n \in Nat /\ \A i \in 1..n : ColumnIs(record[i]) /\ data[i] \in Int
  BY DEF RecordIs, DataIs
<1>2. IsEncoding(record, data, n, g)
  BY <1>1, EncodingExists
<1>3. P[0] = <<>> /\ \A i \in 1..n : P[i] = P[i - 1] \o ColumnBits(record[i], data[i])
  BY LayoutSteps
<1>4. \A i \in Nat : i <= n => P[i] \in Seq(Bit)
  BY LayoutIs
<1>5. LastTurn(record, data) = g[n]
  BY DEF LastTurn
<1> HIDE DEF n, g, P
<1>6. g[0] = NoBits /\ \A i \in 1..n : g[i] = EncodeColumn(record[i], data[i], g[i - 1])
  <2>1. \A i \in 0..n : g[i] = EncodeTurn(record, data, g, i)
    BY <1>2 DEF IsEncoding
  <2>2. 0 \in 0..n /\ \A i \in 1..n : i \in 0..n /\ i # 0
    BY <1>1, SMT
  <2> QED BY <2>1, <2>2 DEF EncodeTurn
<1>7. Pushed(<<>>, NoBits)
  <2>1. <<>> \in Seq(Bit) /\ Len(<<>>) = 0
    OBVIOUS
  <2>2. Kept(<<>>, 32) = 0
    BY <2>1, SMT DEF Kept
  <2>3. LowBits(<<>>, 32) \in Seq(Bit) /\ Len(LowBits(<<>>, 32)) = 0
    BY <2>1, <2>2, LowBitsIs
  <2>4. LowBits(<<>>, 32) = <<>>
    BY <2>3
  <2>5. 0 % 8 = 0 /\ 0 \div 8 = 0 /\ 1..0 = {}
    BY SMT
  <2>6. <<>> = [k \in 1..0 |-> Byte(<<>>, k)]
    <3> DEFINE e == [k \in 1..0 |-> Byte(<<>>, k)]
    <3>1. e \in [1..0 -> {}]
      BY <2>5
    <3> HIDE DEF e
    <3>2. e \in Seq({}) /\ Len(e) = 0
      BY <3>1, SeqOfFunction
    <3>3. e = <<>>
      BY <3>2
    <3> QED BY <3>3 DEF e
  <2> QED BY <2>1, <2>4, <2>5, <2>6 DEF Pushed, NoBits
<1>8. 0 \in S
  BY <1>3, <1>6, <1>7
<1>9. ASSUME NEW i \in S
      PROVE  i + 1 \in S
  <2> SUFFICES ASSUME i + 1 <= n PROVE Pushed(P[i + 1], g[i + 1])
    OBVIOUS
  <2>1. i + 1 \in 1..n /\ (i + 1) - 1 = i /\ i <= n
    BY <1>1, SMT
  <2>2. Pushed(P[i], g[i]) /\ P[i] \in Seq(Bit)
    BY <1>4, <2>1
  <2>3. Pushed(P[i] \o ColumnBits(record[i + 1], data[i + 1]),
               EncodeColumn(record[i + 1], data[i + 1], g[i]))
    BY <1>1, <2>1, <2>2, EncodeStep
  <2> QED BY <1>3, <1>6, <2>1, <2>3
<1>10. S = Nat
  BY <1>8, <1>9, SetInduction
<1>11. n \in S /\ n <= n
  BY <1>1, <1>10, SMT
<1> QED BY <1>5, <1>11 DEF P, n

(* The bytes of a row of bits.                                             *)
BytesOf(bits) == [k \in 1..GetNumBytes(Len(bits)) |-> Byte(bits, k)]

LEMMA Eights ==
  ASSUME NEW len \in Nat
  PROVE  /\ GetNumBytes(len) \in Nat /\ (len % 8) \in 0..7 /\ len \div 8 \in Nat
         /\ 8 * (len \div 8) = len - (len % 8)
         /\ len % 8 = 0 => GetNumBytes(len) = len \div 8
         /\ len % 8 # 0 => (len % 8) \in 1..7 /\ GetNumBytes(len) = (len \div 8) + 1
BY SMT DEF GetNumBytes

(* What follows the loop: the bits that fill no byte, padded.              *)
LEMMA PushedAll ==
  ASSUME NEW bits \in Seq(Bit), NEW last, Pushed(bits, last)
  PROVE  (IF last.bitsInBuffer = 0 THEN last.out
          ELSE Append(last.out, ToNumber(LowBits(last.bitBuffer, last.bitsInBuffer))
                                  * 2 ^ (8 - last.bitsInBuffer))) = BytesOf(bits)
<1> DEFINE len == Len(bits)
           r   == len % 8
           c   == len \div 8
           out == [k \in 1..c |-> Byte(bits, k)]
<1>1. len \in Nat
  OBVIOUS
<1> HIDE DEF len
<1>2. /\ GetNumBytes(len) \in Nat /\ r \in 0..7 /\ c \in Nat
      /\ 8 * c = len - r
      /\ r = 0 => GetNumBytes(len) = c
      /\ r # 0 => r \in 1..7 /\ GetNumBytes(len) = c + 1
  BY <1>1, Eights
<1>3. last.bitBuffer = LowBits(bits, 32) /\ last.bitsInBuffer = r /\ last.out = out
  BY DEF Pushed, len
<1> HIDE DEF r, c
<1>4. CASE r = 0
  BY <1>2, <1>3, <1>4 DEF BytesOf, len
<1>5. CASE r # 0
  <2> DEFINE buf  == LowBits(bits, 32)
             rest == LowBits(buf, r)
             size == Kept(bits, 32)
             X    == 0..255
             whole == [k \in 1..(c + 1) |-> Byte(bits, k)]
  <2>1. r \in 1..7 /\ r \in Nat /\ r <= len
    BY <1>1, <1>2, <1>5, SMT
  <2>2. /\ buf \in Seq(Bit) /\ size \in Nat /\ Len(buf) = size
        /\ \/ size = len /\ len <= 32
           \/ size = 32 /\ len > 32
        /\ \A j \in 1..size : buf[j] = bits[len - size + j]
    BY LowBitsIs DEF len
  <2> HIDE DEF buf, size
  <2>3. r <= size
    BY <1>1, <2>1, <2>2, SMT
  <2>4. Kept(buf, r) = r
    BY <2>1, <2>2, <2>3, SMT DEF Kept
  <2>5. /\ rest \in Seq(Bit) /\ Len(rest) = r
        /\ \A j \in 1..r : rest[j] = buf[size - r + j]
    <3>1. /\ LowBits(buf, r) \in Seq(Bit) /\ Len(LowBits(buf, r)) = Kept(buf, r)
          /\ \A j \in 1..Kept(buf, r) : LowBits(buf, r)[j] = buf[Len(buf) - Kept(buf, r) + j]
      BY <2>1, <2>2, LowBitsIs
    <3> QED BY <2>2, <2>4, <3>1
  <2> HIDE DEF rest
  <2>6. ASSUME NEW j \in 1..8
        PROVE  Octet(bits, c + 1)[j] = IF j <= r THEN rest[j] ELSE 0
    <3>1. Octet(bits, c + 1)[j] = BitAt(bits, 8 * ((c + 1) - 1) + j)
      BY DEF Octet
    <3>2. 8 * ((c + 1) - 1) + j = len - r + j
      BY <1>1, <1>2, <2>1, SMT
    <3>3. CASE j <= r
      <4>1. j \in 1..r /\ size - r + j \in 1..size /\ len - r + j \in 1..len
            /\ len - size + (size - r + j) = len - r + j
        BY <1>1, <2>1, <2>2, <2>3, <3>3, SMT
      <4>2. rest[j] = bits[len - r + j]
        BY <2>2, <2>5, <4>1
      <4> QED BY <3>1, <3>2, <3>3, <4>1, <4>2 DEF BitAt, len
    <3>4. CASE ~(j <= r)
      <4>1. ~(len - r + j \in 1..len)
        BY <1>1, <2>1, <3>4, SMT
      <4> QED BY <3>1, <3>2, <3>4, <4>1 DEF BitAt, len
    <3> QED BY <3>3, <3>4
  <2>7. c + 1 \in Nat /\ Octet(bits, c + 1) \in [1..8 -> Bit]
    <3>1. c + 1 \in Nat
      BY <1>2, SMT
    <3> QED BY <3>1, ByteIs
  <2>8. ToNumber(rest) * 2 ^ (8 - r) = Byte(bits, c + 1)
    BY <2>1, <2>5, <2>6, <2>7, PaddedIs DEF Byte
  <2>9. \A k \in 1..(c + 1) : Byte(bits, k) \in X
    <3> SUFFICES ASSUME NEW k \in 1..(c + 1) PROVE Byte(bits, k) \in X
      OBVIOUS
    <3>1. k \in Nat
      BY <1>2, SMT
    <3> QED BY <3>1, ByteIs
  <2>10. \A k \in 1..c : k \in 1..(c + 1)
    BY <1>2, SMT
  <2>11. out \in [1..c -> X] /\ whole \in [1..(c + 1) -> X]
    BY <2>9, <2>10
  <2>12. \A k \in 1..c : out[k] = whole[k]
    BY <2>10
  <2>13. c + 1 \in 1..(c + 1)
    BY <1>2, SMT
  <2>14. whole[c + 1] = Byte(bits, c + 1) /\ Byte(bits, c + 1) \in X
    BY <2>9, <2>13
  <2> HIDE DEF out, whole, X
  <2>15. /\ out \in Seq(X) /\ Len(out) = c /\ whole \in Seq(X) /\ Len(whole) = c + 1
    BY <1>2, <2>7, <2>11, SeqOfFunction
  <2> DEFINE b == Byte(bits, c + 1)
  <2>16. /\ Append(out, b) \in Seq(X) /\ Len(Append(out, b)) = c + 1
         /\ \A k \in 1..c : Append(out, b)[k] = out[k]
         /\ Append(out, b)[c + 1] = b
    <3> HIDE DEF b
    <3>1. b \in X
      BY <2>14 DEF b
    <3>2. /\ Append(out, b) \in Seq(X) /\ Len(Append(out, b)) = Len(out) + 1
          /\ \A k \in 1..Len(out) : Append(out, b)[k] = out[k]
          /\ Append(out, b)[Len(out) + 1] = b
      BY <2>15, <3>1, AppendProperties
    <3> QED BY <2>15, <3>2
  <2>17. \A k \in 1..(c + 1) : Append(out, b)[k] = whole[k]
    <3>1. \A k \in 1..(c + 1) : k \in 1..c \/ k = c + 1
      BY <1>2, SMT
    <3> QED BY <2>12, <2>14, <2>16, <3>1
  <2>18. Append(out, b) = whole
    BY <2>15, <2>16, <2>17, SeqEqual
  <2>19. whole = BytesOf(bits)
    BY <1>2, <1>5 DEF whole, BytesOf, len
  <2> QED BY <1>3, <1>5, <2>8, <2>18, <2>19 DEF rest, buf
<1> QED BY <1>4, <1>5

(* Encoding gives the bytes of the row of bits: with the last byte filled  *)
(* with zeros it is what the definition of a packed record says.           *)
LEMMA EncodedIs ==
  ASSUME NEW table, NEW data, NEW record, record = table[TypeOf(table, data)],
         RecordIs(record), Len(record) >= 1, DataIs(record, data)
  PROVE  /\ Encoded(table, data) = BytesOf(Layout(record, data)[Len(record)])
         /\ Packed(table, data) = Encoded(table, data)
         /\ GetNumBytes(Len(Layout(record, data)[Len(record)])) = RecordSize(record)
<1> DEFINE n    == Len(record)
           bits == Layout(record, data)[n]
           last == LastTurn(record, data)
<1>1. Encoded(table, data) =
        IF last.bitsInBuffer = 0 THEN last.out
        ELSE Append(last.out, ToNumber(LowBits(last.bitBuffer, last.bitsInBuffer))
                                * 2 ^ (8 - last.bitsInBuffer))
  BY DEF Encoded, LastTurn, IsEncoding, EncodeTurn
<1>2. Pushed(bits, last)
  BY LastTurnPushed
<1>3. bits \in Seq(Bit) /\ DOMAIN bits = 1..Len(bits)
  <2>1. n \in Nat /\ n <= n
    <3>1. n \in Nat
      BY DEF RecordIs
    <3> QED BY <3>1, SMT
  <2>2. bits \in Seq(Bit)
    BY <2>1, LayoutIs
  <2> QED BY <2>2, LenProperties
<1>4. GetNumBytes(Len(bits)) = RecordSize(record)
  BY RecordSizeIs
<1>5. FlattenSeq([i \in DOMAIN record |-> ColumnBits(record[i], data[i])]) = bits
  BY LayoutFlat
<1>6. Packed(table, data) =
        [k \in 1..RecordSize(record) |->
           ToNumber([j \in 1..8 |-> IF 8 * (k - 1) + j \in DOMAIN bits
                                    THEN bits[8 * (k - 1) + j] ELSE 0])]
  BY <1>5 DEF Packed
<1> HIDE DEF bits, last
<1>7. Packed(table, data) = BytesOf(bits)
  BY <1>3, <1>4, <1>6 DEF BytesOf, Byte, Octet, BitAt
<1>8. Encoded(table, data) = BytesOf(bits)
  BY <1>1, <1>2, <1>3, PushedAll
<1> QED BY <1>4, <1>7, <1>8 DEF bits

-----------------------------------------------------------------------------
(***************************************************************************)
(* rc_decodeRecord(): the bits pulled so far, up to a bit of the record.   *)
(***************************************************************************)
Octets(bits, c, more) == [k \in 1..more |-> Octet(bits, c + k)]

(* The bytes that are pulled are the next bits of the row, with zeros      *)
(* behind its end.                                                         *)
LEMMA FlatBytes ==
  ASSUME NEW bits \in Seq(Bit), NEW c \in Nat, NEW more \in 0..2
  PROVE  LET flat == FlattenSeq(Octets(bits, c, more)) IN
         /\ flat \in Seq(Bit) /\ Len(flat) = 8 * more
         /\ \A x \in 1..(8 * more) : flat[x] = BitAt(bits, 8 * c + x)
<1> DEFINE seqs == Octets(bits, c, more)
<1>0. seqs = [k \in 1..more |-> Octet(bits, c + k)]
  BY DEF Octets
<1> HIDE DEF seqs
<1>1. ASSUME NEW k \in Nat
      PROVE  /\ Octet(bits, k) \in Seq(Bit) /\ Len(Octet(bits, k)) = 8
             /\ \A j \in 1..8 : Octet(bits, k)[j] = BitAt(bits, 8 * (k - 1) + j)
  <2>1. Octet(bits, k) \in Seq(Bit) /\ Len(Octet(bits, k)) = 8
    BY ByteIs, OctetIs
  <2> QED BY <2>1 DEF Octet
<1>2. Len(seqs) = more
  <2> DEFINE X == {Octet(bits, c + k) : k \in 1..more}
  <2>1. seqs \in [1..more -> X] /\ more \in Nat
    BY <1>0
  <2> HIDE DEF X
  <2> QED BY <2>1, SeqOfFunction
<1>3. CASE more = 0
  <2>1. FlattenSeq(seqs) = seqs
    BY <1>2, <1>3 DEF FlattenSeq
  <2>2. 1..0 = {} /\ 8 * 0 = 0
    BY SMT
  <2>3. seqs \in [1..0 -> Bit]
    BY <1>0, <1>3, <2>2
  <2>4. seqs \in Seq(Bit) /\ Len(seqs) = 0
    BY <2>3, SeqOfFunction
  <2> QED BY <1>3, <2>1, <2>2, <2>4 DEF seqs
<1>4. CASE more = 1
  <2>1. Len(seqs) \in Nat /\ Len(seqs) # 0 /\ 1 \in 1..more
    BY <1>2, <1>4, SMT
  <2>2. FlattenSeq(seqs) = seqs[1]
    BY <1>2, <1>4, <2>1, FlattenIs
  <2>3. c + 1 \in Nat /\ (c + 1) - 1 = c /\ 8 * 1 = 8
    BY SMT
  <2>4. seqs[1] = Octet(bits, c + 1)
    BY <1>0, <2>1
  <2> QED BY <1>1, <1>4, <2>2, <2>3, <2>4 DEF seqs
<1>5. CASE more = 2
  <2>1. Len(seqs) \in Nat /\ Len(seqs) # 0 /\ 1 \in 1..more /\ 2 \in 1..more /\ 2 \in 2..2
    BY <1>2, <1>5, SMT
  <2>2. FlattenSeq(seqs) = seqs[1] \o seqs[2]
    <3>1. PICK g : /\ g[1] = seqs[1] /\ \A i \in 2..Len(seqs) : g[i] = g[i - 1] \o seqs[i]
                   /\ FlattenSeq(seqs) = g[Len(seqs)]
      BY <2>1, FlattenIs
    <3>2. g[2] = g[1] \o seqs[2]
      <4>1. 2 \in 2..Len(seqs)
        BY <1>2, <1>5, <2>1
      <4>2. g[2] = g[2 - 1] \o seqs[2]
        BY <3>1, <4>1
      <4>3. 2 - 1 = 1
        BY SMT
      <4> QED BY <4>2, <4>3
    <3> QED BY <1>2, <1>5, <3>1, <3>2
  <2>3. c + 1 \in Nat /\ (c + 1) - 1 = c /\ c + 2 \in Nat /\ (c + 2) - 1 = c + 1 /\ 8 * 2 = 16 /\ 8 + 8 = 16
    BY SMT
  <2>4. seqs[1] = Octet(bits, c + 1) /\ seqs[2] = Octet(bits, c + 2)
    BY <1>0, <2>1
  <2> DEFINE a == Octet(bits, c + 1)
             b == Octet(bits, c + 2)
  <2>5. /\ a \in Seq(Bit) /\ Len(a) = 8 /\ \A j \in 1..8 : a[j] = BitAt(bits, 8 * c + j)
        /\ b \in Seq(Bit) /\ Len(b) = 8 /\ \A j \in 1..8 : b[j] = BitAt(bits, 8 * (c + 1) + j)
    BY <1>1, <2>3
  <2> HIDE DEF a, b
  <2>6. /\ a \o b \in Seq(Bit) /\ Len(a \o b) = 16
        /\ \A x \in 1..16 : (a \o b)[x] = IF x <= 8 THEN a[x] ELSE b[x - 8]
    <3>1. /\ a \o b \in Seq(Bit) /\ Len(a \o b) = Len(a) + Len(b)
          /\ \A x \in 1..(Len(a) + Len(b)) : (a \o b)[x] = IF x <= Len(a) THEN a[x] ELSE b[x - Len(a)]
      BY <2>5, Pushing
    <3> QED BY <2>3, <2>5, <3>1
  <2>7. ASSUME NEW x \in 1..16
        PROVE  (a \o b)[x] = BitAt(bits, 8 * c + x)
    <3>1. /\ x <= 8 => x \in 1..8
          /\ ~(x <= 8) => x - 8 \in 1..8 /\ 8 * (c + 1) + (x - 8) = 8 * c + x
      BY SMT
    <3> QED BY <2>5, <2>6, <3>1
  <2> QED BY <1>5, <2>2, <2>3, <2>4, <2>6, <2>7 DEF a, b, seqs
<1>6. more = 0 \/ more = 1 \/ more = 2
  BY SMT
<1> QED BY <1>3, <1>4, <1>5, <1>6

Pulled(bits, at, s) ==
  /\ s.inIndex = GetNumBytes(at)
  /\ s.bitsInBuffer = 8 * GetNumBytes(at) - at
  /\ s.bitBuffer \in Seq(Bit) /\ Len(s.bitBuffer) = s.bitsInBuffer
  /\ \A j \in 1..s.bitsInBuffer : s.bitBuffer[j] = BitAt(bits, at + j)

(* The bytes to pull for the next n bits.                                  *)
LEMMA BytesToPull ==
  ASSUME NEW at \in Nat, NEW n \in 0..16
  PROVE  LET c    == GetNumBytes(at)
             b    == 8 * c - at
             more == IF n > b THEN GetNumBytes(n - b) ELSE 0
         IN /\ c \in Nat /\ b \in 0..7 /\ more \in 0..2
            /\ GetNumBytes(at + n) = c + more
            /\ b + 8 * more - n \in Nat
            /\ 8 * (c + more) - (at + n) = b + 8 * more - n
<1> DEFINE c    == GetNumBytes(at)
           b    == 8 * c - at
           more == IF n > b THEN GetNumBytes(n - b) ELSE 0
<1>1. c \in Nat /\ b \in 0..7
  BY SMT DEF GetNumBytes
<1>2. at = 8 * c - b
  <2> HIDE DEF c
  <2> QED BY <1>1, SMT
<1> HIDE DEF c, b
<1>3. more \in 0..2
  BY <1>1, SMT DEF GetNumBytes
<1>4. GetNumBytes(at + n) = c + more
  BY <1>1, <1>2, SMT DEF GetNumBytes
<1>5. b + 8 * more - n \in Nat
  BY <1>1, SMT DEF GetNumBytes
<1> HIDE DEF more
<1>6. 8 * (c + more) - (at + n) = b + 8 * more - n
  BY <1>1, <1>2, <1>3, SMT
<1> QED BY <1>1, <1>3, <1>4, <1>5, <1>6 DEF c, b, more

(* The number that n bits from a place on are.                             *)
ValueAt(bits, at, n) == ToNumber([j \in 1..n |-> BitAt(bits, at + j)])

BytesAre(raw, bits) == \A k \in 1..GetNumBytes(Len(bits)) : raw[k] = Byte(bits, k)

(* One turn of the loop.                                                   *)
LEMMA DecodeStep ==
  ASSUME NEW bits \in Seq(Bit), NEW column, ColumnIs(column), NEW at \in Nat,
         at + NumBitsOfColumn(column) <= Len(bits), NEW raw, BytesAre(raw, bits), NEW before, Pulled(bits, at, before)
  PROVE  /\ Pulled(bits, at + NumBitsOfColumn(column), DecodeColumn(column, raw, before))
         /\ DecodeColumn(column, raw, before).data = Append(before.data,
              IF column.virtual THEN 65535
              ELSE (ValueAt(bits, at, NumBitsOfColumn(column)) * column.step + column.min) % W)
<1> DEFINE n    == NumBitsOfColumn(column)
           c    == GetNumBytes(at)
           b    == 8 * c - at
           more == IF n > b THEN GetNumBytes(n - b) ELSE 0
           seqs == [k \in 1..more |-> ToBits(raw[c + k], 8)]
           flat == FlattenSeq(seqs)
           old  == before.bitBuffer
           full == LowBits(old, b) \o flat
           extra == Len(full) - n
           sub  == SubSeq(full, 1, n)
           after == DecodeColumn(column, raw, before)
<1>1. n \in 0..16
  <2>1. 0 \in Int
    BY SMT
  <2> QED BY <2>1, ColumnBitsIs
<1>2. /\ before.inIndex = c /\ before.bitsInBuffer = b
      /\ old \in Seq(Bit) /\ Len(old) = b
      /\ \A j \in 1..b : old[j] = BitAt(bits, at + j)
  BY DEF Pulled
<1>3. /\ after.bitBuffer = LowBits(full, extra) /\ after.bitsInBuffer = extra
      /\ after.inIndex = c + more
      /\ after.data = Append(before.data,
           IF column.virtual THEN 65535 ELSE (ToNumber(sub) * column.step + column.min) % W)
  BY <1>2 DEF DecodeColumn
<1>4. at + n <= Len(bits) /\ Len(bits) \in Nat
  OBVIOUS
<1> HIDE DEF n, old, after
<1>5. /\ c \in Nat /\ b \in 0..7 /\ more \in 0..2 /\ GetNumBytes(at + n) = c + more
      /\ b + 8 * more - n \in Nat
      /\ 8 * (c + more) - (at + n) = b + 8 * more - n
  BY <1>1, BytesToPull
<1> HIDE DEF more, b, c
<1>6. seqs = Octets(bits, c, more)
  <2> SUFFICES ASSUME NEW k \in 1..more PROVE ToBits(raw[c + k], 8) = Octet(bits, c + k)
    BY DEF Octets
  <2>1. c + more <= GetNumBytes(Len(bits))
    <3>1. at + n \in Nat
      BY <1>1, SMT
    <3>2. \A x, y \in Nat : x <= y => GetNumBytes(x) <= GetNumBytes(y)
      BY SMT DEF GetNumBytes
    <3> QED BY <1>4, <1>5, <3>1, <3>2
  <2>2. GetNumBytes(Len(bits)) \in Nat
    BY <1>4, Eights
  <2>3. c + k \in Nat /\ c + k \in 1..GetNumBytes(Len(bits))
    BY <1>5, <2>1, <2>2, SMT
  <2> QED BY <2>3, ByteIs DEF BytesAre
<1>7. /\ flat \in Seq(Bit) /\ Len(flat) = 8 * more
      /\ \A x \in 1..(8 * more) : flat[x] = BitAt(bits, 8 * c + x)
  <2> HIDE DEF seqs
  <2> QED BY <1>5, <1>6, FlatBytes
<1>8. LowBits(old, b) \in Seq(Bit) /\ Len(LowBits(old, b)) = b
      /\ \A j \in 1..b : LowBits(old, b)[j] = BitAt(bits, at + j)
  <2>1. b \in Nat /\ b - b = 0 /\ ~(b > b)
    BY <1>5, SMT
  <2>2. Kept(old, b) = b
    BY <1>2, <2>1 DEF Kept
  <2>3. /\ LowBits(old, b) \in Seq(Bit) /\ Len(LowBits(old, b)) = Kept(old, b)
        /\ \A j \in 1..Kept(old, b) : LowBits(old, b)[j] = old[Len(old) - Kept(old, b) + j]
    BY <1>2, <2>1, LowBitsIs
  <2>4. \A j \in 1..b : b - b + j = j
    BY <1>5, SMT
  <2> QED BY <1>2, <2>2, <2>3, <2>4
<1>9. /\ full \in Seq(Bit) /\ Len(full) = b + 8 * more
      /\ \A x \in 1..(b + 8 * more) : full[x] = BitAt(bits, at + x)
  <2> DEFINE low == LowBits(old, b)
  <2>1. /\ low \in Seq(Bit) /\ Len(low) = b
        /\ \A j \in 1..b : low[j] = BitAt(bits, at + j)
    BY <1>8
  <2> HIDE DEF low, flat
  <2>2. /\ low \o flat \in Seq(Bit) /\ Len(low \o flat) = Len(low) + Len(flat)
        /\ \A x \in 1..(Len(low) + Len(flat)) :
             (low \o flat)[x] = IF x <= Len(low) THEN low[x] ELSE flat[x - Len(low)]
    BY <1>7, <2>1, Pushing
  <2>3. ASSUME NEW x \in 1..(b + 8 * more)
        PROVE  (low \o flat)[x] = BitAt(bits, at + x)
    <3>1. /\ x <= b => x \in 1..b
          /\ ~(x <= b) => x - b \in 1..(8 * more)
      BY <1>5, SMT
    <3>2. 8 * c + (x - b) = at + x
      <4>1. b = 8 * c - at
        BY DEF b
      <4> QED BY <1>5, <4>1, SMT
    <3> QED BY <1>7, <2>1, <2>2, <3>1, <3>2
  <2> QED BY <1>7, <2>1, <2>2, <2>3 DEF low
<1> HIDE DEF full, extra
<1>10. extra = b + 8 * more - n /\ extra \in Nat /\ n <= Len(full) /\ Len(full) \in Nat
       /\ extra <= Len(full) /\ Len(full) - extra = n
  <2> DEFINE l == b + 8 * more
  <2>1. l \in Nat /\ l - n \in Nat /\ l - n = b + 8 * more - n
    BY <1>1, <1>5, SMT
  <2>2. Len(full) = l /\ l - n \in Nat /\ l \in Nat
    BY <1>9, <2>1
  <2> HIDE DEF l
  <2>3. n <= l /\ l - n <= l /\ l - (l - n) = n
    BY <1>1, <2>2, SMT
  <2> QED BY <2>1, <2>2, <2>3 DEF extra
<1>11. LowBits(full, extra) \in Seq(Bit) /\ Len(LowBits(full, extra)) = extra
       /\ \A j \in 1..extra : LowBits(full, extra)[j] = BitAt(bits, (at + n) + j)
  <2>1. Kept(full, extra) = extra
    BY <1>10, SMT DEF Kept
  <2>2. /\ LowBits(full, extra) \in Seq(Bit) /\ Len(LowBits(full, extra)) = Kept(full, extra)
        /\ \A j \in 1..Kept(full, extra) :
             LowBits(full, extra)[j] = full[Len(full) - Kept(full, extra) + j]
    BY <1>9, <1>10, LowBitsIs
  <2>3. ASSUME NEW j \in 1..extra
        PROVE  full[n + j] = BitAt(bits, (at + n) + j)
    <3>1. n + j \in 1..Len(full) /\ at + (n + j) = (at + n) + j
      BY <1>1, <1>10, SMT
    <3> QED BY <1>9, <3>1
  <2> QED BY <1>10, <2>1, <2>2, <2>3
<1>12. sub = [j \in 1..n |-> BitAt(bits, at + j)]
  <2>1. \A i \in 1..n : i \in 1..Len(full) /\ 1 + i - 1 = i
    BY <1>1, <1>10, SMT
  <2>2. \A i \in 1..Len(full) : full[i] \in Bit
    BY <1>9, ElementOfSeq
  <2>3. /\ sub \in Seq(Bit) /\ Len(sub) = IF 1 <= n THEN n - 1 + 1 ELSE 0
        /\ \A i \in 1..(n - 1 + 1) : sub[i] = full[1 + i - 1]
    <3>1. 1 \in Int /\ n \in Int
      BY <1>1, SMT
    <3>2. \A i \in 1..n : full[i] \in Bit
      BY <2>1, <2>2
    <3> QED BY <3>1, <3>2, SubSeqProperties
  <2>4. (IF 1 <= n THEN n - 1 + 1 ELSE 0) = n /\ n - 1 + 1 = n /\ n \in Nat
    BY <1>1, SMT
  <2>5. sub \in Seq(Bit) /\ Len(sub) = n /\ DOMAIN sub = 1..n
    BY <2>3, <2>4, LenProperties
  <2>6. \A i \in 1..n : sub[i] = BitAt(bits, at + i)
    BY <1>9, <2>1, <2>3, <2>4
  <2>7. sub = [j \in 1..n |-> sub[j]]
    BY <2>5
  <2> HIDE DEF sub
  <2> QED BY <2>6, <2>7
<1>13. Pulled(bits, at + n, after)
  BY <1>3, <1>5, <1>10, <1>11 DEF Pulled
<1> HIDE DEF sub
<1>14. after.data = Append(before.data,
         IF column.virtual THEN 65535
         ELSE (ValueAt(bits, at, n) * column.step + column.min) % W)
  BY <1>3, <1>12 DEF ValueAt
<1> QED BY <1>13, <1>14 DEF n, after

-----------------------------------------------------------------------------
(***************************************************************************)
(* rc_decodeRecord() gives back what rc_encodeRecord() was given.          *)
(***************************************************************************)
NothingPulled == [bitBuffer |-> <<>>, bitsInBuffer |-> 0, inIndex |-> 0, data |-> <<>>]

DecodeTurn(record, raw, g, i) ==
  IF i = 0 THEN [bitBuffer |-> <<>>, bitsInBuffer |-> 0, inIndex |-> 0, data |-> <<>>]
  ELSE DecodeColumn(record[i], raw, g[i - 1])

IsDecoding(record, raw, n, g) == g = [i \in 0..n |-> DecodeTurn(record, raw, g, i)]

LEMMA DecodingExists ==
  ASSUME NEW record, NEW raw, NEW n \in Nat
  PROVE  \E g : IsDecoding(record, raw, n, g)
<1> DEFINE S == {j \in Nat : \E g : IsDecoding(record, raw, j, g)}
<1>1. 0 \in S
  <2> DEFINE g == [i \in 0..0 |-> NothingPulled]
  <2>1. IsDecoding(record, raw, 0, g)
    BY SMT DEF IsDecoding, DecodeTurn, NothingPulled
  <2> QED BY <2>1
<1>2. ASSUME NEW j \in S
      PROVE  j + 1 \in S
  <2>1. PICK g : IsDecoding(record, raw, j, g)
    OBVIOUS
  <2> DEFINE h == [i \in 0..(j + 1) |-> IF i = j + 1 THEN DecodeTurn(record, raw, g, i) ELSE g[i]]
  <2>2. ASSUME NEW i \in 0..(j + 1)
        PROVE  h[i] = DecodeTurn(record, raw, h, i)
    <3>1. i # j + 1 => i \in 0..j
      BY SMT
    <3>2. h[i] = DecodeTurn(record, raw, g, i)
      BY <2>1, <3>1 DEF IsDecoding
    <3>3. i # 0 => h[i - 1] = g[i - 1]
      BY SMT
    <3> HIDE DEF h
    <3> QED BY <3>2, <3>3 DEF DecodeTurn
  <2>3. h = [i \in 0..(j + 1) |-> h[i]]
    OBVIOUS
  <2> HIDE DEF h
  <2>4. h = [i \in 0..(j + 1) |-> DecodeTurn(record, raw, h, i)]
    BY <2>2, <2>3
  <2> QED BY <2>4 DEF IsDecoding
<1>3. S = Nat
  BY <1>1, <1>2, SetInduction
<1> QED BY <1>3

(* The bits of a column, read from the row of all bits.                    *)
Lies(all, before, here, column, value) ==
  /\ Len(before) \in Nat
  /\ Len(before) + NumBitsOfColumn(column) = Len(here)
  /\ Len(before) + NumBitsOfColumn(column) <= Len(all)
  /\ [j \in 1..NumBitsOfColumn(column) |-> BitAt(all, Len(before) + j)] = ColumnBits(column, value)

LEMMA ColumnInLayout ==
  ASSUME NEW record, RecordIs(record), NEW data, DataIs(record, data), NEW i \in 1..Len(record)
  PROVE  Lies(Layout(record, data)[Len(record)], Layout(record, data)[i - 1],
              Layout(record, data)[i], record[i], data[i])
<1> DEFINE P    == Layout(record, data)
           before == P[i - 1]
           here == P[i]
           all  == P[Len(record)]
           bits == ColumnBits(record[i], data[i])
           n    == NumBitsOfColumn(record[i])
<1>1. ColumnIs(record[i]) /\ data[i] \in Int /\ i \in 0..Len(record)
  <2>1. Len(record) \in Nat
    BY DEF RecordIs
  <2>2. i \in 0..Len(record)
    BY <2>1, SMT
  <2> QED BY <2>2 DEF RecordIs, DataIs
<1>2. Len(bits) = n /\ Follows(before, bits, here)
  BY LayoutPlaces
<1>3. /\ Len(here) \in Nat /\ Len(all) \in Nat /\ Len(here) <= Len(all)
      /\ \A x \in 1..Len(here) : all[x] = here[x]
  BY <1>1, LayoutGrows
<1>4. n \in 0..16 /\ bits \in Seq(Bit) /\ DOMAIN bits = 1..Len(bits)
  BY <1>1, ColumnBitsIs, LenProperties
<1> HIDE DEF before, here, all, bits, n
<1>5. /\ Len(before) \in Nat /\ Len(here) = Len(before) + n
      /\ \A x \in 1..n : here[Len(before) + x] = bits[x]
  BY <1>2 DEF Follows
<1>6. ASSUME NEW j \in 1..n
      PROVE  BitAt(all, Len(before) + j) = bits[j]
  <2>1. Len(before) + j \in 1..Len(here) /\ Len(before) + j \in 1..Len(all)
    BY <1>3, <1>4, <1>5, SMT
  <2> QED BY <1>3, <1>5, <2>1 DEF BitAt
<1>7. [j \in 1..n |-> BitAt(all, Len(before) + j)] = bits
  <2>1. bits = [j \in 1..n |-> bits[j]]
    BY <1>2, <1>4
  <2> QED BY <1>6, <2>1
<1> QED BY <1>3, <1>5, <1>7 DEF before, here, all, bits, n, Lies

(* What a column comes back as.                                            *)
Back(column, value) == IF column.virtual THEN 65535 ELSE StepsBack(column, value)

(* The loop of rc_decodeRecord() finds each column where encoding put it.  *)
LEMMA DecodedColumns ==
  ASSUME NEW table, NEW raw, NEW record, record = table[DecodedType(table, raw)],
         RecordIs(record), NEW data, DataIs(record, data),
         BytesAre(raw, Layout(record, data)[Len(record)])
  PROVE  LET back == Decoded(table, raw) IN
         /\ back \in Seq(0..(W - 1)) /\ Len(back) = Len(record)
         /\ \A i \in 1..Len(record) : back[i] = Back(record[i], data[i])
<1> DEFINE n == Len(record)
           g == CHOOSE h : IsDecoding(record, raw, n, h)
           P == Layout(record, data)
           all == P[n]
           X == 0..(W - 1)
           Came(i, d) == d \in Seq(X) /\ Len(d) = i /\ \A x \in 1..i : d[x] = Back(record[x], data[x])
           S == {i \in Nat : i <= n => Pulled(all, Len(P[i]), g[i]) /\ Came(i, g[i].data)}
<1>1. n \in Nat /\ \A i \in 1..n : ColumnIs(record[i]) /\ data[i] \in Int
  BY DEF RecordIs, DataIs
<1>2. IsDecoding(record, raw, n, g)
  BY <1>1, DecodingExists
<1>3. Decoded(table, raw) = g[n].data
  BY DEF Decoded, IsDecoding, DecodeTurn
<1>4. P[0] = <<>>
  BY LayoutSteps
<1>5. all \in Seq(Bit)
  <2>1. n <= n
    BY <1>1, SMT
  <2> QED BY <1>1, <2>1, LayoutIs
<1>6. ASSUME NEW i \in 1..n
      PROVE  Lies(all, P[i - 1], P[i], record[i], data[i])
  BY <1>6, ColumnInLayout
<1>7. BytesAre(raw, all)
  OBVIOUS
<1> HIDE DEF n, g, P, all
<1>8. /\ g[0] = NothingPulled
      /\ \A i \in 1..n : g[i] = DecodeColumn(record[i], raw, g[i - 1])
  <2>1. \A i \in 0..n : g[i] = DecodeTurn(record, raw, g, i)
    BY <1>2 DEF IsDecoding
  <2>2. 0 \in 0..n /\ \A i \in 1..n : i \in 0..n /\ i # 0
    BY <1>1, SMT
  <2> QED BY <2>1, <2>2 DEF DecodeTurn, NothingPulled
<1>9. ASSUME NEW i \in 1..n
      PROVE  Back(record[i], data[i]) \in X
  <2>1. StepsBack(record[i], data[i]) \in 0..(W - 1)
    BY <1>1, StepsBackIs
  <2>2. 65535 \in X
    BY SMT DEF W
  <2> QED BY <2>1, <2>2 DEF Back
<1>10. Pulled(all, 0, NothingPulled) /\ Came(0, NothingPulled.data)
  <2>1. <<>> \in Seq(Bit) /\ <<>> \in Seq(X) /\ Len(<<>>) = 0
    OBVIOUS
  <2>2. GetNumBytes(0) = 0 /\ 8 * 0 - 0 = 0 /\ 1..0 = {}
    BY SMT DEF GetNumBytes
  <2> QED BY <2>1, <2>2 DEF Pulled, NothingPulled
<1>11. 0 \in S
  BY <1>4, <1>8, <1>10
<1>12. ASSUME NEW i \in S
       PROVE  i + 1 \in S
  <2> SUFFICES ASSUME i + 1 <= n
               PROVE  Pulled(all, Len(P[i + 1]), g[i + 1]) /\ Came(i + 1, g[i + 1].data)
    OBVIOUS
  <2>1. i + 1 \in 1..n /\ (i + 1) - 1 = i /\ i <= n
    BY <1>1, SMT
  <2> DEFINE at     == Len(P[i])
             column == record[i + 1]
             m      == NumBitsOfColumn(column)
             value  == ValueAt(all, at, m)
             d      == g[i].data
  <2>2. Pulled(all, at, g[i]) /\ Came(i, d)
    BY <2>1
  <2>3. /\ at \in Nat /\ at + m = Len(P[i + 1]) /\ at + m <= Len(all)
        /\ value = ToNumber(ColumnBits(column, data[i + 1]))
    BY <1>6, <2>1 DEF Lies, ValueAt
  <2>4. ColumnIs(column) /\ data[i + 1] \in Int /\ g[i + 1] = DecodeColumn(column, raw, g[i])
    BY <1>1, <1>8, <2>1
  <2>5. value = Steps(column, data[i + 1])
    BY <2>3, <2>4, ColumnBitsIs
  <2> HIDE DEF at
  <2>6. /\ Pulled(all, at + m, g[i + 1])
        /\ g[i + 1].data = Append(d,
             IF column.virtual THEN 65535 ELSE (value * column.step + column.min) % W)
    <3> HIDE DEF m, value
    <3>1. m = NumBitsOfColumn(column) /\ value = ValueAt(all, at, NumBitsOfColumn(column))
      BY DEF m, value
    <3> HIDE DEF column
    <3> QED BY <1>5, <1>7, <2>2, <2>3, <2>4, <3>1, DecodeStep
  <2> HIDE DEF value, m, column
  <2> DEFINE b == Back(column, data[i + 1])
  <2>7. g[i + 1].data = Append(d, b)
    BY <2>5, <2>6 DEF Back, StepsBack
  <2>8. b \in X
    BY <1>9, <2>1 DEF column
  <2> HIDE DEF b, X, d
  <2>9. d \in Seq(X) /\ Len(d) = i /\ \A x \in 1..i : d[x] = Back(record[x], data[x])
    BY <2>2
  <2>10. /\ Append(d, b) \in Seq(X) /\ Len(Append(d, b)) = Len(d) + 1
         /\ \A x \in 1..Len(d) : Append(d, b)[x] = d[x]
         /\ Append(d, b)[Len(d) + 1] = b
    BY <2>8, <2>9, AppendProperties
  <2>11. \A x \in 1..(i + 1) : Append(d, b)[x] = Back(record[x], data[x])
    <3>1. \A x \in 1..(i + 1) : x \in 1..i \/ x = i + 1
      BY SMT
    <3>2. Append(d, b)[i + 1] = Back(record[i + 1], data[i + 1])
      BY <2>9, <2>10 DEF b, column
    <3> QED BY <2>9, <2>10, <3>1, <3>2
  <2>12. Came(i + 1, g[i + 1].data)
    BY <2>7, <2>9, <2>10, <2>11
  <2> QED BY <2>3, <2>6, <2>12
<1>13. S = Nat
  BY <1>11, <1>12, SetInduction
<1>14. n \in S /\ n <= n
  BY <1>1, <1>13, SMT
<1> QED BY <1>3, <1>14 DEF n

-----------------------------------------------------------------------------
(***************************************************************************)
(* Tables, and the record type at the start of a record.                   *)
(***************************************************************************)
TypeColumn(types) == [min |-> 0, max |-> types - 1, step |-> 1, default |-> 0, virtual |-> FALSE]

TableIs(table) ==
  /\ Len(table) \in Nat /\ Len(table) >= 1 /\ Len(table) <= 255
  /\ DOMAIN table = 1..Len(table)
  /\ \A d \in DOMAIN table : RecordIs(table[d]) /\ Len(table[d]) >= 1
  /\ Len(table) > 1 => \A d \in DOMAIN table : table[d][1] = TypeColumn(Len(table))

LEMMA TypeColumnIs ==
  ASSUME NEW t \in Nat, t > 1, t <= 255, NEW v \in Nat, v <= t - 1
  PROVE  LET n == NumBitsOfColumn(TypeColumn(t)) IN
         n \in 1..8 /\ Steps(TypeColumn(t), v) = v
<1> DEFINE column == TypeColumn(t)
           n == NumBitsOfColumn(column)
<1>1. column.min = 0 /\ column.max = t - 1 /\ column.step = 1
  BY DEF TypeColumn
<1>2. n = GetNumBits(t - 1)
  <2>1. ((t - 1) - 0) \div 1 = t - 1
    BY SMT
  <2> QED BY <1>1, <2>1 DEF NumBitsOfColumn
<1>3. n \in 0..16 /\ t - 1 < Pow(n) /\ (t - 1 >= 1 => n >= 1) /\ (t - 1 <= 255 => n <= 8)
  <2>1. t - 1 \in Nat /\ t - 1 <= t /\ t <= 65535
    BY SMT
  <2>2. t - 1 \in 0..(W - 1)
    BY <2>1, InRange
  <2> QED BY <1>2, <2>2, NumBitsIs
<1>4. Pow(n) \in Nat /\ Pow(n) >= 1
  BY <1>3, PowIs
<1>5. Steps(column, v) = v
  <2>1. Steps(column, v) = ((v - 0) \div 1) % Pow(n)
    BY <1>1 DEF Steps
  <2> HIDE DEF n
  <2>2. (v - 0) \div 1 = v /\ v < Pow(n)
    BY <1>3, <1>4, SMT
  <2>3. v % Pow(n) = v
    BY <1>4, <2>2, SMT
  <2> QED BY <2>1, <2>2, <2>3
<1> HIDE DEF n
<1>6. n \in 1..8
  BY <1>3, SMT
<1> QED BY <1>5, <1>6 DEF n, column

(* The record type is found in the first byte, before anything else is     *)
(* decoded.                                                                *)
LEMMA TypeBack ==
  ASSUME NEW table, TableIs(table), NEW data, NEW type, type = TypeOf(table, data),
         type \in DOMAIN table, DataIs(table[type], data), NEW raw,
         BytesAre(raw, Layout(table[type], data)[Len(table[type])])
  PROVE  DecodedType(table, raw) = type
<1>1. CASE ~(Len(table) > 1)
  BY <1>1 DEF DecodedType, TypeOf
<1>2. CASE Len(table) > 1
  <2> DEFINE record == table[type]
             t      == Len(table)
             column == TypeColumn(t)
             n      == NumBitsOfColumn(column)
             v      == data[1]
             P      == Layout(record, data)
             all    == P[Len(record)]
             N      == raw[1]
             bits   == ColumnBits(column, v)
  <2>1. /\ t \in Nat /\ t > 1 /\ t <= 255 /\ type \in 1..t /\ 1 \in 1..t
        /\ RecordIs(record) /\ Len(record) \in Nat /\ Len(record) >= 1
        /\ record[1] = column /\ table[1][1] = column
    <3>1. t \in Nat /\ t <= 255 /\ DOMAIN table = 1..t
      BY DEF TableIs
    <3>2. 1 \in 1..t
      BY <1>2, <3>1, SMT
    <3> QED BY <1>2, <3>1, <3>2 DEF TableIs, RecordIs
  <2>2. 1 \in 1..Len(record) /\ 1 - 1 = 0
    BY <2>1, SMT
  <2>3. v \in Int /\ v + 1 = type
    BY <1>2, <2>2 DEF DataIs, TypeOf
  <2>4. v \in Nat /\ v <= t - 1
    BY <2>1, <2>3, SMT
  <2>5. n \in 1..8 /\ Steps(column, v) = v
    BY <2>1, <2>4, TypeColumnIs
  <2>6. ColumnIs(column)
    BY <2>1, <2>2 DEF RecordIs
  <2>7. ToNumber(bits) = v /\ Len(bits) = n /\ bits \in Seq(Bit)
    BY <2>3, <2>5, <2>6, ColumnBitsIs
  <2>8. P[0] = <<>> /\ all \in Seq(Bit)
    <3>1. Len(record) <= Len(record)
      BY <2>1, SMT
    <3> QED BY <2>1, <3>1, LayoutSteps, LayoutIs
  <2>9. Lies(all, <<>>, P[1], column, v)
    <3>1. Lies(all, P[1 - 1], P[1], record[1], data[1])
      BY <2>1, <2>2, ColumnInLayout
    <3> QED BY <2>1, <2>2, <2>8, <3>1
  <2>10. BytesAre(raw, all)
    OBVIOUS
  <2>11. DecodedType(table, raw) = 1 + N \div Pow(8 - n)
    BY <1>2, <2>1 DEF DecodedType, Pow
  <2> HIDE DEF P, all, N, bits, n, record, column, t
  <2>12. /\ n <= Len(all) /\ Len(all) \in Nat
         /\ \A j \in 1..n : BitAt(all, j) = bits[j]
    <3>1. Len(<<>>) = 0
      OBVIOUS
    <3>2. 0 + n = n /\ \A j \in 1..n : 0 + j = j
      BY <2>5, SMT
    <3>3. n <= Len(all) /\ [j \in 1..n |-> BitAt(all, j)] = bits
      BY <2>9, <3>1, <3>2 DEF Lies, n, bits
    <3> QED BY <2>8, <3>3
  <2>13. N = Byte(all, 1)
    <3>1. 1 \in 1..GetNumBytes(Len(all))
      BY <2>5, <2>12, SMT DEF GetNumBytes
    <3> QED BY <2>10, <3>1 DEF BytesAre, N
  <2>14. N \in 0..255 /\ ToBits(N, 8) = Octet(all, 1)
    <3>1. 1 \in Nat
      OBVIOUS
    <3> QED BY <2>8, <2>13, <3>1, ByteIs
  <2>15. ASSUME NEW j \in 1..n
         PROVE  bits[j] = (N \div Pow(8 - j)) % 2
    <3>1. j \in 1..8 /\ 8 * (1 - 1) + j = j
      BY <2>5, SMT
    <3>2. ToBits(N, 8)[j] = (N \div Pow(8 - j)) % 2
      BY <3>1 DEF ToBits, Pow
    <3>3. Octet(all, 1)[j] = BitAt(all, j)
      BY <3>1 DEF Octet
    <3> QED BY <2>12, <2>14, <3>2, <3>3
  <2>16. BitsOf(N, 8, n, bits)
    BY <2>7, <2>15 DEF BitsOf
  <2>17. ToNumber(bits) = N \div Pow(8 - n)
    <3>1. Pow(8) - 1 = 255
      BY Powers, SMT
    <3>2. N \in 0..(Pow(8) - 1)
      BY <2>14, <3>1
    <3>3. 8 \in 0..16 /\ n \in 0..8
      BY <2>5, SMT
    <3> HIDE DEF N
    <3>4. \A m \in 0..16 : m = 8 => ToNumber(bits) = N \div Pow(m - n)
      <4> SUFFICES ASSUME NEW m \in 0..16, m = 8 PROVE ToNumber(bits) = N \div Pow(m - n)
        OBVIOUS
      <4>1. n \in 0..m /\ N \in 0..(Pow(m) - 1) /\ BitsOf(N, m, n, bits)
        BY <2>16, <3>2, <3>3
      <4> QED BY <4>1, NumberOfPrefix
    <3> QED BY <3>3, <3>4
  <2>18. 1 + v = type
    BY <2>3, SMT
  <2> QED BY <2>7, <2>11, <2>17, <2>18
<1> QED BY <1>1, <1>2

(* The record that rc_encodeRecord() writes over a raw buffer that has     *)
(* room for it comes back, with its type.                                  *)
LEMMA CodecReturns ==
  ASSUME NEW table, TableIs(table), NEW data, NEW type, type = TypeOf(table, data),
         type \in DOMAIN table, DataIs(table[type], data), NEW raw,
         Len(raw) \in Nat, RecordSize(table[type]) <= Len(raw)
  PROVE  LET back == Decoded(table, EncodedOver(table, data, raw)) IN
         /\ Encoded(table, data) = Packed(table, data)
         /\ back \in Seq(0..(W - 1)) /\ Len(back) = Len(table[type])
         /\ \A i \in 1..Len(table[type]) : back[i] = Back(table[type][i], data[i])
<1> DEFINE record == table[type]
           all == Layout(record, data)[Len(record)]
           over == EncodedOver(table, data, raw)
           back == Decoded(table, over)
<1>1. RecordIs(record) /\ Len(record) >= 1 /\ DataIs(record, data) /\ Len(record) \in Nat
  BY DEF TableIs, RecordIs
<1>2. /\ Encoded(table, data) = BytesOf(all) /\ Packed(table, data) = Encoded(table, data)
      /\ GetNumBytes(Len(all)) = RecordSize(record)
  BY <1>1, EncodedIs
<1>3. all \in Seq(Bit) /\ Len(all) \in Nat /\ GetNumBytes(Len(all)) \in Nat
  <2>1. Len(record) <= Len(record)
    BY <1>1, SMT
  <2>2. all \in Seq(Bit)
    BY <1>1, <2>1, LayoutIs
  <2>3. Len(all) \in Nat
    BY <2>2
  <2> QED BY <2>2, <2>3, Eights
<1> HIDE DEF all
<1> DEFINE size == GetNumBytes(Len(all))
<1>4. Len(BytesOf(all)) = size /\ \A k \in 1..size : BytesOf(all)[k] = Byte(all, k)
  <2> DEFINE X == {Byte(all, k) : k \in 1..size}
  <2>1. BytesOf(all) \in [1..size -> X]
    BY DEF BytesOf
  <2> HIDE DEF X
  <2>2. Len(BytesOf(all)) = size
    BY <1>3, <2>1, SeqOfFunction
  <2> QED BY <2>2 DEF BytesOf
<1>5. BytesAre(over, all)
  <2> SUFFICES ASSUME NEW k \in 1..size PROVE over[k] = Byte(all, k)
    BY DEF BytesAre
  <2>1. k \in 1..Len(raw) /\ k <= size
    BY <1>2, <1>3, SMT
  <2> QED BY <1>2, <1>4, <2>1 DEF EncodedOver
<1>6. DecodedType(table, over) = type
  BY <1>5, TypeBack DEF all
<1> HIDE DEF over
<1>7. /\ back \in Seq(0..(W - 1)) /\ Len(back) = Len(record)
      /\ \A i \in 1..Len(record) : back[i] = Back(record[i], data[i])
  <2>1. record = table[DecodedType(table, over)]
    BY <1>6
  <2>2. BytesAre(over, Layout(record, data)[Len(record)])
    BY <1>5 DEF all
  <2> HIDE DEF record
  <2> QED BY <1>1, <2>1, <2>2, DecodedColumns
<1> QED BY <1>2, <1>7 DEF over

-----------------------------------------------------------------------------
(***************************************************************************)
(* The buffers have room for every record of the table.                    *)
(***************************************************************************)
LEMMA MaxOfRange ==
  ASSUME NEW n \in Nat, n >= 1, NEW f \in [1..n -> Nat], NEW S, S = {f[d] : d \in 1..n}
  PROVE  Max(S) \in Nat /\ \A d \in 1..n : f[d] <= Max(S)
<1> DEFINE T == {k \in Nat : k + 1 <= n => \E m \in 1..(k + 1) : \A d \in 1..(k + 1) : f[d] <= f[m]}
<1>1. 0 \in T
  <2>1. 0 + 1 <= n => f[1] \in Nat
    BY SMT
  <2>2. \A d \in 1..(0 + 1) : d = 1
    BY SMT
  <2>3. 1 \in 1..(0 + 1)
    BY SMT
  <2>4. 0 + 1 <= n => f[1] <= f[1]
    BY <2>1, SMT
  <2> QED BY <2>2, <2>3, <2>4
<1>2. ASSUME NEW k \in T
      PROVE  k + 1 \in T
  <2> SUFFICES ASSUME (k + 1) + 1 <= n
               PROVE  \E m \in 1..((k + 1) + 1) : \A d \in 1..((k + 1) + 1) : f[d] <= f[m]
    OBVIOUS
  <2>1. k + 1 <= n /\ k \in Nat
    BY SMT
  <2>2. PICK m \in 1..(k + 1) : \A d \in 1..(k + 1) : f[d] <= f[m]
    BY <2>1
  <2> DEFINE z == (k + 1) + 1
  <2>3. /\ z \in 1..n /\ z \in 1..z /\ m \in 1..n /\ m \in 1..z
        /\ \A d \in 1..z : d \in 1..n /\ (d \in 1..(k + 1) \/ d = z)
    BY <2>1, SMT
  <2> HIDE DEF z
  <2>4. f[m] \in Nat /\ f[z] \in Nat
    BY <2>3
  <2>5. CASE f[z] <= f[m]
    BY <2>2, <2>3, <2>5 DEF z
  <2>6. CASE ~(f[z] <= f[m])
    <3>1. ASSUME NEW d \in 1..z
          PROVE  f[d] <= f[z]
      <4>1. CASE d = z
        BY <2>4, <4>1, SMT
      <4>2. CASE d \in 1..(k + 1)
        <5>1. f[d] <= f[m] /\ f[d] \in Nat
          BY <2>2, <2>3, <4>2
        <5> QED BY <2>4, <2>6, <5>1, SMT
      <4> QED BY <2>3, <4>1, <4>2
    <3> QED BY <2>3, <3>1 DEF z
  <2> QED BY <2>5, <2>6
<1>3. T = Nat
  BY <1>1, <1>2, SetInduction
<1>4. n - 1 \in Nat /\ (n - 1) + 1 = n /\ n <= n
  BY SMT
<1>5. PICK m \in 1..n : \A d \in 1..n : f[d] <= f[m]
  <2>1. n - 1 \in T
    BY <1>3, <1>4
  <2>2. \E m \in 1..((n - 1) + 1) : \A d \in 1..((n - 1) + 1) : f[d] <= f[m]
    BY <1>4, <2>1
  <2> QED BY <1>4, <2>2
<1>6. \A x \in S : x \in Nat
  OBVIOUS
<1>7. f[m] \in S /\ \A y \in S : f[m] >= y
  <2>1. \A d \in 1..n : f[d] \in Nat /\ f[m] \in Nat /\ f[d] <= f[m]
    BY <1>5
  <2>2. \A d \in 1..n : f[m] >= f[d]
    BY <2>1, SMT
  <2> QED BY <2>2
<1>8. Max(S) \in S /\ \A y \in S : Max(S) >= y
  <2>1. Max(S) = CHOOSE x \in S : \A y \in S : x >= y
    BY DEF Max
  <2> QED BY <1>7, <2>1
<1>9. Max(S) \in Nat
  BY <1>6, <1>8
<1>10. ASSUME NEW d \in 1..n
       PROVE  f[d] <= Max(S)
  <2>1. f[d] \in S /\ f[d] \in Nat
    OBVIOUS
  <2>2. Max(S) >= f[d]
    BY <1>8, <2>1
  <2> QED BY <1>9, <2>1, <2>2, SMT
<1> QED BY <1>9, <1>10

MaxColumns(table) == Max({Len(table[d]) : d \in DOMAIN table})

LEMMA RecordSizeNat ==
  ASSUME NEW record, RecordIs(record)
  PROVE  RecordSize(record) \in Nat
<1> DEFINE data == [i \in 1..Len(record) |-> 0]
           all  == Layout(record, data)[Len(record)]
<1>1. Len(record) \in Nat
  BY DEF RecordIs
<1>2. DataIs(record, data)
  BY <1>1, SMT DEF DataIs
<1> HIDE DEF data
<1>3. RecordSize(record) = GetNumBytes(Len(all))
  BY <1>2, RecordSizeIs
<1>4. Len(record) <= Len(record)
  BY <1>1, SMT
<1>5. all \in Seq(Bit)
  BY <1>1, <1>2, <1>4, LayoutIs
<1> HIDE DEF all
<1>6. Len(all) \in Nat
  BY <1>5
<1> QED BY <1>3, <1>6, Eights

(* The largest record of the table has room in the buffers.                *)
LEMMA Room ==
  ASSUME NEW table, TableIs(table)
  PROVE  /\ MaxColumns(table) \in Nat /\ MaxRecordSize(table) \in Nat
         /\ \A d \in DOMAIN table : /\ Len(table[d]) <= MaxColumns(table)
                                    /\ RecordSize(table[d]) <= MaxRecordSize(table)
<1> DEFINE n == Len(table)
           f == [d \in 1..n |-> Len(table[d])]
           g == [d \in 1..n |-> RecordSize(table[d])]
<1>1. n \in Nat /\ n >= 1 /\ DOMAIN table = 1..n /\ \A d \in 1..n : RecordIs(table[d])
  BY DEF TableIs
<1>2. \A d \in 1..n : Len(table[d]) \in Nat /\ RecordSize(table[d]) \in Nat
  BY <1>1, RecordSizeNat DEF RecordIs
<1> HIDE DEF n
<1>3. f \in [1..n -> Nat] /\ g \in [1..n -> Nat]
  BY <1>2
<1>4. {Len(table[d]) : d \in DOMAIN table} = {f[d] : d \in 1..n}
  BY <1>1
<1>5. {RecordSize(table[d]) : d \in DOMAIN table} = {g[d] : d \in 1..n}
  BY <1>1
<1>6. /\ MaxColumns(table) = Max({f[d] : d \in 1..n})
      /\ MaxRecordSize(table) = Max({g[d] : d \in 1..n})
  BY <1>4, <1>5 DEF MaxColumns, MaxRecordSize
<1>7. \A d \in 1..n : f[d] = Len(table[d]) /\ g[d] = RecordSize(table[d])
  OBVIOUS
<1> HIDE DEF f, g
<1>8. MaxColumns(table) \in Nat /\ \A d \in 1..n : f[d] <= MaxColumns(table)
  BY <1>1, <1>3, <1>6, MaxOfRange
<1>9. MaxRecordSize(table) \in Nat /\ \A d \in 1..n : g[d] <= MaxRecordSize(table)
  BY <1>1, <1>3, <1>6, MaxOfRange
<1> QED BY <1>1, <1>7, <1>8, <1>9

(* The tables of the schema are such tables.                               *)
LEMMA ColumnsAre ==
  ASSUME NEW table \in Tables, NEW d \in DOMAIN table, NEW i \in DOMAIN table[d]
  PROVE  ColumnIs(table[d][i])
<1> DEFINE column == table[d][i]
<1>1. column.min \in 0..column.max
  BY ColumnValuesAssumption, Zenon
<1>2. column.max \in 0..(W - 1)
  BY ColumnValuesAssumption, Zenon
<1>3. column.step \in 1..127
  BY ColumnValuesAssumption, Zenon
<1>4. (column.max - column.min) % column.step = 0
  BY ColumnValuesAssumption, Zenon
<1>5. column.default \in column.min..column.max
  BY ColumnValuesAssumption, Zenon
<1>6. (column.default - column.min) % column.step = 0
  BY ColumnValuesAssumption, Zenon
<1>7. column.virtual \in BOOLEAN
  BY ColumnValuesAssumption, Zenon
<1> QED BY <1>1, <1>2, <1>3, <1>4, <1>5, <1>6, <1>7 DEF ColumnIs

LEMMA TablesAre ==
  ASSUME NEW table \in Tables
  PROVE  TableIs(table)
<1>1. /\ Len(table) \in 1..255 /\ DOMAIN table = 1..Len(table)
      /\ \A d \in DOMAIN table :
           Len(table[d]) \in 1..255 /\ DOMAIN table[d] = 1..Len(table[d])
      /\ Len(table) > 1 =>
           \A d \in DOMAIN table : table[d][1] = TypeColumn(Len(table))
  BY ColumnValuesAssumption DEF TypeColumn
<1>2. \A n \in 1..255 : n \in Nat /\ n >= 1 /\ n <= 255
  BY SMT
<1>3. \A d \in DOMAIN table : RecordIs(table[d]) /\ Len(table[d]) >= 1
  <2> SUFFICES ASSUME NEW d \in DOMAIN table PROVE RecordIs(table[d]) /\ Len(table[d]) >= 1
    OBVIOUS
  <2>1. Len(table[d]) \in Nat /\ Len(table[d]) >= 1 /\ DOMAIN table[d] = 1..Len(table[d])
    BY <1>1, <1>2
  <2> QED BY <2>1, ColumnsAre DEF RecordIs
<1> QED BY <1>1, <1>2, <1>3 DEF TableIs

-----------------------------------------------------------------------------
(***************************************************************************)
(* Records in a buffer, and in the store.                                  *)
(***************************************************************************)
Def(table, columns) == table[TypeOf(table, columns)]

(* The columns of a buffer, with a record type the table has.              *)
ColumnsFit(table, columns) ==
  /\ columns \in [1..MaxColumns(table) -> 0..(W - 1)]
  /\ TypeOf(table, columns) \in DOMAIN table

Conforming(table, columns) ==
  \A i \in DOMAIN Def(table, columns) :
    Def(table, columns)[i].virtual \/ ValueConforms(Def(table, columns)[i], columns[i])

(* What Decoded() gives: the columns of a record.                          *)
IsRecord(table, data) ==
  /\ data \in Seq(0..(W - 1))
  /\ TypeOf(table, data) \in DOMAIN table
  /\ Len(data) = Len(Def(table, data))

Same(table, columns, others) ==
  /\ TypeOf(table, columns) = TypeOf(table, others)
  /\ \A i \in DOMAIN Def(table, columns) :
       Def(table, columns)[i].virtual \/ columns[i] = others[i]

RawFits(table, raw) ==
  DOMAIN raw = 1..MaxRecordSize(table) /\ Len(raw) = MaxRecordSize(table)

StoredConforms(table, bytes) ==
  /\ RawFits(table, bytes)
  /\ IsRecord(table, Decoded(table, bytes))
  /\ Conforming(table, Decoded(table, bytes))

(* About a type of the table and its columns.                              *)
LEMMA TypeIs ==
  ASSUME NEW table \in Tables, NEW type \in DOMAIN table
  PROVE  /\ TableIs(table) /\ RecordIs(table[type])
         /\ Len(table[type]) \in Nat /\ Len(table[type]) >= 1
         /\ DOMAIN table[type] = 1..Len(table[type])
         /\ 1 \in DOMAIN table[type]
         /\ Len(table[type]) <= MaxColumns(table)
         /\ MaxColumns(table) \in Nat /\ MaxRecordSize(table) \in Nat
         /\ 1 \in 1..MaxColumns(table)
         /\ DOMAIN table[type] \subseteq 1..MaxColumns(table)
         /\ RecordSize(table[type]) <= MaxRecordSize(table)
         /\ \A i \in DOMAIN table[type] : ColumnIs(table[type][i])
         /\ Len(table) > 1 => table[type][1] = TypeColumn(Len(table))
<1>1. TableIs(table)
  BY TablesAre
<1>2. /\ RecordIs(table[type]) /\ Len(table[type]) >= 1
      /\ Len(table) > 1 => table[type][1] = TypeColumn(Len(table))
  BY <1>1 DEF TableIs
<1>3. /\ Len(table[type]) \in Nat /\ DOMAIN table[type] = 1..Len(table[type])
      /\ \A i \in DOMAIN table[type] : ColumnIs(table[type][i])
  BY <1>2 DEF RecordIs
<1>4. /\ MaxColumns(table) \in Nat /\ MaxRecordSize(table) \in Nat
      /\ Len(table[type]) <= MaxColumns(table)
      /\ RecordSize(table[type]) <= MaxRecordSize(table)
  BY <1>1, Room
<1> DEFINE n == Len(table[type])
           m == MaxColumns(table)
<1>5. n \in Nat /\ m \in Nat /\ n >= 1 /\ n <= m
  BY <1>2, <1>3, <1>4
<1> HIDE DEF n, m
<1>6. 1 \in 1..n /\ 1 \in 1..m /\ 1..n \subseteq 1..m
  BY <1>5, SMT
<1> QED BY <1>1, <1>2, <1>3, <1>4, <1>6 DEF n, m

(* The type is in the first column.                                        *)
LEMMA SameType ==
  ASSUME NEW table, NEW columns, NEW others, columns[1] = others[1]
  PROVE  TypeOf(table, columns) = TypeOf(table, others)
BY DEF TypeOf

(* storeRecordBuffer(), and reading back.                                  *)
LEMMA StoreBack ==
  ASSUME NEW table \in Tables, NEW columns, ColumnsFit(table, columns),
         Conforming(table, columns), NEW raw, RawFits(table, raw)
  PROVE  LET over == EncodedOver(table, columns, raw) IN
         /\ Encoded(table, columns) = Packed(table, columns)
         /\ RawFits(table, over)
         /\ StoredConforms(table, over)
         /\ Same(table, columns, Decoded(table, over))
<1> DEFINE type == TypeOf(table, columns)
           def  == table[type]
           over == EncodedOver(table, columns, raw)
           back == Decoded(table, over)
<1>1. type \in DOMAIN table /\ columns \in [1..MaxColumns(table) -> 0..(W - 1)]
  BY DEF ColumnsFit
<1>2. /\ TableIs(table) /\ RecordIs(def)
      /\ Len(def) \in Nat /\ Len(def) >= 1 /\ DOMAIN def = 1..Len(def) /\ 1 \in DOMAIN def
      /\ DOMAIN def \subseteq 1..MaxColumns(table)
      /\ MaxRecordSize(table) \in Nat /\ RecordSize(def) <= MaxRecordSize(table)
      /\ \A i \in DOMAIN def : ColumnIs(def[i])
      /\ Len(table) > 1 => def[1] = TypeColumn(Len(table))
  BY <1>1, TypeIs
<1>3. \A i \in DOMAIN def : columns[i] \in 0..(W - 1) /\ columns[i] \in Int
  <2>1. \A i \in DOMAIN def : columns[i] \in 0..(W - 1)
    BY <1>1, <1>2
  <2>2. \A v \in 0..(W - 1) : v \in Int
    BY WIs, SMT
  <2> QED BY <2>1, <2>2
<1>4. DataIs(def, columns)
  BY <1>2, <1>3 DEF DataIs
<1>5. Len(raw) = MaxRecordSize(table) /\ DOMAIN raw = 1..MaxRecordSize(table)
  BY DEF RawFits
<1>6. /\ Encoded(table, columns) = Packed(table, columns)
      /\ back \in Seq(0..(W - 1)) /\ Len(back) = Len(def)
      /\ \A i \in 1..Len(def) : back[i] = Back(def[i], columns[i])
  <2>1. /\ type = TypeOf(table, columns) /\ TableIs(table) /\ type \in DOMAIN table
        /\ DataIs(table[type], columns)
        /\ Len(raw) \in Nat /\ RecordSize(table[type]) <= Len(raw)
    BY <1>1, <1>2, <1>4, <1>5
  <2> HIDE DEF type
  <2> QED BY <2>1, CodecReturns
<1>7. RawFits(table, over)
  <2> DEFINE at(i) == IF i <= Len(Encoded(table, columns)) THEN Encoded(table, columns)[i] ELSE raw[i]
             X == {at(i) : i \in 1..MaxRecordSize(table)}
  <2>1. over \in [1..MaxRecordSize(table) -> X]
    BY <1>5 DEF EncodedOver
  <2> HIDE DEF X, over
  <2>2. Len(over) = MaxRecordSize(table)
    BY <1>2, <2>1, SeqOfFunction
  <2> QED BY <2>1, <2>2 DEF RawFits
<1> HIDE DEF back
<1>8. ASSUME NEW i \in DOMAIN def, ~def[i].virtual
      PROVE  back[i] = columns[i] /\ ValueConforms(def[i], back[i])
  <2>1. ValueConforms(def[i], columns[i])
    BY <1>8 DEF Conforming, Def
  <2>2. StepsBack(def[i], columns[i]) = columns[i]
    BY <1>2, <1>3, <2>1, StepsBackIs
  <2>3. back[i] = StepsBack(def[i], columns[i])
    BY <1>2, <1>6, <1>8 DEF Back
  <2> QED BY <2>1, <2>2, <2>3
<1>9. TypeOf(table, back) = type
  <2>1. CASE Len(table) > 1
    <3>1. ~def[1].virtual
      BY <1>2, <2>1 DEF TypeColumn
    <3>2. back[1] = columns[1]
      BY <1>2, <1>8, <3>1
    <3> QED BY <3>2, SameType
  <2>2. CASE ~(Len(table) > 1)
    BY <2>2 DEF TypeOf
  <2> QED BY <2>1, <2>2
<1>10. IsRecord(table, back)
  BY <1>1, <1>6, <1>9 DEF IsRecord, Def
<1>11. Conforming(table, back)
  BY <1>8, <1>9 DEF Conforming, Def
<1>12. Same(table, columns, back)
  BY <1>8, <1>9 DEF Same, Def
<1> QED BY <1>6, <1>7, <1>10, <1>11, <1>12 DEF StoredConforms, back

(* fillRecordBuffer()                                                      *)
LEMMA FillFits ==
  ASSUME NEW table \in Tables, NEW columns, columns \in [1..MaxColumns(table) -> 0..(W - 1)],
         NEW data, IsRecord(table, data), Conforming(table, data),
         NEW over, over = [i \in DOMAIN columns |-> IF i \in DOMAIN data THEN data[i] ELSE columns[i]]
  PROVE  ColumnsFit(table, over) /\ Conforming(table, over) /\ Same(table, over, data)
<1> DEFINE type == TypeOf(table, data)
           def  == table[type]
<1>1. type \in DOMAIN table /\ Len(data) = Len(def) /\ data \in Seq(0..(W - 1))
  BY DEF IsRecord, Def
<1>2. /\ Len(def) \in Nat /\ DOMAIN def = 1..Len(def) /\ 1 \in DOMAIN def
      /\ DOMAIN def \subseteq 1..MaxColumns(table)
  BY <1>1, TypeIs
<1>3. DOMAIN data = DOMAIN def /\ \A i \in DOMAIN def : data[i] \in 0..(W - 1)
  <2>1. DOMAIN data = 1..Len(data) /\ \A i \in 1..Len(data) : data[i] \in 0..(W - 1)
    BY <1>1, LenProperties, ElementOfSeq
  <2> QED BY <1>1, <1>2, <2>1
<1>4. \A i \in DOMAIN def : over[i] = data[i]
  BY <1>2, <1>3
<1>5. over \in [1..MaxColumns(table) -> 0..(W - 1)]
  <2>1. \A i \in 1..MaxColumns(table) : over[i] \in 0..(W - 1)
    BY <1>3
  <2>2. over = [i \in 1..MaxColumns(table) |-> over[i]]
    OBVIOUS
  <2> QED BY <2>1, <2>2
<1>6. TypeOf(table, over) = type
  BY <1>2, <1>4, SameType
<1> QED BY <1>1, <1>4, <1>5, <1>6 DEF ColumnsFit, Conforming, Same, Def

-----------------------------------------------------------------------------
(***************************************************************************)
(* New values for columns.                                                 *)
(***************************************************************************)
LEMMA MultipleConforms ==
  ASSUME NEW column, ColumnIs(column), NEW value \in column.min..column.max,
         (value - column.min) % column.step = 0
  PROVE  ValueConforms(column, value)
<1> DEFINE d == value - column.min
<1>1. /\ column.step \in 1..127 /\ column.min \in Nat /\ column.max \in Nat
  BY ColumnRange
<1>2. d \in Nat /\ value = column.min + d
  BY <1>1, SMT
<1>3. \A a \in Nat : \A k \in 1..127 : a % k = 0 => a = (a \div k) * k
  BY SMT
<1>4. d = (d \div column.step) * column.step
  <2> HIDE DEF d
  <2>1. d % column.step = 0
    BY DEF d
  <2> QED BY <1>1, <1>2, <1>3, <2>1
<1>5. value = column.min + (d \div column.step) * column.step
  <2> HIDE DEF d
  <2> QED BY <1>2, <1>4
<1> QED BY <1>5 DEF ValueConforms

LEMMA DefaultConforms ==
  ASSUME NEW column, ColumnIs(column)
  PROVE  /\ ValueConforms(column, column.default)
         /\ column.default \in 0..(W - 1)
<1>1. /\ column.default \in column.min..column.max
      /\ (column.default - column.min) % column.step = 0
  BY DEF ColumnIs
<1>2. column.default \in Nat /\ column.default <= column.max /\ column.max \in Nat /\ column.max <= 65535
  BY ColumnRange
<1> QED BY <1>1, <1>2, MultipleConforms, InRange

LEMMA ConformingFits ==
  ASSUME NEW column, ColumnIs(column), NEW value, ValueConforms(column, value)
  PROVE  value \in 0..(W - 1) /\ value \in Nat
<1>1. value \in column.min..column.max
  BY DEF ValueConforms
<1>2. column.min \in Nat /\ column.max \in Nat /\ column.max <= 65535
  BY ColumnRange
<1>3. value \in Nat /\ value <= column.max
  BY <1>1, <1>2, SMT
<1> QED BY <1>2, <1>3, InRange

(* Int16 numbers.                                                          *)
LEMMA AsInt16Is ==
  ASSUME NEW n \in Int, -32768 <= n, n <= 32767
  PROVE  AsInt16(n) = n
<1>1. n >= 0 => n % W = n /\ n % W < W \div 2
  BY SMT DEF W
<1>2. n < 0 => n % W = n + 65536 /\ ~(n % W < W \div 2)
  BY SMT DEF W
<1>3. W = 65536
  BY WIs
<1> QED BY <1>1, <1>2, <1>3, SMT DEF AsInt16

(* Numbers that fit are not changed by the cast.                           *)
LEMMA Int16Is ==
  ASSUME NEW n, n \in Int16
  PROVE  n \in Int /\ -32768 <= n /\ n <= 32767 /\ AsInt16(n) = n
<1> DEFINE lo == -(W \div 2)
           hi == W \div 2 - 1
<1>0. lo = -32768 /\ hi = 32767
  BY SMT DEF W
<1>1. n \in Int /\ -32768 <= n /\ n <= 32767
  <2>1. \A a, b \in Int : n \in a..b => n \in Int /\ a <= n /\ n <= b
    BY SMT
  <2>2. n \in lo..hi
    BY Zenon DEF Int16
  <2>3. lo \in Int /\ hi \in Int
    BY SMT DEF W
  <2> HIDE DEF lo, hi
  <2>4. n \in Int /\ lo <= n /\ n <= hi
    BY <2>1, <2>2, <2>3
  <2> QED BY <1>0, <2>4, SMT
<1> QED BY <1>1, AsInt16Is

LEMMA LimitIs ==
  ASSUME NEW lo \in Int, NEW hi \in Int, lo <= hi, NEW v \in Int
  PROVE  /\ LimitValue(lo, v, hi) = IF v > hi THEN hi ELSE IF v < lo THEN lo ELSE v
         /\ LimitValue(lo, v, hi) \in lo..hi
BY SMT DEF LimitValue

LEMMA StepsStay ==
  ASSUME NEW value \in Int, NEW min \in Int, NEW steps \in Int, NEW delta \in Int, NEW step \in 1..127,
         value = min + steps * step
  PROVE  ((value + delta * step) - min) % step = 0
<1>1. (value + delta * step) - min = (steps + delta) * step
  BY SMT
<1>2. \A a \in Int : (a * step) % step = 0
  BY SMT
<1>3. steps + delta \in Int
  BY SMT
<1> QED BY <1>1, <1>2, <1>3

(* Within int16_t no step of BDB_changeValue() wraps around, and the new   *)
(* value is one of the column's.                                           *)
LEMMA ChangedIs ==
  ASSUME NEW column, ColumnIs(column), NEW value, ValueConforms(column, value), NEW delta \in Int,
         column.max \in Int16, delta * column.step \in Int16, value + delta * column.step \in Int16
  PROVE  /\ Changed(column, value, delta) = Truncated(column, value + delta * column.step)
         /\ ValueConforms(column, Changed(column, value, delta))
         /\ Changed(column, value, delta) % W = Changed(column, value, delta)
         /\ AsInt16(value) = value
<1> DEFINE min == column.min
           max == column.max
           step == column.step
           next == value + delta * step
           new == LimitValue(min, next, max)
           steps == (value - min) \div step
<1>1. /\ min \in Nat /\ max \in Nat /\ step \in 1..127 /\ min <= max /\ (max - min) % step = 0
  BY ColumnRange DEF ColumnIs
<1>2. value = min + steps * step /\ value \in min..max
  BY DEF ValueConforms
<1>3. max \in Int /\ max <= 32767 /\ AsInt16(max) = max
  BY Int16Is
<1>4. AsInt16(delta * step) = delta * step /\ next \in Int /\ AsInt16(next) = next
  BY Int16Is
<1>5. steps \in Int /\ value \in Int
  <2>1. value - min \in Int /\ value \in Int
    BY <1>1, <1>2, SMT
  <2> QED BY <1>1, <2>1, SMT
<1>6. (next - min) % step = 0
  <2> HIDE DEF min, step, steps
  <2> QED BY <1>1, <1>2, <1>5, StepsStay
<1> HIDE DEF min, max, step, next, steps
<1>7. AsInt16(min) = min /\ AsInt16(value) = value
  <2>1. min \in Int /\ -32768 <= min /\ min <= 32767 /\ value \in Int /\ -32768 <= value /\ value <= 32767
    BY <1>1, <1>2, <1>3, SMT
  <2> QED BY <2>1, AsInt16Is
<1>8. Changed(column, value, delta) = new
  BY <1>3, <1>4, <1>7 DEF Changed, min, max, step, next
<1>9. /\ new = IF next > max THEN max ELSE IF next < min THEN min ELSE next
      /\ new \in min..max
  <2>1. min \in Int
    BY <1>1, SMT
  <2>2. new = LimitValue(min, next, max)
    OBVIOUS
  <2> HIDE DEF new
  <2>3. min \in Int /\ max \in Int /\ min <= max /\ next \in Int
    BY <1>1, <1>3, <1>4, <2>1
  <2>4. LimitValue(min, next, max)
          = IF next > max THEN max ELSE IF next < min THEN min ELSE next
    BY <2>3, LimitIs, Zenon
  <2>5. LimitValue(min, next, max) \in min..max
    BY <2>3, LimitIs, Zenon
  <2> QED BY <2>2, <2>4, <2>5
<1> HIDE DEF new
<1>10. (new - min) % step = 0
  <2>1. new = max \/ new = min \/ new = next
    BY <1>9
  <2>2. (min - min) % step = 0
    BY <1>1, SMT
  <2> QED BY <1>1, <1>6, <2>1, <2>2
<1>11. ValueConforms(column, new)
  BY <1>9, <1>10, MultipleConforms DEF min, max, step
<1>12. new % W = new
  <2>1. new \in Nat /\ new <= 32767
    BY <1>1, <1>3, <1>9, SMT
  <2> QED BY <2>1, SMT DEF W
<1>13. new = Truncated(column, next)
  BY <1>9 DEF Truncated, min, max
<1> QED BY <1>7, <1>8, <1>11, <1>12, <1>13 DEF next, step

-----------------------------------------------------------------------------
(***************************************************************************)
(* Columns set one by one, to defaults, or all at once.                    *)
(***************************************************************************)
Defaulted(table, columns, start) ==
  LET def == Def(table, columns) IN
  [i \in DOMAIN columns |->
     IF i \notin DOMAIN def \/ i < start THEN columns[i]
     ELSE IF def[i].virtual THEN INVALID_VALUE ELSE def[i].default]

(* The record type is a value of the first column.                         *)
LEMMA TypeConforms ==
  ASSUME NEW table \in Tables, Len(table) > 1, NEW v \in Nat, v + 1 \in DOMAIN table
  PROVE  ValueConforms(TypeColumn(Len(table)), v)
<1> DEFINE n == Len(table)
<1>1. n \in Nat /\ DOMAIN table = 1..n
  BY TablesAre DEF TableIs
<1> HIDE DEF n
<1>2. v <= n - 1 /\ v \in 0..(n - 1) /\ v = 0 + ((v - 0) \div 1) * 1
  BY <1>1, SMT
<1> QED BY <1>2 DEF ValueConforms, TypeColumn, n

(* setColumnsToDefaultValue(), with or without a record type that has been *)
(* set before, leaves a record of that type.                               *)
LEMMA DefaultsFit ==
  ASSUME NEW table \in Tables, NEW columns, ColumnsFit(table, columns), NEW start \in {1, 2},
         start = 2 => Len(table) > 1,
         start = 1 /\ Len(table) > 1 => columns[1] = 0
  PROVE  /\ ColumnsFit(table, Defaulted(table, columns, start))
         /\ Conforming(table, Defaulted(table, columns, start))
<1> DEFINE type == TypeOf(table, columns)
           def  == table[type]
           m    == MaxColumns(table)
           new  == Defaulted(table, columns, start)
<1>1. type \in DOMAIN table /\ columns \in [1..m -> 0..(W - 1)]
  BY DEF ColumnsFit
<1>2. /\ DOMAIN def = 1..Len(def) /\ Len(def) \in Nat /\ 1 \in DOMAIN def
      /\ DOMAIN def \subseteq 1..m
      /\ \A i \in DOMAIN def : ColumnIs(def[i])
      /\ Len(table) > 1 => def[1] = TypeColumn(Len(table))
  BY <1>1, TypeIs
<1>3. new = [i \in 1..m |-> IF i \notin DOMAIN def \/ i < start THEN columns[i]
                            ELSE IF def[i].virtual THEN INVALID_VALUE ELSE def[i].default]
  BY <1>1 DEF Defaulted, Def
<1> HIDE DEF new
<1>4. INVALID_VALUE \in 0..(W - 1)
  <2>1. 65535 \in Nat /\ 65535 <= 65535
    BY SMT
  <2> QED BY <2>1, InRange DEF INVALID_VALUE
<1>5. \A i \in DOMAIN def : def[i].default \in 0..(W - 1) /\ ValueConforms(def[i], def[i].default)
  BY <1>2, DefaultConforms
<1>6. new \in [1..m -> 0..(W - 1)]
  <2>1. \A i \in 1..m : new[i] \in 0..(W - 1)
    BY <1>1, <1>3, <1>4, <1>5
  <2>2. new = [i \in 1..m |-> new[i]]
    BY <1>3
  <2> QED BY <2>1, <2>2
<1>7. Len(table) > 1 => new[1] = columns[1]
  <2> SUFFICES ASSUME Len(table) > 1 PROVE new[1] = columns[1]
    OBVIOUS
  <2>1. 1 \in 1..m
    BY <1>2
  <2>2. CASE start = 2
    <3>1. 1 < 2
      BY SMT
    <3> QED BY <1>3, <2>1, <2>2, <3>1
  <2>3. CASE start = 1
    <3>1. ~(1 < 1)
      BY SMT
    <3>2. ~def[1].virtual /\ def[1].default = 0
      BY <1>2 DEF TypeColumn
    <3> QED BY <1>2, <1>3, <2>1, <2>3, <3>1, <3>2
  <2> QED BY <2>2, <2>3
<1>8. TypeOf(table, new) = type
  BY <1>7 DEF TypeOf
<1>9. ASSUME NEW i \in DOMAIN def, ~def[i].virtual
      PROVE  ValueConforms(def[i], new[i])
  <2>1. i \in 1..m /\ i \in Nat
    BY <1>2
  <2>2. CASE i < start
    <3>1. i = 1 /\ start = 2
      BY <1>2, <2>1, <2>2, SMT
    <3>2. Len(table) > 1 /\ new[1] = columns[1] /\ def[1] = TypeColumn(Len(table))
      BY <1>2, <1>7, <3>1
    <3>3. columns[1] + 1 \in DOMAIN table
      BY <1>1, <3>2 DEF TypeOf
    <3>4. columns[1] \in Nat
      <4>1. columns[1] \in 0..(W - 1)
        BY <1>1, <1>2
      <4>2. \A v \in 0..(W - 1) : v \in Nat
        BY WIs, SMT
      <4> QED BY <4>1, <4>2, Zenon
    <3> QED BY <3>1, <3>2, <3>3, <3>4, TypeConforms
  <2>3. CASE ~(i < start)
    BY <1>3, <1>5, <1>9, <2>1, <2>3
  <2> QED BY <2>2, <2>3
<1>10. Conforming(table, new)
  BY <1>8, <1>9 DEF Conforming, Def
<1> QED BY <1>1, <1>6, <1>8, <1>10 DEF ColumnsFit, new

(* setValue() of a column that is not the record type.                     *)
LEMMA SetFits ==
  ASSUME NEW table \in Tables, NEW columns, ColumnsFit(table, columns), Conforming(table, columns),
         NEW i \in DOMAIN Def(table, columns), ~(i = 1 /\ Len(table) > 1),
         NEW value, ValueConforms(Def(table, columns)[i], value)
  PROVE  /\ ColumnsFit(table, [columns EXCEPT ![i] = value])
         /\ Conforming(table, [columns EXCEPT ![i] = value])
<1> DEFINE type == TypeOf(table, columns)
           def  == table[type]
           m    == MaxColumns(table)
           new  == [columns EXCEPT ![i] = value]
<1>1. type \in DOMAIN table /\ columns \in [1..m -> 0..(W - 1)] /\ i \in DOMAIN def
  BY DEF ColumnsFit, Def
<1>2. /\ 1 \in 1..m /\ DOMAIN def \subseteq 1..m
      /\ \A j \in DOMAIN def : ColumnIs(def[j])
  BY <1>1, TypeIs
<1>3. value \in 0..(W - 1)
  BY <1>1, <1>2, ConformingFits DEF Def
<1>4. new \in [1..m -> 0..(W - 1)]
  BY <1>1, <1>3
<1>5. \A j \in 1..m : new[j] = IF j = i THEN value ELSE columns[j]
  BY <1>1
<1> HIDE DEF new
<1>6. TypeOf(table, new) = type
  BY <1>2, <1>5 DEF TypeOf
<1>7. \A j \in DOMAIN def : def[j].virtual \/ ValueConforms(def[j], new[j])
  BY <1>2, <1>5 DEF Conforming, Def
<1> QED BY <1>1, <1>4, <1>6, <1>7 DEF ColumnsFit, Conforming, Def, new

(* setValue() of the record type.                                          *)
LEMMA SetTypeFits ==
  ASSUME NEW table \in Tables, NEW columns, ColumnsFit(table, columns), Len(table) > 1,
         NEW value, ValueConforms(Def(table, columns)[1], value)
  PROVE  ColumnsFit(table, [columns EXCEPT ![1] = value])
<1> DEFINE type == TypeOf(table, columns)
           m    == MaxColumns(table)
           n    == Len(table)
           new  == [columns EXCEPT ![1] = value]
<1>1. type \in DOMAIN table /\ columns \in [1..m -> 0..(W - 1)]
  BY DEF ColumnsFit
<1>2. /\ 1 \in 1..m /\ table[type][1] = TypeColumn(n)
      /\ 1 \in DOMAIN table[type] /\ ColumnIs(table[type][1])
  BY <1>1, TypeIs
<1>3. value \in 0..(W - 1)
  BY <1>1, <1>2, ConformingFits DEF Def
<1>4. value \in 0..(n - 1)
  BY <1>2 DEF Def, ValueConforms, TypeColumn
<1>5. n \in Nat /\ DOMAIN table = 1..n
  BY TablesAre DEF TableIs
<1>6. new \in [1..m -> 0..(W - 1)] /\ new[1] = value
  BY <1>1, <1>2, <1>3
<1>7. value + 1 \in 1..n
  <2> HIDE DEF n
  <2> QED BY <1>4, <1>5, SMT
<1> HIDE DEF new
<1>8. TypeOf(table, new) = value + 1
  BY <1>6 DEF TypeOf
<1> QED BY <1>5, <1>6, <1>7, <1>8 DEF ColumnsFit, new

(* The columns of another record take the place of those that are not      *)
(* virtual.                                                                *)
Taken(table, columns, data) ==
  [i \in 1..MaxColumns(table) |->
     IF i \notin DOMAIN data \/ Def(table, data)[i].virtual THEN columns[i] ELSE data[i]]

(* BDB_setRecord() leaves a record of the data's type, even when the data  *)
(* is then refused.                                                        *)
LEMMA TakenFits ==
  ASSUME NEW table \in Tables, NEW columns, ColumnsFit(table, columns), NEW data, IsRecord(table, data)
  PROVE  /\ ColumnsFit(table, Taken(table, columns, data))
         /\ Conforming(table, data) => Conforming(table, Taken(table, columns, data))
<1> DEFINE type == TypeOf(table, data)
           def  == table[type]
           m    == MaxColumns(table)
           new  == Taken(table, columns, data)
<1>1. /\ type \in DOMAIN table /\ columns \in [1..m -> 0..(W - 1)]
      /\ data \in Seq(0..(W - 1)) /\ Len(data) = Len(def)
  BY DEF ColumnsFit, IsRecord, Def
<1>2. /\ DOMAIN def = 1..Len(def) /\ 1 \in DOMAIN def /\ DOMAIN def \subseteq 1..m
      /\ 1 \in 1..m /\ Len(table) > 1 => def[1] = TypeColumn(Len(table))
  BY <1>1, TypeIs
<1>3. DOMAIN data = DOMAIN def /\ \A i \in DOMAIN def : data[i] \in 0..(W - 1)
  <2>1. DOMAIN data = 1..Len(data) /\ \A i \in 1..Len(data) : data[i] \in 0..(W - 1)
    BY <1>1, LenProperties, ElementOfSeq
  <2> QED BY <1>1, <1>2, <2>1
<1>4. new = [i \in 1..m |-> IF i \notin DOMAIN def \/ def[i].virtual THEN columns[i] ELSE data[i]]
  BY <1>3 DEF Taken, Def
<1> HIDE DEF new
<1>5. new \in [1..m -> 0..(W - 1)]
  <2>1. \A i \in 1..m : new[i] \in 0..(W - 1)
    BY <1>1, <1>3, <1>4
  <2>2. new = [i \in 1..m |-> new[i]]
    BY <1>4
  <2> QED BY <2>1, <2>2
<1>6. TypeOf(table, new) = type
  <2>1. CASE Len(table) > 1
    <3>1. ~def[1].virtual
      BY <1>2, <2>1 DEF TypeColumn
    <3>2. new[1] = data[1]
      BY <1>2, <1>4, <3>1
    <3> QED BY <3>2, SameType
  <2>2. CASE ~(Len(table) > 1)
    BY <2>2 DEF TypeOf
  <2> QED BY <2>1, <2>2
<1>7. Conforming(table, data) => \A i \in DOMAIN def : def[i].virtual \/ ValueConforms(def[i], new[i])
  BY <1>2, <1>4 DEF Conforming, Def
<1> QED BY <1>1, <1>5, <1>6, <1>7 DEF ColumnsFit, Conforming, Def, new

-----------------------------------------------------------------------------
(***************************************************************************)
(* The inductive invariant.                                                *)
(***************************************************************************)
BufferFits(table, b) ==
  /\ b \in [columns : [1..MaxColumns(table) -> 0..(W - 1)], isRecord0 : BOOLEAN, isModified : BOOLEAN]
  /\ ColumnsFit(table, b.columns)
  /\ b.isModified => b.isRecord0
  /\ b.isRecord0 => Conforming(table, b.columns)

Clean(table, b, bytes) ==
  b.isRecord0 /\ ~b.isModified => Same(table, b.columns, Decoded(table, bytes))

ColumnInv ==
  /\ tableDef \in Tables
  /\ BufferFits(tableDef, buffer)
  /\ RawFits(tableDef, rawRecord)
  /\ StoredConforms(tableDef, stored)
  /\ Clean(tableDef, buffer, stored)

LEMMA ZeroRaw ==
  ASSUME NEW table \in Tables
  PROVE  RawFits(table, [k \in 1..MaxRecordSize(table) |-> 0])
<1>1. MaxRecordSize(table) \in Nat
  BY TablesAre, Room
<1> DEFINE raw == [k \in 1..MaxRecordSize(table) |-> 0]
<1>2. raw \in [1..MaxRecordSize(table) -> {0}]
  OBVIOUS
<1>3. DOMAIN raw = 1..MaxRecordSize(table)
  OBVIOUS
<1> HIDE DEF raw
<1>4. Len(raw) = MaxRecordSize(table)
  BY <1>1, <1>2, SeqOfFunction
<1> QED BY <1>3, <1>4 DEF RawFits, raw

LEMMA SameRaw ==
  ASSUME NEW table \in Tables, NEW raw, RawFits(table, raw), NEW byte
  PROVE  RawFits(table, [k \in DOMAIN raw |-> byte])
<1>1. MaxRecordSize(table) \in Nat
  BY TablesAre, Room
<1> DEFINE new == [k \in DOMAIN raw |-> byte]
<1>2. DOMAIN raw = 1..MaxRecordSize(table)
  BY DEF RawFits
<1>3. new \in [1..MaxRecordSize(table) -> {byte}] /\ DOMAIN new = 1..MaxRecordSize(table)
  BY <1>2
<1> HIDE DEF new
<1>4. Len(new) = MaxRecordSize(table)
  BY <1>1, <1>3, SeqOfFunction
<1> QED BY <1>3, <1>4 DEF RawFits, new

(* A buffer of zeros, which is a record of the first type.                 *)
LEMMA ZerosFit ==
  ASSUME NEW table \in Tables, NEW columns, columns = [i \in 1..MaxColumns(table) |-> 0]
  PROVE  ColumnsFit(table, columns) /\ columns[1] = 0
<1>1. /\ TableIs(table) /\ 1 \in DOMAIN table
  <2>1. TableIs(table)
    BY TablesAre
  <2>2. Len(table) \in Nat /\ Len(table) >= 1 /\ DOMAIN table = 1..Len(table)
    BY <2>1 DEF TableIs
  <2>3. \A n \in Nat : n >= 1 => 1 \in 1..n
    BY SMT
  <2> QED BY <2>1, <2>2, <2>3
<1>2. 1 \in 1..MaxColumns(table)
  BY <1>1, TypeIs
<1>3. 0 \in 0..(W - 1)
  <2>1. 0 \in Nat /\ 65535 \in Nat /\ 0 <= 65535 /\ 65535 <= 65535
    BY SMT
  <2> QED BY <2>1, InRange
<1>4. columns \in [1..MaxColumns(table) -> 0..(W - 1)] /\ columns[1] = 0
  BY <1>2, <1>3
<1>5. TypeOf(table, columns) = 1
  <2>1. 0 + 1 = 1
    BY SMT
  <2> QED BY <1>4, <2>1 DEF TypeOf
<1> QED BY <1>1, <1>4, <1>5 DEF ColumnsFit

(* storeRecordBuffer(): the store then holds what was stored.              *)
LEMMA StoreKeeps ==
  ASSUME ColumnInv, NEW columns, ColumnsFit(tableDef, columns), Conforming(tableDef, columns),
         Store(columns)
  PROVE  /\ RawFits(tableDef, rawRecord')
         /\ StoredConforms(tableDef, stored')
         /\ Same(tableDef, columns, Decoded(tableDef, stored'))
<1> DEFINE over == EncodedOver(tableDef, columns, rawRecord)
<1>1. tableDef \in Tables /\ RawFits(tableDef, rawRecord)
  BY DEF ColumnInv
<1>2. /\ RawFits(tableDef, over) /\ StoredConforms(tableDef, over)
      /\ Same(tableDef, columns, Decoded(tableDef, over))
  BY <1>1, StoreBack
<1> HIDE DEF over
<1>3. rawRecord' = over /\ stored' = over
  BY DEF Store, over
<1> QED BY <1>2, <1>3

(* writeRecordBufferIfDirty(): whether or not it writes, the record in the *)
(* buffer is stored.                                                       *)
LEMMA WriteKeeps ==
  ASSUME ColumnInv, WriteIfDirty
  PROVE  /\ RawFits(tableDef, rawRecord')
         /\ StoredConforms(tableDef, stored')
         /\ buffer.isRecord0 => Same(tableDef, buffer.columns, Decoded(tableDef, stored'))
<1>1. CASE buffer.isModified
  <2>1. Store(buffer.columns)
    BY <1>1 DEF WriteIfDirty
  <2>2. ColumnsFit(tableDef, buffer.columns) /\ Conforming(tableDef, buffer.columns)
    BY <1>1 DEF ColumnInv, BufferFits
  <2> QED BY <2>1, <2>2, StoreKeeps
<1>2. CASE ~buffer.isModified
  <2>1. rawRecord' = rawRecord /\ stored' = stored
    BY <1>2 DEF WriteIfDirty, StoreNothing
  <2> QED BY <1>2, <2>1 DEF ColumnInv, Clean
<1> QED BY <1>1, <1>2

(* fillRecordBuffer(): what BDB_setValue() goes on with conforms.          *)
LEMMA FilledIs ==
  ASSUME ColumnInv
  PROVE  /\ BufferFits(tableDef, Filled)
         /\ Filled.isRecord0
         /\ Conforming(tableDef, Filled.columns)
         /\ Clean(tableDef, Filled, stored)
<1>1. CASE buffer.isRecord0
  <2>1. Filled = buffer
    BY <1>1 DEF Filled
  <2> QED BY <1>1, <2>1 DEF ColumnInv, BufferFits
<1>2. CASE ~buffer.isRecord0
  <2> DEFINE over == DecodedOver(buffer.columns, stored)
             data == Decoded(tableDef, stored)
  <2>1. /\ tableDef \in Tables
        /\ buffer.columns \in [1..MaxColumns(tableDef) -> 0..(W - 1)]
        /\ IsRecord(tableDef, data) /\ Conforming(tableDef, data)
    BY DEF ColumnInv, BufferFits, StoredConforms
  <2>2. over = [i \in DOMAIN buffer.columns |-> IF i \in DOMAIN data THEN data[i] ELSE buffer.columns[i]]
    BY DEF DecodedOver
  <2>3. Filled = [columns |-> over, isRecord0 |-> TRUE, isModified |-> FALSE]
    BY <1>2 DEF Filled
  <2> HIDE DEF over, data
  <2>4. ColumnsFit(tableDef, over) /\ Conforming(tableDef, over) /\ Same(tableDef, over, data)
    BY <2>1, <2>2, FillFits
  <2>5. over \in [1..MaxColumns(tableDef) -> 0..(W - 1)]
    BY <2>4 DEF ColumnsFit
  <2> QED BY <2>3, <2>4, <2>5 DEF BufferFits, Clean, data
<1> QED BY <1>1, <1>2

LEMMA LeaveKeeps ==
  ASSUME ColumnInv, NEW b, b = Filled, LeaveAlone(b), UNCHANGED tableDef
  PROVE  ColumnInv'
<1>1. buffer' = b /\ rawRecord' = rawRecord /\ stored' = stored /\ tableDef' = tableDef
  BY DEF LeaveAlone, StoreNothing
<1>2. BufferFits(tableDef, b) /\ Clean(tableDef, b, stored)
  BY FilledIs
<1>3. tableDef \in Tables /\ RawFits(tableDef, rawRecord) /\ StoredConforms(tableDef, stored)
  BY DEF ColumnInv
<1> QED BY <1>1, <1>2, <1>3 DEF ColumnInv

(* A value that conforms, set in a column or as the record type.           *)
LEMMA AssignKeeps ==
  ASSUME ColumnInv, NEW b, b = Filled, NEW i \in Columns(b), NEW value,
         ValueConforms(RecordDef(b.columns)[i], value),
         Assign(b, i, value), UNCHANGED tableDef
  PROVE  ColumnInv'
<1> DEFINE columns  == [b.columns EXCEPT ![i] = value]
           complete == IF IsRecordType(i) THEN WithDefaults(columns, 2) ELSE columns
<1>1. /\ buffer' = [b EXCEPT !.columns = complete, !.isModified = TRUE]
      /\ IF IsRecordType(i) THEN Store(complete) ELSE StoreNothing
  BY DEF Assign
<1>2. /\ BufferFits(tableDef, b) /\ b.isRecord0 /\ Conforming(tableDef, b.columns)
      /\ ColumnsFit(tableDef, b.columns)
  BY FilledIs DEF BufferFits
<1>3. tableDef \in Tables /\ RawFits(tableDef, rawRecord) /\ StoredConforms(tableDef, stored)
  BY DEF ColumnInv
<1>4. /\ i \in DOMAIN Def(tableDef, b.columns)
      /\ ValueConforms(Def(tableDef, b.columns)[i], value)
  BY DEF Columns, RecordDef, Def
<1> HIDE DEF columns
<1>5. /\ ColumnsFit(tableDef, complete) /\ Conforming(tableDef, complete)
      /\ RawFits(tableDef, rawRecord') /\ StoredConforms(tableDef, stored')
  <2>1. CASE IsRecordType(i)
    <3>1. i = 1 /\ Len(tableDef) > 1
      BY <2>1 DEF IsRecordType
    <3>2. ColumnsFit(tableDef, columns)
      BY <1>2, <1>3, <1>4, <3>1, SetTypeFits DEF columns
    <3>3. complete = Defaulted(tableDef, columns, 2)
      BY <2>1 DEF WithDefaults, Defaulted, RecordDef, Def
    <3>4. ColumnsFit(tableDef, complete) /\ Conforming(tableDef, complete)
      <4>1. 2 # 1 /\ 2 \in {1, 2}
        BY SMT
      <4> QED BY <1>3, <3>1, <3>2, <3>3, <4>1, DefaultsFit
    <3>5. Store(complete)
      BY <1>1, <2>1
    <3> HIDE DEF complete
    <3> QED BY <3>4, <3>5, StoreKeeps
  <2>2. CASE ~IsRecordType(i)
    <3>1. ~(i = 1 /\ Len(tableDef) > 1)
      BY <2>2 DEF IsRecordType
    <3>2. complete = columns
      BY <2>2
    <3>3. ColumnsFit(tableDef, columns) /\ Conforming(tableDef, columns)
      BY <1>2, <1>3, <1>4, <3>1, SetFits DEF columns
    <3>4. rawRecord' = rawRecord /\ stored' = stored
      BY <1>1, <2>2 DEF StoreNothing
    <3> QED BY <1>3, <3>2, <3>3, <3>4
  <2> QED BY <2>1, <2>2
<1> HIDE DEF complete
<1>6. complete \in [1..MaxColumns(tableDef) -> 0..(W - 1)]
  BY <1>5 DEF ColumnsFit
<1>7. /\ buffer' \in [columns : [1..MaxColumns(tableDef) -> 0..(W - 1)], isRecord0 : BOOLEAN,
                      isModified : BOOLEAN]
      /\ buffer'.columns = complete /\ buffer'.isRecord0 /\ buffer'.isModified
  BY <1>1, <1>2, <1>6 DEF BufferFits
<1>8. BufferFits(tableDef, buffer') /\ Clean(tableDef, buffer', stored')
  BY <1>5, <1>7 DEF BufferFits, Clean
<1> QED BY <1>3, <1>5, <1>8 DEF ColumnInv

LEMMA SetValueKeeps ==
  ASSUME ColumnInv, NEW b, b = Filled, NEW i \in Columns(b), NEW value, SetValue(b, i, value)
  PROVE  ColumnInv'
<1> DEFINE column == RecordDef(b.columns)[i]
<1>1. UNCHANGED tableDef
  BY DEF SetValue
<1>2. CASE column.virtual \/ ~IsValid(column, value)
  <2>1. LeaveAlone(b)
    BY <1>2 DEF SetValue
  <2> QED BY <1>1, <2>1, LeaveKeeps
<1>3. CASE ~(column.virtual \/ ~IsValid(column, value))
  <2>1. Assign(b, i, value)
    BY <1>3 DEF SetValue
  <2>2. ColumnIs(column)
    <3>1. tableDef \in Tables /\ TypeOf(tableDef, b.columns) \in DOMAIN tableDef
      BY FilledIs DEF ColumnInv, BufferFits, ColumnsFit
    <3> QED BY <3>1, TypeIs DEF Columns, RecordDef
  <2>3. value \in column.min..column.max /\ (value - column.min) % column.step = 0
    BY <1>3 DEF IsValid, IsStep
  <2>4. ValueConforms(column, value)
    BY <2>2, <2>3, MultipleConforms
  <2> QED BY <1>1, <2>1, <2>4, AssignKeeps
<1> QED BY <1>2, <1>3

(* Within int16_t a change arrives at a value of the column, and never     *)
(* wraps around.                                                           *)
LEMMA DeltaIs ==
  ASSUME ColumnInv, NEW b, b = Filled, NEW i \in Columns(b), NEW delta \in Deltas(RecordDef(b.columns)[i])
  PROVE  delta \in Int /\ ColumnIs(RecordDef(b.columns)[i])
<1> DEFINE type == TypeOf(tableDef, b.columns)
<1>1. tableDef \in Tables /\ type \in DOMAIN tableDef
  BY FilledIs DEF ColumnInv, BufferFits, ColumnsFit
<1>2. i \in DOMAIN tableDef[type] /\ delta \in Deltas(tableDef[type][i])
  BY DEF Columns, RecordDef
<1>3. ColumnIs(tableDef[type][i])
  BY <1>1, <1>2, TypeIs
<1>4. Deltas(tableDef[type][i]) \subseteq -(W \div 2)..(W \div 2 - 1)
  BY <1>1, <1>2, ColumnValuesAssumption, Zenon
<1>5. delta \in Int16
  BY <1>2, <1>4 DEF Int16
<1> QED BY <1>3, <1>5, Int16Is DEF RecordDef

(* What a change within int16_t comes to in the record of the buffer.      *)
LEMMA ChangeIs ==
  ASSUME ColumnInv, NEW b, b = Filled, NEW i \in Columns(b), NEW delta \in Deltas(RecordDef(b.columns)[i]),
         FitsInt16(b, i, delta), ~RecordDef(b.columns)[i].virtual
  PROVE  LET column == RecordDef(b.columns)[i]
             new    == Changed(column, b.columns[i], delta)
         IN /\ new = Truncated(column, b.columns[i] + delta * column.step)
            /\ ValueConforms(column, new)
            /\ new % W = new
            /\ AsInt16(b.columns[i]) = b.columns[i]
<1> DEFINE column == RecordDef(b.columns)[i]
           value  == b.columns[i]
<1>1. ValueConforms(column, value)
  BY FilledIs DEF Conforming, Def, RecordDef, Columns
<1>2. column.max \in Int16 /\ delta * column.step \in Int16 /\ value + delta * column.step \in Int16
  BY DEF FitsInt16
<1>3. delta \in Int /\ ColumnIs(column)
  BY DeltaIs
<1> HIDE DEF column, value
<1>4. /\ Changed(column, value, delta) = Truncated(column, value + delta * column.step)
      /\ ValueConforms(column, Changed(column, value, delta))
      /\ Changed(column, value, delta) % W = Changed(column, value, delta)
      /\ AsInt16(value) = value
  BY <1>1, <1>2, <1>3, ChangedIs
<1> QED BY <1>4 DEF column, value

LEMMA ChangeKeeps ==
  ASSUME ColumnInv, NEW b, b = Filled, NEW i \in Columns(b), NEW delta \in Deltas(RecordDef(b.columns)[i]),
         RecordDef(b.columns)[i].virtual \/ FitsInt16(b, i, delta), ChangeValue(b, i, delta)
  PROVE  ColumnInv'
<1> DEFINE column   == RecordDef(b.columns)[i]
           value    == b.columns[i]
           newValue == Changed(column, value, delta)
<1>1. UNCHANGED tableDef
  BY DEF ChangeValue
<1>2. CASE column.virtual \/ newValue = AsInt16(value)
  <2>1. LeaveAlone(b)
    BY <1>2 DEF ChangeValue
  <2> QED BY <1>1, <2>1, LeaveKeeps
<1>3. CASE ~(column.virtual \/ newValue = AsInt16(value))
  <2>1. Assign(b, i, newValue % W)
    BY <1>3 DEF ChangeValue
  <2>2. ValueConforms(column, newValue) /\ newValue % W = newValue
    BY <1>3, ChangeIs
  <2> QED BY <1>1, <2>1, <2>2, AssignKeeps
<1> QED BY <1>2, <1>3

LEMMA InitHolds ==
  ASSUME Init
  PROVE  ColumnInv
<1> DEFINE zeros == [i \in 1..MaxColumns(tableDef) |-> 0]
           columns == Defaulted(tableDef, zeros, 1)
           zeroBytes == [k \in 1..MaxRecordSize(tableDef) |-> 0]
<1>1. tableDef \in Tables
  BY DEF Init
<1>2. ColumnsFit(tableDef, zeros) /\ zeros[1] = 0
  BY <1>1, ZerosFit
<1>3. NoRecord.columns = zeros /\ ZeroBytes = zeroBytes
  BY DEF NoRecord, MaxNumColumns, MaxColumns, ZeroBytes
<1>4. WithDefaults(NoRecord.columns, 1) = columns
  BY <1>3 DEF WithDefaults, Defaulted, RecordDef, Def
<1>5. /\ buffer = [columns |-> columns, isRecord0 |-> TRUE, isModified |-> FALSE]
      /\ rawRecord = EncodedOver(tableDef, columns, zeroBytes) /\ stored = rawRecord
  BY <1>3, <1>4 DEF Init
<1>6. RawFits(tableDef, zeroBytes)
  BY <1>1, ZeroRaw
<1>7. ColumnsFit(tableDef, columns) /\ Conforming(tableDef, columns)
  <2> HIDE DEF zeros
  <2>1. 1 # 2 /\ 1 \in {1, 2}
    BY SMT
  <2> QED BY <1>1, <1>2, <2>1, DefaultsFit
<1> HIDE DEF columns, zeroBytes
<1>8. /\ RawFits(tableDef, rawRecord) /\ StoredConforms(tableDef, rawRecord)
      /\ Same(tableDef, columns, Decoded(tableDef, rawRecord))
  BY <1>1, <1>5, <1>6, <1>7, StoreBack
<1>9. columns \in [1..MaxColumns(tableDef) -> 0..(W - 1)]
  BY <1>7 DEF ColumnsFit
<1> QED BY <1>1, <1>5, <1>7, <1>8, <1>9 DEF ColumnInv, BufferFits, Clean

LEMMA NoRecordFits ==
  ASSUME ColumnInv
  PROVE  BufferFits(tableDef, NoRecord) /\ ~NoRecord.isRecord0
<1> DEFINE zeros == [i \in 1..MaxColumns(tableDef) |-> 0]
<1>1. NoRecord = [columns |-> zeros, isRecord0 |-> FALSE, isModified |-> FALSE]
  BY DEF NoRecord, MaxNumColumns, MaxColumns
<1>2. tableDef \in Tables
  BY DEF ColumnInv
<1>3. ColumnsFit(tableDef, zeros)
  BY <1>2, ZerosFit
<1>4. zeros \in [1..MaxColumns(tableDef) -> 0..(W - 1)]
  BY <1>3 DEF ColumnsFit
<1> HIDE DEF zeros
<1>5. /\ NoRecord \in [columns : [1..MaxColumns(tableDef) -> 0..(W - 1)], isRecord0 : BOOLEAN,
                       isModified : BOOLEAN]
      /\ NoRecord.columns = zeros /\ ~NoRecord.isRecord0 /\ ~NoRecord.isModified
  BY <1>1, <1>4
<1> QED BY <1>3, <1>5 DEF BufferFits

(* Data that is refused leaves no record in the buffer, but what was there *)
(* before has been written.                                                *)
LEMMA SetRecordKeeps ==
  ASSUME ColumnInv, NEW data \in Data(tableDef), SetRecord(data)
  PROVE  ColumnInv'
<1> DEFINE columns == Taken(tableDef, buffer.columns, data)
           valid   == Conforms(data)
<1>1. tableDef \in Tables /\ ColumnsFit(tableDef, buffer.columns)
  BY DEF ColumnInv, BufferFits
<1>2. IsRecord(tableDef, data)
  <2>1. data \in Seq(0..(W - 1))
    BY <1>1, ColumnValuesAssumption, Zenon
  <2>2. TypeOf(tableDef, data) \in DOMAIN tableDef
    BY <1>1, ColumnValuesAssumption, Zenon
  <2>3. Len(data) = Len(tableDef[TypeOf(tableDef, data)])
    BY <1>1, ColumnValuesAssumption, Zenon
  <2> QED BY <2>1, <2>2, <2>3 DEF IsRecord, Def
<1>3. /\ WriteIfDirty /\ tableDef' = tableDef
      /\ buffer' = [columns |-> columns, isRecord0 |-> valid, isModified |-> valid]
  BY DEF SetRecord, Taken, MaxNumColumns, MaxColumns, RecordDef, Def
<1>4. valid \in BOOLEAN /\ (valid => Conforming(tableDef, data))
  <2>1. valid \in BOOLEAN
    BY DEF Conforms
  <2>2. \A i \in DOMAIN RecordDef(data) : ColumnIs(RecordDef(data)[i])
    BY <1>1, <1>2, TypeIs DEF IsRecord, RecordDef
  <2>3. ASSUME valid, NEW i \in DOMAIN RecordDef(data), ~RecordDef(data)[i].virtual
        PROVE  ValueConforms(RecordDef(data)[i], data[i])
    <3> DEFINE column == RecordDef(data)[i]
    <3>1. data[i] \in column.min..column.max /\ (data[i] - column.min) % column.step = 0
      BY <2>3 DEF Conforms, IsValid, IsStep
    <3> QED BY <2>2, <3>1, MultipleConforms
  <2> QED BY <2>1, <2>3 DEF Conforming, RecordDef, Def
<1> HIDE DEF valid, columns
<1>5. ColumnsFit(tableDef, columns) /\ (valid => Conforming(tableDef, columns))
  BY <1>1, <1>2, <1>4, TakenFits DEF columns
<1>6. columns \in [1..MaxColumns(tableDef) -> 0..(W - 1)]
  BY <1>5 DEF ColumnsFit
<1>7. BufferFits(tableDef, buffer') /\ Clean(tableDef, buffer', stored')
  BY <1>3, <1>4, <1>5, <1>6 DEF BufferFits, Clean
<1>8. RawFits(tableDef, rawRecord') /\ StoredConforms(tableDef, stored')
  BY <1>3, WriteKeeps
<1> QED BY <1>1, <1>3, <1>7, <1>8 DEF ColumnInv

LEMMA SyncKeeps ==
  ASSUME ColumnInv, SyncTable
  PROVE  ColumnInv'
<1>1. buffer.isRecord0 /\ Store(buffer.columns) /\ tableDef' = tableDef /\ buffer' = buffer
  BY DEF SyncTable
<1>2. ColumnsFit(tableDef, buffer.columns) /\ Conforming(tableDef, buffer.columns)
  BY <1>1 DEF ColumnInv, BufferFits
<1>3. /\ RawFits(tableDef, rawRecord') /\ StoredConforms(tableDef, stored')
      /\ Same(tableDef, buffer.columns, Decoded(tableDef, stored'))
  BY <1>1, <1>2, StoreKeeps
<1> QED BY <1>1, <1>3 DEF ColumnInv, Clean

LEMMA AccessKeeps ==
  ASSUME ColumnInv, AccessOther
  PROVE  ColumnInv'
<1>1. WriteIfDirty /\ tableDef' = tableDef /\ buffer' = NoRecord
  BY DEF AccessOther
<1>2. RawFits(tableDef, rawRecord') /\ StoredConforms(tableDef, stored')
  BY <1>1, WriteKeeps
<1>3. BufferFits(tableDef, NoRecord) /\ Clean(tableDef, NoRecord, stored')
  BY NoRecordFits DEF Clean
<1> QED BY <1>1, <1>2, <1>3 DEF ColumnInv

LEMMA StoreOtherKeeps ==
  ASSUME ColumnInv, NEW byte, StoreOther(byte)
  PROVE  ColumnInv'
<1>1. /\ rawRecord' = [k \in DOMAIN rawRecord |-> byte]
      /\ tableDef' = tableDef /\ buffer' = buffer /\ stored' = stored
  BY DEF StoreOther
<1>2. RawFits(tableDef, rawRecord')
  BY <1>1, SameRaw DEF ColumnInv
<1> QED BY <1>1, <1>2 DEF ColumnInv

LEMMA RestartKeeps ==
  ASSUME ColumnInv, Restart
  PROVE  ColumnInv'
<1>1. buffer' = NoRecord /\ rawRecord' = ZeroBytes /\ tableDef' = tableDef /\ stored' = stored
  BY DEF Restart
<1>2. RawFits(tableDef, ZeroBytes)
  BY ZeroRaw DEF ColumnInv, ZeroBytes
<1>3. BufferFits(tableDef, NoRecord) /\ Clean(tableDef, NoRecord, stored)
  BY NoRecordFits DEF Clean
<1> QED BY <1>1, <1>2, <1>3 DEF ColumnInv

LEMMA StepKeeps ==
  ASSUME ColumnInv, [NextInt16]_vars
  PROVE  ColumnInv'
<1>1. CASE SyncTable
  BY <1>1, SyncKeeps
<1>2. CASE AccessOther
  BY <1>2, AccessKeeps
<1>3. CASE Restart
  BY <1>3, RestartKeeps
<1>4. CASE StoreOther(255)
  BY <1>4, StoreOtherKeeps
<1>5. ASSUME NEW data \in Data(tableDef), SetRecord(data)
      PROVE  ColumnInv'
  BY <1>5, SetRecordKeeps
<1>6. ASSUME NEW i \in Columns(Filled), NEW value, SetValue(Filled, i, value)
      PROVE  ColumnInv'
  BY <1>6, SetValueKeeps
<1>7. ASSUME NEW i \in Columns(Filled), NEW delta \in Deltas(RecordDef(Filled.columns)[i]),
             RecordDef(Filled.columns)[i].virtual \/ FitsInt16(Filled, i, delta),
             ChangeValue(Filled, i, delta)
      PROVE  ColumnInv'
  BY <1>7, ChangeKeeps
<1>8. CASE UNCHANGED vars
  BY <1>8 DEF vars, ColumnInv
<1> QED BY <1>1, <1>2, <1>3, <1>4, <1>5, <1>6, <1>7, <1>8 DEF NextInt16, OtherCalls

(* Whatever is set, changed within int16_t, imported, synced or lost with  *)
(* the power: the buffer and the store always hold records of a type that  *)
(* the table has, with values of its columns, and agree unless the buffer  *)
(* is marked as modified.                                                  *)
THEOREM ColumnInvariant == SpecInt16 => []ColumnInv
<1>1. Init => ColumnInv
  BY InitHolds
<1>2. ColumnInv /\ [NextInt16]_vars => ColumnInv'
  BY StepKeeps
<1> QED BY <1>1, <1>2, PTL DEF SpecInt16

LEMMA ConformingIs ==
  ASSUME NEW columns
  PROVE  Conforming(tableDef, columns) => ConformingRecord(columns)
BY DEF Conforming, ConformingRecord, ValueConforms, Def, RecordDef

LEMMA SameRealIs ==
  ASSUME NEW columns, NEW others
  PROVE  Same(tableDef, columns, others) => SameReal(columns, others)
BY DEF Same, SameReal, IsReal, Def, RecordDef

(* Whatever calls are made, the record in the buffer and the record in the *)
(* store conform to the schema, with their steps.                          *)
THEOREM SpecRecordConforms == SpecInt16 => []RecordConforms
<1>1. ColumnInv => RecordConforms
  <2> SUFFICES ASSUME ColumnInv PROVE RecordConforms
    OBVIOUS
  <2>1. TypeOf(tableDef, buffer.columns) \in DOMAIN tableDef
    BY DEF ColumnInv, BufferFits, ColumnsFit
  <2>2. buffer.isRecord0 => ConformingRecord(buffer.columns)
    BY ConformingIs DEF ColumnInv, BufferFits
  <2>3. ConformingRecord(Decoded(tableDef, stored))
    BY ConformingIs DEF ColumnInv, StoredConforms
  <2> QED BY <2>1, <2>2, <2>3 DEF RecordConforms
<1> QED BY <1>1, ColumnInvariant, PTL

(* rc_encodeRecord() writes the packed record of the definition, and       *)
(* rc_decodeRecord() reads back each real column and the record type,      *)
(* whatever is in the raw record buffer.                                   *)
THEOREM SpecRoundTrip == SpecInt16 => []RoundTrip
<1>1. ColumnInv => RoundTrip
  <2> SUFFICES ASSUME ColumnInv, buffer.isRecord0
               PROVE  /\ Encoded(tableDef, buffer.columns) = Packed(tableDef, buffer.columns)
                      /\ SameReal(buffer.columns,
                                  Decoded(tableDef, EncodedOver(tableDef, buffer.columns, rawRecord)))
    BY DEF RoundTrip
  <2>1. /\ tableDef \in Tables /\ RawFits(tableDef, rawRecord)
        /\ ColumnsFit(tableDef, buffer.columns) /\ Conforming(tableDef, buffer.columns)
    BY DEF ColumnInv, BufferFits
  <2>2. /\ Encoded(tableDef, buffer.columns) = Packed(tableDef, buffer.columns)
        /\ Same(tableDef, buffer.columns,
                Decoded(tableDef, EncodedOver(tableDef, buffer.columns, rawRecord)))
    BY <2>1, StoreBack
  <2> QED BY <2>2, SameRealIs
<1> QED BY <1>1, ColumnInvariant, PTL

(* A record in the buffer that is not marked as modified is in the store.  *)
THEOREM SpecCleanIsStored == SpecInt16 => []CleanIsStored
<1>1. ColumnInv => CleanIsStored
  BY SameRealIs DEF ColumnInv, Clean, CleanIsStored
<1> QED BY <1>1, ColumnInvariant, PTL

LEMMA ChangeTruncatesHere ==
  ASSUME ColumnInv, NEW b, b = Filled, NEW i \in Columns(b), NEW delta \in Deltas(RecordDef(b.columns)[i]),
         FitsInt16(b, i, delta), ChangeValue(b, i, delta)
  PROVE  /\ ~RecordDef(b.columns)[i].virtual =>
              buffer'.columns[i] = Truncated(RecordDef(b.columns)[i],
                                             b.columns[i] + delta * RecordDef(b.columns)[i].step)
         /\ ~IsRecordType(i) =>
              \A j \in DOMAIN buffer.columns \ {i} : buffer'.columns[j] = b.columns[j]
<1> DEFINE column   == RecordDef(b.columns)[i]
           value    == b.columns[i]
           newValue == Changed(column, value, delta)
           columns  == [b.columns EXCEPT ![i] = newValue % W]
<1>1. /\ BufferFits(tableDef, b) /\ ColumnsFit(tableDef, b.columns)
      /\ b.columns \in [1..MaxColumns(tableDef) -> 0..(W - 1)]
      /\ tableDef \in Tables /\ TypeOf(tableDef, b.columns) \in DOMAIN tableDef
  BY FilledIs DEF BufferFits, ColumnsFit, ColumnInv
<1>2. i \in 1..MaxColumns(tableDef) /\ i \in Nat /\ DOMAIN buffer.columns = 1..MaxColumns(tableDef)
  <2>1. i \in 1..MaxColumns(tableDef)
    BY <1>1, TypeIs DEF Columns, RecordDef
  <2>2. buffer.columns \in [1..MaxColumns(tableDef) -> 0..(W - 1)]
    BY DEF ColumnInv, BufferFits
  <2> QED BY <2>1, <2>2
<1>3. ~column.virtual =>
        /\ newValue = Truncated(column, value + delta * column.step)
        /\ newValue % W = newValue
        /\ AsInt16(value) = value
  BY ChangeIs
<1>4. CASE column.virtual \/ newValue = AsInt16(value)
  <2>1. buffer' = b
    BY <1>4 DEF ChangeValue, LeaveAlone
  <2> QED BY <1>3, <1>4, <2>1
<1>5. CASE ~(column.virtual \/ newValue = AsInt16(value))
  <2> DEFINE complete == IF IsRecordType(i) THEN WithDefaults(columns, 2) ELSE columns
  <2>1. buffer' = [b EXCEPT !.columns = complete, !.isModified = TRUE]
    BY <1>5 DEF ChangeValue, Assign
  <2>2. columns \in [1..MaxColumns(tableDef) -> 0..(W - 1) \cup {newValue % W}]
    BY <1>1
  <2>3. columns[i] = newValue /\ \A j \in 1..MaxColumns(tableDef) \ {i} : columns[j] = b.columns[j]
    BY <1>1, <1>2, <1>3, <1>5
  <2> HIDE DEF columns
  <2>4. complete[i] = newValue
    <3>1. CASE IsRecordType(i)
      <4>1. i < 2
        BY <3>1, SMT DEF IsRecordType
      <4> QED BY <1>2, <2>2, <2>3, <3>1, <4>1 DEF WithDefaults
    <3>2. CASE ~IsRecordType(i)
      BY <2>3, <3>2
    <3> QED BY <3>1, <3>2
  <2>5. ~IsRecordType(i) => complete = columns
    OBVIOUS
  <2> HIDE DEF complete
  <2>6. buffer'.columns = complete
    BY <1>1, <2>1 DEF BufferFits
  <2> QED BY <1>2, <1>3, <1>5, <2>3, <2>4, <2>5, <2>6
<1> QED BY <1>4, <1>5

(* BDB_changeValue() within int16_t moves a value by its steps or to the   *)
(* limit that it would have passed, and touches no other column unless the *)
(* record type changes.                                                    *)
THEOREM SpecChangesTruncate == SpecInt16 => ChangesTruncate
<1> DEFINE A == LET b == Filled IN
                \A i \in Columns(b) : \A delta \in Deltas(RecordDef(b.columns)[i]) :
                  FitsInt16(b, i, delta) =>
                    /\ ChangeTruncates(b, i, delta)
                    /\ ChangeValue(b, i, delta) /\ ~IsRecordType(i) =>
                         \A j \in DOMAIN buffer.columns \ {i} :
                           buffer'.columns[j] = b.columns[j]
<1>1. ColumnInv => A
  <2> SUFFICES ASSUME ColumnInv, NEW b, b = Filled, NEW i \in Columns(b),
                      NEW delta \in Deltas(RecordDef(b.columns)[i]), FitsInt16(b, i, delta),
                      ChangeValue(b, i, delta)
               PROVE  /\ ~RecordDef(b.columns)[i].virtual =>
                           buffer'.columns[i] = Truncated(RecordDef(b.columns)[i],
                                                          b.columns[i] + delta * RecordDef(b.columns)[i].step)
                      /\ ~IsRecordType(i) =>
                           \A j \in DOMAIN buffer.columns \ {i} : buffer'.columns[j] = b.columns[j]
    BY DEF ChangeTruncates
  <2> QED BY ChangeTruncatesHere
<1> HIDE DEF A
<1>2. ColumnInv /\ [NextInt16]_vars => [A]_vars
  BY <1>1
<1>3. SpecInt16 => [][A]_vars
  BY <1>2, ColumnInvariant, PTL DEF SpecInt16
<1> QED BY <1>3 DEF ChangesTruncate, A
================================================================================
