--------------------------- MODULE HandlersProofs ---------------------------
(***************************************************************************)
(* Proofs about Handlers, for integers of every width and a float64 of any *)
(* precision: what the gauges show.                                        *)
(***************************************************************************)
EXTENDS Handlers, Induction

(* Integers.                                                               *)

\* Division with remainder.
LEMMA DivMod ==
  ASSUME NEW n \in Int, NEW a \in Nat \ {0}
  PROVE  /\ n \div a \in Int /\ n % a \in 0 .. a - 1
         /\ n = a * (n \div a) + (n % a)
OBVIOUS

\* The laws of multiplication that the provers do not find by themselves.
LEMMA Times ==
  ASSUME NEW a \in Int, NEW x \in Int, NEW y \in Int
  PROVE  /\ a * x \in Int /\ a * x = x * a /\ a * (x * y) = (a * x) * y
         /\ a * (x + y) = a * x + a * y /\ a * (x - y) = a * x - a * y
         /\ a * (-x) = -(a * x)
OBVIOUS

\* Multiplying by a positive number keeps the order.
LEMMA TimesMore ==
  ASSUME NEW a \in Nat, NEW x \in Int, NEW y \in Int, x <= y
  PROVE  a * x <= a * y
OBVIOUS

\* A multiple of a that is below another is below it by a.
LEMMA TimesLess ==
  ASSUME NEW a \in Nat, NEW x \in Int, NEW y \in Int, x < y
  PROVE  a * x + a <= a * y
<1>1. x + 1 \in Int /\ x + 1 <= y
  OBVIOUS
<1>2. a * (x + 1) <= a * y
  BY <1>1, TimesMore
<1>3. a * (x + 1) = a * x + a
  OBVIOUS
<1>4. QED
  BY <1>2, <1>3

\* Quotient and remainder are determined by the number.
LEMMA DivModUnique ==
  ASSUME NEW n \in Int, NEW a \in Nat \ {0}, NEW q \in Int, NEW r \in 0 .. a - 1,
         n = a * q + r
  PROVE  n \div a = q /\ n % a = r
<1> DEFINE p == n \div a
           s == n % a
<1>1. p \in Int /\ s \in 0 .. a - 1 /\ n = a * p + s
  BY DivMod
<1> HIDE DEF p, s
<1>2. a * p \in Int /\ a * q \in Int
  BY <1>1
<1>3. ~(p < q)
  <2>1. SUFFICES ASSUME p < q PROVE FALSE
    OBVIOUS
  <2>2. a * p + a <= a * q
    BY <1>1, <2>1, TimesLess
  <2>3. QED
    BY <1>1, <1>2, <2>2
<1>4. ~(q < p)
  <2>1. SUFFICES ASSUME q < p PROVE FALSE
    OBVIOUS
  <2>2. a * q + a <= a * p
    BY <1>1, <2>1, TimesLess
  <2>3. QED
    BY <1>1, <1>2, <2>2
<1>5. p = q
  BY <1>1, <1>3, <1>4
<1>6. s = r
  BY <1>1, <1>2, <1>5
<1>7. QED
  BY <1>5, <1>6 DEF p, s

\* Dividing by a product is dividing by its factors, one after the other, and
\* the quotient of a remainder is the remainder of a quotient.
LEMMA DivByProduct ==
  ASSUME NEW n \in Int, NEW a \in Nat \ {0}, NEW b \in Nat \ {0}
  PROVE  /\ n \div (a * b) = (n \div a) \div b
         /\ (n % (a * b)) \div a = (n \div a) % b
<1> DEFINE q == n \div a
           r == n % a
           p == q \div b
           s == q % b
           t == a * s + r
           c == a * b
<1>1. q \in Int /\ r \in 0 .. a - 1 /\ n = a * q + r
  BY DivMod
<1>2. p \in Int /\ s \in 0 .. b - 1 /\ q = b * p + s
  <2> HIDE DEF q
  <2>1. QED
    BY <1>1, DivMod
<1> HIDE DEF q, r, p, s
<1>3. a * s \in Nat /\ a * q = a * (b * p) + a * s
  BY <1>1, <1>2, Times
<1>4. a * (b * p) = c * p /\ c \in Nat \ {0} /\ c * p \in Int
  BY <1>2
<1>5. a * s + a <= c
  BY <1>2, TimesLess
<1>6. t \in 0 .. c - 1
  BY <1>1, <1>3, <1>4, <1>5
<1>7. n = c * p + t
  BY <1>1, <1>2, <1>3, <1>4
<1> HIDE DEF c, t
<1>8. n \div c = p /\ n % c = t
  BY <1>2, <1>4, <1>6, <1>7, DivModUnique
<1>9. t \div a = s
  BY <1>1, <1>2, <1>3, DivModUnique DEF t
<1>10. QED
  BY <1>8, <1>9 DEF c, p, q, s

\* Taking the remainder by a multiple first makes no difference.
LEMMA ModOfMod ==
  ASSUME NEW n \in Int, NEW a \in Nat \ {0}, NEW b \in Nat \ {0}
  PROVE  (n % (a * b)) % a = n % a
<1> DEFINE c == a * b
           q == n \div c
           m == n % c
           p == m \div a
           r == m % a
<1>1. c \in Nat \ {0}
  OBVIOUS
<1>2. q \in Int /\ m \in 0 .. c - 1 /\ n = c * q + m
  <2> HIDE DEF c
  <2>1. QED
    BY <1>1, DivMod
<1>3. m \in Int
  BY <1>1, <1>2
<1> HIDE DEF q, m
<1>4. p \in Int /\ r \in 0 .. a - 1 /\ m = a * p + r
  BY <1>3, DivMod
<1> HIDE DEF p, r
<1>5. c * q = a * (b * q) /\ b * q \in Int
  BY <1>2
<1>6. a * (b * q + p) = a * (b * q) + a * p
  BY <1>4, <1>5, Times
<1>7. a * (b * q) \in Int /\ a * p \in Int /\ b * q + p \in Int
  BY <1>4, <1>5
<1>8. n = a * (b * q + p) + r
  BY <1>2, <1>4, <1>5, <1>6, <1>7
<1>9. n % a = r
  BY <1>4, <1>7, <1>8, DivModUnique
<1>10. QED
  BY <1>9 DEF r, m, c

-----------------------------------------------------------------------------
(* Powers of two.                                                          *)

\* A sum of exponents is a product of powers.
LEMMA Pow2Sum ==
  \A i, j \in Nat : Pow2[i] \in Nat \ {0} /\ Pow2[i + j] = Pow2[i] * Pow2[j]
<1> SUFFICES ASSUME NEW i \in Nat
             PROVE  \A j \in Nat : Pow2[i] \in Nat \ {0}
                                   /\ Pow2[i + j] = Pow2[i] * Pow2[j]
  OBVIOUS
<1> DEFINE T == {j \in Nat : Pow2[i + j] = Pow2[i] * Pow2[j]}
<1>1. \A n \in Nat : Pow2[n] \in Nat \ {0} /\ Pow2[n + 1] = 2 * Pow2[n]
  BY Pow2Properties
<1>2. 0 \in T
  BY <1>1, Pow2Properties
<1>3. ASSUME NEW j \in Nat, j \in T PROVE j + 1 \in T
  <2>1. i + j \in Nat /\ i + (j + 1) = (i + j) + 1
    OBVIOUS
  <2>2. Pow2[i + (j + 1)] = 2 * (Pow2[i] * Pow2[j])
    BY <1>1, <1>3, <2>1
  <2>3. Pow2[i] * Pow2[j + 1] = Pow2[i] * (2 * Pow2[j])
    BY <1>1
  <2>4. Pow2[i] * (2 * Pow2[j]) = 2 * (Pow2[i] * Pow2[j])
    <3>1. Pow2[i] \in Int /\ Pow2[j] \in Int
      BY <1>1
    <3>2. QED
      BY <3>1
  <2>5. QED
    BY <2>2, <2>3, <2>4
<1> HIDE DEF T
<1>4. \A j \in Nat : j \in T
  BY <1>2, <1>3, InductionOnNat
<1>5. QED
  BY <1>1, <1>4 DEF T

\* A larger exponent gives a larger power, and a multiple.
LEMMA Pow2Order ==
  ASSUME NEW i \in Nat, NEW j \in Nat, i <= j
  PROVE  /\ Pow2[i] <= Pow2[j] /\ j - i \in Nat
         /\ Pow2[j] = Pow2[i] * Pow2[j - i]
<1>1. j - i \in Nat /\ i + (j - i) = j
  OBVIOUS
<1>2. /\ Pow2[i] \in Nat \ {0} /\ Pow2[j - i] \in Nat \ {0}
      /\ Pow2[j] = Pow2[i] * Pow2[j - i]
  BY <1>1, Pow2Sum
<1>3. Pow2[i] * 1 <= Pow2[i] * Pow2[j - i]
  BY <1>2, TimesMore
<1>4. QED
  BY <1>1, <1>2, <1>3

\* The powers that the code writes as numbers.
LEMMA SmallPowers == Pow2[0] = 1 /\ Pow2[1] = 2 /\ Pow2[8] = 256
<1>1. Pow2[0] = 1
  BY Pow2Properties
<1>2. Pow2[0 + 1] = 2 * Pow2[0] /\ Pow2[1 + 1] = 2 * Pow2[1]
      /\ Pow2[2 + 1] = 2 * Pow2[2] /\ Pow2[3 + 1] = 2 * Pow2[3]
      /\ Pow2[4 + 1] = 2 * Pow2[4] /\ Pow2[5 + 1] = 2 * Pow2[5]
      /\ Pow2[6 + 1] = 2 * Pow2[6] /\ Pow2[7 + 1] = 2 * Pow2[7]
  BY Pow2Properties
<1>3. QED
  BY <1>1, <1>2

\* Bit b of n, whatever number of its lowest bits is looked at.
LEMMA BitOfLow ==
  ASSUME NEW n \in Int, NEW w \in Nat, NEW b \in Nat, b < w
  PROVE  ((n % Pow2[w]) \div Pow2[b]) % 2 = (n \div Pow2[b]) % 2
<1> DEFINE B == Pow2[b]
           H == Pow2[w - b - 1]
<1>1. /\ w - b - 1 \in Nat /\ 1 + (w - b - 1) = w - b
      /\ w - b \in Nat /\ b + (w - b) = w
  OBVIOUS
<1>2. B \in Nat \ {0} /\ H \in Nat \ {0}
  BY <1>1, Pow2Sum
<1>3. Pow2[w - b] = 2 * H
  <2>1. Pow2[1 + (w - b - 1)] = Pow2[1] * Pow2[w - b - 1]
    BY <1>1, Pow2Sum
  <2>2. QED
    BY <1>1, <2>1, SmallPowers
<1>4. Pow2[w] = B * (2 * H)
  <2>1. Pow2[b + (w - b)] = Pow2[b] * Pow2[w - b]
    BY <1>1, Pow2Sum
  <2>2. QED
    BY <1>1, <1>3, <2>1
<1> HIDE DEF B, H
<1>5. 2 * H \in Nat \ {0}
  BY <1>2
<1>6. (n % (B * (2 * H))) \div B = (n \div B) % (2 * H)
  BY <1>2, <1>5, DivByProduct
<1>7. n \div B \in Int
  BY <1>2, DivMod
<1>8. ((n \div B) % (2 * H)) % 2 = (n \div B) % 2
  <2> DEFINE d == n \div B
  <2>1. d \in Int /\ 2 \in Nat \ {0}
    BY <1>7
  <2> HIDE DEF d
  <2>2. (d % (2 * H)) % 2 = d % 2
    BY <1>2, <2>1, ModOfMod
  <2>3. QED
    BY <2>2 DEF d
<1>9. QED
  BY <1>4, <1>6, <1>8 DEF B

\* Bit b of n is bit b % 8 of the byte b \div 8.
LEMMA BitOfByte ==
  ASSUME NEW n \in Int, NEW b \in Nat
  PROVE  (((n \div Pow2[8 * (b \div 8)]) % 256) \div Pow2[b % 8]) % 2
           = (n \div Pow2[b]) % 2
<1> DEFINE q == b \div 8
           r == b % 8
           m == n \div Pow2[8 * q]
<1>1. q \in Nat /\ r \in 0 .. 7 /\ b = 8 * q + r /\ 8 * q \in Nat /\ r \in Nat
  OBVIOUS
<1> HIDE DEF q, r
<1>2. Pow2[8 * q] \in Nat \ {0} /\ Pow2[r] \in Nat \ {0}
      /\ Pow2[b] = Pow2[8 * q] * Pow2[r]
  BY <1>1, Pow2Sum
<1>3. m \in Int
  BY <1>2, DivMod
<1>4. n \div Pow2[b] = m \div Pow2[r]
  <2> DEFINE L == Pow2[8 * q]
             R == Pow2[r]
  <2>1. L \in Nat \ {0} /\ R \in Nat \ {0} /\ Pow2[b] = L * R
    BY <1>2
  <2> HIDE DEF L, R
  <2>2. n \div (L * R) = (n \div L) \div R
    BY <2>1, DivByProduct
  <2>3. QED
    BY <2>1, <2>2 DEF L, R
<1> HIDE DEF m
<1>5. ((m % Pow2[8]) \div Pow2[r]) % 2 = (m \div Pow2[r]) % 2
  BY <1>1, <1>3, BitOfLow
<1>6. QED
  BY <1>4, <1>5, SmallPowers DEF m, q, r

-----------------------------------------------------------------------------
(* Bits.                                                                   *)

\* Every type of integer has a whole number of bytes.
LEMMA Widths == \A t \in IntTypes : Width[t] \in {8, 16, 32, 64}
BY DEF Width, IntTypes

\* The encoding of an integer consists of bytes.
LEMMA BytesOf ==
  ASSUME NEW n \in Int, NEW w \in Nat
  PROVE  LittleEndian(n, w) \in Seq(0 .. 255)
<1>1. w \div 8 \in Nat
  OBVIOUS
<1>2. ASSUME NEW i \in 1 .. w \div 8
      PROVE  (n \div Pow2[8 * (i - 1)]) % 256 \in 0 .. 255
  <2> DEFINE p == Pow2[8 * (i - 1)]
  <2>1. 8 * (i - 1) \in Nat
    BY <1>1
  <2>2. p \in Nat \ {0}
    BY <2>1, Pow2Sum
  <2> HIDE DEF p
  <2>3. n \div p \in Int
    BY <2>2, DivMod
  <2>4. (n \div p) % 256 \in 0 .. 255
    BY <2>3
  <2>5. QED
    BY <2>4 DEF p
<1>3. LittleEndian(n, w)
        = [i \in 1 .. w \div 8 |-> (n \div Pow2[8 * (i - 1)]) % 256]
  BY DEF LittleEndian
<1>4. QED
  BY <1>1, <1>2, <1>3

\* The kinds of variants do not overlap.
LEMMA Kinds ==
  ASSUME NEW v, IsVariant(v)
  PROVE  /\ v.type \in IntTypes \cup {"bool", "encoded", "float", "time", "text",
                                      "null"}
         /\ v.num \in Int
         /\ v.type \in IntTypes => v = Integer(v.type, v.num)
         /\ v.type = "bool" => v.num \in {0, 1} /\ v = Boolean(v.num)
         /\ v.type = "encoded" => v.bytes \in Seq(0 .. 255)
         /\ v.type = "float" => Representable(v.num) /\ v.bytes \in Seq(0 .. 255)
         /\ v.type = "null" <=> v = Null
<1>1. {"bool", "encoded", "float", "time", "text", "null"} \cap IntTypes = {}
  BY DEF IntTypes, Width
<1> HIDE DEF Representable
<1>2. CASE v.type \in IntTypes /\ v.num \in Int /\ v = Integer(v.type, v.num)
  BY <1>1, <1>2 DEF Null
<1>3. CASE v.num \in {0, 1} /\ v = Boolean(v.num)
  BY <1>1, <1>3 DEF Boolean, Null
<1>4. CASE v.bytes \in Seq(0 .. 255) /\ v = Encoded(v.bytes)
  BY <1>1, <1>4 DEF Encoded, Null
<1>5. CASE /\ v.num \in Int /\ Representable(v.num) /\ v.bytes \in Seq(0 .. 255)
           /\ v = Float(v.num, v.bytes)
  BY <1>1, <1>5 DEF Float, Null
<1>6. CASE v.num \in Int /\ v = Time(v.num)
  BY <1>1, <1>6 DEF Time, Null
<1>7. CASE v \in {Text, Null}
  BY <1>1, <1>7 DEF Text, Null
<1>8. QED
  BY <1>2, <1>3, <1>4, <1>5, <1>6, <1>7 DEF IsVariant

\* What a bit handler gets from an integer or a boolean: nothing, if the
\* number is too narrow, and else the bit of its two's complement.
LEMMA BitOfNumber ==
  ASSUME NEW v, IsVariant(v), v.type \in IntTypes \cup {"bool"}, NEW b \in Int
  PROVE  /\ HasBit(v, b) <=> InNumber(v, b)
         /\ InNumber(v, b) =>
              ExtractBit(v, b)
                = ((v.num % Pow2[NumberWidth(v)]) \div Pow2[b]) % 2
<1> DEFINE w == NumberWidth(v)
<1>0. "bool" \notin IntTypes /\ IsFixedSize(v)
  BY DEF IntTypes, Width, IsFixedSize
<1>1. CASE v.type \in IntTypes
  <2> DEFINE bs == LittleEndian(v.num, w)
  <2>1. w = Width[v.type] /\ w \in {8, 16, 32, 64}
    <3>1. w = Width[v.type]
      BY <1>0, <1>1 DEF NumberWidth
    <3>2. Width[v.type] \in {8, 16, 32, 64}
      BY <1>1, Widths
    <3>3. QED
      BY <3>1, <3>2
  <2>2. v.num \in Int /\ v.bytes = bs
    <3>1. v.num \in Int /\ v = Integer(v.type, v.num)
      BY <1>1, Kinds
    <3>2. v.bytes = LittleEndian(v.num, Width[v.type])
      BY <3>1 DEF Integer
    <3>3. QED
      BY <2>1, <3>1, <3>2
  <2> HIDE DEF w
  <2>3. /\ Len(bs) = w \div 8
        /\ \A i \in 1 .. w \div 8 :
             bs[i] = (v.num \div Pow2[8 * (i - 1)]) % 256
    <3> DEFINE byte(i) == (v.num \div Pow2[8 * (i - 1)]) % 256
    <3>1. bs = [i \in 1 .. w \div 8 |-> byte(i)]
      BY DEF LittleEndian
    <3> HIDE DEF bs, byte
    <3>2. w \div 8 \in Nat
      BY <2>1
    <3>3. Len(bs) = w \div 8 /\ \A i \in 1 .. w \div 8 : bs[i] = byte(i)
      BY <3>1, <3>2
    <3>4. QED
      BY <3>3 DEF byte
  <2> HIDE DEF bs
  <2>4. HasBit(v, b) <=> InNumber(v, b)
    <3>1. b >= 0 /\ b \div 8 <= w \div 8 - 1 <=> b \in 0 .. w - 1
      BY <2>1
    <3>2. HasBit(v, b) <=> b >= 0 /\ b \div 8 <= w \div 8 - 1
      BY <1>0, <2>2, <2>3 DEF HasBit
    <3>3. QED
      BY <3>1, <3>2 DEF InNumber, w
  <2>5. ASSUME InNumber(v, b)
        PROVE  ExtractBit(v, b) = ((v.num % Pow2[w]) \div Pow2[b]) % 2
    <3>1. b \in 0 .. w - 1
      BY <2>5 DEF InNumber, w
    <3>2. /\ b \in Nat /\ w \in Nat /\ b < w
          /\ b \div 8 + 1 \in 1 .. w \div 8
          /\ (b \div 8 + 1) - 1 = b \div 8
      BY <2>1, <3>1
    <3>3. bs[b \div 8 + 1] = (v.num \div Pow2[8 * (b \div 8)]) % 256
      BY <2>3, <3>2
    <3>4. ExtractBit(v, b)
            = (((v.num \div Pow2[8 * (b \div 8)]) % 256) \div Pow2[b % 8]) % 2
      BY <2>2, <3>3 DEF ExtractBit
    <3>5. ExtractBit(v, b) = (v.num \div Pow2[b]) % 2
      BY <2>2, <3>2, <3>4, BitOfByte
    <3>6. QED
      BY <2>2, <3>2, <3>5, BitOfLow
  <2>6. QED
    BY <2>4, <2>5 DEF w
<1>2. CASE v.type = "bool"
  <2>1. w = 8
    BY <1>0, <1>2 DEF NumberWidth
  <2>2. v.num \in {0, 1} /\ v.bytes = <<v.num>>
    <3>1. v.num \in {0, 1} /\ v = Boolean(v.num)
      BY <1>2, Kinds
    <3>2. QED
      BY <3>1 DEF Boolean
  <2>3. HasBit(v, b) <=> b \in 0 .. 7
    <3>1. Len(v.bytes) = 1
      BY <2>2
    <3>2. QED
      BY <1>0, <3>1 DEF HasBit
  <2>4. HasBit(v, b) <=> InNumber(v, b)
    BY <2>1, <2>3 DEF InNumber
  <2>5. ASSUME InNumber(v, b)
        PROVE  ExtractBit(v, b) = ((v.num % Pow2[w]) \div Pow2[b]) % 2
    <3>1. b \in 0 .. 7
      BY <2>1, <2>5 DEF InNumber
    <3>2. b \div 8 + 1 = 1 /\ b % 8 = b
      BY <3>1
    <3>3. ExtractBit(v, b) = (v.num \div Pow2[b]) % 2
      BY <2>2, <3>2 DEF ExtractBit
    <3>4. v.num % 256 = v.num
      BY <2>2
    <3>5. v.num % Pow2[w] = v.num
      BY <2>1, <3>4, SmallPowers
    <3>6. QED
      BY <3>3, <3>5
  <2>6. QED
    BY <2>4, <2>5
<1>3. QED
  BY <1>1, <1>2

\* Whatever a bit handler gets is 0 or 1.
LEMMA BitIsBit ==
  ASSUME NEW v, IsVariant(v), NEW b \in Int, HasBit(v, b)
  PROVE  ExtractBit(v, b) \in {0, 1}
<1>1. v.bytes \in Seq(0 .. 255)
  <2>1. CASE v.type \in IntTypes
    <3>1. v.num \in Int /\ v = Integer(v.type, v.num)
      BY <2>1, Kinds
    <3>2. v.bytes = LittleEndian(v.num, Width[v.type])
      BY <3>1 DEF Integer
    <3>3. Width[v.type] \in Nat
      <4>1. Width[v.type] \in {8, 16, 32, 64}
        BY <2>1, Widths
      <4>2. QED
        BY <4>1
    <3>4. LittleEndian(v.num, Width[v.type]) \in Seq(0 .. 255)
      BY <3>1, <3>3, BytesOf
    <3>5. QED
      BY <3>2, <3>4
  <2>2. CASE v.type = "bool"
    <3>1. v.num \in {0, 1} /\ v = Boolean(v.num)
      BY <2>2, Kinds
    <3>2. v.bytes = <<v.num>>
      BY <3>1 DEF Boolean
    <3>3. QED
      BY <3>1, <3>2
  <2>3. CASE v.type \in {"encoded", "float"}
    BY <2>3, Kinds
  <2>4. QED
    BY <2>1, <2>2, <2>3 DEF HasBit, IsFixedSize
<1>2. b \div 8 + 1 \in 1 .. Len(v.bytes)
  BY <1>1 DEF HasBit
<1>3. v.bytes[b \div 8 + 1] \in Int
  <2>1. \A i \in 1 .. Len(v.bytes) : v.bytes[i] \in 0 .. 255
    <3> DEFINE Bytes == 0 .. 255
    <3>1. v.bytes \in Seq(Bytes)
      BY <1>1
    <3> HIDE DEF Bytes
    <3>2. \A i \in 1 .. Len(v.bytes) : v.bytes[i] \in Bytes
      BY <3>1
    <3>3. QED
      BY <3>2 DEF Bytes
  <2>2. v.bytes[b \div 8 + 1] \in 0 .. 255
    BY <1>2, <2>1
  <2>3. QED
    BY <2>2
<1> DEFINE byte == v.bytes[b \div 8 + 1]
           p == Pow2[b % 8]
<1>4. p \in Nat \ {0}
  <2>1. b % 8 \in Nat
    OBVIOUS
  <2>2. QED
    BY <2>1, Pow2Sum
<1> HIDE DEF byte, p
<1>5. byte \div p \in Int
  BY <1>3, <1>4, DivMod DEF byte
<1>6. (byte \div p) % 2 \in {0, 1}
  BY <1>5
<1>7. QED
  BY <1>6 DEF ExtractBit, byte, p

\* The gauges of the bit handlers and the history behind them.
BitInv ==
  /\ bits \in BitSets
  /\ bitGauge = [b \in bits |-> bitGauge[b]]
  /\ lastWith = [b \in bits |-> lastWith[b]]
  /\ \A b \in bits : IsVariant(lastWith[b])
  /\ \A b \in bits :
       lastWith[b].type \in IntTypes \cup Foreign \cup {"bool", "null"}
  /\ ShowsLastBit

\* At the start no bit has been seen.
LEMMA InitBits == Init => BitInv
<1> SUFFICES ASSUME Init PROVE BitInv
  OBVIOUS
<1>1. /\ bits \in BitSets /\ bitGauge = [b \in bits |-> 0]
      /\ lastWith = [b \in bits |-> Null]
  BY DEF Init
<1>2. IsVariant(Null) /\ Null.type = "null"
  BY DEF IsVariant, Null
<1>3. \A b \in bits : bitGauge[b] = 0 /\ lastWith[b] = Null
  BY <1>1
<1>4. ShowsLastBit
  BY <1>3 DEF ShowsLastBit
<1>5. QED
  BY <1>1, <1>2, <1>3, <1>4 DEF BitInv

\* What one variant does to one bit gauge.
LEMMA BitStep ==
  ASSUME BitInv, NEW v \in Variants, NEW b \in bits,
         Handle(v) \/ HandlePanics(v),
         lastWith'[b] = IF InNumber(v, b) \/ v.type \in Foreign
                        THEN v ELSE lastWith[b]
  PROVE  /\ IsVariant(lastWith'[b])
         /\ lastWith'[b].type \in IntTypes \cup Foreign \cup {"bool", "null"}
         /\ bitGauge'[b] \in {0, 1}
         /\ lastWith'[b] = Null => bitGauge'[b] = 0
         /\ lastWith'[b] # Null /\ lastWith'[b].type \notin Foreign =>
              bitGauge'[b] =
                ((lastWith'[b].num % Pow2[NumberWidth(lastWith'[b])])
                   \div Pow2[b]) % 2
<1> DEFINE Shows(l, g) ==
             /\ IsVariant(l)
             /\ l.type \in IntTypes \cup Foreign \cup {"bool", "null"}
             /\ g \in {0, 1}
             /\ l = Null => g = 0
             /\ l # Null /\ l.type \notin Foreign =>
                  g = ((l.num % Pow2[NumberWidth(l)]) \div Pow2[b]) % 2
<1>1. Shows(lastWith[b], bitGauge[b])
  BY DEF BitInv, ShowsLastBit
<1>2. IsVariant(v) /\ b \in Int
  BY HandlersAssumption DEF BitInv
<1>3. bitGauge'[b] = IF HasBit(v, b) THEN ExtractBit(v, b) ELSE bitGauge[b]
  <2>1. CASE Handle(v)
    BY <2>1 DEF Handle
  <2>2. CASE HandlePanics(v)
    <3>1. v.type = "null" /\ bitGauge' = bitGauge
      BY <2>2 DEF HandlePanics, WritePanics
    <3>2. ~HasBit(v, b)
      BY <3>1 DEF HasBit, IsFixedSize, IntTypes, Width
    <3>3. QED
      BY <3>1, <3>2
  <2>3. QED
    BY <2>1, <2>2
<1>4. ~ InNumber(v, b) /\ v.type \notin Foreign => ~HasBit(v, b)
  <2>1. SUFFICES ASSUME ~InNumber(v, b), v.type \notin Foreign
                 PROVE  ~HasBit(v, b)
    OBVIOUS
  <2>2. CASE v.type \in IntTypes \cup {"bool"}
    BY <1>2, <2>1, <2>2, BitOfNumber
  <2>3. CASE v.type \notin IntTypes \cup {"bool"}
    BY <2>1, <2>3 DEF HasBit, IsFixedSize, Foreign
  <2>4. QED
    BY <2>2, <2>3
<1>5. Shows(lastWith'[b], bitGauge'[b])
  <2>1. CASE v.type \in Foreign
    <3>1. lastWith'[b] = v /\ v # Null
      BY <2>1 DEF Foreign, Null
    <3>2. bitGauge'[b] \in {0, 1}
      BY <1>1, <1>2, <1>3, BitIsBit
    <3>3. QED
      BY <1>2, <2>1, <3>1, <3>2
  <2>2. CASE v.type \notin Foreign /\ InNumber(v, b)
    <3>1. v.type \in IntTypes \cup {"bool"}
      BY <1>2, <2>2 DEF InNumber, NumberWidth
    <3>2. HasBit(v, b) /\ ExtractBit(v, b)
            = ((v.num % Pow2[NumberWidth(v)]) \div Pow2[b]) % 2
      BY <1>2, <2>2, <3>1, BitOfNumber
    <3>3. ExtractBit(v, b) \in {0, 1}
      BY <1>2, <3>2, BitIsBit
    <3>4. lastWith'[b] = v /\ bitGauge'[b] = ExtractBit(v, b)
      BY <1>3, <2>2, <3>2
    <3>5. v # Null
      BY <3>1 DEF Null, IntTypes, Width
    <3>6. QED
      BY <1>2, <3>1, <3>2, <3>3, <3>4, <3>5
  <2>3. CASE v.type \notin Foreign /\ ~InNumber(v, b)
    <3>1. lastWith'[b] = lastWith[b] /\ bitGauge'[b] = bitGauge[b]
      BY <1>3, <1>4, <2>3
    <3>2. QED
      BY <1>1, <3>1
  <2>4. QED
    BY <2>1, <2>2, <2>3
<1>6. QED
  BY <1>5

\* A handler that fails leaves its gauge, one that does not sets it to the bit.
LEMMA NextBits ==
  ASSUME BitInv, [Next]_vars
  PROVE  BitInv'
<1>1. CASE UNCHANGED vars
  BY <1>1 DEF vars, BitInv, ShowsLastBit
<1>2. CASE Next
  <2>1. PICK v \in Variants :
          /\ Handle(v) \/ HandlePanics(v)
          /\ lastWith' = [b \in bits |->
                            IF InNumber(v, b) \/ v.type \in Foreign
                            THEN v ELSE lastWith[b]]
          /\ bits' = bits
    BY <1>2 DEF Next
  <2>2. bitGauge' = [b \in bits' |-> bitGauge'[b]]
    BY <2>1 DEF Handle, HandlePanics, BitInv
  <2>3. lastWith' = [b \in bits' |-> lastWith'[b]]
    BY <2>1
  <2>4. ASSUME NEW b \in bits
        PROVE  /\ IsVariant(lastWith'[b])
               /\ lastWith'[b].type
                    \in IntTypes \cup Foreign \cup {"bool", "null"}
               /\ bitGauge'[b] \in {0, 1}
               /\ lastWith'[b] = Null => bitGauge'[b] = 0
               /\ lastWith'[b] # Null /\ lastWith'[b].type \notin Foreign =>
                    bitGauge'[b] =
                      ((lastWith'[b].num % Pow2[NumberWidth(lastWith'[b])])
                         \div Pow2[b]) % 2
    <3>1. lastWith'[b] = IF InNumber(v, b) \/ v.type \in Foreign
                         THEN v ELSE lastWith[b]
      BY <2>1
    <3>2. QED
      BY <2>1, <3>1, BitStep
  <2>5. ShowsLastBit'
    BY <2>1, <2>4 DEF ShowsLastBit
  <2>6. bits' \in BitSets
    BY <2>1 DEF BitInv
  <2>7. QED
    BY <2>1, <2>2, <2>3, <2>4, <2>5, <2>6 DEF BitInv
<1>3. QED
  BY <1>1, <1>2

\* A bit gauge shows the bit of the last number that was wide enough, for
\* integers of 8, 16, 32 and 64 bits and for every bit position: byte and
\* shift, on the little-endian encoding, find the bit of the two's complement.
THEOREM ShowsLastBitCorrect == Spec => []ShowsLastBit
<1>1. BitInv => ShowsLastBit
  BY DEF BitInv
<1>2. QED
  BY <1>1, InitBits, NextBits, PTL DEF Spec

-----------------------------------------------------------------------------
(* Rounding.                                                               *)

\* The exponent whose power Ulp(n) is: the least with which n fits.
Fits(n, e) ==
  /\ Abs(n) < Pow2[Precision + e]
  /\ \A f \in 0 .. e - 1 : Abs(n) >= Pow2[Precision + f]

\* Ulp is defined for every number of a variant.
LEMMA UlpDefined ==
  ASSUME NEW n \in Int, Abs(n) < Pow2[Precision + MaxExponent]
  PROVE  \E e \in 0 .. MaxExponent : Fits(n, e) /\ Ulp(n) = Pow2[e]
<1> DEFINE I == {e \in 0 .. MaxExponent : Abs(n) < Pow2[Precision + e]}
<1>1. MaxExponent \in I /\ I \in SUBSET Nat
  BY HandlersAssumption
<1>2. PICK e \in I : \A f \in I : e <= f
  <2> HIDE DEF I
  <2>1. QED
    BY <1>1, LeastElement
<1>3. e \in 0 .. MaxExponent /\ Abs(n) < Pow2[Precision + e]
  OBVIOUS
<1>4. ASSUME NEW f \in 0 .. e - 1 PROVE Abs(n) >= Pow2[Precision + f]
  <2>1. f \in 0 .. MaxExponent /\ ~(e <= f) /\ Precision + f \in Nat
    BY <1>3, HandlersAssumption
  <2>2. ~(Abs(n) < Pow2[Precision + f])
    BY <1>2, <2>1
  <2>3. Pow2[Precision + f] \in Nat
    BY <2>1, Pow2Sum
  <2>4. Abs(n) \in Int
    BY DEF Abs
  <2>5. QED
    BY <2>2, <2>3, <2>4
<1>5. Fits(n, e)
  BY <1>3, <1>4 DEF Fits
<1>6. \E d \in 0 .. MaxExponent : Fits(n, d)
  BY <1>3, <1>5
<1> DEFINE c == CHOOSE d \in 0 .. MaxExponent : Fits(n, d)
<1>7. c \in 0 .. MaxExponent /\ Fits(n, c)
  <2> HIDE DEF Fits
  <2>1. QED
    BY <1>6
<1>8. Ulp(n) = Pow2[c]
  BY DEF Ulp, Fits
<1> HIDE DEF c
<1>9. QED
  BY <1>7, <1>8

\* The two multiples of Ulp(n) around n, with no float64 in between: one with
\* a smaller exponent would be smaller than n is.
LEMMA NoneBetween ==
  ASSUME NEW n \in Int, NEW e \in 0 .. MaxExponent, Fits(n, e),
         NEW x \in Int, Representable(x),
         n % Pow2[e] # 0
  PROVE  \/ x <= Pow2[e] * (n \div Pow2[e])
         \/ x >= Pow2[e] * (n \div Pow2[e]) + Pow2[e]
<1> DEFINE u == Pow2[e]
           q == n \div u
<1>1. Precision \in Nat \ {0} /\ e \in Nat /\ MaxExponent \in Nat
  BY HandlersAssumption
<1>2. u \in Nat \ {0}
  BY <1>1, Pow2Sum
<1>3. q \in Int /\ n = u * q + (n % u) /\ n % u \in 0 .. u - 1
  <2> HIDE DEF u
  <2>1. QED
    BY <1>2, DivMod
<1>4. PICK f \in 0 .. MaxExponent :
        x % Pow2[f] = 0 /\ Abs(x) <= Pow2[Precision + f]
  BY DEF Representable
<1>5. Pow2[f] \in Nat \ {0} /\ f \in Nat
  BY <1>1, Pow2Sum
\* On a multiple of u the claim is clear.
<1>6. ASSUME NEW j \in Int, x = u * j
      PROVE  x <= u * q \/ x >= u * q + u
  <2> HIDE DEF u, q
  <2>1. CASE j <= q
    BY <1>2, <1>3, <1>6, <2>1, TimesMore
  <2>2. CASE q < j
    BY <1>2, <1>3, <1>6, <2>2, TimesLess
  <2>3. QED
    BY <1>3, <2>1, <2>2
<1>7. CASE e <= f
  <2> DEFINE v == Pow2[f - e]
             k == x \div Pow2[f]
  <2>1. f - e \in Nat /\ Pow2[f] = u * v /\ v \in Nat \ {0}
    BY <1>1, <1>5, <1>7, Pow2Order, Pow2Sum
  <2>2. k \in Int /\ x = Pow2[f] * k + (x % Pow2[f])
    BY <1>5, DivMod
  <2> HIDE DEF u, v, k
  <2>3. Pow2[f] * k \in Int /\ x = Pow2[f] * k
    BY <1>4, <1>5, <2>2
  <2>4. x = u * (v * k) /\ v * k \in Int
    BY <1>2, <2>1, <2>2, <2>3
  <2>5. QED
    BY <1>6, <2>4 DEF u, q
<1>8. CASE f < e
  <2> DEFINE h == Pow2[Precision - 1]
             m == Pow2[Precision + (e - 1)]
  <2>1. /\ e - 1 \in Nat /\ f <= e - 1 /\ Precision - 1 \in Nat
        /\ Precision + (e - 1) \in Nat /\ Precision + f \in Nat
        /\ (Precision - 1) + e = Precision + (e - 1)
        /\ Precision + f <= Precision + (e - 1)
    BY <1>1, <1>5, <1>8
  <2>2. m = u * h /\ h \in Nat \ {0} /\ m \in Nat
    <3>1. Pow2[(Precision - 1) + e] = Pow2[Precision - 1] * Pow2[e]
      BY <1>1, <2>1, Pow2Sum
    <3>2. h \in Nat \ {0} /\ m \in Nat
      BY <2>1, Pow2Sum
    <3>3. h * u = u * h
      BY <1>2, <3>2
    <3>4. QED
      BY <2>1, <3>1, <3>2, <3>3
  <2>3. Pow2[Precision + f] <= m
    BY <2>1, Pow2Order
  <2>4. Abs(n) >= m
    <3>1. e - 1 \in 0 .. e - 1
      BY <2>1
    <3>2. QED
      BY <3>1 DEF Fits
  <2>5. Pow2[Precision + f] \in Nat
    BY <2>1, Pow2Sum
  <2> HIDE DEF m, h, u, q
  <2>6. Abs(x) <= m
    BY <1>4, <2>2, <2>3, <2>5 DEF Abs
  <2>7. CASE n >= 0
    <3>1. x <= m /\ m <= n
      BY <2>2, <2>4, <2>6, <2>7 DEF Abs
    <3>2. ~(q < h)
      <4>1. SUFFICES ASSUME q < h PROVE FALSE
        OBVIOUS
      <4>2. u * q + u <= u * h
        BY <1>2, <1>3, <2>2, <4>1, TimesLess
      <4>3. u * q \in Int
        BY <1>2, <1>3
      <4>4. QED
        BY <1>2, <1>3, <2>2, <3>1, <4>2, <4>3
    <3>3. u * h <= u * q
      BY <1>2, <1>3, <2>2, <3>2, TimesMore
    <3>4. u * q \in Int
      BY <1>2, <1>3
    <3>5. x <= u * q
      BY <2>2, <3>1, <3>3, <3>4
    <3>6. QED
      BY <3>5 DEF u, q
  <2>8. CASE n < 0
    <3>1. -m <= x /\ n <= -m
      BY <2>2, <2>4, <2>6, <2>8 DEF Abs
    <3>2. u * (-h) = -m /\ -h \in Int
      BY <1>2, <2>2
    <3>3. u * q \in Int
      BY <1>2, <1>3
    <3>4. ~(-h <= q)
      <4>1. SUFFICES ASSUME -h <= q PROVE FALSE
        OBVIOUS
      <4>2. u * (-h) <= u * q
        BY <1>2, <1>3, <3>2, <4>1, TimesMore
      <4>3. n % u = 0
        BY <1>2, <1>3, <2>2, <3>1, <3>2, <3>3, <4>2
      <4>4. QED
        BY <4>3 DEF u
    <3>5. u * q + u <= u * (-h)
      BY <1>2, <1>3, <3>2, <3>4, TimesLess
    <3>6. x >= u * q + u
      BY <1>2, <2>2, <3>1, <3>2, <3>3, <3>5
    <3>7. QED
      BY <3>6 DEF u, q
  <2>9. QED
    BY <2>7, <2>8
<1>9. QED
  BY <1>1, <1>5, <1>7, <1>8

\* What ShowsLastNumber asks of a gauge g for the number n.
Nearest(g, n) ==
  LET d == Abs(g - n)
  IN  /\ Representable(g)
      /\ \A x \in n - d .. n + d : Representable(x) => Abs(x - n) = d

\* Rounding takes one of the two neighbours, and never the farther one.
LEMMA RoundedIsNeighbour ==
  ASSUME NEW n \in Int, NEW u \in Nat \ {0}, Ulp(n) = u
  PROVE  \E k \in {n \div u, n \div u + 1} :
           /\ Rounded(n) = u * k
           /\ Abs(u * k - n) <= n % u /\ Abs(u * k - n) <= u - (n % u)
           /\ n % u = 0 => k = n \div u
<1> DEFINE q == n \div u
           r == n % u
<1>1. q \in Int /\ n = u * q + r /\ r \in 0 .. u - 1
  BY DivMod
<1>2. Rounded(n) = IF 2 * r > u \/ (2 * r = u /\ q % 2 = 1)
                   THEN (q + 1) * u ELSE q * u
  BY DEF Rounded
<1> HIDE DEF q, r
<1>3. u * q \in Int /\ u * (q + 1) = u * q + u
  BY <1>1
<1>4. CASE 2 * r > u \/ (2 * r = u /\ q % 2 = 1)
  <2>1. Rounded(n) = u * (q + 1)
    BY <1>1, <1>2, <1>4
  <2>2. u * (q + 1) - n = u - r
    BY <1>1, <1>3
  <2>3. Abs(u * (q + 1) - n) <= r /\ Abs(u * (q + 1) - n) <= u - r /\ r # 0
    BY <1>1, <1>4, <2>2 DEF Abs
  <2>4. QED
    BY <2>1, <2>3 DEF q, r
<1>5. CASE ~(2 * r > u \/ (2 * r = u /\ q % 2 = 1))
  <2>1. Rounded(n) = u * q
    BY <1>1, <1>2, <1>5
  <2>2. u * q - n = -r
    BY <1>1, <1>3
  <2>3. 2 * r <= u
    BY <1>1, <1>5
  <2>4. Abs(u * q - n) <= r /\ Abs(u * q - n) <= u - r
    BY <1>1, <2>2, <2>3 DEF Abs
  <2>5. QED
    BY <2>1, <2>4 DEF q, r
<1>6. QED
  BY <1>4, <1>5

\* The rounded number is a float64, and no other is nearer.
LEMMA RoundedIsNearest ==
  ASSUME NEW n \in Int, Abs(n) < Pow2[Precision + MaxExponent]
  PROVE  Nearest(Rounded(n), n)
<1>1. PICK e \in 0 .. MaxExponent : Fits(n, e) /\ Ulp(n) = Pow2[e]
  BY UlpDefined
<1> DEFINE u == Pow2[e]
           q == n \div u
           r == n % u
           p == Pow2[Precision]
<1>2. /\ Precision \in Nat \ {0} /\ e \in Nat /\ MaxExponent \in Nat
      /\ u \in Nat \ {0} /\ p \in Nat \ {0} /\ Pow2[Precision + e] = p * u
  BY HandlersAssumption, Pow2Sum
<1>3. q \in Int /\ n = u * q + r /\ r \in 0 .. u - 1
  <2> HIDE DEF u
  <2>1. QED
    BY <1>2, DivMod
<1>4. PICK k \in {q, q + 1} :
        /\ Rounded(n) = u * k /\ Abs(u * k - n) <= r /\ Abs(u * k - n) <= u - r
        /\ r = 0 => k = q
  <2>1. Ulp(n) = u
    BY <1>1
  <2> HIDE DEF u
  <2>2. QED
    BY <1>2, <2>1, RoundedIsNeighbour
<1>5. k \in Int /\ u * k \in Int /\ u * q \in Int /\ u * (q + 1) = u * q + u
  <2> HIDE DEF u, q
  <2>1. QED
    BY <1>2, <1>3
<1>6. Abs(n) < u * p
  <2>1. Abs(n) < p * u
    BY <1>1, <1>2 DEF Fits
  <2> HIDE DEF u, p
  <2>2. QED
    BY <1>2, <2>1
\* The neighbours are multiples of u, not larger than 2 ^ Precision of them.
<1>7. Representable(u * k)
  <2> HIDE DEF u, q, r, p
  <2>1. u * p \in Int /\ u * (-p) = -(u * p) /\ -p \in Int
    BY <1>2
  <2>2. -(u * p) < n /\ n < u * p
    BY <1>6, <2>1 DEF Abs
  <2>3. q < p
    <3>1. SUFFICES ASSUME p <= q PROVE FALSE
      BY <1>2, <1>3
    <3>2. u * p <= u * q
      BY <1>2, <1>3, <3>1, TimesMore
    <3>3. QED
      BY <1>2, <1>3, <1>5, <2>1, <2>2, <3>2
  <2>4. -p <= q
    <3>1. SUFFICES ASSUME q < -p PROVE FALSE
      BY <1>3, <2>1
    <3>2. u * q + u <= u * (-p)
      BY <1>2, <1>3, <2>1, <3>1, TimesLess
    <3>3. QED
      BY <1>2, <1>3, <1>5, <2>1, <2>2, <3>2
  <2>5. k <= p /\ -p <= k
    BY <1>2, <1>3, <2>3, <2>4
  <2>6. u * k <= u * p /\ -(u * p) <= u * k
    <3>1. u * k <= u * p
      BY <1>2, <1>5, <2>5, TimesMore
    <3>2. u * (-p) <= u * k
      BY <1>2, <1>5, <2>1, <2>5, TimesMore
    <3>3. QED
      BY <2>1, <3>1, <3>2
  <2>7. Abs(u * k) <= u * p
    BY <1>5, <2>1, <2>6 DEF Abs
  <2>8. Abs(u * k) <= Pow2[Precision + e]
    <3>1. u * p = p * u
      BY <1>2
    <3>2. QED
      BY <1>2, <2>7, <3>1
  <2>9. (u * k) % u = 0
    <3>1. u * k = u * k + 0 /\ 0 \in 0 .. u - 1
      BY <1>2, <1>5
    <3>2. QED
      BY <1>2, <1>5, <3>1, DivModUnique
  <2>10. QED
    BY <1>1, <2>8, <2>9 DEF Representable, u
\* Nothing nearer lies between them.
<1> DEFINE d == Abs(u * k - n)
<1>8. d \in Nat /\ d <= r /\ d <= u - r
  <2> HIDE DEF u, r
  <2>1. QED
    BY <1>4, <1>5 DEF Abs
<1>9. ASSUME NEW x \in n - d .. n + d, Representable(x)
      PROVE  Abs(x - n) = d
  <2>1. x \in Int /\ Abs(x - n) <= d
    <3> HIDE DEF d
    <3>1. QED
      BY <1>8 DEF Abs
  <2>2. CASE r = 0
    <3> HIDE DEF d, r, u
    <3>1. QED
      BY <1>8, <2>1, <2>2 DEF Abs
  <2>3. CASE r # 0
    <3>1. x <= u * q \/ x >= u * q + u
      BY <1>1, <1>9, <2>1, <2>3, NoneBetween
    <3> HIDE DEF d, r, u, q
    <3>2. CASE x <= u * q
      <4>1. n - x >= r
        BY <1>3, <1>5, <2>1, <3>2
      <4>2. QED
        BY <1>3, <1>8, <2>1, <4>1 DEF Abs
    <3>3. CASE x >= u * q + u
      <4>1. x - n >= u - r
        BY <1>2, <1>3, <1>5, <2>1, <3>3
      <4>2. QED
        BY <1>2, <1>3, <1>8, <2>1, <4>1 DEF Abs
    <3>4. QED
      BY <3>1, <3>2, <3>3
  <2>4. QED
    BY <2>2, <2>3
<1>10. Rounded(n) = u * k
  BY <1>4
<1> HIDE DEF u, q, r, p
<1>11. QED
  BY <1>7, <1>9, <1>10 DEF Nearest

\* A float64 is nearest to itself.
LEMMA NearestToItself ==
  ASSUME NEW n \in Int, Representable(n)
  PROVE  Nearest(n, n)
<1>1. n - n = 0
  OBVIOUS
<1>2. Abs(n - n) = 0
  BY <1>1 DEF Abs
<1>3. ASSUME NEW x \in n - 0 .. n + 0 PROVE Abs(x - n) = 0
  BY DEF Abs
<1> HIDE DEF Representable
<1>4. QED
  BY <1>2, <1>3 DEF Nearest

\* The gauge of the value handler and the history behind it.
ValueInv == lastValue.num \in Int /\ Nearest(valueGauge, lastValue.num)

\* At the start no number has been seen.
LEMMA InitValue == Init => ValueInv
<1> SUFFICES ASSUME Init PROVE ValueInv
  OBVIOUS
<1>1. valueGauge = 0 /\ lastValue.num = 0
  BY DEF Init, Null
<1>2. Representable(0)
  <2>1. 0 \in 0 .. MaxExponent /\ Pow2[0] = 1
    BY HandlersAssumption, SmallPowers
  <2>2. 0 % 1 = 0 /\ Abs(0) = 0
    BY DEF Abs
  <2>3. Precision + 0 \in Nat /\ Pow2[Precision + 0] \in Nat
    BY HandlersAssumption, Pow2Sum
  <2>4. Abs(0) <= Pow2[Precision + 0]
    BY <2>2, <2>3
  <2>5. 0 % Pow2[0] = 0
    BY <2>1, <2>2
  <2>6. QED
    BY <2>1, <2>4, <2>5 DEF Representable
<1>3. QED
  BY <1>1, <1>2, NearestToItself DEF ValueInv

\* A value without a number leaves the gauge, one with a number sets it.
LEMMA NextValue ==
  ASSUME ValueInv, [Next]_vars
  PROVE  ValueInv'
<1>1. CASE UNCHANGED vars
  BY <1>1 DEF vars, ValueInv, Nearest, Representable
<1>2. CASE Next
  <2>1. PICK v \in Variants :
          /\ Handle(v) \/ HandlePanics(v)
          /\ lastValue' = IF v.type \in NoNumber THEN lastValue ELSE v
    BY <1>2 DEF Next
  <2>2. IsVariant(v) /\ Abs(v.num) < Pow2[Precision + MaxExponent]
    BY HandlersAssumption
  <2>3. v.num \in Int /\ (IsNumber(v) <=> v.type \notin NoNumber)
    <3>1. {"null", "text", "encoded"} \cap (IntTypes \cup {"bool", "float", "time"})
            = {}
      BY DEF IntTypes, Width
    <3>2. QED
      BY <2>2, <3>1, Kinds DEF IsNumber, NoNumber
  <2>4. valueGauge' = IF IsNumber(v) THEN FloatValue(v) ELSE valueGauge
    <3>1. CASE Handle(v)
      BY <3>1 DEF Handle
    <3>2. CASE HandlePanics(v)
      <4>1. v.type \in NoNumber /\ valueGauge' = valueGauge
        BY <3>2 DEF HandlePanics, WritePanics, NoNumber
      <4>2. QED
        BY <2>3, <4>1
    <3>3. QED
      BY <2>1, <3>1, <3>2
  <2>5. CASE IsNumber(v)
    <3>1. lastValue' = v /\ valueGauge' = FloatValue(v)
      BY <2>1, <2>3, <2>4, <2>5
    <3>2. Nearest(FloatValue(v), v.num)
      <4>1. CASE v.type = "float"
        <5>1. Representable(v.num)
          BY <2>2, <4>1, Kinds
        <5>2. QED
          BY <2>3, <4>1, <5>1, NearestToItself DEF FloatValue
      <4>2. CASE v.type # "float"
        BY <2>2, <2>3, <4>2, RoundedIsNearest DEF FloatValue
      <4>3. QED
        BY <4>1, <4>2
    <3> HIDE DEF Nearest
    <3>3. lastValue'.num \in Int /\ Nearest(valueGauge', lastValue'.num)
      BY <2>3, <3>1, <3>2
    <3>4. QED
      BY <3>3 DEF ValueInv, Nearest, Representable
  <2>6. CASE ~IsNumber(v)
    <3>1. lastValue' = lastValue /\ valueGauge' = valueGauge
      BY <2>1, <2>3, <2>4, <2>6
    <3>2. QED
      BY <3>1 DEF ValueInv, Nearest, Representable
  <2>7. QED
    BY <2>5, <2>6
<1>3. QED
  BY <1>1, <1>2

\* A gauge without extractBit shows the last number of its node, or the
\* float64 nearest to it, for a float64 of any precision.
THEOREM ShowsLastNumberCorrect == Spec => []ShowsLastNumber
<1>1. ValueInv => ShowsLastNumber
  BY DEF ValueInv, Nearest, ShowsLastNumber
<1>2. QED
  BY <1>1, InitValue, NextValue, PTL DEF Spec
=============================================================================
