------------------------------ MODULE Handlers ------------------------------
(***************************************************************************)
(* The two message handlers of internal/handlers: OpcValueHandler, which   *)
(* turns a variant into a float64, and OpcuaBitVectorHandler, which takes  *)
(* one bit of it.  One node feeds one gauge of the first kind and, for     *)
(* every bit of bits, one of the second; handleMessage offers each variant *)
(* to all of them.                                                         *)
(*                                                                         *)
(* A variant is a record [type, num, bytes]: its type, the number it       *)
(* stands for and its fixed-size encoding.  What has no number or no such  *)
(* encoding has 0 and <<>> in its place, which no handler looks at.        *)
(***************************************************************************)
EXTENDS Integers, Sequences, Powers

CONSTANTS
  BitSets,      \* the sets of bits that the bit handlers of the node may have
  Variants,     \* the values that the node may have
  Precision,    \* bits of the significand of a float64
  MaxExponent   \* the largest exponent of a float64, the significand being
                \* an integer

VARIABLES
  bits,         \* the extractBit of each bit handler
  valueGauge,   \* the gauge of the OpcValueHandler
  bitGauge,     \* bitGauge[b]: the gauge of the bit handler for b
  panicked,     \* a handler panicked, which ends the process
  lastValue,    \* history: the last variant that is a number
  lastWith      \* history: lastWith[b] is the last variant that has a bit b,
                \* or an encoding that is not an integer's

vars == <<bits, valueGauge, bitGauge, panicked, lastValue, lastWith>>

Width == [uint8 |-> 8, int8 |-> 8, uint16 |-> 16, int16 |-> 16,
          uint32 |-> 32, int32 |-> 32, uint64 |-> 64, int64 |-> 64]
IntTypes == DOMAIN Width
Abs(n) == IF n < 0 THEN -n ELSE n

-----------------------------------------------------------------------------
(* Variants.                                                               *)

\* Mutant: the bytes come in network order.
BigEndian(n, w) ==
  [i \in 1 .. w \div 8 |-> (n \div Pow2[w - 8 * i]) % 256]

\* variantToByteArray for an integer of w bits: two's complement, the least
\* significant byte first.
LittleEndian(n, w) ==
  [i \in 1 .. w \div 8 |-> (n \div Pow2[8 * (i - 1)]) % 256]

Integer(t, n) == [type |-> t, num |-> n, bytes |-> LittleEndian(n, Width[t])]
Boolean(b) == [type |-> "bool", num |-> b, bytes |-> <<b>>]
\* What has an encoding and no number: a status code, a byte string, an array
\* of booleans or of numbers.
Encoded(bs) == [type |-> "encoded", num |-> 0, bytes |-> bs]
Float(n, bs) == [type |-> "float", num |-> n, bytes |-> bs]
Time(n) == [type |-> "time", num |-> n, bytes |-> <<>>]
Text == [type |-> "text", num |-> 0, bytes |-> <<>>]
Null == [type |-> "null", num |-> 0, bytes |-> <<>>]

\* The numbers that a float64 represents.
Representable(n) ==
  \E e \in 0 .. MaxExponent :
    n % Pow2[e] = 0 /\ Abs(n) <= Pow2[Precision + e]

\* What ua.Variant can hold, as far as the handlers tell values apart.
IsVariant(v) ==
  \/ v.type \in IntTypes /\ v.num \in Int /\ v = Integer(v.type, v.num)
  \/ v.num \in {0, 1} /\ v = Boolean(v.num)
  \/ v.bytes \in Seq(0 .. 255) /\ v = Encoded(v.bytes)
  \/ /\ v.num \in Int /\ Representable(v.num) /\ v.bytes \in Seq(0 .. 255)
     /\ v = Float(v.num, v.bytes)
  \/ v.num \in Int /\ v = Time(v.num)
  \/ v \in {Text, Null}

\* A float64 is large enough for every integer and time.
ASSUME HandlersAssumption ==
  /\ Precision \in Nat \ {0} /\ MaxExponent \in Nat
  /\ BitSets \subseteq SUBSET Int
  /\ \A v \in Variants :
       IsVariant(v) /\ Abs(v.num) < Pow2[Precision + MaxExponent]

-----------------------------------------------------------------------------
(* OpcValueHandler.FloatValue.                                             *)

\* It succeeds for numbers and booleans of the types that it names, not for
\* arrays or types derived from them, and for a time.
IsNumber(v) == v.type \in IntTypes \cup {"bool", "float", "time"}

\* The weight of the last bit that a float64 of the size of n keeps.
Ulp(n) ==
  Pow2[CHOOSE e \in 0 .. MaxExponent :
         /\ Abs(n) < Pow2[Precision + e]
         /\ \A f \in 0 .. e - 1 : Abs(n) >= Pow2[Precision + f]]

\* Mutant: the integer is cut off.
Truncated(n) == (n \div Ulp(n)) * Ulp(n)

\* float64(val) for an integer: to the nearest, and halfway to the even one.
Rounded(n) ==
  LET u == Ulp(n)  q == n \div u  twice == 2 * (n % u)
  IN  IF twice > u \/ (twice = u /\ q % 2 = 1) THEN (q + 1) * u ELSE q * u

FloatValue(v) == IF v.type = "float" THEN v.num ELSE Rounded(v.num)

-----------------------------------------------------------------------------
(* OpcuaBitVectorHandler.FloatValue.                                       *)

\* binary.Write encodes fixed-size values and slices of them.
IsFixedSize(v) == v.type \in IntTypes \cup {"bool", "encoded", "float"}

\* Mutant: the bit is shifted but not masked.
ExtractBitUnmasked(v, bit) == v.bytes[bit \div 8 + 1] \div Pow2[bit % 8]

\* extractBit succeeds: the bit is not negative and in one of the bytes.
HasBit(v, bit) ==
  IsFixedSize(v) /\ bit >= 0 /\ bit \div 8 <= Len(v.bytes) - 1
ExtractBit(v, bit) == (v.bytes[bit \div 8 + 1] \div Pow2[bit % 8]) % 2

\* binary.Write has an error for a value without a fixed size and calls a
\* method of its reflected type to name it.  The value of a null variant is
\* nil, which has no such type.
WritePanics(v) == v.type = "null"

-----------------------------------------------------------------------------

\* What the history takes for a number that has that bit.  A boolean is
\* encoded as a byte.
NumberWidth(v) ==
  CASE v.type \in IntTypes -> Width[v.type]
    [] v.type = "bool" -> 8
    [] OTHER -> 0
InNumber(v, bit) == bit \in 0 .. NumberWidth(v) - 1
NoNumber == {"null", "text", "encoded"}
Foreign == {"encoded", "float"}

Init ==
  /\ bits \in BitSets
  /\ valueGauge = 0 /\ bitGauge = [b \in bits |-> 0] /\ panicked = FALSE
  /\ lastValue = Null /\ lastWith = [b \in bits |-> Null]

\* Mutant: a gauge whose handler fails is cleared.
HandleClearing(v) ==
  /\ ~panicked /\ (WritePanics(v) => bits = {})
  /\ valueGauge' = IF IsNumber(v) THEN FloatValue(v) ELSE 0
  /\ bitGauge' = [b \in bits |-> IF HasBit(v, b) THEN ExtractBit(v, b) ELSE 0]
  /\ UNCHANGED panicked

\* handleMessage: every handler in turn; one that fails leaves its gauge.
Handle(v) ==
  /\ ~panicked /\ (WritePanics(v) => bits = {})
  /\ valueGauge' = IF IsNumber(v) THEN FloatValue(v) ELSE valueGauge
  /\ bitGauge' = [b \in bits |->
                    IF HasBit(v, b) THEN ExtractBit(v, b) ELSE bitGauge[b]]
  /\ UNCHANGED panicked

\* No handler recovers, nor does the goroutine of the monitor.
HandlePanics(v) ==
  /\ ~panicked /\ WritePanics(v) /\ bits # {}
  /\ panicked' = TRUE
  /\ UNCHANGED <<valueGauge, bitGauge>>

Next ==
  \E v \in Variants :
    /\ Handle(v) \/ HandlePanics(v)
    /\ lastValue' = IF v.type \in NoNumber THEN lastValue ELSE v
    /\ lastWith' = [b \in bits |->
                      IF InNumber(v, b) \/ v.type \in Foreign
                      THEN v ELSE lastWith[b]]
    /\ UNCHANGED bits

Spec == Init /\ [][Next]_vars

-----------------------------------------------------------------------------
(* Properties.                                                             *)

\* A gauge without extractBit shows the last value of its node that is a
\* number, exactly if a float64 can, and else a float64 that no other is
\* nearer than; texts, arrays, status codes and nulls in between do not
\* disturb it.
ShowsLastNumber ==
  LET n == lastValue.num  d == Abs(valueGauge - n)
  IN  /\ Representable(valueGauge)
      /\ \A x \in n - d .. n + d : Representable(x) => Abs(x - n) = d

\* A bit gauge shows the bit of the last integer or boolean that was wide
\* enough to have it, until a value with another encoding comes, whose bits
\* are anyone's: bit b of n is that of n modulo 2 ^ width, the sign bit
\* included; texts, times and narrower values do not disturb it.
ShowsLastBit ==
  \A b \in bits :
    /\ bitGauge[b] \in {0, 1}
    /\ lastWith[b] = Null => bitGauge[b] = 0
    /\ lastWith[b] # Null /\ lastWith[b].type \notin Foreign =>
         bitGauge[b] =
           ((lastWith[b].num % Pow2[NumberWidth(lastWith[b])]) \div Pow2[b])
             % 2

\* A value that a handler cannot convert is an error, which handleMessage logs
\* and which leaves the other metrics alone: "Various non-integer objects
\* shold error out" says the test of the bit handlers.
HandlersReturn == ~panicked
=============================================================================
