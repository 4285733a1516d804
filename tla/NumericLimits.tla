---------------------------- MODULE NumericLimits ----------------------------
(***************************************************************************)
(* NumericLimits<T> (src/include/duckdb/common/limits.hpp): the minimum,   *)
(* maximum, signedness, integrality and decimal digit count of the C++     *)
(* number types, and the hugeint_t / uhugeint_t specializations that give *)
(* their extremes as (upper, lower) 64-bit limbs.                          *)
(*                                                                         *)
(* The extremes reach 2^128, beyond TLC's integers: a natural number is    *)
(* its little-endian sequence of base-256 limbs with no trailing zero limb *)
(* (zero is <<>>), and a signed one a record [neg, mag].                   *)
(***************************************************************************)
EXTENDS Naturals, Sequences

(***************************************************************************)
(* Limb arithmetic.                                                        *)
(***************************************************************************)
RECURSIVE Norm(_)
Norm(a) == IF a # <<>> /\ a[Len(a)] = 0 THEN Norm(SubSeq(a, 1, Len(a) - 1)) ELSE a

\* a * m + c, for a small multiplier m and carry c.
RECURSIVE MulAdd(_, _, _)
MulAdd(a, m, c) ==
  IF a = <<>>
  THEN IF c = 0 THEN <<>> ELSE <<c % 256>> \o MulAdd(<<>>, m, c \div 256)
  ELSE LET v == a[1] * m + c
       IN Norm(<<v % 256>> \o MulAdd(Tail(a), m, v \div 256))

Nat2L(n) == MulAdd(<<>>, 1, n)

\* 2^n: limb n \div 8 + 1 holds 2^(n % 8).
Pow2(n) == [i \in 1..(n \div 8 + 1) |-> IF i = n \div 8 + 1 THEN 2^(n % 8) ELSE 0]

\* a + b + carry.
RECURSIVE AddC(_, _, _)
AddC(a, b, c) ==
  IF a = <<>> /\ b = <<>> THEN Nat2L(c)
  ELSE LET v == (IF a = <<>> THEN 0 ELSE a[1]) + (IF b = <<>> THEN 0 ELSE b[1]) + c
       IN <<v % 256>> \o AddC(IF a = <<>> THEN <<>> ELSE Tail(a),
                              IF b = <<>> THEN <<>> ELSE Tail(b), v \div 256)
LAdd(a, b) == Norm(AddC(a, b, 0))

\* a * b, limb by limb of a.
RECURSIVE LMul(_, _)
LMul(a, b) ==
  IF a = <<>> THEN <<>>
  ELSE LAdd(MulAdd(b, a[1], 0), Norm(<<0>> \o LMul(Tail(a), b)))

\* 10^n by squaring.
RECURSIVE Pow10(_)
Pow10(n) ==
  IF n = 0 THEN <<1>>
  ELSE IF n % 2 = 0 THEN LET h == Pow10(n \div 2) IN LMul(h, h)
  ELSE MulAdd(Pow10(n - 1), 10, 0)

\* a - b - borrow, for a >= b.
RECURSIVE SubB(_, _, _)
SubB(a, b, br) ==
  IF a = <<>> THEN <<>>
  ELSE LET bi == IF b = <<>> THEN 0 ELSE b[1]
           v  == a[1] - bi - br
       IN <<(v + 256) % 256>> \o
            SubB(Tail(a), IF b = <<>> THEN <<>> ELSE Tail(b), IF v < 0 THEN 1 ELSE 0)
LSub(a, b) == Norm(SubB(a, b, 0))

\* a < b, on normalized limbs.
LLess(a, b) ==
  \/ Len(a) < Len(b)
  \/ /\ Len(a) = Len(b)
     /\ \E i \in 1..Len(a) : a[i] < b[i] /\ \A j \in (i + 1)..Len(a) : a[j] = b[j]

LLeq(a, b) == a = b \/ LLess(a, b)

\* a modulo 2^(8 * bytes): the low limbs.
Low(a, bytes) == Norm(SubSeq(a, 1, IF Len(a) < bytes THEN Len(a) ELSE bytes))

\* The number of decimal digits of a.
DecimalWidth(a) == CHOOSE k \in 1..40 : LLess(a, Pow10(k)) /\ ~LLess(a, Pow10(k - 1))

Pos(m) == [neg |-> FALSE, mag |-> m]
Neg(m) == [neg |-> m # <<>>, mag |-> m]

(***************************************************************************)
(* NumericLimits<T> for the C++ integer types (lines 24-39), by width.     *)
(***************************************************************************)
Bits == [int8_t |-> 8, int16_t |-> 16, int32_t |-> 32, int64_t |-> 64,
         uint8_t |-> 8, uint16_t |-> 16, uint32_t |-> 32, uint64_t |-> 64]
IntTypes == DOMAIN Bits
SignedTypes == {"int8_t", "int16_t", "int32_t", "int64_t"}

\* std::numeric_limits<T>::lowest() and ::max() of a two's-complement T.
Minimum(T) == IF T \in SignedTypes THEN Neg(Pow2(Bits[T] - 1)) ELSE Pos(<<>>)
Maximum(T) ==
  Pos(LSub(Pow2(IF T \in SignedTypes THEN Bits[T] - 1 ELSE Bits[T]), <<1>>))

\* Lines 32-37: std::is_signed and std::is_integral (and is_enum).
IsSigned(T) == T \in SignedTypes \cup {"float", "double", "hugeint_t"}
IsIntegral(T) == T \in IntTypes \cup {"hugeint_t", "uhugeint_t"}

(***************************************************************************)
(* hugeint_t and uhugeint_t (lines 41-77): {upper, lower} limbs, upper     *)
(* signed for hugeint_t; the value is upper * 2^64 + lower.                *)
(***************************************************************************)
Huge(upper, lower) == [upper |-> upper, lower |-> lower]

\* Mutant: the lower limb of the maximum taken from int64_t.
HugeintMaximumLowerSigned == Huge(Maximum("int64_t"), Maximum("int64_t").mag)

\* Lines 43-48.
HugeintMinimum == Huge(Minimum("int64_t"), Nat2L(0))
HugeintMaximum == Huge(Maximum("int64_t"), Maximum("uint64_t").mag)

\* Lines 62-67.
UhugeintMinimum == Huge(Pos(<<>>), <<>>)
UhugeintMaximum == Huge(Maximum("uint64_t"), Maximum("uint64_t").mag)

\* The value of a limb pair.
Padded(l) == l \o [i \in 1..(8 - Len(l)) |-> 0]
HugeValue(h) ==
  IF ~h.upper.neg
  THEN Pos(Norm(Padded(h.lower) \o h.upper.mag))
  ELSE Neg(LSub(<<0, 0, 0, 0, 0, 0, 0, 0>> \o h.upper.mag, h.lower))

\* Mutant: uint64_t given int64_t's digit count.
DigitsUint64Copied ==
  [int8_t |-> 3, int16_t |-> 5, int32_t |-> 10, int64_t |-> 19,
   uint8_t |-> 3, uint16_t |-> 5, uint32_t |-> 10, uint64_t |-> 19,
   float |-> 127, double |-> 250, hugeint_t |-> 39, uhugeint_t |-> 39]

\* Lines 55-57, 74-76, 79-127: Digits() of each specialization.
Digits == [int8_t |-> 3, int16_t |-> 5, int32_t |-> 10, int64_t |-> 19,
           uint8_t |-> 3, uint16_t |-> 5, uint32_t |-> 10, uint64_t |-> 20,
           float |-> 127, double |-> 250, hugeint_t |-> 39, uhugeint_t |-> 39]

(***************************************************************************)
(* A caller's use of NumericLimits<T>: the answers of its static members   *)
(* for one instantiation, the extremes as signed limb numbers.             *)
(***************************************************************************)
VARIABLE query   \* the last NumericLimits<T> instantiation asked, and its answers

LimitTypes == IntTypes \cup {"hugeint_t", "uhugeint_t"}

\* The width of T's two's-complement or unsigned representation.
Width(T) == IF T \in IntTypes THEN Bits[T] ELSE 128

NoQuery == [type |-> "none", min |-> Pos(<<>>), max |-> Pos(<<>>),
            digits |-> 0, signed |-> FALSE, integral |-> FALSE]

LimitsInit == query = NoQuery

\* Minimum(), Maximum(), Digits(), IsSigned() and IsIntegral() of
\* NumericLimits<T> (lines 24-127).
Query(T) ==
  query' = [type     |-> T,
            min      |-> CASE T = "hugeint_t"  -> HugeValue(HugeintMinimum)
                           [] T = "uhugeint_t" -> HugeValue(UhugeintMinimum)
                           [] OTHER            -> Minimum(T),
            max      |-> CASE T = "hugeint_t"  -> HugeValue(HugeintMaximum)
                           [] T = "uhugeint_t" -> HugeValue(UhugeintMaximum)
                           [] OTHER            -> Maximum(T),
            digits   |-> Digits[T],
            signed   |-> IsSigned(T),
            integral |-> IsIntegral(T)]

(***************************************************************************)
(* Properties.                                                             *)
(***************************************************************************)

(* Digits() of every integer type, hugeint_t and uhugeint_t included, is  *)
(* the number of decimal digits of its Maximum(): the hand-written table  *)
(* of lines 79-127 and of the specializations agrees with the extremes a  *)
(* caller gets from the same NumericLimits<T>.  (float's 127 and double's *)
(* 250 are not digit counts of a maximum.)                                 *)
DigitsMatchMaximum ==
  query.type # "none" => query.digits = DecimalWidth(query.max.mag)

(* The extremes of every integral NumericLimits<T> are those of a         *)
(* two's-complement (IsSigned) or unsigned integer of T's width: for      *)
(* hugeint_t and uhugeint_t the {upper, lower} limb pairs of lines 41-67  *)
(* denote -2^127 .. 2^127 - 1 and 0 .. 2^128 - 1.                         *)
HugeLimbsAreExtremes ==
  query.type # "none" =>
    IF query.signed
    THEN /\ query.min = Neg(Pow2(Width(query.type) - 1))
         /\ query.max = Pos(LSub(Pow2(Width(query.type) - 1), <<1>>))
    ELSE /\ query.min = Pos(<<>>)
         /\ query.max = Pos(LSub(Pow2(Width(query.type)), <<1>>))
=============================================================================
