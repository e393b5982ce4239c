-------------------------- MODULE JsonBinaryNumber --------------------------
(***************************************************************************)
(* The numbers of json.hpp as the binary formats see them.  A 64-bit       *)
(* number is the sequence of its 8 bytes, the highest first: unsigned, or  *)
(* signed in two's complement.  A double is a record: `bits` is its        *)
(* significand without the zeros at both ends, `low` the exponent of the   *)
(* last bit, so that every format that can hold the value has the same.    *)
(***************************************************************************)
EXTENDS Integers, Sequences, SequencesExt

\* A number below 2^24 in k bytes; the value of a number, 2^24 if it is not less.
OfNat(n, k) ==
  [i \in 1 .. k |-> IF k - i < 3 THEN (n \div (256 ^ (k - i))) % 256 ELSE 0]
Huge == 2 ^ 24
ToNat(n) ==
  IF \E i \in 1 .. 5 : n[i] # 0 THEN Huge ELSE n[6] * 65536 + n[7] * 256 + n[8]

Fill(byte, k) == [i \in 1 .. k |-> byte]
Negative(n) == n[1] >= 128
Low(n, k) == SubSeq(n, 9 - k, 8)

\* static_cast to 64 bits from fewer, unsigned and signed.
Extend(bytes) == Fill(0, 8 - Len(bytes)) \o bytes
SignExtend(bytes) == Fill(IF bytes[1] >= 128 THEN 255 ELSE 0, 8 - Len(bytes)) \o bytes

\* n <= numeric_limits<uintN_t>::max(), for unsigned n; and for signed n,
\* numeric_limits<intN_t>::min() <= n <= max(), in k bytes.
FitsIn(n, k) == Extend(Low(n, k)) = n
FitsSigned(n, k) == SignExtend(Low(n, k)) = n

\* -1 - n
Complement(n) == [i \in 1 .. 8 |-> 255 - n[i]]

\* Both sequences as unsigned numbers of 64 bits.
RECURSIVE LessBytes(_, _)
LessBytes(m, n) ==
  m # <<>> /\ (m[1] < n[1] \/ (m[1] = n[1] /\ LessBytes(Tail(m), Tail(n))))

-----------------------------------------------------------------------------
(* Decimal digits of an unsigned number, and back: <<>> if it needs more   *)
(* than 64 bits.                                                           *)
RECURSIVE DivideByTen(_, _), Decimals(_), TimesTen(_, _)
DivideByTen(n, carry) ==
  IF n = <<>> THEN [quotient |-> <<>>, rest |-> carry]
  ELSE LET d == carry * 256 + n[1]
           r == DivideByTen(Tail(n), d % 10)
       IN  [quotient |-> <<d \div 10>> \o r.quotient, rest |-> r.rest]
Decimals(n) ==
  LET d == DivideByTen(n, 0) IN
  (IF d.quotient = Fill(0, 8) THEN <<>> ELSE Decimals(d.quotient)) \o <<48 + d.rest>>

TimesTen(n, carry) ==
  IF n = <<>> THEN [product |-> <<>>, rest |-> carry]
  ELSE LET d == 10 * Last(n) + carry
           r == TimesTen(Front(n), d \div 256)
       IN  [product |-> Append(r.product, d % 256), rest |-> r.rest]
OfDecimals(digits) ==
  LET next(n, digit) ==
        IF n = <<>> THEN <<>>
        ELSE LET r == TimesTen(n, digit - 48) IN IF r.rest = 0 THEN r.product ELSE <<>>
  IN  FoldLeft(next, Fill(0, 8), digits)

-----------------------------------------------------------------------------
(* IEEE 754 floating-point numbers: exponent and fraction have so many     *)
(* bits.                                                                   *)
Half == [exponent |-> 5, fraction |-> 10]
Single == [exponent |-> 8, fraction |-> 23]
Double == [exponent |-> 11, fraction |-> 52]

Bias(f) == 2 ^ (f.exponent - 1) - 1
Special(kind, minus) == [kind |-> kind, minus |-> minus, bits |-> <<>>, low |-> 0]
Finite(minus, bits, low) == [kind |-> "finite", minus |-> minus, bits |-> bits, low |-> low]
NaN == Special("nan", FALSE)
Top(x) == x.low + Len(x.bits) - 1

\* The value is one of the format's: static_cast to it and back changes nothing.
Represents(f, x) ==
  x.kind = "finite" =>
    /\ Len(x.bits) <= f.fraction + 1
    /\ Top(x) <= Bias(f)
    /\ x.low >= 1 - Bias(f) - f.fraction

Bits(n, k) == [i \in 1 .. k |-> (n \div (2 ^ (k - i))) % 2]
RECURSIVE OfBits(_)
OfBits(bits) == IF bits = <<>> THEN 0 ELSE 2 * OfBits(Front(bits)) + Last(bits)
BytesOfBits(bits) ==
  [i \in 1 .. Len(bits) \div 8 |-> OfBits(SubSeq(bits, 8 * i - 7, 8 * i))]
BitsOfBytes(bytes) == FlattenSeq([i \in DOMAIN bytes |-> Bits(bytes[i], 8)])

\* The bytes of a value in a format that has it.
Encoded(f, x) ==
  LET normal == Top(x) >= 1 - Bias(f)
      exponent == CASE x.kind = "zero" -> 0
                    [] x.kind \in {"nan", "infinite"} -> 2 ^ f.exponent - 1
                    [] OTHER -> IF normal THEN Top(x) + Bias(f) ELSE 0
      shown == IF normal THEN Tail(x.bits)
               ELSE Fill(0, 0 - Bias(f) - Top(x)) \o x.bits
      fraction == CASE x.kind = "nan" -> <<1>> \o Fill(0, f.fraction - 1)
                    [] x.kind \in {"zero", "infinite"} -> Fill(0, f.fraction)
                    [] OTHER -> shown \o Fill(0, f.fraction - Len(shown))
  IN  BytesOfBits(<<IF x.minus THEN 1 ELSE 0>> \o Bits(exponent, f.exponent) \o fraction)

\* The value of a significand whose last bit has the exponent `low`.
Normalised(minus, bits, low) ==
  LET Between(ones) ==
        IF ones = {} THEN Special("zero", minus)
        ELSE Finite(minus, SubSeq(bits, Min(ones), Max(ones)), low + Len(bits) - Max(ones))
  IN  Between({i \in DOMAIN bits : bits[i] = 1})

\* Mutant: a whole significand has the hidden bit whatever the exponent.
OfFieldsHidden(f, minus, exponent, fraction) ==
  IF exponent = 2 ^ f.exponent - 1 THEN NaN
  ELSE Normalised(minus, <<1>> \o fraction, exponent - Bias(f) - f.fraction)

\* The value of the exponent and the fraction in the bytes.
OfFields(f, minus, exponent, fraction) ==
  CASE exponent = 2 ^ f.exponent - 1 ->
         IF fraction = Fill(0, f.fraction) THEN Special("infinite", minus) ELSE NaN
    [] exponent = 0 -> Normalised(minus, fraction, 1 - Bias(f) - f.fraction)
    [] OTHER -> Normalised(minus, <<1>> \o fraction, exponent - Bias(f) - f.fraction)

\* The value of the bytes.
Decoded(f, bytes) ==
  LET OfAll(bits) == OfFields(f, bits[1] = 1, OfBits(SubSeq(bits, 2, f.exponent + 1)),
                              SubSeq(bits, f.exponent + 2, Len(bits)))
  IN  OfAll(BitsOfBytes(bytes))
=============================================================================
