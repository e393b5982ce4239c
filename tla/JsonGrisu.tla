------------------------------ MODULE JsonGrisu ------------------------------
(***************************************************************************)
(* namespace dtoa_impl of json.hpp: the digits and the decimal exponent    *)
(* Grisu2 finds for a positive float.  The code's words are 64 bits wide   *)
(* and its floats have 53; here every width is a constant.                 *)
(*                                                                         *)
(* A float is its bits, [E, F]: the biased exponent and the fraction.  A   *)
(* diyfp [f, e] is f * 2^e.  `asserted` gathers the assertions of the code.*)
(***************************************************************************)
EXTENDS Integers, Sequences

CONSTANTS kPrecision,  \* q, the bits of a diyfp
          FloatDigits, \* p, the bits of a float, the hidden one included
          MaxExponent, \* of the floats
          kAlpha, kGamma,
          kCachedPowersMinDecExp, kCachedPowersMaxDecExp, kCachedPowersDecStep

ASSUME GrisuAssumption ==
  /\ kPrecision \in {2 * h : h \in 1 .. 7}
  /\ FloatDigits \in Nat \ {0} /\ kPrecision >= FloatDigits + 3
  /\ MaxExponent \in Nat \ {0}
  /\ kAlpha >= 4 - kPrecision /\ kGamma < 0

kBias == MaxExponent - 1 + (FloatDigits - 1)
kMinExp == 1 - kBias
kHiddenBit == 2 ^ (FloatDigits - 1)
kMaxDigits10 == 2 + (FloatDigits * 78913) \div 2 ^ 18

-----------------------------------------------------------------------------
(* struct diyfp.                                                           *)
Diyfp(f, e) == [f |-> f, e |-> e]

\* The product by halves of a word, the last bit that is dropped rounded up.
Half == 2 ^ (kPrecision \div 2)
Mul(x, y) ==
  LET p0 == (x.f % Half) * (y.f % Half)
      p1 == (x.f % Half) * (y.f \div Half)
      p2 == (x.f \div Half) * (y.f % Half)
      p3 == (x.f \div Half) * (y.f \div Half)
      Q == p0 \div Half + (p1 % Half) + (p2 % Half) + Half \div 2
  IN  Diyfp(p3 + p2 \div Half + p1 \div Half + Q \div Half, x.e + y.e + kPrecision)

RECURSIVE Normalize(_)
Normalize(x) ==
  IF x.f \div 2 ^ (kPrecision - 1) = 0 THEN Normalize(Diyfp(2 * x.f, x.e - 1)) ELSE x

NormalizeTo(x, target_exponent) ==
  Diyfp(x.f * 2 ^ (x.e - target_exponent), target_exponent)

\* compute_boundaries: the float and the middles to its neighbours; the one
\* below is closer where the exponent changes.
FloatValue(b) ==
  IF b.E = 0 THEN Diyfp(b.F, kMinExp) ELSE Diyfp(b.F + kHiddenBit, b.E - kBias)

LowerIsCloserNever(b) == FALSE
LowerIsCloser(b) == b.F = 0 /\ b.E > 1
ComputeBoundaries(b) ==
  LET v == FloatValue(b)
      plus == Normalize(Diyfp(2 * v.f + 1, v.e - 1))
      minus == IF LowerIsCloser(b) THEN Diyfp(4 * v.f - 1, v.e - 2)
               ELSE Diyfp(2 * v.f - 1, v.e - 1)
  IN  [w |-> Normalize(v), minus |-> NormalizeTo(minus, plus.e), plus |-> plus]

-----------------------------------------------------------------------------
(* kCachedPowers: 10^k to kPrecision bits, f * 2^e.                        *)
BitLength(n) == CHOOSE i \in 1 .. 31 : n \div 2 ^ (i - 1) = 1

PowerOf10(k) ==
  LET t == 10 ^ (IF k < 0 THEN -k ELSE k)
      e == BitLength(t) - kPrecision
      n == kPrecision - 1 + BitLength(t)
  IN  IF k < 0 THEN Diyfp((2 ^ n + t \div 2) \div t, -n)
      ELSE IF e <= 0 THEN Diyfp(t * 2 ^ (-e), e)
      ELSE Diyfp((t + 2 ^ (e - 1)) \div 2 ^ e, e)

\* The least entry of the table, in steps of kCachedPowersDecStep, that is at
\* least 10^ceil((kAlpha - e - 1) * log10(2)).
GetCachedPower(e) ==
  LET f == kAlpha - e - 1
      k == IF f > 0 THEN (f * 78913) \div 2 ^ 18 + 1 ELSE -((-f * 78913) \div 2 ^ 18)
      index == (k - kCachedPowersMinDecExp + kCachedPowersDecStep - 1)
               \div kCachedPowersDecStep
      cached == kCachedPowersMinDecExp + index * kCachedPowersDecStep
      c == PowerOf10(cached)
  IN  [k |-> cached, c |-> c,
       asserted |-> /\ cached \in kCachedPowersMinDecExp .. kCachedPowersMaxDecExp
                    /\ c.e + e + kPrecision \in kAlpha .. kGamma]

-----------------------------------------------------------------------------
(* grisu2_digit_gen.  `g` is its state: the digits so far as a number, how *)
(* many they are, the exponent of the last one, delta and dist.            *)
RECURSIVE FindLargestPow10(_)
FindLargestPow10(n) ==
  IF n < 10 THEN [k |-> 1, pow10 |-> 1]
  ELSE LET r == FindLargestPow10(n \div 10) IN [k |-> r.k + 1, pow10 |-> 10 * r.pow10]

\* grisu2_round: the last digit goes down while that is closer to w.
RECURSIVE Grisu2Round(_, _, _)
Grisu2Round(g, rest, ten_k) ==
  IF /\ rest < g.dist
     /\ g.delta - rest >= ten_k
     /\ rest + ten_k < g.dist \/ g.dist - rest > rest + ten_k - g.dist
  THEN Grisu2Round([g EXCEPT !.buffer = @ - 1, !.asserted = @ /\ g.buffer % 10 # 0],
                   rest + ten_k, ten_k)
  ELSE g

NextDigit(g, d, exponent) ==
  [g EXCEPT !.buffer = 10 * @ + d, !.len = @ + 1, !.exponent = exponent,
            !.asserted = @ /\ d <= 9]

\* The digits of the fraction p2 / one, which may need more than the integral
\* part gave.
RECURSIVE Fraction(_, _, _)
Fraction(g, p2, one) ==
  LET h == [NextDigit(g, (10 * p2) \div one, g.exponent - 1) EXCEPT
              !.delta = 10 * @, !.dist = 10 * @,
              !.asserted = @ /\ 10 * p2 < 2 ^ kPrecision]
      r == (10 * p2) % one
  IN  IF r <= h.delta THEN Grisu2Round(h, r, one) ELSE Fraction(h, r, one)

\* The digits of the integral part p1, of which the next counts pow10 = 10^(n - 1).
RECURSIVE Integral(_, _, _, _, _)
Integral(g, p1, p2, n, one) ==
  LET pow10 == 10 ^ (n - 1)
      h == NextDigit(g, p1 \div pow10, g.exponent)
      rest == (p1 % pow10) * one + p2
  IN  IF n = 0 THEN Fraction([g EXCEPT !.asserted = @ /\ p2 > g.delta], p2, one)
      ELSE IF rest <= g.delta
      THEN Grisu2Round([h EXCEPT !.exponent = @ + n - 1], rest, pow10 * one)
      ELSE Integral(h, p1 % pow10, p2, n - 1, one)

DigitGen(exponent, M_minus, w, M_plus) ==
  LET one == 2 ^ (-M_plus.e)
      p1 == M_plus.f \div one
      delta == M_plus.f - M_minus.f
      dist == M_plus.f - w.f
      Generated(g) == [g EXCEPT !.asserted = @ /\ g.len <= kMaxDigits10]
  IN  Generated(Integral([buffer |-> 0, len |-> 0, exponent |-> exponent,
                          delta |-> delta, dist |-> dist,
                          asserted |-> p1 > 0 /\ dist \in 0 .. delta],
                         p1, M_plus.f % one, FindLargestPow10(p1).k, one))

-----------------------------------------------------------------------------
(* grisu2: scaled into [kAlpha, kGamma], the interval made smaller by a    *)
(* unit at each end, because the products are rounded.                     *)
Shrunk(minus, plus) == <<Diyfp(minus.f + 1, minus.e), Diyfp(plus.f - 1, plus.e)>>

Grisu2Scaled(m, cached) ==
  LET M == Shrunk(Mul(m.minus, cached.c), Mul(m.plus, cached.c)) IN
  [DigitGen(-cached.k, M[1], Mul(m.w, cached.c), M[2])
     EXCEPT !.asserted = @ /\ cached.asserted]
Grisu2(b) ==
  LET Of(m) == Grisu2Scaled(m, GetCachedPower(m.plus.e)) IN Of(ComputeBoundaries(b))
=============================================================================
