---------------------------- MODULE MCWideDecimal ----------------------------
(***************************************************************************)
(* WideDecimal checked against integer and rational arithmetic, one job of *)
(* arguments at a time: the limb operations on every pair of operands, and *)
(* conversions from the author's fractions to wire bits and back.          *)
(***************************************************************************)
EXTENDS WideDecimal

VARIABLES job,      \* the arguments
          answer    \* what the operators returned, or Pending

vars == <<job, answer>>

Pending == [done |-> FALSE]

Value(w) == FoldLeftDomain(LAMBDA sum, i : sum + w[i] * LimbBase ^ (i - 1), 0, w)

-----------------------------------------------------------------------------
WideInit == job \in [l : Wide, r : Wide] /\ answer = Pending

Calculate ==
  /\ answer = Pending
  /\ answer' = [done |-> TRUE,
                sum |-> Add(job.l, job.r), difference |-> Subtract(job.l, job.r),
                product |-> Multiply(job.l, job.r), quotient |-> Divide(job.l, job.r),
                order |-> Compare(job.l, job.r)]
  /\ UNCHANGED job

WideSpec == WideInit /\ [][Calculate]_vars

Top == LimbBase ^ LimbCount

\* Limb arithmetic is exact or refuses: a sum or product is refused exactly when it needs
\* more than the fixed limbs, a difference wraps modulo their range, and the long division
\* returns quotient and remainder even when the shifted remainder needs one bit more.
WideExact ==
  answer.done =>
    LET l == Value(job.l)
        r == Value(job.r)
        exact(a, n) == a = IF n < Top THEN Exactly([i \in Limbs |-> (n \div LimbBase ^ (i - 1))
                                                                      % LimbBase])
                           ELSE Refused
    IN /\ exact(answer.sum, l + r) /\ exact(answer.product, l * r)
       /\ Value(answer.difference) = (l - r) % Top
       /\ answer.order = (IF l < r THEN -1 ELSE IF l > r THEN 1 ELSE 0)
       /\ IF r = 0 THEN answer.quotient = Refused
          ELSE /\ Value(answer.quotient.value.q) = l \div r
               /\ Value(answer.quotient.value.r) = l % r

-----------------------------------------------------------------------------
\* The author's fractions, and the parts of the decimals given to Encode.
Fraction(n, d) == [num |-> n, den |-> d]
Scales == {Fraction(1, 1), Fraction(-3, 4), Fraction(127, 100), Fraction(-128, 1),
           Fraction(6, 20), Fraction(1, 3), Fraction(0, 1), Fraction(1, 8), Fraction(5, 200)}
Biases == {Fraction(0, 1), Fraction(-1, 10), Fraction(-128, 25), Fraction(1, 0)}
Coefficients == {-128, -51, -1, 1, 25, 100}
Places == {-1, 0, 1, 2, 3}

DecimalJobs ==
  {j \in [scale : Scales, bias : Biases, type : {"UINT64", "INT64"}, width : {1, 2, 4},
          raw : {-1} \cup 0 .. Radix ^ 2 - 1 \cup {Radix ^ 4 \div 2 - 1, Radix ^ 4 \div 2},
          logical : [coefficient : Coefficients \cup {0}, scale : Places \cup {0}]] :
     \/ j.raw = -1
     \/ j.raw < Radix ^ j.width /\ j.logical = Decimal(0, 0)}

DecimalInit == job \in DecimalJobs /\ answer = Pending

\* A raw of -1 marks a job that encodes its logical value; the others decode their raw bits.
Convert ==
  /\ answer = Pending
  /\ \E conv \in {DeriveLinearConversion(job.type, job.scale, job.bias)} :
       answer' = [done |-> TRUE, conv |-> conv.status,
                  out |-> CASE conv.status /= "OK" -> [status |-> "NOT_RUN"]
                            [] job.raw = -1 -> EncodeDecimal(conv.value, job.logical, job.width)
                            [] OTHER        -> DecodeDecimal(conv.value, job.raw, job.width)]
  /\ UNCHANGED job

DecimalSpec == DecimalInit /\ [][Convert]_vars

\* The rational raw * scale + bias is numerator(raw) / Denominator.
Denominator == job.scale.den * job.bias.den
Numerator(raw) == raw * job.scale.num * job.bias.den + job.bias.num * job.scale.den

IsValueOf(raw, d) == d.coefficient * Denominator = Numerator(raw) * 10 ^ d.scale

RawRange ==
  IF job.type = "UINT64" THEN 0 .. Radix ^ job.width - 1
  ELSE -(Radix ^ job.width \div 2) .. Radix ^ job.width \div 2 - 1

SignedRaw(bits) == IF job.type = "UINT64" THEN bits ELSE InterpretSigned(bits, job.width)

Terminates(f) == (f.num * 10 ^ MaxPlaces) % f.den = 0

\* The compiler accepts a conversion exactly when its scale is not zero, both denominators
\* are in range and both fractions end within the supported decimal places.
DeriveAccepts ==
  answer.done =>
    (answer.conv = "OK" <=> /\ job.scale.num /= 0
                            /\ {job.scale.den, job.bias.den} \subseteq 1 .. 10 ^ MaxPlaces
                            /\ Terminates(job.scale) /\ Terminates(job.bias))

\* Decode returns raw * scale + bias exactly and in lowest terms, and calls it out of range
\* only when no decimal with an int64 coefficient and the places it may keep has that value;
\* the fixed limbs never overflow on an accepted conversion.
DecodeExact ==
  (answer.done /\ job.raw /= -1 /\ answer.conv = "OK") =>
    LET raw == SignedRaw(job.raw)
        out == answer.out
        fits(k) == /\ (Numerator(raw) * 10 ^ k) % Denominator = 0
                   /\ (Numerator(raw) * 10 ^ k) \div Denominator \in MinInt64 .. MaxInt64
    IN \/ /\ out.status = "OK" /\ IsValueOf(raw, out.value)
          /\ out.value.scale = 0 \/ out.value.coefficient % 10 /= 0
       \/ out.status = "LOGICAL_OUT_OF_RANGE" /\ ~\E k \in 0 .. MaxPlaces : fits(k)

\* The bits decode to a decimal equal to d.
IsEqualTo(back, d) == back.status = "OK" /\ DecimalEqual(back.value, d)
ReadsAs(conv, bits, d) == IsEqualTo(DecodeDecimal(conv.value, bits, job.width), d)

\* Encode returns the one raw integer with that value or says why there is none: no integer
\* solves the equation, or the integer does not fit the wire width.  What it returns decodes
\* to an equal decimal.
EncodeExact ==
  (answer.done /\ job.raw = -1 /\ answer.conv = "OK") =>
    LET out == answer.out
        d   == job.logical
        n   == (d.coefficient * Denominator - job.bias.num * job.scale.den * 10 ^ d.scale)
        per == job.scale.num * job.bias.den * 10 ^ d.scale
        abs(x) == IF x < 0 THEN -x ELSE x
        divides == abs(n) % abs(per) = 0
    IN IF d.scale \notin 0 .. MaxPlaces THEN out.status = "DECIMAL_SCALE_OUT_OF_RANGE"
       ELSE \/ /\ out.status = "OK" /\ SignedRaw(out.value) \in RawRange
               /\ IsValueOf(SignedRaw(out.value), d)
               /\ ReadsAs(DeriveLinearConversion(job.type, job.scale, job.bias), out.value, d)
            \/ out.status = "RAW_NOT_INTEGRAL" /\ ~divides
            \/ out.status = "RAW_OUT_OF_RANGE" /\ divides /\ ~\E r \in RawRange : IsValueOf(r, d)
=============================================================================
