----------------------------- MODULE WideDecimal -----------------------------
(***************************************************************************)
(* The numbers of a record.  Integers on the wire: which values fit a      *)
(* width, how they are stored and read back in both byte orders, bit       *)
(* fields of a container, and the two integrity algorithms.  Then exact    *)
(* linear conversions between a wire integer and a decimal:                *)
(*    logical = raw * scale + bias,                                        *)
(* first derived from the author's two fractions into coefficients over a  *)
(* common power of ten, then evaluated in a fixed number of limbs with no  *)
(* rounding.  A Wide is a sequence of limbs, the low one first; it is a    *)
(* magnitude, its sign is kept apart.                                      *)
(*                                                                         *)
(* The program has ByteBits = 8, MaxWidth = 8, 8 limbs of 32 bits and 18   *)
(* decimal places; two limbs make a std::uint64_t, so                      *)
(* 2 * LimbBits = ByteBits * MaxWidth.  The sizes are parameters so that a *)
(* run can enumerate every value: the arithmetic, with its wrap-around and *)
(* its sign bit, is the same at any size.  A byte offset is 0-based.       *)
(***************************************************************************)
EXTENDS Integers, Sequences, SequencesExt, Bitwise

CONSTANTS ByteBits,   \* bits of a byte
          MaxWidth,   \* bytes of the widest integer (std::uint64_t)
          LimbBits, LimbCount, MaxPlaces

ASSUME WordAssumption == 2 * LimbBits = ByteBits * MaxWidth

-----------------------------------------------------------------------------
(***************************************************************************)
(* Integers on the wire.                                                   *)
(***************************************************************************)
Radix == 2 ^ ByteBits
Byte == 0 .. Radix - 1
ByteOrder == {"NOT_APPLICABLE", "BIG", "LITTLE"}

WidthValid(width) == width \in 1 .. MaxWidth

FitsUnsignedWidth(value, width) == WidthValid(width) /\ value < Radix ^ width

FitsUnsignedBits(value, bits) == bits \in 1 .. ByteBits * MaxWidth /\ value < 2 ^ bits

FitsSignedWidth(value, width) ==
  LET half == Radix ^ width \div 2
  IN WidthValid(width) /\ value \in -half .. half - 1

\* Two's complement read back from the unsigned bit pattern of a width.
InterpretSigned(raw, width) ==
  LET modulus == Radix ^ width IN IF raw < modulus \div 2 THEN raw ELSE raw - modulus

\* The bit pattern a signed value is stored as, masked to the width.
SignedPattern(value, width) == value % Radix ^ width

ExtractBitfield(container, shift, bits) == (container \div 2 ^ shift) % 2 ^ bits

\* (container & ~mask) | ((raw << shift) & mask)
InsertBitfield(container, shift, bits, raw) ==
  container + ((raw % 2 ^ bits) - ExtractBitfield(container, shift, bits)) * 2 ^ shift

IsIntegerByteOrderValid(order, width) == width = 1 \/ order \in {"BIG", "LITTLE"}

MostFirst(bytes, order) == IF Len(bytes) = 1 \/ order = "BIG" THEN bytes ELSE Reverse(bytes)

\* The unsigned value of width bytes at a 0-based offset.
LoadUnsigned(data, offset, width, order) ==
  FoldLeft(LAMBDA value, byte : value * Radix + byte, 0,
           MostFirst(SubSeq(data, offset + 1, offset + width), order))

LoadPossible(width, order) == WidthValid(width) /\ IsIntegerByteOrderValid(order, width)

\* StoreUnsigned refuses what LoadPossible or FitsUnsignedWidth rules out (StorePossible).
StoreUnsigned(value, data, offset, width, order) ==
  [i \in DOMAIN data |->
     IF i \in offset + 1 .. offset + width
     THEN LET place == IF order = "BIG" THEN offset + width - i ELSE i - offset - 1
          IN (value \div Radix ^ place) % Radix
     ELSE data[i]]

StorePossible(value, width, order) ==
  IsIntegerByteOrderValid(order, width) /\ FitsUnsignedWidth(value, width)

-----------------------------------------------------------------------------
Region(data, offset, length) == SubSeq(data, offset + 1, offset + length)

\* The accumulator is one byte wide.
Sum8(data, offset, length) ==
  FoldLeft(LAMBDA sum, byte : (sum + byte) % Radix, 0, Region(data, offset, length))

ReverseLowBits(value, width) ==
  FoldLeft(LAMBDA reversed, bit : reversed * 2 + ((value \div 2 ^ bit) % 2),
           0, [i \in 1 .. width |-> i - 1])

Reflected(value, width, reflect) == IF reflect THEN ReverseLowBits(value, width) ELSE value

\* The register without its highest bit, which decides whether the polynomial is divided out.
CrcBit(crc, v) ==
  ((v * 2) % 2 ^ crc.width) ^^ (IF v >= 2 ^ (crc.width - 1) THEN crc.polynomial ELSE 0)

\* One byte through the register, most significant bit first.
CrcByte(crc, value, input) ==
  FoldLeft(LAMBDA v, i : CrcBit(crc, v),
           value ^^ (Reflected(input, ByteBits, crc.reflectInput) * 2 ^ (crc.width - ByteBits)),
           [i \in 1 .. ByteBits |-> i])

Crc(crc, data, offset, length) ==
  Reflected(FoldLeft(LAMBDA value, byte : CrcByte(crc, value, byte),
                     crc.initial, Region(data, offset, length)),
            crc.width, crc.reflectOutput) ^^ crc.xorOutput

-----------------------------------------------------------------------------
(***************************************************************************)
(* Limbs and conversions.                                                  *)
(***************************************************************************)
LimbBase == 2 ^ LimbBits
Limbs == 1 .. LimbCount
WordModulus == LimbBase ^ 2          \* 2^64
SignBit == WordModulus \div 2        \* 2^63
MinInt64 == -SignBit
MaxInt64 == SignBit - 1

Wide == [Limbs -> 0 .. LimbBase - 1]

\* The limbs as a tuple, evaluated now rather than at each use.
Tuple(f) == SubSeq(f, 1, LimbCount)
Zero == Tuple([i \in Limbs |-> 0])

Refused == [ok |-> FALSE]
Exactly(w) == [ok |-> TRUE, value |-> w]

From64(v) ==
  Tuple([i \in Limbs |-> IF i <= 2 THEN (v \div LimbBase ^ (i - 1)) % LimbBase ELSE 0])

OrderAt(l, r, i) == IF i = 0 THEN 0 ELSE IF l[i] < r[i] THEN -1 ELSE 1

\* The highest limb that differs decides.
Compare(l, r) == OrderAt(l, r, SelectLastInSeq([k \in Limbs |-> l[k] = r[k]], LAMBDA same : ~same))

IsZero(w) == w = Zero

Add(l, r) ==
  LET carry[i \in 0 .. LimbCount] ==
        IF i = 0 THEN 0 ELSE (l[i] + r[i] + carry[i - 1]) \div LimbBase
  IN IF carry[LimbCount] /= 0 THEN Refused
     ELSE Exactly(Tuple([i \in Limbs |-> (l[i] + r[i] + carry[i - 1]) % LimbBase]))

\* Mutant: a borrow does not make the next limb borrow.
Subtract_NoChain(l, r) ==
  LET borrow[i \in 0 .. LimbCount] == IF i = 0 \/ l[i] >= r[i] THEN 0 ELSE 1
  IN Tuple([i \in Limbs |-> (l[i] - r[i] - borrow[i - 1]) % LimbBase])

\* Modulo 2^256: the borrow out of the highest limb is dropped.
Subtract(l, r) ==
  LET borrow[i \in 0 .. LimbCount] ==
        IF i = 0 \/ l[i] >= r[i] + borrow[i - 1] THEN 0 ELSE 1
  IN Tuple([i \in Limbs |-> (l[i] - r[i] - borrow[i - 1]) % LimbBase])

\* The columns of the schoolbook product, twice as wide as the operands.
Columns(l, r) ==
  [k \in 1 .. 2 * LimbCount |->
     MapThenSumSet(LAMBDA i : l[i] * r[k + 1 - i], {i \in Limbs : k + 1 - i \in Limbs})]

\* Each column keeps its digit and hands the rest to the next one.
Carried(column) ==
  LET carry[k \in 0 .. 2 * LimbCount] ==
        IF k = 0 THEN 0 ELSE (column[k] + carry[k - 1]) \div LimbBase
  IN SubSeq([k \in 1 .. 2 * LimbCount |-> (column[k] + carry[k - 1]) % LimbBase], 1, 2 * LimbCount)

Product(l, r) == Carried(Columns(l, r))

\* Refused when the upper half is not zero.
LowerHalf(product) ==
  IF \E i \in LimbCount + 1 .. 2 * LimbCount : product[i] /= 0 THEN Refused
  ELSE Exactly(SubSeq(product, 1, LimbCount))

Multiply(l, r) == LowerHalf(Product(l, r))

WideBit(w, bit) == (w[bit \div LimbBits + 1] \div 2 ^ (bit % LimbBits)) % 2

ShiftIn(w, bit) ==
  Tuple([i \in Limbs |-> ((w[i] * 2) % LimbBase)
                           + (IF i = 1 THEN bit ELSE w[i - 1] \div 2 ^ (LimbBits - 1))])

TopBit == LimbBits * LimbCount - 1

\* One bit brought down into rest: the divisor is taken off when the remainder needed its
\* 257th bit or is not smaller.
TakeOff(acc, rest, d, bit) ==
  IF WideBit(acc.r, TopBit) = 1 \/ Compare(rest, d) >= 0
  THEN [q |-> Tuple([acc.q EXCEPT ![bit \div LimbBits + 1] = @ + 2 ^ (bit % LimbBits)]),
        r |-> Subtract(rest, d)]
  ELSE [acc EXCEPT !.r = rest]

BringDown(acc, n, d, bit) == TakeOff(acc, ShiftIn(acc.r, WideBit(n, bit)), d, bit)

\* Binary long division from the highest bit: quotient and remainder.
Divide(n, d) ==
  IF IsZero(d) THEN Refused
  ELSE Exactly(FoldRight(LAMBDA bit, acc : BringDown(acc, n, d, bit),
                         [i \in 1 .. TopBit + 1 |-> i - 1], [q |-> Zero, r |-> Zero]))

\* To64 refuses when a higher limb is not zero.
FitsWord(w) == \A i \in 3 .. LimbCount : w[i] = 0
WordOf(w) == w[2] * LimbBase + w[1]

-----------------------------------------------------------------------------
\* Signed magnitudes.
Signed(w, negative) == [magnitude |-> w, negative |-> negative]

Canonical(s) == [s EXCEPT !.negative = @ /\ ~IsZero(s.magnitude)]

Magnitude(v) == IF v < 0 THEN (0 - v) % WordModulus ELSE v

FromSigned(v) == Signed(From64(Magnitude(v)), v < 0)

\* The magnitude an operation returned, with its sign.
WithSign(result, negative) ==
  IF result.ok THEN Exactly(Canonical(Signed(result.value, negative))) ELSE Refused

SignedAdd(l, r) ==
  IF l.negative = r.negative
  THEN WithSign(Add(l.magnitude, r.magnitude), l.negative)
  ELSE Exactly(Canonical(
         IF Compare(l.magnitude, r.magnitude) >= 0
         THEN Signed(Subtract(l.magnitude, r.magnitude), l.negative)
         ELSE Signed(Subtract(r.magnitude, l.magnitude), r.negative)))

SignedMultiply(l, r) ==
  WithSign(Multiply(l.magnitude, r.magnitude), l.negative /= r.negative)

ToSigned(s) ==
  IF ~FitsWord(s.magnitude) \/ WordOf(s.magnitude) > (IF s.negative THEN SignBit ELSE SignBit - 1)
  THEN Refused
  ELSE Exactly(IF s.negative THEN -WordOf(s.magnitude) ELSE WordOf(s.magnitude))

Power10(e) == 10 ^ e

Max2(m, n) == IF m > n THEN m ELSE n

FitsRaw(s, type, width) ==
  /\ WidthValid(width) /\ FitsWord(s.magnitude)
  /\ LET half == Radix ^ width \div 2
         m    == WordOf(s.magnitude)
     IN CASE type = "UINT64" -> ~s.negative /\ m < Radix ^ width
          [] type = "INT64"  -> m <= (IF s.negative THEN half ELSE half - 1)
          [] OTHER           -> FALSE

RawSigned(bits, type, width) ==
  IF type = "UINT64" \/ bits < Radix ^ width \div 2 THEN Signed(From64(bits), FALSE)
  ELSE Canonical(Signed(From64(Radix ^ width - bits), TRUE))

-----------------------------------------------------------------------------
\* A Decimal64 is [coefficient, scale]; a conversion result has a status.
Fails(status) == [status |-> status]
Decimal(c, s) == [coefficient |-> c, scale |-> s]

\* The coefficient without its last digit, as long as that digit is a decimal place and zero.
RECURSIVE Strip(_, _, _)
Strip(w, tenth, scale) ==
  IF scale = 0 \/ ~IsZero(tenth.value.r) THEN [w |-> w, scale |-> scale]
  ELSE Strip(tenth.value.q, Divide(tenth.value.q, From64(10)), scale - 1)

DecimalOf(c, scale) ==
  IF c.ok THEN [status |-> "OK", value |-> Decimal(c.value, scale)]
  ELSE Fails("LOGICAL_OUT_OF_RANGE")

WithoutZeros(s, stripped) ==
  DecimalOf(ToSigned([s EXCEPT !.magnitude = stripped.w]), stripped.scale)

\* Trailing zeros go first, then the coefficient must fit; zero is {0, 0}.
Normalize(s, scale) ==
  IF IsZero(s.magnitude) THEN [status |-> "OK", value |-> Decimal(0, 0)]
  ELSE WithoutZeros(s, Strip(s.magnitude, Divide(s.magnitude, From64(10)), scale))

NormalizeSum(sum, scale) == IF sum.ok THEN Normalize(sum.value, scale) ELSE Fails("INTERNAL_ERROR")

AddBias(conv, scaled) ==
  IF scaled.ok THEN NormalizeSum(SignedAdd(scaled.value, Canonical(conv.bias)), conv.places)
  ELSE Fails("INTERNAL_ERROR")

\* The decimal of a signed wire integer.
DecodeRaw(conv, raw, width) ==
  IF FitsRaw(raw, conv.rawType, width) THEN AddBias(conv, SignedMultiply(raw, Canonical(conv.scale)))
  ELSE Fails("RAW_OUT_OF_RANGE")

DecodeDecimal(conv, bits, width) == DecodeRaw(conv, RawSigned(bits, conv.rawType, width), width)

IsIntegral(d) == IsZero(d.value.r)

\* The two's complement of the raw integer in the field's width.
RawBits(raw, width) ==
  (IF raw.negative THEN (0 - WordOf(raw.magnitude)) % WordModulus ELSE WordOf(raw.magnitude))
    % Radix ^ width

EncodeRaw(conv, raw, width) ==
  IF FitsRaw(raw, conv.rawType, width) THEN [status |-> "OK", value |-> RawBits(raw, width)]
  ELSE Fails("RAW_OUT_OF_RANGE")

EncodeQuotient(conv, d, negative, width) ==
  CASE ~d.ok          -> Fails("INTERNAL_ERROR")
    [] ~IsIntegral(d) -> Fails("RAW_NOT_INTEGRAL")
    [] OTHER          -> EncodeRaw(conv, Canonical(Signed(d.value.q, negative)), width)

EncodeRatio(conv, numer, denom, width) ==
  IF numer.ok
  THEN EncodeQuotient(conv, Divide(numer.value.magnitude, denom.value.magnitude),
                      numer.value.negative /= denom.value.negative, width)
  ELSE Fails("INTERNAL_ERROR")

\* raw = (logical - bias) / scale, the three over one power of ten.
EncodeScaled(conv, value, bias, denom, width) ==
  IF value.ok /\ bias.ok /\ denom.ok
  THEN EncodeRatio(conv, SignedAdd(value.value, [bias.value EXCEPT !.negative = ~@]), denom, width)
  ELSE Fails("INTERNAL_ERROR")

TimesTen(s, e) == SignedMultiply(s, Signed(From64(Power10(e)), FALSE))

EncodeAt(conv, logical, common, width) ==
  EncodeScaled(conv, TimesTen(FromSigned(logical.coefficient), common - logical.scale),
               TimesTen(Canonical(conv.bias), common - conv.places),
               TimesTen(Canonical(conv.scale), common - conv.places), width)

EncodeDecimal(conv, logical, width) ==
  IF logical.scale \in 0 .. MaxPlaces
  THEN EncodeAt(conv, logical, Max2(logical.scale, conv.places), width)
  ELSE Fails("DECIMAL_SCALE_OUT_OF_RANGE")

SameDecimal(l, r) == l.status = "OK" /\ r.status = "OK" /\ l.value = r.value

DecimalEqual(l, r) ==
  /\ {l.scale, r.scale} \subseteq 0 .. MaxPlaces
  /\ SameDecimal(Normalize(FromSigned(l.coefficient), l.scale),
                 Normalize(FromSigned(r.coefficient), r.scale))

-----------------------------------------------------------------------------
\* The compiler's side: from scale and bias fractions to the frozen coefficients.
RECURSIVE GreatestCommonDivisor(_, _)
GreatestCommonDivisor(l, r) == IF r = 0 THEN l ELSE GreatestCommonDivisor(r, l % r)

DividedBy(f, g) ==
  [num |-> IF f.num < 0 THEN -(Magnitude(f.num) \div g) ELSE f.num \div g, den |-> f.den \div g]

Reduce(f) ==
  IF f.num = 0 THEN [num |-> 0, den |-> 1]
  ELSE DividedBy(f, GreatestCommonDivisor(Magnitude(f.num), f.den))

\* Twos and fives of the denominator; anything else makes the decimal infinite.
Multiplicity(den, p) == CHOOSE k \in 0 .. 2 * LimbBits : den % p ^ k = 0 /\ den % p ^ (k + 1) /= 0

PlacesOf(den, twos, fives) ==
  [terminating |-> den = 2 ^ twos * 5 ^ fives, places |-> Max2(twos, fives)]

DecimalPlaces(den) == PlacesOf(den, Multiplicity(den, 2), Multiplicity(den, 5))

PlacesValid(p) == p.terminating /\ p.places <= MaxPlaces

SignedBy(m, negative) == IF m.ok THEN Exactly(Signed(m.value, negative)) ELSE Refused

Coefficient(m, factor, negative) ==
  IF m.ok THEN SignedBy(Multiply(m.value, factor), negative) ELSE Refused

MakeCoefficient(f, own, common) ==
  Coefficient(Multiply(From64(Magnitude(f.num)), From64(Power10(own) \div f.den)),
              From64(Power10(common - own)), f.num < 0)

WithCoefficients(rawType, sc, bc, common) ==
  IF sc.ok /\ bc.ok
  THEN [status |-> "OK", value |-> [rawType |-> rawType, scale |-> sc.value, bias |-> bc.value,
                                   places |-> common]]
  ELSE Fails("ARITHMETIC_OVERFLOW")

\* Both coefficients over the power of ten that either fraction needs.
ToCommonPlaces(rawType, s, b, sp, bp, common) ==
  WithCoefficients(rawType, MakeCoefficient(s, sp, common), MakeCoefficient(b, bp, common), common)

DeriveReduced(rawType, s, b, sp, bp) ==
  CASE ~PlacesValid(sp) -> Fails("NON_TERMINATING_SCALE")
    [] ~PlacesValid(bp) -> Fails("NON_TERMINATING_BIAS")
    [] OTHER -> ToCommonPlaces(rawType, s, b, sp.places, bp.places, Max2(sp.places, bp.places))

DeriveFrom(rawType, s, b) ==
  DeriveReduced(rawType, s, b, DecimalPlaces(s.den), DecimalPlaces(b.den))

DeriveLinearConversion(rawType, scale, bias) ==
  CASE scale.num = 0 -> Fails("ZERO_SCALE")
    [] ~({scale.den, bias.den} \subseteq 1 .. Power10(MaxPlaces)) -> Fails("DENOMINATOR_OUT_OF_RANGE")
    [] OTHER -> DeriveFrom(rawType, Reduce(scale), Reduce(bias))
=============================================================================
