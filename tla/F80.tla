-------------------------------- MODULE F80 ---------------------------------
(***************************************************************************)
(* The x87's extended-precision numbers (crates/cpu/src/f80.rs), with      *)
(* MantBits bits of significand in place of 64, integers of the same width *)
(* in place of i64, and DoubleBits in place of f64's 53.  The intermediate *)
(* results keep the proportions of the code: twice the significand, and 2  *)
(* guard bits on a quotient.                                               *)
(*                                                                         *)
(* A finite number that is not zero is (-1)^sign * mant * 2^(exp - Point), *)
(* with the top bit of mant set.  The exponent of a register is not        *)
(* limited; the one of the memory format is, to MinExp .. MaxExp.          *)
(***************************************************************************)
EXTENDS Integers

CONSTANTS
  MantBits,
  DoubleBits,
  DoubleMax,     \* the largest exponent of a double
  MaxExp,        \* and of the memory format
  Gap            \* the largest distance of the exponents of two operands

Pow(n) == 2 ^ n
Point == MantBits - 1
DoubleMin == 1 - DoubleMax      \* below it numbers are subnormal
MinExp == 1 - MaxExp
MinMant == Pow(Point)
IntMin == -Pow(Point)
BitLength(n) == CHOOSE k \in 0 .. 4 * MantBits : n < Pow(k) /\ (k > 0 => n >= Pow(k - 1))

Normal(sign, exp, mant) == [cls |-> "normal", sign |-> sign, exp |-> exp, mant |-> mant]
Special(cls, sign) == [cls |-> cls, sign |-> sign, exp |-> 0, mant |-> 0]
ZeroF(sign) == Special("zero", sign)
Inf(sign) == Special("inf", sign)
Nan == Special("nan", FALSE)

\* round_from: (-1)^sign * sig * 2^e, with bits lost below it if sticky.
RoundFrom(sign, e, sig, sticky) ==
  LET n    == BitLength(sig)
      drop == n - MantBits
      mant == IF drop > 0 THEN sig \div Pow(drop) ELSE sig * Pow(-drop)
      rem  == IF drop > 0 THEN sig % Pow(drop) ELSE 0
      half == IF drop > 0 THEN Pow(drop - 1) ELSE 1
      up   == rem >= half /\ (rem > half \/ sticky \/ mant % 2 = 1) IN
  IF sig = 0 THEN ZeroF(FALSE)
  ELSE IF up /\ mant + 1 = Pow(MantBits) THEN Normal(sign, e + n, MinMant)
  ELSE Normal(sign, e + n - 1, IF up THEN mant + 1 ELSE mant)

Neg(a) == [a EXCEPT !.sign = ~@]

Rank(a) == CASE a.cls = "zero" -> 0 [] a.cls = "normal" -> 1 [] a.cls = "inf" -> 2 [] OTHER -> 3
SmallerMag(a, b) ==
  \/ Rank(a) < Rank(b)
  \/ a.cls = "normal" /\ b.cls = "normal" /\ (a.exp < b.exp \/ (a.exp = b.exp /\ a.mant < b.mant))

\* partial_cmp: -1, 0, 1, or 2 for unordered.
PartialCmp(a, b) ==
  LET mag == IF SmallerMag(a, b) THEN -1 ELSE IF SmallerMag(b, a) THEN 1 ELSE 0 IN
  IF "nan" \in {a.cls, b.cls} THEN 2
  ELSE IF a.cls = "zero" /\ b.cls = "zero" THEN 0
  ELSE IF a.sign # b.sign THEN (IF a.sign THEN -1 ELSE 1)
  ELSE IF a.sign THEN -mag ELSE mag

MulF80(a, b) ==
  LET sign == a.sign # b.sign  c == {a.cls, b.cls} IN
  CASE "nan" \in c \/ c = {"inf", "zero"} -> Nan
    [] "inf" \in c /\ "nan" \notin c /\ "zero" \notin c -> Inf(sign)
    [] "zero" \in c /\ "nan" \notin c /\ "inf" \notin c -> ZeroF(sign)
    [] c = {"normal"} -> RoundFrom(sign, a.exp + b.exp - 2 * Point, a.mant * b.mant, FALSE)

AddNormal(x, y) ==
  LET a == IF SmallerMag(x, y) THEN y ELSE x
      b == IF SmallerMag(x, y) THEN x ELSE y
      diff == a.exp - b.exp
      full == b.mant * Pow(Point)
      far == diff >= 2 * MantBits
      av == a.mant * Pow(Point)
      bv == IF far THEN 0 ELSE full \div Pow(diff)
      lost == far \/ full % Pow(diff) # 0
      e == a.exp - 2 * Point
      sub == av - bv - (IF lost THEN 1 ELSE 0) IN
  IF a.sign = b.sign THEN RoundFrom(a.sign, e, av + bv, lost)
  ELSE IF sub = 0 THEN ZeroF(FALSE)
  ELSE RoundFrom(a.sign, e, sub, lost)

AddF80(a, b) ==
  CASE "nan" \in {a.cls, b.cls} -> Nan
    [] a.cls = "inf" /\ b.cls = "inf" -> IF a.sign = b.sign THEN a ELSE Nan
    [] a.cls = "inf" /\ b.cls \in {"zero", "normal"} -> a
    [] b.cls = "inf" /\ a.cls \in {"zero", "normal"} -> b
    [] a.cls = "zero" /\ b.cls = "zero" -> ZeroF(a.sign /\ b.sign)
    [] a.cls = "zero" /\ b.cls = "normal" -> b
    [] a.cls = "normal" /\ b.cls = "zero" -> a
    [] a.cls = "normal" /\ b.cls = "normal" -> AddNormal(a, b)

SubF80(a, b) == AddF80(a, Neg(b))

\* The quotient alone: the form the comment in div warns of.
QuotientWithoutGuard(sign, a, b) ==
  LET num == a.mant * Pow(MantBits) IN
  RoundFrom(sign, a.exp - b.exp - MantBits, num \div b.mant, num % b.mant # 0)

Quotient(sign, a, b) ==
  LET num == a.mant * Pow(MantBits)
      rem == 4 * (num % b.mant)
      sig == 4 * (num \div b.mant) + rem \div b.mant IN
  RoundFrom(sign, a.exp - b.exp - MantBits - 2, sig, rem % b.mant # 0)

DivF80(a, b) ==
  LET sign == a.sign # b.sign IN
  CASE "nan" \in {a.cls, b.cls} \/ (a.cls = b.cls /\ a.cls \in {"inf", "zero"}) -> Nan
    [] a.cls = "inf" /\ b.cls \in {"zero", "normal"} -> Inf(sign)
    [] b.cls = "inf" /\ a.cls \in {"zero", "normal"} -> ZeroF(sign)
    [] b.cls = "zero" /\ a.cls = "normal" -> Inf(sign)
    [] a.cls = "zero" /\ b.cls = "normal" -> ZeroF(sign)
    [] a.cls = "normal" /\ b.cls = "normal" -> Quotient(sign, a, b)

SqrtF80(a) ==
  LET odd  == (a.exp - 2 * Point) % 2
      m    == a.mant * Pow(Point) * Pow(odd)
      f    == a.exp - 2 * Point - odd
      s    == CHOOSE k \in 0 .. Pow(MantBits) : k * k <= m /\ m < (k + 1) * (k + 1)
      up   == m - s * s > s
      exp  == f \div 2 + Point IN
  CASE a.cls = "nan" \/ (a.sign /\ a.cls # "zero") -> Nan
    [] a.cls \in {"zero", "inf"} /\ (a.cls = "zero" \/ ~a.sign) -> a
    [] a.cls = "normal" /\ ~a.sign ->
         IF up /\ s + 1 = Pow(MantBits) THEN Normal(FALSE, exp + 1, MinMant)
         ELSE Normal(FALSE, exp, IF up THEN s + 1 ELSE s)

-----------------------------------------------------------------------------
(* Integers: from_i64, to_int and what rounding control makes of it.       *)
FromI64(v) == IF v = 0 THEN ZeroF(FALSE) ELSE RoundFrom(v < 0, 0, IF v < 0 THEN -v ELSE v, FALSE)

\* Overflow wraps, as in a release build; a debug build stops.
Wrapped(n) == IF n = -IntMin THEN IntMin ELSE n
Signed80(sign, n) == IF sign THEN -n ELSE n

ToInt(a, trunc) ==
  LET shift == Point - a.exp
      whole == a.mant \div Pow(shift)
      frac  == a.mant % Pow(shift)
      half  == Pow(shift - 1)
      up    == ~trunc /\ (frac > half \/ (frac = half /\ whole % 2 = 1)) IN
  CASE a.cls = "zero" -> 0
    [] a.cls \in {"inf", "nan"} -> IntMin
    [] a.cls = "normal" ->
         IF a.exp >= Point THEN IntMin
         ELSE IF a.exp < -1 \/ (a.exp = -1 /\ (trunc \/ a.mant = MinMant)) THEN 0
         ELSE IF a.exp = -1 THEN Signed80(a.sign, 1)
         ELSE Wrapped(Signed80(a.sign, Wrapped(IF up THEN whole + 1 ELSE whole)))

HasFraction(a) ==
  a.cls = "normal" /\ (a.exp < 0 \/ (a.exp < Point /\ a.mant % Pow(Point - a.exp) # 0))

ToI64Rc(a, rc) ==
  CASE rc = 0 -> ToInt(a, FALSE)
    [] rc = 1 -> ToInt(a, TRUE) - (IF a.sign /\ HasFraction(a) THEN 1 ELSE 0)
    [] rc = 2 -> Wrapped(ToInt(a, TRUE) + (IF ~a.sign /\ HasFraction(a) THEN 1 ELSE 0))
    [] rc = 3 -> ToInt(a, TRUE)

\* FRNDINT, FSCALE and the two halves of FXTRACT.
RoundToInteger(a, rc) == IF a.cls = "normal" /\ a.exp < Point THEN FromI64(ToI64Rc(a, rc)) ELSE a
Scale2(a, n) == IF a.cls = "normal" THEN [a EXCEPT !.exp = @ + n] ELSE a
Significand(a) == IF a.cls = "normal" THEN [a EXCEPT !.exp = 0] ELSE a
ExponentF80(a) ==
  CASE a.cls = "normal" -> FromI64(a.exp)
    [] a.cls = "zero" -> Inf(TRUE)
    [] a.cls = "inf" -> Inf(FALSE)
    [] a.cls = "nan" -> Nan

-----------------------------------------------------------------------------
(* The memory format: <<significand, sign, exponent field>>, the field 0   *)
(* for zero and subnormals and TopField for infinities and NaNs.           *)
TopField == MaxExp - MinExp + 2

FromParts(m) ==
  LET mant == m[1]  sign == m[2]  field == m[3] IN
  IF field = TopField
  THEN IF mant % MinMant = 0 THEN Inf(sign) ELSE Special("nan", sign)
  ELSE IF mant = 0 THEN ZeroF(sign)
  ELSE RoundFrom(sign, (IF field = 0 THEN 1 ELSE field) - 1 + MinExp - Point, mant, FALSE)

ToParts(a) ==
  LET field == a.exp - MinExp + 1 IN
  CASE a.cls = "zero" -> <<0, a.sign, 0>>
    [] a.cls = "inf" -> <<MinMant, a.sign, TopField>>
    [] a.cls = "nan" -> <<MinMant + Pow(Point - 1), a.sign, TopField>>
    [] a.cls = "normal" ->
         IF field >= TopField THEN <<MinMant, a.sign, TopField>>
         ELSE IF field > 0 THEN <<a.mant, a.sign, field>>
         ELSE <<IF 1 - field >= MantBits THEN 0 ELSE a.mant \div Pow(1 - field), a.sign, 0>>

-----------------------------------------------------------------------------
(* Doubles: <<sign, num, e>> is num * 2^e with num below 2^DoubleBits and  *)
(* as many of its bits in use as e's lower bound allows; an infinity has   *)
(* e = DoubleTop.                                                          *)
DoubleLow == DoubleMin - (DoubleBits - 1)
DoubleTop == DoubleMax - (DoubleBits - 1) + 1
AtLeast(x, y) == IF x > y THEN x ELSE y

\* IEEE rounding of num * 2^e to a double.
RoundDouble(sign, num, e) ==
  LET low  == AtLeast(e + BitLength(num) - DoubleBits, DoubleLow)
      drop == low - e
      q    == IF drop > 0 THEN num \div Pow(drop) ELSE num * Pow(-drop)
      rem  == IF drop > 0 THEN num % Pow(drop) ELSE 0
      half == IF drop > 0 THEN Pow(drop - 1) ELSE 1
      r    == IF rem > half \/ (rem = half /\ drop > 0 /\ q % 2 = 1) THEN q + 1 ELSE q
      d    == IF r = Pow(DoubleBits) THEN <<sign, r \div 2, low + 1>> ELSE <<sign, r, low>> IN
  IF num = 0 \/ r = 0 THEN <<sign, 0, DoubleLow>>
  ELSE IF d[3] >= DoubleTop THEN <<sign, 0, DoubleTop>> ELSE d

TimesPow(d, k) == IF d[3] = DoubleTop THEN d ELSE RoundDouble(d[1], d[2], d[3] + k)

\* to_f64: the significand rounded, then scaled by powers of two of at most
\* 2^Chunk, each product rounded again.
Chunk == -DoubleMin \div 2
ToF64(a) ==
  LET k == a.exp - Point
      unit == IF k < 0 THEN -Chunk ELSE Chunk
      steps == IF k = 0 THEN 0 ELSE ((IF k < 0 THEN -k ELSE k) - 1) \div Chunk
      scaled[j \in 0 .. steps] ==
        IF j = 0 THEN RoundDouble(a.sign, a.mant, 0) ELSE TimesPow(scaled[j - 1], unit) IN
  CASE a.cls = "zero" -> <<a.sign, 0, DoubleLow>>
    [] a.cls = "inf" -> <<a.sign, 0, DoubleTop>>
    [] a.cls = "normal" -> TimesPow(scaled[steps], k - steps * unit)

FromF64(d) ==
  IF d[3] = DoubleTop THEN Inf(d[1])
  ELSE IF d[2] = 0 THEN ZeroF(d[1])
  ELSE RoundFrom(d[1], d[3], d[2], FALSE)

-----------------------------------------------------------------------------
(* One operation on every operand.                                         *)
VARIABLES fpIn, fpOut, fpDone

fpVars == <<fpIn, fpOut, fpDone>>

Finite(exps) == {Normal(s, e, m) : s \in BOOLEAN, e \in exps, m \in MinMant .. Pow(MantBits) - 1}
Specials == {Special(c, s) : c \in {"zero", "inf"}, s \in BOOLEAN} \cup {Nan}
Doubles ==
  {<<s, n, e>> : s \in BOOLEAN, n \in Pow(DoubleBits - 1) .. Pow(DoubleBits) - 1, e \in DoubleLow .. DoubleTop - 1}
  \cup {<<s, n, DoubleLow>> : s \in BOOLEAN, n \in 0 .. Pow(DoubleBits - 1) - 1}
  \cup {<<s, 0, DoubleTop>> : s \in BOOLEAN}

Two == {"add", "sub", "mul", "div", "cmp"}
Conversions == {"sqrt", "parts", "double", "extract"}

FpInit ==
  /\ \/ \E op \in Two : \/ \E a \in Finite({0}), b \in Finite(-Gap .. Gap) : fpIn = [op |-> op, a |-> a, b |-> b]
                        \/ \E a \in Specials, b \in Specials \cup Finite({0}) :
                             fpIn \in {[op |-> op, a |-> a, b |-> b], [op |-> op, a |-> b, b |-> a]}
     \/ \E op \in Conversions, a \in Finite(MinExp - MantBits - 1 .. MaxExp + 1) \cup Specials :
          fpIn = [op |-> op, a |-> a]
     \/ \E a \in Finite(-3 .. MantBits) \cup Specials, rc \in 0 .. 3 :
          fpIn \in {[op |-> "int", a |-> a, rc |-> rc], [op |-> "frndint", a |-> a, rc |-> rc]}
     \/ \E v \in IntMin .. -IntMin - 1 : fpIn = [op |-> "fild", v |-> v]
     \/ \E d \in Doubles : fpIn = [op |-> "load", d |-> d]
  /\ fpOut = Nan
  /\ fpDone = FALSE

Compute(i) ==
  CASE i.op = "add" -> AddF80(i.a, i.b)
    [] i.op = "sub" -> SubF80(i.a, i.b)
    [] i.op = "mul" -> MulF80(i.a, i.b)
    [] i.op = "div" -> DivF80(i.a, i.b)
    [] i.op = "cmp" -> [order |-> PartialCmp(i.a, i.b)]
    [] i.op = "sqrt" -> SqrtF80(i.a)
    [] i.op = "int" -> [int |-> ToI64Rc(i.a, i.rc)]
    [] i.op = "frndint" -> RoundToInteger(i.a, i.rc)
    [] i.op = "fild" -> FromI64(i.v)
    [] i.op = "parts" -> FromParts(ToParts(i.a))
    [] i.op = "double" -> IF i.a.cls = "nan" THEN Nan ELSE [double |-> ToF64(i.a)]
    [] i.op = "extract" -> [sig |-> Significand(i.a), exp |-> ExponentF80(i.a)]
    [] i.op = "load" -> FromF64(i.d)

FpNext ==
  /\ ~fpDone
  /\ fpOut' = Compute(fpIn)
  /\ fpDone' = TRUE
  /\ UNCHANGED fpIn

FpSpec == FpInit /\ [][FpNext]_fpVars

-----------------------------------------------------------------------------
(* The reference: exact rational arithmetic.  A finite number is           *)
(* Scaled(a, low) * 2^low for every low not above its last bit.            *)
LastBit(a) == IF a.cls = "normal" THEN a.exp - Point ELSE 0
Scaled(a, low) == IF a.cls = "zero" THEN 0 ELSE Signed80(a.sign, a.mant * Pow(LastBit(a) - low))
Below(x, y) == IF x < y THEN x ELSE y
Dist(x, y) == IF x < y THEN y - x ELSE x - y

\* r is the number of MantBits bits nearest to num/den * 2^e, the even one of
\* two, and zero for zero.
Nearest(r, num, den, e) ==
  LET k    == LastBit(r)
      low  == Below(k - 1, e)
      x    == num * Pow(e - low)
      at   == r.mant * Pow(k - low) * den
      next == at + Pow(k - low) * den
      prev == at - (IF r.mant = MinMant THEN Pow(k - 1 - low) ELSE Pow(k - low)) * den IN
  IF num = 0 THEN r.cls = "zero"
  ELSE /\ r.cls = "normal" /\ r.mant \in MinMant .. Pow(MantBits) - 1
       /\ \A other \in {prev, next} :
            Dist(x, at) < Dist(x, other) \/ (Dist(x, at) = Dist(x, other) /\ r.mant % 2 = 0)

Magnitude(v) == IF v < 0 THEN -v ELSE v

SumExact80(i, r) ==
  LET low == Below(LastBit(i.a), LastBit(i.b))
      v == Scaled(i.a, low) + (IF i.op = "add" THEN 1 ELSE -1) * Scaled(i.b, low) IN
  Nearest(r, Magnitude(v), 1, low) /\ r.sign = (v < 0)

ProductExact80(i, r) ==
  /\ r.sign = (i.a.sign # i.b.sign)
  /\ i.op = "mul" => Nearest(r, i.a.mant * i.b.mant, 1, LastBit(i.a) + LastBit(i.b))
  /\ i.op = "div" => Nearest(r, i.a.mant, i.b.mant, LastBit(i.a) - LastBit(i.b))

\* The midpoints to both neighbours enclose the root.
RootExact80(a, r) ==
  LET k == LastBit(r)
      low == Below(2 * k - 4, LastBit(a))
      v == a.mant * Pow(LastBit(a) - low)
      above == (2 * r.mant + 1) * (2 * r.mant + 1) * Pow(2 * k - 2 - low)
      below == IF r.mant = MinMant
               THEN (4 * r.mant - 1) * (4 * r.mant - 1) * Pow(2 * k - 4 - low)
               ELSE (2 * r.mant - 1) * (2 * r.mant - 1) * Pow(2 * k - 2 - low) IN
  r.mant \in MinMant .. Pow(MantBits) - 1 /\ below < v /\ v < above

\* The integer that rounding control asks for, and IntMin if it does not fit.
IntWanted(a, rc) ==
  LET low == Below(LastBit(a), -1)
      one == Pow(-low)
      v == Scaled(a, low)
      floor == v \div one
      ceil == -((-v) \div one) IN
  CASE rc = 1 -> floor
    [] rc = 2 -> ceil
    [] rc = 3 -> IF v < 0 THEN ceil ELSE floor
    [] rc = 0 -> IF 2 * (v - floor * one) < one \/ (2 * (v - floor * one) = one /\ floor % 2 = 0)
                 THEN floor ELSE ceil

OrIndefinite(n) == IF n \in IntMin .. -IntMin - 1 THEN n ELSE IntMin

\* The value of an integral number.
IntValue(a) == LET low == Below(LastBit(a), 0) IN Scaled(a, low) \div Pow(-low)

IsFinite(a) == a.cls \in {"zero", "normal"}
InRange(a) == a.cls = "normal" => a.exp \in MinExp .. MaxExp

(***************************************************************************)
(* The x87's arithmetic is exact: sums, differences, products, quotients   *)
(* and roots are the exact result rounded to the nearest significand, ties *)
(* to even ("rounds the 64-bit mantissa to nearest, ties-to-even"),        *)
(* whatever cancels and however far apart the operands are; comparisons    *)
(* agree with the order of the numbers; integers are rounded as the        *)
(* control word asks, the integer indefinite when they do not fit; and a   *)
(* number survives the memory format, in which a context switch saves it,  *)
(* and a double the registers.  Left out: numbers outside the memory       *)
(* format's range, which it truncates, doubles that end up subnormal,      *)
(* which to_f64 rounds twice, and FRNDINT of the numbers that round up to  *)
(* 2^63, which turn negative.                                              *)
(***************************************************************************)
FloatExact ==
  fpDone =>
    LET i == fpIn  r == fpOut IN
    /\ i.op \in {"add", "sub"} /\ IsFinite(i.a) /\ IsFinite(i.b) =>
         IF r.cls = "zero" THEN Nearest(r, 0, 1, 0) /\ PartialCmp(i.a, IF i.op = "add" THEN Neg(i.b) ELSE i.b) = 0
         ELSE SumExact80(i, r)
    /\ i.op \in {"mul", "div"} /\ i.a.cls = "normal" /\ i.b.cls = "normal" => ProductExact80(i, r)
    /\ i.op \in {"add", "mul"} => r = Compute([i EXCEPT !.a = i.b, !.b = i.a])
    /\ i.op = "cmp" /\ IsFinite(i.a) /\ IsFinite(i.b) =>
         LET low == Below(LastBit(i.a), LastBit(i.b))
             x == Scaled(i.a, low)  y == Scaled(i.b, low) IN
         r.order = IF x < y THEN -1 ELSE IF x > y THEN 1 ELSE 0
    /\ i.op = "sqrt" /\ i.a.cls = "normal" /\ ~i.a.sign => RootExact80(i.a, r)
    /\ i.op = "int" /\ IsFinite(i.a) => r.int = OrIndefinite(IntWanted(i.a, i.rc))
    /\ i.op = "frndint" /\ IsFinite(i.a) /\ ~(HasFraction(i.a) /\ IntWanted(i.a, i.rc) = -IntMin) =>
         IntValue(r) = IntWanted(i.a, i.rc) /\ ~HasFraction(r)
    /\ i.op = "fild" => IntValue(r) = i.v /\ ~HasFraction(r)
    /\ i.op = "parts" /\ InRange(i.a) => r = i.a
    /\ i.op = "double" /\ i.a.cls = "normal" /\ i.a.exp >= DoubleMin =>
         r.double = RoundDouble(i.a.sign, i.a.mant, LastBit(i.a))
    /\ i.op = "extract" /\ i.a.cls = "normal" =>
         Scale2(r.sig, IntValue(r.exp)) = i.a
    /\ i.op = "load" => ToF64(r) = i.d
=============================================================================
