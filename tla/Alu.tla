-------------------------------- MODULE Alu ---------------------------------
(***************************************************************************)
(* What the integer instructions of crates/cpu/src/lib.rs compute: the     *)
(* eight ALU operations, shifts and rotates, INC and DEC, multiplication   *)
(* and division, the decimal adjustments, double shifts and bit scans,     *)
(* with the flags they set, by the code's own formulas.  The properties    *)
(* compare them with integer arithmetic.                                   *)
(*                                                                         *)
(* The code has each operation for 8, 16 and 32 bits; Width stands for     *)
(* any of them.  PF looks at the low ParityBits bits (8 in the code), AF   *)
(* at the carry out of the low NibbleBits bits (4), and a shift count is   *)
(* taken modulo CountRange (32), which may exceed the width.               *)
(***************************************************************************)
EXTENDS Integers, FiniteSets

CONSTANTS Width, ParityBits, NibbleBits, CountRange

Modulus == 2 ^ Width
Half == 2 ^ (Width - 1)
Word == 0 .. Modulus - 1
Bit(x, i) == (x \div 2 ^ i) % 2
Msb(x) == Bit(x, Width - 1) = 1
Ones(x, n) == Cardinality({i \in 0 .. n - 1 : Bit(x, i) = 1})
Signed(x) == IF Msb(x) THEN x - Modulus ELSE x
Num(b) == IF b THEN 1 ELSE 0

VARIABLES aluIn,    \* the operation and its operands
          aluOut,   \* its result and flags
          aluDone

aluVars == <<aluIn, aluOut, aluDone>>

-----------------------------------------------------------------------------
(***************************************************************************)
(* Flags.  f is the flags before; an operation replaces those it defines.  *)
(***************************************************************************)
FlagsZsp(f, r) ==
  [f EXCEPT !.zf = r = 0, !.sf = Msb(r), !.pf = Ones(r, ParityBits) % 2 = 0]

FlagsLogic(f, r) == [FlagsZsp(f, r) EXCEPT !.cf = FALSE, !.of = FALSE]

\* a ^ b ^ result has a one where a carry came in.
CarryInto(a, b, r, i) == (Bit(a, i) + Bit(b, i) + Bit(r, i)) % 2 = 1

FlagsAdd(f, a, b, cin, r) ==
  [FlagsZsp(f, r) EXCEPT
     !.cf = a + b + cin > Modulus - 1,
     !.of = Msb(a) # Msb(r) /\ Msb(b) # Msb(r),
     !.af = CarryInto(a, b, r, NibbleBits)]

FlagsSub(f, a, b, bin, r) ==
  [FlagsZsp(f, r) EXCEPT
     !.cf = a - b - bin < 0,
     !.of = Msb(a) # Msb(b) /\ Msb(a) # Msb(r),
     !.af = CarryInto(a, b, r, NibbleBits)]

BitOp(op, a, b) ==
  LET one(x, y) == CASE op = "or" -> x + y > 0 [] op = "and" -> x + y = 2 [] op = "xor" -> x # y
      sum[i \in 0 .. Width] ==
        IF i = 0 THEN 0 ELSE sum[i - 1] + 2 ^ (i - 1) * Num(one(Bit(a, i - 1), Bit(b, i - 1))) IN
  sum[Width]

\* alu_apply8, alu_apply16 and alu_apply32; CMP is SUB without the store.
AluOps == {"add", "or", "adc", "sbb", "and", "sub", "xor", "cmp"}
AluResult(op, a, b, f) ==
  LET cin == IF op \in {"adc", "sbb"} THEN Num(f.cf) ELSE 0
      plus == (a + b + cin) % Modulus
      minus == (a - b - cin) % Modulus IN
  CASE op \in {"add", "adc"} -> [r |-> plus, f |-> FlagsAdd(f, a, b, cin, plus)]
    [] op \in {"sub", "sbb", "cmp"} -> [r |-> minus, f |-> FlagsSub(f, a, b, cin, minus)]
    [] op \in {"or", "and", "xor"} -> [r |-> BitOp(op, a, b), f |-> FlagsLogic(f, BitOp(op, a, b))]

\* INC and DEC are an addition that keeps the carry.
IncDec(op, a, f) ==
  LET up == (a + 1) % Modulus
      down == (a - 1) % Modulus IN
  IF op = "inc" THEN [r |-> up, f |-> [FlagsAdd(f, a, 1, 0, up) EXCEPT !.cf = f.cf]]
  ELSE [r |-> down, f |-> [FlagsSub(f, a, 1, 0, down) EXCEPT !.cf = f.cf]]

EvalCond(code, f) ==
  CASE code = "o" -> f.of [] code = "no" -> ~f.of
    [] code = "b" -> f.cf [] code = "ae" -> ~f.cf
    [] code = "e" -> f.zf [] code = "ne" -> ~f.zf
    [] code = "be" -> f.cf \/ f.zf [] code = "a" -> ~f.cf /\ ~f.zf
    [] code = "s" -> f.sf [] code = "ns" -> ~f.sf
    [] code = "p" -> f.pf [] code = "np" -> ~f.pf
    [] code = "l" -> f.sf # f.of [] code = "ge" -> f.sf = f.of
    [] code = "le" -> f.zf \/ f.sf # f.of [] code = "g" -> ~f.zf /\ f.sf = f.of

-----------------------------------------------------------------------------
(***************************************************************************)
(* shift_apply8, shift_apply16 and shift_apply32: closed forms, with the   *)
(* cases of a count beyond the width apart.                                *)
(***************************************************************************)
ShiftOps == {"rol", "ror", "rcl", "rcr", "shl", "shr", "sar"}

RotateLeft(x, n) ==
  LET k == n % Width IN ((x * 2 ^ k) % Modulus) + (IF k = 0 THEN 0 ELSE x \div 2 ^ (Width - k))

\* OF is defined for a count of one.
ShiftFlags(f, count, cf, of) ==
  [f EXCEPT !.cf = cf, !.of = IF count = 1 THEN of ELSE @]

Rol(v, count, f) ==
  LET r == RotateLeft(v, count)
      cf == Bit(r, 0) = 1 IN
  [r |-> r, f |-> ShiftFlags(f, count, cf, Msb(r) # cf)]

Ror(v, count, f) ==
  LET r == RotateLeft(v, Width - (count % Width)) IN
  [r |-> r, f |-> ShiftFlags(f, count, Msb(r), Msb(r) # (Bit(r, Width - 2) = 1))]

Shl(v, count, f) ==
  LET cf == count <= Width /\ Bit(v, Width - count) = 1
      r == IF count >= Width THEN 0 ELSE (v * 2 ^ count) % Modulus IN
  [r |-> r, f |-> FlagsZsp(ShiftFlags(f, count, cf, Msb(r) # cf), r)]

Shr(v, count, f) ==
  LET cf == count <= Width /\ Bit(v, count - 1) = 1
      r == IF count >= Width THEN 0 ELSE v \div 2 ^ count IN
  [r |-> r, f |-> FlagsZsp(ShiftFlags(f, count, cf, Msb(v)), r)]

Sar(v, count, f) ==
  LET cf == IF count <= Width THEN Bit(v, count - 1) = 1 ELSE Msb(v)
      r == IF count >= Width THEN (IF Msb(v) THEN Modulus - 1 ELSE 0)
           ELSE (Signed(v) \div 2 ^ count) % Modulus IN
  [r |-> r, f |-> FlagsZsp(ShiftFlags(f, count, cf, FALSE), r)]

\* The rotations through carry loop, count modulo Width + 1 times.
Rcl(v, count, f) ==
  LET turn[i \in 0 .. count % (Width + 1)] ==
        IF i = 0 THEN <<v, f.cf>>
        ELSE <<((turn[i - 1][1] * 2) % Modulus) + Num(turn[i - 1][2]), Msb(turn[i - 1][1])>>
      t == turn[count % (Width + 1)] IN
  [r |-> t[1], f |-> ShiftFlags(f, count, t[2], Msb(t[1]) # t[2])]

Rcr(v, count, f) ==
  LET turn[i \in 0 .. count % (Width + 1)] ==
        IF i = 0 THEN <<v, f.cf>>
        ELSE <<(turn[i - 1][1] \div 2) + Half * Num(turn[i - 1][2]), turn[i - 1][1] % 2 = 1>>
      t == turn[count % (Width + 1)] IN
  [r |-> t[1], f |-> ShiftFlags(f, count, t[2], Msb(t[1]) # (Bit(t[1], Width - 2) = 1))]

ShiftApply(op, v, raw, f) ==
  LET count == raw % CountRange IN
  CASE count = 0 -> [r |-> v, f |-> f]
    [] count > 0 /\ op = "rol" -> Rol(v, count, f)
    [] count > 0 /\ op = "ror" -> Ror(v, count, f)
    [] count > 0 /\ op = "rcl" -> Rcl(v, count, f)
    [] count > 0 /\ op = "rcr" -> Rcr(v, count, f)
    [] count > 0 /\ op = "shl" -> Shl(v, count, f)
    [] count > 0 /\ op = "shr" -> Shr(v, count, f)
    [] count > 0 /\ op = "sar" -> Sar(v, count, f)

\* SHLD and SHRD (16- and 32-bit, count below the width): dest and src side
\* by side, shifted as one.
DoubleShiftResult(op, dest, src, count, f) ==
  LET left == ((dest * Modulus + src) * 2 ^ count) \div Modulus
      right == (src * Modulus + dest) \div 2 ^ count
      r == (IF op = "shld" THEN left ELSE right) % Modulus
      out == Bit(dest, IF op = "shld" THEN Width - count ELSE count - 1) IN
  IF count = 0 THEN [r |-> dest, f |-> f]
  ELSE [r |-> r, f |-> [FlagsLogic(f, r) EXCEPT !.cf = out = 1]]

\* BSF and BSR leave the destination of a zero source alone.  TZCNT and LZCNT
\* give the width, and set CF; the 16-bit LZCNT takes 16 off the count.
TrailingZeros(x) == CHOOSE n \in 0 .. Width - 1 : Bit(x, n) = 1 /\ \A i \in 0 .. n - 1 : Bit(x, i) = 0
LeadingZeros(x) ==
  Width - 1 - CHOOSE n \in 0 .. Width - 1 : Bit(x, n) = 1 /\ \A i \in n + 1 .. Width - 1 : Bit(x, i) = 0

ScanOps == {"bsf", "bsr", "tzcnt", "lzcnt", "lzcnt16"}
BitScanResult(op, dest, x, f) ==
  IF x = 0
  THEN IF op \in {"bsf", "bsr"} THEN [r |-> dest, f |-> [f EXCEPT !.zf = TRUE]]
       ELSE [r |-> Width, f |-> [f EXCEPT !.cf = TRUE]]
  ELSE CASE op = "bsf" -> [r |-> TrailingZeros(x), f |-> [f EXCEPT !.zf = FALSE]]
         [] op = "bsr" -> [r |-> Width - 1 - LeadingZeros(x), f |-> [f EXCEPT !.zf = FALSE]]
         [] op = "tzcnt" -> [r |-> TrailingZeros(x), f |-> [f EXCEPT !.cf = FALSE]]
         [] op = "lzcnt" -> [r |-> LeadingZeros(x), f |-> [f EXCEPT !.cf = FALSE]]
         [] op = "lzcnt16" -> [r |-> (LeadingZeros(x) - Width) % Modulus, f |-> [f EXCEPT !.cf = FALSE]]

-----------------------------------------------------------------------------
(***************************************************************************)
(* Group 3.  The double-width operand is hi:lo (DX:AX, or AX for bytes).   *)
(* Rust's division truncates; checked_div refuses MIN / -1.                *)
(***************************************************************************)
Wide == Modulus * Modulus
WideSigned(n) == IF n >= Wide \div 2 THEN n - Wide ELSE n
Abs(n) == IF n < 0 THEN -n ELSE n
Quot(n, v) == IF (n < 0) = (v < 0) THEN Abs(n) \div Abs(v) ELSE -(Abs(n) \div Abs(v))

Mul(a, b) ==
  LET p == a * b IN [hi |-> p \div Modulus, lo |-> p % Modulus, over |-> p \div Modulus # 0]

Imul(a, b) ==
  LET p == Signed(a) * Signed(b)
      w == p % Wide IN
  [hi |-> w \div Modulus, lo |-> w % Modulus, over |-> Signed(w % Modulus) # p]

DivideError == [de |-> TRUE, q |-> 0, r |-> 0]

Div(n, v) ==
  IF v = 0 \/ n \div v > Modulus - 1 THEN DivideError
  ELSE [de |-> FALSE, q |-> n \div v, r |-> n % v]

\* Not the code: the quotient is checked like an unsigned one.
IdivUnsignedCheck(n, v) ==
  LET sn == WideSigned(n)
      sv == Signed(v)
      q == Quot(sn, sv) IN
  IF v = 0 \/ Abs(q) > Modulus - 1 THEN DivideError
  ELSE [de |-> FALSE, q |-> q % Modulus, r |-> (sn - q * sv) % Modulus]

Idiv(n, v) ==
  LET sn == WideSigned(n)
      sv == Signed(v)
      q == Quot(sn, sv) IN
  IF v = 0 \/ (sn = -(Wide \div 2) /\ sv = -1) \/ q \notin -Half .. Half - 1 THEN DivideError
  ELSE [de |-> FALSE, q |-> q % Modulus, r |-> (sn - q * sv) % Modulus]

(***************************************************************************)
(* DAA, DAS, AAA and AAS on AL (and AH), AAM and AAD: bytes as they are.   *)
(***************************************************************************)
Adjusts(al, af) == al % 16 > 9 \/ af

Daa(al, cf, af) ==
  LET low == IF Adjusts(al, af) THEN al + 6 ELSE al
      high == al > 153 \/ cf IN
  [al |-> (IF high THEN low + 96 ELSE low) % 256, cf |-> high \/ low > 255, af |-> Adjusts(al, af)]

Das(al, cf, af) ==
  LET low == IF Adjusts(al, af) THEN al - 6 ELSE al
      high == al > 153 \/ cf IN
  [al |-> (IF high THEN low - 96 ELSE low) % 256, cf |-> high \/ low < 0, af |-> Adjusts(al, af)]

Aaa(ah, al, af) ==
  [al |-> (IF Adjusts(al, af) THEN al + 6 ELSE al) % 16,
   ah |-> (IF Adjusts(al, af) THEN ah + 1 ELSE ah) % 256, cf |-> Adjusts(al, af)]

Aas(ah, al, af) ==
  [al |-> (IF Adjusts(al, af) THEN al - 6 ELSE al) % 16,
   ah |-> (IF Adjusts(al, af) THEN ah - 1 ELSE ah) % 256, cf |-> Adjusts(al, af)]

Aam(al, base) == [ah |-> al \div base, al |-> al % base]
Aad(ah, al, base) == [ah |-> 0, al |-> (ah * base + al) % 256]

-----------------------------------------------------------------------------
NoFlags == [cf |-> FALSE, zf |-> FALSE, sf |-> FALSE, of |-> FALSE, pf |-> FALSE, af |-> FALSE]
Flags(c, o) == [NoFlags EXCEPT !.cf = c, !.of = o]

\* A pair of packed decimal bytes: what ADD (or SUB) leaves for DAA (or DAS).
Packed(n) == 16 * (n \div 10) + (n % 10)

AluInit ==
  /\ \/ \E op \in AluOps, a, b \in Word, c \in BOOLEAN :
          aluIn = [class |-> "alu", op |-> op, a |-> a, b |-> b, f |-> Flags(c, FALSE)]
     \/ \E op \in {"inc", "dec"}, a \in Word, c \in BOOLEAN :
          aluIn = [class |-> "incdec", op |-> op, a |-> a, b |-> 1, f |-> Flags(c, FALSE)]
     \/ \E op \in ShiftOps, a \in Word, n \in 0 .. CountRange, c, o \in BOOLEAN :
          aluIn = [class |-> "shift", op |-> op, a |-> a, b |-> n, f |-> Flags(c, o)]
     \/ \E op \in {"shld", "shrd"}, a, b \in Word, n \in 0 .. Width - 1 :
          aluIn = [class |-> "double", op |-> op, a |-> a, b |-> b, n |-> n, f |-> NoFlags]
     \/ \E op \in ScanOps, a \in Word :
          aluIn = [class |-> "scan", op |-> op, a |-> a, b |-> 3, f |-> NoFlags]
     \/ \E op \in {"mul", "imul"}, a, b \in Word : aluIn = [class |-> "mul", op |-> op, a |-> a, b |-> b]
     \/ \E op \in {"div", "idiv"}, a \in 0 .. Wide - 1, b \in Word :
          aluIn = [class |-> "div", op |-> op, a |-> a, b |-> b]
     \/ \E op \in {"daa", "das"}, x, y \in 0 .. 99, c \in 0 .. 1 :
          aluIn = [class |-> "packed", op |-> op, a |-> x, b |-> y, c |-> c]
     \/ \E op \in {"aaa", "aas", "aam", "aad"}, x, y \in 0 .. 9, c \in 0 .. 1 :
          aluIn = [class |-> "ascii", op |-> op, a |-> x, b |-> y, c |-> c]
  /\ aluOut = aluIn
  /\ aluDone = FALSE

\* The sum or difference of two decimal bytes, then the adjustment.
DecimalResult(op, x, y, c) ==
  LET s == Packed(x) + Packed(y) + c
      d == Packed(x) - Packed(y) - c IN
  IF op = "daa" THEN Daa(s % 256, s > 255, (Packed(x) % 16) + (Packed(y) % 16) + c > 15)
  ELSE Das(d % 256, d < 0, (Packed(x) % 16) - (Packed(y) % 16) - c < 0)

AsciiResult(op, x, y, c) ==
  CASE op = "aaa" -> Aaa(0, x + y + c, x + y + c > 15)
    [] op = "aas" -> Aas(1, (x - y - c) % 256, x - y - c < 0)
    [] op = "aam" -> Aam(x * y, 10)
    [] op = "aad" -> Aad(x, y, 10)

AluResultOf(i) ==
  CASE i.class = "alu" -> AluResult(i.op, i.a, i.b, i.f)
    [] i.class = "incdec" -> IncDec(i.op, i.a, i.f)
    [] i.class = "shift" -> ShiftApply(i.op, i.a, i.b, i.f)
    [] i.class = "double" -> DoubleShiftResult(i.op, i.a, i.b, i.n, i.f)
    [] i.class = "scan" -> BitScanResult(i.op, i.b, i.a, i.f)
    [] i.class = "mul" -> IF i.op = "mul" THEN Mul(i.a, i.b) ELSE Imul(i.a, i.b)
    [] i.class = "div" -> IF i.op = "div" THEN Div(i.a, i.b) ELSE Idiv(i.a, i.b)
    [] i.class = "packed" -> DecimalResult(i.op, i.a, i.b, i.c)
    [] i.class = "ascii" -> AsciiResult(i.op, i.a, i.b, i.c)

AluStep ==
  /\ ~aluDone
  /\ aluDone' = TRUE
  /\ aluOut' = AluResultOf(aluIn)
  /\ UNCHANGED aluIn

AluSpec == AluInit /\ [][AluStep]_aluVars

-----------------------------------------------------------------------------
InWord(n) == n \in Word
InSigned(n) == n \in -Half .. Half - 1
ZspExact(r, f) ==
  /\ f.zf = (r = 0) /\ f.sf = (r >= Half)
  /\ f.pf = (Ones(r, ParityBits) \in {n \in 0 .. ParityBits : n % 2 = 0})

\* The exact value of a sum or difference, of its operands read as signed
\* numbers, and of their low nibbles.
Exact(op, a, b, c) == IF op \in {"add", "adc", "inc"} THEN a + b + c ELSE a - b - c

SumExact(i, o) ==
  LET c == IF i.op \in {"adc", "sbb"} THEN Num(i.f.cf) ELSE 0
      n == Exact(i.op, i.a, i.b, c)
      low == Exact(i.op, i.a % 2 ^ NibbleBits, i.b % 2 ^ NibbleBits, c) IN
  /\ o.r = n % Modulus /\ ZspExact(o.r, o.f)
  /\ o.f.cf = IF i.op \in {"inc", "dec"} THEN i.f.cf ELSE ~InWord(n)
  /\ o.f.of = ~InSigned(Exact(i.op, Signed(i.a), Signed(i.b), c))
  /\ o.f.af = (low \notin 0 .. (2 ^ NibbleBits) - 1)

LogicExact(i, o) ==
  /\ \A k \in 0 .. Width - 1 :
       Bit(o.r, k) = CASE i.op = "or" -> Num(Bit(i.a, k) = 1 \/ Bit(i.b, k) = 1)
                       [] i.op = "and" -> Bit(i.a, k) * Bit(i.b, k)
                       [] i.op = "xor" -> (Bit(i.a, k) + Bit(i.b, k)) % 2
  /\ ZspExact(o.r, o.f) /\ ~o.f.cf /\ ~o.f.of

\* The conditional jumps after CMP a, b.
OrderExact(a, b, f) ==
  LET s == Signed(a)  t == Signed(b) IN
  /\ EvalCond("b", f) = (a < b) /\ EvalCond("ae", f) = (a >= b)
  /\ EvalCond("be", f) = (a <= b) /\ EvalCond("a", f) = (a > b)
  /\ EvalCond("l", f) = (s < t) /\ EvalCond("ge", f) = (s >= t)
  /\ EvalCond("le", f) = (s <= t) /\ EvalCond("g", f) = (s > t)
  /\ EvalCond("e", f) = (a = b) /\ EvalCond("ne", f) = (a # b)

\* The bit a scan finds, and the zeros a count counts.
ScanExact(o, x, op) ==
  CASE x = 0 -> IF op \in {"bsf", "bsr"} THEN o.f.zf ELSE o.f.cf /\ o.r = Width
    [] x # 0 /\ op \in {"bsf", "tzcnt"} -> Bit(x, o.r) = 1 /\ x % 2 ^ o.r = 0
    [] x # 0 /\ op = "bsr" -> 2 ^ o.r <= x /\ x < 2 ^ (o.r + 1)
    [] x # 0 /\ op \in {"lzcnt", "lzcnt16"} -> o.r < Width /\ x < 2 ^ (Width - o.r) /\ 2 * x >= 2 ^ (Width - o.r)

(***************************************************************************)
(* The flags mean what they say (flags_add, flags_sub, flags_logic and     *)
(* eval_cond at every width): carry is the sum leaving the unsigned range, *)
(* overflow its leaving the signed range, AF the nibble's carry; and after *)
(* a comparison each conditional jump agrees with the order of the two     *)
(* numbers, signed or unsigned.  BSF, BSR, TZCNT and the 32-bit LZCNT find *)
(* the bit they look for.                                                  *)
(***************************************************************************)
SumsExact ==
  aluDone =>
    /\ aluIn.op \in {"add", "adc", "sub", "sbb", "cmp", "inc", "dec"} => SumExact(aluIn, aluOut)
    /\ aluIn.op \in {"or", "and", "xor"} => LogicExact(aluIn, aluOut)
    /\ aluIn.op = "cmp" => OrderExact(aluIn.a, aluIn.b, aluOut.f)
    /\ aluIn.op \in ScanOps \ {"lzcnt16"} => ScanExact(aluOut, aluIn.a, aluIn.op)

\* One bit at a time: the value and the bit that fell out.
OneBit(op, v, cf) ==
  LET top == Num(Msb(v))  low == v % 2 IN
  CASE op = "shl" -> <<(2 * v) % Modulus, top>>
    [] op = "rol" -> <<((2 * v) % Modulus) + top, top>>
    [] op = "rcl" -> <<((2 * v) % Modulus) + cf, top>>
    [] op = "shr" -> <<v \div 2, low>>
    [] op = "ror" -> <<(v \div 2) + Half * low, low>>
    [] op = "rcr" -> <<(v \div 2) + Half * cf, low>>
    [] op = "sar" -> <<(v \div 2) + Half * top, low>>

BitByBit(op, v, cf, n) ==
  LET at[k \in 0 .. n] == IF k = 0 THEN <<v, cf>> ELSE OneBit(op, at[k - 1][1], at[k - 1][2]) IN at[n]

(***************************************************************************)
(* A shift or rotate by n is n shifts by one (shift_apply, counts beyond   *)
(* the width included): same value, same last bit out, a count of zero     *)
(* touches no flag, and OF after one bit says that the sign changed.  SHLD *)
(* and SHRD move the bits of the second operand in.                        *)
(***************************************************************************)
ShiftsStepwise ==
  /\ aluDone /\ aluIn.class = "shift" =>
       LET n == aluIn.b % CountRange
           ref == BitByBit(aluIn.op, aluIn.a, Num(aluIn.f.cf), n) IN
       /\ aluOut.r = ref[1] /\ Num(aluOut.f.cf) = ref[2]
       /\ n = 0 => aluOut.f = aluIn.f
       /\ aluOut.f.of = IF n = 1 THEN Msb(aluIn.a) # Msb(aluOut.r) ELSE aluIn.f.of
       /\ n > 0 /\ aluIn.op \in {"shl", "shr", "sar"} => ZspExact(aluOut.r, aluOut.f)
  /\ aluDone /\ aluIn.class = "double" /\ aluIn.n > 0 =>
       LET n == aluIn.n IN
       /\ \A k \in 0 .. Width - 1 :
            Bit(aluOut.r, k) =
              IF aluIn.op = "shld"
              THEN IF k >= n THEN Bit(aluIn.a, k - n) ELSE Bit(aluIn.b, Width - n + k)
              ELSE IF k + n < Width THEN Bit(aluIn.a, k + n) ELSE Bit(aluIn.b, k + n - Width)
       /\ Num(aluOut.f.cf) = Bit(aluIn.a, IF aluIn.op = "shld" THEN Width - n ELSE n - 1)

(***************************************************************************)
(* Division and multiplication are exact: #DE iff the divisor is zero or   *)
(* the quotient does not fit, otherwise quotient * divisor + remainder is  *)
(* the dividend with a remainder smaller than the divisor and of the       *)
(* dividend's sign; a product fills both halves, and CF and OF say whether *)
(* the lower one holds it all.                                             *)
(***************************************************************************)
DivisionExact ==
  /\ aluDone /\ aluIn.class = "div" =>
       LET signed == aluIn.op = "idiv"
           n == IF signed THEN WideSigned(aluIn.a) ELSE aluIn.a
           v == IF signed THEN Signed(aluIn.b) ELSE aluIn.b
           q == IF signed THEN Signed(aluOut.q) ELSE aluOut.q
           r == IF signed THEN Signed(aluOut.r) ELSE aluOut.r
           Fits(k) == IF signed THEN InSigned(k) ELSE InWord(k) IN
       IF aluOut.de
       THEN v = 0 \/ \A k \in -Half .. Modulus - 1 :
                       Fits(k) => ~(Abs(n - k * v) < Abs(v) /\ (n - k * v = 0 \/ (n - k * v < 0) = (n < 0)))
       ELSE n = q * v + r /\ Abs(r) < Abs(v) /\ (r = 0 \/ (r < 0) = (n < 0))
  /\ aluDone /\ aluIn.class = "mul" =>
       LET w == aluOut.hi * Modulus + aluOut.lo IN
       IF aluIn.op = "mul"
       THEN w = aluIn.a * aluIn.b /\ aluOut.over = ~InWord(w)
       ELSE /\ WideSigned(w) = Signed(aluIn.a) * Signed(aluIn.b)
            /\ aluOut.over = ~InSigned(WideSigned(w))

(***************************************************************************)
(* The decimal adjustments give decimal arithmetic: adding or subtracting  *)
(* two packed numbers (and a carry) and adjusting is their sum or          *)
(* difference modulo 100, with the carry out; likewise digit by digit.     *)
(***************************************************************************)
DecimalExact ==
  aluDone /\ aluIn.class \in {"packed", "ascii"} =>
    LET x == aluIn.a  y == aluIn.b  c == aluIn.c IN
    CASE aluIn.op = "daa" -> aluOut.al = Packed((x + y + c) % 100) /\ aluOut.cf = (x + y + c > 99)
      [] aluIn.op = "das" -> aluOut.al = Packed((x - y - c) % 100) /\ aluOut.cf = (x - y - c < 0)
      [] aluIn.op = "aaa" -> 10 * aluOut.ah + aluOut.al = x + y + c
      [] aluIn.op = "aas" -> 10 * (aluOut.ah - 1) + aluOut.al = x - y - c
      [] aluIn.op = "aam" -> 10 * aluOut.ah + aluOut.al = x * y
      [] aluIn.op = "aad" -> aluOut.al = 10 * x + y /\ aluOut.ah = 0

(***************************************************************************)
(* The arithmetic of step is the arithmetic of the integers, with every    *)
(* flag that reports on it: sums and comparisons, bit scans, products,     *)
(* quotients with their #DE, decimal digits, shifts and rotates.           *)
(***************************************************************************)
ArithmeticExact == SumsExact /\ DivisionExact /\ DecimalExact /\ ShiftsStepwise
=============================================================================
