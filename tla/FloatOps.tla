------------------------------ MODULE FloatOps ------------------------------
(***************************************************************************)
(* The x87 escapes D8 to DF and the FXSAVE group of step (crates/cpu/src   *)
(* /lib.rs, 6621 to 6752 and 8588 to 9302).  c.top, c.st, c.sw and c.cw    *)
(* are the register stack; rounding and comparing are terms.               *)
(***************************************************************************)
EXTENDS ControlOps

FpuPush(c, v) == LET t == (c.top - 1) % 8 IN [c EXCEPT !.top = t, !.st[t] = v]
FpuPop(c) == [c EXCEPT !.v = c.st[c.top], !.top = (@ + 1) % 8]
FpuSt(c, i) == c.st[(c.top + i) % 8]
FpuSetSt(c, i, v) == [c EXCEPT !.st[(c.top + i) % 8] = v]
FpuStatusWord(c) == <<"sw", c.sw, c.top>>

\* fpu_compare and the others that set condition codes; FCOMI sets EFLAGS.
SetCodes(c, args) == [c EXCEPT !.sw = <<"codes", args, @>>]
SetEflagsCompare(c, a, b) == SetFlags(c, "fcomi", <<a, b>>)

\* k dwords one after the other, as the code moves m64, m80 and m128.
ReadDwords(c, at, k) ==
  LET p[i \in 0 .. k] ==
        IF i = 0 THEN [cpu |-> c, got |-> <<>>]
        ELSE LET x == ReadMem(p[i - 1].cpu, Plus(at, Dword * (i - 1)), Dword) IN
             [cpu |-> x, got |-> Append(p[i - 1].got, x.v)] IN
  [p[k].cpu EXCEPT !.v = IF \A i \in 1 .. k : p[k].got[i] = Zero THEN Zero ELSE <<"dwords", p[k].got>>]

WriteDwords(c, at, k, v) ==
  LET p[i \in 0 .. k] ==
        IF i = 0 THEN c ELSE WriteMem(p[i - 1], Plus(at, Dword * (i - 1)), Dword, <<"dword", v, i>>) IN
  p[k]

M32 == 1
M64 == 2
M80 == 3

-----------------------------------------------------------------------------
(***************************************************************************)
(* Loads push what they read; a load that faulted pushes zero.  Stores     *)
(* convert ST(0); the popping ones pop first, except FSTP m64.             *)
(***************************************************************************)
Load(c, k) == LET x == ReadDwords(c, c.ea, k) IN FpuPush(x, <<"load", k, x.v>>)
Store(c, k) == WriteDwords(c, c.ea, k, <<"store", k, FpuSt(c, 0), c.cw>>)
StorePop(c, k) == LET p == FpuPop(c) IN WriteDwords(p, p.ea, k, <<"store", k, p.v, p.cw>>)

CmovSt(c) == IF c.cond THEN FpuSetSt(c, 0, FpuSt(c, 1)) ELSE c

\* DB: FNINIT, FNCLEX, FCOMI, FCMOVNcc; 32-bit integers and m80.
EscDB(c) ==
  LET m == FetchModrm(c, "fild") IN
  CASE m.rm = "reg" /\ m.sub = "fninit" -> [m EXCEPT !.sw = Zero, !.cw = <<"37F">>, !.top = 0]
    [] m.rm = "reg" /\ m.sub = "fnclex" -> [m EXCEPT !.sw = <<"clex", @>>]
    [] m.rm = "reg" /\ m.sub = "fcomi" -> SetEflagsCompare(m, FpuSt(m, 0), FpuSt(m, 1))
    [] m.rm = "reg" /\ m.sub = "fcmov" -> CmovSt(m)
    [] m.rm = "mem" /\ m.sub = "fild" -> Load(m, M32)
    [] m.rm = "mem" /\ m.sub = "fist" -> Store(m, M32)
    [] m.rm = "mem" /\ m.sub = "fistp" -> StorePop(m, M32)
    [] m.rm = "mem" /\ m.sub = "fld80" -> Load(m, M80)
    [] m.rm = "mem" /\ m.sub = "fstp80" -> StorePop(m, M80)
    [] OTHER -> Unimplemented(m)

\* DF: FNSTSW AX, FCOMIP; 16-bit and 64-bit integers.
EscDF(c) ==
  LET m == FetchModrm(c, "fild") IN
  CASE m.rm = "reg" /\ m.sub = "fnstsw" -> SetR(m, "ax", FpuStatusWord(m))
    [] m.rm = "reg" /\ m.sub = "fcomip" -> FpuPop(SetEflagsCompare(m, FpuSt(m, 0), FpuSt(m, 1)))
    [] m.rm = "mem" /\ m.sub = "fild" -> Load(m, M32)
    [] m.rm = "mem" /\ m.sub = "fist" -> Store(m, M32)
    [] m.rm = "mem" /\ m.sub = "fistp" -> StorePop(m, M32)
    [] m.rm = "mem" /\ m.sub = "fild64" -> Load(m, M64)
    [] m.rm = "mem" /\ m.sub = "fistp64" -> StorePop(m, M64)
    [] OTHER -> Unimplemented(m)

(***************************************************************************)
(* D9, register forms: constants, functions of ST(0) ("unary"), FSINCOS    *)
(* and FXTRACT ("split"), functions of two that pop ("binary") or do not   *)
(* ("fprem", "fscale"), comparisons, and moves within the stack.           *)
(***************************************************************************)
EscD9Register(m) ==
  LET a == FpuSt(m, 0)
      b == FpuSt(m, 1) IN
  CASE m.sub = "const" -> FpuPush(m, <<"const">>)
    [] m.sub = "unary" -> FpuSetSt(SetCodes(m, <<"c2">>), 0, <<"f", a>>)
    [] m.sub = "split" -> FpuPush(FpuSetSt(SetCodes(m, <<"c2">>), 0, <<"f", a>>), <<"g", a>>)
    [] m.sub = "binary" -> FpuSetSt(FpuPop(m), 0, <<"f", b, a>>)
    [] m.sub = "fscale" -> FpuSetSt(m, 0, <<"scale", a, b>>)
    [] m.sub = "fprem" -> FpuSetSt(SetCodes(m, <<a, b>>), 0, <<"rem", a, b>>)
    [] m.sub = "fxam" -> SetCodes(m, <<a>>)
    [] m.sub = "fdecstp" -> [m EXCEPT !.top = (@ - 1) % 8]
    [] m.sub = "fincstp" -> [m EXCEPT !.top = (@ + 1) % 8]
    [] m.sub = "fxch" -> FpuSetSt(FpuSetSt(m, 0, b), 1, a)
    [] m.sub = "fld_st" -> FpuPush(m, b)
    [] OTHER -> Unimplemented(m)

\* The environment: the image is zeroed, then CW, SW and the tags go in, and
\* FNSTENV masks the exceptions.
EnvImage == 3
FnstEnv(m) ==
  LET z == WriteMem(m, m.ea, EnvImage, Zero)
      w == WriteMem(z, m.ea, Byte, m.cw)
      s == WriteMem(w, Plus(m.ea, 1), Byte, FpuStatusWord(m))
      t == WriteMem(s, Plus(m.ea, 2), Byte, <<"tags">>) IN
  [t EXCEPT !.cw = <<"masked", @>>]

\* What a status word read from memory says of TOP: the one that was stored,
\* or 0 in a word that could not be read.
TopIn(v) == IF v[1] = "sw" THEN v[3] ELSE 0

FldEnv(m) ==
  LET w == ReadMem(m, m.ea, Byte)
      s == ReadMem(w, Plus(m.ea, 1), Byte) IN
  [s EXCEPT !.cw = w.v, !.top = TopIn(s.v), !.sw = s.v]

\* D9, memory forms: m32, the environment and the control word.
EscD9Memory(m) ==
  LET x == ReadMem(m, m.ea, Byte) IN
  CASE m.sub = "fld" -> Load(m, M32)
    [] m.sub = "fst" -> Store(m, M32)
    [] m.sub = "fstp" -> StorePop(m, M32)
    [] m.sub = "fldenv" -> FldEnv(m)
    [] m.sub = "fldcw" -> [x EXCEPT !.cw = x.v]
    [] m.sub = "fnstenv" -> FnstEnv(m)
    [] m.sub = "fnstcw" -> WriteMem(m, m.ea, Byte, m.cw)
    [] OTHER -> Unimplemented(m)

EscD9(c) ==
  LET m == FetchModrm(c, "fld") IN IF m.rm = "reg" THEN EscD9Register(m) ELSE EscD9Memory(m)

\* Arithmetic of ST(0) with a source: FCOM sets codes, FCOMP pops as well.
Arith(c, src) ==
  CASE c.sub = "fcom" -> SetCodes(c, <<FpuSt(c, 0), src>>)
    [] c.sub = "fcomp" -> FpuPop(SetCodes(c, <<FpuSt(c, 0), src>>))
    [] OTHER -> FpuSetSt(c, 0, <<"arith", FpuSt(c, 0), src>>)

ComparePopPop(c) == FpuPop(FpuPop(SetCodes(c, <<FpuSt(c, 0), FpuSt(c, 1)>>)))

EscDA(c) ==
  LET m == FetchModrm(c, "fadd")
      x == ReadDwords(m, m.ea, M32) IN
  CASE m.rm = "mem" -> Arith(x, x.v)
    [] m.rm = "reg" /\ m.sub = "fucompp" -> ComparePopPop(m)
    [] m.rm = "reg" /\ m.sub = "fcmov" -> CmovSt(m)
    [] OTHER -> Unimplemented(m)

\* DE has no memory form, and ModR/M 0 would be one.
EscDE(c) ==
  LET m == FetchModrm(c, "fadd") IN
  IF m.rm = "mem" THEN Unimplemented(m)
  ELSE IF m.sub = "fcompp" THEN ComparePopPop(m)
  ELSE FpuPop(FpuSetSt(m, 1, <<"arith", FpuSt(m, 1), FpuSt(m, 0)>>))

EscD8(c) ==
  LET m == FetchModrm(c, "fadd")
      x == ReadDwords(m, m.ea, M32) IN
  IF m.rm = "reg" THEN Arith(m, FpuSt(m, 1)) ELSE Arith(x, x.v)

\* The register form of DC stores to ST(i), and has no FCOM.
EscDC(c) ==
  LET m == FetchModrm(c, "fadd")
      x == ReadDwords(m, m.ea, M64) IN
  IF m.rm = "mem" THEN Arith(x, x.v)
  ELSE IF m.sub \in {"fcom", "fcomp"} THEN m
  ELSE FpuSetSt(m, 1, <<"arith", FpuSt(m, 0), FpuSt(m, 1)>>)

EscDD(c) ==
  LET m == FetchModrm(c, "fld")
      a == FpuSt(m, 0) IN
  CASE m.rm = "reg" /\ m.sub = "fst" -> FpuSetSt(m, 1, a)
    [] m.rm = "reg" /\ m.sub = "fstp" -> FpuPop(FpuSetSt(m, 1, a))
    [] m.rm = "reg" /\ m.sub = "ffree" -> m
    [] m.rm = "reg" /\ m.sub = "fucom" -> SetCodes(m, <<a, FpuSt(m, 1)>>)
    [] m.rm = "reg" /\ m.sub = "fucomp" -> FpuPop(SetCodes(m, <<a, FpuSt(m, 1)>>))
    [] m.rm = "mem" /\ m.sub = "fld" -> Load(m, M64)
    [] m.rm = "mem" /\ m.sub = "fisttp" -> StorePop(m, M64)
    [] m.rm = "mem" /\ m.sub = "fst" -> Store(m, M64)
    [] m.rm = "mem" /\ m.sub = "fstp" -> FpuPop(Store(m, M64))
    [] m.rm = "mem" /\ m.sub = "fnstsw" -> WriteMem(m, m.ea, Byte, FpuStatusWord(m))
    [] OTHER -> Unimplemented(m)

-----------------------------------------------------------------------------
(***************************************************************************)
(* 0F AE.  The FXSAVE image is CW, SW, ST(0) to ST(7) and the XMM          *)
(* registers, one cell each; it is zeroed before it is filled.             *)
(***************************************************************************)
FxImage == 12
StCell(i) == 2 + i
XmmCell(i) == 10 + i
XmmRegs == 0 .. 1

FxSave(m) ==
  LET z == WriteMem(m, m.ea, FxImage, Zero)
      h == WriteMem(WriteMem(z, m.ea, Byte, m.cw), Plus(m.ea, 1), Byte, FpuStatusWord(m))
      s[i \in 0 .. 8] ==
        IF i = 0 THEN h ELSE WriteMem(s[i - 1], Plus(m.ea, StCell(i - 1)), Byte, FpuSt(m, i - 1))
      x == WriteMem(s[8], Plus(m.ea, XmmCell(0)), Byte, m.xmm[0]) IN
  WriteMem(x, Plus(m.ea, XmmCell(1)), Byte, m.xmm[1])

FxRstor(m) ==
  LET h == FldEnv(m)
      s[i \in 0 .. 8] ==
        IF i = 0 THEN h
        ELSE LET x == ReadMem(s[i - 1], Plus(m.ea, StCell(i - 1)), Byte) IN FpuSetSt(x, i - 1, x.v)
      a == ReadMem(s[8], Plus(m.ea, XmmCell(0)), Byte)
      b == ReadMem(a, Plus(m.ea, XmmCell(1)), Byte) IN
  [b EXCEPT !.xmm = [i \in XmmRegs |-> IF i = 0 THEN a.v ELSE b.v]]

\* LDMXCSR keeps nothing, STMXCSR stores the default; fences and CLFLUSH are no-ops.
GroupAE(c) ==
  LET m == FetchModrm(c, "fxsave") IN
  CASE m.rm = "reg" -> IF m.sub = "fence" THEN m ELSE Unimplemented(m)
    [] m.rm = "mem" /\ m.sub = "fxsave" -> FxSave(m)
    [] m.rm = "mem" /\ m.sub = "fxrstor" -> FxRstor(m)
    [] m.rm = "mem" /\ m.sub = "stmxcsr" -> WriteMem(m, m.ea, Dword, <<"1F80">>)
    [] m.rm = "mem" /\ m.sub \in {"ldmxcsr", "clflush"} -> m
    [] OTHER -> Unimplemented(m)

FloatOp(c) ==
  CASE c.ins = "DB" -> EscDB(c)
    [] c.ins = "DF" -> EscDF(c)
    [] c.ins = "D9" -> EscD9(c)
    [] c.ins = "DA" -> EscDA(c)
    [] c.ins = "DE" -> EscDE(c)
    [] c.ins = "D8" -> EscD8(c)
    [] c.ins = "DC" -> EscDC(c)
    [] c.ins = "DD" -> EscDD(c)
    [] OTHER -> ControlOp(c)

-----------------------------------------------------------------------------
(***************************************************************************)
(* MMX and SSE: the two-byte opcodes of step on packed operands and        *)
(* sse_scalar, the F2 and F3 forms (crates/cpu/src/lib.rs, 7137 to 8167    *)
(* and 1779 to 2229).  An operation family is one operator: what matters   *)
(* here is what it reads and writes and in which order; what its lanes     *)
(* compute is left out.  Register 0 is the destination, and register 1 the *)
(* source when the operand is a register.                                  *)
(***************************************************************************)
M128 == 4

ReadXmmRm(c, k) ==
  IF c.rm = "reg" THEN [c EXCEPT !.v = <<"lane", k, c.xmm[1]>>] ELSE ReadDwords(c, c.ea, k)
WriteXmmRm(c, k, v) ==
  IF c.rm = "reg" THEN [c EXCEPT !.xmm[1] = <<"insert", k, v, @>>] ELSE WriteDwords(c, c.ea, k, v)
ReadMmRm(c) == IF c.rm = "reg" THEN [c EXCEPT !.v = c.mmx[1]] ELSE ReadDwords(c, c.ea, M64)
WriteMmRm(c, v) == IF c.rm = "reg" THEN [c EXCEPT !.mmx[1] = v] ELSE WriteDwords(c, c.ea, M64, v)

SetXmm(c, v) == [c EXCEPT !.xmm[0] = v]
SetMm(c, v) == [c EXCEPT !.mmx[0] = v]

\* The destination becomes a function of itself and the source.
IntoXmm(c, op, k) ==
  LET x == ReadXmmRm(FetchModrm(c, "op"), k) IN SetXmm(x, <<op, x.xmm[0], x.v>>)
IntoMm(c, op) ==
  LET x == ReadMmRm(FetchModrm(c, "op")) IN SetMm(x, <<op, x.mmx[0], x.v>>)

-----------------------------------------------------------------------------
\* MOVAPS, MOVUPS and their stores.
SseMove(c) ==
  LET m == FetchModrm(c, "op")
      x == ReadXmmRm(m, M128) IN
  IF c.sub = "load" THEN SetXmm(x, x.v) ELSE WriteXmmRm(m, M128, m.xmm[0])

\* COMISS and COMISD set EFLAGS.
Comis(c) ==
  LET x == ReadXmmRm(FetchModrm(c, "op"), M64) IN SetFlags(x, "comis", <<x.xmm[0], x.v>>)

\* MOVD to and from a general register or memory, MOVDQA.
MovdMovdqa(c) ==
  LET m == FetchModrm(c, "op")
      x == ReadRm(m, Dword)
      q == ReadXmmRm(m, M128) IN
  CASE c.sub = "movd_load" -> SetXmm(x, <<"zx", x.v>>)
    [] c.sub = "movd_store" -> WriteRm(m, Dword, <<"low", m.xmm[0]>>)
    [] c.sub = "load" -> SetXmm(q, q.v)
    [] OTHER -> WriteXmmRm(m, M128, m.xmm[0])

MmxMove(c) ==
  LET m == FetchModrm(c, "op")
      x == ReadRm(m, Dword)
      q == ReadMmRm(m) IN
  CASE c.sub = "movd_load" -> SetMm(x, <<"zx", x.v>>)
    [] c.sub = "movd_store" -> WriteRm(m, Dword, <<"low", m.mmx[0]>>)
    [] c.sub = "load" -> SetMm(q, q.v)
    [] OTHER -> WriteMmRm(m, m.mmx[0])

\* PSHUFW, PINSRW and PEXTRW: the immediate comes after the operand is read.
WordInsert(c) ==
  LET m == FetchModrm(c, "op")
      q == ReadMmRm(m)
      iq == FetchU8(q)
      w == ReadRm(m, Dword)
      iw == FetchU8(w) IN
  CASE c.sub = "pshufw" -> SetMm(iq, <<"shuffle", q.v, iq.v>>)
    [] c.sub = "pinsrw" -> SetMm(iw, <<"insert", iw.mmx[0], w.v, iw.v>>)
    [] OTHER -> WriteReg(iq, <<"extract", q.v, iq.v>>)

\* Interleave, pack, logicals, add, subtract and multiply on MMX registers.
MmxPacked(c) == IntoMm(c, "packed")

\* Shift by an immediate, in place; a memory form shifts nothing.
MmxShiftImm(c) ==
  LET m == FetchModrm(c, "none")
      i == FetchU8(m) IN
  IF m.rm = "reg" THEN [i EXCEPT !.mmx[1] = <<"shift", @, i.v>>] ELSE i

\* Shift by a count in the operand; compare.
MmxShiftCompare(c) == IntoMm(c, "shift")

\* The 128-bit integer families: interleave, logicals, add, subtract, compare.
PackedInteger(c) == IntoXmm(c, "integer", M128)

\* Shift by an immediate: registers only.
PackedShiftImm(c) ==
  LET m == FetchModrm(c, "none")
      i == FetchU8(m) IN
  IF m.rm = "mem" THEN Unimplemented(i)
  ELSE [i EXCEPT !.xmm[1] = <<"shift", @, i.v>>]

\* Shift by a count, multiply, saturating add and subtract.
PackedMultiply(c) == IntoXmm(c, "multiply", M128)

\* Packs, minimum and maximum, averages, PMULUDQ and PSADBW.
PackedNarrow(c) == IntoXmm(c, "narrow", M128)

\* MOVQ to a register clears its upper half.
MovqStore(c) ==
  LET m == FetchModrm(c, "op") IN
  IF m.rm = "reg" THEN [m EXCEPT !.xmm[1] = <<"low", m.xmm[0]>>]
  ELSE WriteDwords(m, m.ea, M64, <<"low", m.xmm[0]>>)

PMovMskb(c) ==
  LET m == FetchModrm(c, "op") IN
  IF m.rm = "mem" THEN Unimplemented(m) ELSE WriteReg(m, <<"mask", m.xmm[1]>>)

\* MOVNTPS, MOVNTDQ and MOVNTI store to memory only.
NonTemporal(c) ==
  LET m == FetchModrm(c, "op") IN
  IF m.rm = "reg" THEN Unimplemented(m)
  ELSE IF c.sub = "movnti" THEN WriteMem(m, m.ea, Dword, Reg(m))
  ELSE WriteDwords(m, m.ea, M128, m.xmm[0])

\* MASKMOVDQU stores the bytes that the mask selects at DI, one by one.
MaskMov(c) ==
  LET m == FetchModrm(c, "op")
      at == IF m.r["di"] = <<"reg", "di">> THEN 0 ELSE Wild
      w == WriteMem(m, at, Byte, <<"byte", m.xmm[0], 0>>) IN
  IF m.rm = "mem" THEN Unimplemented(m)
  ELSE WriteMem(w, Plus(at, 2), Byte, <<"byte", m.xmm[0], 2>>)

PackedConvert(c) ==
  LET x == ReadXmmRm(FetchModrm(c, "op"), IF c.sub = "cvtps2pd" THEN M64 ELSE M128) IN
  SetXmm(x, <<"convert", x.v>>)

MovMsk(c) ==
  LET x == ReadXmmRm(FetchModrm(c, "op"), M128) IN WriteReg(x, <<"mask", x.v>>)

HorizontalPd(c) == IntoXmm(c, "horizontal", M128)

\* CMPPS and CMPPD: the predicate comes after the operand is read.
PackedCmp(c) ==
  LET x == ReadXmmRm(FetchModrm(c, "op"), M128)
      i == FetchU8(x) IN
  SetXmm(i, <<"cmp", i.xmm[0], x.v, i.v>>)

\* Packed float arithmetic, minimum and maximum, square root, logicals, unpack.
PackedFloat(c) == IntoXmm(c, "float", M128)

\* MOVLPS and MOVHPS keep the other half.
MovHalf(c) ==
  LET m == FetchModrm(c, "op")
      x == ReadXmmRm(m, M64) IN
  IF c.sub = "load" THEN SetXmm(x, <<"half", x.xmm[0], x.v>>)
  ELSE IF m.rm = "reg" THEN Unimplemented(m)
  ELSE WriteDwords(m, m.ea, M64, <<"half", m.xmm[0]>>)

\* PSHUFD and SHUFPS: the selector comes before the operand is read.
Shuffle(c) ==
  LET i == FetchU8(FetchModrm(c, "op"))
      x == ReadXmmRm(i, M128) IN
  SetXmm(x, <<"shuffle", x.xmm[0], x.v, i.v>>)

-----------------------------------------------------------------------------
(***************************************************************************)
(* sse_scalar: F2 and F3 before 0F.  Only the low lane changes, except in  *)
(* a load from memory.                                                     *)
(***************************************************************************)
ScalarMove(c) ==
  LET m == FetchModrm(c, "op")
      x == ReadXmmRm(m, M64) IN
  CASE c.sub = "load" -> SetXmm(x, IF m.rm = "reg" THEN <<"insert", x.xmm[0], x.v>> ELSE <<"zx", x.v>>)
    [] c.sub = "store" -> WriteXmmRm(m, M64, m.xmm[0])
    [] c.sub = "movdqu_load" -> SetXmm(ReadXmmRm(m, M128), ReadXmmRm(m, M128).v)
    [] OTHER -> WriteXmmRm(m, M128, m.xmm[0])

ScalarArith(c) == IntoXmm(c, "scalar", M64)

CvtFromInt(c) ==
  LET x == ReadRm(FetchModrm(c, "op"), Dword) IN SetXmm(x, <<"cvt", x.xmm[0], x.v>>)

\* CVT(T)S*2SI writes a general register.
CvtToInt(c) ==
  LET x == ReadXmmRm(FetchModrm(c, "op"), M64) IN WriteReg(x, <<"cvt", x.v>>)

ScalarConvert(c) == IntoXmm(c, "convert", M64)

\* MOVQ load; PSHUFHW and PSHUFLW.
MovqShuffle(c) ==
  LET m == FetchModrm(c, "op")
      q == ReadXmmRm(m, M64)
      i == FetchU8(m)
      x == ReadXmmRm(i, M128) IN
  IF c.sub = "movq" THEN SetXmm(q, <<"zx", q.v>>) ELSE SetXmm(x, <<"shuffle", x.v, i.v>>)

\* TZCNT and LZCNT.
BitCount(c) ==
  LET x == ReadRm(FetchModrm(c, "op"), Dword) IN
  SetFlags(WriteReg(x, <<"count", x.v>>), "cf", <<x.v>>)

\* MOVDDUP, MOVSLDUP, MOVSHDUP; HADDPS, HSUBPS and ADDSUBPS.
DupHorizontal(c) == IntoXmm(c, "dup", M128)

ScalarCmp(c) ==
  LET x == ReadXmmRm(FetchModrm(c, "op"), M64)
      i == FetchU8(x) IN
  SetXmm(i, <<"cmp", i.xmm[0], x.v, i.v>>)

SseScalar(c) ==
  CASE c.ins = "scalar_move" -> ScalarMove(c)
    [] c.ins = "scalar_arith" -> ScalarArith(c)
    [] c.ins = "cvt_from_int" -> CvtFromInt(c)
    [] c.ins = "cvt_to_int" -> CvtToInt(c)
    [] c.ins = "scalar_convert" -> ScalarConvert(c)
    [] c.ins = "movq_shuffle" -> MovqShuffle(c)
    [] c.ins = "bit_count" -> BitCount(c)
    [] c.ins = "dup_horizontal" -> DupHorizontal(c)
    [] c.ins = "scalar_cmp" -> ScalarCmp(c)

PackedOp(c) ==
  CASE c.ins = "sse_move" -> SseMove(c)
    [] c.ins = "comis" -> Comis(c)
    [] c.ins = "movd_movdqa" -> MovdMovdqa(c)
    [] c.ins = "mmx_move" -> MmxMove(c)
    [] c.ins = "word_insert" -> WordInsert(c)
    [] c.ins = "mmx_packed" -> MmxPacked(c)
    [] c.ins = "mmx_shift_imm" -> MmxShiftImm(c)
    [] c.ins = "mmx_shift_compare" -> MmxShiftCompare(c)
    [] c.ins = "packed_integer" -> PackedInteger(c)
    [] c.ins = "packed_shift_imm" -> PackedShiftImm(c)
    [] c.ins = "packed_multiply" -> PackedMultiply(c)
    [] c.ins = "packed_narrow" -> PackedNarrow(c)
    [] c.ins = "movq_store" -> MovqStore(c)
    [] c.ins = "pmovmskb" -> PMovMskb(c)
    [] c.ins = "non_temporal" -> NonTemporal(c)
    [] c.ins = "maskmov" -> MaskMov(c)
    [] c.ins = "packed_convert" -> PackedConvert(c)
    [] c.ins = "movmsk" -> MovMsk(c)
    [] c.ins = "horizontal_pd" -> HorizontalPd(c)
    [] c.ins = "packed_cmp" -> PackedCmp(c)
    [] c.ins = "packed_float" -> PackedFloat(c)
    [] c.ins = "mov_half" -> MovHalf(c)
    [] c.ins = "shuffle" -> Shuffle(c)
    [] c.ins = "AE" -> GroupAE(c)
    [] OTHER -> SystemOp(c)
=============================================================================
