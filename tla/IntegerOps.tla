----------------------------- MODULE IntegerOps -----------------------------
(***************************************************************************)
(* The one-byte opcodes of step that move data and compute (crates/cpu/src *)
(* /lib.rs, 4194 to 6311): one operator per arm of the match on opcode.    *)
(* c.ins names the arm, c.sub the form that the ModR/M byte selects in a   *)
(* group, and c.cond the outcome of the arm's own test on its data.        *)
(***************************************************************************)
EXTENDS Operands

Dword == 2      \* cells of a word or dword
Byte == 1

\* alu_apply: the result, which depends on the carry, and the flags.
AluApply(c, a, b) == [SetFlags(c, "alu", <<a, b>>) EXCEPT !.v = <<"alu", a, b, c.fl>>]

\* CMP and TEST (c.cond) write nothing back.
AluDispatch(c) ==
  LET m == ReadRm(FetchModrm(c, "op"), Dword)
      toRm == AluApply(m, m.v, Reg(m))
      toReg == AluApply(m, Reg(m), m.v)
      i == FetchU8(c)
      toAcc == AluApply(i, i.r["ax"], i.v) IN
  CASE c.ins = "alu_rm_r" -> IF c.cond THEN toRm ELSE WriteRm(toRm, Dword, toRm.v)
    [] c.ins = "alu_r_rm" -> IF c.cond THEN toReg ELSE WriteReg(toReg, toReg.v)
    [] OTHER -> IF c.cond THEN toAcc ELSE SetR(toAcc, "ax", toAcc.v)

TestRm(c) ==
  LET m == ReadRm(FetchModrm(c, "op"), Dword) IN SetFlags(m, "logic", <<m.v, Reg(m)>>)

XchgRm(c) ==
  LET m == ReadRm(FetchModrm(c, "op"), Dword)
      w == WriteRm(m, Dword, Reg(m)) IN
  WriteReg(w, m.v)

MovRm(c) ==
  LET m == FetchModrm(c, "op")
      x == ReadRm(m, Dword) IN
  IF c.ins = "mov_rm_r" THEN WriteRm(m, Dword, Reg(m)) ELSE WriteReg(x, x.v)

MovRmSreg(c) == LET m == FetchModrm(c, "es") IN WriteRm(m, Dword, Sreg(m, m.sub))

Lea(c) ==
  LET m == FetchModrm(c, "op") IN
  IF m.rm = "reg" THEN Unimplemented(m) ELSE WriteReg(m, <<"lea", m.r[m.base]>>)

MovSreg(c) ==
  LET m == ReadRm(FetchModrm(c, "es"), Dword) IN
  IF BadSelector(m, m.v) THEN RaiseGp(m) ELSE WriteSreg(m, m.sub, m.v)

PopRm(c) == LET p == Pop(FetchModrm(c, "pop")) IN WriteRm(p, Dword, p.v)

XchgAx(c) == SetR(SetR(c, "ax", Reg(c)), c.reg, c.r["ax"])

\* LES and LDS: the offset, then the selector behind it.
LoadFarPointer(c, s) ==
  LET m == FetchModrm(c, "op")
      off == ReadMem(m, m.ea, Dword)
      sel == ReadMem(off, Plus(m.ea, Dword), Dword) IN
  IF m.rm = "reg" THEN Unimplemented(m)
  ELSE IF BadSelector(sel, sel.v) THEN RaiseGp(sel)
  ELSE WriteSreg(WriteReg(sel, off.v), s, sel.v)

\* Group 1: the immediate comes before the operand.
Group1(c) ==
  LET m == FetchModrm(c, "alu")
      i == FetchU8(m)
      x == ReadRm(i, Dword)
      y == AluApply(x, x.v, i.v) IN
  IF m.sub = "cmp" THEN y ELSE WriteRm(y, Dword, y.v)

(***************************************************************************)
(* Group 3.  DIV and IDIV raise #DE on a zero divisor and on a quotient    *)
(* that does not fit; a divisor that could not be read is zero.            *)
(***************************************************************************)
Multiply(c) ==
  LET p == <<"mul", c.v, c.r["ax"]>> IN
  SetFlags(SetR(SetR(c, "ax", <<"low", p>>), "dx", <<"high", p>>), "mul", <<p>>)

Divide(c) ==
  LET q == <<c.r["dx"], c.r["ax"], c.v>> IN
  IF c.v = Zero \/ c.cond THEN RaiseDe(c)
  ELSE SetR(SetR(c, "ax", <<"quot", q>>), "dx", <<"rem", q>>)

Group3Sized(c, n) ==
  LET m == FetchModrm(c, "test")
      i == IF m.sub = "test" THEN FetchU8(m) ELSE m
      x == ReadRm(i, n) IN
  CASE m.sub = "test" -> SetFlags(x, "logic", <<x.v, i.v>>)
    [] m.sub = "not" -> WriteRm(x, n, <<"not", x.v>>)
    [] m.sub = "neg" -> WriteRm(SetFlags(x, "sub", <<x.v>>), n, <<"neg", x.v>>)
    [] m.sub = "mul" -> Multiply(x)
    [] m.sub = "div" -> Divide(x)

Group3Byte(c) == Group3Sized(c, Byte)
Group3(c) == Group3Sized(c, Dword)

\* INC and DEC keep CF, as part of the old flags.
IncDecByte(c) ==
  LET x == ReadRm(FetchModrm(c, "inc"), Byte) IN
  WriteRm(SetFlags(x, x.sub, <<x.v>>), Byte, <<x.sub, x.v>>)

MovRmImm(c) == LET i == FetchU8(FetchModrm(c, "mov")) IN WriteRm(i, Dword, i.v)

\* Group 2, by 1, by CL or by an immediate.
ShiftGroup(c) ==
  LET m == FetchModrm(c, "rol")
      i == IF c.ins = "shift_imm" THEN FetchU8(m) ELSE [m EXCEPT !.v = m.r["cx"]]
      x == ReadRm(i, Dword)
      args == <<m.sub, x.v, i.v, x.fl>> IN
  WriteRm(SetFlags(x, "shift", args), Dword, <<"shift", args>>)

\* ARPL raises the selector's RPL if it is below the register's.
Arpl(c) ==
  LET x == ReadRm(FetchModrm(c, "op"), Dword)
      w == IF c.cond THEN WriteRm(x, Dword, <<"arpl", x.v, Reg(x)>>) ELSE x IN
  SetFlags(w, "arpl", <<x.v, Reg(x)>>)

Imul3(c) ==
  LET m == FetchModrm(c, "op")
      i == FetchU8(m)
      x == ReadRm(i, Dword) IN
  SetFlags(WriteReg(x, <<"imul", x.v, i.v>>), "imul", <<x.v, i.v>>)

MovRImm(c) == LET i == FetchU8(c) IN WriteReg(i, i.v)

ConvertAcc(c) ==
  IF c.ins = "cbw" THEN SetR(c, "ax", <<"sx", c.r["ax"]>>) ELSE SetR(c, "dx", <<"sign", c.r["ax"]>>)

SahfLahf(c) ==
  IF c.ins = "sahf" THEN SetFlags(c, "sahf", <<c.r["ax"]>>) ELSE SetR(c, "ax", <<"lahf", c.r["ax"], c.fl>>)

IncDecR(c) == SetFlags(WriteReg(c, <<"inc", Reg(c)>>), "inc", <<Reg(c)>>)

\* MOV between the accumulator and a direct offset.
Moffs(c) ==
  LET f == FetchU8(c)
      x == ReadMem(f, 0, Dword) IN
  IF c.ins = "mov_moffs_ax" THEN WriteMem(f, 0, Dword, f.r["ax"]) ELSE SetR(x, "ax", x.v)

TestImm(c) == LET i == FetchU8(c) IN SetFlags(i, "logic", <<i.r["ax"], i.v>>)

\* XLAT: the table is at BX, so this arm reads the operand when BX is the base.
Xlat(c) ==
  LET x == ReadMem(c, IF c.r["bx"] = <<"reg", "bx">> THEN 0 ELSE Wild, Byte) IN SetR(x, "ax", x.v)

\* DAA, DAS, AAA, AAS and AAD; AAM divides by its immediate.
BcdAdjust(c) ==
  LET i == IF c.ins \in {"aam", "aad"} THEN FetchU8(c) ELSE [c EXCEPT !.v = Zero]
      args == <<c.ins, i.r["ax"], i.v, i.fl>> IN
  IF c.ins = "aam" /\ (i.v = Zero \/ c.cond) THEN RaiseDe(i)
  ELSE SetFlags(SetR(i, "ax", <<"bcd", args>>), "bcd", args)

\* CMC, CLC, STC; CLD and STD.
FlagOp(c) == SetFlags(c, c.ins, <<>>)

-----------------------------------------------------------------------------
IntegerOp(c) ==
  CASE c.ins \in {"alu_rm_r", "alu_r_rm", "alu_acc_imm"} -> AluDispatch(c)
    [] c.ins = "test_rm" -> TestRm(c)
    [] c.ins = "xchg_rm" -> XchgRm(c)
    [] c.ins \in {"mov_rm_r", "mov_r_rm"} -> MovRm(c)
    [] c.ins = "mov_rm_sreg" -> MovRmSreg(c)
    [] c.ins = "lea" -> Lea(c)
    [] c.ins = "mov_sreg" -> MovSreg(c)
    [] c.ins = "pop_rm" -> PopRm(c)
    [] c.ins = "xchg_ax" -> XchgAx(c)
    [] c.ins = "les" -> LoadFarPointer(c, "es")
    [] c.ins = "lds" -> LoadFarPointer(c, "ds")
    [] c.ins = "group1" -> Group1(c)
    [] c.ins = "group3b" -> Group3Byte(c)
    [] c.ins = "group3" -> Group3(c)
    [] c.ins = "incdec_b" -> IncDecByte(c)
    [] c.ins = "mov_rm_imm" -> MovRmImm(c)
    [] c.ins \in {"shift_cl", "shift_imm"} -> ShiftGroup(c)
    [] c.ins = "arpl" -> Arpl(c)
    [] c.ins = "imul3" -> Imul3(c)
    [] c.ins = "mov_r_imm" -> MovRImm(c)
    [] c.ins \in {"cbw", "cwd"} -> ConvertAcc(c)
    [] c.ins \in {"sahf", "lahf"} -> SahfLahf(c)
    [] c.ins = "incdec_r" -> IncDecR(c)
    [] c.ins \in {"mov_ax_moffs", "mov_moffs_ax"} -> Moffs(c)
    [] c.ins = "test_imm" -> TestImm(c)
    [] c.ins = "xlat" -> Xlat(c)
    [] c.ins \in {"daa", "aam", "aad"} -> BcdAdjust(c)
    [] c.ins \in {"cmc", "cld"} -> FlagOp(c)
    [] c.ins = "nop" -> c
    [] OTHER -> Unimplemented(c)
=============================================================================
