----------------------------- MODULE ControlOps -----------------------------
(***************************************************************************)
(* The one-byte opcodes of step that move the stack pointer, transfer      *)
(* control or reach the ports (crates/cpu/src/lib.rs, 4194 to 6311).       *)
(***************************************************************************)
EXTENDS IntegerOps

FrameSize == 2      \* the immediate of ENTER and of RET
Extra(v) == IF v = Zero THEN 0 ELSE FrameSize

Jump(c, t) == [c EXCEPT !.ip = t]

\* The selector of a far transfer, in the ring it comes from.
FarSel(c, v) == IF v = Zero THEN Zero ELSE <<"far", v, Cpl(c)>>

JmpRel(c) == LET i == FetchU8(c) IN Jump(i, <<"rel", i.v>>)

\* Jcc, LOOP (which counts CX down first) and JCXZ.
Jcc(c) == LET i == FetchU8(c) IN IF c.cond THEN Jump(i, <<"rel", i.v>>) ELSE i

Loop(c) ==
  LET i == FetchU8(c)
      d == SetR(i, "cx", <<"dec", i.r["cx"]>>) IN
  IF c.cond THEN Jump(d, <<"rel", i.v>>) ELSE d

Jcxz(c) == LET i == FetchU8(c) IN IF c.cond THEN Jump(i, <<"rel", i.v>>) ELSE i

(***************************************************************************)
(* Group 5: INC, DEC, CALL, far CALL, JMP, far JMP and PUSH on an operand. *)
(***************************************************************************)
Group5(c) ==
  LET m == FetchModrm(c, "inc")
      x == ReadRm(m, Dword)
      off == ReadMem(m, m.ea, Dword)
      sel == ReadMem(off, Plus(m.ea, Dword), Dword)
      called == Push(Push(sel, Sreg(sel, "cs")), sel.ip) IN
  CASE m.sub \in {"inc", "dec"} -> WriteRm(SetFlags(x, m.sub, <<x.v>>), Dword, <<m.sub, x.v>>)
    [] m.sub = "call" -> Jump(Push(x, x.ip), x.v)
    [] m.sub = "jmp" -> Jump(x, x.v)
    [] m.sub = "push" -> Push(x, x.v)
    [] m.sub \in {"callf", "jmpf"} /\ m.rm = "reg" -> Unimplemented(m)
    [] m.sub = "callf" -> Jump(WriteSreg(called, "cs", FarSel(c, sel.v)), off.v)
    [] m.sub = "jmpf" -> Jump(WriteSreg(sel, "cs", FarSel(c, sel.v)), off.v)

PushA(c) ==
  PushAll(c, <<c.r["ax"], c.r["cx"], c.r["dx"], c.r["bx"],
               c.r["sp"], c.r["bp"], c.r["si"], c.r["di"]>>)

\* POPA pops into each register in turn and drops the slot of SP.
PopInto(c, name) == LET p == Pop(c) IN IF name = "sp" THEN p ELSE SetR(p, name, p.v)

PopA(c) ==
  LET order == <<"di", "si", "bp", "sp", "bx", "dx", "cx", "ax">>
      p[i \in 0 .. 8] == IF i = 0 THEN c ELSE PopInto(p[i - 1], order[i]) IN
  p[8]

Enter(c) ==
  LET i == FetchU8(c)
      p == Push(i, i.r["bp"]) IN
  MoveSp(SetR(p, "bp", p.r["sp"]), Sp(p) - Extra(i.v))

Leave(c) == LET p == Pop(SetR(c, "sp", c.r["bp"])) IN SetR(p, "bp", p.v)

PushSreg(c) == Push(c, Sreg(c, c.sub))

PopSreg(c) ==
  LET p == Pop(c) IN
  IF BadSelector(p, p.v) THEN RaiseGp(p) ELSE WriteSreg(p, c.sub, p.v)

PushR(c) == Push(c, Reg(c))
PopR(c) == LET p == Pop(c) IN WriteReg(p, p.v)
PushImm(c) == LET i == FetchU8(c) IN Push(i, i.v)

CallRel(c) == LET i == FetchU8(c) IN Jump(Push(i, i.ip), <<"rel", i.v>>)

\* Far CALL and JMP through a pointer in the instruction.
CallFar(c) ==
  LET i == FetchU8(c)
      p == Push(Push(i, Sreg(i, "cs")), i.ip) IN
  Jump(WriteSreg(p, "cs", FarSel(c, i.v)), i.v)

JmpFar(c) == LET i == FetchU8(c) IN Jump(WriteSreg(i, "cs", FarSel(c, i.v)), i.v)

\* RET and RETF; the forms with an immediate drop the arguments as well.
Dropped(c) == IF c.ins \in {"ret_imm", "retf_imm"} THEN FetchU8(c) ELSE [c EXCEPT !.v = Zero]

Ret(c) ==
  LET i == Dropped(c)
      p == Pop(i) IN
  Jump(MoveSp(p, Sp(p) + Extra(i.v)), p.v)

RetFar(c) ==
  LET i == Dropped(c)
      p == Pop(i)
      s == Pop(p)
      w == WriteSreg(Jump(s, p.v), "cs", s.v) IN
  MoveSp(w, Sp(w) + Extra(i.v))

PushF(c) == Push(c, <<"eflags", c.fh, c.fl>>)

\* POPF keeps IOPL, and IF when CPL is above IOPL, outside ring 0.
PopF(c) ==
  LET p == Pop(c)
      kept == IF Cpl(c) > 0 THEN c.fl ELSE Zero IN
  [p EXCEPT !.fh = <<"high", p.v>>, !.fl = <<"popped", p.v, kept>>]

(***************************************************************************)
(* INT3, INT n and INTO.  The BIOS hook may serve INT n without a frame;   *)
(* otherwise the gate's privilege level is checked, 0 if it cannot be      *)
(* read: ring 3 does not pass a gate that is "closed" to it.               *)
(***************************************************************************)
GateTooPrivileged(c) == Cpl(c) > 0 /\ (Faulted(c) \/ c.sub = "closed")

SoftwareInt(c) ==
  LET i == IF c.ins \in {"int_n", "int_bios"} THEN FetchU8(c) ELSE c IN
  IF c.ins = "int_bios" /\ ~Faulted(i) THEN [SetR(i, "ax", <<"bios", i.r["ax"]>>) EXCEPT !.ret = TRUE]
  ELSE IF c.ins = "into" /\ ~c.cond THEN c
  ELSE IF GateTooPrivileged(i) THEN RaiseGp(i)
  ELSE DoInterrupt(i, c.ins, <<>>)

\* IRET: back to an outer ring the stack is popped as well.
Iret(c) ==
  LET p1 == Pop(c)
      p2 == Pop(p1)
      p3 == Pop(p2)
      p4 == Pop(p3)
      p5 == Pop(p4)
      outer == Rpl(p2.v) > Cpl(c)
      last == IF outer THEN p5 ELSE p3
      back == [WriteSreg(Jump(last, p1.v), "cs", p2.v) EXCEPT !.fl = p3.v] IN
  IF outer THEN SetR(WriteSreg(back, "ss", p5.v), "sp", p4.v) ELSE back

(***************************************************************************)
(* IN and OUT.  Above IOPL the TSS bitmap decides ("closed" or not), and   *)
(* a TSS that cannot be read denies.                                       *)
(***************************************************************************)
IoDenied(c) == Cpl(c) > 0 /\ (Faulted(c) \/ c.sub = "closed")

InOut(c) ==
  LET i == IF c.ins \in {"in_imm", "out_imm"} THEN FetchU8(c) ELSE [c EXCEPT !.v = c.r["dx"]]
      x == PortRead(i, i.v) IN
  IF IoDenied(i) THEN RaiseGp(i)
  ELSE IF c.ins \in {"in_imm", "in_dx"} THEN SetR(x, "ax", x.v)
  ELSE PortWrite(i, i.v, i.r["ax"])

\* HLT stops the CPU, CLI and STI change IF; ring 3 (IOPL 0) may do neither.
Hlt(c) == IF Cpl(c) > 0 THEN RaiseGp(c) ELSE [c EXCEPT !.halted = TRUE]
CliSti(c) == IF Cpl(c) > 0 THEN RaiseGp(c) ELSE SetFlags(c, c.ins, <<>>)

-----------------------------------------------------------------------------
ControlOp(c) ==
  CASE c.ins = "jmp_rel" -> JmpRel(c)
    [] c.ins = "jcc" -> Jcc(c)
    [] c.ins = "loop" -> Loop(c)
    [] c.ins = "jcxz" -> Jcxz(c)
    [] c.ins = "group5" -> Group5(c)
    [] c.ins = "pusha" -> PushA(c)
    [] c.ins = "popa" -> PopA(c)
    [] c.ins = "enter" -> Enter(c)
    [] c.ins = "leave" -> Leave(c)
    [] c.ins = "push_sreg" -> PushSreg(c)
    [] c.ins = "pop_sreg" -> PopSreg(c)
    [] c.ins = "push_r" -> PushR(c)
    [] c.ins = "pop_r" -> PopR(c)
    [] c.ins = "push_imm" -> PushImm(c)
    [] c.ins = "call_rel" -> CallRel(c)
    [] c.ins = "call_far" -> CallFar(c)
    [] c.ins = "jmp_far" -> JmpFar(c)
    [] c.ins \in {"ret", "ret_imm"} -> Ret(c)
    [] c.ins \in {"retf", "retf_imm"} -> RetFar(c)
    [] c.ins = "pushf" -> PushF(c)
    [] c.ins = "popf" -> PopF(c)
    [] c.ins \in {"int3", "int_n", "into", "int_bios"} -> SoftwareInt(c)
    [] c.ins = "iret" -> Iret(c)
    [] c.ins \in {"in_imm", "in_dx", "out_imm", "out_dx"} -> InOut(c)
    [] c.ins = "hlt" -> Hlt(c)
    [] c.ins \in {"cli", "sti"} -> CliSti(c)
    [] OTHER -> IntegerOp(c)

-----------------------------------------------------------------------------
(***************************************************************************)
(* The two-byte opcodes (0F xx) of step on integer and system registers:   *)
(* crates/cpu/src/lib.rs, 6333 to 7136 and 8168 to 8561.                   *)
(***************************************************************************)
SetSys(c, name, v) == [c EXCEPT !.sys[name] = v]
RaiseGpIfUser(c) == Cpl(c) > 0

\* SLDT, STR, LLDT, LTR, VERR and VERW; a descriptor that cannot be read
\* because a fault is pending reads as zeros.
SelectorAccessible(c, v) == IF Faulted(c) THEN Zero ELSE <<"access", v>>

Group6(c) ==
  LET m == FetchModrm(c, "sldt")
      x == ReadRm(m, Dword) IN
  CASE m.sub = "sldt" -> WriteRm(m, Dword, m.sys["ldtr"])
    [] m.sub = "str" -> WriteRm(m, Dword, m.sys["tr"])
    [] m.sub \in {"lldt", "ltr"} ->
         IF RaiseGpIfUser(m) THEN RaiseGp(m)
         ELSE SetSys(x, IF m.sub = "lldt" THEN "ldtr" ELSE "tr", x.v)
    [] m.sub = "verr" -> SetFlags(x, "zf", <<SelectorAccessible(x, x.v)>>)

(***************************************************************************)
(* SMSW and LMSW return at once, past the rollback.  LMSW keeps PE.  SGDT  *)
(* and LGDT move the limit and the base in three words.  INVLPG drops the  *)
(* TLB entry, which Tlb models.                                            *)
(***************************************************************************)
Words(c, at) ==
  LET x == ReadMem(c, at, Byte)
      y == ReadMem(x, Plus(at, 1), Byte)
      z == ReadMem(y, Plus(at, 2), Byte) IN
  [z EXCEPT !.v = <<"table", x.v, y.v, z.v>>]

StoreWords(c, at, t) ==
  LET x == WriteMem(c, at, Byte, <<"word", t, 0>>)
      y == WriteMem(x, Plus(at, 1), Byte, <<"word", t, 1>>) IN
  WriteMem(y, Plus(at, 2), Byte, <<"word", t, 2>>)

\* LMSW replaces the low bits whatever they were.
Lmsw(v, cr0) == <<"lmsw", v, IF cr0[1] = "lmsw" THEN cr0[3] ELSE cr0>>

Group7(c) ==
  LET m == FetchModrm(c, "sgdt")
      x == ReadRm(m, Dword)
      d == Words(m, m.ea)
      table == IF m.sub \in {"sgdt", "lgdt"} THEN "gdtr" ELSE "idtr" IN
  CASE m.sub = "smsw" -> [WriteRm(m, Dword, <<"low", m.sys["cr0"]>>) EXCEPT !.ret = TRUE]
    [] m.sub = "lmsw" ->
         IF RaiseGpIfUser(m) THEN RaiseGp(m)
         ELSE [SetSys(x, "cr0", Lmsw(x.v, m.sys["cr0"])) EXCEPT !.ret = TRUE]
    [] m.rm = "reg" /\ m.sub = "rdtscp" ->
         [m EXCEPT !.r["ax"] = <<"tsc">>, !.r["dx"] = <<"tsc">>, !.r["cx"] = <<"aux">>, !.ret = TRUE]
    [] m.rm = "reg" /\ m.sub \notin {"smsw", "lmsw", "rdtscp"} -> Unimplemented(m)
    [] m.rm = "mem" /\ m.sub \in {"sgdt", "sidt"} -> StoreWords(m, m.ea, m.sys[table])
    [] m.rm = "mem" /\ m.sub \in {"lgdt", "lidt"} ->
         IF RaiseGpIfUser(m) THEN RaiseGp(m) ELSE SetSys(d, table, d.v)
    [] m.rm = "mem" /\ m.sub = "invlpg" -> IF RaiseGpIfUser(m) THEN RaiseGp(m) ELSE m

Ud2(c) == DoInterrupt(Jump(c, <<"op">>), "UD", <<>>)

\* MOV between a register and CRn or DRn: ModR/M 0 names AX and CR0 (or DR0).
CrOf(c) == IF c.fetch = "ok" THEN c.sub ELSE IF c.ins \in {"mov_r_dr", "mov_dr_r"} THEN "dr" ELSE "cr0"
GprOf(c) == IF c.fetch = "ok" THEN c.reg ELSE "ax"

MovFromCr(c) ==
  IF RaiseGpIfUser(c) THEN RaiseGp(c)
  ELSE SetR(FetchU8(c), GprOf(c), c.sys[CrOf(c)])

MovFromDr(c) ==
  IF RaiseGpIfUser(c) THEN RaiseGp(c) ELSE SetR(FetchU8(c), GprOf(c), c.sys[CrOf(c)])

MovToCr(c) ==
  IF RaiseGpIfUser(c) THEN RaiseGp(c) ELSE SetSys(FetchU8(c), CrOf(c), c.r[GprOf(c)])

MovToDr(c) ==
  IF RaiseGpIfUser(c) THEN RaiseGp(c) ELSE SetSys(FetchU8(c), CrOf(c), c.r[GprOf(c)])

\* PREFETCH and the long NOP decode their operand and leave it.
NopRm(c) == FetchModrm(c, "op")

\* CLTS, and INVD and WBINVD, which have no cache to act on.
CacheOp(c) ==
  IF RaiseGpIfUser(c) THEN RaiseGp(c)
  ELSE IF c.ins = "clts" THEN SetSys(c, "cr0", <<"clts", c.sys["cr0"]>>) ELSE c

Rdtsc(c) == SetR(SetR(c, "ax", <<"tsc">>), "dx", <<"tsc">>)

\* RDPMC is ring 3's if CR4.PCE is set (c.cond).
Rdpmc(c) ==
  IF Cpl(c) > 0 /\ ~c.cond THEN RaiseGp(c) ELSE SetR(SetR(c, "ax", Zero), "dx", Zero)

\* An MSR the emulator does not know (c.cond) is #GP.
Rdmsr(c) ==
  IF RaiseGpIfUser(c) \/ c.cond THEN RaiseGp(c)
  ELSE SetR(SetR(c, "ax", <<"low", c.sys["msr"]>>), "dx", <<"high", c.sys["msr"]>>)

Wrmsr(c) ==
  IF RaiseGpIfUser(c) \/ c.cond THEN RaiseGp(c)
  ELSE SetSys(c, "msr", <<"wrmsr", c.r["cx"], c.r["ax"], c.r["dx"]>>)

Sysenter(c) ==
  LET w == WriteSreg(WriteSreg(c, "cs", <<"sel", "entry", 0>>), "ss", <<"sel", "entry+8", 0>>) IN
  SetR(Jump(w, <<"sysenter_eip">>), "sp", <<"stk", KernelTop>>)

Sysexit(c) ==
  LET w == WriteSreg(WriteSreg(c, "cs", <<"sel", "entry+16", 3>>), "ss", <<"sel", "entry+24", 3>>) IN
  IF RaiseGpIfUser(c) THEN RaiseGp(c) ELSE SetR(Jump(w, c.r["dx"]), "sp", c.r["cx"])

JccNear(c) == Jcc(c)

-----------------------------------------------------------------------------
(***************************************************************************)
(* BT, BTS, BTR and BTC.  With a register index the bit may lie outside    *)
(* the operand's own dword (c.cond).                                       *)
(***************************************************************************)
BitRegister(c) ==
  LET m == FetchModrm(c, "op")
      at == IF m.rm = "mem" /\ c.cond THEN [m EXCEPT !.ea = Plus(@, Dword)] ELSE m
      x == SetFlags(ReadRm(at, Dword), "bit", <<ReadRm(at, Dword).v, Reg(m)>>) IN
  IF c.ins = "bt_r" THEN x ELSE WriteRm(x, Dword, <<c.ins, x.v, Reg(m)>>)

\* ModR/M 0 is no form of this group.
BitImmediate(c) ==
  LET i == FetchU8(FetchModrm(c, "none"))
      x == ReadRm(i, Dword)
      y == SetFlags(x, "bit", <<x.v, i.v>>) IN
  IF i.sub = "none" THEN Unimplemented(i)
  ELSE IF i.sub = "bt" THEN y ELSE WriteRm(y, Dword, <<i.sub, x.v, i.v>>)

\* The operand is read whether or not the condition holds.
CMov(c) == LET x == ReadRm(FetchModrm(c, "op"), Dword) IN IF c.cond THEN WriteReg(x, x.v) ELSE x

PushPopFsGs(c) ==
  LET p == Pop(c) IN
  IF c.ins = "push_fs" THEN Push(c, Sreg(c, c.sub))
  ELSE IF BadSelector(p, p.v) THEN RaiseGp(p) ELSE WriteSreg(p, c.sub, p.v)

\* SHLD and SHRD; a count of zero (c.cond) touches nothing.
DoubleShift(c) ==
  LET m == FetchModrm(c, "op")
      i == IF c.ins = "shld_imm" THEN FetchU8(m) ELSE [m EXCEPT !.v = m.r["cx"]]
      x == ReadRm(i, Dword)
      args == <<x.v, Reg(m), i.v>> IN
  IF i.v = Zero \/ c.cond THEN i
  ELSE WriteRm(SetFlags(x, "shd", args), Dword, <<"shd", args>>)

Cpuid(c) ==
  [c EXCEPT !.r = [g \in GP |-> IF g \in {"ax", "bx", "cx", "dx"}
                                THEN <<"cpuid", g, c.r["ax"], c.r["cx"]>> ELSE c.r[g]]]

Imul2(c) ==
  LET x == ReadRm(FetchModrm(c, "op"), Dword) IN
  SetFlags(WriteReg(x, <<"imul", Reg(x), x.v>>), "imul", <<Reg(x), x.v>>)

MovExtend(c) ==
  LET x == ReadRm(FetchModrm(c, "op"), IF c.ins = "movx_b" THEN Byte ELSE Dword) IN
  WriteReg(x, <<"extend", x.v>>)

SetCc(c) == WriteRm(FetchModrm(c, "op"), Byte, <<"cc", c.cond>>)

\* XADD writes the register first, so that XADD AX, AX leaves the sum.
Xadd(c) ==
  LET x == ReadRm(FetchModrm(c, "op"), Dword)
      sum == <<"add", x.v, Reg(x)>> IN
  WriteRm(WriteReg(SetFlags(x, "add", <<x.v, Reg(x)>>), x.v), Dword, sum)

\* CMPXCHG8B: /1 with a memory operand only; c.cond is the outcome.
Cmpxchg8b(c) ==
  LET m == FetchModrm(c, "none")
      lo == ReadMem(m, m.ea, Dword)
      hi == ReadMem(lo, Plus(m.ea, Dword), Dword)
      w == WriteMem(WriteMem(hi, m.ea, Dword, m.r["bx"]), Plus(m.ea, Dword), Dword, m.r["cx"]) IN
  IF m.rm = "reg" \/ m.sub = "none" THEN Unimplemented(m)
  ELSE IF c.cond THEN SetFlags(w, "zf", <<>>)
  ELSE SetFlags(SetR(SetR(hi, "ax", lo.v), "dx", hi.v), "nz", <<>>)

Bswap(c) == WriteReg(c, <<"bswap", Reg(c)>>)

\* BSF and BSR leave the register on a zero source (c.cond).
BitScan(c) ==
  LET x == ReadRm(FetchModrm(c, "op"), Dword) IN
  IF x.v = Zero \/ c.cond THEN SetFlags(x, "zf", <<>>)
  ELSE WriteReg(SetFlags(x, "nz", <<>>), <<"scan", x.v>>)

Cmpxchg(c) ==
  LET x == ReadRm(FetchModrm(c, "op"), Dword)
      y == IF c.cond THEN WriteRm(x, Dword, Reg(x)) ELSE SetR(x, "ax", x.v) IN
  SetFlags(y, "sub", <<x.r["ax"], x.v>>)

-----------------------------------------------------------------------------
SystemOp(c) ==
  CASE c.ins = "group6" -> Group6(c)
    [] c.ins = "group7" -> Group7(c)
    [] c.ins = "ud2" -> Ud2(c)
    [] c.ins = "mov_r_cr" -> MovFromCr(c)
    [] c.ins = "mov_r_dr" -> MovFromDr(c)
    [] c.ins = "mov_cr_r" -> MovToCr(c)
    [] c.ins = "mov_dr_r" -> MovToDr(c)
    [] c.ins = "nop_rm" -> NopRm(c)
    [] c.ins \in {"clts", "wbinvd"} -> CacheOp(c)
    [] c.ins = "rdtsc" -> Rdtsc(c)
    [] c.ins = "rdpmc" -> Rdpmc(c)
    [] c.ins = "rdmsr" -> Rdmsr(c)
    [] c.ins = "wrmsr" -> Wrmsr(c)
    [] c.ins = "sysenter" -> Sysenter(c)
    [] c.ins = "sysexit" -> Sysexit(c)
    [] c.ins = "jcc_near" -> JccNear(c)
    [] c.ins \in {"bt_r", "bts_r"} -> BitRegister(c)
    [] c.ins = "bt_imm" -> BitImmediate(c)
    [] c.ins = "cmov" -> CMov(c)
    [] c.ins \in {"push_fs", "pop_fs"} -> PushPopFsGs(c)
    [] c.ins \in {"shld_imm", "shld_cl"} -> DoubleShift(c)
    [] c.ins = "cpuid" -> Cpuid(c)
    [] c.ins = "imul2" -> Imul2(c)
    [] c.ins \in {"movx_b", "movx"} -> MovExtend(c)
    [] c.ins = "setcc" -> SetCc(c)
    [] c.ins = "xadd" -> Xadd(c)
    [] c.ins = "cmpxchg8b" -> Cmpxchg8b(c)
    [] c.ins = "bswap" -> Bswap(c)
    [] c.ins = "bsf" -> BitScan(c)
    [] c.ins = "cmpxchg" -> Cmpxchg(c)
    [] OTHER -> Unimplemented(c)
=============================================================================
