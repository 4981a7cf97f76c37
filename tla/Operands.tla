------------------------------ MODULE Operands ------------------------------
(***************************************************************************)
(* What an instruction of crates/cpu/src/lib.rs works on: registers,       *)
(* memory behind page translation, the stack, ports, and the fault that    *)
(* an access leaves in pending_fault while the instruction goes on.        *)
(*                                                                         *)
(* Values are symbolic.  A register or a memory cell holds a term, a tuple *)
(* whose first element names the function that computed it: <<"reg",       *)
(* "ax">> is what AX held before the instruction, <<"alu", x, y>> what the *)
(* ALU made of x and y.  Two runs leave equal terms iff they computed the  *)
(* same thing from the same inputs; what an addition adds up to is the     *)
(* subject of Alu.  Operand and address size choose widths only and are    *)
(* left out; a word or dword is two cells, which a page boundary may       *)
(* separate.                                                               *)
(*                                                                         *)
(* The CPU is a record c, and every operation of the code is an operator   *)
(* from records to records.  Reads leave their result in c.v.              *)
(***************************************************************************)
EXTENDS Integers, Sequences, FiniteSets

GP == {"ax", "cx", "dx", "bx", "sp", "bp", "si", "di"}
SReg == {"es", "cs", "ss", "ds", "fs", "gs"}
Sys == {"cr0", "cr2", "cr3", "cr4", "dr", "gdtr", "idtr", "ldtr", "tr", "msr"}

Zero == <<"zero">>
NoPage == "none"

\* Cells: the operand at 0, the stack around StackTop, the ring 0 stack.
OperandCells == 0 .. 19
StackTop == 32
FrameBase == 36         \* where BP points
KernelTop == 48
Wild == -1              \* wherever a clobbered base register points
Cells == OperandCells \cup (24 .. KernelTop - 1) \cup {Wild}

\* The page of a cell: the operand begins on A and crosses to B at c.cut, the
\* stack crosses from S up to T at c.scut; the rest is always mapped.
PageOf(c, a) ==
  CASE a = Wild \/ a >= 40 -> "pinned"
    [] a \in OperandCells -> IF a < c.cut THEN "A" ELSE "B"
    [] OTHER -> IF a < c.scut THEN "S" ELSE "T"

Plus(at, n) == IF at = Wild THEN Wild ELSE at + n

Fault(c, page) == [c EXCEPT !.pend = IF @ = NoPage THEN page ELSE @]
Faulted(c) == c.pend # NoPage

\* A value taken apart into the cells it covers, and put together again.
Part(v, i, n) == IF n = 1 THEN v ELSE <<"part", v, i>>
Whole(q) ==
  LET v == q[1] IN
  IF Len(q) = 1 THEN v
  ELSE IF /\ \A i \in 1 .. Len(q) : q[i][1] = "part" /\ q[i][3] = i - 1
          /\ \A i \in 1 .. Len(q) : q[i][2] = v[2]
       THEN v[2]
       ELSE <<"cells", q>>

-----------------------------------------------------------------------------
(***************************************************************************)
(* mem_read_u8 to mem_write_aligned.  While a fault is pending a read      *)
(* yields zeros and a write is dropped.  An access that crosses a page     *)
(* goes cell by cell, so a fault on the second page comes after the cells  *)
(* of the first have been written.                                         *)
(***************************************************************************)
Least(S) == CHOOSE x \in S : \A y \in S : x <= y

\* The first of n cells from at that lies on a page mapped as one of kinds;
\* the cell behind them if there is none.
FirstOn(c, at, n, kinds) ==
  Least({at + n} \cup {i \in at .. at + n - 1 : c.map[PageOf(c, i)] \in kinds})

CellsRead(c, at, n, stop) == [i \in 1 .. n |-> IF at + i - 1 < stop THEN c.mem[at + i - 1] ELSE Zero]

ReadUpTo(c, at, n, stop) ==
  IF stop = at + n THEN [c EXCEPT !.v = Whole(CellsRead(c, at, n, stop))]
  ELSE [Fault(c, PageOf(c, stop)) EXCEPT
          !.v = IF stop = at THEN Zero ELSE <<"cells", CellsRead(c, at, n, stop)>>]

ReadCells(c, at, n) ==
  IF Faulted(c) THEN [c EXCEPT !.v = Zero]
  ELSE ReadUpTo(c, at, n, FirstOn(c, at, n, {"absent"}))

ReadMem(c, at, n) == IF at = Wild THEN [c EXCEPT !.v = <<"wild">>] ELSE ReadCells(c, at, n)

WriteUpTo(c, at, n, v, stop) ==
  [(IF stop = at + n THEN c ELSE Fault(c, PageOf(c, stop))) EXCEPT
     !.mem = [i \in Cells |-> IF i \in at .. stop - 1 THEN Part(v, i - at, n) ELSE @[i]]]

WriteCells(c, at, n, v) ==
  IF Faulted(c) THEN c ELSE WriteUpTo(c, at, n, v, FirstOn(c, at, n, {"absent", "ro"}))

WriteMem(c, at, n, v) ==
  IF at # Wild THEN WriteCells(c, at, n, v)
  ELSE IF Faulted(c) THEN c ELSE [c EXCEPT !.mem[Wild] = v]

-----------------------------------------------------------------------------
(***************************************************************************)
(* Fetching.  c.fetch is the first part of the instruction that lies on an *)
(* absent code page: "op" the opcode byte, "op2" and "op3" the ones after  *)
(* it, "modrm" the ModR/M byte, "tail" a displacement or an immediate;     *)
(* "ok" when all of it is mapped.  A byte that cannot be fetched reads as  *)
(* 0: ModR/M 0 is the form /0 with register AX and a memory operand.       *)
(***************************************************************************)
FetchU8(c) ==
  IF c.fetch = "ok" THEN [c EXCEPT !.v = <<"imm">>] ELSE [Fault(c, "C") EXCEPT !.v = Zero]

\* compute_ea from the base register: the operand, unless the register no
\* longer holds the pointer.
ComputeEa(c) == IF c.r[c.base] = <<"reg", c.base>> THEN 0 ELSE Wild

FetchModrm(c, zero) ==
  IF c.fetch \notin {"ok", "tail"}
  THEN [Fault(c, "C") EXCEPT !.rm = "mem", !.reg = "ax", !.sub = zero, !.ea = 0]
  ELSE IF c.rm = "mem"
  THEN [(IF c.fetch = "tail" THEN Fault(c, "C") ELSE c) EXCEPT !.ea = ComputeEa(c)]
  ELSE c

\* read_rm8/16/32 and write_rm8/16/32: n cells at the operand, or DX.
ReadRm(c, n) ==
  IF c.rm = "reg" THEN [c EXCEPT !.v = c.r["dx"]] ELSE ReadMem(c, c.ea, n)

WriteRm(c, n, v) ==
  IF c.rm = "reg" THEN [c EXCEPT !.r["dx"] = v] ELSE WriteMem(c, c.ea, n, v)

Reg(c) == c.r[c.reg]
WriteReg(c, v) == [c EXCEPT !.r[c.reg] = v]
SetR(c, name, v) == [c EXCEPT !.r[name] = v]

\* Flags the instruction sets from its operands; the others it keeps.  The
\* same operation again sets the same flags.
SetFlags(c, op, args) ==
  [c EXCEPT !.fl = <<"flags", op, args, IF Len(@) = 4 /\ @[2] = op THEN @[4] ELSE @>>]

-----------------------------------------------------------------------------
(***************************************************************************)
(* The stack.  A push that faults leaves SP alone, a pop moves it anyway.  *)
(***************************************************************************)
Sp(c) == c.r["sp"][2]
MoveSp(c, n) == SetR(c, "sp", <<"stk", n>>)

Pushed(w, sp) == IF Faulted(w) THEN w ELSE MoveSp(w, sp)
Push(c, v) == IF Faulted(c) THEN c ELSE Pushed(WriteMem(c, Sp(c) - 1, 1, v), Sp(c) - 1)

Pop(c) == MoveSp(ReadMem(c, Sp(c), 1), Sp(c) + 1)

\* Ports: what is read and written is seen by the devices, and stays so.
PortRead(c, port) == [c EXCEPT !.io = Append(@, <<"in", port>>), !.v = <<"in", port, Len(c.io)>>]
PortWrite(c, port, v) == [c EXCEPT !.io = Append(@, <<"out", port, v>>)]

-----------------------------------------------------------------------------
(***************************************************************************)
(* Selectors are <<"sel", name, rpl>>.  write_sreg fills the hidden cache  *)
(* from the descriptor, zeros if a fault is pending: the cache is part of  *)
(* the term.                                                               *)
(***************************************************************************)
Rpl(v) == IF v[1] \in {"sel", "far"} THEN v[3] ELSE 0
Sreg(c, s) == IF c.sr[s][1] = "uncached" THEN c.sr[s][2] ELSE c.sr[s]
Cpl(c) == Rpl(Sreg(c, "cs"))
WriteSreg(c, s, v) == [c EXCEPT !.sr[s] = IF Faulted(c) THEN <<"uncached", v>> ELSE v]

(***************************************************************************)
(* do_interrupt_with_error in protected mode, through a 32-bit interrupt   *)
(* gate: from ring 3 onto the TSS's stack, otherwise onto the current one. *)
(* With a fault pending the gate reads as zeros, a 16-bit gate to 0:0, and *)
(* the frame is not pushed.                                                *)
(***************************************************************************)
PushAll(c, q) ==
  LET p[i \in 0 .. Len(q)] == IF i = 0 THEN c ELSE Push(p[i - 1], q[i]) IN p[Len(q)]

DoInterrupt(c, vector, code) ==
  LET switched == [MoveSp(c, KernelTop) EXCEPT !.sr["ss"] = <<"sel", "kss", 0>>]
      inner == Cpl(c) > 0
      pushed == PushAll(IF inner THEN switched ELSE c,
                        (IF inner THEN <<Sreg(c, "ss"), c.r["sp"]>> ELSE <<>>)
                          \o <<c.fl, Sreg(c, "cs"), c.ip>> \o code)
      entered == WriteSreg(SetFlags(pushed, "cli", <<>>), "cs", <<"sel", "gate", 0>>) IN
  IF Faulted(c)
  THEN [WriteSreg(SetFlags(c, "cli", <<>>), "cs", Zero) EXCEPT !.ip = Zero]
  ELSE [entered EXCEPT !.ip = <<"gate", c.sys["idtr"], vector>>]

\* An exception of the instruction itself: IP goes back to its start, the
\* vector is taken, and step returns without looking at pending_fault.
Raise(c, vector, code) ==
  [DoInterrupt([c EXCEPT !.ip = <<"op">>], vector, code) EXCEPT !.ret = TRUE]

RaiseDe(c) == Raise(c, "DE", <<>>)
RaiseGp(c) == Raise(c, "GP", <<Zero>>)

\* step returns Err for a form the emulator does not implement.
Unimplemented(c) == [c EXCEPT !.err = TRUE, !.ret = TRUE]

\* raise_gp_if_bad_selector: the null selector is inside every table.
BadSelector(c, v) == v # Zero /\ c.cond
=============================================================================
