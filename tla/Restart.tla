------------------------------ MODULE Restart -------------------------------
(***************************************************************************)
(* Demand paging as one instruction lives through it.  The emulator does   *)
(* not stop at a page fault: raise_fault leaves a note in pending_fault,   *)
(* the rest of the instruction runs on zeros, step undoes its registers at *)
(* the end, and the next step delivers #PF with IP back at the start.  The *)
(* guest's handler maps the page and returns, and the instruction runs     *)
(* again, perhaps into the next missing page.                              *)
(***************************************************************************)
EXTENDS FloatOps

CONSTANTS PlainForms,       \* <<ins, sub>> without a memory operand
          RegisterForms,    \* whose ModR/M operand is a register
          MemoryForms,      \* whose ModR/M operand is in memory
          StackForms        \* that push or pop

VARIABLES start,            \* the CPU before the instruction
          cpu,
          phase             \* "run", "fault", "handler", "done" or "stopped"

restartVars == <<start, cpu, phase>>

-----------------------------------------------------------------------------
(***************************************************************************)
(* step, from the checkpoint on.  A first byte that cannot be fetched is   *)
(* opcode 0, ADD r/m8, r8; a second one after 0F is 0F 00, SLDT; after F2  *)
(* or F3 it is no string operation, and the prefix is skipped.             *)
(***************************************************************************)
TwoByte == {"group6", "group7", "ud2", "mov_r_cr", "mov_r_dr", "mov_cr_r", "mov_dr_r", "nop_rm",
            "clts", "wbinvd", "rdtsc", "rdpmc", "rdmsr", "wrmsr", "sysenter", "sysexit", "jcc_near",
            "bt_r", "bts_r", "bt_imm", "cmov", "push_fs", "pop_fs", "shld_imm", "shld_cl", "cpuid",
            "imul2", "movx_b", "movx", "setcc", "xadd", "cmpxchg8b", "bswap", "bsf", "cmpxchg",
            "sse_move", "comis", "movd_movdqa", "mmx_move", "word_insert", "mmx_packed",
            "mmx_shift_imm", "mmx_shift_compare", "packed_integer", "packed_shift_imm",
            "packed_multiply", "packed_narrow", "movq_store", "pmovmskb", "non_temporal", "maskmov",
            "packed_convert", "movmsk", "horizontal_pd", "packed_cmp", "packed_float", "mov_half",
            "shuffle", "AE"}
Scalar == {"scalar_move", "scalar_arith", "cvt_from_int", "cvt_to_int", "scalar_convert",
           "movq_shuffle", "bit_count", "dup_horizontal", "scalar_cmp"}
Escape == {"D8", "D9", "DA", "DB", "DC", "DD", "DE", "DF"}

SkipPrefix(c) == Jump(FetchU8(c), <<"op+1">>)

Decode(c) ==
  CASE c.fetch = "op" -> AluDispatch([c EXCEPT !.ins = "alu_rm_r"])
    [] c.fetch # "op" /\ c.ins \in TwoByte ->
         IF c.fetch = "op2" THEN Group6(c) ELSE PackedOp(c)
    [] c.fetch # "op" /\ c.ins \in Scalar ->
         IF c.fetch = "op2" THEN SkipPrefix(c)
         ELSE IF c.fetch = "op3" THEN Unimplemented(Fault(c, "C"))
         ELSE SseScalar(c)
    [] c.fetch # "op" /\ c.ins = "rep_other" -> SkipPrefix(c)
    [] OTHER -> FloatOp(c)

(***************************************************************************)
(* The end of step: with a fault pending the general registers and flags   *)
(* go back to the checkpoint, and the x87, XMM and MMX registers where the *)
(* opcode is one that takes the second snapshot.                           *)
(***************************************************************************)
\* Not the code: flags keep what the faulting run made of them.
RestoreRegistersOnly(c, before) == [c EXCEPT !.r = before.r]

RestoreGp(c, before) == [c EXCEPT !.r = before.r, !.fl = before.fl, !.fh = before.fh]
RestoreFp(c, before) ==
  [c EXCEPT !.top = before.top, !.sw = before.sw, !.cw = before.cw, !.st = before.st,
            !.xmm = before.xmm, !.mmx = before.mmx]

Rollback(c, before) ==
  LET snapped == before.fetch # "op" /\ before.ins \in TwoByte \cup Scalar \cup Escape
      gp == IF before.fetch # "op" /\ before.ins \in Scalar THEN c ELSE RestoreGp(c, before) IN
  IF ~Faulted(c) THEN c ELSE IF snapped THEN RestoreFp(gp, before) ELSE gp

Finish(x, c) ==
  [(IF x.ret THEN x ELSE Rollback(x, c)) EXCEPT
     !.rm = c.rm, !.reg = c.reg, !.sub = c.sub, !.ins = c.ins, !.ea = 0, !.v = Zero]

Step(c) == Finish(Decode([c EXCEPT !.ip = <<"next">>, !.ret = FALSE]), c)

-----------------------------------------------------------------------------
Execute ==
  /\ phase = "run"
  /\ cpu' = Step(cpu)
  /\ phase' = IF cpu'.err THEN "stopped" ELSE IF Faulted(cpu') THEN "fault" ELSE "done"
  /\ UNCHANGED start

\* take_pending_fault at the start of the next step.
Dispatch ==
  /\ phase = "fault"
  /\ cpu' = LET c == [cpu EXCEPT !.pend = NoPage, !.sys["cr2"] = <<"page", cpu.pend>>,
                                 !.ip = <<"op">>] IN
            DoInterrupt([c EXCEPT !.missing = cpu.pend], "PF", <<<<"code", cpu.pend>>>>)
  /\ phase' = "handler"
  /\ UNCHANGED start

\* The guest kernel: map the page writable, drop the error code, IRET.
Handle ==
  /\ phase = "handler"
  /\ cpu.ip = <<"gate", start.sys["idtr"], "PF">>
  /\ cpu' = LET c == IF cpu.missing = "C" THEN [cpu EXCEPT !.fetch = "ok"]
                     ELSE [cpu EXCEPT !.map[cpu.missing] = "rw"] IN
            Iret(MoveSp(c, Sp(c) + 1))
  /\ phase' = "run"
  /\ UNCHANGED start

RestartNext == Execute \/ Dispatch \/ Handle

-----------------------------------------------------------------------------
Selector(name, user) == <<"sel", name, IF user THEN 3 ELSE 0>>

\* Where an instruction may run onto an absent code page.
Fetches(ins) ==
  {"op", "modrm", "tail"} \cup (IF ins \in TwoByte \cup Scalar THEN {"op2"} ELSE {})
                          \cup (IF ins \in Scalar THEN {"op3"} ELSE {})

\* The CPU before an instruction of the given form.
Ready(form, rm, base, cond, user) ==
  [ins |-> form[1], sub |-> form[2], rm |-> rm, reg |-> "bx", base |-> base, ea |-> 0,
   cond |-> cond, ret |-> FALSE, err |-> FALSE, halted |-> FALSE, v |-> Zero, pend |-> NoPage,
   missing |-> NoPage, ip |-> <<"op">>, io |-> <<>>,
   r |-> [g \in GP |-> CASE g = "sp" -> <<"stk", StackTop>>
                         [] g = "bp" -> <<"stk", FrameBase>>
                         [] OTHER -> <<"reg", g>>],
   fl |-> <<"flags">>, fh |-> <<"high">>,
   sr |-> [s \in SReg |-> Selector(s, user)],
   sys |-> [s \in Sys |-> <<"sys", s>>],
   top |-> 5, st |-> [i \in 0 .. 7 |-> <<"st", i>>], sw |-> <<"status">>, cw |-> <<"control">>,
   xmm |-> [i \in XmmRegs |-> <<"xmm", i>>], mmx |-> [i \in XmmRegs |-> <<"mmx", i>>],
   mem |-> [a \in Cells |-> CASE a = StackTop + 1 -> Selector("ret", user)
                              [] a = StackTop + 3 -> <<"stk", FrameBase + 2>>
                              [] OTHER -> <<"cell", a>>],
   map |-> [p \in {"A", "B", "S", "T", "pinned"} |-> "rw"],
   cut |-> 20, scut |-> 20, fetch |-> "ok"]

Mapped == {"absent", "ro", "rw"}
Cuts == {1, 2, 5}       \* within a dword, between dwords, further on
StackCuts == {28, 31, 32, 33, 36}

Code(c) == \E f \in Fetches(c.ins) \cup {"ok"} : start = [c EXCEPT !.fetch = f]

Operand(c) ==
  \/ \E a \in Mapped : start = [c EXCEPT !.map["A"] = a]
  \/ \E a, b \in Mapped, k \in Cuts : start = [c EXCEPT !.map["A"] = a, !.map["B"] = b, !.cut = k]
  \/ \E a \in {"absent", "rw"}, f \in Fetches(c.ins) : start = [c EXCEPT !.map["A"] = a, !.fetch = f]

\* Ring 0 runs with its stack mapped.
Stack(c) ==
  \/ Code(c)
  \/ \E s, t \in IF Cpl(c) > 0 THEN Mapped ELSE {"rw"}, k \in StackCuts, a \in {"absent", "rw"} :
       start = [c EXCEPT !.map["S"] = s, !.map["T"] = t, !.scut = k, !.map["A"] = a]

RestartInit ==
  /\ \E cond, user \in BOOLEAN :
       \/ \E form \in PlainForms \cup RegisterForms : Code(Ready(form, "reg", "si", cond, user))
       \/ \E form \in MemoryForms, base \in {"bx", "si"} : Operand(Ready(form, "mem", base, cond, user))
       \/ \E form \in StackForms, rm \in {"reg", "mem"} : Stack(Ready(form, rm, "si", cond, user))
  /\ cpu = start
  /\ phase = "run"

RestartSpec == RestartInit /\ [][RestartNext]_restartVars

-----------------------------------------------------------------------------
\* What the instruction does when every page is there.
Clean(c) == Step([c EXCEPT !.map = [p \in DOMAIN c.map |-> "rw"], !.fetch = "ok"])

\* What the guest can tell apart afterwards: CR2, and the stack below the
\* instruction's own data, belong to the handler.
Live(clean, a) ==
  \/ a \in OperandCells \cup {Wild}
  \/ /\ clean.r["sp"][1] = "stk"
     /\ a >= Sp(clean)
     /\ a < StackTop => clean.mem[a] # <<"cell", a>>
     /\ a >= 40 => Sp(clean) >= 40 /\ Cpl(clean) = 0

SameOutcome(c, clean) ==
  /\ c.r = clean.r /\ c.fl = clean.fl /\ c.fh = clean.fh /\ c.sr = clean.sr
  /\ \A s \in Sys \ {"cr2"} : c.sys[s] = clean.sys[s]
  /\ c.top = clean.top /\ c.st = clean.st /\ c.sw = clean.sw /\ c.cw = clean.cw
  /\ c.xmm = clean.xmm /\ c.mmx = clean.mmx
  /\ \A a \in Cells : Live(clean, a) => c.mem[a] = clean.mem[a]
  /\ c.io = clean.io /\ c.ip = clean.ip /\ c.halted = clean.halted /\ c.err = clean.err

\* What the handler finds: the interrupted program as it was before the
\* instruction.
FrameAsBefore(c, before) ==
  LET user == Cpl(before) > 0
      top == IF user THEN KernelTop - 2 ELSE StackTop IN
  /\ c.ip = <<"gate", before.sys["idtr"], "PF">>
  /\ Sp(c) = top - 4
  /\ c.mem[top - 1] = before.fl
  /\ c.mem[top - 2] = before.sr["cs"]
  /\ c.mem[top - 3] = <<"op">>
  /\ user => c.mem[top + 1] = before.sr["ss"] /\ c.mem[top] = before.r["sp"]

Invisible ==
  /\ phase = "handler" => FrameAsBefore(cpu, start)
  /\ phase \in {"done", "stopped"} => SameOutcome(cpu, Clean(start))

\* The forms the emulator does not restart faithfully, by the line that is
\* the reason.
DividesByFault(c) == c.ins = "aam" \/ (c.ins \in {"group3", "group3b"} /\ c.sub = "div")
TakesZero(c) ==
  /\ c.fetch # "ok"
  /\ \/ c.ins \in {"int_n", "int_bios", "in_imm", "out_imm", "mov_cr_r"}
     \/ c.ins \in {"group6", "group7"} /\ Cpl(c) > 0
RejectsZero(c) ==
  \/ c.fetch = "op3"
  \/ c.fetch = "modrm" /\ c.ins \in {"DE", "bt_imm", "cmpxchg8b", "packed_shift_imm", "pmovmskb",
                                     "maskmov"}
KeepsRegister(c) ==
  \/ c.ins \in {"mov_sreg", "les", "lds", "pop_sreg", "pop_fs", "retf", "retf_imm", "iret",
               "call_far", "jmp_far", "bit_count", "cvt_to_int"}
  \/ c.sub \in {"callf", "jmpf", "lidt"}
StoresTwice(c) ==
  /\ c.cut = 1 /\ c.map["B"] = "ro"
  /\ \/ c.ins \in {"alu_rm_r", "arpl", "bts_r", "bt_imm", "cmpxchg", "group1", "shift_cl", "shift_imm",
                   "shld_cl", "shld_imm", "xadd", "xchg_rm"}
     \/ c.ins \in {"group3", "group5"} /\ c.sub \in {"neg", "not", "inc", "dec"}

Unrestartable(c) ==
  DividesByFault(c) \/ TakesZero(c) \/ RejectsZero(c) \/ KeepsRegister(c) \/ StoresTwice(c)

(***************************************************************************)
(* Demand paging is invisible to the program: whichever pages its code,    *)
(* operand and stack miss, the handler is entered with the state the       *)
(* instruction started from, and when the instruction has been retried     *)
(* into all of its pages, registers, flags, segments, x87 and vector       *)
(* state, memory and ports are what one run without a fault leaves.        *)
(***************************************************************************)
FaultInvisible == Invisible \/ Unrestartable(start)

(***************************************************************************)
(* "a faulting instruction commits nothing" (crates/cpu/src/lib.rs, 4135): *)
(* the same of every form.                                                 *)
(***************************************************************************)
FaultCommitsNothing == Invisible
=============================================================================
