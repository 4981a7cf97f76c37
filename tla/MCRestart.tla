----------------------------- MODULE MCRestart ------------------------------
(***************************************************************************)
(* Every form of every arm of step but the string instructions.            *)
(***************************************************************************)
EXTENDS Restart

With(ins, subs) == {<<ins, s>> : s \in subs}
Alone(names) == {<<n, "">> : n \in names}

MCPlain ==
  Alone({"alu_acc_imm", "xchg_ax", "mov_r_imm", "cbw", "cwd", "sahf", "lahf", "incdec_r",
         "test_imm", "daa", "aam", "aad", "cmc", "cld", "nop", "jmp_rel", "jcc", "loop", "jcxz",
         "jmp_far", "hlt", "rep_other", "ud2", "clts", "wbinvd", "rdtsc", "rdpmc", "rdmsr",
         "wrmsr", "sysenter", "sysexit", "jcc_near", "cpuid", "bswap"})
  \cup With("in_imm", {"open", "closed"}) \cup With("in_dx", {"open", "closed"})
  \cup With("out_imm", {"open", "closed"}) \cup With("out_dx", {"open", "closed"})
  \cup With("cli", {"open"}) \cup With("sti", {"open"})
  \cup With("mov_r_cr", {"cr0", "cr3"}) \cup With("mov_cr_r", {"cr0", "cr3", "cr4"})
  \cup With("mov_r_dr", {"dr"}) \cup With("mov_dr_r", {"dr"})

Either ==
  Alone({"alu_rm_r", "alu_r_rm", "test_rm", "xchg_rm", "mov_rm_r", "mov_r_rm",
         "mov_rm_imm", "shift_cl", "shift_imm", "arpl", "imul3",
         "nop_rm", "bt_r", "bts_r", "cmov", "shld_imm",
         "shld_cl", "imul2", "movx_b", "movx", "setcc", "xadd", "bsf", "cmpxchg", "comis",
         "mmx_packed", "mmx_shift_compare", "packed_integer",
         "packed_multiply", "packed_narrow", "movq_store",
         "packed_convert", "horizontal_pd", "packed_cmp", "packed_float", "shuffle",
         "scalar_arith", "cvt_from_int", "cvt_to_int", "scalar_convert", "bit_count",
         "dup_horizontal", "scalar_cmp"})
  \cup With("mov_rm_sreg", {"ds", "ss"}) \cup With("mov_sreg", {"ds", "ss"})
  \cup With("group1", {"alu", "cmp"})
  \cup With("group3b", {"test", "not", "neg", "mul", "div"})
  \cup With("group3", {"test", "not", "neg", "mul", "div"})
  \cup With("incdec_b", {"inc", "dec"}) \cup With("bt_imm", {"bt", "bts"})
  \cup With("group5", {"inc", "dec", "jmp"})
  \cup With("group6", {"sldt", "str", "lldt", "ltr", "verr"})
  \cup With("group7", {"smsw", "lmsw"})
  \cup With("D8", {"fadd", "fcom", "fcomp"}) \cup With("DC", {"fadd", "fcom", "fcomp"})
  \cup With("sse_move", {"load", "store"}) \cup With("mov_half", {"load", "store"})
  \cup With("movd_movdqa", {"movd_load", "movd_store", "load", "store"})
  \cup With("mmx_move", {"movd_load", "movd_store", "load", "store"})
  \cup With("word_insert", {"pshufw", "pinsrw"})
  \cup With("scalar_move", {"load", "store", "movdqu_load", "movdqu_store"})
  \cup With("movq_shuffle", {"movq", "shuffle"})

MCRegister == Either
  \cup Alone({"mmx_shift_imm", "packed_shift_imm", "pmovmskb", "maskmov", "movmsk"})
  \cup With("group7", {"rdtscp"}) \cup With("word_insert", {"pextrw"})
  \cup With("DB", {"fninit", "fnclex", "fcomi", "fcmov"}) \cup With("DF", {"fnstsw", "fcomip"})
  \cup With("D9", {"const", "unary", "split", "binary", "fscale", "fprem", "fxam", "fdecstp",
                   "fincstp", "fxch", "fld_st"})
  \cup With("DA", {"fucompp", "fcmov"}) \cup With("DE", {"fadd", "fcompp"})
  \cup With("DD", {"fst", "fstp", "ffree", "fucom", "fucomp"}) \cup With("AE", {"fence"})

MCMemory == Either
  \cup Alone({"lea", "les", "lds", "mov_ax_moffs", "mov_moffs_ax", "xlat"})
  \cup With("cmpxchg8b", {"cx8"}) \cup With("group5", {"jmpf"})
  \cup With("group7", {"sgdt", "sidt", "lgdt", "lidt", "invlpg"})
  \cup With("DB", {"fild", "fist", "fistp", "fld80", "fstp80"})
  \cup With("DF", {"fild", "fist", "fistp", "fild64", "fistp64"})
  \cup With("D9", {"fld", "fst", "fstp", "fldenv", "fldcw", "fnstenv", "fnstcw"})
  \cup With("DA", {"fadd", "fcom", "fcomp"})
  \cup With("DD", {"fld", "fisttp", "fst", "fstp", "fnstsw"})
  \cup With("AE", {"fxsave", "fxrstor", "stmxcsr", "ldmxcsr", "clflush"})
  \cup With("non_temporal", {"movnti", "other"})

MCStack ==
  Alone({"pop_rm", "pusha", "popa", "enter", "leave", "push_r", "pop_r",
         "push_imm", "call_rel", "call_far", "ret", "ret_imm", "retf", "retf_imm", "pushf", "popf",
         "iret"})
  \cup With("push_sreg", {"ds"}) \cup With("pop_sreg", {"ds", "ss"})
  \cup With("push_fs", {"fs"}) \cup With("pop_fs", {"fs"})
  \cup With("int3", {"open", "closed"}) \cup With("int_n", {"open", "closed"})
  \cup With("into", {"open", "closed"}) \cup With("int_bios", {"open", "closed"})
  \cup With("group5", {"call", "callf", "push"})

\* DIV and IDIV alone.
MCDivide == With("group3", {"div"})
=============================================================================
