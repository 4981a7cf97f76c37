------------------------------- MODULE MCCpu --------------------------------
(***************************************************************************)
(* The processor, by the questions that are asked of it: what its TLBs     *)
(* cache, how an instruction survives a page fault, how a repeated string  *)
(* instruction does, what the integer and the x87 instructions compute,    *)
(* and what memory holds when a guest's first instruction runs.  The       *)
(* models share no state, so each behaviour follows one of them; the       *)
(* others rest.                                                            *)
(*                                                                         *)
(* The instance: the TLB instance of MCTlb, every instruction form of      *)
(* MCRestart, words of five bits, significands of four, and guests of 1    *)
(* MiB, 4 MiB and an odd size above 64 MiB, with kernels that lack an      *)
(* init_size, have no setup_sects, need memory or are refused, and an ELF  *)
(* image whose second segment is cut off.                                  *)
(***************************************************************************)
EXTENDS MCTlb, MCRestart, RepString, Alu, F80, Boot

VARIABLE part

cpuVars == <<part, tlbVars, restartVars, strVars, aluVars, fpVars, bootVars>>

TlbRests ==
  /\ pd = Zero /\ pt = Zero /\ pg = FALSE /\ wp = FALSE /\ pse = FALSE /\ a20 = TRUE
  /\ cr3 = Zero /\ tlb = EmptyTlb /\ fault = NoFault /\ allowed = Zero
RestartRests == start = Zero /\ cpu = Zero /\ phase = "rest"
StrRests == strStart = Zero /\ str = Zero /\ strPhase = "rest"
AluRests == aluIn = Zero /\ aluOut = Zero /\ aluDone = FALSE
FpRests == fpIn = Zero /\ fpOut = Zero /\ fpDone = FALSE
BootRests ==
  /\ bootMem = << >> /\ bootVm = [ram |-> 0, fb |-> NoScreen, started |-> "no", entry |-> 0]
  /\ bootWant = [bz |-> NoImage, cmd |-> None, disk |-> None, elf |-> << >>]
  /\ bootWalk = [token |-> 0, map |-> << >>, done |-> FALSE] /\ bootCalls = 0

CpuInit ==
  \/ part = "tlb" /\ TlbInit /\ RestartRests /\ StrRests /\ AluRests /\ FpRests /\ BootRests
  \/ part = "restart" /\ TlbRests /\ RestartInit /\ StrRests /\ AluRests /\ FpRests /\ BootRests
  \/ part = "string" /\ TlbRests /\ RestartRests /\ StrInit /\ AluRests /\ FpRests /\ BootRests
  \/ part = "alu" /\ TlbRests /\ RestartRests /\ StrRests /\ AluInit /\ FpRests /\ BootRests
  \/ part = "f80" /\ TlbRests /\ RestartRests /\ StrRests /\ AluRests /\ FpInit /\ BootRests
  \/ part = "boot" /\ TlbRests /\ RestartRests /\ StrRests /\ AluRests /\ FpRests /\ BootInit

CpuNext ==
  /\ UNCHANGED part
  /\ \/ part = "tlb" /\ TlbNext /\ UNCHANGED <<restartVars, strVars, aluVars, fpVars, bootVars>>
     \/ part = "restart" /\ RestartNext /\ UNCHANGED <<tlbVars, strVars, aluVars, fpVars, bootVars>>
     \/ part = "string" /\ StrNext /\ UNCHANGED <<tlbVars, restartVars, aluVars, fpVars, bootVars>>
     \/ part = "alu" /\ AluStep /\ UNCHANGED <<tlbVars, restartVars, strVars, fpVars, bootVars>>
     \/ part = "f80" /\ FpNext /\ UNCHANGED <<tlbVars, restartVars, strVars, aluVars, bootVars>>
     \/ part = "boot" /\ BootNext /\ UNCHANGED <<tlbVars, restartVars, strVars, aluVars, fpVars>>

CpuSpec == CpuInit /\ [][CpuNext]_cpuVars

-----------------------------------------------------------------------------
(* The values of the constants.                                            *)

MCRams == {OneMiB, 4 * OneMiB, 64 * OneMiB + 2048}
Image(sects, len, init) ==
  [ok |-> TRUE, sects |-> sects, len |-> len, init |-> init, code32 |-> OneMiB]
MCImages ==
  {Image(1, 1024, 0), Image(0, 200000, 400000), Image(31, 1500000, 2 * OneMiB), Image(31, 9000, 400000),
   [Image(1, 1024, 0) EXCEPT !.ok = FALSE]}
MCScreens == {[width |-> 640, height |-> 480], [width |-> 800, height |-> 600]}
Segment(off, vaddr, filesz, memsz) == [off |-> off, vaddr |-> vaddr, filesz |-> filesz, memsz |-> memsz]
MCElfs ==
  {[len |-> 5000, segs |-> <<Segment(100, 65536, 4000, 4000), Segment(4100, 70000, 500, 8000)>>],
   [len |-> 5000, segs |-> <<Segment(100, SetupBase, 4000, 4000), Segment(4100, 70000, 5000, 8000)>>]}
=============================================================================
