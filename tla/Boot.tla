-------------------------------- MODULE Boot --------------------------------
(***************************************************************************)
(* How the host puts a guest into memory and hands over to it              *)
(* (crates/vm/src/lib.rs, bzimage.rs and elf.rs): the kernel's setup block *)
(* and payload, its command line, the ramdisk, the framebuffer, the zero   *)
(* page with its memory map, and on the real-mode path the vectors and the *)
(* BIOS calls by which the guest asks for the map itself.                  *)
(*                                                                         *)
(* Memory is the sequence of the host's writes, each an interval of byte   *)
(* addresses and a term for what was written; a byte holds what the last   *)
(* write over it put there.  Addresses and sizes are the code's own.       *)
(***************************************************************************)
EXTENDS Integers, Sequences

CONSTANTS
  Rams,        \* sizes of guest memory
  Images,      \* kernel images: [ok, sects, len, init, code32]
  CmdLens,     \* lengths of command lines
  DiskLens,    \* lengths of ramdisks
  Screens,     \* framebuffers: [width, height]
  Elfs,        \* ELF images: [len, segs], segs a sequence of [off, vaddr, filesz, memsz]
  MaxCalls     \* calls of the loader before the guest starts

VARIABLES
  bootMem,     \* the writes: [lo, hi, what]
  bootVm,      \* [ram, fb, started, entry]
  bootWant,    \* what the host has asked for since the image was loaded: [bz, cmd, disk, elf]
  bootWalk,    \* what the guest's E820 loop has collected: [token, map, done]
  bootCalls

bootVars == <<bootMem, bootVm, bootWant, bootWalk, bootCalls>>

OneMiB == 1048576
SixteenMiB == 16 * OneMiB
LowEnd == 654336          \* 0x9FC00
SetupBase == 589824       \* 0x90000
PmCmdLine == 591872       \* 0x90800
RealCmdLine == 131072     \* 0x20000
Gdt == 1280               \* 0x500
IretStub == 1312          \* 0x520
MaxCmdLine == 2047
Page4K == 4096

NoImage == [ok |-> FALSE, sects |-> 0, len |-> 0, init |-> 0, code32 |-> 0]
NoScreen == [base |-> 0, size |-> 0, stride |-> 0]
None == -1

BootInit ==
  /\ bootMem = << >>
  /\ \E ram \in Rams : bootVm = [ram |-> ram, fb |-> NoScreen, started |-> "no", entry |-> 0]
  /\ bootWant = [bz |-> NoImage, cmd |-> None, disk |-> None, elf |-> << >>]
  /\ bootWalk = [token |-> 0, map |-> << >>, done |-> FALSE]
  /\ bootCalls = 0

-----------------------------------------------------------------------------
\* write_slice: what lies beyond the end of memory is dropped.
WriteSlice(mem, at, len, what) ==
  IF at >= bootVm.ram \/ len <= 0 THEN mem
  ELSE Append(mem, [lo |-> at, hi |-> IF at + len < bootVm.ram THEN at + len ELSE bootVm.ram, what |-> what])

\* Fields of the setup header, by their offset.
OffSetupSects == 497      \* 0x1F1, where the header begins
OffVidMode == 506         \* 0x1FA
OffLoader == 528          \* 0x210, type_of_loader; loadflags follows
OffRamdiskImage == 536    \* 0x218
OffRamdiskSize == 540     \* 0x21C
OffHeapEnd == 548         \* 0x224
OffCmdLinePtr == 552      \* 0x228
OffHeaderEnd == 616       \* 0x268
Header(mem, off, len, what) == WriteSlice(mem, SetupBase + off, len, what)

\* parse: payload_offset, a setup_sects of 0 standing for 4.
PayloadOffset(bz) == ((IF bz.sects = 0 THEN 4 ELSE bz.sects) + 1) * 512

Loadable(bz) ==
  /\ bz.ok
  /\ PayloadOffset(bz) <= bz.len
  /\ bz.init # 0 => bz.code32 + bz.init <= bootVm.ram

BzWritten(mem, bz) ==
  WriteSlice(WriteSlice(mem, SetupBase, PayloadOffset(bz), <<"setup">>),
             bz.code32, bz.len - PayloadOffset(bz), <<"kernel">>)

CmdWritten(mem, at, n) ==
  LET cut == IF n < MaxCmdLine THEN n ELSE MaxCmdLine
      text == WriteSlice(mem, at, cut, <<"cmdline">>)
      ended == WriteSlice(text, at + cut, 1, <<"nul">>) IN
  Header(ended, OffCmdLinePtr, 4, <<"ptr", at>>)

Aligned(n) == ((n + Page4K - 1) \div Page4K) * Page4K
DiskFits(n) == Aligned(n) <= bootVm.ram
DiskAt(n) == bootVm.ram - Aligned(n)

DiskWritten(mem, n) ==
  LET body == WriteSlice(mem, DiskAt(n), n, <<"disk">>)
      image == Header(body, OffRamdiskImage, 4, <<"ptr", DiskAt(n)>>)
      size == Header(image, OffRamdiskSize, 4, <<"size", n>>) IN
  Header(size, OffLoader, 1, <<"loader">>)

-----------------------------------------------------------------------------
(* The loader's calls.                                                     *)
Call ==
  /\ bootVm.started = "no" /\ bootCalls < MaxCalls
  /\ bootCalls' = bootCalls + 1
  /\ UNCHANGED bootWalk

LoadBzimage(bz) ==
  /\ Call
  /\ IF Loadable(bz)
     THEN /\ bootMem' = BzWritten(bootMem, bz)
          /\ bootWant' = [bootWant EXCEPT !.bz = bz, !.cmd = None, !.disk = None, !.elf = << >>]
     ELSE UNCHANGED <<bootMem, bootWant>>
  /\ UNCHANGED bootVm

\* Callers set the command line and the ramdisk once an image is loaded.
SetKernelCmdline(n) ==
  /\ Call /\ bootWant.bz.ok
  /\ bootMem' = CmdWritten(bootMem, PmCmdLine, n)
  /\ bootWant' = [bootWant EXCEPT !.cmd = n]
  /\ UNCHANGED bootVm

SetRamdisk(n) ==
  /\ Call /\ bootWant.bz.ok
  /\ IF DiskFits(n)
     THEN /\ bootMem' = DiskWritten(bootMem, n)
          /\ bootWant' = [bootWant EXCEPT !.disk = n]
     ELSE UNCHANGED <<bootMem, bootWant>>
  /\ UNCHANGED bootVm

EnableLinearFramebuffer(s) ==
  LET stride == 4 * s.width
      size == Aligned(stride * s.height)
      room == IF size < bootVm.ram THEN bootVm.ram - size ELSE 0 IN
  /\ Call
  /\ bootVm' = [bootVm EXCEPT !.fb = [base |-> (room \div Page4K) * Page4K, size |-> size, stride |-> stride]]
  /\ UNCHANGED <<bootMem, bootWant>>

\* load_elf: the segments in order, up to the first that is out of bounds.
ElfOk(img, s) == s.off + s.filesz <= img.len /\ s.vaddr + s.memsz <= bootVm.ram
ElfWritten(img) ==
  LET w[k \in 0 .. Len(img.segs)] ==
        IF k = 0 THEN bootMem
        ELSE LET s == img.segs[k] IN
             IF \A i \in 1 .. k : ElfOk(img, img.segs[i])
             THEN WriteSlice(WriteSlice(w[k - 1], s.vaddr, s.filesz, <<"file", k>>),
                             s.vaddr + s.filesz, s.memsz - s.filesz, <<"bss", k>>)
             ELSE w[k - 1] IN
  w[Len(img.segs)]

LoadElfImage(img) ==
  /\ Call
  /\ bootMem' = ElfWritten(img)
  /\ bootWant' = [bootWant EXCEPT
       !.elf = IF \A k \in DOMAIN img.segs : ElfOk(img, img.segs[k]) THEN img.segs ELSE << >>,
       !.bz = NoImage, !.cmd = None, !.disk = None]
  /\ UNCHANGED bootVm

-----------------------------------------------------------------------------
(* The memory map: <<base, length, kind>>, 1 usable and 2 reserved.        *)
LowMap == <<<<0, LowEnd, 1>>, <<LowEnd, OneMiB - LowEnd, 2>>>>
Above(ram, base) == IF ram > base THEN ram - base ELSE 0

ZeroPageMap(ram, fb) ==
  LET tail == fb.base + fb.size IN
  LowMap \o
  IF fb.base > OneMiB
  THEN <<<<OneMiB, fb.base - OneMiB, 1>>, <<fb.base, fb.size, 2>>>>
       \o IF tail < ram THEN <<<<tail, ram - tail, 1>>>> ELSE << >>
  ELSE <<<<OneMiB, Above(ram, OneMiB), 1>>>>

\* INT 15h: AX=E820, AH=88 and AX=E801.
BiosMap(ram) == LowMap \o <<<<OneMiB, Above(ram, OneMiB), 1>>>>
AtMost(n, cap) == IF n < cap THEN n ELSE cap
Int15Ext(ram) == AtMost(Above(ram, OneMiB) \div 1024, 65535)
Int15E801(ram) ==
  [low |-> AtMost(Above(ram, OneMiB) \div 1024, 15360),
   high |-> AtMost(Above(ram, SixteenMiB) \div 65536, 65535)]

OffScreenInfo == 15       \* 0x0F, up to 0x2D
OffE820Entries == 488     \* 0x1E8
OffE820Table == 720       \* 0x2D0

MapWritten(mem, map) ==
  LET w[i \in 0 .. Len(map)] ==
        IF i = 0 THEN Header(mem, OffE820Entries, 1, <<"count", Len(map)>>)
        ELSE Header(w[i - 1], OffE820Table + 20 * (i - 1), 20, <<"entry", map[i]>>) IN
  w[Len(map)]

ZeroPageWritten(mem) ==
  LET fb == bootVm.fb
      wiped == Header(mem, 0, OffSetupSects, <<"zero">>)
      shown == IF fb = NoScreen THEN wiped ELSE Header(wiped, OffScreenInfo, 31, <<"screen", fb>>) IN
  MapWritten(shown, ZeroPageMap(bootVm.ram, fb))

StartProtectedModeAt(entry) ==
  /\ bootVm.started = "no"
  /\ bootMem' = ZeroPageWritten(WriteSlice(bootMem, Gdt, 24, <<"gdt">>))
  /\ bootVm' = [bootVm EXCEPT !.started = "pm", !.entry = entry]
  /\ UNCHANGED <<bootWant, bootWalk, bootCalls>>

\* The command line where the protected-mode path puts it.
RealModeCmdLineInSetup == PmCmdLine

RealModeCmdLine == RealCmdLine

RealModeHeader(mem) ==
  LET loader == Header(mem, OffLoader, 2, <<"loader">>)
      heap == Header(loader, OffHeapEnd, 2, <<"heap">>) IN
  Header(heap, OffVidMode, 2, <<"vid_mode">>)

Vectors(mem) == WriteSlice(WriteSlice(mem, IretStub, 1, <<"iret">>), 0, 1024, <<"vectors", IretStub>>)

\* boot_bzimage_realmode; a ramdisk that does not fit leaves what was written.
BootBzimageRealmode(bz, cmd, disk) ==
  LET loaded == RealModeHeader(BzWritten(bootMem, bz))
      lined == CmdWritten(loaded, RealModeCmdLine, cmd)
      whole == IF disk = None THEN lined ELSE DiskWritten(lined, disk) IN
  /\ Call
  /\ IF ~Loadable(bz) THEN UNCHANGED <<bootMem, bootWant, bootVm>>
     ELSE IF disk # None /\ ~DiskFits(disk)
     THEN /\ bootMem' = lined
          /\ bootWant' = [bz |-> bz, cmd |-> None, disk |-> None, elf |-> << >>]
          /\ UNCHANGED bootVm
     ELSE /\ bootMem' = Vectors(whole)
          /\ bootWant' = [bz |-> bz, cmd |-> cmd, disk |-> disk, elf |-> << >>]
          /\ bootVm' = [bootVm EXCEPT !.started = "real", !.entry = SetupBase + 512]

\* The setup code's loop: INT 15h with the continuation token in EBX.
Int15E820 ==
  LET map == BiosMap(bootVm.ram)
      next == IF bootWalk.token + 1 < Len(map) THEN bootWalk.token + 1 ELSE 0 IN
  /\ bootVm.started = "real" /\ ~bootWalk.done
  /\ bootWalk' = [token |-> next, map |-> Append(bootWalk.map, map[bootWalk.token + 1]), done |-> next = 0]
  /\ UNCHANGED <<bootMem, bootVm, bootWant, bootCalls>>

BootNext ==
  \/ \E bz \in Images : LoadBzimage(bz) \/ \E n \in CmdLens, d \in DiskLens \cup {None} : BootBzimageRealmode(bz, n, d)
  \/ \E n \in CmdLens : SetKernelCmdline(n)
  \/ \E n \in DiskLens : SetRamdisk(n)
  \/ \E s \in Screens : EnableLinearFramebuffer(s)
  \/ \E img \in Elfs : LoadElfImage(img)
  \/ bootWant.bz.ok /\ StartProtectedModeAt(bootWant.bz.code32)
  \/ Int15E820

BootSpec == BootInit /\ [][BootNext]_bootVars

-----------------------------------------------------------------------------
(* What the guest finds.                                                   *)
\* The bytes from lo up to hi are those of a write that nothing has disturbed.
Intact(lo, hi, what) ==
  \E i \in DOMAIN bootMem :
    /\ bootMem[i].what = what /\ bootMem[i].lo <= lo /\ hi <= bootMem[i].hi
    /\ \A j \in i + 1 .. Len(bootMem) : bootMem[j].hi <= lo \/ hi <= bootMem[j].lo

Names4(off, value) == Intact(SetupBase + off, SetupBase + off + 4, value)
FromImage(off, end) == Intact(SetupBase + off, SetupBase + end, <<"setup">>)

\* The image has room for what it says it needs, and nothing else is put there.
Footprint(bz) == bz.code32 + bz.init
EnoughRam ==
  LET want == bootWant IN
  /\ want.bz.init >= want.bz.len /\ want.bz.code32 >= OneMiB
  /\ want.disk # None => DiskAt(want.disk) >= Footprint(want.bz)

CmdLineFound(at) ==
  LET n == AtMost(bootWant.cmd, MaxCmdLine) IN
  bootWant.cmd # None =>
    /\ Names4(OffCmdLinePtr, <<"ptr", at>>)
    /\ n > 0 => Intact(at, at + n, <<"cmdline">>)
    /\ Intact(at + n, at + n + 1, <<"nul">>)

DiskFound ==
  LET n == bootWant.disk IN
  n > 0 =>
    /\ Names4(OffRamdiskImage, <<"ptr", DiskAt(n)>>) /\ Names4(OffRamdiskSize, <<"size", n>>)
    /\ Intact(DiskAt(n), DiskAt(n) + n, <<"disk">>)

KernelFound ==
  LET bz == bootWant.bz IN
  /\ bz.len > PayloadOffset(bz) => Intact(bz.code32, bz.code32 + bz.len - PayloadOffset(bz), <<"kernel">>)
  /\ FromImage(OffSetupSects, OffVidMode) /\ FromImage(OffVidMode + 2, OffLoader)
  /\ FromImage(OffLoader + 2, OffRamdiskImage) /\ FromImage(OffCmdLinePtr + 4, OffHeaderEnd)

\* The map covers memory without a gap or an overlap, and above 1 MiB only the
\* framebuffer is reserved.
MapFits(map) ==
  /\ map[1][1] = 0
  /\ \A i \in 1 .. Len(map) - 1 : map[i + 1][1] = map[i][1] + map[i][2]
  /\ map[Len(map)][1] + map[Len(map)][2] = OneMiB + Above(bootVm.ram, OneMiB)
  /\ bootVm.fb.base > OneMiB =>
       {i \in DOMAIN map : map[i][1] >= OneMiB /\ map[i][3] = 2}
         = {i \in DOMAIN map : map[i][1] = bootVm.fb.base /\ map[i][2] = bootVm.fb.size}

MapFound ==
  LET map == ZeroPageMap(bootVm.ram, bootVm.fb) IN
  /\ MapFits(map)
  /\ Intact(SetupBase + OffE820Entries, SetupBase + OffE820Entries + 1, <<"count", Len(map)>>)
  /\ \A i \in DOMAIN map :
       LET at == SetupBase + OffE820Table + 20 * (i - 1) IN Intact(at, at + 20, <<"entry", map[i]>>)

\* Memory the three BIOS calls speak of is the memory of the map.
BiosAgrees ==
  LET ram == bootVm.ram  sizes == Int15E801(ram) IN
  /\ bootWalk.map = ZeroPageMap(ram, NoScreen)
  /\ Int15Ext(ram) < 65535 => Int15Ext(ram) * 1024 \in Above(ram, OneMiB) - 1023 .. Above(ram, OneMiB)
  /\ sizes.low * 1024 + sizes.high * 65536 \in Above(ram, OneMiB) - 65535 .. Above(ram, OneMiB)

(***************************************************************************)
(* The guest finds everything where the setup header says it is: whatever  *)
(* calls came before, retried and failed ones included, the kernel, its    *)
(* header, the command line with its terminator and the ramdisk are whole, *)
(* although the host writes them into one another's neighbourhood (the     *)
(* command line lies in the setup block, the memory map below it); the map *)
(* describes exactly the memory there is; on the real-mode path the setup  *)
(* code that will run is untouched and BIOS and zero page describe the     *)
(* same memory ("so the real-mode-setup boot path and the PM-direct path   *)
(* agree on memory layout").  It is the host's business that the guest has *)
(* memory for kernel and ramdisk.                                          *)
(***************************************************************************)
BootLayout ==
  /\ bootVm.started = "pm" /\ EnoughRam =>
       KernelFound /\ DiskFound /\ CmdLineFound(PmCmdLine) /\ MapFound
       /\ Intact(Gdt, Gdt + 24, <<"gdt">>)
  /\ bootVm.started = "real" /\ EnoughRam =>
       /\ KernelFound /\ DiskFound /\ CmdLineFound(RealCmdLine)
       /\ FromImage(OffHeaderEnd, PayloadOffset(bootWant.bz))
       /\ Intact(0, 1024, <<"vectors", IretStub>>) /\ Intact(IretStub, IretStub + 1, <<"iret">>)
  /\ bootWalk.done => BiosAgrees
  /\ \A k \in DOMAIN bootWant.elf :
       LET s == bootWant.elf[k] IN
       k = Len(bootWant.elf) =>
         /\ s.filesz > 0 => Intact(s.vaddr, s.vaddr + s.filesz, <<"file", k>>)
         /\ s.memsz > s.filesz => Intact(s.vaddr + s.filesz, s.vaddr + s.memsz, <<"bss", k>>)
=============================================================================
