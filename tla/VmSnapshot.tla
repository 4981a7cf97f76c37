----------------------------- MODULE VmSnapshot -----------------------------
(***************************************************************************)
(* Vm::snapshot and Vm::restore (crates/vm/src/lib.rs) with the device     *)
(* records of IoBus (crates/devices/src/lib.rs): which part of the machine *)
(* is written by which section of which version of the format, in what     *)
(* order restore checks and applies them, and what is left when it gives   *)
(* up half way.  A part's content is a number, the period of the run in    *)
(* which it was last changed; 0 is its value after construction.           *)
(***************************************************************************)
EXTENDS Integers, Sequences

CONSTANTS
  MaxEpoch,   \* how often the machine runs
  MaxTaken,   \* how many snapshots are taken
  Versions,   \* versions of the stored snapshots, a subset of 1..16
  Damage      \* kinds of stored snapshots: "cut", "record", "magic", "size"

ASSUME SnapshotAssumption ==
  {MaxEpoch, MaxTaken} \subseteq Nat /\ Versions \subseteq 1..16

VARIABLES
  vm,       \* [Parts -> contents]
  epoch,    \* number of the current period
  blob,     \* the stored snapshot
  taken,    \* number of snapshots taken
  result    \* of the last restore: "none", "ok" or "err"

snapVars == <<vm, epoch, blob, taken, result>>

-----------------------------------------------------------------------------
(* The parts, each with the version of the format that introduced it.      *)

\* Decoded into locals and committed at the end.  The x87 registers are
\* written as f64: no version stores the mantissa bits an f64 lacks (fpu_low),
\* and from_f64 leaves them zero.
CpuSince ==
  [regs |-> 1, i386 |-> 3, cr3 |-> 4, cr2 |-> 5, system |-> 6, fpu_cw |-> 7,
   fpu_st |-> 8, xmm |-> 9, debug |-> 12, fpu_low |-> 17]
\* Written in place, in this order, between RAM and the devices.
MmioSince == [lapic |-> 10, hpet |-> 11, hpet_period |-> 13]
\* The ten records of IoBus::snapshot, in their order.
Records ==
  <<"uart", "pic", "slave_pic", "pit", "kbd", "cmos", "ata", "ata2", "pci",
    "rtl8139">>

CpuParts == DOMAIN CpuSince
MmioParts == DOMAIN MmioSince
Devices == {Records[k] : k \in DOMAIN Records}
\* Fields of the devices that no record holds and restore leaves alone: the
\* 8042's command byte and modes, the NIC's queue and EEPROM clocking, the
\* bus's prescaler and IRQ gate, the disk images.
DeviceRest == {"kbd_ctl", "nic_rest", "bus", "disk"}
\* The same of Cpu and Memory: the upper half of EFLAGS, the MMX registers,
\* EFER, what a step leaves for the next one, a LAPIC interrupt not yet taken.
Unstored ==
  {"flags_high", "mmx", "efer", "pending_fault", "last_op_ip", "pending_lapic_irq"}
    \cup DeviceRest
\* Parts some version stores.
Stored == CpuParts \cup {"ram"} \cup MmioParts \cup Devices
          \cup {"seg_cache", "fb"}
Parts == Stored \cup Unstored

\* Contents of a segment cache derived from its selector.
Derived == -1

SnapTypeOK ==
  /\ vm \in [Parts -> -1..MaxEpoch]
  /\ epoch \in 0..MaxEpoch
  /\ taken \in 0..MaxTaken
  /\ result \in {"none", "ok", "err"}

-----------------------------------------------------------------------------
(* The stored form.  present holds the sections that are there in full;    *)
(* records is what the first byte of the device blob announces; bad is the *)
(* position of a device record that this build refuses, 0 for none.        *)

Sections == <<"cpu", "ram", "lapic", "hpet", "hpet_period", "devices",
              "seg_cache", "fb">>
SinceOf(s) ==
  CASE s \in {"cpu", "ram"} -> 1
    [] s \in MmioParts      -> MmioSince[s]
    [] s = "devices"        -> 2
    [] s = "seg_cache"      -> 15
    [] s = "fb"             -> 16

Has(b, s) == SinceOf(s) <= b.version
SectionsUpTo(version, n) ==
  {s \in {Sections[k] : k \in 1..n} : SinceOf(s) <= version}

\* The count byte: one per emit().
Count == Len(Records)

\* What snapshot() writes: always the newest version.
Blob(version) ==
  [version |-> version, magic |-> TRUE, size |-> TRUE, val |-> vm,
   present |-> SectionsUpTo(version, Len(Sections)), records |-> Count, bad |-> 0]

\* How a stored snapshot can differ from a written one: the tail is missing,
\* a device record has a layout this build refuses, it is not a snapshot, or
\* it was taken with another amount of RAM.
Damaged(b) ==
  {b}
  \cup (IF "cut" \in Damage
          THEN {[b EXCEPT !.present = SectionsUpTo(b.version, n)] :
                  n \in 0..(Len(Sections) - 1)}
          ELSE {})
  \cup (IF "record" \in Damage
          THEN {[b EXCEPT !.bad = k] : k \in {1, 5, Len(Records)}} ELSE {})
  \cup (IF "magic" \in Damage THEN {[b EXCEPT !.magic = FALSE]} ELSE {})
  \cup (IF "size" \in Damage THEN {[b EXCEPT !.size = FALSE]} ELSE {})

-----------------------------------------------------------------------------
(* restore.                                                                *)

\* The checks made before anything is written: length for the CPU image and
\* RAM (a RAM of another size reads as too short, or misplaces everything
\* behind it, which is not modelled further), magic, version.
ValidHead(b) == {"cpu", "ram"} \subseteq b.present /\ b.magic /\ b.size

\* LAPIC, HPET, HPET periods: each is checked for length and then written.
MmioApplied(b) ==
  {p \in MmioParts : Has(b, p) /\ p \in b.present}
MmioOk(b) == \A p \in MmioParts : Has(b, p) => p \in b.present

\* IoBus::restore: record by record; the one it refuses may have been
\* written in part.
DevicesApplied(b) ==
  IF ~Has(b, "devices") \/ "devices" \notin b.present THEN {}
  ELSE {Records[k] : k \in {j \in 1..b.records : b.bad = 0 \/ j <= b.bad}}
DevicesOk(b) ==
  Has(b, "devices") =>
    "devices" \in b.present /\ (b.bad = 0 \/ b.bad > b.records)

TailOk(b) ==
  \A s \in {"seg_cache", "fb"} : Has(b, s) => s \in b.present

RestoreOk(b) == ValidHead(b) /\ MmioOk(b) /\ DevicesOk(b) /\ TailOk(b)

\* Written in place, whether or not restore gets to its end.
InPlace(b) ==
  IF ~ValidHead(b) THEN {}
  ELSE {"ram"} \cup MmioApplied(b)
       \cup (IF MmioOk(b) THEN DevicesApplied(b) ELSE {})

\* The commit at the end: CPU fields an old version lacks get their
\* defaults, segment caches are derived, the frame buffer is left alone.
Commit(b, p) ==
  CASE p \in CpuParts -> IF CpuSince[p] <= b.version THEN b.val[p] ELSE 0
    [] p = "seg_cache" -> IF Has(b, p) THEN b.val[p] ELSE Derived
    [] p = "fb"        -> IF Has(b, p) THEN b.val[p] ELSE vm[p]
    [] OTHER           -> vm[p]

AfterCommittingFirst(b) ==
  LET written == InPlace(b)
      commit  == ValidHead(b)
  IN  [p \in Parts |->
         IF p \in written THEN b.val[p]
         ELSE IF commit THEN Commit(b, p) ELSE vm[p]]

After(b) ==
  LET written == InPlace(b)
      commit  == RestoreOk(b)
  IN  [p \in Parts |->
         IF p \in written THEN b.val[p]
         ELSE IF commit THEN Commit(b, p) ELSE vm[p]]

-----------------------------------------------------------------------------
SnapInit ==
  /\ vm = [p \in Parts |-> 0]
  /\ epoch = 0
  /\ blob = Blob(16)
  /\ taken = 0
  /\ result = "none"

\* The guest runs and changes some of its parts.
Run ==
  /\ epoch < MaxEpoch
  /\ epoch' = epoch + 1
  /\ \E touched \in {Parts, Stored} :
       vm' = [p \in Parts |-> IF p \in touched THEN epoch' ELSE vm[p]]
  /\ UNCHANGED <<blob, taken, result>>

\* The host takes a snapshot, with this build or an older one, and keeps it.
Snapshot ==
  /\ taken < MaxTaken
  /\ taken' = taken + 1
  /\ \E v \in Versions : blob' \in Damaged(Blob(v))
  /\ UNCHANGED <<vm, epoch, result>>

Restore ==
  /\ result' = IF RestoreOk(blob) THEN "ok" ELSE "err"
  /\ vm' = After(blob)
  /\ UNCHANGED <<epoch, blob, taken>>

SnapNext == Run \/ Snapshot \/ Restore

-----------------------------------------------------------------------------
RestoresStored ==
  result' = "ok" =>
    \A p \in Stored :
      (p \in CpuParts => CpuSince[p] <= blob.version)
      /\ (p \in MmioParts \cup {"seg_cache", "fb"} => Has(blob, p))
      /\ (p \in Devices => Has(blob, "devices"))
      => vm'[p] = blob.val[p]

CpuAllOrNothing ==
  \A p \in CpuParts :
    /\ result' = "err" => vm'[p] = vm[p] /\ vm'["seg_cache"] = vm["seg_cache"]
                          /\ vm'["fb"] = vm["fb"]
    /\ result' = "ok" => vm'[p] \in {0, blob.val[p]}

\* After a restore that succeeded, every part its version stores is what it
\* was when the snapshot was taken: no record is dropped, none is left from
\* the machine that was running (IoBus::snapshot: "an undercount silently
\* drops trailing devices").  And the processor is restored whole or not at
\* all.  A restore that fails leaves registers, segment caches and the frame
\* buffer as they were: they are committed together after the last check.  One
\* that succeeds owes no field to the run before it, however old the format:
\* what the snapshot lacks is at its default (comment at v12: "pre-v12
\* snapshots leave the new fields at Cpu::new() defaults").
RestoreFaithful == [][Restore => RestoresStored /\ CpuAllOrNothing]_snapVars
=============================================================================
