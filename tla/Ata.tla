--------------------------------- MODULE Ata ---------------------------------
(***************************************************************************)
(* The IDE controller and its disk (crates/devices/src/ata.rs, disk.rs):   *)
(* registers, a transfer buffer with a cursor, and an image that grows on  *)
(* demand.  The guest moves a transfer byte by byte and may touch the      *)
(* registers, or issue another command, in the middle of one.              *)
(***************************************************************************)
EXTENDS Naturals, Sequences

CONSTANTS
  SectorSize,   \* bytes of a sector: 512
  CountMod,     \* values of the sector-count register: 256
  Counts,       \* sector counts the guest programs
  Lbas,         \* addresses it programs
  Bytes,        \* byte values it writes, 0 among them
  Image         \* the image the host has loaded

ASSUME AtaAssumption ==
  /\ {SectorSize, CountMod} \subseteq Nat \ {0}
  /\ Counts \subseteq 0 .. (CountMod - 1)
  /\ Lbas \subseteq Nat /\ \E l \in Lbas : \A m \in Lbas : m <= l   \* 28 bits
  /\ 0 \in Bytes /\ Image \in Seq(Bytes)

VARIABLES
  ata,    \* sector_count, lba, drq, writing, write_lba, buf, pos
  disk,   \* the bytes of the image
  want    \* history: the disk as the guest may expect it, and the transfer
          \* it believes to be in

ataVars == <<ata, disk, want>>

\* Bytes past the end of an image read as zero.
ByteAt(image, k) == IF k <= Len(image) THEN image[k] ELSE 0
Zeros(n) == [k \in 1..n |-> 0]

\* Sectors of a command: a count of 0 means CountMod of them.
Sectors(count) == IF count = 0 THEN CountMod ELSE count

\* Disk::read_sectors into a zeroed buffer of n bytes; count has the width of
\* the register again.
ReadSectors(image, lba, count, n) ==
  [k \in 1..n |-> IF k <= count * SectorSize THEN ByteAt(image, lba * SectorSize + k) ELSE 0]

\* Disk::write_sectors: the image grows to hold the data.
WriteSectors(image, lba, data) ==
  LET end == lba * SectorSize + Len(data)
  IN  [k \in 1..(IF Len(image) < end THEN end ELSE Len(image)) |->
         IF k > lba * SectorSize /\ k <= end THEN data[k - lba * SectorSize] ELSE ByteAt(image, k)]

-----------------------------------------------------------------------------
\* The guest writes a register, also while a transfer is under way.
WriteRegister ==
  /\ \/ \E c \in Counts : ata' = [ata EXCEPT !.sector_count = c]
     \/ \E l \in Lbas : ata' = [ata EXCEPT !.lba = l]
  /\ UNCHANGED <<disk, want>>

\* execute; the guest reads and writes once it has programmed a count.  A new
\* transfer replaces the one under way.  The contents of the IDENTIFY block are left out.
Execute(cmd) ==
  LET n == Sectors(ata.sector_count) * SectorSize IN
  /\ cmd \in {"READ", "WRITE"} => ata.sector_count \in Counts
  /\ ata' = CASE cmd = "READ" ->
                   [ata EXCEPT !.buf = ReadSectors(disk, ata.lba, Sectors(ata.sector_count) % CountMod, n),
                               !.pos = 0, !.writing = FALSE, !.drq = TRUE]
              [] cmd = "WRITE" ->
                   [ata EXCEPT !.buf = Zeros(n), !.pos = 0, !.writing = TRUE,
                               !.drq = TRUE, !.write_lba = ata.lba]
              [] cmd = "IDENTIFY" ->
                   [ata EXCEPT !.buf = Zeros(SectorSize), !.pos = 0, !.writing = FALSE,
                               !.drq = TRUE]
              [] cmd = "OTHER" ->
                   [ata EXCEPT !.buf = <<>>, !.pos = 0, !.writing = FALSE, !.drq = FALSE]
  /\ want' = [want EXCEPT !.cmd = cmd, !.lba = ata.lba, !.moved = <<>>,
                          !.left = CASE cmd = "OTHER" -> 0
                                      [] cmd = "IDENTIFY" -> SectorSize
                                      [] OTHER -> n]
  /\ UNCHANGED disk

\* The byte about to move is the last of the transfer.
Exhausted(a) == a.pos + 1 >= Len(a.buf)

\* A read of the data port or its mirror: pop_buf_byte.
PopByte ==
  /\ ata.drq /\ ~ata.writing
  /\ ata' = [ata EXCEPT !.pos = @ + 1, !.drq = ~Exhausted(ata)]
  /\ want' = [want EXCEPT !.left = @ - 1, !.moved = Append(@, ata.buf[ata.pos + 1])]
  /\ UNCHANGED disk

\* Where the flush of a full buffer goes.
FlushLbaLive(a) == a.lba
FlushLba(a) == a.write_lba

\* A write of the data port or its mirror: push_buf_byte, with the flush of a
\* full buffer.
PushByte(b) ==
  LET full == Exhausted(ata)
      buf  == [ata.buf EXCEPT ![ata.pos + 1] = b]
      all  == Append(want.moved, b)
  IN  /\ ata.drq /\ ata.writing
      /\ ata' = [ata EXCEPT !.buf = buf, !.pos = @ + 1, !.drq = ~full, !.writing = ~full]
      /\ disk' = IF full THEN WriteSectors(disk, FlushLba(ata), buf) ELSE disk
      /\ want' = [want EXCEPT
                    !.left = @ - 1, !.moved = all,
                    !.disk = IF want.left > 1 THEN @
                             ELSE [k \in DOMAIN @ |->
                                     IF k - want.lba * SectorSize \in DOMAIN all
                                     THEN all[k - want.lba * SectorSize] ELSE @[k]]]

\* The guest looks no further than the longest transfer at any address.
Horizon == ((CHOOSE l \in Lbas : \A m \in Lbas : m <= l) + CountMod) * SectorSize

AtaInit ==
  /\ ata = [sector_count |-> 0, lba |-> 0, drq |-> FALSE, writing |-> FALSE,
            write_lba |-> 0, buf |-> <<>>, pos |-> 0]
  /\ disk = Image
  /\ want = [disk |-> [k \in 1 .. Horizon |-> ByteAt(Image, k)], cmd |-> "OTHER",
             lba |-> 0, left |-> 0, moved |-> <<>>]

AtaNext ==
  \/ WriteRegister
  \/ \E cmd \in {"READ", "WRITE", "IDENTIFY", "OTHER"} : Execute(cmd)
  \/ PopByte
  \/ \E b \in Bytes : PushByte(b)

AtaSpec == AtaInit /\ [][AtaNext]_ataVars

-----------------------------------------------------------------------------
(***************************************************************************)
(* Properties                                                              *)
(***************************************************************************)
\* The cursor stays in the buffer, and DRQ means that there is a byte to move.
AtaTypeOK ==
  /\ ata.sector_count \in 0 .. (CountMod - 1) /\ ata.pos \in 0 .. Len(ata.buf)
  /\ ata.drq => ata.pos < Len(ata.buf)
  /\ ata.writing => ata.drq

\* A READ returns what the guest has written there, or the loaded image.
ReadsBack ==
  want.cmd = "READ" =>
    \A k \in DOMAIN want.moved : want.moved[k] = want.disk[want.lba * SectorSize + k]

\* The disk is a block store: a WRITE that received all its bytes has put them,
\* in order, at the address it was issued with, whatever was done to the
\* registers meanwhile; a WRITE that was abandoned, and every other command,
\* has changed nothing; and a READ returns what is there.  DRQ, the guest's
\* only guide through a transfer, stays set for exactly the bytes of the
\* sectors asked for.
DiskIsBlockStore ==
  /\ \A k \in DOMAIN want.disk : ByteAt(disk, k) = want.disk[k]
  /\ ata.drq <=> want.left > 0
  /\ ReadsBack
=============================================================================
