-------------------------------- MODULE Tlb --------------------------------
(***************************************************************************)
(* The translation caches of the CPU (crates/cpu/src/lib.rs): fetch_tlb    *)
(* with one entry, read_tlb and write_tlb direct-mapped, all three filled  *)
(* by the page walk of translate_inner and flushed together by             *)
(* invalidate_fetch_tlb.                                                   *)
(*                                                                         *)
(* A linear page is a pair <<dir, idx>> of directory and table index.  A   *)
(* page directory entry names a table, and read as a 4 MiB page it names   *)
(* the frames Large[table][idx].  Page offsets play no part and are left   *)
(* out.  A20Mask is what forcing physical address bit 20 to zero does to a *)
(* frame.                                                                  *)
(*                                                                         *)
(* The ghost variable `allowed` is the architectural contract the caches   *)
(* are held to: a cached translation may outlive the page-table entry it   *)
(* came from until the next flush, and no longer, and it must belong to    *)
(* the paging mode the CPU is in.                                          *)
(***************************************************************************)
EXTENDS Naturals

CONSTANTS
  Dirs, Idxs,           \* indexes into a page directory and into a page table
  Roots,                \* page directories CR3 may name
  Tables,               \* values of a PDE's base field
  Frames,               \* physical page frames
  PdeValues, PteValues, \* entries the guest writes
  Large,                \* a PDE's base read as a 4 MiB page
  A20Mask,              \* the effect of a closed A20 gate on a frame
  Slots,                \* slots of read_tlb and write_tlb
  SlotOf,               \* rw_tlb_index
  Kinds,                \* kinds of access considered
  Events,               \* "cr4", "restore": may happen while paging is on
  NoWalk, NoFault, Empty \* no translation, no pending fault, no entry

Pages == Dirs \X Idxs
Pde == [p : BOOLEAN, rw : BOOLEAN, ps : BOOLEAN, table : Tables]
Pte == [p : BOOLEAN, rw : BOOLEAN, frame : Frames]
Entry == [page : Pages, frame : Frames, a20 : BOOLEAN]

ASSUME TlbAssumption ==
  /\ PdeValues \subseteq Pde
  /\ PteValues \subseteq Pte
  /\ Large \in [Tables -> [Idxs -> Frames]]
  /\ A20Mask \in [Frames -> Frames]
  /\ SlotOf \in [Pages -> Slots]
  /\ Kinds \subseteq {"fetch", "read", "write"}
  /\ NoWalk \notin Frames
  /\ NoFault \notin Pages
  /\ Empty \notin Entry

VARIABLES
  pd, pt,        \* page directories and page tables in guest RAM
  pg, wp,        \* CR0.PG, CR0.WP
  cr3, pse,      \* CR3, CR4.PSE
  a20,           \* the A20 gate
  tlb,           \* [kind -> [slot -> entry]]; fetches use one slot
  fault,         \* pending_fault: the page of the first fault of the step
  allowed        \* ghost: [kind -> [page -> walks allowed since the flush]]

mmu == <<pg, wp, cr3, pse>>
ram == <<pd, pt>>
tlbVars == <<pd, pt, pg, wp, cr3, pse, a20, tlb, fault, allowed>>

-----------------------------------------------------------------------------
(***************************************************************************)
(* translate_inner with paging on, before the A20 gate: the frame, or      *)
(* NoWalk.                                                                 *)
(***************************************************************************)
Walk(d, t, w, r, s, kind, page) ==
  LET pde == d[r][page[1]]
      pte == t[pde.table][page[2]]
      Denied(rw) == kind = "write" /\ w /\ ~rw IN
  IF ~pde.p THEN NoWalk
  ELSE IF s /\ pde.ps
       THEN IF Denied(pde.rw) THEN NoWalk ELSE Large[pde.table][page[2]]
  ELSE IF ~pte.p \/ Denied(pde.rw /\ pte.rw) THEN NoWalk
  ELSE pte.frame

WalkNow(kind, page) == Walk(pd, pt, wp, cr3, pse, kind, page)
WalkNext(kind, page) == Walk(pd', pt', wp', cr3', pse', kind, page)

Gate(line, frame) == IF line THEN frame ELSE A20Mask[frame]

\* fetch_tlb has a single slot, read_tlb and write_tlb are direct-mapped.
SlotFor(kind, page) == IF kind = "fetch" THEN "only" ELSE SlotOf[page]
AllSlots == Slots \cup {"only"}

EmptyTlb == [kind \in Kinds |-> [s \in AllSlots |-> Empty]]

-----------------------------------------------------------------------------
TlbTypeOK ==
  /\ pd \in [Roots -> [Dirs -> PdeValues]]
  /\ pt \in [Tables -> [Idxs -> PteValues]]
  /\ pg \in BOOLEAN /\ wp \in BOOLEAN /\ pse \in BOOLEAN /\ a20 \in BOOLEAN
  /\ cr3 \in Roots
  /\ tlb \in [Kinds -> [AllSlots -> Entry \cup {Empty}]]
  /\ fault \in Pages \cup {NoFault}
  /\ allowed \in [Kinds -> [Pages -> SUBSET (Frames \cup {NoWalk})]]

TlbInit ==
  /\ pd \in [Roots -> [Dirs -> PdeValues]]
  /\ pt \in [Tables -> [Idxs -> PteValues]]
  /\ pg = FALSE /\ wp = FALSE /\ pse = FALSE /\ a20 = TRUE
  /\ cr3 \in Roots
  /\ tlb = EmptyTlb
  /\ fault = NoFault
  /\ allowed = [kind \in Kinds |-> [page \in Pages |-> {WalkNow(kind, page)}]]

\* The contract after a change of the paging mode or a flush: only what a
\* walk finds now.
AllowOnlyCurrent ==
  allowed' = [kind \in Kinds |-> [page \in Pages |-> {WalkNext(kind, page)}]]

\* ... and after a store into a page table: the new walk as well.
AllowCurrentToo ==
  allowed' = [kind \in Kinds |->
                [page \in Pages |-> allowed[kind][page] \cup {WalkNext(kind, page)}]]

InvalidateFetchTlb == tlb' = EmptyTlb

-----------------------------------------------------------------------------
(***************************************************************************)
(* translate, translate_write and translate_fetch.  With paging off they   *)
(* return before the caches.  A miss walks, records the first fault of the *)
(* step, and fills the slot only if no fault is pending.                   *)
(***************************************************************************)
Hit(kind, page) ==
  LET e == tlb[kind][SlotFor(kind, page)] IN
  e # Empty /\ e.page = page /\ e.a20 = a20

FillIgnoringA20(kind, page, frame) ==
  tlb' = [tlb EXCEPT ![kind][SlotFor(kind, page)] =
            [page |-> page, frame |-> frame, a20 |-> a20]]

Fill(kind, page, frame) ==
  tlb' = [tlb EXCEPT ![kind][SlotFor(kind, page)] =
            [page |-> page, frame |-> Gate(a20, frame), a20 |-> a20]]

Translate(kind, page) ==
  /\ pg /\ ~Hit(kind, page)
  /\ LET w == WalkNow(kind, page) IN
     IF w = NoWalk
     THEN /\ fault' = IF fault = NoFault THEN page ELSE fault
          /\ UNCHANGED tlb
     ELSE /\ IF fault = NoFault THEN Fill(kind, page, w) ELSE UNCHANGED tlb
          /\ UNCHANGED fault
  /\ UNCHANGED <<ram, mmu, a20, allowed>>

\* step takes the pending fault before anything else and vectors to INT 14.
TakePendingFault ==
  /\ fault # NoFault
  /\ fault' = NoFault
  /\ UNCHANGED <<ram, mmu, a20, tlb, allowed>>

\* A store of the guest, or of the host, into a page table.
WritePde(r, d, e) ==
  /\ pd' = [pd EXCEPT ![r][d] = e]
  /\ UNCHANGED <<pt, mmu, a20, tlb, fault>>
  /\ AllowCurrentToo

WritePte(t, i, e) ==
  /\ pt' = [pt EXCEPT ![t][i] = e]
  /\ UNCHANGED <<pd, mmu, a20, tlb, fault>>
  /\ AllowCurrentToo

-----------------------------------------------------------------------------
(***************************************************************************)
(* The events that change the paging mode or flush the caches.             *)
(***************************************************************************)
MovCr0(p, w) ==
  /\ pg' = p /\ wp' = w
  /\ InvalidateFetchTlb
  /\ UNCHANGED <<ram, cr3, pse, a20, fault>>
  /\ AllowOnlyCurrent

MovCr3(r) ==
  /\ cr3' = r
  /\ InvalidateFetchTlb
  /\ UNCHANGED <<ram, pg, wp, pse, a20, fault>>
  /\ AllowOnlyCurrent

\* MOV CR4 stores the register and flushes nothing.
MovCr4(s) ==
  /\ s # pse
  /\ pg => "cr4" \in Events
  /\ pse' = s
  /\ UNCHANGED <<ram, pg, wp, cr3, a20, tlb, fault>>
  /\ AllowOnlyCurrent

\* INVLPG, whatever its operand, and a load of CS.
Invalidate ==
  /\ InvalidateFetchTlb
  /\ UNCHANGED <<ram, mmu, a20, fault>>
  /\ AllowOnlyCurrent

\* Port 0x92, and the A20 services of INT 15h.
SetA20(v) ==
  /\ a20' = v
  /\ UNCHANGED <<ram, mmu, tlb, fault, allowed>>

\* reset_to_boot. It loads CR3 with 0, one of the roots.
Reset ==
  /\ pg' = FALSE /\ wp' = FALSE /\ pse' = FALSE /\ a20' = TRUE
  /\ cr3' \in Roots
  /\ InvalidateFetchTlb
  /\ fault' = NoFault
  /\ UNCHANGED ram
  /\ AllowOnlyCurrent

\* Vm::restore replaces RAM and the control registers; neither the caches nor
\* pending_fault are touched.
Restore ==
  /\ pg => "restore" \in Events
  /\ pd' \in [Roots -> [Dirs -> PdeValues]]
  /\ pt' \in [Tables -> [Idxs -> PteValues]]
  /\ pg' \in BOOLEAN /\ wp' \in BOOLEAN /\ pse' \in BOOLEAN /\ a20' \in BOOLEAN
  /\ cr3' \in Roots
  /\ UNCHANGED <<tlb, fault>>
  /\ AllowOnlyCurrent

TlbNext ==
  \/ \E kind \in Kinds, page \in Pages : Translate(kind, page)
  \/ TakePendingFault
  \/ \E r \in Roots, d \in Dirs, e \in PdeValues : WritePde(r, d, e)
  \/ \E t \in Tables, i \in Idxs, e \in PteValues : WritePte(t, i, e)
  \/ \E p, w \in BOOLEAN : MovCr0(p, w)
  \/ \E r \in Roots : MovCr3(r)
  \/ \E s \in BOOLEAN : MovCr4(s)
  \/ Invalidate
  \/ \E v \in BOOLEAN : SetA20(v)
  \/ Reset
  \/ Restore

TlbSpec == TlbInit /\ [][TlbNext]_tlbVars

-----------------------------------------------------------------------------
(***************************************************************************)
(* Properties                                                              *)
(***************************************************************************)
\* Every cached translation is the A20-gated result of a page walk that
\* succeeded, for that page and that kind of access and in the paging mode of
\* the CPU, since the last flush: the soundness argument of
\* invalidate_fetch_tlb, "flush on every state change that could matter".
Coherent ==
  \A kind \in Kinds, s \in AllSlots :
    LET e == tlb[kind][s] IN
    e # Empty => \E w \in allowed[kind][e.page] \ {NoWalk} : e.frame = Gate(e.a20, w)

\* With paging off nothing is cached, so that turning it on starts clean even
\* though translate does not look at the caches in that mode.
NothingCachedUnpaged == ~pg => tlb = EmptyTlb
=============================================================================
