--------------------------- MODULE MachineProofs ----------------------------
(***************************************************************************)
(* Theorems on the parts of the machine whose state is their own: the      *)
(* translation caches, the timer and the disk controller.                  *)
(***************************************************************************)
EXTENDS Tlb, Pit8254, Ata, SequenceTheorems, TLAPS

-----------------------------------------------------------------------------
(* The translation caches are coherent for every shape of the page tables, *)
(* every number of slots and every indexing of them, as long as CR4.PSE is *)
(* not changed and no snapshot is restored while paging is on.             *)

\* What a walk finds now is always among the allowed results: without it a
\* fill would not preserve Coherent.
CurrentAllowed ==
  \A kind \in Kinds, page \in Pages : WalkNow(kind, page) \in allowed[kind][page]

\* The inductive invariant.
TlbInv == TlbTypeOK /\ CurrentAllowed /\ Coherent /\ NothingCachedUnpaged

(***************************************************************************)
(* A walk ends in a frame or in NoWalk.                                    *)
(***************************************************************************)
LEMMA WalkType ==
  ASSUME NEW d \in [Roots -> [Dirs -> PdeValues]],
         NEW t \in [Tables -> [Idxs -> PteValues]],
         NEW w \in BOOLEAN, NEW r \in Roots, NEW s \in BOOLEAN,
         NEW kind \in Kinds, NEW page \in Pages
  PROVE  Walk(d, t, w, r, s, kind, page) \in Frames \cup {NoWalk}
<1>1. page[1] \in Dirs /\ page[2] \in Idxs
  BY Zenon DEF Pages
<1>2. d[r][page[1]] \in Pde
  BY <1>1, TlbAssumption
<1>3. d[r][page[1]].table \in Tables
  BY <1>2, Zenon DEF Pde
<1>4. t[d[r][page[1]].table][page[2]] \in Pte
  BY <1>1, <1>3, TlbAssumption
<1>5. t[d[r][page[1]].table][page[2]].frame \in Frames
  BY <1>4, Zenon DEF Pte
<1>6. Large[d[r][page[1]].table][page[2]] \in Frames
  BY <1>1, <1>3, TlbAssumption
<1> QED
  BY <1>5, <1>6, Zenon DEF Walk

(***************************************************************************)
(* The A20 gate maps frames to frames.                                     *)
(***************************************************************************)
LEMMA GateType ==
  ASSUME NEW line \in BOOLEAN, NEW frame \in Frames
  PROVE  Gate(line, frame) \in Frames
BY TlbAssumption, Zenon DEF Gate

(***************************************************************************)
(* A flush leaves nothing cached, and nothing cached is coherent.          *)
(***************************************************************************)
LEMMA EmptyIsCoherent ==
  ASSUME tlb = EmptyTlb
  PROVE  /\ tlb \in [Kinds -> [AllSlots -> Entry \cup {Empty}]]
         /\ Coherent
         /\ NothingCachedUnpaged
BY Zenon DEF EmptyTlb, Coherent, NothingCachedUnpaged

LEMMA InitInv == TlbInit => TlbInv
<1> SUFFICES ASSUME TlbInit PROVE TlbInv
  BY Zenon
<1>1. \A kind \in Kinds, page \in Pages : WalkNow(kind, page) \in Frames \cup {NoWalk}
  BY WalkType, Zenon DEF TlbInit, WalkNow
<1>2. tlb = EmptyTlb
  BY Zenon DEF TlbInit
<1>3. TlbTypeOK
  BY <1>1, <1>2, EmptyIsCoherent, Zenon DEF TlbInit, TlbTypeOK
<1>4. CurrentAllowed
  BY Zenon DEF TlbInit, CurrentAllowed
<1> QED
  BY <1>2, <1>3, <1>4, EmptyIsCoherent, Zenon DEF TlbInv

\* The types of everything but the caches and the ghost.
PlainTypes ==
  /\ pd \in [Roots -> [Dirs -> PdeValues]]
  /\ pt \in [Tables -> [Idxs -> PteValues]]
  /\ pg \in BOOLEAN /\ wp \in BOOLEAN /\ pse \in BOOLEAN /\ a20 \in BOOLEAN
  /\ cr3 \in Roots
  /\ fault \in Pages \cup {NoFault}

(***************************************************************************)
(* Any step after which nothing is cached re-establishes the invariant.    *)
(***************************************************************************)
LEMMA FlushStep ==
  ASSUME PlainTypes', tlb' = EmptyTlb, AllowOnlyCurrent
  PROVE  TlbInv'
<1>1. \A kind \in Kinds, page \in Pages : WalkNext(kind, page) \in Frames \cup {NoWalk}
  BY WalkType, Zenon DEF PlainTypes, WalkNext
<1>2. allowed' \in [Kinds -> [Pages -> SUBSET (Frames \cup {NoWalk})]]
  BY <1>1, Zenon DEF AllowOnlyCurrent
<1>3. tlb' \in [Kinds -> [AllSlots -> Entry \cup {Empty}]]
  BY Zenon DEF EmptyTlb
<1>4. TlbTypeOK'
  BY <1>2, <1>3, Zenon DEF PlainTypes, TlbTypeOK
<1>5. CurrentAllowed'
  BY Zenon DEF CurrentAllowed, AllowOnlyCurrent, WalkNow, WalkNext
<1>6. Coherent'
  BY Zenon DEF Coherent, EmptyTlb
<1>7. NothingCachedUnpaged'
  BY Zenon DEF NothingCachedUnpaged
<1> QED
  BY <1>4, <1>5, <1>6, <1>7, Zenon DEF TlbInv

(***************************************************************************)
(* A store into a page table adds to what is allowed and changes no cache. *)
(***************************************************************************)
LEMMA TableStoreStep ==
  ASSUME TlbInv, PlainTypes', AllowCurrentToo, UNCHANGED <<mmu, a20, tlb, fault>>
  PROVE  TlbInv'
<1>1. \A kind \in Kinds, page \in Pages : WalkNext(kind, page) \in Frames \cup {NoWalk}
  BY WalkType, Zenon DEF PlainTypes, WalkNext
<1>2. allowed' \in [Kinds -> [Pages -> SUBSET (Frames \cup {NoWalk})]]
  BY <1>1 DEF AllowCurrentToo, TlbInv, TlbTypeOK
<1>3. TlbTypeOK'
  BY <1>2, Zenon DEF PlainTypes, TlbTypeOK, TlbInv
<1>4. CurrentAllowed'
  BY Zenon DEF CurrentAllowed, AllowCurrentToo, WalkNow, WalkNext
<1>5. \A kind \in Kinds, page \in Pages : allowed[kind][page] \subseteq allowed'[kind][page]
  BY Zenon DEF AllowCurrentToo
<1>6. Coherent'
  <2> SUFFICES ASSUME NEW kind \in Kinds, NEW s \in AllSlots, tlb[kind][s] # Empty
               PROVE  \E w \in allowed'[kind][tlb[kind][s].page] \ {NoWalk} :
                        tlb[kind][s].frame = Gate(tlb[kind][s].a20, w)
    BY Zenon DEF Coherent
  <2>1. tlb[kind][s].page \in Pages
    BY DEF TlbInv, TlbTypeOK, Entry
  <2> QED
    BY <1>5, <2>1, Zenon DEF TlbInv, Coherent
<1>7. NothingCachedUnpaged'
  BY Zenon DEF NothingCachedUnpaged, TlbInv, mmu
<1> QED
  BY <1>3, <1>4, <1>6, <1>7, Zenon DEF TlbInv

(***************************************************************************)
(* A translation fills at most one slot, with the walk it has just made.   *)
(***************************************************************************)
LEMMA TranslateStep ==
  ASSUME TlbInv, NEW kind \in Kinds, NEW page \in Pages, Translate(kind, page)
  PROVE  TlbInv'
<1>1. WalkNow(kind, page) \in Frames \cup {NoWalk}
  BY WalkType, Zenon DEF WalkNow, TlbInv, TlbTypeOK
<1>2. UNCHANGED <<pd, pt, pg, wp, cr3, pse, a20, allowed>> /\ pg
  BY Zenon DEF Translate, ram, mmu
<1>3. CurrentAllowed'
  BY <1>2, Zenon DEF CurrentAllowed, WalkNow, TlbInv
<1>4. NothingCachedUnpaged'
  BY <1>2, Zenon DEF NothingCachedUnpaged
<1>5. CASE UNCHANGED tlb
  <2>1. fault' \in Pages \cup {NoFault}
    BY Zenon DEF Translate, TlbInv, TlbTypeOK
  <2>2. TlbTypeOK' /\ Coherent'
    BY <1>2, <1>5, <2>1, Zenon DEF TlbInv, TlbTypeOK, Coherent
  <2> QED
    BY <1>3, <1>4, <2>2, Zenon DEF TlbInv
<1>6. CASE /\ WalkNow(kind, page) # NoWalk
           /\ UNCHANGED fault
           /\ Fill(kind, page, WalkNow(kind, page))
  <2> DEFINE slot == SlotFor(kind, page)
             new == [page |-> page, frame |-> Gate(a20, WalkNow(kind, page)), a20 |-> a20]
  <2>1. slot \in AllSlots
    BY TlbAssumption, Zenon DEF SlotFor, AllSlots
  <2>2. new \in Entry
    BY <1>1, <1>6, GateType, Zenon DEF Entry, TlbInv, TlbTypeOK
  <2>3. tlb' = [tlb EXCEPT ![kind][slot] = new]
    BY <1>6, Zenon DEF Fill
  <2>4. tlb' \in [Kinds -> [AllSlots -> Entry \cup {Empty}]]
    BY <2>1, <2>2, <2>3, Zenon DEF TlbInv, TlbTypeOK
  <2>5. TlbTypeOK'
    BY <1>2, <1>6, <2>4, Zenon DEF TlbInv, TlbTypeOK
  <2>6. Coherent'
    <3> SUFFICES ASSUME NEW k \in Kinds, NEW s \in AllSlots, tlb'[k][s] # Empty
                 PROVE  \E w \in allowed[k][tlb'[k][s].page] \ {NoWalk} :
                          tlb'[k][s].frame = Gate(tlb'[k][s].a20, w)
      BY <1>2, Zenon DEF Coherent
    <3>1. CASE k = kind /\ s = slot
      <4>1. tlb'[k][s] = new
        BY <2>1, <2>3, <3>1, Zenon DEF TlbInv, TlbTypeOK
      <4>2. WalkNow(kind, page) \in allowed[k][page] \ {NoWalk}
        BY <1>6, <3>1, Zenon DEF TlbInv, CurrentAllowed
      <4> QED
        BY <4>1, <4>2
    <3>2. CASE ~(k = kind /\ s = slot)
      <4>1. tlb'[k][s] = tlb[k][s]
        BY <2>1, <2>3, <3>2, Zenon DEF TlbInv, TlbTypeOK
      <4> QED
        BY <4>1, Zenon DEF TlbInv, Coherent
    <3> QED
      BY <3>1, <3>2, Zenon
  <2> QED
    BY <1>3, <1>4, <2>5, <2>6, Zenon DEF TlbInv
<1> QED
  BY <1>5, <1>6, Zenon DEF Translate

(***************************************************************************)
(* Every step preserves the invariant when no excluded event happens.      *)
(***************************************************************************)
LEMMA NextInv ==
  ASSUME Events = {}, TlbInv, [TlbNext]_tlbVars
  PROVE  TlbInv'
<1> USE DEF TlbInv, TlbTypeOK, PlainTypes
<1>1. ASSUME NEW kind \in Kinds, NEW page \in Pages, Translate(kind, page)
      PROVE  TlbInv'
  BY <1>1, TranslateStep, Zenon
<1>2. CASE TakePendingFault
  BY <1>2, Zenon DEF TakePendingFault, ram, mmu, CurrentAllowed, Coherent,
              NothingCachedUnpaged, WalkNow
<1>3. ASSUME NEW r \in Roots, NEW d \in Dirs, NEW e \in PdeValues, WritePde(r, d, e)
      PROVE  TlbInv'
  <2>1. PlainTypes'
    BY <1>3, Zenon DEF WritePde, mmu
  <2> QED
    BY <1>3, <2>1, TableStoreStep, Zenon DEF WritePde
<1>4. ASSUME NEW t \in Tables, NEW i \in Idxs, NEW e \in PteValues, WritePte(t, i, e)
      PROVE  TlbInv'
  <2>1. PlainTypes'
    BY <1>4, Zenon DEF WritePte, mmu
  <2> QED
    BY <1>4, <2>1, TableStoreStep, Zenon DEF WritePte
<1>5. ASSUME NEW p \in BOOLEAN, NEW w \in BOOLEAN, MovCr0(p, w)
      PROVE  TlbInv'
  BY <1>5, FlushStep, Zenon DEF MovCr0, InvalidateFetchTlb, ram
<1>6. ASSUME NEW r \in Roots, MovCr3(r)
      PROVE  TlbInv'
  BY <1>6, FlushStep, Zenon DEF MovCr3, InvalidateFetchTlb, ram
<1>7. ASSUME NEW s \in BOOLEAN, MovCr4(s)
      PROVE  TlbInv'
  <2>1. tlb' = EmptyTlb
    BY <1>7, Zenon DEF MovCr4, NothingCachedUnpaged
  <2> QED
    BY <1>7, <2>1, FlushStep, Zenon DEF MovCr4, ram
<1>8. CASE Invalidate
  BY <1>8, FlushStep, Zenon DEF Invalidate, InvalidateFetchTlb, ram, mmu
<1>9. ASSUME NEW v \in BOOLEAN, SetA20(v)
      PROVE  TlbInv'
  BY <1>9, Zenon DEF SetA20, ram, mmu, CurrentAllowed, Coherent, NothingCachedUnpaged, WalkNow
<1>10. CASE Reset
  BY <1>10, FlushStep, Zenon DEF Reset, InvalidateFetchTlb, ram
<1>11. CASE Restore
  <2>1. tlb' = EmptyTlb
    BY <1>11, Zenon DEF Restore, NothingCachedUnpaged
  <2> QED
    BY <1>11, <2>1, FlushStep, Zenon DEF Restore
<1>12. CASE UNCHANGED tlbVars
  BY <1>12, Zenon DEF tlbVars, CurrentAllowed, Coherent, NothingCachedUnpaged, WalkNow
<1> QED
  BY <1>1, <1>2, <1>3, <1>4, <1>5, <1>6, <1>7, <1>8, <1>9, <1>10, <1>11, <1>12, Zenon DEF TlbNext

-----------------------------------------------------------------------------
\* The caches of the CPU are well formed and coherent and empty while paging
\* is off, for all constants, when neither CR4.PSE changes nor a snapshot is
\* restored while paging is on: invalidate_fetch_tlb is called often enough.
THEOREM TlbCoherence ==
  ASSUME Events = {}
  PROVE  TlbSpec => [](TlbTypeOK /\ Coherent /\ NothingCachedUnpaged)
<1>1. TlbInit => TlbInv
  BY InitInv, Zenon
<1>2. TlbInv /\ [TlbNext]_tlbVars => TlbInv'
  BY NextInv, Zenon
<1>3. TlbInv => TlbTypeOK /\ Coherent /\ NothingCachedUnpaged
  BY Zenon DEF TlbInv
<1> QED
  BY <1>1, <1>2, <1>3, PTL DEF TlbSpec

-----------------------------------------------------------------------------
(* Both channels of the timer keep exact time, for every range of a byte.  *)

LEMMA PitCounts ==
  /\ Base \in Nat /\ Base > 1 /\ None \in Nat /\ None > Base
  /\ \A lsb, b \in PitByte : lsb + Base * b \in 0 .. (None - 1)
  /\ \A r \in 0 .. (None - 1) : Loaded(r) \in 1 .. None
<1>1. Base \in Nat /\ Base > 1
  BY PitAssumption
<1>2. None \in Nat /\ None > Base
  BY <1>1 DEF None
<1>3. ASSUME NEW lsb \in PitByte, NEW b \in PitByte
      PROVE  lsb + Base * b \in 0 .. (None - 1)
  <2>1. b \in Nat /\ lsb \in Nat /\ b <= Base - 1 /\ lsb <= Base - 1
    BY <1>1 DEF PitByte
  <2>2. Base * b <= Base * (Base - 1) /\ Base * b \in Nat
    BY <1>1, <2>1
  <2>3. Base * (Base - 1) = Base * Base - Base
    BY <1>1
  <2> QED
    BY <1>1, <2>1, <2>2, <2>3 DEF None
<1>4. \A r \in 0 .. (None - 1) : Loaded(r) \in 1 .. None
  BY <1>1, <1>2 DEF Loaded, None
<1> QED
  BY <1>1, <1>2, <1>3, <1>4, Zenon

LEMMA NoneIs == None \in Nat /\ None > 1
BY PitCounts

\* The two bytes of a count put together are the count.
LEMMA PitBytes ==
  ASSUME NEW v \in 0 .. (None - 1)
  PROVE  Lsb(v) + Base * Msb(v) = v /\ Lsb(v) \in PitByte /\ Msb(v) \in PitByte
<1>1. PICK b \in Nat : b = Base /\ b > 1
  BY PitCounts, Zenon
<1>2. PICK q \in Nat, r \in Nat : q = v \div b /\ r = v % b /\ v = b * q + r /\ r < b
  BY <1>1, PitCounts
<1>3. q < b
  <2>1. ASSUME q >= b PROVE FALSE
    <3>1. b * q >= b * b
      BY <2>1, <1>1, <1>2
    <3>2. v < b * b /\ v \in Nat
      BY <1>1, PitCounts DEF None
    <3> QED
      BY <3>1, <3>2, <1>1, <1>2
  <2> QED
    BY <2>1, <1>1, <1>2
<1>4. q % b = q
  BY <1>1, <1>2, <1>3
<1>5. Lsb(v) = r /\ Msb(v) = q
  BY <1>1, <1>2, <1>4, Zenon DEF Lsb, Msb
<1>6. r + b * q = v
  <2>1. ASSUME NEW m \in Nat, v = m + r PROVE r + m = v
    BY <1>2, <2>1
  <2>2. b * q \in Nat
    BY <1>1, <1>2
  <2> QED
    BY <1>2, <2>1, <2>2, Zenon
<1>7. r \in 0 .. (b - 1) /\ q \in 0 .. (b - 1)
  BY <1>1, <1>2, <1>3
<1> QED
  BY <1>1, <1>5, <1>6, <1>7, Zenon DEF PitByte

\* A load, and what is left of it: in mode 0 the one edge is still to come while
\* the counter is not zero, channel 2 stops when it gets there, and a count that
\* is being read back is in the latch until its second byte has been read.
Channel0 ==
  [reload : 0 .. (None - 1), counter : 0 .. None, periodic : BOOLEAN, running : BOOLEAN,
   write_state : {0, 1}, lsb : PitByte, latch : 0 .. None, read_state : {0, 1}]
Channel2 ==
  [reload : 0 .. (None - 1), counter : 0 .. None, running : BOOLEAN, out : BOOLEAN,
   write_state : {0, 1}, lsb : PitByte, gate : BOOLEAN]
History ==
  [ticks : Nat, edges : Nat, gated : Nat, value : 0 .. (None - 1), got : Nat,
   reading : {"no", "lsb", "msb", "done"}]

PitTypes == ch0 \in Channel0 /\ ch2 \in Channel2 /\ pitHist \in History

OneEdgeLeft == ch0.running /\ ~ch0.periodic /\ ch0.counter > 0 => pitHist.edges = 0

Reading ==
  /\ pitHist.reading = "lsb" => ch0.latch = pitHist.value /\ ch0.read_state = 0
  /\ pitHist.reading = "msb" => /\ ch0.latch = pitHist.value /\ ch0.read_state = 1
                                /\ pitHist.got = Lsb(pitHist.value)

PitInv == PitTypes /\ PitKeepsTime /\ OneEdgeLeft /\ (ch2.running => ch2.counter > 0) /\ Reading

LEMMA Channel0Kept ==
  ASSUME NEW c \in Channel0
  PROVE  /\ \A n \in 0 .. None : [c EXCEPT !.counter = n] \in Channel0
         /\ [c EXCEPT !.running = FALSE] \in Channel0
         /\ \A l \in 0 .. None, r \in {0, 1} : [c EXCEPT !.latch = l, !.read_state = r] \in Channel0
         /\ \A l \in 0 .. None, r \in {0, 1} : [c EXCEPT !.read_state = r, !.latch = l] \in Channel0
         /\ \A p \in BOOLEAN, l \in 0 .. None, z \in {0, 1} :
              [c EXCEPT !.periodic = p, !.write_state = z, !.read_state = z, !.latch = l,
                        !.running = FALSE] \in Channel0
         /\ \A b \in PitByte, w \in {0, 1} : [c EXCEPT !.lsb = b, !.write_state = w] \in Channel0
         /\ \A r \in 0 .. (None - 1), n \in 0 .. None, w \in {0, 1} :
              [c EXCEPT !.reload = r, !.counter = n, !.running = TRUE, !.write_state = w] \in Channel0
BY Zenon DEF Channel0

LEMMA Channel2Kept ==
  ASSUME NEW c \in Channel2
  PROVE  /\ \A n \in 0 .. None, o, r \in BOOLEAN :
              [c EXCEPT !.counter = n, !.out = o, !.running = r] \in Channel2
         /\ \A w \in {0, 1} : [c EXCEPT !.write_state = w, !.out = FALSE, !.running = FALSE] \in Channel2
         /\ \A b \in PitByte, w \in {0, 1} : [c EXCEPT !.lsb = b, !.write_state = w] \in Channel2
         /\ \A r \in 0 .. (None - 1), n \in 0 .. None, w \in {0, 1} :
              [c EXCEPT !.reload = r, !.counter = n, !.running = TRUE, !.out = FALSE,
                        !.write_state = w] \in Channel2
         /\ \A g \in BOOLEAN : [c EXCEPT !.gate = g] \in Channel2
BY Zenon DEF Channel2

LEMMA HistoryKept ==
  ASSUME NEW h \in History
  PROVE  /\ \A t, e, g \in Nat : [h EXCEPT !.ticks = t, !.edges = e, !.gated = g] \in History
         /\ \A t, e \in Nat : [h EXCEPT !.ticks = t, !.edges = e] \in History
         /\ \A g \in Nat : [h EXCEPT !.gated = g] \in History
         /\ \A v \in 0 .. (None - 1) : [h EXCEPT !.value = v, !.reading = "lsb"] \in History
         /\ [h EXCEPT !.reading = "no"] \in History
         /\ \A r \in {"no", "lsb", "msb", "done"}, g \in Nat :
              [h EXCEPT !.reading = r, !.got = g] \in History
BY Zenon DEF History

LEMMA PitInitInv == PitInit => PitInv
<1> SUFFICES ASSUME PitInit PROVE PitInv
  BY Zenon
<1>1. PitTypes
  BY PitCounts DEF PitInit, PitTypes, Channel0, Channel2, History, PitByte
<1> QED
  BY <1>1, PitCounts, Zenon DEF PitInit, PitInv, PitKeepsTime, Channel0Exact, Channel2Exact,
     LatchedCountWhole, OneEdgeLeft, Reading

LEMMA PitTickInv == PitInv /\ PitTick => PitInv'
<1> SUFFICES ASSUME PitInv, PitTick PROVE PitInv'
  BY Zenon
<1> USE NoneIs
<1>1. PitTypes
  BY Zenon DEF PitInv
<1>2. Loaded(ch0.reload) \in 1 .. None /\ Loaded(ch2.reload) \in 1 .. None
  BY <1>1, PitCounts, Zenon DEF PitTypes, Channel0, Channel2, History
<1>3. /\ Tick0(ch0).edge \in BOOLEAN
      /\ Tick0(ch0).c.reload = ch0.reload
  BY <1>1, <1>2, Zenon DEF Tick0, PitTypes, Channel0, Channel2, History
<1>4. PitTypes'
  <2>1. ch0' \in Channel0
    <3>1. PICK n \in 0 .. None :
            \/ ch0' = ch0
            \/ ch0' = [ch0 EXCEPT !.running = FALSE]
            \/ ch0' = [ch0 EXCEPT !.counter = n]
      <4> DEFINE from == IF ch0.counter = 0 THEN Loaded(ch0.reload) ELSE ch0.counter
      <4>1. from - 1 \in 0 .. None
        BY <1>1, <1>2 DEF PitTypes, Channel0
      <4>2. \/ ch0' = ch0
            \/ ch0' = [ch0 EXCEPT !.running = FALSE]
            \/ ch0' = [ch0 EXCEPT !.counter = from - 1]
        BY Zenon DEF PitTick, Tick0
      <4> QED
        BY <4>1, <4>2, Zenon
    <3>2. ch0 \in Channel0
      BY <1>1, Zenon DEF PitTypes
    <3> QED
      BY <3>1, <3>2, Channel0Kept, Zenon
  <2>2. ch2' \in Channel2
    <3>1. CASE ch2.running /\ ch2.gate
      <4>1. ch2.counter - 1 \in 0 .. None
        BY <1>1, <3>1 DEF PitTypes, PitInv, Channel2
      <4> QED
        BY <1>1, <3>1, <4>1, Channel2Kept, Zenon DEF PitTick, Tick2, PitTypes
    <3>2. CASE ~(ch2.running /\ ch2.gate)
      BY <1>1, <3>2, Zenon DEF PitTick, Tick2, PitTypes
    <3> QED
      BY <3>1, <3>2, Zenon
  <2>3. pitHist' \in History
    <3> DEFINE t == IF ~ch0.running THEN pitHist.ticks
                    ELSE IF ch0.counter = 0 THEN 1 ELSE Capped(pitHist.ticks + 1)
               e == IF Tick0(ch0).edge THEN (IF pitHist.edges < 2 THEN pitHist.edges + 1 ELSE pitHist.edges)
                    ELSE pitHist.edges
               g == IF ch2.gate THEN Capped(pitHist.gated + 1) ELSE pitHist.gated
    <3>1. t \in Nat /\ e \in Nat /\ g \in Nat
      BY <1>1 DEF PitTypes, History, Capped
    <3>2. pitHist' = [pitHist EXCEPT !.ticks = t, !.edges = e, !.gated = g]
      BY Zenon DEF PitTick
    <3> HIDE DEF t, e, g
    <3> QED
      BY <1>1, <3>1, <3>2, HistoryKept, Zenon DEF PitTypes
  <2> QED
    BY <2>1, <2>2, <2>3, Zenon DEF PitTypes
<1>5. Channel0Exact' /\ OneEdgeLeft'
  BY <1>1, <1>2
     DEF PitTick, Tick0, PitTypes, Channel0, Channel2, History, PitInv, PitKeepsTime, Channel0Exact, OneEdgeLeft, Capped
<1>6. Channel2Exact' /\ (ch2.running => ch2.counter > 0)'
  BY <1>1, <1>2
     DEF PitTick, Tick2, PitTypes, Channel0, Channel2, History, PitInv, PitKeepsTime, Channel2Exact, Capped
<1>7. Reading' /\ LatchedCountWhole'
  BY <1>1, Zenon
     DEF PitTick, Tick0, PitTypes, Channel0, Channel2, History, PitInv, PitKeepsTime, Reading, LatchedCountWhole
<1> QED
  BY <1>4, <1>5, <1>6, <1>7, Zenon DEF PitInv, PitKeepsTime

LEMMA PitReadInv ==
  ASSUME PitInv, LatchCommand \/ ReadData0 \/ (\E p \in BOOLEAN : ControlWord0(p))
  PROVE  PitInv'
<1> USE NoneIs
<1>1. PitTypes
  BY Zenon DEF PitInv
<1>2. CASE LatchCommand
  <2>1. ch0.counter % None \in 0 .. (None - 1)
    BY <1>1 DEF PitTypes, Channel0, Channel2, History
  <2>2. PitTypes'
    <3>1. CASE ch0.latch = None
      <4> DEFINE v == ch0.counter % None
      <4>1. ch0' = [ch0 EXCEPT !.latch = v, !.read_state = 0] /\ UNCHANGED ch2
        BY <1>2, <3>1, Zenon DEF LatchCommand, Latch
      <4>2. pitHist' = [pitHist EXCEPT !.value = v, !.reading = "lsb"]
        BY <1>2, <3>1, Zenon DEF LatchCommand
      <4>3. v \in 0 .. (None - 1) /\ v \in 0 .. None
        BY <2>1
      <4> HIDE DEF v
      <4>4. ch0' \in Channel0
        BY <1>1, <4>1, <4>3, Channel0Kept, Zenon DEF PitTypes
      <4>5. pitHist' \in History
        BY <1>1, <4>2, <4>3, HistoryKept, Zenon DEF PitTypes
      <4> QED
        BY <1>1, <4>1, <4>4, <4>5, Zenon DEF PitTypes
    <3>2. CASE ch0.latch # None
      BY <1>1, <1>2, <3>2, Zenon DEF LatchCommand, Latch, PitTypes
    <3> QED
      BY <3>1, <3>2, Zenon
  <2>3. Reading' /\ LatchedCountWhole'
    BY <1>1, <1>2, <2>1, Zenon
       DEF LatchCommand, Latch, PitTypes, Channel0, Channel2, History, PitInv, PitKeepsTime, Reading, LatchedCountWhole
  <2> QED
    BY <1>1, <1>2, <2>2, <2>3, Zenon
       DEF LatchCommand, Latch, PitTypes, Channel0, Channel2, History, PitInv, PitKeepsTime, Channel0Exact,
       Channel2Exact, OneEdgeLeft
<1>3. CASE ReadData0
  <2>1. PICK from \in 0 .. None :
          /\ from = IF ch0.latch # None THEN ch0.latch ELSE ch0.counter
          /\ ch0' = [ch0 EXCEPT !.read_state = 1 - @, !.latch = IF ch0.read_state = 1 THEN None ELSE @]
          /\ UNCHANGED ch2
    BY <1>1, <1>3, Zenon DEF ReadData0, PitTypes, Channel0, Channel2, History
  <2>2. Lsb(from) \in Nat /\ Msb(from) \in Nat
    BY <1>1, PitCounts DEF Lsb, Msb
  <2>3. PICK byte \in Nat :
          /\ byte = IF ch0.read_state = 0 THEN Lsb(from) ELSE Msb(from)
          /\ pitHist' = [pitHist EXCEPT
               !.reading = CASE @ = "lsb" -> "msb" [] @ = "msb" -> "done" [] OTHER -> "no",
               !.got = CASE pitHist.reading = "lsb" -> byte
                         [] pitHist.reading = "msb" -> @ + Base * byte
                         [] OTHER -> @]
    BY <1>3, <2>1, <2>2, Zenon DEF ReadData0
  <2>4. Base * byte \in Nat
    BY <2>3, PitCounts
  <2>5. PitTypes'
    <3>1. ch0' \in Channel0
      <4> DEFINE r == 1 - ch0.read_state
                 l == IF ch0.read_state = 1 THEN None ELSE ch0.latch
      <4>1. r \in {0, 1} /\ l \in 0 .. None
        BY <1>1 DEF PitTypes, Channel0
      <4>2. ch0' = [ch0 EXCEPT !.read_state = r, !.latch = l]
        BY <2>1, Zenon
      <4> HIDE DEF r, l
      <4> QED
        BY <1>1, <4>1, <4>2, Channel0Kept, Zenon DEF PitTypes
    <3>2. pitHist' \in History
      <4> DEFINE r == CASE pitHist.reading = "lsb" -> "msb"
                        [] pitHist.reading = "msb" -> "done" [] OTHER -> "no"
                 g == CASE pitHist.reading = "lsb" -> byte
                        [] pitHist.reading = "msb" -> pitHist.got + Base * byte
                        [] OTHER -> pitHist.got
      <4>1. r \in {"no", "lsb", "msb", "done"} /\ g \in Nat
        BY <1>1, <2>3, <2>4 DEF PitTypes, History
      <4>2. pitHist' = [pitHist EXCEPT !.reading = r, !.got = g]
        BY <2>3, Zenon
      <4> HIDE DEF r, g
      <4> QED
        BY <1>1, <4>1, <4>2, HistoryKept, Zenon DEF PitTypes
    <3> QED
      BY <1>1, <2>1, <3>1, <3>2, Zenon DEF PitTypes
  <2>6. CASE pitHist.reading = "lsb"
    BY <1>1, <2>1, <2>3, <2>5, <2>6
       DEF PitTypes, Channel0, Channel2, History, PitInv, PitKeepsTime, Channel0Exact, Channel2Exact,
       OneEdgeLeft, Reading, LatchedCountWhole
  <2>7. CASE pitHist.reading = "msb"
    <3>1. pitHist.value = from /\ byte = Msb(from) /\ pitHist.got = Lsb(from)
      BY <1>1, <2>1, <2>3, <2>7 DEF PitTypes, Channel0, Channel2, History, PitInv, Reading
    <3>2. pitHist'.got = from /\ pitHist'.value = from /\ pitHist'.reading = "done"
      <4>1. Lsb(from) + Base * Msb(from) = from
        BY <1>1, <3>1, PitBytes, Zenon DEF PitTypes, Channel0, Channel2, History
      <4> QED
        BY <1>1, <2>3, <2>7, <3>1, <4>1, Zenon DEF PitTypes, Channel0, Channel2, History
    <3> QED
      BY <1>1, <2>1, <2>3, <2>5, <3>2
         DEF PitTypes, Channel0, Channel2, History, PitInv, PitKeepsTime, Channel0Exact, Channel2Exact,
         OneEdgeLeft, Reading, LatchedCountWhole
  <2>8. CASE pitHist.reading \in {"no", "done"}
    BY <1>1, <2>1, <2>3, <2>5, <2>8
       DEF PitTypes, Channel0, Channel2, History, PitInv, PitKeepsTime, Channel0Exact, Channel2Exact,
       OneEdgeLeft, Reading, LatchedCountWhole
  <2> QED
    BY <1>1, <2>6, <2>7, <2>8, Zenon DEF PitTypes, Channel0, Channel2, History
<1>4. ASSUME NEW p \in BOOLEAN, ControlWord0(p)
      PROVE  PitInv'
  <2>1. PitTypes'
    <3>1. None \in 0 .. None /\ 0 \in {0, 1}
      OBVIOUS
    <3>2. ch0' = [ch0 EXCEPT !.periodic = p, !.write_state = 0, !.read_state = 0, !.latch = None,
                             !.running = FALSE]
      BY <1>4, Zenon DEF ControlWord0
    <3>3. ch0' \in Channel0
      BY <1>1, <3>1, <3>2, Channel0Kept, Zenon DEF PitTypes
    <3>4. pitHist' \in History
      BY <1>1, <1>4, HistoryKept, Zenon DEF ControlWord0, PitTypes
    <3> QED
      BY <1>1, <1>4, <3>3, <3>4, Zenon DEF ControlWord0, PitTypes
  <2> QED
    BY <1>1, <1>4, <2>1, Zenon
       DEF ControlWord0, PitTypes, Channel0, Channel2, History, PitInv, PitKeepsTime,
       Channel0Exact, Channel2Exact, OneEdgeLeft, Reading, LatchedCountWhole
<1> QED
  BY <1>2, <1>3, <1>4, Zenon

LEMMA PitWriteInv ==
  ASSUME PitInv, \/ ControlWord2
                 \/ \E b \in PitByte : WriteData0(b) \/ WriteData2(b)
                 \/ \E g \in BOOLEAN : WritePort61(g)
  PROVE  PitInv'
<1> USE NoneIs
<1>1. PitTypes
  BY Zenon DEF PitInv
<1>2. CASE ControlWord2 \/ \E g \in BOOLEAN : WritePort61(g)
  <2>1. PitTypes'
    BY <1>1, <1>2, Channel2Kept, Zenon DEF ControlWord2, WritePort61, PitTypes
  <2>2. UNCHANGED <<ch0, pitHist>>
    BY <1>2, Zenon DEF ControlWord2, WritePort61
  <2>3. Channel0Exact' /\ OneEdgeLeft' /\ Reading' /\ LatchedCountWhole'
    BY <2>2, Zenon DEF PitInv, PitKeepsTime, Channel0Exact, OneEdgeLeft, Reading, LatchedCountWhole
  <2>4. /\ ch2'.running => ch2.running /\ UNCHANGED <<ch2.counter, ch2.reload, ch2.out>>
        /\ ch2'.out => ch2.out /\ UNCHANGED <<ch2.counter, ch2.reload>>
    BY <1>1, <1>2, Zenon DEF ControlWord2, WritePort61, PitTypes, Channel2
  <2>5. Channel2Exact' /\ (ch2.running => ch2.counter > 0)'
    BY <2>2, <2>4, Zenon DEF PitInv, PitKeepsTime, Channel2Exact
  <2> QED
    BY <2>1, <2>3, <2>5, Zenon DEF PitInv, PitKeepsTime
<1>3. ASSUME NEW b \in PitByte, WriteData0(b)
      PROVE  PitInv'
  <2>1. PICK reload \in 0 .. (None - 1) : reload = ch0.lsb + Base * b /\ Loaded(reload) \in 1 .. None
    BY <1>1, PitCounts, Zenon DEF PitTypes, Channel0, Channel2, History
  <2>2. PitTypes'
    <3>1. CASE ch0.write_state = 0
      <4>1. ch0' = [ch0 EXCEPT !.lsb = b, !.write_state = 1] /\ UNCHANGED <<ch2, pitHist>>
        BY <1>3, <3>1, Zenon DEF WriteData0
      <4>2. ch0' \in Channel0
        BY <1>1, <4>1, Channel0Kept, Zenon DEF PitTypes
      <4> QED
        BY <1>1, <4>1, <4>2, Zenon DEF PitTypes
    <3>2. CASE ch0.write_state # 0
      <4>1. /\ ch0' = [ch0 EXCEPT !.reload = reload, !.counter = Loaded(reload), !.running = TRUE,
                                  !.write_state = 0]
            /\ pitHist' = [pitHist EXCEPT !.ticks = 0, !.edges = 0] /\ UNCHANGED ch2
        BY <1>3, <2>1, <3>2, Zenon DEF WriteData0
      <4>2. Loaded(reload) \in 0 .. None /\ 0 \in {0, 1} /\ 0 \in Nat
        BY <2>1
      <4>3. ch0' \in Channel0
        BY <1>1, <4>1, <4>2, Channel0Kept, Zenon DEF PitTypes
      <4>4. pitHist' \in History
        BY <1>1, <4>1, <4>2, HistoryKept, Zenon DEF PitTypes
      <4> QED
        BY <1>1, <4>1, <4>3, <4>4, Zenon DEF PitTypes
    <3> QED
      BY <3>1, <3>2, Zenon
  <2>3. UNCHANGED ch2 /\ UNCHANGED <<ch0.latch, ch0.read_state>>
        /\ UNCHANGED <<pitHist.gated, pitHist.value, pitHist.got, pitHist.reading>>
    <3>1. UNCHANGED ch2 /\ UNCHANGED <<ch0.latch, ch0.read_state>>
      BY <1>1, <1>3, Zenon DEF WriteData0, PitTypes, Channel0
    <3>2. UNCHANGED <<pitHist.gated, pitHist.value, pitHist.got, pitHist.reading>>
      BY <1>1, <1>3, Zenon DEF WriteData0, PitTypes, History
    <3> QED
      BY <3>1, <3>2, Zenon
  <2>4. Reading' /\ LatchedCountWhole' /\ Channel2Exact' /\ (ch2.running => ch2.counter > 0)'
    BY <2>3, Zenon DEF PitInv, PitKeepsTime, Channel2Exact, Reading, LatchedCountWhole
  <2>5. Channel0Exact' /\ OneEdgeLeft'
    <3>1. CASE ch0.write_state = 0
      <4>1. /\ UNCHANGED <<ch0.running, ch0.counter, ch0.reload, ch0.periodic>>
            /\ UNCHANGED pitHist
        BY <1>1, <1>3, <3>1, Zenon DEF WriteData0, PitTypes, Channel0
      <4> QED
        BY <4>1, Zenon DEF PitInv, PitKeepsTime, Channel0Exact, OneEdgeLeft
    <3>2. CASE ch0.write_state # 0
      <4>1. /\ ch0'.counter = Loaded(reload) /\ ch0'.reload = reload
            /\ pitHist'.ticks = 0 /\ pitHist'.edges = 0
        BY <1>1, <1>3, <2>1, <3>2, Zenon DEF WriteData0, PitTypes, Channel0, History
      <4> QED
        BY <2>1, <4>1 DEF Channel0Exact, OneEdgeLeft
    <3> QED
      BY <3>1, <3>2, Zenon
  <2> QED
    BY <2>2, <2>4, <2>5, Zenon DEF PitInv, PitKeepsTime
<1>4. ASSUME NEW b \in PitByte, WriteData2(b)
      PROVE  PitInv'
  <2>1. PICK reload \in 0 .. (None - 1) : reload = ch2.lsb + Base * b /\ Loaded(reload) \in 1 .. None
    BY <1>1, PitCounts, Zenon DEF PitTypes, Channel0, Channel2, History
  <2>2. PitTypes'
    <3>1. CASE ch2.write_state = 0
      <4>1. ch2' = [ch2 EXCEPT !.lsb = b, !.write_state = 1] /\ UNCHANGED <<ch0, pitHist>>
        BY <1>4, <3>1, Zenon DEF WriteData2
      <4>2. ch2' \in Channel2
        BY <1>1, <4>1, Channel2Kept, Zenon DEF PitTypes
      <4> QED
        BY <1>1, <4>1, <4>2, Zenon DEF PitTypes
    <3>2. CASE ch2.write_state # 0
      <4>1. /\ ch2' = [ch2 EXCEPT !.reload = reload, !.counter = Loaded(reload), !.running = TRUE,
                                  !.out = FALSE, !.write_state = 0]
            /\ pitHist' = [pitHist EXCEPT !.gated = 0] /\ UNCHANGED ch0
        BY <1>4, <2>1, <3>2, Zenon DEF WriteData2
      <4>2. Loaded(reload) \in 0 .. None /\ 0 \in {0, 1} /\ 0 \in Nat
        BY <2>1
      <4>3. ch2' \in Channel2
        BY <1>1, <4>1, <4>2, Channel2Kept, Zenon DEF PitTypes
      <4>4. pitHist' \in History
        BY <1>1, <4>1, <4>2, HistoryKept, Zenon DEF PitTypes
      <4> QED
        BY <1>1, <4>1, <4>3, <4>4, Zenon DEF PitTypes
    <3> QED
      BY <3>1, <3>2, Zenon
  <2>3. UNCHANGED ch0
        /\ UNCHANGED <<pitHist.ticks, pitHist.edges, pitHist.value, pitHist.got, pitHist.reading>>
    BY <1>1, <1>4, Zenon DEF WriteData2, PitTypes, History
  <2>4. Channel0Exact' /\ OneEdgeLeft' /\ Reading' /\ LatchedCountWhole'
    BY <2>3, Zenon DEF PitInv, PitKeepsTime, Channel0Exact, OneEdgeLeft, Reading, LatchedCountWhole
  <2>5. Channel2Exact' /\ (ch2.running => ch2.counter > 0)'
    <3>1. CASE ch2.write_state = 0
      <4>1. UNCHANGED <<ch2.running, ch2.counter, ch2.reload, ch2.out>> /\ UNCHANGED pitHist
        BY <1>1, <1>4, <3>1, Zenon DEF WriteData2, PitTypes, Channel2
      <4> QED
        BY <4>1, Zenon DEF PitInv, PitKeepsTime, Channel2Exact
    <3>2. CASE ch2.write_state # 0
      <4>1. /\ ch2'.counter = Loaded(reload) /\ ch2'.reload = reload /\ ~ch2'.out
            /\ pitHist'.gated = 0
        BY <1>1, <1>4, <2>1, <3>2, Zenon DEF WriteData2, PitTypes, Channel2, History
      <4> QED
        BY <2>1, <4>1 DEF Channel2Exact
    <3> QED
      BY <3>1, <3>2, Zenon
  <2> QED
    BY <2>2, <2>4, <2>5, Zenon DEF PitInv, PitKeepsTime
<1> QED
  BY <1>2, <1>3, <1>4, Zenon

\* Both channels keep exact time and latched counts are read whole, for every
\* range of a byte, with both channels in use at the same time.
THEOREM TimerIsExact == PitSpec => []PitKeepsTime
<1>1. PitInv /\ [PitChannel0 \/ PitChannel2]_pitVars => PitInv'
  <2>1. PitInv /\ UNCHANGED pitVars => PitInv'
    BY Zenon DEF pitVars, PitInv, PitTypes, PitKeepsTime, Channel0Exact, Channel2Exact, OneEdgeLeft, Reading,
       LatchedCountWhole
  <2> QED
    BY <2>1, PitTickInv, PitReadInv, PitWriteInv, Zenon DEF PitChannel0, PitChannel2
<1>2. PitInv => PitKeepsTime
  BY Zenon DEF PitInv
<1> QED
  BY <1>1, <1>2, PitInitInv, PTL DEF PitSpec

-----------------------------------------------------------------------------
(* The disk is a block store, for every sector size, width of the count,   *)
(* set of addresses and image.                                             *)

MaxLba == CHOOSE l \in Lbas : \A m \in Lbas : m <= l
AtaCommands == {"READ", "WRITE", "IDENTIFY", "OTHER"}
Atas == [sector_count : Nat, lba : 0 .. MaxLba, drq : BOOLEAN, writing : BOOLEAN,
         write_lba : 0 .. MaxLba, buf : Seq(Bytes), pos : Nat]
Wants == [disk : [1 .. Horizon -> Bytes], cmd : AtaCommands, lba : 0 .. MaxLba, left : Nat,
          moved : Seq(Bytes)]
AtaTypes == ata \in Atas /\ want \in Wants /\ disk \in Seq(Bytes)

\* Bytes of s and t agree up to n.
SameTo(s, t, n) == Len(s) = n /\ \A k \in 1 .. n : s[k] = t[k]

(***************************************************************************)
(* Inductive invariant.  What is left of a transfer is what lies behind    *)
(* the cursor; a transfer stays within the sectors the guest may address;  *)
(* the buffer of a WRITE holds the bytes the guest has moved, and that of  *)
(* a READ the bytes of the disk as the guest expects it.                   *)
(***************************************************************************)
Cursor == /\ want.left = Len(ata.buf) - ata.pos
          /\ ata.drq <=> want.left > 0
Within == want.cmd \in {"READ", "WRITE"} => want.lba * SectorSize + Len(ata.buf) <= Horizon
Filling == ata.writing => /\ ata.drq /\ want.cmd = "WRITE" /\ want.lba = ata.write_lba
                          /\ SameTo(want.moved, ata.buf, ata.pos)
Draining == want.cmd = "READ" =>
              /\ ~ata.writing /\ SameTo(want.moved, ata.buf, ata.pos)
              /\ 0 \notin Counts =>
                   \A k \in 1 .. Len(ata.buf) : ata.buf[k] = want.disk[want.lba * SectorSize + k]
Agree == \A k \in 1 .. Horizon : ByteAt(disk, k) = want.disk[k]
AtaInv == AtaTypes /\ Cursor /\ Within /\ Filling /\ Draining /\ Agree

LEMMA AtaConsts ==
  /\ SectorSize \in Nat \ {0} /\ CountMod \in Nat \ {0}
  /\ MaxLba \in Nat /\ \A m \in Lbas : m \in 0 .. MaxLba
  /\ Horizon = (MaxLba + CountMod) * SectorSize /\ Horizon \in Nat
<1>1. /\ SectorSize \in Nat \ {0} /\ CountMod \in Nat \ {0} /\ Lbas \subseteq Nat
      /\ \E l \in Lbas : \A m \in Lbas : m <= l
  BY AtaAssumption, Zenon
<1>2. MaxLba \in Lbas /\ \A m \in Lbas : m <= MaxLba
  BY <1>1, Zenon DEF MaxLba
<1>3. Horizon = (MaxLba + CountMod) * SectorSize
  BY Zenon DEF Horizon, MaxLba
<1>4. MaxLba \in Nat /\ \A m \in Lbas : m \in 0 .. MaxLba
  BY <1>1, <1>2
<1> QED
  BY <1>1, <1>3, <1>4

LEMMA SpanFits ==
  ASSUME NEW l \in 0 .. MaxLba, NEW c \in 1 .. CountMod
  PROVE  /\ l * SectorSize \in Nat /\ c * SectorSize \in Nat \ {0}
         /\ l * SectorSize + c * SectorSize <= Horizon
<1>1. PICK m, n, s : /\ m = MaxLba /\ n = CountMod /\ s = SectorSize /\ m \in Nat
                     /\ n \in Nat \ {0} /\ s \in Nat \ {0} /\ Horizon = (m + n) * s
  BY AtaConsts, Zenon
<1>2. PICK a \in Nat, b \in Nat : a = m - l /\ b = n - c
  BY <1>1
<1>3. l \in Nat /\ c \in Nat /\ m = l + a /\ n = c + b
  BY <1>1, <1>2
<1>4. (l + a + c + b) * s = l * s + c * s + a * s + b * s
  BY <1>1, <1>2, <1>3
<1>5. l * s \in Nat /\ c * s \in Nat \ {0} /\ a * s \in Nat /\ b * s \in Nat
  BY <1>1, <1>2, <1>3
<1>6. Horizon = l * s + c * s + a * s + b * s
  BY <1>1, <1>2, <1>3, <1>4
<1>7. l * s + c * s <= l * s + c * s + a * s + b * s
  BY <1>5
<1> QED
  BY <1>1, <1>5, <1>6, <1>7, Zenon

LEMMA ByteTyped ==
  ASSUME NEW image \in Seq(Bytes), NEW k \in Nat \ {0}
  PROVE  ByteAt(image, k) \in Bytes
BY AtaAssumption DEF ByteAt

\* Disk::write_sectors stores the data where it should and nothing elsewhere.
Overlaid(w, image, data, off) ==
  \A k \in Nat \ {0} :
    /\ k - off \in 1 .. Len(data) => ByteAt(w, k) = data[k - off]
    /\ k - off \notin 1 .. Len(data) => ByteAt(w, k) = ByteAt(image, k)

LEMMA BytesWritten ==
  ASSUME NEW image \in Seq(Bytes), NEW l \in Nat, NEW data \in Seq(Bytes)
  PROVE  /\ WriteSectors(image, l, data) \in Seq(Bytes)
         /\ Overlaid(WriteSectors(image, l, data), image, data, l * SectorSize)
<1>8. PICK off \in Nat : off = l * SectorSize
  <2>1. l * SectorSize \in Nat
    BY AtaConsts
  <2> QED
    BY <2>1, Zenon
<1>9. PICK w : w = WriteSectors(image, l, data)
  BY Zenon
<1>1. PICK m \in Nat, n \in Nat : m = Len(image) /\ n = Len(data)
  OBVIOUS
<1>2. PICK len \in Nat : /\ len = IF m < off + n THEN off + n ELSE m
                         /\ len >= m /\ len >= off + n
  BY <1>1
<1>3. w = [k \in 1 .. len |-> IF k > off /\ k <= off + n THEN data[k - off] ELSE ByteAt(image, k)]
  BY <1>1, <1>2, <1>8, <1>9, Zenon DEF WriteSectors
<1>4. ASSUME NEW k \in 1 .. len
      PROVE  (IF k > off /\ k <= off + n THEN data[k - off] ELSE ByteAt(image, k)) \in Bytes
  <2>1. CASE k > off /\ k <= off + n
    <3>1. k - off \in 1 .. n
      BY <1>1, <2>1
    <3> QED
      BY <1>1, <2>1, <3>1
  <2>2. CASE ~(k > off /\ k <= off + n)
    <3>1. k \in Nat \ {0}
      OBVIOUS
    <3> QED
      BY <2>2, <3>1, ByteTyped, Zenon
  <2> QED
    BY <2>1, <2>2, Zenon
<1>5. w \in [1 .. len -> Bytes]
  BY <1>3, <1>4, Zenon
<1>6. w \in Seq(Bytes) /\ Len(w) = len
  BY <1>5
<1>7. ASSUME NEW k \in Nat \ {0}
      PROVE  /\ k - off \in 1 .. n => ByteAt(w, k) = data[k - off]
             /\ k - off \notin 1 .. n => ByteAt(w, k) = ByteAt(image, k)
  <2>1. CASE k <= len
    <3>1. k \in 1 .. len /\ (k - off \in 1 .. n <=> k > off /\ k <= off + n)
      BY <1>1, <1>2, <2>1
    <3>2. ByteAt(w, k) = w[k]
      BY <1>6, <2>1, Zenon DEF ByteAt
    <3>3. w[k] = IF k > off /\ k <= off + n THEN data[k - off] ELSE ByteAt(image, k)
      BY <1>3, <3>1, Zenon
    <3> QED
      BY <3>1, <3>2, <3>3, Zenon
  <2>2. CASE ~(k <= len)
    <3>1. ~(k <= m) /\ k - off \notin 1 .. n
      BY <1>2, <2>2
    <3>2. ByteAt(w, k) = 0 /\ ByteAt(image, k) = 0
      BY <1>1, <1>6, <2>2, <3>1, Zenon DEF ByteAt
    <3> QED
      BY <3>1, <3>2, Zenon
  <2> QED
    BY <2>1, <2>2, Zenon
<1> QED
  BY <1>1, <1>6, <1>7, <1>8, <1>9, Zenon DEF Overlaid

LEMMA SameAppend ==
  ASSUME NEW s \in Seq(Bytes), NEW t \in Seq(Bytes), NEW n \in Nat, SameTo(s, t, n), NEW b \in Bytes,
         NEW u \in Seq(Bytes), n + 1 <= Len(u), u[n + 1] = b, \A k \in 1 .. n : u[k] = t[k]
  PROVE  Append(s, b) \in Seq(Bytes) /\ SameTo(Append(s, b), u, n + 1)
<1>1. /\ Append(s, b) \in Seq(Bytes) /\ Len(Append(s, b)) = n + 1
      /\ \A k \in 1 .. n : Append(s, b)[k] = s[k]
      /\ Append(s, b)[n + 1] = b
  BY AppendProperties DEF SameTo
<1> QED
  BY <1>1 DEF SameTo
LEMMA AtaFields ==
  ASSUME AtaInv
  PROVE  /\ ata \in Atas /\ want \in Wants /\ disk \in Seq(Bytes)
         /\ ata.buf \in Seq(Bytes) /\ ata.pos \in Nat /\ Len(ata.buf) \in Nat
         /\ ata.sector_count \in Nat /\ ata.lba \in 0 .. MaxLba /\ ata.write_lba \in 0 .. MaxLba
         /\ want.left \in Nat /\ want.moved \in Seq(Bytes) /\ want.lba \in 0 .. MaxLba
         /\ want.disk \in [1 .. Horizon -> Bytes]
<1>1. ata \in Atas /\ want \in Wants /\ disk \in Seq(Bytes)
  BY Zenon DEF AtaInv, AtaTypes
<1>2. /\ ata.buf \in Seq(Bytes) /\ ata.pos \in Nat
      /\ ata.sector_count \in Nat /\ ata.lba \in 0 .. MaxLba /\ ata.write_lba \in 0 .. MaxLba
  BY <1>1, Zenon DEF Atas
<1>3. /\ want.left \in Nat /\ want.moved \in Seq(Bytes) /\ want.lba \in 0 .. MaxLba
      /\ want.disk \in [1 .. Horizon -> Bytes]
  BY <1>1, Zenon DEF Wants
<1>4. Len(ata.buf) \in Nat
  BY <1>2, LenProperties, Zenon
<1> QED
  BY <1>1, <1>2, <1>3, <1>4, Zenon

LEMMA AtaInitInv == AtaInit => AtaInv
<1> SUFFICES ASSUME AtaInit PROVE AtaInv
  BY Zenon
<1>1. PICK d : d = [k \in 1 .. Horizon |-> ByteAt(Image, k)]
  BY Zenon
<1>2. /\ ata = [sector_count |-> 0, lba |-> 0, drq |-> FALSE, writing |-> FALSE,
                write_lba |-> 0, buf |-> <<>>, pos |-> 0]
      /\ disk = Image
      /\ want = [disk |-> d, cmd |-> "OTHER", lba |-> 0, left |-> 0, moved |-> <<>>]
  BY <1>1, Zenon DEF AtaInit
<1>3. Image \in Seq(Bytes) /\ 0 \in 0 .. MaxLba /\ 0 \in Nat /\ <<>> \in Seq(Bytes)
  BY AtaAssumption, AtaConsts
<1>4. \A k \in 1 .. Horizon : k \in Nat \ {0}
  BY AtaConsts
<1>5. \A k \in 1 .. Horizon : ByteAt(Image, k) \in Bytes
  BY <1>3, <1>4, ByteTyped, Zenon
<1>6. d \in [1 .. Horizon -> Bytes] /\ \A k \in 1 .. Horizon : d[k] = ByteAt(Image, k)
  BY <1>1, <1>5, Zenon
<1>7. ata \in Atas
  BY <1>2, <1>3, Zenon DEF Atas
<1>8. want \in Wants
  BY <1>2, <1>3, <1>6, Zenon DEF Wants, AtaCommands
<1>9. /\ want.left = 0 /\ ata.buf = <<>> /\ ata.pos = 0 /\ ata.drq = FALSE /\ ata.writing = FALSE
      /\ want.cmd = "OTHER" /\ want.disk = d
  BY <1>2, Zenon
<1>10. Cursor
  <2>1. Len(ata.buf) = 0
    BY <1>9, Zenon
  <2> QED
    BY <1>9, <2>1 DEF Cursor
<1> QED
  BY <1>2, <1>3, <1>6, <1>7, <1>8, <1>9, <1>10, Zenon DEF AtaInv, AtaTypes, Within, Filling, Draining, Agree

LEMMA WriteRegisterInv ==
  ASSUME AtaInv, WriteRegister
  PROVE  AtaInv'
<1>1. AtaTypes /\ Cursor /\ Within /\ Filling /\ Draining /\ Agree /\ ata \in Atas
  BY Zenon DEF AtaInv, AtaTypes
<1>2. UNCHANGED <<disk, want>>
  BY Zenon DEF WriteRegister
<1> DEFINE Rest == /\ ata' \in Atas /\ ata'.drq = ata.drq /\ ata'.writing = ata.writing
                   /\ ata'.write_lba = ata.write_lba /\ ata'.buf = ata.buf /\ ata'.pos = ata.pos
<1>3. Rest
  <2>1. ASSUME NEW c \in Counts, ata' = [ata EXCEPT !.sector_count = c] PROVE Rest
    <3>1. c \in Nat
      BY AtaAssumption
    <3> QED
      BY <1>1, <2>1, <3>1, Zenon DEF Atas
  <2>2. ASSUME NEW l \in Lbas, ata' = [ata EXCEPT !.lba = l] PROVE Rest
    <3>1. l \in 0 .. MaxLba
      BY AtaConsts, Zenon
    <3> QED
      BY <1>1, <2>2, <3>1, Zenon DEF Atas
  <2> QED
    BY <2>1, <2>2, Zenon DEF WriteRegister
<1> QED
  BY <1>1, <1>2, <1>3, Zenon DEF AtaInv, AtaTypes, Cursor, Within, Filling, Draining, Agree

LEMMA ZerosTyped ==
  ASSUME NEW n \in Nat
  PROVE  Zeros(n) \in Seq(Bytes) /\ Len(Zeros(n)) = n
<1>1. 0 \in Bytes
  BY AtaAssumption, Zenon
<1>2. Zeros(n) \in [1 .. n -> Bytes]
  BY <1>1, Zenon DEF Zeros
<1> QED
  BY <1>2

LEMMA ReadTyped ==
  ASSUME NEW image \in Seq(Bytes), NEW l \in Nat, NEW c, NEW n \in Nat
  PROVE  /\ ReadSectors(image, l, c, n) \in Seq(Bytes)
         /\ Len(ReadSectors(image, l, c, n)) = n
<1>1. 0 \in Bytes
  BY AtaAssumption, Zenon
<1>2. \A k \in 1 .. n : l * SectorSize + k \in Nat \ {0}
  BY AtaConsts
<1>3. \A k \in 1 .. n : ByteAt(image, l * SectorSize + k) \in Bytes
  BY <1>2, ByteTyped, Zenon
<1>4. ReadSectors(image, l, c, n) \in [1 .. n -> Bytes]
  BY <1>1, <1>3, Zenon DEF ReadSectors
<1> QED
  BY <1>4

\* A command starts a transfer of n bytes.
LEMMA StartsInv ==
  ASSUME AtaInv, NEW cmd \in AtaCommands, NEW buf \in Seq(Bytes), NEW n \in Nat, Len(buf) = n,
         NEW w \in BOOLEAN, NEW wl \in 0 .. MaxLba, NEW d \in BOOLEAN,
         d <=> n > 0, w => d /\ cmd = "WRITE" /\ wl = ata.lba,
         cmd \in {"READ", "WRITE"} => ata.lba * SectorSize + n <= Horizon,
         cmd = "READ" => /\ ~w
                         /\ 0 \notin Counts => \A k \in 1 .. n : buf[k] = want.disk[ata.lba * SectorSize + k],
         ata' = [ata EXCEPT !.buf = buf, !.pos = 0, !.writing = w, !.drq = d, !.write_lba = wl],
         want' = [want EXCEPT !.cmd = cmd, !.lba = ata.lba, !.moved = <<>>, !.left = n],
         UNCHANGED disk
  PROVE  AtaInv'
<1>1. /\ ata \in Atas /\ want \in Wants /\ disk \in Seq(Bytes) /\ ata.lba \in 0 .. MaxLba
      /\ 0 \in Nat /\ <<>> \in Seq(Bytes)
  BY AtaFields
<1>2. /\ ata' \in Atas /\ ata'.buf = buf /\ ata'.pos = 0 /\ ata'.writing = w /\ ata'.drq = d
      /\ ata'.write_lba = wl
  BY <1>1, Zenon DEF Atas
<1>3. /\ want' \in Wants /\ want'.cmd = cmd /\ want'.lba = ata.lba /\ want'.moved = <<>>
      /\ want'.left = n /\ want'.disk = want.disk
  BY <1>1, Zenon DEF Wants
<1>4. Cursor'
  <2>1. n = n - 0
    OBVIOUS
  <2> QED
    BY <1>2, <1>3, <2>1, Zenon DEF Cursor
<1>5. \A t : SameTo(<<>>, t, 0)
  BY DEF SameTo
<1>6. Within'
  BY <1>2, <1>3, Zenon DEF Within
<1>7. Filling'
  BY <1>2, <1>3, <1>5, Zenon DEF Filling
<1>8. Draining'
  BY <1>2, <1>3, <1>5, Zenon DEF Draining
<1>9. Agree'
  BY <1>3, Zenon DEF AtaInv, Agree
<1> QED
  BY <1>1, <1>2, <1>3, <1>4, <1>6, <1>7, <1>8, <1>9, Zenon DEF AtaInv, AtaTypes
LEMMA ExecuteInv ==
  ASSUME AtaInv, NEW cmd \in AtaCommands, Execute(cmd)
  PROVE  AtaInv'
<1>1. /\ ata \in Atas /\ ata.lba \in 0 .. MaxLba /\ ata.write_lba \in 0 .. MaxLba /\ ata.lba \in Nat
      /\ disk \in Seq(Bytes) /\ ata.sector_count \in Nat
  BY AtaFields, AtaConsts
<1>2. PICK n, c, s : /\ c = Sectors(ata.sector_count) /\ s = SectorSize /\ n = c * s
  BY Zenon
<1>3. cmd \in {"READ", "WRITE"} => ata.sector_count \in Counts
  BY Zenon DEF Execute
<1>4. cmd \in {"READ", "WRITE"} =>
        c \in 1 .. CountMod /\ (0 \notin Counts => c = ata.sector_count /\ c % CountMod = c)
  <2> SUFFICES ASSUME cmd \in {"READ", "WRITE"}
               PROVE  c \in 1 .. CountMod /\ (0 \notin Counts => c = ata.sector_count /\ c % CountMod = c)
    BY Zenon
  <2>1. PICK m : m = ata.sector_count
    BY Zenon
  <2>2. m \in Counts /\ c = IF m = 0 THEN CountMod ELSE m
    BY <1>2, <1>3, <2>1, Zenon DEF Sectors
  <2>3. m \in 0 .. CountMod - 1 /\ CountMod \in Nat \ {0}
    BY <2>2, AtaAssumption, Zenon
  <2>4. c \in 1 .. CountMod /\ (m # 0 => c = m /\ c % CountMod = c)
    BY <2>2, <2>3
  <2> QED
    BY <2>1, <2>2, <2>4, Zenon
<1>5. cmd \in {"READ", "WRITE"} =>
        n \in Nat \ {0} /\ ata.lba * SectorSize \in Nat /\ ata.lba * SectorSize + n <= Horizon
  BY <1>1, <1>2, <1>4, SpanFits, Zenon
<1>6. UNCHANGED disk
  BY Zenon DEF Execute
<1>7. CASE cmd = "READ"
  <2>1. PICK buf : buf = ReadSectors(disk, ata.lba, c % CountMod, n)
    BY Zenon
  <2>2. ata' = [ata EXCEPT !.buf = buf, !.pos = 0, !.writing = FALSE, !.drq = TRUE]
    BY <1>2, <1>7, <2>1, Zenon DEF Execute
  <2>3. ata' = [ata EXCEPT !.buf = buf, !.pos = 0, !.writing = FALSE, !.drq = TRUE,
                           !.write_lba = ata.write_lba]
    BY <1>1, <2>2, Zenon DEF Atas
  <2>4. want' = [want EXCEPT !.cmd = cmd, !.lba = ata.lba, !.moved = <<>>, !.left = n]
    BY <1>2, <1>7, Zenon DEF Execute
  <2>5. n \in Nat \ {0} /\ ata.lba * SectorSize + n <= Horizon /\ ata.lba * SectorSize \in Nat
    BY <1>5, <1>7, Zenon
  <2>6. n \in Nat /\ n > 0
    BY <2>5
  <2>7. buf \in Seq(Bytes) /\ Len(buf) = n
    BY <1>1, <2>1, <2>6, ReadTyped, Zenon
  <2>8. 0 \notin Counts => \A k \in 1 .. n : buf[k] = want.disk[ata.lba * SectorSize + k]
    <3> SUFFICES ASSUME 0 \notin Counts, NEW k \in 1 .. n
                 PROVE  buf[k] = want.disk[ata.lba * SectorSize + k]
      BY Zenon
    <3>1. c % CountMod = c
      BY <1>4, <1>7, Zenon
    <3>2. k <= n
      BY <2>6
    <3>3. buf[k] = ByteAt(disk, ata.lba * SectorSize + k)
      BY <1>2, <2>1, <3>1, <3>2, Zenon DEF ReadSectors
    <3>4. ata.lba * SectorSize + k \in 1 .. Horizon
      BY <2>5, <2>6, <3>2, AtaConsts
    <3> QED
      BY <3>3, <3>4, Zenon DEF AtaInv, Agree
  <2> QED
    BY <1>1, <1>6, <1>7, <2>3, <2>4, <2>5, <2>6, <2>7, <2>8, StartsInv, Zenon
<1>8. CASE cmd = "WRITE"
  <2>1. ata' = [ata EXCEPT !.buf = Zeros(n), !.pos = 0, !.writing = TRUE, !.drq = TRUE, !.write_lba = ata.lba]
    BY <1>2, <1>8, Zenon DEF Execute
  <2>2. want' = [want EXCEPT !.cmd = cmd, !.lba = ata.lba, !.moved = <<>>, !.left = n]
    BY <1>2, <1>8, Zenon DEF Execute
  <2>3. n \in Nat \ {0} /\ ata.lba * SectorSize + n <= Horizon
    BY <1>5, <1>8, Zenon
  <2>4. n \in Nat /\ n > 0
    BY <2>3
  <2>5. Zeros(n) \in Seq(Bytes) /\ Len(Zeros(n)) = n
    BY <2>4, ZerosTyped, Zenon
  <2> QED
    BY <1>1, <1>6, <1>8, <2>1, <2>2, <2>3, <2>4, <2>5, StartsInv, Zenon
<1>9. CASE cmd = "IDENTIFY"
  <2>1. ata' = [ata EXCEPT !.buf = Zeros(SectorSize), !.pos = 0, !.writing = FALSE, !.drq = TRUE]
    BY <1>9, Zenon DEF Execute
  <2>2. ata' = [ata EXCEPT !.buf = Zeros(SectorSize), !.pos = 0, !.writing = FALSE, !.drq = TRUE,
                           !.write_lba = ata.write_lba]
    BY <1>1, <2>1, Zenon DEF Atas
  <2>3. want' = [want EXCEPT !.cmd = cmd, !.lba = ata.lba, !.moved = <<>>, !.left = SectorSize]
    BY <1>9, Zenon DEF Execute
  <2>4. SectorSize \in Nat /\ SectorSize > 0
    BY AtaConsts
  <2>5. Zeros(SectorSize) \in Seq(Bytes) /\ Len(Zeros(SectorSize)) = SectorSize
    BY <2>4, ZerosTyped, Zenon
  <2> QED
    BY <1>1, <1>6, <1>9, <2>2, <2>3, <2>4, <2>5, StartsInv, Zenon
<1>10. CASE cmd = "OTHER"
  <2>1. ata' = [ata EXCEPT !.buf = <<>>, !.pos = 0, !.writing = FALSE, !.drq = FALSE]
    BY <1>10, Zenon DEF Execute
  <2>2. ata' = [ata EXCEPT !.buf = <<>>, !.pos = 0, !.writing = FALSE, !.drq = FALSE,
                           !.write_lba = ata.write_lba]
    BY <1>1, <2>1, Zenon DEF Atas
  <2>3. want' = [want EXCEPT !.cmd = cmd, !.lba = ata.lba, !.moved = <<>>, !.left = 0]
    BY <1>10, Zenon DEF Execute
  <2>4. <<>> \in Seq(Bytes) /\ Len(<<>>) = 0 /\ 0 \in Nat /\ ~(0 > 0)
    OBVIOUS
  <2> QED
    BY <1>1, <1>6, <1>10, <2>2, <2>3, <2>4, StartsInv, Zenon
<1> QED
  BY <1>7, <1>8, <1>9, <1>10, Zenon DEF AtaCommands

LEMMA PopByteInv ==
  ASSUME AtaInv, PopByte
  PROVE  AtaInv'
<1>1. /\ ata \in Atas /\ want \in Wants /\ disk \in Seq(Bytes) /\ ata.buf \in Seq(Bytes)
      /\ ata.pos \in Nat /\ Len(ata.buf) \in Nat /\ want.left \in Nat /\ want.moved \in Seq(Bytes)
  BY AtaFields, Zenon
<1>2. Cursor /\ Within /\ Filling /\ Draining /\ Agree
  BY Zenon DEF AtaInv
<1>3. ata.drq /\ ~ata.writing /\ UNCHANGED disk
  BY Zenon DEF PopByte
<1>4. PICK p, l, n, b : /\ p = ata.pos /\ l = want.left /\ n = Len(ata.buf) /\ b = ata.buf[p + 1]
                        /\ p \in Nat /\ l \in Nat /\ n \in Nat
  BY <1>1, Zenon
<1>5. l = n - p /\ l > 0
  BY <1>2, <1>3, <1>4, Zenon DEF Cursor
<1>6. /\ p + 1 \in 1 .. n /\ p + 1 \in Nat /\ l - 1 \in Nat /\ l - 1 = n - (p + 1)
      /\ ~(p + 1 >= n) <=> l - 1 > 0
  <2>1. p \in Nat /\ l \in Nat /\ n \in Nat
    BY <1>4, Zenon
  <2> QED
    BY <1>5, <2>1
<1>7. b \in Bytes
  BY <1>1, <1>4, <1>6
<1>8. PICK d \in BOOLEAN : d <=> ~Exhausted(ata)
  BY Zenon
<1>9. d <=> l - 1 > 0
  BY <1>4, <1>6, <1>8, Zenon DEF Exhausted
<1>10. d = ~Exhausted(ata)
  BY <1>8, Zenon
<1>11. ata' = [ata EXCEPT !.pos = p + 1, !.drq = d]
  BY <1>4, <1>10, Zenon DEF PopByte
<1>12. PICK all : all = Append(want.moved, b)
  BY Zenon
<1>13. all \in Seq(Bytes)
  BY <1>1, <1>7, <1>12, AppendProperties, Zenon
<1>14. want' = [want EXCEPT !.left = l - 1, !.moved = all]
  BY <1>4, <1>12, Zenon DEF PopByte
<1>15. /\ ata' \in Atas /\ ata'.buf = ata.buf /\ ata'.pos = p + 1 /\ ata'.drq = d
       /\ ata'.writing = ata.writing
  BY <1>1, <1>6, <1>11, Zenon DEF Atas
<1>16. /\ want' \in Wants /\ want'.left = l - 1 /\ want'.moved = all /\ want'.cmd = want.cmd
       /\ want'.lba = want.lba /\ want'.disk = want.disk
  BY <1>1, <1>6, <1>13, <1>14, Zenon DEF Wants
<1>17. Cursor'
  BY <1>4, <1>6, <1>9, <1>15, <1>16, Zenon DEF Cursor
<1>18. want.cmd = "READ" => SameTo(all, ata.buf, p + 1)
  <2> SUFFICES ASSUME want.cmd = "READ" PROVE SameTo(all, ata.buf, p + 1)
    BY Zenon
  <2>1. SameTo(want.moved, ata.buf, p)
    BY <1>2, <1>4, Zenon DEF Draining
  <2>2. p + 1 <= Len(ata.buf)
    BY <1>4, <1>6
  <2> QED
    BY <1>1, <1>4, <1>7, <1>12, <2>1, <2>2, SameAppend, Zenon
<1>19. Within' /\ Filling' /\ Draining' /\ Agree'
  BY <1>2, <1>3, <1>15, <1>16, <1>18, Zenon DEF Within, Filling, Draining, Agree
<1> QED
  BY <1>1, <1>3, <1>15, <1>16, <1>17, <1>19, Zenon DEF AtaInv, AtaTypes
LEMMA PushByteInv ==
  ASSUME AtaInv, NEW b \in Bytes, PushByte(b)
  PROVE  AtaInv'
<1>1. /\ ata \in Atas /\ want \in Wants /\ disk \in Seq(Bytes) /\ ata.buf \in Seq(Bytes)
      /\ ata.pos \in Nat /\ Len(ata.buf) \in Nat /\ want.left \in Nat /\ want.moved \in Seq(Bytes)
      /\ want.lba \in 0 .. MaxLba /\ want.disk \in [1 .. Horizon -> Bytes]
  BY AtaFields, Zenon
<1>2. Cursor /\ Within /\ Filling /\ Draining /\ Agree
  BY Zenon DEF AtaInv
<1>3. /\ ata.drq /\ ata.writing /\ want.cmd = "WRITE" /\ want.lba = ata.write_lba
      /\ SameTo(want.moved, ata.buf, ata.pos)
  BY <1>2, Zenon DEF PushByte, Filling
<1>4. PICK p, l, n : /\ p = ata.pos /\ l = want.left /\ n = Len(ata.buf)
                     /\ p \in Nat /\ l \in Nat /\ n \in Nat
  BY <1>1, Zenon
<1>5. l = n - p /\ l > 0
  BY <1>2, <1>3, <1>4, Zenon DEF Cursor
<1>6. /\ p + 1 \in 1 .. n /\ p + 1 \in Nat /\ l - 1 \in Nat /\ l - 1 = n - (p + 1) /\ p + 1 <= n
      /\ p + 1 >= n <=> ~(l - 1 > 0)
      /\ p + 1 >= n <=> ~(l > 1)
      /\ ~(l > 1) => p + 1 = n
  <2>1. p \in Nat /\ l \in Nat /\ n \in Nat
    BY <1>4, Zenon
  <2> QED
    BY <1>5, <2>1
<1>7. PICK buf, all : buf = [ata.buf EXCEPT ![p + 1] = b] /\ all = Append(want.moved, b)
  BY Zenon
<1>8. buf \in Seq(Bytes) /\ Len(buf) = n /\ buf[p + 1] = b /\ \A k \in 1 .. p : buf[k] = ata.buf[k]
  <2>1. PICK o : o = ata.buf /\ o \in Seq(Bytes) /\ Len(o) = n
    BY <1>1, <1>4, Zenon
  <2>2. o \in [1 .. n -> Bytes] /\ n \in Nat /\ p \in Nat
    BY <1>4, <2>1
  <2>3. buf = [o EXCEPT ![p + 1] = b]
    BY <1>7, <2>1, Zenon
  <2>4. buf \in [1 .. n -> Bytes] /\ buf[p + 1] = b /\ \A k \in 1 .. p : buf[k] = o[k]
    BY <1>6, <2>2, <2>3
  <2>5. buf \in Seq(Bytes) /\ Len(buf) = n
    BY <2>2, <2>4
  <2> QED
    BY <2>1, <2>4, <2>5, Zenon
<1>9. all \in Seq(Bytes) /\ SameTo(all, buf, p + 1)
  <2>1. PICK o, m : /\ o = ata.buf /\ m = want.moved /\ o \in Seq(Bytes) /\ m \in Seq(Bytes)
    BY <1>1, Zenon
  <2>2. p + 1 <= Len(buf) /\ p \in Nat /\ SameTo(m, o, p)
    BY <1>3, <1>4, <1>6, <1>8, <2>1, Zenon
  <2>3. buf \in Seq(Bytes) /\ buf[p + 1] = b /\ \A k \in 1 .. p : buf[k] = o[k]
    BY <1>8, <2>1, Zenon
  <2>4. o \in Seq(Bytes) /\ m \in Seq(Bytes)
    BY <2>1, Zenon
  <2>5. Append(m, b) \in Seq(Bytes) /\ SameTo(Append(m, b), buf, p + 1)
    BY <2>2, <2>3, <2>4, SameAppend
  <2> QED
    BY <1>7, <2>1, <2>5, Zenon
<1>10. Exhausted(ata) <=> ~(l > 1)
  BY <1>4, <1>6, Zenon DEF Exhausted
<1>11. PICK w : w = [k \in DOMAIN want.disk |->
                       IF k - want.lba * SectorSize \in DOMAIN all
                       THEN all[k - want.lba * SectorSize] ELSE want.disk[k]]
  BY Zenon
<1>12. w \in [1 .. Horizon -> Bytes]
  <2>1. \A k \in 1 .. Horizon : want.disk[k] \in Bytes
    BY <1>1, Zenon
  <2>2. \A i \in DOMAIN all : all[i] \in Bytes
    BY <1>9
  <2>3. DOMAIN want.disk = 1 .. Horizon
    BY <1>1, Zenon
  <2> QED
    BY <1>11, <2>1, <2>2, <2>3, Zenon
<1>13. CASE l > 1
  <2>1. ata' = [ata EXCEPT !.buf = buf, !.pos = p + 1, !.drq = TRUE, !.writing = TRUE] /\ UNCHANGED disk
    <3>1. ~Exhausted(ata) = TRUE
      BY <1>10, <1>13, Zenon
    <3> QED
      BY <1>4, <1>7, <3>1, Zenon DEF PushByte
  <2>2. want' = [want EXCEPT !.left = l - 1, !.moved = all, !.disk = want.disk]
    BY <1>4, <1>7, <1>13, Zenon DEF PushByte
  <2>3. /\ ata' \in Atas /\ ata'.buf = buf /\ ata'.pos = p + 1 /\ ata'.drq = TRUE
        /\ ata'.writing = TRUE /\ ata'.write_lba = ata.write_lba
    BY <1>1, <1>6, <1>8, <2>1, Zenon DEF Atas
  <2>4. /\ want' \in Wants /\ want'.left = l - 1 /\ want'.moved = all /\ want'.cmd = want.cmd
        /\ want'.lba = want.lba /\ want'.disk = want.disk
    BY <1>1, <1>6, <1>9, <2>2, Zenon DEF Wants
  <2>5. Cursor'
    BY <1>4, <1>6, <1>8, <1>13, <2>3, <2>4, Zenon DEF Cursor
  <2>6. Filling'
    BY <1>3, <1>9, <2>3, <2>4, Zenon DEF Filling
  <2>7. Within' /\ Draining' /\ Agree'
    BY <1>2, <1>3, <1>4, <1>8, <2>1, <2>3, <2>4, Zenon DEF Within, Draining, Agree
  <2> QED
    BY <1>1, <2>1, <2>3, <2>4, <2>5, <2>6, <2>7, Zenon DEF AtaInv, AtaTypes
<1>14. CASE ~(l > 1)
  <2>1. /\ ata' = [ata EXCEPT !.buf = buf, !.pos = p + 1, !.drq = FALSE, !.writing = FALSE]
        /\ disk' = WriteSectors(disk, want.lba, buf)
    <3>1. (~Exhausted(ata)) = FALSE /\ Exhausted(ata)
      BY <1>10, <1>14, Zenon
    <3>2. FlushLba(ata) = want.lba
      BY <1>3, Zenon DEF FlushLba
    <3> QED
      BY <1>4, <1>7, <3>1, <3>2, Zenon DEF PushByte
  <2>2. want' = [want EXCEPT !.left = l - 1, !.moved = all, !.disk = w]
    BY <1>4, <1>7, <1>11, <1>14, Zenon DEF PushByte
  <2>3. /\ ata' \in Atas /\ ata'.buf = buf /\ ata'.pos = p + 1 /\ ata'.drq = FALSE
        /\ ata'.writing = FALSE
    BY <1>1, <1>6, <1>8, <2>1, Zenon DEF Atas
  <2>4. /\ want' \in Wants /\ want'.left = l - 1 /\ want'.moved = all /\ want'.cmd = want.cmd
        /\ want'.lba = want.lba /\ want'.disk = w
    BY <1>1, <1>6, <1>9, <1>12, <2>2, Zenon DEF Wants
  <2>5. Cursor'
    BY <1>4, <1>6, <1>8, <1>14, <2>3, <2>4, Zenon DEF Cursor
  <2>6. Within' /\ Filling' /\ Draining'
    BY <1>2, <1>3, <1>4, <1>8, <2>3, <2>4, Zenon DEF Within, Filling, Draining
  <2>7. PICK off \in Nat : off = want.lba * SectorSize /\ want.lba \in Nat
    <3>1. \A i \in 0 .. MaxLba : i \in Nat /\ i * SectorSize \in Nat
      BY AtaConsts
    <3> QED
      BY <1>1, <3>1, Zenon
  <2>8. PICK v : v = disk' /\ v = WriteSectors(disk, want.lba, buf)
    BY <2>1, Zenon
  <2>9. /\ v \in Seq(Bytes)
        /\ \A k \in Nat \ {0} :
             /\ k - off \in 1 .. n => ByteAt(v, k) = buf[k - off]
             /\ k - off \notin 1 .. n => ByteAt(v, k) = ByteAt(disk, k)
    <3>1. v \in Seq(Bytes) /\ Overlaid(v, disk, buf, off)
      <4>1. disk \in Seq(Bytes) /\ buf \in Seq(Bytes) /\ want.lba \in Nat
        BY <1>1, <1>8, <2>7, Zenon
      <4>2. /\ WriteSectors(disk, want.lba, buf) \in Seq(Bytes)
            /\ Overlaid(WriteSectors(disk, want.lba, buf), disk, buf, want.lba * SectorSize)
        BY <4>1, BytesWritten, Zenon
      <4> QED
        BY <2>7, <2>8, <4>2, Zenon
    <3> QED
      BY <1>8, <3>1, Zenon DEF Overlaid
  <2>10. DOMAIN all = 1 .. n /\ \A k \in 1 .. n : all[k] = buf[k]
    <3>1. p + 1 = n
      BY <1>6, <1>14, Zenon
    <3>2. Len(all) = n /\ \A k \in 1 .. n : all[k] = buf[k]
      BY <1>9, <3>1, Zenon DEF SameTo
    <3> QED
      BY <1>9, <3>2
  <2>11. ASSUME NEW k \in 1 .. Horizon PROVE ByteAt(v, k) = w[k]
    <3>1. k \in Nat \ {0} /\ DOMAIN want.disk = 1 .. Horizon
      BY <1>1
    <3>2. ByteAt(disk, k) = want.disk[k]
      BY <1>2, Zenon DEF Agree
    <3>3. w[k] = IF k - off \in 1 .. n THEN all[k - off] ELSE want.disk[k]
      BY <1>11, <2>7, <2>10, <3>1, Zenon
    <3> QED
      BY <2>9, <2>10, <3>1, <3>2, <3>3, Zenon
  <2>12. Agree'
    BY <2>4, <2>8, <2>11, Zenon DEF Agree
  <2> QED
    BY <2>3, <2>4, <2>5, <2>6, <2>8, <2>9, <2>12, Zenon DEF AtaInv, AtaTypes
<1> QED
  BY <1>13, <1>14, Zenon

LEMMA AtaNextInv == AtaInv /\ [AtaNext]_ataVars => AtaInv'
<1> SUFFICES ASSUME AtaInv, [AtaNext]_ataVars PROVE AtaInv'
  BY Zenon
<1>1. CASE UNCHANGED ataVars
  BY <1>1, Zenon DEF ataVars, AtaInv, AtaTypes, Cursor, Within, Filling, Draining, Agree
<1> QED
  BY <1>1, WriteRegisterInv, ExecuteInv, PopByteInv, PushByteInv, Zenon DEF AtaNext, AtaCommands

\* DiskIsBlockStore, for a guest that never asks for a count of 0 (a READ of
\* CountMod sectors loses its count in Disk::read_sectors): whatever the guest does
\* to the registers or abandons half-way, the disk holds the completed
\* WRITEs and a READ returns them (execute, push_buf_byte, write_sectors).
THEOREM BlockStore ==
  ASSUME 0 \notin Counts
  PROVE  AtaSpec => []DiskIsBlockStore
<1>1. AtaInv => DiskIsBlockStore
  <2> SUFFICES ASSUME AtaInv PROVE DiskIsBlockStore
    BY Zenon
  <2>1. Cursor /\ Draining /\ Agree
    BY Zenon DEF AtaInv
  <2>2. DOMAIN want.disk = 1 .. Horizon
    BY AtaFields, Zenon
  <2>3. ReadsBack
    <3> SUFFICES ASSUME want.cmd = "READ", NEW k \in DOMAIN want.moved
                 PROVE  want.moved[k] = want.disk[want.lba * SectorSize + k]
      BY Zenon DEF ReadsBack
    <3>1. PICK p, n, m, l : /\ p = ata.pos /\ n = Len(ata.buf) /\ l = want.left /\ m = want.moved
                            /\ p \in Nat /\ n \in Nat /\ l \in Nat /\ m \in Seq(Bytes)
      BY AtaFields, Zenon
    <3>2. Len(m) = p /\ (\A i \in 1 .. p : m[i] = ata.buf[i]) /\ l = n - p
      BY <2>1, <3>1, Zenon DEF Draining, SameTo, Cursor
    <3>3. k \in 1 .. p /\ k \in 1 .. n
      <4>1. k \in DOMAIN m /\ p \in Nat /\ n \in Nat /\ l \in Nat /\ m \in Seq(Bytes)
        BY <3>1, Zenon
      <4>2. k \in 1 .. p
        BY <3>2, <4>1
      <4> QED
        BY <3>2, <4>1, <4>2
    <3> QED
      BY <2>1, <3>1, <3>2, <3>3, Zenon DEF Draining
  <2> QED
    BY <2>1, <2>2, <2>3, Zenon DEF DiskIsBlockStore, Cursor, Agree
<1> QED
  BY AtaInitInv, AtaNextInv, <1>1, PTL DEF AtaSpec
=============================================================================
