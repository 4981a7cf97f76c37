-------------------------- MODULE InterruptsProofs --------------------------
(***************************************************************************)
(* The interrupt fabric for every poll period, every divider and every set *)
(* of guests.                                                              *)
(***************************************************************************)
EXTENDS Interrupts, SequenceTheorems, TLAPS

Bus == [master : Pic, slave : Pic, dirty : BOOLEAN,
        poll : 0 .. PollPeriod - 1, div : 0 .. PitDivider - 1]

LEMMA Constants ==
  PollPeriod \in Nat /\ PollPeriod > 1 /\ PitDivider \in Nat /\ PitDivider > 0
BY InterruptsAssumption

LEMMA MinIsIn ==
  ASSUME NEW S \in SUBSET Irqs, S # {}
  PROVE  Min(S) \in S /\ \A x \in S : Min(S) <= x
<1>1. Irqs = {0, 1, 2, 3, 4, 5, 6, 7}
  BY DEF Irqs
<1>2. \E m \in S : \A x \in S : m <= x
  <2>1. CASE 0 \in S
    BY <1>1, <2>1
  <2>2. CASE 0 \notin S /\ 1 \in S
    BY <1>1, <2>2
  <2>3. CASE 0 \notin S /\ 1 \notin S /\ 2 \in S
    BY <1>1, <2>3
  <2>4. CASE 0 \notin S /\ 1 \notin S /\ 2 \notin S /\ 3 \in S
    BY <1>1, <2>4
  <2>5. CASE S \subseteq {4, 5, 6, 7}
    <3>1. CASE 4 \in S
      BY <2>5, <3>1
    <3>2. CASE 4 \notin S /\ 5 \in S
      BY <2>5, <3>2
    <3>3. CASE S \subseteq {6, 7} /\ 6 \in S
      BY <3>3
    <3>4. CASE S = {7}
      BY <3>4
    <3> QED
      BY <2>5, <3>1, <3>2, <3>3, <3>4, Zenon
  <2> QED
    BY <1>1, <2>1, <2>2, <2>3, <2>4, <2>5, Zenon
<1> QED
  BY <1>2, Zenon DEF Min

LEMMA NextPoll ==
  ASSUME NEW n \in 0 .. PollPeriod - 1
  PROVE  (n + 1) % PollPeriod = IF n + 1 = PollPeriod THEN 0 ELSE n + 1
BY Constants

-----------------------------------------------------------------------------
(***************************************************************************)
(* One controller.                                                         *)
(***************************************************************************)
\* q is p with the request bit of line n following the level up.
Latched(q, p, n, up) ==
  /\ q \in Pic /\ q.isr = p.isr
  /\ up => n \in q.irr
  /\ ~up => n \notin q.irr
  /\ \A x \in Irqs : x # n => (x \in q.irr <=> x \in p.irr)

LEMMA LatchTyped ==
  ASSUME NEW p \in Pic, NEW n \in Irqs, NEW up \in BOOLEAN
  PROVE  \E q \in Pic : q = LatchLevel(p, n, up) /\ Latched(q, p, n, up)
<1>1. Latched(LatchLevel(p, n, up), p, n, up)
  BY Zenon DEF LatchLevel, Pic, Latched
<1> QED
  BY <1>1, Zenon DEF Latched

LEMMA PendingIs ==
  ASSUME NEW p \in Pic, HasPending(p)
  PROVE  PendingIrq(p) \in Candidates(p) /\ PendingIrq(p) \in Irqs /\ PendingIrq(p) \notin p.isr
<1>1. Candidates(p) \in SUBSET Irqs /\ Candidates(p) # {}
  BY Zenon DEF Candidates, Pic, HasPending
<1> QED
  BY <1>1, MinIsIn, Zenon DEF PendingIrq, Candidates

LEMMA AckTyped ==
  ASSUME NEW p \in Pic
  PROVE  /\ Ack(p) \in Pic
         /\ Ack(p).isr = (IF HasPending(p) THEN p.isr \cup {PendingIrq(p)} ELSE p.isr)
BY PendingIs, Zenon DEF Ack, Pic

LEMMA WriteDataTyped ==
  ASSUME NEW p \in Pic, NEW v \in Byte
  PROVE  WriteData(p, v) \in Pic /\ WriteData(p, v).isr = p.isr
<1>1. v - (v % 8) \in Byte /\ BitsOf(v) \subseteq Irqs
  BY DEF Byte, BitsOf
<1> QED
  BY <1>1, Zenon DEF WriteData, Pic, InitStates

\* ICW1 and the two end-of-interrupt commands of the guest.
LEMMA CommandTyped ==
  ASSUME NEW p \in Pic
  PROVE  /\ WriteCommand(p, 17) \in Pic /\ WriteCommand(p, 17).isr = {}
         /\ WriteCommand(p, 32) \in Pic
         /\ WriteCommand(p, 32).isr = (IF p.isr = {} THEN {} ELSE p.isr \ {Min(p.isr)})
<1>1. WriteCommand(p, 17) = Icw1(p)
  BY DEF WriteCommand
<1>2. WriteCommand(p, 32) = NonSpecificEoi(p)
  BY DEF WriteCommand, Ocw2
<1>3. /\ Icw1(p) \in Pic /\ Icw1(p).isr = {}
      /\ NonSpecificEoi(p) \in Pic
      /\ NonSpecificEoi(p).isr = (IF p.isr = {} THEN {} ELSE p.isr \ {Min(p.isr)})
  BY Zenon DEF Icw1, NonSpecificEoi, Pic, InitStates
<1> QED
  BY <1>1, <1>2, <1>3, Zenon

LEMMA SpecificTyped ==
  ASSUME NEW p \in Pic, NEW n \in Irqs, NEW cmd, cmd = 96 + n
  PROVE  WriteCommand(p, cmd) \in Pic /\ WriteCommand(p, cmd).isr = p.isr \ {n}
<1>1. /\ (cmd \div 16) % 2 # 1 /\ (cmd \div 8) % 4 # 1
      /\ cmd \div 32 = 3 /\ cmd % 8 = n
  BY DEF Irqs
<1>2. WriteCommand(p, cmd) = SpecificEoi(p, n)
  BY <1>1 DEF WriteCommand, Ocw2
<1>3. SpecificEoi(p, n) \in Pic /\ SpecificEoi(p, n).isr = p.isr \ {n}
  BY Zenon DEF SpecificEoi, Pic, InitStates
<1> QED
  BY <1>2, <1>3, Zenon

-----------------------------------------------------------------------------
(***************************************************************************)
(* A refresh keeps the in-service registers, and one that polls leaves     *)
(* every request bit equal to its line.                                    *)
(***************************************************************************)
Mirrors(b) == \A d \in AllDevices : line[d] = Requested(b, d)

LEMMA PollTyped ==
  ASSUME NEW b \in Bus, line \in [AllDevices -> BOOLEAN]
  PROVE  /\ PollDeviceIrqs(b) \in Bus /\ Mirrors(PollDeviceIrqs(b))
         /\ PollDeviceIrqs(b).master.isr = b.master.isr /\ PollDeviceIrqs(b).slave.isr = b.slave.isr
         /\ PollDeviceIrqs(b).poll = b.poll
<1>1. PICK u \in BOOLEAN, k \in BOOLEAN, o \in BOOLEAN, n \in BOOLEAN :
        line["uart"] = u /\ line["kbd"] = k /\ line["mouse"] = o /\ line["nic"] = n
  BY Zenon DEF AllDevices
<1>2. 4 \in Irqs /\ 3 \in Irqs /\ 1 \in Irqs /\ 2 \in Irqs /\ b.master \in Pic /\ b.slave \in Pic
  BY DEF Irqs, Bus
<1>3. PICK m1 \in Pic : m1 = LatchLevel(b.master, 4, u) /\ Latched(m1, b.master, 4, u)
  BY <1>2, LatchTyped, Zenon
<1>4. PICK m \in Pic : m = LatchLevel(m1, 1, k) /\ Latched(m, m1, 1, k)
  BY <1>2, LatchTyped, Zenon
<1>5. PICK s1 \in Pic : s1 = LatchLevel(b.slave, 4, o) /\ Latched(s1, b.slave, 4, o)
  BY <1>2, LatchTyped
<1>6. PICK s \in Pic : s = LatchLevel(s1, 3, n) /\ Latched(s, s1, 3, n)
  BY <1>2, LatchTyped, Zenon
<1>7. PICK h \in BOOLEAN : HasPending(s) = h
  BY Zenon DEF HasPending
<1>8. PICK c \in Pic : c = LatchLevel(m, 2, h) /\ Latched(c, m, 2, h)
  BY <1>2, LatchTyped
<1>9. PollDeviceIrqs(b) = [b EXCEPT !.dirty = FALSE, !.slave = s, !.master = c]
  BY <1>1, <1>3, <1>4, <1>5, <1>6, <1>7, <1>8, Zenon DEF PollDeviceIrqs, Cascade
<1>10. /\ PollDeviceIrqs(b) \in Bus /\ PollDeviceIrqs(b).poll = b.poll
       /\ PollDeviceIrqs(b).master = c /\ PollDeviceIrqs(b).slave = s
  BY <1>9, Zenon DEF Bus
<1>11. Mirrors(PollDeviceIrqs(b))
  <2>1. IrqOf["uart"] = 4 /\ IrqOf["kbd"] = 1 /\ IrqOf["mouse"] = 12 /\ IrqOf["nic"] = 11
    BY Zenon DEF IrqOf
  <2>2. /\ Requested(PollDeviceIrqs(b), "uart") = (4 \in c.irr) /\ Requested(PollDeviceIrqs(b), "kbd") = (1 \in c.irr)
        /\ Requested(PollDeviceIrqs(b), "mouse") = (4 \in s.irr) /\ Requested(PollDeviceIrqs(b), "nic") = (3 \in s.irr)
    BY <1>10, <2>1 DEF Requested
  <2>3. ASSUME NEW d \in AllDevices PROVE line[d] = Requested(PollDeviceIrqs(b), d)
    <3>1. /\ u <=> 4 \in c.irr
          /\ k <=> 1 \in c.irr
          /\ o <=> 4 \in s.irr
          /\ n <=> 3 \in s.irr
      BY <1>2, <1>3, <1>4, <1>5, <1>6, <1>8 DEF Latched
    <3> QED
      BY <1>1, <2>2, <3>1 DEF AllDevices
  <2> QED
    BY <2>3, Zenon DEF Mirrors
<1> QED
  BY <1>3, <1>4, <1>5, <1>6, <1>8, <1>10, <1>11 DEF Latched

LEMMA RefreshTyped ==
  ASSUME bus \in Bus, line \in [AllDevices -> BOOLEAN], NEW pulse \in BOOLEAN
  PROVE  /\ RefreshIrqs(bus, pulse) \in Bus
         /\ RefreshIrqs(bus, pulse).master.isr = bus.master.isr
         /\ RefreshIrqs(bus, pulse).slave.isr = bus.slave.isr
         /\ \/ RefreshIrqs(bus, pulse).poll = bus.poll + 1
            \/ Mirrors(RefreshIrqs(bus, pulse))
<1> DEFINE D == IF bus.div + 1 >= PitDivider THEN 0 ELSE bus.div + 1
           P == (bus.poll + 1) % PollPeriod
           I == IF bus.div + 1 >= PitDivider /\ pulse THEN bus.master.irr \cup {PitIrq} ELSE bus.master.irr
           b1 == [bus EXCEPT !.div = D, !.poll = P, !.master.irr = I]
<1>1. P \in 0 .. PollPeriod - 1 /\ (P # 0 => P = bus.poll + 1)
  BY NextPoll, Constants DEF Bus
<1>2. D \in 0 .. PitDivider - 1
  BY Constants DEF Bus
<1>3. I \in SUBSET Irqs
  BY DEF Bus, Pic, PitIrq, Irqs
<1>4. RefreshIrqs(bus, pulse) = IF b1.dirty \/ b1.poll = 0 THEN PollDeviceIrqs(b1) ELSE b1
  BY Zenon DEF RefreshIrqs
<1> HIDE DEF D, P, I
<1>5. b1 \in Bus /\ b1.master.isr = bus.master.isr /\ b1.slave.isr = bus.slave.isr /\ b1.poll = P
  <2>1. [bus.master EXCEPT !.irr = I] \in Pic /\ [bus.master EXCEPT !.irr = I].isr = bus.master.isr
    BY <1>3, Zenon DEF Bus, Pic
  <2> QED
    BY <1>1, <1>2, <2>1, Zenon DEF Bus
<1> HIDE DEF b1
<1>6. CASE b1.dirty \/ b1.poll = 0
  BY <1>4, <1>5, <1>6, PollTyped, Zenon
<1>7. CASE ~(b1.dirty \/ b1.poll = 0)
  BY <1>1, <1>4, <1>5, <1>7, Zenon
<1> QED
  BY <1>6, <1>7, Zenon

-----------------------------------------------------------------------------
(***************************************************************************)
(* The backstop.  A line and its request bit disagree for no more          *)
(* refreshes than have passed since the counter of the poll was zero.      *)
(***************************************************************************)
PollCounts ==
  /\ TypeOK
  /\ flag_if => Len(frames) < guest.nest
  /\ \A d \in AllDevices : age[d] <= bus.poll

\* A step's refresh led to bus b.
Refreshed(b) ==
  /\ b \in Bus /\ b.master.isr = bus.master.isr /\ b.slave.isr = bus.slave.isr
  /\ age' \in [AllDevices -> 0 .. PollPeriod] /\ \A d \in AllDevices : age'[d] <= b.poll

LEMMA GuestIs ==
  ASSUME guest \in Guests
  PROVE  /\ guest.nest \in Nat /\ guest.restores \in Nat /\ guest.masks \in SUBSET Byte
         /\ guest.devices \in SUBSET AllDevices /\ guest.eoi \in {"specific", "nonspecific"}
         /\ guest.early \in BOOLEAN /\ (guest.early => guest.eoi = "specific")
BY InterruptsAssumption, Zenon DEF Guest

LEMMA RefreshAges ==
  ASSUME PollCounts, NEW pulse \in BOOLEAN, AgeAfter(RefreshIrqs(bus, pulse))
  PROVE  Refreshed(RefreshIrqs(bus, pulse))
<1>1. bus \in Bus /\ line \in [AllDevices -> BOOLEAN] /\ age \in [AllDevices -> 0 .. PollPeriod]
  BY Zenon DEF PollCounts, TypeOK, Bus
<1>2. PICK b \in Bus : b = RefreshIrqs(bus, pulse) /\ b.master.isr = bus.master.isr /\ b.slave.isr = bus.slave.isr
                       /\ (b.poll = bus.poll + 1 \/ Mirrors(b))
  BY <1>1, RefreshTyped, Zenon
<1>3. age' = [d \in AllDevices |-> IF line[d] = Requested(b, d) THEN 0
                                   ELSE IF age[d] = PollPeriod THEN PollPeriod ELSE age[d] + 1]
  BY <1>2, Zenon DEF AgeAfter
<1>4. age' \in [AllDevices -> 0 .. PollPeriod]
  BY <1>1, <1>3, Constants
<1>5. ASSUME NEW d \in AllDevices PROVE age'[d] <= b.poll
  <2>1. age[d] \in 0 .. PollPeriod /\ age[d] <= bus.poll /\ bus.poll \in 0 .. PollPeriod - 1
        /\ b.poll \in 0 .. PollPeriod - 1
    BY <1>1, <1>2, Zenon DEF PollCounts, Bus
  <2>2. CASE line[d] = Requested(b, d)
    BY <1>3, <2>1, <2>2, Constants
  <2>3. CASE line[d] # Requested(b, d)
    <3>1. b.poll = bus.poll + 1
      BY <1>2, <2>3, Zenon DEF Mirrors
    <3> QED
      BY <1>3, <2>1, <2>3, <3>1, Constants
  <2> QED
    BY <2>2, <2>3, Zenon
<1> QED
  BY <1>2, <1>4, <1>5, Zenon DEF Refreshed

\* The INTA cycle on the bus.
LEMMA AckIrqTyped ==
  ASSUME NEW b \in Bus, PendingIrqLine(b) # NoIrq
  PROVE  /\ AckIrq(b) \in Bus /\ AckIrq(b).poll = b.poll
         /\ \/ /\ PendingIrqLine(b) \in Irqs /\ PendingIrqLine(b) # Cascade
               /\ PendingIrqLine(b) \notin b.master.isr
               /\ AckIrq(b).master.isr = b.master.isr \cup {PendingIrqLine(b)}
               /\ AckIrq(b).slave.isr = b.slave.isr
            \/ /\ PendingIrqLine(b) \in 8 .. 15 /\ PendingIrqLine(b) - 8 \notin b.slave.isr
               /\ Cascade \notin b.master.isr
               /\ AckIrq(b).master.isr = b.master.isr \cup {Cascade}
               /\ AckIrq(b).slave.isr = b.slave.isr \cup {PendingIrqLine(b) - 8}
<1>1. b.master \in Pic /\ b.slave \in Pic /\ HasPending(b.master)
  BY Zenon DEF Bus, PendingIrqLine
<1>2. PICK n \in Irqs : n = PendingIrq(b.master) /\ n \notin b.master.isr
  BY <1>1, PendingIs, Zenon
<1>3. PICK m \in Pic : m = Ack(b.master) /\ m.isr = b.master.isr \cup {n}
  BY <1>1, <1>2, AckTyped, Zenon
<1>4. CASE n # Cascade
  <2>1. PendingIrqLine(b) = n
    BY <1>1, <1>2, <1>4, Zenon DEF PendingIrqLine
  <2>2. AckIrq(b) = [b EXCEPT !.slave = b.slave, !.master = m, !.dirty = TRUE]
    BY <1>2, <1>3, <1>4, Zenon DEF AckIrq
  <2>3. AckIrq(b) \in Bus /\ AckIrq(b).poll = b.poll /\ AckIrq(b).master = m /\ AckIrq(b).slave = b.slave
    BY <1>1, <2>2, Zenon DEF Bus
  <2> QED
    BY <1>2, <1>3, <1>4, <2>1, <2>3, Zenon
<1>5. CASE n = Cascade
  <2>1. HasPending(b.slave) /\ PendingIrqLine(b) = 8 + PendingIrq(b.slave)
    BY <1>1, <1>2, <1>5, Zenon DEF PendingIrqLine
  <2>2. PICK k \in Irqs : k = PendingIrq(b.slave) /\ k \notin b.slave.isr
    BY <1>1, <2>1, PendingIs, Zenon
  <2>3. PICK s \in Pic : s = Ack(b.slave) /\ s.isr = b.slave.isr \cup {k}
    BY <1>1, <2>1, <2>2, AckTyped, Zenon
  <2>4. AckIrq(b) = [b EXCEPT !.slave = s, !.master = m, !.dirty = TRUE]
    BY <1>2, <1>3, <1>5, <2>3, Zenon DEF AckIrq
  <2>5. AckIrq(b) \in Bus /\ AckIrq(b).poll = b.poll /\ AckIrq(b).master = m /\ AckIrq(b).slave = s
    BY <2>4, Zenon DEF Bus
  <2>6. PendingIrqLine(b) \in 8 .. 15 /\ PendingIrqLine(b) - 8 = k
    BY <2>1, <2>2 DEF Irqs
  <2> QED
    BY <1>2, <1>3, <1>5, <2>2, <2>3, <2>5, <2>6, Zenon
<1> QED
  BY <1>4, <1>5, Zenon

\* The types of what a step of the CPU changes besides the bus and the frames.
Rest ==
  /\ guest \in Guests /\ line \in [AllDevices -> BOOLEAN] /\ lapic \in BOOLEAN /\ flag_if \in BOOLEAN
  /\ halted \in BOOLEAN /\ restores \in 0 .. guest.restores

LEMMA Assemble ==
  ASSUME Rest', bus' \in Bus, frames' \in Seq(Frame), Len(frames') <= guest'.nest,
         flag_if' => Len(frames') < guest'.nest,
         NEW b, Refreshed(b), bus'.poll = b.poll
  PROVE  PollCounts'
BY Zenon DEF Rest, Bus, Refreshed, PollCounts, TypeOK

\* The frame do_interrupt pushes.
FrameOf(irq) ==
  [irq |-> irq, owes |-> IF irq = LapicIrq THEN {} ELSE IF irq < 8 THEN {"master"} ELSE {"master", "slave"}]

LEMMA EnterTyped ==
  ASSUME PollCounts, NEW irq \in 0 .. 16, flag_if, Enter(irq), lapic' \in BOOLEAN
  PROVE  /\ Rest' /\ frames' \in Seq(Frame) /\ frames' = Append(frames, FrameOf(irq))
         /\ Len(frames') <= guest'.nest /\ ~flag_if'
<1>1. FrameOf(irq) \in Frame
  <2>1. PICK o \in SUBSET {"master", "slave"} :
          o = IF irq = LapicIrq THEN {} ELSE IF irq < 8 THEN {"master"} ELSE {"master", "slave"}
    BY Zenon
  <2> QED
    BY <2>1, Zenon DEF FrameOf, Frame
<1>2. frames' = Append(frames, FrameOf(irq)) /\ UNCHANGED <<guest, line, restores>> /\ flag_if' = FALSE /\ halted' = FALSE
  BY Zenon DEF Enter, FrameOf
<1>3. frames \in Seq(Frame) /\ Len(frames) < guest.nest /\ guest.nest \in Nat
  BY GuestIs, Zenon DEF PollCounts, TypeOK
<1>4. frames' \in Seq(Frame) /\ Len(frames') = Len(frames) + 1
  BY <1>1, <1>2, <1>3
<1>5. Rest'
  BY <1>2, Zenon DEF Rest, PollCounts, TypeOK
<1> QED
  BY <1>2, <1>3, <1>4, <1>5

LEMMA TakeTyped ==
  ASSUME PollCounts, TakeLapicIrq \/ TakePicIrq
  PROVE  /\ PollCounts' /\ UNCHANGED guest /\ flag_if
         /\ \E irq \in 0 .. 16 :
              /\ frames' = Append(frames, FrameOf(irq))
              /\ \/ irq = LapicIrq /\ bus'.master.isr = bus.master.isr /\ bus'.slave.isr = bus.slave.isr
                 \/ /\ irq \in Irqs /\ irq \notin bus.master.isr
                    /\ bus'.master.isr = bus.master.isr \cup {irq} /\ bus'.slave.isr = bus.slave.isr
                 \/ /\ irq \in 8 .. 15 /\ irq - 8 \notin bus.slave.isr /\ Cascade \notin bus.master.isr
                    /\ bus'.master.isr = bus.master.isr \cup {Cascade}
                    /\ bus'.slave.isr = bus.slave.isr \cup {irq - 8}
<1>1. CASE TakeLapicIrq
  <2>1. PICK pulse \in BOOLEAN : /\ AgeAfter(RefreshIrqs(bus, pulse)) /\ bus' = RefreshIrqs(bus, pulse)
                                 /\ flag_if /\ lapic' = FALSE /\ Enter(LapicIrq)
    BY <1>1, Zenon DEF TakeLapicIrq
  <2>2. Refreshed(bus')
    BY <2>1, RefreshAges, Zenon
  <2>3. LapicIrq \in 0 .. 16
    BY DEF LapicIrq
  <2>4. /\ Rest' /\ frames' \in Seq(Frame) /\ Len(frames') <= guest'.nest /\ ~flag_if'
        /\ frames' = Append(frames, FrameOf(LapicIrq)) /\ UNCHANGED guest
    BY <2>1, <2>3, EnterTyped, Zenon DEF Enter
  <2>5. PollCounts'
    BY <2>2, <2>4, Assemble, Zenon DEF Refreshed
  <2> QED
    BY <2>1, <2>2, <2>3, <2>4, <2>5, Zenon DEF Refreshed
<1>2. CASE TakePicIrq
  <2>1. PICK pulse \in BOOLEAN :
          LET b == RefreshIrqs(bus, pulse) IN
          /\ AgeAfter(b) /\ bus' = AckIrq(b) /\ PendingIrqLine(b) # NoIrq
          /\ flag_if /\ lapic' = lapic /\ Enter(PendingIrqLine(b))
    BY <1>2, Zenon DEF TakePicIrq
  <2>2. PICK b : b = RefreshIrqs(bus, pulse) /\ Refreshed(b)
    BY <2>1, RefreshAges, Zenon
  <2>3. bus' \in Bus /\ bus'.poll = b.poll /\ PendingIrqLine(b) \in 0 .. 16
    BY <2>1, <2>2, AckIrqTyped DEF Refreshed, Irqs
  <2>4. PICK irq \in 0 .. 16 : irq = PendingIrqLine(b)
    BY <2>3, Zenon
  <2>5. \/ /\ irq \in Irqs /\ irq \notin bus.master.isr
           /\ bus'.master.isr = bus.master.isr \cup {irq} /\ bus'.slave.isr = bus.slave.isr
        \/ /\ irq \in 8 .. 15 /\ irq - 8 \notin bus.slave.isr /\ Cascade \notin bus.master.isr
           /\ bus'.master.isr = bus.master.isr \cup {Cascade}
           /\ bus'.slave.isr = bus.slave.isr \cup {irq - 8}
    BY <2>1, <2>2, <2>4, AckIrqTyped, Zenon DEF Refreshed
  <2>6. lapic' \in BOOLEAN
    BY <2>1, Zenon DEF PollCounts, TypeOK
  <2>7. /\ Rest' /\ frames' \in Seq(Frame) /\ Len(frames') <= guest'.nest /\ ~flag_if'
        /\ frames' = Append(frames, FrameOf(irq)) /\ UNCHANGED guest
    BY <2>1, <2>2, <2>6, <2>4, EnterTyped, Zenon DEF Enter
  <2>8. PollCounts'
    BY <2>2, <2>3, <2>7, Assemble, Zenon
  <2> QED
    BY <2>1, <2>7, <2>5, <2>8, Zenon
<1> QED
  BY <1>1, <1>2, Zenon

LEMMA TouchedTyped ==
  ASSUME NEW b \in Bus
  PROVE  /\ Touched(b) \in Bus /\ Touched(b).poll = b.poll
         /\ Touched(b).master = b.master /\ Touched(b).slave = b.slave
BY Zenon DEF Touched, Bus

\* Instructions and halted steps that push and pop no frame and write no PIC.
LEMMA QuietTyped ==
  ASSUME PollCounts, \/ HaltedStep \/ OtherInstruction \/ Sti \/ Cli \/ Hlt
                     \/ \E d \in guest.devices : ServiceDevice(d)
  PROVE  /\ PollCounts' /\ UNCHANGED <<guest, frames>>
         /\ bus'.master.isr = bus.master.isr /\ bus'.slave.isr = bus.slave.isr
<1>1. PICK pulse \in BOOLEAN, expiry \in BOOLEAN :
        LET b == RefreshIrqs(bus, pulse) IN
        AgeAfter(b) /\ bus' \in {b, Touched(b)} /\ lapic' = LapicPending(expiry)
  BY Zenon DEF HaltedStep, OtherInstruction, Sti, Cli, Hlt, ServiceDevice, Execute, Same
<1>2. PICK b : b = RefreshIrqs(bus, pulse) /\ Refreshed(b)
  BY <1>1, RefreshAges, Zenon
<1>3. /\ bus' \in Bus /\ bus'.poll = b.poll
      /\ bus'.master.isr = bus.master.isr /\ bus'.slave.isr = bus.slave.isr
  BY <1>1, <1>2, TouchedTyped, Zenon DEF Refreshed
<1>4. /\ UNCHANGED <<guest, frames, restores>> /\ flag_if' \in BOOLEAN /\ halted' \in BOOLEAN
      /\ line' \in [AllDevices -> BOOLEAN]
      /\ flag_if' => flag_if \/ Len(frames) < guest.nest
  <2>1. CASE HaltedStep \/ OtherInstruction
    BY <2>1 DEF HaltedStep, OtherInstruction, Execute, PollCounts, TypeOK
  <2>2. CASE Sti
    BY <2>2, Zenon DEF Sti, Execute, PollCounts, TypeOK
  <2>4. CASE Cli
    BY <2>4, Zenon DEF Cli, Execute, PollCounts, TypeOK
  <2>5. CASE Hlt
    BY <2>5, Zenon DEF Hlt, Execute, PollCounts, TypeOK
  <2>3. ASSUME NEW d \in guest.devices, ServiceDevice(d)
        PROVE  UNCHANGED <<guest, frames, restores, flag_if, halted>> /\ line' = [line EXCEPT ![d] = FALSE]
    BY <2>3, Zenon DEF ServiceDevice, Execute
  <2> QED
    BY <2>1, <2>2, <2>3, <2>4, <2>5, GuestIs, Zenon DEF PollCounts, TypeOK
<1>5. lapic' \in BOOLEAN
  BY <1>1, Zenon DEF LapicPending, PollCounts, TypeOK
<1>6. Rest'
  BY <1>4, <1>5, Zenon DEF Rest, PollCounts, TypeOK
<1>7. frames' \in Seq(Frame) /\ Len(frames') <= guest'.nest /\ (flag_if' => Len(frames') < guest'.nest)
  BY <1>4, Zenon DEF PollCounts, TypeOK
<1> QED
  BY <1>2, <1>3, <1>4, <1>6, <1>7, Assemble, Zenon

LEMMA Prefix ==
  ASSUME NEW F, NEW f \in Seq(F), NEW n \in Nat, n <= Len(f)
  PROVE  /\ SubSeq(f, 1, n) \in Seq(F) /\ Len(SubSeq(f, 1, n)) = n
         /\ \A i \in 1 .. n : SubSeq(f, 1, n)[i] = f[i]
<1>1. SubSeq(f, 1, n) \in Seq(F) /\ Len(SubSeq(f, 1, n)) = n
  OBVIOUS
<1>2. \A i \in 1 .. n : SubSeq(f, 1, n)[i] = f[i]
  BY SubSeqProperties
<1> QED
  BY <1>1, <1>2, Zenon

LEMMA Popped ==
  ASSUME frames \in Seq(Frame), frames # <<>>
  PROVE  \E n \in Nat :
           /\ n + 1 = Len(frames)
           /\ SubSeq(frames, 1, Len(frames) - 1) \in Seq(Frame)
           /\ Len(SubSeq(frames, 1, Len(frames) - 1)) = n
           /\ \A i \in 1 .. n : SubSeq(frames, 1, Len(frames) - 1)[i] = frames[i]
<1> DEFINE n == Len(frames) - 1
<1>1. n \in Nat /\ n <= Len(frames) /\ n + 1 = Len(frames)
  OBVIOUS
<1> HIDE DEF n
<1>2. /\ SubSeq(frames, 1, n) \in Seq(Frame) /\ Len(SubSeq(frames, 1, n)) = n
      /\ \A i \in 1 .. n : SubSeq(frames, 1, n)[i] = frames[i]
  BY <1>1, Prefix, Zenon
<1>3. n = Len(frames) - 1
  BY Zenon DEF n
<1> QED
  BY <1>1, <1>2, <1>3, Zenon

LEMMA IretTyped ==
  ASSUME PollCounts, Iret
  PROVE  /\ PollCounts' /\ UNCHANGED guest
         /\ bus'.master.isr = bus.master.isr /\ bus'.slave.isr = bus.slave.isr
<1>1. PICK pulse \in BOOLEAN, expiry \in BOOLEAN :
        LET b == RefreshIrqs(bus, pulse) IN AgeAfter(b) /\ bus' = b /\ lapic' = LapicPending(expiry)
  BY Zenon DEF Iret, Execute, Same
<1>2. Refreshed(bus')
  BY <1>1, RefreshAges, Zenon
<1>3. /\ UNCHANGED <<guest, restores, line, halted>> /\ flag_if' = TRUE
      /\ frames # <<>> /\ frames' = SubSeq(frames, 1, Len(frames) - 1)
  BY Zenon DEF Iret, Execute
<1>4. lapic' \in BOOLEAN
  BY <1>1, Zenon DEF LapicPending, PollCounts, TypeOK
<1>5. Rest'
  BY <1>3, <1>4, Zenon DEF Rest, PollCounts, TypeOK
<1>6. frames \in Seq(Frame) /\ Len(frames) <= guest.nest /\ guest.nest \in Nat
  BY GuestIs, Zenon DEF PollCounts, TypeOK
<1>7. frames' \in Seq(Frame) /\ Len(frames') = Len(frames) - 1
  <2>1. PICK n \in Nat : n + 1 = Len(frames) /\ frames' \in Seq(Frame) /\ Len(frames') = n
    BY <1>3, <1>6, Popped, Zenon
  <2> QED
    BY <1>6, <2>1
<1>8. Len(frames') < guest'.nest
  BY <1>3, <1>6, <1>7
<1> QED
  BY <1>2, <1>3, <1>5, <1>6, <1>7, <1>8, Assemble DEF Refreshed

PICs == {"master", "slave"}

\* A port write that leaves controller pic as p.
Wrote(b, pic, p) == Touched([b EXCEPT ![pic] = p])

LEMMA PicWritten ==
  ASSUME NEW b \in Bus, NEW pic \in PICs, NEW p \in Pic
  PROVE  /\ Wrote(b, pic, p) \in Bus
         /\ Wrote(b, pic, p).poll = b.poll
         /\ Wrote(b, pic, p)[pic] = p
         /\ \A other \in PICs : other # pic => Wrote(b, pic, p)[other] = b[other]
<1>1. CASE pic = "master"
  BY <1>1, Zenon DEF Wrote, Touched, Bus, PICs
<1>2. CASE pic = "slave"
  BY <1>2, Zenon DEF Wrote, Touched, Bus, PICs
<1> QED
  BY <1>1, <1>2, Zenon DEF PICs

\* Writes of a PIC's ports outside every handler.
LEMMA ProgramTyped ==
  ASSUME PollCounts, NEW pic \in PICs,
         StartInit(pic) \/ \E v \in guest.masks \cup {bus[pic].vector_base} : WriteDataPort(pic, v)
  PROVE  /\ PollCounts' /\ UNCHANGED <<guest, frames, flag_if>>
         /\ bus'[pic].isr = bus[pic].isr \/ (bus'[pic].isr = {} /\ frames = <<>>)
         /\ \A other \in PICs : other # pic => bus'[other].isr = bus[other].isr
<1>1. bus \in Bus /\ guest \in Guests
  BY Zenon DEF PollCounts, TypeOK, Bus
<1>2. \A q \in Bus : /\ q[pic] \in Pic
                     /\ q["master"] = q.master /\ q["slave"] = q.slave
  BY Zenon DEF Bus, PICs
<1>3. guest.masks \cup {bus[pic].vector_base} \subseteq Byte
  BY <1>1, <1>2, GuestIs, Zenon DEF Pic
<1>4. PICK pulse \in BOOLEAN, expiry \in BOOLEAN, p \in Pic :
        LET b == RefreshIrqs(bus, pulse) IN
        /\ AgeAfter(b) /\ bus' = Wrote(b, pic, p) /\ lapic' = LapicPending(expiry)
        /\ p.isr = b[pic].isr \/ (p.isr = {} /\ frames = <<>>)
  <2>1. CASE StartInit(pic)
    <3>1. PICK pulse \in BOOLEAN, expiry \in BOOLEAN :
            LET b == RefreshIrqs(bus, pulse) IN
            /\ AgeAfter(b) /\ bus' = Touched([b EXCEPT ![pic] = WriteCommand(b[pic], 17)])
            /\ lapic' = LapicPending(expiry) /\ frames = <<>>
      BY <2>1, Zenon DEF StartInit, Execute
    <3>2. RefreshIrqs(bus, pulse) \in Bus
      BY <3>1, RefreshAges, Zenon DEF Refreshed
    <3>3. /\ WriteCommand(RefreshIrqs(bus, pulse)[pic], 17) \in Pic
          /\ WriteCommand(RefreshIrqs(bus, pulse)[pic], 17).isr = {}
      BY <1>2, <3>2, CommandTyped, Zenon
    <3> QED
      BY <3>1, <3>3, Zenon DEF Wrote
  <2>2. ASSUME NEW v \in guest.masks \cup {bus[pic].vector_base}, WriteDataPort(pic, v)
        PROVE  \E pulse \in BOOLEAN, expiry \in BOOLEAN, p \in Pic :
                 LET b == RefreshIrqs(bus, pulse) IN
                 /\ AgeAfter(b) /\ bus' = Wrote(b, pic, p) /\ lapic' = LapicPending(expiry)
                 /\ p.isr = b[pic].isr
    <3>1. PICK pulse \in BOOLEAN, expiry \in BOOLEAN :
            LET b == RefreshIrqs(bus, pulse) IN
            /\ AgeAfter(b) /\ bus' = Touched([b EXCEPT ![pic] = WriteData(b[pic], v)])
            /\ lapic' = LapicPending(expiry)
      BY <2>2, Zenon DEF WriteDataPort, Execute
    <3>2. RefreshIrqs(bus, pulse) \in Bus
      BY <3>1, RefreshAges, Zenon DEF Refreshed
    <3>3. /\ WriteData(RefreshIrqs(bus, pulse)[pic], v) \in Pic
          /\ WriteData(RefreshIrqs(bus, pulse)[pic], v).isr = RefreshIrqs(bus, pulse)[pic].isr
      BY <1>2, <1>3, <3>2, WriteDataTyped, Zenon
    <3> QED
      BY <3>1, <3>3, Zenon DEF Wrote
  <2> QED
    BY <2>1, <2>2, Zenon
<1>5. PICK b : b = RefreshIrqs(bus, pulse) /\ Refreshed(b)
  BY <1>4, RefreshAges, Zenon
<1>6. b \in Bus /\ \A q \in PICs : b[q].isr = bus[q].isr
  BY <1>1, <1>2, <1>5, Zenon DEF Refreshed, PICs
<1>7. /\ bus' \in Bus /\ bus'.poll = b.poll /\ bus'[pic] = p
      /\ \A other \in PICs : other # pic => bus'[other] = b[other]
  BY <1>4, <1>5, <1>6, PicWritten
<1>8. UNCHANGED <<guest, restores, line, flag_if, halted, frames>>
  BY Zenon DEF StartInit, WriteDataPort, Execute
<1>9. lapic' \in BOOLEAN
  BY <1>4, Zenon DEF LapicPending, PollCounts, TypeOK
<1>10. Rest'
  BY <1>8, <1>9, Zenon DEF Rest, PollCounts, TypeOK
<1>11. PollCounts'
  <2>1. frames' \in Seq(Frame) /\ Len(frames') <= guest'.nest /\ (flag_if' => Len(frames') < guest'.nest)
    BY <1>8, Zenon DEF PollCounts, TypeOK
  <2> QED
    BY <1>5, <1>7, <1>10, <2>1, Assemble, Zenon
<1> QED
  BY <1>4, <1>5, <1>6, <1>7, <1>8, <1>11, Zenon

\* A frame, and the stack, once the EOI of one controller is sent.
LEMMA FramePaid ==
  ASSUME NEW f \in Frame, NEW pic
  PROVE  /\ [f EXCEPT !.owes = @ \ {pic}] \in Frame
         /\ [f EXCEPT !.owes = @ \ {pic}].irq = f.irq
         /\ [f EXCEPT !.owes = @ \ {pic}].owes = f.owes \ {pic}
<1>1. PICK o : o = f.owes \ {pic} /\ o \in SUBSET {"master", "slave"}
  BY Zenon DEF Frame
<1> QED
  BY <1>1, Zenon DEF Frame

LEMMA StackPaid ==
  ASSUME frames \in Seq(Frame), NEW pic, Owes(pic)
  PROVE  /\ Paid(pic) \in Seq(Frame) /\ Len(Paid(pic)) = Len(frames) /\ Len(frames) \in DOMAIN frames
         /\ \A i \in DOMAIN frames : Paid(pic)[i].irq = frames[i].irq
         /\ \A i \in DOMAIN frames : i # Len(frames) => Paid(pic)[i].owes = frames[i].owes
         /\ Paid(pic)[Len(frames)].owes = Top.owes \ {pic}
<1>1. PICK n : n = Len(frames) /\ n \in DOMAIN frames /\ frames[n] \in Frame
  BY DEF Owes
<1>2. PICK f \in Frame : /\ f = [frames[n] EXCEPT !.owes = @ \ {pic}]
                         /\ f.irq = frames[n].irq /\ f.owes = frames[n].owes \ {pic}
  BY <1>1, FramePaid, Zenon
<1>3. Paid(pic) = [frames EXCEPT ![n] = f]
  BY <1>1, <1>2, Zenon DEF Paid
<1>4. Paid(pic) \in Seq(Frame) /\ Len(Paid(pic)) = Len(frames)
  BY <1>1, <1>3
<1> QED
  BY <1>1, <1>2, <1>3, <1>4, Zenon DEF Top

LEMMA EoiTyped ==
  ASSUME PollCounts, NEW pic \in PICs, SendEoi(pic), LineOn(pic, Top.irq) \in Irqs
  PROVE  /\ PollCounts' /\ UNCHANGED <<guest, flag_if>> /\ Owes(pic) /\ frames' = Paid(pic)
         /\ guest.eoi = "specific" => bus'[pic].isr = bus[pic].isr \ {LineOn(pic, Top.irq)}
         /\ guest.eoi = "nonspecific" =>
              bus'[pic].isr = IF bus[pic].isr = {} THEN {} ELSE bus[pic].isr \ {Min(bus[pic].isr)}
         /\ \A other \in PICs : other # pic => bus'[other].isr = bus[other].isr
<1>1. bus \in Bus /\ guest \in Guests /\ guest.eoi \in {"specific", "nonspecific"}
  BY GuestIs, Zenon DEF PollCounts, TypeOK, Bus
<1>2. \A q \in Bus : /\ q[pic] \in Pic
                     /\ q["master"] = q.master /\ q["slave"] = q.slave
  BY Zenon DEF Bus, PICs
<1>3. PICK pulse \in BOOLEAN, expiry \in BOOLEAN :
        LET b == RefreshIrqs(bus, pulse) IN
        /\ AgeAfter(b) /\ bus' = Wrote(b, pic, WriteCommand(b[pic], EoiCommand(pic)))
        /\ lapic' = LapicPending(expiry)
  BY Zenon DEF SendEoi, Execute, Wrote
<1>4. PICK b : b = RefreshIrqs(bus, pulse) /\ Refreshed(b)
  BY <1>3, RefreshAges, Zenon
<1>5. b \in Bus /\ \A q \in PICs : b[q].isr = bus[q].isr
  BY <1>1, <1>2, <1>4, Zenon DEF Refreshed, PICs
<1>6. PICK p : p = WriteCommand(b[pic], EoiCommand(pic))
  BY Zenon
<1>7. /\ p \in Pic
      /\ guest.eoi = "specific" => p.isr = bus[pic].isr \ {LineOn(pic, Top.irq)}
      /\ guest.eoi = "nonspecific" =>
           p.isr = IF bus[pic].isr = {} THEN {} ELSE bus[pic].isr \ {Min(bus[pic].isr)}
  <2>1. PICK q \in Pic : q = b[pic] /\ q.isr = bus[pic].isr
    BY <1>2, <1>5, Zenon
  <2>2. CASE guest.eoi = "nonspecific"
    <3>1. p = WriteCommand(q, 32)
      BY <1>6, <2>1, <2>2, Zenon DEF EoiCommand
    <3>2. p \in Pic /\ p.isr = (IF q.isr = {} THEN {} ELSE q.isr \ {Min(q.isr)})
      BY <3>1, CommandTyped, Zenon
    <3> QED
      BY <2>1, <2>2, <3>2, Zenon
  <2>3. CASE guest.eoi = "specific"
    <3>1. PICK n \in Irqs : n = LineOn(pic, Top.irq)
      BY Zenon
    <3>2. PICK cmd : cmd = 96 + n
      BY Zenon
    <3>3. p = WriteCommand(q, cmd)
      BY <1>6, <2>1, <2>3, <3>1, <3>2, Zenon DEF EoiCommand
    <3>4. p \in Pic /\ p.isr = q.isr \ {n}
      BY <3>2, <3>3, SpecificTyped, Zenon
    <3>5. p.isr = bus[pic].isr \ {LineOn(pic, Top.irq)}
      BY <2>1, <3>1, <3>4, Zenon
    <3> QED
      BY <2>3, <3>4, <3>5, Zenon
  <2> QED
    BY <1>1, <2>2, <2>3, Zenon
<1>8. /\ bus' \in Bus /\ bus'.poll = b.poll /\ bus'[pic] = p
      /\ \A other \in PICs : other # pic => bus'[other] = b[other]
  <2>1. bus' = Wrote(b, pic, p) /\ b \in Bus /\ p \in Pic
    BY <1>3, <1>4, <1>5, <1>6, <1>7, Zenon
  <2>2. /\ Wrote(b, pic, p) \in Bus /\ Wrote(b, pic, p).poll = b.poll /\ Wrote(b, pic, p)[pic] = p
        /\ \A other \in PICs : other # pic => Wrote(b, pic, p)[other] = b[other]
    BY <2>1, PicWritten
  <2> QED
    BY <2>1, <2>2, Zenon
<1>9. UNCHANGED <<guest, restores, line, flag_if, halted>> /\ Owes(pic) /\ frames' = Paid(pic)
  BY Zenon DEF SendEoi, Execute
<1>10. Rest'
  BY <1>3, <1>9, Zenon DEF Rest, PollCounts, TypeOK, LapicPending
<1>11. PollCounts'
  <2>4. frames' \in Seq(Frame) /\ Len(frames') = Len(frames)
    BY <1>9, StackPaid, Zenon DEF PollCounts, TypeOK
  <2>5. Len(frames') <= guest'.nest /\ (flag_if' => Len(frames') < guest'.nest)
    BY <1>9, <2>4, Zenon DEF PollCounts, TypeOK
  <2> QED
    BY <1>4, <1>8, <1>10, <2>4, <2>5, Assemble, Zenon
<1> QED
  BY <1>5, <1>7, <1>8, <1>9, <1>11, Zenon

LEMMA HostTyped ==
  ASSUME PollCounts, HostStep
  PROVE  /\ PollCounts' /\ UNCHANGED <<guest, frames, flag_if>>
         /\ bus'.master.isr = bus.master.isr /\ bus'.slave.isr = bus.slave.isr
<1>1. bus \in Bus
  BY Zenon DEF PollCounts, TypeOK, Bus
<1>2. UNCHANGED <<guest, flag_if, halted, frames>>
  BY Zenon DEF HostStep, HostRaise, TypeAscii, Restore, HostUnchanged
<1>3. CASE (\E d \in guest.devices : HostRaise(d)) \/ TypeAscii
  <2>1. bus' \in Bus /\ bus'.poll = bus.poll /\ bus'.master = bus.master /\ bus'.slave = bus.slave
    BY <1>1, <1>3, Zenon DEF HostRaise, TypeAscii, Bus
  <2>2. line' \in [AllDevices -> BOOLEAN] /\ UNCHANGED <<lapic, restores, age>>
    BY <1>3, GuestIs, Zenon DEF HostRaise, TypeAscii, HostUnchanged, PollCounts, TypeOK
  <2> QED
    BY <1>2, <2>1, <2>2, Zenon DEF PollCounts, TypeOK, Bus
<1>4. CASE Restore
  <2>1. /\ bus' \in Bus /\ bus'.master = bus.master /\ bus'.slave = bus.slave
    BY <1>1, <1>4, Zenon DEF Restore, Bus
  <2>2. line' = line /\ lapic' \in BOOLEAN /\ restores' \in 0 .. guest.restores
    BY <1>4, GuestIs DEF Restore, PollCounts, TypeOK
  <2>3. age' \in [AllDevices -> 0 .. PollPeriod] /\ \A d \in AllDevices : age'[d] <= bus'.poll
    BY <1>4, <2>1, Constants DEF Restore, Bus
  <2> QED
    BY <1>2, <2>1, <2>2, <2>3, Zenon DEF PollCounts, TypeOK, Bus
<1> QED
  BY <1>3, <1>4, Zenon DEF HostStep

-----------------------------------------------------------------------------
(***************************************************************************)
(* The ledger of one controller: the handlers on the stack f that owe it   *)
(* an EOI run for different lines, and those lines are the ones in service.*)
(***************************************************************************)
Ledger(f, pic, isr) ==
  /\ \A i \in DOMAIN f : pic \in f[i].owes => LineOn(pic, f[i].irq) \in Irqs
  /\ \A i, j \in DOMAIN f : pic \in f[i].owes /\ pic \in f[j].owes
                              /\ LineOn(pic, f[i].irq) = LineOn(pic, f[j].irq) => i = j
  /\ \A n : n \in isr <=> \E i \in DOMAIN f : pic \in f[i].owes /\ n = LineOn(pic, f[i].irq)

LEMMA LedgerIdle ==
  ASSUME NEW f \in Seq(Frame), NEW pic, NEW isr, Ledger(f, pic, isr),
         NEW fr \in Frame, pic \notin fr.owes
  PROVE  Ledger(Append(f, fr), pic, isr)
<1>1. PICK g : g = Append(f, fr) /\ g \in Seq(Frame)
  BY AppendProperties, Zenon
<1>2. /\ DOMAIN g = 1 .. Len(f) + 1 /\ DOMAIN f = 1 .. Len(f) /\ Len(f) \in Nat
      /\ \A i \in DOMAIN f : g[i] = f[i]
  BY <1>1
<1>3. g[Len(f) + 1] = fr
  BY <1>1
<1>4. \A i \in DOMAIN g : i \in DOMAIN f \/ i = Len(f) + 1
  BY <1>2
<1>5. Ledger(g, pic, isr)
  BY <1>2, <1>3, <1>4 DEF Ledger
<1> QED
  BY <1>1, <1>5, Zenon

LEMMA LedgerEnter ==
  ASSUME NEW f \in Seq(Frame), NEW pic, NEW isr, Ledger(f, pic, isr), NEW n \in Irqs, n \notin isr,
         NEW fr \in Frame, pic \in fr.owes, n = LineOn(pic, fr.irq)
  PROVE  Ledger(Append(f, fr), pic, isr \cup {n})
<1>1. PICK g : g = Append(f, fr) /\ g \in Seq(Frame)
  BY AppendProperties, Zenon
<1>2. /\ DOMAIN g = 1 .. Len(f) + 1 /\ DOMAIN f = 1 .. Len(f) /\ Len(f) \in Nat
      /\ \A i \in DOMAIN f : g[i] = f[i]
  BY <1>1
<1>3. g[Len(f) + 1] = fr /\ Len(f) + 1 \in DOMAIN g
  BY <1>1, <1>2
<1>4. \A i \in DOMAIN g : i \in DOMAIN f \/ i = Len(f) + 1
  BY <1>2
<1>5. \A i \in DOMAIN f : i \in DOMAIN g
  BY <1>2
<1>6. Ledger(g, pic, isr \cup {n})
  BY <1>2, <1>3, <1>4, <1>5 DEF Ledger
<1> QED
  BY <1>1, <1>6, Zenon

LEMMA LedgerReturn ==
  ASSUME NEW f \in Seq(Frame), NEW g \in Seq(Frame), NEW n \in Nat, n + 1 = Len(f), Len(g) = n,
         \A i \in 1 .. n : g[i] = f[i], f[Len(f)].owes = {},
         NEW pic, NEW isr, Ledger(f, pic, isr)
  PROVE  Ledger(g, pic, isr)
<1>1. DOMAIN g = 1 .. n /\ DOMAIN f = 1 .. n + 1
  OBVIOUS
<1>2. \A i \in DOMAIN f : i \in DOMAIN g \/ (i = n + 1 /\ pic \notin f[i].owes)
  BY <1>1
<1>3. \A i \in DOMAIN g : i \in DOMAIN f /\ g[i] = f[i]
  BY <1>1
<1> QED
  BY <1>2, <1>3 DEF Ledger

LEMMA LedgerEnd ==
  ASSUME NEW f \in Seq(Frame), NEW g \in Seq(Frame), Len(g) = Len(f), NEW t \in DOMAIN f,
         \A i \in DOMAIN f : g[i].irq = f[i].irq,
         \A i \in DOMAIN f : i # t => g[i].owes = f[i].owes,
         NEW pic, g[t].owes = f[t].owes \ {pic}, pic \in f[t].owes,
         NEW isr
  PROVE  /\ Ledger(f, pic, isr) => Ledger(g, pic, isr \ {LineOn(pic, f[t].irq)})
         /\ \A other : other # pic /\ Ledger(f, other, isr) => Ledger(g, other, isr)
<1>1. DOMAIN g = DOMAIN f
  OBVIOUS
<1>2. ASSUME Ledger(f, pic, isr) PROVE Ledger(g, pic, isr \ {LineOn(pic, f[t].irq)})
  <2>1. \A i \in DOMAIN f : /\ LineOn(pic, g[i].irq) = LineOn(pic, f[i].irq)
                            /\ pic \in g[i].owes <=> pic \in f[i].owes /\ i # t
    BY Zenon
  <2>2. /\ \A i \in DOMAIN g : pic \in g[i].owes => LineOn(pic, g[i].irq) \in Irqs
        /\ \A i, j \in DOMAIN g : pic \in g[i].owes /\ pic \in g[j].owes
                                     /\ LineOn(pic, g[i].irq) = LineOn(pic, g[j].irq) => i = j
    BY <1>1, <1>2, <2>1, Zenon DEF Ledger
  <2>3. ASSUME NEW n
        PROVE  n \in isr \ {LineOn(pic, f[t].irq)}
                 <=> \E i \in DOMAIN g : pic \in g[i].owes /\ n = LineOn(pic, g[i].irq)
    <3>1. n \in isr <=> \E i \in DOMAIN f : pic \in f[i].owes /\ n = LineOn(pic, f[i].irq)
      BY <1>2, Zenon DEF Ledger
    <3>2. \A i \in DOMAIN f : pic \in f[i].owes => (LineOn(pic, f[i].irq) = LineOn(pic, f[t].irq) <=> i = t)
      BY <1>2, Zenon DEF Ledger
    <3> QED
      BY <1>1, <2>1, <3>1, <3>2, Zenon
  <2> QED
    BY <2>2, <2>3, Zenon DEF Ledger
<1>3. ASSUME NEW other, other # pic, Ledger(f, other, isr) PROVE Ledger(g, other, isr)
  <2>1. \A i \in DOMAIN f : /\ LineOn(other, g[i].irq) = LineOn(other, f[i].irq)
                            /\ other \in g[i].owes <=> other \in f[i].owes
    BY <1>3, Zenon
  <2>2. /\ \A i \in DOMAIN g : other \in g[i].owes => LineOn(other, g[i].irq) \in Irqs
        /\ \A i, j \in DOMAIN g : other \in g[i].owes /\ other \in g[j].owes
                                     /\ LineOn(other, g[i].irq) = LineOn(other, g[j].irq) => i = j
    BY <1>1, <1>3, <2>1, Zenon DEF Ledger
  <2>3. ASSUME NEW n
        PROVE  n \in isr <=> \E i \in DOMAIN g : other \in g[i].owes /\ n = LineOn(other, g[i].irq)
    <3>1. n \in isr <=> \E i \in DOMAIN f : other \in f[i].owes /\ n = LineOn(other, f[i].irq)
      BY <1>3, Zenon DEF Ledger
    <3> QED
      BY <1>1, <2>1, <3>1, Zenon
  <2> QED
    BY <2>2, <2>3, Zenon DEF Ledger
<1> QED
  BY <1>2, <1>3, Zenon

-----------------------------------------------------------------------------
(***************************************************************************)
(* The inductive invariant.  A guest that does not enable interrupts before*)
(* the EOI has one handler that owes one at most, the innermost; that is   *)
(* what makes its non-specific EOI end the right line.                     *)
(***************************************************************************)
OnlyTopOwes ==
  ~guest.early => \A i \in DOMAIN frames : frames[i].owes # {} => ~flag_if /\ i = Len(frames)

Serviced ==
  /\ PollCounts
  /\ Ledger(frames, "master", bus.master.isr)
  /\ Ledger(frames, "slave", bus.slave.isr)
  /\ OnlyTopOwes

LEMMA ServicedInit ==
  ASSUME Init
  PROVE  Serviced
<1>1. 8 \in Byte /\ 112 \in Byte /\ {} \in SUBSET Irqs
  BY DEF Byte
<1>2. NewPic(8) \in Pic /\ NewPic(112) \in Pic /\ NewPic(8).isr = {} /\ NewPic(112).isr = {}
  BY <1>1, Zenon DEF NewPic, Pic, InitStates, BitsOf, Byte, Irqs
<1>3. bus \in Bus /\ bus.poll = 0 /\ bus.master.isr = {} /\ bus.slave.isr = {}
  BY <1>2, Constants DEF Init, Bus
<1>4. frames \in Seq(Frame) /\ frames = <<>> /\ Len(frames) = 0
  BY DEF Init
<1>5. age \in [AllDevices -> 0 .. PollPeriod] /\ \A d \in AllDevices : age[d] = 0
  BY Constants DEF Init
<1>6. guest \in Guests /\ guest.nest \in Nat /\ guest.restores \in Nat
  BY GuestIs, Zenon DEF Init
<1>7. PollCounts
  <2>1. line \in [AllDevices -> BOOLEAN] /\ lapic \in BOOLEAN /\ flag_if = FALSE /\ halted \in BOOLEAN
    BY Zenon DEF Init
  <2>2. restores \in 0 .. guest.restores /\ Len(frames) <= guest.nest
    BY <1>4, <1>6 DEF Init
  <2>3. TypeOK
    BY <1>3, <1>4, <1>5, <1>6, <2>1, <2>2, Zenon DEF TypeOK, Bus
  <2>4. \A d \in AllDevices : age[d] <= bus.poll
    BY <1>3, <1>5
  <2> QED
    BY <2>1, <2>3, <2>4, Zenon DEF PollCounts
<1>8. Ledger(frames, "master", {}) /\ Ledger(frames, "slave", {})
  BY <1>4 DEF Ledger
<1>9. OnlyTopOwes
  BY <1>4 DEF OnlyTopOwes
<1> QED
  BY <1>3, <1>7, <1>8, <1>9, Zenon DEF Serviced

\* Steps that change neither the frames nor what is in service.
LEMMA ServicedKept ==
  ASSUME Serviced, PollCounts', UNCHANGED <<guest, frames>>,
         bus'.master.isr = bus.master.isr, bus'.slave.isr = bus.slave.isr,
         flag_if' => flag_if \/ guest.early \/ frames = <<>> \/ Top.owes = {}
  PROVE  Serviced'
<1>1. frames \in Seq(Frame) /\ DOMAIN frames = 1 .. Len(frames) /\ Len(frames) \in Nat
  BY DEF Serviced, PollCounts, TypeOK
<1>2. OnlyTopOwes'
  BY <1>1 DEF Serviced, OnlyTopOwes, Top
<1> QED
  BY <1>2, Zenon DEF Serviced

LEMMA ServicedTake ==
  ASSUME Serviced, TakeLapicIrq \/ TakePicIrq
  PROVE  Serviced'
<1>1. PollCounts /\ frames \in Seq(Frame)
  BY Zenon DEF Serviced, PollCounts, TypeOK
<1>2. PollCounts' /\ UNCHANGED guest /\ flag_if /\ ~flag_if'
  BY <1>1, TakeTyped, Zenon DEF TakeLapicIrq, TakePicIrq, Enter
<1>3. PICK irq \in 0 .. 16 :
        /\ frames' = Append(frames, FrameOf(irq))
        /\ \/ irq = LapicIrq /\ bus'.master.isr = bus.master.isr /\ bus'.slave.isr = bus.slave.isr
           \/ /\ irq \in Irqs /\ irq \notin bus.master.isr
              /\ bus'.master.isr = bus.master.isr \cup {irq} /\ bus'.slave.isr = bus.slave.isr
           \/ /\ irq \in 8 .. 15 /\ irq - 8 \notin bus.slave.isr /\ Cascade \notin bus.master.isr
              /\ bus'.master.isr = bus.master.isr \cup {Cascade}
              /\ bus'.slave.isr = bus.slave.isr \cup {irq - 8}
  BY <1>1, TakeTyped, Zenon
<1>4. PICK fr : /\ fr = FrameOf(irq) /\ fr \in Frame /\ fr.irq = irq
                /\ fr.owes = IF irq = LapicIrq THEN {} ELSE IF irq < 8 THEN {"master"} ELSE {"master", "slave"}
  <2>1. PICK o \in SUBSET {"master", "slave"} :
          o = IF irq = LapicIrq THEN {} ELSE IF irq < 8 THEN {"master"} ELSE {"master", "slave"}
    BY Zenon
  <2>2. FrameOf(irq) = [irq |-> irq, owes |-> o]
    BY <2>1, Zenon DEF FrameOf
  <2>3. FrameOf(irq) \in Frame /\ FrameOf(irq).irq = irq /\ FrameOf(irq).owes = o
    BY <2>2 DEF Frame
  <2> QED
    BY <2>1, <2>3, Zenon
<1>5. Ledger(frames', "master", bus'.master.isr)
  <2>1. CASE irq = LapicIrq
    <3>1. "master" \notin fr.owes /\ bus'.master.isr = bus.master.isr
      BY <1>3, <1>4, <2>1 DEF LapicIrq, Irqs
    <3> QED
      BY <1>1, <1>3, <1>4, <3>1, LedgerIdle, Zenon DEF Serviced
  <2>2. CASE irq # LapicIrq
    <3>1. PICK n \in Irqs : /\ n = LineOn("master", fr.irq) /\ n \notin bus.master.isr
                            /\ bus'.master.isr = bus.master.isr \cup {n}
      BY <1>3, <1>4, <2>2 DEF LineOn, Irqs, Cascade
    <3>2. "master" \in fr.owes
      BY <1>4, <2>2, Zenon
    <3>3. Ledger(frames, "master", bus.master.isr)
      BY Zenon DEF Serviced
    <3>4. Ledger(Append(frames, fr), "master", bus.master.isr \cup {n})
      BY <1>1, <1>4, <3>1, <3>2, <3>3, LedgerEnter, Zenon
    <3> QED
      BY <1>3, <1>4, <3>1, <3>4, Zenon
  <2> QED
    BY <2>1, <2>2, Zenon
<1>6. Ledger(frames', "slave", bus'.slave.isr)
  <2>1. CASE irq = LapicIrq \/ irq < 8
    <3>1. "slave" \notin fr.owes /\ bus'.slave.isr = bus.slave.isr
      BY <1>3, <1>4, <2>1 DEF LapicIrq, Irqs
    <3> QED
      BY <1>1, <1>3, <1>4, <3>1, LedgerIdle, Zenon DEF Serviced
  <2>2. CASE ~(irq = LapicIrq \/ irq < 8)
    <3>1. PICK n \in Irqs : /\ n = LineOn("slave", fr.irq) /\ n \notin bus.slave.isr
                            /\ bus'.slave.isr = bus.slave.isr \cup {n}
      <4>1. irq \in 8 .. 15 /\ irq - 8 \notin bus.slave.isr /\ bus'.slave.isr = bus.slave.isr \cup {irq - 8}
        <5>1. irq \in Irqs => irq < 8
          BY DEF Irqs
        <5> QED
          BY <1>3, <2>2, <5>1, Zenon
      <4>2. LineOn("slave", fr.irq) = irq - 8
        BY <1>4, Zenon DEF LineOn
      <4>3. irq - 8 \in Irqs
        BY <4>1 DEF Irqs
      <4> QED
        BY <4>1, <4>2, <4>3, Zenon
    <3>2. "slave" \in fr.owes
      BY <1>4, <2>2, Zenon
    <3>3. Ledger(frames, "slave", bus.slave.isr)
      BY Zenon DEF Serviced
    <3>4. Ledger(Append(frames, fr), "slave", bus.slave.isr \cup {n})
      BY <1>1, <1>4, <3>1, <3>2, <3>3, LedgerEnter, Zenon
    <3> QED
      BY <1>3, <1>4, <3>1, <3>4, Zenon
  <2> QED
    BY <2>1, <2>2, Zenon
<1>7. OnlyTopOwes'
  <2>1. /\ DOMAIN frames = 1 .. Len(frames) /\ Len(frames) \in Nat
        /\ DOMAIN frames' = 1 .. Len(frames) + 1 /\ Len(frames') = Len(frames) + 1
        /\ \A i \in DOMAIN frames : frames'[i] = frames[i]
    BY <1>1, <1>3, <1>4
  <2>2. ASSUME ~guest'.early, NEW i \in DOMAIN frames', frames'[i].owes # {}
        PROVE  ~flag_if' /\ i = Len(frames')
    <3>1. i \in DOMAIN frames \/ i = Len(frames')
      BY <2>1
    <3> QED
      BY <1>2, <2>1, <2>2, <3>1, Zenon DEF Serviced, OnlyTopOwes
  <2> QED
    BY <2>2, Zenon DEF OnlyTopOwes
<1> QED
  BY <1>2, <1>5, <1>6, <1>7, Zenon DEF Serviced

LEMMA ServicedIret ==
  ASSUME Serviced, Iret
  PROVE  Serviced'
<1>1. PollCounts /\ frames \in Seq(Frame) /\ frames # <<>> /\ frames[Len(frames)].owes = {}
  BY Zenon DEF Serviced, PollCounts, TypeOK, Iret, Top
<1>2. /\ PollCounts' /\ UNCHANGED guest
      /\ bus'.master.isr = bus.master.isr /\ bus'.slave.isr = bus.slave.isr
  BY <1>1, IretTyped, Zenon
<1>3. PICK n \in Nat : /\ n + 1 = Len(frames) /\ frames' \in Seq(Frame) /\ Len(frames') = n
                       /\ \A i \in 1 .. n : frames'[i] = frames[i]
  BY <1>1, Popped, Zenon DEF Iret
<1>4. \A pic, isr : Ledger(frames, pic, isr) => Ledger(frames', pic, isr)
  BY <1>1, <1>3, LedgerReturn, Zenon
<1>5. OnlyTopOwes'
  <2>1. ASSUME ~guest'.early, NEW i \in DOMAIN frames' PROVE frames'[i].owes = {}
    <3>1. i \in DOMAIN frames /\ i # Len(frames) /\ frames'[i] = frames[i]
      BY <1>1, <1>3
    <3> QED
      BY <1>2, <2>1, <3>1, Zenon DEF Serviced, OnlyTopOwes
  <2> QED
    BY <2>1, Zenon DEF OnlyTopOwes
<1> QED
  BY <1>2, <1>4, <1>5, Zenon DEF Serviced

LEMMA ServicedEoi ==
  ASSUME Serviced, NEW pic \in PICs, SendEoi(pic)
  PROVE  Serviced'
<1>1. PollCounts /\ frames \in Seq(Frame) /\ Owes(pic) /\ guest \in Guests
  BY Zenon DEF Serviced, PollCounts, TypeOK, SendEoi
<1>2. PICK t \in DOMAIN frames : t = Len(frames) /\ Top = frames[t] /\ pic \in frames[t].owes
  BY <1>1 DEF Owes, Top
<1>3. \A q \in PICs : Ledger(frames, q, bus[q].isr)
  BY Zenon DEF Serviced, PICs
<1>4. PICK n \in Irqs : n = LineOn(pic, frames[t].irq) /\ n \in bus[pic].isr
  BY <1>2, <1>3, Zenon DEF Ledger
<1>5. LineOn(pic, Top.irq) \in Irqs
  BY <1>2, <1>4, Zenon
<1>6. /\ PollCounts' /\ UNCHANGED <<guest, flag_if>> /\ frames' = Paid(pic)
      /\ guest.eoi = "specific" => bus'[pic].isr = bus[pic].isr \ {n}
      /\ guest.eoi = "nonspecific" =>
           bus'[pic].isr = IF bus[pic].isr = {} THEN {} ELSE bus[pic].isr \ {Min(bus[pic].isr)}
      /\ \A other \in PICs : other # pic => bus'[other].isr = bus[other].isr
  BY <1>1, <1>2, <1>4, <1>5, EoiTyped, Zenon
<1>7. bus'[pic].isr = bus[pic].isr \ {n}
  <2>1. CASE guest.eoi = "specific"
    BY <1>6, <2>1, Zenon
  <2>2. CASE guest.eoi = "nonspecific"
    <3>1. ~guest.early
      BY <1>1, <2>2, GuestIs, Zenon
    <3>2. \A i \in DOMAIN frames : pic \in frames[i].owes => i = t
      BY <1>2, <3>1, Zenon DEF Serviced, OnlyTopOwes
    <3>3. bus[pic].isr = {n}
      BY <1>2, <1>3, <1>4, <3>2, Zenon DEF Ledger
    <3>4. Min({n}) = n
      BY <1>4, MinIsIn
    <3> QED
      BY <1>6, <2>2, <3>3, <3>4, Zenon
  <2> QED
    BY <1>1, <2>1, <2>2, GuestIs, Zenon
<1>8. /\ frames' \in Seq(Frame) /\ Len(frames') = Len(frames)
      /\ \A i \in DOMAIN frames : frames'[i].irq = frames[i].irq
      /\ \A i \in DOMAIN frames : i # t => frames'[i].owes = frames[i].owes
      /\ frames'[t].owes = frames[t].owes \ {pic}
  BY <1>1, <1>2, <1>6, StackPaid
<1>9. /\ \A isr : Ledger(frames, pic, isr) => Ledger(frames', pic, isr \ {n})
      /\ \A isr, other : other # pic /\ Ledger(frames, other, isr) => Ledger(frames', other, isr)
  BY <1>1, <1>2, <1>4, <1>8, LedgerEnd, Zenon
<1>10. \A q \in PICs : Ledger(frames', q, bus'[q].isr)
  BY <1>3, <1>6, <1>7, <1>9
<1>11. OnlyTopOwes'
  <2>1. ASSUME ~guest'.early, NEW i \in DOMAIN frames', frames'[i].owes # {}
        PROVE  ~flag_if' /\ i = Len(frames')
    <3>1. i \in DOMAIN frames
      BY <1>1, <1>8
    <3>2. frames[i].owes # {}
      BY <1>2, <1>8, <2>1, <3>1, Zenon
    <3> QED
      BY <1>6, <1>8, <2>1, <3>1, <3>2, Zenon DEF Serviced, OnlyTopOwes
  <2> QED
    BY <2>1, Zenon DEF OnlyTopOwes
<1> QED
  BY <1>6, <1>10, <1>11, Zenon DEF Serviced, PICs

LEMMA ServicedProgram ==
  ASSUME Serviced, NEW pic \in PICs,
         StartInit(pic) \/ \E v \in guest.masks \cup {bus[pic].vector_base} : WriteDataPort(pic, v)
  PROVE  Serviced'
<1>1. /\ PollCounts' /\ UNCHANGED <<guest, frames, flag_if>>
      /\ bus'[pic].isr = bus[pic].isr \/ (bus'[pic].isr = {} /\ frames = <<>>)
      /\ \A other \in PICs : other # pic => bus'[other].isr = bus[other].isr
  BY ProgramTyped, Zenon DEF Serviced
<1>2. \A q \in PICs : Ledger(frames, q, bus[q].isr)
  BY Zenon DEF Serviced, PICs
<1>3. frames = <<>> => \A q : Ledger(frames, q, {})
  BY DEF Ledger
<1>4. ASSUME NEW q \in PICs PROVE Ledger(frames', q, bus'[q].isr)
  <2>1. bus'[q].isr = bus[q].isr \/ (bus'[q].isr = {} /\ frames = <<>>)
    BY <1>1, Zenon
  <2>2. frames' = frames
    BY <1>1, Zenon
  <2> QED
    BY <1>2, <1>3, <2>1, <2>2, Zenon
<1>5. OnlyTopOwes'
  BY <1>1, Zenon DEF Serviced, OnlyTopOwes
<1> QED
  BY <1>1, <1>4, <1>5, Zenon DEF Serviced, PICs

LEMMA ServicedNext ==
  ASSUME Serviced, Next \/ UNCHANGED vars
  PROVE  Serviced'
<1>1. PollCounts
  BY Zenon DEF Serviced
<1>2. CASE TakeLapicIrq \/ TakePicIrq
  BY <1>2, ServicedTake, Zenon
<1>3. CASE \/ HaltedStep \/ OtherInstruction \/ Sti \/ Cli \/ Hlt
           \/ \E d \in guest.devices : ServiceDevice(d)
  <2>1. /\ PollCounts' /\ UNCHANGED <<guest, frames>>
        /\ bus'.master.isr = bus.master.isr /\ bus'.slave.isr = bus.slave.isr
    BY <1>1, <1>3, QuietTyped, Zenon
  <2>2. flag_if' => flag_if \/ guest.early \/ frames = <<>> \/ Top.owes = {}
    BY <1>3, Zenon DEF HaltedStep, OtherInstruction, Sti, Cli, Hlt, ServiceDevice
  <2> QED
    BY <2>1, <2>2, ServicedKept, Zenon
<1>4. CASE Iret
  BY <1>4, ServicedIret, Zenon
<1>5. CASE \E pic \in PICs : SendEoi(pic)
  BY <1>5, ServicedEoi, Zenon
<1>6. CASE \E pic \in PICs : \/ StartInit(pic)
                             \/ \E v \in guest.masks \cup {bus[pic].vector_base} : WriteDataPort(pic, v)
  BY <1>6, ServicedProgram, Zenon
<1>7. CASE HostStep
  <2>1. /\ PollCounts' /\ UNCHANGED <<guest, frames, flag_if>>
        /\ bus'.master.isr = bus.master.isr /\ bus'.slave.isr = bus.slave.isr
    BY <1>1, <1>7, HostTyped, Zenon
  <2> QED
    BY <2>1, ServicedKept, Zenon
<1>8. CASE UNCHANGED vars
  BY <1>8, Zenon DEF vars, Serviced, PollCounts, TypeOK, OnlyTopOwes
<1> QED
  BY <1>2, <1>3, <1>4, <1>5, <1>6, <1>7, <1>8, Zenon DEF Next, CpuStep, PICs

LEMMA ServicedMatches ==
  ASSUME Serviced
  PROVE  InServiceMatchesHandlers
<1>1. ASSUME NEW pic, NEW isr, Ledger(frames, pic, isr) PROVE isr = OwedOn(pic)
  BY <1>1, Zenon DEF Ledger, OwedOn
<1> QED
  BY <1>1, Zenon DEF Serviced, InServiceMatchesHandlers

-----------------------------------------------------------------------------
(***************************************************************************)
(* What the gate of refresh_irqs may skip.  A machine that was never       *)
(* restored has marked its lines dirty, or it requests nothing whose cause *)
(* is gone: no device request without its line, no cascade request without *)
(* a slave that can deliver.                                               *)
(***************************************************************************)
Sound(b) ==
  /\ \A d \in AllDevices : Requested(b, d) => line[d]
  /\ Cascade \in b.master.irr => HasPending(b.slave)

Abreast == restores = 0 => bus.dirty \/ Sound(bus)

LEMMA IrqsOfDevices ==
  /\ IrqOf["uart"] = 4 /\ IrqOf["kbd"] = 1 /\ IrqOf["mouse"] = 12 /\ IrqOf["nic"] = 11
  /\ \A b : /\ Requested(b, "uart") = (4 \in b.master.irr) /\ Requested(b, "kbd") = (1 \in b.master.irr)
            /\ Requested(b, "mouse") = (4 \in b.slave.irr) /\ Requested(b, "nic") = (3 \in b.slave.irr)
<1>1. IrqOf["uart"] = 4 /\ IrqOf["kbd"] = 1 /\ IrqOf["mouse"] = 12 /\ IrqOf["nic"] = 11
  BY Zenon DEF IrqOf
<1> QED
  BY <1>1 DEF Requested

LEMMA PollSound ==
  ASSUME NEW b \in Bus, line \in [AllDevices -> BOOLEAN]
  PROVE  Sound(PollDeviceIrqs(b))
<1> DEFINE m == LatchLevel(LatchLevel(b.master, 4, line["uart"]), 1, line["kbd"])
           s == LatchLevel(LatchLevel(b.slave, 4, line["mouse"]), 3, line["nic"])
<1>1. PollDeviceIrqs(b) = [b EXCEPT !.dirty = FALSE, !.slave = s, !.master = LatchLevel(m, Cascade, HasPending(s))]
  BY Zenon DEF PollDeviceIrqs
<1>2. m \in Pic
  <2>1. 4 \in Irqs /\ 1 \in Irqs /\ b.master \in Pic /\ line["uart"] \in BOOLEAN /\ line["kbd"] \in BOOLEAN
    BY DEF Irqs, Bus, AllDevices
  <2>2. LatchLevel(b.master, 4, line["uart"]) \in Pic
    BY <2>1, LatchTyped, Zenon
  <2> QED
    BY <2>1, <2>2, LatchTyped, Zenon
<1> HIDE DEF m, s
<1>3. PollDeviceIrqs(b).slave = s /\ PollDeviceIrqs(b).master = LatchLevel(m, Cascade, HasPending(s))
  BY <1>1, Zenon DEF Bus
<1>4. Cascade \in LatchLevel(m, Cascade, HasPending(s)).irr => HasPending(s)
  BY <1>2, Zenon DEF LatchLevel, Pic
<1>5. Mirrors(PollDeviceIrqs(b))
  BY PollTyped, Zenon
<1> QED
  BY <1>3, <1>4, <1>5, Zenon DEF Sound, Mirrors

\* A refresh leaves sound requests, whether it polls or not.
LEMMA RefreshSound ==
  ASSUME bus \in Bus, line \in [AllDevices -> BOOLEAN], NEW pulse \in BOOLEAN, bus.dirty \/ Sound(bus)
  PROVE  Sound(RefreshIrqs(bus, pulse))
<1> DEFINE D == IF bus.div + 1 >= PitDivider THEN 0 ELSE bus.div + 1
           P == (bus.poll + 1) % PollPeriod
           I == IF bus.div + 1 >= PitDivider /\ pulse THEN bus.master.irr \cup {PitIrq} ELSE bus.master.irr
           b1 == [bus EXCEPT !.div = D, !.poll = P, !.master.irr = I]
<1>1. P \in 0 .. PollPeriod - 1
  BY NextPoll, Constants DEF Bus
<1>2. D \in 0 .. PitDivider - 1
  BY Constants DEF Bus
<1>3. I \in SUBSET Irqs
  BY DEF Bus, Pic, PitIrq, Irqs
<1>4. RefreshIrqs(bus, pulse) = IF b1.dirty \/ b1.poll = 0 THEN PollDeviceIrqs(b1) ELSE b1
  BY Zenon DEF RefreshIrqs
<1>5. \A x \in {1, 2, 4} : x \in I => x \in bus.master.irr
  BY DEF PitIrq
<1> HIDE DEF D, P, I
<1>6. b1 \in Bus /\ b1.master.irr = I /\ b1.slave = bus.slave /\ b1.dirty = bus.dirty
  <2>1. [bus.master EXCEPT !.irr = I] \in Pic /\ [bus.master EXCEPT !.irr = I].irr = I
    BY <1>3, Zenon DEF Bus, Pic
  <2> QED
    BY <1>1, <1>2, <2>1, Zenon DEF Bus
<1> HIDE DEF b1
<1>7. CASE b1.dirty \/ b1.poll = 0
  BY <1>4, <1>6, <1>7, PollSound, Zenon
<1>8. CASE ~(b1.dirty \/ b1.poll = 0)
  <2>1. RefreshIrqs(bus, pulse) = b1 /\ Sound(bus)
    BY <1>4, <1>6, <1>8, Zenon
  <2>2. Cascade \in b1.master.irr => HasPending(b1.slave)
    BY <1>5, <1>6, <2>1, Zenon DEF Sound, Cascade
  <2>3. ASSUME NEW d \in AllDevices, Requested(b1, d) PROVE line[d]
    <3>1. Requested(bus, d)
      BY <1>5, <1>6, <2>3, IrqsOfDevices, Zenon DEF AllDevices
    <3> QED
      BY <2>1, <3>1, Zenon DEF Sound
  <2> QED
    BY <2>1, <2>2, <2>3, Zenon DEF Sound
<1> QED
  BY <1>7, <1>8, Zenon

\* A step of the CPU ends with what its refresh left, or marks the lines dirty.
LEMMA CpuMarks ==
  ASSUME PollCounts, CpuStep
  PROVE  /\ restores' = restores
         /\ bus'.dirty \/ (line' = line /\ \E pulse \in BOOLEAN : bus' = RefreshIrqs(bus, pulse))
<1>1. bus \in Bus /\ line \in [AllDevices -> BOOLEAN]
  BY Zenon DEF PollCounts, TypeOK, Bus
<1>2. ASSUME NEW pulse \in BOOLEAN PROVE RefreshIrqs(bus, pulse) \in Bus
  BY <1>1, RefreshTyped, Zenon
<1>3. ASSUME NEW b \in Bus, NEW pic \in PICs, NEW p PROVE Touched([b EXCEPT ![pic] = p]).dirty
  BY <1>3, Zenon DEF Touched, Bus, PICs
<1>4. CASE TakeLapicIrq \/ HaltedStep \/ OtherInstruction \/ Sti \/ Cli \/ Hlt \/ Iret
  BY <1>4, Zenon DEF TakeLapicIrq, Enter, HaltedStep, OtherInstruction, Sti, Cli, Hlt, Iret, Execute, Same
<1>5. CASE TakePicIrq
  <2>1. PICK pulse \in BOOLEAN : bus' = AckIrq(RefreshIrqs(bus, pulse)) /\ restores' = restores
    BY <1>5, Zenon DEF TakePicIrq, Enter
  <2>2. RefreshIrqs(bus, pulse) \in Bus
    BY <1>2, Zenon
  <2>3. bus'.dirty
    BY <2>1, <2>2, Zenon DEF AckIrq, Bus
  <2> QED
    BY <2>1, <2>3, Zenon
<1>6. CASE \E d \in guest.devices : ServiceDevice(d)
  <2>1. PICK pulse \in BOOLEAN : bus' = Touched(RefreshIrqs(bus, pulse)) /\ restores' = restores
    BY <1>6, Zenon DEF ServiceDevice, Execute
  <2>2. Touched(RefreshIrqs(bus, pulse)).dirty
    BY <1>2, Zenon DEF Touched, Bus
  <2> QED
    BY <2>1, <2>2, Zenon
<1>7. CASE \E pic \in PICs : \/ SendEoi(pic) \/ StartInit(pic)
                             \/ \E v \in guest.masks \cup {bus[pic].vector_base} : WriteDataPort(pic, v)
  <2>1. PICK pic \in PICs, pulse \in BOOLEAN :
          /\ restores' = restores
          /\ \E p : bus' = Touched([RefreshIrqs(bus, pulse) EXCEPT ![pic] = p])
    BY <1>7, Zenon DEF SendEoi, StartInit, WriteDataPort, Execute
  <2> QED
    BY <1>2, <1>3, <2>1, Zenon
<1> QED
  BY <1>4, <1>5, <1>6, <1>7, Zenon DEF CpuStep, PICs

LEMMA AbreastNext ==
  ASSUME PollCounts, Abreast, Next \/ UNCHANGED vars
  PROVE  Abreast'
<1>1. bus \in Bus /\ line \in [AllDevices -> BOOLEAN] /\ restores \in Nat
  BY GuestIs DEF PollCounts, TypeOK, Bus
<1>2. CASE CpuStep
  <2>1. /\ restores' = restores
        /\ bus'.dirty \/ (line' = line /\ \E pulse \in BOOLEAN : bus' = RefreshIrqs(bus, pulse))
    BY <1>2, CpuMarks, Zenon
  <2>2. CASE bus'.dirty \/ restores # 0
    BY <2>1, <2>2, Zenon DEF Abreast
  <2>3. CASE ~bus'.dirty /\ restores = 0
    <3>1. line' = line /\ Sound(bus')
      BY <1>1, <2>1, <2>3, RefreshSound, Zenon DEF Abreast
    <3> QED
      BY <3>1, Zenon DEF Abreast, Sound, Requested
  <2> QED
    BY <2>2, <2>3, Zenon
<1>3. CASE \E d \in guest.devices : HostRaise(d)
  <2>1. bus'.dirty
    BY <1>1, <1>3, Zenon DEF HostRaise, Bus
  <2> QED
    BY <2>1, Zenon DEF Abreast
<1>4. CASE TypeAscii
  <2>1. /\ bus' = bus /\ restores' = restores /\ \A d \in AllDevices : line[d] => line'[d]
    BY <1>1, <1>4, Zenon DEF TypeAscii, HostUnchanged, AllDevices
  <2> QED
    BY <2>1, Zenon DEF Abreast, Sound, Requested
<1>5. CASE Restore
  <2>1. restores' # 0
    BY <1>1, <1>5 DEF Restore
  <2> QED
    BY <2>1, Zenon DEF Abreast
<1>6. CASE UNCHANGED vars
  BY <1>6, Zenon DEF vars, Abreast, Sound, Requested
<1> QED
  BY <1>2, <1>3, <1>4, <1>5, <1>6, Zenon DEF Next, HostStep

LEMMA AbreastInit == Init => Abreast
BY DEF Init, Abreast

LEMMA AbreastCascade ==
  ASSUME PollCounts, Abreast
  PROVE  CascadeHidesNothing
<1>1. bus \in Bus /\ line \in [AllDevices -> BOOLEAN]
  BY Zenon DEF PollCounts, TypeOK, Bus
<1>2. ASSUME restores = 0, NEW pulse \in BOOLEAN PROVE Sound(RefreshIrqs(bus, pulse))
  BY <1>1, <1>2, RefreshSound, Zenon DEF Abreast
<1> QED
  BY <1>2, Zenon DEF CascadeHidesNothing, Sound, Candidates

\* The line that is delivered is requested by the device whose number it has.
LEMMA DeliveredRequested ==
  ASSUME NEW b \in Bus, NEW d \in AllDevices, PendingIrqLine(b) = IrqOf[d]
  PROVE  Requested(b, d)
<1>1. b.master \in Pic /\ b.slave \in Pic
  BY Zenon DEF Bus
<1>2. IrqOf[d] \in {1, 4, 11, 12} /\ PendingIrqLine(b) # NoIrq
  BY IrqsOfDevices DEF AllDevices, NoIrq
<1>3. PICK n \in Irqs : n = PendingIrq(b.master) /\ n \in b.master.irr /\ HasPending(b.master)
  BY <1>1, <1>2, PendingIs, Zenon DEF PendingIrqLine, Candidates
<1>4. CASE n # Cascade
  <2>1. IrqOf[d] = n
    BY <1>3, <1>4, Zenon DEF PendingIrqLine
  <2>2. n < 8
    BY DEF Irqs
  <2> QED
    BY <1>3, <2>1, <2>2, Zenon DEF Requested
<1>5. CASE n = Cascade
  <2>1. HasPending(b.slave) /\ IrqOf[d] = 8 + PendingIrq(b.slave)
    BY <1>2, <1>3, <1>5, Zenon DEF PendingIrqLine
  <2>2. PICK k \in Irqs : k = PendingIrq(b.slave) /\ k \in b.slave.irr
    BY <1>1, <2>1, PendingIs, Zenon DEF Candidates
  <2>3. ~(IrqOf[d] < 8) /\ IrqOf[d] - 8 = k
    BY <2>1, <2>2 DEF Irqs
  <2> QED
    BY <2>2, <2>3, Zenon DEF Requested
<1> QED
  BY <1>4, <1>5, Zenon

\* Only the two interrupt steps push a frame.
LEMMA OnlyTakesEnter ==
  ASSUME PollCounts, Next \/ UNCHANGED vars, Len(frames') > Len(frames)
  PROVE  TakeLapicIrq \/ TakePicIrq
<1>1. frames \in Seq(Frame) /\ Len(frames) \in Nat
  BY DEF PollCounts, TypeOK
<1>2. CASE frames' = frames
  BY <1>1, <1>2
<1>3. CASE Iret
  <2>1. frames' = SubSeq(frames, 1, Len(frames) - 1) /\ frames # <<>>
    BY <1>3, Zenon DEF Iret
  <2>2. Len(frames') = Len(frames) - 1
    BY <1>1, <2>1
  <2> QED
    BY <1>1, <2>2
<1>4. CASE \E pic \in PICs : SendEoi(pic)
  <2>1. PICK pic : frames' = Paid(pic)
    BY <1>4, Zenon DEF SendEoi
  <2>2. Len(frames') = Len(frames)
    BY <1>1, <2>1 DEF Paid
  <2> QED
    BY <1>1, <2>2
<1> QED
  BY <1>2, <1>3, <1>4, Zenon DEF Next, CpuStep, HostStep, PICs, vars, HaltedStep, OtherInstruction, Sti, Cli,
     Hlt, ServiceDevice, StartInit, WriteDataPort, HostRaise, TypeAscii, HostUnchanged, Restore

LEMMA EnteredIsUp ==
  ASSUME PollCounts, Abreast, Next \/ UNCHANGED vars, NEW d \in AllDevices, Entered(IrqOf[d])
  PROVE  line[d] \/ restores > 0
<1>1. /\ bus \in Bus /\ line \in [AllDevices -> BOOLEAN] /\ frames \in Seq(Frame) /\ restores \in Nat
  BY GuestIs DEF PollCounts, TypeOK, Bus
<1>2. TakeLapicIrq \/ TakePicIrq
  BY OnlyTakesEnter, Zenon DEF Entered
<1>3. ASSUME NEW irq, Enter(irq) PROVE irq = IrqOf[d]
  <2>1. frames' = Append(frames, FrameOf(irq)) /\ FrameOf(irq).irq = irq
    BY <1>3, Zenon DEF Enter, FrameOf
  <2>2. frames'[Len(frames')] = FrameOf(irq)
    BY <1>1, <2>1
  <2> QED
    BY <2>1, <2>2, Zenon DEF Entered
<1>4. CASE TakeLapicIrq
  <2>1. LapicIrq = IrqOf[d]
    BY <1>3, <1>4, Zenon DEF TakeLapicIrq
  <2>2. LapicIrq # IrqOf[d]
    BY IrqsOfDevices DEF AllDevices, LapicIrq
  <2> QED
    BY <2>1, <2>2, Zenon
<1>5. CASE TakePicIrq
  <2>1. PICK pulse \in BOOLEAN : PendingIrqLine(RefreshIrqs(bus, pulse)) = IrqOf[d]
    BY <1>3, <1>5, Zenon DEF TakePicIrq
  <2>2. Requested(RefreshIrqs(bus, pulse), d)
    BY <1>1, <2>1, RefreshTyped, DeliveredRequested, Zenon
  <2>3. CASE restores = 0
    <3>1. Sound(RefreshIrqs(bus, pulse))
      BY <1>1, <2>3, RefreshSound, Zenon DEF Abreast
    <3> QED
      BY <2>2, <3>1, Zenon DEF Sound
  <2>4. CASE restores # 0
    BY <1>1, <2>4
  <2> QED
    BY <2>3, <2>4, Zenon
<1> QED
  BY <1>2, <1>4, <1>5, Zenon

-----------------------------------------------------------------------------
LEMMA CountsBounded ==
  ASSUME PollCounts
  PROVE  LatchedWithinBackstop
<1>1. bus.poll \in 0 .. PollPeriod - 1 /\ age \in [AllDevices -> 0 .. PollPeriod]
  BY Zenon DEF PollCounts, TypeOK
<1> QED
  BY <1>1, Constants DEF PollCounts, LatchedWithinBackstop

\* However long the poll period and whatever the guest does, the gated poll of
\* refresh_irqs never leaves a device line and its PIC request bit in
\* disagreement for a whole period, host calls that mark nothing dirty and
\* restored counters included.
THEOREM BackstopHolds == Spec => []LatchedWithinBackstop
<1>1. Init => Serviced
  BY ServicedInit, Zenon
<1>2. Serviced /\ [Next]_vars => Serviced'
  BY ServicedNext, Zenon
<1>3. Serviced => LatchedWithinBackstop
  BY CountsBounded, Zenon DEF Serviced
<1> QED
  BY <1>1, <1>2, <1>3, PTL DEF Spec

\* Whatever nests, on either PIC and for either kind of EOI, the in-service
\* bits that ack_irq sets and write_command clears are those of the handlers
\* that still owe an EOI.
THEOREM EveryEoiRetiresItsOwn == Spec => []InServiceMatchesHandlers
<1>1. Init => Serviced
  BY ServicedInit, Zenon
<1>2. Serviced /\ [Next]_vars => Serviced'
  BY ServicedNext, Zenon
<1>3. Serviced => InServiceMatchesHandlers
  BY ServicedMatches, Zenon
<1> QED
  BY <1>1, <1>2, <1>3, PTL DEF Spec

\* Whatever the two PICs, the poll period and the guest, when pending_irq_vector
\* looks at a machine that was never restored, a cascade request it could take
\* has a slave request behind it: it never answers None while a master line waits.
THEOREM CascadeIsBacked == Spec => []CascadeHidesNothing
<1>1. Init => Serviced /\ Abreast
  BY ServicedInit, AbreastInit, Zenon
<1>2. Serviced /\ Abreast /\ [Next]_vars => (Serviced /\ Abreast)'
  BY ServicedNext, AbreastNext, Zenon DEF Serviced
<1>3. Serviced /\ Abreast => CascadeHidesNothing
  BY AbreastCascade, Zenon DEF Serviced
<1> QED
  BY <1>1, <1>2, <1>3, PTL DEF Spec

\* An interrupt entered for a device finds the device's line up, although
\* refresh_irqs skips most polls: what lowers a line marks the lines dirty.
THEOREM EntersOnlyForRaisedLines == Spec => NoSpuriousDeviceIrq
<1>1. ASSUME Serviced, Abreast, [Next]_vars, NEW d \in AllDevices, Entered(IrqOf[d])
      PROVE  line[d] \/ restores > 0
  BY <1>1, EnteredIsUp, Zenon DEF Serviced
<1>2. Serviced /\ Abreast /\ [Next]_vars =>
        [\A d \in AllDevices : Entered(IrqOf[d]) => line[d] \/ restores > 0]_vars
  BY <1>1, Zenon
<1>3. Init => Serviced /\ Abreast
  BY ServicedInit, AbreastInit, Zenon
<1>4. Serviced /\ Abreast /\ [Next]_vars => (Serviced /\ Abreast)'
  BY ServicedNext, AbreastNext, Zenon DEF Serviced
<1> QED
  BY <1>2, <1>3, <1>4, PTL DEF Spec, NoSpuriousDeviceIrq
=============================================================================
