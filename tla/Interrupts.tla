---------------------------- MODULE Interrupts -----------------------------
(***************************************************************************)
(* Interrupt delivery: the two cascaded PICs and the gated device poll of  *)
(* `IoBus` (crates/devices/src/lib.rs), the prologue of `Cpu::step`        *)
(* (crates/cpu/src/lib.rs) that takes an interrupt or runs an instruction, *)
(* and the host calls of `Vm` (crates/vm/src/lib.rs) that change a device  *)
(* line behind the guest's back.                                           *)
(*                                                                         *)
(* A device is abstracted to the level of its interrupt line; what makes   *)
(* the level (a non-empty queue, an unmasked status bit) is in the device  *)
(* modules.  The guest is an operating system that acknowledges every      *)
(* interrupt it takes; which devices it drives and how its handlers are    *)
(* written is a member of Guests.                                          *)
(***************************************************************************)
EXTENDS Pic8259, Sequences

CONSTANTS
  PollPeriod,     \* range of irq_poll: 256 in the code
  PitDivider,     \* PIT_TICK_DIVIDER: 16 in the code
  Guests          \* the guests, and the host that drives them

AllDevices == {"uart", "kbd", "mouse", "nic"}

Guest ==
  [devices  : SUBSET AllDevices, \* devices in use
   nest     : Nat \ {0},         \* handlers nest this deep at most
   early    : BOOLEAN,           \* handlers may enable interrupts before the EOI
   eoi      : {"specific", "nonspecific"},
   masks    : SUBSET Byte,       \* interrupt masks it writes
   restores : Nat]               \* snapshots the host restores at most

\* The PIC does not hold back a line of lower priority than one in service, so
\* a guest that nests handlers before their EOI has to name the line it ends.
ASSUME InterruptsAssumption ==
  /\ PollPeriod \in Nat \ {0, 1}
  /\ PitDivider \in Nat \ {0}
  /\ Guests \subseteq Guest
  /\ \A g \in Guests : g.early => g.eoi = "specific"

\* PC wiring: lines 8..15 are lines 0..7 of the slave.
IrqOf == [uart |-> 4, kbd |-> 1, mouse |-> 12, nic |-> 11]
PitIrq == 0
Cascade == 2
LapicIrq == 16
NoIrq == 17

VARIABLES
  guest,    \* which guest this is; never changes
  bus,      \* the two PICs, the dirty flag and the two step counters
  line,     \* level of each device's interrupt line
  lapic,    \* Memory::pending_lapic_irq holds a vector
  flag_if,  \* EFLAGS.IF
  halted,   \* Cpu::halted
  frames,   \* stack of handlers being run: the IRQ and the EOIs still owed
  restores, \* snapshots restored so far
  age       \* history: successive refreshes that left a line and its request
            \* bit in disagreement

vars == <<guest, bus, line, lapic, flag_if, halted, frames, restores, age>>

Frame == [irq : 0 .. 16, owes : SUBSET {"master", "slave"}]

TypeOK ==
  /\ guest \in Guests
  /\ bus \in [master : Pic, slave : Pic, dirty : BOOLEAN,
              poll : 0 .. PollPeriod - 1, div : 0 .. PitDivider - 1]
  /\ line \in [AllDevices -> BOOLEAN]
  /\ lapic \in BOOLEAN
  /\ flag_if \in BOOLEAN
  /\ halted \in BOOLEAN
  /\ frames \in Seq(Frame) /\ Len(frames) <= guest.nest
  /\ restores \in 0 .. guest.restores
  /\ age \in [AllDevices -> 0 .. PollPeriod]

Init ==
  /\ guest \in Guests
  /\ bus = [master |-> NewPic(8), slave |-> NewPic(112), dirty |-> TRUE,
            poll |-> 0, div |-> 0]
  /\ line = [d \in AllDevices |-> FALSE]
  /\ lapic = FALSE
  /\ flag_if = FALSE
  /\ halted = FALSE
  /\ frames = <<>>
  /\ restores = 0
  /\ age = [d \in AllDevices |-> 0]

-----------------------------------------------------------------------------
(***************************************************************************)
(* IoBus                                                                   *)
(***************************************************************************)
\* Request bit of device d.
Requested(b, d) ==
  IF IrqOf[d] < 8 THEN IrqOf[d] \in b.master.irr
                  ELSE IrqOf[d] - 8 \in b.slave.irr

\* poll_device_irqs: mirror the four lines, then derive the cascade line
\* from what the slave can still deliver.
PollDeviceIrqsStickyCascade(b) ==
  LET m == LatchLevel(LatchLevel(b.master, 4, line["uart"]), 1, line["kbd"])
      s == LatchLevel(LatchLevel(b.slave, 4, line["mouse"]), 3, line["nic"])
  IN  [b EXCEPT !.dirty = FALSE, !.slave = s,
                !.master = IF HasPending(s) THEN LatchLevel(m, Cascade, TRUE) ELSE m]

PollDeviceIrqs(b) ==
  LET m == LatchLevel(LatchLevel(b.master, 4, line["uart"]), 1, line["kbd"])
      s == LatchLevel(LatchLevel(b.slave, 4, line["mouse"]), 3, line["nic"])
  IN  [b EXCEPT !.dirty = FALSE, !.slave = s,
                !.master = LatchLevel(m, Cascade, HasPending(s))]

\* refresh_irqs.  pulse: whether the PIT reached its terminal count, if it is
\* ticked at all in this step; its edge sets the request bit and nothing here
\* clears it.
RefreshWithoutBackstop(b, pulse) ==
  LET ticked == b.div + 1 >= PitDivider
      b1 == [b EXCEPT !.div = IF ticked THEN 0 ELSE @ + 1,
                      !.poll = (@ + 1) % PollPeriod,
                      !.master.irr = IF ticked /\ pulse THEN @ \cup {PitIrq} ELSE @]
  IN  IF b1.dirty THEN PollDeviceIrqs(b1) ELSE b1

RefreshIrqs(b, pulse) ==
  LET ticked == b.div + 1 >= PitDivider
      b1 == [b EXCEPT !.div = IF ticked THEN 0 ELSE @ + 1,
                      !.poll = (@ + 1) % PollPeriod,
                      !.master.irr = IF ticked /\ pulse THEN @ \cup {PitIrq} ELSE @]
  IN  IF b1.dirty \/ b1.poll = 0 THEN PollDeviceIrqs(b1) ELSE b1

\* pending_irq_vector: the cascade request is replaced by the slave's.
PendingIrqLine(b) ==
  IF ~HasPending(b.master) THEN NoIrq
  ELSE IF PendingIrq(b.master) # Cascade THEN PendingIrq(b.master)
  ELSE IF HasPending(b.slave) THEN 8 + PendingIrq(b.slave)
  ELSE NoIrq

\* ack_irq: the slave first when the cascade is being acknowledged.
AckIrqMasterOnly(b) == [b EXCEPT !.master = Ack(@), !.dirty = TRUE]

AckIrq(b) ==
  [b EXCEPT !.slave = IF PendingIrq(b.master) = Cascade THEN Ack(@) ELSE @,
            !.master = Ack(@),
            !.dirty = TRUE]

-----------------------------------------------------------------------------
(***************************************************************************)
(* Cpu::step.  Every step, halted or not, advances the timers and refreshes*)
(* the request lines; then it takes the LAPIC's vector, else the PICs',    *)
(* else executes one instruction unless halted.  pulse and expiry say what *)
(* the PIT and the memory-mapped timers did in this step.                  *)
(***************************************************************************)
LapicPending(expiry) == lapic \/ expiry

\* Nothing is delivered in a step whose refresh produced bus b.
Undelivered(b, expiry) ==
  flag_if => ~LapicPending(expiry) /\ PendingIrqLine(b) = NoIrq

AgeAfter(b) ==
  age' = [d \in AllDevices |->
            IF line[d] = Requested(b, d) THEN 0
            ELSE IF age[d] = PollPeriod THEN PollPeriod ELSE age[d] + 1]

\* do_interrupt through an interrupt gate: push a frame, clear IF, wake up.
Enter(irq) ==
  /\ frames' = Append(frames,
                 [irq  |-> irq,
                  owes |-> IF irq = LapicIrq THEN {}
                           ELSE IF irq < 8 THEN {"master"} ELSE {"master", "slave"}])
  /\ flag_if' = FALSE
  /\ halted' = FALSE
  /\ UNCHANGED <<guest, line, restores>>

TakeLapicIrq ==
  \E pulse, expiry \in BOOLEAN :
    LET b == RefreshIrqs(bus, pulse) IN
    /\ flag_if /\ LapicPending(expiry)
    /\ lapic' = FALSE
    /\ bus' = b
    /\ AgeAfter(b)
    /\ Enter(LapicIrq)

TakePicIrq ==
  \E pulse \in BOOLEAN :
    LET b == RefreshIrqs(bus, pulse) IN
    /\ flag_if /\ ~LapicPending(FALSE) /\ PendingIrqLine(b) # NoIrq
    /\ bus' = AckIrq(b)
    /\ AgeAfter(b)
    /\ Enter(PendingIrqLine(b))
    /\ UNCHANGED lapic

HaltedStep ==
  \E pulse, expiry \in BOOLEAN :
    LET b == RefreshIrqs(bus, pulse) IN
    /\ halted /\ Undelivered(b, expiry)
    /\ lapic' = LapicPending(expiry)
    /\ bus' = b
    /\ AgeAfter(b)
    /\ UNCHANGED <<guest, line, flag_if, halted, frames, restores>>

\* A step that runs one instruction, whose effect on the bus is Exec.
Execute(Exec(_)) ==
  \E pulse, expiry \in BOOLEAN :
    LET b == RefreshIrqs(bus, pulse) IN
    /\ ~halted /\ Undelivered(b, expiry)
    /\ lapic' = LapicPending(expiry)
    /\ bus' = Exec(b)
    /\ AgeAfter(b)
    /\ UNCHANGED <<guest, restores>>

Same(b) == b

\* Every port access marks the lines dirty (IoBus::read, IoBus::write).
Untouched(b) == b
Touched(b) == [b EXCEPT !.dirty = TRUE]

-----------------------------------------------------------------------------
(***************************************************************************)
(* The instructions of the guest that matter here.                         *)
(***************************************************************************)
Top == frames[Len(frames)]
Owes(pic) == frames # <<>> /\ pic \in Top.owes
Paid(pic) == [frames EXCEPT ![Len(frames)].owes = @ \ {pic}]

\* The guest programs one PIC after the other, with interrupts off.
Programmed == \A pic \in {"master", "slave"} : bus[pic].init_state = "Idle"

OtherInstruction ==
  /\ Execute(Same)
  /\ UNCHANGED <<line, flag_if, halted, frames>>

Sti ==
  /\ ~flag_if /\ Programmed
  /\ Len(frames) < guest.nest
  /\ (frames # <<>> /\ ~guest.early) => Top.owes = {}
  /\ Execute(Same)
  /\ flag_if' = TRUE
  /\ UNCHANGED <<line, halted, frames>>

Cli ==
  /\ flag_if
  /\ Execute(Same)
  /\ flag_if' = FALSE
  /\ UNCHANGED <<line, halted, frames>>

\* The idle loop halts outside every handler.
Hlt ==
  /\ frames = <<>> /\ Programmed
  /\ Execute(Same)
  /\ halted' = TRUE
  /\ UNCHANGED <<line, flag_if, frames>>

\* A handler returns once its EOIs are sent; IF was set when it was entered.
Iret ==
  /\ frames # <<>> /\ Top.owes = {}
  /\ Execute(Same)
  /\ frames' = SubSeq(frames, 1, Len(frames) - 1)
  /\ flag_if' = TRUE
  /\ UNCHANGED <<line, halted>>

\* Reading the data port, or clearing the status register, lowers the line.
ServiceDevice(d) ==
  /\ line[d]
  /\ Execute(Touched)
  /\ line' = [line EXCEPT ![d] = FALSE]
  /\ UNCHANGED <<flag_if, halted, frames>>

\* The line of one PIC that the innermost handler runs for.
LineOn(pic, irq) ==
  IF pic = "slave" THEN irq - 8 ELSE IF irq < 8 THEN irq ELSE Cascade

EoiCommand(pic) ==
  IF guest.eoi = "nonspecific" THEN 32 ELSE 96 + LineOn(pic, Top.irq)

SendEoi(pic) ==
  LET Eoi(b) == Touched([b EXCEPT ![pic] = WriteCommand(@, EoiCommand(pic))]) IN
  /\ Owes(pic)
  /\ Execute(Eoi)
  /\ frames' = Paid(pic)
  /\ UNCHANGED <<line, flag_if, halted>>

\* ICW1, outside every handler.
StartInit(pic) ==
  LET Icw(b) == Touched([b EXCEPT ![pic] = WriteCommand(@, 17)]) IN
  /\ frames = <<>> /\ ~flag_if /\ Programmed
  /\ Execute(Icw)
  /\ UNCHANGED <<line, flag_if, halted, frames>>

\* ICW2 (the power-on base again), ICW3 and ICW4 while initialising, the
\* interrupt mask otherwise.
WriteDataPort(pic, v) ==
  LET Data(b) == Touched([b EXCEPT ![pic] = WriteData(@, v)]) IN
  /\ v \in IF bus[pic].init_state = "Idle" THEN guest.masks ELSE {bus[pic].vector_base}
  /\ Execute(Data)
  /\ UNCHANGED <<line, flag_if, halted, frames>>

CpuStep ==
  \/ TakeLapicIrq
  \/ TakePicIrq
  \/ HaltedStep
  \/ OtherInstruction
  \/ Sti
  \/ Cli
  \/ Hlt
  \/ Iret
  \/ \E d \in guest.devices : ServiceDevice(d)
  \/ \E pic \in {"master", "slave"} : SendEoi(pic)
  \/ \E pic \in {"master", "slave"} : StartInit(pic)
  \/ \E pic \in {"master", "slave"} :
       \E v \in guest.masks \cup {bus[pic].vector_base} : WriteDataPort(pic, v)

-----------------------------------------------------------------------------
(***************************************************************************)
(* The host, between two steps.                                            *)
(***************************************************************************)
HostUnchanged == UNCHANGED <<guest, lapic, flag_if, halted, frames, restores, age>>

\* send_input, push_scancode, push_mouse_packet, inject_rx_frame.
HostRaise(d) ==
  /\ line' = [line EXCEPT ![d] = TRUE]
  /\ bus' = [bus EXCEPT !.dirty = TRUE]
  /\ HostUnchanged

\* type_ascii queues scan codes and does not mark the lines dirty.
TypeAscii ==
  /\ "kbd" \in guest.devices
  /\ line' = [line EXCEPT !["kbd"] = TRUE]
  /\ UNCHANGED bus
  /\ HostUnchanged

\* Vm::restore puts the CPU, the PICs and the devices back as they were when
\* the snapshot was taken (this state).  irq_dirty, irq_poll, pit_div_counter
\* and pending_lapic_irq are not in the snapshot: they are what the machine
\* that restores it happens to have.
Restore ==
  /\ restores < guest.restores
  /\ restores' = restores + 1
  /\ \E dirty \in BOOLEAN, poll \in 0 .. PollPeriod - 1, div \in 0 .. PitDivider - 1 :
       bus' = [bus EXCEPT !.dirty = dirty, !.poll = poll, !.div = div]
  /\ lapic' \in BOOLEAN
  /\ age' = [d \in AllDevices |-> 0]
  /\ UNCHANGED <<guest, line, flag_if, halted, frames>>

HostStep ==
  \/ \E d \in guest.devices : HostRaise(d)
  \/ TypeAscii
  \/ Restore

Next == CpuStep \/ HostStep

Spec == Init /\ [][Next]_vars

\* run_steps_idle_aware keeps calling Cpu::step on a CPU halted with
\* interrupts enabled.
IdleLoop == halted /\ flag_if /\ (TakeLapicIrq \/ TakePicIrq \/ HaltedStep)

FairSpec == Spec /\ WF_vars(IdleLoop)

-----------------------------------------------------------------------------
(***************************************************************************)
(* Properties                                                              *)
(***************************************************************************)
\* A device line and its request bit never disagree for as many refreshes as
\* the poll period, whatever the host forgot to mark and whatever counters a
\* restored machine came with: the 256-step backstop of refresh_irqs.
LatchedWithinBackstop == \A d \in AllDevices : age[d] < PollPeriod

\* When the CPU looks for an interrupt, a deliverable cascade request always
\* has a deliverable slave request behind it.  Otherwise pending_irq_vector
\* would answer None and hide every master line of lower priority.  (A restored
\* machine may lack the dirty mark that the snapshot does not hold; it is
\* behind until the backstop.)
CascadeHidesNothing ==
  restores = 0 => \A pulse \in BOOLEAN :
    LET b == RefreshIrqs(bus, pulse) IN
    Cascade \in Candidates(b.master) => HasPending(b.slave)

OwedOn(pic) ==
  {LineOn(pic, frames[i].irq) : i \in {j \in DOMAIN frames : pic \in frames[j].owes}}

\* The in-service bits of both PICs are exactly the lines whose handlers have
\* not sent their EOI: every EOI retires the interrupt of the handler that
\* sends it, and none stays in service and blocks its line for good.
InServiceMatchesHandlers ==
  /\ bus.master.isr = OwedOn("master")
  /\ bus.slave.isr = OwedOn("slave")

\* This step enters the handler of irq.
Entered(irq) == Len(frames') > Len(frames) /\ frames'[Len(frames')].irq = irq

\* Each interrupt entered for a device finds the line up: a level that was
\* lowered before the delivery (the guest drained the device) withdraws it,
\* unless a restored machine lost the mark that it was lowered.
NoSpuriousDeviceIrq ==
  [][\A d \in AllDevices : Entered(IrqOf[d]) => line[d] \/ restores > 0]_vars

\* A line of device d reaches the CPU: nothing on its way is masked.
Unmasked(d) ==
  IF IrqOf[d] < 8 THEN IrqOf[d] \notin bus.master.imr
  ELSE IrqOf[d] - 8 \notin bus.slave.imr /\ Cascade \notin bus.master.imr

\* A CPU halted with interrupts enabled is woken by every unmasked device
\* line the host raises, marked dirty or not, restored or not.
HaltWakes ==
  (halted /\ flag_if /\ \E d \in AllDevices : line[d] /\ Unmasked(d)) ~> ~halted
=============================================================================
