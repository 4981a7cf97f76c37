------------------------------- MODULE Pit8254 -------------------------------
(***************************************************************************)
(* The interval timer (crates/devices/src/pit.rs): channel 0, which raises *)
(* IRQ 0, with its counter latch; channel 2, gated by port 0x61; and the   *)
(* pairs of byte accesses by which the guest reads and writes the 16-bit   *)
(* counters while they run.                                                *)
(***************************************************************************)
EXTENDS Naturals

CONSTANT Base   \* values of a byte: 256

ASSUME PitAssumption == Base \in Nat \ {0, 1}

VARIABLES
  ch0,    \* reload, counter, periodic (modes 2 and 3) or not (mode 0),
          \* running, write_state, lsb, latch, read_state
  ch2,    \* reload, counter, running, out, write_state, lsb, gate
  pitHist \* history: ticks and edges since channel 0 was loaded, gated ticks
          \* since channel 2 was; the guest's reading of a latched count

pitVars == <<ch0, ch2, pitHist>>

PitByte == 0 .. (Base - 1)
None == Base * Base   \* no latch
Lsb(c) == c % Base
Msb(c) == (c \div Base) % Base

\* A reload of 0 counts from 0x10000.
Loaded(reload) == IF reload = 0 THEN Base * Base ELSE reload

-----------------------------------------------------------------------------
TickReloadingEarly(c) ==
  IF ~c.running THEN [c |-> c, edge |-> FALSE]
  ELSE LET n == c.counter - 1
       IN  [c |-> [c EXCEPT !.counter = IF n = 0 /\ c.periodic THEN c.reload ELSE n],
            edge |-> n = 0]

\* tick(1), channel 0: a terminal count stays visible until the next tick
\* reloads the counter, or stops the channel in mode 0.
Tick0(c) ==
  IF ~c.running THEN [c |-> c, edge |-> FALSE]
  ELSE IF c.counter = 0 /\ ~c.periodic
  THEN [c |-> [c EXCEPT !.running = FALSE], edge |-> FALSE]
  ELSE LET from == IF c.counter = 0 THEN Loaded(c.reload) ELSE c.counter
       IN  [c |-> [c EXCEPT !.counter = from - 1], edge |-> from = 1]

\* tick(1), channel 2: frozen while the gate is low, stops at zero with OUT
\* high.
Tick2(c) ==
  IF ~(c.running /\ c.gate) THEN c
  ELSE [c EXCEPT !.counter = @ - 1, !.out = c.counter = 1, !.running = c.counter # 1]

Capped(n) == IF n > 2 * None THEN 2 * None ELSE n

\* The bus ticks the timer and takes its edge.
PitTick ==
  /\ ch0' = Tick0(ch0).c
  /\ ch2' = Tick2(ch2)
  /\ pitHist' = [pitHist EXCEPT
        !.ticks = IF ~ch0.running THEN @ ELSE IF ch0.counter = 0 THEN 1 ELSE Capped(@ + 1),
        !.edges = IF Tick0(ch0).edge THEN (IF @ < 2 THEN @ + 1 ELSE @) ELSE @,
        !.gated = IF ch2.gate THEN Capped(@ + 1) ELSE @]

\* Counter latch command; a second one is ignored.
Latch(c) ==
  IF c.latch = None THEN [c EXCEPT !.latch = c.counter % None, !.read_state = 0] ELSE c

LatchCommand ==
  /\ ch0' = Latch(ch0)
  /\ pitHist' = IF ch0.latch = None
                THEN [pitHist EXCEPT !.value = ch0.counter % None, !.reading = "lsb"]
                ELSE pitHist
  /\ UNCHANGED ch2

\* A control word for channel 0 ...
ControlWord0(periodic) ==
  /\ ch0' = [ch0 EXCEPT !.periodic = periodic, !.write_state = 0, !.read_state = 0,
                        !.latch = None, !.running = FALSE]
  /\ pitHist' = [pitHist EXCEPT !.reading = "no"]
  /\ UNCHANGED ch2

\* ... and one for channel 2, whose mode is not stored.
ControlWord2 ==
  /\ ch2' = [ch2 EXCEPT !.write_state = 0, !.out = FALSE, !.running = FALSE]
  /\ UNCHANGED <<ch0, pitHist>>

\* A read of the data port of channel 0: both bytes of a latched count, or of
\* the running counter.
ReadData0 ==
  LET from == IF ch0.latch # None THEN ch0.latch ELSE ch0.counter
      byte == IF ch0.read_state = 0 THEN Lsb(from) ELSE Msb(from)
  IN  /\ ch0' = [ch0 EXCEPT !.read_state = 1 - @,
                            !.latch = IF ch0.read_state = 1 THEN None ELSE @]
      /\ pitHist' = [pitHist EXCEPT
           !.reading = CASE @ = "lsb" -> "msb" [] @ = "msb" -> "done" [] OTHER -> "no",
           !.got = CASE pitHist.reading = "lsb" -> byte
                     [] pitHist.reading = "msb" -> @ + Base * byte
                     [] OTHER -> @]
      /\ UNCHANGED ch2

\* A write of a data port: the second byte loads the counter and starts it.
WriteData0(b) ==
  /\ IF ch0.write_state = 0
     THEN /\ ch0' = [ch0 EXCEPT !.lsb = b, !.write_state = 1]
          /\ UNCHANGED pitHist
     ELSE LET reload == ch0.lsb + Base * b IN
          /\ ch0' = [ch0 EXCEPT !.reload = reload, !.counter = Loaded(reload),
                                !.running = TRUE, !.write_state = 0]
          /\ pitHist' = [pitHist EXCEPT !.ticks = 0, !.edges = 0]
  /\ UNCHANGED ch2

WriteData2(b) ==
  /\ IF ch2.write_state = 0
     THEN /\ ch2' = [ch2 EXCEPT !.lsb = b, !.write_state = 1]
          /\ UNCHANGED pitHist
     ELSE LET reload == ch2.lsb + Base * b IN
          /\ ch2' = [ch2 EXCEPT !.reload = reload, !.counter = Loaded(reload),
                                !.running = TRUE, !.out = FALSE, !.write_state = 0]
          /\ pitHist' = [pitHist EXCEPT !.gated = 0]
  /\ UNCHANGED ch0

WritePort61(gate) ==
  /\ ch2' = [ch2 EXCEPT !.gate = gate]
  /\ UNCHANGED <<ch0, pitHist>>

PitInit ==
  /\ ch0 = [reload |-> 0, counter |-> 0, periodic |-> FALSE, running |-> FALSE,
            write_state |-> 0, lsb |-> 0, latch |-> None, read_state |-> 0]
  /\ ch2 = [reload |-> 0, counter |-> 0, running |-> FALSE, out |-> FALSE,
            write_state |-> 0, lsb |-> 0, gate |-> FALSE]
  /\ pitHist = [ticks |-> 0, edges |-> 0, gated |-> 0, value |-> 0, got |-> 0,
                reading |-> "no"]

PitChannel0 ==
  \/ PitTick
  \/ LatchCommand
  \/ \E p \in BOOLEAN : ControlWord0(p)
  \/ ReadData0
  \/ \E b \in PitByte : WriteData0(b)

PitChannel2 ==
  \/ PitTick
  \/ ControlWord2
  \/ \E b \in PitByte : WriteData2(b)
  \/ \E g \in BOOLEAN : WritePort61(g)

PitSpec == PitInit /\ [][PitChannel0 \/ PitChannel2]_pitVars

-----------------------------------------------------------------------------
(***************************************************************************)
(* Properties                                                              *)
(***************************************************************************)
\* Counters and sequencing state stay in their ranges.
PitTypeOK ==
  /\ ch0.counter \in 0 .. None /\ ch0.reload \in 0 .. (None - 1)
  /\ ch0.latch \in 0 .. None /\ {ch0.write_state, ch0.read_state} \subseteq {0, 1}
  /\ ch2.counter \in 0 .. None

LatchedCountWhole == pitHist.reading = "done" => pitHist.got = pitHist.value

Channel0Exact ==
  /\ ch0.running => ch0.counter + pitHist.ticks = Loaded(ch0.reload)
  /\ ch0.running /\ ~ch0.periodic => pitHist.edges <= 1

Channel2Exact ==
  /\ ch2.running => ch2.counter + pitHist.gated = Loaded(ch2.reload) /\ ~ch2.out
  /\ ch2.out => ch2.counter = 0 /\ pitHist.gated >= Loaded(ch2.reload)

\* Both channels keep exact time.  From its load, or from its last edge, to the
\* next edge channel 0 takes the loaded number of ticks, 65536 for a load of 0,
\* with no tick lost to a reload; in mode 0 there is one edge and no more.  OUT
\* of channel 2, which the guest's calibration polls, rises exactly after the
\* loaded number of ticks with the gate high.  And what the guest reads is the
\* time: the two bytes read after a latch command are those of the count at the
\* command, however the counter runs on between the reads and whatever unlatched
\* read was left half done before.
PitKeepsTime == Channel0Exact /\ Channel2Exact /\ LatchedCountWhole
=============================================================================
