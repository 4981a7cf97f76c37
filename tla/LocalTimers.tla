----------------------------- MODULE LocalTimers -----------------------------
(***************************************************************************)
(* The timers in the memory-mapped windows (crates/mem/src/lib.rs): the    *)
(* local APIC's counter, the HPET's counter with its comparators, and the  *)
(* one slot in which both leave the vector they want delivered.            *)
(*                                                                         *)
(* A step of the CPU ticks both, then delivers a waiting vector if         *)
(* interrupts are enabled, or else executes one instruction.  A step that  *)
(* delivers a page fault ticks nothing, and is a stuttering step here.     *)
(***************************************************************************)
EXTENDS Integers

CONSTANTS
  Initials,   \* initial counts the guest programs
  Timers,     \* HPET timers: 0..2
  WordMod,    \* values of a dword: 2^32
  CounterMod, \* values of the main counter and the comparators: 2^64
  Values      \* comparator values the guest programs

ASSUME TimerAssumption ==
  /\ Initials \subseteq Nat
  /\ {WordMod, CounterMod} \subseteq Nat \ {0} /\ CounterMod % WordMod = 0
  /\ Values \subseteq 0 .. (WordMod - 1)

VARIABLES
  lapic,    \* initial, current, masked, periodic, svr (software enable)
  hpet,     \* on (ENABLE_CNF), counter, and for each timer enabled (INT_ENB
            \* and FSB_EN), periodic, cmp, period
  pending,  \* pending_lapic_irq
  ints,     \* the CPU's interrupt flag
  since,    \* history: ticks since the APIC counter was loaded or last expired
  aimed     \* history: timers programmed ahead of the counter and left alone

timerVars == <<lapic, hpet, pending, ints, since, aimed>>

\* Vectors: those of the HPET timers are their numbers.
NoVector == -1
LapicVector == -2
IpiVector == -3

-----------------------------------------------------------------------------
QueueOverwriting(p, svr, v) == IF svr THEN v ELSE p

\* A vector for the slot, dropped while the APIC is off or the slot is taken.
Queue(p, svr, v) == IF svr /\ p = NoVector THEN v ELSE p

\* tick_lapic_timer and lapic_timer_zero_crossing.
LapicExpires == lapic.current = 1

TickLapic ==
  [lapic EXCEPT !.current =
     IF @ > 1 THEN @ - 1
     ELSE IF LapicExpires /\ lapic.periodic THEN lapic.initial ELSE 0]

\* tick_hpet_counter: the counter advances, and a timer that matches asks for
\* its vector; a periodic one moves its comparator on by the period.
NextCount == (hpet.counter + 1) % CounterMod
Matches(t) == hpet.on /\ hpet.timer[t].enabled /\ hpet.timer[t].cmp = NextCount

Advanced(t) ==
  LET r == hpet.timer[t] IN
  IF Matches(t) /\ r.periodic
  THEN [r EXCEPT !.cmp = (@ + r.period) % CounterMod] ELSE r

TickHpet ==
  IF hpet.on THEN [hpet EXCEPT !.counter = NextCount,
                               !.timer = [t \in Timers |-> Advanced(t)]]
  ELSE hpet

\* The slot after the tick: the APIC's timer comes first, then the HPET's in
\* their order; who finds it taken loses its edge.
PendingAfterLapic ==
  IF LapicExpires /\ ~lapic.masked THEN Queue(pending, lapic.svr, LapicVector) ELSE pending
PendingAfterTick ==
  LET m == {t \in Timers : Matches(t)}
  IN  IF m = {} THEN PendingAfterLapic
      ELSE Queue(PendingAfterLapic, lapic.svr, CHOOSE t \in m : \A u \in m : t <= u)

SinceAfter == IF LapicExpires THEN 0 ELSE IF since < lapic.initial THEN since + 1 ELSE since

-----------------------------------------------------------------------------
\* take_pending_lapic_irq: the vector's handler runs with interrupts off.
Deliver ==
  /\ ints /\ PendingAfterTick # NoVector
  /\ lapic' = TickLapic /\ hpet' = TickHpet /\ since' = SinceAfter
  /\ pending' = NoVector
  /\ ints' = FALSE
  /\ UNCHANGED aimed

\* The prologue of a step that goes on to execute an instruction.
Prologue == ~(ints /\ PendingAfterTick # NoVector)

PlainStep ==
  /\ Prologue
  /\ lapic' = TickLapic /\ hpet' = TickHpet /\ since' = SinceAfter
  /\ pending' = PendingAfterTick
  /\ ints' \in BOOLEAN
  /\ UNCHANGED aimed

\* A write of Initial Count also sets Current Count.
WriteInitial(v) ==
  /\ Prologue
  /\ lapic' = [lapic EXCEPT !.initial = v, !.current = v]
  /\ since' = 0
  /\ hpet' = TickHpet /\ pending' = PendingAfterTick
  /\ UNCHANGED <<ints, aimed>>

\* A write of LVT_TIMER or of the spurious-interrupt register.
WriteLvtOrSvr ==
  /\ Prologue
  /\ \/ \E masked, periodic \in BOOLEAN :
          lapic' = [TickLapic EXCEPT !.masked = masked, !.periodic = periodic]
     \/ \E svr \in BOOLEAN : lapic' = [TickLapic EXCEPT !.svr = svr]
  /\ hpet' = TickHpet /\ since' = SinceAfter /\ pending' = PendingAfterTick
  /\ UNCHANGED <<ints, aimed>>

\* A self-IPI through ICR.
SelfIpi ==
  /\ Prologue
  /\ pending' = Queue(PendingAfterTick, lapic.svr, IpiVector)
  /\ lapic' = TickLapic /\ hpet' = TickHpet /\ since' = SinceAfter
  /\ UNCHANGED <<ints, aimed>>

\* An instruction that writes HPET registers, leaving h of what the tick left.
WriteHpet(h) ==
  /\ Prologue
  /\ hpet' = h
  /\ lapic' = TickLapic /\ since' = SinceAfter /\ pending' = PendingAfterTick
  /\ UNCHANGED ints

\* The low dword of a comparator is its target and its period.
WriteComparator(t, v) ==
  LET h == [TickHpet EXCEPT !.timer[t].cmp = (@ \div WordMod) * WordMod + v,
                            !.timer[t].period = v]
      r == h.timer[t]
  IN  /\ WriteHpet(h)
      /\ aimed' = IF r.enabled /\ r.periodic /\ r.cmp > h.counter /\ r.cmp - h.counter <= v
                  THEN aimed \cup {t} ELSE aimed \ {t}

WriteComparatorHigh(t, v) ==
  /\ WriteHpet([TickHpet EXCEPT !.timer[t].cmp = v * WordMod + (@ % WordMod)])
  /\ aimed' = aimed \ {t}

WriteTimerConfig(t, enabled, periodic) ==
  /\ WriteHpet([TickHpet EXCEPT !.timer[t].enabled = enabled, !.timer[t].periodic = periodic])
  /\ aimed' = IF enabled /\ periodic THEN aimed ELSE aimed \ {t}

\* The guest sets the main counter, usually with the counter off.
WriteMainCounter(v) == WriteHpet([TickHpet EXCEPT !.counter = v]) /\ aimed' = {}

WriteGeneralConfig(on) == WriteHpet([TickHpet EXCEPT !.on = on]) /\ UNCHANGED aimed

TimersInit ==
  /\ lapic = [initial |-> 0, current |-> 0, masked |-> FALSE, periodic |-> FALSE, svr |-> TRUE]
  /\ hpet = [on |-> FALSE, counter |-> 0,
             timer |-> [t \in Timers |->
                          [enabled |-> FALSE, periodic |-> FALSE, cmp |-> 0, period |-> 0]]]
  /\ pending = NoVector /\ ints = FALSE
  /\ since = 0 /\ aimed = {}

TimersNext ==
  \/ Deliver
  \/ PlainStep
  \/ \E v \in Initials : WriteInitial(v)
  \/ WriteLvtOrSvr
  \/ SelfIpi
  \/ \E t \in Timers :
       \/ \E v \in Values : WriteComparator(t, v)
       \/ \E v \in 0 .. (CounterMod \div WordMod - 1) : WriteComparatorHigh(t, v)
       \/ \E enabled, periodic \in BOOLEAN : WriteTimerConfig(t, enabled, periodic)
  \/ \E on \in BOOLEAN : WriteGeneralConfig(on)
  \/ \E v \in Values : WriteMainCounter(v)

-----------------------------------------------------------------------------
(***************************************************************************)
(* Properties                                                              *)
(***************************************************************************)
\* Counters stay in their ranges; the slot holds a vector of some source.
TimersTypeOK ==
  /\ lapic.current \in 0 .. lapic.initial
  /\ hpet.counter \in 0 .. (CounterMod - 1)
  /\ \A t \in Timers : hpet.timer[t].cmp \in 0 .. (CounterMod - 1)
  /\ pending \in {NoVector, LapicVector, IpiVector} \cup Timers

ApicPeriodExact == lapic.current > 0 => lapic.current + since = lapic.initial

HpetStaysAhead ==
  \A t \in aimed :
    LET ahead == (hpet.timer[t].cmp - hpet.counter + CounterMod) % CounterMod
    IN  ahead \in 1 .. hpet.timer[t].period

EnabledEdge == (LapicExpires /\ ~lapic.masked) \/ \E t \in Timers : Matches(t)

VectorKept ==
  /\ pending # NoVector => pending' = pending \/ (ints /\ pending' = NoVector)
  /\ lapic.svr /\ EnabledEdge => ints \/ pending' # NoVector

\* Both timers keep pace whether their edges are delivered, dropped because the
\* slot is taken, or masked.  Each period of the APIC's timer takes the initial
\* count of steps.  A periodic HPET timer that was aimed ahead of the counter
\* stays ahead of it by at most its period, across every match and the wrap of
\* the counter: behind it, it would be silent for the counter's whole range.
\* And the slot the sources share keeps the vector it holds until it is
\* delivered, while an edge of an enabled source finds or leaves a vector there:
\* ticks may be merged, but never so that none is delivered.
TimersKeepPace == [](ApicPeriodExact /\ HpetStaysAhead) /\ [][VectorKept]_timerVars
=============================================================================
