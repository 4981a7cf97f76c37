------------------------------ MODULE Pic8259 ------------------------------
(***************************************************************************)
(* One 8259A interrupt controller: `Pic` in crates/devices/src/pic.rs.     *)
(*                                                                         *)
(* The byte registers imr, irr and isr are sets of request lines 0..7 (bit *)
(* n of the register is the membership of n).  A byte written to a port is *)
(* a number in 0..255; BitsOf is the conversion between the two.           *)
(* The interrupt fabric built from two of these is module Interrupts.      *)
(***************************************************************************)
EXTENDS Naturals, FiniteSetsExt

Irqs == 0 .. 7
Byte == 0 .. 255

\* The set bits of the byte v.
BitsOf(v) == {n \in Irqs : (v \div 2^n) % 2 = 1}

InitStates == {"Idle", "ExpectIcw2", "ExpectIcw3", "ExpectIcw4"}

Pic == [vector_base : Byte,
        imr         : SUBSET Irqs,
        irr         : SUBSET Irqs,
        isr         : SUBSET Irqs,
        init_state  : InitStates,
        read_select : {"Irr", "Isr"}]

\* Pic::new: every line masked, nothing requested, nothing in service.
NewPic(base) == [vector_base |-> base, imr |-> Irqs, irr |-> {}, isr |-> {},
                 init_state |-> "Idle", read_select |-> "Irr"]

(***************************************************************************)
(* The CPU side: which request is delivered next, and the INTA cycle.      *)
(* A request is deliverable when it is neither masked nor itself in        *)
(* service; requests of lower priority than one in service are not held    *)
(* back.                                                                   *)
(***************************************************************************)
Candidates(p) == (p.irr \ p.imr) \ p.isr

HasPending(p) == Candidates(p) # {}

PendingIrq(p) == Min(Candidates(p))

Ack(p) ==
  IF HasPending(p)
  THEN [p EXCEPT !.irr = @ \ {PendingIrq(p)},
                 !.isr = @ \cup {PendingIrq(p)}]
  ELSE p

\* A level-triggered line: the request bit follows the level.
LatchLevel(p, n, up) == [p EXCEPT !.irr = IF up THEN @ \cup {n} ELSE @ \ {n}]

(***************************************************************************)
(* The guest side: end-of-interrupt commands and the two ports.            *)
(***************************************************************************)
NonSpecificEoi(p) ==
  IF p.isr = {} THEN p ELSE [p EXCEPT !.isr = @ \ {Min(@)}]

SpecificEoi(p, n) == [p EXCEPT !.isr = @ \ {n}]

\* ICW1 starts the initialisation sequence and clears the three registers.
Icw1(p) == [p EXCEPT !.init_state = "ExpectIcw2",
                     !.imr = {}, !.irr = {}, !.isr = {}]

\* OCW3: only the two read-register selections have an effect.
Ocw3(p, v) ==
  CASE v % 4 = 2 -> [p EXCEPT !.read_select = "Irr"]
    [] v % 4 = 3 -> [p EXCEPT !.read_select = "Isr"]
    [] OTHER     -> p

\* OCW2: bits 7:5 select the command; the rotating forms of an EOI are
\* treated as the plain ones.
Ocw2(p, v) ==
  CASE v \div 32 \in {1, 5} -> NonSpecificEoi(p)
    [] v \div 32 \in {3, 7} -> SpecificEoi(p, v % 8)
    [] OTHER                -> p

WriteCommand(p, v) ==
  CASE (v \div 16) % 2 = 1 -> Icw1(p)
    [] (v \div 8) % 4 = 1  -> Ocw3(p, v)
    [] OTHER               -> Ocw2(p, v)

WriteData(p, v) ==
  CASE p.init_state = "Idle"       -> [p EXCEPT !.imr = BitsOf(v)]
    [] p.init_state = "ExpectIcw2" -> [p EXCEPT !.vector_base = v - (v % 8),
                                                !.init_state = "ExpectIcw3"]
    [] p.init_state = "ExpectIcw3" -> [p EXCEPT !.init_state = "ExpectIcw4"]
    [] p.init_state = "ExpectIcw4" -> [p EXCEPT !.init_state = "Idle"]

=============================================================================
