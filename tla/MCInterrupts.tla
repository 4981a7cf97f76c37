---------------------------- MODULE MCInterrupts ----------------------------
(***************************************************************************)
(* Three guests for module Interrupts: one that acknowledges first and does*)
(* not nest, one whose handlers nest before their specific EOI, and one    *)
(* whose host restores a snapshot into a running machine.                  *)
(***************************************************************************)
EXTENDS Interrupts

Plain == [devices |-> {"kbd", "nic"}, nest |-> 1, early |-> FALSE,
          eoi |-> "nonspecific", masks |-> {0, 255}, restores |-> 0]
Nesting == [Plain EXCEPT !.nest = 2, !.early = TRUE, !.eoi = "specific",
                         !.masks = {0}]
Restored == [Plain EXCEPT !.devices = {"kbd", "mouse"}, !.masks = {0},
                           !.restores = 1]

MCGuests == {Plain, Nesting, Restored}
=============================================================================
