------------------------------- MODULE MCTlb -------------------------------
(***************************************************************************)
(* An instance of Tlb for TLC: two page directories, one page table, one   *)
(* page that a PDE maps directly or through the table, and two frames that *)
(* differ in address bit 20.                                               *)
(***************************************************************************)
EXTENDS Tlb

MCPdeValues == {[p |-> TRUE, rw |-> TRUE, ps |-> FALSE, table |-> 1],
                [p |-> TRUE, rw |-> FALSE, ps |-> TRUE, table |-> 1]}

MCPteValues == {[p |-> FALSE, rw |-> FALSE, frame |-> 1],
                [p |-> TRUE, rw |-> TRUE, frame |-> 2],
                [p |-> TRUE, rw |-> FALSE, frame |-> 1]}

MCLarge == <<[i \in Idxs |-> 2]>>
MCA20Mask == [f \in Frames |-> 1]
MCSlotOf == [page \in Pages |-> "way0"]
=============================================================================
