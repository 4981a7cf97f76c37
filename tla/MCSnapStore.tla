---------------------------- MODULE MCSnapStore ----------------------------
(***************************************************************************)
(* Two uploaders under one id; their snapshots share a base page.          *)
(***************************************************************************)
EXTENDS SnapStore, TLC

CONSTANTS u1, u2, base, dirty1, dirty2, alpha, t1, t2, t3, t4

MCIdOf == (u1 :> alpha) @@ (u2 :> alpha)

MCTmpOf == (base :> t1) @@ (dirty1 :> t2) @@ (dirty2 :> t3) @@ (alpha :> t4)

\* Uploads that keep out of each other's way in the temporary names ...
Exclusive == [pages |-> (u1 :> <<base, dirty1>>) @@ (u2 :> <<base, dirty2>>),
              chunks |-> 2, exclusive |-> TRUE, cut |-> FALSE]
\* ... and uploads of one page that do not.
Overlapping == [pages |-> (u1 :> <<base>>) @@ (u2 :> <<base>>),
                chunks |-> 1, exclusive |-> FALSE, cut |-> TRUE]

MCModes == {Exclusive, Overlapping}
MCOverlapping == {Overlapping}
=============================================================================
