----------------------------- MODULE Admission -----------------------------
(***************************************************************************)
(* What the proxy's connection gate promises: connections come and go, and *)
(* neither the total nor the number of one peer ever passes its cap.  A    *)
(* cap of zero means unlimited.  How the promise is kept, with a semaphore *)
(* and a table of counters that change at different moments, is module     *)
(* Gate.                                                                   *)
(***************************************************************************)
EXTENDS Naturals, FiniteSets

CONSTANTS Conns, Ips, IpOf, MaxConns, MaxPerIp

VARIABLE live   \* connections being served

OfPeer(set, ip) == {c \in set : IpOf[c] = ip}

Within(cap, set) == cap = 0 \/ Cardinality(set) <= cap

AdmissionInit == live = {}

Admit(c) ==
  /\ c \notin live
  /\ live' = live \cup {c}
  /\ Within(MaxConns, live')
  /\ Within(MaxPerIp, OfPeer(live', IpOf[c]))

Leave(c) ==
  /\ c \in live
  /\ live' = live \ {c}

AdmissionNext == \E c \in Conns : Admit(c) \/ Leave(c)

AdmissionSpec == AdmissionInit /\ [][AdmissionNext]_live
=============================================================================
