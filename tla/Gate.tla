-------------------------------- MODULE Gate --------------------------------
(***************************************************************************)
(* The concurrency gate of the WebSocket proxy (crates/proxy/src/main.rs): *)
(* a semaphore for the total and a table of counters per peer address.     *)
(*                                                                         *)
(* The accept loop serves one connection at a time: it takes a permit,     *)
(* then locks the table.  A connection's task ends on another thread: the  *)
(* destructor of ConnGuard decrements the counter, and only then is the    *)
(* permit, a field of the guard, returned.  So four steps of any number of *)
(* connections interleave.                                                 *)
(***************************************************************************)
EXTENDS Naturals, FiniteSets

CONSTANTS
  Conns,      \* identities of connections
  Ips,        \* peer addresses
  IpOf,       \* [Conns -> Ips]
  MaxConns,   \* WWWVM_PROXY_MAX_CONNS, 0 = unlimited
  MaxPerIp    \* WWWVM_PROXY_MAX_CONNS_PER_IP, 0 = unlimited

ASSUME GateAssumption ==
  /\ IsFiniteSet(Conns)
  /\ IpOf \in [Conns -> Ips]
  /\ MaxConns \in Nat
  /\ MaxPerIp \in Nat

VARIABLES
  stage,    \* "idle", "permit" (in try_acquire), "live", "dropping"
  avail,    \* permits left in the semaphore
  per_ip    \* counters; 0 stands for an absent entry

vars == <<stage, avail, per_ip>>

Stages == {"idle", "permit", "live", "dropping"}
InStage(s) == {c \in Conns : stage[c] = s}
Live == InStage("live")

\* Connections that hold a permit.
Holders == {c \in Conns : stage[c] # "idle"}

TypeOK ==
  /\ stage \in [Conns -> Stages]
  /\ avail \in Nat
  /\ per_ip \in [Ips -> Nat]

Init ==
  /\ stage = [c \in Conns |-> "idle"]
  /\ avail = MaxConns
  /\ per_ip = [ip \in Ips |-> 0]

-----------------------------------------------------------------------------
\* try_acquire, first half.  An accepted socket that finds no permit is
\* dropped and leaves no trace.
TakePermit(c) ==
  /\ stage[c] = "idle" /\ InStage("permit") = {}
  /\ MaxConns = 0 \/ avail > 0
  /\ avail' = IF MaxConns = 0 THEN avail ELSE avail - 1
  /\ stage' = [stage EXCEPT ![c] = "permit"]
  /\ UNCHANGED per_ip

\* Give the permit back.
PermitReturned == IF MaxConns = 0 THEN avail ELSE avail + 1

OverCap(c) == MaxPerIp > 0 /\ per_ip[IpOf[c]] >= MaxPerIp

\* try_acquire, second half, under the table's lock.
CountPeerOffByOne(c) ==
  /\ stage[c] = "permit" /\ ~(MaxPerIp > 0 /\ per_ip[IpOf[c]] > MaxPerIp)
  /\ per_ip' = [per_ip EXCEPT ![IpOf[c]] = @ + 1]
  /\ stage' = [stage EXCEPT ![c] = "live"]
  /\ UNCHANGED avail

CountPeer(c) ==
  /\ stage[c] = "permit" /\ ~OverCap(c)
  /\ per_ip' = [per_ip EXCEPT ![IpOf[c]] = @ + 1]
  /\ stage' = [stage EXCEPT ![c] = "live"]
  /\ UNCHANGED avail

RejectPeerLeakingPermit(c) ==
  /\ stage[c] = "permit" /\ OverCap(c)
  /\ stage' = [stage EXCEPT ![c] = "idle"]
  /\ UNCHANGED <<avail, per_ip>>

RejectPeer(c) ==
  /\ stage[c] = "permit" /\ OverCap(c)
  /\ avail' = PermitReturned
  /\ stage' = [stage EXCEPT ![c] = "idle"]
  /\ UNCHANGED per_ip

DropGuard(c) ==
  /\ stage[c] = "live"
  /\ per_ip' = [per_ip EXCEPT ![IpOf[c]] = @ - 1]
  /\ stage' = [stage EXCEPT ![c] = "dropping"]
  /\ UNCHANGED avail

\* ... then its field, the permit.
ReleasePermit(c) ==
  /\ stage[c] = "dropping"
  /\ avail' = PermitReturned
  /\ stage' = [stage EXCEPT ![c] = "idle"]
  /\ UNCHANGED per_ip

Next ==
  \E c \in Conns :
    \/ TakePermit(c)
    \/ CountPeer(c)
    \/ RejectPeer(c)
    \/ DropGuard(c)
    \/ ReleasePermit(c)

Spec == Init /\ [][Next]_vars

-----------------------------------------------------------------------------
(***************************************************************************)
(* Properties                                                              *)
(***************************************************************************)
\* No permit is lost or duplicated on any path, a rejection by the peer cap
\* included: what is left plus what is held is the configured total.
PermitsConserved ==
  MaxConns > 0 => avail + Cardinality(Holders) = MaxConns

\* Each counter is the number of connections of that peer that are served, so
\* that none underflows, sticks, or outlives the last connection.
CountersExact ==
  \A ip \in Ips : per_ip[ip] = Cardinality({c \in Live : IpOf[c] = ip})

\* The semaphore and the counters change at different moments of a connection's
\* life and still both agree with the connections at every step.
BooksBalance == PermitsConserved /\ CountersExact

\* The gate implements the admission policy: whatever the interleaving, a
\* connection is served only while both caps allow it.
Policy == INSTANCE Admission WITH live <- Live

AdmissionPolicy == Policy!AdmissionSpec
=============================================================================
