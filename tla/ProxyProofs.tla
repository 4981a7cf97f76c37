----------------------------- MODULE ProxyProofs -----------------------------
(***************************************************************************)
(* The gate keeps its books and implements the admission policy, for every *)
(* set of connections and peers and every pair of caps; and every tunnel   *)
(* of the proxy is bounded in bytes and in silence, for all sizes of       *)
(* chunks, all caps, timeouts and periods.                                 *)
(***************************************************************************)
EXTENDS Proxy, FiniteSetTheorems, TLAPS

-----------------------------------------------------------------------------
(* The gate.                                                               *)

\* The inductive invariant.  PermitsConserved bounds the connections served
\* by the total, CountersExact those of one peer; neither cap is guarded
\* directly when a connection becomes live.
GateInv == TypeOK /\ PermitsConserved /\ CountersExact

(***************************************************************************)
(* All the sets counted here are finite.                                   *)
(***************************************************************************)
LEMMA SubsetsFinite ==
  ASSUME NEW S \in SUBSET Conns
  PROVE  IsFiniteSet(S) /\ Cardinality(S) \in Nat
BY FS_Subset, FS_CardinalityType, GateAssumption, Zenon

(***************************************************************************)
(* Adding or removing one element changes a cardinality by one.            *)
(***************************************************************************)
LEMMA AddOne ==
  ASSUME NEW S \in SUBSET Conns, NEW c \in Conns \ S
  PROVE  Cardinality(S \cup {c}) = Cardinality(S) + 1
BY SubsetsFinite, FS_AddElement, Zenon

LEMMA RemoveOne ==
  ASSUME NEW S \in SUBSET Conns, NEW c \in S
  PROVE  Cardinality(S \ {c}) = Cardinality(S) - 1
BY SubsetsFinite, FS_RemoveElement, Zenon

LEMMA InitInv == Init => GateInv
<1> SUFFICES ASSUME Init PROVE GateInv
  BY Zenon
<1>1. Holders = {} /\ \A ip \in Ips : {c \in Live : IpOf[c] = ip} = {}
  BY Zenon DEF Init, Holders, Live, InStage
<1>2. Cardinality({}) = 0
  BY FS_EmptySet, Zenon
<1>3. TypeOK
  BY GateAssumption, Zenon DEF Init, TypeOK, Stages
<1>4. PermitsConserved
  BY <1>1, <1>2, GateAssumption DEF Init, PermitsConserved
<1>5. CountersExact
  BY <1>1, <1>2, Zenon DEF Init, CountersExact
<1> QED
  BY <1>3, <1>4, <1>5, Zenon DEF GateInv

(***************************************************************************)
(* What each step does to the two sets that are counted.                   *)
(***************************************************************************)
LEMMA TakePermitStep ==
  ASSUME GateInv, NEW c \in Conns, TakePermit(c)
  PROVE  GateInv' /\ Live' = Live
<1>1. TypeOK'
  BY GateAssumption DEF TakePermit, GateInv, TypeOK, Stages
<1>2. Holders' = Holders \cup {c} /\ c \in Conns \ Holders
  BY Zenon DEF TakePermit, Holders, GateInv, TypeOK, Stages
<1>3. Cardinality(Holders') = Cardinality(Holders) + 1 /\ Cardinality(Holders) \in Nat
  BY <1>2, AddOne, SubsetsFinite, Zenon DEF Holders
<1>4. Live' = Live
  BY Zenon DEF TakePermit, Live, InStage, GateInv, TypeOK, Stages
<1>5. PermitsConserved'
  BY <1>3, GateAssumption DEF TakePermit, PermitsConserved, GateInv, TypeOK
<1>6. CountersExact'
  BY <1>4, Zenon DEF TakePermit, CountersExact, GateInv
<1> QED
  BY <1>1, <1>4, <1>5, <1>6, Zenon DEF GateInv

LEMMA CountPeerStep ==
  ASSUME GateInv, NEW c \in Conns, CountPeer(c)
  PROVE  GateInv' /\ Live' = Live \cup {c} /\ c \in Conns \ Live /\ Holders' = Holders
<1>1. TypeOK'
  <2>1. IpOf[c] \in Ips /\ per_ip[IpOf[c]] + 1 \in Nat
    BY GateAssumption DEF GateInv, TypeOK
  <2>2. per_ip' \in [Ips -> Nat]
    BY <2>1, Zenon DEF CountPeer, GateInv, TypeOK
  <2> QED
    BY <2>2, Zenon DEF CountPeer, GateInv, TypeOK, Stages
<1>2. Holders' = Holders
  BY Zenon DEF CountPeer, Holders, GateInv, TypeOK, Stages
<1>3. Live' = Live \cup {c} /\ c \in Conns \ Live
  BY Zenon DEF CountPeer, Live, InStage, GateInv, TypeOK, Stages
<1>4. PermitsConserved'
  BY <1>2, Zenon DEF CountPeer, PermitsConserved, GateInv
<1>5. CountersExact'
  <2> SUFFICES ASSUME NEW ip \in Ips
               PROVE  per_ip'[ip] = Cardinality({d \in Live' : IpOf[d] = ip})
    BY Zenon DEF CountersExact
  <2>1. {d \in Live : IpOf[d] = ip} \in SUBSET Conns
    BY Zenon DEF Live, InStage
  <2>2. per_ip[ip] = Cardinality({d \in Live : IpOf[d] = ip}) /\ per_ip[ip] \in Nat
    BY Zenon DEF GateInv, CountersExact, TypeOK
  <2>3. CASE ip = IpOf[c]
    <3>1. {d \in Live' : IpOf[d] = ip} = {d \in Live : IpOf[d] = ip} \cup {c}
      BY <1>3, <2>3, Zenon
    <3>2. Cardinality({d \in Live' : IpOf[d] = ip}) = Cardinality({d \in Live : IpOf[d] = ip}) + 1
      BY <1>3, <2>1, <3>1, AddOne, Zenon
    <3> QED
      BY <2>2, <2>3, <3>2, Zenon DEF CountPeer, GateInv, TypeOK
  <2>4. CASE ip # IpOf[c]
    <3>1. {d \in Live' : IpOf[d] = ip} = {d \in Live : IpOf[d] = ip}
      BY <1>3, <2>4, Zenon
    <3> QED
      BY <2>2, <2>4, <3>1, Zenon DEF CountPeer, GateInv, TypeOK
  <2> QED
    BY <2>3, <2>4, Zenon
<1> QED
  BY <1>1, <1>2, <1>3, <1>4, <1>5, Zenon DEF GateInv

LEMMA RejectPeerStep ==
  ASSUME GateInv, NEW c \in Conns, RejectPeer(c) \/ ReleasePermit(c)
  PROVE  GateInv' /\ Live' = Live
<1> USE DEF RejectPeer, ReleasePermit, PermitReturned
<1>1. TypeOK'
  BY GateAssumption DEF GateInv, TypeOK, Stages
<1>2. Holders' = Holders \ {c} /\ c \in Holders
  BY Zenon DEF Holders, GateInv, TypeOK, Stages
<1>3. Cardinality(Holders') = Cardinality(Holders) - 1 /\ Cardinality(Holders) \in Nat
  BY <1>2, RemoveOne, SubsetsFinite, Zenon DEF Holders
<1>4. Live' = Live
  BY Zenon DEF Live, InStage, GateInv, TypeOK, Stages
<1>5. PermitsConserved'
  BY <1>3, GateAssumption DEF PermitsConserved, GateInv, TypeOK
<1>6. CountersExact'
  BY <1>4, Zenon DEF CountersExact, GateInv
<1> QED
  BY <1>1, <1>4, <1>5, <1>6, Zenon DEF GateInv

LEMMA DropGuardStep ==
  ASSUME GateInv, NEW c \in Conns, DropGuard(c)
  PROVE  GateInv' /\ Live' = Live \ {c} /\ c \in Live
<1>1. Holders' = Holders
  BY Zenon DEF DropGuard, Holders, GateInv, TypeOK, Stages
<1>2. Live' = Live \ {c} /\ c \in Live
  BY Zenon DEF DropGuard, Live, InStage, GateInv, TypeOK, Stages
<1>3. PermitsConserved'
  BY <1>1, Zenon DEF DropGuard, PermitsConserved, GateInv
<1>4. ASSUME NEW ip \in Ips
      PROVE  /\ per_ip'[ip] = Cardinality({d \in Live' : IpOf[d] = ip})
             /\ Cardinality({d \in Live' : IpOf[d] = ip}) \in Nat
  <2>1. /\ {d \in Live : IpOf[d] = ip} \in SUBSET Conns
        /\ {d \in Live' : IpOf[d] = ip} \in SUBSET Conns
    BY <1>2, Zenon DEF Live, InStage
  <2>2. per_ip[ip] = Cardinality({d \in Live : IpOf[d] = ip}) /\ per_ip[ip] \in Nat
    BY Zenon DEF GateInv, CountersExact, TypeOK
  <2>3. CASE ip = IpOf[c]
    <3>1. /\ {d \in Live' : IpOf[d] = ip} = {d \in Live : IpOf[d] = ip} \ {c}
          /\ c \in {d \in Live : IpOf[d] = ip}
      BY <1>2, <2>3, Zenon
    <3>2. Cardinality({d \in Live' : IpOf[d] = ip}) = Cardinality({d \in Live : IpOf[d] = ip}) - 1
      BY <2>1, <3>1, RemoveOne, Zenon
    <3> QED
      BY <2>1, <2>2, <2>3, <3>2, SubsetsFinite, Zenon DEF DropGuard, GateInv, TypeOK
  <2>4. CASE ip # IpOf[c]
    <3>1. {d \in Live' : IpOf[d] = ip} = {d \in Live : IpOf[d] = ip}
      BY <1>2, <2>4, Zenon
    <3> QED
      BY <2>1, <2>2, <2>4, <3>1, SubsetsFinite, Zenon DEF DropGuard, GateInv, TypeOK
  <2> QED
    BY <2>3, <2>4, Zenon
<1>5. per_ip' \in [Ips -> Nat]
  <2>1. per_ip' = [ip \in Ips |-> per_ip'[ip]]
    BY Zenon DEF DropGuard, GateInv, TypeOK
  <2> QED
    BY <1>4, <2>1, Zenon
<1>6. TypeOK'
  BY <1>5, Zenon DEF DropGuard, GateInv, TypeOK, Stages
<1>7. CountersExact'
  BY <1>4, Zenon DEF CountersExact
<1> QED
  BY <1>2, <1>3, <1>6, <1>7, Zenon DEF GateInv

LEMMA NextInv == GateInv /\ [Next]_vars => GateInv'
<1> SUFFICES ASSUME GateInv, [Next]_vars PROVE GateInv'
  BY Zenon
<1>1. CASE UNCHANGED vars
  BY <1>1, Zenon DEF vars, GateInv, TypeOK, PermitsConserved, CountersExact, Holders, Live, InStage
<1>2. ASSUME NEW c \in Conns,
             \/ TakePermit(c) \/ CountPeer(c) \/ RejectPeer(c)
             \/ DropGuard(c) \/ ReleasePermit(c)
      PROVE  GateInv'
  BY <1>2, TakePermitStep, CountPeerStep, RejectPeerStep, DropGuardStep, Zenon
<1> QED
  BY <1>1, <1>2, Zenon DEF Next

(***************************************************************************)
(* The instance of Admission counts with its own copy of Cardinality.      *)
(***************************************************************************)
LEMMA SameCardinality ==
  ASSUME NEW S
  PROVE  Policy!Cardinality(S) = Cardinality(S)
BY Zenon DEF Policy!Cardinality, Cardinality

(***************************************************************************)
(* Every step of the gate is a step of the policy, or none.                *)
(***************************************************************************)
LEMMA NextRefines == GateInv /\ [Next]_vars => [Policy!AdmissionNext]_Live
<1> SUFFICES ASSUME GateInv, [Next]_vars PROVE [Policy!AdmissionNext]_Live
  BY Zenon
<1>1. CASE UNCHANGED vars
  BY <1>1, Zenon DEF vars, Live, InStage
<1>2. ASSUME NEW c \in Conns, TakePermit(c) \/ RejectPeer(c) \/ ReleasePermit(c)
      PROVE  Live' = Live
  BY <1>2, TakePermitStep, RejectPeerStep, Zenon
<1>3. ASSUME NEW c \in Conns, DropGuard(c)
      PROVE  Policy!Leave(c)
  BY <1>3, DropGuardStep, Zenon DEF Policy!Leave
<1>4. ASSUME NEW c \in Conns, CountPeer(c)
      PROVE  Policy!Admit(c)
  <2>1. GateInv' /\ Live' = Live \cup {c} /\ c \in Conns \ Live
    BY <1>4, CountPeerStep, Zenon
  <2>2. Live' \in SUBSET Holders' /\ Holders' \in SUBSET Conns
    BY Zenon DEF Live, InStage, Holders
  <2>3. Policy!Within(MaxConns, Live')
    <3>1. Cardinality(Live') <= Cardinality(Holders') /\ Cardinality(Holders') \in Nat
      BY <2>2, SubsetsFinite, FS_Subset, Zenon
    <3>2. MaxConns > 0 => avail' + Cardinality(Holders') = MaxConns
      BY <2>1, Zenon DEF GateInv, PermitsConserved
    <3>3. avail' \in Nat /\ Cardinality(Live') \in Nat
      BY <2>1, <2>2, SubsetsFinite, Zenon DEF GateInv, TypeOK
    <3> QED
      BY <3>1, <3>2, <3>3, GateAssumption, SameCardinality DEF Policy!Within
  <2>4. Policy!Within(MaxPerIp, Policy!OfPeer(Live', IpOf[c]))
    <3> DEFINE ip == IpOf[c]
    <3>1. ip \in Ips /\ per_ip[ip] \in Nat
      BY GateAssumption, Zenon DEF GateInv, TypeOK
    <3>2. per_ip'[ip] = Cardinality({d \in Live' : IpOf[d] = ip})
      BY <2>1, <3>1, Zenon DEF GateInv, CountersExact
    <3>3. per_ip'[ip] = per_ip[ip] + 1 /\ ~(MaxPerIp > 0 /\ per_ip[ip] >= MaxPerIp)
      BY <1>4, <3>1, Zenon DEF CountPeer, OverCap, GateInv, TypeOK
    <3> QED
      BY <3>1, <3>2, <3>3, GateAssumption, SameCardinality DEF Policy!Within, Policy!OfPeer
  <2> QED
    BY <2>1, <2>3, <2>4, Zenon DEF Policy!Admit
<1> QED
  BY <1>1, <1>2, <1>3, <1>4, Zenon DEF Next, Policy!AdmissionNext

-----------------------------------------------------------------------------
\* The gate's books are right in every reachable state: permits are conserved
\* and every peer's counter is the number of its connections being served.
THEOREM GateBooks == Spec => [](TypeOK /\ BooksBalance)
<1>1. GateInv => TypeOK /\ BooksBalance
  BY Zenon DEF GateInv, BooksBalance
<1> QED
  BY <1>1, InitInv, NextInv, PTL DEF Spec

\* try_acquire and the destructor of ConnGuard, step by step and in any
\* interleaving, implement the admission policy with both caps.
THEOREM GateImplementsPolicy == Spec => AdmissionPolicy
<1>1. Init => Policy!AdmissionInit
  BY Zenon DEF Init, Policy!AdmissionInit, Live, InStage
<1> QED
  BY <1>1, InitInv, NextInv, NextRefines, PTL
     DEF Spec, AdmissionPolicy, Policy!AdmissionSpec

\* Every step of the proxy is a step of its gate, or leaves the gate alone.
LEMMA ProxyIsGated == ProxySpec => Spec
<1>1. ProxyInit => Init
  BY Zenon DEF ProxyInit
<1>2. ASSUME [ProxyNext]_proxyVars
      PROVE  [Next]_vars
  <2>1. CASE Others
    BY <2>1, Zenon DEF Others, Next
  <2>2. CASE AtGate
    BY <2>2, ProxyAssumption, Zenon DEF AtGate, Next
  <2>3. CASE Spawn
    BY <2>3, ProxyAssumption, Zenon DEF Spawn, Next
  <2>4. CASE Served(SessionNext)
    BY <2>4, Zenon DEF Served
  <2>5. CASE TaskEnds
    BY <2>5, ProxyAssumption, Zenon DEF TaskEnds, Next
  <2>6. CASE UNCHANGED proxyVars
    BY <2>6, Zenon DEF proxyVars
  <2> QED
    BY <1>2, <2>1, <2>2, <2>3, <2>4, <2>5, <2>6, Zenon DEF ProxyNext
<1> QED
  BY <1>1, <1>2, PTL DEF ProxySpec, Spec

\* The gate's promises hold of the proxy as a whole, where the end of a
\* session, and nothing else, drops the guard.
THEOREM ProxyAdmits == ProxySpec => []BooksBalance /\ AdmissionPolicy
<1>1. TypeOK /\ BooksBalance => BooksBalance
  BY Zenon
<1> QED
  BY <1>1, ProxyIsGated, GateBooks, GateImplementsPolicy, PTL

-----------------------------------------------------------------------------
(* The session.                                                            *)

\* What a direction that was ended by an error may have added beyond the cap.
Excess(d) == IF d.at = "err" THEN MaxSize ELSE 0

States == {"read", "write", "done", "err"}

Clients ==
  [sent : Seq(Frame), left : Nat, fin : BOOLEAN, gone : BOOLEAN, got : Nat, told : BOOLEAN]
Hosts ==
  [sent : Seq(Sizes), left : Nat, eof : BOOLEAN, reset : BOOLEAN, total : Nat, shut : BOOLEAN]
Ups == [at : States, size : Nat, kind : Frames \cup {"data"}]
Downs == [at : States, size : Nat]

SessionTypes ==
  /\ phase \in {"handshake", "frame", "opening", "relay", "closed"}
  /\ client \in Clients
  /\ host \in Hosts
  /\ up \in Ups
  /\ down \in Downs
  /\ up.at = "write" => up.size \in Sizes
  /\ down.at = "write" => down.size \in Sizes
  /\ counted \in Nat /\ quiet \in Nat /\ watch \in 0 .. Period

\* The strengthening.  Each direction crosses the cap at most once, because
\* the write that does ends it; and silence grows only as fast as the time to
\* the watchdog's next look shrinks.
SessionInv ==
  /\ SessionTypes
  /\ MaxBytes > 0 => counted <= MaxBytes + Excess(up) + Excess(down)
  /\ phase \in {"handshake", "frame", "opening"} => quiet = 0 /\ watch = Period
  /\ phase = "relay" /\ Idle > 0 => quiet + watch <= Idle + Period

LEMMA Numbers ==
  /\ MaxFrames \in Nat /\ MaxReply \in Nat /\ MaxBytes \in Nat /\ Idle \in Nat
  /\ Period \in Nat /\ Period > 0
BY SessionAssumption

LEMMA MaxSizeIs == MaxSize \in Nat /\ \A n \in Sizes : n \in Nat /\ n <= MaxSize
BY SessionAssumption, Zenon DEF MaxSize

LEMMA InvBounds == SessionInv => TunnelBounded
<1> SUFFICES ASSUME SessionInv PROVE TunnelBounded
  BY Zenon
<1>1. CapBounded
  <2>1. Excess(up) \in Nat /\ Excess(up) <= MaxSize /\ Excess(down) \in Nat /\ Excess(down) <= MaxSize
    BY MaxSizeIs DEF Excess
  <2> QED
    BY <2>1, MaxSizeIs, Numbers DEF SessionInv, SessionTypes, CapBounded
<1>2. IdleBounded
  BY Numbers DEF SessionInv, SessionTypes, IdleBounded
<1> QED
  BY <1>1, <1>2, Zenon DEF TunnelBounded

LEMMA StartsInv == SessionStarts => SessionInv'
<1> SUFFICES ASSUME SessionStarts PROVE SessionInv'
  BY Zenon
<1>1. <<>> \in Seq(Frame) /\ <<>> \in Seq(Sizes)
  OBVIOUS
<1>2. NewClient \in Clients
  BY <1>1, Numbers, Zenon DEF NewClient, Clients
<1>3. NewHost \in Hosts
  BY <1>1, Numbers, Zenon DEF NewHost, Hosts
<1>4. NewUp \in Ups /\ NewUp.at = "read" /\ NewDown \in Downs /\ NewDown.at = "read"
  BY Zenon DEF NewUp, NewDown, Ups, Downs, States
<1>5. SessionTypes'
  BY <1>2, <1>3, <1>4, Numbers DEF SessionStarts, SessionTypes
<1>6. Excess(up)' = 0 /\ Excess(down)' = 0
  BY <1>4, Zenon DEF Excess, SessionStarts
<1> QED
  BY <1>5, <1>6, Numbers DEF SessionStarts, SessionInv

LEMMA OpeningInv ==
  ASSUME SessionInv, Handshake \/ ConnectFrame \/ OpenUpstream \/ Join
  PROVE  SessionInv'
<1>1. /\ UNCHANGED <<host, up, down, counted, quiet, watch>> /\ client'.sent = client.sent
      /\ phase' \in {"frame", "opening", "relay", "closed"}
      /\ phase' # "closed" => phase \in {"handshake", "frame", "opening"}
  BY Zenon DEF Handshake, ConnectFrame, OpenUpstream, Join, Refuse, End, SessionInv, SessionTypes, Clients
<1>2. client' \in Clients
  BY Zenon DEF Handshake, ConnectFrame, OpenUpstream, Join, Refuse, End, SessionInv, SessionTypes, Clients
<1>3. SessionTypes'
  BY <1>1, <1>2, Zenon DEF SessionInv, SessionTypes
<1>4. MaxBytes > 0 => counted' <= MaxBytes + Excess(up)' + Excess(down)'
  BY <1>1, Zenon DEF SessionInv, Excess
<1> QED
  BY <1>1, <1>3, <1>4, Numbers DEF SessionInv

LEMMA UpInv ==
  ASSUME SessionInv, UpRead \/ UpEnds \/ UpFails \/ UpWrite
  PROVE  SessionInv'
<1>1. CASE UpRead
  <2>1. Head(client.sent) \in Frame /\ Tail(client.sent) \in Seq(Frame)
    BY <1>1 DEF UpRead, SessionInv, SessionTypes, Clients
  <2>2. client' \in Clients /\ host' \in Hosts
    BY <1>1, <2>1, Zenon DEF UpRead, SessionInv, SessionTypes, Clients, Hosts
  <2>3. /\ up' \in Ups /\ (up'.at = "write" => up'.size \in Sizes)
        /\ up.at = "read" /\ up'.at \in {"done", "write"}
    <3>1. PICK f \in Frame : f = Head(client.sent)
      BY <2>1, Zenon
    <3>2. CASE f.kind \in {"FIN", "Close"}
      BY <1>1, <3>1, <3>2, Zenon DEF UpRead, SessionInv, SessionTypes, Ups, States
    <3>3. CASE f.kind \notin {"FIN", "Close"}
      <4>1. f.kind \in Frames /\ f.size \in Sizes /\ f.size \in Nat
        BY <3>3, MaxSizeIs, Zenon DEF Frame
      <4>2. up' = [at |-> "write", size |-> f.size, kind |-> f.kind] /\ up.at = "read"
        BY <1>1, <3>1, <3>3, Zenon DEF UpRead
      <4> QED
        BY <4>1, <4>2, Zenon DEF Ups, States
    <3> QED
      BY <3>2, <3>3, Zenon
  <2>4. UNCHANGED <<phase, down, counted, quiet, watch>>
    BY <1>1, Zenon DEF UpRead
  <2>5. Excess(up)' = Excess(up) /\ Excess(down)' = Excess(down)
    BY <2>3, <2>4, Zenon DEF Excess
  <2> QED
    BY <2>2, <2>3, <2>4, <2>5, Zenon DEF SessionInv, SessionTypes
<1>2. CASE UpEnds \/ UpFails
  <2>1. /\ up' \in Ups /\ up'.at \in {"done", "err"} /\ up.at \in {"read", "write"}
        /\ host' \in Hosts
    BY <1>2, Zenon DEF UpEnds, UpFails, SessionInv, SessionTypes, Ups, Hosts, States
  <2>2. UNCHANGED <<phase, client, down, counted, quiet, watch>>
    BY <1>2, Zenon DEF UpEnds, UpFails
  <2>3. Excess(up) = 0 /\ Excess(up)' \in Nat /\ Excess(down)' = Excess(down) /\ Excess(down) \in Nat
    BY <2>1, <2>2, MaxSizeIs, Zenon DEF Excess
  <2> QED
    BY <2>1, <2>2, <2>3, Numbers DEF SessionInv, SessionTypes
<1>3. CASE UpWrite
  <2>1. /\ up.at = "write" /\ up.size \in Nat /\ up.size <= MaxSize /\ Excess(up) = 0
        /\ counted' \in Nat /\ counted' <= counted + up.size
        /\ quiet' = 0 /\ UNCHANGED <<phase, client, down, watch>>
    BY <1>3, MaxSizeIs DEF UpWrite, SessionInv, SessionTypes, Excess
  <2>2. up' \in Ups /\ up'.at \in {"err", "read"} /\ host' \in Hosts
    BY <1>3, Zenon DEF UpWrite, SessionInv, SessionTypes, Ups, Hosts, States
  <2>3. MaxBytes > 0 => counted' <= MaxBytes \/ up'.at = "err" \/ counted' = counted
    BY <1>3, <2>1, Numbers DEF UpWrite, OverBytes, SessionInv, SessionTypes, Ups
  <2>4. Excess(down)' = Excess(down) /\ Excess(down) \in Nat /\ Excess(up)' \in Nat
        /\ (up'.at = "err" => Excess(up)' = MaxSize)
    BY <2>1, MaxSizeIs, Zenon DEF Excess
  <2>5. MaxBytes > 0 => counted' <= MaxBytes + Excess(up)' + Excess(down)'
    BY <2>1, <2>3, <2>4, Numbers, MaxSizeIs DEF SessionInv, SessionTypes
  <2> QED
    BY <2>1, <2>2, <2>5, Numbers DEF SessionInv, SessionTypes
<1> QED
  BY <1>1, <1>2, <1>3, Zenon

LEMMA DownInv ==
  ASSUME SessionInv, DownRead \/ DownEnds \/ DownFails \/ DownWrite
  PROVE  SessionInv'
<1>1. CASE DownRead
  <2>1. Head(host.sent) \in Sizes /\ Tail(host.sent) \in Seq(Sizes)
    BY <1>1 DEF DownRead, SessionInv, SessionTypes, Hosts
  <2>2. host' \in Hosts /\ UNCHANGED <<phase, client, up, counted, quiet, watch>>
    BY <1>1, <2>1, Zenon DEF DownRead, SessionInv, SessionTypes, Hosts
  <2>3. down' \in Downs /\ down'.size \in Sizes /\ down.at = "read" /\ down'.at = "write"
    BY <1>1, <2>1, MaxSizeIs, Zenon DEF DownRead, Downs, States
  <2>4. Excess(up)' = Excess(up) /\ Excess(down)' = Excess(down)
    BY <2>2, <2>3, Zenon DEF Excess
  <2> QED
    BY <2>2, <2>3, <2>4, Zenon DEF SessionInv, SessionTypes
<1>2. CASE DownEnds \/ DownFails
  <2>1. down' \in Downs /\ down'.at \in {"done", "err"} /\ down.at \in {"read", "write"}
    BY <1>2, Zenon DEF DownEnds, DownFails, SessionInv, SessionTypes, Downs, States
  <2>2. UNCHANGED <<phase, client, host, up, counted, quiet, watch>>
    BY <1>2, Zenon DEF DownEnds, DownFails
  <2>3. Excess(down) = 0 /\ Excess(down)' \in Nat /\ Excess(up)' = Excess(up) /\ Excess(up) \in Nat
    BY <2>1, <2>2, MaxSizeIs, Zenon DEF Excess
  <2> QED
    BY <2>1, <2>2, <2>3, Numbers DEF SessionInv, SessionTypes
<1>3. CASE DownWrite
  <2>1. /\ down.at = "write" /\ down.size \in Nat /\ down.size <= MaxSize /\ Excess(down) = 0
        /\ counted' = counted + down.size /\ quiet' = 0 /\ UNCHANGED <<phase, host, up, watch>>
    BY <1>3, MaxSizeIs, Zenon DEF DownWrite, SessionInv, SessionTypes, Excess
  <2>2. down' \in Downs /\ down'.at \in {"err", "read"} /\ client' \in Clients
    <3>1. PICK n \in Nat : n = client.got + down.size
      BY <2>1 DEF SessionInv, SessionTypes, Clients
    <3>2. client' = [client EXCEPT !.got = n] /\ \E a \in {"err", "read"} : down' = [down EXCEPT !.at = a]
      BY <1>3, <3>1, Zenon DEF DownWrite
    <3>3. client \in Clients /\ down \in Downs
      BY Zenon DEF SessionInv, SessionTypes
    <3>4. client' \in Clients
      BY <3>1, <3>2, <3>3, Zenon DEF Clients
    <3>5. down' \in Downs /\ down'.at \in {"err", "read"}
      BY <3>2, <3>3, Zenon DEF Downs, States
    <3> QED
      BY <3>4, <3>5, Zenon
  <2>3. MaxBytes > 0 => counted' <= MaxBytes \/ down'.at = "err"
    BY <1>3, <2>1, Numbers DEF DownWrite, OverBytes, SessionInv, SessionTypes, Downs
  <2>4. Excess(up)' = Excess(up) /\ Excess(up) \in Nat /\ Excess(down)' \in Nat
        /\ (down'.at = "err" => Excess(down)' = MaxSize)
    BY <2>1, MaxSizeIs, Zenon DEF Excess
  <2>5. MaxBytes > 0 => counted' <= MaxBytes + Excess(up)' + Excess(down)'
    BY <2>1, <2>3, <2>4, Numbers, MaxSizeIs DEF SessionInv, SessionTypes
  <2> QED
    BY <2>1, <2>2, <2>5, Numbers DEF SessionInv, SessionTypes
<1> QED
  BY <1>1, <1>2, <1>3, Zenon

\* The watchdog and the passing of time.
LEMMA TimeInv ==
  ASSUME SessionInv, Watch \/ Pass
  PROVE  SessionInv'
<1>1. UNCHANGED <<client, host, up, down, counted>>
  BY Zenon DEF Watch, Pass
<1>2. Excess(up)' = Excess(up) /\ Excess(down)' = Excess(down)
  BY <1>1, Zenon DEF Excess
<1>3. /\ phase' \in {"frame", "relay", "closed"} /\ quiet' \in Nat /\ watch' \in 0 .. Period
      /\ phase' = "frame" => quiet' = 0 /\ watch' = Period
      /\ phase' = "relay" /\ Idle > 0 => quiet' + watch' <= Idle + Period
  BY Numbers DEF Watch, Pass, End, SessionInv, SessionTypes
<1> QED
  BY <1>1, <1>2, <1>3, Zenon DEF SessionInv, SessionTypes

LEMMA PeersInv ==
  ASSUME SessionInv, Peers
  PROVE  SessionInv'
<1>1. UNCHANGED <<phase, up, down, counted, quiet, watch>>
  BY Zenon DEF Peers, ClientSends, ClientGoes, HostSends, HostEnds, HostResets
<1>2. client' \in Clients
  <2>1. CASE ClientSends
    <3>1. PICK f \in Frame :
            client' = [client EXCEPT !.sent = Append(@, f), !.left = @ - 1, !.fin = f.kind \in {"FIN", "Close"}]
      BY <2>1, Zenon DEF ClientSends
    <3>2. Append(client.sent, f) \in Seq(Frame) /\ client.left - 1 \in Nat
      BY <2>1 DEF ClientSends, SessionInv, SessionTypes, Clients
    <3>3. (f.kind \in {"FIN", "Close"}) \in BOOLEAN
      OBVIOUS
    <3>4. client \in Clients
      BY Zenon DEF SessionInv, SessionTypes
    <3> QED
      BY <3>1, <3>2, <3>3, <3>4, Zenon DEF Clients
  <2>2. CASE ClientGoes
    BY <2>2, Zenon DEF ClientGoes, SessionInv, SessionTypes, Clients
  <2>3. CASE UNCHANGED client
    BY <2>3, Zenon DEF SessionInv, SessionTypes
  <2> QED
    BY <2>1, <2>2, <2>3, Zenon DEF Peers, HostSends, HostEnds, HostResets
<1>3. host' \in Hosts
  <2>1. CASE HostSends
    <3>1. PICK n \in Sizes : host' = [host EXCEPT !.sent = Append(@, n), !.left = @ - 1, !.total = @ + n]
      BY <2>1, Zenon DEF HostSends
    <3>2. Append(host.sent, n) \in Seq(Sizes) /\ host.left - 1 \in Nat /\ host.total + n \in Nat
      BY <2>1, MaxSizeIs DEF HostSends, SessionInv, SessionTypes, Hosts
    <3> QED
      BY <3>1, <3>2, Zenon DEF SessionInv, SessionTypes, Hosts
  <2>2. CASE HostEnds \/ HostResets
    <3>1. <<>> \in Seq(Sizes)
      OBVIOUS
    <3> QED
      BY <2>2, <3>1, Zenon DEF HostEnds, HostResets, SessionInv, SessionTypes, Hosts
  <2>3. CASE UNCHANGED host
    BY <2>3, Zenon DEF SessionInv, SessionTypes
  <2> QED
    BY <2>1, <2>2, <2>3, Zenon DEF Peers, ClientSends, ClientGoes
<1>4. Excess(up)' = Excess(up) /\ Excess(down)' = Excess(down)
  BY <1>1, Zenon DEF Excess
<1> QED
  BY <1>1, <1>2, <1>3, <1>4, Zenon DEF SessionInv, SessionTypes

LEMMA SessionInitInv == ProxyInit => SessionInv
<1> SUFFICES ASSUME SessionInit PROVE SessionInv
  BY Zenon DEF ProxyInit
<1>1. <<>> \in Seq(Frame) /\ <<>> \in Seq(Sizes)
  OBVIOUS
<1>2. NewClient \in Clients
  BY <1>1, Numbers, Zenon DEF NewClient, Clients
<1>3. NewHost \in Hosts
  BY <1>1, Numbers, Zenon DEF NewHost, Hosts
<1>4. NewUp \in Ups /\ NewUp.at = "read" /\ NewDown \in Downs /\ NewDown.at = "read"
  BY Zenon DEF NewUp, NewDown, Ups, Downs, States
<1>5. SessionTypes
  BY <1>2, <1>3, <1>4, Numbers DEF SessionInit, SessionTypes
<1>6. Excess(up) = 0 /\ Excess(down) = 0
  BY <1>4, Zenon DEF Excess, SessionInit
<1> QED
  BY <1>5, <1>6, Numbers DEF SessionInit, SessionInv

LEMMA ProxyNextInv == SessionInv /\ [ProxyNext]_proxyVars => SessionInv'
<1> SUFFICES ASSUME SessionInv, [ProxyNext]_proxyVars PROVE SessionInv'
  BY Zenon
<1>1. CASE SessionNext
  BY <1>1, OpeningInv, UpInv, DownInv, TimeInv, PeersInv, Zenon DEF SessionNext, Relay
<1>2. CASE SessionStarts
  BY <1>2, StartsInv, Zenon
<1>3. CASE UNCHANGED sessionVars
  BY <1>3, Zenon DEF sessionVars, SessionInv, SessionTypes, Excess
<1> QED
  BY <1>1, <1>2, <1>3, Zenon DEF ProxyNext, AtGate, Spawn, Served, TaskEnds, proxyVars

(***************************************************************************)
(* A tunnel moves at most two chunks beyond its byte cap, and is torn down *)
(* within the idle timeout plus one period of the watchdog after its last  *)
(* transfer, however its two directions interleave (ws_to_tcp, tcp_to_ws   *)
(* and the watchdog of handle).                                            *)
(***************************************************************************)
THEOREM TunnelsBounded == ProxySpec => []TunnelBounded
BY SessionInitInv, ProxyNextInv, InvBounds, PTL DEF ProxySpec

-----------------------------------------------------------------------------
(* What the client is sent.                                                *)

\* The numbers of s lead from a to b: f is the row of their partial sums.
Adds(a, s, b) ==
  \E f \in [0 .. Len(s) -> Nat] :
    /\ f[0] = a /\ f[Len(s)] = b
    /\ \A i \in 1 .. Len(s) : f[i] = f[i - 1] + s[i]

LEMMA AddsNothing ==
  /\ Adds(0, <<>>, 0)
  /\ \A a, b : Adds(a, <<>>, b) => a = b
<1>1. Adds(0, <<>>, 0)
  <2> DEFINE f == [i \in 0 .. 0 |-> 0]
  <2>1. f \in [0 .. Len(<<>>) -> Nat] /\ f[0] = 0 /\ f[Len(<<>>)] = 0
    OBVIOUS
  <2>2. \A i \in 1 .. Len(<<>>) : FALSE
    OBVIOUS
  <2> QED
    BY <2>1, <2>2, Zenon DEF Adds
<1> QED
  BY <1>1, Zenon DEF Adds

LEMMA AddsAppend ==
  ASSUME NEW a, NEW b \in Nat, NEW s \in Seq(Sizes), NEW n \in Sizes, Adds(a, s, b)
  PROVE  Adds(a, Append(s, n), b + n)
<1> DEFINE t == Append(s, n)
<1>1. PICK f \in [0 .. Len(s) -> Nat] :
        f[0] = a /\ f[Len(s)] = b /\ \A i \in 1 .. Len(s) : f[i] = f[i - 1] + s[i]
  BY Zenon DEF Adds
<1> DEFINE g == [i \in 0 .. Len(t) |-> IF i <= Len(s) THEN f[i] ELSE b + n]
<1>2. /\ Len(s) \in Nat /\ Len(t) = Len(s) + 1 /\ t[Len(s) + 1] = n
      /\ \A i \in 1 .. Len(s) : t[i] = s[i]
  OBVIOUS
<1>3. n \in Nat
  BY MaxSizeIs, Zenon
<1> HIDE DEF t
<1>4. g \in [0 .. Len(t) -> Nat] /\ g[0] = a /\ g[Len(t)] = b + n
  BY <1>1, <1>2, <1>3
<1>5. ASSUME NEW i \in 1 .. Len(t) PROVE g[i] = g[i - 1] + t[i]
  <2>1. CASE i <= Len(s)
    BY <1>1, <1>2, <2>1
  <2>2. CASE i = Len(s) + 1
    BY <1>1, <1>2, <2>2
  <2> QED
    BY <1>2, <2>1, <2>2
<1>6. Adds(a, t, b + n)
  BY <1>4, <1>5, Zenon DEF Adds
<1> QED
  BY <1>6, Zenon DEF t

LEMMA AddsTail ==
  ASSUME NEW a \in Nat, NEW b, NEW s \in Seq(Sizes), s # <<>>, Adds(a, s, b)
  PROVE  Adds(a + Head(s), Tail(s), b)
<1> DEFINE t == Tail(s)
<1>1. PICK f \in [0 .. Len(s) -> Nat] :
        f[0] = a /\ f[Len(s)] = b /\ \A i \in 1 .. Len(s) : f[i] = f[i - 1] + s[i]
  BY Zenon DEF Adds
<1> DEFINE g == [i \in 0 .. Len(t) |-> f[i + 1]]
<1>2. /\ Len(s) \in Nat \ {0} /\ Len(t) = Len(s) - 1 /\ Head(s) = s[1]
      /\ \A i \in 1 .. Len(t) : t[i] = s[i + 1]
  OBVIOUS
<1> HIDE DEF t
<1>3. g \in [0 .. Len(t) -> Nat] /\ g[0] = a + Head(s) /\ g[Len(t)] = b
  BY <1>1, <1>2
<1>4. ASSUME NEW i \in 1 .. Len(t) PROVE g[i] = g[i - 1] + t[i]
  <2>1. i \in 0 .. Len(t) /\ i - 1 \in 0 .. Len(t) /\ i + 1 \in 1 .. Len(s)
    BY <1>2
  <2>2. g[i] = f[i + 1] /\ g[i - 1] = f[i] /\ t[i] = s[i + 1]
    BY <1>2, <2>1
  <2>3. f[i + 1] = f[(i + 1) - 1] + s[i + 1]
    BY <1>1, <2>1, Zenon
  <2> QED
    BY <2>2, <2>3
<1>5. Adds(a + Head(s), t, b)
  BY <1>3, <1>4, Zenon DEF Adds
<1> QED
  BY <1>5, Zenon DEF t

\* What the client has got, with the chunk that is being written to it.
Delivering == client.got + (IF down.at = "write" THEN down.size ELSE 0)

\* The strengthening.  As long as neither end has failed, the chunks that wait
\* lead from what the client was sent to what the host has sent; the direction
\* is done only when none waits and none can follow; and a session that ended
\* by itself, whose two directions were joined, does nothing more.
DeliveryInv ==
  /\ ~(host.eof /\ host.reset)
  /\ ~host.reset /\ down.at # "err" => Adds(Delivering, host.sent, host.total)
  /\ down.at = "done" => host.eof /\ host.sent = <<>>
  /\ why = "ended" => phase = "closed" /\ Ended(down)

LEMMA InvDelivers == SessionInv /\ DeliveryInv => ResponseDelivered
<1> SUFFICES ASSUME SessionInv, DeliveryInv, why = "ended", down.at # "err"
             PROVE  host.eof /\ client.got = host.total
  BY Zenon DEF ResponseDelivered
<1>1. down.at = "done" /\ host.eof /\ ~host.reset /\ host.sent = <<>>
  BY Zenon DEF DeliveryInv, Ended
<1>2. client.got \in Nat /\ Delivering = client.got
  BY <1>1 DEF Delivering, SessionInv, SessionTypes, Clients
<1>3. Adds(client.got, <<>>, host.total)
  BY <1>1, <1>2, Zenon DEF DeliveryInv
<1> QED
  BY <1>1, <1>3, AddsNothing, Zenon

LEMMA StartsDelivery == SessionStarts => DeliveryInv'
<1> SUFFICES ASSUME SessionStarts PROVE DeliveryInv'
  BY Zenon
<1>1. Delivering' = 0 /\ host'.sent = <<>> /\ host'.total = 0 /\ ~host'.eof
  BY DEF SessionStarts, Delivering, NewClient, NewHost, NewDown
<1>2. down'.at = "read" /\ why' = "none"
  BY Zenon DEF SessionStarts, NewDown
<1> QED
  BY <1>1, <1>2, AddsNothing, Zenon DEF DeliveryInv

\* The steps that leave the way from the host to the client as it is.
LEMMA AsideDelivery ==
  ASSUME SessionInv, DeliveryInv,
         down' = down, client'.got = client.got, host'.sent = host.sent,
         host'.total = host.total, host'.eof = host.eof, host'.reset = host.reset,
         why' = "ended" => phase' = "closed" /\ Ended(down)
  PROVE  DeliveryInv'
<1>1. Delivering' = Delivering /\ Ended(down)' = Ended(down)
  BY Zenon DEF Delivering, Ended
<1> QED
  BY <1>1, Zenon DEF DeliveryInv

LEMMA OpeningDelivery ==
  ASSUME SessionInv, DeliveryInv,
         Handshake \/ ConnectFrame \/ OpenUpstream \/ Join \/ Watch \/ Pass
  PROVE  DeliveryInv'
<1>1. client'.got = client.got
  BY Zenon DEF Handshake, ConnectFrame, OpenUpstream, Join, Watch, Pass, Refuse, SessionInv, SessionTypes, Clients
<1>2. UNCHANGED <<host, down>>
  BY Zenon DEF Handshake, ConnectFrame, OpenUpstream, Join, Watch, Pass
<1>3. why' = "ended" => phase' = "closed" /\ Ended(down)
  BY Zenon DEF Handshake, ConnectFrame, OpenUpstream, Join, Watch, Pass, Refuse, End, DeliveryInv
<1> QED
  BY <1>1, <1>2, <1>3, AsideDelivery, Zenon

LEMMA UpDelivery ==
  ASSUME SessionInv, DeliveryInv, UpRead \/ UpEnds \/ UpFails \/ UpWrite
  PROVE  DeliveryInv'
<1>1. client \in Clients /\ host \in Hosts /\ phase = "relay" /\ UNCHANGED <<down, why>>
  BY Zenon DEF UpRead, UpEnds, UpFails, UpWrite, SessionInv, SessionTypes
<1>2. client'.got = client.got
  <2>1. client' = client \/ client' = [client EXCEPT !.sent = Tail(@)]
    BY Zenon DEF UpRead, UpEnds, UpFails, UpWrite
  <2> QED
    BY <1>1, <2>1, Zenon DEF Clients
<1>3. host' = host \/ \E b : host' = [host EXCEPT !.shut = b]
  BY Zenon DEF UpRead, UpEnds, UpFails, UpWrite
<1>4. /\ host'.sent = host.sent /\ host'.total = host.total
      /\ host'.eof = host.eof /\ host'.reset = host.reset
  BY <1>1, <1>3, Zenon DEF Hosts
<1>5. why' # "ended"
  BY <1>1, Zenon DEF DeliveryInv
<1> QED
  BY <1>1, <1>2, <1>4, <1>5, AsideDelivery, Zenon

LEMMA ClientDelivery ==
  ASSUME SessionInv, DeliveryInv, ClientSends \/ ClientGoes
  PROVE  DeliveryInv'
<1>1. client \in Clients /\ phase = "relay" /\ UNCHANGED <<host, down, why>>
  BY Zenon DEF ClientSends, ClientGoes, SessionInv, SessionTypes
<1>2. client'.got = client.got
  <2>1. \/ \E s, n, b : client' = [client EXCEPT !.sent = s, !.left = n, !.fin = b]
        \/ client' = [client EXCEPT !.gone = TRUE]
    BY Zenon DEF ClientSends, ClientGoes
  <2> QED
    BY <1>1, <2>1, Zenon DEF Clients
<1>3. why' # "ended"
  BY <1>1, Zenon DEF DeliveryInv
<1> QED
  BY <1>1, <1>2, <1>3, AsideDelivery, Zenon

LEMMA HostDelivery ==
  ASSUME SessionInv, DeliveryInv, HostSends \/ HostEnds \/ HostResets
  PROVE  DeliveryInv'
<1>1. host \in Hosts /\ host.sent \in Seq(Sizes) /\ host.total \in Nat
  BY Zenon DEF SessionInv, SessionTypes, Hosts
<1>2. UNCHANGED <<phase, client, down, why>> /\ phase = "relay" /\ ~host.eof /\ ~host.reset
  BY Zenon DEF HostSends, HostEnds, HostResets
<1>3. Delivering' = Delivering /\ Ended(down)' = Ended(down)
  BY <1>2, Zenon DEF Delivering, Ended
<1>4. why' # "ended" /\ down'.at # "done"
  BY <1>2, Zenon DEF DeliveryInv
<1>5. CASE HostSends
  <2>1. PICK n \in Sizes : host' = [host EXCEPT !.sent = Append(@, n), !.left = @ - 1, !.total = @ + n]
    BY <1>5, Zenon DEF HostSends
  <2>2. /\ host'.sent = Append(host.sent, n) /\ host'.total = host.total + n
        /\ host'.eof = host.eof /\ host'.reset = host.reset
    BY <1>1, <2>1, Zenon DEF Hosts
  <2>3. down'.at # "err" => Adds(Delivering', host'.sent, host'.total)
    BY <1>1, <1>2, <1>3, <2>2, AddsAppend, Zenon DEF DeliveryInv
  <2> QED
    BY <1>2, <1>4, <2>2, <2>3, Zenon DEF DeliveryInv
<1>6. CASE HostEnds
  <2>1. host'.eof /\ host'.sent = host.sent /\ host'.total = host.total /\ host'.reset = host.reset
    BY <1>1, <1>6, Zenon DEF HostEnds, Hosts
  <2> QED
    BY <1>2, <1>3, <1>4, <2>1, Zenon DEF DeliveryInv
<1>7. CASE HostResets
  <2>1. host'.reset /\ host'.eof = host.eof
    BY <1>1, <1>7, Zenon DEF HostResets, Hosts
  <2> QED
    BY <1>2, <1>4, <2>1, Zenon DEF DeliveryInv
<1> QED
  BY <1>5, <1>6, <1>7, Zenon

LEMMA DownDelivery ==
  ASSUME SessionInv, DeliveryInv, DownRead \/ DownEnds \/ DownWrite \/ DownFails
  PROVE  DeliveryInv'
<1>0. /\ phase = "relay" /\ why' = why
      /\ client.got \in Nat /\ host.sent \in Seq(Sizes) /\ down.size \in Nat
      /\ client \in Clients /\ host \in Hosts /\ down \in Downs
  BY Zenon DEF DownRead, DownEnds, DownWrite, DownFails, SessionInv, SessionTypes, Clients, Hosts, Downs
<1>1. CASE DownRead
  <2>1. /\ Delivering = client.got /\ Delivering' = client.got + Head(host.sent)
        /\ host.sent # <<>> /\ ~host.reset /\ down.at # "err" /\ down'.at = "write"
    BY <1>0, <1>1 DEF DownRead, Delivering
  <2>2. /\ host'.sent = Tail(host.sent) /\ host'.total = host.total
        /\ host'.eof = host.eof /\ host'.reset = host.reset
    BY <1>0, <1>1, Zenon DEF DownRead, Hosts
  <2>3. Adds(client.got, host.sent, host.total)
    BY <2>1, Zenon DEF DeliveryInv
  <2>4. Adds(Delivering', host'.sent, host'.total)
    BY <1>0, <2>1, <2>2, <2>3, AddsTail, Zenon
  <2> QED
    BY <1>0, <2>1, <2>2, <2>4, Zenon DEF DeliveryInv
<1>2. CASE DownEnds
  <2>1. /\ Delivering' = Delivering /\ down.at = "read" /\ down'.at = "done"
        /\ host.eof /\ host.sent = <<>> /\ host' = host
    BY <1>0, <1>2, Zenon DEF DownEnds, Delivering, Downs
  <2> QED
    BY <1>0, <2>1, Zenon DEF DeliveryInv
<1>3. CASE DownWrite
  <2>1. /\ down.at = "write" /\ down'.at \in {"read", "err"} /\ host' = host
        /\ client'.got = client.got + down.size
    BY <1>0, <1>3, Zenon DEF DownWrite, Clients, Downs
  <2>2. Delivering' = Delivering
    BY <1>0, <2>1 DEF Delivering
  <2> QED
    BY <1>0, <2>1, <2>2, Zenon DEF DeliveryInv
<1>4. CASE DownFails
  <2>1. down'.at = "err" /\ host' = host
    BY <1>0, <1>4, Zenon DEF DownFails, Downs
  <2> QED
    BY <1>0, <2>1, Zenon DEF DeliveryInv
<1> QED
  BY <1>1, <1>2, <1>3, <1>4, Zenon

LEMMA NextDelivers == SessionInv /\ DeliveryInv /\ [ProxyNext]_proxyVars => DeliveryInv'
<1> SUFFICES ASSUME SessionInv, DeliveryInv, [ProxyNext]_proxyVars PROVE DeliveryInv'
  BY Zenon
<1>1. CASE SessionNext
  BY <1>1, OpeningDelivery, UpDelivery, DownDelivery, ClientDelivery, HostDelivery
     DEF SessionNext, Relay, Peers
<1>2. CASE SessionStarts
  BY <1>2, StartsDelivery, Zenon
<1>3. CASE UNCHANGED sessionVars
  BY <1>3, Zenon DEF sessionVars, DeliveryInv, Delivering, Ended
<1> QED
  BY <1>1, <1>2, <1>3, Zenon DEF ProxyNext, AtGate, Spawn, Served, TaskEnds, proxyVars

(***************************************************************************)
(* A session that ended by itself, with neither direction failed, has      *)
(* given the client every byte the upstream host sent, however large the   *)
(* chunks, whenever the client half-closed, and whatever the order of the  *)
(* two directions and the peers (tcp_to_ws and the join of handle).        *)
(***************************************************************************)
THEOREM ResponsesDelivered == ProxySpec => []ResponseDelivered
<1>1. ProxyInit => DeliveryInv
  <2> SUFFICES ASSUME SessionInit PROVE DeliveryInv
    BY Zenon DEF ProxyInit
  <2>1. Delivering = 0 /\ host.sent = <<>> /\ host.total = 0 /\ ~host.eof
    BY DEF SessionInit, Delivering, NewClient, NewHost, NewDown
  <2>2. down.at = "read" /\ why = "none"
    BY Zenon DEF SessionInit, NewDown
  <2> QED
    BY <2>1, <2>2, AddsNothing, Zenon DEF DeliveryInv
<1> QED
  BY <1>1, SessionInitInv, ProxyNextInv, NextDelivers, InvDelivers, PTL DEF ProxySpec
==============================================================================
