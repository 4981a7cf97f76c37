--------------------------- MODULE GuestNetProofs ---------------------------
(***************************************************************************)
(* Theorems on the rest of the guest's network: names and the firewall,    *)
(* and the native relay, whose streams are runs of chunks as in FlowProofs.*)
(***************************************************************************)
EXTENDS FlowProofs, Resolver, Relay

-----------------------------------------------------------------------------
(* The cache vouches for what it allows, for every set of names, addresses *)
(* and allowlists, every assignment of literals and every answer.          *)

\* A cache is sound for an allowlist and a set of findings when both of its
\* maps hold only what was found: by_name for permitted names, by_ip for names
\* of any guest, since connection_permitted asks the allowlist again.
Sound(cache, allow, found) ==
  /\ cache.by_name \in [Names -> SUBSET Ips]
  /\ cache.by_ip \in [Ips -> Names \cup {AnyHost}]
  /\ \A ip \in Ips : cache.by_ip[ip] # AnyHost =>
       ip \in Routable /\ <<cache.by_ip[ip], ip>> \in found
  /\ \A n \in Names : \A ip \in cache.by_name[n] :
       /\ ip \in Routable /\ <<n, ip>> \in found /\ PermitsHost(allow, n)
       /\ cache.by_ip[ip] # AnyHost

\* The inductive invariant.
ResolverInv ==
  /\ Sound(Cache, dns_allow, dns_found)
  /\ dns_pending \subseteq Names /\ dns_fetches \subseteq Names

LEMMA InvVouches == ResolverInv => CacheVouched
BY ResolverAssumption, Zenon DEF ResolverInv, Sound, Cache, CacheVouched, ConnectionPermitted

LEMMA EmptySound ==
  ASSUME NEW allow, NEW found
  PROVE  Sound(EmptyCache, allow, found)
BY Zenon DEF Sound, EmptyCache

\* More findings never make a cache unsound.
LEMMA SoundMonotone ==
  ASSUME NEW cache, NEW allow, NEW found, NEW more,
         Sound(cache, allow, found), found \subseteq more
  PROVE  Sound(cache, allow, more)
BY Zenon DEF Sound

\* cache_resolution keeps a cache sound once the answer is among the findings.
LEMMA ResolutionSound ==
  ASSUME NEW cache, NEW allow, NEW found, NEW name \in Names, NEW addrs \in SUBSET Ips,
         Sound(cache, allow, found), {<<name, a>> : a \in addrs} \subseteq found
  PROVE  Sound(CacheResolution(cache, allow, name, addrs), allow, found)
<1> DEFINE kept == addrs \cap Routable
           new == Recorded(cache, name, kept, kept)
<1>1. CASE ~PermitsHost(allow, name)
  BY <1>1, Zenon DEF CacheResolution
<1>2. CASE PermitsHost(allow, name)
  <2>1. CacheResolution(cache, allow, name, addrs) = new
    BY <1>2, Zenon DEF CacheResolution
  <2>2. /\ new.by_name = [cache.by_name EXCEPT ![name] = @ \cup kept]
        /\ new.by_ip = [a \in Ips |-> IF a \in kept THEN name ELSE cache.by_ip[a]]
    BY Zenon DEF Recorded
  <2> HIDE DEF new
  <2>3. new.by_name \in [Names -> SUBSET Ips] /\ new.by_ip \in [Ips -> Names \cup {AnyHost}]
    <3>1. \A n \in Names : new.by_name[n] \in SUBSET Ips
      BY <2>2 DEF Sound
    <3>2. \A a \in Ips : new.by_ip[a] \in Names \cup {AnyHost}
      BY <2>2, Zenon DEF Sound
    <3> QED
      BY <2>2, <3>1, <3>2, Zenon DEF Sound
  <2>4. \A ip \in kept : <<name, ip>> \in found /\ ip \in Routable
    BY Zenon
  <2>5. \A ip \in Ips : new.by_ip[ip] # AnyHost => ip \in Routable /\ <<new.by_ip[ip], ip>> \in found
    BY <2>2, <2>4, Zenon DEF Sound
  <2>6. ASSUME NEW n \in Names, NEW ip \in new.by_name[n]
        PROVE  /\ ip \in Routable /\ <<n, ip>> \in found /\ PermitsHost(allow, n)
               /\ new.by_ip[ip] # AnyHost
    <3>1. ip \in Ips /\ (ip \in cache.by_name[n] \/ (n = name /\ ip \in kept))
      BY <2>2, <2>3, <2>6 DEF Sound
    <3>2. CASE ip \in cache.by_name[n]
      BY <2>2, <3>1, <3>2, ResolverAssumption DEF Sound
    <3>3. CASE n = name /\ ip \in kept
      BY <1>2, <2>2, <2>4, <3>1, <3>3, ResolverAssumption, Zenon
    <3> QED
      BY <3>1, <3>2, <3>3, Zenon
  <2> QED
    BY <2>1, <2>3, <2>5, <2>6, Zenon DEF Sound
<1> QED
  BY <1>1, <1>2, Zenon

\* So does resolveHost for a set of literals at once.
LEMMA LiteralsSound ==
  ASSUME NEW cache, NEW allow, NEW found, NEW names \in SUBSET Names,
         Sound(cache, allow, found), {<<n, Literal[n]>> : n \in Literals(names)} \subseteq found
  PROVE  Sound(CacheLiterals(cache, allow, names), allow, found)
<1> DEFINE kept == {n \in Literals(names) : PermitsHost(allow, n) /\ Literal[n] \in Routable}
           Of(a) == {n \in kept : Literal[n] = a}
           new == CacheLiterals(cache, allow, names)
<1>1. /\ new.by_name = [n \in Names |-> IF n \in kept THEN cache.by_name[n] \cup {Literal[n]}
                                         ELSE cache.by_name[n]]
      /\ new.by_ip = [a \in Ips |-> IF Of(a) # {} THEN CHOOSE n \in Of(a) : TRUE ELSE cache.by_ip[a]]
  BY Zenon DEF CacheLiterals
<1>2. \A n \in kept : /\ n \in Names /\ Literal[n] \in Ips /\ Literal[n] \in Routable
                      /\ PermitsHost(allow, n) /\ <<n, Literal[n]>> \in found
  BY ResolverAssumption, Zenon DEF Literals
<1>3. \A a \in Ips : Of(a) # {} => new.by_ip[a] \in Of(a)
  BY <1>1
<1>4. \A a \in Ips : Of(a) = {} => new.by_ip[a] = cache.by_ip[a]
  BY <1>1, Zenon
<1>5. /\ \A a : \A n \in Of(a) : n \in kept /\ Literal[n] = a
      /\ \A n \in kept : n \in Of(Literal[n])
  BY Zenon
<1> HIDE DEF new, kept, Of
<1>6. new.by_name \in [Names -> SUBSET Ips]
  <2>1. ASSUME NEW n \in Names PROVE new.by_name[n] \in SUBSET Ips
    <3>1. cache.by_name[n] \in SUBSET Ips /\ (n \in kept => Literal[n] \in Ips)
      BY <1>2, Zenon DEF Sound
    <3>2. new.by_name[n] = IF n \in kept THEN cache.by_name[n] \cup {Literal[n]} ELSE cache.by_name[n]
      BY <1>1, Zenon
    <3> QED
      BY <3>1, <3>2, Zenon
  <2> QED
    BY <1>1, <2>1, Zenon
<1>7. new.by_ip \in [Ips -> Names \cup {AnyHost}]
  <2>1. \A a \in Ips : new.by_ip[a] \in Names \cup {AnyHost}
    BY <1>2, <1>3, <1>4, <1>5, Zenon DEF Sound
  <2> QED
    BY <1>1, <2>1, Zenon
<1>8. \A ip \in Ips : new.by_ip[ip] # AnyHost => ip \in Routable /\ <<new.by_ip[ip], ip>> \in found
  BY <1>2, <1>3, <1>4, <1>5 DEF Sound
<1>9. ASSUME NEW n \in Names, NEW ip \in new.by_name[n]
      PROVE  /\ ip \in Routable /\ <<n, ip>> \in found /\ PermitsHost(allow, n)
             /\ new.by_ip[ip] # AnyHost
  <2>1. ip \in Ips /\ (ip \in cache.by_name[n] \/ (n \in kept /\ ip = Literal[n]))
    BY <1>1, <1>6, <1>9
  <2>2. CASE ip \in cache.by_name[n]
    <3>1. ip \in Routable /\ <<n, ip>> \in found /\ PermitsHost(allow, n) /\ cache.by_ip[ip] # AnyHost
      BY <2>2, Zenon DEF Sound
    <3>2. \A m \in kept : m # AnyHost
      BY <1>2, ResolverAssumption, Zenon
    <3>3. new.by_ip[ip] # AnyHost
      BY <1>3, <1>4, <1>5, <2>1, <3>1, <3>2, Zenon
    <3> QED
      BY <3>1, <3>3, Zenon
  <2>3. CASE n \in kept /\ ip = Literal[n]
    BY <1>2, <1>3, <1>5, <2>1, <2>3, ResolverAssumption, Zenon
  <2> QED
    BY <2>1, <2>2, <2>3, Zenon
<1> QED
  BY <1>6, <1>7, <1>8, <1>9, Zenon DEF Sound, new

\* What ResolveAll leaves, from a cache that is sound for the allowlist.
LEMMA ResolveAllSound ==
  ASSUME NEW cache, NEW allow, NEW names \in SUBSET Names,
         Sound(cache, allow, dns_found), dns_fetches \subseteq Names,
         ResolveAll(cache, allow, names), dns_allow' = allow
  PROVE  Sound(Cache', dns_allow', dns_found') /\ dns_fetches' \subseteq Names
<1>1. Sound(cache, allow, dns_found')
  BY SoundMonotone, Zenon DEF ResolveAll
<1>2. {<<n, Literal[n]>> : n \in Literals(names)} \subseteq dns_found'
  BY Zenon DEF ResolveAll
<1>3. Sound(CacheLiterals(cache, allow, names), allow, dns_found')
  BY <1>1, <1>2, LiteralsSound, Zenon
<1>4. /\ Cache'.by_name = CacheLiterals(cache, allow, names).by_name
      /\ Cache'.by_ip = CacheLiterals(cache, allow, names).by_ip
  BY Zenon DEF ResolveAll, Cache
<1>5. Sound(Cache', dns_allow', dns_found')
  BY <1>3, <1>4, Zenon DEF Sound
<1>6. dns_fetches' \subseteq Names
  BY Zenon DEF ResolveAll
<1> QED
  BY <1>5, <1>6, Zenon

(***************************************************************************)
(* Every step keeps the invariant.                                         *)
(***************************************************************************)
LEMMA NextInv == ResolverInv /\ [ResolverNext]_dnsVars => ResolverInv'
<1> SUFFICES ASSUME ResolverInv, [ResolverNext]_dnsVars PROVE ResolverInv'
  BY Zenon
<1>1. CASE TakePending
  <2>1. ResolveAll(Cache, dns_allow, dns_pending) /\ dns_allow' = dns_allow /\ dns_pending' = {}
    BY <1>1, Zenon DEF TakePending
  <2> QED
    BY <2>1, ResolveAllSound, Zenon DEF ResolverInv
<1>2. ASSUME NEW allow \in Allowlists, BootWith(allow) PROVE ResolverInv'
  <2>1. /\ ResolveAll(EmptyCache, allow, Hosts(allow)) /\ dns_allow' = allow /\ dns_pending' = {}
        /\ Hosts(allow) \subseteq Names
    BY <1>2, ResolverAssumption, Zenon DEF BootWith
  <2>2. Sound(EmptyCache, allow, dns_found)
    BY EmptySound, Zenon
  <2> QED
    BY <2>1, <2>2, ResolveAllSound, Zenon DEF ResolverInv
<1>3. ASSUME NEW name \in Names, Want(name) \/ Query(name) \/ FetchFails(name) PROVE ResolverInv'
  <2>1. Cache' = Cache /\ dns_allow' = dns_allow /\ dns_found' = dns_found
    BY <1>3, Zenon DEF Want, Query, FetchFails, Cache
  <2>2. dns_pending' \subseteq Names /\ dns_fetches' \subseteq Names
    BY <1>3, Zenon DEF Want, Query, FetchFails, ResolverInv
  <2> QED
    BY <2>1, <2>2, Zenon DEF ResolverInv
<1>4. ASSUME NEW name \in Names, NEW addrs \in Answers, FetchReturns(name, addrs) PROVE ResolverInv'
  <2> DEFINE new == CacheResolution(Cache, dns_allow, name, addrs)
  <2>1. /\ dns_allow' = dns_allow /\ dns_found' = dns_found \cup {<<name, a>> : a \in addrs}
        /\ Cache'.by_name = new.by_name /\ Cache'.by_ip = new.by_ip
        /\ dns_pending' \subseteq Names /\ dns_fetches' \subseteq Names
    BY <1>4, Zenon DEF FetchReturns, ResolverInv, Cache
  <2>2. addrs \in SUBSET Ips
    BY ResolverAssumption, Zenon
  <2>3. Sound(Cache, dns_allow, dns_found')
    BY <2>1, SoundMonotone, Zenon DEF ResolverInv
  <2>4. Sound(new, dns_allow, dns_found')
    BY <2>1, <2>2, <2>3, ResolutionSound, Zenon
  <2> QED
    BY <2>1, <2>4, Zenon DEF ResolverInv, Sound
<1>5. CASE UNCHANGED dnsVars
  BY <1>5, Zenon DEF dnsVars, ResolverInv, Cache
<1> QED
  BY <1>1, <1>2, <1>3, <1>4, <1>5, Zenon DEF ResolverNext

(***************************************************************************)
(* An address the guest may connect to was found for a name its allowlist  *)
(* permits, whenever answers to an earlier guest's fetches arrive          *)
(* (cache_resolution, connection_permitted).                               *)
(***************************************************************************)
THEOREM CacheAlwaysVouches == ResolverSpec => []CacheVouched
<1>1. ResolverInit => ResolverInv
  <2> SUFFICES ASSUME ResolverInit PROVE ResolverInv
    BY Zenon
  <2>1. Cache.by_name = EmptyCache.by_name /\ Cache.by_ip = EmptyCache.by_ip
    BY Zenon DEF ResolverInit, Cache
  <2> QED
    BY <2>1, EmptySound, Zenon DEF ResolverInit, ResolverInv, Sound
<1> QED
  BY <1>1, NextInv, InvVouches, PTL DEF ResolverSpec

-----------------------------------------------------------------------------
(* The relay's two streams.                                                *)

LEMMA RunUpto ==
  ASSUME NEW s, Run(s, 0)
  PROVE  s = Upto(Size(s)) /\ s = Upto(Len(s))
<1>1. s \in Seq(Nat) /\ DOMAIN s = 1 .. Len(s) /\ Len(s) \in Nat
  BY DEF Run
<1>2. \A i \in 1 .. Len(s) : s[i] = i
  BY <1>1 DEF Run
<1> QED
  BY <1>1, <1>2 DEF Upto, Size

Reading == {"connect", "check", "read", "send"}

Hands == [reader : Nat, writer : Nat]
ToChans == [q : Seq(Nat), tx : BOOLEAN]
FromChans == [q : Seq(Nat), tx : BOOLEAN, rx : BOOLEAN]
Socks == [up : Seq(Nat), wr : BOOLEAN, rd : BOOLEAN]
RemoteHosts ==
  [sent : Nat, read : Nat, closed : BOOLEAN, reset : BOOLEAN, got : Seq(Nat), fin : BOOLEAN]
NatEnds == [sent : Nat, got : Seq(Nat), end : BOOLEAN, reaped : BOOLEAN]

RelayTypes ==
  /\ rl_reader \in Reading \cup {"close", "join", "done"}
  /\ rl_writer \in {"none", "recv", "write", "shut", "done"}
  /\ rl_chunk \in Hands
  /\ rl_to \in ToChans
  /\ rl_from \in FromChans
  /\ rl_stop \in BOOLEAN
  /\ rl_sock \in Socks
  /\ rl_host \in RemoteHosts
  /\ rl_nat \in NatEnds

\* From the guest: what the host has read, then what is in the socket, then
\* the chunk in the writer's hands, then the channel.  A chunk is lost only by
\* a writer that has ended, which writes nothing after it, and only when the
\* socket failed: one that ended otherwise found the channel closed and empty.
Written == Size(rl_host.got) + Size(rl_sock.up)
InHand == IF rl_writer = "write" THEN 1 ELSE 0

GuestWay ==
  /\ Run(rl_host.got, 0)
  /\ Run(rl_sock.up, Size(rl_host.got))
  /\ rl_writer \in {"none", "recv", "write"} =>
       Run(rl_to.q, Written + InHand) /\ rl_nat.sent = Written + InHand + Size(rl_to.q)
  /\ rl_writer = "write" => rl_chunk.writer = Written + 1
  /\ rl_reader = "connect" <=> rl_writer = "none"
  /\ rl_reader \in Reading => rl_sock.wr \/ rl_writer = "done"
  /\ rl_reader \in Reading /\ ~rl_host.reset /\ rl_writer \in {"shut", "done"} =>
       rl_nat.sent = Written /\ ~rl_to.tx
  /\ rl_host.fin => rl_sock.up = <<>> /\ ~rl_sock.wr

\* From the host: what the NAT has, the channel, the chunk in the reader's
\* hands.  The reader stops at the end of the stream unless the NAT is gone,
\* and then the host sends no more.
Queued == Size(rl_nat.got) + Size(rl_from.q)

HostWay ==
  /\ Run(rl_nat.got, 0)
  /\ rl_stop => ~rl_from.rx
  /\ rl_from.rx =>
       /\ Run(rl_from.q, Size(rl_nat.got))
       /\ rl_reader \in {"connect", "check", "read"} => rl_host.read = Queued
       /\ rl_reader = "send" => rl_host.read = Queued + 1 /\ rl_chunk.reader = Queued + 1
       /\ ~rl_host.reset /\ rl_reader = "close" => rl_host.closed
       /\ ~rl_host.reset /\ rl_host.closed /\ rl_reader \notin Reading => rl_host.sent = Queued
  /\ rl_reader = "connect" => ~rl_host.closed
  /\ rl_reader \in {"join", "done"} <=> ~rl_from.tx
  /\ rl_reader \in {"join", "done"} => ~rl_sock.rd
  /\ rl_nat.end => ~rl_from.tx /\ (rl_host.closed /\ ~rl_host.reset => rl_host.sent = Size(rl_nat.got))

RelayInv == RelayTypes /\ GuestWay /\ HostWay

\* What every proof needs of the types.
LEMMA RelayNumbers ==
  ASSUME RelayTypes
  PROVE  /\ rl_host.got \in Seq(Nat) /\ rl_sock.up \in Seq(Nat)
         /\ rl_nat.got \in Seq(Nat) /\ rl_from.q \in Seq(Nat) /\ rl_to.q \in Seq(Nat)
         /\ Size(rl_host.got) \in Nat /\ Size(rl_sock.up) \in Nat /\ Size(rl_nat.got) \in Nat
         /\ Size(rl_from.q) \in Nat /\ Size(rl_to.q) \in Nat
         /\ rl_nat.sent \in Nat /\ rl_host.sent \in Nat /\ rl_host.read \in Nat
         /\ Written \in Nat /\ Queued \in Nat /\ InHand \in {0, 1}
<1>1. /\ rl_host.got \in Seq(Nat) /\ rl_sock.up \in Seq(Nat)
      /\ rl_nat.got \in Seq(Nat) /\ rl_from.q \in Seq(Nat) /\ rl_to.q \in Seq(Nat)
      /\ rl_nat.sent \in Nat /\ rl_host.sent \in Nat /\ rl_host.read \in Nat
  BY Zenon DEF RelayTypes, ToChans, FromChans, Socks, RemoteHosts, NatEnds
<1>2. /\ Size(rl_host.got) \in Nat /\ Size(rl_sock.up) \in Nat /\ Size(rl_nat.got) \in Nat
      /\ Size(rl_from.q) \in Nat /\ Size(rl_to.q) \in Nat
  BY <1>1, SizeIs, Zenon
<1>3. Written \in Nat /\ Queued \in Nat
  BY <1>2 DEF Written, Queued
<1>4. InHand \in {0, 1}
  BY Zenon DEF InHand
<1> QED
  BY <1>1, <1>2, <1>3, <1>4, Zenon

LEMMA InvRelays == RelayInv => RelayedWhole
<1> SUFFICES ASSUME RelayInv PROVE RelayedWhole
  BY Zenon
<1>1. rl_host.got = Upto(Size(rl_host.got)) /\ rl_nat.got = Upto(Size(rl_nat.got))
  BY RunUpto, Zenon DEF RelayInv, GuestWay, HostWay
<1>2. rl_nat.end /\ rl_host.closed /\ ~rl_host.reset => rl_nat.got = Upto(rl_host.sent)
  BY <1>1, Zenon DEF RelayInv, HostWay
<1>3. ASSUME rl_host.fin, ~rl_host.reset, rl_reader \in {"check", "read", "send"}
      PROVE  rl_host.got = Upto(rl_nat.sent)
  <2>1. rl_writer = "done" /\ rl_sock.up = <<>> /\ rl_nat.sent = Written
    BY <1>3, Zenon DEF RelayInv, GuestWay, Reading
  <2>2. Size(rl_host.got) \in Nat /\ Size(rl_sock.up) = 0
    BY <2>1, RunNone, RelayNumbers, Zenon DEF RelayInv
  <2> QED
    BY <1>1, <2>1, <2>2 DEF Written
<1>4. rl_host.got = Upto(Len(rl_host.got)) /\ rl_nat.got = Upto(Len(rl_nat.got))
  BY RunUpto, Zenon DEF RelayInv, GuestWay, HostWay
<1> QED
  BY <1>2, <1>3, <1>4, Zenon DEF RelayedWhole

\* The reader's steps that move no data.
LEMMA RelayConnect ==
  ASSUME RelayInv, Connect \/ CheckStop \/ ReadTimeout \/ JoinWriter
  PROVE  RelayInv'
<1>1. /\ UNCHANGED <<rl_chunk, rl_to, rl_from, rl_stop, rl_sock, rl_host, rl_nat>>
      /\ rl_writer' = rl_writer \/ (rl_writer' = "recv" /\ rl_reader = "connect")
      /\ \/ rl_reader = "connect" /\ rl_reader' = "check" /\ rl_writer' = "recv"
         \/ rl_reader = "check" /\ rl_reader' = "read" /\ rl_writer' = rl_writer
         \/ rl_reader = "check" /\ rl_reader' = "close" /\ rl_stop /\ rl_writer' = rl_writer
         \/ rl_reader = "read" /\ rl_reader' = "check" /\ rl_writer' = rl_writer
         \/ rl_reader = "join" /\ rl_reader' = "done" /\ rl_writer' = rl_writer
  BY Zenon DEF Connect, CheckStop, ReadTimeout, JoinWriter
<1>2. RelayTypes'
  BY <1>1, Zenon DEF RelayInv, RelayTypes, Reading
<1>3. Written' = Written /\ Queued' = Queued /\ InHand' = InHand
  BY <1>1, Zenon DEF Written, Queued, InHand, RelayInv, GuestWay
<1>4. GuestWay'
  BY <1>1, <1>3, Zenon DEF RelayInv, GuestWay, Reading
<1>5. HostWay'
  BY <1>1, <1>3, Zenon DEF RelayInv, HostWay, Reading
<1> QED
  BY <1>2, <1>4, <1>5, Zenon DEF RelayInv

LEMMA RelayFails ==
  ASSUME RelayInv, ConnectFails \/ CloseSocket
  PROVE  RelayInv'
<1>1. /\ UNCHANGED <<rl_chunk, rl_to, rl_stop, rl_host, rl_nat>>
      /\ \/ rl_reader = "connect" /\ rl_reader' = "done" /\ rl_writer' = "done"
         \/ rl_reader = "close" /\ rl_reader' = "join" /\ rl_writer' = rl_writer
  BY Zenon DEF ConnectFails, CloseSocket
<1>2. /\ rl_from' = [rl_from EXCEPT !.tx = FALSE]
      /\ rl_sock' = [rl_sock EXCEPT !.wr = FALSE, !.rd = FALSE]
  BY Zenon DEF ConnectFails, CloseSocket
<1>3. /\ rl_from' \in FromChans
      /\ rl_from'.q = rl_from.q /\ rl_from'.rx = rl_from.rx /\ ~rl_from'.tx
  BY <1>2, Zenon DEF RelayInv, RelayTypes, FromChans
<1>4. /\ rl_sock' \in Socks
      /\ rl_sock'.up = rl_sock.up /\ ~rl_sock'.wr /\ ~rl_sock'.rd
  BY <1>2, Zenon DEF RelayInv, RelayTypes, Socks
<1>5. RelayTypes'
  BY <1>1, <1>3, <1>4, Zenon DEF RelayInv, RelayTypes, Reading
<1>6. Written' = Written /\ Queued' = Queued /\ (rl_writer' = rl_writer => InHand' = InHand)
  BY <1>1, <1>3, <1>4, Zenon DEF Written, Queued, InHand
<1>7. GuestWay'
  BY <1>1, <1>4, <1>6, Zenon DEF RelayInv, GuestWay, Reading
<1>8. HostWay'
  BY <1>1, <1>3, <1>4, <1>6, Zenon DEF RelayInv, HostWay, Reading
<1> QED
  BY <1>5, <1>7, <1>8, Zenon DEF RelayInv

LEMMA RelayRead ==
  ASSUME RelayInv, Read
  PROVE  RelayInv'
<1>1. UNCHANGED <<rl_writer, rl_to, rl_from, rl_stop, rl_sock, rl_nat>> /\ rl_reader = "read"
  BY Zenon DEF Read
<1>2. CASE rl_reader' = "close"
  <2>1. /\ rl_host' = rl_host /\ rl_chunk' = rl_chunk
        /\ rl_host.reset \/ (rl_host.closed /\ rl_host.read = rl_host.sent)
    BY <1>2, Zenon DEF Read
  <2>2. Written' = Written /\ Queued' = Queued /\ InHand' = InHand
    BY <1>1, <2>1, Zenon DEF Written, Queued, InHand
  <2>3. RelayTypes'
    BY <1>1, <1>2, <2>1, Zenon DEF RelayInv, RelayTypes
  <2>4. GuestWay'
    BY <1>1, <1>2, <2>1, <2>2, Zenon DEF RelayInv, GuestWay, Reading
  <2>5. HostWay'
    BY <1>1, <1>2, <2>1, <2>2, Zenon DEF RelayInv, HostWay, Reading
  <2> QED
    BY <2>3, <2>4, <2>5, Zenon DEF RelayInv
<1>3. CASE rl_reader' # "close"
  <2>1. PICK n \in Nat :
          /\ n = rl_host.read + 1 /\ rl_host' = [rl_host EXCEPT !.read = n]
          /\ rl_chunk' = [rl_chunk EXCEPT !.reader = n] /\ rl_reader' = "send"
    <3>1. rl_host.read \in Nat
      BY RelayNumbers, Zenon DEF RelayInv
    <3>2. rl_host.read + 1 \in Nat
      BY <3>1
    <3> QED
      BY <1>3, <3>2, Zenon DEF Read
  <2>2. /\ rl_host' \in RemoteHosts
        /\ rl_host'.read = n /\ rl_host'.got = rl_host.got
        /\ rl_host'.sent = rl_host.sent /\ rl_host'.closed = rl_host.closed
        /\ rl_host'.reset = rl_host.reset /\ rl_host'.fin = rl_host.fin
    BY <2>1, Zenon DEF RelayInv, RelayTypes, RemoteHosts
  <2>3. /\ rl_chunk' \in Hands
        /\ rl_chunk'.reader = n /\ rl_chunk'.writer = rl_chunk.writer
    BY <2>1, Zenon DEF RelayInv, RelayTypes, Hands
  <2>4. Written' = Written /\ Queued' = Queued /\ InHand' = InHand
    BY <1>1, <2>2, Zenon DEF Written, Queued, InHand
  <2>5. RelayTypes'
    BY <1>1, <2>1, <2>2, <2>3, Zenon DEF RelayInv, RelayTypes, Reading
  <2>6. GuestWay'
    BY <1>1, <2>1, <2>2, <2>3, <2>4, Zenon DEF RelayInv, GuestWay, Reading
  <2>7. HostWay'
    BY <1>1, <2>1, <2>2, <2>3, <2>4, RelayNumbers, Zenon DEF RelayInv, HostWay, Reading
  <2> QED
    BY <2>5, <2>6, <2>7, Zenon DEF RelayInv
<1> QED
  BY <1>2, <1>3, Zenon

LEMMA RelaySend ==
  ASSUME RelayInv, SendToGuest
  PROVE  RelayInv'
<1>0. Size(rl_nat.got) \in Nat /\ Size(rl_from.q) \in Nat
  BY RelayNumbers, Zenon DEF RelayInv
<1>1. /\ UNCHANGED <<rl_writer, rl_chunk, rl_to, rl_stop, rl_sock, rl_host, rl_nat>>
      /\ rl_reader = "send" /\ rl_from \in FromChans /\ Written' = Written /\ InHand' = InHand
  BY Zenon DEF SendToGuest, RelayInv, RelayTypes, Written, InHand
<1>2. CASE ~rl_from.rx
  <2>1. rl_from' = rl_from /\ rl_reader' = "close"
    BY <1>2, Zenon DEF SendToGuest
  <2>2. RelayTypes'
    BY <1>1, <2>1, Zenon DEF RelayInv, RelayTypes
  <2>3. GuestWay'
    BY <1>1, <2>1, Zenon DEF RelayInv, GuestWay, Reading
  <2>4. HostWay'
    BY <1>1, <1>2, <2>1, Zenon DEF RelayInv, HostWay, Reading
  <2> QED
    BY <2>2, <2>3, <2>4, Zenon DEF RelayInv
<1>3. CASE rl_from.rx
  <2>1. /\ rl_from' = [rl_from EXCEPT !.q = Append(@, rl_chunk.reader)] /\ rl_reader' = "check"
        /\ Run(rl_from.q, Size(rl_nat.got))
        /\ rl_host.read = Queued + 1 /\ rl_chunk.reader = Queued + 1
    BY <1>1, <1>3, Zenon DEF SendToGuest, RelayInv, HostWay
  <2>2. PICK s : s = Append(rl_from.q, rl_chunk.reader)
    BY Zenon
  <2>3. Run(s, Size(rl_nat.got)) /\ Size(s) = Size(rl_from.q) + 1
    BY <1>0, <2>1, <2>2, RunAppend, Zenon DEF Queued
  <2>4. /\ rl_from' \in FromChans /\ rl_from'.q = s
        /\ rl_from'.tx = rl_from.tx /\ rl_from'.rx = rl_from.rx
    BY <1>1, <2>1, <2>2, <2>3, Zenon DEF FromChans, Run
  <2>5. Queued' = Queued + 1
    <3>1. Queued' = Size(rl_nat.got) + Size(s)
      BY <1>1, <2>4, Zenon DEF Queued
    <3> QED
      BY <1>0, <2>3, <3>1 DEF Queued
  <2>6. RelayTypes'
    BY <1>1, <2>1, <2>4, Zenon DEF RelayInv, RelayTypes, Reading
  <2>7. GuestWay'
    BY <1>1, <2>1, Zenon DEF RelayInv, GuestWay, Reading
  <2>8. HostWay'
    BY <1>1, <2>1, <2>3, <2>4, <2>5, Zenon DEF RelayInv, HostWay, Reading
  <2> QED
    BY <2>6, <2>7, <2>8, Zenon DEF RelayInv
<1> QED
  BY <1>1, <1>2, <1>3, Zenon

LEMMA RelayRecv ==
  ASSUME RelayInv, RecvFromGuest
  PROVE  RelayInv'
<1>1. /\ UNCHANGED <<rl_reader, rl_from, rl_stop, rl_sock, rl_host, rl_nat>>
      /\ rl_writer = "recv" /\ Written' = Written /\ Queued' = Queued
      /\ rl_to \in ToChans /\ rl_chunk \in Hands
  BY Zenon DEF RecvFromGuest, RelayInv, RelayTypes, Written, Queued
<1>0. Written \in Nat /\ Size(rl_to.q) \in Nat
  BY RelayNumbers, Zenon DEF RelayInv
<1>2. InHand = 0 /\ Run(rl_to.q, Written) /\ rl_nat.sent = Written + Size(rl_to.q)
  BY <1>0, <1>1 DEF InHand, RelayInv, GuestWay
<1>3. CASE rl_to.q = <<>>
  <2>1. rl_to' = rl_to /\ rl_chunk' = rl_chunk /\ ~rl_to.tx /\ rl_writer' = "shut"
    BY <1>3, Zenon DEF RecvFromGuest
  <2>2. rl_nat.sent = Written
    BY <1>0, <1>2, <1>3, RunNone
  <2>3. RelayTypes'
    BY <1>1, <2>1, Zenon DEF RelayInv, RelayTypes
  <2>4. GuestWay'
    BY <1>1, <2>1, <2>2, Zenon DEF RelayInv, GuestWay, Reading
  <2>5. HostWay'
    BY <1>1, <2>1, Zenon DEF RelayInv, HostWay
  <2> QED
    BY <2>3, <2>4, <2>5, Zenon DEF RelayInv
<1>4. CASE rl_to.q # <<>>
  <2>1. PICK n, s :
          /\ n = Head(rl_to.q) /\ s = Tail(rl_to.q) /\ rl_writer' = "write"
          /\ rl_chunk' = [rl_chunk EXCEPT !.writer = n] /\ rl_to' = [rl_to EXCEPT !.q = s]
    BY <1>4, Zenon DEF RecvFromGuest
  <2>2. /\ n = Written + 1 /\ Run(s, Written + 1) /\ Size(s) = Size(rl_to.q) - 1
        /\ s \in Seq(Nat)
    BY <1>0, <1>2, <1>4, <2>1, RunTail, Zenon DEF Run
  <2>3. rl_to' \in ToChans /\ rl_to'.q = s /\ rl_to'.tx = rl_to.tx
    BY <1>1, <2>1, <2>2, Zenon DEF ToChans
  <2>4. rl_chunk' \in Hands /\ rl_chunk'.writer = n /\ rl_chunk'.reader = rl_chunk.reader
    <3>1. n \in Nat
      BY <1>0, <2>2
    <3> QED
      BY <1>1, <2>1, <3>1, Zenon DEF Hands
  <2>5. InHand' = 1 /\ rl_nat.sent = Written + 1 + Size(s)
    BY <1>0, <1>2, <2>1, <2>2 DEF InHand
  <2>6. RelayTypes'
    BY <1>1, <2>1, <2>3, <2>4, Zenon DEF RelayInv, RelayTypes
  <2>7. GuestWay'
    BY <1>1, <2>1, <2>2, <2>3, <2>4, <2>5, Zenon DEF RelayInv, GuestWay, Reading
  <2>8. HostWay'
    BY <1>1, <2>4, Zenon DEF RelayInv, HostWay
  <2> QED
    BY <2>6, <2>7, <2>8, Zenon DEF RelayInv
<1> QED
  BY <1>3, <1>4, Zenon

LEMMA RelayWrite ==
  ASSUME RelayInv, WriteToHost
  PROVE  RelayInv'
<1>1. /\ UNCHANGED <<rl_reader, rl_chunk, rl_to, rl_from, rl_stop, rl_host, rl_nat>>
      /\ rl_writer = "write" /\ Queued' = Queued /\ rl_sock \in Socks
  BY Zenon DEF WriteToHost, RelayInv, RelayTypes, Queued
<1>0. Size(rl_host.got) \in Nat /\ Size(rl_sock.up) \in Nat /\ Written \in Nat /\ Size(rl_to.q) \in Nat
  BY RelayNumbers, Zenon DEF RelayInv
<1>2. CASE rl_writer' = "shut"
  <2>1. rl_sock' = rl_sock /\ (~rl_sock.wr \/ rl_host.reset)
    BY <1>2, Zenon DEF WriteToHost
  <2>2. Written' = Written
    BY <1>1, <2>1, Zenon DEF Written
  <2>3. RelayTypes'
    BY <1>1, <1>2, <2>1, Zenon DEF RelayInv, RelayTypes
  <2>4. GuestWay'
    BY <1>1, <1>2, <2>1, <2>2, Zenon DEF RelayInv, GuestWay, Reading
  <2>5. HostWay'
    BY <1>1, <2>1, Zenon DEF RelayInv, HostWay
  <2> QED
    BY <2>3, <2>4, <2>5, Zenon DEF RelayInv
<1>3. CASE rl_writer' # "shut"
  <2>1. PICK s : /\ s = Append(rl_sock.up, rl_chunk.writer) /\ rl_sock' = [rl_sock EXCEPT !.up = s]
                 /\ rl_sock.wr /\ rl_writer' = "recv"
    BY <1>3, Zenon DEF WriteToHost
  <2>2. /\ rl_chunk.writer = Written + 1 /\ Run(rl_sock.up, Size(rl_host.got)) /\ ~rl_host.fin
        /\ Run(rl_to.q, Written + InHand) /\ rl_nat.sent = Written + InHand + Size(rl_to.q)
        /\ InHand = 1 /\ InHand' = 0
    BY <1>1, <2>1, Zenon DEF RelayInv, GuestWay, InHand
  <2>3. Run(s, Size(rl_host.got)) /\ Size(s) = Size(rl_sock.up) + 1 /\ s \in Seq(Nat)
    <3>1. rl_chunk.writer = Size(rl_host.got) + Size(rl_sock.up) + 1
      BY <2>2, Zenon DEF Written
    <3>2. Run(rl_sock.up, Size(rl_host.got)) /\ Size(rl_host.got) \in Nat
      BY <1>0, <2>2, Zenon
    <3> QED
      BY <2>1, <3>1, <3>2, RunAppend, Zenon
  <2>4. rl_sock' \in Socks /\ rl_sock'.up = s /\ rl_sock'.wr = rl_sock.wr /\ rl_sock'.rd = rl_sock.rd
    BY <1>1, <2>1, <2>3, Zenon DEF Socks
  <2>5. Written' = Written + 1
    <3>1. Written' = Size(rl_host.got) + Size(s)
      BY <1>1, <2>4, Zenon DEF Written
    <3> QED
      BY <1>0, <2>3, <3>1 DEF Written
  <2>6. Run(rl_to.q, Written' + InHand') /\ rl_nat.sent = Written' + InHand' + Size(rl_to.q)
    <3>1. Written' + InHand' = Written + InHand
      BY <1>0, <2>2, <2>5
    <3> QED
      BY <2>2, <3>1, Zenon
  <2>7. RelayTypes'
    BY <1>1, <2>1, <2>4, Zenon DEF RelayInv, RelayTypes
  <2>8. GuestWay'
    BY <1>1, <2>1, <2>2, <2>3, <2>4, <2>6, Zenon DEF RelayInv, GuestWay, Reading
  <2>9. HostWay'
    BY <1>1, <2>4, Zenon DEF RelayInv, HostWay
  <2> QED
    BY <2>7, <2>8, <2>9, Zenon DEF RelayInv
<1> QED
  BY <1>2, <1>3, Zenon

LEMMA RelayShut ==
  ASSUME RelayInv, ShutWrite
  PROVE  RelayInv'
<1>1. /\ UNCHANGED <<rl_reader, rl_chunk, rl_to, rl_from, rl_stop, rl_host, rl_nat>>
      /\ rl_writer = "shut" /\ rl_writer' = "done" /\ Queued' = Queued
      /\ rl_sock \in Socks /\ rl_sock' = [rl_sock EXCEPT !.wr = FALSE]
  BY Zenon DEF ShutWrite, RelayInv, RelayTypes, Queued
<1>2. rl_sock' \in Socks /\ rl_sock'.up = rl_sock.up /\ ~rl_sock'.wr /\ rl_sock'.rd = rl_sock.rd
  BY <1>1, Zenon DEF Socks
<1>3. Written' = Written
  BY <1>1, <1>2, Zenon DEF Written
<1>4. RelayTypes'
  BY <1>1, <1>2, Zenon DEF RelayInv, RelayTypes
<1>5. GuestWay'
  BY <1>1, <1>2, <1>3, Zenon DEF RelayInv, GuestWay, Reading
<1>6. HostWay'
  BY <1>1, <1>2, Zenon DEF RelayInv, HostWay
<1> QED
  BY <1>4, <1>5, <1>6, Zenon DEF RelayInv

LEMMA RelayNatSend ==
  ASSUME RelayInv, NatSend
  PROVE  RelayInv'
<1>0. Written \in Nat /\ InHand \in {0, 1} /\ Size(rl_to.q) \in Nat
  BY RelayNumbers, Zenon DEF RelayInv
<1>1. /\ UNCHANGED <<rl_reader, rl_writer, rl_chunk, rl_from, rl_stop, rl_sock, rl_host>>
      /\ rl_to.tx /\ rl_to \in ToChans /\ rl_nat \in NatEnds /\ rl_nat.sent \in Nat
      /\ Written' = Written /\ InHand' = InHand
  BY RelayNumbers, Zenon DEF NatSend, RelayInv, RelayTypes, Written, InHand
<1>2. CASE rl_to'.tx
  <2>1. PICK n, s :
          /\ n = rl_nat.sent + 1 /\ s = Append(rl_to.q, n) /\ rl_writer # "done"
          /\ rl_nat' = [rl_nat EXCEPT !.sent = n] /\ rl_to' = [rl_to EXCEPT !.q = s]
    <3>1. rl_to' # [rl_to EXCEPT !.tx = FALSE]
      BY <1>1, <1>2, Zenon DEF ToChans
    <3> QED
      BY <3>1, Zenon DEF NatSend
  <2>2. n \in Nat
    BY <1>1, <2>1
  <2>3. /\ rl_nat' \in NatEnds /\ rl_nat'.sent = n /\ rl_nat'.got = rl_nat.got
        /\ rl_nat'.end = rl_nat.end
    BY <1>1, <2>1, <2>2, Zenon DEF NatEnds
  <2>4. s \in Seq(Nat)
    BY <1>1, <2>1, <2>2 DEF ToChans
  <2>5. rl_to' \in ToChans /\ rl_to'.q = s
    BY <1>1, <2>1, <2>4, Zenon DEF ToChans
  <2>6. ASSUME rl_writer \in {"none", "recv", "write"}
        PROVE  Run(s, Written + InHand) /\ n = Written + InHand + Size(s)
    <3>1. PICK a \in Nat : a = Written + InHand
      BY <1>0
    <3>2. Run(rl_to.q, a) /\ n = a + Size(rl_to.q) + 1
      BY <2>1, <2>6, <3>1, Zenon DEF RelayInv, GuestWay
    <3>3. Run(s, a) /\ Size(s) = Size(rl_to.q) + 1
      BY <2>1, <3>2, RunAppend, Zenon
    <3> QED
      BY <1>0, <3>1, <3>2, <3>3
  <2>7. Queued' = Queued
    BY <1>1, <2>3, Zenon DEF Queued
  <2>8. RelayTypes'
    BY <1>1, <2>3, <2>5, Zenon DEF RelayInv, RelayTypes
  <2>9. GuestWay'
    BY <1>1, <2>3, <2>5, <2>6, Zenon DEF RelayInv, GuestWay
  <2>10. HostWay'
    BY <1>1, <2>3, <2>7, Zenon DEF RelayInv, HostWay
  <2> QED
    BY <2>8, <2>9, <2>10, Zenon DEF RelayInv
<1>3. CASE ~rl_to'.tx
  <2>1. rl_to' = [rl_to EXCEPT !.tx = FALSE] /\ rl_nat' = rl_nat
    <3>1. \A s : rl_to' # [rl_to EXCEPT !.q = s]
      BY <1>1, <1>3, Zenon DEF ToChans
    <3> QED
      BY <3>1, Zenon DEF NatSend
  <2>2. rl_to' \in ToChans /\ rl_to'.q = rl_to.q
    BY <1>1, <2>1, Zenon DEF ToChans
  <2>3. Queued' = Queued
    BY <1>1, <2>1, Zenon DEF Queued
  <2>4. RelayTypes'
    BY <1>1, <2>1, <2>2, Zenon DEF RelayInv, RelayTypes
  <2>5. GuestWay'
    BY <1>1, <1>3, <2>1, <2>2, Zenon DEF RelayInv, GuestWay
  <2>6. HostWay'
    BY <1>1, <2>1, <2>3, Zenon DEF RelayInv, HostWay
  <2> QED
    BY <2>4, <2>5, <2>6, Zenon DEF RelayInv
<1> QED
  BY <1>2, <1>3, Zenon

LEMMA RelayNatReceive ==
  ASSUME RelayInv, NatReceive
  PROVE  RelayInv'
<1>0. Size(rl_nat.got) \in Nat /\ Size(rl_from.q) \in Nat
  BY RelayNumbers, Zenon DEF RelayInv
<1>1. /\ UNCHANGED <<rl_reader, rl_writer, rl_chunk, rl_to, rl_stop, rl_sock, rl_host>>
      /\ rl_from.rx /\ ~rl_nat.end /\ rl_from \in FromChans /\ rl_nat \in NatEnds
      /\ Written' = Written /\ InHand' = InHand
      /\ Run(rl_nat.got, 0) /\ Run(rl_from.q, Size(rl_nat.got))
  BY Zenon DEF NatReceive, RelayInv, RelayTypes, HostWay, Written, InHand
<1>2. CASE rl_from.q # <<>>
  <2>1. PICK n, s, t :
          /\ n = Head(rl_from.q) /\ s = Tail(rl_from.q) /\ t = Append(rl_nat.got, n)
          /\ rl_from' = [rl_from EXCEPT !.q = s] /\ rl_nat' = [rl_nat EXCEPT !.got = t]
    BY <1>2, Zenon DEF NatReceive
  <2>2. /\ n = Size(rl_nat.got) + 1 /\ s \in Seq(Nat) /\ Run(s, Size(rl_nat.got) + 1)
        /\ Size(s) = Size(rl_from.q) - 1
    BY <1>0, <1>1, <1>2, <2>1, RunTail, Zenon
  <2>3. n = 0 + Size(rl_nat.got) + 1 /\ 0 \in Nat
    BY <1>0, <2>2
  <2>4. t \in Seq(Nat) /\ Run(t, 0) /\ Size(t) = Size(rl_nat.got) + 1
    BY <1>1, <2>1, <2>3, RunAppend, Zenon
  <2>5. /\ rl_from' \in FromChans /\ rl_from'.q = s
        /\ rl_from'.rx = rl_from.rx /\ rl_from'.tx = rl_from.tx
    BY <1>1, <2>1, <2>2, Zenon DEF FromChans
  <2>6. /\ rl_nat' \in NatEnds /\ rl_nat'.got = t /\ rl_nat'.sent = rl_nat.sent
        /\ rl_nat'.end = rl_nat.end
    BY <1>1, <2>1, <2>4, Zenon DEF NatEnds
  <2>7. Queued' = Queued
    <3>1. Queued' = Size(t) + Size(s)
      BY <2>5, <2>6, Zenon DEF Queued
    <3> QED
      BY <1>0, <2>2, <2>4, <3>1 DEF Queued
  <2>8. RelayTypes'
    BY <1>1, <2>5, <2>6, Zenon DEF RelayInv, RelayTypes
  <2>9. GuestWay'
    BY <1>1, <2>6, Zenon DEF RelayInv, GuestWay
  <2>10. HostWay'
    BY <1>1, <2>2, <2>4, <2>5, <2>6, <2>7, Zenon DEF RelayInv, HostWay
  <2> QED
    BY <2>8, <2>9, <2>10, Zenon DEF RelayInv
<1>3. CASE rl_from.q = <<>>
  <2>1. ~rl_from.tx /\ rl_from' = rl_from /\ rl_nat' = [rl_nat EXCEPT !.end = TRUE]
    BY <1>3, Zenon DEF NatReceive
  <2>2. rl_nat' \in NatEnds /\ rl_nat'.got = rl_nat.got /\ rl_nat'.sent = rl_nat.sent
    BY <1>1, <2>1, Zenon DEF NatEnds
  <2>3. Queued = Size(rl_nat.got) /\ Queued' = Queued
    BY <1>0, <1>3, <2>1, <2>2, RunNone DEF Queued
  <2>4. RelayTypes'
    BY <1>1, <2>1, <2>2, Zenon DEF RelayInv, RelayTypes
  <2>5. GuestWay'
    BY <1>1, <2>2, Zenon DEF RelayInv, GuestWay
  <2>6. HostWay'
    BY <1>1, <2>1, <2>2, <2>3, Zenon DEF RelayInv, HostWay, Reading
  <2> QED
    BY <2>4, <2>5, <2>6, Zenon DEF RelayInv
<1> QED
  BY <1>2, <1>3, Zenon

LEMMA RelayReap ==
  ASSUME RelayInv, Reap
  PROVE  RelayInv'
<1>1. /\ UNCHANGED <<rl_reader, rl_writer, rl_chunk, rl_sock, rl_host>> /\ rl_stop' = TRUE
      /\ rl_from \in FromChans /\ rl_nat \in NatEnds /\ rl_to \in ToChans
      /\ Written' = Written /\ InHand' = InHand
  BY Zenon DEF Reap, RelayInv, RelayTypes, Written, InHand
<1>2. /\ rl_nat' = [rl_nat EXCEPT !.reaped = TRUE] /\ rl_to' = [rl_to EXCEPT !.tx = FALSE]
      /\ rl_from' = [rl_from EXCEPT !.rx = FALSE, !.q = <<>>]
  BY Zenon DEF Reap
<1>3. <<>> \in Seq(Nat)
  OBVIOUS
<1>4. rl_from' \in FromChans /\ ~rl_from'.rx /\ rl_from'.tx = rl_from.tx
  BY <1>1, <1>2, <1>3, Zenon DEF FromChans
<1>5. rl_to' \in ToChans /\ ~rl_to'.tx /\ rl_to'.q = rl_to.q
  BY <1>1, <1>2, Zenon DEF ToChans
<1>6. /\ rl_nat' \in NatEnds /\ rl_nat'.got = rl_nat.got /\ rl_nat'.sent = rl_nat.sent
      /\ rl_nat'.end = rl_nat.end
  BY <1>1, <1>2, Zenon DEF NatEnds
<1>7. RelayTypes'
  BY <1>1, <1>4, <1>5, <1>6, Zenon DEF RelayInv, RelayTypes
<1>8. GuestWay'
  BY <1>1, <1>5, <1>6, Zenon DEF RelayInv, GuestWay
<1>9. HostWay'
  BY <1>1, <1>4, <1>6, Zenon DEF RelayInv, HostWay
<1> QED
  BY <1>7, <1>8, <1>9, Zenon DEF RelayInv

\* The remote host sends, closes, resets, or sees the end of the stream.
LEMMA RelayHost ==
  ASSUME RelayInv, HostSteps, rl_sock' = rl_sock
  PROVE  RelayInv'
<1>1. /\ UNCHANGED <<rl_reader, rl_writer, rl_chunk, rl_to, rl_from, rl_stop, rl_sock, rl_nat>>
      /\ rl_reader # "connect" /\ ~rl_host.reset /\ rl_host \in RemoteHosts
      /\ Queued' = Queued /\ InHand' = InHand
  BY Zenon DEF HostSteps, RelayInv, RelayTypes, Queued, InHand
<1>2. \/ /\ ~rl_host.closed /\ rl_sock.rd /\ rl_host' = [rl_host EXCEPT !.sent = @ + 1]
      \/ /\ ~rl_host.closed /\ rl_sock.rd /\ rl_host' = [rl_host EXCEPT !.closed = TRUE]
      \/ rl_host' = [rl_host EXCEPT !.reset = TRUE]
      \/ /\ rl_sock.up = <<>> /\ ~rl_sock.wr /\ rl_host' = [rl_host EXCEPT !.fin = TRUE]
  <2>1. ASSUME rl_sock.up # <<>> PROVE rl_sock # [rl_sock EXCEPT !.up = Tail(@)]
    <3>1. PICK s \in Seq(Nat) : s = rl_sock.up
      BY RelayNumbers, Zenon DEF RelayInv
    <3>2. Tail(s) # s
      <4>1. Len(Tail(s)) = Len(s) - 1 /\ Len(s) \in Nat
        BY <2>1, <3>1, HeadTailProperties, LenProperties, Zenon
      <4> QED
        BY <4>1
    <3> QED
      BY <3>1, <3>2, Zenon DEF RelayInv, RelayTypes, Socks
  <2> QED
    BY <2>1, Zenon DEF HostSteps
<1>3. PICK n \in Nat : n = rl_host.sent + 1
  BY <1>1 DEF RemoteHosts
<1>4. /\ rl_host' \in RemoteHosts /\ rl_host'.got = rl_host.got /\ rl_host'.read = rl_host.read
      /\ (rl_host'.sent = rl_host.sent \/ (~rl_host.closed /\ rl_sock.rd))
      /\ (rl_host'.closed = rl_host.closed \/ (~rl_host.closed /\ rl_sock.rd))
      /\ (rl_host'.closed => rl_host'.sent = rl_host.sent)
      /\ (rl_host'.fin => rl_host.fin \/ (rl_sock.up = <<>> /\ ~rl_sock.wr))
  BY <1>1, <1>2, <1>3, Zenon DEF RemoteHosts
<1>5. Written' = Written
  BY <1>1, <1>4, Zenon DEF Written
<1>6. RelayTypes'
  BY <1>1, <1>4, Zenon DEF RelayInv, RelayTypes
<1>7. GuestWay'
  BY <1>1, <1>4, <1>5, Zenon DEF RelayInv, GuestWay
<1>8. HostWay'
  BY <1>1, <1>4, Zenon DEF RelayInv, HostWay, RelayTypes, Reading
<1> QED
  BY <1>6, <1>7, <1>8, Zenon DEF RelayInv

\* The remote host reads.
LEMMA RelayHostReads ==
  ASSUME RelayInv, HostSteps, rl_sock' # rl_sock
  PROVE  RelayInv'
<1>0. Size(rl_host.got) \in Nat /\ Size(rl_sock.up) \in Nat
  BY RelayNumbers, Zenon DEF RelayInv
<1>1. /\ UNCHANGED <<rl_reader, rl_writer, rl_chunk, rl_to, rl_from, rl_stop, rl_nat>>
      /\ rl_host \in RemoteHosts /\ rl_sock \in Socks /\ Queued' = Queued /\ InHand' = InHand
      /\ Run(rl_host.got, 0) /\ Run(rl_sock.up, Size(rl_host.got))
  BY Zenon DEF HostSteps, RelayInv, RelayTypes, GuestWay, Queued, InHand
<1>2. PICK n, s, t :
        /\ n = Head(rl_sock.up) /\ s = Tail(rl_sock.up) /\ t = Append(rl_host.got, n)
        /\ rl_sock' = [rl_sock EXCEPT !.up = s] /\ rl_host' = [rl_host EXCEPT !.got = t]
        /\ rl_sock.up # <<>>
  BY Zenon DEF HostSteps
<1>3. /\ n = Size(rl_host.got) + 1 /\ s \in Seq(Nat) /\ Run(s, Size(rl_host.got) + 1)
      /\ Size(s) = Size(rl_sock.up) - 1
  BY <1>0, <1>1, <1>2, RunTail, Zenon
<1>4. n = 0 + Size(rl_host.got) + 1 /\ 0 \in Nat
  BY <1>0, <1>3
<1>5. t \in Seq(Nat) /\ Run(t, 0) /\ Size(t) = Size(rl_host.got) + 1
  BY <1>1, <1>2, <1>4, RunAppend, Zenon
<1>6. rl_sock' \in Socks /\ rl_sock'.up = s /\ rl_sock'.wr = rl_sock.wr /\ rl_sock'.rd = rl_sock.rd
  BY <1>1, <1>2, <1>3, Zenon DEF Socks
<1>7. /\ rl_host' \in RemoteHosts /\ rl_host'.got = t /\ rl_host'.sent = rl_host.sent
      /\ rl_host'.read = rl_host.read /\ rl_host'.closed = rl_host.closed
      /\ rl_host'.reset = rl_host.reset /\ rl_host'.fin = rl_host.fin
  BY <1>1, <1>2, <1>5, Zenon DEF RemoteHosts
<1>8. Written' = Written
  <2>1. Written' = Size(t) + Size(s)
    BY <1>6, <1>7, Zenon DEF Written
  <2> QED
    BY <1>0, <1>3, <1>5, <2>1 DEF Written
<1>9. RelayTypes'
  BY <1>1, <1>6, <1>7, Zenon DEF RelayInv, RelayTypes
<1>10. GuestWay'
  BY <1>1, <1>2, <1>3, <1>5, <1>6, <1>7, <1>8, Zenon DEF RelayInv, GuestWay
<1>11. HostWay'
  BY <1>1, <1>6, <1>7, Zenon DEF RelayInv, HostWay
<1> QED
  BY <1>9, <1>10, <1>11, Zenon DEF RelayInv

LEMMA RelayInitInv == RelayInit => RelayInv
<1> SUFFICES ASSUME RelayInit PROVE RelayInv
  BY Zenon
<1>1. <<>> \in Seq(Nat) /\ 0 \in Nat
  OBVIOUS
<1>2. /\ rl_host.got = <<>> /\ rl_sock.up = <<>> /\ rl_to.q = <<>> /\ rl_from.q = <<>>
      /\ rl_nat.got = <<>> /\ rl_nat.sent = 0 /\ rl_host.read = 0 /\ rl_host.sent = 0
  BY Zenon DEF RelayInit
<1>3. Written = 0 /\ Queued = 0 /\ InHand = 0 /\ rl_nat.sent = Written + InHand + Size(rl_to.q)
  <2>1. 0 + 0 = 0
    OBVIOUS
  <2>2. Written = 0 /\ Queued = 0
    BY <1>2, <2>1, RunNone, Zenon DEF Written, Queued
  <2>3. InHand = 0
    BY Zenon DEF RelayInit, InHand
  <2> QED
    BY <1>2, <2>1, <2>2, <2>3, RunNone, Zenon
<1>4. RelayTypes
  BY <1>1, Zenon DEF RelayInit, RelayTypes, Reading, Hands, ToChans, FromChans, Socks, RemoteHosts, NatEnds
<1>5. GuestWay
  BY <1>2, <1>3, RunNone, Zenon DEF RelayInit, GuestWay, Reading
<1>6. HostWay
  BY <1>2, <1>3, RunNone, Zenon DEF RelayInit, HostWay, Reading
<1> QED
  BY <1>4, <1>5, <1>6, Zenon DEF RelayInv

LEMMA RelayNextInv == RelayInv /\ [RelayNext]_relayVars => RelayInv'
<1> SUFFICES ASSUME RelayInv, [RelayNext]_relayVars PROVE RelayInv'
  BY Zenon
<1>1. CASE Threads
  BY <1>1, RelayConnect, RelayFails, RelayRead, RelaySend, RelayRecv, RelayWrite, RelayShut, Zenon
     DEF Threads
<1>2. CASE NatSend \/ NatReceive \/ Reap
  BY <1>2, RelayNatSend, RelayNatReceive, RelayReap, Zenon
<1>3. CASE HostSteps
  BY <1>3, RelayHost, RelayHostReads, Zenon
<1>4. CASE UNCHANGED relayVars
  <2>1. RelayTypes /\ GuestWay /\ HostWay
    BY Zenon DEF RelayInv
  <2>2. RelayTypes'
    BY <1>4, <2>1, Zenon DEF relayVars, RelayTypes
  <2>3. GuestWay'
    BY <1>4, <2>1, Zenon DEF relayVars, GuestWay, Written, InHand
  <2>4. HostWay'
    BY <1>4, <2>1, Zenon DEF relayVars, HostWay, Queued
  <2> QED
    BY <2>2, <2>3, <2>4, Zenon DEF RelayInv
<1> QED
  BY <1>1, <1>2, <1>3, <1>4, Zenon DEF RelayNext

(***************************************************************************)
(* The relay's two threads pass both streams on whole and in order, for    *)
(* every depth of the channels, every room in the socket and every length  *)
(* of the streams (spawn_relay, its reader loop and its writer thread).    *)
(***************************************************************************)
THEOREM RelaysWhole == RelaySpec => []RelayedWhole
BY RelayInitInv, RelayNextInv, InvRelays, PTL DEF RelaySpec
=============================================================================
