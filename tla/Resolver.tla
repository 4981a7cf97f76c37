------------------------------ MODULE Resolver ------------------------------
(***************************************************************************)
(* Names for the guest: the gateway's DNS forwarder                        *)
(* (crates/net/src/forwarder.rs), its allowlist (crates/net/src/allow.rs)  *)
(* and the worker that resolves on its behalf (web/vm-worker.js).          *)
(*                                                                         *)
(* The forwarder answers from a cache only.  A permitted name that is not  *)
(* cached is queued, the query dropped, and the worker's loop hands the    *)
(* queue to asynchronous fetches whose answers are cached when they come:  *)
(* possibly after the worker booted another guest with another allowlist,  *)
(* since the set of fetches in flight belongs to the worker and not to the *)
(* guest.  The same cache decides, address to name, which connections the  *)
(* NAT opens.                                                              *)
(*                                                                         *)
(* Names are already in the lower case the code compares them in.          *)
(***************************************************************************)
EXTENDS Naturals, FiniteSets

CONSTANTS Names, Ips, Ports,
          Routable,    \* the addresses is_routable accepts
          Allowlists,  \* the lists a boot may bring: sets of [host, port]
          Answers,     \* sets of addresses a fetch may bring
          Literal,     \* [Names -> Ips \cup {AnyHost}]: the address a literal stands for
          AnyHost,     \* `*` as a host, and "no name", "no address"
          AnyPort,     \* `*` as a port
          MaxPending,  \* MAX_PENDING, 256 in the code
          MaxGuests    \* bound: guests booted

\* The hosts a list names.
Hosts(allow) == {e.host : e \in allow} \ {AnyHost}

ASSUME ResolverAssumption ==
  /\ AnyHost \notin Names
  /\ Answers \subseteq SUBSET Ips
  /\ Literal \in [Names -> Ips \cup {AnyHost}]
  /\ \A allow \in Allowlists : Hosts(allow) \subseteq Names

VARIABLES dns_allow,   \* the allowlist of the guest that runs
          dns_by_name, \* by_name
          dns_by_ip,   \* by_ip
          dns_pending, \* pending
          dns_flight,  \* dnsInFlight
          dns_fetches, \* external: the fetches outstanding, a name each
          dns_wanted,  \* names the guest's resolver is retrying
          dns_found,   \* history: what fetches and literals have said, <<name, ip>>
          dns_guests

dnsVars == <<dns_allow, dns_by_name, dns_by_ip, dns_pending, dns_flight, dns_fetches,
             dns_wanted, dns_found, dns_guests>>

ResolverTypeOK ==
  /\ dns_allow \in Allowlists \cup {{}} /\ dns_guests \in 0 .. MaxGuests
  /\ dns_by_name \in [Names -> SUBSET Ips]
  /\ dns_by_ip \in [Ips -> Names \cup {AnyHost}]
  /\ dns_pending \subseteq Names /\ Cardinality(dns_pending) <= MaxPending
  /\ dns_fetches \subseteq dns_flight /\ dns_flight \subseteq Names /\ dns_wanted \subseteq Names
  /\ dns_found \subseteq Names \X Ips

-----------------------------------------------------------------------------
(* The allowlist.                                                          *)

Permits(allow, name, port) ==
  \E e \in allow : e.host = AnyHost \/ (e.host = name /\ e.port \in {AnyPort, port})

PermitsHost(allow, name) == \E e \in allow : e.host \in {AnyHost, name}

-----------------------------------------------------------------------------
(* The forwarder.  A cache is a record of the two maps.                     *)

Cache == [by_name |-> dns_by_name, by_ip |-> dns_by_ip]
EmptyCache == [by_name |-> [n \in Names |-> {}], by_ip |-> [a \in Ips |-> AnyHost]]

\* What a cache holds once addrs are recorded under name.
Recorded(cache, name, routable, addrs) ==
  [by_name |-> [cache.by_name EXCEPT ![name] = @ \cup routable],
   by_ip   |-> [a \in Ips |-> IF a \in addrs THEN name ELSE cache.by_ip[a]]]

\* Mutant: addresses are filtered on their way to the answers, not to the NAT.
CacheUnfiltered(cache, allow, name, addrs) ==
  IF PermitsHost(allow, name) THEN Recorded(cache, name, addrs \cap Routable, addrs) ELSE cache

\* cache_resolution()
CacheResolution(cache, allow, name, addrs) ==
  IF PermitsHost(allow, name)
  THEN Recorded(cache, name, addrs \cap Routable, addrs \cap Routable) ELSE cache

\* connection_permitted()
ConnectionPermitted(ip, port) ==
  dns_by_ip[ip] # AnyHost /\ Permits(dns_allow, dns_by_ip[ip], port)

-----------------------------------------------------------------------------
(* The worker.                                                              *)

\* resolveHost() for each name of a set: literals are cached at once, a name
\* whose fetch is outstanding is skipped, the others are fetched.
Literals(names) == {n \in names \ dns_flight : Literal[n] # AnyHost}

\* cache_resolution() of each; of two spellings of one address one stays in by_ip.
CacheLiterals(cache, allow, names) ==
  LET kept == {n \in Literals(names) : PermitsHost(allow, n) /\ Literal[n] \in Routable}
      Of(a) == {n \in kept : Literal[n] = a}
  IN  [by_name |-> [n \in Names |->
                      IF n \in kept THEN cache.by_name[n] \cup {Literal[n]} ELSE cache.by_name[n]],
       by_ip   |-> [a \in Ips |-> IF Of(a) # {} THEN CHOOSE n \in Of(a) : TRUE ELSE cache.by_ip[a]]]

ResolveAll(cache, allow, names) ==
  /\ LET c == CacheLiterals(cache, allow, names)
     IN  dns_by_name' = c.by_name /\ dns_by_ip' = c.by_ip
  /\ dns_flight' = dns_flight \cup (names \ Literals(names))
  /\ dns_fetches' = dns_fetches \cup (names \ (Literals(names) \cup dns_flight))
  /\ dns_found' = dns_found \cup {<<n, Literal[n]>> : n \in Literals(names)}

\* "boot": a new guest with an empty cache, and netPreResolve of its allowlist.
BootWith(allow) ==
  /\ dns_guests < MaxGuests /\ dns_guests' = dns_guests + 1
  /\ dns_allow' = allow /\ dns_pending' = {} /\ dns_wanted' = {}
  /\ ResolveAll(EmptyCache, allow, Hosts(allow))

\* pumpRelay() over net_take_dns_requests().
TakePending ==
  /\ dns_pending # {} /\ dns_pending' = {}
  /\ ResolveAll(Cache, dns_allow, dns_pending)
  /\ UNCHANGED <<dns_allow, dns_wanted, dns_guests>>

\* A fetch ends: finally { dnsInFlight.delete(host) } on both ways out.
FetchReturns(name, addrs) ==
  /\ name \in dns_fetches /\ dns_fetches' = dns_fetches \ {name}
  /\ dns_flight' = dns_flight \ {name}
  /\ LET c == CacheResolution(Cache, dns_allow, name, addrs)
     IN  dns_by_name' = c.by_name /\ dns_by_ip' = c.by_ip
  /\ dns_found' = dns_found \cup {<<name, a>> : a \in addrs}
  /\ UNCHANGED <<dns_allow, dns_pending, dns_wanted, dns_guests>>

\* Mutant: only a fetch that succeeds leaves the set of those in flight.
FetchLeaks(name) ==
  /\ name \in dns_fetches /\ dns_fetches' = dns_fetches \ {name}
  /\ UNCHANGED <<dns_allow, dns_by_name, dns_by_ip, dns_pending, dns_flight, dns_wanted,
                 dns_found, dns_guests>>

FetchFails(name) ==
  /\ name \in dns_fetches /\ dns_fetches' = dns_fetches \ {name}
  /\ dns_flight' = dns_flight \ {name}
  /\ UNCHANGED <<dns_allow, dns_by_name, dns_by_ip, dns_pending, dns_wanted, dns_found,
                 dns_guests>>

-----------------------------------------------------------------------------
(* The guest.                                                               *)

\* A program looks a name up (a literal is not asked for).
Want(name) ==
  /\ Literal[name] = AnyHost
  /\ name \notin dns_wanted /\ dns_wanted' = dns_wanted \cup {name}
  /\ UNCHANGED <<dns_allow, dns_by_name, dns_by_ip, dns_pending, dns_flight, dns_fetches,
                 dns_found, dns_guests>>

\* respond_to_query() to an A query: an answer and NXDOMAIN end the wait, a
\* query that is dropped is sent again.
Query(name) ==
  /\ name \in dns_wanted
  /\ LET queue == dns_by_name[name] = {} /\ PermitsHost(dns_allow, name)
     IN  /\ dns_wanted' = IF queue THEN dns_wanted ELSE dns_wanted \ {name}
         /\ dns_pending' = IF queue /\ Cardinality(dns_pending) < MaxPending
                           THEN dns_pending \cup {name} ELSE dns_pending
  /\ UNCHANGED <<dns_allow, dns_by_name, dns_by_ip, dns_flight, dns_fetches, dns_found,
                 dns_guests>>

\* A worker that has booted nothing: no NAT, nothing permitted.
ResolverInit ==
  /\ dns_allow = {}
  /\ dns_by_name = EmptyCache.by_name /\ dns_by_ip = EmptyCache.by_ip
  /\ dns_pending = {} /\ dns_wanted = {} /\ dns_guests = 0
  /\ dns_flight = {} /\ dns_fetches = {} /\ dns_found = {}

ResolverNext ==
  \/ TakePending
  \/ \E allow \in Allowlists : BootWith(allow)
  \/ \E name \in Names : Want(name) \/ Query(name) \/ FetchFails(name)
  \/ \E name \in Names, addrs \in Answers : FetchReturns(name, addrs)

ResolverSpec == ResolverInit /\ [][ResolverNext]_dnsVars

\* The worker's loop comes round, a resolver retries, a fetch ends one way or
\* the other, and does not fail for ever.
ResolverFairness ==
  /\ WF_dnsVars(TakePending)
  /\ \A name \in Names :
       /\ WF_dnsVars(Query(name))
       /\ SF_dnsVars(\E addrs \in Answers : /\ addrs \cap Routable # {}
                                            /\ FetchReturns(name, addrs))

-----------------------------------------------------------------------------
(* The cache vouches for what it allows: an address the guest may connect   *)
(* to on a port was found, by this worker, for a name the allowlist of the  *)
(* guest that runs now permits on that port, and is globally routable; and  *)
(* every address it answers is one whose connections it can decide          *)
(* (cache_resolution, connection_permitted), although answers of fetches    *)
(* started for an earlier guest arrive late and names share addresses.      *)
CacheVouched ==
  /\ \A ip \in Ips, port \in Ports :
       ConnectionPermitted(ip, port) =>
         ip \in Routable /\ \E n \in Names : <<n, ip>> \in dns_found /\ Permits(dns_allow, n, port)
  /\ \A n \in Names : \A ip \in dns_by_name[n] :
       /\ ip \in Routable /\ <<n, ip>> \in dns_found /\ PermitsHost(dns_allow, n)
       /\ dns_by_ip[ip] # AnyHost /\ <<dns_by_ip[ip], ip>> \in dns_found

(* A name the guest keeps asking for is answered in the end, or the guest   *)
(* is replaced, although its first queries are dropped, the queue may be    *)
(* full and fetches may fail (respond_to_query, resolveHost).               *)
QueryAnswered ==
  \A name \in {n \in Names : Literal[n] = AnyHost} :
    name \in dns_wanted ~> name \notin dns_wanted

=============================================================================
