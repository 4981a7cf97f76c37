------------------------------ MODULE Upstream ------------------------------
(***************************************************************************)
(* Chaining through a third party's proxy (crates/proxy/src/upstream.rs):  *)
(* the three handshakes and the rotation of "auto".                        *)
(*                                                                         *)
(* Sessions run concurrently and share the rotation counter.  An attempt   *)
(* dials one proxy of the list and runs its handshake over what that proxy *)
(* answers.  Bytes are numbers; of an answer only what the handshake reads *)
(* matters: a status byte stands for the HTTP status, 7 for a byte that is *)
(* skipped, 80 and 81 for the first bytes of the target.                   *)
(***************************************************************************)
EXTENDS Integers, Sequences, FiniteSets

CONSTANTS Sessions,
          List,         \* load_auto_list(): the kinds of the proxies in the file
          AutoMaxTries, \* AUTO_MAX_TRIES, 6 in the code
          MaxHeader,    \* 8192 in http_connect
          MaxCalls      \* bound: calls of open_auto

VARIABLES up_next,     \* NEXT
          up_session   \* [state, start, i, tried, rest]

upVars == <<up_next, up_session>>

Idle == [state |-> "idle", start |-> 0, i |-> 0, tried |-> << >>, rest |-> << >>]

UpstreamTypeOK ==
  /\ up_next \in 0 .. MaxCalls
  /\ \A s \in Sessions : /\ up_session[s].state \in {"idle", "trying", "open", "failed"}
                         /\ up_session[s].i \in 0 .. Len(List)

-----------------------------------------------------------------------------
(* The handshakes: a set, empty on failure, else the bytes left to relay.  *)

From(bytes, k) == SubSeq(bytes, k, Len(bytes))

\* Mutant: the bound address is taken for an IPv4 one whatever ATYP says.
Socks5FixedAddress(bytes) ==
  IF Len(bytes) >= 12 /\ bytes[1] = 5 /\ bytes[2] = 0 /\ bytes[4] = 0
  THEN {From(bytes, 13)} ELSE {}

\* Method selection, reply head, and the bound address by its type: IPv4, IPv6,
\* or a name behind its length; then the port.
Socks5Handshake(bytes) ==
  IF ~(Len(bytes) >= 6 /\ bytes[1] = 5 /\ bytes[2] = 0 /\ bytes[4] = 0) THEN {}
  ELSE LET skip == CASE bytes[6] = 1 -> 4 + 2
                     [] bytes[6] = 4 -> 16 + 2
                     [] bytes[6] = 3 /\ Len(bytes) >= 7 -> 1 + bytes[7] + 2
                     [] OTHER -> Len(bytes)
       IN  IF Len(bytes) >= 6 + skip THEN {From(bytes, 7 + skip)} ELSE {}

Socks4Handshake(bytes) == IF Len(bytes) >= 8 /\ bytes[2] = 90 THEN {From(bytes, 9)} ELSE {}

\* Byte by byte to the first blank line, which has to come within MaxHeader.
HttpConnect(bytes) ==
  LET ends == {k \in 4 .. Len(bytes) : SubSeq(bytes, k - 3, k) = <<13, 10, 13, 10>>}
  IN  {From(bytes, k + 1) : k \in {e \in ends : /\ \A x \in ends : e <= x
                                                /\ e <= MaxHeader
                                                /\ bytes[1] \in 200 .. 299}}

Handshake(kind, bytes) ==
  CASE kind = "socks5" -> Socks5Handshake(bytes)
    [] kind = "socks4" -> Socks4Handshake(bytes)
    [] kind = "http"   -> HttpConnect(bytes)

-----------------------------------------------------------------------------
(* What proxies answer: a grant in each of its forms with the target's     *)
(* first bytes behind it, a refusal, an answer cut short, none at all.     *)

Skipped(n) == [k \in 1 .. n |-> 7]
Target     == <<80, 81>>

Grants(kind) ==
  CASE kind = "socks5" -> {<<5, 0, 5, 0, 0, 1>> \o Skipped(6), <<5, 0, 5, 0, 0, 4>> \o Skipped(18),
                           <<5, 0, 5, 0, 0, 3, 0>> \o Skipped(2),
                           <<5, 0, 5, 0, 0, 3, 9>> \o Skipped(11)}
    [] kind = "socks4" -> {<<0, 90>> \o Skipped(6)}
    [] kind = "http"   -> {<<200>> \o Skipped(n) \o <<13, 10, 13, 10>> : n \in {0, 3}}

Refusals(kind) ==
  CASE kind = "socks5" -> {<<5, 255>>, <<5, 0, 5, 5, 0, 1>> \o Skipped(6), <<5, 0, 5, 0, 0, 2>>}
    [] kind = "socks4" -> {<<0, 91>> \o Skipped(6)}
    [] kind = "http"   -> {<<403, 13, 10, 13, 10>>, <<200>> \o Skipped(MaxHeader) \o <<13, 10, 13, 10>>}

Cut(bytes) == SubSeq(bytes, 1, Len(bytes) - 1)

ProxyAnswers(kind) ==
  {g \o Target : g \in Grants(kind)} \cup {Cut(g) : g \in Grants(kind)} \cup Refusals(kind)
    \cup {<< >>}

-----------------------------------------------------------------------------
(* The rotation.                                                           *)

\* open_auto() up to its first await; an empty list is refused at once.
OpenAuto(s) ==
  /\ up_session[s].state \in {"idle", "open", "failed"} /\ up_next < MaxCalls
  /\ IF List = << >>
     THEN /\ up_session' = [up_session EXCEPT ![s] = [Idle EXCEPT !.state = "failed"]]
          /\ UNCHANGED up_next
     ELSE /\ up_session' = [up_session EXCEPT
                              ![s] = [Idle EXCEPT !.state = "trying", !.start = up_next]]
          /\ up_next' = up_next + 1

Tries == IF AutoMaxTries < Len(List) THEN AutoMaxTries ELSE Len(List)

\* Mutant: the retry starts where the counter is now, not where this call began.
EntryAtCounter(s) == 1 + ((up_next + up_session[s].i) % Len(List))

Entry(s) == 1 + ((up_session[s].start + up_session[s].i) % Len(List))

\* One round of the loop: open_via() on one entry, with every way it fails
\* (no routable address, connect or handshake timeout, refusal) alike.
Try(s, bytes) ==
  /\ up_session[s].state = "trying" /\ up_session[s].i < Tries
  /\ LET left == Handshake(List[Entry(s)], bytes)
     IN  up_session' = [up_session EXCEPT
           ![s].tried = Append(@, Entry(s)), ![s].i = @ + 1,
           ![s].state = IF left # {} THEN "open" ELSE @,
           ![s].rest  = IF left # {} THEN CHOOSE r \in left : TRUE ELSE @]
  /\ UNCHANGED up_next

GiveUp(s) ==
  /\ up_session[s].state = "trying" /\ up_session[s].i = Tries
  /\ up_session' = [up_session EXCEPT ![s].state = "failed"]
  /\ UNCHANGED up_next

UpstreamInit == up_next = 0 /\ up_session = [s \in Sessions |-> Idle]

UpstreamNext ==
  \E s \in Sessions :
    \/ OpenAuto(s) \/ GiveUp(s)
    \/ up_session[s].state = "trying" /\ \E bytes \in ProxyAnswers(List[Entry(s)]) : Try(s, bytes)

-----------------------------------------------------------------------------
(* A tunnel starts at the target's first byte: whatever form the proxy's    *)
(* answer had, the handshake that succeeded consumed it and nothing more,   *)
(* and none succeeds on a refusal or a truncated answer (socks5_handshake,  *)
(* socks4_handshake, http_connect).                                         *)
TunnelAligned ==
  \A s \in Sessions : up_session[s].state = "open" => up_session[s].rest = Target

(* The rotation spreads and covers: an attempt never repeats a proxy, one   *)
(* that gives up has tried as many as it may, and sessions that started     *)
(* side by side begin with different proxies, whatever attempts come        *)
(* between (open_auto and its static counter).                              *)
RotationCovers ==
  \A s \in Sessions :
    LET me == up_session[s]
    IN  /\ Cardinality({me.tried[k] : k \in 1 .. Len(me.tried)}) = Len(me.tried)
        /\ (me.state = "failed" /\ List # << >>) => Len(me.tried) = Tries
        /\ \A t \in Sessions \ {s} :
             /\ me.tried # << >> /\ up_session[t].tried # << >>
             /\ me.start - up_session[t].start \in 1 .. Len(List) - 1
             => me.tried[1] # up_session[t].tried[1]

=============================================================================
