---------------------------- MODULE ProxySession ----------------------------
(***************************************************************************)
(* One connection of the WebSocket proxy: handle in                        *)
(* crates/proxy/src/main.rs, from the handshake to the end of the relay.   *)
(*                                                                         *)
(* Two directions run as futures of one task, joined: each takes a frame   *)
(* (or reads a buffer), waits until it is written, then accounts for it.   *)
(* They interleave at their awaits, together with the idle watchdog.  The  *)
(* join ends when both have ended, whatever the first one returned.        *)
(***************************************************************************)
EXTENDS Naturals, Sequences

CONSTANTS
  Sizes,      \* sizes of a chunk
  Frames,     \* kinds of frames the client sends: "data", "text"
  MaxFrames,  \* frames the client sends at most
  MaxReply,   \* chunks the upstream host sends at most
  MaxBytes,   \* WWWVM_PROXY_MAX_BYTES, 0 = off
  Idle,       \* WWWVM_PROXY_IDLE_TIMEOUT_SECS, 0 = off
  Period      \* ticks between two looks of the watchdog, max(idle / 2, 1)

ASSUME SessionAssumption ==
  /\ Sizes \subseteq Nat \ {0}
  /\ \E n \in Sizes : \A m \in Sizes : m <= n
  /\ {MaxFrames, MaxReply, MaxBytes, Idle} \subseteq Nat
  /\ Period \in Nat \ {0}

VARIABLES
  phase,    \* "handshake", "frame", "opening", "relay" or "closed"
  wait,     \* time left for the connect frame
  client,   \* frames under way from the client, how many it may still send,
            \* whether it has sent its last one, what it has received, and
            \* whether it was told (ERR) why its flow did not open
  host,     \* chunks under way from the upstream host, how many it may still
            \* send, whether it has ended its stream or reset the connection,
            \* whether it sees ours end
  up,       \* ws_to_tcp: "read", "write", "done" or "err", and its chunk
  down,     \* tcp_to_ws: the same
  counted,  \* bytes counted against the cap
  quiet,    \* time since last_ms
  watch,    \* time to the watchdog's next look
  why       \* why the session ended: "none", "refused" (no connect frame, or one
            \* that is not understood), "unopened", "ended" or "idle"

sessionVars ==
  <<phase, wait, client, host, up, down, counted, quiet, watch, why>>

FrameTimeout == 2   \* the ten seconds of the connect frame, in ticks

Frame == [kind : Frames, size : Sizes] \cup [kind : {"FIN", "Close"}, size : {0}]

SessionTypeOK ==
  /\ phase \in {"handshake", "frame", "opening", "relay", "closed"}
  /\ \A k \in DOMAIN client.sent : client.sent[k] \in Frame
  /\ {up.at, down.at} \subseteq {"read", "write", "done", "err"}
  /\ quiet \in Nat
  /\ watch \in 0..Period /\ wait \in 0..FrameTimeout
  /\ why \in {"none", "refused", "unopened", "ended", "idle"}

NewClient == [sent |-> <<>>, left |-> MaxFrames, fin |-> FALSE,
              gone |-> FALSE, got |-> 0, told |-> FALSE]
NewHost == [sent |-> <<>>, left |-> MaxReply, eof |-> FALSE,
            reset |-> FALSE, total |-> 0, shut |-> FALSE]
NewUp == [at |-> "read", size |-> 0, kind |-> "data"]
NewDown == [at |-> "read", size |-> 0]

SessionInit ==
  /\ phase = "handshake" /\ wait = FrameTimeout
  /\ client = NewClient /\ host = NewHost
  /\ up = NewUp /\ down = NewDown
  /\ counted = 0
  /\ quiet = 0 /\ watch = Period /\ why = "none"

\* handle is called for the next connection.
SessionStarts ==
  /\ phase' = "handshake" /\ wait' = FrameTimeout
  /\ client' = NewClient /\ host' = NewHost
  /\ up' = NewUp /\ down' = NewDown
  /\ counted' = 0
  /\ quiet' = 0 /\ watch' = Period /\ why' = "none"

-----------------------------------------------------------------------------
(* Opening.                                                                *)

End(reason) == phase' = "closed" /\ why' = reason

\* accept_hdr_async, with the Origin check.
Handshake ==
  /\ phase = "handshake"
  /\ \/ phase' = "frame" /\ UNCHANGED why
     \/ End("refused")
  /\ UNCHANGED <<wait, client, host, up, down, counted, quiet, watch>>

\* An ERR text frame, then the error return.
Refuse == End("unopened") /\ client' = [client EXCEPT !.told = TRUE]

\* The connect frame: none in time, not JSON, not allowlisted, or accepted.
ConnectFrame ==
  /\ phase = "frame"
  /\ \/ wait > 0 /\ phase' = "opening" /\ UNCHANGED <<why, client>>
     \/ wait > 0 /\ Refuse
     \/ End("refused") /\ UNCHANGED client
  /\ UNCHANGED <<wait, host, up, down, counted, quiet, watch>>

\* The upstream connection: through the given upstream, from the pool, or
\* direct.  A name that does not resolve leaves by `?`, without an ERR frame.
OpenUpstream ==
  /\ phase = "opening"
  /\ \E route \in {"upstream", "auto", "direct"} :
       \/ phase' = "relay" /\ UNCHANGED <<why, client>>
       \/ Refuse
       \/ route = "direct" /\ End("unopened") /\ UNCHANGED client
  /\ UNCHANGED <<wait, host, up, down, counted, quiet, watch>>

-----------------------------------------------------------------------------
(* ws_to_tcp.                                                              *)

\* Over the cap: the error ends this direction only, and drops its half.
OverBytes(c) == MaxBytes > 0 /\ c > MaxBytes

UpRead ==
  /\ phase = "relay" /\ up.at = "read" /\ client.sent # <<>>
  /\ client' = [client EXCEPT !.sent = Tail(@)]
  /\ LET f == Head(client.sent) IN
       IF f.kind \in {"FIN", "Close"}
       THEN up' = [up EXCEPT !.at = "done"] /\ host' = [host EXCEPT !.shut = TRUE]
       ELSE up' = [at |-> "write", size |-> f.size, kind |-> f.kind]
            /\ UNCHANGED host
  /\ UNCHANGED <<phase, wait, down, counted, quiet, watch, why>>

\* The client vanished without a Close: the stream ends, or fails.
UpEnds ==
  /\ phase = "relay" /\ up.at = "read" /\ client.sent = <<>> /\ client.gone
  /\ \E end \in {"done", "err"} : up' = [up EXCEPT !.at = end]
  /\ host' = [host EXCEPT !.shut = TRUE]
  /\ UNCHANGED <<phase, wait, client, down, counted, quiet, watch, why>>

\* The upstream host has reset the connection: write_all fails.
UpFails ==
  /\ phase = "relay" /\ up.at = "write" /\ host.reset
  /\ up' = [up EXCEPT !.at = "err"]
  /\ host' = [host EXCEPT !.shut = TRUE]
  /\ UNCHANGED <<phase, wait, client, down, counted, quiet, watch, why>>

\* write_all is through.  Binary frames are counted, other text is not.
UpWrite ==
  /\ phase = "relay" /\ up.at = "write" /\ ~host.reset
  /\ quiet' = 0
  /\ IF up.kind = "data"
       THEN /\ counted' = counted + up.size
            /\ up' = [up EXCEPT !.at = IF OverBytes(counted') THEN "err" ELSE "read"]
       ELSE /\ up' = [up EXCEPT !.at = "read"]
            /\ UNCHANGED counted
  /\ host' = [host EXCEPT !.shut = @ \/ up'.at = "err"]
  /\ UNCHANGED <<phase, wait, client, down, watch, why>>

-----------------------------------------------------------------------------
(* tcp_to_ws.                                                              *)

DownRead ==
  /\ phase = "relay" /\ down.at = "read" /\ host.sent # <<>> /\ ~host.reset
  /\ down' = [at |-> "write", size |-> Head(host.sent)]
  /\ host' = [host EXCEPT !.sent = Tail(@)]
  /\ UNCHANGED <<phase, wait, client, up, counted, quiet, watch, why>>

\* End of the upstream's stream: a Close frame to the client.
DownEnds ==
  /\ phase = "relay" /\ down.at = "read" /\ host.sent = <<>> /\ host.eof
  /\ down' = [down EXCEPT !.at = "done"]
  /\ UNCHANGED <<phase, wait, client, host, up, counted, quiet, watch, why>>

DownWrite ==
  /\ phase = "relay" /\ down.at = "write" /\ ~client.gone
  /\ quiet' = 0
  /\ counted' = counted + down.size
  /\ down' = [down EXCEPT !.at = IF OverBytes(counted') THEN "err" ELSE "read"]
  /\ client' = [client EXCEPT !.got = @ + down.size]
  /\ UNCHANGED <<phase, wait, host, up, watch, why>>

\* The client is gone and the send fails, or the upstream host has reset the
\* connection and the read fails.
DownFails ==
  /\ phase = "relay"
  /\ \/ down.at = "write" /\ client.gone
     \/ down.at = "read" /\ host.reset
  /\ down' = [down EXCEPT !.at = "err"]
  /\ UNCHANGED <<phase, wait, client, host, up, counted, quiet, watch, why>>

-----------------------------------------------------------------------------
Ended(d) == d.at \in {"done", "err"}

JoinFirst ==
  /\ phase = "relay" /\ (Ended(up) \/ Ended(down))
  /\ End("ended")
  /\ UNCHANGED <<wait, client, host, up, down, counted, quiet, watch>>

Join ==
  /\ phase = "relay" /\ Ended(up) /\ Ended(down)
  /\ End("ended")
  /\ UNCHANGED <<wait, client, host, up, down, counted, quiet, watch>>

WatchWhileBothRun ==
  /\ phase = "relay" /\ Idle > 0 /\ watch = 0 /\ ~Ended(up) /\ ~Ended(down)
  /\ IF quiet >= Idle THEN End("idle") /\ UNCHANGED watch
     ELSE watch' = Period /\ UNCHANGED <<phase, why>>
  /\ UNCHANGED <<wait, client, host, up, down, counted, quiet>>

WatchAfterPeriod ==
  /\ phase = "relay" /\ Idle > 0 /\ watch = 0
  /\ IF quiet > Idle + Period THEN End("idle") /\ UNCHANGED watch
     ELSE watch' = Period /\ UNCHANGED <<phase, why>>
  /\ UNCHANGED <<wait, client, host, up, down, counted, quiet>>

\* The watchdog wakes, and either ends the session or sleeps again.
Watch ==
  /\ phase = "relay" /\ Idle > 0 /\ watch = 0
  /\ IF quiet >= Idle THEN End("idle") /\ UNCHANGED watch
     ELSE watch' = Period /\ UNCHANGED <<phase, why>>
  /\ UNCHANGED <<wait, client, host, up, down, counted, quiet>>

\* Time passes; no timer that is due is overtaken.
Pass ==
  /\ \/ phase = "frame" /\ wait > 0 /\ wait' = wait - 1 /\ UNCHANGED <<quiet, watch>>
     \/ /\ phase = "relay" /\ Idle > 0 /\ watch > 0
        /\ quiet' = quiet + 1 /\ watch' = watch - 1 /\ UNCHANGED wait
  /\ UNCHANGED <<phase, client, host, up, down, counted, why>>

-----------------------------------------------------------------------------
(* The client and the upstream host.                                       *)

ClientSends ==
  /\ phase = "relay" /\ client.left > 0 /\ ~client.fin /\ ~client.gone
  /\ \E f \in Frame :
       client' = [client EXCEPT !.sent = Append(@, f), !.left = @ - 1,
                                !.fin = f.kind \in {"FIN", "Close"}]
  /\ UNCHANGED <<phase, wait, host, up, down, counted, quiet, watch, why>>

\* The tab is closed, or the client answers our Close.
ClientGoes ==
  /\ phase = "relay" /\ ~client.gone
  /\ client' = [client EXCEPT !.gone = TRUE]
  /\ UNCHANGED <<phase, wait, host, up, down, counted, quiet, watch, why>>

HostSends ==
  /\ phase = "relay" /\ host.left > 0 /\ ~host.eof /\ ~host.reset
  /\ \E n \in Sizes :
       host' = [host EXCEPT !.sent = Append(@, n), !.left = @ - 1,
                            !.total = @ + n]
  /\ UNCHANGED <<phase, wait, client, up, down, counted, quiet, watch, why>>

HostEnds ==
  /\ phase = "relay" /\ ~host.eof /\ ~host.reset
  /\ host' = [host EXCEPT !.eof = TRUE]
  /\ UNCHANGED <<phase, wait, client, up, down, counted, quiet, watch, why>>

\* A reset discards what is still under way.
HostResets ==
  /\ phase = "relay" /\ ~host.eof /\ ~host.reset
  /\ host' = [host EXCEPT !.reset = TRUE, !.sent = <<>>]
  /\ UNCHANGED <<phase, wait, client, up, down, counted, quiet, watch, why>>

Relay ==
  \/ UpRead \/ UpEnds \/ UpWrite \/ UpFails \/ DownRead \/ DownEnds \/ DownWrite
  \/ DownFails \/ Join \/ Watch
Peers == ClientSends \/ ClientGoes \/ HostSends \/ HostEnds \/ HostResets

SessionNext ==
  Handshake \/ ConnectFrame \/ OpenUpstream \/ Relay \/ Pass \/ Peers

-----------------------------------------------------------------------------
MaxSize == CHOOSE n \in Sizes : \A m \in Sizes : m <= n

CapBounded == MaxBytes > 0 => counted <= MaxBytes + 2 * MaxSize

\* A session that ended by itself has delivered every byte the upstream host
\* sent before it ended its stream, also when the client half-closed first:
\* FIN ends one direction, and the join waits for the other.
ResponseDelivered ==
  why = "ended" /\ ~client.gone /\ "err" \notin {up.at, down.at} =>
    host.eof /\ client.got = host.total

IdleBounded == phase = "relay" /\ Idle > 0 => quiet <= Idle + Period

\* A tunnel is bounded in bytes and in silence.  The byte cap is checked after
\* the transfer and ends one direction, not the other; still the two together
\* exceed it by at most two chunks.  And one that moves nothing is torn down
\* within `idle` plus one period of the watchdog after its last transfer,
\* whatever its two directions do.
TunnelBounded == CapBounded /\ IdleBounded
=============================================================================
