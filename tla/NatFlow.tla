------------------------------- MODULE NatFlow -------------------------------
(***************************************************************************)
(* One TCP connection of the guest on its way to the outside: the NAT's    *)
(* flow (crates/net/src/nat.rs), the QueueConnector that hands it to the   *)
(* embedder (queue.rs, exported by crates/wasm/src/lib.rs), the web worker *)
(* that owns a WebSocket for it (web/vm-worker.js) and the proxy's end.    *)
(*                                                                         *)
(* The worker is one thread: a tick advances the NAT and then pumps the    *)
(* relay, without interruption.  Guest segments, WebSocket events and the  *)
(* remote host's steps come between ticks.  A chunk of payload is its      *)
(* position in its stream; smoltcp, the browser and the remote host are    *)
(* external.                                                               *)
(***************************************************************************)
EXTENDS Integers, Sequences

CONSTANTS
  Up, Down,           \* chunks the guest and the remote host have to send
  SockCap,            \* TCP_BUF, in chunks
  PumpMax,            \* PUMP_CHUNK
  OutDepth, InDepth,  \* OUT_DEPTH, IN_DEPTH
  MayAbort            \* the guest may reset the connection

ASSUME FlowAssumption ==
  /\ {Up, Down} \subseteq Nat
  /\ {SockCap, PumpMax, OutDepth, InDepth} \subseteq Nat \ {0}
  /\ MayAbort \in BOOLEAN

VARIABLES
  flow,     \* the NAT's side: smoltcp socket and Flow
  conn,     \* QueueConn: slot held, channels, flags
  c,        \* the worker's entry in netConns
  ws,       \* the WebSocket and the frames under way in it
  guest,    \* ghost: what the guest has sent and received
  remote    \* the proxy with the remote host behind it

vars == <<flow, conn, c, ws, guest, remote>>

Chunks(n) == [k \in 1..n |-> k]
Fin == 0        \* the "FIN" control frame
Close == -1     \* a Close frame

-----------------------------------------------------------------------------
\* try_open_flow and the connector have just run for the guest's SYN.
Init ==
  /\ flow = [live |-> TRUE, est |-> FALSE, guest_fin |-> FALSE,
             nat_fin |-> FALSE, closed |-> FALSE, rx |-> <<>>, tx |-> <<>>,
             to_host |-> TRUE, pend_h |-> <<>>, pend_g |-> <<>>,
             host_done |-> FALSE]
  /\ conn = [slot |-> TRUE, new |-> TRUE, stop |-> FALSE, out |-> <<>>,
             in |-> <<>>, write_closed |-> FALSE, reported |-> FALSE]
  /\ c = [known |-> FALSE, open |-> FALSE, hostClosed |-> FALSE,
          pendingIn |-> <<>>]
  /\ ws = [state |-> "none", up |-> <<>>, down |-> <<>>]
  /\ guest = [sent |-> 0, got |-> <<>>, saw_fin |-> FALSE]
  /\ remote = [got |-> <<>>, eof |-> FALSE, sent |-> 0, closed |-> FALSE]

TypeOK ==
  /\ Len(flow.rx) <= SockCap /\ Len(flow.tx) <= SockCap
  /\ Len(flow.pend_h) <= 1 /\ Len(flow.pend_g) <= 1
  /\ Len(conn.out) <= OutDepth /\ Len(conn.in) <= InDepth
  /\ ws.state \in {"none", "connecting", "open", "closed"}
  /\ guest.sent \in 0..Up /\ remote.sent \in 0..Down

-----------------------------------------------------------------------------
(* pump_flow.  Each direction moves chunks until something blocks.         *)

\* Prefix of length n, and what follows it.
First(s, n) == SubSeq(s, 1, n)
Rest(s, n) == SubSeq(s, n + 1, Len(s))
Least(a, b) == IF a < b THEN a ELSE b

MaySend(f) == f.est /\ ~f.nat_fin /\ ~f.closed

\* Host to guest.  The chunk that does not fit stays in pending_to_guest;
\* from_host reports that the other end is gone when nothing is left in it.
HostToGuest(f, q) ==
  LET all  == f.pend_g \o q.in
      n    == IF MaySend(f) THEN Least(Len(all), SockCap - Len(f.tx)) ELSE 0
      rest == Rest(all, n)
  IN  [f EXCEPT !.tx = @ \o First(all, n),
                !.pend_g = First(rest, Least(1, Len(rest))),
                !.host_done = @ \/ (rest = <<>> /\ ~q.slot)]
InAfter(f, q) ==
  LET all  == f.pend_g \o q.in
      n    == IF MaySend(f) THEN Least(Len(all), SockCap - Len(f.tx)) ELSE 0
  IN  Rest(all, Least(n + 1, Len(all)))

CloseOnHostDoneUnlessFin(f) ==
  [f EXCEPT !.nat_fin = @ \/ (f.host_done /\ f.pend_g = <<>> /\ MaySend(f)
                              /\ ~f.guest_fin)]

\* The host closed and everything is flushed: FIN to the guest.
CloseOnHostDone(f) ==
  [f EXCEPT !.nat_fin = @ \/ (f.host_done /\ f.pend_g = <<>> /\ MaySend(f))]

\* Guest to host.  One chunk at a time goes through pending_to_host; with
\* the channel full it stays there, with the receiver gone it is lost.
GuestToHost(f, q) ==
  LET avail == f.pend_h \o First(f.rx, Least(PumpMax, Len(f.rx)))
      room  == OutDepth - Len(q.out)
      n     == Least(Len(avail), room)
      taken == Least(n + 1, Len(avail))   \* the last one stays pending
  IN  IF f.to_host /\ q.slot
      THEN [f EXCEPT !.rx = Rest(@, taken - Len(f.pend_h)),
                     !.pend_h = Rest(First(avail, taken), n)]
      ELSE [f EXCEPT !.rx = IF f.pend_h = <<>> /\ @ # <<>> THEN Tail(@) ELSE @,
                     !.pend_h = <<>>]

OutAfter(f, q) ==
  LET avail == f.pend_h \o First(f.rx, Least(PumpMax, Len(f.rx)))
  IN  IF f.to_host /\ q.slot
      THEN q.out \o First(avail, Least(Len(avail), OutDepth - Len(q.out)))
      ELSE q.out

\* CLOSE-WAIT and drained: drop the sender, which is the half-close.
HalfClose(f) ==
  [f EXCEPT !.to_host =
     @ /\ ~(f.guest_fin /\ ~f.nat_fin /\ ~f.closed
            /\ f.pend_h = <<>> /\ f.rx = <<>>)]

\* poll: pump the flow, then reap it when its socket is closed.
Reaped(f2) ==
  IF ~flow.live THEN flow
  ELSE IF flow.closed
       THEN [f2 EXCEPT !.live = FALSE, !.to_host = FALSE, !.rx = <<>>,
                       !.pend_h = <<>>, !.pend_g = <<>>]
       ELSE f2
PumpedConn ==
  IF ~flow.live THEN conn
  ELSE [conn EXCEPT !.in = IF flow.closed THEN <<>> ELSE InAfter(flow, conn),
                    !.out = OutAfter(flow, conn),
                    !.stop = @ \/ flow.closed]

-----------------------------------------------------------------------------
(* pumpRelay, after the NAT: f and q are the flow and the connection as    *)
(* the NAT left them, e the worker's entry.                                *)

\* take_new and netOpenConn.
Opened(e, q) ==
  IF q.new THEN [e EXCEPT !.known = TRUE] ELSE e

\* net_conn_send until the queue is full, or fails because it has no reader.
SentIn(f, q, e) ==
  IF e.known /\ q.slot /\ f.live
  THEN Least(Len(e.pendingIn), InDepth - Len(q.in)) ELSE 0

\* The relay passes on what the guest sent and learns that no more comes.
MayDrain(e) == e.known /\ ~e.hostClosed /\ e.open /\ ws.state = "open"
WriteClosed(f, q) == q.write_closed \/ ~f.to_host

\* net_conn_outbound returned undefined: reaped and nothing left.
Ended(q) == q.stop /\ q.out = <<>>

RelayFrames(f, q, drain) ==
  (IF drain THEN q.out ELSE <<>>)
  \o (IF drain /\ WriteClosed(f, q) /\ ~q.reported /\ ~q.stop
        THEN <<Fin>> ELSE <<>>)

DropOnClose(e, left) == e.hostClosed
\* The WebSocket is closed: the entry goes once everything is passed on.
HostGone(e, left) == e.hostClosed /\ left = <<>>

\* One turn of the worker's loop.
Tick ==
  \E f1 \in {CloseOnHostDone(HostToGuest(flow, conn))} :
  \E f \in {Reaped(HalfClose(GuestToHost(f1, conn)))}, q \in {PumpedConn} :
  \E e \in {Opened(c, q)} :
  \E k \in {SentIn(f, q, e)} :
  LET left  == Rest(e.pendingIn, k)
      q1    == [q EXCEPT !.new = FALSE, !.in = @ \o First(e.pendingIn, k)]
      drain == MayDrain(e)
      gone  == e.known /\ (HostGone(e, left) \/ (drain /\ Ended(q)))
  IN  /\ flow' = f
      /\ c' = [e EXCEPT !.pendingIn = IF gone THEN <<>> ELSE left,
                        !.known = @ /\ ~gone]
      /\ conn' = IF gone
                 THEN [q1 EXCEPT !.slot = FALSE, !.stop = TRUE, !.out = <<>>]
                 ELSE [q1 EXCEPT
                        !.out = IF drain THEN <<>> ELSE @,
                        !.write_closed = @ \/ (drain /\ ~f.to_host),
                        !.reported = @ \/ (drain /\ WriteClosed(f, q) /\ ~q.stop)]
      /\ ws' = [ws EXCEPT
                 !.state = IF q.new THEN "connecting"
                           ELSE IF gone THEN "closed" ELSE @,
                 !.up = IF gone THEN Append(@, Close)
                        ELSE @ \o RelayFrames(f, q, drain)]
      /\ UNCHANGED <<guest, remote>>

-----------------------------------------------------------------------------
(* Events between the ticks.                                               *)

Established ==
  /\ flow.live /\ ~flow.est /\ ~flow.closed
  /\ flow' = [flow EXCEPT !.est = TRUE]
  /\ UNCHANGED <<conn, c, ws, guest, remote>>

GuestSend ==
  /\ flow.est /\ ~flow.closed /\ flow.live /\ ~flow.guest_fin
  /\ guest.sent < Up /\ Len(flow.rx) < SockCap
  /\ flow' = [flow EXCEPT !.rx = Append(@, guest.sent + 1)]
  /\ guest' = [guest EXCEPT !.sent = @ + 1]
  /\ UNCHANGED <<conn, c, ws, remote>>

GuestFin ==
  /\ flow.est /\ ~flow.closed /\ flow.live /\ ~flow.guest_fin
  /\ flow' = [flow EXCEPT !.guest_fin = TRUE]
  /\ UNCHANGED <<conn, c, ws, guest, remote>>

GuestRecv ==
  /\ flow.tx # <<>> /\ ~flow.closed
  /\ flow' = [flow EXCEPT !.tx = Tail(@)]
  /\ guest' = [guest EXCEPT !.got = Append(@, Head(flow.tx))]
  /\ UNCHANGED <<conn, c, ws, remote>>

GuestSeesFin ==
  /\ flow.nat_fin /\ flow.tx = <<>> /\ ~flow.closed /\ ~guest.saw_fin
  /\ guest' = [guest EXCEPT !.saw_fin = TRUE]
  /\ UNCHANGED <<flow, conn, c, ws, remote>>

\* Both FINs are acknowledged (and TIME-WAIT is over), or the guest resets
\* the connection or vanishes, in which case the socket times out.
SocketCloses ==
  /\ flow.live /\ ~flow.closed
  /\ \/ flow.guest_fin /\ guest.saw_fin
     \/ MayAbort
  /\ flow' = [flow EXCEPT !.closed = TRUE, !.tx = <<>>]
  /\ UNCHANGED <<conn, c, ws, guest, remote>>

\* onopen.
WsOpens ==
  /\ ws.state = "connecting"
  /\ ws' = [ws EXCEPT !.state = "open"]
  /\ c' = [c EXCEPT !.open = c.known]
  /\ UNCHANGED <<flow, conn, guest, remote>>

\* onclose before onopen: the relay is unreachable.
WsRefused ==
  /\ ws.state = "connecting"
  /\ ws' = [ws EXCEPT !.state = "closed"]
  /\ c' = [c EXCEPT !.hostClosed = TRUE]
  /\ UNCHANGED <<flow, conn, guest, remote>>

\* onmessage, and onclose after the last message.
WsEvent ==
  /\ ws.state = "open" /\ ws.down # <<>>
  /\ ws' = [ws EXCEPT !.down = Tail(@),
                      !.state = IF Head(ws.down) = Close THEN "closed" ELSE @]
  /\ c' = IF Head(ws.down) = Close
          THEN [c EXCEPT !.hostClosed = TRUE]
          ELSE [c EXCEPT !.pendingIn = Append(@, Head(ws.down))]
  /\ UNCHANGED <<flow, conn, guest, remote>>

\* The proxy takes the next frame.
RemoteRecv ==
  /\ ws.up # <<>>
  /\ ws' = [ws EXCEPT !.up = Tail(@)]
  /\ remote' =
       CASE Head(ws.up) = Fin   -> [remote EXCEPT !.eof = TRUE]
         [] Head(ws.up) = Close -> [remote EXCEPT !.closed = TRUE]
         [] OTHER -> [remote EXCEPT !.got = Append(@, Head(ws.up))]
  /\ UNCHANGED <<flow, conn, c, guest>>

RemoteSend ==
  /\ ws.state = "open" /\ ~remote.closed /\ remote.sent < Down
  /\ ws' = [ws EXCEPT !.down = Append(@, remote.sent + 1)]
  /\ remote' = [remote EXCEPT !.sent = @ + 1]
  /\ UNCHANGED <<flow, conn, c, guest>>

\* The remote host ends its stream: the proxy sends a Close frame.
RemoteClose ==
  /\ ws.state = "open" /\ ~remote.closed
  /\ ws' = [ws EXCEPT !.down = Append(@, Close)]
  /\ remote' = [remote EXCEPT !.closed = TRUE]
  /\ UNCHANGED <<flow, conn, c, guest>>

Environment ==
  \/ Established \/ GuestSend \/ GuestFin \/ GuestRecv \/ GuestSeesFin
  \/ SocketCloses \/ WsOpens \/ WsRefused \/ WsEvent \/ RemoteRecv \/ RemoteSend
  \/ RemoteClose

Next == Tick \/ Environment

Spec == Init /\ [][Next]_vars

\* The worker's loop re-arms its timer for ever; frames under way arrive;
\* the guest's TCP reads what it is sent.
FairSpec ==
  /\ Spec
  /\ WF_vars(Tick) /\ WF_vars(WsOpens \/ WsRefused) /\ WF_vars(WsEvent)
  /\ WF_vars(RemoteRecv) /\ WF_vars(GuestRecv) /\ WF_vars(GuestSeesFin)
  /\ WF_vars(Established)

-----------------------------------------------------------------------------
UploadWhole ==
  /\ remote.got = Chunks(Len(remote.got))
  /\ remote.eof => flow.guest_fin /\ remote.got = Chunks(guest.sent)

ResponseWhole ==
  /\ guest.got = Chunks(Len(guest.got))
  /\ guest.saw_fin => guest.got = Chunks(remote.sent)

\* Both directions arrive whole.  The remote host reads the guest's bytes in
\* order and without a gap, whatever fills up or closes on the way, and sees
\* end-of-file only after every byte the guest sent before its FIN
\* ("half-closing then would TRUNCATE the upload").  The guest reads the
\* response in order and sees the FIN only after all of it: closing the
\* WebSocket does not overtake messages queued in pendingIn, in the channel or
\* in the socket.
StreamsWhole == UploadWhole /\ ResponseWhole

\* A guest that half-closes still gets the response: when the remote host
\* has ended its stream, the guest receives everything and then a FIN,
\* unless it resets the connection.
ResponseArrives ==
  remote.closed /\ ~conn.stop ~> guest.saw_fin \/ flow.closed

\* "closed == true ... means the embedder should close the WebSocket and
\* call host_closed to free the slot" (drain_outbound): the slot of a reaped
\* flow is freed.
SlotFreed == ~flow.live ~> ~conn.slot
=============================================================================
