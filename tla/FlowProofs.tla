----------------------------- MODULE FlowProofs -----------------------------
(***************************************************************************)
(* Both streams of a guest's connection arrive whole on their way through  *)
(* NAT, worker and proxy, for every length of the streams and every size   *)
(* of the buffers.                                                         *)
(***************************************************************************)
EXTENDS NatFlow, SequenceTheorems, TLAPS

\* s holds the chunks that follow the first a.
Run(s, a) == s \in Seq(Nat) /\ \A i \in 1 .. Len(s) : s[i] = a + i

\* The length of s, for the proofs that only count.
Size(s) == Len(s)

LEMMA SizeIs == \A s \in Seq(Nat) : Size(s) \in Nat /\ Len(s) = Size(s)
BY LenProperties, Zenon DEF Size

LEMMA RunNone == Size(<<>>) = 0 /\ \A a : Run(<<>>, a)
BY DEF Run, Size

LEMMA RunAppend ==
  ASSUME NEW s, NEW a \in Nat, Run(s, a), NEW n, n = a + Size(s) + 1
  PROVE  Append(s, n) \in Seq(Nat) /\ Run(Append(s, n), a) /\ Size(Append(s, n)) = Size(s) + 1
<1>1. s \in Seq(Nat) /\ Len(s) \in Nat /\ n = a + Len(s) + 1
  BY DEF Run, Size
<1>2. n \in Nat
  BY <1>1
<1>3. /\ Append(s, n) \in Seq(Nat) /\ Len(Append(s, n)) = Len(s) + 1
      /\ \A i \in 1 .. Len(s) : Append(s, n)[i] = s[i]
      /\ Append(s, n)[Len(s) + 1] = n
  BY <1>1, <1>2, AppendProperties
<1>4. ASSUME NEW i \in 1 .. Len(s) + 1 PROVE Append(s, n)[i] = a + i
  <2>1. CASE i = Len(s) + 1
    BY <1>1, <1>3, <2>1
  <2>2. CASE i \in 1 .. Len(s)
    <3>1. Append(s, n)[i] = s[i] /\ s[i] = a + i
      BY <1>3, <2>2, Zenon DEF Run
    <3> QED
      BY <3>1, Zenon
  <2> QED
    BY <1>1, <2>1, <2>2
<1> QED
  BY <1>3, <1>4, Zenon DEF Run, Size

LEMMA RunTail ==
  ASSUME NEW s, NEW a \in Nat, Run(s, a), s # <<>>
  PROVE  /\ Head(s) = a + 1 /\ Tail(s) \in Seq(Nat) /\ Run(Tail(s), a + 1)
         /\ Size(Tail(s)) = Size(s) - 1 /\ Size(s) \in Nat \ {0}
<1>1. s \in Seq(Nat) /\ Len(s) \in Nat \ {0} /\ Head(s) = s[1] /\ Head(s) = a + 1
  BY DEF Run
<1>2. /\ Tail(s) \in Seq(Nat) /\ Len(Tail(s)) = Len(s) - 1
      /\ \A i \in 1 .. Len(s) - 1 : Tail(s)[i] = s[i + 1]
  BY <1>1, HeadTailProperties, Zenon
<1>3. ASSUME NEW i \in 1 .. Len(s) - 1 PROVE Tail(s)[i] = (a + 1) + i
  <2>1. i + 1 \in 1 .. Len(s)
    BY <1>1
  <2> QED
    BY <1>2, <2>1 DEF Run
<1> QED
  BY <1>1, <1>2, <1>3, Zenon DEF Run, Size

LEMMA RunConcat ==
  ASSUME NEW s, NEW t, NEW a \in Nat, Run(s, a), Run(t, a + Size(s))
  PROVE  s \o t \in Seq(Nat) /\ Run(s \o t, a)
<1>1. s \in Seq(Nat) /\ t \in Seq(Nat) /\ Len(s) \in Nat /\ Len(t) \in Nat
  BY LenProperties, Zenon DEF Run
<1>2. /\ s \o t \in Seq(Nat) /\ Len(s \o t) = Len(s) + Len(t)
      /\ \A i \in 1 .. Len(s) + Len(t) : (s \o t)[i] = IF i <= Len(s) THEN s[i] ELSE t[i - Len(s)]
  BY <1>1, ConcatProperties, Zenon
<1>3. ASSUME NEW i \in 1 .. Len(s) + Len(t) PROVE (s \o t)[i] = a + i
  <2>1. CASE i <= Len(s)
    <3>1. i \in 1 .. Len(s) /\ (s \o t)[i] = s[i]
      BY <1>1, <1>2, <2>1
    <3> QED
      BY <3>1, Zenon DEF Run
  <2>2. CASE ~(i <= Len(s))
    <3>1. i - Len(s) \in 1 .. Len(t) /\ (s \o t)[i] = t[i - Len(s)]
      BY <1>1, <1>2, <2>2
    <3>2. t[i - Len(s)] = (a + Len(s)) + (i - Len(s))
      BY <3>1, Zenon DEF Run, Size
    <3>3. (a + Len(s)) + (i - Len(s)) = a + i
      BY <1>1
    <3> QED
      BY <3>1, <3>2, <3>3, Zenon
  <2> QED
    BY <2>1, <2>2, Zenon
<1> QED
  BY <1>2, <1>3, Zenon DEF Run

\* A queue and its halves, by their sizes.
LEMMA SizeConcat ==
  ASSUME NEW s \in Seq(Nat), NEW t \in Seq(Nat)
  PROVE  s \o t \in Seq(Nat) /\ Size(s \o t) = Size(s) + Size(t) /\ Size(s) \in Nat /\ Size(t) \in Nat
BY ConcatProperties, LenProperties, Zenon DEF Size

LEMMA SizeZero == \A s \in Seq(Nat) : Size(s) = 0 <=> s = <<>>
BY DEF Size

LEMMA Halves ==
  ASSUME NEW s \in Seq(Nat), NEW n \in 0 .. Size(s)
  PROVE  /\ First(s, n) \in Seq(Nat) /\ Rest(s, n) \in Seq(Nat)
         /\ Size(First(s, n)) = n /\ Size(Rest(s, n)) = Size(s) - n
         /\ \A i \in 1 .. n : First(s, n)[i] = s[i]
         /\ \A i \in 1 .. Size(s) - n : Rest(s, n)[i] = s[n + i]
<1>1. PICK l \in Nat : l = Len(s) /\ n \in Nat /\ n <= l /\ l = Size(s)
  BY LenProperties DEF Size
<1>4. \A i \in 1 .. l : s[i] \in Nat
  BY <1>1, ElementOfSeq, Zenon
<1>5. l \in Nat /\ n \in Nat /\ n <= l
  BY <1>1, Zenon
<1>2. /\ First(s, n) \in Seq(Nat) /\ Len(First(s, n)) = n
      /\ \A i \in 1 .. n : First(s, n)[i] = s[i]
  <2>1. \A i \in 1 .. n : s[i] \in Nat
    BY <1>4, <1>5
  <2>2. PICK t : t = SubSeq(s, 1, n)
    BY Zenon
  <2>3. /\ t \in Seq(Nat) /\ Len(t) = IF 1 <= n THEN n - 1 + 1 ELSE 0
        /\ \A i \in 1 .. n - 1 + 1 : t[i] = s[1 + i - 1]
    BY <1>5, <2>1, <2>2, SubSeqProperties
  <2>4. Len(t) = n /\ \A i \in 1 .. n : t[i] = s[i]
    BY <1>5, <2>3
  <2> QED
    BY <2>2, <2>3, <2>4, Zenon DEF First
<1>3. /\ Rest(s, n) \in Seq(Nat) /\ Len(Rest(s, n)) = l - n
      /\ \A i \in 1 .. l - n : Rest(s, n)[i] = s[n + i]
  <2>1. \A i \in n + 1 .. l : s[i] \in Nat
    BY <1>4, <1>5
  <2>2. PICK t : t = SubSeq(s, n + 1, l)
    BY Zenon
  <2>3. /\ t \in Seq(Nat) /\ Len(t) = IF n + 1 <= l THEN l - (n + 1) + 1 ELSE 0
        /\ \A i \in 1 .. l - (n + 1) + 1 : t[i] = s[n + 1 + i - 1]
    BY <1>5, <2>1, <2>2, SubSeqProperties
  <2>4. Len(t) = l - n /\ \A i \in 1 .. l - n : t[i] = s[n + i]
    BY <1>5, <2>3
  <2> QED
    BY <1>1, <2>2, <2>3, <2>4, Zenon DEF Rest
<1> QED
  BY <1>1, <1>2, <1>3, Zenon DEF Size

LEMMA RunHalves ==
  ASSUME NEW s, NEW a \in Nat, Run(s, a), NEW n \in 0 .. Size(s)
  PROVE  Run(First(s, n), a) /\ Run(Rest(s, n), a + n)
<1>1. /\ s \in Seq(Nat) /\ First(s, n) \in Seq(Nat) /\ Rest(s, n) \in Seq(Nat)
      /\ Len(First(s, n)) = n /\ Len(Rest(s, n)) = Len(s) - n /\ Len(s) \in Nat /\ n \in 0 .. Len(s)
      /\ \A i \in 1 .. n : First(s, n)[i] = s[i]
      /\ \A i \in 1 .. Len(s) - n : Rest(s, n)[i] = s[n + i]
  BY Halves, LenProperties, Zenon DEF Run, Size
<1>2. ASSUME NEW i \in 1 .. n PROVE First(s, n)[i] = a + i
  <2>1. i \in 1 .. Len(s)
    BY <1>1
  <2> QED
    BY <1>1, <2>1, Zenon DEF Run
<1>3. ASSUME NEW i \in 1 .. Len(s) - n PROVE Rest(s, n)[i] = (a + n) + i
  <2>1. n + i \in 1 .. Len(s) /\ a + (n + i) = (a + n) + i
    BY <1>1
  <2> QED
    BY <1>1, <2>1, Zenon DEF Run
<1> QED
  BY <1>1, <1>2, <1>3, Zenon DEF Run

LEMMA LeastIs ==
  ASSUME NEW x \in Int, NEW y \in Int
  PROVE  Least(x, y) \in {x, y} /\ Least(x, y) <= x /\ Least(x, y) <= y
BY DEF Least
-----------------------------------------------------------------------------
(* One connection through NAT, worker and proxy.                           *)

Flows == [live : BOOLEAN, est : BOOLEAN, guest_fin : BOOLEAN, nat_fin : BOOLEAN, closed : BOOLEAN,
          rx : Seq(Nat), tx : Seq(Nat), to_host : BOOLEAN, pend_h : Seq(Nat), pend_g : Seq(Nat),
          host_done : BOOLEAN]
Conns == [slot : BOOLEAN, new : BOOLEAN, stop : BOOLEAN, out : Seq(Nat), in : Seq(Nat),
          write_closed : BOOLEAN, reported : BOOLEAN]
Entries == [known : BOOLEAN, open : BOOLEAN, hostClosed : BOOLEAN, pendingIn : Seq(Nat)]
Messages == Nat \cup {Close}
Sockets == [state : {"none", "connecting", "open", "closed"}, up : Seq(Int), down : Seq(Messages)]
Guests == [sent : Nat, got : Seq(Nat), saw_fin : BOOLEAN]
Remotes == [got : Seq(Nat), eof : BOOLEAN, sent : Nat, closed : BOOLEAN]
FlowTypes(f, q, e, w, g, r) ==
  f \in Flows /\ q \in Conns /\ e \in Entries /\ w \in Sockets /\ g \in Guests /\ r \in Remotes

\* The queues keep to their depths.
Depths(f, q) == /\ Size(f.tx) <= SockCap /\ Size(f.pend_h) <= 1 /\ Size(f.pend_g) <= 1
                /\ Size(q.out) <= OutDepth /\ Size(q.in) <= InDepth

(***************************************************************************)
(* Who may still act: a freed slot stays freed and its entry forgotten, a  *)
(* connection stopped by the NAT has a closed socket, and one whose sender *)
(* was dropped by a half-close has passed on everything.                   *)
(***************************************************************************)
Phases(f, q, e, w) ==
  /\ f.live \/ f.closed
  /\ f.nat_fin => f.host_done
  /\ q.slot /\ q.stop => f.closed
  /\ q.write_closed => ~f.to_host
  /\ ~q.slot => ~q.new /\ ~e.known /\ w.state = "closed" /\ (f.closed \/ e.hostClosed)
  /\ q.new => w.state = "none"
  /\ w.state = "none" => ~e.open /\ ~e.hostClosed
  /\ e.hostClosed => w.state = "closed"

\* The frames for the proxy: chunks that follow the first u, then FIN and Close.
Framed(up, u, m, sent) ==
  /\ m \in 0 .. Len(up)
  /\ \A i \in 1 .. Len(up) :
       /\ i <= m => up[i] = u + i
       /\ i > m => up[i] = Fin \/ up[i] = Close
       /\ up[i] = Fin => i = m + 1 /\ u + m = sent
       /\ up[i] = Close => i = Len(up)
Lacks(up, x) == \A i \in 1 .. Len(up) : up[i] # x

\* What the guest sent, from the proxy's end (u chunks have arrived) to the NAT's.
UpWay(f, q, up, g, r) ==
  LET u == Size(r.got)
      a == u + Size(up) + Size(q.out)
  IN  /\ Run(r.got, 0)
      /\ \E m \in Nat : Framed(up, u, m, g.sent) /\ (r.eof => m = 0)
      /\ ~q.reported => Lacks(up, Fin)
      /\ q.slot => Lacks(up, Close)
      /\ r.eof => q.reported /\ u = g.sent
      /\ q.reported => f.guest_fin /\ q.out = <<>> /\ ~f.to_host
      /\ ~q.slot => q.out = <<>>
      /\ q.slot /\ ~q.reported =>
           /\ Run(q.out, u + Size(up))
           /\ f.to_host => /\ Run(f.pend_h, a) /\ Run(f.rx, a + Size(f.pend_h))
                           /\ g.sent = a + Size(f.pend_h) + Size(f.rx)
           /\ ~f.to_host /\ ~q.stop => f.guest_fin /\ g.sent = a

\* What the remote host sent, from the guest's end to the WebSocket.
Downed(down, b, sent) ==
  \E d \in Seq(Nat) : Run(d, b) /\ sent = b + Size(d) /\ (down = d \/ down = Append(d, Close))
DownWay(f, q, e, w, g, r) ==
  /\ Run(g.got, 0)
  /\ g.saw_fin => Size(g.got) = r.sent /\ w.state = "closed"
  /\ ~f.closed =>
       LET b1 == Size(g.got) + Size(f.tx)
           b2 == b1 + Size(f.pend_g)
           b3 == b2 + Size(q.in)
       IN  /\ Run(f.tx, Size(g.got)) /\ Run(f.pend_g, b1) /\ Run(q.in, b2) /\ Run(e.pendingIn, b3)
           /\ Downed(w.down, b3 + Size(e.pendingIn), r.sent)
           /\ ~r.closed => Lacks(w.down, Close)
           /\ e.hostClosed \/ w.state \in {"none", "connecting"} => w.down = <<>>
           /\ ~q.slot => e.pendingIn = <<>>
           /\ f.host_done => ~q.slot /\ f.pend_g = <<>> /\ q.in = <<>>

\* The inductive invariant, of the state and of what the NAT hands to the relay.
InvOf(f, q, e, w, g, r) ==
  /\ FlowTypes(f, q, e, w, g, r) /\ Depths(f, q) /\ Phases(f, q, e, w)
  /\ UpWay(f, q, w.up, g, r) /\ DownWay(f, q, e, w, g, r)
FlowInv == InvOf(flow, conn, c, ws, guest, remote)

LEMMA FlowFields ==
  ASSUME NEW f \in Flows
  PROVE  /\ f.rx \in Seq(Nat) /\ f.tx \in Seq(Nat) /\ f.pend_h \in Seq(Nat) /\ f.pend_g \in Seq(Nat)
         /\ f.live \in BOOLEAN /\ f.est \in BOOLEAN /\ f.guest_fin \in BOOLEAN /\ f.nat_fin \in BOOLEAN
         /\ f.closed \in BOOLEAN /\ f.to_host \in BOOLEAN /\ f.host_done \in BOOLEAN
BY Zenon DEF Flows

LEMMA FlowConsts ==
  /\ SockCap \in Nat \ {0} /\ PumpMax \in Nat \ {0} /\ OutDepth \in Nat \ {0} /\ InDepth \in Nat \ {0}
  /\ Up \in Nat /\ Down \in Nat
BY FlowAssumption, Zenon

\* pump_flow, host to guest: the queues are cut elsewhere and nothing else happens.
DownPumped(h, in) ==
  /\ h \in Flows /\ in \in Seq(Nat)
  /\ h.live = flow.live /\ h.est = flow.est /\ h.guest_fin = flow.guest_fin
  /\ h.nat_fin = flow.nat_fin /\ h.closed = flow.closed /\ h.rx = flow.rx
  /\ h.to_host = flow.to_host /\ h.pend_h = flow.pend_h
  /\ h.host_done => flow.host_done \/ (~conn.slot /\ h.pend_g = <<>> /\ in = <<>>)
  /\ flow.host_done => h.host_done
  /\ flow.pend_g = <<>> /\ conn.in = <<>> => h.pend_g = <<>> /\ in = <<>>
  /\ Size(h.tx) <= SockCap /\ Size(h.pend_g) <= 1 /\ Size(in) <= Size(conn.in)
  /\ Size(h.tx) + Size(h.pend_g) + Size(in) = Size(flow.tx) + Size(flow.pend_g) + Size(conn.in)
  /\ \A a \in Nat :
       Run(flow.tx, a) /\ Run(flow.pend_g, a + Size(flow.tx))
       /\ Run(conn.in, a + Size(flow.tx) + Size(flow.pend_g)) =>
         Run(h.tx, a) /\ Run(h.pend_g, a + Size(h.tx)) /\ Run(in, a + Size(h.tx) + Size(h.pend_g))

LEMMA PumpsDown ==
  ASSUME FlowInv, NEW h, h = HostToGuest(flow, conn), NEW in, in = InAfter(flow, conn)
  PROVE  DownPumped(h, in)
<1>1. flow \in Flows /\ conn \in Conns /\ Size(flow.tx) <= SockCap /\ Size(flow.pend_g) <= 1
  BY Zenon DEF FlowInv, InvOf, FlowTypes, Depths
<1>2. PICK tx, pg, i : /\ tx = flow.tx /\ pg = flow.pend_g /\ i = conn.in
                       /\ tx \in Seq(Nat) /\ pg \in Seq(Nat) /\ i \in Seq(Nat)
  BY <1>1, Zenon DEF Flows, Conns
<1>3. PICK all, n : all = pg \o i /\ n = IF MaySend(flow) THEN Least(Len(all), SockCap - Len(tx)) ELSE 0
  BY Zenon
<1>4. PICK rest, l, m : rest = Rest(all, n) /\ l = Least(1, Len(rest)) /\ m = Least(n + 1, Len(all))
  BY Zenon
<1>5. PICK x, y : x = First(all, n) /\ y = First(rest, l)
  BY Zenon
<1>6. PICK d \in BOOLEAN : d = (flow.host_done \/ (rest = <<>> /\ ~conn.slot))
  <2>1. (flow.host_done \/ (rest = <<>> /\ ~conn.slot)) \in BOOLEAN
    BY <1>1, Zenon DEF Flows
  <2> QED
    BY <2>1, Zenon
<1>7. h = [flow EXCEPT !.tx = tx \o x, !.pend_g = y, !.host_done = d] /\ in = Rest(all, m)
  BY <1>2, <1>3, <1>4, <1>5, <1>6, Zenon DEF HostToGuest, InAfter
<1>8. /\ all \in Seq(Nat) /\ Size(all) = Size(pg) + Size(i)
      /\ Size(pg) \in Nat /\ Size(i) \in Nat /\ Size(all) \in Nat /\ Size(tx) \in Nat
  BY <1>2, <1>3, SizeConcat, SizeIs, Zenon
<1>9. n \in 0 .. Size(all) /\ n \in Nat /\ n <= Size(all) /\ n + Size(tx) <= SockCap
  <2>1. Size(tx) <= SockCap
    BY <1>1, <1>2, Zenon
  <2>2. n = 0 \/ n = Least(Size(all), SockCap - Size(tx))
    BY <1>3, Zenon DEF Size
  <2> QED
    BY <1>8, <2>1, <2>2, FlowConsts DEF Least
<1>10. /\ x \in Seq(Nat) /\ rest \in Seq(Nat) /\ Size(x) = n /\ Size(rest) = Size(all) - n
  BY <1>4, <1>5, <1>8, <1>9, Halves, Zenon
<1>11. /\ l \in 0 .. Size(rest) /\ l \in Nat /\ l <= Size(rest) /\ l <= 1
       /\ Size(rest) > 0 => l = 1
  <2>1. l = Least(1, Size(rest))
    BY <1>4, Zenon DEF Size
  <2> QED
    BY <1>8, <1>9, <1>10, <2>1 DEF Least
<1>12. m \in 0 .. Size(all) /\ m = n + l
  <2>1. m = Least(n + 1, Size(all)) /\ Size(rest) = Size(all) - n
    BY <1>4, <1>10, Zenon DEF Size
  <2>2. n \in Nat /\ l \in Nat /\ l <= 1 /\ l <= Size(rest) /\ Size(all) \in Nat /\ n <= Size(all)
    BY <1>8, <1>9, <1>11, Zenon
  <2>3. Size(rest) > 0 => l = 1
    BY <1>11, Zenon
  <2> QED
    BY <2>1, <2>2, <2>3 DEF Least
<1>13. y \in Seq(Nat) /\ Size(y) = l
  BY <1>5, <1>10, <1>11, Halves, Zenon
<1>14. in \in Seq(Nat) /\ Size(in) = Size(all) - m
  BY <1>7, <1>8, <1>12, Halves, Zenon
<1>15. tx \o x \in Seq(Nat) /\ Size(tx \o x) = Size(tx) + n
  BY <1>2, <1>10, SizeConcat, Zenon
<1>16. /\ h \in Flows /\ h.tx = tx \o x /\ h.pend_g = y /\ h.host_done = d
       /\ h.live = flow.live /\ h.est = flow.est /\ h.guest_fin = flow.guest_fin
       /\ h.nat_fin = flow.nat_fin /\ h.closed = flow.closed /\ h.rx = flow.rx
       /\ h.to_host = flow.to_host /\ h.pend_h = flow.pend_h
  BY <1>1, <1>7, <1>13, <1>15, Zenon DEF Flows
<1>17. d => flow.host_done \/ (~conn.slot /\ y = <<>> /\ in = <<>>)
  <2> SUFFICES ASSUME rest = <<>> PROVE y = <<>> /\ in = <<>>
    BY <1>6, Zenon
  <2>1. Size(rest) = 0
    BY <1>10, SizeZero, Zenon
  <2>2. Size(y) = 0 /\ Size(in) = 0
    BY <1>8, <1>9, <1>10, <1>11, <1>12, <1>13, <1>14, <2>1
  <2> QED
    BY <1>13, <1>14, <2>2, SizeZero, Zenon
<1>18. /\ Size(tx) + n <= SockCap /\ l <= 1 /\ Size(in) <= Size(i)
       /\ (Size(tx) + n) + l + Size(in) = Size(tx) + Size(pg) + Size(i)
  <2>1. Size(pg) <= 1 /\ Size(all) = Size(pg) + Size(i) /\ Size(in) = Size(all) - m
    BY <1>1, <1>2, <1>8, <1>14, Zenon
  <2>2. /\ n \in Nat /\ l \in Nat /\ m = n + l /\ l <= 1 /\ n <= Size(all) /\ n + Size(tx) <= SockCap
        /\ Size(pg) \in Nat /\ Size(i) \in Nat /\ Size(tx) \in Nat
    BY <1>8, <1>9, <1>11, <1>12, Zenon
  <2>3. Size(all) - n > 0 => l = 1
    BY <1>10, <1>11, Zenon
  <2> QED
    BY <2>1, <2>2, <2>3, FlowConsts
<1>19. ASSUME NEW a \in Nat, Run(tx, a), Run(pg, a + Size(tx)), Run(i, a + Size(tx) + Size(pg))
       PROVE  Run(tx \o x, a) /\ Run(y, a + (Size(tx) + n)) /\ Run(in, a + (Size(tx) + n) + l)
  <2>1. PICK b \in Nat : b = a + Size(tx)
    BY <1>8
  <2>2. Run(all, b)
    BY <1>3, <1>19, <2>1, RunConcat, Zenon
  <2>3. Run(x, b) /\ Run(rest, b + n)
    <3>1. Run(First(all, n), b) /\ Run(Rest(all, n), b + n)
      BY <1>9, <2>2, RunHalves, Zenon
    <3> QED
      BY <1>4, <1>5, <3>1, Zenon
  <2>8. Run(in, b + m)
    <3>1. Run(Rest(all, m), b + m)
      BY <1>12, <2>2, RunHalves, Zenon
    <3> QED
      BY <1>7, <3>1, Zenon
  <2>4. b + n \in Nat
    BY <1>8, <1>9
  <2>5. Run(y, b + n)
    BY <1>5, <1>11, <2>3, <2>4, RunHalves, Zenon
  <2>6. Run(tx \o x, a)
    BY <1>19, <2>1, <2>3, RunConcat, Zenon
  <2>7. b + n = a + (Size(tx) + n) /\ b + m = a + (Size(tx) + n) + l
    <3>1. Size(tx) \in Nat /\ n \in Nat /\ l \in Nat /\ m = n + l
      BY <1>8, <1>9, <1>11, <1>12, Zenon
    <3> QED
      BY <2>1, <3>1
  <2> QED
    BY <2>3, <2>5, <2>6, <2>7, <2>8, Zenon
<1>20. /\ Size(h.tx) <= SockCap /\ Size(h.pend_g) <= 1 /\ Size(in) <= Size(conn.in)
       /\ Size(h.tx) + Size(h.pend_g) + Size(in) = Size(flow.tx) + Size(flow.pend_g) + Size(conn.in)
  BY <1>2, <1>13, <1>15, <1>16, <1>18, Zenon
<1>21. /\ h.host_done => flow.host_done \/ (~conn.slot /\ h.pend_g = <<>> /\ in = <<>>)
       /\ flow.host_done => h.host_done
  BY <1>6, <1>16, <1>17, Zenon
<1>22. \A a \in Nat :
              Run(flow.tx, a) /\ Run(flow.pend_g, a + Size(flow.tx))
              /\ Run(conn.in, a + Size(flow.tx) + Size(flow.pend_g)) =>
                Run(h.tx, a) /\ Run(h.pend_g, a + Size(h.tx)) /\ Run(in, a + Size(h.tx) + Size(h.pend_g))
  BY <1>2, <1>13, <1>15, <1>16, <1>19, Zenon
<1>23. ASSUME pg = <<>>, i = <<>> PROVE y = <<>> /\ in = <<>>
  <2>1. Size(pg) = 0 /\ Size(i) = 0
    BY <1>2, <1>23, SizeZero, Zenon
  <2>2. /\ Size(all) = Size(pg) + Size(i) /\ n \in Nat /\ n <= Size(all) /\ l \in Nat
        /\ l <= Size(all) - n /\ Size(in) = Size(all) - (n + l) /\ Size(y) = l
    BY <1>8, <1>9, <1>10, <1>11, <1>12, <1>13, <1>14, Zenon
  <2>3. Size(y) = 0 /\ Size(in) = 0
    BY <2>1, <2>2
  <2> QED
    BY <1>13, <1>14, <2>3, SizeZero, Zenon
<1>24. flow.pend_g = <<>> /\ conn.in = <<>> => h.pend_g = <<>> /\ in = <<>>
  BY <1>2, <1>16, <1>23, Zenon
<1> QED
  BY <1>14, <1>16, <1>20, <1>21, <1>22, <1>24, Zenon DEF DownPumped

\* pump_flow, guest to host.
UpPumped(f, h, out) ==
  /\ h \in Flows /\ out \in Seq(Nat)
  /\ h.live = f.live /\ h.est = f.est /\ h.guest_fin = f.guest_fin /\ h.nat_fin = f.nat_fin
  /\ h.closed = f.closed /\ h.tx = f.tx /\ h.to_host = f.to_host /\ h.pend_g = f.pend_g
  /\ h.host_done = f.host_done
  /\ Size(h.pend_h) <= 1 /\ Size(out) <= OutDepth
  /\ ~(flow.to_host /\ conn.slot) => out = conn.out
  /\ flow.to_host /\ conn.slot =>
       /\ Size(out) + Size(h.pend_h) + Size(h.rx)
            = Size(conn.out) + Size(flow.pend_h) + Size(flow.rx)
       /\ \A a \in Nat :
            Run(conn.out, a) /\ Run(flow.pend_h, a + Size(conn.out))
            /\ Run(flow.rx, a + Size(conn.out) + Size(flow.pend_h)) =>
              Run(out, a) /\ Run(h.pend_h, a + Size(out)) /\ Run(h.rx, a + Size(out) + Size(h.pend_h))

LEMMA PumpsUp ==
  ASSUME FlowInv, NEW f \in Flows, f.rx = flow.rx, f.pend_h = flow.pend_h, f.to_host = flow.to_host,
         NEW h, h = GuestToHost(f, conn), NEW out, out = OutAfter(flow, conn)
  PROVE  UpPumped(f, h, out)
<1>1. conn \in Conns /\ Size(flow.pend_h) <= 1 /\ Size(conn.out) <= OutDepth
  BY Zenon DEF FlowInv, InvOf, FlowTypes, Depths
<1>2. PICK ph, rx, o : /\ ph = flow.pend_h /\ rx = flow.rx /\ o = conn.out /\ ph = f.pend_h /\ rx = f.rx
                       /\ ph \in Seq(Nat) /\ rx \in Seq(Nat) /\ o \in Seq(Nat)
  BY <1>1, Zenon DEF Flows, Conns
<1>3. CASE ~(flow.to_host /\ conn.slot)
  <2>1. PICK z : z = IF ph = <<>> /\ rx # <<>> THEN Tail(rx) ELSE rx
    BY Zenon
  <2>2. h = [f EXCEPT !.rx = z, !.pend_h = <<>>] /\ out = o
    BY <1>2, <1>3, <2>1, Zenon DEF GuestToHost, OutAfter
  <2>3. z \in Seq(Nat) /\ <<>> \in Seq(Nat)
    BY <1>2, <2>1
  <2>4. /\ h \in Flows /\ h.pend_h = <<>>
        /\ h.live = f.live /\ h.est = f.est /\ h.guest_fin = f.guest_fin /\ h.nat_fin = f.nat_fin
        /\ h.closed = f.closed /\ h.tx = f.tx /\ h.to_host = f.to_host /\ h.pend_g = f.pend_g
        /\ h.host_done = f.host_done
    BY <2>2, <2>3, Zenon DEF Flows
  <2>5. Size(<<>>) <= 1
    BY RunNone
  <2> QED
    BY <1>1, <1>2, <1>3, <2>2, <2>4, <2>5, Zenon DEF UpPumped
<1>4. CASE flow.to_host /\ conn.slot
  <2>1. PICK k, t : k = Least(PumpMax, Len(rx)) /\ t = First(rx, k)
    BY Zenon
  <2>2. PICK avail, n : avail = ph \o t /\ n = Least(Len(avail), OutDepth - Len(o))
    BY Zenon
  <2>3. PICK m, j : m = Least(n + 1, Len(avail)) /\ j = m - Len(ph)
    BY Zenon
  <2>4. PICK x, y, z : x = First(avail, n) /\ y = First(avail, m) /\ z = Rest(rx, j)
    BY Zenon
  <2>5. PICK p : p = Rest(y, n)
    BY Zenon
  <2>6. h = [f EXCEPT !.rx = z, !.pend_h = p]
    BY <1>2, <1>4, <2>1, <2>2, <2>3, <2>4, <2>5, Zenon DEF GuestToHost
  <2>7. out = o \o x
    BY <1>2, <1>4, <2>1, <2>2, <2>4, Zenon DEF OutAfter
  <2>8. /\ Size(ph) \in Nat /\ Size(rx) \in Nat /\ Size(o) \in Nat /\ Size(ph) <= 1 /\ Size(o) <= OutDepth
    BY <1>1, <1>2, SizeIs, Zenon
  <2>9. k \in 0 .. Size(rx) /\ k \in Nat /\ k <= Size(rx)
    <3>1. k = Least(PumpMax, Size(rx)) /\ Size(rx) \in Nat
      BY <2>1, <2>8, Zenon DEF Size
    <3> QED
      BY <3>1, FlowConsts DEF Least
  <2>10. t \in Seq(Nat) /\ Size(t) = k
    BY <1>2, <2>1, <2>9, Halves, Zenon
  <2>11. avail \in Seq(Nat) /\ Size(avail) = Size(ph) + k
    BY <1>2, <2>2, <2>10, SizeConcat, Zenon
  <2>12. Size(avail) \in Nat
    BY <2>11, SizeIs, Zenon
  <2>13. /\ n \in 0 .. Size(avail) /\ n \in Nat /\ n <= Size(avail) /\ n + Size(o) <= OutDepth
    <3>1. n = Least(Size(avail), OutDepth - Size(o)) /\ Size(o) \in Nat /\ Size(o) <= OutDepth
      BY <2>2, <2>8, Zenon DEF Size
    <3> QED
      BY <2>12, <3>1, FlowConsts DEF Least
  <2>14. /\ m \in 0 .. Size(avail) /\ m \in Nat /\ m <= Size(avail) /\ n \in 0 .. m /\ n <= m /\ m <= n + 1
         /\ j \in 0 .. Size(rx) /\ j \in Nat /\ j = m - Size(ph) /\ j <= k
    <3>1. m = Least(n + 1, Size(avail)) /\ j = m - Size(ph)
      BY <2>3, Zenon DEF Size
    <3>2. /\ n \in Nat /\ n <= Size(avail) /\ Size(avail) = Size(ph) + k /\ k \in Nat /\ k <= Size(rx)
          /\ Size(ph) \in Nat /\ Size(ph) <= 1 /\ Size(rx) \in Nat
      BY <2>8, <2>9, <2>11, <2>13, Zenon
    <3> QED
      BY <3>1, <3>2 DEF Least
  <2>15. x \in Seq(Nat) /\ Size(x) = n
    BY <2>4, <2>11, <2>13, Halves, Zenon
  <2>16. y \in Seq(Nat) /\ Size(y) = m
    BY <2>4, <2>11, <2>14, Halves, Zenon
  <2>17. p \in Seq(Nat) /\ Size(p) = m - n
    BY <2>5, <2>14, <2>16, Halves, Zenon
  <2>18. z \in Seq(Nat) /\ Size(z) = Size(rx) - j
    BY <1>2, <2>4, <2>14, Halves, Zenon
  <2>19. out \in Seq(Nat) /\ Size(out) = Size(o) + n
    BY <1>2, <2>7, <2>15, SizeConcat, Zenon
  <2>20. /\ h \in Flows /\ h.pend_h = p /\ h.rx = z
         /\ h.live = f.live /\ h.est = f.est /\ h.guest_fin = f.guest_fin /\ h.nat_fin = f.nat_fin
         /\ h.closed = f.closed /\ h.tx = f.tx /\ h.to_host = f.to_host /\ h.pend_g = f.pend_g
         /\ h.host_done = f.host_done
    BY <2>6, <2>17, <2>18, Zenon DEF Flows
  <2>21. /\ Size(p) <= 1 /\ Size(out) <= OutDepth
         /\ Size(out) + Size(p) + Size(z) = Size(o) + Size(ph) + Size(rx)
    <3>1. /\ Size(p) = m - n /\ Size(z) = Size(rx) - j /\ Size(out) = Size(o) + n /\ j = m - Size(ph)
          /\ n + Size(o) <= OutDepth /\ m <= n + 1 /\ n \in Nat /\ m \in Nat
          /\ Size(ph) \in Nat /\ Size(rx) \in Nat /\ Size(o) \in Nat
      BY <2>8, <2>13, <2>14, <2>17, <2>18, <2>19, Zenon
    <3> QED
      BY <3>1, FlowConsts
  <2>22. ASSUME NEW a \in Nat, Run(o, a), Run(ph, a + Size(o)), Run(rx, a + Size(o) + Size(ph))
         PROVE  Run(out, a) /\ Run(p, a + Size(out)) /\ Run(z, a + Size(out) + Size(p))
    <3>1. PICK b \in Nat, d \in Nat : b = a + Size(o) /\ d = b + Size(ph)
      BY <2>8
    <3>2. Run(t, d)
      <4>1. Run(First(rx, k), d)
        BY <2>9, <2>22, <3>1, RunHalves, Zenon
      <4> QED
        BY <2>1, <4>1, Zenon
    <3>3. Run(avail, b)
      BY <2>2, <2>22, <3>1, <3>2, RunConcat, Zenon
    <3>4. Run(First(avail, n), b)
      BY <2>13, <3>3, RunHalves, Zenon
    <3>5. Run(First(avail, m), b)
      BY <2>14, <3>3, RunHalves, Zenon
    <3>6. Run(x, b) /\ Run(y, b)
      BY <2>4, <3>4, <3>5, Zenon
    <3>7. Run(Rest(y, n), b + n)
      BY <2>14, <2>16, <3>6, RunHalves, Zenon
    <3>8. Run(Rest(rx, j), d + j)
      BY <2>14, <2>22, <3>1, RunHalves, Zenon
    <3>9. Run(out, a)
      BY <2>7, <2>22, <3>1, <3>6, RunConcat, Zenon
    <3>10. b + n = a + Size(out) /\ d + j = a + Size(out) + Size(p)
      <4>1. /\ Size(p) = m - n /\ Size(out) = Size(o) + n /\ j = m - Size(ph) /\ n \in Nat /\ m \in Nat
            /\ Size(ph) \in Nat /\ Size(o) \in Nat
        BY <2>8, <2>13, <2>14, <2>17, <2>19, Zenon
      <4> QED
        BY <3>1, <4>1
    <3> QED
      BY <2>4, <2>5, <3>7, <3>8, <3>9, <3>10, Zenon
  <2>23. /\ Size(h.pend_h) <= 1 /\ Size(out) <= OutDepth
         /\ Size(out) + Size(h.pend_h) + Size(h.rx) = Size(conn.out) + Size(flow.pend_h) + Size(flow.rx)
    BY <1>2, <2>20, <2>21, Zenon
  <2>24. \A a \in Nat :
                   Run(conn.out, a) /\ Run(flow.pend_h, a + Size(conn.out))
                   /\ Run(flow.rx, a + Size(conn.out) + Size(flow.pend_h)) =>
                     Run(out, a) /\ Run(h.pend_h, a + Size(out)) /\ Run(h.rx, a + Size(out) + Size(h.pend_h))
    BY <1>2, <2>20, <2>22, Zenon
  <2> QED
    BY <1>4, <2>19, <2>20, <2>23, <2>24, Zenon DEF UpPumped
<1> QED
  BY <1>3, <1>4, Zenon

\* poll: what the NAT leaves of the flow and of the connection.
LEMMA NatStage ==
  ASSUME FlowInv, NEW f1, f1 = CloseOnHostDone(HostToGuest(flow, conn)),
         NEW f, f = Reaped(HalfClose(GuestToHost(f1, conn))), NEW q, q = PumpedConn
  PROVE  InvOf(f, q, c, ws, guest, remote)
<1>1. CASE ~flow.live
  BY <1>1, Zenon DEF FlowInv, Reaped, PumpedConn
<1>2. CASE flow.live
  <2>1. PICK h, in, out : h = HostToGuest(flow, conn) /\ in = InAfter(flow, conn) /\ out = OutAfter(flow, conn)
    BY Zenon
  <2>2. /\ flow \in Flows /\ conn \in Conns /\ c \in Entries /\ ws \in Sockets
        /\ guest \in Guests /\ remote \in Remotes
        /\ Depths(flow, conn) /\ Phases(flow, conn, c, ws)
        /\ UpWay(flow, conn, ws.up, guest, remote) /\ DownWay(flow, conn, c, ws, guest, remote)
    BY Zenon DEF FlowInv, InvOf, FlowTypes
  <2>3. DownPumped(h, in)
    BY <2>1, PumpsDown, Zenon
  <2>4. PICK fin \in BOOLEAN : fin = (h.nat_fin \/ (h.host_done /\ h.pend_g = <<>> /\ MaySend(h)))
    <3>1. (h.nat_fin \/ (h.host_done /\ h.pend_g = <<>> /\ MaySend(h))) \in BOOLEAN
      BY <2>3, Zenon DEF Flows, DownPumped
    <3> QED
      BY <3>1, Zenon
  <2>5. f1 = [h EXCEPT !.nat_fin = fin]
    BY <2>1, <2>4, Zenon DEF CloseOnHostDone
  <2>6. /\ f1 \in Flows /\ f1.nat_fin = fin
        /\ f1.live = h.live /\ f1.est = h.est /\ f1.guest_fin = h.guest_fin /\ f1.closed = h.closed
        /\ f1.rx = h.rx /\ f1.tx = h.tx /\ f1.to_host = h.to_host /\ f1.pend_h = h.pend_h
        /\ f1.pend_g = h.pend_g /\ f1.host_done = h.host_done
    BY <2>3, <2>5, Zenon DEF Flows, DownPumped
  <2>7. PICK g : g = GuestToHost(f1, conn)
    BY Zenon
  <2>8. UpPumped(f1, g, out)
    <3>1. f1.rx = flow.rx /\ f1.pend_h = flow.pend_h /\ f1.to_host = flow.to_host
      BY <2>3, <2>6, Zenon DEF DownPumped
    <3> QED
      BY <2>1, <2>6, <2>7, <3>1, PumpsUp, Zenon
  <2>10. PICK th \in BOOLEAN :
           th = (g.to_host /\ ~(g.guest_fin /\ ~g.nat_fin /\ ~g.closed /\ g.pend_h = <<>> /\ g.rx = <<>>))
    <3>1. (g.to_host /\ ~(g.guest_fin /\ ~g.nat_fin /\ ~g.closed /\ g.pend_h = <<>> /\ g.rx = <<>>)) \in BOOLEAN
      BY <2>8, Zenon DEF Flows, UpPumped
    <3> QED
      BY <3>1, Zenon
  <2>11. PICK f2 : f2 = [g EXCEPT !.to_host = th]
    BY Zenon
  <2>12. HalfClose(GuestToHost(f1, conn)) = f2
    BY <2>7, <2>10, <2>11, Zenon DEF HalfClose
  <2>13. /\ f2 \in Flows /\ f2.to_host = th
         /\ f2.live = g.live /\ f2.est = g.est /\ f2.guest_fin = g.guest_fin /\ f2.nat_fin = g.nat_fin
         /\ f2.closed = g.closed /\ f2.rx = g.rx /\ f2.tx = g.tx /\ f2.pend_h = g.pend_h
         /\ f2.pend_g = g.pend_g /\ f2.host_done = g.host_done
    BY <2>8, <2>11, Zenon DEF Flows, UpPumped
  \* The flow as pumped, in terms of the flow before.
  <2>14. /\ h.live = flow.live /\ h.guest_fin = flow.guest_fin /\ h.closed = flow.closed
         /\ h.nat_fin = flow.nat_fin /\ h.to_host = flow.to_host
         /\ h.host_done => flow.host_done \/ (~conn.slot /\ h.pend_g = <<>> /\ in = <<>>)
         /\ flow.host_done => h.host_done
         /\ in \in Seq(Nat) /\ out \in Seq(Nat)
         /\ ~(flow.to_host /\ conn.slot) => out = conn.out
    BY <2>3, <2>8, Zenon DEF DownPumped, UpPumped
  <2>15. /\ f2.tx = h.tx /\ f2.pend_g = h.pend_g /\ f2.host_done = h.host_done
         /\ f2.rx = g.rx /\ f2.pend_h = g.pend_h
         /\ f2.live = h.live /\ f2.guest_fin = h.guest_fin /\ f2.closed = h.closed
         /\ f2.nat_fin = fin /\ g.to_host = h.to_host /\ g.guest_fin = h.guest_fin
    BY <2>6, <2>8, <2>13, Zenon DEF UpPumped
  <2>16. /\ f2.live = flow.live /\ f2.guest_fin = flow.guest_fin /\ f2.closed = flow.closed
         /\ f2.to_host => flow.to_host
         /\ flow.to_host /\ ~f2.to_host => flow.guest_fin /\ f2.pend_h = <<>> /\ f2.rx = <<>>
         /\ f2.nat_fin => flow.nat_fin \/ f2.host_done
         /\ flow.host_done => f2.host_done
         /\ f2.host_done => flow.host_done \/ (~conn.slot /\ f2.pend_g = <<>> /\ in = <<>>)
    <3>1. /\ f2.live = flow.live /\ f2.guest_fin = flow.guest_fin /\ f2.closed = flow.closed
          /\ flow.host_done => f2.host_done
          /\ f2.host_done => flow.host_done \/ (~conn.slot /\ f2.pend_g = <<>> /\ in = <<>>)
      BY <2>14, <2>15, Zenon
    <3>2. f2.nat_fin => flow.nat_fin \/ f2.host_done
      BY <2>4, <2>14, <2>15, Zenon
    <3>3. /\ f2.to_host => flow.to_host
          /\ flow.to_host /\ ~f2.to_host => flow.guest_fin /\ f2.pend_h = <<>> /\ f2.rx = <<>>
      BY <2>10, <2>13, <2>14, <2>15, Zenon
    <3> QED
      BY <3>1, <3>2, <3>3, Zenon
  <2>9. flow.to_host /\ conn.slot =>
          /\ Size(out) + Size(g.pend_h) + Size(g.rx) = Size(conn.out) + Size(flow.pend_h) + Size(flow.rx)
          /\ \A x \in Nat :
               Run(conn.out, x) /\ Run(flow.pend_h, x + Size(conn.out))
               /\ Run(flow.rx, x + Size(conn.out) + Size(flow.pend_h)) =>
                 Run(out, x) /\ Run(g.pend_h, x + Size(out)) /\ Run(g.rx, x + Size(out) + Size(g.pend_h))
    BY <2>8, Zenon DEF UpPumped
  \* The way up.
  <2>17. PICK u \in Nat, a \in Nat : u = Size(remote.got) /\ a = u + Size(ws.up)
    <3>1. Size(remote.got) \in Nat /\ Size(ws.up) \in Nat
      <4>1. remote.got \in Seq(Nat) /\ ws.up \in Seq(Int)
        BY <2>2, Zenon DEF Remotes, Sockets
      <4> QED
        BY <4>1, LenProperties, Zenon DEF Size
    <3> QED
      BY <3>1
  <2>18. conn.slot /\ ~conn.reported => Run(out, a)
    <3>1. SUFFICES ASSUME conn.slot, ~conn.reported PROVE Run(out, a)
      BY Zenon
    <3>2. Run(conn.out, a)
      BY <2>2, <2>17, <3>1, Zenon DEF UpWay
    <3>3. CASE ~flow.to_host
      BY <2>14, <3>2, <3>3, Zenon
    <3>4. CASE flow.to_host
      <4>1. Run(flow.pend_h, a + Size(conn.out)) /\ Run(flow.rx, a + Size(conn.out) + Size(flow.pend_h))
        BY <2>2, <2>17, <3>1, <3>4, Zenon DEF UpWay
      <4> QED
        BY <2>9, <3>1, <3>2, <3>4, <4>1, Zenon
    <3> QED
      BY <3>3, <3>4, Zenon
  <2>19. ASSUME conn.slot, ~conn.reported, flow.to_host
         PROVE  /\ Run(g.pend_h, a + Size(out)) /\ Run(g.rx, a + Size(out) + Size(g.pend_h))
                /\ guest.sent = a + Size(out) + Size(g.pend_h) + Size(g.rx)
    <3>1. /\ Run(conn.out, a) /\ Run(flow.pend_h, a + Size(conn.out))
          /\ Run(flow.rx, a + Size(conn.out) + Size(flow.pend_h))
          /\ guest.sent = a + Size(conn.out) + Size(flow.pend_h) + Size(flow.rx)
      BY <2>2, <2>17, <2>19, Zenon DEF UpWay
    <3>2. Run(g.pend_h, a + Size(out)) /\ Run(g.rx, a + Size(out) + Size(g.pend_h))
      BY <2>9, <2>19, <3>1, Zenon
    <3>3. Size(out) + Size(g.pend_h) + Size(g.rx) = Size(conn.out) + Size(flow.pend_h) + Size(flow.rx)
      BY <2>9, <2>19, Zenon
    <3>4. /\ Size(out) \in Nat /\ Size(g.pend_h) \in Nat /\ Size(g.rx) \in Nat
          /\ Size(conn.out) \in Nat /\ Size(flow.pend_h) \in Nat /\ Size(flow.rx) \in Nat
      BY <2>2, <2>8, SizeIs, Zenon DEF Flows, Conns, UpPumped
    <3> QED
      BY <3>1, <3>2, <3>3, <3>4
  <2>20. conn.reported \/ ~conn.slot => out = <<>> 
    <3>1. /\ conn.reported => conn.out = <<>> /\ ~flow.to_host
          /\ ~conn.slot => conn.out = <<>>
      BY <2>2, Zenon DEF UpWay
    <3> QED
      BY <2>14, <3>1, Zenon
  \* What stays as it was on the way up.
  <2>21. /\ Run(remote.got, 0)
         /\ \E m \in Nat : Framed(ws.up, u, m, guest.sent) /\ (remote.eof => m = 0)
         /\ ~conn.reported => Lacks(ws.up, Fin)
         /\ conn.slot => Lacks(ws.up, Close)
         /\ remote.eof => conn.reported /\ u = guest.sent
         /\ conn.reported => flow.guest_fin /\ ~flow.to_host
         /\ conn.slot /\ ~conn.reported /\ ~flow.to_host /\ ~conn.stop =>
              flow.guest_fin /\ guest.sent = a + Size(conn.out)
    BY <2>2, <2>17, Zenon DEF UpWay
  \* The way down.
  <2>22. /\ Run(guest.got, 0)
         /\ guest.saw_fin => Size(guest.got) = remote.sent /\ ws.state = "closed"
    BY <2>2, Zenon DEF DownWay
  <2>23. ASSUME ~flow.closed
         PROVE  LET b1 == Size(guest.got) + Size(h.tx)
                    b2 == b1 + Size(h.pend_g)
                    b3 == b2 + Size(in)
                IN  /\ Run(h.tx, Size(guest.got)) /\ Run(h.pend_g, b1) /\ Run(in, b2) /\ Run(c.pendingIn, b3)
                    /\ Downed(ws.down, b3 + Size(c.pendingIn), remote.sent)
                    /\ ~remote.closed => Lacks(ws.down, Close)
                    /\ c.hostClosed \/ ws.state \in {"none", "connecting"} => ws.down = <<>>
                    /\ ~conn.slot => c.pendingIn = <<>>
                    /\ h.host_done => ~conn.slot /\ h.pend_g = <<>> /\ in = <<>>
    <3>1. PICK b \in Nat : b = Size(guest.got)
      BY <2>2, SizeIs, Zenon DEF Guests
    <3>2. PICK b3 : b3 = b + Size(flow.tx) + Size(flow.pend_g) + Size(conn.in)
      BY Zenon
    <3>3. /\ Run(flow.tx, b) /\ Run(flow.pend_g, b + Size(flow.tx))
          /\ Run(conn.in, b + Size(flow.tx) + Size(flow.pend_g)) /\ Run(c.pendingIn, b3)
          /\ Downed(ws.down, b3 + Size(c.pendingIn), remote.sent)
          /\ ~remote.closed => Lacks(ws.down, Close)
          /\ c.hostClosed \/ ws.state \in {"none", "connecting"} => ws.down = <<>>
          /\ ~conn.slot => c.pendingIn = <<>>
          /\ flow.host_done => ~conn.slot /\ flow.pend_g = <<>> /\ conn.in = <<>>
      BY <2>2, <2>23, <3>1, <3>2, Zenon DEF DownWay
    <3>4. Run(h.tx, b) /\ Run(h.pend_g, b + Size(h.tx)) /\ Run(in, b + Size(h.tx) + Size(h.pend_g))
      <4>1. \A x \in Nat :
              Run(flow.tx, x) /\ Run(flow.pend_g, x + Size(flow.tx))
              /\ Run(conn.in, x + Size(flow.tx) + Size(flow.pend_g)) =>
                Run(h.tx, x) /\ Run(h.pend_g, x + Size(h.tx)) /\ Run(in, x + Size(h.tx) + Size(h.pend_g))
        BY <2>3, Zenon DEF DownPumped
      <4> QED
        BY <3>3, <4>1, Zenon
    <3>5. b3 = b + Size(h.tx) + Size(h.pend_g) + Size(in)
      <4>1. Size(h.tx) + Size(h.pend_g) + Size(in) = Size(flow.tx) + Size(flow.pend_g) + Size(conn.in)
        BY <2>3, Zenon DEF DownPumped
      <4>2. /\ Size(h.tx) \in Nat /\ Size(h.pend_g) \in Nat /\ Size(in) \in Nat
            /\ Size(flow.tx) \in Nat /\ Size(flow.pend_g) \in Nat /\ Size(conn.in) \in Nat
        BY <2>2, <2>3, SizeIs, Zenon DEF DownPumped, Flows, Conns
      <4>3. PICK x, y, z, x2, y2, z2 \in Nat :
              /\ x = Size(flow.tx) /\ y = Size(flow.pend_g) /\ z = Size(conn.in)
              /\ x2 = Size(h.tx) /\ y2 = Size(h.pend_g) /\ z2 = Size(in)
        BY <4>2, Zenon
      <4>4. x2 + y2 + z2 = x + y + z
        BY <4>1, <4>3, Zenon
      <4>5. b + x + y + z = b + x2 + y2 + z2
        BY <4>4
      <4> QED
        BY <3>2, <4>3, <4>5, Zenon
    <3>6. h.host_done => ~conn.slot /\ h.pend_g = <<>> /\ in = <<>>
      <4>1. flow.pend_g = <<>> /\ conn.in = <<>> => h.pend_g = <<>> /\ in = <<>>
        BY <2>3, Zenon DEF DownPumped
      <4> QED
        BY <2>14, <3>3, <4>1, Zenon
    <3>7. b3 = ((Size(guest.got) + Size(h.tx)) + Size(h.pend_g)) + Size(in)
      BY <3>1, <3>5, Zenon
    <3> QED
      BY <3>1, <3>3, <3>4, <3>6, <3>7, Zenon
  <2>24. /\ Size(h.tx) <= SockCap /\ Size(h.pend_g) <= 1 /\ Size(in) <= InDepth
         /\ Size(g.pend_h) <= 1 /\ Size(out) <= OutDepth
    <3>1. Size(in) <= Size(conn.in) /\ Size(conn.in) <= InDepth /\ Size(in) \in Nat /\ Size(conn.in) \in Nat
      BY <2>2, <2>3, SizeIs, Zenon DEF DownPumped, Depths, Conns
    <3>2. Size(in) <= InDepth
      BY <3>1, FlowConsts
    <3> QED
      BY <2>3, <2>8, <3>2, Zenon DEF DownPumped, UpPumped
  <2>25. /\ conn.slot /\ conn.stop => flow.closed
         /\ conn.write_closed => ~flow.to_host
         /\ ~conn.slot => ~conn.new /\ ~c.known /\ ws.state = "closed" /\ (flow.closed \/ c.hostClosed)
         /\ conn.new => ws.state = "none"
         /\ ws.state = "none" => ~c.open /\ ~c.hostClosed
         /\ c.hostClosed => ws.state = "closed"
         /\ flow.nat_fin => flow.host_done
    BY <2>2, Zenon DEF Phases
  <2>26. CASE flow.closed
    <3>1. f = [f2 EXCEPT !.live = FALSE, !.to_host = FALSE, !.rx = <<>>, !.pend_h = <<>>, !.pend_g = <<>>]
      BY <1>2, <2>12, <2>26, Zenon DEF Reaped
    <3>2. q = [conn EXCEPT !.in = <<>>, !.out = out, !.stop = TRUE]
      BY <1>2, <2>1, <2>26, Zenon DEF PumpedConn
    <3>3. <<>> \in Seq(Nat) /\ Size(<<>>) = 0 /\ \A x : Run(<<>>, x)
      BY RunNone
    <3>4. /\ f \in Flows /\ ~f.to_host /\ f.rx = <<>> /\ f.pend_h = <<>> /\ f.pend_g = <<>>
          /\ f.closed = f2.closed /\ f.tx = f2.tx /\ f.guest_fin = f2.guest_fin
          /\ f.nat_fin = f2.nat_fin /\ f.host_done = f2.host_done
      BY <2>13, <3>1, <3>3, Zenon DEF Flows
    <3>5. /\ q \in Conns /\ q.in = <<>> /\ q.out = out /\ q.stop = TRUE /\ q.slot = conn.slot
          /\ q.new = conn.new /\ q.write_closed = conn.write_closed /\ q.reported = conn.reported
      BY <2>2, <2>14, <3>2, <3>3, Zenon DEF Conns
    <3>6. Depths(f, q)
      <4>2. Size(<<>>) = 0 /\ InDepth \in Nat
        BY <3>3, FlowConsts, Zenon
      <4>1. Size(<<>>) <= 1
        BY <4>2
      <4>3. Size(<<>>) <= InDepth
        BY <4>2
      <4> QED
        BY <2>15, <2>24, <3>4, <3>5, <4>1, <4>3, Zenon DEF Depths
    <3>7. Phases(f, q, c, ws)
      BY <2>16, <2>25, <2>26, <3>4, <3>5, Zenon DEF Phases
    <3>8. UpWay(f, q, ws.up, guest, remote)
      BY <2>16, <2>17, <2>18, <2>20, <2>21, <3>4, <3>5, Zenon DEF UpWay
    <3>9. DownWay(f, q, c, ws, guest, remote)
      BY <2>16, <2>22, <2>26, <3>4, Zenon DEF DownWay
    <3> QED
      BY <2>2, <3>4, <3>5, <3>6, <3>7, <3>8, <3>9, Zenon DEF InvOf, FlowTypes
  <2>27. CASE ~flow.closed
    <3>1. f = f2
      BY <1>2, <2>12, <2>27, Zenon DEF Reaped
    <3>2. q = [conn EXCEPT !.in = in, !.out = out, !.stop = @ \/ flow.closed]
      BY <1>2, <2>1, <2>27, Zenon DEF PumpedConn
    <3>3. /\ q \in Conns /\ q.in = in /\ q.out = out /\ q.stop = conn.stop /\ q.slot = conn.slot
          /\ q.new = conn.new /\ q.write_closed = conn.write_closed /\ q.reported = conn.reported
      BY <2>2, <2>14, <2>27, <3>2, Zenon DEF Conns
    <3>4. Depths(f, q)
      BY <2>15, <2>24, <3>1, <3>3, Zenon DEF Depths
    <3>5. Phases(f, q, c, ws)
      BY <1>2, <2>16, <2>25, <3>1, <3>3, Zenon DEF Phases
    <3>6. UpWay(f, q, ws.up, guest, remote)
      <4>1. conn.slot /\ ~conn.reported =>
              /\ f2.to_host => /\ Run(f2.pend_h, a + Size(out)) /\ Run(f2.rx, a + Size(out) + Size(f2.pend_h))
                               /\ guest.sent = a + Size(out) + Size(f2.pend_h) + Size(f2.rx)
              /\ ~f2.to_host /\ ~conn.stop => f2.guest_fin /\ guest.sent = a + Size(out)
        <5>1. SUFFICES ASSUME conn.slot, ~conn.reported
              PROVE  /\ f2.to_host =>
                          /\ Run(f2.pend_h, a + Size(out)) /\ Run(f2.rx, a + Size(out) + Size(f2.pend_h))
                          /\ guest.sent = a + Size(out) + Size(f2.pend_h) + Size(f2.rx)
                     /\ ~f2.to_host /\ ~conn.stop => f2.guest_fin /\ guest.sent = a + Size(out)
          BY Zenon
        <5>2. CASE flow.to_host
          <6>1. /\ Run(f2.pend_h, a + Size(out)) /\ Run(f2.rx, a + Size(out) + Size(f2.pend_h))
                /\ guest.sent = a + Size(out) + Size(f2.pend_h) + Size(f2.rx)
            BY <2>15, <2>19, <5>1, <5>2, Zenon
          <6>2. ASSUME ~f2.to_host PROVE guest.sent = a + Size(out)
            <7>1. guest.sent = a + Size(out) + Size(<<>>) + Size(<<>>)
              BY <2>16, <5>2, <6>1, <6>2, Zenon
            <7>2. Size(out) \in Nat
              BY <2>14, SizeIs, Zenon
            <7> QED
              BY <7>1, <7>2, RunNone
          <6> QED
            BY <2>16, <5>2, <6>1, <6>2, Zenon
        <5>3. CASE ~flow.to_host
          BY <2>14, <2>16, <2>21, <5>1, <5>3, Zenon
        <5> QED
          BY <5>2, <5>3, Zenon
      <4> QED
        BY <2>16, <2>17, <2>18, <2>20, <2>21, <3>1, <3>3, <4>1, Zenon DEF UpWay
    <3>7. DownWay(f, q, c, ws, guest, remote)
      BY <2>15, <2>22, <2>23, <2>27, <3>1, <3>3, Zenon DEF DownWay
    <3> QED
      BY <2>2, <2>13, <3>1, <3>3, <3>4, <3>5, <3>6, <3>7, Zenon DEF InvOf, FlowTypes
  <2> QED
    BY <2>26, <2>27, Zenon
<1> QED
  BY <1>1, <1>2, Zenon

\* The frames under way, with one more at either end.
LEMMA FramedRun ==
  ASSUME NEW up \in Seq(Int), NEW u \in Nat, NEW m, NEW sent, Framed(up, u, m, sent),
         Lacks(up, Fin), Lacks(up, Close)
  PROVE  Run(up, u)
<1>1. Len(up) \in Nat
  BY LenProperties, Zenon
<1>2. ASSUME NEW i \in 1 .. Len(up) PROVE up[i] = u + i
  <2>1. m \in 0 .. Len(up) /\ up[i] # Fin /\ up[i] # Close
    BY Zenon DEF Framed, Lacks
  <2>2. i <= m
    <3>1. ~(i > m)
      BY <2>1, Zenon DEF Framed
    <3> QED
      BY <1>1, <2>1, <3>1
  <2> QED
    BY <2>2, Zenon DEF Framed
<1>3. up \in Seq(Nat)
  <2>1. \A i \in 1 .. Len(up) : up[i] \in Nat
    BY <1>1, <1>2
  <2> QED
    BY <1>1, <2>1
<1> QED
  BY <1>2, <1>3, Zenon DEF Run

LEMMA RunFramed ==
  ASSUME NEW s, NEW u \in Nat, Run(s, u)
  PROVE  s \in Seq(Int) /\ Lacks(s, Fin) /\ Lacks(s, Close) /\ \A sent : Framed(s, u, Size(s), sent)
<1>1. s \in Seq(Nat) /\ Len(s) \in Nat /\ \A i \in 1 .. Len(s) : s[i] = u + i
  BY LenProperties, Zenon DEF Run
<1>2. s \in Seq(Int)
  BY <1>1
<1>3. PICK l : l = Len(s) /\ l \in Nat
  BY <1>1, Zenon
<1>4. l \in 0 .. l /\ \A i \in 1 .. l : ~(i > l) /\ u + i # Fin /\ u + i # Close
  BY <1>3 DEF Fin, Close
<1> QED
  BY <1>1, <1>2, <1>3, <1>4, Zenon DEF Framed, Lacks, Size

LEMMA FramedAppend ==
  ASSUME NEW up \in Seq(Int), NEW x \in Int
  PROVE  /\ Append(up, x) \in Seq(Int) /\ Len(Append(up, x)) = Len(up) + 1 /\ Len(up) \in Nat
         /\ \A i \in 1 .. Len(up) + 1 : Append(up, x)[i] = IF i <= Len(up) THEN up[i] ELSE x
<1>1. /\ Append(up, x) \in Seq(Int) /\ Len(Append(up, x)) = Len(up) + 1
      /\ \A i \in 1 .. Len(up) : Append(up, x)[i] = up[i]
      /\ Append(up, x)[Len(up) + 1] = x
  BY AppendProperties
<1>2. Len(up) \in Nat
  BY LenProperties, Zenon
<1> QED
  BY <1>1, <1>2

LEMMA FramedFin ==
  ASSUME NEW up, NEW u \in Nat, Run(up, u)
  PROVE  /\ Append(up, Fin) \in Seq(Int) /\ Lacks(Append(up, Fin), Close)
         /\ Framed(Append(up, Fin), u, Size(up), u + Size(up))
<1>1. PICK s, l : /\ s = Append(up, Fin) /\ l = Len(up) /\ s \in Seq(Int) /\ Len(s) = l + 1 /\ l \in Nat
                  /\ \A i \in 1 .. l + 1 : s[i] = IF i <= l THEN up[i] ELSE Fin
  <2>1. Fin \in Int
    BY DEF Fin
  <2>2. /\ Append(up, Fin) \in Seq(Int) /\ Len(Append(up, Fin)) = Len(up) + 1 /\ Len(up) \in Nat
        /\ \A i \in 1 .. Len(up) + 1 : Append(up, Fin)[i] = IF i <= Len(up) THEN up[i] ELSE Fin
    <3>1. up \in Seq(Int)
      BY DEF Run
    <3> QED
      BY <2>1, <3>1, FramedAppend, Zenon
  <2> QED
    BY <2>2, Zenon
<1>2. \A i \in 1 .. l : up[i] = u + i
  BY <1>1, Zenon DEF Run
<1>4. l \in Nat /\ l \in 0 .. l + 1
  BY <1>1
<1>5. ASSUME NEW i \in 1 .. l + 1
      PROVE  /\ i <= l => s[i] = u + i
             /\ i > l => s[i] = Fin
             /\ s[i] = Fin => i = l + 1
             /\ s[i] # Close
  <2>1. CASE i <= l
    <3>1. i \in 1 .. l
      BY <1>4, <2>1
    <3>2. s[i] = u + i
      BY <1>1, <1>2, <2>1, <3>1, Zenon
    <3> QED
      BY <1>4, <2>1, <3>2 DEF Fin, Close
  <2>2. CASE ~(i <= l)
    <3>1. s[i] = Fin
      BY <1>1, <2>2, Zenon
    <3> QED
      BY <1>4, <2>2, <3>1 DEF Fin, Close
  <2> QED
    BY <2>1, <2>2, Zenon
<1>3. Framed(s, u, l, u + l) /\ Lacks(s, Close)
  BY <1>1, <1>2, <1>4, <1>5, Zenon DEF Framed, Lacks
<1> QED
  BY <1>1, <1>3, Zenon DEF Size

LEMMA FramedClose ==
  ASSUME NEW up \in Seq(Int), NEW u \in Nat, NEW m, NEW sent, Framed(up, u, m, sent), Lacks(up, Close)
  PROVE  /\ Append(up, Close) \in Seq(Int) /\ Framed(Append(up, Close), u, m, sent)
         /\ Lacks(up, Fin) => Lacks(Append(up, Close), Fin)
<1>1. PICK s, l : /\ s = Append(up, Close) /\ l = Len(up) /\ s \in Seq(Int) /\ Len(s) = l + 1 /\ l \in Nat
                  /\ \A i \in 1 .. l + 1 : s[i] = IF i <= l THEN up[i] ELSE Close
  <2>1. Close \in Int
    BY DEF Close
  <2>2. /\ Append(up, Close) \in Seq(Int) /\ Len(Append(up, Close)) = Len(up) + 1 /\ Len(up) \in Nat
        /\ \A i \in 1 .. Len(up) + 1 : Append(up, Close)[i] = IF i <= Len(up) THEN up[i] ELSE Close
    BY <2>1, FramedAppend, Zenon
  <2> QED
    BY <2>2, Zenon
<1>2. /\ m \in 0 .. l
      /\ \A i \in 1 .. l : /\ i <= m => up[i] = u + i
                           /\ i > m => up[i] = Fin \/ up[i] = Close
                           /\ up[i] = Fin => i = m + 1 /\ u + m = sent
                           /\ up[i] # Close
  BY <1>1, Zenon DEF Framed, Lacks
<1>4. l \in Nat /\ m \in Nat /\ m <= l /\ m \in 0 .. l + 1
  BY <1>1, <1>2
<1>5. ASSUME NEW i \in 1 .. l + 1
      PROVE  /\ i <= m => s[i] = u + i
             /\ i > m => s[i] = Fin \/ s[i] = Close
             /\ s[i] = Fin => i = m + 1 /\ u + m = sent
             /\ s[i] = Close => i = l + 1
  <2>1. CASE i <= l
    <3>1. i \in 1 .. l
      BY <1>4, <2>1
    <3>2. s[i] = up[i]
      BY <1>1, <2>1, Zenon
    <3> QED
      BY <1>2, <3>1, <3>2, Zenon
  <2>2. CASE ~(i <= l)
    <3>1. s[i] = Close /\ Close # Fin
      BY <1>1, <2>2 DEF Fin, Close
    <3>2. i = l + 1 /\ ~(i <= m)
      BY <1>4, <2>2
    <3> QED
      BY <3>1, <3>2, Zenon
  <2> QED
    BY <2>1, <2>2, Zenon
<1>3. Framed(s, u, m, sent)
  BY <1>1, <1>4, <1>5, Zenon DEF Framed
<1>6. ASSUME Lacks(up, Fin), NEW i \in 1 .. l + 1 PROVE s[i] # Fin
  <2>1. Close # Fin
    BY DEF Fin, Close
  <2>2. CASE i <= l
    <3>1. i \in 1 .. l
      BY <1>4, <2>2
    <3>2. s[i] = up[i]
      BY <1>1, <2>2, Zenon
    <3> QED
      BY <1>1, <1>6, <3>1, <3>2, Zenon DEF Lacks
  <2> QED
    BY <1>1, <2>1, <2>2, Zenon
<1>7. Lacks(up, Fin) => Lacks(s, Fin)
  BY <1>1, <1>6, Zenon DEF Lacks
<1> QED
  BY <1>1, <1>3, <1>7, Zenon

LEMMA FramedTake ==
  ASSUME NEW up \in Seq(Int), up # <<>>, NEW u \in Nat, NEW m, NEW sent, Framed(up, u, m, sent)
  PROVE  /\ Tail(up) \in Seq(Int) /\ Size(up) \in Nat /\ Size(Tail(up)) = Size(up) - 1
         /\ m = 0 => /\ Head(up) \in {Fin, Close} /\ Framed(Tail(up), u, 0, sent)
                     /\ Head(up) = Fin => u = sent
         /\ m # 0 => /\ Head(up) = u + 1 /\ Head(up) \in Nat \ {0} /\ m - 1 \in Nat
                     /\ Framed(Tail(up), u + 1, m - 1, sent)
         /\ \A x : Lacks(up, x) => Head(up) # x /\ Lacks(Tail(up), x)
<1>7. PICK s, k : s = Tail(up) /\ k = Len(up) /\ s \in Seq(Int) /\ Len(s) = k - 1 /\ k \in Nat \ {0}
                  /\ Head(up) = up[1] /\ \A i \in 1 .. k - 1 : s[i] = up[i + 1]
  <2>1. /\ Tail(up) \in Seq(Int) /\ Len(Tail(up)) = Len(up) - 1 /\ Head(up) = up[1]
        /\ \A i \in 1 .. Len(up) - 1 : Tail(up)[i] = up[i + 1]
    BY HeadTailProperties
  <2>2. Len(up) \in Nat \ {0}
    OBVIOUS
  <2> QED
    BY <2>1, <2>2, Zenon
<1>8. PICK l \in Nat : l + 1 = k /\ l = k - 1
  BY <1>7
<1>1. /\ s = Tail(up) /\ l + 1 = Len(up) /\ s \in Seq(Int) /\ Len(s) = l
      /\ Head(up) = up[1] /\ \A i \in 1 .. l : s[i] = up[i + 1]
  BY <1>7, <1>8, Zenon
<1>2. /\ m \in 0 .. l + 1
      /\ \A i \in 1 .. l + 1 : /\ i <= m => up[i] = u + i
                               /\ i > m => up[i] = Fin \/ up[i] = Close
                               /\ up[i] = Fin => i = m + 1 /\ u + m = sent
                               /\ up[i] = Close => i = l + 1
  BY <1>1, Zenon DEF Framed
<1>9. 1 \in 1 .. l + 1
  OBVIOUS
<1>3. ASSUME m = 0 PROVE /\ Head(up) \in {Fin, Close} /\ Framed(s, u, 0, sent)
                         /\ Head(up) = Fin => u = sent
  <2>1. /\ Head(up) = Fin \/ Head(up) = Close
        /\ Head(up) = Fin => u + 0 = sent
    <3>1. 1 > m
      BY <1>3
    <3> QED
      BY <1>1, <1>2, <1>3, <1>9, <3>1, Zenon
  <2>2. ASSUME NEW i \in 1 .. l
        PROVE  /\ ~(i <= 0) /\ (s[i] = Fin \/ s[i] = Close) /\ s[i] # Fin
               /\ s[i] = Close => i = l
    <3>1. i + 1 \in 1 .. l + 1 /\ i + 1 > m /\ i + 1 # m + 1 /\ ~(i <= 0) /\ (i + 1 = l + 1 => i = l)
      BY <1>3
    <3>2. s[i] = up[i + 1]
      BY <1>1, Zenon
    <3> QED
      BY <1>2, <3>1, <3>2, Zenon
  <2>3. 0 \in 0 .. l /\ (u + 0 = sent => u = sent)
    OBVIOUS
  <2>4. Framed(s, u, 0, sent)
    BY <1>1, <2>2, <2>3, Zenon DEF Framed
  <2> QED
    BY <2>1, <2>3, <2>4, Zenon
<1>4. ASSUME m # 0 PROVE /\ Head(up) = u + 1 /\ Head(up) \in Nat \ {0} /\ m - 1 \in Nat
                         /\ Framed(s, u + 1, m - 1, sent)
  <2>1. 1 <= m /\ m - 1 \in Nat /\ m - 1 \in 0 .. l /\ u + 1 \in Nat \ {0}
    BY <1>2, <1>4
  <2>2. Head(up) = u + 1
    BY <1>1, <1>2, <1>9, <2>1, Zenon
  <2>3. ASSUME NEW i \in 1 .. l
        PROVE  /\ i <= m - 1 => s[i] = (u + 1) + i
               /\ i > m - 1 => s[i] = Fin \/ s[i] = Close
               /\ s[i] = Fin => i = (m - 1) + 1 /\ (u + 1) + (m - 1) = sent
               /\ s[i] = Close => i = l
    <3>1. /\ i + 1 \in 1 .. l + 1 /\ (i <= m - 1 => i + 1 <= m) /\ (i > m - 1 => i + 1 > m)
          /\ i + 1 = m + 1 => i = (m - 1) + 1
          /\ i + 1 = l + 1 => i = l
          /\ u + (i + 1) = (u + 1) + i /\ (u + 1) + (m - 1) = u + m
      BY <1>2
    <3>2. s[i] = up[i + 1]
      BY <1>1, Zenon
    <3> QED
      BY <1>2, <3>1, <3>2, Zenon
  <2>4. Framed(s, u + 1, m - 1, sent)
    BY <1>1, <2>1, <2>3, Zenon DEF Framed
  <2> QED
    BY <2>1, <2>2, <2>4, Zenon
<1>5. Size(up) = l + 1 /\ Size(s) = l /\ l \in Nat
  BY <1>1, Zenon DEF Size
<1>6. Size(up) \in Nat /\ Size(s) = Size(up) - 1
  BY <1>5
<1>10. ASSUME NEW x, Lacks(up, x) PROVE up[1] # x /\ Lacks(s, x)
  <2>1. \A i \in 1 .. l + 1 : up[i] # x
    BY <1>1, <1>10, Zenon DEF Lacks
  <2>2. ASSUME NEW i \in 1 .. l PROVE s[i] # x
    <3>1. i + 1 \in 1 .. l + 1 /\ s[i] = up[i + 1]
      BY <1>1
    <3> QED
      BY <2>1, <3>1, Zenon
  <2> QED
    BY <1>1, <1>9, <2>1, <2>2, Zenon DEF Lacks
<1> QED
  BY <1>1, <1>3, <1>4, <1>6, <1>10, Zenon

-----------------------------------------------------------------------------
(* pumpRelay, step by step.                                                *)

\* netOpenConn: a new connection gets its entry and its WebSocket.
LEMMA RelayOpens ==
  ASSUME NEW f, NEW q, NEW e, NEW w, InvOf(f, q, e, w, guest, remote),
         NEW q0, q0 = [q EXCEPT !.new = FALSE], NEW e0, e0 = Opened(e, q),
         NEW w0, w0 = [w EXCEPT !.state = IF q.new THEN "connecting" ELSE @]
  PROVE  /\ InvOf(f, q0, e0, w0, guest, remote)
         /\ q.new => ~e0.open /\ ~e0.hostClosed
<1>1. /\ FlowTypes(f, q, e, w, guest, remote) /\ Depths(f, q) /\ Phases(f, q, e, w)
      /\ UpWay(f, q, w.up, guest, remote) /\ DownWay(f, q, e, w, guest, remote)
  BY Zenon DEF InvOf
<1>2. q \in Conns /\ e \in Entries /\ w \in Sockets
  BY <1>1, Zenon DEF FlowTypes
<1>3. /\ q0 \in Conns /\ q0.slot = q.slot /\ ~q0.new /\ q0.stop = q.stop /\ q0.out = q.out /\ q0.in = q.in
      /\ q0.write_closed = q.write_closed /\ q0.reported = q.reported
  BY <1>2, Zenon DEF Conns
<1>4. /\ e0 \in Entries /\ e0.open = e.open /\ e0.hostClosed = e.hostClosed /\ e0.pendingIn = e.pendingIn
      /\ ~q.new => e0.known = e.known
  BY <1>2, Zenon DEF Entries, Opened
<1>5. /\ w0 \in Sockets /\ w0.up = w.up /\ w0.down = w.down
      /\ q.new => w0.state = "connecting"
      /\ ~q.new => w0.state = w.state
  <2>1. PICK st : st = IF q.new THEN "connecting" ELSE w.state
    BY Zenon
  <2>2. w0 = [w EXCEPT !.state = st]
    BY <2>1, Zenon
  <2>3. st \in {"none", "connecting", "open", "closed"}
    BY <1>2, <2>1, Zenon DEF Sockets
  <2>4. w0 \in Sockets /\ w0.up = w.up /\ w0.down = w.down /\ w0.state = st
    BY <1>2, <2>2, <2>3, Zenon DEF Sockets
  <2> QED
    BY <2>1, <2>4, Zenon
<1>6. /\ q.new => w.state = "none" /\ ~e.open /\ ~e.hostClosed /\ q.slot
      /\ q.new => ~guest.saw_fin
  <2>1. "none" # "closed"
    BY Zenon
  <2> QED
    BY <1>1, <2>1, Zenon DEF Phases, DownWay
<1>7. Depths(f, q0)
  BY <1>1, <1>3, Zenon DEF Depths
<1>8. Phases(f, q0, e0, w0)
  <2>1. "connecting" # "none"
    BY Zenon
  <2>2. CASE q.new
    BY <1>1, <1>3, <1>4, <1>5, <1>6, <2>1, <2>2, Zenon DEF Phases
  <2>3. CASE ~q.new
    BY <1>1, <1>3, <1>4, <1>5, <2>3, Zenon DEF Phases
  <2> QED
    BY <2>2, <2>3, Zenon
<1>9. UpWay(f, q0, w0.up, guest, remote)
  BY <1>1, <1>3, <1>5, Zenon DEF UpWay
<1>10. DownWay(f, q0, e0, w0, guest, remote)
  <2>1. CASE q.new
    BY <1>1, <1>3, <1>4, <1>5, <1>6, <2>1, Zenon DEF DownWay
  <2>2. CASE ~q.new
    BY <1>1, <1>3, <1>4, <1>5, <2>2, Zenon DEF DownWay
  <2> QED
    BY <2>1, <2>2, Zenon
<1> QED
  BY <1>1, <1>3, <1>4, <1>5, <1>6, <1>7, <1>8, <1>9, <1>10, Zenon DEF InvOf, FlowTypes

\* net_conn_send: messages of the WebSocket go to the connection's queue.
LEMMA RelaySends ==
  ASSUME NEW f, NEW q, NEW e, NEW w, InvOf(f, q, e, w, guest, remote),
         NEW k, k = SentIn(f, q, e),
         NEW q1, q1 = [q EXCEPT !.in = @ \o First(e.pendingIn, k)],
         NEW e1, e1 = [e EXCEPT !.pendingIn = Rest(e.pendingIn, k)]
  PROVE  InvOf(f, q1, e1, w, guest, remote)
<1>1. /\ FlowTypes(f, q, e, w, guest, remote) /\ Depths(f, q) /\ Phases(f, q, e, w)
      /\ UpWay(f, q, w.up, guest, remote) /\ DownWay(f, q, e, w, guest, remote)
  BY Zenon DEF InvOf
<1>2. f \in Flows /\ q \in Conns /\ e \in Entries /\ guest \in Guests
  BY <1>1, Zenon DEF FlowTypes
<1>3. PICK p, in : p = e.pendingIn /\ in = q.in /\ p \in Seq(Nat) /\ in \in Seq(Nat) /\ Size(in) <= InDepth
  BY <1>1, <1>2, Zenon DEF Entries, Conns, Depths
<1>4. Size(p) \in Nat /\ Size(in) \in Nat
  BY <1>3, SizeIs, Zenon
<1>5. k \in 0 .. Size(p) /\ k \in Nat /\ Size(in) + k <= InDepth
  <2>1. k = 0 \/ k = Least(Size(p), InDepth - Size(in))
    BY <1>3, Zenon DEF SentIn, Size
  <2>2. Size(in) <= InDepth
    BY <1>3, Zenon
  <2> QED
    BY <1>4, <2>1, <2>2, FlowConsts DEF Least
<1>6. PICK x, left : x = First(p, k) /\ left = Rest(p, k)
  BY Zenon
<1>7. x \in Seq(Nat) /\ left \in Seq(Nat) /\ Size(x) = k /\ Size(left) = Size(p) - k
  <2>1. /\ First(p, k) \in Seq(Nat) /\ Rest(p, k) \in Seq(Nat)
        /\ Size(First(p, k)) = k /\ Size(Rest(p, k)) = Size(p) - k
    BY <1>3, <1>5, Halves, Zenon
  <2> QED
    BY <1>6, <2>1, Zenon
<1>8. in \o x \in Seq(Nat) /\ Size(in \o x) = Size(in) + k
  <2>1. in \in Seq(Nat) /\ x \in Seq(Nat) /\ Size(x) = k
    BY <1>3, <1>7, Zenon
  <2>2. in \o x \in Seq(Nat) /\ Size(in \o x) = Size(in) + Size(x)
    BY <2>1, SizeConcat, Zenon
  <2> QED
    BY <2>1, <2>2, Zenon
<1>9. q1 = [q EXCEPT !.in = in \o x] /\ e1 = [e EXCEPT !.pendingIn = left]
  BY <1>3, <1>6, Zenon
<1>10. /\ q1 \in Conns /\ q1.in = in \o x /\ q1.slot = q.slot /\ q1.new = q.new /\ q1.stop = q.stop
       /\ q1.out = q.out /\ q1.write_closed = q.write_closed /\ q1.reported = q.reported
  BY <1>2, <1>8, <1>9, Zenon DEF Conns
<1>11. /\ e1 \in Entries /\ e1.pendingIn = left /\ e1.known = e.known /\ e1.open = e.open
       /\ e1.hostClosed = e.hostClosed
  BY <1>2, <1>7, <1>9, Zenon DEF Entries
<1>12. Depths(f, q1)
  <2>1. Size(in \o x) <= InDepth
    BY <1>5, <1>8, Zenon
  <2> QED
    BY <1>1, <1>10, <2>1, Zenon DEF Depths
<1>13. Phases(f, q1, e1, w)
  BY <1>1, <1>10, <1>11, Zenon DEF Phases
<1>14. UpWay(f, q1, w.up, guest, remote)
  BY <1>1, <1>10, Zenon DEF UpWay
<1>15. DownWay(f, q1, e1, w, guest, remote)
  <2>1. /\ Run(guest.got, 0)
        /\ guest.saw_fin => Size(guest.got) = remote.sent /\ w.state = "closed"
    BY <1>1, Zenon DEF DownWay
  <2>2. CASE f.closed
    BY <2>1, <2>2, Zenon DEF DownWay
  <2>3. CASE ~f.closed
    <3>1. PICK b1, b2 : b1 = Size(guest.got) + Size(f.tx) /\ b2 = b1 + Size(f.pend_g)
      BY Zenon
    <3>2. b2 \in Nat
      <4>1. Size(guest.got) \in Nat /\ Size(f.tx) \in Nat /\ Size(f.pend_g) \in Nat
        BY <1>2, SizeIs, Zenon DEF Guests, Flows
      <4> QED
        BY <3>1, <4>1
    <3>3. /\ Run(f.tx, Size(guest.got)) /\ Run(f.pend_g, b1) /\ Run(in, b2) /\ Run(p, b2 + Size(in))
          /\ Downed(w.down, (b2 + Size(in)) + Size(p), remote.sent)
          /\ ~remote.closed => Lacks(w.down, Close)
          /\ e.hostClosed \/ w.state \in {"none", "connecting"} => w.down = <<>>
          /\ ~q.slot => p = <<>>
          /\ f.host_done => ~q.slot /\ f.pend_g = <<>> /\ in = <<>>
      BY <1>1, <1>3, <2>3, <3>1, Zenon DEF DownWay
    <3>4. PICK b3 \in Nat : b3 = b2 + Size(in)
      BY <1>4, <3>2
    <3>5. Run(First(p, k), b3) /\ Run(Rest(p, k), b3 + k)
      BY <1>5, <3>3, <3>4, RunHalves, Zenon
    <3>6. Run(x, b3) /\ Run(left, b3 + k)
      BY <1>6, <3>5, Zenon
    <3>7. Run(in \o x, b2)
      BY <3>2, <3>3, <3>4, <3>6, RunConcat, Zenon
    <3>8. b3 + k = b2 + Size(in \o x) /\ (b2 + Size(in)) + Size(p) = (b2 + Size(in \o x)) + Size(left)
      BY <1>4, <1>5, <1>7, <1>8, <3>2, <3>4
    <3>9. ~q.slot => left = <<>> /\ x = <<>>
      <4>1. SUFFICES ASSUME ~q.slot PROVE left = <<>> /\ x = <<>>
        BY Zenon
      <4>2. Size(p) = 0
        BY <1>3, <3>3, <4>1, SizeZero, Zenon
      <4>3. Size(left) = 0 /\ Size(x) = 0
        BY <1>5, <1>7, <4>2
      <4> QED
        BY <1>7, <4>3, SizeZero, Zenon
    <3>10. f.host_done => ~q.slot /\ f.pend_g = <<>> /\ in \o x = <<>>
      <4>1. <<>> \o <<>> = <<>>
        OBVIOUS
      <4> QED
        BY <3>3, <3>9, <4>1, Zenon
    <3> QED
      BY <1>10, <1>11, <2>1, <3>1, <3>3, <3>6, <3>7, <3>8, <3>9, <3>10, Zenon DEF DownWay
  <2> QED
    BY <2>2, <2>3, Zenon
<1> QED
  BY <1>1, <1>10, <1>11, <1>12, <1>13, <1>14, <1>15, Zenon DEF InvOf, FlowTypes

\* The entry goes: a Close frame follows what was sent, and the slot is free.
LEMMA RelayEnds ==
  ASSUME NEW f, NEW q, NEW e, NEW w, InvOf(f, q, e, w, guest, remote), ~q.new,
         e.known, (e.hostClosed /\ e.pendingIn = <<>>) \/ q.stop,
         NEW q2, q2 = [q EXCEPT !.slot = FALSE, !.stop = TRUE, !.out = <<>>],
         NEW e2, e2 = [e EXCEPT !.pendingIn = <<>>, !.known = FALSE],
         NEW w2, w2 = [w EXCEPT !.state = "closed", !.up = Append(@, Close)]
  PROVE  InvOf(f, q2, e2, w2, guest, remote)
<1>1. /\ FlowTypes(f, q, e, w, guest, remote) /\ Depths(f, q) /\ Phases(f, q, e, w)
      /\ UpWay(f, q, w.up, guest, remote) /\ DownWay(f, q, e, w, guest, remote)
  BY Zenon DEF InvOf
<1>2. q \in Conns /\ e \in Entries /\ w \in Sockets /\ remote \in Remotes
  BY <1>1, Zenon DEF FlowTypes
<1>3. <<>> \in Seq(Nat) /\ "closed" \in {"none", "connecting", "open", "closed"} /\ "closed" # "none"
  OBVIOUS
<1>4. q.slot /\ (f.closed \/ (e.hostClosed /\ e.pendingIn = <<>>))
  BY <1>1, Zenon DEF Phases
<1>5. PICK u : u = Size(remote.got) /\ u \in Nat
  BY <1>2, SizeIs, Zenon DEF Remotes
<1>6. PICK m \in Nat : Framed(w.up, u, m, guest.sent) /\ (remote.eof => m = 0)
  BY <1>1, <1>5, Zenon DEF UpWay
<1>7. /\ q2 \in Conns /\ ~q2.slot /\ q2.out = <<>> /\ q2.new = q.new /\ q2.in = q.in
      /\ q2.write_closed = q.write_closed /\ q2.reported = q.reported
  BY <1>2, <1>3, Zenon DEF Conns
<1>8. /\ Append(w.up, Close) \in Seq(Int) /\ Framed(Append(w.up, Close), u, m, guest.sent)
      /\ Lacks(w.up, Fin) => Lacks(Append(w.up, Close), Fin)
  <2>1. w.up \in Seq(Int)
    BY <1>2, Zenon DEF Sockets
  <2>2. Lacks(w.up, Close)
    BY <1>1, <1>4, Zenon DEF UpWay
  <2> QED
    BY <1>5, <1>6, <2>1, <2>2, FramedClose, Zenon
<1>9. /\ e2 \in Entries /\ e2.pendingIn = <<>> /\ ~e2.known /\ e2.open = e.open /\ e2.hostClosed = e.hostClosed
  BY <1>2, <1>3, Zenon DEF Entries
<1>10. w2 \in Sockets /\ w2.state = "closed" /\ w2.up = Append(w.up, Close) /\ w2.down = w.down
  BY <1>2, <1>3, <1>8, Zenon DEF Sockets
<1>11. Depths(f, q2)
  <2>1. Size(<<>>) = 0
    BY RunNone, Zenon
  <2>2. Size(<<>>) <= OutDepth
    BY <2>1, FlowConsts
  <2> QED
    BY <1>1, <1>7, <2>2, Zenon DEF Depths
<1>12. Phases(f, q2, e2, w2)
  BY <1>1, <1>3, <1>4, <1>7, <1>9, <1>10, Zenon DEF Phases
<1>13. UpWay(f, q2, w2.up, guest, remote)
  <2>1. /\ Run(remote.got, 0)
        /\ ~q.reported => Lacks(w.up, Fin)
        /\ remote.eof => q.reported /\ u = guest.sent
        /\ q.reported => f.guest_fin /\ ~f.to_host
    BY <1>1, <1>5, Zenon DEF UpWay
  <2> QED
    BY <1>5, <1>6, <1>7, <1>8, <1>10, <2>1, Zenon DEF UpWay
<1>14. DownWay(f, q2, e2, w2, guest, remote)
  <2>1. /\ Run(guest.got, 0)
        /\ guest.saw_fin => Size(guest.got) = remote.sent
    BY <1>1, Zenon DEF DownWay
  <2>2. CASE f.closed
    BY <1>10, <2>1, <2>2, Zenon DEF DownWay
  <2>3. CASE ~f.closed
    <3>1. e.hostClosed /\ e.pendingIn = <<>>
      BY <1>4, <2>3, Zenon
    <3> QED
      BY <1>1, <1>7, <1>9, <1>10, <2>1, <2>3, <3>1, Zenon DEF DownWay
  <2> QED
    BY <2>2, <2>3, Zenon
<1> QED
  BY <1>1, <1>7, <1>9, <1>10, <1>11, <1>12, <1>13, <1>14, Zenon DEF InvOf, FlowTypes

LEMMA ConcatLast ==
  ASSUME NEW S, NEW x \in Seq(S), NEW y \in Seq(S), NEW z \in S
  PROVE  x \o (y \o <<z>>) = Append(x \o y, z)
<1>1. <<z>> \in Seq(S)
  OBVIOUS
<1>2. x \o y \in Seq(S)
  BY ConcatProperties, Zenon
<1>5. PICK v \in Seq(S) : v = <<z>>
  BY <1>1, Zenon
<1>6. (x \o y) \o v = x \o (y \o v)
  BY ConcatAssociative
<1>3. (x \o y) \o <<z>> = x \o (y \o <<z>>)
  BY <1>5, <1>6, Zenon
<1>4. Append(x \o y, z) = (x \o y) \o <<z>>
  BY <1>2, AppendIsConcat, Zenon
<1> QED
  BY <1>3, <1>4, Zenon

LEMMA LastFrame ==
  ASSUME NEW up \in Seq(Int), NEW out \in Seq(Nat)
  PROVE  up \o (out \o <<Fin>>) = Append(up \o out, Fin)
<1>1. out \in Seq(Int) /\ Fin \in Int
  BY DEF Fin
<1> QED
  BY <1>1, ConcatLast

\* net_conn_outbound: the chunks of the guest become frames, FIN after the last.
Finishes(f, q) == WriteClosed(f, q) /\ ~q.stop
Drained(f, q) ==
  [q EXCEPT !.out = <<>>, !.write_closed = @ \/ ~f.to_host, !.reported = @ \/ Finishes(f, q)]
Framing(f, q) == q.out \o IF Finishes(f, q) /\ ~q.reported THEN <<Fin>> ELSE <<>>

LEMMA RelayDrains ==
  ASSUME NEW f, NEW q, NEW e, NEW w, InvOf(f, q, e, w, guest, remote), ~q.new, e.known,
         NEW q2, q2 = Drained(f, q), NEW w2, w2 = [w EXCEPT !.up = @ \o Framing(f, q)]
  PROVE  InvOf(f, q2, e, w2, guest, remote)
<1>16. PICK fin \in BOOLEAN : fin = (WriteClosed(f, q) /\ ~q.stop)
  BY Zenon DEF WriteClosed
<1>17. fin = Finishes(f, q)
  BY <1>16, Zenon DEF Finishes
<1>1. /\ FlowTypes(f, q, e, w, guest, remote) /\ Depths(f, q) /\ Phases(f, q, e, w)
      /\ UpWay(f, q, w.up, guest, remote) /\ DownWay(f, q, e, w, guest, remote)
  BY Zenon DEF InvOf
<1>2. f \in Flows /\ q \in Conns /\ e \in Entries /\ w \in Sockets /\ remote \in Remotes
  BY <1>1, Zenon DEF FlowTypes
<1>3. q.slot /\ (q.write_closed => ~f.to_host)
  BY <1>1, Zenon DEF Phases
<1>4. PICK u, up, out : /\ u = Size(remote.got) /\ u \in Nat /\ up = w.up /\ up \in Seq(Int)
                        /\ out = q.out /\ out \in Seq(Nat)
  BY <1>2, SizeIs, Zenon DEF Remotes, Sockets, Conns
<1>5. /\ Run(remote.got, 0)
      /\ \E m \in Nat : Framed(up, u, m, guest.sent) /\ (remote.eof => m = 0)
      /\ ~q.reported => Lacks(up, Fin)
      /\ Lacks(up, Close)
      /\ remote.eof => q.reported /\ u = guest.sent
      /\ q.reported => f.guest_fin /\ out = <<>> /\ ~f.to_host
      /\ ~q.reported =>
           /\ Run(out, u + Size(up))
           /\ f.to_host => /\ Run(f.pend_h, u + Size(up) + Size(out))
                           /\ Run(f.rx, u + Size(up) + Size(out) + Size(f.pend_h))
                           /\ guest.sent = u + Size(up) + Size(out) + Size(f.pend_h) + Size(f.rx)
           /\ ~f.to_host /\ ~q.stop => f.guest_fin /\ guest.sent = u + Size(up) + Size(out)
  BY <1>1, <1>3, <1>4, Zenon DEF UpWay
<1>6. fin => ~f.to_host /\ ~q.stop
  BY <1>3, <1>16, Zenon DEF WriteClosed
<1>7. ~fin => f.to_host \/ q.stop
  BY <1>16, Zenon DEF WriteClosed
<1>8. /\ q2 \in Conns /\ q2.out = <<>> /\ q2.slot = q.slot /\ q2.new = q.new /\ q2.stop = q.stop
      /\ q2.in = q.in /\ q2.reported = (q.reported \/ fin) /\ q2.write_closed = (q.write_closed \/ ~f.to_host)
  <2>1. <<>> \in Seq(Nat)
    OBVIOUS
  <2>2. (q.write_closed \/ ~f.to_host) \in BOOLEAN /\ (q.reported \/ fin) \in BOOLEAN
    BY <1>2, Zenon DEF Conns, Flows
  <2> QED
    BY <1>2, <1>17, <2>1, <2>2, Zenon DEF Conns, Drained
<1>9. PICK up2 : up2 = up \o (out \o IF fin /\ ~q.reported THEN <<Fin>> ELSE <<>>)
  BY Zenon
<1>10. w2 = [w EXCEPT !.up = up2]
  BY <1>4, <1>9, <1>17, Zenon DEF Framing
<1>11. Depths(f, q2)
  <2>1. Size(<<>>) = 0
    BY RunNone, Zenon
  <2>2. Size(<<>>) <= OutDepth
    BY <2>1, FlowConsts
  <2> QED
    BY <1>1, <1>8, <2>2, Zenon DEF Depths
<1>12. up2 \in Seq(Int) /\ UpWay(f, q2, up2, guest, remote)
  <2>1. CASE q.reported
    <3>1. up2 = up \o (<<>> \o <<>>)
      BY <1>5, <1>9, <2>1, Zenon
    <3>2. up \o (<<>> \o <<>>) = up
      BY <1>4
    <3>3. up2 = up
      BY <3>1, <3>2, Zenon
    <3> QED
      BY <1>4, <1>5, <1>8, <2>1, <3>3, Zenon DEF UpWay
  <2>2. CASE ~q.reported
    <3>1. PICK m : Framed(up, u, m, guest.sent)
      BY <1>5, Zenon
    <3>2. PICK s : s = up \o out
      BY Zenon
    <3>8. Run(up, u)
      BY <1>4, <1>5, <2>2, <3>1, FramedRun, Zenon
    <3>9. Run(s, u)
      <4>1. u \in Nat /\ Run(out, u + Size(up))
        BY <1>4, <1>5, <2>2, Zenon
      <4>2. Run(up \o out, u)
        BY <3>8, <4>1, RunConcat, Zenon
      <4> QED
        BY <3>2, <4>2, Zenon
    <3>3. /\ s \in Seq(Int) /\ Framed(s, u, Size(s), guest.sent) /\ Lacks(s, Fin) /\ Lacks(s, Close)
      BY <1>4, <3>9, RunFramed, Zenon
    <3>10. Size(s) = Size(up) + Size(out)
      BY <1>4, <3>2, <3>8, SizeConcat, Zenon DEF Run
    <3>4. Size(up) \in Nat /\ Size(out) \in Nat /\ Size(s) \in Nat
      BY <1>4, <3>3, LenProperties, Zenon DEF Size
    <3>5. u + Size(up) + Size(out) = u + Size(s)
      <4>1. u \in Nat /\ Size(s) = Size(up) + Size(out)
        BY <1>4, <3>10, Zenon
      <4> QED
        BY <3>4, <4>1
    <3>6. CASE fin
      <4>1. up2 = up \o (out \o <<Fin>>)
        BY <1>9, <2>2, <3>6, Zenon
      <4>2. up2 = Append(s, Fin)
        <5>2. up \o (out \o <<Fin>>) = Append(up \o out, Fin)
          BY <1>4, LastFrame, Zenon
        <5> QED
          BY <3>2, <4>1, <5>2, Zenon
      <4>3. f.guest_fin /\ ~f.to_host /\ u + Size(s) = guest.sent
        BY <1>5, <1>6, <2>2, <3>5, <3>6, Zenon
      <4>4. /\ Append(s, Fin) \in Seq(Int) /\ Framed(Append(s, Fin), u, Size(s), guest.sent)
            /\ Lacks(Append(s, Fin), Close)
        <5>1. /\ Append(s, Fin) \in Seq(Int) /\ Framed(Append(s, Fin), u, Size(s), u + Size(s))
              /\ Lacks(Append(s, Fin), Close)
          BY <1>4, <3>9, FramedFin, Zenon
        <5> QED
          BY <4>3, <5>1, Zenon
      <4> QED
        BY <1>4, <1>5, <1>8, <2>2, <3>4, <3>6, <4>2, <4>3, <4>4, Zenon DEF UpWay
    <3>7. CASE ~fin
      <4>1. up2 = up \o (out \o <<>>)
        BY <1>9, <3>7, Zenon
      <4>2. up2 = s
        <5>1. out \o <<>> = out
          BY <1>4
        <5> QED
          BY <3>2, <4>1, <5>1, Zenon
      <4>3. Size(<<>>) = 0 /\ Run(<<>>, u + Size(s))
        BY RunNone, Zenon
      <4>4. u + Size(s) + Size(<<>>) = u + Size(up) + Size(out)
        BY <1>4, <3>4, <3>5, <4>3
      <4>5. q2.reported = q.reported
        BY <1>2, <1>8, <2>2, <3>7, Zenon DEF Conns
      <4> QED
        BY <1>3, <1>4, <1>5, <1>7, <1>8, <2>2, <3>3, <3>4, <3>7, <4>2, <4>3, <4>4, <4>5, Zenon DEF UpWay
    <3> QED
      BY <3>6, <3>7, Zenon
  <2> QED
    BY <2>1, <2>2, Zenon
<1>13. w2 \in Sockets /\ w2.state = w.state /\ w2.up = up2 /\ w2.down = w.down
  BY <1>2, <1>10, <1>12, Zenon DEF Sockets
<1>14. Phases(f, q2, e, w2)
  BY <1>1, <1>8, <1>13, Zenon DEF Phases
<1>15. DownWay(f, q2, e, w2, guest, remote)
  BY <1>1, <1>8, <1>13, Zenon DEF DownWay
<1> QED
  BY <1>1, <1>8, <1>11, <1>12, <1>13, <1>14, <1>15, Zenon DEF InvOf, FlowTypes

\* What a tick makes of the state, given what the NAT hands to the relay.
Relayed(f, q, e, k) ==
  LET left  == Rest(e.pendingIn, k)
      q1    == [q EXCEPT !.new = FALSE, !.in = @ \o First(e.pendingIn, k)]
      drain == MayDrain(e)
      gone  == e.known /\ (HostGone(e, left) \/ (drain /\ Ended(q)))
  IN  /\ flow' = f
      /\ c' = [e EXCEPT !.pendingIn = IF gone THEN <<>> ELSE left, !.known = @ /\ ~gone]
      /\ conn' = IF gone
                 THEN [q1 EXCEPT !.slot = FALSE, !.stop = TRUE, !.out = <<>>]
                 ELSE [q1 EXCEPT !.out = IF drain THEN <<>> ELSE @,
                                 !.write_closed = @ \/ (drain /\ ~f.to_host),
                                 !.reported = @ \/ (drain /\ WriteClosed(f, q) /\ ~q.stop)]
      /\ ws' = [ws EXCEPT !.state = IF q.new THEN "connecting" ELSE IF gone THEN "closed" ELSE @,
                          !.up = IF gone THEN Append(@, Close) ELSE @ \o RelayFrames(f, q, drain)]
      /\ UNCHANGED <<guest, remote>>

LEMMA TickKeeps ==
  ASSUME FlowInv, Tick
  PROVE  FlowInv'
<1>1. PICK f, q, e, k : /\ f = Reaped(HalfClose(GuestToHost(CloseOnHostDone(HostToGuest(flow, conn)), conn)))
                        /\ q = PumpedConn /\ e = Opened(c, q) /\ k = SentIn(f, q, e) /\ Relayed(f, q, e, k)
  <2>1. \E f1 \in {CloseOnHostDone(HostToGuest(flow, conn))} :
        \E f \in {Reaped(HalfClose(GuestToHost(f1, conn)))}, q \in {PumpedConn} :
        \E e \in {Opened(c, q)} :
        \E k \in {SentIn(f, q, e)} : Relayed(f, q, e, k)
    BY Zenon DEF Tick, Relayed
  <2> QED
    BY <2>1, Zenon
<1>2. InvOf(f, q, c, ws, guest, remote)
  BY <1>1, NatStage, Zenon
<1>3. /\ f \in Flows /\ q \in Conns /\ c \in Entries /\ ws \in Sockets
  BY <1>2, Zenon DEF InvOf, FlowTypes
<1>4. PICK q0, w0 : /\ q0 = [q EXCEPT !.new = FALSE]
                    /\ w0 = [ws EXCEPT !.state = IF q.new THEN "connecting" ELSE @]
  BY Zenon
<1>5. InvOf(f, q0, e, w0, guest, remote) /\ (q.new => ~e.open /\ ~e.hostClosed)
  BY <1>1, <1>2, <1>4, RelayOpens, Zenon
<1>6. /\ q0.slot = q.slot /\ ~q0.new /\ q0.stop = q.stop /\ q0.out = q.out /\ q0.in = q.in
      /\ q0.write_closed = q.write_closed /\ q0.reported = q.reported
  BY <1>3, <1>4, Zenon DEF Conns
<1>7. k = SentIn(f, q0, e)
  BY <1>1, <1>6, Zenon DEF SentIn
<1>8. PICK left, x : left = Rest(e.pendingIn, k) /\ x = First(e.pendingIn, k)
  BY Zenon
<1>9. PICK q1, e1 : q1 = [q0 EXCEPT !.in = @ \o x] /\ e1 = [e EXCEPT !.pendingIn = left]
  BY Zenon
<1>10. InvOf(f, q1, e1, w0, guest, remote)
  BY <1>5, <1>7, <1>8, <1>9, RelaySends, Zenon
<1>11. /\ q0 \in Conns /\ e \in Entries /\ w0 \in Sockets /\ q1 \in Conns /\ e1 \in Entries
  BY <1>5, <1>10, Zenon DEF InvOf, FlowTypes
<1>12. /\ q1.slot = q.slot /\ ~q1.new /\ q1.stop = q.stop /\ q1.out = q.out
       /\ q1.write_closed = q.write_closed /\ q1.reported = q.reported
  BY <1>6, <1>9, <1>11, Zenon DEF Conns
<1>13. e1.known = e.known /\ e1.open = e.open /\ e1.hostClosed = e.hostClosed /\ e1.pendingIn = left
  BY <1>9, <1>11, Zenon DEF Entries
<1>14. [q EXCEPT !.new = FALSE, !.in = @ \o First(e.pendingIn, k)] = q1
  BY <1>3, <1>4, <1>8, <1>9, Zenon DEF Conns
<1>15. PICK drain \in BOOLEAN : drain = MayDrain(e)
  BY Zenon DEF MayDrain
<1>16. PICK gone \in BOOLEAN : gone = (e.known /\ (HostGone(e, left) \/ (drain /\ Ended(q))))
  <2>1. (e.known /\ (HostGone(e, left) \/ (drain /\ Ended(q)))) \in BOOLEAN
    BY Zenon
  <2> QED
    BY <2>1, Zenon
<1>17. /\ flow' = f /\ guest' = guest /\ remote' = remote
       /\ c' = [e EXCEPT !.pendingIn = IF gone THEN <<>> ELSE left, !.known = @ /\ ~gone]
       /\ conn' = IF gone
                 THEN [q1 EXCEPT !.slot = FALSE, !.stop = TRUE, !.out = <<>>]
                 ELSE [q1 EXCEPT !.out = IF drain THEN <<>> ELSE @,
                                 !.write_closed = @ \/ (drain /\ ~f.to_host),
                                 !.reported = @ \/ (drain /\ WriteClosed(f, q) /\ ~q.stop)]
       /\ ws' = [ws EXCEPT !.state = IF q.new THEN "connecting" ELSE IF gone THEN "closed" ELSE @,
                          !.up = IF gone THEN Append(@, Close) ELSE @ \o RelayFrames(f, q, drain)]
  BY <1>1, <1>8, <1>14, <1>15, <1>16, Zenon DEF Relayed
<1>18. (drain => e.known /\ e.open) /\ (gone => e.known)
  BY <1>15, <1>16, Zenon DEF MayDrain
<1>19. CASE gone
  <2>1. ~q.new /\ e.known /\ ((e.hostClosed /\ left = <<>>) \/ q.stop)
    BY <1>5, <1>16, <1>18, <1>19, Zenon DEF HostGone, Ended
  <2>2. c' = [e1 EXCEPT !.pendingIn = <<>>, !.known = FALSE]
    BY <1>9, <1>11, <1>17, <1>19, Zenon DEF Entries
  <2>3. conn' = [q1 EXCEPT !.slot = FALSE, !.stop = TRUE, !.out = <<>>]
    BY <1>17, <1>19, Zenon
  <2>4. ws' = [w0 EXCEPT !.state = "closed", !.up = Append(@, Close)]
    BY <1>3, <1>4, <1>17, <1>19, <2>1, Zenon DEF Sockets
  <2>5. InvOf(f, conn', c', ws', guest, remote)
    BY <1>10, <1>12, <1>13, <2>1, <2>2, <2>3, <2>4, RelayEnds, Zenon
  <2> QED
    BY <1>17, <2>5, Zenon DEF FlowInv
<1>20. CASE ~gone /\ drain
  <2>1. ~q.new /\ e.known
    BY <1>5, <1>18, <1>20, Zenon
  <2>2. c' = e1
    BY <1>9, <1>11, <1>17, <1>20, Zenon DEF Entries
  <2>3. Finishes(f, q1) = (WriteClosed(f, q) /\ ~q.stop)
    BY <1>12, Zenon DEF Finishes, WriteClosed
  <2>5. conn' = Drained(f, q1)
    BY <1>17, <1>20, <2>3, Zenon DEF Drained
  <2>6. RelayFrames(f, q, drain) = Framing(f, q1)
    BY <1>12, <1>20, <2>3, Zenon DEF RelayFrames, Framing
  <2>7. ws' = [w0 EXCEPT !.up = @ \o Framing(f, q1)]
    BY <1>3, <1>4, <1>17, <1>20, <2>1, <2>6, Zenon DEF Sockets
  <2>8. InvOf(f, conn', c', ws', guest, remote)
    <3>1. ~q1.new /\ e1.known
      BY <1>12, <1>13, <2>1, Zenon
    <3>2. InvOf(f, conn', e1, ws', guest, remote)
      BY <1>10, <2>5, <2>7, <3>1, RelayDrains, Zenon
    <3> QED
      BY <2>2, <3>2, Zenon
  <2> QED
    BY <1>17, <2>8, Zenon DEF FlowInv
<1>21. CASE ~gone /\ ~drain
  <2>1. c' = e1
    BY <1>9, <1>11, <1>17, <1>21, Zenon DEF Entries
  <2>2. conn' = q1
    BY <1>11, <1>17, <1>21, Zenon DEF Conns
  <2>3. RelayFrames(f, q, drain) = <<>> \o <<>>
    BY <1>21, Zenon DEF RelayFrames
  <2>4. ws.up \o (<<>> \o <<>>) = ws.up
    <3>1. ws.up \in Seq(Int)
      BY <1>3, Zenon DEF Sockets
    <3> QED
      BY <3>1
  <2>5. ws' = w0
    BY <1>3, <1>4, <1>17, <1>21, <2>3, <2>4, Zenon DEF Sockets
  <2> QED
    BY <1>10, <1>17, <2>1, <2>2, <2>5, Zenon DEF FlowInv
<1> QED
  BY <1>19, <1>20, <1>21, Zenon

-----------------------------------------------------------------------------
(* Guest, WebSocket and remote host.                                       *)

LEMMA FramedSent ==
  ASSUME NEW up, NEW u, NEW m, NEW sent, Framed(up, u, m, sent), Lacks(up, Fin), NEW sent2
  PROVE  Framed(up, u, m, sent2)
BY Zenon DEF Framed, Lacks

LEMMA DownedMore ==
  ASSUME NEW down \in Seq(Messages), NEW b \in Nat, NEW sent, Downed(down, b, sent), Lacks(down, Close)
  PROVE  /\ Downed(Append(down, sent + 1), b, sent + 1) /\ Lacks(Append(down, sent + 1), Close)
         /\ Downed(Append(down, Close), b, sent)
<1>1. PICK d \in Seq(Nat) : Run(d, b) /\ sent = b + Size(d) /\ (down = d \/ down = Append(d, Close))
  BY Zenon DEF Downed
<1>2. Size(d) \in Nat /\ Len(d) = Size(d)
  BY <1>1, SizeIs, Zenon
<1>3. down = d
  <2>1. ASSUME down = Append(d, Close) PROVE FALSE
    <3>1. Append(d, Close)[Len(d) + 1] = Close /\ Len(Append(d, Close)) = Len(d) + 1
      <4>1. d \in Seq(Int) /\ Close \in Int
        BY <1>1 DEF Close
      <4> QED
        BY <4>1, AppendProperties, Zenon
    <3>2. Len(d) + 1 \in 1 .. Len(down)
      BY <1>2, <2>1, <3>1
    <3> QED
      BY <2>1, <3>1, <3>2, Zenon DEF Lacks
  <2> QED
    BY <1>1, <2>1, Zenon
<1>4. PICK n : n = sent + 1 /\ n = b + Size(d) + 1
  <2>1. sent + 1 = b + Size(d) + 1
    BY <1>1, Zenon
  <2> QED
    BY <2>1, Zenon
<1>5. Append(d, n) \in Seq(Nat) /\ Run(Append(d, n), b) /\ Size(Append(d, n)) = Size(d) + 1
  BY <1>1, <1>4, RunAppend, Zenon
<1>6. n = b + (Size(d) + 1)
  BY <1>2, <1>4
<1>7. Downed(Append(d, n), b, n)
  BY <1>5, <1>6, Zenon DEF Downed
<1>8. Lacks(Append(d, n), Close)
  BY <1>5, RunFramed, Zenon
<1>9. Downed(Append(d, Close), b, sent)
  BY <1>1, Zenon DEF Downed
<1> QED
  BY <1>3, <1>4, <1>7, <1>8, <1>9, Zenon

LEMMA DownedTake ==
  ASSUME NEW down, NEW b \in Nat, NEW sent, Downed(down, b, sent), down # <<>>
  PROVE  /\ Head(down) = Close => Tail(down) = <<>> /\ Downed(<<>>, b, sent)
         /\ Head(down) # Close => Head(down) = b + 1 /\ Downed(Tail(down), b + 1, sent)
<1>1. PICK d \in Seq(Nat) : Run(d, b) /\ sent = b + Size(d) /\ (down = d \/ down = Append(d, Close))
  BY Zenon DEF Downed
<1>2. CASE d = <<>>
  <2>1. down = <<Close>>
    BY <1>1, <1>2
  <2>2. Head(down) = Close /\ Tail(down) = <<>>
    BY <2>1
  <2>3. Downed(<<>>, b, sent)
    BY <1>1, <1>2, Zenon DEF Downed
  <2> QED
    BY <2>2, <2>3, Zenon
<1>3. CASE d # <<>>
  <2>1. /\ Head(d) = b + 1 /\ Tail(d) \in Seq(Nat) /\ Run(Tail(d), b + 1)
        /\ Size(Tail(d)) = Size(d) - 1 /\ Size(d) \in Nat \ {0}
    BY <1>1, <1>3, RunTail, Zenon
  <2>2. sent = (b + 1) + Size(Tail(d)) /\ b + 1 # Close
    <3>1. sent = b + Size(d)
      BY <1>1, Zenon
    <3> QED
      BY <2>1, <3>1 DEF Close
  <2>3. Head(down) = Head(d) /\ (Tail(down) = Tail(d) \/ Tail(down) = Append(Tail(d), Close))
    <3>1. d \in Seq(Int) /\ Close \in Int
      BY <1>1 DEF Close
    <3>2. Head(Append(d, Close)) = Head(d) /\ Tail(Append(d, Close)) = Append(Tail(d), Close)
      BY <1>3, <3>1
    <3> QED
      BY <1>1, <3>2, Zenon
  <2>4. Downed(Tail(down), b + 1, sent)
    BY <2>1, <2>2, <2>3, Zenon DEF Downed
  <2> QED
    BY <2>1, <2>2, <2>3, <2>4, Zenon
<1> QED
  BY <1>2, <1>3, Zenon

LEMMA DownedLeast ==
  ASSUME NEW down, NEW b \in Nat, NEW sent, Downed(down, b, sent)
  PROVE  b <= sent /\ (down = <<>> => sent = b)
<1>1. PICK d \in Seq(Nat) : Run(d, b) /\ sent = b + Size(d) /\ (down = d \/ down = Append(d, Close))
  BY Zenon DEF Downed
<1>2. Size(d) \in Nat
  BY <1>1, SizeIs, Zenon
<1>3. sent = b + Size(d)
  BY <1>1, Zenon
<1>4. b <= sent
  BY <1>2, <1>3
<1>5. ASSUME down = <<>> PROVE sent = b
  <2>1. Append(d, Close) # <<>>
    <3>1. d \in Seq(Int) /\ Close \in Int
      BY <1>1 DEF Close
    <3> QED
      BY <3>1
  <2>2. d = <<>>
    BY <1>1, <1>5, <2>1, Zenon
  <2>3. Size(d) = 0
    BY <2>2, RunNone, Zenon
  <2> QED
    BY <1>3, <2>3
<1> QED
  BY <1>4, <1>5, Zenon

LEMMA FlowParts ==
  ASSUME FlowInv
  PROVE  /\ flow \in Flows /\ conn \in Conns /\ c \in Entries /\ ws \in Sockets
         /\ guest \in Guests /\ remote \in Remotes
         /\ Depths(flow, conn) /\ Phases(flow, conn, c, ws)
         /\ UpWay(flow, conn, ws.up, guest, remote) /\ DownWay(flow, conn, c, ws, guest, remote)
BY Zenon DEF FlowInv, InvOf, FlowTypes

\* The flags of the flow that only grow, and the socket's end.
LEMMA FlagsKeep ==
  ASSUME FlowInv, Established \/ GuestFin \/ SocketCloses
  PROVE  FlowInv'
<1>1. conn' = conn /\ c' = c /\ ws' = ws /\ guest' = guest /\ remote' = remote
  BY Zenon DEF Established, GuestFin, SocketCloses
<1>2. CASE Established
  <2>1. /\ flow' \in Flows /\ flow'.live = flow.live /\ flow'.guest_fin = flow.guest_fin
        /\ flow'.nat_fin = flow.nat_fin /\ flow'.closed = flow.closed /\ flow'.rx = flow.rx
        /\ flow'.tx = flow.tx /\ flow'.to_host = flow.to_host /\ flow'.pend_h = flow.pend_h
        /\ flow'.pend_g = flow.pend_g /\ flow'.host_done = flow.host_done
    BY <1>2, FlowParts, Zenon DEF Established, Flows
  <2>2. Depths(flow', conn) /\ Phases(flow', conn, c, ws)
    BY <2>1, FlowParts, Zenon DEF Depths, Phases
  <2>3. UpWay(flow', conn, ws.up, guest, remote)
    BY <2>1, FlowParts, Zenon DEF UpWay
  <2>4. DownWay(flow', conn, c, ws, guest, remote)
    BY <2>1, FlowParts, Zenon DEF DownWay
  <2> QED
    BY <1>1, <2>1, <2>2, <2>3, <2>4, FlowParts, Zenon DEF FlowInv, InvOf, FlowTypes
<1>3. CASE GuestFin
  <2>1. /\ flow' \in Flows /\ flow'.live = flow.live /\ flow'.guest_fin
        /\ flow'.nat_fin = flow.nat_fin /\ flow'.closed = flow.closed /\ flow'.rx = flow.rx
        /\ flow'.tx = flow.tx /\ flow'.to_host = flow.to_host /\ flow'.pend_h = flow.pend_h
        /\ flow'.pend_g = flow.pend_g /\ flow'.host_done = flow.host_done
    BY <1>3, FlowParts, Zenon DEF GuestFin, Flows
  <2>2. Depths(flow', conn) /\ Phases(flow', conn, c, ws)
    BY <2>1, FlowParts, Zenon DEF Depths, Phases
  <2>3. UpWay(flow', conn, ws.up, guest, remote)
    BY <2>1, FlowParts, Zenon DEF UpWay
  <2>4. DownWay(flow', conn, c, ws, guest, remote)
    BY <2>1, FlowParts, Zenon DEF DownWay
  <2> QED
    BY <1>1, <2>1, <2>2, <2>3, <2>4, FlowParts, Zenon DEF FlowInv, InvOf, FlowTypes
<1>4. CASE SocketCloses
  <2>5. <<>> \in Seq(Nat)
    OBVIOUS
  <2>1. /\ flow' \in Flows /\ flow'.live = flow.live /\ flow'.guest_fin = flow.guest_fin
        /\ flow'.nat_fin = flow.nat_fin /\ flow'.closed /\ flow'.rx = flow.rx
        /\ flow'.tx = <<>> /\ flow'.to_host = flow.to_host /\ flow'.pend_h = flow.pend_h
        /\ flow'.pend_g = flow.pend_g /\ flow'.host_done = flow.host_done
    BY <1>4, <2>5, FlowParts, Zenon DEF SocketCloses, Flows
  <2>6. Size(<<>>) <= SockCap
    <3>1. Size(<<>>) = 0 /\ SockCap \in Nat
      BY RunNone, FlowConsts, Zenon
    <3> QED
      BY <3>1
  <2>2. Depths(flow', conn) /\ Phases(flow', conn, c, ws)
    BY <2>1, <2>6, FlowParts, Zenon DEF Depths, Phases
  <2>3. UpWay(flow', conn, ws.up, guest, remote)
    BY <2>1, FlowParts, Zenon DEF UpWay
  <2>4. DownWay(flow', conn, c, ws, guest, remote)
    BY <2>1, FlowParts, Zenon DEF DownWay
  <2> QED
    BY <1>1, <2>1, <2>2, <2>3, <2>4, FlowParts, Zenon DEF FlowInv, InvOf, FlowTypes
<1> QED
  BY <1>2, <1>3, <1>4, Zenon

LEMMA GuestSendKeeps ==
  ASSUME FlowInv, GuestSend
  PROVE  FlowInv'
<1>1. /\ conn' = conn /\ c' = c /\ ws' = ws /\ remote' = remote /\ ~flow.guest_fin
      /\ flow' = [flow EXCEPT !.rx = Append(@, guest.sent + 1)]
      /\ guest' = [guest EXCEPT !.sent = @ + 1]
  BY Zenon DEF GuestSend
<1>2. PICK n \in Nat : n = guest.sent + 1
  <2>1. guest.sent \in Nat
    BY FlowParts, Zenon DEF Guests
  <2> QED
    BY <2>1
<1>3. PICK rx : rx = Append(flow.rx, n) /\ rx \in Seq(Nat)
  <2>1. flow.rx \in Seq(Nat)
    BY FlowParts, Zenon DEF Flows
  <2>2. Append(flow.rx, n) \in Seq(Nat)
    BY <2>1, AppendProperties, Zenon
  <2> QED
    BY <2>2, Zenon
<1>4. /\ flow' \in Flows /\ flow'.live = flow.live /\ flow'.guest_fin = flow.guest_fin
      /\ flow'.nat_fin = flow.nat_fin /\ flow'.closed = flow.closed /\ flow'.rx = rx
      /\ flow'.tx = flow.tx /\ flow'.to_host = flow.to_host /\ flow'.pend_h = flow.pend_h
      /\ flow'.pend_g = flow.pend_g /\ flow'.host_done = flow.host_done
  BY <1>1, <1>2, <1>3, FlowParts, Zenon DEF Flows
<1>5. guest' \in Guests /\ guest'.sent = n /\ guest'.got = guest.got /\ guest'.saw_fin = guest.saw_fin
  BY <1>1, <1>2, FlowParts, Zenon DEF Guests
<1>6. Depths(flow', conn) /\ Phases(flow', conn, c, ws)
  BY <1>4, FlowParts, Zenon DEF Depths, Phases
<1>7. DownWay(flow', conn, c, ws, guest', remote)
  BY <1>4, <1>5, FlowParts, Zenon DEF DownWay
<1>8. UpWay(flow', conn, ws.up, guest', remote)
  <2>1. PICK u, a : u = Size(remote.got) /\ a = u + Size(ws.up) + Size(conn.out)
    BY Zenon
  <2>2. /\ Run(remote.got, 0) /\ ~conn.reported /\ ~remote.eof /\ Lacks(ws.up, Fin)
        /\ conn.slot => Lacks(ws.up, Close)
        /\ ~conn.slot => conn.out = <<>>
        /\ \E m \in Nat : Framed(ws.up, u, m, guest.sent)
        /\ conn.slot => /\ Run(conn.out, u + Size(ws.up))
                        /\ ~flow.to_host => conn.stop
    BY <1>1, <2>1, FlowParts, Zenon DEF UpWay
  <2>3. \E m \in Nat : Framed(ws.up, u, m, n)
    BY <2>2, FramedSent, Zenon
  <2>4. ASSUME conn.slot, flow.to_host
        PROVE  /\ Run(flow.pend_h, a) /\ Run(rx, a + Size(flow.pend_h))
               /\ n = a + Size(flow.pend_h) + Size(rx)
    <3>1. /\ Run(flow.pend_h, a) /\ Run(flow.rx, a + Size(flow.pend_h))
          /\ guest.sent = a + Size(flow.pend_h) + Size(flow.rx)
      BY <2>1, <2>2, <2>4, FlowParts, Zenon DEF UpWay
    <3>2. PICK b : b = a + Size(flow.pend_h) /\ b \in Nat
      <4>1. /\ remote.got \in Seq(Nat) /\ ws.up \in Seq(Int) /\ conn.out \in Seq(Nat) /\ flow.pend_h \in Seq(Nat)
        BY FlowParts, Zenon DEF Remotes, Sockets, Conns, Flows
      <4>2. /\ Size(remote.got) \in Nat /\ Size(ws.up) \in Nat /\ Size(conn.out) \in Nat
            /\ Size(flow.pend_h) \in Nat
        BY <4>1, LenProperties, Zenon DEF Size
      <4>3. a + Size(flow.pend_h) \in Nat
        BY <2>1, <4>2
      <4> QED
        BY <4>3, Zenon
    <3>3. Run(flow.rx, b) /\ n = b + Size(flow.rx) + 1
      BY <1>2, <3>1, <3>2, Zenon
    <3>4. Run(rx, b) /\ Size(rx) = Size(flow.rx) + 1
      <4>1. Run(Append(flow.rx, n), b) /\ Size(Append(flow.rx, n)) = Size(flow.rx) + 1
        BY <3>2, <3>3, RunAppend, Zenon
      <4> QED
        BY <1>3, <4>1, Zenon
    <3>5. Size(flow.rx) \in Nat
      BY FlowParts, SizeIs, Zenon DEF Flows
    <3>6. n = b + Size(rx)
      BY <3>2, <3>3, <3>4, <3>5
    <3> QED
      BY <3>1, <3>2, <3>4, <3>6, Zenon
  <2> QED
    BY <1>4, <1>5, <2>1, <2>2, <2>3, <2>4, Zenon DEF UpWay
<1> QED
  BY <1>1, <1>4, <1>5, <1>6, <1>7, <1>8, FlowParts, Zenon DEF FlowInv, InvOf, FlowTypes

\* The way down of an open socket, by position.
DownAt(b, b1, b2, b3, b4) ==
  /\ b = Size(guest.got) /\ b1 = b + Size(flow.tx) /\ b2 = b1 + Size(flow.pend_g)
  /\ b3 = b2 + Size(conn.in) /\ b4 = b3 + Size(c.pendingIn)
  /\ Run(flow.tx, b) /\ Run(flow.pend_g, b1) /\ Run(conn.in, b2) /\ Run(c.pendingIn, b3)
  /\ Downed(ws.down, b4, remote.sent) /\ (~remote.closed => Lacks(ws.down, Close))

LEMMA DownParts ==
  ASSUME FlowInv, ~flow.closed
  PROVE  \E b, b1, b2, b3, b4 \in Nat : DownAt(b, b1, b2, b3, b4)
<1>1. /\ Size(guest.got) \in Nat /\ Size(flow.tx) \in Nat /\ Size(flow.pend_g) \in Nat
      /\ Size(conn.in) \in Nat /\ Size(c.pendingIn) \in Nat
  BY FlowParts, SizeIs, Zenon DEF Guests, Flows, Conns, Entries
<1>2. PICK b \in Nat, t \in Nat, g \in Nat, i \in Nat, p \in Nat :
        /\ b = Size(guest.got) /\ t = Size(flow.tx) /\ g = Size(flow.pend_g)
        /\ i = Size(conn.in) /\ p = Size(c.pendingIn)
  BY <1>1, Zenon
<1>3. b + t \in Nat /\ (b + t) + g \in Nat /\ ((b + t) + g) + i \in Nat /\ (((b + t) + g) + i) + p \in Nat
  OBVIOUS
<1>4. /\ Run(flow.tx, b) /\ Run(flow.pend_g, b + t) /\ Run(conn.in, (b + t) + g)
      /\ Run(c.pendingIn, ((b + t) + g) + i)
      /\ Downed(ws.down, (((b + t) + g) + i) + p, remote.sent)
      /\ ~remote.closed => Lacks(ws.down, Close)
  BY <1>2, FlowParts, Zenon DEF DownWay
<1>5. DownAt(b, b + t, (b + t) + g, ((b + t) + g) + i, (((b + t) + g) + i) + p)
  BY <1>2, <1>4, Zenon DEF DownAt
<1> QED
  BY <1>3, <1>5, Zenon

LEMMA GuestRecvKeeps ==
  ASSUME FlowInv, GuestRecv
  PROVE  FlowInv'
<1>1. /\ conn' = conn /\ c' = c /\ ws' = ws /\ remote' = remote /\ flow.tx # <<>> /\ ~flow.closed
      /\ flow' = [flow EXCEPT !.tx = Tail(@)]
      /\ guest' = [guest EXCEPT !.got = Append(@, Head(flow.tx))]
  BY Zenon DEF GuestRecv
<1>2. PICK b, b1, b2, b3, b4 \in Nat : DownAt(b, b1, b2, b3, b4)
  BY <1>1, DownParts, Zenon
<1>3. PICK n, tx, got : n = Head(flow.tx) /\ tx = Tail(flow.tx) /\ got = Append(guest.got, n)
  BY Zenon
<1>4. /\ n = b + 1 /\ tx \in Seq(Nat) /\ Run(tx, b + 1) /\ Size(tx) = Size(flow.tx) - 1
      /\ Size(flow.tx) \in Nat \ {0}
  BY <1>1, <1>2, <1>3, RunTail, Zenon DEF DownAt
<1>5. got \in Seq(Nat) /\ Run(got, 0) /\ Size(got) = b + 1
  <2>1. Run(guest.got, 0)
    BY FlowParts, Zenon DEF DownWay
  <2>2. n = 0 + Size(guest.got) + 1
    <3>1. b = Size(guest.got)
      BY <1>2, Zenon DEF DownAt
    <3> QED
      BY <1>4, <3>1
  <2>3. /\ Append(guest.got, n) \in Seq(Nat) /\ Run(Append(guest.got, n), 0)
        /\ Size(Append(guest.got, n)) = Size(guest.got) + 1
    <3>1. 0 \in Nat
      BY Zenon
    <3> QED
      BY <2>1, <2>2, <3>1, RunAppend, Zenon
  <2> QED
    BY <1>2, <1>3, <2>3, Zenon DEF DownAt
<1>6. /\ flow' \in Flows /\ flow'.live = flow.live /\ flow'.guest_fin = flow.guest_fin
      /\ flow'.nat_fin = flow.nat_fin /\ flow'.closed = flow.closed /\ flow'.rx = flow.rx
      /\ flow'.tx = tx /\ flow'.to_host = flow.to_host /\ flow'.pend_h = flow.pend_h
      /\ flow'.pend_g = flow.pend_g /\ flow'.host_done = flow.host_done
  BY <1>1, <1>3, <1>4, FlowParts, Zenon DEF Flows
<1>7. guest' \in Guests /\ guest'.sent = guest.sent /\ guest'.got = got /\ guest'.saw_fin = guest.saw_fin
  BY <1>1, <1>3, <1>5, FlowParts, Zenon DEF Guests
<1>8. Depths(flow', conn) /\ Phases(flow', conn, c, ws)
  <2>1. Size(tx) <= SockCap
    <3>1. Size(flow.tx) <= SockCap /\ SockCap \in Nat
      BY FlowParts, FlowConsts, Zenon DEF Depths
    <3>2. Size(tx) = Size(flow.tx) - 1 /\ Size(flow.tx) \in Nat
      BY <1>4, Zenon
    <3> QED
      BY <3>1, <3>2
  <2> QED
    BY <1>6, <2>1, FlowParts, Zenon DEF Depths, Phases
<1>9. UpWay(flow', conn, ws.up, guest', remote)
  BY <1>6, <1>7, FlowParts, Zenon DEF UpWay
<1>10. ~guest.saw_fin
  <2>1. b4 <= remote.sent
    <3>1. Downed(ws.down, b4, remote.sent)
      BY <1>2, Zenon DEF DownAt
    <3> QED
      BY <3>1, DownedLeast, Zenon
  <2>2. b < b4
    <3>1. /\ Size(flow.tx) \in Nat \ {0} /\ Size(flow.pend_g) \in Nat /\ Size(conn.in) \in Nat
          /\ Size(c.pendingIn) \in Nat
      BY <1>4, FlowParts, SizeIs, Zenon DEF Flows, Conns, Entries
    <3>2. PICK t \in Nat \ {0}, g \in Nat, i \in Nat, p \in Nat :
            /\ t = Size(flow.tx) /\ g = Size(flow.pend_g) /\ i = Size(conn.in) /\ p = Size(c.pendingIn)
      BY <3>1, Zenon
    <3>3. b1 = b + t /\ b2 = b1 + g /\ b3 = b2 + i /\ b4 = b3 + p
      BY <1>2, <3>2, Zenon DEF DownAt
    <3> QED
      BY <3>3
  <2>3. remote.sent \in Nat
    BY FlowParts, Zenon DEF Remotes
  <2>4. b # remote.sent
    BY <2>1, <2>2, <2>3
  <2> QED
    BY <1>2, <2>4, FlowParts, Zenon DEF DownWay, DownAt
<1>11. DownWay(flow', conn, c, ws, guest', remote)
  <2>1. Size(got) + Size(tx) = b1
    <3>1. /\ b1 = b + Size(flow.tx) /\ Size(got) = b + 1 /\ Size(tx) = Size(flow.tx) - 1
          /\ Size(flow.tx) \in Nat \ {0}
      BY <1>2, <1>4, <1>5, Zenon DEF DownAt
    <3> QED
      BY <3>1
  <2>2. Run(tx, Size(got))
    BY <1>4, <1>5, Zenon
  <2>3. /\ c.hostClosed \/ ws.state \in {"none", "connecting"} => ws.down = <<>>
        /\ ~conn.slot => c.pendingIn = <<>>
        /\ flow.host_done => ~conn.slot /\ flow.pend_g = <<>> /\ conn.in = <<>>
    BY <1>1, FlowParts, Zenon DEF DownWay
  <2> QED
    BY <1>2, <1>5, <1>6, <1>7, <1>10, <2>1, <2>2, <2>3, Zenon DEF DownWay, DownAt
<1> QED
  BY <1>1, <1>6, <1>7, <1>8, <1>9, <1>11, FlowParts, Zenon DEF FlowInv, InvOf, FlowTypes

LEMMA GuestSeesFinKeeps ==
  ASSUME FlowInv, GuestSeesFin
  PROVE  FlowInv'
<1>1. /\ conn' = conn /\ c' = c /\ ws' = ws /\ remote' = remote /\ flow' = flow
      /\ flow.nat_fin /\ flow.tx = <<>> /\ ~flow.closed
      /\ guest' = [guest EXCEPT !.saw_fin = TRUE]
  BY Zenon DEF GuestSeesFin
<1>2. guest' \in Guests /\ guest'.sent = guest.sent /\ guest'.got = guest.got
  BY <1>1, FlowParts, Zenon DEF Guests
<1>3. PICK b, b1, b2, b3, b4 \in Nat : DownAt(b, b1, b2, b3, b4)
  BY <1>1, DownParts, Zenon
<1>4. ~conn.slot /\ flow.pend_g = <<>> /\ conn.in = <<>> /\ c.pendingIn = <<>>
  <2>1. flow.host_done
    BY <1>1, FlowParts, Zenon DEF Phases
  <2> QED
    BY <1>1, <2>1, FlowParts, Zenon DEF DownWay
<1>5. ws.state = "closed" /\ ws.down = <<>>
  <2>1. ws.state = "closed" /\ c.hostClosed
    BY <1>1, <1>4, FlowParts, Zenon DEF Phases
  <2> QED
    BY <1>1, <2>1, FlowParts, Zenon DEF DownWay
<1>6. remote.sent = b4
  <2>1. Downed(<<>>, b4, remote.sent)
    BY <1>3, <1>5, Zenon DEF DownAt
  <2> QED
    BY <2>1, DownedLeast, Zenon
<1>7. b4 = b
  <2>1. b1 = b + Size(<<>>) /\ b2 = b1 + Size(<<>>) /\ b3 = b2 + Size(<<>>) /\ b4 = b3 + Size(<<>>)
    BY <1>1, <1>3, <1>4, Zenon DEF DownAt
  <2>2. Size(<<>>) = 0
    BY RunNone, Zenon
  <2> QED
    BY <2>1, <2>2
<1>8. UpWay(flow, conn, ws.up, guest', remote)
  BY <1>2, FlowParts, Zenon DEF UpWay
<1>9. DownWay(flow, conn, c, ws, guest', remote)
  <2>1. Size(guest.got) = remote.sent
    BY <1>3, <1>6, <1>7, Zenon DEF DownAt
  <2> QED
    BY <1>2, <1>5, <2>1, FlowParts, Zenon DEF DownWay
<1> QED
  BY <1>1, <1>2, <1>8, <1>9, FlowParts, Zenon DEF FlowInv, InvOf, FlowTypes

LEMMA WsOpensKeeps ==
  ASSUME FlowInv, WsOpens
  PROVE  FlowInv'
<1>1. /\ flow' = flow /\ conn' = conn /\ guest' = guest /\ remote' = remote /\ ws.state = "connecting"
      /\ ws' = [ws EXCEPT !.state = "open"] /\ c' = [c EXCEPT !.open = c.known]
  BY Zenon DEF WsOpens
<1>2. /\ "connecting" # "none" /\ "connecting" # "closed" /\ "open" # "none"
      /\ "open" \in {"none", "connecting", "open", "closed"}
  BY Zenon
<1>3. ws' \in Sockets /\ ws'.state = "open" /\ ws'.up = ws.up /\ ws'.down = ws.down
  BY <1>1, <1>2, FlowParts, Zenon DEF Sockets
<1>4. /\ c' \in Entries /\ c'.known = c.known /\ c'.hostClosed = c.hostClosed /\ c'.pendingIn = c.pendingIn
  BY <1>1, FlowParts, Zenon DEF Entries
<1>5. Phases(flow, conn, c', ws')
  BY <1>1, <1>2, <1>3, <1>4, FlowParts, Zenon DEF Phases
<1>6. UpWay(flow, conn, ws'.up, guest, remote)
  BY <1>3, FlowParts, Zenon
<1>7. DownWay(flow, conn, c', ws', guest, remote)
  <2>1. ~guest.saw_fin
    BY <1>1, <1>2, FlowParts, Zenon DEF DownWay
  <2>2. ~flow.closed => ws.down = <<>>
    BY <1>1, FlowParts, Zenon DEF DownWay
  <2> QED
    BY <1>3, <1>4, <2>1, <2>2, FlowParts, Zenon DEF DownWay
<1> QED
  BY <1>1, <1>3, <1>4, <1>5, <1>6, <1>7, FlowParts, Zenon DEF FlowInv, InvOf, FlowTypes

LEMMA WsRefusedKeeps ==
  ASSUME FlowInv, WsRefused
  PROVE  FlowInv'
<1>1. /\ flow' = flow /\ conn' = conn /\ guest' = guest /\ remote' = remote /\ ws.state = "connecting"
      /\ ws' = [ws EXCEPT !.state = "closed"] /\ c' = [c EXCEPT !.hostClosed = TRUE]
  BY Zenon DEF WsRefused
<1>2. /\ "connecting" # "none" /\ "connecting" # "closed" /\ "closed" # "none"
      /\ "closed" \in {"none", "connecting", "open", "closed"}
  BY Zenon
<1>3. ws' \in Sockets /\ ws'.state = "closed" /\ ws'.up = ws.up /\ ws'.down = ws.down
  BY <1>1, <1>2, FlowParts, Zenon DEF Sockets
<1>4. /\ c' \in Entries /\ c'.known = c.known /\ c'.hostClosed /\ c'.pendingIn = c.pendingIn
  BY <1>1, FlowParts, Zenon DEF Entries
<1>5. Phases(flow, conn, c', ws')
  BY <1>1, <1>2, <1>3, <1>4, FlowParts, Zenon DEF Phases
<1>6. UpWay(flow, conn, ws'.up, guest, remote)
  BY <1>3, FlowParts, Zenon
<1>7. DownWay(flow, conn, c', ws', guest, remote)
  <2>2. ~flow.closed => ws.down = <<>>
    BY <1>1, FlowParts, Zenon DEF DownWay
  <2> QED
    BY <1>3, <1>4, <2>2, FlowParts, Zenon DEF DownWay
<1> QED
  BY <1>1, <1>3, <1>4, <1>5, <1>6, <1>7, FlowParts, Zenon DEF FlowInv, InvOf, FlowTypes

LEMMA WsEventKeeps ==
  ASSUME FlowInv, WsEvent
  PROVE  FlowInv'
<1>1. /\ flow' = flow /\ conn' = conn /\ guest' = guest /\ remote' = remote
      /\ ws.state = "open" /\ ws.down # <<>>
      /\ ws' = [ws EXCEPT !.down = Tail(@), !.state = IF Head(ws.down) = Close THEN "closed" ELSE @]
      /\ c' = IF Head(ws.down) = Close
              THEN [c EXCEPT !.hostClosed = TRUE]
              ELSE [c EXCEPT !.pendingIn = Append(@, Head(ws.down))]
  BY Zenon DEF WsEvent
<1>2. /\ "open" # "none" /\ "open" # "closed" /\ "open" # "connecting" /\ "closed" # "none"
      /\ "closed" # "connecting" /\ "closed" \in {"none", "connecting", "open", "closed"}
  BY Zenon
<1>3. conn.slot /\ ~conn.new /\ ~c.hostClosed /\ ~guest.saw_fin
  BY <1>1, <1>2, FlowParts, Zenon DEF Phases, DownWay
<1>4. PICK x, down : x = Head(ws.down) /\ down = Tail(ws.down)
  BY Zenon
<1>5. x \in Messages /\ down \in Seq(Messages)
  <2>1. ws.down \in Seq(Messages)
    BY FlowParts, Zenon DEF Sockets
  <2> QED
    BY <1>1, <1>4, <2>1
<1>6. UpWay(flow, conn, ws.up, guest, remote)
  BY FlowParts, Zenon
<1>7. CASE x = Close
  <2>1. ws' = [ws EXCEPT !.down = down, !.state = "closed"] /\ c' = [c EXCEPT !.hostClosed = TRUE]
    BY <1>1, <1>4, <1>7, Zenon
  <2>2. ws' \in Sockets /\ ws'.state = "closed" /\ ws'.up = ws.up /\ ws'.down = down
    BY <1>2, <1>5, <2>1, FlowParts, Zenon DEF Sockets
  <2>3. c' \in Entries /\ c'.known = c.known /\ c'.hostClosed /\ c'.pendingIn = c.pendingIn
    BY <2>1, FlowParts, Zenon DEF Entries
  <2>4. Phases(flow, conn, c', ws')
    BY <1>2, <1>3, <2>2, <2>3, FlowParts, Zenon DEF Phases
  <2>5. ASSUME ~flow.closed
        PROVE  /\ down = <<>> /\ Lacks(<<>>, Close)
               /\ \A b \in Nat : Downed(ws.down, b, remote.sent) => Downed(<<>>, b, remote.sent)
    <3>1. PICK b, b1, b2, b3, b4 \in Nat : DownAt(b, b1, b2, b3, b4)
      BY <2>5, DownParts, Zenon
    <3>2. Downed(ws.down, b4, remote.sent)
      BY <3>1, Zenon DEF DownAt
    <3>3. down = <<>>
      BY <1>1, <1>4, <1>7, <3>2, DownedTake, Zenon
    <3>4. ASSUME NEW d \in Nat, Downed(ws.down, d, remote.sent) PROVE Downed(<<>>, d, remote.sent)
      BY <1>1, <1>4, <1>7, <3>4, DownedTake, Zenon
    <3>5. Lacks(<<>>, Close)
      BY DEF Lacks
    <3> QED
      BY <3>3, <3>4, <3>5, Zenon
  <2>6. DownWay(flow, conn, c', ws', guest, remote)
    <3>1. CASE flow.closed
      BY <1>3, <3>1, FlowParts, Zenon DEF DownWay
    <3>2. CASE ~flow.closed
      <4>1. PICK b, b1, b2, b3, b4 \in Nat : DownAt(b, b1, b2, b3, b4)
        BY <3>2, DownParts, Zenon
      <4>2. Downed(<<>>, b4, remote.sent)
        BY <2>5, <3>2, <4>1, Zenon DEF DownAt
      <4>3. /\ ~conn.slot => c.pendingIn = <<>>
            /\ flow.host_done => ~conn.slot /\ flow.pend_g = <<>> /\ conn.in = <<>>
            /\ Run(guest.got, 0)
        BY <3>2, FlowParts, Zenon DEF DownWay
      <4> QED
        BY <1>3, <2>2, <2>3, <2>5, <3>2, <4>1, <4>2, <4>3, Zenon DEF DownWay, DownAt
    <3> QED
      BY <3>1, <3>2, Zenon
  <2> QED
    BY <1>1, <1>6, <2>2, <2>3, <2>4, <2>6, FlowParts, Zenon DEF FlowInv, InvOf, FlowTypes
<1>8. CASE x # Close
  <2>1. PICK p : p = Append(c.pendingIn, x)
    BY Zenon
  <2>2. ws' = [ws EXCEPT !.down = down, !.state = ws.state] /\ c' = [c EXCEPT !.pendingIn = p]
    BY <1>1, <1>4, <1>8, <2>1, Zenon
  <2>3. p \in Seq(Nat)
    <3>1. x \in Nat /\ c.pendingIn \in Seq(Nat)
      BY <1>5, <1>8, FlowParts, Zenon DEF Messages, Entries
    <3> QED
      BY <2>1, <3>1, AppendProperties, Zenon
  <2>4. ws' \in Sockets /\ ws'.state = ws.state /\ ws'.up = ws.up /\ ws'.down = down
    BY <1>5, <2>2, FlowParts, Zenon DEF Sockets
  <2>5. c' \in Entries /\ c'.known = c.known /\ c'.hostClosed = c.hostClosed /\ c'.open = c.open /\ c'.pendingIn = p
    BY <2>2, <2>3, FlowParts, Zenon DEF Entries
  <2>6. Phases(flow, conn, c', ws')
    BY <2>4, <2>5, FlowParts, Zenon DEF Phases
  <2>7. DownWay(flow, conn, c', ws', guest, remote)
    <3>1. CASE flow.closed
      BY <1>3, <3>1, FlowParts, Zenon DEF DownWay
    <3>2. CASE ~flow.closed
      <4>1. PICK b, b1, b2, b3, b4 \in Nat : DownAt(b, b1, b2, b3, b4)
        BY <3>2, DownParts, Zenon
      <4>2. Downed(ws.down, b4, remote.sent) /\ Run(c.pendingIn, b3) /\ b4 = b3 + Size(c.pendingIn)
        BY <4>1, Zenon DEF DownAt
      <4>3. x = b4 + 1 /\ Downed(down, b4 + 1, remote.sent)
        BY <1>1, <1>4, <1>8, <4>2, DownedTake, Zenon
      <4>4. x = b3 + Size(c.pendingIn) + 1
        BY <4>2, <4>3, Zenon
      <4>5. Run(p, b3) /\ Size(p) = Size(c.pendingIn) + 1
        <5>1. Run(Append(c.pendingIn, x), b3) /\ Size(Append(c.pendingIn, x)) = Size(c.pendingIn) + 1
          BY <4>2, <4>4, RunAppend, Zenon
        <5> QED
          BY <2>1, <5>1, Zenon
      <4>6. b4 + 1 = b3 + Size(p)
        <5>1. Size(c.pendingIn) \in Nat
          BY FlowParts, SizeIs, Zenon DEF Entries
        <5>2. b4 = b3 + Size(c.pendingIn) /\ Size(p) = Size(c.pendingIn) + 1
          BY <4>2, <4>5, Zenon
        <5> QED
          BY <5>1, <5>2
      <4>7. ~remote.closed => Lacks(down, Close)
        <5>1. SUFFICES ASSUME Lacks(ws.down, Close) PROVE Lacks(down, Close)
          BY <4>1, Zenon DEF DownAt
        <5>2. ws.down \in Seq(Messages)
          BY FlowParts, Zenon DEF Sockets
        <5>3. PICK l \in Nat : l + 1 = Len(ws.down) /\ Len(down) = l /\ \A i \in 1 .. l : down[i] = ws.down[i + 1]
          <6>1. Len(ws.down) \in Nat \ {0} /\ Len(down) = Len(ws.down) - 1
            BY <1>1, <1>4, <5>2
          <6>2. \A i \in 1 .. Len(down) : down[i] = ws.down[i + 1]
            BY <1>1, <1>4, <5>2
          <6> QED
            BY <6>1, <6>2
        <5>4. \A i \in 1 .. l : i + 1 \in 1 .. l + 1
          OBVIOUS
        <5> QED
          BY <5>1, <5>3, <5>4, Zenon DEF Lacks
      <4>8. /\ ~conn.slot => c.pendingIn = <<>>
            /\ flow.host_done => ~conn.slot /\ flow.pend_g = <<>> /\ conn.in = <<>>
            /\ Run(guest.got, 0)
        BY <3>2, FlowParts, Zenon DEF DownWay
      <4>9. Downed(down, b3 + Size(p), remote.sent)
        BY <4>3, <4>6, Zenon
      <4> QED
        BY <1>1, <1>2, <1>3, <2>4, <2>5, <3>2, <4>1, <4>5, <4>7, <4>8, <4>9, Zenon DEF DownWay, DownAt
    <3> QED
      BY <3>1, <3>2, Zenon
  <2> QED
    BY <1>1, <1>6, <2>4, <2>5, <2>6, <2>7, FlowParts, Zenon DEF FlowInv, InvOf, FlowTypes
<1> QED
  BY <1>7, <1>8, Zenon

LEMMA RemoteRecvKeeps ==
  ASSUME FlowInv, RemoteRecv
  PROVE  FlowInv'
<1>1. /\ flow' = flow /\ conn' = conn /\ c' = c /\ guest' = guest /\ ws.up # <<>>
      /\ ws' = [ws EXCEPT !.up = Tail(@)]
      /\ remote' = CASE Head(ws.up) = Fin   -> [remote EXCEPT !.eof = TRUE]
                     [] Head(ws.up) = Close -> [remote EXCEPT !.closed = TRUE]
                     [] OTHER -> [remote EXCEPT !.got = Append(@, Head(ws.up))]
  BY Zenon DEF RemoteRecv
<1>2. ws.up \in Seq(Int) /\ remote.got \in Seq(Nat) /\ Size(remote.got) \in Nat
  BY FlowParts, SizeIs, Zenon DEF Sockets, Remotes
<1>3. PICK u \in Nat : u = Size(remote.got)
  BY <1>2, Zenon
<1>4. PICK m \in Nat : Framed(ws.up, u, m, guest.sent) /\ (remote.eof => m = 0)
  BY <1>3, FlowParts, Zenon DEF UpWay
<1>5. PICK x, up, a : x = Head(ws.up) /\ up = Tail(ws.up) /\ a = Size(ws.up)
  BY Zenon
<1>6. /\ up \in Seq(Int) /\ a \in Nat /\ Size(up) = a - 1
      /\ m = 0 => x \in {Fin, Close} /\ Framed(up, u, 0, guest.sent) /\ (x = Fin => u = guest.sent)
      /\ m # 0 => x = u + 1 /\ x \in Nat \ {0} /\ m - 1 \in Nat /\ Framed(up, u + 1, m - 1, guest.sent)
      /\ Lacks(ws.up, Fin) => x # Fin /\ Lacks(up, Fin)
      /\ Lacks(ws.up, Close) => x # Close /\ Lacks(up, Close)
  <2>1. /\ Tail(ws.up) \in Seq(Int) /\ Size(ws.up) \in Nat /\ Size(Tail(ws.up)) = Size(ws.up) - 1
        /\ m = 0 => /\ Head(ws.up) \in {Fin, Close} /\ Framed(Tail(ws.up), u, 0, guest.sent)
                    /\ Head(ws.up) = Fin => u = guest.sent
        /\ m # 0 => /\ Head(ws.up) = u + 1 /\ Head(ws.up) \in Nat \ {0} /\ m - 1 \in Nat
                    /\ Framed(Tail(ws.up), u + 1, m - 1, guest.sent)
        /\ \A y : Lacks(ws.up, y) => Head(ws.up) # y /\ Lacks(Tail(ws.up), y)
    BY <1>1, <1>2, <1>4, FramedTake, Zenon
  <2> QED
    BY <1>5, <2>1, Zenon
<1>7. ws' \in Sockets /\ ws'.state = ws.state /\ ws'.up = up /\ ws'.down = ws.down
  BY <1>1, <1>5, <1>6, FlowParts, Zenon DEF Sockets
<1>8. Phases(flow, conn, c, ws')
  BY <1>7, FlowParts, Zenon DEF Phases
<1>9. /\ Run(remote.got, 0) /\ (~conn.reported => Lacks(ws.up, Fin)) /\ (conn.slot => Lacks(ws.up, Close))
      /\ remote.eof => conn.reported /\ u = guest.sent
      /\ conn.reported => flow.guest_fin /\ conn.out = <<>> /\ ~flow.to_host
      /\ ~conn.slot => conn.out = <<>>
      /\ conn.slot /\ ~conn.reported =>
           /\ Run(conn.out, u + a)
           /\ flow.to_host => /\ Run(flow.pend_h, u + a + Size(conn.out))
                              /\ Run(flow.rx, u + a + Size(conn.out) + Size(flow.pend_h))
                              /\ guest.sent = u + a + Size(conn.out) + Size(flow.pend_h) + Size(flow.rx)
           /\ ~flow.to_host /\ ~conn.stop => flow.guest_fin /\ guest.sent = u + a + Size(conn.out)
  BY <1>3, <1>5, FlowParts, Zenon DEF UpWay
<1>10. Fin \notin Nat \ {0} /\ Close \notin Nat \ {0} /\ Fin # Close /\ 0 \in Nat
  BY DEF Fin, Close
<1>11. CASE m = 0
  <2>1. ~(conn.slot /\ ~conn.reported)
    BY <1>6, <1>9, <1>11, Zenon
  <2>2. /\ remote' \in Remotes /\ remote'.got = remote.got /\ remote'.sent = remote.sent
        /\ remote.closed => remote'.closed
        /\ remote'.eof => conn.reported /\ u = guest.sent
    <3>1. CASE x = Fin
      <4>1. remote' = [remote EXCEPT !.eof = TRUE]
        BY <1>1, <1>5, <1>10, <3>1, Zenon
      <4>2. conn.reported /\ u = guest.sent
        BY <1>6, <1>9, <1>11, <3>1, Zenon
      <4> QED
        BY <4>1, <4>2, FlowParts, Zenon DEF Remotes
    <3>2. CASE x = Close
      <4>1. remote' = [remote EXCEPT !.closed = TRUE]
        BY <1>1, <1>5, <1>10, <3>2
      <4> QED
        BY <1>9, <4>1, FlowParts, Zenon DEF Remotes
    <3> QED
      BY <1>6, <1>11, <3>1, <3>2, Zenon
  <2>3. UpWay(flow, conn, up, guest, remote')
    <3>1. \E n \in Nat : Framed(up, u, n, guest.sent) /\ (remote'.eof => n = 0)
      BY <1>6, <1>10, <1>11, Zenon
    <3> QED
      BY <1>3, <1>6, <1>9, <2>1, <2>2, <3>1, Zenon DEF UpWay
  <2>4. DownWay(flow, conn, c, ws', guest, remote')
    BY <1>7, <2>2, FlowParts, Zenon DEF DownWay
  <2> QED
    BY <1>1, <1>7, <1>8, <2>2, <2>3, <2>4, FlowParts, Zenon DEF FlowInv, InvOf, FlowTypes
<1>12. CASE m # 0
  <2>1. remote' = [remote EXCEPT !.got = Append(@, x)] /\ ~remote.eof
    <3>1. x # Fin /\ x # Close
      BY <1>6, <1>10, <1>12, Zenon
    <3>2. ~remote.eof
      BY <1>4, <1>12, Zenon
    <3> QED
      BY <1>1, <1>5, <3>1, <3>2, Zenon
  <2>2. PICK got : got = Append(remote.got, x)
    BY Zenon
  <2>3. got \in Seq(Nat) /\ Run(got, 0) /\ Size(got) = u + 1
    <3>1. x = 0 + Size(remote.got) + 1
      <4>1. x = u + 1 /\ u + 1 = 0 + u + 1
        BY <1>6, <1>12
      <4> QED
        BY <1>3, <4>1, Zenon
    <3>2. /\ Append(remote.got, x) \in Seq(Nat) /\ Run(Append(remote.got, x), 0)
          /\ Size(Append(remote.got, x)) = Size(remote.got) + 1
      BY <1>9, <1>10, <3>1, RunAppend, Zenon
    <3> QED
      BY <1>3, <2>2, <3>2, Zenon
  <2>4. /\ remote' \in Remotes /\ remote'.got = got /\ remote'.sent = remote.sent
        /\ remote'.closed = remote.closed /\ remote'.eof = remote.eof
    BY <2>1, <2>2, <2>3, FlowParts, Zenon DEF Remotes
  <2>5. u + a = (u + 1) + Size(up)
    BY <1>6
  <2>6. UpWay(flow, conn, up, guest, remote')
    <3>1. Framed(up, u + 1, m - 1, guest.sent) /\ m - 1 \in Nat
      BY <1>6, <1>12, Zenon
    <3> QED
      BY <1>6, <1>9, <2>1, <2>3, <2>4, <2>5, <3>1, Zenon DEF UpWay
  <2>7. DownWay(flow, conn, c, ws', guest, remote')
    BY <1>7, <2>4, FlowParts, Zenon DEF DownWay
  <2> QED
    BY <1>1, <1>7, <1>8, <2>4, <2>6, <2>7, FlowParts, Zenon DEF FlowInv, InvOf, FlowTypes
<1> QED
  BY <1>11, <1>12, Zenon

\* The remote host sends its next chunk, or ends its stream.
LEMMA RemoteEndKeeps ==
  ASSUME FlowInv, RemoteSend \/ RemoteClose
  PROVE  FlowInv'
<1>1. /\ flow' = flow /\ conn' = conn /\ c' = c /\ guest' = guest /\ ws.state = "open" /\ ~remote.closed
      /\ \/ /\ ws' = [ws EXCEPT !.down = Append(@, remote.sent + 1)]
            /\ remote' = [remote EXCEPT !.sent = @ + 1]
         \/ /\ ws' = [ws EXCEPT !.down = Append(@, Close)]
            /\ remote' = [remote EXCEPT !.closed = TRUE]
  BY Zenon DEF RemoteSend, RemoteClose
<1>2. "open" # "none" /\ "open" # "closed" /\ "open" # "connecting"
  BY Zenon
<1>3. ~guest.saw_fin /\ ~c.hostClosed
  BY <1>1, <1>2, FlowParts, Zenon DEF Phases, DownWay
<1>4. ws.down \in Seq(Messages) /\ remote.sent \in Nat
  BY FlowParts, Zenon DEF Sockets, Remotes
<1>5. PICK n : n = remote.sent + 1
  BY Zenon
<1>6. n \in Nat
  BY <1>4, <1>5
<1>7. Append(ws.down, n) \in Seq(Messages) /\ Append(ws.down, Close) \in Seq(Messages)
  <2>1. n \in Messages /\ Close \in Messages
    BY <1>6, Zenon DEF Messages
  <2> QED
    BY <1>4, <2>1, AppendProperties, Zenon
<1>8. PICK down \in {Append(ws.down, n), Append(ws.down, Close)} :
        /\ ws' = [ws EXCEPT !.down = down]
        /\ \/ down = Append(ws.down, n) /\ remote' = [remote EXCEPT !.sent = n]
           \/ down = Append(ws.down, Close) /\ remote' = [remote EXCEPT !.closed = TRUE]
  BY <1>1, <1>5, Zenon
<1>9. ws' \in Sockets /\ ws'.state = ws.state /\ ws'.up = ws.up /\ ws'.down = down
  BY <1>7, <1>8, FlowParts, Zenon DEF Sockets
<1>10. remote' \in Remotes /\ remote'.got = remote.got /\ remote'.eof = remote.eof
  BY <1>6, <1>8, FlowParts, Zenon DEF Remotes
<1>11. Phases(flow, conn, c, ws')
  BY <1>9, FlowParts, Zenon DEF Phases
<1>12. UpWay(flow, conn, ws'.up, guest, remote')
  BY <1>9, <1>10, FlowParts, Zenon DEF UpWay
<1>13. DownWay(flow, conn, c, ws', guest, remote')
  <2>1. CASE flow.closed
    BY <1>3, <2>1, FlowParts, Zenon DEF DownWay
  <2>2. CASE ~flow.closed
    <3>1. PICK b, b1, b2, b3, b4 \in Nat : DownAt(b, b1, b2, b3, b4)
      BY <2>2, DownParts, Zenon
    <3>2. Downed(ws.down, b4, remote.sent) /\ Lacks(ws.down, Close)
      BY <1>1, <3>1, Zenon DEF DownAt
    <3>3. /\ Downed(Append(ws.down, n), b4, n) /\ Lacks(Append(ws.down, n), Close)
          /\ Downed(Append(ws.down, Close), b4, remote.sent)
      BY <1>4, <1>5, <3>2, DownedMore, Zenon
    <3>4. Downed(down, b4, remote'.sent) /\ (~remote'.closed => Lacks(down, Close))
      <4>1. \/ down = Append(ws.down, n) /\ remote'.sent = n
            \/ down = Append(ws.down, Close) /\ remote'.sent = remote.sent /\ remote'.closed
        BY <1>8, FlowParts, Zenon DEF Remotes
      <4> QED
        BY <3>3, <4>1, Zenon
    <3>5. /\ ~conn.slot => c.pendingIn = <<>>
          /\ flow.host_done => ~conn.slot /\ flow.pend_g = <<>> /\ conn.in = <<>>
          /\ Run(guest.got, 0)
      BY <2>2, FlowParts, Zenon DEF DownWay
    <3> QED
      BY <1>1, <1>2, <1>3, <1>9, <2>2, <3>1, <3>4, <3>5, Zenon DEF DownWay, DownAt
  <2> QED
    BY <2>1, <2>2, Zenon
<1> QED
  BY <1>1, <1>9, <1>10, <1>11, <1>12, <1>13, FlowParts, Zenon DEF FlowInv, InvOf, FlowTypes

LEMMA FlowInitInv == Init => FlowInv
<1> SUFFICES ASSUME Init PROVE FlowInv
  BY Zenon
<1>1. /\ <<>> \in Seq(Nat) /\ <<>> \in Seq(Int) /\ <<>> \in Seq(Messages) /\ 0 \in Nat
      /\ "none" \in {"none", "connecting", "open", "closed"} /\ "none" # "closed"
  OBVIOUS
<1>2. /\ flow.live /\ ~flow.guest_fin /\ ~flow.nat_fin /\ ~flow.closed /\ flow.to_host /\ ~flow.host_done
      /\ flow.rx = <<>> /\ flow.tx = <<>> /\ flow.pend_h = <<>> /\ flow.pend_g = <<>> /\ flow \in Flows
  BY <1>1, Zenon DEF Init, Flows
<1>3. /\ conn.slot /\ ~conn.stop /\ ~conn.write_closed /\ ~conn.reported /\ conn.out = <<>> /\ conn.in = <<>>
      /\ conn \in Conns
  BY <1>1, Zenon DEF Init, Conns
<1>4. ~c.open /\ ~c.hostClosed /\ c.pendingIn = <<>> /\ c \in Entries
  BY <1>1, Zenon DEF Init, Entries
<1>5. ws.state = "none" /\ ws.up = <<>> /\ ws.down = <<>> /\ ws \in Sockets
  BY <1>1, Zenon DEF Init, Sockets
<1>6. guest.sent = 0 /\ guest.got = <<>> /\ ~guest.saw_fin /\ guest \in Guests
  BY <1>1, Zenon DEF Init, Guests
<1>7. remote.got = <<>> /\ ~remote.eof /\ remote.sent = 0 /\ remote \in Remotes
  BY <1>1, Zenon DEF Init, Remotes
<1>8. Size(<<>>) = 0 /\ Run(<<>>, 0) /\ 0 + 0 = 0
  BY RunNone
<1>9. Depths(flow, conn)
  <2>1. 0 <= SockCap /\ 0 <= 1 /\ 0 <= OutDepth /\ 0 <= InDepth
    BY FlowConsts
  <2> QED
    BY <1>2, <1>3, <1>8, <2>1, Zenon DEF Depths
<1>10. Phases(flow, conn, c, ws)
  BY <1>1, <1>2, <1>3, <1>4, <1>5, Zenon DEF Phases
<1>11. Framed(<<>>, 0, 0, 0) /\ Lacks(<<>>, Fin) /\ Lacks(<<>>, Close)
  BY DEF Framed, Lacks
<1>12. UpWay(flow, conn, ws.up, guest, remote)
  BY <1>1, <1>2, <1>3, <1>5, <1>6, <1>7, <1>8, <1>11, Zenon DEF UpWay
<1>13. Downed(<<>>, 0, 0)
  BY <1>1, <1>8, Zenon DEF Downed
<1>14. DownWay(flow, conn, c, ws, guest, remote)
  BY <1>2, <1>3, <1>4, <1>5, <1>6, <1>7, <1>8, <1>11, <1>13, Zenon DEF DownWay
<1> QED
  BY <1>2, <1>3, <1>4, <1>5, <1>6, <1>7, <1>9, <1>10, <1>12, <1>14, Zenon DEF FlowInv, InvOf, FlowTypes

LEMMA FlowNextInv == FlowInv /\ [Next]_vars => FlowInv'
<1> SUFFICES ASSUME FlowInv, [Next]_vars PROVE FlowInv'
  BY Zenon
<1>1. CASE Tick
  BY <1>1, TickKeeps, Zenon
<1>2. CASE Established \/ GuestFin \/ SocketCloses
  BY <1>2, FlagsKeep, Zenon
<1>3. CASE GuestSend
  BY <1>3, GuestSendKeeps, Zenon
<1>4. CASE GuestRecv
  BY <1>4, GuestRecvKeeps, Zenon
<1>5. CASE GuestSeesFin
  BY <1>5, GuestSeesFinKeeps, Zenon
<1>6. CASE WsOpens
  BY <1>6, WsOpensKeeps, Zenon
<1>7. CASE WsRefused
  BY <1>7, WsRefusedKeeps, Zenon
<1>8. CASE WsEvent
  BY <1>8, WsEventKeeps, Zenon
<1>9. CASE RemoteRecv
  BY <1>9, RemoteRecvKeeps, Zenon
<1>10. CASE RemoteSend \/ RemoteClose
  BY <1>10, RemoteEndKeeps, Zenon
<1>11. CASE UNCHANGED vars
  BY <1>11, Zenon DEF vars, FlowInv
<1> QED
  BY <1>1, <1>2, <1>3, <1>4, <1>5, <1>6, <1>7, <1>8, <1>9, <1>10, <1>11, Zenon DEF Next, Environment

\* A run from the start is a prefix of the stream.
LEMMA RunChunks == ASSUME NEW s, Run(s, 0) PROVE s = Chunks(Len(s)) /\ Len(s) = Size(s)
<1>1. s \in Seq(Nat) /\ Len(s) \in Nat /\ \A i \in 1 .. Len(s) : s[i] = 0 + i
  BY DEF Run
<1>2. s = [i \in 1 .. Len(s) |-> s[i]]
  BY <1>1
<1>3. \A i \in 1 .. Len(s) : s[i] = i
  BY <1>1
<1> QED
  BY <1>2, <1>3, Zenon DEF Chunks, Size

LEMMA InvWhole == FlowInv => StreamsWhole
<1> SUFFICES ASSUME FlowInv PROVE StreamsWhole
  BY Zenon
<1>1. /\ Run(remote.got, 0) /\ Run(guest.got, 0)
      /\ remote.eof => flow.guest_fin /\ Size(remote.got) = guest.sent
      /\ guest.saw_fin => Size(guest.got) = remote.sent
  BY FlowParts, Zenon DEF UpWay, DownWay
<1>2. /\ remote.got = Chunks(Len(remote.got)) /\ Len(remote.got) = Size(remote.got)
      /\ guest.got = Chunks(Len(guest.got)) /\ Len(guest.got) = Size(guest.got)
  BY <1>1, RunChunks, Zenon
<1> QED
  BY <1>1, <1>2, Zenon DEF StreamsWhole, UploadWhole, ResponseWhole

(***************************************************************************)
(* Both streams of a guest's connection arrive whole: the proxy's end of   *)
(* file comes after all the guest sent, the guest's FIN after all of the   *)
(* response (pump_flow, poll's reap, QueueConnector, the worker's          *)
(* pumpRelay and its WebSocket handlers), for every length of the streams, *)
(* every buffer size and every depth of the queues.                        *)
(***************************************************************************)
THEOREM StreamsAreWhole == Spec => []StreamsWhole
BY FlowInitInv, FlowNextInv, InvWhole, PTL DEF Spec
=============================================================================
