----------------------------- MODULE NicProofs ------------------------------
(***************************************************************************)
(* Proofs about the network card, for every value of its constants: the    *)
(* receive ring is a queue, and the transmit queue sends what was kicked.  *)
(***************************************************************************)
EXTENDS Rtl8139, SequenceTheorems, TLAPS

-----------------------------------------------------------------------------
(***************************************************************************)
(* The receive ring.                                                       *)
(***************************************************************************)
Pos == 0 .. (RingLen - 1)
Wrap(a) == IF a < RingLen THEN a ELSE a - RingLen
\* How far a is ahead of r.
Dist(a, r) == IF a >= r THEN a - r ELSE a + RingLen - r

LEMMA RingIs == RingLen \in Nat /\ RingLen > 16 /\ RingLen % 4 = 0
BY NicAssumption, Zenon

LEMMA WrapIs ==
  ASSUME NEW a \in 0 .. (2 * RingLen - 1)
  PROVE  a % RingLen = Wrap(a) /\ Wrap(a) \in Pos
BY RingIs DEF Wrap, Pos

LEMMA NumberIs ==
  ASSUME NEW a \in Nat
  PROVE  (a + 1) % Numbers \in Nat
<1>1. Numbers \in Nat \ {0}
  BY NicAssumption, Zenon
<1> QED
  BY <1>1

LEMMA DistIs ==
  ASSUME NEW a \in Pos, NEW r \in Pos
  PROVE  /\ (a + RingLen - r) % RingLen = Dist(a, r) /\ Dist(a, r) \in Pos
         /\ a % RingLen = a /\ (Dist(a, r) = 0 <=> a = r)
<1>1. a + RingLen - r \in 0 .. (2 * RingLen - 1) /\ a \in 0 .. (2 * RingLen - 1)
  BY RingIs DEF Pos
<1>2. (a + RingLen - r) % RingLen = Wrap(a + RingLen - r) /\ a % RingLen = Wrap(a)
  BY <1>1, WrapIs, Zenon
<1> QED
  BY <1>2, RingIs DEF Pos, Wrap, Dist

LEMMA Ahead ==
  ASSUME NEW a \in Pos, NEW r \in Pos, NEW t \in Nat, Dist(a, r) + t < RingLen
  PROVE  Wrap(a + t) \in Pos /\ Dist(Wrap(a + t), r) = Dist(a, r) + t /\ a + t \in 0 .. (2 * RingLen - 1)
BY RingIs DEF Pos, Wrap, Dist

LEMMA Behind ==
  ASSUME NEW a \in Pos, NEW r \in Pos, NEW t \in Nat, t <= Dist(a, r)
  PROVE  Dist(a, Wrap(r + t)) = Dist(a, r) - t
BY RingIs DEF Pos, Wrap, Dist

LEMMA Aligned ==
  ASSUME NEW a \in Nat, a % 4 = 0, NEW t \in Nat, t % 4 = 0, a + t < 2 * RingLen
  PROVE  Wrap(a + t) % 4 = 0
BY RingIs DEF Wrap

\* Two packets that lie one after the other, seen from r, share no dword.
LEMMA Apart ==
  ASSUME NEW a \in Pos, NEW b \in Pos, NEW r \in Pos, NEW s \in Nat, NEW t \in Nat,
         Dist(a, r) + s <= Dist(b, r), Dist(b, r) + t < RingLen
  PROVE  a + s <= b \/ b + t <= a
BY RingIs DEF Pos, Dist

LEMMA TotalIs ==
  ASSUME NEW n \in Lengths
  PROVE  Total(n) \in Nat /\ Total(n) % 4 = 0 /\ Total(n) >= 4 /\ Total(n) <= MaxTotal /\ MaxTotal \in Nat
<1>1. \A m \in Lengths : Total(m) \in Nat /\ Total(m) % 4 = 0 /\ Total(m) >= 4
  BY NicAssumption DEF Total
<1>2. PICK x \in Lengths : \A m \in Lengths : m <= x
  BY NicAssumption, Zenon
<1>3. \A m \in Lengths : Total(m) <= Total(x)
  BY <1>2, NicAssumption DEF Total
<1>4. \E t \in {Total(m) : m \in Lengths} : \A m \in Lengths : Total(m) <= t
  BY <1>2, <1>3, Zenon
<1>5. MaxTotal \in {Total(m) : m \in Lengths} /\ \A m \in Lengths : Total(m) <= MaxTotal
  BY <1>4, Zenon DEF MaxTotal
<1> QED
  BY <1>1, <1>5, Zenon

LEMMA DwordsIs ==
  ASSUME NEW a \in Pos, a % 4 = 0, NEW n \in Lengths
  PROVE  DwordsOf(a, n) \subseteq Dwords /\ a \div 4 \in DwordsOf(a, n)
<1>1. PICK t \in Nat : t = Total(n) /\ t % 4 = 0 /\ t >= 4 /\ t <= MaxTotal /\ MaxTotal \in Nat
  BY TotalIs, Zenon
<1> QED
  BY <1>1, RingIs DEF DwordsOf, Dwords, Pos

LEMMA DwordsApart ==
  ASSUME NEW a \in Nat, a % 4 = 0, NEW b \in Nat, b % 4 = 0, NEW m \in Lengths, NEW n \in Lengths,
         a + Total(m) <= b \/ b + Total(n) <= a,
         NEW i \in DwordsOf(a, m)
  PROVE  i \notin DwordsOf(b, n)
<1>1. PICK s \in Nat, t \in Nat : s = Total(m) /\ t = Total(n) /\ s % 4 = 0 /\ t % 4 = 0
  BY TotalIs, Zenon
<1> QED
  BY <1>1 DEF DwordsOf

-----------------------------------------------------------------------------
Frame == [number : Nat, len : Lengths, at : Pos]
Size(k) == Total(unread[k].len)
Off(k) == Dist(unread[k].at, rx.rptr)

RxTypes ==
  /\ rx \in [enabled : BOOLEAN, cbr : Pos, rptr : Pos, rok : BOOLEAN]
  /\ rx.cbr % 4 = 0
  /\ driver \in [at : {"idle", "poll", "capr"}, cur : Pos, expects : Nat, got : Nat \X Nat]
  /\ unread \in Seq(Frame)
  /\ \A k \in 1 .. Len(unread) : unread[k].at % 4 = 0
  /\ ring \in [Dwords -> Nat \X Nat]

\* Seen from the read pointer, the unread packets follow each other and end at
\* CBR or before.
Placed ==
  /\ \A k \in 1 .. Len(unread) : Off(k) + Size(k) <= Dist(rx.cbr, rx.rptr)
  /\ \A j, k \in 1 .. Len(unread) : j < k => Off(j) + Size(j) <= Off(k)

\* They are numbered in order from the one the driver expects.
Numbered ==
  /\ \A k \in 1 .. (Len(unread) - 1) : unread[k + 1].number = (unread[k].number + 1) % Numbers
  /\ unread # <<>> => unread[1].number = driver.expects

\* The driver stands at the read pointer, or behind the packet it has read.
Walk ==
  /\ driver.at # "capr" => driver.cur = rx.rptr
  /\ driver.at = "capr" => unread # <<>> /\ driver.cur = Wrap(rx.rptr + Size(1))

\* RingKeepsUnread, conjunct by conjunct.
Kept ==
  \A k \in 1 .. Len(unread) :
    \A i \in DwordsOf(unread[k].at, unread[k].len) : ring[i] = <<unread[k].number, unread[k].len>>
Chained ==
  \A k \in 1 .. Len(unread) :
    Wrap(unread[k].at + Size(k)) = IF k = Len(unread) THEN rx.cbr ELSE unread[k + 1].at
Ends ==
  /\ unread # <<>> => rx.rptr = unread[1].at
  /\ rx.cbr = rx.rptr <=> unread = <<>>
Told == unread # <<>> => rx.rok \/ driver.at # "idle"

RxInv ==
  /\ RxTypes /\ Placed /\ Numbered /\ Walk /\ Kept /\ Chained /\ Ends /\ Told
  /\ DriverReadsAccepted

LEMMA Elements ==
  ASSUME RxTypes
  PROVE  /\ Len(unread) \in Nat /\ DOMAIN unread = 1 .. Len(unread)
         /\ unread = <<>> <=> Len(unread) = 0
         /\ \A k \in 1 .. Len(unread) :
              /\ unread[k] \in Frame /\ unread[k].at \in Pos /\ unread[k].len \in Lengths
              /\ unread[k].number \in Nat /\ unread[k].at % 4 = 0
              /\ Size(k) \in Nat /\ Size(k) % 4 = 0 /\ Size(k) >= 4 /\ Off(k) \in Pos
         /\ unread # <<>> => Head(unread) = unread[1] /\ 1 \in 1 .. Len(unread)
<1>1. Len(unread) \in Nat /\ DOMAIN unread = 1 .. Len(unread) /\ (unread = <<>> <=> Len(unread) = 0)
  BY LenProperties, EmptySeq, Zenon DEF RxTypes
<1>2. ASSUME NEW k \in 1 .. Len(unread)
      PROVE  /\ unread[k] \in Frame /\ unread[k].at \in Pos /\ unread[k].len \in Lengths
             /\ unread[k].number \in Nat
             /\ Size(k) \in Nat /\ Size(k) % 4 = 0 /\ Size(k) >= 4 /\ Off(k) \in Pos
  <2>1. unread[k] \in Frame
    BY ElementOfSeq, Zenon DEF RxTypes
  <2>2. unread[k].at \in Pos /\ unread[k].len \in Lengths /\ unread[k].number \in Nat
    BY <2>1, Zenon DEF Frame
  <2>3. Size(k) \in Nat /\ Size(k) % 4 = 0 /\ Size(k) >= 4
    BY <2>2, TotalIs, Zenon DEF Size
  <2>4. Off(k) \in Pos
    BY <2>2, DistIs, Zenon DEF Off, RxTypes
  <2> QED
    BY <2>1, <2>2, <2>3, <2>4, Zenon
<1>3. \A k \in 1 .. Len(unread) : unread[k].at % 4 = 0
  BY Zenon DEF RxTypes
<1> QED
  BY <1>1, <1>2, <1>3

LEMMA RxInvImplies ==
  ASSUME RxInv
  PROVE  RingIsQueue
<1>1. RxTypes
  BY Zenon DEF RxInv
<1>2. RingKeepsUnread
  <2>1. ASSUME NEW k \in DOMAIN unread
        PROVE  (unread[k].at + Total(unread[k].len)) % RingLen
                 = IF k = Len(unread) THEN rx.cbr ELSE unread[k + 1].at
    <3>1. k \in 1 .. Len(unread) /\ unread[k].at \in Pos /\ Size(k) \in Nat
      BY <1>1, Elements, Zenon
    <3>2. Size(k) < RingLen
      <4>1. Off(k) + Size(k) <= Dist(rx.cbr, rx.rptr) /\ Dist(rx.cbr, rx.rptr) \in Pos /\ Off(k) \in Pos
        BY <1>1, <3>1, DistIs, Elements, Zenon DEF RxInv, Placed, RxTypes
      <4> QED
        BY <3>1, <4>1, RingIs DEF Pos
    <3>3. unread[k].at + Size(k) \in 0 .. (2 * RingLen - 1)
      BY <3>1, <3>2, RingIs DEF Pos
    <3>4. (unread[k].at + Size(k)) % RingLen = Wrap(unread[k].at + Size(k))
      BY <3>3, WrapIs, Zenon
    <3> QED
      BY <3>1, <3>4, Zenon DEF RxInv, Chained, Size
  <2>2. unread # <<>> => rx.rptr = Head(unread).at
    BY <1>1, Elements, Zenon DEF RxInv, Ends
  <2>3. BufferEmpty(rx) <=> unread = <<>>
    BY <1>1, DistIs, Zenon DEF RxInv, Ends, BufferEmpty, RxTypes
  <2> QED
    BY <1>1, <2>1, <2>2, <2>3, Elements, Zenon DEF RingKeepsUnread, RxInv, Kept
<1> QED
  BY <1>2, Zenon DEF RxInv, Told, RingIsQueue

-----------------------------------------------------------------------------
\* A step that leaves the packets, CBR and the read pointer alone.
LEMMA SamePackets ==
  ASSUME RxInv, UNCHANGED <<ring, unread>>, rx'.cbr = rx.cbr, rx'.rptr = rx.rptr,
         driver'.expects = driver.expects
  PROVE  (Placed /\ Numbered /\ Kept /\ Chained /\ Ends)'
<1>1. Placed'
  BY Zenon DEF RxInv, Placed, Off, Size
<1>2. Numbered'
  BY Zenon DEF RxInv, Numbered
<1>3. Kept'
  BY Zenon DEF RxInv, Kept
<1>4. Chained'
  BY Zenon DEF RxInv, Chained, Size
<1>5. Ends'
  BY Zenon DEF RxInv, Ends
<1> QED
  BY <1>1, <1>2, <1>3, <1>4, <1>5, Zenon

LEMMA RxSame ==
  ASSUME RxInv, UNCHANGED <<rx, ring, driver, unread>>
  PROVE  RxInv'
<1>1. (Placed /\ Numbered /\ Kept /\ Chained /\ Ends)'
  BY SamePackets, Zenon
<1>2. RxTypes' /\ Walk' /\ Told' /\ DriverReadsAccepted'
  BY Zenon DEF RxInv, RxTypes, Walk, Size, Told, DriverReadsAccepted
<1> QED
  BY <1>1, <1>2, Zenon DEF RxInv

LEMMA EnableRxKeeps ==
  ASSUME RxInv, EnableRx
  PROVE  RxInv'
<1>1. /\ rx' \in [enabled : BOOLEAN, cbr : Pos, rptr : Pos, rok : BOOLEAN]
      /\ rx'.cbr = rx.cbr /\ rx'.rptr = rx.rptr /\ rx'.rok = rx.rok
      /\ UNCHANGED <<ring, driver, unread>>
  BY Zenon DEF RxInv, RxTypes, EnableRx
<1>2. (Placed /\ Numbered /\ Kept /\ Chained /\ Ends)'
  BY <1>1, SamePackets, Zenon
<1>3. RxTypes' /\ Walk' /\ Told' /\ DriverReadsAccepted'
  BY <1>1, Zenon DEF RxInv, RxTypes, Walk, Size, Told, DriverReadsAccepted
<1> QED
  BY <1>2, <1>3, Zenon DEF RxInv

LEMMA AckRokKeeps ==
  ASSUME RxInv, AckRok
  PROVE  RxInv'
<1>1. /\ rx' \in [enabled : BOOLEAN, cbr : Pos, rptr : Pos, rok : BOOLEAN]
      /\ rx'.cbr = rx.cbr /\ rx'.rptr = rx.rptr /\ UNCHANGED <<ring, unread>>
  BY Zenon DEF RxInv, RxTypes, AckRok
<1>2. /\ driver' \in [at : {"idle", "poll", "capr"}, cur : Pos, expects : Nat, got : Nat \X Nat]
      /\ driver.at = "idle" /\ driver'.at = "poll" /\ driver'.cur = driver.cur
      /\ driver'.expects = driver.expects
  BY Zenon DEF RxInv, RxTypes, AckRok
<1>3. (Placed /\ Numbered /\ Kept /\ Chained /\ Ends)'
  BY <1>1, <1>2, SamePackets, Zenon
<1>4. RxTypes' /\ Walk' /\ Told' /\ DriverReadsAccepted'
  BY <1>1, <1>2, Zenon DEF RxInv, RxTypes, Walk, Told, DriverReadsAccepted
<1> QED
  BY <1>3, <1>4, Zenon DEF RxInv

LEMMA PollDoneKeeps ==
  ASSUME RxInv, PollDone
  PROVE  RxInv'
<1>1. unread = <<>>
  BY RxInvImplies, Zenon DEF PollDone, RingIsQueue, RingKeepsUnread
<1>2. /\ driver' \in [at : {"idle", "poll", "capr"}, cur : Pos, expects : Nat, got : Nat \X Nat]
      /\ driver.at = "poll" /\ driver'.at = "idle" /\ driver'.cur = driver.cur
      /\ driver'.expects = driver.expects /\ UNCHANGED <<rx, ring, unread>>
  BY Zenon DEF RxInv, RxTypes, PollDone
<1>3. (Placed /\ Numbered /\ Kept /\ Chained /\ Ends)'
  BY <1>2, SamePackets, Zenon
<1>4. RxTypes' /\ Walk' /\ Told' /\ DriverReadsAccepted'
  BY <1>1, <1>2, Zenon DEF RxInv, RxTypes, Walk, Told, DriverReadsAccepted
<1> QED
  BY <1>3, <1>4, Zenon DEF RxInv

\* The read pointer is at the first packet, so its header is the one read.
LEMMA ReadPacketKeeps ==
  ASSUME RxInv, ReadPacket
  PROVE  RxInv'
<1> DEFINE f == unread[1]
           header == ring[driver.cur \div 4]
<1>1. /\ unread # <<>> /\ driver.cur = rx.rptr /\ rx.rptr = f.at /\ Head(unread) = f
      /\ 1 \in 1 .. Len(unread)
      /\ f.at \in Pos /\ f.at % 4 = 0 /\ f.len \in Lengths /\ f.number \in Nat
  BY RxInvImplies, Elements, Zenon DEF RxInv, ReadPacket, RingIsQueue, RingKeepsUnread, Walk, Ends
<1>2. header = <<f.number, f.len>>
  BY <1>1, DwordsIs, Zenon DEF RxInv, Kept
<1>3. f.number = driver.expects
  BY <1>1, Zenon DEF RxInv, Numbered
<1>4. (driver.cur + Total(f.len)) % RingLen = Wrap(rx.rptr + Size(1)) /\ Wrap(rx.rptr + Size(1)) \in Pos
  <2>1. Off(1) + Size(1) <= Dist(rx.cbr, rx.rptr) /\ Off(1) \in Pos /\ Size(1) \in Nat
    BY <1>1, Elements, Zenon DEF RxInv, Placed
  <2>2. Dist(rx.cbr, rx.rptr) \in Pos
    BY DistIs, Zenon DEF RxInv, RxTypes
  <2>3. rx.rptr + Size(1) \in 0 .. (2 * RingLen - 1)
    <3>1. PICK r, o, n, d : /\ r = rx.rptr /\ o = Off(1) /\ n = Size(1) /\ d = Dist(rx.cbr, rx.rptr)
      BY Zenon
    <3>2. r \in Pos /\ o \in Pos /\ n \in Nat /\ d \in Pos /\ o + n <= d
      BY <1>1, <2>1, <2>2, <3>1, Zenon
    <3>3. r + n \in 0 .. (2 * RingLen - 1)
      BY <3>2, RingIs DEF Pos
    <3> QED
      BY <3>1, <3>3, Zenon
  <2> QED
    BY <1>1, <2>3, WrapIs, Zenon DEF Size
<1>5. f.len \in Nat
  BY <1>1, NicAssumption, Zenon
<1> HIDE DEF f
<1>6. driver' = [driver EXCEPT !.at = "capr", !.got = <<f.number, f.len>>, !.cur = Wrap(rx.rptr + Size(1))]
  <2>1. header[2] = f.len
    BY <1>2
  <2>2. (driver.cur + Total(header[2])) % RingLen = Wrap(rx.rptr + Size(1))
    BY <1>4, <2>1, Zenon
  <2>3. driver' = [driver EXCEPT !.at = "capr", !.got = header,
                                 !.cur = (driver.cur + Total(header[2])) % RingLen]
    BY Zenon DEF ReadPacket
  <2> QED
    BY <1>2, <2>2, <2>3, Zenon
<1>7. /\ driver' \in [at : {"idle", "poll", "capr"}, cur : Pos, expects : Nat, got : Nat \X Nat]
      /\ driver'.at = "capr" /\ driver'.cur = Wrap(rx.rptr + Size(1))
      /\ driver'.got = <<f.number, f.len>> /\ driver'.expects = driver.expects
  <2>1. Wrap(rx.rptr + Size(1)) \in Pos /\ <<f.number, f.len>> \in Nat \X Nat
    BY <1>1, <1>4, <1>5, Zenon
  <2> QED
    BY <1>6, <2>1, Zenon DEF RxInv, RxTypes
<1>8. UNCHANGED <<rx, ring, unread>>
  BY Zenon DEF ReadPacket
<1>9. (Placed /\ Numbered /\ Kept /\ Chained /\ Ends)'
  BY <1>7, <1>8, SamePackets, Zenon
<1>10. RxTypes'
  BY <1>7, <1>8, Zenon DEF RxInv, RxTypes
<1>11. Walk' /\ Told' /\ DriverReadsAccepted'
  BY <1>1, <1>3, <1>7, <1>8, Zenon DEF Walk, Size, Told, DriverReadsAccepted
<1> QED
  BY <1>9, <1>10, <1>11, Zenon DEF RxInv

-----------------------------------------------------------------------------
\* accept_rx: the new packet lies behind the unread ones and ends short of the
\* read pointer.
LEMMA InjectKeeps ==
  ASSUME RxInv, NEW n \in Lengths, Fits(rx, n), InjectRxFrame(n, NextNumber)
  PROVE  RxInv'
<1> DEFINE L == Len(unread)
           t == Total(n)
           e == NextNumber
           f == [number |-> e, len |-> n, at |-> rx.cbr]
<1>1. RxTypes /\ Placed /\ Numbered /\ Walk /\ Kept /\ Chained /\ Ends /\ Told /\ DriverReadsAccepted
  BY Zenon DEF RxInv
<1>2. /\ rx.cbr \in Pos /\ rx.rptr \in Pos /\ rx.cbr % 4 = 0
      /\ driver.expects \in Nat
  BY <1>1, Zenon DEF RxTypes
<1>3. t \in Nat /\ t % 4 = 0 /\ t >= 4
  BY TotalIs, Zenon
<1>4. Dist(rx.cbr, rx.rptr) \in Pos /\ Dist(rx.cbr, rx.rptr) + t < RingLen
  BY <1>2, DistIs, Zenon DEF Fits, Unread
<1>5. e \in Nat
  <2>1. CASE unread = <<>>
    BY <1>2, <2>1, Zenon DEF NextNumber
  <2>2. CASE unread # <<>>
    <3>1. unread[L].number \in Nat
      BY <1>1, <2>2, Elements
    <3>2. (unread[L].number + 1) % Numbers \in Nat
      BY <3>1, NumberIs, Zenon
    <3> QED
      BY <2>2, <3>2, Zenon DEF NextNumber
  <2> QED
    BY <2>1, <2>2, Zenon
<1>6. f \in Frame /\ f.number = e /\ f.len = n /\ f.at = rx.cbr
  BY <1>2, <1>5, Zenon DEF Frame
<1>7. /\ unread' = Append(unread, f)
      /\ ring' = [i \in Dwords |-> IF i \in DwordsOf(rx.cbr, n) THEN <<e, n>> ELSE ring[i]]
      /\ rx' = [[rx EXCEPT !.cbr = (rx.cbr + t) % RingLen] EXCEPT !.rok = TRUE]
      /\ driver' = driver
  BY Zenon DEF InjectRxFrame, SignalRxOk
<1> HIDE DEF f, e, t
<1>8. /\ unread' \in Seq(Frame) /\ Len(unread') = L + 1 /\ L \in Nat /\ unread'[L + 1] = f
      /\ \A k \in 1 .. L : unread'[k] = unread[k]
      /\ unread' # <<>>
  <2>1. unread \in Seq(Frame)
    BY <1>1, Zenon DEF RxTypes
  <2> QED
    BY <1>6, <1>7, <2>1, AppendProperties, LenProperties
<1>9. /\ rx' \in [enabled : BOOLEAN, cbr : Pos, rptr : Pos, rok : BOOLEAN]
      /\ rx'.cbr = Wrap(rx.cbr + t) /\ rx'.rptr = rx.rptr /\ rx'.rok = TRUE
  <2>1. (rx.cbr + t) % RingLen = Wrap(rx.cbr + t) /\ Wrap(rx.cbr + t) \in Pos
    BY <1>2, <1>3, <1>4, Ahead, WrapIs, Zenon
  <2>2. PICK w \in Pos : w = Wrap(rx.cbr + t)
    BY <2>1, Zenon
  <2>3. rx' = [[rx EXCEPT !.cbr = w] EXCEPT !.rok = TRUE]
    BY <1>7, <2>1, <2>2, Zenon
  <2>4. rx \in [enabled : BOOLEAN, cbr : Pos, rptr : Pos, rok : BOOLEAN]
    BY <1>1, Zenon DEF RxTypes
  <2> QED
    BY <2>2, <2>3, <2>4, Zenon
<1>10. Dist(rx'.cbr, rx'.rptr) = Dist(rx.cbr, rx.rptr) + t
  BY <1>2, <1>3, <1>4, <1>9, Ahead
<1>11. ASSUME NEW k \in 1 .. L
       PROVE  /\ k \in 1 .. (L + 1) /\ unread'[k] = unread[k] /\ Size(k)' = Size(k) /\ Off(k)' = Off(k)
              /\ unread[k].at \in Pos /\ unread[k].at % 4 = 0 /\ unread[k].len \in Lengths
              /\ Size(k) \in Nat /\ Off(k) \in Pos /\ Off(k) + Size(k) <= Dist(rx.cbr, rx.rptr)
  <2>1. k \in 1 .. (L + 1)
    BY <1>8
  <2>2. Size(k)' = Size(k) /\ Off(k)' = Off(k)
    BY <1>8, <1>9, Zenon DEF Size, Off
  <2> QED
    BY <1>1, <1>8, <2>1, <2>2, Elements, Zenon DEF Placed
<1>12. ASSUME NEW k \in Nat, k = L + 1
       PROVE  Size(k)' = t /\ Off(k)' = Dist(rx.cbr, rx.rptr) /\ unread'[k] = f
  BY <1>6, <1>8, <1>9, <1>12, Zenon DEF Size, Off, t
<1>13. \A k \in 1 .. (L + 1) : k \in 1 .. L \/ k = L + 1
  BY <1>8
<1>14. RxTypes'
  <2>1. rx'.cbr % 4 = 0
    <3>1. rx.cbr + t < 2 * RingLen /\ rx.cbr \in Nat
      BY <1>2, <1>3, <1>4, RingIs DEF Pos
    <3> QED
      BY <1>2, <1>3, <1>9, <3>1, Aligned, Zenon
  <2>2. \A k \in 1 .. (L + 1) : unread'[k].at % 4 = 0
    BY <1>2, <1>6, <1>8, <1>11, <1>13, Zenon
  <2>3. ring' \in [Dwords -> Nat \X Nat]
    <3>1. <<e, n>> \in Nat \X Nat
      BY <1>5, NicAssumption, Zenon
    <3> QED
      BY <1>1, <1>7, <3>1, Zenon DEF RxTypes
  <2> QED
    BY <1>1, <1>7, <1>8, <1>9, <2>1, <2>2, <2>3, Zenon DEF RxTypes
<1>15. Placed'
  <2>1. \A k \in 1 .. (L + 1) : Off(k)' + Size(k)' <= Dist(rx'.cbr, rx'.rptr)
    <3> TAKE k \in 1 .. (L + 1)
    <3>1. CASE k \in 1 .. L
      BY <1>3, <1>4, <1>10, <1>11, <3>1, RingIs DEF Pos
    <3>2. CASE k = L + 1
      BY <1>3, <1>4, <1>10, <1>12, <3>2, RingIs DEF Pos
    <3> QED
      BY <1>13, <3>1, <3>2, Zenon
  <2>2. ASSUME NEW j \in 1 .. (L + 1), NEW k \in 1 .. (L + 1), j < k
        PROVE  Off(j)' + Size(j)' <= Off(k)'
    <3>1. j \in 1 .. L
      BY <1>8, <2>2
    <3>2. CASE k \in 1 .. L
      BY <1>1, <1>11, <2>2, <3>1, <3>2, Zenon DEF Placed
    <3>3. CASE k = L + 1
      BY <1>11, <1>12, <3>1, <3>3
    <3> QED
      BY <1>13, <3>2, <3>3, Zenon
  <2> QED
    BY <1>8, <2>1, <2>2, Zenon DEF Placed
<1>16. Numbered'
  <2>1. ASSUME NEW k \in 1 .. L
        PROVE  unread'[k + 1].number = (unread'[k].number + 1) % Numbers
    <3>1. CASE k = L
      BY <1>6, <1>8, <2>1, <3>1 DEF e, NextNumber
    <3>2. CASE k # L
      <4>1. k \in 1 .. (L - 1) /\ k + 1 \in 1 .. L
        BY <1>8, <2>1, <3>2
      <4> QED
        BY <1>1, <1>8, <2>1, <4>1, Zenon DEF Numbered
    <3> QED
      BY <3>1, <3>2, Zenon
  <2>2. unread'[1].number = driver'.expects
    <3>1. CASE unread = <<>>
      <4>1. L = 0
        BY <3>1, Zenon
      <4> QED
        BY <1>6, <1>7, <1>8, <3>1, <4>1 DEF e, NextNumber
    <3>2. CASE unread # <<>>
      BY <1>1, <1>7, <1>8, <3>2, Elements, Zenon DEF Numbered
    <3> QED
      BY <3>1, <3>2, Zenon
  <2>3. Len(unread') - 1 = L
    BY <1>8
  <2> QED
    BY <2>1, <2>2, <2>3, Zenon DEF Numbered
<1>17. Walk' /\ Told' /\ DriverReadsAccepted'
  <2>1. CASE driver.at = "capr"
    <3>1. unread # <<>> /\ 1 \in 1 .. L /\ Head(unread) = unread[1]
      BY <1>1, <2>1, Elements, Zenon DEF Walk
    <3>2. unread'[1] = unread[1] /\ Size(1)' = Size(1) /\ Head(unread') = unread'[1]
      BY <1>8, <1>11, <3>1, HeadTailProperties
    <3> QED
      BY <1>1, <1>7, <1>8, <1>9, <2>1, <3>1, <3>2 DEF Walk, Told, DriverReadsAccepted
  <2>2. CASE driver.at # "capr"
    BY <1>1, <1>7, <1>9, <2>2, Zenon DEF Walk, Told, DriverReadsAccepted
  <2> QED
    BY <2>1, <2>2, Zenon
<1>18. Kept'
  <2>1. ASSUME NEW k \in 1 .. L, NEW i \in DwordsOf(unread[k].at, unread[k].len)
        PROVE  ring'[i] = <<unread[k].number, unread[k].len>>
    <3>1. unread[k].at + Size(k) <= rx.cbr \/ rx.cbr + t <= unread[k].at
      BY <1>2, <1>3, <1>4, <1>11, Apart, Zenon DEF Off
    <3>2. i \notin DwordsOf(rx.cbr, n)
      <4>1. \A a \in Pos : a \in Nat
        BY RingIs DEF Pos
      <4>2. /\ rx.cbr \in Nat /\ rx.cbr % 4 = 0
            /\ unread[k].at \in Nat /\ unread[k].at % 4 = 0 /\ unread[k].len \in Lengths
        BY <1>2, <1>11, <4>1, Zenon
      <4>3. unread[k].at + Total(unread[k].len) <= rx.cbr \/ rx.cbr + Total(n) <= unread[k].at
        BY <3>1, Zenon DEF Size, t
      <4> QED
        BY <2>1, <4>2, <4>3, DwordsApart, Zenon
    <3>3. i \in Dwords
      BY <1>11, DwordsIs, Zenon
    <3> QED
      BY <1>1, <1>7, <3>2, <3>3, Zenon DEF Kept
  <2>2. ASSUME NEW i \in DwordsOf(rx.cbr, n)
        PROVE  ring'[i] = <<e, n>>
    <3>1. i \in Dwords
      BY <1>2, DwordsIs, Zenon
    <3> QED
      BY <1>7, <2>2, <3>1, Zenon
  <2>3. ASSUME NEW k \in 1 .. (L + 1), NEW i \in DwordsOf(unread'[k].at, unread'[k].len)
        PROVE  ring'[i] = <<unread'[k].number, unread'[k].len>>
    <3>1. CASE k \in 1 .. L
      BY <1>8, <2>1, <2>3, <3>1, Zenon
    <3>2. CASE k = L + 1
      BY <1>6, <1>8, <2>2, <2>3, <3>2, Zenon
    <3> QED
      BY <1>13, <3>1, <3>2, Zenon
  <2> QED
    BY <1>8, <2>3, Zenon DEF Kept
<1>19. Chained'
  <2>1. ASSUME NEW k \in 1 .. (L + 1)
        PROVE  Wrap(unread'[k].at + Size(k)') = IF k = L + 1 THEN rx'.cbr ELSE unread'[k + 1].at
    <3>1. CASE k = L + 1
      BY <1>6, <1>8, <1>9, <1>12, <3>1
    <3>2. CASE k \in 1 .. L /\ k = L
      BY <1>1, <1>6, <1>8, <1>11, <3>2 DEF Chained
    <3>3. CASE k \in 1 .. L /\ k # L
      <4>1. k + 1 \in 1 .. L /\ k # L + 1
        BY <1>8, <3>3
      <4>2. Wrap(unread[k].at + Size(k)) = unread[k + 1].at
        BY <1>1, <3>3, Zenon DEF Chained
      <4> QED
        BY <1>8, <1>11, <3>3, <4>1, <4>2, Zenon
    <3> QED
      BY <1>13, <3>1, <3>2, <3>3, Zenon
  <2> QED
    BY <1>8, <2>1, Zenon DEF Chained
<1>20. Ends'
  <2>1. rx'.rptr = unread'[1].at
    <3>1. CASE unread = <<>>
      <4>1. L = 0
        BY <3>1, Zenon
      <4> QED
        BY <1>1, <1>6, <1>8, <1>9, <3>1, <4>1 DEF Ends
    <3>2. CASE unread # <<>>
      BY <1>1, <1>8, <1>9, <3>2, Elements, Zenon DEF Ends
    <3> QED
      BY <3>1, <3>2, Zenon
  <2>2. rx'.cbr # rx'.rptr
    <3>1. rx'.cbr \in Pos /\ rx'.rptr \in Pos /\ Dist(rx'.cbr, rx'.rptr) # 0
      BY <1>3, <1>4, <1>9, <1>10 DEF Pos
    <3> QED
      BY <3>1, DistIs, Zenon
  <2> QED
    BY <1>8, <2>1, <2>2, Zenon DEF Ends
<1> QED
  BY <1>14, <1>15, <1>16, <1>17, <1>18, <1>19, <1>20, Zenon DEF RxInv

-----------------------------------------------------------------------------
\* The driver writes CAPR 16 short of its offset; write_reg adds them again.
LEMMA CaprIs ==
  ASSUME NEW a \in Pos
  PROVE  Reload((a + RegMod - 16) % RegMod) = a
<1>1. a \in Nat /\ a < RingLen
  BY RingIs DEF Pos
<1>2. CASE a >= 16
  <2>1. (a + RegMod - 16) % RegMod = a - 16
    <3>1. a + RegMod - 16 = (a - 16) + RegMod /\ a - 16 \in 0 .. (RegMod - 1) /\ RegMod \in Nat \ {0}
      BY <1>1, <1>2, RingIs DEF RegMod
    <3> QED
      BY <3>1
  <2> QED
    BY <1>1, <2>1, RingIs DEF Reload
<1>3. CASE a < 16
  <2>1. (a + RegMod - 16) % RegMod = a + RegMod - 16
    <3>1. a + RegMod - 16 \in 0 .. (RegMod - 1) /\ RegMod \in Nat \ {0}
      BY <1>1, <1>3, RingIs DEF RegMod
    <3> QED
      BY <3>1
  <2>2. (a + 4 * RingLen) % RingLen = a
    BY <1>1, RingIs
  <2>3. a + RegMod - 16 + 16 = a + 4 * RingLen
    BY <1>1, RingIs DEF RegMod
  <2> QED
    BY <2>1, <2>2, <2>3, Zenon DEF Reload
<1> QED
  BY <1>1, <1>2, <1>3

\* The read pointer passes exactly the packet that was read.
LEMMA WriteCaprKeeps ==
  ASSUME RxInv, WriteCapr
  PROVE  RxInv'
<1> DEFINE L == Len(unread)
           f == unread[1]
           s == Size(1)
           c == Wrap(rx.rptr + s)
<1>1. RxTypes /\ Placed /\ Numbered /\ Walk /\ Kept /\ Chained /\ Ends /\ Told /\ DriverReadsAccepted
  BY Zenon DEF RxInv
<1>2. /\ driver.at = "capr" /\ unread # <<>> /\ driver.cur = c /\ driver.cur \in Pos
      /\ rx.rptr = f.at /\ Head(unread) = f /\ 1 \in 1 .. L /\ L \in Nat
      /\ f.at \in Pos /\ f.at % 4 = 0 /\ f.len \in Lengths /\ f.number = driver.expects
      /\ s \in Nat /\ rx.cbr \in Pos /\ driver.expects \in Nat
  BY <1>1, Elements, Zenon DEF WriteCapr, Walk, Ends, Numbered, RxTypes
<1>3. Off(1) = 0
  BY <1>2, DistIs DEF Off
<1>4. /\ Dist(rx.cbr, rx.rptr) \in Pos /\ s <= Dist(rx.cbr, rx.rptr)
      /\ Dist(rx.cbr, c) = Dist(rx.cbr, rx.rptr) - s
  <2>1. Dist(rx.cbr, rx.rptr) \in Pos
    BY <1>2, DistIs, Zenon
  <2>2. s <= Dist(rx.cbr, rx.rptr)
    BY <1>1, <1>2, <1>3 DEF Placed
  <2> QED
    BY <1>2, <2>1, <2>2, Behind
<1>5. /\ unread' = Tail(unread)
      /\ ring' = [i \in Dwords |-> IF i \in DwordsOf(f.at, f.len) THEN <<0, 0>> ELSE ring[i]]
      /\ rx' = [rx EXCEPT !.rptr = c]
      /\ driver' = [driver EXCEPT !.at = "poll", !.expects = (driver.expects + 1) % Numbers]
  BY <1>2, CaprIs, Zenon DEF WriteCapr
<1>6. /\ unread' \in Seq(Frame) /\ Len(unread') = L - 1
      /\ \A k \in 1 .. (L - 1) : k + 1 \in 1 .. L /\ unread'[k] = unread[k + 1]
  BY <1>1, <1>2, <1>5, HeadTailProperties DEF RxTypes
<1>7. c \in Pos
  BY <1>2, Zenon
<1> HIDE DEF f, s, c
<1>8. /\ rx' \in [enabled : BOOLEAN, cbr : Pos, rptr : Pos, rok : BOOLEAN]
      /\ rx'.cbr = rx.cbr /\ rx'.rptr = c
  BY <1>1, <1>5, <1>7, Zenon DEF RxTypes
<1>9. /\ driver' \in [at : {"idle", "poll", "capr"}, cur : Pos, expects : Nat, got : Nat \X Nat]
      /\ driver'.at = "poll" /\ driver'.cur = c /\ driver'.expects = (driver.expects + 1) % Numbers
  <2>1. PICK x \in Nat : x = (driver.expects + 1) % Numbers
    BY <1>2, NumberIs, Zenon
  <2>2. driver' = [driver EXCEPT !.at = "poll", !.expects = x]
    BY <1>5, <2>1, Zenon
  <2> QED
    BY <1>1, <1>2, <2>1, <2>2, Zenon DEF RxTypes
<1>10. ASSUME NEW k \in 1 .. (L - 1)
       PROVE  /\ k + 1 \in 1 .. L /\ unread'[k] = unread[k + 1]
              /\ unread[k + 1].at \in Pos /\ unread[k + 1].at % 4 = 0 /\ unread[k + 1].len \in Lengths
              /\ Size(k + 1) \in Nat /\ Size(k + 1) >= 4 /\ Off(k + 1) \in Pos
              /\ s <= Off(k + 1) /\ Off(k + 1) + Size(k + 1) <= Dist(rx.cbr, rx.rptr)
              /\ Size(k)' = Size(k + 1) /\ Off(k)' = Off(k + 1) - s
  <2>1. k + 1 \in 1 .. L /\ unread'[k] = unread[k + 1] /\ 1 < k + 1
    BY <1>2, <1>6
  <2>2. /\ unread[k + 1].at \in Pos /\ unread[k + 1].at % 4 = 0 /\ unread[k + 1].len \in Lengths
        /\ Size(k + 1) \in Nat /\ Size(k + 1) >= 4 /\ Off(k + 1) \in Pos
    BY <1>1, <2>1, Elements, Zenon
  <2>3. s <= Off(k + 1) /\ Off(k + 1) + Size(k + 1) <= Dist(rx.cbr, rx.rptr)
    <3>1. Off(1) + Size(1) <= Off(k + 1)
      BY <1>1, <1>2, <2>1, Zenon DEF Placed
    <3> QED
      BY <1>1, <1>2, <1>3, <2>1, <3>1 DEF Placed, s
  <2>4. Size(k)' = Size(k + 1)
    BY <2>1, Zenon DEF Size
  <2>5. Off(k)' = Dist(unread[k + 1].at, c)
    BY <1>8, <2>1, Zenon DEF Off
  <2>6. rx.rptr \in Pos
    BY <1>1, Zenon DEF RxTypes
  <2>7. Dist(unread[k + 1].at, c) = Off(k + 1) - s
    BY <1>2, <2>2, <2>3, <2>6, Behind DEF Off, c
  <2> QED
    BY <2>1, <2>2, <2>3, <2>4, <2>5, <2>7, Zenon
<1>11. RxTypes'
  <2>1. ring' \in [Dwords -> Nat \X Nat]
    BY <1>1, <1>5, Zenon DEF RxTypes
  <2>2. \A k \in 1 .. (L - 1) : unread'[k].at % 4 = 0
    BY <1>10, Zenon
  <2>3. rx'.cbr % 4 = 0
    BY <1>1, <1>8, Zenon DEF RxTypes
  <2> QED
    BY <1>6, <1>8, <1>9, <2>1, <2>2, <2>3, Zenon DEF RxTypes
<1>12. Placed'
  <2>1. ASSUME NEW k \in 1 .. (L - 1)
        PROVE  Off(k)' + Size(k)' <= Dist(rx'.cbr, rx'.rptr)
    <3>1. /\ Off(k)' = Off(k + 1) - s /\ Size(k)' = Size(k + 1)
          /\ Off(k + 1) + Size(k + 1) <= Dist(rx.cbr, rx.rptr)
          /\ Off(k + 1) \in Pos /\ Size(k + 1) \in Nat
      BY <1>10, Zenon
    <3>2. Dist(rx'.cbr, rx'.rptr) = Dist(rx.cbr, rx.rptr) - s
      BY <1>4, <1>8, Zenon
    <3> QED
      BY <1>2, <1>4, <3>1, <3>2, RingIs DEF Pos
  <2>2. ASSUME NEW j \in 1 .. (L - 1), NEW k \in 1 .. (L - 1), j < k
        PROVE  Off(j)' + Size(j)' <= Off(k)'
    <3>1. j + 1 \in 1 .. L /\ k + 1 \in 1 .. L /\ j + 1 < k + 1
      BY <1>10, <2>2
    <3>2. Off(j + 1) + Size(j + 1) <= Off(k + 1)
      BY <1>1, <3>1, Zenon DEF Placed
    <3>3. /\ Off(j)' = Off(j + 1) - s /\ Size(j)' = Size(j + 1) /\ Off(k)' = Off(k + 1) - s
          /\ Off(j + 1) \in Nat /\ Size(j + 1) \in Nat /\ Off(k + 1) \in Nat
      <4>1. \A a \in Pos : a \in Nat
        BY RingIs DEF Pos
      <4> QED
        BY <1>10, <4>1, Zenon
    <3> QED
      BY <1>2, <3>2, <3>3
  <2> QED
    BY <1>6, <2>1, <2>2, Zenon DEF Placed
<1>13. Numbered'
  <2>1. ASSUME NEW k \in 1 .. (L - 2)
        PROVE  unread'[k + 1].number = (unread'[k].number + 1) % Numbers
    <3>1. k \in 1 .. (L - 1) /\ k + 1 \in 1 .. (L - 1)
      BY <1>2
    <3>2. unread[(k + 1) + 1].number = (unread[k + 1].number + 1) % Numbers
      BY <1>1, <3>1, Zenon DEF Numbered
    <3> QED
      BY <1>6, <3>1, <3>2, Zenon
  <2>2. ASSUME 1 \in 1 .. (L - 1)
        PROVE  unread'[1].number = driver'.expects
    <3>1. unread[1 + 1].number = (unread[1].number + 1) % Numbers
      BY <1>1, <2>2, Zenon DEF Numbered
    <3> QED
      BY <1>2, <1>6, <1>9, <2>2, <3>1, Zenon DEF f
  <2>3. Len(unread') - 1 = L - 2 /\ (unread' # <<>> => 1 \in 1 .. (L - 1))
    BY <1>2, <1>6, EmptySeq
  <2> QED
    BY <2>1, <2>2, <2>3, Zenon DEF Numbered
<1>14. Walk' /\ Told' /\ DriverReadsAccepted'
  BY <1>8, <1>9, Zenon DEF Walk, Told, DriverReadsAccepted
<1>15. Kept'
  <2>1. ASSUME NEW k \in 1 .. (L - 1), NEW i \in DwordsOf(unread[k + 1].at, unread[k + 1].len)
        PROVE  ring'[i] = <<unread[k + 1].number, unread[k + 1].len>>
    <3>1. Dist(f.at, rx.rptr) + s <= Dist(unread[k + 1].at, rx.rptr)
      <4>1. Dist(f.at, rx.rptr) = 0
        BY <1>2, DistIs
      <4>2. s <= Dist(unread[k + 1].at, rx.rptr)
        BY <1>10, Zenon DEF Off
      <4> QED
        BY <1>2, <4>1, <4>2
    <3>2. Dist(unread[k + 1].at, rx.rptr) + Size(k + 1) < RingLen /\ rx.rptr \in Pos
      <4>1. Off(k + 1) + Size(k + 1) <= Dist(rx.cbr, rx.rptr) /\ Size(k + 1) \in Nat /\ Off(k + 1) \in Pos
        BY <1>10, Zenon
      <4> QED
        BY <1>2, <1>4, <4>1, RingIs DEF Pos, Off
    <3>3. f.at + s <= unread[k + 1].at \/ unread[k + 1].at + Size(k + 1) <= f.at
      BY <1>2, <1>10, <3>1, <3>2, Apart, Zenon
    <3>4. i \notin DwordsOf(f.at, f.len)
      <4>1. /\ f.at \in Nat /\ f.at % 4 = 0 /\ f.len \in Lengths /\ s = Total(f.len)
            /\ unread[k + 1].at \in Nat /\ unread[k + 1].at % 4 = 0 /\ unread[k + 1].len \in Lengths
            /\ Size(k + 1) = Total(unread[k + 1].len)
        <5>1. s = Total(f.len) /\ Size(k + 1) = Total(unread[k + 1].len)
          BY Zenon DEF Size, s, f
        <5>2. f.at \in Nat /\ unread[k + 1].at \in Nat
          <6>1. \A a \in Pos : a \in Nat
            BY RingIs DEF Pos
          <6>2. f.at \in Pos /\ unread[k + 1].at \in Pos
            BY <1>2, <1>10, Zenon
          <6> QED
            BY <6>1, <6>2, Zenon
        <5> QED
          BY <1>2, <1>10, <5>1, <5>2, Zenon
      <4>2. unread[k + 1].at + Total(unread[k + 1].len) <= f.at \/ f.at + Total(f.len) <= unread[k + 1].at
        BY <3>3, <4>1, Zenon
      <4> QED
        BY <2>1, <4>1, <4>2, DwordsApart, Zenon
    <3>5. i \in Dwords /\ k + 1 \in 1 .. L
      BY <1>10, DwordsIs, Zenon
    <3> QED
      BY <1>1, <1>5, <3>4, <3>5, Zenon DEF Kept
  <2> QED
    BY <1>6, <2>1 DEF Kept
<1>16. Chained'
  <2>1. ASSUME NEW k \in 1 .. (L - 1)
        PROVE  Wrap(unread'[k].at + Size(k)') = IF k = L - 1 THEN rx'.cbr ELSE unread'[k + 1].at
    <3>1. Wrap(unread[k + 1].at + Size(k + 1)) = IF k + 1 = L THEN rx.cbr ELSE unread[(k + 1) + 1].at
      BY <1>1, <1>10, Zenon DEF Chained
    <3>2. (k + 1 = L <=> k = L - 1) /\ (k # L - 1 => k + 1 \in 1 .. (L - 1))
      BY <1>2
    <3> QED
      BY <1>6, <1>8, <1>10, <3>1, <3>2, Zenon
  <2> QED
    BY <1>6, <2>1, Zenon DEF Chained
<1>17. Ends'
  <2>1. Wrap(f.at + s) = c
    BY <1>2, Zenon DEF c
  <2>2. c = IF 1 = L THEN rx.cbr ELSE unread[1 + 1].at
    BY <1>1, <1>2, <2>1, Zenon DEF Chained, f, s
  <2>3. CASE L = 1
    <3>1. unread' = <<>>
      BY <1>6, <2>3, EmptySeq
    <3> QED
      BY <1>8, <2>2, <2>3, <3>1, Zenon DEF Ends
  <2>4. CASE L # 1
    <3>1. 1 \in 1 .. (L - 1) /\ unread' # <<>>
      BY <1>2, <1>6, <2>4
    <3>2. unread'[1].at = c
      BY <1>6, <2>2, <2>4, <3>1, Zenon
    <3>3. Dist(rx.cbr, c) # 0
      BY <1>2, <1>4, <1>10, <3>1, RingIs DEF Pos
    <3>4. rx.cbr # c
      BY <1>2, <1>7, <3>3, DistIs, Zenon
    <3> QED
      BY <1>8, <3>1, <3>2, <3>4, Zenon DEF Ends
  <2> QED
    BY <2>3, <2>4, Zenon
<1> QED
  BY <1>11, <1>12, <1>13, <1>14, <1>15, <1>16, <1>17, Zenon DEF RxInv

\* The receive ring is a queue, for every ring length and every set of frame
\* lengths.
THEOREM ReceivesInOrder == NicSpec => []RingIsQueue
<1>1. NicInit => RxInv
  <2> SUFFICES ASSUME NicInit PROVE RxInv
    BY Zenon
  <2>1. 0 \in Pos /\ 0 % 4 = 0 /\ Len(unread) = 0 /\ unread = <<>>
    BY RingIs DEF Pos, NicInit
  <2>2. RxTypes
    <3>1. unread \in Seq(Frame)
      BY <2>1
    <3>2. ring \in [Dwords -> Nat \X Nat]
      BY Zenon DEF NicInit
    <3> QED
      BY <2>1, <3>1, <3>2 DEF NicInit, RxTypes
  <2> QED
    BY <2>1, <2>2 DEF NicInit, RxInv, Placed, Numbered, Walk, Kept, Chained, Ends, Told, DriverReadsAccepted
<1>2. ASSUME RxInv, [NicRx \/ NicTx \/ NicEeprom]_nicVars
      PROVE  RxInv'
  <2>1. ASSUME NEW n \in Lengths, InjectRxFrame(n, NextNumber)
        PROVE  RxInv'
    <3>1. CASE Fits(rx, n)
      BY <1>2, <2>1, <3>1, InjectKeeps, Zenon
    <3>2. CASE ~Fits(rx, n)
      BY <1>2, <2>1, <3>2, RxSame, Zenon DEF InjectRxFrame
    <3> QED
      BY <3>1, <3>2, Zenon
  <2>2. CASE EnableRx
    BY <1>2, <2>2, EnableRxKeeps, Zenon
  <2>3. CASE AckRok
    BY <1>2, <2>3, AckRokKeeps, Zenon
  <2>4. CASE ReadPacket
    BY <1>2, <2>4, ReadPacketKeeps, Zenon
  <2>5. CASE PollDone
    BY <1>2, <2>5, PollDoneKeeps, Zenon
  <2>6. CASE WriteCapr
    BY <1>2, <2>6, WriteCaprKeeps, Zenon
  <2>7. CASE NicTx
    BY <1>2, <2>7, RxSame, Zenon DEF NicTx, FillBuffer, KickTx, NicOtherStep, PopNicTx
  <2>8. CASE NicEeprom
    <3>1. UNCHANGED <<rx, ring, driver, unread>>
      BY <2>8, Zenon DEF NicEeprom, WriteCmd9346
    <3> QED
      BY <1>2, <3>1, RxSame, Zenon
  <2>9. CASE UNCHANGED nicVars
    BY <1>2, <2>9, RxSame, Zenon DEF nicVars
  <2> QED
    BY <1>2, <2>1, <2>2, <2>3, <2>4, <2>5, <2>6, <2>7, <2>8, <2>9, Zenon DEF NicRx
<1>3. RxInv => RingIsQueue
  BY RxInvImplies, Zenon
<1> QED
  BY <1>1, <1>2, <1>3, PTL DEF NicSpec

-----------------------------------------------------------------------------
(***************************************************************************)
(* The transmit queue.                                                     *)
(***************************************************************************)
Contents(t) == [k \in DOMAIN t.pending |-> t.buf[t.pending[k]]]

TxInv ==
  /\ tx \in [buf : [Descs -> 0 .. 2], pending : Seq(Descs), frames : Seq(0 .. 2)]
  /\ TransmitsAtKick

LEMMA ContentsIs ==
  ASSUME NEW b \in [Descs -> 0 .. 2], NEW p \in Seq(Descs)
  PROVE  [k \in DOMAIN p |-> b[p[k]]] \in Seq(0 .. 2)
<1>1. Len(p) \in Nat /\ DOMAIN p = 1 .. Len(p) /\ \A k \in 1 .. Len(p) : p[k] \in Descs
  BY LenProperties, ElementOfSeq, Zenon
<1> QED
  BY <1>1, IsASeq

LEMMA TailConcat ==
  ASSUME NEW f \in Seq(0 .. 2), NEW c \in Seq(0 .. 2), f # <<>>
  PROVE  Tail(f \o c) = Tail(f) \o c
<1>1. /\ f \o c \in Seq(0 .. 2) /\ Len(f \o c) = Len(f) + Len(c)
      /\ \A i \in 1 .. (Len(f) + Len(c)) : (f \o c)[i] = IF i <= Len(f) THEN f[i] ELSE c[i - Len(f)]
  BY ConcatProperties, Zenon
<1>2. Len(f) \in Nat \ {0} /\ Len(c) \in Nat
  BY EmptySeq, LenProperties, Zenon
<1>3. f \o c # <<>>
  BY <1>1, <1>2
<1>4. /\ Tail(f) \in Seq(0 .. 2) /\ Len(Tail(f)) = Len(f) - 1
      /\ \A i \in 1 .. Len(Tail(f)) : Tail(f)[i] = f[i + 1]
  BY HeadTailProperties, Zenon
<1>5. /\ Tail(f \o c) \in Seq(0 .. 2) /\ Len(Tail(f \o c)) = Len(f) + Len(c) - 1
      /\ \A i \in 1 .. (Len(f) + Len(c) - 1) : Tail(f \o c)[i] = (f \o c)[i + 1]
  BY <1>1, <1>3, HeadTailProperties
<1>6. /\ Tail(f) \o c \in Seq(0 .. 2) /\ Len(Tail(f) \o c) = Len(f) - 1 + Len(c)
      /\ \A i \in 1 .. (Len(f) - 1 + Len(c)) :
           (Tail(f) \o c)[i] = IF i <= Len(f) - 1 THEN Tail(f)[i] ELSE c[i - (Len(f) - 1)]
  BY <1>4, ConcatProperties
<1>7. \A i \in 1 .. (Len(f) + Len(c) - 1) : Tail(f \o c)[i] = (Tail(f) \o c)[i]
  BY <1>1, <1>2, <1>4, <1>5, <1>6
<1> QED
  BY <1>2, <1>5, <1>6, <1>7, SeqEqual

LEMMA LastOfIs ==
  ASSUME NEW s \in Seq(0 .. 2)
  PROVE  LastOf(s, TxCap) \in Seq(0 .. 2)
<1>1. TxCap \in Nat /\ Len(s) \in Nat
  BY NicAssumption, LenProperties, Zenon
<1> DEFINE m == IF Len(s) > TxCap THEN Len(s) - TxCap + 1 ELSE 1
<1>2. m \in 1 .. (Len(s) + 1)
  BY <1>1
<1>3. \A i \in m .. Len(s) : s[i] \in 0 .. 2
  BY <1>1, <1>2, ElementOfSeq
<1> HIDE DEF m
<1>4. SubSeq(s, m, Len(s)) \in Seq(0 .. 2)
  BY <1>1, <1>2, <1>3, SubSeqProperties
<1> QED
  BY <1>4, Zenon DEF LastOf, m

\* Serving what is pending leaves the queue with what was owed.
LEMMA Served ==
  ASSUME TxInv
  PROVE  /\ ServiceNicTx(tx).frames = DropOverrun(out) /\ ServiceNicTx(tx).pending = <<>>
         /\ ServiceNicTx(tx).buf = tx.buf /\ DropOverrun(out) \in Seq(0 .. 2)
         /\ ServiceNicTx(tx) = [buf |-> tx.buf, pending |-> <<>>, frames |-> DropOverrun(out)]
<1>1. out = tx.frames \o Contents(tx) /\ tx.frames \in Seq(0 .. 2) /\ Contents(tx) \in Seq(0 .. 2)
  BY ContentsIs, Zenon DEF TxInv, TransmitsAtKick, Contents
<1>2. out \in Seq(0 .. 2)
  BY <1>1, ConcatProperties, Zenon
<1>3. DropOverrun(out) \in Seq(0 .. 2)
  BY <1>2, LastOfIs, Zenon DEF DropOverrun
<1>4. ServiceNicTx(tx) = [tx EXCEPT !.frames = DropOverrun(out), !.pending = <<>>]
  BY <1>1, Zenon DEF ServiceNicTx, DropOverrun, Contents
<1> QED
  BY <1>3, <1>4, Zenon DEF TxInv

LEMMA TxNext ==
  ASSUME TxInv, NicTx
  PROVE  TxInv'
<1> DEFINE o == DropOverrun(out)
<1>1. o \in Seq(0 .. 2) /\ tx.buf \in [Descs -> 0 .. 2] /\ <<>> \in Seq(Descs)
  BY Served DEF TxInv
<1>2. ASSUME NEW d \in Descs, NEW v \in 0 .. 2, FillBuffer(d, v)
      PROVE  TxInv'
  <2>1. /\ tx' = [buf |-> [tx.buf EXCEPT ![d] = v], pending |-> <<>>, frames |-> o]
        /\ out' = o
    BY <1>2, Served, Zenon DEF FillBuffer
  <2>2. tx' \in [buf : [Descs -> 0 .. 2], pending : Seq(Descs), frames : Seq(0 .. 2)]
    BY <1>1, <2>1, Zenon
  <2>3. Contents(tx') = <<>> /\ o \o <<>> = o
    BY <1>1, <2>1, ConcatEmptySeq DEF Contents
  <2> QED
    BY <2>1, <2>2, <2>3, Zenon DEF TxInv, TransmitsAtKick, Contents
<1>3. ASSUME NEW d \in Descs, KickTx(d)
      PROVE  TxInv'
  <2>1. /\ tx' = [buf |-> tx.buf, pending |-> <<d>>, frames |-> o]
        /\ out' = Append(o, tx.buf[d])
    BY <1>3, Served, Zenon DEF KickTx
  <2>2. tx' \in [buf : [Descs -> 0 .. 2], pending : Seq(Descs), frames : Seq(0 .. 2)]
    BY <1>1, <2>1
  <2>3. Contents(tx') = <<tx.buf[d]>>
    BY <2>1 DEF Contents
  <2>4. Append(o, tx.buf[d]) = o \o <<tx.buf[d]>>
    BY <1>1, AppendIsConcat
  <2> QED
    BY <2>1, <2>2, <2>3, <2>4, Zenon DEF TxInv, TransmitsAtKick, Contents
<1>4. CASE NicOtherStep
  <2>1. tx' = [buf |-> tx.buf, pending |-> <<>>, frames |-> o] /\ out' = o
    BY <1>4, Served, Zenon DEF NicOtherStep
  <2>2. tx' \in [buf : [Descs -> 0 .. 2], pending : Seq(Descs), frames : Seq(0 .. 2)]
    BY <1>1, <2>1, Zenon
  <2>3. Contents(tx') = <<>> /\ o \o <<>> = o
    BY <1>1, <2>1, ConcatEmptySeq DEF Contents
  <2> QED
    BY <2>1, <2>2, <2>3, Zenon DEF TxInv, TransmitsAtKick, Contents
<1>5. CASE PopNicTx
  <2>1. /\ tx.frames \in Seq(0 .. 2) /\ tx.frames # <<>> /\ Contents(tx) \in Seq(0 .. 2)
        /\ out = tx.frames \o Contents(tx) /\ out' = Tail(out)
        /\ tx' = [buf |-> tx.buf, pending |-> tx.pending, frames |-> Tail(tx.frames)]
    BY <1>5, ContentsIs, Zenon DEF PopNicTx, TxInv, TransmitsAtKick, Contents
  <2>2. Tail(tx.frames) \in Seq(0 .. 2)
    BY <2>1, HeadTailProperties, Zenon
  <2>3. tx' \in [buf : [Descs -> 0 .. 2], pending : Seq(Descs), frames : Seq(0 .. 2)]
    BY <2>1, <2>2, Zenon DEF TxInv
  <2>4. Tail(tx.frames \o Contents(tx)) = Tail(tx.frames) \o Contents(tx)
    BY <2>1, TailConcat, Zenon
  <2>5. Contents(tx') = Contents(tx)
    BY <2>1, Zenon DEF Contents
  <2> QED
    BY <2>1, <2>3, <2>4, <2>5, Zenon DEF TxInv, TransmitsAtKick, Contents
<1> QED
  BY <1>2, <1>3, <1>4, <1>5, Zenon DEF NicTx

\* Frames leave as they were kicked, for every number of descriptors and every
\* capacity of the queue.
THEOREM SentAsKicked == NicSpec => []TransmitsAtKick
<1>1. NicInit => TxInv
  <2> SUFFICES ASSUME NicInit PROVE TxInv
    BY Zenon
  <2>1. tx = [buf |-> [d \in Descs |-> 0], pending |-> <<>>, frames |-> <<>>] /\ out = <<>>
    BY Zenon DEF NicInit
  <2>2. tx \in [buf : [Descs -> 0 .. 2], pending : Seq(Descs), frames : Seq(0 .. 2)]
    BY <2>1
  <2>3. TransmitsAtKick
    BY <2>1 DEF TransmitsAtKick
  <2> QED
    BY <2>2, <2>3, Zenon DEF TxInv
<1>2. TxInv /\ [NicRx \/ NicTx \/ NicEeprom]_nicVars => TxInv'
  <2>1. TxInv /\ (NicRx \/ NicEeprom \/ UNCHANGED nicVars) => UNCHANGED <<tx, out>>
    BY Zenon DEF NicRx, NicEeprom, nicVars, InjectRxFrame, EnableRx, AckRok, ReadPacket, PollDone, WriteCapr,
       WriteCmd9346
  <2>2. TxInv /\ UNCHANGED <<tx, out>> => TxInv'
    BY Zenon DEF TxInv, TransmitsAtKick
  <2> QED
    BY <2>1, <2>2, TxNext, Zenon
<1>3. TxInv => TransmitsAtKick
  BY Zenon DEF TxInv
<1> QED
  BY <1>1, <1>2, <1>3, PTL DEF NicSpec
=============================================================================
