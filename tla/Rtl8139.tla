------------------------------- MODULE Rtl8139 -------------------------------
(***************************************************************************)
(* The network card (crates/devices/src/rtl8139.rs) between the guest's    *)
(* driver and the host: the receive ring filled by Vm::inject_rx_frame,    *)
(* the transmit descriptors emptied by Cpu::service_nic_tx into the bus's  *)
(* queue, and the serial EEPROM.                                           *)
(*                                                                         *)
(* Offsets in the ring are bytes; the ring's memory is kept by dwords, each*)
(* holding the number of the frame it belongs to.  Frames are numbered     *)
(* modulo Numbers, more than the ring can hold.  The driver (external)     *)
(* follows 8139too: it reads packets while BUFE is clear, and writes CAPR  *)
(* 16 less than its read offset.                                           *)
(***************************************************************************)
EXTENDS Naturals, Sequences

CONSTANTS
  RingLen,    \* rx_buf_len, a multiple of 4; 8K to 64K in the code
  MinFrame,   \* ETH_MIN_FRAME
  Lengths,    \* lengths of frames the host injects
  Numbers,
  TxCap,      \* NIC_TX_CAP
  Descs,      \* transmit descriptors
  AddrBits,   \* address bits of the EEPROM: 6
  WordBits,   \* bits of its words: 16
  MaxClocks   \* bound on clock edges while it stays selected, below 256

ASSUME NicAssumption ==
  /\ RingLen \in Nat \ {0} /\ RingLen % 4 = 0 /\ RingLen > 16
  /\ {MinFrame, TxCap, AddrBits, WordBits, MaxClocks} \subseteq Nat /\ Numbers \in Nat \ {0}
  /\ Lengths \subseteq Nat /\ \E n \in Lengths : \A m \in Lengths : m <= n

VARIABLES
  rx,     \* enabled, CBR, rx_rptr, ISR.ROK
  ring,   \* guest RAM of the ring, by dwords
  driver, \* its read offset, where it stands, the frame it expects
  unread, \* history: frames accepted and not yet read, with their sizes
  tx,     \* contents of the transmit buffers, tx_pending, nic_tx_frames
  out,    \* history: contents of the frames kicked and not yet taken
  ee,     \* the EEPROM's serial state
  bits    \* history: bits clocked in since chip select rose

nicVars == <<rx, ring, driver, unread, tx, out, ee, bits>>

-----------------------------------------------------------------------------
(* Receiving.                                                              *)

\* Header, frame padded to the minimum, CRC, rounded up to a dword.
Total(n) == 4 * ((4 + (IF n > MinFrame THEN n ELSE MinFrame) + 4 + 3) \div 4)
MaxTotal == CHOOSE t \in {Total(n) : n \in Lengths} : \A n \in Lengths : Total(n) <= t

\* A packet may run past the end of the ring into the driver's slack.
Dwords == 0 .. ((RingLen + MaxTotal) \div 4 - 1)
DwordsOf(at, n) == (at \div 4) .. ((at + Total(n)) \div 4 - 1)

\* A register of 16 bits holds a multiple of every ring length.
RegMod == 4 * RingLen

Unread(r) == (r.cbr + RingLen - r.rptr) % RingLen
BufferEmpty(r) == r.cbr % RingLen = r.rptr % RingLen

FitsToTheByte(r, n) ==
  /\ r.enabled
  /\ Total(n) < RingLen
  /\ Unread(r) + Total(n) <= RingLen

Fits(r, n) ==
  /\ r.enabled
  /\ Total(n) < RingLen
  /\ Unread(r) + Total(n) < RingLen

SignalRxOk(r) == [r EXCEPT !.rok = TRUE]

\* inject_rx_frame: accept_rx and the copy to guest RAM; a frame that does
\* not fit is dropped.
InjectRxFrame(n, number) ==
  /\ IF Fits(rx, n)
     THEN /\ rx' = SignalRxOk([rx EXCEPT !.cbr = (@ + Total(n)) % RingLen])
          /\ ring' = [i \in Dwords |->
                        IF i \in DwordsOf(rx.cbr, n) THEN <<number, n>> ELSE ring[i]]
          /\ unread' = Append(unread, [number |-> number, len |-> n, at |-> rx.cbr])
     ELSE UNCHANGED <<rx, ring, unread>>
  /\ UNCHANGED <<driver, tx, out, ee, bits>>

\* The number of the next frame: one more than the last one accepted.
NextNumber ==
  IF unread = <<>> THEN driver.expects ELSE (unread[Len(unread)].number + 1) % Numbers

EnableRx ==
  /\ ~rx.enabled
  /\ rx' = [rx EXCEPT !.enabled = TRUE]
  /\ UNCHANGED <<ring, driver, unread, tx, out, ee, bits>>

\* The interrupt handler acknowledges ROK, then polls.
AckRok ==
  /\ driver.at = "idle" /\ rx.rok
  /\ rx' = [rx EXCEPT !.rok = FALSE]
  /\ driver' = [driver EXCEPT !.at = "poll"]
  /\ UNCHANGED <<ring, unread, tx, out, ee, bits>>

\* BUFE is clear: the packet at the driver's offset, whose header says how
\* long it is.
ReadPacket ==
  /\ driver.at = "poll" /\ ~BufferEmpty(rx)
  /\ LET header == ring[driver.cur \div 4]
     IN  driver' = [driver EXCEPT !.at = "capr", !.got = header,
                                  !.cur = (@ + Total(header[2])) % RingLen]
  /\ UNCHANGED <<rx, ring, unread, tx, out, ee, bits>>

PollDone ==
  /\ driver.at = "poll" /\ BufferEmpty(rx)
  /\ driver' = [driver EXCEPT !.at = "idle"]
  /\ UNCHANGED <<rx, ring, unread, tx, out, ee, bits>>

\* write_reg at CAPR: the read pointer is 16 ahead of the register.
Reload(capr) == (capr + 16) % RingLen

\* What the driver has read is forgotten, since nobody looks at it again.
WriteCapr ==
  /\ driver.at = "capr"
  /\ rx' = [rx EXCEPT !.rptr = Reload((driver.cur + RegMod - 16) % RegMod)]
  /\ driver' = [driver EXCEPT !.at = "poll", !.expects = (@ + 1) % Numbers]
  /\ unread' = Tail(unread)
  /\ ring' = [i \in Dwords |->
               IF i \in DwordsOf(Head(unread).at, Head(unread).len) THEN <<0, 0>> ELSE ring[i]]
  /\ UNCHANGED <<tx, out, ee, bits>>

-----------------------------------------------------------------------------
(* Transmitting.  Every step of the CPU but one that takes a page fault    *)
(* begins with service_nic_tx; the step that kicks a descriptor only       *)
(* records it.                                                             *)

LastOf(s, n) == SubSeq(s, IF Len(s) > n THEN Len(s) - n + 1 ELSE 1, Len(s))

ServiceLate(t) == t

\* Each recorded frame is copied from guest RAM and queued; the oldest frame
\* is dropped when the queue is full.
ServiceNicTx(t) ==
  [t EXCEPT !.frames = LastOf(@ \o [k \in DOMAIN t.pending |-> t.buf[t.pending[k]]], TxCap),
            !.pending = <<>>]
DropOverrun(o) == LastOf(o, TxCap)

\* The driver fills a buffer: every descriptor it kicked reports completion.
FillBuffer(d, v) ==
  /\ tx' = [ServiceNicTx(tx) EXCEPT !.buf[d] = v]
  /\ out' = DropOverrun(out)
  /\ UNCHANGED <<rx, ring, driver, unread, ee, bits>>

\* The write that completes TSDn with OWN clear: recorded, and reported as
\* sent at once.
KickTx(d) ==
  /\ tx' = [ServiceNicTx(tx) EXCEPT !.pending = <<d>>]
  /\ out' = Append(DropOverrun(out), tx.buf[d])
  /\ UNCHANGED <<rx, ring, driver, unread, ee, bits>>

NicOtherStep ==
  /\ tx' = ServiceNicTx(tx)
  /\ out' = DropOverrun(out)
  /\ UNCHANGED <<rx, ring, driver, unread, ee, bits>>

\* pop_nic_tx, by the host between two steps.
PopNicTx ==
  /\ tx.frames # <<>>
  /\ tx' = [tx EXCEPT !.frames = Tail(@)]
  /\ out' = Tail(out)
  /\ UNCHANGED <<rx, ring, driver, unread, ee, bits>>

-----------------------------------------------------------------------------
(* The 93C46.  Word a of the model's EEPROM has the bits BitOf(a, 1..).    *)

CmdBits == 2 + AddrBits
BitOf(a, k) == IF k > WordBits THEN 0 ELSE ((a + 1) \div 2^(WordBits - k)) % 2

\* A rising edge after the start bit: the command is collected, then the word
\* of a READ shifted out; other opcodes do nothing.
CommandEdge(e, di) ==
  IF e.reading
  THEN [e EXCEPT !.dobit = BitOf(e.addr, e.shifted + 1), !.shifted = @ + 1]
  ELSE LET cmd == (2 * e.cmd + di) % 2^16
           complete == e.count + 1 = CmdBits
       IN  [e EXCEPT !.cmd = cmd, !.count = @ + 1,
                     !.reading = complete /\ (cmd \div 2^AddrBits) % 4 = 2,
                     !.addr = IF complete THEN cmd % 2^AddrBits ELSE @,
                     !.shifted = 0]

RisingEdgeSkewed(e, di) ==
  IF e.waiting
  THEN IF di = 1 THEN [e EXCEPT !.waiting = FALSE, !.cmd = 1, !.count = 1] ELSE e
  ELSE CommandEdge(e, di)

RisingEdge(e, di) ==
  IF e.waiting
  THEN IF di = 1 THEN [e EXCEPT !.waiting = FALSE, !.cmd = 0, !.count = 0] ELSE e
  ELSE CommandEdge(e, di)

\* eeprom_clock; the count is of 8 bits and stays below 256.
EepromClock(e, cs, sk, di) ==
  IF ~cs THEN [e EXCEPT !.cs = FALSE, !.waiting = TRUE, !.reading = FALSE,
                        !.count = 0, !.prev_sk = sk]
  ELSE LET sel == IF e.cs THEN e
                  ELSE [e EXCEPT !.cs = TRUE, !.waiting = TRUE,
                                 !.reading = FALSE, !.cmd = 0, !.count = 0]
           clk == IF sk /\ ~e.prev_sk THEN RisingEdge(sel, di) ELSE sel
       IN  [clk EXCEPT !.prev_sk = sk]

\* The guest writes Cmd9346; bits collects what it clocked in.
WriteCmd9346(cs, sk, di) ==
  LET edge  == cs /\ sk /\ ~ee.prev_sk
      since == IF cs /\ ee.cs THEN bits ELSE <<>>
  IN  /\ edge => Len(since) < MaxClocks
      /\ ee' = EepromClock(ee, cs, sk, di)
      /\ bits' = IF edge THEN Append(since, di) ELSE since
      /\ UNCHANGED <<rx, ring, driver, unread, tx, out>>

-----------------------------------------------------------------------------
NicInit ==
  /\ rx = [enabled |-> FALSE, cbr |-> 0, rptr |-> 0, rok |-> FALSE]
  /\ ring = [i \in Dwords |-> <<0, 0>>]
  /\ driver = [at |-> "idle", cur |-> 0, expects |-> 0, got |-> <<0, 0>>]
  /\ unread = <<>>
  /\ tx = [buf |-> [d \in Descs |-> 0], pending |-> <<>>, frames |-> <<>>]
  /\ out = <<>>
  /\ ee = [cs |-> FALSE, waiting |-> TRUE, reading |-> FALSE, prev_sk |-> FALSE,
            cmd |-> 0, count |-> 0, addr |-> 0, shifted |-> 0, dobit |-> 0]
  /\ bits = <<>>

NicRx ==
  \/ \E n \in Lengths : InjectRxFrame(n, NextNumber)
  \/ EnableRx
  \/ AckRok
  \/ ReadPacket
  \/ PollDone
  \/ WriteCapr

NicTx ==
  \/ \E d \in Descs : (\E v \in 0..2 : FillBuffer(d, v)) \/ KickTx(d)
  \/ NicOtherStep
  \/ PopNicTx

NicEeprom == \E cs, sk \in BOOLEAN, di \in 0..1 : WriteCmd9346(cs, sk, di)

NicSpec == NicInit /\ [][NicRx \/ NicTx \/ NicEeprom]_nicVars

-----------------------------------------------------------------------------
(***************************************************************************)
(* Properties                                                              *)
(***************************************************************************)
\* Ring pointers stay inside the ring, queues below their caps.
NicTypeOK ==
  /\ rx \in [enabled : BOOLEAN, cbr : 0..(RingLen - 1), rptr : 0..(RingLen - 1),
             rok : BOOLEAN]
  /\ driver.at \in {"idle", "poll", "capr"} /\ driver.cur \in 0..(RingLen - 1)
  /\ tx.buf \in [Descs -> 0..2] /\ Len(tx.pending) <= 1 /\ Len(tx.frames) <= TxCap
  /\ ee.count \in 0..255 /\ ee.dobit \in 0..1

RingKeepsUnread ==
  /\ \A k \in DOMAIN unread :
       /\ \A i \in DwordsOf(unread[k].at, unread[k].len) :
            ring[i] = <<unread[k].number, unread[k].len>>
       /\ (unread[k].at + Total(unread[k].len)) % RingLen
            = IF k = Len(unread) THEN rx.cbr ELSE unread[k + 1].at
  /\ unread # <<>> => rx.rptr = Head(unread).at
  /\ BufferEmpty(rx) <=> unread = <<>>

DriverReadsAccepted ==
  driver.at = "capr" => /\ unread # <<>>
                        /\ driver.got = <<driver.expects, Head(unread).len>>
                        /\ Head(unread).number = driver.expects

\* The ring is a queue.  accept_rx never overwrites a packet the driver has not
\* read, whatever the ring's fill and wherever a packet spills into the slack,
\* and BUFE is set only when there is none.  The driver's walk, by the length
\* in the header and with CAPR 16 behind, yields exactly the accepted frames in
\* order.  A frame accepted while the driver leaves its poll loop is announced.
RingIsQueue ==
  /\ RingKeepsUnread
  /\ DriverReadsAccepted
  /\ unread # <<>> => rx.rok \/ driver.at # "idle"

\* Completion is reported before the frame is copied, yet each frame leaves
\* with what its buffer held when it was kicked, in the order of the kicks,
\* the oldest missing when the queue overran.
TransmitsAtKick ==
  out = tx.frames \o [k \in DOMAIN tx.pending |-> tx.buf[tx.pending[k]]]

\* Whatever was clocked before, the bits that follow the start bit, opcode 10
\* and an address are those of the word at that address, most significant
\* first, and nothing is shifted out after another opcode.
EepromReads ==
  \A start \in DOMAIN bits :
    LET cmd == SubSeq(bits, start + 1, start + CmdBits)
        k   == Len(bits) - start - CmdBits
        addr[i \in 0 .. AddrBits] == IF i = 0 THEN 0 ELSE 2 * addr[i - 1] + cmd[2 + i]
    IN  bits[start] = 1 /\ k >= 0 /\ (\A i \in 1 .. (start - 1) : bits[i] = 0) =>
          /\ ee.reading <=> cmd[1] = 1 /\ cmd[2] = 0
          /\ k > 0 /\ ee.reading => ee.dobit = BitOf(addr[AddrBits], k)
=============================================================================
