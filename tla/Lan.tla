-------------------------------- MODULE Lan --------------------------------
(***************************************************************************)
(* The LAN lab: several guests in one page, joined by a learning switch.   *)
(* The page (web/lan.js) owns the worker slots and the switch              *)
(* (web/l2-switch.js, the twin of crates/net/src/switch.rs); every slot    *)
(* runs web/vm-worker.js, which drains its guest's NIC, gives the gateway  *)
(* its frames and posts the others to the page.  Page and workers talk     *)
(* through message queues that are FIFO and are emptied by terminate().    *)
(*                                                                         *)
(* Slot i has MAC i.  A frame is what the switch and the order properties  *)
(* tell apart: who sent it, to which address, and its global number.       *)
(***************************************************************************)
EXTENDS Naturals, Sequences, FiniteSets, SequencesExt

CONSTANTS MaxSlots,   \* 8 in addOneVm
          StartCount, \* the number of VMs one startLan asks for
          TableCap,   \* the switch's table bound, 1024 in the code
          RingCap,    \* frames the guest's receive ring holds
          MaxFrames,  \* bound: frames sent in a behaviour
          MaxBoots    \* bound: workers created in a behaviour

VARIABLES lan_slots,  \* workers[]: "none" (stopped), "boot", "up"
          lan_mode,   \* meta[i].net.mode
          lan_cfg,    \* lanCfg: "none", or the mode new slots get
          lan_fetch,  \* startLan calls awaiting their images
          lan_table,  \* L2Switch.table: MAC -> port, 0 when not learned
          lan_tx,     \* frames the guest's NIC has sent, not yet drained
          lan_out,    \* worker -> page messages: batches of frames
          lan_in,     \* page -> worker messages: frames (after "boot")
          lan_egress, \* the NAT's replies not yet injected
          lan_ring,   \* the guest's receive ring
          lan_seen,   \* history: number of the last frame read, per receiver and sender
          lan_owed,   \* history: requests the NAT answered, reply not yet read by the guest
          lan_clock,  \* history: frames sent
          lan_boots   \* history: workers created

lanVars == <<lan_slots, lan_mode, lan_cfg, lan_fetch, lan_table, lan_tx, lan_out,
             lan_in, lan_egress, lan_ring, lan_seen, lan_owed, lan_clock,
             lan_boots>>

lanPage  == <<lan_slots, lan_mode, lan_cfg, lan_fetch, lan_boots>>
lanNic   == <<lan_tx, lan_ring, lan_egress, lan_seen, lan_owed, lan_clock>>

LanPorts == 1 .. MaxSlots
Gateway  == 0
\* Group addresses: a broadcast to the peers, and one asking for the gateway (ARP).
Everyone   == MaxSlots + 1
WhoGateway == MaxSlots + 2
Group      == {Everyone, WhoGateway}
LanFrame == [src : LanPorts \cup {Gateway},
             dst : LanPorts \cup {Gateway} \cup Group, num : 1 .. MaxFrames]

LanLive(i) == i <= Len(lan_slots) /\ lan_slots[i] # "none"

LanTypeOK ==
  /\ lan_slots \in UNION {[1 .. n -> {"none", "boot", "up"}] : n \in 0 .. MaxSlots}
  /\ lan_mode \in [LanPorts -> {"switch", "lan+nat"}]
  /\ lan_cfg \in {"none", "switch", "lan+nat"}
  /\ lan_fetch \in Nat /\ lan_clock \in 0 .. MaxFrames /\ lan_boots \in 0 .. MaxBoots
  /\ lan_table \in [LanPorts -> LanPorts \cup {0}]
  /\ \A i \in LanPorts :
       /\ lan_tx[i] \in Seq(LanFrame) /\ lan_egress[i] \in Seq(LanFrame)
       /\ lan_in[i] \in Seq(LanFrame)
       /\ lan_ring[i] \in Seq(LanFrame) /\ Len(lan_ring[i]) <= RingCap
       /\ lan_seen[i] \in [LanPorts -> 0 .. MaxFrames] /\ lan_owed[i] \in Seq(1 .. MaxFrames)

NoFrames == [i \in LanPorts |-> << >>]

LanInit ==
  /\ lan_slots = << >> /\ lan_cfg = "none" /\ lan_fetch = 0
  /\ lan_mode = [i \in LanPorts |-> "switch"]
  /\ lan_table = [i \in LanPorts |-> 0]
  /\ lan_tx = NoFrames /\ lan_out = NoFrames /\ lan_in = NoFrames
  /\ lan_egress = NoFrames /\ lan_ring = NoFrames
  /\ lan_seen = [i \in LanPorts |-> [s \in LanPorts |-> 0]] /\ lan_owed = NoFrames
  /\ lan_clock = 0 /\ lan_boots = 0

-----------------------------------------------------------------------------
(* The switch.                                                             *)

Learned(table) == {m \in LanPorts : table[m] # 0}

\* route(): learn the source while there is room, refresh it when it is known.
Learn(table, src, port) ==
  IF table[src] # 0 \/ Cardinality(Learned(table)) < TableCap
  THEN [table EXCEPT ![src] = port] ELSE table

\* Mutant: the last port is left out of the ports the switch knows of.
EgressShort(table, port, dst, ports) ==
  LET known == IF dst \in LanPorts THEN table[dst] ELSE 0
  IN  IF known = 0 THEN (1 .. ports - 1) \ {port}
      ELSE (1 .. ports - 1) \cap ({known} \ {port})

\* egress(): nobody on the ingress port, one known port, or everybody else.
Egress(table, port, dst, ports) ==
  LET known == IF dst \in LanPorts THEN table[dst] ELSE 0
  IN  IF known = 0 THEN (1 .. ports) \ {port}
      ELSE (1 .. ports) \cap ({known} \ {port})

ForgetPort(table, port) == [m \in LanPorts |-> IF table[m] = port THEN 0 ELSE table[m]]

-----------------------------------------------------------------------------
(* The page.                                                               *)

\* What a new or a terminated worker leaves of slot i's queues.
Blank(i) ==
  /\ lan_tx' = [lan_tx EXCEPT ![i] = << >>] /\ lan_out' = [lan_out EXCEPT ![i] = << >>]
  /\ lan_in' = [lan_in EXCEPT ![i] = << >>] /\ lan_ring' = [lan_ring EXCEPT ![i] = << >>]
  /\ lan_egress' = [lan_egress EXCEPT ![i] = << >>]
  /\ lan_owed' = [lan_owed EXCEPT ![i] = << >>]

\* stopLan(): terminate every worker, forget the slots and the switch.
DropAll ==
  /\ lan_slots' = << >> /\ lan_cfg' = "none" /\ lan_mode' = [i \in LanPorts |-> "switch"]
  /\ lan_table' = [m \in LanPorts |-> 0]
  /\ lan_tx' = NoFrames /\ lan_out' = NoFrames /\ lan_in' = NoFrames
  /\ lan_egress' = NoFrames /\ lan_ring' = NoFrames /\ lan_owed' = NoFrames

StopLan ==
  /\ DropAll
  /\ UNCHANGED <<lan_fetch, lan_seen, lan_clock, lan_boots>>

\* startLan() up to its await.
StartLan ==
  /\ lan_boots + lan_fetch * StartCount + StartCount <= MaxBoots
  /\ DropAll /\ lan_fetch' = lan_fetch + 1
  /\ UNCHANGED <<lan_seen, lan_clock, lan_boots>>

StartFails ==
  /\ lan_fetch > 0 /\ lan_fetch' = lan_fetch - 1
  /\ UNCHANGED <<lan_slots, lan_mode, lan_cfg, lan_table, lan_out, lan_in, lanNic, lan_boots>>

\* addOneVm(), k times: fresh slots behind the ones there are, up to MaxSlots.
AddSlots(k, cfg) ==
  LET n    == Len(lan_slots)
      last == IF n + k < MaxSlots THEN n + k ELSE MaxSlots
  IN  /\ lan_slots' = lan_slots \o [i \in 1 .. last - n |-> "boot"]
      /\ lan_mode' = [i \in LanPorts |-> IF i \in n + 1 .. last THEN cfg ELSE lan_mode[i]]
      /\ lan_boots' = lan_boots + (last - n)
      /\ UNCHANGED <<lan_table, lan_out, lan_in, lanNic>>

\* startLan() after its await; nothing looks whether the page moved on meanwhile.
LanUp ==
  /\ lan_fetch > 0 /\ lan_fetch' = lan_fetch - 1
  /\ \E cfg \in {"switch", "lan+nat"} : lan_cfg' = cfg /\ AddSlots(StartCount, cfg)

AddOneVm ==
  /\ lan_cfg # "none" /\ Len(lan_slots) < MaxSlots
  /\ lan_boots + lan_fetch * StartCount < MaxBoots
  /\ AddSlots(1, lan_cfg)
  /\ UNCHANGED <<lan_cfg, lan_fetch>>

StopVm(i) ==
  /\ LanLive(i)
  /\ lan_slots' = [lan_slots EXCEPT ![i] = "none"]
  /\ lan_table' = ForgetPort(lan_table, i)
  /\ Blank(i)
  /\ UNCHANGED <<lan_mode, lan_cfg, lan_fetch, lan_seen, lan_clock, lan_boots>>

\* startVm() on a stopped slot, restartVm() on any.
BootVm(i) ==
  /\ i <= Len(lan_slots) /\ lan_cfg # "none"
  /\ lan_boots + lan_fetch * StartCount < MaxBoots
  /\ lan_slots' = [lan_slots EXCEPT ![i] = "boot"] /\ lan_boots' = lan_boots + 1
  /\ lan_table' = IF LanLive(i) THEN ForgetPort(lan_table, i) ELSE lan_table
  /\ Blank(i)
  /\ UNCHANGED <<lan_mode, lan_cfg, lan_fetch, lan_seen, lan_clock>>

\* relayTx(): one worker's batch, frame by frame through the switch.
Relayed(table, port, batch) ==
  FoldLeft(LAMBDA acc, f :
             LET known == Learn(acc.table, f.src, port)
             IN  [table |-> known,
                  in |-> [j \in LanPorts |->
                            IF j \in Egress(known, port, f.dst, Len(lan_slots)) /\ LanLive(j)
                            THEN Append(acc.in[j], f) ELSE acc.in[j]]],
           [table |-> table, in |-> lan_in], batch)

RelayTx(i) ==
  /\ LanLive(i) /\ lan_out[i] # << >>
  /\ LET done == Relayed(lan_table, i, Head(lan_out[i]))
     IN  lan_table' = done.table /\ lan_in' = done.in
  /\ lan_out' = [lan_out EXCEPT ![i] = Tail(@)]
  /\ UNCHANGED <<lanPage, lanNic>>

-----------------------------------------------------------------------------
(* A worker and its guest.  A guest whose loop ended on an error is one     *)
(* that takes no more steps.                                               *)

\* The "boot" message is handled; the frames behind it come after.
Boot(i) ==
  /\ LanLive(i) /\ lan_slots[i] = "boot"
  /\ lan_slots' = [lan_slots EXCEPT ![i] = "up"]
  /\ UNCHANGED <<lan_mode, lan_cfg, lan_fetch, lan_table, lan_out, lan_in, lanNic, lan_boots>>

GuestSend(i, dst) ==
  /\ LanLive(i) /\ lan_slots[i] = "up" /\ lan_clock < MaxFrames /\ dst # i
  /\ lan_clock' = lan_clock + 1
  /\ lan_tx' = [lan_tx EXCEPT ![i] = Append(@, [src |-> i, dst |-> dst, num |-> lan_clock + 1])]
  /\ UNCHANGED <<lanPage, lan_table, lan_out, lan_in, lan_egress, lan_ring, lan_seen, lan_owed>>

GuestReceive(i) ==
  /\ LanLive(i) /\ lan_slots[i] = "up" /\ lan_ring[i] # << >>
  /\ LET f == Head(lan_ring[i])
     IN  IF f.src = Gateway
         THEN lan_owed' = [lan_owed EXCEPT ![i] = Tail(@)] /\ UNCHANGED lan_seen
         ELSE lan_seen' = [lan_seen EXCEPT ![i][f.src] = f.num] /\ UNCHANGED lan_owed
  /\ lan_ring' = [lan_ring EXCEPT ![i] = Tail(@)]
  /\ UNCHANGED <<lanPage, lan_table, lan_out, lan_in, lan_tx, lan_egress, lan_clock>>

\* "rx": a frame the ring has no room for is dropped.
HandleRx(i) ==
  /\ LanLive(i) /\ lan_slots[i] # "boot" /\ lan_in[i] # << >>
  /\ lan_in' = [lan_in EXCEPT ![i] = Tail(@)]
  /\ lan_ring' = IF Len(lan_ring[i]) < RingCap
                 THEN [lan_ring EXCEPT ![i] = Append(@, Head(lan_in[i]))] ELSE lan_ring
  /\ UNCHANGED <<lanPage, lan_table, lan_out, lan_tx, lan_egress, lan_seen, lan_owed, lan_clock>>

\* classifyFrame(): which frames the NAT gets and which the switch.
ForNat(f)    == f.dst \in Group \cup {Gateway}
ForSwitch(f) == f.dst # Gateway

\* The NAT owns the gateway's address only, and answers what is sent to it.
NatReply(i, f) == [src |-> Gateway, dst |-> i, num |-> f.num]
NatReplies(i, frames) ==
  LET asked == SelectSeq(frames, LAMBDA f : f.dst \in {Gateway, WhoGateway})
  IN  [k \in 1 .. Len(asked) |-> NatReply(i, asked[k])]

\* The numbers of the frames that s sent.
Numbers(frames, s) ==
  LET own == SelectSeq(frames, LAMBDA f : f.src = s)
  IN  [k \in 1 .. Len(own) |-> own[k].num]

\* Mutant: a reply the ring refuses is lost.
InjectedLossy(ring, egress) ==
  LET room == RingCap - Len(ring)
      n    == IF Len(egress) < room THEN Len(egress) ELSE room
  IN  [ring |-> ring \o SubSeq(egress, 1, n), egress |-> SubSeq(egress, n + 2, Len(egress))]

\* Replies go into the ring while it has room; the first that does not fit is
\* put back in front of the others.
Injected(ring, egress) ==
  LET room == RingCap - Len(ring)
      n    == IF Len(egress) < room THEN Len(egress) ELSE room
  IN  [ring |-> ring \o SubSeq(egress, 1, n), egress |-> SubSeq(egress, n + 1, Len(egress))]

\* pumpHybrid() and pumpSwitch(): one turn of the worker's loop.
Pump(i) ==
  /\ LanLive(i) /\ lan_slots[i] = "up"
  /\ LET nat   == lan_mode[i] = "lan+nat"
         out   == IF nat THEN SelectSeq(lan_tx[i], ForSwitch) ELSE lan_tx[i]
         reply == IF nat THEN NatReplies(i, SelectSeq(lan_tx[i], ForNat)) ELSE << >>
         done  == Injected(lan_ring[i], lan_egress[i] \o reply)
     IN  /\ lan_out' = IF out = << >> THEN lan_out ELSE [lan_out EXCEPT ![i] = Append(@, out)]
         /\ lan_ring' = [lan_ring EXCEPT ![i] = done.ring]
         /\ lan_egress' = [lan_egress EXCEPT ![i] = done.egress]
         /\ lan_owed' = [lan_owed EXCEPT ![i] = @ \o Numbers(reply, Gateway)]
  /\ lan_tx' = [lan_tx EXCEPT ![i] = << >>]
  /\ UNCHANGED <<lanPage, lan_table, lan_in, lan_seen, lan_clock>>

LanNext ==
  \/ StopLan \/ StartLan \/ StartFails \/ LanUp \/ AddOneVm
  \/ \E i \in LanPorts :
       \/ StopVm(i) \/ BootVm(i) \/ RelayTx(i) \/ Boot(i)
       \/ GuestReceive(i) \/ HandleRx(i) \/ Pump(i)
       \/ \E dst \in LanPorts \cup {Gateway} \cup Group : GuestSend(i, dst)

LanSpec == LanInit /\ [][LanNext]_lanVars

-----------------------------------------------------------------------------
(* Frames of one sender reach a guest in the order they were sent and never  *)
(* twice, whatever is stopped, restarted, flooded or dropped on the way:     *)
(* along the path sender NIC, worker message, hub, worker message, receive   *)
(* ring (pumpSwitch, relayTx, "rx").  On the NAT's own path nothing is lost  *)
(* either, although peers' frames compete for the same ring: a reply it      *)
(* refuses is put back in front (net_push_egress_front).                     *)
InOrder(nums) == \A a, b \in 1 .. Len(nums) : a < b => nums[a] < nums[b]

FramesInOrder ==
  \A j \in LanPorts :
    /\ \A s \in LanPorts :
         InOrder(<<lan_seen[j][s]>> \o
                 Numbers(lan_ring[j] \o lan_in[j] \o FlattenSeq(lan_out[s]) \o lan_tx[s], s))
    /\ Numbers(lan_ring[j] \o lan_egress[j], Gateway) = lan_owed[j]

(* The switch never blackholes a running peer: when the page relays a batch, *)
(* every frame for a live slot's MAC, and every broadcast, is posted to that *)
(* slot's worker, though slots were stopped, restarted and added since the   *)
(* switch learned what it knows and its table may be full; a sender never    *)
(* hears itself (relayTx over L2Switch.egress).                              *)
HubDelivers ==
  [][\A i \in LanPorts :
       LanLive(i) /\ lan_out[i] # << >> /\ lan_slots' = lan_slots
         /\ lan_out'[i] = Tail(lan_out[i]) =>
       \A k \in 1 .. Len(lan_out[i][1]) : \A j \in LanPorts :
         LET f == lan_out[i][1][k]
         IN  /\ LanLive(j) /\ j # i /\ f.dst \in Group \cup {j} => Contains(lan_in'[j], f)
             /\ ~Contains(lan_in'[i], f)]_lanVars

=============================================================================
