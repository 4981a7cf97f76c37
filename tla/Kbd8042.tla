------------------------------- MODULE Kbd8042 -------------------------------
(***************************************************************************)
(* The keyboard and mouse controller (crates/devices/src/keyboard.rs): two *)
(* devices behind one data port.  Replies and mouse packets wait in out,   *)
(* tagged with their device; scan codes wait behind them in queue.  A byte *)
(* written to the data port goes to the controller, the keyboard or the    *)
(* mouse, depending on the commands before it.                             *)
(***************************************************************************)
EXTENDS Naturals, Sequences, FiniteSets

CONSTANTS
  MaxOut,     \* bound on the replies and mouse bytes that wait
  MaxCodes    \* bound on the scan codes that wait

ASSUME KbdAssumption == {MaxOut, MaxCodes} \subseteq Nat

VARIABLES
  kbd,    \* out, queue (its length), ccb, kbd_enabled, aux_enabled, pending,
          \* kbd_arg, mouse_arg, reporting
  owed    \* history: where the guest means its next data byte to go, and for
          \* each device the bytes sent to it whose acknowledgement is unread

kbdVars == <<kbd, owed>>

\* The bits of the config byte that matter: interrupt enables and clock
\* disables of the two ports.
CcbBits == {"kbd_int", "aux_int", "kbd_clk_dis", "aux_clk_dis"}

Waiting == [aux : BOOLEAN, ack : BOOLEAN]

\* reply_kbd and reply_aux: an answer of n bytes, the first one the
\* acknowledgement (or the echo).
Reply(k, aux, n) ==
  [k EXCEPT !.out = @ \o [i \in 1..n |-> [aux |-> aux, ack |-> i = 1]]]

\* A byte that acknowledges nothing.
Datum(k, aux) == [k EXCEPT !.out = Append(@, [aux |-> aux, ack |-> FALSE])]

HeadIsAux(k) == k.out # <<>> /\ Head(k.out).aux
HeadIsKbd(k) == IF k.out # <<>> THEN ~Head(k.out).aux ELSE k.queue > 0
Irq1(k) == HeadIsKbd(k) /\ k.kbd_enabled /\ "kbd_int" \in k.ccb
Irq12(k) == HeadIsAux(k) /\ k.aux_enabled /\ "aux_int" \in k.ccb
Obf(k) == k.out # <<>> \/ k.queue > 0

-----------------------------------------------------------------------------
(* Commands written to port 0x64.                                          *)

EnablePortOnly(k, port, on) ==
  [k EXCEPT ![IF port = "aux" THEN "aux_enabled" ELSE "kbd_enabled"] = on]

\* 0xA7, 0xA8, 0xAD, 0xAE: the flag and its copy in the config byte.
EnablePort(k, port, on) ==
  LET bit == IF port = "aux" THEN "aux_clk_dis" ELSE "kbd_clk_dis"
  IN  [k EXCEPT ![IF port = "aux" THEN "aux_enabled" ELSE "kbd_enabled"] = on,
                !.ccb = IF on THEN @ \ {bit} ELSE @ \cup {bit}]

\* 0x20, 0xAA, 0xAB, 0xA9, 0xC0 and 0xD0 answer with one byte.
ControllerCommand ==
  \/ /\ kbd' = Datum(kbd, FALSE) /\ UNCHANGED owed
  \/ \E port \in {"kbd", "aux"}, on \in BOOLEAN :
       kbd' = EnablePort(kbd, port, on) /\ UNCHANGED owed
  \/ \E p \in {"WriteCcb", "WriteAux", "WriteKbdOut", "WriteAuxOut"} :
       /\ kbd' = [kbd EXCEPT !.pending = p]
       /\ owed' = [owed EXCEPT !.next = IF p = "WriteAux" THEN "aux" ELSE "ctrl"]

-----------------------------------------------------------------------------
(* Bytes written to port 0x60.                                             *)

Commands == {"reset", "identify", "status", "rate", "scanset", "enable", "disable", "plain"}

\* keyboard_command: a parameter, or a command with one to follow, with further
\* bytes in its answer, or a plain one.  A parameter of 0 to set-scan-code-set
\* (the byte of "status") asks for the current set.
KeyboardCommand(k, cmd) ==
  IF k.kbd_arg # "None"
  THEN Reply([k EXCEPT !.kbd_arg = "None"], FALSE,
             IF k.kbd_arg = "scanset" /\ cmd = "status" THEN 2 ELSE 1)
  ELSE CASE cmd = "reset" -> Reply(k, FALSE, 2)
         [] cmd = "identify" -> Reply(k, FALSE, 3)
         [] cmd \in {"rate", "scanset"} -> Reply([k EXCEPT !.kbd_arg = cmd], FALSE, 1)
         [] OTHER -> Reply(k, FALSE, 1)

\* mouse_command; "status" stands for the two requests answered by four bytes.
MouseCommand(k, cmd) ==
  IF k.mouse_arg THEN Reply([k EXCEPT !.mouse_arg = FALSE], TRUE, 1)
  ELSE CASE cmd = "reset" -> Reply([k EXCEPT !.reporting = FALSE], TRUE, 3)
         [] cmd = "identify" -> Reply(k, TRUE, 2)
         [] cmd = "rate" -> Reply([k EXCEPT !.mouse_arg = TRUE], TRUE, 1)
         [] cmd = "status" -> Reply(k, TRUE, 4)
         [] cmd = "enable" -> Reply([k EXCEPT !.reporting = TRUE], TRUE, 1)
         [] cmd = "disable" -> Reply([k EXCEPT !.reporting = FALSE], TRUE, 1)
         [] OTHER -> Reply(k, TRUE, 1)

WriteCcb(k, ccb) ==
  [k EXCEPT !.ccb = ccb, !.kbd_enabled = "kbd_clk_dis" \notin ccb,
            !.aux_enabled = "aux_clk_dis" \notin ccb]

\* What is left pending once the awaited byte has come.
StillPending(k) == k
NoMorePending(k) == [k EXCEPT !.pending = "None"]

DataWrite(cmd, ccb) ==
  LET k == NoMorePending(kbd) IN
  /\ kbd' = CASE kbd.pending = "WriteCcb" -> WriteCcb(k, ccb)
              [] kbd.pending = "WriteAux" -> MouseCommand(k, cmd)
              [] kbd.pending = "WriteKbdOut" -> Datum(k, FALSE)
              [] kbd.pending = "WriteAuxOut" -> Datum(k, TRUE)
              [] kbd.pending = "None" -> KeyboardCommand(k, cmd)
  /\ owed' = [next |-> "kbd",
              kbd |-> IF owed.next = "kbd" THEN owed.kbd + 1 ELSE owed.kbd,
              aux |-> IF owed.next = "aux" THEN owed.aux + 1 ELSE owed.aux]

\* A read of port 0x60: out first, then the scan codes.
DataRead ==
  IF kbd.out # <<>>
  THEN LET b == Head(kbd.out) IN
       /\ kbd' = [kbd EXCEPT !.out = Tail(@)]
       /\ owed' = IF ~b.ack THEN owed
                  ELSE IF b.aux THEN [owed EXCEPT !.aux = @ - 1]
                  ELSE [owed EXCEPT !.kbd = @ - 1]
  ELSE /\ kbd.queue > 0
       /\ kbd' = [kbd EXCEPT !.queue = @ - 1]
       /\ UNCHANGED owed

-----------------------------------------------------------------------------
(* The host.                                                               *)

PushScancode ==
  /\ kbd.queue < MaxCodes
  /\ kbd' = [kbd EXCEPT !.queue = @ + 1]
  /\ UNCHANGED owed

\* A packet of three bytes, dropped while the mouse does not report.
PushMousePacket ==
  /\ kbd.reporting
  /\ kbd' = Datum(Datum(Datum(kbd, TRUE), TRUE), TRUE)
  /\ UNCHANGED owed

\* pop_scancode, by the BIOS keyboard service.
PopScancode ==
  /\ kbd.queue > 0
  /\ kbd' = [kbd EXCEPT !.queue = @ - 1]
  /\ UNCHANGED owed

-----------------------------------------------------------------------------
KbdInit ==
  /\ kbd = [out |-> <<>>, queue |-> 0, ccb |-> {"kbd_int", "aux_clk_dis"},
            kbd_enabled |-> TRUE, aux_enabled |-> FALSE, pending |-> "None",
            kbd_arg |-> "None", mouse_arg |-> FALSE, reporting |-> FALSE]
  /\ owed = [next |-> "kbd", kbd |-> 0, aux |-> 0]

KbdNext ==
  \/ DataRead
  \/ PushScancode
  \/ PopScancode
  \/ /\ Len(kbd.out) < MaxOut
     /\ \/ ControllerCommand
        \/ \E cmd \in Commands, ccb \in SUBSET CcbBits : DataWrite(cmd, ccb)
        \/ PushMousePacket

KbdSpec == KbdInit /\ [][KbdNext]_kbdVars

-----------------------------------------------------------------------------
(***************************************************************************)
(* Properties                                                              *)
(***************************************************************************)
\* The controller waits for one of five things; its queues are bounded by the guest.
KbdTypeOK ==
  /\ kbd.ccb \subseteq CcbBits /\ kbd.queue \in 0 .. MaxCodes
  /\ kbd.out \in Seq(Waiting) /\ Len(kbd.out) < MaxOut + 4
  /\ kbd.pending \in {"None", "WriteCcb", "WriteAux", "WriteKbdOut", "WriteAuxOut"}

\* An interrupt-driven guest is never left with a byte it is not told of: when
\* the config byte it reads back has both clocks and both interrupts on, by
\* whichever commands they were turned on, a byte waits exactly when one line
\* is asserted, and it is the line of the device the status byte names.
WaitingByteSignalled ==
  kbd.ccb = {"kbd_int", "aux_int"} =>
    /\ Obf(kbd) <=> Irq1(kbd) \/ Irq12(kbd)
    /\ Irq12(kbd) <=> HeadIsAux(kbd)
    /\ ~(Irq1(kbd) /\ Irq12(kbd))

\* Where the acknowledgements of a device wait.
Acks(out, aux) == {i \in DOMAIN out : out[i].ack /\ out[i].aux = aux}

\* Every byte sent to a device is acknowledged once, by that device, whatever
\* controller commands, parameters, packets and bytes for the other device come
\* between: a driver waiting for its acknowledgement never takes another's.
AcknowledgedByAddressee ==
  /\ owed.kbd = Cardinality(Acks(kbd.out, FALSE))
  /\ owed.aux = Cardinality(Acks(kbd.out, TRUE))
=============================================================================
