----------------------------- MODULE MCDevices ------------------------------
(***************************************************************************)
(* The devices of the machine side by side.  They share no state but the   *)
(* interrupt lines, whose meeting is the subject of Interrupts; so each    *)
(* behaviour follows one unit, and the units' state spaces add up instead  *)
(* of multiplying.  The network card and the interval timer are followed   *)
(* by parts that share no state either.                                    *)
(*                                                                         *)
(* The instance: a ring of 48 bytes holds at most three packets, and the   *)
(* image on disk ends inside a sector.                                     *)
(***************************************************************************)
EXTENDS Rtl8139, Ata, Pit8254, Kbd8042, LocalTimers, Uart

VARIABLE unit

Units == {"nic_rx", "nic_tx", "nic_eeprom", "ata", "pit_ch0", "pit_ch2", "kbd", "timers", "uart"}

devicesVars == <<unit, nicVars, ataVars, pitVars, kbdVars, timerVars, uartVars>>

DevicesInit ==
  /\ unit \in Units
  /\ NicInit /\ AtaInit /\ PitInit /\ KbdInit /\ TimersInit /\ UartInit

Only(u, A) == unit = u /\ A /\ UNCHANGED unit

DevicesNext ==
  \/ Only("nic_rx", NicRx) /\ UNCHANGED <<ataVars, pitVars, kbdVars, timerVars, uartVars>>
  \/ Only("nic_tx", NicTx) /\ UNCHANGED <<ataVars, pitVars, kbdVars, timerVars, uartVars>>
  \/ Only("nic_eeprom", NicEeprom) /\ UNCHANGED <<ataVars, pitVars, kbdVars, timerVars, uartVars>>
  \/ Only("ata", AtaNext) /\ UNCHANGED <<nicVars, pitVars, kbdVars, timerVars, uartVars>>
  \/ Only("pit_ch0", PitChannel0) /\ UNCHANGED <<nicVars, ataVars, kbdVars, timerVars, uartVars>>
  \/ Only("pit_ch2", PitChannel2) /\ UNCHANGED <<nicVars, ataVars, kbdVars, timerVars, uartVars>>
  \/ Only("kbd", KbdNext) /\ UNCHANGED <<nicVars, ataVars, pitVars, timerVars, uartVars>>
  \/ Only("timers", TimersNext) /\ UNCHANGED <<nicVars, ataVars, pitVars, kbdVars, uartVars>>
  \/ Only("uart", UartNext) /\ UNCHANGED <<nicVars, ataVars, pitVars, kbdVars, timerVars>>

DevicesSpec == DevicesInit /\ [][DevicesNext]_devicesVars

\* Registers, offsets and counters of every device stay in their ranges.
DevicesTypeOK == NicTypeOK /\ AtaTypeOK /\ PitTypeOK /\ KbdTypeOK /\ TimersTypeOK

-----------------------------------------------------------------------------
(* The values of the constants.                                            *)

MCImage == <<1, 1, 1>>
=============================================================================
