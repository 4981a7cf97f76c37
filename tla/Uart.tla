-------------------------------- MODULE Uart --------------------------------
(***************************************************************************)
(* The serial port (crates/devices/src/uart.rs) between the host's         *)
(* terminal and the guest's driver.                                        *)
(*                                                                         *)
(* The driver is the 8250 driver the source is written for, at the level   *)
(* of its port accesses: an interrupt handler that dispatches on IIR,      *)
(* start_tx and stop_tx on the transmit-ready enable, the polled console   *)
(* that switches the interrupts off around its bytes, and a change of the  *)
(* baud rate, which writes the divisor through offsets 0 and 1 while LCR's *)
(* DLAB bit is set.  Bytes carry their number, modulo SerialNumbers.       *)
(***************************************************************************)
EXTENDS Naturals, Sequences

CONSTANTS
  SerialNumbers,
  MaxRx,         \* bytes the host leaves unread
  MaxTx,         \* bytes the guest sends before the host drains them
  MaxQueue       \* bytes in the driver's circ_buf

VARIABLES
  uart,          \* [tx, rx, rda, thre]: the buffers and IER's two bits
  drv,           \* [pc, queue, rda, thre]: the driver, the length of its circ_buf, its copy of IER
  serial         \* the numbers of the next bytes to be typed, read, sent and shown

uartVars == <<uart, drv, serial>>

Divisor == SerialNumbers     \* the divisor's low byte
NextByte(n) == (n + 1) % SerialNumbers

UartInit ==
  /\ uart = [tx |-> << >>, rx |-> << >>, rda |-> FALSE, thre |-> FALSE]
  /\ drv = [pc |-> "idle", queue |-> 0, rda |-> FALSE, thre |-> FALSE]
  /\ serial = [typed |-> 0, read |-> 0, sent |-> 0, shown |-> 0]

-----------------------------------------------------------------------------
(* The host.                                                               *)
PushRx ==
  /\ Len(uart.rx) < MaxRx
  /\ uart' = [uart EXCEPT !.rx = Append(@, serial.typed)]
  /\ serial' = [serial EXCEPT !.typed = NextByte(@)]
  /\ UNCHANGED drv

\* What the terminal shows of the buffer: control characters leave no trace.
Text == SelectSeq(uart.tx, LAMBDA b : b # Divisor)

DrainTx ==
  /\ uart.tx # << >>
  /\ serial' = [serial EXCEPT !.shown = (@ + Len(Text)) % SerialNumbers]
  /\ uart' = [uart EXCEPT !.tx = << >>]
  /\ UNCHANGED drv

-----------------------------------------------------------------------------
(* The registers.                                                          *)
IrqPendingReceiveOnly == uart.rda /\ uart.rx # << >>

IrqPending == (uart.rda /\ uart.rx # << >>) \/ uart.thre

Iir ==
  IF uart.rda /\ uart.rx # << >> THEN "rda" ELSE IF uart.thre THEN "thre" ELSE "none"

DataReady == uart.rx # << >>

\* Writes at offset 0 and 1: THR and IER, whatever LCR says.
WriteThr(u, b) == [u EXCEPT !.tx = Append(@, b)]
Room == Len(uart.tx) < MaxTx
WriteIer(u, rda, thre) == [u EXCEPT !.rda = rda, !.thre = thre]

-----------------------------------------------------------------------------
(* The driver.                                                             *)
At(where) == drv.pc = where
Goto(where) == drv' = [drv EXCEPT !.pc = where]

\* A process opens the port: receive interrupts on.
Startup ==
  /\ At("idle") /\ ~drv.rda
  /\ drv' = [drv EXCEPT !.rda = TRUE]
  /\ uart' = WriteIer(uart, TRUE, drv.thre)
  /\ UNCHANGED serial

\* uart_write and start_tx.
StartTx ==
  /\ At("idle") /\ drv.rda /\ drv.queue < MaxQueue
  /\ drv' = [drv EXCEPT !.queue = @ + 1, !.thre = TRUE]
  /\ uart' = WriteIer(uart, drv.rda, TRUE)
  /\ UNCHANGED serial

Interrupt == At("idle") /\ IrqPending /\ Goto("iir") /\ UNCHANGED <<uart, serial>>

Dispatch ==
  /\ At("iir")
  /\ Goto(CASE Iir = "rda" -> "receive" [] Iir = "thre" -> "transmit" [] OTHER -> "idle")
  /\ UNCHANGED <<uart, serial>>

\* Read RBR while LSR says DR.
Receive ==
  /\ At("receive")
  /\ IF DataReady
       THEN /\ uart' = [uart EXCEPT !.rx = Tail(@)]
            /\ serial' = [serial EXCEPT !.read = NextByte(Head(uart.rx))]
            /\ UNCHANGED drv
       ELSE Goto("iir") /\ UNCHANGED <<uart, serial>>

\* One byte per interrupt; stop_tx when the buffer is empty.
Transmit ==
  /\ At("transmit")
  /\ IF drv.queue = 0
       THEN /\ uart' = WriteIer(uart, drv.rda, FALSE)
            /\ drv' = [drv EXCEPT !.thre = FALSE, !.pc = "iir"]
            /\ UNCHANGED serial
       ELSE /\ Room
            /\ uart' = WriteThr(uart, serial.sent)
            /\ drv' = [drv EXCEPT !.queue = @ - 1, !.pc = "iir"]
            /\ serial' = [serial EXCEPT !.sent = NextByte(@)]

\* The polled console: interrupts off, a byte, interrupts as the driver knows
\* them.
ConsoleBegin == At("idle") /\ uart' = WriteIer(uart, FALSE, FALSE)
                /\ Goto("console") /\ UNCHANGED serial
ConsoleByte ==
  /\ At("console") /\ Room
  /\ uart' = WriteThr(uart, serial.sent)
  /\ serial' = [serial EXCEPT !.sent = NextByte(@)]
  /\ Goto("restore")
ConsoleEnd == At("restore") /\ uart' = WriteIer(uart, drv.rda, drv.thre)
              /\ Goto("idle") /\ UNCHANGED serial

\* DLAB on, the divisor's low and high byte, DLAB off.
SetDivisorLow ==
  /\ At("idle") /\ Room
  /\ uart' = WriteThr(uart, Divisor)
  /\ Goto("divisor")
  /\ UNCHANGED serial
SetDivisorHigh == At("divisor") /\ uart' = WriteIer(uart, FALSE, FALSE)
                  /\ Goto("restore") /\ UNCHANGED serial

UartNext ==
  \/ PushRx \/ DrainTx
  \/ Startup \/ StartTx \/ Interrupt \/ Dispatch \/ Receive \/ Transmit
  \/ ConsoleBegin \/ ConsoleByte \/ ConsoleEnd \/ SetDivisorLow \/ SetDivisorHigh

UartSpec == UartInit /\ [][UartNext]_uartVars

-----------------------------------------------------------------------------
Run(first, last) ==
  [k \in 1 .. (last - first + SerialNumbers) % SerialNumbers |-> (first + k - 1) % SerialNumbers]

\* The channel loses nothing and never stalls.  Both directions keep every byte
\* and their order; the only bytes that reach the terminal beyond what the guest
\* sent are those of a divisor, which the port takes for data.  And when the
\* driver is at rest without an interrupt line, every byte typed since it opened
\* the port has been read and every byte written has been sent, although a byte
\* may arrive or a console message come between any two of its accesses:
\* irq_pending, IIR and LSR agree.
SerialFlows ==
  /\ Text = Run(serial.shown, serial.sent)
  /\ uart.rx = Run(serial.read, serial.typed)
  /\ At("idle") /\ ~IrqPending => drv.queue = 0 /\ (drv.rda => uart.rx = << >>)
=============================================================================
