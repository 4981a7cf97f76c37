------------------------------- MODULE Relay -------------------------------
(***************************************************************************)
(* The native relay of one guest connection (crates/net/src/relay.rs): a   *)
(* thread that connects and then reads from the host socket, a thread that *)
(* writes to it, and two bounded channels to the NAT, which never blocks.  *)
(*                                                                         *)
(* A chunk of payload is its position in its stream.  The socket and the   *)
(* remote host behind it are external: the kernel takes SockRoom chunks    *)
(* from the writer that the remote host has not read.                      *)
(***************************************************************************)
EXTENDS Naturals, Sequences

CONSTANTS GuestChunks, HostChunks, \* chunks each side has to send
          ChanDepth,               \* CHAN_DEPTH, 16 in the code
          SockRoom

VARIABLES
  rl_reader,  \* "connect", "check", "read", "send", "close", "join", "done"
  rl_writer,  \* "none", "recv", "write", "shut", "done"
  rl_chunk,   \* what each thread holds: [reader, writer]
  rl_to,      \* to_host: [q, tx] with tx the NAT's sender
  rl_from,    \* from_host: [q, tx, rx] with tx the reader's sender, rx the NAT's receiver
  rl_stop,    \* the stop flag
  rl_sock,    \* [up: written, unread by the host; wr, rd: halves still open]
  rl_host,    \* the remote host: [sent, read, closed, reset, got, fin]
  rl_nat      \* the NAT: [sent, got, end, reaped]

relayVars == <<rl_reader, rl_writer, rl_chunk, rl_to, rl_from, rl_stop, rl_sock, rl_host, rl_nat>>

RelayInit ==
  /\ rl_reader = "connect" /\ rl_writer = "none" /\ rl_chunk = [reader |-> 0, writer |-> 0]
  /\ rl_to = [q |-> << >>, tx |-> TRUE] /\ rl_from = [q |-> << >>, tx |-> TRUE, rx |-> TRUE]
  /\ rl_stop = FALSE
  /\ rl_sock = [up |-> << >>, wr |-> TRUE, rd |-> TRUE]
  /\ rl_host = [sent |-> 0, read |-> 0, closed |-> FALSE, reset |-> FALSE,
                got |-> << >>, fin |-> FALSE]
  /\ rl_nat = [sent |-> 0, got |-> << >>, end |-> FALSE, reaped |-> FALSE]

RelayTypeOK ==
  /\ rl_reader \in {"connect", "check", "read", "send", "close", "join", "done"}
  /\ rl_writer \in {"none", "recv", "write", "shut", "done"}
  /\ Len(rl_to.q) <= ChanDepth /\ Len(rl_from.q) <= ChanDepth /\ Len(rl_sock.up) <= SockRoom
  /\ rl_host.read <= rl_host.sent /\ rl_host.sent <= HostChunks /\ rl_nat.sent <= GuestChunks

-----------------------------------------------------------------------------
(* The connecting thread, which becomes the reader.                        *)

Connect ==
  /\ rl_reader = "connect" /\ rl_reader' = "check" /\ rl_writer' = "recv"
  /\ UNCHANGED <<rl_chunk, rl_to, rl_from, rl_stop, rl_sock, rl_host, rl_nat>>

\* A failed connect, or a failed clone: returning drops both channel ends.
ConnectFails ==
  /\ rl_reader = "connect" /\ rl_reader' = "done" /\ rl_writer' = "done"
  /\ rl_from' = [rl_from EXCEPT !.tx = FALSE]
  /\ rl_sock' = [rl_sock EXCEPT !.wr = FALSE, !.rd = FALSE]
  /\ UNCHANGED <<rl_chunk, rl_to, rl_stop, rl_host, rl_nat>>

CheckStop ==
  /\ rl_reader = "check" /\ rl_reader' = IF rl_stop THEN "close" ELSE "read"
  /\ UNCHANGED <<rl_writer, rl_chunk, rl_to, rl_from, rl_stop, rl_sock, rl_host, rl_nat>>

\* read(): data, end of file, or an error.
Read ==
  /\ rl_reader = "read"
  /\ \/ /\ ~rl_host.reset /\ rl_host.read < rl_host.sent
        /\ rl_host' = [rl_host EXCEPT !.read = @ + 1]
        /\ rl_chunk' = [rl_chunk EXCEPT !.reader = rl_host.read + 1]
        /\ rl_reader' = "send"
     \/ /\ rl_host.reset \/ (rl_host.closed /\ rl_host.read = rl_host.sent)
        /\ rl_reader' = "close" /\ UNCHANGED <<rl_host, rl_chunk>>
  /\ UNCHANGED <<rl_writer, rl_to, rl_from, rl_stop, rl_sock, rl_nat>>

\* Mutant: without set_read_timeout a read on an idle socket never returns.
ReadForever ==
  /\ FALSE
  /\ UNCHANGED relayVars

\* READ_POLL has passed with nothing to read.
ReadTimeout ==
  /\ rl_reader = "read" /\ ~rl_host.reset /\ ~rl_host.closed /\ rl_host.read = rl_host.sent
  /\ rl_reader' = "check"
  /\ UNCHANGED <<rl_writer, rl_chunk, rl_to, rl_from, rl_stop, rl_sock, rl_host, rl_nat>>

\* from_host_tx.send() blocks while the channel is full and its receiver lives.
SendToGuest ==
  /\ rl_reader = "send"
  /\ \/ /\ ~rl_from.rx /\ rl_reader' = "close" /\ UNCHANGED rl_from
     \/ /\ rl_from.rx /\ Len(rl_from.q) < ChanDepth /\ rl_reader' = "check"
        /\ rl_from' = [rl_from EXCEPT !.q = Append(@, rl_chunk.reader)]
  /\ UNCHANGED <<rl_writer, rl_chunk, rl_to, rl_stop, rl_sock, rl_host, rl_nat>>

\* shutdown(Both), drop(from_host_tx); then writer.join().
CloseSocket ==
  /\ rl_reader = "close" /\ rl_reader' = "join"
  /\ rl_sock' = [rl_sock EXCEPT !.wr = FALSE, !.rd = FALSE]
  /\ rl_from' = [rl_from EXCEPT !.tx = FALSE]
  /\ UNCHANGED <<rl_writer, rl_chunk, rl_to, rl_stop, rl_host, rl_nat>>

JoinWriter ==
  /\ rl_reader = "join" /\ rl_writer = "done" /\ rl_reader' = "done"
  /\ UNCHANGED <<rl_writer, rl_chunk, rl_to, rl_from, rl_stop, rl_sock, rl_host, rl_nat>>

-----------------------------------------------------------------------------
(* The writer.                                                             *)

\* Mutant: a dropped sender ends the writer before the channel is drained.
RecvUnlessDropped ==
  /\ rl_writer = "recv"
  /\ \/ /\ rl_to.tx /\ rl_to.q # << >> /\ rl_writer' = "write"
        /\ rl_chunk' = [rl_chunk EXCEPT !.writer = Head(rl_to.q)]
        /\ rl_to' = [rl_to EXCEPT !.q = Tail(@)]
     \/ ~rl_to.tx /\ rl_writer' = "shut" /\ UNCHANGED <<rl_chunk, rl_to>>
  /\ UNCHANGED <<rl_reader, rl_from, rl_stop, rl_sock, rl_host, rl_nat>>

\* recv(): what is queued comes first, then the end when the sender is gone.
RecvFromGuest ==
  /\ rl_writer = "recv"
  /\ \/ /\ rl_to.q # << >> /\ rl_writer' = "write"
        /\ rl_chunk' = [rl_chunk EXCEPT !.writer = Head(rl_to.q)]
        /\ rl_to' = [rl_to EXCEPT !.q = Tail(@)]
     \/ /\ rl_to.q = << >> /\ ~rl_to.tx /\ rl_writer' = "shut"
        /\ UNCHANGED <<rl_chunk, rl_to>>
  /\ UNCHANGED <<rl_reader, rl_from, rl_stop, rl_sock, rl_host, rl_nat>>

\* write_all() blocks while the kernel has no room; a closed or reset socket fails it.
WriteToHost ==
  /\ rl_writer = "write"
  /\ \/ /\ rl_sock.wr /\ ~rl_host.reset /\ Len(rl_sock.up) < SockRoom
        /\ rl_sock' = [rl_sock EXCEPT !.up = Append(@, rl_chunk.writer)]
        /\ rl_writer' = "recv"
     \/ (~rl_sock.wr \/ rl_host.reset) /\ rl_writer' = "shut" /\ UNCHANGED rl_sock
  /\ UNCHANGED <<rl_reader, rl_chunk, rl_to, rl_from, rl_stop, rl_host, rl_nat>>

ShutWrite ==
  /\ rl_writer = "shut" /\ rl_writer' = "done"
  /\ rl_sock' = [rl_sock EXCEPT !.wr = FALSE]
  /\ UNCHANGED <<rl_reader, rl_chunk, rl_to, rl_from, rl_stop, rl_host, rl_nat>>

-----------------------------------------------------------------------------
(* The NAT's end: try_send, dropping to_host after the guest's FIN or when *)
(* its receiver is gone, try_recv, and reaping.                            *)

NatSend ==
  /\ rl_to.tx
  /\ \/ /\ rl_writer # "done" /\ Len(rl_to.q) < ChanDepth /\ rl_nat.sent < GuestChunks
        /\ rl_nat' = [rl_nat EXCEPT !.sent = @ + 1]
        /\ rl_to' = [rl_to EXCEPT !.q = Append(@, rl_nat.sent + 1)]
     \/ /\ rl_to' = [rl_to EXCEPT !.tx = FALSE] /\ UNCHANGED rl_nat
  /\ UNCHANGED <<rl_reader, rl_writer, rl_chunk, rl_from, rl_stop, rl_sock, rl_host>>

NatReceive ==
  /\ rl_from.rx /\ ~rl_nat.end
  /\ \/ /\ rl_from.q # << >> /\ rl_from' = [rl_from EXCEPT !.q = Tail(@)]
        /\ rl_nat' = [rl_nat EXCEPT !.got = Append(@, Head(rl_from.q))]
     \/ /\ rl_from.q = << >> /\ ~rl_from.tx /\ rl_nat' = [rl_nat EXCEPT !.end = TRUE]
        /\ UNCHANGED rl_from
  /\ UNCHANGED <<rl_reader, rl_writer, rl_chunk, rl_to, rl_stop, rl_sock, rl_host>>

Reap ==
  /\ ~rl_nat.reaped /\ rl_nat' = [rl_nat EXCEPT !.reaped = TRUE]
  /\ rl_stop' = TRUE
  /\ rl_to' = [rl_to EXCEPT !.tx = FALSE]
  /\ rl_from' = [rl_from EXCEPT !.rx = FALSE, !.q = << >>]
  /\ UNCHANGED <<rl_reader, rl_writer, rl_chunk, rl_sock, rl_host>>

-----------------------------------------------------------------------------
(* The remote host.                                                        *)

HostSteps ==
  /\ rl_reader # "connect" /\ ~rl_host.reset
  /\ \/ /\ ~rl_host.closed /\ rl_sock.rd /\ rl_host.sent < HostChunks
        /\ rl_host' = [rl_host EXCEPT !.sent = @ + 1] /\ UNCHANGED rl_sock
     \/ /\ ~rl_host.closed /\ rl_sock.rd
        /\ rl_host' = [rl_host EXCEPT !.closed = TRUE] /\ UNCHANGED rl_sock
     \/ /\ rl_host' = [rl_host EXCEPT !.reset = TRUE] /\ UNCHANGED rl_sock
     \/ /\ rl_sock.up # << >> /\ rl_sock' = [rl_sock EXCEPT !.up = Tail(@)]
        /\ rl_host' = [rl_host EXCEPT !.got = Append(@, Head(rl_sock.up))]
     \/ /\ rl_sock.up = << >> /\ ~rl_sock.wr /\ ~rl_host.fin
        /\ rl_host' = [rl_host EXCEPT !.fin = TRUE] /\ UNCHANGED rl_sock
  /\ UNCHANGED <<rl_reader, rl_writer, rl_chunk, rl_to, rl_from, rl_stop, rl_nat>>

Threads ==
  \/ Connect \/ ConnectFails \/ CheckStop \/ Read \/ ReadTimeout \/ SendToGuest
  \/ CloseSocket \/ JoinWriter \/ RecvFromGuest \/ WriteToHost \/ ShutWrite

RelayNext == Threads \/ NatSend \/ NatReceive \/ Reap \/ HostSteps

RelaySpec == RelayInit /\ [][RelayNext]_relayVars

\* Each thread runs when it can; connect_timeout and READ_POLL do pass.
ReaderSteps == Connect \/ ConnectFails \/ CheckStop \/ Read \/ ReadTimeout \/ SendToGuest
               \/ CloseSocket \/ JoinWriter
WriterSteps == RecvFromGuest \/ WriteToHost \/ ShutWrite

-----------------------------------------------------------------------------
(* Both streams are relayed whole and in order: each end has a prefix of    *)
(* what the other sent; when the NAT is told the host is gone after the     *)
(* host closed in an orderly way it has all of it (the reader's loop, the   *)
(* channel's disconnect); and when the host sees the end of the guest's     *)
(* stream while the reader is still up it has all the NAT handed over.      *)
Upto(n) == [k \in 1 .. n |-> k]

RelayedWhole ==
  /\ rl_host.got = Upto(Len(rl_host.got)) /\ rl_nat.got = Upto(Len(rl_nat.got))
  /\ rl_nat.end /\ rl_host.closed /\ ~rl_host.reset => rl_nat.got = Upto(rl_host.sent)
  /\ rl_host.fin /\ ~rl_host.reset /\ rl_reader \in {"check", "read", "send"}
       => rl_host.got = Upto(rl_nat.sent)

(* No thread outlives its flow: once the NAT has reaped the flow both       *)
(* threads end, wherever they were blocked: in read() on an idle socket, in *)
(* send() to a full channel, in recv(), or in write_all() to a host that    *)
(* has stopped reading (the stop flag, READ_POLL, shutdown(Both)).          *)
ThreadsEnd == rl_nat.reaped ~> (rl_reader = "done" /\ rl_writer = "done")

=============================================================================
