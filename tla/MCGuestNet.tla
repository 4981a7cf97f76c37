----------------------------- MODULE MCGuestNet -----------------------------
(***************************************************************************)
(* The guest's way out, in its three parts: the names it may resolve       *)
(* (Resolver), one connection through NAT, worker and proxy (NatFlow), and *)
(* the threads that carry a connection when the emulator runs natively     *)
(* (Relay).  They share no state, so each behaviour follows one of them.   *)
(*                                                                         *)
(* The instance:  Name 1 is a literal for address 4; names 2 and 3 are     *)
(* looked up and may share address 4; addresses 4 and 5 are routable, 6 is *)
(* not; 0 stands for `*` and for "none".                                   *)
(***************************************************************************)
EXTENDS NatFlow, Resolver, Relay

VARIABLE part

guestNetVars == <<part, vars, dnsVars, relayVars>>

GuestNetInit ==
  /\ part \in {"flow", "names", "relay"}
  /\ Init /\ ResolverInit /\ RelayInit

GuestNetNext ==
  /\ UNCHANGED part
  /\ \/ part = "flow" /\ Next /\ UNCHANGED <<dnsVars, relayVars>>
     \/ part = "names" /\ ResolverNext /\ UNCHANGED <<vars, relayVars>>
     \/ part = "relay" /\ RelayNext /\ UNCHANGED <<vars, dnsVars>>

\* The fairness of NatFlow!FairSpec and of Relay, asked of the part that runs;
\* Resolver's actions are disabled for ever in its initial state.
GuestNetSpec ==
  /\ GuestNetInit /\ [][GuestNetNext]_guestNetVars
  /\ WF_vars(part = "flow" /\ Tick)
  /\ WF_vars(part = "flow" /\ (WsOpens \/ WsRefused))
  /\ WF_vars(part = "flow" /\ WsEvent)
  /\ WF_vars(part = "flow" /\ RemoteRecv)
  /\ WF_vars(part = "flow" /\ GuestRecv)
  /\ WF_vars(part = "flow" /\ GuestSeesFin)
  /\ WF_vars(part = "flow" /\ Established)
  /\ ResolverFairness
  /\ WF_relayVars(part = "relay" /\ ReaderSteps)
  /\ WF_relayVars(part = "relay" /\ WriterSteps)

-----------------------------------------------------------------------------
(* The values of the constants.                                            *)

MCLiteral == [n \in Names |-> IF n = 1 THEN 4 ELSE 0]

Allow(host, port) == [host |-> host, port |-> port]
\* The last list is a guest without a network.
MCAllowlists == {{Allow(0, 0)}, {Allow(1, 0), Allow(2, 80)}, {Allow(2, 80), Allow(3, 443)}, {}}
MCAnswers    == {{}, {4}, {5, 6}}
=============================================================================
