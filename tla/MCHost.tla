------------------------------- MODULE MCHost -------------------------------
(***************************************************************************)
(* The host's side of the system, without the network path of a single     *)
(* connection (MCGuestNet): the LAN lab, the page with its worker, what a  *)
(* snapshot restores and how the store keeps it, and the chaining of       *)
(* upstream proxies.  They share no state, so each behaviour follows one   *)
(* of them.                                                                *)
(*                                                                         *)
(* The instance: three slots, two of them started together; one proxy of   *)
(* each kind, of which a session tries two; two uploaders.                 *)
(***************************************************************************)
EXTENDS Lan, Page, VmSnapshot, MCSnapStore, Upstream

VARIABLE host

hostVars == <<host, lanVars, pageVars, snapVars, storeVars, upVars>>

HostInit ==
  /\ host \in {"lan", "page", "snapshot", "store", "upstream"}
  /\ LanInit /\ PageInit /\ SnapInit /\ StoreInit /\ UpstreamInit
  /\ storeMode = Exclusive \/ host = "store"    \* the mode matters to the store alone

HostNext ==
  /\ UNCHANGED host
  /\ \/ host = "lan" /\ LanNext /\ UNCHANGED <<pageVars, snapVars, storeVars, upVars>>
     \/ host = "page" /\ PageNext /\ UNCHANGED <<lanVars, snapVars, storeVars, upVars>>
     \/ host = "snapshot" /\ SnapNext /\ UNCHANGED <<lanVars, pageVars, storeVars, upVars>>
     \/ host = "store" /\ StoreNext /\ UNCHANGED <<lanVars, pageVars, snapVars, upVars>>
     \/ host = "upstream" /\ UpstreamNext /\ UNCHANGED <<lanVars, pageVars, snapVars, storeVars>>

HostSpec == HostInit /\ [][HostNext]_hostVars

(* Queues, counters and registers of the five parts stay in their ranges.    *)
HostTypeOK == LanTypeOK /\ SnapTypeOK /\ StoreTypeOK /\ UpstreamTypeOK

-----------------------------------------------------------------------------
(* The values of the constants.                                            *)

MCList == <<"socks5", "http", "socks4">>
=============================================================================
