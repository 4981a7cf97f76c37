-------------------------------- MODULE Proxy --------------------------------
(***************************************************************************)
(* The WebSocket proxy: the accept loop with its gate (module Gate) and    *)
(* the task it spawns for a connection, which runs handle (module          *)
(* ProxySession) and then drops the guard.  The session of one connection, *)
(* Watched, is followed in detail; the others hold their slots for as long *)
(* as they like.                                                           *)
(***************************************************************************)
EXTENDS Gate, ProxySession

CONSTANT Watched

ASSUME ProxyAssumption == Watched \in Conns

proxyVars == <<vars, sessionVars>>

ProxyTypeOK == TypeOK /\ SessionTypeOK

ProxyInit == Init /\ SessionInit

\* A connection whose session is not followed.
Others ==
  \E c \in Conns \ {Watched} :
    \/ TakePermit(c)
    \/ CountPeer(c)
    \/ RejectPeer(c)
    \/ DropGuard(c)
    \/ ReleasePermit(c)

\* The accept loop spawns the task of the watched connection.
Spawn == CountPeer(Watched) /\ SessionStarts

\* ... whose guard lives as long as handle runs.
TaskEnds == phase = "closed" /\ DropGuard(Watched) /\ UNCHANGED sessionVars

AtGate ==
  /\ TakePermit(Watched) \/ RejectPeer(Watched) \/ ReleasePermit(Watched)
  /\ UNCHANGED sessionVars

Served(A) == stage[Watched] = "live" /\ A /\ UNCHANGED vars

ProxyNext ==
  \/ Others /\ UNCHANGED sessionVars
  \/ AtGate
  \/ Spawn
  \/ Served(SessionNext)
  \/ TaskEnds

ProxySpec == ProxyInit /\ [][ProxyNext]_proxyVars

\* Time passes and the runtime polls a future that is ready; nothing is
\* assumed of the client and of the upstream host.
ProxyFairSpec ==
  /\ ProxySpec
  /\ WF_proxyVars(Served(Relay)) /\ WF_proxyVars(Served(Pass))
  /\ WF_proxyVars(TaskEnds)
  /\ WF_proxyVars(ReleasePermit(Watched) /\ UNCHANGED sessionVars)

-----------------------------------------------------------------------------
\* Under the idle timeout an abandoned tunnel gives its slot back, even when
\* one direction has ended and the other waits for ever: the watchdog ends
\* the relay, and the end of the task drops the guard.
SlotReturned ==
  stage[Watched] = "live" /\ phase = "relay" /\ Idle > 0
    ~> stage[Watched] = "idle"

-----------------------------------------------------------------------------
\* A small instance: three connections, two of them from one address.
TwoFromOne == [c \in Conns |-> IF c = 3 THEN "b" ELSE "a"]
=============================================================================
