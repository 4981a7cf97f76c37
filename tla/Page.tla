-------------------------------- MODULE Page --------------------------------
(***************************************************************************)
(* The single-VM page (web/main.js) and its worker (web/vm-worker.js): two *)
(* engines, one of them active; boots, keystrokes, snapshots and restores  *)
(* routed to it; and the worker's run loop, a chain of timers.             *)
(*                                                                         *)
(* A guest is the number of the click that booted it; a restored snapshot  *)
(* brings back the guest it was taken of.  Page and worker run             *)
(* concurrently and talk through two FIFO queues; within each, a handler   *)
(* runs to its end.  Drawing and status texts are left out.                *)
(***************************************************************************)
EXTENDS Naturals, Sequences

CONSTANTS MaxClicks,  \* bound: boots
          MaxKeys,    \* bound: keystrokes
          MaxSaves,   \* bound: snapshots asked for
          MaxLoads,   \* bound: restores asked for
          MaxPosted   \* bound: status messages under way

VARIABLES pg_active,   \* active
          pg_booted,   \* workerBooted
          pg_resolve,  \* snapshotResolve: 0, or the guest the user wanted saved
          pg_saved,    \* IndexedDB "latest": 0 or a guest
          pg_inline,   \* the inline vm: 0 or a guest
          pg_frames,   \* animation frames requested for pump()
          pg_to,       \* messages to the worker
          pg_from,     \* messages from the worker
          wk_vm,       \* the worker's vm: 0 or a guest
          wk_booted,   \* vm.is_booted()
          wk_running,  \* running
          wk_timers,   \* timers pending for loop()
          pg_live,     \* history: the guest the user last booted or restored
          pg_typed,    \* history: <<wanted, reached>> of each keystroke delivered
          pg_saves,    \* history: <<wanted, stored>> of each snapshot stored
          pg_count     \* history: clicks so far: [boot, key, save, load]

pageVars == <<pg_active, pg_booted, pg_resolve, pg_saved, pg_inline, pg_frames, pg_to, pg_from,
              wk_vm, wk_booted, wk_running, wk_timers, pg_live, pg_typed, pg_saves, pg_count>>
pageSide   == <<pg_active, pg_booted, pg_resolve, pg_saved, pg_inline, pg_frames, pg_live,
                pg_saves, pg_count>>
workerSide == <<wk_vm, wk_booted, wk_running, wk_timers>>

PageInit ==
  /\ pg_active = "inline" /\ pg_booted = FALSE /\ pg_resolve = 0 /\ pg_saved = 0
  /\ pg_inline = 0 /\ pg_frames = 0 /\ pg_to = << >> /\ pg_from = << >>
  /\ wk_vm = 0 /\ wk_booted = FALSE /\ wk_running = FALSE /\ wk_timers = 0
  /\ pg_live = 0 /\ pg_typed = {} /\ pg_saves = {}
  /\ pg_count = [boot |-> 0, key |-> 0, save |-> 0, load |-> 0]

Clicked(what, max) == pg_count[what] < max /\ pg_count' = [pg_count EXCEPT ![what] = @ + 1]

\* cancelAnimationFrame(rafHandle): the frame asked for last, if it is still to come.
Cancelled == IF pg_frames = 0 THEN 0 ELSE pg_frames - 1

\* pump(): an error or a terminal HLT ends the chain, else the next frame is asked for.
Pumped(frames) == frames .. frames + 1

IsBooted == IF pg_active = "worker" THEN pg_booted ELSE pg_inline # 0

-----------------------------------------------------------------------------
(* The page: clicks and keys.                                              *)

\* Boot, with the worker enabled: the built-in guests and bootLinux() alike.
BootInWorker ==
  /\ Clicked("boot", MaxClicks)
  /\ pg_active' = "worker" /\ pg_booted' = FALSE /\ pg_frames' = Cancelled
  /\ pg_live' = pg_count.boot + 1
  /\ pg_to' = Append(pg_to, [t |-> "boot", guest |-> pg_count.boot + 1])
  /\ UNCHANGED <<pg_resolve, pg_saved, pg_inline, pg_from, workerSide, pg_typed, pg_saves>>

\* Mutant: the inline path forgets to take the VM over from the worker.
BootInlineUnowned ==
  /\ Clicked("boot", MaxClicks) /\ pg_live' = pg_count.boot + 1
  /\ \/ pg_inline' = pg_count.boot + 1 /\ pg_frames' \in Pumped(Cancelled)
     \/ pg_inline' = 0 /\ pg_frames' = Cancelled
  /\ UNCHANGED <<pg_active, pg_booted, pg_resolve, pg_saved, pg_to, pg_from, workerSide, pg_typed,
                 pg_saves>>

\* Boot on the page's own thread, up to the first pump(); a kernel that does not
\* load leaves a new vm that is not booted.
BootInline ==
  /\ Clicked("boot", MaxClicks) /\ pg_live' = pg_count.boot + 1
  /\ pg_active' = "inline"
  /\ \/ pg_inline' = pg_count.boot + 1 /\ pg_frames' \in Pumped(Cancelled)
     \/ pg_inline' = 0 /\ pg_frames' = Cancelled
  /\ UNCHANGED <<pg_booted, pg_resolve, pg_saved, pg_to, pg_from, workerSide, pg_typed, pg_saves>>

Key ==
  /\ Clicked("key", MaxKeys) /\ IsBooted
  /\ IF pg_active = "worker"
     THEN /\ pg_to' = Append(pg_to, [t |-> "input", guest |-> pg_live]) /\ UNCHANGED pg_typed
     ELSE /\ pg_typed' = pg_typed \cup {<<pg_live, pg_inline>>} /\ UNCHANGED pg_to
  /\ UNCHANGED <<pg_active, pg_booted, pg_resolve, pg_saved, pg_inline, pg_frames, pg_from,
                 workerSide, pg_live, pg_saves>>

\* save: getSnapshot(), then saveSnapshot("latest").
Save ==
  /\ Clicked("save", MaxSaves) /\ IsBooted
  /\ IF pg_active = "worker"
     THEN /\ pg_resolve' = pg_live
          /\ pg_to' = Append(pg_to, [t |-> "snapshot", guest |-> 0])
          /\ UNCHANGED <<pg_saved, pg_saves>>
     ELSE /\ pg_saved' = pg_inline /\ pg_saves' = pg_saves \cup {<<pg_live, pg_inline>>}
          /\ UNCHANGED <<pg_resolve, pg_to>>
  /\ UNCHANGED <<pg_active, pg_booted, pg_inline, pg_frames, pg_from, workerSide, pg_live, pg_typed>>

\* load: restoreSnapshot() into the active engine, then resumePump().  A snapshot
\* the engine refuses, which is reported and changes no routing, is left out.
Load ==
  /\ Clicked("load", MaxLoads) /\ pg_saved # 0
  /\ pg_live' = pg_saved
  /\ IF pg_active = "worker"
     THEN /\ pg_to' = Append(pg_to, [t |-> "restore", guest |-> pg_saved])
          /\ UNCHANGED <<pg_inline, pg_frames>>
     ELSE pg_inline' = pg_saved /\ pg_frames' \in Pumped(Cancelled) /\ UNCHANGED pg_to
  /\ UNCHANGED <<pg_active, pg_booted, pg_resolve, pg_saved, pg_from, workerSide, pg_typed, pg_saves>>

\* A frame is due.
Frame ==
  /\ pg_frames > 0 /\ pg_frames' \in Pumped(pg_frames - 1)
  /\ UNCHANGED <<pg_active, pg_booted, pg_resolve, pg_saved, pg_inline, pg_to, pg_from, workerSide,
                 pg_live, pg_typed, pg_saves, pg_count>>

\* worker.onmessage
PageReceives ==
  /\ pg_from # << >> /\ pg_from' = Tail(pg_from)
  /\ LET m == Head(pg_from)
     IN  /\ pg_booted' = IF m.t = "booted" THEN TRUE
                         ELSE IF m.t = "status" THEN m.guest # 0 ELSE pg_booted
         /\ IF m.t = "snapshot" /\ pg_resolve # 0
            THEN /\ pg_resolve' = 0
                 /\ pg_saved' = IF m.guest # 0 THEN m.guest ELSE pg_saved
                 /\ pg_saves' = IF m.guest # 0 THEN pg_saves \cup {<<pg_resolve, m.guest>>}
                                ELSE pg_saves
            ELSE UNCHANGED <<pg_resolve, pg_saved, pg_saves>>
  /\ UNCHANGED <<pg_active, pg_inline, pg_frames, pg_to, workerSide, pg_live, pg_typed, pg_count>>

-----------------------------------------------------------------------------
(* The worker: messages and the loop.                                      *)

Post(t, guest) == pg_from' = Append(pg_from, [t |-> t, guest |-> guest])

\* startLoop()
StartLoop(running, timers) ==
  /\ wk_running' = TRUE
  /\ wk_timers' = IF running THEN timers ELSE timers + 1

\* "boot": a kernel that does not load leaves a new vm that is not booted.
HandleBoot(m) ==
  /\ wk_vm' = m.guest
  /\ \/ wk_booted' = TRUE /\ StartLoop(FALSE, wk_timers) /\ Post("booted", m.guest)
     \/ /\ wk_booted' = FALSE /\ wk_running' = FALSE /\ Post("error", 0)
        /\ UNCHANGED wk_timers
  /\ UNCHANGED pg_typed

HandleInput(m) ==
  /\ pg_typed' = IF wk_vm # 0 /\ wk_booted THEN pg_typed \cup {<<m.guest, wk_vm>>} ELSE pg_typed
  /\ UNCHANGED <<pg_from, workerSide>>

HandleSnapshot(m) ==
  /\ Post("snapshot", IF wk_booted THEN wk_vm ELSE 0)
  /\ UNCHANGED <<workerSide, pg_typed>>

HandleRestore(m) ==
  /\ IF wk_vm = 0 THEN UNCHANGED workerSide
     ELSE wk_vm' = m.guest /\ wk_booted' = TRUE /\ StartLoop(wk_running, wk_timers)
  /\ UNCHANGED <<pg_from, pg_typed>>

WorkerReceives ==
  /\ pg_to # << >> /\ pg_to' = Tail(pg_to)
  /\ LET m == Head(pg_to)
     IN  \/ m.t = "boot" /\ HandleBoot(m)
         \/ m.t = "input" /\ HandleInput(m)
         \/ m.t = "snapshot" /\ HandleSnapshot(m)
         \/ m.t = "restore" /\ HandleRestore(m)
  /\ UNCHANGED pageSide

\* loop(): nothing when told to stop; else a slice of the guest, which ends in
\* an error, in a terminal HLT, or with the next timer and now and then a status.
Loop ==
  /\ wk_timers > 0
  /\ \/ ~wk_running /\ wk_timers' = wk_timers - 1 /\ UNCHANGED <<wk_running, pg_from>>
     \/ /\ wk_running /\ wk_running' = FALSE /\ wk_timers' = wk_timers - 1
        /\ \E t \in {"error", "status"} : Post(t, wk_vm)
     \/ /\ wk_running /\ Len(pg_from) < MaxPosted /\ Post("status", wk_vm)
        /\ UNCHANGED <<wk_running, wk_timers>>
  /\ UNCHANGED <<wk_vm, wk_booted, pg_to, pg_typed, pageSide>>

PageNext ==
  \/ BootInWorker \/ BootInline \/ Key \/ Save \/ Load \/ Frame \/ PageReceives
  \/ WorkerReceives \/ Loop

PageSpec == PageInit /\ [][PageNext]_pageVars

-----------------------------------------------------------------------------
(* The guest the user has is served: a worker that is marked as running has *)
(* a timer pending that will run it, so that no restore or boot finds the   *)
(* loop dead and does not start it (startLoop, loop); the page never has    *)
(* two chains of frames; and every key reaches the guest that was booted or *)
(* restored last when it was typed, whatever boots, restores and switches   *)
(* of engine are still queued (active, the FIFO of messages).               *)
GuestServed ==
  /\ wk_running => wk_timers > 0
  /\ pg_frames <= 1
  /\ \A k \in pg_typed : k[1] = k[2]

(* What save stores is the guest the user asked for: "Snapshot/restore work *)
(* against whichever engine owns the VM" (main.js).  Violated: one resolver *)
(* serves all requests, and a status message of the previous guest sets     *)
(* workerBooted again after a boot has cleared it, so that an answer about  *)
(* the previous guest ends a save asked for after the boot.                 *)
SavedIsLive == \A s \in pg_saves : s[1] = s[2]

=============================================================================
