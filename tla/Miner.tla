------------------------------- MODULE Miner --------------------------------
(***************************************************************************)
(* The switches of the miner (miner/miner.go): Start and Stop, which any   *)
(* goroutine may call, and the update loop that interrupts mining during   *)
(* the first synchronisation.  They share the flags canStart, shouldStart  *)
(* and mining through single atomic loads and stores and no lock, so each  *)
(* load and store is a step.  worker.start and worker.stop hold the        *)
(* worker's mutex and are one step each (module Worker opens them).  The   *)
(* reward address that Start hands on is left out.                         *)
(***************************************************************************)
EXTENDS Integers

CONSTANTS
  Call,      \* goroutines that serve the calls of Start and Stop
  update     \* the goroutine of Miner.update

ASSUME MinerAssumption == update \notin Call

VARIABLES
  starNode,     \* starNodeFlag is set and the star list is not empty
  canStart, shouldStart, mining,   \* the fields of Miner
  working,      \* worker.mining
  pc,           \* the step each goroutine is about to take
  resume,       \* what update loaded from shouldStart
  syncing       \* the downloader is between StartEvent and Done or Failed

vars == <<starNode, canStart, shouldStart, mining, working, pc, resume, syncing>>

Goroutine == Call \union {update}

Init ==
  /\ starNode \in BOOLEAN
  /\ canStart = 1 /\ shouldStart = 0 /\ mining = 0 /\ working = 0
  /\ pc = [g \in Goroutine |-> IF g = update THEN "subscribe" ELSE "idle"]
  /\ resume = 0 /\ syncing = FALSE

Goto(g, step) == pc' = [pc EXCEPT ![g] = step]

\* Where Start and Stop return to.
AfterStart(g) == IF g = update THEN "done" ELSE "idle"
AfterStop(g) == IF g = update THEN "again" ELSE "idle"

-----------------------------------------------------------------------------
(***************************************************************************)
(* Start and Stop.                                                         *)
(***************************************************************************)

\* PrivateMinerAPI.Start, and StartMining's go miner.Start.
CallStart(c) ==
  /\ pc[c] = "idle"
  /\ mining = 0
  /\ Goto(c, "should")
  /\ UNCHANGED <<starNode, canStart, shouldStart, mining, working, resume, syncing>>

\* PrivateMinerAPI.Stop.
CallStop(c) ==
  /\ pc[c] = "idle"
  /\ Goto(c, "stop")
  /\ UNCHANGED <<starNode, canStart, shouldStart, mining, working, resume, syncing>>

\* Start up to the store of shouldStart.
StartShould(g) ==
  /\ pc[g] = "should"
  /\ shouldStart' = IF starNode THEN 1 ELSE shouldStart
  /\ Goto(g, IF starNode THEN "check" ELSE AfterStart(g))
  /\ UNCHANGED <<starNode, canStart, mining, working, resume, syncing>>

\* "Network syncing, will start miner afterwards".
StartCheck(g) ==
  /\ pc[g] = "check"
  /\ Goto(g, IF canStart = 0 THEN AfterStart(g) ELSE "flag")
  /\ UNCHANGED <<starNode, canStart, shouldStart, mining, working, resume, syncing>>

StartFlag(g) ==
  /\ pc[g] = "flag"
  /\ mining' = 1
  /\ Goto(g, "work")
  /\ UNCHANGED <<starNode, canStart, shouldStart, working, resume, syncing>>

StartWork(g) ==
  /\ pc[g] = "work"
  /\ working' = 1
  /\ Goto(g, AfterStart(g))
  /\ UNCHANGED <<starNode, canStart, shouldStart, mining, resume, syncing>>

StopWork(g) ==
  /\ pc[g] = "stop"
  /\ working' = 0
  /\ Goto(g, "unflag")
  /\ UNCHANGED <<starNode, canStart, shouldStart, mining, resume, syncing>>

StopFlag(g) ==
  /\ pc[g] = "unflag"
  /\ mining' = 0
  /\ Goto(g, "clear")
  /\ UNCHANGED <<starNode, canStart, shouldStart, working, resume, syncing>>

StopClear(g) ==
  /\ pc[g] = "clear"
  /\ shouldStart' = 0
  /\ Goto(g, AfterStop(g))
  /\ UNCHANGED <<starNode, canStart, mining, working, resume, syncing>>

-----------------------------------------------------------------------------
(***************************************************************************)
(* update.  Post hands an event over when update waits for one, and does   *)
(* nothing before update subscribes and after it unsubscribes.             *)
(***************************************************************************)
Subscribe ==
  /\ pc[update] = "subscribe"
  /\ Goto(update, "loop")
  /\ UNCHANGED <<starNode, canStart, shouldStart, mining, working, resume, syncing>>

\* The downloader posts StartEvent; update stores canStart.
SyncStart ==
  /\ ~syncing
  /\ syncing' = TRUE
  /\ \/ pc[update] = "loop" /\ canStart' = 0 /\ Goto(update, "abort")
     \/ pc[update] \in {"subscribe", "done"} /\ UNCHANGED <<canStart, pc>>
  /\ UNCHANGED <<starNode, shouldStart, mining, working, resume>>

\* update asks whether to stop.
AbortCheck ==
  /\ pc[update] = "abort"
  /\ Goto(update, IF mining > 0 THEN "stop" ELSE "loop")
  /\ UNCHANGED <<starNode, canStart, shouldStart, mining, working, resume, syncing>>

\* A fault: the Stop that update called is taken for the user's.
AbortForgets ==
  /\ pc[update] = "again"
  /\ Goto(update, "loop")
  /\ UNCHANGED <<starNode, canStart, shouldStart, mining, working, resume, syncing>>

\* "Mining aborted due to sync".
AbortAgain ==
  /\ pc[update] = "again"
  /\ shouldStart' = 1
  /\ Goto(update, "loop")
  /\ UNCHANGED <<starNode, canStart, mining, working, resume, syncing>>

\* The downloader posts DoneEvent or FailedEvent; update loads shouldStart.
SyncEnd ==
  /\ syncing
  /\ syncing' = FALSE
  /\ \/ pc[update] = "loop" /\ resume' = shouldStart /\ Goto(update, "allow")
     \/ pc[update] \in {"subscribe", "done"} /\ UNCHANGED <<resume, pc>>
  /\ UNCHANGED <<starNode, canStart, shouldStart, mining, working>>

\* A fault: canStart stays as the synchronisation left it.
AllowNothing ==
  /\ pc[update] = "allow"
  /\ Goto(update, "reset")
  /\ UNCHANGED <<starNode, canStart, shouldStart, mining, working, resume, syncing>>

Allow ==
  /\ pc[update] = "allow"
  /\ canStart' = 1
  /\ Goto(update, "reset")
  /\ UNCHANGED <<starNode, shouldStart, mining, working, resume, syncing>>

\* shouldStart is cleared; Start if it was set; then the loop is left.
Reset ==
  /\ pc[update] = "reset"
  /\ shouldStart' = 0
  /\ Goto(update, IF resume = 1 THEN "should" ELSE "done")
  /\ UNCHANGED <<starNode, canStart, mining, working, resume, syncing>>

-----------------------------------------------------------------------------
\* A fault: the worker is started before the flag is set.
StartWorkFirst(g) ==
  \/ StartShould(g) \/ StartCheck(g)
  \/ /\ pc[g] = "flag"
     /\ working' = 1
     /\ Goto(g, "work")
     /\ UNCHANGED <<starNode, canStart, shouldStart, mining, resume, syncing>>
  \/ /\ pc[g] = "work"
     /\ mining' = 1
     /\ Goto(g, AfterStart(g))
     /\ UNCHANGED <<starNode, canStart, shouldStart, working, resume, syncing>>

Start(g) == StartShould(g) \/ StartCheck(g) \/ StartFlag(g) \/ StartWork(g)
Stop(g) == StopWork(g) \/ StopFlag(g) \/ StopClear(g)
Update == Subscribe \/ AbortCheck \/ AbortAgain \/ Allow \/ Reset

Next ==
  \/ \E c \in Call : CallStart(c) \/ CallStop(c)
  \/ \E g \in Goroutine : Start(g) \/ Stop(g)
  \/ SyncStart \/ SyncEnd \/ Update

Spec == Init /\ [][Next]_vars

\* Goroutines run, and a synchronisation ends: its requests time out.
Fairness ==
  /\ \A g \in Goroutine : WF_vars(Start(g) \/ Stop(g))
  /\ WF_vars(Update) /\ WF_vars(SyncEnd)

LiveSpec == Spec /\ Fairness

-----------------------------------------------------------------------------
Step == {"idle", "should", "check", "flag", "work", "stop", "unflag", "clear",
         "subscribe", "loop", "abort", "again", "allow", "reset", "done"}

TypeOK ==
  /\ starNode \in BOOLEAN /\ syncing \in BOOLEAN
  /\ {canStart, shouldStart, mining, working, resume} \subseteq {0, 1}
  /\ pc \in [Goroutine -> Step]

\* No Start and no Stop is under way.
Quiet == \A g \in Goroutine : pc[g] \notin {"should", "check", "flag", "work",
                                            "stop", "unflag", "clear"}

\* However Starts, Stops and the synchronisation's own Stop and Start overlap,
\* once they have returned Mining does not report a worker that is stopped.  A
\* flag left behind would make PrivateMinerAPI.Start do nothing.
MiningIsReal == Quiet /\ mining = 1 => working = 1

\* Mining that update aborted for the synchronisation goes on afterwards, unless
\* someone calls Stop meanwhile.
ResumesAfterSync ==
  pc[update] = "again" ~>
    working = 1 \/ \E c \in Call : pc[c] \in {"stop", "unflag", "clear"}

\* update is left after one synchronisation "to prevent" that later ones "halt
\* your mining operation" (miner.go:86): from then on every Start of a star node
\* gets to the worker.
StartsAfterFirstSync ==
  \A c \in Call : pc[c] = "should" /\ starNode /\ pc[update] = "done" ~> working = 1

=============================================================================
