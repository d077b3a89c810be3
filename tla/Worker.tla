------------------------------- MODULE Worker -------------------------------
(***************************************************************************)
(* The goroutines of the miner: the worker (miner/worker.go) with its      *)
(* timer, the goroutines that wait to seal and the loop that follows the   *)
(* chain's head, and the agent (miner/agent.go) that seals.                *)
(*                                                                         *)
(* Goroutines are counted by what they are about to do.  Time is left out: *)
(* a running timer may fire at any moment, and which way modifyTimer       *)
(* decides is open (DpovpSchedule has the rule).  worker.mu is held over   *)
(* several steps by stop and by commitNewWork only.                        *)
(***************************************************************************)
EXTENDS Integers

CONSTANTS
  MaxSealers,     \* bound on the goroutines that run waitToSeal
  MaxStarting,    \* bound on the modifyTimer goroutines of start
  MaxTimers, MaxSenders, MaxMines,   \* bounds on the variables named below
  HeadChanSize    \* chainHeadChanSize

ASSUME WorkerAssumption ==
  {MaxSealers, MaxStarting, MaxTimers, MaxSenders, MaxMines, HeadChanSize} \subseteq Nat \ {0}

VARIABLES
  mining,         \* worker.mining
  mu,             \* who holds worker.mu: nobody, commitNewWork or a step of stop
  selecting,      \* goroutines in the select of waitToSeal
  rearming,       \* goroutines of waitToSeal inside resetMinerTimer
  committing,     \* goroutines of waitToSeal that wait for mu
  time2SealCh,    \* tokens in the channel, which has room for one
  sealStopCh,     \* likewise
  deciding,       \* modifyTimer goroutines of start, before they decide
  resetting,      \* and inside resetMinerTimer
  senders,        \* goroutines that send to time2SealCh: timers, modifyTimer
  upd,            \* what the update loop is doing
  chainHeadCh,    \* head events that wait for the update loop
  ownHead,        \* whether the head is a block of this node
  timer,          \* timers that run: the one that blockMinerTimer refers to
  lostTimers,     \* and others, which nothing can stop
  isMining,       \* CpuAgent.isMining
  agents,         \* goroutines that run CpuAgent.update
  stopCh,         \* tokens in CpuAgent.stop, which has room for one
  workCh,         \* works in CpuAgent.workCh, which has room for one
  mines           \* goroutines that run mine, and blocks on their way to wait

sealVars == <<selecting, rearming, committing, time2SealCh, sealStopCh>>
modVars == <<deciding, resetting, upd, chainHeadCh, ownHead>>
timerVars == <<timer, lostTimers>>
agentVars == <<isMining, agents, stopCh, workCh, mines>>
vars == <<mining, mu, sealVars, modVars, senders, timerVars, agentVars>>

Init ==
  /\ mining = 0 /\ mu = "free"
  /\ selecting = 0 /\ rearming = 0 /\ committing = 0
  /\ time2SealCh = 0 /\ sealStopCh = 0
  /\ deciding = 0 /\ resetting = 0 /\ senders = 0
  /\ upd = "select" /\ chainHeadCh = 0 /\ ownHead \in BOOLEAN
  /\ timer = 0 /\ lostTimers = 0
  /\ isMining = 0 /\ agents = 0 /\ stopCh = 0 /\ workCh = 0 /\ mines = 0

-----------------------------------------------------------------------------
(***************************************************************************)
(* start and stop.                                                         *)
(***************************************************************************)

\* start, with CpuAgent.Start: nothing in it blocks.
start ==
  /\ mu = "free"
  /\ selecting + rearming + committing < MaxSealers
  /\ deciding + resetting < MaxStarting
  /\ mining' = 1
  /\ isMining' = 1
  /\ agents' = IF isMining = 0 THEN agents + 1 ELSE agents
  /\ selecting' = selecting + 1
  /\ deciding' = deciding + 1
  /\ UNCHANGED <<mu, rearming, committing, time2SealCh, sealStopCh, resetting, upd,
                 chainHeadCh, ownHead, senders, timerVars, stopCh, workCh, mines>>

\* A fault: stop sends its token whether or not the worker is mining.
stopLockAlways ==
  /\ mu = "free"
  /\ mu' = "stopSealer"
  /\ UNCHANGED <<mining, sealVars, modVars, senders, timerVars, agentVars>>

\* stop takes mu.
stopLock ==
  /\ mu = "free"
  /\ mu' = IF mining = 1 THEN "stopSealer" ELSE "stopDrain"
  /\ UNCHANGED <<mining, sealVars, modVars, senders, timerVars, agentVars>>

\* The token for a waitToSeal; a full channel blocks, with mu held.
stopSealer ==
  /\ mu = "stopSealer"
  /\ sealStopCh = 0
  /\ sealStopCh' = 1
  /\ mu' = "stopAgent"
  /\ UNCHANGED <<mining, selecting, rearming, committing, time2SealCh, modVars, senders,
                 timerVars, agentVars>>

\* A fault: work is left in the channel.
stopAgentKeepsWork ==
  /\ mu = "stopAgent"
  /\ isMining = 1 => stopCh = 0
  /\ stopCh' = IF isMining = 1 THEN 1 ELSE stopCh
  /\ isMining' = 0
  /\ mu' = "stopDrain"
  /\ UNCHANGED <<mining, sealVars, modVars, senders, timerVars, agents, workCh, mines>>

\* A fault: the agent still counts as started.
stopAgentKeepsFlag ==
  /\ mu = "stopAgent"
  /\ stopCh = 0
  /\ stopCh' = 1
  /\ workCh' = 0
  /\ mu' = "stopDrain"
  /\ UNCHANGED <<mining, sealVars, modVars, senders, timerVars, isMining, agents, mines>>

\* CpuAgent.Stop: the token for update, then the work channel is emptied.
stopAgent ==
  /\ mu = "stopAgent"
  /\ isMining = 1 => stopCh = 0
  /\ stopCh' = IF isMining = 1 THEN 1 ELSE stopCh
  /\ workCh' = IF isMining = 1 THEN 0 ELSE workCh
  /\ isMining' = 0
  /\ mu' = "stopDrain"
  /\ UNCHANGED <<mining, sealVars, modVars, senders, timerVars, agents, mines>>

\* The rest of stop.
stopEnd ==
  /\ mu = "stopDrain"
  /\ time2SealCh' = 0
  /\ mining' = 0
  /\ mu' = "free"
  /\ UNCHANGED <<selecting, rearming, committing, sealStopCh, modVars, senders, timerVars,
                 agentVars>>

-----------------------------------------------------------------------------
(***************************************************************************)
(* resetMinerTimer: the timer that blockMinerTimer refers to is stopped,   *)
(* then a new one started and stored there.  Nothing keeps two goroutines  *)
(* from being between the two.                                             *)
(***************************************************************************)
StopTimer ==
  /\ timer' = 0
  /\ UNCHANGED lostTimers

NewTimer ==
  /\ lostTimers + timer < MaxTimers
  /\ lostTimers' = lostTimers + timer
  /\ timer' = 1

\* A timer fires; what it starts sends a token if the worker is mining.
fire ==
  /\ senders < MaxSenders
  /\ \/ timer = 1 /\ timer' = 0 /\ UNCHANGED lostTimers
     \/ lostTimers > 0 /\ lostTimers' = lostTimers - 1 /\ UNCHANGED timer
  /\ senders' = senders + mining
  /\ UNCHANGED <<mining, mu, sealVars, modVars, agentVars>>

\* A sender finds room in time2SealCh.
send ==
  /\ senders > 0
  /\ time2SealCh = 0
  /\ senders' = senders - 1
  /\ time2SealCh' = 1
  /\ UNCHANGED <<mining, mu, selecting, rearming, committing, sealStopCh, modVars, timerVars,
                 agentVars>>

-----------------------------------------------------------------------------
(***************************************************************************)
(* modifyTimer, on a goroutine of its own when start calls it and in the   *)
(* update loop when the head changes.  It does nothing only if the head is *)
(* this node's own.                                                        *)
(***************************************************************************)

\* The goroutine of start decides.
modifyTimer ==
  /\ deciding > 0
  /\ deciding' = deciding - 1
  /\ \/ ownHead /\ UNCHANGED <<senders, resetting, timerVars>>
     \/ /\ senders < MaxSenders
        /\ senders' = senders + 1
        /\ UNCHANGED <<resetting, timerVars>>
     \/ /\ resetting' = resetting + 1
        /\ StopTimer
        /\ UNCHANGED senders
  /\ UNCHANGED <<mining, mu, sealVars, upd, chainHeadCh, ownHead, agentVars>>

modifyTimerNew ==
  /\ resetting > 0
  /\ resetting' = resetting - 1
  /\ NewTimer
  /\ UNCHANGED <<mining, mu, sealVars, deciding, upd, chainHeadCh, ownHead, senders, agentVars>>

\* The update loop takes a head event.
updateHead ==
  /\ upd = "select"
  /\ chainHeadCh > 0
  /\ chainHeadCh' = chainHeadCh - 1
  /\ upd' = IF mining = 1 THEN "modify" ELSE "select"
  /\ UNCHANGED <<mining, mu, sealVars, deciding, resetting, ownHead, senders, timerVars, agentVars>>

updateModify ==
  /\ upd = "modify"
  /\ \/ ownHead /\ upd' = "select" /\ UNCHANGED timerVars
     \/ upd' = "send" /\ UNCHANGED timerVars
     \/ upd' = "new" /\ StopTimer
  /\ UNCHANGED <<mining, mu, sealVars, deciding, resetting, chainHeadCh, ownHead, senders, agentVars>>

updateNew ==
  /\ upd = "new"
  /\ upd' = "select"
  /\ NewTimer
  /\ UNCHANGED <<mining, mu, sealVars, deciding, resetting, chainHeadCh, ownHead, senders, agentVars>>

updateSend ==
  /\ upd = "send"
  /\ time2SealCh = 0
  /\ time2SealCh' = 1
  /\ upd' = "select"
  /\ UNCHANGED <<mining, mu, selecting, rearming, committing, sealStopCh, deciding, resetting,
                 chainHeadCh, ownHead, senders, timerVars, agentVars>>

\* A block of another node becomes the head.
chainHead ==
  /\ chainHeadCh < HeadChanSize
  /\ chainHeadCh' = chainHeadCh + 1
  /\ ownHead' = FALSE
  /\ UNCHANGED <<mining, mu, sealVars, deciding, resetting, upd, senders, timerVars, agentVars>>

\* The stable block decides on another head (ProcConsensusMsg): no event tells.
switchHead ==
  /\ ownHead' = ~ownHead
  /\ UNCHANGED <<mining, mu, sealVars, deciding, resetting, upd, chainHeadCh, senders, timerVars,
                 agentVars>>

-----------------------------------------------------------------------------
(***************************************************************************)
(* waitToSeal and commitNewWork.                                           *)
(***************************************************************************)

\* A fault: the timer is not set again before the work.
takeSealOnly ==
  /\ selecting > 0
  /\ time2SealCh = 1
  /\ time2SealCh' = 0
  /\ selecting' = selecting - 1
  /\ committing' = committing + 1
  /\ UNCHANGED <<mining, mu, rearming, sealStopCh, modVars, senders, timerVars, agentVars>>

\* A token for a block: beforeCommitNewWork stops the timer
takeSeal ==
  /\ selecting > 0
  /\ time2SealCh = 1
  /\ time2SealCh' = 0
  /\ selecting' = selecting - 1
  /\ rearming' = rearming + 1
  /\ StopTimer
  /\ UNCHANGED <<mining, mu, committing, sealStopCh, modVars, senders, agentVars>>

\* and sets a new one.
beforeCommitNewWork ==
  /\ rearming > 0
  /\ rearming' = rearming - 1
  /\ committing' = committing + 1
  /\ NewTimer
  /\ UNCHANGED <<mining, mu, selecting, time2SealCh, sealStopCh, modVars, senders, agentVars>>

\* A token to end.
takeStop ==
  /\ selecting > 0
  /\ sealStopCh = 1
  /\ sealStopCh' = 0
  /\ selecting' = selecting - 1
  /\ UNCHANGED <<mining, mu, rearming, committing, time2SealCh, modVars, senders, timerVars,
                 agentVars>>

\* commitNewWork takes mu; whether it will fail is open.
commitLock ==
  /\ committing > 0
  /\ mu = "free"
  /\ committing' = committing - 1
  /\ mu' \in {"error", "push"}
  /\ UNCHANGED <<mining, selecting, rearming, time2SealCh, sealStopCh, modVars, senders,
                 timerVars, agentVars>>

\* commitNewWork returns after an error.
commitError ==
  /\ mu = "error"
  /\ mu' = "free"
  /\ selecting' = selecting + 1
  /\ UNCHANGED <<mining, rearming, committing, time2SealCh, sealStopCh, modVars, senders,
                 timerVars, agentVars>>

\* A fault: push does not ask whether the worker is mining.
pushAlways ==
  /\ mu = "push"
  /\ workCh = 0
  /\ workCh' = 1
  /\ mu' = "free"
  /\ selecting' = selecting + 1
  /\ UNCHANGED <<mining, rearming, committing, time2SealCh, sealStopCh, modVars, senders,
                 timerVars, isMining, agents, stopCh, mines>>

\* push, and commitNewWork ends; a full work channel blocks, with mu held.
push ==
  /\ mu = "push"
  /\ mining = 1 => workCh = 0
  /\ workCh' = IF mining = 1 THEN 1 ELSE workCh
  /\ mu' = "free"
  /\ selecting' = selecting + 1
  /\ UNCHANGED <<mining, rearming, committing, time2SealCh, sealStopCh, modVars, senders,
                 timerVars, isMining, agents, stopCh, mines>>

-----------------------------------------------------------------------------
(***************************************************************************)
(* The agent.                                                              *)
(***************************************************************************)

\* CpuAgent.update takes a work and starts mine.
agentWork ==
  /\ agents > 0
  /\ workCh = 1
  /\ mines < MaxMines
  /\ workCh' = 0
  /\ mines' = mines + 1
  /\ UNCHANGED <<mining, mu, sealVars, modVars, senders, timerVars, isMining, agents, stopCh>>

\* CpuAgent.update takes the token and ends; Seal is not interrupted.
agentStop ==
  /\ agents > 0
  /\ stopCh = 1
  /\ stopCh' = 0
  /\ agents' = agents - 1
  /\ UNCHANGED <<mining, mu, sealVars, modVars, senders, timerVars, isMining, workCh, mines>>

\* mine is done: sealing failed, or wait stores the block, as the head or on
\* the side.
mine ==
  /\ mines > 0
  /\ mines' = mines - 1
  /\ \/ UNCHANGED <<chainHeadCh, ownHead>>
     \/ /\ chainHeadCh < HeadChanSize
        /\ chainHeadCh' = chainHeadCh + 1
        /\ ownHead' = TRUE
  /\ UNCHANGED <<mining, mu, sealVars, deciding, resetting, upd, senders, timerVars, isMining,
                 agents, stopCh, workCh>>

Stop == stopSealer \/ stopAgent \/ stopEnd

Timing ==
  \/ fire \/ send \/ modifyTimer \/ modifyTimerNew
  \/ updateHead \/ updateModify \/ updateNew \/ updateSend

Sealing ==
  \/ takeSeal \/ beforeCommitNewWork \/ takeStop
  \/ commitLock \/ commitError \/ push

Agent == agentWork \/ agentStop \/ mine

Next == start \/ stopLock \/ Stop \/ Timing \/ chainHead \/ switchHead \/ Sealing \/ Agent

Spec == Init /\ [][Next]_vars

\* Goroutines run: a lock that is free and a channel that is ready are used.
Fairness ==
  /\ WF_vars(stopSealer) /\ WF_vars(stopAgent) /\ WF_vars(stopEnd)
  /\ WF_vars(fire) /\ WF_vars(send) /\ WF_vars(modifyTimer) /\ WF_vars(modifyTimerNew)
  /\ WF_vars(updateHead) /\ WF_vars(updateModify) /\ WF_vars(updateNew) /\ WF_vars(updateSend)
  /\ WF_vars(takeSeal) /\ WF_vars(beforeCommitNewWork) /\ WF_vars(takeStop)
  /\ SF_vars(commitLock) /\ WF_vars(commitError) /\ WF_vars(push)
  /\ WF_vars(agentWork) /\ WF_vars(agentStop) /\ WF_vars(mine)

LiveSpec == Spec /\ Fairness

-----------------------------------------------------------------------------
Holder == {"free", "error", "push", "stopSealer", "stopAgent", "stopDrain"}

TypeOK ==
  /\ mining \in {0, 1} /\ mu \in Holder
  /\ selecting \in Nat /\ rearming \in Nat /\ committing \in Nat
  /\ time2SealCh \in {0, 1} /\ sealStopCh \in {0, 1}
  /\ deciding \in Nat /\ resetting \in Nat /\ senders \in Nat
  /\ upd \in {"select", "modify", "send", "new"}
  /\ chainHeadCh \in Nat /\ ownHead \in BOOLEAN
  /\ timer \in {0, 1} /\ lostTimers \in Nat
  /\ isMining \in {0, 1} /\ agents \in Nat /\ stopCh \in {0, 1} /\ workCh \in {0, 1}
  /\ mines \in Nat

\* The goroutines that run waitToSeal.
Sealers == selecting + rearming + committing + (IF mu \in {"error", "push"} THEN 1 ELSE 0)

\* While the worker is mining some waitToSeal runs that no pending stop is
\* going to end, in whatever order starts and stops follow each other.
SealerPresent ==
  mining = 1 /\ mu \in {"free", "error", "push"} => Sealers > sealStopCh

\* push never waits in vain with mu held: while the worker is mining some
\* CpuAgent.update runs that no pending stop is going to end.
PushHasReader ==
  mu = "push" /\ mining = 1 => agents > stopCh

\* Work of an earlier start is not sealed after a later one: a stopped agent has
\* an empty work channel.
NoStaleWork ==
  isMining = 0 /\ mu \in {"free", "error", "push"} => workCh = 0

\* Something will send the next token: a timer that runs or is being set, a
\* goroutine that sends, a token.
Wakeup ==
  \/ timer + lostTimers + senders + resetting + rearming + time2SealCh > 0
  \/ upd \in {"send", "new"}

\* While the worker is mining the next wake-up is never lost, whether the work
\* succeeds, fails or ends in a block of another node: "reset the timer before
\* the work so that an error does not block it" (worker.go:176).
WakeupKept ==
  [][Wakeup /\ mining = 1 /\ mu \in {"free", "error", "push"} => Wakeup']_vars

\* commitNewWork does not hold mu for ever.
CommitEnds == mu \in {"error", "push"} ~> mu = "free"

-----------------------------------------------------------------------------
(***************************************************************************)
(* What comments say and the interleavings do not respect.                 *)
(***************************************************************************)

\* The API's Stop stops the miner (network/api.go:137): stop returns.
StopReturns == mu = "stopSealer" ~> mu = "free"
=============================================================================
