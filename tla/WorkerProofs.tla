---------------------------- MODULE WorkerProofs ----------------------------
(***************************************************************************)
(* The goroutines of the miner for any number of them.                     *)
(*                                                                         *)
(* The inductive invariant counts: a waitToSeal for each stop token and    *)
(* one more while the worker is mining, a CpuAgent.update for each token   *)
(* of the agent and one more while the agent is; and the flags of worker   *)
(* and agent differ only inside stop.                                      *)
(***************************************************************************)
EXTENDS Worker, TLAPS

Balance ==
  /\ Sealers >= sealStopCh + (IF mu \in {"stopAgent", "stopDrain"} THEN 0 ELSE mining)
  /\ agents = stopCh + isMining
  /\ mu \in {"stopSealer", "stopAgent"} => mining = 1
  /\ mu # "stopDrain" => isMining = mining
  /\ mu = "stopDrain" => isMining = 0
  /\ isMining = 0 => workCh = 0

Inv == TypeOK /\ Balance

\* The invariant holds at first.
LEMMA InitInv == Init => Inv
  BY DEF Init, Inv, TypeOK, Balance, Sealers, Holder

\* start and the steps of stop.
LEMMA StartStopInv ==
  ASSUME Inv, start \/ stopLock \/ Stop
  PROVE  Inv'
<1> USE DEF Inv, TypeOK, Balance, Sealers, Holder, sealVars, modVars, timerVars, agentVars
<1>1. CASE start
  BY <1>1 DEF start
<1>2. CASE stopLock
  BY <1>2 DEF stopLock
<1>3. CASE stopSealer
  BY <1>3 DEF stopSealer
<1>4. CASE stopAgent
  BY <1>4 DEF stopAgent
<1>5. CASE stopEnd
  BY <1>5 DEF stopEnd
<1> QED BY <1>1, <1>2, <1>3, <1>4, <1>5 DEF Stop

\* Timers, modifyTimer and the update loop.
LEMMA TimingInv ==
  ASSUME Inv, Timing \/ chainHead \/ switchHead
  PROVE  Inv'
<1> USE DEF Inv, TypeOK, Holder, StopTimer, NewTimer, sealVars, modVars, timerVars, agentVars
<1>1. TypeOK'
  <2>1. CASE fire \/ send
    BY <2>1 DEF fire, send
  <2>2. CASE modifyTimer \/ modifyTimerNew
    BY <2>2 DEF modifyTimer, modifyTimerNew
  <2>3. CASE updateHead \/ updateModify
    BY <2>3 DEF updateHead, updateModify
  <2>4. CASE updateNew \/ updateSend
    BY <2>4 DEF updateNew, updateSend
  <2>5. CASE chainHead
    <3>1. ownHead' \in BOOLEAN
      BY <2>5, Zenon DEF chainHead
    <3> QED BY <2>5, <3>1 DEF chainHead
  <2>6. CASE switchHead
    <3>1. ownHead' \in BOOLEAN
      BY <2>6, Zenon DEF switchHead
    <3> QED BY <2>6, <3>1 DEF switchHead
  <2> QED BY <2>1, <2>2, <2>3, <2>4, <2>5, <2>6 DEF Timing
<1>2. /\ mining' = mining /\ mu' = mu /\ sealStopCh' = sealStopCh /\ selecting' = selecting
      /\ rearming' = rearming /\ committing' = committing
      /\ isMining' = isMining /\ agents' = agents /\ stopCh' = stopCh /\ workCh' = workCh
  BY DEF Timing, fire, send, modifyTimer, modifyTimerNew, updateHead, updateModify, updateNew,
         updateSend, chainHead, switchHead
<1> QED BY <1>1, <1>2 DEF Balance, Sealers

\* waitToSeal, commitNewWork and the agent.
LEMMA SealingInv ==
  ASSUME Inv, Sealing \/ Agent
  PROVE  Inv'
<1> USE DEF Inv, TypeOK, Balance, Sealers, Holder, StopTimer, NewTimer, sealVars, modVars,
        timerVars, agentVars
<1>1. CASE takeSeal \/ beforeCommitNewWork
  BY <1>1 DEF takeSeal, beforeCommitNewWork
<1>2. CASE takeStop
  BY <1>2 DEF takeStop
<1>3. CASE commitLock
  BY <1>3 DEF commitLock
<1>4. CASE commitError \/ push
  BY <1>4 DEF commitError, push
<1>5. CASE agentWork \/ agentStop
  BY <1>5 DEF agentWork, agentStop
<1>6. CASE mine
  <2>1. ownHead' \in BOOLEAN
    BY <1>6, Zenon DEF mine
  <2> QED BY <1>6, <2>1 DEF mine
<1> QED BY <1>1, <1>2, <1>3, <1>4, <1>5, <1>6 DEF Sealing, Agent

\* A step that changes nothing keeps the invariant.
LEMMA StutterInv ==
  ASSUME Inv, UNCHANGED vars
  PROVE  Inv'
  BY DEF Inv, TypeOK, Balance, Sealers, vars, sealVars, modVars, timerVars, agentVars

\* The invariant holds in every behaviour.
LEMMA Invariance == Spec => []Inv
<1>1. Inv /\ [Next]_vars => Inv'
  BY StartStopInv, TimingInv, SealingInv, StutterInv DEF Next
<1> QED BY <1>1, InitInv, PTL DEF Spec

\* Every count stays a natural number, every channel within its capacity.
THEOREM TypeCorrect == Spec => []TypeOK
<1>1. Inv => TypeOK
  BY DEF Inv
<1> QED BY <1>1, Invariance, PTL

\* For any sequence of starts and stops a worker that is mining has a
\* waitToSeal that stays.
THEOREM SealerStays == Spec => []SealerPresent
<1>1. Inv => SealerPresent
  BY DEF Inv, TypeOK, Balance, SealerPresent, Sealers
<1> QED BY <1>1, Invariance, PTL

\* push finds an agent that stays: it is not left blocked with mu held.
THEOREM PushIsRead == Spec => []PushHasReader
<1>1. Inv => PushHasReader
  BY DEF Inv, TypeOK, Balance, PushHasReader
<1> QED BY <1>1, Invariance, PTL

\* Stopping the agent leaves no work for the next start.
THEOREM WorkIsFresh == Spec => []NoStaleWork
<1>1. Inv => NoStaleWork
  BY DEF Inv, NoStaleWork, Balance
<1> QED BY <1>1, Invariance, PTL

\* No step of a mining worker loses the next wake-up.
THEOREM WakeupIsKept == Spec => WakeupKept
<1>1. ASSUME Inv, Next, Wakeup, mining = 1, mu \in {"free", "error", "push"}
      PROVE  Wakeup'
  <2> USE <1>1 DEF Inv, TypeOK, Wakeup, StopTimer, NewTimer, sealVars, modVars, timerVars, agentVars
  <2>1. CASE start \/ stopLock
    BY <2>1 DEF start, stopLock
  <2>2. CASE Stop
    BY <2>2 DEF Stop, stopSealer, stopAgent, stopEnd
  <2>3. CASE fire \/ send
    BY <2>3 DEF fire, send
  <2>4. CASE modifyTimer \/ modifyTimerNew
    BY <2>4 DEF modifyTimer, modifyTimerNew
  <2>5. CASE updateHead \/ updateModify \/ updateNew \/ updateSend
    BY <2>5 DEF updateHead, updateModify, updateNew, updateSend
  <2>9. CASE chainHead \/ switchHead
    BY <2>9 DEF chainHead, switchHead
  <2>6. CASE takeSeal \/ beforeCommitNewWork \/ takeStop
    BY <2>6 DEF takeSeal, beforeCommitNewWork, takeStop
  <2>7. CASE commitLock \/ commitError \/ push
    BY <2>7 DEF commitLock, commitError, push
  <2>8. CASE Agent
    BY <2>8 DEF Agent, agentWork, agentStop, mine
  <2> QED BY <2>1, <2>2, <2>3, <2>4, <2>5, <2>6, <2>7, <2>8, <2>9 DEF Next, Timing, Sealing
<1>2. Inv /\ [Next]_vars =>
        [Wakeup /\ mining = 1 /\ mu \in {"free", "error", "push"} => Wakeup']_vars
  BY <1>1 DEF vars
<1> QED BY <1>2, Invariance, PTL DEF Spec, WakeupKept
=============================================================================
