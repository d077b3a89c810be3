---------------------------- MODULE MinerProofs -----------------------------
(***************************************************************************)
(* The miner's switches for any number of goroutines that call them.       *)
(*                                                                         *)
(* The invariant names who is to blame while Mining is ahead of the        *)
(* worker: a Start that has yet to start the worker, or a Stop that has    *)
(* yet to clear the flag.                                                  *)
(***************************************************************************)
EXTENDS Miner, TLAPS

Owed == mining = 1 /\ working = 0 => \E g \in Goroutine : pc[g] \in {"work", "unflag"}

Inv == TypeOK /\ Owed

\* Bits are stated one by one for the provers.
LEMMA Bits ==
  ASSUME TypeOK
  PROVE  /\ canStart \in {0, 1} /\ shouldStart \in {0, 1} /\ mining \in {0, 1}
         /\ working \in {0, 1} /\ resume \in {0, 1}
  BY DEF TypeOK

\* The invariant holds at first.
LEMMA InitInv == Init => Inv
<1> SUFFICES ASSUME Init PROVE Inv
  OBVIOUS
<1>1. starNode \in BOOLEAN /\ syncing \in BOOLEAN
  BY Zenon DEF Init
<1>2. pc \in [Goroutine -> Step]
  BY DEF Init, Step
<1> QED BY <1>1, <1>2 DEF Init, Inv, TypeOK, Owed

\* A goroutine goes from step to step.
LEMMA Going ==
  ASSUME TypeOK, NEW g \in Goroutine, NEW step \in Step, Goto(g, step)
  PROVE  /\ pc' \in [Goroutine -> Step]
         /\ pc'[g] = step
         /\ \A h \in Goroutine : h # g => pc'[h] = pc[h]
  BY DEF TypeOK, Goto

\* Start and Stop of any goroutine.
LEMMA SwitchInv ==
  ASSUME Inv, NEW g \in Goroutine, Start(g) \/ Stop(g)
  PROVE  Inv'
<1>0. /\ AfterStart(g) \in Step /\ AfterStop(g) \in Step
      /\ {"check", "flag", "work", "unflag", "clear"} \subseteq Step
      /\ AfterStart(g) \notin {"work", "unflag"} /\ AfterStop(g) \notin {"work", "unflag"}
  BY DEF AfterStart, AfterStop, Step
<1>1. PICK step \in Step : Goto(g, step)
  BY <1>0 DEF Start, Stop, StartShould, StartCheck, StartFlag, StartWork, StopWork, StopFlag,
              StopClear
<1>2. /\ pc' \in [Goroutine -> Step] /\ pc'[g] = step
      /\ \A h \in Goroutine : h # g => pc'[h] = pc[h]
  BY <1>1, Going DEF Inv
<1>3. /\ starNode' = starNode /\ syncing' = syncing /\ canStart' = canStart /\ resume' = resume
      /\ shouldStart' \in {0, 1} /\ mining' \in {0, 1} /\ working' \in {0, 1}
  BY Bits DEF Inv, Start, Stop, StartShould, StartCheck, StartFlag, StartWork, StopWork, StopFlag,
              StopClear
<1>4. TypeOK'
  BY <1>2, <1>3 DEF Inv, TypeOK
<1>5. Owed'
  <2>1. CASE StartFlag(g)
    <3>1. pc'[g] = "work"
      BY <2>1, Going, <1>0 DEF StartFlag, Inv
    <3> QED BY <3>1 DEF Owed
  <2>2. CASE StopWork(g)
    <3>1. pc'[g] = "unflag"
      BY <2>2, Going, <1>0 DEF StopWork, Inv
    <3> QED BY <3>1 DEF Owed
  <2>3. CASE StartWork(g) \/ StopFlag(g)
    BY <2>3 DEF StartWork, StopFlag, Owed
  <2>4. CASE StartShould(g) \/ StartCheck(g) \/ StopClear(g)
    <3>1. mining' = mining /\ working' = working /\ pc[g] \notin {"work", "unflag"}
      BY <2>4 DEF StartShould, StartCheck, StopClear
    <3> QED BY <3>1, <1>2 DEF Inv, Owed
  <2> QED BY <2>1, <2>2, <2>3, <2>4 DEF Start, Stop
<1> QED BY <1>4, <1>5 DEF Inv

\* Calls, the downloader and update leave Mining and the worker alone, and
\* move goroutines that are outside Start and Stop.
LEMMA OtherInv ==
  ASSUME Inv,
         (\E c \in Call : CallStart(c) \/ CallStop(c)) \/ SyncStart \/ SyncEnd \/ Update
  PROVE  Inv'
<1>0. /\ update \in Goroutine /\ Call \subseteq Goroutine
      /\ {"should", "stop", "loop", "abort", "allow", "reset", "done"} \subseteq Step
  BY DEF Goroutine, Step
<1>1. \/ pc' = pc
      \/ \E g \in Goroutine, step \in Step : Goto(g, step) /\ pc[g] \notin {"work", "unflag"}
  BY <1>0 DEF CallStart, CallStop, SyncStart, SyncEnd, Update, Subscribe, AbortCheck, AbortAgain,
              Allow, Reset
<1>2. /\ pc' \in [Goroutine -> Step]
      /\ \A h \in Goroutine : pc[h] \in {"work", "unflag"} => pc'[h] = pc[h]
  <2>1. CASE pc' = pc
    BY <2>1 DEF Inv, TypeOK
  <2>2. CASE \E g \in Goroutine, step \in Step : Goto(g, step) /\ pc[g] \notin {"work", "unflag"}
    BY <2>2, Going DEF Inv
  <2> QED BY <1>1, <2>1, <2>2
<1>3. /\ starNode' = starNode /\ mining' = mining /\ working' = working
      /\ canStart' \in {0, 1} /\ resume' \in {0, 1} /\ shouldStart' \in {0, 1}
  BY Bits DEF Inv, CallStart, CallStop, SyncStart, SyncEnd, Update, Subscribe, AbortCheck,
              AbortAgain, Allow, Reset
<1>4. syncing' \in BOOLEAN
  BY Zenon DEF Inv, TypeOK, CallStart, CallStop, SyncStart, SyncEnd, Update, Subscribe, AbortCheck,
              AbortAgain, Allow, Reset
<1>5. TypeOK'
  BY <1>2, <1>3, <1>4 DEF Inv, TypeOK
<1>6. Owed'
  BY <1>2, <1>3 DEF Inv, Owed
<1> QED BY <1>5, <1>6 DEF Inv

\* The invariant holds in every behaviour.
LEMMA Invariance == Spec => []Inv
<1>1. Inv /\ [Next]_vars => Inv'
  <2>1. Inv /\ UNCHANGED vars => Inv'
    BY DEF Inv, TypeOK, Owed, vars
  <2> QED BY <2>1, SwitchInv, OtherInv DEF Next
<1> QED BY <1>1, InitInv, PTL DEF Spec

\* The flags stay bits and every goroutine at a step of its own.
THEOREM TypeCorrect == Spec => []TypeOK
<1>1. Inv => TypeOK
  BY DEF Inv
<1> QED BY <1>1, Invariance, PTL

\* However many Starts and Stops overlap, once they have returned Mining does
\* not report a worker that is stopped.
THEOREM MiningStaysReal == Spec => []MiningIsReal
<1>1. Inv => MiningIsReal
  BY Bits DEF Inv, Owed, MiningIsReal, Quiet
<1> QED BY <1>1, Invariance, PTL
=============================================================================
