--------------------------- MODULE DpovpSchedule ---------------------------
(***************************************************************************)
(* The production schedule of the DPoVP engine.                            *)
(*                                                                         *)
(* Star nodes are numbered 0 .. nodeCount-1 by their line in the starlist  *)
(* file.  Who may produce the child of a block depends on the distance     *)
(* (the "slot") from the producer of that block and on the time elapsed    *)
(* since it, in milliseconds.  The rule is written twice in the code: once *)
(* in the engine, which judges the headers of others (verifyHeader), and   *)
(* once in the worker, which decides when to produce (modifyTimer and      *)
(* beforeCommitNewWork).                                                   *)
(***************************************************************************)
EXTENDS Integers

CONSTANTS
  nodeCount,      \* commonDpovp.GetCoreNodesCount(): lines of the starlist
  timeoutTime,    \* config.Dpovp.Timeout: the length of a turn, in ms
  blockInternal   \* config.Dpovp.Sleeptime: least distance of blocks, in ms

ASSUME ScheduleAssumption ==
  /\ nodeCount \in Nat \ {0}
  /\ timeoutTime \in Nat \ {0}
  /\ blockInternal \in Nat
  /\ blockInternal < timeoutTime

-----------------------------------------------------------------------------
(***************************************************************************)
(* common/dpovp/dpovp_util.go                                              *)
(***************************************************************************)

\* The indices GetCoreNodeIndex returns for addresses of the starlist.
Index == 0 .. nodeCount - 1

\* GetCoreNodeIndex of an address that is not in the list; the empty
\* coinbase of the genesis block is the one that GetSlot singles out.
EmptyAddr == -1

\* GetSlot(firstAddress, nextAddress)
GetSlot(first, next) ==
  IF first = EmptyAddr THEN next + 1
  ELSE IF nodeCount = 1 THEN 1
  ELSE (next - first + nodeCount) % nodeCount

\* The time of one round in which every node lets its turn pass.
oneLoopTime == nodeCount * timeoutTime

-----------------------------------------------------------------------------
(***************************************************************************)
(* consensus/dpovp/dpovp.go, verifyHeader: the part that decides whether   *)
(* the producer of the header was allowed to produce it.  The parent is    *)
(* not the genesis block, for which the code returns early.                *)
(***************************************************************************)

\* A fault: a turn that includes its own end.
verifyTurnLate(slot, timeSpan) ==
  LET r == timeSpan % oneLoopTime IN
  \/ slot = 0 /\ r >= oneLoopTime - timeoutTime
  \/ /\ slot = 1
     /\ \/ timeSpan < oneLoopTime /\ timeSpan >= blockInternal /\ timeSpan <= timeoutTime
        \/ timeSpan >= oneLoopTime /\ r < timeoutTime
  \/ slot \notin {0, 1} /\ r \div timeoutTime = slot - 1

\* The three rules of the rotation, for a slot and a time span in ms.
verifyTurn(slot, timeSpan) ==
  LET r == timeSpan % oneLoopTime IN
  \/ slot = 0 /\ r >= oneLoopTime - timeoutTime
  \/ /\ slot = 1
     /\ \/ timeSpan < oneLoopTime /\ timeSpan >= blockInternal /\ timeSpan < timeoutTime
        \/ timeSpan >= oneLoopTime /\ r < timeoutTime
  \/ slot \notin {0, 1} /\ r \div timeoutTime = slot - 1

\* Headers by "header" on a block by "parent", "timeSpan" ms later.
verifyProducer(parent, header, timeSpan) ==
  /\ timeSpan >= blockInternal
  /\ nodeCount = 1 \/ verifyTurn(GetSlot(parent, header), timeSpan)

-----------------------------------------------------------------------------
(***************************************************************************)
(* miner/worker.go: what the worker does about its timer.  The outcome is  *)
(* a record: "seal" puts a token on time2SealCh at once, "timer" re-arms   *)
(* blockMinerTimer, "none" leaves the timer as it is.                      *)
(***************************************************************************)
Seal == [op |-> "seal", wait |-> 0]
Timer(ms) == [op |-> "timer", wait |-> ms]
NoChange == [op |-> "none", wait |-> 0]

\* beforeCommitNewWork: the retry timer set before a block is produced.
beforeCommitNewWork ==
  Timer(IF nodeCount > 1 THEN (nodeCount - 1) * timeoutTime ELSE blockInternal)

\* modifyTimer, slot 0: the head block is this node's own.
modifyTimer0(timeDur) ==
  LET waitTime == (nodeCount - 1) * timeoutTime - (timeDur % oneLoopTime) IN
  IF timeDur <= oneLoopTime THEN NoChange
  ELSE IF waitTime <= 0 THEN Seal ELSE Timer(waitTime)

\* A fault: no least distance between blocks.
modifyTimer1Hasty(timeDur) ==
  LET r == timeDur % oneLoopTime IN
  IF timeDur > oneLoopTime
  THEN IF r < timeoutTime THEN Seal ELSE Timer(oneLoopTime - r)
  ELSE IF timeDur > timeoutTime THEN Timer(oneLoopTime - timeDur)
  ELSE Seal

\* modifyTimer, slot 1: this node is next.
modifyTimer1(timeDur) ==
  LET r == timeDur % oneLoopTime IN
  IF timeDur > oneLoopTime
  THEN IF r < timeoutTime THEN Seal ELSE Timer(oneLoopTime - r)
  ELSE IF timeDur > timeoutTime THEN Timer(oneLoopTime - timeDur)
  ELSE IF timeDur >= blockInternal THEN Seal
  ELSE Timer(blockInternal - timeDur)

\* A fault: the wait for the end of the turn instead of its start.
modifyTimerNLate(slot, timeDur) ==
  LET r == timeDur % oneLoopTime IN
  IF r >= (slot - 1) * timeoutTime /\ r < slot * timeoutTime THEN Seal
  ELSE Timer((slot * timeoutTime - r + oneLoopTime) % oneLoopTime)

\* modifyTimer, the other slots.
modifyTimerN(slot, timeDur) ==
  LET r == timeDur % oneLoopTime IN
  IF r >= (slot - 1) * timeoutTime /\ r < slot * timeoutTime THEN Seal
  ELSE Timer(((slot - 1) * timeoutTime - r + oneLoopTime) % oneLoopTime)

\* modifyTimer for a node at distance "slot" from the head's producer.
modifyTimer(slot, timeDur) ==
  CASE nodeCount = 1 -> Timer(blockInternal)
    [] nodeCount # 1 /\ slot = 0 -> modifyTimer0(timeDur)
    [] nodeCount # 1 /\ slot = 1 -> modifyTimer1(timeDur)
    [] OTHER -> modifyTimerN(slot, timeDur)

-----------------------------------------------------------------------------
(***************************************************************************)
(* What the schedule promises: time since the parent is cut into turns of  *)
(* timeoutTime, given to the star nodes in rotation from the one after     *)
(* the parent's producer.                                                  *)
(***************************************************************************)
TurnOf(parent, timeSpan) ==
  (parent + 1 + (timeSpan % oneLoopTime) \div timeoutTime) % nodeCount
=============================================================================
