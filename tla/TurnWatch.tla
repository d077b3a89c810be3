----------------------------- MODULE TurnWatch -----------------------------
(***************************************************************************)
(* The schedule over time.  A block by "parent" was produced timeSpan ms   *)
(* ago; every second a star node "header" could produce its child.  The    *)
(* engine's rule (verifyProducer), the worker's rule (modifyTimer) and the *)
(* rotation they both implement (TurnOf) are compared at each second, the  *)
(* grain of block times and of getTimespan.                                *)
(***************************************************************************)
EXTENDS DpovpSchedule

CONSTANT MaxSpan   \* bound on the watched time, in ms

ASSUME MaxSpanAssumption == MaxSpan \in Nat

VARIABLES
  parent,     \* index of the parent's producer
  header,     \* index of the node that considers producing
  timeSpan    \* ms since the parent, a whole number of seconds

vars == <<parent, header, timeSpan>>

Init ==
  /\ parent \in Index
  /\ header \in Index
  /\ timeSpan = 0

\* A second passes.
Second ==
  /\ timeSpan < MaxSpan
  /\ timeSpan' = timeSpan + 1000
  /\ UNCHANGED <<parent, header>>

Next == Second

Spec == Init /\ [][Next]_vars

-----------------------------------------------------------------------------
TypeOK ==
  /\ parent \in Index
  /\ header \in Index
  /\ timeSpan \in Nat

\* verifyHeader's three rules for slots 0, 1 and above accept exactly the
\* node whose turn it is in the rotation, once blockInternal has passed: at
\* every moment one star node may produce and no other.
VerifyIsRotation ==
  nodeCount > 1 =>
    (verifyProducer(parent, header, timeSpan)
       <=> timeSpan >= blockInternal /\ header = TurnOf(parent, timeSpan))

\* No two star nodes can both have a child of the same block accepted by
\* verifyHeader with the same time.
OneProducer ==
  nodeCount > 1 =>
    \A i, j \in Index :
      verifyProducer(parent, i, timeSpan) /\ verifyProducer(parent, j, timeSpan) => i = j

\* A timer that modifyTimer arms goes off within a turn of its node: a block
\* produced at that second passes verifyHeader.
TimerEndsInTurn ==
  LET o == modifyTimer(GetSlot(parent, header), timeSpan) IN
  o.op = "timer" /\ nodeCount > 1
    => verifyProducer(parent, header, timeSpan + o.wait)

\* When modifyTimer seals at once the block passes verifyHeader, unless the
\* node is next and exactly timeoutTime has passed.
SealsInTurnBeforeTimeout ==
  /\ modifyTimer(GetSlot(parent, header), timeSpan).op = "seal"
  /\ ~(GetSlot(parent, header) = 1 /\ timeSpan = timeoutTime)
  => verifyProducer(parent, header, timeSpan)

\* When modifyTimer seals at once the block passes verifyHeader: the node is
\* not "past the moment at which it should produce" (worker.go:230).
SealsInTurn ==
  modifyTimer(GetSlot(parent, header), timeSpan).op = "seal"
    => verifyProducer(parent, header, timeSpan)
=============================================================================
