-------------------------- MODULE TurnWatchProofs --------------------------
(***************************************************************************)
(* The schedule is right for every number of star nodes and every timing.  *)
(* All the difficulty is in division and remainder by products of the      *)
(* constants: the first lemmas isolate it.                                 *)
(***************************************************************************)
EXTENDS TurnWatch, TLAPS

\* Division with remainder: what \div and % return.
LEMMA Division ==
  ASSUME NEW a \in Int, NEW b \in Nat \ {0}
  PROVE  /\ a \div b \in Int
         /\ a % b \in 0 .. b - 1
         /\ a = b * (a \div b) + (a % b)
  OBVIOUS

\* Division with remainder is unique.
LEMMA DivisionUnique ==
  ASSUME NEW a \in Int, NEW b \in Nat \ {0}, NEW q \in Int, NEW r \in 0 .. b - 1,
         a = b * q + r
  PROVE  a \div b = q /\ a % b = r
  OBVIOUS

\* Adding a multiple of the divisor does not change the remainder.
LEMMA RemainderShift ==
  ASSUME NEW a \in Int, NEW b \in Nat \ {0}, NEW r \in 0 .. b - 1, NEW k \in Int,
         a = b * k + r
  PROVE  a % b = r
  BY DivisionUnique

\* A round of n turns of length t: an instant r of the round lies in turn k
\* exactly when k * t <= r < (k + 1) * t.
LEMMA TurnBounds ==
  ASSUME NEW n \in Nat \ {0}, NEW t \in Nat \ {0}, NEW r \in 0 .. n * t - 1
  PROVE  /\ r \div t \in 0 .. n - 1
         /\ \A k \in Int : r \div t = k <=> k * t <= r /\ r < (k + 1) * t
<1> DEFINE q == r \div t
<1>1. q \in Int /\ r - t * q \in 0 .. t - 1
  BY Division
<1>2. q * t <= r /\ r < (q + 1) * t
  BY <1>1
<1>3. \A k \in Int : k * t <= r /\ r < (k + 1) * t => k = q
  <2> SUFFICES ASSUME NEW k \in Int, k * t <= r, r < (k + 1) * t
               PROVE  k = q
    OBVIOUS
  <2>1. r = t * k + (r - k * t) /\ r - k * t \in 0 .. t - 1
    OBVIOUS
  <2> QED BY <2>1, DivisionUnique
<1>4. q >= 0
  BY <1>2
<1>5. q < n
  <2> SUFFICES ASSUME q >= n PROVE FALSE
    BY <1>1
  <2>1. q * t >= n * t
    BY <1>1
  <2> QED BY <2>1, <1>2, <1>1
<1> QED BY <1>1, <1>2, <1>3, <1>4, <1>5

-----------------------------------------------------------------------------
(***************************************************************************)
(* The slot and the rotation without remainders.                           *)
(***************************************************************************)

\* GetSlot is the distance going forward around the ring of star nodes.
LEMMA SlotCases ==
  ASSUME nodeCount > 1, NEW i \in Index, NEW j \in Index
  PROVE  GetSlot(i, j) = IF j >= i THEN j - i ELSE j - i + nodeCount
<1> USE ScheduleAssumption DEF Index
<1>1. GetSlot(i, j) = (j - i + nodeCount) % nodeCount
  BY DEF GetSlot, EmptyAddr
<1>2. CASE j >= i
  <2>1. (j - i + nodeCount) = nodeCount * 1 + (j - i) /\ j - i \in 0 .. nodeCount - 1
    BY <1>2
  <2> QED BY <2>1, <1>1, <1>2, RemainderShift
<1>3. CASE j < i
  <2>1. (j - i + nodeCount) = nodeCount * 0 + (j - i + nodeCount)
        /\ j - i + nodeCount \in 0 .. nodeCount - 1
    BY <1>3
  <2> QED BY <2>1, <1>1, <1>3, RemainderShift
<1> QED BY <1>2, <1>3

\* The node at distance k + 1 from i, 0 <= k < nodeCount.
LEMMA RotationCases ==
  ASSUME NEW i \in Index, NEW k \in Index
  PROVE  (i + 1 + k) % nodeCount
           = IF i + 1 + k < nodeCount THEN i + 1 + k ELSE i + 1 + k - nodeCount
<1> USE ScheduleAssumption DEF Index
<1>1. CASE i + 1 + k < nodeCount
  <2>1. i + 1 + k = nodeCount * 0 + (i + 1 + k) /\ i + 1 + k \in 0 .. nodeCount - 1
    BY <1>1
  <2> QED BY <2>1, <1>1, RemainderShift
<1>2. CASE i + 1 + k >= nodeCount
  <2>1. i + 1 + k = nodeCount * 1 + (i + 1 + k - nodeCount)
        /\ i + 1 + k - nodeCount \in 0 .. nodeCount - 1
    BY <1>2
  <2> QED BY <2>1, <1>2, RemainderShift
<1> QED BY <1>1, <1>2

-----------------------------------------------------------------------------
(***************************************************************************)
(* The engine's rule.                                                      *)
(***************************************************************************)

\* An instant of a round lies in a turn of Index.
LEMMA RoundTurn ==
  ASSUME NEW span \in Nat
  PROVE  /\ oneLoopTime \in Nat \ {0}
         /\ span % oneLoopTime \in 0 .. oneLoopTime - 1
         /\ (span % oneLoopTime) \div timeoutTime \in Index
         /\ \A k \in Int : (span % oneLoopTime) \div timeoutTime = k
              <=> /\ k * timeoutTime <= span % oneLoopTime
                  /\ span % oneLoopTime < (k + 1) * timeoutTime
<1>1. nodeCount * timeoutTime \in Nat \ {0}
  BY ScheduleAssumption
<1>2. span % oneLoopTime \in 0 .. oneLoopTime - 1
  BY <1>1, Division DEF oneLoopTime
<1> QED BY <1>1, <1>2, TurnBounds, ScheduleAssumption DEF oneLoopTime, Index

\* Within its first round a time span is its own remainder.
LEMMA FirstRound ==
  ASSUME NEW span \in Nat, span < oneLoopTime
  PROVE  span % oneLoopTime = span
<1>1. oneLoopTime \in Nat \ {0}
  BY RoundTurn
<1>2. span = oneLoopTime * 0 + span /\ span \in 0 .. oneLoopTime - 1
  BY <1>1
<1> QED BY <1>1, <1>2, RemainderShift

\* verifyTurn says in three cases that the turn of the round is the one
\* before the slot, slot 0 standing for the last.
LEMMA TurnOfSlot ==
  ASSUME nodeCount > 1, NEW slot \in Index, NEW span \in Nat, span >= blockInternal
  PROVE  verifyTurn(slot, span)
           <=> (span % oneLoopTime) \div timeoutTime = IF slot = 0 THEN nodeCount - 1 ELSE slot - 1
<1> DEFINE r == span % oneLoopTime
<1> USE ScheduleAssumption
<1>1. r \in 0 .. oneLoopTime - 1 /\ oneLoopTime \in Nat \ {0}
  BY RoundTurn
<1>2. \A k \in Int : r \div timeoutTime = k <=> k * timeoutTime <= r /\ r < (k + 1) * timeoutTime
  BY RoundTurn
<1>3. oneLoopTime - timeoutTime = (nodeCount - 1) * timeoutTime
      /\ oneLoopTime = (nodeCount - 1 + 1) * timeoutTime
  BY DEF oneLoopTime
<1>4. CASE slot = 0
  <2>1. verifyTurn(slot, span) <=> r >= oneLoopTime - timeoutTime
    BY <1>4 DEF verifyTurn
  <2>2. r \div timeoutTime = nodeCount - 1 <=> r >= oneLoopTime - timeoutTime
    <3>1. r \div timeoutTime = nodeCount - 1
            <=> (nodeCount - 1) * timeoutTime <= r /\ r < (nodeCount - 1 + 1) * timeoutTime
      BY <1>2
    <3> HIDE DEF r
    <3> QED BY <3>1, <1>1, <1>3
  <2> QED BY <1>4, <2>1, <2>2
<1>5. CASE slot = 1
  <2>1. verifyTurn(slot, span) <=>
          \/ span < oneLoopTime /\ span >= blockInternal /\ span < timeoutTime
          \/ span >= oneLoopTime /\ r < timeoutTime
    BY <1>5 DEF verifyTurn
  <2>2. r \div timeoutTime = 0 <=> r < timeoutTime
    <3>1. r \div timeoutTime = 0 <=> 0 * timeoutTime <= r /\ r < (0 + 1) * timeoutTime
      BY <1>2
    <3> HIDE DEF r
    <3> QED BY <3>1, <1>1
  <2>3. span < oneLoopTime => r = span
    BY FirstRound
  <2>4. timeoutTime <= oneLoopTime
    BY DEF oneLoopTime
  <2>5. verifyTurn(slot, span) <=> r < timeoutTime
    <3> HIDE DEF r
    <3> QED BY <1>1, <2>1, <2>3, <2>4
  <2> QED BY <1>5, <2>2, <2>5
<1>6. CASE slot \notin {0, 1}
  BY <1>6 DEF verifyTurn
<1> QED BY <1>4, <1>5, <1>6 DEF Index

\* The engine accepts exactly the node whose turn it is in the rotation.
LEMMA ProducerIsTurn ==
  ASSUME nodeCount > 1, NEW i \in Index, NEW j \in Index, NEW span \in Nat
  PROVE  verifyProducer(i, j, span) <=> span >= blockInternal /\ j = TurnOf(i, span)
<1> DEFINE q == (span % oneLoopTime) \div timeoutTime
<1>1. SUFFICES ASSUME span >= blockInternal
               PROVE  verifyTurn(GetSlot(i, j), span) <=> j = TurnOf(i, span)
  BY ScheduleAssumption DEF verifyProducer
<1>2. q \in Index
  BY RoundTurn
<1>3. TurnOf(i, span) = IF i + 1 + q < nodeCount THEN i + 1 + q ELSE i + 1 + q - nodeCount
  BY <1>2, RotationCases DEF TurnOf
<1>4. GetSlot(i, j) = IF j >= i THEN j - i ELSE j - i + nodeCount
  BY SlotCases
<1>5. GetSlot(i, j) \in Index
  BY <1>4, ScheduleAssumption DEF Index
<1>6. verifyTurn(GetSlot(i, j), span)
        <=> q = IF GetSlot(i, j) = 0 THEN nodeCount - 1 ELSE GetSlot(i, j) - 1
  BY <1>1, <1>5, TurnOfSlot
<1> HIDE DEF q
<1> QED BY <1>2, <1>3, <1>4, <1>6, ScheduleAssumption DEF Index

-----------------------------------------------------------------------------
(***************************************************************************)
(* The worker's rule.                                                      *)
(***************************************************************************)

\* A time span is a number of rounds and an instant of the next.
LEMMA RoundOf ==
  ASSUME NEW d \in Nat
  PROVE  \E k \in Nat : d = oneLoopTime * k + (d % oneLoopTime)
<1> DEFINE L == oneLoopTime
<1>1. L \in Nat \ {0}
  BY RoundTurn
<1> HIDE DEF L
<1>2. d \div L \in Nat /\ d = L * (d \div L) + (d % L)
  BY <1>1
<1> QED BY <1>2 DEF L

\* m turns into any round is turn m.
LEMMA LandsOnTurn ==
  ASSUME NEW x \in Nat, NEW k \in Int, NEW m \in Index,
         x = oneLoopTime * k + m * timeoutTime
  PROVE  /\ x % oneLoopTime = m * timeoutTime
         /\ (x % oneLoopTime) \div timeoutTime = m
         /\ x >= m * timeoutTime
<1> USE ScheduleAssumption
<1>1. oneLoopTime \in Nat \ {0}
  BY RoundTurn
<1>2. m * timeoutTime \in 0 .. oneLoopTime - 1
  <2>1. m * timeoutTime \in Nat
    BY DEF Index
  <2>2. (m + 1) * timeoutTime <= nodeCount * timeoutTime
    BY DEF Index
  <2>3. (m + 1) * timeoutTime = m * timeoutTime + timeoutTime
    BY DEF Index
  <2> QED BY <2>1, <2>2, <2>3 DEF oneLoopTime
<1>3. x % oneLoopTime = m * timeoutTime
  <2> DEFINE y == m * timeoutTime
  <2>1. y \in 0 .. oneLoopTime - 1 /\ x = oneLoopTime * k + y /\ x \in Int
    BY <1>2
  <2>2. x % oneLoopTime = y
    <3> HIDE DEF y
    <3> QED BY <1>1, <2>1, RemainderShift, Zenon
  <2> QED BY <2>2
<1>4. (m * timeoutTime) \div timeoutTime = m
  <2>1. m * timeoutTime = timeoutTime * m + 0 /\ m * timeoutTime \in Int /\ m \in Int
    BY DEF Index
  <2> QED BY <2>1, DivisionUnique
<1>5. k >= 0
  <2> SUFFICES ASSUME k < 0 PROVE FALSE
    OBVIOUS
  <2>1. oneLoopTime * k <= oneLoopTime * (-1)
    BY <1>1
  <2> QED BY <1>1, <1>2, <2>1
<1>6. oneLoopTime * k >= 0
  BY <1>1, <1>5
<1> QED BY <1>1, <1>2, <1>3, <1>4, <1>6

\* Slot 0: the timer ends at the last turn of the round.
LEMMA Timer0 ==
  ASSUME nodeCount > 1, NEW d \in Nat, modifyTimer0(d).op = "timer"
  PROVE  /\ d + modifyTimer0(d).wait \in Nat
         /\ d + modifyTimer0(d).wait >= blockInternal
         /\ verifyTurn(0, d + modifyTimer0(d).wait)
<1> USE ScheduleAssumption
<1> DEFINE r == d % oneLoopTime
           w == (nodeCount - 1) * timeoutTime - r
<1>1. d > oneLoopTime /\ w > 0 /\ modifyTimer0(d).wait = w
  BY RoundTurn DEF modifyTimer0, NoChange, Seal, Timer
<1>2. r \in Nat /\ oneLoopTime \in Nat \ {0} /\ (nodeCount - 1) * timeoutTime \in Nat
  BY RoundTurn
<1>3. PICK k \in Nat : d = oneLoopTime * k + r
  BY RoundOf
<1>4. /\ d + w \in Nat
      /\ ((d + w) % oneLoopTime) \div timeoutTime = nodeCount - 1
  <2>1. d + w = oneLoopTime * k + (nodeCount - 1) * timeoutTime /\ d + w \in Nat
    <3> HIDE DEF r
    <3> QED BY <1>1, <1>2, <1>3
  <2>2. nodeCount - 1 \in Index /\ k \in Int
    BY DEF Index
  <2> HIDE DEF w
  <2> QED BY <2>1, <2>2, LandsOnTurn, Zenon
<1>5. d + w >= blockInternal
  <2>1. oneLoopTime >= timeoutTime
    BY DEF oneLoopTime
  <2> HIDE DEF w
  <2> QED BY <1>1, <1>4, <2>1, <1>2
<1> HIDE DEF w
<1>6. verifyTurn(0, d + w)
  BY <1>4, <1>5, TurnOfSlot DEF Index
<1> QED BY <1>1, <1>4, <1>5, <1>6

\* Slot 1: the timer ends at the start of a round, or when blockInternal has
\* passed.
LEMMA Timer1 ==
  ASSUME nodeCount > 1, NEW d \in Nat, modifyTimer1(d).op = "timer"
  PROVE  /\ d + modifyTimer1(d).wait \in Nat
         /\ d + modifyTimer1(d).wait >= blockInternal
         /\ verifyTurn(1, d + modifyTimer1(d).wait)
<1> USE ScheduleAssumption
<1> DEFINE r == d % oneLoopTime
           x == d + modifyTimer1(d).wait
<1>1. r \in 0 .. oneLoopTime - 1 /\ oneLoopTime \in Nat \ {0}
  BY RoundTurn
<1>2. 0 \in Index /\ 1 \in Index
  BY DEF Index
<1>3. timeoutTime < oneLoopTime
  <2>1. 2 * timeoutTime <= nodeCount * timeoutTime
    OBVIOUS
  <2> QED BY <2>1 DEF oneLoopTime
<1>4. ASSUME NEW k \in Nat, x \in Nat, x = oneLoopTime * k + 0 * timeoutTime
      PROVE  (x % oneLoopTime) \div timeoutTime = 0
  <2>1. k \in Int
    OBVIOUS
  <2> HIDE DEF x
  <2> QED BY <1>2, <1>4, <2>1, LandsOnTurn, Zenon
<1>5. x \in Nat /\ x >= blockInternal /\ (x % oneLoopTime) \div timeoutTime = 0
  <2>1. CASE d > oneLoopTime
    <3>1. x = d + (oneLoopTime - r)
      BY <2>1, <1>1 DEF modifyTimer1, Seal, Timer
    <3>2. PICK k \in Nat : d = oneLoopTime * k + r
      BY RoundOf
    <3>3. x = oneLoopTime * (k + 1) + 0 * timeoutTime /\ k + 1 \in Nat
      <4> HIDE DEF r, x
      <4> QED BY <1>1, <3>1, <3>2
    <3>4. x \in Nat /\ x >= blockInternal
      <4> HIDE DEF r, x
      <4> QED BY <1>1, <1>3, <3>1, <2>1
    <3> QED BY <1>4, <3>3, <3>4
  <2>2. CASE d <= oneLoopTime /\ d > timeoutTime
    <3>1. x = oneLoopTime
      BY <2>2, <1>1 DEF modifyTimer1, Seal, Timer
    <3>2. x = oneLoopTime * 1 + 0 * timeoutTime /\ x \in Nat /\ x >= blockInternal
      BY <1>1, <1>3, <3>1
    <3> QED BY <1>4, <3>2
  <2>3. CASE d <= oneLoopTime /\ d <= timeoutTime
    <3>1. x = blockInternal
      BY <2>3, <1>1 DEF modifyTimer1, Seal, Timer
    <3>2. x % oneLoopTime = x
      BY <3>1, <1>1, <1>3, FirstRound
    <3>3. blockInternal \div timeoutTime = 0
      OBVIOUS
    <3> QED BY <3>1, <3>2, <3>3
  <2> QED BY <1>1, <2>1, <2>2, <2>3
<1> HIDE DEF x
<1>6. verifyTurn(1, x)
  BY <1>2, <1>5, TurnOfSlot
<1> QED BY <1>5, <1>6 DEF x

\* The other slots: the timer ends at the start of the node's turn.
LEMMA TimerN ==
  ASSUME nodeCount > 1, NEW slot \in Index, slot \notin {0, 1}, NEW d \in Nat,
         modifyTimerN(slot, d).op = "timer"
  PROVE  /\ d + modifyTimerN(slot, d).wait \in Nat
         /\ d + modifyTimerN(slot, d).wait >= blockInternal
         /\ verifyTurn(slot, d + modifyTimerN(slot, d).wait)
<1> USE ScheduleAssumption
<1> DEFINE r == d % oneLoopTime
           a == (slot - 1) * timeoutTime
           w == (a - r + oneLoopTime) % oneLoopTime
           x == d + w
<1>1. r \in 0 .. oneLoopTime - 1 /\ oneLoopTime \in Nat \ {0}
  BY RoundTurn
<1>2. modifyTimerN(slot, d).wait = w
  BY <1>1 DEF modifyTimerN, Seal, Timer
<1>3. a \in Nat /\ a >= timeoutTime
  <2>1. (slot - 1) \in Nat /\ slot - 1 >= 1
    BY DEF Index
  <2>2. (slot - 1) * timeoutTime >= 1 * timeoutTime
    BY <2>1
  <2> QED BY <2>1, <2>2
<1>4. PICK k \in Nat : d = oneLoopTime * k + r
  BY RoundOf
<1>5. PICK q \in Int : a - r + oneLoopTime = oneLoopTime * q + w /\ w \in Nat
  <2> DEFINE y == a - r + oneLoopTime
             L == oneLoopTime
  <2>1. y \in Int /\ L \in Nat \ {0}
    <3> HIDE DEF a, r
    <3> QED BY <1>1, <1>3
  <2>2. y \div L \in Int /\ y % L \in Nat /\ y = L * (y \div L) + (y % L)
    <3> HIDE DEF y, L
    <3> QED BY <2>1
  <2> QED BY <2>2
<1>6. x = oneLoopTime * (k + 1 - q) + a /\ k + 1 - q \in Int /\ x \in Nat
  <2> DEFINE L == oneLoopTime
  <2>1. L \in Nat /\ r \in Nat /\ a \in Nat /\ w \in Nat /\ d = L * k + r
        /\ a - r + L = L * q + w /\ x = d + w
    BY <1>1, <1>3, <1>4, <1>5
  <2> HIDE DEF L, r, a, w, x
  <2>2. x = L * (k + 1 - q) + a
    BY <2>1
  <2> QED BY <2>1, <2>2 DEF L
<1>7. slot - 1 \in Index
  BY DEF Index
<1>8. (x % oneLoopTime) \div timeoutTime = slot - 1 /\ x >= a
  <2> HIDE DEF x
  <2> QED BY <1>6, <1>7, LandsOnTurn, Zenon
<1>9. x >= blockInternal
  <2> HIDE DEF x, a
  <2> QED BY <1>3, <1>6, <1>8
<1>10. verifyTurn(slot, x)
  <2> HIDE DEF x
  <2> QED BY <1>6, <1>8, <1>9, TurnOfSlot
<1> HIDE DEF w
<1> QED BY <1>2, <1>6, <1>9, <1>10

\* Sealing at once happens within the node's turn, except at timeoutTime.
LEMMA SealNow ==
  ASSUME nodeCount > 1, NEW slot \in Index, NEW d \in Nat,
         modifyTimer(slot, d).op = "seal", ~(slot = 1 /\ d = timeoutTime)
  PROVE  d >= blockInternal /\ verifyTurn(slot, d)
<1> USE ScheduleAssumption
<1> DEFINE r == d % oneLoopTime
<1>1. r \in 0 .. oneLoopTime - 1 /\ oneLoopTime \in Nat \ {0} /\ timeoutTime < oneLoopTime
  <2>1. 2 * timeoutTime <= nodeCount * timeoutTime
    OBVIOUS
  <2> QED BY <2>1, RoundTurn DEF oneLoopTime
<1>2. CASE slot = 0
  <2>1. d > oneLoopTime /\ (nodeCount - 1) * timeoutTime - r <= 0
    BY <1>1, <1>2 DEF modifyTimer, modifyTimer0, NoChange, Seal, Timer
  <2>2. oneLoopTime - timeoutTime = (nodeCount - 1) * timeoutTime
    BY DEF oneLoopTime
  <2>3. d >= blockInternal /\ r >= oneLoopTime - timeoutTime
    <3> HIDE DEF r
    <3> QED BY <1>1, <2>1, <2>2
  <2> QED BY <1>2, <2>3 DEF verifyTurn
<1>3. CASE slot = 1
  <2>1. \/ d > oneLoopTime /\ r < timeoutTime
        \/ d <= timeoutTime /\ d >= blockInternal
    BY <1>1, <1>3 DEF modifyTimer, modifyTimer1, NoChange, Seal, Timer
  <2> QED BY <1>1, <1>3, <2>1 DEF verifyTurn
<1>4. CASE slot \notin {0, 1}
  <2>1. r >= (slot - 1) * timeoutTime /\ r < slot * timeoutTime
    BY <1>1, <1>4 DEF modifyTimer, modifyTimerN, Seal, Timer
  <2>2. slot - 1 \in Int /\ slot - 1 >= 1 /\ slot - 1 + 1 = slot
    BY <1>4 DEF Index
  <2>3. r \div timeoutTime = slot - 1
          <=> (slot - 1) * timeoutTime <= r /\ r < (slot - 1 + 1) * timeoutTime
    BY <2>2, RoundTurn
  <2>4. r \div timeoutTime = slot - 1
    <3> HIDE DEF r
    <3> QED BY <1>1, <2>1, <2>2, <2>3
  <2>5. d >= r
    <3>1. PICK k \in Nat : d = oneLoopTime * k + r
      BY RoundOf
    <3>2. oneLoopTime * k >= 0
      BY <1>1
    <3> HIDE DEF r
    <3> QED BY <1>1, <3>1, <3>2
  <2>6. (slot - 1) * timeoutTime >= 1 * timeoutTime
    BY <2>2
  <2>7. d >= blockInternal
    <3> HIDE DEF r
    <3> QED BY <1>1, <2>1, <2>2, <2>5, <2>6
  <2> QED BY <1>4, <2>4, <2>7 DEF verifyTurn
<1> QED BY <1>2, <1>3, <1>4

-----------------------------------------------------------------------------
(***************************************************************************)
(* The theorems.                                                           *)
(***************************************************************************)

\* The watched time is a natural number of ms and the producers are star
\* nodes.
THEOREM TypeCorrect == Spec => []TypeOK
<1>1. Init => TypeOK
  BY DEF Init, TypeOK
<1>2. TypeOK /\ [Next]_vars => TypeOK'
  BY DEF TypeOK, Next, Second, vars
<1> QED BY <1>1, <1>2, PTL DEF Spec

\* verifyHeader's rules for slots 0, 1 and above amount to the rotation, for
\* every number of star nodes, turn length and block distance.
THEOREM EngineFollowsRotation == Spec => []VerifyIsRotation
<1>1. TypeOK => VerifyIsRotation
  BY ProducerIsTurn DEF TypeOK, VerifyIsRotation
<1> QED BY <1>1, TypeCorrect, PTL

\* At every time verifyHeader accepts a child of a block from at most one star
\* node.
THEOREM EngineAcceptsOne == Spec => []OneProducer
<1>1. TypeOK => OneProducer
  BY ProducerIsTurn DEF TypeOK, OneProducer
<1> QED BY <1>1, TypeCorrect, PTL

\* The timers of modifyTimer go off at times whose block verifyHeader accepts.
THEOREM TimersEndInTurn == Spec => []TimerEndsInTurn
<1>1. TypeOK => TimerEndsInTurn
  <2> SUFFICES ASSUME TypeOK, nodeCount > 1,
                      modifyTimer(GetSlot(parent, header), timeSpan).op = "timer"
               PROVE  verifyProducer(parent, header, timeSpan
                        + modifyTimer(GetSlot(parent, header), timeSpan).wait)
    BY DEF TimerEndsInTurn
  <2> DEFINE slot == GetSlot(parent, header)
             x == timeSpan + modifyTimer(slot, timeSpan).wait
  <2>1. slot \in Index /\ nodeCount # 1 /\ timeSpan \in Nat
    BY SlotCases, ScheduleAssumption DEF TypeOK, Index
  <2> HIDE DEF slot
  <2>2. x >= blockInternal /\ verifyTurn(slot, x)
    <3>1. CASE slot = 0
      BY <2>1, <3>1, Timer0 DEF modifyTimer, slot
    <3>2. CASE slot = 1
      BY <2>1, <3>2, Timer1 DEF modifyTimer, slot
    <3>3. CASE slot \notin {0, 1}
      <4>1. modifyTimer(slot, timeSpan) = modifyTimerN(slot, timeSpan)
        BY <2>1, <3>3 DEF modifyTimer
      <4> QED BY <2>1, <3>3, <4>1, TimerN DEF slot
    <3> QED BY <3>1, <3>2, <3>3
  <2> QED BY <2>2 DEF verifyProducer, slot
<1> QED BY <1>1, TypeCorrect, PTL

\* A block sealed at once by modifyTimer is accepted by verifyHeader, except by
\* the next node exactly timeoutTime after its parent.
THEOREM SealsEndInTurn == Spec => []SealsInTurnBeforeTimeout
<1>1. TypeOK => SealsInTurnBeforeTimeout
  <2> SUFFICES ASSUME TypeOK,
                      modifyTimer(GetSlot(parent, header), timeSpan).op = "seal",
                      ~(GetSlot(parent, header) = 1 /\ timeSpan = timeoutTime)
               PROVE  verifyProducer(parent, header, timeSpan)
    BY DEF SealsInTurnBeforeTimeout
  <2>1. nodeCount > 1
    BY ScheduleAssumption DEF modifyTimer, Timer
  <2>2. GetSlot(parent, header) \in Index /\ timeSpan \in Nat
    BY <2>1, SlotCases, ScheduleAssumption DEF TypeOK, Index
  <2> QED BY <2>1, <2>2, SealNow DEF verifyProducer
<1> QED BY <1>1, TypeCorrect, PTL
=============================================================================
