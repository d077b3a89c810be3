----------------------------- MODULE StableRace -----------------------------
(***************************************************************************)
(* The goroutines of one star node that work on its stable block and head  *)
(* at the same time, step by step:                                         *)
(*   - the importer runs insertChain; chainmu lets in one at a time;       *)
(*   - the miner's worker stores the blocks the node produces (wait);      *)
(*   - one handler per connected star node runs ProcConsensusMsg, which    *)
(*     takes no lock but that of the confirmation bits.                    *)
(* stableBlock and currentBlock are atomic values: a load and a store are  *)
(* each atomic, what lies between them is not.  bc.mu is held by           *)
(* WriteBlockWithState only.                                               *)
(***************************************************************************)
EXTENDS BlockTree

CONSTANTS
  self,               \* this star node
  importer, miner     \* its goroutines besides the handlers

ASSUME RaceAssumption ==
  /\ self \in Star
  /\ importer \notin Star /\ miner \notin Star /\ importer # miner

Handler == Star \ {self}
Goroutine == Handler \cup {importer, miner}

VARIABLES
  db, currentBlock, stableBlock, blocksConsensus, childrenMap,
  produced,    \* blocks that are known outside their producer
  announced,   \* blocks for which BroadcastBlock2Satellite was called
  pc,          \* the next step of each goroutine
  block,       \* the block each goroutine works on
  localTd,     \* number of the head when WriteBlockWithState read it
  newCurBlock  \* what getNewestBlockInStableChain returned
               \* (locals that are not in scope have a default value)

shared == <<db, currentBlock, stableBlock, blocksConsensus, childrenMap, produced, announced>>
vars == <<shared, pc, block, localTd, newCurBlock>>

Init ==
  /\ db = {Genesis}
  /\ currentBlock = Genesis
  /\ stableBlock = Genesis
  /\ blocksConsensus = [b \in Block |-> {}]
  /\ childrenMap = [b \in Block |-> {}]
  /\ produced = {Genesis}
  /\ announced = {}
  /\ pc = [g \in Goroutine |-> "idle"]
  /\ block = [g \in Goroutine |-> Genesis]
  /\ localTd = [g \in {importer, miner} |-> 0]
  /\ newCurBlock = [g \in Goroutine |-> Genesis]

\* Goroutine g goes from one step to another, with block b in hand.
With(g, b, from, to) ==
  /\ pc[g] = from
  /\ pc' = [pc EXCEPT ![g] = to]
  /\ block' = [block EXCEPT ![g] = IF to = "idle" THEN Genesis ELSE b]

Goto(g, from, to) == With(g, block[g], from, to)

-----------------------------------------------------------------------------
(***************************************************************************)
(* The starts of the three.                                                *)
(***************************************************************************)

\* Another star node produces a block on a block that it knows of.
Remote(b) ==
  /\ coinbaseOf[b] # self
  /\ b \notin produced
  /\ parentOf[b] \in produced
  /\ produced' = produced \cup {b}
  /\ UNCHANGED <<db, currentBlock, stableBlock, blocksConsensus, childrenMap, announced,
                 pc, block, localTd, newCurBlock>>

\* insertChain takes a block that ValidateBody lets pass, finds it not below
\* the stable block and marks the producer's confirmation.
ImportBlock(b) ==
  /\ With(importer, b, "idle", "write")
  /\ b \in produced
  /\ b # Genesis
  /\ parentOf[b] \in db
  /\ b \in db => numberOf[currentBlock] < numberOf[b]
  /\ numberOf[b] >= numberOf[stableBlock]
  /\ blocksConsensus' = [blocksConsensus EXCEPT ![b] = @ \cup {coinbaseOf[b]}]
  /\ UNCHANGED <<db, currentBlock, stableBlock, childrenMap, produced, announced,
                 localTd, newCurBlock>>

\* commitNewWork and Seal: the miner has a block on what was the head.
MineBlock(b) ==
  /\ With(miner, b, "idle", "write")
  /\ coinbaseOf[b] = self
  /\ b \notin produced
  /\ parentOf[b] = currentBlock
  /\ UNCHANGED <<shared, localTd, newCurBlock>>

\* ProcConsensusMsg marks the confirmation of the peer it comes from.
Confirmation(g, b) ==
  /\ With(g, b, "idle", "has")
  /\ b \in produced \ {Genesis}
  /\ blocksConsensus' = [blocksConsensus EXCEPT ![b] = @ \cup {g}]
  /\ UNCHANGED <<db, currentBlock, stableBlock, childrenMap, produced, announced,
                 localTd, newCurBlock>>

\* A fault: the block is not looked up.
HasBlockUnchecked(g) ==
  /\ Goto(g, "has", "verify")
  /\ UNCHANGED <<shared, localTd, newCurBlock>>

\* ProcConsensusMsg returns when the block is not stored.
HasBlock(g) ==
  /\ Goto(g, "has", IF block[g] \in db THEN "verify" ELSE "idle")
  /\ UNCHANGED <<shared, localTd, newCurBlock>>

-----------------------------------------------------------------------------
(***************************************************************************)
(* WriteBlockWithState.                                                    *)
(***************************************************************************)

\* bc.mu is taken and the number of the head read.
Compare(g) ==
  /\ \A h \in {importer, miner} : pc[h] \notin {"batch", "insert"}
  /\ Goto(g, "write", "batch")
  /\ localTd' = [localTd EXCEPT ![g] = numberOf[currentBlock]]
  /\ UNCHANGED <<shared, newCurBlock>>

\* The head is read again for a tie; the block goes to the database.
Batch(g) ==
  LET number == numberOf[block[g]]
      reorg == \/ number > localTd[g]
               \/ number = localTd[g] /\ number <= numberOf[currentBlock]
  IN
  /\ Goto(g, "batch", IF reorg THEN "insert" ELSE "written")
  /\ db' = db \cup {block[g]}
  /\ localTd' = [localTd EXCEPT ![g] = 0]
  /\ UNCHANGED <<currentBlock, stableBlock, blocksConsensus, childrenMap, produced, announced,
                 newCurBlock>>

\* insert makes the block the head.
Insert(g) ==
  /\ Goto(g, "insert", "written")
  /\ currentBlock' = block[g]
  /\ UNCHANGED <<db, stableBlock, blocksConsensus, childrenMap, produced, announced,
                 localTd, newCurBlock>>

\* The worker broadcasts the block it has stored.
Post ==
  /\ Goto(miner, "written", "idle")
  /\ produced' = produced \cup {block[miner]}
  /\ UNCHANGED <<db, currentBlock, stableBlock, blocksConsensus, childrenMap, announced,
                 localTd, newCurBlock>>

\* A fault: insertChain verifies before it marks its own confirmation.
MarkOwnLate ==
  /\ Goto(importer, "written",
          IF VerifyConsensusOK(blocksConsensus[block[importer]]) THEN "stable" ELSE "children")
  /\ blocksConsensus' = [blocksConsensus EXCEPT ![block[importer]] = @ \cup {self}]
  /\ UNCHANGED <<db, currentBlock, stableBlock, childrenMap, produced, announced,
                 localTd, newCurBlock>>

\* insertChain marks the node's own confirmation.
MarkOwn ==
  /\ Goto(importer, "written", "verify")
  /\ blocksConsensus' = [blocksConsensus EXCEPT ![block[importer]] = @ \cup {self}]
  /\ UNCHANGED <<db, currentBlock, stableBlock, childrenMap, produced, announced,
                 localTd, newCurBlock>>

-----------------------------------------------------------------------------
(***************************************************************************)
(* What insertChain and ProcConsensusMsg both do with a stored block.      *)
(***************************************************************************)

\* What follows: insertChain records the block as a child, the handler is done.
After(g) == IF g = importer THEN "children" ELSE "idle"

\* VerifyConsensusOK
Verify(g) ==
  /\ Goto(g, "verify", IF VerifyConsensusOK(blocksConsensus[block[g]]) THEN "stable" ELSE After(g))
  /\ UNCHANGED <<shared, localTd, newCurBlock>>

\* The stable block is loaded and its number compared.
CheckStable(g) ==
  /\ Goto(g, "stable", IF numberOf[stableBlock] < numberOf[block[g]] THEN "store" ELSE "chain")
  /\ UNCHANGED <<shared, localTd, newCurBlock>>

\* bc.stableBlock.Store
StoreStable(g) ==
  /\ Goto(g, "store", "chain")
  /\ stableBlock' = block[g]
  /\ UNCHANGED <<db, currentBlock, blocksConsensus, childrenMap, produced, announced,
                 localTd, newCurBlock>>

\* isCurAndStableBlockInSameChain
CheckChain(g) ==
  /\ Goto(g, "chain", IF isCurAndStableBlockInSameChain(currentBlock, stableBlock)
                      THEN "announce" ELSE "newest")
  /\ UNCHANGED <<shared, localTd, newCurBlock>>

\* getNewestBlockInStableChain
Newest(g) ==
  /\ Goto(g, "newest", "switch")
  /\ newCurBlock' = [newCurBlock EXCEPT ![g] = getNewestBlockInStableChain(childrenMap, stableBlock)]
  /\ UNCHANGED <<shared, localTd>>

\* bc.currentBlock.Store
Switch(g) ==
  /\ Goto(g, "switch", "announce")
  /\ currentBlock' = newCurBlock[g]
  /\ newCurBlock' = [newCurBlock EXCEPT ![g] = Genesis]
  /\ UNCHANGED <<db, stableBlock, blocksConsensus, childrenMap, produced, announced, localTd>>

\* BroadcastBlock2Satellite
Announce(g) ==
  /\ Goto(g, "announce", After(g))
  /\ announced' = announced \cup {block[g]}
  /\ UNCHANGED <<db, currentBlock, stableBlock, blocksConsensus, childrenMap, produced,
                 localTd, newCurBlock>>

\* insertChain adds the block to childrenMap.
AddChild ==
  /\ Goto(importer, "children", "idle")
  /\ childrenMap' = [childrenMap EXCEPT ![parentOf[block[importer]]] = @ \cup {block[importer]}]
  /\ UNCHANGED <<db, currentBlock, stableBlock, blocksConsensus, produced, announced,
                 localTd, newCurBlock>>

Store(g) == Compare(g) \/ Batch(g) \/ Insert(g)

Confirm(g) ==
  \/ Verify(g) \/ CheckStable(g) \/ StoreStable(g)
  \/ CheckChain(g) \/ Newest(g) \/ Switch(g) \/ Announce(g)

Next ==
  \/ \E b \in Block : Remote(b) \/ ImportBlock(b) \/ MineBlock(b)
  \/ \E g \in Handler : HasBlock(g) \/ \E b \in Block : Confirmation(g, b)
  \/ \E g \in {importer, miner} : Store(g)
  \/ \E g \in Handler \cup {importer} : Confirm(g)
  \/ Post \/ MarkOwn \/ AddChild

Spec == Init /\ [][Next]_vars

-----------------------------------------------------------------------------
Steps == {"idle", "has", "write", "batch", "insert", "written", "verify", "stable", "store",
          "chain", "newest", "switch", "announce", "children"}

TypeOK ==
  /\ db \in SUBSET Block /\ produced \in SUBSET Block /\ announced \in SUBSET Block
  /\ currentBlock \in Block /\ stableBlock \in Block
  /\ blocksConsensus \in [Block -> SUBSET Star]
  /\ childrenMap \in [Block -> SUBSET Block]
  /\ pc \in [Goroutine -> Steps]
  /\ block \in [Goroutine -> Block]
  /\ localTd \in [{importer, miner} -> Nat]
  /\ newCurBlock \in [Goroutine -> Block]

\* No confirmation falls between two goroutines: however insertChain and the
\* handlers of ProcConsensusMsg interleave, a stored block with enough bits is
\* announced to satellites, or some goroutine is still working on it.
NoConfirmationMissed ==
  \A b \in db \ {Genesis} :
    VerifyConsensusOK(blocksConsensus[b]) =>
      b \in announced \/ \E g \in Goroutine : pc[g] # "idle" /\ block[g] = b

\* The head and the stable block are stored with their ancestors, and so is
\* what getNewestBlockInStableChain walks through, whichever goroutine moved
\* the pointers last.
PointersStored ==
  /\ {currentBlock, stableBlock} \subseteq db
  /\ \A b \in db : parentOf[b] \in db /\ childrenMap[b] \subseteq db

-----------------------------------------------------------------------------
(***************************************************************************)
(* What comments say and the interleavings do not respect.                 *)
(***************************************************************************)

\* The stable block is stored unless it "already points to this block or one
\* of its descendants" (blockchain.go:1378): no store moves it back to an
\* ancestor of what it was.
StoreKeepsDescendant ==
  [][stableBlock' # stableBlock => stableBlock' \notin Ancestors[stableBlock]]_vars

=============================================================================
