----------------------------- MODULE StarChain -----------------------------
(***************************************************************************)
(* The block chains of the nodes of a DPoVP network and the confirmations  *)
(* by which star nodes agree that a block is stable.                       *)
(*                                                                         *)
(* A star node that imports a block marks the producer and itself in the   *)
(* block's confirmation bits, broadcasts its own confirmation, and once    *)
(* two thirds of the bits are set moves its stable pointer to the block    *)
(* and announces the block to satellites.  Confirmations and blocks arrive *)
(* in any order, more than once or never.  A handler is one step here; its *)
(* interleaving with the others of its node is the subject of StableRace.  *)
(*                                                                         *)
(* Nodes are archive nodes (the state of a stored block is available) and  *)
(* every block passes verifyHeader and validation.                         *)
(***************************************************************************)
EXTENDS BlockTree

CONSTANT Node   \* the nodes that are followed; those outside Star are satellites

VARIABLES
  db,                \* blocks stored, by node
  currentBlock,      \* bc.currentBlock: the head
  stableBlock,       \* bc.stableBlock
  headBlockHash,     \* the head the database records, restored by a restart
  currentHeader,     \* head of the header chain (and of the fast blocks)
  canonical,         \* the blocks that the number index points to
  blocksConsensus,   \* bc.blocksConsensus: confirmation bits of every block
  childrenMap,       \* children recorded by insertChain
  sealing,           \* blocks the miner's agent is sealing
  produced,          \* blocks that have left their producer
  consensusMsgs,     \* confirmations broadcast: <<block, star node>>
  announced          \* blocks announced to satellites as confirmed

chainVars == <<db, headBlockHash, currentHeader, canonical>>
vars == <<chainVars, currentBlock, stableBlock, blocksConsensus, childrenMap,
          sealing, produced, consensusMsgs, announced>>

-----------------------------------------------------------------------------
(***************************************************************************)
(* Confirmations.                                                          *)
(***************************************************************************)

\* A fault: the stable block follows every confirmed block.
StableAfterAny(n, b) == b

\* A fault: the stable block advances one number at a time.
StableAfterNext(n, b) ==
  IF numberOf[stableBlock[n]] + 1 = numberOf[b] THEN b ELSE stableBlock[n]

\* stableBlock and currentBlock after block b was found confirmed on node n
\* whose head is "head".
StableAfter(n, b) ==
  IF numberOf[stableBlock[n]] < numberOf[b] THEN b ELSE stableBlock[n]

CurrentAfter(n, b, head) ==
  IF isCurAndStableBlockInSameChain(head, StableAfter(n, b)) THEN head
  ELSE getNewestBlockInStableChain(childrenMap[n], StableAfter(n, b))

-----------------------------------------------------------------------------
(***************************************************************************)
(* Storing a block.                                                        *)
(***************************************************************************)

\* The head after WriteBlockWithState: the total difficulty of b is compared
\* with the number of the head and ties go to b.
HeadWith(n, b) ==
  IF numberOf[b] >= numberOf[currentBlock[n]] THEN b ELSE currentBlock[n]

\* A fault: the new chain below b is forgotten.
NewChainTip(n, b) == IF HeadWith(n, b) = b THEN {b} ELSE {}

\* The blocks for which WriteBlockWithState calls insert: b and, if its parent
\* is not the head, what reorg collects down to the common ancestor.
NewChain(n, b) ==
  IF HeadWith(n, b) = b THEN Ancestors[b] \ Ancestors[currentBlock[n]] ELSE {}

\* A fault: the body of a block that does not extend the head is not written.
WriteBlockExtending(n, b) ==
  LET chain == NewChain(n, b) IN
  /\ db' = [db EXCEPT ![n] = IF parentOf[b] = currentBlock[n] THEN @ \cup {b} ELSE @]
  /\ canonical' = [canonical EXCEPT ![n] = @ \cup chain]
  /\ headBlockHash' = [headBlockHash EXCEPT ![n] = IF chain = {} THEN @ ELSE b]
  /\ currentHeader' = [currentHeader EXCEPT ![n] = IF chain = {} THEN @ ELSE b]

\* WriteBlockWithState and the insert calls in it, without bc.currentBlock.
WriteBlockWithState(n, b) ==
  LET chain == NewChain(n, b)
      \* the blocks for which insert finds that it has to update the heads
      moved == chain \ canonical[n]
  IN
  /\ db' = [db EXCEPT ![n] = @ \cup {b}]
  /\ canonical' = [canonical EXCEPT ![n] =
       {x \in @ : \A y \in chain : numberOf[x] # numberOf[y]} \cup chain]
  /\ headBlockHash' = [headBlockHash EXCEPT ![n] = IF chain = {} THEN @ ELSE b]
  /\ currentHeader' = [currentHeader EXCEPT ![n] =
       IF moved = {} THEN @
       ELSE CHOOSE x \in moved : \A y \in moved : numberOf[y] <= numberOf[x]]

-----------------------------------------------------------------------------
Init ==
  /\ db = [n \in Node |-> {Genesis}]
  /\ currentBlock = [n \in Node |-> Genesis]
  /\ stableBlock = [n \in Node |-> Genesis]
  /\ headBlockHash = [n \in Node |-> Genesis]
  /\ currentHeader = [n \in Node |-> Genesis]
  /\ canonical = [n \in Node |-> {Genesis}]
  /\ blocksConsensus = [n \in Node |-> [b \in Block |-> {}]]
  /\ childrenMap = [n \in Node |-> [b \in Block |-> {}]]
  /\ sealing = [n \in Node |-> {}]
  /\ produced = {Genesis}
  /\ consensusMsgs = {}
  /\ announced = {}

\* The miner starts a block on its head (commitNewWork) and hands it to its
\* agent; a later block does not stop the sealing of an earlier one.
commitNewWork(n, b) ==
  /\ coinbaseOf[b] = n
  /\ b \notin produced
  /\ b \notin sealing[n]
  /\ parentOf[b] = currentBlock[n]
  /\ sealing' = [sealing EXCEPT ![n] = @ \cup {b}]
  /\ UNCHANGED <<chainVars, currentBlock, stableBlock, blocksConsensus,
                 childrenMap, produced, consensusMsgs, announced>>

\* The worker takes a sealed block (wait): it is stored and broadcast.  No
\* confirmation bit is set and childrenMap does not learn of it.
wait(n, b) ==
  /\ b \in sealing[n]
  /\ sealing' = [sealing EXCEPT ![n] = @ \ {b}]
  /\ WriteBlockWithState(n, b)
  /\ currentBlock' = [currentBlock EXCEPT ![n] = HeadWith(n, b)]
  /\ produced' = produced \cup {b}
  /\ UNCHANGED <<stableBlock, blocksConsensus, childrenMap, consensusMsgs, announced>>

\* What ValidateBody and insertChain ask of a block before it is processed: its
\* parent is stored, and if it is known the head has fallen below it.
Importable(n, b) ==
  /\ b \in produced
  /\ b # Genesis
  /\ parentOf[b] \in db[n]
  /\ b \in db[n] => numberOf[currentBlock[n]] < numberOf[b]

\* insertChain on a satellite.
insertChainSatellite(n, b) ==
  /\ n \notin Star
  /\ Importable(n, b)
  /\ WriteBlockWithState(n, b)
  /\ currentBlock' = [currentBlock EXCEPT ![n] = HeadWith(n, b)]
  /\ UNCHANGED <<stableBlock, blocksConsensus, childrenMap, sealing, produced,
                 consensusMsgs, announced>>

\* insertChain on a star node.  A block below the stable one is turned down
\* before it is stored; its broadcast has no confirmation and is ignored.
insertChainStar(n, b) ==
  LET flag == blocksConsensus[n][b] \cup {coinbaseOf[b], n}
      ok == VerifyConsensusOK(flag)
  IN
  /\ n \in Star
  /\ Importable(n, b)
  /\ numberOf[b] >= numberOf[stableBlock[n]]
  /\ WriteBlockWithState(n, b)
  /\ blocksConsensus' = [blocksConsensus EXCEPT ![n][b] = flag]
  /\ stableBlock' = [stableBlock EXCEPT ![n] = IF ok THEN StableAfter(n, b) ELSE @]
  /\ currentBlock' = [currentBlock EXCEPT ![n] =
       IF ok THEN CurrentAfter(n, b, HeadWith(n, b)) ELSE HeadWith(n, b)]
  /\ announced' = IF ok THEN announced \cup {b} ELSE announced
  /\ childrenMap' = [childrenMap EXCEPT ![n][parentOf[b]] = @ \cup {b}]
  /\ consensusMsgs' = consensusMsgs \cup {<<b, n>>}
  /\ UNCHANGED <<sealing, produced>>

\* The star nodes whose confirmation of b may arrive: those that broadcast one
\* and, once there is the block, those that are not followed.
Confirmers(b) ==
  {i \in Star : <<b, i>> \in consensusMsgs \/ (i \notin Node /\ b \in produced \ {Genesis})}

\* A fault: a confirmed block is not looked up.
HasBlockUnchecked(n, b) == TRUE

HasBlock(n, b) == b \in db[n]

\* ProcConsensusMsg: the confirmation of b by star node i, from i itself.
ProcConsensusMsg(n, b, i) ==
  LET flag == blocksConsensus[n][b] \cup {i}
      ok == HasBlock(n, b) /\ VerifyConsensusOK(flag)
  IN
  /\ n \in Star
  /\ i \in Confirmers(b) \ {n}
  /\ blocksConsensus' = [blocksConsensus EXCEPT ![n][b] = flag]
  /\ stableBlock' = [stableBlock EXCEPT ![n] = IF ok THEN StableAfter(n, b) ELSE @]
  /\ currentBlock' = [currentBlock EXCEPT ![n] = IF ok THEN CurrentAfter(n, b, @) ELSE @]
  /\ announced' = IF ok THEN announced \cup {b} ELSE announced
  /\ UNCHANGED <<chainVars, childrenMap, sealing, produced, consensusMsgs>>

\* The process ends and starts again: NewBlockChain and loadLastState.
loadLastState(n) ==
  /\ currentBlock' = [currentBlock EXCEPT ![n] = headBlockHash[n]]
  /\ stableBlock' = [stableBlock EXCEPT ![n] = Genesis]
  /\ blocksConsensus' = [blocksConsensus EXCEPT ![n] = [b \in Block |-> {}]]
  /\ childrenMap' = [childrenMap EXCEPT ![n] = [b \in Block |-> {}]]
  /\ sealing' = [sealing EXCEPT ![n] = {}]
  /\ UNCHANGED <<chainVars, produced, consensusMsgs, announced>>

\* A star node that is not followed produces a block.
Remote(b) ==
  /\ coinbaseOf[b] \notin Node
  /\ b \notin produced
  /\ parentOf[b] \in produced
  /\ produced' = produced \cup {b}
  /\ UNCHANGED <<chainVars, currentBlock, stableBlock, blocksConsensus, childrenMap,
                 sealing, consensusMsgs, announced>>

\* What a node does while it is up, and what the others do.
Up ==
  \/ \E n \in Node, b \in Block :
       \/ commitNewWork(n, b)
       \/ wait(n, b)
       \/ insertChainSatellite(n, b)
       \/ insertChainStar(n, b)
       \/ \E i \in Star : ProcConsensusMsg(n, b, i)
  \/ \E b \in Block : Remote(b)

Next == Up \/ \E n \in Node : loadLastState(n)

Spec == Init /\ [][Next]_vars

\* Star nodes that stay up and connected: a block that can be imported is, and
\* every confirmation arrives once; that it arrives again is not to be relied on.
Fairness ==
  \A n \in Node \cap Star :
    /\ \A b \in Block : WF_vars(insertChainStar(n, b))
    /\ WF_vars(\E b \in Block : \E i \in Star \ blocksConsensus[n][b] : ProcConsensusMsg(n, b, i))

LiveSpec == Init /\ [][Up]_vars /\ Fairness

-----------------------------------------------------------------------------
TypeOK ==
  /\ db \in [Node -> SUBSET Block]
  /\ currentBlock \in [Node -> Block]
  /\ stableBlock \in [Node -> Block]
  /\ headBlockHash \in [Node -> Block]
  /\ currentHeader \in [Node -> Block]
  /\ canonical \in [Node -> SUBSET Block]
  /\ blocksConsensus \in [Node -> [Block -> SUBSET Star]]
  /\ childrenMap \in [Node -> [Block -> SUBSET Block]]
  /\ sealing \in [Node -> SUBSET Block]
  /\ produced \in SUBSET Block
  /\ consensusMsgs \in SUBSET (Block \X Star)
  /\ announced \in SUBSET Block

\* The star nodes that may count as holders of a block: those that store it
\* and those that are not followed.
Holders(b) == {i \in Star : i \in Node => b \in db[i]}

\* A block that a node holds stable or has announced to satellites is stored by
\* as many star nodes as VerifyConsensusOK asks for, through lost, repeated and
\* early confirmations and restarts.
ConfirmedIsHeld ==
  \A b \in announced \cup {stableBlock[n] : n \in Node} :
    b = Genesis \/ VerifyConsensusOK(Holders(b))

\* No confirmation is missed: whether the deciding bit is set by insertChain or
\* by ProcConsensusMsg, and whether it comes before or after the block, a stored
\* block with enough bits is not above the stable block.
ConfirmedIsStable ==
  \A n \in Node \cap Star : \A b \in db[n] :
    VerifyConsensusOK(blocksConsensus[n][b]) => numberOf[b] <= numberOf[stableBlock[n]]

\* The head that the miner extends is never below the stable block.
HeadNotBelowStable ==
  \A n \in Node : numberOf[stableBlock[n]] <= numberOf[currentBlock[n]]

\* What the pointers of a node refer to is in its database, with the ancestors.
PointersStored ==
  \A n \in Node :
    /\ {currentBlock[n], stableBlock[n], headBlockHash[n], currentHeader[n]} \subseteq db[n]
    /\ \A b \in db[n] : parentOf[b] \in db[n] /\ childrenMap[n][b] \subseteq db[n]

\* On a satellite, which never switches chains by stability, the number index,
\* the recorded head and the header chain are those of the head's chain.
SatelliteIndex ==
  \A n \in Node \ Star :
    /\ canonical[n] = Ancestors[currentBlock[n]]
    /\ headBlockHash[n] = currentBlock[n]
    /\ currentHeader[n] = currentBlock[n]

\* Only a restart lowers the stable block.
StableMonotone ==
  [][\A n \in Node : numberOf[stableBlock'[n]] < numberOf[stableBlock[n]]
       => stableBlock'[n] = Genesis /\ loadLastState(n)]_vars

\* A block that enough other star nodes have confirmed becomes stable on every
\* star node that stays up and connected, or is overtaken there, in whatever
\* order its confirmations, the block and its ancestors arrive.
StableReached ==
  \A n \in Node \cap Star, b \in Block :
    VerifyConsensusOK(Confirmers(b) \ {n}) ~> numberOf[stableBlock[n]] >= numberOf[b]

-----------------------------------------------------------------------------
(***************************************************************************)
(* What comments say and the code does not do.                             *)
(***************************************************************************)

\* The head is replaced when "current block and stable block are not on one
\* chain" (blockchain.go:1382, 1393), so never by a block when the old head
\* descends from the stable block.
SwitchOnlyOffChain ==
  [][\A n \in Node, b \in Block, i \in Star :
       ProcConsensusMsg(n, b, i) /\ currentBlock'[n] # currentBlock[n]
         => stableBlock'[n] \notin Ancestors[currentBlock[n]]]_vars

=============================================================================
