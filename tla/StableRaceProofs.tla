------------------------- MODULE StableRaceProofs -------------------------
(***************************************************************************)
(* However the goroutines of a star node interleave, no confirmation is    *)
(* missed and no pointer leaves the database, for every tree of blocks and *)
(* every number of star nodes.                                             *)
(***************************************************************************)
EXTENDS StableRace, BlockTreeProofs

\* Which steps a goroutine has.
Steady ==
  /\ pc[importer] # "has"
  /\ pc[miner] \in {"idle", "write", "batch", "insert", "written"}
  /\ \A g \in Handler : pc[g] \notin {"write", "batch", "insert", "written", "children"}

\* What the shared pointers and the map of children refer to.
Stored ==
  /\ {Genesis, currentBlock, stableBlock} \subseteq db
  /\ \A b \in db : parentOf[b] \in db
  /\ \A x \in Block : \A y \in childrenMap[x] : y \in db /\ y # Genesis /\ parentOf[y] = x

\* The steps at which a goroutine has found or put its block in the database.
Holding == {"insert", "written", "verify", "stable", "store", "chain", "newest", "switch",
            "announce", "children"}

\* What a goroutine knows about the block in its hand.
InHand ==
  /\ \A g \in Goroutine : newCurBlock[g] \in db /\ (pc[g] \in Holding => block[g] \in db)
  /\ pc[importer] # "idle" => block[importer] # Genesis /\ parentOf[block[importer]] \in db
  /\ pc[importer] # "idle" => block[importer] \in produced
  /\ pc[miner] # "idle" => block[miner] \notin produced /\ parentOf[block[miner]] \in db
  /\ pc[miner] # "idle" => coinbaseOf[block[miner]] = self

\* Bits are set for blocks that have left their producer.
Known ==
  /\ Genesis \in produced
  /\ \A b \in Block : blocksConsensus[b] # {} => b \in produced

\* A goroutine that is still to verify or to announce the block.
Working(b) ==
  \E g \in Handler \cup {importer} : block[g] = b /\ pc[g] \notin {"idle", "children"}

\* NoConfirmationMissed, with the steps that matter.
Pending ==
  \A b \in db \ {Genesis} :
    VerifyConsensusOK(blocksConsensus[b]) => b \in announced \/ Working(b)

Inv == TypeOK /\ Steady /\ Stored /\ InHand /\ Known /\ Pending

\* The invariant holds at first.
LEMMA InitInv == Init => Inv
<1> SUFFICES ASSUME Init PROVE Inv
  OBVIOUS
<1> USE BlockAssumption, RaceAssumption DEF Init, Goroutine, Handler
<1>1. TypeOK
  BY DEF TypeOK, Steps
<1>2. Steady /\ Stored /\ InHand
  BY DEF Steady, Stored, InHand, Holding
<1>3. Known /\ Pending
  BY DEF Known, Pending
<1> QED BY <1>1, <1>2, <1>3 DEF Inv

\* The goroutines are those of the importer, the miner and the handlers.
LEMMA Goroutines ==
  /\ importer \in Goroutine /\ miner \in Goroutine /\ Handler \subseteq Goroutine
  /\ importer \notin Handler /\ miner \notin Handler /\ importer # miner
  /\ \A g \in Goroutine : g = miner \/ g \in Handler \cup {importer}
  BY RaceAssumption DEF Goroutine, Handler

\* What a step of goroutine g does to the steps and blocks of all.
LEMMA WithFacts ==
  ASSUME TypeOK, NEW g \in Goroutine, NEW b \in Block, NEW from, NEW to \in Steps,
         With(g, b, from, to)
  PROVE  /\ pc[g] = from /\ pc'[g] = to
         /\ block'[g] = (IF to = "idle" THEN Genesis ELSE b)
         /\ \A h \in Goroutine : h # g => pc'[h] = pc[h] /\ block'[h] = block[h]
         /\ pc' \in [Goroutine -> Steps] /\ block' \in [Goroutine -> Block]
  BY BlockAssumption DEF TypeOK, With

\* Pending survives a step that accounts for each block that comes to need an
\* announcement and for each goroutine that gives up working on one.
LEMMA PendingStep ==
  ASSUME Inv, announced \subseteq announced',
         \A b \in db' \ {Genesis} : VerifyConsensusOK(blocksConsensus'[b]) =>
           (b \in db /\ VerifyConsensusOK(blocksConsensus[b])) \/ b \in announced' \/ Working(b)',
         \A h \in Handler \cup {importer} : pc[h] \notin {"idle", "children"} =>
           \/ block'[h] = block[h] /\ pc'[h] \notin {"idle", "children"}
           \/ block[h] \in announced'
           \/ block[h] \notin db'
           \/ ~VerifyConsensusOK(blocksConsensus'[block[h]])
  PROVE  Pending'
<1> SUFFICES ASSUME NEW b \in db' \ {Genesis}, VerifyConsensusOK(blocksConsensus'[b]),
                    b \notin announced', ~ Working(b)'
             PROVE  FALSE
  BY DEF Pending
<1>1. b \in db /\ VerifyConsensusOK(blocksConsensus[b]) /\ b \notin announced
  OBVIOUS
<1>2. PICK h \in Handler \cup {importer} : block[h] = b /\ pc[h] \notin {"idle", "children"}
  BY <1>1 DEF Inv, Pending, Working
<1>3. block'[h] = b /\ pc'[h] \notin {"idle", "children"}
  BY <1>2
<1> QED BY <1>3 DEF Working

\* Steps that only move a goroutine on: they decide something and change
\* neither the shared state nor the locals.
LEMMA MoveInv ==
  ASSUME Inv, NEW g \in Handler \cup {importer},
         (HasBlock(g) /\ g \in Handler) \/ Verify(g) \/ CheckStable(g) \/ CheckChain(g)
  PROVE  Inv'
<1>1. /\ g \in Goroutine /\ g # miner /\ importer \in Goroutine /\ miner \in Goroutine
      /\ importer \notin Handler /\ miner \notin Handler /\ Handler \subseteq Goroutine
      /\ importer # miner
  BY RaceAssumption DEF Goroutine, Handler
<1>2. UNCHANGED <<shared, localTd, newCurBlock>>
  BY DEF HasBlock, Verify, CheckStable, CheckChain
<1>3. /\ db' = db /\ currentBlock' = currentBlock /\ stableBlock' = stableBlock
      /\ blocksConsensus' = blocksConsensus /\ childrenMap' = childrenMap
      /\ produced' = produced /\ announced' = announced
      /\ localTd' = localTd /\ newCurBlock' = newCurBlock
  BY <1>2 DEF shared
<1>4. PICK from, to :
        /\ With(g, block[g], from, to)
        /\ \/ from = "has" /\ to = (IF block[g] \in db THEN "verify" ELSE "idle") /\ g \in Handler
           \/ /\ from = "verify"
              /\ to = (IF VerifyConsensusOK(blocksConsensus[block[g]]) THEN "stable" ELSE After(g))
           \/ from = "stable" /\ to \in {"store", "chain"}
           \/ from = "chain" /\ to \in {"announce", "newest"}
  BY DEF HasBlock, Verify, CheckStable, CheckChain, Goto
<1>5. to \in Steps /\ from # "idle" /\ block[g] \in Block
  BY <1>1, <1>4 DEF Steps, After, Inv, TypeOK
<1>6. /\ pc[g] = from /\ pc'[g] = to
      /\ block'[g] = (IF to = "idle" THEN Genesis ELSE block[g])
      /\ \A h \in Goroutine : h # g => pc'[h] = pc[h] /\ block'[h] = block[h]
      /\ pc' \in [Goroutine -> Steps] /\ block' \in [Goroutine -> Block]
  BY <1>1, <1>4, <1>5, WithFacts DEF Inv
<1>7. TypeOK'
  BY <1>3, <1>6 DEF Inv, TypeOK
<1>8. Steady'
  BY <1>1, <1>4, <1>6 DEF Inv, Steady, After
<1>9. Stored' /\ Known'
  BY <1>3 DEF Inv, Stored, Known
<1>10. InHand'
  <2>1. to \in Holding => block[g] \in db
    BY <1>1, <1>4, <1>6 DEF Inv, InHand, Holding, After
  <2>2. \A h \in Goroutine : newCurBlock'[h] \in db' /\ (pc'[h] \in Holding => block'[h] \in db')
    BY <1>3, <1>6, <2>1 DEF Inv, InHand, Holding
  <2>3. pc'[miner] = pc[miner] /\ block'[miner] = block[miner]
    BY <1>1, <1>6
  <2>4. pc'[importer] # "idle" => pc[importer] # "idle" /\ block'[importer] = block[importer]
    BY <1>1, <1>4, <1>5, <1>6
  <2> QED BY <1>3, <2>2, <2>3, <2>4 DEF Inv, InHand
<1>11. Pending'
  <2>1. \A h \in Handler \cup {importer} : pc[h] \notin {"idle", "children"} =>
          \/ block'[h] = block[h] /\ pc'[h] \notin {"idle", "children"}
          \/ block[h] \notin db'
          \/ ~VerifyConsensusOK(blocksConsensus'[block[h]])
    BY <1>1, <1>3, <1>4, <1>6 DEF After
  <2> QED BY <1>3, <2>1, PendingStep
<1> QED BY <1>7, <1>8, <1>9, <1>10, <1>11 DEF Inv

\* Another star node produces a block.
LEMMA RemoteInv ==
  ASSUME Inv, NEW b \in Block, Remote(b)
  PROVE  Inv'
<1>1. /\ db' = db /\ currentBlock' = currentBlock /\ stableBlock' = stableBlock
      /\ blocksConsensus' = blocksConsensus /\ childrenMap' = childrenMap
      /\ announced' = announced /\ pc' = pc /\ block' = block
      /\ localTd' = localTd /\ newCurBlock' = newCurBlock
      /\ produced' = produced \cup {b} /\ coinbaseOf[b] # self
  BY DEF Remote
<1>2. TypeOK'
  BY <1>1 DEF Inv, TypeOK
<1>3. Steady' /\ Stored' /\ Known'
  BY <1>1 DEF Inv, Steady, Stored, Known
<1>4. InHand'
  BY <1>1 DEF Inv, InHand
<1>5. Pending'
  BY <1>1, PendingStep DEF Inv
<1> QED BY <1>2, <1>3, <1>4, <1>5 DEF Inv

\* insertChain takes a block.
LEMMA ImportInv ==
  ASSUME Inv, NEW b \in Block, ImportBlock(b)
  PROVE  Inv'
<1>1. /\ db' = db /\ currentBlock' = currentBlock /\ stableBlock' = stableBlock
      /\ childrenMap' = childrenMap /\ produced' = produced /\ announced' = announced
      /\ localTd' = localTd /\ newCurBlock' = newCurBlock
      /\ blocksConsensus' = [blocksConsensus EXCEPT ![b] = @ \cup {coinbaseOf[b]}]
      /\ b \in produced \ {Genesis} /\ parentOf[b] \in db /\ With(importer, b, "idle", "write")
  BY DEF ImportBlock
<1>2. /\ pc[importer] = "idle" /\ pc'[importer] = "write" /\ block'[importer] = b
      /\ \A h \in Goroutine : h # importer => pc'[h] = pc[h] /\ block'[h] = block[h]
      /\ pc' \in [Goroutine -> Steps] /\ block' \in [Goroutine -> Block]
  BY <1>1, Goroutines, WithFacts DEF Inv, Steps
<1>3. /\ blocksConsensus' \in [Block -> SUBSET Star]
      /\ \A c \in Block : c # b => blocksConsensus'[c] = blocksConsensus[c]
  <2>1. coinbaseOf[b] \in Star
    BY BlockAssumption
  <2> QED BY <1>1, <2>1 DEF Inv, TypeOK
<1>4. TypeOK'
  BY <1>1, <1>2, <1>3 DEF Inv, TypeOK
<1>5. Steady' /\ Stored' /\ Known'
  <2>1. Known'
    BY <1>1, <1>3 DEF Inv, Known
  <2>2. Steady'
    BY <1>2, Goroutines DEF Inv, Steady
  <2> QED BY <1>1, <2>1, <2>2 DEF Inv, Stored
<1>6. InHand'
  <2>1. \A h \in Goroutine : newCurBlock'[h] \in db' /\ (pc'[h] \in Holding => block'[h] \in db')
    BY <1>1, <1>2 DEF Inv, InHand, Holding
  <2>2. pc'[miner] = pc[miner] /\ block'[miner] = block[miner]
    BY <1>2, Goroutines
  <2> QED BY <1>1, <1>2, <2>1, <2>2 DEF Inv, InHand
<1>7. Pending'
  <2>1. Working(b)'
    BY <1>2 DEF Working
  <2>2. \A h \in Handler \cup {importer} : pc[h] \notin {"idle", "children"} =>
          block'[h] = block[h] /\ pc'[h] \notin {"idle", "children"}
    BY <1>2, Goroutines
  <2>3. \A c \in db' \ {Genesis} : VerifyConsensusOK(blocksConsensus'[c]) =>
          (c \in db /\ VerifyConsensusOK(blocksConsensus[c])) \/ Working(c)'
    <3> SUFFICES ASSUME NEW c \in db' \ {Genesis}, VerifyConsensusOK(blocksConsensus'[c]), c # b
                 PROVE  c \in db /\ VerifyConsensusOK(blocksConsensus[c])
      BY <2>1
    <3>1. c \in Block
      BY <1>1 DEF Inv, TypeOK
    <3> QED BY <1>1, <1>3, <3>1
  <2> QED BY <1>1, <2>2, <2>3, PendingStep
<1> QED BY <1>4, <1>5, <1>6, <1>7 DEF Inv

\* The miner has sealed a block.
LEMMA MineInv ==
  ASSUME Inv, NEW b \in Block, MineBlock(b)
  PROVE  Inv'
<1>1. /\ db' = db /\ currentBlock' = currentBlock /\ stableBlock' = stableBlock
      /\ blocksConsensus' = blocksConsensus /\ childrenMap' = childrenMap
      /\ produced' = produced /\ announced' = announced
      /\ localTd' = localTd /\ newCurBlock' = newCurBlock
      /\ b \notin produced /\ parentOf[b] \in db /\ coinbaseOf[b] = self
      /\ With(miner, b, "idle", "write")
  BY DEF MineBlock, shared, Inv, Stored
<1>2. /\ pc'[miner] = "write" /\ block'[miner] = b
      /\ \A h \in Goroutine : h # miner => pc'[h] = pc[h] /\ block'[h] = block[h]
      /\ pc' \in [Goroutine -> Steps] /\ block' \in [Goroutine -> Block]
  BY <1>1, Goroutines, WithFacts DEF Inv, Steps
<1>3. TypeOK'
  BY <1>1, <1>2 DEF Inv, TypeOK
<1>4. Steady' /\ Stored' /\ Known'
  <2>1. Steady'
    BY <1>2, Goroutines DEF Inv, Steady
  <2> QED BY <1>1, <2>1 DEF Inv, Stored, Known
<1>5. InHand'
  BY <1>1, <1>2, Goroutines DEF Inv, InHand, Holding
<1>6. Pending'
  <2>1. \A h \in Handler \cup {importer} : pc[h] \notin {"idle", "children"} =>
          block'[h] = block[h] /\ pc'[h] \notin {"idle", "children"}
    BY <1>2, Goroutines
  <2> QED BY <1>1, <2>1, PendingStep DEF Inv
<1> QED BY <1>3, <1>4, <1>5, <1>6 DEF Inv

\* ProcConsensusMsg marks a confirmation.
LEMMA ConfirmationInv ==
  ASSUME Inv, NEW g \in Handler, NEW b \in Block, Confirmation(g, b)
  PROVE  Inv'
<1>1. /\ db' = db /\ currentBlock' = currentBlock /\ stableBlock' = stableBlock
      /\ childrenMap' = childrenMap /\ produced' = produced /\ announced' = announced
      /\ localTd' = localTd /\ newCurBlock' = newCurBlock
      /\ blocksConsensus' = [blocksConsensus EXCEPT ![b] = @ \cup {g}]
      /\ b \in produced \ {Genesis} /\ With(g, b, "idle", "has")
  BY DEF Confirmation
<1>2. /\ pc[g] = "idle" /\ pc'[g] = "has" /\ block'[g] = b
      /\ \A h \in Goroutine : h # g => pc'[h] = pc[h] /\ block'[h] = block[h]
      /\ pc' \in [Goroutine -> Steps] /\ block' \in [Goroutine -> Block]
  BY <1>1, Goroutines, WithFacts DEF Inv, Steps
<1>3. /\ blocksConsensus' \in [Block -> SUBSET Star]
      /\ \A c \in Block : c # b => blocksConsensus'[c] = blocksConsensus[c]
  BY <1>1 DEF Inv, TypeOK, Handler
<1>4. TypeOK'
  BY <1>1, <1>2, <1>3 DEF Inv, TypeOK
<1>5. Steady' /\ Stored' /\ Known'
  <2>1. Known'
    BY <1>1, <1>3 DEF Inv, Known
  <2>2. Steady'
    BY <1>2, Goroutines DEF Inv, Steady
  <2> QED BY <1>1, <2>1, <2>2 DEF Inv, Stored
<1>6. InHand'
  BY <1>1, <1>2, Goroutines DEF Inv, InHand, Holding
<1>7. Pending'
  <2>1. Working(b)'
    BY <1>2 DEF Working
  <2>2. \A h \in Handler \cup {importer} : pc[h] \notin {"idle", "children"} =>
          block'[h] = block[h] /\ pc'[h] \notin {"idle", "children"}
    BY <1>2, Goroutines
  <2>3. \A c \in db' \ {Genesis} : VerifyConsensusOK(blocksConsensus'[c]) =>
          (c \in db /\ VerifyConsensusOK(blocksConsensus[c])) \/ Working(c)'
    <3> SUFFICES ASSUME NEW c \in db' \ {Genesis}, VerifyConsensusOK(blocksConsensus'[c]), c # b
                 PROVE  c \in db /\ VerifyConsensusOK(blocksConsensus[c])
      BY <2>1
    <3>1. c \in Block
      BY <1>1 DEF Inv, TypeOK
    <3> QED BY <1>1, <1>3, <3>1
  <2> QED BY <1>1, <2>2, <2>3, PendingStep
<1> QED BY <1>4, <1>5, <1>6, <1>7 DEF Inv

-----------------------------------------------------------------------------
(***************************************************************************)
(* Storing a block.                                                        *)
(***************************************************************************)

\* The head is read under bc.mu.
LEMMA CompareInv ==
  ASSUME Inv, NEW g \in {importer, miner}, Compare(g)
  PROVE  Inv'
<1>1. /\ db' = db /\ currentBlock' = currentBlock /\ stableBlock' = stableBlock
      /\ blocksConsensus' = blocksConsensus /\ childrenMap' = childrenMap
      /\ produced' = produced /\ announced' = announced /\ newCurBlock' = newCurBlock
      /\ localTd' = [localTd EXCEPT ![g] = numberOf[currentBlock]]
      /\ With(g, block[g], "write", "batch")
  BY DEF Compare, Goto, shared
<1>2. /\ pc[g] = "write" /\ pc'[g] = "batch" /\ block'[g] = block[g]
      /\ \A h \in Goroutine : h # g => pc'[h] = pc[h] /\ block'[h] = block[h]
      /\ pc' \in [Goroutine -> Steps] /\ block' \in [Goroutine -> Block]
  <2>1. block[g] \in Block /\ g \in Goroutine
    BY Goroutines DEF Inv, TypeOK
  <2> QED BY <1>1, <2>1, WithFacts DEF Inv, Steps
<1>3. TypeOK'
  <2>1. numberOf[currentBlock] \in Nat
    BY BlockAssumption DEF Inv, TypeOK
  <2>2. localTd' \in [{importer, miner} -> Nat]
    BY <1>1, <2>1 DEF Inv, TypeOK
  <2> QED BY <1>1, <1>2, <2>2 DEF Inv, TypeOK
<1>4. \A h \in Goroutine : block'[h] = block[h]
  BY <1>2
<1>5. Steady' /\ Stored' /\ Known'
  <2>1. Steady'
    BY <1>2, Goroutines DEF Inv, Steady
  <2> QED BY <1>1, <2>1 DEF Inv, Stored, Known
<1>6. InHand'
  <2>1. \A h \in Goroutine : newCurBlock'[h] \in db' /\ (pc'[h] \in Holding => block'[h] \in db')
    BY <1>1, <1>2 DEF Inv, InHand, Holding
  <2>2. \A h \in {importer, miner} : pc'[h] # "idle" <=> pc[h] # "idle"
    BY <1>2, Goroutines
  <2> QED BY <1>1, <1>4, <2>1, <2>2, Goroutines DEF Inv, InHand
<1>7. Pending'
  <2>1. \A h \in Handler \cup {importer} : pc[h] \notin {"idle", "children"} =>
          block'[h] = block[h] /\ pc'[h] \notin {"idle", "children"}
    BY <1>2, Goroutines
  <2> QED BY <1>1, <2>1, PendingStep DEF Inv
<1> QED BY <1>3, <1>5, <1>6, <1>7 DEF Inv

\* The block goes to the database: the importer is still to verify it, and
\* nobody can have confirmed what the miner has not yet sent.
LEMMA BatchInv ==
  ASSUME Inv, NEW g \in {importer, miner}, Batch(g)
  PROVE  Inv'
<1>0. PICK b \in Block : b = block[g]
  BY Goroutines DEF Inv, TypeOK
<1>1. /\ db' = db \cup {b} /\ currentBlock' = currentBlock /\ stableBlock' = stableBlock
      /\ blocksConsensus' = blocksConsensus /\ childrenMap' = childrenMap
      /\ produced' = produced /\ announced' = announced /\ newCurBlock' = newCurBlock
      /\ localTd' = [localTd EXCEPT ![g] = 0]
  BY <1>0 DEF Batch
<1>2. PICK to \in {"insert", "written"} : With(g, b, "batch", to)
  BY <1>0 DEF Batch, Goto
<1>3. g \in Goroutine
  BY Goroutines
<1>4. /\ pc[g] = "batch" /\ pc'[g] = to /\ block'[g] = b
      /\ \A h \in Goroutine : h # g => pc'[h] = pc[h] /\ block'[h] = block[h]
      /\ pc' \in [Goroutine -> Steps] /\ block' \in [Goroutine -> Block]
  <2>1. to \in Steps /\ to # "idle"
    BY DEF Steps
  <2> QED BY <1>2, <1>3, <2>1, WithFacts DEF Inv
<1>5. TypeOK'
  <2>1. localTd' \in [{importer, miner} -> Nat]
    BY <1>1 DEF Inv, TypeOK
  <2> QED BY <1>1, <1>3, <1>4, <2>1 DEF Inv, TypeOK
<1>6. \A h \in Goroutine : block'[h] = block[h]
  BY <1>0, <1>4
<1>7. parentOf[b] \in db
  BY <1>0, <1>4, Goroutines DEF Inv, InHand
<1>8. Steady' /\ Stored' /\ Known'
  <2>1. Steady'
    BY <1>4, Goroutines DEF Inv, Steady
  <2>2. Stored'
    BY <1>1, <1>7 DEF Inv, Stored
  <2> QED BY <1>1, <2>1, <2>2 DEF Inv, Known
<1>9. InHand'
  <2>1. \A h \in Goroutine : newCurBlock'[h] \in db' /\ (pc'[h] \in Holding => block'[h] \in db')
    BY <1>1, <1>4 DEF Inv, InHand, Holding
  <2>2. \A h \in {importer, miner} : pc'[h] # "idle" <=> pc[h] # "idle"
    BY <1>4, Goroutines
  <2>3. block'[importer] = block[importer] /\ block'[miner] = block[miner]
    BY <1>6, Goroutines
  <2> QED BY <1>1, <2>1, <2>2, <2>3 DEF Inv, InHand
<1>10. Pending'
  <2>1. \A h \in Handler \cup {importer} : pc[h] \notin {"idle", "children"} =>
          block'[h] = block[h] /\ pc'[h] \notin {"idle", "children"}
    BY <1>4, <1>6, Goroutines
  <2>2. g = importer => Working(b)'
    BY <1>4 DEF Working
  <2>3. g = miner => blocksConsensus[b] = {}
    BY <1>0, <1>3, <1>4 DEF Inv, InHand, Known
  <2>4. \A c \in db' \ {Genesis} : VerifyConsensusOK(blocksConsensus'[c]) =>
          (c \in db /\ VerifyConsensusOK(blocksConsensus[c])) \/ Working(c)'
    <3> SUFFICES ASSUME NEW c \in db' \ {Genesis}, VerifyConsensusOK(blocksConsensus'[c]),
                        ~ Working(c)'
                 PROVE  c \in db /\ VerifyConsensusOK(blocksConsensus[c])
      OBVIOUS
    <3>1. blocksConsensus'[c] # {}
      BY DEF VerifyConsensusOK
    <3>2. c # b
      BY <1>1, <2>2, <2>3, <3>1
    <3> QED BY <1>1, <3>2
  <2> QED BY <1>1, <2>1, <2>4, PendingStep
<1> QED BY <1>5, <1>8, <1>9, <1>10 DEF Inv

\* insert makes the block the head.
LEMMA InsertInv ==
  ASSUME Inv, NEW g \in {importer, miner}, Insert(g)
  PROVE  Inv'
<1>1. /\ db' = db /\ currentBlock' = block[g] /\ stableBlock' = stableBlock
      /\ blocksConsensus' = blocksConsensus /\ childrenMap' = childrenMap
      /\ produced' = produced /\ announced' = announced /\ newCurBlock' = newCurBlock
      /\ localTd' = localTd /\ With(g, block[g], "insert", "written")
  BY DEF Insert, Goto
<1>2. block[g] \in Block /\ g \in Goroutine
  BY Goroutines DEF Inv, TypeOK
<1>3. /\ pc[g] = "insert" /\ pc'[g] = "written" /\ block'[g] = block[g]
      /\ \A h \in Goroutine : h # g => pc'[h] = pc[h] /\ block'[h] = block[h]
      /\ pc' \in [Goroutine -> Steps] /\ block' \in [Goroutine -> Block]
  BY <1>1, <1>2, WithFacts DEF Inv, Steps
<1>4. TypeOK'
  BY <1>1, <1>2, <1>3 DEF Inv, TypeOK
<1>5. block[g] \in db
  BY <1>2, <1>3 DEF Inv, InHand, Holding
<1>6. Steady' /\ Stored' /\ Known'
  <2>1. Steady'
    BY <1>3, Goroutines DEF Inv, Steady
  <2>2. Stored'
    BY <1>1, <1>5 DEF Inv, Stored
  <2> QED BY <1>1, <2>1, <2>2 DEF Inv, Known
<1>7. InHand'
  <2>1. \A h \in Goroutine : newCurBlock'[h] \in db' /\ (pc'[h] \in Holding => block'[h] \in db')
    BY <1>1, <1>3, <1>5 DEF Inv, InHand, Holding
  <2>2. \A h \in {importer, miner} : pc'[h] # "idle" <=> pc[h] # "idle"
    BY <1>3, Goroutines
  <2>3. block'[importer] = block[importer] /\ block'[miner] = block[miner]
    BY <1>3, Goroutines
  <2> QED BY <1>1, <2>1, <2>2, <2>3 DEF Inv, InHand
<1>8. Pending'
  <2>1. \A h \in Handler \cup {importer} : pc[h] \notin {"idle", "children"} =>
          block'[h] = block[h] /\ pc'[h] \notin {"idle", "children"}
    BY <1>3, Goroutines
  <2> QED BY <1>1, <2>1, PendingStep DEF Inv
<1> QED BY <1>4, <1>6, <1>7, <1>8 DEF Inv

\* The worker broadcasts what it stored.
LEMMA PostInv ==
  ASSUME Inv, Post
  PROVE  Inv'
<1>1. /\ db' = db /\ currentBlock' = currentBlock /\ stableBlock' = stableBlock
      /\ blocksConsensus' = blocksConsensus /\ childrenMap' = childrenMap
      /\ produced' = produced \cup {block[miner]} /\ announced' = announced
      /\ newCurBlock' = newCurBlock
      /\ localTd' = localTd /\ With(miner, block[miner], "written", "idle")
  BY DEF Post, Goto
<1>2. block[miner] \in Block
  BY Goroutines DEF Inv, TypeOK
<1>3. /\ pc'[miner] = "idle"
      /\ \A h \in Goroutine : h # miner => pc'[h] = pc[h] /\ block'[h] = block[h]
      /\ pc' \in [Goroutine -> Steps] /\ block' \in [Goroutine -> Block]
  BY <1>1, <1>2, Goroutines, WithFacts DEF Inv, Steps
<1>4. TypeOK'
  BY <1>1, <1>2, <1>3 DEF Inv, TypeOK
<1>5. Steady' /\ Stored' /\ Known'
  <2>1. Steady'
    BY <1>3, Goroutines DEF Inv, Steady
  <2> QED BY <1>1, <2>1 DEF Inv, Stored, Known
<1>6. InHand'
  <2>1. \A h \in Goroutine : newCurBlock'[h] \in db' /\ (pc'[h] \in Holding => block'[h] \in db')
    BY <1>1, <1>3 DEF Inv, InHand, Holding
  <2>2. pc'[importer] = pc[importer] /\ block'[importer] = block[importer]
    BY <1>3, Goroutines
  <2> QED BY <1>1, <1>3, <2>1, <2>2 DEF Inv, InHand
<1>7. Pending'
  <2>1. \A h \in Handler \cup {importer} : pc[h] \notin {"idle", "children"} =>
          block'[h] = block[h] /\ pc'[h] \notin {"idle", "children"}
    BY <1>3, Goroutines
  <2> QED BY <1>1, <2>1, PendingStep DEF Inv
<1> QED BY <1>4, <1>5, <1>6, <1>7 DEF Inv

\* insertChain marks the node's own confirmation.
LEMMA MarkInv ==
  ASSUME Inv, MarkOwn
  PROVE  Inv'
<1>0. PICK b \in Block : b = block[importer]
  BY Goroutines DEF Inv, TypeOK
<1>1. /\ db' = db /\ currentBlock' = currentBlock /\ stableBlock' = stableBlock
      /\ childrenMap' = childrenMap /\ produced' = produced /\ announced' = announced
      /\ localTd' = localTd /\ newCurBlock' = newCurBlock
      /\ blocksConsensus' = [blocksConsensus EXCEPT ![b] = @ \cup {self}]
      /\ With(importer, b, "written", "verify")
  BY <1>0 DEF MarkOwn, Goto
<1>3. /\ pc[importer] = "written" /\ pc'[importer] = "verify" /\ block'[importer] = b
      /\ \A h \in Goroutine : h # importer => pc'[h] = pc[h] /\ block'[h] = block[h]
      /\ pc' \in [Goroutine -> Steps] /\ block' \in [Goroutine -> Block]
  BY <1>1, Goroutines, WithFacts DEF Inv, Steps
<1>4. /\ blocksConsensus' \in [Block -> SUBSET Star]
      /\ \A c \in Block : c # b => blocksConsensus'[c] = blocksConsensus[c]
  BY <1>1, RaceAssumption DEF Inv, TypeOK
<1>5. TypeOK'
  BY <1>1, <1>3, <1>4 DEF Inv, TypeOK
<1>6. b \in produced /\ b \in db
  BY <1>0, <1>3, Goroutines DEF Inv, InHand, Holding
<1>7. Steady' /\ Stored' /\ Known'
  <2>1. Known'
    BY <1>1, <1>4, <1>6 DEF Inv, Known
  <2>2. Steady'
    BY <1>3, Goroutines DEF Inv, Steady
  <2> QED BY <1>1, <2>1, <2>2 DEF Inv, Stored
<1>8. InHand'
  <2>1. \A h \in Goroutine : newCurBlock'[h] \in db' /\ (pc'[h] \in Holding => block'[h] \in db')
    BY <1>1, <1>3, <1>6 DEF Inv, InHand, Holding
  <2>2. pc'[miner] = pc[miner] /\ block'[miner] = block[miner]
    BY <1>3, Goroutines
  <2> QED BY <1>0, <1>1, <1>3, <2>1, <2>2 DEF Inv, InHand
<1>9. Pending'
  <2>1. Working(b)'
    BY <1>3 DEF Working
  <2>2. \A h \in Handler \cup {importer} : pc[h] \notin {"idle", "children"} =>
          block'[h] = block[h] /\ pc'[h] \notin {"idle", "children"}
    BY <1>0, <1>3, Goroutines
  <2>3. \A c \in db' \ {Genesis} : VerifyConsensusOK(blocksConsensus'[c]) =>
          (c \in db /\ VerifyConsensusOK(blocksConsensus[c])) \/ Working(c)'
    <3> SUFFICES ASSUME NEW c \in db' \ {Genesis}, VerifyConsensusOK(blocksConsensus'[c]), c # b
                 PROVE  c \in db /\ VerifyConsensusOK(blocksConsensus[c])
      BY <2>1
    <3>1. c \in Block
      BY <1>1 DEF Inv, TypeOK
    <3> QED BY <1>1, <1>4, <3>1
  <2> QED BY <1>1, <2>2, <2>3, PendingStep
<1> QED BY <1>5, <1>7, <1>8, <1>9 DEF Inv

-----------------------------------------------------------------------------
(***************************************************************************)
(* Moving the stable block and the head.                                   *)
(***************************************************************************)

\* The three stores: of the stable block, of the new head in a local, and of
\* the head.
LEMMA PointerInv ==
  ASSUME Inv, NEW g \in Handler \cup {importer}, StoreStable(g) \/ Newest(g) \/ Switch(g)
  PROVE  Inv'
<1>1. /\ db' = db /\ blocksConsensus' = blocksConsensus /\ childrenMap' = childrenMap
      /\ produced' = produced /\ announced' = announced /\ localTd' = localTd
  BY DEF StoreStable, Newest, Switch, shared
<1>2. PICK from, to : /\ With(g, block[g], from, to)
                      /\ from \in {"store", "newest", "switch"}
                      /\ to \in {"chain", "switch", "announce"}
  BY DEF StoreStable, Newest, Switch, Goto
<1>3. block[g] \in Block /\ g \in Goroutine /\ g # miner
  BY Goroutines DEF Inv, TypeOK
<1>4. /\ pc[g] = from /\ pc'[g] = to /\ block'[g] = block[g]
      /\ \A h \in Goroutine : h # g => pc'[h] = pc[h] /\ block'[h] = block[h]
      /\ pc' \in [Goroutine -> Steps] /\ block' \in [Goroutine -> Block]
  <2>1. to \in Steps /\ to # "idle"
    BY <1>2 DEF Steps
  <2> QED BY <1>2, <1>3, <2>1, WithFacts DEF Inv
<1>5. block[g] \in db /\ newCurBlock[g] \in db
  BY <1>2, <1>3, <1>4 DEF Inv, InHand, Holding
<1>6. getNewestBlockInStableChain(childrenMap, stableBlock) \in db
  <2>1. childrenMap \in [Block -> SUBSET Block] /\ stableBlock \in Block /\ db \in SUBSET Block
    BY DEF Inv, TypeOK
  <2>2. \A x \in Block : \A y \in childrenMap[x] : y \in db /\ y # Genesis /\ parentOf[y] = x
    BY DEF Inv, Stored
  <2>3. \A x \in Block : \A y \in childrenMap[x] : numberOf[y] > numberOf[x]
    BY <2>1, <2>2, BlockAssumption
  <2>4. stableBlock \in db /\ \A y \in db : childrenMap[y] \subseteq db
    BY <2>1, <2>2 DEF Inv, Stored
  <2> QED BY <2>1, <2>3, <2>4, NewestIn
<1>7. /\ stableBlock' \in {stableBlock, block[g]}
      /\ currentBlock' \in {currentBlock, newCurBlock[g]}
  BY DEF StoreStable, Newest, Switch, shared
<1>8. \/ newCurBlock' = newCurBlock
      \/ newCurBlock' = [newCurBlock EXCEPT ![g] = Genesis]
      \/ newCurBlock' = [newCurBlock EXCEPT ![g] = getNewestBlockInStableChain(childrenMap, stableBlock)]
  BY DEF StoreStable, Newest, Switch
<1>9. /\ newCurBlock' \in [Goroutine -> Block]
      /\ \A h \in Goroutine : newCurBlock'[h] \in db
  <2>1. PICK v \in db : newCurBlock' = newCurBlock \/ newCurBlock' = [newCurBlock EXCEPT ![g] = v]
    BY <1>6, <1>8 DEF Inv, Stored
  <2>2. v \in Block
    BY DEF Inv, TypeOK
  <2> QED BY <2>1, <2>2 DEF Inv, TypeOK, InHand
<1>10. TypeOK'
  <2>1. stableBlock' \in Block /\ currentBlock' \in Block
    BY <1>3, <1>7 DEF Inv, TypeOK
  <2> QED BY <1>1, <1>4, <1>9, <2>1 DEF Inv, TypeOK
<1>11. Steady' /\ Stored' /\ Known'
  <2>1. Steady'
    BY <1>2, <1>3, <1>4, Goroutines DEF Inv, Steady
  <2>2. Stored'
    BY <1>1, <1>5, <1>7 DEF Inv, Stored
  <2> QED BY <1>1, <2>1, <2>2 DEF Inv, Known
<1>12. InHand'
  <2>1. \A h \in Goroutine : newCurBlock'[h] \in db' /\ (pc'[h] \in Holding => block'[h] \in db')
    BY <1>1, <1>4, <1>5, <1>9 DEF Inv, InHand, Holding
  <2>2. \A h \in {importer, miner} : pc'[h] # "idle" => pc[h] # "idle"
    BY <1>2, <1>3, <1>4, Goroutines
  <2>3. block'[importer] = block[importer] /\ block'[miner] = block[miner]
    BY <1>4, Goroutines
  <2> QED BY <1>1, <2>1, <2>2, <2>3 DEF Inv, InHand
<1>13. Pending'
  <2>1. \A h \in Handler \cup {importer} : pc[h] \notin {"idle", "children"} =>
          block'[h] = block[h] /\ pc'[h] \notin {"idle", "children"}
    BY <1>2, <1>4, Goroutines
  <2> QED BY <1>1, <2>1, PendingStep DEF Inv
<1> QED BY <1>10, <1>11, <1>12, <1>13 DEF Inv

\* The block is announced to satellites.
LEMMA AnnounceInv ==
  ASSUME Inv, NEW g \in Handler \cup {importer}, Announce(g)
  PROVE  Inv'
<1>1. /\ db' = db /\ currentBlock' = currentBlock /\ stableBlock' = stableBlock
      /\ blocksConsensus' = blocksConsensus /\ childrenMap' = childrenMap
      /\ produced' = produced /\ announced' = announced \cup {block[g]}
      /\ newCurBlock' = newCurBlock
      /\ localTd' = localTd /\ With(g, block[g], "announce", After(g))
  BY DEF Announce, Goto
<1>2. block[g] \in Block /\ g \in Goroutine /\ g # miner /\ After(g) \in Steps
  BY Goroutines DEF Inv, TypeOK, After, Steps
<1>3. /\ pc[g] = "announce" /\ pc'[g] = After(g)
      /\ block'[g] = (IF After(g) = "idle" THEN Genesis ELSE block[g])
      /\ \A h \in Goroutine : h # g => pc'[h] = pc[h] /\ block'[h] = block[h]
      /\ pc' \in [Goroutine -> Steps] /\ block' \in [Goroutine -> Block]
  BY <1>1, <1>2, WithFacts DEF Inv
<1>4. TypeOK'
  BY <1>1, <1>2, <1>3 DEF Inv, TypeOK
<1>5. Steady' /\ Stored' /\ Known'
  <2>1. Steady'
    BY <1>2, <1>3, Goroutines DEF Inv, Steady, After
  <2> QED BY <1>1, <2>1 DEF Inv, Stored, Known
<1>6. InHand'
  <2>1. block[g] \in db
    BY <1>2, <1>3 DEF Inv, InHand, Holding
  <2>2. \A h \in Goroutine : newCurBlock'[h] \in db' /\ (pc'[h] \in Holding => block'[h] \in db')
    BY <1>1, <1>3, <2>1 DEF Inv, InHand, Holding, After
  <2>3. pc'[miner] = pc[miner] /\ block'[miner] = block[miner]
    BY <1>2, <1>3, Goroutines
  <2>4. pc'[importer] # "idle" => pc[importer] # "idle" /\ block'[importer] = block[importer]
    BY <1>2, <1>3, Goroutines
  <2> QED BY <1>1, <2>2, <2>3, <2>4 DEF Inv, InHand
<1>7. Pending'
  <2>1. \A h \in Handler \cup {importer} : pc[h] \notin {"idle", "children"} =>
          \/ block'[h] = block[h] /\ pc'[h] \notin {"idle", "children"}
          \/ block[h] \in announced'
    BY <1>1, <1>3, Goroutines
  <2> QED BY <1>1, <2>1, PendingStep DEF Inv
<1> QED BY <1>4, <1>5, <1>6, <1>7 DEF Inv

\* insertChain records the block as a child of its parent.
LEMMA ChildInv ==
  ASSUME Inv, AddChild
  PROVE  Inv'
<1>0. PICK b \in Block : b = block[importer]
  BY Goroutines DEF Inv, TypeOK
<1>1. /\ db' = db /\ currentBlock' = currentBlock /\ stableBlock' = stableBlock
      /\ blocksConsensus' = blocksConsensus
      /\ childrenMap' = [childrenMap EXCEPT ![parentOf[b]] = @ \cup {b}]
      /\ produced' = produced /\ announced' = announced /\ newCurBlock' = newCurBlock
      /\ localTd' = localTd /\ With(importer, b, "children", "idle")
  BY <1>0 DEF AddChild, Goto
<1>2. parentOf[b] \in Block
  BY BlockAssumption
<1>3. /\ pc[importer] = "children" /\ pc'[importer] = "idle"
      /\ \A h \in Goroutine : h # importer => pc'[h] = pc[h] /\ block'[h] = block[h]
      /\ pc' \in [Goroutine -> Steps] /\ block' \in [Goroutine -> Block]
  BY <1>1, Goroutines, WithFacts DEF Inv, Steps
<1>4. /\ childrenMap' \in [Block -> SUBSET Block]
      /\ \A x \in Block : \A y \in childrenMap'[x] :
           y \in childrenMap[x] \/ (y = b /\ x = parentOf[b])
  BY <1>1, <1>2 DEF Inv, TypeOK
<1>5. TypeOK'
  BY <1>1, <1>3, <1>4 DEF Inv, TypeOK
<1>6. b \in db \ {Genesis}
  BY <1>0, <1>3, Goroutines DEF Inv, InHand, Holding
<1>7. Steady' /\ Stored' /\ Known'
  <2>1. Steady'
    BY <1>3, Goroutines DEF Inv, Steady
  <2>2. Stored'
    BY <1>1, <1>4, <1>6 DEF Inv, Stored
  <2> QED BY <1>1, <2>1, <2>2 DEF Inv, Known
<1>8. InHand'
  <2>1. \A h \in Goroutine : newCurBlock'[h] \in db' /\ (pc'[h] \in Holding => block'[h] \in db')
    BY <1>1, <1>3 DEF Inv, InHand, Holding
  <2>2. pc'[miner] = pc[miner] /\ block'[miner] = block[miner]
    BY <1>3, Goroutines
  <2> QED BY <1>1, <1>3, <2>1, <2>2 DEF Inv, InHand
<1>9. Pending'
  <2>1. \A h \in Handler \cup {importer} : pc[h] \notin {"idle", "children"} =>
          block'[h] = block[h] /\ pc'[h] \notin {"idle", "children"}
    BY <1>3, Goroutines
  <2> QED BY <1>1, <2>1, PendingStep DEF Inv
<1> QED BY <1>5, <1>7, <1>8, <1>9 DEF Inv

\* A step that changes nothing keeps the invariant.
LEMMA StutterInv ==
  ASSUME Inv, UNCHANGED vars
  PROVE  Inv'
<1> USE DEF vars, shared
<1>1. TypeOK' /\ Steady' /\ Stored'
  BY DEF Inv, TypeOK, Steady, Stored
<1>2. InHand' /\ Known'
  BY DEF Inv, InHand, Known
<1>3. Pending'
  BY DEF Inv, Pending, Working
<1> QED BY <1>1, <1>2, <1>3 DEF Inv

\* Every step keeps the invariant.
LEMMA NextInv ==
  ASSUME Inv, [Next]_vars
  PROVE  Inv'
<1>1. ASSUME NEW b \in Block, Remote(b) \/ ImportBlock(b) \/ MineBlock(b) PROVE Inv'
  BY <1>1, RemoteInv, ImportInv, MineInv
<1>2. ASSUME NEW g \in Handler, HasBlock(g) \/ \E b \in Block : Confirmation(g, b) PROVE Inv'
  BY <1>2, MoveInv, ConfirmationInv
<1>3. ASSUME NEW g \in {importer, miner}, Store(g) PROVE Inv'
  BY <1>3, CompareInv, BatchInv, InsertInv DEF Store
<1>4. ASSUME NEW g \in Handler \cup {importer}, Confirm(g) PROVE Inv'
  BY <1>4, MoveInv, PointerInv, AnnounceInv DEF Confirm
<1> QED BY <1>1, <1>2, <1>3, <1>4, PostInv, MarkInv, ChildInv, StutterInv DEF Next

\* The invariant holds in every behaviour.
LEMMA Invariance == Spec => []Inv
<1>1. Inv /\ [Next]_vars => Inv'
  BY NextInv
<1> QED BY <1>1, InitInv, PTL DEF Spec

\* Every variable keeps its type.
THEOREM TypeCorrect == Spec => []TypeOK
<1>1. Inv => TypeOK
  BY DEF Inv
<1> QED BY <1>1, Invariance, PTL

\* In every interleaving of insertChain, ProcConsensusMsg and the miner's
\* store, the goroutine that sets the deciding bit of a block, or one after
\* it, announces the block.
THEOREM NoneMissed == Spec => []NoConfirmationMissed
<1>1. Inv => NoConfirmationMissed
  <2> SUFFICES ASSUME Inv, NEW b \in db \ {Genesis}, VerifyConsensusOK(blocksConsensus[b]),
                      b \notin announced
               PROVE  \E g \in Goroutine : pc[g] # "idle" /\ block[g] = b
    BY DEF NoConfirmationMissed
  <2>1. Working(b)
    BY DEF Inv, Pending
  <2> QED BY <2>1, Goroutines DEF Working
<1> QED BY <1>1, Invariance, PTL

\* Unsynchronised stores of the head and the stable block never make them
\* refer to a block that is not stored.
THEOREM PointersAreStored == Spec => []PointersStored
<1>1. Inv => PointersStored
  BY DEF Inv, TypeOK, Stored, PointersStored
<1> QED BY <1>1, Invariance, PTL
=============================================================================
