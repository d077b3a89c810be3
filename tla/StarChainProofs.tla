-------------------------- MODULE StarChainProofs --------------------------
(***************************************************************************)
(* Confirmation is safe for every network, tree of blocks and number of    *)
(* star nodes.  The inductive invariant says where confirmations come from *)
(* (Evidence) and how the pointers of a node lie in its database (Local).  *)
(***************************************************************************)
EXTENDS StarChain, BlockTreeProofs

(***************************************************************************)
(* The inductive invariant.                                                *)
(***************************************************************************)

\* The pointers of node n lie in its database, its children map follows the
\* parents, and no confirmed block is above its stable block.
Local(n) ==
  /\ {Genesis, currentBlock[n], stableBlock[n], headBlockHash[n], currentHeader[n]} \subseteq db[n]
  /\ \A b \in db[n] : parentOf[b] \in db[n]
  /\ \A x \in Block : \A y \in childrenMap[n][x] :
       y \in db[n] /\ y # Genesis /\ parentOf[y] = x
  /\ numberOf[stableBlock[n]] <= numberOf[currentBlock[n]]
  /\ \A b \in db[n] \ {Genesis} : currentBlock[n] # Genesis /\ headBlockHash[n] # Genesis
  /\ \A b \in sealing[n] : coinbaseOf[b] = n /\ b \notin produced /\ parentOf[b] \in db[n]
  /\ n \in Star => \A b \in db[n] :
       VerifyConsensusOK(blocksConsensus[n][b]) => numberOf[b] <= numberOf[stableBlock[n]]

\* Blocks exist once they have left their producer, who stores them; bits and
\* confirmations are those of nodes that store the block.
Evidence ==
  /\ Genesis \in produced
  /\ \A n \in Node : db[n] \subseteq produced
  /\ \A b \in produced : coinbaseOf[b] \in Holders(b)
  /\ \A b \in Block, i \in Star : <<b, i>> \in consensusMsgs =>
       b \in produced \ {Genesis} /\ i \in Holders(b)
  /\ \A n \in Node, b \in Block :
       /\ blocksConsensus[n][b] \subseteq Holders(b)
       /\ blocksConsensus[n][b] # {} => b \in produced
  /\ ConfirmedIsHeld

Inv == TypeOK /\ (\A n \in Node : Local(n)) /\ Evidence

\* The initial state: every node stores the genesis block and nothing else.
LEMMA InitInv == Init => Inv
<1> SUFFICES ASSUME Init PROVE Inv
  OBVIOUS
<1> USE BlockAssumption DEF Init
<1>1. TypeOK
  BY DEF TypeOK
<1>2. ASSUME NEW n \in Node PROVE Local(n)
  BY DEF Local, VerifyConsensusOK
<1>3. Evidence
  BY DEF Evidence, Holders, ConfirmedIsHeld
<1> QED BY <1>1, <1>2, <1>3 DEF Inv

\* What the switch of chains after a confirmation does to a node that stores D.
LEMMA Switch ==
  ASSUME TypeOK, NEW n \in Node, NEW b \in Block, NEW head \in Block, NEW D \in SUBSET Block,
         head \in D, StableAfter(n, b) \in D,
         head = Genesis => StableAfter(n, b) = Genesis,
         \A x \in Block : \A y \in childrenMap[n][x] :
           y \in D /\ y # Genesis /\ parentOf[y] = x
  PROVE  /\ CurrentAfter(n, b, head) \in D
         /\ numberOf[StableAfter(n, b)] <= numberOf[CurrentAfter(n, b, head)]
<1> DEFINE s == StableAfter(n, b)
           c == childrenMap[n]
           S == {x \in D : numberOf[x] >= numberOf[s]}
<1>1. c \in [Block -> SUBSET Block] /\ s \in Block
  BY DEF TypeOK
<1>2. \A x \in Block : numberOf[x] \in Nat
  BY BlockAssumption
<1>3. CASE isCurAndStableBlockInSameChain(head, s)
  <2>1. CurrentAfter(n, b, head) = head
    BY <1>3 DEF CurrentAfter
  <2>2. numberOf[s] <= numberOf[head]
    BY <1>1, <1>2, <1>3, BlockAssumption DEF isCurAndStableBlockInSameChain
  <2> QED BY <2>1, <2>2
<1>4. CASE ~isCurAndStableBlockInSameChain(head, s)
  <2>1. CurrentAfter(n, b, head) = getNewestBlockInStableChain(c, s)
    BY <1>4 DEF CurrentAfter
  <2>2. \A x \in Block : \A y \in c[x] : numberOf[y] = numberOf[x] + 1 /\ y \in D
    BY <1>1, BlockAssumption
  <2> HIDE DEF s, c
  <2>3. s \in S /\ \A x \in S : c[x] \subseteq S
    BY <1>1, <1>2, <2>2 DEF s
  <2>4. \A x \in Block : \A y \in c[x] : numberOf[y] > numberOf[x]
    BY <1>2, <2>2
  <2>5. getNewestBlockInStableChain(c, s) \in S
    <3>1. S \in SUBSET Block
      OBVIOUS
    <3> HIDE DEF S
    <3> QED BY <1>1, <2>3, <2>4, <3>1, NewestIn
  <2> QED BY <2>1, <2>5 DEF s
<1> QED BY <1>3, <1>4

\* Databases only grow, and with them the holders of every block.
LEMMA HoldersGrow ==
  ASSUME TypeOK, \A m \in Node : db[m] \subseteq db'[m]
  PROVE  \A b \in Block : /\ Holders(b) \subseteq Holders(b)'
                          /\ VerifyConsensusOK(Holders(b)) => VerifyConsensusOK(Holders(b)')
<1> SUFFICES ASSUME NEW b \in Block
             PROVE  /\ Holders(b) \subseteq Holders(b)'
                    /\ VerifyConsensusOK(Holders(b)) => VerifyConsensusOK(Holders(b)')
  OBVIOUS
<1>1. Holders(b) \subseteq Holders(b)' /\ Holders(b) \in SUBSET Star /\ Holders(b)' \in SUBSET Star
  BY DEF Holders
<1> QED BY <1>1, MoreBits

\* WriteBlockWithState stores the block and keeps the recorded heads stored.
LEMMA Store ==
  ASSUME Inv, NEW n \in Node, NEW b \in Block \ {Genesis}, parentOf[b] \in db[n],
         WriteBlockWithState(n, b)
  PROVE  /\ db' = [db EXCEPT ![n] = db[n] \cup {b}]
         /\ db' \in [Node -> SUBSET Block] /\ canonical' \in [Node -> SUBSET Block]
         /\ headBlockHash' \in [Node -> Block] /\ currentHeader' \in [Node -> Block]
         /\ \A m \in Node : db[m] \subseteq db'[m]
         /\ \A m \in Node \ {n} : /\ db'[m] = db[m]
                                  /\ headBlockHash'[m] = headBlockHash[m]
                                  /\ currentHeader'[m] = currentHeader[m]
         /\ db'[n] = db[n] \cup {b}
         /\ {headBlockHash'[n], currentHeader'[n], HeadWith(n, b)} \subseteq db'[n]
         /\ headBlockHash'[n] # Genesis /\ HeadWith(n, b) # Genesis
         /\ numberOf[HeadWith(n, b)] >= numberOf[currentBlock[n]]
<1> DEFINE chain == NewChain(n, b)
           moved == chain \ canonical[n]
           top == CHOOSE x \in moved : \A y \in moved : numberOf[y] <= numberOf[x]
<1>1. TypeOK /\ Local(n)
  BY DEF Inv
<1>2. \A x \in Block : numberOf[x] \in Nat /\ parentOf[x] \in Block
  BY BlockAssumption
<1>3. /\ db' = [db EXCEPT ![n] = db[n] \cup {b}]
      /\ db' \in [Node -> SUBSET Block]
      /\ \A m \in Node : db[m] \subseteq db'[m]
      /\ \A m \in Node \ {n} : db'[m] = db[m]
      /\ db'[n] = db[n] \cup {b}
  BY <1>1 DEF WriteBlockWithState, TypeOK
<1>4. chain \subseteq db[n] \cup {b} /\ chain \in SUBSET Block
  <2> DEFINE S == db[n] \cup {b}
  <2>1. \A y \in S : parentOf[y] \in S
    BY <1>1 DEF Local
  <2>2. S \in SUBSET Block /\ b \in S
    BY <1>1 DEF TypeOK
  <2> HIDE DEF S
  <2>3. Ancestors[b] \subseteq S
    BY <2>1, <2>2, AncestorsIn
  <2> QED BY <2>2, <2>3 DEF NewChain, S
<1>5. moved # {} => top \in moved
  BY <1>4, Highest
<1>6. /\ currentHeader' = [currentHeader EXCEPT ![n] = IF moved = {} THEN currentHeader[n] ELSE top]
      /\ headBlockHash' = [headBlockHash EXCEPT ![n] = IF chain = {} THEN headBlockHash[n] ELSE b]
      /\ canonical' = [canonical EXCEPT ![n] =
           {x \in canonical[n] : \A y \in chain : numberOf[x] # numberOf[y]} \cup chain]
  BY <1>1 DEF WriteBlockWithState, TypeOK
<1> HIDE DEF top
<1>7. /\ currentHeader' \in [Node -> Block] /\ headBlockHash' \in [Node -> Block]
      /\ canonical' \in [Node -> SUBSET Block]
      /\ currentHeader'[n] \in db'[n] /\ headBlockHash'[n] \in db'[n]
      /\ \A m \in Node \ {n} : /\ headBlockHash'[m] = headBlockHash[m]
                               /\ currentHeader'[m] = currentHeader[m]
  BY <1>1, <1>3, <1>4, <1>5, <1>6 DEF TypeOK, Local
<1>8. /\ HeadWith(n, b) \in db'[n] /\ HeadWith(n, b) # Genesis
      /\ numberOf[HeadWith(n, b)] >= numberOf[currentBlock[n]]
  <2>1. numberOf[b] > 0 /\ numberOf[Genesis] = 0 /\ currentBlock[n] \in Block
    BY <1>1, <1>2, BlockAssumption DEF TypeOK
  <2> QED BY <1>1, <1>2, <1>3, <2>1 DEF HeadWith, Local
<1>9. headBlockHash'[n] # Genesis
  <2>1. CASE currentBlock[n] = Genesis
    <3>1. HeadWith(n, b) = b
      BY <1>2, <2>1, BlockAssumption DEF HeadWith
    <3>2. Ancestors[Genesis] \subseteq {Genesis}
      <4> DEFINE S == {Genesis}
      <4>1. Genesis \in Block /\ S \in SUBSET Block /\ Genesis \in S /\ \A y \in S : parentOf[y] \in S
        BY BlockAssumption
      <4> HIDE DEF S
      <4>2. Ancestors[Genesis] \subseteq S
        BY <4>1, AncestorsIn
      <4> QED BY <4>2 DEF S
    <3>3. b \in Ancestors[b]
      BY DEF Ancestors
    <3>4. chain # {}
      BY <2>1, <3>1, <3>2, <3>3 DEF NewChain
    <3> QED BY <1>1, <1>6, <3>4 DEF TypeOK
  <2>2. CASE currentBlock[n] # Genesis
    BY <1>1, <1>6, <2>2 DEF TypeOK, Local
  <2> QED BY <2>1, <2>2
<1> QED BY <1>3, <1>7, <1>8, <1>9

-----------------------------------------------------------------------------
(***************************************************************************)
(* One lemma for each action.                                              *)
(***************************************************************************)

\* The variables that Local(m) reads.
localVars(m) == <<db[m], currentBlock[m], stableBlock[m], headBlockHash[m], currentHeader[m],
                  childrenMap[m], sealing[m], blocksConsensus[m]>>

\* A node whose own state is unchanged keeps Local if no block it is sealing
\* has left it.
LEMMA LocalUnchanged ==
  ASSUME NEW m \in Node, Local(m), localVars(m)' = localVars(m),
         \A b \in sealing[m] : b \in produced' => b \in produced
  PROVE  Local(m)'
<1>1. /\ db'[m] = db[m] /\ currentBlock'[m] = currentBlock[m] /\ stableBlock'[m] = stableBlock[m]
      /\ headBlockHash'[m] = headBlockHash[m] /\ currentHeader'[m] = currentHeader[m]
      /\ childrenMap'[m] = childrenMap[m] /\ sealing'[m] = sealing[m]
      /\ blocksConsensus'[m] = blocksConsensus[m]
  BY DEF localVars
<1> QED BY <1>1 DEF Local

\* Evidence is kept by a step that only adds to it what is held.
LEMMA EvidenceStep ==
  ASSUME Inv, TypeOK',
         \A m \in Node : db[m] \subseteq db'[m] /\ db'[m] \subseteq produced',
         produced \subseteq produced',
         \A x \in produced' : x \in produced \/ coinbaseOf[x] \in Holders(x)',
         \A x \in Block, i \in Star : <<x, i>> \in consensusMsgs' =>
           <<x, i>> \in consensusMsgs \/ (x \in produced' \ {Genesis} /\ i \in Holders(x)'),
         \A m \in Node, x \in Block : \A i \in blocksConsensus'[m][x] :
           i \in blocksConsensus[m][x] \/ (x \in produced' /\ i \in Holders(x)'),
         \A x \in announced' : x \in announced \/ VerifyConsensusOK(Holders(x)'),
         \A m \in Node, x \in Block : stableBlock'[m] = x =>
           x = stableBlock[m] \/ VerifyConsensusOK(Holders(x)')
  PROVE  Evidence'
<1>1. TypeOK /\ Evidence
  BY DEF Inv
<1>2. \A x \in Block : /\ Holders(x) \subseteq Holders(x)'
                       /\ VerifyConsensusOK(Holders(x)) => VerifyConsensusOK(Holders(x)')
  BY <1>1, HoldersGrow
<1>3. ConfirmedIsHeld'
  <2> SUFFICES ASSUME NEW x \in announced' \cup {stableBlock'[m] : m \in Node}, x # Genesis
               PROVE  VerifyConsensusOK(Holders(x)')
    BY DEF ConfirmedIsHeld
  <2>1. x \in Block
    BY DEF TypeOK
  <2>2. CASE x \in announced \cup {stableBlock[m] : m \in Node}
    BY <1>1, <1>2, <2>1, <2>2 DEF Evidence, ConfirmedIsHeld
  <2>3. CASE x \notin announced \cup {stableBlock[m] : m \in Node}
    <3>1. CASE x \in announced'
      BY <2>3, <3>1
    <3>2. CASE x \notin announced'
      <4>1. PICK m \in Node : stableBlock'[m] = x
        BY <3>2
      <4>2. x # stableBlock[m]
        BY <2>3
      <4> QED BY <2>1, <4>1, <4>2
    <3> QED BY <3>1, <3>2
  <2> QED BY <2>2, <2>3
<1>4. \A x \in produced' : coinbaseOf[x] \in Holders(x)'
  BY <1>1, <1>2 DEF Evidence, TypeOK
<1>5. \A x \in Block, i \in Star : <<x, i>> \in consensusMsgs' =>
        x \in produced' \ {Genesis} /\ i \in Holders(x)'
  BY <1>1, <1>2 DEF Evidence
<1>6. \A m \in Node, x \in Block : \A i \in blocksConsensus'[m][x] : i \in Holders(x)' /\ x \in produced'
  BY <1>1, <1>2 DEF Evidence, TypeOK
<1> QED BY <1>1, <1>3, <1>4, <1>5, <1>6 DEF Evidence

\* Starting a block.
LEMMA CommitInv ==
  ASSUME Inv, NEW n \in Node, NEW b \in Block, commitNewWork(n, b)
  PROVE  Inv'
<1> USE DEF commitNewWork, chainVars
<1>1. TypeOK'
  BY DEF Inv, TypeOK
<1>2. ASSUME NEW m \in Node PROVE Local(m)'
  <2>1. CASE m # n
    <3>1. sealing'[m] = sealing[m]
      BY <2>1 DEF Inv, TypeOK
    <3> QED BY <3>1, LocalUnchanged DEF Inv, localVars
  <2>2. CASE m = n
    <3>1. sealing'[n] = sealing[n] \cup {b}
      BY DEF Inv, TypeOK
    <3>2. Local(n) /\ coinbaseOf[b] = n /\ b \notin produced /\ parentOf[b] \in db[n]
      BY DEF Inv, Local
    <3>3. /\ db' = db /\ currentBlock' = currentBlock /\ stableBlock' = stableBlock
          /\ headBlockHash' = headBlockHash /\ currentHeader' = currentHeader
          /\ childrenMap' = childrenMap /\ produced' = produced /\ blocksConsensus' = blocksConsensus
      OBVIOUS
    <3> QED BY <2>2, <3>1, <3>2, <3>3 DEF Local
  <2> QED BY <2>1, <2>2
<1>3. Evidence'
  <2>1. db' = db /\ produced' = produced /\ consensusMsgs' = consensusMsgs
        /\ blocksConsensus' = blocksConsensus /\ announced' = announced /\ stableBlock' = stableBlock
    OBVIOUS
  <2>2. \A x \in Block : Holders(x)' = Holders(x)
    BY <2>1 DEF Holders
  <2>3. ConfirmedIsHeld'
    BY <2>1, <2>2 DEF Inv, TypeOK, Evidence, ConfirmedIsHeld
  <2> QED BY <2>1, <2>2, <2>3, BlockAssumption DEF Inv, TypeOK, Evidence
<1> QED BY <1>1, <1>2, <1>3 DEF Inv

\* A star node that is not followed produces a block.
LEMMA RemoteInv ==
  ASSUME Inv, NEW b \in Block, Remote(b)
  PROVE  Inv'
<1> USE DEF Remote, chainVars
<1>1. TypeOK'
  BY DEF Inv, TypeOK
<1>2. ASSUME NEW m \in Node PROVE Local(m)'
  <2>1. \A x \in sealing[m] : coinbaseOf[x] = m
    BY DEF Inv, Local
  <2> QED BY <2>1, LocalUnchanged DEF Inv, localVars
<1>3. Evidence'
  <2>1. db' = db /\ produced' = produced \cup {b} /\ consensusMsgs' = consensusMsgs
        /\ blocksConsensus' = blocksConsensus /\ announced' = announced /\ stableBlock' = stableBlock
    OBVIOUS
  <2>2. coinbaseOf[b] \in Holders(b)'
    BY BlockAssumption DEF Holders
  <2>3. \A m \in Node : db[m] \subseteq db'[m] /\ db'[m] \subseteq produced'
    BY <2>1 DEF Inv, Evidence
  <2> QED BY <1>1, <2>1, <2>2, <2>3, EvidenceStep
<1> QED BY <1>1, <1>2, <1>3 DEF Inv

\* A restart.
LEMMA RestartInv ==
  ASSUME Inv, NEW n \in Node, loadLastState(n)
  PROVE  Inv'
<1> USE DEF loadLastState, chainVars
<1>1. TypeOK'
  BY BlockAssumption DEF Inv, TypeOK
<1>2. ASSUME NEW m \in Node PROVE Local(m)'
  <2>1. CASE m # n
    <3>1. /\ currentBlock'[m] = currentBlock[m] /\ stableBlock'[m] = stableBlock[m]
          /\ blocksConsensus'[m] = blocksConsensus[m] /\ childrenMap'[m] = childrenMap[m]
          /\ sealing'[m] = sealing[m]
      BY <2>1 DEF Inv, TypeOK
    <3> QED BY <3>1, LocalUnchanged DEF Inv, localVars
  <2>2. CASE m = n
    <3>1. /\ currentBlock'[n] = headBlockHash[n] /\ stableBlock'[n] = Genesis
          /\ blocksConsensus'[n] = [x \in Block |-> {}] /\ childrenMap'[n] = [x \in Block |-> {}]
          /\ sealing'[n] = {}
      BY DEF Inv, TypeOK
    <3>2. numberOf[Genesis] = 0 /\ numberOf[headBlockHash[n]] \in Nat
      BY BlockAssumption DEF Inv, TypeOK
    <3>3. \A x \in db[n] : x \in Block
      BY DEF Inv, TypeOK
    <3> QED BY <2>2, <3>1, <3>2, <3>3 DEF Inv, Local, VerifyConsensusOK
  <2> QED BY <2>1, <2>2
<1>3. Evidence'
  <2>1. db' = db /\ produced' = produced /\ consensusMsgs' = consensusMsgs /\ announced' = announced
    OBVIOUS
  <2>2. \A m \in Node : stableBlock'[m] \in {stableBlock[m], Genesis}
                        /\ \A x \in Block : blocksConsensus'[m][x] \in {blocksConsensus[m][x], {}}
    BY DEF Inv, TypeOK
  <2>3. \A x \in Block : Holders(x)' = Holders(x)
    BY <2>1 DEF Holders
  <2>4. ConfirmedIsHeld'
    BY <2>1, <2>2, <2>3 DEF Inv, TypeOK, Evidence, ConfirmedIsHeld
  <2> QED BY <2>1, <2>2, <2>3, <2>4 DEF Inv, TypeOK, Evidence
<1> QED BY <1>1, <1>2, <1>3 DEF Inv

\* The worker stores a sealed block.
LEMMA WaitInv ==
  ASSUME Inv, NEW n \in Node, NEW b \in Block, wait(n, b)
  PROVE  Inv'
<1>1. TypeOK /\ Local(n) /\ Evidence
  BY DEF Inv
<1>2. coinbaseOf[b] = n /\ b \notin produced /\ parentOf[b] \in db[n] /\ b # Genesis
  BY <1>1 DEF wait, Local, Evidence
<1>3. WriteBlockWithState(n, b) /\ b \in Block \ {Genesis}
  BY <1>2 DEF wait
<1>4. /\ sealing' = [sealing EXCEPT ![n] = sealing[n] \ {b}]
      /\ currentBlock' = [currentBlock EXCEPT ![n] = HeadWith(n, b)]
      /\ produced' = produced \cup {b}
      /\ stableBlock' = stableBlock /\ blocksConsensus' = blocksConsensus
      /\ childrenMap' = childrenMap /\ consensusMsgs' = consensusMsgs /\ announced' = announced
  BY <1>1 DEF wait, TypeOK
<1>5. TypeOK'
  <2>1. HeadWith(n, b) \in Block
    BY <1>1 DEF HeadWith, TypeOK
  <2> QED BY <1>1, <1>2, <1>3, <1>4, <2>1, Store DEF TypeOK
<1>6. ASSUME NEW m \in Node PROVE Local(m)'
  <2>1. CASE m # n
    <3>1. localVars(m)' = localVars(m)
      BY <1>1, <1>2, <1>3, <1>4, <2>1, Store DEF TypeOK, localVars
    <3>2. b \notin sealing[m]
      BY <1>2, <2>1 DEF Inv, Local
    <3> QED BY <1>4, <3>1, <3>2, LocalUnchanged DEF Inv
  <2>2. CASE m = n
    <3>1. /\ db'[n] = db[n] \cup {b}
          /\ {headBlockHash'[n], currentHeader'[n], HeadWith(n, b)} \subseteq db'[n]
          /\ headBlockHash'[n] # Genesis /\ HeadWith(n, b) # Genesis
          /\ numberOf[HeadWith(n, b)] >= numberOf[currentBlock[n]]
      BY <1>2, <1>3, Store
    <3>2. /\ currentBlock'[n] = HeadWith(n, b) /\ stableBlock'[n] = stableBlock[n]
          /\ childrenMap'[n] = childrenMap[n] /\ blocksConsensus'[n] = blocksConsensus[n]
          /\ sealing'[n] = sealing[n] \ {b}
      BY <1>1, <1>4 DEF TypeOK
    <3>3. numberOf[stableBlock[n]] <= numberOf[HeadWith(n, b)]
      <4>1. HeadWith(n, b) \in Block /\ stableBlock[n] \in Block /\ currentBlock[n] \in Block
        BY <1>1 DEF HeadWith, TypeOK
      <4>2. numberOf[HeadWith(n, b)] \in Nat /\ numberOf[stableBlock[n]] \in Nat /\ numberOf[currentBlock[n]] \in Nat
        BY <4>1, BlockAssumption
      <4> QED BY <1>1, <3>1, <4>2 DEF Local
    <3>4. blocksConsensus[n][b] = {}
      BY <1>1, <1>2 DEF Evidence
    <3> QED BY <1>1, <1>2, <1>4, <2>2, <3>1, <3>2, <3>3, <3>4 DEF Local, VerifyConsensusOK
  <2> QED BY <2>1, <2>2
<1>7. Evidence'
  <2>1. \A m \in Node : db[m] \subseteq db'[m] /\ db'[m] \subseteq produced'
    BY <1>1, <1>2, <1>3, <1>4, Store DEF Evidence
  <2>2. coinbaseOf[b] \in Holders(b)'
    BY <1>2, <1>3, Store, BlockAssumption DEF Holders
  <2> QED BY <1>4, <1>5, <2>1, <2>2, EvidenceStep
<1> QED BY <1>5, <1>6, <1>7 DEF Inv

\* A satellite imports a block.
LEMMA SatelliteInv ==
  ASSUME Inv, NEW n \in Node, NEW b \in Block, insertChainSatellite(n, b)
  PROVE  Inv'
<1>1. TypeOK /\ Local(n) /\ Evidence
  BY DEF Inv
<1>2. n \notin Star /\ b \in produced /\ parentOf[b] \in db[n] /\ b \in Block \ {Genesis}
      /\ WriteBlockWithState(n, b)
  BY DEF insertChainSatellite, Importable
<1>3. /\ currentBlock' = [currentBlock EXCEPT ![n] = HeadWith(n, b)]
      /\ sealing' = sealing /\ produced' = produced
      /\ stableBlock' = stableBlock /\ blocksConsensus' = blocksConsensus
      /\ childrenMap' = childrenMap /\ consensusMsgs' = consensusMsgs /\ announced' = announced
  BY DEF insertChainSatellite
<1>4. TypeOK'
  <2>1. HeadWith(n, b) \in Block
    BY <1>1 DEF HeadWith, TypeOK
  <2> QED BY <1>1, <1>2, <1>3, <2>1, Store DEF TypeOK
<1>5. ASSUME NEW m \in Node PROVE Local(m)'
  <2>1. CASE m # n
    <3>1. localVars(m)' = localVars(m)
      BY <1>1, <1>2, <1>3, <2>1, Store DEF TypeOK, localVars
    <3> QED BY <1>3, <3>1, LocalUnchanged DEF Inv
  <2>2. CASE m = n
    <3>1. /\ db'[n] = db[n] \cup {b}
          /\ {headBlockHash'[n], currentHeader'[n], HeadWith(n, b)} \subseteq db'[n]
          /\ headBlockHash'[n] # Genesis /\ HeadWith(n, b) # Genesis
          /\ numberOf[HeadWith(n, b)] >= numberOf[currentBlock[n]]
      BY <1>2, Store
    <3>2. currentBlock'[n] = HeadWith(n, b)
      BY <1>1, <1>3 DEF TypeOK
    <3>3. numberOf[stableBlock[n]] <= numberOf[HeadWith(n, b)]
      <4>1. HeadWith(n, b) \in Block /\ stableBlock[n] \in Block /\ currentBlock[n] \in Block
        BY <1>1 DEF HeadWith, TypeOK
      <4>2. numberOf[HeadWith(n, b)] \in Nat /\ numberOf[stableBlock[n]] \in Nat /\ numberOf[currentBlock[n]] \in Nat
        BY <4>1, BlockAssumption
      <4> QED BY <1>1, <3>1, <4>2 DEF Local
    <3> QED BY <1>1, <1>2, <1>3, <2>2, <3>1, <3>2, <3>3 DEF Local
  <2> QED BY <2>1, <2>2
<1>6. Evidence'
  <2>1. \A m \in Node : db[m] \subseteq db'[m] /\ db'[m] \subseteq produced'
    BY <1>1, <1>2, <1>3, Store DEF Evidence
  <2> QED BY <1>3, <1>4, <2>1, EvidenceStep
<1> QED BY <1>4, <1>5, <1>6 DEF Inv

\* A confirmed block moves the stable block up to it, if anywhere.
LEMMA StableAfterFacts ==
  ASSUME TypeOK, NEW n \in Node, NEW b \in Block
  PROVE  /\ StableAfter(n, b) \in {b, stableBlock[n]} /\ StableAfter(n, b) \in Block
         /\ numberOf[StableAfter(n, b)] >= numberOf[b]
         /\ numberOf[StableAfter(n, b)] >= numberOf[stableBlock[n]]
<1>1. numberOf[b] \in Nat /\ numberOf[stableBlock[n]] \in Nat /\ stableBlock[n] \in Block
  BY BlockAssumption DEF TypeOK
<1> QED BY <1>1 DEF StableAfter

\* A star node handles a confirmation.
LEMMA ProcInv ==
  ASSUME Inv, NEW n \in Node, NEW b \in Block, NEW i \in Star, ProcConsensusMsg(n, b, i)
  PROVE  Inv'
<1> DEFINE flag == blocksConsensus[n][b] \cup {i}
           ok == HasBlock(n, b) /\ VerifyConsensusOK(flag)
           stable == IF ok THEN StableAfter(n, b) ELSE stableBlock[n]
           current == IF ok THEN CurrentAfter(n, b, currentBlock[n]) ELSE currentBlock[n]
<1>1. TypeOK /\ Local(n) /\ Evidence
  BY DEF Inv
<1>2. i \in Holders(b) /\ b \in produced \ {Genesis}
  BY <1>1 DEF ProcConsensusMsg, Confirmers, Evidence, Holders
<1>3. /\ blocksConsensus' = [blocksConsensus EXCEPT ![n][b] = flag]
      /\ stableBlock' = [stableBlock EXCEPT ![n] = stable]
      /\ currentBlock' = [currentBlock EXCEPT ![n] = current]
      /\ announced' = IF ok THEN announced \cup {b} ELSE announced
      /\ db' = db /\ headBlockHash' = headBlockHash /\ currentHeader' = currentHeader
      /\ canonical' = canonical /\ childrenMap' = childrenMap /\ sealing' = sealing
      /\ produced' = produced /\ consensusMsgs' = consensusMsgs
  BY <1>1 DEF ProcConsensusMsg, TypeOK, chainVars
<1>4. \A x \in Block : numberOf[x] \in Nat
  BY BlockAssumption
<1>5. /\ stable \in db[n] /\ current \in db[n]
      /\ numberOf[stable] <= numberOf[current]
      /\ numberOf[stableBlock[n]] <= numberOf[stable]
      /\ ok => numberOf[b] <= numberOf[stable]
  <2>1. CASE ok
    <3>1. StableAfter(n, b) \in db[n]
      BY <1>1, <2>1, StableAfterFacts DEF Local, HasBlock
    <3>2. currentBlock[n] = Genesis => StableAfter(n, b) = Genesis
      <4> SUFFICES ASSUME currentBlock[n] = Genesis PROVE StableAfter(n, b) = Genesis
        OBVIOUS
      <4>1. b = Genesis
        BY <1>1, <2>1 DEF Local, HasBlock
      <4>2. stableBlock[n] = Genesis
        <5>1. stableBlock[n] \in Block /\ numberOf[stableBlock[n]] <= numberOf[Genesis]
          BY <1>1 DEF Local, TypeOK
        <5> QED BY <1>4, <5>1, BlockAssumption
      <4> QED BY <1>1, <4>1, <4>2, StableAfterFacts
    <3>3. currentBlock[n] \in Block /\ currentBlock[n] \in db[n] /\ db[n] \in SUBSET Block
      BY <1>1 DEF TypeOK, Local
    <3>4. \A x \in Block : \A y \in childrenMap[n][x] : y \in db[n] /\ y # Genesis /\ parentOf[y] = x
      BY <1>1 DEF Local
    <3>5. /\ CurrentAfter(n, b, currentBlock[n]) \in db[n]
          /\ numberOf[StableAfter(n, b)] <= numberOf[CurrentAfter(n, b, currentBlock[n])]
      BY <1>1, <3>1, <3>2, <3>3, <3>4, Switch
    <3>6. stable = StableAfter(n, b) /\ current = CurrentAfter(n, b, currentBlock[n])
      BY <2>1
    <3>7. numberOf[StableAfter(n, b)] \in Nat /\ numberOf[stableBlock[n]] \in Nat
      BY <1>1, <1>4, StableAfterFacts DEF TypeOK
    <3> HIDE DEF ok, stable, current
    <3> QED BY <1>1, <1>4, <3>1, <3>5, <3>6, <3>7, StableAfterFacts
  <2>2. CASE ~ok
    <3>1. stableBlock[n] \in Block
      BY <1>1 DEF TypeOK
    <3> QED BY <1>1, <1>4, <2>2, <3>1 DEF Local
  <2> QED BY <2>1, <2>2
<1>6. /\ stableBlock'[n] = stable /\ currentBlock'[n] = current
      /\ blocksConsensus'[n] = [blocksConsensus[n] EXCEPT ![b] = flag]
      /\ flag \in SUBSET Star
  BY <1>1, <1>3 DEF TypeOK
<1>7. ok => VerifyConsensusOK(Holders(b))
  <2>1. flag \subseteq Holders(b) /\ Holders(b) \in SUBSET Star
    BY <1>1, <1>2 DEF Evidence, Holders
  <2> QED BY <1>6, <2>1, MoreBits
<1>8. ok <=> b \in db[n] /\ VerifyConsensusOK(flag)
  BY DEF HasBlock
<1>9. stable \in {stableBlock[n], b} /\ (~ok => stable = stableBlock[n])
  BY <1>1, StableAfterFacts
<1> HIDE DEF flag, ok, stable, current
<1>10. TypeOK'
  BY <1>1, <1>3, <1>5, <1>6 DEF TypeOK
<1>11. ASSUME NEW m \in Node PROVE Local(m)'
  <2>1. CASE m # n
    <3>1. localVars(m)' = localVars(m)
      BY <1>1, <1>3, <2>1 DEF TypeOK, localVars
    <3> QED BY <1>3, <3>1, LocalUnchanged DEF Inv
  <2>2. CASE m = n
    <3>1. \A x \in db[n] \ {Genesis} : current # Genesis
      <4>1. ok => numberOf[current] > 0
        <5>1. current \in Block /\ stable \in Block /\ numberOf[b] > 0
          BY <1>1, <1>2, <1>4, <1>5, BlockAssumption DEF TypeOK
        <5> QED BY <1>4, <1>5, <5>1
      <4>2. ~ok => current = currentBlock[n]
        BY DEF current
      <4> QED BY <1>1, <4>1, <4>2, BlockAssumption DEF Local
    <3>2. \A x \in db[n] : VerifyConsensusOK(blocksConsensus'[n][x]) => numberOf[x] <= numberOf[stable]
      <4> SUFFICES ASSUME NEW x \in db[n], VerifyConsensusOK(blocksConsensus'[n][x])
                   PROVE  numberOf[x] <= numberOf[stable]
        OBVIOUS
      <4>1. x \in Block /\ stable \in Block /\ stableBlock[n] \in Block
        BY <1>1, <1>5 DEF TypeOK
      <4>2. CASE x = b
        <5>1. blocksConsensus'[n][b] = flag
          BY <1>1, <1>6 DEF TypeOK
        <5> QED BY <1>5, <1>8, <4>2, <5>1
      <4>3. CASE x # b
        <5>1. blocksConsensus'[n][x] = blocksConsensus[n][x] /\ n \in Star
          BY <1>1, <1>6, <4>1, <4>3 DEF TypeOK, ProcConsensusMsg
        <5>2. numberOf[x] <= numberOf[stableBlock[n]]
          BY <1>1, <5>1 DEF Local
        <5> QED BY <1>4, <1>5, <4>1, <5>2
      <4> QED BY <4>2, <4>3
    <3>3. Local(n)
      BY <1>1
    <3> QED BY <1>3, <1>5, <1>6, <2>2, <3>1, <3>2, <3>3 DEF Local
  <2> QED BY <2>1, <2>2
<1>12. Evidence'
  <2>1. \A x \in Block : Holders(x)' = Holders(x)
    BY <1>3 DEF Holders
  <2>2. \A m \in Node, x \in Block : \A j \in blocksConsensus'[m][x] :
          j \in blocksConsensus[m][x] \/ (x \in produced' /\ j \in Holders(x)')
    BY <1>1, <1>2, <1>3, <2>1 DEF TypeOK, flag
  <2>3. \A m \in Node, x \in Block : stableBlock'[m] = x =>
          x = stableBlock[m] \/ VerifyConsensusOK(Holders(x)')
    BY <1>1, <1>3, <1>7, <1>9, <2>1 DEF TypeOK
  <2>4. \A m \in Node : db[m] \subseteq db'[m] /\ db'[m] \subseteq produced'
    BY <1>1, <1>3 DEF Evidence
  <2> QED BY <1>3, <1>7, <1>10, <2>1, <2>2, <2>3, <2>4, EvidenceStep
<1> QED BY <1>10, <1>11, <1>12 DEF Inv

\* A star node imports a block.
LEMMA StarInv ==
  ASSUME Inv, NEW n \in Node, NEW b \in Block, insertChainStar(n, b)
  PROVE  Inv'
<1> DEFINE flag == blocksConsensus[n][b] \cup {coinbaseOf[b], n}
           ok == VerifyConsensusOK(flag)
           head == HeadWith(n, b)
           stable == IF ok THEN StableAfter(n, b) ELSE stableBlock[n]
           current == IF ok THEN CurrentAfter(n, b, head) ELSE head
           D == db[n] \cup {b}
<1>1. TypeOK /\ Local(n) /\ Evidence
  BY DEF Inv
<1>2. n \in Star /\ b \in produced /\ parentOf[b] \in db[n] /\ b \in Block \ {Genesis}
      /\ WriteBlockWithState(n, b)
  BY DEF insertChainStar, Importable
<1>3. /\ blocksConsensus' = [blocksConsensus EXCEPT ![n][b] = flag]
      /\ stableBlock' = [stableBlock EXCEPT ![n] = stable]
      /\ currentBlock' = [currentBlock EXCEPT ![n] = current]
      /\ announced' = IF ok THEN announced \cup {b} ELSE announced
      /\ childrenMap' = [childrenMap EXCEPT ![n][parentOf[b]] = childrenMap[n][parentOf[b]] \cup {b}]
      /\ consensusMsgs' = consensusMsgs \cup {<<b, n>>}
      /\ sealing' = sealing /\ produced' = produced
  BY <1>1 DEF insertChainStar, TypeOK
<1>4. \A x \in Block : numberOf[x] \in Nat /\ parentOf[x] \in Block
  BY BlockAssumption
<1>5. /\ db'[n] = D /\ D \in SUBSET Block
      /\ db' \in [Node -> SUBSET Block] /\ canonical' \in [Node -> SUBSET Block]
      /\ headBlockHash' \in [Node -> Block] /\ currentHeader' \in [Node -> Block]
      /\ {headBlockHash'[n], currentHeader'[n], head} \subseteq D
      /\ headBlockHash'[n] # Genesis /\ head # Genesis
      /\ numberOf[head] >= numberOf[currentBlock[n]]
      /\ \A m \in Node : db[m] \subseteq db'[m]
      /\ \A m \in Node \ {n} : /\ db'[m] = db[m]
                               /\ headBlockHash'[m] = headBlockHash[m]
                               /\ currentHeader'[m] = currentHeader[m]
  BY <1>1, <1>2, Store DEF TypeOK
<1>6. /\ stable \in D /\ current \in D
      /\ numberOf[stable] <= numberOf[current]
      /\ numberOf[stableBlock[n]] <= numberOf[stable]
      /\ ok => numberOf[b] <= numberOf[stable]
      /\ ~ok => current = head
  <2>1. CASE ok
    <3>1. StableAfter(n, b) \in D /\ head \in D /\ head # Genesis /\ D \in SUBSET Block /\ head \in Block
      BY <1>1, <1>5, StableAfterFacts DEF Local
    <3>2. \A x \in Block : \A y \in childrenMap[n][x] : y \in D /\ y # Genesis /\ parentOf[y] = x
      BY <1>1 DEF Local
    <3>3. stable = StableAfter(n, b) /\ current = CurrentAfter(n, b, head)
      BY <2>1
    <3>4. numberOf[StableAfter(n, b)] \in Nat /\ numberOf[stableBlock[n]] \in Nat
      BY <1>1, <1>4, StableAfterFacts DEF TypeOK
    <3> HIDE DEF head, D
    <3>5. /\ CurrentAfter(n, b, head) \in D
          /\ numberOf[StableAfter(n, b)] <= numberOf[CurrentAfter(n, b, head)]
      BY <1>1, <3>1, <3>2, Switch
    <3> HIDE DEF ok, stable, current
    <3> QED BY <1>1, <1>4, <2>1, <3>1, <3>3, <3>4, <3>5, StableAfterFacts
  <2>2. CASE ~ok
    <3>1. stable = stableBlock[n] /\ current = head
      BY <2>2
    <3>2. stableBlock[n] \in Block /\ currentBlock[n] \in Block /\ head \in Block
      BY <1>1, <1>5 DEF TypeOK
    <3>3. numberOf[stableBlock[n]] <= numberOf[currentBlock[n]] /\ stableBlock[n] \in db[n]
      BY <1>1 DEF Local
    <3> HIDE DEF ok, stable, current, head
    <3> QED BY <1>4, <1>5, <2>2, <3>1, <3>2, <3>3
  <2> QED BY <2>1, <2>2
<1>7. /\ stableBlock'[n] = stable /\ currentBlock'[n] = current
      /\ blocksConsensus'[n] = [blocksConsensus[n] EXCEPT ![b] = flag]
      /\ childrenMap'[n] = [childrenMap[n] EXCEPT ![parentOf[b]] = childrenMap[n][parentOf[b]] \cup {b}]
      /\ flag \in SUBSET Star
  BY <1>1, <1>2, <1>3, BlockAssumption DEF TypeOK
<1>8. \A x \in Block : Holders(x) \subseteq Holders(x)'
  BY <1>1, <1>5, HoldersGrow
<1>9. n \in Holders(b)' /\ coinbaseOf[b] \in Holders(b)'
  <2>1. n \in Holders(b)'
    BY <1>2, <1>5 DEF Holders
  <2> QED BY <1>1, <1>2, <1>8, <2>1 DEF Evidence
<1>10. ok => VerifyConsensusOK(Holders(b)')
  <2>1. flag \subseteq Holders(b)' /\ Holders(b)' \in SUBSET Star
    BY <1>1, <1>8, <1>9 DEF Evidence, Holders
  <2> QED BY <1>7, <2>1, MoreBits
<1>11. stable \in {stableBlock[n], b} /\ (~ok => stable = stableBlock[n])
  BY <1>1, StableAfterFacts
<1>12. flag = blocksConsensus[n][b] \cup {coinbaseOf[b], n} /\ (ok <=> VerifyConsensusOK(flag))
  OBVIOUS
<1>13. D = db[n] \cup {b}
  OBVIOUS
<1> HIDE DEF flag, ok, stable, current, head, D
<1>14. TypeOK'
  <2>1. stable \in Block /\ current \in Block
    BY <1>5, <1>6
  <2>2. stableBlock' \in [Node -> Block] /\ currentBlock' \in [Node -> Block]
    BY <1>1, <1>3, <2>1 DEF TypeOK
  <2>3. blocksConsensus' \in [Node -> [Block -> SUBSET Star]]
    BY <1>1, <1>3, <1>7 DEF TypeOK
  <2>4. childrenMap' \in [Node -> [Block -> SUBSET Block]]
    BY <1>1, <1>3, <1>4 DEF TypeOK
  <2>5. /\ consensusMsgs' \in SUBSET (Block \X Star) /\ announced' \in SUBSET Block
        /\ sealing' \in [Node -> SUBSET Block] /\ produced' \in SUBSET Block
    BY <1>1, <1>2, <1>3 DEF TypeOK
  <2> QED BY <1>5, <2>2, <2>3, <2>4, <2>5 DEF TypeOK
<1>15. ASSUME NEW m \in Node PROVE Local(m)'
  <2>1. CASE m # n
    <3>1. localVars(m)' = localVars(m)
      BY <1>1, <1>3, <1>5, <2>1 DEF TypeOK, localVars
    <3> QED BY <1>3, <3>1, LocalUnchanged DEF Inv
  <2>2. CASE m = n
    <3>1. current # Genesis
      <4>1. ok => numberOf[current] > 0
        <5>1. current \in Block /\ stable \in Block /\ numberOf[b] > 0
          BY <1>1, <1>2, <1>4, <1>5, <1>6, BlockAssumption DEF TypeOK
        <5> QED BY <1>4, <1>6, <5>1
      <4> QED BY <1>5, <1>6, <4>1, BlockAssumption
    <3>2. \A x \in D : VerifyConsensusOK(blocksConsensus'[n][x]) => numberOf[x] <= numberOf[stable]
      <4> SUFFICES ASSUME NEW x \in D, VerifyConsensusOK(blocksConsensus'[n][x])
                   PROVE  numberOf[x] <= numberOf[stable]
        OBVIOUS
      <4>1. x \in Block /\ stable \in Block /\ stableBlock[n] \in Block
        BY <1>1, <1>5, <1>6 DEF TypeOK
      <4>2. CASE x = b
        <5>1. blocksConsensus'[n][b] = flag
          BY <1>1, <1>7 DEF TypeOK
        <5> QED BY <1>6, <1>12, <4>2, <5>1
      <4>3. CASE x # b
        <5>1. blocksConsensus'[n][x] = blocksConsensus[n][x] /\ x \in db[n]
          BY <1>1, <1>7, <1>13, <4>1, <4>3 DEF TypeOK
        <5>2. numberOf[x] <= numberOf[stableBlock[n]]
          BY <1>1, <1>2, <5>1 DEF Local
        <5> QED BY <1>4, <1>6, <4>1, <5>2
      <4> QED BY <4>2, <4>3
    <3>3. \A x \in Block : \A y \in childrenMap'[n][x] : y \in D /\ y # Genesis /\ parentOf[y] = x
      <4>1. \A x \in Block : childrenMap'[n][x] \subseteq childrenMap[n][x] \cup {b}
                             /\ (x # parentOf[b] => childrenMap'[n][x] = childrenMap[n][x])
        BY <1>1, <1>4, <1>7 DEF TypeOK
      <4>2. \A x \in Block : \A y \in childrenMap[n][x] : y \in db[n] /\ y # Genesis /\ parentOf[y] = x
        BY <1>1 DEF Local
      <4> QED BY <1>2, <1>13, <4>1, <4>2
    <3>4. \A x \in D : parentOf[x] \in D
      BY <1>1, <1>2, <1>13 DEF Local
    <3>5. \A x \in sealing'[n] : coinbaseOf[x] = n /\ x \notin produced' /\ parentOf[x] \in D
      BY <1>1, <1>3, <1>13 DEF Local
    <3>6. Genesis \in D
      BY <1>1, <1>13 DEF Local
    <3>7. /\ db'[n] = D /\ stableBlock'[n] = stable /\ currentBlock'[n] = current
          /\ {headBlockHash'[n], currentHeader'[n], stable, current} \subseteq D
          /\ headBlockHash'[n] # Genesis /\ numberOf[stable] <= numberOf[current]
      BY <1>5, <1>6, <1>7
    <3>8. Local(n)'
      BY <3>1, <3>2, <3>3, <3>4, <3>5, <3>6, <3>7 DEF Local
    <3> QED BY <2>2, <3>8
  <2> QED BY <2>1, <2>2
<1>16. Evidence'
  <2>1. \A m \in Node, x \in Block : \A j \in blocksConsensus'[m][x] :
          j \in blocksConsensus[m][x] \/ (x \in produced' /\ j \in Holders(x)')
    BY <1>1, <1>2, <1>3, <1>9, <1>12 DEF TypeOK
  <2>2. \A m \in Node, x \in Block : stableBlock'[m] = x =>
          x = stableBlock[m] \/ VerifyConsensusOK(Holders(x)')
    BY <1>1, <1>3, <1>10, <1>11 DEF TypeOK
  <2>3. \A m \in Node : db[m] \subseteq db'[m] /\ db'[m] \subseteq produced'
    BY <1>1, <1>2, <1>3, <1>5, <1>13 DEF Evidence
  <2>4. \A x \in Block, j \in Star : <<x, j>> \in consensusMsgs' =>
          <<x, j>> \in consensusMsgs \/ (x \in produced' \ {Genesis} /\ j \in Holders(x)')
    BY <1>2, <1>3, <1>9
  <2>5. \A x \in announced' : x \in announced \/ VerifyConsensusOK(Holders(x)')
    BY <1>3, <1>10
  <2> QED BY <1>3, <1>14, <2>1, <2>2, <2>3, <2>4, <2>5, EvidenceStep
<1> QED BY <1>14, <1>15, <1>16 DEF Inv

-----------------------------------------------------------------------------
\* A step that changes nothing keeps the invariant.
LEMMA StutterInv ==
  ASSUME Inv, UNCHANGED vars
  PROVE  Inv'
<1> USE DEF vars, chainVars
<1>1. TypeOK'
  BY DEF Inv, TypeOK
<1>2. ASSUME NEW m \in Node PROVE Local(m)'
  BY LocalUnchanged DEF Inv, localVars
<1>3. Evidence'
  BY <1>1, EvidenceStep DEF Inv, Evidence
<1> QED BY <1>1, <1>2, <1>3 DEF Inv

\* Every step keeps the invariant.
LEMMA NextInv ==
  ASSUME Inv, [Next]_vars
  PROVE  Inv'
<1>1. ASSUME NEW n \in Node, NEW b \in Block,
             \/ commitNewWork(n, b)
             \/ wait(n, b)
             \/ insertChainSatellite(n, b)
             \/ insertChainStar(n, b)
             \/ \E i \in Star : ProcConsensusMsg(n, b, i)
      PROVE  Inv'
  BY <1>1, CommitInv, WaitInv, SatelliteInv, StarInv, ProcInv
<1>2. ASSUME NEW b \in Block, Remote(b) PROVE Inv'
  BY <1>2, RemoteInv
<1>3. ASSUME NEW n \in Node, loadLastState(n) PROVE Inv'
  BY <1>3, RestartInv
<1> QED BY <1>1, <1>2, <1>3, StutterInv DEF Next, Up

\* The invariant holds in every behaviour.
LEMMA Invariance == Spec => []Inv
<1>1. Init => Inv
  BY InitInv
<1>2. Inv /\ [Next]_vars => Inv'
  BY NextInv
<1> QED BY <1>1, <1>2, PTL DEF Spec

\* Every variable keeps its type through all handlers and restarts.
THEOREM TypeCorrect == Spec => []TypeOK
<1>1. Inv => TypeOK
  BY DEF Inv
<1> QED BY <1>1, Invariance, PTL

\* For any number of star nodes up to 64 and any block tree: a block that
\* insertChain or ProcConsensusMsg found confirmed is stored by as many star
\* nodes as VerifyConsensusOK asks for.
THEOREM ConfirmationsAreHeld == Spec => []ConfirmedIsHeld
<1>1. Inv => ConfirmedIsHeld
  BY DEF Inv, Evidence
<1> QED BY <1>1, Invariance, PTL

\* Neither insertChain nor ProcConsensusMsg misses the confirmation that
\* completes a block's bits.
THEOREM ConfirmationsAreApplied == Spec => []ConfirmedIsStable
<1>1. Inv => ConfirmedIsStable
  BY DEF Inv, Local, ConfirmedIsStable
<1> QED BY <1>1, Invariance, PTL

\* Importing, mining, switching chains and restarting never leave the head
\* below the stable block.
THEOREM HeadFollowsStable == Spec => []HeadNotBelowStable
<1>1. Inv => HeadNotBelowStable
  BY DEF Inv, Local, HeadNotBelowStable
<1> QED BY <1>1, Invariance, PTL

\* The database of a node is closed under parents and recorded children, and
\* holds what the node's pointers refer to, the one the stable switch picks
\* from childrenMap included.
THEOREM PointersAreStored == Spec => []PointersStored
<1>1. Inv => PointersStored
  BY DEF Inv, Local, TypeOK, PointersStored
<1> QED BY <1>1, Invariance, PTL

\* No handler lowers the stable block; a restart resets it to the genesis
\* block (loadLastState).
THEOREM StableNeverFallsBack == Spec => StableMonotone
<1>1. Inv /\ [Next]_vars =>
        [\A n \in Node : numberOf[stableBlock'[n]] < numberOf[stableBlock[n]]
           => stableBlock'[n] = Genesis /\ loadLastState(n)]_vars
  <2> SUFFICES ASSUME Inv, Next, NEW n \in Node,
                      numberOf[stableBlock'[n]] < numberOf[stableBlock[n]]
               PROVE  stableBlock'[n] = Genesis /\ loadLastState(n)
    BY DEF vars
  <2>1. TypeOK /\ numberOf[stableBlock[n]] \in Nat
    BY BlockAssumption DEF Inv, TypeOK
  <2>2. ASSUME stableBlock' = stableBlock PROVE FALSE
    BY <2>1, <2>2
  <2>3. ASSUME NEW m \in Node, NEW b \in Block,
               \/ stableBlock' = [stableBlock EXCEPT ![m] = StableAfter(m, b)]
               \/ stableBlock' = [stableBlock EXCEPT ![m] = @]
        PROVE  FALSE
    <3>1. stableBlock'[n] \in {stableBlock[n], StableAfter(n, b)}
      BY <2>1, <2>3 DEF TypeOK
    <3>2. /\ StableAfter(n, b) \in Block
          /\ numberOf[StableAfter(n, b)] >= numberOf[stableBlock[n]]
      BY <2>1, StableAfterFacts
    <3>3. numberOf[StableAfter(n, b)] \in Nat
      BY <3>2, BlockAssumption
    <3> QED BY <2>1, <3>1, <3>2, <3>3
  <2>4. ASSUME NEW m \in Node, NEW b \in Block, NEW i \in Star, ProcConsensusMsg(m, b, i) PROVE FALSE
    BY <2>3, <2>4 DEF ProcConsensusMsg
  <2>5. ASSUME NEW m \in Node, NEW b \in Block, insertChainStar(m, b) PROVE FALSE
    BY <2>3, <2>5 DEF insertChainStar
  <2>6. ASSUME NEW m \in Node, NEW b \in Block,
               commitNewWork(m, b) \/ wait(m, b) \/ insertChainSatellite(m, b) \/ Remote(b)
        PROVE  FALSE
    BY <2>2, <2>6 DEF commitNewWork, wait, insertChainSatellite, Remote
  <2>7. ASSUME NEW b \in Block, Remote(b) PROVE FALSE
    BY <2>2, <2>7 DEF Remote
  <2>8. PICK m \in Node : loadLastState(m)
    BY <2>4, <2>5, <2>6, <2>7 DEF Next, Up
  <2>9. stableBlock' = [stableBlock EXCEPT ![m] = Genesis]
    BY <2>8 DEF loadLastState
  <2>10. n = m
    BY <2>1, <2>9 DEF TypeOK
  <2>11. stableBlock'[n] = Genesis
    BY <2>1, <2>9, <2>10 DEF TypeOK
  <2> QED BY <2>8, <2>10, <2>11
<1> QED BY <1>1, Invariance, PTL DEF Spec, StableMonotone
=============================================================================
