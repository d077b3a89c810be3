----------------------------- MODULE BlockTree -----------------------------
(***************************************************************************)
(* The tree of blocks and the questions about it that decide on the stable *)
(* block and the head: core/blockchain.go.                                 *)
(*                                                                         *)
(* Blocks are the members of a fixed tree: which of them come to exist,    *)
(* and when, is what the behaviours differ in.  All difficulties are 1 and *)
(* that of the genesis block is 0, so a block's total difficulty is its    *)
(* number.                                                                 *)
(***************************************************************************)
EXTENDS Integers, FiniteSets

CONSTANTS
  Star,        \* the star nodes, the addresses of the starlist
  Block, Genesis,
  parentOf, numberOf, coinbaseOf,   \* what the header of a block says
  hashOf,      \* the rank of a block's hash in byte order
  MaxNumber    \* bound on block numbers

ASSUME StarAssumption ==
  /\ IsFiniteSet(Star)
  /\ Cardinality(Star) \in 1 .. 64   \* the bits of a uint64

ASSUME BlockAssumption ==
  /\ Genesis \in Block
  /\ MaxNumber \in Nat
  /\ parentOf \in [Block -> Block]
  /\ numberOf \in [Block -> 0 .. MaxNumber]
  /\ coinbaseOf \in [Block -> Star]
  /\ hashOf \in [Block -> Nat]
  /\ \A b, c \in Block : hashOf[b] = hashOf[c] => b = c
  /\ \A b \in Block : numberOf[b] = 0 <=> b = Genesis
  /\ parentOf[Genesis] = Genesis
  /\ \A b \in Block \ {Genesis} : numberOf[b] = numberOf[parentOf[b]] + 1

-----------------------------------------------------------------------------
(***************************************************************************)
(* Chains.                                                                 *)
(***************************************************************************)

\* A block and its ancestors: the least set with b that parents do not leave.
Ancestors == [b \in Block |->
  {x \in Block : \A S \in SUBSET Block :
     b \in S /\ (\A y \in S : parentOf[y] \in S) => x \in S}]

\* A block and what childrenMap says descends from it.
Descendants(children, b) ==
  {x \in Block : \A S \in SUBSET Block :
     b \in S /\ (\A y \in S : children[y] \subseteq S) => x \in S}

\* getLeavesOfBlock
getLeavesOfBlock(children, b) ==
  {x \in Descendants(children, b) : children[x] = {}}

\* getNewestBlockInStableChain: the highest leaf, of these the first by hash.
getNewestBlockInStableChain(children, stable) ==
  LET leaves == getLeavesOfBlock(children, stable) IN
  CHOOSE b \in leaves : \A c \in leaves :
    \/ numberOf[c] < numberOf[b]
    \/ numberOf[c] = numberOf[b] /\ hashOf[b] <= hashOf[c]

\* A fault: a head below the stable block is let pass.
SameChainBelow(current, stable) ==
  numberOf[current] <= numberOf[stable] \/ current = stable

\* isCurAndStableBlockInSameChain: the loop from the head down to the stable
\* block's number asks for the block itself each time, not for its parent.
isCurAndStableBlockInSameChain(current, stable) ==
  \/ numberOf[current] = 0
  \/ numberOf[current] >= numberOf[stable] /\ current = stable

-----------------------------------------------------------------------------
(***************************************************************************)
(* Confirmations.                                                          *)
(***************************************************************************)

\* VerifyConsensusOK for the bits "flag" of a block; no bits, no map entry.
VerifyConsensusOK(flag) ==
  flag # {} /\ Cardinality(flag) >= (Cardinality(Star) * 2) \div 3
=============================================================================
