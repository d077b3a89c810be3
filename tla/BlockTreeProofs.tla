-------------------------- MODULE BlockTreeProofs --------------------------
(***************************************************************************)
(* Facts about the tree of blocks, for every tree: the new head that       *)
(* getNewestBlockInStableChain picks exists and descends from the stable   *)
(* block, and further bits do not undo a confirmation.                     *)
(***************************************************************************)
EXTENDS BlockTree, FiniteSetTheorems, WellFoundedInduction, TLAPS

(***************************************************************************)
(* The choice of the new head.                                             *)
(***************************************************************************)

\* A set of blocks that is closed under recorded children and contains b
\* contains what descends from b.
LEMMA DescendantsIn ==
  ASSUME NEW children, NEW b \in Block, NEW S \in SUBSET Block,
         b \in S, \A y \in S : children[y] \subseteq S
  PROVE  Descendants(children, b) \subseteq S
  BY DEF Descendants

\* The descendants of a block include it and are closed themselves.
LEMMA DescendantsClosed ==
  ASSUME NEW children \in [Block -> SUBSET Block], NEW b \in Block
  PROVE  /\ b \in Descendants(children, b)
         /\ \A y \in Descendants(children, b) : children[y] \subseteq Descendants(children, b)
  BY DEF Descendants

\* A nonempty set of naturals has a least element.
LEMMA LeastOf ==
  ASSUME NEW T \in SUBSET Nat, T # {}
  PROVE  \E m \in T : \A k \in T : m <= k
<1> DEFINE R == OpToRel(<, Nat)
<1>1. PICK m \in T : \A k \in T : ~ (<<k, m>> \in R)
  <2> HIDE DEF R
  <2>1. IsWellFoundedOn(R, Nat)
    BY NatLessThanWellFounded DEF R
  <2> QED BY <2>1, WFMin
<1>2. \A k \in T : ~ (k < m)
  BY <1>1 DEF OpToRel
<1> QED BY <1>2

\* A nonempty set of blocks has one of the highest number.
LEMMA Highest ==
  ASSUME NEW S \in SUBSET Block, S # {}
  PROVE  \E b \in S : \A c \in S : numberOf[c] <= numberOf[b]
<1> DEFINE T == {MaxNumber - numberOf[b] : b \in S}
<1>1. T \in SUBSET Nat /\ T # {}
  BY BlockAssumption
<1>2. PICK m \in T : \A k \in T : m <= k
  BY <1>1, LeastOf
<1>3. PICK b \in S : m = MaxNumber - numberOf[b]
  BY <1>2
<1>4. \A c \in S : MaxNumber - numberOf[b] <= MaxNumber - numberOf[c]
  BY <1>2, <1>3
<1>5. \A c \in S : numberOf[c] \in Nat /\ numberOf[b] \in Nat
  BY BlockAssumption
<1> QED BY <1>4, <1>5, BlockAssumption

\* Of the highest blocks of a set one comes first by hash.
LEMMA FirstHighest ==
  ASSUME NEW S \in SUBSET Block, S # {}
  PROVE  \E b \in S : \A c \in S :
           \/ numberOf[c] < numberOf[b]
           \/ numberOf[c] = numberOf[b] /\ hashOf[b] <= hashOf[c]
<1>1. PICK h \in S : \A c \in S : numberOf[c] <= numberOf[h]
  BY Highest
<1> DEFINE T == {hashOf[b] : b \in {c \in S : numberOf[c] = numberOf[h]}}
<1>2. T \in SUBSET Nat /\ T # {}
  BY BlockAssumption
<1>3. PICK m \in T : \A k \in T : m <= k
  BY <1>2, LeastOf
<1>4. PICK b \in S : numberOf[b] = numberOf[h] /\ m = hashOf[b]
  BY <1>3
<1>5. \A c \in S : numberOf[c] = numberOf[h] => hashOf[b] <= hashOf[c]
  BY <1>3, <1>4
<1>6. \A c \in S : numberOf[c] \in Nat
  BY BlockAssumption
<1> QED BY <1>1, <1>4, <1>5, <1>6

\* getNewestBlockInStableChain finds a block, and every closed set that
\* contains the stable block contains it.
LEMMA NewestIn ==
  ASSUME NEW children \in [Block -> SUBSET Block], NEW stable \in Block,
         \A x \in Block : \A y \in children[x] : numberOf[y] > numberOf[x],
         NEW S \in SUBSET Block, stable \in S, \A y \in S : children[y] \subseteq S
  PROVE  getNewestBlockInStableChain(children, stable) \in S
<1> DEFINE D == Descendants(children, stable)
           leaves == getLeavesOfBlock(children, stable)
<1>1. D \in SUBSET Block /\ D # {}
  BY DescendantsClosed DEF Descendants
<1>2. PICK h \in D : \A c \in D : numberOf[c] <= numberOf[h]
  BY <1>1, Highest
<1>3. children[h] = {}
  <2> SUFFICES ASSUME NEW y \in children[h] PROVE FALSE
    OBVIOUS
  <2>1. y \in D /\ h \in Block
    BY <1>1, DescendantsClosed
  <2>2. numberOf[y] <= numberOf[h] /\ numberOf[y] > numberOf[h]
    BY <1>2, <2>1
  <2>3. numberOf[y] \in Int /\ numberOf[h] \in Int
    BY <1>1, <2>1, BlockAssumption
  <2> QED BY <2>2, <2>3
<1>4. leaves \in SUBSET Block /\ leaves # {}
  BY <1>1, <1>3 DEF getLeavesOfBlock
<1>5. getNewestBlockInStableChain(children, stable) \in leaves
  BY <1>4, FirstHighest DEF getNewestBlockInStableChain
<1> QED BY <1>5, DescendantsIn DEF getLeavesOfBlock

\* More bits do not undo a confirmation.
LEMMA MoreBits ==
  ASSUME NEW F \in SUBSET Star, NEW G \in SUBSET Star, F \subseteq G, VerifyConsensusOK(F)
  PROVE  VerifyConsensusOK(G)
<1>1. IsFiniteSet(G) /\ IsFiniteSet(F)
  BY StarAssumption, FS_Subset
<1>2. Cardinality(F) <= Cardinality(G)
  BY <1>1, FS_Subset
<1>3. Cardinality(F) \in Nat /\ Cardinality(G) \in Nat /\ (Cardinality(Star) * 2) \div 3 \in Int
  BY <1>1, StarAssumption, FS_CardinalityType
<1> QED BY <1>2, <1>3 DEF VerifyConsensusOK

\* A set closed under parents that contains b contains its ancestors.
LEMMA AncestorsIn ==
  ASSUME NEW b \in Block, NEW S \in SUBSET Block, b \in S, \A y \in S : parentOf[y] \in S
  PROVE  Ancestors[b] \subseteq S
  BY DEF Ancestors
=============================================================================
