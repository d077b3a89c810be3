---------------------------- MODULE MCStarChain ----------------------------
\* Small trees of blocks.  A block is a number, which is also its hash's rank.
\* Two chains fork at the genesis block: 0 <- 1 <- 3 and 0 <- 2 <- 4; an instance
\* has the first few of these blocks.
EXTENDS StarChain, TLC

MCParent == [b \in Block |-> IF b <= 2 THEN 0 ELSE b - 2]
MCNumber == [b \in Block |-> (b + 1) \div 2]
MCHash == [b \in Block |-> b]

\* Star node 0 produces block 3, on block 1 of star node 1; block 2 is star node 2's.
MCCoinbase == [b \in Block |-> IF b = 3 THEN 0 ELSE IF b = 4 THEN 2 ELSE b]

\* Star nodes that are not followed and produce nothing are interchangeable.
Bystanders == Permutations(Star \ (Node \cup {coinbaseOf[b] : b \in Block}))
=============================================================================
