---------------------------- MODULE MCStableRace ----------------------------
\* The tree of MCStarChain: 0 <- 1 <- 3 and 0 <- 2 <- 4.
EXTENDS StableRace

MCParent == [b \in Block |-> IF b <= 2 THEN 0 ELSE b - 2]
MCNumber == [b \in Block |-> (b + 1) \div 2]
MCHash == [b \in Block |-> b]

\* This node, star node 0, produces block 2.
MCCoinbase == [b \in Block |-> IF b = 2 THEN 0 ELSE IF b = 1 THEN 1 ELSE 2]
=============================================================================
