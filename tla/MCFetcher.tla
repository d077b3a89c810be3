----------------------------- MODULE MCFetcher -----------------------------
\* A chain of two blocks, the second without transactions, and two peers.
EXTENDS Fetcher

Peers == Permutations(Peer)

MCParent == [b \in Block |-> b - 1]
MCNumber == [b \in Block \cup {Genesis} |-> b]
MCBody == [b \in Block |-> IF b \in Empty THEN "empty" ELSE "full"]
=============================================================================
