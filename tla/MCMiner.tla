------------------------------ MODULE MCMiner ------------------------------
\* Three calls of Start and Stop under way at a time, besides update's.
EXTENDS Miner
=============================================================================
