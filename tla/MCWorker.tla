------------------------------ MODULE MCWorker ------------------------------
\* Up to two goroutines of each kind and one head event that waits.
EXTENDS Worker
=============================================================================
