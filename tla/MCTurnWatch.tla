---------------------------- MODULE MCTurnWatch ----------------------------
\* Four star nodes with the main net's timing, watched for three rounds.
EXTENDS TurnWatch
=============================================================================
