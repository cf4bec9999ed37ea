----------------------------- MODULE MCWorkers -----------------------------
\* Instances of Workers for TLC.
EXTENDS Workers

CONSTANTS w1, w2

OneWorkload == {w1}
TwoWorkloads == {w1, w2}
=============================================================================
