------------------------ MODULE MCPlayerContainers ------------------------
\* Instance of PlayerContainers for TLC.
EXTENDS PlayerContainers

CONSTANTS o1, o2

TwoOperations == {o1, o2}
=============================================================================
