--------------------------- MODULE MCCoalesceLock ---------------------------
(***************************************************************************)
(* Instances of CoalesceLock for TLC.                                      *)
(***************************************************************************)
EXTENDS CoalesceLock, TLC

CONSTANTS c1, c2, c3, c4, k1, k2, k3, l1, l2, l3, l4
=============================================================================
