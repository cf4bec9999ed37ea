--------------------------- MODULE MCSingleFlight ---------------------------
(***************************************************************************)
(* Instances of SingleFlight for TLC.                                      *)
(***************************************************************************)
EXTENDS SingleFlight, TLC

CONSTANTS c1, c2, f1, f2, f3
=============================================================================
