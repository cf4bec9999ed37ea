--------------------------- MODULE MCControlJobs ---------------------------
(***************************************************************************)
(* Instances of ControlJobs for TLC.  Two workloads: reconciles of one game *)
(* with growing requirements, and the same mixed with resets that compete  *)
(* for the gameplay lane and its bounds.                                   *)
(***************************************************************************)
EXTENDS ControlJobs, TLC

CONSTANTS j1, j2, o1, o2, w1, w2, t1, t2, t3

Req(k, s, f, n) == [kind |-> k, scope |-> s, fingerprint |-> f, need |-> n]

MCFingerprints == {"f1", "f2"}
MCWork == {"base", "vpn"}

\* Requests for one game: o1 asks for the base work, o2 for the VPN as well.
ReconcileScopes == {"game1"}
ReconcileGames == [s \in ReconcileScopes |-> "g1"]
ReconcileTeams == [s \in ReconcileScopes |-> "none"]
ReconcileRequests ==
  [o \in {o1, o2} |->
     IF o = o1 THEN {Req("AdReconcile", "game1", "f1", {"base"})}
               ELSE {Req("AdReconcile", "game1", "f2", {"base", "vpn"})}]

\* Each key may also be used for the reset of a service of teamA.
MixedScopes == {"game1", "svcA1", "svcA2"}
MixedGames == [s \in MixedScopes |-> "g1"]
MixedTeams == [s \in MixedScopes |-> IF s = "game1" THEN "none" ELSE "teamA"]
MixedRequests ==
  [o \in {o1, o2} |->
     ReconcileRequests[o] \cup
       {Req("AdReset", IF o = o1 THEN "svcA1" ELSE "svcA2", "f1", {"base"})}]

GameplayLane == [w \in {w1, w2} |-> "Gameplay"]
OneSlot == [l \in Lanes |-> 1]
TwoSlots == [l \in Lanes |-> 2]

\* Row ids, tokens and the two tasks (of one lane) are interchangeable.
TaskSymmetry == Permutations(Jobs) \cup Permutations({w1, w2})
                  \cup Permutations(Tokens)
=============================================================================
