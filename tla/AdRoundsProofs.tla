--------------------------- MODULE AdRoundsProofs ---------------------------
(***************************************************************************)
(* The evidence of a round, for any number of services, replicas,          *)
(* pipelines and rounds.  Types first; then one formula says how any step  *)
(* of any actor may change the evidence, and the properties of AdRounds    *)
(* follow from it and from what a pipeline may rely on between its         *)
(* transactions.                                                           *)
(***************************************************************************)
EXTENDS AdRounds, FiniteSetTheorems, TLAPS

(***************************************************************************)
(* The invariants.                                                         *)
(***************************************************************************)
\* A pipeline works on a round that was prepared.
PipesOnRounds ==
  \A p \in Pipes : pipe[p].at # "idle" => pipe[p].round \in 1..latest

Typed == TypeOK /\ PipesOnRounds

\* The states of a probe that has been scheduled and is not recorded.
Owed == {"mail", "ready", "seen", "late"}

\* A pipeline probes only what was delivered in its round.
Probed ==
  \A p \in Pipes, s \in Services :
    pipe[p].at # "idle" /\ pipe[p].probe[s] \in Owed =>
      receipt[pipe[p].round][s].outcome = "delivered"

\* Only a succession and the end of the event finalize a round.
FinalizedIsPast ==
  \A n \in Numbers : round[n].finalized => n < latest \/ phase = "ended"

Cells == {"none", "pending"} \cup Verdicts

(***************************************************************************)
(* What the helpers on receipts and checks return.                         *)
(***************************************************************************)
LEMMA FillType ==
  ASSUME NEW checks \in [Services -> Cells], NEW S, NEW v \in Cells
  PROVE  Fill(checks, S, v) \in [Services -> Cells]
BY DEF Fill

LEMMA SettledType ==
  ASSUME NEW rc, NEW checks \in [Services -> Cells]
  PROVE  /\ complete_replaced_service_results(rc, checks) \in [Services -> Cells]
         /\ complete_failed_check_results(rc, checks) \in [Services -> Cells]
<1>1. {"Offline", "InternalError"} \subseteq Cells BY DEF Cells, Verdicts
<1>2. QED BY <1>1, FillType DEF complete_replaced_service_results,
             complete_failed_check_results

LEMMA BackendType ==
  ASSUME TypeOK, NEW s \in Services
  PROVE  Backend(s) \in Backends /\ View(s) \in Views
BY RoundBoundsAssumption DEF TypeOK, Backend, View, Views, Endpoints, Backends

LEMMA MissingType ==
  ASSUME TypeOK, NEW n \in Numbers, NEW A
  PROVE  insert_missing_outcomes(n, A) \in [Services -> Receipts]
<1>1. receipt[n] \in [Services -> Receipts] BY DEF TypeOK
<1>2. ASSUME NEW s \in Services, NEW o \in {"refused", "missed"}
      PROVE  [outcome |-> o, backend |-> Backend(s)] \in Receipts
  BY BackendType DEF Receipts, Outcomes
<1>3. QED BY <1>1, <1>2 DEF insert_missing_outcomes

\* The updates of a round's row and of a service's endpoint.
LEMMA RoundFields ==
  ASSUME NEW r \in Rounds
  PROVE  /\ [r EXCEPT !.over = TRUE] \in Rounds
         /\ [r EXCEPT !.live = FALSE] \in Rounds
         /\ [r EXCEPT !.finalized = TRUE] \in Rounds
         /\ [r EXCEPT !.owner = NoPipe, !.live = FALSE] \in Rounds
         /\ [r EXCEPT !.completed = TRUE, !.owner = NoPipe, !.live = FALSE] \in Rounds
         /\ \A p \in Pipes : [r EXCEPT !.owner = p, !.live = TRUE] \in Rounds
         /\ \A k \in Nat : [r EXCEPT !.published = TRUE, !.failures = k] \in Rounds
BY DEF Rounds

LEMMA EndpointFields ==
  ASSUME NEW e \in Endpoints, NEW h \in BOOLEAN, NEW u \in BOOLEAN
  PROVE  [e EXCEPT !.held = h, !.up = u] \in Endpoints
BY DEF Endpoints

LEMMA UndeliveredType == ASSUME NEW rc PROVE Undelivered(rc) \in Nat
<1>1. IsFiniteSet(Of(rc, "refused") \cup Of(rc, "missed"))
  BY RoundBoundsAssumption, FS_Subset DEF Of
<1>2. QED BY <1>1, FS_CardinalityType DEF Undelivered

LEMMA PipeOnType ==
  ASSUME NEW at \in {"idle", "spawned", "claimed", "running"}, NEW n \in 0..MaxRounds
  PROVE  PipeOn(at, n) \in Pipelines
<1>1. 0 \in Backends BY RoundBoundsAssumption DEF Backends
<1>2. QED BY <1>1 DEF PipeOn, Pipelines, NoView, Views

LEMMA NoPipelineType == NoPipeline \in Pipelines /\ NoPipeline.at = "idle"
<1>1. 0 \in 0..MaxRounds BY RoundBoundsAssumption
<1>2. QED BY <1>1, PipeOnType DEF NoPipeline, PipeOn

(***************************************************************************)
(* Types.                                                                  *)
(***************************************************************************)
LEMMA NumbersType ==
  ASSUME TypeOK
  PROVE  /\ 1..latest \subseteq Numbers /\ Numbers \subseteq 0..MaxRounds
         /\ latest > 0 => latest \in Numbers
         /\ Current \in 0..MaxRounds
         /\ Current # 0 => Current \in Numbers /\ Current = latest
BY RoundBoundsAssumption DEF TypeOK, Numbers, Current

LEMMA WorkingPipe ==
  ASSUME Typed, NEW p \in Pipes, pipe[p].at # "idle"
  PROVE  pipe[p] \in Pipelines /\ pipe[p].round \in Numbers
BY NumbersType DEF Typed, TypeOK, PipesOnRounds

\* One pipeline moves.
LEMMA PipeStep ==
  ASSUME Typed, latest' \in 0..MaxRounds, latest <= latest',
         NEW p \in Pipes, NEW r \in Pipelines,
         r.at # "idle" => r.round \in 1..latest',
         pipe' = [pipe EXCEPT ![p] = r]
  PROVE  pipe' \in [Pipes -> Pipelines] /\ PipesOnRounds'
<1>1. latest \in 0..MaxRounds /\ pipe \in [Pipes -> Pipelines] BY DEF Typed, TypeOK
<1>2. \A q \in Pipes : pipe[q].at # "idle" => pipe[q].round \in 1..latest
  BY DEF Typed, PipesOnRounds
<1>3. MaxRounds \in Nat BY RoundBoundsAssumption
<1>4. 1..latest \subseteq 1..latest' BY <1>1, <1>3
<1>5. QED BY <1>1, <1>2, <1>4 DEF PipesOnRounds

LEMMA RetireStep ==
  ASSUME Typed, UNCHANGED latest, NEW p \in Pipes, Retire(p)
  PROVE  pipe' \in [Pipes -> Pipelines] /\ PipesOnRounds'
<1>1. latest \in 0..MaxRounds /\ latest <= latest
  BY RoundBoundsAssumption DEF Typed, TypeOK
<1>2. QED BY <1>1, NoPipelineType, PipeStep DEF Retire

\* The clock, the lease and the roster.
LEMMA ClockTypes ==
  ASSUME Typed,
         \/ RoundEnds \/ EventCloses \/ EventEnds
         \/ \E n \in Numbers : LeaseLapses(n)
         \/ \E s \in Services : RosterChanges(s)
  PROVE  Typed'
<1> USE DEF evidence, lifecycle
<1>1. TypeOK /\ PipesOnRounds BY DEF Typed
<1>2. CASE RoundEnds
  <2>1. round' \in [Numbers -> Rounds] 
    <3>1. latest \in Numbers BY <1>1, <1>2, NumbersType DEF RoundEnds
    <3>2. [round[latest] EXCEPT !.over = TRUE] \in Rounds BY <1>1, <3>1, RoundFields DEF TypeOK
    <3>3. round' = [round EXCEPT ![latest] = [round[latest] EXCEPT !.over = TRUE]]
      BY <1>2, Zenon DEF RoundEnds
    <3>4. QED BY <1>1, <3>1, <3>2, <3>3, Zenon DEF TypeOK
  <2>2. QED BY <1>1, <1>2, <2>1 DEF Typed, TypeOK, PipesOnRounds, RoundEnds
<1>3. CASE EventCloses BY <1>1, <1>3 DEF Typed, TypeOK, PipesOnRounds, EventCloses
<1>4. CASE EventEnds BY <1>1, <1>4 DEF Typed, TypeOK, PipesOnRounds, EventEnds
<1>5. ASSUME NEW n \in Numbers, LeaseLapses(n) PROVE Typed'
  <2>1. round' \in [Numbers -> Rounds] 
    <3>1. [round[n] EXCEPT !.live = FALSE] \in Rounds BY <1>1, <1>5, RoundFields DEF TypeOK
    <3>2. round' = [round EXCEPT ![n] = [round[n] EXCEPT !.live = FALSE]]
      BY <1>5 DEF LeaseLapses
    <3>3. QED BY <1>1, <3>1, <3>2 DEF TypeOK
  <2>2. QED BY <1>1, <1>5, <2>1 DEF Typed, TypeOK, PipesOnRounds, LeaseLapses
<1>6. ASSUME NEW s \in Services, RosterChanges(s) PROVE Typed'
  <2>1. churn' \in 0..MaxChurn
    BY <1>1, <1>6, RoundBoundsAssumption DEF RosterChanges, Churns, TypeOK
  <2>2. roster' \in SUBSET Services BY <1>1, <1>6 DEF RosterChanges, TypeOK
  <2>3. QED BY <1>1, <1>6, <2>1, <2>2 DEF Typed, TypeOK, PipesOnRounds, RosterChanges
<1>7. QED BY <1>2, <1>3, <1>4, <1>5, <1>6

\* Resets and repairs.
LEMMA LifecycleTypes ==
  ASSUME Typed, NEW s \in Services,
         \/ prepare_service_reset(s) \/ StartRepair(s)
         \/ destroy_container_after_capture_fence(s)
         \/ retain_created_backend_identity(s) \/ publish_replacement(s)
         \/ AbortWork(s)
  PROVE  Typed'
<1> USE DEF evidence
<1>1. TypeOK /\ PipesOnRounds BY DEF Typed
<1> DEFINE W == [kind : {"none", "reset", "repair"}, round : 0..MaxRounds, fresh : BOOLEAN]
<1>2. NoWork \in W BY RoundBoundsAssumption DEF NoWork
<1>3. service \in [Services -> Endpoints] /\ work \in [Services -> W] BY <1>1 DEF TypeOK
<1>4. \A h, u \in BOOLEAN : SetEndpoint(s, h, u) => service' \in [Services -> Endpoints]
  <2>1. SUFFICES ASSUME NEW h \in BOOLEAN, NEW u \in BOOLEAN, SetEndpoint(s, h, u)
                 PROVE  service' \in [Services -> Endpoints]
    OBVIOUS
  <2>2. [service[s] EXCEPT !.held = h, !.up = u] \in Endpoints BY <1>3, EndpointFields
  <2>3. QED BY <1>3, <2>1, <2>2 DEF SetEndpoint
<1>5. service[s].held \in BOOLEAN BY <1>3 DEF Endpoints
<1>6. Churns => churn' \in 0..MaxChurn BY <1>1, RoundBoundsAssumption DEF Churns, TypeOK
<1>7. CASE prepare_service_reset(s)
  <2>1. service' \in [Services -> Endpoints] BY <1>4, <1>5, <1>7 DEF prepare_service_reset
  <2>2. work' \in [Services -> W]
    BY <1>1, <1>3, <1>7, NumbersType DEF prepare_service_reset
  <2>3. check' \in [Numbers -> [Services -> Cells]]
    <3>1. check \in [Numbers -> [Services -> Cells]] BY <1>1 DEF TypeOK, Cells
    <3>2. CASE Current = 0 BY <1>7, <3>1, <3>2 DEF prepare_service_reset
    <3>3. CASE Current # 0
      <4>1. Current \in Numbers /\ "Offline" \in Cells
        BY <1>1, <3>3, NumbersType DEF Cells, Verdicts
      <4>2. Fill(check[Current], {s}, "Offline") \in [Services -> Cells]
        BY <3>1, <4>1, FillType
      <4>3. QED BY <1>7, <3>1, <3>3, <4>1, <4>2 DEF prepare_service_reset
    <3>4. QED BY <3>2, <3>3
  <2>4. QED BY <1>1, <1>6, <1>7, <2>1, <2>2, <2>3
             DEF Typed, TypeOK, PipesOnRounds, Cells, prepare_service_reset
<1>8. CASE StartRepair(s)
  <2>1. service' \in [Services -> Endpoints] BY <1>4, <1>5, <1>8 DEF StartRepair
  <2>2. work' \in [Services -> W] BY <1>3, <1>8, RoundBoundsAssumption DEF StartRepair
  <2>3. QED BY <1>1, <1>6, <1>8, <2>1, <2>2 DEF Typed, TypeOK, PipesOnRounds, StartRepair
<1>9. CASE destroy_container_after_capture_fence(s)
  <2>1. service' \in [Services -> Endpoints]
    BY <1>4, <1>9 DEF destroy_container_after_capture_fence
  <2>2. QED BY <1>1, <1>9, <2>1
             DEF Typed, TypeOK, PipesOnRounds, destroy_container_after_capture_fence
<1>10. CASE retain_created_backend_identity(s)
  <2>1. service' \in [Services -> Endpoints]
    BY <1>3, <1>10, RoundBoundsAssumption
       DEF retain_created_backend_identity, Endpoints, Backends
  <2>2. work' \in [Services -> W] BY <1>3, <1>10 DEF retain_created_backend_identity
  <2>3. QED BY <1>1, <1>10, <2>1, <2>2
             DEF Typed, TypeOK, PipesOnRounds, retain_created_backend_identity
<1>11. CASE publish_replacement(s)
  <2>1. service' \in [Services -> Endpoints] BY <1>4, <1>11 DEF publish_replacement
  <2>2. work' \in [Services -> W] BY <1>2, <1>3, <1>11 DEF publish_replacement
  <2>3. QED BY <1>1, <1>11, <2>1, <2>2
             DEF Typed, TypeOK, PipesOnRounds, publish_replacement
<1>12. CASE AbortWork(s)
  <2>1. work' \in [Services -> W] BY <1>2, <1>3, <1>12 DEF AbortWork
  <2>2. QED BY <1>1, <1>12, <2>1 DEF Typed, TypeOK, PipesOnRounds, AbortWork
<1>13. QED BY <1>7, <1>8, <1>9, <1>10, <1>11, <1>12

LEMMA RoundStep ==
  ASSUME TypeOK, NEW n \in Numbers, NEW r \in Rounds, round' = [round EXCEPT ![n] = r]
  PROVE  round' \in [Numbers -> Rounds]
BY DEF TypeOK

\* The rows of a round after its lease is given up or its pipeline ends.
LEMMA ReleasedType ==
  ASSUME TypeOK, NEW n \in Numbers
  PROVE  /\ Released(n) \in [Numbers -> Rounds]
         /\ Completed(n) \in [Numbers -> Rounds]
<1>1. round \in [Numbers -> Rounds] /\ round[n] \in Rounds BY DEF TypeOK
<1>2. [round[n] EXCEPT !.owner = NoPipe, !.live = FALSE] \in Rounds BY <1>1, RoundFields
<1>3. [round[n] EXCEPT !.completed = TRUE, !.owner = NoPipe, !.live = FALSE] \in Rounds
  BY <1>1, RoundFields
<1>4. Released(n) =
        [round EXCEPT ![n] = [round[n] EXCEPT !.owner = NoPipe, !.live = FALSE]]
  BY DEF Released
<1>5. Completed(n) =
        [round EXCEPT ![n] =
           [round[n] EXCEPT !.completed = TRUE, !.owner = NoPipe, !.live = FALSE]]
  BY DEF Completed
<1>6. QED BY <1>1, <1>2, <1>3, <1>4, <1>5

LEMMA SealedType ==
  ASSUME NEW rounds \in [Numbers -> Rounds], NEW n \in Numbers
  PROVE  Sealed(rounds, n) \in [Numbers -> Rounds]
<1> DEFINE k == Undelivered(insert_missing_outcomes(n, {}))
<1>1. k \in Nat BY UndeliveredType
<1>2. [rounds[n] EXCEPT !.published = TRUE, !.failures = k] \in Rounds
  BY <1>1, RoundFields
<1>3. Sealed(rounds, n) =
        [rounds EXCEPT ![n] = [rounds[n] EXCEPT !.published = TRUE, !.failures = k]]
  BY DEF Sealed
<1>4. QED BY <1>2, <1>3

\* The evidence of a round that is sealed.
LEMMA SealTypes ==
  ASSUME TypeOK, NEW n \in Numbers, SealEvidence(n)
  PROVE  /\ receipt' \in [Numbers -> [Services -> Receipts]]
         /\ check' \in [Numbers -> [Services -> Cells]]
         /\ UNCHANGED flags
<1> DEFINE rc == insert_missing_outcomes(n, {})
           settled == complete_failed_check_results(rc,
                        complete_replaced_service_results(rc, check[n]))
<1>1. rc \in [Services -> Receipts] BY MissingType
<1>2. check \in [Numbers -> [Services -> Cells]] BY DEF TypeOK, Cells
<1>3. settled \in [Services -> Cells] BY <1>2, SettledType
<1>4. "InternalError" \in Cells BY DEF Cells, Verdicts
<1>5. Fill(settled, Services, "InternalError") \in [Services -> Cells]
  BY <1>3, <1>4, FillType
<1>6. receipt \in [Numbers -> [Services -> Receipts]] BY DEF TypeOK
<1>7. QED BY <1>1, <1>2, <1>5, <1>6 DEF SealEvidence

LEMMA SealStepTypes == ASSUME Typed, finalize_ended_round_checks PROVE Typed'
<1>1. TypeOK /\ PipesOnRounds BY DEF Typed
<1>2. Current \in Numbers /\ SealEvidence(Current)
  BY <1>1, NumbersType DEF finalize_ended_round_checks
<1> DEFINE sealed == Sealed(round, Current)
<1>3. sealed \in [Numbers -> Rounds] BY <1>1, <1>2, SealedType DEF TypeOK
<1>4. [sealed[Current] EXCEPT !.finalized = TRUE] \in Rounds BY <1>2, <1>3, RoundFields
<1>5. round' = [sealed EXCEPT ![Current] = [sealed[Current] EXCEPT !.finalized = TRUE]]
  BY DEF finalize_ended_round_checks
<1>6. round' \in [Numbers -> Rounds]
  <2> HIDE DEF sealed
  <2>1. QED BY <1>3, <1>4, <1>5
<1>7. QED BY <1>1, <1>2, <1>6, SealTypes
          DEF Typed, TypeOK, PipesOnRounds, Cells, finalize_ended_round_checks, lifecycle

\* The scheduler.
LEMMA SchedulerTypes ==
  ASSUME Typed, NEW w \in Scanners,
         \/ Watch(w) \/ RefusePreparation(w)
         \/ \E p \in Pipes : Recover(w, p) \/ prepare_round(w, p)
  PROVE  Typed'
<1> USE DEF evidence, lifecycle
<1>1. TypeOK /\ PipesOnRounds BY DEF Typed
<1>2. latest \in 0..MaxRounds /\ latest <= latest BY <1>1, RoundBoundsAssumption DEF TypeOK
<1>3. CASE Watch(w) BY <1>1, <1>3 DEF Typed, TypeOK, PipesOnRounds, Watch
<1>4. CASE RefusePreparation(w)
  BY <1>1, <1>4 DEF Typed, TypeOK, PipesOnRounds, RefusePreparation
<1>5. ASSUME NEW p \in Pipes, Recover(w, p) PROVE Typed'
  <2>1. PipeOn("spawned", latest) \in Pipelines
    BY <1>2, PipeOnType
  <2>2. PipeOn("spawned", latest).round \in 1..latest
    BY <1>2, <1>5, RoundBoundsAssumption DEF PipeOn, Recover
  <2>3. latest' = latest /\ pipe' = [pipe EXCEPT ![p] = PipeOn("spawned", latest)]
    BY <1>5 DEF Recover
  <2>4. pipe' \in [Pipes -> Pipelines] /\ PipesOnRounds'
    BY <1>2, <2>1, <2>2, <2>3, PipeStep
  <2>5. QED BY <1>1, <1>5, <2>4 DEF Typed, TypeOK, Recover
<1>6. ASSUME NEW p \in Pipes, prepare_round(w, p) PROVE Typed'
  <2> DEFINE expected == cursor[w]
             target == expected + 1
             closed == IF expected > 0
                       THEN [check EXCEPT ![expected] =
                               Fill(check[expected], Services, "InternalError")]
                       ELSE check
             opened == [s \in Services |-> IF s \in roster /\ check[target][s] = "none"
                                           THEN "pending" ELSE check[target][s]]
  <2>1. expected \in 0..MaxRounds
    BY <1>1, <1>6 DEF prepare_round, TypeOK
  <2>2. target \in Numbers /\ (expected > 0 => expected \in Numbers)
    BY <1>6, <2>1, RoundBoundsAssumption DEF prepare_round, Numbers
  <2>3. latest' = target /\ target \in 0..MaxRounds /\ latest <= target
    BY <1>1, <1>6, <2>1, RoundBoundsAssumption
       DEF prepare_round, TypeOK, CanPrepare, classify_round_target
  <2>4. round' \in [Numbers -> Rounds]
    <3>1. CASE expected > 0
      <4>1. [round[expected] EXCEPT !.finalized = TRUE] \in Rounds
        BY <1>1, <2>2, <3>1, RoundFields DEF TypeOK
      <4>2. round' = [round EXCEPT ![expected] = [round[expected] EXCEPT !.finalized = TRUE]]
        BY <1>6, <3>1 DEF prepare_round
      <4>3. QED BY <1>1, <2>2, <3>1, <4>1, <4>2, RoundStep
    <3>2. CASE ~(expected > 0) BY <1>1, <1>6, <3>2 DEF prepare_round, TypeOK
    <3>3. QED BY <3>1, <3>2
  <2>5. flags' \in [Numbers -> SUBSET Services]
    BY <1>1, <1>6, <2>2 DEF prepare_round, TypeOK
  <2>6. check' \in [Numbers -> [Services -> Cells]]
    <3>1. check \in [Numbers -> [Services -> Cells]] BY <1>1 DEF TypeOK, Cells
    <3>2. "InternalError" \in Cells /\ "pending" \in Cells BY DEF Cells, Verdicts
    <3>3. expected > 0 => Fill(check[expected], Services, "InternalError") \in [Services -> Cells]
      BY <2>2, <3>1, <3>2, FillType
    <3>4. closed \in [Numbers -> [Services -> Cells]] BY <3>1, <3>3
    <3>5. opened \in [Services -> Cells] BY <2>2, <3>1, <3>2
    <3>6. check' = [closed EXCEPT ![target] = opened] BY <1>6 DEF prepare_round
    <3>7. QED
      <4> HIDE DEF closed, opened, target
      <4>1. QED BY <3>4, <3>5, <3>6
  <2>7. pipe' \in [Pipes -> Pipelines] /\ PipesOnRounds'
    <3>1. PipeOn("spawned", target) \in Pipelines BY <2>3, PipeOnType
    <3>2. PipeOn("spawned", target).round \in 1..target BY <2>1 DEF PipeOn
    <3>3. pipe' = [pipe EXCEPT ![p] = PipeOn("spawned", target)]
      BY <1>6 DEF prepare_round
    <3>4. QED BY <2>3, <3>1, <3>2, <3>3, PipeStep
  <2>8. QED BY <1>1, <1>6, <2>3, <2>4, <2>5, <2>6, <2>7
             DEF Typed, TypeOK, Cells, prepare_round
<1>7. QED BY <1>3, <1>4, <1>5, <1>6

\* The lease of a round's pipeline.
LEMMA LeaseTypes ==
  ASSUME Typed, NEW p \in Pipes,
         \/ claim_round_finish(p) \/ ExpireAtOnce(p) \/ TimeOut(p)
         \/ abandon_round_finish(p) \/ Crash(p) \/ complete_round_finish(p)
  PROVE  Typed'
<1> USE DEF evidence, lifecycle
<1> DEFINE n == pipe[p].round
<1>1. TypeOK /\ PipesOnRounds BY DEF Typed
<1>2. latest \in 0..MaxRounds /\ latest <= latest BY <1>1, RoundBoundsAssumption DEF TypeOK
<1>3. pipe[p].at # "idle"
  BY DEF claim_round_finish, ExpireAtOnce, TimeOut, abandon_round_finish, Crash,
         complete_round_finish
<1>4. n \in Numbers /\ pipe[p] \in Pipelines /\ n \in 1..latest
  BY <1>1, <1>3, WorkingPipe DEF PipesOnRounds
<1>5. round \in [Numbers -> Rounds] BY <1>1 DEF TypeOK
<1>6. CASE claim_round_finish(p)
  <2>1. CASE round[n].finalized \/ round[n].completed \/ round[n].live
    <3>1. UNCHANGED latest /\ Retire(p) BY <1>6, <2>1 DEF claim_round_finish
    <3>2. pipe' \in [Pipes -> Pipelines] /\ PipesOnRounds' BY <3>1, RetireStep
    <3>3. QED BY <1>1, <1>6, <2>1, <3>2 DEF Typed, TypeOK, claim_round_finish
  <2>2. CASE ~(round[n].finalized \/ round[n].completed \/ round[n].live)
    <3>1. [round[n] EXCEPT !.owner = p, !.live = TRUE] \in Rounds BY <1>4, <1>5, RoundFields
    <3>2. round' = [round EXCEPT ![n] = [round[n] EXCEPT !.owner = p, !.live = TRUE]]
      BY <1>6, <2>2 DEF claim_round_finish
    <3>3. round' \in [Numbers -> Rounds] BY <1>4, <1>5, <3>1, <3>2
    <3>4. [pipe[p] EXCEPT !.at = "claimed"] \in Pipelines
          /\ [pipe[p] EXCEPT !.at = "claimed"].round = n
      BY <1>4 DEF Pipelines
    <3>5. pipe' = [pipe EXCEPT ![p] = [pipe[p] EXCEPT !.at = "claimed"]]
      BY <1>6, <2>2 DEF claim_round_finish
    <3>6. latest' = latest BY <1>6 DEF claim_round_finish
    <3>7. pipe' \in [Pipes -> Pipelines] /\ PipesOnRounds'
      BY <1>2, <1>4, <3>4, <3>5, <3>6, PipeStep
    <3>8. QED BY <1>1, <1>6, <2>2, <3>3, <3>7 DEF Typed, TypeOK, claim_round_finish
  <2>3. QED BY <2>1, <2>2
<1>7. ASSUME NEW release \in BOOLEAN, expire_overdue_round_finish(p, release)
      PROVE  Typed'
  <2>1. UNCHANGED latest /\ Retire(p) BY <1>7 DEF expire_overdue_round_finish
  <2>2. pipe' \in [Pipes -> Pipelines] /\ PipesOnRounds' BY <2>1, RetireStep
  <2>3. CASE Owns(p, n) /\ round[n].over /\ n = latest
    <3>1. SealEvidence(n) /\ round' = Sealed(Completed(n), n)
      BY <1>7, <2>3 DEF expire_overdue_round_finish
    <3>2. round' \in [Numbers -> Rounds] BY <1>1, <1>4, <3>1, ReleasedType, SealedType
    <3>3. QED BY <1>1, <1>4, <1>7, <2>2, <3>1, <3>2, SealTypes
              DEF Typed, TypeOK, Cells, expire_overdue_round_finish
  <2>4. CASE ~(Owns(p, n) /\ round[n].over /\ n = latest)
    <3>1. round' \in [Numbers -> Rounds]
      BY <1>1, <1>4, <1>5, <1>7, <2>4, ReleasedType DEF expire_overdue_round_finish
    <3>2. UNCHANGED <<flags, receipt, check>>
      BY <1>7, <2>4 DEF expire_overdue_round_finish
    <3>3. QED BY <1>1, <1>7, <2>2, <3>1, <3>2
              DEF Typed, TypeOK, expire_overdue_round_finish
  <2>5. QED BY <2>3, <2>4
<1>8. CASE ExpireAtOnce(p) BY <1>7, <1>8 DEF ExpireAtOnce
<1>9. CASE TimeOut(p) BY <1>7, <1>9 DEF TimeOut
<1>10. CASE abandon_round_finish(p)
  <2>1. UNCHANGED latest /\ Retire(p) BY <1>10 DEF abandon_round_finish
  <2>2. pipe' \in [Pipes -> Pipelines] /\ PipesOnRounds' BY <2>1, RetireStep
  <2>3. round' \in [Numbers -> Rounds]
    BY <1>1, <1>4, <1>5, <1>10, ReleasedType DEF abandon_round_finish
  <2>4. QED BY <1>1, <1>10, <2>2, <2>3 DEF Typed, TypeOK, abandon_round_finish
<1>11. CASE Crash(p)
  <2>1. UNCHANGED latest /\ Retire(p) BY <1>11 DEF Crash
  <2>2. pipe' \in [Pipes -> Pipelines] /\ PipesOnRounds' BY <2>1, RetireStep
  <2>3. crashes' \in 0..MaxCrashes
    BY <1>1, <1>11, RoundBoundsAssumption DEF Crash, TypeOK
  <2>4. QED BY <1>1, <1>11, <2>2, <2>3 DEF Typed, TypeOK, Crash
<1>12. CASE complete_round_finish(p)
  <2>1. UNCHANGED latest /\ Retire(p) BY <1>12 DEF complete_round_finish
  <2>2. pipe' \in [Pipes -> Pipelines] /\ PipesOnRounds' BY <2>1, RetireStep
  <2>3. round' \in [Numbers -> Rounds]
    BY <1>1, <1>4, <1>5, <1>12, ReleasedType DEF complete_round_finish
  <2>4. QED BY <1>1, <1>12, <2>2, <2>3 DEF Typed, TypeOK, complete_round_finish
<1>13. QED BY <1>6, <1>8, <1>9, <1>10, <1>11, <1>12

\* Moves of a pipeline that stays on its round.
LEMMA PipeMove ==
  ASSUME Typed, UNCHANGED latest, NEW p \in Pipes, pipe[p].at # "idle",
         NEW r \in Pipelines, r.round = pipe[p].round, pipe' = [pipe EXCEPT ![p] = r]
  PROVE  pipe' \in [Pipes -> Pipelines] /\ PipesOnRounds'
<1>1. latest \in 0..MaxRounds /\ latest <= latest
  BY RoundBoundsAssumption DEF Typed, TypeOK
<1>2. r.round \in 1..latest' BY DEF Typed, PipesOnRounds
<1>3. QED BY <1>1, <1>2, PipeStep

LEMMA PipeFields ==
  ASSUME NEW r \in Pipelines
  PROVE  /\ \A x \in {"none", "todo", "admitted", "done"}, s \in Services :
              LET q == [r EXCEPT !.push = [r.push EXCEPT ![s] = x]]
              IN  q \in Pipelines /\ q.round = r.round
         /\ \A x \in {"none", "mail", "ready", "seen", "late", "done"}, s \in Services :
              LET q == [r EXCEPT !.probe = [r.probe EXCEPT ![s] = x]]
              IN  q \in Pipelines /\ q.round = r.round
         /\ \A x \in {"open", "done", "failed"} :
              LET q == [r EXCEPT !.pub = x] IN q \in Pipelines /\ q.round = r.round
         /\ \A x \in {"waiting", "open", "done", "failed"} :
              LET q == [r EXCEPT !.chk = x] IN q \in Pipelines /\ q.round = r.round
BY DEF Pipelines

\* The pushes and the probes in flight.
LEMMA FlightTypes ==
  ASSUME Typed, NEW p \in Pipes,
         \/ finish_prepared_round(p) \/ run_checker(p)
         \/ \E s \in Services : AdmitPush(p, s) \/ FailPush(p, s) \/ Probe(p, s)
  PROVE  Typed'
<1> USE DEF evidence, lifecycle
<1> DEFINE n == pipe[p].round
<1>1. TypeOK /\ PipesOnRounds BY DEF Typed
<1>2. pipe[p].at # "idle" /\ UNCHANGED latest
  BY DEF finish_prepared_round, run_checker, AdmitPush, FailPush, Probe, Publishing, Checking
<1>3. n \in Numbers /\ pipe[p] \in Pipelines BY <1>2, WorkingPipe
<1>4. SUFFICES /\ pipe' \in [Pipes -> Pipelines] /\ PipesOnRounds'
               /\ UNCHANGED <<phase, round, cursor, crashes, evidence, lifecycle>>
  BY <1>1, <1>2, <1>4 DEF Typed, TypeOK
<1>5. UNCHANGED <<phase, round, cursor, crashes, evidence, lifecycle>>
  BY DEF finish_prepared_round, run_checker, AdmitPush, FailPush, Probe
<1>6. CASE finish_prepared_round(p)
  <2> DEFINE todo == IF round[n].published THEN {}
                     ELSE {s \in flags[n] \cap roster : receipt[n][s].outcome = "none"}
             push == [s \in Services |-> IF s \in todo THEN "todo" ELSE "none"]
             plan == [s \in Services |-> IF s \in todo THEN Backend(s) ELSE 0]
             r == [pipe[p] EXCEPT !.at = "running", !.push = push, !.plan = plan]
  <2>1. push \in [Services -> {"none", "todo", "admitted", "done"}] OBVIOUS
  <2>2. 0 \in Backends BY RoundBoundsAssumption DEF Backends
  <2>3. plan \in [Services -> Backends] BY <1>1, <2>2, BackendType
  <2>4. pipe' = [pipe EXCEPT ![p] = r] BY <1>6 DEF finish_prepared_round
  <2>5. r \in Pipelines /\ r.round = n
    <3> HIDE DEF push, plan
    <3>1. QED BY <1>3, <2>1, <2>3 DEF Pipelines
  <2>6. QED
    <3> HIDE DEF r
    <3>1. QED BY <1>2, <1>5, <2>4, <2>5, PipeMove
<1>7. CASE run_checker(p)
  <2> DEFINE Scheduled(s) == s \in PendingDeliveries(n) \/ pipe[p].probe[s] = "mail"
             chk == IF roster = {} THEN "done" ELSE "open"
             sees == [s \in Services |-> IF s \in roster THEN View(s) ELSE NoView]
             probe == [s \in Services |-> IF s \notin roster THEN "done"
                                          ELSE IF Scheduled(s) THEN "ready" ELSE "none"]
             r == [pipe[p] EXCEPT !.chk = chk, !.sees = sees, !.probe = probe]
  <2>1. chk \in {"waiting", "open", "done", "failed"} OBVIOUS
  <2>2. NoView \in Views BY RoundBoundsAssumption DEF NoView, Views, Backends
  <2>3. sees \in [Services -> Views] BY <1>1, <2>2, BackendType
  <2>4. probe \in [Services -> {"none", "mail", "ready", "seen", "late", "done"}] OBVIOUS
  <2>5. pipe' = [pipe EXCEPT ![p] = r] BY <1>7 DEF run_checker
  <2>6. r \in Pipelines /\ r.round = n
    <3> HIDE DEF chk, sees, probe
    <3>1. QED BY <1>3, <2>1, <2>3, <2>4 DEF Pipelines
  <2>7. QED
    <3> HIDE DEF r
    <3>1. QED BY <1>2, <1>5, <2>5, <2>6, PipeMove
<1>8. ASSUME NEW s \in Services, AdmitPush(p, s) \/ FailPush(p, s) \/ Probe(p, s)
      PROVE  pipe' \in [Pipes -> Pipelines] /\ PipesOnRounds'
  <2>1. \/ \E x \in {"none", "todo", "admitted", "done"} :
             pipe' = [pipe EXCEPT ![p] =
                        [pipe[p] EXCEPT !.push = [pipe[p].push EXCEPT ![s] = x]]]
        \/ \E x \in {"none", "mail", "ready", "seen", "late", "done"} :
             pipe' = [pipe EXCEPT ![p] =
                        [pipe[p] EXCEPT !.probe = [pipe[p].probe EXCEPT ![s] = x]]]
    <3>1. CASE AdmitPush(p, s) BY <3>1 DEF AdmitPush
    <3>2. CASE FailPush(p, s) BY <3>2 DEF FailPush
    <3>3. CASE Probe(p, s) BY <3>3 DEF Probe
    <3>4. QED BY <1>8, <3>1, <3>2, <3>3
  <2>2. ASSUME NEW x \in {"none", "todo", "admitted", "done"},
               pipe' = [pipe EXCEPT ![p] =
                          [pipe[p] EXCEPT !.push = [pipe[p].push EXCEPT ![s] = x]]]
        PROVE  pipe' \in [Pipes -> Pipelines] /\ PipesOnRounds'
    <3> DEFINE q == [pipe[p] EXCEPT !.push = [pipe[p].push EXCEPT ![s] = x]]
    <3>1. q \in Pipelines /\ q.round = n BY <1>3 DEF Pipelines
    <3>2. pipe' = [pipe EXCEPT ![p] = q] BY <2>2
    <3> HIDE DEF q
    <3>3. QED BY <1>2, <3>1, <3>2, PipeMove
  <2>3. ASSUME NEW x \in {"none", "mail", "ready", "seen", "late", "done"},
               pipe' = [pipe EXCEPT ![p] =
                          [pipe[p] EXCEPT !.probe = [pipe[p].probe EXCEPT ![s] = x]]]
        PROVE  pipe' \in [Pipes -> Pipelines] /\ PipesOnRounds'
    <3> DEFINE q == [pipe[p] EXCEPT !.probe = [pipe[p].probe EXCEPT ![s] = x]]
    <3>1. q \in Pipelines /\ q.round = n BY <1>3 DEF Pipelines
    <3>2. pipe' = [pipe EXCEPT ![p] = q] BY <2>3
    <3> HIDE DEF q
    <3>3. QED BY <1>2, <3>1, <3>2, PipeMove
  <2>4. QED BY <2>1, <2>2, <2>3
<1>9. QED BY <1>5, <1>6, <1>7, <1>8

\* The transactions of the publisher.
LEMMA PublisherTypes ==
  ASSUME Typed, NEW p \in Pipes,
         \/ settle_flag_delivery_outcomes(p)
         \/ \E s \in Services : \E o \in Outcomes \ {"none"} :
              record_flag_delivery_outcome_batch(p, s, o)
  PROVE  Typed'
<1> USE DEF lifecycle
<1> DEFINE n == pipe[p].round
<1>1. TypeOK /\ PipesOnRounds BY DEF Typed
<1>2. pipe[p].at # "idle" /\ UNCHANGED latest
  BY DEF settle_flag_delivery_outcomes, record_flag_delivery_outcome_batch, Publishing
<1>3. n \in Numbers /\ pipe[p] \in Pipelines BY <1>2, WorkingPipe
<1>4. /\ round \in [Numbers -> Rounds]
      /\ receipt \in [Numbers -> [Services -> Receipts]]
      /\ check \in [Numbers -> [Services -> Cells]]
  BY <1>1 DEF TypeOK, Cells
<1>5. SUFFICES /\ pipe' \in [Pipes -> Pipelines] /\ PipesOnRounds'
               /\ round' \in [Numbers -> Rounds]
               /\ receipt' \in [Numbers -> [Services -> Receipts]]
               /\ check' \in [Numbers -> [Services -> Cells]]
  <2>1. UNCHANGED <<phase, flags, cursor, crashes, lifecycle>>
    BY DEF settle_flag_delivery_outcomes, record_flag_delivery_outcome_batch
  <2>2. QED BY <1>1, <1>2, <1>5, <2>1 DEF Typed, TypeOK, Cells
<1>6. CASE settle_flag_delivery_outcomes(p)
  <2> DEFINE rc == insert_missing_outcomes(n, {s \in Services : pipe[p].push[s] = "admitted"})
  <2>1. CASE round[n].finalized \/ (~ round[n].published /\ round[n].over)
    <3>1. /\ pipe' = [pipe EXCEPT ![p] = [pipe[p] EXCEPT !.pub = "failed"]]
          /\ UNCHANGED <<round, receipt, check>>
      BY <1>6, <2>1 DEF settle_flag_delivery_outcomes
    <3>2. QED BY <1>2, <1>3, <1>4, <3>1, PipeFields, PipeMove
  <2>2. CASE ~(round[n].finalized \/ (~ round[n].published /\ round[n].over))
    <3> DEFINE r == [pipe[p] EXCEPT !.pub = "done", !.push = NoPipeline.push,
                                    !.plan = NoPipeline.plan]
    <3>1. pipe' = [pipe EXCEPT ![p] = r] BY <1>6, <2>2 DEF settle_flag_delivery_outcomes
    <3>2. r \in Pipelines /\ r.round = n BY <1>3, NoPipelineType DEF Pipelines
    <3>3. pipe' \in [Pipes -> Pipelines] /\ PipesOnRounds'
      <4> HIDE DEF r
      <4>1. QED BY <1>2, <3>1, <3>2, PipeMove
    <3>4. rc \in [Services -> Receipts] BY <1>1, <1>3, MissingType
    <3>5. CASE round[n].published
      <4>1. /\ check' = [check EXCEPT ![n] =
                          complete_replaced_service_results(receipt[n], check[n])]
            /\ UNCHANGED <<round, receipt>>
        BY <1>6, <2>2, <3>5 DEF settle_flag_delivery_outcomes
      <4>2. QED BY <1>3, <1>4, <3>3, <4>1, SettledType
    <3>6. CASE ~ round[n].published
      <4>1. /\ settle_round_publication(n, rc)
            /\ round' = [round EXCEPT ![n] =
                 [round[n] EXCEPT !.published = TRUE, !.failures = Undelivered(rc)]]
        BY <1>6, <2>2, <3>6 DEF settle_flag_delivery_outcomes
      <4>2. [round[n] EXCEPT !.published = TRUE, !.failures = Undelivered(rc)] \in Rounds
        <5>1. Undelivered(rc) \in Nat BY UndeliveredType
        <5>2. QED BY <1>3, <1>4, <5>1, RoundFields
      <4>3. round' \in [Numbers -> Rounds] BY <1>3, <1>4, <4>1, <4>2
      <4>4. complete_failed_check_results(rc,
              complete_replaced_service_results(rc, check[n])) \in [Services -> Cells]
        BY <1>3, <1>4, SettledType
      <4>5. /\ receipt' \in [Numbers -> [Services -> Receipts]]
            /\ check' \in [Numbers -> [Services -> Cells]]
        <5> HIDE DEF rc
        <5>1. QED BY <1>3, <1>4, <3>4, <4>1, <4>4 DEF settle_round_publication
      <4>6. QED BY <3>3, <4>3, <4>5
    <3>7. QED BY <3>5, <3>6
  <2>3. QED BY <2>1, <2>2
<1>7. ASSUME NEW s \in Services, NEW o \in Outcomes \ {"none"},
             record_flag_delivery_outcome_batch(p, s, o)
      PROVE  /\ pipe' \in [Pipes -> Pipelines] /\ PipesOnRounds'
             /\ round' \in [Numbers -> Rounds]
             /\ receipt' \in [Numbers -> [Services -> Receipts]]
             /\ check' \in [Numbers -> [Services -> Cells]]
  <2> DEFINE refused == round[n].finalized \/ (~ round[n].published /\ round[n].over)
             rc == IF round[n].published \/ receipt[n][s].outcome # "none"
                   THEN receipt[n]
                   ELSE [receipt[n] EXCEPT ![s] = Authoritative(p, s, o)]
  <2>1. UNCHANGED round BY <1>7 DEF record_flag_delivery_outcome_batch
  <2>2. CASE refused
    <3> DEFINE push == [pipe[p].push EXCEPT ![s] = "done"]
               r == [pipe[p] EXCEPT !.push = push, !.pub = "failed"]
    <3>1. pipe' = [pipe EXCEPT ![p] = r] /\ UNCHANGED <<receipt, check>>
      BY <1>7, <2>2 DEF record_flag_delivery_outcome_batch
    <3>2. r \in Pipelines /\ r.round = n BY <1>3 DEF Pipelines
    <3>3. QED
      <4> HIDE DEF r
      <4>1. QED BY <1>2, <1>4, <2>1, <3>1, <3>2, PipeMove
  <2>3. CASE ~ refused
    <3> DEFINE push == [pipe[p].push EXCEPT ![s] = "done"]
               plan == [pipe[p].plan EXCEPT ![s] = 0]
               cell == IF rc[s].outcome = "delivered"
                       THEN Handed(pipe[p], s) ELSE pipe[p].probe[s]
               probe == [pipe[p].probe EXCEPT ![s] = cell]
               r == [pipe[p] EXCEPT !.push = push, !.plan = plan, !.probe = probe]
    <3>1. /\ receipt' = [receipt EXCEPT ![n] = rc]
          /\ check' = IF round[n].published
                      THEN [check EXCEPT ![n] =
                              complete_replaced_service_results(rc, check[n])]
                      ELSE check
      BY <1>7, <2>3 DEF record_flag_delivery_outcome_batch
    <3>12. pipe' = [pipe EXCEPT ![p] = r]
      <4>1. pipe' = [pipe EXCEPT ![p].push[s] = "done", ![p].plan[s] = 0, ![p].probe[s] = cell]
        BY <1>7, <2>3 DEF record_flag_delivery_outcome_batch
      <4>2. pipe \in [Pipes -> Pipelines] BY <1>1 DEF TypeOK
      <4>3. QED
        <5> HIDE DEF cell
        <5>1. [pipe EXCEPT ![p].push[s] = "done", ![p].plan[s] = 0, ![p].probe[s] = cell]
              = [pipe EXCEPT ![p] = r]
          BY <4>2, ZenonT(60) DEF Pipelines
        <5>2. QED BY <4>1, <5>1
    <3>2. Authoritative(p, s, o) \in Receipts
      BY <1>3 DEF Authoritative, Receipts, Outcomes, Pipelines
    <3>3. rc \in [Services -> Receipts] BY <1>3, <1>4, <3>2
    <3>4. complete_replaced_service_results(rc, check[n]) \in [Services -> Cells]
      BY <1>3, <1>4, SettledType
    <3>5. cell \in {"none", "mail", "ready", "seen", "late", "done"}
      BY <1>3 DEF Handed, Pipelines
    <3>6. 0 \in Backends BY RoundBoundsAssumption DEF Backends
    <3>7. /\ push \in [Services -> {"none", "todo", "admitted", "done"}]
          /\ plan \in [Services -> Backends]
          /\ probe \in [Services -> {"none", "mail", "ready", "seen", "late", "done"}]
      <4> HIDE DEF cell
      <4>1. QED BY <1>3, <3>5, <3>6 DEF Pipelines
    <3>8. r \in Pipelines /\ r.round = n
      <4> HIDE DEF push, plan, probe
      <4>1. QED BY <1>3, <3>7 DEF Pipelines
    <3>9. pipe' \in [Pipes -> Pipelines] /\ PipesOnRounds'
      <4> HIDE DEF r
      <4>1. QED BY <1>2, <3>12, <3>8, PipeMove
    <3>10. /\ receipt' \in [Numbers -> [Services -> Receipts]]
           /\ check' \in [Numbers -> [Services -> Cells]]
      <4> HIDE DEF rc, r
      <4>1. QED BY <1>3, <1>4, <3>1, <3>3, <3>4
    <3>11. QED BY <1>4, <2>1, <3>9, <3>10
  <2>4. QED BY <2>2, <2>3
<1>8. QED BY <1>6, <1>7

\* The transactions of the checker.
LEMMA CheckerTypes ==
  ASSUME Typed, NEW p \in Pipes,
         \/ complete_unresolved_check_results(p)
         \/ \E s \in Services : \E v \in Verdicts : record_check_results(p, s, v)
  PROVE  Typed'
<1> USE DEF lifecycle
<1> DEFINE n == pipe[p].round
<1>1. TypeOK /\ PipesOnRounds BY DEF Typed
<1>2. pipe[p].at # "idle" /\ UNCHANGED latest
  BY DEF complete_unresolved_check_results, record_check_results, Checking
<1>3. n \in Numbers /\ pipe[p] \in Pipelines BY <1>2, WorkingPipe
<1>4. check \in [Numbers -> [Services -> Cells]] BY <1>1 DEF TypeOK, Cells
<1>5. SUFFICES /\ pipe' \in [Pipes -> Pipelines] /\ PipesOnRounds'
               /\ check' \in [Numbers -> [Services -> Cells]]
  <2>1. UNCHANGED <<phase, round, flags, receipt, cursor, crashes, lifecycle>>
    BY DEF complete_unresolved_check_results, record_check_results
  <2>2. QED BY <1>1, <1>2, <1>5, <2>1 DEF Typed, TypeOK, Cells
<1>6. Verdicts \subseteq Cells /\ {"Offline", "InternalError"} \subseteq Verdicts
  BY DEF Cells, Verdicts
<1>7. CASE complete_unresolved_check_results(p)
  <2>1. \/ check' = [check EXCEPT ![n] = Fill(check[n], Services, "InternalError")]
        \/ UNCHANGED check
    BY <1>7 DEF complete_unresolved_check_results
  <2>2. Fill(check[n], Services, "InternalError") \in [Services -> Cells]
    BY <1>3, <1>4, <1>6, FillType
  <2>3. \E x \in {"waiting", "open", "done", "failed"} :
          pipe' = [pipe EXCEPT ![p] = [pipe[p] EXCEPT !.chk = x]]
    BY <1>7 DEF complete_unresolved_check_results
  <2>4. QED BY <1>2, <1>3, <1>4, <2>1, <2>2, <2>3, PipeFields, PipeMove
<1>8. ASSUME NEW s \in Services, NEW v \in Verdicts, record_check_results(p, s, v)
      PROVE  /\ pipe' \in [Pipes -> Pipelines] /\ PipesOnRounds'
             /\ check' \in [Numbers -> [Services -> Cells]]
  <2>1. \/ check' = [check EXCEPT ![n] = Fill(check[n], {s}, Bound(p, s, v))]
        \/ UNCHANGED check
    BY <1>8 DEF record_check_results
  <2>2. Fill(check[n], {s}, Bound(p, s, v)) \in [Services -> Cells]
    <3>1. Bound(p, s, v) \in Cells BY <1>6 DEF Bound
    <3>2. QED BY <1>3, <1>4, <3>1, FillType
  <2> DEFINE probe == [pipe[p].probe EXCEPT ![s] = "done"]
             sees == [pipe[p].sees EXCEPT ![s] = NoView]
             r == [pipe[p] EXCEPT !.probe = probe, !.sees = sees]
  <2>3. \/ pipe' = [pipe EXCEPT ![p] = r]
        \/ pipe' = [pipe EXCEPT ![p] = [pipe[p] EXCEPT !.chk = "failed"]]
    <3>1. pipe \in [Pipes -> Pipelines] BY <1>1 DEF TypeOK
    <3>2. \/ pipe' = [pipe EXCEPT ![p].probe[s] = "done", ![p].sees[s] = NoView]
          \/ pipe' = [pipe EXCEPT ![p].chk = "failed"]
      BY <1>8 DEF record_check_results
    <3>3. [pipe EXCEPT ![p].probe[s] = "done", ![p].sees[s] = NoView]
          = [pipe EXCEPT ![p] = r]
      BY <3>1 DEF Pipelines
    <3>4. QED BY <3>2, <3>3
  <2>4. r \in Pipelines /\ r.round = n
    <3>1. NoView \in Views BY RoundBoundsAssumption DEF NoView, Views, Backends
    <3>2. QED BY <1>3, <3>1 DEF Pipelines
  <2>5. pipe' \in [Pipes -> Pipelines] /\ PipesOnRounds'
    <3> HIDE DEF r
    <3>1. QED BY <1>2, <1>3, <2>3, <2>4, PipeFields, PipeMove
  <2>6. QED BY <1>3, <1>4, <2>1, <2>2, <2>5
<1>9. QED BY <1>7, <1>8

LEMMA TypesInit == Init => Typed
<1> SUFFICES ASSUME Init PROVE Typed OBVIOUS
<1>1. NewRound \in Rounds BY DEF NewRound, Rounds
<1>2. /\ 0 \in 0..MaxRounds /\ 0 \in 0..MaxCrashes /\ 0 \in 0..MaxChurn
      /\ 0 \in Backends /\ 1 \in Backends
  BY RoundBoundsAssumption DEF Backends
<1>3. [made |-> 1, held |-> TRUE, up |-> TRUE] \in Endpoints BY <1>2 DEF Endpoints
<1>4. NoReceipt \in Receipts BY <1>2 DEF NoReceipt, Receipts, Outcomes
<1>5. NoWork \in [kind : {"none", "reset", "repair"}, round : 0..MaxRounds, fresh : BOOLEAN]
  BY <1>2 DEF NoWork
<1>6. TypeOK BY <1>1, <1>2, <1>3, <1>4, <1>5, NoPipelineType DEF TypeOK, Init
<1>7. PipesOnRounds BY NoPipelineType DEF PipesOnRounds, Init
<1>8. QED BY <1>6, <1>7 DEF Typed

LEMMA TypesStep == Typed /\ [Next]_vars => Typed'
<1> SUFFICES ASSUME Typed, [Next]_vars PROVE Typed' OBVIOUS
<1>1. CASE UNCHANGED vars
  <2>1. UNCHANGED <<phase, latest, round, flags, receipt, check, roster, service, work,
                    cursor, pipe, crashes, churn>>
    BY <1>1 DEF vars
  <2>2. QED BY <2>1 DEF Typed, TypeOK, PipesOnRounds
<1>2. CASE Next
  BY <1>2, ClockTypes, LifecycleTypes, SealStepTypes, SchedulerTypes, LeaseTypes,
     FlightTypes, PublisherTypes, CheckerTypes DEF Next
<1>3. QED BY <1>1, <1>2

\* The rows, the scanners and the pipelines keep their types
\* (services/ad/engine, services/cron/scheduler.rs).
THEOREM RoundTypes == Spec => []TypeOK
<1>1. Spec => []Typed BY TypesInit, TypesStep, PTL DEF Spec
<1>2. Typed => TypeOK BY DEF Typed
<1>3. QED BY <1>1, <1>2, PTL

(***************************************************************************)
(* How a step may change the evidence.                                     *)
(***************************************************************************)
\* A verdict without a probe of the current pipeline, or none.
Blames(old, new) ==
  \A s \in Services :
    new[s] # old[s] => old[s] = "pending" /\ new[s] \in {"Offline", "InternalError"}

\* A receipt is added, none is changed.
Adds(old, new) ==
  \A s \in Services : old[s].outcome # "none" => new[s] = old[s]

\* A check of round n turns Ok for the pipeline that holds the round's lease
\* and probed the service in time.
OkIsEarned(n, s) ==
  \E p \in Pipes :
    /\ lock_owned_round_finish(p, n)
    /\ pipe[p].at = "running" /\ pipe[p].round = n /\ pipe[p].probe[s] = "seen"

\* What a step does to one check: it opens for the round that is prepared, or
\* a pending one gets its verdict.
CheckStep(n, s) ==
  check'[n][s] # check[n][s] =>
    \/ /\ check[n][s] = "none" /\ check'[n][s] = "pending"
       /\ n = latest' /\ phase = "running"
    \/ /\ check[n][s] = "pending" /\ check'[n][s] \in Verdicts
       /\ check'[n][s] = "Ok" => OkIsEarned(n, s)

EvidenceStep ==
  \A n \in Numbers :
    /\ Adds(receipt[n], receipt'[n])
    /\ flags[n] \subseteq flags'[n]
    /\ \A s \in Services : CheckStep(n, s)

LEMMA FillBlames ==
  ASSUME NEW checks \in [Services -> Cells], NEW S, NEW v \in {"Offline", "InternalError"}
  PROVE  Blames(checks, Fill(checks, S, v))
BY DEF Blames, Fill

LEMMA FillAll ==
  ASSUME NEW checks \in [Services -> Cells], NEW v \in Verdicts
  PROVE  \A s \in Services : Fill(checks, Services, v)[s] # "pending"
BY DEF Fill, Verdicts

LEMMA BlamesChain ==
  ASSUME NEW a, NEW b, NEW c, Blames(a, b), Blames(b, c)
  PROVE  Blames(a, c)
BY DEF Blames

LEMMA SettledBlames ==
  ASSUME NEW rc, NEW checks \in [Services -> Cells]
  PROVE  /\ Blames(checks, complete_replaced_service_results(rc, checks))
         /\ Blames(checks, complete_failed_check_results(rc, checks))
         /\ Blames(checks, complete_failed_check_results(rc,
                             complete_replaced_service_results(rc, checks)))
<1>1. \A c \in [Services -> Cells] : Blames(c, complete_replaced_service_results(rc, c))
  BY FillBlames DEF complete_replaced_service_results
<1>2. \A c \in [Services -> Cells] : Blames(c, complete_failed_check_results(rc, c))
  <2>1. SUFFICES ASSUME NEW c \in [Services -> Cells]
                 PROVE  Blames(c, complete_failed_check_results(rc, c))
    OBVIOUS
  <2> DEFINE first == Fill(c, Of(rc, "refused"), "Offline")
  <2>2. first \in [Services -> Cells]
    <3>1. "Offline" \in Cells BY DEF Cells, Verdicts
    <3>2. QED BY <3>1, FillType
  <2>3. Blames(c, first) BY FillBlames
  <2>4. Blames(first, Fill(first, Of(rc, "missed"), "InternalError")) BY <2>2, FillBlames
  <2>5. QED BY <2>3, <2>4, BlamesChain DEF complete_failed_check_results
<1>3. complete_replaced_service_results(rc, checks) \in [Services -> Cells] BY SettledType
<1>4. QED BY <1>1, <1>2, <1>3, BlamesChain

LEMMA MissingAdds ==
  ASSUME TypeOK, NEW n \in Numbers, NEW A
  PROVE  Adds(receipt[n], insert_missing_outcomes(n, A))
BY DEF Adds, insert_missing_outcomes

\* A step that blames in one round and adds receipts in it.
LEMMA BlameStep ==
  ASSUME TypeOK, NEW n \in Numbers, NEW rc, NEW checks,
         Adds(receipt[n], rc), Blames(check[n], checks),
         receipt' = [receipt EXCEPT ![n] = rc], check' = [check EXCEPT ![n] = checks],
         UNCHANGED flags
  PROVE  EvidenceStep
<1>1. \A m \in Numbers : Adds(receipt[m], receipt'[m])
  BY DEF TypeOK, Adds
<1>2. ASSUME NEW m \in Numbers, NEW s \in Services PROVE CheckStep(m, s)
  <2>1. CASE m = n BY <2>1 DEF TypeOK, Blames, CheckStep, Verdicts
  <2>2. CASE m # n BY <2>2 DEF TypeOK, CheckStep
  <2>3. QED BY <2>1, <2>2
<1>3. QED BY <1>1, <1>2 DEF EvidenceStep

LEMMA QuietStep == ASSUME UNCHANGED <<flags, receipt, check>> PROVE EvidenceStep
BY DEF EvidenceStep, Adds, CheckStep

LEMMA SealBlames ==
  ASSUME TypeOK, NEW n \in Numbers, SealEvidence(n)
  PROVE  EvidenceStep
<1> DEFINE rc == insert_missing_outcomes(n, {})
           settled == complete_failed_check_results(rc,
                        complete_replaced_service_results(rc, check[n]))
           sealed == Fill(settled, Services, "InternalError")
<1>1. Adds(receipt[n], rc) BY MissingAdds
<1>2. check[n] \in [Services -> Cells] BY DEF TypeOK, Cells
<1>3. Blames(check[n], settled) BY <1>2, SettledBlames
<1>4. settled \in [Services -> Cells] BY <1>2, SettledType
<1>5. Blames(settled, sealed) BY <1>4, FillBlames
<1>6. Blames(check[n], sealed) BY <1>3, <1>5, BlamesChain
<1>7. /\ receipt' = [receipt EXCEPT ![n] = rc] /\ check' = [check EXCEPT ![n] = sealed]
      /\ UNCHANGED flags
  BY DEF SealEvidence
<1>8. QED
  <2> HIDE DEF rc, sealed
  <2>1. QED BY <1>1, <1>6, <1>7, BlameStep

LEMMA VerdictStep ==
  ASSUME TypeOK, NEW n \in Numbers, NEW checks, Blames(check[n], checks),
         check' = [check EXCEPT ![n] = checks], UNCHANGED <<flags, receipt>>
  PROVE  EvidenceStep
<1>1. receipt' = [receipt EXCEPT ![n] = receipt[n]] BY DEF TypeOK
<1>2. Adds(receipt[n], receipt[n]) BY DEF Adds
<1>3. QED BY <1>1, <1>2, BlameStep

\* The successor is prepared.
LEMMA PrepareEvidence ==
  ASSUME Typed, NEW w \in Scanners, NEW p \in Pipes, prepare_round(w, p)
  PROVE  EvidenceStep
<1> DEFINE expected == cursor[w]
           target == expected + 1
           filled == Fill(check[expected], Services, "InternalError")
           closed == IF expected > 0 THEN [check EXCEPT ![expected] = filled] ELSE check
           opened == [s \in Services |-> IF s \in roster /\ check[target][s] = "none"
                                         THEN "pending" ELSE check[target][s]]
<1>1. TypeOK /\ check \in [Numbers -> [Services -> Cells]] BY DEF Typed, TypeOK, Cells
<1>2. expected \in 0..MaxRounds BY <1>1 DEF prepare_round, TypeOK
<1>3. target \in Numbers /\ (expected > 0 => expected \in Numbers) /\ target # expected
  BY <1>2, RoundBoundsAssumption DEF prepare_round, Numbers
<1>4. check' = [closed EXCEPT ![target] = opened] BY DEF prepare_round
<1>5. latest' = target /\ phase = "running" BY DEF prepare_round, CanPrepare
<1>6. UNCHANGED receipt /\ flags' = [flags EXCEPT ![target] = flags[target] \cup roster]
  BY DEF prepare_round
<1>7. ASSUME NEW n \in Numbers, NEW s \in Services PROVE CheckStep(n, s)
  <2>1. CASE n = target
    <3>1. check'[n] = opened
      <4>1. closed \in [Numbers -> [Services -> Cells]] \/ DOMAIN closed = Numbers BY <1>1
      <4>2. DOMAIN closed = Numbers BY <1>1, <4>1
      <4>3. QED
        <5> HIDE DEF closed, opened
        <5>1. QED BY <1>3, <1>4, <2>1, <4>2
    <3>2. QED BY <1>5, <2>1, <3>1 DEF CheckStep
  <2>2. CASE n = expected /\ expected > 0
    <3>1. check'[n] = filled
      <4>1. closed = [check EXCEPT ![expected] = filled] BY <2>2
      <4>2. QED
        <5> HIDE DEF closed, opened, filled
        <5>1. QED BY <1>1, <1>3, <1>4, <2>2, <4>1
    <3>2. Blames(check[n], filled) BY <1>1, <2>2, FillBlames
    <3>3. QED BY <3>1, <3>2 DEF Blames, CheckStep, Verdicts
  <2>3. CASE n # target /\ ~(n = expected /\ expected > 0)
    <3>1. closed[n] = check[n] BY <1>1, <1>3, <2>3
    <3>2. check'[n] = check[n]
      <4>1. DOMAIN closed = Numbers BY <1>1
      <4>2. QED
        <5> HIDE DEF closed, opened
        <5>1. QED BY <1>4, <2>3, <3>1, <4>1
    <3>3. QED BY <3>2 DEF CheckStep
  <2>4. QED BY <2>1, <2>2, <2>3
<1>8. \A n \in Numbers : flags[n] \subseteq flags'[n] BY <1>1, <1>6 DEF TypeOK
<1>9. \A n \in Numbers : Adds(receipt[n], receipt'[n]) BY <1>6 DEF Adds
<1>10. QED BY <1>7, <1>8, <1>9 DEF EvidenceStep

LEMMA ResetEvidence ==
  ASSUME Typed, NEW s \in Services, prepare_service_reset(s)
  PROVE  EvidenceStep
<1>1. TypeOK /\ check \in [Numbers -> [Services -> Cells]] BY DEF Typed, TypeOK, Cells
<1>2. CASE Current = 0 BY <1>2, QuietStep DEF prepare_service_reset
<1>3. CASE Current # 0
  <2>1. Current \in Numbers BY <1>1, <1>3, NumbersType
  <2>2. Blames(check[Current], Fill(check[Current], {s}, "Offline"))
    BY <1>1, <2>1, FillBlames
  <2>3. QED BY <1>1, <1>3, <2>1, <2>2, VerdictStep DEF prepare_service_reset
<1>4. QED BY <1>2, <1>3

\* The transactions of a pipeline that write receipts or checks.
LEMMA WriterEvidence ==
  ASSUME Typed, NEW p \in Pipes,
         \/ ExpireAtOnce(p) \/ TimeOut(p)
         \/ settle_flag_delivery_outcomes(p) \/ complete_unresolved_check_results(p)
         \/ \E s \in Services :
              \/ \E o \in Outcomes \ {"none"} : record_flag_delivery_outcome_batch(p, s, o)
              \/ \E v \in Verdicts : record_check_results(p, s, v)
  PROVE  EvidenceStep
<1> DEFINE n == pipe[p].round
<1>1. TypeOK /\ PipesOnRounds BY DEF Typed
<1>2. check \in [Numbers -> [Services -> Cells]] BY <1>1 DEF TypeOK, Cells
<1>4. CASE ExpireAtOnce(p) \/ TimeOut(p)
  <2>1. pipe[p].at # "idle" BY <1>4 DEF ExpireAtOnce, TimeOut
  <2>2. n \in Numbers BY <2>1, WorkingPipe
  <2>3. SealEvidence(n) \/ UNCHANGED evidence
    BY <1>4 DEF ExpireAtOnce, TimeOut, expire_overdue_round_finish
  <2>4. QED BY <1>1, <2>2, <2>3, SealBlames, QuietStep DEF evidence
<1>6. CASE settle_flag_delivery_outcomes(p)
  <2> DEFINE rc == insert_missing_outcomes(n, {t \in Services : pipe[p].push[t] = "admitted"})
  <2>1. n \in Numbers BY <1>6, WorkingPipe DEF settle_flag_delivery_outcomes, Publishing
  <2>2. UNCHANGED flags BY <1>6 DEF settle_flag_delivery_outcomes
  <2>3. \/ UNCHANGED <<receipt, check>>
        \/ /\ UNCHANGED receipt
           /\ check' = [check EXCEPT ![n] =
                          complete_replaced_service_results(receipt[n], check[n])]
        \/ settle_round_publication(n, rc)
    BY <1>6 DEF settle_flag_delivery_outcomes
  <2>4. Blames(check[n], complete_replaced_service_results(receipt[n], check[n]))
    BY <1>2, <2>1, SettledBlames
  <2>5. CASE settle_round_publication(n, rc)
    <3>1. Adds(receipt[n], rc) BY <1>1, <2>1, MissingAdds
    <3>2. Blames(check[n], complete_failed_check_results(rc,
                   complete_replaced_service_results(rc, check[n])))
      BY <1>2, <2>1, SettledBlames
    <3>3. QED
      <4> HIDE DEF rc
      <4>1. QED BY <1>1, <2>1, <2>2, <2>5, <3>1, <3>2, BlameStep
                DEF settle_round_publication
  <2>6. QED BY <1>1, <2>1, <2>2, <2>3, <2>4, <2>5, VerdictStep, QuietStep
<1>7. CASE complete_unresolved_check_results(p)
  <2>1. n \in Numbers BY <1>7, WorkingPipe DEF complete_unresolved_check_results, Checking
  <2>2. UNCHANGED <<flags, receipt>> BY <1>7 DEF complete_unresolved_check_results
  <2>3. \/ check' = [check EXCEPT ![n] = Fill(check[n], Services, "InternalError")]
        \/ UNCHANGED check
    BY <1>7 DEF complete_unresolved_check_results
  <2>4. Blames(check[n], Fill(check[n], Services, "InternalError"))
    BY <1>2, <2>1, FillBlames
  <2>5. QED BY <1>1, <2>1, <2>2, <2>3, <2>4, VerdictStep, QuietStep
<1>8. ASSUME NEW s \in Services, NEW o \in Outcomes \ {"none"},
             record_flag_delivery_outcome_batch(p, s, o)
      PROVE  EvidenceStep
  <2> DEFINE rc == IF round[n].published \/ receipt[n][s].outcome # "none"
                   THEN receipt[n]
                   ELSE [receipt[n] EXCEPT ![s] = Authoritative(p, s, o)]
  <2>1. n \in Numbers BY <1>8, WorkingPipe DEF record_flag_delivery_outcome_batch, Publishing
  <2>2. UNCHANGED flags BY <1>8 DEF record_flag_delivery_outcome_batch
  <2>3. \/ UNCHANGED <<receipt, check>>
        \/ /\ receipt' = [receipt EXCEPT ![n] = rc]
           /\ \/ UNCHANGED check
              \/ check' = [check EXCEPT ![n] =
                             complete_replaced_service_results(rc, check[n])]
    BY <1>8 DEF record_flag_delivery_outcome_batch
  <2>4. Adds(receipt[n], rc) BY <1>1, <2>1 DEF TypeOK, Adds
  <2>5. Blames(check[n], complete_replaced_service_results(rc, check[n]))
    BY <1>2, <2>1, SettledBlames
  <2>6. check = [check EXCEPT ![n] = check[n]] /\ Blames(check[n], check[n])
    BY <1>2 DEF Blames
  <2>7. QED
    <3> HIDE DEF rc
    <3>1. QED BY <1>1, <2>1, <2>2, <2>3, <2>4, <2>5, <2>6, BlameStep, QuietStep
<1>9. ASSUME NEW s \in Services, NEW v \in Verdicts, record_check_results(p, s, v)
      PROVE  EvidenceStep
  <2>1. /\ n \in Numbers /\ pipe[p].at = "running"
        /\ UNCHANGED <<flags, receipt>>
    BY <1>9, WorkingPipe DEF record_check_results, Checking
  <2>2. CASE UNCHANGED check BY <2>1, <2>2, QuietStep
  <2>3. CASE ~ UNCHANGED check
    <3>1. /\ check' = [check EXCEPT ![n] = Fill(check[n], {s}, Bound(p, s, v))]
          /\ lock_owned_round_finish(p, n) /\ pipe[p].probe[s] = "seen"
      BY <1>9, <2>3 DEF record_check_results
    <3>2. OkIsEarned(n, s) BY <2>1, <3>1 DEF OkIsEarned
    <3>3. Bound(p, s, v) \in Verdicts BY DEF Bound, Verdicts
    <3>4. ASSUME NEW m \in Numbers, NEW t \in Services PROVE CheckStep(m, t)
      <4>1. m # n => check'[m] = check[m] BY <1>2, <3>1
      <4>2. check'[n] = Fill(check[n], {s}, Bound(p, s, v)) BY <1>2, <2>1, <3>1
      <4>3. CASE m = n /\ t = s
        BY <3>2, <3>3, <4>2, <4>3 DEF CheckStep, Fill
      <4>4. CASE m = n /\ t # s BY <4>2, <4>4 DEF CheckStep, Fill
      <4>5. QED BY <4>1, <4>3, <4>4 DEF CheckStep
    <3>5. \A m \in Numbers : Adds(receipt[m], receipt'[m]) /\ flags[m] \subseteq flags'[m]
      BY <2>1 DEF Adds
    <3>6. QED BY <3>4, <3>5 DEF EvidenceStep
  <2>4. QED BY <2>2, <2>3
<1>10. QED BY <1>4, <1>6, <1>7, <1>8, <1>9

LEMMA EvidenceByStep == ASSUME Typed, [Next]_vars PROVE EvidenceStep
<1>1. CASE UNCHANGED vars BY <1>1, QuietStep DEF vars
<1>2. CASE RoundEnds \/ EventCloses \/ EventEnds
  BY <1>2, QuietStep DEF RoundEnds, EventCloses, EventEnds, evidence
<1>3. CASE finalize_ended_round_checks
  <2>1. TypeOK BY DEF Typed
  <2>2. QED BY <1>3, <2>1, NumbersType, SealBlames DEF finalize_ended_round_checks
<1>4. CASE \E n \in Numbers : LeaseLapses(n) BY <1>4, QuietStep DEF LeaseLapses, evidence
<1>5. ASSUME NEW s \in Services,
             \/ RosterChanges(s) \/ prepare_service_reset(s) \/ StartRepair(s)
             \/ destroy_container_after_capture_fence(s)
             \/ retain_created_backend_identity(s) \/ publish_replacement(s)
             \/ AbortWork(s)
      PROVE  EvidenceStep
  BY <1>5, ResetEvidence, QuietStep
     DEF RosterChanges, StartRepair, destroy_container_after_capture_fence,
         retain_created_backend_identity, publish_replacement, AbortWork, evidence
<1>6. CASE \E w \in Scanners : Watch(w) \/ RefusePreparation(w)
  BY <1>6, QuietStep DEF Watch, RefusePreparation, evidence
<1>7. ASSUME NEW w \in Scanners, NEW p \in Pipes, Recover(w, p) \/ prepare_round(w, p)
      PROVE  EvidenceStep
  BY <1>7, PrepareEvidence, QuietStep DEF Recover, evidence
<1>8. ASSUME NEW p \in Pipes,
             \/ claim_round_finish(p) \/ abandon_round_finish(p) \/ Crash(p)
             \/ finish_prepared_round(p) \/ run_checker(p) \/ complete_round_finish(p)
             \/ \E s \in Services : AdmitPush(p, s) \/ FailPush(p, s) \/ Probe(p, s)
      PROVE  EvidenceStep
  BY <1>8, QuietStep
     DEF claim_round_finish, abandon_round_finish, Crash, finish_prepared_round,
         run_checker, complete_round_finish, AdmitPush, FailPush, Probe, evidence
<1>9. QED BY <1>1, <1>2, <1>3, <1>4, <1>5, <1>6, <1>7, <1>8, WriterEvidence DEF Next

\* A verdict and a receipt never change once written, whichever of their
\* writers come later (record_check_results, insert_missing_outcomes,
\* prepare_round and the others), and a round keeps its flags.
THEOREM EvidenceNeverChanges == Spec => EvidenceIsImmutable
<1>1. Spec => []Typed BY TypesInit, TypesStep, PTL DEF Spec
<1>2. Typed /\ [Next]_vars =>
        [\A n \in Numbers, s \in Services :
           /\ check[n][s] \in Verdicts => check'[n][s] = check[n][s]
           /\ receipt[n][s].outcome # "none" => receipt'[n][s] = receipt[n][s]
           /\ flags[n] \subseteq flags'[n]]_vars
  <2> SUFFICES ASSUME Typed, [Next]_vars, NEW n \in Numbers, NEW s \in Services
               PROVE  /\ check[n][s] \in Verdicts => check'[n][s] = check[n][s]
                      /\ receipt[n][s].outcome # "none" => receipt'[n][s] = receipt[n][s]
                      /\ flags[n] \subseteq flags'[n]
    OBVIOUS
  <2>1. EvidenceStep BY EvidenceByStep
  <2>2. QED BY <2>1 DEF EvidenceStep, Adds, CheckStep, Verdicts
<1>3. QED BY <1>1, <1>2, PTL DEF Spec, EvidenceIsImmutable

\* A check turns Ok only while its round is neither complete nor finalized,
\* for the holder of its live lease, whose probe came back in time: a probe
\* that outlives its pipeline or its lease never scores
\* (lock_owned_round_finish, record_check_results).
THEOREM LateVerdictsNeverCount == Spec => LateVerdictsAreRefused
<1>1. Spec => []Typed BY TypesInit, TypesStep, PTL DEF Spec
<1>2. Typed /\ [Next]_vars =>
        [\A n \in Numbers, s \in Services :
           check[n][s] # "Ok" /\ check'[n][s] = "Ok" =>
             /\ round[n].live /\ ~ round[n].completed /\ ~ round[n].finalized
             /\ pipe[round[n].owner].round = n
             /\ pipe[round[n].owner].probe[s] = "seen"]_vars
  <2> SUFFICES ASSUME Typed, [Next]_vars, NEW n \in Numbers, NEW s \in Services,
                      check[n][s] # "Ok", check'[n][s] = "Ok"
               PROVE  /\ round[n].live /\ ~ round[n].completed /\ ~ round[n].finalized
                      /\ pipe[round[n].owner].round = n
                      /\ pipe[round[n].owner].probe[s] = "seen"
    OBVIOUS
  <2>1. EvidenceStep BY EvidenceByStep
  <2>2. OkIsEarned(n, s) BY <2>1 DEF EvidenceStep, CheckStep
  <2>3. QED BY <2>2 DEF OkIsEarned, lock_owned_round_finish, Owns
<1>3. QED BY <1>1, <1>2, PTL DEF Spec, LateVerdictsAreRefused

(***************************************************************************)
(* Probes follow deliveries.                                               *)
(***************************************************************************)
\* A pipeline of a later state owes a probe it already owed, or one whose
\* delivery is recorded.
ProbeStep ==
  \A p \in Pipes, s \in Services :
    pipe'[p].at # "idle" /\ pipe'[p].probe[s] \in Owed =>
      \/ /\ pipe[p].at # "idle" /\ pipe[p].probe[s] \in Owed
         /\ pipe'[p].round = pipe[p].round
      \/ receipt'[pipe'[p].round][s].outcome = "delivered"

\* One pipeline moves.
LEMMA PipeProbes ==
  ASSUME TypeOK, NEW p \in Pipes, NEW r, pipe' = [pipe EXCEPT ![p] = r],
         \A s \in Services : r.at # "idle" /\ r.probe[s] \in Owed =>
           \/ /\ pipe[p].at # "idle" /\ pipe[p].probe[s] \in Owed
              /\ r.round = pipe[p].round
           \/ receipt'[r.round][s].outcome = "delivered"
  PROVE  ProbeStep
BY DEF TypeOK, ProbeStep

\* ... and owes nothing new, stays where it was or is replaced.
LEMMA KeptProbes ==
  ASSUME TypeOK, NEW p \in Pipes, NEW r, pipe' = [pipe EXCEPT ![p] = r],
         pipe[p].at # "idle", r.round = pipe[p].round,
         \A s \in Services : r.probe[s] \in Owed => pipe[p].probe[s] \in Owed
  PROVE  ProbeStep
BY PipeProbes

LEMMA FreshProbes ==
  ASSUME TypeOK, NEW p \in Pipes, NEW at, NEW n, pipe' = [pipe EXCEPT ![p] = PipeOn(at, n)]
  PROVE  ProbeStep
<1>1. \A s \in Services : PipeOn(at, n).probe[s] \notin Owed BY DEF PipeOn, Owed
<1>2. QED BY <1>1, PipeProbes

LEMMA RetiredProbes ==
  ASSUME TypeOK, NEW p \in Pipes, Retire(p)
  PROVE  ProbeStep
BY FreshProbes DEF Retire, NoPipeline

LEMMA SameProbes == ASSUME UNCHANGED pipe PROVE ProbeStep
BY DEF ProbeStep

LEMMA LeaseProbes ==
  ASSUME Typed, NEW p \in Pipes,
         \/ claim_round_finish(p) \/ ExpireAtOnce(p) \/ TimeOut(p)
         \/ abandon_round_finish(p) \/ Crash(p) \/ complete_round_finish(p)
  PROVE  ProbeStep
<1>1. TypeOK BY DEF Typed
<1>2. Retire(p) \/ (claim_round_finish(p) /\ ~Retire(p))
  BY DEF ExpireAtOnce, TimeOut, expire_overdue_round_finish, abandon_round_finish, Crash,
         complete_round_finish
<1>3. CASE claim_round_finish(p) /\ ~Retire(p)
  <2>1. pipe[p].at # "idle" /\ pipe[p] \in Pipelines
    BY <1>1, <1>3 DEF claim_round_finish, TypeOK
  <2>2. pipe' = [pipe EXCEPT ![p] = [pipe[p] EXCEPT !.at = "claimed"]]
    BY <1>3 DEF claim_round_finish
  <2>3. /\ [pipe[p] EXCEPT !.at = "claimed"].round = pipe[p].round
        /\ [pipe[p] EXCEPT !.at = "claimed"].probe = pipe[p].probe
    BY <2>1 DEF Pipelines
  <2>4. QED BY <1>1, <2>1, <2>2, <2>3, KeptProbes
<1>4. QED BY <1>1, <1>2, <1>3, RetiredProbes

LEMMA FlightProbes ==
  ASSUME Typed, NEW p \in Pipes,
         \/ finish_prepared_round(p) \/ settle_flag_delivery_outcomes(p)
         \/ complete_unresolved_check_results(p)
         \/ \E s \in Services :
              \/ AdmitPush(p, s) \/ FailPush(p, s) \/ Probe(p, s)
              \/ \E v \in Verdicts : record_check_results(p, s, v)
  PROVE  ProbeStep
<1>1. TypeOK /\ pipe[p] \in Pipelines /\ pipe \in [Pipes -> Pipelines]
  BY DEF Typed, TypeOK
<1>2. pipe[p].at # "idle"
  BY DEF finish_prepared_round, settle_flag_delivery_outcomes,
         complete_unresolved_check_results, AdmitPush, FailPush, Probe,
         record_check_results, Publishing, Checking
<1>3. /\ pipe'[p].round = pipe[p].round
      /\ \A s \in Services : pipe'[p].probe[s] \in Owed => pipe[p].probe[s] \in Owed
  <2>1. CASE finish_prepared_round(p) BY <1>1, <2>1 DEF finish_prepared_round, Pipelines
  <2>2. CASE settle_flag_delivery_outcomes(p)
    BY <1>1, <2>2 DEF settle_flag_delivery_outcomes, Pipelines
  <2>3. CASE complete_unresolved_check_results(p)
    <3>1. \E x : pipe' = [pipe EXCEPT ![p].chk = x]
      BY <2>3 DEF complete_unresolved_check_results
    <3>2. QED BY <1>1, <3>1 DEF Pipelines
  <2>4. ASSUME NEW s \in Services, AdmitPush(p, s) \/ FailPush(p, s)
        PROVE  pipe'[p].round = pipe[p].round /\ pipe'[p].probe = pipe[p].probe
    BY <1>1, <2>4 DEF AdmitPush, FailPush, Pipelines
  <2>5. ASSUME NEW s \in Services, Probe(p, s)
        PROVE  /\ pipe'[p].round = pipe[p].round
               /\ \A t \in Services : pipe'[p].probe[t] \in Owed => pipe[p].probe[t] \in Owed
    BY <1>1, <2>5 DEF Probe, Pipelines, Owed
  <2>6. ASSUME NEW s \in Services, NEW v \in Verdicts, record_check_results(p, s, v)
        PROVE  /\ pipe'[p].round = pipe[p].round
               /\ \A t \in Services : pipe'[p].probe[t] \in Owed => pipe[p].probe[t] \in Owed
    BY <1>1, <2>6 DEF record_check_results, Pipelines, Owed
  <2>7. QED BY <2>1, <2>2, <2>3, <2>4, <2>5, <2>6
<1>4. \A q \in Pipes : q # p => pipe'[q] = pipe[q]
  BY <1>1 DEF finish_prepared_round, settle_flag_delivery_outcomes,
         complete_unresolved_check_results, AdmitPush, FailPush, Probe,
         record_check_results
<1>5. QED BY <1>2, <1>3, <1>4 DEF ProbeStep

\* The checker's snapshot.
LEMMA SnapshotProbes ==
  ASSUME Typed, Probed, NEW p \in Pipes, run_checker(p)
  PROVE  ProbeStep
<1>1. TypeOK /\ pipe[p] \in Pipelines /\ pipe \in [Pipes -> Pipelines]
  BY DEF Typed, TypeOK
<1>2. pipe[p].at # "idle" /\ UNCHANGED receipt BY DEF run_checker, evidence
<1>3. \A q \in Pipes : q # p => pipe'[q] = pipe[q] BY <1>1 DEF run_checker
<1>4. pipe'[p].round = pipe[p].round BY <1>1 DEF run_checker, Pipelines
<1>5. ASSUME NEW s \in Services, pipe'[p].probe[s] \in Owed
      PROVE  s \in PendingDeliveries(pipe[p].round) \/ pipe[p].probe[s] = "mail"
  BY <1>1, <1>5 DEF run_checker, Pipelines, Owed
<1>6. ASSUME NEW s \in Services, pipe'[p].probe[s] \in Owed
      PROVE  receipt'[pipe'[p].round][s].outcome = "delivered"
  BY <1>2, <1>4, <1>5, <1>6 DEF PendingDeliveries, Probed, Owed
<1>7. QED BY <1>3, <1>6 DEF ProbeStep

\* A receipt is handed to the checker.
LEMMA HandedProbes ==
  ASSUME Typed, NEW p \in Pipes, NEW s \in Services, NEW o \in Outcomes \ {"none"},
         record_flag_delivery_outcome_batch(p, s, o)
  PROVE  ProbeStep
<1> DEFINE n == pipe[p].round
           rc == IF round[n].published \/ receipt[n][s].outcome # "none"
                 THEN receipt[n]
                 ELSE [receipt[n] EXCEPT ![s] = Authoritative(p, s, o)]
<1>1. TypeOK /\ pipe[p] \in Pipelines /\ pipe \in [Pipes -> Pipelines]
  BY DEF Typed, TypeOK
<1>2. pipe[p].at # "idle" /\ n \in Numbers
  BY WorkingPipe DEF record_flag_delivery_outcome_batch, Publishing
<1>3. \A q \in Pipes : q # p => pipe'[q] = pipe[q]
  BY <1>1 DEF record_flag_delivery_outcome_batch
<1>4. pipe'[p].round = n
  BY <1>1 DEF record_flag_delivery_outcome_batch, Pipelines
<1>5. \A t \in Services : t # s => pipe'[p].probe[t] = pipe[p].probe[t]
  <2>1. \/ pipe' = [pipe EXCEPT ![p].push[s] = "done", ![p].pub = "failed"]
        \/ \E x : pipe' = [pipe EXCEPT ![p].push[s] = "done", ![p].plan[s] = 0,
                                       ![p].probe[s] = x]
    BY DEF record_flag_delivery_outcome_batch
  <2>2. CASE pipe' = [pipe EXCEPT ![p].push[s] = "done", ![p].pub = "failed"]
    BY <1>1, <2>2 DEF Pipelines
  <2>3. ASSUME NEW x, pipe' = [pipe EXCEPT ![p].push[s] = "done", ![p].plan[s] = 0,
                                           ![p].probe[s] = x]
        PROVE  \A t \in Services : t # s => pipe'[p].probe[t] = pipe[p].probe[t]
    <3> DEFINE r == [pipe[p] EXCEPT !.push[s] = "done", !.plan[s] = 0, !.probe[s] = x]
    <3>1. pipe'[p] = r BY <1>1, <2>3
    <3>2. r.probe = [pipe[p].probe EXCEPT ![s] = x] BY <1>1 DEF Pipelines
    <3>3. pipe[p].probe \in [Services -> {"none", "mail", "ready", "seen", "late", "done"}]
      BY <1>1 DEF Pipelines
    <3> HIDE DEF r
    <3>4. QED BY <3>1, <3>2, <3>3
  <2>4. QED BY <2>1, <2>2, <2>3
<1>6. CASE pipe'[p].probe[s] = pipe[p].probe[s]
  BY <1>2, <1>3, <1>4, <1>5, <1>6 DEF ProbeStep
<1>7. CASE pipe'[p].probe[s] # pipe[p].probe[s]
  <2>1. rc[s].outcome = "delivered" /\ receipt' = [receipt EXCEPT ![n] = rc]
    BY <1>1, <1>7 DEF record_flag_delivery_outcome_batch, Pipelines
  <2>2. receipt'[n][s].outcome = "delivered"
    <3> HIDE DEF rc
    <3>1. QED BY <1>1, <1>2, <2>1 DEF TypeOK
  <2>3. QED BY <1>2, <1>3, <1>4, <1>5, <2>2 DEF ProbeStep
<1>8. QED BY <1>6, <1>7

LEMMA ProbesByStep == ASSUME Typed, Probed, [Next]_vars PROVE ProbeStep
<1>1. CASE UNCHANGED vars BY <1>1, SameProbes DEF vars
<1>2. CASE \/ RoundEnds \/ EventCloses \/ EventEnds \/ finalize_ended_round_checks
           \/ \E n \in Numbers : LeaseLapses(n)
  BY <1>2, SameProbes
     DEF RoundEnds, EventCloses, EventEnds, finalize_ended_round_checks, LeaseLapses
<1>3. CASE \E s \in Services :
             \/ RosterChanges(s) \/ prepare_service_reset(s) \/ StartRepair(s)
             \/ destroy_container_after_capture_fence(s)
             \/ retain_created_backend_identity(s) \/ publish_replacement(s)
             \/ AbortWork(s)
  BY <1>3, SameProbes
     DEF RosterChanges, prepare_service_reset, StartRepair,
         destroy_container_after_capture_fence, retain_created_backend_identity,
         publish_replacement, AbortWork
<1>4. CASE \E w \in Scanners : Watch(w) \/ RefusePreparation(w)
  BY <1>4, SameProbes DEF Watch, RefusePreparation
<1>5. CASE \E w \in Scanners, p \in Pipes : Recover(w, p) \/ prepare_round(w, p)
  <2>1. TypeOK BY DEF Typed
  <2>2. QED BY <1>5, <2>1, FreshProbes DEF Recover, prepare_round
<1>6. QED BY <1>1, <1>2, <1>3, <1>4, <1>5, LeaseProbes, FlightProbes, SnapshotProbes,
             HandedProbes DEF Next

Delivered == Typed /\ Probed /\ OkNeedsDelivery

LEMMA DeliveredInit == Init => Delivered
<1> SUFFICES ASSUME Init PROVE Delivered OBVIOUS
<1>1. Typed BY TypesInit
<1>2. Probed BY NoPipelineType DEF Init, Probed
<1>3. OkNeedsDelivery BY DEF Init, OkNeedsDelivery
<1>4. QED BY <1>1, <1>2, <1>3 DEF Delivered

LEMMA DeliveredStep == Delivered /\ [Next]_vars => Delivered'
<1> SUFFICES ASSUME Delivered, [Next]_vars PROVE Delivered' OBVIOUS
<1>1. Typed /\ Probed /\ OkNeedsDelivery BY DEF Delivered
<1>2. Typed' BY <1>1, TypesStep
<1>3. EvidenceStep /\ ProbeStep BY <1>1, EvidenceByStep, ProbesByStep
<1>4. Probed'
  <2> SUFFICES ASSUME NEW p \in Pipes, NEW s \in Services,
                      pipe'[p].at # "idle", pipe'[p].probe[s] \in Owed
               PROVE  receipt'[pipe'[p].round][s].outcome = "delivered"
    BY DEF Probed
  <2>1. CASE /\ pipe[p].at # "idle" /\ pipe[p].probe[s] \in Owed
             /\ pipe'[p].round = pipe[p].round
    <3>1. pipe[p].round \in Numbers /\ receipt[pipe[p].round][s].outcome = "delivered"
      BY <1>1, <2>1, WorkingPipe DEF Probed
    <3>2. QED BY <1>3, <2>1, <3>1 DEF EvidenceStep, Adds
  <2>2. QED BY <1>3, <2>1 DEF ProbeStep
<1>5. OkNeedsDelivery'
  <2> SUFFICES ASSUME NEW n \in Numbers, NEW s \in Services, check'[n][s] = "Ok"
               PROVE  receipt'[n][s].outcome = "delivered"
    BY DEF OkNeedsDelivery
  <2>1. check[n][s] # "Ok" => OkIsEarned(n, s) BY <1>3 DEF EvidenceStep, CheckStep
  <2>2. receipt[n][s].outcome = "delivered"
    BY <1>1, <2>1 DEF OkNeedsDelivery, OkIsEarned, Probed, Owed
  <2>3. QED BY <1>3, <2>2 DEF EvidenceStep, Adds
<1>6. QED BY <1>2, <1>4, <1>5 DEF Delivered

\* A service is scored Ok only in a round whose flag its container
\* acknowledged: no pipeline ever probes, or lets a probe score, without the
\* receipt of the delivery (run_checker, record_check_results).
THEOREM OkWasDelivered == Spec => []OkNeedsDelivery
<1>1. Spec => []Delivered BY DeliveredInit, DeliveredStep, PTL DEF Spec
<1>2. Delivered => OkNeedsDelivery BY DEF Delivered
<1>3. QED BY <1>1, <1>2, PTL

(***************************************************************************)
(* Rounds are counted and succeed one another.                             *)
(***************************************************************************)
\* The failures of a round are kept with its receipts, or counted again.
CountKept(n) ==
  \/ /\ round'[n].published = round[n].published /\ round'[n].failures = round[n].failures
     /\ round[n].published => receipt'[n] = receipt[n]
  \/ round'[n].failures = Undelivered(receipt'[n])

\* What every step but a succession and the end of the event keeps.
RowKept(n) ==
  /\ round[n].completed => round'[n].completed
  /\ round'[n].finalized = round[n].finalized
  /\ CountKept(n)

LEMMA SameRows ==
  ASSUME UNCHANGED <<round, receipt>> PROVE \A n \in Numbers : RowKept(n)
BY DEF RowKept, CountKept

\* One row changes, outside its publication.
LEMMA RowChange ==
  ASSUME TypeOK, NEW n \in Numbers, NEW r, round' = [round EXCEPT ![n] = r],
         round[n].completed => r.completed, r.finalized = round[n].finalized,
         r.published = round[n].published, r.failures = round[n].failures,
         UNCHANGED receipt
  PROVE  \A m \in Numbers : RowKept(m)
BY DEF TypeOK, RowKept, CountKept

LEMMA RowFields ==
  ASSUME NEW r \in Rounds, NEW x
  PROVE  LET Same(q) == /\ r.completed => q.completed
                        /\ q.finalized = r.finalized
                        /\ q.published = r.published /\ q.failures = r.failures
         IN  /\ Same([r EXCEPT !.over = x])
             /\ Same([r EXCEPT !.live = x])
             /\ Same([r EXCEPT !.owner = x, !.live = TRUE])
             /\ Same([r EXCEPT !.owner = x, !.live = FALSE])
             /\ Same([r EXCEPT !.completed = TRUE, !.owner = x, !.live = FALSE])
BY DEF Rounds

LEMMA ReleaseRows ==
  ASSUME TypeOK, NEW n \in Numbers, UNCHANGED receipt,
         round' \in {Released(n), Completed(n), round}
  PROVE  \A m \in Numbers : RowKept(m)
<1>1. round[n] \in Rounds BY DEF TypeOK
<1>2. CASE round' = Released(n)
  <2> DEFINE r == [round[n] EXCEPT !.owner = NoPipe, !.live = FALSE]
  <2>1. round' = [round EXCEPT ![n] = r] BY <1>2 DEF Released
  <2>2. /\ round[n].completed => r.completed
        /\ r.finalized = round[n].finalized
        /\ r.published = round[n].published /\ r.failures = round[n].failures
    BY <1>1, RowFields
  <2>3. QED
    <3> HIDE DEF r
    <3>1. QED BY <2>1, <2>2, RowChange
<1>3. CASE round' = Completed(n)
  <2> DEFINE r == [round[n] EXCEPT !.completed = TRUE, !.owner = NoPipe, !.live = FALSE]
  <2>1. round' = [round EXCEPT ![n] = r] BY <1>3 DEF Completed
  <2>2. /\ round[n].completed => r.completed
        /\ r.finalized = round[n].finalized
        /\ r.published = round[n].published /\ r.failures = round[n].failures
    BY <1>1, RowFields
  <2>3. QED
    <3> HIDE DEF r
    <3>1. QED BY <2>1, <2>2, RowChange
<1>4. QED BY <1>2, <1>3, SameRows

\* What sealing a round does to its row and its evidence.
LEMMA SealedRow ==
  ASSUME TypeOK, NEW n \in Numbers, SealEvidence(n),
         NEW rounds \in [Numbers -> Rounds]
  PROVE  /\ Sealed(rounds, n)[n].failures = Undelivered(receipt'[n])
         /\ Sealed(rounds, n)[n].completed = rounds[n].completed
         /\ Sealed(rounds, n)[n].finalized = rounds[n].finalized
         /\ \A m \in Numbers : m # n => Sealed(rounds, n)[m] = rounds[m]
         /\ \A m \in Numbers : m # n => receipt'[m] = receipt[m] /\ check'[m] = check[m]
         /\ \A s \in Services : check'[n][s] # "pending"
<1> DEFINE rc == insert_missing_outcomes(n, {})
           settled == complete_failed_check_results(rc,
                        complete_replaced_service_results(rc, check[n]))
<1>1. check[n] \in [Services -> Cells] BY DEF TypeOK, Cells
<1>2. settled \in [Services -> Cells] BY <1>1, SettledType
<1>3. /\ receipt' = [receipt EXCEPT ![n] = rc]
      /\ check' = [check EXCEPT ![n] = Fill(settled, Services, "InternalError")]
  BY DEF SealEvidence
<1>4. \A s \in Services : Fill(settled, Services, "InternalError")[s] # "pending"
  BY <1>2, FillAll DEF Verdicts
<1>5. receipt'[n] = rc /\ \A m \in Numbers : m # n => receipt'[m] = receipt[m]
  <2> HIDE DEF rc
  <2>1. QED BY <1>3 DEF TypeOK
<1>6. /\ check'[n] = Fill(settled, Services, "InternalError")
      /\ \A m \in Numbers : m # n => check'[m] = check[m]
  <2> HIDE DEF settled
  <2>1. QED BY <1>3 DEF TypeOK
<1>7. Sealed(rounds, n) =
        [rounds EXCEPT ![n] = [rounds[n] EXCEPT !.published = TRUE,
                                                !.failures = Undelivered(rc)]]
  BY DEF Sealed
<1>8. /\ Sealed(rounds, n)[n] = [rounds[n] EXCEPT !.published = TRUE,
                                                !.failures = Undelivered(rc)]
      /\ \A m \in Numbers : m # n => Sealed(rounds, n)[m] = rounds[m]
  <2> HIDE DEF rc
  <2>1. QED BY <1>7
<1>9. /\ Sealed(rounds, n)[n].failures = Undelivered(rc)
      /\ Sealed(rounds, n)[n].completed = rounds[n].completed
      /\ Sealed(rounds, n)[n].finalized = rounds[n].finalized
  <2> HIDE DEF rc
  <2>1. QED BY <1>8 DEF Rounds
<1>10. QED BY <1>4, <1>5, <1>6, <1>8, <1>9

LEMMA ExpireRows ==
  ASSUME Typed, NEW p \in Pipes, ExpireAtOnce(p) \/ TimeOut(p)
  PROVE  \A m \in Numbers : RowKept(m)
<1> DEFINE n == pipe[p].round
<1>1. TypeOK /\ n \in Numbers BY WorkingPipe DEF Typed, ExpireAtOnce, TimeOut
<1>2. \/ SealEvidence(n) /\ round' = Sealed(Completed(n), n)
      \/ UNCHANGED receipt /\ round' \in {Released(n), round}
  BY DEF ExpireAtOnce, TimeOut, expire_overdue_round_finish, evidence
<1>3. CASE SealEvidence(n) /\ round' = Sealed(Completed(n), n)
  <2>1. Completed(n) \in [Numbers -> Rounds] BY <1>1, ReleasedType
  <2>2. \A m \in Numbers : m # n => Completed(n)[m] = round[m] BY <1>1 DEF Completed, TypeOK
  <2>3. Completed(n)[n].completed = TRUE /\ Completed(n)[n].finalized = round[n].finalized
    <3>1. round[n] \in Rounds BY <1>1 DEF TypeOK
    <3>2. Completed(n)[n] =
            [round[n] EXCEPT !.completed = TRUE, !.owner = NoPipe, !.live = FALSE]
      BY <1>1 DEF Completed, TypeOK
    <3>3. QED BY <3>1, <3>2 DEF Rounds
  <2>4. /\ Sealed(Completed(n), n)[n].failures = Undelivered(receipt'[n])
        /\ Sealed(Completed(n), n)[n].completed = Completed(n)[n].completed
        /\ Sealed(Completed(n), n)[n].finalized = Completed(n)[n].finalized
        /\ \A m \in Numbers : m # n => Sealed(Completed(n), n)[m] = Completed(n)[m]
        /\ \A m \in Numbers : m # n => receipt'[m] = receipt[m]
    BY <1>1, <1>3, <2>1, SealedRow
  <2>5. RowKept(n) BY <1>3, <2>3, <2>4 DEF RowKept, CountKept
  <2>6. \A m \in Numbers : m # n => RowKept(m)
    BY <1>3, <2>2, <2>4 DEF RowKept, CountKept
  <2>7. QED BY <2>5, <2>6
<1>4. QED BY <1>1, <1>2, <1>3, ReleaseRows

\* The receipts of a published round stay; those of another may come.
LEMMA PublisherRows ==
  ASSUME Typed, NEW p \in Pipes,
         \/ settle_flag_delivery_outcomes(p)
         \/ \E s \in Services : \E o \in Outcomes \ {"none"} :
              record_flag_delivery_outcome_batch(p, s, o)
  PROVE  \A m \in Numbers : RowKept(m)
<1> DEFINE n == pipe[p].round
<1>1. TypeOK /\ n \in Numbers
  BY WorkingPipe DEF Typed, settle_flag_delivery_outcomes,
       record_flag_delivery_outcome_batch, Publishing
<1>2. CASE settle_flag_delivery_outcomes(p)
  <2> DEFINE rc == insert_missing_outcomes(n, {s \in Services : pipe[p].push[s] = "admitted"})
             r == [round[n] EXCEPT !.published = TRUE, !.failures = Undelivered(rc)]
  <2>1. \/ UNCHANGED <<round, receipt>>
        \/ /\ receipt' = [receipt EXCEPT ![n] = rc]
           /\ round' = [round EXCEPT ![n] = r]
    BY <1>2 DEF settle_flag_delivery_outcomes, settle_round_publication
  <2>2. CASE /\ receipt' = [receipt EXCEPT ![n] = rc]
             /\ round' = [round EXCEPT ![n] = r]
    <3>1. /\ r.completed = round[n].completed /\ r.finalized = round[n].finalized
          /\ r.failures = Undelivered(rc)
      <4>1. round[n] \in Rounds BY <1>1 DEF TypeOK
      <4>2. QED
        <5> HIDE DEF rc
        <5>1. QED BY <4>1 DEF Rounds
    <3>2. /\ receipt'[n] = rc /\ round'[n] = r
          /\ \A m \in Numbers : m # n => receipt'[m] = receipt[m] /\ round'[m] = round[m]
      <4> HIDE DEF rc, r
      <4>1. QED BY <1>1, <2>2 DEF TypeOK
    <3>3. RowKept(n) BY <3>1, <3>2 DEF RowKept, CountKept
    <3>4. \A m \in Numbers : m # n => RowKept(m) BY <3>2 DEF RowKept, CountKept
    <3>5. QED BY <3>3, <3>4
  <2>3. QED BY <2>1, <2>2, SameRows
<1>3. ASSUME NEW s \in Services, NEW o \in Outcomes \ {"none"},
             record_flag_delivery_outcome_batch(p, s, o)
      PROVE  \A m \in Numbers : RowKept(m)
  <2>1. UNCHANGED round BY <1>3 DEF record_flag_delivery_outcome_batch
  <2>2. \E rc : /\ round[n].published => rc = receipt[n]
                /\ receipt' = [receipt EXCEPT ![n] = rc] \/ UNCHANGED receipt
    BY <1>3 DEF record_flag_delivery_outcome_batch
  <2>3. \A m \in Numbers : round[m].published => receipt'[m] = receipt[m]
    BY <1>1, <2>2 DEF TypeOK
  <2>4. QED BY <2>1, <2>3 DEF RowKept, CountKept
<1>4. QED BY <1>2, <1>3

\* Every step but a succession and the end of the event.
Calm ==
  /\ \A n \in Numbers : RowKept(n)
  /\ latest' = latest
  /\ phase = "ended" => phase' = "ended"

Succeeds == \E w \in Scanners, p \in Pipes : prepare_round(w, p)

LEMMA CalmClock ==
  ASSUME Typed,
         \/ RoundEnds \/ EventCloses \/ EventEnds
         \/ \E n \in Numbers : LeaseLapses(n)
  PROVE  Calm
<1>1. TypeOK BY DEF Typed
<1>2. CASE RoundEnds
  <2>1. latest \in Numbers /\ round[latest] \in Rounds
    BY <1>1, <1>2, NumbersType DEF RoundEnds, TypeOK
  <2> DEFINE r == [round[latest] EXCEPT !.over = TRUE]
  <2>2. round' = [round EXCEPT ![latest] = r] /\ UNCHANGED <<receipt, latest, phase>>
    BY <1>2 DEF RoundEnds, evidence
  <2>3. /\ round[latest].completed => r.completed
        /\ r.finalized = round[latest].finalized
        /\ r.published = round[latest].published /\ r.failures = round[latest].failures
    BY <2>1, RowFields
  <2>4. QED
    <3> HIDE DEF r
    <3>1. QED BY <1>1, <2>1, <2>2, <2>3, RowChange DEF Calm
<1>3. CASE EventCloses \/ EventEnds
  BY <1>3, SameRows DEF EventCloses, EventEnds, evidence, Calm
<1>4. ASSUME NEW n \in Numbers, LeaseLapses(n) PROVE Calm
  <2>1. round[n] \in Rounds BY <1>1 DEF TypeOK
  <2> DEFINE r == [round[n] EXCEPT !.live = FALSE]
  <2>2. round' = [round EXCEPT ![n] = r] /\ UNCHANGED <<receipt, latest, phase>>
    BY <1>4 DEF LeaseLapses, evidence
  <2>3. /\ round[n].completed => r.completed
        /\ r.finalized = round[n].finalized
        /\ r.published = round[n].published /\ r.failures = round[n].failures
    BY <2>1, RowFields
  <2>4. QED
    <3> HIDE DEF r
    <3>1. QED BY <1>1, <2>2, <2>3, RowChange DEF Calm
<1>5. QED BY <1>2, <1>3, <1>4

LEMMA CalmLease ==
  ASSUME Typed, NEW p \in Pipes,
         \/ claim_round_finish(p) \/ ExpireAtOnce(p) \/ TimeOut(p)
         \/ abandon_round_finish(p) \/ Crash(p) \/ complete_round_finish(p)
  PROVE  Calm
<1> DEFINE n == pipe[p].round
<1>1. UNCHANGED <<latest, phase>>
  BY DEF claim_round_finish, ExpireAtOnce, TimeOut, expire_overdue_round_finish,
         abandon_round_finish, Crash, complete_round_finish
<1>2. SUFFICES \A m \in Numbers : RowKept(m) BY <1>1, <1>2 DEF Calm
<1>3. TypeOK /\ n \in Numbers
  BY WorkingPipe DEF Typed, claim_round_finish, ExpireAtOnce, TimeOut,
       abandon_round_finish, Crash, complete_round_finish
<1>4. CASE claim_round_finish(p)
  <2> DEFINE r == [round[n] EXCEPT !.owner = p, !.live = TRUE]
  <2>1. UNCHANGED receipt /\ (round' = [round EXCEPT ![n] = r] \/ UNCHANGED round)
    BY <1>4 DEF claim_round_finish, evidence
  <2>2. round[n] \in Rounds BY <1>3 DEF TypeOK
  <2>3. /\ round[n].completed => r.completed
        /\ r.finalized = round[n].finalized
        /\ r.published = round[n].published /\ r.failures = round[n].failures
    BY <2>2, RowFields
  <2>4. QED
    <3> HIDE DEF r
    <3>1. QED BY <1>3, <2>1, <2>3, RowChange, SameRows
<1>5. CASE ExpireAtOnce(p) \/ TimeOut(p) BY <1>5, ExpireRows
<1>6. CASE abandon_round_finish(p) \/ complete_round_finish(p)
  <2>1. UNCHANGED receipt /\ round' \in {Released(n), Completed(n), round}
    BY <1>6 DEF abandon_round_finish, complete_round_finish, evidence
  <2>2. QED BY <1>3, <2>1, ReleaseRows
<1>7. CASE Crash(p) BY <1>7, SameRows DEF Crash, evidence
<1>8. QED BY <1>4, <1>5, <1>6, <1>7

LEMMA CalmSteps ==
  ASSUME Typed, [Next]_vars, ~Succeeds, ~finalize_ended_round_checks
  PROVE  Calm
<1>1. CASE UNCHANGED vars BY <1>1, SameRows DEF vars, Calm
<1>2. CASE \E s \in Services :
             \/ RosterChanges(s) \/ prepare_service_reset(s) \/ StartRepair(s)
             \/ destroy_container_after_capture_fence(s)
             \/ retain_created_backend_identity(s) \/ publish_replacement(s)
             \/ AbortWork(s)
  BY <1>2, SameRows
     DEF RosterChanges, prepare_service_reset, StartRepair,
         destroy_container_after_capture_fence, retain_created_backend_identity,
         publish_replacement, AbortWork, evidence, Calm
<1>3. CASE \/ \E w \in Scanners : Watch(w) \/ RefusePreparation(w)
           \/ \E w \in Scanners, p \in Pipes : Recover(w, p)
  BY <1>3, SameRows DEF Watch, RefusePreparation, Recover, evidence, Calm
<1>4. ASSUME NEW p \in Pipes,
             \/ finish_prepared_round(p) \/ run_checker(p)
             \/ complete_unresolved_check_results(p)
             \/ \E s \in Services :
                  \/ AdmitPush(p, s) \/ FailPush(p, s) \/ Probe(p, s)
                  \/ \E v \in Verdicts : record_check_results(p, s, v)
      PROVE  Calm
  BY <1>4, SameRows
     DEF finish_prepared_round, run_checker, complete_unresolved_check_results,
         AdmitPush, FailPush, Probe, record_check_results, evidence, Calm
<1>5. ASSUME NEW p \in Pipes,
             \/ settle_flag_delivery_outcomes(p)
             \/ \E s \in Services : \E o \in Outcomes \ {"none"} :
                  record_flag_delivery_outcome_batch(p, s, o)
      PROVE  Calm
  BY <1>5, PublisherRows
     DEF settle_flag_delivery_outcomes, record_flag_delivery_outcome_batch, Calm
<1>6. QED BY <1>1, <1>2, <1>3, <1>4, <1>5, CalmClock, CalmLease DEF Next, Succeeds

\* A succession closes the round it expects and opens the next.
LEMMA SuccessionRows ==
  ASSUME Typed, NEW w \in Scanners, NEW p \in Pipes, prepare_round(w, p)
  PROVE  LET expected == cursor[w] IN
         /\ latest' = expected + 1 /\ latest \in {expected, expected + 1}
         /\ expected \in 0..MaxRounds /\ expected + 1 \in Numbers
         /\ phase = "running" /\ phase' = "running"
         /\ \A n \in Numbers :
              /\ round'[n].completed = round[n].completed
              /\ n # expected => round'[n].finalized = round[n].finalized
              /\ CountKept(n)
         /\ expected > 0 =>
              /\ expected \in Numbers
              /\ round[expected].completed /\ round'[expected].finalized
              /\ \A s \in Services : check'[expected][s] # "pending"
<1> DEFINE expected == cursor[w]
           target == expected + 1
           filled == Fill(check[expected], Services, "InternalError")
           closed == IF expected > 0 THEN [check EXCEPT ![expected] = filled] ELSE check
           opened == [s \in Services |-> IF s \in roster /\ check[target][s] = "none"
                                         THEN "pending" ELSE check[target][s]]
           r == [round[expected] EXCEPT !.finalized = TRUE]
<1>1. TypeOK /\ check \in [Numbers -> [Services -> Cells]] BY DEF Typed, TypeOK, Cells
<1>2. expected \in 0..MaxRounds BY <1>1 DEF prepare_round, TypeOK
<1>3. target \in Numbers /\ (expected > 0 => expected \in Numbers) /\ target # expected
  BY <1>2, RoundBoundsAssumption DEF prepare_round, Numbers
<1>4. /\ latest' = target /\ latest \in {expected, target}
      /\ phase = "running" /\ phase' = "running" /\ UNCHANGED receipt
  BY DEF prepare_round, CanPrepare, classify_round_target
<1>5. CASE expected > 0
  <2>1. round' = [round EXCEPT ![expected] = r] /\ round[expected].completed
    BY <1>5 DEF prepare_round, CanPrepare
  <2>2. round[expected] \in Rounds BY <1>1, <1>3, <1>5 DEF TypeOK
  <2>3. /\ r.completed = round[expected].completed /\ r.finalized
        /\ r.published = round[expected].published /\ r.failures = round[expected].failures
    BY <2>2 DEF Rounds
  <2>4. /\ round'[expected] = r
        /\ \A n \in Numbers : n # expected => round'[n] = round[n]
    <3> HIDE DEF r
    <3>1. QED BY <1>1, <1>3, <1>5, <2>1 DEF TypeOK
  <2>5. \A n \in Numbers :
          /\ round'[n].completed = round[n].completed
          /\ n # expected => round'[n].finalized = round[n].finalized
          /\ CountKept(n)
    BY <1>4, <2>3, <2>4 DEF CountKept
  <2>6. \A s \in Services : check'[expected][s] # "pending"
    <3>1. check' = [closed EXCEPT ![target] = opened] BY DEF prepare_round
    <3>2. closed = [check EXCEPT ![expected] = filled] BY <1>5
    <3>3. check'[expected] = filled
      <4> HIDE DEF closed, opened, filled
      <4>1. QED BY <1>1, <1>3, <1>5, <3>1, <3>2
    <3>4. QED BY <1>1, <1>3, <1>5, <3>3, FillAll DEF Verdicts
  <2>7. QED BY <1>2, <1>3, <1>4, <2>1, <2>3, <2>4, <2>5, <2>6
<1>6. CASE ~(expected > 0)
  <2>1. UNCHANGED round BY <1>6 DEF prepare_round
  <2>2. QED BY <1>2, <1>3, <1>4, <1>6, <2>1 DEF CountKept
<1>7. QED BY <1>5, <1>6

\* The last round is sealed and finalized.
LEMMA FinalRows ==
  ASSUME Typed, finalize_ended_round_checks
  PROVE  /\ latest' = latest /\ phase' = "ended"
         /\ \A n \in Numbers :
              /\ round'[n].completed = round[n].completed
              /\ n # latest => round'[n].finalized = round[n].finalized
              /\ CountKept(n)
         /\ \A n \in Numbers : n = latest =>
              round'[n].finalized /\ \A s \in Services : check'[n][s] # "pending"
<1>1. TypeOK /\ round \in [Numbers -> Rounds] BY DEF Typed, TypeOK
<1>2. Current \in Numbers /\ Current = latest /\ SealEvidence(Current)
  BY <1>1, NumbersType DEF finalize_ended_round_checks
<1> DEFINE sealed == Sealed(round, Current)
           r == [sealed[Current] EXCEPT !.finalized = TRUE]
<1>3. latest' = latest /\ phase' = "ended" /\ round' = [sealed EXCEPT ![Current] = r]
  BY DEF finalize_ended_round_checks
<1>4. sealed \in [Numbers -> Rounds] BY <1>1, <1>2, SealedType
<1>5. /\ sealed[Current].failures = Undelivered(receipt'[Current])
      /\ sealed[Current].completed = round[Current].completed
      /\ \A m \in Numbers : m # Current => sealed[m] = round[m]
      /\ \A m \in Numbers : m # Current => receipt'[m] = receipt[m]
      /\ \A s \in Services : check'[Current][s] # "pending"
  BY <1>1, <1>2, SealedRow
<1>6. /\ r.finalized /\ r.failures = sealed[Current].failures
      /\ r.completed = sealed[Current].completed
  <2> HIDE DEF sealed
  <2>1. sealed[Current] \in Rounds BY <1>2, <1>4
  <2>2. QED BY <2>1 DEF Rounds
<1>7. round'[Current] = r /\ \A m \in Numbers : m # Current => round'[m] = sealed[m]
  <2> HIDE DEF sealed, r
  <2>1. QED BY <1>2, <1>3, <1>4
<1>8. QED
  <2> HIDE DEF sealed, r
  <2>1. QED BY <1>2, <1>3, <1>5, <1>6, <1>7 DEF CountKept

Settled == Typed /\ SuccessionIsSettled /\ FinalizedIsPast /\ FailuresAreCounted

LEMMA SettledInit == Init => Settled
<1> SUFFICES ASSUME Init PROVE Settled OBVIOUS
<1>1. Typed BY TypesInit
<1>2. latest = 0 /\ \A n \in Numbers : round[n] = NewRound BY DEF Init
<1>3. ~NewRound.finalized /\ ~NewRound.published BY DEF NewRound
<1>4. \A n \in Numbers : ~(n < latest) BY <1>2, RoundBoundsAssumption DEF Numbers
<1>5. QED BY <1>1, <1>2, <1>3, <1>4
          DEF Settled, SuccessionIsSettled, PredecessorIsClosed, FinalizedIsSettled,
              FinalizedIsPast, FailuresAreCounted

LEMMA CalmSettled == ASSUME Settled, EvidenceStep, Calm, Typed' PROVE Settled'
<1>1. /\ Typed /\ TypeOK /\ PredecessorIsClosed /\ FinalizedIsSettled /\ FinalizedIsPast
      /\ FailuresAreCounted
  BY DEF Settled, SuccessionIsSettled, Typed
<1>2. latest' = latest /\ \A n \in Numbers : RowKept(n) BY DEF Calm
<1>3. FailuresAreCounted' BY <1>1, <1>2 DEF FailuresAreCounted, RowKept, CountKept
<1>4. FinalizedIsPast' BY <1>1, <1>2 DEF FinalizedIsPast, RowKept, Calm
<1>5. ASSUME NEW n \in Numbers, round[n].finalized PROVE Pending(n)' = {}
  <2>1. n < latest \/ phase = "ended" BY <1>1, <1>5 DEF FinalizedIsPast
  <2>2. n \in Nat /\ latest \in Nat BY <1>1, RoundBoundsAssumption DEF TypeOK, Numbers
  <2>3. ASSUME NEW s \in Services PROVE check'[n][s] # "pending"
    <3>1. check[n][s] # "pending" BY <1>1, <1>5 DEF FinalizedIsSettled, Pending
    <3>2. QED BY <1>2, <2>1, <2>2, <3>1 DEF EvidenceStep, CheckStep
  <2>4. QED BY <2>3 DEF Pending
<1>6. FinalizedIsSettled' BY <1>2, <1>5 DEF FinalizedIsSettled, RowKept
<1>7. PredecessorIsClosed' BY <1>1, <1>2, <1>5 DEF PredecessorIsClosed, RowKept
<1>8. QED BY <1>3, <1>4, <1>6, <1>7 DEF Settled, SuccessionIsSettled

LEMMA SuccessionSettled ==
  ASSUME Settled, EvidenceStep, Succeeds, Typed'
  PROVE  Settled'
<1>1. /\ Typed /\ TypeOK /\ PredecessorIsClosed /\ FinalizedIsSettled /\ FinalizedIsPast
      /\ FailuresAreCounted
  BY DEF Settled, SuccessionIsSettled, Typed
<1>2. PICK w \in Scanners, p \in Pipes : prepare_round(w, p) BY DEF Succeeds
<1> DEFINE expected == cursor[w]
<1>3. /\ latest' = expected + 1 /\ latest \in {expected, expected + 1}
      /\ expected \in 0..MaxRounds
      /\ phase = "running"
      /\ \A n \in Numbers :
           /\ round'[n].completed = round[n].completed
           /\ n # expected => round'[n].finalized = round[n].finalized
           /\ CountKept(n)
      /\ expected > 0 =>
           /\ round[expected].completed /\ round'[expected].finalized
           /\ \A s \in Services : check'[expected][s] # "pending"
  BY <1>1, <1>2, SuccessionRows
<1> HIDE DEF expected
<1>4. expected \in Nat /\ latest \in Nat /\ \A n \in Numbers : n \in Nat /\ n > 0
  BY <1>1, <1>3, RoundBoundsAssumption DEF TypeOK, Numbers
<1>5. FailuresAreCounted' BY <1>1, <1>3 DEF FailuresAreCounted, CountKept
<1>6. \A n \in Numbers : round[n].finalized => n < latest
  BY <1>1, <1>3 DEF FinalizedIsPast
<1>7. FinalizedIsPast'
  <2> SUFFICES ASSUME NEW n \in Numbers, round'[n].finalized PROVE n < latest'
    BY DEF FinalizedIsPast
  <2>1. QED BY <1>3, <1>4, <1>6
<1>8. ASSUME NEW n \in Numbers, n < latest' PROVE round'[n].completed /\ round'[n].finalized
  <2>1. CASE n = expected BY <1>3, <1>4, <2>1
  <2>2. CASE n # expected
    <3>1. n < latest BY <1>3, <1>4, <1>8, <2>2
    <3>2. QED BY <1>1, <1>3, <2>2, <3>1 DEF PredecessorIsClosed
  <2>3. QED BY <2>1, <2>2
<1>9. ASSUME NEW n \in Numbers, round'[n].finalized PROVE Pending(n)' = {}
  <2>1. n < latest' BY <1>7, <1>9, <1>3, <1>4, <1>6
  <2>2. ASSUME NEW s \in Services PROVE check'[n][s] # "pending"
    <3>1. CASE n = expected BY <1>3, <1>4, <3>1
    <3>2. CASE n # expected
      <4>1. round[n].finalized BY <1>3, <1>9, <3>2
      <4>2. check[n][s] # "pending" BY <1>1, <4>1 DEF FinalizedIsSettled, Pending
      <4>3. n # latest' BY <1>3, <1>4, <2>1
      <4>4. QED BY <4>2, <4>3 DEF EvidenceStep, CheckStep
    <3>3. QED BY <3>1, <3>2
  <2>3. QED BY <2>2 DEF Pending
<1>10. PredecessorIsClosed' BY <1>8, <1>9 DEF PredecessorIsClosed
<1>11. FinalizedIsSettled' BY <1>9 DEF FinalizedIsSettled
<1>12. QED BY <1>5, <1>7, <1>10, <1>11 DEF Settled, SuccessionIsSettled

LEMMA FinalSettled ==
  ASSUME Settled, EvidenceStep, finalize_ended_round_checks, Typed'
  PROVE  Settled'
<1>1. /\ Typed /\ TypeOK /\ PredecessorIsClosed /\ FinalizedIsSettled /\ FinalizedIsPast
      /\ FailuresAreCounted
  BY DEF Settled, SuccessionIsSettled, Typed
<1>2. /\ latest' = latest /\ phase' = "ended"
      /\ \A n \in Numbers :
           /\ round'[n].completed = round[n].completed
           /\ n # latest => round'[n].finalized = round[n].finalized
           /\ CountKept(n)
      /\ \A n \in Numbers : n = latest =>
           round'[n].finalized /\ \A s \in Services : check'[n][s] # "pending"
  BY <1>1, FinalRows
<1>3. phase = "ended" BY DEF finalize_ended_round_checks
<1>4. FailuresAreCounted' BY <1>1, <1>2 DEF FailuresAreCounted, CountKept
<1>5. FinalizedIsPast' BY <1>2 DEF FinalizedIsPast
<1>6. ASSUME NEW n \in Numbers, round'[n].finalized PROVE Pending(n)' = {}
  <2>1. ASSUME NEW s \in Services PROVE check'[n][s] # "pending"
    <3>1. CASE n = latest BY <1>2, <3>1
    <3>2. CASE n # latest
      <4>1. check[n][s] # "pending"
        BY <1>1, <1>2, <1>6, <3>2 DEF FinalizedIsSettled, Pending
      <4>2. QED BY <1>3, <4>1 DEF EvidenceStep, CheckStep
    <3>3. QED BY <3>1, <3>2
  <2>2. QED BY <2>1 DEF Pending
<1>7. FinalizedIsSettled' BY <1>6 DEF FinalizedIsSettled
<1>8. PredecessorIsClosed'
  <2> SUFFICES ASSUME NEW n \in Numbers, n < latest'
               PROVE  round'[n].completed /\ round'[n].finalized /\ Pending(n)' = {}
    BY DEF PredecessorIsClosed
  <2>1. round[n].completed /\ round[n].finalized BY <1>1, <1>2 DEF PredecessorIsClosed
  <2>2. n # latest BY <1>1, <1>2, RoundBoundsAssumption DEF TypeOK, Numbers
  <2>3. QED BY <1>2, <1>6, <2>1, <2>2
<1>9. QED BY <1>4, <1>5, <1>7, <1>8 DEF Settled, SuccessionIsSettled

LEMMA SettledStep == Settled /\ [Next]_vars => Settled'
<1> SUFFICES ASSUME Settled, [Next]_vars PROVE Settled' OBVIOUS
<1>1. Typed BY DEF Settled
<1>2. Typed' /\ EvidenceStep BY <1>1, TypesStep, EvidenceByStep
<1>3. CASE Succeeds BY <1>2, <1>3, SuccessionSettled
<1>4. CASE finalize_ended_round_checks BY <1>2, <1>4, FinalSettled
<1>5. CASE ~Succeeds /\ ~finalize_ended_round_checks
  BY <1>1, <1>2, <1>5, CalmSteps, CalmSettled
<1>6. QED BY <1>3, <1>4, <1>5

\* A round opens only after its predecessor's pipeline completed and every
\* check of it has a verdict, and a finalized round is never reopened, by
\* whichever scanners race, at a succession (prepare_round) and at the end of
\* the event (finalize_ended_round_checks).
THEOREM RoundsSucceedSettled == Spec => []SuccessionIsSettled
<1>1. Spec => []Settled BY SettledInit, SettledStep, PTL DEF Spec
<1>2. Settled => SuccessionIsSettled BY DEF Settled
<1>3. QED BY <1>1, <1>2, PTL

\* flag_delivery_failures of a published round is the number of its failed
\* receipts, although every push of a pipeline that lost its lease may still
\* write one (settle_round_publication, record_flag_delivery_outcome_batch).
THEOREM FailuresStayCounted == Spec => []FailuresAreCounted
<1>1. Spec => []Settled BY SettledInit, SettledStep, PTL DEF Spec
<1>2. Settled => FailuresAreCounted BY DEF Settled
<1>3. QED BY <1>1, <1>2, PTL
=============================================================================
