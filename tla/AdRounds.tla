------------------------------ MODULE AdRounds ------------------------------
(***************************************************************************)
(* The round pipeline of one Attack & Defense game                         *)
(* (services/cron/scheduler.rs, services/cron/round_finish.rs and          *)
(* services/ad/engine).                                                    *)
(*                                                                         *)
(* Every replica scans the game; the one that finds the newest round over  *)
(* and its pipeline complete prepares the next round and spawns a          *)
(* pipeline for it.  A pipeline claims the round's lease, pushes the       *)
(* round's flags to the services, probes the services that acknowledged    *)
(* one, and completes the round.  Leases lapse, pipelines crash, time out  *)
(* or fail, and a later scan spawns another one on the same round.         *)
(*                                                                         *)
(* The evidence of a round is one delivery receipt and one check per       *)
(* service.  Each transaction runs under the game's advisory lock and is   *)
(* one step; work between two transactions is several.  Services are the   *)
(* managed ones, which can be reset or repaired at any moment.             *)
(***************************************************************************)
EXTENDS Integers, FiniteSets

CONSTANTS
  Services,     \* AdTeamServices rows of the game
  Scanners,     \* replicas running the round scheduler
  Pipes,        \* slots for spawned pipelines; a lease token is its holder
  NoPipe,       \* no lease token
  MaxRounds,    \* bound: rounds of the event
  MaxBackends,  \* bound: containers created per service
  MaxCrashes,   \* bound: pipelines that stop without releasing their lease
  MaxChurn      \* bound: roster changes, resets and repairs begun

ASSUME RoundBoundsAssumption ==
  /\ MaxRounds \in Nat /\ MaxBackends \in Nat \ {0} /\ MaxCrashes \in Nat
  /\ MaxChurn \in Nat
  /\ IsFiniteSet(Services)

ASSUME NoPipeAssumption == NoPipe \notin Pipes

VARIABLES
  phase,     \* what the event's clock allows
  latest,    \* number of the newest round, 0 before the first
  round,     \* AdRounds
  flags,     \* AdFlags: the services that have a flag in a round
  receipt,   \* AdFlagDeliveryResults
  check,     \* AdCheckResults
  roster,    \* services of accepted teams and enabled challenges
  service,   \* AdTeamServices: the backend and whether it has an endpoint
  work,      \* the reset or repair holding the service's publication lock
  cursor,    \* the round a scanner is about to succeed
  pipe,      \* the pipelines
  crashes,   \* pipelines that crashed
  churn      \* roster changes, resets and repairs so far

vars == <<phase, latest, round, flags, receipt, check, roster, service, work,
          cursor, pipe, crashes, churn>>

evidence == <<flags, receipt, check>>
lifecycle == <<roster, service, work, churn>>

Numbers == 1..MaxRounds
Backends == 0..MaxBackends

\* "pending" is a row whose sla_credit is NULL; "Offline" stands for every
\* verdict that blames the participant.
Verdicts == {"Ok", "Offline", "InternalError"}
Outcomes == {"none", "delivered", "refused", "missed"}

NoWatch == -1     \* the scanner holds no cursor
NoWork == [kind |-> "none", round |-> 0, fresh |-> FALSE]

Rounds ==
  [finalized : BOOLEAN, over : BOOLEAN, published : BOOLEAN, failures : Nat,
   completed : BOOLEAN, owner : Pipes \cup {NoPipe}, live : BOOLEAN]
Receipts == [outcome : Outcomes, backend : Backends]
Endpoints == [made : Backends, held : BOOLEAN, up : BOOLEAN]
Views == [backend : Backends, up : BOOLEAN]
Pipelines ==
  [at : {"idle", "spawned", "claimed", "running"}, round : 0..MaxRounds,
   push : [Services -> {"none", "todo", "admitted", "done"}],
   plan : [Services -> Backends],
   pub : {"open", "done", "failed"},
   sees : [Services -> Views],
   probe : [Services -> {"none", "mail", "ready", "seen", "late", "done"}],
   chk : {"waiting", "open", "done", "failed"}]

\* Types of the tables, the scanners and the pipelines.
TypeOK ==
  /\ phase \in {"running", "closing", "ended"}
  /\ latest \in 0..MaxRounds
  /\ round \in [Numbers -> Rounds]
  /\ flags \in [Numbers -> SUBSET Services]
  /\ receipt \in [Numbers -> [Services -> Receipts]]
  /\ check \in [Numbers -> [Services -> {"none", "pending"} \cup Verdicts]]
  /\ roster \in SUBSET Services
  /\ service \in [Services -> Endpoints]
  /\ work \in [Services -> [kind : {"none", "reset", "repair"},
                            round : 0..MaxRounds, fresh : BOOLEAN]]
  /\ cursor \in [Scanners -> {NoWatch} \cup 0..MaxRounds]
  /\ pipe \in [Pipes -> Pipelines]
  /\ crashes \in 0..MaxCrashes
  /\ churn \in 0..MaxChurn

NoReceipt == [outcome |-> "none", backend |-> 0]
NoView == [backend |-> 0, up |-> FALSE]
NewRound ==
  [finalized |-> FALSE, over |-> FALSE, published |-> FALSE, failures |-> 0,
   completed |-> FALSE, owner |-> NoPipe, live |-> FALSE]
PipeOn(at, n) ==
  [at |-> at, round |-> n,
   push |-> [s \in Services |-> "none"], plan |-> [s \in Services |-> 0],
   pub |-> "open", sees |-> [s \in Services |-> NoView],
   probe |-> [s \in Services |-> "none"], chk |-> "waiting"]
NoPipeline == PipeOn("idle", 0)

Init ==
  /\ phase = "running"
  /\ latest = 0
  /\ round = [n \in Numbers |-> NewRound]
  /\ flags = [n \in Numbers |-> {}]
  /\ receipt = [n \in Numbers |-> [s \in Services |-> NoReceipt]]
  /\ check = [n \in Numbers |-> [s \in Services |-> "none"]]
  /\ roster = Services
  /\ service = [s \in Services |-> [made |-> 1, held |-> TRUE, up |-> TRUE]]
  /\ work = [s \in Services |-> NoWork]
  /\ cursor = [w \in Scanners |-> NoWatch]
  /\ pipe = [p \in Pipes |-> NoPipeline]
  /\ crashes = 0
  /\ churn = 0

(***************************************************************************)
(* Settling evidence.  Every write of a check keeps the rows that already  *)
(* have a verdict, every write of a receipt keeps the one that is there.   *)
(***************************************************************************)
\* service.container_id
Backend(s) == IF service[s].held THEN service[s].made ELSE 0

\* service.host, service.port and service.container_id
View(s) == [backend |-> Backend(s), up |-> service[s].up]

\* Mutant: a verdict is overwritten.
Fill_Overwrites(checks, S, verdict) ==
  [s \in Services |-> IF s \in S /\ checks[s] # "none" THEN verdict ELSE checks[s]]

Fill(checks, S, verdict) ==
  [s \in Services |->
     IF s \in S /\ checks[s] = "pending" THEN verdict ELSE checks[s]]

Pending(n) == {s \in Services : check[n][s] = "pending"}

Of(receipts, outcome) == {s \in Services : receipts[s].outcome = outcome}

\* A delivery acknowledged by a backend the service no longer has.
complete_replaced_service_results(receipts, checks) ==
  Fill(checks,
       {s \in Of(receipts, "delivered") : receipts[s].backend # Backend(s)},
       "Offline")

complete_failed_check_results(receipts, checks) ==
  Fill(Fill(checks, Of(receipts, "refused"), "Offline"),
       Of(receipts, "missed"), "InternalError")

\* Mutant: the receipts are inserted without the container identity.
insert_missing_outcomes_NoIdentity(n, attempted) ==
  [s \in Services |->
     IF s \in flags[n] /\ receipt[n][s].outcome = "none"
     THEN [outcome |-> IF s \in attempted THEN "refused" ELSE "missed"]
     ELSE receipt[n][s]]

\* Services with a flag and no receipt: blamed on the participant when an
\* attempt was admitted, on the platform otherwise.
insert_missing_outcomes(n, attempted) ==
  [s \in Services |->
     IF s \in flags[n] /\ receipt[n][s].outcome = "none"
     THEN [outcome |-> IF s \in attempted THEN "refused" ELSE "missed",
           backend |-> Backend(s)]
     ELSE receipt[n][s]]

\* The receipts and the checks of round n once its publication is settled
\* with receipts rc.
settle_round_publication(n, rc) ==
  /\ receipt' = [receipt EXCEPT ![n] = rc]
  /\ check' = [check EXCEPT ![n] =
       complete_failed_check_results(rc,
         complete_replaced_service_results(rc, check[n]))]

Undelivered(rc) == Cardinality(Of(rc, "refused") \cup Of(rc, "missed"))

(***************************************************************************)
(* The clock, the lease and the roster.                                    *)
(***************************************************************************)
RoundEnds ==
  /\ latest > 0 /\ ~ round[latest].over
  /\ round' = [round EXCEPT ![latest].over = TRUE]
  /\ UNCHANGED <<phase, latest, cursor, pipe, crashes>>
  /\ UNCHANGED evidence /\ UNCHANGED lifecycle

\* The remaining time is too short for another round, then none is left.
EventCloses ==
  /\ phase = "running"
  /\ phase' = "closing"
  /\ UNCHANGED <<latest, round, cursor, pipe, crashes>>
  /\ UNCHANGED evidence /\ UNCHANGED lifecycle

EventEnds ==
  /\ phase = "closing"
  /\ latest > 0 => round[latest].over
  /\ phase' = "ended"
  /\ UNCHANGED <<latest, round, cursor, pipe, crashes>>
  /\ UNCHANGED evidence /\ UNCHANGED lifecycle

\* pipeline_lease_until passes.
LeaseLapses(n) ==
  /\ round[n].live
  /\ round' = [round EXCEPT ![n].live = FALSE]
  /\ UNCHANGED <<phase, latest, cursor, pipe, crashes>>
  /\ UNCHANGED evidence /\ UNCHANGED lifecycle

Churns == churn < MaxChurn /\ churn' = churn + 1

\* A team is suspended or reinstated, a challenge disabled or enabled.
RosterChanges(s) ==
  /\ Churns
  /\ roster' = IF s \in roster THEN roster \ {s} ELSE roster \cup {s}
  /\ UNCHANGED <<phase, latest, round, service, work, cursor, pipe, crashes>>
  /\ UNCHANGED evidence

(***************************************************************************)
(* Replacing a service's container: a reset settles the current check      *)
(* before it touches the container, a repair of the provisioner does not.  *)
(* Both hold the service's publication lock, and may stop anywhere.        *)
(***************************************************************************)
\* The newest round that is not finalized, or 0.
Current == IF latest > 0 /\ ~ round[latest].finalized THEN latest ELSE 0

SetEndpoint(s, held, up) ==
  service' = [service EXCEPT ![s].held = held, ![s].up = up]

prepare_service_reset(s) ==
  /\ work[s] = NoWork
  /\ Churns
  /\ s \in roster
  /\ Current > 0 => s \in flags[Current]
  /\ check' = IF Current = 0 THEN check
              ELSE [check EXCEPT ![Current] = Fill(check[Current], {s}, "Offline")]
  /\ SetEndpoint(s, service[s].held, FALSE)
  /\ work' = [work EXCEPT ![s] =
       [kind |-> "reset", round |-> Current, fresh |-> FALSE]]
  /\ UNCHANGED <<phase, latest, round, flags, receipt, roster, cursor, pipe, crashes>>

\* The provisioner finds the container dead or without an endpoint.
StartRepair(s) ==
  /\ work[s] = NoWork
  /\ Churns
  /\ s \in roster
  /\ SetEndpoint(s, service[s].held, FALSE)
  /\ work' = [work EXCEPT ![s] =
       [kind |-> "repair", round |-> 0, fresh |-> FALSE]]
  /\ UNCHANGED <<phase, latest, round, roster, cursor, pipe, crashes>>
  /\ UNCHANGED evidence

destroy_container_after_capture_fence(s) ==
  /\ work[s] # NoWork /\ ~ work[s].fresh
  /\ service[s].held
  /\ SetEndpoint(s, FALSE, FALSE)
  /\ UNCHANGED <<phase, latest, round, roster, work, cursor, pipe, crashes, churn>>
  /\ UNCHANGED evidence

retain_created_backend_identity(s) ==
  /\ work[s] # NoWork
  /\ ~ service[s].held
  /\ service[s].made < MaxBackends
  /\ service' = [service EXCEPT ![s] =
       [made |-> service[s].made + 1, held |-> TRUE, up |-> FALSE]]
  /\ work' = [work EXCEPT ![s].fresh = TRUE]
  /\ UNCHANGED <<phase, latest, round, roster, cursor, pipe, crashes, churn>>
  /\ UNCHANGED evidence

\* The replacement gets its endpoint if the team is still eligible, a reset
\* only in the round it was prepared in; otherwise it is rolled back.
publish_replacement(s) ==
  /\ work[s].fresh
  /\ IF s \in roster /\ phase # "ended"
        /\ (work[s].kind = "reset" => work[s].round = Current)
     THEN SetEndpoint(s, TRUE, TRUE)
     ELSE SetEndpoint(s, FALSE, FALSE)
  /\ work' = [work EXCEPT ![s] = NoWork]
  /\ UNCHANGED <<phase, latest, round, roster, cursor, pipe, crashes, churn>>
  /\ UNCHANGED evidence

AbortWork(s) ==
  /\ work[s] # NoWork
  /\ work' = [work EXCEPT ![s] = NoWork]
  /\ UNCHANGED <<phase, latest, round, roster, service, cursor, pipe, crashes, churn>>
  /\ UNCHANGED evidence

(***************************************************************************)
(* The scheduler: advance_game and prepare_round.                          *)
(***************************************************************************)
\* Mutant: the lease of a crashed pipeline counts for ever.
InFlight_IgnoresExpiry(n) == round[n].owner # NoPipe

InFlight(n) == round[n].owner # NoPipe /\ round[n].live

\* The newest round is unfinished and nobody works on it.
Recover(w, p) ==
  /\ phase # "ended"
  /\ cursor[w] = NoWatch
  /\ latest > 0 /\ ~ round[latest].completed /\ ~ InFlight(latest)
  /\ pipe[p].at = "idle"
  /\ pipe' = [pipe EXCEPT ![p] = PipeOn("spawned", latest)]
  /\ UNCHANGED <<phase, latest, round, cursor, crashes>>
  /\ UNCHANGED evidence /\ UNCHANGED lifecycle

\* A successor is due; the scanner repairs the services before it asks for it.
Watch(w) ==
  /\ phase = "running"
  /\ cursor[w] = NoWatch
  /\ latest > 0 => round[latest].completed /\ round[latest].over
  /\ cursor' = [cursor EXCEPT ![w] = latest]
  /\ UNCHANGED <<phase, latest, round, pipe, crashes>>
  /\ UNCHANGED evidence /\ UNCHANGED lifecycle

classify_round_target(expected) ==
  IF latest = expected THEN "Advance"
  ELSE IF latest = expected + 1 THEN "Repair"
  ELSE "Stale"

\* The window of the target starts where the newest round ends, also when the
\* newest round is the target.
WindowIsDue == latest > 0 => round[latest].over

CanPrepare(expected) ==
  /\ phase = "running"
  /\ classify_round_target(expected) # "Stale"
  /\ expected > 0 => round[expected].completed
  /\ WindowIsDue

\* Mutant: the predecessor is finalized with checks pending.
prepare_round_LeavesPending(w, p) ==
  LET target == cursor[w] + 1 IN
  /\ cursor[w] # NoWatch
  /\ CanPrepare(cursor[w])
  /\ target <= MaxRounds
  /\ pipe[p].at = "idle"
  /\ round' = IF cursor[w] > 0 THEN [round EXCEPT ![cursor[w]].finalized = TRUE]
              ELSE round
  /\ latest' = target
  /\ flags' = [flags EXCEPT ![target] = flags[target] \cup roster]
  /\ check' = [check EXCEPT ![target] =
       [s \in Services |-> IF s \in roster /\ check[target][s] = "none"
                           THEN "pending" ELSE check[target][s]]]
  /\ cursor' = [cursor EXCEPT ![w] = NoWatch]
  /\ pipe' = [pipe EXCEPT ![p] = PipeOn("spawned", target)]
  /\ UNCHANGED <<phase, receipt, roster, service, work, crashes, churn>>

\* The expected round is closed and its successor inserted, with a flag and a
\* pending check for every service of the roster that has none yet.
prepare_round(w, p) ==
  LET expected == cursor[w]
      target == expected + 1
      closed == IF expected > 0
                THEN [check EXCEPT ![expected] =
                        Fill(check[expected], Services, "InternalError")]
                ELSE check
  IN
  /\ cursor[w] # NoWatch
  /\ CanPrepare(expected)
  /\ target <= MaxRounds
  /\ pipe[p].at = "idle"
  /\ round' = IF expected > 0 THEN [round EXCEPT ![expected].finalized = TRUE]
              ELSE round
  /\ latest' = target
  /\ flags' = [flags EXCEPT ![target] = flags[target] \cup roster]
  /\ check' = [closed EXCEPT ![target] =
       [s \in Services |-> IF s \in roster /\ check[target][s] = "none"
                           THEN "pending" ELSE check[target][s]]]
  /\ cursor' = [cursor EXCEPT ![w] = NoWatch]
  /\ pipe' = [pipe EXCEPT ![p] = PipeOn("spawned", target)]
  /\ UNCHANGED <<phase, receipt, roster, service, work, crashes, churn>>

\* The transaction rolls back and the scanner starts over; an empty roster may
\* be one without an enabled challenge.
RefusePreparation(w) ==
  /\ cursor[w] # NoWatch
  /\ ~ CanPrepare(cursor[w]) \/ roster = {} \/ cursor[w] = MaxRounds
  /\ cursor' = [cursor EXCEPT ![w] = NoWatch]
  /\ UNCHANGED <<phase, latest, round, pipe, crashes>>
  /\ UNCHANGED evidence /\ UNCHANGED lifecycle

(***************************************************************************)
(* The lease of a round's pipeline.                                        *)
(***************************************************************************)
Owns(p, n) ==
  round[n].owner = p /\ ~ round[n].finalized /\ ~ round[n].completed

\* Mutant: the fence does not compare the token.
lock_owned_round_finish_AnyToken(p, n) ==
  /\ ~ round[n].finalized /\ ~ round[n].completed
  /\ round[n].live

\* lock_owned_round_finish
lock_owned_round_finish(p, n) == Owns(p, n) /\ round[n].live

Released(n) == [round EXCEPT ![n].owner = NoPipe, ![n].live = FALSE]
Completed(n) ==
  [round EXCEPT ![n].completed = TRUE, ![n].owner = NoPipe, ![n].live = FALSE]

Retire(p) == pipe' = [pipe EXCEPT ![p] = NoPipeline]

\* Granted, or the pipeline ends: the round is finalized, complete, or another
\* pipeline is in flight.
claim_round_finish(p) ==
  LET n == pipe[p].round IN
  /\ pipe[p].at = "spawned"
  /\ IF round[n].finalized \/ round[n].completed \/ round[n].live
     THEN /\ Retire(p)
          /\ UNCHANGED round
     ELSE /\ round' = [round EXCEPT ![n].owner = p, ![n].live = TRUE]
          /\ pipe' = [pipe EXCEPT ![p].at = "claimed"]
  /\ UNCHANGED <<phase, latest, cursor, crashes>>
  /\ UNCHANGED evidence /\ UNCHANGED lifecycle

\* What expire_overdue_round_finish and finalize_ended_round_checks write.
SealEvidence(n) ==
  LET rc == insert_missing_outcomes(n, {})
      settled == complete_failed_check_results(rc,
                   complete_replaced_service_results(rc, check[n]))
  IN
  /\ receipt' = [receipt EXCEPT ![n] = rc]
  /\ check' = [check EXCEPT ![n] = Fill(settled, Services, "InternalError")]
  /\ UNCHANGED flags

\* Mutant: the failures are counted before the missing receipts are inserted.
Sealed_CountsBefore(rounds, n) ==
  [rounds EXCEPT ![n].published = TRUE, ![n].failures = Undelivered(receipt[n])]

Sealed(rounds, n) ==
  [rounds EXCEPT ![n].published = TRUE,
                 ![n].failures = Undelivered(insert_missing_outcomes(n, {}))]

\* The owner found the round over: everything missing is settled and the
\* pipeline completes.  Otherwise it leaves, releasing the lease if told to.
expire_overdue_round_finish(p, release) ==
  LET n == pipe[p].round IN
  /\ IF Owns(p, n) /\ round[n].over /\ n = latest
     THEN /\ SealEvidence(n)
          /\ round' = Sealed(Completed(n), n)
     ELSE /\ round' = IF release /\ round[n].owner = p /\ ~ round[n].completed
                      THEN Released(n) ELSE round
          /\ UNCHANGED evidence
  /\ Retire(p)
  /\ UNCHANGED <<phase, latest, cursor, crashes>>
  /\ UNCHANGED lifecycle

\* drive_round_pipeline finds the deadline passed right after the claim.
ExpireAtOnce(p) ==
  /\ pipe[p].at = "claimed" /\ round[pipe[p].round].over
  /\ expire_overdue_round_finish(p, FALSE)

\* The execution budget elapses; the pipeline is dropped where it stands.
TimeOut(p) ==
  /\ pipe[p].at = "running"
  /\ expire_overdue_round_finish(p, TRUE)

\* A failed pipeline, and a replica shutting down in order, give the lease up.
abandon_round_finish(p) ==
  LET n == pipe[p].round IN
  /\ pipe[p].at \in {"claimed", "running"}
  /\ round' = IF round[n].owner = p /\ ~ round[n].completed
              THEN Released(n) ELSE round
  /\ Retire(p)
  /\ UNCHANGED <<phase, latest, cursor, crashes>>
  /\ UNCHANGED evidence /\ UNCHANGED lifecycle

\* The replica dies: the lease stays until it lapses.
Crash(p) ==
  /\ pipe[p].at # "idle"
  /\ crashes < MaxCrashes
  /\ crashes' = crashes + 1
  /\ Retire(p)
  /\ UNCHANGED <<phase, latest, round, cursor>>
  /\ UNCHANGED evidence /\ UNCHANGED lifecycle

\* finish_prepared_round reads the snapshot: the flags of the roster, without
\* those that have a receipt, and nothing once the publication is settled.
finish_prepared_round(p) ==
  LET n == pipe[p].round
      todo == IF round[n].published THEN {}
              ELSE {s \in flags[n] \cap roster : receipt[n][s].outcome = "none"}
  IN
  /\ pipe[p].at = "claimed" /\ ~ round[n].over
  /\ pipe' = [pipe EXCEPT
       ![p].at = "running",
       ![p].push = [s \in Services |-> IF s \in todo THEN "todo" ELSE "none"],
       ![p].plan = [s \in Services |-> IF s \in todo THEN Backend(s) ELSE 0]]
  /\ UNCHANGED <<phase, latest, round, cursor, crashes>>
  /\ UNCHANGED evidence /\ UNCHANGED lifecycle

(***************************************************************************)
(* publish_round_flags.  Its transactions do not look at the lease.        *)
(***************************************************************************)
Publishing(p) == pipe[p].at = "running" /\ pipe[p].pub = "open"

\* The container accepts the exec of a push.
AdmitPush(p, s) ==
  /\ Publishing(p)
  /\ pipe[p].push[s] = "todo" /\ pipe[p].plan[s] # 0
  /\ pipe' = [pipe EXCEPT ![p].push[s] = "admitted"]
  /\ UNCHANGED <<phase, latest, round, cursor, crashes>>
  /\ UNCHANGED evidence /\ UNCHANGED lifecycle

\* The backend fails after it accepted the exec: the fault is the platform's,
\* so the attempt counts as never admitted (DeliveryAttemptGuard::platform).
FailPush(p, s) ==
  /\ Publishing(p)
  /\ pipe[p].push[s] = "admitted"
  /\ pipe' = [pipe EXCEPT ![p].push[s] = "todo"]
  /\ UNCHANGED <<phase, latest, round, cursor, crashes>>
  /\ UNCHANGED evidence /\ UNCHANGED lifecycle

\* The receipt the outcome of a push asks for: a changed identity turns it
\* into a failed delivery of the participant.
Authoritative(p, s, outcome) ==
  [outcome |-> IF pipe[p].plan[s] = Backend(s) THEN outcome ELSE "refused",
   backend |-> pipe[p].plan[s]]

\* The receipt reaches the checker, which schedules the first one of a
\* service that was in its snapshot.
Handed(pipeline, s) ==
  IF pipeline.probe[s] # "none" THEN pipeline.probe[s]
  ELSE IF pipeline.chk = "waiting" THEN "mail"
  ELSE IF pipeline.chk = "open" THEN "ready"
  ELSE "none"

record_flag_delivery_outcome_batch(p, s, outcome) ==
  LET n == pipe[p].round
      refused == round[n].finalized \/ (~ round[n].published /\ round[n].over)
      rc == IF round[n].published \/ receipt[n][s].outcome # "none"
            THEN receipt[n]
            ELSE [receipt[n] EXCEPT ![s] = Authoritative(p, s, outcome)]
  IN
  /\ Publishing(p)
  /\ \/ pipe[p].push[s] = "admitted" /\ outcome \in {"delivered", "refused"}
     \/ pipe[p].push[s] = "todo" /\ outcome = "missed"
  /\ IF refused
     THEN /\ pipe' = [pipe EXCEPT ![p].push[s] = "done", ![p].pub = "failed"]
          /\ UNCHANGED <<receipt, check>>
     ELSE /\ receipt' = [receipt EXCEPT ![n] = rc]
          /\ check' = IF round[n].published
                      THEN [check EXCEPT ![n] =
                              complete_replaced_service_results(rc, check[n])]
                      ELSE check
          /\ pipe' = [pipe EXCEPT
               ![p].push[s] = "done",
               ![p].plan[s] = 0,
               ![p].probe[s] = IF rc[s].outcome = "delivered"
                               THEN Handed(pipe[p], s) ELSE pipe[p].probe[s]]
  /\ UNCHANGED <<phase, latest, round, flags, cursor, crashes>>
  /\ UNCHANGED lifecycle

\* The pushes are done or the publication deadline passed: what has no receipt
\* gets one and the flags are published, unless the round ended first.
settle_flag_delivery_outcomes(p) ==
  LET n == pipe[p].round
      attempted == {s \in Services : pipe[p].push[s] = "admitted"}
      rc == insert_missing_outcomes(n, attempted)
  IN
  /\ Publishing(p)
  /\ IF round[n].finalized \/ (~ round[n].published /\ round[n].over)
     THEN /\ pipe' = [pipe EXCEPT ![p].pub = "failed"]
          /\ UNCHANGED <<round, receipt, check>>
     ELSE /\ pipe' = [pipe EXCEPT ![p].pub = "done",
                                  ![p].push = NoPipeline.push,
                                  ![p].plan = NoPipeline.plan]
          /\ IF round[n].published
             THEN /\ check' = [check EXCEPT ![n] =
                       complete_replaced_service_results(receipt[n], check[n])]
                  /\ UNCHANGED <<round, receipt>>
             ELSE /\ settle_round_publication(n, rc)
                  /\ round' = [round EXCEPT ![n].published = TRUE,
                                            ![n].failures = Undelivered(rc)]
  /\ UNCHANGED <<phase, latest, flags, cursor, crashes>>
  /\ UNCHANGED lifecycle

(***************************************************************************)
(* run_checker and check_services.  Their transactions prove the lease.    *)
(***************************************************************************)
Checking(p) == pipe[p].at = "running" /\ pipe[p].chk = "open"

\* Mutant: a failed delivery is probed too.
PendingDeliveries_AnyReceipt(n) ==
  {s \in Pending(n) : receipt[n][s].outcome # "none"
                      /\ receipt[n][s].backend = Backend(s)}

\* Deliveries that still wait for a probe of the backend that acknowledged.
PendingDeliveries(n) ==
  {s \in Pending(n) : receipt[n][s].outcome = "delivered"
                      /\ receipt[n][s].backend = Backend(s)}

\* The hills crossed their cycle; the checker reads the services and the
\* receipts already recorded, and takes those handed to it meanwhile.
run_checker(p) ==
  LET n == pipe[p].round
      Scheduled(s) == s \in PendingDeliveries(n) \/ pipe[p].probe[s] = "mail"
  IN
  /\ pipe[p].at = "running" /\ pipe[p].chk = "waiting"
  /\ pipe' = [pipe EXCEPT
       ![p].chk = IF roster = {} THEN "done" ELSE "open",
       ![p].sees = [s \in Services |-> IF s \in roster THEN View(s) ELSE NoView],
       ![p].probe = [s \in Services |->
          IF s \notin roster THEN "done"
          ELSE IF Scheduled(s) THEN "ready" ELSE "none"]]
  /\ UNCHANGED <<phase, latest, round, cursor, crashes>>
  /\ UNCHANGED evidence /\ UNCHANGED lifecycle

\* A probe returns; its result counts only if it was observed in time.
Probe(p, s) ==
  /\ Checking(p)
  /\ pipe[p].probe[s] = "ready"
  /\ pipe' = [pipe EXCEPT ![p].probe[s] =
       IF round[pipe[p].round].over THEN "late" ELSE "seen"]
  /\ UNCHANGED <<phase, latest, round, cursor, crashes>>
  /\ UNCHANGED evidence /\ UNCHANGED lifecycle

\* bind_to_authoritative_identity
Bound(p, s, verdict) ==
  IF pipe[p].sees[s] = View(s) THEN verdict ELSE "Offline"

record_check_results(p, s, verdict) ==
  LET n == pipe[p].round IN
  /\ Checking(p)
  /\ pipe[p].probe[s] \in {"seen", "late"}
  /\ verdict = "Ok" => pipe[p].sees[s].up
  /\ IF lock_owned_round_finish(p, n) /\ n = latest
     THEN /\ pipe' = [pipe EXCEPT ![p].probe[s] = "done",
                                  ![p].sees[s] = NoView]
          /\ check' = IF pipe[p].probe[s] = "seen" /\ s \in roster
                      THEN [check EXCEPT ![n] =
                              Fill(check[n], {s}, Bound(p, s, verdict))]
                      ELSE check
     ELSE /\ pipe' = [pipe EXCEPT ![p].chk = "failed"]
          /\ UNCHANGED check
  /\ UNCHANGED <<phase, latest, round, flags, receipt, cursor, crashes>>
  /\ UNCHANGED lifecycle

\* Every probe is recorded and no receipt can follow.  The settlement comes
\* first: it queues on the game's lock, which is first come first served within
\* a replica, before it closes the channel the checker waits on.
complete_unresolved_check_results(p) ==
  LET n == pipe[p].round IN
  /\ Checking(p)
  /\ pipe[p].pub # "open"
  /\ \A s \in Services : pipe[p].probe[s] \notin {"ready", "seen", "late"}
  /\ IF lock_owned_round_finish(p, n)
     THEN /\ check' = [check EXCEPT ![n] =
               Fill(check[n], Services, "InternalError")]
          /\ pipe' = [pipe EXCEPT ![p].chk = "done"]
     ELSE /\ pipe' = [pipe EXCEPT ![p].chk = "failed"]
          /\ UNCHANGED check
  /\ UNCHANGED <<phase, latest, round, flags, receipt, cursor, crashes>>
  /\ UNCHANGED lifecycle

\* Both halves succeeded: the owner completes the round, even when its lease
\* has lapsed, as long as nobody else claimed it.
complete_round_finish(p) ==
  LET n == pipe[p].round IN
  /\ pipe[p].at = "running" /\ pipe[p].pub = "done" /\ pipe[p].chk = "done"
  /\ round' = IF Owns(p, n) THEN Completed(n) ELSE round
  /\ Retire(p)
  /\ UNCHANGED <<phase, latest, cursor, crashes>>
  /\ UNCHANGED evidence /\ UNCHANGED lifecycle

(***************************************************************************)
(* The end of the event.                                                   *)
(***************************************************************************)
\* Mutant: the last round is finalized as it stands.
finalize_ended_round_checks_Unsettled ==
  /\ phase = "ended"
  /\ Current > 0
  /\ round' = [round EXCEPT ![Current].finalized = TRUE]
  /\ UNCHANGED <<phase, latest, cursor, pipe, crashes>>
  /\ UNCHANGED evidence /\ UNCHANGED lifecycle

finalize_ended_round_checks ==
  /\ phase = "ended"
  /\ Current > 0
  /\ SealEvidence(Current)
  /\ round' = [Sealed(round, Current) EXCEPT ![Current].finalized = TRUE]
  /\ UNCHANGED <<phase, latest, cursor, pipe, crashes>>
  /\ UNCHANGED lifecycle

Next ==
  \/ RoundEnds \/ EventCloses \/ EventEnds \/ finalize_ended_round_checks
  \/ \E n \in Numbers : LeaseLapses(n)
  \/ \E s \in Services :
       \/ RosterChanges(s) \/ prepare_service_reset(s) \/ StartRepair(s)
       \/ destroy_container_after_capture_fence(s)
       \/ retain_created_backend_identity(s) \/ publish_replacement(s)
       \/ AbortWork(s)
  \/ \E w \in Scanners : Watch(w) \/ RefusePreparation(w)
  \/ \E w \in Scanners, p \in Pipes : Recover(w, p) \/ prepare_round(w, p)
  \/ \E p \in Pipes :
       \/ claim_round_finish(p) \/ ExpireAtOnce(p) \/ TimeOut(p)
       \/ abandon_round_finish(p) \/ Crash(p) \/ finish_prepared_round(p)
       \/ settle_flag_delivery_outcomes(p) \/ run_checker(p)
       \/ complete_unresolved_check_results(p) \/ complete_round_finish(p)
  \/ \E p \in Pipes, s \in Services :
       \/ AdmitPush(p, s) \/ FailPush(p, s) \/ Probe(p, s)
       \/ \E o \in Outcomes \ {"none"} : record_flag_delivery_outcome_batch(p, s, o)
       \/ \E v \in Verdicts : record_check_results(p, s, v)

Spec == Init /\ [][Next]_vars

(***************************************************************************)
(* Fairness: the clock runs, a replica keeps scanning, and a pipeline that *)
(* does not crash moves on; TimeOut stands for its bounded budget.  Strong *)
(* fairness of ExpireAtOnce: pipelines are not shut down for ever between  *)
(* the claim of an overdue round and its settlement.                       *)
(***************************************************************************)
Advance(p) ==
  claim_round_finish(p) \/ ExpireAtOnce(p) \/ finish_prepared_round(p)
  \/ TimeOut(p) \/ complete_round_finish(p)

FairSpec ==
  /\ Spec
  /\ WF_vars(RoundEnds)
  /\ \A n \in Numbers : WF_vars(LeaseLapses(n))
  /\ \A w \in Scanners : WF_vars(\E p \in Pipes : Recover(w, p))
  /\ \A p \in Pipes : WF_vars(Advance(p)) /\ SF_vars(ExpireAtOnce(p))
  /\ WF_vars(finalize_ended_round_checks)

(***************************************************************************)
(* Properties.                                                             *)
(***************************************************************************)
\* A round opens only after its predecessor's pipeline completed and every
\* check of it has a verdict (prepare_round), whichever scanners race and
\* whichever pipelines were lost on the way.
PredecessorIsClosed ==
  \A n \in Numbers : n < latest =>
    round[n].completed /\ round[n].finalized /\ Pending(n) = {}

\* A finalized round has no pending check: nothing that lists or repairs a
\* round reopens one (prepare_round, finalize_ended_round_checks).
FinalizedIsSettled ==
  \A n \in Numbers : round[n].finalized => Pending(n) = {}

\* Rounds succeed one another without leaving an open or unsettled round
\* behind, at a succession (prepare_round) and at the end of the event
\* (finalize_ended_round_checks).
SuccessionIsSettled == PredecessorIsClosed /\ FinalizedIsSettled

\* A service is scored Ok only in a round whose flag its container
\* acknowledged, although receipts are written by pipelines that may have
\* lost the lease and checks by another one (record_check_results).
OkNeedsDelivery ==
  \A n \in Numbers, s \in Services :
    check[n][s] = "Ok" => receipt[n][s].outcome = "delivered"

\* flag_delivery_failures of a published round is the number of its failed
\* receipts: no receipt is written behind the count
\* (settle_round_publication).
FailuresAreCounted ==
  \A n \in Numbers :
    round[n].published => round[n].failures = Undelivered(receipt[n])

\* A verdict and a receipt never change once written, whichever of the seven
\* writers of checks and four writers of receipts come later, and a round
\* keeps its flags.
EvidenceIsImmutable ==
  [][\A n \in Numbers, s \in Services :
       /\ check[n][s] \in Verdicts => check'[n][s] = check[n][s]
       /\ receipt[n][s].outcome # "none" => receipt'[n][s] = receipt[n][s]
       /\ flags[n] \subseteq flags'[n]]_vars

\* Once a pipeline is complete, or the lease is in other hands, a probe that
\* is still running cannot score: a check turns Ok only while its round is
\* incomplete and leased (lock_owned_round_finish).
LateVerdictsAreRefused ==
  [][\A n \in Numbers, s \in Services :
       check[n][s] # "Ok" /\ check'[n][s] = "Ok" =>
         /\ round[n].live /\ ~ round[n].completed /\ ~ round[n].finalized
         /\ pipe[round[n].owner].round = n
         /\ pipe[round[n].owner].probe[s] = "seen"]_vars

\* The pipeline of every round completes, or the event closes it: by its
\* pipeline, or after crashes and failures by a scan that finds the lease
\* lapsed and the round over (Recover, expire_overdue_round_finish).
EveryRoundIsClosed ==
  \A n \in Numbers :
    (latest = n) ~> (round[n].completed \/ round[n].finalized)

\* "A successful push is bound to the exact managed-container identity that
\* acknowledged it": a check turns Ok only on the backend of its receipt
\* (settle_round_publication, check_services).
OkIsOnTheAcknowledgedBackend ==
  [][\A n \in Numbers, s \in Services :
       check[n][s] # "Ok" /\ check'[n][s] = "Ok" =>
         receipt[n][s].backend = Backend(s)]_vars
=============================================================================
