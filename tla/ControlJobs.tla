---------------------------- MODULE ControlJobs ----------------------------
(***************************************************************************)
(* The durable queue of slow operator mutations (services/control_jobs).   *)
(*                                                                         *)
(* HTTP handlers admit jobs into a PostgreSQL table; lane workers of every *)
(* replica claim them under a lease, execute them under a shorter budget   *)
(* and publish the outcome with statements fenced by lease token, input    *)
(* revision and cancellation flag.  Every SQL statement (or transaction    *)
(* serialised by an advisory lock) is one action; whatever the code does   *)
(* in several statements is several actions here, so that requests,        *)
(* cancellations, crashes and lease expiry fall between them.              *)
(*                                                                         *)
(* Time is relative: a timer holds the ticks a lease, or a terminal row's  *)
(* retention, still has to run.  Row ids and lease tokens are UUIDs in the *)
(* code; here they come from finite sets and are recycled only once        *)
(* nothing refers to them any more.                                        *)
(***************************************************************************)
EXTENDS Integers, FiniteSets

CONSTANTS
  Jobs,             \* row ids of "ControlPlaneJobs"
  Operations,       \* operation ids (Idempotency-Key values)
  RequestsOf,       \* [Operations -> SUBSET of requests that carry the key]
  Workers,          \* lane tasks of all replicas
  WorkerLane,       \* [Workers -> Lanes]
  Tokens,           \* lease tokens
  Scopes,           \* scope keys
  GameOf,           \* [Scopes -> games]
  ParticipationOf,  \* [Scopes -> participations], the team of an AdReset
  Fingerprints,     \* request digests
  Work,             \* what a job has to do: base work, ensureVpn, ensureKoth
  Lease,            \* ticks of an execution lease (15 minutes)
  Budget,           \* ticks an execution may last (14 minutes)
  Retention,        \* ticks a terminal row is kept (7 days)
  Slots,            \* [Lanes -> Nat], deployment-wide executions of a lane
  MaxActiveJobs,
  MaxActiveResetsPerGame,
  MaxActiveResetsPerParticipation,
  MaxOperationAliasesPerJob,
  MaxRevision,      \* bound on input_revision
  MaxCrashes,       \* bound on crashes, failed statements and shutdowns
  NoJob, NoToken    \* null values

Lanes == {"Gameplay", "Build", "Maintenance"}

\* Kinds admitted here.  SecurityDerivation binds a reconciliation generation
\* to its input inside the admission transaction and is not part of this model.
LaneKinds ==
  [Gameplay    |-> {"AdReset", "AdReconcile"},
   Build       |-> {"ChallengeBuild", "BuildBatch", "WorkloadRollout",
                    "ImagePreflight"},
   Maintenance |-> {"CompetitionResume", "VariantGeneration"}]

Kinds == UNION {LaneKinds[lane] : lane \in Lanes}

CancellableRunningKinds ==
  {"BuildBatch", "VariantGeneration", "WorkloadRollout", "AdReconcile"}

Request == [kind : Kinds, scope : Scopes, fingerprint : Fingerprints,
            need : SUBSET Work]

ASSUME BoundsAssumption ==
  /\ Lease \in Nat /\ Budget \in Nat /\ Retention \in Nat
  /\ 0 < Budget /\ Budget < Lease
  /\ Slots \in [Lanes -> Nat]
  /\ MaxActiveJobs \in Nat /\ MaxActiveResetsPerGame \in Nat
  /\ MaxActiveResetsPerParticipation \in Nat
  /\ MaxOperationAliasesPerJob \in Nat \ {0}
  /\ MaxRevision \in Nat /\ MaxCrashes \in Nat

ASSUME SetsAssumption ==
  /\ IsFiniteSet(Jobs) /\ IsFiniteSet(Operations) /\ IsFiniteSet(Workers)
  /\ RequestsOf \in [Operations -> SUBSET Request]
  /\ WorkerLane \in [Workers -> Lanes]
  /\ NoJob \notin Jobs /\ NoToken \notin Tokens
  /\ Scopes # {} /\ Fingerprints # {}

VARIABLES
  job,      \* the rows
  alias,    \* operation -> job ("ControlPlaneJobOperations")
  call,     \* what the handler serving an operation still has to do
  asked,    \* history: the requests accepted for an operation's alias
  reply,    \* the last answer the operation's client got
  worker,   \* the lane tasks
  crashes   \* environment failures so far

vars == <<job, alias, call, asked, reply, worker, crashes>>

Active == {"Queued", "Running"}
Terminal == {"Succeeded", "Failed", "Cancelled"}
Statuses == Active \cup Terminal \cup {"Absent"}

Row == [status : Statuses, kind : Kinds, scope : Scopes,
        fingerprint : Fingerprints, need : SUBSET Work,
        revision : 0..MaxRevision, token : Tokens \cup {NoToken},
        timer : Nat, cancel : BOOLEAN, applied : SUBSET Work]

Task == [pc : {"Idle", "Claimed", "Running", "Complete", "Fail",
               "FinishCancellation", "Requeue"},
         job : Jobs \cup {NoJob}, token : Tokens \cup {NoToken},
         revision : 0..MaxRevision, need : SUBSET Work,
         delay : 0..(Lease - Budget), run : 0..Budget, stopped : BOOLEAN]

Call == [pc : {"Idle", "Merge"}, job : Jobs \cup {NoJob}, need : SUBSET Work]

IdleTask == [pc |-> "Idle", job |-> NoJob, token |-> NoToken, revision |-> 0,
             need |-> {}, delay |-> 0, run |-> 0, stopped |-> FALSE]

IdleCall == [pc |-> "Idle", job |-> NoJob, need |-> {}]

NewRow(r) ==
  [status |-> "Queued", kind |-> r.kind, scope |-> r.scope,
   fingerprint |-> r.fingerprint, need |-> r.need, revision |-> 0,
   token |-> NoToken, timer |-> 0, cancel |-> FALSE, applied |-> {}]

\* The fields of an absent row carry no information.
AbsentRow ==
  [status |-> "Absent", kind |-> "AdReset",
   scope |-> CHOOSE s \in Scopes : TRUE,
   fingerprint |-> CHOOSE f \in Fingerprints : TRUE, need |-> {},
   revision |-> 0, token |-> NoToken, timer |-> 0, cancel |-> FALSE,
   applied |-> {}]

Init ==
  /\ job = [j \in Jobs |-> AbsentRow]
  /\ alias = [o \in Operations |-> NoJob]
  /\ call = [o \in Operations |-> IdleCall]
  /\ asked = [o \in Operations |-> {}]
  /\ reply = [o \in Operations |-> "None"]
  /\ worker = [w \in Workers |-> IdleTask]
  /\ crashes = 0

-----------------------------------------------------------------------------
(* Admission *)

SetRow(j, row) == job' = [job EXCEPT ![j] = row]
SetTask(w, task) == worker' = [worker EXCEPT ![w] = task]

ActiveJobs == {j \in Jobs : job[j].status \in Active}

\* Mutant: the lookup of the active job overlooks running ones.
ActiveIn_QueuedOnly(r) ==
  {j \in Jobs : job[j].status = "Queued" /\ job[j].kind = r.kind
                  /\ job[j].scope = r.scope}

ActiveIn(r) ==
  {j \in ActiveJobs : job[j].kind = r.kind /\ job[j].scope = r.scope}

CanCoalesceActive(r, active) ==
  \/ active = r.fingerprint
  \/ r.kind \in {"AdReconcile", "AdReset"}

AliasesOf(j) == {o \in Operations : alias[o] = j}

ActiveResets(g) ==
  {j \in ActiveJobs : job[j].kind = "AdReset" /\ GameOf[job[j].scope] = g}

\* Mutant: the bounds are compared one too late.
HasCapacity_OffByOne(r) ==
  /\ Cardinality(ActiveJobs) <= MaxActiveJobs
  /\ r.kind = "AdReset" =>
       /\ Cardinality(ActiveResets(GameOf[r.scope])) <= MaxActiveResetsPerGame
       /\ Cardinality({j \in ActiveResets(GameOf[r.scope]) :
              ParticipationOf[job[j].scope] = ParticipationOf[r.scope]})
            <= MaxActiveResetsPerParticipation

HasCapacity(r) ==
  /\ Cardinality(ActiveJobs) < MaxActiveJobs
  /\ r.kind = "AdReset" =>
       /\ Cardinality(ActiveResets(GameOf[r.scope])) < MaxActiveResetsPerGame
       /\ Cardinality({j \in ActiveResets(GameOf[r.scope]) :
              ParticipationOf[job[j].scope] = ParticipationOf[r.scope]})
            < MaxActiveResetsPerParticipation

\* An id no row has and no task or handler still remembers.
FreshJobs ==
  {j \in Jobs : /\ job[j].status = "Absent"
                /\ \A w \in Workers : worker[w].job # j
                /\ \A o \in Operations : call[o].job # j}

\* Once enqueue has returned job j, the two AdReconcile handlers merge their
\* requirements with a second statement before they answer.
Accept(o, r, j) ==
  /\ asked' = [asked EXCEPT ![o] = asked[o] \cup {r}]
  /\ IF r.kind = "AdReconcile"
       THEN /\ call' = [call EXCEPT ![o] = [pc |-> "Merge", job |-> j,
                                            need |-> r.need]]
            /\ UNCHANGED reply
       ELSE /\ reply' = [reply EXCEPT ![o] = "Accepted"]
            /\ UNCHANGED call

Refuse(o, answer) ==
  /\ reply' = [reply EXCEPT ![o] = answer]
  /\ UNCHANGED <<job, alias, call, asked>>

SameRequest(r, j) ==
  /\ job[j].kind = r.kind
  /\ job[j].scope = r.scope
  /\ job[j].fingerprint = r.fingerprint

\* The operation id is already known: return its job, or refuse the key.
ExactRetry(o, r) ==
  /\ alias[o] # NoJob
  /\ IF SameRequest(r, alias[o])
       THEN Accept(o, r, alias[o]) /\ UNCHANGED <<job, alias>>
       ELSE Refuse(o, "Mismatch")

\* A new key for a scope that has an active job: share that job.
Coalesce(o, r) ==
  /\ alias[o] = NoJob
  /\ \E j \in ActiveIn(r) :
       IF ~CanCoalesceActive(r, job[j].fingerprint)
         THEN Refuse(o, "Conflict")
         ELSE IF Cardinality(AliasesOf(j)) >= MaxOperationAliasesPerJob
           THEN Refuse(o, "Overloaded")
           ELSE /\ alias' = [alias EXCEPT ![o] = j]
                /\ Accept(o, r, j)
                /\ UNCHANGED job

\* A new key and an idle scope: insert a row, capacity permitting.
Admit(o, r) ==
  /\ alias[o] = NoJob
  /\ ActiveIn(r) = {}
  /\ IF ~HasCapacity(r)
       THEN Refuse(o, "Overloaded")
       ELSE \E j \in FreshJobs :
              /\ SetRow(j, NewRow(r))
              /\ alias' = [alias EXCEPT ![o] = j]
              /\ Accept(o, r, j)

\* enqueue: one transaction, serialised with every other admission by the
\* ADMISSION_LOCK_KEY advisory lock.  A caller that finds the lock busy, or
\* whose scope changes under it, answers without writing.
Enqueue(o) ==
  /\ call[o].pc = "Idle"
  /\ \E r \in RequestsOf[o] :
       \/ ExactRetry(o, r)
       \/ Coalesce(o, r)
       \/ Admit(o, r)
  /\ UNCHANGED <<worker, crashes>>

\* The merge matches no row when the job already is terminal, has every
\* requirement, or is at the revision bound.
Mergeable(o) ==
  LET row == job[call[o].job] IN
  /\ row.status \in Active
  /\ ~(call[o].need \subseteq row.need)
  /\ row.revision < MaxRevision

\* merge_reconcile_input, then the handler's answer.
MergeReconcileInput(o) ==
  LET j == call[o].job IN
  /\ call[o].pc = "Merge"
  /\ IF Mergeable(o)
       THEN SetRow(j, [job[j] EXCEPT !.need = job[j].need \cup call[o].need,
                                     !.revision = job[j].revision + 1])
       ELSE UNCHANGED job
  /\ call' = [call EXCEPT ![o] = IdleCall]
  /\ reply' = [reply EXCEPT ![o] =
                 IF job[j].status = "Absent" THEN "Gone" ELSE "Accepted"]
  /\ UNCHANGED <<alias, asked, worker, crashes>>

\* The handler dies between the two statements: the client hears nothing.
HandlerCrash(o) ==
  /\ call[o].pc = "Merge"
  /\ crashes < MaxCrashes
  /\ call' = [call EXCEPT ![o] = IdleCall]
  /\ crashes' = crashes + 1
  /\ UNCHANGED <<job, alias, asked, reply, worker>>

\* request_cancellation: a queued job is cancelled at once, a running one of a
\* cancellable kind is flagged, anything else is left alone.
RequestCancellation(j) ==
  /\ \/ job[j].status = "Queued"
     \/ /\ job[j].status = "Running"
        /\ job[j].kind \in CancellableRunningKinds
  /\ SetRow(j, IF job[j].status = "Queued"
                 THEN [job[j] EXCEPT !.cancel = TRUE, !.status = "Cancelled",
                                     !.token = NoToken, !.timer = Retention]
                 ELSE [job[j] EXCEPT !.cancel = TRUE])
  /\ UNCHANGED <<alias, call, asked, reply, worker, crashes>>

-----------------------------------------------------------------------------
(* Claim *)

HoldsSlot(j, lane) ==
  /\ job[j].kind \in LaneKinds[lane]
  /\ job[j].status = "Running"
  /\ job[j].timer > 0

\* Mutant: expired leases are never reclaimed.
Claimable_QueuedOnly(j, lane) ==
  /\ job[j].kind \in LaneKinds[lane]
  /\ job[j].status = "Queued"

Claimable(j, lane) ==
  /\ job[j].kind \in LaneKinds[lane]
  /\ \/ job[j].status = "Queued"
     \/ job[j].status = "Running" /\ job[j].timer = 0

FreshTokens ==
  {t \in Tokens : /\ \A j \in Jobs : job[j].token # t
                  /\ \A w \in Workers : worker[w].token # t}

\* Mutant: the lease is no longer than the execution budget.
GrantedLease_Short == Budget

\* The 15 minutes run_lane asks for, which the clamp to 900 seconds grants.
GrantedLease == Lease

\* Mutant: the lane admits one execution too many.
SlotFree_OffByOne(lane) ==
  Cardinality({k \in Jobs : HoldsSlot(k, lane)}) <= Slots[lane]

SlotFree(lane) == Cardinality({k \in Jobs : HoldsSlot(k, lane)}) < Slots[lane]

\* claim_matching under the lane's advisory lock.  The statement prefers games
\* without running work and then older rows, but skips rows that another
\* statement has locked at that instant, so any candidate may be taken.
Claim(w, j) ==
  /\ worker[w].pc = "Idle"
  /\ SlotFree(WorkerLane[w])
  /\ Claimable(j, WorkerLane[w])
  /\ \E t \in FreshTokens :
       /\ SetRow(j, [job[j] EXCEPT !.status = "Running", !.token = t,
                                   !.timer = GrantedLease])
       /\ SetTask(w, [pc |-> "Claimed", job |-> j, token |-> t,
                      revision |-> job[j].revision, need |-> job[j].need,
                      delay |-> 0, run |-> 0, stopped |-> FALSE])
  /\ UNCHANGED <<alias, call, asked, reply, crashes>>

-----------------------------------------------------------------------------
(* Execution *)

\* Mutant: the fence does not compare the lease token.
Owns_StatusOnly(w) == job[worker[w].job].status = "Running"

\* The row is still Running under the task's own token.
Owns(w) ==
  /\ job[worker[w].job].status = "Running"
  /\ job[worker[w].job].token = worker[w].token

\* A row that turned terminal, or went back to the queue, without its lease.
Settled(j, status, done) ==
  [job[j] EXCEPT !.status = status, !.token = NoToken, !.timer = Retention,
                 !.applied = done]
Requeued(j) ==
  [job[j] EXCEPT !.status = "Queued", !.token = NoToken, !.timer = 0]

\* Shutdown was signalled while the claim was in flight: no application code
\* has run, so the claim is given back (or the cancellation honoured).
ReleaseUnstarted(w) ==
  LET j == worker[w].job IN
  /\ worker[w].pc = "Claimed"
  /\ crashes < MaxCrashes
  /\ crashes' = crashes + 1
  /\ IF Owns(w)
       THEN SetRow(j, IF job[j].cancel THEN Settled(j, "Cancelled", {})
                                       ELSE Requeued(j))
       ELSE UNCHANGED job
  /\ SetTask(w, IdleTask)
  /\ UNCHANGED <<alias, call, asked, reply>>

\* The first statement of execute_one, set_progress, is the ownership fence;
\* it compares the token and does not look at the lease's expiry.
StartExecution(w) ==
  /\ worker[w].pc = "Claimed"
  /\ SetTask(w, IF Owns(w) THEN [worker[w] EXCEPT !.pc = "Running"]
                           ELSE IdleTask)
  /\ UNCHANGED <<job, alias, call, asked, reply, crashes>>

Ended(w, next, early) ==
  [worker[w] EXCEPT !.pc = next, !.delay = 0, !.run = 0, !.stopped = early]

\* An executor that polls the flag stops at a batch boundary and returns what
\* it has done so far as an ordinary result.
ObserveCancellation(w) ==
  /\ worker[w].pc = "Running"
  /\ Owns(w)
  /\ job[worker[w].job].cancel
  /\ SetTask(w, Ended(w, "Complete", TRUE))
  /\ UNCHANGED <<job, alias, call, asked, reply, crashes>>

\* The executor returns a result, or an error, or its budget runs out.
EndExecution(w) ==
  /\ worker[w].pc = "Running"
  /\ \E next \in {"Complete", "Fail"} : SetTask(w, Ended(w, next, FALSE))
  /\ UNCHANGED <<job, alias, call, asked, reply, crashes>>

\* Mutant: the outcome is published whatever was merged meanwhile.
MayFinish_AnyRevision(w) == Owns(w) /\ ~job[worker[w].job].cancel

\* Mutant: the outcome is published over a cancellation.
MayFinish_Cancelled(w) ==
  /\ Owns(w)
  /\ job[worker[w].job].revision = worker[w].revision

\* What the first statement of complete and of fail demands of the row.
MayFinish(w) ==
  /\ Owns(w)
  /\ job[worker[w].job].revision = worker[w].revision
  /\ ~job[worker[w].job].cancel

Complete(w) ==
  LET j == worker[w].job
      done == IF worker[w].stopped THEN {} ELSE worker[w].need
  IN
  /\ worker[w].pc = "Complete"
  /\ IF MayFinish(w)
       THEN /\ SetRow(j, Settled(j, "Succeeded", done))
            /\ SetTask(w, IdleTask)
       ELSE /\ SetTask(w, [worker[w] EXCEPT !.pc = "FinishCancellation"])
            /\ UNCHANGED job
  /\ UNCHANGED <<alias, call, asked, reply, crashes>>

Fail(w) ==
  LET j == worker[w].job IN
  /\ worker[w].pc = "Fail"
  /\ IF MayFinish(w)
       THEN /\ SetRow(j, Settled(j, "Failed", {}))
            /\ SetTask(w, IdleTask)
       ELSE /\ SetTask(w, [worker[w] EXCEPT !.pc = "FinishCancellation"])
            /\ UNCHANGED job
  /\ UNCHANGED <<alias, call, asked, reply, crashes>>

\* Mutant: the cancellation is never recorded.
FinishCancellation_Skipped(w) ==
  /\ worker[w].pc = "FinishCancellation"
  /\ SetTask(w, [worker[w] EXCEPT !.pc = "Requeue"])
  /\ UNCHANGED <<job, alias, call, asked, reply, crashes>>

\* The second statement of complete and fail.
FinishCancellation(w) ==
  LET j == worker[w].job IN
  /\ worker[w].pc = "FinishCancellation"
  /\ IF Owns(w) /\ job[j].cancel
       THEN /\ SetRow(j, Settled(j, "Cancelled", {}))
            /\ SetTask(w, IdleTask)
       ELSE /\ SetTask(w, [worker[w] EXCEPT !.pc = "Requeue"])
            /\ UNCHANGED job
  /\ UNCHANGED <<alias, call, asked, reply, crashes>>

\* The third: a newer revision sends the same row back to the queue.
Requeue(w) ==
  LET j == worker[w].job IN
  /\ worker[w].pc = "Requeue"
  /\ IF Owns(w) /\ job[j].revision # worker[w].revision
       THEN SetRow(j, Requeued(j))
       ELSE UNCHANGED job
  /\ SetTask(w, IdleTask)
  /\ UNCHANGED <<alias, call, asked, reply, crashes>>

\* The process dies, the drain deadline aborts the task, or a statement fails:
\* the task forgets its claim and the row keeps its lease.
Abandon(w) ==
  /\ worker[w].pc # "Idle"
  /\ crashes < MaxCrashes
  /\ SetTask(w, IdleTask)
  /\ crashes' = crashes + 1
  /\ UNCHANGED <<job, alias, call, asked, reply>>

-----------------------------------------------------------------------------
(* Retention and time *)

\* Mutant: the aliases outlive the row.
Purge_KeepsAliases(j) ==
  /\ job[j].status \in Terminal
  /\ job[j].timer = 0
  /\ SetRow(j, AbsentRow)
  /\ UNCHANGED <<alias, asked, reply, call, worker, crashes>>

\* purge_terminal; the operation aliases go with the row (ON DELETE CASCADE).
Purge(j) ==
  /\ job[j].status \in Terminal
  /\ job[j].timer = 0
  /\ SetRow(j, AbsentRow)
  /\ alias' = [o \in Operations |-> IF alias[o] = j THEN NoJob ELSE alias[o]]
  /\ asked' = [o \in Operations |-> IF alias[o] = j THEN {} ELSE asked[o]]
  /\ reply' = [o \in Operations |->
                 IF alias[o] = j THEN "None" ELSE reply[o]]
  /\ UNCHANGED <<call, worker, crashes>>

\* The delay saturates where the execution no longer counts as on time.
Older(d) == IF d < Lease - Budget THEN d + 1 ELSE d

Aged(task) ==
  [task EXCEPT !.delay = IF task.pc = "Claimed" THEN Older(task.delay)
                                                ELSE task.delay,
               !.run = IF task.pc = "Running" THEN task.run + 1
                                              ELSE task.run]

\* An execution is stopped before it exceeds its budget.
WithinBudget == \A w \in Workers :
                  worker[w].pc = "Running" => worker[w].run < Budget

\* One tick.  Every step but an execution may take arbitrarily long.
Tick ==
  /\ WithinBudget
  /\ job' = [j \in Jobs |->
               [job[j] EXCEPT !.timer = IF job[j].timer > 0
                                          THEN job[j].timer - 1 ELSE 0]]
  /\ worker' = [w \in Workers |-> Aged(worker[w])]
  /\ UNCHANGED <<alias, call, asked, reply, crashes>>

-----------------------------------------------------------------------------
TaskStep(w) ==
  \/ StartExecution(w)
  \/ ObserveCancellation(w)
  \/ EndExecution(w)
  \/ Complete(w)
  \/ Fail(w)
  \/ FinishCancellation(w)
  \/ Requeue(w)

Next ==
  \/ \E o \in Operations :
       Enqueue(o) \/ MergeReconcileInput(o) \/ HandlerCrash(o)
  \/ \E j \in Jobs : RequestCancellation(j) \/ Purge(j)
  \/ \E w \in Workers, j \in Jobs : Claim(w, j)
  \/ \E w \in Workers : TaskStep(w) \/ ReleaseUnstarted(w) \/ Abandon(w)
  \/ Tick

Spec == Init /\ [][Next]_vars

\* Tasks keep running, time passes, and the claim order (games without running
\* work, then the oldest row) lets no candidate wait for ever.
Fairness ==
  /\ WF_vars(Tick)
  /\ \A w \in Workers : WF_vars(TaskStep(w))
  /\ \A j \in Jobs : SF_vars(\E w \in Workers : Claim(w, j))

\* From some time on a database statement takes less than a tick, so that a
\* claimed task starts, and a finished one publishes, well inside its lease.
EventuallyTimely ==
  <>[][Tick => \A w \in Workers : worker[w].pc \in {"Idle", "Running"}]_vars

FairSpec == Spec /\ Fairness /\ EventuallyTimely

-----------------------------------------------------------------------------
(* Properties *)

\* Every variable has its type.
TypeOK ==
  /\ job \in [Jobs -> Row]
  /\ alias \in [Operations -> Jobs \cup {NoJob}]
  /\ call \in [Operations -> Call]
  /\ asked \in [Operations -> SUBSET Request]
  /\ reply \in [Operations -> {"None", "Accepted", "Mismatch", "Conflict",
                               "Overloaded", "Gone"}]
  /\ worker \in [Workers -> Task]
  /\ crashes \in 0..MaxCrashes

\* Two rows of one kind and scope are never active together, whatever requests,
\* requeues, reclaims and purges interleave (what the partial unique index of
\* the jobs table demands of every statement).
ActiveScopeUnique ==
  \A i, j \in ActiveJobs :
    job[i].kind = job[j].kind /\ job[i].scope = job[j].scope => i = j

\* The active-job, reset and alias bounds of enqueue hold at all times, not
\* only at the admission that checked them.
AdmissionBounds ==
  /\ Cardinality(ActiveJobs) <= MaxActiveJobs
  /\ \A s \in Scopes :
       /\ Cardinality(ActiveResets(GameOf[s])) <= MaxActiveResetsPerGame
       /\ Cardinality({j \in ActiveResets(GameOf[s]) :
              ParticipationOf[job[j].scope] = ParticipationOf[s]})
            <= MaxActiveResetsPerParticipation
  /\ \A j \in Jobs : Cardinality(AliasesOf(j)) <= MaxOperationAliasesPerJob

\* A task that began executing soon enough after its claim that the budget
\* still fits into the lease (less than Lease - Budget later).
OnTime(w) == worker[w].delay < Lease - Budget

Executing(w) == worker[w].pc = "Running"

\* Tasks that began on time never execute one job together: the 14-minute
\* budget ends before the 15-minute lease can be reclaimed.
ExclusiveExecution ==
  \A v, w \in Workers :
    /\ Executing(v) /\ Executing(w)
    /\ OnTime(v) /\ OnTime(w)
    /\ worker[v].job = worker[w].job
    => v = w

\* However many replicas run, the executions of a lane that began on time never
\* exceed the lane's deployment-wide slots.
LaneBudget ==
  \A lane \in Lanes :
    Cardinality({w \in Workers : WorkerLane[w] = lane /\ Executing(w)
                                    /\ OnTime(w)}) <= Slots[lane]

\* A job that reads Succeeded has done everything its input asks for: neither a
\* requirement merged while a pass ran nor a pass cut short by a cancellation
\* is ever reported as success.
SuccessCoversInput ==
  \A j \in Jobs :
    job[j].status = "Succeeded" => job[j].need \subseteq job[j].applied

\* Once a cancellation was accepted the job can only end Cancelled.
CancellationWins ==
  \A j \in Jobs : job[j].cancel => job[j].status \notin {"Succeeded", "Failed"}

\* An operation id resolves to a job of the kind and scope of every request
\* accepted under it, across coalescing, purges and reuse of the scope.
AliasResolves ==
  \A o \in Operations : alias[o] # NoJob =>
    /\ job[alias[o]].status # "Absent"
    /\ \A r \in asked[o] : job[alias[o]].kind = r.kind
                          /\ job[alias[o]].scope = r.scope

\* Admission stays sound while rows move, expire, are purged and their keys
\* are reused: one active row per scope, the bounds of enqueue, and keys that
\* resolve to the row they were accepted for (enqueue, PURGE_TERMINAL_SQL).
AdmissionIsSound == ActiveScopeUnique /\ AdmissionBounds /\ AliasResolves

\* A terminal row never changes again until its retention is over: no delayed
\* statement of a former owner, merge or cancellation rewrites an outcome.
TerminalIsFinal ==
  [][\A j \in Jobs : job[j].status \in Terminal =>
       \/ job'[j] = [job[j] EXCEPT !.timer = job'[j].timer]
       \/ job[j].timer = 0 /\ job'[j].status = "Absent"]_vars

\* A lease ends only by a step of the task that holds its token, or by a
\* reclaim after it ran out: a former owner cannot end its successor's lease.
OnlyOwnerEndsLease ==
  [][\A j \in Jobs :
       job[j].status = "Running" /\ job'[j].token # job[j].token =>
         \/ job[j].timer = 0 /\ job'[j].status = "Running"
         \/ \E w \in Workers : /\ worker[w].token = job[j].token
                               /\ worker'[w] = IdleTask]_vars

-----------------------------------------------------------------------------
(* Refinement: the queue is a job service. *)

NoWorker == "NoWorker"

\* The task that holds the lease of a row.
HolderOf(row, tasks) ==
  IF row.status = "Running" /\ \E w \in Workers : tasks[w].token = row.token
  THEN CHOOSE w \in Workers : tasks[w].token = row.token
  ELSE NoWorker

LeaseHolder(j) == HolderOf(job[j], worker)

Service == INSTANCE JobService WITH
  status <- [j \in Jobs |-> job[j].status],
  need <- [j \in Jobs |-> job[j].need],
  cancel <- [j \in Jobs |-> job[j].cancel],
  owner <- [j \in Jobs |-> LeaseHolder(j)],
  task <- [w \in Workers |-> [job |-> worker[w].job, need |-> worker[w].need]]

\* The queue implements the service: whatever leases expire, tasks crash and
\* statements come late, only the current owner settles a job, a verdict covers
\* the input as it is then, and an outcome is never rewritten.
ImplementsJobService == Service!Spec

\* A requested cancellation of a running job comes to an end: the row turns
\* Cancelled, also when its owner crashes or the input is merged meanwhile.
CancellationSettles ==
  \A j \in Jobs : (job[j].status = "Running" /\ job[j].cancel)
                     ~> (job[j].status = "Cancelled")

\* Every admitted job reaches a terminal status, whatever task crashes.
EveryJobSettles ==
  \A j \in Jobs : (job[j].status \in Active) ~> (job[j].status \in Terminal)

\* What merge_reconcile_input promises: once a reconcile request is answered
\* with a job that has succeeded, the work it asked for was part of a pass.
AcceptedRequirementApplied ==
  \A o \in Operations :
    /\ alias[o] # NoJob /\ reply[o] = "Accepted" /\ call[o].pc = "Idle"
    /\ job[alias[o]].status = "Succeeded"
    => \A r \in asked[o] : r.need \subseteq job[alias[o]].applied
=============================================================================
