------------------------- MODULE ControlJobsProofs -------------------------
(***************************************************************************)
(* Proofs about the control-job queue, for every set of jobs, operations,  *)
(* tasks and tokens and every value of the bounds.                         *)
(***************************************************************************)
EXTENDS ControlJobs, FiniteSetTheorems, TLAPS

-----------------------------------------------------------------------------
(* Type correctness *)

\* Busy tasks and merging handlers refer to a row; a busy task has a token.
Bound ==
  /\ \A w \in Workers : worker[w].pc # "Idle" => /\ worker[w].job \in Jobs
                                                 /\ worker[w].token \in Tokens
  /\ \A o \in Operations : call[o].pc = "Merge" => call[o].job \in Jobs

Typed == TypeOK /\ Bound

\* The null rows, tasks and calls have the types of the others.
LEMMA NullTypes == AbsentRow \in Row /\ IdleTask \in Task /\ IdleCall \in Call
BY SetsAssumption, BoundsAssumption DEF AbsentRow, Row, Statuses, Active,
   Terminal, Kinds, LaneKinds, Lanes, IdleTask, Task, IdleCall, Call

LEMMA InitTyped == Init => Typed
<1> SUFFICES ASSUME Init PROVE Typed
  OBVIOUS
<1>1. TypeOK
  BY NullTypes, BoundsAssumption DEF Init, TypeOK
<1>2. Bound
  BY DEF Init, Bound, IdleTask, IdleCall
<1> QED
  BY <1>1, <1>2 DEF Typed

\* A row stays a row under each of the updates the statements make.
LEMMA RowUpdates ==
  ASSUME TypeOK, NEW j \in Jobs
  PROVE  /\ \A r \in Request : NewRow(r) \in Row
         /\ \A s \in Terminal, d \in SUBSET Work : Settled(j, s, d) \in Row
         /\ Requeued(j) \in Row
         /\ [job[j] EXCEPT !.cancel = TRUE] \in Row
         /\ [job[j] EXCEPT !.cancel = TRUE, !.status = "Cancelled",
                           !.token = NoToken, !.timer = Retention] \in Row
         /\ \A t \in Tokens : [job[j] EXCEPT !.status = "Running",
                                 !.token = t, !.timer = GrantedLease] \in Row
         /\ \A n \in SUBSET Work : job[j].revision < MaxRevision =>
              [job[j] EXCEPT !.need = job[j].need \cup n,
                             !.revision = job[j].revision + 1] \in Row
<1> DEFINE row == job[j]
<1>0. row \in Row
  BY DEF TypeOK
<1>1. \A r \in Request : NewRow(r) \in Row
  BY BoundsAssumption DEF NewRow, Request, Row, Statuses, Active
<1>2. \A s \in Terminal, d \in SUBSET Work : Settled(j, s, d) \in Row
  BY <1>0, BoundsAssumption DEF Settled, Row, Statuses
<1>3. Requeued(j) \in Row
  BY <1>0 DEF Requeued, Row, Statuses, Active
<1>4. [row EXCEPT !.cancel = TRUE] \in Row
  BY <1>0 DEF Row
<1>5. [row EXCEPT !.cancel = TRUE, !.status = "Cancelled",
                  !.token = NoToken, !.timer = Retention] \in Row
  BY <1>0, BoundsAssumption DEF Row, Statuses, Terminal
<1>6. \A t \in Tokens : [row EXCEPT !.status = "Running", !.token = t,
                                    !.timer = GrantedLease] \in Row
  BY <1>0, BoundsAssumption DEF Row, Statuses, Active, GrantedLease
<1>7. \A n \in SUBSET Work : row.revision < MaxRevision =>
        [row EXCEPT !.need = row.need \cup n,
                    !.revision = row.revision + 1] \in Row
  <2> SUFFICES ASSUME NEW n \in SUBSET Work, row.revision < MaxRevision
               PROVE  [row EXCEPT !.need = row.need \cup n,
                                  !.revision = row.revision + 1] \in Row
    OBVIOUS
  <2>1. row.revision + 1 \in 0..MaxRevision /\ row.need \cup n \in SUBSET Work
    BY <1>0, BoundsAssumption DEF Row
  <2> HIDE DEF row
  <2> QED
    BY <1>0, <2>1 DEF Row
<1> QED
  BY <1>1, <1>2, <1>3, <1>4, <1>5, <1>6, <1>7

LEMMA EnqueueTyped ==
  ASSUME Typed, NEW o \in Operations, Enqueue(o)
  PROVE  Typed'
<1> USE DEF Typed
<1>0. PICK r \in RequestsOf[o] : ExactRetry(o, r) \/ Coalesce(o, r) \/ Admit(o, r)
  BY DEF Enqueue
<1>1. r \in Request /\ r.need \in SUBSET Work
  BY SetsAssumption DEF Request
<1>2. ASSUME NEW j \in Jobs, Accept(o, r, j)
      PROVE  /\ asked' \in [Operations -> SUBSET Request]
             /\ call' \in [Operations -> Call]
             /\ reply' \in [Operations -> {"None", "Accepted", "Mismatch",
                              "Conflict", "Overloaded", "Gone"}]
             /\ \A p \in Operations : call'[p].pc = "Merge" => call'[p].job \in Jobs
  <2>1. [pc |-> "Merge", job |-> j, need |-> r.need] \in Call
    BY <1>1 DEF Call
  <2> QED
    BY <1>1, <1>2, <2>1 DEF Accept, TypeOK, Bound
<1>3. CASE \E a \in {"Mismatch", "Conflict", "Overloaded"} : Refuse(o, a)
  BY <1>3 DEF Enqueue, Refuse, TypeOK, Bound
<1>4. CASE \E j \in Jobs : Accept(o, r, j) /\ UNCHANGED <<job, alias>>
  BY <1>2, <1>4 DEF Enqueue, TypeOK, Bound
<1>5. CASE \E j \in Jobs : /\ Accept(o, r, j) /\ UNCHANGED job
                           /\ alias' = [alias EXCEPT ![o] = j]
  BY <1>2, <1>5 DEF Enqueue, TypeOK, Bound
<1>6. CASE \E j \in Jobs : /\ Accept(o, r, j) /\ SetRow(j, NewRow(r))
                           /\ alias' = [alias EXCEPT ![o] = j]
  <2> PICK j \in Jobs : /\ Accept(o, r, j) /\ SetRow(j, NewRow(r))
                        /\ alias' = [alias EXCEPT ![o] = j]
    BY <1>6
  <2>1. job' \in [Jobs -> Row]
    BY <1>1, RowUpdates DEF SetRow, TypeOK
  <2> QED
    BY <1>2, <2>1 DEF Enqueue, TypeOK, Bound
<1> QED
  BY <1>0, <1>3, <1>4, <1>5, <1>6
  DEF ExactRetry, Coalesce, Admit, ActiveIn, ActiveJobs, FreshJobs, TypeOK

\* Every other step writes at most one row and one task.
LEMMA StepTyped ==
  ASSUME Typed, [Next]_vars
  PROVE  Typed'
<1> USE DEF Typed
<1>1. ASSUME NEW o \in Operations, MergeReconcileInput(o)
      PROVE  Typed'
  <2>1. call[o].job \in Jobs /\ call[o].need \in SUBSET Work
    BY <1>1 DEF MergeReconcileInput, Bound, TypeOK, Call
  <2>2. job' \in [Jobs -> Row]
    <3>1. job \in [Jobs -> Row]
      BY DEF TypeOK
    <3>2. CASE Mergeable(o)
      <4> DEFINE j == call[o].job
      <4>1. [job[j] EXCEPT !.need = job[j].need \cup call[o].need,
                           !.revision = job[j].revision + 1] \in Row
        BY <2>1, <3>2, RowUpdates DEF Mergeable
      <4> QED
        BY <1>1, <3>1, <3>2, <4>1, SMTT(30) DEF MergeReconcileInput, SetRow
    <3>3. CASE ~Mergeable(o)
      BY <1>1, <3>1, <3>3 DEF MergeReconcileInput
    <3> QED
      BY <3>2, <3>3
  <2>3. call' \in [Operations -> Call]
    BY <1>1, NullTypes DEF MergeReconcileInput, TypeOK
  <2>4. Bound'
    BY <1>1 DEF MergeReconcileInput, Bound, IdleCall, TypeOK
  <2> QED
    BY <1>1, <2>2, <2>3, <2>4 DEF MergeReconcileInput, TypeOK
<1>2. ASSUME NEW o \in Operations, HandlerCrash(o)
      PROVE  Typed'
  BY <1>2, NullTypes, BoundsAssumption, SMTT(30) DEF HandlerCrash, TypeOK, Bound, IdleCall
<1>3. ASSUME NEW j \in Jobs, RequestCancellation(j)
      PROVE  Typed'
  BY <1>3, RowUpdates DEF RequestCancellation, SetRow, TypeOK, Bound
<1>4. ASSUME NEW j \in Jobs, Purge(j)
      PROVE  Typed'
  BY <1>4, NullTypes DEF Purge, SetRow, TypeOK, Bound
<1>5. ASSUME NEW w \in Workers, NEW j \in Jobs, Claim(w, j)
      PROVE  Typed'
  <2> PICK t \in FreshTokens :
        /\ SetRow(j, [job[j] EXCEPT !.status = "Running", !.token = t,
                                    !.timer = GrantedLease])
        /\ SetTask(w, [pc |-> "Claimed", job |-> j, token |-> t,
                       revision |-> job[j].revision, need |-> job[j].need,
                       delay |-> 0, run |-> 0, stopped |-> FALSE])
    BY <1>5 DEF Claim
  <2>1. t \in Tokens
    BY SMTT(30) DEF FreshTokens
  <2>2. job' \in [Jobs -> Row]
    BY <2>1, RowUpdates DEF SetRow, TypeOK
  <2>3. [pc |-> "Claimed", job |-> j, token |-> t,
         revision |-> job[j].revision, need |-> job[j].need,
         delay |-> 0, run |-> 0, stopped |-> FALSE] \in Task
    BY <2>1, BoundsAssumption DEF TypeOK, Row, Task
  <2>4. worker' \in [Workers -> Task]
    BY <2>3 DEF SetTask, TypeOK
  <2>5. Bound'
    BY <1>5, <2>1 DEF Claim, SetTask, Bound, TypeOK
  <2> QED
    BY <1>5, <2>2, <2>4, <2>5 DEF Claim, TypeOK
<1>6. ASSUME NEW w \in Workers,
             TaskStep(w) \/ ReleaseUnstarted(w) \/ Abandon(w)
      PROVE  Typed'
  <2> DEFINE j == worker[w].job
  <2>0. j \in Jobs /\ worker[w].pc # "Idle" /\ worker[w] \in Task
    BY <1>6 DEF TaskStep, StartExecution, ObserveCancellation, EndExecution,
       Complete, Fail, FinishCancellation, Requeue, ReleaseUnstarted, Abandon,
       Bound, TypeOK
  <2>1. job' \in [Jobs -> Row]
    <3>1. worker[w].need \in SUBSET Work /\ {} \in SUBSET Work
      BY <2>0 DEF Task
    <3>2. \/ UNCHANGED job
          \/ SetRow(j, Requeued(j))
          \/ \E s \in Terminal, d \in SUBSET Work : SetRow(j, Settled(j, s, d))
      BY <1>6, <3>1 DEF TaskStep, StartExecution, ObserveCancellation,
         EndExecution, Complete, Fail, FinishCancellation, Requeue,
         ReleaseUnstarted, Abandon, Terminal
    <3>3. job \in [Jobs -> Row]
      BY DEF TypeOK
    <3>4. ASSUME NEW row \in Row, SetRow(j, row)
          PROVE  job' \in [Jobs -> Row]
      BY <3>3, <3>4 DEF SetRow
    <3>5. /\ Requeued(j) \in Row
          /\ \A s \in Terminal, d \in SUBSET Work : Settled(j, s, d) \in Row
      BY <2>0, RowUpdates
    <3> QED
      BY <3>2, <3>3, <3>4, <3>5
  <2>2. \E task \in Task :
          /\ SetTask(w, task)
          /\ task.pc # "Idle" => task.job = j /\ task.token = worker[w].token
    <3>1. \A next \in {"Running", "FinishCancellation", "Requeue"} :
            LET task == [worker[w] EXCEPT !.pc = next]
            IN  task \in Task /\ task.job = j /\ task.token = worker[w].token
      BY <2>0 DEF Task
    <3>2. \A next \in {"Complete", "Fail"}, early \in BOOLEAN :
            LET task == Ended(w, next, early)
            IN  task \in Task /\ task.job = j /\ task.token = worker[w].token
      <4>1. 0 \in 0..(Lease - Budget) /\ 0 \in 0..Budget
        BY BoundsAssumption
      <4> QED
        BY <2>0, <4>1 DEF Task, Ended
    <3>3. IdleTask \in Task /\ IdleTask.pc = "Idle"
      BY NullTypes DEF IdleTask
    <3> QED
      BY <1>6, <3>1, <3>2, <3>3 DEF TaskStep, StartExecution,
         ObserveCancellation, EndExecution, Complete, Fail,
         FinishCancellation, Requeue, ReleaseUnstarted, Abandon
  <2>3. /\ UNCHANGED <<alias, call, asked, reply>>
        /\ crashes' \in 0..MaxCrashes
    <3>1. crashes \in 0..MaxCrashes
      BY DEF TypeOK
    <3>2. CASE TaskStep(w)
      BY <3>1, <3>2 DEF TaskStep, StartExecution, ObserveCancellation,
         EndExecution, Complete, Fail, FinishCancellation, Requeue
    <3>3. CASE ReleaseUnstarted(w) \/ Abandon(w)
      BY <3>1, <3>3, BoundsAssumption DEF ReleaseUnstarted, Abandon
    <3> QED
      BY <1>6, <3>2, <3>3
  <2> QED
    BY <2>0, <2>1, <2>2, <2>3 DEF SetTask, TypeOK, Bound
<1>7. CASE Tick
  <2>1. job' \in [Jobs -> Row]
    <3>1. ASSUME NEW row \in Row
          PROVE  [row EXCEPT !.timer = IF row.timer > 0 THEN row.timer - 1
                                                        ELSE 0] \in Row
      <4>1. (IF row.timer > 0 THEN row.timer - 1 ELSE 0) \in Nat
        BY DEF Row
      <4> QED
        BY <4>1 DEF Row
    <3>2. \A j \in Jobs : job[j] \in Row
      BY DEF TypeOK
    <3> QED
      BY <1>7, <3>1, <3>2 DEF Tick
  <2>2. ASSUME NEW w \in Workers
        PROVE  /\ Aged(worker[w]) \in Task
               /\ Aged(worker[w]).pc = worker[w].pc
               /\ Aged(worker[w]).job = worker[w].job
               /\ Aged(worker[w]).token = worker[w].token
    <3>1. worker[w] \in Task /\ (worker[w].pc = "Running" => worker[w].run < Budget)
      BY <1>7 DEF Tick, WithinBudget, TypeOK
    <3>2. Older(worker[w].delay) \in 0..(Lease - Budget)
      BY <3>1, BoundsAssumption DEF Older, Task
    <3>3. (IF worker[w].pc = "Running" THEN worker[w].run + 1
                                       ELSE worker[w].run) \in 0..Budget
      BY <3>1, BoundsAssumption DEF Task
    <3> QED
      BY <3>1, <3>2, <3>3 DEF Aged, Task
  <2> QED
    BY <1>7, <2>1, <2>2 DEF Tick, TypeOK, Bound
<1>8. CASE UNCHANGED vars
  BY <1>8 DEF vars, TypeOK, Bound
<1> QED
  BY <1>1, <1>2, <1>3, <1>4, <1>5, <1>6, <1>7, <1>8, EnqueueTyped DEF Next

\* Every reachable state of the queue is well typed, whatever the sets and
\* bounds are.
THEOREM TypeCorrect == Spec => []TypeOK
<1>1. Spec => []Typed
  BY InitTyped, StepTyped, PTL DEF Spec
<1> QED
  BY <1>1, PTL DEF Typed

-----------------------------------------------------------------------------
(* The lease fence *)

\* No two tasks hold the same token.
TokensDistinct ==
  \A v, w \in Workers :
    v # w /\ worker[v].token = worker[w].token => worker[v].token = NoToken

\* While task w owns its row, the row is at least at the revision w read, its
\* input is the one w read unless the revision moved on, a pass that was cut
\* short left the cancellation flag behind, and the row is in w's lane.
Snapshot(w) ==
  LET row == job[worker[w].job] IN
  worker[w].pc # "Idle" /\ Owns(w) =>
    /\ worker[w].revision <= row.revision
    /\ row.revision = worker[w].revision => row.need = worker[w].need
    /\ worker[w].stopped => row.cancel
    /\ row.kind \in LaneKinds[WorkerLane[w]]

\* A task that is not late still holds its lease, and the lease has exactly the
\* time left that the task has not used.
Leased(w) ==
  worker[w].pc \in {"Claimed", "Running"} /\ OnTime(w) =>
    /\ Owns(w)
    /\ job[worker[w].job].timer = Lease - worker[w].delay - worker[w].run

Fence ==
  /\ TokensDistinct
  /\ \A w \in Workers : Snapshot(w) /\ Leased(w)
  /\ SuccessCoversInput
  /\ CancellationWins

LEMMA InitFence == Init => Fence
BY DEF Init, Fence, TokensDistinct, Snapshot, Leased, SuccessCoversInput,
   CancellationWins, IdleTask, AbsentRow

\* A lease that is not late has time left.
LEMMA LeasedTime ==
  ASSUME Typed, NEW w \in Workers, Leased(w), OnTime(w),
         worker[w].pc \in {"Claimed", "Running"}
  PROVE  job[worker[w].job].timer > 0 /\ Owns(w)
<1>1. /\ worker[w].delay \in 0..(Lease - Budget)
      /\ worker[w].run \in 0..Budget
  BY DEF Typed, TypeOK, Task
<1> QED
  BY <1>1, BoundsAssumption DEF Leased, OnTime

\* What a task relies on is untouched when neither it nor its row changes.
LEMMA TaskFrame ==
  ASSUME NEW w \in Workers, Snapshot(w), Leased(w), worker'[w] = worker[w],
         job'[worker[w].job] = job[worker[w].job]
  PROVE  Snapshot(w)' /\ Leased(w)'
BY DEF Snapshot, Leased, Owns, OnTime

\* Two distinct busy tasks do not own the same row.
LEMMA OneOwner ==
  ASSUME Typed, TokensDistinct, NEW v \in Workers, NEW w \in Workers, v # w,
         worker[v].pc # "Idle", Owns(v), Owns(w)
  PROVE  worker[v].job # worker[w].job
BY SetsAssumption DEF TokensDistinct, Owns, Typed, Bound

\* Admission only ever touches a row that no task refers to.
LEMMA EnqueueFence ==
  ASSUME Typed, Fence, NEW o \in Operations, Enqueue(o)
  PROVE  Fence'
<1>1. worker' = worker
  BY DEF Enqueue
<1>2. \/ job' = job
      \/ \E j \in FreshJobs, r \in Request : SetRow(j, NewRow(r))
  BY SetsAssumption DEF Enqueue, ExactRetry, Coalesce, Admit, Refuse
<1>3. CASE job' = job
  BY <1>1, <1>3 DEF Fence, TokensDistinct, Snapshot, Leased, Owns, OnTime,
     SuccessCoversInput, CancellationWins
<1>4. CASE \E j \in FreshJobs, r \in Request : SetRow(j, NewRow(r))
  <2> PICK j \in FreshJobs, r \in Request : SetRow(j, NewRow(r))
    BY <1>4
  <2>1. /\ job \in [Jobs -> Row] /\ j \in Jobs
        /\ \A w \in Workers : worker[w].job # j
    BY DEF FreshJobs, Typed, TypeOK
  <2>2. /\ job'[j] = NewRow(r)
        /\ \A k \in Jobs : k # j => job'[k] = job[k]
        /\ \A w \in Workers : job'[worker[w].job] = job[worker[w].job]
    BY <2>1 DEF SetRow
  <2>3. \A w \in Workers : Snapshot(w)' /\ Leased(w)'
    BY <1>1, <2>2, TaskFrame DEF Fence
  <2>4. SuccessCoversInput' /\ CancellationWins'
    BY <2>2 DEF Fence, SuccessCoversInput, CancellationWins, NewRow
  <2> QED
    BY <1>1, <2>3, <2>4 DEF Fence, TokensDistinct
<1> QED
  BY <1>2, <1>3, <1>4

\* A task that owns its row neither before nor after a step relies on nothing.
LEMMA LostFrame ==
  ASSUME NEW w \in Workers, Leased(w), worker'[w] = worker[w],
         ~Owns(w), ~Owns(w)'
  PROVE  Snapshot(w)' /\ Leased(w)'
BY DEF Snapshot, Leased, OnTime

\* A merge moves the revision past the one every task has read.
LEMMA MergeFence ==
  ASSUME Typed, Fence, NEW o \in Operations, MergeReconcileInput(o)
  PROVE  Fence'
<1> DEFINE j == call[o].job
<1>1. worker' = worker
  BY DEF MergeReconcileInput
<1>2. CASE job' = job
  BY <1>1, <1>2 DEF Fence, TokensDistinct, Snapshot, Leased, Owns, OnTime,
     SuccessCoversInput, CancellationWins
<1>3. CASE job' # job
  <2>1. j \in Jobs /\ job[j] \in Row /\ job \in [Jobs -> Row]
    BY DEF MergeReconcileInput, Typed, Bound, TypeOK
  <2>2. /\ job[j].status \in Active
        /\ SetRow(j, [job[j] EXCEPT !.need = job[j].need \cup call[o].need,
                                    !.revision = job[j].revision + 1])
    BY <1>3 DEF MergeReconcileInput, Mergeable
  <2>3. /\ job'[j].status = job[j].status
        /\ job'[j].token = job[j].token
        /\ job'[j].timer = job[j].timer
        /\ job'[j].cancel = job[j].cancel
        /\ job'[j].kind = job[j].kind
        /\ job'[j].revision = job[j].revision + 1
        /\ \A k \in Jobs : k # j => job'[k] = job[k]
    BY <2>1, <2>2 DEF SetRow, Row
  <2>4. ASSUME NEW w \in Workers
        PROVE  Snapshot(w)' /\ Leased(w)'
    <3>1. CASE worker[w].job # j
      <4>1. job'[worker[w].job] = job[worker[w].job]
        BY <2>1, <2>2, <3>1 DEF SetRow
      <4> QED
        BY <1>1, <4>1, TaskFrame DEF Fence
    <3>2. CASE worker[w].job = j
      <4>1. Snapshot(w)'
        <5>1. worker[w].revision \in Nat /\ job[j].revision \in Nat
          BY <2>1, BoundsAssumption DEF Typed, TypeOK, Task, Row
        <5> QED
          BY <1>1, <2>3, <3>2, <5>1 DEF Snapshot, Owns, Fence
      <4>2. Leased(w)'
        BY <1>1, <2>3, <3>2 DEF Leased, Owns, OnTime, Fence
      <4> QED
        BY <4>1, <4>2
    <3> QED
      BY <3>1, <3>2
  <2>5. SuccessCoversInput' /\ CancellationWins'
    BY <2>2, <2>3 DEF Fence, SuccessCoversInput, CancellationWins, Active
  <2> QED
    BY <1>1, <2>4, <2>5 DEF Fence, TokensDistinct
<1> QED
  BY <1>2, <1>3

\* A cancellation only adds the flag to a running row.
LEMMA CancellationFence ==
  ASSUME Typed, Fence, NEW j \in Jobs, RequestCancellation(j)
  PROVE  Fence'
<1>1. worker' = worker
  BY DEF RequestCancellation
<1>2. job[j] \in Row /\ job \in [Jobs -> Row]
  BY DEF Typed, TypeOK
<1>3. /\ job'[j].kind = job[j].kind /\ job'[j].need = job[j].need
      /\ job'[j].revision = job[j].revision /\ job'[j].cancel
      /\ \A k \in Jobs : k # j => job'[k] = job[k]
      /\ \/ job[j].status = "Queued" /\ job'[j].status = "Cancelled"
         \/ /\ job[j].status = "Running" /\ job'[j].status = "Running"
            /\ job'[j].token = job[j].token /\ job'[j].timer = job[j].timer
  BY <1>2 DEF RequestCancellation, SetRow, Row
<1>4. ASSUME NEW w \in Workers
      PROVE  Snapshot(w)' /\ Leased(w)'
  <2>1. CASE worker[w].job # j
    <3>1. job'[worker[w].job] = job[worker[w].job]
      BY <1>2, <2>1 DEF RequestCancellation, SetRow
    <3> QED
      BY <1>1, <3>1, TaskFrame DEF Fence
  <2>2. CASE worker[w].job = j
    BY <1>1, <1>3, <2>2 DEF Snapshot, Leased, Owns, OnTime, Fence
  <2> QED
    BY <2>1, <2>2
<1>5. SuccessCoversInput' /\ CancellationWins'
  BY <1>3 DEF Fence, SuccessCoversInput, CancellationWins
<1> QED
  BY <1>1, <1>4, <1>5 DEF Fence, TokensDistinct

\* A purge removes a row that nobody owns.
LEMMA PurgeFence ==
  ASSUME Typed, Fence, NEW j \in Jobs, Purge(j)
  PROVE  Fence'
<1>1. worker' = worker /\ job[j].status \in Terminal
  BY DEF Purge
<1>2. job \in [Jobs -> Row]
  BY DEF Typed, TypeOK
<1>3. /\ job'[j] = AbsentRow
      /\ \A k \in Jobs : k # j => job'[k] = job[k]
  BY <1>2 DEF Purge, SetRow
<1>4. ASSUME NEW w \in Workers
      PROVE  Snapshot(w)' /\ Leased(w)'
  <2>1. CASE worker[w].job # j
    <3>1. job'[worker[w].job] = job[worker[w].job]
      BY <1>2, <2>1 DEF Purge, SetRow
    <3> QED
      BY <1>1, <3>1, TaskFrame DEF Fence
  <2>2. CASE worker[w].job = j
    <3>1. ~Owns(w) /\ ~Owns(w)'
      BY <1>1, <1>3, <2>2 DEF Owns, Terminal, AbsentRow
    <3> QED
      BY <1>1, <3>1, LostFrame DEF Fence
  <2> QED
    BY <2>1, <2>2
<1>5. SuccessCoversInput' /\ CancellationWins'
  BY <1>3 DEF Fence, SuccessCoversInput, CancellationWins, AbsentRow
<1> QED
  BY <1>1, <1>4, <1>5 DEF Fence, TokensDistinct

\* A claim takes a row whose lease has run out, under a token nobody holds.
LEMMA ClaimFence ==
  ASSUME Typed, Fence, NEW w \in Workers, NEW j \in Jobs, Claim(w, j)
  PROVE  Fence'
<1> DEFINE task(t) == [pc |-> "Claimed", job |-> j, token |-> t,
                       revision |-> job[j].revision, need |-> job[j].need,
                       delay |-> 0, run |-> 0, stopped |-> FALSE]
<1> PICK t \in FreshTokens :
      /\ SetRow(j, [job[j] EXCEPT !.status = "Running", !.token = t,
                                  !.timer = GrantedLease])
      /\ SetTask(w, task(t))
  BY DEF Claim
<1>1. /\ t \in Tokens /\ \A v \in Workers : worker[v].token # t
      /\ job[j] \in Row /\ job \in [Jobs -> Row] /\ worker \in [Workers -> Task]
  BY DEF FreshTokens, Typed, TypeOK
<1>2. /\ worker'[w] = task(t)
      /\ \A v \in Workers : v # w => worker'[v] = worker[v]
  BY <1>1 DEF SetTask
<1>3. /\ job'[j].status = "Running" /\ job'[j].token = t
      /\ job'[j].timer = Lease /\ job'[j].kind = job[j].kind
      /\ job'[j].need = job[j].need /\ job'[j].cancel = job[j].cancel
      /\ job'[j].revision = job[j].revision
      /\ \A k \in Jobs : k # j => job'[k] = job[k]
  BY <1>1 DEF SetRow, Row, GrantedLease
<1>4. TokensDistinct'
  BY <1>1, <1>2 DEF Fence, TokensDistinct
<1>5. Snapshot(w)' /\ Leased(w)'
  <2>1. job[j].kind \in LaneKinds[WorkerLane[w]]
    BY DEF Claim, Claimable
  <2>2. Snapshot(w)'
    <3>1. job[j].revision \in Nat
      BY <1>1, BoundsAssumption DEF Row
    <3> QED
      BY <1>2, <1>3, <2>1, <3>1 DEF Snapshot
  <2>3. Leased(w)'
    BY <1>2, <1>3, BoundsAssumption DEF Leased, Owns
  <2> QED
    BY <2>2, <2>3
<1>6. ASSUME NEW v \in Workers, v # w
      PROVE  Snapshot(v)' /\ Leased(v)'
  <2>0. worker'[v] = worker[v] /\ Snapshot(v) /\ Leased(v)
    BY <1>2, <1>6 DEF Fence
  <2>1. CASE worker[v].job # j
    <3>1. job'[worker[v].job] = job[worker[v].job]
      BY <1>1, <2>1 DEF SetRow
    <3> QED
      BY <2>0, <3>1, TaskFrame
  <2>2. CASE worker[v].job = j
    <3>1. ~Owns(v)'
      BY <1>1, <1>3, <2>0, <2>2 DEF Owns
    <3>2. ~(worker[v].pc \in {"Claimed", "Running"} /\ OnTime(v))
      <4> SUFFICES ASSUME worker[v].pc \in {"Claimed", "Running"}, OnTime(v)
                   PROVE  FALSE
        OBVIOUS
      <4>1. job[j].timer > 0 /\ job[j].status = "Running"
        BY <2>0, <2>2, LeasedTime DEF Owns
      <4>2. job[j].timer = 0
        BY <4>1 DEF Claim, Claimable
      <4> QED
        BY <4>1, <4>2
    <3> QED
      BY <2>0, <3>1, <3>2 DEF Snapshot, Leased, OnTime
  <2> QED
    BY <2>1, <2>2
<1>7. SuccessCoversInput' /\ CancellationWins'
  BY <1>3 DEF Fence, SuccessCoversInput, CancellationWins
<1> QED
  BY <1>4, <1>5, <1>6, <1>7 DEF Fence

\* What a step of a busy task may do: to a row, only while it owns it and only
\* to end the lease; to itself, forget the claim or move on with it.
LEMMA TaskEffect ==
  ASSUME Typed, Fence, NEW w \in Workers,
         TaskStep(w) \/ ReleaseUnstarted(w) \/ Abandon(w)
  PROVE  LET j == worker[w].job IN
         /\ worker[w].pc # "Idle" /\ j \in Jobs
         /\ \A v \in Workers : v # w => worker'[v] = worker[v]
         /\ \/ job' = job
            \/ /\ Owns(w)
               /\ worker'[w] = IdleTask
               /\ \A k \in Jobs : k # j => job'[k] = job[k]
               /\ \/ job'[j] = Requeued(j)
                  \/ job'[j] = Settled(j, "Cancelled", {})
                  \/ MayFinish(w) /\ job'[j] = Settled(j, "Failed", {})
                  \/ /\ MayFinish(w)
                     /\ job'[j] = Settled(j, "Succeeded",
                          IF worker[w].stopped THEN {} ELSE worker[w].need)
<1> DEFINE j == worker[w].job
<1>1. /\ worker[w].pc # "Idle" /\ j \in Jobs
      /\ job \in [Jobs -> Row] /\ worker \in [Workers -> Task]
  BY DEF TaskStep, StartExecution, ObserveCancellation, EndExecution,
     Complete, Fail, FinishCancellation, Requeue, ReleaseUnstarted, Abandon,
     Typed, Bound, TypeOK
<1>2. \A v \in Workers : v # w => worker'[v] = worker[v]
  BY <1>1 DEF TaskStep, StartExecution, ObserveCancellation, EndExecution,
     Complete, Fail, FinishCancellation, Requeue, ReleaseUnstarted, Abandon,
     SetTask
<1>3. \A row : SetRow(j, row) => /\ job'[j] = row
                                 /\ \A k \in Jobs : k # j => job'[k] = job[k]
  BY <1>1 DEF SetRow
<1>4. SetTask(w, IdleTask) => worker'[w] = IdleTask
  BY <1>1 DEF SetTask
<1>5. CASE StartExecution(w) \/ ObserveCancellation(w) \/ EndExecution(w)
             \/ Abandon(w)
  BY <1>1, <1>2, <1>5 DEF StartExecution, ObserveCancellation, EndExecution,
     Abandon
<1>6. CASE Complete(w)
  BY <1>1, <1>2, <1>3, <1>4, <1>6 DEF Complete, MayFinish
<1>7. CASE Fail(w)
  BY <1>1, <1>2, <1>3, <1>4, <1>7 DEF Fail, MayFinish
<1>8. CASE FinishCancellation(w)
  BY <1>1, <1>2, <1>3, <1>4, <1>8 DEF FinishCancellation
<1>9. CASE Requeue(w)
  BY <1>1, <1>2, <1>3, <1>4, <1>9 DEF Requeue
<1>10. CASE ReleaseUnstarted(w)
  BY <1>1, <1>2, <1>3, <1>4, <1>10 DEF ReleaseUnstarted
<1> QED
  BY <1>5, <1>6, <1>7, <1>8, <1>9, <1>10 DEF TaskStep

LEMMA TaskFence ==
  ASSUME Typed, Fence, NEW w \in Workers,
         TaskStep(w) \/ ReleaseUnstarted(w) \/ Abandon(w)
  PROVE  Fence'
<1> DEFINE j == worker[w].job
<1>1. /\ worker[w].pc # "Idle" /\ j \in Jobs /\ job[j] \in Row
      /\ worker \in [Workers -> Task] /\ worker[w] \in Task
      /\ \A v \in Workers : v # w => worker'[v] = worker[v]
  BY TaskEffect DEF Typed, TypeOK
<1>2. /\ job' # job => Owns(w) /\ worker'[w] = IdleTask
      /\ \A k \in Jobs : k # j => job'[k] = job[k]
      /\ job' # job => job'[j].status # "Running"
  <2>1. Requeued(j).status = "Queued"
    BY <1>1 DEF Requeued, Row
  <2>2. \A s, d : Settled(j, s, d).status = s
    BY <1>1 DEF Settled, Row
  <2> QED
    BY <2>1, <2>2, TaskEffect
<1>3. \/ worker'[w] = IdleTask
      \/ /\ worker'[w].job = j /\ worker'[w].token = worker[w].token
         /\ worker'[w].revision = worker[w].revision
         /\ worker'[w].need = worker[w].need
         /\ worker'[w].stopped => worker[w].stopped \/ job[j].cancel
         /\ worker'[w].pc \in {"Claimed", "Running"} =>
              /\ worker[w].pc = "Claimed"
              /\ worker'[w].delay = worker[w].delay
              /\ worker'[w].run = worker[w].run
  <2>1. \A task : SetTask(w, task) => worker'[w] = task
    BY <1>1 DEF SetTask
  <2>2. CASE StartExecution(w)
    BY <1>1, <2>1, <2>2 DEF StartExecution, Task
  <2>3. CASE ObserveCancellation(w) \/ EndExecution(w)
    BY <1>1, <2>1, <2>3, ZenonT(40) DEF ObserveCancellation, EndExecution, Ended, Task
  <2>4. CASE Complete(w) \/ Fail(w) \/ FinishCancellation(w)
    BY <1>1, <2>1, <2>4 DEF Complete, Fail, FinishCancellation, Task
  <2>5. CASE Requeue(w) \/ ReleaseUnstarted(w) \/ Abandon(w)
    BY <2>1, <2>5 DEF Requeue, ReleaseUnstarted, Abandon
  <2> QED
    BY <2>2, <2>3, <2>4, <2>5 DEF TaskStep
<1>4. TokensDistinct'
  BY <1>1, <1>3 DEF Fence, TokensDistinct, IdleTask
<1>5. Snapshot(w)' /\ Leased(w)'
  <2>1. CASE worker'[w] = IdleTask
    BY <2>1 DEF Snapshot, Leased, IdleTask
  <2>2. CASE worker'[w] # IdleTask
    <3>1. job' = job
      BY <1>2, <2>2
    <3> QED
      BY <1>1, <1>3, <2>2, <3>1 DEF Snapshot, Leased, Owns, OnTime, Fence
  <2> QED
    BY <2>1, <2>2
<1>6. ASSUME NEW v \in Workers, v # w
      PROVE  Snapshot(v)' /\ Leased(v)'
  <2>0. worker'[v] = worker[v] /\ Snapshot(v) /\ Leased(v)
    BY <1>1, <1>6 DEF Fence
  <2>1. CASE job' = job
    BY <2>0, <2>1, TaskFrame
  <2>2. CASE job' # job /\ worker[v].job \in Jobs /\ worker[v].job # j
    BY <1>2, <2>0, <2>2, TaskFrame
  <2>3. CASE job' # job /\ worker[v].job = j
    <3>1. ~Owns(v)
      BY <1>1, <1>2, <1>6, <2>3, OneOwner DEF Fence
    <3>2. ~Owns(v)'
      BY <1>2, <2>0, <2>3 DEF Owns
    <3> QED
      BY <2>0, <3>1, <3>2, LostFrame
  <2>4. CASE worker[v].job \notin Jobs
    <3>1. worker[v].pc = "Idle"
      BY <2>4 DEF Typed, Bound
    <3> QED
      BY <2>0, <3>1 DEF Snapshot, Leased
  <2> QED
    BY <1>1, <2>1, <2>2, <2>3, <2>4
<1>7. SuccessCoversInput' /\ CancellationWins'
  <2>1. /\ Requeued(j).status = "Queued"
        /\ Settled(j, "Cancelled", {}).status = "Cancelled"
        /\ Settled(j, "Failed", {}).status = "Failed"
        /\ \A s, d : /\ Settled(j, s, d).cancel = job[j].cancel
                     /\ Settled(j, s, d).need = job[j].need
                     /\ Settled(j, s, d).applied = d
    BY <1>1 DEF Requeued, Settled, Row
  <2>2. MayFinish(w) => /\ ~job[j].cancel
                        /\ job[j].need = worker[w].need
                        /\ ~worker[w].stopped
    BY <1>1 DEF MayFinish, Fence, Snapshot
  <2>3. CASE job' = job
    BY <2>3 DEF Fence, SuccessCoversInput, CancellationWins
  <2>4. CASE job' # job
    <3>1. SuccessCoversInput'
      BY <1>1, <1>2, <2>1, <2>2, <2>4, TaskEffect DEF Fence, SuccessCoversInput
    <3>2. CancellationWins'
      BY <1>1, <1>2, <2>1, <2>2, <2>4, TaskEffect DEF Fence, CancellationWins
    <3> QED
      BY <3>1, <3>2
  <2> QED
    BY <2>3, <2>4
<1> QED
  BY <1>4, <1>5, <1>6, <1>7 DEF Fence

\* A tick takes the same from a lease as from the time its task has left.
LEMMA TickFence ==
  ASSUME Typed, Fence, Tick
  PROVE  Fence'
<1>1. ASSUME NEW k \in Jobs
      PROVE  /\ job'[k].status = job[k].status /\ job'[k].token = job[k].token
             /\ job'[k].kind = job[k].kind /\ job'[k].need = job[k].need
             /\ job'[k].revision = job[k].revision
             /\ job'[k].cancel = job[k].cancel
             /\ job'[k].applied = job[k].applied
             /\ job[k].timer > 0 => job'[k].timer = job[k].timer - 1
  BY DEF Tick, Typed, TypeOK, Row
<1>2. ASSUME NEW w \in Workers
      PROVE  /\ worker[w] \in Task
             /\ worker'[w].pc = worker[w].pc /\ worker'[w].job = worker[w].job
             /\ worker'[w].token = worker[w].token
             /\ worker'[w].revision = worker[w].revision
             /\ worker'[w].need = worker[w].need
             /\ worker'[w].stopped = worker[w].stopped
             /\ worker'[w].delay = IF worker[w].pc = "Claimed"
                                     THEN Older(worker[w].delay)
                                     ELSE worker[w].delay
             /\ worker'[w].run = IF worker[w].pc = "Running"
                                   THEN worker[w].run + 1 ELSE worker[w].run
  BY DEF Tick, Aged, Typed, TypeOK, Task
<1>3. TokensDistinct'
  BY <1>2 DEF Fence, TokensDistinct
<1>4. ASSUME NEW w \in Workers
      PROVE  Snapshot(w)' /\ Leased(w)'
  <2>0. Snapshot(w) /\ Leased(w)
    BY DEF Fence
  <2>1. CASE worker[w].pc = "Idle"
    BY <1>2, <2>1 DEF Snapshot, Leased
  <2>2. CASE worker[w].pc # "Idle"
    <3>1. worker[w].job \in Jobs
      BY <2>2 DEF Typed, Bound
    <3>2. Owns(w)' <=> Owns(w)
      BY <1>1, <1>2, <3>1 DEF Owns
    <3>3. Snapshot(w)'
      BY <1>1, <1>2, <2>0, <3>1, <3>2 DEF Snapshot
    <3>4. Leased(w)'
      <4> SUFFICES ASSUME worker[w].pc \in {"Claimed", "Running"}, OnTime(w)'
                   PROVE  /\ Owns(w)'
                          /\ job'[worker[w].job].timer =
                                Lease - worker'[w].delay - worker'[w].run
        BY <1>2 DEF Leased
      <4>1. /\ worker[w].delay \in Int /\ worker[w].run \in Int
            /\ Lease \in Int /\ Budget \in Int
        BY <1>2, BoundsAssumption DEF Task
      <4>2. OnTime(w)
        BY <1>2, <4>1 DEF OnTime, Older
      <4>3. job[worker[w].job].timer > 0 /\ Owns(w)
        BY <2>0, <4>2, LeasedTime
      <4>4. job'[worker[w].job].timer = Lease - worker[w].delay - worker[w].run - 1
        BY <1>1, <2>0, <3>1, <4>1, <4>2, <4>3 DEF Leased
      <4>5. CASE worker[w].pc = "Claimed"
        <5>1. worker'[w].delay = worker[w].delay + 1 /\ worker'[w].run = worker[w].run
          BY <1>2, <4>1, <4>2, <4>5 DEF OnTime, Older
        <5> QED
          BY <3>2, <4>1, <4>3, <4>4, <5>1
      <4>6. CASE worker[w].pc = "Running"
        <5>1. worker'[w].delay = worker[w].delay /\ worker'[w].run = worker[w].run + 1
          BY <1>2, <4>6
        <5> QED
          BY <3>2, <4>1, <4>3, <4>4, <5>1
      <4> QED
        BY <4>5, <4>6
    <3> QED
      BY <3>3, <3>4
  <2> QED
    BY <2>1, <2>2
<1>5. SuccessCoversInput' /\ CancellationWins'
  BY <1>1 DEF Fence, SuccessCoversInput, CancellationWins
<1> QED
  BY <1>3, <1>4, <1>5 DEF Fence

LEMMA StepFence ==
  ASSUME Typed, Fence, [Next]_vars
  PROVE  Fence'
<1>1. ASSUME NEW o \in Operations, HandlerCrash(o)
      PROVE  Fence'
  BY <1>1 DEF HandlerCrash, Fence, TokensDistinct, Snapshot, Leased, Owns,
     OnTime, SuccessCoversInput, CancellationWins
<1>2. CASE UNCHANGED vars
  BY <1>2 DEF vars, Fence, TokensDistinct, Snapshot, Leased, Owns, OnTime,
     SuccessCoversInput, CancellationWins
<1> QED
  BY <1>1, <1>2, EnqueueFence, MergeFence, CancellationFence, PurgeFence,
     ClaimFence, TaskFence, TickFence DEF Next

LEMMA FenceHolds == Spec => [](Typed /\ Fence)
<1>1. Init => Typed /\ Fence
  BY InitTyped, InitFence
<1>2. Typed /\ Fence /\ [Next]_vars => Typed' /\ Fence'
  BY StepTyped, StepFence
<1> QED
  BY <1>1, <1>2, PTL DEF Spec

\* A job that reads Succeeded covers its whole input, however requests merge,
\* cancellations, crashes and reclaims interleave with its passes.
THEOREM SuccessCovers == Spec => []SuccessCoversInput
BY FenceHolds, PTL DEF Fence

\* A job whose cancellation was accepted never ends Succeeded or Failed.
THEOREM CancellationIsFinal == Spec => []CancellationWins
BY FenceHolds, PTL DEF Fence

\* Executions that began on time never overlap on one job, for every lease
\* longer than the execution budget.
THEOREM ExecutionIsExclusive == Spec => []ExclusiveExecution
<1>1. Typed /\ Fence => ExclusiveExecution
  <2> SUFFICES ASSUME Typed, Fence, NEW v \in Workers, NEW w \in Workers,
                      Executing(v), Executing(w), OnTime(v), OnTime(w),
                      worker[v].job = worker[w].job, v # w
               PROVE  FALSE
    BY DEF ExclusiveExecution
  <2>1. Owns(v) /\ Owns(w)
    BY LeasedTime DEF Fence, Executing
  <2> QED
    BY <2>1, OneOwner DEF Fence, Executing
<1> QED
  BY <1>1, FenceHolds, PTL

-----------------------------------------------------------------------------
(* What a step may do to a row *)

SameRow(k) == job'[k] = [job[k] EXCEPT !.timer = job'[k].timer]

Inserted(k) ==
  \E r \in Request : ActiveIn(r) = {} /\ HasCapacity(r) /\ job'[k] = NewRow(r)
                       /\ \A i \in Jobs : i # k => job'[i] = job[i]

Kept(k) == job'[k].kind = job[k].kind /\ job'[k].scope = job[k].scope

\* Row k is left alone but for its timer, or takes one of these transitions.
RowStep(k) ==
  \/ SameRow(k) /\ job'[k].timer <= job[k].timer
  \/ job[k].status = "Absent" /\ Inserted(k)
  \/ /\ job[k].status \in Active /\ Kept(k)            \* merge, cancel running
     /\ job'[k].status = job[k].status
     /\ job'[k].timer = job[k].timer /\ job'[k].token = job[k].token
  \/ /\ job[k].status = "Queued" /\ Kept(k)             \* cancel queued
     /\ job'[k].status = "Cancelled"
  \/ /\ Kept(k) /\ \E w \in Workers : Claim(w, k)
     /\ job'[k].status = "Running"
  \/ /\ job[k].status = "Running" /\ Kept(k)            \* end of a lease
     /\ job'[k].status \notin {"Running", "Absent"}
     /\ \E w \in Workers : /\ worker[w].token = job[k].token
                           /\ worker'[w] = IdleTask
  \/ /\ Purge(k)
     /\ job[k].status \in Terminal
     /\ job[k].timer = 0 /\ job'[k].status = "Absent"

LEMMA Unchanged ==
  ASSUME Typed, NEW k \in Jobs, job'[k] = job[k]
  PROVE  RowStep(k)
<1>1. job[k] \in Row
  BY DEF Typed, TypeOK
<1> QED
  BY <1>1 DEF RowStep, SameRow, Row

LEMMA EveryRowStep ==
  ASSUME Typed, Fence, [Next]_vars, NEW k \in Jobs
  PROVE  RowStep(k)
<1>0. job \in [Jobs -> Row] /\ job[k] \in Row
  BY DEF Typed, TypeOK
<1>a. \A j \in Jobs : \A row : SetRow(j, row) =>
        /\ k = j => job'[k] = row
        /\ k # j => job'[k] = job[k]
  BY <1>0 DEF SetRow
<1>1. ASSUME NEW o \in Operations, Enqueue(o)
      PROVE  RowStep(k)
  <2>1. CASE job' = job
    BY <2>1, Unchanged
  <2>2. CASE \E r \in Request, j \in FreshJobs :
               ActiveIn(r) = {} /\ HasCapacity(r) /\ SetRow(j, NewRow(r))
    <3> PICK r \in Request, j \in FreshJobs :
               ActiveIn(r) = {} /\ HasCapacity(r) /\ SetRow(j, NewRow(r))
      BY <2>2
    <3>1. j \in Jobs /\ job[j].status = "Absent"
      BY DEF FreshJobs
    <3>2. job'[j] = NewRow(r) /\ \A i \in Jobs : i # j => job'[i] = job[i]
      BY <1>0, <3>1 DEF SetRow
    <3> QED
      BY <3>1, <3>2, Unchanged DEF RowStep, Inserted
  <2> QED
    BY <1>1, <2>1, <2>2, SetsAssumption
    DEF Enqueue, ExactRetry, Coalesce, Admit, Refuse
<1>2. ASSUME NEW o \in Operations, MergeReconcileInput(o)
      PROVE  RowStep(k)
  <2>1. call[o].job \in Jobs
    BY <1>2 DEF MergeReconcileInput, Typed, Bound
  <2>2. CASE job' = job
    BY <2>2, Unchanged
  <2>3. CASE job' # job /\ k = call[o].job
    <3>1. job[k].status \in Active
      BY <1>2, <2>3 DEF MergeReconcileInput, Mergeable
    <3>2. job'[k] = [job[k] EXCEPT !.need = job[k].need \cup call[o].need,
                                   !.revision = job[k].revision + 1]
      BY <1>0, <1>2, <2>3 DEF MergeReconcileInput, SetRow
    <3> QED
      BY <1>0, <3>1, <3>2 DEF RowStep, Kept, Row
  <2>4. CASE job' # job /\ k # call[o].job
    BY <1>2, <1>a, <2>1, <2>4, Unchanged DEF MergeReconcileInput
  <2> QED
    BY <2>2, <2>3, <2>4
<1>3. ASSUME NEW o \in Operations, HandlerCrash(o)
      PROVE  RowStep(k)
  BY <1>3, Unchanged DEF HandlerCrash
<1>4. ASSUME NEW j \in Jobs, RequestCancellation(j)
      PROVE  RowStep(k)
  <2>1. CASE k # j
    BY <1>4, <1>a, <2>1, Unchanged DEF RequestCancellation
  <2>2. CASE k = j /\ job[k].status = "Queued"
    <3>1. job'[k] = [job[k] EXCEPT !.cancel = TRUE, !.status = "Cancelled",
                                   !.token = NoToken, !.timer = Retention]
      BY <1>0, <1>4, <2>2 DEF RequestCancellation, SetRow
    <3> QED
      BY <1>0, <2>2, <3>1 DEF RowStep, Kept, Row
  <2>3. CASE k = j /\ job[k].status # "Queued"
    <3>1. /\ job'[k] = [job[k] EXCEPT !.cancel = TRUE]
          /\ job[k].status \in Active
      BY <1>0, <1>4, <2>3 DEF RequestCancellation, SetRow, Active
    <3> QED
      BY <1>0, <3>1 DEF RowStep, Kept, Row
  <2> QED
    BY <2>1, <2>2, <2>3
<1>5. ASSUME NEW j \in Jobs, Purge(j)
      PROVE  RowStep(k)
  <2>1. CASE k # j
    BY <1>5, <1>a, <2>1, Unchanged DEF Purge
  <2>2. CASE k = j
    <3>1. job'[k].status = "Absent"
      BY <1>5, <1>a, <2>2 DEF Purge, AbsentRow
    <3> QED
      BY <1>5, <2>2, <3>1 DEF Purge, RowStep
  <2> QED
    BY <2>1, <2>2
<1>6. ASSUME NEW w \in Workers, NEW j \in Jobs, Claim(w, j)
      PROVE  RowStep(k)
  <2>1. CASE k # j
    BY <1>6, <1>a, <2>1, Unchanged DEF Claim
  <2>2. CASE k = j
    <3>1. job'[k].status = "Running" /\ Kept(k)
      BY <1>0, <1>6, <2>2 DEF Claim, SetRow, Kept, Row
    <3> QED
      BY <1>6, <2>2, <3>1 DEF RowStep
  <2> QED
    BY <2>1, <2>2
<1>7. ASSUME NEW w \in Workers,
             TaskStep(w) \/ ReleaseUnstarted(w) \/ Abandon(w)
      PROVE  RowStep(k)
  <2>1. CASE job'[k] = job[k]
    BY <2>1, Unchanged
  <2>2. CASE job'[k] # job[k]
    <3>1. /\ Owns(w) /\ worker'[w] = IdleTask /\ k = worker[w].job
          /\ \/ job'[k] = Requeued(k)
             \/ \E s \in Terminal : \E d : job'[k] = Settled(k, s, d)
      BY <1>7, <2>2, TaskEffect, SMTT(30) DEF Terminal
    <3>2. Kept(k) /\ job'[k].status \notin {"Running", "Absent"}
      BY <1>0, <3>1 DEF Kept, Requeued, Settled, Row, Terminal
    <3> QED
      BY <3>1, <3>2 DEF RowStep, Owns
  <2> QED
    BY <2>1, <2>2
<1>8. CASE Tick
  <2>1. /\ job'[k] = [job[k] EXCEPT !.timer = job'[k].timer]
        /\ job'[k].timer <= job[k].timer
    BY <1>0, <1>8 DEF Tick, Row
  <2> QED
    BY <2>1 DEF RowStep, SameRow
<1>9. CASE UNCHANGED vars
  BY <1>9, Unchanged DEF vars
<1> QED
  BY <1>1, <1>2, <1>3, <1>4, <1>5, <1>6, <1>7, <1>8, <1>9 DEF Next

\* A terminal row keeps its outcome until its retention is over.
THEOREM TerminalRowsAreFinal == Spec => TerminalIsFinal
<1>1. ASSUME Typed, Fence, [Next]_vars, NEW j \in Jobs,
             job[j].status \in Terminal
      PROVE  \/ job'[j] = [job[j] EXCEPT !.timer = job'[j].timer]
             \/ job[j].timer = 0 /\ job'[j].status = "Absent"
  BY <1>1, EveryRowStep
  DEF RowStep, SameRow, Terminal, Active, Claim, Claimable
<1>2. Typed /\ Fence /\ [Next]_vars =>
        [\A j \in Jobs : job[j].status \in Terminal =>
           \/ job'[j] = [job[j] EXCEPT !.timer = job'[j].timer]
           \/ job[j].timer = 0 /\ job'[j].status = "Absent"]_vars
  BY <1>1
<1> QED
  BY <1>2, FenceHolds, PTL DEF Spec, TerminalIsFinal

\* Only the holder of a lease's token, or its expiry, ends the lease.
THEOREM LeaseEndsByItsOwner == Spec => OnlyOwnerEndsLease
<1>1. ASSUME Typed, Fence, [Next]_vars, NEW j \in Jobs,
             job[j].status = "Running", job'[j].token # job[j].token
      PROVE  \/ job[j].timer = 0 /\ job'[j].status = "Running"
             \/ \E w \in Workers : /\ worker[w].token = job[j].token
                                   /\ worker'[w] = IdleTask
  <2>1. ~SameRow(j)
    BY <1>1 DEF SameRow, Typed, TypeOK, Row
  <2> QED
    BY <1>1, <2>1, EveryRowStep DEF RowStep, Terminal, Active, Claim, Claimable
<1>2. Typed /\ Fence /\ [Next]_vars =>
        [\A j \in Jobs :
           job[j].status = "Running" /\ job'[j].token # job[j].token =>
             \/ job[j].timer = 0 /\ job'[j].status = "Running"
             \/ \E w \in Workers : /\ worker[w].token = job[j].token
                                   /\ worker'[w] = IdleTask]_vars
  BY <1>1
<1> QED
  BY <1>2, FenceHolds, PTL DEF Spec, OnlyOwnerEndsLease

\* A step that inserts no row makes none active and keeps kinds and scopes.
LEMMA NoneActivated ==
  ASSUME Typed, Fence, [Next]_vars, NEW k \in Jobs, job'[k].status \in Active,
         ~(job[k].status = "Absent" /\ Inserted(k))
  PROVE  job[k].status \in Active /\ Kept(k)
<1>1. CASE SameRow(k)
  <2>1. job[k] \in Row
    BY DEF Typed, TypeOK
  <2> QED
    BY <1>1, <2>1 DEF SameRow, Kept, Row
<1>2. CASE ~SameRow(k)
  BY <1>2, EveryRowStep DEF RowStep, Active, Claim, Claimable
<1> QED
  BY <1>1, <1>2

\* At most one row of a kind and scope is active at any time.
THEOREM ScopesAreExclusive == Spec => []ActiveScopeUnique
<1>1. Init => ActiveScopeUnique
  BY DEF Init, ActiveScopeUnique, ActiveJobs, Active, AbsentRow
<1>2. ASSUME Typed, Fence, ActiveScopeUnique, [Next]_vars
      PROVE  ActiveScopeUnique'
  <2>1. CASE \E k \in Jobs : job[k].status = "Absent" /\ Inserted(k)
    <3> PICK k \in Jobs, r \in Request :
          /\ job[k].status = "Absent" /\ ActiveIn(r) = {}
          /\ job'[k] = NewRow(r) /\ \A i \in Jobs : i # k => job'[i] = job[i]
      BY <2>1 DEF Inserted
    <3>1. job'[k].kind = r.kind /\ job'[k].scope = r.scope
      BY DEF NewRow
    <3>2. \A i \in Jobs : job[i].status \in Active =>
            ~(job[i].kind = r.kind /\ job[i].scope = r.scope)
      BY DEF ActiveIn, ActiveJobs
    <3> QED
      BY <1>2, <3>1, <3>2 DEF ActiveScopeUnique, ActiveJobs
  <2>2. CASE ~\E k \in Jobs : job[k].status = "Absent" /\ Inserted(k)
    <3>1. \A k \in Jobs : job'[k].status \in Active => job[k].status \in Active /\ Kept(k)
      BY <1>2, <2>2, NoneActivated
    <3> QED
      BY <1>2, <3>1 DEF ActiveScopeUnique, ActiveJobs, Kept
  <2> QED
    BY <2>1, <2>2
<1> QED
  BY <1>1, <1>2, FenceHolds, PTL DEF Spec

-----------------------------------------------------------------------------
(* The bounds of admission *)

ActiveTeamResets(s) ==
  {j \in ActiveResets(GameOf[s]) : ParticipationOf[job[j].scope] = ParticipationOf[s]}

RowBounds ==
  /\ Cardinality(ActiveJobs) <= MaxActiveJobs
  /\ \A s \in Scopes :
       /\ Cardinality(ActiveResets(GameOf[s])) <= MaxActiveResetsPerGame
       /\ Cardinality(ActiveTeamResets(s)) <= MaxActiveResetsPerParticipation

\* A set of rows that loses members, or gains one below its bound.
LEMMA BoundKept ==
  ASSUME NEW N \in Nat, NEW S \in SUBSET Jobs, NEW T, NEW k,
         Cardinality(S) <= N,
         \/ T \subseteq S
         \/ T \subseteq S \cup {k} /\ Cardinality(S) < N
  PROVE  Cardinality(T) <= N
<1>1. IsFiniteSet(S) /\ Cardinality(S) \in Nat
  BY SetsAssumption, FS_Subset, FS_CardinalityType
<1>2. CASE T \subseteq S
  <2>1. Cardinality(T) <= Cardinality(S) /\ IsFiniteSet(T)
    BY <1>1, <1>2, FS_Subset
  <2>2. Cardinality(T) \in Nat
    BY <2>1, FS_CardinalityType
  <2> QED
    BY <1>1, <2>1, <2>2
<1>3. CASE T \subseteq S \cup {k} /\ Cardinality(S) < N
  <2>1. IsFiniteSet(S \cup {k}) /\ Cardinality(S \cup {k}) <= Cardinality(S) + 1
    BY <1>1, FS_AddElement
  <2>2. Cardinality(T) <= Cardinality(S \cup {k}) /\ IsFiniteSet(T)
    BY <1>3, <2>1, FS_Subset
  <2>3. Cardinality(T) \in Nat /\ Cardinality(S \cup {k}) \in Nat
    BY <2>1, <2>2, FS_CardinalityType
  <2> QED
    BY <1>1, <1>3, <2>1, <2>2, <2>3
<1> QED
  BY <1>2, <1>3

LEMMA StepRowBounds ==
  ASSUME Typed, Fence, RowBounds, [Next]_vars
  PROVE  RowBounds'
<1>0. /\ MaxActiveJobs \in Nat /\ MaxActiveResetsPerGame \in Nat
      /\ MaxActiveResetsPerParticipation \in Nat
      /\ ActiveJobs \in SUBSET Jobs
      /\ \A s : ActiveResets(GameOf[s]) \in SUBSET Jobs /\ ActiveTeamResets(s) \in SUBSET Jobs
  BY BoundsAssumption DEF ActiveJobs, ActiveResets, ActiveTeamResets
<1>1. CASE \E k \in Jobs : job[k].status = "Absent" /\ Inserted(k)
  <2>1. PICK k \in Jobs, r \in Request :
          /\ HasCapacity(r) /\ job'[k] = NewRow(r)
          /\ \A i \in Jobs : i # k => job'[i] = job[i]
    BY <1>1 DEF Inserted
  <2>2. job'[k].kind = r.kind /\ job'[k].scope = r.scope
    BY <2>1 DEF NewRow
  <2>3. Cardinality(ActiveJobs') <= MaxActiveJobs
    <3>1. ActiveJobs' \subseteq ActiveJobs \cup {k}
      BY <2>1 DEF ActiveJobs
    <3>2. Cardinality(ActiveJobs) < MaxActiveJobs /\ Cardinality(ActiveJobs) <= MaxActiveJobs
      BY <2>1 DEF HasCapacity, RowBounds
    <3> QED
      BY <1>0, <3>1, <3>2, BoundKept
  <2>4. ASSUME NEW s \in Scopes
        PROVE  /\ Cardinality(ActiveResets(GameOf[s])') <= MaxActiveResetsPerGame
               /\ Cardinality(ActiveTeamResets(s)') <= MaxActiveResetsPerParticipation
    <3>1. /\ Cardinality(ActiveResets(GameOf[s])) <= MaxActiveResetsPerGame
          /\ Cardinality(ActiveTeamResets(s)) <= MaxActiveResetsPerParticipation
      BY DEF RowBounds
    <3>2. /\ ActiveResets(GameOf[s])' \subseteq ActiveResets(GameOf[s]) \cup {k}
          /\ ActiveTeamResets(s)' \subseteq ActiveTeamResets(s) \cup {k}
      BY <2>1 DEF ActiveResets, ActiveTeamResets, ActiveJobs
    <3>3. \/ ActiveResets(GameOf[s])' \subseteq ActiveResets(GameOf[s])
          \/ r.kind = "AdReset" /\ GameOf[r.scope] = GameOf[s]
      BY <2>1, <2>2 DEF ActiveResets, ActiveJobs
    <3>4. \/ ActiveTeamResets(s)' \subseteq ActiveTeamResets(s)
          \/ /\ r.kind = "AdReset" /\ GameOf[r.scope] = GameOf[s]
             /\ ParticipationOf[r.scope] = ParticipationOf[s]
      BY <2>1, <2>2 DEF ActiveResets, ActiveTeamResets, ActiveJobs
    <3>5. r.kind = "AdReset" /\ GameOf[r.scope] = GameOf[s] =>
            Cardinality(ActiveResets(GameOf[s])) < MaxActiveResetsPerGame
      BY <2>1 DEF HasCapacity
    <3>6. r.kind = "AdReset" /\ GameOf[r.scope] = GameOf[s]
            /\ ParticipationOf[r.scope] = ParticipationOf[s] =>
            Cardinality(ActiveTeamResets(s)) < MaxActiveResetsPerParticipation
      BY <2>1 DEF HasCapacity, ActiveTeamResets
    <3>7. Cardinality(ActiveResets(GameOf[s])') <= MaxActiveResetsPerGame
      BY <1>0, <3>1, <3>2, <3>3, <3>5, BoundKept
    <3>8. Cardinality(ActiveTeamResets(s)') <= MaxActiveResetsPerParticipation
      BY <1>0, <3>1, <3>2, <3>4, <3>6, BoundKept
    <3> QED
      BY <3>7, <3>8
  <2> QED
    BY <2>3, <2>4 DEF RowBounds
<1>2. CASE ~\E k \in Jobs : job[k].status = "Absent" /\ Inserted(k)
  <2>1. \A k \in Jobs : job'[k].status \in Active => job[k].status \in Active /\ Kept(k)
    BY <1>2, NoneActivated
  <2>2. /\ ActiveJobs' \subseteq ActiveJobs
        /\ \A s : ActiveResets(GameOf[s])' \subseteq ActiveResets(GameOf[s])
        /\ \A s : ActiveTeamResets(s)' \subseteq ActiveTeamResets(s)
    BY <2>1 DEF ActiveJobs, ActiveResets, ActiveTeamResets, Kept
  <2>3. Cardinality(ActiveJobs') <= MaxActiveJobs
    BY <1>0, <2>2, BoundKept DEF RowBounds
  <2>4. ASSUME NEW s \in Scopes
        PROVE  /\ Cardinality(ActiveResets(GameOf[s])') <= MaxActiveResetsPerGame
               /\ Cardinality(ActiveTeamResets(s)') <= MaxActiveResetsPerParticipation
    BY <1>0, <2>2, BoundKept DEF RowBounds
  <2> QED
    BY <2>3, <2>4 DEF RowBounds
<1> QED
  BY <1>1, <1>2

\* Keys resolve to rows that are there; a free key carries no request.
Aliases ==
  /\ AliasResolves
  /\ \A o \in Operations : alias[o] = NoJob => asked[o] = {}
  /\ \A j \in Jobs : Cardinality(AliasesOf(j)) <= MaxOperationAliasesPerJob

LEMMA AliasesFinite ==
  \A j : IsFiniteSet(AliasesOf(j)) /\ Cardinality(AliasesOf(j)) \in Nat
BY SetsAssumption, FS_Subset, FS_CardinalityType DEF AliasesOf

\* A row that some key names stays, with its kind and scope, unless purged.
LEMMA RowStays ==
  ASSUME Typed, Fence, [Next]_vars, NEW k \in Jobs, job[k].status # "Absent",
         ~Purge(k)
  PROVE  job'[k].status # "Absent" /\ Kept(k)
<1>0. job \in [Jobs -> Row] /\ job[k] \in Row
  BY DEF Typed, TypeOK
<1>1. CASE SameRow(k)
  BY <1>0, <1>1 DEF SameRow, Kept, Row
<1>2. CASE ~SameRow(k)
  BY <1>2, EveryRowStep DEF RowStep, Terminal, Active
<1> QED
  BY <1>1, <1>2

\* Only an admission and a purge change what a key names.
LEMMA AliasFrame ==
  ASSUME [Next]_vars, ~\E o \in Operations : Enqueue(o), ~\E j \in Jobs : Purge(j)
  PROVE  alias' = alias /\ asked' = asked
BY DEF Next, MergeReconcileInput, HandlerCrash, RequestCancellation, Claim, TaskStep,
       StartExecution, ObserveCancellation, EndExecution, Complete, Fail,
       FinishCancellation, Requeue, ReleaseUnstarted, Abandon, Tick, vars

\* A key joins a row that has room for it, or a new row.
LEMMA EnqueueAliases ==
  ASSUME Typed, Fence, Aliases, NEW o \in Operations, Enqueue(o), [Next]_vars
  PROVE  Aliases'
<1>0. /\ alias \in [Operations -> Jobs \cup {NoJob}] /\ asked \in [Operations -> SUBSET Request]
      /\ job \in [Jobs -> Row] /\ NoJob \notin Jobs
      /\ MaxOperationAliasesPerJob \in Nat \ {0}
  BY SetsAssumption, BoundsAssumption DEF Typed, TypeOK
<1>1. PICK r \in RequestsOf[o] : ExactRetry(o, r) \/ Coalesce(o, r) \/ Admit(o, r)
  BY DEF Enqueue
<1>2. CASE alias' = alias /\ asked' = asked /\ job' = job
  BY <1>2 DEF Aliases, AliasResolves, AliasesOf
<1>3. CASE /\ alias[o] # NoJob /\ SameRequest(r, alias[o])
           /\ alias' = alias /\ job' = job /\ asked' = [asked EXCEPT ![o] = asked[o] \cup {r}]
  <2>1. AliasResolves'
    BY <1>0, <1>3 DEF Aliases, AliasResolves, SameRequest
  <2>2. \A p \in Operations : alias'[p] = NoJob => asked'[p] = {}
    BY <1>0, <1>3 DEF Aliases
  <2> QED
    BY <1>3, <2>1, <2>2 DEF Aliases, AliasesOf
<1>4. ASSUME NEW j \in Jobs, alias[o] = NoJob,
             alias' = [alias EXCEPT ![o] = j],
             asked' = [asked EXCEPT ![o] = asked[o] \cup {r}],
             job'[j].status # "Absent" /\ job'[j].kind = r.kind /\ job'[j].scope = r.scope,
             \A i \in Jobs : i # j => job'[i] = job[i],
             job'[j] = job[j] \/ AliasesOf(j) = {},
             Cardinality(AliasesOf(j)) < MaxOperationAliasesPerJob
      PROVE  Aliases'
  <2>1. asked'[o] = {r} /\ alias'[o] = j
    BY <1>0, <1>4 DEF Aliases
  <2>2. ASSUME NEW p \in Operations, p # o PROVE alias'[p] = alias[p] /\ asked'[p] = asked[p]
    BY <1>0, <1>4, <2>2
  <2>3. AliasResolves'
    <3>1. ASSUME NEW p \in Operations, p # o, alias[p] # NoJob
          PROVE  alias[p] \in Jobs /\ job'[alias[p]] = job[alias[p]]
      BY <1>0, <1>4, <3>1 DEF AliasesOf
    <3>2. ASSUME NEW p \in Operations, p # o, alias'[p] # NoJob
          PROVE  /\ job'[alias'[p]].status # "Absent"
                 /\ \A q \in asked'[p] : job'[alias'[p]].kind = q.kind
                                         /\ job'[alias'[p]].scope = q.scope
      BY <2>2, <3>1, <3>2 DEF Aliases, AliasResolves
    <3>3. /\ job'[alias'[o]].status # "Absent"
          /\ \A q \in asked'[o] : job'[alias'[o]].kind = q.kind
                                  /\ job'[alias'[o]].scope = q.scope
      BY <1>4, <2>1
    <3> QED
      BY <3>2, <3>3 DEF AliasResolves
  <2>4. \A p \in Operations : alias'[p] = NoJob => asked'[p] = {}
    BY <1>0, <2>1, <2>2 DEF Aliases
  <2>5. ASSUME NEW i \in Jobs
        PROVE  Cardinality(AliasesOf(i)') <= MaxOperationAliasesPerJob
    <3>0. IsFiniteSet(AliasesOf(i)) /\ Cardinality(AliasesOf(i)) \in Nat
      BY AliasesFinite
    <3>1. CASE i # j
      <4>1. AliasesOf(i)' = AliasesOf(i)
        BY <1>0, <1>4, <2>1, <2>2, <3>1 DEF AliasesOf
      <4> QED
        BY <4>1 DEF Aliases
    <3>2. CASE i = j
      <4>1. AliasesOf(i)' = AliasesOf(i) \cup {o}
        BY <1>4, <2>1, <2>2, <3>2 DEF AliasesOf
      <4>0. PICK A : A = AliasesOf(i)
        OBVIOUS
      <4>a. Cardinality(A \cup {o}) = IF o \in A THEN Cardinality(A) ELSE Cardinality(A) + 1
        BY <3>0, <4>0, FS_AddElement
      <4>2. Cardinality(AliasesOf(i) \cup {o}) <= Cardinality(AliasesOf(i)) + 1
        BY <3>0, <4>0, <4>a
      <4>3. Cardinality(AliasesOf(i) \cup {o}) \in Nat
        BY <3>0, <4>0, <4>a
      <4> QED
        BY <1>0, <1>4, <3>0, <3>2, <4>1, <4>2, <4>3
    <3> QED
      BY <3>1, <3>2
  <2> QED
    BY <2>3, <2>4, <2>5 DEF Aliases
<1>5. CASE ExactRetry(o, r)
  BY <1>2, <1>3, <1>5 DEF ExactRetry, Accept, Refuse
<1>6. CASE Coalesce(o, r)
  <2>1. PICK j \in ActiveIn(r) :
          \/ alias' = alias /\ asked' = asked /\ job' = job
          \/ /\ ~(Cardinality(AliasesOf(j)) >= MaxOperationAliasesPerJob)
             /\ alias' = [alias EXCEPT ![o] = j] /\ Accept(o, r, j) /\ job' = job
    BY <1>6 DEF Coalesce, Refuse
  <2>2. j \in Jobs /\ job[j].status # "Absent" /\ job[j].kind = r.kind /\ job[j].scope = r.scope
    BY DEF ActiveIn, ActiveJobs, Active
  <2>3. Cardinality(AliasesOf(j)) \in Nat
    BY AliasesFinite
  <2> QED
    BY <1>0, <1>2, <1>4, <1>6, <2>1, <2>2, <2>3 DEF Coalesce, Accept
<1>7. CASE Admit(o, r)
  <2>1. CASE alias' = alias /\ asked' = asked /\ job' = job
    BY <1>2, <2>1
  <2>2. ASSUME NEW j \in FreshJobs, SetRow(j, NewRow(r)), alias' = [alias EXCEPT ![o] = j],
               Accept(o, r, j), alias[o] = NoJob
        PROVE  Aliases'
    <3>1. j \in Jobs /\ job[j].status = "Absent"
      BY DEF FreshJobs
    <3>2. AliasesOf(j) = {}
      BY <1>0, <3>1 DEF AliasesOf, Aliases, AliasResolves
    <3>3. /\ job'[j].status # "Absent" /\ job'[j].kind = r.kind /\ job'[j].scope = r.scope
          /\ \A i \in Jobs : i # j => job'[i] = job[i]
      BY <1>0, <2>2, <3>1 DEF SetRow, NewRow
    <3>4. Cardinality(AliasesOf(j)) < MaxOperationAliasesPerJob
      BY <1>0, <3>2, FS_EmptySet
    <3> QED
      BY <1>4, <2>2, <3>1, <3>2, <3>3, <3>4 DEF Accept
  <2> QED
    BY <1>7, <2>1, <2>2 DEF Admit, Refuse
<1> QED
  BY <1>1, <1>5, <1>6, <1>7

LEMMA StepAliases ==
  ASSUME Typed, Fence, Aliases, [Next]_vars
  PROVE  Aliases'
<1>0. alias \in [Operations -> Jobs \cup {NoJob}] /\ NoJob \notin Jobs
  BY SetsAssumption DEF Typed, TypeOK
<1>1. CASE \E o \in Operations : Enqueue(o)
  BY <1>1, EnqueueAliases
<1>2. ASSUME NEW j \in Jobs, Purge(j) PROVE Aliases'
  <2>1. /\ job' = [job EXCEPT ![j] = AbsentRow]
        /\ \A o \in Operations : /\ alias'[o] = (IF alias[o] = j THEN NoJob ELSE alias[o])
                                 /\ asked'[o] = (IF alias[o] = j THEN {} ELSE asked[o])
    BY <1>2 DEF Purge, SetRow
  <2>2. \A i \in Jobs : i # j => job'[i] = job[i]
    BY <2>1 DEF Typed, TypeOK
  <2>3. AliasResolves'
    BY <1>0, <2>1, <2>2 DEF Aliases, AliasResolves
  <2>4. \A o \in Operations : alias'[o] = NoJob => asked'[o] = {}
    BY <1>0, <2>1 DEF Aliases
  <2>5. ASSUME NEW i \in Jobs
        PROVE  Cardinality(AliasesOf(i)') <= MaxOperationAliasesPerJob
    <3>1. AliasesOf(i)' \subseteq AliasesOf(i)
      BY <1>0, <2>1 DEF AliasesOf
    <3>2. IsFiniteSet(AliasesOf(i)) /\ Cardinality(AliasesOf(i)) \in Nat
      BY AliasesFinite
    <3>3. Cardinality(AliasesOf(i)') <= Cardinality(AliasesOf(i)) /\ IsFiniteSet(AliasesOf(i)')
      BY <3>1, <3>2, FS_Subset
    <3>4. Cardinality(AliasesOf(i)') \in Nat
      BY <3>3, FS_CardinalityType
    <3> QED
      BY <3>2, <3>3, <3>4, BoundsAssumption DEF Aliases
  <2> QED
    BY <2>3, <2>4, <2>5 DEF Aliases
<1>3. CASE (~\E o \in Operations : Enqueue(o)) /\ (~\E j \in Jobs : Purge(j))
  <2>1. alias' = alias /\ asked' = asked
    BY <1>3, AliasFrame
  <2>2. ASSUME NEW o \in Operations, alias[o] # NoJob
        PROVE  alias[o] \in Jobs /\ job'[alias[o]].status # "Absent" /\ Kept(alias[o])
    <3>1. alias[o] \in Jobs /\ job[alias[o]].status # "Absent"
      BY <1>0, <2>2 DEF Aliases, AliasResolves
    <3> QED
      BY <1>3, <3>1, RowStays
  <2>3. AliasResolves'
    BY <2>1, <2>2 DEF Aliases, AliasResolves, Kept
  <2> QED
    BY <2>1, <2>3 DEF Aliases, AliasesOf
<1> QED
  BY <1>1, <1>2, <1>3

\* Admission is sound at all times: one active row per scope, the bounds of
\* enqueue on active jobs, resets and aliases, and keys that resolve to the row
\* they were accepted for, across coalescing, retries and purges.
THEOREM AdmissionStaysSound == Spec => []AdmissionIsSound
<1>1. Init => RowBounds /\ Aliases
  <2> SUFFICES ASSUME Init PROVE RowBounds /\ Aliases
    OBVIOUS
  <2>1. /\ ActiveJobs = {} /\ \A s : ActiveResets(GameOf[s]) = {} /\ ActiveTeamResets(s) = {}
    BY DEF Init, ActiveJobs, Active, AbsentRow, ActiveResets, ActiveTeamResets
  <2>2. \A j \in Jobs : AliasesOf(j) = {}
    BY SetsAssumption DEF Init, AliasesOf
  <2>3. Cardinality({}) = 0
    BY FS_EmptySet
  <2>4. RowBounds
    BY <2>1, <2>3, BoundsAssumption DEF RowBounds
  <2>5. Aliases
    <3>1. \A j \in Jobs : Cardinality(AliasesOf(j)) <= MaxOperationAliasesPerJob
      BY <2>2, <2>3, BoundsAssumption
    <3>2. \A o \in Operations : alias[o] = NoJob /\ asked[o] = {}
      BY DEF Init
    <3> QED
      BY <3>1, <3>2 DEF Aliases, AliasResolves
  <2> QED
    BY <2>4, <2>5
<1>2. Typed /\ Fence /\ RowBounds /\ Aliases /\ [Next]_vars => (RowBounds /\ Aliases)'
  BY StepRowBounds, StepAliases
<1>3. ActiveScopeUnique /\ RowBounds /\ Aliases => AdmissionIsSound
  BY DEF AdmissionIsSound, AdmissionBounds, RowBounds, Aliases, ActiveTeamResets
<1> QED
  BY <1>1, <1>2, <1>3, FenceHolds, ScopesAreExclusive, PTL DEF Spec

-----------------------------------------------------------------------------
(* The deployment-wide slots of a lane *)

Holders(lane) == {k \in Jobs : HoldsSlot(k, lane)}

SlotsHeld == \A lane \in Lanes : Cardinality(Holders(lane)) <= Slots[lane]

LEMMA HoldersFinite ==
  \A lane : IsFiniteSet(Holders(lane)) /\ Cardinality(Holders(lane)) \in Nat
BY SetsAssumption, FS_Subset, FS_CardinalityType DEF Holders

\* A kind belongs to one lane only.
LEMMA LanesDisjoint ==
  \A l, m \in Lanes : \A kind : kind \in LaneKinds[l] /\ kind \in LaneKinds[m]
                                 => l = m
BY DEF Lanes, LaneKinds

LEMMA StepSlots ==
  ASSUME Typed, Fence, SlotsHeld, [Next]_vars
  PROVE  SlotsHeld'
<1> SUFFICES ASSUME NEW lane \in Lanes
             PROVE  Cardinality(Holders(lane)') <= Slots[lane]
  BY DEF SlotsHeld
<1>0. /\ IsFiniteSet(Holders(lane)) /\ Cardinality(Holders(lane)) \in Nat
      /\ Slots[lane] \in Nat /\ Cardinality(Holders(lane)) <= Slots[lane]
  BY HoldersFinite, BoundsAssumption DEF SlotsHeld
<1>1. ASSUME NEW k \in Jobs, k \in Holders(lane)', k \notin Holders(lane)
      PROVE  \E w \in Workers : Claim(w, k) /\ WorkerLane[w] = lane
  <2>1. job'[k].kind \in LaneKinds[lane] /\ job'[k].status = "Running"
          /\ job'[k].timer > 0
    BY <1>1 DEF Holders, HoldsSlot
  <2>2. job[k] \in Row
    BY DEF Typed, TypeOK
  <2>3. CASE SameRow(k) /\ job'[k].timer <= job[k].timer
    <3>1. HoldsSlot(k, lane)
      <4>1. job[k].timer \in Nat /\ job[k].kind \in LaneKinds[lane]
              /\ job[k].status = "Running"
        BY <2>1, <2>2, <2>3 DEF SameRow, Row
      <4>2. job'[k].timer \in Nat
        <5>1. Typed'
          BY StepTyped
        <5> QED
          BY <5>1 DEF Typed, TypeOK, Row
      <4> QED
        BY <2>1, <2>3, <4>1, <4>2 DEF HoldsSlot
    <3> QED
      BY <1>1, <3>1 DEF Holders
  <2>4. CASE ~(SameRow(k) /\ job'[k].timer <= job[k].timer)
    <3>0. ~Inserted(k)
      <4>1. \A r \in Request : NewRow(r).status = "Queued"
        BY DEF NewRow
      <4> QED
        BY <2>1, <4>1 DEF Inserted
    <3>1. \/ /\ Kept(k) /\ job[k].status = "Running"
             /\ job'[k].timer = job[k].timer
          \/ Kept(k) /\ \E w \in Workers : Claim(w, k)
      <4>1. RowStep(k)
        BY EveryRowStep
      <4> QED
        BY <2>1, <2>4, <3>0, <4>1 DEF RowStep
    <3>2. ~(Kept(k) /\ job[k].status = "Running" /\ job'[k].timer = job[k].timer)
      BY <1>1, <2>1 DEF Kept, Holders, HoldsSlot
    <3>3. PICK w \in Workers : Kept(k) /\ Claim(w, k)
      BY <3>1, <3>2
    <3>4. job[k].kind \in LaneKinds[WorkerLane[w]] /\ WorkerLane[w] \in Lanes
      BY <3>3, SetsAssumption DEF Claim, Claimable
    <3> QED
      BY <2>1, <3>3, <3>4, LanesDisjoint DEF Kept
  <2> QED
    BY <2>3, <2>4
<1>2. CASE Holders(lane)' \subseteq Holders(lane)
  <2>1. /\ Cardinality(Holders(lane)') <= Cardinality(Holders(lane))
        /\ IsFiniteSet(Holders(lane)')
    BY <1>0, <1>2, FS_Subset
  <2>2. Cardinality(Holders(lane)') \in Nat
    BY <2>1, FS_CardinalityType
  <2> QED
    BY <1>0, <2>1, <2>2
<1>3. CASE ~(Holders(lane)' \subseteq Holders(lane))
  <2>1. PICK k \in Jobs, w \in Workers : /\ k \in Holders(lane)'
                                         /\ k \notin Holders(lane)
                                         /\ Claim(w, k) /\ WorkerLane[w] = lane
    BY <1>1, <1>3 DEF Holders
  <2>2. Cardinality(Holders(lane)) < Slots[lane]
    BY <2>1 DEF Claim, SlotFree, Holders
  <2>3. \A i \in Jobs : i # k => job'[i] = job[i]
    BY <2>1 DEF Claim, SetRow, Typed, TypeOK
  <2>4. Holders(lane)' \subseteq Holders(lane) \cup {k}
    BY <2>3 DEF Holders, HoldsSlot
  <2>5. /\ IsFiniteSet(Holders(lane) \cup {k})
        /\ Cardinality(Holders(lane) \cup {k}) = Cardinality(Holders(lane)) + 1
    BY <1>0, <2>1, FS_AddElement
  <2>6. /\ Cardinality(Holders(lane)') <= Cardinality(Holders(lane)) + 1
        /\ IsFiniteSet(Holders(lane)')
    BY <2>4, <2>5, FS_Subset
  <2>7. Cardinality(Holders(lane)') \in Nat
    BY <2>6, FS_CardinalityType
  <2> QED
    BY <1>0, <2>2, <2>6, <2>7
<1> QED
  BY <1>2, <1>3

\* Every replica counted, the executions of a lane that began on time fit into
\* the lane's slots: each holds a distinct unexpired row of the lane.
THEOREM LanesStayWithinBudget == Spec => []LaneBudget
<1>1. Init => SlotsHeld
  <2> SUFFICES ASSUME Init, NEW lane \in Lanes
               PROVE  Cardinality(Holders(lane)) <= Slots[lane]
    BY DEF SlotsHeld
  <2>1. Holders(lane) = {}
    BY DEF Init, Holders, HoldsSlot, AbsentRow
  <2> QED
    BY <2>1, FS_EmptySet, BoundsAssumption
<1>2. Spec => []SlotsHeld
  BY <1>1, StepSlots, FenceHolds, PTL DEF Spec
<1>3. Typed /\ Fence /\ SlotsHeld => LaneBudget
  <2> SUFFICES ASSUME Typed, Fence, SlotsHeld, NEW lane \in Lanes
               PROVE  Cardinality({w \in Workers : WorkerLane[w] = lane
                        /\ Executing(w) /\ OnTime(w)}) <= Slots[lane]
    BY DEF LaneBudget
  <2> DEFINE S == {w \in Workers : WorkerLane[w] = lane /\ Executing(w)
                                     /\ OnTime(w)}
             f == [w \in S |-> worker[w].job]
  <2>1. ASSUME NEW w \in S
        PROVE  Owns(w) /\ worker[w].job \in Holders(lane) /\ worker[w].pc # "Idle"
    <3>1. /\ Owns(w) /\ job[worker[w].job].timer > 0
          /\ worker[w].pc # "Idle" /\ w \in Workers /\ WorkerLane[w] = lane
      BY LeasedTime DEF Fence, Executing
    <3>2. worker[w].job \in Jobs
      BY <3>1 DEF Typed, Bound
    <3>3. job[worker[w].job].kind \in LaneKinds[lane]
      BY <3>1 DEF Fence, Snapshot
    <3> QED
      BY <3>1, <3>2, <3>3 DEF Holders, HoldsSlot, Owns
  <2>2. \A v, w \in S : v # w => worker[v].job # worker[w].job
    BY <2>1, OneOwner DEF Fence
  <2>3. f \in Injection(S, Holders(lane))
    BY <2>1, <2>2 DEF Injection, IsInjective
  <2>4. /\ IsFiniteSet(Holders(lane)) /\ Cardinality(Holders(lane)) \in Nat
        /\ Cardinality(Holders(lane)) <= Slots[lane] /\ Slots[lane] \in Nat
    BY HoldersFinite, BoundsAssumption DEF SlotsHeld
  <2>5. IsFiniteSet(S) /\ Cardinality(S) <= Cardinality(Holders(lane))
    BY <2>3, <2>4, FS_Injection
  <2>6. Cardinality(S) \in Nat
    BY <2>5, FS_CardinalityType
  <2> QED
    BY <2>4, <2>5, <2>6
<1> QED
  BY <1>2, <1>3, FenceHolds, PTL

---------------------------------------------------------------------------
(***************************************************************************)
(* The control-job queue implements JobService: every step of the queue is *)
(* a step of the service under the mapping of ControlJobs, or leaves the   *)
(* service as it is.                                                       *)
(***************************************************************************)


\* A leased row has a token, an absent one no flag; an idle task remembers
\* nothing; a task's token is on no row but its own.
Bindings ==
  /\ \A j \in Jobs : job[j].status = "Running" => job[j].token \in Tokens
  /\ \A j \in Jobs : job[j].status = "Absent" => ~job[j].cancel
  /\ \A w \in Workers : worker[w].pc = "Idle" => worker[w] = IdleTask
  /\ \A w \in Workers, j \in Jobs :
       worker[w].token \in Tokens /\ job[j].token = worker[w].token
         => worker[w].job = j

Good == Typed /\ Fence /\ Bindings

LEMMA InitBindings == Init => Bindings
BY SetsAssumption DEF Init, Bindings, AbsentRow, IdleTask

\* What a step that claims nothing may do: no row turns Running or gets a
\* token, and a task keeps its claim or goes idle.
Calm ==
  /\ \A j \in Jobs :
       /\ job'[j].status = "Running" => job[j].status = "Running"
       /\ job'[j].token \in {job[j].token, NoToken}
       /\ job'[j].status = "Running" => job'[j].token = job[j].token
       /\ job'[j].status = "Absent" =>
            ~job'[j].cancel \/ (job[j].status = "Absent" /\ job'[j].cancel = job[j].cancel)
  /\ \A w \in Workers :
       \/ worker'[w] = IdleTask
       \/ /\ worker'[w].job = worker[w].job
          /\ worker'[w].token = worker[w].token
          /\ worker'[w].pc = "Idle" => worker'[w] = worker[w]

LEMMA CalmBindings ==
  ASSUME Typed, Bindings, Calm
  PROVE  Bindings'
<1>1. IdleTask.token = NoToken /\ NoToken \notin Tokens
  BY SetsAssumption DEF IdleTask
<1>2. \A j \in Jobs : job'[j].status = "Running" => job'[j].token \in Tokens
  BY DEF Calm, Bindings
<1>3. \A j \in Jobs : job'[j].status = "Absent" => ~job'[j].cancel
  BY DEF Calm, Bindings
<1>4. \A w \in Workers : worker'[w].pc = "Idle" => worker'[w] = IdleTask
  BY DEF Calm, Bindings
<1>5. ASSUME NEW w \in Workers, NEW j \in Jobs,
             worker'[w].token \in Tokens, job'[j].token = worker'[w].token
      PROVE  worker'[w].job = j
  <2>1. worker'[w].token = worker[w].token /\ worker'[w].job = worker[w].job
    BY <1>1, <1>5 DEF Calm
  <2>2. job[j].token = worker[w].token
    BY <1>1, <1>5, <2>1 DEF Calm
  <2> QED
    BY <1>5, <2>1, <2>2 DEF Bindings
<1> QED
  BY <1>2, <1>3, <1>4, <1>5 DEF Bindings

\* A row update, row by row.
LEMMA RowUpdate ==
  ASSUME Typed, NEW j \in Jobs, NEW row, SetRow(j, row)
  PROVE  job'[j] = row /\ \A k \in Jobs : k # j => job'[k] = job[k]
BY DEF Typed, TypeOK, SetRow

\* The fields of a row that went back to the queue or turned terminal.
LEMMA RowFields ==
  ASSUME Typed, NEW j \in Jobs
  PROVE  /\ job[j] \in Row
         /\ Requeued(j).status = "Queued" /\ Requeued(j).token = NoToken
         /\ Requeued(j).cancel = job[j].cancel /\ Requeued(j).need = job[j].need
         /\ \A s, d : /\ Settled(j, s, d).status = s
                     /\ Settled(j, s, d).token = NoToken
                     /\ Settled(j, s, d).cancel = job[j].cancel
                     /\ Settled(j, s, d).need = job[j].need
<1>1. job[j] \in Row
  BY DEF Typed, TypeOK
<1> QED
  BY <1>1 DEF Row, Requeued, Settled

\* Admission inserts a row that no task refers to, or leaves the rows alone.
LEMMA EnqueueEffect ==
  ASSUME Typed, NEW o \in Operations, Enqueue(o)
  PROVE  /\ worker' = worker
         /\ \/ job' = job
            \/ \E r \in Request, j \in Jobs :
                 /\ job[j].status = "Absent" /\ job'[j] = NewRow(r)
                 /\ \A k \in Jobs : k # j => job'[k] = job[k]
<1>1. \/ job' = job
      \/ \E r \in Request, j \in FreshJobs : SetRow(j, NewRow(r))
  BY SetsAssumption DEF Enqueue, ExactRetry, Coalesce, Admit, Refuse
<1>2. FreshJobs \subseteq Jobs /\ \A j \in FreshJobs : job[j].status = "Absent"
  BY DEF FreshJobs
<1>3. worker' = worker
  BY DEF Enqueue
<1> QED
  BY <1>1, <1>2, <1>3, RowUpdate

\* Only a claim makes a row Running or gives it a token.
LEMMA StepCalm ==
  ASSUME Typed, Fence, Bindings, [Next]_vars,
         ~(\E w \in Workers, j \in Jobs : Claim(w, j))
  PROVE  Calm
<1>0. \A j \in Jobs : job[j] \in Row
  BY DEF Typed, TypeOK
<1>1. ASSUME NEW o \in Operations, Enqueue(o)
      PROVE  Calm
  <2>1. worker' = worker
    BY <1>1, EnqueueEffect
  <2>2. CASE job' = job
    BY <2>1, <2>2 DEF Calm
  <2>3. CASE job' # job
    <3> PICK r \in Request, j \in Jobs :
               /\ job[j].status = "Absent" /\ job'[j] = NewRow(r)
               /\ \A k \in Jobs : k # j => job'[k] = job[k]
      BY <1>1, <2>3, EnqueueEffect
    <3>1. job'[j].status = "Queued" /\ job'[j].token = NoToken
      BY DEF NewRow
    <3> QED
      BY <2>1, <3>1 DEF Calm
  <2> QED
    BY <2>2, <2>3
<1>2. ASSUME NEW o \in Operations, MergeReconcileInput(o)
      PROVE  Calm
  <2>1. call[o].job \in Jobs /\ worker' = worker
    BY <1>2 DEF MergeReconcileInput, Typed, Bound
  <2>2. CASE job' = job
    BY <2>1, <2>2 DEF Calm
  <2>3. CASE SetRow(call[o].job, [job[call[o].job] EXCEPT
                !.need = job[call[o].job].need \cup call[o].need,
                !.revision = job[call[o].job].revision + 1])
    <3> DEFINE j == call[o].job
    <3>0. /\ job'[j] = [job[j] EXCEPT !.need = job[j].need \cup call[o].need,
                                       !.revision = job[j].revision + 1]
          /\ \A k \in Jobs : k # j => job'[k] = job[k]
      BY <2>1, <2>3, RowUpdate
    <3>a. /\ job'[j].status = job[j].status /\ job'[j].token = job[j].token
          /\ job'[j].cancel = job[j].cancel
      BY <1>0, <2>1, <3>0 DEF Row
    <3>1. \A k \in Jobs : /\ job'[k].status = job[k].status
                          /\ job'[k].token = job[k].token
                          /\ job'[k].cancel = job[k].cancel
      BY <3>0, <3>a
    <3> QED
      BY <2>1, <3>1 DEF Calm
  <2> QED
    BY <1>2, <2>2, <2>3 DEF MergeReconcileInput
<1>3. ASSUME NEW o \in Operations, HandlerCrash(o)
      PROVE  Calm
  BY <1>3 DEF HandlerCrash, Calm
<1>4. ASSUME NEW j \in Jobs, RequestCancellation(j)
      PROVE  Calm
  <2>1. /\ job'[j].status \in {job[j].status, "Cancelled"}
        /\ job'[j].status # "Absent"
        /\ job'[j].token \in {job[j].token, NoToken}
        /\ job'[j].status = "Running" => job'[j].token = job[j].token
    <3>1. \/ job'[j] = [job[j] EXCEPT !.cancel = TRUE, !.status = "Cancelled",
                                       !.token = NoToken, !.timer = Retention]
          \/ job[j].status = "Running" /\ job'[j] = [job[j] EXCEPT !.cancel = TRUE]
      BY <1>4, RowUpdate DEF RequestCancellation
    <3> QED
      BY <1>0, <3>1 DEF Row
  <2>2. worker' = worker /\ \A k \in Jobs : k # j => job'[k] = job[k]
    BY <1>4, RowUpdate DEF RequestCancellation
  <2> QED
    BY <2>1, <2>2 DEF Calm
<1>5. ASSUME NEW j \in Jobs, Purge(j)
      PROVE  Calm
  BY <1>5, RowUpdate DEF Purge, Calm, AbsentRow
<1>6. ASSUME NEW w \in Workers,
             TaskStep(w) \/ ReleaseUnstarted(w) \/ Abandon(w)
      PROVE  Calm
  <2>1. \A j \in Jobs :
          /\ job'[j].status = "Running" => job[j].status = "Running"
          /\ job'[j].token \in {job[j].token, NoToken}
          /\ job'[j].status = "Running" => job'[j].token = job[j].token
          /\ job'[j].status = "Absent" =>
               job[j].status = "Absent" /\ job'[j].cancel = job[j].cancel
    BY <1>6, TaskEffect, RowFields
  <2>2. \/ worker'[w] = IdleTask
        \/ /\ worker'[w].job = worker[w].job
           /\ worker'[w].token = worker[w].token
           /\ worker'[w].pc # "Idle"
    <3>1. worker[w] \in Task
      BY DEF Typed, TypeOK
    <3>2. worker \in [Workers -> Task]
      BY DEF Typed, TypeOK
    <3>3. \A task : SetTask(w, task) => worker'[w] = task
      BY <3>2 DEF SetTask
    <3>4. \/ worker'[w] = IdleTask
          \/ \E pc \in {"Running", "FinishCancellation", "Requeue"} :
               worker'[w] = [worker[w] EXCEPT !.pc = pc]
          \/ \E pc \in {"Complete", "Fail"}, early \in BOOLEAN :
               worker'[w] = Ended(w, pc, early)
      BY <1>6, <3>3 DEF TaskStep, StartExecution, ObserveCancellation,
         EndExecution, Complete, Fail, FinishCancellation, Requeue,
         ReleaseUnstarted, Abandon
    <3> QED
      BY <3>1, <3>4 DEF Ended, Task
  <2> QED
    BY <1>6, <2>1, <2>2, TaskEffect DEF Calm
<1>7. CASE Tick
  <2>1. \A j \in Jobs : /\ job'[j].status = job[j].status
                        /\ job'[j].token = job[j].token
                        /\ job'[j].cancel = job[j].cancel
    BY <1>0, <1>7 DEF Tick, Row
  <2>2. ASSUME NEW w \in Workers
        PROVE  /\ worker'[w].job = worker[w].job
               /\ worker'[w].token = worker[w].token
               /\ worker'[w].pc = "Idle" => worker'[w] = worker[w]
    <3>1. worker[w] \in Task /\ worker'[w] = Aged(worker[w])
      BY <1>7 DEF Tick, Typed, TypeOK
    <3> QED
      BY <3>1 DEF Aged, Task
  <2> QED
    BY <2>1, <2>2 DEF Calm
<1>8. CASE UNCHANGED vars
  BY <1>8 DEF vars, Calm
<1> QED
  BY <1>1, <1>2, <1>3, <1>4, <1>5, <1>6, <1>7, <1>8 DEF Next

\* A claim puts a token that nobody has on one row and one task.
LEMMA ClaimEffect ==
  ASSUME Typed, NEW w \in Workers, NEW j \in Jobs, Claim(w, j)
  PROVE  \E t \in Tokens :
           /\ \A k \in Jobs : job[k].token # t
           /\ \A v \in Workers : worker[v].token # t
           /\ job[j].status \in Active /\ worker[w].pc = "Idle"
           /\ job'[j].status = "Running" /\ job'[j].token = t
           /\ job'[j].need = job[j].need /\ job'[j].cancel = job[j].cancel
           /\ \A k \in Jobs : k # j => job'[k] = job[k]
           /\ worker'[w].pc = "Claimed" /\ worker'[w].job = j
           /\ worker'[w].token = t /\ worker'[w].need = job[j].need
           /\ \A v \in Workers : v # w => worker'[v] = worker[v]
<1> PICK t \in FreshTokens :
       /\ SetRow(j, [job[j] EXCEPT !.status = "Running", !.token = t,
                                   !.timer = GrantedLease])
       /\ SetTask(w, [pc |-> "Claimed", job |-> j, token |-> t,
                      revision |-> job[j].revision, need |-> job[j].need,
                      delay |-> 0, run |-> 0, stopped |-> FALSE])
  BY DEF Claim
<1>1. t \in Tokens /\ (\A k \in Jobs : job[k].token # t)
        /\ (\A v \in Workers : worker[v].token # t)
  BY DEF FreshTokens
<1>2. job[j] \in Row /\ worker \in [Workers -> Task]
  BY DEF Typed, TypeOK
<1>3. /\ job'[j].status = "Running" /\ job'[j].token = t
      /\ job'[j].need = job[j].need /\ job'[j].cancel = job[j].cancel
      /\ \A k \in Jobs : k # j => job'[k] = job[k]
  <2>1. job'[j] = [job[j] EXCEPT !.status = "Running", !.token = t,
                                 !.timer = GrantedLease]
    BY RowUpdate
  <2>2. \A k \in Jobs : k # j => job'[k] = job[k]
    BY RowUpdate
  <2> QED
    BY <1>2, <2>1, <2>2 DEF Row
<1>4. /\ worker'[w].pc = "Claimed" /\ worker'[w].job = j
      /\ worker'[w].token = t /\ worker'[w].need = job[j].need
      /\ \A v \in Workers : v # w => worker'[v] = worker[v]
  BY <1>2 DEF SetTask
<1>5. job[j].status \in Active /\ worker[w].pc = "Idle"
  BY DEF Claim, Claimable, Active
<1> QED
  BY <1>1, <1>3, <1>4, <1>5

LEMMA StepBindings ==
  ASSUME Typed, Fence, Bindings, [Next]_vars
  PROVE  Bindings'
<1>1. ASSUME NEW w \in Workers, NEW j \in Jobs, Claim(w, j)
      PROVE  Bindings'
  <2> PICK t \in Tokens :
           /\ \A k \in Jobs : job[k].token # t
           /\ \A v \in Workers : worker[v].token # t
           /\ job'[j].status = "Running" /\ job'[j].token = t
           /\ \A k \in Jobs : k # j => job'[k] = job[k]
           /\ worker'[w].pc = "Claimed" /\ worker'[w].job = j
           /\ worker'[w].token = t
           /\ \A v \in Workers : v # w => worker'[v] = worker[v]
    BY <1>1, ClaimEffect
  <2> QED
    BY DEF Bindings
<1> QED
  BY <1>1, StepCalm, CalmBindings

-----------------------------------------------------------------------------
(* The owner of a job *)

LEMMA HolderIs ==
  ASSUME NEW row, NEW tasks, NEW w \in Workers,
         row.status = "Running", tasks[w].token = row.token,
         \A v \in Workers : tasks[v].token = row.token => v = w
  PROVE  HolderOf(row, tasks) = w
BY DEF HolderOf

LEMMA NoHolder ==
  ASSUME NEW row, NEW tasks,
         row.status # "Running" \/ \A w \in Workers : tasks[w].token # row.token
  PROVE  HolderOf(row, tasks) = NoWorker
BY DEF HolderOf

\* A task whose token a running row carries is the only one.
LEMMA Holds ==
  ASSUME Good, NEW j \in Jobs, NEW w \in Workers,
         job[j].status = "Running", worker[w].token = job[j].token
  PROVE  /\ LeaseHolder(j) = w /\ worker[w].job = j
         /\ \A v \in Workers : worker[v].token = job[j].token => v = w
<1>1. job[j].token \in Tokens
  BY DEF Good, Bindings
<1>2. \A v \in Workers : worker[v].token = job[j].token => v = w
  BY <1>1, SetsAssumption DEF Good, Fence, TokensDistinct
<1>3. worker[w].job = j
  BY <1>1 DEF Good, Bindings
<1> QED
  BY <1>2, <1>3, HolderIs DEF LeaseHolder

\* The owner of a row stays when its status and token and the tokens of the
\* tasks do.
LEMMA HolderSame ==
  ASSUME Good, NEW k \in Jobs,
         job'[k].status = job[k].status, job'[k].token = job[k].token,
         \A v \in Workers : worker'[v].token = worker[v].token
  PROVE  LeaseHolder(k)' = LeaseHolder(k)
<1>1. CASE \E w \in Workers : job[k].status = "Running"
                              /\ worker[w].token = job[k].token
  <2> PICK w \in Workers : job[k].status = "Running"
                              /\ worker[w].token = job[k].token
    BY <1>1
  <2>0. \A v \in Workers : worker'[v].token = job'[k].token => v = w
    BY Holds
  <2>1. HolderOf(job'[k], worker') = w
    BY <2>0, HolderIs
  <2> QED
    BY <2>1, Holds DEF LeaseHolder
<1>2. CASE ~(\E w \in Workers : job[k].status = "Running"
                                /\ worker[w].token = job[k].token)
  <2>1. HolderOf(job'[k], worker') = NoWorker /\ HolderOf(job[k], worker) = NoWorker
    BY <1>2, NoHolder
  <2> QED
    BY <2>1 DEF LeaseHolder
<1> QED
  BY <1>1, <1>2

\* A task that goes idle gives up the row it holds and no other.
LEMMA HolderGone ==
  ASSUME Good, NEW w \in Workers, NEW k \in Jobs,
         worker'[w] = IdleTask, \A v \in Workers : v # w => worker'[v] = worker[v],
         job'[k] = job[k]
  PROVE  LeaseHolder(k)' = IF LeaseHolder(k) = w /\ job[k].status = "Running"
                                /\ worker[w].token = job[k].token
                           THEN NoWorker ELSE LeaseHolder(k)
<1>0. job[k].status = "Running" => job[k].token \in Tokens
  BY DEF Good, Bindings
<1>1. IdleTask.token = NoToken /\ NoToken \notin Tokens
  BY SetsAssumption DEF IdleTask
<1>2. CASE job[k].status = "Running" /\ worker[w].token = job[k].token
  <2>1. \A v \in Workers : worker'[v].token # job'[k].token
    BY <1>0, <1>1, <1>2, Holds
  <2> QED
    BY <1>2, <2>1, Holds, NoHolder DEF LeaseHolder
<1>3. CASE job[k].status = "Running" /\ worker[w].token # job[k].token
  <2>1. CASE \E v \in Workers : worker[v].token = job[k].token
    <3> PICK v \in Workers : worker[v].token = job[k].token
      BY <2>1
    <3>1. /\ worker'[v].token = job'[k].token
          /\ \A u \in Workers : worker'[u].token = job'[k].token => u = v
      BY <1>0, <1>1, <1>3, Holds
    <3>2. HolderOf(job'[k], worker') = v
      BY <1>3, <3>1, HolderIs
    <3> QED
      BY <1>3, <3>2, Holds DEF LeaseHolder
  <2>2. CASE \A v \in Workers : worker[v].token # job[k].token
    <3>1. \A v \in Workers : worker'[v].token # job'[k].token
      BY <1>0, <1>1, <1>3, <2>2
    <3> QED
      BY <1>3, <2>2, <3>1, NoHolder DEF LeaseHolder
  <2> QED
    BY <2>1, <2>2
<1>4. CASE job[k].status # "Running"
  BY <1>4, NoHolder DEF LeaseHolder
<1> QED
  BY <1>2, <1>3, <1>4

-----------------------------------------------------------------------------
(* The step simulation *)

TaskMap == [w \in Workers |-> [job |-> worker[w].job, need |-> worker[w].need]]

\* One task of the service changes.
LEMMA TaskMapUpdate ==
  ASSUME NEW w \in Workers, \A v \in Workers : v # w => worker'[v] = worker[v]
  PROVE  TaskMap' = [TaskMap EXCEPT ![w] = [job |-> worker'[w].job,
                                           need |-> worker'[w].need]]
BY DEF TaskMap

\* A step that changes no status, input, flag, token or claim is invisible.
LEMMA Invisible ==
  ASSUME Good,
         \A k \in Jobs : /\ job'[k].status = job[k].status
                         /\ job'[k].need = job[k].need
                         /\ job'[k].cancel = job[k].cancel
                         /\ job'[k].token = job[k].token,
         \A v \in Workers : /\ worker'[v].job = worker[v].job
                            /\ worker'[v].need = worker[v].need
                            /\ worker'[v].token = worker[v].token
  PROVE  UNCHANGED Service!svars
<1>1. \A k \in Jobs : LeaseHolder(k)' = LeaseHolder(k)
  BY HolderSame
<1> QED
  BY <1>1 DEF Service!svars

LEMMA TakeStep ==
  ASSUME Good, NEW w \in Workers, NEW j \in Jobs, Claim(w, j)
  PROVE  Service!Next
<1> PICK t \in Tokens :
           /\ \A k \in Jobs : job[k].token # t
           /\ \A v \in Workers : worker[v].token # t
           /\ job[j].status \in Active /\ worker[w].pc = "Idle"
           /\ job'[j].status = "Running" /\ job'[j].token = t
           /\ job'[j].need = job[j].need /\ job'[j].cancel = job[j].cancel
           /\ \A k \in Jobs : k # j => job'[k] = job[k]
           /\ worker'[w].pc = "Claimed" /\ worker'[w].job = j
           /\ worker'[w].token = t /\ worker'[w].need = job[j].need
           /\ \A v \in Workers : v # w => worker'[v] = worker[v]
  BY ClaimEffect DEF Good
<1>1. worker[w] = IdleTask
  BY DEF Good, Bindings
<1>2. LeaseHolder(j)' = w
  <2>1. \A v \in Workers : worker'[v].token = job'[j].token => v = w
    OBVIOUS
  <2>2. HolderOf(job'[j], worker') = w
    BY <2>1, HolderIs
  <2> QED
    BY <2>2 DEF LeaseHolder
<1>3. ASSUME NEW k \in Jobs, k # j
      PROVE  LeaseHolder(k)' = LeaseHolder(k)
  <2>1. job[k].status = "Running" => job[k].token \in Tokens
    BY DEF Good, Bindings
  <2>2. CASE \E v \in Workers : job[k].status = "Running"
                                /\ worker[v].token = job[k].token
    <3> PICK v \in Workers : job[k].status = "Running"
                                /\ worker[v].token = job[k].token
      BY <2>2
    <3>1. v # w
      BY <1>1, <2>1, SetsAssumption DEF IdleTask
    <3>2. \A u \in Workers : worker'[u].token = job'[k].token => u = v
      BY <1>3, Holds
    <3>3. HolderOf(job'[k], worker') = v
      BY <1>3, <3>1, <3>2, HolderIs
    <3> QED
      BY <3>3, Holds DEF LeaseHolder
  <2>3. CASE ~(\E v \in Workers : job[k].status = "Running"
                                  /\ worker[v].token = job[k].token)
    <3>1. job'[k].status # "Running" \/ \A v \in Workers : worker'[v].token # job'[k].token
      BY <1>3, <2>3
    <3> QED
      BY <1>3, <2>3, <3>1, NoHolder DEF LeaseHolder
  <2> QED
    BY <2>2, <2>3
<1>4. Service!Take(w, j)
  <2>1. TaskMap' = [TaskMap EXCEPT ![w] = [job |-> j,
                           need |-> [k \in Jobs |-> job[k].need][j]]]
    BY TaskMapUpdate
  <2>a. [k \in Jobs |-> job[k].status][j] \in {"Queued", "Running"}
    BY DEF Active
  <2>2. TaskMap[w] = Service!NoTask
    <3>1. worker[w].job = NoJob /\ worker[w].need = {}
      BY <1>1 DEF IdleTask
    <3> QED
      BY <3>1 DEF Service!NoTask, TaskMap
  <2>3. [k \in Jobs |-> LeaseHolder(k)]'
          = [[k \in Jobs |-> LeaseHolder(k)] EXCEPT ![j] = w]
    BY <1>2, <1>3
  <2>4. [k \in Jobs |-> job[k].status]'
          = [[k \in Jobs |-> job[k].status] EXCEPT ![j] = "Running"]
    OBVIOUS
  <2>5. UNCHANGED <<[k \in Jobs |-> job[k].need], [k \in Jobs |-> job[k].cancel]>>
    OBVIOUS
  <2> QED
    BY <2>1, <2>a, <2>2, <2>3, <2>4, <2>5 DEF Service!Take, TaskMap
<1> QED
  BY <1>4 DEF Service!Next

\* The step of a task that goes idle and leaves the rows alone.
LEMMA VanishStep ==
  ASSUME Good, NEW w \in Workers, worker[w].pc # "Idle", worker'[w] = IdleTask,
         \A v \in Workers : v # w => worker'[v] = worker[v], job' = job
  PROVE  Service!Next
<1>1. ASSUME NEW k \in Jobs
      PROVE  LeaseHolder(k)' = IF LeaseHolder(k) = w THEN NoWorker ELSE LeaseHolder(k)
  <2>1. CASE \E v \in Workers : job[k].status = "Running"
                                /\ worker[v].token = job[k].token
    BY <2>1, Holds, HolderGone
  <2>2. CASE ~(\E v \in Workers : job[k].status = "Running"
                                  /\ worker[v].token = job[k].token)
    <3>1. LeaseHolder(k) = NoWorker
      BY <2>2, NoHolder DEF LeaseHolder
    <3> QED
      BY <2>2, <3>1, HolderGone
  <2> QED
    BY <2>1, <2>2
<1>2. worker[w].job # NoJob
  BY SetsAssumption DEF Good, Typed, Bound
<1>3. Service!Vanish(w)
  <2>1. TaskMap' = [TaskMap EXCEPT ![w] = Service!NoTask]
    BY TaskMapUpdate DEF Service!NoTask, IdleTask
  <2>2. TaskMap[w] # Service!NoTask
    BY <1>2 DEF Service!NoTask, TaskMap
  <2>3. [j \in Jobs |-> LeaseHolder(j)]'
          = [j \in Jobs |-> IF [k \in Jobs |-> LeaseHolder(k)][j] = w THEN NoWorker
                           ELSE [k \in Jobs |-> LeaseHolder(k)][j]]
    BY <1>1
  <2> QED
    BY <2>1, <2>2, <2>3 DEF Service!Vanish, TaskMap
<1> QED
  BY <1>3 DEF Service!Next

\* The owner settles its row or gives it back.
LEMMA ResolveStep ==
  ASSUME Good, NEW w \in Workers, NEW j \in Jobs, NEW s,
         worker[w].pc # "Idle", worker[w].job = j, Owns(w), worker'[w] = IdleTask,
         \A v \in Workers : v # w => worker'[v] = worker[v],
         \A k \in Jobs : k # j => job'[k] = job[k],
         job'[j].status = s, job'[j].need = job[j].need,
         job'[j].cancel = job[j].cancel,
         \/ s \in {"Succeeded", "Failed"} /\ ~job[j].cancel /\ worker[w].need = job[j].need
         \/ s = "Cancelled" /\ job[j].cancel
         \/ s = "Queued"
  PROVE  Service!Next
<1>1. LeaseHolder(j) = w /\ job[j].status = "Running"
        /\ worker[w].token = job[j].token
  BY Holds DEF Owns
<1>2. LeaseHolder(j)' = NoWorker
  BY NoHolder DEF LeaseHolder
<1>3. ASSUME NEW k \in Jobs, k # j
      PROVE  LeaseHolder(k)' = LeaseHolder(k)
  <2>1. ~(job[k].status = "Running" /\ worker[w].token = job[k].token)
    BY <1>3, Holds
  <2> QED
    BY <1>3, <2>1, HolderGone
<1>4. Service!Resolve(w, j, s)
  <2>1. TaskMap' = [TaskMap EXCEPT ![w] = Service!NoTask]
    BY TaskMapUpdate DEF Service!NoTask, IdleTask
  <2>2. [k \in Jobs |-> LeaseHolder(k)]'
          = [[k \in Jobs |-> LeaseHolder(k)] EXCEPT ![j] = NoWorker]
    BY <1>2, <1>3
  <2>3. [k \in Jobs |-> job[k].status]'
          = [[k \in Jobs |-> job[k].status] EXCEPT ![j] = s]
    OBVIOUS
  <2>4. UNCHANGED <<[k \in Jobs |-> job[k].need], [k \in Jobs |-> job[k].cancel]>>
    OBVIOUS
  <2> QED
    BY <1>1, <2>1, <2>2, <2>3, <2>4 DEF Service!Resolve, TaskMap
<1>5. s \in Service!Over \cup {"Queued"}
  BY DEF Service!Over
<1> QED
  BY <1>4, <1>5 DEF Service!Next

\* A step of a busy task: its owner's verdict, its disappearance, or nothing
\* that the service sees.
LEMMA TaskSimulation ==
  ASSUME Good, NEW w \in Workers,
         TaskStep(w) \/ ReleaseUnstarted(w) \/ Abandon(w)
  PROVE  Service!Next \/ UNCHANGED Service!svars
<1> DEFINE j == worker[w].job
<1>0. Typed /\ Fence
  BY DEF Good
<1>1. /\ worker[w].pc # "Idle" /\ j \in Jobs /\ worker[w] \in Task
      /\ \A v \in Workers : v # w => worker'[v] = worker[v]
      /\ worker \in [Workers -> Task]
  BY <1>0, TaskEffect DEF Typed, TypeOK
<1>2. CASE job' = job /\ worker'[w] = IdleTask
  BY <1>1, <1>2, VanishStep
<1>3. CASE job' = job /\ worker'[w] # IdleTask
  <2>1. \A task : SetTask(w, task) => worker'[w] = task
    BY <1>1 DEF SetTask
  <2>2. \/ \E pc \in {"Running", "FinishCancellation", "Requeue"} :
              worker'[w] = [worker[w] EXCEPT !.pc = pc]
        \/ \E pc \in {"Complete", "Fail"}, early \in BOOLEAN :
              worker'[w] = Ended(w, pc, early)
    BY <1>3, <2>1 DEF TaskStep, StartExecution, ObserveCancellation,
       EndExecution, Complete, Fail, FinishCancellation, Requeue,
       ReleaseUnstarted, Abandon
  <2>3. /\ worker'[w].job = worker[w].job /\ worker'[w].need = worker[w].need
        /\ worker'[w].token = worker[w].token
    BY <1>1, <2>2 DEF Ended, Task
  <2> QED
    BY <1>1, <1>3, <2>3, Invisible
<1>4. CASE job' # job
  <2>1. /\ Owns(w) /\ worker'[w] = IdleTask
        /\ \A k \in Jobs : k # j => job'[k] = job[k]
        /\ \/ job'[j] = Requeued(j)
           \/ job'[j] = Settled(j, "Cancelled", {})
           \/ MayFinish(w) /\ job'[j] = Settled(j, "Failed", {})
           \/ /\ MayFinish(w)
              /\ job'[j] = Settled(j, "Succeeded",
                   IF worker[w].stopped THEN {} ELSE worker[w].need)
    BY <1>0, <1>4, TaskEffect
  <2>2. /\ job'[j].need = job[j].need /\ job'[j].cancel = job[j].cancel
        /\ job'[j].status \in {"Queued", "Cancelled", "Failed", "Succeeded"}
    BY <1>0, <1>1, <2>1, RowFields
  <2>3. CASE MayFinish(w) /\ job'[j].status \in {"Succeeded", "Failed"}
    <3>1. ~job[j].cancel /\ worker[w].need = job[j].need
      BY <1>0, <1>1, <2>1, <2>3 DEF MayFinish, Fence, Snapshot
    <3> QED
      BY <1>1, <2>1, <2>2, <2>3, <3>1, ResolveStep
  <2>4. CASE job'[j].status = "Cancelled"
    <3>1. job[j].cancel
      <4>1. job'[j] # job[j] /\ job' # job
        BY <1>4, <1>0, <1>1, <2>1, <2>4 DEF Owns
      <4>2. \/ FinishCancellation(w) \/ ReleaseUnstarted(w)
            \/ Complete(w) \/ Fail(w) \/ Requeue(w)
        BY <4>1 DEF TaskStep, StartExecution, ObserveCancellation, EndExecution,
           Abandon
      <4>3. \A row : SetRow(j, row) => job'[j] = row
        BY <1>0, <1>1, RowUpdate
      <4> QED
        BY <1>0, <1>1, <2>4, <4>1, <4>2, <4>3, RowFields
        DEF FinishCancellation, ReleaseUnstarted, Complete, Fail, Requeue
    <3> QED
      BY <1>1, <2>1, <2>2, <2>4, <3>1, ResolveStep
  <2>5. CASE job'[j].status = "Queued"
    BY <1>1, <2>1, <2>2, <2>5, ResolveStep
  <2>6. job'[j].status \in {"Succeeded", "Failed"} => MayFinish(w)
    BY <1>0, <1>1, <2>1, RowFields
  <2> QED
    BY <2>2, <2>3, <2>4, <2>5, <2>6
<1> QED
  BY <1>2, <1>3, <1>4

\* A step that touches one row that is not leased before or after it, and no
\* task, leaves every owner as it is.
LEMMA OwnersKept ==
  ASSUME Good, worker' = worker, NEW j \in Jobs,
         \A k \in Jobs : k # j => job'[k] = job[k],
         \/ job[j].status # "Running" /\ job'[j].status # "Running"
         \/ job'[j].status = job[j].status /\ job'[j].token = job[j].token
  PROVE  \A k \in Jobs : LeaseHolder(k)' = LeaseHolder(k)
<1>1. ASSUME NEW k \in Jobs, k # j
      PROVE  LeaseHolder(k)' = LeaseHolder(k)
  BY <1>1, HolderSame
<1>2. CASE job[j].status # "Running" /\ job'[j].status # "Running"
  BY <1>1, <1>2, NoHolder DEF LeaseHolder
<1>3. CASE job'[j].status = job[j].status /\ job'[j].token = job[j].token
  BY <1>1, <1>3, HolderSame
<1> QED
  BY <1>2, <1>3

LEMMA EnqueueSimulation ==
  ASSUME Good, NEW o \in Operations, Enqueue(o)
  PROVE  Service!Next \/ UNCHANGED Service!svars
<1>0. Typed
  BY DEF Good
<1>1. worker' = worker
  BY <1>0, EnqueueEffect
<1>2. CASE job' = job
  BY <1>1, <1>2, Invisible
<1>3. CASE job' # job
  <2> PICK r \in Request, j \in Jobs :
             /\ job[j].status = "Absent" /\ job'[j] = NewRow(r)
             /\ \A k \in Jobs : k # j => job'[k] = job[k]
    BY <1>0, <1>3, EnqueueEffect
  <2>1. /\ job'[j].status = "Queued" /\ job'[j].need = r.need
        /\ job'[j].cancel = FALSE
    BY DEF NewRow
  <2>2. job[j].cancel = FALSE /\ r.need \in SUBSET Work
    BY <1>0 DEF Good, Bindings, Request, Typed, TypeOK, Row
  <2>3. \A k \in Jobs : LeaseHolder(k)' = LeaseHolder(k)
    BY <1>1, <2>1, OwnersKept
  <2>4. Service!Submit(j, r.need)
    <3>1. [k \in Jobs |-> job[k].status]'
            = [[k \in Jobs |-> job[k].status] EXCEPT ![j] = "Queued"]
      BY <2>1
    <3>2. [k \in Jobs |-> job[k].need]'
            = [[k \in Jobs |-> job[k].need] EXCEPT ![j] = r.need]
      BY <2>1
    <3>3. UNCHANGED <<[k \in Jobs |-> job[k].cancel], [k \in Jobs |-> LeaseHolder(k)]>>
      BY <2>1, <2>2, <2>3
    <3> QED
      BY <1>1, <3>1, <3>2, <3>3 DEF Service!Submit
  <2> QED
    BY <2>2, <2>4 DEF Service!Next
<1> QED
  BY <1>2, <1>3

LEMMA MergeSimulation ==
  ASSUME Good, NEW o \in Operations, MergeReconcileInput(o)
  PROVE  Service!Next \/ UNCHANGED Service!svars
<1>a. /\ Typed /\ worker' = worker
      /\ call[o].job \in Jobs /\ call[o].need \in SUBSET Work
  BY DEF Good, Typed, Bound, TypeOK, Call, MergeReconcileInput
<1> PICK j \in Jobs, n \in SUBSET Work : j = call[o].job /\ n = call[o].need
  BY <1>a
<1>0. Typed /\ worker' = worker
  BY <1>a
<1>1. CASE job' = job
  BY <1>0, <1>1, Invisible
<1>2. CASE job' # job
  <2>1. /\ Mergeable(o)
        /\ job'[j] = [job[j] EXCEPT !.need = job[j].need \cup n,
                                     !.revision = job[j].revision + 1]
        /\ \A k \in Jobs : k # j => job'[k] = job[k]
    BY <1>0, <1>2, RowUpdate DEF MergeReconcileInput
  <2>2. job[j] \in Row
    BY <1>0 DEF Typed, TypeOK
  <2>3. /\ job'[j].status = job[j].status /\ job'[j].token = job[j].token
        /\ job'[j].cancel = job[j].cancel
        /\ job'[j].need = job[j].need \cup n
        /\ job[j].status \in {"Queued", "Running"}
    BY <2>1, <2>2 DEF Row, Mergeable, Active
  <2>4. \A k \in Jobs : LeaseHolder(k)' = LeaseHolder(k)
    BY <1>0, <2>1, <2>3, OwnersKept
  <2>5. Service!Extend(j, n)
    <3>1. UNCHANGED <<[k \in Jobs |-> job[k].status], [k \in Jobs |-> job[k].cancel],
                      [k \in Jobs |-> LeaseHolder(k)]>>
      BY <2>1, <2>3, <2>4
    <3>2. [k \in Jobs |-> job[k].need]'
            = [[k \in Jobs |-> job[k].need] EXCEPT ![j] =
                 [k \in Jobs |-> job[k].need][j] \cup n]
      BY <1>0, <2>1, <2>3
    <3> QED
      BY <1>0, <2>3, <3>1, <3>2 DEF Service!Extend
  <2> QED
    BY <2>5 DEF Service!Next
<1> QED
  BY <1>1, <1>2

LEMMA CancellationSimulation ==
  ASSUME Good, NEW j \in Jobs, RequestCancellation(j)
  PROVE  Service!Next
<1>0. Typed /\ job[j] \in Row /\ worker' = worker
  BY DEF Good, Typed, TypeOK, RequestCancellation
<1>1. /\ \/ /\ job[j].status = "Queued"
            /\ job'[j] = [job[j] EXCEPT !.cancel = TRUE, !.status = "Cancelled",
                                         !.token = NoToken, !.timer = Retention]
         \/ job[j].status = "Running" /\ job'[j] = [job[j] EXCEPT !.cancel = TRUE]
      /\ \A k \in Jobs : k # j => job'[k] = job[k]
  BY <1>0, RowUpdate DEF RequestCancellation
<1>2. /\ job'[j].need = job[j].need /\ job'[j].cancel = TRUE
      /\ \/ job[j].status = "Queued" /\ job'[j].status = "Cancelled"
         \/ /\ job[j].status = "Running" /\ job'[j].status = "Running"
            /\ job'[j].token = job[j].token
  <2>1. CASE job[j].status = "Queued"
    <3>1. job'[j] = [job[j] EXCEPT !.cancel = TRUE, !.status = "Cancelled",
                                   !.token = NoToken, !.timer = Retention]
      BY <1>1, <2>1
    <3> QED
      BY <1>0, <2>1, <3>1 DEF Row
  <2>2. CASE job[j].status = "Running"
    <3>1. job'[j] = [job[j] EXCEPT !.cancel = TRUE]
      BY <1>1, <2>2
    <3> QED
      BY <1>0, <2>2, <3>1 DEF Row
  <2> QED
    BY <1>1, <2>1, <2>2
<1>3. \A k \in Jobs : LeaseHolder(k)' = LeaseHolder(k)
  BY <1>0, <1>1, <1>2, OwnersKept
<1>4. Service!Cancel(j)
  <2>1. UNCHANGED <<[k \in Jobs |-> job[k].need], [k \in Jobs |-> LeaseHolder(k)]>>
    BY <1>1, <1>2, <1>3
  <2>2. [k \in Jobs |-> job[k].cancel]'
          = [[k \in Jobs |-> job[k].cancel] EXCEPT ![j] = TRUE]
    BY <1>1, <1>2
  <2>3. CASE job[j].status = "Queued"
    <3>1. [k \in Jobs |-> job[k].status]'
            = [[k \in Jobs |-> job[k].status] EXCEPT ![j] = "Cancelled"]
      BY <1>1, <1>2, <2>3
    <3> QED
      BY <1>0, <2>1, <2>2, <2>3, <3>1 DEF Service!Cancel
  <2>4. CASE job[j].status = "Running"
    <3>1. UNCHANGED [k \in Jobs |-> job[k].status]
      BY <1>1, <1>2, <2>4
    <3> QED
      BY <1>0, <2>1, <2>2, <2>4, <3>1 DEF Service!Cancel
  <2> QED
    BY <1>2, <2>3, <2>4
<1> QED
  BY <1>4 DEF Service!Next

LEMMA PurgeSimulation ==
  ASSUME Good, NEW j \in Jobs, Purge(j)
  PROVE  Service!Next
<1>1. /\ job[j].status \in Terminal /\ job'[j] = AbsentRow /\ worker' = worker
      /\ \A k \in Jobs : k # j => job'[k] = job[k]
  BY RowUpdate DEF Purge, Good
<1>2. job'[j].status = "Absent" /\ job'[j].need = {} /\ job'[j].cancel = FALSE
  BY <1>1 DEF AbsentRow
<1>3. \A k \in Jobs : LeaseHolder(k)' = LeaseHolder(k)
  BY <1>1, <1>2, OwnersKept DEF Terminal
<1>4. Service!Forget(j)
  <2>1. [k \in Jobs |-> job[k].status]'
          = [[k \in Jobs |-> job[k].status] EXCEPT ![j] = "Absent"]
    BY <1>1, <1>2
  <2>2. [k \in Jobs |-> job[k].need]' = [[k \in Jobs |-> job[k].need] EXCEPT ![j] = {}]
    BY <1>1, <1>2
  <2>3. [k \in Jobs |-> job[k].cancel]'
          = [[k \in Jobs |-> job[k].cancel] EXCEPT ![j] = FALSE]
    BY <1>1, <1>2
  <2>4. UNCHANGED [k \in Jobs |-> LeaseHolder(k)]
    BY <1>3
  <2> QED
    <3>1. [k \in Jobs |-> job[k].status][j] \in Service!Over
      BY <1>1 DEF Service!Over, Terminal
    <3> QED
      BY <1>1, <2>1, <2>2, <2>3, <2>4, <3>1 DEF Service!Forget
<1> QED
  BY <1>4 DEF Service!Next

LEMMA TickSimulation ==
  ASSUME Good, Tick
  PROVE  UNCHANGED Service!svars
<1>1. \A k \in Jobs : /\ job'[k].status = job[k].status
                      /\ job'[k].need = job[k].need
                      /\ job'[k].cancel = job[k].cancel
                      /\ job'[k].token = job[k].token
  <2>1. \A k \in Jobs : job[k] \in Row
    BY DEF Good, Typed, TypeOK
  <2> QED
    BY <2>1 DEF Tick, Row
<1>2. ASSUME NEW v \in Workers
      PROVE  /\ worker'[v].job = worker[v].job
             /\ worker'[v].need = worker[v].need
             /\ worker'[v].token = worker[v].token
  <2>1. worker[v] \in Task /\ worker'[v] = Aged(worker[v])
    BY DEF Tick, Good, Typed, TypeOK
  <2> QED
    BY <2>1 DEF Aged, Task
<1> QED
  BY <1>1, <1>2, Invisible

LEMMA StepSimulation ==
  ASSUME Good, [Next]_vars
  PROVE  Service!Next \/ UNCHANGED Service!svars
<1>1. ASSUME NEW o \in Operations, HandlerCrash(o)
      PROVE  UNCHANGED Service!svars
  BY <1>1, Invisible DEF HandlerCrash
<1>2. CASE UNCHANGED vars
  BY <1>2, Invisible DEF vars
<1> QED
  BY <1>1, <1>2, EnqueueSimulation, MergeSimulation, CancellationSimulation,
     PurgeSimulation, TakeStep, TaskSimulation, TickSimulation DEF Next

LEMMA InitSimulation == Init => Service!Init
<1> SUFFICES ASSUME Init PROVE Service!Init
  OBVIOUS
<1>1. \A k \in Jobs : LeaseHolder(k) = NoWorker
  BY NoHolder DEF LeaseHolder, Init, AbsentRow
<1>2. [j \in Jobs |-> job[j].status] = [j \in Jobs |-> "Absent"]
  BY DEF Init, AbsentRow
<1>3. [j \in Jobs |-> job[j].need] = [j \in Jobs |-> {}]
  BY DEF Init, AbsentRow
<1>4. [j \in Jobs |-> job[j].cancel] = [j \in Jobs |-> FALSE]
  BY DEF Init, AbsentRow
<1>5. [w \in Workers |-> [job |-> worker[w].job, need |-> worker[w].need]]
        = [w \in Workers |-> Service!NoTask]
  BY DEF Init, IdleTask, Service!NoTask
<1> QED
  BY <1>1, <1>2, <1>3, <1>4, <1>5 DEF Service!Init

LEMMA GoodHolds == Spec => []Good
<1>1. Init => Bindings
  BY InitBindings
<1>2. Typed /\ Fence /\ Bindings /\ [Next]_vars => Bindings'
  BY StepBindings
<1> QED
  BY <1>1, <1>2, FenceHolds, PTL DEF Spec, Good

\* Every behaviour of the queue is a behaviour of the job service: only the
\* owner of a job settles it, a verdict covers the input as it is then, and an
\* outcome is final.
THEOREM QueueImplementsService == Spec => ImplementsJobService
<1>1. Init => Service!Init
  BY InitSimulation
<1>2. Good /\ [Next]_vars => [Service!Next]_(Service!svars)
  BY StepSimulation
<1> QED
  BY <1>1, <1>2, GoodHolds, PTL DEF Spec, ImplementsJobService, Service!Spec
=============================================================================
