----------------------------- MODULE JobService -----------------------------
(***************************************************************************)
(* What the control-job queue promises, without rows, leases, revisions or *)
(* statements: a job has at most one owner, only its owner settles it, and *)
(* a verdict is about everything that was asked for when it is published.  *)
(* A task may lose its job to another one at any time and not know it.     *)
(***************************************************************************)
EXTENDS FiniteSets

CONSTANTS
  Jobs, Workers, Work,
  NoJob, NoWorker   \* null values

VARIABLES
  status,   \* [Jobs -> statuses]
  need,     \* what a job has to do
  cancel,   \* a cancellation was accepted
  owner,    \* the task whose outcome counts
  task      \* what a task works on, and from which input

svars == <<status, need, cancel, owner, task>>

Over == {"Succeeded", "Failed", "Cancelled"}
NoTask == [job |-> NoJob, need |-> {}]

Init ==
  /\ status = [j \in Jobs |-> "Absent"]
  /\ need = [j \in Jobs |-> {}]
  /\ cancel = [j \in Jobs |-> FALSE]
  /\ owner = [j \in Jobs |-> NoWorker]
  /\ task = [w \in Workers |-> NoTask]

Submit(j, n) ==
  /\ status[j] = "Absent"
  /\ status' = [status EXCEPT ![j] = "Queued"]
  /\ need' = [need EXCEPT ![j] = n]
  /\ UNCHANGED <<cancel, owner, task>>

\* An active job takes on more work.
Extend(j, n) ==
  /\ status[j] \in {"Queued", "Running"}
  /\ need' = [need EXCEPT ![j] = need[j] \cup n]
  /\ UNCHANGED <<status, cancel, owner, task>>

Cancel(j) ==
  /\ \/ status[j] = "Queued" /\ status' = [status EXCEPT ![j] = "Cancelled"]
     \/ status[j] = "Running" /\ UNCHANGED status
  /\ cancel' = [cancel EXCEPT ![j] = TRUE]
  /\ UNCHANGED <<need, owner, task>>

\* An idle task becomes the owner; a former owner is not told.
Take(w, j) ==
  /\ task[w] = NoTask /\ status[j] \in {"Queued", "Running"}
  /\ status' = [status EXCEPT ![j] = "Running"]
  /\ owner' = [owner EXCEPT ![j] = w]
  /\ task' = [task EXCEPT ![w] = [job |-> j, need |-> need[j]]]
  /\ UNCHANGED <<need, cancel>>

\* The owner ends its task and decides what becomes of the job.
Resolve(w, j, s) ==
  /\ owner[j] = w /\ task[w].job = j
  /\ \/ s \in {"Succeeded", "Failed"} /\ ~cancel[j] /\ task[w].need = need[j]
     \/ s = "Cancelled" /\ cancel[j]
     \/ s = "Queued"
  /\ status' = [status EXCEPT ![j] = s]
  /\ owner' = [owner EXCEPT ![j] = NoWorker]
  /\ task' = [task EXCEPT ![w] = NoTask]
  /\ UNCHANGED <<need, cancel>>

\* A task ends without a word; the job it may own stays Running, unowned.
Vanish(w) ==
  /\ task[w] # NoTask
  /\ owner' = [j \in Jobs |-> IF owner[j] = w THEN NoWorker ELSE owner[j]]
  /\ task' = [task EXCEPT ![w] = NoTask]
  /\ UNCHANGED <<status, need, cancel>>

Forget(j) ==
  /\ status[j] \in Over
  /\ status' = [status EXCEPT ![j] = "Absent"]
  /\ need' = [need EXCEPT ![j] = {}]
  /\ cancel' = [cancel EXCEPT ![j] = FALSE]
  /\ UNCHANGED <<owner, task>>

Next ==
  \/ \E j \in Jobs : Cancel(j) \/ Forget(j)
  \/ \E j \in Jobs, n \in SUBSET Work : Submit(j, n) \/ Extend(j, n)
  \/ \E w \in Workers, j \in Jobs :
       \/ Take(w, j)
       \/ \E s \in Over \cup {"Queued"} : Resolve(w, j, s)
  \/ \E w \in Workers : Vanish(w)

Spec == Init /\ [][Next]_svars
=============================================================================
