-------------------------- MODULE PlayerContainers --------------------------
(***************************************************************************)
(* The life of a team's challenge container: the durable lifecycle         *)
(* operations and their detached owners (services/player_containers,       *)
(* controllers/game/containers), and the maintenance that works on the     *)
(* same rows: launch recovery, the reaper of managed containers and the    *)
(* orphan sweep (services/cron/maintenance).                               *)
(*                                                                         *)
(* One instance, that is one participation and one per-team challenge, is  *)
(* modelled; its operations all share one scope.  Every database           *)
(* transaction is one step, and so is every call of the container backend. *)
(* A container row is named by its publication id, a runtime by its        *)
(* backend id; both are numbered in the order they are made.               *)
(*                                                                         *)
(* Time is abstract, with the constants of the code in one place: work     *)
(* under a lease is cut off before the lease ends (OPERATION_DEADLINE,     *)
(* RECOVERY_ATTEMPT_DEADLINE and REAP_EXTERNAL_DEADLINE are 120 s; the     *)
(* leases are 180 s and 300 s), so a lease runs out only once the work     *)
(* has ended.                                                              *)
(***************************************************************************)
EXTENDS Integers, FiniteSets

CONSTANTS
  Ops,          \* operation ids (x-rsctf-operation-id)
  MaxPubs,      \* bound: publication ids ever drawn
  MaxRuntimes,  \* bound: runtimes ever created
  MaxFaults     \* bound: failures, crashes, exits and saved definitions

ASSUME PlayerContainersAssumption ==
  /\ IsFiniteSet(Ops) /\ Ops \cap {"none", "cron", "admin"} = {}
  /\ {MaxPubs, MaxRuntimes} \subseteq Nat \ {0}
  /\ MaxFaults \in Nat

Pubs == 1 .. MaxPubs
Runtimes == 1 .. MaxRuntimes
Defs == 0 .. MaxFaults
Procs == {"cron", "admin"}  \* the maintenance loop; a manager's request
None == 0

VARIABLES
  op,      \* PlayerContainerOperations
  link,    \* GameInstances.container_id
  cont,    \* Containers
  marker,  \* ManagedContainerReapOperations: the holder of the lease
  rt,      \* the container backend
  late,    \* creations a dead owner left in the backend
  seen,    \* ORPHAN_FIRST_SEEN
  owner,   \* the detached owner of each operation
  proc,    \* what the maintenance loop and a manager's request are doing
  def,     \* the saved definition of the challenge
  drawn,   \* publication ids drawn
  faults

rows == <<op, link, cont, marker, def, drawn>>
backend == <<rt, late>>
vars == <<rows, backend, seen, owner, proc, faults>>

-----------------------------------------------------------------------------
(* State. *)

Intents == {"Create", "Delete", "Extend"}

Row == [state : {"Absent", "Running", "Succeeded", "Failed"},
        intent : Intents,
        pub : Pubs \cup {None},
        \* stale, old: 30 seconds and 5 minutes past its end
        lease : {"live", "expired", "stale", "old"},
        started : BOOLEAN,
        fence : Defs \cup {-1},              \* -1: NULL
        rt : Runtimes \cup {None}]

NoRow == [state |-> "Absent", intent |-> "Create", pub |-> None,
          lease |-> "expired", started |-> FALSE, fence |-> -1, rt |-> None]

Container == [rt : Runtimes \cup {None}, def : Defs, due : BOOLEAN]
NoContainer == [rt |-> None, def |-> 0, due |-> FALSE]

Runtime == [op : Ops \cup {"none"}, def : Defs,
            st : {"unborn", "up", "exited", "gone"}]
NoRuntime == [op |-> "none", def |-> 0, st |-> "unborn"]

OwnerPcs == {"idle", "bind", "look", "revoke", "unlink", "start", "create",
             "record", "publish", "discard", "complete", "settle"}
Owner == [pc : OwnerPcs, pub : Pubs \cup {None}, def : Defs,
          c : Pubs \cup {None}, rt : Runtimes \cup {None}]
NoOwner == [pc |-> "idle", pub |-> None, def |-> 0, c |-> None, rt |-> None]

ProcPcs == {"idle", "claim", "check", "destroy", "clear",
            "inspect", "remove", "finish", "sweep"}
Proc == [pc : ProcPcs, op : Ops \cup {"none"}, c : Pubs \cup {None},
         rt : Runtimes \cup {None}, keep : BOOLEAN]
NoProc == [pc |-> "idle", op |-> "none", c |-> None, rt |-> None,
           keep |-> FALSE]

TypeOK ==
  /\ op \in [Ops -> Row]
  /\ link \in Pubs \cup {None}
  /\ cont \in [Pubs -> Container]
  /\ marker \in [Pubs -> {"none", "expired"} \cup Procs]
  /\ rt \in [Runtimes -> Runtime]
  /\ late \in SUBSET (Ops \X Defs)
  /\ seen \in [Runtimes -> {"no", "seen", "ripe"}]
  /\ owner \in [Ops -> Owner]
  /\ proc \in [Procs -> Proc]
  /\ def \in Defs /\ drawn \in 0 .. MaxPubs /\ faults \in 0 .. MaxFaults

Init ==
  /\ op = [o \in Ops |-> NoRow]
  /\ link = None /\ cont = [c \in Pubs |-> NoContainer]
  /\ marker = [c \in Pubs |-> "none"]
  /\ rt = [r \in Runtimes |-> NoRuntime] /\ late = {}
  /\ seen = [r \in Runtimes |-> "no"]
  /\ owner = [o \in Ops |-> NoOwner] /\ proc = [p \in Procs |-> NoProc]
  /\ def = 0 /\ drawn = 0 /\ faults = 0

Stored(c) == cont[c].rt # None          \* the Containers row exists
Present(r) == rt[r].st \in {"up", "exited"}
LiveRow(o) == op[o].state = "Running" /\ op[o].lease = "live"
Rivals(o) == {k \in Ops \ {o} : op[k].state = "Running"}

\* The columns a claim resets before anything reads them are left out.
FailedRow(o) == [NoRow EXCEPT !.state = "Failed", !.intent = op[o].intent,
                              !.pub = op[o].pub]

Destroyed(r) == [rt EXCEPT ![r] = [NoRuntime EXCEPT !.st = "gone"]]

\* Mutant: claims do not look for a teardown in progress.
TeardownPending_Never == FALSE

\* MANAGED_REAP_PENDING_SQL: a teardown marker whose container still exists.
TeardownPending == \E c \in Pubs : marker[c] # "none" /\ Stored(c)

\* create_is_still_published
StillPublished(o) == link = op[o].pub /\ Stored(op[o].pub)

-----------------------------------------------------------------------------
(* Admission: claim, under the claim lock and the runtime lock.  Answers   *)
(* that change no row (Recovered, Following, busy, conflict) are not steps. *)

Spawn(o, pub) ==
  owner' = [owner EXCEPT ![o] = [NoOwner EXCEPT !.pc =
              IF op'[o].intent = "Create" THEN "bind" ELSE "look",
              !.pub = pub]]

\* A launch draws a new publication id; a delete or an extension names the
\* container it is meant for.
PublicationOf_Fresh(intent, expected) == drawn + 1  \* mutant: always new
PublicationOf(intent, expected) ==
  IF intent = "Create" THEN drawn + 1 ELSE expected

\* A new operation id.  An expired operation of the scope that never reached
\* the backend is failed to make room; one that did blocks the scope.
ClaimNew(o, intent, expected) ==
  LET pub == PublicationOf(intent, expected)
  IN /\ op[o].state = "Absent" /\ ~TeardownPending
     /\ \A k \in Rivals(o) : op[k].lease # "live" /\ ~op[k].started
     /\ IF intent = "Create" THEN expected = None /\ drawn < MaxPubs
        ELSE expected \in 1 .. drawn
     /\ op' = [k \in Ops |->
          IF k = o THEN [NoRow EXCEPT !.state = "Running", !.intent = intent,
                           !.pub = pub, !.lease = "live",
                           !.fence = IF intent = "Create" THEN def ELSE -1]
          ELSE IF k \in Rivals(o)
               THEN FailedRow(k)
          ELSE op[k]]
     /\ drawn' = IF intent = "Create" THEN drawn + 1 ELSE drawn
     /\ Spawn(o, pub)
     /\ UNCHANGED <<link, cont, marker, def, backend, seen, proc, faults>>

\* The same operation id again, or a headerless request that adopts a
\* compatible stale launch: an expired operation is resumed as it is, a
\* failed one (or a receipt whose container is gone) starts afresh.
ClaimAgain(o) ==
  LET resumed == op[o].state = "Running"
      create == op[o].intent = "Create"
      pub == IF ~resumed /\ create THEN drawn + 1 ELSE op[o].pub
  IN /\ ~TeardownPending /\ Rivals(o) = {}
     /\ \/ resumed /\ op[o].lease # "live"
        \/ op[o].state = "Failed"
        \/ op[o].state = "Succeeded" /\ create /\ ~StillPublished(o)
     /\ pub <= MaxPubs
     /\ op' = [op EXCEPT ![o] =
          [op[o] EXCEPT !.state = "Running", !.pub = pub, !.lease = "live",
             !.started = resumed /\ op[o].started,
             !.fence = IF resumed THEN op[o].fence ELSE -1,
             !.rt = IF resumed THEN op[o].rt ELSE None]]
     /\ drawn' = IF pub > drawn THEN pub ELSE drawn
     /\ Spawn(o, pub)
     /\ UNCHANGED <<link, cont, marker, def, backend, seen, proc, faults>>

\* A lease ends after the work under it has.
LeaseExpires(o) ==
  /\ LiveRow(o) /\ owner[o].pc = "idle" /\ proc["cron"].op # o
  /\ op' = [op EXCEPT ![o].lease = "expired"]
  /\ UNCHANGED <<link, cont, marker, def, drawn, backend, seen, owner, proc,
                 faults>>

LeaseAges(o) ==
  /\ op[o].state = "Running" /\ op[o].lease \in {"expired", "stale"}
  /\ op' = [op EXCEPT ![o].lease = IF @ = "expired" THEN "stale" ELSE "old"]
  /\ UNCHANGED <<link, cont, marker, def, drawn, backend, seen, owner, proc,
                 faults>>

-----------------------------------------------------------------------------
(* The owner: spawn_owner around perform_create_container,                 *)
(* perform_delete_container or perform_extend_container.                   *)

\* WHERE operation_id = .. AND publication_id = .. AND state = 'Running'
Owned(o) == op[o].state = "Running" /\ op[o].pub = owner[o].pub

Goto(o, pc) == owner' = [owner EXCEPT ![o].pc = pc]
Ending(o, pc) ==
  owner' = [owner EXCEPT ![o] = [NoOwner EXCEPT !.pc = pc, !.pub = owner[o].pub]]
OwnerStep == UNCHANGED <<marker, def, drawn, late, seen, proc, faults>>

\* bind_definition: the first definition an operation launches is its last.
Bind(o) ==
  LET fence == IF op[o].fence = -1 THEN def ELSE op[o].fence
  IN /\ owner[o].pc = "bind"
     /\ op' = [op EXCEPT ![o].fence = IF Owned(o) THEN fence ELSE @]
     /\ IF Owned(o) /\ fence = def
        THEN owner' = [owner EXCEPT ![o].def = def, ![o].pc = "look"]
        ELSE Ending(o, "settle")
     /\ OwnerStep /\ UNCHANGED <<link, cont, rt>>

\* existing_runtime_is_reusable
Reusable(c, d) == rt[cont[c].rt].st = "up" /\ cont[c].def = d

\* Create: a running container is returned to its own operation and refused
\* to another; a stale one is torn down first.
LookCreate(o) ==
  /\ owner[o].pc = "look" /\ op[o].intent = "Create"
  /\ IF link = None THEN Goto(o, "start")
     ELSE IF Reusable(link, owner[o].def)
     THEN Ending(o, IF link = owner[o].pub THEN "complete" ELSE "settle")
     ELSE owner' = [owner EXCEPT ![o].pc = "revoke", ![o].c = link,
                                 ![o].rt = cont[link].rt]
  /\ OwnerStep /\ UNCHANGED <<op, link, cont, rt>>

\* delete_expected_team_container_locked.  Its comment asks the caller for
\* the runtime lock; no caller takes it, the scope's lease stands in for it.
LookDelete(o) ==
  /\ owner[o].pc = "look" /\ op[o].intent = "Delete"
  /\ IF link = None THEN Ending(o, "complete")
     ELSE IF link # owner[o].pub THEN Ending(o, "settle")
     ELSE owner' = [owner EXCEPT ![o].pc = "revoke", ![o].c = link,
                                 ![o].rt = cont[link].rt]
  /\ OwnerStep /\ UNCHANGED <<op, link, cont, rt>>

\* extend_expected_team_container_locked and complete_locked: the new expiry
\* and the receipt in one transaction.  A long overdue container may stay so.
Extend(o) ==
  /\ owner[o].pc = "look" /\ op[o].intent = "Extend"
  /\ IF link = owner[o].pub /\ Owned(o)
     THEN /\ \E due \in {FALSE, cont[link].due} :
               cont' = [cont EXCEPT ![link].due = due]
          /\ op' = [op EXCEPT ![o].state = "Succeeded"]
          /\ Ending(o, "complete")
     ELSE Ending(o, "settle") /\ UNCHANGED <<op, cont>>
  /\ OwnerStep /\ UNCHANGED <<link, rt>>

\* revoke_published_team_container: the runtime first, the rows second.
Revoke(o) ==
  /\ owner[o].pc = "revoke" /\ Goto(o, "unlink")
  /\ rt' = Destroyed(owner[o].rt)
  /\ OwnerStep /\ UNCHANGED <<op, link, cont>>

\* clear_destroyed_team_container: compare-and-swap on both identities.
Cleared(c, r) ==
  /\ link' = IF link = c THEN None ELSE link
  /\ cont' = IF cont[c].rt = r THEN [cont EXCEPT ![c] = NoContainer] ELSE cont

Unlink(o) ==
  /\ owner[o].pc = "unlink" /\ Cleared(owner[o].c, owner[o].rt)
  /\ IF op[o].intent # "Create" THEN Ending(o, "complete")
     ELSE owner' = [owner EXCEPT ![o].pc = "start", ![o].c = None,
                                 ![o].rt = None]
  /\ OwnerStep /\ UNCHANGED <<op, rt>>

\* mark_runtime_started
Start(o) ==
  LET fenced == Owned(o) /\ op[o].fence # -1
  IN /\ owner[o].pc = "start"
     /\ op' = [op EXCEPT ![o].started = @ \/ fenced]
     /\ IF fenced THEN Goto(o, "create") ELSE Ending(o, "settle")
     /\ OwnerStep /\ UNCHANGED <<link, cont, rt>>

\* ContainerManager::create under an operation label: the present runtime of
\* the operation is adopted if it runs the same specification, removed if it
\* has exited; otherwise a new one is made, or refused for want of room.
Born == {r \in Runtimes : rt[r].st # "unborn"}
Labelled(o) == {r \in Runtimes : rt[r].op = o /\ Present(r)}
NewRuntime(o, d) ==
  [rt EXCEPT ![Cardinality(Born) + 1] = [op |-> o, def |-> d, st |-> "up"]]

Create(o) ==
  /\ owner[o].pc = "create"
  /\ \/ \E r \in Labelled(o) :
          IF rt[r].st = "up" /\ rt[r].def = owner[o].def
          THEN /\ owner' = [owner EXCEPT ![o].pc = "record", ![o].rt = r]
               /\ UNCHANGED rt
          ELSE /\ Ending(o, "settle")
               /\ rt' = IF rt[r].st = "up" THEN rt
                        ELSE Destroyed(r)
     \/ /\ Labelled(o) = {} /\ Born # Runtimes
        /\ rt' = NewRuntime(o, owner[o].def)
        /\ owner' = [owner EXCEPT ![o].pc = "record",
                                  ![o].rt = Cardinality(Born) + 1]
     \/ /\ Labelled(o) = {} /\ Born = Runtimes
        /\ Ending(o, "settle") /\ UNCHANGED rt
  /\ OwnerStep /\ UNCHANGED <<op, link, cont>>

\* record_backend: the first runtime recorded stays; another is a conflict,
\* and the runtime in hand is not destroyed.
Record(o) ==
  LET fenced == Owned(o) /\ op[o].started
      kept == IF op[o].rt = None THEN owner[o].rt ELSE op[o].rt
  IN /\ owner[o].pc = "record"
     /\ op' = [op EXCEPT ![o].rt = IF fenced THEN kept ELSE @]
     /\ IF fenced /\ kept = owner[o].rt THEN Goto(o, "publish")
        ELSE Ending(o, "settle")
     /\ OwnerStep /\ UNCHANGED <<link, cont, rt>>

\* publish_team_container_locked and complete_locked in one transaction under
\* the runtime and definition locks; a refusal rolls back.
Publishable(o) ==
  /\ owner[o].def = def /\ link = None
  /\ ~Stored(owner[o].pub) /\ Owned(o)

Publish(o) ==
  LET c == owner[o].pub
  IN /\ owner[o].pc = "publish"
     /\ IF Publishable(o)
        THEN /\ link' = c
             /\ cont' = [cont EXCEPT ![c] = [rt |-> owner[o].rt, def |-> def,
                                             due |-> FALSE]]
             /\ op' = [op EXCEPT ![o].state = "Succeeded"]
             /\ Ending(o, "complete")
        ELSE Goto(o, "discard") /\ UNCHANGED <<op, link, cont>>
     /\ OwnerStep /\ UNCHANGED rt

\* A rolled back publication destroys the runtime it could not publish.
Discard(o) ==
  /\ owner[o].pc = "discard" /\ Ending(o, "settle")
  /\ rt' = Destroyed(owner[o].rt)
  /\ OwnerStep /\ UNCHANGED <<op, link, cont>>

\* complete: after a receipt written by the work itself this is a replay.
Complete(o) ==
  /\ owner[o].pc = "complete"
  /\ op' = [op EXCEPT ![o].state = IF Owned(o) THEN "Succeeded" ELSE @]
  /\ owner' = [owner EXCEPT ![o] = NoOwner]
  /\ OwnerStep /\ UNCHANGED <<link, cont, rt>>

\* settle_failed_work: before the backend was asked the operation fails;
\* after, its lease is given up for an exact retry or for recovery.
Settle(o) ==
  /\ owner[o].pc = "settle"
  /\ op' = [op EXCEPT ![o] =
       IF ~Owned(o) THEN op[o]
       ELSE IF op[o].started THEN [op[o] EXCEPT !.lease = "expired"]
       ELSE FailedRow(o)]
  /\ owner' = [owner EXCEPT ![o] = NoOwner]
  /\ OwnerStep /\ UNCHANGED <<link, cont, rt>>

OwnerWorks(o) ==
  \/ Bind(o) \/ LookCreate(o) \/ LookDelete(o) \/ Extend(o) \/ Revoke(o)
  \/ Unlink(o) \/ Start(o) \/ Create(o) \/ Record(o) \/ Publish(o)
  \/ Discard(o) \/ Complete(o) \/ Settle(o)

\* The team may lose its right to the container while the runtime starts.
Ineligible(o) ==
  /\ owner[o].pc = "publish" /\ faults < MaxFaults
  /\ faults' = faults + 1 /\ Goto(o, "discard")
  /\ UNCHANGED <<rows, backend, seen, proc>>

\* The work fails or times out (pc = "settle") or its replica dies
\* (pc = "idle").  A creation it was waiting for may still reach the backend.
OwnerFails(o, pc) ==
  /\ owner[o].pc \notin {"idle", pc} /\ faults < MaxFaults
  /\ pc = "settle" => owner[o].pc # "complete"
  /\ faults' = faults + 1
  /\ IF pc = "idle" THEN owner' = [owner EXCEPT ![o] = NoOwner]
     ELSE Ending(o, pc)
  /\ late' = IF owner[o].pc = "create" THEN late \cup {<<o, owner[o].def>>}
             ELSE late
  /\ UNCHANGED <<rows, rt, seen, proc>>

\* The abandoned creation reaches the backend after all, or is lost.
LateCreate(o, d) ==
  /\ <<o, d>> \in late /\ late' = late \ {<<o, d>>}
  /\ \/ Labelled(o) = {} /\ Born # Runtimes /\ rt' = NewRuntime(o, d)
     \/ UNCHANGED rt
  /\ UNCHANGED <<rows, seen, owner, proc, faults>>

\* A runtime stops by itself.
Exit(r) ==
  /\ rt[r].st = "up" /\ faults < MaxFaults
  /\ faults' = faults + 1 /\ rt' = [rt EXCEPT ![r].st = "exited"]
  /\ UNCHANGED <<rows, late, seen, owner, proc>>

-----------------------------------------------------------------------------
(* destroy_managed_container_row: the reaper of expired containers (cron,  *)
(* honor_refresh) and managers who stop one (admin).                       *)

ProcAt(p, pc) == proc[p].pc = pc
ProcGoto(p, pc) == proc' = [proc EXCEPT ![p].pc = pc]
ProcEnds(p) == proc' = [proc EXCEPT ![p] = NoProc]
MayReap(p, c) == p = "cron" => cont[c].due   \* expect_stop_at has passed

\* The candidate is read and its owner resolved.
ReapPick(p, c) ==
  /\ ProcAt(p, "idle") /\ Stored(c) /\ MayReap(p, c) /\ link = c
  /\ proc' = [proc EXCEPT ![p] = [NoProc EXCEPT !.pc = "claim", !.c = c,
                                                !.rt = cont[c].rt]]
  /\ UNCHANGED <<rows, backend, seen, owner, faults>>

\* Mutant: teardown does not look for a running player operation.
Claimable_IgnoresOperations(c) == marker[c] \in {"none", "expired"}

\* Under the runtime lock: no player operation with a live lease, and
\* claim_reap_on takes a free or expired marker.
Claimable(c) == (\A o \in Ops : ~LiveRow(o)) /\ marker[c] \in {"none", "expired"}

ReapClaim(p) ==
  LET c == proc[p].c
  IN /\ ProcAt(p, "claim")
     /\ IF Claimable(c)
        THEN marker' = [marker EXCEPT ![c] = p] /\ ProcGoto(p, "check")
        ELSE ProcEnds(p) /\ UNCHANGED marker
     /\ UNCHANGED <<op, link, cont, def, drawn, backend, seen, owner, faults>>

\* Mutant: the row is not read again after the claim.
ReapCheck_NoReread(p) ==
  /\ ProcAt(p, "check") /\ ProcGoto(p, "destroy")
  /\ UNCHANGED <<rows, backend, seen, owner, faults>>

\* The row is read again: gone, or extended meanwhile, abandons the claim.
ReapCheck(p) ==
  LET c == proc[p].c
  IN /\ ProcAt(p, "check")
     /\ IF cont[c].rt = proc[p].rt /\ MayReap(p, c)
        THEN ProcGoto(p, "destroy") /\ UNCHANGED marker
        ELSE ProcEnds(p) /\ marker' = [marker EXCEPT ![c] = "none"]
     /\ UNCHANGED <<op, link, cont, def, drawn, backend, seen, owner, faults>>

ReapDestroy(p) ==
  /\ ProcAt(p, "destroy") /\ ProcGoto(p, "clear")
  /\ rt' = Destroyed(proc[p].rt)
  /\ UNCHANGED <<rows, late, seen, owner, faults>>

\* clear_destroyed_managed_container
ReapClear(p) ==
  /\ ProcAt(p, "clear") /\ ProcEnds(p)
  /\ Cleared(proc[p].c, proc[p].rt)
  /\ marker' = [marker EXCEPT ![proc[p].c] = "none"]
  /\ UNCHANGED <<op, def, drawn, backend, seen, owner, faults>>

\* A marker's lease ends after the work under it has (retain_failed_reap_claim
\* shortens it).
MarkerExpires(c) ==
  /\ marker[c] \in Procs /\ proc[marker[c]].c # c
  /\ marker' = [marker EXCEPT ![c] = "expired"]
  /\ UNCHANGED <<op, link, cont, def, drawn, backend, seen, owner, proc,
                 faults>>

\* reap_expired_containers drops expired markers whose container is gone.
MarkerCleanup(c) ==
  /\ ProcAt("cron", "idle") /\ marker[c] = "expired" /\ ~Stored(c)
  /\ marker' = [marker EXCEPT ![c] = "none"]
  /\ UNCHANGED <<op, link, cont, def, drawn, backend, seen, owner, proc,
                 faults>>

-----------------------------------------------------------------------------
(* Recovery of stale launches: claim_stale_reconciliation and              *)
(* recover_one_stale_launch.                                               *)

\* Mutants: the lease is not checked; only recorded runtimes are recovered.
Recoverable_AnyLease(o) ==
  /\ op[o].state = "Running" /\ op[o].started /\ ~TeardownPending
Recoverable_RecordedOnly(o) ==
  /\ op[o].state = "Running" /\ op[o].rt # None /\ ~TeardownPending
  /\ op[o].lease \in {"stale", "old"}

\* A launch that asked the backend, 30 seconds after the end of its lease.
Recoverable(o) ==
  /\ op[o].state = "Running" /\ op[o].started /\ ~TeardownPending
  /\ op[o].lease \in {"stale", "old"}

RecoverClaim(o) ==
  /\ ProcAt("cron", "idle") /\ Recoverable(o)
  /\ op' = [op EXCEPT ![o].lease = "live"]
  /\ proc' = [proc EXCEPT !["cron"] = [NoProc EXCEPT !.pc = "inspect",
                                                     !.op = o]]
  /\ UNCHANGED <<link, cont, marker, def, drawn, backend, seen, owner, faults>>

\* A published, current and running container is kept; any other, and an
\* unpublished runtime that was recorded or is found by its label, is removed.
RecoverInspect ==
  LET o == proc["cron"].op
      c == op[o].pub
      keep == Stored(c) /\ link = c /\ op[o].fence = def /\ Reusable(c, def)
      found == {IF Stored(c) THEN cont[c].rt ELSE op[o].rt} \ {None}
      target == IF found = {} THEN Labelled(o) ELSE found
  IN /\ ProcAt("cron", "inspect")
     /\ IF keep \/ target = {}
        THEN proc' = [proc EXCEPT !["cron"].pc = "finish",
                                  !["cron"].keep = keep]
        ELSE \E r \in target :
               proc' = [proc EXCEPT !["cron"].pc = "remove",
                          !["cron"].c = IF Stored(c) THEN c ELSE None,
                          !["cron"].rt = r]
     /\ UNCHANGED <<rows, backend, seen, owner, faults>>

RecoverRemove ==
  /\ ProcAt("cron", "remove")
  /\ ProcGoto("cron", "finish")
  /\ rt' = Destroyed(proc["cron"].rt)
  /\ UNCHANGED <<rows, late, seen, owner, faults>>

\* complete, or the rows of a removed container cleared and
\* force_reconciliation_failed.
RecoverFinish ==
  LET o == proc["cron"].op
  IN /\ ProcAt("cron", "finish") /\ ProcEnds("cron")
     /\ IF proc["cron"].c # None THEN Cleared(proc["cron"].c, proc["cron"].rt)
        ELSE UNCHANGED <<link, cont>>
     /\ op' = [op EXCEPT ![o] =
          IF op[o].state # "Running" THEN op[o]
          ELSE IF proc["cron"].keep
               THEN [op[o] EXCEPT !.state = "Succeeded"]
          ELSE FailedRow(o)]
     /\ UNCHANGED <<marker, def, drawn, backend, seen, owner, faults>>

-----------------------------------------------------------------------------
(* sweep_orphan_containers: runtimes nothing durable names.                *)


\* load_known_container_ids and runtime_has_durable_owner
Known(r) ==
  \/ \E c \in Pubs : cont[c].rt = r
  \/ \E o \in Ops : op[o].rt = r /\ op[o].state = "Running"
                    /\ op[o].lease # "old"

SweepScan ==
  /\ ProcAt("cron", "idle")
  /\ seen' = [r \in Runtimes |->
       IF ~Present(r) \/ Known(r) THEN "no"
       ELSE IF seen[r] = "no" THEN "seen" ELSE seen[r]]
  /\ UNCHANGED <<rows, backend, owner, proc, faults>>

\* ORPHAN_GRACE_SECS is longer than the deadline of an owner: whoever worked
\* on the runtime when it was first seen has ended.
GracePasses(r) ==
  /\ seen[r] = "seen" /\ Present(r) /\ owner[rt[r].op].pc = "idle"
  /\ seen' = [seen EXCEPT ![r] = "ripe"]
  /\ UNCHANGED <<rows, backend, owner, proc, faults>>

\* A ripe runtime is looked up once more before it is destroyed.
SweepPick(r) ==
  /\ ProcAt("cron", "idle") /\ seen[r] = "ripe"
  /\ IF Known(r) THEN seen' = [seen EXCEPT ![r] = "no"] /\ UNCHANGED proc
     ELSE /\ proc' = [proc EXCEPT !["cron"] =
                        [NoProc EXCEPT !.pc = "sweep", !.rt = r]]
          /\ UNCHANGED seen
  /\ UNCHANGED <<rows, backend, owner, faults>>

SweepDestroy ==
  /\ ProcAt("cron", "sweep") /\ ProcEnds("cron")
  /\ rt' = Destroyed(proc["cron"].rt)
  /\ seen' = [seen EXCEPT ![proc["cron"].rt] = "no"]
  /\ UNCHANGED <<rows, late, owner, faults>>

\* A call of the backend fails, or the replica dies: durable claims stay.
ProcFails(p) ==
  /\ ~ProcAt(p, "idle") /\ faults < MaxFaults
  /\ faults' = faults + 1 /\ ProcEnds(p)
  /\ UNCHANGED <<rows, backend, seen, owner>>

-----------------------------------------------------------------------------
\* A container's lifetime ends.
Overdue(c) ==
  /\ Stored(c) /\ ~cont[c].due
  /\ cont' = [cont EXCEPT ![c].due = TRUE]
  /\ UNCHANGED <<op, link, marker, def, drawn, backend, seen, owner, proc,
                 faults>>

\* A manager saves another definition of the challenge.
Edit ==
  /\ faults < MaxFaults /\ faults' = faults + 1 /\ def' = def + 1
  /\ UNCHANGED <<op, link, cont, marker, drawn, backend, seen, owner, proc>>

Reap(p) == ReapClaim(p) \/ ReapCheck(p) \/ ReapDestroy(p) \/ ReapClear(p)
Recover == RecoverInspect \/ RecoverRemove \/ RecoverFinish

Next ==
  \/ \E o \in Ops :
       \/ \E i \in Intents, e \in Pubs \cup {None} : ClaimNew(o, i, e)
       \/ ClaimAgain(o) \/ LeaseExpires(o) \/ LeaseAges(o)
       \/ OwnerWorks(o) \/ Ineligible(o)
       \/ \E pc \in {"idle", "settle"} : OwnerFails(o, pc)
       \/ \E d \in Defs : LateCreate(o, d)
       \/ RecoverClaim(o)
  \/ \E p \in Procs :
       \/ \E c \in Pubs : ReapPick(p, c)
       \/ Reap(p) \/ ProcFails(p)
  \/ \E c \in Pubs : MarkerExpires(c) \/ MarkerCleanup(c) \/ Overdue(c)
  \/ \E r \in Runtimes : Exit(r) \/ GracePasses(r) \/ SweepPick(r)
  \/ Recover \/ SweepScan \/ SweepDestroy \/ Edit

Spec == Init /\ [][Next]_vars

\* The tasks that are running go on, leases and grace periods end, and the
\* maintenance loop comes back to every kind of work: to the orphan sweep over
\* and over, and to a launch as long as it stays recoverable, but a launch that
\* is renewed between two of its visits may escape it.  No request is ever
\* assumed.
CronWorks == Reap("cron") \/ Recover \/ SweepDestroy

Fairness ==
  /\ \A o \in Ops : /\ WF_vars(OwnerWorks(o))
                    /\ WF_vars(LeaseExpires(o)) /\ WF_vars(LeaseAges(o))
                    /\ []<>~Recoverable(o)
  /\ WF_vars(CronWorks)
  /\ SF_vars(SweepScan)
  /\ SF_vars(\E r \in Runtimes : GracePasses(r))
  /\ SF_vars(\E r \in Runtimes : SweepPick(r))

FairSpec == Spec /\ Fairness

-----------------------------------------------------------------------------
(* Properties. *)

\* Those who have passed their claim and may change the instance.
Mutators ==
  {o \in Ops : owner[o].pc \notin {"idle", "complete", "settle"}}
  \cup {p \in Procs : proc[p].pc \in {"check", "destroy", "clear", "inspect",
                                      "remove", "finish"}}

\* The lease of an operation, the lease recovery takes over and the teardown
\* marker together admit one actor at a time to an instance: an owner, the
\* recovery of a launch or one teardown, although none of them holds a lock
\* while it works.  (A teardown whose container is gone only abandons its
\* claim.)
OneMutator ==
  \A x, y \in Mutators : x # y =>
    \E p \in {x, y} \cap Procs :
      proc[p].pc = "check" /\ cont[proc[p].c].rt # proc[p].rt

\* The reaper never destroys a container whose owner extended it, whatever
\* happened between reading the candidates, the claim and the destruction.
ExtensionIsHonoured ==
  ProcAt("cron", "destroy") => cont[proc["cron"].c].due

\* What is torn down as an old container still is the linked one: a delayed
\* delete or the cleanup before a restart never hits a replacement.
TeardownHitsItsTarget ==
  \A o \in Ops : owner[o].pc \in {"revoke", "unlink"} => link = owner[o].c

\* A runtime that a container row names is destroyed only as that container:
\* by an owner that revokes it or under its teardown marker, never as an
\* unpublished leftover.  The orphan sweep is excepted: its last look and its
\* destruction are two steps, and an exact retry may adopt the runtime and
\* publish it in between.
PublishedRuntimeIsSpared ==
  [][\A c \in Pubs :
       Stored(c) /\ Present(cont[c].rt) /\ ~Present(cont[c].rt)'
       => \/ \E o \in Ops : owner[o].pc = "revoke" /\ owner[o].c = c
          \/ \E p \in Procs : ProcAt(p, "destroy") /\ proc[p].c = c
                              /\ marker[c] = p
          \/ ProcAt("cron", "sweep")]_vars

\* A launch that asked the backend for a runtime does not stay open once its
\* client stops repeating it: its owner ends it or recovery does, whoever dies
\* and wherever the runtime was left.  The premise is needed: recovery waits for
\* 30 seconds after the end of a lease, and a retry that comes sooner renews the
\* lease (claim_stale_reconciliation against claim).
RetriesPause(o) == <>[][~ClaimAgain(o)]_vars

EveryLaunchSettles ==
  \A o \in Ops :
    RetriesPause(o) => []<>(op[o].state = "Running" => ~op[o].started)

=============================================================================
