------------------------------ MODULE BlobRefs ------------------------------
(***************************************************************************)
(* Content-addressed, reference-counted blobs (services/blob_refs): the    *)
(* durable staging of bytes before a domain transaction, the publication   *)
(* of a stage as one reference of one owner, the release of references,    *)
(* and the deletion of bytes nothing refers to any more.                   *)
(*                                                                         *)
(* Bytes are written and deleted outside every database transaction; what  *)
(* orders them are the leases in BlobStagingOperations and                 *)
(* BlobDeletionOperations.  Every transaction takes the advisory lock of   *)
(* its content hash before it reads anything about that hash, so it is one *)
(* step here, and so is every call of the object store.                    *)
(*                                                                         *)
(* Time is abstract.  A store and a delete are cut off after 45 s          *)
(* (STORE_DEADLINE, DELETE_DEADLINE); their leases are 15 and 2 minutes.   *)
(* So a lease does not run out while its call is in the object store, nor  *)
(* before the transaction that follows the call, unless Slow says so.      *)
(***************************************************************************)
EXTENDS Integers, FiniteSets

CONSTANTS
  Hashes,     \* contents, each named by its hash
  Ops,        \* staging operation ids
  Owners,     \* rows that hold a blob: avatars, posters, archives, snapshots
  Clients,    \* request handlers at work, on all replicas
  Cron,       \* the maintenance loop of the elected replica
  Content,    \* the content an operation uploads
  Slots,      \* the owners an operation may publish to
  OneShot,    \* operations with a random id, which nobody can repeat
  Batched,    \* operations that store one file of an upload of several
  Snapshots,  \* owners in AdServiceSnapshots
  Slow,       \* what may outlast the deadlines of the code
  MaxTries,   \* bound: requests with each operation id
  MaxFaults   \* bound: failed calls, crashes and administrative deletions

Procs == Clients \cup {Cron}
None == "none"
NoFile == -1

ASSUME BlobRefsAssumption ==
  /\ Content \in [Ops -> Hashes] /\ Slots \in [Ops -> SUBSET Owners]
  /\ OneShot \subseteq Ops /\ Batched \subseteq Ops /\ Snapshots \subseteq Owners
  /\ IsFiniteSet(Owners)
  /\ Cron \notin Clients
  /\ None \notin Hashes \cup Ops \cup Owners \cup Procs
  /\ Slow \subseteq {"effect", "stall"}
  /\ MaxTries \in [Ops -> Nat] /\ \A o \in OneShot : MaxTries[o] <= 1
  /\ MaxFaults \in Nat

VARIABLES
  file,    \* Files: the reference count of each hash
  stage,   \* BlobStagingOperations
  del,     \* BlobDeletionOperations
  disk,    \* the hashes in the object store
  owner,   \* the hash each owner row holds
  proc,    \* what each handler and the maintenance loop are doing
  late,    \* calls given up by their caller, still to reach the object store
  revived, \* history: contents a stage was revived for after their bytes went
  tries, faults

rows == <<file, stage, del, owner>>
vars == <<rows, disk, proc, late, revived, tries, faults>>

-----------------------------------------------------------------------------
(* State. *)

\* token: the cleanup claim in last_error; scope: published_owner_scope.
Stage == [state : {"Absent", "Storing", "Ready", "Published", "Failed"},
          live : BOOLEAN, token : Procs \cup {None}, scope : Owners \cup {None}]
NoStage == [state |-> "Absent", live |-> FALSE, token |-> None, scope |-> None]

Deletion == [state : {"Absent", "Deleting", "Failed"},
             live : BOOLEAN, by : Procs \cup {None}]
NoDeletion == [state |-> "Absent", live |-> FALSE, by |-> None]

\* store, ready, staged: stage_blob and what follows it.  discard: the owner's
\* transaction failed.  purge, delete, finish: purge_if_unreferenced of h, for
\* the cleanup of stage op if there is one; deleted, kept, failed: its result.
Pcs == {"idle", "store", "ready", "staged", "discard",
        "purge", "delete", "finish", "deleted", "kept", "failed"}
Proc == [pc : Pcs, op : Ops \cup {None}, h : Hashes \cup {None}]
Idle == [pc |-> "idle", op |-> None, h |-> None]

TypeOK ==
  /\ file \in [Hashes -> Nat \cup {NoFile}]
  /\ stage \in [Ops -> Stage]
  /\ del \in [Hashes -> Deletion]
  /\ disk \in SUBSET Hashes
  /\ owner \in [Owners -> Hashes \cup {None}]
  /\ proc \in [Procs -> Proc]
  /\ late \in SUBSET ({"store", "delete"} \X Hashes)
  /\ revived \in SUBSET Hashes
  /\ tries \in [Ops -> Nat] /\ faults \in Nat

Init ==
  /\ file = [h \in Hashes |-> NoFile]
  /\ stage = [o \in Ops |-> NoStage]
  /\ del = [h \in Hashes |-> NoDeletion]
  /\ disk = {}
  /\ owner = [w \in Owners |-> None]
  /\ proc = [p \in Procs |-> Idle]
  /\ late = {} /\ revived = {}
  /\ tries = [o \in Ops |-> 0] /\ faults = 0

Owned(h) == \E w \in Owners : owner[w] = h
StageHolds(h) == \E o \in Ops : /\ Content[o] = h /\ stage[o].live
                                /\ stage[o].state \in {"Storing", "Ready"}
\* Mutant: bytes being staged are not protected.
Referenced_IgnoresStages(h) == file[h] > 0 \/ Owned(h)

Referenced(h) == file[h] > 0 \/ Owned(h) \/ StageHolds(h)
Deleting(h) == del[h].state = "Deleting" /\ del[h].live

Fault == faults < MaxFaults /\ faults' = faults + 1
Goto(p, r) == proc' = [proc EXCEPT ![p] = r]
At(pc, o, h) == [pc |-> pc, op |-> o, h |-> h]

\* Mutant: a failed store leaves no row behind.
MarkFailed_Drops(o) ==
  stage' = IF stage[o].state = "Storing" THEN [stage EXCEPT ![o] = NoStage]
                                         ELSE stage

\* mark_failed: only a row that is still storing.
MarkFailed(o) ==
  stage' = IF stage[o].state = "Storing"
             THEN [stage EXCEPT ![o] = [NoStage EXCEPT !.state = "Failed"]]
             ELSE stage

-----------------------------------------------------------------------------
(* Staging. *)

\* The row is new, or an earlier attempt failed or died under it.
ClaimStage(c, o) ==
  /\ \/ stage[o].state = "Absent"
     \/ stage[o].state \in {"Storing", "Failed"} /\ ~stage[o].live
  /\ stage' = [stage EXCEPT ![o] =
                 [NoStage EXCEPT !.state = "Storing", !.live = TRUE]]
  /\ Goto(c, At("store", o, Content[o]))
  /\ UNCHANGED revived

\* A Ready stage past its lease, which kept no purge from deleting its bytes.
Outlived(o) ==
  stage[o].state = "Ready" /\ ~stage[o].live /\ Content[o] \notin disk

\* A repeated request finds its stage, live or not, and does not store again.
RecoverStage(c, o) ==
  /\ stage[o].state \in {"Ready", "Published"}
  /\ stage' = [stage EXCEPT ![o].live = TRUE]
  /\ revived' = revived \cup {h \in {Content[o]} : Outlived(o)}
  /\ Goto(c, At("staged", o, Content[o]))

\* Mutant: content is staged while its deletion is under way.
StageBlob_DuringDeletion(c, o) ==
  /\ proc[c] = Idle
  /\ tries[o] < MaxTries[o]
  /\ tries' = [tries EXCEPT ![o] = @ + 1]
  /\ ClaimStage(c, o) \/ RecoverStage(c, o)
  /\ UNCHANGED <<file, del, owner, disk, late, faults>>

StageBlob(c, o) ==
  /\ proc[c] = Idle
  /\ tries[o] < MaxTries[o]
  /\ tries' = [tries EXCEPT ![o] = @ + 1]
  /\ ~Deleting(Content[o])
  /\ ClaimStage(c, o) \/ RecoverStage(c, o)
  /\ UNCHANGED <<file, del, owner, disk, late, faults>>

StoreBytes(c) ==
  /\ proc[c].pc = "store"
  /\ disk' = disk \cup {proc[c].h} /\ revived' = revived \ {proc[c].h}
  /\ Goto(c, At("ready", proc[c].op, proc[c].h))
  /\ UNCHANGED <<rows, late, tries, faults>>

\* What a call that its caller gave up may still do to the object store: it has
\* run, it never runs, or (Slow) it runs later.
GiveUp(k, h) ==
  \/ disk' = (IF k = "store" THEN disk \cup {h} ELSE disk \ {h}) /\ late' = late
  \/ disk' = disk /\ late' = late
  \/ "effect" \in Slow /\ disk' = disk /\ late' = late \cup {<<k, h>>}

StoreFails(c) ==
  /\ proc[c].pc = "store" /\ Fault
  /\ GiveUp("store", proc[c].h)
  /\ MarkFailed(proc[c].op)
  /\ Goto(c, Idle)
  /\ UNCHANGED <<file, del, owner, revived, tries>>

\* The transaction that makes a stage Ready; it rolls back when a deletion is
\* under way or the row is no longer storing.
MakeReady(c) ==
  LET o == proc[c].op  h == proc[c].h IN
  /\ proc[c].pc = "ready"
  /\ \/ /\ ~Deleting(h) /\ stage[o].state = "Storing"
        /\ stage' = [stage EXCEPT ![o] = [@ EXCEPT !.state = "Ready", !.live = TRUE]]
        /\ file' = [file EXCEPT ![h] = IF @ = NoFile THEN 0 ELSE @]
        /\ Goto(c, At("staged", o, h))
     \/ /\ Deleting(h) /\ MarkFailed(o)
        /\ Goto(c, Idle) /\ UNCHANGED file
     \/ /\ ~Deleting(h) /\ stage[o].state # "Storing"
        /\ Goto(c, Idle) /\ UNCHANGED <<file, stage>>
  /\ UNCHANGED <<del, owner, disk, late, revived, tries, faults>>

-----------------------------------------------------------------------------
(* References and owners. *)

Acquire(f, h) == [f EXCEPT ![h] = IF @ = NoFile THEN 1 ELSE @ + 1]

\* Mutant: the last reference goes although a row still holds the content.
Release_Blind(f, h, ow) ==
  IF h = None \/ f[h] = NoFile THEN f ELSE [f EXCEPT ![h] = IF @ > 1 THEN @ - 1 ELSE 0]

\* release_locked, with the owner rows as the transaction leaves them.
Release(f, h, ow) ==
  IF h = None \/ f[h] = NoFile THEN f
  ELSE [f EXCEPT ![h] = IF @ > 1 THEN @ - 1
                        ELSE IF \E w \in Owners : ow[w] = h THEN 1 ELSE 0]

\* rsctf_release_ad_service_snapshot_file, the trigger on AdServiceSnapshots.
\* Mutant: the trigger does not fire.
ReleaseSnapshot_NoTrigger(f, h) == f

ReleaseSnapshot(f, h) ==
  IF h = None \/ f[h] = NoFile THEN f ELSE [f EXCEPT ![h] = IF @ > 1 THEN @ - 1 ELSE 0]

\* Once committed the caller purges the content it replaced.
ThenPurge(p, h) == Goto(p, IF h = None THEN Idle ELSE At("purge", None, h))

Consume(o, w) ==
  stage' = [stage EXCEPT ![o] =
              [@ EXCEPT !.state = "Published", !.live = TRUE, !.scope = w]]

\* Mutant: an owner that already holds the content takes a second reference.
PublishHeld_NewReference(c, w) ==
  LET o == proc[c].op  h == proc[c].h IN
  /\ o \notin OneShot /\ owner[w] = h
  /\ stage[o].state \in {"Ready", "Published"} /\ stage[o].live
  /\ file[h] > 0
  /\ stage[o].state = "Published" => stage[o].scope = w
  /\ Consume(o, w)
  /\ Goto(c, Idle)
  /\ file' = Acquire(file, h) /\ UNCHANGED owner

\* An avatar, a poster, an attachment or a writeup that already holds this
\* content: the stage is consumed and no reference is taken.
PublishHeld(c, w) ==
  LET o == proc[c].op  h == proc[c].h IN
  /\ o \notin OneShot /\ owner[w] = h
  /\ stage[o].state \in {"Ready", "Published"} /\ stage[o].live
  /\ file[h] > 0
  /\ stage[o].state = "Published" => stage[o].scope = w
  /\ Consume(o, w)
  /\ Goto(c, Idle)
  /\ UNCHANGED <<file, owner>>

\* One reference for the new content, one less for the old.
Swap(o, w) ==
  /\ w \notin Snapshots
  /\ stage[o].state = "Ready" /\ stage[o].live
  /\ owner' = [owner EXCEPT ![w] = Content[o]]
  /\ file' = Release(Acquire(file, Content[o]), owner[w], owner')
  /\ Consume(o, w)

\* An archive is purged when it lost its last reference, the others always.
PublishSwap(c, w) ==
  LET o == proc[c].op  old == owner[w] IN
  /\ o \in OneShot \/ old # proc[c].h
  /\ Swap(o, w)
  /\ ThenPurge(c, IF o \in OneShot /\ old # None /\ file'[old] > 0 THEN None
                                                                  ELSE old)

\* store_service_snapshot: the stale snapshot of the service is replaced ...
SwapSnapshot(o, w) ==
  /\ w \in Snapshots
  /\ stage[o].state = "Ready" /\ stage[o].live
  /\ owner' = [owner EXCEPT ![w] = Content[o]]
  /\ file' = Acquire(ReleaseSnapshot(file, owner[w]), Content[o])
  /\ Consume(o, w)

PublishSnapshot(c, w) ==
  /\ SwapSnapshot(proc[c].op, w)
  /\ ThenPurge(c, IF owner[w] = proc[c].h THEN None ELSE owner[w])

Publish(c) ==
  /\ proc[c].pc = "staged"
  /\ \E w \in Slots[proc[c].op] :
       PublishHeld(c, w) \/ PublishSwap(c, w) \/ PublishSnapshot(c, w)
  /\ UNCHANGED <<del, disk, late, revived, tries, faults>>

\* ... or a concurrent capture won, and the stage is dropped.  The same happens
\* to a one-shot stage whose transaction is refused and to the stages of an
\* upload of several files of which one fails; the others are left to expire,
\* as their client may repeat the request.
Refuse(c) ==
  /\ proc[c].pc = "staged"
  /\ \/ /\ proc[c].op \in OneShot \cup Batched
        /\ Goto(c, [proc[c] EXCEPT !.pc = "discard"])
     \/ proc[c].op \notin OneShot /\ Goto(c, Idle)
  /\ UNCHANGED <<rows, disk, late, revived, tries, faults>>

\* The commit took effect but its answer was lost.
PublishUnknown(c) ==
  /\ proc[c].pc = "staged" /\ proc[c].op \in OneShot /\ Fault
  /\ \E w \in Slots[proc[c].op] : Swap(proc[c].op, w) \/ SwapSnapshot(proc[c].op, w)
  /\ Goto(c, [proc[c] EXCEPT !.pc = "discard"])
  /\ UNCHANGED <<del, disk, late, revived, tries>>

\* The owner goes away: an account, a team, a game or a challenge is deleted, a
\* poster is cleared, or (by the maintenance loop) a snapshot has expired.
Detach(p, w) ==
  /\ proc[p] = Idle /\ owner[w] # None
  /\ p = Cron <=> w \in Snapshots
  /\ owner' = [owner EXCEPT ![w] = None]
  /\ file' = IF w \in Snapshots THEN ReleaseSnapshot(file, owner[w])
                                ELSE Release(file, owner[w], owner')
  /\ ThenPurge(p, owner[w])
  /\ UNCHANGED <<stage, del, disk, late, revived, tries, faults>>

\* DELETE /api/assets/{hash}: a reference is released whoever holds it.
DeleteAsset(c, h) ==
  /\ proc[c] = Idle /\ file[h] # NoFile /\ Fault
  /\ file' = Release(file, h, owner)
  /\ ThenPurge(c, IF file'[h] = 0 THEN h ELSE None)
  /\ UNCHANGED <<stage, del, owner, disk, late, revived, tries>>

-----------------------------------------------------------------------------
(* Deletion. *)

\* What purge_if_unreferenced returns to: a stage cleanup, or nobody.
Return(p, result) ==
  Goto(p, IF proc[p].op = None THEN Idle ELSE [proc[p] EXCEPT !.pc = result])

\* Mutant: the purge trusts what its caller saw.
ClaimDeletion_Unchecked(p) ==
  /\ proc[p].pc = "purge" /\ ~Deleting(proc[p].h)
  /\ del' = [del EXCEPT ![proc[p].h] =
               [state |-> "Deleting", live |-> TRUE, by |-> p]]
  /\ Goto(p, [proc[p] EXCEPT !.pc = "delete"])
  /\ UNCHANGED <<file, stage, owner, disk, late, revived, tries, faults>>

ClaimDeletion(p) ==
  LET h == proc[p].h IN
  /\ proc[p].pc = "purge"
  /\ \/ /\ Referenced(h)
        /\ del' = [del EXCEPT ![h] = NoDeletion]
        /\ Return(p, "kept")
     \/ /\ ~Referenced(h) /\ Deleting(h)
        /\ Return(p, "kept") /\ UNCHANGED del
     \/ /\ ~Referenced(h) /\ ~Deleting(h)
        /\ del' = [del EXCEPT ![h] =
                     [state |-> "Deleting", live |-> TRUE, by |-> p]]
        /\ Goto(p, [proc[p] EXCEPT !.pc = "delete"])
  /\ UNCHANGED <<file, stage, owner, disk, late, revived, tries, faults>>

\* Too many deletions here or in the deployment, or the database is away.
PurgeBusy(p) ==
  /\ proc[p].pc = "purge" /\ Fault
  /\ Return(p, "failed")
  /\ UNCHANGED <<rows, disk, late, revived, tries>>

DeleteBytes(p) ==
  /\ proc[p].pc = "delete"
  /\ disk' = disk \ {proc[p].h}
  /\ Goto(p, [proc[p] EXCEPT !.pc = "finish"])
  /\ UNCHANGED <<rows, late, revived, tries, faults>>

\* mark_blob_deletion_failed ends the lease at once.
DeleteFails(p) ==
  LET h == proc[p].h IN
  /\ proc[p].pc = "delete" /\ Fault
  /\ GiveUp("delete", h)
  /\ del' = IF del[h].by = p
              THEN [del EXCEPT ![h] = [@ EXCEPT !.state = "Failed", !.live = FALSE]]
              ELSE del
  /\ Return(p, "failed")
  /\ UNCHANGED <<file, stage, owner, revived, tries>>

FinishDeletion(p) ==
  LET h == proc[p].h
      mine == del[h].by = p /\ del[h].state = "Deleting" IN
  /\ proc[p].pc = "finish"
  /\ \/ /\ ~mine
        /\ Return(p, "failed") /\ UNCHANGED <<file, del>>
     \/ /\ mine /\ Referenced(h)
        /\ del' = [del EXCEPT ![h] = NoDeletion]
        /\ Return(p, "failed") /\ UNCHANGED file
     \/ /\ mine /\ ~Referenced(h)
        /\ del' = [del EXCEPT ![h] = NoDeletion]
        /\ file' = [file EXCEPT ![h] = NoFile]
        /\ Return(p, "deleted")
  /\ UNCHANGED <<stage, owner, disk, late, revived, tries, faults>>

-----------------------------------------------------------------------------
(* Stage cleanup and maintenance. *)

CleanupClaim(p, o) ==
  /\ stage' = [stage EXCEPT ![o] =
                 [NoStage EXCEPT !.state = "Failed", !.live = TRUE, !.token = p]]
  /\ Goto(p, At("purge", o, Content[o]))

\* discard_unpublished_stage: only a stage that is still Ready.
Discard(c) ==
  /\ proc[c].pc = "discard"
  /\ IF stage[proc[c].op].state = "Ready" THEN CleanupClaim(c, proc[c].op)
       ELSE Goto(c, Idle) /\ UNCHANGED stage
  /\ UNCHANGED <<file, del, owner, disk, late, revived, tries, faults>>

\* Mutant: failed stages are not visited again.
SweepStage_SkipsFailed(o) ==
  /\ proc[Cron] = Idle
  /\ stage[o].state \in {"Storing", "Ready", "Published"} /\ ~stage[o].live
  /\ IF stage[o].state = "Published"
       THEN stage' = [stage EXCEPT ![o] = NoStage] /\ UNCHANGED proc
       ELSE CleanupClaim(Cron, o)
  /\ UNCHANGED <<file, del, owner, disk, late, revived, tries, faults>>

\* purge_expired_stages: a receipt is dropped, anything else is cleaned up.
SweepStage(o) ==
  /\ proc[Cron] = Idle
  /\ stage[o].state # "Absent" /\ ~stage[o].live
  /\ IF stage[o].state = "Published"
       THEN stage' = [stage EXCEPT ![o] = NoStage] /\ UNCHANGED proc
       ELSE CleanupClaim(Cron, o)
  /\ UNCHANGED <<file, del, owner, disk, late, revived, tries, faults>>

\* purge_pending: a row without references that no live stage needs.
PurgePending(h) ==
  /\ proc[Cron] = Idle
  /\ file[h] = 0 /\ ~StageHolds(h)
  /\ Goto(Cron, At("purge", None, h))
  /\ UNCHANGED <<rows, disk, late, revived, tries, faults>>

\* run_stage_cleanup, by the result of the purge; a claim taken over in the
\* meantime is left alone.
Settle(p) ==
  LET o == proc[p].op
      mine == stage[o].state = "Failed" /\ stage[o].token = p IN
  /\ proc[p].pc \in {"deleted", "kept", "failed"}
  /\ stage' =
       IF ~mine THEN stage
       ELSE IF \/ proc[p].pc = "deleted"
               \/ proc[p].pc = "kept" /\ Referenced(proc[p].h)
              THEN [stage EXCEPT ![o] = NoStage]
              ELSE [stage EXCEPT ![o] = [@ EXCEPT !.live = TRUE, !.token = None]]
  /\ Goto(p, Idle)
  /\ UNCHANGED <<file, del, owner, disk, late, revived, tries, faults>>

-----------------------------------------------------------------------------
(* Time, crashes and late calls. *)

\* The lease of a call outlasts the call and the transaction after it, while
\* the caller is alive (see the top).
ExpireStage(o) ==
  /\ stage[o].live
  /\ \A p \in Procs : proc[p].op = o =>
       proc[p].pc # "store" /\ (proc[p].pc = "ready" => "stall" \in Slow)
  /\ stage' = [stage EXCEPT ![o].live = FALSE]
  /\ UNCHANGED <<file, del, owner, disk, proc, late, revived, tries, faults>>

ExpireDeletion(h) ==
  /\ Deleting(h)
  /\ \A p \in Procs : proc[p].h = h =>
       proc[p].pc # "delete" /\ (proc[p].pc = "finish" => "stall" \in Slow)
  /\ del' = [del EXCEPT ![h].live = FALSE]
  /\ UNCHANGED <<file, stage, owner, disk, proc, late, revived, tries, faults>>

\* A process dies, or a client hangs up and its handler is dropped.
Crash(p) ==
  /\ proc[p] # Idle /\ Fault
  /\ IF proc[p].pc \in {"store", "delete"} THEN GiveUp(proc[p].pc, proc[p].h)
                                           ELSE UNCHANGED <<disk, late>>
  /\ Goto(p, Idle)
  /\ UNCHANGED <<rows, revived, tries>>

LateCall ==
  /\ \E k \in late :
       /\ late' = late \ {k}
       /\ disk' = IF k[1] = "store" THEN disk \cup {k[2]} ELSE disk \ {k[2]}
  /\ UNCHANGED <<rows, proc, revived, tries, faults>>

-----------------------------------------------------------------------------
Handler(c) ==
  \/ StoreBytes(c) \/ StoreFails(c) \/ MakeReady(c)
  \/ Publish(c) \/ Refuse(c) \/ PublishUnknown(c) \/ Discard(c)

Purger(p) ==
  \/ ClaimDeletion(p) \/ PurgeBusy(p) \/ DeleteBytes(p) \/ DeleteFails(p)
  \/ FinishDeletion(p) \/ Settle(p)

Next ==
  \/ \E c \in Clients : \/ \E o \in Ops : StageBlob(c, o)
                        \/ \E h \in Hashes : DeleteAsset(c, h)
                        \/ Handler(c)
  \/ \E p \in Procs : \/ \E w \in Owners : Detach(p, w)
                      \/ Purger(p) \/ Crash(p)
  \/ \E o \in Ops : SweepStage(o) \/ ExpireStage(o)
  \/ \E h \in Hashes : PurgePending(h) \/ ExpireDeletion(h)
  \/ LateCall

Spec == Init /\ [][Next]_vars

\* A handler runs to its end, a lease runs out, and every pass of the
\* maintenance loop visits every expired stage and every row without
\* references, so none of them is passed over for ever.
FairSpec ==
  /\ Spec
  /\ \A c \in Clients : WF_vars(Handler(c))
  /\ \A p \in Procs : WF_vars(Purger(p))
  /\ \A o \in Ops : SF_vars(SweepStage(o)) /\ WF_vars(ExpireStage(o))
  /\ \A h \in Hashes : SF_vars(PurgePending(h)) /\ WF_vars(ExpireDeletion(h))

-----------------------------------------------------------------------------
(* Properties. *)

\* What an owner row holds can be read: its bytes are missing only if a stage
\* past its lease was revived after a purge had taken them.  No other purge,
\* whatever it looked at before, removes the bytes of a published blob, provided
\* that calls end within their deadlines (publish_staged_blob_for_owner against
\* purge_if_unreferenced).
OwnedBytesExist ==
  \A w \in Owners : owner[w] # None => owner[w] \in disk \cup revived

\* A stage a request may still publish has its bytes, also while other owners
\* of the same content come and go, unless such a stage was revived
\* (stage_blob).
UsableStageHasBytes ==
  \A o \in Ops : stage[o].state = "Ready" /\ stage[o].live =>
    Content[o] \in disk \cup revived

\* The count of a blob is positive exactly while it is owned and never exceeds
\* its owners: no replay takes a second reference, no concurrent release takes
\* the last one from another owner, and nothing is kept alive by nobody.  It is
\* said of content no snapshot holds (Snapshots = {}): the trigger on
\* AdServiceSnapshots lowers a count without looking at the owners
\* (acquire_locked, release_locked, consume_staged_blob_with_existing_reference).
CountsAreOwners ==
  \A h \in Hashes :
    LET n == Cardinality({w \in Owners : owner[w] = h})
    IN  IF n = 0 THEN file[h] \in {NoFile, 0} ELSE file[h] \in 1 .. n

\* Bytes disappear only while nothing refers to them, although the check was
\* made in an earlier transaction (claim_blob_deletion, storage.delete).
DeletionSparesReferenced ==
  [][\A h \in disk : Referenced(h) => h \in disk']_vars

\* Content that loses its last owner, or never gets one, leaves nothing behind:
\* no bytes, no Files row and no staging operation, whatever crashes in between
\* (purge_pending, purge_expired_stages, run_stage_cleanup).
Forgotten(h) ==
  /\ h \notin disk /\ file[h] = NoFile
  /\ \A o \in Ops : Content[o] = h => stage[o].state = "Absent"

UnownedContentGoes == \A h \in Hashes : ~Owned(h) ~> Owned(h) \/ Forgotten(h)
=============================================================================
