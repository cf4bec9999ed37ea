--------------------------- MODULE BlobRefsProofs ---------------------------
(***************************************************************************)
(* Blobs keep their bytes, for any contents, operations, owners and        *)
(* processes.  Types first; then, where every deadline of the code holds   *)
(* (Slow = {}), the invariant that ties each process to its lease: who     *)
(* stores content holds its stage, and who deletes content holds its       *)
(* deletion while nothing refers to it.  Last, without that assumption,    *)
(* how the reference counts follow the owners.                             *)
(***************************************************************************)
EXTENDS BlobRefs, FiniteSetTheorems, TLAPS

(***************************************************************************)
(* The invariants.                                                         *)
(***************************************************************************)
\* A process that works has something to work on.
WellFormed(p) ==
  /\ proc[p].pc \in {"store", "ready", "staged", "discard"} =>
       proc[p].op \in Ops /\ proc[p].h = Content[proc[p].op]
  /\ proc[p].pc \in {"purge", "delete", "finish"} => proc[p].h \in Hashes
  /\ proc[p].pc \in {"deleted", "kept", "failed"} =>
       proc[p].op \in Ops /\ proc[p].h \in Hashes

Typed == TypeOK /\ \A p \in Procs : WellFormed(p)

Storing(p) == proc[p].pc \in {"store", "ready"}
Removing(p) == proc[p].pc \in {"delete", "finish"}

\* Who stores content holds the live stage for it, alone.
StorerHoldsStage ==
  /\ \A p \in Procs : Storing(p) =>
       /\ stage[proc[p].op].state = "Storing" /\ stage[proc[p].op].live
       /\ proc[p].pc = "ready" => proc[p].h \in disk
  /\ \A p, q \in Procs :
       Storing(p) /\ Storing(q) /\ proc[p].op = proc[q].op => p = q

\* Who removes content holds the live deletion of it, and nothing refers to it.
RemoverHoldsDeletion ==
  \A p \in Procs : Removing(p) =>
    /\ Deleting(proc[p].h) /\ del[proc[p].h].by = p
    /\ ~Referenced(proc[p].h)

\* Content that is counted or owned has its bytes, unless a stage was revived
\* after they went.
HeldBytesExist ==
  \A h \in Hashes : file[h] > 0 \/ Owned(h) => h \in disk \cup revived

Safe ==
  /\ Typed
  /\ StorerHoldsStage
  /\ RemoverHoldsDeletion
  /\ HeldBytesExist
  /\ UsableStageHasBytes
  /\ late = {}

(***************************************************************************)
(* Types.                                                                  *)
(***************************************************************************)
\* Where a process goes next.
LEMMA GotoTyped ==
  ASSUME Typed, NEW p \in Procs, NEW r \in Proc, Goto(p, r),
         r.pc \in {"store", "ready", "staged", "discard"} =>
           r.op \in Ops /\ r.h = Content[r.op],
         r.pc \in {"purge", "delete", "finish"} => r.h \in Hashes,
         r.pc \in {"deleted", "kept", "failed"} => r.op \in Ops /\ r.h \in Hashes
  PROVE  proc' \in [Procs -> Proc] /\ \A q \in Procs : WellFormed(q)'
BY DEF Typed, TypeOK, WellFormed, Goto

LEMMA IdleTyped == Idle \in Proc /\ Idle.pc = "idle" /\ Idle.op = None /\ Idle.h = None
BY DEF Idle, Proc, Pcs

LEMMA AtTyped ==
  ASSUME NEW pc \in Pcs, NEW o \in Ops \cup {None}, NEW h \in Hashes \cup {None}
  PROVE  /\ At(pc, o, h) \in Proc
         /\ At(pc, o, h).pc = pc /\ At(pc, o, h).op = o /\ At(pc, o, h).h = h
BY DEF At, Proc

LEMMA MoveTyped ==
  ASSUME NEW r \in Proc, NEW pc \in Pcs
  PROVE  /\ [r EXCEPT !.pc = pc] \in Proc
         /\ [r EXCEPT !.pc = pc].pc = pc
         /\ [r EXCEPT !.pc = pc].op = r.op /\ [r EXCEPT !.pc = pc].h = r.h
BY DEF Proc

LEMMA ToIdle ==
  ASSUME Typed, NEW p \in Procs, Goto(p, Idle)
  PROVE  proc' \in [Procs -> Proc] /\ \A q \in Procs : WellFormed(q)'
BY GotoTyped, IdleTyped

LEMMA ToPurge ==
  ASSUME Typed, NEW p \in Procs, NEW h \in Hashes \cup {None}, ThenPurge(p, h)
  PROVE  proc' \in [Procs -> Proc] /\ \A q \in Procs : WellFormed(q)'
<1>1. CASE h = None BY <1>1, ToIdle DEF ThenPurge
<1>2. CASE h # None
  <2>1. "purge" \in Pcs BY DEF Pcs
  <2>2. Goto(p, At("purge", None, h)) BY <1>2 DEF ThenPurge
  <2>3. QED BY <1>2, <2>1, <2>2, AtTyped, GotoTyped
<1> QED BY <1>1, <1>2

LEMMA ReturnTyped ==
  ASSUME Typed, NEW p \in Procs, NEW result \in {"deleted", "kept", "failed"},
         proc[p].h \in Hashes, Return(p, result)
  PROVE  proc' \in [Procs -> Proc] /\ \A q \in Procs : WellFormed(q)'
<1>1. CASE proc[p].op = None BY <1>1, ToIdle DEF Return
<1>2. CASE proc[p].op # None
  <2>1. proc[p] \in Proc /\ result \in Pcs BY DEF Typed, TypeOK, Pcs
  <2>2. proc[p].op \in Ops BY <1>2, <2>1 DEF Proc
  <2>3. Goto(p, [proc[p] EXCEPT !.pc = result]) BY <1>2 DEF Return
  <2>4. QED BY <2>1, <2>2, <2>3, MoveTyped, GotoTyped
<1> QED BY <1>1, <1>2

\* What the updates of the rows keep.
LEMMA StageTyped ==
  /\ NoStage \in Stage
  /\ [NoStage EXCEPT !.state = "Failed"] \in Stage
  /\ [NoStage EXCEPT !.state = "Storing", !.live = TRUE] \in Stage
  /\ \A p \in Procs : [NoStage EXCEPT !.state = "Failed", !.live = TRUE, !.token = p] \in Stage
BY DEF NoStage, Stage

LEMMA AcquireCount ==
  ASSUME NEW f \in [Hashes -> Nat \cup {NoFile}], NEW h \in Hashes
  PROVE  /\ Acquire(f, h) \in [Hashes -> Nat \cup {NoFile}]
         /\ Acquire(f, h)[h] > 0 /\ Acquire(f, h)[h] # NoFile
         /\ \A g \in Hashes : g # h => Acquire(f, h)[g] = f[g]
BY DEF Acquire, NoFile

LEMMA ReleaseCount ==
  ASSUME NEW f \in [Hashes -> Nat \cup {NoFile}], NEW h \in Hashes \cup {None}, NEW ow
  PROVE  /\ Release(f, h, ow) \in [Hashes -> Nat \cup {NoFile}]
         /\ \A g \in Hashes :
              /\ Release(f, h, ow)[g] > 0 => f[g] > 0 \/ \E w \in Owners : ow[w] = g
              /\ f[g] # NoFile => Release(f, h, ow)[g] # NoFile
<1>1. CASE h = None \/ f[h] = NoFile BY <1>1 DEF Release
<1>2. CASE ~(h = None \/ f[h] = NoFile)
  <2>1. h \in Hashes /\ f[h] \in Nat BY <1>2
  <2>2. Release(f, h, ow) =
          [f EXCEPT ![h] = IF f[h] > 1 THEN f[h] - 1
                           ELSE IF \E w \in Owners : ow[w] = h THEN 1 ELSE 0]
    BY <1>2 DEF Release
  <2>3. CASE f[h] > 1 BY <2>1, <2>2, <2>3 DEF NoFile
  <2>4. CASE ~(f[h] > 1) /\ \E w \in Owners : ow[w] = h
    BY <2>1, <2>2, <2>4 DEF NoFile
  <2>5. CASE ~(f[h] > 1) /\ ~\E w \in Owners : ow[w] = h
    BY <2>1, <2>2, <2>5 DEF NoFile
  <2> QED BY <2>3, <2>4, <2>5
<1> QED BY <1>1, <1>2

LEMMA ReleaseSnapshotCount ==
  ASSUME NEW f \in [Hashes -> Nat \cup {NoFile}], NEW h \in Hashes \cup {None}
  PROVE  /\ ReleaseSnapshot(f, h) \in [Hashes -> Nat \cup {NoFile}]
         /\ \A g \in Hashes :
              /\ ReleaseSnapshot(f, h)[g] > 0 => f[g] > 0
              /\ f[g] # NoFile => ReleaseSnapshot(f, h)[g] # NoFile
BY DEF ReleaseSnapshot, NoFile

LEMMA Consumed ==
  ASSUME stage \in [Ops -> Stage], NEW o \in Ops, NEW w \in Owners, Consume(o, w)
  PROVE  /\ stage' \in [Ops -> Stage]
         /\ stage'[o].state = "Published"
         /\ \A q \in Ops : q # o => stage'[q] = stage[q]
<1>1. stage[o] \in Stage OBVIOUS
<1>2. [stage[o] EXCEPT !.state = "Published", !.live = TRUE, !.scope = w] \in Stage
  BY <1>1 DEF Stage
<1>3. [stage[o] EXCEPT !.state = "Published", !.live = TRUE, !.scope = w].state = "Published"
  BY <1>1 DEF Stage
<1> QED BY <1>2, <1>3 DEF Consume

LEMMA MarkFailedTyped ==
  ASSUME Typed, NEW o \in Ops, MarkFailed(o)
  PROVE  stage' \in [Ops -> Stage]
BY StageTyped DEF Typed, TypeOK, MarkFailed

LEMMA GiveUpTyped ==
  ASSUME Typed, NEW k \in {"store", "delete"}, NEW h \in Hashes, GiveUp(k, h)
  PROVE  disk' \in SUBSET Hashes /\ late' \in SUBSET ({"store", "delete"} \X Hashes)
BY DEF Typed, TypeOK, GiveUp

LEMMA InitTyped == Init => Typed
<1> SUFFICES ASSUME Init PROVE Typed OBVIOUS
<1>1. proc \in [Procs -> Proc] BY IdleTyped DEF Init
<1>2. TypeOK BY <1>1, StageTyped DEF Init, TypeOK, NoFile, NoDeletion, Deletion
<1>3. \A p \in Procs : WellFormed(p) BY IdleTyped DEF Init, WellFormed
<1> QED BY <1>2, <1>3 DEF Typed

LEMMA StageBlobTyped ==
  ASSUME Typed, NEW c \in Clients, NEW o \in Ops, StageBlob(c, o)
  PROVE  Typed'
<1>1. c \in Procs /\ Content[o] \in Hashes BY BlobRefsAssumption DEF Procs
<1>2. tries' \in [Ops -> Nat] BY DEF Typed, TypeOK, StageBlob
<1>3. UNCHANGED <<file, del, owner, disk, late, faults>> BY DEF StageBlob
<1>4. CASE ClaimStage(c, o)
  <2>4. revived' \in SUBSET Hashes BY <1>4 DEF Typed, TypeOK, ClaimStage
  <2>1. stage' \in [Ops -> Stage] BY <1>4, StageTyped DEF Typed, TypeOK, ClaimStage
  <2>2. "store" \in Pcs BY DEF Pcs
  <2>3. proc' \in [Procs -> Proc] /\ \A q \in Procs : WellFormed(q)'
    BY <1>1, <1>4, <2>2, AtTyped, GotoTyped DEF ClaimStage
  <2> QED BY <1>2, <1>3, <2>1, <2>3, <2>4 DEF Typed, TypeOK
<1>5. CASE RecoverStage(c, o)
  <2>4. revived' \in SUBSET Hashes BY <1>1, <1>5 DEF Typed, TypeOK, RecoverStage
  <2>1. stage' \in [Ops -> Stage]
    <3>1. stage \in [Ops -> Stage] /\ stage[o] \in Stage BY DEF Typed, TypeOK
    <3>2. [stage[o] EXCEPT !.live = TRUE] \in Stage BY <3>1 DEF Stage
    <3>3. stage' = [stage EXCEPT ![o] = [stage[o] EXCEPT !.live = TRUE]]
      BY <1>5 DEF RecoverStage
    <3> QED BY <3>1, <3>2, <3>3
  <2>2. "staged" \in Pcs BY DEF Pcs
  <2>3. proc' \in [Procs -> Proc] /\ \A q \in Procs : WellFormed(q)'
    BY <1>1, <1>5, <2>2, AtTyped, GotoTyped DEF RecoverStage
  <2> QED BY <1>2, <1>3, <2>1, <2>3, <2>4 DEF Typed, TypeOK
<1> QED BY <1>4, <1>5 DEF StageBlob

LEMMA StoreTyped ==
  ASSUME Typed, NEW c \in Clients, StoreBytes(c) \/ StoreFails(c)
  PROVE  Typed'
<1>1. c \in Procs BY DEF Procs
<1>2. proc[c].op \in Ops /\ proc[c].h = Content[proc[c].op] /\ proc[c].h \in Hashes
  BY <1>1, BlobRefsAssumption DEF Typed, WellFormed, StoreBytes, StoreFails
<1>3. CASE StoreBytes(c)
  <2>1. "ready" \in Pcs BY DEF Pcs
  <2>2. proc' \in [Procs -> Proc] /\ \A q \in Procs : WellFormed(q)'
    BY <1>1, <1>2, <1>3, <2>1, AtTyped, GotoTyped DEF StoreBytes
  <2>3. revived' \in SUBSET Hashes BY <1>3 DEF Typed, TypeOK, StoreBytes
  <2> QED BY <1>2, <1>3, <2>2, <2>3 DEF Typed, TypeOK, StoreBytes, rows
<1>4. CASE StoreFails(c)
  <2>1. proc' \in [Procs -> Proc] /\ \A q \in Procs : WellFormed(q)'
    BY <1>1, <1>4, ToIdle DEF StoreFails
  <2>2. stage' \in [Ops -> Stage] BY <1>2, <1>4, MarkFailedTyped DEF StoreFails
  <2>3. disk' \in SUBSET Hashes /\ late' \in SUBSET ({"store", "delete"} \X Hashes)
    BY <1>2, <1>4, GiveUpTyped DEF StoreFails
  <2>4. faults' \in Nat BY <1>4 DEF Typed, TypeOK, StoreFails, Fault
  <2> QED BY <1>4, <2>1, <2>2, <2>3, <2>4 DEF Typed, TypeOK, StoreFails
<1> QED BY <1>3, <1>4

LEMMA MakeReadyTyped ==
  ASSUME Typed, NEW c \in Clients, MakeReady(c)
  PROVE  Typed'
<1> DEFINE o == proc[c].op  h == proc[c].h
<1>1. c \in Procs BY DEF Procs
<1>2. o \in Ops /\ h = Content[o] /\ h \in Hashes
  BY <1>1, BlobRefsAssumption DEF Typed, WellFormed, MakeReady
<1>3. UNCHANGED <<del, owner, disk, late, revived, tries, faults>> BY DEF MakeReady
<1>4. CASE ~Deleting(h) /\ stage[o].state = "Storing"
  <2>1. stage[o] \in Stage BY <1>2 DEF Typed, TypeOK
  <2>2. [stage[o] EXCEPT !.state = "Ready", !.live = TRUE] \in Stage BY <2>1 DEF Stage
  <2>3. /\ stage' = [stage EXCEPT ![o] = [stage[o] EXCEPT !.state = "Ready", !.live = TRUE]]
        /\ file' = [file EXCEPT ![h] = IF file[h] = NoFile THEN 0 ELSE file[h]]
        /\ Goto(c, At("staged", o, h))
    BY <1>4 DEF MakeReady
  <2>4. stage' \in [Ops -> Stage] BY <2>2, <2>3 DEF Typed, TypeOK
  <2>5. file' \in [Hashes -> Nat \cup {NoFile}] BY <1>2, <2>3 DEF Typed, TypeOK
  <2>6. "staged" \in Pcs BY DEF Pcs
  <2>7. proc' \in [Procs -> Proc] /\ \A q \in Procs : WellFormed(q)'
    BY <1>1, <1>2, <2>3, <2>6, AtTyped, GotoTyped
  <2> QED BY <1>3, <2>4, <2>5, <2>7 DEF Typed, TypeOK
<1>5. CASE ~(~Deleting(h) /\ stage[o].state = "Storing")
  <2>1. Goto(c, Idle) /\ UNCHANGED file /\ (MarkFailed(o) \/ UNCHANGED stage)
    BY <1>5 DEF MakeReady
  <2>2. stage' \in [Ops -> Stage] BY <1>2, <2>1, MarkFailedTyped DEF Typed, TypeOK
  <2> QED BY <1>1, <1>3, <2>1, <2>2, ToIdle DEF Typed, TypeOK
<1> QED BY <1>4, <1>5

\* A publication consumes a usable stage; only its content gains a reference.
LEMMA Published ==
  ASSUME Typed, NEW o \in Ops, NEW w \in Owners, Swap(o, w) \/ SwapSnapshot(o, w)
  PROVE  /\ stage[o].state = "Ready" /\ stage[o].live
         /\ stage' \in [Ops -> Stage] /\ stage'[o].state = "Published"
         /\ \A q \in Ops : q # o => stage'[q] = stage[q]
         /\ owner' \in [Owners -> Hashes \cup {None}]
         /\ file' \in [Hashes -> Nat \cup {NoFile}]
         /\ \A g \in Hashes : file'[g] > 0 \/ Owned(g)' =>
              file[g] > 0 \/ Owned(g) \/ g = Content[o]
         /\ \A g \in Hashes : file[g] # NoFile => file'[g] # NoFile
<1> DEFINE h == Content[o]  old == owner[w]
<1>1. h \in Hashes /\ old \in Hashes \cup {None}
  BY BlobRefsAssumption DEF Typed, TypeOK
<1>2. /\ stage[o].state = "Ready" /\ stage[o].live
      /\ Consume(o, w) /\ owner' = [owner EXCEPT ![w] = h]
  BY DEF Swap, SwapSnapshot
<1>3. /\ stage' \in [Ops -> Stage] /\ stage'[o].state = "Published"
      /\ \A q \in Ops : q # o => stage'[q] = stage[q]
  BY <1>2, Consumed DEF Typed, TypeOK
<1>4. /\ owner' \in [Owners -> Hashes \cup {None}]
      /\ \A g \in Hashes : Owned(g)' => Owned(g) \/ g = h
  BY <1>1, <1>2 DEF Typed, TypeOK, Owned
<1>5. file \in [Hashes -> Nat \cup {NoFile}] BY DEF Typed, TypeOK
<1>6. CASE Swap(o, w)
  <2> DEFINE mid == Acquire(file, h)
  <2>1. file' = Release(mid, old, owner') BY <1>6 DEF Swap
  <2>2. /\ mid \in [Hashes -> Nat \cup {NoFile}] /\ mid[h] # NoFile
        /\ \A g \in Hashes : g # h => mid[g] = file[g]
    BY <1>1, <1>5, AcquireCount
  <2>3. /\ file' \in [Hashes -> Nat \cup {NoFile}]
        /\ \A g \in Hashes :
             /\ file'[g] > 0 => mid[g] > 0 \/ Owned(g)'
             /\ mid[g] # NoFile => file'[g] # NoFile
    <3> HIDE DEF mid
    <3> QED BY <1>1, <2>1, <2>2, ReleaseCount DEF Owned
  <2> HIDE DEF mid
  <2> QED BY <1>2, <1>3, <1>4, <2>2, <2>3
<1>7. CASE SwapSnapshot(o, w)
  <2> DEFINE mid == ReleaseSnapshot(file, old)
  <2>1. file' = Acquire(mid, h) BY <1>7 DEF SwapSnapshot
  <2>2. /\ mid \in [Hashes -> Nat \cup {NoFile}]
        /\ \A g \in Hashes : (mid[g] > 0 => file[g] > 0) /\ (file[g] # NoFile => mid[g] # NoFile)
    BY <1>1, <1>5, ReleaseSnapshotCount
  <2>3. /\ file' \in [Hashes -> Nat \cup {NoFile}] /\ file'[h] # NoFile
        /\ \A g \in Hashes : g # h => file'[g] = mid[g]
    <3> HIDE DEF mid
    <3> QED BY <1>1, <2>1, <2>2, AcquireCount
  <2> HIDE DEF mid
  <2> QED BY <1>2, <1>3, <1>4, <2>2, <2>3
<1> QED BY <1>6, <1>7

LEMMA PublishTyped ==
  ASSUME Typed, NEW c \in Clients, Publish(c)
  PROVE  Typed'
<1> DEFINE o == proc[c].op  h == proc[c].h
<1>1. c \in Procs BY DEF Procs
<1>2. o \in Ops /\ h = Content[o] /\ h \in Hashes
  BY <1>1, BlobRefsAssumption DEF Typed, WellFormed, Publish
<1>3. PICK w \in Slots[o] : PublishHeld(c, w) \/ PublishSwap(c, w) \/ PublishSnapshot(c, w)
  BY DEF Publish
<1>4. w \in Owners /\ owner[w] \in Hashes \cup {None}
  BY <1>2, BlobRefsAssumption DEF Typed, TypeOK
<1>5. UNCHANGED <<del, disk, late, revived, tries, faults>> BY DEF Publish
<1>6. CASE PublishHeld(c, w)
  <2>1. stage' \in [Ops -> Stage]
    BY <1>2, <1>4, <1>6, Consumed DEF PublishHeld, Typed, TypeOK
  <2>2. proc' \in [Procs -> Proc] /\ \A q \in Procs : WellFormed(q)'
    BY <1>1, <1>6, ToIdle DEF PublishHeld
  <2> QED BY <1>5, <1>6, <2>1, <2>2 DEF PublishHeld, Typed, TypeOK
<1>7. CASE PublishSwap(c, w) \/ PublishSnapshot(c, w)
  <2>1. Swap(o, w) \/ SwapSnapshot(o, w) BY <1>7 DEF PublishSwap, PublishSnapshot
  <2>2. ThenPurge(c, None) \/ ThenPurge(c, owner[w])
    BY <1>7 DEF PublishSwap, PublishSnapshot
  <2>3. proc' \in [Procs -> Proc] /\ \A q \in Procs : WellFormed(q)'
    BY <1>1, <1>4, <2>2, ToPurge
  <2>4. /\ stage' \in [Ops -> Stage] /\ owner' \in [Owners -> Hashes \cup {None}]
        /\ file' \in [Hashes -> Nat \cup {NoFile}]
    BY <1>2, <1>4, <2>1, Published
  <2> QED BY <1>5, <2>3, <2>4 DEF Typed, TypeOK
<1> QED BY <1>3, <1>6, <1>7

LEMMA PublishUnknownTyped ==
  ASSUME Typed, NEW c \in Clients, PublishUnknown(c)
  PROVE  Typed'
<1> DEFINE o == proc[c].op
<1>1. c \in Procs /\ proc[c] \in Proc /\ "discard" \in Pcs BY DEF Procs, Typed, TypeOK, Pcs
<1>2. o \in Ops /\ proc[c].h = Content[o]
  BY <1>1 DEF Typed, WellFormed, PublishUnknown
<1>3. PICK w \in Slots[o] : Swap(o, w) \/ SwapSnapshot(o, w) BY DEF PublishUnknown
<1>4. w \in Owners BY <1>2, BlobRefsAssumption
<1>5. /\ stage' \in [Ops -> Stage] /\ owner' \in [Owners -> Hashes \cup {None}]
      /\ file' \in [Hashes -> Nat \cup {NoFile}]
  BY <1>2, <1>3, <1>4, Published
<1>6. proc' \in [Procs -> Proc] /\ \A q \in Procs : WellFormed(q)'
  BY <1>1, <1>2, MoveTyped, GotoTyped DEF PublishUnknown
<1>7. faults' \in Nat /\ UNCHANGED <<del, disk, late, revived, tries>>
  BY DEF Typed, TypeOK, PublishUnknown, Fault
<1> QED BY <1>5, <1>6, <1>7 DEF Typed, TypeOK

LEMMA RefuseTyped ==
  ASSUME Typed, NEW c \in Clients, Refuse(c)
  PROVE  Typed'
<1>1. c \in Procs /\ proc[c] \in Proc /\ "discard" \in Pcs BY DEF Procs, Typed, TypeOK, Pcs
<1>2. proc[c].op \in Ops /\ proc[c].h = Content[proc[c].op]
  BY <1>1 DEF Typed, WellFormed, Refuse
<1>3. Goto(c, [proc[c] EXCEPT !.pc = "discard"]) \/ Goto(c, Idle) BY DEF Refuse
<1>4. proc' \in [Procs -> Proc] /\ \A q \in Procs : WellFormed(q)'
  <2>1. CASE Goto(c, Idle) BY <1>1, <2>1, ToIdle
  <2>2. CASE Goto(c, [proc[c] EXCEPT !.pc = "discard"])
    <3> DEFINE r == [proc[c] EXCEPT !.pc = "discard"]
    <3>1. r \in Proc /\ r.pc = "discard" /\ r.op = proc[c].op /\ r.h = proc[c].h
      BY <1>1, MoveTyped
    <3>2. Goto(c, r) BY <2>2
    <3> HIDE DEF r
    <3> QED BY <1>1, <1>2, <3>1, <3>2, GotoTyped
  <2> QED BY <1>3, <2>1, <2>2
<1> QED BY <1>4 DEF Typed, TypeOK, Refuse, rows

\* An owner or a reference goes: nothing gains one.
LEMMA Released ==
  ASSUME Typed, (\E p \in Procs, w \in Owners : Detach(p, w))
                \/ (\E c \in Clients, h \in Hashes : DeleteAsset(c, h))
  PROVE  /\ owner' \in [Owners -> Hashes \cup {None}]
         /\ file' \in [Hashes -> Nat \cup {NoFile}]
         /\ \A g \in Hashes : file'[g] > 0 \/ Owned(g)' => file[g] > 0 \/ Owned(g)
         /\ \A g \in Hashes : file[g] # NoFile => file'[g] # NoFile
         /\ \E p \in Procs, h \in Hashes \cup {None} : ThenPurge(p, h)
<1>1. file \in [Hashes -> Nat \cup {NoFile}] /\ owner \in [Owners -> Hashes \cup {None}]
  BY DEF Typed, TypeOK
<1>2. ASSUME NEW p \in Procs, NEW w \in Owners, Detach(p, w)
      PROVE  /\ owner' \in [Owners -> Hashes \cup {None}]
             /\ file' \in [Hashes -> Nat \cup {NoFile}]
             /\ \A g \in Hashes : file'[g] > 0 \/ Owned(g)' => file[g] > 0 \/ Owned(g)
             /\ \A g \in Hashes : file[g] # NoFile => file'[g] # NoFile
             /\ \E q \in Procs, h \in Hashes \cup {None} : ThenPurge(q, h)
  <2>1. owner[w] \in Hashes \cup {None} BY <1>1
  <2>2. owner' = [owner EXCEPT ![w] = None] /\ ThenPurge(p, owner[w]) BY <1>2 DEF Detach
  <2>3. /\ owner' \in [Owners -> Hashes \cup {None}]
        /\ \A g \in Hashes : Owned(g)' => Owned(g)
    BY <1>1, <2>2, BlobRefsAssumption DEF Owned
  <2>4. file' = ReleaseSnapshot(file, owner[w]) \/ file' = Release(file, owner[w], owner')
    BY <1>2 DEF Detach
  <2>5. /\ file' \in [Hashes -> Nat \cup {NoFile}]
        /\ \A g \in Hashes : /\ file'[g] > 0 => file[g] > 0 \/ Owned(g)'
                             /\ file[g] # NoFile => file'[g] # NoFile
    <3>1. CASE file' = ReleaseSnapshot(file, owner[w])
      BY <1>1, <2>1, <3>1, ReleaseSnapshotCount
    <3>2. CASE file' = Release(file, owner[w], owner')
      BY <1>1, <2>1, <3>2, ReleaseCount DEF Owned
    <3> QED BY <2>4, <3>1, <3>2
  <2> QED BY <2>1, <2>2, <2>3, <2>5
<1>3. ASSUME NEW c \in Clients, NEW h \in Hashes, DeleteAsset(c, h)
      PROVE  /\ owner' \in [Owners -> Hashes \cup {None}]
             /\ file' \in [Hashes -> Nat \cup {NoFile}]
             /\ \A g \in Hashes : file'[g] > 0 \/ Owned(g)' => file[g] > 0 \/ Owned(g)
             /\ \A g \in Hashes : file[g] # NoFile => file'[g] # NoFile
             /\ \E q \in Procs, g \in Hashes \cup {None} : ThenPurge(q, g)
  <2>1. file' = Release(file, h, owner) /\ owner' = owner BY <1>3 DEF DeleteAsset
  <2>2. c \in Procs /\ (ThenPurge(c, h) \/ ThenPurge(c, None))
    BY <1>3 DEF DeleteAsset, Procs
  <2>3. /\ file' \in [Hashes -> Nat \cup {NoFile}]
        /\ \A g \in Hashes : /\ file'[g] > 0 => file[g] > 0 \/ Owned(g)
                             /\ file[g] # NoFile => file'[g] # NoFile
    BY <1>1, <2>1, ReleaseCount DEF Owned
  <2>4. \A g \in Hashes : Owned(g)' => Owned(g) BY <2>1 DEF Owned
  <2> QED BY <1>1, <2>1, <2>2, <2>3, <2>4
<1> QED BY <1>2, <1>3

LEMMA ReleasedTyped ==
  ASSUME Typed, (\E p \in Procs, w \in Owners : Detach(p, w))
                \/ (\E c \in Clients, h \in Hashes : DeleteAsset(c, h))
  PROVE  Typed'
<1>1. /\ owner' \in [Owners -> Hashes \cup {None}]
      /\ file' \in [Hashes -> Nat \cup {NoFile}]
      /\ \E p \in Procs, h \in Hashes \cup {None} : ThenPurge(p, h)
  BY Released
<1>2. proc' \in [Procs -> Proc] /\ \A q \in Procs : WellFormed(q)' BY <1>1, ToPurge
<1>3. UNCHANGED <<stage, del, disk, late, revived, tries>> /\ faults' \in Nat
  BY DEF Typed, TypeOK, Detach, DeleteAsset, Fault
<1> QED BY <1>1, <1>2, <1>3 DEF Typed, TypeOK

LEMMA DeletionTyped ==
  ASSUME NEW d \in Deletion, NEW p \in Procs
  PROVE  /\ NoDeletion \in Deletion
         /\ [state |-> "Deleting", live |-> TRUE, by |-> p] \in Deletion
         /\ [d EXCEPT !.state = "Failed", !.live = FALSE] \in Deletion
         /\ [d EXCEPT !.live = FALSE] \in Deletion
BY DEF NoDeletion, Deletion

LEMMA PurgeTyped ==
  ASSUME Typed, NEW p \in Procs,
         ClaimDeletion(p) \/ PurgeBusy(p) \/ DeleteBytes(p)
  PROVE  Typed'
<1> DEFINE h == proc[p].h
<1>1. h \in Hashes BY DEF Typed, WellFormed, ClaimDeletion, PurgeBusy, DeleteBytes
<1>2. proc[p] \in Proc /\ "delete" \in Pcs /\ "finish" \in Pcs BY DEF Typed, TypeOK, Pcs
<1>3. CASE ClaimDeletion(p)
  <2>1. UNCHANGED <<file, stage, owner, disk, late, revived, tries, faults>> BY <1>3 DEF ClaimDeletion
  <2>2. del' \in [Hashes -> Deletion]
    BY <1>1, <1>3, DeletionTyped DEF Typed, TypeOK, ClaimDeletion
  <2>3. Return(p, "kept") \/ Goto(p, [proc[p] EXCEPT !.pc = "delete"])
    BY <1>3 DEF ClaimDeletion
  <2>4. proc' \in [Procs -> Proc] /\ \A q \in Procs : WellFormed(q)'
    <3>1. CASE Return(p, "kept") BY <1>1, <3>1, ReturnTyped
    <3>2. CASE Goto(p, [proc[p] EXCEPT !.pc = "delete"])
      <4> DEFINE r == [proc[p] EXCEPT !.pc = "delete"]
      <4>1. r \in Proc /\ r.pc = "delete" /\ r.h = h BY <1>2, MoveTyped
      <4>2. Goto(p, r) BY <3>2
      <4> HIDE DEF r
      <4> QED BY <1>1, <4>1, <4>2, GotoTyped
    <3> QED BY <2>3, <3>1, <3>2
  <2> QED BY <2>1, <2>2, <2>4 DEF Typed, TypeOK
<1>4. CASE PurgeBusy(p)
  <2>1. proc' \in [Procs -> Proc] /\ \A q \in Procs : WellFormed(q)'
    BY <1>1, <1>4, ReturnTyped DEF PurgeBusy
  <2> QED BY <1>4, <2>1 DEF Typed, TypeOK, PurgeBusy, rows, Fault
<1>5. CASE DeleteBytes(p)
  <2>1. proc' \in [Procs -> Proc] /\ \A q \in Procs : WellFormed(q)'
    <3> DEFINE r == [proc[p] EXCEPT !.pc = "finish"]
    <3>1. r \in Proc /\ r.pc = "finish" /\ r.h = h BY <1>2, MoveTyped
    <3>2. Goto(p, r) BY <1>5 DEF DeleteBytes
    <3> HIDE DEF r
    <3> QED BY <1>1, <3>1, <3>2, GotoTyped
  <2> QED BY <1>5, <2>1 DEF Typed, TypeOK, DeleteBytes, rows
<1> QED BY <1>3, <1>4, <1>5

LEMMA EndDeletionTyped ==
  ASSUME Typed, NEW p \in Procs, DeleteFails(p) \/ FinishDeletion(p)
  PROVE  Typed'
<1> DEFINE h == proc[p].h
<1>1. h \in Hashes BY DEF Typed, WellFormed, DeleteFails, FinishDeletion
<1>2. del \in [Hashes -> Deletion] /\ del[h] \in Deletion BY <1>1 DEF Typed, TypeOK
<1>3. CASE DeleteFails(p)
  <2>1. del' \in [Hashes -> Deletion] BY <1>1, <1>2, <1>3, DeletionTyped DEF DeleteFails
  <2>2. proc' \in [Procs -> Proc] /\ \A q \in Procs : WellFormed(q)'
    BY <1>1, <1>3, ReturnTyped DEF DeleteFails
  <2>3. disk' \in SUBSET Hashes /\ late' \in SUBSET ({"store", "delete"} \X Hashes)
    BY <1>1, <1>3, GiveUpTyped DEF DeleteFails
  <2> QED BY <1>3, <2>1, <2>2, <2>3 DEF Typed, TypeOK, DeleteFails, Fault
<1>4. CASE FinishDeletion(p)
  <2>1. Return(p, "failed") \/ Return(p, "deleted") BY <1>4 DEF FinishDeletion
  <2>2. proc' \in [Procs -> Proc] /\ \A q \in Procs : WellFormed(q)'
    BY <1>1, <2>1, ReturnTyped
  <2>3. del' = del \/ del' = [del EXCEPT ![h] = NoDeletion] BY <1>4 DEF FinishDeletion
  <2>4. file' = file \/ file' = [file EXCEPT ![h] = NoFile] BY <1>4 DEF FinishDeletion
  <2>5. del' \in [Hashes -> Deletion] BY <1>2, <2>3, DeletionTyped
  <2>6. file' \in [Hashes -> Nat \cup {NoFile}] BY <2>4 DEF Typed, TypeOK
  <2> QED BY <1>4, <2>2, <2>5, <2>6 DEF Typed, TypeOK, FinishDeletion
<1> QED BY <1>3, <1>4

LEMMA CleanupTyped ==
  ASSUME Typed, NEW p \in Procs, NEW o \in Ops, CleanupClaim(p, o)
  PROVE  /\ stage' \in [Ops -> Stage]
         /\ proc' \in [Procs -> Proc] /\ \A q \in Procs : WellFormed(q)'
<1>1. stage' \in [Ops -> Stage] BY StageTyped DEF Typed, TypeOK, CleanupClaim
<1>2. Content[o] \in Hashes /\ "purge" \in Pcs BY BlobRefsAssumption DEF Pcs
<1>3. proc' \in [Procs -> Proc] /\ \A q \in Procs : WellFormed(q)'
  BY <1>2, AtTyped, GotoTyped DEF CleanupClaim
<1> QED BY <1>1, <1>3

LEMMA SweepTyped ==
  ASSUME Typed, (\E c \in Clients : Discard(c)) \/ (\E o \in Ops : SweepStage(o))
  PROVE  Typed'
<1>1. ASSUME NEW c \in Clients, Discard(c) PROVE Typed'
  <2>1. c \in Procs BY DEF Procs
  <2>2. proc[c].op \in Ops BY <1>1, <2>1 DEF Typed, WellFormed, Discard
  <2>3. CASE CleanupClaim(c, proc[c].op)
    BY <1>1, <2>1, <2>2, <2>3, CleanupTyped DEF Typed, TypeOK, Discard
  <2>4. CASE Goto(c, Idle) /\ UNCHANGED stage
    BY <1>1, <2>1, <2>4, ToIdle DEF Typed, TypeOK, Discard
  <2> QED BY <1>1, <2>3, <2>4 DEF Discard
<1>2. ASSUME NEW o \in Ops, SweepStage(o) PROVE Typed'
  <2>1. Cron \in Procs BY DEF Procs
  <2>2. CASE CleanupClaim(Cron, o)
    BY <1>2, <2>1, <2>2, CleanupTyped DEF Typed, TypeOK, SweepStage
  <2>3. CASE stage' = [stage EXCEPT ![o] = NoStage] /\ UNCHANGED proc
    <3>1. stage' \in [Ops -> Stage] BY <2>3, StageTyped DEF Typed, TypeOK
    <3> QED BY <1>2, <2>3, <3>1 DEF Typed, TypeOK, SweepStage, WellFormed
  <2> QED BY <1>2, <2>2, <2>3 DEF SweepStage
<1> QED BY <1>1, <1>2

LEMMA SettleTyped ==
  ASSUME Typed, NEW p \in Procs, Settle(p)
  PROVE  Typed'
<1> DEFINE o == proc[p].op
<1>1. o \in Ops /\ stage[o] \in Stage BY DEF Typed, TypeOK, WellFormed, Settle
<1>2. [stage[o] EXCEPT !.live = TRUE, !.token = None] \in Stage BY <1>1 DEF Stage
<1>3. \/ stage' = stage \/ stage' = [stage EXCEPT ![o] = NoStage]
      \/ stage' = [stage EXCEPT ![o] = [stage[o] EXCEPT !.live = TRUE, !.token = None]]
  BY DEF Settle
<1>4. stage' \in [Ops -> Stage] BY <1>2, <1>3, StageTyped DEF Typed, TypeOK
<1>5. proc' \in [Procs -> Proc] /\ \A q \in Procs : WellFormed(q)' BY ToIdle DEF Settle
<1> QED BY <1>4, <1>5 DEF Typed, TypeOK, Settle

LEMMA PendingTyped ==
  ASSUME Typed, NEW h \in Hashes, PurgePending(h)
  PROVE  Typed'
<1>1. Cron \in Procs /\ "purge" \in Pcs BY DEF Procs, Pcs
<1>2. proc' \in [Procs -> Proc] /\ \A q \in Procs : WellFormed(q)'
  BY <1>1, AtTyped, GotoTyped DEF PurgePending
<1> QED BY <1>2 DEF Typed, TypeOK, PurgePending, rows

LEMMA TimeTyped ==
  ASSUME Typed, \/ \E o \in Ops : ExpireStage(o)
                \/ \E h \in Hashes : ExpireDeletion(h)
                \/ LateCall
  PROVE  Typed'
<1>1. ASSUME NEW o \in Ops, ExpireStage(o) PROVE Typed'
  <2>1. stage' \in [Ops -> Stage]
    <3>1. stage \in [Ops -> Stage] /\ stage[o] \in Stage BY DEF Typed, TypeOK
    <3>2. [stage[o] EXCEPT !.live = FALSE] \in Stage BY <3>1 DEF Stage
    <3>3. stage' = [stage EXCEPT ![o] = [stage[o] EXCEPT !.live = FALSE]]
      BY <1>1 DEF ExpireStage
    <3> QED BY <3>1, <3>2, <3>3
  <2> QED BY <1>1, <2>1 DEF Typed, TypeOK, ExpireStage, WellFormed
<1>2. ASSUME NEW h \in Hashes, ExpireDeletion(h) PROVE Typed'
  <2>1. del' \in [Hashes -> Deletion] BY <1>2 DEF Typed, TypeOK, ExpireDeletion, Deletion
  <2> QED BY <1>2, <2>1 DEF Typed, TypeOK, ExpireDeletion, WellFormed
<1>3. CASE LateCall
  <2>1. PICK k \in late : /\ late' = late \ {k}
                          /\ disk' = IF k[1] = "store" THEN disk \cup {k[2]} ELSE disk \ {k[2]}
    BY <1>3 DEF LateCall
  <2>2. k[2] \in Hashes BY <2>1 DEF Typed, TypeOK
  <2>3. disk' \in SUBSET Hashes /\ late' \in SUBSET ({"store", "delete"} \X Hashes)
    BY <2>1, <2>2 DEF Typed, TypeOK
  <2> QED BY <1>3, <2>3 DEF Typed, TypeOK, LateCall, rows, WellFormed
<1> QED BY <1>1, <1>2, <1>3

LEMMA CrashTyped ==
  ASSUME Typed, NEW p \in Procs, Crash(p)
  PROVE  Typed'
<1>1. proc' \in [Procs -> Proc] /\ \A q \in Procs : WellFormed(q)' BY ToIdle DEF Crash
<1>2. disk' \in SUBSET Hashes /\ late' \in SUBSET ({"store", "delete"} \X Hashes)
  <2>1. CASE proc[p].pc \in {"store", "delete"}
    <3>1. proc[p].h \in Hashes BY <2>1, BlobRefsAssumption DEF Typed, WellFormed
    <3> QED BY <2>1, <3>1, GiveUpTyped DEF Crash
  <2>2. CASE proc[p].pc \notin {"store", "delete"}
    BY <2>2 DEF Crash, Typed, TypeOK
  <2> QED BY <2>1, <2>2
<1> QED BY <1>1, <1>2 DEF Typed, TypeOK, Crash, rows, Fault

LEMMA NextTyped ==
  ASSUME Typed, [Next]_vars
  PROVE  Typed'
<1>1. CASE UNCHANGED vars BY <1>1 DEF vars, rows, Typed, TypeOK, WellFormed
<1>2. ASSUME NEW c \in Clients, Handler(c) PROVE Typed'
  <2>1. CASE StoreBytes(c) \/ StoreFails(c) BY <2>1, StoreTyped
  <2>2. CASE MakeReady(c) BY <2>2, MakeReadyTyped
  <2>3. CASE Publish(c) BY <2>3, PublishTyped
  <2>4. CASE Refuse(c) BY <2>4, RefuseTyped
  <2>5. CASE PublishUnknown(c) BY <2>5, PublishUnknownTyped
  <2>6. CASE Discard(c) BY <2>6, SweepTyped
  <2> QED BY <1>2, <2>1, <2>2, <2>3, <2>4, <2>5, <2>6 DEF Handler
<1>3. ASSUME NEW p \in Procs, Purger(p) PROVE Typed'
  <2>1. CASE ClaimDeletion(p) \/ PurgeBusy(p) \/ DeleteBytes(p) BY <2>1, PurgeTyped
  <2>2. CASE DeleteFails(p) \/ FinishDeletion(p) BY <2>2, EndDeletionTyped
  <2>3. CASE Settle(p) BY <2>3, SettleTyped
  <2> QED BY <1>3, <2>1, <2>2, <2>3 DEF Purger
<1>4. CASE \E c \in Clients, o \in Ops : StageBlob(c, o) BY <1>4, StageBlobTyped
<1>5. CASE \/ \E p \in Procs, w \in Owners : Detach(p, w)
           \/ \E c \in Clients, h \in Hashes : DeleteAsset(c, h)
  BY <1>5, ReleasedTyped
<1>6. CASE \E p \in Procs : Crash(p) BY <1>6, CrashTyped
<1>7. CASE \E o \in Ops : SweepStage(o) BY <1>7, SweepTyped
<1>8. CASE \E h \in Hashes : PurgePending(h) BY <1>8, PendingTyped
<1>9. CASE \/ \E o \in Ops : ExpireStage(o)
           \/ \E h \in Hashes : ExpireDeletion(h)
           \/ LateCall
  BY <1>9, TimeTyped
<1> QED BY <1>1, <1>2, <1>3, <1>4, <1>5, <1>6, <1>7, <1>8, <1>9 DEF Next

\* Every reachable state has the types declared in BlobRefs, whatever outlasts
\* the deadlines: each handler's bookkeeping names an operation and a content
\* that exist (stage_blob, run_stage_cleanup).
THEOREM BlobTypes == Spec => []TypeOK
<1>1. Init => Typed BY InitTyped
<1>2. Typed /\ [Next]_vars => Typed' BY NextTyped
<1>3. Typed => TypeOK BY DEF Typed
<1> QED BY <1>1, <1>2, <1>3, PTL DEF Spec

(***************************************************************************)
(* Leases and bytes.                                                       *)
(***************************************************************************)
StageKept(o) == stage'[o].state = stage[o].state /\ stage'[o].live = stage[o].live
Usable(o) == stage[o].live /\ stage[o].state \in {"Storing", "Ready"}

\* A step after which nobody holds a lease that was not held before, and which
\* takes neither a lease nor bytes from those that need them.
Quiet ==
  /\ \A q \in Procs : proc'[q] = proc[q] \/ (~Storing(q)' /\ ~Removing(q)')
  /\ \A o \in Ops : \/ StageKept(o)
                    \/ /\ ~Usable(o)'
                       /\ \A q \in Procs : Storing(q)' => proc'[q].op # o
  /\ \A h \in Hashes : \/ del'[h] = del[h]
                       \/ \A q \in Procs : Removing(q)' => proc'[q].h # h
  /\ \A h \in Hashes : file'[h] > 0 \/ Owned(h)' =>
       \/ file[h] > 0 \/ Owned(h)
       \/ \E o \in Ops : Content[o] = h /\ stage[o].state = "Ready" /\ stage[o].live
  /\ \A h \in Hashes : Referenced(h) /\ h \in disk => h \in disk'
  /\ late' = {} /\ revived' = revived

LEMMA QuietSafe ==
  ASSUME Safe, Typed', Quiet
  PROVE  Safe'
<1>1. \A p \in Procs : Storing(p)' =>
        /\ proc'[p] = proc[p] /\ Storing(p)
        /\ proc[p].op \in Ops /\ proc[p].h = Content[proc[p].op] /\ proc[p].h \in Hashes
  BY BlobRefsAssumption DEF Quiet, Storing, Safe, Typed, WellFormed
<1>2. \A p \in Procs : Removing(p)' =>
        proc'[p] = proc[p] /\ Removing(p) /\ proc[p].h \in Hashes
  BY DEF Quiet, Removing, Safe, Typed, WellFormed
<1>3. \A o \in Ops : Usable(o)' => Usable(o) /\ StageKept(o)
  BY DEF Quiet, StageKept, Usable
<1>4. \A o \in Ops : Usable(o) => Referenced(Content[o])
  BY DEF Usable, Referenced, StageHolds
<1>5. StorerHoldsStage'
  <2>1. ASSUME NEW p \in Procs, Storing(p)'
        PROVE  /\ stage'[proc'[p].op].state = "Storing" /\ stage'[proc'[p].op].live
               /\ proc'[p].pc = "ready" => proc'[p].h \in disk'
    <3>1. /\ stage[proc[p].op].state = "Storing" /\ stage[proc[p].op].live
          /\ proc[p].pc = "ready" => proc[p].h \in disk
      BY <1>1, <2>1 DEF Safe, StorerHoldsStage
    <3>2. StageKept(proc[p].op) BY <1>1, <2>1 DEF Quiet
    <3>3. Referenced(proc[p].h) BY <1>1, <1>4, <2>1, <3>1 DEF Usable
    <3> QED BY <1>1, <2>1, <3>1, <3>2, <3>3 DEF Quiet, StageKept
  <2>2. ASSUME NEW p \in Procs, NEW q \in Procs, Storing(p)', Storing(q)',
               proc'[p].op = proc'[q].op
        PROVE  p = q
    BY <1>1, <2>2 DEF Safe, StorerHoldsStage
  <2> QED BY <2>1, <2>2 DEF StorerHoldsStage
<1>6. RemoverHoldsDeletion'
  <2> SUFFICES ASSUME NEW p \in Procs, Removing(p)',
                      NEW h \in Hashes, h = proc[p].h, h = proc'[p].h
               PROVE  Deleting(h)' /\ del'[h].by = p /\ ~Referenced(h)'
    BY <1>2 DEF RemoverHoldsDeletion, Deleting, Referenced, Owned, StageHolds
  <2>1. proc'[p] = proc[p] /\ Deleting(h) /\ del[h].by = p /\ ~Referenced(h)
    BY <1>2 DEF Safe, RemoverHoldsDeletion
  <2>2. del'[h] = del[h] BY <2>1 DEF Quiet
  <2>3. ~(file'[h] > 0 \/ Owned(h)') BY <2>1 DEF Quiet, Referenced, StageHolds
  <2>4. ~StageHolds(h)'
    BY <1>3, <1>4, <2>1 DEF StageHolds, Usable
  <2>5. Deleting(h)' BY <2>1, <2>2 DEF Deleting
  <2>6. ~Referenced(h)' BY <2>3, <2>4 DEF Referenced
  <2> QED BY <2>1, <2>2, <2>5, <2>6
<1>7. HeldBytesExist'
  <2> SUFFICES ASSUME NEW h \in Hashes, file'[h] > 0 \/ Owned(h)'
               PROVE  h \in disk' \cup revived'
    BY DEF HeldBytesExist
  <2>1. \/ file[h] > 0 \/ Owned(h)
        \/ \E o \in Ops : Content[o] = h /\ stage[o].state = "Ready" /\ stage[o].live
    BY DEF Quiet
  <2>2. h \in disk \cup revived BY <2>1 DEF Safe, HeldBytesExist, UsableStageHasBytes
  <2>3. Referenced(h) BY <2>1 DEF Referenced, StageHolds
  <2> QED BY <2>2, <2>3 DEF Quiet
<1>8. UsableStageHasBytes'
  <2> SUFFICES ASSUME NEW o \in Ops, stage'[o].state = "Ready", stage'[o].live
               PROVE  Content[o] \in disk' \cup revived'
    BY DEF UsableStageHasBytes
  <2>1. Usable(o) /\ StageKept(o) BY <1>3 DEF Usable
  <2>2. Content[o] \in disk \cup revived
    BY <2>1 DEF StageKept, Safe, UsableStageHasBytes
  <2>3. Content[o] \in Hashes /\ Referenced(Content[o]) BY <1>4, <2>1, BlobRefsAssumption
  <2> QED BY <2>2, <2>3 DEF Quiet
<1>9. late' = {} BY DEF Quiet
<1> QED BY <1>5, <1>6, <1>7, <1>8, <1>9 DEF Safe

\* After the step p holds no lease, and nobody else moved.
Resting(p) ==
  /\ \A q \in Procs : q # p => proc'[q] = proc[q]
  /\ proc'[p].pc \notin {"store", "ready", "delete", "finish"}

LEMMA GotoRests ==
  ASSUME Typed, NEW p \in Procs, NEW r \in Proc, Goto(p, r),
         r.pc \notin {"store", "ready", "delete", "finish"}
  PROVE  Resting(p)
BY DEF Typed, TypeOK, Goto, Resting, Storing, Removing

LEMMA IdleRests ==
  ASSUME Typed, NEW p \in Procs, Goto(p, Idle)
  PROVE  Resting(p)
BY IdleTyped, GotoRests

LEMMA PurgeRests ==
  ASSUME Typed, NEW p \in Procs, NEW h \in Hashes \cup {None}, ThenPurge(p, h)
  PROVE  Resting(p)
<1>1. "purge" \in Pcs BY DEF Pcs
<1>2. CASE h = None BY <1>2, IdleRests DEF ThenPurge
<1>3. CASE h # None BY <1>1, <1>3, AtTyped, GotoRests DEF ThenPurge
<1> QED BY <1>2, <1>3

LEMMA ReturnRests ==
  ASSUME Typed, NEW p \in Procs, NEW result \in {"deleted", "kept", "failed"},
         Return(p, result)
  PROVE  Resting(p)
<1>1. CASE proc[p].op = None BY <1>1, IdleRests DEF Return
<1>2. CASE proc[p].op # None
  <2> DEFINE r == [proc[p] EXCEPT !.pc = result]
  <2>1. proc[p] \in Proc /\ result \in Pcs BY DEF Typed, TypeOK, Pcs
  <2>2. r \in Proc /\ r.pc = result BY <2>1, MoveTyped
  <2>3. Goto(p, r) BY <1>2 DEF Return
  <2> HIDE DEF r
  <2> QED BY <2>2, <2>3, GotoRests
<1> QED BY <1>1, <1>2

LEMMA RestingEach ==
  ASSUME NEW p \in Procs, Resting(p)
  PROVE  \A q \in Procs : proc'[q] = proc[q] \/ (~Storing(q)' /\ ~Removing(q)')
<1> TAKE q \in Procs
<1>1. CASE q = p
  <2>1. proc'[q].pc \notin {"store", "ready", "delete", "finish"} BY <1>1 DEF Resting
  <2> QED BY <2>1 DEF Storing, Removing
<1>2. CASE q # p BY <1>2 DEF Resting
<1> QED BY <1>1, <1>2

\* How steps that take and give no reference are seen to be quiet.
LEMMA RestIsQuiet ==
  ASSUME NEW p \in Procs, Resting(p), file' = file, owner' = owner,
         late' = {}, revived' = revived,
         \A x \in Ops : \/ StageKept(x)
                        \/ /\ ~Usable(x)'
                           /\ \A q \in Procs : Storing(q)' => proc'[q].op # x,
         \A h \in Hashes : \/ del'[h] = del[h]
                           \/ \A q \in Procs : Removing(q)' => proc'[q].h # h,
         \A h \in Hashes : Referenced(h) /\ h \in disk => h \in disk'
  PROVE  Quiet
<1>1. \A q \in Procs : proc'[q] = proc[q] \/ (~Storing(q)' /\ ~Removing(q)')
  BY RestingEach
<1>2. \A h \in Hashes : file'[h] > 0 \/ Owned(h)' =>
        \/ file[h] > 0 \/ Owned(h)
        \/ \E o \in Ops : Content[o] = h /\ stage[o].state = "Ready" /\ stage[o].live
  BY DEF Owned
<1> QED BY <1>1, <1>2 DEF Quiet

LEMMA IdleStepIsQuiet ==
  ASSUME Safe, NEW p \in Procs, Resting(p), UNCHANGED <<rows, disk, late, revived>>
  PROVE  Quiet
<1>1. /\ file' = file /\ owner' = owner /\ stage' = stage /\ del' = del
      /\ disk' = disk /\ late' = {} /\ revived' = revived
  BY DEF rows, Safe
<1>2. \A x \in Ops : StageKept(x) BY <1>1 DEF StageKept
<1> QED BY <1>1, <1>2, RestIsQuiet

\* A call that was given up does nothing later, where Slow = {}.
LEMMA GivenUp ==
  ASSUME Slow = {}, late = {}, NEW k, NEW h, GiveUp(k, h)
  PROVE  /\ late' = {}
         /\ \A g : g \in disk /\ g # h => g \in disk'
         /\ k = "store" => \A g : g \in disk => g \in disk'
BY DEF GiveUp

\* mark_failed by the only storer of a stage.
LEMMA MarkFailedQuiet ==
  ASSUME Safe, NEW c \in Procs, NEW o \in Ops, o = proc[c].op, Storing(c),
         MarkFailed(o), Resting(c)
  PROVE  \A x \in Ops : \/ StageKept(x)
                        \/ /\ ~Usable(x)'
                           /\ \A q \in Procs : Storing(q)' => proc'[q].op # x
<1>1. stage \in [Ops -> Stage] BY DEF Safe, Typed, TypeOK
<1>2. \A x \in Ops : x # o => StageKept(x) BY <1>1 DEF MarkFailed, StageKept
<1>3. CASE stage[o].state # "Storing" BY <1>1, <1>2, <1>3 DEF MarkFailed, StageKept
<1>4. CASE stage[o].state = "Storing"
  <2>1. stage'[o] = [NoStage EXCEPT !.state = "Failed"] BY <1>1, <1>4 DEF MarkFailed
  <2>2. ~Usable(o)' BY <2>1 DEF Usable, NoStage
  <2>3. \A q \in Procs : Storing(q)' => proc'[q].op # o
    BY DEF Resting, Storing, Safe, StorerHoldsStage
  <2> QED BY <1>2, <2>2, <2>3
<1> QED BY <1>3, <1>4

LEMMA StoreFailsSafe ==
  ASSUME Slow = {}, Safe, NEW c \in Clients, StoreFails(c)
  PROVE  Safe'
<1>1. c \in Procs /\ Typed BY DEF Procs, Safe
<1>2. Typed' BY <1>1, StoreTyped
<1>3. Resting(c) BY <1>1, IdleRests DEF StoreFails
<1>4. Storing(c) /\ proc[c].op \in Ops
  BY <1>1 DEF StoreFails, Storing, Typed, WellFormed
<1>5. \A x \in Ops : \/ StageKept(x)
                     \/ /\ ~Usable(x)'
                        /\ \A q \in Procs : Storing(q)' => proc'[q].op # x
  BY <1>1, <1>3, <1>4, MarkFailedQuiet DEF StoreFails
<1>6. late' = {} /\ \A g : g \in disk => g \in disk'
  BY GivenUp DEF StoreFails, Safe
<1>7. UNCHANGED <<file, owner, del, revived>> BY DEF StoreFails
<1>8. Quiet BY <1>1, <1>3, <1>5, <1>6, <1>7, RestIsQuiet
<1> QED BY <1>2, <1>8, QuietSafe

LEMMA RefuseSafe ==
  ASSUME Safe, NEW c \in Clients, Refuse(c)
  PROVE  Safe'
<1>1. c \in Procs /\ Typed /\ proc[c] \in Proc /\ "discard" \in Pcs
  BY DEF Procs, Safe, Typed, TypeOK, Pcs
<1>2. Typed' BY <1>1, RefuseTyped
<1>3. Resting(c)
  <2>1. CASE Goto(c, Idle) BY <1>1, <2>1, IdleRests
  <2>2. CASE Goto(c, [proc[c] EXCEPT !.pc = "discard"])
    <3> DEFINE r == [proc[c] EXCEPT !.pc = "discard"]
    <3>1. r \in Proc /\ r.pc = "discard" BY <1>1, MoveTyped
    <3>2. Goto(c, r) BY <2>2
    <3> HIDE DEF r
    <3> QED BY <1>1, <3>1, <3>2, GotoRests
  <2> QED BY <2>1, <2>2 DEF Refuse
<1>4. UNCHANGED <<rows, disk, late, revived>> BY DEF Refuse
<1>5. Quiet BY <1>1, <1>3, <1>4, IdleStepIsQuiet
<1> QED BY <1>2, <1>5, QuietSafe

LEMMA PurgeBusySafe ==
  ASSUME Safe, NEW p \in Procs, PurgeBusy(p)
  PROVE  Safe'
<1>1. Typed BY DEF Safe
<1>2. Typed' BY <1>1, PurgeTyped
<1>3. Resting(p) BY <1>1, ReturnRests DEF PurgeBusy
<1>4. UNCHANGED <<rows, disk, late, revived>> BY DEF PurgeBusy
<1>5. Quiet BY <1>1, <1>3, <1>4, IdleStepIsQuiet
<1> QED BY <1>2, <1>5, QuietSafe

LEMMA PendingSafe ==
  ASSUME Safe, NEW h \in Hashes, PurgePending(h)
  PROVE  Safe'
<1>1. Typed /\ Cron \in Procs /\ "purge" \in Pcs BY DEF Safe, Procs, Pcs
<1>2. Typed' BY <1>1, PendingTyped
<1>3. Resting(Cron) BY <1>1, AtTyped, GotoRests DEF PurgePending
<1>4. UNCHANGED <<rows, disk, late, revived>> BY DEF PurgePending
<1>5. Quiet BY <1>1, <1>3, <1>4, IdleStepIsQuiet
<1> QED BY <1>2, <1>5, QuietSafe

LEMMA CrashSafe ==
  ASSUME Slow = {}, Safe, NEW p \in Procs, Crash(p)
  PROVE  Safe'
<1>1. Typed BY DEF Safe
<1>2. Typed' BY <1>1, CrashTyped
<1>3. Resting(p) BY <1>1, IdleRests DEF Crash
<1>4. UNCHANGED <<rows, revived>> BY DEF Crash
<1>5. late' = {} /\ \A g \in Hashes : Referenced(g) /\ g \in disk => g \in disk'
  <2>1. CASE proc[p].pc = "store"
    <3>1. GiveUp("store", proc[p].h) BY <2>1 DEF Crash
    <3> QED BY <3>1, GivenUp DEF Safe
  <2>2. CASE proc[p].pc = "delete"
    <3>1. GiveUp("delete", proc[p].h) BY <2>2 DEF Crash
    <3>2. ~Referenced(proc[p].h) BY <2>2 DEF Safe, RemoverHoldsDeletion, Removing
    <3> QED BY <3>1, <3>2, GivenUp DEF Safe
  <2>3. CASE proc[p].pc \notin {"store", "delete"} BY <2>3 DEF Crash, Safe
  <2> QED BY <2>1, <2>2, <2>3
<1>6. \A x \in Ops : StageKept(x) BY <1>4 DEF rows, StageKept
<1>7. Quiet BY <1>3, <1>4, <1>5, <1>6, RestIsQuiet DEF rows
<1> QED BY <1>2, <1>7, QuietSafe

LEMMA DeleteFailsSafe ==
  ASSUME Slow = {}, Safe, NEW p \in Procs, DeleteFails(p)
  PROVE  Safe'
<1>1. Typed BY DEF Safe
<1>2. Typed' BY <1>1, EndDeletionTyped
<1>3. Resting(p) BY <1>1, ReturnRests DEF DeleteFails
<1>4. UNCHANGED <<file, stage, owner, revived>> BY DEF DeleteFails
<1>5. proc[p].h \in Hashes /\ del[proc[p].h].by = p /\ ~Referenced(proc[p].h)
  BY DEF DeleteFails, Removing, Safe, Typed, WellFormed, RemoverHoldsDeletion
<1>6. late' = {} /\ \A g : g \in disk /\ g # proc[p].h => g \in disk'
  BY GivenUp DEF DeleteFails, Safe
<1>7. \A g \in Hashes : g # proc[p].h => del'[g] = del[g]
  BY DEF DeleteFails, Typed, TypeOK
<1>8. \A q \in Procs : Removing(q)' => proc'[q].h # proc[p].h
  BY <1>3, <1>5 DEF Resting, Removing, Safe, RemoverHoldsDeletion
<1>9. \A x \in Ops : StageKept(x) BY <1>4 DEF StageKept
<1>10. Quiet BY <1>3, <1>4, <1>5, <1>6, <1>7, <1>8, <1>9, RestIsQuiet
<1> QED BY <1>2, <1>10, QuietSafe

LEMMA FinishSafe ==
  ASSUME Safe, NEW p \in Procs, FinishDeletion(p)
  PROVE  Safe'
<1> DEFINE h == proc[p].h
<1>1. Typed /\ file \in [Hashes -> Nat \cup {NoFile}] /\ del \in [Hashes -> Deletion]
  BY DEF Safe, Typed, TypeOK
<1>2. Typed' BY <1>1, EndDeletionTyped
<1>3. Resting(p) BY <1>1, ReturnRests DEF FinishDeletion
<1>4. h \in Hashes /\ del[h].by = p /\ ~Referenced(h)
  BY DEF FinishDeletion, Removing, Safe, Typed, WellFormed, RemoverHoldsDeletion
<1>5. UNCHANGED <<stage, owner, disk, revived>> /\ late' = {}
  BY DEF FinishDeletion, Safe
<1>6. /\ file' = file \/ file' = [file EXCEPT ![h] = NoFile]
      /\ del' = del \/ del' = [del EXCEPT ![h] = NoDeletion]
  BY DEF FinishDeletion
<1>7. \A g \in Hashes : g # h => file'[g] = file[g] /\ del'[g] = del[g]
  BY <1>1, <1>6
<1>8. \A q \in Procs : proc'[q] = proc[q] \/ (~Storing(q)' /\ ~Removing(q)')
  BY <1>3, RestingEach
<1>9. \A q \in Procs : Removing(q)' => proc'[q].h # h
  BY <1>3, <1>4 DEF Resting, Removing, Safe, RemoverHoldsDeletion
<1>10. \A g \in Hashes : file'[g] > 0 \/ Owned(g)' => file[g] > 0 \/ Owned(g)
  BY <1>1, <1>4, <1>5, <1>6, <1>7 DEF Owned, NoFile
<1>11. \A x \in Ops : StageKept(x) BY <1>5 DEF StageKept
<1>12. \A g \in Hashes : Referenced(g) /\ g \in disk => g \in disk' BY <1>5
<1>13. Quiet BY <1>5, <1>7, <1>8, <1>9, <1>10, <1>11, <1>12 DEF Quiet
<1> QED BY <1>2, <1>13, QuietSafe

\* The rows of a stage nobody stores for may become anything but usable.
LEMMA StageChangeQuiet ==
  ASSUME Safe, NEW p \in Procs, Resting(p), NEW o \in Ops,
         \A x \in Ops : x # o => stage'[x] = stage[x],
         ~(stage[o].state = "Storing" /\ stage[o].live),
         StageKept(o) \/ ~Usable(o)',
         UNCHANGED <<file, del, owner, disk, late, revived>>
  PROVE  Quiet
<1>1. \A q \in Procs : Storing(q)' => proc'[q].op # o
  BY DEF Resting, Storing, Safe, StorerHoldsStage
<1>2. \A x \in Ops : x # o => StageKept(x) BY DEF StageKept
<1>3. \A x \in Ops : \/ StageKept(x)
                     \/ /\ ~Usable(x)'
                        /\ \A q \in Procs : Storing(q)' => proc'[q].op # x
  <2> TAKE x \in Ops
  <2>1. CASE x # o BY <1>2, <2>1
  <2>2. CASE x = o BY <1>1, <2>2 DEF StageKept, Usable
  <2> QED BY <2>1, <2>2
<1>4. late' = {} BY DEF Safe
<1> QED BY <1>3, <1>4, RestIsQuiet

LEMMA CleanupRests ==
  ASSUME Typed, NEW p \in Procs, NEW o \in Ops, CleanupClaim(p, o)
  PROVE  /\ Resting(p)
         /\ \A x \in Ops : x # o => stage'[x] = stage[x]
         /\ ~Usable(o)'
<1>1. Content[o] \in Hashes /\ "purge" \in Pcs BY BlobRefsAssumption DEF Pcs
<1>2. Resting(p) BY <1>1, AtTyped, GotoRests DEF CleanupClaim
<1>3. stage'[o] = [NoStage EXCEPT !.state = "Failed", !.live = TRUE, !.token = p]
  BY DEF CleanupClaim, Typed, TypeOK
<1>4. ~Usable(o)' BY <1>3 DEF Usable, NoStage
<1> QED BY <1>2, <1>4 DEF CleanupClaim, Typed, TypeOK

LEMMA DiscardSafe ==
  ASSUME Safe, NEW c \in Clients, Discard(c)
  PROVE  Safe'
<1>1. Typed /\ c \in Procs BY DEF Safe, Procs
<1>2. Typed' BY <1>1, SweepTyped
<1>3. proc[c].op \in Ops BY <1>1 DEF Discard, Typed, WellFormed
<1>4. UNCHANGED <<file, del, owner, disk, late, revived>> BY DEF Discard
<1>5. CASE stage[proc[c].op].state = "Ready"
  <2>1. PICK o \in Ops : o = proc[c].op BY <1>3
  <2>2. CleanupClaim(c, o) BY <1>5, <2>1 DEF Discard, CleanupClaim
  <2>3. /\ Resting(c) /\ ~Usable(o)'
        /\ \A x \in Ops : x # o => stage'[x] = stage[x]
    BY <1>1, <2>2, CleanupRests
  <2>4. Quiet BY <1>1, <1>4, <1>5, <2>1, <2>3, StageChangeQuiet
  <2> QED BY <1>2, <2>4, QuietSafe
<1>6. CASE stage[proc[c].op].state # "Ready"
  <2>1. Resting(c) /\ UNCHANGED stage BY <1>1, <1>6, IdleRests DEF Discard
  <2>2. UNCHANGED <<rows, disk, late, revived>> BY <1>4, <2>1 DEF rows
  <2> QED BY <1>1, <1>2, <2>1, <2>2, IdleStepIsQuiet, QuietSafe
<1> QED BY <1>5, <1>6

LEMMA SweepSafe ==
  ASSUME Safe, NEW o \in Ops, SweepStage(o)
  PROVE  Safe'
<1>1. Typed /\ Cron \in Procs /\ proc[Cron] = Idle BY DEF Safe, Procs, SweepStage
<1>2. Typed' BY <1>1, SweepTyped
<1>3. UNCHANGED <<file, del, owner, disk, late, revived>> /\ ~stage[o].live BY DEF SweepStage
<1>4. /\ Resting(Cron) /\ ~Usable(o)'
      /\ \A x \in Ops : x # o => stage'[x] = stage[x]
  <2>1. CASE CleanupClaim(Cron, o) BY <1>1, <2>1, CleanupRests
  <2>2. CASE stage' = [stage EXCEPT ![o] = NoStage] /\ UNCHANGED proc
    <3>1. Resting(Cron) BY <1>1, <2>2, IdleTyped DEF Resting, Storing, Removing
    <3>2. stage'[o] = NoStage /\ \A x \in Ops : x # o => stage'[x] = stage[x]
      BY <1>1, <2>2 DEF Typed, TypeOK
    <3> QED BY <3>1, <3>2 DEF Usable, NoStage
  <2> QED BY <2>1, <2>2 DEF SweepStage
<1>5. Quiet BY <1>1, <1>3, <1>4, StageChangeQuiet
<1> QED BY <1>2, <1>5, QuietSafe

LEMMA SettleSafe ==
  ASSUME Safe, NEW p \in Procs, Settle(p)
  PROVE  Safe'
<1>1. Typed BY DEF Safe
<1>2. Typed' BY <1>1, SettleTyped
<1>3. PICK o \in Ops : o = proc[p].op BY <1>1 DEF Settle, Typed, WellFormed
<1>4. Resting(p) BY <1>1, IdleRests DEF Settle
<1>5. UNCHANGED <<file, del, owner, disk, late, revived>> BY DEF Settle
<1>6. CASE stage' = stage
  BY <1>2, <1>4, <1>5, <1>6, IdleStepIsQuiet, QuietSafe DEF rows
<1>7. CASE stage' # stage
  <2>1. stage[o].state = "Failed" BY <1>3, <1>7 DEF Settle
  <2>2. \/ stage' = [stage EXCEPT ![o] = NoStage]
        \/ stage' = [stage EXCEPT ![o] = [stage[o] EXCEPT !.live = TRUE, !.token = None]]
    BY <1>3, <1>7 DEF Settle
  <2>3. stage \in [Ops -> Stage] /\ stage[o] \in Stage BY <1>1 DEF Typed, TypeOK
  <2>4. [stage[o] EXCEPT !.live = TRUE, !.token = None].state = "Failed"
    BY <2>1, <2>3 DEF Stage
  <2>5. \A x \in Ops : x # o => stage'[x] = stage[x] BY <2>2, <2>3
  <2>6. stage'[o].state \in {"Absent", "Failed"}
    <3>1. CASE stage' = [stage EXCEPT ![o] = NoStage] BY <2>3, <3>1 DEF NoStage
    <3>2. CASE stage' = [stage EXCEPT ![o] =
                          [stage[o] EXCEPT !.live = TRUE, !.token = None]]
      <4>1. stage'[o] = [stage[o] EXCEPT !.live = TRUE, !.token = None]
        BY <2>3, <3>2
      <4> QED BY <2>4, <4>1
    <3> QED BY <2>2, <3>1, <3>2
  <2>7. ~Usable(o)' BY <2>6 DEF Usable
  <2>8. Quiet BY <1>4, <1>5, <2>1, <2>5, <2>7, StageChangeQuiet
  <2> QED BY <1>2, <2>8, QuietSafe
<1> QED BY <1>6, <1>7

LEMMA ExpireStageSafe ==
  ASSUME Slow = {}, Safe, NEW o \in Ops, ExpireStage(o)
  PROVE  Safe'
<1>1. Typed /\ stage \in [Ops -> Stage] /\ stage[o] \in Stage BY DEF Safe, Typed, TypeOK
<1>2. Typed' BY <1>1, TimeTyped
<1>3. UNCHANGED <<file, del, owner, disk, proc, late, revived>> BY DEF ExpireStage
<1>4. stage' = [stage EXCEPT ![o] = [stage[o] EXCEPT !.live = FALSE]] BY DEF ExpireStage
<1>5. [stage[o] EXCEPT !.live = FALSE].live = FALSE BY <1>1 DEF Stage
<1>6. stage'[o] = [stage[o] EXCEPT !.live = FALSE] BY <1>1, <1>4
<1>7. ~Usable(o)' BY <1>5, <1>6 DEF Usable
<1>8. \A x \in Ops : x # o => StageKept(x) BY <1>1, <1>4 DEF StageKept
<1>9. \A q \in Procs : Storing(q)' => proc'[q].op # o
  BY <1>3 DEF ExpireStage, Storing
<1>10. \A x \in Ops : \/ StageKept(x)
                      \/ /\ ~Usable(x)'
                         /\ \A q \in Procs : Storing(q)' => proc'[q].op # x
  <2> TAKE x \in Ops
  <2>1. CASE x # o BY <1>8, <2>1
  <2>2. CASE x = o BY <1>7, <1>9, <2>2 DEF Usable
  <2> QED BY <2>1, <2>2
<1>11. \A h \in Hashes : file'[h] > 0 \/ Owned(h)' => file[h] > 0 \/ Owned(h)
  BY <1>3 DEF Owned
<1>12. Quiet BY <1>3, <1>10, <1>11 DEF Quiet, Safe
<1> QED BY <1>2, <1>12, QuietSafe

LEMMA ExpireDeletionSafe ==
  ASSUME Slow = {}, Safe, NEW h \in Hashes, ExpireDeletion(h)
  PROVE  Safe'
<1>1. Typed /\ del \in [Hashes -> Deletion] BY DEF Safe, Typed, TypeOK
<1>2. Typed' BY <1>1, TimeTyped
<1>3. UNCHANGED <<file, stage, owner, disk, proc, late, revived>> BY DEF ExpireDeletion
<1>4. \A g \in Hashes : g # h => del'[g] = del[g] BY <1>1 DEF ExpireDeletion
<1>5. \A q \in Procs : Removing(q)' => proc'[q].h # h
  BY <1>3 DEF ExpireDeletion, Removing
<1>6. \A x \in Ops : StageKept(x) BY <1>3 DEF StageKept
<1>7. \A g \in Hashes : file'[g] > 0 \/ Owned(g)' => file[g] > 0 \/ Owned(g)
  BY <1>3 DEF Owned
<1>8. Quiet BY <1>3, <1>4, <1>5, <1>6, <1>7 DEF Quiet, Safe
<1> QED BY <1>2, <1>8, QuietSafe

\* Releases take references away, publications give one to staged content.
LEMMA ReleasedSafe ==
  ASSUME Safe, (\E p \in Procs, w \in Owners : Detach(p, w))
               \/ (\E c \in Clients, h \in Hashes : DeleteAsset(c, h))
  PROVE  Safe'
<1>1. Typed BY DEF Safe
<1>2. Typed' BY <1>1, ReleasedTyped
<1>3. PICK p \in Procs, g \in Hashes \cup {None} : ThenPurge(p, g) BY <1>1, Released
<1>4. Resting(p) BY <1>1, <1>3, PurgeRests
<1>5. /\ \A h \in Hashes : file'[h] > 0 \/ Owned(h)' => file[h] > 0 \/ Owned(h)
      /\ \A h \in Hashes : file[h] # NoFile => file'[h] # NoFile
  BY <1>1, Released
<1>6. UNCHANGED <<stage, del, disk, late, revived>> BY DEF Detach, DeleteAsset
<1>7. \A x \in Ops : StageKept(x) BY <1>6 DEF StageKept
<1>8. Quiet BY <1>4, <1>5, <1>6, <1>7, RestingEach DEF Quiet, Safe
<1> QED BY <1>2, <1>8, QuietSafe

LEMMA PublishedQuiet ==
  ASSUME Safe, NEW c \in Procs, Resting(c), NEW o \in Ops, NEW w \in Owners,
         Swap(o, w) \/ SwapSnapshot(o, w), UNCHANGED <<del, disk, late, revived>>
  PROVE  Quiet
<1>1. /\ stage[o].state = "Ready" /\ stage[o].live
      /\ stage'[o].state = "Published"
      /\ \A q \in Ops : q # o => stage'[q] = stage[q]
      /\ \A g \in Hashes : file'[g] > 0 \/ Owned(g)' =>
           file[g] > 0 \/ Owned(g) \/ g = Content[o]
      /\ \A g \in Hashes : file[g] # NoFile => file'[g] # NoFile
  BY Published DEF Safe
<1>2. \A q \in Procs : proc'[q] = proc[q] \/ (~Storing(q)' /\ ~Removing(q)')
  BY RestingEach
<1>3. \A q \in Procs : Storing(q)' => proc'[q].op # o
  BY <1>1 DEF Resting, Storing, Safe, StorerHoldsStage
<1>4. \A x \in Ops : \/ StageKept(x)
                     \/ /\ ~Usable(x)'
                        /\ \A q \in Procs : Storing(q)' => proc'[q].op # x
  <2> TAKE x \in Ops
  <2>1. CASE x # o BY <1>1, <2>1 DEF StageKept
  <2>2. CASE x = o BY <1>1, <1>3, <2>2 DEF Usable
  <2> QED BY <2>1, <2>2
<1>5. late' = {} BY DEF Safe
<1> QED BY <1>1, <1>2, <1>4, <1>5 DEF Quiet

LEMMA PublishSafe ==
  ASSUME Safe, NEW c \in Clients, Publish(c)
  PROVE  Safe'
<1>1. Typed /\ c \in Procs BY DEF Safe, Procs
<1>2. Typed' BY <1>1, PublishTyped
<1>3. PICK o \in Ops : o = proc[c].op /\ proc[c].h = Content[o]
  BY <1>1 DEF Publish, Typed, WellFormed
<1>4. PICK w \in Slots[o] : PublishHeld(c, w) \/ PublishSwap(c, w) \/ PublishSnapshot(c, w)
  BY <1>3 DEF Publish
<1>5. w \in Owners /\ owner[w] \in Hashes \cup {None}
  BY <1>1, BlobRefsAssumption DEF Typed, TypeOK
<1>6. UNCHANGED <<del, disk, late, revived>> BY DEF Publish
<1>7. CASE PublishHeld(c, w)
  <2>1. /\ stage[o].state \in {"Ready", "Published"}
        /\ Consume(o, w) /\ Goto(c, Idle) /\ UNCHANGED <<file, owner>>
    BY <1>3, <1>7 DEF PublishHeld
  <2>2. Resting(c) BY <1>1, <2>1, IdleRests
  <2>3. stage'[o].state = "Published" /\ \A x \in Ops : x # o => stage'[x] = stage[x]
    BY <1>1, <1>5, <2>1, Consumed DEF Typed, TypeOK
  <2>4. ~Usable(o)' BY <2>3 DEF Usable
  <2>5. Quiet BY <1>1, <1>6, <2>1, <2>2, <2>3, <2>4, StageChangeQuiet
  <2> QED BY <1>2, <2>5, QuietSafe
<1>8. CASE PublishSwap(c, w) \/ PublishSnapshot(c, w)
  <2>1. Swap(o, w) \/ SwapSnapshot(o, w) BY <1>3, <1>8 DEF PublishSwap, PublishSnapshot
  <2>2. ThenPurge(c, None) \/ ThenPurge(c, owner[w])
    BY <1>8 DEF PublishSwap, PublishSnapshot
  <2>3. Resting(c) BY <1>1, <1>5, <2>2, PurgeRests
  <2>4. Quiet BY <1>1, <1>5, <1>6, <2>1, <2>3, PublishedQuiet
  <2> QED BY <1>2, <2>4, QuietSafe
<1> QED BY <1>4, <1>7, <1>8

LEMMA PublishUnknownSafe ==
  ASSUME Safe, NEW c \in Clients, PublishUnknown(c)
  PROVE  Safe'
<1>1. Typed /\ c \in Procs /\ proc[c] \in Proc /\ "discard" \in Pcs
  BY DEF Safe, Procs, Typed, TypeOK, Pcs
<1>2. Typed' BY <1>1, PublishUnknownTyped
<1>3. PICK o \in Ops : o = proc[c].op BY <1>1 DEF PublishUnknown, Typed, WellFormed
<1>4. PICK w \in Slots[o] : Swap(o, w) \/ SwapSnapshot(o, w)
  BY <1>3 DEF PublishUnknown
<1>5. w \in Owners BY BlobRefsAssumption
<1>6. Resting(c)
  <2> DEFINE r == [proc[c] EXCEPT !.pc = "discard"]
  <2>1. r \in Proc /\ r.pc = "discard" BY <1>1, MoveTyped
  <2>2. Goto(c, r) BY DEF PublishUnknown
  <2> HIDE DEF r
  <2> QED BY <1>1, <2>1, <2>2, GotoRests
<1>7. UNCHANGED <<del, disk, late, revived>> BY DEF PublishUnknown
<1>8. Quiet BY <1>1, <1>4, <1>5, <1>6, <1>7, PublishedQuiet
<1> QED BY <1>2, <1>8, QuietSafe

\* A Ready stage past its lease held nothing back; once revived it has its
\* bytes, or revived says that they are gone.
LEMMA ReviveSafe ==
  ASSUME Safe, NEW c \in Clients, NEW o \in Ops, StageBlob(c, o), RecoverStage(c, o),
         stage[o].state = "Ready", ~stage[o].live
  PROVE  Safe'
<1>1. /\ Typed /\ c \in Procs /\ Content[o] \in Hashes /\ "staged" \in Pcs
      /\ stage \in [Ops -> Stage] /\ proc \in [Procs -> Proc]
  BY BlobRefsAssumption DEF Safe, Procs, Typed, TypeOK, Pcs
<1>2. Typed' BY <1>1, StageBlobTyped
<1>3. /\ UNCHANGED <<file, del, owner, disk, late>> /\ ~Deleting(Content[o])
      /\ \A x \in Ops : x # o => stage'[x] = stage[x]
  BY <1>1 DEF StageBlob, RecoverStage
<1>4. /\ \A h : h \in revived => h \in revived'
      /\ Content[o] \in disk \cup revived'
  BY DEF RecoverStage, Outlived
<1>5. Resting(c) BY <1>1, AtTyped, GotoRests DEF RecoverStage
<1>6. \A q \in Procs : Storing(q)' =>
        proc'[q] = proc[q] /\ Storing(q) /\ proc[q].op \in Ops \ {o}
  <2> TAKE q \in Procs
  <2>1. CASE q = c BY <1>5, <2>1 DEF Resting, Storing
  <2>2. CASE q # c
    BY <1>1, <1>5, <2>2 DEF Resting, Storing, Safe, StorerHoldsStage, Typed, WellFormed
  <2> QED BY <2>1, <2>2
<1>7. StorerHoldsStage'
  <2>1. ASSUME NEW p \in Procs, Storing(p)'
        PROVE  /\ stage'[proc'[p].op].state = "Storing" /\ stage'[proc'[p].op].live
               /\ proc'[p].pc = "ready" => proc'[p].h \in disk'
    BY <1>3, <1>6, <2>1 DEF Safe, StorerHoldsStage
  <2>2. ASSUME NEW p \in Procs, NEW q \in Procs, Storing(p)', Storing(q)',
               proc'[p].op = proc'[q].op
        PROVE  p = q
    BY <1>6, <2>2 DEF Safe, StorerHoldsStage
  <2> QED BY <2>1, <2>2 DEF StorerHoldsStage
<1>8. RemoverHoldsDeletion'
  <2> SUFFICES ASSUME NEW p \in Procs, Removing(p)', NEW h, h = proc'[p].h
               PROVE  Deleting(h)' /\ del'[h].by = p /\ ~Referenced(h)'
    BY DEF RemoverHoldsDeletion, Deleting, Referenced, Owned, StageHolds
  <2>1. p # c BY <1>5 DEF Resting, Removing
  <2>2. proc'[p] = proc[p] BY <1>5, <2>1 DEF Resting
  <2>3. Deleting(h) /\ del[h].by = p /\ ~Referenced(h)
    BY <2>2 DEF Removing, Safe, RemoverHoldsDeletion
  <2>4. h # Content[o] BY <1>3, <2>3
  <2>5. ~StageHolds(h)' BY <1>3, <2>3, <2>4 DEF StageHolds, Referenced
  <2>6. ~(file'[h] > 0 \/ Owned(h)') BY <1>3, <2>3 DEF Referenced, Owned
  <2>7. ~Referenced(h)' BY <2>5, <2>6 DEF Referenced
  <2> QED BY <1>3, <2>3, <2>7 DEF Deleting
<1>9. HeldBytesExist' BY <1>3, <1>4 DEF HeldBytesExist, Owned, Safe
<1>10. UsableStageHasBytes'
  <2> SUFFICES ASSUME NEW x \in Ops, stage'[x].state = "Ready", stage'[x].live
               PROVE  Content[x] \in disk' \cup revived'
    BY DEF UsableStageHasBytes
  <2>1. CASE x = o BY <1>3, <1>4, <2>1
  <2>2. CASE x # o BY <1>3, <1>4, <2>2 DEF Safe, UsableStageHasBytes
  <2> QED BY <2>1, <2>2
<1>11. late' = {} BY <1>3 DEF Safe
<1> QED BY <1>2, <1>7, <1>8, <1>9, <1>10, <1>11 DEF Safe

LEMMA RecoverSafe ==
  ASSUME Safe, NEW c \in Clients, NEW o \in Ops, StageBlob(c, o), RecoverStage(c, o)
  PROVE  Safe'
<1>1. Typed /\ c \in Procs /\ stage \in [Ops -> Stage] /\ stage[o] \in Stage
  BY DEF Safe, Procs, Typed, TypeOK
<1>2. Typed' BY <1>1, StageBlobTyped
<1>3. Content[o] \in Hashes /\ "staged" \in Pcs BY BlobRefsAssumption DEF Pcs
<1>4. CASE stage[o].state = "Ready" /\ ~stage[o].live BY <1>4, ReviveSafe
<1>5. CASE ~(stage[o].state = "Ready" /\ ~stage[o].live)
  <2>1. UNCHANGED <<file, del, owner, disk, late>> BY DEF StageBlob
  <2>2. revived' = revived BY <1>5 DEF RecoverStage, Outlived
  <2>3. Resting(c) BY <1>1, <1>3, AtTyped, GotoRests DEF RecoverStage
  <2>4. /\ stage' = [stage EXCEPT ![o] = [stage[o] EXCEPT !.live = TRUE]]
        /\ stage[o].state = "Published" \/ (stage[o].state = "Ready" /\ stage[o].live)
    BY <1>5 DEF RecoverStage
  <2>5. /\ [stage[o] EXCEPT !.live = TRUE].state = stage[o].state
        /\ [stage[o] EXCEPT !.live = TRUE].live = TRUE
    BY <1>1 DEF Stage
  <2>6. stage'[o].state = stage[o].state /\ stage'[o].live = TRUE BY <1>1, <2>4, <2>5
  <2>7. StageKept(o) \/ ~Usable(o)'
    <3>1. CASE stage[o].state = "Published" BY <2>6, <3>1 DEF Usable
    <3>2. CASE stage[o].state = "Ready" /\ stage[o].live
      <4>1. stage[o].live = TRUE BY <1>1, <3>2 DEF Stage
      <4> QED BY <2>6, <4>1 DEF StageKept
    <3> QED BY <2>4, <3>1, <3>2
  <2>8. \A x \in Ops : x # o => stage'[x] = stage[x] BY <1>1, <2>4
  <2>9. Quiet BY <1>1, <2>1, <2>2, <2>3, <2>4, <2>7, <2>8, StageChangeQuiet
  <2> QED BY <1>2, <2>9, QuietSafe
<1> QED BY <1>4, <1>5

LEMMA ClaimStageSafe ==
  ASSUME Safe, NEW c \in Clients, NEW o \in Ops, StageBlob(c, o), ClaimStage(c, o)
  PROVE  Safe'
<1>1. Typed /\ c \in Procs /\ stage \in [Ops -> Stage] /\ proc \in [Procs -> Proc]
  BY DEF Safe, Procs, Typed, TypeOK
<1>2. Typed' BY <1>1, StageBlobTyped
<1>3. Content[o] \in Hashes /\ "store" \in Pcs BY BlobRefsAssumption DEF Pcs
<1>4. /\ proc'[c].pc = "store" /\ proc'[c].op = o
      /\ \A q \in Procs : q # c => proc'[q] = proc[q]
  BY <1>1, <1>3, AtTyped DEF ClaimStage, Goto
<1>5. UNCHANGED <<file, del, owner, disk, late, revived>> /\ ~Deleting(Content[o])
  BY DEF StageBlob, ClaimStage
<1>6. /\ stage'[o] = [NoStage EXCEPT !.state = "Storing", !.live = TRUE]
      /\ \A x \in Ops : x # o => stage'[x] = stage[x]
      /\ ~(stage[o].state = "Storing" /\ stage[o].live)
  BY <1>1 DEF ClaimStage
<1>7. stage'[o].state = "Storing" /\ stage'[o].live BY <1>6 DEF NoStage
<1>8. \A q \in Procs : q # c /\ Storing(q)' =>
        /\ proc'[q] = proc[q] /\ Storing(q) /\ proc[q].op \in Ops \ {o}
  BY <1>1, <1>4, <1>6 DEF Storing, Safe, StorerHoldsStage, Typed, WellFormed
<1>9. StorerHoldsStage'
  <2>1. ASSUME NEW p \in Procs, Storing(p)'
        PROVE  /\ stage'[proc'[p].op].state = "Storing" /\ stage'[proc'[p].op].live
               /\ proc'[p].pc = "ready" => proc'[p].h \in disk'
    <3>1. CASE p = c BY <1>4, <1>7, <3>1
    <3>2. CASE p # c BY <1>5, <1>6, <1>8, <2>1, <3>2 DEF Safe, StorerHoldsStage
    <3> QED BY <3>1, <3>2
  <2>2. ASSUME NEW p \in Procs, NEW q \in Procs, Storing(p)', Storing(q)',
               proc'[p].op = proc'[q].op
        PROVE  p = q
    BY <1>4, <1>8, <2>2 DEF Safe, StorerHoldsStage
  <2> QED BY <2>1, <2>2 DEF StorerHoldsStage
<1>10. RemoverHoldsDeletion'
  <2> SUFFICES ASSUME NEW p \in Procs, Removing(p)', NEW h, h = proc'[p].h
               PROVE  Deleting(h)' /\ del'[h].by = p /\ ~Referenced(h)'
    BY DEF RemoverHoldsDeletion, Deleting, Referenced, Owned, StageHolds
  <2>1. p # c BY <1>4 DEF Removing
  <2>2. proc'[p] = proc[p] BY <1>4, <2>1
  <2>3. Deleting(h) /\ del[h].by = p /\ ~Referenced(h)
    BY <2>2 DEF Removing, Safe, RemoverHoldsDeletion
  <2>4. h # Content[o] BY <1>5, <2>3
  <2>5. ~StageHolds(h)' BY <1>6, <2>3, <2>4 DEF StageHolds, Referenced
  <2>6. ~(file'[h] > 0 \/ Owned(h)') BY <1>5, <2>3 DEF Referenced, Owned
  <2>7. ~Referenced(h)' BY <2>5, <2>6 DEF Referenced
  <2> QED BY <1>5, <2>3, <2>7 DEF Deleting
<1>11. HeldBytesExist' BY <1>5 DEF HeldBytesExist, Owned, Safe
<1>12. UsableStageHasBytes' BY <1>5, <1>6, <1>7 DEF UsableStageHasBytes, Safe
<1> QED BY <1>2, <1>5, <1>9, <1>10, <1>11, <1>12 DEF Safe

LEMMA StoreBytesSafe ==
  ASSUME Safe, NEW c \in Clients, StoreBytes(c)
  PROVE  Safe'
<1>1. Typed /\ c \in Procs /\ proc \in [Procs -> Proc]
  BY DEF Safe, Procs, Typed, TypeOK
<1>2. Typed' BY <1>1, StoreTyped
<1>3. proc[c].op \in Ops /\ proc[c].h = Content[proc[c].op] /\ proc[c].h \in Hashes
  BY <1>1, BlobRefsAssumption DEF StoreBytes, Typed, WellFormed
<1>4. "ready" \in Pcs BY DEF Pcs
<1>5. /\ proc'[c].pc = "ready" /\ proc'[c].op = proc[c].op /\ proc'[c].h = proc[c].h
      /\ \A q \in Procs : q # c => proc'[q] = proc[q]
  BY <1>1, <1>3, <1>4, AtTyped DEF StoreBytes, Goto
<1>6. /\ UNCHANGED <<file, stage, del, owner, late>>
      /\ disk' = disk \cup {proc[c].h} /\ revived' = revived \ {proc[c].h}
  BY DEF StoreBytes, rows
<1>7. Storing(c) BY DEF StoreBytes, Storing
<1>8. \A q \in Procs : Storing(q)' => Storing(q) /\ proc'[q].op = proc[q].op
  BY <1>5, <1>7 DEF Storing
<1>9. StorerHoldsStage'
  <2>1. ASSUME NEW p \in Procs, Storing(p)'
        PROVE  /\ stage'[proc'[p].op].state = "Storing" /\ stage'[proc'[p].op].live
               /\ proc'[p].pc = "ready" => proc'[p].h \in disk'
    <3>1. CASE p = c BY <1>5, <1>6, <1>7, <3>1 DEF Safe, StorerHoldsStage
    <3>2. CASE p # c BY <1>5, <1>6, <1>8, <2>1, <3>2 DEF Safe, StorerHoldsStage
    <3> QED BY <3>1, <3>2
  <2>2. ASSUME NEW p \in Procs, NEW q \in Procs, Storing(p)', Storing(q)',
               proc'[p].op = proc'[q].op
        PROVE  p = q
    BY <1>8, <2>2 DEF Safe, StorerHoldsStage
  <2> QED BY <2>1, <2>2 DEF StorerHoldsStage
<1>10. RemoverHoldsDeletion'
  BY <1>5, <1>6 DEF RemoverHoldsDeletion, Removing, Deleting, Referenced, Owned,
     StageHolds, Safe
<1>11. HeldBytesExist' BY <1>6 DEF HeldBytesExist, Owned, Safe
<1>12. UsableStageHasBytes' BY <1>6 DEF UsableStageHasBytes, Safe
<1> QED BY <1>2, <1>6, <1>9, <1>10, <1>11, <1>12 DEF Safe

LEMMA MakeReadySafe ==
  ASSUME Safe, NEW c \in Clients, MakeReady(c)
  PROVE  Safe'
<1>1. Typed /\ c \in Procs /\ Storing(c)
  BY DEF Safe, Procs, MakeReady, Storing
<1>2. Typed' BY <1>1, MakeReadyTyped
<1>3. PICK o \in Ops, h \in Hashes : o = proc[c].op /\ h = proc[c].h /\ h = Content[o]
  BY <1>1, BlobRefsAssumption DEF MakeReady, Typed, WellFormed
<1>4. stage[o].state = "Storing" /\ stage[o].live /\ h \in disk
  BY <1>1, <1>3 DEF MakeReady, Safe, StorerHoldsStage
<1>5. Referenced(h) BY <1>3, <1>4 DEF Referenced, StageHolds
<1>6. UNCHANGED <<del, owner, disk, late, revived>> BY DEF MakeReady
<1>7. /\ stage \in [Ops -> Stage] /\ stage[o] \in Stage
      /\ proc \in [Procs -> Proc] /\ file \in [Hashes -> Nat \cup {NoFile}]
  BY <1>1 DEF Typed, TypeOK
<1>8. CASE Deleting(h)
  <2>1. MarkFailed(o) /\ Goto(c, Idle) /\ UNCHANGED file BY <1>3, <1>8 DEF MakeReady
  <2>2. Resting(c) BY <1>1, <2>1, IdleRests
  <2>3. \A x \in Ops : \/ StageKept(x)
                       \/ /\ ~Usable(x)'
                          /\ \A q \in Procs : Storing(q)' => proc'[q].op # x
    BY <1>1, <1>3, <2>1, <2>2, MarkFailedQuiet
  <2>4. late' = {} BY <1>6 DEF Safe
  <2>5. Quiet BY <1>1, <1>6, <2>1, <2>2, <2>3, <2>4, RestIsQuiet
  <2> QED BY <1>2, <2>5, QuietSafe
<1>9. CASE ~Deleting(h)
  <2>1. /\ stage' = [stage EXCEPT ![o] = [stage[o] EXCEPT !.state = "Ready", !.live = TRUE]]
        /\ file' = [file EXCEPT ![h] = IF file[h] = NoFile THEN 0 ELSE file[h]]
        /\ Goto(c, At("staged", o, h))
    BY <1>3, <1>4, <1>9 DEF MakeReady
  <2>2. [stage[o] EXCEPT !.state = "Ready", !.live = TRUE].state = "Ready"
    BY <1>7 DEF Stage
  <2>3. stage'[o].state = "Ready" /\ \A x \in Ops : x # o => stage'[x] = stage[x]
    BY <1>7, <2>1, <2>2
  <2>4. /\ file'[h] # NoFile /\ \A g \in Hashes : file'[g] > 0 => file[g] > 0
        /\ \A g \in Hashes : file[g] # NoFile => file'[g] # NoFile
    BY <1>7, <2>1 DEF NoFile
  <2>5. Resting(c)
    <3>1. "staged" \in Pcs BY DEF Pcs
    <3> QED BY <1>1, <2>1, <3>1, AtTyped, GotoRests
  <2>6. \A q \in Procs : Storing(q)' =>
          proc'[q] = proc[q] /\ Storing(q) /\ proc[q].op \in Ops \ {o}
    <3> TAKE q \in Procs
    <3>1. CASE q = c BY <2>5, <3>1 DEF Resting, Storing
    <3>2. CASE q # c
      BY <1>1, <1>3, <2>5, <3>2 DEF Resting, Storing, Safe, StorerHoldsStage, Typed, WellFormed
    <3> QED BY <3>1, <3>2
  <2>7. StorerHoldsStage'
    <3>1. ASSUME NEW p \in Procs, Storing(p)'
          PROVE  /\ stage'[proc'[p].op].state = "Storing" /\ stage'[proc'[p].op].live
                 /\ proc'[p].pc = "ready" => proc'[p].h \in disk'
      BY <1>6, <2>3, <2>6, <3>1 DEF Safe, StorerHoldsStage
    <3>2. ASSUME NEW p \in Procs, NEW q \in Procs, Storing(p)', Storing(q)',
                 proc'[p].op = proc'[q].op
          PROVE  p = q
      BY <2>6, <3>2 DEF Safe, StorerHoldsStage
    <3> QED BY <3>1, <3>2 DEF StorerHoldsStage
  <2>8. RemoverHoldsDeletion'
    <3> SUFFICES ASSUME NEW p \in Procs, Removing(p)', NEW g \in Hashes, g = proc'[p].h
                 PROVE  Deleting(g)' /\ del'[g].by = p /\ ~Referenced(g)'
      BY <1>2 DEF Removing, Typed, WellFormed, RemoverHoldsDeletion, Deleting, Referenced,
         Owned, StageHolds
    <3>1. p # c BY <2>5 DEF Resting, Removing
    <3>2. proc'[p] = proc[p] BY <2>5, <3>1 DEF Resting
    <3>3. Deleting(g) /\ del[g].by = p /\ ~Referenced(g)
      BY <3>2 DEF Removing, Safe, RemoverHoldsDeletion
    <3>4. g # h BY <1>5, <3>3
    <3>5. ~StageHolds(g)' BY <1>3, <2>3, <3>3, <3>4 DEF StageHolds, Referenced
    <3>6. ~(file'[g] > 0 \/ Owned(g)') BY <1>6, <2>4, <3>3 DEF Referenced, Owned
    <3>7. ~Referenced(g)' BY <3>5, <3>6 DEF Referenced
    <3> QED BY <1>6, <3>3, <3>7 DEF Deleting
  <2>9. HeldBytesExist' BY <1>6, <2>4 DEF HeldBytesExist, Owned, Safe
  <2>10. UsableStageHasBytes'
    <3> SUFFICES ASSUME NEW x \in Ops, stage'[x].state = "Ready", stage'[x].live
                 PROVE  Content[x] \in disk' \cup revived'
      BY DEF UsableStageHasBytes
    <3>1. CASE x = o BY <1>3, <1>4, <1>6, <3>1
    <3>2. CASE x # o BY <1>6, <2>3, <3>2 DEF Safe, UsableStageHasBytes
    <3> QED BY <3>1, <3>2
  <2> QED BY <1>2, <1>6, <2>7, <2>8, <2>9, <2>10 DEF Safe
<1> QED BY <1>8, <1>9

LEMMA ClaimDeletionSafe ==
  ASSUME Safe, NEW p \in Procs, ClaimDeletion(p)
  PROVE  Safe'
<1>1. /\ Typed /\ del \in [Hashes -> Deletion]
      /\ proc \in [Procs -> Proc] /\ proc[p] \in Proc
  BY DEF Safe, Typed, TypeOK
<1>2. Typed' BY <1>1, PurgeTyped
<1>3. PICK h \in Hashes : h = proc[p].h BY <1>1 DEF ClaimDeletion, Typed, WellFormed
<1>4. UNCHANGED <<file, stage, owner, disk, late, revived>> BY DEF ClaimDeletion
<1>5. \A x \in Ops : StageKept(x) BY <1>4 DEF StageKept
<1>6. late' = {} BY <1>4 DEF Safe
<1>7. CASE Referenced(h) \/ Deleting(h)
  <2>1. /\ Return(p, "kept")
        /\ (Referenced(h) /\ del' = [del EXCEPT ![h] = NoDeletion]) \/ del' = del
    BY <1>3, <1>7 DEF ClaimDeletion
  <2>2. Resting(p) BY <1>1, <2>1, ReturnRests
  <2>3. \A g \in Hashes : \/ del'[g] = del[g]
                          \/ \A q \in Procs : Removing(q)' => proc'[q].h # g
    <3>1. CASE del' = del BY <3>1
    <3>2. CASE Referenced(h) /\ del' = [del EXCEPT ![h] = NoDeletion]
      <4>1. \A g \in Hashes : g # h => del'[g] = del[g] BY <1>1, <3>2
      <4>2. \A q \in Procs : Removing(q)' => proc'[q].h # h
        BY <2>2, <3>2 DEF Resting, Removing, Safe, RemoverHoldsDeletion
      <4> QED BY <4>1, <4>2
    <3> QED BY <2>1, <3>1, <3>2
  <2>4. Quiet BY <1>4, <1>5, <1>6, <2>2, <2>3, RestIsQuiet
  <2> QED BY <1>2, <2>4, QuietSafe
<1>8. CASE ~Referenced(h) /\ ~Deleting(h)
  <2> DEFINE r == [proc[p] EXCEPT !.pc = "delete"]
  <2>1. /\ del' = [del EXCEPT ![h] = [state |-> "Deleting", live |-> TRUE, by |-> p]]
        /\ Goto(p, r)
    BY <1>3, <1>8 DEF ClaimDeletion
  <2>2. "delete" \in Pcs BY DEF Pcs
  <2>3. r.pc = "delete" /\ r.h = h BY <1>1, <1>3, <2>2, MoveTyped
  <2> HIDE DEF r
  <2>4. /\ proc'[p].pc = "delete" /\ proc'[p].h = h
        /\ \A q \in Procs : q # p => proc'[q] = proc[q]
    BY <1>1, <2>1, <2>3 DEF Goto
  <2>5. /\ del'[h] = [state |-> "Deleting", live |-> TRUE, by |-> p]
        /\ \A g \in Hashes : g # h => del'[g] = del[g]
    BY <1>1, <2>1
  <2>6. \A q \in Procs : Storing(q)' => q # p BY <2>4 DEF Storing
  <2>7. StorerHoldsStage'
    BY <1>4, <2>4, <2>6 DEF StorerHoldsStage, Storing, Safe
  <2>8. \A g \in Hashes : Referenced(g)' => Referenced(g)
    BY <1>4 DEF Referenced, Owned, StageHolds
  <2>9. RemoverHoldsDeletion'
    <3> SUFFICES ASSUME NEW q \in Procs, Removing(q)', NEW g \in Hashes, g = proc'[q].h
                 PROVE  Deleting(g)' /\ del'[g].by = q /\ ~Referenced(g)'
      BY <1>2 DEF Removing, Typed, WellFormed, RemoverHoldsDeletion, Deleting, Referenced,
         Owned, StageHolds
    <3>1. CASE q = p
      <4>1. g = h BY <2>4, <3>1
      <4>2. Deleting(h)' /\ del'[h].by = p BY <2>5 DEF Deleting
      <4>3. ~Referenced(h)' BY <1>8, <2>8
      <4> QED BY <3>1, <4>1, <4>2, <4>3 DEF Deleting, Referenced, Owned, StageHolds
    <3>2. CASE q # p
      <4>1. proc'[q] = proc[q] BY <2>4, <3>2
      <4>2. Deleting(g) /\ del[g].by = q /\ ~Referenced(g)
        BY <4>1 DEF Removing, Safe, RemoverHoldsDeletion
      <4>3. g # h BY <1>8, <4>2
      <4>4. del'[g] = del[g] BY <2>5, <4>3
      <4> QED BY <2>8, <4>2, <4>4 DEF Deleting
    <3> QED BY <3>1, <3>2
  <2>10. HeldBytesExist' /\ UsableStageHasBytes'
    BY <1>4 DEF HeldBytesExist, UsableStageHasBytes, Owned, Safe
  <2> QED BY <1>2, <1>6, <2>7, <2>9, <2>10 DEF Safe
<1> QED BY <1>7, <1>8

LEMMA DeleteBytesSafe ==
  ASSUME Safe, NEW p \in Procs, DeleteBytes(p)
  PROVE  Safe'
<1>1. Typed /\ proc \in [Procs -> Proc] /\ proc[p] \in Proc BY DEF Safe, Typed, TypeOK
<1>2. Typed' BY <1>1, PurgeTyped
<1>3. PICK h \in Hashes : h = proc[p].h BY <1>1 DEF DeleteBytes, Typed, WellFormed
<1>4. UNCHANGED <<file, stage, del, owner, late, revived>> /\ disk' = disk \ {h}
  BY <1>3 DEF DeleteBytes, rows
<1>5. Removing(p) /\ ~Referenced(h)
  BY <1>3 DEF DeleteBytes, Removing, Safe, RemoverHoldsDeletion
<1> DEFINE r == [proc[p] EXCEPT !.pc = "finish"]
<1>6. "finish" \in Pcs BY DEF Pcs
<1>7. r.pc = "finish" /\ r.h = proc[p].h BY <1>1, <1>6, MoveTyped
<1>8. Goto(p, r) BY DEF DeleteBytes
<1> HIDE DEF r
<1>9. /\ proc'[p].pc = "finish" /\ proc'[p].h = proc[p].h
      /\ \A q \in Procs : q # p => proc'[q] = proc[q]
  BY <1>1, <1>7, <1>8 DEF Goto
<1>10. \A q \in Procs : Storing(q)' => proc'[q] = proc[q] /\ Storing(q)
  BY <1>9 DEF Storing
<1>11. \A q \in Procs : Storing(q) => proc[q].h # h
  BY <1>1, <1>5 DEF Storing, Safe, StorerHoldsStage, Typed, WellFormed, Referenced, StageHolds
<1>12. StorerHoldsStage'
  <2>1. ASSUME NEW q \in Procs, Storing(q)'
        PROVE  /\ stage'[proc'[q].op].state = "Storing" /\ stage'[proc'[q].op].live
               /\ proc'[q].pc = "ready" => proc'[q].h \in disk'
    BY <1>4, <1>10, <1>11, <2>1 DEF Safe, StorerHoldsStage
  <2>2. ASSUME NEW q \in Procs, NEW s \in Procs, Storing(q)', Storing(s)',
               proc'[q].op = proc'[s].op
        PROVE  q = s
    BY <1>10, <2>2 DEF Safe, StorerHoldsStage
  <2> QED BY <2>1, <2>2 DEF StorerHoldsStage
<1>13. \A q \in Procs : Removing(q)' => Removing(q) /\ proc'[q].h = proc[q].h
  BY <1>5, <1>9 DEF Removing
<1>14. RemoverHoldsDeletion'
  BY <1>4, <1>13 DEF RemoverHoldsDeletion, Deleting, Referenced, Owned, StageHolds, Safe
<1>15. HeldBytesExist' BY <1>4, <1>5 DEF HeldBytesExist, Owned, Referenced, Safe
<1>16. UsableStageHasBytes'
  BY <1>4, <1>5 DEF UsableStageHasBytes, Referenced, StageHolds, Safe
<1> QED BY <1>2, <1>4, <1>12, <1>14, <1>15, <1>16 DEF Safe

LEMMA NextSafe ==
  ASSUME Slow = {}, Safe, [Next]_vars
  PROVE  Safe'
<1>1. CASE UNCHANGED vars
  <2>1. Typed' BY <1>1, NextTyped DEF Safe
  <2>2. UNCHANGED <<file, stage, del, owner, disk, proc, late, revived>>
    BY <1>1 DEF vars, rows
  <2>3. StorerHoldsStage' BY <2>2 DEF Safe, StorerHoldsStage, Storing
  <2>4. RemoverHoldsDeletion'
    BY <2>2 DEF Safe, RemoverHoldsDeletion, Removing, Deleting, Referenced, Owned, StageHolds
  <2>5. HeldBytesExist' /\ UsableStageHasBytes'
    BY <2>2 DEF Safe, HeldBytesExist, UsableStageHasBytes, Owned
  <2> QED BY <2>1, <2>2, <2>3, <2>4, <2>5 DEF Safe
<1>2. ASSUME NEW c \in Clients, Handler(c) PROVE Safe'
  <2>1. CASE StoreBytes(c) BY <2>1, StoreBytesSafe
  <2>2. CASE StoreFails(c) BY <2>2, StoreFailsSafe
  <2>3. CASE MakeReady(c) BY <2>3, MakeReadySafe
  <2>4. CASE Publish(c) BY <2>4, PublishSafe
  <2>5. CASE Refuse(c) BY <2>5, RefuseSafe
  <2>6. CASE PublishUnknown(c) BY <2>6, PublishUnknownSafe
  <2>7. CASE Discard(c) BY <2>7, DiscardSafe
  <2> QED BY <1>2, <2>1, <2>2, <2>3, <2>4, <2>5, <2>6, <2>7 DEF Handler
<1>3. ASSUME NEW p \in Procs, Purger(p) PROVE Safe'
  <2>1. CASE ClaimDeletion(p) BY <2>1, ClaimDeletionSafe
  <2>2. CASE PurgeBusy(p) BY <2>2, PurgeBusySafe
  <2>3. CASE DeleteBytes(p) BY <2>3, DeleteBytesSafe
  <2>4. CASE DeleteFails(p) BY <2>4, DeleteFailsSafe
  <2>5. CASE FinishDeletion(p) BY <2>5, FinishSafe
  <2>6. CASE Settle(p) BY <2>6, SettleSafe
  <2> QED BY <1>3, <2>1, <2>2, <2>3, <2>4, <2>5, <2>6 DEF Purger
<1>4. ASSUME NEW c \in Clients, NEW o \in Ops, StageBlob(c, o) PROVE Safe'
  BY <1>4, ClaimStageSafe, RecoverSafe DEF StageBlob
<1>5. CASE \/ \E p \in Procs, w \in Owners : Detach(p, w)
           \/ \E c \in Clients, h \in Hashes : DeleteAsset(c, h)
  BY <1>5, ReleasedSafe
<1>6. CASE \E p \in Procs : Crash(p) BY <1>6, CrashSafe
<1>7. CASE \E o \in Ops : SweepStage(o) BY <1>7, SweepSafe
<1>8. CASE \E h \in Hashes : PurgePending(h) BY <1>8, PendingSafe
<1>9. CASE \E o \in Ops : ExpireStage(o) BY <1>9, ExpireStageSafe
<1>10. CASE \E h \in Hashes : ExpireDeletion(h) BY <1>10, ExpireDeletionSafe
<1>11. ~LateCall BY DEF LateCall, Safe
<1> QED
  BY <1>1, <1>2, <1>3, <1>4, <1>5, <1>6, <1>7, <1>8, <1>9, <1>10, <1>11 DEF Next

LEMMA InitSafe == Init => Safe
<1> SUFFICES ASSUME Init PROVE Safe OBVIOUS
<1>1. Typed BY InitTyped
<1>2. \A p \in Procs : ~Storing(p) /\ ~Removing(p)
  BY IdleTyped DEF Init, Storing, Removing
<1>3. HeldBytesExist BY BlobRefsAssumption DEF Init, HeldBytesExist, Owned, NoFile
<1>4. UsableStageHasBytes BY DEF Init, UsableStageHasBytes, NoStage
<1> QED BY <1>1, <1>2, <1>3, <1>4 DEF Init, Safe, StorerHoldsStage, RemoverHoldsDeletion

(***************************************************************************)
(* The theorems.                                                           *)
(***************************************************************************)
\* Where no call outlasts its deadline, an owner row points at content without
\* bytes only if a stage of that content was revived past its lease, after a
\* purge had taken them: no other interleaving of stages, releases, purges,
\* crashes and retries of any number of replicas loses them
\* (publish_staged_blob_for_owner, purge_if_unreferenced, claim_stage).
THEOREM OwnedBytesNeverVanish ==
  ASSUME Slow = {}
  PROVE  Spec => []OwnedBytesExist
<1>1. Init => Safe BY InitSafe
<1>2. Safe /\ [Next]_vars => Safe' BY NextSafe
<1>3. Safe => OwnedBytesExist
  BY DEF Safe, Typed, TypeOK, HeldBytesExist, OwnedBytesExist, Owned
<1> QED BY <1>1, <1>2, <1>3, PTL DEF Spec

\* Under the same assumption a stage that may still be published has its bytes,
\* with the same exception (stage_blob, load_ready_upload_stage).
THEOREM UsableStagesKeepBytes ==
  ASSUME Slow = {}
  PROVE  Spec => []UsableStageHasBytes
<1>1. Init => Safe BY InitSafe
<1>2. Safe /\ [Next]_vars => Safe' BY NextSafe
<1>3. Safe => UsableStageHasBytes BY DEF Safe
<1> QED BY <1>1, <1>2, <1>3, PTL DEF Spec

\* Only the holder of a deletion removes bytes, and nothing refers to them at
\* that moment, although it looked in an earlier transaction
\* (claim_blob_deletion, storage.delete).
THEOREM DeletionAlwaysSparesReferenced ==
  ASSUME Slow = {}
  PROVE  Spec => DeletionSparesReferenced
<1> DEFINE Spared == \A h \in disk : Referenced(h) => h \in disk'
<1>1. Init => Safe BY InitSafe
<1>2. Safe /\ [Next]_vars => Safe' BY NextSafe
<1>3. Safe /\ [Next]_vars => [Spared]_vars
  <2> SUFFICES ASSUME Safe, Next PROVE Spared OBVIOUS
  <2> SUFFICES ASSUME NEW h \in disk, Referenced(h) PROVE h \in disk' OBVIOUS
  <2>1. \A p \in Procs : Removing(p) => proc[p].h # h
    BY DEF Safe, RemoverHoldsDeletion
  <2>2. ASSUME NEW p \in Procs, DeleteBytes(p) PROVE h \in disk'
    BY <2>1, <2>2 DEF DeleteBytes, Removing
  <2>3. ASSUME NEW p \in Procs, DeleteFails(p) PROVE h \in disk'
    BY <2>1, <2>3, GivenUp DEF DeleteFails, Removing, Safe
  <2>4. ASSUME NEW p \in Procs, Crash(p) PROVE h \in disk'
    <3>1. CASE proc[p].pc = "delete" BY <2>1, <2>4, <3>1, GivenUp DEF Crash, Removing, Safe
    <3>2. CASE proc[p].pc = "store" BY <2>4, <3>2, GivenUp DEF Crash, Safe
    <3>3. CASE proc[p].pc \notin {"store", "delete"} BY <2>4, <3>3 DEF Crash
    <3> QED BY <3>1, <3>2, <3>3
  <2>5. ASSUME NEW c \in Clients, StoreFails(c) PROVE h \in disk'
    BY <2>5, GivenUp DEF StoreFails, Safe
  <2>6. ASSUME NEW c \in Clients, StoreBytes(c) PROVE h \in disk'
    BY <2>6 DEF StoreBytes
  <2>7. CASE disk' = disk BY <2>7
  <2>8. ASSUME NEW c \in Clients, MakeReady(c) \/ Publish(c) \/ Refuse(c)
               \/ PublishUnknown(c) \/ Discard(c)
        PROVE  disk' = disk
    BY <2>8 DEF MakeReady, Publish, Refuse, PublishUnknown, Discard
  <2>9. ASSUME NEW p \in Procs,
               ClaimDeletion(p) \/ PurgeBusy(p) \/ FinishDeletion(p) \/ Settle(p)
        PROVE  disk' = disk
    BY <2>9 DEF ClaimDeletion, PurgeBusy, FinishDeletion, Settle
  <2>10. ASSUME NEW c \in Clients, Handler(c) PROVE h \in disk'
    BY <2>5, <2>6, <2>8, <2>10 DEF Handler
  <2>11. ASSUME NEW p \in Procs, Purger(p) PROVE h \in disk'
    BY <2>2, <2>3, <2>9, <2>11 DEF Purger
  <2>12. ASSUME NEW c \in Clients, \/ \E o \in Ops : StageBlob(c, o)
                                   \/ \E g \in Hashes : DeleteAsset(c, g)
         PROVE  disk' = disk
    BY <2>12 DEF StageBlob, DeleteAsset
  <2>13. ASSUME NEW p \in Procs, NEW w \in Owners, Detach(p, w) PROVE disk' = disk
    BY <2>13 DEF Detach
  <2>14. ASSUME NEW o \in Ops, SweepStage(o) \/ ExpireStage(o) PROVE disk' = disk
    BY <2>14 DEF SweepStage, ExpireStage
  <2>15. ASSUME NEW g \in Hashes, PurgePending(g) \/ ExpireDeletion(g) PROVE disk' = disk
    BY <2>15 DEF PurgePending, ExpireDeletion
  <2>16. ~LateCall BY DEF LateCall, Safe
  <2> QED
    BY <2>4, <2>7, <2>10, <2>11, <2>12, <2>13, <2>14, <2>15, <2>16 DEF Next
<1> QED BY <1>1, <1>2, <1>3, PTL DEF Spec, DeletionSparesReferenced

(***************************************************************************)
(* Counts and owners.  Nothing here depends on deadlines.                  *)
(***************************************************************************)
Holders(h) == {w \in Owners : owner[w] = h}

\* Content no snapshot is ever made of: every release of it looks at the owner
\* rows (release_locked), which the trigger on snapshots does not.
Ordinary(h) == \A o \in Ops : Content[o] = h => Slots[o] \cap Snapshots = {}

\* A count never exceeds the owners of the content.
CountsAreBounded == \A h \in Hashes : file[h] <= Cardinality(Holders(h))

\* Ordinary content belongs to no snapshot, and is counted while it is owned.
OrdinaryIsCounted ==
  \A h \in Hashes : Ordinary(h) =>
    /\ \A w \in Snapshots : owner[w] # h
    /\ Owned(h) => file[h] > 0

Books == CountsAreBounded /\ OrdinaryIsCounted

LEMMA HoldersFinite ==
  \A h : /\ IsFiniteSet(Holders(h)) /\ Cardinality(Holders(h)) \in Nat
         /\ Cardinality(Holders(h)) = 0 <=> ~Owned(h)
<1> TAKE h
<1>1. IsFiniteSet(Holders(h)) BY BlobRefsAssumption, FS_Subset DEF Holders
<1>2. Cardinality(Holders(h)) \in Nat BY <1>1, FS_CardinalityType
<1>3. Cardinality(Holders(h)) = 0 <=> Holders(h) = {} BY <1>1, FS_EmptySet
<1>4. Holders(h) = {} <=> ~Owned(h) BY DEF Holders, Owned
<1> QED BY <1>1, <1>2, <1>3, <1>4

LEMMA HoldersFiniteNext ==
  \A h : /\ Cardinality(Holders(h)') \in Nat
         /\ Cardinality(Holders(h)') = 0 <=> ~Owned(h)'
<1> TAKE h
<1>1. Holders(h)' = {v \in Owners : owner'[v] = h} BY DEF Holders
<1>2. IsFiniteSet(Holders(h)') BY <1>1, BlobRefsAssumption, FS_Subset
<1>3. Cardinality(Holders(h)') \in Nat BY <1>2, FS_CardinalityType
<1>4. Cardinality(Holders(h)') = 0 <=> Holders(h)' = {} BY <1>2, FS_EmptySet
<1>5. Holders(h)' = {} <=> ~Owned(h)' BY <1>1 DEF Owned
<1> QED BY <1>3, <1>4, <1>5

\* One owner row changes what it holds.
LEMMA HoldersMove ==
  ASSUME owner \in [Owners -> Hashes \cup {None}], NEW w \in Owners,
         NEW x \in Hashes \cup {None}, owner' = [owner EXCEPT ![w] = x], NEW h \in Hashes
  PROVE  Cardinality(Holders(h)') =
           IF x = owner[w] THEN Cardinality(Holders(h))
           ELSE IF x = h THEN Cardinality(Holders(h)) + 1
           ELSE IF owner[w] = h THEN Cardinality(Holders(h)) - 1
           ELSE Cardinality(Holders(h))
<1>1. IsFiniteSet(Holders(h)) /\ Cardinality(Holders(h)) \in Nat BY HoldersFinite
<1>2. CASE x = owner[w] \/ (x # h /\ owner[w] # h)
  <2>1. Holders(h)' = Holders(h) BY <1>2 DEF Holders
  <2> QED BY <1>2, <2>1
<1>3. CASE x # owner[w] /\ x = h
  <2>1. Holders(h)' = Holders(h) \cup {w} /\ w \notin Holders(h) BY <1>3 DEF Holders
  <2> QED BY <1>1, <1>3, <2>1, FS_AddElement
<1>4. CASE x # owner[w] /\ x # h /\ owner[w] = h
  <2>1. Holders(h)' = Holders(h) \ {w} /\ w \in Holders(h) BY <1>4 DEF Holders
  <2> QED BY <1>1, <1>4, <2>1, FS_RemoveElement
<1> QED BY <1>2, <1>3, <1>4

\* What the updates make of the count of each content.
LEMMA AcquireEach ==
  ASSUME NEW f \in [Hashes -> Nat \cup {NoFile}], NEW h \in Hashes, NEW g \in Hashes
  PROVE  Acquire(f, h)[g] = IF g # h THEN f[g] ELSE IF f[g] = NoFile THEN 1 ELSE f[g] + 1
BY DEF Acquire

LEMMA ReleaseEach ==
  ASSUME NEW f \in [Hashes -> Nat \cup {NoFile}], NEW h \in Hashes \cup {None},
         NEW ow, NEW g \in Hashes
  PROVE  Release(f, h, ow)[g] =
           IF g # h \/ f[g] = NoFile THEN f[g]
           ELSE IF f[g] > 1 THEN f[g] - 1
           ELSE IF \E w \in Owners : ow[w] = g THEN 1 ELSE 0
<1> DEFINE some == \E w \in Owners : ow[w] = h
<1>1. CASE h = None \/ f[h] = NoFile BY <1>1, BlobRefsAssumption DEF Release
<1>2. CASE ~(h = None \/ f[h] = NoFile)
  <2>1. Release(f, h, ow) =
          [f EXCEPT ![h] = IF f[h] > 1 THEN f[h] - 1 ELSE IF some THEN 1 ELSE 0]
    BY <1>2 DEF Release
  <2> HIDE DEF some
  <2>2. Release(f, h, ow)[g] =
          IF g # h THEN f[g]
          ELSE IF f[h] > 1 THEN f[h] - 1 ELSE IF some THEN 1 ELSE 0
    BY <2>1
  <2> QED BY <1>2, <2>2 DEF some
<1> QED BY <1>1, <1>2

LEMMA ReleaseSnapshotEach ==
  ASSUME NEW f \in [Hashes -> Nat \cup {NoFile}], NEW h \in Hashes \cup {None}, NEW g \in Hashes
  PROVE  ReleaseSnapshot(f, h)[g] =
           IF g # h \/ f[g] = NoFile THEN f[g] ELSE IF f[g] > 1 THEN f[g] - 1 ELSE 0
BY BlobRefsAssumption DEF ReleaseSnapshot

\* Steps that move neither a reference nor an owner: a count is at most raised
\* from no row to zero, or dropped with the row of content nobody owns.
BooksRest ==
  /\ owner' = owner
  /\ file' \in [Hashes -> Nat \cup {NoFile}]
  /\ \A h \in Hashes : \/ file'[h] = file[h]
                       \/ file[h] = NoFile /\ file'[h] = 0
                       \/ ~Owned(h) /\ file'[h] = NoFile

LEMMA BooksEach ==
  ASSUME \A h \in Hashes :
           /\ file'[h] <= Cardinality(Holders(h)')
           /\ Ordinary(h) /\ Owned(h)' => file'[h] > 0
           /\ Ordinary(h) => \A s \in Snapshots : owner'[s] # h
  PROVE  Books'
<1>1. CountsAreBounded' BY DEF CountsAreBounded
<1>2. \A h : Ordinary(h)' <=> Ordinary(h) BY DEF Ordinary
<1>3. OrdinaryIsCounted' BY <1>2 DEF OrdinaryIsCounted
<1> QED BY <1>1, <1>3 DEF Books

LEMMA BooksRested ==
  ASSUME Typed, Books, BooksRest
  PROVE  Books'
<1>1. \A h : Holders(h)' = Holders(h) /\ (Owned(h)' <=> Owned(h))
  BY DEF BooksRest, Holders, Owned
<1>2. CountsAreBounded'
  <2> SUFFICES ASSUME NEW h \in Hashes
               PROVE  file'[h] <= Cardinality(Holders(h)')
    BY DEF CountsAreBounded
  <2>1. Cardinality(Holders(h)) \in Nat BY HoldersFinite
  <2>2. file[h] <= Cardinality(Holders(h)) BY DEF Books, CountsAreBounded
  <2> QED BY <1>1, <2>1, <2>2 DEF BooksRest, NoFile
<1>3. OrdinaryIsCounted'
  <2> SUFFICES ASSUME NEW h \in Hashes, Ordinary(h)
               PROVE  /\ \A w \in Snapshots : owner'[w] # h
                      /\ Owned(h)' => file'[h] > 0
    BY DEF OrdinaryIsCounted, Ordinary
  <2>1. /\ \A w \in Snapshots : owner[w] # h
        /\ Owned(h) => file[h] > 0
    BY DEF Books, OrdinaryIsCounted
  <2> QED BY <1>1, <2>1 DEF BooksRest, NoFile
<1> QED BY <1>2, <1>3 DEF Books

\* An owner row takes staged content and gives up what it held.
LEMMA SwapBooks ==
  ASSUME Typed, Books, NEW o \in Ops, NEW w \in Slots[o], Swap(o, w)
  PROVE  Books'
<1>1. PICK h \in Hashes : h = Content[o] BY BlobRefsAssumption
<1>2. /\ w \in Owners /\ owner \in [Owners -> Hashes \cup {None}]
      /\ file \in [Hashes -> Nat \cup {NoFile}]
  BY BlobRefsAssumption DEF Typed, TypeOK
<1>3. PICK old \in Hashes \cup {None} : old = owner[w] BY <1>2
<1>4. PICK mid : mid = Acquire(file, h) OBVIOUS
<1>5. /\ w \notin Snapshots /\ owner' = [owner EXCEPT ![w] = h]
      /\ file' = Release(mid, old, owner')
  BY <1>1, <1>3, <1>4 DEF Swap
<1>6. ASSUME NEW g \in Hashes
      PROVE  /\ mid[g] = IF g # h THEN file[g] ELSE IF file[g] = NoFile THEN 1 ELSE file[g] + 1
             /\ file'[g] = IF g # old \/ mid[g] = NoFile THEN mid[g]
                           ELSE IF mid[g] > 1 THEN mid[g] - 1
                           ELSE IF Owned(g)' THEN 1 ELSE 0
  <2>1. mid \in [Hashes -> Nat \cup {NoFile}] BY <1>2, <1>4, AcquireCount
  <2>2. mid[g] = IF g # h THEN file[g] ELSE IF file[g] = NoFile THEN 1 ELSE file[g] + 1
    BY <1>2, <1>4, AcquireEach
  <2>3. Release(mid, old, owner')[g] =
          IF g # old \/ mid[g] = NoFile THEN mid[g]
          ELSE IF mid[g] > 1 THEN mid[g] - 1
          ELSE IF \E v \in Owners : owner'[v] = g THEN 1 ELSE 0
    <3>1. \A ow : \A hh \in Hashes \cup {None} :
            Release(mid, hh, ow)[g] =
              IF g # hh \/ mid[g] = NoFile THEN mid[g]
              ELSE IF mid[g] > 1 THEN mid[g] - 1
              ELSE IF \E v \in Owners : ow[v] = g THEN 1 ELSE 0
      BY <2>1, ReleaseEach
    <3> QED BY <3>1
  <2> QED BY <1>5, <2>2, <2>3 DEF Owned
<1>7. ASSUME NEW g \in Hashes
      PROVE  /\ file'[g] <= Cardinality(Holders(g)')
             /\ Ordinary(g) /\ Owned(g)' => file'[g] > 0
             /\ Ordinary(g) => \A s \in Snapshots : owner'[s] # g
  <2>1. PICK n \in Nat : n = Cardinality(Holders(g)) BY HoldersFinite
  <2>2. PICK m \in Nat : m = Cardinality(Holders(g)') /\ (m = 0 <=> ~Owned(g)')
    BY HoldersFiniteNext
  <2>3. n = 0 <=> ~Owned(g) BY <2>1, HoldersFinite
  <2>4. m = IF h = old THEN n ELSE IF h = g THEN n + 1 ELSE IF old = g THEN n - 1 ELSE n
    BY <1>2, <1>3, <1>5, <2>1, <2>2, HoldersMove
  <2>5. file[g] <= n BY <2>1 DEF Books, CountsAreBounded
  <2>6. file[g] \in Nat \cup {NoFile} BY <1>2
  <2>7. old = g => Owned(g) BY <1>2, <1>3 DEF Owned
  <2>8. Ordinary(g) /\ Owned(g) => file[g] > 0 BY DEF Books, OrdinaryIsCounted
  <2>9. file'[g] <= m
    BY <1>6, <2>2, <2>3, <2>4, <2>5, <2>6, <2>7 DEF NoFile
  <2>10. Ordinary(g) /\ Owned(g)' => file'[g] > 0
    BY <1>6, <2>2, <2>3, <2>4, <2>6, <2>7, <2>8 DEF NoFile
  <2>11. Ordinary(g) => \A s \in Snapshots : owner'[s] # g
    BY <1>2, <1>5, BlobRefsAssumption DEF Books, OrdinaryIsCounted
  <2> QED BY <2>2, <2>9, <2>10, <2>11
<1> QED BY <1>7, BooksEach

\* The same for a snapshot: what it replaces is released by the trigger.
LEMMA SwapSnapshotBooks ==
  ASSUME Typed, Books, NEW o \in Ops, NEW w \in Slots[o], SwapSnapshot(o, w)
  PROVE  Books'
<1>1. PICK h \in Hashes : h = Content[o] BY BlobRefsAssumption
<1>2. /\ w \in Owners /\ owner \in [Owners -> Hashes \cup {None}]
      /\ file \in [Hashes -> Nat \cup {NoFile}]
  BY BlobRefsAssumption DEF Typed, TypeOK
<1>3. PICK old \in Hashes \cup {None} : old = owner[w] BY <1>2
<1>4. PICK mid : mid = ReleaseSnapshot(file, old) OBVIOUS
<1>5. /\ w \in Snapshots /\ owner' = [owner EXCEPT ![w] = h]
      /\ file' = Acquire(mid, h)
  BY <1>1, <1>3, <1>4 DEF SwapSnapshot
<1>6. ASSUME NEW g \in Hashes
      PROVE  /\ mid[g] = IF g # old \/ file[g] = NoFile THEN file[g]
                         ELSE IF file[g] > 1 THEN file[g] - 1 ELSE 0
             /\ file'[g] = IF g # h THEN mid[g] ELSE IF mid[g] = NoFile THEN 1 ELSE mid[g] + 1
  <2>1. mid \in [Hashes -> Nat \cup {NoFile}] BY <1>2, <1>4, ReleaseSnapshotCount
  <2> QED BY <1>2, <1>4, <1>5, <2>1, AcquireEach, ReleaseSnapshotEach
<1>7. ASSUME NEW g \in Hashes
      PROVE  /\ file'[g] <= Cardinality(Holders(g)')
             /\ Ordinary(g) /\ Owned(g)' => file'[g] > 0
             /\ Ordinary(g) => \A s \in Snapshots : owner'[s] # g
  <2>1. PICK n \in Nat : n = Cardinality(Holders(g)) BY HoldersFinite
  <2>2. PICK m \in Nat : m = Cardinality(Holders(g)') /\ (m = 0 <=> ~Owned(g)')
    BY HoldersFiniteNext
  <2>3. n = 0 <=> ~Owned(g) BY <2>1, HoldersFinite
  <2>4. m = IF h = old THEN n ELSE IF h = g THEN n + 1 ELSE IF old = g THEN n - 1 ELSE n
    BY <1>2, <1>3, <1>5, <2>1, <2>2, HoldersMove
  <2>5. file[g] <= n BY <2>1 DEF Books, CountsAreBounded
  <2>6. file[g] \in Nat \cup {NoFile} BY <1>2
  <2>7. old = g => Owned(g) BY <1>2, <1>3 DEF Owned
  <2>8. file'[g] <= m
    BY <1>6, <2>2, <2>3, <2>4, <2>5, <2>6, <2>7 DEF NoFile
  <2>9. ASSUME Ordinary(g)
        PROVE  /\ \A s \in Snapshots : owner'[s] # g
               /\ Owned(g)' => file'[g] > 0
    <3>1. h # g BY <1>1, <1>5, <2>9 DEF Ordinary
    <3>2. old # g /\ \A s \in Snapshots : owner[s] # g
      BY <1>3, <1>5, <2>9 DEF Books, OrdinaryIsCounted
    <3>3. \A s \in Snapshots : owner'[s] # g
      BY <1>2, <1>5, <3>1, <3>2, BlobRefsAssumption
    <3>4. file'[g] = file[g] BY <1>6, <3>1, <3>2
    <3>5. Owned(g)' => Owned(g) BY <1>2, <1>5, <3>1 DEF Owned
    <3> QED BY <2>9, <3>3, <3>4, <3>5 DEF Books, OrdinaryIsCounted
  <2> QED BY <2>2, <2>8, <2>9
<1> QED BY <1>7, BooksEach

\* An owner row goes away, by a request or, for a snapshot, by expiry.
LEMMA DetachBooks ==
  ASSUME Typed, Books, NEW p \in Procs, NEW w \in Owners, Detach(p, w)
  PROVE  Books'
<1>1. owner \in [Owners -> Hashes \cup {None}] /\ file \in [Hashes -> Nat \cup {NoFile}]
  BY DEF Typed, TypeOK
<1>2. PICK old \in Hashes : old = owner[w] BY <1>1 DEF Detach
<1>3. /\ owner' = [owner EXCEPT ![w] = None]
      /\ file' = IF w \in Snapshots THEN ReleaseSnapshot(file, old)
                                    ELSE Release(file, old, owner')
  BY <1>2 DEF Detach
<1>4. None \notin Hashes BY BlobRefsAssumption
<1>5. ASSUME NEW g \in Hashes
      PROVE  /\ g # old => file'[g] = file[g]
             /\ file[g] = NoFile => file'[g] = NoFile
             /\ g = old /\ file[g] > 1 => file'[g] = file[g] - 1
             /\ g = old /\ file[g] \in {0, 1} /\ w \notin Snapshots =>
                  file'[g] = IF Owned(g)' THEN 1 ELSE 0
             /\ g = old /\ file[g] \in {0, 1} /\ w \in Snapshots => file'[g] = 0
  <2>1. CASE w \in Snapshots
    <3>1. file' = ReleaseSnapshot(file, old) BY <1>3, <2>1
    <3>2. file'[g] = IF g # old \/ file[g] = NoFile THEN file[g]
                     ELSE IF file[g] > 1 THEN file[g] - 1 ELSE 0
      BY <1>1, <3>1, ReleaseSnapshotEach
    <3> QED BY <2>1, <3>2 DEF NoFile
  <2>2. CASE w \notin Snapshots
    <3>1. file' = Release(file, old, owner') BY <1>3, <2>2
    <3>2. file'[g] = IF g # old \/ file[g] = NoFile THEN file[g]
                     ELSE IF file[g] > 1 THEN file[g] - 1
                     ELSE IF Owned(g)' THEN 1 ELSE 0
      BY <1>1, <3>1, ReleaseEach DEF Owned
    <3> QED BY <2>2, <3>2 DEF NoFile
  <2> QED BY <2>1, <2>2
<1>6. ASSUME NEW g \in Hashes
      PROVE  /\ file'[g] <= Cardinality(Holders(g)')
             /\ Ordinary(g) /\ Owned(g)' => file'[g] > 0
             /\ Ordinary(g) => \A s \in Snapshots : owner'[s] # g
  <2>1. PICK n \in Nat : n = Cardinality(Holders(g)) BY HoldersFinite
  <2>2. PICK m \in Nat : m = Cardinality(Holders(g)') /\ (m = 0 <=> ~Owned(g)')
    BY HoldersFiniteNext
  <2>3. n = 0 <=> ~Owned(g) BY <2>1, HoldersFinite
  <2>4. m = IF old = g THEN n - 1 ELSE n
    <3>1. None \in Hashes \cup {None} /\ None # owner[w] /\ None # g BY <1>2, <1>4
    <3>2. Cardinality(Holders(g)') = IF owner[w] = g THEN Cardinality(Holders(g)) - 1
                                     ELSE Cardinality(Holders(g))
      BY <1>1, <1>3, <3>1, HoldersMove
    <3> QED BY <1>2, <2>1, <2>2, <3>2
  <2>5. file[g] <= n BY <2>1 DEF Books, CountsAreBounded
  <2>6. file[g] \in Nat \cup {NoFile} BY <1>1
  <2>7. file'[g] <= m BY <1>5, <2>2, <2>4, <2>5, <2>6 DEF NoFile
  <2>8. ASSUME Ordinary(g)
        PROVE  /\ \A s \in Snapshots : owner'[s] # g
               /\ Owned(g)' => file'[g] > 0
    <3>1. \A s \in Snapshots : owner[s] # g BY <2>8 DEF Books, OrdinaryIsCounted
    <3>2. \A s \in Snapshots : owner'[s] # g BY <1>1, <1>3, <1>4, <3>1, BlobRefsAssumption
    <3>3. old = g => w \notin Snapshots BY <1>2, <3>1
    <3>4. Owned(g) => file[g] > 0 BY <2>8 DEF Books, OrdinaryIsCounted
    <3>5. Owned(g)' => file'[g] > 0
      BY <1>5, <2>2, <2>3, <2>4, <2>6, <3>3, <3>4 DEF NoFile
    <3> QED BY <3>2, <3>5
  <2> QED BY <2>2, <2>7, <2>8
<1> QED BY <1>6, BooksEach

\* An administrator releases a reference of a content, whoever holds it.
LEMMA DeleteAssetBooks ==
  ASSUME Typed, Books, NEW c \in Clients, NEW h \in Hashes, DeleteAsset(c, h)
  PROVE  Books'
<1>1. /\ file \in [Hashes -> Nat \cup {NoFile}] /\ file' = Release(file, h, owner)
      /\ owner' = owner
  BY DEF Typed, TypeOK, DeleteAsset
<1>2. ASSUME NEW g \in Hashes
      PROVE  /\ file'[g] <= Cardinality(Holders(g)')
             /\ Ordinary(g) /\ Owned(g)' => file'[g] > 0
             /\ Ordinary(g) => \A s \in Snapshots : owner'[s] # g
  <2>1. PICK n \in Nat : n = Cardinality(Holders(g)) /\ (n = 0 <=> ~Owned(g))
    BY HoldersFinite
  <2>2. Holders(g)' = Holders(g) /\ (Owned(g)' <=> Owned(g)) BY <1>1 DEF Holders, Owned
  <2>3. file'[g] = IF g # h \/ file[g] = NoFile THEN file[g]
                   ELSE IF file[g] > 1 THEN file[g] - 1 ELSE IF Owned(g) THEN 1 ELSE 0
    BY <1>1, ReleaseEach DEF Owned
  <2>4. file[g] <= n /\ file[g] \in Nat \cup {NoFile}
    BY <1>1, <2>1 DEF Books, CountsAreBounded
  <2>5. Ordinary(g) => /\ Owned(g) => file[g] > 0
                       /\ \A s \in Snapshots : owner'[s] # g
    BY <1>1 DEF Books, OrdinaryIsCounted
  <2>6. file'[g] <= n BY <2>1, <2>3, <2>4 DEF NoFile
  <2>7. Ordinary(g) /\ Owned(g) => file'[g] > 0 BY <2>3, <2>4, <2>5 DEF NoFile
  <2> QED BY <2>1, <2>2, <2>5, <2>6, <2>7
<1> QED BY <1>2, BooksEach

LEMMA NextBooks ==
  ASSUME Typed, Books, [Next]_vars
  PROVE  Books'
<1>1. Typed' BY NextTyped
<1>2. file' \in [Hashes -> Nat \cup {NoFile}] BY <1>1 DEF Typed, TypeOK
<1>3. CASE UNCHANGED <<file, owner>>
  <2>1. BooksRest BY <1>2, <1>3 DEF BooksRest
  <2> QED BY <2>1, BooksRested
<1>4. ASSUME NEW c \in Clients, MakeReady(c) PROVE Books'
  <2>1. c \in Procs /\ proc[c].h \in Hashes
    BY <1>4, BlobRefsAssumption DEF MakeReady, Procs, Typed, WellFormed
  <2>2. PICK h \in Hashes : h = proc[c].h BY <2>1
  <2>3. owner' = owner /\ (file' = file \/ file' = [file EXCEPT ![h] = IF @ = NoFile THEN 0 ELSE @])
    BY <1>4, <2>2 DEF MakeReady
  <2>4. BooksRest BY <1>2, <2>3 DEF BooksRest, Typed, TypeOK
  <2> QED BY <2>4, BooksRested
<1>5. ASSUME NEW p \in Procs, FinishDeletion(p) PROVE Books'
  <2>1. PICK h \in Hashes : h = proc[p].h BY <1>5 DEF FinishDeletion, Typed, WellFormed
  <2>2. owner' = owner /\ (file' = file \/ (~Owned(h) /\ file' = [file EXCEPT ![h] = NoFile]))
    BY <1>5, <2>1 DEF FinishDeletion, Referenced
  <2>3. BooksRest BY <1>2, <2>2 DEF BooksRest, Typed, TypeOK
  <2> QED BY <2>3, BooksRested
<1>6. ASSUME NEW c \in Clients, Publish(c) \/ PublishUnknown(c) PROVE Books'
  <2>1. PICK o \in Ops : o = proc[c].op
    BY <1>6 DEF Publish, PublishUnknown, Procs, Typed, WellFormed
  <2>2. PICK w \in Slots[o] : \/ UNCHANGED <<file, owner>>
                              \/ Swap(o, w) \/ SwapSnapshot(o, w)
    BY <1>6, <2>1 DEF Publish, PublishUnknown, PublishHeld, PublishSwap, PublishSnapshot
  <2> QED BY <1>3, <2>2, SwapBooks, SwapSnapshotBooks
<1>7. ASSUME NEW c \in Clients, Handler(c) PROVE Books'
  <2>1. CASE StoreBytes(c) \/ StoreFails(c) \/ Refuse(c) \/ Discard(c)
    BY <1>3, <2>1 DEF StoreBytes, StoreFails, Refuse, Discard, rows
  <2> QED BY <1>4, <1>6, <1>7, <2>1 DEF Handler
<1>8. ASSUME NEW p \in Procs, Purger(p) \/ Crash(p) PROVE Books'
  <2>1. CASE ClaimDeletion(p) \/ PurgeBusy(p) \/ DeleteBytes(p)
    BY <1>3, <2>1 DEF ClaimDeletion, PurgeBusy, DeleteBytes, rows
  <2>2. CASE DeleteFails(p) \/ Settle(p) \/ Crash(p)
    BY <1>3, <2>2 DEF DeleteFails, Settle, Crash, rows
  <2> QED BY <1>5, <1>8, <2>1, <2>2 DEF Purger
<1>9. ASSUME NEW c \in Clients, NEW o \in Ops, StageBlob(c, o) PROVE Books'
  BY <1>3, <1>9 DEF StageBlob
<1>10. CASE \E c \in Clients, h \in Hashes : DeleteAsset(c, h) BY <1>10, DeleteAssetBooks
<1>11. CASE \E p \in Procs, w \in Owners : Detach(p, w) BY <1>11, DetachBooks
<1>12. CASE \E o \in Ops : SweepStage(o) \/ ExpireStage(o)
  BY <1>3, <1>12 DEF SweepStage, ExpireStage
<1>13. CASE \E h \in Hashes : PurgePending(h) \/ ExpireDeletion(h)
  BY <1>3, <1>13 DEF PurgePending, ExpireDeletion, rows
<1>14. CASE LateCall BY <1>3, <1>14 DEF LateCall, rows
<1>15. CASE UNCHANGED vars BY <1>3, <1>15 DEF vars, rows
<1> QED
  BY <1>7, <1>8, <1>9, <1>10, <1>11, <1>12, <1>13, <1>14, <1>15 DEF Next

LEMMA InitBooks == Init => Books
<1> SUFFICES ASSUME Init PROVE Books OBVIOUS
<1>1. \A h \in Hashes : \A w \in Owners : owner[w] # h BY BlobRefsAssumption DEF Init
<1>2. \A h \in Hashes : ~Owned(h) BY <1>1 DEF Owned
<1>3. CountsAreBounded BY HoldersFinite DEF Init, CountsAreBounded, NoFile
<1>4. OrdinaryIsCounted BY <1>1, <1>2, BlobRefsAssumption DEF OrdinaryIsCounted
<1> QED BY <1>3, <1>4 DEF Books

LEMMA BooksHold == Spec => [](Typed /\ Books)
<1>1. Init => Typed /\ Books BY InitTyped, InitBooks
<1>2. Typed /\ Books /\ [Next]_vars => (Typed /\ Books)' BY NextTyped, NextBooks
<1> QED BY <1>1, <1>2, PTL DEF Spec

\* For every content, snapshots included, a count never exceeds the owners, so
\* nothing is kept alive by nobody: no replayed publication, lost answer to a
\* commit or revived stage takes a reference its owner does not account for
\* (acquire_locked, consume_staged_blob_with_existing_reference).
THEOREM CountsStayBounded == Spec => []CountsAreBounded
<1>1. Typed /\ Books => CountsAreBounded BY DEF Books
<1> QED BY <1>1, BooksHold, PTL

\* A content that no snapshot is made of stays counted while it is owned: no
\* release, of another owner or by an administrator, takes the last reference
\* from under an owner row (release_locked).
THEOREM OrdinaryStaysCounted == Spec => []OrdinaryIsCounted
<1>1. Typed /\ Books => OrdinaryIsCounted BY DEF Books
<1> QED BY <1>1, BooksHold, PTL

\* Where there are no snapshots, the count of every content is positive exactly
\* while it is owned and never exceeds its owners, whatever outlasts the
\* deadlines (acquire_locked, release_locked).
THEOREM CountsFollowOwners ==
  ASSUME Snapshots = {}
  PROVE  Spec => []CountsAreOwners
<1>1. Typed /\ Books => CountsAreOwners
  <2> SUFFICES ASSUME Typed, Books, NEW h \in Hashes
               PROVE  IF Cardinality(Holders(h)) = 0 THEN file[h] \in {NoFile, 0}
                      ELSE file[h] \in 1 .. Cardinality(Holders(h))
    BY DEF CountsAreOwners, Holders
  <2>1. PICK n \in Nat : n = Cardinality(Holders(h)) /\ (n = 0 <=> ~Owned(h))
    BY HoldersFinite
  <2>2. file[h] <= n /\ file[h] \in Nat \cup {NoFile}
    BY <2>1 DEF Books, CountsAreBounded, Typed, TypeOK
  <2>3. Owned(h) => file[h] > 0 BY DEF Books, OrdinaryIsCounted, Ordinary
  <2> QED BY <2>1, <2>2, <2>3 DEF NoFile
<1> QED BY <1>1, BooksHold, PTL
=============================================================================
