----------------------- MODULE PlayerContainersProofs -----------------------
(***************************************************************************)
(* One actor at a time changes an instance, for any operations,            *)
(* publications and runtimes.  The invariant ties every actor to what it   *)
(* was granted: an owner and recovery to the live lease of the one         *)
(* operation that runs, a teardown to the marker of the linked container,  *)
(* which keeps every lease away.  Labels and the order of creation then    *)
(* say which runtime is whose.                                             *)
(***************************************************************************)
EXTENDS PlayerContainers, FiniteSetTheorems, TLAPS

(***************************************************************************)
(* The invariants.                                                         *)
(***************************************************************************)
Working(o) == owner[o].pc \notin {"idle", "complete", "settle"}
Removing(o) == owner[o].pc \in {"revoke", "unlink"}
Building(o) == owner[o].pc \in {"start", "create", "record", "publish", "discard"}
Holding(o) == owner[o].pc \in {"record", "publish", "discard"}
Tearing(p) == proc[p].pc \in {"check", "destroy", "clear"}
Reaping(p) == Tearing(p) \/ proc[p].pc = "claim"
Recovery == proc["cron"].pc \in {"inspect", "remove", "finish"}

\* Who works has something to work on.
OwnerFormed(o) ==
  /\ owner[o].pc # "idle" => owner[o].pub \in Pubs
  /\ Removing(o) => owner[o].c \in Pubs /\ owner[o].rt \in Runtimes
  /\ Holding(o) => owner[o].rt \in Runtimes
  /\ owner[o].pc = "bind" \/ Building(o) => op[o].intent = "Create"

RowFormed(o) ==
  /\ op[o].state # "Absent" => op[o].pub \in 1 .. drawn
  /\ op[o].started => op[o].intent = "Create"

ProcFormed(p) ==
  /\ Reaping(p) => proc[p].c \in 1 .. drawn /\ proc[p].rt \in Runtimes
  /\ proc[p].pc \in {"remove", "sweep"} => proc[p].rt \in Runtimes
  /\ proc[p].pc \in {"inspect", "remove", "finish", "sweep"} => p = "cron"
  /\ proc[p].pc \in {"inspect", "remove", "finish"} => proc[p].op \in Ops

WellFormed ==
  /\ def <= faults
  /\ \A o \in Ops : OwnerFormed(o) /\ RowFormed(o)
  /\ \A p \in Procs : ProcFormed(p)
  /\ \A c \in Pubs : Stored(c) => c <= drawn

Typed == TypeOK /\ WellFormed

\* One operation of the scope runs.
OneRunning ==
  \A o, k \in Ops : op[o].state = "Running" /\ op[k].state = "Running" => o = k

\* An owner that works holds the live lease of its operation.
OwnersHoldLeases ==
  \A o \in Ops :
    /\ owner[o].pc # "idle" /\ op[o].state = "Running" => op[o].lease = "live"
    /\ Working(o) => LiveRow(o) /\ op[o].pub = owner[o].pub

\* So does recovery, of a launch whose owner is gone and that has published
\* nothing.
RecoveryHoldsLease ==
  Recovery =>
    /\ LiveRow(proc["cron"].op) /\ op[proc["cron"].op].started
    /\ owner[proc["cron"].op].pc = "idle" /\ proc["cron"].c = None

\* The link and the container row come and go together.
RowsAreLinked == \A c \in Pubs : Stored(c) <=> link = c

\* A launch has a publication id no container ever had.
LaunchesAreFresh ==
  \A o \in Ops : op[o].state = "Running" /\ op[o].intent = "Create" =>
    ~Stored(op[o].pub) /\ \A p \in Procs : Reaping(p) => proc[p].c # op[o].pub

\* What an owner removes is the linked container; it builds when there is none.
OwnersMeetTheirTarget ==
  \A o \in Ops :
    /\ Removing(o) => link = owner[o].c /\ cont[owner[o].c].rt = owner[o].rt
    /\ Building(o) => link = None

\* A teardown holds its marker, and no operation is live while the container
\* it claimed exists.
TeardownHoldsMarker ==
  \A p \in Procs : Tearing(p) =>
    /\ marker[proc[p].c] = p
    /\ proc[p].pc # "check" => cont[proc[p].c].rt = proc[p].rt
    /\ cont[proc[p].c].rt = proc[p].rt => \A o \in Ops : ~LiveRow(o)

Safe ==
  /\ Typed /\ OneRunning /\ OwnersHoldLeases /\ RecoveryHoldsLease /\ RowsAreLinked
  /\ LaunchesAreFresh /\ OwnersMeetTheirTarget /\ TeardownHoldsMarker
  /\ ExtensionIsHonoured

\* Runtimes are numbered in the order they are made.
BornInOrder == \E k \in 0 .. MaxRuntimes : Born = 1 .. k

LabelledBy(r, o) == r \in Born /\ (Present(r) => rt[r].op = o)
Gone(r) == rt[r].st = "gone"

\* Who has removed a runtime finds it gone.
RemovedIsGone ==
  /\ \A o \in Ops : owner[o].pc = "unlink" => Gone(owner[o].rt)
  /\ \A p \in Procs : proc[p].pc = "clear" => Gone(proc[p].rt)

\* An unpublished runtime in anyone's hands carries the label of a running
\* operation, a published one that of the operation that published it.
LabelsAreTrue ==
  /\ \A o \in Ops : op[o].state = "Running" /\ op[o].rt # None => LabelledBy(op[o].rt, o)
  /\ \A o \in Ops : Holding(o) => LabelledBy(owner[o].rt, o)
  /\ proc["cron"].pc = "remove" => LabelledBy(proc["cron"].rt, proc["cron"].op)
  /\ \A c \in Pubs : Stored(c) =>
       \E k \in Ops : /\ LabelledBy(cont[c].rt, k)
                      /\ op[k].state = "Succeeded" /\ op[k].pub = c

\* The orphan sweep looks at runtimes that were made.
OrphansWereBorn ==
  /\ \A r \in Runtimes : seen[r] # "no" => r \in Born
  /\ proc["cron"].pc = "sweep" => proc["cron"].rt \in Born

Sound == Safe /\ BornInOrder /\ RemovedIsGone /\ LabelsAreTrue /\ OrphansWereBorn

(***************************************************************************)
(* Rows, owners and processes.                                             *)
(***************************************************************************)
LEMMA Distinct == "none" \notin Ops /\ Ops \cap Procs = {} /\ "cron" \in Procs /\ "admin" \in Procs
BY PlayerContainersAssumption DEF Procs

LEMMA Bounds ==
  /\ MaxPubs \in Nat /\ MaxRuntimes \in Nat /\ MaxFaults \in Nat
  /\ 0 \notin Pubs /\ 0 \notin Runtimes /\ 0 \in Defs
BY PlayerContainersAssumption DEF Pubs, Runtimes, Defs

LEMMA Blanks ==
  /\ NoRow \in Row /\ NoRow.state = "Absent" /\ ~NoRow.started /\ NoRow.rt = None
  /\ NoOwner \in Owner /\ NoOwner.pc = "idle"
  /\ NoProc \in Proc /\ NoProc.pc = "idle"
  /\ NoContainer \in Container /\ NoContainer.rt = None
  /\ NoRuntime \in Runtime /\ NoRuntime.st = "unborn"
BY Bounds DEF NoRow, Row, Intents, NoOwner, Owner, OwnerPcs, NoProc, Proc, ProcPcs,
     NoContainer, Container, NoRuntime, Runtime

\* The lease, the state and the identity of an operation stay.
SameRow(k) ==
  /\ op'[k].state = op[k].state /\ op'[k].lease = op[k].lease
  /\ op'[k].pub = op[k].pub /\ op'[k].intent = op[k].intent

\* An owner moves, or ends, within what it was granted.
LEMMA OwnerMove ==
  ASSUME Safe, NEW o \in Ops, NEW r \in Owner, owner' = [owner EXCEPT ![o] = r],
         op' \in [Ops -> Row], \A k \in Ops : SameRow(k),
         \A k \in Ops : op[k].started => op'[k].started,
         \A k \in Ops : op'[k].started => op[k].intent = "Create",
         UNCHANGED <<link, cont, marker, proc, def, drawn>>,
         rt' \in [Runtimes -> Runtime], late' \in SUBSET (Ops \X Defs),
         seen' \in [Runtimes -> {"no", "seen", "ripe"}],
         faults' \in 0 .. MaxFaults, faults <= faults',
         owner[o].pc # "idle",
         r.pc # "idle" => r.pub = owner[o].pub,
         r.pc \notin {"idle", "complete", "settle"} => Working(o),
         r.pc \in {"revoke", "unlink"} =>
           r.c \in Pubs /\ r.rt \in Runtimes /\ link = r.c /\ cont[r.c].rt = r.rt,
         r.pc \in {"start", "create", "record", "publish", "discard"} =>
           link = None /\ op[o].intent = "Create",
         r.pc \in {"record", "publish", "discard"} => r.rt \in Runtimes,
         r.pc # "bind"
  PROVE  Safe'
<1>1. /\ Typed /\ TypeOK /\ WellFormed
      /\ OneRunning /\ OwnersHoldLeases /\ RecoveryHoldsLease /\ RowsAreLinked
      /\ LaunchesAreFresh /\ OwnersMeetTheirTarget /\ TeardownHoldsMarker
      /\ ExtensionIsHonoured
  BY DEF Safe, Typed
<1>2. /\ owner'[o] = r /\ owner' \in [Ops -> Owner]
      /\ \A k \in Ops : k # o => owner'[k] = owner[k]
  BY <1>1 DEF TypeOK
<1>3. TypeOK' BY <1>1, <1>2 DEF TypeOK
<1>4. WellFormed'
  <2>1. def' <= faults' BY <1>1, Bounds DEF WellFormed, TypeOK, Defs
  <2>2. \A k \in Ops : OwnerFormed(k)'
    BY <1>1, <1>2 DEF WellFormed, OwnerFormed, SameRow, Removing, Holding, Building
  <2>3. \A k \in Ops : RowFormed(k)'
    BY <1>1 DEF WellFormed, RowFormed, SameRow
  <2>4. \A p \in Procs : ProcFormed(p)'
    BY <1>1 DEF WellFormed, ProcFormed, Reaping, Tearing
  <2>5. \A c \in Pubs : Stored(c)' => c <= drawn' BY <1>1 DEF WellFormed, Stored
  <2>6. QED BY <2>1, <2>2, <2>3, <2>4, <2>5 DEF WellFormed
<1>5. \A k \in Ops : LiveRow(k)' <=> LiveRow(k) BY DEF LiveRow, SameRow
<1>6. OneRunning' BY <1>1 DEF OneRunning, SameRow
<1>7. OwnersHoldLeases'
  BY <1>1, <1>2, <1>5 DEF OwnersHoldLeases, Working, SameRow
<1>8. RecoveryHoldsLease'
  BY <1>1, <1>2, <1>5 DEF RecoveryHoldsLease, Recovery, WellFormed, ProcFormed, Procs
<1>9. RowsAreLinked' BY <1>1 DEF RowsAreLinked, Stored
<1>10. LaunchesAreFresh'
  BY <1>1 DEF LaunchesAreFresh, SameRow, Stored, Reaping, Tearing
<1>11. OwnersMeetTheirTarget'
  BY <1>1, <1>2 DEF OwnersMeetTheirTarget, Removing, Building
<1>12. TeardownHoldsMarker' BY <1>1, <1>5 DEF TeardownHoldsMarker, Tearing
<1>13. ExtensionIsHonoured' BY <1>1 DEF ExtensionIsHonoured, ProcAt
<1>14. QED BY <1>3, <1>4, <1>6, <1>7, <1>8, <1>9, <1>10, <1>11, <1>12, <1>13
           DEF Safe, Typed

\* What the moves write in an owner's record.
LEMMA EndingOwner ==
  ASSUME NEW pc \in OwnerPcs, NEW pub \in Pubs \cup {None}
  PROVE  LET r == [NoOwner EXCEPT !.pc = pc, !.pub = pub]
         IN  r \in Owner /\ r.pc = pc /\ r.pub = pub
BY Bounds DEF NoOwner, Owner, OwnerPcs

LEMMA GotoOwner ==
  ASSUME NEW w \in Owner, NEW pc \in OwnerPcs
  PROVE  LET r == [w EXCEPT !.pc = pc]
         IN  r \in Owner /\ r.pc = pc /\ r.pub = w.pub /\ r.c = w.c /\ r.rt = w.rt
BY DEF Owner

\* The work ends; the receipt or the failure is still to be written.
LEMMA EndMove ==
  ASSUME Safe, NEW o \in Ops, NEW pc \in {"complete", "settle"}, Ending(o, pc),
         op' \in [Ops -> Row], \A k \in Ops : SameRow(k),
         \A k \in Ops : op[k].started => op'[k].started,
         \A k \in Ops : op'[k].started => op[k].intent = "Create",
         UNCHANGED <<link, cont, marker, proc, def, drawn>>,
         rt' \in [Runtimes -> Runtime], late' \in SUBSET (Ops \X Defs),
         seen' \in [Runtimes -> {"no", "seen", "ripe"}],
         faults' \in 0 .. MaxFaults, faults <= faults',
         owner[o].pc # "idle"
  PROVE  Safe'
<1>1. owner \in [Ops -> Owner] BY DEF Safe, Typed, TypeOK
<1>2. pc \in OwnerPcs /\ owner[o].pub \in Pubs \cup {None} BY <1>1 DEF OwnerPcs, Owner
<1> DEFINE r == [NoOwner EXCEPT !.pc = pc, !.pub = owner[o].pub]
<1>3. r \in Owner /\ r.pc = pc /\ r.pub = owner[o].pub BY <1>2, EndingOwner
<1>4. owner' = [owner EXCEPT ![o] = r] BY DEF Ending
<1> HIDE DEF r
<1>5. QED BY <1>3, <1>4, OwnerMove

\* Only the owner moves.
LEMMA Unmoved ==
  ASSUME Safe
  PROVE  /\ op \in [Ops -> Row] /\ owner \in [Ops -> Owner] /\ rt \in [Runtimes -> Runtime]
         /\ late \in SUBSET (Ops \X Defs) /\ seen \in [Runtimes -> {"no", "seen", "ripe"}]
         /\ faults \in 0 .. MaxFaults /\ faults <= faults
         /\ \A k \in Ops : op[k].started => op[k].intent = "Create"
BY Bounds DEF Safe, Typed, TypeOK, WellFormed, RowFormed

LEMMA DestroyedType ==
  ASSUME rt \in [Runtimes -> Runtime], NEW r
  PROVE  Destroyed(r) \in [Runtimes -> Runtime]
<1>1. [NoRuntime EXCEPT !.st = "gone"] \in Runtime BY Blanks DEF Runtime
<1>2. QED BY <1>1 DEF Destroyed

\* The columns an owner writes while its operation runs.
LEMMA ColumnMove ==
  ASSUME Safe, NEW o \in Ops, NEW q \in Row, op' = [op EXCEPT ![o] = q],
         q.state = op[o].state, q.lease = op[o].lease, q.pub = op[o].pub,
         q.intent = op[o].intent, op[o].started => q.started,
         q.started => op[o].intent = "Create"
  PROVE  /\ op' \in [Ops -> Row] /\ \A k \in Ops : SameRow(k)
         /\ \A k \in Ops : op[k].started => op'[k].started
         /\ \A k \in Ops : op'[k].started => op[k].intent = "Create"
BY Unmoved DEF SameRow

LEMMA SameColumns ==
  ASSUME Safe, UNCHANGED op
  PROVE  /\ op' \in [Ops -> Row] /\ \A k \in Ops : SameRow(k)
         /\ \A k \in Ops : op[k].started => op'[k].started
         /\ \A k \in Ops : op'[k].started => op[k].intent = "Create"
BY Unmoved DEF SameRow

LEMMA BindSafe == ASSUME Safe, NEW o \in Ops, Bind(o) PROVE Safe'
<1> USE DEF OwnerStep
<1> DEFINE fence == IF op[o].fence = -1 THEN def ELSE op[o].fence
           q == [op[o] EXCEPT !.fence = IF Owned(o) THEN fence ELSE op[o].fence]
<1>1. /\ op[o] \in Row /\ owner[o] \in Owner /\ owner \in [Ops -> Owner] /\ def \in Defs
      /\ op[o].started => op[o].intent = "Create"
  BY Unmoved DEF Safe, Typed, TypeOK
<1>2. op' = [op EXCEPT ![o] = q] BY DEF Bind
<1>3. q \in Row /\ q.state = op[o].state /\ q.lease = op[o].lease /\ q.pub = op[o].pub
      /\ q.intent = op[o].intent /\ q.started = op[o].started
  BY <1>1 DEF Row
<1>4. /\ op' \in [Ops -> Row] /\ \A k \in Ops : SameRow(k)
      /\ \A k \in Ops : op[k].started => op'[k].started
      /\ \A k \in Ops : op'[k].started => op[k].intent = "Create"
  <2> HIDE DEF q
  <2>1. QED BY <1>1, <1>2, <1>3, ColumnMove
<1>5. CASE Owned(o) /\ fence = def
  <2> DEFINE r == [owner[o] EXCEPT !.def = def, !.pc = "look"]
  <2>1. owner' = [owner EXCEPT ![o] = r] BY <1>5 DEF Bind
  <2>2. r \in Owner /\ r.pc = "look" /\ r.pub = owner[o].pub BY <1>1 DEF Owner, OwnerPcs
  <2>3. owner[o].pc = "bind" BY DEF Bind
  <2> HIDE DEF r
  <2>4. QED BY <1>4, <2>1, <2>2, <2>3, Unmoved, OwnerMove DEF Bind, Working
<1>6. CASE ~(Owned(o) /\ fence = def)
  BY <1>4, <1>6, Unmoved, EndMove DEF Bind
<1>7. QED BY <1>5, <1>6

LEMMA LookSafe ==
  ASSUME Safe, NEW o \in Ops, LookCreate(o) \/ LookDelete(o)
  PROVE  Safe'
<1> USE DEF OwnerStep
<1>1. /\ op[o] \in Row /\ owner[o] \in Owner /\ owner \in [Ops -> Owner] /\ RowsAreLinked
      /\ link \in Pubs \cup {None} /\ cont \in [Pubs -> Container]
  BY Unmoved DEF Safe, Typed, TypeOK
<1>2. /\ owner[o].pc = "look" /\ UNCHANGED <<op, link, cont, rt>>
      /\ UNCHANGED <<marker, def, drawn, late, seen, proc, faults>>
  BY DEF LookCreate, LookDelete
<1>3. CASE \E pc \in {"complete", "settle"} : Ending(o, pc)
  BY <1>2, <1>3, Unmoved, SameColumns, EndMove
<1>4. CASE Goto(o, "start") /\ link = None /\ op[o].intent = "Create"
  <2> DEFINE r == [owner[o] EXCEPT !.pc = "start"]
  <2>1. owner' = [owner EXCEPT ![o] = r] BY <1>4 DEF Goto
  <2>2. r \in Owner /\ r.pc = "start" /\ r.pub = owner[o].pub
    BY <1>1, GotoOwner DEF OwnerPcs
  <2> HIDE DEF r
  <2>3. QED BY <1>2, <1>4, <2>1, <2>2, Unmoved, SameColumns, OwnerMove DEF Working
<1>5. CASE /\ link # None
           /\ owner' = [owner EXCEPT ![o].pc = "revoke", ![o].c = link,
                                     ![o].rt = cont[link].rt]
  <2> DEFINE r == [owner[o] EXCEPT !.pc = "revoke", !.c = link, !.rt = cont[link].rt]
  <2>1. owner' = [owner EXCEPT ![o] = r] BY <1>5
  <2>2. link \in Pubs /\ cont[link].rt \in Runtimes
    BY <1>1, <1>5 DEF RowsAreLinked, Stored, Container
  <2>3. r \in Owner /\ r.pc = "revoke" /\ r.pub = owner[o].pub /\ r.c = link
        /\ r.rt = cont[link].rt
    BY <1>1, <2>2 DEF Owner, OwnerPcs
  <2> HIDE DEF r
  <2>4. QED BY <1>2, <2>1, <2>2, <2>3, Unmoved, SameColumns, OwnerMove DEF Working
<1>6. QED BY <1>3, <1>4, <1>5 DEF LookCreate, LookDelete

\* A new runtime takes the next number.
LEMMA NewRuntimeType ==
  ASSUME TypeOK, NEW o \in Ops, NEW d \in Defs, Born # Runtimes
  PROVE  /\ Cardinality(Born) + 1 \in Runtimes
         /\ NewRuntime(o, d) \in [Runtimes -> Runtime]
<1>1. MaxRuntimes \in Nat /\ Born \subseteq Runtimes BY Bounds DEF Born
<1>2. IsFiniteSet(Runtimes) /\ Cardinality(Runtimes) = MaxRuntimes
  <2>1. 1 \in Int /\ MaxRuntimes \in Int BY <1>1
  <2>2. QED BY <1>1, <2>1, FS_Interval DEF Runtimes
<1>3. Cardinality(Born) \in Nat /\ Cardinality(Born) < MaxRuntimes
  BY <1>1, <1>2, FS_Subset, FS_CardinalityType
<1>4. Cardinality(Born) + 1 \in Runtimes BY <1>1, <1>3 DEF Runtimes
<1>5. [op |-> o, def |-> d, st |-> "up"] \in Runtime BY DEF Runtime
<1>6. QED BY <1>4, <1>5 DEF NewRuntime, TypeOK

LEMMA RevokeSafe ==
  ASSUME Safe, NEW o \in Ops, Revoke(o) \/ Discard(o)
  PROVE  Safe'
<1> USE DEF OwnerStep
<1>1. /\ owner[o] \in Owner /\ owner \in [Ops -> Owner]
      /\ WellFormed /\ OwnersMeetTheirTarget
  BY Unmoved DEF Safe, Typed, TypeOK
<1>2. rt' \in [Runtimes -> Runtime]
  BY Unmoved, DestroyedType DEF Revoke, Discard
<1>3. CASE Revoke(o)
  <2> DEFINE r == [owner[o] EXCEPT !.pc = "unlink"]
  <2>1. owner' = [owner EXCEPT ![o] = r] /\ owner[o].pc = "revoke"
    BY <1>3 DEF Revoke, Goto
  <2>2. /\ r \in Owner /\ r.pc = "unlink" /\ r.pub = owner[o].pub /\ r.c = owner[o].c
        /\ r.rt = owner[o].rt
    BY <1>1, GotoOwner DEF OwnerPcs
  <2>3. /\ r.c \in Pubs /\ r.rt \in Runtimes /\ link = r.c /\ cont[r.c].rt = r.rt
    BY <1>1, <2>1, <2>2 DEF WellFormed, OwnerFormed, OwnersMeetTheirTarget, Removing
  <2> HIDE DEF r
  <2>4. QED BY <1>2, <1>3, <2>1, <2>2, <2>3, Unmoved, SameColumns, OwnerMove
            DEF Revoke, Working
<1>4. CASE Discard(o)
  <2>1. Ending(o, "settle") /\ owner[o].pc # "idle" BY <1>4 DEF Discard
  <2>2. QED BY <1>2, <1>4, <2>1, Unmoved, SameColumns, EndMove DEF Discard
<1>5. QED BY <1>3, <1>4

LEMMA StartSafe == ASSUME Safe, NEW o \in Ops, Start(o) PROVE Safe'
<1> USE DEF OwnerStep
<1> DEFINE fenced == Owned(o) /\ op[o].fence # -1
           q == [op[o] EXCEPT !.started = op[o].started \/ fenced]
<1>1. /\ op[o] \in Row /\ owner[o] \in Owner /\ owner \in [Ops -> Owner]
      /\ WellFormed /\ OwnersMeetTheirTarget
  BY Unmoved DEF Safe, Typed, TypeOK
<1>2. owner[o].pc = "start" BY DEF Start
<1>3. op[o].intent = "Create" /\ link = None
  BY <1>1, <1>2 DEF WellFormed, OwnerFormed, OwnersMeetTheirTarget, Building
<1>4. op' = [op EXCEPT ![o] = q] BY DEF Start
<1>5. /\ q \in Row /\ q.state = op[o].state /\ q.lease = op[o].lease /\ q.pub = op[o].pub
      /\ q.intent = op[o].intent /\ (op[o].started => q.started)
  BY <1>1 DEF Row
<1>6. /\ op' \in [Ops -> Row] /\ \A k \in Ops : SameRow(k)
      /\ \A k \in Ops : op[k].started => op'[k].started
      /\ \A k \in Ops : op'[k].started => op[k].intent = "Create"
  <2> HIDE DEF q
  <2>1. QED BY <1>3, <1>4, <1>5, ColumnMove
<1>7. CASE fenced
  <2> DEFINE r == [owner[o] EXCEPT !.pc = "create"]
  <2>1. owner' = [owner EXCEPT ![o] = r] BY <1>7 DEF Start, Goto
  <2>2. r \in Owner /\ r.pc = "create" /\ r.pub = owner[o].pub
    BY <1>1, GotoOwner DEF OwnerPcs
  <2> HIDE DEF r
  <2>3. QED BY <1>2, <1>3, <1>6, <2>1, <2>2, Unmoved, OwnerMove DEF Start, Working
<1>8. CASE ~fenced
  <2>1. Ending(o, "settle") BY <1>8 DEF Start
  <2>2. QED BY <1>2, <1>6, <2>1, Unmoved, EndMove DEF Start
<1>9. QED BY <1>7, <1>8

LEMMA CreateSafe == ASSUME Safe, NEW o \in Ops, Create(o) PROVE Safe'
<1> USE DEF OwnerStep
<1>1. /\ owner[o] \in Owner /\ owner \in [Ops -> Owner] /\ TypeOK
      /\ WellFormed /\ OwnersMeetTheirTarget
  BY Unmoved DEF Safe, Typed, TypeOK
<1>2. /\ owner[o].pc = "create" /\ UNCHANGED <<op, link, cont>>
      /\ UNCHANGED <<marker, def, drawn, late, seen, proc, faults>>
  BY DEF Create
<1>3. op[o].intent = "Create" /\ link = None /\ owner[o].def \in Defs
  BY <1>1, <1>2 DEF WellFormed, OwnerFormed, OwnersMeetTheirTarget, Building, Owner
<1>4. ASSUME NEW x \in Runtimes, rt' \in [Runtimes -> Runtime],
             owner' = [owner EXCEPT ![o].pc = "record", ![o].rt = x]
      PROVE  Safe'
  <2> DEFINE r == [owner[o] EXCEPT !.pc = "record", !.rt = x]
  <2>1. owner' = [owner EXCEPT ![o] = r] BY <1>4
  <2>2. r \in Owner /\ r.pc = "record" /\ r.pub = owner[o].pub /\ r.rt = x
    BY <1>1 DEF Owner, OwnerPcs
  <2> HIDE DEF r
  <2>3. QED BY <1>2, <1>3, <1>4, <2>1, <2>2, Unmoved, SameColumns, OwnerMove DEF Working
<1>5. ASSUME rt' \in [Runtimes -> Runtime], Ending(o, "settle") PROVE Safe'
  BY <1>2, <1>5, Unmoved, SameColumns, EndMove
<1>6. CASE \E r \in Labelled(o) :
             IF rt[r].st = "up" /\ rt[r].def = owner[o].def
             THEN /\ owner' = [owner EXCEPT ![o].pc = "record", ![o].rt = r]
                  /\ UNCHANGED rt
             ELSE /\ Ending(o, "settle")
                  /\ rt' = IF rt[r].st = "up" THEN rt ELSE Destroyed(r)
  BY <1>4, <1>5, <1>6, Unmoved, DestroyedType DEF Labelled
<1>7. CASE /\ Born # Runtimes
           /\ rt' = NewRuntime(o, owner[o].def)
           /\ owner' = [owner EXCEPT ![o].pc = "record", ![o].rt = Cardinality(Born) + 1]
  BY <1>1, <1>3, <1>4, <1>7, NewRuntimeType
<1>8. CASE Ending(o, "settle") /\ UNCHANGED rt BY <1>5, <1>8, Unmoved
<1>9. QED BY <1>6, <1>7, <1>8 DEF Create

LEMMA RecordSafe == ASSUME Safe, NEW o \in Ops, Record(o) PROVE Safe'
<1> USE DEF OwnerStep
<1> DEFINE fenced == Owned(o) /\ op[o].started
           kept == IF op[o].rt = None THEN owner[o].rt ELSE op[o].rt
           q == [op[o] EXCEPT !.rt = IF fenced THEN kept ELSE op[o].rt]
<1>1. /\ op[o] \in Row /\ owner[o] \in Owner /\ owner \in [Ops -> Owner]
      /\ WellFormed /\ OwnersMeetTheirTarget
      /\ op[o].started => op[o].intent = "Create"
  BY Unmoved DEF Safe, Typed, TypeOK
<1>2. owner[o].pc = "record" BY DEF Record
<1>3. op[o].intent = "Create" /\ link = None /\ owner[o].rt \in Runtimes
  BY <1>1, <1>2 DEF WellFormed, OwnerFormed, OwnersMeetTheirTarget, Building, Holding
<1>4. op' = [op EXCEPT ![o] = q] BY DEF Record
<1>5. /\ q \in Row /\ q.state = op[o].state /\ q.lease = op[o].lease /\ q.pub = op[o].pub
      /\ q.intent = op[o].intent /\ q.started = op[o].started
  BY <1>1 DEF Row, Owner
<1>6. /\ op' \in [Ops -> Row] /\ \A k \in Ops : SameRow(k)
      /\ \A k \in Ops : op[k].started => op'[k].started
      /\ \A k \in Ops : op'[k].started => op[k].intent = "Create"
  <2> HIDE DEF q
  <2>1. QED BY <1>1, <1>4, <1>5, ColumnMove
<1>7. CASE Goto(o, "publish")
  <2> DEFINE r == [owner[o] EXCEPT !.pc = "publish"]
  <2>1. owner' = [owner EXCEPT ![o] = r] BY <1>7 DEF Goto
  <2>2. r \in Owner /\ r.pc = "publish" /\ r.pub = owner[o].pub /\ r.rt = owner[o].rt
    BY <1>1, GotoOwner DEF OwnerPcs
  <2> HIDE DEF r
  <2>3. QED BY <1>2, <1>3, <1>6, <2>1, <2>2, Unmoved, OwnerMove DEF Record, Working
<1>8. CASE Ending(o, "settle")
  BY <1>2, <1>6, <1>8, Unmoved, EndMove DEF Record
<1>9. QED BY <1>7, <1>8 DEF Record

\* A publication that cannot be, and work that fails.
LEMMA DiscardSafe ==
  ASSUME Safe, NEW o \in Ops, owner[o].pc = "publish", Goto(o, "discard"),
         UNCHANGED <<op, link, cont, marker, proc, def, drawn, rt, late, seen>>,
         faults' \in 0 .. MaxFaults, faults <= faults'
  PROVE  Safe'
<1>1. /\ owner[o] \in Owner /\ owner \in [Ops -> Owner]
      /\ WellFormed /\ OwnersMeetTheirTarget
  BY Unmoved DEF Safe, Typed, TypeOK
<1>2. op[o].intent = "Create" /\ link = None /\ owner[o].rt \in Runtimes
  BY <1>1 DEF WellFormed, OwnerFormed, OwnersMeetTheirTarget, Building, Holding
<1> DEFINE r == [owner[o] EXCEPT !.pc = "discard"]
<1>3. owner' = [owner EXCEPT ![o] = r] BY DEF Goto
<1>4. r \in Owner /\ r.pc = "discard" /\ r.pub = owner[o].pub /\ r.rt = owner[o].rt
  BY <1>1, GotoOwner DEF OwnerPcs
<1> HIDE DEF r
<1>5. QED BY <1>2, <1>3, <1>4, Unmoved, SameColumns, OwnerMove DEF Working

LEMMA FailuresSafe ==
  ASSUME Safe, NEW o \in Ops,
         Ineligible(o) \/ \E pc \in {"idle", "settle"} : OwnerFails(o, pc)
  PROVE  Safe'
<1>1. faults' \in 0 .. MaxFaults /\ faults <= faults'
  BY Bounds, Unmoved DEF Ineligible, OwnerFails
<1>2. CASE Ineligible(o) BY <1>1, <1>2, DiscardSafe DEF Ineligible, rows, backend
<1>3. ASSUME NEW pc \in {"idle", "settle"}, OwnerFails(o, pc) PROVE Safe'
  <2>1. late' \in SUBSET (Ops \X Defs)
    <3>1. owner[o].def \in Defs BY Unmoved DEF Owner
    <3>2. QED BY <1>3, <3>1, Unmoved DEF OwnerFails
  <2>2. CASE pc = "idle"
    <3>1. owner' = [owner EXCEPT ![o] = NoOwner] /\ owner[o].pc # "idle"
      BY <1>3, <2>2 DEF OwnerFails
    <3>2. QED BY <1>1, <1>3, <2>1, <3>1, Blanks, Unmoved, SameColumns, OwnerMove
              DEF OwnerFails, rows
  <2>3. CASE pc = "settle"
    BY <1>1, <1>3, <2>1, <2>3, Unmoved, SameColumns, EndMove DEF OwnerFails, rows
  <2>4. QED BY <2>2, <2>3
<1>4. QED BY <1>2, <1>3

LEMMA SafeParts ==
  ASSUME Safe
  PROVE  /\ TypeOK /\ WellFormed /\ OneRunning /\ OwnersHoldLeases /\ RecoveryHoldsLease
         /\ RowsAreLinked /\ LaunchesAreFresh /\ OwnersMeetTheirTarget
         /\ TeardownHoldsMarker /\ ExtensionIsHonoured
BY DEF Safe, Typed

\* While an owner works, nobody else does: no other operation runs, recovery is
\* elsewhere, and a teardown can only find that its container is gone.
LEMMA Alone ==
  ASSUME Safe, NEW o \in Ops, Working(o)
  PROVE  /\ LiveRow(o) /\ op[o].pub = owner[o].pub /\ ~Recovery
         /\ \A k \in Ops : k # o => op[k].state # "Running" /\ ~Working(k)
         /\ \A p \in Procs : Tearing(p) =>
              proc[p].pc = "check" /\ cont[proc[p].c].rt # proc[p].rt
<1>1. LiveRow(o) /\ op[o].pub = owner[o].pub
  BY SafeParts DEF OwnersHoldLeases
<1>2. \A k \in Ops : k # o => op[k].state # "Running" /\ ~Working(k)
  BY <1>1, SafeParts DEF OneRunning, OwnersHoldLeases, LiveRow
<1>3. ~Recovery
  <2>1. SUFFICES ASSUME Recovery PROVE FALSE OBVIOUS
  <2>2. proc["cron"].op \in Ops
    BY <2>1, SafeParts DEF WellFormed, ProcFormed, Recovery, Procs
  <2>3. LiveRow(proc["cron"].op) /\ owner[proc["cron"].op].pc = "idle"
    BY <2>1, SafeParts DEF RecoveryHoldsLease
  <2>4. QED BY <1>2, <2>2, <2>3 DEF LiveRow, Working
<1>4. \A p \in Procs : Tearing(p) =>
        proc[p].pc = "check" /\ cont[proc[p].c].rt # proc[p].rt
  BY <1>1, SafeParts DEF TeardownHoldsMarker
<1>5. QED BY <1>1, <1>2, <1>3, <1>4

\* An operation ends or loses its lease, and its owner with it.
LEMMA RowEnds ==
  ASSUME Safe, NEW o \in Ops, NEW q \in Row, op' = [op EXCEPT ![o] = q],
         NEW r \in Owner, owner' = [owner EXCEPT ![o] = r],
         UNCHANGED <<link, cont, marker, proc, def, drawn, rt, late, seen, faults>>,
         r.pc = "idle",
         q.pub = op[o].pub, q.intent = op[o].intent,
         op[o].state # "Absent", q.state # "Absent", q.started => op[o].started,
         q.state = "Running" => op[o].state = "Running",
         Recovery => proc["cron"].op # o,
         q.lease = "live" /\ q.state = "Running" => LiveRow(o)
  PROVE  Safe'
<1>1. /\ op'[o] = q /\ op' \in [Ops -> Row]
      /\ \A k \in Ops : k # o => op'[k] = op[k]
      /\ owner'[o] = r /\ owner' \in [Ops -> Owner]
      /\ \A k \in Ops : k # o => owner'[k] = owner[k]
  BY Unmoved
<1>2. TypeOK' BY <1>1, SafeParts DEF TypeOK
<1>3. WellFormed'
  <2>1. \A k \in Ops : OwnerFormed(k)'
    BY <1>1, SafeParts DEF WellFormed, OwnerFormed, Removing, Holding, Building
  <2>2. \A k \in Ops : RowFormed(k)' BY <1>1, SafeParts DEF WellFormed, RowFormed
  <2>3. \A p \in Procs : ProcFormed(p)'
    BY SafeParts DEF WellFormed, ProcFormed, Reaping, Tearing
  <2>4. QED BY <2>1, <2>2, <2>3, SafeParts DEF WellFormed, Stored
<1>4. \A k \in Ops : LiveRow(k)' => LiveRow(k) BY <1>1 DEF LiveRow
<1>5. OneRunning' BY <1>1, SafeParts DEF OneRunning
<1>6. OwnersHoldLeases' BY <1>1, SafeParts DEF OwnersHoldLeases, Working, LiveRow
<1>7. RecoveryHoldsLease'
  BY <1>1, SafeParts DEF RecoveryHoldsLease, Recovery, LiveRow, WellFormed, ProcFormed, Procs
<1>8. RowsAreLinked' BY SafeParts DEF RowsAreLinked, Stored
<1>9. LaunchesAreFresh'
  BY <1>1, SafeParts DEF LaunchesAreFresh, Stored, Reaping, Tearing
<1>10. OwnersMeetTheirTarget'
  BY <1>1, SafeParts DEF OwnersMeetTheirTarget, Removing, Building
<1>11. TeardownHoldsMarker' BY <1>4, SafeParts DEF TeardownHoldsMarker, Tearing
<1>12. ExtensionIsHonoured' BY SafeParts DEF ExtensionIsHonoured, ProcAt
<1>13. QED BY <1>2, <1>3, <1>5, <1>6, <1>7, <1>8, <1>9, <1>10, <1>11, <1>12
           DEF Safe, Typed

LEMMA FailedRowType ==
  ASSUME NEW o \in Ops, op[o] \in Row
  PROVE  /\ FailedRow(o) \in Row /\ FailedRow(o).state = "Failed"
         /\ FailedRow(o).pub = op[o].pub /\ FailedRow(o).intent = op[o].intent
         /\ ~FailedRow(o).started /\ FailedRow(o).rt = None
BY Bounds DEF FailedRow, NoRow, Row, Intents

LEMMA CompleteSafe ==
  ASSUME Safe, NEW o \in Ops, Complete(o) \/ Settle(o)
  PROVE  Safe'
<1> USE DEF OwnerStep
<1>1. op[o] \in Row /\ owner[o].pc # "idle" BY Unmoved DEF Complete, Settle
<1>2. Recovery => proc["cron"].op # o BY <1>1, SafeParts DEF RecoveryHoldsLease
<1>3. owner' = [owner EXCEPT ![o] = NoOwner] BY DEF Complete, Settle
<1>4. op[o].state = "Running" => LiveRow(o)
  BY <1>1, SafeParts DEF OwnersHoldLeases, LiveRow
<1>8. UNCHANGED <<link, cont, marker, proc, def, drawn, rt, late, seen, faults>>
  BY DEF Complete, Settle
<1>5. CASE Owned(o)
  <2>1. op[o].state = "Running" BY <1>5 DEF Owned
  <2>2. CASE Complete(o)
    <3> DEFINE q == [op[o] EXCEPT !.state = "Succeeded"]
    <3>1. op' = [op EXCEPT ![o] = q] BY <1>5, <2>2 DEF Complete
    <3>2. /\ q \in Row /\ q.state = "Succeeded" /\ q.pub = op[o].pub
          /\ q.intent = op[o].intent /\ q.started = op[o].started
      BY <1>1 DEF Row
    <3> HIDE DEF q
    <3>3. QED BY <1>2, <1>3, <1>8, <2>1, <3>1, <3>2, Blanks, RowEnds
  <2>3. CASE Settle(o) /\ op[o].started
    <3> DEFINE q == [op[o] EXCEPT !.lease = "expired"]
    <3>1. op' = [op EXCEPT ![o] = q] BY <1>5, <2>3 DEF Settle
    <3>2. /\ q \in Row /\ q.state = op[o].state /\ q.pub = op[o].pub
          /\ q.intent = op[o].intent /\ q.started = op[o].started /\ q.lease = "expired"
      BY <1>1 DEF Row
    <3> HIDE DEF q
    <3>3. QED BY <1>2, <1>3, <1>8, <2>1, <2>3, <3>1, <3>2, Blanks, RowEnds
  <2>4. CASE Settle(o) /\ ~op[o].started
    <3>1. op' = [op EXCEPT ![o] = FailedRow(o)] BY <1>5, <2>4 DEF Settle
    <3>2. /\ FailedRow(o) \in Row /\ FailedRow(o).state = "Failed"
          /\ FailedRow(o).pub = op[o].pub /\ FailedRow(o).intent = op[o].intent
          /\ ~FailedRow(o).started
      BY <1>1, FailedRowType
    <3>3. QED BY <1>2, <1>3, <1>8, <2>1, <3>1, <3>2, Blanks, RowEnds
  <2>5. QED BY <2>2, <2>3, <2>4
<1>6. CASE ~Owned(o)
  <2>1. op' = op
    <3>1. op' = [op EXCEPT ![o] = op[o]]
      <4>1. CASE Complete(o)
        <5>1. op' = [op EXCEPT ![o] = [op[o] EXCEPT !.state = op[o].state]]
          BY <1>6, <4>1 DEF Complete
        <5>2. [op[o] EXCEPT !.state = op[o].state] = op[o] BY <1>1 DEF Row
        <5>3. QED BY <5>1, <5>2
      <4>2. CASE Settle(o) BY <1>6, <4>2 DEF Settle
      <4>3. QED BY <4>1, <4>2
    <3>2. QED BY <3>1, Unmoved
  <2>2. QED BY <1>1, <1>3, <1>8, <2>1, Blanks, Unmoved, SameColumns, OwnerMove
<1>7. QED BY <1>5, <1>6

LEMMA LeaseSafe ==
  ASSUME Safe, NEW o \in Ops, LeaseExpires(o) \/ LeaseAges(o)
  PROVE  Safe'
<1> DEFINE q(x) == [op[o] EXCEPT !.lease = x]
<1>1. op[o] \in Row /\ op[o].state = "Running" /\ owner[o] \in Owner
  BY Unmoved DEF LeaseExpires, LeaseAges, LiveRow
<1>2. PICK x \in {"expired", "stale", "old"} : op' = [op EXCEPT ![o] = q(x)]
  <2>1. CASE LeaseExpires(o) BY <2>1 DEF LeaseExpires
  <2>2. CASE LeaseAges(o)
    <3>1. op' = [op EXCEPT ![o] = q(IF op[o].lease = "expired" THEN "stale" ELSE "old")]
      BY <2>2 DEF LeaseAges
    <3>2. QED BY <3>1
  <2>3. QED BY <2>1, <2>2
<1>3. /\ q(x) \in Row /\ q(x).state = op[o].state /\ q(x).pub = op[o].pub
      /\ q(x).intent = op[o].intent /\ q(x).started = op[o].started /\ q(x).lease = x
  BY <1>1 DEF Row
<1>4. owner[o].pc = "idle"
  BY SafeParts DEF LeaseExpires, LeaseAges, OwnersHoldLeases
<1>5. owner' = [owner EXCEPT ![o] = owner[o]] BY Unmoved DEF LeaseExpires, LeaseAges
<1>6. Recovery => proc["cron"].op # o
  BY SafeParts DEF LeaseExpires, LeaseAges, RecoveryHoldsLease, LiveRow
<1> HIDE DEF q
<1>7. UNCHANGED <<link, cont, marker, proc, def, drawn, rt, late, seen, faults>>
  BY DEF LeaseExpires, LeaseAges, backend
<1>8. QED BY <1>1, <1>2, <1>3, <1>4, <1>5, <1>6, <1>7, RowEnds

\* A working owner changes the rows of the instance: it extends, publishes or
\* unlinks the container, and its operation goes on or is done.
LEMMA RowsMove ==
  ASSUME Safe, NEW o \in Ops, Working(o),
         NEW q \in Row, op' = [op EXCEPT ![o] = q],
         q.pub = op[o].pub, q.intent = op[o].intent, q.started = op[o].started,
         q.state \in {"Running", "Succeeded"}, q.lease = op[o].lease,
         NEW r \in Owner, owner' = [owner EXCEPT ![o] = r], r.pub = owner[o].pub,
         r.pc = "complete" \/ (r.pc = "start" /\ q.state = "Running" /\ op[o].intent = "Create"
                               /\ link' = None),
         link' \in Pubs \cup {None}, cont' \in [Pubs -> Container],
         \A c \in Pubs : Stored(c)' <=> link' = c,
         \A c \in Pubs : cont'[c].rt # cont[c].rt =>
           cont'[c].rt = None \/ (c = op[o].pub /\ op[o].intent = "Create"),
         q.state = "Running" => \A c \in Pubs : cont'[c].rt # None => cont[c].rt # None,
         UNCHANGED <<marker, proc, def, drawn, rt, late, seen, faults>>
  PROVE  Safe'
<1>1. /\ op'[o] = q /\ op' \in [Ops -> Row]
      /\ \A k \in Ops : k # o => op'[k] = op[k]
      /\ owner'[o] = r /\ owner' \in [Ops -> Owner]
      /\ \A k \in Ops : k # o => owner'[k] = owner[k]
  BY Unmoved
<1>2. /\ LiveRow(o) /\ op[o].pub = owner[o].pub /\ ~Recovery
      /\ \A k \in Ops : k # o => op[k].state # "Running" /\ ~Working(k)
      /\ \A p \in Procs : Tearing(p) =>
           proc[p].pc = "check" /\ cont[proc[p].c].rt # proc[p].rt
  BY Alone
<1>3. op[o].pub \in 1 .. drawn /\ op[o].pub \in Pubs
  BY <1>2, SafeParts, Bounds DEF WellFormed, RowFormed, LiveRow, TypeOK, Pubs
<1>4. TypeOK' BY <1>1, SafeParts DEF TypeOK
<1>5. WellFormed'
  <2>1. \A k \in Ops : OwnerFormed(k)'
    BY <1>1, <1>2, <1>3, SafeParts DEF WellFormed, OwnerFormed, Removing, Holding, Building
  <2>2. \A k \in Ops : RowFormed(k)'
    BY <1>1, <1>3, SafeParts DEF WellFormed, RowFormed
  <2>3. \A p \in Procs : ProcFormed(p)'
    BY SafeParts DEF WellFormed, ProcFormed, Reaping, Tearing
  <2>4. \A c \in Pubs : Stored(c)' => c <= drawn'
    <3>1. \A c \in Pubs : Stored(c)' => Stored(c) \/ c = op[o].pub BY DEF Stored
    <3>2. drawn \in Nat BY SafeParts, Bounds DEF TypeOK
    <3>3. QED BY <1>3, <3>1, <3>2, SafeParts DEF WellFormed
  <2>5. QED BY <2>1, <2>2, <2>3, <2>4, SafeParts DEF WellFormed
<1>6. OneRunning' BY <1>1, <1>2 DEF OneRunning
<1>7. OwnersHoldLeases'
  BY <1>1, <1>2, SafeParts DEF OwnersHoldLeases, Working, LiveRow
<1>8. RecoveryHoldsLease' BY <1>2 DEF RecoveryHoldsLease, Recovery
<1>9. RowsAreLinked' BY DEF RowsAreLinked
<1>10. LaunchesAreFresh'
  <2> SUFFICES ASSUME NEW k \in Ops, op'[k].state = "Running", op'[k].intent = "Create"
               PROVE  /\ cont'[op'[k].pub].rt = None
                      /\ \A p \in Procs : Reaping(p)' => proc'[p].c # op'[k].pub
    BY DEF LaunchesAreFresh, Stored
  <2>1. k = o /\ q.state = "Running" BY <1>1, <1>2
  <2>2. ~Stored(op[o].pub) /\ \A p \in Procs : Reaping(p) => proc[p].c # op[o].pub
    BY <1>1, <1>2, <2>1, SafeParts DEF LaunchesAreFresh, LiveRow
  <2>3. cont'[op[o].pub].rt = None BY <1>3, <2>1, <2>2 DEF Stored
  <2>4. \A p \in Procs : Reaping(p)' => proc'[p].c # op[o].pub
    BY <2>2 DEF Reaping, Tearing
  <2>5. op'[k].pub = op[o].pub BY <1>1, <2>1
  <2>6. QED BY <2>3, <2>4, <2>5
<1>11. OwnersMeetTheirTarget'
  <2>1. \A k \in Ops : k # o => ~Removing(k)' /\ ~Building(k)'
    BY <1>1, <1>2 DEF Removing, Building, Working
  <2>2. ~Removing(o)' /\ (Building(o)' => link' = None)
    BY <1>1 DEF Removing, Building
  <2>3. QED BY <2>1, <2>2 DEF OwnersMeetTheirTarget
<1>12. TeardownHoldsMarker'
  <2> SUFFICES ASSUME NEW p \in Procs, Tearing(p)
               PROVE  /\ marker[proc[p].c] = p /\ proc[p].pc = "check"
                      /\ cont'[proc[p].c].rt # proc[p].rt
    BY DEF TeardownHoldsMarker, Tearing
  <2>1. marker[proc[p].c] = p /\ proc[p].pc = "check" /\ cont[proc[p].c].rt # proc[p].rt
    BY <1>2, SafeParts DEF TeardownHoldsMarker
  <2>2. proc[p].c \in Pubs /\ proc[p].rt \in Runtimes /\ Reaping(p)
    BY SafeParts, Bounds DEF WellFormed, ProcFormed, Reaping, TypeOK, Pubs
  <2>3. proc[p].rt # None BY <2>2, Bounds DEF None
  <2>4. op[o].intent = "Create" => proc[p].c # op[o].pub
    BY <1>2, <2>2, SafeParts DEF LaunchesAreFresh, LiveRow
  <2>5. QED BY <2>1, <2>2, <2>3, <2>4
<1>13. ExtensionIsHonoured'
  BY <1>2 DEF ExtensionIsHonoured, ProcAt, Tearing, Procs
<1>14. QED BY <1>4, <1>5, <1>6, <1>7, <1>8, <1>9, <1>10, <1>11, <1>12, <1>13
           DEF Safe, Typed

LEMMA Receipt ==
  ASSUME NEW x \in Row
  PROVE  LET q == [x EXCEPT !.state = "Succeeded"]
         IN  /\ q \in Row /\ q.state = "Succeeded" /\ q.pub = x.pub /\ q.intent = x.intent
             /\ q.started = x.started /\ q.lease = x.lease /\ q.rt = x.rt
BY DEF Row

LEMMA ExtendSafe == ASSUME Safe, NEW o \in Ops, Extend(o) PROVE Safe'
<1> USE DEF OwnerStep
<1>0. owner[o].pub \in Pubs \cup {None} /\ "complete" \in OwnerPcs
  BY Unmoved DEF OwnerPcs, Owner
<1>1. owner[o].pc = "look" /\ Working(o) BY DEF Extend, Working
<1>2. /\ op[o] \in Row /\ owner[o] \in Owner /\ owner \in [Ops -> Owner]
      /\ cont \in [Pubs -> Container] /\ link \in Pubs \cup {None}
  BY SafeParts DEF TypeOK
<1>3. UNCHANGED <<marker, proc, def, drawn, rt, late, seen, faults, link>> BY DEF Extend
<1>4. CASE link = owner[o].pub /\ Owned(o)
  <2> DEFINE q == [op[o] EXCEPT !.state = "Succeeded"]
             r == [NoOwner EXCEPT !.pc = "complete", !.pub = owner[o].pub]
  <2>1. PICK due \in {FALSE, cont[link].due} : cont' = [cont EXCEPT ![link].due = due]
    BY <1>4 DEF Extend
  <2>2. op' = [op EXCEPT ![o] = q] /\ owner' = [owner EXCEPT ![o] = r]
    BY <1>4 DEF Extend, Ending
  <2>3. /\ q \in Row /\ q.pub = op[o].pub /\ q.intent = op[o].intent /\ q.started = op[o].started
        /\ q.state = "Succeeded" /\ q.lease = op[o].lease
    BY <1>2, Receipt
  <2>4. r \in Owner /\ r.pc = "complete" /\ r.pub = owner[o].pub
    BY <1>0, EndingOwner
  <2>5. link \in Pubs
    BY <1>1, <1>4, SafeParts DEF WellFormed, OwnerFormed
  <2>6. due \in BOOLEAN BY <1>2, <2>5 DEF Container
  <2>7. cont' \in [Pubs -> Container] /\ \A c \in Pubs : cont'[c].rt = cont[c].rt
    <3> DEFINE x == [cont[link] EXCEPT !.due = due]
    <3>1. x \in Container /\ x.rt = cont[link].rt BY <1>2, <2>5, <2>6 DEF Container
    <3>2. cont' = [cont EXCEPT ![link] = x] BY <2>1
    <3> HIDE DEF x
    <3>3. QED BY <1>2, <2>5, <3>1, <3>2
  <2>8. \A c \in Pubs : Stored(c)' <=> link' = c
    BY <1>3, <2>7, SafeParts DEF Stored, RowsAreLinked
  <2> HIDE DEF q, r
  <2>9. QED BY <1>1, <1>2, <1>3, <2>2, <2>3, <2>4, <2>7, <2>8, RowsMove
<1>5. CASE ~(link = owner[o].pub /\ Owned(o))
  BY <1>1, <1>3, <1>5, Unmoved, SameColumns, EndMove DEF Extend
<1>6. QED BY <1>4, <1>5

LEMMA PublishSafe == ASSUME Safe, NEW o \in Ops, Publish(o) PROVE Safe'
<1> USE DEF OwnerStep
<1>0. owner[o].pub \in Pubs \cup {None} /\ "complete" \in OwnerPcs
  BY Unmoved DEF OwnerPcs, Owner
<1>1. owner[o].pc = "publish" /\ Working(o) BY DEF Publish, Working
<1>2. /\ op[o] \in Row /\ owner[o] \in Owner /\ owner \in [Ops -> Owner]
      /\ cont \in [Pubs -> Container] /\ link \in Pubs \cup {None} /\ def \in Defs
  BY SafeParts DEF TypeOK
<1>3. UNCHANGED <<marker, proc, def, drawn, rt, late, seen, faults>> BY DEF Publish
<1>4. CASE Publishable(o)
  <2> DEFINE c == owner[o].pub
             x == [rt |-> owner[o].rt, def |-> def, due |-> FALSE]
             q == [op[o] EXCEPT !.state = "Succeeded"]
             r == [NoOwner EXCEPT !.pc = "complete", !.pub = owner[o].pub]
  <2>1. /\ op' = [op EXCEPT ![o] = q] /\ owner' = [owner EXCEPT ![o] = r]
        /\ link' = c /\ cont' = [cont EXCEPT ![c] = x]
    BY <1>4 DEF Publish, Ending
  <2>2. /\ q \in Row /\ q.pub = op[o].pub /\ q.intent = op[o].intent /\ q.started = op[o].started
        /\ q.state = "Succeeded" /\ q.lease = op[o].lease
    BY <1>2, Receipt
  <2>3. r \in Owner /\ r.pc = "complete" /\ r.pub = owner[o].pub
    BY <1>0, EndingOwner
  <2>4. /\ c \in Pubs /\ owner[o].rt \in Runtimes /\ op[o].intent = "Create" /\ link = None
    BY <1>1, SafeParts DEF WellFormed, OwnerFormed, Holding, Building, OwnersMeetTheirTarget
  <2>5. op[o].pub = c BY <1>1, Alone
  <2>6. x \in Container /\ x.rt = owner[o].rt BY <1>2, <2>4 DEF Container
  <2>7. owner[o].rt # None BY <2>4, Bounds DEF None
  <2>8. \A d \in Pubs : cont[d].rt = None
    <3>1. \A d \in Pubs : link # d BY <2>4, Bounds DEF None
    <3>2. QED BY <3>1, SafeParts DEF RowsAreLinked, Stored
  <2> HIDE DEF c, x, q, r
  <2>9. /\ cont' \in [Pubs -> Container] /\ cont'[c].rt = owner[o].rt
        /\ \A d \in Pubs : d # c => cont'[d].rt = None
    BY <1>2, <2>1, <2>4, <2>6, <2>8
  <2>10. \A d \in Pubs : Stored(d)' <=> link' = d BY <2>1, <2>7, <2>9 DEF Stored
  <2>11. \A d \in Pubs : cont'[d].rt # cont[d].rt =>
           cont'[d].rt = None \/ (d = op[o].pub /\ op[o].intent = "Create")
    BY <2>4, <2>5, <2>9
  <2>12. link' \in Pubs \cup {None} BY <2>1, <2>4
  <2>13. QED BY <1>1, <1>3, <2>1, <2>2, <2>3, <2>9, <2>10, <2>11, <2>12, RowsMove
<1>5. CASE ~Publishable(o)
  <2>1. faults \in 0 .. MaxFaults /\ faults <= faults BY Unmoved
  <2>2. QED BY <1>1, <1>3, <1>5, <2>1, DiscardSafe DEF Publish
<1>6. QED BY <1>4, <1>5

LEMMA UnlinkSafe == ASSUME Safe, NEW o \in Ops, Unlink(o) PROVE Safe'
<1> USE DEF OwnerStep
<1>0. owner[o].pub \in Pubs \cup {None} /\ "complete" \in OwnerPcs
  BY Unmoved DEF OwnerPcs, Owner
<1>1. owner[o].pc = "unlink" /\ Working(o) BY DEF Unlink, Working
<1>2. /\ op[o] \in Row /\ op \in [Ops -> Row] /\ owner[o] \in Owner /\ owner \in [Ops -> Owner]
      /\ cont \in [Pubs -> Container] /\ link \in Pubs \cup {None}
  BY SafeParts DEF TypeOK
<1>3. UNCHANGED <<op, marker, proc, def, drawn, rt, late, seen, faults>> BY DEF Unlink
<1>4. /\ owner[o].c \in Pubs /\ link = owner[o].c
      /\ cont[owner[o].c].rt = owner[o].rt
  BY <1>1, SafeParts DEF WellFormed, OwnerFormed, OwnersMeetTheirTarget, Removing
<1>5. link' = None /\ cont' = [cont EXCEPT ![owner[o].c] = NoContainer]
  BY <1>4 DEF Unlink, Cleared
<1>6. op' = [op EXCEPT ![o] = op[o]] BY <1>2, <1>3
<1>7. op[o].state = "Running" /\ op[o].pub = owner[o].pub BY <1>1, Alone DEF LiveRow
<1>8. cont' \in [Pubs -> Container] /\ \A c \in Pubs : cont'[c].rt = None
  <2>1. \A c \in Pubs : c # link => cont[c].rt = None
    BY SafeParts DEF RowsAreLinked, Stored
  <2>2. QED BY <1>2, <1>4, <1>5, <2>1, Blanks
<1>9. \A c \in Pubs : Stored(c)' <=> link' = c BY <1>5, <1>8, Bounds DEF Stored, None
<1>10. \E r \in Owner : /\ owner' = [owner EXCEPT ![o] = r] /\ r.pub = owner[o].pub
                        /\ \/ r.pc = "complete"
                           \/ r.pc = "start" /\ op[o].intent = "Create"
  <2>1. CASE op[o].intent # "Create"
    <3> DEFINE r == [NoOwner EXCEPT !.pc = "complete", !.pub = owner[o].pub]
    <3>1. owner' = [owner EXCEPT ![o] = r] BY <2>1 DEF Unlink, Ending
    <3>2. r \in Owner /\ r.pc = "complete" /\ r.pub = owner[o].pub
      BY <1>0, EndingOwner
    <3> HIDE DEF r
    <3>3. QED BY <3>1, <3>2
  <2>2. CASE op[o].intent = "Create"
    <3> DEFINE r == [owner[o] EXCEPT !.pc = "start", !.c = None, !.rt = None]
    <3>1. owner' = [owner EXCEPT ![o] = r] BY <2>2 DEF Unlink
    <3>2. r \in Owner /\ r.pc = "start" /\ r.pub = owner[o].pub BY <1>2 DEF OwnerPcs, Owner
    <3> HIDE DEF r
    <3>3. QED BY <2>2, <3>1, <3>2
  <2>3. QED BY <2>1, <2>2
<1>11. PICK r \in Owner : /\ owner' = [owner EXCEPT ![o] = r] /\ r.pub = owner[o].pub
                          /\ \/ r.pc = "complete"
                             \/ r.pc = "start" /\ op[o].intent = "Create"
  BY <1>10
<1>12. QED BY <1>1, <1>2, <1>3, <1>5, <1>6, <1>7, <1>8, <1>9, <1>11, RowsMove

(***************************************************************************)
(* Claims.                                                                 *)
(***************************************************************************)
\* A claim that finds no live operation and no pending teardown is alone.
LEMMA ClaimMove ==
  ASSUME Safe, NEW o \in Ops, ~TeardownPending, \A k \in Ops : ~LiveRow(k),
         op' \in [Ops -> Row], \A k \in Ops : k # o => op'[k].state # "Running",
         \A k \in Ops : k # o /\ op'[k].state # "Absent" => op'[k].pub = op[k].pub /\ op[k].state # "Absent",
         \A k \in Ops : k # o /\ owner[k].pc # "idle" => op'[k].intent = op[k].intent,
         \A k \in Ops : k # o /\ op'[k].started => op'[k].intent = "Create",
         LiveRow(o)', op'[o].started => op'[o].intent = "Create",
         NEW r \in Owner, owner' = [owner EXCEPT ![o] = r], r.pub = op'[o].pub,
         r.pc = "look" \/ (r.pc = "bind" /\ op'[o].intent = "Create"),
         drawn' \in 0 .. MaxPubs, drawn <= drawn', op'[o].pub \in 1 .. drawn',
         op'[o].intent = "Create" =>
           \/ op'[o].pub = drawn + 1
           \/ op[o].state = "Running" /\ op[o].intent = "Create" /\ op'[o].pub = op[o].pub,
         UNCHANGED <<link, cont, marker, proc, def, rt, late, seen, faults>>
  PROVE  Safe'
<1>1. /\ owner'[o] = r /\ owner' \in [Ops -> Owner]
      /\ \A k \in Ops : k # o => owner'[k] = owner[k]
  BY Unmoved
<1>2. ~Recovery /\ \A k \in Ops : ~Working(k)
  <2>1. \A k \in Ops : ~Working(k) BY SafeParts DEF OwnersHoldLeases
  <2>2. Recovery => proc["cron"].op \in Ops
    BY SafeParts DEF WellFormed, ProcFormed, Recovery, Procs
  <2>3. QED BY <2>1, <2>2, SafeParts DEF RecoveryHoldsLease
<1>3. drawn \in Nat /\ drawn' \in Nat /\ MaxPubs \in Nat /\ op'[o].pub \in Pubs
  BY SafeParts, Bounds DEF TypeOK, Pubs
<1>4. \A p \in Procs : Reaping(p) => proc[p].c \in 1 .. drawn /\ proc[p].c \in Pubs /\ proc[p].rt \in Runtimes
  BY <1>3, SafeParts DEF WellFormed, ProcFormed, TypeOK, Pubs
<1>5. \A p \in Procs : Tearing(p) =>
        marker[proc[p].c] = p /\ proc[p].pc = "check" /\ cont[proc[p].c].rt # proc[p].rt
  <2> SUFFICES ASSUME NEW p \in Procs, Tearing(p), cont[proc[p].c].rt = proc[p].rt
               PROVE  FALSE
    BY SafeParts DEF TeardownHoldsMarker, Tearing
  <2>1. proc[p].c \in Pubs /\ proc[p].rt # None BY <1>4, Bounds DEF Reaping, None
  <2>2. marker[proc[p].c] # "none"
    BY SafeParts DEF TeardownHoldsMarker, Procs
  <2>3. QED BY <2>1, <2>2 DEF TeardownPending, Stored
<1>6. TypeOK' BY <1>1, SafeParts DEF TypeOK
<1>7. WellFormed'
  <2>1. \A k \in Ops : OwnerFormed(k)'
    <3>1. OwnerFormed(o)' BY <1>1, <1>3 DEF OwnerFormed, Removing, Holding, Building
    <3>2. ASSUME NEW k \in Ops, k # o PROVE OwnerFormed(k)'
      BY <1>1, <3>2, SafeParts DEF WellFormed, OwnerFormed, Removing, Holding, Building
    <3>3. QED BY <3>1, <3>2
  <2>2. \A k \in Ops : RowFormed(k)'
    <3>1. RowFormed(o)' BY DEF RowFormed
    <3>2. ASSUME NEW k \in Ops, k # o PROVE RowFormed(k)'
      BY <1>3, <3>2, SafeParts DEF WellFormed, RowFormed
    <3>3. QED BY <3>1, <3>2
  <2>3. \A p \in Procs : ProcFormed(p)'
    BY <1>3, SafeParts DEF WellFormed, ProcFormed, Reaping, Tearing
  <2>4. \A c \in Pubs : Stored(c)' => c <= drawn'
    BY <1>3, SafeParts DEF WellFormed, Stored, Pubs
  <2>5. QED BY <2>1, <2>2, <2>3, <2>4, SafeParts DEF WellFormed
<1>8. OneRunning' BY DEF OneRunning
<1>9. OwnersHoldLeases' BY <1>1, <1>2 DEF OwnersHoldLeases, Working, LiveRow
<1>10. RecoveryHoldsLease' BY <1>2 DEF RecoveryHoldsLease, Recovery
<1>11. RowsAreLinked' BY SafeParts DEF RowsAreLinked, Stored
<1>12. LaunchesAreFresh'
  <2> SUFFICES ASSUME op'[o].intent = "Create"
               PROVE  /\ cont[op'[o].pub].rt = None
                      /\ \A p \in Procs : Reaping(p) => proc[p].c # op'[o].pub
    BY DEF LaunchesAreFresh, Stored, Reaping, Tearing
  <2>1. CASE op'[o].pub = drawn + 1
    BY <1>3, <1>4, <2>1, SafeParts DEF WellFormed, Stored
  <2>2. CASE op[o].state = "Running" /\ op[o].intent = "Create" /\ op'[o].pub = op[o].pub
    BY <2>2, SafeParts DEF LaunchesAreFresh, Stored
  <2>3. QED BY <2>1, <2>2
<1>13. OwnersMeetTheirTarget'
  BY <1>1, SafeParts DEF OwnersMeetTheirTarget, Removing, Building
<1>14. TeardownHoldsMarker' BY <1>5 DEF TeardownHoldsMarker, Tearing
<1>15. ExtensionIsHonoured' BY SafeParts DEF ExtensionIsHonoured, ProcAt
<1>16. QED BY <1>6, <1>7, <1>8, <1>9, <1>10, <1>11, <1>12, <1>13, <1>14, <1>15
           DEF Safe, Typed

LEMMA SpawnMove ==
  ASSUME NEW o \in Ops, NEW pub \in Pubs \cup {None}, Spawn(o, pub)
  PROVE  \E r \in Owner : /\ owner' = [owner EXCEPT ![o] = r] /\ r.pub = pub
                          /\ \/ r.pc = "look"
                             \/ r.pc = "bind" /\ op'[o].intent = "Create"
<1> DEFINE pc == IF op'[o].intent = "Create" THEN "bind" ELSE "look"
           r == [NoOwner EXCEPT !.pc = pc, !.pub = pub]
<1>1. owner' = [owner EXCEPT ![o] = r] BY DEF Spawn
<1>2. pc \in OwnerPcs BY DEF OwnerPcs
<1>3. r \in Owner /\ r.pc = pc /\ r.pub = pub
  <2> HIDE DEF pc
  <2>1. QED BY <1>2, EndingOwner
<1> HIDE DEF r
<1>4. QED BY <1>1, <1>3

LEMMA ClaimNewSafe ==
  ASSUME Safe, NEW o \in Ops, NEW i \in Intents, NEW e \in Pubs \cup {None},
         ClaimNew(o, i, e)
  PROVE  Safe'
<1> DEFINE pub == PublicationOf(i, e)
           q == [NoRow EXCEPT !.state = "Running", !.intent = i, !.pub = pub,
                   !.lease = "live", !.fence = IF i = "Create" THEN def ELSE -1]
<1>1. /\ op[o].state = "Absent" /\ ~TeardownPending
      /\ \A k \in Rivals(o) : op[k].lease # "live" /\ ~op[k].started
      /\ drawn' = IF i = "Create" THEN drawn + 1 ELSE drawn
      /\ op' = [k \in Ops |-> IF k = o THEN q
                              ELSE IF k \in Rivals(o) THEN FailedRow(k) ELSE op[k]]
      /\ Spawn(o, pub)
      /\ UNCHANGED <<link, cont, marker, proc, def, rt, late, seen, faults>>
  BY DEF ClaimNew, backend
<1>2. /\ pub \in Pubs /\ pub \in 1 .. drawn' /\ drawn' \in 0 .. MaxPubs /\ drawn <= drawn'
      /\ i = "Create" => pub = drawn + 1
  BY SafeParts, Bounds DEF ClaimNew, PublicationOf, TypeOK, Pubs
<1>3. def \in Defs BY SafeParts DEF TypeOK
<1>4. /\ q \in Row /\ q.state = "Running" /\ q.lease = "live" /\ q.pub = pub
      /\ q.intent = i /\ ~q.started
  <2> HIDE DEF pub
  <2>1. QED BY <1>2, <1>3, Bounds DEF NoRow, Row, Intents
<1> HIDE DEF pub, q
<1>5. \A k \in Ops : ~LiveRow(k) BY <1>1 DEF LiveRow, Rivals
<1>6. PICK r \in Owner : /\ owner' = [owner EXCEPT ![o] = r] /\ r.pub = pub
                         /\ \/ r.pc = "look"
                            \/ r.pc = "bind" /\ op'[o].intent = "Create"
  BY <1>1, <1>2, SpawnMove
<1>7. op'[o] = q BY <1>1
<1>8. \A k \in Ops : k # o =>
        /\ op'[k] \in Row /\ op'[k].state # "Running" /\ op'[k].pub = op[k].pub
        /\ op'[k].intent = op[k].intent
        /\ op'[k].started => op[k].started
        /\ op'[k].state = "Absent" <=> op[k].state = "Absent"
  <2> SUFFICES ASSUME NEW k \in Ops, k # o
               PROVE  /\ op'[k] \in Row /\ op'[k].state # "Running" /\ op'[k].pub = op[k].pub
                      /\ op'[k].intent = op[k].intent
                      /\ op'[k].started => op[k].started
                      /\ op'[k].state = "Absent" <=> op[k].state = "Absent"
    OBVIOUS
  <2>1. op[k] \in Row BY Unmoved
  <2>2. CASE k \in Rivals(o)
    <3>1. op'[k] = FailedRow(k) /\ op[k].state = "Running" BY <1>1, <2>2 DEF Rivals
    <3>2. QED BY <2>1, <3>1, FailedRowType
  <2>3. CASE k \notin Rivals(o)
    <3>1. op'[k] = op[k] /\ op[k].state # "Running" BY <1>1, <2>3 DEF Rivals
    <3>2. QED BY <2>1, <3>1
  <2>4. QED BY <2>2, <2>3
<1>9. op' \in [Ops -> Row]
  <2>1. \A k \in Ops : op'[k] \in Row BY <1>4, <1>7, <1>8
  <2>2. op' = [k \in Ops |-> op'[k]] BY <1>1
  <2>3. QED BY <2>1, <2>2
<1>10. LiveRow(o)' BY <1>4, <1>7 DEF LiveRow
<1>11. \A k \in Ops : k # o /\ op'[k].started => op'[k].intent = "Create"
  BY <1>8, Unmoved
<1>12. QED
  BY <1>1, <1>2, <1>4, <1>5, <1>6, <1>7, <1>8, <1>9, <1>10, <1>11, ClaimMove

LEMMA ClaimAgainSafe == ASSUME Safe, NEW o \in Ops, ClaimAgain(o) PROVE Safe'
<1> DEFINE resumed == op[o].state = "Running"
           create == op[o].intent = "Create"
           pub == IF ~resumed /\ create THEN drawn + 1 ELSE op[o].pub
           q == [op[o] EXCEPT !.state = "Running", !.pub = pub, !.lease = "live",
                   !.started = resumed /\ op[o].started,
                   !.fence = IF resumed THEN op[o].fence ELSE -1,
                   !.rt = IF resumed THEN op[o].rt ELSE None]
<1>1. /\ ~TeardownPending /\ Rivals(o) = {}
      /\ \/ resumed /\ op[o].lease # "live"
         \/ op[o].state = "Failed"
         \/ op[o].state = "Succeeded" /\ create
      /\ pub <= MaxPubs
      /\ drawn' = IF pub > drawn THEN pub ELSE drawn
      /\ op' = [op EXCEPT ![o] = q]
      /\ Spawn(o, pub)
      /\ UNCHANGED <<link, cont, marker, proc, def, rt, late, seen, faults>>
  BY DEF ClaimAgain, backend
<1>2. op[o] \in Row /\ op \in [Ops -> Row] /\ op[o].pub \in 1 .. drawn
      /\ (op[o].started => create) /\ drawn \in Nat /\ drawn <= MaxPubs
  BY <1>1, SafeParts, Bounds DEF TypeOK, WellFormed, RowFormed
<1>3. pub \in Pubs /\ pub \in 1 .. drawn' /\ drawn' \in 0 .. MaxPubs /\ drawn <= drawn'
  BY <1>1, <1>2, Bounds DEF Pubs
<1>4. create => pub = drawn + 1 \/ (resumed /\ pub = op[o].pub) OBVIOUS
<1>5. /\ q \in Row /\ q.state = "Running" /\ q.lease = "live" /\ q.pub = pub
      /\ q.intent = op[o].intent /\ (q.started => create)
  <2> HIDE DEF pub
  <2>1. QED BY <1>2, <1>3, Bounds DEF Row
<1>6. \A k \in Ops : ~LiveRow(k) BY <1>1 DEF LiveRow, Rivals
<1>7. op'[o] = q /\ op' \in [Ops -> Row] /\ \A k \in Ops : k # o => op'[k] = op[k]
  <2> HIDE DEF q
  <2>1. QED BY <1>1, <1>2, <1>5
<1>8. \A k \in Ops : k # o => op[k].state # "Running" BY <1>1 DEF Rivals
<1> HIDE DEF pub, q
<1>9. PICK r \in Owner : /\ owner' = [owner EXCEPT ![o] = r] /\ r.pub = pub
                         /\ \/ r.pc = "look"
                            \/ r.pc = "bind" /\ op'[o].intent = "Create"
  BY <1>1, <1>3, SpawnMove
<1>10. LiveRow(o)' BY <1>5, <1>7 DEF LiveRow
<1>11. QED
  BY <1>1, <1>3, <1>4, <1>5, <1>6, <1>7, <1>8, <1>9, <1>10, Unmoved, ClaimMove

(***************************************************************************)
(* Maintenance.                                                            *)
(***************************************************************************)
\* Time, the backend and the markers of those who have ended.
LEMMA CalmMove ==
  ASSUME Safe, UNCHANGED <<op, link, owner, proc, drawn>>,
         cont' \in [Pubs -> Container],
         \A c \in Pubs : cont'[c].rt = cont[c].rt /\ (cont[c].due => cont'[c].due),
         marker' \in [Pubs -> {"none", "expired"} \cup Procs],
         \A p \in Procs : Tearing(p) => marker'[proc[p].c] = marker[proc[p].c],
         rt' \in [Runtimes -> Runtime], late' \in SUBSET (Ops \X Defs),
         seen' \in [Runtimes -> {"no", "seen", "ripe"}],
         faults' \in 0 .. MaxFaults, def' \in Defs, def' <= faults'
  PROVE  Safe'
<1>1. TypeOK' BY SafeParts DEF TypeOK
<1>2. \A p \in Procs : Reaping(p) => proc[p].c \in Pubs
  BY SafeParts, Bounds DEF WellFormed, ProcFormed, TypeOK, Pubs
<1>3. WellFormed'
  <2>1. \A k \in Ops : OwnerFormed(k)' /\ RowFormed(k)'
    BY SafeParts DEF WellFormed, OwnerFormed, RowFormed, Removing, Holding, Building
  <2>2. \A p \in Procs : ProcFormed(p)'
    BY SafeParts DEF WellFormed, ProcFormed, Reaping, Tearing
  <2>3. \A c \in Pubs : Stored(c)' => c <= drawn' BY SafeParts DEF WellFormed, Stored
  <2>4. QED BY <2>1, <2>2, <2>3 DEF WellFormed
<1>4. OneRunning' BY SafeParts DEF OneRunning
<1>5. OwnersHoldLeases' BY SafeParts DEF OwnersHoldLeases, Working, LiveRow
<1>6. RecoveryHoldsLease' BY SafeParts DEF RecoveryHoldsLease, Recovery, LiveRow
<1>7. RowsAreLinked' BY SafeParts DEF RowsAreLinked, Stored
<1>8. LaunchesAreFresh'
  <2>1. \A k \in Ops : op[k].state = "Running" => op[k].pub \in Pubs
    BY SafeParts, Bounds DEF WellFormed, RowFormed, TypeOK, Pubs
  <2>2. QED BY <2>1, SafeParts DEF LaunchesAreFresh, Stored, Reaping, Tearing
<1>9. OwnersMeetTheirTarget'
  BY SafeParts DEF OwnersMeetTheirTarget, Removing, Building, WellFormed, OwnerFormed
<1>10. TeardownHoldsMarker'
  BY <1>2, SafeParts DEF TeardownHoldsMarker, Tearing, Reaping, LiveRow
<1>11. ExtensionIsHonoured'
  BY <1>2, SafeParts DEF ExtensionIsHonoured, ProcAt, Reaping, Tearing, Procs
<1>12. QED BY <1>1, <1>3, <1>4, <1>5, <1>6, <1>7, <1>8, <1>9, <1>10, <1>11
           DEF Safe, Typed

LEMMA CalmTypes ==
  ASSUME Safe
  PROVE  /\ cont \in [Pubs -> Container]
         /\ marker \in [Pubs -> {"none", "expired"} \cup Procs]
         /\ def \in Defs /\ def <= faults
BY SafeParts DEF TypeOK, WellFormed

LEMMA BackendSafe ==
  ASSUME Safe, \/ \E o \in Ops, d \in Defs : LateCreate(o, d)
               \/ \E r \in Runtimes : Exit(r) \/ GracePasses(r)
               \/ SweepScan \/ Edit
  PROVE  Safe'
<1>1. UNCHANGED <<op, link, cont, marker, owner, proc, drawn>>
  BY DEF LateCreate, Exit, GracePasses, SweepScan, Edit, rows
<1>2. faults' \in 0 .. MaxFaults /\ def' \in Defs /\ def' <= faults'
  <2>1. def \in Nat /\ faults \in 0 .. MaxFaults /\ MaxFaults \in Nat /\ def <= faults
    BY SafeParts, Bounds DEF TypeOK, WellFormed, Defs
  <2>2. \/ def' = def /\ faults' = faults
        \/ def' \in {def, def + 1} /\ faults' = faults + 1 /\ faults < MaxFaults
    BY DEF LateCreate, Exit, GracePasses, SweepScan, Edit, rows
  <2>3. QED BY <2>1, <2>2 DEF Defs
<1>3. rt' \in [Runtimes -> Runtime] /\ late' \in SUBSET (Ops \X Defs)
  <2>1. CASE \E o \in Ops, d \in Defs : LateCreate(o, d)
    BY <2>1, Unmoved, SafeParts, NewRuntimeType DEF LateCreate
  <2>2. CASE \E r \in Runtimes : Exit(r)
    <3>1. PICK r \in Runtimes : Exit(r) BY <2>2
    <3>2. [rt[r] EXCEPT !.st = "exited"] \in Runtime BY Unmoved DEF Runtime
    <3>3. QED BY <3>1, <3>2, Unmoved DEF Exit
  <2>3. CASE UNCHANGED <<rt, late>> BY <2>3, Unmoved
  <2>4. QED BY <2>1, <2>2, <2>3 DEF GracePasses, SweepScan, Edit, backend
<1>4. seen' \in [Runtimes -> {"no", "seen", "ripe"}]
  <2>1. CASE UNCHANGED seen BY <2>1, Unmoved
  <2>2. CASE SweepScan BY <2>2, Unmoved DEF SweepScan
  <2>3. CASE \E r \in Runtimes : GracePasses(r) BY <2>3, Unmoved DEF GracePasses
  <2>4. QED BY <2>1, <2>2, <2>3 DEF LateCreate, Exit, Edit
<1>5. QED BY <1>1, <1>2, <1>3, <1>4, CalmTypes, CalmMove

LEMMA MarkersSafe ==
  ASSUME Safe, NEW c \in Pubs, MarkerExpires(c) \/ MarkerCleanup(c) \/ Overdue(c)
  PROVE  Safe'
<1>1. UNCHANGED <<op, link, owner, proc, drawn, def, rt, late, seen, faults>>
  BY DEF MarkerExpires, MarkerCleanup, Overdue, backend
<1>2. CASE MarkerExpires(c) \/ MarkerCleanup(c)
  <2>1. UNCHANGED cont /\ marker' \in [Pubs -> {"none", "expired"} \cup Procs]
    BY <1>2, CalmTypes DEF MarkerExpires, MarkerCleanup
  <2>2. \A d \in Pubs : d # c => marker'[d] = marker[d]
    BY <1>2, CalmTypes DEF MarkerExpires, MarkerCleanup
  <2>3. \A p \in Procs : Tearing(p) => proc[p].c # c /\ proc[p].c \in Pubs
    <3> SUFFICES ASSUME NEW p \in Procs, Tearing(p) PROVE proc[p].c # c /\ proc[p].c \in Pubs
      OBVIOUS
    <3>1. proc[p].c \in Pubs
      BY SafeParts, Bounds DEF WellFormed, ProcFormed, Reaping, TypeOK, Pubs
    <3>2. marker[proc[p].c] = p BY SafeParts DEF TeardownHoldsMarker
    <3>3. p # "expired" BY DEF Procs
    <3>4. QED BY <1>2, <3>1, <3>2, <3>3 DEF MarkerExpires, MarkerCleanup
  <2>4. QED BY <1>1, <2>1, <2>2, <2>3, Unmoved, CalmTypes, CalmMove
<1>3. CASE Overdue(c)
  <2> DEFINE x == [cont[c] EXCEPT !.due = TRUE]
  <2>1. x \in Container /\ x.rt = cont[c].rt /\ x.due = TRUE BY CalmTypes DEF Container
  <2>2. cont' = [cont EXCEPT ![c] = x] /\ UNCHANGED marker BY <1>3 DEF Overdue
  <2> HIDE DEF x
  <2>3. /\ cont' \in [Pubs -> Container]
        /\ \A d \in Pubs : cont'[d].rt = cont[d].rt /\ (cont[d].due => cont'[d].due)
    BY <2>1, <2>2, CalmTypes
  <2>4. QED BY <1>1, <2>2, <2>3, Unmoved, CalmTypes, CalmMove
<1>4. QED BY <1>2, <1>3

\* A process moves, or ends, within what it was granted.
LEMMA ProcMove ==
  ASSUME Safe, NEW p \in Procs, NEW w \in Proc, proc' = [proc EXCEPT ![p] = w],
         UNCHANGED <<op, link, cont, owner, def, drawn>>,
         marker' \in [Pubs -> {"none", "expired"} \cup Procs],
         rt' \in [Runtimes -> Runtime], UNCHANGED late,
         seen' \in [Runtimes -> {"no", "seen", "ripe"}],
         faults' \in 0 .. MaxFaults, faults <= faults',
         w.pc \in {"claim", "check", "destroy", "clear"} =>
           /\ w.c \in 1 .. drawn /\ w.rt \in Runtimes
           /\ \A k \in Ops : op[k].state = "Running" /\ op[k].intent = "Create"
                             => w.c # op[k].pub,
         w.pc \in {"check", "destroy", "clear"} =>
           /\ marker'[w.c] = p
           /\ w.pc # "check" => cont[w.c].rt = w.rt
           /\ cont[w.c].rt = w.rt => \A k \in Ops : ~LiveRow(k),
         w.pc \in {"remove", "sweep"} => w.rt \in Runtimes,
         w.pc \in {"inspect", "remove", "finish", "sweep"} => p = "cron",
         w.pc \in {"inspect", "remove", "finish"} =>
           Recovery /\ w.op = proc["cron"].op /\ w.c = None,
         p = "cron" /\ w.pc = "destroy" => cont[w.c].due,
         \A s \in Procs : s # p /\ Tearing(s) => marker'[proc[s].c] = s
  PROVE  Safe'
<1>1. /\ proc'[p] = w /\ proc' \in [Procs -> Proc]
      /\ \A s \in Procs : s # p => proc'[s] = proc[s]
  BY SafeParts DEF TypeOK
<1>2. TypeOK' BY <1>1, SafeParts DEF TypeOK
<1>3. WellFormed'
  <2>1. def' <= faults' BY SafeParts, Bounds DEF WellFormed, TypeOK, Defs
  <2>2. \A k \in Ops : OwnerFormed(k)' /\ RowFormed(k)'
    BY SafeParts DEF WellFormed, OwnerFormed, RowFormed, Removing, Holding, Building
  <2>3. \A s \in Procs : ProcFormed(s)'
    <3>1. ProcFormed(p)'
      <4>1. Recovery => proc["cron"].op \in Ops
        BY SafeParts DEF WellFormed, ProcFormed, Recovery, Procs
      <4>2. QED BY <1>1, <4>1 DEF ProcFormed, Reaping, Tearing
    <3>2. ASSUME NEW s \in Procs, s # p PROVE ProcFormed(s)'
      BY <1>1, <3>2, SafeParts DEF WellFormed, ProcFormed, Reaping, Tearing
    <3>3. QED BY <3>1, <3>2
  <2>4. \A c \in Pubs : Stored(c)' => c <= drawn' BY SafeParts DEF WellFormed, Stored
  <2>5. QED BY <2>1, <2>2, <2>3, <2>4 DEF WellFormed
<1>4. OneRunning' BY SafeParts DEF OneRunning
<1>5. OwnersHoldLeases' BY SafeParts DEF OwnersHoldLeases, Working, LiveRow
<1>6. RecoveryHoldsLease'
  <2>1. CASE p = "cron" BY <1>1, <2>1, SafeParts DEF RecoveryHoldsLease, Recovery, LiveRow
  <2>2. CASE p # "cron"
    BY <1>1, <2>2, Distinct, SafeParts DEF RecoveryHoldsLease, Recovery, LiveRow
  <2>3. QED BY <2>1, <2>2
<1>7. RowsAreLinked' BY SafeParts DEF RowsAreLinked, Stored
<1>8. LaunchesAreFresh'
  <2> SUFFICES ASSUME NEW k \in Ops, op[k].state = "Running", op[k].intent = "Create"
               PROVE  /\ cont[op[k].pub].rt = None
                      /\ \A s \in Procs : Reaping(s)' => proc'[s].c # op[k].pub
    BY DEF LaunchesAreFresh, Stored
  <2>1. cont[op[k].pub].rt = None BY SafeParts DEF LaunchesAreFresh, Stored
  <2>2. Reaping(p)' => proc'[p].c # op[k].pub BY <1>1 DEF Reaping, Tearing
  <2>3. ASSUME NEW s \in Procs, s # p, Reaping(s)' PROVE proc'[s].c # op[k].pub
    BY <1>1, <2>3, SafeParts DEF LaunchesAreFresh, Reaping, Tearing
  <2>4. QED BY <2>1, <2>2, <2>3
<1>9. OwnersMeetTheirTarget'
  BY SafeParts DEF OwnersMeetTheirTarget, Removing, Building
<1>10. TeardownHoldsMarker'
  <2> SUFFICES ASSUME NEW s \in Procs, Tearing(s)'
               PROVE  /\ marker'[proc'[s].c] = s
                      /\ proc'[s].pc # "check" => cont[proc'[s].c].rt = proc'[s].rt
                      /\ cont[proc'[s].c].rt = proc'[s].rt => \A k \in Ops : ~LiveRow(k)
    BY DEF TeardownHoldsMarker, LiveRow
  <2>1. CASE s = p BY <1>1, <2>1 DEF Tearing
  <2>2. CASE s # p BY <1>1, <2>2, SafeParts DEF Tearing, TeardownHoldsMarker
  <2>3. QED BY <2>1, <2>2
<1>11. ExtensionIsHonoured'
  <2>1. CASE p = "cron" BY <1>1, <2>1 DEF ExtensionIsHonoured, ProcAt
  <2>2. CASE p # "cron"
    BY <1>1, <2>2, Distinct, SafeParts DEF ExtensionIsHonoured, ProcAt
  <2>3. QED BY <2>1, <2>2
<1>12. QED BY <1>2, <1>3, <1>4, <1>5, <1>6, <1>7, <1>8, <1>9, <1>10, <1>11
           DEF Safe, Typed

\* What the moves write in a process's record.
LEMMA GotoProc ==
  ASSUME NEW w \in Proc, NEW pc \in ProcPcs
  PROVE  LET v == [w EXCEPT !.pc = pc]
         IN  v \in Proc /\ v.pc = pc /\ v.op = w.op /\ v.c = w.c /\ v.rt = w.rt
             /\ v.keep = w.keep
BY DEF Proc

LEMMA ProcParts ==
  ASSUME Safe
  PROVE  /\ proc \in [Procs -> Proc] /\ cont \in [Pubs -> Container]
         /\ marker \in [Pubs -> {"none", "expired"} \cup Procs]
         /\ drawn \in Nat /\ 1 .. drawn \subseteq Pubs
         /\ \A p \in Procs : Reaping(p) =>
              proc[p].c \in 1 .. drawn /\ proc[p].c \in Pubs /\ proc[p].rt \in Runtimes
BY SafeParts, Bounds DEF TypeOK, WellFormed, ProcFormed, Pubs

\* A process ends: whatever it held stays as it is, or is given up.
LEMMA ProcEndsSafe ==
  ASSUME Safe, NEW p \in Procs, ProcEnds(p),
         UNCHANGED <<op, link, cont, owner, def, drawn, late>>,
         marker' \in [Pubs -> {"none", "expired"} \cup Procs],
         rt' \in [Runtimes -> Runtime],
         seen' \in [Runtimes -> {"no", "seen", "ripe"}],
         faults' \in 0 .. MaxFaults, faults <= faults',
         \A s \in Procs : s # p /\ Tearing(s) => marker'[proc[s].c] = s
  PROVE  Safe'
<1>1. NoProc \in Proc /\ NoProc.pc = "idle" BY Blanks
<1>2. proc' = [proc EXCEPT ![p] = NoProc] BY DEF ProcEnds
<1>3. QED BY <1>1, <1>2, ProcMove

LEMMA Markers == ASSUME Safe, NEW s \in Procs, Tearing(s) PROVE marker[proc[s].c] = s
BY SafeParts DEF TeardownHoldsMarker

LEMMA ReapPickSafe ==
  ASSUME Safe, NEW p \in Procs, NEW c \in Pubs, ReapPick(p, c)
  PROVE  Safe'
<1> DEFINE w == [NoProc EXCEPT !.pc = "claim", !.c = c, !.rt = cont[c].rt]
<1>1. cont[c].rt \in Runtimes /\ Stored(c) BY ProcParts DEF ReapPick, Stored, Container
<1>2. w \in Proc /\ w.pc = "claim" /\ w.c = c /\ w.rt = cont[c].rt
  BY <1>1, Bounds DEF NoProc, Proc, ProcPcs
<1>3. proc' = [proc EXCEPT ![p] = w] BY DEF ReapPick
<1>4. c \in 1 .. drawn BY <1>1, ProcParts, SafeParts DEF WellFormed, Pubs
<1>5. \A k \in Ops : op[k].state = "Running" /\ op[k].intent = "Create" => c # op[k].pub
  BY <1>1, SafeParts DEF LaunchesAreFresh
<1>6. UNCHANGED <<op, link, cont, marker, owner, def, drawn, rt, late, seen, faults>>
  BY DEF ReapPick, rows, backend
<1> HIDE DEF w
<1>7. QED BY <1>1, <1>2, <1>3, <1>4, <1>5, <1>6, Markers, ProcParts, Unmoved, ProcMove

LEMMA ReapClaimSafe == ASSUME Safe, NEW p \in Procs, ReapClaim(p) PROVE Safe'
<1> DEFINE c == proc[p].c
<1>1. proc[p].pc = "claim" /\ Reaping(p) BY DEF ReapClaim, ProcAt, Reaping
<1>2. /\ c \in 1 .. drawn /\ c \in Pubs /\ proc[p].rt \in Runtimes /\ proc[p] \in Proc
      /\ \A k \in Ops : op[k].state = "Running" /\ op[k].intent = "Create" => c # op[k].pub
  BY <1>1, ProcParts, SafeParts DEF LaunchesAreFresh
<1>3. UNCHANGED <<op, link, cont, owner, def, drawn, rt, late, seen, faults>>
  BY DEF ReapClaim, backend
<1>4. CASE Claimable(c)
  <2> DEFINE w == [proc[p] EXCEPT !.pc = "check"]
  <2>1. proc' = [proc EXCEPT ![p] = w] /\ marker' = [marker EXCEPT ![c] = p]
    BY <1>4 DEF ReapClaim, ProcGoto
  <2>2. w \in Proc /\ w.pc = "check" /\ w.c = c /\ w.rt = proc[p].rt
    BY <1>2, GotoProc DEF ProcPcs
  <2>3. \A s \in Procs : s # p /\ Tearing(s) => marker'[proc[s].c] = s
    <3> SUFFICES ASSUME NEW s \in Procs, s # p, Tearing(s) PROVE marker'[proc[s].c] = s
      OBVIOUS
    <3>1. proc[s].c \in Pubs /\ marker[proc[s].c] = s BY Markers, ProcParts DEF Reaping
    <3>2. s \notin {"none", "expired"} BY DEF Procs
    <3>3. proc[s].c # c BY <1>4, <3>1, <3>2 DEF Claimable
    <3>4. QED BY <2>1, <3>1, <3>3, ProcParts
  <2>4. /\ marker'[c] = p /\ marker' \in [Pubs -> {"none", "expired"} \cup Procs]
        /\ \A k \in Ops : ~LiveRow(k)
    BY <1>2, <1>4, <2>1, ProcParts DEF Claimable
  <2> HIDE DEF w
  <2>5. QED BY <1>2, <1>3, <2>1, <2>2, <2>3, <2>4, Unmoved, ProcMove
<1>5. CASE ~Claimable(c)
  <2>1. ProcEnds(p) /\ UNCHANGED marker BY <1>5 DEF ReapClaim
  <2>2. QED BY <1>3, <2>1, Markers, ProcParts, Unmoved, ProcEndsSafe
<1>6. QED BY <1>4, <1>5

LEMMA ReapCheckSafe ==
  ASSUME Safe, NEW p \in Procs, ReapCheck(p) \/ ReapDestroy(p)
  PROVE  Safe'
<1> DEFINE c == proc[p].c
<1>1. proc[p].pc \in {"check", "destroy"} /\ Reaping(p) /\ Tearing(p)
  BY DEF ReapCheck, ReapDestroy, ProcAt, Reaping, Tearing
<1>2. /\ c \in 1 .. drawn /\ c \in Pubs /\ proc[p].rt \in Runtimes /\ proc[p] \in Proc
      /\ \A k \in Ops : op[k].state = "Running" /\ op[k].intent = "Create" => c # op[k].pub
  BY <1>1, ProcParts, SafeParts DEF LaunchesAreFresh
<1>3. UNCHANGED <<op, link, cont, owner, def, drawn, late, seen, faults>>
  BY DEF ReapCheck, ReapDestroy, rows, backend
<1>4. ASSUME NEW pc \in {"destroy", "clear"}, ProcGoto(p, pc), UNCHANGED marker,
             rt' \in [Runtimes -> Runtime], cont[c].rt = proc[p].rt,
             p = "cron" /\ pc = "destroy" => cont[c].due
      PROVE  Safe'
  <2> DEFINE w == [proc[p] EXCEPT !.pc = pc]
  <2>1. proc' = [proc EXCEPT ![p] = w] BY <1>4 DEF ProcGoto
  <2>2. w \in Proc /\ w.pc = pc /\ w.c = c /\ w.rt = proc[p].rt
    <3>1. pc \in ProcPcs BY DEF ProcPcs
    <3>2. QED BY <1>2, <3>1, GotoProc
  <2>3. marker[c] = p /\ \A k \in Ops : ~LiveRow(k)
    BY <1>1, <1>4, SafeParts DEF TeardownHoldsMarker
  <2> HIDE DEF w
  <2>4. QED BY <1>2, <1>3, <1>4, <2>1, <2>2, <2>3, Markers, ProcParts, Unmoved, ProcMove
<1>5. CASE ReapDestroy(p)
  <2>1. ProcGoto(p, "clear") /\ UNCHANGED marker /\ rt' \in [Runtimes -> Runtime]
    BY <1>5, Unmoved, DestroyedType DEF ReapDestroy, rows
  <2>2. cont[c].rt = proc[p].rt
    BY <1>1, <1>5, SafeParts DEF TeardownHoldsMarker, ReapDestroy, ProcAt
  <2>3. QED BY <1>4, <2>1, <2>2
<1>6. CASE ReapCheck(p) /\ cont[c].rt = proc[p].rt /\ MayReap(p, c)
  <2>1. ProcGoto(p, "destroy") /\ UNCHANGED marker /\ UNCHANGED rt
    BY <1>6 DEF ReapCheck, backend
  <2>2. QED BY <1>4, <1>6, <2>1, Unmoved DEF MayReap
<1>7. CASE ReapCheck(p) /\ ~(cont[c].rt = proc[p].rt /\ MayReap(p, c))
  <2>1. ProcEnds(p) /\ marker' = [marker EXCEPT ![c] = "none"] /\ UNCHANGED rt
    BY <1>7 DEF ReapCheck, backend
  <2>2. \A s \in Procs : s # p /\ Tearing(s) => marker'[proc[s].c] = s
    <3> SUFFICES ASSUME NEW s \in Procs, s # p, Tearing(s) PROVE marker'[proc[s].c] = s
      OBVIOUS
    <3>1. proc[s].c \in Pubs /\ marker[proc[s].c] = s /\ marker[c] = p
      BY <1>1, Markers, ProcParts DEF Reaping
    <3>2. QED BY <2>1, <3>1, ProcParts
  <2>3. marker' \in [Pubs -> {"none", "expired"} \cup Procs] BY <2>1, ProcParts
  <2>4. QED BY <1>3, <2>1, <2>2, <2>3, Unmoved, ProcEndsSafe
<1>8. QED BY <1>5, <1>6, <1>7

\* The rows of a removed container are cleared while nobody else works.
LEMMA ReapClearSafe == ASSUME Safe, NEW p \in Procs, ReapClear(p) PROVE Safe'
<1> DEFINE c == proc[p].c
<1>1. proc[p].pc = "clear" /\ Reaping(p) /\ Tearing(p)
  BY DEF ReapClear, ProcAt, Reaping, Tearing
<1>2. c \in 1 .. drawn /\ c \in Pubs /\ proc[p].rt \in Runtimes BY <1>1, ProcParts
<1>3. marker[c] = p /\ cont[c].rt = proc[p].rt /\ \A k \in Ops : ~LiveRow(k)
  BY <1>1, SafeParts DEF TeardownHoldsMarker
<1>4. link = c BY <1>2, <1>3, Bounds, SafeParts DEF RowsAreLinked, Stored, None
<1> HIDE DEF c
<1>5. /\ link' = None /\ cont' = [cont EXCEPT ![c] = NoContainer]
      /\ marker' = [marker EXCEPT ![c] = "none"] /\ proc' = [proc EXCEPT ![p] = NoProc]
      /\ UNCHANGED <<op, def, drawn, rt, late, seen, owner, faults>>
  BY <1>3, <1>4 DEF ReapClear, ProcEnds, Cleared, backend, c
<1>6. \A d \in Pubs : d # c => cont[d].rt = None
  BY <1>4, SafeParts DEF RowsAreLinked, Stored
<1>7. cont' \in [Pubs -> Container] /\ \A d \in Pubs : cont'[d].rt = None
  BY <1>2, <1>5, <1>6, ProcParts, Blanks
<1>8. /\ proc'[p] = NoProc /\ proc' \in [Procs -> Proc] /\ proc'[p].pc = "idle"
      /\ \A s \in Procs : s # p => proc'[s] = proc[s]
  BY <1>5, ProcParts, Blanks
<1>9. marker' \in [Pubs -> {"none", "expired"} \cup Procs] /\ link' \in Pubs \cup {None}
  BY <1>5, ProcParts
<1>10. ~Recovery /\ \A k \in Ops : ~Working(k)
  <2>1. \A k \in Ops : ~Working(k) BY <1>3, SafeParts DEF OwnersHoldLeases
  <2>2. Recovery => proc["cron"].op \in Ops
    BY SafeParts DEF WellFormed, ProcFormed, Recovery, Procs
  <2>3. QED BY <1>3, <2>1, <2>2, SafeParts DEF RecoveryHoldsLease
<1>11. \A s \in Procs : Tearing(s)' =>
         /\ s # p /\ Tearing(s) /\ proc'[s] = proc[s] /\ proc[s].pc = "check"
         /\ marker'[proc[s].c] = s /\ cont'[proc[s].c].rt # proc[s].rt
  <2> SUFFICES ASSUME NEW s \in Procs, s # p, Tearing(s)
               PROVE  /\ proc[s].pc = "check" /\ marker'[proc[s].c] = s
                      /\ cont'[proc[s].c].rt # proc[s].rt
    BY <1>8 DEF Tearing
  <2>1. proc[s].c \in Pubs /\ proc[s].rt \in Runtimes /\ marker[proc[s].c] = s
    BY Markers, ProcParts DEF Reaping
  <2>2. proc[s].c # c BY <1>3, <2>1
  <2>3. cont[proc[s].c].rt # proc[s].rt BY <1>6, <2>1, <2>2, Bounds DEF None
  <2>4. QED BY <1>5, <1>7, <2>1, <2>2, <2>3, Bounds, ProcParts, SafeParts
            DEF TeardownHoldsMarker, None
<1>12. TypeOK' BY <1>5, <1>7, <1>8, <1>9, SafeParts DEF TypeOK
<1>13. WellFormed'
  <2>1. \A k \in Ops : OwnerFormed(k)' /\ RowFormed(k)'
    BY <1>5, SafeParts DEF WellFormed, OwnerFormed, RowFormed, Removing, Holding, Building
  <2>2. ProcFormed(p)' BY <1>8 DEF ProcFormed, Reaping, Tearing
  <2>3. ASSUME NEW s \in Procs, s # p PROVE ProcFormed(s)'
    BY <1>5, <1>8, <2>3, SafeParts DEF WellFormed, ProcFormed, Reaping, Tearing
  <2>4. \A d \in Pubs : ~Stored(d)' BY <1>7 DEF Stored
  <2>5. QED BY <1>5, <2>1, <2>2, <2>3, <2>4, SafeParts DEF WellFormed
<1>14. OneRunning' BY <1>5, SafeParts DEF OneRunning
<1>15. OwnersHoldLeases' BY <1>5, SafeParts DEF OwnersHoldLeases, Working, LiveRow
<1>16. RecoveryHoldsLease' BY <1>8, <1>10, Distinct DEF RecoveryHoldsLease, Recovery
<1>17. RowsAreLinked' BY <1>5, <1>7, Bounds DEF RowsAreLinked, Stored, None
<1>18. LaunchesAreFresh'
  <2> SUFFICES ASSUME NEW k \in Ops, op[k].state = "Running", op[k].intent = "Create"
               PROVE  /\ cont'[op[k].pub].rt = None
                      /\ \A s \in Procs : Reaping(s)' => proc'[s].c # op[k].pub
    BY <1>5 DEF LaunchesAreFresh, Stored
  <2>1. op[k].pub \in Pubs
    BY SafeParts, Bounds DEF WellFormed, RowFormed, TypeOK, Pubs
  <2>2. ~Reaping(p)' BY <1>8 DEF Reaping, Tearing
  <2>3. ASSUME NEW s \in Procs, s # p, Reaping(s)' PROVE proc'[s].c # op[k].pub
    BY <1>8, <2>3, SafeParts DEF LaunchesAreFresh, Reaping, Tearing
  <2>4. QED BY <1>7, <2>1, <2>2, <2>3
<1>19. OwnersMeetTheirTarget'
  BY <1>5, <1>10 DEF OwnersMeetTheirTarget, Removing, Building, Working
<1>20. TeardownHoldsMarker' BY <1>11 DEF TeardownHoldsMarker
<1>21. ExtensionIsHonoured'
  BY <1>11, Distinct DEF ExtensionIsHonoured, ProcAt, Tearing
<1>22. QED BY <1>12, <1>13, <1>14, <1>15, <1>16, <1>17, <1>18, <1>19, <1>20, <1>21
           DEF Safe, Typed

LEMMA ProcFailsSafe == ASSUME Safe, NEW p \in Procs, ProcFails(p) PROVE Safe'
<1>1. faults' \in 0 .. MaxFaults /\ faults <= faults' /\ ProcEnds(p)
  BY Unmoved, Bounds DEF ProcFails
<1>2. UNCHANGED <<op, link, cont, marker, owner, def, drawn, rt, late, seen>>
  BY DEF ProcFails, rows, backend
<1>3. QED BY <1>1, <1>2, Markers, ProcParts, Unmoved, ProcEndsSafe

LEMMA SweepSafe ==
  ASSUME Safe, SweepDestroy \/ \E r \in Runtimes : SweepPick(r)
  PROVE  Safe'
<1>1. CASE SweepDestroy
  <2>1. ProcEnds("cron") /\ rt' \in [Runtimes -> Runtime]
    BY <1>1, Unmoved, DestroyedType DEF SweepDestroy
  <2>2. seen' \in [Runtimes -> {"no", "seen", "ripe"}] BY <1>1, Unmoved DEF SweepDestroy
  <2>3. UNCHANGED <<op, link, cont, marker, owner, def, drawn, late, faults>>
    BY <1>1 DEF SweepDestroy, rows
  <2>4. QED BY <2>1, <2>2, <2>3, Markers, ProcParts, Unmoved, Distinct, ProcEndsSafe
<1>2. ASSUME NEW r \in Runtimes, SweepPick(r) PROVE Safe'
  <2>1. UNCHANGED <<op, link, cont, marker, owner, def, drawn, rt, late, faults>>
    BY <1>2 DEF SweepPick, rows, backend
  <2>2. CASE Known(r)
    <3>1. UNCHANGED proc /\ seen' \in [Runtimes -> {"no", "seen", "ripe"}]
      BY <1>2, <2>2, Unmoved DEF SweepPick
    <3>2. QED BY <2>1, <3>1, CalmTypes, Unmoved, CalmMove
  <2>3. CASE ~Known(r)
    <3> DEFINE w == [NoProc EXCEPT !.pc = "sweep", !.rt = r]
    <3>1. proc' = [proc EXCEPT !["cron"] = w] /\ UNCHANGED seen
      BY <1>2, <2>3 DEF SweepPick
    <3>2. w \in Proc /\ w.pc = "sweep" /\ w.rt = r
      BY Bounds DEF NoProc, Proc, ProcPcs
    <3> HIDE DEF w
    <3>3. QED BY <2>1, <3>1, <3>2, Distinct, Markers, ProcParts, Unmoved, ProcMove
  <2>4. QED BY <2>2, <2>3
<1>3. QED BY <1>1, <1>2

(***************************************************************************)
(* Recovery.                                                               *)
(***************************************************************************)
\* Whoever recovers a launch is alone too.
LEMMA RecoveryAlone ==
  ASSUME Safe, Recovery
  PROVE  LET o == proc["cron"].op
         IN  /\ o \in Ops /\ LiveRow(o) /\ op[o].started /\ owner[o].pc = "idle"
             /\ op[o].intent = "Create" /\ op[o].pub \in Pubs /\ ~Stored(op[o].pub)
             /\ proc["cron"].c = None
             /\ \A k \in Ops : ~Working(k) /\ (k # o => op[k].state # "Running")
<1> DEFINE o == proc["cron"].op
<1>1. o \in Ops BY SafeParts DEF WellFormed, ProcFormed, Recovery, Procs
<1>2. LiveRow(o) /\ op[o].started /\ owner[o].pc = "idle" /\ proc["cron"].c = None
  BY SafeParts DEF RecoveryHoldsLease
<1>3. op[o].intent = "Create" /\ op[o].pub \in Pubs
  BY <1>1, <1>2, SafeParts, ProcParts DEF WellFormed, RowFormed, LiveRow
<1>4. ~Stored(op[o].pub) BY <1>1, <1>2, <1>3, SafeParts DEF LaunchesAreFresh, LiveRow
<1>5. \A k \in Ops : ~Working(k) /\ (k # o => op[k].state # "Running")
  BY <1>1, <1>2, SafeParts DEF OneRunning, OwnersHoldLeases, LiveRow, Working
<1>6. QED BY <1>1, <1>2, <1>3, <1>4, <1>5

LEMMA RecoverWorkSafe ==
  ASSUME Safe, RecoverInspect \/ RecoverRemove
  PROVE  Safe'
<1>1. UNCHANGED <<op, link, cont, marker, owner, def, drawn, late, seen, faults>>
  BY DEF RecoverInspect, RecoverRemove, rows, backend
<1>2. Recovery BY DEF RecoverInspect, RecoverRemove, Recovery, ProcAt
<1>3. proc["cron"] \in Proc /\ proc["cron"].c = None BY <1>2, RecoveryAlone, ProcParts, Distinct
<1>4. rt' \in [Runtimes -> Runtime]
  BY Unmoved, DestroyedType DEF RecoverInspect, RecoverRemove, backend
<1>5. \E w \in Proc : /\ proc' = [proc EXCEPT !["cron"] = w] /\ w.op = proc["cron"].op
                      /\ w.c = None
                      /\ \/ w.pc = "finish"
                         \/ w.pc = "remove" /\ w.rt \in Runtimes
  <2>1. CASE RecoverRemove
    <3> DEFINE w == [proc["cron"] EXCEPT !.pc = "finish"]
    <3>1. proc' = [proc EXCEPT !["cron"] = w] BY <2>1 DEF RecoverRemove, ProcGoto
    <3>2. w \in Proc /\ w.op = proc["cron"].op /\ w.c = None /\ w.pc = "finish"
      BY <1>3, GotoProc DEF ProcPcs
    <3> HIDE DEF w
    <3>3. QED BY <3>1, <3>2
  <2>2. CASE \E keep \in BOOLEAN :
               proc' = [proc EXCEPT !["cron"].pc = "finish", !["cron"].keep = keep]
    <3>1. PICK keep \in BOOLEAN :
            proc' = [proc EXCEPT !["cron"].pc = "finish", !["cron"].keep = keep]
      BY <2>2
    <3> DEFINE w == [proc["cron"] EXCEPT !.pc = "finish", !.keep = keep]
    <3>2. proc' = [proc EXCEPT !["cron"] = w] BY <3>1
    <3>3. w \in Proc /\ w.op = proc["cron"].op /\ w.c = None /\ w.pc = "finish"
      BY <1>3 DEF Proc, ProcPcs
    <3> HIDE DEF w
    <3>4. QED BY <3>2, <3>3
  <2>3. CASE \E r \in Runtimes :
               proc' = [proc EXCEPT !["cron"].pc = "remove", !["cron"].c = None,
                                    !["cron"].rt = r]
    <3>1. PICK r \in Runtimes :
            proc' = [proc EXCEPT !["cron"].pc = "remove", !["cron"].c = None,
                                 !["cron"].rt = r]
      BY <2>3
    <3> DEFINE w == [proc["cron"] EXCEPT !.pc = "remove", !.c = None, !.rt = r]
    <3>2. proc' = [proc EXCEPT !["cron"] = w] BY <3>1
    <3>3. w \in Proc /\ w.op = proc["cron"].op /\ w.c = None /\ w.pc = "remove" /\ w.rt = r
      BY <1>3 DEF Proc, ProcPcs
    <3> HIDE DEF w
    <3>4. QED BY <3>2, <3>3
  <2>4. CASE RecoverInspect
    <3> DEFINE o == proc["cron"].op
               c == op[o].pub
               keep == Stored(c) /\ link = c /\ op[o].fence = def /\ Reusable(c, def)
               found == {IF Stored(c) THEN cont[c].rt ELSE op[o].rt} \ {None}
               target == IF found = {} THEN Labelled(o) ELSE found
    <3>1. o \in Ops /\ ~Stored(c) /\ op[o] \in Row BY <1>2, RecoveryAlone, Unmoved
    <3>2. target \subseteq Runtimes BY <3>1 DEF Row, Labelled
    <3>3. CASE keep \/ target = {}
      <4>1. keep \in BOOLEAN BY <3>1
      <4>2. proc' = [proc EXCEPT !["cron"].pc = "finish", !["cron"].keep = keep]
        BY <2>4, <3>3 DEF RecoverInspect
      <4> HIDE DEF keep
      <4>3. QED BY <2>2, <4>1, <4>2
    <3>4. CASE ~(keep \/ target = {})
      <4>1. \E r \in target :
               proc' = [proc EXCEPT !["cron"].pc = "remove",
                          !["cron"].c = IF Stored(c) THEN c ELSE None,
                          !["cron"].rt = r]
        BY <2>4, <3>4 DEF RecoverInspect
      <4>2. \E r \in Runtimes :
               proc' = [proc EXCEPT !["cron"].pc = "remove", !["cron"].c = None,
                          !["cron"].rt = r]
        <5> HIDE DEF target, c
        <5>1. QED BY <3>1, <3>2, <4>1
      <4>3. QED BY <2>3, <4>2
    <3>5. QED BY <3>3, <3>4
  <2>5. QED BY <2>1, <2>4
<1>6. PICK w \in Proc : /\ proc' = [proc EXCEPT !["cron"] = w] /\ w.op = proc["cron"].op
                        /\ w.c = None
                        /\ \/ w.pc = "finish"
                           \/ w.pc = "remove" /\ w.rt \in Runtimes
  BY <1>5
<1>7. QED BY <1>1, <1>2, <1>4, <1>6, Distinct, Markers, ProcParts, Unmoved, ProcMove

\* Recovery takes over the lease of a launch, or ends the launch.
LEMMA RecoveryMove ==
  ASSUME Safe, NEW o \in Ops, NEW q \in Row, op' = [op EXCEPT ![o] = q],
         NEW w \in Proc, proc' = [proc EXCEPT !["cron"] = w],
         UNCHANGED <<link, cont, marker, def, drawn, rt, late, seen, owner, faults>>,
         op[o].state = "Running", owner[o].pc = "idle",
         q.pub = op[o].pub, q.intent = op[o].intent, q.started => op[o].started,
         \/ w.pc = "idle" /\ q.state \in {"Succeeded", "Failed"}
         \/ /\ w.pc = "inspect" /\ w.op = o /\ w.c = None /\ q.started
            /\ q.state = "Running" /\ q.lease = "live" /\ ~TeardownPending
  PROVE  Safe'
<1>1. /\ op'[o] = q /\ op' \in [Ops -> Row]
      /\ \A k \in Ops : k # o => op'[k] = op[k]
  BY Unmoved
<1>2. /\ proc'["cron"] = w /\ proc' \in [Procs -> Proc]
      /\ \A s \in Procs : s # "cron" => proc'[s] = proc[s]
  BY ProcParts, Distinct
<1>3. \A s \in Procs : Reaping(s)' => s # "cron" /\ Reaping(s) /\ proc'[s] = proc[s]
  BY <1>2 DEF Reaping, Tearing
<1>4. TypeOK' BY <1>1, <1>2, SafeParts DEF TypeOK
<1>5. WellFormed'
  <2>1. \A k \in Ops : OwnerFormed(k)'
    BY <1>1, SafeParts DEF WellFormed, OwnerFormed, Removing, Holding, Building
  <2>2. \A k \in Ops : RowFormed(k)' BY <1>1, SafeParts DEF WellFormed, RowFormed
  <2>3. ProcFormed("cron")' BY <1>2 DEF ProcFormed, Reaping, Tearing
  <2>4. ASSUME NEW s \in Procs, s # "cron" PROVE ProcFormed(s)'
    BY <1>2, <2>4, SafeParts DEF WellFormed, ProcFormed, Reaping, Tearing
  <2>5. QED BY <2>1, <2>2, <2>3, <2>4, SafeParts DEF WellFormed, Stored
<1>6. OneRunning' BY <1>1, SafeParts DEF OneRunning
<1>7. OwnersHoldLeases'
  BY <1>1, SafeParts DEF OwnersHoldLeases, Working, LiveRow
<1>8. RecoveryHoldsLease' BY <1>1, <1>2 DEF RecoveryHoldsLease, Recovery, LiveRow
<1>9. RowsAreLinked' BY SafeParts DEF RowsAreLinked, Stored
<1>10. LaunchesAreFresh'
  <2> SUFFICES ASSUME NEW k \in Ops, op'[k].state = "Running", op'[k].intent = "Create"
               PROVE  /\ cont[op'[k].pub].rt = None
                      /\ \A s \in Procs : Reaping(s)' => proc'[s].c # op'[k].pub
    BY DEF LaunchesAreFresh, Stored
  <2>1. op[k].state = "Running" /\ op[k].intent = "Create" /\ op'[k].pub = op[k].pub
    BY <1>1
  <2>2. QED BY <1>3, <2>1, SafeParts DEF LaunchesAreFresh, Stored
<1>11. OwnersMeetTheirTarget'
  BY SafeParts DEF OwnersMeetTheirTarget, Removing, Building
<1>12. TeardownHoldsMarker'
  <2> SUFFICES ASSUME NEW s \in Procs, Tearing(s)'
               PROVE  /\ marker[proc'[s].c] = s
                      /\ proc'[s].pc # "check" => cont[proc'[s].c].rt = proc'[s].rt
                      /\ cont[proc'[s].c].rt = proc'[s].rt => \A k \in Ops : ~LiveRow(k)'
    BY DEF TeardownHoldsMarker
  <2>1. Tearing(s) /\ proc'[s] = proc[s] BY <1>3 DEF Tearing, Reaping
  <2>2. /\ marker[proc[s].c] = s /\ (proc[s].pc # "check" => cont[proc[s].c].rt = proc[s].rt)
        /\ cont[proc[s].c].rt = proc[s].rt => \A k \in Ops : ~LiveRow(k)
    BY <2>1, SafeParts DEF TeardownHoldsMarker
  <2>3. proc[s].c \in Pubs /\ proc[s].rt # None /\ s # "none"
    BY <2>1, ProcParts, Bounds DEF Reaping, None, Procs
  <2>4. cont[proc[s].c].rt = proc[s].rt => TeardownPending
    BY <2>2, <2>3 DEF TeardownPending, Stored
  <2>5. cont[proc[s].c].rt = proc[s].rt => \A k \in Ops : ~LiveRow(k)'
    BY <1>1, <2>2, <2>4 DEF LiveRow
  <2>6. QED BY <2>1, <2>2, <2>5
<1>13. ExtensionIsHonoured' BY <1>2 DEF ExtensionIsHonoured, ProcAt
<1>14. QED BY <1>4, <1>5, <1>6, <1>7, <1>8, <1>9, <1>10, <1>11, <1>12, <1>13
           DEF Safe, Typed

LEMMA RecoverClaimSafe == ASSUME Safe, NEW o \in Ops, RecoverClaim(o) PROVE Safe'
<1> DEFINE q == [op[o] EXCEPT !.lease = "live"]
           w == [NoProc EXCEPT !.pc = "inspect", !.op = o]
<1>1. op' = [op EXCEPT ![o] = q] /\ proc' = [proc EXCEPT !["cron"] = w]
  BY DEF RecoverClaim
<1>2. op[o] \in Row BY Unmoved
<1>3. /\ q \in Row /\ q.state = op[o].state /\ q.pub = op[o].pub /\ q.intent = op[o].intent
      /\ q.started = op[o].started /\ q.lease = "live"
  BY <1>2 DEF Row
<1>4. w \in Proc /\ w.pc = "inspect" /\ w.op = o /\ w.c = None
  BY Bounds DEF NoProc, Proc, ProcPcs
<1>5. /\ op[o].state = "Running" /\ op[o].started /\ ~TeardownPending
      /\ UNCHANGED <<link, cont, marker, def, drawn, rt, late, seen, owner, faults>>
  BY DEF RecoverClaim, Recoverable, backend
<1>6. owner[o].pc = "idle" BY SafeParts DEF RecoverClaim, Recoverable, OwnersHoldLeases
<1> HIDE DEF q, w
<1>7. QED BY <1>1, <1>3, <1>4, <1>5, <1>6, RecoveryMove

LEMMA RecoverFinishSafe == ASSUME Safe, RecoverFinish PROVE Safe'
<1> DEFINE o == proc["cron"].op
<1>1. Recovery BY DEF RecoverFinish, Recovery, ProcAt
<1>2. o \in Ops /\ LiveRow(o) /\ owner[o].pc = "idle" /\ proc["cron"].c = None /\ op[o] \in Row
  BY <1>1, RecoveryAlone, Unmoved
<1>3. /\ proc' = [proc EXCEPT !["cron"] = NoProc]
      /\ UNCHANGED <<link, cont, marker, def, drawn, rt, late, seen, owner, faults>>
  BY <1>2 DEF RecoverFinish, ProcEnds, backend
<1>4. NoProc \in Proc /\ NoProc.pc = "idle" BY Blanks
<1>5. CASE proc["cron"].keep
  <2> DEFINE q == [op[o] EXCEPT !.state = "Succeeded"]
  <2>1. op' = [op EXCEPT ![o] = q] BY <1>2, <1>5 DEF RecoverFinish, LiveRow
  <2>2. /\ q \in Row /\ q.pub = op[o].pub /\ q.intent = op[o].intent
        /\ q.started = op[o].started /\ q.state = "Succeeded"
    BY <1>2, Receipt
  <2> HIDE DEF q, o
  <2>3. QED BY <1>2, <1>3, <1>4, <2>1, <2>2, RecoveryMove DEF LiveRow
<1>6. CASE ~proc["cron"].keep
  <2>1. op' = [op EXCEPT ![o] = FailedRow(o)] BY <1>2, <1>6 DEF RecoverFinish, LiveRow
  <2>2. /\ FailedRow(o) \in Row /\ FailedRow(o).pub = op[o].pub
        /\ FailedRow(o).intent = op[o].intent /\ ~FailedRow(o).started
        /\ FailedRow(o).state = "Failed"
    BY <1>2, FailedRowType
  <2> HIDE DEF o
  <2>3. QED BY <1>2, <1>3, <1>4, <2>1, <2>2, RecoveryMove DEF LiveRow
<1>7. QED BY <1>5, <1>6

(***************************************************************************)
(* Every step keeps the invariant.                                         *)
(***************************************************************************)
LEMMA InitSafe == ASSUME Init PROVE Safe
<1>1. TypeOK
  BY Blanks, Bounds DEF Init, TypeOK, Procs, None, Pubs, Defs
<1>2. /\ \A o \in Ops : op[o] = NoRow /\ owner[o] = NoOwner
      /\ \A p \in Procs : proc[p] = NoProc
      /\ \A c \in Pubs : cont[c] = NoContainer
      /\ link = None /\ def = 0 /\ drawn = 0 /\ faults = 0
  BY DEF Init
<1>3. \A p \in Procs : ~Reaping(p) /\ ~Tearing(p) BY <1>2, Blanks DEF Reaping, Tearing
<1>4. ~Recovery BY <1>2, Blanks, Distinct DEF Recovery
<1>5. \A o \in Ops : /\ ~Removing(o) /\ ~Building(o) /\ ~Holding(o) /\ ~Working(o)
                     /\ owner[o].pc = "idle" /\ op[o].state = "Absent" /\ ~op[o].started
  BY <1>2, Blanks DEF Removing, Building, Holding, Working
<1>6. \A c \in Pubs : ~Stored(c) /\ c # None BY <1>2, Blanks, Bounds DEF Stored, None
<1>7. WellFormed
  BY <1>2, <1>3, <1>5, <1>6, Blanks DEF WellFormed, OwnerFormed, RowFormed, ProcFormed
<1>8. OneRunning /\ OwnersHoldLeases /\ LaunchesAreFresh /\ OwnersMeetTheirTarget
  BY <1>5 DEF OneRunning, OwnersHoldLeases, LaunchesAreFresh, OwnersMeetTheirTarget
<1>9. RecoveryHoldsLease /\ RowsAreLinked /\ TeardownHoldsMarker
  BY <1>2, <1>3, <1>4, <1>6 DEF RecoveryHoldsLease, RowsAreLinked, TeardownHoldsMarker
<1>10. ExtensionIsHonoured BY <1>2, Blanks, Distinct DEF ExtensionIsHonoured, ProcAt
<1>11. QED BY <1>1, <1>7, <1>8, <1>9, <1>10 DEF Safe, Typed

LEMMA OwnerWorksSafe == ASSUME Safe, NEW o \in Ops, OwnerWorks(o) PROVE Safe'
BY BindSafe, LookSafe, ExtendSafe, RevokeSafe, UnlinkSafe, StartSafe, CreateSafe,
   RecordSafe, PublishSafe, CompleteSafe DEF OwnerWorks

LEMMA SafeStep == Safe /\ [Next]_vars => Safe'
<1> SUFFICES ASSUME Safe, [Next]_vars PROVE Safe' OBVIOUS
<1>1. CASE \E o \in Ops :
             \/ \E i \in Intents, e \in Pubs \cup {None} : ClaimNew(o, i, e)
             \/ ClaimAgain(o) \/ LeaseExpires(o) \/ LeaseAges(o)
             \/ OwnerWorks(o) \/ Ineligible(o)
             \/ \E pc \in {"idle", "settle"} : OwnerFails(o, pc)
             \/ \E d \in Defs : LateCreate(o, d)
             \/ RecoverClaim(o)
  BY <1>1, ClaimNewSafe, ClaimAgainSafe, LeaseSafe, OwnerWorksSafe, FailuresSafe,
     BackendSafe, RecoverClaimSafe
<1>2. CASE \E p \in Procs :
             \/ \E c \in Pubs : ReapPick(p, c)
             \/ Reap(p) \/ ProcFails(p)
  BY <1>2, ReapPickSafe, ReapClaimSafe, ReapCheckSafe, ReapClearSafe, ProcFailsSafe DEF Reap
<1>3. CASE \E c \in Pubs : MarkerExpires(c) \/ MarkerCleanup(c) \/ Overdue(c)
  BY <1>3, MarkersSafe
<1>4. CASE \E r \in Runtimes : Exit(r) \/ GracePasses(r) \/ SweepPick(r)
  BY <1>4, BackendSafe, SweepSafe
<1>5. CASE Recover \/ SweepScan \/ SweepDestroy \/ Edit
  BY <1>5, RecoverWorkSafe, RecoverFinishSafe, BackendSafe, SweepSafe DEF Recover
<1>6. CASE UNCHANGED vars
  <2>1. UNCHANGED <<op, link, cont, marker, def, drawn, rt, late, seen, owner, proc, faults>>
    BY <1>6 DEF vars, rows, backend
  <2>2. QED BY <2>1, CalmTypes, Unmoved, CalmMove
<1>7. QED BY <1>1, <1>2, <1>3, <1>4, <1>5, <1>6 DEF Next

LEMMA AlwaysSafe == Spec => []Safe
BY InitSafe, SafeStep, PTL DEF Spec

\* The record of every operation, container, runtime and actor keeps its type.
THEOREM ContainerTypes == Spec => []TypeOK
<1>1. Safe => TypeOK BY SafeParts
<1>2. QED BY <1>1, AlwaysSafe, PTL

\* One actor at a time changes an instance: the lease of an operation, the lease
\* that recovery takes over and the teardown marker exclude each other.
THEOREM OneActorAtATime == Spec => []OneMutator
<1>1. ASSUME Safe PROVE OneMutator
  <2> SUFFICES ASSUME NEW x \in Mutators, NEW y \in Mutators, x # y
               PROVE  \E p \in {x, y} \cap Procs :
                        proc[p].pc = "check" /\ cont[proc[p].c].rt # proc[p].rt
    BY DEF OneMutator
  <2>1. \A z \in Mutators : \/ z \in Ops /\ Working(z)
                            \/ z \in Procs /\ Tearing(z)
                            \/ z = "cron" /\ Recovery
    <3>1. \A p \in Procs : proc[p].pc \in {"inspect", "remove", "finish"} => p = "cron"
      BY <1>1, SafeParts DEF WellFormed, ProcFormed
    <3>2. QED BY <3>1 DEF Mutators, Working, Tearing, Recovery
  <2>2. ASSUME NEW a \in {x, y}, NEW b \in {x, y}, a # b, a \in Ops, Working(a)
        PROVE  \E p \in {x, y} \cap Procs :
                 proc[p].pc = "check" /\ cont[proc[p].c].rt # proc[p].rt
    BY <1>1, <2>1, <2>2, Alone
  <2>3. ASSUME NEW a \in {x, y}, NEW b \in {x, y}, a # b, a = "cron", Recovery
        PROVE  \E p \in {x, y} \cap Procs :
                 proc[p].pc = "check" /\ cont[proc[p].c].rt # proc[p].rt
    <3>1. \A k \in Ops : ~Working(k) BY <1>1, <2>3, RecoveryAlone
    <3>2. b \in Procs /\ Tearing(b) BY <2>1, <2>3, <3>1
    <3>3. LiveRow(proc["cron"].op) /\ proc["cron"].op \in Ops BY <1>1, <2>3, RecoveryAlone
    <3>4. QED BY <1>1, <3>2, <3>3, SafeParts DEF TeardownHoldsMarker
  <2>4. CASE x \in Procs /\ y \in Procs /\ Tearing(x) /\ Tearing(y)
    <3>1. /\ marker[proc[x].c] = x /\ marker[proc[y].c] = y
          /\ proc[x].c \in Pubs /\ proc[y].c \in Pubs
          /\ proc[x].rt # None /\ proc[y].rt # None
      BY <1>1, <2>4, Markers, ProcParts, Bounds DEF Reaping, None
    <3>2. proc[x].c # proc[y].c BY <3>1
    <3>3. cont[proc[x].c].rt # proc[x].rt \/ cont[proc[y].c].rt # proc[y].rt
      BY <1>1, <3>1, <3>2, SafeParts DEF RowsAreLinked, Stored
    <3>4. QED BY <1>1, <2>4, <3>3, SafeParts DEF TeardownHoldsMarker
  <2>5. QED BY <2>1, <2>2, <2>3, <2>4
<1>2. QED BY <1>1, AlwaysSafe, PTL

\* The reaper destroys no container whose lifetime was extended.
THEOREM ExtensionsAreHonoured == Spec => []ExtensionIsHonoured
<1>1. Safe => ExtensionIsHonoured BY SafeParts
<1>2. QED BY <1>1, AlwaysSafe, PTL

\* An owner tears down the container that is linked, never its replacement.
THEOREM TeardownsHitTheirTarget == Spec => []TeardownHitsItsTarget
<1>1. Safe => TeardownHitsItsTarget
  BY SafeParts DEF OwnersMeetTheirTarget, TeardownHitsItsTarget, Removing
<1>2. QED BY <1>1, AlwaysSafe, PTL

(***************************************************************************)
(* Runtimes and their labels.                                              *)
(***************************************************************************)
LEMMA SoundParts ==
  ASSUME Sound
  PROVE  Safe /\ BornInOrder /\ RemovedIsGone /\ LabelsAreTrue /\ OrphansWereBorn
BY DEF Sound

\* What a step may do to the backend: destroy a runtime that was made, make the
\* next one, or see one exit.
RtStep ==
  \/ UNCHANGED rt
  \/ \E x \in Born : rt' = Destroyed(x)
  \/ \E o \in Ops, d \in Defs : Born # Runtimes /\ rt' = NewRuntime(o, d)
  \/ \E x \in Runtimes : rt[x].st = "up" /\ rt' = [rt EXCEPT ![x].st = "exited"]

\* Runtimes keep their labels and do not come back.
Aging ==
  \A r \in Born : /\ r \in Born'
                  /\ Present(r)' => Present(r) /\ rt'[r].op = rt[r].op
                  /\ Gone(r) => Gone(r)'

LEMMA BornNext ==
  ASSUME Safe, BornInOrder, Born # Runtimes
  PROVE  \E k \in 0 .. MaxRuntimes :
           Born = 1 .. k /\ Cardinality(Born) + 1 = k + 1 /\ k + 1 \in Runtimes
<1>1. PICK k \in 0 .. MaxRuntimes : Born = 1 .. k BY DEF BornInOrder
<1>2. k \in Nat /\ MaxRuntimes \in Nat BY Bounds
<1>3. Cardinality(Born) = k
  <2>1. 1 \in Int /\ k \in Int BY <1>2
  <2>2. Cardinality(1 .. k) = IF 1 > k THEN 0 ELSE k - 1 + 1 BY <2>1, FS_Interval
  <2>3. QED BY <1>1, <1>2, <2>2
<1>4. k # MaxRuntimes BY <1>1 DEF Runtimes
<1>5. k + 1 \in Runtimes BY <1>2, <1>4 DEF Runtimes
<1>6. Cardinality(Born) + 1 = k + 1 BY <1>3
<1>7. QED BY <1>1, <1>5, <1>6

LEMMA DestroyedAges ==
  ASSUME Safe, NEW x \in Born, rt' = Destroyed(x)
  PROVE  Aging /\ Born' = Born /\ Gone(x)' /\ \A r \in Runtimes : r # x => rt'[r] = rt[r]
<1> DEFINE z == [NoRuntime EXCEPT !.st = "gone"]
<1>1. z.st = "gone" BY DEF NoRuntime
<1>2. rt' = [rt EXCEPT ![x] = z] /\ x \in Runtimes /\ rt[x].st # "unborn" BY DEF Destroyed, Born
<1> HIDE DEF z
<1>3. rt'[x] = z /\ \A r \in Runtimes : r # x => rt'[r] = rt[r] BY <1>2, Unmoved
<1>4. Born' = Born BY <1>1, <1>2, <1>3 DEF Born
<1>5. Aging
  <2> SUFFICES ASSUME NEW r \in Born
               PROVE  /\ Present(r)' => Present(r) /\ rt'[r].op = rt[r].op
                      /\ Gone(r) => Gone(r)'
    BY <1>4 DEF Aging
  <2>1. r \in Runtimes BY DEF Born
  <2>2. QED BY <1>1, <1>3, <2>1 DEF Present, Gone
<1>6. QED BY <1>1, <1>3, <1>4, <1>5 DEF Gone

LEMMA NewRuntimeAges ==
  ASSUME Safe, BornInOrder, NEW o \in Ops, NEW d \in Defs, Born # Runtimes,
         rt' = NewRuntime(o, d), NEW n, n = Cardinality(Born) + 1
  PROVE  Aging /\ BornInOrder' /\ Born \subseteq Born' /\ LabelledBy(n, o)'
<1>1. PICK k \in 0 .. MaxRuntimes :
        Born = 1 .. k /\ Cardinality(Born) + 1 = k + 1 /\ k + 1 \in Runtimes
  BY BornNext
<1>2. k \in Nat /\ MaxRuntimes \in Nat BY Bounds
<1> DEFINE z == [op |-> o, def |-> d, st |-> "up"]
<1>3. z.st = "up" /\ z.op = o OBVIOUS
<1>4. rt' = [rt EXCEPT ![k + 1] = z] BY <1>1 DEF NewRuntime
<1> HIDE DEF z
<1>5. rt'[k + 1] = z /\ \A r \in Runtimes : r # k + 1 => rt'[r] = rt[r]
  BY <1>1, <1>4, Unmoved
<1>6. Born' = Born \cup {k + 1}
  BY <1>1, <1>3, <1>5 DEF Born
<1>7. Born' = 1 .. (k + 1) /\ k + 1 \in 0 .. MaxRuntimes
  BY <1>1, <1>2, <1>6 DEF Runtimes
<1>8. Aging
  <2> SUFFICES ASSUME NEW r \in Born PROVE r \in Born' /\ rt'[r] = rt[r]
    BY DEF Aging, Present, Gone
  <2>1. r \in Runtimes /\ r # k + 1 BY <1>1, <1>2 DEF Born
  <2>2. QED BY <1>5, <1>6, <2>1
<1>9. LabelledBy(n, o)' BY <1>1, <1>3, <1>5, <1>6 DEF LabelledBy
<1>10. BornInOrder' BY <1>7 DEF BornInOrder
<1>11. QED BY <1>6, <1>8, <1>9, <1>10

LEMMA RuntimesAge ==
  ASSUME Safe, BornInOrder, RtStep
  PROVE  Aging /\ BornInOrder' /\ Born \subseteq Born'
<1>1. CASE UNCHANGED rt BY <1>1 DEF Aging, BornInOrder, Born, Present, Gone
<1>2. CASE \E x \in Born : rt' = Destroyed(x)
  BY <1>2, DestroyedAges DEF BornInOrder
<1>3. CASE \E o \in Ops, d \in Defs : Born # Runtimes /\ rt' = NewRuntime(o, d)
  BY <1>3, NewRuntimeAges
<1>4. CASE \E x \in Runtimes : rt[x].st = "up" /\ rt' = [rt EXCEPT ![x].st = "exited"]
  <2>1. PICK x \in Runtimes : rt[x].st = "up" /\ rt' = [rt EXCEPT ![x].st = "exited"]
    BY <1>4
  <2> DEFINE z == [rt[x] EXCEPT !.st = "exited"]
  <2>2. rt[x] \in Runtime BY Unmoved
  <2>3. z.st = "exited" /\ z.op = rt[x].op BY <2>2 DEF Runtime
  <2>4. rt' = [rt EXCEPT ![x] = z] BY <2>1
  <2> HIDE DEF z
  <2>5. rt'[x] = z /\ \A r \in Runtimes : r # x => rt'[r] = rt[r] BY <2>4, Unmoved
  <2>6. Born' = Born BY <2>1, <2>3, <2>5 DEF Born
  <2>7. ASSUME NEW r \in Born
        PROVE  /\ Present(r)' => Present(r) /\ rt'[r].op = rt[r].op
               /\ Gone(r) => Gone(r)'
    <3>1. r \in Runtimes BY DEF Born
    <3>2. QED BY <2>1, <2>3, <2>5, <3>1 DEF Present, Gone
  <2>8. QED BY <2>6, <2>7 DEF Aging, BornInOrder
<1>5. QED BY <1>1, <1>2, <1>3, <1>4 DEF RtStep

LEMMA LabelStays ==
  ASSUME Aging, NEW r, NEW k, LabelledBy(r, k)
  PROVE  LabelledBy(r, k)'
BY DEF Aging, LabelledBy

\* A stored container is the linked one and runs what its publisher started.
LEMMA StoredRuntime ==
  ASSUME Sound, NEW c \in Pubs, Stored(c)
  PROVE  link = c /\ cont[c].rt \in Born
BY SoundParts, SafeParts DEF RowsAreLinked, LabelsAreTrue, LabelledBy

\* Nothing is stored while an owner builds.
LEMMA NothingStored ==
  ASSUME Safe, NEW o \in Ops, Building(o)
  PROVE  link = None /\ \A c \in Pubs : ~Stored(c)
<1>1. link = None BY SafeParts DEF OwnersMeetTheirTarget
<1>2. QED BY <1>1, SafeParts, Bounds DEF RowsAreLinked, None

\* The steps that touch neither a runtime nor a container row.
LEMMA RowsAlone ==
  ASSUME NEW o \in Ops,
         \/ \E i \in Intents, e \in Pubs \cup {None} : ClaimNew(o, i, e)
         \/ ClaimAgain(o) \/ LeaseExpires(o) \/ LeaseAges(o) \/ Ineligible(o)
         \/ \E pc \in {"idle", "settle"} : OwnerFails(o, pc)
         \/ RecoverClaim(o)
  PROVE  UNCHANGED <<rt, cont>>
BY DEF ClaimNew, ClaimAgain, LeaseExpires, LeaseAges, Ineligible, OwnerFails, RecoverClaim,
       backend, rows

LEMMA LooksAlone ==
  ASSUME \/ \E p \in Procs : \/ \E c \in Pubs : ReapPick(p, c)
                            \/ ProcFails(p) \/ ReapClaim(p) \/ ReapCheck(p)
         \/ \E c \in Pubs : MarkerExpires(c) \/ MarkerCleanup(c)
         \/ \E r \in Runtimes : GracePasses(r) \/ SweepPick(r)
         \/ RecoverInspect \/ SweepScan \/ Edit
  PROVE  UNCHANGED <<rt, cont>>
BY DEF ReapPick, ProcFails, ReapClaim, ReapCheck, MarkerExpires, MarkerCleanup, GracePasses,
       SweepPick, RecoverInspect, SweepScan, Edit, backend, rows

LEMMA RtSteps == ASSUME Sound, Next PROVE RtStep
<1>1. ASSUME NEW o \in Ops, OwnerWorks(o) PROVE RtStep
  <2>1. CASE Revoke(o)
    <3>1. /\ owner[o].c \in Pubs /\ owner[o].rt \in Runtimes
          /\ cont[owner[o].c].rt = owner[o].rt
      BY <2>1, SoundParts, SafeParts
         DEF Revoke, WellFormed, OwnerFormed, OwnersMeetTheirTarget, Removing
    <3>2. owner[o].rt \in Born BY <3>1, Bounds, StoredRuntime DEF Stored, None
    <3>3. QED BY <2>1, <3>2 DEF Revoke, RtStep
  <2>2. CASE Discard(o)
    BY <2>2, SoundParts DEF Discard, LabelsAreTrue, LabelledBy, Holding, RtStep
  <2>3. CASE Create(o)
    <3>1. owner[o].def \in Defs BY SoundParts, Unmoved DEF Owner
    <3>2. Labelled(o) \subseteq Born BY DEF Labelled, Born, Present
    <3>3. QED BY <2>3, <3>1, <3>2 DEF Create, RtStep
  <2>4. CASE UNCHANGED rt BY <2>4 DEF RtStep
  <2>5. QED BY <1>1, <2>1, <2>2, <2>3, <2>4
        DEF OwnerWorks, Bind, LookCreate, LookDelete, Extend, Unlink, Start, Record, Publish,
            Complete, Settle
<1>2. ASSUME NEW o \in Ops, NEW d \in Defs, LateCreate(o, d) PROVE RtStep
  BY <1>2 DEF LateCreate, RtStep
<1>3. ASSUME NEW p \in Procs, Reap(p) PROVE RtStep
  <2>1. CASE ReapDestroy(p)
    <3>1. Tearing(p) /\ cont[proc[p].c].rt = proc[p].rt
      BY <2>1, SoundParts, SafeParts DEF ReapDestroy, ProcAt, Tearing, TeardownHoldsMarker
    <3>2. proc[p].c \in Pubs /\ proc[p].rt \in Runtimes
      BY <3>1, SoundParts, ProcParts DEF Reaping
    <3>3. proc[p].rt \in Born BY <3>1, <3>2, Bounds, StoredRuntime DEF Stored, None
    <3>4. QED BY <2>1, <3>3 DEF ReapDestroy, RtStep
  <2>2. QED BY <1>3, <2>1 DEF Reap, ReapClaim, ReapCheck, ReapClear, backend, RtStep
<1>4. CASE RecoverRemove
  BY <1>4, SoundParts DEF RecoverRemove, ProcAt, LabelsAreTrue, LabelledBy, RtStep
<1>5. CASE SweepDestroy
  BY <1>5, SoundParts DEF SweepDestroy, ProcAt, OrphansWereBorn, RtStep
<1>6. ASSUME NEW x \in Runtimes, Exit(x) PROVE RtStep BY <1>6 DEF Exit, RtStep
<1>7. CASE UNCHANGED rt BY <1>7 DEF RtStep
<1>8. CASE RecoverFinish \/ \E c \in Pubs : Overdue(c)
  BY <1>7, <1>8 DEF RecoverFinish, Overdue, backend
<1>9. QED BY <1>1, <1>2, <1>3, <1>4, <1>5, <1>6, <1>7, <1>8, RowsAlone, LooksAlone
      DEF Next, Recover

\* A running operation names the runtime it named, or the one its owner holds; a
\* receipt stays while its container does.
OpStep(k) ==
  /\ op'[k].state = "Running" /\ op'[k].rt # None =>
       \/ op[k].state = "Running" /\ op'[k].rt = op[k].rt
       \/ Holding(k) /\ op'[k].rt = owner[k].rt
  /\ op[k].state = "Succeeded" /\ StillPublished(k) =>
       op'[k].state = "Succeeded" /\ op'[k].pub = op[k].pub

LEMMA OneRowMoves ==
  ASSUME Safe, NEW o \in Ops, NEW q, op' = [op EXCEPT ![o] = q],
         q.state = "Running" /\ q.rt # None =>
           \/ op[o].state = "Running" /\ q.rt = op[o].rt
           \/ Holding(o) /\ q.rt = owner[o].rt,
         op[o].state = "Succeeded" /\ StillPublished(o) =>
           q.state = "Succeeded" /\ q.pub = op[o].pub
  PROVE  \A k \in Ops : OpStep(k)
<1>1. op'[o] = q /\ \A k \in Ops : k # o => op'[k] = op[k] BY Unmoved
<1>2. QED BY <1>1 DEF OpStep

LEMMA OpSteps == ASSUME Safe, Next PROVE \A k \in Ops : OpStep(k)
<1>0. CASE UNCHANGED op BY <1>0 DEF OpStep
<1>1. ASSUME NEW o \in Ops, NEW i \in Intents, NEW e \in Pubs \cup {None}, ClaimNew(o, i, e)
      PROVE  \A k \in Ops : OpStep(k)
  <2> DEFINE q == [NoRow EXCEPT !.state = "Running", !.intent = i,
                     !.pub = PublicationOf(i, e), !.lease = "live",
                     !.fence = IF i = "Create" THEN def ELSE -1]
  <2>1. q.rt = None BY DEF NoRow
  <2>2. op' = [k \in Ops |-> IF k = o THEN q
                             ELSE IF k \in Rivals(o) THEN FailedRow(k) ELSE op[k]]
    BY <1>1 DEF ClaimNew
  <2> HIDE DEF q
  <2>3. \A k \in Ops : k \in Rivals(o) => FailedRow(k).state = "Failed"
    BY Unmoved, FailedRowType
  <2>4. op[o].state = "Absent" BY <1>1 DEF ClaimNew
  <2> SUFFICES ASSUME NEW k \in Ops PROVE OpStep(k) OBVIOUS
  <2>5. CASE k = o
    <3>1. op'[k] = q BY <2>2, <2>5
    <3>2. QED BY <2>1, <2>4, <2>5, <3>1 DEF OpStep
  <2>6. CASE k \in Rivals(o)
    <3>1. op'[k] = FailedRow(k) /\ op[k].state = "Running" BY <2>2, <2>6 DEF Rivals
    <3>2. QED BY <2>3, <2>6, <3>1 DEF OpStep
  <2>7. CASE k # o /\ k \notin Rivals(o)
    <3>1. op'[k] = op[k] BY <2>2, <2>7
    <3>2. QED BY <3>1 DEF OpStep
  <2>8. QED BY <2>5, <2>6, <2>7
<1>2. ASSUME NEW o \in Ops, ClaimAgain(o) PROVE \A k \in Ops : OpStep(k)
  <2>1. op[o] \in Row BY Unmoved
  <2> DEFINE resumed == op[o].state = "Running"
             pub == IF ~resumed /\ op[o].intent = "Create" THEN drawn + 1 ELSE op[o].pub
             q == [op[o] EXCEPT !.state = "Running", !.pub = pub, !.lease = "live",
                     !.started = resumed /\ op[o].started,
                     !.fence = IF resumed THEN op[o].fence ELSE -1,
                     !.rt = IF resumed THEN op[o].rt ELSE None]
  <2>2. op' = [op EXCEPT ![o] = q] BY <1>2 DEF ClaimAgain
  <2>3. q.rt = IF resumed THEN op[o].rt ELSE None BY <2>1 DEF Row
  <2>4. op[o].state = "Succeeded" => ~StillPublished(o) BY <1>2 DEF ClaimAgain
  <2> HIDE DEF q
  <2>5. QED BY <2>2, <2>3, <2>4, OneRowMoves
<1>3. ASSUME NEW o \in Ops, LeaseExpires(o) \/ LeaseAges(o) \/ RecoverClaim(o)
      PROVE  \A k \in Ops : OpStep(k)
  <2>1. op[o] \in Row BY Unmoved
  <2>2. PICK x : op' = [op EXCEPT ![o] = [op[o] EXCEPT !.lease = x]]
    BY <1>3, Zenon DEF LeaseExpires, LeaseAges, RecoverClaim
  <2> DEFINE q == [op[o] EXCEPT !.lease = x]
  <2>3. q.state = op[o].state /\ q.rt = op[o].rt /\ q.pub = op[o].pub BY <2>1 DEF Row
  <2>4. op' = [op EXCEPT ![o] = q] BY <2>2
  <2> HIDE DEF q
  <2>5. QED BY <2>3, <2>4, OneRowMoves
<1>4. ASSUME NEW o \in Ops, OwnerWorks(o) PROVE \A k \in Ops : OpStep(k)
  <2>1. op[o] \in Row BY Unmoved
  <2>2. CASE Bind(o)
    <3>1. PICK x : op' = [op EXCEPT ![o] = [op[o] EXCEPT !.fence = x]] BY <2>2 DEF Bind
    <3> DEFINE q == [op[o] EXCEPT !.fence = x]
    <3>2. q.state = op[o].state /\ q.rt = op[o].rt /\ q.pub = op[o].pub BY <2>1 DEF Row
    <3>3. op' = [op EXCEPT ![o] = q] BY <3>1
    <3> HIDE DEF q
    <3>4. QED BY <3>2, <3>3, OneRowMoves
  <2>3. CASE Start(o)
    <3>1. PICK x : op' = [op EXCEPT ![o] = [op[o] EXCEPT !.started = x]] BY <2>3 DEF Start
    <3> DEFINE q == [op[o] EXCEPT !.started = x]
    <3>2. q.state = op[o].state /\ q.rt = op[o].rt /\ q.pub = op[o].pub BY <2>1 DEF Row
    <3>3. op' = [op EXCEPT ![o] = q] BY <3>1
    <3> HIDE DEF q
    <3>4. QED BY <3>2, <3>3, OneRowMoves
  <2>4. CASE Record(o)
    <3>1. PICK x \in {op[o].rt, owner[o].rt} : op' = [op EXCEPT ![o] = [op[o] EXCEPT !.rt = x]]
      BY <2>4 DEF Record
    <3> DEFINE q == [op[o] EXCEPT !.rt = x]
    <3>2. q.state = op[o].state /\ q.rt = x /\ q.pub = op[o].pub BY <2>1 DEF Row
    <3>3. op' = [op EXCEPT ![o] = q] BY <3>1
    <3>4. Holding(o) BY <2>4 DEF Record, Holding
    <3> HIDE DEF q
    <3>5. QED BY <3>2, <3>3, <3>4, OneRowMoves
  <2>5. CASE op' = [op EXCEPT ![o].state = "Succeeded"]
    <3> DEFINE q == [op[o] EXCEPT !.state = "Succeeded"]
    <3>1. q.state = "Succeeded" /\ q.pub = op[o].pub BY <2>1 DEF Row
    <3>2. op' = [op EXCEPT ![o] = q] BY <2>5
    <3> HIDE DEF q
    <3>3. QED BY <3>1, <3>2, OneRowMoves
  <2>6. CASE op' = [op EXCEPT ![o].state = op[o].state]
    <3>1. [op[o] EXCEPT !.state = op[o].state] = op[o] BY <2>1 DEF Row
    <3>2. op' = [op EXCEPT ![o] = op[o]] BY <2>6, <3>1
    <3>3. QED BY <3>2, OneRowMoves
  <2>7. CASE Settle(o)
    <3>1. CASE Owned(o) /\ op[o].started
      <4>1. PICK x : op' = [op EXCEPT ![o] = [op[o] EXCEPT !.lease = x]]
        BY <2>7, <3>1 DEF Settle
      <4> DEFINE q == [op[o] EXCEPT !.lease = x]
      <4>2. q.state = op[o].state /\ q.rt = op[o].rt /\ q.pub = op[o].pub BY <2>1 DEF Row
      <4>3. op' = [op EXCEPT ![o] = q] BY <4>1
      <4> HIDE DEF q
      <4>4. QED BY <4>2, <4>3, OneRowMoves
    <3>2. CASE Owned(o) /\ ~op[o].started
      <4>1. op' = [op EXCEPT ![o] = FailedRow(o)] /\ op[o].state = "Running"
        BY <2>7, <3>2 DEF Settle, Owned
      <4>2. FailedRow(o).state = "Failed" BY <2>1, FailedRowType
      <4>3. QED BY <4>1, <4>2, OneRowMoves
    <3>3. CASE ~Owned(o)
      <4>1. op' = [op EXCEPT ![o] = op[o]] BY <2>7, <3>3 DEF Settle
      <4>2. QED BY <4>1, OneRowMoves
    <3>4. QED BY <3>1, <3>2, <3>3
  <2>8. QED BY <1>0, <1>4, <2>2, <2>3, <2>4, <2>5, <2>6, <2>7
        DEF OwnerWorks, LookCreate, LookDelete, Extend, Revoke, Unlink, Create, Publish,
            Discard, Complete
<1>5. CASE RecoverFinish
  <2> DEFINE o == proc["cron"].op
  <2>1. o \in Ops /\ op[o].state = "Running" /\ op[o] \in Row
    BY <1>5, RecoveryAlone, Unmoved DEF RecoverFinish, Recovery, ProcAt, LiveRow
  <2>2. CASE op' = [op EXCEPT ![o] = [op[o] EXCEPT !.state = "Succeeded"]]
    <3> DEFINE q == [op[o] EXCEPT !.state = "Succeeded"]
    <3>1. q.state = "Succeeded" /\ q.pub = op[o].pub BY <2>1 DEF Row
    <3>2. op' = [op EXCEPT ![o] = q] BY <2>2
    <3> HIDE DEF q, o
    <3>3. QED BY <2>1, <3>1, <3>2, OneRowMoves
  <2>3. CASE op' = [op EXCEPT ![o] = FailedRow(o)]
    <3>1. FailedRow(o).state = "Failed" BY <2>1, FailedRowType
    <3> HIDE DEF o
    <3>2. QED BY <2>1, <2>3, <3>1, OneRowMoves
  <2>4. QED BY <1>5, <2>1, <2>2, <2>3 DEF RecoverFinish
<1>6. QED BY <1>0, <1>1, <1>2, <1>3, <1>4, <1>5
      DEF Next, Recover, Ineligible, OwnerFails, LateCreate, ReapPick, Reap, ReapClaim,
          ReapCheck, ReapDestroy, ReapClear, ProcFails, MarkerExpires, MarkerCleanup, Overdue,
          Exit, GracePasses, SweepPick, RecoverInspect, RecoverRemove, SweepScan, SweepDestroy,
          Edit, rows

\* An owner takes hold of a runtime that carries its label, and unlinks a
\* container whose runtime is gone.
HoldStep(k) ==
  /\ Holding(k)' => \/ Holding(k) /\ owner'[k].rt = owner[k].rt
                    \/ LabelledBy(owner[k].rt, k)'
  /\ owner'[k].pc = "unlink" => \/ owner[k].pc = "unlink" /\ owner'[k].rt = owner[k].rt
                                \/ Gone(owner[k].rt)'

LEMMA OneOwnerMoves ==
  ASSUME Safe, NEW o \in Ops, NEW r, owner' = [owner EXCEPT ![o] = r],
         r.pc \in {"record", "publish", "discard"} =>
           (Holding(o) /\ r.rt = owner[o].rt) \/ LabelledBy(r.rt, o)',
         r.pc = "unlink" => Gone(r.rt)'
  PROVE  \A k \in Ops : HoldStep(k)
<1>1. owner'[o] = r /\ \A k \in Ops : k # o => owner'[k] = owner[k] BY Unmoved
<1> SUFFICES ASSUME NEW k \in Ops PROVE HoldStep(k) OBVIOUS
<1>2. CASE k = o BY <1>1, <1>2 DEF HoldStep, Holding, LabelledBy, Gone, Present
<1>3. CASE k # o BY <1>1, <1>3 DEF HoldStep, Holding
<1>4. QED BY <1>2, <1>3

LEMMA OwnerEnds ==
  ASSUME Safe, NEW o \in Ops, NEW pc \in {"complete", "settle"}, Ending(o, pc)
  PROVE  \A k \in Ops : HoldStep(k)
<1> DEFINE r == [NoOwner EXCEPT !.pc = pc, !.pub = owner[o].pub]
<1>1. owner' = [owner EXCEPT ![o] = r] /\ r.pc = pc BY DEF Ending, NoOwner
<1> HIDE DEF r
<1>2. QED BY <1>1, OneOwnerMoves

LEMMA OwnerGoes ==
  ASSUME Safe, NEW o \in Ops, NEW pc, Goto(o, pc),
         pc \in {"record", "publish", "discard"} => Holding(o),
         pc # "unlink"
  PROVE  \A k \in Ops : HoldStep(k)
<1> DEFINE r == [owner[o] EXCEPT !.pc = pc]
<1>1. owner[o] \in Owner BY Unmoved
<1>2. owner' = [owner EXCEPT ![o] = r] /\ r.pc = pc /\ r.rt = owner[o].rt
  BY <1>1 DEF Goto, Owner
<1> HIDE DEF r
<1>3. QED BY <1>2, OneOwnerMoves

LEMMA HoldSteps == ASSUME Sound, Next PROVE \A k \in Ops : HoldStep(k)
<1>0. Safe /\ BornInOrder BY SoundParts
<1>1. CASE UNCHANGED owner BY <1>1 DEF HoldStep, Holding
<1>2. ASSUME NEW o \in Ops, \/ \E i \in Intents, e \in Pubs \cup {None} : ClaimNew(o, i, e)
                            \/ ClaimAgain(o)
      PROVE  \A k \in Ops : HoldStep(k)
  <2>1. PICK pub : Spawn(o, pub) BY <1>2 DEF ClaimNew, ClaimAgain
  <2> DEFINE pc == IF op'[o].intent = "Create" THEN "bind" ELSE "look"
             r == [NoOwner EXCEPT !.pc = pc, !.pub = pub]
  <2>2. owner' = [owner EXCEPT ![o] = r] /\ r.pc = pc BY <2>1 DEF Spawn, NoOwner
  <2>3. pc \in {"bind", "look"} OBVIOUS
  <2> HIDE DEF r, pc
  <2>4. QED BY <1>0, <2>2, <2>3, OneOwnerMoves
<1>3. ASSUME NEW o \in Ops, OwnerWorks(o) PROVE \A k \in Ops : HoldStep(k)
  <2>0. owner[o] \in Owner BY <1>0, Unmoved
  <2>1. CASE \E pc \in {"complete", "settle"} : Ending(o, pc) BY <1>0, <2>1, OwnerEnds
  <2>2. CASE Bind(o) /\ owner' = [owner EXCEPT ![o].def = def, ![o].pc = "look"]
    <3> DEFINE r == [owner[o] EXCEPT !.def = def, !.pc = "look"]
    <3>1. owner' = [owner EXCEPT ![o] = r] /\ r.pc = "look" BY <2>0, <2>2 DEF Owner
    <3> HIDE DEF r
    <3>2. QED BY <1>0, <3>1, OneOwnerMoves
  <2>3. CASE Goto(o, "start") \/ Goto(o, "create")
    BY <1>0, <2>3, OwnerGoes
  <2>4. CASE owner' = [owner EXCEPT ![o].pc = "revoke", ![o].c = link,
                                    ![o].rt = cont[link].rt]
    <3> DEFINE r == [owner[o] EXCEPT !.pc = "revoke", !.c = link, !.rt = cont[link].rt]
    <3>1. owner' = [owner EXCEPT ![o] = r] /\ r.pc = "revoke" BY <2>0, <2>4 DEF Owner
    <3> HIDE DEF r
    <3>2. QED BY <1>0, <3>1, OneOwnerMoves
  <2>5. CASE Revoke(o)
    <3>1. owner[o].pc = "revoke" /\ rt' = Destroyed(owner[o].rt) BY <2>5 DEF Revoke
    <3>2. /\ owner[o].c \in Pubs /\ owner[o].rt \in Runtimes
          /\ cont[owner[o].c].rt = owner[o].rt
      BY <1>0, <3>1, SafeParts DEF WellFormed, OwnerFormed, OwnersMeetTheirTarget, Removing
    <3>3. owner[o].rt \in Born BY <3>2, Bounds, StoredRuntime DEF Stored, None
    <3> DEFINE x == owner[o].rt
               r == [owner[o] EXCEPT !.pc = "unlink"]
    <3>4. owner' = [owner EXCEPT ![o] = r] /\ r.pc = "unlink" /\ r.rt = x
      BY <2>0, <2>5 DEF Revoke, Goto, Owner
    <3>5. x \in Born /\ rt' = Destroyed(x) BY <3>1, <3>3
    <3> HIDE DEF x, r
    <3>6. rt'[x].st = "gone" BY <1>0, <3>5, DestroyedAges DEF Gone
    <3>7. QED BY <1>0, <3>4, <3>6, OneOwnerMoves DEF Gone
  <2>6. CASE owner' = [owner EXCEPT ![o].pc = "start", ![o].c = None, ![o].rt = None]
    <3> DEFINE r == [owner[o] EXCEPT !.pc = "start", !.c = None, !.rt = None]
    <3>1. owner' = [owner EXCEPT ![o] = r] /\ r.pc = "start" BY <2>0, <2>6 DEF Owner
    <3> HIDE DEF r
    <3>2. QED BY <1>0, <3>1, OneOwnerMoves
  <2>7. ASSUME NEW x, owner' = [owner EXCEPT ![o].pc = "record", ![o].rt = x],
               LabelledBy(x, o)'
        PROVE  \A k \in Ops : HoldStep(k)
    <3> DEFINE r == [owner[o] EXCEPT !.pc = "record", !.rt = x]
    <3>1. owner' = [owner EXCEPT ![o] = r] /\ r.pc = "record" /\ r.rt = x
      BY <2>0, <2>7 DEF Owner
    <3> HIDE DEF r
    <3>2. QED BY <1>0, <2>7, <3>1, OneOwnerMoves
  <2>8. CASE Create(o)
    <3>1. owner[o].def \in Defs BY <2>0 DEF Owner
    <3>2. ASSUME NEW x \in Labelled(o), UNCHANGED rt,
                 owner' = [owner EXCEPT ![o].pc = "record", ![o].rt = x]
          PROVE  \A k \in Ops : HoldStep(k)
      <4>1. LabelledBy(x, o)' BY <3>2 DEF Labelled, LabelledBy, Born, Present
      <4>2. QED BY <2>7, <3>2, <4>1
    <3>3. CASE /\ Born # Runtimes /\ rt' = NewRuntime(o, owner[o].def)
               /\ owner' = [owner EXCEPT ![o].pc = "record", ![o].rt = Cardinality(Born) + 1]
      <4>1. PICK n : n = Cardinality(Born) + 1 OBVIOUS
      <4>2. PICK d \in Defs : d = owner[o].def BY <3>1
      <4>3. LabelledBy(n, o)' BY <1>0, <3>3, <4>1, <4>2, NewRuntimeAges
      <4>4. QED BY <2>7, <3>3, <4>1, <4>3
    <3>4. QED BY <2>1, <2>8, <3>2, <3>3 DEF Create
  <2>9. CASE Record(o) \/ Publish(o)
    <3>1. CASE Goto(o, "publish") \/ Goto(o, "discard")
      <4>1. Holding(o) BY <2>9 DEF Record, Publish, Holding
      <4>2. QED BY <1>0, <3>1, <4>1, OwnerGoes
    <3>2. QED BY <2>1, <2>9, <3>1 DEF Record, Publish
  <2>10. CASE owner' = [owner EXCEPT ![o] = NoOwner]
    BY <1>0, <2>10, Blanks, OneOwnerMoves
  <2>11. QED BY <1>3, <2>1, <2>2, <2>3, <2>4, <2>5, <2>6, <2>8, <2>9, <2>10
         DEF OwnerWorks, Bind, LookCreate, LookDelete, Extend, Unlink, Start, Discard,
             Complete, Settle
<1>4. ASSUME NEW o \in Ops, Ineligible(o) PROVE \A k \in Ops : HoldStep(k)
  <2>1. Goto(o, "discard") /\ Holding(o) BY <1>4 DEF Ineligible, Holding
  <2>2. QED BY <1>0, <2>1, OwnerGoes
<1>5. ASSUME NEW o \in Ops, NEW pc \in {"idle", "settle"}, OwnerFails(o, pc)
      PROVE  \A k \in Ops : HoldStep(k)
  <2>1. CASE pc = "idle"
    <3>1. owner' = [owner EXCEPT ![o] = NoOwner] BY <1>5, <2>1 DEF OwnerFails
    <3>2. QED BY <1>0, <3>1, Blanks, OneOwnerMoves
  <2>2. CASE pc = "settle"
    <3>1. Ending(o, "settle") BY <1>5, <2>2 DEF OwnerFails
    <3>2. QED BY <1>0, <3>1, OwnerEnds
  <2>3. QED BY <2>1, <2>2
<1>6. QED BY <1>1, <1>2, <1>3, <1>4, <1>5
      DEF Next, LeaseExpires, LeaseAges, LateCreate, RecoverClaim, ReapPick, Reap,
          ReapClaim, ReapCheck, ReapDestroy, ReapClear, ProcFails, MarkerExpires,
          MarkerCleanup, Overdue, Exit, GracePasses, SweepPick, Recover, RecoverInspect,
          RecoverRemove, RecoverFinish, SweepScan, SweepDestroy, Edit

\* What the processes hold after a step.
TakeStep ==
  /\ proc'["cron"].pc = "remove" => LabelledBy(proc["cron"].rt, proc["cron"].op)'
  /\ \A p \in Procs : proc'[p].pc = "clear" => Gone(proc[p].rt)'
  /\ proc'["cron"].pc = "sweep" => proc'["cron"].rt \in Born'

LEMMA OneProcMoves ==
  ASSUME Sound, Aging, NEW p \in Procs, NEW w, proc' = [proc EXCEPT ![p] = w],
         w.pc = "remove" => LabelledBy(w.rt, w.op)',
         w.pc = "clear" => Gone(w.rt)',
         w.pc = "sweep" => w.rt \in Born
  PROVE  TakeStep
<1>1. proc'[p] = w /\ \A s \in Procs : s # p => proc'[s] = proc[s] BY SoundParts, ProcParts
<1>2. \A s \in Procs : proc[s].pc = "clear" => proc[s].rt \in Born /\ Gone(proc[s].rt)
  <2> SUFFICES ASSUME NEW s \in Procs, proc[s].pc = "clear"
               PROVE  proc[s].rt \in Born /\ Gone(proc[s].rt)
    OBVIOUS
  <2>1. Gone(proc[s].rt) BY SoundParts DEF RemovedIsGone
  <2>2. proc[s].rt \in Runtimes BY SoundParts, ProcParts DEF Reaping, Tearing
  <2>3. QED BY <2>1, <2>2 DEF Gone, Born
<1>3. \A s \in Procs : proc'[s].pc = "clear" => Gone(proc[s].rt)'
  <2> SUFFICES ASSUME NEW s \in Procs, proc'[s].pc = "clear" PROVE Gone(proc[s].rt)'
    OBVIOUS
  <2>1. CASE s = p BY <1>1, <2>1 DEF Gone
  <2>2. CASE s # p
    <3>1. proc'[s] = proc[s] /\ Gone(proc[s].rt) /\ proc[s].rt \in Born BY <1>1, <1>2, <2>2
    <3>2. QED BY <3>1 DEF Aging, Gone
  <2>3. QED BY <2>1, <2>2
<1>4. CASE p = "cron"
  BY <1>1, <1>3, <1>4 DEF TakeStep, LabelledBy, Present, Aging
<1>5. CASE p # "cron"
  <2>1. proc'["cron"] = proc["cron"] BY <1>1, <1>5, Distinct
  <2>2. proc["cron"].pc = "remove" => LabelledBy(proc["cron"].rt, proc["cron"].op)
    BY SoundParts DEF LabelsAreTrue
  <2>3. proc["cron"].pc = "sweep" => proc["cron"].rt \in Born BY SoundParts DEF OrphansWereBorn
  <2>4. QED BY <1>3, <2>1, <2>2, <2>3 DEF TakeStep, LabelledBy, Present, Aging
<1>6. QED BY <1>4, <1>5

LEMMA ProcGoes ==
  ASSUME Sound, Aging, NEW p \in Procs, NEW pc, ProcGoto(p, pc),
         pc \notin {"remove", "sweep", "clear"}
  PROVE  TakeStep
<1> DEFINE w == [proc[p] EXCEPT !.pc = pc]
<1>1. proc[p] \in Proc BY SoundParts, ProcParts
<1>2. proc' = [proc EXCEPT ![p] = w] /\ w.pc = pc BY <1>1 DEF ProcGoto, Proc
<1> HIDE DEF w
<1>3. QED BY <1>2, OneProcMoves

LEMMA TakeSteps == ASSUME Sound, Next PROVE TakeStep
<1>0. Safe /\ BornInOrder /\ "cron" \in Procs BY SoundParts, Distinct
<1>1. Aging BY <1>0, RtSteps, RuntimesAge
<1>2. ASSUME NEW p \in Procs, ProcEnds(p) PROVE TakeStep
  BY <1>1, <1>2, Blanks, OneProcMoves DEF ProcEnds
<1>3. CASE UNCHANGED proc
  <2>2. proc["cron"].pc = "remove" => LabelledBy(proc["cron"].rt, proc["cron"].op)
    BY SoundParts DEF LabelsAreTrue
  <2>3. proc["cron"].pc = "sweep" => proc["cron"].rt \in Born BY SoundParts DEF OrphansWereBorn
  <2>5. \A p \in Procs : proc[p].pc = "clear" => Gone(proc[p].rt) /\ proc[p].rt \in Born
    <3>1. \A p \in Procs : proc[p].pc = "clear" => Gone(proc[p].rt) /\ proc[p].rt \in Runtimes
      BY <1>0, SoundParts, ProcParts DEF RemovedIsGone, Reaping, Tearing
    <3>2. QED BY <3>1 DEF Gone, Born
  <2>6. QED BY <1>1, <1>3, <2>2, <2>3, <2>5 DEF TakeStep, LabelledBy, Present, Aging, Gone
<1>4. ASSUME NEW p \in Procs, NEW c \in Pubs, ReapPick(p, c) PROVE TakeStep
  <2> DEFINE w == [NoProc EXCEPT !.pc = "claim", !.c = c, !.rt = cont[c].rt]
  <2>1. proc' = [proc EXCEPT ![p] = w] /\ w.pc = "claim" BY <1>4 DEF ReapPick, NoProc
  <2> HIDE DEF w
  <2>2. QED BY <1>1, <2>1, OneProcMoves
<1>5. ASSUME NEW p \in Procs, Reap(p) PROVE TakeStep
  <2>1. CASE ReapDestroy(p)
    <3>1. Tearing(p) /\ cont[proc[p].c].rt = proc[p].rt
      BY <1>0, <2>1, SafeParts DEF ReapDestroy, ProcAt, Tearing, TeardownHoldsMarker
    <3>2. proc[p].c \in Pubs /\ proc[p].rt \in Runtimes
      BY <1>0, <3>1, ProcParts DEF Reaping
    <3>3. proc[p].rt \in Born BY <3>1, <3>2, Bounds, StoredRuntime DEF Stored, None
    <3> DEFINE x == proc[p].rt
               w == [proc[p] EXCEPT !.pc = "clear"]
    <3>4. proc[p] \in Proc BY <1>0, ProcParts
    <3>5. proc' = [proc EXCEPT ![p] = w] /\ w.pc = "clear" /\ w.rt = x
      BY <2>1, <3>4 DEF ReapDestroy, ProcGoto, Proc
    <3>6. x \in Born /\ rt' = Destroyed(x) BY <2>1, <3>3 DEF ReapDestroy
    <3> HIDE DEF x, w
    <3>7. rt'[x].st = "gone" BY <1>0, <3>6, DestroyedAges DEF Gone
    <3>8. QED BY <1>1, <3>5, <3>7, OneProcMoves DEF Gone
  <2>2. CASE ProcGoto(p, "check") \/ ProcGoto(p, "destroy") BY <1>1, <2>2, ProcGoes
  <2>3. QED BY <1>2, <1>5, <2>1, <2>2 DEF Reap, ReapClaim, ReapCheck, ReapClear
<1>6. ASSUME NEW o \in Ops, RecoverClaim(o) PROVE TakeStep
  <2> DEFINE w == [NoProc EXCEPT !.pc = "inspect", !.op = o]
  <2>1. proc' = [proc EXCEPT !["cron"] = w] /\ w.pc = "inspect"
    BY <1>6 DEF RecoverClaim, NoProc
  <2> HIDE DEF w
  <2>2. QED BY <1>0, <1>1, <2>1, OneProcMoves
<1>7. CASE RecoverInspect
  <2> DEFINE o == proc["cron"].op
             c == op[o].pub
             keep == Stored(c) /\ link = c /\ op[o].fence = def /\ Reusable(c, def)
             found == {IF Stored(c) THEN cont[c].rt ELSE op[o].rt} \ {None}
             target == IF found = {} THEN Labelled(o) ELSE found
  <2>1. /\ o \in Ops /\ ~Stored(c) /\ op[o].state = "Running" /\ proc["cron"] \in Proc
        /\ UNCHANGED rt
    BY <1>0, <1>7, RecoveryAlone, ProcParts
       DEF RecoverInspect, Recovery, ProcAt, LiveRow, backend
  <2>2. \A r \in target : LabelledBy(r, o)
    <3>1. op[o].rt # None => LabelledBy(op[o].rt, o) BY <2>1, SoundParts DEF LabelsAreTrue
    <3>2. \A r \in Labelled(o) : LabelledBy(r, o) BY DEF Labelled, LabelledBy, Born, Present
    <3> HIDE DEF c, o
    <3>3. QED BY <2>1, <3>1, <3>2
  <2>3. CASE keep \/ target = {}
    <3> DEFINE w == [proc["cron"] EXCEPT !.pc = "finish", !.keep = keep]
    <3>1. proc' = [proc EXCEPT !["cron"] = w] BY <1>7, <2>3 DEF RecoverInspect
    <3>2. w.pc = "finish" BY <2>1 DEF Proc
    <3> HIDE DEF w
    <3>3. QED BY <1>0, <1>1, <3>1, <3>2, OneProcMoves
  <2>4. CASE ~(keep \/ target = {})
    <3>1. PICK r \in target :
            proc' = [proc EXCEPT !["cron"].pc = "remove",
                       !["cron"].c = IF Stored(c) THEN c ELSE None,
                       !["cron"].rt = r]
      BY <1>7, <2>4 DEF RecoverInspect
    <3> DEFINE x == IF Stored(c) THEN c ELSE None
               w == [proc["cron"] EXCEPT !.pc = "remove", !.c = x, !.rt = r]
    <3>2. proc' = [proc EXCEPT !["cron"] = w] BY <3>1
    <3>3. w.pc = "remove" /\ w.rt = r /\ w.op = o
      <4> HIDE DEF x
      <4>1. QED BY <2>1 DEF Proc
    <3>4. r \in Born /\ (Present(r) => rt[r].op = o) BY <2>2, <3>1 DEF LabelledBy
    <3> HIDE DEF w, o, target
    <3>5. PICK v : v = w OBVIOUS
    <3>6. LabelledBy(v.rt, v.op)'
      BY <2>1, <3>3, <3>4, <3>5 DEF LabelledBy, Born, Present
    <3>7. QED BY <1>0, <1>1, <3>2, <3>3, <3>5, <3>6, OneProcMoves
  <2>5. QED BY <2>3, <2>4
<1>8. CASE RecoverRemove
  <2>1. ProcGoto("cron", "finish") BY <1>8 DEF RecoverRemove
  <2>2. QED BY <1>0, <1>1, <2>1, ProcGoes
<1>9. ASSUME NEW r \in Runtimes, SweepPick(r), ~Known(r) PROVE TakeStep
  <2> DEFINE w == [NoProc EXCEPT !.pc = "sweep", !.rt = r]
  <2>1. proc' = [proc EXCEPT !["cron"] = w] /\ w.pc = "sweep" /\ w.rt = r
    BY <1>9 DEF SweepPick, NoProc
  <2>2. r \in Born BY <1>9, SoundParts DEF SweepPick, OrphansWereBorn
  <2> HIDE DEF w
  <2>3. QED BY <1>0, <1>1, <2>1, <2>2, OneProcMoves
<1>10. ASSUME NEW o \in Ops, OwnerWorks(o) PROVE UNCHANGED proc
  BY <1>10 DEF OwnerWorks, Bind, LookCreate, LookDelete, Extend, Revoke, Unlink, Start, Create,
               Record, Publish, Discard, Complete, Settle, OwnerStep
<1>11. ASSUME NEW r \in Runtimes, SweepPick(r), Known(r) PROVE UNCHANGED proc
  BY <1>11 DEF SweepPick
<1>12. CASE RecoverFinish \/ SweepDestroy BY <1>0, <1>2, <1>12 DEF RecoverFinish, SweepDestroy
<1>13. ASSUME NEW p \in Procs, ProcFails(p) PROVE TakeStep BY <1>2, <1>13 DEF ProcFails
<1>14. ASSUME NEW o \in Ops,
              \/ \E i \in Intents, e \in Pubs \cup {None} : ClaimNew(o, i, e)
              \/ ClaimAgain(o) \/ LeaseExpires(o) \/ LeaseAges(o) \/ Ineligible(o)
              \/ \E pc \in {"idle", "settle"} : OwnerFails(o, pc)
              \/ \E d \in Defs : LateCreate(o, d)
       PROVE  UNCHANGED proc
  BY <1>14 DEF ClaimNew, ClaimAgain, LeaseExpires, LeaseAges, Ineligible, OwnerFails, LateCreate
<1>15. ASSUME \/ \E c \in Pubs : MarkerExpires(c) \/ MarkerCleanup(c) \/ Overdue(c)
              \/ \E r \in Runtimes : Exit(r) \/ GracePasses(r)
              \/ SweepScan \/ Edit
       PROVE  UNCHANGED proc
  BY <1>15 DEF MarkerExpires, MarkerCleanup, Overdue, Exit, GracePasses, SweepScan, Edit
<1>16. QED BY <1>3, <1>4, <1>5, <1>6, <1>7, <1>8, <1>9, <1>10, <1>11, <1>12, <1>13, <1>14, <1>15
       DEF Next, Recover

\* A container row comes with the receipt of the operation that publishes it and
\* goes after its runtime.
RowStep(c) ==
  /\ Stored(c)' => \/ Stored(c) /\ cont'[c].rt = cont[c].rt
                   \/ \E k \in Ops : /\ LabelledBy(cont[c].rt, k)'
                                     /\ op'[k].state = "Succeeded" /\ op'[k].pub = c
  /\ Stored(c) => cont'[c].rt = cont[c].rt \/ Gone(cont[c].rt)

LEMMA RowSteps == ASSUME Sound, Next PROVE \A c \in Pubs : RowStep(c)
<1>0. /\ Safe /\ cont \in [Pubs -> Container] /\ NoContainer.rt = None
      /\ \A k \in Ops : op[k] \in Row /\ owner[k] \in Owner
  BY SoundParts, ProcParts, Blanks, Unmoved
<1>1. CASE \A c \in Pubs : cont'[c].rt = cont[c].rt BY <1>1 DEF RowStep, Stored
<1>2. ASSUME NEW e \in Pubs, cont' = [cont EXCEPT ![e] = NoContainer], Gone(cont[e].rt)
      PROVE  \A c \in Pubs : RowStep(c)
  <2>1. cont'[e].rt = None /\ \A c \in Pubs : c # e => cont'[c] = cont[c] BY <1>0, <1>2
  <2>2. QED BY <1>2, <2>1 DEF RowStep, Stored
<1>3. ASSUME NEW o \in Ops, Publish(o) PROVE \A c \in Pubs : RowStep(c)
  <2>1. CASE Publishable(o)
    <3> DEFINE e == owner[o].pub
               x == [rt |-> owner[o].rt, def |-> def, due |-> FALSE]
    <3>1. Holding(o) /\ Building(o) /\ Working(o) /\ owner[o].pc # "idle"
      BY <1>3 DEF Publish, Holding, Building, Working
    <3>2. e \in Pubs /\ op[o].pub = e /\ LabelledBy(owner[o].rt, o)
      BY <1>0, <3>1, SafeParts, SoundParts, Alone DEF WellFormed, OwnerFormed, LabelsAreTrue
    <3>3. cont' = [cont EXCEPT ![e] = x] /\ op' = [op EXCEPT ![o].state = "Succeeded"]
          /\ UNCHANGED rt
      BY <1>3, <2>1 DEF Publish
    <3>4. op'[o].state = "Succeeded" /\ op'[o].pub = op[o].pub
      <4> DEFINE q == [op[o] EXCEPT !.state = "Succeeded"]
      <4>1. q.state = "Succeeded" /\ q.pub = op[o].pub BY <1>0, Receipt
      <4>2. op' = [op EXCEPT ![o] = q] BY <3>3
      <4> HIDE DEF q
      <4>3. QED BY <1>0, <4>1, <4>2, Unmoved
    <3>5. x.rt = owner[o].rt OBVIOUS
    <3> HIDE DEF e, x
    <3>6. cont'[e].rt = owner[o].rt /\ \A c \in Pubs : c # e => cont'[c] = cont[c]
      BY <1>0, <3>2, <3>3, <3>5
    <3>7. \A c \in Pubs : ~Stored(c) BY <1>0, <3>1, NothingStored
    <3>8. \A c \in Pubs : Stored(c)' => c = e BY <3>6, <3>7 DEF Stored
    <3>9. ASSUME NEW c \in Pubs, Stored(c)'
          PROVE  /\ LabelledBy(cont[c].rt, o)'
                 /\ op'[o].state = "Succeeded" /\ op'[o].pub = c
      <4>1. c = e /\ cont'[c].rt = owner[o].rt BY <3>6, <3>8, <3>9
      <4>2. LabelledBy(cont[c].rt, o)'
        BY <3>2, <3>3, <4>1 DEF LabelledBy, Born, Present
      <4>3. QED BY <3>2, <3>4, <4>1, <4>2
    <3>10. QED BY <3>7, <3>9 DEF RowStep
  <2>2. CASE ~Publishable(o)
    <3>1. UNCHANGED cont BY <1>3, <2>2 DEF Publish
    <3>2. QED BY <1>1, <3>1
  <2>3. QED BY <2>1, <2>2
<1>4. ASSUME NEW e \in Pubs, NEW x \in BOOLEAN, cont' = [cont EXCEPT ![e].due = x]
      PROVE  \A c \in Pubs : RowStep(c)
  <2> DEFINE z == [cont[e] EXCEPT !.due = x]
  <2>1. z.rt = cont[e].rt BY <1>0 DEF Container
  <2>2. cont' = [cont EXCEPT ![e] = z] BY <1>4
  <2> HIDE DEF z
  <2>3. QED BY <1>0, <1>1, <2>1, <2>2
<1>5. ASSUME NEW o \in Ops, Extend(o) PROVE \A c \in Pubs : RowStep(c)
  <2>1. CASE link = owner[o].pub /\ Owned(o)
    <3>1. link \in Pubs
      BY <1>0, <1>5, <2>1, SafeParts DEF Extend, WellFormed, OwnerFormed
    <3>2. PICK x \in {FALSE, cont[link].due} : cont' = [cont EXCEPT ![link].due = x]
      BY <1>5, <2>1 DEF Extend
    <3>3. x \in BOOLEAN BY <1>0, <3>1 DEF Container
    <3>4. QED BY <1>4, <3>1, <3>2, <3>3
  <2>2. CASE ~(link = owner[o].pub /\ Owned(o))
    <3>1. UNCHANGED cont BY <1>5, <2>2 DEF Extend
    <3>2. QED BY <1>1, <3>1
  <2>3. QED BY <2>1, <2>2
<1>6. ASSUME NEW o \in Ops, Unlink(o) PROVE \A c \in Pubs : RowStep(c)
  <2>1. owner[o].pc = "unlink" BY <1>6 DEF Unlink
  <2>2. owner[o].c \in Pubs /\ cont[owner[o].c].rt = owner[o].rt /\ Gone(owner[o].rt)
    BY <1>0, <2>1, SafeParts, SoundParts
       DEF WellFormed, OwnerFormed, OwnersMeetTheirTarget, Removing, RemovedIsGone
  <2>3. cont' = [cont EXCEPT ![owner[o].c] = NoContainer]
    BY <1>6, <2>2 DEF Unlink, Cleared
  <2>4. QED BY <1>2, <2>2, <2>3
<1>7. ASSUME NEW p \in Procs, ReapClear(p) PROVE \A c \in Pubs : RowStep(c)
  <2>1. proc[p].pc = "clear" /\ Tearing(p) BY <1>7 DEF ReapClear, ProcAt, Tearing
  <2>2. proc[p].c \in Pubs /\ cont[proc[p].c].rt = proc[p].rt /\ Gone(proc[p].rt)
    BY <1>0, <2>1, SafeParts, SoundParts, ProcParts
       DEF TeardownHoldsMarker, RemovedIsGone, Reaping
  <2>3. cont' = [cont EXCEPT ![proc[p].c] = NoContainer]
    BY <1>7, <2>2 DEF ReapClear, Cleared
  <2>4. QED BY <1>2, <2>2, <2>3
<1>8. CASE RecoverFinish
  <2>1. proc["cron"].c = None
    BY <1>0, <1>8, RecoveryAlone DEF RecoverFinish, Recovery, ProcAt
  <2>2. UNCHANGED cont BY <1>8, <2>1 DEF RecoverFinish
  <2>3. QED BY <1>1, <2>2
<1>9. ASSUME NEW e \in Pubs, Overdue(e) PROVE \A c \in Pubs : RowStep(c)
  BY <1>4, <1>9 DEF Overdue
<1>10. ASSUME NEW o \in Ops, OwnerWorks(o) PROVE \A c \in Pubs : RowStep(c)
  <2>1. CASE UNCHANGED cont BY <1>1, <2>1
  <2>2. QED BY <1>3, <1>5, <1>6, <1>10, <2>1
        DEF OwnerWorks, Bind, LookCreate, LookDelete, Revoke, Start, Create, Record, Discard,
            Complete, Settle
<1>11. CASE UNCHANGED cont BY <1>1, <1>11
<1>12. CASE \/ \E o \in Ops, d \in Defs : LateCreate(o, d)
            \/ \E p \in Procs : ReapDestroy(p)
            \/ \E r \in Runtimes : Exit(r)
            \/ RecoverRemove \/ SweepDestroy
  BY <1>11, <1>12 DEF LateCreate, ReapDestroy, Exit, RecoverRemove, SweepDestroy, rows
<1>13. QED BY <1>7, <1>8, <1>9, <1>10, <1>11, <1>12, RowsAlone, LooksAlone
       DEF Next, Recover, Reap

LEMMA SeenSteps ==
  ASSUME Sound, Next
  PROVE  \A r \in Runtimes : seen'[r] # "no" => r \in Born
<1>0. seen \in [Runtimes -> {"no", "seen", "ripe"}] BY SoundParts, Unmoved
<1>1. \A r \in Runtimes : seen[r] # "no" => r \in Born BY SoundParts DEF OrphansWereBorn
<1>2. CASE UNCHANGED seen BY <1>1, <1>2
<1>3. CASE SweepScan BY <1>3 DEF SweepScan, Present, Born
<1>4. ASSUME NEW x \in Runtimes, GracePasses(x) \/ SweepPick(x)
      PROVE  \A r \in Runtimes : seen'[r] # "no" => r \in Born
  <2>1. x \in Born BY <1>1, <1>4 DEF GracePasses, SweepPick
  <2>2. \A r \in Runtimes : r # x => seen'[r] = seen[r]
    BY <1>0, <1>4 DEF GracePasses, SweepPick
  <2>3. QED BY <1>1, <2>1, <2>2
<1>5. CASE SweepDestroy BY <1>0, <1>1, <1>5 DEF SweepDestroy
<1>6. ASSUME NEW o \in Ops, OwnerWorks(o) PROVE UNCHANGED seen
  BY <1>6 DEF OwnerWorks, Bind, LookCreate, LookDelete, Extend, Revoke, Unlink, Start, Create,
              Record, Publish, Discard, Complete, Settle, OwnerStep
<1>7. ASSUME NEW o \in Ops,
             \/ \E i \in Intents, e \in Pubs \cup {None} : ClaimNew(o, i, e)
             \/ ClaimAgain(o) \/ LeaseExpires(o) \/ LeaseAges(o) \/ Ineligible(o)
             \/ \E pc \in {"idle", "settle"} : OwnerFails(o, pc)
             \/ \E d \in Defs : LateCreate(o, d)
             \/ RecoverClaim(o)
      PROVE  UNCHANGED seen
  BY <1>7 DEF ClaimNew, ClaimAgain, LeaseExpires, LeaseAges, Ineligible, OwnerFails,
              LateCreate, RecoverClaim
<1>8. ASSUME NEW p \in Procs, \/ \E c \in Pubs : ReapPick(p, c)
                             \/ Reap(p) \/ ProcFails(p)
      PROVE  UNCHANGED seen
  BY <1>8 DEF Reap, ReapPick, ReapClaim, ReapCheck, ReapDestroy, ReapClear, ProcFails
<1>9. ASSUME NEW c \in Pubs, MarkerExpires(c) \/ MarkerCleanup(c) \/ Overdue(c)
      PROVE  UNCHANGED seen
  BY <1>9 DEF MarkerExpires, MarkerCleanup, Overdue
<1>10. ASSUME Recover \/ Edit \/ \E r \in Runtimes : Exit(r) PROVE UNCHANGED seen
  BY <1>10 DEF Recover, RecoverInspect, RecoverRemove, RecoverFinish, Edit, Exit
<1>11. QED BY <1>2, <1>3, <1>4, <1>5, <1>6, <1>7, <1>8, <1>9, <1>10 DEF Next

LEMMA InitSound == ASSUME Init PROVE Sound
<1>1. Safe BY InitSafe
<1>2. /\ \A r \in Runtimes : rt[r] = NoRuntime /\ seen[r] = "no"
      /\ \A o \in Ops : op[o] = NoRow /\ owner[o] = NoOwner
      /\ \A p \in Procs : proc[p] = NoProc
      /\ \A c \in Pubs : cont[c] = NoContainer
  BY DEF Init
<1>3. BornInOrder
  <2>1. Born = {} BY <1>2, Blanks DEF Born
  <2>2. 1 .. 0 = {} /\ 0 \in 0 .. MaxRuntimes BY Bounds
  <2>3. QED BY <2>1, <2>2 DEF BornInOrder
<1>4. RemovedIsGone BY <1>2, Blanks DEF RemovedIsGone
<1>5. LabelsAreTrue BY <1>2, Blanks, Distinct DEF LabelsAreTrue, Holding, Stored
<1>6. OrphansWereBorn BY <1>2, Blanks, Distinct DEF OrphansWereBorn
<1>7. QED BY <1>1, <1>3, <1>4, <1>5, <1>6 DEF Sound

LEMMA SoundStep == Sound /\ [Next]_vars => Sound'
<1> SUFFICES ASSUME Sound, [Next]_vars PROVE Sound' OBVIOUS
<1>1. Safe' BY SoundParts, SafeStep
<1>2. CASE UNCHANGED vars
  <2>1. UNCHANGED <<op, cont, rt, seen, owner, proc>> BY <1>2 DEF vars, rows, backend
  <2>2. BornInOrder' BY <2>1, SoundParts DEF BornInOrder, Born
  <2>3. RemovedIsGone' BY <2>1, SoundParts DEF RemovedIsGone, Gone
  <2>4. LabelsAreTrue'
    BY <2>1, SoundParts DEF LabelsAreTrue, LabelledBy, Holding, Stored, Born, Present
  <2>5. OrphansWereBorn' BY <2>1, SoundParts DEF OrphansWereBorn, Born
  <2>6. QED BY <1>1, <2>2, <2>3, <2>4, <2>5 DEF Sound
<1>3. CASE Next
  <2>1. Aging /\ BornInOrder' /\ Born \subseteq Born' BY <1>3, SoundParts, RtSteps, RuntimesAge
  <2>2. \A k \in Ops : OpStep(k) /\ HoldStep(k) BY <1>3, SoundParts, OpSteps, HoldSteps
  <2>3. TakeStep BY <1>3, TakeSteps
  <2>4. RemovedIsGone'
    <3>1. ASSUME NEW k \in Ops, owner'[k].pc = "unlink" PROVE Gone(owner[k].rt)'
      <4>1. CASE Gone(owner[k].rt)' BY <4>1
      <4>2. CASE owner[k].pc = "unlink" /\ owner'[k].rt = owner[k].rt
        <5>1. Gone(owner[k].rt) /\ owner[k].rt \in Runtimes
          BY <4>2, SoundParts, SafeParts DEF RemovedIsGone, WellFormed, OwnerFormed, Removing
        <5>2. owner[k].rt \in Born BY <5>1 DEF Gone, Born
        <5>3. QED BY <2>1, <4>2, <5>1, <5>2 DEF Aging, Gone
      <4>3. QED BY <2>2, <3>1, <4>1, <4>2 DEF HoldStep
    <3>2. QED BY <2>3, <3>1 DEF RemovedIsGone, TakeStep
  <2>5. LabelsAreTrue'
    <3>1. ASSUME NEW k \in Ops, op'[k].state = "Running", op'[k].rt # None
          PROVE  LabelledBy(op[k].rt, k)'
      <4>1. \/ op[k].state = "Running" /\ op'[k].rt = op[k].rt
            \/ Holding(k) /\ op'[k].rt = owner[k].rt
        BY <2>2, <3>1 DEF OpStep
      <4>2. LabelledBy(op'[k].rt, k) BY <3>1, <4>1, SoundParts DEF LabelsAreTrue
      <4>3. QED BY <2>1, <4>2 DEF LabelledBy, Aging, Present
    <3>2. ASSUME NEW k \in Ops, Holding(k)' PROVE LabelledBy(owner[k].rt, k)'
      <4>1. CASE LabelledBy(owner[k].rt, k)' BY <4>1
      <4>2. CASE Holding(k) /\ owner'[k].rt = owner[k].rt
        <5>1. LabelledBy(owner[k].rt, k) BY <4>2, SoundParts DEF LabelsAreTrue
        <5>2. QED BY <2>1, <4>2, <5>1 DEF LabelledBy, Aging, Present
      <4>3. QED BY <2>2, <3>2, <4>1, <4>2 DEF HoldStep
    <3>3. ASSUME NEW c \in Pubs, Stored(c)'
          PROVE  \E k \in Ops : /\ LabelledBy(cont[c].rt, k)'
                                /\ op'[k].state = "Succeeded" /\ op'[k].pub = c
      <4>1. RowStep(c) BY <1>3, RowSteps
      <4>2. CASE Stored(c) /\ cont'[c].rt = cont[c].rt
        <5>1. PICK k \in Ops : LabelledBy(cont[c].rt, k) /\ op[k].state = "Succeeded" /\ op[k].pub = c
          BY <4>2, SoundParts DEF LabelsAreTrue
        <5>2. StillPublished(k) BY <4>2, <5>1, StoredRuntime DEF StillPublished
        <5>3. op'[k].state = "Succeeded" /\ op'[k].pub = c BY <2>2, <5>1, <5>2 DEF OpStep
        <5>4. LabelledBy(cont[c].rt, k)'
          BY <2>1, <4>2, <5>1 DEF LabelledBy, Aging, Present
        <5>5. QED BY <5>3, <5>4
      <4>3. QED BY <3>3, <4>1, <4>2 DEF RowStep
    <3>4. QED BY <2>3, <3>1, <3>2, <3>3 DEF LabelsAreTrue, TakeStep
  <2>6. OrphansWereBorn'
    <3>1. \A r \in Runtimes : seen'[r] # "no" => r \in Born BY <1>3, SeenSteps
    <3>2. QED BY <2>1, <2>3, <3>1 DEF OrphansWereBorn, TakeStep
  <2>7. QED BY <1>1, <2>1, <2>4, <2>5, <2>6 DEF Sound
<1>4. QED BY <1>2, <1>3

LEMMA AlwaysSound == Spec => []Sound
BY InitSound, SoundStep, PTL DEF Spec

\* How the runtime of a stored container can go.
Entitled(c) ==
  \/ \E o \in Ops : owner[o].pc = "revoke" /\ owner[o].c = c
  \/ \E p \in Procs : ProcAt(p, "destroy") /\ proc[p].c = c /\ marker[c] = p
  \/ ProcAt("cron", "sweep")

LEMMA OnlyTheEntitledDestroy ==
  ASSUME Sound, Next, NEW c \in Pubs, Stored(c), Present(cont[c].rt),
         ~(rt'[cont[c].rt].st \in {"up", "exited"})
  PROVE  Entitled(c)
<1> DEFINE x == cont[c].rt
<1>0. Safe /\ link = c /\ x \in Born /\ x \in Runtimes
  BY SoundParts, StoredRuntime DEF Born
<1>1. \A y \in Runtimes : rt' = Destroyed(y) => y = x
  <2> SUFFICES ASSUME NEW y \in Runtimes, rt' = Destroyed(y), y # x PROVE FALSE OBVIOUS
  <2>1. rt'[x] = rt[x] BY <1>0, Unmoved DEF Destroyed
  <2>2. QED BY <2>1 DEF Present
<1>2. rt' # rt BY DEF Present
<1>3. \A o \in Ops : ~Building(o) BY <1>0, Bounds, NothingStored
<1>4. ASSUME NEW o \in Ops, Revoke(o) PROVE Entitled(c)
  <2>1. owner[o].pc = "revoke" /\ link = owner[o].c
    BY <1>0, <1>4, SafeParts DEF Revoke, OwnersMeetTheirTarget, Removing
  <2>2. QED BY <1>0, <2>1 DEF Entitled
<1>5. ASSUME NEW o \in Ops, OwnerWorks(o) PROVE Entitled(c)
  <2>1. ~Discard(o) /\ ~Create(o) BY <1>3 DEF Discard, Create, Building
  <2>2. QED BY <1>2, <1>4, <1>5, <2>1
        DEF OwnerWorks, Bind, LookCreate, LookDelete, Extend, Unlink, Start, Record, Publish,
            Complete, Settle
<1>6. ASSUME NEW p \in Procs, ReapDestroy(p) PROVE Entitled(c)
  <2>1. ProcAt(p, "destroy") /\ Tearing(p) BY <1>6 DEF ReapDestroy, ProcAt, Tearing
  <2>2. /\ proc[p].c \in Pubs /\ proc[p].rt \in Runtimes /\ marker[proc[p].c] = p
        /\ cont[proc[p].c].rt = proc[p].rt
    BY <1>0, <2>1, SafeParts, ProcParts DEF ProcAt, TeardownHoldsMarker, Reaping
  <2>3. proc[p].c = c
    BY <1>0, <2>2, Bounds, StoredRuntime DEF Stored, None
  <2>4. QED BY <2>1, <2>2, <2>3 DEF Entitled
<1>7. CASE RecoverRemove
  <2> DEFINE o == proc["cron"].op
  <2>1. proc["cron"].pc = "remove" /\ Recovery BY <1>7 DEF RecoverRemove, ProcAt, Recovery
  <2>2. op[o].state = "Running" BY <1>0, <2>1, RecoveryAlone DEF LiveRow
  <2>3. proc["cron"].rt \in Runtimes /\ LabelledBy(proc["cron"].rt, o)
    BY <2>1, SoundParts DEF LabelsAreTrue, LabelledBy, Born
  <2>4. proc["cron"].rt = x BY <1>1, <1>7, <2>3 DEF RecoverRemove
  <2>5. PICK k \in Ops : LabelledBy(x, k) /\ op[k].state = "Succeeded"
    BY SoundParts DEF LabelsAreTrue
  <2>6. k = o BY <2>3, <2>4, <2>5 DEF LabelledBy
  <2>7. QED BY <2>2, <2>5, <2>6
<1>8. CASE SweepDestroy BY <1>8 DEF SweepDestroy, Entitled
<1>9. ASSUME NEW o \in Ops, NEW d \in Defs, LateCreate(o, d) PROVE FALSE
  <2>1. Born # Runtimes /\ rt' = NewRuntime(o, d) BY <1>2, <1>9 DEF LateCreate
  <2>2. rt'[x] = rt[x]
    <3>1. PICK k \in 0 .. MaxRuntimes :
            Born = 1 .. k /\ Cardinality(Born) + 1 = k + 1 /\ k + 1 \in Runtimes
      BY <1>0, <2>1, SoundParts, BornNext
    <3>2. x # k + 1 BY <1>0, <3>1
    <3>3. QED BY <1>0, <2>1, <3>1, <3>2, Unmoved DEF NewRuntime
  <2>3. QED BY <2>2 DEF Present
<1>10. ASSUME NEW r \in Runtimes, Exit(r) PROVE FALSE
  <2>1. rt'[x] = rt[x] \/ rt'[x].st = "exited"
    <3>1. rt[r] \in Runtime BY <1>0, Unmoved
    <3> DEFINE z == [rt[r] EXCEPT !.st = "exited"]
    <3>2. z.st = "exited" BY <3>1 DEF Runtime
    <3>3. rt' = [rt EXCEPT ![r] = z] BY <1>10 DEF Exit
    <3> HIDE DEF z
    <3>4. QED BY <1>0, <3>2, <3>3, Unmoved
  <2>2. QED BY <2>1 DEF Present
<1>11. ~RecoverFinish /\ (\A e \in Pubs : ~Overdue(e)) /\ \A p \in Procs : ~ReapClear(p)
  BY <1>2 DEF RecoverFinish, Overdue, ReapClear, backend
<1>12. QED BY <1>2, <1>5, <1>6, <1>7, <1>8, <1>9, <1>10, <1>11, RowsAlone, LooksAlone
       DEF Next, Recover, Reap

\* The runtime of a stored container goes only as that container: by the owner
\* that revokes it, under its teardown marker, or in the last step of the sweep.
THEOREM PublishedRuntimesAreSpared == Spec => PublishedRuntimeIsSpared
<1>1. ASSUME Sound, [Next]_vars, NEW c \in Pubs, Stored(c), Present(cont[c].rt),
             ~Present(cont[c].rt)'
      PROVE  Entitled(c)
  <2>1. CASE UNCHANGED vars
    <3>1. UNCHANGED <<cont, rt>> BY <2>1 DEF vars, rows, backend
    <3>2. QED BY <1>1, <3>1 DEF Present
  <2>2. CASE Next
    <3>1. RowStep(c) BY <1>1, <2>2, RowSteps
    <3>2. ~Gone(cont[c].rt) BY <1>1 DEF Present, Gone
    <3>3. cont'[c].rt = cont[c].rt BY <1>1, <3>1, <3>2 DEF RowStep
    <3>4. ~(rt'[cont[c].rt].st \in {"up", "exited"}) BY <1>1, <3>3 DEF Present
    <3>5. QED BY <1>1, <2>2, <3>4, OnlyTheEntitledDestroy
  <2>3. QED BY <1>1, <2>1, <2>2
<1>2. Sound /\ [Next]_vars =>
        [\A c \in Pubs :
           Stored(c) /\ Present(cont[c].rt) /\ ~Present(cont[c].rt)'
           => \/ \E o \in Ops : owner[o].pc = "revoke" /\ owner[o].c = c
              \/ \E p \in Procs : ProcAt(p, "destroy") /\ proc[p].c = c /\ marker[c] = p
              \/ ProcAt("cron", "sweep")]_vars
  BY <1>1 DEF Entitled
<1>3. QED BY <1>2, AlwaysSound, PTL DEF Spec, PublishedRuntimeIsSpared
=============================================================================
