--------------------------- MODULE WorkersProofs ---------------------------
(***************************************************************************)
(* What reads Ready has run and belongs to the open session, and a removed *)
(* generation stays removed, for any workloads, generations, queues and    *)
(* faults.  Everything on its way between store and agent was true when it *)
(* was written; the invariant says that it still is of its own generation: *)
(* a generation that was once wanted is superseded or wanted still         *)
(* (WasWanted), and one that ran has run for ever.  Both only grow, so     *)
(* messages, copies and reports stay good however late they arrive.        *)
(***************************************************************************)
EXTENDS Workers, TLAPS

(***************************************************************************)
(* The invariants.                                                         *)
(***************************************************************************)
Nodes == [admin : {"Enabled", "Draining", "Disabled"}, open : BOOLEAN,
          epoch : Nat, lease : BOOLEAN]
Rows == [desired : {"None", "Present", "Absent", "Deleted"},
         gen : Nat, observed : Observations, epoch : Nat]
Sessions == [epoch : 0 .. MaxEpoch, cmd : [Workloads -> Commands], inv : BOOLEAN]
Operations == [k : {"None", "Present", "Absent"}, g : Nat, e : Nat,
               pc : {"None", "create", "remove", "done", "failed"}]
Statuses == [g : Nat, s : Observations \cup {"None"}]

\* Generation g of w was wanted: the row is past it, or wants it still.
WasWanted(w, g) ==
  /\ g <= row[w].gen
  /\ g = row[w].gen => row[w].desired = "Present"

\* What may be on its way: commands for generations that were wanted, and
\* reports of generations that ran.
GoodItems == {x \in Inventories : \A w \in Workloads : x[w] \subseteq ran[w]}
GoodCmds ==
  {c \in Commands : c.k = "Present" => c.w \in Workloads /\ WasWanted(c.w, c.g)}
GoodReplies ==
  {m \in Replies :
     /\ m.items \in GoodItems
     /\ m.k = "Done" /\ m.c.k = "Present" =>
          m.c.w \in Workloads /\ m.c.g \in ran[m.c.w]}
GoodStats ==
  {x \in [Workloads -> Statuses] : \A w \in Workloads :
     /\ x[w].g # 0 => x[w].s # "None"
     /\ x[w].s = "Ready" => x[w].g \in ran[w]}

Links == [srv : {"None", "Opened", "Up", "Closed"}, link : BOOLEAN,
          out : Seq(GoodCmds), in : Seq(GoodReplies),
          pc : {"read", "list", "record", "clean", "error"}, items : GoodItems,
          stat : GoodStats, clean : [Workloads -> Nat]]
Channels == {c \in Links : Len(c.out) <= QueueCap /\ Len(c.in) <= QueueCap}
Tasks == [pc : {"None", "asked", "taken"}, e : Nat, items : GoodItems]

\* The store and the registry.
Store ==
  /\ node \in Nodes
  /\ row \in [Workloads -> Rows]
  /\ caller \in [Workloads -> {"Idle", "Waiting", "Booked", "Ended"}]
  /\ reg \in Sessions
  /\ kick \in BOOLEAN
  /\ faults \in Nat
  /\ \A w \in Workloads : row[w].desired = "None" => row[w].gen = 0

\* Everything that was read or sent and is not yet used.
Wires ==
  /\ conn \in [Epochs -> Channels]
  /\ due \in [Workloads -> GoodCmds]
  /\ inv \in Tasks

\* The agent and its Docker host.
OpFormed(w) ==
  op[w].k = "Present" =>
    /\ WasWanted(w, op[w].g)
    /\ op[w].pc = "done" => op[w].g \in ran[w]
    /\ op[w].pc = "create" => op[w].g > tomb[w]

Host ==
  /\ op \in [Workloads -> Operations]
  /\ docker \in GoodItems
  /\ ran \in Inventories
  /\ tomb \in [Workloads -> Nat]
  /\ late \in [Workloads -> Nat]
  /\ \A w \in Workloads :
       /\ \A g \in ran[w] : WasWanted(w, g)
       /\ OpFormed(w)
       /\ late[w] # 0 => WasWanted(w, late[w])

\* What the store shows.
Shown ==
  \A w \in Workloads : row[w].observed = "Ready" =>
    /\ row[w].gen \in ran[w]
    /\ node.open /\ row[w].epoch = node.epoch

Inv == Store /\ Wires /\ Host /\ Shown

(***************************************************************************)
(* Constants and sequences.                                                *)
(***************************************************************************)
LEMMA EpochFacts ==
  MaxEpoch \in Nat /\ Epochs \subseteq Nat \ {0} /\ \A e \in 1 .. MaxEpoch : e \in Epochs
BY WorkersAssumption DEF MaxEpoch, Epochs

LEMMA Nothings ==
  /\ NoCmd \in GoodCmds /\ AskInventory \in GoodCmds
  /\ NoItems \in GoodItems /\ NoStatus \in GoodStats
  /\ NoFences \in [Workloads -> Nat]
  /\ NoOp \in Operations /\ NoTask \in Tasks /\ NoSession \in Sessions
<1>1. NoCmd \in GoodCmds /\ AskInventory \in GoodCmds
  BY DEF NoCmd, AskInventory, GoodCmds, Commands
<1>2. NoItems \in GoodItems
  BY DEF NoItems, GoodItems, Inventories
<1>3. NoStatus \in GoodStats
  BY DEF NoStatus, GoodStats, Statuses, Observations
<1>4. NoFences \in [Workloads -> Nat] /\ NoOp \in Operations
  BY DEF NoFences, NoOp, Operations
<1>5. NoTask \in Tasks
  BY <1>2 DEF NoTask, Tasks
<1>6. NoSession \in Sessions
  BY <1>1, EpochFacts DEF NoSession, Sessions, GoodCmds
<1> QED
  BY <1>1, <1>2, <1>3, <1>4, <1>5, <1>6

LEMMA EmptyChannel ==
  /\ NoConn \in Channels
  /\ [NoConn EXCEPT !.srv = "Closed"] \in Channels
<1>1. <<>> \in Seq(GoodCmds) /\ <<>> \in Seq(GoodReplies) /\ Len(<<>>) = 0
  OBVIOUS
<1>2. NoConn \in Links
  BY <1>1, Nothings DEF NoConn, Links
<1>3. NoConn.out = <<>> /\ NoConn.in = <<>> /\ 0 <= QueueCap
  BY WorkersAssumption DEF NoConn
<1>4. NoConn \in Channels
  BY <1>1, <1>2, <1>3 DEF Channels
<1>5. [NoConn EXCEPT !.srv = "Closed"] \in Links
  BY <1>2 DEF Links
<1>6. /\ [NoConn EXCEPT !.srv = "Closed"].out = NoConn.out
      /\ [NoConn EXCEPT !.srv = "Closed"].in = NoConn.in
  BY DEF NoConn
<1>7. [NoConn EXCEPT !.srv = "Closed"] \in Channels
  BY <1>1, <1>3, <1>5, <1>6 DEF Channels
<1> QED
  BY <1>4, <1>7

LEMMA SeqGrows ==
  ASSUME NEW A, NEW B, A \subseteq B, NEW s \in Seq(A)
  PROVE  s \in Seq(B)
OBVIOUS

LEMMA SeqAppends ==
  ASSUME NEW A, NEW s \in Seq(A), NEW a \in A
  PROVE  Append(s, a) \in Seq(A) /\ Len(Append(s, a)) = Len(s) + 1 /\ Len(s) \in Nat
OBVIOUS

LEMMA SeqTakes ==
  ASSUME NEW A, NEW s \in Seq(A), s # <<>>
  PROVE  Head(s) \in A /\ Tail(s) \in Seq(A) /\ Len(Tail(s)) <= Len(s)
OBVIOUS

(***************************************************************************)
(* What is good stays good: generations only rise, a wanted one is only    *)
(* given up for the next, and what ran has run.                            *)
(***************************************************************************)
RowsMove ==
  \A w \in Workloads :
    /\ row'[w].gen >= row[w].gen
    /\ row'[w].gen = row[w].gen /\ row[w].desired = "Present"
         => row'[w].desired = "Present"

Onward == RowsMove /\ \A w \in Workloads : ran[w] \subseteq ran'[w]

LEMMA WantedStays ==
  ASSUME Store, Store', RowsMove, NEW w \in Workloads, NEW g \in Nat, WasWanted(w, g)
  PROVE  WasWanted(w, g)'
<1>1. row[w].gen \in Nat /\ row'[w].gen \in Nat
  BY DEF Store, Rows
<1> QED
  BY <1>1 DEF WasWanted, RowsMove

LEMMA GoodStays ==
  ASSUME Store, Store', Onward
  PROVE  /\ GoodItems \subseteq GoodItems' /\ GoodCmds \subseteq GoodCmds'
         /\ GoodReplies \subseteq GoodReplies' /\ GoodStats \subseteq GoodStats'
         /\ Channels \subseteq Channels' /\ Tasks \subseteq Tasks'
<1>1. GoodItems \subseteq GoodItems'
  BY DEF GoodItems, Onward
<1>2. ASSUME NEW c \in GoodCmds PROVE c \in GoodCmds'
  <2>1. c \in Commands /\ c.g \in Nat
    BY DEF GoodCmds, Commands
  <2>2. c.k = "Present" => c.w \in Workloads /\ WasWanted(c.w, c.g)'
    BY <2>1, WantedStays DEF GoodCmds, Onward
  <2> QED
    BY <2>1, <2>2 DEF GoodCmds
<1>3. GoodReplies \subseteq GoodReplies'
  BY <1>1 DEF GoodReplies, Onward
<1>4. GoodStats \subseteq GoodStats'
  BY DEF GoodStats, Onward
<1>5. ASSUME NEW c \in Channels PROVE c \in Channels'
  <2>1. c \in Links /\ c.out \in Seq(GoodCmds) /\ c.in \in Seq(GoodReplies)
    BY DEF Channels, Links
  <2>2. c.out \in Seq(GoodCmds') /\ c.in \in Seq(GoodReplies')
    BY <2>1, <1>2, <1>3, SeqGrows
  <2>3. c \in Links'
    BY <2>1, <2>2, <1>1, <1>4 DEF Links
  <2> QED
    BY <2>3 DEF Channels
<1>6. Tasks \subseteq Tasks'
  BY <1>1 DEF Tasks
<1> QED
  BY <1>1, <1>2, <1>3, <1>4, <1>5, <1>6

(***************************************************************************)
(* The store and the registry: types, and how rows move.                   *)
(***************************************************************************)
RowsFormed ==
  /\ row \in [Workloads -> Rows]
  /\ \A w \in Workloads : row[w].desired = "None" => row[w].gen = 0

LEMMA RowReplaced ==
  ASSUME RowsFormed, NEW w \in Workloads, NEW r \in Rows,
         r.desired # "None", r.gen >= row[w].gen,
         r.gen = row[w].gen /\ row[w].desired = "Present" => r.desired = "Present",
         row' = [row EXCEPT ![w] = r]
  PROVE  RowsFormed' /\ RowsMove
<1>1. row' \in [Workloads -> Rows] /\ \A v \in Workloads :
        row'[v] = IF v = w THEN r ELSE row[v]
  BY DEF RowsFormed
<1>2. \A v \in Workloads : row[v].gen \in Nat /\ row[v].gen >= row[v].gen
  BY DEF RowsFormed, Rows
<1> QED
  BY <1>1, <1>2 DEF RowsFormed, RowsMove

\* An observation leaves what is wanted alone.
LEMMA RowsObserved ==
  ASSUME RowsFormed, row' \in [Workloads -> Rows],
         \A w \in Workloads : /\ row'[w].desired = row[w].desired
                              /\ row'[w].gen = row[w].gen
  PROVE  RowsFormed' /\ RowsMove
<1>1. \A v \in Workloads : row[v].gen \in Nat /\ row[v].gen >= row[v].gen
  BY DEF RowsFormed, Rows
<1> QED
  BY <1>1 DEF RowsFormed, RowsMove

LEMMA RowsKept ==
  ASSUME RowsFormed, row' = row PROVE RowsFormed' /\ RowsMove
BY RowsObserved DEF RowsFormed

LEMMA NextGenerationRow ==
  ASSUME RowsFormed, NEW w \in Workloads, NEW d \in {"Present", "Absent"}
  PROVE  /\ NextGeneration(w, d) \in Rows
         /\ NextGeneration(w, d).gen > row[w].gen
         /\ NextGeneration(w, d).desired = d
         /\ NextGeneration(w, d).observed = "Unknown"
<1>1. row[w].gen \in Nat
  BY DEF RowsFormed, Rows
<1> QED
  BY <1>1 DEF NextGeneration, Rows, Observations

LEMMA GenerationStep ==
  ASSUME RowsFormed, NEW w \in Workloads, NEW d \in {"Present", "Absent"},
         row' = [row EXCEPT ![w] = NextGeneration(w, d)]
  PROVE  RowsFormed' /\ RowsMove
<1> DEFINE r == NextGeneration(w, d)
<1>1. /\ r \in Rows /\ r.gen > row[w].gen /\ r.desired # "None"
      /\ r.gen \in Nat /\ row[w].gen \in Nat
  BY NextGenerationRow DEF RowsFormed, Rows
<1>2. row' = [row EXCEPT ![w] = r]
  OBVIOUS
<1> HIDE DEF r
<1>3. r.gen >= row[w].gen /\ r.gen # row[w].gen
  BY <1>1
<1> QED
  BY <1>1, <1>2, <1>3, RowReplaced

LEMMA ObserveRows ==
  ASSUME RowsFormed, NEW s \in Observations, NEW S, row' = Observe(s, S)
  PROVE  RowsFormed' /\ RowsMove
<1>1. ASSUME NEW w \in Workloads
      PROVE  /\ row'[w] \in Rows /\ row'[w].desired = row[w].desired
             /\ row'[w].gen = row[w].gen
  <2>1. row[w] \in Rows /\ [row[w] EXCEPT !.observed = s, !.epoch = 0] \in Rows
    BY DEF RowsFormed, Rows
  <2>2. row'[w] = row[w] \/ row'[w] = [row[w] EXCEPT !.observed = s, !.epoch = 0]
    BY DEF Observe
  <2> QED
    BY <2>1, <2>2 DEF Rows
<1>2. row' \in [Workloads -> Rows]
  BY <1>1 DEF Observe
<1> QED
  BY <1>1, <1>2, RowsObserved

LEMMA WorkloadRows ==
  ASSUME Store, NEW w \in Workloads, Workload(w)
  PROVE  RowsFormed' /\ RowsMove
<1>0. RowsFormed
  BY DEF Store, RowsFormed
<1>1. CASE Place(w)
  <2> DEFINE r == [desired |-> "Present", gen |-> 1, observed |-> "Unknown", epoch |-> 0]
  <2>1. r \in Rows /\ r.desired = "Present" /\ r.gen >= row[w].gen
    BY <1>1, <1>0 DEF Place, RowsFormed, Rows, Observations
  <2>2. row' = [row EXCEPT ![w] = r]
    BY <1>1 DEF Place
  <2> HIDE DEF r
  <2> QED
    BY <1>0, <2>1, <2>2, RowReplaced
<1>2. CASE WaitReady(w)
  BY <1>0, <1>2, RowsKept DEF WaitReady
<1>3. CASE WaitFails(w)
  BY <1>0, <1>3, RowsKept, GenerationStep DEF WaitFails
<1>4. CASE Rollout(w)
  BY <1>0, <1>4, GenerationStep DEF Rollout
<1>5. CASE Destroy(w)
  BY <1>0, <1>5, RowsKept, GenerationStep DEF Destroy
<1>6. CASE FenceOrphan(w)
  BY <1>0, <1>6, GenerationStep DEF FenceOrphan
<1>7. CASE DeleteTerminal(w)
  <2> DEFINE r == [row[w] EXCEPT !.desired = "Deleted", !.epoch = 0]
  <2>1. row[w] \in Rows /\ row[w].desired = "Absent" /\ row[w].gen \in Nat
    BY <1>0, <1>7 DEF RowsFormed, Rows, DeleteTerminal
  <2>2. r \in Rows /\ r.desired = "Deleted" /\ r.gen = row[w].gen
    BY <2>1 DEF Rows
  <2>3. row' = [row EXCEPT ![w] = r]
    BY <1>7, <1>0 DEF DeleteTerminal, RowsFormed
  <2> HIDE DEF r
  <2>4. r.gen >= row[w].gen
    BY <2>1, <2>2
  <2> QED
    BY <1>0, <2>1, <2>2, <2>3, <2>4, RowReplaced
<1> QED
  BY <1>1, <1>2, <1>3, <1>4, <1>5, <1>6, <1>7 DEF Workload

LEMMA WorkloadStore ==
  ASSUME Store, NEW w \in Workloads, Workload(w)
  PROVE  Store' /\ RowsMove
<1>1. RowsFormed' /\ RowsMove
  BY WorkloadRows
<1>2. /\ node' = node /\ reg' = reg /\ kick' = kick /\ faults' = faults
      /\ caller' \in [Workloads -> {"Idle", "Waiting", "Booked", "Ended"}]
  BY DEF Store, Workload, Place, WaitReady, WaitFails, Rollout, Destroy, FenceOrphan,
         DeleteTerminal
<1> QED
  BY <1>1, <1>2 DEF Store, RowsFormed

LEMMA CloseStore ==
  ASSUME Store, NEW e \in Epochs, Close(e), faults' = faults
  PROVE  Store' /\ RowsMove
<1>0. RowsFormed
  BY DEF Store, RowsFormed
<1>1. RowsFormed' /\ RowsMove
  BY <1>0, RowsKept, ObserveRows DEF Close, LostRows, Observations
<1>2. node' \in Nodes
  BY DEF Store, Close, Nodes
<1>3. reg' \in Sessions
  BY Nothings DEF Store, Close
<1> QED
  BY <1>1, <1>2, <1>3 DEF Store, RowsFormed, Close

LEMMA SessionStore ==
  ASSUME Store, NEW e \in Epochs, Session(e)
  PROVE  Store' /\ RowsMove
<1>0. RowsFormed
  BY DEF Store, RowsFormed
<1>1. CASE Register(e)
  <2>1. [NoSession EXCEPT !.epoch = e, !.inv = TRUE] \in Sessions
    <3>1. e \in 0 .. MaxEpoch
      BY EpochFacts DEF Epochs
    <3> QED
      BY <3>1, Nothings DEF Sessions
  <2> QED
    BY <1>0, <1>1, <2>1, RowsKept DEF Register, Store
<1>2. CASE EndSession(e)
  BY <1>2, CloseStore DEF EndSession
<1>3. CASE LoseLink(e)
  BY <1>0, <1>3, RowsKept DEF LoseLink, Store, Fault, server
<1>4. CASE Heartbeat(e)
  <2>1. node' \in Nodes
    BY <1>4 DEF Heartbeat, Store, Nodes
  <2> QED
    BY <1>0, <1>4, <2>1, RowsKept DEF Heartbeat, Store
<1> QED
  BY <1>1, <1>2, <1>3, <1>4 DEF Session

LEMMA EnvironmentStore ==
  ASSUME Store,
         \/ OpenSession \/ LeaseRunsOut \/ Disable \/ RestartServer
         \/ \E state \in AdminStates : SetState(state)
  PROVE  Store' /\ RowsMove
<1>0. RowsFormed
  BY DEF Store, RowsFormed
<1>1. CASE OpenSession
  <2>1. RowsFormed' /\ RowsMove
    BY <1>0, <1>1, ObserveRows DEF OpenSession, Observations
  <2>2. node' \in Nodes
    BY <1>1, EpochFacts DEF OpenSession, Store, Nodes
  <2> QED
    BY <1>1, <2>1, <2>2 DEF OpenSession, Store, RowsFormed
<1>2. CASE LeaseRunsOut
  <2>1. node' \in Nodes
    BY <1>2 DEF LeaseRunsOut, Store, Nodes
  <2> QED
    BY <1>0, <1>2, <2>1, RowsKept DEF LeaseRunsOut, Fault, Store
<1>3. CASE Disable
  <2>1. RowsFormed' /\ RowsMove
    BY <1>0, <1>3, ObserveRows DEF Disable, LostRows, Observations
  <2>2. node' \in Nodes
    BY <1>3 DEF Disable, Store, Nodes
  <2> QED
    BY <1>3, <2>1, <2>2 DEF Disable, Fault, Store, RowsFormed
<1>4. CASE RestartServer
  <2>1. caller' \in [Workloads -> {"Idle", "Waiting", "Booked", "Ended"}]
    BY <1>4 DEF RestartServer, Store
  <2> QED
    <3>1. reg' = NoSession /\ kick' = FALSE /\ node' = node /\ row' = row
      BY <1>4 DEF RestartServer
    <3>2. faults' \in Nat
      BY <1>4 DEF RestartServer, Fault, Store
    <3>3. reg' \in Sessions
      BY <3>1, Nothings
    <3> QED
      BY <1>0, <2>1, <3>1, <3>2, <3>3, RowsKept DEF Store
<1>5. ASSUME NEW state \in AdminStates, SetState(state) PROVE Store' /\ RowsMove
  <2>1. node' \in Nodes
    BY <1>5, WorkersAssumption DEF SetState, Store, Nodes
  <2> QED
    BY <1>0, <1>5, <2>1, RowsKept DEF SetState, Store
<1> QED
  BY <1>1, <1>2, <1>3, <1>4, <1>5

LEMMA SlotTaken ==
  ASSUME Store, NEW w, NEW c \in Commands
  PROVE  [reg EXCEPT !.cmd[w] = c] \in Sessions
BY DEF Store, Sessions

LEMMA ReconcilerStore ==
  ASSUME Store, Wires, Reconciler
  PROVE  Store' /\ RowsMove
<1>0. RowsFormed
  BY DEF Store, RowsFormed
<1>1. CASE ExpireSessions
  <2>1. RowsFormed' /\ RowsMove
    BY <1>0, <1>1, ObserveRows DEF ExpireSessions, LostRows, Observations
  <2>2. node' \in Nodes
    <3>1. node \in Nodes /\ node.epoch + 1 \in Nat
      BY DEF Store, Nodes
    <3>2. [node EXCEPT !.open = FALSE, !.epoch = node.epoch + 1] \in Nodes
      BY <3>1 DEF Nodes
    <3> QED
      BY <1>1, <3>2 DEF ExpireSessions
  <2> QED
    BY <1>1, <2>1, <2>2 DEF ExpireSessions, Store, RowsFormed
<1>2. CASE Disconnect
  BY <1>0, <1>2, RowsKept, Nothings DEF Disconnect, Store
<1>3. CASE ListDue
  BY <1>0, <1>3, RowsKept DEF ListDue, Store
<1>4. CASE RequestInventory
  <2>1. reg' \in Sessions
    BY <1>4 DEF RequestInventory, Store, Sessions
  <2> QED
    BY <1>0, <1>4, <2>1, RowsKept DEF RequestInventory, Store
<1>5. ASSUME NEW w \in Workloads, SendDue(w) PROVE Store' /\ RowsMove
  <2>1. due[w] \in Commands
    BY DEF Wires, GoodCmds
  <2>2. reg' \in Sessions
    <3> DEFINE c == due[w]
    <3>1. reg' = reg \/ reg' = [reg EXCEPT !.cmd[c.w] = c]
      BY <1>5 DEF SendDue, SendTo
    <3> HIDE DEF c
    <3>2. c \in Commands
      BY <2>1 DEF c
    <3>3. [reg EXCEPT !.cmd[c.w] = c] \in Sessions
      BY <3>2, SlotTaken
    <3> QED
      BY <3>1, <3>3 DEF Store
  <2> QED
    BY <1>0, <1>5, <2>2, RowsKept DEF SendDue, Store
<1>6. ASSUME NEW w \in Workloads, CommandDeadline(w) PROVE Store' /\ RowsMove
  <2>1. NoCmd \in Commands
    BY Nothings DEF GoodCmds
  <2>2. reg' \in Sessions
    BY <1>6, <2>1, SlotTaken DEF CommandDeadline
  <2> QED
    BY <1>0, <1>6, <2>2, RowsKept DEF CommandDeadline, Store
<1> QED
  BY <1>1, <1>2, <1>3, <1>4, <1>5, <1>6 DEF Reconciler

LEMMA AgentStore ==
  ASSUME Store, Agent
  PROVE  Store' /\ RowsMove
<1>0. RowsFormed
  BY DEF Store, RowsFormed
<1>1. UNCHANGED server /\ (faults' = faults \/ faults' = faults + 1)
  BY DEF Agent, Dispatch, CreateContainers, RemoveContainers, DockerError,
         FinishOperation, LateCreate, TakeInventory, SendInventory, RestartAgent, Fault
<1> QED
  BY <1>0, <1>1, RowsKept DEF Store, server

LEMMA ChannelTypes ==
  ASSUME Wires, NEW e \in Epochs
  PROVE  /\ conn[e] \in Channels /\ conn[e] \in Links
         /\ conn[e].out \in Seq(GoodCmds) /\ conn[e].in \in Seq(GoodReplies)
         /\ Len(conn[e].out) \in Nat /\ Len(conn[e].in) \in Nat
         /\ Len(conn[e].out) <= QueueCap /\ Len(conn[e].in) <= QueueCap
         /\ conn[e].items \in GoodItems /\ conn[e].stat \in GoodStats
         /\ conn[e].clean \in [Workloads -> Nat] /\ conn[e].link \in BOOLEAN
<1>1. conn[e] \in Channels /\ conn[e] \in Links
  BY DEF Wires, Channels
<1>2. conn[e].out \in Seq(GoodCmds) /\ conn[e].in \in Seq(GoodReplies)
  BY <1>1 DEF Links
<1> QED
  BY <1>1, <1>2 DEF Channels, Links

LEMMA RecordedRows ==
  ASSUME RowsFormed, NEW w, NEW e \in Nat, NEW s \in Observations,
         row' = Recorded(e, w, s)
  PROVE  RowsFormed' /\ RowsMove
<1>1. ASSUME NEW v \in Workloads
      PROVE  /\ row'[v] \in Rows /\ row'[v].desired = row[v].desired
             /\ row'[v].gen = row[v].gen
  <2>1. row[v] \in Rows /\ [row[v] EXCEPT !.observed = s, !.epoch = e] \in Rows
    BY DEF RowsFormed, Rows
  <2>2. row'[v] = row[v] \/ row'[v] = [row[v] EXCEPT !.observed = s, !.epoch = e]
    BY DEF Recorded, RowsFormed
  <2> QED
    BY <2>1, <2>2 DEF Rows
<1>2. row' \in [Workloads -> Rows]
  BY <1>1 DEF Recorded, RowsFormed
<1> QED
  BY <1>1, <1>2, RowsObserved

LEMMA SnapshotRows ==
  ASSUME RowsFormed, Wires, NEW e \in Epochs, RecordSnapshot(e)
  PROVE  RowsFormed' /\ RowsMove
<1> DEFINE stat == conn[e].stat
<1>0. /\ stat \in GoodStats /\ e \in Nat
  BY ChannelTypes, EpochFacts
<1>1. ASSUME NEW v \in Workloads
      PROVE  /\ row'[v] \in Rows /\ row'[v].desired = row[v].desired
             /\ row'[v].gen = row[v].gen
  <2>1. CASE row'[v] = row[v]
    BY <2>1 DEF RowsFormed
  <2>2. CASE row'[v] # row[v]
    <3>1. stat[v].g # 0 /\ row'[v] = [row[v] EXCEPT !.observed = stat[v].s, !.epoch = e]
      BY <2>2 DEF RecordSnapshot
    <3>2. stat[v].s \in Observations
      BY <1>0, <3>1 DEF GoodStats, Statuses
    <3>3. row[v] \in Rows
      BY DEF RowsFormed
    <3> HIDE DEF stat
    <3> QED
      BY <1>0, <3>1, <3>2, <3>3 DEF Rows
  <2> QED
    BY <2>1, <2>2
<1>2. row' \in [Workloads -> Rows]
  BY <1>1 DEF RecordSnapshot
<1> QED
  BY <1>1, <1>2, RowsObserved

LEMMA ReadLoopStore ==
  ASSUME Store, Wires, NEW e \in Epochs, ReadLoop(e)
  PROVE  Store' /\ RowsMove
<1>0. RowsFormed /\ e \in Nat /\ NoCmd \in Commands
  BY EpochFacts, Nothings DEF Store, RowsFormed, GoodCmds
<1>1. CASE ReceiveFeedback(e)
  <2>1. /\ UNCHANGED <<node, caller, kick, faults>>
        /\ \/ row' = row
           \/ \E w, s : s \in Observations /\ row' = Recorded(e, w, s)
    <3> DEFINE m == Head(conn[e].in)
               rest == [conn EXCEPT ![e].in = Tail(conn[e].in)]
               ready == IF m.c.k = "Present" THEN "Ready" ELSE "Absent"
    <3>1. /\ UNCHANGED <<node, caller, kick, faults>>
          /\ \/ row' = row
             \/ RecordStatus(e, m.c.w, m.c.g, ready, rest)
             \/ RecordStatus(e, m.c.w, m.c.g, "Failed", rest)
      BY <1>1 DEF ReceiveFeedback
    <3>2. ready \in Observations /\ "Failed" \in Observations
      BY DEF Observations
    <3> HIDE DEF m, rest, ready
    <3> QED
      BY <3>1, <3>2 DEF RecordStatus
  <2>2. RowsFormed' /\ RowsMove
    BY <1>0, <2>1, RowsKept, RecordedRows
  <2>3. reg' = reg \/ \E w : reg' = [reg EXCEPT !.cmd[w] = NoCmd]
    BY <1>1 DEF ReceiveFeedback, FreeSlot
  <2>4. reg' \in Sessions
    <3>1. \A w : [reg EXCEPT !.cmd[w] = NoCmd] \in Sessions
      BY <1>0, SlotTaken
    <3> QED
      BY <2>3, <3>1 DEF Store
  <2> QED
    BY <2>1, <2>2, <2>4 DEF Store, RowsFormed
<1>2. CASE ReceivePage(e)
  BY <1>0, <1>2, RowsKept DEF ReceivePage, Store, server
<1>3. CASE ListAssigned(e)
  BY <1>0, <1>3, RowsKept DEF ListAssigned, Store, server
<1>4. CASE RecordSnapshot(e)
  <2>1. RowsFormed' /\ RowsMove
    BY <1>0, <1>4, SnapshotRows
  <2>2. UNCHANGED <<node, caller, reg, kick, faults>>
    BY <1>4 DEF RecordSnapshot
  <2> QED
    BY <2>1, <2>2 DEF Store, RowsFormed
<1>5. CASE CompleteInventory(e)
  <2>1. reg' \in Sessions
    BY <1>5 DEF CompleteInventory, Store, Sessions
  <2> QED
    BY <1>0, <1>5, <2>1, RowsKept DEF CompleteInventory, Store
<1>6. ASSUME NEW w \in Workloads, SendCleanup(e, w) PROVE Store' /\ RowsMove
  <2> DEFINE c == Cmd("Absent", w, conn[e].clean[w])
  <2>1. c \in Commands
    BY ChannelTypes DEF Cmd, Commands
  <2>2. reg' = reg \/ reg' = [reg EXCEPT !.cmd[w] = c]
    BY <1>6 DEF SendCleanup
  <2>3. UNCHANGED <<node, row, caller, kick, faults>>
    BY <1>6 DEF SendCleanup
  <2> HIDE DEF c
  <2>4. reg' \in Sessions
    BY <2>1, <2>2, SlotTaken DEF Store
  <2> QED
    BY <1>0, <2>3, <2>4, RowsKept DEF Store
<1> QED
  BY <1>1, <1>2, <1>3, <1>4, <1>5, <1>6 DEF ReadLoop

LEMMA StepStore ==
  ASSUME Store, Wires, [Next]_vars
  PROVE  Store' /\ RowsMove
<1>1. CASE UNCHANGED vars
  <2>1. RowsFormed /\ row' = row
    BY <1>1 DEF Store, RowsFormed, vars
  <2> QED
    BY <1>1, <2>1, RowsKept DEF Store, vars
<1> QED
  BY <1>1, WorkloadStore, SessionStore, EnvironmentStore, ReconcilerStore, AgentStore,
     ReadLoopStore DEF Next

(***************************************************************************)
(* What is on its way.                                                     *)
(***************************************************************************)
LEMMA ChannelReplaced ==
  ASSUME Wires, NEW e, NEW r, e \in Epochs => r \in Channels,
         conn' = [conn EXCEPT ![e] = r]
  PROVE  conn' \in [Epochs -> Channels]
BY DEF Wires

LEMMA ChannelFields ==
  ASSUME NEW c \in Channels
  PROVE  /\ \A v \in {"None", "Opened", "Up", "Closed"} : [c EXCEPT !.srv = v] \in Channels
         /\ \A v \in BOOLEAN : [c EXCEPT !.link = v] \in Channels
         /\ \A v \in Seq(GoodCmds) :
              Len(v) <= QueueCap => [c EXCEPT !.out = v] \in Channels
         /\ \A v \in Seq(GoodReplies) :
              Len(v) <= QueueCap => [c EXCEPT !.in = v] \in Channels
         /\ \A v \in {"read", "list", "record", "clean", "error"} :
              [c EXCEPT !.pc = v] \in Channels
         /\ \A v \in GoodItems : [c EXCEPT !.items = v] \in Channels
         /\ \A v \in GoodStats : [c EXCEPT !.stat = v] \in Channels
         /\ \A v \in [Workloads -> Nat] : [c EXCEPT !.clean = v] \in Channels
<1>1. c \in Links /\ Len(c.out) <= QueueCap /\ Len(c.in) <= QueueCap
  BY DEF Channels
<1>2. ASSUME NEW v \in {"None", "Opened", "Up", "Closed"}
      PROVE  [c EXCEPT !.srv = v] \in Channels
  BY <1>1 DEF Channels, Links
<1>3. ASSUME NEW v \in BOOLEAN PROVE [c EXCEPT !.link = v] \in Channels
  BY <1>1 DEF Channels, Links
<1>4. ASSUME NEW v \in Seq(GoodCmds), Len(v) <= QueueCap
      PROVE  [c EXCEPT !.out = v] \in Channels
  BY <1>1, <1>4 DEF Channels, Links
<1>5. ASSUME NEW v \in Seq(GoodReplies), Len(v) <= QueueCap
      PROVE  [c EXCEPT !.in = v] \in Channels
  BY <1>1, <1>5 DEF Channels, Links
<1>6. ASSUME NEW v \in {"read", "list", "record", "clean", "error"}
      PROVE  [c EXCEPT !.pc = v] \in Channels
  BY <1>1 DEF Channels, Links
<1>7. ASSUME NEW v \in GoodItems PROVE [c EXCEPT !.items = v] \in Channels
  BY <1>1 DEF Channels, Links
<1>8. ASSUME NEW v \in GoodStats PROVE [c EXCEPT !.stat = v] \in Channels
  BY <1>1 DEF Channels, Links
<1>9. ASSUME NEW v \in [Workloads -> Nat] PROVE [c EXCEPT !.clean = v] \in Channels
  BY <1>1 DEF Channels, Links
<1> QED
  BY <1>2, <1>3, <1>4, <1>5, <1>6, <1>7, <1>8, <1>9

\* A lost connection loses what was under way on it.
LEMMA ChannelLost ==
  ASSUME NEW c \in Channels
  PROVE  [c EXCEPT !.link = FALSE, !.out = <<>>, !.in = <<>>] \in Channels
<1>1. c \in Links
  BY DEF Channels
<1>2. <<>> \in Seq(GoodCmds) /\ <<>> \in Seq(GoodReplies) /\ Len(<<>>) = 0 /\ 0 <= QueueCap
  BY WorkersAssumption
<1> DEFINE d == [c EXCEPT !.link = FALSE, !.out = <<>>, !.in = <<>>]
<1>3. d \in Links /\ d.out = <<>> /\ d.in = <<>>
  BY <1>1, <1>2 DEF Links
<1> QED
  BY <1>2, <1>3 DEF Channels

\* A step leaves good messages, copies and inventories on their way.
WireStep ==
  /\ conn' \in [Epochs -> Channels]
  /\ due' \in [Workloads -> GoodCmds]
  /\ inv' \in Tasks

LEMMA WiresKept ==
  ASSUME Wires, UNCHANGED <<conn, due, inv>> PROVE WireStep
BY DEF Wires, WireStep

LEMMA OneChannel ==
  ASSUME Wires, NEW e, NEW r, e \in Epochs => r \in Channels,
         conn' = [conn EXCEPT ![e] = r], UNCHANGED <<due, inv>>
  PROVE  WireStep
BY ChannelReplaced DEF Wires, WireStep

LEMMA CloseWires ==
  ASSUME Wires, NEW e \in Epochs, Close(e), inv' = inv
  PROVE  WireStep
BY OneChannel, EmptyChannel DEF Close, Closed

LEMMA SessionWires ==
  ASSUME Wires, NEW e \in Epochs, Session(e)
  PROVE  WireStep
<1> DEFINE c == conn[e]
<1>0. c \in Channels /\ c \in Links /\ Len(c.in) <= QueueCap /\ Len(c.out) <= QueueCap
  BY ChannelTypes
<1>1. CASE Register(e)
  <2> DEFINE q == <<AskInventory>>
  <2>1. q \in Seq(GoodCmds) /\ Len(q) = 1 /\ 1 <= QueueCap
    BY Nothings, WorkersAssumption
  <2> HIDE DEF q
  <2> DEFINE r == [c EXCEPT !.srv = "Up", !.out = q]
  <2>2. r \in Channels
    <3>1. r \in Links /\ r.out = q /\ r.in = c.in
      BY <1>0, <2>1 DEF Links
    <3> QED
      BY <1>0, <2>1, <3>1 DEF Channels
  <2>3. conn' = [conn EXCEPT ![e] = r]
    BY <1>1 DEF Register, Wires, q
  <2> HIDE DEF r
  <2> QED
    BY <1>1, <2>2, <2>3, OneChannel DEF Register, agent
<1>2. CASE EndSession(e)
  BY <1>2, CloseWires DEF EndSession, agent
<1>3. CASE LoseLink(e)
  <2> DEFINE r == [c EXCEPT !.link = FALSE, !.out = <<>>, !.in = <<>>]
  <2>1. r \in Channels
    BY <1>0, ChannelLost
  <2>2. conn' = [conn EXCEPT ![e] = r]
    BY <1>3 DEF LoseLink, Wires
  <2> HIDE DEF r
  <2> QED
    BY <1>3, <2>1, <2>2, OneChannel DEF LoseLink, agent, server
<1>4. CASE Heartbeat(e)
  <2> DEFINE r == [c EXCEPT !.pc = "error"]
  <2>1. r \in Channels
    BY <1>0, ChannelFields
  <2>2. conn' = conn \/ conn' = [conn EXCEPT ![e] = r]
    BY <1>4 DEF Heartbeat, Wires
  <2>3. UNCHANGED <<due, inv>>
    BY <1>4 DEF Heartbeat, agent
  <2> HIDE DEF r
  <2> QED
    BY <2>1, <2>2, <2>3, OneChannel, WiresKept
<1> QED
  BY <1>1, <1>2, <1>3, <1>4 DEF Session

LEMMA EnvironmentWires ==
  ASSUME Wires, Store,
         \/ OpenSession \/ LeaseRunsOut \/ Disable \/ RestartServer
         \/ \E state \in AdminStates : SetState(state)
  PROVE  WireStep
<1>1. CASE OpenSession
  <2> DEFINE e == node.epoch + 1
             r == [conn[e] EXCEPT !.srv = "Opened", !.link = TRUE]
  <2>1. e \in Epochs
    BY <1>1 DEF OpenSession
  <2>2. conn' = [conn EXCEPT ![e] = r]
    BY <1>1, <2>1 DEF OpenSession, Wires
  <2> HIDE DEF e
  <2>3. r \in Channels
    <3>1. /\ conn[e] \in Links /\ Len(conn[e].in) <= QueueCap
          /\ Len(conn[e].out) <= QueueCap
      BY <2>1, ChannelTypes
    <3>2. r \in Links /\ r.out = conn[e].out /\ r.in = conn[e].in
      BY <3>1 DEF Links
    <3> QED
      BY <3>1, <3>2 DEF Channels
  <2> HIDE DEF r
  <2> QED
    BY <1>1, <2>2, <2>3, OneChannel DEF OpenSession, agent
<1>2. CASE LeaseRunsOut
  BY <1>2, WiresKept DEF LeaseRunsOut, agent
<1>3. CASE Disable
  BY <1>3, WiresKept DEF Disable, agent
<1>4. CASE RestartServer
  <2>1. conn' \in [Epochs -> Channels]
    BY <1>4, EmptyChannel DEF RestartServer, Wires
  <2>2. due' \in [Workloads -> GoodCmds]
    BY <1>4, Nothings DEF RestartServer
  <2> QED
    BY <1>4, <2>1, <2>2 DEF RestartServer, agent, Wires, WireStep
<1>5. ASSUME NEW state \in AdminStates, SetState(state) PROVE WireStep
  BY <1>5, WiresKept DEF SetState, agent
<1> QED
  BY <1>1, <1>2, <1>3, <1>4, <1>5

LEMMA WorkloadWires ==
  ASSUME Wires, NEW w \in Workloads, Workload(w)
  PROVE  WireStep
BY WiresKept DEF Workload, Place, WaitReady, WaitFails, Rollout, Destroy, FenceOrphan,
                 DeleteTerminal, agent

\* A command is put on the queue of a connected session that has room.
LEMMA CommandSent ==
  ASSUME Wires, NEW f \in Epochs, NEW c \in GoodCmds, Len(conn[f].out) < QueueCap
  PROVE  [conn[f] EXCEPT !.out = IF conn[f].link THEN Append(conn[f].out, c) ELSE <<>>]
           \in Channels
<1>1. conn[f] \in Channels /\ conn[f].out \in Seq(GoodCmds) /\ QueueCap \in Nat
  BY ChannelTypes, WorkersAssumption
<1> DEFINE q == IF conn[f].link THEN Append(conn[f].out, c) ELSE <<>>
<1>2. q \in Seq(GoodCmds) /\ Len(q) <= QueueCap
  <2>1. CASE conn[f].link
    BY <1>1, <2>1, SeqAppends
  <2>2. CASE ~conn[f].link
    BY <1>1, <2>2
  <2> QED
    BY <2>1, <2>2
<1> HIDE DEF q
<1>3. [conn[f] EXCEPT !.out = q] \in Channels
  BY <1>1, <1>2, ChannelFields
<1> QED
  BY <1>3 DEF q

LEMMA ReconcilerWires ==
  ASSUME Wires, Store, Reconciler
  PROVE  WireStep
<1>1. CASE ExpireSessions
  BY <1>1, WiresKept DEF ExpireSessions, agent
<1>2. CASE Disconnect
  BY <1>2, WiresKept DEF Disconnect, agent
<1>3. CASE ListDue
  <2>1. ASSUME NEW w \in Workloads, Due(w)
        PROVE  Cmd(row[w].desired, w, row[w].gen) \in GoodCmds
    <3>1. row[w].gen \in Nat /\ row[w].desired \in {"Present", "Absent"}
      BY <2>1 DEF Store, Rows, Due
    <3> QED
      BY <3>1 DEF Cmd, GoodCmds, Commands, WasWanted
  <2>2. due' \in [Workloads -> GoodCmds]
    BY <1>3, <2>1, Nothings DEF ListDue
  <2> QED
    BY <1>3, <2>2 DEF ListDue, agent, Wires, WireStep
<1>4. CASE RequestInventory
  <2> DEFINE f == reg.epoch
             r == [conn[f] EXCEPT !.out = IF conn[f].link
                                          THEN Append(conn[f].out, AskInventory) ELSE <<>>]
  <2>1. f \in Epochs /\ Len(conn[f].out) < QueueCap
    BY <1>4, EpochFacts DEF RequestInventory, Store, Sessions
  <2>2. r \in Channels
    BY <2>1, CommandSent, Nothings
  <2>3. conn' = [conn EXCEPT ![f] = r]
    BY <1>4, <2>1 DEF RequestInventory, Wires
  <2> HIDE DEF r, f
  <2> QED
    BY <1>4, <2>2, <2>3, OneChannel DEF RequestInventory, agent
<1>5. ASSUME NEW w \in Workloads, SendDue(w) PROVE WireStep
  <2>1. due[w] \in GoodCmds
    BY DEF Wires
  <2>2. due' \in [Workloads -> GoodCmds] /\ inv' = inv
    BY <1>5, Nothings DEF SendDue, Wires, agent
  <2>3. CASE CanSend(w)
    <3> DEFINE f == reg.epoch
               c == due[w]
               r == [conn[f] EXCEPT !.out = IF conn[f].link
                                            THEN Append(conn[f].out, c) ELSE <<>>]
    <3>1. f \in Epochs /\ Len(conn[f].out) < QueueCap
      BY <2>3, EpochFacts DEF CanSend, Store, Sessions
    <3>2. conn' = [conn EXCEPT ![f] = r]
      BY <1>5, <2>3, <3>1 DEF SendDue, SendTo, Wires
    <3>3. r \in Channels
      BY <2>1, <3>1, CommandSent
    <3> HIDE DEF r, f, c
    <3>4. conn' \in [Epochs -> Channels]
      BY <3>2, <3>3, ChannelReplaced
    <3> QED
      BY <2>2, <3>4 DEF Wires, WireStep
  <2>4. CASE ~CanSend(w)
    BY <1>5, <2>2, <2>4 DEF SendDue, Wires, WireStep
  <2> QED
    BY <2>3, <2>4
<1>6. ASSUME NEW w \in Workloads, CommandDeadline(w) PROVE WireStep
  BY <1>6, WiresKept DEF CommandDeadline, agent
<1> QED
  BY <1>1, <1>2, <1>3, <1>4, <1>5, <1>6 DEF Reconciler

\* A reply to a session that has room for it.
LEMMA ReplySent ==
  ASSUME Wires, NEW e, NEW m \in GoodReplies, Answerable(e)
  PROVE  e \in Epochs =>
           [conn[e] EXCEPT !.in = IF conn[e].link THEN Append(conn[e].in, m) ELSE conn[e].in]
             \in Channels
<1> SUFFICES ASSUME e \in Epochs
             PROVE [conn[e] EXCEPT !.in = IF conn[e].link THEN Append(conn[e].in, m)
                                          ELSE conn[e].in] \in Channels
  OBVIOUS
<1>1. /\ conn[e] \in Channels /\ conn[e].in \in Seq(GoodReplies) /\ QueueCap \in Nat
      /\ Len(conn[e].in) <= QueueCap
  BY ChannelTypes, WorkersAssumption
<1> DEFINE q == IF conn[e].link THEN Append(conn[e].in, m) ELSE conn[e].in
<1>2. q \in Seq(GoodReplies) /\ Len(q) <= QueueCap
  <2>1. CASE conn[e].link
    BY <1>1, <2>1, SeqAppends DEF Answerable
  <2>2. CASE ~conn[e].link
    BY <1>1, <2>2
  <2> QED
    BY <2>1, <2>2
<1> HIDE DEF q
<1>3. [conn[e] EXCEPT !.in = q] \in Channels
  BY <1>1, <1>2, ChannelFields
<1> QED
  BY <1>3 DEF q

LEMMA Answered ==
  ASSUME Wires, NEW e, NEW m \in GoodReplies, Answerable(e), Answer(e, m),
         due' = due, inv' \in Tasks
  PROVE  WireStep
<1> DEFINE r == [conn[e] EXCEPT !.in = IF conn[e].link THEN Append(conn[e].in, m)
                                       ELSE conn[e].in]
<1>1. e \in Epochs => r \in Channels
  BY ReplySent
<1>2. conn' = [conn EXCEPT ![e] = r]
  BY DEF Answer, Wires
<1> HIDE DEF r
<1> QED
  BY <1>1, <1>2, ChannelReplaced DEF Wires, WireStep

\* What Dispatch takes from the queue.
LEMMA Popped ==
  ASSUME Wires, NEW e \in Epochs, conn[e].out # <<>>
  PROVE  /\ Head(conn[e].out) \in GoodCmds
         /\ [conn[e] EXCEPT !.out = Tail(conn[e].out)] \in Channels
<1>1. /\ conn[e] \in Channels /\ conn[e].out \in Seq(GoodCmds) /\ Len(conn[e].out) \in Nat
      /\ Len(conn[e].out) <= QueueCap /\ QueueCap \in Nat
  BY ChannelTypes, WorkersAssumption
<1>2. /\ Head(conn[e].out) \in GoodCmds /\ Tail(conn[e].out) \in Seq(GoodCmds)
      /\ Len(Tail(conn[e].out)) <= Len(conn[e].out) /\ Len(Tail(conn[e].out)) \in Nat
  BY <1>1, SeqTakes
<1> DEFINE q == Tail(conn[e].out)
<1>3. q \in Seq(GoodCmds) /\ Len(q) <= QueueCap
  BY <1>1, <1>2
<1> HIDE DEF q
<1>4. [conn[e] EXCEPT !.out = q] \in Channels
  BY <1>1, <1>3, ChannelFields
<1> QED
  BY <1>2, <1>4 DEF q

LEMMA DispatchWires ==
  ASSUME Wires, NEW e \in Epochs, Dispatch(e)
  PROVE  WireStep
<1> DEFINE c == Head(conn[e].out)
           p == [conn[e] EXCEPT !.out = Tail(conn[e].out)]
           m == Reply("Busy", c, NoItems)
           b == [p EXCEPT !.in = Append(conn[e].in, m)]
<1>1. conn[e].out # <<>> /\ due' = due
  BY DEF Dispatch, server
<1>2. c \in GoodCmds /\ p \in Channels
  BY <1>1, Popped
<1>3. CASE conn' = [conn EXCEPT ![e] = p]
  <2>1. inv' = inv \/ inv' = [pc |-> "asked", e |-> e, items |-> NoItems]
    BY DEF Dispatch
  <2>2. inv' \in Tasks
    BY <2>1, Nothings, EpochFacts DEF Tasks, Wires
  <2> HIDE DEF p
  <2> QED
    BY <1>1, <1>2, <1>3, <2>2, ChannelReplaced DEF Wires, WireStep
<1>4. CASE conn' = [conn EXCEPT ![e] = b] /\ inv' = inv /\ Len(conn[e].in) < QueueCap
  <2>1. m \in GoodReplies
    BY <1>2, Nothings DEF Reply, GoodReplies, Replies, GoodCmds, GoodItems
  <2>2. /\ Append(conn[e].in, m) \in Seq(GoodReplies)
        /\ Len(Append(conn[e].in, m)) <= QueueCap
    BY <1>4, <2>1, ChannelTypes, SeqAppends, WorkersAssumption
  <2>3. b \in Channels
    <3> HIDE DEF p, m
    <3> QED
      BY <1>2, <2>2, ChannelFields
  <2> HIDE DEF b
  <2> QED
    BY <1>1, <1>4, <2>3, OneChannel
<1>5. \/ conn' = [conn EXCEPT ![e] = p]
      \/ conn' = [conn EXCEPT ![e] = b] /\ inv' = inv /\ Len(conn[e].in) < QueueCap
  <2> DEFINE popped == [conn EXCEPT ![e].out = Tail(conn[e].out)]
  <2>1. popped = [conn EXCEPT ![e] = p]
    BY DEF Wires
  <2>2. [popped EXCEPT ![e].in = Append(conn[e].in, m)] = [conn EXCEPT ![e] = b]
    BY DEF Wires
  <2>3. \/ conn' = popped
        \/ /\ conn' = [popped EXCEPT ![e].in = Append(conn[e].in, m)]
           /\ inv' = inv /\ Len(conn[e].in) < QueueCap
    BY DEF Dispatch
  <2> QED
    BY <2>1, <2>2, <2>3
<1> QED
  BY <1>3, <1>4, <1>5

LEMMA AgentWires ==
  ASSUME Wires, Host, Agent
  PROVE  WireStep
<1>1. ASSUME NEW e \in Epochs, Dispatch(e) PROVE WireStep
  BY <1>1, DispatchWires
<1>2. ASSUME NEW w \in Workloads,
             \/ CreateContainers(w) \/ RemoveContainers(w) \/ DockerError(w) \/ LateCreate(w)
      PROVE  WireStep
  BY <1>2, WiresKept DEF CreateContainers, RemoveContainers, DockerError, LateCreate, server
<1>3. ASSUME NEW w \in Workloads, FinishOperation(w) PROVE WireStep
  <2> DEFINE c == Cmd(op[w].k, w, op[w].g)
             m == Reply(IF op[w].pc = "done" THEN "Done" ELSE "Failed", c, NoItems)
  <2>1. op[w] \in Operations /\ OpFormed(w)
    BY DEF Host
  <2>2. c \in Commands /\ c.k = op[w].k /\ c.w = w /\ c.g = op[w].g
    BY <2>1 DEF Cmd, Commands, Operations
  <2>3. /\ m.k = (IF op[w].pc = "done" THEN "Done" ELSE "Failed")
        /\ m.c = c /\ m.items = NoItems
        /\ m \in Replies
    BY <2>2, Nothings DEF Reply, Replies, GoodItems
  <2>4. m \in GoodReplies
    <3> HIDE DEF m, c
    <3> QED
      BY <2>1, <2>2, <2>3, Nothings DEF GoodReplies, OpFormed
  <2>5. Answerable(op[w].e) /\ Answer(op[w].e, m) /\ due' = due /\ inv' = inv
    BY <1>3 DEF FinishOperation, server
  <2> HIDE DEF m
  <2> QED
    BY <2>4, <2>5, Answered DEF Wires
<1>4. CASE TakeInventory
  <2>1. inv' \in Tasks
    BY <1>4 DEF TakeInventory, Wires, Host, Tasks
  <2> QED
    BY <1>4, <2>1 DEF TakeInventory, Wires, WireStep, server
<1>5. CASE SendInventory
  <2> DEFINE m == Reply("Page", NoCmd, inv.items)
  <2>1. m \in GoodReplies
    BY Nothings DEF Reply, GoodReplies, Replies, Wires, Tasks, GoodItems, GoodCmds
  <2>2. Answerable(inv.e) /\ Answer(inv.e, m) /\ due' = due /\ inv' \in Tasks
    BY <1>5, Nothings DEF SendInventory, server
  <2> HIDE DEF m
  <2> QED
    BY <2>1, <2>2, Answered
<1>6. CASE RestartAgent
  <2>1. conn' \in [Epochs -> Channels]
    BY <1>6, ChannelLost DEF RestartAgent, Wires
  <2> QED
    BY <1>6, <2>1, Nothings DEF RestartAgent, Wires, WireStep, server
<1> QED
  BY <1>1, <1>2, <1>3, <1>4, <1>5, <1>6 DEF Agent

\* What the read loop takes from the queue.
LEMMA Received ==
  ASSUME Wires, NEW e \in Epochs, conn[e].in # <<>>
  PROVE  /\ Head(conn[e].in) \in GoodReplies
         /\ [conn[e] EXCEPT !.in = Tail(conn[e].in)] \in Channels
<1>1. /\ conn[e] \in Channels /\ conn[e].in \in Seq(GoodReplies) /\ Len(conn[e].in) \in Nat
      /\ Len(conn[e].in) <= QueueCap /\ QueueCap \in Nat
  BY ChannelTypes, WorkersAssumption
<1>2. /\ Head(conn[e].in) \in GoodReplies /\ Tail(conn[e].in) \in Seq(GoodReplies)
      /\ Len(Tail(conn[e].in)) <= Len(conn[e].in) /\ Len(Tail(conn[e].in)) \in Nat
  BY <1>1, SeqTakes
<1> DEFINE q == Tail(conn[e].in)
<1>3. q \in Seq(GoodReplies) /\ Len(q) <= QueueCap
  BY <1>1, <1>2
<1> HIDE DEF q
<1>4. [conn[e] EXCEPT !.in = q] \in Channels
  BY <1>1, <1>3, ChannelFields
<1> QED
  BY <1>2, <1>4 DEF q

LEMMA FeedbackWires ==
  ASSUME Wires, NEW e \in Epochs, ReceiveFeedback(e)
  PROVE  WireStep
<1> DEFINE p == [conn[e] EXCEPT !.in = Tail(conn[e].in)]
           rest == [conn EXCEPT ![e].in = Tail(conn[e].in)]
           b == [p EXCEPT !.pc = "error"]
<1>1. conn[e].in # <<>> /\ UNCHANGED <<due, inv>>
  BY DEF ReceiveFeedback, agent
<1>2. p \in Channels
  BY <1>1, Received
<1>3. b \in Channels
  <2> HIDE DEF p
  <2> QED
    BY <1>2, ChannelFields
<1>4. rest = [conn EXCEPT ![e] = p] /\ [rest EXCEPT ![e].pc = "error"] = [conn EXCEPT ![e] = b]
  BY DEF Wires
<1>5. conn' = rest \/ conn' = [rest EXCEPT ![e].pc = "error"]
  BY DEF ReceiveFeedback, RecordStatus
<1> HIDE DEF p, b, rest
<1> QED
  BY <1>1, <1>2, <1>3, <1>4, <1>5, OneChannel

LEMMA PageWires ==
  ASSUME Wires, NEW e \in Epochs, ReceivePage(e)
  PROVE  WireStep
<1> DEFINE p == [conn[e] EXCEPT !.in = Tail(conn[e].in)]
           rest == [conn EXCEPT ![e].in = Tail(conn[e].in)]
           items == Head(conn[e].in).items
           l == [p EXCEPT !.pc = "list"]
           r == [l EXCEPT !.items = items]
           b == [p EXCEPT !.pc = "error"]
<1>1. conn[e].in # <<>> /\ UNCHANGED <<due, inv>>
  BY DEF ReceivePage, agent, server
<1>2. p \in Channels /\ items \in GoodItems
  BY <1>1, Received DEF GoodReplies
<1>3. b \in Channels /\ l \in Channels
  <2> HIDE DEF p
  <2> QED
    BY <1>2, ChannelFields
<1>4. r \in Channels
  <2> HIDE DEF l, items
  <2> QED
    BY <1>2, <1>3, ChannelFields
<1>5. /\ [rest EXCEPT ![e].pc = "error"] = [conn EXCEPT ![e] = b]
      /\ [rest EXCEPT ![e].pc = "list", ![e].items = items] = [conn EXCEPT ![e] = r]
  <2>1. [rest EXCEPT ![e].pc = "error"] = [conn EXCEPT ![e] = b]
    BY DEF Wires
  <2>2. rest = [conn EXCEPT ![e] = p] /\ rest[e] = p
    BY DEF Wires
  <2>3. [rest EXCEPT ![e].pc = "list", ![e].items = items] = [rest EXCEPT ![e] = r]
    <3> HIDE DEF rest, p
    <3> QED
      BY <2>2
  <2> HIDE DEF p, r, b, items
  <2>4. [rest EXCEPT ![e] = r] = [conn EXCEPT ![e] = r]
    BY DEF Wires
  <2> QED
    BY <2>1, <2>3, <2>4
<1>6. \/ conn' = [rest EXCEPT ![e].pc = "error"]
      \/ conn' = [rest EXCEPT ![e].pc = "list", ![e].items = items]
  BY DEF ReceivePage
<1>7. conn' = [conn EXCEPT ![e] = b] \/ conn' = [conn EXCEPT ![e] = r]
  <2> HIDE DEF p, b, l, r, rest, items
  <2> QED
    BY <1>5, <1>6
<1> HIDE DEF p, b, l, r, rest, items
<1> QED
  BY <1>1, <1>3, <1>4, <1>7, OneChannel

LEMMA ListWires ==
  ASSUME Wires, Store, NEW e \in Epochs, ListAssigned(e)
  PROVE  WireStep
<1> DEFINE items == conn[e].items
           exact(w) == w \in Assigned(e) /\ items[w] = {row[w].gen}
           stat == [w \in Workloads |->
                      IF w \in Assigned(e)
                      THEN [g |-> row[w].gen, s |-> IF exact(w) THEN "Ready" ELSE "Absent"]
                      ELSE [g |-> 0, s |-> "None"]]
           clean == [w \in Workloads |->
                      IF items[w] = {} \/ exact(w) THEN 0 ELSE CHOOSE g \in items[w] : TRUE]
           r == [conn[e] EXCEPT !.pc = "record", !.items = NoItems, !.stat = stat,
                                !.clean = clean]
<1>1. conn' = [conn EXCEPT ![e] = r] /\ UNCHANGED <<due, inv>>
  BY DEF ListAssigned, Wires, agent, server
<1>2. items \in GoodItems /\ \A w \in Workloads : items[w] \subseteq Nat /\ items[w] \subseteq ran[w]
  BY ChannelTypes DEF GoodItems, Inventories
<1>3. stat \in GoodStats
  <2>1. ASSUME NEW w \in Workloads
        PROVE  /\ stat[w] \in Statuses
               /\ stat[w].g # 0 => stat[w].s # "None"
               /\ stat[w].s = "Ready" => stat[w].g \in ran[w]
    <3>1. CASE w \in Assigned(e)
      <4>1. row[w].gen \in Nat
        BY DEF Store, Rows
      <4>2. stat[w].g = row[w].gen /\ stat[w].s = IF exact(w) THEN "Ready" ELSE "Absent"
        BY <3>1
      <4>3. stat[w] \in Statuses
        BY <3>1, <4>1 DEF Statuses, Observations
      <4>4. exact(w) => row[w].gen \in ran[w]
        BY <1>2
      <4> HIDE DEF stat, exact
      <4> QED
        BY <4>2, <4>3, <4>4
    <3>2. CASE w \notin Assigned(e)
      BY <3>2 DEF Statuses, Observations
    <3> QED
      BY <3>1, <3>2
  <2>2. stat \in [Workloads -> Statuses]
    BY <2>1
  <2> HIDE DEF stat
  <2> QED
    BY <2>1, <2>2 DEF GoodStats
<1>4. clean \in [Workloads -> Nat]
  <2>1. ASSUME NEW w \in Workloads PROVE clean[w] \in Nat
    <3>1. CASE items[w] = {} \/ exact(w)
      BY <3>1
    <3>2. CASE ~(items[w] = {} \/ exact(w))
      <4>1. clean[w] \in items[w]
        BY <3>2
      <4> QED
        BY <4>1, <1>2
    <3> QED
      BY <3>1, <3>2
  <2> QED
    BY <2>1
<1>5. r \in Channels
  <2> HIDE DEF stat, clean
  <2>1. /\ conn[e] \in Links /\ Len(conn[e].in) <= QueueCap /\ Len(conn[e].out) <= QueueCap
    BY ChannelTypes
  <2>2. r \in Links /\ r.out = conn[e].out /\ r.in = conn[e].in
    BY <2>1, <1>3, <1>4, Nothings DEF Links
  <2> QED
    BY <2>1, <2>2 DEF Channels
<1> HIDE DEF r
<1> QED
  BY <1>1, <1>5, OneChannel

LEMMA SnapshotWires ==
  ASSUME Wires, NEW e \in Epochs, RecordSnapshot(e)
  PROVE  WireStep
<1> DEFINE p == [conn[e] EXCEPT !.stat = NoStatus]
           r == [p EXCEPT !.pc = "error"]
           s == [p EXCEPT !.pc = "clean"]
<1>1. conn' = [conn EXCEPT ![e] = r] \/ conn' = [conn EXCEPT ![e] = s]
  BY DEF RecordSnapshot, Wires
<1>2. p \in Channels /\ UNCHANGED <<due, inv>>
  BY ChannelTypes, ChannelFields, Nothings DEF RecordSnapshot, agent
<1>3. r \in Channels /\ s \in Channels
  <2> HIDE DEF p
  <2> QED
    BY <1>2, ChannelFields
<1> HIDE DEF r, s
<1> QED
  BY <1>1, <1>2, <1>3, OneChannel

LEMMA CleanupWires ==
  ASSUME Wires, Store, NEW e \in Epochs, NEW w \in Workloads, SendCleanup(e, w)
  PROVE  WireStep
<1> DEFINE c == Cmd("Absent", w, conn[e].clean[w])
<1>1. UNCHANGED <<due, inv>>
  BY DEF SendCleanup, agent
<1>2. c \in GoodCmds
  BY ChannelTypes DEF Cmd, GoodCmds, Commands
<1>3. CASE /\ CanSend(w)
           /\ conn' = [f \in Epochs |->
                [conn[f] EXCEPT
                   !.out = IF f # reg.epoch THEN conn[f].out
                           ELSE IF conn[f].link THEN Append(conn[f].out, c) ELSE <<>>,
                   !.clean = IF f # e THEN conn[f].clean
                             ELSE [conn[e].clean EXCEPT ![w] = 0]]]
  <2> HIDE DEF c
  <2>1. ASSUME NEW f \in Epochs PROVE conn'[f] \in Channels
    <3> DEFINE q == IF f # reg.epoch THEN conn[f].out
                    ELSE IF conn[f].link THEN Append(conn[f].out, c) ELSE <<>>
               k == IF f # e THEN conn[f].clean ELSE [conn[e].clean EXCEPT ![w] = 0]
               p == [conn[f] EXCEPT !.out = q]
               r == [p EXCEPT !.clean = k]
    <3>1. conn'[f] = r
      BY <1>3
    <3>2. p \in Channels
      <4>1. CASE f = reg.epoch
        <5>1. q = IF conn[f].link THEN Append(conn[f].out, c) ELSE <<>>
          BY <4>1
        <5>2. Len(conn[f].out) < QueueCap
          BY <1>3, <4>1 DEF CanSend
        <5> QED
          BY <1>2, <5>1, <5>2, CommandSent
      <4>2. CASE f # reg.epoch
        <5>1. q = conn[f].out
          BY <4>2
        <5> HIDE DEF q
        <5> QED
          BY <5>1, ChannelTypes, ChannelFields
      <4> QED
        BY <4>1, <4>2
    <3>3. k \in [Workloads -> Nat]
      BY ChannelTypes
    <3> HIDE DEF p, k
    <3> QED
      BY <3>1, <3>2, <3>3, ChannelFields
  <2>2. conn' \in [Epochs -> Channels]
    BY <1>3, <2>1
  <2> QED
    BY <1>1, <2>2 DEF Wires, WireStep
<1>4. CASE conn' = [conn EXCEPT ![e].clean = NoFences]
  <2> DEFINE r == [conn[e] EXCEPT !.clean = NoFences]
  <2>1. r \in Channels
    BY ChannelTypes, ChannelFields, Nothings
  <2>2. conn' = [conn EXCEPT ![e] = r]
    BY <1>4 DEF Wires
  <2> HIDE DEF r
  <2> QED
    BY <1>1, <2>1, <2>2, OneChannel
<1>5. CASE conn' = [conn EXCEPT ![e].pc = "error"]
  <2> DEFINE r == [conn[e] EXCEPT !.pc = "error"]
  <2>1. r \in Channels
    BY ChannelTypes, ChannelFields
  <2>2. conn' = [conn EXCEPT ![e] = r]
    BY <1>5 DEF Wires
  <2> HIDE DEF r
  <2> QED
    BY <1>1, <2>1, <2>2, OneChannel
<1> QED
  BY <1>3, <1>4, <1>5 DEF SendCleanup

LEMMA ReadLoopWires ==
  ASSUME Wires, Store, NEW e \in Epochs, ReadLoop(e)
  PROVE  WireStep
<1>1. CASE CompleteInventory(e)
  <2> DEFINE r == [conn[e] EXCEPT !.pc = "read"]
             b == [conn[e] EXCEPT !.pc = "error"]
  <2>1. r \in Channels /\ b \in Channels
    BY ChannelTypes, ChannelFields
  <2>2. conn' = [conn EXCEPT ![e] = r] \/ conn' = [conn EXCEPT ![e] = b]
    BY <1>1 DEF CompleteInventory, Wires
  <2>3. UNCHANGED <<due, inv>>
    BY <1>1 DEF CompleteInventory, agent
  <2> HIDE DEF r, b
  <2> QED
    BY <2>1, <2>2, <2>3, OneChannel
<1> QED
  BY <1>1, FeedbackWires, PageWires, ListWires, SnapshotWires, CleanupWires DEF ReadLoop

LEMMA StepWires ==
  ASSUME Store, Wires, Host, [Next]_vars
  PROVE  WireStep
<1>1. CASE UNCHANGED vars
  BY <1>1, WiresKept DEF vars
<1>2. CASE Next
  BY <1>2, WorkloadWires, SessionWires, EnvironmentWires, ReconcilerWires, AgentWires,
     ReadLoopWires, SMTT(40) DEF Next
<1> QED
  BY <1>1, <1>2

(***************************************************************************)
(* The agent: what it runs was wanted, and its containers are counted.     *)
(***************************************************************************)

\* A step of the server leaves the agent alone.
LEMMA ServerLeavesAgent ==
  ASSUME [Next]_vars, ~Agent PROVE UNCHANGED agent
<1>1. ASSUME NEW w \in Workloads, Workload(w) PROVE UNCHANGED agent
  BY <1>1 DEF Workload, Place, WaitReady, WaitFails, Rollout, Destroy, FenceOrphan,
              DeleteTerminal, agent
<1>2. ASSUME NEW e \in Epochs, Session(e) PROVE UNCHANGED agent
  BY <1>2 DEF Session, Register, EndSession, LoseLink, Heartbeat, agent
<1>3. ASSUME NEW e \in Epochs, ReadLoop(e) PROVE UNCHANGED agent
  <2>1. CASE ReceiveFeedback(e) \/ ReceivePage(e) \/ ListAssigned(e)
    BY <2>1 DEF ReceiveFeedback, ReceivePage, ListAssigned, agent
  <2>2. CASE \/ RecordSnapshot(e) \/ CompleteInventory(e)
             \/ \E w \in Workloads : SendCleanup(e, w)
    BY <2>2 DEF RecordSnapshot, CompleteInventory, SendCleanup, agent
  <2> QED
    BY <1>3, <2>1, <2>2 DEF ReadLoop
<1>4. CASE Reconciler
  BY <1>4 DEF Reconciler, ExpireSessions, Disconnect, ListDue, RequestInventory, SendDue,
              CommandDeadline, agent
<1>5. CASE \/ OpenSession \/ LeaseRunsOut \/ Disable \/ RestartServer
           \/ \E state \in AdminStates : SetState(state)
  <2>1. CASE OpenSession
    BY <2>1 DEF OpenSession, agent
  <2>2. CASE LeaseRunsOut \/ Disable \/ RestartServer
    BY <2>2 DEF LeaseRunsOut, Disable, RestartServer, agent
  <2>3. CASE \E state \in AdminStates : SetState(state)
    BY <2>3 DEF SetState, agent
  <2> QED
    BY <1>5, <2>1, <2>2, <2>3
<1>6. CASE UNCHANGED vars
  BY <1>6 DEF vars, agent
<1> QED
  BY <1>1, <1>2, <1>3, <1>4, <1>5, <1>6 DEF Next

\* The types of the agent's state, and what ran before has run.
AgentTypes ==
  /\ op \in [Workloads -> Operations]
  /\ docker \in Inventories /\ ran \in Inventories
  /\ tomb \in [Workloads -> Nat]
  /\ late \in [Workloads -> Nat]

\* One workload: what it may run, what is counted.
HostOf(w) ==
  /\ docker[w] \subseteq ran[w]
  /\ \A g \in ran[w] : WasWanted(w, g)
  /\ OpFormed(w)
  /\ late[w] # 0 => WasWanted(w, late[w])

LEMMA HostIs == Host <=> AgentTypes /\ \A w \in Workloads : HostOf(w)
BY DEF Host, AgentTypes, HostOf, GoodItems

\* A workload that a step of the agent does not touch, or whose operation ends.
LEMMA HostStays ==
  ASSUME Store, Store', RowsMove, AgentTypes, NEW w \in Workloads, HostOf(w),
         op'[w] \in {op[w], NoOp}, docker'[w] \subseteq docker[w],
         ran'[w] = ran[w], tomb'[w] = tomb[w], late'[w] = late[w]
  PROVE  HostOf(w)'
<1>1. \A g \in Nat : WasWanted(w, g) => WasWanted(w, g)'
  BY WantedStays
<1>2. /\ ran[w] \subseteq Nat /\ late[w] \in Nat /\ op[w].g \in Nat
  BY DEF AgentTypes, Inventories, Operations
<1>3. OpFormed(w)'
  <2>1. CASE op'[w] = op[w]
    BY <1>1, <1>2, <2>1 DEF HostOf, OpFormed
  <2>2. CASE op'[w] = NoOp
    BY <2>2 DEF OpFormed, NoOp
  <2> QED
    BY <2>1, <2>2
<1> QED
  BY <1>1, <1>2, <1>3 DEF HostOf

LEMMA OthersStay ==
  ASSUME Store, Store', RowsMove, AgentTypes, NEW w, NEW v \in Workloads, v # w, HostOf(v),
         op'[v] = op[v], docker'[v] = docker[v], ran'[v] = ran[v], tomb'[v] = tomb[v],
         late'[v] = late[v]
  PROVE  HostOf(v)'
BY HostStays

\* The operation that Dispatch starts.
LEMMA RunningIs ==
  ASSUME NEW k \in {"Present", "Absent"}, NEW g \in Nat, NEW e \in Nat,
         NEW pc \in {"create", "remove", "done", "failed"}
  PROVE  /\ Running(k, g, e, pc) \in Operations
         /\ Running(k, g, e, pc).k = k /\ Running(k, g, e, pc).g = g
         /\ Running(k, g, e, pc).pc = pc
BY DEF Running, Operations

LEMMA DispatchHost ==
  ASSUME Store, Store', RowsMove, Wires, Host, NEW e \in Epochs, Dispatch(e)
  PROVE  AgentTypes' /\ \A v \in Workloads : HostOf(v)'
<1> DEFINE c == Head(conn[e].out)
<1>0. AgentTypes /\ \A v \in Workloads : HostOf(v)
  BY HostIs
<1>1. /\ UNCHANGED <<row, ran, late>> /\ e \in Nat
      /\ \/ UNCHANGED <<op, docker, tomb>>
         \/ c.k = "Present" /\ EnsurePresent(e, c.w, c.g)
         \/ c.k = "Absent" /\ EnsureAbsent(e, c.w, c.g)
  BY EpochFacts DEF Dispatch, server
<1>2. c \in GoodCmds /\ c.g \in Nat
  BY Popped DEF Dispatch, GoodCmds, Commands
<1> HIDE DEF c
<1>3. CASE UNCHANGED <<op, docker, tomb>>
  <2>1. AgentTypes'
    BY <1>0, <1>1, <1>3 DEF AgentTypes
  <2> QED
    BY <1>0, <1>1, <1>3, <2>1, HostStays
<1>4. CASE c.k = "Present" /\ EnsurePresent(e, c.w, c.g)
  <2>0. PICK w : w = c.w
    OBVIOUS
  <2>1. w \in Workloads /\ WasWanted(w, c.g)
    BY <1>2, <1>4, <2>0 DEF GoodCmds
  <2>2. PICK pc \in {"create", "failed"} :
          /\ op' = [op EXCEPT ![w] = Running("Present", c.g, e, pc)]
          /\ pc = "create" => ~(c.g <= tomb[w])
    BY <1>4, <2>0 DEF EnsurePresent
  <2>3. tomb' = tomb /\ (docker' = docker \/ docker' = [docker EXCEPT ![w] = {}])
    BY <1>4, <2>0 DEF EnsurePresent
  <2> DEFINE r == Running("Present", c.g, e, pc)
  <2>4. r \in Operations /\ r.k = "Present" /\ r.g = c.g /\ r.pc = pc
    BY <1>1, <1>2, RunningIs
  <2>5. op' = [op EXCEPT ![w] = r]
    BY <2>2
  <2> HIDE DEF r
  <2>6. AgentTypes'
    BY <1>0, <1>1, <2>1, <2>3, <2>4, <2>5 DEF AgentTypes, Inventories
  <2>7. HostOf(w)'
    <3>1. op'[w] = r
      BY <1>0, <2>1, <2>5 DEF AgentTypes
    <3>2. pc = "create" => c.g > tomb[w]
      BY <1>0, <1>2, <2>1, <2>2 DEF AgentTypes
    <3>3. OpFormed(w)'
      BY <1>1, <2>1, <2>2, <2>3, <2>4, <3>1, <3>2 DEF OpFormed, WasWanted
    <3>4. docker'[w] \subseteq docker[w]
      BY <1>0, <2>1, <2>3 DEF AgentTypes, Inventories
    <3> QED
      BY <1>0, <1>1, <2>1, <3>3, <3>4 DEF HostOf, WasWanted
  <2>8. ASSUME NEW v \in Workloads, v # w PROVE HostOf(v)'
    <3>1. op'[v] = op[v] /\ docker'[v] = docker[v]
      BY <1>0, <2>3, <2>5, <2>8 DEF AgentTypes, Inventories
    <3> QED
      BY <1>0, <1>1, <2>3, <2>8, <3>1, OthersStay
  <2> QED
    BY <2>6, <2>7, <2>8
<1>5. CASE c.k = "Absent" /\ EnsureAbsent(e, c.w, c.g)
  <2>0. PICK w : w = c.w
    OBVIOUS
  <2>2. PICK pc \in {"remove", "failed"} :
          op' = [op EXCEPT ![w] = Running("Absent", c.g, e, pc)]
    BY <1>5, <2>0 DEF EnsureAbsent
  <2>3. docker' = docker /\ (tomb' = tomb \/ tomb' = [tomb EXCEPT ![w] = c.g])
    BY <1>5, <2>0 DEF EnsureAbsent
  <2> DEFINE r == Running("Absent", c.g, e, pc)
  <2>4. r \in Operations /\ r.k = "Absent"
    BY <1>1, <1>2, RunningIs
  <2>5. op' = [op EXCEPT ![w] = r]
    BY <2>2
  <2> HIDE DEF r
  <2>6. AgentTypes'
    BY <1>0, <1>1, <1>2, <2>3, <2>4, <2>5 DEF AgentTypes, Inventories
  <2>7. ASSUME w \in Workloads PROVE HostOf(w)'
    <3>1. op'[w] = r
      BY <1>0, <2>7, <2>5 DEF AgentTypes
    <3>2. OpFormed(w)'
      BY <2>4, <3>1 DEF OpFormed
    <3> QED
      BY <1>0, <1>1, <2>3, <2>7, <3>2 DEF HostOf, WasWanted
  <2>8. ASSUME NEW v \in Workloads, v # w PROVE HostOf(v)'
    <3>1. op'[v] = op[v] /\ tomb'[v] = tomb[v]
      BY <1>0, <2>3, <2>5, <2>8 DEF AgentTypes
    <3> QED
      BY <1>0, <1>1, <2>3, <2>8, <3>1, OthersStay
  <2> QED
    BY <2>6, <2>7, <2>8
<1> QED
  BY <1>1, <1>3, <1>4, <1>5

LEMMA CreateHost ==
  ASSUME Store, Store', RowsMove, Host, NEW w \in Workloads, CreateContainers(w)
  PROVE  AgentTypes' /\ \A v \in Workloads : HostOf(v)'
<1>0. AgentTypes /\ \A v \in Workloads : HostOf(v)
  BY HostIs
<1>1. PICK g : g = op[w].g
  OBVIOUS
<1> DEFINE r == [op[w] EXCEPT !.pc = "done"]
<1>2. /\ UNCHANGED <<row, tomb, late>> /\ op[w].k = "Present"
      /\ op' = [op EXCEPT ![w] = r]
      /\ docker' = [docker EXCEPT ![w] = docker[w] \cup {g}]
      /\ ran' = [ran EXCEPT ![w] = ran[w] \cup {g}]
  BY <1>0, <1>1 DEF CreateContainers, Advance, server, AgentTypes
<1>3. op[w] \in Operations /\ g \in Nat /\ WasWanted(w, g)
  BY <1>0, <1>1, <1>2 DEF AgentTypes, HostOf, OpFormed, Operations
<1>4. r \in Operations /\ r.k = "Present" /\ r.g = g /\ r.pc = "done"
  BY <1>1, <1>2, <1>3 DEF Operations
<1> HIDE DEF r
<1>5. AgentTypes'
  BY <1>0, <1>2, <1>3, <1>4 DEF AgentTypes, Inventories
<1>6. HostOf(w)'
  <2>1. /\ op'[w] = r /\ docker'[w] = docker[w] \cup {g} /\ ran'[w] = ran[w] \cup {g}
    BY <1>0, <1>2 DEF AgentTypes, Inventories
  <2>2. OpFormed(w)'
    BY <1>2, <1>3, <1>4, <2>1 DEF OpFormed, WasWanted
  <2> QED
    BY <1>0, <1>2, <1>3, <2>1, <2>2 DEF HostOf, WasWanted
<1>7. ASSUME NEW v \in Workloads, v # w PROVE HostOf(v)'
  <2>1. op'[v] = op[v] /\ docker'[v] = docker[v] /\ ran'[v] = ran[v]
    BY <1>0, <1>2, <1>7 DEF AgentTypes, Inventories
  <2> QED
    BY <1>0, <1>2, <1>7, <2>1, OthersStay
<1> QED
  BY <1>5, <1>6, <1>7

LEMMA LateHost ==
  ASSUME Store, Store', RowsMove, Host, NEW w \in Workloads, LateCreate(w)
  PROVE  AgentTypes' /\ \A v \in Workloads : HostOf(v)'
<1>0. AgentTypes /\ \A v \in Workloads : HostOf(v)
  BY HostIs
<1>1. PICK g : g = late[w]
  OBVIOUS
<1>2. /\ UNCHANGED <<row, op, tomb>> /\ g # 0
      /\ late' = [late EXCEPT ![w] = 0]
      /\ docker' = [docker EXCEPT ![w] = docker[w] \cup {g}]
      /\ ran' = [ran EXCEPT ![w] = ran[w] \cup {g}]
  BY <1>1 DEF LateCreate, server
<1>3. g \in Nat /\ WasWanted(w, g)
  BY <1>0, <1>1, <1>2 DEF AgentTypes, HostOf
<1>4. AgentTypes'
  BY <1>0, <1>2, <1>3 DEF AgentTypes, Inventories
<1>5. HostOf(w)'
  <2>1. /\ late'[w] = 0 /\ docker'[w] = docker[w] \cup {g} /\ ran'[w] = ran[w] \cup {g}
    BY <1>0, <1>2 DEF AgentTypes, Inventories
  <2>2. OpFormed(w)'
    BY <1>0, <1>2, <2>1 DEF HostOf, OpFormed, WasWanted
  <2> QED
    BY <1>0, <1>2, <1>3, <2>1, <2>2 DEF HostOf, WasWanted
<1>6. ASSUME NEW v \in Workloads, v # w PROVE HostOf(v)'
  <2>1. late'[v] = late[v] /\ docker'[v] = docker[v] /\ ran'[v] = ran[v]
    BY <1>0, <1>2, <1>6 DEF AgentTypes, Inventories
  <2> QED
    BY <1>0, <1>2, <1>6, <2>1, OthersStay
<1> QED
  BY <1>4, <1>5, <1>6

\* An operation that moves on without containers of its own.
LEMMA AdvanceHost ==
  ASSUME Store, Store', RowsMove, Host, NEW w \in Workloads, NEW pc \in {"done", "failed"},
         Advance(w, pc), op[w].k = "Present" => pc = "failed",
         UNCHANGED <<row, ran, tomb, late>>,
         docker' \in Inventories, \A v \in Workloads : docker'[v] \subseteq docker[v]
  PROVE  AgentTypes' /\ \A v \in Workloads : HostOf(v)'
<1>0. AgentTypes /\ \A v \in Workloads : HostOf(v)
  BY HostIs
<1> DEFINE r == [op[w] EXCEPT !.pc = pc]
<1>1. op' = [op EXCEPT ![w] = r]
  BY <1>0 DEF Advance, AgentTypes
<1>2. op[w] \in Operations /\ r \in Operations /\ r.k = op[w].k /\ r.g = op[w].g /\ r.pc = pc
  BY <1>0 DEF AgentTypes, Operations
<1> HIDE DEF r
<1>3. AgentTypes'
  BY <1>0, <1>1, <1>2 DEF AgentTypes
<1>4. HostOf(w)'
  <2>1. op'[w] = r
    BY <1>0, <1>1 DEF AgentTypes
  <2>2. OpFormed(w)'
    BY <1>0, <1>2, <2>1 DEF HostOf, OpFormed, WasWanted
  <2> QED
    BY <1>0, <2>2 DEF HostOf, WasWanted
<1>5. ASSUME NEW v \in Workloads, v # w PROVE HostOf(v)'
  <2>1. op'[v] = op[v]
    BY <1>0, <1>1, <1>5 DEF AgentTypes
  <2> QED
    BY <1>0, <1>5, <2>1, HostStays
<1> QED
  BY <1>3, <1>4, <1>5

LEMMA RestartHost ==
  ASSUME Store, Store', RowsMove, Host, RestartAgent
  PROVE  AgentTypes' /\ \A v \in Workloads : HostOf(v)'
<1>0. AgentTypes /\ \A v \in Workloads : HostOf(v)
  BY HostIs
<1>1. UNCHANGED <<row, docker, ran, tomb>> /\ op' = [v \in Workloads |-> NoOp]
  BY DEF RestartAgent, server
<1>2. ASSUME NEW v \in Workloads
      PROVE  /\ op'[v] = NoOp
             /\ \/ late'[v] = late[v]
                \/ op[v].k = "Present" /\ late'[v] = op[v].g
  BY <1>1 DEF RestartAgent
<1>3. AgentTypes'
  <2>1. late' \in [Workloads -> Nat]
    BY <1>0 DEF RestartAgent, AgentTypes, Operations
  <2> QED
    BY <1>0, <1>1, <2>1, Nothings DEF AgentTypes
<1>4. ASSUME NEW v \in Workloads PROVE HostOf(v)'
  <2>1. OpFormed(v)'
    BY <1>2, <1>4 DEF OpFormed, NoOp
  <2>2. (late[v] # 0 => WasWanted(v, late[v]))'
    BY <1>0, <1>1, <1>2, <1>4 DEF HostOf, OpFormed, WasWanted
  <2> QED
    BY <1>0, <1>1, <2>1, <2>2 DEF HostOf, WasWanted
<1> QED
  BY <1>3, <1>4

LEMMA AgentHost ==
  ASSUME Store, Store', RowsMove, Wires, Host, Agent
  PROVE  Host' /\ \A v \in Workloads : ran[v] \subseteq ran'[v]
<1>0. AgentTypes /\ \A v \in Workloads : HostOf(v)
  BY HostIs
<1>1. \A v \in Workloads : ran[v] \subseteq ran'[v]
  <2>1. \/ ran' = ran
        \/ \E w \in Workloads : \E g \in {op[w].g, late[w]} :
             ran' = [ran EXCEPT ![w] = ran[w] \cup {g}]
    BY DEF Agent, Dispatch, CreateContainers, RemoveContainers, DockerError,
       FinishOperation, LateCreate, TakeInventory, SendInventory, RestartAgent
  <2> QED
    BY <1>0, <2>1 DEF AgentTypes, Inventories
<1> DEFINE G == AgentTypes' /\ \A v \in Workloads : HostOf(v)'
<1>2. ASSUME NEW w \in Workloads, RemoveContainers(w) PROVE G
  <2>1. /\ docker' \in Inventories /\ \A v \in Workloads : docker'[v] \subseteq docker[v]
    BY <1>0, <1>2 DEF RemoveContainers, AgentTypes, Inventories
  <2>2. /\ Advance(w, "done") /\ op[w].k = "Absent"
        /\ UNCHANGED <<row, ran, tomb, late>>
    BY <1>2 DEF RemoveContainers, server
  <2> QED
    BY <2>1, <2>2, AdvanceHost
<1>3. ASSUME NEW w \in Workloads, DockerError(w) PROVE G
  <2>1. /\ docker' \in Inventories /\ \A v \in Workloads : docker'[v] \subseteq docker[v]
    BY <1>0, <1>3 DEF DockerError, AgentTypes
  <2>2. /\ Advance(w, "failed") /\ UNCHANGED <<row, ran, tomb, late>>
    BY <1>3 DEF DockerError, server
  <2> QED
    BY <2>1, <2>2, AdvanceHost
<1>4. ASSUME NEW w \in Workloads, FinishOperation(w) PROVE G
  <2>1. /\ op' = [op EXCEPT ![w] = NoOp]
        /\ UNCHANGED <<row, docker, ran, tomb, late>>
    BY <1>4 DEF FinishOperation, server
  <2>2. op' \in [Workloads -> Operations] /\ \A v \in Workloads : op'[v] \in {op[v], NoOp}
    BY <1>0, <2>1, Nothings DEF AgentTypes
  <2>3. AgentTypes'
    BY <1>0, <2>1, <2>2 DEF AgentTypes
  <2> QED
    BY <1>0, <2>1, <2>2, <2>3, HostStays
<1>5. ASSUME TakeInventory \/ SendInventory PROVE G
  <2>1. UNCHANGED <<row, op, docker, ran, tomb, late>>
    BY <1>5 DEF TakeInventory, SendInventory, server
  <2>2. AgentTypes'
    BY <1>0, <2>1 DEF AgentTypes
  <2> QED
    BY <1>0, <2>1, <2>2, HostStays
<1>6. G
  BY <1>2, <1>3, <1>4, <1>5, DispatchHost, CreateHost, LateHost, RestartHost DEF Agent
<1>7. Host'
  BY <1>6, HostIs DEF Host, AgentTypes, HostOf, GoodItems
<1> QED
  BY <1>1, <1>7

LEMMA StepHost ==
  ASSUME Store, Store', RowsMove, Wires, Host, [Next]_vars
  PROVE  Host' /\ \A v \in Workloads : ran[v] \subseteq ran'[v]
<1>1. CASE ~Agent
  <2>1. UNCHANGED <<op, docker, ran, tomb, late>>
    BY <1>1, ServerLeavesAgent DEF agent
  <2>2. AgentTypes /\ \A v \in Workloads : HostOf(v)
    BY HostIs
  <2>3. AgentTypes' /\ \A v \in Workloads : HostOf(v)'
    <3>1. AgentTypes'
      BY <2>1, <2>2 DEF AgentTypes
    <3> QED
      BY <2>1, <2>2, <3>1, HostStays
  <2> QED
    BY <2>1, <2>3 DEF Host, AgentTypes, HostOf, GoodItems
<1> QED
  BY <1>1, AgentHost

(***************************************************************************)
(* What the store shows.                                                   *)
(***************************************************************************)

\* A row that reads Ready after a step did so before, in the same session, or
\* was reported through the open session for a generation that ran.
ShownStep ==
  \A w \in Workloads : row'[w].observed = "Ready" =>
    \/ row'[w] = row[w] /\ node'.open = node.open /\ node'.epoch = node.epoch
    \/ /\ node' = node /\ node.open /\ row'[w].epoch = node.epoch
       /\ row'[w].gen = row[w].gen /\ row[w].gen \in ran[w]

LEMMA RowsShownAgain ==
  ASSUME row' = row, node'.open = node.open, node'.epoch = node.epoch
  PROVE  ShownStep
BY DEF ShownStep

\* A session that ends or begins leaves no row Ready.
LEMMA NothingShown ==
  ASSUME Inv, NEW s, s # "Ready", NEW S, NotAbsent \subseteq S, row' = Observe(s, S)
  PROVE  ShownStep
<1>1. ASSUME NEW w \in Workloads PROVE row'[w].observed # "Ready"
  <2>1. row[w] \in Rows /\ ran[w] \subseteq Nat
    BY DEF Inv, Store, Host, Inventories
  <2>2. row[w].observed = "Ready" => row[w].desired = "Present" /\ w \in S
    BY <2>1 DEF Inv, Shown, Host, WasWanted, NotAbsent
  <2>3. row'[w] = IF row[w].desired \in {"Present", "Absent"} /\ w \in S
                  THEN [row[w] EXCEPT !.observed = s, !.epoch = 0] ELSE row[w]
    BY DEF Observe
  <2>4. [row[w] EXCEPT !.observed = s, !.epoch = 0].observed = s
    BY <2>1 DEF Rows
  <2> QED
    BY <2>2, <2>3, <2>4
<1> QED
  BY <1>1 DEF ShownStep

LEMMA WorkloadShown ==
  ASSUME Inv, NEW w \in Workloads, Workload(w)
  PROVE  ShownStep
<1>0. RowsFormed
  BY DEF Inv, Store, RowsFormed
<1>1. node' = node
  BY DEF Workload, Place, WaitReady, WaitFails, Rollout, Destroy, FenceOrphan, DeleteTerminal
<1>2. ASSUME NEW r, row' = [row EXCEPT ![w] = r], r.observed # "Ready" PROVE ShownStep
  BY <1>0, <1>1, <1>2 DEF ShownStep, RowsFormed
<1>3. ASSUME NEW d \in {"Present", "Absent"}, row' = [row EXCEPT ![w] = NextGeneration(w, d)]
      PROVE  ShownStep
  <2> DEFINE r == NextGeneration(w, d)
  <2>1. r.observed # "Ready" /\ row' = [row EXCEPT ![w] = r]
    BY <1>0, <1>3, NextGenerationRow
  <2> HIDE DEF r
  <2> QED
    BY <1>2, <2>1
<1>4. CASE Place(w)
  <2> DEFINE r == [desired |-> "Present", gen |-> 1, observed |-> "Unknown", epoch |-> 0]
  <2>1. r.observed # "Ready" /\ row' = [row EXCEPT ![w] = r]
    BY <1>4 DEF Place
  <2> HIDE DEF r
  <2> QED
    BY <1>2, <2>1
<1>5. CASE DeleteTerminal(w)
  <2> DEFINE r == [row[w] EXCEPT !.desired = "Deleted", !.epoch = 0]
  <2>1. r.observed # "Ready" /\ row' = [row EXCEPT ![w] = r]
    BY <1>0, <1>5 DEF DeleteTerminal, RowsFormed, Rows
  <2> HIDE DEF r
  <2> QED
    BY <1>2, <2>1
<1>6. CASE WaitReady(w)
  BY <1>1, <1>6, RowsShownAgain DEF WaitReady
<1>7. CASE WaitFails(w)
  BY <1>1, <1>3, <1>7, RowsShownAgain DEF WaitFails
<1>8. CASE Rollout(w) \/ FenceOrphan(w)
  BY <1>3, <1>8 DEF Rollout, FenceOrphan
<1>9. CASE Destroy(w)
  BY <1>1, <1>3, <1>9, RowsShownAgain DEF Destroy
<1> QED
  BY <1>4, <1>5, <1>6, <1>7, <1>8, <1>9 DEF Workload

LEMMA SessionShown ==
  ASSUME Inv, NEW e \in Epochs, Session(e)
  PROVE  ShownStep
<1>1. CASE EndSession(e)
  <2>1. \/ row' = LostRows
        \/ row' = row /\ node' = node
    BY <1>1 DEF EndSession, Close
  <2> QED
    BY <2>1, NothingShown, RowsShownAgain DEF LostRows
<1>2. CASE Register(e) \/ LoseLink(e)
  BY <1>2, RowsShownAgain DEF Register, LoseLink, server
<1>3. CASE Heartbeat(e)
  <2>1. row' = row /\ node'.open = node.open /\ node'.epoch = node.epoch
    BY <1>3 DEF Heartbeat, Inv, Store, Nodes
  <2> QED
    BY <2>1, RowsShownAgain
<1> QED
  BY <1>1, <1>2, <1>3 DEF Session

LEMMA EnvironmentShown ==
  ASSUME Inv,
         \/ OpenSession \/ LeaseRunsOut \/ Disable \/ RestartServer \/ ExpireSessions
         \/ \E state \in AdminStates : SetState(state)
  PROVE  ShownStep
<1>1. CASE OpenSession
  BY <1>1, NothingShown DEF OpenSession, Wanted
<1>2. CASE Disable \/ ExpireSessions
  BY <1>2, NothingShown DEF Disable, ExpireSessions, LostRows
<1>3. CASE \/ LeaseRunsOut \/ RestartServer
           \/ \E state \in AdminStates : SetState(state)
  <2>1. row' = row /\ node'.open = node.open /\ node'.epoch = node.epoch
    BY <1>3 DEF LeaseRunsOut, RestartServer, SetState, Inv, Store, Nodes
  <2> QED
    BY <2>1, RowsShownAgain
<1> QED
  BY <1>1, <1>2, <1>3

\* A report that passes the fences of record_workload_status.
LEMMA ReportShown ==
  ASSUME Inv, NEW e \in Epochs, NEW w, NEW g, NEW s, NEW rest,
         RecordStatus(e, w, g, s, rest), node' = node,
         s = "Ready" => w \in Workloads /\ g \in ran[w]
  PROVE  ShownStep
<1>1. CASE Recordable(e, w, g)
  <2>1. node.open /\ node.epoch = e /\ row[w].gen = g /\ row' = Recorded(e, w, s)
    BY <1>1 DEF RecordStatus, Recordable, SessionCurrent
  <2>2. ASSUME NEW v \in Workloads, v # w PROVE row'[v] = row[v]
    BY <2>1, <2>2 DEF Recorded, Inv, Store
  <2>3. ASSUME w \in Workloads
        PROVE  row'[w].observed = s /\ row'[w].epoch = e /\ row'[w].gen = row[w].gen
    BY <2>1, <2>3 DEF Recorded, Inv, Store, Rows
  <2> QED
    BY <2>1, <2>2, <2>3 DEF ShownStep
<1>2. CASE ~Recordable(e, w, g)
  BY <1>2, RowsShownAgain DEF RecordStatus
<1> QED
  BY <1>1, <1>2

LEMMA ReadLoopShown ==
  ASSUME Inv, NEW e \in Epochs, ReadLoop(e)
  PROVE  ShownStep
<1>1. CASE ReceiveFeedback(e)
  <2> DEFINE m == Head(conn[e].in)
             rest == [conn EXCEPT ![e].in = Tail(conn[e].in)]
             ready == IF m.c.k = "Present" THEN "Ready" ELSE "Absent"
  <2>1. /\ node' = node
        /\ \/ row' = row
           \/ m.k = "Done" /\ RecordStatus(e, m.c.w, m.c.g, ready, rest)
           \/ RecordStatus(e, m.c.w, m.c.g, "Failed", rest)
    BY <1>1 DEF ReceiveFeedback
  <2>2. m \in GoodReplies
    BY <1>1, Received DEF ReceiveFeedback, Inv
  <2>3. m.k = "Done" /\ ready = "Ready" => m.c.w \in Workloads /\ m.c.g \in ran[m.c.w]
    BY <2>2 DEF GoodReplies
  <2> HIDE DEF m, rest, ready
  <2> QED
    BY <2>1, <2>3, ReportShown, RowsShownAgain
<1>2. CASE RecordSnapshot(e)
  <2> DEFINE stat == conn[e].stat
  <2>1. stat \in GoodStats
    BY ChannelTypes DEF Inv
  <2>2. ASSUME NEW w \in Workloads, row'[w] # row[w], row'[w].observed = "Ready"
        PROVE  /\ node.open /\ row'[w].epoch = node.epoch
               /\ row'[w].gen = row[w].gen /\ row[w].gen \in ran[w]
    <3>1. /\ Recordable(e, w, stat[w].g)
          /\ row'[w] = [row[w] EXCEPT !.observed = stat[w].s, !.epoch = e]
      BY <1>2, <2>2 DEF RecordSnapshot
    <3>2. row[w] \in Rows
      BY DEF Inv, Store
    <3> HIDE DEF stat
    <3>3. stat[w].s = "Ready" /\ row'[w].gen = row[w].gen /\ row'[w].epoch = e
      BY <2>2, <3>1, <3>2 DEF Rows
    <3>4. stat[w].g \in ran[w]
      BY <2>1, <3>3 DEF GoodStats
    <3> QED
      BY <3>1, <3>3, <3>4 DEF Recordable, SessionCurrent
  <2>3. node' = node
    BY <1>2 DEF RecordSnapshot
  <2> HIDE DEF stat
  <2> QED
    BY <2>2, <2>3 DEF ShownStep
<1>3. CASE ReceivePage(e) \/ ListAssigned(e) \/ CompleteInventory(e)
  BY <1>3, RowsShownAgain DEF ReceivePage, ListAssigned, CompleteInventory, server
<1>4. ASSUME NEW w \in Workloads, SendCleanup(e, w) PROVE ShownStep
  BY <1>4, RowsShownAgain DEF SendCleanup
<1> QED
  BY <1>1, <1>2, <1>3, <1>4 DEF ReadLoop

LEMMA StepShown ==
  ASSUME Inv, [Next]_vars
  PROVE  ShownStep
<1>1. CASE UNCHANGED vars
  BY <1>1, RowsShownAgain DEF vars
<1>2. CASE Agent
  <2>1. UNCHANGED server
    BY <1>2 DEF Agent, Dispatch, CreateContainers, RemoveContainers, DockerError,
       FinishOperation, LateCreate, TakeInventory, SendInventory, RestartAgent
  <2> QED
    BY <2>1, RowsShownAgain DEF server
<1>3. CASE Reconciler
  <2>1. CASE ExpireSessions
    BY <2>1, EnvironmentShown
  <2>2. CASE ~ExpireSessions
    <3>1. row' = row /\ node' = node
      BY <1>3, <2>2 DEF Reconciler, Disconnect, ListDue, RequestInventory, SendDue,
         CommandDeadline
    <3> QED
      BY <3>1, RowsShownAgain
  <2> QED
    BY <2>1, <2>2
<1> QED
  BY <1>1, <1>2, <1>3, WorkloadShown, SessionShown, EnvironmentShown, ReadLoopShown DEF Next

(***************************************************************************)
(* The invariant, and what follows from it.                                *)
(***************************************************************************)
LEMMA InitInv == Init => Inv
<1> SUFFICES ASSUME Init PROVE Inv
  OBVIOUS
<1>1. Store
  <2>1. NoRow \in Rows /\ NoRow.gen = 0
    BY DEF NoRow, Rows, Observations
  <2>2. node \in Nodes
    BY DEF Init, Nodes
  <2> QED
    BY <2>1, <2>2, Nothings DEF Init, Store
<1>2. Wires
  BY Nothings, EmptyChannel DEF Init, Wires
<1>3. Host
  <2>1. /\ op \in [Workloads -> Operations] /\ docker \in GoodItems /\ ran \in Inventories
        /\ tomb \in [Workloads -> Nat] /\ late \in [Workloads -> Nat]
    BY Nothings DEF Init, GoodItems
  <2>2. ASSUME NEW w \in Workloads PROVE ran[w] = {} /\ late[w] = 0 /\ OpFormed(w)
    BY DEF Init, NoItems, OpFormed, NoOp
  <2> QED
    BY <2>1, <2>2 DEF Host
<1>4. Shown
  BY DEF Init, NoRow, Shown
<1> QED
  BY <1>1, <1>2, <1>3, <1>4 DEF Inv

LEMMA StepInv == Inv /\ [Next]_vars => Inv'
<1> SUFFICES ASSUME Inv, [Next]_vars PROVE Inv'
  OBVIOUS
<1>1. Store' /\ RowsMove
  BY StepStore DEF Inv
<1>2. Host' /\ Onward
  BY <1>1, StepHost DEF Inv, Onward
<1>3. Wires'
  <2>1. WireStep
    BY StepWires DEF Inv
  <2>2. /\ conn' \in [Epochs -> Channels'] /\ due' \in [Workloads -> GoodCmds']
        /\ inv' \in Tasks'
    BY <1>1, <1>2, <2>1, GoodStays DEF WireStep, Inv
  <2> QED
    BY <2>2 DEF Wires
<1>4. Shown'
  BY <1>2, StepShown DEF ShownStep, Shown, Inv, Onward
<1> QED
  BY <1>1, <1>2, <1>3, <1>4 DEF Inv

LEMMA InvHolds == Spec => []Inv
BY InitInv, StepInv, PTL DEF Spec

LEMMA InvTypes == Inv => TypeOK
<1> SUFFICES ASSUME Inv PROVE TypeOK
  OBVIOUS
<1>1. GoodCmds \subseteq Commands /\ GoodReplies \subseteq Replies /\ GoodItems \subseteq Inventories
  BY DEF GoodCmds, GoodReplies, GoodItems
<1>2. ASSUME NEW e \in Epochs
      PROVE  /\ conn[e] \in [srv : {"None", "Opened", "Up", "Closed"}, link : BOOLEAN,
                  out : Seq(Commands), in : Seq(Replies),
                  pc : {"read", "list", "record", "clean", "error"}, items : Inventories,
                  stat : [Workloads -> [g : Nat, s : Observations \cup {"None"}]],
                  clean : [Workloads -> Nat]]
             /\ Len(conn[e].out) <= QueueCap /\ Len(conn[e].in) <= QueueCap
  <2>1. /\ conn[e] \in Links /\ Len(conn[e].out) <= QueueCap /\ Len(conn[e].in) <= QueueCap
    BY ChannelTypes DEF Inv
  <2>2. conn[e].out \in Seq(Commands) /\ conn[e].in \in Seq(Replies)
    BY <1>1, SeqGrows, ChannelTypes DEF Inv
  <2> QED
    BY <1>1, <2>1, <2>2 DEF Links, GoodStats, Statuses
<1>3. due \in [Workloads -> Commands]
  BY <1>1 DEF Inv, Wires
<1>4. inv \in [pc : {"None", "asked", "taken"}, e : Nat, items : Inventories]
  BY <1>1 DEF Inv, Wires, Tasks
<1>5. conn \in [Epochs ->
       [srv : {"None", "Opened", "Up", "Closed"}, link : BOOLEAN,
        out : Seq(Commands), in : Seq(Replies),
        pc : {"read", "list", "record", "clean", "error"}, items : Inventories,
        stat : [Workloads -> [g : Nat, s : Observations \cup {"None"}]],
        clean : [Workloads -> Nat]]]
  BY <1>2 DEF Inv, Wires
<1>6. Store /\ docker \in Inventories /\ Host
  BY <1>1 DEF Inv, Host
<1> QED
  BY <1>2, <1>3, <1>4, <1>5, <1>6
  DEF TypeOK, Store, Host, Nodes, Rows, Sessions, Operations

\* The state of store, sessions and agent keeps its types, and no control
\* queue grows past its capacity, whatever is resent, answered or redelivered
\* (control_queue_capacity, OUTBOUND_QUEUE).
THEOREM WorkerTypes == Spec => []TypeOK
BY InvHolds, InvTypes, PTL

\* A row reads Ready only for a generation that had containers: neither a
\* report nor an inventory that outlives its session, its generation or a
\* restart of either side makes another one Ready (record_workload_status).
THEOREM ReadyGenerationsRan == Spec => []ReadyWorkloadRan
<1>1. Inv => ReadyWorkloadRan
  BY DEF Inv, Shown, ReadyWorkloadRan
<1> QED
  BY <1>1, InvHolds, PTL

\* A row reads Ready only in the session that is open now and while its
\* workload is wanted (open_session, close_session, expire_sessions).
THEOREM ReadyIsOfTheOpenSession == Spec => []ReadyBelongsToOpenSession
<1>1. Inv => ReadyBelongsToOpenSession
  <2> SUFFICES ASSUME Inv, NEW w \in Workloads, row[w].observed = "Ready"
               PROVE  /\ row[w].desired = "Present"
                      /\ node.open /\ row[w].epoch = node.epoch
    BY DEF ReadyBelongsToOpenSession
  <2>1. row[w].gen \in ran[w]
    BY DEF Inv, Shown
  <2>2. WasWanted(w, row[w].gen)
    BY <2>1 DEF Inv, Host
  <2> QED
    BY <2>2 DEF Inv, Shown, WasWanted
<1> QED
  BY <1>1, InvHolds, PTL

\* A step creates a container only above the tombstone of its workload, or
\* one that a dead agent left in the daemon (ensure_workload).
THEOREM RemovedGenerationsStayRemoved == Spec => NoResurrection
<1> DEFINE A == \A w \in Workloads : \A g \in docker'[w] \ docker[w] :
                  g > tomb[w] \/ g = late[w]
<1>1. Inv /\ [Next]_vars => [A]_vars
  <2> SUFFICES ASSUME Inv, Next PROVE A
    OBVIOUS
  <2>0. docker \in Inventories /\ Host
    BY DEF Inv, Host, GoodItems
  <2>1. CASE docker' = docker
    BY <2>1
  <2>2. ASSUME NEW w \in Workloads, CreateContainers(w) PROVE A
    <3>1. op[w].g > tomb[w] /\ docker' = [docker EXCEPT ![w] = docker[w] \cup {op[w].g}]
      BY <2>0, <2>2 DEF CreateContainers, Host, OpFormed
    <3> QED
      BY <2>0, <3>1 DEF Inventories
  <2>3. ASSUME NEW w \in Workloads, LateCreate(w) PROVE A
    BY <2>0, <2>3 DEF LateCreate, Inventories
  <2>4. ASSUME NEW w \in Workloads, RemoveContainers(w) PROVE A
    BY <2>0, <2>4 DEF RemoveContainers, Inventories
  <2>5. ASSUME NEW e \in Epochs, Dispatch(e) PROVE A
    <3>1. docker' = docker \/ \E w : docker' = [docker EXCEPT ![w] = {}]
      BY <2>5 DEF Dispatch, EnsurePresent, EnsureAbsent
    <3> QED
      BY <2>0, <3>1 DEF Inventories
  <2>6. CASE ~Agent
    BY <2>1, <2>6, ServerLeavesAgent DEF agent
  <2>7. CASE Agent
    <3>1. \/ docker' = docker
          \/ \E e \in Epochs : Dispatch(e)
          \/ \E w \in Workloads : CreateContainers(w) \/ RemoveContainers(w) \/ LateCreate(w)
      BY <2>7 DEF Agent, DockerError, FinishOperation, TakeInventory, SendInventory,
         RestartAgent
    <3> QED
      BY <2>1, <2>2, <2>3, <2>4, <2>5, <3>1
  <2> QED
    BY <2>6, <2>7
<1> QED
  BY <1>1, InvHolds, PTL DEF Spec, NoResurrection
=============================================================================
