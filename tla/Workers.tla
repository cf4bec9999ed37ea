------------------------------ MODULE Workers ------------------------------
(***************************************************************************)
(* Worker orchestration: the workload store (services/worker_store), the   *)
(* live-session registry, listener, inventory adoption and reconciler      *)
(* (services/worker), the container backend that places workloads, and the *)
(* agent (agents/worker-agent) that runs them on Docker.                   *)
(*                                                                         *)
(* One worker node is modelled: a workload never moves.  The database is   *)
(* the authority; its transactions are single steps.  A session is named   *)
(* by its epoch, which every open_session increments.  A workload id has   *)
(* one assignment for life, and a specification hash belongs to one        *)
(* generation, so <<workload, generation>> is the whole command fence.     *)
(*                                                                         *)
(* Each session has one control connection, a FIFO channel each way.  The  *)
(* agent survives a lost connection with its running operations; a         *)
(* restart loses them, and the Docker daemon may still finish a container  *)
(* creation that the dead agent had asked for.                             *)
(***************************************************************************)
EXTENDS Integers, Sequences, FiniteSets

CONSTANTS
  Workloads,
  Capacity,     \* capacity_slots of the node
  QueueCap,     \* control_queue_capacity and OUTBOUND_QUEUE
  AdminStates,  \* administrative states the operators use
  MaxGen,       \* bound: generations of a workload
  FaultKinds,   \* the faults of the environment that an instance has
  MaxFaults     \* bound: how many of them

Faults == {"link", "lease", "disable", "agent", "server", "docker"}

ASSUME WorkersAssumption ==
  /\ FaultKinds \subseteq Faults
  /\ IsFiniteSet(Workloads)
  /\ Capacity \in Nat /\ QueueCap \in Nat \ {0}
  /\ AdminStates \subseteq {"Enabled", "Draining", "Disabled"}
  /\ MaxGen \in Nat \ {0} /\ MaxFaults \in Nat

\* A fault costs at most three epochs: an expiry that increments the epoch,
\* a replacement that the late registry disconnect hits, and its successor.
MaxEpoch == 1 + 3 * MaxFaults
Epochs == 1 .. MaxEpoch
Gens == 1 .. MaxGen

VARIABLES
  node,    \* WorkerNodes
  row,     \* WorkerWorkloads
  caller,  \* the request that placed a workload and its Containers row
  reg,     \* WorkerRegistry: the live session
  conn,    \* control connections, by epoch
  due,     \* the batch reconcile_batch read
  kick,    \* a disconnect that follows expire_sessions or a disable
  op,      \* OperationDispatcher.active_workloads
  inv,     \* the agent's inventory task
  docker,  \* generations of a workload with containers
  ran,     \* generations that ever had containers (history)
  tomb,    \* newest tombstone of a workload
  late,    \* creation left in the Docker daemon by a dead agent
  faults

server == <<node, row, caller, reg, due, kick>>
agent == <<op, inv, docker, ran, tomb, late>>
vars == <<node, row, caller, reg, conn, due, kick,
          op, inv, docker, ran, tomb, late, faults>>

NoCmd == [k |-> "None", w |-> "None", g |-> 0]
Cmd(k, w, g) == [k |-> k, w |-> w, g |-> g]
AskInventory == [k |-> "Inventory", w |-> "None", g |-> 0]
NoItems == [w \in Workloads |-> {}]
NoFences == [w \in Workloads |-> 0]
NoStatus == [w \in Workloads |-> [g |-> 0, s |-> "None"]]
NoOp == [k |-> "None", g |-> 0, e |-> 0, pc |-> "None"]
NoTask == [pc |-> "None", e |-> 0, items |-> NoItems]

NoRow == [desired |-> "None", gen |-> 0, observed |-> "Absent", epoch |-> 0]
NoConn == [srv |-> "None", link |-> FALSE, out |-> <<>>, in |-> <<>>,
           pc |-> "read", items |-> NoItems, stat |-> NoStatus,
           clean |-> NoFences]
NoSession == [epoch |-> 0, cmd |-> [w \in Workloads |-> NoCmd], inv |-> FALSE]

Init ==
  /\ node = [admin |-> "Enabled", open |-> FALSE, epoch |-> 0, lease |-> FALSE]
  /\ row = [w \in Workloads |-> NoRow]
  /\ caller = [w \in Workloads |-> "Idle"]
  /\ reg = NoSession
  /\ conn = [e \in Epochs |-> NoConn]
  /\ due = [w \in Workloads |-> NoCmd]
  /\ kick = FALSE
  /\ op = [w \in Workloads |-> NoOp]
  /\ inv = NoTask
  /\ docker = NoItems
  /\ ran = NoItems
  /\ tomb = [w \in Workloads |-> 0]
  /\ late = [w \in Workloads |-> 0]
  /\ faults = 0

Fault(kind) ==
  kind \in FaultKinds /\ faults < MaxFaults /\ faults' = faults + 1

---------------------------------------------------------------------------
\* The workload store.

\* A row holds its reservation until it is wanted absent and observed absent.
Reserved(w) ==
  /\ row[w].desired \in {"Present", "Absent"}
  /\ row[w].desired = "Present" \/ row[w].observed # "Absent"

\* session_is_current: the exact session, with a live lease.
SessionCurrent(e) == node.open /\ node.epoch = e /\ node.lease

\* observed_state of these workloads of the node in one UPDATE.
Observe(state, which) ==
  [w \in Workloads |->
     IF row[w].desired \in {"Present", "Absent"} /\ w \in which
     THEN [row[w] EXCEPT !.observed = state, !.epoch = 0] ELSE row[w]]

NotAbsent == {w \in Workloads : row[w].observed # "Absent"}
LostRows == Observe("Lost", NotAbsent)

\* Mutant: the observation of the previous generation stays.
NextGeneration_KeepsObserved(w, desired) ==
  [desired |-> desired, gen |-> row[w].gen + 1,
   observed |-> row[w].observed, epoch |-> row[w].epoch]

\* A new generation of a row, not observed yet.
NextGeneration(w, desired) ==
  [desired |-> desired, gen |-> row[w].gen + 1,
   observed |-> "Unknown", epoch |-> 0]

\* place_workload: a live enabled worker with room for one more workload.
Place(w) ==
  /\ caller[w] = "Idle" /\ row[w].desired = "None"
  /\ node.admin = "Enabled" /\ node.open /\ node.lease
  /\ Cardinality({v \in Workloads : Reserved(v)}) < Capacity
  /\ row' = [row EXCEPT ![w] = [desired |-> "Present", gen |-> 1,
                                observed |-> "Unknown", epoch |-> 0]]
  /\ caller' = [caller EXCEPT ![w] = "Waiting"]
  /\ UNCHANGED <<node, reg, conn, due, kick, agent, faults>>

\* wait_until_ready returns and the caller stores its Containers row; a crash
\* between the two is a crash before both.
WaitReady(w) ==
  /\ caller[w] = "Waiting"
  /\ row[w].gen = 1 /\ row[w].desired = "Present" /\ row[w].observed = "Ready"
  /\ caller' = [caller EXCEPT ![w] = "Booked"]
  /\ UNCHANGED <<node, row, reg, conn, due, kick, agent, faults>>

\* wait_until_ready fails: superseded, failed or timed out.  The caller placed
\* the workload, so it withdraws the generation it placed.
WaitFails(w) ==
  /\ caller[w] = "Waiting"
  /\ ~(row[w].desired = "Present" /\ row[w].observed = "Ready")
  /\ caller' = [caller EXCEPT ![w] = "Ended"]
  /\ row' = IF row[w].desired = "Present" /\ row[w].gen = 1
            THEN [row EXCEPT ![w] = NextGeneration(w, "Absent")] ELSE row
  /\ UNCHANGED <<node, reg, conn, due, kick, agent, faults>>

\* rollout and update_workload_definition: a new generation on the same node.
Rollout(w) ==
  /\ caller[w] = "Booked"
  /\ row[w].desired = "Present" /\ row[w].gen < MaxGen
  /\ Cardinality({v \in Workloads \ {w} : Reserved(v)}) < Capacity
  /\ row' = [row EXCEPT ![w] = NextGeneration(w, "Present")]
  /\ UNCHANGED <<node, caller, reg, conn, due, kick, agent, faults>>

\* destroy: the current generation is withdrawn; the Containers row goes after.
Destroy(w) ==
  /\ caller[w] = "Booked" /\ row[w].gen < MaxGen
  /\ caller' = [caller EXCEPT ![w] = "Ended"]
  /\ row' = IF row[w].desired = "Present"
            THEN [row EXCEPT ![w] = NextGeneration(w, "Absent")] ELSE row
  /\ UNCHANGED <<node, reg, conn, due, kick, agent, faults>>

\* mark_orphaned_container_workloads_absent: no Containers row was committed
\* within ORPHAN_GRACE, which is longer than any wait of a living caller.
FenceOrphan(w) ==
  /\ caller[w] = "Ended" /\ row[w].desired = "Present"
  /\ row' = [row EXCEPT ![w] = NextGeneration(w, "Absent")]
  /\ UNCHANGED <<node, caller, reg, conn, due, kick, agent, faults>>

\* delete_terminal_workloads: the id is never used again.
DeleteTerminal(w) ==
  /\ row[w].desired = "Absent" /\ row[w].observed = "Absent"
  /\ caller[w] = "Ended"
  /\ row' = [row EXCEPT ![w].desired = "Deleted", ![w].epoch = 0]
  /\ UNCHANGED <<node, caller, reg, conn, due, kick, agent, faults>>

---------------------------------------------------------------------------
\* Sessions.

Wanted == {w \in Workloads : row[w].desired = "Present"} \cup NotAbsent

\* begin_session and open_session: the agent has no connection of its own left.
OpenSession ==
  LET e == node.epoch + 1 IN
    /\ e \in Epochs /\ node.admin # "Disabled"
    /\ \A f \in Epochs : ~conn[f].link
    /\ node' = [node EXCEPT !.open = TRUE, !.epoch = e, !.lease = TRUE]
    /\ row' = Observe("Unknown", Wanted)
    /\ conn' = [conn EXCEPT ![e].srv = "Opened", ![e].link = TRUE]
    /\ UNCHANGED <<caller, reg, due, kick, agent, faults>>

\* register_authenticated_control, the welcome, and the first inventory
\* request.  An equal or newer entry refuses the connection.
Register(e) ==
  /\ conn[e].srv = "Opened" /\ reg.epoch < e
  /\ reg' = [NoSession EXCEPT !.epoch = e, !.inv = TRUE]
  /\ conn' = [conn EXCEPT ![e].srv = "Up", ![e].out = <<AskInventory>>]
  /\ UNCHANGED <<node, row, caller, due, kick, agent, faults>>

Closed(e) == [conn EXCEPT ![e] = [NoConn EXCEPT !.srv = "Closed"]]

\* SessionCleanup: registry removal and close_session, both fenced by e.
Close(e) ==
  /\ conn' = Closed(e)
  /\ reg' = IF reg.epoch = e THEN NoSession ELSE reg
  /\ IF node.open /\ node.epoch = e
     THEN /\ node' = [node EXCEPT !.open = FALSE, !.lease = FALSE]
          /\ row' = LostRows
     ELSE UNCHANGED <<node, row>>
  /\ UNCHANGED <<caller, due, kick>>

\* run_control ends: the link is gone, the registry dropped the session, or a
\* handler returned an error.  Registration may be refused.
EndSession(e) ==
  /\ \/ conn[e].srv = "Up" /\ (~conn[e].link \/ reg.epoch # e \/ conn[e].pc = "error")
     \/ conn[e].srv = "Opened" /\ (~conn[e].link \/ reg.epoch >= e)
  /\ Close(e)
  /\ UNCHANGED <<agent, faults>>

\* The connection breaks; the server may notice much later.  An unhealthy
\* heartbeat, an exceeded quota or an expired local lease is a break that the
\* server acts on at once.
LoseLink(e) ==
  /\ conn[e].link
  /\ Fault("link")
  /\ conn' = [conn EXCEPT ![e].link = FALSE, ![e].out = <<>>, ![e].in = <<>>]
  /\ UNCHANGED <<server, agent>>

\* heartbeat renews the exact session, also after its lease has run out, and
\* ends any other.
Heartbeat(e) ==
  /\ conn[e].srv = "Up" /\ conn[e].pc = "read" /\ conn[e].link /\ reg.epoch = e
  /\ ~SessionCurrent(e)
  /\ IF node.open /\ node.epoch = e /\ node.admin # "Disabled"
     THEN node' = [node EXCEPT !.lease = TRUE] /\ UNCHANGED conn
     ELSE conn' = [conn EXCEPT ![e].pc = "error"] /\ UNCHANGED node
  /\ UNCHANGED <<row, caller, reg, due, kick, agent, faults>>

LeaseRunsOut ==
  /\ node.open /\ node.lease
  /\ Fault("lease")
  /\ node' = [node EXCEPT !.lease = FALSE]
  /\ UNCHANGED <<row, caller, reg, conn, due, kick, agent>>

\* expire_sessions: the session is fenced; the registry is told afterwards.
ExpireSessions ==
  /\ node.open /\ ~node.lease /\ ~kick
  /\ node' = [node EXCEPT !.open = FALSE, !.epoch = node.epoch + 1]
  /\ row' = LostRows
  /\ kick' = TRUE
  /\ UNCHANGED <<caller, reg, conn, due, agent, faults>>

\* set_administrative_state(Disabled), followed by a disconnect.
Disable ==
  /\ node.admin # "Disabled" /\ ~kick
  /\ Fault("disable")
  /\ node' = [admin |-> "Disabled", open |-> FALSE, lease |-> FALSE,
              epoch |-> IF node.open THEN node.epoch + 1 ELSE node.epoch]
  /\ row' = LostRows
  /\ kick' = TRUE
  /\ UNCHANGED <<caller, reg, conn, due, agent>>

SetState(state) ==
  /\ node.admin # state /\ state # "Disabled"
  /\ node' = [node EXCEPT !.admin = state]
  /\ UNCHANGED <<row, caller, reg, conn, due, kick, agent, faults>>

\* registry.disconnect names the worker, not the session it fenced.
Disconnect ==
  /\ kick
  /\ kick' = FALSE
  /\ reg' = NoSession
  /\ UNCHANGED <<node, row, caller, conn, due, agent, faults>>

---------------------------------------------------------------------------
\* The reconciler and the registry's bounded command slots.

\* Mutant: the queue of the session is not bounded.
CanSend_AnyLength(w) == reg.epoch # 0 /\ reg.cmd[w] = NoCmd

\* registry.send to the worker's current session: one lifecycle command per
\* workload in flight, and room in the queue.
CanSend(w) ==
  /\ reg.epoch # 0 /\ reg.cmd[w] = NoCmd
  /\ Len(conn[reg.epoch].out) < QueueCap

SendTo(c) ==
  /\ reg' = [reg EXCEPT !.cmd[c.w] = c]
  /\ conn' = [conn EXCEPT ![reg.epoch].out =
                IF conn[reg.epoch].link THEN Append(conn[reg.epoch].out, c)
                ELSE <<>>]

Due(w) ==
  \/ row[w].desired = "Present" /\ row[w].observed # "Ready"
  \/ row[w].desired = "Absent" /\ row[w].observed # "Absent"

\* list_due_workloads and command_for: the batch is sent from this copy.
ListDue ==
  /\ \A w \in Workloads : due[w] = NoCmd
  /\ node.open /\ node.lease /\ node.admin # "Disabled"
  /\ \E w \in Workloads : Due(w)
  /\ due' = [w \in Workloads |->
               IF Due(w) THEN Cmd(row[w].desired, w, row[w].gen) ELSE NoCmd]
  /\ UNCHANGED <<node, row, caller, reg, conn, kick, agent, faults>>

\* A busy or offline worker leaves the row to a later batch.
SendDue(w) ==
  /\ due[w] # NoCmd
  /\ due' = [due EXCEPT ![w] = NoCmd]
  /\ IF CanSend(w) THEN SendTo(due[w]) ELSE UNCHANGED <<reg, conn>>
  /\ UNCHANGED <<node, row, caller, kick, agent, faults>>

\* prune_expired_commands: the deadline of a delivered command passes while the
\* operation still runs, or after its answer was lost.
CommandDeadline(w) ==
  /\ reg.cmd[w] # NoCmd
  /\ \A i \in 1 .. Len(conn[reg.epoch].out) : conn[reg.epoch].out[i] # reg.cmd[w]
  /\ \A i \in 1 .. Len(conn[reg.epoch].in) : conn[reg.epoch].in[i].c # reg.cmd[w]
  /\ reg' = [reg EXCEPT !.cmd[w] = NoCmd]
  /\ UNCHANGED <<node, row, caller, conn, due, kick, agent, faults>>

\* request_inventory: one snapshot at a time.
RequestInventory ==
  /\ reg.epoch # 0 /\ ~reg.inv
  /\ Len(conn[reg.epoch].out) < QueueCap
  /\ reg' = [reg EXCEPT !.inv = TRUE]
  /\ conn' = [conn EXCEPT ![reg.epoch].out =
                IF conn[reg.epoch].link
                THEN Append(conn[reg.epoch].out, AskInventory) ELSE <<>>]
  /\ UNCHANGED <<node, row, caller, due, kick, agent, faults>>

---------------------------------------------------------------------------
\* The agent.

Reply(k, c, items) == [k |-> k, c |-> c, items |-> items]

\* A message to the session the command came from, if that is still connected.
Answer(e, m) ==
  conn' = [conn EXCEPT ![e].in =
             IF conn[e].link THEN Append(conn[e].in, m) ELSE conn[e].in]

Answerable(e) == conn[e].link => Len(conn[e].in) < QueueCap

Running(k, g, e, pc) == [k |-> k, g |-> g, e |-> e, pc |-> pc]

\* Mutant: the tombstone is not consulted.
EnsurePresent_IgnoresTombstone(e, w, g) ==
  /\ op' = [op EXCEPT ![w] = Running("Present", g, e, "create")]
  /\ docker' = IF docker[w] \subseteq {g} THEN docker
               ELSE [docker EXCEPT ![w] = {}]
  /\ UNCHANGED tomb

\* ensure_workload up to the first creation: the tombstone and the newest
\* container are consulted.  A container of an older generation makes it remove
\* all of them.
EnsurePresent(e, w, g) ==
  /\ IF g <= tomb[w] \/ \E h \in docker[w] : h > g
     THEN /\ op' = [op EXCEPT ![w] = Running("Present", g, e, "failed")]
          /\ UNCHANGED docker
     ELSE /\ op' = [op EXCEPT ![w] = Running("Present", g, e, "create")]
          /\ docker' = IF docker[w] \subseteq {g} THEN docker
                       ELSE [docker EXCEPT ![w] = {}]
  /\ UNCHANGED tomb

\* ensure_absent up to the first removal: a newer generation refuses it; the
\* tombstone is on disk before anything is removed and never moves backwards.
EnsureAbsent(e, w, g) ==
  /\ IF \E h \in docker[w] : h > g
     THEN /\ op' = [op EXCEPT ![w] = Running("Absent", g, e, "failed")]
          /\ UNCHANGED tomb
     ELSE /\ op' = [op EXCEPT ![w] = Running("Absent", g, e, "remove")]
          /\ tomb' = IF g > tomb[w] THEN [tomb EXCEPT ![w] = g] ELSE tomb
  /\ UNCHANGED docker

\* dispatch: one operation per workload, also across sessions; a second one is
\* answered Busy.  An operation starts at once: nothing else can touch its
\* workload before it does.
Dispatch(e) ==
  /\ conn[e].link /\ conn[e].out # <<>>
  /\ LET c == Head(conn[e].out)
         popped == [conn EXCEPT ![e].out = Tail(conn[e].out)] IN
       \/ /\ c.k = "Inventory" /\ inv.pc = "None"
          /\ inv' = [pc |-> "asked", e |-> e, items |-> NoItems]
          /\ conn' = popped
          /\ UNCHANGED <<op, docker, tomb>>
       \/ /\ c.k = "Present" /\ op[c.w] = NoOp
          /\ EnsurePresent(e, c.w, c.g)
          /\ conn' = popped /\ UNCHANGED inv
       \/ /\ c.k = "Absent" /\ op[c.w] = NoOp
          /\ EnsureAbsent(e, c.w, c.g)
          /\ conn' = popped /\ UNCHANGED inv
       \/ /\ c.k # "Inventory" /\ op[c.w] # NoOp /\ Len(conn[e].in) < QueueCap
          /\ conn' = [popped EXCEPT ![e].in = Append(conn[e].in, Reply("Busy", c, NoItems))]
          /\ UNCHANGED <<op, inv, docker, tomb>>
  /\ UNCHANGED <<server, ran, late, faults>>

Advance(w, pc) == op' = [op EXCEPT ![w].pc = pc]

CreateContainers(w) ==
  /\ op[w].k = "Present" /\ op[w].pc = "create"
  /\ Advance(w, "done")
  /\ docker' = [docker EXCEPT ![w] = docker[w] \cup {op[w].g}]
  /\ ran' = [ran EXCEPT ![w] = ran[w] \cup {op[w].g}]
  /\ UNCHANGED <<server, conn, inv, tomb, late, faults>>

RemoveContainers(w) ==
  /\ op[w].k = "Absent" /\ op[w].pc = "remove"
  /\ Advance(w, "done")
  /\ docker' = [docker EXCEPT ![w] = {g \in docker[w] : g > op[w].g}]
  /\ UNCHANGED <<server, conn, inv, ran, tomb, late, faults>>

\* A pull, creation or removal fails in Docker.
DockerError(w) ==
  /\ op[w].pc \in {"create", "remove"}
  /\ Fault("docker") /\ Advance(w, "failed")
  /\ UNCHANGED <<server, conn, inv, docker, ran, tomb, late>>

\* execute reports the outcome.  A successful CommandResult only frees the
\* command slot, as the status that follows it does; they are one message.
FinishOperation(w) ==
  /\ op[w].pc \in {"done", "failed"} /\ Answerable(op[w].e)
  /\ LET c == Cmd(op[w].k, w, op[w].g) IN
       Answer(op[w].e, Reply(IF op[w].pc = "done" THEN "Done" ELSE "Failed", c, NoItems))
  /\ op' = [op EXCEPT ![w] = NoOp]
  /\ UNCHANGED <<server, inv, docker, ran, tomb, late, faults>>

\* collect_inventory reads the containers; the page is sent later.
TakeInventory ==
  /\ inv.pc = "asked"
  /\ inv' = [inv EXCEPT !.pc = "taken", !.items = docker]
  /\ UNCHANGED <<server, conn, op, docker, ran, tomb, late, faults>>

SendInventory ==
  /\ inv.pc = "taken" /\ Answerable(inv.e)
  /\ Answer(inv.e, Reply("Page", NoCmd, inv.items))
  /\ inv' = NoTask
  /\ UNCHANGED <<server, op, docker, ran, tomb, late, faults>>

\* A restart loses the connection and the running operations.
RestartAgent ==
  /\ Fault("agent")
  /\ op' = [w \in Workloads |-> NoOp]
  /\ inv' = NoTask
  /\ conn' = [e \in Epochs |->
                IF conn[e].link
                THEN [conn[e] EXCEPT !.link = FALSE, !.out = <<>>, !.in = <<>>]
                ELSE conn[e]]
  /\ late' = [w \in Workloads |->
                IF op[w].k = "Present" /\ op[w].pc = "create" THEN op[w].g ELSE late[w]]
  /\ UNCHANGED <<server, docker, ran, tomb>>

\* The daemon finishes the creation of a dead agent.
LateCreate(w) ==
  /\ late[w] # 0
  /\ late' = [late EXCEPT ![w] = 0]
  /\ docker' = [docker EXCEPT ![w] = docker[w] \cup {late[w]}]
  /\ ran' = [ran EXCEPT ![w] = ran[w] \cup {late[w]}]
  /\ UNCHANGED <<server, conn, op, inv, tomb, faults>>

---------------------------------------------------------------------------
\* The server's read loop.

\* Mutant: a report counts for whichever generation is current.
Recordable_AnyGeneration(e, w, g) ==
  /\ SessionCurrent(e) /\ node.admin # "Disabled"
  /\ row[w].desired \in {"Present", "Absent"}

\* record_workload_status: every fence must match.
Recordable(e, w, g) ==
  /\ SessionCurrent(e) /\ node.admin # "Disabled"
  /\ row[w].desired \in {"Present", "Absent"} /\ row[w].gen = g

Recorded(e, w, state) ==
  [row EXCEPT ![w].observed = state, ![w].epoch = e]

\* handle_inbound(WorkloadStatus): a stale report is ignored by a current
\* session and ends any other.
RecordStatus(e, w, g, state, rest) ==
  IF Recordable(e, w, g)
  THEN row' = Recorded(e, w, state) /\ conn' = rest
  ELSE /\ conn' = IF SessionCurrent(e) THEN rest ELSE [rest EXCEPT ![e].pc = "error"]
       /\ UNCHANGED row

FreeSlot(c) ==
  reg' = IF reg.cmd[c.w] = c THEN [reg EXCEPT !.cmd[c.w] = NoCmd] ELSE reg

\* Feedback and status reports.  Each first needs the registry's current
\* session; a failure counts only while its command occupies the slot.
ReceiveFeedback(e) ==
  /\ conn[e].srv = "Up" /\ conn[e].pc = "read" /\ conn[e].in # <<>>
  /\ Head(conn[e].in).k # "Page"
  /\ LET m == Head(conn[e].in)
         rest == [conn EXCEPT ![e].in = Tail(conn[e].in)] IN
       \/ /\ reg.epoch # e
          /\ conn' = [rest EXCEPT ![e].pc = "error"]
          /\ UNCHANGED <<row, reg>>
       \/ /\ reg.epoch = e /\ m.k = "Busy"
          /\ FreeSlot(m.c) /\ conn' = rest /\ UNCHANGED row
       \/ /\ reg.epoch = e /\ m.k = "Done"
          /\ FreeSlot(m.c)
          /\ RecordStatus(e, m.c.w, m.c.g,
                          IF m.c.k = "Present" THEN "Ready" ELSE "Absent", rest)
       \/ /\ reg.epoch = e /\ m.k = "Failed" /\ reg.cmd[m.c.w] = m.c
          /\ FreeSlot(m.c)
          /\ RecordStatus(e, m.c.w, m.c.g, "Failed", rest)
       \/ /\ reg.epoch = e /\ m.k = "Failed" /\ reg.cmd[m.c.w] # m.c
          /\ conn' = rest /\ UNCHANGED <<row, reg>>
  /\ UNCHANGED <<node, caller, due, kick, agent, faults>>

\* validate_inbound and collect_inventory: the session is current, and a page
\* names a workload once.
ReceivePage(e) ==
  /\ conn[e].srv = "Up" /\ conn[e].pc = "read" /\ conn[e].in # <<>>
  /\ LET m == Head(conn[e].in)
         rest == [conn EXCEPT ![e].in = Tail(conn[e].in)] IN
       /\ m.k = "Page"
       /\ conn' = IF /\ SessionCurrent(e)
                     /\ \A w \in Workloads : Cardinality(m.items[w]) <= 1
                     /\ reg.epoch = e /\ reg.inv
                  THEN [rest EXCEPT ![e].pc = "list", ![e].items = m.items]
                  ELSE [rest EXCEPT ![e].pc = "error"]
  /\ UNCHANGED <<server, agent, faults>>

\* list_session_workloads: the rows of this session, none for any other.
Assigned(e) == {w \in Workloads : SessionCurrent(e) /\ Reserved(w)}

\* The snapshot against the assignments: exact fences are adopted, the other
\* containers are to be removed, and an assignment not seen is absent.
ListAssigned(e) ==
  /\ conn[e].srv = "Up" /\ conn[e].pc = "list"
  /\ LET items == conn[e].items
         exact(w) == w \in Assigned(e) /\ items[w] = {row[w].gen} IN
       conn' = [conn EXCEPT
         ![e].pc = "record",
         ![e].items = NoItems,
         ![e].stat = [w \in Workloads |->
            IF w \in Assigned(e)
            THEN [g |-> row[w].gen, s |-> IF exact(w) THEN "Ready" ELSE "Absent"]
            ELSE [g |-> 0, s |-> "None"]],
         ![e].clean = [w \in Workloads |->
            IF items[w] = {} \/ exact(w) THEN 0 ELSE CHOOSE g \in items[w] : TRUE]]
  /\ UNCHANGED <<server, agent, faults>>

\* record_workload_status_batch, then a session check if a row was skipped.
RecordSnapshot(e) ==
  /\ conn[e].srv = "Up" /\ conn[e].pc = "record"
  /\ LET stat == conn[e].stat
         listed == {w \in Workloads : stat[w].g # 0}
         applied == {w \in listed : Recordable(e, w, stat[w].g)} IN
       /\ row' = [w \in Workloads |->
                    IF w \in applied
                    THEN [row[w] EXCEPT !.observed = stat[w].s, !.epoch = e]
                    ELSE row[w]]
       /\ conn' = [conn EXCEPT ![e].stat = NoStatus,
                     ![e].pc = IF applied # listed /\ ~SessionCurrent(e)
                               THEN "error" ELSE "clean"]
  /\ UNCHANGED <<node, caller, reg, due, kick, agent, faults>>

\* Cleanup commands go to whichever session the registry has for the worker.
SendCleanup(e, w) ==
  /\ conn[e].srv = "Up" /\ conn[e].pc = "clean" /\ conn[e].clean[w] # 0
  /\ LET c == Cmd("Absent", w, conn[e].clean[w]) IN
       \/ /\ CanSend(w)
          /\ reg' = [reg EXCEPT !.cmd[w] = c]
          /\ conn' = [f \in Epochs |->
               [conn[f] EXCEPT
                  !.out = IF f # reg.epoch THEN conn[f].out
                          ELSE IF conn[f].link THEN Append(conn[f].out, c) ELSE <<>>,
                  !.clean = IF f # e THEN conn[f].clean
                            ELSE [conn[e].clean EXCEPT ![w] = 0]]]
       \/ /\ ~CanSend(w) /\ reg.epoch # 0
          /\ conn' = [conn EXCEPT ![e].clean = NoFences]
          /\ UNCHANGED reg
       \/ /\ reg.epoch = 0
          /\ conn' = [conn EXCEPT ![e].pc = "error"]
          /\ UNCHANGED reg
  /\ UNCHANGED <<node, row, caller, due, kick, agent, faults>>

CompleteInventory(e) ==
  /\ conn[e].srv = "Up" /\ conn[e].pc = "clean" /\ conn[e].clean = NoFences
  /\ IF reg.epoch = e
     THEN /\ reg' = [reg EXCEPT !.inv = FALSE]
          /\ conn' = [conn EXCEPT ![e].pc = "read"]
     ELSE /\ conn' = [conn EXCEPT ![e].pc = "error"]
          /\ UNCHANGED reg
  /\ UNCHANGED <<node, row, caller, due, kick, agent, faults>>

\* A server restart drops every connection and every request in progress.
RestartServer ==
  /\ Fault("server")
  /\ reg' = NoSession
  /\ conn' = [e \in Epochs |->
                IF conn[e].srv = "None" THEN conn[e] ELSE [NoConn EXCEPT !.srv = "Closed"]]
  /\ due' = [w \in Workloads |-> NoCmd]
  /\ kick' = FALSE
  /\ caller' = [w \in Workloads |->
                  IF caller[w] = "Waiting" THEN "Ended" ELSE caller[w]]
  /\ UNCHANGED <<node, row, agent>>

---------------------------------------------------------------------------

Workload(w) ==
  \/ Place(w) \/ WaitReady(w) \/ WaitFails(w)
  \/ Rollout(w) \/ Destroy(w) \/ FenceOrphan(w) \/ DeleteTerminal(w)

Session(e) ==
  \/ Register(e) \/ EndSession(e) \/ LoseLink(e)
  \/ Heartbeat(e)

Reconciler ==
  \/ ExpireSessions \/ Disconnect \/ ListDue \/ RequestInventory
  \/ \E w \in Workloads : SendDue(w) \/ CommandDeadline(w)

ReadLoop(e) ==
  \/ ReceiveFeedback(e) \/ ReceivePage(e) \/ ListAssigned(e)
  \/ RecordSnapshot(e) \/ CompleteInventory(e)
  \/ \E w \in Workloads : SendCleanup(e, w)

Agent ==
  \/ \E e \in Epochs : Dispatch(e)
  \/ \E w \in Workloads :
       \/ CreateContainers(w) \/ RemoveContainers(w)
       \/ DockerError(w) \/ FinishOperation(w) \/ LateCreate(w)
  \/ TakeInventory \/ SendInventory \/ RestartAgent

Next ==
  \/ \E w \in Workloads : Workload(w)
  \/ OpenSession \/ LeaseRunsOut \/ Disable \/ RestartServer
  \/ \E state \in AdminStates : SetState(state)
  \/ \E e \in Epochs : Session(e) \/ ReadLoop(e)
  \/ Reconciler
  \/ Agent

Spec == Init /\ [][Next]_vars

\* Fair: the loops of the server and the agent, the agent's reconnection, the
\* maintenance scans and the deadlines.  Not fair: users, operators, faults,
\* and a creation left in the Docker daemon.
FairSpec ==
  /\ Spec
  /\ WF_vars(OpenSession) /\ WF_vars(ExpireSessions) /\ WF_vars(Disconnect)
  /\ WF_vars(ListDue) /\ WF_vars(RequestInventory)
  /\ WF_vars(TakeInventory) /\ SF_vars(SendInventory)
  /\ \A w \in Workloads :
       /\ WF_vars(FenceOrphan(w)) /\ WF_vars(SendDue(w))
       /\ WF_vars(CommandDeadline(w))
       /\ WF_vars(CreateContainers(w)) /\ WF_vars(RemoveContainers(w))
       /\ SF_vars(FinishOperation(w))
  /\ \A e \in Epochs :
       /\ WF_vars(Register(e)) /\ WF_vars(EndSession(e))
       /\ WF_vars(Dispatch(e)) /\ WF_vars(ReadLoop(e))

---------------------------------------------------------------------------

\* Properties.

Commands == [k : {"None", "Present", "Absent", "Inventory"},
             w : Workloads \cup {"None"}, g : Nat]
Inventories == [Workloads -> SUBSET Nat]
Replies == [k : {"Busy", "Done", "Failed", "Page"}, c : Commands, items : Inventories]
Observations == {"Unknown", "Ready", "Absent", "Failed", "Lost"}

\* Types of all the state, and the bounds of both control queues: whatever is
\* resent, answered or redelivered, no queue of a session grows past its cap.
TypeOK ==
  /\ node \in [admin : {"Enabled", "Draining", "Disabled"}, open : BOOLEAN,
               epoch : Nat, lease : BOOLEAN]
  /\ row \in [Workloads -> [desired : {"None", "Present", "Absent", "Deleted"},
                            gen : Nat, observed : Observations, epoch : Nat]]
  /\ caller \in [Workloads -> {"Idle", "Waiting", "Booked", "Ended"}]
  /\ reg \in [epoch : 0 .. MaxEpoch, cmd : [Workloads -> Commands], inv : BOOLEAN]
  /\ conn \in [Epochs ->
       [srv : {"None", "Opened", "Up", "Closed"}, link : BOOLEAN,
        out : Seq(Commands), in : Seq(Replies),
        pc : {"read", "list", "record", "clean", "error"}, items : Inventories,
        stat : [Workloads -> [g : Nat, s : Observations \cup {"None"}]],
        clean : [Workloads -> Nat]]]
  /\ due \in [Workloads -> Commands]
  /\ kick \in BOOLEAN
  /\ op \in [Workloads -> [k : {"None", "Present", "Absent"}, g : Nat, e : Nat,
                           pc : {"None", "create", "remove", "done", "failed"}]]
  /\ inv \in [pc : {"None", "asked", "taken"}, e : Nat, items : Inventories]
  /\ docker \in Inventories
  /\ ran \in Inventories
  /\ tomb \in [Workloads -> Nat]
  /\ late \in [Workloads -> Nat]
  /\ faults \in Nat
  /\ \A e \in Epochs :
       Len(conn[e].out) <= QueueCap /\ Len(conn[e].in) <= QueueCap

\* What the store calls Ready was reported through the session that is open
\* now, and is wanted: a report that outlives its session, its generation or a
\* withdrawal never shows through record_workload_status and its batch form.
ReadyBelongsToOpenSession ==
  \A w \in Workloads : row[w].desired # "Deleted" /\ row[w].observed = "Ready" =>
    /\ row[w].desired = "Present"
    /\ node.open /\ row[w].epoch = node.epoch

\* What the store calls Ready ran: a report, a lost session, a restart or an
\* inventory taken before a rollout never makes a generation Ready that had no
\* containers.  That they are still there is more than record_workload_status
\* promises: a late creation of an older generation makes the agent build the
\* workload again, and that may fail.
ReadyWorkloadRan ==
  \A w \in Workloads : row[w].observed = "Ready" => row[w].gen \in ran[w]

\* A removed generation never comes back: no retry, duplicate or delayed
\* EnsureWorkload creates a container at or below the tombstone.  Only a
\* creation that a dead agent left in the Docker daemon can.
NoResurrection ==
  [][\A w \in Workloads : \A g \in docker'[w] \ docker[w] :
       g > tomb[w] \/ g = late[w]]_vars

\* A generation that the store wants was never removed as stale: docs/deploy/
\* workers.md says that workloads continue running during a temporary
\* disconnect and that delayed commands cannot delete a replacement.
WantedWorkloadKeepsRunning ==
  \A w \in Workloads : row[w].desired = "Present" => tomb[w] < row[w].gen

\* Once its request is over, no container of a workload stays behind for good,
\* provided the operator does not leave the node disabled: the reconciler, the
\* orphan fence and the inventory remove it after any crash, lost answer or
\* Docker error.
NoLeakedWorkload ==
  \A w \in Workloads :
    (caller[w] = "Ended" /\ []<>(node.admin # "Disabled")) ~> [](docker[w] = {})
=============================================================================
