---------------------------- MODULE SingleFlight ----------------------------
(***************************************************************************)
(* Request coalescing (utils/single_flight.rs, SingleFlight).              *)
(*                                                                         *)
(* Callers that ask for the same key join one detached recompute.  The map *)
(* from keys to broadcast senders is read and written only under its       *)
(* mutex, so each critical section is one action; the leader's computation,*)
(* its removal of the map entry, its publication and the receivers' wakeups*)
(* are separate actions, and callers, cancellations and panics fall        *)
(* between them.                                                           *)
(*                                                                         *)
(* A flight stands for a spawned leader task together with its one-slot    *)
(* broadcast channel; its identity also stands for the value it computes.  *)
(* Flight identities are recycled once nothing refers to them any more.    *)
(***************************************************************************)
EXTENDS Integers, FiniteSets

CONSTANTS
  Callers,    \* tasks that call run_with_limit
  Keys,       \* single-flight keys
  Flights,    \* identities of leader tasks and their channels
  KeyLimit,   \* max_distinct_keys
  NoFlight,   \* no map entry
  Nothing,    \* a receiver that no value has been sent to
  Default     \* T::default()

ASSUME LimitAssumption == KeyLimit \in Nat

ASSUME NullAssumption ==
  /\ NoFlight \notin Flights
  /\ Nothing \notin Flights
  /\ Default \notin Flights
  /\ Nothing # Default

ASSUME FiniteAssumption == IsFiniteSet(Keys)

VARIABLES
  inflight,   \* [Keys -> sender in the map or NoFlight]
  task,       \* [Flights -> state of the leader task]
  keyOf,      \* [Flights -> key the leader runs for]
  armed,      \* [Flights -> the leader's Cleanup guard is armed]
  value,      \* [Flights -> value the leader has in hand]
  taken,      \* [Flights -> sender the leader removed from the map]
  open,       \* [Flights -> the channel still has its sender]
  caller      \* [Callers -> state, flight subscribed to, value received]

vars == <<inflight, task, keyOf, armed, value, taken, open, caller>>

leaderVars == <<keyOf, armed, value, taken>>

Idle == [at |-> "idle", flight |-> NoFlight, got |-> Nothing]

\* Types of the map, the leader tasks and the callers.
TypeOK ==
  /\ inflight \in [Keys -> Flights \cup {NoFlight}]
  /\ task \in [Flights -> {"running", "finished", "publishing", "ended"}]
  /\ keyOf \in [Flights -> Keys]
  /\ armed \in [Flights -> BOOLEAN]
  /\ value \in [Flights -> Flights \cup {Nothing, Default}]
  /\ taken \in [Flights -> Flights \cup {NoFlight}]
  /\ open \in [Flights -> BOOLEAN]
  /\ caller \in [Callers -> {Idle} \cup [at : {"waiting"}, flight : Flights,
                                        got : Flights \cup {Nothing, Default}]]

Init ==
  /\ inflight = [k \in Keys |-> NoFlight]
  /\ task = [f \in Flights |-> "ended"]
  /\ keyOf \in [Flights -> Keys]
  /\ armed = [f \in Flights |-> FALSE]
  /\ value = [f \in Flights |-> Nothing]
  /\ taken = [f \in Flights |-> NoFlight]
  /\ open = [f \in Flights |-> FALSE]
  /\ caller = [c \in Callers |-> Idle]

(***************************************************************************)
(* Callers.                                                                *)
(***************************************************************************)
ActiveKeys == {k \in Keys : inflight[k] # NoFlight}

LimitReached == Cardinality(ActiveKeys) >= KeyLimit

\* No task, map entry or receiver refers to f: it can name a new flight.
Unused(f) ==
  /\ task[f] = "ended"
  /\ \A c \in Callers : caller[c].flight # f

Subscribed(c, f) ==
  [caller EXCEPT ![c] = [at |-> "waiting", flight |-> f, got |-> Nothing]]

\* A flight of the key is in the map: subscribe to it.
Follow(c, k) ==
  /\ caller[c].at = "idle"
  /\ inflight[k] # NoFlight
  /\ caller' = Subscribed(c, inflight[k])
  /\ UNCHANGED <<inflight, task, leaderVars, open>>

\* A new key at the ceiling is answered with the default.
Reject(c, k) ==
  /\ caller[c].at = "idle"
  /\ inflight[k] = NoFlight
  /\ LimitReached
  /\ UNCHANGED vars

\* Mutant: the map is unlocked between the lookup and the insertion.
Lead_Unlocked(c, k, f) ==
  /\ caller[c].at = "idle"
  /\ Unused(f)
  /\ inflight' = [inflight EXCEPT ![k] = f]
  /\ caller' = Subscribed(c, f)
  /\ task' = [task EXCEPT ![f] = "running"]
  /\ keyOf' = [keyOf EXCEPT ![f] = k]
  /\ armed' = [armed EXCEPT ![f] = TRUE]
  /\ value' = [value EXCEPT ![f] = Nothing]
  /\ open' = [open EXCEPT ![f] = TRUE]
  /\ UNCHANGED taken

\* No flight of the key: insert a channel, subscribe and spawn the leader,
\* which arms its Cleanup guard before it calls the computation.
Lead(c, k, f) ==
  /\ caller[c].at = "idle"
  /\ inflight[k] = NoFlight
  /\ ~LimitReached
  /\ Unused(f)
  /\ inflight' = [inflight EXCEPT ![k] = f]
  /\ caller' = Subscribed(c, f)
  /\ task' = [task EXCEPT ![f] = "running"]
  /\ keyOf' = [keyOf EXCEPT ![f] = k]
  /\ armed' = [armed EXCEPT ![f] = TRUE]
  /\ value' = [value EXCEPT ![f] = Nothing]
  /\ open' = [open EXCEPT ![f] = TRUE]
  /\ UNCHANGED taken

\* What recv() returns: the value sent to this receiver, or, the channel
\* being closed without one, the default.
Received(c) == IF caller[c].got = Nothing THEN Default ELSE caller[c].got

\* recv() is ready.
Return(c) ==
  /\ caller[c].at = "waiting"
  /\ caller[c].got # Nothing \/ ~open[caller[c].flight]
  /\ caller' = [caller EXCEPT ![c] = Idle]
  /\ UNCHANGED <<inflight, task, leaderVars, open>>

\* The caller's request is dropped; the leader task is detached and goes on.
Cancel(c) ==
  /\ caller[c].at = "waiting"
  /\ caller' = [caller EXCEPT ![c] = Idle]
  /\ UNCHANGED <<inflight, task, leaderVars, open>>

(***************************************************************************)
(* Leader tasks.                                                           *)
(***************************************************************************)
\* The computation returns within the timeout.
Compute(f) ==
  /\ task[f] = "running"
  /\ task' = [task EXCEPT ![f] = "finished"]
  /\ value' = [value EXCEPT ![f] = f]
  /\ UNCHANGED <<inflight, keyOf, armed, taken, open, caller>>

\* tokio::time::timeout drops the computation: the value is the default.
TimeOut(f) ==
  /\ task[f] = "running"
  /\ task' = [task EXCEPT ![f] = "finished"]
  /\ value' = [value EXCEPT ![f] = Default]
  /\ UNCHANGED <<inflight, keyOf, armed, taken, open, caller>>

\* Dropping the guard removes whatever sender the map holds under the key;
\* the last sender of a channel dropped, the channel is closed.
DropCleanup(f, channels) ==
  IF armed[f]
  THEN /\ inflight' = [inflight EXCEPT ![keyOf[f]] = NoFlight]
       /\ open' = [g \in Flights |->
                     channels[g] /\ g # inflight[keyOf[f]]]
       /\ armed' = [armed EXCEPT ![f] = FALSE]
  ELSE /\ open' = channels
       /\ UNCHANGED <<inflight, armed>>

\* Mutant: no guard removes the entry of a leader that panics.
Panic_Unguarded(f) ==
  /\ task[f] = "running"
  /\ task' = [task EXCEPT ![f] = "ended"]
  /\ value' = [value EXCEPT ![f] = Default]
  /\ UNCHANGED <<inflight, armed, open, keyOf, taken, caller>>

\* The computation panics; unwinding drops the guard.
Panic(f) ==
  /\ task[f] = "running"
  /\ task' = [task EXCEPT ![f] = "ended"]
  /\ value' = [value EXCEPT ![f] = Default]
  /\ DropCleanup(f, open)
  /\ UNCHANGED <<keyOf, taken, caller>>

\* Mutant: the guard is not disarmed while the map is locked.
Remove_StillArmed(f) ==
  /\ task[f] = "finished"
  /\ task' = [task EXCEPT ![f] = "publishing"]
  /\ taken' = [taken EXCEPT ![f] = inflight[keyOf[f]]]
  /\ inflight' = [inflight EXCEPT ![keyOf[f]] = NoFlight]
  /\ UNCHANGED <<armed, keyOf, value, open, caller>>

\* Under the map's lock: take the sender out and disarm the guard.
Remove(f) ==
  /\ task[f] = "finished"
  /\ task' = [task EXCEPT ![f] = "publishing"]
  /\ taken' = [taken EXCEPT ![f] = inflight[keyOf[f]]]
  /\ inflight' = [inflight EXCEPT ![keyOf[f]] = NoFlight]
  /\ armed' = [armed EXCEPT ![f] = FALSE]
  /\ UNCHANGED <<keyOf, value, open, caller>>

\* The send reaches every receiver of the channel that exists now.
Sent(f) ==
  [c \in Callers |->
     IF caller[c].at = "waiting" /\ caller[c].flight = taken[f]
     THEN [caller[c] EXCEPT !.got = value[f]]
     ELSE caller[c]]

\* Send on the sender taken from the map, drop it, and drop the guard.
Publish(f) ==
  /\ task[f] = "publishing"
  /\ task' = [task EXCEPT ![f] = "ended"]
  /\ caller' = Sent(f)
  /\ taken' = [taken EXCEPT ![f] = NoFlight]
  /\ DropCleanup(f, [g \in Flights |-> open[g] /\ g # taken[f]])
  /\ UNCHANGED <<keyOf, value>>

-----------------------------------------------------------------------------
Next ==
  \/ \E c \in Callers, k \in Keys :
       \/ Follow(c, k)
       \/ Reject(c, k)
       \/ \E f \in Flights : Lead(c, k, f)
  \/ \E c \in Callers : Return(c) \/ Cancel(c)
  \/ \E f \in Flights :
       Compute(f) \/ TimeOut(f) \/ Panic(f) \/ Remove(f) \/ Publish(f)

Spec == Init /\ [][Next]_vars

\* Tasks are scheduled; a computation that neither returns nor panics is
\* ended by the timeout.
Fairness ==
  /\ \A c \in Callers : WF_vars(Return(c))
  /\ \A f \in Flights :
       /\ WF_vars(Compute(f) \/ TimeOut(f) \/ Panic(f))
       /\ WF_vars(Remove(f))
       /\ WF_vars(Publish(f))

FairSpec == Spec /\ Fairness

-----------------------------------------------------------------------------
(***************************************************************************)
(* Properties.                                                             *)
(***************************************************************************)
Running(f) == task[f] \in {"running", "finished"}

\* At most one recompute per key is under way, whatever callers are
\* cancelled and whichever earlier leader panicked or is still publishing:
\* the thundering herd the module exists to suppress cannot form.
OneFlightPerKey ==
  \A f, g \in Flights :
    Running(f) /\ Running(g) /\ keyOf[f] = keyOf[g] => f = g

\* The map never holds more keys than the caller's ceiling.
KeysWithinLimit == Cardinality(ActiveKeys) <= KeyLimit

\* A receiver whose channel is closed holds the outcome of its own flight:
\* the computed value, or the default if the flight timed out or panicked.
\* No caller subscribes too late for the one-slot broadcast and none loses
\* its sender to another leader's cleanup.
CallersShareTheOutcome ==
  \A c \in Callers :
    caller[c].at = "waiting" /\ ~open[caller[c].flight] =>
      /\ task[caller[c].flight] = "ended"
      /\ Received(c) = value[caller[c].flight]

\* Every call ends: followers of a leader whose computation hangs or panics
\* are released too.
EveryCallReturns ==
  \A c \in Callers : caller[c].at = "waiting" ~> caller[c].at = "idle"

=============================================================================
