---------------------------- MODULE CoalesceLock ----------------------------
(***************************************************************************)
(* The per-key process-local lock (utils/single_flight.rs, coalesce and    *)
(* try_coalesce).                                                          *)
(*                                                                         *)
(* A global map holds weak references to the mutex of each key; a mutex    *)
(* lives as long as some caller waits for it, holds it or has just looked  *)
(* it up.  The lookup runs under the map's own lock and is one action; the *)
(* acquisition follows as a second one.  The mutex is tokio's: it is       *)
(* handed to its waiters in order, and never free while one is queued.     *)
(***************************************************************************)
EXTENDS Integers, Sequences, FiniteSets

CONSTANTS
  Callers,
  Keys,
  Locks,            \* identities of mutexes, recycled once unreferenced
  MaxCoalesceKeys,  \* entries from which a lookup sweeps first
  NoLock,           \* no entry, or no mutex in hand
  NoCaller,         \* the mutex is free
  NoKey

ASSUME CapAssumption == MaxCoalesceKeys \in Nat

ASSUME CoalesceNullAssumption ==
  NoLock \notin Locks /\ NoCaller \notin Callers /\ NoKey \notin Keys

VARIABLES
  registry,   \* COALESCE_FLIGHTS: [Keys -> weak reference or NoLock]
  holder,     \* [Locks -> Callers or NoCaller]
  queue,      \* [Locks -> sequence of waiting callers]
  caller      \* [Callers -> where it is, the key and the mutex in hand]

vars == <<registry, holder, queue, caller>>

Away == [at |-> "away", key |-> NoKey, lock |-> NoLock]

\* Types of the map, the mutexes and the callers.
TypeOK ==
  /\ registry \in [Keys -> Locks \cup {NoLock}]
  /\ holder \in [Locks -> Callers \cup {NoCaller}]
  /\ queue \in [Locks -> Seq(Callers)]
  /\ caller \in [Callers -> {Away} \cup [at : {"found", "queued", "holding"},
                                         key : Keys, lock : Locks]]

Init ==
  /\ registry = [k \in Keys |-> NoLock]
  /\ holder = [l \in Locks |-> NoCaller]
  /\ queue = [l \in Locks |-> <<>>]
  /\ caller = [c \in Callers |-> Away]

(***************************************************************************)
(* coalesce_lock.                                                          *)
(***************************************************************************)
\* strong_count() > 0.
Alive(l) == \E c \in Callers : caller[c].lock = l

Entries == {k \in Keys : registry[k] # NoLock}

\* Mutant: the sweep drops every entry.
Swept_Active ==
  [k \in Keys |->
     IF Cardinality(Entries) >= MaxCoalesceKeys THEN NoLock ELSE registry[k]]

\* At the cap, the entries whose mutex nobody refers to are dropped.
Swept ==
  [k \in Keys |->
     IF Cardinality(Entries) >= MaxCoalesceKeys /\ ~Alive(registry[k])
     THEN NoLock ELSE registry[k]]

Move(c, at, k, l) ==
  caller' = [caller EXCEPT ![c] = [at |-> at, key |-> k, lock |-> l]]

\* upgrade() finds the key's mutex alive.
Find(c, k) ==
  /\ caller[c] = Away
  /\ Swept[k] # NoLock /\ Alive(Swept[k])
  /\ registry' = Swept
  /\ Move(c, "found", k, Swept[k])
  /\ UNCHANGED <<holder, queue>>

\* No live mutex: a new one replaces the entry.
Create(c, k, l) ==
  /\ caller[c] = Away
  /\ Swept[k] = NoLock \/ ~Alive(Swept[k])
  /\ ~Alive(l) /\ \A j \in Keys : registry[j] # l
  /\ registry' = [Swept EXCEPT ![k] = l]
  /\ Move(c, "found", k, l)
  /\ UNCHANGED <<holder, queue>>

(***************************************************************************)
(* lock_owned, try_lock_owned and the guard.                               *)
(***************************************************************************)
\* The mutex is free: coalesce and try_coalesce take it.
Acquire(c) ==
  LET l == caller[c].lock IN
  /\ caller[c].at = "found"
  /\ holder[l] = NoCaller
  /\ holder' = [holder EXCEPT ![l] = c]
  /\ Move(c, "holding", caller[c].key, l)
  /\ UNCHANGED <<registry, queue>>

\* coalesce waits behind the holder and the callers queued before.
Wait(c) ==
  LET l == caller[c].lock IN
  /\ caller[c].at = "found"
  /\ holder[l] # NoCaller
  /\ queue' = [queue EXCEPT ![l] = Append(queue[l], c)]
  /\ Move(c, "queued", caller[c].key, l)
  /\ UNCHANGED <<registry, holder>>

\* try_coalesce gives up at once.
GiveUp(c) ==
  /\ caller[c].at = "found"
  /\ holder[caller[c].lock] # NoCaller
  /\ caller' = [caller EXCEPT ![c] = Away]
  /\ UNCHANGED <<registry, holder, queue>>

\* Mutant: a waiting caller is not woken.
Release_Unnotified(c) ==
  LET l == caller[c].lock IN
  /\ caller[c].at = "holding"
  /\ caller' = [caller EXCEPT ![c] = Away]
  /\ holder' = [holder EXCEPT ![l] = NoCaller]
  /\ UNCHANGED <<registry, queue>>

\* The guard is dropped; the mutex goes to the caller that waited longest.
\* A woken caller whose future is dropped passes the mutex on the same way.
Release(c) ==
  LET l == caller[c].lock IN
  /\ caller[c].at = "holding"
  /\ IF queue[l] = <<>>
     THEN /\ holder' = [holder EXCEPT ![l] = NoCaller]
          /\ caller' = [caller EXCEPT ![c] = Away]
          /\ UNCHANGED queue
     ELSE /\ holder' = [holder EXCEPT ![l] = Head(queue[l])]
          /\ queue' = [queue EXCEPT ![l] = Tail(queue[l])]
          /\ caller' = [caller EXCEPT ![c] = Away,
                                      ![Head(queue[l])].at = "holding"]
  /\ UNCHANGED registry

\* s without its i-th element.
Without(s, i) == [n \in 1..(Len(s) - 1) |-> IF n < i THEN s[n] ELSE s[n + 1]]

\* The future of a waiting caller is dropped.
Cancel(c) ==
  LET l == caller[c].lock IN
  /\ caller[c].at = "queued"
  /\ \E i \in 1..Len(queue[l]) :
       /\ queue[l][i] = c
       /\ queue' = [queue EXCEPT ![l] = Without(queue[l], i)]
  /\ caller' = [caller EXCEPT ![c] = Away]
  /\ UNCHANGED <<registry, holder>>

-----------------------------------------------------------------------------
Next ==
  \E c \in Callers :
    \/ \E k \in Keys : Find(c, k) \/ \E l \in Locks : Create(c, k, l)
    \/ Acquire(c) \/ Wait(c) \/ GiveUp(c) \/ Release(c) \/ Cancel(c)

Spec == Init /\ [][Next]_vars

\* A caller that found a mutex goes on, and guards are dropped in the end.
Fairness ==
  \A c \in Callers :
    /\ WF_vars(Acquire(c) \/ Wait(c) \/ GiveUp(c))
    /\ WF_vars(Release(c))

FairSpec == Spec /\ Fairness

-----------------------------------------------------------------------------
(***************************************************************************)
(* Properties.                                                             *)
(***************************************************************************)
\* Two callers never hold guards of one key, also when the map was swept or
\* the key's mutex died and was replaced between their lookups.
ExclusivePerKey ==
  \A c, d \in Callers :
    /\ caller[c].at = "holding" /\ caller[d].at = "holding"
    /\ caller[c].key = caller[d].key
    => c = d

\* An insertion leaves the map above the cap only if every entry is in use:
\* dead keys do not accumulate however many distinct keys are asked for.
OnlyLiveKeysAboveCap ==
  [][Entries' # Entries /\ Cardinality(Entries') > MaxCoalesceKeys =>
       \A k \in Entries' : Alive(registry[k])']_vars

\* Nobody waits for a mutex that nobody holds.
NoAbandonedWaiter ==
  \A c \in Callers :
    caller[c].at = "queued" =>
      \E d \in Callers : caller[d].at = "holding" /\ caller[d].lock = caller[c].lock

\* A waiting caller gets its guard or is dropped by its own request.
EveryWaiterServed ==
  \A c \in Callers : caller[c].at = "queued" ~> caller[c].at # "queued"

=============================================================================
