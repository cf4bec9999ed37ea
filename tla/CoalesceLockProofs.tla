------------------------- MODULE CoalesceLockProofs -------------------------
(***************************************************************************)
(* Mutual exclusion of the coalescing locks for any callers, keys and cap. *)
(* A mutex in anybody's hand is the one registered under its key, so two   *)
(* callers of one key compete for one mutex; the rest is its bookkeeping.  *)
(***************************************************************************)
EXTENDS CoalesceLock, FiniteSetTheorems, TLAPS

\* A mutex in use is registered under the key it was looked up for.
RegisteredWhileAlive ==
  \A c \in Callers : caller[c] # Away => registry[caller[c].key] = caller[c].lock

\* A mutex names as its holder exactly the caller that holds it.
HolderHolds ==
  /\ \A c \in Callers : caller[c].at = "holding" => holder[caller[c].lock] = c
  /\ \A l \in Locks : holder[l] # NoCaller =>
       caller[holder[l]].at = "holding" /\ caller[holder[l]].lock = l

\* The callers in a mutex's queue wait for that mutex, each in one place.
QueueWaits ==
  \A l \in Locks :
    /\ \A i \in 1..Len(queue[l]) :
         caller[queue[l][i]].at = "queued" /\ caller[queue[l][i]].lock = l
    /\ \A i, j \in 1..Len(queue[l]) : queue[l][i] = queue[l][j] => i = j

\* A mutex with waiters is held.
WaitersBehindHolder ==
  \A c \in Callers : caller[c].at = "queued" => holder[caller[c].lock] # NoCaller

\* Waiting callers are in the queue.
WaiterQueued ==
  \A c \in Callers : caller[c].at = "queued" =>
    \E i \in 1..Len(queue[caller[c].lock]) : queue[caller[c].lock][i] = c

Bookkeeping ==
  /\ RegisteredWhileAlive /\ HolderHolds /\ QueueWaits
  /\ WaitersBehindHolder /\ WaiterQueued

IndInv == TypeOK /\ Bookkeeping

LEMMA InitInd == Init => IndInv
<1> SUFFICES ASSUME Init PROVE IndInv OBVIOUS
<1>1. TypeOK BY DEF Init, TypeOK
<1>2. Bookkeeping
  BY DEF Init, Bookkeeping, RegisteredWhileAlive, HolderHolds, QueueWaits,
     WaitersBehindHolder, WaiterQueued, Away
<1> QED BY <1>1, <1>2 DEF IndInv

\* What looking up a mutex does to the rest: it only adds a caller that has
\* found l under k, and forgets entries that nobody uses.
LEMMA LookupInd ==
  ASSUME IndInv, NEW c \in Callers, NEW k \in Keys, NEW l \in Locks,
         caller[c] = Away, Move(c, "found", k, l), registry'[k] = l,
         registry' \in [Keys -> Locks \cup {NoLock}],
         \A d \in Callers : caller[d] # Away =>
            registry'[caller[d].key] = caller[d].lock,
         UNCHANGED <<holder, queue>>
  PROVE  IndInv'
<1>1. TypeOK'
  <2>1. [at |-> "found", key |-> k, lock |-> l] \in
          [at : {"found", "queued", "holding"}, key : Keys, lock : Locks]
    OBVIOUS
  <2>2. caller' \in [Callers -> {Away} \cup
                       [at : {"found", "queued", "holding"},
                        key : Keys, lock : Locks]]
    BY <2>1 DEF IndInv, TypeOK, Move
  <2> QED BY <2>2 DEF IndInv, TypeOK
<1>3. /\ caller'[c] = [at |-> "found", key |-> k, lock |-> l]
      /\ \A d \in Callers \ {c} : caller'[d] = caller[d]
  BY DEF IndInv, TypeOK, Move
<1>5. RegisteredWhileAlive' BY <1>3 DEF RegisteredWhileAlive
<1>6. HolderHolds'
  <2>1. ASSUME NEW d \in Callers, caller'[d].at = "holding"
        PROVE  holder[caller'[d].lock] = d
    BY <2>1, <1>3 DEF IndInv, Bookkeeping, HolderHolds
  <2>2. ASSUME NEW m \in Locks, holder[m] # NoCaller
        PROVE  caller'[holder[m]].at = "holding" /\ caller'[holder[m]].lock = m
    <3>1. holder[m] \in Callers BY <2>2 DEF IndInv, TypeOK
    <3>2. caller[holder[m]].at = "holding" /\ caller[holder[m]].lock = m
      BY <2>2 DEF IndInv, Bookkeeping, HolderHolds
    <3>3. holder[m] # c BY <3>2 DEF Away
    <3> QED BY <3>1, <3>2, <3>3, <1>3
  <2> QED BY <2>1, <2>2 DEF HolderHolds
<1>7. QueueWaits'
  <2> SUFFICES ASSUME NEW m \in Locks
               PROVE  /\ \A i \in 1..Len(queue[m]) :
                           /\ caller'[queue[m][i]].at = "queued"
                           /\ caller'[queue[m][i]].lock = m
                      /\ \A i, j \in 1..Len(queue[m]) :
                           queue[m][i] = queue[m][j] => i = j
    BY DEF QueueWaits
  <2>1. ASSUME NEW i \in 1..Len(queue[m])
        PROVE  /\ caller'[queue[m][i]].at = "queued"
               /\ caller'[queue[m][i]].lock = m
    <3>1. queue[m][i] \in Callers BY DEF IndInv, TypeOK
    <3>2. caller[queue[m][i]].at = "queued" /\ caller[queue[m][i]].lock = m
      BY DEF IndInv, Bookkeeping, QueueWaits
    <3>3. queue[m][i] # c BY <3>2 DEF Away
    <3> QED BY <3>1, <3>2, <3>3, <1>3
  <2> QED BY <2>1 DEF IndInv, Bookkeeping, QueueWaits
<1>8. WaitersBehindHolder'
  BY <1>3 DEF IndInv, Bookkeeping, WaitersBehindHolder
<1>9. WaiterQueued' BY <1>3 DEF IndInv, Bookkeeping, WaiterQueued
<1> QED BY <1>1, <1>5, <1>6, <1>7, <1>8, <1>9 DEF IndInv, Bookkeeping

LEMMA SweepKeepsUsed ==
  ASSUME IndInv
  PROVE  /\ Swept \in [Keys -> Locks \cup {NoLock}]
         /\ \A d \in Callers : caller[d] # Away =>
              Swept[caller[d].key] = caller[d].lock
<1>1. Swept \in [Keys -> Locks \cup {NoLock}] BY DEF Swept, IndInv, TypeOK
<1>2. ASSUME NEW d \in Callers, caller[d] # Away
      PROVE  Swept[caller[d].key] = caller[d].lock
  <2>1. caller[d].key \in Keys BY <1>2 DEF IndInv, TypeOK
  <2>2. registry[caller[d].key] = caller[d].lock
    BY <1>2 DEF IndInv, Bookkeeping, RegisteredWhileAlive
  <2>3. Alive(registry[caller[d].key]) BY <2>2 DEF Alive
  <2> QED BY <2>1, <2>2, <2>3 DEF Swept
<1> QED BY <1>1, <1>2

LEMMA FindInd ==
  ASSUME IndInv, NEW c \in Callers, NEW k \in Keys, Find(c, k)
  PROVE  IndInv'
<1>1. Swept[k] \in Locks BY SweepKeepsUsed DEF Find
<1>2. /\ registry' = Swept
      /\ caller[c] = Away /\ Move(c, "found", k, Swept[k])
      /\ UNCHANGED <<holder, queue>>
  BY DEF Find
<1> QED BY <1>1, <1>2, SweepKeepsUsed, LookupInd

LEMMA CreateInd ==
  ASSUME IndInv, NEW c \in Callers, NEW k \in Keys, NEW l \in Locks,
         Create(c, k, l)
  PROVE  IndInv'
<1> DEFINE R == [Swept EXCEPT ![k] = l]
<1>1. R \in [Keys -> Locks \cup {NoLock}] /\ R[k] = l
  BY SweepKeepsUsed
<1>2. ASSUME NEW d \in Callers, caller[d] # Away
      PROVE  R[caller[d].key] = caller[d].lock
  <2>1. caller[d].lock \in Locks /\ caller[d].key \in Keys
    BY <1>2 DEF IndInv, TypeOK
  <2>2. Swept[caller[d].key] = caller[d].lock BY <1>2, SweepKeepsUsed
  <2>3. caller[d].key # k
    BY <2>1, <2>2, CoalesceNullAssumption DEF Create, Alive
  <2> QED BY <2>1, <2>2, <2>3, SweepKeepsUsed
<1>3. /\ registry' = R
      /\ caller[c] = Away /\ Move(c, "found", k, l)
      /\ UNCHANGED <<holder, queue>>
  BY DEF Create
<1> HIDE DEF R
<1> QED BY <1>1, <1>2, <1>3, LookupInd

LEMMA AcquireInd ==
  ASSUME IndInv, NEW c \in Callers, Acquire(c)
  PROVE  IndInv'
<1> DEFINE l == caller[c].lock
<1>1. /\ l \in Locks /\ caller[c].key \in Keys /\ caller[c].at = "found"
      /\ holder[l] = NoCaller
  BY DEF IndInv, TypeOK, Acquire, Away
<1>2. /\ caller'[c] = [at |-> "holding", key |-> caller[c].key, lock |-> l]
      /\ \A d \in Callers \ {c} : caller'[d] = caller[d]
      /\ holder' = [holder EXCEPT ![l] = c]
      /\ UNCHANGED <<registry, queue>>
  BY DEF IndInv, TypeOK, Acquire, Move
<1>3. TypeOK'
  <2>1. [at |-> "holding", key |-> caller[c].key, lock |-> l] \in
          [at : {"found", "queued", "holding"}, key : Keys, lock : Locks]
    BY <1>1
  <2>2. caller' \in [Callers -> {Away} \cup
                       [at : {"found", "queued", "holding"},
                        key : Keys, lock : Locks]]
    BY <2>1 DEF IndInv, TypeOK, Acquire, Move
  <2> QED BY <2>2, <1>1, <1>2 DEF IndInv, TypeOK
<1>4. RegisteredWhileAlive'
  BY <1>1, <1>2 DEF IndInv, Bookkeeping, RegisteredWhileAlive, Away
<1>5. HolderHolds'
  <2>0. holder'[l] = c /\ \A m \in Locks \ {l} : holder'[m] = holder[m]
    BY <1>1, <1>2 DEF IndInv, TypeOK
  <2>1. ASSUME NEW d \in Callers, caller'[d].at = "holding"
        PROVE  holder'[caller'[d].lock] = d
    <3>1. CASE d = c BY <3>1, <2>0, <1>2
    <3>2. CASE d # c
      <4>1. caller'[d] = caller[d] BY <3>2, <1>2
      <4>2. holder[caller[d].lock] = d /\ caller[d].lock \in Locks
        BY <4>1, <2>1 DEF IndInv, TypeOK, Bookkeeping, HolderHolds, Away
      <4>3. caller[d].lock # l BY <4>2, <1>1, CoalesceNullAssumption
      <4> QED BY <4>1, <4>2, <4>3, <2>0
    <3> QED BY <3>1, <3>2
  <2>2. ASSUME NEW m \in Locks, holder'[m] # NoCaller
        PROVE  caller'[holder'[m]].at = "holding" /\ caller'[holder'[m]].lock = m
    <3>1. CASE m = l BY <3>1, <2>0, <1>2
    <3>2. CASE m # l
      <4>1. holder'[m] = holder[m] /\ holder[m] \in Callers
        BY <3>2, <2>0, <2>2 DEF IndInv, TypeOK
      <4>2. caller[holder[m]].at = "holding" /\ caller[holder[m]].lock = m
        BY <4>1, <2>2 DEF IndInv, Bookkeeping, HolderHolds
      <4> QED BY <4>1, <4>2, <1>1, <1>2
    <3> QED BY <3>1, <3>2
  <2> QED BY <2>1, <2>2 DEF HolderHolds
<1>6. QueueWaits'
  <2>1. ASSUME NEW m \in Locks, NEW i \in 1..Len(queue[m])
        PROVE  /\ caller'[queue[m][i]].at = "queued"
               /\ caller'[queue[m][i]].lock = m
    <3>1. queue[m][i] \in Callers BY DEF IndInv, TypeOK
    <3>2. caller[queue[m][i]].at = "queued" /\ caller[queue[m][i]].lock = m
      BY DEF IndInv, Bookkeeping, QueueWaits
    <3> QED BY <3>1, <3>2, <1>1, <1>2
  <2> QED BY <2>1, <1>2 DEF IndInv, Bookkeeping, QueueWaits
<1>7. WaitersBehindHolder'
  BY <1>1, <1>2, CoalesceNullAssumption, SMTT(30)
  DEF IndInv, TypeOK, Bookkeeping, WaitersBehindHolder
<1>8. WaiterQueued' BY <1>1, <1>2 DEF IndInv, Bookkeeping, WaiterQueued
<1> QED BY <1>3, <1>4, <1>5, <1>6, <1>7, <1>8 DEF IndInv, Bookkeeping

LEMMA WaitInd ==
  ASSUME IndInv, NEW c \in Callers, Wait(c)
  PROVE  IndInv'
<1> DEFINE l == caller[c].lock
<1>1. /\ l \in Locks /\ caller[c].key \in Keys /\ caller[c].at = "found"
      /\ holder[l] # NoCaller /\ queue[l] \in Seq(Callers)
  BY DEF IndInv, TypeOK, Wait, Away
<1>2. /\ caller'[c] = [at |-> "queued", key |-> caller[c].key, lock |-> l]
      /\ \A d \in Callers \ {c} : caller'[d] = caller[d]
      /\ queue' = [queue EXCEPT ![l] = Append(queue[l], c)]
      /\ UNCHANGED <<registry, holder>>
  BY DEF IndInv, TypeOK, Wait, Move
<1>3. TypeOK'
  <2>1. [at |-> "queued", key |-> caller[c].key, lock |-> l] \in
          [at : {"found", "queued", "holding"}, key : Keys, lock : Locks]
    BY <1>1
  <2>2. caller' \in [Callers -> {Away} \cup
                       [at : {"found", "queued", "holding"},
                        key : Keys, lock : Locks]]
    BY <2>1 DEF IndInv, TypeOK, Wait, Move
  <2> QED BY <2>2, <1>1, <1>2 DEF IndInv, TypeOK
<1>4. RegisteredWhileAlive'
  BY <1>1, <1>2 DEF IndInv, Bookkeeping, RegisteredWhileAlive, Away
<1>5. HolderHolds'
  <2>1. ASSUME NEW d \in Callers, caller'[d].at = "holding"
        PROVE  holder[caller'[d].lock] = d
    BY <2>1, <1>2 DEF IndInv, Bookkeeping, HolderHolds
  <2>2. ASSUME NEW m \in Locks, holder[m] # NoCaller
        PROVE  caller'[holder[m]].at = "holding" /\ caller'[holder[m]].lock = m
    <3>1. holder[m] \in Callers BY <2>2 DEF IndInv, TypeOK
    <3>2. caller[holder[m]].at = "holding" /\ caller[holder[m]].lock = m
      BY <2>2 DEF IndInv, Bookkeeping, HolderHolds
    <3> QED BY <3>1, <3>2, <1>1, <1>2
  <2> QED BY <2>1, <2>2, <1>2 DEF HolderHolds
<1>6. QueueWaits'
  <2> SUFFICES ASSUME NEW m \in Locks
               PROVE  /\ \A i \in 1..Len(queue'[m]) :
                           /\ caller'[queue'[m][i]].at = "queued"
                           /\ caller'[queue'[m][i]].lock = m
                      /\ \A i, j \in 1..Len(queue'[m]) :
                           queue'[m][i] = queue'[m][j] => i = j
    BY DEF QueueWaits
  <2>0. queue[m] \in Seq(Callers) BY DEF IndInv, TypeOK
  <2>1. ASSUME NEW i \in 1..Len(queue[m])
        PROVE  /\ queue[m][i] \in Callers \ {c}
               /\ caller'[queue[m][i]].at = "queued"
               /\ caller'[queue[m][i]].lock = m
    <3>1. queue[m][i] \in Callers BY <2>0
    <3>2. caller[queue[m][i]].at = "queued" /\ caller[queue[m][i]].lock = m
      BY DEF IndInv, Bookkeeping, QueueWaits
    <3> QED BY <3>1, <3>2, <1>1, <1>2
  <2>2. \A i, j \in 1..Len(queue[m]) : queue[m][i] = queue[m][j] => i = j
    BY DEF IndInv, Bookkeeping, QueueWaits
  <2>3. CASE m # l
    <3>1. queue'[m] = queue[m] BY <2>3, <1>2 DEF IndInv, TypeOK
    <3> QED BY <3>1, <2>1, <2>2
  <2>4. CASE m = l
    <3>1. queue'[m] = Append(queue[m], c)
      BY <2>4, <1>1, <1>2 DEF IndInv, TypeOK
    <3>2. /\ Len(queue'[m]) = Len(queue[m]) + 1 /\ Len(queue[m]) \in Nat
          /\ \A i \in 1..Len(queue[m]) : queue'[m][i] = queue[m][i]
          /\ queue'[m][Len(queue[m]) + 1] = c
      BY <3>1, <2>0
    <3>3. \A i \in 1..Len(queue'[m]) :
            i \in 1..Len(queue[m]) \/ i = Len(queue[m]) + 1
      BY <3>2
    <3> QED BY <3>2, <3>3, <2>1, <2>2, <2>4, <1>2, SMTT(75)
  <2> QED BY <2>3, <2>4
<1>7. WaitersBehindHolder'
  BY <1>1, <1>2 DEF IndInv, Bookkeeping, WaitersBehindHolder
<1>8. WaiterQueued'
  <2> SUFFICES ASSUME NEW d \in Callers, caller'[d].at = "queued"
               PROVE  \E i \in 1..Len(queue'[caller'[d].lock]) :
                        queue'[caller'[d].lock][i] = d
    BY DEF WaiterQueued
  <2>1. CASE d = c
    <3>1. queue'[l] = Append(queue[l], c) BY <1>1, <1>2 DEF IndInv, TypeOK
    <3>2. Len(queue[l]) + 1 \in 1..Len(queue'[l])
          /\ queue'[l][Len(queue[l]) + 1] = c
      BY <3>1, <1>1
    <3> QED BY <3>2, <2>1, <1>2
  <2>2. CASE d # c
    <3>1. caller'[d] = caller[d] BY <2>2, <1>2
    <3>2. caller[d].lock \in Locks BY <3>1 DEF IndInv, TypeOK, Away
    <3>3. PICK i \in 1..Len(queue[caller[d].lock]) :
            queue[caller[d].lock][i] = d
      BY <3>1 DEF IndInv, Bookkeeping, WaiterQueued
    <3>4. CASE caller[d].lock # l
      <4>1. queue'[caller[d].lock] = queue[caller[d].lock]
        BY <3>4, <3>2, <1>2 DEF IndInv, TypeOK
      <4> QED BY <4>1, <3>1, <3>3
    <3>5. CASE caller[d].lock = l
      <4>1. queue'[l] = Append(queue[l], c) BY <1>1, <1>2 DEF IndInv, TypeOK
      <4>2. i \in 1..Len(queue'[l]) /\ queue'[l][i] = queue[l][i]
        BY <4>1, <1>1, <3>3, <3>5
      <4> QED BY <4>2, <3>1, <3>3, <3>5
    <3> QED BY <3>4, <3>5
  <2> QED BY <2>1, <2>2
<1> QED BY <1>3, <1>4, <1>5, <1>6, <1>7, <1>8 DEF IndInv, Bookkeeping

\* A caller that neither holds nor waits leaves.
LEMMA GiveUpInd ==
  ASSUME IndInv, NEW c \in Callers, GiveUp(c)
  PROVE  IndInv'
<1>1. /\ caller[c].at = "found" /\ caller'[c] = Away
      /\ \A d \in Callers \ {c} : caller'[d] = caller[d]
      /\ UNCHANGED <<registry, holder, queue>>
  BY DEF IndInv, TypeOK, GiveUp
<1>2. TypeOK' BY DEF IndInv, TypeOK, GiveUp
<1>3. RegisteredWhileAlive'
  BY <1>1 DEF IndInv, Bookkeeping, RegisteredWhileAlive
<1>4. HolderHolds'
  <2>1. ASSUME NEW d \in Callers, caller'[d].at = "holding"
        PROVE  holder[caller'[d].lock] = d
    BY <2>1, <1>1 DEF IndInv, Bookkeeping, HolderHolds, Away
  <2>2. ASSUME NEW m \in Locks, holder[m] # NoCaller
        PROVE  caller'[holder[m]].at = "holding" /\ caller'[holder[m]].lock = m
    <3>1. holder[m] \in Callers BY <2>2 DEF IndInv, TypeOK
    <3>2. caller[holder[m]].at = "holding" /\ caller[holder[m]].lock = m
      BY <2>2 DEF IndInv, Bookkeeping, HolderHolds
    <3> QED BY <3>1, <3>2, <1>1
  <2> QED BY <2>1, <2>2, <1>1 DEF HolderHolds
<1>5. QueueWaits'
  <2>1. ASSUME NEW m \in Locks, NEW i \in 1..Len(queue[m])
        PROVE  /\ caller'[queue[m][i]].at = "queued"
               /\ caller'[queue[m][i]].lock = m
    <3>1. queue[m][i] \in Callers BY DEF IndInv, TypeOK
    <3>2. caller[queue[m][i]].at = "queued" /\ caller[queue[m][i]].lock = m
      BY DEF IndInv, Bookkeeping, QueueWaits
    <3> QED BY <3>1, <3>2, <1>1
  <2> QED BY <2>1, <1>1 DEF IndInv, Bookkeeping, QueueWaits
<1>6. WaitersBehindHolder' /\ WaiterQueued'
  BY <1>1 DEF IndInv, Bookkeeping, WaitersBehindHolder, WaiterQueued, Away
<1> QED BY <1>2, <1>3, <1>4, <1>5, <1>6 DEF IndInv, Bookkeeping

\* Nobody waits: the mutex becomes free.
LEMMA ReleaseFreeInd ==
  ASSUME IndInv, NEW c \in Callers, Release(c), queue[caller[c].lock] = <<>>
  PROVE  IndInv'
<1> DEFINE l == caller[c].lock
<1>1. l \in Locks /\ caller[c].at = "holding" /\ holder[l] = c
  BY DEF IndInv, TypeOK, Bookkeeping, HolderHolds, Release, Away
<1>2. /\ caller'[c] = Away
      /\ \A d \in Callers \ {c} : caller'[d] = caller[d]
      /\ holder'[l] = NoCaller
      /\ \A m \in Locks \ {l} : holder'[m] = holder[m]
      /\ UNCHANGED <<registry, queue>>
  BY <1>1 DEF IndInv, TypeOK, Release
<1>3. TypeOK' BY <1>1 DEF IndInv, TypeOK, Release
<1>4. RegisteredWhileAlive'
  BY <1>2 DEF IndInv, Bookkeeping, RegisteredWhileAlive
<1>5. HolderHolds'
  <2>1. ASSUME NEW d \in Callers, caller'[d].at = "holding"
        PROVE  holder'[caller'[d].lock] = d
    <3>1. d # c /\ caller'[d] = caller[d] BY <2>1, <1>2 DEF Away
    <3>2. holder[caller[d].lock] = d /\ caller[d].lock \in Locks
      BY <3>1, <2>1 DEF IndInv, TypeOK, Bookkeeping, HolderHolds, Away
    <3> QED BY <3>1, <3>2, <1>1, <1>2
  <2>2. ASSUME NEW m \in Locks, holder'[m] # NoCaller
        PROVE  caller'[holder'[m]].at = "holding" /\ caller'[holder'[m]].lock = m
    <3>1. m # l /\ holder'[m] = holder[m] /\ holder[m] \in Callers
      BY <2>2, <1>2 DEF IndInv, TypeOK
    <3>2. caller[holder[m]].at = "holding" /\ caller[holder[m]].lock = m
      BY <3>1, <2>2 DEF IndInv, Bookkeeping, HolderHolds
    <3> QED BY <3>1, <3>2, <1>2
  <2> QED BY <2>1, <2>2 DEF HolderHolds
<1>6. QueueWaits'
  <2>1. ASSUME NEW m \in Locks, NEW i \in 1..Len(queue[m])
        PROVE  /\ caller'[queue[m][i]].at = "queued"
               /\ caller'[queue[m][i]].lock = m
    <3>1. queue[m][i] \in Callers BY DEF IndInv, TypeOK
    <3>2. caller[queue[m][i]].at = "queued" /\ caller[queue[m][i]].lock = m
      BY DEF IndInv, Bookkeeping, QueueWaits
    <3> QED BY <3>1, <3>2, <1>1, <1>2
  <2> QED BY <2>1, <1>2 DEF IndInv, Bookkeeping, QueueWaits
<1>7. ASSUME NEW d \in Callers, caller'[d].at = "queued"
      PROVE  /\ holder'[caller'[d].lock] # NoCaller
             /\ \E i \in 1..Len(queue'[caller'[d].lock]) :
                  queue'[caller'[d].lock][i] = d
  <2>1. d # c /\ caller'[d] = caller[d] BY <1>7, <1>2 DEF Away
  <2>2. PICK i \in 1..Len(queue[caller[d].lock]) : queue[caller[d].lock][i] = d
    BY <2>1, <1>7 DEF IndInv, Bookkeeping, WaiterQueued
  <2>3. caller[d].lock \in Locks
    BY <2>1, <1>7 DEF IndInv, TypeOK, Away
  <2>4. caller[d].lock # l BY <2>2
  <2>5. holder[caller[d].lock] # NoCaller
    BY <2>1, <1>7 DEF IndInv, Bookkeeping, WaitersBehindHolder
  <2> QED BY <2>1, <2>2, <2>3, <2>4, <2>5, <1>2
<1>8. WaitersBehindHolder' /\ WaiterQueued'
  BY <1>7 DEF WaitersBehindHolder, WaiterQueued
<1> QED BY <1>3, <1>4, <1>5, <1>6, <1>8 DEF IndInv, Bookkeeping

\* The caller at the head of the queue gets the mutex.
LEMMA ReleaseHandoverInd ==
  ASSUME IndInv, NEW c \in Callers, Release(c), queue[caller[c].lock] # <<>>
  PROVE  IndInv'
<1> DEFINE l == caller[c].lock
           q == queue[l]
           h == Head(q)
<1>1. l \in Locks /\ caller[c].at = "holding" /\ holder[l] = c
  BY DEF IndInv, TypeOK, Bookkeeping, HolderHolds, Release, Away
<1>2. /\ q \in Seq(Callers) /\ Len(q) \in Nat /\ Len(q) > 0
      /\ h = q[1] /\ h \in Callers /\ 1 \in 1..Len(q)
      /\ Tail(q) \in Seq(Callers) /\ Len(Tail(q)) = Len(q) - 1
      /\ \A i \in 1..(Len(q) - 1) : Tail(q)[i] = q[i + 1]
  <2>1. q \in Seq(Callers) /\ q # <<>> BY <1>1 DEF IndInv, TypeOK
  <2> QED BY <2>1
<1>3. caller[h].at = "queued" /\ caller[h].lock = l
  BY <1>1, <1>2 DEF IndInv, Bookkeeping, QueueWaits
<1>4. h # c BY <1>1, <1>3
<1>5. caller[h] \in [at : {"found", "queued", "holding"}, key : Keys,
                     lock : Locks]
  BY <1>2, <1>3 DEF IndInv, TypeOK, Away
<1>6. caller' = [caller EXCEPT ![c] = Away, ![h].at = "holding"]
  BY SMTT(30) DEF Release
<1>7. /\ caller'[c] = Away
      /\ caller'[h] = [caller[h] EXCEPT !.at = "holding"]
      /\ \A d \in Callers \ {c, h} : caller'[d] = caller[d]
  <2>1. caller \in [Callers -> {Away} \cup
                      [at : {"found", "queued", "holding"}, key : Keys,
                       lock : Locks]]
    BY SMTT(30) DEF IndInv, TypeOK
  <2> QED BY <1>6, <1>4, <1>2, <2>1
<1>8. /\ caller'[h].at = "holding" /\ caller'[h].lock = l
      /\ caller'[h].key = caller[h].key
      /\ caller'[h] \in [at : {"found", "queued", "holding"}, key : Keys,
                         lock : Locks]
  BY <1>7, <1>5, <1>3
<1>9. /\ holder' = [holder EXCEPT ![l] = h]
      /\ queue' = [queue EXCEPT ![l] = Tail(q)]
      /\ UNCHANGED registry
  BY DEF Release
<1>10. /\ holder'[l] = h /\ queue'[l] = Tail(q)
       /\ \A m \in Locks \ {l} : holder'[m] = holder[m] /\ queue'[m] = queue[m]
  BY <1>9, <1>1 DEF IndInv, TypeOK
<1>11. TypeOK'
  <2>1. caller' \in [Callers -> {Away} \cup
                       [at : {"found", "queued", "holding"}, key : Keys,
                        lock : Locks]]
    <3>1. ASSUME NEW d \in Callers
          PROVE  caller'[d] \in {Away} \cup
                   [at : {"found", "queued", "holding"}, key : Keys,
                    lock : Locks]
      BY <1>7, <1>8 DEF IndInv, TypeOK
    <3>2. caller' = [d \in Callers |-> caller'[d]]
      BY <1>6 DEF IndInv, TypeOK
    <3> QED BY <3>1, <3>2
  <2>2. queue' \in [Locks -> Seq(Callers)]
    BY <1>9, <1>2 DEF IndInv, TypeOK
  <2>3. holder' \in [Locks -> Callers \cup {NoCaller}]
    BY <1>9, <1>2 DEF IndInv, TypeOK
  <2> QED BY <2>1, <2>2, <2>3, <1>9 DEF IndInv, TypeOK
<1>12. RegisteredWhileAlive'
  <2>1. caller[h] # Away BY <1>3 DEF Away
  <2>2. registry[caller[h].key] = l
    BY <2>1, <1>2, <1>3 DEF IndInv, Bookkeeping, RegisteredWhileAlive
  <2> QED
    BY <2>2, <1>7, <1>8, <1>9 DEF IndInv, Bookkeeping, RegisteredWhileAlive
<1>13. HolderHolds'
  <2>1. ASSUME NEW d \in Callers, caller'[d].at = "holding"
        PROVE  holder'[caller'[d].lock] = d
    <3>1. d # c BY <2>1, <1>7 DEF Away
    <3>2. CASE d = h BY <3>2, <1>8, <1>10
    <3>3. CASE d # h
      <4>1. caller'[d] = caller[d] BY <3>1, <3>3, <1>7
      <4>2. holder[caller[d].lock] = d /\ caller[d].lock \in Locks
        BY <4>1, <2>1 DEF IndInv, TypeOK, Bookkeeping, HolderHolds, Away
      <4>3. caller[d].lock # l BY <4>2, <3>1, <1>1
      <4> QED BY <4>1, <4>2, <4>3, <1>10
    <3> QED BY <3>2, <3>3
  <2>2. ASSUME NEW m \in Locks, holder'[m] # NoCaller
        PROVE  caller'[holder'[m]].at = "holding" /\ caller'[holder'[m]].lock = m
    <3>1. CASE m = l BY <3>1, <1>8, <1>10
    <3>2. CASE m # l
      <4>1. holder'[m] = holder[m] /\ holder[m] \in Callers
        BY <3>2, <2>2, <1>10 DEF IndInv, TypeOK
      <4>2. caller[holder[m]].at = "holding" /\ caller[holder[m]].lock = m
        BY <4>1, <2>2 DEF IndInv, Bookkeeping, HolderHolds
      <4>3. holder[m] # c /\ holder[m] # h BY <4>2, <3>2, <1>3
      <4> QED BY <4>1, <4>2, <4>3, <1>7
    <3> QED BY <3>1, <3>2
  <2> QED BY <2>1, <2>2 DEF HolderHolds
<1>14. QueueWaits'
  <2> SUFFICES ASSUME NEW m \in Locks
               PROVE  /\ \A i \in 1..Len(queue'[m]) :
                           /\ caller'[queue'[m][i]].at = "queued"
                           /\ caller'[queue'[m][i]].lock = m
                      /\ \A i, j \in 1..Len(queue'[m]) :
                           queue'[m][i] = queue'[m][j] => i = j
    BY DEF QueueWaits
  <2>1. /\ queue[m] \in Seq(Callers)
        /\ \A i \in 1..Len(queue[m]) :
             /\ queue[m][i] \in Callers
             /\ caller[queue[m][i]].at = "queued"
             /\ caller[queue[m][i]].lock = m
        /\ \A i, j \in 1..Len(queue[m]) : queue[m][i] = queue[m][j] => i = j
    <3>1. queue[m] \in Seq(Callers) BY DEF IndInv, TypeOK
    <3> QED BY <3>1 DEF IndInv, Bookkeeping, QueueWaits
  <2>2. CASE m # l
    <3>1. queue'[m] = queue[m] BY <2>2, <1>10
    <3>2. ASSUME NEW i \in 1..Len(queue[m])
          PROVE  caller'[queue[m][i]] = caller[queue[m][i]]
      <4>1. queue[m][i] # c /\ queue[m][i] # h BY <2>1, <2>2, <1>1, <1>3
      <4> QED BY <4>1, <2>1, <1>7
    <3> QED BY <3>1, <3>2, <2>1
  <2>3. CASE m = l
    <3>1. /\ Len(queue'[m]) = Len(q) - 1
          /\ \A i \in 1..(Len(q) - 1) : queue'[m][i] = q[i + 1]
      BY <2>3, <1>2, <1>10
    <3>2. ASSUME NEW i \in 1..(Len(q) - 1)
          PROVE  caller'[q[i + 1]] = caller[q[i + 1]] /\ i + 1 \in 1..Len(q)
      <4>1. i + 1 \in 1..Len(q) /\ i + 1 # 1 BY <1>2
      <4>2. q[i + 1] # h BY <4>1, <1>2, <2>1, <2>3
      <4>3. q[i + 1] # c /\ q[i + 1] \in Callers BY <4>1, <2>1, <2>3, <1>1, SMTT(30)
      <4> QED BY <4>1, <4>2, <4>3, <1>7
    <3>3. ASSUME NEW i \in 1..Len(queue'[m])
          PROVE  /\ caller'[queue'[m][i]].at = "queued"
                 /\ caller'[queue'[m][i]].lock = m
      <4>1. i \in 1..(Len(q) - 1) /\ queue'[m][i] = q[i + 1] BY <3>1
      <4>2. caller'[q[i + 1]] = caller[q[i + 1]] /\ i + 1 \in 1..Len(q)
        BY <4>1, <3>2
      <4> QED BY <4>1, <4>2, <2>1, <2>3, SMTT(75)
    <3>4. ASSUME NEW i \in 1..Len(queue'[m]), NEW j \in 1..Len(queue'[m]),
                 queue'[m][i] = queue'[m][j]
          PROVE  i = j
      <4>1. q[i + 1] = q[j + 1] BY <3>1, <3>4
      <4>2. i + 1 = j + 1 BY <4>1, <3>1, <3>2, <2>1, <2>3
      <4> QED BY <4>2, <1>2, <3>1
    <3> QED BY <3>3, <3>4
  <2> QED BY <2>2, <2>3
<1>15. ASSUME NEW d \in Callers, caller'[d].at = "queued"
       PROVE  /\ holder'[caller'[d].lock] # NoCaller
              /\ \E i \in 1..Len(queue'[caller'[d].lock]) :
                   queue'[caller'[d].lock][i] = d
  <2>1. d # c /\ d # h /\ caller'[d] = caller[d]
    BY <1>15, <1>7, <1>8, SMTT(75) DEF Away
  <2>2. PICK i \in 1..Len(queue[caller[d].lock]) : queue[caller[d].lock][i] = d
    BY <2>1, <1>15 DEF IndInv, Bookkeeping, WaiterQueued
  <2>3. caller[d].lock \in Locks BY <2>1, <1>15 DEF IndInv, TypeOK, Away
  <2>4. holder[caller[d].lock] # NoCaller
    BY <2>1, <1>15 DEF IndInv, Bookkeeping, WaitersBehindHolder
  <2>5. CASE caller[d].lock # l BY <2>1, <2>2, <2>3, <2>4, <2>5, <1>10
  <2>6. CASE caller[d].lock = l
    <3>1. i \in 1..Len(q) /\ q[i] = d BY <2>2, <2>6
    <3>2. i # 1 BY <3>1, <2>1, <1>2
    <3>3. i - 1 \in 1..(Len(q) - 1) /\ (i - 1) + 1 = i BY <3>1, <3>2, <1>2
    <3>4. Tail(q)[i - 1] = d BY <3>1, <3>3, <1>2
    <3>5. i - 1 \in 1..Len(queue'[l]) /\ queue'[l][i - 1] = d
      BY <3>3, <3>4, <1>2, <1>10
    <3>6. holder'[l] # NoCaller BY <1>2, <1>10, CoalesceNullAssumption
    <3> QED BY <3>5, <3>6, <2>1, <2>6
  <2> QED BY <2>5, <2>6
<1>16. WaitersBehindHolder' /\ WaiterQueued'
  BY <1>15 DEF WaitersBehindHolder, WaiterQueued
<1> QED BY <1>11, <1>12, <1>13, <1>14, <1>16 DEF IndInv, Bookkeeping

\* A waiting caller leaves the queue; the others keep their order.
LEMMA CancelInd ==
  ASSUME IndInv, NEW c \in Callers, Cancel(c)
  PROVE  IndInv'
<1> DEFINE l == caller[c].lock
           q == queue[l]
<1>1. l \in Locks /\ caller[c].at = "queued"
  BY DEF IndInv, TypeOK, Cancel, Away
<1>2. q \in Seq(Callers) /\ Len(q) \in Nat
  BY <1>1 DEF IndInv, TypeOK
<1>3. PICK p \in 1..Len(q) :
        q[p] = c /\ queue' = [queue EXCEPT ![l] = Without(q, p)]
  BY DEF Cancel
<1> DEFINE r == Without(q, p)
<1>4. /\ r \in Seq(Callers) /\ Len(r) = Len(q) - 1
      /\ \A n \in 1..(Len(q) - 1) : r[n] = IF n < p THEN q[n] ELSE q[n + 1]
  <2>1. \A n \in 1..(Len(q) - 1) :
          (IF n < p THEN q[n] ELSE q[n + 1]) \in Callers
    <3>1. ASSUME NEW n \in 1..(Len(q) - 1)
          PROVE  (IF n < p THEN q[n] ELSE q[n + 1]) \in Callers
      <4>1. n \in 1..Len(q) /\ n + 1 \in 1..Len(q) BY <1>2
      <4>2. q[n] \in Callers /\ q[n + 1] \in Callers BY <4>1, <1>2
      <4> QED BY <4>2
    <3> QED BY <3>1
  <2>2. Len(q) - 1 \in Nat BY <1>2, <1>3
  <2>3. r \in [1..(Len(q) - 1) -> Callers] BY <2>1 DEF Without
  <2>4. r \in Seq(Callers) BY <2>2, <2>3
  <2>5. Len(r) = Len(q) - 1 BY <2>2, <2>3, <2>4
  <2> QED BY <2>4, <2>5 DEF Without
<1>5. /\ caller'[c] = Away
      /\ \A d \in Callers \ {c} : caller'[d] = caller[d]
      /\ queue'[l] = r
      /\ \A m \in Locks \ {l} : queue'[m] = queue[m]
      /\ UNCHANGED <<registry, holder>>
  BY <1>1, <1>3 DEF IndInv, TypeOK, Cancel
<1> HIDE DEF r
<1>6. TypeOK'
  <2>1. queue' \in [Locks -> Seq(Callers)]
    BY <1>3, <1>4 DEF IndInv, TypeOK, r
  <2> QED BY <2>1 DEF IndInv, TypeOK, Cancel
<1>7. RegisteredWhileAlive'
  BY <1>5 DEF IndInv, Bookkeeping, RegisteredWhileAlive
<1>8. HolderHolds'
  <2>1. ASSUME NEW d \in Callers, caller'[d].at = "holding"
        PROVE  holder[caller'[d].lock] = d
    BY <2>1, <1>5 DEF IndInv, Bookkeeping, HolderHolds, Away
  <2>2. ASSUME NEW m \in Locks, holder[m] # NoCaller
        PROVE  caller'[holder[m]].at = "holding" /\ caller'[holder[m]].lock = m
    <3>1. holder[m] \in Callers BY <2>2 DEF IndInv, TypeOK
    <3>2. caller[holder[m]].at = "holding" /\ caller[holder[m]].lock = m
      BY <2>2 DEF IndInv, Bookkeeping, HolderHolds
    <3> QED BY <3>1, <3>2, <1>1, <1>5
  <2> QED BY <2>1, <2>2, <1>5 DEF HolderHolds
<1>9. \A m \in Locks :
        /\ queue[m] \in Seq(Callers)
        /\ \A i \in 1..Len(queue[m]) :
             /\ queue[m][i] \in Callers
             /\ caller[queue[m][i]].at = "queued"
             /\ caller[queue[m][i]].lock = m
        /\ \A i, j \in 1..Len(queue[m]) : queue[m][i] = queue[m][j] => i = j
  <2>1. \A m \in Locks : queue[m] \in Seq(Callers) BY DEF IndInv, TypeOK
  <2> QED BY <2>1 DEF IndInv, Bookkeeping, QueueWaits
\* Where the i-th element of the shortened queue was before.
<1> DEFINE at(i) == IF i < p THEN i ELSE i + 1
<1>10. ASSUME NEW i \in 1..(Len(q) - 1)
       PROVE  at(i) \in 1..Len(q) /\ at(i) # p /\ r[i] = q[at(i)]
  BY <1>2, <1>3, <1>4, SMTT(30)
<1>11. QueueWaits'
  <2> SUFFICES ASSUME NEW m \in Locks
               PROVE  /\ \A i \in 1..Len(queue'[m]) :
                           /\ caller'[queue'[m][i]].at = "queued"
                           /\ caller'[queue'[m][i]].lock = m
                      /\ \A i, j \in 1..Len(queue'[m]) :
                           queue'[m][i] = queue'[m][j] => i = j
    BY DEF QueueWaits
  <2>1. CASE m # l
    <3>1. queue'[m] = queue[m] BY <2>1, <1>5
    <3>2. ASSUME NEW i \in 1..Len(queue[m])
          PROVE  caller'[queue[m][i]] = caller[queue[m][i]]
      <4>1. queue[m][i] \in Callers /\ queue[m][i] # c BY <1>9, <2>1
      <4> QED BY <4>1, <1>5
    <3> QED BY <3>1, <3>2, <1>9
  <2>2. CASE m = l
    <3>1. ASSUME NEW i \in 1..Len(queue'[m])
          PROVE  /\ caller'[queue'[m][i]].at = "queued"
                 /\ caller'[queue'[m][i]].lock = m
      <4>1. i \in 1..(Len(q) - 1) /\ queue'[m][i] = r[i]
        BY <2>2, <1>4, <1>5
      <4>2. at(i) \in 1..Len(q) /\ at(i) # p /\ r[i] = q[at(i)]
        BY <4>1, <1>10
      <4>3. q[at(i)] # c BY <4>2, <1>3, <1>9, <1>1
      <4>4. q[at(i)] \in Callers BY <4>2, <1>9, <1>1
      <4>5. caller'[q[at(i)]] = caller[q[at(i)]] BY <4>3, <4>4, <1>5
      <4> QED BY <4>1, <4>2, <4>5, <1>9, <2>2, SMTT(30)
    <3>2. ASSUME NEW i \in 1..Len(queue'[m]), NEW j \in 1..Len(queue'[m]),
                 queue'[m][i] = queue'[m][j]
          PROVE  i = j
      <4>1. i \in 1..(Len(q) - 1) /\ j \in 1..(Len(q) - 1) /\ r[i] = r[j]
        BY <3>2, <2>2, <1>4, <1>5
      <4>2. /\ at(i) \in 1..Len(q) /\ r[i] = q[at(i)]
            /\ at(j) \in 1..Len(q) /\ r[j] = q[at(j)]
        BY <4>1, <1>10
      <4>3. \A a, b \in 1..Len(q) : q[a] = q[b] => a = b BY <1>9, <1>1
      <4>4. q[at(i)] = q[at(j)] BY <4>1, <4>2
      <4>5. at(i) = at(j) BY <4>2, <4>3, <4>4
      <4> QED BY <4>5, <4>1, <1>3, <1>2
    <3> QED BY <3>1, <3>2
  <2> QED BY <2>1, <2>2
<1>12. ASSUME NEW d \in Callers, caller'[d].at = "queued"
       PROVE  /\ holder'[caller'[d].lock] # NoCaller
              /\ \E i \in 1..Len(queue'[caller'[d].lock]) :
                   queue'[caller'[d].lock][i] = d
  <2>1. d # c /\ caller'[d] = caller[d] BY <1>12, <1>5 DEF Away
  <2>2. PICK i \in 1..Len(queue[caller[d].lock]) : queue[caller[d].lock][i] = d
    BY <2>1, <1>12 DEF IndInv, Bookkeeping, WaiterQueued
  <2>3. caller[d].lock \in Locks BY <2>1, <1>12 DEF IndInv, TypeOK, Away
  <2>4. holder[caller[d].lock] # NoCaller
    BY <2>1, <1>12 DEF IndInv, Bookkeeping, WaitersBehindHolder
  <2>5. CASE caller[d].lock # l BY <2>1, <2>2, <2>3, <2>4, <2>5, <1>5
  <2>6. CASE caller[d].lock = l
    <3>1. i \in 1..Len(q) /\ q[i] = d /\ i # p BY <2>1, <2>2, <2>6, <1>3
    <3>2. \E n \in 1..(Len(q) - 1) : r[n] = d
      <4>1. CASE i < p
        <5>1. i \in 1..(Len(q) - 1) BY <3>1, <4>1, <1>2
        <5> QED BY <5>1, <4>1, <3>1, <1>4
      <4>2. CASE i > p
        <5>1. i - 1 \in 1..(Len(q) - 1) /\ ~(i - 1 < p) /\ (i - 1) + 1 = i
          BY <3>1, <4>2, <1>2
        <5>2. r[i - 1] = q[i] BY <5>1, <1>4
        <5> QED BY <5>1, <5>2, <3>1
      <4> QED BY <4>1, <4>2, <3>1
    <3> QED BY <3>2, <2>1, <2>4, <2>6, <1>4, <1>5
  <2> QED BY <2>5, <2>6
<1>13. WaitersBehindHolder' /\ WaiterQueued'
  BY <1>12 DEF WaitersBehindHolder, WaiterQueued
<1> QED BY <1>6, <1>7, <1>8, <1>11, <1>13 DEF IndInv, Bookkeeping

LEMMA NextInd == IndInv /\ [Next]_vars => IndInv'
<1> SUFFICES ASSUME IndInv, [Next]_vars PROVE IndInv' OBVIOUS
<1>1. CASE UNCHANGED vars
  BY <1>1 DEF vars, IndInv, TypeOK, Bookkeeping, RegisteredWhileAlive,
     HolderHolds, QueueWaits, WaitersBehindHolder, WaiterQueued
<1>2. CASE Next
  BY <1>2, FindInd, CreateInd, AcquireInd, WaitInd, GiveUpInd, ReleaseFreeInd,
     ReleaseHandoverInd, CancelInd
  DEF Next
<1> QED BY <1>1, <1>2

\* The map, the mutexes, their queues and the callers agree in every
\* reachable state.
THEOREM BookkeepingHolds == Spec => []IndInv
BY InitInd, NextInd, PTL DEF Spec

\* Type correctness.
THEOREM TypeCorrect == Spec => []TypeOK
<1>1. IndInv => TypeOK BY DEF IndInv
<1> QED BY <1>1, BookkeepingHolds, PTL

\* Guards of one key exclude each other.
THEOREM GuardsAreExclusive == Spec => []ExclusivePerKey
<1>1. IndInv => ExclusivePerKey
  <2> SUFFICES ASSUME IndInv, NEW c \in Callers, NEW d \in Callers,
                      caller[c].at = "holding", caller[d].at = "holding",
                      caller[c].key = caller[d].key
               PROVE  c = d
    BY DEF ExclusivePerKey
  <2>1. caller[c] # Away /\ caller[d] # Away BY DEF Away
  <2>2. caller[c].lock = caller[d].lock
    BY <2>1 DEF IndInv, Bookkeeping, RegisteredWhileAlive
  <2> QED BY <2>2 DEF IndInv, Bookkeeping, HolderHolds
<1> QED BY <1>1, BookkeepingHolds, PTL

\* A queued caller always waits behind a holder.
THEOREM WaitersHaveAHolder == Spec => []NoAbandonedWaiter
<1>1. IndInv => NoAbandonedWaiter
  <2> SUFFICES ASSUME IndInv, NEW c \in Callers, caller[c].at = "queued"
               PROVE  \E d \in Callers : caller[d].at = "holding"
                                        /\ caller[d].lock = caller[c].lock
    BY DEF NoAbandonedWaiter
  <2>1. caller[c].lock \in Locks BY DEF IndInv, TypeOK, Away
  <2>2. holder[caller[c].lock] # NoCaller
    BY DEF IndInv, Bookkeeping, WaitersBehindHolder
  <2>3. holder[caller[c].lock] \in Callers BY <2>1, <2>2 DEF IndInv, TypeOK
  <2> QED BY <2>1, <2>2, <2>3 DEF IndInv, Bookkeeping, HolderHolds
<1> QED BY <1>1, BookkeepingHolds, PTL

\* A lookup adds one entry at most, and at the cap it keeps only entries in use.
LEMMA LookupEntries ==
  ASSUME TypeOK, IsFiniteSet(Entries), NEW c \in Callers, NEW k \in Keys,
         NEW l \in Locks, caller[c] = Away, Move(c, "found", k, l),
         registry' = [Swept EXCEPT ![k] = l]
  PROVE  /\ IsFiniteSet(Entries')
         /\ Cardinality(Entries') > MaxCoalesceKeys =>
              \A j \in Entries' : Alive(registry[j])'
<1>1. /\ registry'[k] = l
      /\ \A j \in Keys : j # k => registry'[j] = Swept[j]
  BY DEF Swept
<1>2. Entries' \subseteq Entries \cup {k} BY <1>1 DEF Entries, Swept
<1>3. IsFiniteSet(Entries \cup {k})
      /\ Cardinality(Entries \cup {k}) =
           IF k \in Entries THEN Cardinality(Entries) ELSE Cardinality(Entries) + 1
  BY FS_AddElement
<1>4. IsFiniteSet(Entries') /\ Cardinality(Entries') <= Cardinality(Entries \cup {k})
  BY <1>2, <1>3, FS_Subset
<1>5. Cardinality(Entries) \in Nat /\ Cardinality(Entries') \in Nat
  BY <1>4, FS_CardinalityType
<1>6. ASSUME Cardinality(Entries') > MaxCoalesceKeys, NEW j \in Entries'
      PROVE  Alive(registry[j])'
  <2>1. Cardinality(Entries) >= MaxCoalesceKeys
    BY <1>3, <1>4, <1>5, <1>6, CapAssumption
  <2>2. \A d \in Callers : caller'[d] =
          IF d = c THEN [at |-> "found", key |-> k, lock |-> l] ELSE caller[d]
    BY DEF Move, TypeOK
  <2>3. CASE j = k BY <2>2, <2>3, <1>1 DEF Alive
  <2>4. CASE j # k
    <3>1. registry'[j] = Swept[j] /\ Swept[j] # NoLock /\ j \in Keys
      BY <2>4, <1>1, <1>6 DEF Entries
    <3>2. Swept[j] = registry[j] /\ Alive(registry[j]) BY <3>1, <2>1 DEF Swept
    <3>3. PICK d \in Callers : caller[d].lock = registry[j] BY <3>2 DEF Alive
    <3>4. d # c BY <3>1, <3>2, <3>3 DEF Away
    <3> QED BY <3>1, <3>2, <3>3, <3>4, <2>2 DEF Alive
  <2> QED BY <2>3, <2>4
<1> QED BY <1>4, <1>6

\* The map is always finite.
FiniteMap == IsFiniteSet(Entries)

\* An insertion above the cap leaves only entries in use.
LiveAboveCap ==
  Entries' # Entries /\ Cardinality(Entries') > MaxCoalesceKeys =>
    \A k \in Entries' : Alive(registry[k])'

\* Dead keys do not accumulate above the cap, whatever is asked for.
THEOREM DeadKeysAreSwept == Spec => OnlyLiveKeysAboveCap
<1>1. Init => FiniteMap
  <2>1. Init => Entries = {} BY DEF Init, Entries
  <2> QED BY <2>1, FS_EmptySet DEF FiniteMap
<1>2. TypeOK /\ FiniteMap /\ [Next]_vars => FiniteMap' /\ LiveAboveCap
  <2> SUFFICES ASSUME TypeOK, IsFiniteSet(Entries), [Next]_vars
               PROVE  IsFiniteSet(Entries') /\ LiveAboveCap
    BY DEF FiniteMap
  <2>1. CASE UNCHANGED registry BY <2>1 DEF Entries, LiveAboveCap
  <2>2. ASSUME NEW c \in Callers, NEW k \in Keys, Find(c, k)
        PROVE  IsFiniteSet(Entries') /\ LiveAboveCap
    <3>1. Swept[k] \in Locks BY <2>2 DEF Find, Swept, TypeOK
    <3>2. registry' = [Swept EXCEPT ![k] = Swept[k]] BY <2>2 DEF Find, Swept
    <3>3. caller[c] = Away /\ Move(c, "found", k, Swept[k]) BY <2>2 DEF Find
    <3> QED BY <3>1, <3>2, <3>3, LookupEntries DEF LiveAboveCap
  <2>3. ASSUME NEW c \in Callers, NEW k \in Keys, NEW l \in Locks, Create(c, k, l)
        PROVE  IsFiniteSet(Entries') /\ LiveAboveCap
    <3>1. /\ caller[c] = Away /\ Move(c, "found", k, l)
          /\ registry' = [Swept EXCEPT ![k] = l]
      BY <2>3 DEF Create
    <3> QED BY <3>1, LookupEntries DEF LiveAboveCap
  <2>4. ASSUME NEW c \in Callers,
               Acquire(c) \/ Wait(c) \/ GiveUp(c) \/ Release(c) \/ Cancel(c)
        PROVE  UNCHANGED registry
    BY <2>4 DEF Acquire, Wait, GiveUp, Release, Cancel
  <2>5. UNCHANGED vars => UNCHANGED registry BY DEF vars
  <2> QED BY <2>1, <2>2, <2>3, <2>4, <2>5 DEF Next
<1>3. [][LiveAboveCap]_vars => OnlyLiveKeysAboveCap
  BY DEF LiveAboveCap, OnlyLiveKeysAboveCap
<1> QED BY <1>1, <1>2, <1>3, TypeCorrect, PTL DEF Spec
=============================================================================
