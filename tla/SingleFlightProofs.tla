------------------------- MODULE SingleFlightProofs -------------------------
(***************************************************************************)
(* The safety properties of SingleFlight for any callers, keys and flights.*)
(* The invariant ties the three records of a flight together: the entry in *)
(* the map, the leader's guard and the channel.                            *)
(***************************************************************************)
EXTENDS SingleFlight, FiniteSetTheorems, TLAPS

\* The map holds exactly the flights whose leader still has to remove itself.
MapHoldsRunning ==
  /\ \A k \in Keys : inflight[k] # NoFlight =>
       Running(inflight[k]) /\ keyOf[inflight[k]] = k
  /\ \A f \in Flights : Running(f) => inflight[keyOf[f]] = f

\* A guard is armed, and a channel open, exactly while the leader needs it.
GuardFollowsTask ==
  \A f \in Flights :
    /\ armed[f] <=> Running(f)
    /\ open[f] <=> task[f] # "ended"
    /\ task[f] = "publishing" => taken[f] = f
    /\ task[f] \in {"finished", "publishing"} => value[f] # Nothing

\* A receiver is empty while its channel is open, and holds the outcome of
\* the flight once it is closed.
ReceiverFollowsChannel ==
  \A c \in Callers : caller[c].at = "waiting" =>
    IF open[caller[c].flight]
    THEN caller[c].got = Nothing
    ELSE Received(c) = value[caller[c].flight]

Bookkeeping == MapHoldsRunning /\ GuardFollowsTask /\ ReceiverFollowsChannel

IndInv == TypeOK /\ Bookkeeping

LEMMA InitInd == Init => IndInv
BY NullAssumption DEF Init, IndInv, TypeOK, Bookkeeping, MapHoldsRunning,
   GuardFollowsTask, ReceiverFollowsChannel, Running, Idle

\* Steps of callers other than Lead change no flight.
LEMMA FollowInd ==
  ASSUME IndInv, NEW c \in Callers, NEW k \in Keys, Follow(c, k)
  PROVE  IndInv'
<1>1. inflight[k] \in Flights BY DEF IndInv, TypeOK, Follow
<1>2. TypeOK' BY <1>1 DEF IndInv, TypeOK, Follow, Subscribed, leaderVars
<1>3. open[inflight[k]]
  BY <1>1 DEF IndInv, Bookkeeping, MapHoldsRunning, GuardFollowsTask, Running,
     Follow
<1>4. MapHoldsRunning' /\ GuardFollowsTask'
  BY DEF IndInv, Bookkeeping, MapHoldsRunning, GuardFollowsTask, Running,
     Follow, leaderVars
<1>5. ReceiverFollowsChannel'
  BY <1>1, <1>3 DEF IndInv, TypeOK, Bookkeeping, ReceiverFollowsChannel,
     Received, Follow, Subscribed, leaderVars
<1> QED BY <1>2, <1>4, <1>5 DEF IndInv, Bookkeeping

LEMMA LeadInd ==
  ASSUME IndInv, NEW c \in Callers, NEW k \in Keys, NEW f \in Flights,
         Lead(c, k, f)
  PROVE  IndInv'
<1>1. TypeOK'
  BY DEF IndInv, TypeOK, Lead, Subscribed
<1>2. MapHoldsRunning'
  BY NullAssumption DEF IndInv, TypeOK, Bookkeeping, MapHoldsRunning, Running,
     Lead, Unused
<1>3. GuardFollowsTask'
  BY DEF IndInv, TypeOK, Bookkeeping, GuardFollowsTask, Running, Lead, Unused
<1>4. ReceiverFollowsChannel'
  BY DEF IndInv, TypeOK, Bookkeeping, ReceiverFollowsChannel, Received, Lead,
     Unused, Subscribed
<1> QED BY <1>1, <1>2, <1>3, <1>4 DEF IndInv, Bookkeeping

\* Return and Cancel only make a caller idle.
LEMMA LeaveInd ==
  ASSUME IndInv, NEW c \in Callers, Return(c) \/ Cancel(c)
  PROVE  IndInv'
<1>1. /\ caller' = [caller EXCEPT ![c] = Idle]
      /\ UNCHANGED <<inflight, task, leaderVars, open>>
  BY DEF Return, Cancel
<1>2. TypeOK' BY <1>1 DEF IndInv, TypeOK, leaderVars
<1>3. MapHoldsRunning' /\ GuardFollowsTask'
  BY <1>1 DEF IndInv, Bookkeeping, MapHoldsRunning, GuardFollowsTask, Running,
     leaderVars
<1>4. ReceiverFollowsChannel'
  BY <1>1 DEF IndInv, TypeOK, Bookkeeping, ReceiverFollowsChannel, Received,
     Idle, leaderVars
<1> QED BY <1>2, <1>3, <1>4 DEF IndInv, Bookkeeping

LEMMA FinishInd ==
  ASSUME IndInv, NEW f \in Flights, Compute(f) \/ TimeOut(f)
  PROVE  IndInv'
<1>1. PICK v \in Flights \cup {Default} :
        /\ task[f] = "running"
        /\ task' = [task EXCEPT ![f] = "finished"]
        /\ value' = [value EXCEPT ![f] = v]
        /\ UNCHANGED <<inflight, keyOf, armed, taken, open, caller>>
  BY DEF Compute, TimeOut
<1>2. TypeOK' BY <1>1 DEF IndInv, TypeOK
<1>3. MapHoldsRunning'
  BY <1>1 DEF IndInv, TypeOK, Bookkeeping, MapHoldsRunning, Running
<1>4. GuardFollowsTask'
  BY <1>1, NullAssumption
  DEF IndInv, TypeOK, Bookkeeping, GuardFollowsTask, Running
<1>5. ReceiverFollowsChannel'
  BY <1>1 DEF IndInv, TypeOK, Bookkeeping, GuardFollowsTask,
     ReceiverFollowsChannel, Received
<1> QED BY <1>2, <1>3, <1>4, <1>5 DEF IndInv, Bookkeeping

\* An armed guard finds its own flight in the map.
LEMMA PanicInd ==
  ASSUME IndInv, NEW f \in Flights, Panic(f)
  PROVE  IndInv'
<1>1. armed[f] /\ inflight[keyOf[f]] = f /\ keyOf[f] \in Keys
  BY DEF IndInv, TypeOK, Bookkeeping, MapHoldsRunning, GuardFollowsTask,
     Running, Panic
<1>2. /\ task[f] = "running"
      /\ task' = [task EXCEPT ![f] = "ended"]
      /\ value' = [value EXCEPT ![f] = Default]
      /\ inflight' = [inflight EXCEPT ![keyOf[f]] = NoFlight]
      /\ open' = [g \in Flights |-> open[g] /\ g # f]
      /\ armed' = [armed EXCEPT ![f] = FALSE]
      /\ UNCHANGED <<keyOf, taken, caller>>
  BY <1>1 DEF Panic, DropCleanup
<1>3. TypeOK' BY <1>2, <1>1 DEF IndInv, TypeOK
<1>4. MapHoldsRunning'
  BY <1>2, <1>1, NullAssumption
  DEF IndInv, TypeOK, Bookkeeping, MapHoldsRunning, Running
<1>5. GuardFollowsTask'
  BY <1>2 DEF IndInv, TypeOK, Bookkeeping, GuardFollowsTask, Running
<1>6. ReceiverFollowsChannel'
  BY <1>2 DEF IndInv, TypeOK, Bookkeeping, GuardFollowsTask,
     ReceiverFollowsChannel, Received, Idle
<1> QED BY <1>3, <1>4, <1>5, <1>6 DEF IndInv, Bookkeeping

LEMMA RemoveInd ==
  ASSUME IndInv, NEW f \in Flights, Remove(f)
  PROVE  IndInv'
<1>1. inflight[keyOf[f]] = f /\ keyOf[f] \in Keys
  BY DEF IndInv, TypeOK, Bookkeeping, MapHoldsRunning, Running, Remove
<1>2. TypeOK' BY <1>1 DEF IndInv, TypeOK, Remove
<1>3. MapHoldsRunning'
  BY <1>1, NullAssumption
  DEF IndInv, TypeOK, Bookkeeping, MapHoldsRunning, Running, Remove
<1>4. GuardFollowsTask'
  BY <1>1 DEF IndInv, TypeOK, Bookkeeping, GuardFollowsTask, Running, Remove
<1>5. ReceiverFollowsChannel'
  BY DEF IndInv, TypeOK, Bookkeeping, ReceiverFollowsChannel, Received, Remove
<1> QED BY <1>2, <1>3, <1>4, <1>5 DEF IndInv, Bookkeeping

LEMMA PublishInd ==
  ASSUME IndInv, NEW f \in Flights, Publish(f)
  PROVE  IndInv'
<1>1. ~armed[f] /\ taken[f] = f /\ value[f] # Nothing /\ open[f]
  BY DEF IndInv, Bookkeeping, GuardFollowsTask, Running, Publish
<1>2. /\ task[f] = "publishing"
      /\ task' = [task EXCEPT ![f] = "ended"]
      /\ taken' = [taken EXCEPT ![f] = NoFlight]
      /\ open' = [g \in Flights |-> open[g] /\ g # f]
      /\ UNCHANGED <<inflight, armed, keyOf, value>>
  BY <1>1 DEF Publish, DropCleanup
<1>3. caller' = [c \in Callers |->
                   IF caller[c].at = "waiting" /\ caller[c].flight = f
                   THEN [caller[c] EXCEPT !.got = value[f]]
                   ELSE caller[c]]
  BY <1>1 DEF Publish, Sent
<1>4. TypeOK'
  <2>1. ASSUME NEW c \in Callers
        PROVE  caller'[c] \in {Idle} \cup
                 [at : {"waiting"}, flight : Flights,
                  got : Flights \cup {Nothing, Default}]
    BY <1>3 DEF IndInv, TypeOK, Idle
  <2> QED BY <1>2, <1>3, <2>1 DEF IndInv, TypeOK
<1>5. MapHoldsRunning'
  BY <1>2 DEF IndInv, TypeOK, Bookkeeping, MapHoldsRunning, Running
<1>6. GuardFollowsTask'
  BY <1>2 DEF IndInv, TypeOK, Bookkeeping, GuardFollowsTask, Running
<1>7. ReceiverFollowsChannel'
  <2> SUFFICES ASSUME NEW c \in Callers, caller'[c].at = "waiting"
               PROVE  (IF open[caller[c].flight]
                       THEN caller[c].got = Nothing
                       ELSE Received(c) = value[caller[c].flight])'
    BY DEF ReceiverFollowsChannel
  <2>1. /\ caller[c].at = "waiting" /\ caller[c].flight \in Flights
        /\ caller'[c].flight = caller[c].flight
    BY <1>3 DEF IndInv, TypeOK, Idle
  <2>2. CASE caller[c].flight = f
    BY <2>1, <2>2, <1>1, <1>2, <1>3 DEF IndInv, TypeOK, Received, Idle
  <2>3. CASE caller[c].flight # f
    BY <2>1, <2>3, <1>2, <1>3
    DEF IndInv, Bookkeeping, ReceiverFollowsChannel, Received
  <2> QED BY <2>2, <2>3
<1> QED BY <1>4, <1>5, <1>6, <1>7 DEF IndInv, Bookkeeping

LEMMA NextInd == IndInv /\ [Next]_vars => IndInv'
<1> SUFFICES ASSUME IndInv, [Next]_vars PROVE IndInv' OBVIOUS
<1>1. CASE UNCHANGED vars
  BY <1>1 DEF vars, IndInv, TypeOK, Bookkeeping, MapHoldsRunning,
     GuardFollowsTask, ReceiverFollowsChannel, Running, Received
<1>2. CASE Next
  <2>1. CASE \E c \in Callers, k \in Keys : Follow(c, k)
    BY <2>1, FollowInd
  <2>2. CASE \E c \in Callers, k \in Keys : Reject(c, k)
    BY <2>2, <1>1 DEF Reject
  <2>3. CASE \E c \in Callers, k \in Keys, f \in Flights : Lead(c, k, f)
    BY <2>3, LeadInd
  <2>4. CASE \E c \in Callers : Return(c) \/ Cancel(c)
    BY <2>4, LeaveInd
  <2>5. CASE \E f \in Flights : Compute(f) \/ TimeOut(f)
    BY <2>5, FinishInd
  <2>6. CASE \E f \in Flights : Panic(f) BY <2>6, PanicInd
  <2>7. CASE \E f \in Flights : Remove(f) BY <2>7, RemoveInd
  <2>8. CASE \E f \in Flights : Publish(f) BY <2>8, PublishInd
  <2> QED
    BY <1>2, <2>1, <2>2, <2>3, <2>4, <2>5, <2>6, <2>7, <2>8 DEF Next
<1> QED BY <1>1, <1>2

\* The map, the guards, the channels and the receivers agree in every
\* reachable state.
THEOREM BookkeepingHolds == Spec => []IndInv
BY InitInd, NextInd, PTL DEF Spec

\* Type correctness.
THEOREM TypeCorrect == Spec => []TypeOK
<1>1. IndInv => TypeOK BY DEF IndInv
<1> QED BY <1>1, BookkeepingHolds, PTL

\* No two recomputes of one key are ever under way.
THEOREM NoHerd == Spec => []OneFlightPerKey
<1>1. IndInv => OneFlightPerKey
  BY DEF IndInv, Bookkeeping, MapHoldsRunning, OneFlightPerKey
<1> QED BY <1>1, BookkeepingHolds, PTL

\* Every receiver ends with the outcome of the flight it joined.
THEOREM OutcomeIsShared == Spec => []CallersShareTheOutcome
<1>1. IndInv => CallersShareTheOutcome
  BY DEF IndInv, TypeOK, Bookkeeping, GuardFollowsTask, ReceiverFollowsChannel,
     CallersShareTheOutcome, Idle
<1> QED BY <1>1, BookkeepingHolds, PTL

\* Entries of the map stay within the ceiling.
THEOREM KeysAreBounded == Spec => []KeysWithinLimit
<1>1. Init => KeysWithinLimit
  <2> SUFFICES ASSUME Init PROVE KeysWithinLimit OBVIOUS
  <2>1. ActiveKeys = {} BY DEF Init, ActiveKeys
  <2> QED BY <2>1, FS_EmptySet, LimitAssumption DEF KeysWithinLimit
<1>2. IndInv /\ KeysWithinLimit /\ [Next]_vars => KeysWithinLimit'
  <2> SUFFICES ASSUME IndInv, KeysWithinLimit, [Next]_vars
               PROVE  KeysWithinLimit'
    OBVIOUS
  <2>0. IsFiniteSet(ActiveKeys) /\ Cardinality(ActiveKeys) \in Nat
    BY FiniteAssumption, FS_Subset, FS_CardinalityType DEF ActiveKeys
  <2>1. ASSUME NEW c \in Callers, NEW k \in Keys, NEW f \in Flights,
               Lead(c, k, f)
        PROVE  KeysWithinLimit'
    <3>1. ActiveKeys' = ActiveKeys \cup {k} /\ k \notin ActiveKeys
      BY <2>1, NullAssumption DEF ActiveKeys, Lead, IndInv, TypeOK
    <3>2. Cardinality(ActiveKeys') = Cardinality(ActiveKeys) + 1
      BY <3>1, <2>0, FS_AddElement
    <3>3. Cardinality(ActiveKeys) < KeyLimit
      BY <2>1, <2>0, LimitAssumption DEF Lead, LimitReached
    <3> QED BY <3>2, <3>3, <2>0, LimitAssumption DEF KeysWithinLimit
  <2>2. ASSUME ActiveKeys' \subseteq ActiveKeys
        PROVE  KeysWithinLimit'
    <3>1. Cardinality(ActiveKeys') <= Cardinality(ActiveKeys)
          /\ Cardinality(ActiveKeys') \in Nat
      BY <2>2, <2>0, FS_Subset, FS_CardinalityType
    <3> QED BY <3>1, <2>0, LimitAssumption DEF KeysWithinLimit
  <2>3. ASSUME UNCHANGED inflight PROVE KeysWithinLimit'
    BY <2>3, <2>2 DEF ActiveKeys
  <2>4. ASSUME NEW f \in Flights,
               inflight' = [inflight EXCEPT ![keyOf[f]] = NoFlight]
        PROVE  KeysWithinLimit'
    BY <2>4, <2>2 DEF ActiveKeys, IndInv, TypeOK
  <2>5. CASE UNCHANGED vars BY <2>5, <2>3 DEF vars
  <2>6. CASE \E c \in Callers, k \in Keys : Follow(c, k) \/ Reject(c, k)
    BY <2>6, <2>3 DEF Follow, Reject, vars
  <2>7. CASE \E c \in Callers : Return(c) \/ Cancel(c)
    BY <2>7, <2>3 DEF Return, Cancel
  <2>8. CASE \E f \in Flights : Compute(f) \/ TimeOut(f)
    BY <2>8, <2>3 DEF Compute, TimeOut
  <2>9. CASE \E f \in Flights : Panic(f) \/ Publish(f)
    BY <2>9, <2>3, <2>4 DEF Panic, Publish, DropCleanup
  <2>10. CASE \E f \in Flights : Remove(f) BY <2>10, <2>4 DEF Remove
  <2> QED
    BY <2>1, <2>5, <2>6, <2>7, <2>8, <2>9, <2>10 DEF Next
<1> QED BY <1>1, <1>2, BookkeepingHolds, PTL DEF Spec

=============================================================================
