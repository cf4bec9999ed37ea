SPECIFICATION FairSpec
CONSTANTS
  j1 = j1 j2 = j2 o1 = o1 o2 = o2
  w1 = w1 w2 = w2 t1 = t1 t2 = t2 t3 = t3
  NoJob = NoJob NoToken = NoToken
  Jobs = {j1}
  Operations = {o1, o2}
  RequestsOf <- ReconcileRequests
  Workers = {w1, w2}
  WorkerLane <- GameplayLane
  Tokens = {t1, t2}
  Scopes <- ReconcileScopes
  GameOf <- ReconcileGames
  ParticipationOf <- ReconcileTeams
  Fingerprints <- MCFingerprints
  Work <- MCWork
  Lease = 2
  Budget = 1
  Retention = 1
  Slots <- TwoSlots
  MaxActiveJobs = 2
  MaxActiveResetsPerGame = 2
  MaxActiveResetsPerParticipation = 1
  MaxOperationAliasesPerJob = 2
  MaxRevision = 1
  MaxCrashes = 1
INVARIANTS ExclusiveExecution SuccessCoversInput CancellationWins
PROPERTIES CancellationSettles EveryJobSettles
