\* Reconciles of one game and resets of two services of one team compete for
\* one gameplay slot; keys are reused, rows purged and reinserted.
SPECIFICATION Spec
CONSTANTS
  j1 = j1 j2 = j2 o1 = o1 o2 = o2
  w1 = w1 w2 = w2 t1 = t1 t2 = t2 t3 = t3
  NoJob = NoJob NoToken = NoToken
  Jobs = {j1, j2}
  Operations = {o1, o2}
  RequestsOf <- MixedRequests
  Workers = {w1, w2}
  WorkerLane <- GameplayLane
  Tokens = {t1, t2, t3}
  Scopes <- MixedScopes
  GameOf <- MixedGames
  ParticipationOf <- MixedTeams
  Fingerprints <- MCFingerprints
  Work <- MCWork
  Lease = 2
  Budget = 1
  Retention = 0
  Slots <- OneSlot
  MaxActiveJobs = 2
  MaxActiveResetsPerGame = 2
  MaxActiveResetsPerParticipation = 1
  MaxOperationAliasesPerJob = 2
  MaxRevision = 1
  MaxCrashes = 0
SYMMETRY TaskSymmetry
INVARIANTS AdmissionIsSound LaneBudget
PROPERTIES ImplementsJobService
