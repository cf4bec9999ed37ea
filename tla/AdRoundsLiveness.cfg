SPECIFICATION FairSpec
CONSTANTS
  s1 = s1
  w1 = w1
  w2 = w2
  p1 = p1
  p2 = p2
  Services <- OneService
  Scanners <- OneScanner
  Pipes <- OnePipe
  NoPipe = NoPipe
  MaxRounds = 1
  MaxBackends = 2
  MaxCrashes = 1
  MaxChurn = 1
CHECK_DEADLOCK FALSE
INVARIANTS OkNeedsDelivery
PROPERTIES EveryRoundIsClosed EvidenceIsImmutable
