SPECIFICATION Spec
CONSTANTS
  s1 = s1
  w1 = w1
  w2 = w2
  p1 = p1
  p2 = p2
  Services <- OneService
  Scanners <- TwoScanners
  Pipes <- TwoPipes
  NoPipe = NoPipe
  MaxRounds = 2
  MaxBackends = 1
  MaxCrashes = 1
  MaxChurn = 1
CONSTRAINT OverlapOrSuccession
SYMMETRY Symmetry
CHECK_DEADLOCK FALSE
INVARIANTS TypeOK FailuresAreCounted SuccessionIsSettled
PROPERTIES LateVerdictsAreRefused
