\* Two callers and two keys at a limit of one; a third flight is there when
\* two leaders still publish.
CONSTANTS
  c1 = c1 c2 = c2 f1 = f1 f2 = f2 f3 = f3
  Callers = {c1, c2}
  Keys = {"k1", "k2"}
  Flights = {f1, f2, f3}
  KeyLimit = 1
  NoFlight = NoFlight
  Nothing = Nothing
  Default = Default
SPECIFICATION FairSpec
INVARIANTS OneFlightPerKey CallersShareTheOutcome
PROPERTIES EveryCallReturns
