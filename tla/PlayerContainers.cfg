SPECIFICATION FairSpec
CONSTANTS
  o1 = o1
  o2 = o2
  Ops <- TwoOperations
  MaxPubs = 2
  MaxRuntimes = 2
  MaxFaults = 1
INVARIANTS TypeOK OneMutator ExtensionIsHonoured TeardownHitsItsTarget
PROPERTIES PublishedRuntimeIsSpared EveryLaunchSettles 
