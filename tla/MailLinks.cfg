SPECIFICATION Spec
CONSTANTS
  o1 = o1
  o2 = o2
  a1 = a1
  w1 = w1
  w2 = w2
  s1 = s1
  s2 = s2
  t1 = t1
  t2 = t2
  t3 = t3
  Operations <- TwoMails
  Accounts <- OneAccount
  Requested <- Changes
  Workers <- TwoWorkers
  Slots <- TwoSlots
  Tokens <- ThreeTokens
  NoToken = NoToken
  NoSlot = NoSlot
  NoAccount = NoAccount
  MaxAttempts = 2
  MaxActive = 2
  MaxStored = 2
  MaxStamps = 1
  MaxGenerations = 2
  MaxCrashes = 0
SYMMETRY Symmetry
CHECK_DEADLOCK FALSE
INVARIANTS OneCurrentLink
