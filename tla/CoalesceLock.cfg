\* Four callers and three keys at a cap of two: a lookup of the third key
\* sweeps, with the other two dead, in use or one of each.
CONSTANTS
  c1 = c1 c2 = c2 c3 = c3 c4 = c4 k1 = k1 k2 = k2 k3 = k3 l1 = l1 l2 = l2 l3 = l3 l4 = l4
  Callers = {c1, c2, c3, c4}
  Keys = {k1, k2, k3}
  Locks = {l1, l2, l3, l4}
  MaxCoalesceKeys = 2
  NoLock = NoLock
  NoCaller = NoCaller
  NoKey = NoKey
SPECIFICATION FairSpec
INVARIANTS ExclusivePerKey
PROPERTIES EveryWaiterServed
