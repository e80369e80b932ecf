SPECIFICATION FairSpec
CONSTANTS
  t1 = t1
  t2 = t2
  t3 = t3
  k1 = k1
  k2 = k2
  k3 = k3
  w1 = w1
  w2 = w2
  NoKey = NoKey
  NoNode = NoNode
  Txn = {t1, t2, t3}
  Key = {k1, k2, k3}
  Worker = {w1, w2}
  Priority <- Ranks3
  Proposals <- WritesAndWaits
INVARIANTS Sound Exclusive AllOrNothing Deterministic WaitersExact
PROPERTIES ResolutionSpec TickEnds
