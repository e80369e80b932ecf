SPECIFICATION MCSpec
CONSTANTS
  m1 = m1
  c = c
  o1 = o1
  o2 = o2
  h1 = h1
  NoObject = NoObject
  Mutator = {m1}
  Holder <- Threads
  Object = {o1, o2, h1}
  WeakHolder = {h1}
  BITS = 3
  LIVE_MAX = 2
  OPS = 2
INVARIANT ReachableLive
