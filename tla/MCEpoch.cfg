SPECIFICATION FairSpec
CONSTANTS
  Thread = {w, a, b}
  Guard = {g}
  Waiter = {w}
  CYCLE = 4
  COUNT_MAX = 4
INVARIANTS TypeOK PinHoldsEpoch PinAccounting NoTrap NoLostWakeup
PROPERTIES EpochAdvances GraceSpec WaitReturns
