SPECIFICATION MCSpec
CONSTANTS
  root = root
  waiter = waiter
  signaler = signaler
  yielder = yielder
  awaited = awaited
  single = single
  w1 = w1
  w2 = w2
  Worker = {w1, w2}
  Main = Main
  Timer = Timer
  Outsider <- Outside
  Coroutine = {root, waiter, signaler, yielder, awaited, single}
  Program <- Programs
  NoJob = NoJob
  Group = Group
  Frame = Frame
  Noop = Noop
  Arm = Arm
  Callback = Callback
  EMPTY = EMPTY
  SIGNALED = SIGNALED
  TIMED_OUT = TIMED_OUT
  CADENCE = 1
  SPURIOUS = 1
INVARIANTS WorkKept JoinMeansDone NothingAbandoned
PROPERTY Ends
