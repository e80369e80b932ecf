SPECIFICATION ASpec
CONSTANTS
  Thread = {w, a, b}
  Guard = {g}
  Waiter = {w}
  Allocator = {a}
  CYCLE = 4
  COUNT_MAX = 4
INVARIANTS ATypeOK
PROPERTIES Embargo
