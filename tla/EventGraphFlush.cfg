SPECIFICATION SpecFlush
CONSTANTS
  Events = {e1, e2}
  Producers = {p1}
  Workers = {w1, w2}
  Waiters = {u1}
  LoopThread = w1
  Flusher = fl
  NoEvent = NoEvent
  NoThread = NoThread
  PipeCap = 1
SYMMETRY EventSymmetry
CHECK_DEADLOCK FALSE
INVARIANT
  FreedWithoutReferences
