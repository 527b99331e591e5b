SPECIFICATION FairSpec
CONSTANTS
  Events = {e1, e2}
  Producers = {p1, p2}
  Workers = {w1, w2}
  Waiters = {u1}
  LoopThread = w1
  Flusher = fl
  NoEvent = NoEvent
  NoThread = NoThread
  PipeCap = 1
CHECK_DEADLOCK FALSE
INVARIANTS
  TypeOK
  NoUseAfterFree
  QueueOwnership
  ResponseAfterHandling
PROPERTIES
  DeliversEvents
  CreatedIsReleased
  WaiterReturns
