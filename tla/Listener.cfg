SPECIFICATION Spec
CONSTANTS
  a = a
  b = b
  Listeners = {a, b}
  Callers = {c1, c2}
  Loop = loop
  NoThread = NoThread
  NoListener = NoListener
  Deps <- BDependsOnA
  Modes <- MixedModes
  MayFail = {b}
  MayBreak = {a}
  StateGraph = {a}
  FreeAfter = {a}
  HandlerCalls = {a}
  Repeat = TRUE
  MaxEvents = 1
  MaxStarts = 2
SYMMETRY CallerSymmetry
CHECK_DEADLOCK FALSE
INVARIANTS
  TypeOK
  InternedOnce
  StoppedIsQuiet
  NoLockLeaked
