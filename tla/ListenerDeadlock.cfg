SPECIFICATION FairSpec
CONSTANTS
  a = a
  b = b
  Listeners = {a}
  Callers = {c1}
  Loop = loop
  NoThread = NoThread
  NoListener = NoListener
  Deps <- NoDeps
  Modes <- LoopMode
  MayFail = {}
  MayBreak = {a}
  StateGraph = {a}
  FreeAfter = {}
  HandlerCalls = {}
  Repeat = FALSE
  MaxEvents = 1
  MaxStarts = 1
CHECK_DEADLOCK FALSE
PROPERTY
  StopCompletes
