SPECIFICATION FairSpec
CONSTANTS
  ctrl = ctrl
  sock = sock
  cctrl = cctrl
  rd = rd
  wr = wr
  Fds = {ctrl, sock}
  Cbs = {cctrl, rd, wr}
  NoFd = NoFd
  NoCb = NoCb
  CtrlFd = ctrl
  CtrlCb = cctrl
  FdOf <- MCFdOf
  Flags <- MCFlags
  Default = {rd}
  max_n_events = 0
  FreesInUse = FALSE
  PipeCap = 1
  MaxTime = 2
  MaxOps = 1
  MaxDepth = 2
  MaxArrivals = 1
CHECK_DEADLOCK FALSE
PROPERTIES
  StopEndsLoop
  TimeoutExpires
