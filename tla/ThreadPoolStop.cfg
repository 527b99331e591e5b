SPECIFICATION FairSpec
CONSTANTS
  lsn = lsn
  nfq = nfq
  app = app
  grp = grp
  Users = {lsn}
  MaxThreads = 2
  NoUser = NoUser
  Kind <- ListenerJob
  MaxRuns = 1
CHECK_DEADLOCK FALSE
PROPERTY
  StopReturns
