SPECIFICATION FairSpec
CONSTANTS
  lsn = lsn
  nfq = nfq
  app = app
  grp = grp
  Users = {lsn, nfq, app, grp}
  MaxThreads = 2
  NoUser = NoUser
  Kind <- MixedJobs
  MaxRuns = 2
CHECK_DEADLOCK FALSE
INVARIANTS
  TypeOK
  JobsAreExclusive
PROPERTIES
  StartIsNotLost
  FinishReturns
