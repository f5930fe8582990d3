SPECIFICATION FairSpec
CONSTANTS
  j1 = j1
  j2 = j2
  j3 = j3
  j4 = j4
  Jobs = {j1, j2, j3, j4}
  KindOf <- ThreeAndOne
  NoJob = NoJob
  NoTimer = NoTimer
  MaxAttempts = 2
  RetryDelay = 1
  StartDelays = {1, 2}
  MaxAdds = 1
  WriteMayFail = FALSE
  MayStop = TRUE
INVARIANT TypeOK
INVARIANT BoundedQueue
INVARIANT NoLostWakeup
PROPERTY OnlyFinishedJobsLeave
 
PROPERTY EveryJobLeaves
