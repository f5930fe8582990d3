SPECIFICATION Spec
CONSTANTS
  j1 = j1
  j2 = j2
  j3 = j3
  j4 = j4
  Jobs = {j1, j2}
  KindOf <- ThreeAndOne
  NoJob = NoJob
  NoTimer = NoTimer
  MaxAttempts = 2
  RetryDelay = 2
  StartDelays = {1, 2}
  MaxAdds = 1
  WriteMayFail = TRUE
  MayStop = TRUE
PROPERTY RetryRunsAgain
