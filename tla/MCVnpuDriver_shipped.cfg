SPECIFICATION Spec
CONSTANTS
  w0 = w0
  w1 = w1
  j0 = j0
  a = a
  b = b
  NoThread = NoThread
  Revision = 2
  Word <- MCWord
  ZeroWord = w0
  JobId <- MCJobId
  NoJob = j0
  Thread <- MCTwoThreads
  Request <- MCLongAndBad
  FaultMask <- MCMasks
  CopyOutcome = {TRUE}
  Smp = FALSE
  SharedLine = FALSE
  VecLenSet = FALSE
  MaxCalls = 3
INVARIANTS
  NothingEverStarts
\* Threads that wait for the mutex never leave.
CHECK_DEADLOCK FALSE
