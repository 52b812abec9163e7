SPECIFICATION FairSpec
CONSTANTS
  w0 = w0
  w1 = w1
  j0 = j0
  a = a
  b = b
  NoThread = NoThread
  Revision = 2
  Word <- MCWord
  ZeroWord = w0
  JobId <- MCJobId
  NoJob = j0
  Thread <- MCTwoThreads
  Request <- MCShort
  FaultMask <- MCFaults
  CopyOutcome = {TRUE}
  Smp = TRUE
  SharedLine = TRUE
  VecLenSet = TRUE
  MaxCalls = 3
INVARIANTS
  LockDiscipline
  SnapshotBounded
PROPERTIES
  ResetSucceeds
  DocumentedLifecycle
  EveryCallReturns
