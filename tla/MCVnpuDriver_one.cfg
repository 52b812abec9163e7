SPECIFICATION Spec
CONSTANTS
  w0 = w0
  w1 = w1
  j0 = j0
  a = a
  b = b
  NoThread = NoThread
  Revision = 2
  Word <- MCWord
  ZeroWord = w0
  JobId <- MCJobId
  NoJob = j0
  Thread <- MCOneThread
  Request <- MCLongAndBad
  FaultMask <- MCMasks
  CopyOutcome = {TRUE, FALSE}
  Smp = FALSE
  SharedLine = FALSE
  VecLenSet = TRUE
  MaxCalls = 5
INVARIANTS
  TypeOK
  DeviceFreeWithLock
  StatsBalance
  CompletionNotLost
PROPERTIES
  ResultIsMine
  ErrorIsMine
  ResetSucceeds
  ImplementsService
