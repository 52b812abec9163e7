SPECIFICATION CtlSpec
CONSTANTS
  a = a
  j0 = j0
  NoThread = NoThread
  NoCommand = NoCommand
  Revision = 2
  Word <- MCWord
  ZeroWord <- MCZeroWord
  JobId <- MCJobId
  NoJob = j0
  Thread <- MCThread
  Request <- MCRequests
  FaultMask <- MCMasks
  CopyOutcome = {TRUE}
  Smp = FALSE
  SharedLine = FALSE
  VecLenSet = FALSE
  MaxCalls = 5
  CommandLine <- MCCommands
INVARIANTS
  ReplyIsProduct
CHECK_DEADLOCK FALSE
