SPECIFICATION ProbeSpec
CONSTANTS
  w0 = w0
  j0 = j0
  a = a
  NoThread = NoThread
  Revision = 1
  Word <- MCWord
  ZeroWord = w0
  JobId <- MCJobId
  NoJob = j0
  Thread <- MCThread
  Request <- MCRequests
  FaultMask <- MCMasks
  CopyOutcome = {TRUE, FALSE}
  Smp = FALSE
  SharedLine = TRUE
  VecLenSet = FALSE
  MaxCalls = 4
  ToolLengths <- MCLengths
  ToolMasks <- MCToolMasks
  EarlyOpen = FALSE
  MayFail <- MCMayFail
  MaxProbes = 3
INVARIANTS
  FailedProbeReleasesAll
CHECK_DEADLOCK FALSE
