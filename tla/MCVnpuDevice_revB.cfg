SPECIFICATION Spec
CONSTANTS
  w0 = w0
  w1 = w1
  j0 = j0
  Revision = 2
  Word <- MCWord
  ZeroWord = w0
  JobId <- MCOneJob
  NoJob = j0
  Lengths <- MCLengths
  Masks <- MCMasks
INVARIANTS
  TypeOK
  IrqLineTracksPending
  TimerOnlyInFlight
  CompletionMeansFinished
  ErrorHasCause
PROPERTIES
  StuckUntilReset
  ResultStable
  LifecycleWithReject
