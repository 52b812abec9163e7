-------------------------- MODULE VnpuDeviceProofs --------------------------
(***************************************************************************)
(* VnpuDevice, proved for every set of operand words, job identifiers,     *)
(* lengths and fault masks, and for both revisions: the invariants, the    *)
(* action properties, and the implementation of the documented state       *)
(* machine with rejects by software that leaves a BUSY device's length     *)
(* alone.                                                                  *)
(***************************************************************************)
EXTENDS VnpuDevice, VnpuRegsProofs

\* The inductive invariant: the invariants the runs check, together.  They
\* need each other: the timer can only fire on a device whose error is not
\* FORCED, and only then is the outcome of the firing consistent.
IInv == Sound(dev)

LEMMA InitIInv == Init => IInv
BY RegisterInitSound DEF Init, IInv

\* One step per MMIO handler, and the timer.
LEMMA NextIInv == IInv /\ [Next]_vars => IInv'
<1>. SUFFICES ASSUME Sound(dev), [Next]_vars
              PROVE  Sound(dev')
  BY DEF IInv, Sound, LineSound, TimerSound, CompletionSound, ErrorSound
<1>1. CASE MmioControl
  BY <1>1, WriteControlSound DEF MmioControl
<1>2. CASE MmioIrqStatus
  BY <1>2, WriteIrqStatusSound DEF MmioIrqStatus
<1>3. CASE MmioIrqEnable
  BY <1>3, WriteIrqEnableSound DEF MmioIrqEnable
<1>4. CASE MmioJobId
  BY <1>4, WriteJobIdSound DEF MmioJobId
<1>5. CASE MmioVectorLength
  BY <1>5, WriteVectorLengthSound DEF MmioVectorLength
<1>6. CASE MmioInput
  BY <1>6, WriteInputSound DEF MmioInput
<1>7. CASE MmioFaultControl
  BY <1>7, WriteFaultControlSound DEF MmioFaultControl
<1>8. CASE MmioReadResult
  BY <1>8, ReadResultSound DEF MmioReadResult
<1>9. CASE TimerFires
  BY <1>9, DotTimerSound DEF TimerFires
<1>10. CASE UNCHANGED vars
  BY <1>10 DEF vars
<1>. QED
  BY <1>1, <1>2, <1>3, <1>4, <1>5, <1>6, <1>7, <1>8, <1>9, <1>10 DEF Next

LEMMA SpecIInv == Spec => []IInv
BY InitIInv, NextIInv, PTL DEF Spec

\* vec_len always is a length the revision computes, FAULT_CONTROL one bit.
THEOREM TypeCorrect == Spec => []TypeOK
<1>. IInv => TypeOK
  BY DEF IInv, Sound, TypeOK
<1>. QED
  BY SpecIInv, PTL

\* No handler, on any path, leaves the interrupt line out of date.
THEOREM LineCorrect == Spec => []IrqLineTracksPending
<1>. IInv => IrqLineTracksPending
  BY DEF IInv, Sound, LineSound, IrqLineTracksPending
<1>. QED
  BY SpecIInv, PTL

\* An idle or finished device has no dot_timer pending.
THEOREM TimerCorrect == Spec => []TimerOnlyInFlight
<1>. IInv => TimerOnlyInFlight
  BY DEF IInv, Sound, TimerSound, TimerOnlyInFlight
<1>. QED
  BY SpecIInv, PTL

\* A pending completion interrupt means the operation has ended well.
THEOREM CompletionCorrect == Spec => []CompletionMeansFinished
<1>. IInv => CompletionMeansFinished
  BY DEF IInv, Sound, CompletionSound, CompletionMeansFinished
<1>. QED
  BY SpecIInv, PTL

\* STATUS_ERROR has a cause, and a forced error stays until RESET.
THEOREM ErrorCorrect == Spec => []ErrorHasCause
<1>. IInv => ErrorHasCause
  BY DEF IInv, Sound, ErrorSound, ErrorHasCause
<1>. QED
  BY SpecIInv, PTL
----------------------------------------------------------------------------
\* Only an unsupported length written while BUSY departs from the documented
\* machine, and the timer that it leaves pending: an idle or finished device has
\* none (TimerSound), so the timer fires in BUSY or in that ERROR.
THEOREM LifecycleFollowed == Spec => LifecycleWithReject
<1>1. ASSUME IInv, [Next]_vars
      PROVE  \/ RejectedWhileBusy \/ RejectedEnds
             \/ [Lifecycle!Next \/ Lifecycle!Reject]_(Lifecycle!vars)
  <2>. USE DEF Lifecycle!vars
  <2>. Sound(dev)
    BY <1>1 DEF IInv
  <2>1. CASE MmioControl
    <3>1. PICK val : dev' = WriteControl(dev, val)
      BY <2>1 DEF MmioControl
    <3>2. \/ dev'.status = "IDLE" /\ ~dev'.timer
          \/ dev.status = "IDLE" /\ dev'.status = "BUSY" /\ dev'.timer
          \/ dev'.status = dev.status /\ dev'.timer = dev.timer
      BY <3>1, ControlStep
    <3>3. dev'.timer \in BOOLEAN
      BY <3>1, WriteControlSound DEF Sound, Device
    <3>. QED
      BY <3>2, <3>3 DEF Lifecycle!Next, Lifecycle!Start, Lifecycle!Reset
  <2>2. CASE MmioVectorLength /\ ~RejectedWhileBusy
    <3>1. PICK val \in Lengths : dev' = WriteVectorLength(dev, val)
      BY <2>2 DEF MmioVectorLength
    <3>2. CASE val \in SupportedLen
      <4>1. dev'.timer = dev.timer /\ dev'.status = dev.status
        BY <3>1, <3>2 DEF WriteVectorLength, Sound, Device
      <4>. QED
        BY <4>1
    <3>3. CASE val \notin SupportedLen
      <4>1. dev.status # "BUSY"
        BY <2>2, <3>1, <3>3 DEF RejectedWhileBusy
      <4>2. dev'.timer = dev.timer /\ dev'.status = "ERROR"
        BY <3>1, <3>3 DEF WriteVectorLength, UpdateIrq, Sound, Device
      <4>. QED
        BY <4>1, <4>2 DEF Lifecycle!Reject
    <3>. QED
      BY <3>2, <3>3
  <2>3. CASE MmioReadResult
    <3>1. /\ dev'.timer = dev.timer
          /\ \/ dev'.status = dev.status
             \/ dev.status = "DONE" /\ dev'.status = "IDLE"
      BY <2>3, ReadResultStep DEF MmioReadResult
    <3>. QED
      BY <3>1 DEF Lifecycle!Next, Lifecycle!Consume
  <2>4. CASE TimerFires /\ dev.status # "ERROR"
    <3>1. /\ dev.timer /\ ~dev'.timer /\ dev'.timer \in BOOLEAN
          /\ dev'.status \in {"DONE", "ERROR", "BUSY"}
      BY <2>4, DotTimerSound DEF TimerFires, Sound, Device
    <3>2. dev.status = "BUSY"
      BY <2>4, <3>1 DEF Sound, TimerSound
    <3>. QED
      BY <3>1, <3>2 DEF Lifecycle!Next, Lifecycle!Finish
  <2>5. CASE MmioIrqStatus \/ MmioIrqEnable \/ MmioJobId \/ MmioInput \/ MmioFaultControl
    <3>1. dev'.timer = dev.timer /\ dev'.status = dev.status
      BY <2>5, QuietStep
      DEF MmioIrqStatus, MmioIrqEnable, MmioJobId, MmioInput, MmioFaultControl
    <3>. QED
      BY <3>1
  <2>6. CASE UNCHANGED vars
    BY <2>6 DEF vars
  <2>. QED
    BY <1>1, <2>1, <2>2, <2>3, <2>4, <2>5, <2>6 DEF Next, RejectedEnds
<1>. QED
  BY <1>1, SpecIInv, PTL DEF Spec, LifecycleWithReject
----------------------------------------------------------------------------
\* RESULT is written by the timer callback alone.
LEMMA ResultKept ==
  ASSUME NEW d \in Device, NEW val, NEW i, NEW w
  PROVE  \A e \in {WriteControl(d, val), WriteVectorLength(d, val), ReadResult(d),
                   WriteIrqStatus(d, val), WriteIrqEnable(d, val),
                   WriteJobId(d, val), WriteInput(d, i, w),
                   WriteFaultControl(d, val)} : e.result = d.result
<1>1. WriteControl(d, val).result = d.result
  <2>1. ControlReset(d).result = d.result
    BY DEF ControlReset, UpdateIrq, Device
  <2>2. StartRejected(d).result = d.result
    BY DEF StartRejected, UpdateIrq, Device
  <2>3. StartAccepted(d).result = d.result
    BY DEF StartAccepted, UpdateIrq, Device
  <2>. QED
    BY <2>1, <2>2, <2>3 DEF WriteControl
<1>2. WriteVectorLength(d, val).result = d.result
  BY DEF WriteVectorLength, UpdateIrq, Device
<1>3. ReadResult(d).result = d.result
  BY DEF ReadResult, Device
<1>4. /\ WriteIrqStatus(d, val).result = d.result
      /\ WriteIrqEnable(d, val).result = d.result
      /\ WriteJobId(d, val).result = d.result
      /\ WriteInput(d, i, w).result = d.result
      /\ WriteFaultControl(d, val).result = d.result
  BY DEF WriteIrqStatus, WriteIrqEnable, WriteJobId, WriteInput,
         WriteFaultControl, UpdateIrq, Device
<1>. QED
  BY <1>1, <1>2, <1>3, <1>4

\* An announced result is stable until the next operation ends.
THEOREM ResultIsStable == Spec => ResultStable
<1>1. IInv /\ [Next]_vars => [dev'.result # dev.result => dev.timer /\ ~dev'.timer]_vars
  <2>. SUFFICES ASSUME Sound(dev), Next
                PROVE  dev'.result # dev.result => dev.timer /\ ~dev'.timer
    BY DEF IInv
  <2>. dev \in Device
    BY DEF Sound
  <2>1. CASE TimerFires
    BY <2>1, DotTimerSound DEF TimerFires
  <2>2. CASE MmioControl \/ MmioVectorLength \/ MmioReadResult
    BY <2>2, ResultKept DEF MmioControl, MmioVectorLength, MmioReadResult
  <2>3. CASE MmioIrqStatus \/ MmioIrqEnable \/ MmioJobId
    BY <2>3, ResultKept DEF MmioIrqStatus, MmioIrqEnable, MmioJobId
  <2>4. CASE MmioInput \/ MmioFaultControl
    BY <2>4, ResultKept DEF MmioInput, MmioFaultControl
  <2>. QED
    BY <2>1, <2>2, <2>3, <2>4 DEF Next
<1>. QED
  BY <1>1, SpecIInv, PTL DEF Spec, ResultStable

\* A stuck device is released by RESET only, or fails on a bad length.
THEOREM StuckIsStuck == Spec => StuckUntilReset
<1>. DEFINE Stuck == dev.status = "BUSY" /\ ~dev.timer /\ dev'.status # "BUSY"
            Freed == dev' = ControlReset(dev) \/ dev'.err_code = "INVALID_LENGTH"
<1>1. IInv /\ [Next]_vars => [Stuck => Freed]_vars
  <2>. SUFFICES ASSUME Sound(dev), Next, Stuck
                PROVE  Freed
    BY DEF IInv
  <2>1. CASE MmioControl
    BY <2>1, StartRejectedKeeps DEF MmioControl, WriteControl
  <2>2. CASE MmioVectorLength
    BY <2>2 DEF MmioVectorLength, WriteVectorLength, UpdateIrq, Sound, Device
  <2>3. CASE MmioReadResult
    BY <2>3, ReadResultStep DEF MmioReadResult
  <2>4. CASE MmioIrqStatus \/ MmioIrqEnable \/ MmioJobId \/ MmioInput
               \/ MmioFaultControl
    BY <2>4, QuietStep
    DEF MmioIrqStatus, MmioIrqEnable, MmioJobId, MmioInput, MmioFaultControl
  <2>5. CASE TimerFires
    BY <2>5 DEF TimerFires
  <2>. QED
    BY <2>1, <2>2, <2>3, <2>4, <2>5 DEF Next
<1>. QED
  BY <1>1, SpecIInv, PTL DEF Spec, StuckUntilReset
=============================================================================
