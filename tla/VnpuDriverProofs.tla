-------------------------- MODULE VnpuDriverProofs --------------------------
(***************************************************************************)
(* VnpuDriver, proved for any number of threads and calls, any requests    *)
(* and fault masks, one CPU or several, a shared interrupt line or not:    *)
(* type correctness, that the device is only used as documented, that      *)
(* RESET succeeds and leaves a clean device, that a GET_STAT snapshot is   *)
(* consistent, what becomes of the mutex when vec_len is set, and of       *)
(* everything else when it is not.                                         *)
(***************************************************************************)
EXTENDS VnpuDriver, VnpuRegsProofs

\* Where the loops over the input words and over the counters are.
LoopsInRange ==
  \A t \in Thread :
    /\ pc[t] = "run_input" =>
         VecLen(req[t]) \in {8, 16} /\ word[t] \in 1..(VecLen(req[t]) \div 4)
    /\ pc[t] = "stat_read" => word[t] \in 1..5

\* What the validation at the top of RUN_DOT and SET_FAULT guarantees later on.
Validated ==
  \A t \in Thread : pc[t] \in RunHeld \cup {"run_lock"} => ValidRequest(req[t])

\* VECTOR_LENGTH is never rejected, so an operation in flight is BUSY.
TimerMeansBusy == dev.timer => dev.status = "BUSY"

\* What holds however the device was left and whatever reached the mutex.
Base == TypeOK /\ Sound(dev) /\ LoopsInRange

\* The inductive invariant, in every mode of the model.
IInv == Base /\ Validated /\ TimerMeansBusy
----------------------------------------------------------------------------
\* The four kinds of change a thread's pc undergoes.
LEMMA GotoFacts ==
  ASSUME TypeOK, NEW t \in Thread, NEW from, NEW to \in PC, Goto(t, from, to)
  PROVE  /\ pc' \in [Thread -> PC]
         /\ pc'[t] = to
         /\ \A s \in Thread \ {t} : pc'[s] = pc[s]
BY DEF Goto, TypeOK

LEMMA CountFacts ==
  ASSUME TypeOK, NEW f \in StatField, Count(f)
  PROVE  stats' \in [StatField -> Nat]
BY DEF Count, TypeOK

\* What a call has to return stays well formed when a field of it is set.
LEMMA OutcomeFacts ==
  ASSUME TypeOK, NEW t \in Thread, NEW c \in Code, NEW s \in DriverStatus,
         NEW r \in Result
  PROVE  /\ [out EXCEPT ![t].code = c] \in [Thread -> Outcome]
         /\ [out EXCEPT ![t].result = r] \in [Thread -> Outcome]
         /\ [out EXCEPT ![t].code = c, ![t].driver_status = s]
              \in [Thread -> Outcome]
<1>1. out \in [Thread -> Outcome]
  BY DEF TypeOK
<1>2. /\ [out[t] EXCEPT !.code = c] \in Outcome
      /\ [out[t] EXCEPT !.result = r] \in Outcome
  BY <1>1 DEF Outcome
<1>3. [out EXCEPT ![t].code = c] \in [Thread -> Outcome]
  BY <1>1, <1>2
<1>4. [out EXCEPT ![t].code = c][t] = [out[t] EXCEPT !.code = c]
  BY <1>1
<1>5. [[out[t] EXCEPT !.code = c] EXCEPT !.driver_status = s] \in Outcome
  BY <1>2 DEF Outcome
<1>. QED
  BY <1>1, <1>2, <1>3, <1>4, <1>5

\* What a call starts from.
LEMMA CleanLocals ==
  /\ NoOutcome \in Outcome
  /\ [NoOutcome EXCEPT !.code = "EINVAL"] \in Outcome
  /\ [NoOutcome EXCEPT !.code = "EFAULT"] \in Outcome
  /\ ZeroStats \in [StatField -> Nat]
<1>. RegisterInit.result \in Result
  BY RegisterInitSound DEF Sound, Device
<1>. QED
  BY DEF NoOutcome, Outcome, Code, DriverStatus, RegisterInit, ZeroStats

LEMMA InitIInv == Init => IInv
<1>. SUFFICES ASSUME Init PROVE IInv
  OBVIOUS
<1>1. Sound(dev)
  BY RegisterInitSound DEF Init
<1>2. req \in [Thread -> Request] /\ mask \in [Thread -> FaultMask]
  <2>1. (CHOOSE r \in Request : TRUE) \in Request
    BY RequestAssumption
  <2>2. (CHOOSE m \in FaultMask : TRUE) \in FaultMask
    BY FaultMaskAssumption
  <2>. QED
    BY <2>1, <2>2 DEF Init
<1>3. TypeOK
  <2>1. pc \in [Thread -> PC] /\ word \in [Thread -> Nat \ {0}]
    BY DEF Init, PC
  <2>2. snap \in [Thread -> [StatField -> Nat]] /\ out \in [Thread -> Outcome]
    BY CleanLocals DEF Init
  <2>3. isr \in [pc : {"idle", "ack", "error", "flag", "complete"},
                seen : SUBSET IrqBit]
    BY DEF Init
  <2>4. /\ done \in Nat /\ error_flag \in BOOLEAN /\ device_error \in ErrCode
        /\ mutex \in Thread \cup {NoThread} /\ calls \in 0..MaxCalls
    <3>1. /\ done = 0 /\ error_flag = FALSE /\ device_error = "NONE"
          /\ mutex = NoThread /\ calls = 0
      BY Zenon DEF Init
    <3>2. error_flag \in BOOLEAN
      BY <3>1
    <3>3. 0 \in Nat /\ 0 \in 0..MaxCalls
      BY MaxCallsAssumption
    <3>. QED
      BY <3>1, <3>2, <3>3, Zenon DEF ErrCode
  <2>5. stats \in [StatField -> Nat]
    BY CleanLocals DEF Init
  <2>. QED
    BY <1>1, <1>2, <2>1, <2>2, <2>3, <2>4, <2>5 DEF TypeOK, Sound
<1>. QED
  BY <1>1, <1>3
  DEF Init, IInv, Base, LoopsInRange, Validated, RunHeld, TimerMeansBusy, RegisterInit
----------------------------------------------------------------------------
\* Every access the driver makes, and the timer, leave the device sound.
LEMMA DeviceStep ==
  ASSUME Base, [Next]_vars
  PROVE  Sound(dev')
<1>. Sound(dev)
  BY DEF Base
<1>1. ASSUME NEW t \in Thread, Call(t)
      PROVE  Sound(dev')
  BY <1>1 DEF Call, RunDot, Reset, SetFault, GetStat, CopyInFails
<1>2. ASSUME NEW t \in Thread, RunStep(t)
      PROVE  Sound(dev')
  <2>1. CASE RunAck(t)
    BY <2>1, WriteIrqStatusSound DEF RunAck
  <2>2. CASE RunEnable(t)
    BY <2>2, WriteIrqEnableSound DEF RunEnable
  <2>3. CASE RunInput(t)
    <3>1. word[t] \in WordIndex
      BY <2>3 DEF RunInput, Goto, Base, LoopsInRange, WordIndex
    <3>2. req[t].input[word[t]] \in Word
      BY <3>1, RequestAssumption DEF Base, TypeOK, RequestType
    <3>. QED
      BY <2>3, <3>1, <3>2, WriteInputSound DEF RunInput
  <2>4. CASE RunLength(t)
    BY <2>4, WriteVectorLengthSound DEF RunLength
  <2>5. CASE RunStart(t) \/ RunTimedOut(t)
    BY <2>5, WriteControlSound DEF RunStart, RunTimedOut
  <2>6. CASE RunResult(t)
    BY <2>6, ReadResultSound DEF RunResult
  <2>7. CASE \/ RunLock(t) \/ RunBadLength(t) \/ RunCount(t)
             \/ RunWaitCompleted(t) \/ RunWaitTimeout(t) \/ RunWoken(t)
             \/ RunError(t) \/ RunClear(t)
    BY <2>7 DEF RunLock, RunBadLength, RunCount, RunWaitCompleted,
                RunWaitTimeout, RunWoken, RunError, RunClear
  <2>. QED
    BY <1>2, <2>1, <2>2, <2>3, <2>4, <2>5, <2>6, <2>7 DEF RunStep
<1>3. ASSUME NEW t \in Thread, ResetStep(t)
      PROVE  Sound(dev')
  BY <1>3, WriteIrqEnableSound, WriteControlSound, WriteIrqStatusSound
  DEF ResetStep, ResetLock, HwDisable, HwReset, HwAck, HwStatus, HwIrqStatus,
      HwErrorCode
<1>4. ASSUME NEW t \in Thread, SetFaultWrite(t) \/ GetStatRead(t) \/ CopyOut(t)
      PROVE  Sound(dev')
  BY <1>4, WriteFaultControlSound DEF SetFaultWrite, GetStatRead, CopyOut
<1>5. CASE Isr
  BY <1>5, WriteIrqStatusSound
  DEF Isr, IsrRead, IsrAck, IsrErrorCode, IsrFlag, IsrComplete
<1>6. CASE TimerFires
  BY <1>6, DotTimerSound DEF TimerFires
<1>7. CASE Finished \/ UNCHANGED vars
  BY <1>7 DEF Finished, vars
<1>. QED
  BY <1>1, <1>2, <1>3, <1>4, <1>5, <1>6, <1>7 DEF Next, Step
----------------------------------------------------------------------------
\* Type correctness of each ioctl's steps; the device is the lemma above.
LEMMA TypeCall ==
  ASSUME Base, Sound(dev'), NEW t \in Thread, Call(t)
  PROVE  TypeOK'
<1>. TypeOK
  BY DEF Base
<1>2. ASSUME NEW to \in PC, Enter(t, to)
      PROVE  pc' \in [Thread -> PC] /\ calls' \in 0..MaxCalls
  BY <1>2, GotoFacts, MaxCallsAssumption DEF Enter, TypeOK
<1>3. {"run_lock", "idle", "reset_lock", "fault_write", "stat_read"} \subseteq PC
  BY DEF PC
<1>4. CASE RunDot(t)
  <2>1. pc' \in [Thread -> PC] /\ calls' \in 0..MaxCalls
    BY <1>2, <1>3, <1>4 DEF RunDot
  <2>2. req' \in [Thread -> Request]
    BY <1>4 DEF RunDot, TypeOK
  <2>3. out' \in [Thread -> Outcome]
    BY CleanLocals, <1>4 DEF RunDot, TypeOK
  <2>4. UNCHANGED <<dev, driver, mutex, isr, mask, word, snap>>
    BY <1>4 DEF RunDot
  <2>. QED
    BY <2>1, <2>2, <2>3, <2>4 DEF TypeOK, driver, Sound
<1>5. CASE Reset(t)
  BY CleanLocals, <1>2, <1>3, <1>5 DEF Reset, TypeOK, driver, locals, Sound
<1>6. CASE SetFault(t)
  <2>1. pc' \in [Thread -> PC] /\ calls' \in 0..MaxCalls
    BY <1>2, <1>3, <1>6 DEF SetFault
  <2>2. mask' \in [Thread -> FaultMask]
    BY <1>6 DEF SetFault, TypeOK
  <2>3. out' \in [Thread -> Outcome]
    BY CleanLocals, <1>6 DEF SetFault, TypeOK
  <2>4. UNCHANGED <<dev, driver, mutex, isr, req, word, snap>>
    BY <1>6 DEF SetFault
  <2>. QED
    BY <2>1, <2>2, <2>3, <2>4 DEF TypeOK, driver, Sound
<1>7. CASE GetStat(t)
  BY CleanLocals, <1>2, <1>3, <1>7 DEF GetStat, TypeOK, driver, Sound
<1>8. CASE CopyInFails(t)
  BY CleanLocals, <1>2, <1>3, <1>8 DEF CopyInFails, TypeOK, driver, locals, Sound
<1>. QED
  BY <1>4, <1>5, <1>6, <1>7, <1>8 DEF Call

LEMMA TypeRun ==
  ASSUME Base, Sound(dev'), NEW t \in Thread, RunStep(t)
  PROVE  TypeOK'
<1>. TypeOK
  BY DEF Base
<1>. USE DEF driver, locals
<1>0. {"run_ack", "run_enable", "run_bad_length", "run_input", "run_length",
       "run_start", "run_count", "run_wait", "run_timed_out", "run_woken",
       "run_result", "run_error", "run_clear", "copy_out", "idle"} \subseteq PC
  BY DEF PC, Held, RunHeld
<1>1. CASE RunLock(t)
  BY <1>0, <1>1, GotoFacts DEF RunLock, Lock, TypeOK, Sound
<1>2. CASE RunAck(t) \/ RunLength(t) \/ RunStart(t) \/ RunWaitTimeout(t)
  BY <1>0, <1>2, GotoFacts
  DEF RunAck, RunLength, RunStart, RunWaitTimeout, TypeOK, Sound
<1>3. CASE RunEnable(t) \/ RunInput(t)
  <2>1. word' \in [Thread -> Nat \ {0}]
    BY <1>3 DEF RunEnable, RunInput, TypeOK
  <2>2. pc' \in [Thread -> PC]
    BY <1>0, <1>3, GotoFacts DEF RunEnable, RunInput
  <2>. QED
    BY <1>3, <2>1, <2>2 DEF RunEnable, RunInput, TypeOK, Sound
<1>4. CASE RunBadLength(t)
  BY <1>0, <1>4, GotoFacts DEF RunBadLength, TypeOK, Sound, Outcome, Code
<1>5. CASE RunCount(t)
  BY <1>0, <1>5, GotoFacts, CountFacts DEF RunCount, TypeOK, Sound, StatField
<1>6. CASE RunWaitCompleted(t)
  BY <1>0, <1>6, GotoFacts DEF RunWaitCompleted, TypeOK, Sound
<1>7. CASE RunTimedOut(t)
  <2>1. out' \in [Thread -> Outcome]
    <3>. "ETIMEDOUT" \in Code /\ "TIMEOUT" \in DriverStatus /\ dev.result \in Result
      BY DEF Code, DriverStatus, TypeOK, Device
    <3>. QED
      BY <1>7, OutcomeFacts DEF RunTimedOut
  <2>2. pc' \in [Thread -> PC] /\ stats' \in [StatField -> Nat]
    BY <1>0, <1>7, GotoFacts, CountFacts DEF RunTimedOut, StatField
  <2>. QED
    BY <1>7, <2>1, <2>2 DEF RunTimedOut, Unlock, TypeOK, Sound
<1>8. CASE RunWoken(t)
  BY <1>0, <1>8, GotoFacts DEF RunWoken, Unlock, TypeOK, Sound
<1>9. CASE RunError(t)
  <2>1. Errno(device_error) \in Code
    BY DEF Errno, Code
  <2>2. out' \in [Thread -> Outcome]
    <3>. "DEVICE_ERROR" \in DriverStatus /\ dev.result \in Result
      BY DEF DriverStatus, TypeOK, Device
    <3>. QED
      BY <1>9, <2>1, OutcomeFacts DEF RunError
  <2>3. pc' \in [Thread -> PC]
    BY <1>0, <1>9, GotoFacts DEF RunError
  <2>. QED
    BY <1>9, <2>2, <2>3 DEF RunError, TypeOK, Sound
<1>10. CASE RunClear(t)
  BY <1>0, <1>10, GotoFacts DEF RunClear, TypeOK, Sound
<1>11. CASE RunResult(t)
  <2>1. out' \in [Thread -> Outcome]
    <3>. dev.result \in Result /\ "OK" \in Code /\ "OK" \in DriverStatus
      BY DEF Code, DriverStatus, TypeOK, Device
    <3>. QED
      BY <1>11, OutcomeFacts DEF RunResult
  <2>2. pc' \in [Thread -> PC] /\ stats' \in [StatField -> Nat]
    BY <1>0, <1>11, GotoFacts, CountFacts DEF RunResult, StatField
  <2>. QED
    BY <1>11, <2>1, <2>2 DEF RunResult, Unlock, TypeOK, Sound
<1>. QED
  BY <1>1, <1>2, <1>3, <1>4, <1>5, <1>6, <1>7, <1>8, <1>9, <1>10, <1>11 DEF RunStep

LEMMA TypeReset ==
  ASSUME Base, Sound(dev'), NEW t \in Thread, ResetStep(t)
  PROVE  TypeOK'
<1>. TypeOK
  BY DEF Base
<1>. USE DEF driver, locals
<1>0. ResetHeld \cup {"idle"} \subseteq PC
  BY DEF PC, Held
<1>1. ASSUME NEW from, NEW to \in PC, NEW fine, HwRead(t, from, to, fine)
      PROVE  pc' \in [Thread -> PC] /\ out' \in [Thread -> Outcome]
  BY <1>1, GotoFacts DEF HwRead, TypeOK, Outcome, Code
<1>2. CASE ResetLock(t) \/ HwDisable(t) \/ HwReset(t) \/ HwAck(t)
  BY <1>0, <1>2, GotoFacts
  DEF ResetLock, HwDisable, HwReset, HwAck, Lock, TypeOK, Sound, ResetHeld
<1>3. CASE HwStatus(t) \/ HwIrqStatus(t)
  BY <1>0, <1>1, <1>3 DEF HwStatus, HwIrqStatus, TypeOK, Sound, ResetHeld
<1>4. CASE HwErrorCode(t)
  <2>1. pc' \in [Thread -> PC] /\ out' \in [Thread -> Outcome]
    BY <1>0, <1>1, <1>4 DEF HwErrorCode
  <2>2. stats' \in [StatField -> Nat] /\ done' \in Nat
    BY <1>4, CountFacts DEF HwErrorCode, StatField, TypeOK
  <2>. QED
    BY <1>4, <2>1, <2>2 DEF HwErrorCode, Unlock, TypeOK, Sound
<1>. QED
  BY <1>2, <1>3, <1>4 DEF ResetStep

LEMMA TypeOther ==
  ASSUME Base, Sound(dev'), NEW t \in Thread,
         SetFaultWrite(t) \/ GetStatRead(t) \/ CopyOut(t)
  PROVE  TypeOK'
<1>. TypeOK
  BY DEF Base
<1>. USE DEF driver, locals
<1>0. {"stat_read", "copy_out", "idle"} \subseteq PC
  BY DEF PC
<1>1. CASE SetFaultWrite(t)
  BY <1>0, <1>1, GotoFacts DEF SetFaultWrite, TypeOK, Sound
<1>2. CASE GetStatRead(t)
  <2>1. StatOrder[word[t]] \in StatField
    BY <1>2 DEF GetStatRead, Goto, Base, LoopsInRange, StatOrder, StatField
  <2>. QED
    BY <1>0, <1>2, <2>1, GotoFacts DEF GetStatRead, TypeOK, Sound
<1>3. CASE CopyOut(t)
  <2>1. PICK ok \in CopyOutcome :
          out' = [out EXCEPT ![t].code = IF ok THEN out[t].code ELSE "EFAULT"]
    BY <1>3 DEF CopyOut, TypeOK
  <2>2. out[t].code \in Code /\ "EFAULT" \in Code
    BY DEF TypeOK, Outcome, Code
  <2>3. \A c \in Code : [out[t] EXCEPT !.code = c] \in Outcome
    BY DEF TypeOK, Outcome
  <2>4. out' \in [Thread -> Outcome]
    BY <2>1, <2>2, <2>3 DEF TypeOK
  <2>5. pc' \in [Thread -> PC]
    BY <1>0, <1>3, GotoFacts DEF CopyOut
  <2>. QED
    BY <1>3, <2>4, <2>5 DEF CopyOut, TypeOK, Sound
<1>. QED
  BY <1>1, <1>2, <1>3

LEMMA TypeIsr ==
  ASSUME Base, Sound(dev'), Isr
  PROVE  TypeOK'
<1>. TypeOK
  BY DEF Base
<1>. USE DEF driver, locals, threads
<1>1. CASE IsrRead
  BY <1>1 DEF IsrRead, TypeOK, Device
<1>2. CASE IsrAck
  BY <1>2 DEF IsrAck, TypeOK, Sound
<1>3. CASE IsrErrorCode
  BY <1>3 DEF IsrErrorCode, TypeOK, Device
<1>4. CASE IsrFlag
  BY <1>4, CountFacts DEF IsrFlag, TypeOK, StatField
<1>5. CASE IsrComplete
  BY <1>5 DEF IsrComplete, TypeOK
<1>. QED
  BY <1>1, <1>2, <1>3, <1>4, <1>5 DEF Isr

LEMMA TypeStep == ASSUME Base, [Next]_vars PROVE TypeOK'
<1>1. Sound(dev')
  BY DeviceStep
<1>2. CASE TimerFires
  BY <1>1, <1>2 DEF TimerFires, Base, TypeOK, Sound, driver, locals, threads
<1>3. CASE Finished \/ UNCHANGED vars
  BY <1>3 DEF Finished, vars, Base, TypeOK
<1>. QED
  BY <1>1, <1>2, <1>3, TypeCall, TypeRun, TypeReset, TypeOther, TypeIsr DEF Next, Step
----------------------------------------------------------------------------
\* A step of thread t touches no other thread's pc, request or position.
LEMMA OthersKept ==
  ASSUME TypeOK, NEW t \in Thread, Call(t) \/ Step(t), NEW s \in Thread, s # t
  PROVE  pc'[s] = pc[s] /\ req'[s] = req[s] /\ word'[s] = word[s]
<1>. USE DEF locals, Goto, Enter, HwRead
<1>1. CASE Call(t)
  <2>1. CASE RunDot(t)
    BY <2>1 DEF RunDot, TypeOK
  <2>2. CASE Reset(t) \/ SetFault(t) \/ GetStat(t) \/ CopyInFails(t)
    BY <2>2 DEF Reset, SetFault, GetStat, CopyInFails, TypeOK
  <2>. QED
    BY <1>1, <2>1, <2>2 DEF Call
<1>2. CASE RunStep(t)
  BY <1>2 DEF RunStep, RunLock, RunAck, RunEnable, RunBadLength, RunInput,
              RunLength, RunStart, RunCount, RunWaitCompleted, RunWaitTimeout,
              RunTimedOut, RunWoken, RunError, RunClear, RunResult, TypeOK
<1>3. CASE ResetStep(t)
  BY <1>3 DEF ResetStep, ResetLock, HwDisable, HwReset, HwAck, HwStatus,
              HwIrqStatus, HwErrorCode, TypeOK
<1>4. CASE SetFaultWrite(t) \/ GetStatRead(t) \/ CopyOut(t)
  BY <1>4 DEF SetFaultWrite, GetStatRead, CopyOut, TypeOK
<1>. QED
  BY <1>1, <1>2, <1>3, <1>4 DEF Step

\* The steps nobody's pc, request or position takes part in.
LEMMA NobodyMoves ==
  ASSUME Isr \/ TimerFires \/ Finished \/ UNCHANGED vars
  PROVE  UNCHANGED <<pc, req, word>>
BY DEF Isr, IsrRead, IsrAck, IsrErrorCode, IsrFlag, IsrComplete, TimerFires,
       Finished, threads, locals, vars

\* The input loop writes as many words as vec_len says, the snapshot loop reads
\* the five counters.
LEMMA LoopsStep == ASSUME Base, [Next]_vars PROVE LoopsInRange'
<1>. TypeOK /\ LoopsInRange
  BY DEF Base
<1>1. ASSUME NEW t \in Thread, Call(t) \/ Step(t)
      PROVE  /\ pc'[t] = "run_input" =>
                  VecLen(req'[t]) \in {8, 16}
                  /\ word'[t] \in 1..(VecLen(req'[t]) \div 4)
             /\ pc'[t] = "stat_read" => word'[t] \in 1..5
  <2>. USE DEF Goto, TypeOK
  <2>1. CASE Call(t)
    <3>1. CASE CopyInFails(t)
      BY <3>1 DEF CopyInFails, Enter
    <3>2. CASE ~CopyInFails(t)
      BY <2>1, <3>2 DEF Call, RunDot, Reset, SetFault, GetStat, Enter
    <3>. QED
      BY <3>1, <3>2
  <2>2. CASE RunEnable(t)
    BY <2>2 DEF RunEnable
  <2>3. CASE RunInput(t)
    <3>1. VecLen(req[t]) \in {8, 16} /\ word[t] \in 1..(VecLen(req[t]) \div 4)
      BY <2>3 DEF RunInput, LoopsInRange
    <3>2. req' = req /\ word'[t] = word[t] + 1
      BY <2>3 DEF RunInput
    <3>3. pc'[t] = "run_input" => word[t] # VecLen(req[t]) \div 4
      BY <2>3 DEF RunInput
    <3>4. pc'[t] \in {"run_input", "run_length"}
      BY <2>3 DEF RunInput
    <3>. HIDE DEF Goto, TypeOK
    <3>5. CASE VecLen(req[t]) = 8
      BY <3>1, <3>2, <3>3, <3>4, <3>5
    <3>6. CASE VecLen(req[t]) = 16
      BY <3>1, <3>2, <3>3, <3>4, <3>6
    <3>. QED
      BY <3>1, <3>5, <3>6
  <2>4. CASE RunStep(t) /\ ~RunEnable(t) /\ ~RunInput(t)
    BY <2>4 DEF RunStep, RunLock, RunAck, RunBadLength, RunLength, RunStart,
                RunCount, RunWaitCompleted, RunWaitTimeout, RunTimedOut, RunWoken,
                RunError, RunClear, RunResult
  <2>5. CASE ResetStep(t)
    BY <2>5 DEF ResetStep, ResetLock, HwDisable, HwReset, HwAck, HwStatus,
                HwIrqStatus, HwErrorCode, HwRead
  <2>6. CASE GetStatRead(t)
    <3>1. Len(StatOrder) = 5
      BY DEF StatOrder
    <3>2. pc[t] = "stat_read" /\ word[t] \in 1..5
      BY <2>6 DEF GetStatRead, LoopsInRange
    <3>3. word'[t] = word[t] + 1
      BY <2>6 DEF GetStatRead
    <3>4. pc'[t] = IF word[t] = 5 THEN "copy_out" ELSE "stat_read"
      BY <2>6, <3>1 DEF GetStatRead
    <3>. QED
      BY <3>2, <3>3, <3>4
  <2>7. CASE SetFaultWrite(t) \/ CopyOut(t)
    BY <2>7 DEF SetFaultWrite, CopyOut
  <2>. QED
    BY <1>1, <2>1, <2>2, <2>3, <2>4, <2>5, <2>6, <2>7 DEF Step
<1>2. CASE \E t \in Thread : Call(t) \/ Step(t)
  BY <1>1, <1>2, OthersKept DEF LoopsInRange
<1>3. CASE Isr \/ TimerFires \/ Finished \/ UNCHANGED vars
  BY <1>3, NobodyMoves DEF LoopsInRange
<1>. QED
  BY <1>2, <1>3 DEF Next

\* A request that reached the mutex was validated, and stays what it was.
LEMMA ValidatedStep == ASSUME TypeOK, Validated, [Next]_vars PROVE Validated'
<1>1. ASSUME NEW t \in Thread, Call(t) \/ Step(t)
      PROVE  pc'[t] \in RunHeld \cup {"run_lock"} => ValidRequest(req'[t])
  <2>. USE DEF Goto, TypeOK, RunHeld, locals
  <2>1. CASE Call(t)
    <3>1. CASE CopyInFails(t)
      BY <3>1 DEF CopyInFails, Enter
    <3>2. CASE ~CopyInFails(t)
      BY <2>1, <3>2 DEF Call, RunDot, Reset, SetFault, GetStat, Enter
    <3>. QED
      BY <3>1, <3>2
  <2>2. CASE RunStep(t)
    BY <2>2 DEF Validated, RunStep, RunLock, RunAck, RunEnable, RunBadLength,
                RunInput, RunLength, RunStart, RunCount, RunWaitCompleted,
                RunWaitTimeout, RunTimedOut, RunWoken, RunError, RunClear, RunResult
  <2>3. CASE ResetStep(t)
    BY <2>3 DEF ResetStep, ResetLock, HwDisable, HwReset, HwAck, HwStatus,
                HwIrqStatus, HwErrorCode, HwRead
  <2>4. CASE SetFaultWrite(t) \/ GetStatRead(t) \/ CopyOut(t)
    BY <2>4 DEF SetFaultWrite, GetStatRead, CopyOut
  <2>. QED
    BY <1>1, <2>1, <2>2, <2>3, <2>4 DEF Step
<1>2. CASE \E t \in Thread : Call(t) \/ Step(t)
  BY <1>1, <1>2, OthersKept DEF Validated
<1>3. CASE Isr \/ TimerFires \/ Finished \/ UNCHANGED vars
  BY <1>3, NobodyMoves DEF Validated
<1>. QED
  BY <1>2, <1>3 DEF Next
----------------------------------------------------------------------------
\* What a step of the driver or of the timer may do to the status and to the
\* operation in flight: nothing, RESET, START on an idle device, RESULT read
\* from a finished one, the end of a BUSY operation.
LegalUse ==
  \/ dev'.status = dev.status /\ dev'.timer = dev.timer
  \/ dev'.status = "IDLE" /\ ~dev'.timer
  \/ dev.status = "IDLE" /\ dev'.status = "BUSY" /\ dev'.timer
  \/ dev.status = "DONE" /\ dev'.status = "IDLE" /\ dev'.timer = dev.timer
  \/ /\ dev.status = "BUSY" /\ dev.timer /\ ~dev'.timer
     /\ dev'.status \in {"DONE", "ERROR", "BUSY"}

LEMMA LegalUseStep == ASSUME IInv, [Next]_vars PROVE LegalUse
<1>. Sound(dev)
  BY DEF IInv, Base
<1>1. CASE UNCHANGED dev
  BY <1>1 DEF LegalUse
<1>2. ASSUME NEW t \in Thread, RunStep(t), dev' # dev
      PROVE  LegalUse
  <2>1. CASE RunAck(t)
    BY <2>1, QuietStep DEF RunAck, LegalUse
  <2>2. CASE RunEnable(t)
    BY <2>2, QuietStep DEF RunEnable, LegalUse
  <2>3. CASE RunInput(t)
    BY <2>3, QuietStep DEF RunInput, LegalUse
  <2>4. CASE RunLength(t)
    <3>1. ValidRequest(req[t])
      BY <2>4 DEF RunLength, Goto, IInv, Validated, RunHeld
    <3>2. req[t].vector_length \in SupportedLen
      BY <3>1 DEF ValidRequest
    <3>. QED
      BY <2>4, <3>2, SupportedLengthStep DEF RunLength, LegalUse
  <2>5. CASE RunStart(t) \/ RunTimedOut(t)
    BY <2>5, ControlStep DEF RunStart, RunTimedOut, LegalUse
  <2>6. CASE RunResult(t)
    BY <2>6, ReadResultStep DEF RunResult, LegalUse
  <2>. QED
    BY <1>2, <2>1, <2>2, <2>3, <2>4, <2>5, <2>6
    DEF RunStep, RunLock, RunBadLength, RunCount, RunWaitCompleted,
        RunWaitTimeout, RunWoken, RunError, RunClear
<1>3. ASSUME NEW t \in Thread, ResetStep(t), dev' # dev
      PROVE  LegalUse
  <2>1. CASE HwReset(t)
    BY <2>1, ControlStep DEF HwReset, LegalUse
  <2>2. CASE HwDisable(t) \/ HwAck(t)
    BY <2>2, QuietStep DEF HwDisable, HwAck, LegalUse
  <2>. QED
    BY <1>3, <2>1, <2>2
    DEF ResetStep, ResetLock, HwStatus, HwIrqStatus, HwErrorCode
<1>4. ASSUME NEW t \in Thread, SetFaultWrite(t)
      PROVE  LegalUse
  BY <1>4, QuietStep DEF SetFaultWrite, LegalUse
<1>5. CASE IsrAck
  BY <1>5, QuietStep DEF IsrAck, LegalUse
<1>6. CASE TimerFires
  BY <1>6, DotTimerSound DEF TimerFires, LegalUse, IInv, TimerMeansBusy
<1>7. ASSUME NEW t \in Thread, Call(t) \/ GetStatRead(t) \/ CopyOut(t)
      PROVE  UNCHANGED dev
  BY <1>7 DEF Call, RunDot, Reset, SetFault, GetStat, CopyInFails, GetStatRead, CopyOut
<1>8. CASE IsrRead \/ IsrErrorCode \/ IsrFlag \/ IsrComplete \/ Finished
           \/ UNCHANGED vars
  <2>. UNCHANGED dev
    BY <1>8 DEF IsrRead, IsrErrorCode, IsrFlag, IsrComplete, Finished, vars
  <2>. QED
    BY <1>1
<1>. QED
  BY <1>1, <1>2, <1>3, <1>4, <1>5, <1>6, <1>7, <1>8 DEF Next, Step, Isr

LEMMA NextIInv == IInv /\ [Next]_vars => IInv'
<1>. SUFFICES ASSUME IInv, [Next]_vars PROVE IInv'
  OBVIOUS
<1>. Base /\ Validated
  BY DEF IInv
<1>1. Sound(dev)'
  BY DeviceStep DEF Sound, LineSound, TimerSound, CompletionSound, ErrorSound
<1>2. TimerMeansBusy'
  <2>1. dev'.timer \in BOOLEAN
    BY DeviceStep DEF Sound, Device
  <2>. QED
    BY <2>1, LegalUseStep DEF LegalUse, IInv, TimerMeansBusy, Sound, TimerSound
<1>. QED
  BY <1>1, <1>2, TypeStep, LoopsStep, ValidatedStep DEF IInv, Base

LEMMA SpecIInv == Spec => []IInv
BY InitIInv, NextIInv, PTL DEF Spec

\* Every variable of the driver keeps its type, whatever the calls.
THEOREM TypeCorrect == Spec => []TypeOK
<1>. IInv => TypeOK
  BY DEF IInv, Base
<1>. QED
  BY SpecIInv, PTL

\* The driver uses the device as docs/register_map.md describes it: with the
\* validation of vector_length in place no write is rejected, so STATUS_ERROR
\* is left by RESET only and what RESET cancels never ends.
THEOREM DriverImplementsLifecycle == Spec => DocumentedLifecycle
<1>1. Init => Lifecycle!Init
  BY DEF Init, RegisterInit, Lifecycle!Init
<1>2. IInv /\ [Next]_vars => [Lifecycle!Next]_(Lifecycle!vars)
  <2>. SUFFICES ASSUME IInv, [Next]_vars
                PROVE  [Lifecycle!Next]_(Lifecycle!vars)
    OBVIOUS
  <2>1. LegalUse
    BY LegalUseStep
  <2>2. dev'.timer \in BOOLEAN
    BY DeviceStep DEF IInv, Sound, Device
  <2>. QED
    BY <2>1, <2>2
    DEF LegalUse, Lifecycle!Next, Lifecycle!Start, Lifecycle!Finish,
        Lifecycle!Consume, Lifecycle!Reset, Lifecycle!vars
<1>. QED
  BY <1>1, <1>2, SpecIInv, PTL DEF Spec, DocumentedLifecycle, Lifecycle!Spec
----------------------------------------------------------------------------
\* With vec_len set, the branch that forgets the mutex is not reached.
LockInv ==
  /\ LockDiscipline
  /\ \A t \in Thread : pc[t] # "run_bad_length"

\* One ioctl's steps: entering a locked section takes the free mutex, leaving
\* it gives the mutex back, and nothing else touches it.
LEMMA LockStep ==
  ASSUME IInv, VecLenSet, LockInv, NEW t \in Thread, Call(t) \/ Step(t)
  PROVE  /\ pc'[t] # "run_bad_length"
         /\ \/ /\ mutex = NoThread /\ mutex' = t
               /\ pc'[t] \in Held
            \/ /\ mutex = t /\ mutex' = NoThread
               /\ pc'[t] \notin Held
            \/ /\ mutex' = mutex
               /\ pc'[t] \in Held <=> pc[t] \in Held
<1>. TypeOK /\ Validated
  BY DEF IInv, Base
<1>. USE DEF TypeOK, Goto, Held, RunHeld, ResetHeld, Lock, Unlock
<1>1. pc[t] \in Held => mutex = t
  BY DEF LockInv, LockDiscipline
<1>2. CASE Call(t)
  <2>1. CASE CopyInFails(t)
    BY <2>1 DEF CopyInFails, Enter
  <2>2. CASE ~CopyInFails(t)
    BY <1>2, <2>2 DEF Call, RunDot, Reset, SetFault, GetStat, Enter
  <2>. QED
    BY <2>1, <2>2
<1>3. CASE RunLock(t) \/ ResetLock(t)
  BY <1>3 DEF RunLock, ResetLock
<1>4. CASE RunEnable(t)
  <2>1. ValidRequest(req[t])
    BY <1>4 DEF RunEnable, Validated
  <2>2. req[t].vector_length \in SupportedLen
    BY <2>1, Zenon DEF ValidRequest
  <2>3. req[t].vector_length \in {8, 16}
    BY <2>2, SupportedLenFacts, Zenon
  <2>. QED
    BY <1>4, <2>3 DEF RunEnable, VecLen
<1>5. CASE RunBadLength(t)
  BY <1>5 DEF RunBadLength, LockInv
<1>6. CASE RunTimedOut(t) \/ RunResult(t) \/ RunWoken(t)
  BY <1>1, <1>6 DEF RunTimedOut, RunResult, RunWoken
<1>7. CASE \/ RunAck(t) \/ RunInput(t) \/ RunLength(t) \/ RunStart(t) \/ RunCount(t)
           \/ RunWaitCompleted(t) \/ RunWaitTimeout(t) \/ RunError(t) \/ RunClear(t)
  BY <1>7 DEF RunAck, RunInput, RunLength, RunStart, RunCount,
              RunWaitCompleted, RunWaitTimeout, RunError, RunClear
<1>8. CASE HwErrorCode(t)
  BY <1>1, <1>8 DEF HwErrorCode, HwRead
<1>9. CASE HwDisable(t) \/ HwReset(t) \/ HwAck(t) \/ HwStatus(t) \/ HwIrqStatus(t)
  BY <1>9 DEF HwDisable, HwReset, HwAck, HwStatus, HwIrqStatus, HwRead
<1>10. CASE SetFaultWrite(t) \/ GetStatRead(t) \/ CopyOut(t)
  BY <1>10 DEF SetFaultWrite, GetStatRead, CopyOut
<1>. QED
  BY <1>2, <1>3, <1>4, <1>5, <1>6, <1>7, <1>8, <1>9, <1>10
  DEF Step, RunStep, ResetStep

LEMMA LockInvStep ==
  ASSUME IInv, VecLenSet, LockInv, [Next]_vars
  PROVE  LockInv'
<1>1. ASSUME NEW t \in Thread, Call(t) \/ Step(t)
      PROVE  LockInv'
  <2>1. \A s \in Thread \ {t} : pc'[s] = pc[s]
    BY <1>1, OthersKept DEF IInv, Base
  <2>2. /\ pc'[t] # "run_bad_length"
        /\ \/ mutex = NoThread /\ mutex' = t /\ pc'[t] \in Held
           \/ mutex = t /\ mutex' = NoThread /\ pc'[t] \notin Held
           \/ mutex' = mutex /\ (pc'[t] \in Held <=> pc[t] \in Held)
    BY <1>1, LockStep
  <2>. QED
    BY <2>1, <2>2, ThreadAssumption DEF LockInv, LockDiscipline
<1>2. CASE Isr \/ TimerFires \/ Finished \/ UNCHANGED vars
  <2>. UNCHANGED <<pc, mutex>>
    BY <1>2 DEF Isr, IsrRead, IsrAck, IsrErrorCode, IsrFlag, IsrComplete,
                TimerFires, Finished, threads, vars
  <2>. QED
    BY DEF LockInv, LockDiscipline
<1>. QED
  BY <1>1, <1>2 DEF Next

LEMMA SpecLockInv ==
  ASSUME VecLenSet
  PROVE  Spec => []LockInv
<1>1. Init => LockInv
  BY ThreadAssumption
  DEF Init, LockInv, LockDiscipline, Held, RunHeld, ResetHeld
<1>2. IInv /\ LockInv /\ [Next]_vars => LockInv'
  BY LockInvStep
<1>. QED
  BY <1>1, <1>2, SpecIInv, PTL DEF Spec

\* Once vec_len is set, no path of vnpu_ioctl returns with the mutex and no two
\* threads are in locked sections, for any number of threads.
THEOREM LockCorrect ==
  ASSUME VecLenSet
  PROVE  Spec => []LockDiscipline
<1>. LockInv => LockDiscipline
  BY DEF LockInv
<1>. QED
  BY SpecLockInv, PTL
----------------------------------------------------------------------------
\* The code as it is: RUN_DOT ends at the branch on vec_len, and a device that
\* never starts never interrupts.
Unstarted ==
  /\ NothingEverStarts
  /\ dev.irq_status = {}
  /\ isr.pc \in {"idle", "ack"} /\ isr.seen = {}
  /\ \A t \in Thread :
       pc[t] \in {"idle", "run_lock", "run_ack", "run_enable", "run_bad_length",
                  "reset_lock", "fault_write", "stat_read", "copy_out"} \cup ResetHeld

\* The accesses of the calls that are left keep an idle device idle.
LEMMA IdleKept ==
  ASSUME NEW d, Sound(d), d.status = "IDLE", ~d.timer, d.irq_status = {}, NEW val
  PROVE  \A e \in {WriteControl(d, {"RESET"}), WriteIrqStatus(d, val),
                   WriteIrqEnable(d, val), WriteFaultControl(d, val)} :
           e.status = "IDLE" /\ ~e.timer /\ e.irq_status = {}
<1>1. LET e == WriteControl(d, {"RESET"})
      IN  e.status = "IDLE" /\ ~e.timer /\ e.irq_status = {}
  BY DEF WriteControl, ControlReset, UpdateIrq, Sound, Device
<1>2. LET e == WriteIrqStatus(d, val)
      IN  e.status = "IDLE" /\ ~e.timer /\ e.irq_status = {}
  BY DEF WriteIrqStatus, UpdateIrq, Sound, Device
<1>3. LET e == WriteIrqEnable(d, val)
      IN  e.status = "IDLE" /\ ~e.timer /\ e.irq_status = {}
  BY DEF WriteIrqEnable, UpdateIrq, Sound, Device
<1>4. LET e == WriteFaultControl(d, val)
      IN  e.status = "IDLE" /\ ~e.timer /\ e.irq_status = {}
  BY DEF WriteFaultControl, Sound, Device
<1>. QED
  BY <1>1, <1>2, <1>3, <1>4

LEMMA UnstartedStep ==
  ASSUME IInv, ~VecLenSet, Unstarted, [Next]_vars
  PROVE  Unstarted'
<1>. TypeOK /\ Sound(dev)
  BY DEF IInv, Base
<1>. DEFINE Early == {"idle", "run_lock", "run_ack", "run_enable",
                      "run_bad_length", "reset_lock", "fault_write",
                      "stat_read", "copy_out"} \cup ResetHeld
            Quiet(d) == d.status = "IDLE" /\ ~d.timer /\ d.irq_status = {}
            Zero(c) == \A f \in StatField \ {"resets"} : c[f] = 0
<1>. Quiet(dev) /\ Zero(stats) /\ \A t \in Thread : pc[t] \in Early
  BY DEF Unstarted, NothingEverStarts
<1>1. ASSUME NEW t \in Thread, Call(t) \/ Step(t)
      PROVE  Quiet(dev') /\ Zero(stats') /\ isr' = isr /\ pc'[t] \in Early
  <2>. USE DEF Goto, TypeOK, ResetHeld, driver
  <2>1. CASE Call(t)
    BY <2>1 DEF Call, RunDot, Reset, SetFault, GetStat, CopyInFails, Enter
  <2>2. CASE RunLock(t) \/ RunBadLength(t)
    BY <2>2 DEF RunLock, RunBadLength
  <2>3. CASE RunAck(t)
    BY <2>3, IdleKept DEF RunAck
  <2>4. CASE RunEnable(t)
    <3>1. pc'[t] = "run_bad_length"
      BY <2>4 DEF RunEnable, VecLen
    <3>. QED
      BY <2>4, <3>1, IdleKept DEF RunEnable
  <2>5. pc[t] \notin {"run_input", "run_length", "run_start", "run_count",
                      "run_wait", "run_timed_out", "run_woken", "run_error",
                      "run_clear", "run_result"}
    OBVIOUS
  <2>6. CASE HwDisable(t) \/ HwReset(t) \/ HwAck(t)
    <3>1. CASE HwDisable(t)
      BY <3>1, IdleKept DEF HwDisable
    <3>2. CASE HwReset(t)
      BY <3>2, IdleKept DEF HwReset
    <3>3. CASE HwAck(t)
      BY <3>3, IdleKept DEF HwAck
    <3>. QED
      BY <2>6, <3>1, <3>2, <3>3
  <2>7. CASE ResetLock(t) \/ HwStatus(t) \/ HwIrqStatus(t)
    BY <2>7 DEF ResetLock, HwStatus, HwIrqStatus, HwRead
  <2>8. CASE HwErrorCode(t)
    BY <2>8 DEF HwErrorCode, HwRead, Count, StatField
  <2>9. CASE SetFaultWrite(t)
    BY <2>9, IdleKept DEF SetFaultWrite
  <2>10. CASE GetStatRead(t) \/ CopyOut(t)
    BY <2>10 DEF GetStatRead, CopyOut
  <2>. QED
    BY <1>1, <2>1, <2>2, <2>3, <2>4, <2>5, <2>6, <2>7, <2>8, <2>9, <2>10
    DEF Step, RunStep, ResetStep, RunInput, RunLength, RunStart, RunCount,
        RunWaitCompleted, RunWaitTimeout, RunTimedOut, RunWoken, RunError,
        RunClear, RunResult
<1>2. CASE \E t \in Thread : Call(t) \/ Step(t)
  BY <1>1, <1>2, OthersKept DEF Unstarted, NothingEverStarts
<1>3. CASE IsrRead
  BY <1>3 DEF IsrRead, Unstarted, NothingEverStarts, threads, driver
<1>4. CASE IsrAck
  <2>1. Quiet(dev')
    BY <1>4, IdleKept DEF IsrAck
  <2>2. isr'.pc = "idle" /\ isr'.seen = {}
    BY <1>4 DEF IsrAck, Unstarted, TypeOK
  <2>. QED
    BY <1>4, <2>1, <2>2 DEF IsrAck, Unstarted, NothingEverStarts, threads, driver
<1>5. CASE IsrErrorCode \/ IsrFlag \/ IsrComplete \/ TimerFires
  BY <1>5 DEF IsrErrorCode, IsrFlag, IsrComplete, TimerFires, Unstarted
<1>6. CASE Finished \/ UNCHANGED vars
  BY <1>6 DEF Finished, vars, Unstarted, NothingEverStarts
<1>. QED
  BY <1>2, <1>3, <1>4, <1>5, <1>6 DEF Next, Isr

\* As the code stands, no sequence of calls by any number of threads starts an
\* operation or counts anything but resets.
THEOREM NothingStartsAsShipped ==
  ASSUME ~VecLenSet
  PROVE  Spec => []NothingEverStarts
<1>1. Init => Unstarted
  BY DEF Init, RegisterInit, Unstarted, NothingEverStarts, ZeroStats, StatField
<1>2. IInv /\ Unstarted /\ [Next]_vars => Unstarted'
  BY UnstartedStep
<1>3. Unstarted => NothingEverStarts
  BY DEF Unstarted
<1>. QED
  BY <1>1, <1>2, <1>3, SpecIInv, PTL DEF Spec
----------------------------------------------------------------------------
\* The half of LockDiscipline that holds even if a return path keeps the mutex:
\* whoever is in a locked section owns it.
Exclusion == \A t \in Thread : pc[t] \in Held => mutex = t

\* Another thread's step changes nothing of thread s.
LEMMA OthersKeptToo ==
  ASSUME TypeOK, NEW t \in Thread, Call(t) \/ Step(t), NEW s \in Thread, s # t
  PROVE  out'[s] = out[s] /\ snap'[s] = snap[s]
<1>. USE DEF locals, HwRead
<1>1. CASE Call(t)
  BY <1>1 DEF Call, RunDot, Reset, SetFault, GetStat, CopyInFails, TypeOK
<1>2. CASE RunStep(t)
  BY <1>2 DEF RunStep, RunLock, RunAck, RunEnable, RunBadLength, RunInput,
              RunLength, RunStart, RunCount, RunWaitCompleted, RunWaitTimeout,
              RunTimedOut, RunWoken, RunError, RunClear, RunResult, TypeOK
<1>3. CASE ResetStep(t)
  BY <1>3 DEF ResetStep, ResetLock, HwDisable, HwReset, HwAck, HwStatus,
              HwIrqStatus, HwErrorCode, TypeOK
<1>4. CASE SetFaultWrite(t) \/ GetStatRead(t) \/ CopyOut(t)
  BY <1>4 DEF SetFaultWrite, GetStatRead, CopyOut, TypeOK
<1>. QED
  BY <1>1, <1>2, <1>3, <1>4 DEF Step

\* The handler, the timer and a stutter leave every thread alone.
LEMMA NobodyMovesToo ==
  ASSUME Isr \/ TimerFires \/ Finished \/ UNCHANGED vars
  PROVE  UNCHANGED <<pc, mutex, out, snap, word>>
BY DEF Isr, IsrRead, IsrAck, IsrErrorCode, IsrFlag, IsrComplete, TimerFires,
       Finished, threads, locals, vars

\* A thread that moves has made the step itself.
LEMMA OwnMove ==
  ASSUME TypeOK, [Next]_vars, NEW t \in Thread, pc'[t] # pc[t]
  PROVE  Call(t) \/ Step(t)
<1>1. PICK s \in Thread : Call(s) \/ Step(s)
  <2>. pc' # pc
    OBVIOUS
  <2>. QED
    BY NobodyMoves DEF Next
<1>2. s = t
  BY <1>1, OthersKept
<1>. QED
  BY <1>1, <1>2

\* A step enters a locked section only by taking the free mutex.
LEMMA MutexStep ==
  ASSUME TypeOK, Exclusion, NEW t \in Thread, Call(t) \/ Step(t)
  PROVE  \/ mutex = NoThread /\ mutex' = t
         \/ mutex = t /\ mutex' = NoThread /\ pc'[t] \notin Held
         \/ mutex' = mutex /\ (pc'[t] \in Held => pc[t] \in Held)
<1>. USE DEF TypeOK, Goto, Held, RunHeld, ResetHeld, Lock, Unlock
<1>1. pc[t] \in Held => mutex = t
  BY DEF Exclusion
<1>2. CASE Call(t)
  <2>1. CASE CopyInFails(t)
    BY <2>1 DEF CopyInFails, Enter
  <2>2. CASE ~CopyInFails(t)
    BY <1>2, <2>2 DEF Call, RunDot, Reset, SetFault, GetStat, Enter
  <2>. QED
    BY <2>1, <2>2
<1>3. CASE RunLock(t) \/ ResetLock(t)
  BY <1>3 DEF RunLock, ResetLock
<1>4. CASE RunTimedOut(t) \/ RunResult(t) \/ RunWoken(t)
  BY <1>1, <1>4 DEF RunTimedOut, RunResult, RunWoken
<1>5. CASE \/ RunAck(t) \/ RunEnable(t) \/ RunBadLength(t) \/ RunInput(t)
           \/ RunLength(t) \/ RunStart(t) \/ RunCount(t) \/ RunWaitCompleted(t)
           \/ RunWaitTimeout(t) \/ RunError(t) \/ RunClear(t)
  BY <1>5 DEF RunAck, RunEnable, RunBadLength, RunInput, RunLength, RunStart,
              RunCount, RunWaitCompleted, RunWaitTimeout, RunError, RunClear
<1>6. CASE HwErrorCode(t)
  BY <1>1, <1>6 DEF HwErrorCode, HwRead
<1>7. CASE HwDisable(t) \/ HwReset(t) \/ HwAck(t) \/ HwStatus(t) \/ HwIrqStatus(t)
  BY <1>7 DEF HwDisable, HwReset, HwAck, HwStatus, HwIrqStatus, HwRead
<1>8. CASE SetFaultWrite(t) \/ GetStatRead(t) \/ CopyOut(t)
  BY <1>8 DEF SetFaultWrite, GetStatRead, CopyOut
<1>. QED
  BY <1>2, <1>3, <1>4, <1>5, <1>6, <1>7, <1>8 DEF Step, RunStep, ResetStep

LEMMA ExclusionStep ==
  ASSUME TypeOK, Exclusion, [Next]_vars
  PROVE  Exclusion'
<1>1. ASSUME NEW t \in Thread, Call(t) \/ Step(t)
      PROVE  Exclusion'
  <2>1. \A s \in Thread \ {t} : pc'[s] = pc[s]
    BY <1>1, OthersKept
  <2>2. \/ mutex = NoThread /\ mutex' = t
        \/ mutex = t /\ mutex' = NoThread /\ pc'[t] \notin Held
        \/ mutex' = mutex /\ (pc'[t] \in Held => pc[t] \in Held)
    BY <1>1, MutexStep
  <2>. QED
    BY <2>1, <2>2, ThreadAssumption DEF Exclusion
<1>2. CASE Isr \/ TimerFires \/ Finished \/ UNCHANGED vars
  BY <1>2, NobodyMovesToo DEF Exclusion
<1>. QED
  BY <1>1, <1>2 DEF Next
----------------------------------------------------------------------------
\* The device after the RESET of vnpu_hw_reset, as its three reads expect it.
Clean(d) ==
  /\ d.status = "IDLE" /\ ~d.timer
  /\ d.irq_status = {} /\ d.err_code = "NONE" /\ d.fault_control = {}

\* A RESET in progress has found nothing wrong, and from its second write on the
\* device is clean: nobody else may touch it, and it does nothing by itself.
Resetting(t) ==
  /\ pc[t] \in ResetHeld \cup {"reset_lock"} => out[t].code = "OK"
  /\ pc[t] \in {"hw_ack", "hw_status", "hw_irq", "hw_err"} => Clean(dev)

ResetInv == Exclusion /\ \A t \in Thread : Resetting(t)

\* What else may happen to a clean device: an acknowledged interrupt.
LEMMA CleanKept ==
  ASSUME NEW d \in Device
  PROVE  /\ Clean(WriteControl(d, {"RESET"}))
         /\ Clean(d) => Clean(WriteIrqStatus(d, IrqBit))
BY DEF Clean, Device, WriteControl, ControlReset, WriteIrqStatus, UpdateIrq

\* The thread that resets.
LEMMA OwnReset ==
  ASSUME TypeOK, ResetInv, NEW t \in Thread, Call(t) \/ Step(t)
  PROVE  Resetting(t)'
<1>. USE DEF TypeOK, Goto, ResetHeld
<1>. Resetting(t)
  BY DEF ResetInv
<1>1. CASE Call(t)
  <2>1. CASE Reset(t)
    BY <2>1 DEF Reset, Enter, Resetting, NoOutcome
  <2>2. CASE CopyInFails(t)
    BY <2>2 DEF CopyInFails, Enter, Resetting
  <2>3. CASE RunDot(t) \/ SetFault(t) \/ GetStat(t)
    BY <2>3 DEF RunDot, SetFault, GetStat, Enter, Resetting
  <2>. QED
    BY <1>1, <2>1, <2>2, <2>3 DEF Call
<1>2. CASE RunStep(t)
  BY <1>2 DEF Resetting, RunStep, RunLock, RunAck, RunEnable, RunBadLength, RunInput,
              RunLength, RunStart, RunCount, RunWaitCompleted, RunWaitTimeout,
              RunTimedOut, RunWoken, RunError, RunClear, RunResult
<1>3. CASE ResetLock(t) \/ HwDisable(t)
  BY <1>3 DEF ResetLock, HwDisable, Resetting
<1>4. CASE HwReset(t) \/ HwAck(t)
  BY <1>4, CleanKept DEF HwReset, HwAck, Resetting
<1>5. CASE HwStatus(t) \/ HwIrqStatus(t)
  BY <1>5 DEF HwStatus, HwIrqStatus, HwRead, Resetting, Clean, Outcome
<1>6. CASE HwErrorCode(t)
  BY <1>6 DEF HwErrorCode, HwRead, Resetting
<1>7. CASE SetFaultWrite(t) \/ GetStatRead(t) \/ CopyOut(t)
  BY <1>7 DEF SetFaultWrite, GetStatRead, CopyOut, Resetting
<1>. QED
  BY <1>1, <1>2, <1>3, <1>4, <1>5, <1>6, <1>7 DEF Step, ResetStep

\* Another thread leaves the device alone while this one owns the mutex.
LEMMA DeviceKept ==
  ASSUME TypeOK, Exclusion, NEW t \in Thread, Call(t) \/ Step(t),
         NEW s \in Thread, s # t, mutex = s
  PROVE  UNCHANGED dev
<1>1. pc[t] \notin Held
  BY DEF Exclusion
<1>. USE DEF Goto, Held, RunHeld, ResetHeld
<1>2. CASE Call(t)
  BY <1>2 DEF Call, RunDot, Reset, SetFault, GetStat, CopyInFails
<1>3. CASE RunStep(t)
  BY <1>1, <1>3
  DEF RunStep, RunLock, RunAck, RunEnable, RunBadLength, RunInput, RunLength,
      RunStart, RunCount, RunWaitCompleted, RunWaitTimeout, RunTimedOut, RunWoken,
      RunError, RunClear, RunResult
<1>4. CASE ResetStep(t)
  BY <1>1, <1>4
  DEF ResetStep, ResetLock, HwDisable, HwReset, HwAck, HwStatus, HwIrqStatus,
      HwErrorCode, HwRead
<1>5. CASE SetFaultWrite(t)
  BY <1>5, ThreadAssumption DEF SetFaultWrite
<1>6. CASE GetStatRead(t) \/ CopyOut(t)
  BY <1>6 DEF GetStatRead, CopyOut
<1>. QED
  BY <1>2, <1>3, <1>4, <1>5, <1>6 DEF Step

LEMMA ResetStepInv == IInv /\ ResetInv /\ [Next]_vars => ResetInv'
<1>. SUFFICES ASSUME IInv, ResetInv, [Next]_vars PROVE ResetInv'
  OBVIOUS
<1>. TypeOK /\ Exclusion
  BY DEF IInv, Base, ResetInv
<1>1. Exclusion'
  BY ExclusionStep
<1>2. ASSUME NEW t \in Thread, Call(t) \/ Step(t), NEW s \in Thread
      PROVE  Resetting(s)'
  <2>1. CASE s = t
    BY <1>2, <2>1, OwnReset
  <2>2. CASE s # t
    <3>1. pc'[s] = pc[s] /\ out'[s] = out[s]
      BY <1>2, <2>2, OthersKept, OthersKeptToo
    <3>2. pc[s] \in {"hw_ack", "hw_status", "hw_irq", "hw_err"} => UNCHANGED dev
      BY <1>2, <2>2, DeviceKept DEF Exclusion, Held, ResetHeld
    <3>. QED
      BY <3>1, <3>2 DEF ResetInv, Resetting, Clean
  <2>. QED
    BY <2>1, <2>2
<1>3. ASSUME Isr \/ TimerFires \/ Finished \/ UNCHANGED vars, NEW s \in Thread
      PROVE  Resetting(s)'
  <2>1. UNCHANGED <<pc, out>>
    BY <1>3, NobodyMovesToo
  <2>2. Clean(dev) => Clean(dev')
    <3>1. CASE IsrAck
      BY <3>1, CleanKept DEF IsrAck, TypeOK
    <3>2. CASE TimerFires
      BY <3>2 DEF TimerFires, Clean
    <3>3. CASE IsrRead \/ IsrErrorCode \/ IsrFlag \/ IsrComplete \/ Finished
               \/ UNCHANGED vars
      BY <3>3 DEF IsrRead, IsrErrorCode, IsrFlag, IsrComplete, Finished, vars
    <3>. QED
      BY <1>3, <3>1, <3>2, <3>3 DEF Isr
  <2>. QED
    BY <2>1, <2>2 DEF ResetInv, Resetting, Clean
<1>. QED
  BY <1>1, <1>2, <1>3 DEF Next, ResetInv

LEMMA InitReset == Init => ResetInv
BY DEF Init, ResetInv, Exclusion, Resetting, Held, RunHeld, ResetHeld

\* RESET of the driver succeeds whenever it is called and however many threads,
\* interrupts and timers are about, and leaves an idle, silent, fault-free device.
THEOREM ResetCorrect == Spec => ResetSucceeds
<1>. DEFINE Succeeds ==
       \A t \in Thread :
         pc[t] = "hw_err" /\ pc'[t] = "idle" =>
           /\ out'[t].code = "OK"
           /\ done' = 0
           /\ dev'.status = "IDLE" /\ ~dev'.timer /\ ~dev'.irq_line
           /\ dev'.fault_control = {}
<1>1. IInv /\ ResetInv /\ [Next]_vars => [Succeeds]_vars
  <2>. SUFFICES ASSUME IInv, ResetInv, [Next]_vars,
                       NEW t \in Thread, pc[t] = "hw_err", pc'[t] = "idle"
                PROVE  /\ out'[t].code = "OK"
                       /\ done' = 0
                       /\ dev'.status = "IDLE" /\ ~dev'.timer /\ ~dev'.irq_line
                       /\ dev'.fault_control = {}
    OBVIOUS
  <2>1. /\ TypeOK /\ Exclusion /\ out[t].code = "OK" /\ Clean(dev) /\ Sound(dev)
    BY DEF IInv, Base, ResetInv, Resetting, ResetHeld
  <2>2. HwErrorCode(t)
    BY <2>1, OwnMove
    DEF Call, RunDot, Reset, SetFault, GetStat, CopyInFails, Enter, Goto, Step,
        RunStep, RunLock, RunAck, RunEnable, RunBadLength, RunInput, RunLength,
        RunStart, RunCount, RunWaitCompleted, RunWaitTimeout, RunTimedOut, RunWoken,
        RunError, RunClear, RunResult, ResetStep, ResetLock, HwDisable, HwReset,
        HwAck, HwStatus, HwIrqStatus, HwRead, SetFaultWrite, GetStatRead, CopyOut
  <2>3. out'[t].code = "OK" /\ dev' = dev
    BY <2>1, <2>2 DEF HwErrorCode, HwRead, Clean, TypeOK, Outcome
  <2>4. done' = 0
    BY <2>2, <2>3 DEF HwErrorCode
  <2>5. ~dev.irq_line
    BY <2>1 DEF Clean, Sound, LineSound
  <2>. QED
    BY <2>1, <2>3, <2>4, <2>5 DEF Clean
<1>. QED
  BY <1>1, InitReset, ResetStepInv, SpecIInv, PTL DEF Spec, ResetSucceeds
----------------------------------------------------------------------------
\* From the count of its submission to the count of its end, one submission is
\* ahead of the ends.
Ahead == {"run_wait", "run_timed_out", "run_woken", "run_result"}

Ends(c) == c["completed"] + c["timed_out"]

CountInv ==
  /\ Ends(stats) <= stats["submitted"]
  /\ \A t \in Thread : pc[t] \in Ahead => Ends(stats) < stats["submitted"]

\* The device errors that may still be counted: one of the operation in flight,
\* one the handler has read and not counted, one it has yet to read.  Its
\* acknowledgement takes every bit, so while it is due none is left to read.
Due(p) == IF p THEN 1 ELSE 0
ErrorsDue ==
  Due(dev.timer)
    + IF isr.pc = "ack" THEN Due("ERROR" \in isr.seen)
      ELSE Due(isr.pc \in {"error", "flag"}) + Due("ERROR" \in dev.irq_status)

\* Between START and the count of the submission.
Uncounted == \E t \in Thread : pc[t] = "run_count"

\* One START, accepted or rejected, brings one device error at most.
ErrorInv ==
  stats["device_error"] + ErrorsDue <= stats["submitted"] + Due(Uncounted)

Bounded(c) ==
  Ends(c) <= c["submitted"] /\ c["device_error"] <= c["submitted"] + 1

\* A snapshot being taken is behind the counters, and reads the submissions
\* after the ends.
SnapInv ==
  \A t \in Thread :
    /\ pc[t] = "stat_read" =>
         /\ \A f \in StatField : snap[t][f] <= stats[f]
         /\ word[t] = 5 => Bounded(snap[t])
    /\ pc[t] # "stat_read" => Bounded(snap[t])

SInv == Exclusion /\ CountInv /\ ErrorInv /\ SnapInv

\* Counting changes one counter, by one.
LEMMA CountOne ==
  ASSUME TypeOK, NEW f \in StatField, Count(f)
  PROVE  /\ stats' \in [StatField -> Nat]
         /\ stats'[f] = stats[f] + 1
         /\ \A g \in StatField \ {f} : stats'[g] = stats[g]
BY DEF Count, TypeOK

LEMMA StatFieldFacts ==
  /\ {"timed_out", "completed", "device_error", "submitted", "resets"} = StatField
  /\ "submitted" # "completed" /\ "submitted" # "timed_out" /\ "completed" # "timed_out"
  /\ {"device_error", "resets"} \cap {"submitted", "completed", "timed_out"} = {}
  /\ "device_error" # "resets"
BY DEF StatField

\* Counters only grow.
LEMMA StatsGrow ==
  ASSUME TypeOK, [Next]_vars
  PROVE  /\ stats' \in [StatField -> Nat]
         /\ \A f \in StatField : stats[f] <= stats'[f]
<1>0. stats \in [StatField -> Nat]
  BY DEF TypeOK
<1>1. CASE UNCHANGED stats
  BY <1>0, <1>1
<1>2. ASSUME NEW f \in StatField, Count(f)
      PROVE  /\ stats' \in [StatField -> Nat]
             /\ \A g \in StatField : stats[g] <= stats'[g]
  BY <1>0, <1>2, CountOne
<1>3. UNCHANGED stats \/ \E f \in StatField : Count(f)
  <2>. USE StatFieldFacts DEF driver
  <2>1. ASSUME NEW t \in Thread, Call(t) \/ SetFaultWrite(t) \/ GetStatRead(t) \/ CopyOut(t)
        PROVE  UNCHANGED stats
    BY <2>1 DEF Call, RunDot, Reset, SetFault, GetStat, CopyInFails, SetFaultWrite,
                GetStatRead, CopyOut
  <2>2. ASSUME NEW t \in Thread, RunStep(t)
        PROVE  UNCHANGED stats \/ \E f \in StatField : Count(f)
    BY <2>2 DEF RunStep, RunLock, RunAck, RunEnable, RunBadLength, RunInput,
                RunLength, RunStart, RunCount, RunWaitCompleted, RunWaitTimeout,
                RunTimedOut, RunWoken, RunError, RunClear, RunResult
  <2>3. ASSUME NEW t \in Thread, ResetStep(t)
        PROVE  UNCHANGED stats \/ \E f \in StatField : Count(f)
    BY <2>3 DEF ResetStep, ResetLock, HwDisable, HwReset, HwAck, HwStatus,
                HwIrqStatus, HwErrorCode
  <2>4. CASE Isr \/ TimerFires \/ Finished \/ UNCHANGED vars
    BY <2>4 DEF Isr, IsrRead, IsrAck, IsrErrorCode, IsrFlag, IsrComplete,
                TimerFires, Finished, vars
  <2>. QED
    BY <2>1, <2>2, <2>3, <2>4 DEF Next, Step
<1>. QED
  BY <1>1, <1>2, <1>3

\* Submissions and ends are counted by the owner of the mutex, each end by a
\* thread whose submission was counted.
LEMMA CountStep ==
  ASSUME TypeOK, Exclusion, CountInv, [Next]_vars
  PROVE  CountInv'
<1>0. /\ stats \in [StatField -> Nat]
      /\ stats["submitted"] \in Nat /\ stats["completed"] \in Nat
      /\ stats["timed_out"] \in Nat
  BY StatFieldFacts DEF TypeOK
<1>. USE StatFieldFacts DEF Ends
<1>1. ASSUME NEW t \in Thread, RunCount(t)
      PROVE  CountInv'
  <2>1. Count("submitted")
    BY <1>1 DEF RunCount
  <2>2. /\ stats'["submitted"] = stats["submitted"] + 1
        /\ Ends(stats') = Ends(stats)
    BY <2>1, CountOne
  <2>. QED
    BY <1>0, <2>2 DEF CountInv
<1>2. ASSUME NEW t \in Thread, RunTimedOut(t) \/ RunResult(t)
      PROVE  CountInv'
  <2>1. pc[t] \in Ahead /\ pc'[t] = "copy_out" /\ mutex = t
    BY <1>2 DEF RunTimedOut, RunResult, Goto, Ahead, Exclusion, Held, RunHeld, TypeOK
  <2>2. \A s \in Thread : pc'[s] \notin Ahead
    <3>1. \A s \in Thread \ {t} : pc[s] \notin Held
      BY <2>1 DEF Exclusion
    <3>2. \A s \in Thread \ {t} : pc'[s] = pc[s]
      BY <1>2, OthersKept DEF Step, RunStep
    <3>. QED
      BY <2>1, <3>1, <3>2 DEF Ahead, Held, RunHeld
  <2>3. Count("timed_out") \/ Count("completed")
    BY <1>2 DEF RunTimedOut, RunResult
  <2>4. /\ stats'["submitted"] = stats["submitted"]
        /\ Ends(stats') = Ends(stats) + 1
    BY <1>0, <2>3, CountOne
  <2>. QED
    BY <1>0, <2>1, <2>2, <2>4 DEF CountInv
<1>3. ASSUME /\ stats' = stats \/ Count("device_error") \/ Count("resets"),
             \A s \in Thread : pc'[s] \in Ahead => pc[s] \in Ahead
      PROVE  CountInv'
  <2>1. Ends(stats') = Ends(stats) /\ stats'["submitted"] = stats["submitted"]
    BY <1>3, CountOne
  <2>. QED
    BY <1>3, <2>1 DEF CountInv
<1>4. ASSUME NEW t \in Thread, Call(t) \/ Step(t),
             ~(RunCount(t) \/ RunTimedOut(t) \/ RunResult(t))
      PROVE  CountInv'
  <2>. USE DEF driver, Goto, Ahead, TypeOK
  <2>1. CASE Call(t)
    <3>1. CASE CopyInFails(t)
      BY <1>3, <1>4, <3>1, OthersKept DEF CopyInFails, Enter
    <3>2. CASE ~CopyInFails(t)
      BY <1>3, <1>4, <2>1, <3>2, OthersKept
      DEF Call, RunDot, Reset, SetFault, GetStat, Enter
    <3>. QED
      BY <3>1, <3>2
  <2>2. CASE RunStep(t)
    BY <1>3, <1>4, <2>2, OthersKept
    DEF RunStep, RunLock, RunAck, RunEnable, RunBadLength, RunInput, RunLength,
        RunStart, RunWaitCompleted, RunWaitTimeout, RunWoken, RunError, RunClear
  <2>3. CASE ResetStep(t)
    BY <1>3, <1>4, <2>3, OthersKept
    DEF ResetStep, ResetLock, HwDisable, HwReset, HwAck, HwStatus, HwIrqStatus,
        HwErrorCode, HwRead
  <2>4. CASE SetFaultWrite(t) \/ GetStatRead(t) \/ CopyOut(t)
    BY <1>3, <1>4, <2>4, OthersKept DEF SetFaultWrite, GetStatRead, CopyOut
  <2>. QED
    BY <1>4, <2>1, <2>2, <2>3, <2>4 DEF Step
<1>5. CASE Isr \/ TimerFires \/ Finished \/ UNCHANGED vars
  <2>1. stats' = stats \/ Count("device_error")
    BY <1>5 DEF Isr, IsrRead, IsrAck, IsrErrorCode, IsrFlag, IsrComplete, TimerFires,
                Finished, driver, vars
  <2>. QED
    BY <1>3, <1>5, <2>1, NobodyMovesToo
<1>. QED
  BY <1>1, <1>2, <1>4, <1>5 DEF Next

\* Apart from START and the timer nothing arms the timer or raises an interrupt.
Milder(e, d) == (e.timer => d.timer) /\ e.irq_status \subseteq d.irq_status

LEMMA WritesMilder ==
  ASSUME NEW d, Sound(d)
  PROVE  /\ Milder(d, d) /\ Milder(ReadResult(d), d)
         /\ Milder(WriteControl(d, {"RESET"}), d)
         /\ \A val : Milder(WriteIrqStatus(d, val), d)
         /\ \A val : Milder(WriteIrqEnable(d, val), d)
         /\ \A i, w : Milder(WriteInput(d, i, w), d)
         /\ \A val : Milder(WriteFaultControl(d, val), d)
         /\ \A val \in SupportedLen : Milder(WriteVectorLength(d, val), d)
<1>1. Milder(WriteControl(d, {"RESET"}), d)
  BY DEF Milder, WriteControl, ControlReset, UpdateIrq, Sound, Device
<1>2. \A val : Milder(WriteIrqStatus(d, val), d)
  BY DEF Milder, WriteIrqStatus, UpdateIrq, Sound, Device
<1>3. \A val : Milder(WriteIrqEnable(d, val), d)
  BY DEF Milder, WriteIrqEnable, UpdateIrq, Sound, Device
<1>4. \A i, w : Milder(WriteInput(d, i, w), d)
  BY DEF Milder, WriteInput, Sound, Device
<1>5. \A val : Milder(WriteFaultControl(d, val), d)
  BY DEF Milder, WriteFaultControl, Sound, Device
<1>6. Milder(ReadResult(d), d) /\ Milder(d, d)
  BY DEF Milder, ReadResult, Sound, Device
<1>7. \A val \in SupportedLen : Milder(WriteVectorLength(d, val), d)
  BY DEF Milder, WriteVectorLength, Sound, Device
<1>. QED
  BY <1>1, <1>2, <1>3, <1>4, <1>5, <1>6, <1>7

\* START arms an unarmed timer on a silent device, or raises one interrupt.
LEMMA StartRaisesOne ==
  ASSUME NEW d, Sound(d)
  PROVE  LET e == WriteControl(d, {"START"})
         IN  \/ ~d.timer /\ e.irq_status = {}
             \/ e.timer = d.timer
BY DEF WriteControl, StartRejected, StartAccepted, UpdateIrq, Sound, TimerSound, Device

\* Of a thread's steps only START is not mild, only RunCount counts a submission
\* and none a device error.
LEMMA ThreadMilder ==
  ASSUME IInv, NEW t \in Thread, Call(t) \/ Step(t), ~RunStart(t), ~RunCount(t)
  PROVE  /\ Milder(dev', dev) /\ isr' = isr
         /\ stats' = stats \/ Count("timed_out") \/ Count("completed") \/ Count("resets")
         /\ pc[t] # "run_count" /\ pc'[t] # "run_count"
<1>. /\ Sound(dev) /\ TypeOK
  BY DEF IInv, Base
<1>. USE WritesMilder DEF driver, Goto, TypeOK, HwRead
<1>1. CASE Call(t)
  <2>1. CASE CopyInFails(t)
    BY <2>1 DEF CopyInFails, Enter
  <2>2. CASE ~CopyInFails(t)
    BY <1>1, <2>2 DEF Call, RunDot, Reset, SetFault, GetStat, Enter
  <2>. QED
    BY <2>1, <2>2
<1>2. CASE RunLength(t)
  <2>1. ValidRequest(req[t])
    BY <1>2 DEF RunLength, IInv, Validated, RunHeld
  <2>2. req[t].vector_length \in SupportedLen
    BY <2>1 DEF ValidRequest
  <2>. QED
    BY <1>2, <2>2 DEF RunLength
<1>3. CASE RunAck(t) \/ RunEnable(t) \/ RunInput(t)
  BY <1>3 DEF RunAck, RunEnable, RunInput
<1>4. CASE RunTimedOut(t) \/ RunResult(t)
  BY <1>4 DEF RunTimedOut, RunResult
<1>5. CASE \/ RunLock(t) \/ RunBadLength(t) \/ RunWaitCompleted(t)
           \/ RunWaitTimeout(t) \/ RunWoken(t) \/ RunError(t) \/ RunClear(t)
  BY <1>5 DEF RunLock, RunBadLength, RunWaitCompleted, RunWaitTimeout, RunWoken,
              RunError, RunClear
<1>6. CASE HwDisable(t) \/ HwReset(t) \/ HwAck(t)
  BY <1>6 DEF HwDisable, HwReset, HwAck
<1>7. CASE ResetLock(t) \/ HwStatus(t) \/ HwIrqStatus(t) \/ HwErrorCode(t)
  BY <1>7 DEF ResetLock, HwStatus, HwIrqStatus, HwErrorCode
<1>8. CASE SetFaultWrite(t) \/ GetStatRead(t) \/ CopyOut(t)
  BY <1>8 DEF SetFaultWrite, GetStatRead, CopyOut
<1>. QED
  BY <1>1, <1>2, <1>3, <1>4, <1>5, <1>6, <1>7, <1>8 DEF Step, RunStep, ResetStep

\* The count of a device error and the events that lead to it, step by step.
LEMMA ErrorStep ==
  ASSUME IInv, Exclusion, ErrorInv, [Next]_vars
  PROVE  ErrorInv'
<1>. /\ TypeOK /\ Sound(dev) /\ Sound(dev)'
  BY NextIInv DEF IInv, Base
<1>0. /\ stats["submitted"] \in Nat /\ stats["device_error"] \in Nat
      /\ \A p : Due(p) \in {0, 1}
      /\ dev.timer \in BOOLEAN /\ dev'.timer \in BOOLEAN
  BY StatFieldFacts DEF TypeOK, Due, Sound, Device
<1>1. ASSUME NEW t \in Thread, RunStart(t)
      PROVE  ErrorInv'
  <2>1. ~Uncounted
    BY <1>1 DEF Uncounted, RunStart, Goto, Exclusion, Held, RunHeld
  <2>2. Uncounted'
    BY <1>1 DEF Uncounted, RunStart, Goto, TypeOK
  <2>3. stats' = stats /\ isr' = isr /\ dev' = WriteControl(dev, {"START"})
    BY <1>1 DEF RunStart, driver
  <2>4. ErrorsDue' <= ErrorsDue + 1
    BY <1>0, <2>3, StartRaisesOne DEF ErrorsDue, Due
  <2>5. ErrorsDue \in Nat /\ ErrorsDue' \in Nat
    BY <1>0 DEF ErrorsDue, Due
  <2>. QED
    BY <1>0, <2>1, <2>2, <2>3, <2>4, <2>5 DEF ErrorInv, Due
<1>2. ASSUME NEW t \in Thread, RunCount(t)
      PROVE  ErrorInv'
  <2>1. Uncounted
    BY <1>2 DEF Uncounted, RunCount, Goto
  <2>2. /\ stats'["submitted"] = stats["submitted"] + 1
        /\ stats'["device_error"] = stats["device_error"]
    BY <1>2, CountOne, StatFieldFacts DEF RunCount
  <2>3. ErrorsDue' = ErrorsDue
    BY <1>2 DEF RunCount, ErrorsDue
  <2>4. ErrorsDue \in Nat
    BY <1>0 DEF ErrorsDue, Due
  <2>. QED
    BY <1>0, <2>1, <2>2, <2>3, <2>4 DEF ErrorInv, Due
<1>3. ASSUME Milder(dev', dev), isr' = isr,
             /\ stats'["submitted"] = stats["submitted"]
             /\ stats'["device_error"] = stats["device_error"],
             Uncounted' <=> Uncounted
      PROVE  ErrorInv'
  <2>1. ErrorsDue' <= ErrorsDue
    BY <1>0, <1>3 DEF ErrorsDue, Due, Milder
  <2>2. ErrorsDue \in Nat /\ ErrorsDue' \in Nat
    BY <1>0 DEF ErrorsDue, Due
  <2>. QED
    BY <1>0, <1>3, <2>1, <2>2 DEF ErrorInv, Due
<1>4. ASSUME NEW t \in Thread, Call(t) \/ Step(t), ~RunStart(t), ~RunCount(t)
      PROVE  ErrorInv'
  <2>1. \A s \in Thread \ {t} : pc'[s] = pc[s]
    BY <1>4, OthersKept
  <2>2. /\ Milder(dev', dev) /\ isr' = isr
        /\ stats' = stats \/ Count("timed_out") \/ Count("completed") \/ Count("resets")
        /\ pc[t] # "run_count" /\ pc'[t] # "run_count"
    BY <1>4, ThreadMilder
  <2>3. /\ stats'["submitted"] = stats["submitted"]
        /\ stats'["device_error"] = stats["device_error"]
    BY <2>2, CountOne, StatFieldFacts
  <2>4. Uncounted' <=> Uncounted
    BY <2>1, <2>2 DEF Uncounted
  <2>. QED
    BY <1>3, <2>2, <2>3, <2>4
<1>5. ASSUME UNCHANGED pc, ErrorsDue' \in Nat, ErrorsDue \in Nat,
             stats'["submitted"] = stats["submitted"],
             stats'["device_error"] + ErrorsDue' <= stats["device_error"] + ErrorsDue,
             stats'["device_error"] \in Nat
      PROVE  ErrorInv'
  <2>1. Uncounted' <=> Uncounted
    BY <1>5 DEF Uncounted
  <2>. QED
    BY <1>0, <1>5, <2>1 DEF ErrorInv, Due
<1>6. ErrorsDue \in Nat /\ ErrorsDue' \in Nat
  BY <1>0 DEF ErrorsDue, Due
<1>7. CASE IsrFlag
  <2>1. /\ stats'["submitted"] = stats["submitted"]
        /\ stats'["device_error"] = stats["device_error"] + 1
    BY <1>7, CountOne, StatFieldFacts DEF IsrFlag
  <2>2. ErrorsDue' + 1 <= ErrorsDue
    BY <1>0, <1>7 DEF IsrFlag, ErrorsDue, Due, TypeOK
  <2>. QED
    BY <1>0, <1>5, <1>6, <1>7, <2>1, <2>2 DEF IsrFlag, threads
<1>8. CASE IsrRead \/ IsrAck \/ IsrErrorCode \/ IsrComplete \/ TimerFires
  <2>1. stats' = stats /\ pc' = pc
    BY <1>8 DEF IsrRead, IsrAck, IsrErrorCode, IsrComplete, TimerFires, driver, threads
  <2>2. CASE IsrRead
    <3>1. /\ isr.pc = "idle" /\ isr'.pc = "ack" /\ isr'.seen = dev.irq_status
          /\ dev' = dev
      BY <2>2 DEF IsrRead
    <3>2. ErrorsDue' <= ErrorsDue
      BY <1>0, <3>1 DEF ErrorsDue, Due
    <3>. QED
      BY <1>0, <1>5, <1>6, <2>1, <3>2
  <2>3. CASE IsrAck
    <3>1. /\ "ERROR" \notin dev'.irq_status /\ dev'.timer = dev.timer
      BY <2>3 DEF IsrAck, WriteIrqStatus, UpdateIrq, Sound, Device, IrqBit
    <3>2. /\ isr.pc = "ack" /\ isr'.pc # "ack"
          /\ isr'.pc \in {"error", "flag"} => "ERROR" \in isr.seen
      BY <2>3 DEF IsrAck, TypeOK
    <3>3. ErrorsDue' <= ErrorsDue
      BY <1>0, <3>1, <3>2 DEF ErrorsDue, Due
    <3>. QED
      BY <1>0, <1>5, <1>6, <2>1, <3>3
  <2>4. CASE IsrErrorCode \/ IsrComplete
    <3>1. ErrorsDue' <= ErrorsDue
      BY <1>0, <2>4 DEF IsrErrorCode, IsrComplete, ErrorsDue, Due, TypeOK
    <3>. QED
      BY <1>0, <1>5, <1>6, <2>1, <3>1
  <2>5. CASE TimerFires
    <3>1. /\ dev.timer /\ ~dev'.timer /\ isr' = isr
      BY <2>5, DotTimerSound DEF TimerFires
    <3>2. ErrorsDue' <= ErrorsDue
      BY <1>0, <3>1 DEF ErrorsDue, Due
    <3>. QED
      BY <1>0, <1>5, <1>6, <2>1, <3>2
  <2>. QED
    BY <1>8, <2>2, <2>3, <2>4, <2>5
<1>9. CASE Finished \/ UNCHANGED vars
  BY <1>9 DEF Finished, vars, ErrorInv, ErrorsDue, Uncounted
<1>. QED
  BY <1>1, <1>2, <1>4, <1>7, <1>8, <1>9 DEF Next, Isr

\* What CountInv and ErrorInv say of the counters at any moment.
LEMMA StatsBounded ==
  ASSUME IInv, CountInv, ErrorInv
  PROVE  Bounded(stats)
<1>1. /\ stats["submitted"] \in Nat /\ stats["device_error"] \in Nat
      /\ dev.timer \in BOOLEAN
  BY StatFieldFacts DEF IInv, Base, TypeOK, Sound, Device
<1>2. ErrorsDue \in Nat /\ Due(Uncounted) \in {0, 1}
  BY <1>1 DEF ErrorsDue, Due
<1>. QED
  BY <1>1, <1>2 DEF Bounded, CountInv, ErrorInv

\* One read of a snapshot: the submissions are read when both ends have been.
LEMMA ReadStep ==
  ASSUME TypeOK, LoopsInRange, Bounded(stats), SnapInv, NEW t \in Thread, GetStatRead(t)
  PROVE  /\ pc'[t] = "stat_read" =>
              /\ \A f \in StatField : snap'[t][f] <= stats'[f]
              /\ word'[t] = 5 => Bounded(snap'[t])
         /\ pc'[t] # "stat_read" => Bounded(snap'[t])
<1>. DEFINE f == StatOrder[word[t]]
<1>. USE StatFieldFacts
<1>0. /\ stats \in [StatField -> Nat] /\ snap[t] \in [StatField -> Nat]
      /\ word[t] \in 1..5 /\ pc[t] = "stat_read" /\ pc \in [Thread -> PC]
      /\ word \in [Thread -> Nat \ {0}] /\ snap \in [Thread -> [StatField -> Nat]]
  BY DEF TypeOK, GetStatRead, Goto, LoopsInRange
<1>1. /\ snap'[t] = [snap[t] EXCEPT ![f] = stats[f]]
      /\ word'[t] = word[t] + 1 /\ stats' = stats
      /\ pc'[t] = IF word[t] = 5 THEN "copy_out" ELSE "stat_read"
  BY <1>0 DEF GetStatRead, Goto, driver, StatOrder
<1>2. \A g \in StatField : snap[t][g] <= stats[g]
  BY <1>0 DEF SnapInv
<1>3. \A g \in StatField : snap'[t][g] <= stats[g]
  BY <1>0, <1>1, <1>2
<1>4. CASE word[t] = 5
  <2>1. f = "resets"
    BY <1>4 DEF StatOrder
  <2>2. Bounded(snap[t])
    BY <1>0, <1>4 DEF SnapInv
  <2>. QED
    BY <1>0, <1>1, <1>4, <2>1, <2>2 DEF Bounded, Ends
<1>5. CASE word[t] = 4
  <2>1. f = "submitted"
    BY <1>5 DEF StatOrder
  <2>2. /\ snap'[t]["submitted"] = stats["submitted"]
        /\ snap'[t]["completed"] <= stats["completed"]
        /\ snap'[t]["timed_out"] <= stats["timed_out"]
        /\ snap'[t]["device_error"] <= stats["device_error"]
        /\ snap'[t] \in [StatField -> Nat]
    BY <1>0, <1>1, <1>3, <2>1
  <2>3. Ends(snap'[t]) <= Ends(stats)
    BY <1>0, <2>2 DEF Ends
  <2>4. Bounded(stats)
    OBVIOUS
  <2>5. Bounded(snap'[t])
    BY <1>0, <2>2, <2>3, <2>4 DEF Bounded, Ends
  <2>. QED
    BY <1>1, <1>3, <1>5, <2>5
<1>6. CASE word[t] \in 1..3
  BY <1>1, <1>3, <1>6
<1>. QED
  BY <1>0, <1>4, <1>5, <1>6

LEMMA SnapStep ==
  ASSUME IInv, Bounded(stats), SnapInv, [Next]_vars
  PROVE  SnapInv'
<1>. TypeOK /\ LoopsInRange
  BY DEF IInv, Base
<1>0. stats \in [StatField -> Nat] /\ snap \in [Thread -> [StatField -> Nat]]
  BY DEF TypeOK
<1>1. stats' \in [StatField -> Nat] /\ \A f \in StatField : stats[f] <= stats'[f]
  BY StatsGrow
<1>. DEFINE Fine(s) ==
       /\ pc[s] = "stat_read" =>
            /\ \A f \in StatField : snap[s][f] <= stats[f]
            /\ word[s] = 5 => Bounded(snap[s])
       /\ pc[s] # "stat_read" => Bounded(snap[s])
<1>2. ASSUME NEW s \in Thread, pc'[s] = pc[s], snap'[s] = snap[s], word'[s] = word[s]
      PROVE  Fine(s)'
  <2>1. snap[s] \in [StatField -> Nat]
    BY <1>0
  <2>2. ASSUME NEW f \in StatField, snap[s][f] <= stats[f]
        PROVE  snap[s][f] <= stats'[f]
    BY <1>0, <1>1, <2>1, <2>2
  <2>. QED
    BY <1>2, <2>2 DEF SnapInv
<1>3. ASSUME NEW t \in Thread, Call(t) \/ Step(t)
      PROVE  Fine(t)'
  <2>. USE DEF Goto, TypeOK
  <2>1. CASE GetStatRead(t)
    BY <2>1, ReadStep
  <2>2. CASE GetStat(t)
    <3>1. pc'[t] = "stat_read" /\ word'[t] = 1 /\ snap'[t] = ZeroStats
      BY <2>2 DEF GetStat, Enter
    <3>2. \A f \in StatField : snap'[t][f] <= stats'[f]
      BY <1>1, <3>1 DEF ZeroStats
    <3>. QED
      BY <3>1, <3>2
  <2>3. CASE ~GetStatRead(t) /\ ~GetStat(t)
    <3>1. pc[t] # "stat_read" /\ pc'[t] # "stat_read" /\ snap'[t] = snap[t]
      <4>1. CASE Call(t)
        <5>1. CASE CopyInFails(t)
          BY <5>1 DEF CopyInFails, Enter, locals
        <5>2. CASE ~CopyInFails(t)
          BY <2>3, <4>1, <5>2 DEF Call, RunDot, Reset, SetFault, Enter, locals
        <5>. QED
          BY <5>1, <5>2
      <4>2. CASE RunStep(t)
        BY <4>2 DEF RunStep, RunLock, RunAck, RunEnable, RunBadLength, RunInput,
                    RunLength, RunStart, RunCount, RunWaitCompleted, RunWaitTimeout,
                    RunTimedOut, RunWoken, RunError, RunClear, RunResult, locals
      <4>3. CASE ResetStep(t)
        BY <4>3 DEF ResetStep, ResetLock, HwDisable, HwReset, HwAck, HwStatus,
                    HwIrqStatus, HwErrorCode, HwRead, locals
      <4>4. CASE SetFaultWrite(t) \/ CopyOut(t)
        BY <4>4 DEF SetFaultWrite, CopyOut, locals
      <4>. QED
        BY <1>3, <2>3, <4>1, <4>2, <4>3, <4>4 DEF Step
    <3>. QED
      BY <3>1 DEF SnapInv
  <2>. QED
    BY <2>1, <2>2, <2>3
<1>4. ASSUME NEW t \in Thread, Call(t) \/ Step(t), NEW s \in Thread
      PROVE  Fine(s)'
  <2>1. CASE s = t
    BY <1>3, <1>4, <2>1
  <2>2. CASE s # t
    BY <1>2, <1>4, <2>2, OthersKept, OthersKeptToo
  <2>. QED
    BY <2>1, <2>2
<1>5. CASE Isr \/ TimerFires \/ Finished \/ UNCHANGED vars
  BY <1>2, <1>5, NobodyMovesToo DEF SnapInv
<1>. QED
  BY <1>4, <1>5 DEF Next, SnapInv

LEMMA InitSInv == Init => SInv
<1>. SUFFICES ASSUME Init PROVE SInv
  OBVIOUS
<1>1. /\ Ends(ZeroStats) = 0 /\ ZeroStats["submitted"] = 0
      /\ ZeroStats["device_error"] = 0
  BY DEF Ends, ZeroStats, StatField
<1>2. Bounded(ZeroStats)
  BY <1>1 DEF Bounded
<1>3. ErrorInv
  BY <1>1 DEF Init, RegisterInit, ErrorInv, ErrorsDue, Uncounted, Due
<1>. QED
  BY <1>1, <1>2, <1>3
  DEF Init, SInv, Exclusion, CountInv, SnapInv, Ahead, Held, RunHeld, ResetHeld

\* However GET_STAT interleaves with any number of callers and the handler, on
\* one CPU or several, whatever the faults and timeouts, its snapshot shows no
\* more completions and timeouts than submissions, and at most one device error
\* more than submissions.
THEOREM SnapshotCorrect == Spec => []SnapshotBounded
<1>1. IInv /\ SInv /\ [Next]_vars => SInv'
  BY ExclusionStep, CountStep, ErrorStep, StatsBounded, SnapStep DEF SInv, IInv, Base
<1>2. SInv => SnapshotBounded
  BY DEF SInv, SnapInv, SnapshotBounded, Bounded, Ends
<1>. QED
  BY <1>1, <1>2, InitSInv, SpecIInv, PTL DEF Spec
=============================================================================
