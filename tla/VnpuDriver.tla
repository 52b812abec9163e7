------------------------------ MODULE VnpuDriver ------------------------------
(***************************************************************************)
(* The Linux driver, linux-driver/src/vnpu_drv.c, on top of the device of  *)
(* VnpuRegs: the ioctls of any number of threads, the interrupt handler    *)
(* and the dot_timer, interleaved.  Every MMIO access is a step of its     *)
(* own, because the vCPU leaves the guest for each one and the timer or    *)
(* another CPU may act in between; the assignments that follow an access   *)
(* under the mutex belong to its step.                                     *)
(*                                                                         *)
(* The state starts after a successful vnpu_probe.  GET_INFO and the reads *)
(* of STATUS in the handler change nothing and are left out, and so are    *)
(* the fields nothing reads (last_irq, last_irq_error, device_status).     *)
(***************************************************************************)
EXTENDS VnpuRegs, Sequences

CONSTANTS
  Thread,      \* tasks calling ioctl on /dev/vnpu0
  NoThread,    \* owner of a free mutex
  Request,     \* struct vnpu_dot_request values, valid or not
  FaultMask,   \* fault_mask values of SET_FAULT, as sets of bits
  CopyOutcome, \* outcomes of copying from and to user memory: TRUE is success
  Smp,         \* other CPUs run while the interrupt handler does
  SharedLine,  \* the handler may be invoked with the line low: another device
               \* is on it (IRQF_SHARED), or it fell after the CPU was told
  VecLenSet,   \* FALSE: the code as it is, where vec_len stays 0
  MaxCalls     \* bound on the number of calls

\* struct vnpu_dot_request; a job id and the output fields play no part.
RequestType ==
  [abi_version : Nat, vector_length : Nat, timeout_ms : Nat,
   input : [WordIndex -> Word]]

ASSUME ThreadAssumption == NoThread \notin Thread
ASSUME RequestAssumption == Request # {} /\ Request \subseteq RequestType
ASSUME FaultMaskAssumption ==
  FaultMask # {} /\ \A m \in FaultMask : m \subseteq Nat
ASSUME FlagAssumption ==
  /\ CopyOutcome \subseteq BOOLEAN /\ Smp \in BOOLEAN
  /\ SharedLine \in BOOLEAN /\ VecLenSet \in BOOLEAN
ASSUME MaxCallsAssumption == MaxCalls \in Nat

\* vnpu_dot_timer runs this long after START.
DOT_LATENCY_MS == 100

StatField == {"timed_out", "completed", "device_error", "submitted", "resets"}

\* Mutant: the submissions are read before the ends.
StatOrder_SubmittedFirst ==
  <<"submitted", "completed", "timed_out", "device_error", "resets">>

\* The order in which GET_STAT reads the counters, without the mutex.
StatOrder == <<"timed_out", "completed", "device_error", "submitted", "resets">>

\* Mutant: the device's code is returned as it is.
Errno_Raw(err) == err

\* device_error_handler: the errno of a device error code.  The device never
\* gives the code of EOPNOTSUPP.
Errno(err) ==
  CASE err = "INVALID_LENGTH" -> "EINVAL"
    [] err = "BUSY" -> "EBUSY"
    [] OTHER -> "EIO"

Code == {"OK", "EINVAL", "EBUSY", "EIO", "ETIMEDOUT", "EFAULT"}
DriverStatus == {"OK", "TIMEOUT", "DEVICE_ERROR"}

VARIABLES
  dev,          \* the device's registers
  done,         \* irq_raised.done
  error_flag,   \* struct vnpu_device
  device_error,
  stats,        \* the five counters
  mutex,        \* its owner
  isr,          \* the running interrupt handler: its next step and irq_status
  pc,           \* each thread's next step
  req,          \* its struct vnpu_dot_request, as copied in
  mask,         \* its fault_mask
  word,         \* i + 1 of the input loops, or the position in StatOrder
  snap,         \* its struct vnpu_status
  out,          \* what its call has to return so far
  calls         \* how many calls were made

vars == <<dev, done, error_flag, device_error, stats, mutex, isr,
          pc, req, mask, word, snap, out, calls>>

\* Grouped for UNCHANGED.
driver == <<done, error_flag, device_error, stats>>
locals == <<req, mask, word, snap>>
----------------------------------------------------------------------------
\* The steps a thread takes with the mutex held, by ioctl.
RunHeld ==
  {"run_ack", "run_enable", "run_bad_length", "run_input", "run_length",
   "run_start", "run_count", "run_wait", "run_timed_out", "run_woken",
   "run_result"}
ResetHeld ==
  {"hw_disable", "hw_reset", "hw_ack", "hw_status", "hw_irq", "hw_err"}
Held == RunHeld \cup ResetHeld

PC == Held \cup {"idle", "run_lock", "run_error", "run_clear", "reset_lock",
                 "fault_write", "stat_read", "copy_out"}

ZeroStats == [f \in StatField |-> 0]

Outcome == [code : Code, driver_status : DriverStatus, result : Result]

NoOutcome == [code |-> "OK", driver_status |-> "OK", result |-> ZeroResult]

Init ==
  /\ dev = RegisterInit
  /\ done = 0
  /\ error_flag = FALSE
  /\ device_error = "NONE"
  /\ stats = ZeroStats
  /\ mutex = NoThread
  /\ isr = [pc |-> "idle", seen |-> {}]
  /\ pc = [t \in Thread |-> "idle"]
  /\ req = [t \in Thread |-> CHOOSE r \in Request : TRUE]
  /\ mask = [t \in Thread |-> CHOOSE m \in FaultMask : TRUE]
  /\ word = [t \in Thread |-> 1]
  /\ snap = [t \in Thread |-> ZeroStats]
  /\ out = [t \in Thread |-> NoOutcome]
  /\ calls = 0

\* On one CPU no thread runs while the interrupt handler does.
MayRun == Smp \/ isr.pc = "idle"

\* Thread t is at step from and goes to step to.
Goto(t, from, to) ==
  /\ MayRun
  /\ pc[t] = from
  /\ pc' = [pc EXCEPT ![t] = to]

\* Thread t is outside the kernel and makes a call.
Enter(t, to) ==
  /\ calls < MaxCalls
  /\ calls' = calls + 1
  /\ Goto(t, "idle", to)

\* Mutants: a lock that does not wait, an unlock that is forgotten.
Lock_NoWait(t) == mutex' = t
Unlock_Forgotten(t) == UNCHANGED mutex

Lock(t) == mutex = NoThread /\ mutex' = t
Unlock(t) == mutex' = NoThread

Count(f) == stats' = [stats EXCEPT ![f] = @ + 1]

\* The argument of a call cannot be copied in.  RESET has none.
CopyInFails(t) ==
  /\ FALSE \in CopyOutcome
  /\ Enter(t, "idle")
  /\ out' = [out EXCEPT ![t] = [NoOutcome EXCEPT !.code = "EFAULT"]]
  /\ UNCHANGED <<dev, driver, mutex, isr, locals>>
----------------------------------------------------------------------------
\* VNPU_IOCTL_RUN_DOT.

\* The three checks on the copied request.  device_revision was read by probe.
ValidRequest(r) ==
  /\ r.abi_version = 1
  /\ r.vector_length \in SupportedLen
  /\ r.timeout_ms \in 1..1000

\* Mutants: the code before revision B; the assignment the code lacks.
VecLen_AlwaysEight(r) == 8
VecLen_FromRequest(r) == r.vector_length

\* The local vec_len: the read that should set it is commented out.
VecLen(r) == IF VecLenSet THEN r.vector_length ELSE 0

RunDot(t) ==
  /\ \E r \in Request :
       /\ req' = [req EXCEPT ![t] = r]
       /\ IF ValidRequest(r)
          THEN /\ Enter(t, "run_lock")
               /\ out' = [out EXCEPT ![t] = NoOutcome]
          ELSE /\ Enter(t, "idle")
               /\ out' = [out EXCEPT ![t] = [NoOutcome EXCEPT !.code = "EINVAL"]]
  /\ UNCHANGED <<dev, driver, mutex, isr, mask, word, snap>>

\* Mutant: no reinit_completion.
RunLock_NoReinit(t) ==
  /\ Goto(t, "run_lock", "run_ack")
  /\ Lock(t)
  /\ UNCHANGED <<dev, driver, isr, locals, out, calls>>

RunLock(t) ==
  /\ Goto(t, "run_lock", "run_ack")
  /\ Lock(t)
  /\ done' = 0
  /\ UNCHANGED <<dev, error_flag, device_error, stats, isr, locals, out, calls>>

RunAck(t) ==
  /\ Goto(t, "run_ack", "run_enable")
  /\ dev' = WriteIrqStatus(dev, IrqBit)
  /\ UNCHANGED <<driver, mutex, isr, locals, out, calls>>

RunEnable(t) ==
  /\ Goto(t, "run_enable",
          IF VecLen(req[t]) \in {8, 16} THEN "run_input" ELSE "run_bad_length")
  /\ dev' = WriteIrqEnable(dev, IrqBit)
  /\ word' = [word EXCEPT ![t] = 1]
  /\ UNCHANGED <<driver, mutex, isr, req, mask, snap, out, calls>>

\* The else branch on vec_len returns without unlocking the mutex.
RunBadLength(t) ==
  /\ Goto(t, "run_bad_length", "idle")
  /\ out' = [out EXCEPT ![t].code = "EINVAL"]
  /\ UNCHANGED <<dev, driver, mutex, isr, locals, calls>>

\* One turn of the loop: input_a[i], then input_b[i].
RunInput(t) ==
  /\ Goto(t, "run_input",
          IF word[t] = VecLen(req[t]) \div 4 THEN "run_length" ELSE "run_input")
  /\ dev' = WriteInput(dev, word[t], req[t].input[word[t]])
  /\ word' = [word EXCEPT ![t] = @ + 1]
  /\ UNCHANGED <<driver, mutex, isr, req, mask, snap, out, calls>>

RunLength(t) ==
  /\ Goto(t, "run_length", "run_start")
  /\ dev' = WriteVectorLength(dev, req[t].vector_length)
  /\ UNCHANGED <<driver, mutex, isr, locals, out, calls>>

RunStart(t) ==
  /\ Goto(t, "run_start", "run_count")
  /\ dev' = WriteControl(dev, {"START"})
  /\ UNCHANGED <<driver, mutex, isr, locals, out, calls>>

RunCount(t) ==
  /\ Goto(t, "run_count", "run_wait")
  /\ Count("submitted")
  /\ UNCHANGED <<dev, done, error_flag, device_error, mutex, isr, locals, out, calls>>

\* wait_for_completion_timeout: one complete() is consumed, or the time is up
\* with none to consume.  A timeout no longer than the operation itself may
\* expire at any moment, a longer one once the device has nothing left to say.
RunWaitCompleted(t) ==
  /\ Goto(t, "run_wait", "run_woken")
  /\ done > 0
  /\ done' = done - 1
  /\ UNCHANGED <<dev, error_flag, device_error, stats, mutex, isr, locals, out, calls>>

Silent == ~dev.timer /\ ~dev.irq_line /\ isr.pc = "idle"

RunWaitTimeout(t) ==
  /\ Goto(t, "run_wait", "run_timed_out")
  /\ done = 0
  /\ req[t].timeout_ms <= DOT_LATENCY_MS \/ Silent
  /\ UNCHANGED <<dev, driver, mutex, isr, locals, out, calls>>

RunTimedOut(t) ==
  /\ Goto(t, "run_timed_out", "copy_out")
  /\ dev' = WriteControl(dev, {"RESET"})
  /\ Count("timed_out")
  /\ Unlock(t)
  /\ out' = [out EXCEPT ![t].code = "ETIMEDOUT", ![t].driver_status = "TIMEOUT"]
  /\ UNCHANGED <<done, error_flag, device_error, isr, locals, calls>>

\* The test of error_flag; a thread that finds it set unlocks at once.
RunWoken(t) ==
  /\ Goto(t, "run_woken", IF error_flag THEN "run_error" ELSE "run_result")
  /\ IF error_flag THEN Unlock(t) ELSE UNCHANGED mutex
  /\ UNCHANGED <<dev, driver, isr, locals, out, calls>>

\* device_error_handler, after the mutex was released: it reads device_error,
\* logs, and only then clears error_flag.
RunError(t) ==
  /\ Goto(t, "run_error", "run_clear")
  /\ out' = [out EXCEPT ![t].code = Errno(device_error),
                        ![t].driver_status = "DEVICE_ERROR"]
  /\ UNCHANGED <<dev, driver, mutex, isr, locals, calls>>

\* Mutant: error_flag is never cleared.
RunClear_KeepsFlag(t) ==
  /\ Goto(t, "run_clear", "copy_out")
  /\ UNCHANGED <<dev, driver, mutex, isr, locals, out, calls>>

RunClear(t) ==
  /\ Goto(t, "run_clear", "copy_out")
  /\ error_flag' = FALSE
  /\ UNCHANGED <<dev, done, device_error, stats, mutex, isr, locals, out, calls>>

\* Mutant: completions are not counted.
RunResult_NotCounted(t) ==
  /\ Goto(t, "run_result", "copy_out")
  /\ out' = [out EXCEPT ![t].result = dev.result]
  /\ dev' = ReadResult(dev)
  /\ Unlock(t)
  /\ UNCHANGED <<driver, isr, locals, calls>>

RunResult(t) ==
  /\ Goto(t, "run_result", "copy_out")
  /\ out' = [out EXCEPT ![t].result = dev.result]
  /\ dev' = ReadResult(dev)
  /\ Count("completed")
  /\ Unlock(t)
  /\ UNCHANGED <<done, error_flag, device_error, isr, locals, calls>>

\* copy_to_user and return.
CopyOut(t) ==
  /\ Goto(t, "copy_out", "idle")
  /\ \E ok \in CopyOutcome :
       out' = [out EXCEPT ![t].code = IF ok THEN @ ELSE "EFAULT"]
  /\ UNCHANGED <<dev, driver, mutex, isr, locals, calls>>
----------------------------------------------------------------------------
\* VNPU_IOCTL_RESET: vnpu_hw_reset under the mutex.  out.code gathers the
\* verdict of its three reads.
Reset(t) ==
  /\ Enter(t, "reset_lock")
  /\ out' = [out EXCEPT ![t] = NoOutcome]
  /\ UNCHANGED <<dev, driver, mutex, isr, locals>>

ResetLock(t) ==
  /\ Goto(t, "reset_lock", "hw_disable")
  /\ Lock(t)
  /\ UNCHANGED <<dev, driver, isr, locals, out, calls>>

HwDisable(t) ==
  /\ Goto(t, "hw_disable", "hw_reset")
  /\ dev' = WriteIrqEnable(dev, {})
  /\ UNCHANGED <<driver, mutex, isr, locals, out, calls>>

HwReset(t) ==
  /\ Goto(t, "hw_reset", "hw_ack")
  /\ dev' = WriteControl(dev, {"RESET"})
  /\ UNCHANGED <<driver, mutex, isr, locals, out, calls>>

HwAck(t) ==
  /\ Goto(t, "hw_ack", "hw_status")
  /\ dev' = WriteIrqStatus(dev, IrqBit)
  /\ UNCHANGED <<driver, mutex, isr, locals, out, calls>>

\* One register read; unless it finds what it should, the reset fails.
HwRead(t, from, to, fine) ==
  /\ Goto(t, from, to)
  /\ out' = [out EXCEPT ![t].code = IF fine THEN @ ELSE "EIO"]

HwStatus(t) ==
  /\ HwRead(t, "hw_status", "hw_irq", dev.status = "IDLE")
  /\ UNCHANGED <<dev, driver, mutex, isr, locals, calls>>

HwIrqStatus(t) ==
  /\ HwRead(t, "hw_irq", "hw_err", dev.irq_status = {})
  /\ UNCHANGED <<dev, driver, mutex, isr, locals, calls>>

\* The last read, the checks, reinit_completion, reset_num and the unlock.
\* error_flag is not cleared.
HwErrorCode(t) ==
  /\ HwRead(t, "hw_err", "idle", dev.err_code = "NONE")
  /\ IF out'[t].code = "OK"
     THEN done' = 0 /\ Count("resets")
     ELSE UNCHANGED <<done, stats>>
  /\ Unlock(t)
  /\ UNCHANGED <<dev, error_flag, device_error, isr, locals, calls>>
----------------------------------------------------------------------------
\* VNPU_IOCTL_SET_FAULT.

\* At most one bit, and none above the low nibble.
ValidMask(m) == Cardinality(m) <= 1 /\ m \subseteq FaultBit

SetFault(t) ==
  /\ \E m \in FaultMask :
       /\ mask' = [mask EXCEPT ![t] = m]
       /\ IF ValidMask(m)
          THEN /\ Enter(t, "fault_write")
               /\ out' = [out EXCEPT ![t] = NoOutcome]
          ELSE /\ Enter(t, "idle")
               /\ out' = [out EXCEPT ![t] = [NoOutcome EXCEPT !.code = "EINVAL"]]
  /\ UNCHANGED <<dev, driver, mutex, isr, req, word, snap>>

\* The mutex is taken and released around this one write.
SetFaultWrite(t) ==
  /\ Goto(t, "fault_write", "copy_out")
  /\ mutex = NoThread
  /\ dev' = WriteFaultControl(dev, mask[t])
  /\ UNCHANGED <<driver, mutex, isr, locals, out, calls>>

\* VNPU_IOCTL_GET_STAT: one counter after another, without the mutex.
GetStat(t) ==
  /\ Enter(t, "stat_read")
  /\ out' = [out EXCEPT ![t] = NoOutcome]
  /\ word' = [word EXCEPT ![t] = 1]
  /\ snap' = [snap EXCEPT ![t] = ZeroStats]
  /\ UNCHANGED <<dev, driver, mutex, isr, req, mask>>

GetStatRead(t) ==
  /\ Goto(t, "stat_read", IF word[t] = Len(StatOrder) THEN "copy_out" ELSE "stat_read")
  /\ snap' = [snap EXCEPT ![t][StatOrder[word[t]]] = stats[StatOrder[word[t]]]]
  /\ word' = [word EXCEPT ![t] = @ + 1]
  /\ UNCHANGED <<dev, driver, mutex, isr, req, mask, out, calls>>
----------------------------------------------------------------------------
\* vnpu_irq_handler.
threads == <<pc, locals, out, calls>>

\* Entry and the read of IRQ_STATUS.
IsrRead ==
  /\ isr.pc = "idle"
  /\ dev.irq_line \/ SharedLine
  /\ isr' = [pc |-> "ack", seen |-> dev.irq_status]
  /\ UNCHANGED <<dev, driver, mutex, threads>>

\* It acknowledges every bit, not the ones it read.
IsrAck ==
  /\ isr.pc = "ack"
  /\ dev' = WriteIrqStatus(dev, IrqBit)
  /\ isr' = [isr EXCEPT !.pc = IF isr.seen = {} THEN "idle"
                               ELSE IF "ERROR" \in isr.seen THEN "error"
                               ELSE "complete"]
  /\ UNCHANGED <<driver, mutex, threads>>

IsrErrorCode ==
  /\ isr.pc = "error"
  /\ device_error' = dev.err_code
  /\ isr' = [isr EXCEPT !.pc = "flag"]
  /\ UNCHANGED <<dev, done, error_flag, stats, mutex, threads>>

\* Mutant: device errors are not counted.
IsrFlag_NotCounted ==
  /\ isr.pc = "flag"
  /\ error_flag' = TRUE
  /\ isr' = [isr EXCEPT !.pc = "complete"]
  /\ UNCHANGED <<dev, done, device_error, stats, mutex, threads>>

IsrFlag ==
  /\ isr.pc = "flag"
  /\ error_flag' = TRUE
  /\ Count("device_error")
  /\ isr' = [isr EXCEPT !.pc = "complete"]
  /\ UNCHANGED <<dev, done, device_error, mutex, threads>>

IsrComplete ==
  /\ isr.pc = "complete"
  /\ done' = done + 1
  /\ isr' = [pc |-> "idle", seen |-> {}]
  /\ UNCHANGED <<dev, error_flag, device_error, stats, mutex, threads>>

TimerFires ==
  /\ dev.timer
  /\ dev' = DotTimer(dev)
  /\ UNCHANGED <<driver, mutex, isr, threads>>
----------------------------------------------------------------------------
Call(t) == RunDot(t) \/ Reset(t) \/ SetFault(t) \/ GetStat(t) \/ CopyInFails(t)

RunStep(t) ==
  \/ RunLock(t) \/ RunAck(t) \/ RunEnable(t) \/ RunBadLength(t)
  \/ RunInput(t) \/ RunLength(t) \/ RunStart(t) \/ RunCount(t)
  \/ RunWaitCompleted(t) \/ RunWaitTimeout(t) \/ RunTimedOut(t)
  \/ RunWoken(t) \/ RunError(t) \/ RunClear(t) \/ RunResult(t)

ResetStep(t) ==
  \/ ResetLock(t) \/ HwDisable(t) \/ HwReset(t) \/ HwAck(t)
  \/ HwStatus(t) \/ HwIrqStatus(t) \/ HwErrorCode(t)

Step(t) ==
  \/ RunStep(t) \/ ResetStep(t) \/ SetFaultWrite(t) \/ GetStatRead(t) \/ CopyOut(t)

Isr == IsrRead \/ IsrAck \/ IsrErrorCode \/ IsrFlag \/ IsrComplete

\* All calls were made and have returned: the bounded instance is at its end.
\* A thread that waits for the mutex forever is still a deadlock.
Finished ==
  /\ calls = MaxCalls
  /\ \A t \in Thread : pc[t] = "idle"
  /\ UNCHANGED vars

Next == (\E t \in Thread : Call(t) \/ Step(t)) \/ Isr \/ TimerFires \/ Finished

Spec == Init /\ [][Next]_vars

\* The scheduler runs every thread that can run, an asserted interrupt is
\* delivered, an expired timer fires, and the clock of a wait does not stop for
\* the handler: it expires if it can again and again.  Nobody has to make a call.
FairSpec ==
  /\ Spec
  /\ \A t \in Thread : WF_vars(Step(t)) /\ SF_vars(RunWaitTimeout(t))
  /\ WF_vars(Isr)
  /\ WF_vars(TimerFires)
----------------------------------------------------------------------------
\* Every variable has its type, struct vnpu_device and the locals of vnpu_ioctl.
TypeOK ==
  /\ dev \in Device
  /\ done \in Nat
  /\ error_flag \in BOOLEAN
  /\ device_error \in ErrCode
  /\ stats \in [StatField -> Nat]
  /\ mutex \in Thread \cup {NoThread}
  /\ isr \in [pc : {"idle", "ack", "error", "flag", "complete"},
              seen : SUBSET IrqBit]
  /\ pc \in [Thread -> PC]
  /\ req \in [Thread -> Request]
  /\ mask \in [Thread -> FaultMask]
  /\ word \in [Thread -> Nat \ {0}]
  /\ snap \in [Thread -> [StatField -> Nat]]
  /\ out \in [Thread -> Outcome]
  /\ calls \in 0..MaxCalls

\* The mutex is held exactly by the thread inside a locked section: never two
\* threads in one, and no return path of vnpu_ioctl that keeps it.
LockDiscipline == \A t \in Thread : pc[t] \in Held <=> mutex = t

\* RESULT is read only from a device that finished (docs/register_map.md:280).
ResultReadWhenDone ==
  \A t \in Thread : pc[t] = "run_result" => dev.status = "DONE"

\* A successful RUN_DOT returns the product of its own operands, over its own
\* length, whatever the calls before it, around it, or timed out left behind.
ResultIsMine ==
  [][\A t \in Thread :
       pc[t] = "run_result" /\ pc'[t] = "copy_out" =>
         out'[t].result.of =
           [i \in WordsOf(req[t].vector_length) |-> req[t].input[i]]]_vars

\* Between two locked sections nothing is in flight: the device is idle, or in
\* STATUS_ERROR waiting for RESET, so the next START meets no leftover.
DeviceFreeWithLock ==
  mutex = NoThread => dev.status \in {"IDLE", "ERROR"} /\ ~dev.timer

\* A call that reports a device error reports the device's own code, while the
\* device still is in STATUS_ERROR: no stale error_flag or device_error.
ErrorIsMine ==
  [][\A t \in Thread :
       pc[t] = "run_error" /\ pc'[t] = "run_clear" =>
         dev.status = "ERROR" /\ out'[t].code = Errno(dev.err_code)]_vars

\* Every submission is accounted for exactly once when its locked section ends
\* (python-tests/test_stats.py checks the deltas of single calls).
StatsBalance ==
  mutex = NoThread =>
    stats["submitted"] =
      stats["completed"] + stats["timed_out"] + stats["device_error"]

\* What every GET_STAT snapshot, taken without the mutex while others submit,
\* does show, on one CPU or several: no more completions and timeouts than
\* submissions, because it reads them first, and at most one device error more
\* than submissions, that of a START whose caller has yet to count it.  So the ends
\* together may exceed the submissions by one: START, error interrupt, GET_STAT.
SnapshotBounded ==
  \A t \in Thread :
    pc[t] = "copy_out" =>
      /\ snap[t]["completed"] + snap[t]["timed_out"] <= snap[t]["submitted"]
      /\ snap[t]["device_error"] <= snap[t]["submitted"] + 1

\* A thread still waiting on a finished device was either told (complete() was
\* or is about to be called) or FAULT_IRQ_DROP suppressed the interrupt.
CompletionNotLost ==
  \A t \in Thread :
    pc[t] = "run_wait" /\ dev.status = "DONE" =>
      \/ done > 0 \/ isr.pc # "idle" \/ dev.irq_line
      \/ FAULT_IRQ_DROP \in dev.fault_control

\* RESET works from every state the driver can leave the device in, and from
\* then on the next RUN_DOT starts on an idle, silent, fault-free device.
ResetSucceeds ==
  [][\A t \in Thread :
       pc[t] = "hw_err" /\ pc'[t] = "idle" =>
         /\ out'[t].code = "OK"
         /\ done' = 0
         /\ dev'.status = "IDLE" /\ ~dev'.timer /\ ~dev'.irq_line
         /\ dev'.fault_control = {}]_vars

\* The driver uses the device as the register map documents it: it starts only
\* idle devices, and leaves STATUS_ERROR only by RESET.
Lifecycle ==
  INSTANCE VnpuLifecycle WITH status <- dev.status, inflight <- dev.timer
DocumentedLifecycle == Lifecycle!Spec

\* The driver keeps the promise of VnpuService: a job is open from its START to
\* the moment its caller knows its end, one at a time, whatever the fault; a
\* result is of the job's own operands and a failure is the job's own.
OperandsOf(r) ==
  [i \in WordsOf(r.vector_length) \cap WordIndex |-> r.input[i]]
OpenJobs ==
  {[by |-> t, of |-> OperandsOf(req[t])] : t \in
     {u \in Thread : pc[u] \in {"run_count", "run_wait", "run_timed_out",
                                "run_woken", "run_result"}}}
AnswerTo(t) ==
  [kind |-> IF pc[t] \in {"run_error", "run_clear"} THEN "device_error"
            ELSE IF out[t].code = "EFAULT" THEN "lost"
            ELSE IF out[t].driver_status = "TIMEOUT" THEN "timed_out"
            ELSE IF out[t].driver_status = "DEVICE_ERROR" THEN "device_error"
            ELSE IF out[t].code # "OK" THEN "refused"
            ELSE IF out[t].result.of # <<>> THEN "completed"
            ELSE "nothing",
   of |-> IF out[t].code = "EFAULT" THEN <<>> ELSE out[t].result.of]

Service ==
  INSTANCE VnpuService WITH
    Caller <- Thread,
    Vectors <- {OperandsOf(r) : r \in Request},
    open <- OpenJobs,
    failed <- error_flag /\ OpenJobs # {},
    answer <- [t \in Thread |-> AnswerTo(t)],
    tally <- [stats EXCEPT !["submitted"] =
                @ + Cardinality({t \in Thread : pc[t] = "run_count"})]
ImplementsService == Service!Spec

\* docs/uapi.md:35: every call returns, whatever fault is injected.
EveryCallReturns == \A t \in Thread : pc[t] # "idle" ~> pc[t] = "idle"

\* The code as it is: no operation ever starts and nothing is ever counted but
\* resets, because vec_len is 0 in every RUN_DOT.
NothingEverStarts ==
  /\ dev.status = "IDLE" /\ ~dev.timer
  /\ \A f \in StatField \ {"resets"} : stats[f] = 0
=============================================================================
