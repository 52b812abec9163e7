--------------------------- MODULE VnpuProbeProofs ---------------------------
(***************************************************************************)
(* The driver from insmod to rmmod, proved for any number of bindings,     *)
(* threads and calls, any step of probe failing, and any use of the device *)
(* before the first probe: nothing is used before it is there or after it  *)
(* is gone, probe brings the device back from every state, remove gives    *)
(* everything back, and, once the node is opened only when probe is done,  *)
(* what VnpuDriverProofs and VnpuOneCpuProofs show of one binding that     *)
(* starts from power-on holds of every binding.                            *)
(***************************************************************************)
EXTENDS VnpuProbe, VnpuOneCpuProofs

\* What devres holds is the first so many of these.
Order == <<"pci", "memory", "mapping", "irq">>
Resource == {"pci", "memory", "mapping", "irq"}

InOrder(s) ==
  /\ s \in Seq(Resource)
  /\ Len(s) \in 0..4
  /\ \A i \in 1..Len(s) : s[i] = Order[i]

\* How many it holds before each step, unless it is giving them back.
ManagedAt(step) ==
  CASE step \in {"off", "enable", "unbound"} -> 0
    [] step = "alloc" -> 1
    [] step \in {"regions", "iomap"} -> 2
    [] step \in {"hw_disable", "hw_reset", "hw_ack", "hw_check", "request_irq"} -> 3
    [] OTHER -> 4

Phase ==
  {"off", "enable", "alloc", "regions", "iomap", "hw_disable", "hw_reset", "hw_ack",
   "hw_check", "request_irq", "register", "revision", "zero", "bound",
   "release_regions", "remove", "unwind", "unbound"}

Resources ==
  /\ phase \in Phase
  /\ InOrder(managed)
  /\ phase \notin {"unwind", "remove"} => Len(managed) = ManagedAt(phase)
  /\ handler <=> Len(managed) = 4
  /\ node <=> phase \in {"revision", "zero", "bound"}
  /\ phase = "remove" => ~regions

\* Only who has the node open is in a call, only an installed handler runs.
Users ==
  /\ file # {} => node
  /\ \A t \in Thread : pc[t] # "idle" => t \in file
  /\ isr.pc # "idle" => handler
  /\ isr.pc = "idle" => isr.seen = {}
  /\ phase \in {"zero", "bound"} => device_revision # 0

\* A device without an interrupt to give, and a handler that saw none.
Fresh == Clean(dev) /\ isr.seen = {} /\ isr.pc \in {"idle", "ack"}

\* So it is from the RESET of vnpu_hw_reset until the node exists, and until the
\* handler is freed if probe fails before that.
FreshFromReset ==
  phase \in {"hw_ack", "hw_check", "request_irq", "register"}
    \/ (phase = "unwind" /\ handler)
  => Fresh

\* The inductive invariant, however early the node is opened.
ProbeInv == Base /\ Resources /\ Users /\ FreshFromReset

\* What is added if the node is opened only once probe is done: no RUN_DOT runs
\* without its checks, and the device is still fresh when the counters are zeroed.
LateInv ==
  /\ file # {} => phase = "bound"
  /\ Validated
  /\ phase \in {"revision", "zero"} => Fresh

\* Nothing in flight, and nothing the handler would have to tell.
Still == Rest /\ isr.pc \in {"idle", "ack"}

\* And on one CPU with vec_len set: a binding starts in the invariant of
\* VnpuOneCpuProofs, stays in it, and leaves a still device behind.
BindingInv ==
  /\ LockInv
  /\ phase = "bound" => TimerMeansBusy /\ OneInv
  /\ phase \in {"release_regions", "remove"} => Still
----------------------------------------------------------------------------
\* devres: the next resource on top, and the youngest off.
LEMMA OrderFacts ==
  /\ Order[1] = "pci" /\ Order[2] = "memory" /\ Order[3] = "mapping"
  /\ Order[4] = "irq"
  /\ \A n \in 1..4 : Order[n] \in Resource /\ (Order[n] = "irq" <=> n = 4)
<1>1. /\ Order[1] = "pci" /\ Order[2] = "memory" /\ Order[3] = "mapping"
      /\ Order[4] = "irq"
  BY DEF Order
<1>. QED
  BY <1>1 DEF Resource

LEMMA AppendInOrder ==
  ASSUME NEW s, InOrder(s), Len(s) < 4, NEW e, e = Order[Len(s) + 1]
  PROVE  InOrder(Append(s, e)) /\ Len(Append(s, e)) = Len(s) + 1
<1>1. e \in Resource
  BY OrderFacts DEF InOrder
<1>2. /\ Append(s, e) \in Seq(Resource) /\ Len(Append(s, e)) = Len(s) + 1
      /\ \A i \in 1..Len(s) : Append(s, e)[i] = s[i]
      /\ Append(s, e)[Len(s) + 1] = e
  BY <1>1 DEF InOrder
<1>. QED
  BY <1>2 DEF InOrder

LEMMA FrontInOrder ==
  ASSUME NEW s, InOrder(s), s # <<>>
  PROVE  /\ InOrder(Front(s)) /\ Len(Front(s)) = Len(s) - 1
         /\ Last(s) = "irq" <=> Len(s) = 4
<1>1. Len(s) \in 1..4
  BY DEF InOrder
<1>2. /\ Front(s) \in Seq(Resource) /\ Len(Front(s)) = Len(s) - 1
      /\ \A i \in 1..(Len(s) - 1) : Front(s)[i] = s[i]
  BY <1>1 DEF InOrder, Front
<1>3. Last(s) = Order[Len(s)]
  BY <1>1 DEF InOrder, Last
<1>4. InOrder(Front(s))
  BY <1>1, <1>2 DEF InOrder
<1>5. Last(s) = "irq" <=> Len(s) = 4
  BY <1>1, <1>3, OrderFacts
<1>. QED
  BY <1>2, <1>4, <1>5

\* Threads do not touch the handler's state.
LEMMA ThreadsKeepHandler ==
  ASSUME NEW t \in Thread, Call(t) \/ Step(t)
  PROVE  UNCHANGED isr
<1>1. CASE Call(t)
  BY <1>1 DEF Call, RunDot, Reset, SetFault, GetStat, CopyInFails
<1>2. CASE RunStep(t)
  BY <1>2 DEF RunStep, RunLock, RunAck, RunEnable, RunBadLength, RunInput,
              RunLength, RunStart, RunCount, RunWaitCompleted, RunWaitTimeout,
              RunTimedOut, RunWoken, RunError, RunClear, RunResult
<1>3. CASE ResetStep(t)
  BY <1>3 DEF ResetStep, ResetLock, HwDisable, HwReset, HwAck, HwStatus,
              HwIrqStatus, HwErrorCode
<1>4. CASE SetFaultWrite(t) \/ GetStatRead(t) \/ CopyOut(t)
  BY <1>4 DEF SetFaultWrite, GetStatRead, CopyOut
<1>. QED
  BY <1>1, <1>2, <1>3, <1>4 DEF Step

\* A RUN_DOT that may or may not find the revision read.
LEMMA ProbeRunDotFacts ==
  ASSUME Base, NEW t \in Thread, ProbeRunDot(t)
  PROVE  /\ Base'
         /\ UNCHANGED <<dev, isr, mutex>>
         /\ pc[t] = "idle" /\ \A s \in Thread \ {t} : pc'[s] = pc[s]
<1>. TypeOK /\ Sound(dev) /\ LoopsInRange
  BY DEF Base
<1>1. PICK r \in Request :
        /\ req' = [req EXCEPT ![t] = r]
        /\ Enter(t, IF Accepted(r) THEN "run_lock" ELSE "idle")
        /\ out' = [out EXCEPT ![t] = [NoOutcome EXCEPT !.code =
                                       IF Accepted(r) THEN "OK" ELSE "EINVAL"]]
  BY DEF ProbeRunDot
<1>2. UNCHANGED <<dev, driver, mutex, isr, mask, word, snap>>
  BY DEF ProbeRunDot
<1>3. PICK to \in {"run_lock", "idle"} : Enter(t, to)
  BY <1>1
<1>4. /\ pc' = [pc EXCEPT ![t] = to] /\ pc[t] = "idle"
      /\ pc' \in [Thread -> PC] /\ calls' \in 0..MaxCalls
  BY <1>3, MaxCallsAssumption DEF Enter, Goto, TypeOK, PC
<1>5. out' \in [Thread -> Outcome]
  <2>1. [NoOutcome EXCEPT !.code = "OK"] = NoOutcome
    BY DEF NoOutcome
  <2>. QED
    BY <1>1, <2>1, CleanLocals DEF TypeOK
<1>6. TypeOK'
  BY <1>1, <1>2, <1>4, <1>5 DEF TypeOK, driver
<1>7. \A s \in Thread : pc'[s] \in {"run_input", "stat_read"} =>
        pc'[s] = pc[s] /\ req'[s] = req[s] /\ word'[s] = word[s]
  BY <1>1, <1>2, <1>4 DEF TypeOK
<1>8. LoopsInRange'
  BY <1>7 DEF LoopsInRange
<1>. QED
  BY <1>2, <1>4, <1>6, <1>8 DEF Base, Sound, LineSound, TimerSound, CompletionSound,
                                ErrorSound, TypeOK

\* Once it has been read, the checks are those of VnpuDriver.
LEMMA RunDotOfBound ==
  ASSUME device_revision # 0, NEW t \in Thread, ProbeRunDot(t)
  PROVE  RunDot(t)
<1>1. \A r \in Request : Accepted(r) <=> ValidRequest(r)
  BY DEF Accepted, ValidRequest
<1>2. [NoOutcome EXCEPT !.code = "OK"] = NoOutcome
  BY DEF NoOutcome
<1>. QED
  BY <1>1, <1>2 DEF ProbeRunDot, RunDot

LEMMA FileCallCases ==
  ASSUME NEW t \in Thread, FileCall(t)
  PROVE  /\ t \in file /\ UNCHANGED binding
         /\ ProbeRunDot(t) \/ Call(t) \/ Step(t)
         /\ device_revision # 0 => Call(t) \/ Step(t)
BY RunDotOfBound DEF FileCall, Call
----------------------------------------------------------------------------
\* The handlers a tool meets are those the driver meets.
LEMMA ToolHandlers ==
  ASSUME NEW d, NEW val, NEW i
  PROVE  /\ Tool!WriteControl(d, val) = WriteControl(d, val)
         /\ Tool!WriteIrqStatus(d, val) = WriteIrqStatus(d, val)
         /\ Tool!WriteIrqEnable(d, val) = WriteIrqEnable(d, val)
         /\ Tool!WriteJobId(d, val) = WriteJobId(d, val)
         /\ Tool!WriteVectorLength(d, val) = WriteVectorLength(d, val)
         /\ Tool!WriteInput(d, i, val) = WriteInput(d, i, val)
         /\ Tool!WriteFaultControl(d, val) = WriteFaultControl(d, val)
         /\ Tool!ReadResult(d) = ReadResult(d)
         /\ Tool!DotTimer(d) = DotTimer(d)
<1>0. \A e : Tool!UpdateIrq(e) = UpdateIrq(e)
  BY DEF Tool!UpdateIrq, UpdateIrq
<1>1. Tool!WriteControl(d, val) = WriteControl(d, val)
  <2>1. Tool!ControlReset(d) = ControlReset(d)
    BY <1>0 DEF Tool!ControlReset, ControlReset
  <2>2. Tool!StartRejected(d) = StartRejected(d)
    BY <1>0 DEF Tool!StartRejected, StartRejected
  <2>3. Tool!StartAccepted(d) = StartAccepted(d)
    BY <1>0 DEF Tool!StartAccepted, StartAccepted
  <2>. QED
    BY <2>1, <2>2, <2>3 DEF Tool!WriteControl, WriteControl
<1>2. Tool!WriteIrqStatus(d, val) = WriteIrqStatus(d, val)
  BY <1>0 DEF Tool!WriteIrqStatus, WriteIrqStatus
<1>3. Tool!WriteIrqEnable(d, val) = WriteIrqEnable(d, val)
  BY <1>0 DEF Tool!WriteIrqEnable, WriteIrqEnable, Tool!IrqBit, IrqBit
<1>4. Tool!WriteVectorLength(d, val) = WriteVectorLength(d, val)
  <2>1. Tool!SupportedLen = SupportedLen
    BY DEF Tool!SupportedLen, SupportedLen, Tool!VNPU_REVISION_A, VNPU_REVISION_A
  <2>. QED
    BY <1>0, <2>1 DEF Tool!WriteVectorLength, WriteVectorLength
<1>5. /\ Tool!WriteJobId(d, val) = WriteJobId(d, val)
      /\ Tool!WriteInput(d, i, val) = WriteInput(d, i, val)
      /\ Tool!ReadResult(d) = ReadResult(d)
  BY DEF Tool!WriteJobId, WriteJobId, Tool!WriteInput, WriteInput, Tool!ReadResult,
         ReadResult
<1>6. Tool!WriteFaultControl(d, val) = WriteFaultControl(d, val)
  BY DEF Tool!WriteFaultControl, WriteFaultControl, Tool!LowestBit, LowestBit,
         Tool!FaultBit, FaultBit
<1>7. Tool!DotTimer(d) = DotTimer(d)
  <2>1. \A e : Tool!DotProduct(e) = DotProduct(e)
    BY DEF Tool!DotProduct, DotProduct, Tool!WordsOf, WordsOf, Tool!ZeroResult,
           ZeroResult
  <2>2. \A e : Tool!InjectFault(e) = InjectFault(e)
    BY DEF Tool!InjectFault, InjectFault, Tool!FAULT_IRQ_DROP, FAULT_IRQ_DROP,
           Tool!FAULT_STUCK_BUSY, FAULT_STUCK_BUSY, Tool!FAULT_CORRUPT_RESULT,
           FAULT_CORRUPT_RESULT, Tool!FAULT_FORCE_ERROR, FAULT_FORCE_ERROR
  <2>. QED
    BY <1>0, <2>1, <2>2 DEF Tool!DotTimer, DotTimer
<1>. QED
  BY <1>1, <1>2, <1>3, <1>4, <1>5, <1>6, <1>7

\* Any tool leaves the device sound.
LEMMA ToolSound ==
  ASSUME Sound(dev), ToolUsesDevice
  PROVE  Sound(dev')
<1>. Tool!Next
  BY DEF ToolUsesDevice
<1>. USE ToolHandlers
<1>1. CASE Tool!MmioControl
  BY <1>1, WriteControlSound DEF Tool!MmioControl
<1>2. CASE Tool!MmioIrqStatus
  BY <1>2, WriteIrqStatusSound DEF Tool!MmioIrqStatus
<1>3. CASE Tool!MmioIrqEnable
  BY <1>3, WriteIrqEnableSound DEF Tool!MmioIrqEnable
<1>4. CASE Tool!MmioJobId
  BY <1>4, WriteJobIdSound DEF Tool!MmioJobId
<1>5. CASE Tool!MmioVectorLength
  BY <1>5, WriteVectorLengthSound DEF Tool!MmioVectorLength
<1>6. CASE Tool!MmioInput
  BY <1>6, WriteInputSound DEF Tool!MmioInput, Tool!WordIndex, WordIndex
<1>7. CASE Tool!MmioFaultControl
  BY <1>7, WriteFaultControlSound DEF Tool!MmioFaultControl
<1>8. CASE Tool!MmioReadResult
  BY <1>8, ReadResultSound DEF Tool!MmioReadResult
<1>9. CASE Tool!TimerFires
  BY <1>9, DotTimerSound DEF Tool!TimerFires
<1>. QED
  BY <1>1, <1>2, <1>3, <1>4, <1>5, <1>6, <1>7, <1>8, <1>9 DEF Tool!Next

LEMMA BaseNext ==
  ASSUME Base, [Next]_vars
  PROVE  Base'
<1>1. Sound(dev)'
  BY DeviceStep DEF Sound, LineSound, TimerSound, CompletionSound, ErrorSound
<1>. QED
  BY <1>1, TypeStep, LoopsStep DEF Base

LEMMA SoundPrime ==
  ASSUME Sound(dev')
  PROVE  Sound(dev)'
BY DEF Sound, LineSound, TimerSound, CompletionSound, ErrorSound

LEMMA BaseStep ==
  ASSUME Base, [ProbeNext]_probeVars
  PROVE  Base'
<1>. TypeOK /\ Sound(dev)
  BY DEF Base
<1>1. CASE UNCHANGED vars
  BY <1>1, BaseNext
<1>2. ASSUME NEW t \in Thread, FileCall(t)
      PROVE  Base'
  <2>1. CASE ProbeRunDot(t)
    BY <2>1, ProbeRunDotFacts
  <2>2. CASE Call(t) \/ Step(t)
    BY <2>2, BaseNext DEF Next
  <2>. QED
    BY <1>2, <2>1, <2>2, FileCallCases
<1>3. CASE Background
  BY <1>3, BaseNext DEF Background, Next, Isr
<1>4. ASSUME Sound(dev'), UNCHANGED <<driver, mutex, isr, threads>>
      PROVE  Base'
  <2>1. UNCHANGED <<done, error_flag, device_error, stats, mutex, isr, pc, req, mask,
                    word, snap, out, calls>>
    BY <1>4 DEF driver, threads, locals
  <2>2. dev' \in Device
    BY <1>4 DEF Sound
  <2>. QED
    BY <1>4, <2>1, <2>2, SoundPrime DEF Base, TypeOK, LoopsInRange
<1>5. CASE ToolUsesDevice
  <2>1. Sound(dev')
    BY <1>5, ToolSound
  <2>2. UNCHANGED <<driver, mutex, isr, threads>>
    BY <1>5 DEF ToolUsesDevice
  <2>. QED
    BY <1>4, <2>1, <2>2
<1>6. CASE ProbeDisable \/ ProbeReset \/ ProbeAck
  <2>1. Sound(dev')
    BY <1>6, WriteControlSound, WriteIrqStatusSound, WriteIrqEnableSound
    DEF ProbeDisable, ProbeReset, ProbeAck, ProbeWrite
  <2>2. UNCHANGED <<driver, mutex, isr, threads>>
    BY <1>6 DEF ProbeDisable, ProbeReset, ProbeAck, ProbeWrite
  <2>. QED
    BY <1>4, <2>1, <2>2
<1>7. CASE Alloc \/ Iomap \/ ZeroCounters
  <2>1. /\ UNCHANGED <<dev, isr, pc, req, mask, word, snap, out, calls>>
        /\ done' \in Nat /\ error_flag' \in BOOLEAN /\ device_error' \in ErrCode
        /\ stats' \in [StatField -> Nat] /\ mutex' \in Thread \cup {NoThread}
    <3>1. CASE Alloc
      BY <3>1, CleanLocals DEF Alloc, threads, locals, TypeOK, ErrCode
    <3>2. CASE Iomap
      BY <3>2 DEF Iomap, threads, locals, TypeOK
    <3>3. CASE ZeroCounters
      BY <3>3, CleanLocals DEF ZeroCounters, threads, locals, TypeOK
    <3>. QED
      BY <1>7, <3>1, <3>2, <3>3
  <2>2. TypeOK'
    BY <2>1 DEF TypeOK
  <2>3. Sound(dev)' /\ LoopsInRange'
    BY <2>1, SoundPrime DEF Base, LoopsInRange
  <2>. QED
    BY <2>2, <2>3 DEF Base
<1>8. CASE \/ Insmod \/ EnableDevice \/ RequestRegions \/ ProbeCheck \/ RequestIrq
           \/ MiscRegister \/ ReadRevision \/ Fails \/ MiscDeregister
           \/ ReleaseRegions \/ Release \/ Unbound \/ Unloaded
           \/ \E t \in Thread : Open(t) \/ Close(t)
  <2>. UNCHANGED vars
    BY <1>8 DEF Insmod, EnableDevice, RequestRegions, ProbeCheck, RequestIrq,
                MiscRegister, ReadRevision, Fails, MiscDeregister, ReleaseRegions,
                Release, Unbound, Unloaded, Open, Close, probeVars
  <2>. QED
    BY <1>1
<1>9. CASE UNCHANGED probeVars
  BY <1>1, <1>9 DEF probeVars
<1>. QED
  BY <1>2, <1>3, <1>5, <1>6, <1>7, <1>8, <1>9 DEF ProbeNext
----------------------------------------------------------------------------
\* What devres holds follows the steps of probe and remove.
LEMMA ResourcesStep ==
  ASSUME Resources, [ProbeNext]_probeVars
  PROVE  Resources'
<1>. USE DEF Resources, Phase, ManagedAt
<1>0. InOrder(managed) /\ Len(managed) \in 0..4
  BY DEF InOrder
<1>1. ASSUME UNCHANGED binding
      PROVE  Resources'
  BY <1>1 DEF binding, resources, InOrder
<1>2. ASSUME NEW r, Manage(r), r = Order[Len(managed) + 1], Len(managed) < 4
      PROVE  InOrder(managed)' /\ Len(managed') = Len(managed) + 1
  BY <1>0, <1>2, AppendInOrder DEF Manage, InOrder
<1>3. CASE EnableDevice
  BY <1>0, <1>2, <1>3, OrderFacts DEF EnableDevice, At, Manage
<1>4. CASE Alloc
  <2>1. Manage("memory") /\ Len(managed) = 1
    BY <1>4 DEF Alloc, At
  <2>2. InOrder(managed)' /\ Len(managed') = 2
    BY <1>2, <2>1, OrderFacts
  <2>. QED
    BY <1>4, <2>1, <2>2 DEF Alloc, At, Manage
<1>5. CASE Iomap
  <2>1. Manage("mapping") /\ Len(managed) = 2
    BY <1>5 DEF Iomap, At
  <2>2. InOrder(managed)' /\ Len(managed') = 3
    BY <1>2, <2>1, OrderFacts
  <2>. QED
    BY <1>5, <2>1, <2>2 DEF Iomap, At, Manage
<1>6. CASE RequestIrq
  <2>1. Manage("irq") /\ Len(managed) = 3
    BY <1>6 DEF RequestIrq, At
  <2>2. InOrder(managed)' /\ Len(managed') = 4
    BY <1>2, <2>1, OrderFacts
  <2>. QED
    BY <1>6, <2>1, <2>2 DEF RequestIrq, At, Manage
<1>7. CASE Release
  <2>1. /\ InOrder(managed)' /\ Len(managed') = Len(managed) - 1
        /\ Last(managed) = "irq" <=> Len(managed) = 4
    BY <1>0, <1>7, FrontInOrder DEF Release, InOrder
  <2>2. phase \in {"unwind", "remove"} /\ UNCHANGED <<phase, regions, node>>
    BY <1>7 DEF Release
  <2>3. handler' <=> handler /\ Len(managed) # 4
    BY <1>7, <2>1, Zenon DEF Release
  <2>. QED
    BY <1>0, <2>1, <2>2, <2>3
<1>8. CASE Unbound
  <2>1. Len(managed) = 0
    BY <1>8 DEF Unbound
  <2>. QED
    BY <1>8, <2>1 DEF Unbound, resources, InOrder
<1>9. CASE ToolUsesDevice \/ Unloaded \/ UNCHANGED probeVars
  BY <1>1, <1>9 DEF ToolUsesDevice, Unloaded, probeVars
<1>10. CASE Insmod \/ RequestRegions \/ ProbeCheck
  BY <1>0, <1>10 DEF Insmod, RequestRegions, ProbeCheck, At, resources, InOrder
<1>11. CASE ProbeDisable \/ ProbeReset \/ ProbeAck
  BY <1>0, <1>11 DEF ProbeDisable, ProbeReset, ProbeAck, ProbeWrite, At, resources, InOrder
<1>12. CASE Fails
  BY <1>0, <1>12, FailureAssumption DEF Fails, resources, InOrder
<1>13. CASE MiscRegister \/ ReadRevision \/ ZeroCounters
  BY <1>0, <1>13 DEF MiscRegister, ReadRevision, ZeroCounters, At, resources, InOrder
<1>14. CASE MiscDeregister \/ ReleaseRegions
  BY <1>0, <1>14 DEF MiscDeregister, ReleaseRegions, At, resources, InOrder
<1>15. CASE \E t \in Thread : Open(t) \/ Close(t) \/ FileCall(t)
  BY <1>0, <1>1, <1>15 DEF Open, Close, FileCall, resources, InOrder
<1>16. CASE Background
  BY <1>1, <1>16 DEF Background
<1>. QED
  BY <1>3, <1>4, <1>5, <1>6, <1>7, <1>8, <1>9, <1>10, <1>11, <1>12, <1>13, <1>14, <1>15,
     <1>16 DEF ProbeNext

\* What the handler and the timer do to the rest.
LEMMA BackgroundFacts ==
  ASSUME Base, Users, Background
  PROVE  /\ UNCHANGED binding /\ UNCHANGED <<pc, req, mutex>>
         /\ isr'.pc # "idle" => handler
         /\ isr'.pc = "idle" => isr'.seen = {}
<1>. isr \in [pc : {"idle", "ack", "error", "flag", "complete"}, seen : SUBSET IrqBit]
  BY DEF Base, TypeOK
<1>1. CASE handler /\ IsrRead
  BY <1>1 DEF Background, IsrRead, threads, locals
<1>2. CASE IsrAck
  BY <1>2 DEF Background, IsrAck, threads, locals, Users
<1>3. CASE IsrErrorCode \/ IsrFlag \/ IsrComplete
  BY <1>3 DEF Background, IsrErrorCode, IsrFlag, IsrComplete, threads, locals, Users
<1>4. CASE TimerFires
  BY <1>4 DEF Background, TimerFires, threads, locals, Users
<1>. QED
  BY <1>1, <1>2, <1>3, <1>4 DEF Background

\* The pc of a thread with the node open is its own.
LEMMA FileCallFacts ==
  ASSUME Base, NEW t \in Thread, FileCall(t)
  PROVE  /\ UNCHANGED binding /\ UNCHANGED isr /\ t \in file
         /\ \A s \in Thread : s \notin file => pc'[s] = pc[s]
<1>1. CASE ProbeRunDot(t)
  BY <1>1, FileCallCases, ProbeRunDotFacts
<1>2. CASE Call(t) \/ Step(t)
  BY <1>2, FileCallCases, ThreadsKeepHandler, OthersKept DEF Base
<1>. QED
  BY <1>1, <1>2, FileCallCases

LEMMA UsersStep ==
  ASSUME Base, Resources, Users, [ProbeNext]_probeVars
  PROVE  Users'
<1>. USE DEF Users
<1>1. CASE \/ Insmod \/ EnableDevice \/ RequestRegions \/ ProbeCheck
           \/ Fails \/ ReleaseRegions \/ Unbound \/ Unloaded \/ UNCHANGED probeVars
  BY <1>1
  DEF Insmod, EnableDevice, RequestRegions, ProbeCheck, Fails, ReleaseRegions, Unbound,
      Unloaded, At, Manage, probeVars, vars, binding, resources, users
<1>2. CASE ToolUsesDevice
  BY <1>2 DEF ToolUsesDevice, threads, binding, resources, users
<1>3. CASE Alloc \/ Iomap \/ RequestIrq
  BY <1>3 DEF Alloc, Iomap, RequestIrq, At, Manage, threads, vars
<1>4. CASE ProbeDisable \/ ProbeReset \/ ProbeAck
  BY <1>4 DEF ProbeDisable, ProbeReset, ProbeAck, ProbeWrite, At, threads, resources, users
<1>5. CASE MiscRegister \/ ReadRevision \/ ZeroCounters
  BY <1>5, RevisionAssumption
  DEF MiscRegister, ReadRevision, ZeroCounters, At, threads, vars, resources, users,
      VNPU_REVISION_A, VNPU_REVISION_B
<1>6. CASE MiscDeregister
  BY <1>6 DEF MiscDeregister, At, vars, users
<1>7. CASE Release
  BY <1>7 DEF Release, vars, users
<1>8. ASSUME NEW t \in Thread, Open(t) \/ Close(t)
      PROVE  Users'
  BY <1>8 DEF Open, Close, vars, resources
<1>9. ASSUME NEW t \in Thread, FileCall(t)
      PROVE  Users'
  BY <1>9, FileCallFacts DEF binding, resources, users
<1>10. CASE Background
  BY <1>10, BackgroundFacts DEF binding, resources, users
<1>. QED
  BY <1>1, <1>2, <1>3, <1>4, <1>5, <1>6, <1>7, <1>8, <1>9, <1>10 DEF ProbeNext
----------------------------------------------------------------------------
\* A device with nothing to say stays so, whether the handler looks or not.
LEMMA StillKept ==
  ASSUME Base, Users, Background
  PROVE  (Fresh => Fresh') /\ (Still => Still')
<1>. /\ dev \in Device
     /\ isr \in [pc : {"idle", "ack", "error", "flag", "complete"}, seen : SUBSET IrqBit]
  BY DEF Base, TypeOK
<1>. USE DEF Fresh, Still, Rest, Clean
<1>1. CASE IsrRead
  BY <1>1 DEF IsrRead
<1>2. CASE IsrAck
  <2>1. /\ dev'.irq_status = {} /\ dev'.status = dev.status /\ dev'.timer = dev.timer
        /\ dev'.err_code = dev.err_code /\ dev'.fault_control = dev.fault_control
    BY <1>2, AckEffect DEF IsrAck
  <2>. QED
    BY <1>2, <2>1 DEF IsrAck
<1>3. CASE IsrErrorCode \/ IsrFlag \/ IsrComplete \/ TimerFires
  BY <1>3 DEF IsrErrorCode, IsrFlag, IsrComplete, TimerFires
<1>. QED
  BY <1>1, <1>2, <1>3 DEF Background

\* vnpu_hw_reset leaves a fresh device, and no step of probe before the node exists
\* changes that.
LEMMA FreshStep ==
  ASSUME Base, Resources, Users, FreshFromReset, [ProbeNext]_probeVars
  PROVE  FreshFromReset'
<1>. USE DEF FreshFromReset
<1>1. CASE Background
  BY <1>1, StillKept DEF Background, binding, resources
<1>2. ASSUME UNCHANGED <<dev, isr>>, FreshFromReset' \/ Fresh \/ UNCHANGED <<phase, handler>>
      PROVE  FreshFromReset'
  BY <1>2 DEF Fresh, Clean
<1>3. CASE ProbeReset
  <2>1. handler = FALSE /\ isr.pc = "idle" /\ isr.seen = {}
    BY <1>3 DEF ProbeReset, ProbeWrite, At, Resources, ManagedAt, Users
  <2>2. Clean(dev') /\ UNCHANGED isr
    BY <1>3, CleanKept DEF ProbeReset, ProbeWrite, Base, TypeOK
  <2>. QED
    BY <2>1, <2>2 DEF Fresh, Clean
<1>4. CASE ProbeAck
  <2>1. Fresh
    BY <1>4 DEF ProbeAck, ProbeWrite, At
  <2>2. Clean(dev') /\ UNCHANGED isr
    BY <1>4, <2>1, CleanKept DEF ProbeAck, ProbeWrite, Base, TypeOK, Fresh
  <2>. QED
    BY <2>1, <2>2 DEF Fresh, Clean
<1>5. CASE ProbeDisable \/ ToolUsesDevice
  BY <1>5 DEF ProbeDisable, ProbeWrite, At, ToolUsesDevice, binding
<1>6. CASE ProbeCheck \/ RequestIrq \/ Fails
  <2>1. UNCHANGED <<dev, isr>>
    BY <1>6 DEF ProbeCheck, RequestIrq, Fails, vars
  <2>2. CASE ProbeCheck \/ RequestIrq
    <3>. Fresh
      BY <2>2 DEF ProbeCheck, RequestIrq, At
    <3>. QED
      BY <1>2, <2>1
  <2>3. CASE Fails
    <3>1. Fresh \/ ~handler
      BY <2>3, FailureAssumption DEF Fails, Resources, ManagedAt
    <3>2. phase' = "unwind" /\ UNCHANGED handler
      BY <2>3 DEF Fails, resources
    <3>. QED
      BY <1>2, <2>1, <3>1, <3>2
  <2>. QED
    BY <1>6, <2>2, <2>3
<1>7. CASE \/ Insmod \/ EnableDevice \/ Alloc \/ RequestRegions \/ Iomap
           \/ MiscRegister \/ ReadRevision \/ ZeroCounters \/ MiscDeregister
           \/ ReleaseRegions \/ Unbound
  <2>1. phase' \notin {"hw_ack", "hw_check", "request_irq", "register"}
    BY <1>7
    DEF Insmod, EnableDevice, Alloc, RequestRegions, Iomap, MiscRegister, ReadRevision,
        ZeroCounters, MiscDeregister, ReleaseRegions, Unbound, At
  <2>2. ASSUME phase' = "unwind"
        PROVE  ~handler'
    <3>1. phase = "regions" /\ UNCHANGED handler
      BY <1>7, <2>2
      DEF Insmod, EnableDevice, Alloc, RequestRegions, Iomap, MiscRegister, ReadRevision,
          ZeroCounters, MiscDeregister, ReleaseRegions, Unbound, At, resources
    <3>. QED
      BY <3>1 DEF Resources, ManagedAt
  <2>. QED
    BY <2>1, <2>2
<1>8. CASE Release
  BY <1>2, <1>8 DEF Release, vars
<1>9. ASSUME NEW t \in Thread, Open(t) \/ Close(t)
      PROVE  FreshFromReset'
  BY <1>2, <1>9 DEF Open, Close, vars, resources
<1>10. ASSUME NEW t \in Thread, FileCall(t)
       PROVE  FreshFromReset'
  <2>1. node /\ UNCHANGED <<phase, handler>>
    BY <1>10, FileCallFacts DEF Users, binding, resources
  <2>. QED
    BY <2>1 DEF Resources
<1>11. CASE Unloaded \/ UNCHANGED probeVars
  BY <1>2, <1>11 DEF Unloaded, probeVars, vars, binding, resources
<1>. QED
  BY <1>1, <1>3, <1>4, <1>5, <1>6, <1>7, <1>8, <1>9, <1>10, <1>11 DEF ProbeNext

LEMMA ProbeInvStep == ProbeInv /\ [ProbeNext]_probeVars => ProbeInv'
BY BaseStep, ResourcesStep, UsersStep, FreshStep DEF ProbeInv

LEMMA InitProbeInv == ProbeInit => ProbeInv
<1>. SUFFICES ASSUME ProbeInit PROVE ProbeInv
  OBVIOUS
<1>1. Base
  BY InitIInv DEF ProbeInit, IInv
<1>2. isr.pc = "idle" /\ isr.seen = {} /\ \A t \in Thread : pc[t] = "idle"
  BY DEF ProbeInit, Init
<1>3. InOrder(managed) /\ Len(managed) = 0
  BY DEF ProbeInit, InOrder
<1>. QED
  BY <1>1, <1>2, <1>3
  DEF ProbeInit, ProbeInv, Resources, Phase, ManagedAt, Users, FreshFromReset

LEMMA SpecProbeInv == ProbeSpec => []ProbeInv
BY InitProbeInv, ProbeInvStep, PTL DEF ProbeSpec

\* The handler and every call find the memory, the mapping and the enabled device
\* they use, in every mode, even if the node is opened before probe is done.
THEOREM ResourcesInUse == ProbeSpec => []UsersHaveResources
<1>. ProbeInv => UsersHaveResources
  <2>. SUFFICES ASSUME ProbeInv,
                       handler \/ node \/ isr.pc # "idle" \/ \E t \in Thread : pc[t] # "idle"
                PROVE  {"pci", "memory", "mapping"} \subseteq ToSet(managed)
    BY DEF UsersHaveResources
  <2>1. handler \/ node
    BY DEF ProbeInv, Users
  <2>2. Len(managed) = 4 /\ InOrder(managed)
    BY <2>1 DEF ProbeInv, Resources, ManagedAt
  <2>3. /\ 1 \in DOMAIN managed /\ 2 \in DOMAIN managed /\ 3 \in DOMAIN managed
        /\ managed[1] = "pci" /\ managed[2] = "memory" /\ managed[3] = "mapping"
    BY <2>2, OrderFacts DEF InOrder
  <2>. QED
    BY <2>3 DEF ToSet
<1>. QED
  BY SpecProbeInv, PTL

\* vnpu_hw_reset brings the device back from every state any tool or an earlier
\* binding left it in: probe never fails for it.
THEOREM ProbeRecovers == ProbeSpec => ProbeSurvivesLeftovers
<1>1. ProbeInv /\ [ProbeNext]_probeVars =>
        [phase = "hw_check" => phase' # "unwind"]_probeVars
  <2>. SUFFICES ASSUME ProbeInv, ProbeNext, phase = "hw_check", phase' = "unwind"
                PROVE  FALSE
    BY DEF probeVars
  <2>1. Fresh /\ ~node /\ file = {}
    BY DEF ProbeInv, FreshFromReset, Resources, Users
  <2>2. CASE ProbeCheck
    BY <2>1, <2>2 DEF ProbeCheck, At, Fresh, Clean
  <2>3. CASE Fails
    BY <2>3, FailureAssumption DEF Fails
  <2>4. CASE ~(ProbeCheck \/ Fails)
    BY <2>4
    DEF ProbeNext, ToolUsesDevice, Insmod, EnableDevice, Alloc, RequestRegions, Iomap,
        ProbeDisable, ProbeReset, ProbeAck, ProbeWrite, RequestIrq, MiscRegister,
        ReadRevision, ZeroCounters, MiscDeregister, ReleaseRegions, Release, Unbound,
        Open, Close, FileCall, Background, Unloaded, At, binding, probeVars
  <2>. QED
    BY <2>2, <2>3, <2>4
<1>. QED
  BY <1>1, SpecProbeInv, PTL DEF ProbeSpec, ProbeSurvivesLeftovers

\* vnpu_remove and devres give back all that probe took, so that the next probe
\* finds it.
THEOREM RemoveComplete == ProbeSpec => RemoveReleasesAll
<1>1. ProbeInv /\ [ProbeNext]_probeVars =>
        [phase = "remove" /\ phase' = "unbound" =>
           managed' = <<>> /\ ~regions' /\ ~handler' /\ ~node']_probeVars
  <2>. SUFFICES ASSUME ProbeInv, ProbeNext, phase = "remove", phase' = "unbound"
                PROVE  managed' = <<>> /\ ~regions' /\ ~handler' /\ ~node'
    OBVIOUS
  <2>1. CASE Unbound
    <3>1. managed = <<>> /\ UNCHANGED <<managed, regions, handler, node>>
      BY <2>1 DEF Unbound, resources
    <3>2. Len(managed) = 0
      BY <3>1
    <3>. QED
      BY <3>1, <3>2 DEF ProbeInv, Resources
  <2>2. CASE ~Unbound
    BY <2>2
    DEF ProbeNext, ToolUsesDevice, Insmod, EnableDevice, Alloc, RequestRegions, Iomap,
        ProbeDisable, ProbeReset, ProbeAck, ProbeWrite, ProbeCheck, RequestIrq,
        MiscRegister, ReadRevision, ZeroCounters, Fails, MiscDeregister,
        ReleaseRegions, Release, Open, Close, FileCall, Background, Unloaded, At,
        binding, probeVars
  <2>. QED
    BY <2>1, <2>2
<1>. QED
  BY <1>1, SpecProbeInv, PTL DEF ProbeSpec, RemoveReleasesAll
----------------------------------------------------------------------------
\* Within a binding the system takes the steps of VnpuDriver.
LEMMA BoundNext ==
  ASSUME ProbeInv, phase = "bound", phase' = "bound", [ProbeNext]_probeVars
  PROVE  [Next]_vars
<1>1. ASSUME NEW t \in Thread, FileCall(t)
      PROVE  Next
  BY <1>1, FileCallCases DEF ProbeInv, Users, Next
<1>2. CASE Background
  BY <1>2 DEF Background, Next, Isr
<1>3. CASE \/ Unloaded \/ UNCHANGED probeVars
           \/ \E t \in Thread : Open(t) \/ Close(t)
  BY <1>3 DEF Open, Close, Unloaded, probeVars
<1>. QED
  BY <1>1, <1>2, <1>3, FailureAssumption
  DEF ProbeNext, ToolUsesDevice, Insmod, EnableDevice, Alloc, RequestRegions, Iomap,
      ProbeDisable, ProbeReset, ProbeAck, ProbeWrite, ProbeCheck, RequestIrq,
      MiscRegister, ReadRevision, ZeroCounters, Fails, MiscDeregister,
      ReleaseRegions, Release, Unbound, At

\* Everywhere else no call runs, and what runs leaves the calls alone and, but for
\* mutex_init, the mutex.
LEMMA UnboundNext ==
  ASSUME ~EarlyOpen, ProbeInv, LateInv, [ProbeNext]_probeVars,
         phase # "bound" \/ phase' # "bound"
  PROVE  /\ \A t \in Thread : pc[t] = "idle"
         /\ UNCHANGED <<pc, req>> /\ mutex' \in {mutex, NoThread}
         /\ file' = {}
<1>1. CASE MiscDeregister
  BY <1>1 DEF MiscDeregister, vars, users, ProbeInv, Users
<1>2. CASE ~MiscDeregister
  <2>1. phase # "bound"
    BY <1>2, FailureAssumption
    DEF ProbeNext, ToolUsesDevice, Insmod, EnableDevice, Alloc, RequestRegions, Iomap,
        ProbeDisable, ProbeReset, ProbeAck, ProbeWrite, ProbeCheck, RequestIrq,
        MiscRegister, ReadRevision, ZeroCounters, Fails, ReleaseRegions, Release,
        Unbound, At, Open, Close, FileCall, Background, Unloaded, binding, probeVars
  <2>2. file = {} /\ \A t \in Thread : pc[t] = "idle"
    BY <2>1 DEF LateInv, ProbeInv, Users
  <2>3. ASSUME NEW t \in Thread
        PROVE  ~Open(t) /\ ~Close(t) /\ ~FileCall(t)
    BY <2>1, <2>2 DEF Open, Close, FileCall
  <2>4. UNCHANGED <<pc, req, file>> /\ mutex' \in {mutex, NoThread}
    <3>1. CASE Background
      BY <3>1, BackgroundFacts DEF ProbeInv, binding, users
    <3>2. CASE ToolUsesDevice \/ ProbeDisable \/ ProbeReset \/ ProbeAck
      BY <3>2 DEF ToolUsesDevice, ProbeDisable, ProbeReset, ProbeAck, ProbeWrite,
                  threads, locals, binding, users
    <3>3. CASE Alloc \/ Iomap \/ ZeroCounters
      BY <3>3 DEF Alloc, Iomap, ZeroCounters, Manage, threads, locals, users
    <3>4. CASE \/ Insmod \/ EnableDevice \/ RequestRegions \/ ProbeCheck \/ RequestIrq
               \/ MiscRegister \/ ReadRevision \/ Fails \/ ReleaseRegions \/ Release
               \/ Unbound \/ Unloaded \/ UNCHANGED probeVars
      BY <3>4 DEF Insmod, EnableDevice, RequestRegions, ProbeCheck, RequestIrq,
                  MiscRegister, ReadRevision, Fails, ReleaseRegions, Release, Unbound,
                  Unloaded, Manage, vars, locals, users, binding, probeVars
    <3>. QED
      BY <1>2, <2>3, <3>1, <3>2, <3>3, <3>4 DEF ProbeNext
  <2>. QED
    BY <2>2, <2>4
<1>. QED
  BY <1>1, <1>2

LEMMA LateStep ==
  ASSUME ~EarlyOpen, ProbeInv, LateInv, [ProbeNext]_probeVars
  PROVE  LateInv'
<1>1. CASE phase = "bound" /\ phase' = "bound"
  <2>1. Validated'
    BY <1>1, BoundNext, ValidatedStep DEF ProbeInv, Base, LateInv
  <2>. QED
    BY <1>1, <2>1 DEF LateInv
<1>2. CASE phase # "bound" \/ phase' # "bound"
  <2>1. Validated' /\ file' = {}
    BY <1>2, UnboundNext DEF Validated, RunHeld
  <2>2. ASSUME phase' \in {"revision", "zero"}
        PROVE  Fresh'
    <3>1. CASE MiscRegister
      BY <3>1 DEF MiscRegister, At, vars, ProbeInv, FreshFromReset, Fresh, Clean
    <3>2. CASE ReadRevision
      BY <3>2 DEF ReadRevision, At, vars, LateInv, Fresh, Clean
    <3>3. CASE Background
      BY <2>2, <3>3, StillKept DEF Background, binding, ProbeInv, LateInv
    <3>4. CASE Unloaded \/ UNCHANGED probeVars
      BY <2>2, <3>4 DEF Unloaded, probeVars, vars, binding, LateInv, Fresh, Clean
    <3>5. ASSUME NEW t \in Thread, Open(t) \/ Close(t) \/ FileCall(t)
          PROVE  FALSE
      BY <2>2, <3>5 DEF Open, Close, FileCall, binding, LateInv
    <3>. QED
      BY <2>2, <3>1, <3>2, <3>3, <3>4, <3>5
      DEF ProbeNext, ToolUsesDevice, Insmod, EnableDevice, Alloc, RequestRegions, Iomap,
          ProbeDisable, ProbeReset, ProbeAck, ProbeWrite, ProbeCheck, RequestIrq,
          ZeroCounters, Fails, MiscDeregister, ReleaseRegions, Release, Unbound, At,
          binding
  <2>. QED
    BY <2>1, <2>2 DEF LateInv
<1>. QED
  BY <1>1, <1>2

LEMMA SpecLateInv ==
  ASSUME ~EarlyOpen
  PROVE  ProbeSpec => [](ProbeInv /\ LateInv)
<1>1. ProbeInit => LateInv
  BY DEF ProbeInit, Init, LateInv, Validated, RunHeld
<1>2. ProbeInv /\ LateInv /\ [ProbeNext]_probeVars => LateInv'
  BY LateStep
<1>. QED
  BY <1>1, <1>2, SpecProbeInv, PTL DEF ProbeSpec
----------------------------------------------------------------------------
\* What the last step of probe hands over is the invariant of VnpuOneCpuProofs.
LEMMA BindingStarts ==
  ASSUME OneCpu, ProbeInv, LateInv, LockInv, LockInv', ZeroCounters,
         \A t \in Thread : pc[t] = "idle"
  PROVE  TimerMeansBusy' /\ OneInv'
<1>1. /\ UNCHANGED <<dev, isr, mutex, pc, device_error>>
      /\ stats' = ZeroStats /\ ~error_flag'
  BY DEF ZeroCounters, threads
<1>2. Fresh /\ isr.pc = "idle"
  BY DEF ZeroCounters, At, MayRun, OneCpu, LateInv
<1>3. mutex = NoThread
  BY DEF LockInv, LockDiscipline, Held, RunHeld, ResetHeld, ProbeInv, Base, TypeOK
<1>4. Even'
  BY <1>1 DEF Even, AllEnds, Ends, ZeroStats, StatField
<1>5. Calm'
  BY <1>1, <1>2 DEF Calm, Fresh, Clean
<1>6. Reports' /\ \A t \in Thread : mutex' # t
  BY <1>1, <1>3, ThreadAssumption DEF Reports, Reporting
<1>7. Free'
  BY <1>1, <1>2, <1>4 DEF Free, Rest, Fresh, Clean
<1>. QED
  BY <1>1, <1>2, <1>5, <1>6, <1>7 DEF OneInv, TimerMeansBusy, Fresh, Clean

LEMMA BindingStep ==
  ASSUME OneCpu, ~EarlyOpen, ProbeInv, ProbeInv', LateInv, LateInv', BindingInv,
         [ProbeNext]_probeVars
  PROVE  BindingInv'
<1>1. CASE phase = "bound" /\ phase' = "bound"
  <2>1. [Next]_vars
    BY <1>1, BoundNext
  <2>2. IInv
    BY <1>1 DEF IInv, ProbeInv, LateInv, BindingInv
  <2>3. IInv'
    BY <2>1, <2>2, NextIInv
  <2>4. LockInv'
    BY <2>1, <2>2, LockInvStep DEF OneCpu, BindingInv
  <2>5. OneInv'
    BY <1>1, <2>1, <2>2, <2>3, <2>4, OneStep DEF BindingInv
  <2>. QED
    BY <1>1, <2>3, <2>4, <2>5 DEF BindingInv, IInv
<1>2. CASE phase # "bound" \/ phase' # "bound"
  <2>1. LockInv'
    BY <1>2, UnboundNext, ThreadAssumption
    DEF BindingInv, LockInv, LockDiscipline, Held, RunHeld, ResetHeld
  <2>2. ASSUME phase' = "bound"
        PROVE  TimerMeansBusy' /\ OneInv'
    <3>1. ZeroCounters
      BY <1>2, <2>2, FailureAssumption
      DEF ProbeNext, ToolUsesDevice, Insmod, EnableDevice, Alloc, RequestRegions, Iomap,
          ProbeDisable, ProbeReset, ProbeAck, ProbeWrite, ProbeCheck, RequestIrq,
          MiscRegister, ReadRevision, Fails, MiscDeregister, ReleaseRegions, Release,
          Unbound, At, Open, Close, FileCall, Background, Unloaded, binding, probeVars
    <3>. QED
      BY <1>2, <2>1, <3>1, BindingStarts, UnboundNext DEF BindingInv
  <2>3. ASSUME phase' \in {"release_regions", "remove"}
        PROVE  Still'
    <3>1. CASE MiscDeregister
      <4>1. phase = "bound" /\ isr.pc = "idle" /\ UNCHANGED <<dev, isr>>
        BY <3>1 DEF MiscDeregister, At, MayRun, OneCpu, vars
      <4>2. mutex = NoThread
        BY <1>2, UnboundNext
        DEF BindingInv, LockInv, LockDiscipline, Held, RunHeld, ResetHeld, ProbeInv, Base,
            TypeOK
      <4>. QED
        BY <4>1, <4>2 DEF BindingInv, OneInv, Free, Rest, Still
    <3>2. CASE Background
      BY <2>3, <3>2, StillKept DEF Background, binding, ProbeInv, BindingInv
    <3>3. CASE ReleaseRegions \/ Release \/ Unloaded \/ UNCHANGED probeVars
      BY <2>3, <3>3 DEF ReleaseRegions, Release, Unloaded, At, probeVars, vars, binding,
                        BindingInv, Still, Rest
    <3>4. ASSUME NEW t \in Thread, Open(t) \/ Close(t) \/ FileCall(t)
          PROVE  FALSE
      BY <2>3, <3>4 DEF Open, Close, FileCall, binding, LateInv
    <3>. QED
      BY <2>3, <3>1, <3>2, <3>3, <3>4, FailureAssumption
      DEF ProbeNext, ToolUsesDevice, Insmod, EnableDevice, Alloc, RequestRegions, Iomap,
          ProbeDisable, ProbeReset, ProbeAck, ProbeWrite, ProbeCheck, RequestIrq,
          MiscRegister, ReadRevision, ZeroCounters, Fails, Unbound, At, binding
  <2>. QED
    BY <2>1, <2>2, <2>3 DEF BindingInv
<1>. QED
  BY <1>1, <1>2

LEMMA SpecBindingInv ==
  ASSUME OneCpu, ~EarlyOpen
  PROVE  ProbeSpec => [](ProbeInv /\ LateInv /\ BindingInv)
<1>1. ProbeInit => BindingInv
  BY ThreadAssumption
  DEF ProbeInit, Init, BindingInv, LockInv, LockDiscipline, Held, RunHeld, ResetHeld
<1>2. ProbeInv /\ ProbeInv' /\ LateInv /\ LateInv' /\ BindingInv /\ [ProbeNext]_probeVars
        => BindingInv'
  BY BindingStep
<1>. QED
  BY <1>1, <1>2, SpecLateInv, PTL DEF ProbeSpec

\* Every binding starts from scratch, whatever the one before it, or a probe that
\* failed, left: while no call holds the mutex its counters balance and nothing is
\* in flight.
THEOREM BindingsSound ==
  ASSUME OneCpu, ~EarlyOpen
  PROVE  ProbeSpec => []EveryBindingSound
<1>. BindingInv => EveryBindingSound
  BY DEF BindingInv, OneInv, Free, Rest, Even, AllEnds, Ends, EveryBindingSound,
         DeviceFreeWithLock, StatsBalance
<1>. QED
  BY SpecBindingInv, PTL

\* The handler is installed and freed while the device is silent and will stay so:
\* no interrupt finds no handler.
THEOREM HandoverQuiet ==
  ASSUME OneCpu, ~EarlyOpen
  PROVE  ProbeSpec => QuietAtHandover
<1>1. ProbeInv /\ LateInv /\ BindingInv /\ [ProbeNext]_probeVars =>
        [handler # handler' => ~dev.irq_line /\ ~dev.timer /\ dev.status # "BUSY"]_probeVars
  <2>. SUFFICES ASSUME ProbeInv, BindingInv, ProbeNext, handler # handler'
                PROVE  ~dev.irq_line /\ ~dev.timer /\ dev.status # "BUSY"
    OBVIOUS
  <2>1. RequestIrq \/ (Release /\ Last(managed) = "irq")
    BY DEF ProbeNext, ToolUsesDevice, Insmod, EnableDevice, Alloc, RequestRegions, Iomap,
           ProbeDisable, ProbeReset, ProbeAck, ProbeWrite, ProbeCheck, MiscRegister,
           ReadRevision, ZeroCounters, Fails, MiscDeregister, ReleaseRegions, Release,
           Unbound, Open, Close, FileCall, Background, Unloaded, Manage, resources,
           binding, probeVars
  <2>2. Release /\ Last(managed) = "irq" => handler
    BY FrontInOrder DEF Release, ProbeInv, Resources
  <2>3. Fresh \/ Still
    BY <2>1, <2>2 DEF RequestIrq, Release, At, ProbeInv, FreshFromReset, BindingInv
  <2>4. dev.irq_status = {} /\ ~dev.timer /\ dev.status # "BUSY"
    BY <2>3 DEF Fresh, Clean, Still, Rest
  <2>5. ~dev.irq_line
    BY <2>4 DEF ProbeInv, Base, Sound, LineSound, Device
  <2>. QED
    BY <2>4, <2>5
<1>. QED
  BY <1>1, SpecBindingInv, PTL DEF ProbeSpec, QuietAtHandover
=============================================================================
