----------------------------- MODULE VnpuDevice -----------------------------
(***************************************************************************)
(* The QEMU device on its own, driven by any guest software that writes    *)
(* its BAR0 registers (the driver, or the devmem and mmap smoke tools),    *)
(* interleaved with the 100 ms dot_timer.  Time is abstracted: a pending   *)
(* timer may fire at any moment.  Register reads other than RESULT change  *)
(* nothing and are not steps.                                              *)
(***************************************************************************)
EXTENDS VnpuRegs

CONSTANTS
  Lengths,    \* values software writes to VECTOR_LENGTH
  Masks       \* values software writes to FAULT_CONTROL, as sets of bits

ASSUME LengthsAssumption == Lengths \subseteq Nat
ASSUME MasksAssumption == \A m \in Masks : m \subseteq Nat

VARIABLE dev

vars == <<dev>>

Init == dev = RegisterInit

MmioControl ==
  \E val \in SUBSET {"START", "RESET"} : dev' = WriteControl(dev, val)

MmioIrqStatus == \E val \in SUBSET IrqBit : dev' = WriteIrqStatus(dev, val)

MmioIrqEnable == \E val \in SUBSET IrqBit : dev' = WriteIrqEnable(dev, val)

MmioJobId == \E val \in JobId : dev' = WriteJobId(dev, val)

MmioVectorLength == \E val \in Lengths : dev' = WriteVectorLength(dev, val)

MmioInput == \E i \in WordIndex, w \in Word : dev' = WriteInput(dev, i, w)

MmioFaultControl == \E val \in Masks : dev' = WriteFaultControl(dev, val)

MmioReadResult == dev' = ReadResult(dev)

TimerFires == dev.timer /\ dev' = DotTimer(dev)

Next ==
  \/ MmioControl
  \/ MmioIrqStatus
  \/ MmioIrqEnable
  \/ MmioJobId
  \/ MmioVectorLength
  \/ MmioInput
  \/ MmioFaultControl
  \/ MmioReadResult
  \/ TimerFires

Spec == Init /\ [][Next]_vars
----------------------------------------------------------------------------
\* The device record is well formed; vec_len is always a length the dot product
\* handles, and FAULT_CONTROL holds at most one bit (docs/register_map.md:248).
TypeOK == dev \in Device

\* The interrupt line always shows the enabled pending bits: no handler that
\* touches IRQ_STATUS or IRQ_ENABLE forgets vnpu_update_irq, on any path.
IrqLineTracksPending ==
  dev.irq_line = (dev.irq_status \cap dev.irq_enable # {})

\* A pending dot_timer belongs to the operation in progress: an idle device,
\* which would accept a START, and a finished one never have one.  START
\* therefore never re-arms the timer of an earlier operation.
TimerOnlyInFlight == dev.timer => dev.status \in {"BUSY", "ERROR"}

\* A completion interrupt is never pending while an operation is in progress
\* or failed: software that sees it may read RESULT.
CompletionMeansFinished ==
  "COMPLETION" \in dev.irq_status => dev.status \in {"IDLE", "DONE"}

\* A device in STATUS_ERROR still says why, whatever software acknowledged or
\* attempted meanwhile, and a forced error is final: no firing to come and no
\* rejected START can cover it up before RESET.
ErrorHasCause ==
  /\ dev.status = "ERROR" => dev.err_code # "NONE"
  /\ dev.err_code = "FORCED" => dev.status = "ERROR" /\ ~dev.timer

\* Only RESET ends a stuck BUSY (docs/register_map.md:261), or a rejected
\* VECTOR_LENGTH, which :189 wants to end in ERROR and :261 does not mention.
StuckUntilReset ==
  [][dev.status = "BUSY" /\ ~dev.timer /\ dev'.status # "BUSY"
       => dev' = ControlReset(dev) \/ dev'.err_code = "INVALID_LENGTH"]_vars

\* RESULT changes only when the timer fires, so a result once announced is
\* stable through resets, rejected starts and new operands, until the next
\* operation ends.
ResultStable ==
  [][dev'.result # dev.result => dev.timer /\ ~dev'.timer]_vars

Lifecycle == INSTANCE VnpuLifecycle WITH status <- dev.status, inflight <- dev.timer

\* An unsupported length ends BUSY and leaves the timer of the operation pending,
RejectedWhileBusy ==
  dev.status = "BUSY" /\ \E val \in Lengths \ SupportedLen : dev' = WriteVectorLength(dev, val)

\* which then ends the ERROR: what ErrorUntilReset refutes.
RejectedEnds == TimerFires /\ dev.status = "ERROR"

\* Whatever software does, the device departs from the documented state machine
\* in these two steps only: every other step is one of the machine's, ERROR until
\* RESET and BUSY until RESET included, or rejects a length between operations.
LifecycleWithReject ==
  [][\/ RejectedWhileBusy \/ RejectedEnds
     \/ [Lifecycle!Next \/ Lifecycle!Reject]_(Lifecycle!vars)]_vars

\* docs/register_map.md:260, whatever software does: ERROR until RESET.
ErrorUntilReset ==
  [][dev.status = "ERROR" /\ dev'.status # "ERROR" => dev' = ControlReset(dev)]_vars
=============================================================================
