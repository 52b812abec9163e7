------------------------------ MODULE VnpuRegs ------------------------------
(***************************************************************************)
(* The register file of the virtual NPU, qemu-device/src/vnpu.c: the       *)
(* struct VnpuState as a record, and every MMIO handler and the timer      *)
(* callback as a function from one device state to the next.  QEMU runs    *)
(* each of them under its main-loop lock, so each is one atomic step of    *)
(* whoever applies it: VnpuDevice (any guest software) and VnpuDriver (the *)
(* Linux driver).                                                          *)
(*                                                                         *)
(* Data.  A "word" stands for the pair (input_a[i], input_b[i]) of packed  *)
(* operand words; a result is the words it was computed from, plus whether *)
(* FAULT_CORRUPT_RESULT flipped its low bit.  Bit masks are sets of bits.  *)
(***************************************************************************)
EXTENDS Integers, FiniteSets

CONSTANTS
  Revision,   \* hardware revision passed to vnpu_register_init
  Word,       \* operand word pairs
  ZeroWord,   \* the all-zero pair the registers hold after realize
  JobId,      \* values of the JOB_ID register
  NoJob       \* JOB_ID after realize

VNPU_REVISION_A == 1
VNPU_REVISION_B == 2

ASSUME RevisionAssumption == Revision \in {VNPU_REVISION_A, VNPU_REVISION_B}
ASSUME WordAssumption == ZeroWord \in Word
ASSUME JobAssumption == NoJob \in JobId

Status  == {"IDLE", "BUSY", "DONE", "ERROR"}
ErrCode == {"NONE", "INVALID_LENGTH", "BUSY", "FORCED"}
IrqBit  == {"COMPLETION", "ERROR"}

\* FAULT_CONTROL bit numbers.
FAULT_IRQ_DROP       == 0
FAULT_STUCK_BUSY     == 1
FAULT_CORRUPT_RESULT == 2
FAULT_FORCE_ERROR    == 3
FaultBit == 0..3

WordIndex == 1..4

\* VECTOR_LENGTH values the revision accepts, and the one it starts with.
SupportedLen == IF Revision = VNPU_REVISION_A THEN {8} ELSE {8, 16}
InitLen == IF Revision = VNPU_REVISION_A THEN 8 ELSE 16

\* A vector of len INT8 elements occupies len / 4 words.
WordsOf(len) == 1..(len \div 4)

Result == [of : UNION {[1..n -> Word] : n \in {0, 2, 4}}, flipped : BOOLEAN]

\* The sum over no words: what RESULT reads before any operation.
ZeroResult == [of |-> [i \in 1..0 |-> ZeroWord], flipped |-> FALSE]

\* struct VnpuState.  timer: dot_timer is pending.  irq_line: the level last
\* given to pci_set_irq.
Device ==
  [status        : Status,
   err_code      : ErrCode,
   input         : [WordIndex -> Word],
   result        : Result,
   job_ib        : JobId,
   irq_status    : SUBSET IrqBit,
   irq_enable    : SUBSET IrqBit,
   irq_line      : BOOLEAN,
   fault_control : {{}} \cup {{b} : b \in FaultBit},
   vec_len       : SupportedLen,
   timer         : BOOLEAN]

\* vnpu_register_init, called from pci_vnpu_realize.
RegisterInit ==
  [status        |-> "IDLE",
   err_code      |-> "NONE",
   input         |-> [i \in WordIndex |-> ZeroWord],
   result        |-> ZeroResult,
   job_ib        |-> NoJob,
   irq_status    |-> {},
   irq_enable    |-> {},
   irq_line      |-> FALSE,
   fault_control |-> {},
   vec_len       |-> InitLen,
   timer         |-> FALSE]

----------------------------------------------------------------------------
\* vnpu_update_irq: drive the INTx line from the enabled pending bits.
UpdateIrq(d) ==
  [d EXCEPT !.irq_line = (d.irq_status \cap d.irq_enable # {})]

\* Plausible bugs, for mutation checks only: RESET without timer_del, and RESET
\* that forgets the error code.
ControlReset_KeepsTimer(d) ==
  UpdateIrq([d EXCEPT !.status = "IDLE", !.irq_status = {}, !.err_code = "NONE",
                      !.fault_control = {}])
ControlReset_KeepsErrCode(d) ==
  UpdateIrq([d EXCEPT !.timer = FALSE, !.status = "IDLE", !.irq_status = {},
                      !.fault_control = {}])

\* CONTROL with RESET set: RESET wins over START; vec_len, job_ib, the inputs,
\* the result and irq_enable survive.
ControlReset(d) ==
  UpdateIrq([d EXCEPT !.timer = FALSE,
                      !.status = "IDLE",
                      !.irq_status = {},
                      !.err_code = "NONE",
                      !.fault_control = {}])

\* CONTROL with START on a device that is not idle.  In STATUS_ERROR the old
\* error code stays.
StartRejected(d) ==
  UpdateIrq([d EXCEPT !.irq_status = @ \cup {"ERROR"},
                      !.err_code = IF d.status \in {"BUSY", "DONE"}
                                   THEN "BUSY" ELSE @])

\* Mutants: START leaves the last completion pending; START clears RESULT.
StartAccepted_KeepsIrq(d) ==
  [d EXCEPT !.status = "BUSY", !.err_code = "NONE", !.timer = TRUE]
StartAccepted_ClearsResult(d) ==
  [UpdateIrq([d EXCEPT !.status = "BUSY", !.irq_status = {}])
     EXCEPT !.err_code = "NONE", !.timer = TRUE, !.result = ZeroResult]

\* CONTROL with START on an idle device.
StartAccepted(d) ==
  [UpdateIrq([d EXCEPT !.status = "BUSY", !.irq_status = {}])
     EXCEPT !.err_code = "NONE", !.timer = TRUE]

\* Mutant: only a busy or failed device refuses START.
WriteControl_StartsFromDone(d, val) ==
  IF "RESET" \in val THEN ControlReset(d)
  ELSE IF "START" \notin val THEN d
  ELSE IF d.status \in {"BUSY", "ERROR"} THEN StartRejected(d)
  ELSE StartAccepted(d)

WriteControl(d, val) ==
  IF "RESET" \in val THEN ControlReset(d)
  ELSE IF "START" \notin val THEN d
  ELSE IF d.status # "IDLE" THEN StartRejected(d)
  ELSE StartAccepted(d)

\* Mutant: the line is not lowered.
WriteIrqStatus_NoUpdate(d, val) == [d EXCEPT !.irq_status = @ \ val]

\* IRQ_STATUS is write-one-to-clear.
WriteIrqStatus(d, val) == UpdateIrq([d EXCEPT !.irq_status = @ \ val])

\* Mutant: a mask register instead of an enable register.
WriteIrqEnable_Inverted(d, val) == UpdateIrq([d EXCEPT !.irq_enable = IrqBit \ val])

WriteIrqEnable(d, val) == UpdateIrq([d EXCEPT !.irq_enable = val \cap IrqBit])

WriteJobId(d, val) == [d EXCEPT !.job_ib = val]

\* VECTOR_LENGTH: an unsupported value puts the device in STATUS_ERROR, and
\* leaves a pending dot_timer pending.
WriteVectorLength(d, val) ==
  IF val \in SupportedLen
  THEN [d EXCEPT !.vec_len = val]
  ELSE UpdateIrq([d EXCEPT !.err_code = "INVALID_LENGTH",
                           !.status = "ERROR",
                           !.irq_status = {"ERROR"}])

WriteInput(d, i, w) == [d EXCEPT !.input[i] = w]

\* FAULT_CONTROL keeps the lowest set bit of the low nibble: val & (0 - val).
LowestBit(bits) == {b \in bits : \A c \in bits : b <= c}

\* Mutant: every requested fault bit is kept.
WriteFaultControl_AllBits(d, val) == [d EXCEPT !.fault_control = val \cap FaultBit]

WriteFaultControl(d, val) ==
  [d EXCEPT !.fault_control = LowestBit(val \cap FaultBit)]

\* Mutants: reading RESULT makes any device idle, or none.
ReadResult_AnyStatus(d) == [d EXCEPT !.status = "IDLE"]
ReadResult_KeepsDone(d) == d

\* Reading RESULT consumes a finished operation.
ReadResult(d) ==
  [d EXCEPT !.status = IF @ = "DONE" THEN "IDLE" ELSE @]

----------------------------------------------------------------------------
\* vnpu_dot_product: the operands are read when the timer fires, not latched
\* when the operation starts.  irq_status is assigned, not or-ed.
DotProduct(d) ==
  IF d.vec_len \in {8, 16}
  THEN [d EXCEPT !.status = "DONE",
                 !.irq_status = {"COMPLETION"},
                 !.result = [of |-> [i \in WordsOf(d.vec_len) |-> d.input[i]],
                             flipped |-> FALSE]]
  ELSE [d EXCEPT !.status = "ERROR",
                 !.irq_status = {"ERROR"},
                 !.err_code = "INVALID_LENGTH",
                 !.result = ZeroResult]

\* The fault-injection chain of vnpu_dot_timer.
InjectFault(d) ==
  IF FAULT_IRQ_DROP \in d.fault_control
  THEN [d EXCEPT !.irq_status = {}]
  ELSE IF FAULT_STUCK_BUSY \in d.fault_control
  THEN [d EXCEPT !.status = "BUSY", !.irq_status = {}]
  ELSE IF FAULT_CORRUPT_RESULT \in d.fault_control
  THEN [d EXCEPT !.result.flipped = ~@]
  ELSE IF FAULT_FORCE_ERROR \in d.fault_control
  THEN [d EXCEPT !.status = "ERROR",
                 !.err_code = "FORCED",
                 !.irq_status = {"ERROR"}]
  ELSE d

\* vnpu_dot_timer.  A QEMU timer is no longer pending when its callback runs.
DotTimer(d) ==
  UpdateIrq(InjectFault(DotProduct([d EXCEPT !.timer = FALSE])))
=============================================================================
