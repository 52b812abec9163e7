--------------------------- MODULE VnpuRegsProofs ---------------------------
(***************************************************************************)
(* Facts about the register handlers of VnpuRegs: each one takes a sound   *)
(* device state to a sound one.  VnpuDeviceProofs and VnpuDriverProofs     *)
(* cite them for the steps of guest software and of the driver.            *)
(***************************************************************************)
EXTENDS VnpuRegs, TLAPS

\* The invariants of a single device state; VnpuDevice states them of its
\* variable.
LineSound(d) == d.irq_line = (d.irq_status \cap d.irq_enable # {})
TimerSound(d) == d.timer => d.status \in {"BUSY", "ERROR"}
CompletionSound(d) == "COMPLETION" \in d.irq_status => d.status \in {"IDLE", "DONE"}
ErrorSound(d) ==
  /\ d.status = "ERROR" => d.err_code # "NONE"
  /\ d.err_code = "FORCED" => d.status = "ERROR" /\ ~d.timer

Sound(d) ==
  /\ d \in Device
  /\ LineSound(d)
  /\ TimerSound(d)
  /\ CompletionSound(d)
  /\ ErrorSound(d)

----------------------------------------------------------------------------
\* The lengths a revision supports are lengths the dot product computes.
LEMMA SupportedLenFacts ==
  /\ SupportedLen \subseteq {8, 16}
  /\ InitLen \in SupportedLen
BY RevisionAssumption DEF SupportedLen, InitLen, VNPU_REVISION_A, VNPU_REVISION_B

\* A power-on device is sound.
LEMMA RegisterInitSound == Sound(RegisterInit)
<1>1. RegisterInit.result \in Result
  <2>1. [i \in 1..0 |-> ZeroWord] \in [1..0 -> Word]
    OBVIOUS
  <2>. QED
    BY <2>1 DEF RegisterInit, ZeroResult, Result
<1>2. RegisterInit \in Device
  BY <1>1, WordAssumption, JobAssumption, SupportedLenFacts
  DEF RegisterInit, Device, Status, ErrCode, IrqBit, WordIndex
<1>. QED
  BY <1>2 DEF RegisterInit, Sound, LineSound, TimerSound, CompletionSound, ErrorSound

\* Driving the line after any change of a well-formed device gives a
\* well-formed device whose line is right, and changes nothing else.
LEMMA UpdateIrqFacts ==
  ASSUME NEW d \in Device
  PROVE  /\ UpdateIrq(d) \in Device
         /\ LineSound(UpdateIrq(d))
         /\ UpdateIrq(d).status = d.status
         /\ UpdateIrq(d).err_code = d.err_code
         /\ UpdateIrq(d).irq_status = d.irq_status
         /\ UpdateIrq(d).timer = d.timer
         /\ UpdateIrq(d).vec_len = d.vec_len
         /\ UpdateIrq(d).fault_control = d.fault_control
BY DEF UpdateIrq, Device, LineSound

LEMMA ControlResetSound ==
  ASSUME NEW d, Sound(d)
  PROVE  Sound(ControlReset(d))
<1>. DEFINE e == [d EXCEPT !.timer = FALSE, !.status = "IDLE", !.irq_status = {},
                           !.err_code = "NONE", !.fault_control = {}]
<1>1. /\ e \in Device
      /\ e.timer = FALSE /\ e.status = "IDLE" /\ e.err_code = "NONE"
      /\ e.irq_status = {}
  BY DEF Sound, Device, Status, ErrCode
<1>2. ControlReset(d) = UpdateIrq(e)
  BY DEF ControlReset
<1>. HIDE DEF e
<1>. QED
  BY <1>1, <1>2, UpdateIrqFacts
  DEF Sound, TimerSound, CompletionSound, ErrorSound

LEMMA StartRejectedSound ==
  ASSUME NEW d, Sound(d), d.status # "IDLE"
  PROVE  Sound(StartRejected(d))
<1>. DEFINE code == IF d.status \in {"BUSY", "DONE"} THEN "BUSY" ELSE d.err_code
            e == [d EXCEPT !.irq_status = @ \cup {"ERROR"}, !.err_code = code]
<1>1. /\ e \in Device
      /\ e.timer = d.timer /\ e.status = d.status /\ e.err_code = code
      /\ e.irq_status = d.irq_status \cup {"ERROR"}
  BY DEF Sound, Device, Status, ErrCode, IrqBit
<1>2. StartRejected(d) = UpdateIrq(e)
  BY DEF StartRejected, Sound, Device
<1>. HIDE DEF e
<1>. QED
  BY <1>1, <1>2, UpdateIrqFacts
  DEF Sound, TimerSound, CompletionSound, ErrorSound, Device, Status

LEMMA StartAcceptedSound ==
  ASSUME NEW d, Sound(d), d.status = "IDLE"
  PROVE  Sound(StartAccepted(d))
<1>. DEFINE e == [d EXCEPT !.status = "BUSY", !.irq_status = {}]
            f == [UpdateIrq(e) EXCEPT !.err_code = "NONE", !.timer = TRUE]
<1>1. e \in Device /\ e.status = "BUSY" /\ e.irq_status = {}
  BY DEF Sound, Device, Status
<1>. HIDE DEF e
<1>2. /\ UpdateIrq(e) \in Device /\ LineSound(UpdateIrq(e))
      /\ UpdateIrq(e).status = "BUSY" /\ UpdateIrq(e).irq_status = {}
  BY <1>1, UpdateIrqFacts
<1>3. f \in Device /\ LineSound(f) /\ f.status = "BUSY" /\ f.irq_status = {}
      /\ f.err_code = "NONE"
  BY <1>2 DEF Device, LineSound, ErrCode
<1>4. StartAccepted(d) = f
  BY DEF StartAccepted, e
<1>. QED
  BY <1>3, <1>4 DEF Sound, TimerSound, CompletionSound, ErrorSound

\* CONTROL.
LEMMA WriteControlSound ==
  ASSUME NEW d, Sound(d), NEW val
  PROVE  Sound(WriteControl(d, val))
BY ControlResetSound, StartRejectedSound, StartAcceptedSound DEF WriteControl

LEMMA WriteIrqStatusSound ==
  ASSUME NEW d, Sound(d), NEW val
  PROVE  Sound(WriteIrqStatus(d, val))
<1>. DEFINE e == [d EXCEPT !.irq_status = @ \ val]
<1>1. /\ e \in Device
      /\ e.timer = d.timer /\ e.status = d.status /\ e.err_code = d.err_code
      /\ e.irq_status = d.irq_status \ val
  BY DEF Sound, Device
<1>2. WriteIrqStatus(d, val) = UpdateIrq(e)
  BY DEF WriteIrqStatus
<1>. HIDE DEF e
<1>. QED
  BY <1>1, <1>2, UpdateIrqFacts
  DEF Sound, TimerSound, CompletionSound, ErrorSound

LEMMA WriteIrqEnableSound ==
  ASSUME NEW d, Sound(d), NEW val
  PROVE  Sound(WriteIrqEnable(d, val))
<1>. DEFINE e == [d EXCEPT !.irq_enable = val \cap IrqBit]
<1>1. /\ e \in Device
      /\ e.timer = d.timer /\ e.status = d.status /\ e.err_code = d.err_code
      /\ e.irq_status = d.irq_status
  BY DEF Sound, Device
<1>2. WriteIrqEnable(d, val) = UpdateIrq(e)
  BY DEF WriteIrqEnable
<1>. HIDE DEF e
<1>. QED
  BY <1>1, <1>2, UpdateIrqFacts
  DEF Sound, TimerSound, CompletionSound, ErrorSound

LEMMA WriteJobIdSound ==
  ASSUME NEW d, Sound(d), NEW val \in JobId
  PROVE  Sound(WriteJobId(d, val))
BY DEF WriteJobId, Sound, Device, LineSound, TimerSound, CompletionSound, ErrorSound

LEMMA WriteVectorLengthSound ==
  ASSUME NEW d, Sound(d), NEW val
  PROVE  Sound(WriteVectorLength(d, val))
<1>1. CASE val \in SupportedLen
  BY <1>1 DEF WriteVectorLength, Sound, Device, LineSound, TimerSound,
              CompletionSound, ErrorSound
<1>2. CASE val \notin SupportedLen
  <2>. DEFINE e == [d EXCEPT !.err_code = "INVALID_LENGTH", !.status = "ERROR",
                             !.irq_status = {"ERROR"}]
  <2>1. /\ e \in Device
        /\ e.status = "ERROR" /\ e.err_code = "INVALID_LENGTH"
        /\ e.irq_status = {"ERROR"}
    BY DEF Sound, Device, Status, ErrCode, IrqBit
  <2>2. WriteVectorLength(d, val) = UpdateIrq(e)
    BY <1>2 DEF WriteVectorLength
  <2>. HIDE DEF e
  <2>. QED
    BY <2>1, <2>2, UpdateIrqFacts
    DEF Sound, TimerSound, CompletionSound, ErrorSound
<1>. QED
  BY <1>1, <1>2

LEMMA WriteInputSound ==
  ASSUME NEW d, Sound(d), NEW i \in WordIndex, NEW w \in Word
  PROVE  Sound(WriteInput(d, i, w))
BY DEF WriteInput, Sound, Device, LineSound, TimerSound, CompletionSound, ErrorSound

\* val & (0U - val) keeps at most one bit.
LEMMA LowestBitSingle ==
  ASSUME NEW bits \in SUBSET FaultBit
  PROVE  LowestBit(bits) \in {{}} \cup {{b} : b \in FaultBit}
<1>1. CASE LowestBit(bits) = {}
  BY <1>1
<1>2. CASE LowestBit(bits) # {}
  <2>1. PICK b : b \in LowestBit(bits)
    BY <1>2
  <2>2. \A c \in LowestBit(bits) : c = b
    BY <2>1 DEF LowestBit, FaultBit
  <2>3. LowestBit(bits) = {b} /\ b \in FaultBit
    BY <2>1, <2>2 DEF LowestBit
  <2>. QED
    BY <2>3
<1>. QED
  BY <1>1, <1>2

LEMMA WriteFaultControlSound ==
  ASSUME NEW d, Sound(d), NEW val
  PROVE  Sound(WriteFaultControl(d, val))
<1>1. LowestBit(val \cap FaultBit) \in {{}} \cup {{b} : b \in FaultBit}
  BY LowestBitSingle
<1>. QED
  BY <1>1 DEF WriteFaultControl, Sound, Device, LineSound, TimerSound,
              CompletionSound, ErrorSound

LEMMA ReadResultSound ==
  ASSUME NEW d, Sound(d)
  PROVE  Sound(ReadResult(d))
BY DEF ReadResult, Sound, Device, Status, LineSound, TimerSound, CompletionSound,
       ErrorSound

\* The dot product of an operation whose timer is gone: the device is done,
\* announces it, and has no error of its own.
LEMMA DotProductFacts ==
  ASSUME NEW d \in Device
  PROVE  /\ DotProduct(d) \in Device
         /\ DotProduct(d).timer = d.timer
         /\ DotProduct(d).status = "DONE"
         /\ DotProduct(d).irq_status = {"COMPLETION"}
         /\ DotProduct(d).err_code = d.err_code
         /\ DotProduct(d).fault_control = d.fault_control
<1>1. d.vec_len \in {8, 16} /\ d.input \in [WordIndex -> Word]
  BY SupportedLenFacts DEF Device
<1>. DEFINE r == [of |-> [i \in WordsOf(d.vec_len) |-> d.input[i]], flipped |-> FALSE]
<1>2. r \in Result
  <2>1. WordsOf(d.vec_len) \in {1..2, 1..4}
    BY <1>1 DEF WordsOf
  <2>2. [i \in WordsOf(d.vec_len) |-> d.input[i]] \in [WordsOf(d.vec_len) -> Word]
    BY <1>1, <2>1 DEF WordIndex
  <2>. QED
    BY <2>1, <2>2 DEF Result
<1>3. DotProduct(d) = [d EXCEPT !.status = "DONE", !.irq_status = {"COMPLETION"},
                                !.result = r]
  BY <1>1 DEF DotProduct
<1>. HIDE DEF r
<1>4. DotProduct(d) \in Device
  <2>. DEFINE e == [d EXCEPT !.status = "DONE", !.irq_status = {"COMPLETION"}]
  <2>1. e \in Device
    BY DEF Device, Status, IrqBit
  <2>2. DotProduct(d) = [e EXCEPT !.result = r]
    BY <1>3
  <2>. HIDE DEF e
  <2>. QED
    BY <1>2, <2>1, <2>2 DEF Device
<1>. QED
  BY <1>3, <1>4 DEF Device

\* vnpu_dot_timer: the error code it finds cannot be FORCED, because a forced
\* error leaves no timer.
LEMMA DotTimerSound ==
  ASSUME NEW d, Sound(d), d.timer
  PROVE  /\ Sound(DotTimer(d))
         /\ ~DotTimer(d).timer
         /\ DotTimer(d).status \in {"DONE", "ERROR", "BUSY"}
<1>. DEFINE c == DotProduct([d EXCEPT !.timer = FALSE])
            e == InjectFault(c)
<1>1. /\ c \in Device /\ c.timer = FALSE /\ c.status = "DONE"
      /\ c.irq_status = {"COMPLETION"} /\ c.err_code # "FORCED"
  <2>1. [d EXCEPT !.timer = FALSE] \in Device
    BY DEF Sound, Device
  <2>2. d.err_code # "FORCED"
    BY DEF Sound, ErrorSound
  <2>. QED
    BY <2>1, <2>2, DotProductFacts DEF Sound, Device
<1>. HIDE DEF c
<1>2. /\ e \in Device /\ e.timer = FALSE
      /\ e.status \in {"DONE", "ERROR", "BUSY"}
      /\ "COMPLETION" \in e.irq_status => e.status = "DONE"
      /\ e.status = "ERROR" => e.err_code = "FORCED"
      /\ e.err_code = "FORCED" => e.status = "ERROR"
  <2>1. c.result.flipped \in BOOLEAN /\ c.result \in Result
    BY <1>1 DEF Device, Result
  <2>2. [c.result EXCEPT !.flipped = ~@] \in Result
    BY <2>1 DEF Result
  <2>. QED
    BY <1>1, <2>2 DEF InjectFault, Device, Status, ErrCode, IrqBit
<1>3. DotTimer(d) = UpdateIrq(e)
  BY DEF DotTimer, c
<1>. HIDE DEF e
<1>. QED
  BY <1>2, <1>3, UpdateIrqFacts
  DEF Sound, TimerSound, CompletionSound, ErrorSound
----------------------------------------------------------------------------
\* Each handler, seen as a step of VnpuLifecycle: what it does to the status
\* and to the pending timer.
LEMMA ControlStep ==
  ASSUME NEW d, Sound(d), NEW val
  PROVE  LET e == WriteControl(d, val)
         IN  \/ e.status = "IDLE" /\ ~e.timer
             \/ d.status = "IDLE" /\ e.status = "BUSY" /\ e.timer
             \/ e.status = d.status /\ e.timer = d.timer
<1>1. CASE "RESET" \in val
  BY <1>1 DEF WriteControl, ControlReset, UpdateIrq, Sound, Device
<1>2. CASE "RESET" \notin val /\ "START" \in val /\ d.status = "IDLE"
  BY <1>2 DEF WriteControl, StartAccepted, UpdateIrq, Sound, Device
<1>3. CASE "RESET" \notin val /\ "START" \in val /\ d.status # "IDLE"
  BY <1>3 DEF WriteControl, StartRejected, UpdateIrq, Sound, Device
<1>4. CASE "RESET" \notin val /\ "START" \notin val
  BY <1>4 DEF WriteControl
<1>. QED
  BY <1>1, <1>2, <1>3, <1>4

LEMMA VectorLengthStep ==
  ASSUME NEW d, Sound(d), NEW val
  PROVE  LET e == WriteVectorLength(d, val)
         IN  /\ e.timer = d.timer
             /\ e.status \in {d.status, "ERROR"}
BY DEF WriteVectorLength, UpdateIrq, Sound, Device

LEMMA ReadResultStep ==
  ASSUME NEW d, Sound(d)
  PROVE  LET e == ReadResult(d)
         IN  /\ e.timer = d.timer
             /\ \/ e.status = d.status
                \/ d.status = "DONE" /\ e.status = "IDLE"
BY DEF ReadResult, Sound, Device

\* A refused START leaves the status alone.
LEMMA StartRejectedKeeps ==
  ASSUME NEW d, Sound(d)
  PROVE  StartRejected(d).status = d.status
BY DEF StartRejected, UpdateIrq, Sound, Device

\* The remaining handlers touch neither.
LEMMA QuietStep ==
  ASSUME NEW d, Sound(d), NEW val, NEW i, NEW w
  PROVE  \A e \in {WriteIrqStatus(d, val), WriteIrqEnable(d, val),
                   WriteJobId(d, val), WriteInput(d, i, w),
                   WriteFaultControl(d, val)} :
           e.status = d.status /\ e.timer = d.timer
BY DEF WriteIrqStatus, WriteIrqEnable, WriteJobId, WriteInput, WriteFaultControl,
       UpdateIrq, Sound, Device

LEMMA SupportedLengthStep ==
  ASSUME NEW d, Sound(d), NEW val \in SupportedLen
  PROVE  LET e == WriteVectorLength(d, val)
         IN  e.timer = d.timer /\ e.status = d.status
BY DEF WriteVectorLength, Sound, Device
=============================================================================
