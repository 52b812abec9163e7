---------------------------- MODULE VnpuCtlProofs ----------------------------
(***************************************************************************)
(* The whole stack, from the command line to the device and back, for any  *)
(* command lines and any number of them, as long as no forced error can    *)
(* meet a timeout that races the operation: the driver accepts what the    *)
(* HAL asks, and a success prints the dot product of the operands on its   *)
(* command line.  And under the conditions of Undisturbed, the mock agrees *)
(* with the device.                                                        *)
(* No SMT leaf sees an empty string or one with a space in it, which the   *)
(* translation to SMT cannot name: those facts go to Zenon.                *)
(***************************************************************************)
EXTENDS VnpuCtl, VnpuOneCpuProofs

\* For what is proved there of the lanes of packed words; its loops play no part.
Loop == INSTANCE VnpuDotProofs WITH
  len <- 8, input_a <- <<>>, input_b <- <<>>, i <- 0, result <- 0, mock <- 0

Faults == {FaultType[type] : type \in DOMAIN FaultType}

\* The command being executed, by the ioctl it makes.
Running == cmd # NoCommand /\ cmd.command = "run-dot"
Injecting == cmd # NoCommand /\ cmd.command \in {"inject-fault", "clear-faults"}
Resets == cmd # NoCommand /\ cmd.command = "reset"
Asking == cmd # NoCommand /\ cmd.command = "stats"

\* The thread is in the ioctl of the command, with the arguments the HAL gave it.
InCall ==
  /\ cmd = NoCommand => pc[self] = "idle"
  /\ cmd # NoCommand =>
       /\ cmd \in CommandLine /\ ~ArgumentError(cmd) /\ ~Rejected(cmd)
       /\ Running \/ Injecting \/ Resets \/ Asking
  /\ Running =>
       /\ pc[self] \in RunHeld \cup Reporting \cup {"run_lock", "copy_out", "idle"}
       /\ req[self] = BuildRequest(A(cmd), B(cmd), cmd.timeout_ms)
  /\ Injecting =>
       /\ pc[self] \in {"fault_write", "copy_out", "idle"}
       /\ FaultOf(cmd) \in DOMAIN FaultType
       /\ mask[self] = FaultType[FaultOf(cmd)]
  /\ Resets => pc[self] \in ResetHeld \cup {"reset_lock", "idle"}
  /\ Asking => pc[self] \in {"stat_read", "copy_out", "idle"}

MockOK == m \in [fault_mask : Faults, stats : [StatField -> Nat]]

\* The device has the fault the mock has, unless a reset after a timeout cleared it.
FaultKnown ==
  IF Injecting /\ pc[self] # "fault_write"
  THEN dev.fault_control = mask[self]
  ELSE /\ dev.fault_control \in {{}, m.fault_mask}
       /\ Resets /\ pc[self] \notin {"reset_lock", "hw_disable", "hw_reset"} =>
            dev.fault_control = {}

\* An answer is of the operands the HAL packed, and flipped only by the fault.
Answering ==
  Running =>
    /\ pc[self] \in Flying /\ dev.status = "DONE" /\ dev.result.flipped =>
         m.fault_mask = FaultType.corrupt_result
    /\ pc[self] = "run_clear" => out[self].code # "OK"
    /\ pc[self] \in {"copy_out", "idle"} /\ out[self].code = "OK" =>
         /\ out[self].driver_status = "OK"
         /\ out[self].result.of = [i \in WordsOf(8) |-> req[self].input[i]]
         /\ out[self].result.flipped => m.fault_mask = FaultType.corrupt_result

\* The inductive invariant, beside that of the driver.
CtlInv ==
  /\ InCall /\ MockOK /\ FaultKnown /\ Answering
  /\ HalRequestsAccepted /\ ReplyIsProduct
----------------------------------------------------------------------------
\* There is one thread, self.
LEMMA SelfFacts == self \in Thread /\ \A t \in Thread : t = self
<1>1. PICK t \in Thread : Thread = {t}
  BY CommandLineAssumption
<1>2. self \in Thread
  BY <1>1 DEF self
<1>. QED
  BY <1>1, <1>2

\* Below the HAL, the stack takes the steps of VnpuDriver.
LEMMA CtlStepsDriver == [CtlNext]_ctlVars => [Next]_vars
<1>. SUFFICES ASSUME [CtlNext]_ctlVars PROVE [Next]_vars
  OBVIOUS
<1>. USE SelfFacts
<1>1. ASSUME NEW c \in CommandLine,
             Local(c) \/ CtlRunDot(c) \/ CtlSetFault(c) \/ CtlReset(c) \/ CtlStats(c)
      PROVE  [Next]_vars
  BY <1>1 DEF Local, CtlRunDot, CtlSetFault, CtlReset, CtlStats, Next, Call
<1>2. CASE RunDotReturns \/ SetFaultReturns \/ ResetReturns \/ StatsReturns
  BY <1>2 DEF RunDotReturns, SetFaultReturns, ResetReturns, StatsReturns, Returns
<1>3. CASE (Step(self) \/ Isr \/ TimerFires) /\ UNCHANGED ctl
  BY <1>3 DEF Next
<1>4. CASE UNCHANGED ctlVars
  BY <1>4 DEF ctlVars
<1>. QED
  BY <1>1, <1>2, <1>3, <1>4 DEF CtlNext

LEMMA CtlSpecRInv ==
  ASSUME OneCpu
  PROVE  CtlSpec => []RInv
<1>1. CtlInit => Init
  BY DEF CtlInit
<1>. QED
  BY <1>1, CtlStepsDriver, SpecRInv, PTL DEF CtlSpec, Spec
----------------------------------------------------------------------------
\* What has passed the parser and the checks of the HAL, the driver accepts.
LEMMA RequestFacts ==
  ASSUME NEW c \in CommandLine, c.command = "run-dot", ~ArgumentError(c), ~Rejected(c)
  PROVE  /\ A(c) \in [0..7 -> Int8] /\ B(c) \in [0..7 -> Int8]
         /\ Size(A(c)) = 8 /\ Size(B(c)) = 8
         /\ LET r == BuildRequest(A(c), B(c), c.timeout_ms)
            IN  ValidRequest(r) /\ r.vector_length = 8
                /\ r.input = BuildInput(A(c), B(c))
<1>1. parse_int8_list(c.input_a) /\ parse_int8_list(c.input_b)
  BY DEF ArgumentError, ParsesRunDot
<1>2. ASSUME NEW list, list \in {c.input_a, c.input_b}
      PROVE  VectorOf(list) \in [0..7 -> Int8]
  <2>1. list.values \in Seq(Int) /\ Len(list.values) = 8
        /\ \A i \in DOMAIN list.values : list.values[i] \in Int8
    BY <1>1, <1>2, CommandLineAssumption DEF parse_int8_list
  <2>2. DOMAIN list.values = 1..8
    BY <2>1
  <2>3. \A i \in 0..7 : list.values[i + 1] \in Int8
    <3>1. \A i \in 0..7 : i + 1 \in 1..8
      OBVIOUS
    <3>. QED
      BY <2>1, <2>2, <3>1
  <2>. QED
    BY <2>1, <2>3 DEF VectorOf
<1>3. Rejection(A(c), B(c), c.timeout_ms) = ""
  BY DEF Rejected
<1>4. Size(A(c)) = 8 /\ Size(B(c)) = 8 /\ c.timeout_ms \in 1..1000
  BY <1>3 DEF Rejection
<1>5. 8 \in SupportedLen
  BY DEF SupportedLen
<1>. QED
  BY <1>2, <1>4, <1>5 DEF A, B, BuildRequest, ValidRequest

LEMMA FaultFacts ==
  /\ Faults = {{}, {0}, {1}, {2}, {3}}
  /\ \A f \in Faults : ValidMask(f) /\ LowestBit(f \cap FaultBit) = f
<1>1. Faults = {{}, {0}, {1}, {2}, {3}}
  BY DEF Faults, FaultType
<1>2. ASSUME NEW f \in Faults
      PROVE  ValidMask(f) /\ LowestBit(f \cap FaultBit) = f
  <2>1. Cardinality({}) = 0 /\ \A n : Cardinality({n}) = 1
    BY FS_EmptySet, FS_Singleton
  <2>2. CASE f = {}
    BY <2>1, <2>2 DEF ValidMask, LowestBit
  <2>3. CASE f # {}
    <3>1. PICK n \in FaultBit : f = {n}
      BY <1>1, <2>3 DEF FaultBit
    <3>2. Cardinality(f) = 1
      BY <2>1, <3>1
    <3>3. f \subseteq FaultBit /\ f \cap FaultBit = f
      BY <3>1
    <3>4. LowestBit({n}) = {n}
      BY <3>1 DEF LowestBit, FaultBit
    <3>. QED
      BY <3>1, <3>2, <3>3, <3>4 DEF ValidMask
  <2>. QED
    BY <2>2, <2>3
<1>. QED
  BY <1>1, <1>2

LEMMA FaultOfFacts ==
  ASSUME NEW c, \/ c.command = "clear-faults"
                \/ c.command = "inject-fault" /\ IsFaultName(c.fault)
  PROVE  FaultOf(c) \in DOMAIN FaultType /\ FaultType[FaultOf(c)] \in Faults
<1>1. CASE c.command = "clear-faults"
  BY <1>1 DEF FaultOf, FaultType, Faults
<1>2. CASE c.command = "inject-fault" /\ IsFaultName(c.fault)
  <2>1. parse_fault_type(c.fault) \in DOMAIN FaultNames
    BY <1>2 DEF IsFaultName, parse_fault_type
  <2>. QED
    BY <1>2, <2>1 DEF FaultOf, FaultNames, FaultType, Faults
<1>. QED
  BY <1>1, <1>2
----------------------------------------------------------------------------
\* How an operation ends is what the mock makes of the fault.
LEMMA TimerOutcome ==
  ASSUME NEW d \in Device
  PROVE  LET e == DotTimer(d)
             f == d.fault_control
         IN  /\ f \in Faults /\ e.fault_control = f
             /\ e.status = IF f = FaultType.stuck_busy THEN "BUSY"
                           ELSE IF f = FaultType.force_error THEN "ERROR" ELSE "DONE"
             /\ e.irq_status = {} <=> MockEnd(f) = "timed_out"
             /\ e.result.flipped <=> f = FaultType.corrupt_result
<1>. DEFINE n == [d EXCEPT !.timer = FALSE]
            f == d.fault_control
            r == [of |-> [i \in WordsOf(d.vec_len) |-> d.input[i]], flipped |-> FALSE]
            c == DotProduct(n)
            e == InjectFault(c)
<1>1. f \in {{}, {0}, {1}, {2}, {3}}
  BY DEF Device, FaultBit
<1>2. /\ n \in Device /\ n.vec_len \in {8, 16} /\ n.fault_control = f
      /\ n.input = d.input /\ n.vec_len = d.vec_len
  BY SupportedLenFacts DEF Device
<1>. HIDE DEF n
<1>3. c = [n EXCEPT !.status = "DONE", !.irq_status = {"COMPLETION"}, !.result = r]
  BY <1>2 DEF DotProduct
<1>4. r.flipped = FALSE
  OBVIOUS
<1>. HIDE DEF r
<1>5. /\ c \in Device /\ c.status = "DONE" /\ c.irq_status = {"COMPLETION"}
      /\ c.result = r /\ c.fault_control = f
  <2>1. c \in Device
    BY <1>2, DotProductFacts
  <2>. HIDE DEF c
  <2>. QED
    BY <1>2, <1>3, <2>1 DEF Device
<1>. HIDE DEF c, f
<1>. USE DEF FAULT_IRQ_DROP, FAULT_STUCK_BUSY, FAULT_CORRUPT_RESULT, FAULT_FORCE_ERROR
<1>6. /\ e.fault_control = f
      /\ e.status = IF f = {1} THEN "BUSY" ELSE IF f = {3} THEN "ERROR" ELSE "DONE"
      /\ e.irq_status = {} <=> f \in {{0}, {1}}
      /\ e.result.flipped <=> f = {2}
  <2>1. CASE f = {0} \/ f = {1}
    BY <1>4, <1>5, <2>1 DEF InjectFault, Device
  <2>2. CASE f = {2}
    <3>. DEFINE g == [c.result EXCEPT !.flipped = ~@]
    <3>1. g.flipped = TRUE
      BY <1>4, <1>5 DEF Device, Result
    <3>2. e = [c EXCEPT !.result = g]
      BY <1>5, <2>2 DEF InjectFault, Device
    <3>. HIDE DEF e, g
    <3>. QED
      BY <1>4, <1>5, <2>2, <3>1, <3>2 DEF Device
  <2>3. CASE f = {3}
    <3>1. e = [c EXCEPT !.status = "ERROR", !.err_code = "FORCED",
                        !.irq_status = {"ERROR"}]
      BY <1>5, <2>3 DEF InjectFault
    <3>. HIDE DEF e
    <3>. QED
      BY <1>4, <1>5, <2>3, <3>1 DEF Device
  <2>4. CASE f = {}
    BY <1>4, <1>5, <2>4 DEF InjectFault, Device
  <2>. QED
    BY <1>1, <2>1, <2>2, <2>3, <2>4
<1>7. DotTimer(d) = UpdateIrq(e)
  BY DEF DotTimer, c, n
<1>8. e \in Device
  <2>1. [c.result EXCEPT !.flipped = ~@] \in Result
    BY <1>5 DEF Device, Result
  <2>. QED
    BY <1>5, <2>1 DEF InjectFault, Device, Status, ErrCode, IrqBit
<1>. HIDE DEF e
<1>9. /\ DotTimer(d).fault_control = e.fault_control
      /\ DotTimer(d).status = e.status /\ DotTimer(d).irq_status = e.irq_status
      /\ DotTimer(d).result = e.result
  BY <1>7, <1>8 DEF UpdateIrq, Device
<1>10. MockEnd(f) = "timed_out" <=> f \in {{0}, {1}}
  BY DEF MockEnd, FaultType
<1>. QED
  BY <1>1, <1>6, <1>9, <1>10, FaultFacts DEF FaultType, f

\* FAULT_CONTROL changes by the call that sets it and by a RESET.
LEMMA FaultControlStep ==
  ASSUME TypeOK, Step(self) \/ Isr \/ TimerFires
  PROVE  \/ /\ dev'.fault_control = dev.fault_control
            /\ ~(RunTimedOut(self) \/ HwReset(self) \/ SetFaultWrite(self))
         \/ (RunTimedOut(self) \/ HwReset(self)) /\ dev'.fault_control = {}
         \/ /\ SetFaultWrite(self)
            /\ dev'.fault_control = LowestBit(mask[self] \cap FaultBit)
<1>. USE DEF TypeOK
<1>1. CASE RunTimedOut(self) \/ HwReset(self)
  BY <1>1, ResetEffect DEF RunTimedOut, HwReset
<1>2. CASE SetFaultWrite(self)
  BY <1>2 DEF SetFaultWrite, WriteFaultControl, Device
<1>3. CASE /\ RunStep(self) \/ ResetStep(self)
           /\ ~RunTimedOut(self) /\ ~HwReset(self) /\ ~SetFaultWrite(self)
  <2>1. CASE RunAck(self) \/ RunEnable(self) \/ RunInput(self) \/ RunLength(self)
    BY <1>3, <2>1 DEF RunAck, RunEnable, RunInput, RunLength, WriteIrqStatus,
                WriteIrqEnable, WriteInput, WriteVectorLength, UpdateIrq, Device
  <2>2. CASE RunStart(self)
    BY <1>3, <2>2, StartEffect DEF RunStart
  <2>3. CASE RunResult(self)
    BY <1>3, <2>3 DEF RunResult, ReadResult, Device
  <2>4. CASE HwDisable(self) \/ HwAck(self)
    BY <1>3, <2>4 DEF HwDisable, HwAck, WriteIrqStatus, WriteIrqEnable, UpdateIrq,
                      Device
  <2>5. CASE \/ RunLock(self) \/ RunBadLength(self) \/ RunCount(self)
             \/ RunWaitCompleted(self) \/ RunWaitTimeout(self) \/ RunWoken(self)
             \/ RunError(self) \/ RunClear(self) \/ ResetLock(self)
             \/ HwStatus(self) \/ HwIrqStatus(self) \/ HwErrorCode(self)
    BY <1>3, <2>5
    DEF RunLock, RunBadLength, RunCount, RunWaitCompleted, RunWaitTimeout,
        RunWoken, RunError, RunClear, ResetLock, HwStatus, HwIrqStatus, HwErrorCode
  <2>. QED
    BY <1>3, <2>1, <2>2, <2>3, <2>4, <2>5 DEF RunStep, ResetStep
<1>4. CASE (GetStatRead(self) \/ CopyOut(self)) /\ ~RunTimedOut(self)
             /\ ~HwReset(self) /\ ~SetFaultWrite(self)
  BY <1>4 DEF GetStatRead, CopyOut
<1>5. CASE Isr /\ ~RunTimedOut(self) /\ ~HwReset(self) /\ ~SetFaultWrite(self)
  BY <1>5 DEF Isr, IsrRead, IsrAck, IsrErrorCode, IsrFlag, IsrComplete,
              WriteIrqStatus, UpdateIrq, Device
<1>6. CASE TimerFires /\ ~RunTimedOut(self) /\ ~HwReset(self) /\ ~SetFaultWrite(self)
  BY <1>6, TimerEffect DEF TimerFires
<1>. QED
  BY <1>1, <1>2, <1>3, <1>4, <1>5, <1>6 DEF Step
----------------------------------------------------------------------------
\* The two dot products, of eight elements and of the two words they pack into.
LEMMA MockSum ==
  ASSUME NEW a, NEW b, Size(a) = 8, \A n \in 0..7 : a[n] * b[n] \in Int
  PROVE  MockDot(a, b) = a[0] * b[0] + a[1] * b[1] + a[2] * b[2] + a[3] * b[3]
                         + a[4] * b[4] + a[5] * b[5] + a[6] * b[6] + a[7] * b[7]
<1>. DEFINE p(n) == a[n] * b[n]
            F(f) == [n \in 0..8 |-> IF n = 0 THEN 0 ELSE f[n - 1] + p(n - 1)]
            sum == CHOOSE f : f = F(f)
            s2 == p(0) + p(1)
            s3 == s2 + p(2)
            s4 == s3 + p(3)
            s5 == s4 + p(4)
            s6 == s5 + p(5)
            s7 == s6 + p(6)
            W == [n \in 0..8 |->
                   CASE n = 0 -> 0 [] n = 1 -> p(0) [] n = 2 -> s2 [] n = 3 -> s3
                     [] n = 4 -> s4 [] n = 5 -> s5 [] n = 6 -> s6 [] n = 7 -> s7
                     [] n = 8 -> s7 + p(7)]
<1>1. MockDot(a, b) = sum[8]
  BY DEF MockDot
<1>2. \A n \in 0..7 : p(n) \in Int
  OBVIOUS
<1>. HIDE DEF p
<1>3. W = F(W)
  <2>1. \A n \in 0..8 : W[n] = (IF n = 0 THEN 0 ELSE W[n - 1] + p(n - 1))
    BY <1>2
  <2>. QED
    BY <2>1
<1>4. sum = F(sum)
  <2>. HIDE DEF W, F
  <2>. QED
    BY <1>3
<1>. HIDE DEF sum
<1>5. /\ sum[0] = 0
      /\ sum[1] = sum[0] + p(0) /\ sum[2] = sum[1] + p(1) /\ sum[3] = sum[2] + p(2)
      /\ sum[4] = sum[3] + p(3) /\ sum[5] = sum[4] + p(4) /\ sum[6] = sum[5] + p(5)
      /\ sum[7] = sum[6] + p(6) /\ sum[8] = sum[7] + p(7)
  BY <1>4
<1>6. sum[8] = p(0) + p(1) + p(2) + p(3) + p(4) + p(5) + p(6) + p(7)
  BY <1>2, <1>5
<1>. QED
  BY <1>1, <1>6 DEF p

LEMMA DeviceSum ==
  ASSUME NEW words, Size(words) = 2,
         \A n \in 1..2 : WordProduct(words[n].a, words[n].b) \in Int
  PROVE  DotProductOf(words) =
           WordProduct(words[1].a, words[1].b) + WordProduct(words[2].a, words[2].b)
<1>. DEFINE p(n) == WordProduct(words[n].a, words[n].b)
            F(f) == [n \in 0..2 |-> IF n = 0 THEN 0 ELSE f[n - 1] + p(n)]
            sum == CHOOSE f : f = F(f)
            W == [n \in 0..2 |-> CASE n = 0 -> 0 [] n = 1 -> p(1) [] n = 2 -> p(1) + p(2)]
<1>1. DotProductOf(words) = sum[2]
  BY DEF DotProductOf
<1>2. p(1) \in Int /\ p(2) \in Int
  OBVIOUS
<1>. HIDE DEF p
<1>3. W = F(W)
  <2>1. \A n \in 0..2 : W[n] = (IF n = 0 THEN 0 ELSE W[n - 1] + p(n))
    BY <1>2
  <2>. QED
    BY <2>1
<1>4. sum = F(sum)
  <2>. HIDE DEF W, F
  <2>. QED
    BY <1>3
<1>. HIDE DEF sum
<1>5. sum[0] = 0 /\ sum[1] = sum[0] + p(1) /\ sum[2] = sum[1] + p(2)
  BY <1>4
<1>. QED
  BY <1>1, <1>2, <1>5 DEF p

\* One word carries the products of its four elements.
LEMMA WordSum ==
  ASSUME NEW a \in [0..7 -> Int8], NEW b \in [0..7 -> Int8], NEW w \in {0, 1}
  PROVE  /\ \A n \in 0..7 : a[n] * b[n] \in Int
         /\ WordProduct(PackWord(a, 8, w), PackWord(b, 8, w)) =
              a[4 * w] * b[4 * w] + a[4 * w + 1] * b[4 * w + 1]
              + a[4 * w + 2] * b[4 * w + 2] + a[4 * w + 3] * b[4 * w + 3]
<1>1. \A n \in 0..7 : a[n] * b[n] \in Int
  <2>1. \A n \in 0..7 : a[n] \in Int /\ b[n] \in Int
    BY DEF Int8
  <2>. QED
    BY <2>1
<1>2. ASSUME NEW v \in [0..7 -> Int8], NEW k \in Lane
      PROVE  unpack_i8(PackWord(v, 8, w), k) = v[4 * w + k]
  <2>1. 8 - 1 = 7 /\ w \in Nat /\ 4 * w + k < 8
    BY DEF Lane
  <2>2. v \in [0..(8 - 1) -> Loop!Int8] /\ k \in Loop!Lane
    BY <2>1 DEF Loop!Int8, Int8, Loop!Lane, Lane
  <2>3. Loop!unpack_i8(Loop!PackWord(v, 8, w), k) = v[4 * w + k]
    BY <2>1, <2>2, Loop!UnpackPack
  <2>. QED
    BY <2>3 DEF Loop!unpack_i8, Loop!PackWord, Loop!Lane, Loop!ToByte,
                unpack_i8, PackWord, Lane, ToByte
<1>3. 0 \in Lane /\ 1 \in Lane /\ 2 \in Lane /\ 3 \in Lane /\ 4 * w + 0 = 4 * w
  BY DEF Lane
<1>4. \A k \in Lane : LaneProduct(PackWord(a, 8, w), PackWord(b, 8, w), k) =
                        a[4 * w + k] * b[4 * w + k]
  BY <1>2 DEF LaneProduct
<1>. QED
  BY <1>1, <1>3, <1>4 DEF WordProduct

\* What the device computes of the packed operands, the mock computes of the
\* operands themselves.
LEMMA SameProduct ==
  ASSUME NEW a \in [0..7 -> Int8], NEW b \in [0..7 -> Int8],
         Size(a) = 8, Size(b) = 8
  PROVE  DotProductOf([i \in WordsOf(8) |-> BuildInput(a, b)[i]]) = MockDot(a, b)
<1>. DEFINE words == [i \in WordsOf(8) |-> BuildInput(a, b)[i]]
<1>1. WordsOf(8) = 1..2
  BY DEF WordsOf
<1>2. /\ words[1].a = PackWord(a, 8, 0) /\ words[1].b = PackWord(b, 8, 0)
      /\ words[2].a = PackWord(a, 8, 1) /\ words[2].b = PackWord(b, 8, 1)
  BY <1>1 DEF BuildInput
<1>3. DOMAIN words = 1..2
  BY <1>1
<1>. HIDE DEF words
<1>4. Size(words) = 2
  <2>1. 1 \in Int /\ 2 \in Int
    OBVIOUS
  <2>2. Cardinality(1..2) = IF 1 > 2 THEN 0 ELSE 2 - 1 + 1
    BY <2>1, FS_Interval, Zenon
  <2>. QED
    BY <1>3, <2>2 DEF Size
<1>. DEFINE p(n) == a[n] * b[n]
<1>5. \A n \in 0..7 : p(n) \in Int
  BY WordSum
<1>6. /\ WordProduct(words[1].a, words[1].b) = p(0) + p(1) + p(2) + p(3)
      /\ WordProduct(words[2].a, words[2].b) = p(4) + p(5) + p(6) + p(7)
  <2>1. 4 * 0 = 0 /\ 4 * 1 = 4 /\ 4 + 1 = 5 /\ 4 + 2 = 6 /\ 4 + 3 = 7
        /\ 0 + 1 = 1 /\ 0 + 2 = 2 /\ 0 + 3 = 3
    OBVIOUS
  <2>2. WordProduct(PackWord(a, 8, 0), PackWord(b, 8, 0)) = p(0) + p(1) + p(2) + p(3)
    BY <2>1, WordSum
  <2>3. WordProduct(PackWord(a, 8, 1), PackWord(b, 8, 1)) = p(4) + p(5) + p(6) + p(7)
    BY <2>1, WordSum
  <2>. QED
    BY <1>2, <2>2, <2>3
<1>7. MockDot(a, b) = p(0) + p(1) + p(2) + p(3) + p(4) + p(5) + p(6) + p(7)
  BY <1>5, MockSum
<1>. HIDE DEF p
<1>8. \A n \in 1..2 : WordProduct(words[n].a, words[n].b) \in Int
  BY <1>5, <1>6
<1>9. DotProductOf(words) =
        WordProduct(words[1].a, words[1].b) + WordProduct(words[2].a, words[2].b)
  BY <1>4, <1>8, DeviceSum
<1>. QED
  BY <1>5, <1>6, <1>7, <1>9 DEF words
----------------------------------------------------------------------------
\* Where the steps of each ioctl begin and end.
LEMMA StepPlaces ==
  ASSUME TypeOK, LockInv, Step(self)
  PROVE  /\ UNCHANGED <<req, mask>>
         /\ RunStep(self) =>
              /\ pc[self] \in RunHeld \cup Reporting \cup {"run_lock"}
              /\ pc'[self] \in RunHeld \cup Reporting \cup {"copy_out"}
         /\ ResetStep(self) =>
              /\ pc[self] \in ResetHeld \cup {"reset_lock"}
              /\ pc'[self] \in ResetHeld \cup {"idle"}
         /\ SetFaultWrite(self) => pc[self] = "fault_write" /\ pc'[self] = "copy_out"
         /\ GetStatRead(self) =>
              pc[self] = "stat_read" /\ pc'[self] \in {"stat_read", "copy_out"}
         /\ CopyOut(self) => pc[self] = "copy_out" /\ pc'[self] = "idle"
<1>. USE SelfFacts DEF TypeOK, Goto, HwRead, RunHeld, ResetHeld, Reporting, locals
<1>1. CASE RunStep(self)
  BY <1>1
  DEF RunStep, RunLock, RunAck, RunEnable, RunBadLength, RunInput, RunLength,
      RunStart, RunCount, RunWaitCompleted, RunWaitTimeout, RunTimedOut, RunWoken,
      RunError, RunClear, RunResult, SetFaultWrite, GetStatRead, CopyOut, LockInv,
      ResetStep, ResetLock, HwDisable, HwReset, HwAck, HwStatus, HwIrqStatus,
      HwErrorCode
<1>2. CASE ResetStep(self) /\ ~RunStep(self)
  BY <1>2
  DEF ResetStep, ResetLock, HwDisable, HwReset, HwAck, HwStatus, HwIrqStatus,
      HwErrorCode, SetFaultWrite, GetStatRead, CopyOut
<1>3. CASE /\ SetFaultWrite(self) \/ GetStatRead(self) \/ CopyOut(self)
           /\ ~RunStep(self) /\ ~ResetStep(self)
  BY <1>3 DEF SetFaultWrite, GetStatRead, CopyOut
<1>. QED
  BY <1>1, <1>2, <1>3 DEF Step

\* The thread takes the steps of the command it executes.
LEMMA StepOf ==
  ASSUME TypeOK, LockInv, InCall, Step(self)
  PROVE  \/ Running /\ (RunStep(self) \/ CopyOut(self))
         \/ Injecting /\ (SetFaultWrite(self) \/ CopyOut(self))
         \/ Resets /\ ResetStep(self)
         \/ Asking /\ (GetStatRead(self) \/ CopyOut(self))
BY StepPlaces DEF InCall, Step, RunHeld, ResetHeld, Reporting

\* Only one kind of command is executed at a time.
LEMMA OneKind ==
  /\ Running => ~Injecting /\ ~Resets /\ ~Asking
  /\ Injecting => ~Resets /\ ~Asking
  /\ Resets => ~Asking
BY DEF Running, Injecting, Resets, Asking

\* Handler and timer leave the thread alone, and neither they nor a step touch
\* the command.
LEMMA SameCommand ==
  ASSUME UNCHANGED ctl
  PROVE  /\ Running' <=> Running
         /\ Injecting' <=> Injecting
         /\ Resets' <=> Resets
         /\ Asking' <=> Asking
         /\ cmd' = cmd /\ m' = m /\ reply' = reply
BY DEF ctl, Running, Injecting, Resets, Asking

LEMMA MachineKeeps ==
  ASSUME Isr \/ TimerFires
  PROVE  UNCHANGED <<pc, req, mask, out, snap, word>>
BY DEF Isr, IsrRead, IsrAck, IsrErrorCode, IsrFlag, IsrComplete, TimerFires,
       threads, locals

LEMMA InCallStep ==
  ASSUME TypeOK, LockInv, InCall, Step(self) \/ Isr \/ TimerFires, UNCHANGED ctl
  PROVE  InCall'
<1>1. /\ Running' <=> Running
      /\ Injecting' <=> Injecting
      /\ Resets' <=> Resets
      /\ Asking' <=> Asking
      /\ cmd' = cmd
  BY SameCommand
<1>2. CASE Step(self)
  <2>1. UNCHANGED <<req, mask>>
    BY <1>2, StepPlaces
  <2>2. CASE Running
    BY <1>1, <1>2, <2>1, <2>2, StepOf, StepPlaces, OneKind DEF InCall, Running
  <2>3. CASE Injecting
    BY <1>1, <1>2, <2>1, <2>3, StepOf, StepPlaces, OneKind DEF InCall, Injecting
  <2>4. CASE Resets
    BY <1>1, <1>2, <2>1, <2>4, StepOf, StepPlaces, OneKind DEF InCall, Resets
  <2>5. CASE Asking
    BY <1>1, <1>2, <2>1, <2>5, StepOf, StepPlaces, OneKind DEF InCall, Asking
  <2>. QED
    BY <1>2, <2>2, <2>3, <2>4, <2>5, StepOf
<1>3. CASE Isr \/ TimerFires
  BY <1>1, <1>3, MachineKeeps DEF InCall
<1>. QED
  BY <1>2, <1>3

\* FAULT_CONTROL follows the calls.
LEMMA FaultKnownStep ==
  ASSUME TypeOK, LockInv, InCall, FaultKnown,
         Step(self) \/ Isr \/ TimerFires, UNCHANGED ctl
  PROVE  FaultKnown'
<1>1. /\ Running' <=> Running
      /\ Injecting' <=> Injecting
      /\ Resets' <=> Resets
      /\ m' = m
  BY SameCommand
<1>2. UNCHANGED mask
  BY StepPlaces, MachineKeeps
<1>3. CASE /\ dev'.fault_control = dev.fault_control
           /\ ~(RunTimedOut(self) \/ HwReset(self) \/ SetFaultWrite(self))
  <2>1. Injecting /\ pc'[self] # "fault_write" => pc[self] # "fault_write"
    BY <1>3, StepOf, StepPlaces, MachineKeeps, OneKind
  <2>2. Injecting /\ pc[self] # "fault_write" => pc'[self] # "fault_write"
    BY StepOf, StepPlaces, MachineKeeps, OneKind
  <2>3. Resets /\ pc[self] \in {"reset_lock", "hw_disable", "hw_reset"} =>
          pc'[self] \in {"reset_lock", "hw_disable", "hw_reset"}
    <3>1. CASE Step(self) /\ Resets
      <4>1. ResetStep(self)
        BY <3>1, StepOf, OneKind
      <4>. QED
        BY <1>3, <4>1, SelfFacts
        DEF ResetStep, ResetLock, HwDisable, HwAck, HwStatus, HwIrqStatus,
            HwErrorCode, HwRead, Goto, TypeOK
    <3>. QED
      BY <3>1, MachineKeeps
  <2>. QED
    BY <1>1, <1>2, <1>3, <2>1, <2>2, <2>3, OneKind DEF FaultKnown
<1>4. CASE (RunTimedOut(self) \/ HwReset(self)) /\ dev'.fault_control = {}
  <2>1. ~Injecting
    BY <1>4, SelfFacts DEF RunTimedOut, HwReset, Goto, InCall
  <2>. QED
    BY <1>1, <1>4, <2>1 DEF FaultKnown
<1>5. CASE /\ SetFaultWrite(self)
           /\ dev'.fault_control = LowestBit(mask[self] \cap FaultBit)
  <2>1. Injecting /\ pc'[self] = "copy_out"
    BY <1>5, StepOf, StepPlaces DEF RunHeld, ResetHeld, Reporting, Step
  <2>2. mask[self] \in Faults
    BY <2>1 DEF InCall, Faults
  <2>. QED
    BY <1>1, <1>2, <1>5, <2>1, <2>2, FaultFacts DEF FaultKnown
<1>. QED
  BY <1>3, <1>4, <1>5, FaultControlStep

\* The answer being made stays the product of the operands packed.
LEMMA AnsweringStep ==
  ASSUME OneCpu, RInv, InCall, FaultKnown, Answering,
         Step(self) \/ Isr \/ TimerFires, UNCHANGED ctl
  PROVE  Answering'
<1>. TypeOK /\ LockInv /\ IInv
  BY DEF RInv, IInv, Base
<1>1. /\ Running' <=> Running
      /\ m' = m
  BY SameCommand
<1>. SUFFICES ASSUME Running PROVE Answering'
  BY <1>1 DEF Answering
<1>. USE SelfFacts
<1>2. CASE TimerFires
  <2>1. UNCHANGED <<pc, req, out>>
    BY <1>2, MachineKeeps
  <2>2. dev'.result.flipped => dev.fault_control = FaultType.corrupt_result
    BY <1>2, TimerOutcome DEF TimerFires, TypeOK
  <2>3. dev.fault_control \in {{}, m.fault_mask}
    BY OneKind DEF FaultKnown
  <2>. QED
    BY <1>1, <2>1, <2>2, <2>3 DEF Answering, FaultType
<1>3. CASE Isr
  <2>1. UNCHANGED <<pc, req, out>>
    BY <1>3, MachineKeeps
  <2>2. dev'.status = dev.status /\ dev'.result = dev.result
    BY <1>3, AckEffect
    DEF Isr, IsrRead, IsrAck, IsrErrorCode, IsrFlag, IsrComplete, TypeOK
  <2>. QED
    BY <1>1, <2>1, <2>2 DEF Answering
<1>4. CASE Step(self)
  <2>1. (RunStep(self) \/ CopyOut(self)) /\ UNCHANGED req
    BY <1>4, StepOf, StepPlaces, OneKind
  <2>2. pc[self] \in RunHeld => Stage(self) /\ out[self] = NoOutcome
    BY DEF RInv, OneInv, LockInv, LockDiscipline, Held, Unanswered
  <2>. USE DEF Goto, TypeOK, RunHeld, Flying, Waiting, Told, Programming
  <2>3. CASE \/ RunLock(self) \/ RunAck(self) \/ RunEnable(self) \/ RunInput(self)
             \/ RunLength(self) \/ RunBadLength(self)
    <3>1. ~RunBadLength(self) /\ pc'[self] \notin Flying \cup {"copy_out", "idle", "run_clear"}
      BY <2>3 DEF RunLock, RunAck, RunEnable, RunInput, RunLength, RunBadLength,
                  LockInv
    <3>. QED
      BY <1>1, <3>1 DEF Answering
  <2>4. CASE RunStart(self)
    <3>1. dev.status \in {"IDLE", "ERROR"} /\ pc'[self] = "run_count"
      BY <2>2, <2>4 DEF RunStart, Stage, Rest
    <3>2. dev'.status # "DONE"
      BY <2>4, <3>1, StartEffect DEF RunStart
    <3>. QED
      BY <1>1, <3>1, <3>2 DEF Answering
  <2>5. CASE RunCount(self) \/ RunWaitCompleted(self) \/ RunWaitTimeout(self)
    BY <1>1, <2>5 DEF RunCount, RunWaitCompleted, RunWaitTimeout, Answering
  <2>6. CASE RunTimedOut(self)
    <3>1. pc'[self] = "copy_out" /\ out'[self].code = "ETIMEDOUT"
      BY <2>6 DEF RunTimedOut, Outcome
    <3>. QED
      BY <1>1, <3>1 DEF Answering
  <2>7. CASE RunWoken(self)
    BY <1>1, <2>7 DEF RunWoken, Answering
  <2>8. CASE RunError(self)
    <3>1. pc'[self] = "run_clear" /\ out'[self].code = Errno(device_error)
      BY <2>8 DEF RunError, Outcome
    <3>2. Errno(device_error) # "OK"
      BY DEF Errno
    <3>. QED
      BY <1>1, <3>1, <3>2 DEF Answering
  <2>9. CASE RunClear(self)
    BY <1>1, <2>9 DEF RunClear, Answering
  <2>10. CASE RunResult(self)
    <3>1. pc[self] = "run_result" /\ pc'[self] = "copy_out"
      BY <2>10 DEF RunResult
    <3>2. dev.status = "DONE"
      BY <2>2, <3>1 DEF Stage, Over
    <3>3. req[self].vector_length = 8
      BY <3>1, RequestFacts DEF InCall, Running
    <3>4. dev.result.of = [i \in WordsOf(8) |-> req[self].input[i]]
      BY <2>2, <3>1, <3>2, <3>3 DEF Stage, Operands
    <3>5. out'[self].result = dev.result /\ out'[self].driver_status = "OK"
      BY <2>2, <2>10, <3>1 DEF RunResult, NoOutcome
    <3>6. dev.result.flipped => m.fault_mask = FaultType.corrupt_result
      BY <3>1, <3>2 DEF Answering
    <3>. QED
      BY <1>1, <2>1, <3>1, <3>4, <3>5, <3>6 DEF Answering
  <2>11. CASE CopyOut(self)
    <3>1. pc[self] = "copy_out" /\ pc'[self] = "idle"
      BY <2>11 DEF CopyOut
    <3>2. /\ out'[self].code \in {out[self].code, "EFAULT"}
          /\ out'[self].driver_status = out[self].driver_status
          /\ out'[self].result = out[self].result
      BY <2>11 DEF CopyOut, Outcome
    <3>. QED
      BY <1>1, <2>1, <3>1, <3>2 DEF Answering
  <2>. QED
    BY <2>1, <2>3, <2>4, <2>5, <2>6, <2>7, <2>8, <2>9, <2>10, <2>11 DEF RunStep
<1>. QED
  BY <1>2, <1>3, <1>4

\* No step of the driver refuses: an error a call reports is the forced one.
LEMMA AcceptedStep ==
  ASSUME OneCpu, RInv, HalRequestsAccepted, Step(self) \/ Isr \/ TimerFires
  PROVE  HalRequestsAccepted'
<1>. TypeOK /\ LockInv
  BY DEF RInv, IInv, Base
<1>. USE SelfFacts DEF TypeOK, Goto, HwRead
<1>1. CASE Isr \/ TimerFires
  BY <1>1, MachineKeeps DEF HalRequestsAccepted
<1>2. CASE RunError(self)
  <2>1. device_error = "FORCED"
    BY <1>2 DEF RunError, RInv, OneInv, Reports, Calm, Reporting
  <2>2. out'[self].code = Errno(device_error)
    BY <1>2 DEF RunError, Outcome
  <2>. QED
    BY <2>1, <2>2 DEF Errno, HalRequestsAccepted
<1>3. CASE RunStep(self) /\ ~RunError(self)
  <2>1. ~RunBadLength(self)
    BY DEF RunBadLength, LockInv
  <2>. QED
    BY <1>3, <2>1
    DEF RunStep, RunLock, RunAck, RunEnable, RunInput, RunLength, RunStart,
        RunCount, RunWaitCompleted, RunWaitTimeout, RunTimedOut, RunWoken, RunClear,
        RunResult, HalRequestsAccepted, Outcome
<1>4. CASE ResetStep(self)
  BY <1>4 DEF ResetStep, ResetLock, HwDisable, HwReset, HwAck, HwStatus,
              HwIrqStatus, HwErrorCode, HalRequestsAccepted, Outcome
<1>5. CASE SetFaultWrite(self) \/ GetStatRead(self) \/ CopyOut(self)
  BY <1>5 DEF SetFaultWrite, GetStatRead, CopyOut, HalRequestsAccepted, Outcome
<1>. QED
  BY <1>1, <1>2, <1>3, <1>4, <1>5 DEF Step

LEMMA CtlMachineStep ==
  ASSUME OneCpu, RInv, CtlInv, (Step(self) \/ Isr \/ TimerFires) /\ UNCHANGED ctl
  PROVE  CtlInv'
<1>. TypeOK /\ LockInv
  BY DEF RInv, IInv, Base
<1>1. InCall' /\ FaultKnown' /\ Answering' /\ HalRequestsAccepted'
  BY InCallStep, FaultKnownStep, AnsweringStep, AcceptedStep DEF CtlInv
<1>2. MockOK' /\ ReplyIsProduct'
  BY DEF CtlInv, ctl, MockOK, ReplyIsProduct
<1>. QED
  BY <1>1, <1>2 DEF CtlInv
----------------------------------------------------------------------------
\* A command line that reaches the driver enters an ioctl there, with arguments
\* that pass its validation.
Begins(c) ==
  /\ cmd = NoCommand /\ cmd' = c /\ ~ArgumentError(c) /\ ~Rejected(c)
  /\ UNCHANGED <<reply, m, trouble, dev, driver, mutex, isr>>
  /\ out'[self] = NoOutcome
  /\ \/ /\ c.command = "run-dot" /\ pc'[self] = "run_lock"
        /\ req'[self] = BuildRequest(A(c), B(c), c.timeout_ms)
     \/ /\ c.command \in {"inject-fault", "clear-faults"}
        /\ pc'[self] = "fault_write"
        /\ FaultOf(c) \in DOMAIN FaultType
        /\ mask'[self] = FaultType[FaultOf(c)]
     \/ c.command = "reset" /\ pc'[self] = "reset_lock"
     \/ /\ c.command = "stats" /\ pc'[self] = "stat_read"
        /\ word'[self] = 1 /\ snap'[self] = ZeroStats

LEMMA CallBegins ==
  ASSUME TypeOK, NEW c \in CommandLine,
         CtlRunDot(c) \/ CtlSetFault(c) \/ CtlReset(c) \/ CtlStats(c)
  PROVE  Begins(c)
<1>. USE DEF Begins
<1>. USE SelfFacts DEF TypeOK, Enter, Goto, Reaches
<1>1. CASE CtlRunDot(c)
  <2>1. ~ArgumentError(c) /\ ~Rejected(c) /\ c.command = "run-dot"
    BY <1>1 DEF CtlRunDot
  <2>2. ValidRequest(BuildRequest(A(c), B(c), c.timeout_ms))
    BY <2>1, RequestFacts
  <2>3. PICK r \in Request :
          /\ req' = [req EXCEPT ![self] = r]
          /\ IF ValidRequest(r)
             THEN Enter(self, "run_lock") /\ out' = [out EXCEPT ![self] = NoOutcome]
             ELSE /\ Enter(self, "idle")
                  /\ out' = [out EXCEPT ![self] = [NoOutcome EXCEPT !.code = "EINVAL"]]
    BY <1>1 DEF CtlRunDot, RunDot
  <2>4. r = BuildRequest(A(c), B(c), c.timeout_ms)
    BY <1>1, <2>3 DEF CtlRunDot
  <2>. QED
    BY <1>1, <2>1, <2>2, <2>3, <2>4 DEF CtlRunDot, RunDot
<1>2. CASE CtlSetFault(c)
  <2>1. /\ ~ArgumentError(c) /\ ~Rejected(c)
        /\ \/ c.command = "clear-faults"
           \/ c.command = "inject-fault" /\ IsFaultName(c.fault)
    BY <1>2 DEF CtlSetFault
  <2>2. FaultOf(c) \in DOMAIN FaultType /\ FaultType[FaultOf(c)] \in Faults
    BY <2>1, FaultOfFacts
  <2>3. ValidMask(FaultType[FaultOf(c)])
    BY <2>2, FaultFacts
  <2>4. PICK f \in FaultMask :
          /\ mask' = [mask EXCEPT ![self] = f]
          /\ IF ValidMask(f)
             THEN Enter(self, "fault_write") /\ out' = [out EXCEPT ![self] = NoOutcome]
             ELSE /\ Enter(self, "idle")
                  /\ out' = [out EXCEPT ![self] = [NoOutcome EXCEPT !.code = "EINVAL"]]
    BY <1>2 DEF CtlSetFault, SetFault
  <2>5. f = FaultType[FaultOf(c)]
    BY <1>2, <2>4 DEF CtlSetFault
  <2>. QED
    BY <1>2, <2>1, <2>2, <2>3, <2>4, <2>5 DEF CtlSetFault, SetFault
<1>3. CASE CtlReset(c)
  BY <1>3 DEF CtlReset, Reset, Rejected
<1>4. CASE CtlStats(c)
  BY <1>4 DEF CtlStats, GetStat
<1>. QED
  BY <1>1, <1>2, <1>3, <1>4

LEMMA CtlCallStep ==
  ASSUME RInv, CtlInv, NEW c \in CommandLine,
         CtlRunDot(c) \/ CtlSetFault(c) \/ CtlReset(c) \/ CtlStats(c)
  PROVE  CtlInv'
<1>. TypeOK
  BY DEF RInv, IInv, Base
<1>1. Begins(c)
  BY CallBegins
<1>. USE DEF Begins
<1>2. c # NoCommand
  BY CommandLineAssumption
<1>3. InCall'
  BY <1>1, <1>2 DEF InCall, Running, Injecting, Resets, Asking, RunHeld, ResetHeld
<1>4. MockOK' /\ ReplyIsProduct'
  BY <1>1 DEF CtlInv, MockOK, ReplyIsProduct
<1>5. FaultKnown'
  <2>1. dev.fault_control \in {{}, m.fault_mask}
    BY <1>1 DEF CtlInv, FaultKnown, Injecting
  <2>. QED
    BY <1>1, <1>2, <2>1 DEF FaultKnown, Injecting, Resets
<1>6. Answering' /\ HalRequestsAccepted'
  BY <1>1, <1>2
  DEF Answering, HalRequestsAccepted, NoOutcome, Running, Flying, Waiting, Told
<1>. QED
  BY <1>3, <1>4, <1>5, <1>6 DEF CtlInv

\* What the return of each kind of call leaves.
LEMMA CommandKinds ==
  ASSUME NEW commands, Returns(commands)
  PROVE  /\ cmd # NoCommand /\ cmd.command \in commands /\ pc[self] = "idle"
         /\ cmd' = NoCommand
         /\ UNCHANGED <<dev, pc, req, mask, out, snap, stats, driver>>
         /\ ~Running' /\ ~Injecting' /\ ~Resets' /\ ~Asking'
BY DEF Returns, vars, driver, Running, Injecting, Resets, Asking

\* After a return, what is left of the invariant: the mock, the fault, the reply.
LEMMA ReturnRest ==
  ASSUME CtlInv, NEW commands, Returns(commands),
         MockOK', dev.fault_control \in {{}, m'.fault_mask}, ReplyIsProduct'
  PROVE  CtlInv'
<1>1. HalRequestsAccepted'
  BY CommandKinds DEF CtlInv, HalRequestsAccepted
<1>2. InCall' /\ Answering' /\ FaultKnown'
  BY CommandKinds DEF InCall, Answering, FaultKnown
<1>. QED
  BY <1>1, <1>2 DEF CtlInv

LEMMA MockCounts ==
  ASSUME MockOK, NEW f \in StatField, NEW g \in StatField, f # g
  PROVE  LET counted == [m EXCEPT !.stats[f] = @ + 1, !.stats[g] = @ + 1]
         IN  /\ counted \in [fault_mask : Faults, stats : [StatField -> Nat]]
             /\ counted.fault_mask = m.fault_mask
<1>. DEFINE u == [m.stats EXCEPT ![f] = @ + 1, ![g] = @ + 1]
<1>1. m.stats \in [StatField -> Nat] /\ m.fault_mask \in Faults
  BY DEF MockOK
<1>2. u \in [StatField -> Nat]
  BY <1>1
<1>3. [m EXCEPT !.stats[f] = @ + 1, !.stats[g] = @ + 1] = [m EXCEPT !.stats = u]
  BY <1>1 DEF MockOK
<1>. HIDE DEF u
<1>. QED
  BY <1>1, <1>2, <1>3 DEF MockOK

LEMMA EndFacts == \A f : MockEnd(f) \in StatField \ {"submitted"}
BY DEF MockEnd, StatField

LEMMA RunDotReturnsStep ==
  ASSUME RInv, CtlInv, RunDotReturns
  PROVE  CtlInv'
<1>. TypeOK
  BY DEF RInv, IInv, Base
<1>1. /\ Running /\ pc[self] = "idle" /\ Returns({"run-dot"})
      /\ cmd \in CommandLine /\ ~ArgumentError(cmd) /\ ~Rejected(cmd)
      /\ cmd.command = "run-dot"
  BY DEF RunDotReturns, Returns, Running, CtlInv, InCall
<1>2. m' = [m EXCEPT !.stats["submitted"] = @ + 1, !.stats[MockEnd(m.fault_mask)] = @ + 1]
  BY <1>1 DEF RunDotReturns, MockAfterRunDot, Rejected
<1>3. MockOK' /\ m'.fault_mask = m.fault_mask
  <2>1. MockEnd(m.fault_mask) \in StatField \ {"submitted"} /\ "submitted" \in StatField
    BY EndFacts DEF StatField
  <2>. QED
    BY <1>2, <2>1, MockCounts DEF CtlInv, MockOK
<1>4. dev.fault_control \in {{}, m'.fault_mask}
  BY <1>1, <1>3, OneKind DEF CtlInv, FaultKnown
<1>5. ReplyIsProduct'
  <2>1. reply'.to = cmd /\ reply'.real = LinuxRunDot(out[self])
    BY DEF RunDotReturns, Answer
  <2>. SUFFICES ASSUME LinuxRunDot(out[self]).status = "success"
                PROVE  LET product == MockDot(A(cmd), B(cmd))
                           value == LinuxRunDot(out[self]).value.result
                       IN  \/ value = product
                           \/ /\ m.fault_mask = FaultType.corrupt_result
                              /\ value = FlipLowBit(product)
    BY <1>3, <2>1 DEF ReplyIsProduct
  <2>2. out[self].code = "OK"
    <3>1. out[self].code \in Code
      BY SelfFacts DEF TypeOK, Outcome
    <3>2. out[self].code \notin {"ETIMEDOUT", "EFAULT", "EIO"}
      BY DEF LinuxRunDot, Thrown
    <3>. QED
      BY <3>1, <3>2 DEF Code, CtlInv, HalRequestsAccepted
  <2>3. LinuxRunDot(out[self]).value.result = ResultValue(out[self].result)
    BY <2>2 DEF LinuxRunDot, DotReply, Returned
  <2>4. /\ out[self].result.of = [i \in WordsOf(8) |-> req[self].input[i]]
        /\ out[self].result.flipped => m.fault_mask = FaultType.corrupt_result
    BY <1>1, <2>2 DEF CtlInv, Answering
  <2>5. req[self].input = BuildInput(A(cmd), B(cmd))
    BY <1>1, RequestFacts DEF CtlInv, InCall
  <2>6. DotProductOf(out[self].result.of) = MockDot(A(cmd), B(cmd))
    BY <1>1, <2>4, <2>5, RequestFacts, SameProduct
  <2>. QED
    BY <2>3, <2>4, <2>6 DEF ResultValue
<1>. QED
  BY <1>1, <1>3, <1>4, <1>5, ReturnRest

\* A command other than run-dot prints no product.
LEMMA OtherReply ==
  ASSUME reply'.to = NoCommand \/ reply'.to.command # "run-dot"
  PROVE  ReplyIsProduct'
BY DEF ReplyIsProduct

LEMMA OtherReturnsStep ==
  ASSUME CtlInv, SetFaultReturns \/ ResetReturns \/ StatsReturns
  PROVE  CtlInv'
<1>1. m.fault_mask \in Faults /\ m.stats \in [StatField -> Nat]
  BY DEF CtlInv, MockOK
<1>2. CASE SetFaultReturns
  <2>1. Injecting /\ Returns({"inject-fault", "clear-faults"}) /\ pc[self] = "idle"
    BY <1>2 DEF SetFaultReturns, Returns, Injecting
  <2>2. /\ FaultOf(cmd) \in DOMAIN FaultType
        /\ dev.fault_control = FaultType[FaultOf(cmd)]
    BY <2>1 DEF CtlInv, InCall, FaultKnown
  <2>3. MockOK' /\ m'.fault_mask = FaultType[FaultOf(cmd)]
    BY <1>1, <1>2, <2>2 DEF SetFaultReturns, MockAfterSetFault, CtlInv, MockOK, Faults
  <2>4. ReplyIsProduct'
    BY <1>2, <2>1, OtherReply DEF SetFaultReturns, Answer, Injecting
  <2>. QED
    BY <2>1, <2>2, <2>3, <2>4, ReturnRest
<1>3. CASE ResetReturns
  <2>1. Resets /\ Returns({"reset"}) /\ pc[self] = "idle"
    BY <1>3 DEF ResetReturns, Returns, Resets
  <2>2. dev.fault_control = {}
    BY <2>1, OneKind DEF CtlInv, FaultKnown
  <2>3. MockOK' /\ m'.fault_mask = {}
    <3>1. [m.stats EXCEPT !["resets"] = @ + 1] \in [StatField -> Nat]
      BY <1>1 DEF StatField
    <3>2. {} \in Faults
      BY FaultFacts
    <3>. QED
      BY <1>3, <3>1, <3>2 DEF ResetReturns, MockAfterReset, CtlInv, MockOK, FaultType
  <2>4. ReplyIsProduct'
    BY <1>3, <2>1, OtherReply DEF ResetReturns, Answer, Resets
  <2>. QED
    BY <2>1, <2>2, <2>3, <2>4, ReturnRest
<1>4. CASE StatsReturns
  <2>1. Asking /\ Returns({"stats"}) /\ pc[self] = "idle" /\ m' = m
    BY <1>4 DEF StatsReturns, Returns, Asking
  <2>2. dev.fault_control \in {{}, m'.fault_mask}
    BY <2>1, OneKind DEF CtlInv, FaultKnown
  <2>3. MockOK'
    BY <2>1 DEF CtlInv, MockOK
  <2>4. ReplyIsProduct'
    BY <1>4, <2>1, OtherReply DEF StatsReturns, Answer, Asking
  <2>. QED
    BY <2>1, <2>2, <2>3, <2>4, ReturnRest
<1>. QED
  BY <1>2, <1>3, <1>4

LEMMA LocalStep ==
  ASSUME CtlInv, NEW c \in CommandLine, Local(c)
  PROVE  CtlInv'
<1>1. UNCHANGED <<vars, cmd, m, trouble>>
  BY DEF Local
<1>2. InCall' /\ MockOK' /\ FaultKnown' /\ Answering' /\ HalRequestsAccepted'
  BY <1>1 DEF vars, CtlInv, InCall, MockOK, FaultKnown, Answering,
     HalRequestsAccepted, Running, Injecting, Resets, Asking
<1>3. ReplyIsProduct'
  <2>1. /\ reply'.to = c
        /\ reply'.real.status = "error" \/ c.command # "run-dot"
    <3>1. ASSUME NEW type, NEW what
          PROVE  Thrown(type, what, "OK").status = "error"
      BY DEF Thrown
    <3>2. \E exit, real, mock :
            /\ Answer(c, exit, real, mock)
            /\ real.status = "error" \/ c.command # "run-dot"
      BY <3>1 DEF Local
    <3>. QED
      BY <3>2 DEF Answer
  <2>. QED
    BY <2>1 DEF ReplyIsProduct
<1>. QED
  BY <1>2, <1>3 DEF CtlInv

LEMMA CtlStep == OneCpu /\ RInv /\ CtlInv /\ [CtlNext]_ctlVars => CtlInv'
<1>. SUFFICES ASSUME OneCpu, RInv, CtlInv, [CtlNext]_ctlVars PROVE CtlInv'
  OBVIOUS
<1>1. CASE UNCHANGED ctlVars
  BY <1>1 DEF ctlVars, ctl, vars, CtlInv, InCall, MockOK, FaultKnown, Answering,
     HalRequestsAccepted, ReplyIsProduct, Running, Injecting, Resets, Asking
<1>2. CASE CtlNext
  BY <1>2, LocalStep, CtlCallStep, RunDotReturnsStep, OtherReturnsStep,
     CtlMachineStep DEF CtlNext
<1>. QED
  BY <1>1, <1>2

LEMMA InitCtl == CtlInit => CtlInv
<1>. SUFFICES ASSUME CtlInit PROVE CtlInv
  OBVIOUS
<1>1. MockOK
  BY FaultFacts, CleanLocals DEF CtlInit, MockInit, MockOK
<1>. QED
  BY <1>1, SelfFacts
  DEF CtlInit, Init, CtlInv, InCall, FaultKnown, Answering, HalRequestsAccepted,
      ReplyIsProduct, Running, Injecting, Resets, Asking, RegisterInit, NoOutcome,
      Silence

LEMMA SpecCtlInv ==
  ASSUME OneCpu
  PROVE  CtlSpec => []CtlInv
BY CtlSpecRInv, InitCtl, CtlStep, PTL DEF CtlSpec

\* vnpuctl is one thread, so that of the two ways to OneCpu either is enough: no
\* forced error, or no timeout that expires while one may be under way.
LEMMA NoRaceOneCpu ==
  ASSUME VecLenSet, ~Smp,
         \/ \A bits \in FaultMask : FAULT_FORCE_ERROR \notin bits
         \/ \A r \in Request : ValidRequest(r) => r.timeout_ms > DOT_LATENCY_MS
  PROVE  OneCpu
BY SelfFacts DEF OneCpu, Unforced, Lone, LongTimeouts

\* On one CPU and with vec_len set, the driver refuses none of the calls the HAL
\* makes, for all command lines without force-error, and for all whose timeouts
\* are longer than the 100 ms of the operation.  With both,
\* a valid run-dot can be answered EBUSY (see ReplyIsProduct).
THEOREM AllRequestsAccepted ==
  ASSUME VecLenSet, ~Smp,
         \/ \A bits \in FaultMask : FAULT_FORCE_ERROR \notin bits
         \/ \A r \in Request : ValidRequest(r) => r.timeout_ms > DOT_LATENCY_MS
  PROVE  CtlSpec => []HalRequestsAccepted
<1>1. CtlInv => HalRequestsAccepted
  BY DEF CtlInv
<1>. QED
  BY <1>1, NoRaceOneCpu, SpecCtlInv, PTL

\* On one CPU and with vec_len set, a success prints the dot product of the
\* operands on its command line, for all operands, and for all command lines
\* without force-error or with timeouts longer than the operation only.  With
\* both, vnpuctl can print success with a number nobody computed (see
\* ReplyIsProduct).  An injected corruption flips the low bit.
THEOREM RepliesAreProducts ==
  ASSUME VecLenSet, ~Smp,
         \/ \A bits \in FaultMask : FAULT_FORCE_ERROR \notin bits
         \/ \A r \in Request : ValidRequest(r) => r.timeout_ms > DOT_LATENCY_MS
  PROVE  CtlSpec => []ReplyIsProduct
<1>1. CtlInv => ReplyIsProduct
  BY DEF CtlInv
<1>. QED
  BY <1>1, NoRaceOneCpu, SpecCtlInv, PTL
----------------------------------------------------------------------------
\* The mock and the device, side by side.  On a line of its own and with user
\* memory that can be written, no completion is lost and no answer.
Undisturbed ==
  /\ VecLenSet /\ ~Smp /\ ~SharedLine /\ LongTimeouts
  /\ CopyOutcome \subseteq {TRUE}

\* How the next submission ends, by the mock.
Fate == MockEnd(m.fault_mask)

Plus(counters, f) == [counters EXCEPT ![f] = @ + 1]

\* The device between two run-dots, and what the counters of both sides say.
AtRest ==
  /\ dev.status = IF trouble = "error" THEN "ERROR" ELSE "IDLE"
  /\ stats = m.stats

\* The RESET after a timeout clears the fault of the device, not of the mock.
FaultSame == trouble \in {"none", "error"} => dev.fault_control = m.fault_mask

\* A completion of the operation in flight is under way to the thread.
Announced == done > 0 \/ isr.seen # {} \/ dev.irq_status # {}

\* The operation in flight takes the course of the mock's fault: it is stuck,
\* ends without a word, fails or ends, and is counted once.
Course ==
  /\ dev.fault_control = m.fault_mask
  /\ error_flag \/ dev.status = "ERROR" => Fate = "device_error"
  /\ dev.status = "DONE" =>
       /\ Fate # "device_error"
       /\ dev.result.flipped <=> m.fault_mask = FaultType.corrupt_result
  /\ dev.status = "BUSY" /\ ~dev.timer => Fate = "timed_out"
  /\ pc[self] \in Waiting /\ Fate = "timed_out" => ~Announced
  /\ pc[self] \in {"run_count", "run_wait"} /\ dev.status = "ERROR" => Announced
  /\ pc[self] = "run_timed_out" => Fate = "timed_out"
  /\ pc[self] \in Told => Fate # "timed_out"
  /\ LET begun == IF pc[self] = "run_count" THEN m.stats ELSE Plus(m.stats, "submitted")
     IN  stats = IF error_flag THEN Plus(begun, "device_error") ELSE begun

\* And has ended as the mock ends it.
Ended ==
  /\ stats = Plus(Plus(m.stats, "submitted"), Fate)
  /\ dev.status = IF Fate = "device_error" THEN "ERROR" ELSE "IDLE"
  /\ Fate # "timed_out" => dev.fault_control = m.fault_mask
  /\ pc[self] \in Reporting => Fate = "device_error"
  /\ pc[self] \in {"run_clear", "copy_out", "idle"} =>
       /\ out[self].code =
            CASE Fate = "timed_out" -> "ETIMEDOUT" [] Fate = "device_error" -> "EIO"
              [] OTHER -> "OK"
       /\ out[self].driver_status =
            CASE Fate = "timed_out" -> "TIMEOUT" [] Fate = "device_error" -> "DEVICE_ERROR"
              [] OTHER -> "OK"
       /\ Fate = "completed" =>
            (out[self].result.flipped <=> m.fault_mask = FaultType.corrupt_result)

AgreeRunning ==
  Running /\ ~Strays =>
    /\ pc[self] \in Programming \cup {"run_lock"} => AtRest /\ FaultSame
    /\ pc[self] \in Flying => Course
    /\ pc[self] \in Reporting \cup {"copy_out", "idle"} => Ended

\* Outside run-dot the device rests; a reset is counted when it ends.
AgreeResting ==
  /\ ~Running /\ ~(Resets /\ pc[self] # "reset_lock") => AtRest
  /\ ~Running /\ ~Resets /\ ~(Injecting /\ pc[self] # "fault_write") => FaultSame
  /\ Resets /\ pc[self] # "idle" => stats = m.stats
  /\ Resets /\ pc[self] = "idle" => stats = Plus(m.stats, "resets") /\ dev.status = "IDLE"

\* What the other calls will return.
AgreeOutcome ==
  /\ Injecting \/ Resets \/ Asking => out[self].code = "OK"
  /\ Asking /\ pc[self] = "stat_read" =>
       \A i \in 1..5 : i < word[self] => snap[self][StatOrder[i]] = stats[StatOrder[i]]
  /\ Asking /\ pc[self] # "stat_read" => snap[self] = stats

SameReply ==
  /\ reply.real.status = reply.mock.status
  /\ reply.real.status = "success" => reply.real.value = reply.mock.value

Agree ==
  /\ trouble \in {"none", "timeout", "error", "strayed"}
  /\ trouble # "strayed" => SameReply /\ AgreeRunning /\ AgreeResting /\ AgreeOutcome

CInv == RInv /\ CtlInv
----------------------------------------------------------------------------
LEMMA UndisturbedOneCpu == Undisturbed => OneCpu
BY SelfFacts DEF Undisturbed, OneCpu, Lone

\* What neither thread, handler nor timer touches.
LEMMA SameTrouble ==
  ASSUME UNCHANGED ctl
  PROVE  /\ trouble' = trouble
         /\ Strays' <=> Strays
         /\ Fate' = Fate
         /\ SameReply' <=> SameReply
BY DEF ctl, Strays, Fate, SameReply

\* Counting two different things, in either order.
LEMMA PlusFacts ==
  ASSUME NEW s \in [StatField -> Nat], NEW f \in StatField, NEW g \in StatField, f # g
  PROVE  /\ Plus(s, f) \in [StatField -> Nat]
         /\ Plus(Plus(s, f), g) = Plus(Plus(s, g), f)
<1>1. Plus(s, f) \in [StatField -> Nat] /\ Plus(s, g) \in [StatField -> Nat]
  BY DEF Plus
<1>2. /\ Plus(Plus(s, f), g) \in [StatField -> Nat]
      /\ Plus(Plus(s, g), f) \in [StatField -> Nat]
  BY <1>1 DEF Plus
<1>3. \A h \in StatField : Plus(Plus(s, f), g)[h] = Plus(Plus(s, g), f)[h]
  BY DEF Plus
<1>. QED
  BY <1>1, <1>2, <1>3

LEMMA CountPlus ==
  ASSUME NEW f, Count(f)
  PROVE  stats' = Plus(stats, f)
BY DEF Count, Plus

\* Between the flights neither the handler nor the timer has anything to do.
LEMMA Quiet ==
  ASSUME Undisturbed, RInv, pc[self] \notin Flying
  PROVE  /\ ~Isr /\ ~TimerFires
         /\ Rest
<1>. TypeOK /\ Calm /\ LineSound(dev)
  BY DEF RInv, IInv, Base, OneInv, Sound
<1>1. Rest
  <2>1. mutex \in Thread \cup {NoThread}
    BY DEF TypeOK
  <2>. QED
    BY <2>1, SelfFacts DEF RInv, OneInv, Free, Stage
<1>2. isr.pc = "idle" /\ ~dev.irq_line
  BY <1>1 DEF Undisturbed, Calm, Rest, TypeOK, LineSound
<1>. QED
  BY <1>1, <1>2 DEF Undisturbed, Rest, TimerFires, Isr, IsrRead, IsrAck,
                    IsrErrorCode, IsrFlag, IsrComplete

\* The timer ends the operation as the mock's fault has it.
LEMMA TimerAgrees ==
  ASSUME Undisturbed, CInv, Running, ~Strays, Course, pc[self] \in Flying,
         TimerFires, UNCHANGED ctl
  PROVE  Course'
<1>. /\ dev \in Device /\ dev.timer /\ dev.status = "BUSY"
     /\ UNCHANGED <<pc, done, isr, error_flag, stats, m>> /\ Fate' = Fate
  BY SameTrouble DEF CInv, RInv, IInv, Base, TypeOK, TimerMeansBusy, TimerFires,
                     driver, threads, ctl
<1>1. LET f == dev.fault_control
      IN  /\ dev'.fault_control = f
          /\ dev'.status = IF f = FaultType.stuck_busy THEN "BUSY"
                           ELSE IF f = FaultType.force_error THEN "ERROR" ELSE "DONE"
          /\ dev'.irq_status = {} <=> MockEnd(f) = "timed_out"
          /\ dev'.result.flipped <=> f = FaultType.corrupt_result
  BY TimerOutcome DEF TimerFires
<1>2. dev.fault_control = m.fault_mask
  BY DEF Course
<1>3. pc[self] \in Waiting /\ ~Announced /\ ~error_flag
  <2>1. Stage(self)
    BY SelfFacts DEF CInv, RInv, OneInv, LockInv, LockDiscipline, Flying, Waiting,
                     Told, Held, RunHeld
  <2>2. Calm
    BY DEF CInv, RInv, OneInv
  <2>3. pc[self] \in Waiting /\ Flight
    BY <2>1 DEF Stage, Over, Flying
  <2>. QED
    BY <2>3 DEF Flight, Announced
<1>4. /\ dev'.status = "BUSY" => Fate = "timed_out"
      /\ dev'.status = "ERROR" <=> Fate = "device_error"
      /\ dev'.irq_status = {} <=> Fate = "timed_out"
  BY <1>1, <1>2 DEF Fate, MockEnd, FaultType
<1>. QED
  BY <1>1, <1>2, <1>3, <1>4 DEF Course, Announced, Waiting, Told

\* The handler moves what is announced along, and counts an error once.
LEMMA HandlerAgrees ==
  ASSUME Undisturbed, CInv, Running, ~Strays, Course, pc[self] \in Flying,
         Isr, UNCHANGED ctl
  PROVE  Course'
<1>. /\ dev \in Device /\ LineSound(dev) /\ Calm /\ done \in Nat
     /\ isr \in [pc : {"idle", "ack", "error", "flag", "complete"}, seen : SUBSET IrqBit]
     /\ UNCHANGED <<pc, m>> /\ Fate' = Fate
  BY MachineKeeps, SameTrouble
  DEF CInv, RInv, IInv, Base, TypeOK, Sound, OneInv, ctl
<1>1. Stage(self)
  BY SelfFacts DEF CInv, RInv, OneInv, LockInv, LockDiscipline, Flying, Waiting,
                   Told, Held, RunHeld
<1>2. CASE IsrRead
  <2>1. UNCHANGED <<dev, done, error_flag, stats>>
    BY <1>2 DEF IsrRead, driver
  <2>2. isr.seen = {} /\ isr'.seen = dev.irq_status
    BY <1>2 DEF IsrRead, Calm
  <2>3. Announced' <=> Announced
    BY <2>1, <2>2 DEF Announced
  <2>. QED
    BY <2>1, <2>3 DEF Course
<1>3. CASE IsrAck
  <2>1. UNCHANGED <<done, error_flag, stats>> /\ isr'.seen = isr.seen
    BY <1>3 DEF IsrAck, driver
  <2>2. /\ dev'.status = dev.status /\ dev'.timer = dev.timer
        /\ dev'.result = dev.result /\ dev'.fault_control = dev.fault_control
    BY <1>3, AckEffect DEF IsrAck
  <2>3. isr.seen # {}
    BY <1>3 DEF IsrAck, Calm, Undisturbed
  <2>4. Announced' /\ Announced
    BY <2>1, <2>3 DEF Announced
  <2>. QED
    BY <2>1, <2>2, <2>4 DEF Course
<1>4. CASE IsrErrorCode \/ IsrComplete
  <2>1. UNCHANGED <<dev, error_flag, stats>>
    BY <1>4 DEF IsrErrorCode, IsrComplete
  <2>2. isr.seen # {}
    BY <1>4 DEF IsrErrorCode, IsrComplete, Calm
  <2>3. isr'.seen # {} \/ done' > 0
    BY <1>4, <2>2 DEF IsrErrorCode, IsrComplete
  <2>4. Announced' /\ Announced
    BY <2>2, <2>3 DEF Announced
  <2>. QED
    BY <2>1, <2>4 DEF Course
<1>5. CASE IsrFlag
  <2>1. UNCHANGED <<dev, done>> /\ error_flag' /\ isr'.seen = isr.seen
        /\ stats' = Plus(stats, "device_error")
    BY <1>5, CountPlus DEF IsrFlag
  <2>2. isr.seen = {"ERROR"}
    BY <1>5 DEF IsrFlag, Calm
  <2>3. dev.status = "ERROR" /\ ~error_flag
    BY <1>1, <1>5, <2>2 DEF Calm, Stage, Flight, Over, Flying, IsrFlag
  <2>4. Announced' /\ Announced
    BY <2>1, <2>2 DEF Announced
  <2>. QED
    BY <2>1, <2>3, <2>4 DEF Course
<1>. QED
  BY <1>2, <1>3, <1>4, <1>5 DEF Isr

\* What the thread's stage of RUN_DOT says, where it has one.
LEMMA OwnStage ==
  ASSUME CInv, pc[self] \in RunHeld
  PROVE  /\ mutex = self /\ Stage(self) /\ out[self] = NoOutcome /\ Calm
         /\ IInv /\ TypeOK /\ dev \in Device /\ LineSound(dev)
BY SelfFacts DEF CInv, RInv, IInv, Base, TypeOK, Sound, OneInv, LockInv,
                 LockDiscipline, Held, Unanswered

\* Programming the device changes nothing the two sides share.
LEMMA ProgramAgrees ==
  ASSUME Undisturbed, CInv, AtRest, FaultSame, UNCHANGED ctl,
         \/ RunLock(self) \/ RunAck(self) \/ RunEnable(self) \/ RunInput(self)
         \/ RunLength(self)
  PROVE  AtRest' /\ FaultSame' /\ pc'[self] \in Programming
<1>. TypeOK /\ LockInv /\ LoopsInRange /\ Validated
  BY DEF CInv, RInv, IInv, Base
<1>. USE SelfFacts DEF TypeOK, Goto
<1>1. UNCHANGED stats /\ trouble' = trouble /\ m' = m
  BY DEF RunLock, RunAck, RunEnable, RunInput, RunLength, driver, ctl
<1>2. dev'.status = dev.status /\ dev'.fault_control = dev.fault_control
  <2>1. CASE RunLength(self)
    <3>1. req[self].vector_length \in SupportedLen
      BY <2>1 DEF RunLength, Validated, RunHeld, ValidRequest
    <3>. QED
      BY <2>1, <3>1, LengthEffect DEF RunLength
  <2>2. CASE RunLock(self) \/ RunAck(self) \/ RunEnable(self)
    BY <2>2, AckEffect, EnableEffect DEF RunLock, RunAck, RunEnable
  <2>3. CASE RunInput(self)
    BY <2>3 DEF RunInput, WriteInput, Device
  <2>. QED
    BY <2>1, <2>2, <2>3
<1>3. pc'[self] \in Programming
  <2>1. pc'[self] # "run_bad_length"
    <3>1. RunEnable(self) => VecLen(req[self]) \in {8, 16}
      BY OwnerRequest, UndisturbedOneCpu DEF RunEnable, RunHeld, CInv, RInv
    <3>. QED
      BY <3>1 DEF RunLock, RunAck, RunEnable, RunInput, RunLength
  <2>. QED
    BY <2>1 DEF RunLock, RunAck, RunEnable, RunInput, RunLength, Programming
<1>. QED
  BY <1>1, <1>2, <1>3 DEF AtRest, FaultSame

\* START, on an idle device or one whose forced error is still there.
LEMMA StartAgrees ==
  ASSUME Undisturbed, CInv, trouble \in {"none", "timeout", "error"}, ~Strays,
         AtRest, FaultSame, UNCHANGED ctl, RunStart(self)
  PROVE  Course' /\ pc'[self] = "run_count"
<1>1. /\ pc[self] = "run_start" /\ pc'[self] = "run_count"
      /\ UNCHANGED <<done, error_flag, stats, isr, m>> /\ Fate' = Fate
  BY SelfFacts, SameTrouble DEF RunStart, Goto, CInv, RInv, IInv, Base, TypeOK, driver, ctl
<1>2. Stage(self) /\ dev \in Device
  BY <1>1, OwnStage DEF RunHeld
<1>3. done = 0 /\ isr.seen = {} /\ dev.irq_status = {} /\ ~error_flag
  BY <1>1, <1>2 DEF Stage, Rest, Programming, Flying, Waiting, Told
<1>4. trouble \in {"none", "error"} /\ (trouble = "error" => Fate = "device_error")
  BY DEF Strays, Fate
<1>5. dev' = WriteControl(dev, {"START"}) /\ dev'.fault_control = m.fault_mask
  BY <1>2, <1>4, StartEffect DEF RunStart, FaultSame
<1>6. CASE trouble = "none"
  <2>1. dev'.status = "BUSY" /\ dev'.irq_status = {} /\ dev'.timer
    BY <1>2, <1>5, <1>6 DEF AtRest, WriteControl, StartAccepted, UpdateIrq, Device
  <2>. QED
    BY <1>1, <1>3, <1>5, <2>1 DEF Course, Announced, AtRest, Told
<1>7. CASE trouble = "error"
  <2>1. dev'.status = "ERROR" /\ dev'.irq_status # {}
    BY <1>2, <1>5, <1>7, StartEffect DEF AtRest
  <2>. QED
    BY <1>1, <1>3, <1>4, <1>5, <1>7, <2>1 DEF Course, Announced, AtRest, Told
<1>. QED
  BY <1>1, <1>4, <1>6, <1>7

\* The wait: only what is announced wakes the thread, and only an operation that
\* will never be announced times out.
LEMMA WaitAgrees ==
  ASSUME Undisturbed, CInv, ~Strays, Course, UNCHANGED ctl,
         \/ RunCount(self) \/ RunWaitCompleted(self) \/ RunWaitTimeout(self)
         \/ RunWoken(self) /\ ~error_flag
  PROVE  Course' /\ pc'[self] \in Flying
<1>. TypeOK
  BY DEF CInv, RInv, IInv, Base
<1>. USE SelfFacts DEF TypeOK, Goto
<1>0. m' = m /\ Fate' = Fate
  BY SameTrouble DEF ctl
<1>1. CASE RunCount(self)
  <2>1. /\ pc[self] = "run_count" /\ pc'[self] = "run_wait"
        /\ UNCHANGED <<dev, done, isr, error_flag>> /\ stats' = Plus(stats, "submitted")
    BY <1>1, CountPlus DEF RunCount
  <2>2. stats' = IF error_flag THEN Plus(Plus(m.stats, "submitted"), "device_error")
                 ELSE Plus(m.stats, "submitted")
    BY <2>1, PlusFacts DEF Course, CInv, CtlInv, MockOK, StatField
  <2>3. Announced' <=> Announced
    BY <2>1 DEF Announced
  <2>. QED
    BY <1>0, <2>1, <2>2, <2>3 DEF Course, Flying, Waiting, Told
<1>2. CASE RunWaitCompleted(self)
  <2>1. /\ pc[self] = "run_wait" /\ pc'[self] = "run_woken" /\ done > 0
        /\ UNCHANGED <<dev, isr, error_flag, stats>>
    BY <1>2 DEF RunWaitCompleted
  <2>2. Fate # "timed_out"
    BY <2>1 DEF Course, Announced, Waiting
  <2>. QED
    BY <1>0, <2>1, <2>2 DEF Course, Flying, Waiting, Told
<1>3. CASE RunWaitTimeout(self)
  <2>1. /\ pc[self] = "run_wait" /\ pc'[self] = "run_timed_out" /\ done = 0
        /\ UNCHANGED <<dev, isr, error_flag, stats, done>>
    BY <1>3 DEF RunWaitTimeout, driver
  <2>2. Stage(self) /\ Calm /\ LineSound(dev) /\ ValidRequest(req[self])
    BY <2>1, OwnStage DEF RunHeld, CInv, RInv, IInv, Validated
  <2>3. Silent
    <3>1. req[self] \in Request /\ req[self].timeout_ms \in Nat
      BY RequestAssumption DEF RequestType
    <3>2. req[self].timeout_ms > DOT_LATENCY_MS
      BY <2>2, <3>1 DEF Undisturbed, LongTimeouts
    <3>. QED
      BY <1>3, <3>1, <3>2 DEF RunWaitTimeout, DOT_LATENCY_MS
  <2>4. ~Announced /\ ~dev.timer
    <3>1. dev.irq_enable = IrqBit
      BY <2>1, <2>2 DEF Stage, Interrupts, Flying, Waiting
    <3>2. dev.irq_status \subseteq IrqBit
      BY DEF Device
    <3>3. dev.irq_status = {}
      BY <2>2, <2>3, <3>1, <3>2 DEF Silent, LineSound
    <3>. QED
      BY <2>1, <2>2, <2>3, <3>3 DEF Announced, Silent, Calm
  <2>5. Fate = "timed_out"
    <3>1. dev.status \in {"BUSY", "DONE", "ERROR"}
      BY <2>1, <2>2 DEF Stage, Flight, Waiting
    <3>2. dev.status # "ERROR"
      BY <2>1, <2>4 DEF Course
    <3>3. dev.status = "DONE" => FAULT_IRQ_DROP \in dev.fault_control
      BY <2>1, <2>2, <2>4 DEF Stage, Interrupts, Announced, Undisturbed
    <3>4. dev.status = "DONE" => m.fault_mask = FaultType.irq_drop
      BY <3>3, FaultFacts DEF Course, CInv, CtlInv, MockOK, FaultType, FAULT_IRQ_DROP
    <3>. QED
      BY <2>4, <3>1, <3>2, <3>4 DEF Course, Fate, MockEnd
  <2>6. Announced' <=> Announced
    BY <2>1 DEF Announced
  <2>. QED
    BY <1>0, <2>1, <2>4, <2>5, <2>6 DEF Course, Flying, Waiting, Told
<1>4. CASE RunWoken(self) /\ ~error_flag
  <2>1. /\ pc[self] = "run_woken" /\ pc'[self] = "run_result"
        /\ UNCHANGED <<dev, isr, error_flag, stats, done>>
    BY <1>4 DEF RunWoken, driver
  <2>. QED
    BY <1>0, <2>1 DEF Course, Flying, Waiting, Told
<1>. QED
  BY <1>1, <1>2, <1>3, <1>4

\* The end of the wait is the end the mock counts.
LEMMA EndAgrees ==
  ASSUME Undisturbed, CInv, ~Strays, Course, UNCHANGED ctl,
         RunTimedOut(self) \/ RunResult(self) \/ (RunWoken(self) /\ error_flag)
  PROVE  Ended' /\ pc'[self] \in Reporting \cup {"copy_out"}
<1>. TypeOK /\ dev \in Device
  BY DEF CInv, RInv, IInv, Base, TypeOK
<1>. USE SelfFacts DEF TypeOK, Goto
<1>0. m' = m /\ Fate' = Fate
  BY SameTrouble DEF ctl
<1>1. pc[self] \in RunHeld
  BY DEF RunTimedOut, RunResult, RunWoken, RunHeld
<1>2. Stage(self) /\ out[self] = NoOutcome
  BY <1>1, OwnStage
<1>3. CASE RunTimedOut(self)
  <2>1. /\ pc[self] = "run_timed_out" /\ pc'[self] = "copy_out"
        /\ dev' = WriteControl(dev, {"RESET"}) /\ stats' = Plus(stats, "timed_out")
        /\ out'[self].code = "ETIMEDOUT" /\ out'[self].driver_status = "TIMEOUT"
    BY <1>3, CountPlus DEF RunTimedOut, Outcome
  <2>2. Fate = "timed_out" /\ ~error_flag
    BY <1>2, <2>1 DEF Course, Stage, Missed
  <2>3. dev'.status = "IDLE"
    BY <2>1, ResetEffect
  <2>4. stats = Plus(m.stats, "submitted")
    BY <2>1, <2>2 DEF Course
  <2>. QED
    BY <1>0, <2>1, <2>2, <2>3, <2>4 DEF Ended, Reporting
<1>4. CASE RunResult(self)
  <2>1. /\ pc[self] = "run_result" /\ pc'[self] = "copy_out"
        /\ dev' = ReadResult(dev) /\ stats' = Plus(stats, "completed")
        /\ out'[self].result = dev.result
        /\ out'[self].code = "OK" /\ out'[self].driver_status = "OK"
    BY <1>2, <1>4, CountPlus DEF RunResult, NoOutcome
  <2>2. dev.status = "DONE" /\ ~error_flag
    BY <1>2, <2>1 DEF Stage, Over, Told
  <2>3. Fate = "completed"
    BY <2>1, <2>2 DEF Course, Told, Fate, MockEnd
  <2>4. dev'.status = "IDLE" /\ dev'.fault_control = m.fault_mask
    BY <2>1, <2>2, ReadEffect DEF Course
  <2>5. stats = Plus(m.stats, "submitted")
    BY <2>1, <2>2 DEF Course
  <2>. QED
    BY <1>0, <2>1, <2>2, <2>3, <2>4, <2>5 DEF Ended, Reporting, Course
<1>5. CASE RunWoken(self) /\ error_flag
  <2>1. /\ pc[self] = "run_woken" /\ pc'[self] = "run_error"
        /\ UNCHANGED <<dev, stats>>
    BY <1>5 DEF RunWoken, driver
  <2>2. dev.status = "ERROR"
    BY <1>2, <1>5, <2>1 DEF Stage, Over, Told
  <2>3. Fate = "device_error" /\ dev.fault_control = m.fault_mask
        /\ stats = Plus(Plus(m.stats, "submitted"), "device_error")
    BY <1>5, <2>1 DEF Course
  <2>. QED
    BY <1>0, <2>1, <2>2, <2>3 DEF Ended, Reporting
<1>. QED
  BY <1>3, <1>4, <1>5

\* User memory that can be written leaves the answer as it is.
LEMMA CopyKeeps ==
  ASSUME Undisturbed, TypeOK, CopyOut(self)
  PROVE  /\ pc[self] = "copy_out" /\ pc'[self] = "idle"
         /\ UNCHANGED <<dev, driver, snap>> /\ out'[self] = out[self]
<1>. USE SelfFacts
<1>1. PICK ok \in CopyOutcome :
        out' = [out EXCEPT ![self].code = IF ok THEN @ ELSE "EFAULT"]
  BY DEF CopyOut
<1>2. ok = TRUE
  BY <1>1 DEF Undisturbed
<1>3. out' = [out EXCEPT ![self] = [out[self] EXCEPT !.code = out[self].code]]
  BY <1>1, <1>2
<1>4. [out[self] EXCEPT !.code = out[self].code] = out[self]
  BY DEF TypeOK, Outcome
<1>5. out'[self] = out[self]
  BY <1>3, <1>4 DEF TypeOK
<1>. QED
  BY <1>5 DEF CopyOut, Goto, TypeOK, locals

\* Reporting a forced error, and copying out.
LEMMA ReportAgrees ==
  ASSUME Undisturbed, CInv, ~Strays, Ended, UNCHANGED ctl,
         RunError(self) \/ RunClear(self) \/ CopyOut(self)
  PROVE  Ended' /\ pc'[self] \in {"run_clear", "copy_out", "idle"}
<1>. TypeOK
  BY DEF CInv, RInv, IInv, Base
<1>. USE SelfFacts DEF TypeOK, Goto
<1>0. m' = m /\ Fate' = Fate
  BY SameTrouble DEF ctl
<1>1. CASE RunError(self)
  <2>1. /\ pc[self] = "run_error" /\ pc'[self] = "run_clear" /\ UNCHANGED <<dev, stats>>
        /\ out'[self].code = Errno(device_error)
        /\ out'[self].driver_status = "DEVICE_ERROR"
    BY <1>1 DEF RunError, Outcome, driver
  <2>2. device_error = "FORCED"
    BY <2>1 DEF CInv, RInv, OneInv, Reports, Calm, Reporting
  <2>3. out'[self].code = "EIO" /\ Fate = "device_error"
    BY <2>1, <2>2 DEF Errno, Ended, Reporting
  <2>. QED
    BY <1>0, <2>1, <2>3 DEF Ended
<1>2. CASE RunClear(self)
  <2>1. /\ pc[self] = "run_clear" /\ pc'[self] = "copy_out"
        /\ UNCHANGED <<dev, stats, out>>
    BY <1>2 DEF RunClear
  <2>. QED
    BY <1>0, <2>1 DEF Ended, Reporting
<1>3. CASE CopyOut(self)
  <2>1. /\ pc[self] = "copy_out" /\ pc'[self] = "idle"
        /\ UNCHANGED <<dev, driver, snap>> /\ out'[self] = out[self]
    BY <1>3, CopyKeeps
  <2>. QED
    BY <1>0, <2>1 DEF Ended, Reporting, driver
<1>. QED
  BY <1>1, <1>2, <1>3

\* A run-dot in step with the mock stays so.
LEMMA AgreeRunningStep ==
  ASSUME Undisturbed, CInv, trouble \in {"none", "timeout", "error"}, AgreeRunning,
         Step(self) \/ Isr \/ TimerFires, UNCHANGED ctl
  PROVE  AgreeRunning'
<1>. TypeOK /\ LockInv /\ InCall
  BY DEF CInv, RInv, IInv, Base, CtlInv
<1>1. (Running' <=> Running) /\ (Strays' <=> Strays)
  BY SameCommand, SameTrouble
<1>. SUFFICES ASSUME Running, ~Strays PROVE AgreeRunning'
  BY <1>1 DEF AgreeRunning
<1>. USE DEF Programming, Flying, Waiting, Told, Reporting
<1>2. CASE Isr \/ TimerFires
  <2>1. pc[self] \in Flying
    BY <1>2, Quiet DEF CInv
  <2>2. Course
    BY <2>1 DEF AgreeRunning
  <2>3. Course' /\ UNCHANGED pc
    BY <1>2, <2>1, <2>2, TimerAgrees, HandlerAgrees, MachineKeeps
  <2>. QED
    BY <2>1, <2>3 DEF AgreeRunning
<1>3. CASE Step(self)
  <2>1. RunStep(self) \/ CopyOut(self)
    BY <1>3, StepOf, OneKind
  <2>. USE DEF Goto, AgreeRunning
  <2>2. CASE \/ RunLock(self) \/ RunAck(self) \/ RunEnable(self) \/ RunInput(self)
             \/ RunLength(self)
    <3>1. AtRest /\ FaultSame
      BY <2>2 DEF RunLock, RunAck, RunEnable, RunInput, RunLength
    <3>2. AtRest' /\ FaultSame' /\ pc'[self] \in Programming
      BY <2>2, <3>1, ProgramAgrees
    <3>. QED
      BY <3>2
  <2>3. CASE RunStart(self)
    <3>1. AtRest /\ FaultSame
      BY <2>3 DEF RunStart
    <3>2. Course' /\ pc'[self] = "run_count"
      BY <2>3, <3>1, StartAgrees
    <3>. QED
      BY <3>2
  <2>4. CASE \/ RunCount(self) \/ RunWaitCompleted(self) \/ RunWaitTimeout(self)
             \/ RunWoken(self) /\ ~error_flag
    <3>1. Course
      BY <2>4 DEF RunCount, RunWaitCompleted, RunWaitTimeout, RunWoken
    <3>2. Course' /\ pc'[self] \in Flying
      BY <2>4, <3>1, WaitAgrees
    <3>. QED
      BY <3>2
  <2>5. CASE RunTimedOut(self) \/ RunResult(self) \/ (RunWoken(self) /\ error_flag)
    <3>1. Course
      BY <2>5 DEF RunTimedOut, RunResult, RunWoken
    <3>2. Ended' /\ pc'[self] \in Reporting \cup {"copy_out"}
      BY <2>5, <3>1, EndAgrees
    <3>. QED
      BY <3>2
  <2>6. CASE RunError(self) \/ RunClear(self) \/ CopyOut(self)
    <3>1. Ended
      BY <2>6 DEF RunError, RunClear, CopyOut
    <3>2. Ended' /\ pc'[self] \in {"run_clear", "copy_out", "idle"}
      BY <2>6, <3>1, ReportAgrees
    <3>. QED
      BY <3>2
  <2>7. ~RunBadLength(self)
    BY SelfFacts DEF RunBadLength, LockInv
  <2>. QED
    BY <2>1, <2>2, <2>3, <2>4, <2>5, <2>6, <2>7 DEF RunStep
<1>. QED
  BY <1>2, <1>3
\* What a RESET in progress leaves behind when it ends.
LEMMA ResetAgrees ==
  ASSUME Undisturbed, CInv, Resets, AgreeResting, AgreeOutcome, ResetStep(self),
         UNCHANGED ctl
  PROVE  AgreeResting' /\ AgreeOutcome'
<1>. TypeOK /\ Resetting(self) /\ dev \in Device
  BY SelfFacts DEF CInv, RInv, IInv, Base, ResetInv, TypeOK
<1>. USE SelfFacts DEF TypeOK, Goto, HwRead
<1>1. /\ Resets' /\ ~Running' /\ ~Injecting' /\ ~Asking' /\ m' = m
      /\ trouble' = trouble
  BY SameCommand, OneKind, SameTrouble
<1>2. out[self].code = "OK" /\ stats = m.stats
  BY <1>1 DEF AgreeOutcome, AgreeResting, ResetStep, ResetLock, HwDisable, HwReset,
              HwAck, HwStatus, HwIrqStatus, HwErrorCode
<1>3. CASE ResetLock(self) \/ HwDisable(self) \/ HwReset(self) \/ HwAck(self)
  <2>1. /\ pc'[self] \notin {"idle", "reset_lock"}
        /\ UNCHANGED <<stats, out>>
    BY <1>3 DEF ResetLock, HwDisable, HwReset, HwAck, driver
  <2>. QED
    BY <1>1, <1>2, <2>1 DEF AgreeResting, AgreeOutcome
<1>4. CASE HwStatus(self) \/ HwIrqStatus(self)
  <2>1. pc'[self] \notin {"idle", "reset_lock"} /\ UNCHANGED stats
    BY <1>4 DEF HwStatus, HwIrqStatus, driver
  <2>2. Clean(dev)
    BY <1>4 DEF HwStatus, HwIrqStatus, Resetting
  <2>3. out'[self].code = "OK"
    BY <1>2, <1>4, <2>2 DEF HwStatus, HwIrqStatus, Clean, Outcome
  <2>. QED
    BY <1>1, <1>2, <2>1, <2>3 DEF AgreeResting, AgreeOutcome
<1>5. CASE HwErrorCode(self)
  <2>1. Clean(dev) /\ pc'[self] = "idle" /\ UNCHANGED dev
    BY <1>5 DEF HwErrorCode, Resetting
  <2>2. out'[self].code = "OK"
    BY <1>2, <1>5, <2>1 DEF HwErrorCode, Clean, Outcome
  <2>3. stats' = Plus(stats, "resets")
    BY <1>5, <2>2, CountPlus DEF HwErrorCode
  <2>. QED
    BY <1>1, <1>2, <2>1, <2>2, <2>3 DEF AgreeResting, AgreeOutcome, Clean
<1>. QED
  BY <1>3, <1>4, <1>5 DEF ResetStep

\* GET_STAT reads counters that stand still.
LEMMA StatAgrees ==
  ASSUME Undisturbed, CInv, Asking, AgreeResting, AgreeOutcome, GetStatRead(self),
         UNCHANGED ctl
  PROVE  AgreeResting' /\ AgreeOutcome'
<1>. TypeOK /\ LoopsInRange
  BY DEF CInv, RInv, IInv, Base
<1>. USE SelfFacts DEF TypeOK, Goto
<1>. DEFINE w == word[self]
<1>1. /\ Asking' /\ ~Running' /\ ~Injecting' /\ ~Resets' /\ m' = m
      /\ trouble' = trouble
  BY SameCommand, OneKind, SameTrouble
<1>2. /\ pc[self] = "stat_read" /\ UNCHANGED <<dev, stats, out>> /\ w \in 1..5
      /\ word'[self] = w + 1
      /\ snap'[self] = [snap[self] EXCEPT ![StatOrder[w]] = stats[StatOrder[w]]]
      /\ pc'[self] = IF w = 5 THEN "copy_out" ELSE "stat_read"
  BY DEF GetStatRead, LoopsInRange, driver, StatOrder
<1>3. AgreeResting'
  <2>1. ~Running /\ ~Resets /\ ~Injecting
    BY OneKind
  <2>. QED
    BY <1>1, <1>2, <2>1 DEF AgreeResting, AtRest, FaultSame
<1>4. /\ stats \in [StatField -> Nat] /\ snap[self] \in [StatField -> Nat]
      /\ \A i \in 1..5 : StatOrder[i] \in StatField
      /\ \A f \in StatField : \E i \in 1..5 : StatOrder[i] = f
  BY DEF StatOrder, StatField
<1>5. \A i \in 1..5 : i < w + 1 => snap'[self][StatOrder[i]] = stats[StatOrder[i]]
  <2>1. \A i \in 1..5 : i < w => snap[self][StatOrder[i]] = stats[StatOrder[i]]
    BY <1>2 DEF AgreeOutcome
  <2>. SUFFICES ASSUME NEW i \in 1..5, i < w + 1
                PROVE  snap'[self][StatOrder[i]] = stats[StatOrder[i]]
    OBVIOUS
  <2>2. i = w \/ i < w
    BY <1>2
  <2>. QED
    BY <1>2, <1>4, <2>1, <2>2
<1>6. ASSUME w = 5 PROVE snap'[self] = stats
  <2>1. \A i \in 1..5 : i < w + 1
    BY <1>6
  <2>2. \A f \in StatField : snap'[self][f] = stats[f]
    BY <1>4, <1>5, <2>1
  <2>3. snap'[self] \in [StatField -> Nat]
    BY <1>2, <1>4
  <2>. QED
    BY <1>4, <2>2, <2>3
<1>7. out[self].code = "OK"
  BY DEF AgreeOutcome
<1>. QED
  BY <1>1, <1>2, <1>3, <1>5, <1>6, <1>7 DEF AgreeOutcome

\* Outside run-dot the device has nothing to say, and each call does its part.
LEMMA AgreeRestStep ==
  ASSUME Undisturbed, CInv, AgreeResting, AgreeOutcome,
         Step(self) \/ Isr \/ TimerFires, UNCHANGED ctl
  PROVE  AgreeResting' /\ AgreeOutcome'
<1>. TypeOK /\ LockInv /\ InCall /\ dev \in Device
  BY DEF CInv, RInv, IInv, Base, CtlInv, TypeOK
<1>. USE SelfFacts
<1>1. /\ Running' <=> Running
      /\ Injecting' <=> Injecting
      /\ Resets' <=> Resets
      /\ Asking' <=> Asking
      /\ m' = m /\ trouble' = trouble
  BY SameCommand, SameTrouble
<1>2. CASE Running
  BY <1>1, <1>2, OneKind DEF AgreeResting, AgreeOutcome
<1>3. CASE ~Running /\ (Isr \/ TimerFires)
  <2>1. pc[self] \notin Flying
    BY <1>3 DEF InCall, ResetHeld, Flying, Waiting, Told
  <2>. QED
    BY <1>3, <2>1, Quiet DEF CInv
<1>4. CASE Injecting /\ SetFaultWrite(self)
  <2>1. /\ pc[self] = "fault_write" /\ pc'[self] = "copy_out"
        /\ UNCHANGED <<stats, out>> /\ dev'.status = dev.status
    BY <1>4, FaultEffect DEF SetFaultWrite, Goto, TypeOK, driver
  <2>. QED
    BY <1>1, <1>4, <2>1, OneKind DEF AgreeResting, AgreeOutcome, AtRest
<1>5. CASE (Injecting \/ Asking) /\ CopyOut(self)
  <2>1. /\ pc[self] = "copy_out" /\ pc'[self] = "idle"
        /\ UNCHANGED <<dev, driver, snap>> /\ out'[self] = out[self]
    BY <1>5, CopyKeeps
  <2>. QED
    BY <1>1, <1>5, <2>1, OneKind
    DEF AgreeResting, AgreeOutcome, AtRest, FaultSame, driver
<1>6. CASE Resets /\ ResetStep(self)
  BY <1>6, ResetAgrees
<1>7. CASE Asking /\ GetStatRead(self)
  BY <1>7, StatAgrees
<1>. QED
  BY <1>2, <1>3, <1>4, <1>5, <1>6, <1>7, StepOf

LEMMA AgreeMachineStep ==
  ASSUME Undisturbed, CInv, Agree, (Step(self) \/ Isr \/ TimerFires) /\ UNCHANGED ctl
  PROVE  Agree'
<1>1. trouble' = trouble /\ (SameReply' <=> SameReply)
  BY SameTrouble
<1>2. CASE trouble = "strayed"
  BY <1>1, <1>2 DEF Agree
<1>3. CASE trouble # "strayed"
  BY <1>1, <1>3, AgreeRunningStep, AgreeRestStep DEF Agree
<1>. QED
  BY <1>2, <1>3
----------------------------------------------------------------------------
\* A call begins where the last one left the device and the mock.
LEMMA AgreeCallStep ==
  ASSUME CInv, Agree, NEW c \in CommandLine,
         CtlRunDot(c) \/ CtlSetFault(c) \/ CtlReset(c) \/ CtlStats(c)
  PROVE  Agree'
<1>. TypeOK
  BY DEF CInv, RInv, IInv, Base
<1>1. Begins(c) /\ c # NoCommand
  BY CallBegins, CommandLineAssumption
<1>2. /\ reply' = reply /\ trouble' = trouble /\ m' = m /\ dev' = dev /\ stats' = stats
      /\ cmd = NoCommand /\ cmd' = c /\ out'[self].code = "OK"
  BY <1>1 DEF Begins, driver, NoOutcome
<1>. SUFFICES ASSUME trouble # "strayed"
              PROVE  SameReply' /\ AgreeRunning' /\ AgreeResting' /\ AgreeOutcome'
  BY <1>2 DEF Agree
<1>3. AtRest /\ FaultSame /\ SameReply
  BY <1>2 DEF Agree, AgreeResting, Running, Resets, Injecting
<1>4. AtRest' /\ FaultSame' /\ SameReply'
  BY <1>2, <1>3 DEF AtRest, FaultSame, SameReply
<1>5. /\ Running' => pc'[self] = "run_lock"
      /\ Injecting' => pc'[self] = "fault_write"
      /\ Resets' => pc'[self] = "reset_lock"
      /\ Asking' => pc'[self] = "stat_read" /\ word'[self] = 1
  BY <1>1, <1>2 DEF Begins, Running, Injecting, Resets, Asking
<1>6. AgreeRunning'
  BY <1>4, <1>5 DEF AgreeRunning, Flying, Waiting, Told, Reporting
<1>7. AgreeResting'
  BY <1>4, <1>5 DEF AgreeResting, AtRest
<1>8. AgreeOutcome'
  BY <1>2, <1>5 DEF AgreeOutcome
<1>. QED
  BY <1>4, <1>6, <1>7, <1>8

\* After a return, or a command that reaches no ioctl, no call is executed.
LEMMA BetweenCalls ==
  ASSUME trouble' \in {"none", "timeout", "error", "strayed"},
         ~Running' /\ ~Injecting' /\ ~Resets' /\ ~Asking',
         trouble' # "strayed" => SameReply' /\ AtRest' /\ FaultSame'
  PROVE  Agree'
BY DEF Agree, AgreeRunning, AgreeResting, AgreeOutcome

\* Who throws, fails.
LEMMA ThrownFails ==
  ASSUME NEW type, NEW what, NEW errno
  PROVE  Thrown(type, what, errno).status = "error"
BY DEF Thrown

\* What the mock answers once the checks have passed.
LEMMA MockAnswers ==
  ASSUME NEW c, c.command = "run-dot", ~Rejected(c)
  PROVE  LET mock == MockRunDot(m, A(c), B(c), c.timeout_ms)
             product == MockDot(A(c), B(c))
         IN  /\ Fate = "timed_out" \/ Fate = "device_error" => mock.status = "error"
             /\ Fate = "completed" =>
                  mock = DotReply(IF m.fault_mask = FaultType.corrupt_result
                                  THEN FlipLowBit(product) ELSE product, "OK")
<1>. DEFINE mock == MockRunDot(m, A(c), B(c), c.timeout_ms)
<1>1. Rejection(A(c), B(c), c.timeout_ms) = ""
  BY Zenon DEF Rejected
\* The arms exclude each other.
<1>0. /\ Fate = "timed_out" =>
           Fate # "device_error" /\ m.fault_mask # FaultType.corrupt_result
      /\ Fate = "device_error" =>
           Fate # "timed_out" /\ m.fault_mask # FaultType.corrupt_result
      /\ Fate = "completed" => Fate # "timed_out" /\ Fate # "device_error"
  BY DEF Fate, MockEnd, FaultType
<1>2. ASSUME Fate = "timed_out" PROVE mock = Thrown("device_error", "timeout", "OK")
  BY <1>0, <1>1, <1>2, Zenon DEF MockRunDot, Fate
<1>3. ASSUME Fate = "device_error"
      PROVE  mock = Thrown("device_error", "force error", "OK")
  BY <1>0, <1>1, <1>3, Zenon DEF MockRunDot, Fate
<1>4. ASSUME Fate = "completed", m.fault_mask = FaultType.corrupt_result
      PROVE  mock = DotReply(FlipLowBit(MockDot(A(c), B(c))), "OK")
  BY <1>0, <1>1, <1>4, Zenon DEF MockRunDot, Fate
<1>5. ASSUME Fate = "completed", m.fault_mask # FaultType.corrupt_result
      PROVE  mock = DotReply(MockDot(A(c), B(c)), "OK")
  BY <1>0, <1>1, <1>5, Zenon DEF MockRunDot, Fate
<1>. HIDE DEF mock
<1>6. Fate = "timed_out" \/ Fate = "device_error" => mock.status = "error"
  BY <1>2, <1>3, ThrownFails, Zenon
<1>. QED
  BY <1>4, <1>5, <1>6, Zenon DEF mock

\* The verdict and the number of a run-dot.
LEMMA RunDotAgrees ==
  ASSUME CInv, Agree, trouble # "strayed", ~Strays, RunDotReturns
  PROVE  /\ SameReply'
         /\ m'.stats = Plus(Plus(m.stats, "submitted"), Fate)
         /\ m'.fault_mask = m.fault_mask
<1>1. /\ Running /\ pc[self] = "idle"
      /\ cmd \in CommandLine /\ ~ArgumentError(cmd) /\ ~Rejected(cmd)
      /\ cmd.command = "run-dot"
  BY DEF RunDotReturns, Returns, Running, CInv, CtlInv, InCall
<1>2. Ended
  BY <1>1 DEF Agree, AgreeRunning
<1>3. Fate \in {"timed_out", "device_error", "completed"}
  BY DEF Fate, MockEnd
<1>4. /\ m'.stats = Plus(Plus(m.stats, "submitted"), Fate)
      /\ m'.fault_mask = m.fault_mask
  <2>1. m' = [m EXCEPT !.stats["submitted"] = @ + 1, !.stats[Fate] = @ + 1]
    BY <1>1, Zenon DEF RunDotReturns, MockAfterRunDot, Fate, Rejected
  <2>2. m \in [fault_mask : Faults, stats : [StatField -> Nat]]
    BY DEF CInv, CtlInv, MockOK
  <2>. QED
    BY <2>1, <2>2 DEF Plus
<1>5. /\ reply'.real = LinuxRunDot(out[self])
      /\ reply'.mock = MockRunDot(m, A(cmd), B(cmd), cmd.timeout_ms)
  BY DEF RunDotReturns, Answer
<1>6. CASE Fate \in {"timed_out", "device_error"}
  <2>1. out[self].code = IF Fate = "timed_out" THEN "ETIMEDOUT" ELSE "EIO"
    BY <1>1, <1>2, <1>6 DEF Ended
  <2>2. reply'.real.status = "error"
    BY <1>5, <1>6, <2>1, ThrownFails DEF LinuxRunDot
  <2>3. reply'.mock.status = "error"
    BY <1>1, <1>5, <1>6, MockAnswers
  <2>. QED
    BY <1>4, <2>2, <2>3 DEF SameReply
<1>7. CASE Fate = "completed"
  <2>1. /\ out[self].code = "OK" /\ out[self].driver_status = "OK"
        /\ out[self].result.flipped <=> m.fault_mask = FaultType.corrupt_result
    BY <1>1, <1>2, <1>7 DEF Ended
  <2>2. DotProductOf(out[self].result.of) = MockDot(A(cmd), B(cmd))
    <3>1. out[self].result.of = [i \in WordsOf(8) |-> req[self].input[i]]
      BY <1>1, <2>1 DEF CInv, CtlInv, Answering
    <3>2. req[self].input = BuildInput(A(cmd), B(cmd))
      BY <1>1, RequestFacts DEF CInv, CtlInv, InCall
    <3>. QED
      BY <1>1, <3>1, <3>2, RequestFacts, SameProduct
  <2>. DEFINE product == MockDot(A(cmd), B(cmd))
              value == IF m.fault_mask = FaultType.corrupt_result
                       THEN FlipLowBit(product) ELSE product
  <2>3. reply'.real = DotReply(value, "OK")
    BY <1>5, <2>1, <2>2 DEF LinuxRunDot, ResultValue
  <2>4. reply'.mock = DotReply(value, "OK")
    BY <1>1, <1>5, <1>7, MockAnswers
  <2>. QED
    BY <1>4, <2>3, <2>4 DEF SameReply
<1>. QED
  BY <1>3, <1>6, <1>7

LEMMA RunDotReturnsAgrees ==
  ASSUME CInv, Agree, RunDotReturns
  PROVE  Agree'
<1>1. /\ Running /\ pc[self] = "idle"
      /\ UNCHANGED <<dev, stats>>
      /\ ~Running' /\ ~Injecting' /\ ~Resets' /\ ~Asking'
  BY CommandKinds DEF RunDotReturns, Running, driver
<1>2. CASE trouble = "strayed" \/ Strays
  <2>1. trouble' = "strayed"
    BY <1>2 DEF RunDotReturns
  <2>. QED
    BY <1>1, <2>1, BetweenCalls
<1>3. CASE trouble # "strayed" /\ ~Strays
  <2>1. Ended
    BY <1>1, <1>3 DEF Agree, AgreeRunning
  <2>2. /\ SameReply' /\ m'.fault_mask = m.fault_mask
        /\ m'.stats = Plus(Plus(m.stats, "submitted"), Fate)
    BY <1>3, RunDotAgrees
  <2>3. Fate \in {"timed_out", "device_error", "completed"}
    BY DEF Fate, MockEnd
  <2>4. trouble' = CASE Fate = "timed_out" -> "timeout"
                     [] Fate = "device_error" -> "error"
                     [] OTHER -> "none"
    <3>1. out[self].driver_status =
            CASE Fate = "timed_out" -> "TIMEOUT" [] Fate = "device_error" -> "DEVICE_ERROR"
              [] OTHER -> "OK"
      BY <1>1, <2>1 DEF Ended
    <3>. QED
      BY <1>3, <2>3, <3>1 DEF RunDotReturns
  <2>5. AtRest' /\ FaultSame'
    BY <1>1, <2>1, <2>2, <2>3, <2>4 DEF Ended, AtRest, FaultSame
  <2>. QED
    BY <1>1, <2>2, <2>3, <2>4, <2>5, BetweenCalls
<1>. QED
  BY <1>2, <1>3

LEMMA SetFaultReturnsAgrees ==
  ASSUME CInv, Agree, SetFaultReturns
  PROVE  Agree'
<1>1. /\ Injecting /\ pc[self] = "idle"
      /\ UNCHANGED <<dev, stats>>
      /\ ~Running' /\ ~Injecting' /\ ~Resets' /\ ~Asking'
  BY CommandKinds DEF SetFaultReturns, Injecting, driver
<1>2. trouble' = IF trouble = "timeout" THEN "none" ELSE trouble
  BY DEF SetFaultReturns
<1>3. dev.fault_control = m'.fault_mask /\ m'.stats = m.stats
  <2>1. dev.fault_control = FaultType[FaultOf(cmd)]
    BY <1>1 DEF CInv, CtlInv, InCall, FaultKnown
  <2>. QED
    BY <2>1 DEF SetFaultReturns, MockAfterSetFault, CInv, CtlInv, MockOK
<1>. SUFFICES ASSUME trouble # "strayed"
              PROVE  SameReply' /\ AtRest' /\ FaultSame'
  BY <1>1, <1>2, BetweenCalls DEF Agree
<1>4. AtRest' /\ FaultSame'
  <2>1. AtRest
    BY <1>1, OneKind DEF Agree, AgreeResting
  <2>. QED
    BY <1>1, <1>2, <1>3, <2>1 DEF AtRest, FaultSame
<1>5. SameReply'
  <2>1. out[self].code = "OK"
    BY <1>1 DEF Agree, AgreeOutcome
  <2>2. reply'.real = Returned("OK") /\ reply'.mock = Returned("OK")
    BY <2>1 DEF SetFaultReturns, Answer, LinuxSetFault
  <2>. QED
    BY <2>2 DEF SameReply
<1>. QED
  BY <1>4, <1>5

LEMMA ResetReturnsAgrees ==
  ASSUME CInv, Agree, ResetReturns
  PROVE  Agree'
<1>1. /\ Resets /\ pc[self] = "idle"
      /\ UNCHANGED <<dev, stats>>
      /\ ~Running' /\ ~Injecting' /\ ~Resets' /\ ~Asking'
  BY CommandKinds DEF ResetReturns, Resets, driver
<1>2. trouble' = IF trouble = "strayed" THEN "strayed" ELSE "none"
  BY DEF ResetReturns
<1>3. dev.fault_control = {} /\ m'.fault_mask = {} /\ m'.stats = Plus(m.stats, "resets")
  BY <1>1, OneKind
  DEF ResetReturns, MockAfterReset, CInv, CtlInv, FaultKnown, MockOK, FaultType, Plus
<1>. SUFFICES ASSUME trouble # "strayed"
              PROVE  SameReply' /\ AtRest' /\ FaultSame'
  BY <1>1, <1>2, BetweenCalls DEF Agree
<1>4. AtRest' /\ FaultSame'
  BY <1>1, <1>2, <1>3 DEF Agree, AgreeResting, AtRest, FaultSame
<1>5. SameReply'
  <2>1. out[self].code = "OK"
    BY <1>1 DEF Agree, AgreeOutcome
  <2>2. reply'.real = Returned("OK") /\ reply'.mock = Returned("OK")
    BY <2>1 DEF ResetReturns, Answer, LinuxReset
  <2>. QED
    BY <2>2 DEF SameReply
<1>. QED
  BY <1>4, <1>5

LEMMA StatsReturnsAgrees ==
  ASSUME CInv, Agree, StatsReturns
  PROVE  Agree'
<1>1. /\ Asking /\ pc[self] = "idle"
      /\ UNCHANGED <<dev, stats, m, trouble>>
      /\ ~Running' /\ ~Injecting' /\ ~Resets' /\ ~Asking'
  BY CommandKinds DEF StatsReturns, Asking, driver
<1>. SUFFICES ASSUME trouble # "strayed"
              PROVE  SameReply' /\ AtRest' /\ FaultSame'
  BY <1>1, BetweenCalls DEF Agree
<1>2. AtRest /\ FaultSame
  BY <1>1, OneKind DEF Agree, AgreeResting
<1>3. SameReply'
  <2>1. out[self].code = "OK" /\ snap[self] = m.stats
    BY <1>1, <1>2 DEF Agree, AgreeOutcome, AtRest
  <2>2. reply'.real = Returned(m.stats) /\ reply'.mock = Returned(m.stats)
    BY <2>1 DEF StatsReturns, Answer, LinuxGetStats
  <2>. QED
    BY <2>2 DEF SameReply
<1>. QED
  BY <1>1, <1>2, <1>3 DEF AtRest, FaultSame

LEMMA LocalAgrees ==
  ASSUME Agree, NEW c \in CommandLine, Local(c)
  PROVE  Agree'
<1>1. UNCHANGED <<dev, stats, m, trouble>> /\ cmd = NoCommand /\ cmd' = NoCommand
  BY DEF Local, vars
<1>2. /\ ~Running /\ ~Injecting /\ ~Resets /\ ~Asking
      /\ ~Running' /\ ~Injecting' /\ ~Resets' /\ ~Asking'
  BY <1>1 DEF Running, Injecting, Resets, Asking
<1>3. SameReply'
  <2>1. Rejected(c) => MockRunDot(m, A(c), B(c), c.timeout_ms).status = "error"
    BY ThrownFails, Zenon DEF Rejected, MockRunDot
  <2>2. \/ reply'.real = reply'.mock
        \/ reply'.real.status = "error" /\ reply'.mock.status = "error"
    <3>1. CASE \E exit, reason : Answer(c, exit, reason, reason)
      BY <3>1 DEF Answer
    <3>2. CASE /\ Rejected(c)
               /\ Answer(c, 0, Thrown("validation_error",
                                      Rejection(A(c), B(c), c.timeout_ms), "OK"),
                               MockRunDot(m, A(c), B(c), c.timeout_ms))
      BY <2>1, <3>2, ThrownFails, Zenon DEF Answer
    <3>. QED
      BY <3>1, <3>2, Zenon DEF Local
  <2>. QED
    BY <2>2 DEF SameReply
<1>4. trouble # "strayed" => AtRest' /\ FaultSame'
  BY <1>1, <1>2 DEF Agree, AgreeResting, AtRest, FaultSame
<1>. QED
  BY <1>1, <1>2, <1>3, <1>4, BetweenCalls DEF Agree

LEMMA AgreeStep == Undisturbed /\ CInv /\ Agree /\ [CtlNext]_ctlVars => Agree'
<1>. SUFFICES ASSUME Undisturbed, CInv, Agree, [CtlNext]_ctlVars PROVE Agree'
  OBVIOUS
<1>1. CASE UNCHANGED ctlVars
  <2>1. UNCHANGED <<cmd, reply, m, trouble, dev, done, error_flag, stats, isr, pc,
                    word, snap, out>>
    BY <1>1 DEF ctlVars, ctl, vars
  <2>2. /\ UNCHANGED <<Running, Injecting, Resets, Asking, Strays, Fate>>
        /\ UNCHANGED <<AtRest, FaultSame, SameReply, Announced>>
    BY <2>1 DEF Running, Injecting, Resets, Asking, Strays, Fate, AtRest, FaultSame,
                SameReply, Announced
  <2>3. UNCHANGED <<Course, Ended>>
    BY <2>1, <2>2 DEF Course, Ended
  <2>. QED
    BY <2>1, <2>2, <2>3 DEF Agree, AgreeRunning, AgreeResting, AgreeOutcome
<1>2. CASE CtlNext
  BY <1>2, LocalAgrees, AgreeCallStep, RunDotReturnsAgrees, SetFaultReturnsAgrees,
     ResetReturnsAgrees, StatsReturnsAgrees, AgreeMachineStep DEF CtlNext
<1>. QED
  BY <1>1, <1>2

LEMMA InitAgree == CtlInit => Agree
BY DEF CtlInit, Init, MockInit, RegisterInit, Silence, Agree, SameReply, AgreeRunning,
       AgreeResting, AgreeOutcome, AtRest, FaultSame, Running, Injecting, Resets, Asking

\* Until a run-dot follows a failed one without a reset, a program cannot tell the
\* mock from the device, whatever it calls and however often: same verdict, same
\* number, same counters.  (On a line of its own, with user memory that can be
\* written and timeouts longer than the operation; vnpuctl's may be shorter, and
\* then the device times out where the mock answers.)
THEOREM MockAgreesWithDevice ==
  ASSUME Undisturbed
  PROVE  CtlSpec => []MockAgrees
<1>1. OneCpu
  BY UndisturbedOneCpu
<1>2. CtlSpec => []CInv
  <2>1. CtlSpec => []RInv
    BY <1>1, CtlSpecRInv
  <2>2. CtlSpec => []CtlInv
    BY <1>1, SpecCtlInv
  <2>3. RInv /\ CtlInv => CInv
    BY DEF CInv
  <2>. QED
    BY <2>1, <2>2, <2>3, PTL
<1>3. CtlInit => Agree
  BY InitAgree
<1>4. CInv /\ Agree /\ [CtlNext]_ctlVars => Agree'
  BY AgreeStep
<1>5. Agree => MockAgrees
  BY DEF Agree, MockAgrees, SameReply, AgreeResting, AtRest, Running, Resets
<1>. QED
  BY <1>2, <1>3, <1>4, <1>5, PTL DEF CtlSpec
=============================================================================
