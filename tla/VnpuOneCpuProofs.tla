-------------------------- MODULE VnpuOneCpuProofs --------------------------
(***************************************************************************)
(* The driver on the guest's one virtual CPU, with vec_len set: what a     *)
(* locked section finds and leaves behind, whose result and whose error a  *)
(* caller gets, and that every submission is counted once.  For any number *)
(* of threads and calls, any requests and every fault but FORCE_ERROR; and *)
(* for every fault if one thread calls and its timeouts outlast the        *)
(* operation (run lost_error shows what goes wrong without).  The handler  *)
(* of one CPU runs to its end before a thread goes on.  Under the same     *)
(* conditions the driver implements VnpuService: its initial state maps to *)
(* one of the service, and every step to a step of it or to none.          *)
(***************************************************************************)
EXTENDS VnpuDriverProofs, FiniteSetTheorems

Unforced == \A m \in FaultMask : FAULT_FORCE_ERROR \notin m
Lone == \A s, t \in Thread : s = t
LongTimeouts == \A r \in Request : ValidRequest(r) => r.timeout_ms > DOT_LATENCY_MS

OneCpu == VecLenSet /\ ~Smp /\ (Unforced \/ (Lone /\ LongTimeouts))

\* The stages of RUN_DOT: it programs the device, waits for the operation it
\* started, has been told that it ended, and reports its error without the mutex.
Programming == {"run_ack", "run_enable", "run_input", "run_length", "run_start"}
Waiting == {"run_count", "run_wait", "run_timed_out"}
Told == {"run_woken", "run_result"}
Flying == Waiting \cup Told
Reporting == {"run_error", "run_clear"}

\* What is pending fits the status, the handler knows what it read, and the error
\* it saw is the device's.
Calm ==
  /\ dev.irq_status \cup isr.seen \subseteq
       {IF dev.status = "ERROR" THEN "ERROR" ELSE "COMPLETION"}
  /\ dev.err_code \in {"NONE", "FORCED"}
  /\ isr.pc = "idle" => isr.seen = {}
  /\ isr.pc = "complete" => isr.seen # {}
  /\ isr.pc \in {"error", "flag"} => isr.seen = {"ERROR"}
  /\ ~SharedLine /\ isr.pc = "ack" => isr.seen # {}
  /\ isr.pc = "flag" \/ error_flag => device_error = "FORCED"
  /\ Unforced =>
       FAULT_FORCE_ERROR \notin dev.fault_control /\ dev.status # "ERROR" /\ ~error_flag

\* Nothing is in flight and nothing left to say.
Rest ==
  /\ dev.status \in {"IDLE", "ERROR"} /\ ~dev.timer
  /\ dev.irq_status = {} /\ isr.seen = {}

\* A completion is in one place at a time: pending in the device, read by the
\* handler, or counted in done; and only once the operation is over.  By then an
\* error has set error_flag.
Flight ==
  /\ dev.status \in {"BUSY", "DONE", "ERROR"}
  /\ done > 0 \/ isr.seen # {} \/ dev.irq_status # {} =>
       dev.status # "BUSY" /\ ~dev.timer
  /\ done > 0 => isr.seen = {} /\ dev.irq_status = {}
  /\ isr.pc \in {"error", "flag", "complete"} => dev.irq_status = {}
  /\ error_flag <=> dev.status = "ERROR" /\ (done > 0 \/ isr.pc = "complete")

\* A timeout that ends a wait finds no error, and no more will come of an
\* operation shorter than it.
Missed ==
  /\ ~error_flag
  /\ Unforced \/ (~dev.timer /\ dev.irq_status = {} /\ isr.seen = {})

Over ==
  /\ dev.status \in {"DONE", "ERROR"} /\ ~dev.timer
  /\ dev.irq_status = {} /\ isr.seen = {}
  /\ error_flag <=> dev.status = "ERROR"

\* The operands the device holds are the caller's, as far as they are written.
Operands(t) ==
  LET len == req[t].vector_length IN
  /\ pc[t] = "run_input" =>
       \A i \in WordIndex : i < word[t] => dev.input[i] = req[t].input[i]
  /\ pc[t] \in {"run_length", "run_start"} \cup Flying =>
       \A i \in WordsOf(len) : dev.input[i] = req[t].input[i]
  /\ pc[t] \in {"run_start"} \cup Flying => dev.vec_len = len
  /\ pc[t] \in Flying /\ dev.status = "DONE" =>
       dev.result.of = [i \in WordsOf(len) |-> req[t].input[i]]

\* Its interrupts are enabled, and on a line of its own no completion is lost.
Interrupts(t) ==
  /\ pc[t] \in {"run_input", "run_length", "run_start"} \cup Flying =>
       dev.irq_enable = IrqBit
  /\ ~SharedLine /\ pc[t] \in {"run_count", "run_wait"} /\ dev.status = "DONE" =>
       \/ done > 0 \/ isr.seen # {} \/ dev.irq_status # {}
       \/ FAULT_IRQ_DROP \in dev.fault_control

\* Every submission has its end but the one in flight, which may still wait for
\* its count, and has one as soon as the handler has counted its error.
AllEnds(c) == Ends(c) + c["device_error"]

Even == stats["submitted"] = AllEnds(stats)

Balance(t) ==
  stats["submitted"] + (IF pc[t] = "run_count" THEN 1 ELSE 0) =
    AllEnds(stats) + (IF pc[t] \in Flying /\ ~error_flag THEN 1 ELSE 0)

\* Between the locked sections only a call about to report it has an error.
Free ==
  /\ Rest
  /\ Even
  /\ error_flag => \E t \in Thread : pc[t] \in Reporting

Stage(t) ==
  /\ pc[t] \notin Flying => Rest /\ ~error_flag
  /\ pc[t] \in Programming => done = 0
  /\ pc[t] \in Waiting => Flight
  /\ pc[t] = "run_timed_out" => Missed
  /\ pc[t] \in Told => Over
  /\ pc[t] = "run_result" => ~error_flag
  /\ Operands(t)
  /\ Interrupts(t)
  /\ Balance(t)

\* Who reports an error finds it where the handler left it.
Reports == \A t \in Thread : pc[t] \in Reporting => error_flag /\ dev.status = "ERROR"

\* The inductive invariant: between the locked sections all is at rest, and the
\* owner of the mutex is at a stage of its own.
OneInv ==
  /\ Calm
  /\ Reports
  /\ mutex = NoThread => Free
  /\ \A t \in Thread : mutex = t => Stage(t)
----------------------------------------------------------------------------
\* What each access does to the registers the invariant speaks of.
LEMMA ResetEffect ==
  ASSUME NEW d \in Device
  PROVE  LET e == WriteControl(d, {"RESET"})
         IN  /\ e.status = "IDLE" /\ e.timer = FALSE /\ e.irq_status = {}
             /\ e.fault_control = {} /\ e.err_code = "NONE"
BY DEF WriteControl, ControlReset, UpdateIrq, Device

LEMMA StartEffect ==
  ASSUME NEW d \in Device
  PROVE  LET e == WriteControl(d, {"START"})
         IN  /\ d.status = "IDLE" =>
                  e.status = "BUSY" /\ e.irq_status = {} /\ e.err_code = "NONE"
             /\ d.status = "ERROR" =>
                  /\ e.status = "ERROR" /\ e.irq_status = d.irq_status \cup {"ERROR"}
                  /\ e.err_code = d.err_code /\ e.timer = d.timer
             /\ e.input = d.input /\ e.vec_len = d.vec_len
             /\ e.irq_enable = d.irq_enable /\ e.fault_control = d.fault_control
<1>1. CASE d.status = "IDLE"
  BY <1>1 DEF WriteControl, StartAccepted, UpdateIrq, Device
<1>2. CASE d.status # "IDLE"
  BY <1>2 DEF WriteControl, StartRejected, UpdateIrq, Device
<1>. QED
  BY <1>1, <1>2

LEMMA AckEffect ==
  ASSUME NEW d \in Device
  PROVE  LET e == WriteIrqStatus(d, IrqBit)
         IN  /\ e.irq_status = {} /\ e.status = d.status /\ e.timer = d.timer
             /\ e.input = d.input /\ e.vec_len = d.vec_len /\ e.result = d.result
             /\ e.irq_enable = d.irq_enable /\ e.fault_control = d.fault_control
             /\ e.err_code = d.err_code
BY DEF WriteIrqStatus, UpdateIrq, Device

LEMMA EnableEffect ==
  ASSUME NEW d \in Device, NEW val \in SUBSET IrqBit
  PROVE  LET e == WriteIrqEnable(d, val)
         IN  /\ e.irq_enable = val /\ e.status = d.status /\ e.timer = d.timer
             /\ e.irq_status = d.irq_status /\ e.fault_control = d.fault_control
             /\ e.err_code = d.err_code
BY DEF WriteIrqEnable, UpdateIrq, Device

LEMMA InputEffect ==
  ASSUME NEW d \in Device, NEW i \in WordIndex, NEW w
  PROVE  LET e == WriteInput(d, i, w)
         IN  /\ e.input[i] = w
             /\ \A j \in WordIndex \ {i} : e.input[j] = d.input[j]
             /\ e.status = d.status /\ e.timer = d.timer
             /\ e.irq_status = d.irq_status /\ e.irq_enable = d.irq_enable
             /\ e.fault_control = d.fault_control /\ e.err_code = d.err_code
BY DEF WriteInput, Device

LEMMA LengthEffect ==
  ASSUME NEW d \in Device, NEW len \in SupportedLen
  PROVE  LET e == WriteVectorLength(d, len)
         IN  /\ e.vec_len = len /\ e.input = d.input
             /\ e.status = d.status /\ e.timer = d.timer
             /\ e.irq_status = d.irq_status /\ e.irq_enable = d.irq_enable
             /\ e.fault_control = d.fault_control /\ e.err_code = d.err_code
BY DEF WriteVectorLength, Device

LEMMA ReadEffect ==
  ASSUME NEW d \in Device, d.status = "DONE"
  PROVE  LET e == ReadResult(d)
         IN  /\ e.status = "IDLE" /\ e.timer = d.timer
             /\ e.irq_status = d.irq_status /\ e.fault_control = d.fault_control
             /\ e.err_code = d.err_code
BY DEF ReadResult, Device

LEMMA FaultEffect ==
  ASSUME NEW d \in Device, NEW val
  PROVE  LET e == WriteFaultControl(d, val)
         IN  /\ e.status = d.status /\ e.timer = d.timer
             /\ e.irq_status = d.irq_status /\ e.err_code = d.err_code
             /\ e.fault_control \subseteq val
BY DEF WriteFaultControl, LowestBit, Device

\* The timer: the operation is done, with the product of the operands as they are
\* now, or stuck, or an error is forced.
LEMMA TimerEffect ==
  ASSUME NEW d \in Device
  PROVE  LET e == DotTimer(d)
         IN  /\ e.timer = FALSE /\ e.status \in {"DONE", "BUSY", "ERROR"}
             /\ e.status = "BUSY" => e.irq_status = {}
             /\ e.status = "ERROR" =>
                  /\ e.irq_status = {"ERROR"} /\ e.err_code = "FORCED"
                  /\ FAULT_FORCE_ERROR \in d.fault_control
             /\ e.status = "DONE" =>
                  /\ e.irq_status \subseteq {"COMPLETION"}
                  /\ e.result.of = [i \in WordsOf(d.vec_len) |-> d.input[i]]
                  /\ e.irq_status # {} \/ FAULT_IRQ_DROP \in d.fault_control
             /\ e.status # "ERROR" => e.err_code = d.err_code
             /\ e.input = d.input /\ e.vec_len = d.vec_len
             /\ e.irq_enable = d.irq_enable /\ e.fault_control = d.fault_control
<1>. DEFINE n == [d EXCEPT !.timer = FALSE]
            product == [i \in WordsOf(d.vec_len) |-> d.input[i]]
            r == [of |-> product, flipped |-> FALSE]
            c == DotProduct(n)
            e == InjectFault(c)
<1>1. /\ n \in Device /\ n.timer = FALSE /\ n.vec_len \in {8, 16}
      /\ n.input = d.input /\ n.vec_len = d.vec_len /\ n.err_code = d.err_code
      /\ n.irq_enable = d.irq_enable /\ n.fault_control = d.fault_control
  BY SupportedLenFacts DEF Device
<1>. HIDE DEF n
<1>2. c = [n EXCEPT !.status = "DONE", !.irq_status = {"COMPLETION"}, !.result = r]
  BY <1>1 DEF DotProduct
<1>3. r.of = product
  OBVIOUS
<1>. HIDE DEF product, r
<1>4. /\ c \in Device /\ c.timer = FALSE /\ c.status = "DONE"
      /\ c.irq_status = {"COMPLETION"} /\ c.result = r /\ c.err_code = d.err_code
      /\ c.input = d.input /\ c.vec_len = d.vec_len
      /\ c.irq_enable = d.irq_enable /\ c.fault_control = d.fault_control
  <2>1. c \in Device
    BY <1>1, DotProductFacts
  <2>. HIDE DEF c
  <2>. QED
    BY <1>1, <1>2, <2>1 DEF Device
<1>. HIDE DEF c
<1>5. /\ e \in Device /\ e.timer = FALSE /\ e.status \in {"DONE", "BUSY", "ERROR"}
      /\ e.status = "BUSY" => e.irq_status = {}
      /\ e.status = "ERROR" =>
           /\ e.irq_status = {"ERROR"} /\ e.err_code = "FORCED"
           /\ FAULT_FORCE_ERROR \in d.fault_control
      /\ e.status = "DONE" =>
           /\ e.irq_status \subseteq {"COMPLETION"} /\ e.result.of = r.of
           /\ e.irq_status # {} \/ FAULT_IRQ_DROP \in d.fault_control
      /\ e.status # "ERROR" => e.err_code = d.err_code
      /\ e.input = d.input /\ e.vec_len = d.vec_len
      /\ e.irq_enable = d.irq_enable /\ e.fault_control = d.fault_control
  <2>. DEFINE f == [c.result EXCEPT !.flipped = ~@]
  <2>1. c.result \in Result
    BY <1>4 DEF Device
  <2>2. f \in Result /\ f.of = r.of
    BY <1>4, <2>1 DEF Result
  <2>. HIDE DEF f
  <2>3. \/ e = c
        \/ e = [c EXCEPT !.irq_status = {}] /\ FAULT_IRQ_DROP \in d.fault_control
        \/ e = [c EXCEPT !.status = "BUSY", !.irq_status = {}]
        \/ e = [c EXCEPT !.result = f]
        \/ /\ e = [c EXCEPT !.status = "ERROR", !.err_code = "FORCED",
                            !.irq_status = {"ERROR"}]
           /\ FAULT_FORCE_ERROR \in d.fault_control
    BY <1>4 DEF InjectFault, f, Device
  <2>. HIDE DEF e
  <2>4. CASE e = c
    BY <1>4, <2>4
  <2>5. CASE e = [c EXCEPT !.irq_status = {}] /\ FAULT_IRQ_DROP \in d.fault_control
    BY <1>4, <2>5 DEF Device
  <2>6. CASE e = [c EXCEPT !.status = "BUSY", !.irq_status = {}]
    BY <1>4, <2>6 DEF Device, Status
  <2>7. CASE e = [c EXCEPT !.result = f]
    BY <1>4, <2>2, <2>7 DEF Device
  <2>8. CASE /\ e = [c EXCEPT !.status = "ERROR", !.err_code = "FORCED",
                              !.irq_status = {"ERROR"}]
             /\ FAULT_FORCE_ERROR \in d.fault_control
    BY <1>4, <2>8 DEF Device, Status, ErrCode, IrqBit
  <2>. QED
    BY <2>3, <2>4, <2>5, <2>6, <2>7, <2>8
<1>6. DotTimer(d) = UpdateIrq(e)
  BY DEF DotTimer, c, n
<1>. HIDE DEF e
<1>. QED
  BY <1>3, <1>5, <1>6 DEF UpdateIrq, Device, product
----------------------------------------------------------------------------
\* No thread runs while the handler does, and then it holds no interrupt.
LEMMA HandlerIdle ==
  ASSUME OneCpu, Calm, MayRun
  PROVE  isr.pc = "idle" /\ isr.seen = {}
BY DEF OneCpu, Calm, MayRun

\* What validation says of the owner's request.
LEMMA OwnerRequest ==
  ASSUME IInv, OneCpu, NEW t \in Thread, pc[t] \in RunHeld
  PROVE  /\ req[t].vector_length \in SupportedLen
         /\ req[t].vector_length \in {8, 16}
         /\ VecLen(req[t]) = req[t].vector_length
         /\ WordsOf(req[t].vector_length) \subseteq WordIndex
<1>1. ValidRequest(req[t])
  BY DEF IInv, Base, Validated
<1>2. req[t].vector_length \in SupportedLen
  BY <1>1, Zenon DEF ValidRequest
<1>3. req[t].vector_length \in {8, 16}
  BY <1>2, SupportedLenFacts, Zenon
<1>. QED
  BY <1>2, <1>3 DEF OneCpu, VecLen, WordsOf, WordIndex

\* While some thread is not reporting an error, none is: the mode has one thread
\* or no errors.
LEMMA NobodyReports ==
  ASSUME OneCpu, Calm, Reports, NEW t \in Thread, pc[t] \notin Reporting
  PROVE  \A s \in Thread : pc[s] \notin Reporting
BY DEF OneCpu, Lone, Calm, Reports

\* The balance stays while no counter and neither of its conditions changes.
LEMMA BalanceKept ==
  ASSUME NEW t \in Thread, Balance(t), UNCHANGED <<stats, error_flag>>,
         pc'[t] \in Flying <=> pc[t] \in Flying,
         pc'[t] = "run_count" <=> pc[t] = "run_count"
  PROVE  Balance(t)'
BY DEF Balance

LEMMA BalanceEven ==
  ASSUME TypeOK, NEW t \in Thread, pc[t] \notin Flying
  PROVE  Balance(t) <=> Even
<1>1. pc[t] # "run_count"
  BY DEF Flying, Waiting
<1>2. stats["submitted"] \in Nat /\ AllEnds(stats) \in Nat
  BY StatFieldFacts DEF TypeOK, AllEnds, Ends
<1>. QED
  BY <1>1, <1>2 DEF Balance, Even

\* Taking the mutex.
LEMMA AcquireStep ==
  ASSUME IInv, OneCpu, Calm, Reports, Free, NEW t \in Thread, RunLock(t) \/ ResetLock(t)
  PROVE  Calm' /\ Stage(t)'
<1>. pc \in [Thread -> PC] /\ done \in Nat /\ TypeOK
  BY DEF IInv, Base, TypeOK
<1>1. /\ UNCHANGED <<dev, isr, stats, error_flag, device_error>>
      /\ pc[t] \in {"run_lock", "reset_lock"} /\ pc'[t] \in {"run_ack", "hw_disable"}
  BY DEF RunLock, ResetLock, Goto, driver
<1>2. pc'[t] = "run_ack" => done' = 0
  BY DEF RunLock, ResetLock, Goto
<1>3. Calm'
  BY <1>1 DEF Calm
<1>4. ~error_flag
  BY <1>1, NobodyReports DEF Free, Reporting
<1>. USE DEF Flying, Waiting, Told
<1>5. Balance(t)'
  BY <1>1, BalanceEven, BalanceKept DEF Free
<1>. QED
  BY <1>1, <1>2, <1>3, <1>4, <1>5
  DEF Free, Stage, Rest, Operands, Interrupts, Programming

\* One turn of the operand loop.
LEMMA InputStep ==
  ASSUME IInv, OneCpu, Calm, NEW t \in Thread, Stage(t), RunInput(t)
  PROVE  Calm' /\ Stage(t)'
<1>. DEFINE len == req[t].vector_length
            in == req[t].input
<1>0. /\ pc \in [Thread -> PC] /\ word \in [Thread -> Nat \ {0}] /\ dev \in Device
      /\ pc[t] = "run_input" /\ pc[t] \in RunHeld
  BY DEF IInv, Base, TypeOK, RunInput, Goto, RunHeld
<1>1. len \in {8, 16} /\ VecLen(req[t]) = len /\ WordsOf(len) \subseteq WordIndex
  BY <1>0, OwnerRequest
<1>2. word[t] \in 1..(len \div 4) /\ word[t] \in WordIndex
  BY <1>0, <1>1 DEF IInv, Base, LoopsInRange, WordIndex
<1>3. /\ UNCHANGED <<done, isr, stats, error_flag, device_error, req>>
      /\ word'[t] = word[t] + 1
      /\ dev' = WriteInput(dev, word[t], in[word[t]])
      /\ pc'[t] = IF word[t] = len \div 4 THEN "run_length" ELSE "run_input"
  BY <1>0, <1>1 DEF RunInput, Goto, driver
<1>4. /\ dev'.input[word[t]] = in[word[t]]
      /\ \A j \in WordIndex \ {word[t]} : dev'.input[j] = dev.input[j]
      /\ dev'.status = dev.status /\ dev'.timer = dev.timer
      /\ dev'.irq_status = dev.irq_status /\ dev'.irq_enable = dev.irq_enable
      /\ dev'.fault_control = dev.fault_control /\ dev'.err_code = dev.err_code
  BY <1>0, <1>2, <1>3, InputEffect
<1>5. \A i \in WordIndex : i < word[t] + 1 => dev'.input[i] = in[i]
  <2>1. \A i \in WordIndex : i < word[t] => dev.input[i] = in[i]
    BY <1>0 DEF Stage, Operands
  <2>2. \A i \in WordIndex : i < word[t] + 1 => i < word[t] \/ i = word[t]
    BY <1>2 DEF WordIndex
  <2>. QED
    BY <1>4, <2>1, <2>2 DEF WordIndex
<1>6. word[t] = len \div 4 => \A i \in WordsOf(len) : dev'.input[i] = in[i]
  <2>1. word[t] = len \div 4 => \A i \in WordsOf(len) : i < word[t] + 1
    BY <1>1, <1>2 DEF WordsOf
  <2>. QED
    BY <1>1, <1>5, <2>1
<1>7. Calm'
  BY <1>3, <1>4 DEF Calm
<1>8. Rest /\ ~error_flag /\ done = 0 /\ Balance(t) /\ dev.irq_enable = IrqBit
  BY <1>0 DEF Stage, Flying, Waiting, Told, Programming, Interrupts
<1>9. Rest' /\ ~error_flag' /\ done' = 0 /\ dev'.irq_enable = IrqBit
  BY <1>3, <1>4, <1>8 DEF Rest
<1>10. Balance(t)'
  BY <1>0, <1>3, <1>8, BalanceKept DEF Flying, Waiting, Told
<1>. HIDE DEF len, in
<1>11. Operands(t)'
  BY <1>3, <1>5, <1>6 DEF Operands, Flying, Waiting, Told, len, in
<1>. QED
  BY <1>3, <1>7, <1>9, <1>10, <1>11
  DEF Stage, Flying, Waiting, Told, Programming, Interrupts

\* The other register writes before START.
LEMMA ProgramStep ==
  ASSUME IInv, OneCpu, LockInv, Calm, NEW t \in Thread, Stage(t),
         RunAck(t) \/ RunEnable(t) \/ RunLength(t)
  PROVE  Calm' /\ Stage(t)'
<1>0. /\ pc \in [Thread -> PC] /\ word \in [Thread -> Nat \ {0}] /\ dev \in Device
      /\ pc[t] \in {"run_ack", "run_enable", "run_length"} /\ pc[t] \in RunHeld
  BY DEF IInv, Base, TypeOK, RunAck, RunEnable, RunLength, Goto, RunHeld
<1>1. UNCHANGED <<done, isr, stats, error_flag, device_error, req>>
  BY DEF RunAck, RunEnable, RunLength, driver, locals
<1>. USE DEF Flying, Waiting, Told, Programming
<1>2. Rest /\ ~error_flag /\ done = 0 /\ Balance(t) /\ Operands(t) /\ Interrupts(t)
  BY <1>0 DEF Stage
<1>3. pc'[t] \in {"run_enable", "run_input", "run_start"}
  BY <1>0, OwnerRequest DEF RunAck, RunEnable, RunLength, Goto
<1>4. Balance(t)'
  BY <1>0, <1>1, <1>2, <1>3, BalanceKept
<1>5. CASE RunAck(t)
  <2>1. pc'[t] = "run_enable"
    BY <1>0, <1>5 DEF RunAck, Goto
  <2>2. /\ dev'.status = dev.status /\ dev'.timer = dev.timer
        /\ dev'.irq_status = {} /\ dev'.fault_control = dev.fault_control
        /\ dev'.err_code = dev.err_code
    BY <1>0, <1>5, AckEffect DEF RunAck
  <2>3. Calm' /\ Rest'
    BY <1>1, <1>2, <2>2 DEF Calm, Rest
  <2>. QED
    BY <1>1, <1>2, <1>4, <2>1, <2>3 DEF Stage, Operands, Interrupts
<1>6. CASE RunEnable(t)
  <2>1. pc'[t] = "run_input" /\ word'[t] = 1
    BY <1>0, <1>6, OwnerRequest DEF RunEnable, Goto
  <2>2. /\ dev'.status = dev.status /\ dev'.timer = dev.timer
        /\ dev'.irq_status = dev.irq_status /\ dev'.irq_enable = IrqBit
        /\ dev'.fault_control = dev.fault_control /\ dev'.err_code = dev.err_code
    BY <1>0, <1>6, EnableEffect DEF RunEnable
  <2>3. Calm' /\ Rest'
    BY <1>1, <1>2, <2>2 DEF Calm, Rest
  <2>4. \A i \in WordIndex : ~(i < word'[t])
    BY <2>1 DEF WordIndex
  <2>. QED
    BY <1>1, <1>2, <1>4, <2>1, <2>2, <2>3, <2>4 DEF Stage, Operands, Interrupts
<1>7. CASE RunLength(t)
  <2>1. pc'[t] = "run_start" /\ pc[t] = "run_length"
    BY <1>0, <1>7 DEF RunLength, Goto
  <2>2. /\ dev'.status = dev.status /\ dev'.timer = dev.timer
        /\ dev'.irq_status = dev.irq_status /\ dev'.irq_enable = dev.irq_enable
        /\ dev'.fault_control = dev.fault_control /\ dev'.err_code = dev.err_code
        /\ dev'.input = dev.input /\ dev'.vec_len = req[t].vector_length
    BY <1>0, <1>7, OwnerRequest, LengthEffect DEF RunLength
  <2>3. Calm' /\ Rest'
    BY <1>1, <1>2, <2>2 DEF Calm, Rest
  <2>. QED
    BY <1>1, <1>2, <1>4, <2>1, <2>2, <2>3 DEF Stage, Operands, Interrupts
<1>. QED
  BY <1>5, <1>6, <1>7

\* START meets an idle device, which accepts it, or one in STATUS_ERROR, which
\* announces its error again; from here the operation is in flight until the
\* caller is told.
LEMMA StartStep ==
  ASSUME IInv, OneCpu, Calm, NEW t \in Thread, Stage(t), RunStart(t)
  PROVE  Calm' /\ Stage(t)'
<1>0. /\ pc \in [Thread -> PC] /\ dev \in Device /\ pc[t] = "run_start" /\ MayRun
      /\ TypeOK
  BY DEF IInv, Base, TypeOK, RunStart, Goto
<1>1. /\ UNCHANGED <<done, isr, stats, error_flag, device_error, req>>
      /\ pc'[t] = "run_count"
  BY <1>0 DEF RunStart, Goto, driver, locals
<1>2. /\ Rest /\ ~error_flag /\ done = 0 /\ Operands(t) /\ Interrupts(t)
      /\ isr.pc = "idle" /\ Balance(t)
  BY <1>0, HandlerIdle DEF Stage, Flying, Waiting, Told, Programming
<1>3. /\ \/ dev'.status = "BUSY" /\ dev'.irq_status = {} /\ dev'.err_code = "NONE"
         \/ /\ dev.status = "ERROR" /\ dev'.status = "ERROR" /\ ~dev'.timer
            /\ dev'.irq_status = {"ERROR"} /\ dev'.err_code = dev.err_code
      /\ dev'.input = dev.input /\ dev'.vec_len = dev.vec_len
      /\ dev'.irq_enable = dev.irq_enable /\ dev'.fault_control = dev.fault_control
  BY <1>0, <1>2, StartEffect DEF RunStart, Rest
<1>4. Calm'
  BY <1>1, <1>2, <1>3 DEF Calm, Rest
<1>5. Flight'
  BY <1>1, <1>2, <1>3 DEF Flight, Rest
<1>6. Balance(t)'
  <2>1. Even
    BY <1>0, <1>2, BalanceEven DEF Flying, Waiting, Told
  <2>2. stats["submitted"] \in Nat /\ AllEnds(stats) \in Nat
    BY <1>0, StatFieldFacts DEF TypeOK, AllEnds, Ends
  <2>3. pc'[t] \in Flying
    BY <1>1 DEF Flying, Waiting
  <2>. QED
    BY <1>1, <1>2, <2>1, <2>2, <2>3 DEF Balance, Even
<1>7. Operands(t)' /\ Interrupts(t)'
  BY <1>0, <1>1, <1>2, <1>3 DEF Operands, Interrupts, Flying, Waiting, Told
<1>. QED
  BY <1>1, <1>4, <1>5, <1>6, <1>7 DEF Stage, Flying, Waiting, Told, Programming

\* A wait that times out has missed nothing: a timeout longer than the operation
\* expires when the device and the handler have nothing left to say.
LEMMA TimeoutStep ==
  ASSUME IInv, OneCpu, Calm, NEW t \in Thread, Stage(t), RunWaitTimeout(t)
  PROVE  Missed'
<1>0. /\ dev \in Device /\ LineSound(dev) /\ pc[t] = "run_wait" /\ done = 0 /\ MayRun
      /\ req[t] \in Request /\ ValidRequest(req[t])
      /\ UNCHANGED <<dev, isr, error_flag>>
  BY DEF IInv, Base, TypeOK, Validated, RunHeld, Sound, RunWaitTimeout, Goto, driver
<1>1. Flight /\ isr.pc = "idle" /\ isr.seen = {} /\ dev.irq_enable = IrqBit
  BY <1>0, HandlerIdle DEF Stage, Interrupts, Flying, Waiting
<1>2. ~error_flag
  BY <1>0, <1>1 DEF Flight
<1>3. CASE Unforced
  BY <1>0, <1>2, <1>3 DEF Missed, Unforced
<1>4. CASE LongTimeouts
  <2>1. Silent
    <3>1. req[t].timeout_ms > DOT_LATENCY_MS
      BY <1>0, <1>4 DEF LongTimeouts
    <3>2. req[t].timeout_ms \in Nat
      BY <1>0, RequestAssumption DEF RequestType
    <3>3. \A n \in Nat : n > DOT_LATENCY_MS => ~(n <= DOT_LATENCY_MS)
      BY DEF DOT_LATENCY_MS
    <3>4. ~(req[t].timeout_ms <= DOT_LATENCY_MS)
      BY <3>1, <3>2, <3>3, Zenon
    <3>. QED
      BY <3>4 DEF RunWaitTimeout
  <2>2. dev.irq_status = {}
    BY <1>0, <1>1, <2>1 DEF Silent, LineSound, Device
  <2>. QED
    BY <1>0, <1>1, <1>2, <2>1, <2>2 DEF Missed, Silent
<1>. QED
  BY <1>3, <1>4 DEF OneCpu

\* From the count of the submission to the moment the caller is told.
LEMMA WaitStep ==
  ASSUME IInv, OneCpu, Calm, NEW t \in Thread, Stage(t),
         RunCount(t) \/ RunWaitCompleted(t) \/ RunWaitTimeout(t)
  PROVE  Calm' /\ Stage(t)'
<1>0. /\ pc \in [Thread -> PC] /\ done \in Nat /\ stats \in [StatField -> Nat]
      /\ pc[t] \in Waiting /\ MayRun
  BY DEF IInv, Base, TypeOK, RunCount, RunWaitCompleted, RunWaitTimeout, Goto, Waiting
<1>1. UNCHANGED <<dev, isr, error_flag, device_error, req>>
  BY DEF RunCount, RunWaitCompleted, RunWaitTimeout, driver, locals
<1>. USE DEF Flying, Waiting, Told, Programming
<1>2. Flight /\ isr.seen = {} /\ Balance(t) /\ Operands(t) /\ Interrupts(t)
  BY <1>0, HandlerIdle DEF Stage
<1>3. Calm'
  BY <1>1 DEF Calm
<1>4. CASE RunCount(t)
  <2>1. pc[t] = "run_count" /\ pc'[t] = "run_wait" /\ done' = done
    BY <1>0, <1>4 DEF RunCount, Goto
  <2>2. /\ stats'["submitted"] = stats["submitted"] + 1
        /\ AllEnds(stats') = AllEnds(stats)
    <3>1. Count("submitted") /\ "submitted" \in StatField /\ TypeOK
      BY <1>4 DEF RunCount, StatField, IInv, Base
    <3>. QED
      BY <3>1, CountOne, StatFieldFacts DEF Ends, AllEnds
  <2>3. stats["submitted"] \in Nat /\ AllEnds(stats) \in Nat
    BY <1>0, StatFieldFacts DEF Ends, AllEnds
  <2>4. Balance(t)'
    BY <1>1, <1>2, <2>1, <2>2, <2>3 DEF Balance
  <2>5. Flight'
    BY <1>1, <1>2, <2>1 DEF Flight
  <2>. QED
    BY <1>1, <1>2, <1>3, <2>1, <2>4, <2>5 DEF Stage, Operands, Interrupts
<1>5. CASE RunWaitCompleted(t)
  <2>1. pc[t] = "run_wait" /\ pc'[t] = "run_woken" /\ done > 0 /\ UNCHANGED stats
    BY <1>0, <1>5 DEF RunWaitCompleted, Goto
  <2>2. Over'
    BY <1>1, <1>2, <2>1 DEF Flight, Over
  <2>3. Balance(t)'
    BY <1>1, <1>2, <2>1, BalanceKept
  <2>. QED
    BY <1>1, <1>2, <1>3, <2>1, <2>2, <2>3 DEF Stage, Operands, Interrupts
<1>6. CASE RunWaitTimeout(t)
  <2>1. /\ pc[t] = "run_wait" /\ pc'[t] = "run_timed_out"
        /\ UNCHANGED <<stats, done>>
    BY <1>0, <1>6 DEF RunWaitTimeout, Goto, driver
  <2>2. Flight'
    BY <1>1, <1>2, <2>1 DEF Flight
  <2>3. Balance(t)' /\ Missed'
    BY <1>1, <1>2, <1>6, <2>1, BalanceKept, TimeoutStep
  <2>. QED
    BY <1>1, <1>2, <1>3, <2>1, <2>2, <2>3 DEF Stage, Operands, Interrupts
<1>. QED
  BY <1>4, <1>5, <1>6

\* The caller is told: with an error it leaves the mutex and the device, which is
\* in STATUS_ERROR, to whoever comes next; without, it goes on to the result.
LEMMA WokenStep ==
  ASSUME IInv, OneCpu, Calm, NEW t \in Thread, Stage(t), RunWoken(t)
  PROVE  /\ Calm'
         /\ pc'[t] = "run_result" => Stage(t)'
         /\ pc'[t] # "run_result" =>
              pc'[t] = "run_error" /\ error_flag' /\ dev'.status = "ERROR" /\ Free'
<1>0. /\ pc \in [Thread -> PC] /\ pc[t] = "run_woken" /\ stats \in [StatField -> Nat]
      /\ pc'[t] = IF error_flag THEN "run_error" ELSE "run_result"
  BY DEF IInv, Base, TypeOK, RunWoken, Goto
<1>1. UNCHANGED <<dev, done, error_flag, device_error, stats, isr, req>>
  BY DEF RunWoken, locals, driver
<1>. USE DEF Flying, Waiting, Told, Programming
<1>2. Over /\ Balance(t) /\ Operands(t) /\ Interrupts(t)
  BY <1>0 DEF Stage
<1>3. Calm'
  BY <1>1 DEF Calm
<1>4. CASE error_flag
  <2>1. Rest'
    BY <1>1, <1>2, <1>4 DEF Over, Rest
  <2>2. Even'
    <3>1. stats["submitted"] \in Nat /\ AllEnds(stats) \in Nat
      BY <1>0, StatFieldFacts DEF Ends, AllEnds
    <3>. QED
      BY <1>0, <1>1, <1>2, <1>4, <3>1 DEF Balance, Even
  <2>. QED
    BY <1>0, <1>1, <1>2, <1>3, <1>4, <2>1, <2>2 DEF Free, Reporting, Over
<1>5. CASE ~error_flag
  <2>1. Over'
    BY <1>1, <1>2 DEF Over
  <2>2. Balance(t)'
    BY <1>0, <1>1, <1>2, <1>5, BalanceKept
  <2>. QED
    BY <1>0, <1>1, <1>2, <1>3, <1>5, <2>1, <2>2 DEF Stage, Operands, Interrupts
<1>. QED
  BY <1>4, <1>5

\* Both ends of an operation that was submitted count it and leave all at rest.
LEMMA EndStep ==
  ASSUME IInv, OneCpu, Calm, NEW t \in Thread, Stage(t), RunTimedOut(t) \/ RunResult(t)
  PROVE  Calm' /\ Free'
<1>0. /\ stats \in [StatField -> Nat] /\ dev \in Device /\ TypeOK
      /\ pc[t] \in {"run_timed_out", "run_result"} /\ MayRun
  BY DEF IInv, Base, TypeOK, RunTimedOut, RunResult, Goto
<1>1. /\ UNCHANGED <<isr, error_flag, device_error>> /\ ~error_flag
      /\ isr.pc = "idle" /\ isr.seen = {}
  BY <1>0, HandlerIdle DEF RunTimedOut, RunResult, Stage, Missed
<1>2. Even'
  <2>1. Count("timed_out") \/ Count("completed")
    BY DEF RunTimedOut, RunResult
  <2>2. /\ stats["submitted"] \in Nat /\ stats["completed"] \in Nat
        /\ stats["timed_out"] \in Nat /\ stats["device_error"] \in Nat
    BY <1>0, StatFieldFacts
  <2>3. /\ stats'["submitted"] = stats["submitted"]
        /\ AllEnds(stats') = AllEnds(stats) + 1
    BY <1>0, <2>1, <2>2, CountOne, StatFieldFacts DEF Ends, AllEnds
  <2>4. AllEnds(stats) \in Nat
    BY <2>2 DEF Ends, AllEnds
  <2>5. stats["submitted"] = AllEnds(stats) + 1
    BY <1>0, <1>1, <2>2, <2>4 DEF Stage, Balance, Flying, Waiting, Told
  <2>. QED
    BY <2>3, <2>5 DEF Even
<1>3. /\ dev'.status = "IDLE" /\ ~dev'.timer /\ dev'.irq_status = {}
      /\ dev'.fault_control \in {dev.fault_control, {}}
      /\ dev'.err_code \in {dev.err_code, "NONE"}
  <2>1. CASE RunTimedOut(t)
    BY <1>0, <2>1, ResetEffect DEF RunTimedOut
  <2>2. CASE RunResult(t)
    <3>1. Over /\ dev.status # "ERROR"
      BY <1>0, <1>1, <2>2 DEF RunResult, Goto, Stage, Told, Over
    <3>. QED
      BY <1>0, <2>2, <3>1, ReadEffect DEF RunResult, Over
  <2>. QED
    BY <2>1, <2>2
<1>. QED
  BY <1>1, <1>2, <1>3 DEF Calm, Free, Rest

\* The locked section of RESET.
LEMMA OwnResetStep ==
  ASSUME IInv, OneCpu, Calm, NEW t \in Thread, Stage(t), pc[t] \in ResetHeld,
         ResetStep(t)
  PROVE  /\ Calm' /\ Rest' /\ ~error_flag' /\ Even'
         /\ pc'[t] \in ResetHeld \cup {"idle"}
<1>0. /\ pc \in [Thread -> PC] /\ dev \in Device /\ stats \in [StatField -> Nat]
      /\ TypeOK
  BY DEF IInv, Base, TypeOK
<1>1. Rest /\ ~error_flag /\ Even
  BY <1>0, BalanceEven DEF Stage, ResetHeld, Flying, Waiting, Told
<1>2. UNCHANGED <<isr, error_flag, device_error>>
  BY DEF ResetStep, ResetLock, HwDisable, HwReset, HwAck, HwStatus, HwIrqStatus,
         HwErrorCode, driver
<1>3. pc'[t] \in ResetHeld \cup {"idle"}
  BY <1>0 DEF ResetStep, ResetLock, HwDisable, HwReset, HwAck, HwStatus, HwIrqStatus,
         HwErrorCode, HwRead, Goto, ResetHeld
<1>4. /\ dev'.status \in {dev.status, "IDLE"} /\ ~dev'.timer /\ dev'.irq_status = {}
      /\ dev'.fault_control \in {dev.fault_control, {}}
      /\ dev'.err_code \in {dev.err_code, "NONE"}
  <2>1. CASE HwDisable(t)
    BY <1>0, <1>1, <2>1, EnableEffect DEF HwDisable, Rest
  <2>2. CASE HwReset(t)
    BY <1>0, <2>2, ResetEffect DEF HwReset
  <2>3. CASE HwAck(t)
    BY <1>0, <1>1, <2>3, AckEffect DEF HwAck, Rest
  <2>4. CASE ResetLock(t) \/ HwStatus(t) \/ HwIrqStatus(t) \/ HwErrorCode(t)
    BY <1>1, <2>4 DEF ResetLock, HwStatus, HwIrqStatus, HwErrorCode, Rest
  <2>. QED
    BY <2>1, <2>2, <2>3, <2>4 DEF ResetStep
<1>5. Even'
  <2>1. UNCHANGED stats \/ Count("resets")
    BY DEF ResetStep, ResetLock, HwDisable, HwReset, HwAck, HwStatus, HwIrqStatus,
           HwErrorCode, driver
  <2>2. CASE Count("resets")
    BY <1>0, <1>1, <2>2, CountOne, StatFieldFacts DEF Even, AllEnds, Ends
  <2>. QED
    BY <1>1, <2>1, <2>2 DEF Even, AllEnds, Ends
<1>. QED
  BY <1>1, <1>2, <1>3, <1>4, <1>5 DEF Calm, Rest
----------------------------------------------------------------------------
\* Every step of the owner of the mutex.
LEMMA OwnerStep ==
  ASSUME IInv, IInv', OneCpu, LockInv, Calm, NEW t \in Thread, pc[t] \in Held, Stage(t),
         Call(t) \/ Step(t)
  PROVE  /\ Calm'
         /\ pc'[t] \in Held => Stage(t)'
         /\ pc'[t] \notin Held => Free'
         /\ pc'[t] \in Reporting => error_flag' /\ dev'.status = "ERROR"
<1>0. pc \in [Thread -> PC]
  BY DEF IInv, Base, TypeOK
<1>1. CASE RunInput(t) \/ RunAck(t) \/ RunEnable(t) \/ RunLength(t) \/ RunStart(t)
           \/ RunCount(t) \/ RunWaitCompleted(t) \/ RunWaitTimeout(t)
  <2>1. Calm' /\ Stage(t)'
    BY <1>1, InputStep, ProgramStep, StartStep, WaitStep
  <2>2. pc'[t] \in Held
    <3>1. pc'[t] # "run_bad_length"
      BY LockStep DEF OneCpu
    <3>. QED
      BY <1>0, <1>1, <3>1
      DEF RunInput, RunAck, RunEnable, RunLength, RunStart, RunCount,
          RunWaitCompleted, RunWaitTimeout, Goto, Held, RunHeld
  <2>. QED
    BY <2>1, <2>2 DEF Held, RunHeld, ResetHeld, Reporting
<1>2. CASE RunTimedOut(t) \/ RunResult(t)
  <2>1. pc'[t] = "copy_out"
    BY <1>0, <1>2 DEF RunTimedOut, RunResult, Goto
  <2>. QED
    BY <1>2, <2>1, EndStep DEF Held, RunHeld, ResetHeld, Reporting
<1>3. CASE RunWoken(t)
  BY <1>3, WokenStep DEF Held, RunHeld, ResetHeld, Reporting
<1>4. CASE pc[t] \in ResetHeld /\ ResetStep(t)
  <2>1. /\ Calm' /\ Rest' /\ ~error_flag' /\ Even'
        /\ pc'[t] \in ResetHeld \cup {"idle"}
    BY <1>4, OwnResetStep
  <2>2. Balance(t)'
    <3>1. stats'["submitted"] \in Nat /\ AllEnds(stats') \in Nat
      BY StatFieldFacts DEF IInv, Base, TypeOK, AllEnds, Ends
    <3>. QED
      BY <2>1, <3>1 DEF Balance, Even, Flying, Waiting, Told, ResetHeld
  <2>. QED
    BY <2>1, <2>2
    DEF Free, Stage, Operands, Interrupts, Held, RunHeld, ResetHeld, Flying, Waiting,
        Told, Programming, Reporting
<1>5. \/ RunInput(t) \/ RunAck(t) \/ RunEnable(t) \/ RunLength(t) \/ RunStart(t)
      \/ RunCount(t) \/ RunWaitCompleted(t) \/ RunWaitTimeout(t) \/ RunWoken(t)
      \/ RunTimedOut(t) \/ RunResult(t)
      \/ pc[t] \in ResetHeld /\ ResetStep(t)
  <2>. USE DEF Goto, Held, RunHeld, ResetHeld
  <2>1. ~Call(t)
    BY DEF Call, RunDot, Reset, SetFault, GetStat, CopyInFails, Enter
  <2>2. ~(SetFaultWrite(t) \/ GetStatRead(t) \/ CopyOut(t))
    BY DEF SetFaultWrite, GetStatRead, CopyOut
  <2>3. ~(RunLock(t) \/ RunError(t) \/ RunClear(t))
    BY DEF RunLock, RunError, RunClear
  <2>4. ~RunBadLength(t)
    BY DEF RunBadLength, LockInv
  <2>5. ResetStep(t) => pc[t] \in ResetHeld
    BY DEF ResetStep, ResetLock, HwDisable, HwReset, HwAck, HwStatus, HwIrqStatus,
           HwErrorCode, HwRead
  <2>. HIDE DEF Held, RunHeld, ResetHeld
  <2>. QED
    BY <2>1, <2>2, <2>3, <2>4, <2>5 DEF Step, RunStep
<1>. QED
  BY <1>1, <1>2, <1>3, <1>4, <1>5

\* A thread outside the locked sections changes nothing the invariant speaks of,
\* but for the fault control, and that with the mutex free; and it clears the
\* error it has reported.
LEMMA OutsiderStep ==
  ASSUME IInv, NEW t \in Thread, pc[t] \notin Held, Call(t) \/ Step(t),
         ~(RunLock(t) \/ ResetLock(t))
  PROVE  /\ UNCHANGED <<done, stats, isr, mutex, device_error>>
         /\ \/ UNCHANGED error_flag /\ (pc'[t] \in Reporting <=> pc[t] \in Reporting)
            \/ ~error_flag' /\ pc[t] \in Reporting /\ pc'[t] \notin Reporting
         /\ pc'[t] \notin Held
         /\ UNCHANGED dev \/ (mutex = NoThread /\ dev' = WriteFaultControl(dev, mask[t]))
<1>. USE DEF Goto, Held, RunHeld, ResetHeld, Reporting, driver
<1>0. pc \in [Thread -> PC]
  BY DEF IInv, Base, TypeOK
<1>1. CASE Call(t)
  <2>1. CASE CopyInFails(t)
    BY <1>0, <2>1 DEF CopyInFails, Enter
  <2>2. CASE ~CopyInFails(t)
    BY <1>0, <1>1, <2>2 DEF Call, RunDot, Reset, SetFault, GetStat, Enter
  <2>. QED
    BY <2>1, <2>2
<1>2. CASE RunStep(t)
  BY <1>0, <1>2
  DEF RunStep, RunAck, RunEnable, RunBadLength, RunInput, RunLength,
      RunStart, RunCount, RunWaitCompleted, RunWaitTimeout, RunTimedOut, RunWoken,
      RunError, RunClear, RunResult
<1>3. CASE ResetStep(t)
  BY <1>0, <1>3
  DEF ResetStep, HwDisable, HwReset, HwAck, HwStatus, HwIrqStatus, HwErrorCode, HwRead
<1>4. CASE SetFaultWrite(t) \/ GetStatRead(t) \/ CopyOut(t)
  BY <1>0, <1>4 DEF SetFaultWrite, GetStatRead, CopyOut
<1>. QED
  BY <1>1, <1>2, <1>3, <1>4 DEF Step

LEMMA ThreadStep ==
  ASSUME IInv, IInv', OneCpu, LockInv, OneInv, LockInv', NEW t \in Thread,
         Call(t) \/ Step(t)
  PROVE  OneInv'
<1>. pc \in [Thread -> PC] /\ mutex \in Thread \cup {NoThread} /\ dev \in Device
  BY DEF IInv, Base, TypeOK
<1>0. /\ Calm /\ Reports /\ (mutex = NoThread => Free)
      /\ \A s \in Thread : mutex = s => Stage(s)
  BY DEF OneInv
<1>. /\ Held \cap Reporting = {}
     /\ \A s \in Thread \ {t} : pc'[s] = pc[s] /\ req'[s] = req[s] /\ word'[s] = word[s]
  BY OthersKept DEF IInv, Base, Held, RunHeld, ResetHeld, Reporting
<1>1. CASE pc[t] \in Held
  <2>1. mutex = t /\ Stage(t)
    BY <1>0, <1>1 DEF LockInv, LockDiscipline
  <2>2. /\ Calm'
        /\ pc'[t] \in Held => Stage(t)'
        /\ pc'[t] \notin Held => Free'
        /\ pc'[t] \in Reporting => error_flag' /\ dev'.status = "ERROR"
    BY <1>0, <1>1, <2>1, OwnerStep
  <2>3. \/ mutex' = t /\ pc'[t] \in Held
        \/ mutex' = NoThread /\ pc'[t] \notin Held
    BY <1>1, <2>1, LockStep, ThreadAssumption DEF OneCpu
  <2>4. Reports'
    BY <1>0, <1>1, <2>2, NobodyReports DEF Reports
  <2>. QED
    BY <2>2, <2>3, <2>4, ThreadAssumption DEF OneInv
<1>2. CASE RunLock(t) \/ ResetLock(t)
  <2>1. mutex = NoThread /\ mutex' = t
    BY <1>2 DEF RunLock, ResetLock, Lock
  <2>2. Calm' /\ Stage(t)'
    BY <1>0, <1>2, <2>1, AcquireStep
  <2>3. pc[t] \notin Reporting /\ pc'[t] \notin Reporting
    BY <1>2 DEF RunLock, ResetLock, Goto, Reporting
  <2>4. Reports'
    BY <1>0, <2>3, NobodyReports DEF Reports
  <2>. QED
    BY <2>1, <2>2, <2>4, ThreadAssumption DEF OneInv
<1>3. CASE pc[t] \notin Held /\ ~(RunLock(t) \/ ResetLock(t))
  <2>1. /\ UNCHANGED <<done, stats, isr, mutex, device_error>>
        /\ \/ UNCHANGED error_flag /\ (pc'[t] \in Reporting <=> pc[t] \in Reporting)
           \/ ~error_flag' /\ pc[t] \in Reporting /\ pc'[t] \notin Reporting
        /\ UNCHANGED dev \/ (mutex = NoThread /\ dev' = WriteFaultControl(dev, mask[t]))
    BY <1>3, OutsiderStep
  <2>2. /\ dev'.status = dev.status /\ dev'.timer = dev.timer
        /\ dev'.irq_status = dev.irq_status /\ dev'.err_code = dev.err_code
        /\ dev'.fault_control = dev.fault_control \/ dev'.fault_control \subseteq mask[t]
    BY <2>1, FaultEffect
  <2>3. Calm'
    <3>1. Unforced => FAULT_FORCE_ERROR \notin mask[t]
      BY DEF Unforced, IInv, Base, TypeOK
    <3>. QED
      BY <1>0, <2>1, <2>2, <3>1 DEF Calm
  <2>4. Reports'
    <3>1. CASE UNCHANGED error_flag /\ (pc'[t] \in Reporting <=> pc[t] \in Reporting)
      BY <1>0, <2>2, <3>1 DEF Reports
    <3>2. CASE ~error_flag' /\ pc[t] \in Reporting /\ pc'[t] \notin Reporting
      <4>1. Lone
        BY <1>0, <3>2 DEF OneCpu, Calm, Reports
      <4>. QED
        BY <3>2, <4>1 DEF Lone, Reports
    <3>. QED
      BY <2>1, <3>1, <3>2
  <2>5. CASE mutex = NoThread
    <3>1. Free'
      BY <1>0, <2>1, <2>2, <2>5 DEF Free, Rest, Even
    <3>. QED
      BY <2>1, <2>3, <2>4, <2>5, <3>1, ThreadAssumption DEF OneInv
  <2>6. ASSUME NEW s \in Thread, mutex = s
        PROVE  Stage(s)'
    <3>1. s # t /\ pc[s] \in Held
      BY <1>3, <2>6 DEF LockInv, LockDiscipline
    <3>2. UNCHANGED <<dev, done, stats, isr, error_flag>>
      BY <1>0, <2>1, <2>6, <3>1, NobodyReports, ThreadAssumption
    <3>3. Stage(s)
      BY <1>0, <2>6
    <3>. QED
      BY <3>1, <3>2, <3>3
      DEF Stage, Rest, Flight, Missed, Over, Operands, Interrupts, Balance
  <2>. QED
    BY <2>1, <2>3, <2>4, <2>5, <2>6, ThreadAssumption DEF OneInv
<1>. QED
  BY <1>1, <1>2, <1>3
----------------------------------------------------------------------------
\* An interrupt the handler has read is one of the operation in flight.
LEMMA SeenInFlight ==
  ASSUME IInv, OneInv, isr.seen # {}
  PROVE  \E t \in Thread : mutex = t /\ pc[t] \in Waiting /\ Stage(t) /\ Flight
<1>1. ~Rest /\ ~Over
  BY DEF Rest, Over
<1>2. PICK t \in Thread : mutex = t
  BY <1>1 DEF OneInv, Free, IInv, Base, TypeOK
<1>. QED
  BY <1>1, <1>2 DEF OneInv, Stage, Flying

\* What the handler may do to a stage: it moves a completion along.
LEMMA HandlerMoves ==
  ASSUME IInv, OneInv, IsrRead \/ IsrAck
  PROVE  OneInv'
<1>0. /\ dev \in Device /\ LineSound(dev)
      /\ isr \in [pc : {"idle", "ack", "error", "flag", "complete"}, seen : SUBSET IrqBit]
  BY DEF IInv, Base, TypeOK, Sound
<1>1. Calm /\ Reports
  BY DEF OneInv
<1>2. UNCHANGED <<pc, req, word, mutex, stats, error_flag, device_error, done>>
  BY DEF IsrRead, IsrAck, driver, threads, locals
<1>3. /\ dev'.status = dev.status /\ dev'.timer = dev.timer
      /\ dev'.input = dev.input /\ dev'.vec_len = dev.vec_len
      /\ dev'.result = dev.result /\ dev'.irq_enable = dev.irq_enable
      /\ dev'.fault_control = dev.fault_control /\ dev'.err_code = dev.err_code
      /\ dev'.irq_status \subseteq dev.irq_status
  <2>1. CASE IsrAck
    BY <1>0, <2>1, AckEffect DEF IsrAck
  <2>2. CASE IsrRead
    BY <2>2 DEF IsrRead
  <2>. QED
    BY <2>1, <2>2
<1>4. /\ Calm'
      /\ Rest => Rest' 
      /\ Flight => Flight'
      /\ Over => Over'
      /\ Missed => Missed'
      /\ ~SharedLine /\ (isr.seen # {} \/ dev.irq_status # {}) =>
           isr'.seen # {} \/ dev'.irq_status # {}
  <2>1. CASE IsrRead
    <3>1. /\ UNCHANGED dev /\ isr.pc = "idle" /\ isr.seen = {}
          /\ isr'.pc = "ack" /\ isr'.seen = dev.irq_status
          /\ SharedLine \/ dev.irq_status # {}
      BY <1>0, <1>1, <2>1 DEF IsrRead, Calm, LineSound
    <3>. QED
      BY <1>1, <1>2, <3>1 DEF Calm, Rest, Flight, Over, Missed
  <2>2. CASE IsrAck
    <3>1. /\ isr'.seen = isr.seen /\ dev'.irq_status = {} /\ isr.pc = "ack"
          /\ isr'.pc = IF isr.seen = {} THEN "idle"
                       ELSE IF "ERROR" \in isr.seen THEN "error" ELSE "complete"
      BY <1>0, <2>2, AckEffect DEF IsrAck
    <3>2. isr.seen \subseteq {IF dev.status = "ERROR" THEN "ERROR" ELSE "COMPLETION"}
      BY <1>1 DEF Calm
    <3>3. isr'.pc = "complete" => dev.status # "ERROR"
      BY <3>1, <3>2
    <3>. QED
      BY <1>1, <1>2, <1>3, <3>1, <3>2, <3>3 DEF Calm, Rest, Flight, Over, Missed
  <2>. QED
    BY <2>1, <2>2
<1>5. ASSUME NEW s \in Thread, Stage(s)
      PROVE  Stage(s)'
  BY <1>2, <1>3, <1>4, <1>5 DEF Stage, Operands, Interrupts, Balance
<1>. QED
  BY <1>1, <1>2, <1>3, <1>4, <1>5 DEF OneInv, Reports, Free, Even

\* It notes the error of the operation in flight, counts it, and tells the caller.
LEMMA HandlerTells ==
  ASSUME IInv, IInv', OneInv, IsrErrorCode \/ IsrFlag \/ IsrComplete
  PROVE  OneInv'
<1>0. /\ dev \in Device /\ done \in Nat /\ stats \in [StatField -> Nat] /\ TypeOK
      /\ isr \in [pc : {"idle", "ack", "error", "flag", "complete"}, seen : SUBSET IrqBit]
      /\ ErrorSound(dev)
  BY DEF IInv, Base, TypeOK, Sound
<1>1. Calm /\ Reports
  BY DEF OneInv
<1>2. isr.seen # {}
  BY <1>1 DEF IsrErrorCode, IsrFlag, IsrComplete, Calm
<1>3. PICK t \in Thread : mutex = t /\ pc[t] \in Waiting /\ Stage(t) /\ Flight
  BY <1>2, SeenInFlight
<1>4. UNCHANGED <<dev, pc, req, word, mutex>>
  BY DEF IsrErrorCode, IsrFlag, IsrComplete, driver, threads, locals
<1>5. SUFFICES Calm' /\ Reports' /\ Stage(t)'
  BY <1>3, <1>4, ThreadAssumption DEF OneInv
<1>6. pc[t] \in Flying /\ pc[t] \notin Programming /\ pc[t] \notin Told
  BY <1>3 DEF Flying, Waiting, Told, Programming
<1>7. Operands(t)'
  BY <1>3, <1>4 DEF Stage, Operands
<1>8. CASE IsrErrorCode
  <2>1. /\ UNCHANGED <<done, error_flag, stats>> /\ isr.pc = "error"
        /\ isr'.pc = "flag" /\ isr'.seen = isr.seen /\ device_error' = dev.err_code
    BY <1>0, <1>8 DEF IsrErrorCode
  <2>2. dev.status = "ERROR" /\ dev.err_code = "FORCED"
    BY <1>0, <1>1, <2>1 DEF Calm, ErrorSound
  <2>3. Calm' /\ Reports' /\ Flight'
    BY <1>1, <1>3, <1>4, <2>1, <2>2 DEF Calm, Reports, Flight
  <2>4. Interrupts(t)' /\ Balance(t)' /\ (Missed => Missed')
    BY <1>3, <1>4, <2>1 DEF Stage, Interrupts, Balance, Missed
  <2>. QED
    BY <1>3, <1>4, <1>6, <1>7, <2>3, <2>4, <2>1 DEF Stage, Told
<1>9. CASE IsrFlag
  <2>1. /\ UNCHANGED <<done, device_error>> /\ isr.pc = "flag" /\ error_flag'
        /\ isr'.pc = "complete" /\ isr'.seen = isr.seen /\ Count("device_error")
    BY <1>0, <1>9 DEF IsrFlag
  <2>2. /\ dev.status = "ERROR" /\ device_error = "FORCED" /\ ~error_flag /\ ~Unforced
    BY <1>0, <1>1, <1>2, <1>3, <2>1 DEF Calm, Flight
  <2>3. Calm' /\ Reports' /\ Flight'
    BY <1>1, <1>3, <1>4, <2>1, <2>2 DEF Calm, Reports, Flight
  <2>4. pc[t] # "run_timed_out"
    BY <1>2, <1>3, <2>2 DEF Stage, Missed
  <2>5. Balance(t)'
    <3>1. /\ stats'["submitted"] = stats["submitted"]
          /\ AllEnds(stats') = AllEnds(stats) + 1
          /\ stats["submitted"] \in Nat /\ AllEnds(stats) \in Nat
      BY <1>0, <2>1, CountOne, StatFieldFacts DEF AllEnds, Ends
    <3>. QED
      BY <1>3, <1>4, <1>6, <2>1, <2>2, <3>1 DEF Stage, Balance
  <2>6. Interrupts(t)'
    BY <1>3, <1>4, <2>1 DEF Stage, Interrupts
  <2>. QED
    BY <1>4, <1>6, <1>7, <2>3, <2>4, <2>5, <2>6 DEF Stage, Told
<1>10. CASE IsrComplete
  <2>1. /\ UNCHANGED <<error_flag, device_error, stats>> /\ isr.pc = "complete"
        /\ done' = done + 1 /\ isr'.pc = "idle" /\ isr'.seen = {} /\ done' > 0
    BY <1>0, <1>10 DEF IsrComplete
  <2>2. Calm' /\ Reports'
    BY <1>1, <1>4, <2>1 DEF Calm, Reports
  <2>3. Flight'
    BY <1>0, <1>2, <1>3, <1>4, <2>1 DEF Flight
  <2>4. Interrupts(t)' /\ Balance(t)' /\ (Missed => Missed')
    BY <1>3, <1>4, <2>1 DEF Stage, Interrupts, Balance, Missed
  <2>. QED
    BY <1>3, <1>4, <1>6, <1>7, <2>1, <2>2, <2>3, <2>4 DEF Stage, Told
<1>. QED
  BY <1>8, <1>9, <1>10

\* The timer fires in flight only, with the caller's operands in place.
LEMMA TimerStep ==
  ASSUME IInv, OneCpu, LockInv, OneInv, TimerFires
  PROVE  OneInv'
<1>0. /\ dev \in Device /\ mutex \in Thread \cup {NoThread} /\ done \in Nat
      /\ dev.timer /\ dev.status = "BUSY"
      /\ isr.pc \in {"idle", "ack", "error", "flag", "complete"}
  BY DEF IInv, Base, TypeOK, TimerMeansBusy, TimerFires
<1>1. /\ Calm /\ Reports
      /\ UNCHANGED <<pc, req, word, mutex, stats, error_flag, device_error, isr, done>>
  BY DEF OneInv, TimerFires, driver, threads, locals
<1>2. /\ dev'.timer = FALSE /\ dev'.status \in {"DONE", "BUSY", "ERROR"}
      /\ dev'.status = "BUSY" => dev'.irq_status = {}
      /\ dev'.status = "ERROR" =>
           /\ dev'.irq_status = {"ERROR"} /\ dev'.err_code = "FORCED"
           /\ FAULT_FORCE_ERROR \in dev.fault_control
      /\ dev'.status = "DONE" =>
           /\ dev'.irq_status \subseteq {"COMPLETION"}
           /\ dev'.result.of = [i \in WordsOf(dev.vec_len) |-> dev.input[i]]
           /\ dev'.irq_status # {} \/ FAULT_IRQ_DROP \in dev.fault_control
      /\ dev'.status # "ERROR" => dev'.err_code = dev.err_code
      /\ dev'.input = dev.input /\ dev'.vec_len = dev.vec_len
      /\ dev'.irq_enable = dev.irq_enable /\ dev'.fault_control = dev.fault_control
  BY <1>0, <1>1, TimerEffect DEF TimerFires
<1>3. PICK t \in Thread : mutex = t
  BY <1>0 DEF OneInv, Free, Rest
<1>4. Stage(t) /\ pc[t] \in Waiting /\ Flight
  BY <1>0, <1>3 DEF OneInv, Stage, Rest, Over, Flying
<1>5. /\ done = 0 /\ isr.seen = {} /\ isr.pc \in {"idle", "ack"} /\ ~error_flag
      /\ dev.irq_status = {}
  BY <1>0, <1>1, <1>4 DEF Flight, Calm
<1>6. Calm' /\ Flight'
  <2>1. Calm'
    BY <1>1, <1>2, <1>5 DEF Calm
  <2>2. Flight'
    BY <1>1, <1>2, <1>5 DEF Flight
  <2>. QED
    BY <2>1, <2>2
<1>7. Operands(t)'
  <2>1. pc[t] \in RunHeld /\ pc[t] \in Flying /\ pc[t] # "run_input"
    BY <1>4 DEF Waiting, Flying, RunHeld
  <2>2. /\ \A i \in WordsOf(req[t].vector_length) : dev.input[i] = req[t].input[i]
        /\ dev.vec_len = req[t].vector_length
    BY <1>4, <2>1 DEF Stage, Operands
  <2>3. [i \in WordsOf(dev.vec_len) |-> dev.input[i]] =
          [i \in WordsOf(req[t].vector_length) |-> req[t].input[i]]
    BY <2>2
  <2>. QED
    BY <1>1, <1>2, <2>1, <2>2, <2>3 DEF Operands
<1>8. Interrupts(t)'
  BY <1>1, <1>2, <1>4 DEF Stage, Interrupts
<1>9. Balance(t)'
  BY <1>1, <1>4 DEF Stage, Balance
<1>10. pc[t] = "run_timed_out" => Missed'
  BY <1>0, <1>1, <1>4 DEF Stage, Missed, Unforced
<1>11. Stage(t)'
  BY <1>1, <1>4, <1>6, <1>7, <1>8, <1>9, <1>10
  DEF Stage, Waiting, Flying, Told, Programming
<1>12. Reports'
  BY <1>0, <1>1 DEF Reports
<1>. QED
  BY <1>1, <1>3, <1>6, <1>11, <1>12, ThreadAssumption DEF OneInv

LEMMA OneStep ==
  ASSUME IInv, IInv', OneCpu, LockInv, LockInv', OneInv, [Next]_vars
  PROVE  OneInv'
<1>1. CASE Finished \/ UNCHANGED vars
  BY <1>1
  DEF Finished, vars, OneInv, Calm, Reports, Free, Rest, Even, Balance, Stage, Flight,
      Missed, Over, Operands, Interrupts
<1>. QED
  BY <1>1, ThreadStep, HandlerMoves, HandlerTells, TimerStep DEF Next, Isr

LEMMA InitOne == Init => OneInv
<1>. SUFFICES ASSUME Init PROVE OneInv
  OBVIOUS
<1>1. Even
  BY DEF Init, ZeroStats, Even, AllEnds, Ends, StatField
<1>2. /\ dev.status = "IDLE" /\ ~dev.timer /\ dev.irq_status = {}
      /\ dev.err_code = "NONE" /\ dev.fault_control = {} /\ ~error_flag
      /\ isr.pc = "idle" /\ isr.seen = {} /\ mutex = NoThread
      /\ \A t \in Thread : pc[t] = "idle"
  BY DEF Init, RegisterInit
<1>. QED
  BY <1>1, <1>2, ThreadAssumption DEF OneInv, Calm, Reports, Reporting, Free, Rest

LEMMA SpecOneInv ==
  ASSUME OneCpu
  PROVE  Spec => [](IInv /\ LockInv /\ OneInv)
<1>1. Spec => []IInv /\ []LockInv
  BY SpecIInv, SpecLockInv, PTL DEF OneCpu
<1>2. IInv /\ IInv' /\ LockInv /\ LockInv' /\ OneInv /\ [Next]_vars => OneInv'
  BY OneStep
<1>. QED
  BY <1>1, <1>2, InitOne, PTL DEF Spec
----------------------------------------------------------------------------
\* Whatever faults and timeouts the sections before it met, a locked section
\* finds the device idle, or in STATUS_ERROR, with nothing in flight.
THEOREM DeviceFree ==
  ASSUME OneCpu
  PROVE  Spec => []DeviceFreeWithLock
<1>. OneInv => DeviceFreeWithLock
  BY DEF OneInv, Free, Rest, DeviceFreeWithLock
<1>. QED
  BY SpecOneInv, PTL

\* RESULT is read only from a device that finished.
THEOREM ResultWhenDone ==
  ASSUME OneCpu
  PROVE  Spec => []ResultReadWhenDone
<1>. LockInv /\ OneInv => ResultReadWhenDone
  BY DEF LockInv, LockDiscipline, OneInv, Stage, Told, Over, ResultReadWhenDone,
         Held, RunHeld
<1>. QED
  BY SpecOneInv, PTL

\* Every submission of every thread is counted as exactly one end.
THEOREM StatsBalanced ==
  ASSUME OneCpu
  PROVE  Spec => []StatsBalance
<1>. OneInv => StatsBalance
  BY DEF OneInv, Free, Even, AllEnds, Ends, StatsBalance
<1>. QED
  BY SpecOneInv, PTL

\* On a line of its own no completion is lost: who still waits on a finished
\* device has been, or is about to be, told, unless FAULT_IRQ_DROP said otherwise.
THEOREM NoCompletionLost ==
  ASSUME OneCpu, ~SharedLine
  PROVE  Spec => []CompletionNotLost
<1>. IInv /\ LockInv /\ OneInv => CompletionNotLost
  <2>. SUFFICES ASSUME IInv, LockInv, OneInv, NEW t \in Thread,
                       pc[t] = "run_wait", dev.status = "DONE"
                PROVE  \/ done > 0 \/ isr.pc # "idle" \/ dev.irq_line
                       \/ FAULT_IRQ_DROP \in dev.fault_control
    BY DEF CompletionNotLost
  <2>1. Stage(t) /\ Calm
    BY DEF LockInv, LockDiscipline, OneInv, Held, RunHeld
  <2>2. /\ dev.irq_enable = IrqBit
        /\ \/ done > 0 \/ isr.seen # {} \/ dev.irq_status # {}
           \/ FAULT_IRQ_DROP \in dev.fault_control
    BY <2>1 DEF Stage, Interrupts, Flying, Waiting
  <2>3. dev.irq_status # {} => dev.irq_line
    BY <2>1, <2>2 DEF IInv, Base, Sound, LineSound, Calm, IrqBit
  <2>. QED
    BY <2>1, <2>2, <2>3 DEF Calm
<1>. QED
  BY SpecOneInv, PTL

\* A successful RUN_DOT returns the product of its own operands over its own
\* length, whatever the calls before it and around it left in the registers.
THEOREM ResultOwn ==
  ASSUME OneCpu
  PROVE  Spec => ResultIsMine
<1>. DEFINE Mine ==
       \A t \in Thread :
         pc[t] = "run_result" /\ pc'[t] = "copy_out" =>
           out'[t].result.of =
             [i \in WordsOf(req[t].vector_length) |-> req[t].input[i]]
<1>1. IInv /\ LockInv /\ OneInv /\ [Next]_vars => [Mine]_vars
  <2>. SUFFICES ASSUME IInv, LockInv, OneInv, [Next]_vars, NEW t \in Thread,
                       pc[t] = "run_result", pc'[t] = "copy_out"
                PROVE  out'[t].result.of =
                         [i \in WordsOf(req[t].vector_length) |-> req[t].input[i]]
    OBVIOUS
  <2>1. Stage(t)
    BY DEF LockInv, LockDiscipline, OneInv, Held, RunHeld
  <2>2. RunResult(t)
    BY OwnMove
    DEF IInv, Base, Call, RunDot, Reset, SetFault, GetStat, CopyInFails, Enter, Goto, Step,
        RunStep, RunLock, RunAck, RunEnable, RunBadLength, RunInput, RunLength,
        RunStart, RunCount, RunWaitCompleted, RunWaitTimeout, RunTimedOut, RunWoken,
        RunError, RunClear, ResetStep, ResetLock, HwDisable, HwReset,
        HwAck, HwStatus, HwIrqStatus, HwErrorCode, HwRead, SetFaultWrite,
        GetStatRead, CopyOut
  <2>3. out'[t].result = dev.result
    BY <2>2 DEF RunResult, IInv, Base, TypeOK, Outcome
  <2>. QED
    BY <2>1, <2>3 DEF Stage, Operands, Over, Told, Flying
<1>. QED
  BY <1>1, SpecOneInv, PTL DEF Spec, ResultIsMine

\* A call that reports a device error reports the device's own, and the device is
\* still in STATUS_ERROR: no error_flag of an earlier call is left to be taken for
\* this one's.
THEOREM ErrorOwn ==
  ASSUME OneCpu
  PROVE  Spec => ErrorIsMine
<1>. DEFINE Mine ==
       \A t \in Thread :
         pc[t] = "run_error" /\ pc'[t] = "run_clear" =>
           dev.status = "ERROR" /\ out'[t].code = Errno(dev.err_code)
<1>1. IInv /\ OneInv /\ [Next]_vars => [Mine]_vars
  <2>. SUFFICES ASSUME IInv, OneInv, [Next]_vars, NEW t \in Thread,
                       pc[t] = "run_error", pc'[t] = "run_clear"
                PROVE  dev.status = "ERROR" /\ out'[t].code = Errno(dev.err_code)
    OBVIOUS
  <2>1. error_flag /\ dev.status = "ERROR" /\ Calm /\ ErrorSound(dev)
    BY DEF OneInv, Reports, Reporting, IInv, Base, Sound
  <2>2. dev.err_code = "FORCED" /\ device_error = "FORCED"
    BY <2>1 DEF Calm, ErrorSound
  <2>3. RunError(t)
    BY OwnMove
    DEF IInv, Base, Call, RunDot, Reset, SetFault, GetStat, CopyInFails, Enter, Goto, Step,
        RunStep, RunLock, RunAck, RunEnable, RunBadLength, RunInput, RunLength,
        RunStart, RunCount, RunWaitCompleted, RunWaitTimeout, RunTimedOut, RunWoken,
        RunClear, RunResult, ResetStep, ResetLock, HwDisable, HwReset,
        HwAck, HwStatus, HwIrqStatus, HwErrorCode, HwRead, SetFaultWrite,
        GetStatRead, CopyOut
  <2>4. out'[t].code = Errno(device_error)
    <3>1. out \in [Thread -> Outcome]
      BY DEF IInv, Base, TypeOK
    <3>. QED
      BY <2>3, <3>1 DEF RunError, Outcome
  <2>. QED
    BY <2>1, <2>2, <2>4
<1>. QED
  BY <1>1, SpecOneInv, PTL DEF Spec, ErrorIsMine
----------------------------------------------------------------------------
\* The state of the service, as VnpuDriver's INSTANCE maps it.
Failed == error_flag /\ OpenJobs # {}
Answers == [t \in Thread |-> AnswerTo(t)]
Counting == {t \in Thread : pc[t] = "run_count"}
Tally == [stats EXCEPT !["submitted"] = @ + Cardinality(Counting)]

\* A RUN_DOT has nothing to report before its end, and of a device error no more
\* than that.
Unanswered ==
  \A t \in Thread :
    /\ pc[t] \in RunHeld \cup {"run_lock", "run_error"} => out[t] = NoOutcome
    /\ pc[t] = "run_clear" =>
         /\ out[t].code # "EFAULT" /\ out[t].driver_status = "DEVICE_ERROR"
         /\ out[t].result = NoOutcome.result

RInv == IInv /\ LockInv /\ OneInv /\ ResetInv /\ Unanswered
----------------------------------------------------------------------------
LEMMA UnansweredStep ==
  ASSUME RInv, [Next]_vars
  PROVE  Unanswered'
<1>. TypeOK
  BY DEF RInv, IInv, Base
<1>1. ASSUME NEW t \in Thread, Call(t) \/ Step(t)
      PROVE  /\ pc'[t] \in RunHeld \cup {"run_lock", "run_error"} => out'[t] = NoOutcome
             /\ pc'[t] = "run_clear" =>
                  /\ out'[t].code # "EFAULT" /\ out'[t].driver_status = "DEVICE_ERROR"
                  /\ out'[t].result = NoOutcome.result
  <2>. USE DEF Goto, TypeOK, RunHeld, locals
  <2>0. pc[t] \in RunHeld \cup {"run_lock", "run_error"} => out[t] = NoOutcome
    BY DEF RInv, Unanswered
  <2>1. CASE Call(t)
    <3>1. CASE CopyInFails(t)
      BY <3>1 DEF CopyInFails, Enter
    <3>2. CASE ~CopyInFails(t)
      BY <2>1, <3>2 DEF Call, RunDot, Reset, SetFault, GetStat, Enter
    <3>. QED
      BY <3>1, <3>2
  <2>2. CASE RunError(t)
    <3>1. pc'[t] = "run_clear" /\ out[t] = NoOutcome /\ out \in [Thread -> Outcome]
      BY <2>0, <2>2 DEF RunError
    <3>2. Errno(device_error) # "EFAULT"
      BY DEF Errno
    <3>3. /\ out'[t].code = Errno(device_error) /\ out'[t].result = out[t].result
          /\ out'[t].driver_status = "DEVICE_ERROR"
      BY <2>2, <3>1 DEF RunError, Outcome
    <3>. QED
      BY <3>1, <3>2, <3>3
  <2>3. CASE RunStep(t) /\ ~RunError(t)
    BY <2>0, <2>3 DEF RunStep, RunLock, RunAck, RunEnable, RunBadLength,
                RunInput, RunLength, RunStart, RunCount, RunWaitCompleted,
                RunWaitTimeout, RunTimedOut, RunWoken, RunClear, RunResult
  <2>4. CASE ResetStep(t)
    BY <2>4 DEF ResetStep, ResetLock, HwDisable, HwReset, HwAck, HwStatus,
                HwIrqStatus, HwErrorCode, HwRead
  <2>5. CASE SetFaultWrite(t) \/ GetStatRead(t) \/ CopyOut(t)
    BY <2>5 DEF SetFaultWrite, GetStatRead, CopyOut
  <2>. QED
    BY <1>1, <2>1, <2>2, <2>3, <2>4, <2>5 DEF Step
<1>2. CASE \E t \in Thread : Call(t) \/ Step(t)
  BY <1>1, <1>2, OthersKept, OthersKeptToo DEF RInv, Unanswered
<1>3. CASE Isr \/ TimerFires \/ Finished \/ UNCHANGED vars
  BY <1>3, NobodyMovesToo DEF RInv, Unanswered
<1>. QED
  BY <1>2, <1>3 DEF Next

LEMMA SpecRInv ==
  ASSUME OneCpu
  PROVE  Spec => []RInv
<1>1. Init => Unanswered
  BY DEF Init, Unanswered, RunHeld
<1>. QED
  BY <1>1, InitReset, ResetStepInv, UnansweredStep, SpecOneInv, PTL DEF Spec, RInv
----------------------------------------------------------------------------
\* Facts about the mapping.

LEMMA NoOperandsFacts ==
  ASSUME NEW len \in {8, 16}, NEW f
  PROVE  /\ NoOutcome.result.of = <<>>
         /\ [i \in WordsOf(len) |-> f[i]] # <<>>
<1>1. [i \in 1..0 |-> ZeroWord] = <<>>
  OBVIOUS
<1>2. NoOutcome.result.of = <<>>
  BY <1>1 DEF NoOutcome, ZeroResult
<1>3. 1 \in WordsOf(len)
  BY DEF WordsOf
<1>4. DOMAIN [i \in WordsOf(len) |-> f[i]] = WordsOf(len) /\ DOMAIN <<>> = {}
  OBVIOUS
<1>. QED
  BY <1>2, <1>3, <1>4

\* The owner of the mutex is the only thread in a locked section.
LEMMA Alone ==
  ASSUME LockInv, NEW t \in Thread, pc[t] \in Held
  PROVE  \A s \in Thread \ {t} : pc[s] \notin Held
BY DEF LockInv, LockDiscipline

\* What is open in each case.
LEMMA NoneOpen ==
  ASSUME \A s \in Thread : pc[s] \notin Flying
  PROVE  OpenJobs = {}
BY DEF OpenJobs, Flying, Waiting, Told

LEMMA OneOpen ==
  ASSUME NEW t \in Thread, pc[t] \in Flying,
         \A s \in Thread \ {t} : pc[s] \notin Flying
  PROVE  OpenJobs = {[by |-> t, of |-> OperandsOf(req[t])]}
BY DEF OpenJobs, Flying, Waiting, Told

LEMMA SameOpen ==
  ASSUME \A s \in Thread :
           /\ pc'[s] \in Flying <=> pc[s] \in Flying
           /\ pc[s] \in Flying => req'[s] = req[s]
  PROVE  OpenJobs' = OpenJobs
<1>1. {u \in Thread : pc'[u] \in Flying} = {u \in Thread : pc[u] \in Flying}
  OBVIOUS
<1>2. \A u \in {v \in Thread : pc[v] \in Flying} : OperandsOf(req'[u]) = OperandsOf(req[u])
  OBVIOUS
<1>3. \A x : x \in OpenJobs <=> \E u \in {v \in Thread : pc[v] \in Flying} :
                                  x = [by |-> u, of |-> OperandsOf(req[u])]
  BY DEF OpenJobs, Flying, Waiting, Told
<1>4. \A x : x \in OpenJobs' <=> \E u \in {v \in Thread : pc'[v] \in Flying} :
                                  x = [by |-> u, of |-> OperandsOf(req'[u])]
  BY DEF OpenJobs, Flying, Waiting, Told
<1>5. \A x : x \in OpenJobs' <=> x \in OpenJobs
  BY <1>1, <1>2, <1>3, <1>4
<1>6. OpenJobs' \subseteq OpenJobs /\ OpenJobs \subseteq OpenJobs'
  BY <1>5
<1>. QED
  BY <1>6

\* The submission on the way to its counter: START is done, the count is not.
LEMMA TallyFacts ==
  ASSUME TypeOK
  PROVE  /\ Counting = {} => Tally = stats
         /\ \A t \in Thread :
              Counting = {t} => Tally = [stats EXCEPT !["submitted"] = @ + 1]
<1>. stats \in [StatField -> Nat] /\ stats["submitted"] \in Nat
  BY StatFieldFacts DEF TypeOK
<1>1. ASSUME Counting = {} PROVE Tally = stats
  <2>1. Cardinality(Counting) = 0
    BY <1>1, FS_EmptySet
  <2>. QED
    BY <2>1 DEF Tally
<1>2. ASSUME NEW t \in Thread, Counting = {t}
      PROVE  Tally = [stats EXCEPT !["submitted"] = @ + 1]
  <2>1. Cardinality(Counting) = 1
    BY <1>2, FS_Singleton
  <2>. QED
    BY <2>1 DEF Tally
<1>. QED
  BY <1>1, <1>2

LEMMA SameTally ==
  ASSUME UNCHANGED stats, \A s \in Thread : pc'[s] = "run_count" <=> pc[s] = "run_count"
  PROVE  Tally' = Tally
<1>1. Counting' = Counting
  BY DEF Counting
<1>. QED
  BY <1>1 DEF Tally

\* An answer depends on out, and on whether an error is about to be put there.
LEMMA SameAnswer ==
  ASSUME NEW s \in Thread, out'[s] = out[s],
         pc'[s] \in Reporting <=> pc[s] \in Reporting
  PROVE  AnswerTo(s)' = AnswerTo(s)
BY DEF AnswerTo, Reporting

LEMMA SameFailed ==
  ASSUME UNCHANGED error_flag, OpenJobs' = OpenJobs
  PROVE  Failed' = Failed
BY DEF Failed

\* Telling one thread.
LEMMA TellOne ==
  ASSUME NEW t \in Thread, NEW a, AnswerTo(t)' = a,
         \A s \in Thread \ {t} : AnswerTo(s)' = AnswerTo(s)
  PROVE  Answers' = [Answers EXCEPT ![t] = a]
BY DEF Answers
----------------------------------------------------------------------------
\* The actions of the service, in terms of the mapping.
LEMMA ServiceActions ==
  /\ UNCHANGED <<OpenJobs, Failed, Answers, Tally>> => UNCHANGED Service!vars
  /\ \A t, v :
       Service!Submit(t, v) <=>
         /\ OpenJobs = {} /\ OpenJobs' = {[by |-> t, of |-> v]}
         /\ Failed' = FALSE
         /\ Tally' = [Tally EXCEPT !["submitted"] = @ + 1]
         /\ Answers' = Answers
  /\ \A j :
       Service!Complete(j) <=>
         /\ j \in OpenJobs /\ ~Failed /\ OpenJobs' = {}
         /\ Answers' = [Answers EXCEPT ![j.by] = [kind |-> "completed", of |-> j.of]]
         /\ Tally' = [Tally EXCEPT !["completed"] = @ + 1]
         /\ Failed' = Failed
  /\ \A j :
       Service!TimeOut(j) <=>
         /\ j \in OpenJobs /\ ~Failed /\ OpenJobs' = {}
         /\ Answers' = [Answers EXCEPT ![j.by] = [kind |-> "timed_out", of |-> <<>>]]
         /\ Tally' = [Tally EXCEPT !["timed_out"] = @ + 1]
         /\ Failed' = Failed
  /\ \A j :
       Service!GiveUp(j) <=>
         /\ j \in OpenJobs /\ Failed /\ OpenJobs' = {} /\ Failed' = FALSE
         /\ Answers' = [Answers EXCEPT ![j.by] = [kind |-> "device_error", of |-> <<>>]]
         /\ Tally' = Tally
  /\ Service!DeviceFails <=>
         /\ OpenJobs # {} /\ ~Failed /\ Failed' = TRUE
         /\ Tally' = [Tally EXCEPT !["device_error"] = @ + 1]
         /\ UNCHANGED <<OpenJobs, Answers>>
  /\ \A t :
       Service!Other(t) <=>
         /\ \A j \in OpenJobs : j.by # t
         /\ \E kind \in {"nothing", "refused", "lost"} :
              Answers' = [Answers EXCEPT ![t] = [kind |-> kind, of |-> <<>>]]
         /\ UNCHANGED <<OpenJobs, Failed, Tally>>
  /\ Service!Reset <=>
         /\ OpenJobs = {}
         /\ Tally' = [Tally EXCEPT !["resets"] = @ + 1]
         /\ UNCHANGED <<OpenJobs, Failed, Answers>>
<1>. USE DEF Failed, Answers, Tally, Counting
<1>1. UNCHANGED <<OpenJobs, Failed, Answers, Tally>> => UNCHANGED Service!vars
  BY DEF Service!vars
<1>2. \A t, v :
       Service!Submit(t, v) <=>
         /\ OpenJobs = {} /\ OpenJobs' = {[by |-> t, of |-> v]}
         /\ Failed' = FALSE
         /\ Tally' = [Tally EXCEPT !["submitted"] = @ + 1]
         /\ Answers' = Answers
  BY DEF Service!Submit, Service!Count
<1>3. \A j :
       Service!Complete(j) <=>
         /\ j \in OpenJobs /\ ~Failed /\ OpenJobs' = {}
         /\ Answers' = [Answers EXCEPT ![j.by] = [kind |-> "completed", of |-> j.of]]
         /\ Tally' = [Tally EXCEPT !["completed"] = @ + 1]
         /\ Failed' = Failed
  BY DEF Service!Complete, Service!Tell, Service!Count
<1>4. \A j :
       Service!TimeOut(j) <=>
         /\ j \in OpenJobs /\ ~Failed /\ OpenJobs' = {}
         /\ Answers' = [Answers EXCEPT ![j.by] = [kind |-> "timed_out", of |-> <<>>]]
         /\ Tally' = [Tally EXCEPT !["timed_out"] = @ + 1]
         /\ Failed' = Failed
  BY DEF Service!TimeOut, Service!Tell, Service!Count, Service!NoOperands
<1>5. \A t :
       Service!Other(t) <=>
         /\ \A j \in OpenJobs : j.by # t
         /\ \E kind \in {"nothing", "refused", "lost"} :
              Answers' = [Answers EXCEPT ![t] = [kind |-> kind, of |-> <<>>]]
         /\ UNCHANGED <<OpenJobs, Failed, Tally>>
  BY DEF Service!Other, Service!Tell, Service!NotDone, Service!NoOperands
<1>6. Service!Reset <=>
         /\ OpenJobs = {}
         /\ Tally' = [Tally EXCEPT !["resets"] = @ + 1]
         /\ UNCHANGED <<OpenJobs, Failed, Answers>>
  BY DEF Service!Reset, Service!Count
<1>7. \A j :
       Service!GiveUp(j) <=>
         /\ j \in OpenJobs /\ Failed /\ OpenJobs' = {} /\ Failed' = FALSE
         /\ Answers' = [Answers EXCEPT ![j.by] = [kind |-> "device_error", of |-> <<>>]]
         /\ Tally' = Tally
  BY DEF Service!GiveUp, Service!Tell, Service!NoOperands
<1>8. Service!DeviceFails <=>
         /\ OpenJobs # {} /\ ~Failed /\ Failed' = TRUE
         /\ Tally' = [Tally EXCEPT !["device_error"] = @ + 1]
         /\ UNCHANGED <<OpenJobs, Answers>>
  BY DEF Service!DeviceFails, Service!Count
<1>. QED
  BY <1>1, <1>2, <1>3, <1>4, <1>5, <1>6, <1>7, <1>8

\* What each kind of outcome tells a caller.
LEMMA AnswerKinds ==
  ASSUME NEW t \in Thread, pc'[t] \notin Reporting
  PROVE  /\ out'[t] = NoOutcome => AnswerTo(t)' = [kind |-> "nothing", of |-> <<>>]
         /\ out'[t] = [NoOutcome EXCEPT !.code = "EINVAL"] =>
              AnswerTo(t)' = [kind |-> "refused", of |-> <<>>]
         /\ out'[t].code = "EFAULT" => AnswerTo(t)' = [kind |-> "lost", of |-> <<>>]
         /\ out'[t].code # "EFAULT" /\ out'[t].driver_status = "TIMEOUT" =>
              AnswerTo(t)' = [kind |-> "timed_out", of |-> out'[t].result.of]
         /\ (/\ out'[t].code = "OK" /\ out'[t].driver_status = "OK"
             /\ out'[t].result.of # <<>>) =>
              AnswerTo(t)' = [kind |-> "completed", of |-> out'[t].result.of]
<1>1. NoOutcome.result.of = <<>> /\ NoOutcome.code = "OK" /\ NoOutcome.driver_status = "OK"
  <2>1. [i \in 1..0 |-> ZeroWord] = <<>>
    OBVIOUS
  <2>. QED
    BY <2>1 DEF NoOutcome, ZeroResult
<1>2. ASSUME out'[t] = NoOutcome
      PROVE  AnswerTo(t)' = [kind |-> "nothing", of |-> <<>>]
  BY <1>1, <1>2 DEF AnswerTo, Reporting
<1>3. ASSUME out'[t] = [NoOutcome EXCEPT !.code = "EINVAL"]
      PROVE  AnswerTo(t)' = [kind |-> "refused", of |-> <<>>]
  <2>1. /\ out'[t].code = "EINVAL" /\ out'[t].driver_status = "OK"
        /\ out'[t].result.of = <<>>
    BY <1>1, <1>3 DEF NoOutcome
  <2>. QED
    BY <2>1 DEF AnswerTo, Reporting
<1>4. ASSUME out'[t].code = "EFAULT"
      PROVE  AnswerTo(t)' = [kind |-> "lost", of |-> <<>>]
  BY <1>4 DEF AnswerTo, Reporting
<1>5. ASSUME out'[t].code # "EFAULT", out'[t].driver_status = "TIMEOUT"
      PROVE  AnswerTo(t)' = [kind |-> "timed_out", of |-> out'[t].result.of]
  BY <1>5 DEF AnswerTo, Reporting
<1>6. ASSUME out'[t].code = "OK", out'[t].driver_status = "OK",
             out'[t].result.of # <<>>
      PROVE  AnswerTo(t)' = [kind |-> "completed", of |-> out'[t].result.of]
  BY <1>6 DEF AnswerTo, Reporting
<1>. QED
  BY <1>2, <1>3, <1>4, <1>5, <1>6

\* What holds of every step of a thread: the others' answers stay, and if its own
\* place relative to Flying does, so does the open job.
LEMMA OthersMap ==
  ASSUME RInv, NEW t \in Thread, Call(t) \/ Step(t)
  PROVE  /\ \A s \in Thread \ {t} : AnswerTo(s)' = AnswerTo(s)
         /\ (/\ pc'[t] \in Flying <=> pc[t] \in Flying
             /\ pc[t] \in Flying => req'[t] = req[t]) =>
              OpenJobs' = OpenJobs
         /\ UNCHANGED stats /\ pc'[t] # "run_count" /\ pc[t] # "run_count" =>
              Tally' = Tally
<1>1. \A s \in Thread \ {t} : pc'[s] = pc[s] /\ req'[s] = req[s] /\ out'[s] = out[s]
  BY OthersKept, OthersKeptToo DEF RInv, IInv, Base
<1>2. \A s \in Thread \ {t} : AnswerTo(s)' = AnswerTo(s)
  BY <1>1, SameAnswer
<1>3. ASSUME pc'[t] \in Flying <=> pc[t] \in Flying,
             pc[t] \in Flying => req'[t] = req[t]
      PROVE  OpenJobs' = OpenJobs
  BY <1>1, <1>3, SameOpen
<1>4. ASSUME UNCHANGED stats, pc'[t] # "run_count", pc[t] # "run_count"
      PROVE  Tally' = Tally
  BY <1>1, <1>4, SameTally
<1>. QED
  BY <1>2, <1>3, <1>4

\* A call begins, or is refused at once: the service's Other.
LEMMA CallMaps ==
  ASSUME RInv, RInv', NEW t \in Thread, Call(t)
  PROVE  Service!Other(t)
<1>0. /\ pc \in [Thread -> PC] /\ out \in [Thread -> Outcome]
  BY DEF RInv, IInv, Base, TypeOK
<1>1. /\ pc[t] = "idle" /\ UNCHANGED <<stats, error_flag>>
      /\ pc'[t] \in {"idle", "run_lock", "reset_lock", "fault_write", "stat_read"}
      /\ out'[t] \in {NoOutcome, [NoOutcome EXCEPT !.code = "EINVAL"],
                       [NoOutcome EXCEPT !.code = "EFAULT"]}
  <2>. USE DEF Enter, Goto, driver
  <2>1. CASE RunDot(t)
    BY <1>0, <2>1 DEF RunDot
  <2>2. CASE Reset(t) \/ GetStat(t)
    BY <1>0, <2>2 DEF Reset, GetStat
  <2>3. CASE SetFault(t)
    BY <1>0, <2>3 DEF SetFault
  <2>4. CASE CopyInFails(t)
    BY <1>0, <2>4 DEF CopyInFails
  <2>. QED
    BY <2>1, <2>2, <2>3, <2>4 DEF Call
<1>2. pc'[t] \notin Reporting
  BY <1>1 DEF Reporting
<1>3. PICK kind \in {"nothing", "refused", "lost"} :
        AnswerTo(t)' = [kind |-> kind, of |-> <<>>]
  <2>1. CASE out'[t] = [NoOutcome EXCEPT !.code = "EFAULT"]
    <3>1. out'[t].code = "EFAULT"
      BY <2>1 DEF NoOutcome
    <3>. QED
      BY <1>2, <3>1, AnswerKinds
  <2>. QED
    BY <1>1, <1>2, <2>1, AnswerKinds
<1>4. UNCHANGED <<OpenJobs, Failed, Tally>>
  BY <1>1, OthersMap, SameFailed DEF Flying, Waiting, Told
<1>5. Answers' = [Answers EXCEPT ![t] = [kind |-> kind, of |-> <<>>]]
  BY <1>3, OthersMap, TellOne
<1>6. \A j \in OpenJobs : j.by # t
  BY <1>1 DEF OpenJobs
<1>. QED
  BY <1>4, <1>5, <1>6, ServiceActions

\* START opens the job and counts it for the service; the driver counts it in its
\* next step.
LEMMA StartMaps ==
  ASSUME RInv, RInv', NEW t \in Thread, RunStart(t)
  PROVE  Service!Submit(t, OperandsOf(req[t]))
<1>0. /\ TypeOK /\ TypeOK' /\ pc \in [Thread -> PC] /\ LockInv
      /\ pc[t] = "run_start" /\ pc'[t] = "run_count"
      /\ UNCHANGED <<stats, out, req, error_flag>>
  BY DEF RInv, IInv, Base, TypeOK, RunStart, Goto, driver, locals
<1>1. \A s \in Thread \ {t} :
        pc'[s] = pc[s] /\ pc[s] \notin Flying /\ pc[s] # "run_count"
  BY <1>0, Alone, OthersKept DEF Step, RunStep, Held, RunHeld, Flying, Waiting, Told
<1>2. OpenJobs = {}
  BY <1>0, <1>1, NoneOpen DEF Flying, Waiting, Told
<1>3. OpenJobs' = {[by |-> t, of |-> OperandsOf(req[t])]}
  BY <1>0, <1>1 DEF OpenJobs, Flying, Waiting, Told
<1>4. Tally' = [Tally EXCEPT !["submitted"] = @ + 1]
  <2>1. Counting = {}
    BY <1>0, <1>1 DEF Counting
  <2>2. Counting' = {t}
    BY <1>0, <1>1 DEF Counting
  <2>3. Tally = stats
    BY <1>0, <2>1, TallyFacts
  <2>4. Cardinality(Counting') = 1
    BY <2>2, FS_Singleton
  <2>. QED
    BY <1>0, <2>3, <2>4 DEF Tally
<1>5. Answers' = Answers
  <2>1. AnswerTo(t)' = AnswerTo(t)
    BY <1>0, SameAnswer DEF Reporting
  <2>. QED
    BY <2>1, OthersMap DEF Answers, Step, RunStep
<1>6. Failed' = FALSE
  <2>1. Stage(t)
    BY <1>0 DEF RInv, OneInv, LockInv, LockDiscipline, Held, RunHeld
  <2>. QED
    BY <1>0, <2>1 DEF Stage, Failed, Flying, Waiting, Told
<1>. QED
  BY <1>2, <1>3, <1>4, <1>5, <1>6, ServiceActions

\* The count of the submission is already in the service's tally.
LEMMA CountMaps ==
  ASSUME RInv, RInv', NEW t \in Thread, RunCount(t)
  PROVE  UNCHANGED <<OpenJobs, Failed, Answers, Tally>>
<1>0. /\ TypeOK /\ pc \in [Thread -> PC] /\ LockInv
      /\ pc[t] = "run_count" /\ pc'[t] = "run_wait"
      /\ UNCHANGED <<out, req, error_flag>> /\ stats' = [stats EXCEPT !["submitted"] = @ + 1]
  BY DEF RInv, IInv, Base, TypeOK, RunCount, Count, Goto, locals
<1>1. \A s \in Thread \ {t} : pc'[s] = pc[s] /\ pc[s] # "run_count"
  BY <1>0, Alone, OthersKept DEF Step, RunStep, Held, RunHeld
<1>2. Tally' = Tally
  <2>1. Counting = {t} /\ Counting' = {}
    BY <1>0, <1>1 DEF Counting
  <2>2. Tally = stats'
    BY <1>0, <2>1, TallyFacts
  <2>3. Cardinality(Counting') = 0
    BY <2>1, FS_EmptySet
  <2>4. stats' \in [StatField -> Nat] /\ stats'["submitted"] \in Nat
    BY StatFieldFacts DEF RInv, IInv, Base, TypeOK
  <2>5. Tally' = stats'
    BY <2>3, <2>4 DEF Tally
  <2>. QED
    BY <2>2, <2>5
<1>3. AnswerTo(t)' = AnswerTo(t)
  BY <1>0, SameAnswer DEF Reporting
<1>4. OpenJobs' = OpenJobs /\ Answers' = Answers
  BY <1>0, <1>3, OthersMap DEF Answers, Step, RunStep, Flying, Waiting, Told
<1>. QED
  BY <1>0, <1>2, <1>4, SameFailed

\* Both ends of a job: the caller is told the end, and about its own operands.
LEMMA EndMaps ==
  ASSUME RInv, RInv', OneCpu, NEW t \in Thread, RunTimedOut(t) \/ RunResult(t)
  PROVE  \E j \in OpenJobs : Service!TimeOut(j) \/ Service!Complete(j)
<1>. DEFINE len == req[t].vector_length
            v == [i \in WordsOf(len) |-> req[t].input[i]]
            j == [by |-> t, of |-> OperandsOf(req[t])]
<1>0. /\ TypeOK /\ pc \in [Thread -> PC] /\ out \in [Thread -> Outcome] /\ LockInv
      /\ pc[t] \in {"run_timed_out", "run_result"} /\ pc'[t] = "copy_out"
      /\ stats \in [StatField -> Nat] /\ out[t] = NoOutcome /\ UNCHANGED req
      /\ pc[t] \in Held /\ pc[t] \in RunHeld
  BY DEF RInv, IInv, Base, TypeOK, RunTimedOut, RunResult, Goto, Unanswered, locals,
         Held, RunHeld
<1>1. \A s \in Thread \ {t} :
        pc'[s] = pc[s] /\ pc[s] \notin Flying /\ pc[s] # "run_count"
  BY <1>0, Alone, OthersKept DEF Step, RunStep, Held, RunHeld, Flying, Waiting, Told
<1>2. OpenJobs = {j} /\ OpenJobs' = {}
  <2>1. OpenJobs = {j}
    BY <1>0, <1>1, OneOpen DEF Flying, Waiting, Told
  <2>2. OpenJobs' = {}
    BY <1>0, <1>1 DEF OpenJobs, Flying, Waiting, Told
  <2>. QED
    BY <2>1, <2>2
<1>3. Tally = stats /\ Tally' = stats'
  <2>1. Counting = {} /\ Counting' = {}
    BY <1>0, <1>1 DEF Counting
  <2>2. Cardinality(Counting') = 0 /\ stats' \in [StatField -> Nat]
    <3>1. stats' \in [StatField -> Nat]
      BY DEF RInv, IInv, Base, TypeOK
    <3>. QED
      BY <2>1, <3>1, FS_EmptySet
  <2>3. stats'["submitted"] \in Nat
    BY <2>2, StatFieldFacts
  <2>4. Tally' = stats'
    BY <2>2, <2>3 DEF Tally
  <2>. QED
    BY <1>0, <2>1, <2>4, TallyFacts
<1>4. Failed = FALSE /\ Failed' = FALSE /\ pc'[t] \notin Reporting
  <2>1. Stage(t) /\ UNCHANGED error_flag
    BY <1>0 DEF RInv, OneInv, LockInv, LockDiscipline, RunTimedOut, RunResult
  <2>2. ~error_flag
    BY <1>0, <2>1 DEF Stage, Missed
  <2>. QED
    BY <1>0, <2>1, <2>2 DEF Failed, Reporting
<1>5. len \in {8, 16} /\ WordsOf(len) \subseteq WordIndex
  BY <1>0, OwnerRequest DEF RInv
<1>6. CASE RunTimedOut(t)
  <2>1. /\ out'[t].code = "ETIMEDOUT" /\ out'[t].driver_status = "TIMEOUT"
        /\ out'[t].result = NoOutcome.result
    BY <1>0, <1>6 DEF RunTimedOut, Outcome
  <2>2. AnswerTo(t)' = [kind |-> "timed_out", of |-> <<>>]
    BY <1>4, <1>5, <2>1, AnswerKinds, NoOperandsFacts
  <2>3. Answers' = [Answers EXCEPT ![j.by] = [kind |-> "timed_out", of |-> <<>>]]
    BY <2>2, <1>6, OthersMap, TellOne DEF Step, RunStep
  <2>4. stats' = [stats EXCEPT !["timed_out"] = @ + 1]
    BY <1>6 DEF RunTimedOut, Count
  <2>. QED
    BY <1>2, <1>3, <1>4, <2>3, <2>4, ServiceActions
<1>7. CASE RunResult(t)
  <2>1. mutex = t
    BY <1>0 DEF LockInv, LockDiscipline
  <2>2. dev.result.of = v /\ out'[t].result = dev.result
    <3>1. pc[t] = "run_result" /\ Stage(t)
      BY <1>7, <2>1 DEF RunResult, Goto, RInv, OneInv
    <3>2. dev.result.of = v
      BY <3>1 DEF Stage, Operands, Over, Told, Flying
    <3>. QED
      BY <1>0, <1>7, <3>2 DEF RunResult, Outcome
  <2>3. out'[t].code = "OK" /\ out'[t].driver_status = "OK"
    BY <1>0, <1>7 DEF RunResult, Outcome, NoOutcome
  <2>4. v # <<>> /\ v = OperandsOf(req[t])
    <3>1. WordsOf(len) \cap WordIndex = WordsOf(len)
      BY <1>5
    <3>2. OperandsOf(req[t]) = [i \in WordsOf(len) \cap WordIndex |-> req[t].input[i]]
      BY DEF OperandsOf
    <3>3. v # <<>>
      BY <1>5, NoOperandsFacts
    <3>. QED
      BY <3>1, <3>2, <3>3
  <2>5. AnswerTo(t)' = [kind |-> "completed", of |-> j.of]
    <3>. HIDE DEF v
    <3>. QED
      BY <1>4, <2>2, <2>3, <2>4, AnswerKinds
  <2>6. Answers' = [Answers EXCEPT ![j.by] = [kind |-> "completed", of |-> j.of]]
    <3>. j.by = t
      OBVIOUS
    <3>. HIDE DEF j
    <3>. QED
      BY <2>5, <1>7, OthersMap, TellOne DEF Step, RunStep
  <2>7. stats' = [stats EXCEPT !["completed"] = @ + 1]
    BY <1>7 DEF RunResult, Count
  <2>. HIDE DEF j
  <2>. QED
    BY <1>2, <1>3, <1>4, <2>6, <2>7, ServiceActions
<1>. QED
  BY <1>6, <1>7

\* The reads of a RESET find what they should, so it answers nothing new.
LEMMA ReadsFine ==
  ASSUME RInv, NEW t \in Thread, HwStatus(t) \/ HwIrqStatus(t) \/ HwErrorCode(t)
  PROVE  out'[t] = out[t] /\ out[t].code = "OK"
<1>0. out \in [Thread -> Outcome] /\ pc[t] \in {"hw_status", "hw_irq", "hw_err"}
  BY DEF RInv, IInv, Base, TypeOK, HwStatus, HwIrqStatus, HwErrorCode, HwRead, Goto
<1>1. out[t].code = "OK" /\ Clean(dev)
  BY <1>0 DEF RInv, ResetInv, Resetting, ResetHeld
<1>. QED
  BY <1>0, <1>1 DEF HwStatus, HwIrqStatus, HwErrorCode, HwRead, Clean, Outcome

\* The end of a RESET: the service's Reset, with no job open.
LEMMA ResetMaps ==
  ASSUME RInv, RInv', NEW t \in Thread, HwErrorCode(t)
  PROVE  Service!Reset
<1>0. /\ TypeOK /\ pc \in [Thread -> PC] /\ LockInv /\ out \in [Thread -> Outcome]
      /\ pc[t] = "hw_err" /\ pc'[t] = "idle" /\ UNCHANGED <<req, error_flag>>
      /\ stats \in [StatField -> Nat]
  BY DEF RInv, IInv, Base, TypeOK, HwErrorCode, HwRead, Goto, locals
<1>1. \A s \in Thread \ {t} :
        pc'[s] = pc[s] /\ pc[s] \notin Flying /\ pc[s] # "run_count"
  BY <1>0, Alone, OthersKept
  DEF Step, ResetStep, Held, RunHeld, ResetHeld, Flying, Waiting, Told
<1>2. OpenJobs = {} /\ OpenJobs' = OpenJobs
  BY <1>0, <1>1, NoneOpen, OthersMap DEF Step, ResetStep, Flying, Waiting, Told
<1>3. out'[t] = out[t] /\ stats' = [stats EXCEPT !["resets"] = @ + 1]
  BY <1>0, ReadsFine DEF HwErrorCode, HwRead, Count
<1>4. Tally' = [Tally EXCEPT !["resets"] = @ + 1]
  <2>1. Counting = {} /\ Counting' = {}
    BY <1>0, <1>1 DEF Counting
  <2>2. Cardinality(Counting') = 0 /\ stats' \in [StatField -> Nat]
    <3>1. stats' \in [StatField -> Nat]
      BY DEF RInv, IInv, Base, TypeOK
    <3>. QED
      BY <2>1, <3>1, FS_EmptySet
  <2>3. stats'["submitted"] \in Nat
    BY <2>2, StatFieldFacts
  <2>4. Tally' = stats'
    BY <2>2, <2>3 DEF Tally
  <2>5. Tally = stats
    BY <1>0, <2>1, TallyFacts
  <2>. QED
    BY <1>3, <2>4, <2>5
<1>5. Answers' = Answers
  <2>1. AnswerTo(t)' = AnswerTo(t)
    BY <1>0, <1>3, SameAnswer DEF Reporting
  <2>. QED
    BY <2>1, OthersMap DEF Answers, Step, ResetStep
<1>6. UNCHANGED Failed
  BY <1>0, <1>2, SameFailed
<1>. QED
  BY <1>2, <1>4, <1>5, <1>6, ServiceActions

\* A call returns: its answer is copied out, or lost.
LEMMA CopyMaps ==
  ASSUME RInv, RInv', NEW t \in Thread, CopyOut(t)
  PROVE  Service!Other(t) \/ UNCHANGED <<OpenJobs, Failed, Answers, Tally>>
<1>0. /\ pc \in [Thread -> PC] /\ out \in [Thread -> Outcome]
      /\ pc[t] = "copy_out" /\ pc'[t] = "idle" /\ UNCHANGED <<stats, error_flag>>
      /\ out'[t] = out[t] \/ out'[t].code = "EFAULT"
  BY DEF RInv, IInv, Base, TypeOK, CopyOut, Goto, driver, Outcome
<1>1. UNCHANGED <<OpenJobs, Failed, Tally>>
  BY <1>0, OthersMap, SameFailed DEF Step, Flying, Waiting, Told
<1>2. CASE out'[t] = out[t]
  <2>1. AnswerTo(t)' = AnswerTo(t)
    BY <1>0, <1>2, SameAnswer DEF Reporting
  <2>. QED
    BY <1>1, <2>1, OthersMap DEF Answers, Step
<1>3. CASE out'[t].code = "EFAULT"
  <2>1. AnswerTo(t)' = [kind |-> "lost", of |-> <<>>]
    BY <1>0, <1>3, AnswerKinds DEF Reporting
  <2>2. Answers' = [Answers EXCEPT ![t] = [kind |-> "lost", of |-> <<>>]]
    BY <2>1, OthersMap, TellOne DEF Step
  <2>3. \A j \in OpenJobs : j.by # t
    BY <1>0 DEF OpenJobs
  <2>. QED
    BY <1>1, <2>2, <2>3, ServiceActions
<1>. QED
  BY <1>0, <1>2, <1>3

\* The caller is told of the device's error: the service gives the job up.
LEMMA GiveUpMaps ==
  ASSUME RInv, NEW t \in Thread, RunWoken(t), error_flag
  PROVE  \E j \in OpenJobs : Service!GiveUp(j)
<1>. DEFINE j == [by |-> t, of |-> OperandsOf(req[t])]
<1>0. /\ pc \in [Thread -> PC] /\ LockInv /\ out[t] = NoOutcome
      /\ pc[t] = "run_woken" /\ pc'[t] = "run_error"
      /\ UNCHANGED <<stats, out, req>>
  BY DEF RInv, IInv, Base, TypeOK, Unanswered, RunHeld, RunWoken, Goto, driver, locals
<1>1. \A s \in Thread \ {t} : pc'[s] = pc[s] /\ pc[s] \notin Flying
  BY <1>0, Alone, OthersKept
  DEF RInv, IInv, Base, Step, RunStep, Held, RunHeld, Flying, Waiting, Told
<1>2. OpenJobs = {j}
  BY <1>0, <1>1, OneOpen DEF Flying, Told
<1>3. OpenJobs' = {}
  BY <1>0, <1>1 DEF OpenJobs, Flying, Waiting, Told
<1>4. Failed = TRUE /\ Failed' = FALSE
  BY <1>2, <1>3 DEF Failed
<1>5. AnswerTo(t)' = [kind |-> "device_error", of |-> <<>>]
  <2>1. NoOutcome.result.of = <<>> /\ NoOutcome.code = "OK"
    BY NoOperandsFacts DEF NoOutcome
  <2>. QED
    BY <1>0, <2>1 DEF AnswerTo
<1>6. Answers' = [Answers EXCEPT ![j.by] = [kind |-> "device_error", of |-> <<>>]]
  BY <1>5, OthersMap, TellOne DEF Step, RunStep
<1>7. Tally' = Tally
  BY <1>0, OthersMap DEF Step, RunStep
<1>. HIDE DEF j
<1>. QED
  BY <1>2, <1>3, <1>4, <1>6, <1>7, ServiceActions

\* Putting the error into the answer, and forgetting it, is no news to the service.
LEMMA ReportMaps ==
  ASSUME RInv, OneCpu, NEW t \in Thread, RunError(t) \/ RunClear(t)
  PROVE  UNCHANGED <<OpenJobs, Failed, Answers, Tally>>
<1>0. /\ pc \in [Thread -> PC] /\ out \in [Thread -> Outcome] /\ UNCHANGED <<stats, req>>
      /\ pc[t] \in Reporting /\ pc'[t] \in {"run_clear", "copy_out"}
  BY DEF RInv, IInv, Base, TypeOK, RunError, RunClear, Goto, Reporting, driver, locals
<1>1. OpenJobs' = OpenJobs /\ Tally' = Tally
  BY <1>0, OthersMap DEF Step, RunStep, Flying, Waiting, Told, Reporting
<1>2. Failed' = Failed
  <2>1. Lone
    BY <1>0 DEF RInv, OneInv, OneCpu, Calm, Reports
  <2>2. OpenJobs = {}
    BY <1>0, <2>1 DEF Lone, OpenJobs, Reporting
  <2>. QED
    BY <1>1, <2>2 DEF Failed
<1>3. AnswerTo(t)' = AnswerTo(t)
  <2>1. NoOutcome.result.of = <<>> /\ NoOutcome.code = "OK"
    BY NoOperandsFacts DEF NoOutcome
  <2>2. CASE RunError(t)
    <3>1. out[t] = NoOutcome /\ pc[t] = "run_error" /\ pc'[t] = "run_clear"
      BY <1>0, <2>2 DEF RunError, Goto, RInv, Unanswered
    <3>2. Errno(device_error) # "EFAULT"
      BY DEF Errno
    <3>3. out'[t].code = Errno(device_error) /\ out'[t].result = out[t].result
      BY <1>0, <2>2 DEF RunError, Outcome
    <3>. QED
      BY <2>1, <3>1, <3>2, <3>3 DEF AnswerTo
  <2>3. CASE RunClear(t)
    <3>1. /\ out'[t] = out[t] /\ pc[t] = "run_clear" /\ pc'[t] = "copy_out"
          /\ out[t].code # "EFAULT" /\ out[t].driver_status = "DEVICE_ERROR"
          /\ out[t].result = NoOutcome.result
      BY <1>0, <2>3 DEF RunClear, Goto, RInv, Unanswered
    <3>. QED
      BY <2>1, <3>1 DEF AnswerTo
  <2>. QED
    BY <2>2, <2>3
<1>. QED
  BY <1>1, <1>2, <1>3, OthersMap DEF Answers, Step, RunStep

\* Every other step of a thread is the driver's own business.
Silently(t) ==
  \/ RunLock(t) \/ RunAck(t) \/ RunEnable(t) \/ RunInput(t) \/ RunLength(t)
  \/ RunWaitCompleted(t) \/ RunWaitTimeout(t) \/ (RunWoken(t) /\ ~error_flag)
  \/ ResetLock(t) \/ HwDisable(t) \/ HwReset(t) \/ HwAck(t)
  \/ HwStatus(t) \/ HwIrqStatus(t)
  \/ SetFaultWrite(t) \/ GetStatRead(t)

LEMMA SilentMaps ==
  ASSUME RInv, RInv', NEW t \in Thread, Silently(t)
  PROVE  UNCHANGED <<OpenJobs, Failed, Answers, Tally>>
<1>. pc \in [Thread -> PC]
  BY DEF RInv, IInv, Base, TypeOK
<1>0. Step(t)
  BY DEF Silently, Step, RunStep, ResetStep
<1>1. /\ pc'[t] \in Flying <=> pc[t] \in Flying
      /\ pc[t] # "run_count" /\ pc'[t] # "run_count"
      /\ pc[t] \notin Reporting /\ pc'[t] \notin Reporting
  <2>. USE DEF Goto, Flying, Waiting, Told, Reporting
  <2>1. CASE RunWoken(t) /\ ~error_flag
    BY <2>1 DEF RunWoken
  <2>2. CASE RunLock(t) \/ RunAck(t) \/ RunEnable(t) \/ RunInput(t) \/ RunLength(t)
             \/ RunWaitCompleted(t) \/ RunWaitTimeout(t)
    BY <2>2 DEF RunLock, RunAck, RunEnable, RunInput, RunLength, RunWaitCompleted,
                RunWaitTimeout
  <2>3. CASE ResetLock(t) \/ HwDisable(t) \/ HwReset(t) \/ HwAck(t) \/ HwStatus(t)
             \/ HwIrqStatus(t) \/ SetFaultWrite(t) \/ GetStatRead(t)
    BY <2>3 DEF ResetLock, HwDisable, HwReset, HwAck, HwStatus, HwIrqStatus, HwRead,
                SetFaultWrite, GetStatRead
  <2>. QED
    BY <2>1, <2>2, <2>3 DEF Silently
<1>2. UNCHANGED <<stats, req, error_flag>>
  BY DEF Silently, RunLock, RunAck, RunEnable, RunInput, RunLength, RunWaitCompleted,
         RunWaitTimeout, RunWoken, ResetLock, HwDisable, HwReset, HwAck, HwStatus,
         HwIrqStatus, SetFaultWrite, GetStatRead, driver, locals
<1>3. out'[t] = out[t]
  <2>1. CASE HwStatus(t) \/ HwIrqStatus(t)
    BY <2>1, ReadsFine
  <2>2. CASE ~(HwStatus(t) \/ HwIrqStatus(t))
    BY <2>2
    DEF Silently, RunLock, RunAck, RunEnable, RunInput, RunLength, RunWaitCompleted,
        RunWaitTimeout, RunWoken, ResetLock, HwDisable, HwReset, HwAck,
        SetFaultWrite, GetStatRead
  <2>. QED
    BY <2>1, <2>2
<1>4. AnswerTo(t)' = AnswerTo(t)
  BY <1>1, <1>3, SameAnswer
<1>5. OpenJobs' = OpenJobs /\ Tally' = Tally /\ Answers' = Answers
  BY <1>0, <1>1, <1>2, <1>4, OthersMap DEF Answers
<1>. QED
  BY <1>2, <1>5, SameFailed

\* The handler counts the error of the job: the service's device fails it.
LEMMA FailMaps ==
  ASSUME RInv, IsrFlag
  PROVE  Service!DeviceFails
<1>1. UNCHANGED <<pc, out, req>> /\ Count("device_error") /\ error_flag'
  BY DEF IsrFlag, threads, locals
<1>2. isr.seen # {} /\ isr.pc = "flag" /\ IInv /\ OneInv
  BY DEF RInv, OneInv, Calm, IsrFlag
<1>3. PICK t \in Thread : pc[t] \in Waiting /\ Flight
  BY <1>2, SeenInFlight
<1>4. ~error_flag
  BY <1>2, <1>3 DEF Flight
<1>5. OpenJobs # {}
  BY <1>3 DEF OpenJobs, Waiting
<1>6. OpenJobs' = OpenJobs
  BY <1>1, SameOpen
<1>7. Failed' = TRUE /\ ~Failed
  BY <1>1, <1>4, <1>5, <1>6 DEF Failed
<1>8. Answers' = Answers
  BY <1>1, SameAnswer DEF Answers
<1>9. Tally' = [Tally EXCEPT !["device_error"] = @ + 1]
  <2>1. Counting' = Counting
    BY <1>1 DEF Counting
  <2>2. stats \in [StatField -> Nat] /\ {"device_error", "submitted"} \subseteq StatField
    BY DEF RInv, IInv, Base, TypeOK, StatField
  <2>. DEFINE n == Cardinality(Counting)
  <2>3. Tally = [stats EXCEPT !["submitted"] = stats["submitted"] + n]
    BY DEF Tally
  <2>4. Tally' = [stats' EXCEPT !["submitted"] = stats'["submitted"] + n]
    BY <2>1 DEF Tally
  <2>. HIDE DEF n
  <2>. QED
    BY <1>1, <2>2, <2>3, <2>4 DEF Count
<1>. QED
  BY <1>5, <1>6, <1>7, <1>8, <1>9, ServiceActions

\* The rest of the handler and the timer are the driver's and the device's own:
\* they move no thread and count nothing.
LEMMA MachineMaps ==
  ASSUME RInv, Isr \/ TimerFires \/ Finished \/ UNCHANGED vars, ~IsrFlag
  PROVE  UNCHANGED <<OpenJobs, Failed, Answers, Tally>>
<1>1. UNCHANGED <<pc, out, req>>
  BY NobodyMoves, NobodyMovesToo
<1>2. UNCHANGED <<stats, error_flag>>
  BY DEF Isr, IsrRead, IsrAck, IsrErrorCode, IsrComplete, TimerFires,
         Finished, vars, driver
<1>3. OpenJobs' = OpenJobs
  BY <1>1, SameOpen
<1>4. Tally' = Tally
  BY <1>1, <1>2, SameTally
<1>5. \A s \in Thread : AnswerTo(s)' = AnswerTo(s)
  BY <1>1, SameAnswer
<1>. QED
  BY <1>2, <1>3, <1>4, <1>5, SameFailed DEF Answers
----------------------------------------------------------------------------
LEMMA InitMaps == Init => Service!Init
<1>. SUFFICES ASSUME Init PROVE Service!Init
  OBVIOUS
<1>1. /\ error_flag = FALSE /\ stats = [f \in StatField |-> 0]
      /\ \A t \in Thread : pc[t] = "idle" /\ out[t] = NoOutcome
  BY DEF Init, ZeroStats
<1>2. OpenJobs = {} /\ Failed = FALSE
  BY <1>1 DEF OpenJobs, Failed
<1>3. \A t \in Thread : AnswerTo(t) = [kind |-> "nothing", of |-> <<>>]
  <2>1. [i \in 1..0 |-> ZeroWord] = <<>>
    OBVIOUS
  <2>2. /\ NoOutcome.result.of = <<>> /\ NoOutcome.code = "OK"
        /\ NoOutcome.driver_status = "OK"
    BY <2>1 DEF NoOutcome, ZeroResult
  <2>. QED
    BY <1>1, <2>2 DEF AnswerTo
<1>4. Tally = [f \in StatField |-> 0]
  <2>1. Counting = {}
    BY <1>1 DEF Counting
  <2>2. Cardinality(Counting) = 0
    BY <2>1, FS_EmptySet
  <2>. QED
    BY <1>1, <2>2 DEF Tally
<1>. QED
  BY <1>2, <1>3, <1>4
  DEF Service!Init, Service!NoOperands, Service!StatField, StatField, Failed, Tally,
      Counting

LEMMA StepMaps ==
  ASSUME RInv, RInv', OneCpu, [Next]_vars
  PROVE  [Service!Next]_(Service!vars)
<1>1. ASSUME NEW t \in Thread, Call(t) \/ Step(t)
      PROVE  [Service!Next]_(Service!vars)
  <2>1. CASE Call(t)
    BY <2>1, CallMaps DEF Service!Next
  <2>2. CASE RunStart(t)
    <3>1. OperandsOf(req[t]) \in {OperandsOf(r) : r \in Request}
      BY DEF RInv, IInv, Base, TypeOK
    <3>. QED
      BY <2>2, <3>1, StartMaps DEF Service!Next
  <2>3. CASE RunCount(t)
    BY <2>3, CountMaps, ServiceActions
  <2>4. CASE RunTimedOut(t) \/ RunResult(t)
    BY <2>4, EndMaps DEF Service!Next
  <2>5. CASE HwErrorCode(t)
    BY <2>5, ResetMaps DEF Service!Next
  <2>6. CASE CopyOut(t)
    BY <2>6, CopyMaps, ServiceActions DEF Service!Next
  <2>7. CASE Silently(t)
    BY <2>7, SilentMaps, ServiceActions
  <2>8. CASE RunWoken(t) /\ error_flag
    BY <2>8, GiveUpMaps DEF Service!Next
  <2>9. CASE RunError(t) \/ RunClear(t)
    BY <2>9, ReportMaps, ServiceActions
  <2>10. ~RunBadLength(t)
    BY DEF RunBadLength, Goto, RInv, LockInv
  <2>. QED
    BY <1>1, <2>1, <2>2, <2>3, <2>4, <2>5, <2>6, <2>7, <2>8, <2>9, <2>10
    DEF Step, RunStep, ResetStep, Silently
<1>2. CASE Isr \/ TimerFires \/ Finished \/ UNCHANGED vars
  <2>1. CASE IsrFlag
    BY <2>1, FailMaps DEF Service!Next
  <2>. QED
    BY <1>2, <2>1, MachineMaps, ServiceActions
<1>. QED
  BY <1>1, <1>2 DEF Next

\* The callers see VnpuService: one job at a time, ended and counted once, every
\* caller answered about its own operands and its own error.
THEOREM DriverImplementsService ==
  ASSUME OneCpu
  PROVE  Spec => ImplementsService
<1>1. RInv /\ RInv' /\ [Next]_vars => [Service!Next]_(Service!vars)
  BY StepMaps
<1>. QED
  BY <1>1, InitMaps, SpecRInv, PTL DEF Spec, ImplementsService, Service!Spec
=============================================================================
