------------------------------ MODULE VnpuCtl ------------------------------
(***************************************************************************)
(* The whole stack: vnpuctl processes, one after another, each parsing a   *)
(* command line, making one call of the HAL's Linux backend, which makes   *)
(* one ioctl of VnpuDriver, and printing what comes back.  Beside it       *)
(* MockVnpuDevice is given the same calls, as the HAL's unit tests do, so  *)
(* that a state holds both answers.                                        *)
(*                                                                         *)
(* A command line is the record it parses to, with the mistakes that       *)
(* parsing finds; a printed schema is its fields and the exit code.  Which *)
(* file the operands come from and how they are spelled is left out.       *)
(***************************************************************************)
EXTENDS VnpuDriver, VnpuHal

CONSTANTS
  CommandLine,  \* [command, path, input_a, input_b, timeout_ms, fault]
  NoCommand     \* no vnpuctl runs

\* A list of the input file: whether every token is a decimal integer, and the
\* integers.  fault: the word after inject-fault, "" if there is none.
ASSUME CommandLineAssumption ==
  /\ \E t \in Thread : Thread = {t}
  /\ NoCommand \notin CommandLine
  /\ \A c \in CommandLine : \A list \in {c.input_a, c.input_b} :
       list.numeric \in BOOLEAN /\ list.values \in Seq(Int)

self == CHOOSE t \in Thread : TRUE

VARIABLES
  cmd,    \* the command line being executed, or NoCommand
  reply,  \* what was last printed: [to, exit, real, mock]
  m,      \* the mock: fault_mask_ and stats_
  trouble \* "timeout", "error": the last run-dot ended so and no RESET followed;
          \* "strayed": the mock was used differently since

ctl == <<cmd, reply, m, trouble>>
ctlVars == <<vars, ctl>>

Silence == [to |-> NoCommand, exit |-> 0, real |-> Returned("OK"), mock |-> Returned("OK")]

CtlInit ==
  /\ Init
  /\ cmd = NoCommand
  /\ reply = Silence
  /\ m = MockInit(ZeroStats)
  /\ trouble = "none"
----------------------------------------------------------------------------
\* main and its parsers.

\* parse_int8_list: every token an integer, in range, and eight of them.
parse_int8_list(list) ==
  /\ list.numeric
  /\ \A i \in DOMAIN list.values : list.values[i] \in Int8
  /\ Len(list.values) = 8

\* parse_run_dot_input_json; the lengths are equal once both lists parse.
ParsesRunDot(c) ==
  parse_int8_list(c.input_a) /\ parse_int8_list(c.input_b) /\ c.timeout_ms > 0

\* static_cast<std::int8_t> of each parsed value.
VectorOf(list) == [i \in 0..(Len(list.values) - 1) |-> list.values[i + 1]]

\* parse_fault_type.
FaultNames ==
  [irq_drop |-> "irq-drop", stuck_busy |-> "stuck-busy",
   corrupt_result |-> "corrupt-result", force_error |-> "force-error"]
IsFaultName(name) == \E type \in DOMAIN FaultNames : FaultNames[type] = name
parse_fault_type(name) == CHOOSE type \in DOMAIN FaultNames : FaultNames[type] = name

\* What reaches the outer catch: the constructor comes first.
ArgumentError(c) ==
  \/ c.path # "/dev/vnpu0"
  \/ c.command = "run-dot" /\ ~ParsesRunDot(c)
  \/ c.command = "inject-fault" /\ c.fault = ""

A(c) == VectorOf(c.input_a)
B(c) == VectorOf(c.input_b)
Rejected(c) == c.command = "run-dot" /\ Rejection(A(c), B(c), c.timeout_ms) # ""

Answer(c, exit, real, mock) ==
  reply' = [to |-> c, exit |-> exit, real |-> real, mock |-> mock]

\* The commands that end without a change of state below the HAL: errors of the
\* command line, a call the HAL rejects, an unknown fault, info.  A command that
\* main does not know prints nothing and succeeds.
Local(c) ==
  /\ cmd = NoCommand
  /\ \/ /\ ArgumentError(c)
        /\ LET error == Thrown("internal_error", "argument parse", "OK")
           IN  Answer(c, 1, error, error)
     \/ /\ ~ArgumentError(c) /\ Rejected(c)
        /\ Answer(c, 0, Thrown("validation_error", Rejection(A(c), B(c), c.timeout_ms), "OK"),
                       MockRunDot(m, A(c), B(c), c.timeout_ms))
     \/ /\ ~ArgumentError(c) /\ c.command = "inject-fault" /\ ~IsFaultName(c.fault)
        /\ LET error == Thrown("internal_error", "unknown fault type", "OK")
           IN  Answer(c, 0, error, error)
     \/ /\ ~ArgumentError(c) /\ c.command = "info"
        /\ Answer(c, 0, Info, Info)
  /\ UNCHANGED <<vars, cmd, m, trouble>>

\* The commands that reach an ioctl which changes or reads shared state.
Reaches(c, command) ==
  /\ cmd = NoCommand
  /\ c.command = command
  /\ ~ArgumentError(c) /\ ~Rejected(c)
  /\ cmd' = c
  /\ UNCHANGED <<reply, m, trouble>>

CtlRunDot(c) ==
  /\ Reaches(c, "run-dot")
  /\ RunDot(self)
  /\ req'[self] = BuildRequest(A(c), B(c), c.timeout_ms)

\* The FaultType of inject-fault and clear-faults.
FaultOf(c) == IF c.command = "clear-faults" THEN "none" ELSE parse_fault_type(c.fault)

CtlSetFault(c) ==
  /\ \/ Reaches(c, "clear-faults")
     \/ Reaches(c, "inject-fault") /\ IsFaultName(c.fault)
  /\ SetFault(self)
  /\ mask'[self] = FaultType[FaultOf(c)]

CtlReset(c) == Reaches(c, "reset") /\ Reset(self)

CtlStats(c) == Reaches(c, "stats") /\ GetStat(self)
----------------------------------------------------------------------------
\* The ioctl has returned: print the schema, and give the mock the same call.
Returns(command) ==
  /\ cmd # NoCommand /\ cmd.command \in command
  /\ pc[self] = "idle"
  /\ cmd' = NoCommand
  /\ UNCHANGED vars

\* The mock's fault outlives its timeout and a real force-error outlives its
\* fault: from the next run-dot on the two differ, unless both fail again.
Strays ==
  \/ trouble = "timeout"
  \/ trouble = "error" /\ MockEnd(m.fault_mask) # "device_error"

RunDotReturns ==
  /\ Returns({"run-dot"})
  /\ Answer(cmd, 0, LinuxRunDot(out[self]), MockRunDot(m, A(cmd), B(cmd), cmd.timeout_ms))
  /\ m' = MockAfterRunDot(m, A(cmd), B(cmd), cmd.timeout_ms)
  /\ trouble' = IF trouble = "strayed" \/ Strays THEN "strayed"
                ELSE CASE out[self].driver_status = "TIMEOUT" -> "timeout"
                       [] out[self].driver_status = "DEVICE_ERROR" -> "error"
                       [] OTHER -> "none"

SetFaultReturns ==
  /\ Returns({"inject-fault", "clear-faults"})
  /\ Answer(cmd, 0, LinuxSetFault(out[self]), Returned("OK"))
  /\ m' = MockAfterSetFault(m, FaultOf(cmd))
  /\ trouble' = IF trouble = "timeout" THEN "none" ELSE trouble

ResetReturns ==
  /\ Returns({"reset"})
  /\ Answer(cmd, 0, LinuxReset(out[self]), Returned("OK"))
  /\ m' = MockAfterReset(m)
  /\ trouble' = IF trouble = "strayed" THEN "strayed" ELSE "none"

StatsReturns ==
  /\ Returns({"stats"})
  /\ Answer(cmd, 0, LinuxGetStats(out[self], snap[self]), Returned(m.stats))
  /\ UNCHANGED <<m, trouble>>

CtlNext ==
  \/ \E c \in CommandLine :
       Local(c) \/ CtlRunDot(c) \/ CtlSetFault(c) \/ CtlReset(c) \/ CtlStats(c)
  \/ RunDotReturns \/ SetFaultReturns \/ ResetReturns \/ StatsReturns
  \/ (Step(self) \/ Isr \/ TimerFires) /\ UNCHANGED ctl

CtlSpec == CtlInit /\ [][CtlNext]_ctlVars
----------------------------------------------------------------------------
\* A run-dot that says success printed the dot product of the operands on its
\* command line (python-tests/test_run_dot.py:32-33), whatever failed, timed out
\* or was reset before it: packing, registers, sign extension and sums included.
\* Only corrupt-result, injected and neither cleared nor reset, may have its low
\* bit flipped.  It takes a vec_len that is set (run false_success), and no forced
\* error that meets a timeout of up to 100 ms: that timeout's RESET leaves
\* error_flag set, the next call is answered EIO for it without reading RESULT and
\* leaves the device DONE, and the EBUSY of the one after is printed as a success.
ReplyIsProduct ==
  reply.to # NoCommand /\ reply.to.command = "run-dot" /\ reply.real.status = "success" =>
    LET product == MockDot(A(reply.to), B(reply.to)) IN
      \/ reply.real.value.result = product
      \/ /\ m.fault_mask = FaultType.corrupt_result
         /\ reply.real.value.result = FlipLowBit(product)

\* Until a run-dot follows a failed one without a reset, a program cannot tell
\* the mock from the device: same verdict, same number, same counters.  (The
\* type and text of an error do differ.)
MockAgrees ==
  trouble # "strayed" =>
    /\ reply.real.status = reply.mock.status
    /\ reply.real.status = "success" => reply.real.value = reply.mock.value
    /\ cmd = NoCommand => m.stats = stats

\* After the HAL's own checks no call is answered EINVAL or EBUSY, for which
\* vnpu_run_dot has no branch and would return a result nobody computed: no call
\* before it, timed-out ones included, leaves the device unready for a START.  On
\* the same conditions as ReplyIsProduct.
HalRequestsAccepted == out[self].code \notin {"EINVAL", "EBUSY"}
=============================================================================
