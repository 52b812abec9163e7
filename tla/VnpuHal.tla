------------------------------ MODULE VnpuHal ------------------------------
(***************************************************************************)
(* The C++ HAL, cpp-hal/src/vnpu-hal.cpp: what LinuxVnpuDevice puts into   *)
(* an ioctl and makes of its outcome, and MockVnpuDevice, which answers    *)
(* the same calls from two fields.  Everything here is a function; VnpuCtl *)
(* runs the two side by side.                                              *)
(*                                                                         *)
(* A vector is a function [0..n-1 -> Int8].  A call returns a value or     *)
(* throws a VnpuError; the two are records of one shape.                   *)
(***************************************************************************)
EXTENDS VnpuInt8, FiniteSets

\* enum class FaultType, as the set of bits of its value.
FaultType ==
  [none |-> {}, irq_drop |-> {0}, stuck_busy |-> {1}, corrupt_result |-> {2},
   force_error |-> {3}]

Returned(value) ==
  [status |-> "success", type |-> "none", what |-> "", errno |-> "OK",
   value |-> value]

Thrown(type, what, errno) ==
  [status |-> "error", type |-> type, what |-> what, errno |-> errno,
   value |-> <<>>]

Size(v) == Cardinality(DOMAIN v)

\* DeviceInfo of both backends: the driver's abi_version, the device's DEVICE_ID.
Info ==
  Returned([abi_version |-> 1, device_id |-> 1447972949, revision |-> 0,
            capabilities |-> 0])
----------------------------------------------------------------------------
\* Mutant: no upper bound on the timeout.
Rejection_NoUpperBound(input_a, input_b, timeout) ==
  IF Size(input_a) # Size(input_b) THEN "length mismatch"
  ELSE IF Size(input_a) # 8 THEN "requires vector length 8"
  ELSE IF timeout <= 0 THEN "timeout must be positive"
  ELSE ""

\* The checks both backends make before anything else, in their order; "" when
\* all pass.
Rejection(input_a, input_b, timeout) ==
  IF Size(input_a) # Size(input_b) THEN "length mismatch"
  ELSE IF Size(input_a) # 8 THEN "requires vector length 8"
  ELSE IF timeout \notin 1..1000 THEN "timeout must be positive"
  ELSE ""

\* pack_int8_input on both operands.
BuildInput(input_a, input_b) ==
  [i \in 1..4 |-> [a |-> PackWord(input_a, Size(input_a), i - 1),
                   b |-> PackWord(input_b, Size(input_b), i - 1)]]

BuildRequest(input_a, input_b, timeout) ==
  [abi_version |-> 1, vector_length |-> Size(input_a), timeout_ms |-> timeout,
   input |-> BuildInput(input_a, input_b)]

\* The number in RESULT: what vnpu_dot_product adds up over the packed words the
\* result is of, with FAULT_CORRUPT_RESULT applied.
DotProductOf(words) ==
  LET sum[i \in 0..Size(words)] ==
        IF i = 0 THEN 0 ELSE sum[i - 1] + WordProduct(words[i].a, words[i].b)
  IN  sum[Size(words)]
ResultValue(result) ==
  IF result.flipped THEN FlipLowBit(DotProductOf(result.of))
                    ELSE DotProductOf(result.of)

DotReply(value, driver_status) ==
  Returned([result |-> value, driver_status |-> driver_status])

\* LinuxVnpuDevice::vnpu_run_dot after the ioctl.  driver_status is the caller's
\* copy, so that the branch on it is taken only if the driver copied it out.
\* EBUSY, and an EINVAL without driver_status, fall through to the return.
LinuxRunDot(out) ==
  CASE out.code = "ETIMEDOUT" -> Thrown("device_error", "Device time out", out.code)
    [] out.code = "EFAULT" -> Thrown("system_error", "failed to copy struct", out.code)
    [] out.code = "EINVAL" /\ out.driver_status \in {"INV_REV", "INV_LEN", "INV_TIME"}
         -> Thrown("validation_error", out.driver_status, out.code)
    [] out.code = "EIO" -> Thrown("system_error", "Device force error", out.code)
    [] OTHER -> DotReply(ResultValue(out.result), out.driver_status)

LinuxReset(out) ==
  IF out.code # "OK"
  THEN Thrown("system_error", "unspecified error : reset", out.code)
  ELSE Returned("OK")

LinuxSetFault(out) ==
  CASE out.code = "EFAULT" -> Thrown("system_error", "failed to copy struct", out.code)
    [] out.code = "EINVAL" -> Thrown("validation_error", "invalid fault mask", out.code)
    [] OTHER -> Returned("OK")

LinuxGetStats(out, status) ==
  IF out.code # "OK"
  THEN Thrown("system_error", "get stats", out.code)
  ELSE Returned(status)
----------------------------------------------------------------------------
\* MockVnpuDevice: fault_mask_ and stats_.
MockInit(zero) == [fault_mask |-> {}, stats |-> zero]

\* MockVnpuDevice::dot_product, after i turns of its loop.
MockDot(input_a, input_b) ==
  LET sum[i \in 0..Size(input_a)] ==
        IF i = 0 THEN 0 ELSE sum[i - 1] + input_a[i - 1] * input_b[i - 1]
  IN  sum[Size(input_a)]

\* Which counter a submission ends in, besides submitted.
MockEnd(fault_mask) ==
  CASE fault_mask \in {FaultType.stuck_busy, FaultType.irq_drop} -> "timed_out"
    [] fault_mask = FaultType.force_error -> "device_error"
    [] OTHER -> "completed"

\* What vnpu_run_dot answers.  A call the checks reject counts nothing.
MockRunDot(m, input_a, input_b, timeout) ==
  IF Rejection(input_a, input_b, timeout) # ""
  THEN Thrown("validation_error", Rejection(input_a, input_b, timeout), "OK")
  ELSE CASE MockEnd(m.fault_mask) = "timed_out" -> Thrown("device_error", "timeout", "OK")
         [] MockEnd(m.fault_mask) = "device_error"
              -> Thrown("device_error", "force error", "OK")
         [] m.fault_mask = FaultType.corrupt_result
              -> DotReply(FlipLowBit(MockDot(input_a, input_b)), "OK")
         [] OTHER -> DotReply(MockDot(input_a, input_b), "OK")

MockAfterRunDot(m, input_a, input_b, timeout) ==
  IF Rejection(input_a, input_b, timeout) # "" THEN m
  ELSE [m EXCEPT !.stats["submitted"] = @ + 1,
                 !.stats[MockEnd(m.fault_mask)] = @ + 1]

\* Mutant: the fault outlives a reset.
MockAfterReset_KeepsFault(m) == [m EXCEPT !.stats["resets"] = @ + 1]

MockAfterReset(m) ==
  [m EXCEPT !.stats["resets"] = @ + 1, !.fault_mask = FaultType.none]

MockAfterSetFault(m, type) == [m EXCEPT !.fault_mask = FaultType[type]]
=============================================================================
