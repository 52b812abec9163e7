# A TLA+ verification of the virtual NPU

The repository is a virtual accelerator and its software stack: a QEMU PCI
device that computes signed INT8 dot products, a Linux driver with an ioctl
interface, a C++ HAL with a real and a mock backend, a command line tool, and
tests. This directory holds TLA+ models of the device, of the driver running on
it from probe to remove, of the HAL and its mock, and of `vnpuctl` on top of them
all, TLC configurations that check them, and proofs for TLAPS.

## 1. Inventory

| Component | State | Operations | Talks to |
|---|---|---|---|
| Device, `qemu-device/src/vnpu.c` | `struct VnpuState`: status, error code, operands, result, job id, interrupt status / enable, fault, vector length; `dot_timer`; the INTx line | MMIO reads and writes of 4 bytes, the timer callback, realize, uninit | guest software (MMIO), the CPU (INTx) |
| Driver, `linux-driver/src/vnpu_drv.c` | `struct vnpu_device`: a completion, a mutex, `error_flag`, `device_error`, five counters, `device_revision` | ioctls GET_INFO, RUN_DOT, RESET, SET_FAULT, GET_STAT; the interrupt handler; probe, remove | the device, callers |
| HAL, Linux backend, `cpp-hal/src/vnpu-hal.cpp` 17-202 | a file descriptor | the five calls, `pack_int8_input` | the driver (ioctl, errno) |
| HAL, mock backend, `vnpu-hal.cpp` 204-308 | a fault mask, five counters | the same five calls | unit tests |
| `vnpuctl`, `cpp-hal/src/vnpuctl.cpp` | none | one HAL call per process, JSON in and out | the HAL, the Python tests |
| Python tests, smoke tests, scripts | none | drive the stack, compare with a reference dot product | `vnpuctl`, `/dev/mem`, sysfs |

How an operation goes: `vnpuctl run-dot` -> `LinuxVnpuDevice::vnpu_run_dot` packs
the operands -> RUN_DOT validates, takes the mutex, programs the operand and
length registers, writes START -> the device is BUSY for 100 ms -> `dot_timer`
computes, injects the configured fault, raises COMPLETION or ERROR -> the
interrupt handler acknowledges, records an error, completes -> RUN_DOT wakes or
times out, reads RESULT or reports an error, counts, unlocks.

What is hard here:

- Four activities interleave at every MMIO access: callers, the interrupt
  handler, the timer, and, on several CPUs, callers beside the handler.
- A timeout can expire while the timer fires or the handler runs.
- probe makes the device usable before it has read the revision, may fail at any
  step, and meets a device that tools or an earlier binding left in any state.
- An error crosses four layers, each with its own vocabulary: error code, driver
  status and errno, exception, JSON; the mock must speak the last two like the rest.
- State survives an operation: `error_flag`, `device_error`, the completion,
  the device's status, its length and its fault.
- `error_flag` and the counters are used by the handler without a lock;
  `device_error_handler` and GET_STAT run outside the mutex.
- Injected faults suppress the interrupt, keep the device busy, or fail it.
- Any software may write any register at any time; the device must stay
  consistent.

What makes each part correct:

- Device: the interrupt line follows the two interrupt registers; a timer belongs
  to the operation in progress; a completion is announced only for a finished
  operation; an error has a cause; the result is stable; the status follows the
  documented state machine.
- Driver: each call returns, with its own result or its own error; between two
  locked sections nothing is in flight; every submission is counted once; a
  snapshot of the counters makes sense; RESET works from everywhere; the device is
  started only when idle.
- Probe and remove: nothing is used before it exists or after it is gone, every
  binding starts from scratch, everything acquired is given back.
- HAL and `vnpuctl`: a printed result is the dot product of the operands given, an
  outcome of the driver becomes the right result or exception, and the mock
  behaves as the real stack does.
- Arithmetic: packing, unpacking and summing gives the dot product.

## 2. Modules

| Module | What it is |
|---|---|
| `VnpuRegs` | the device's register file as a record, every MMIO handler and the timer callback as functions on it |
| `VnpuLifecycle` | abstract specification: the state machine of `docs/register_map.md:250-266`, and beside it the reject of an unsupported length between operations |
| `VnpuDevice` | `VnpuRegs` under any guest software |
| `VnpuService` | abstract specification: what the driver promises its callers |
| `VnpuDriver` | the driver's ioctls and interrupt handler, composed with the device of `VnpuRegs` |
| `VnpuProbe` | `VnpuDriver` from insmod to rmmod, on a device other tools have used (`VnpuDevice`) |
| `VnpuInt8` | INT8 operands, packed words, sign extension, sums |
| `VnpuDotLoop` | the two dot-product loops, device and mock, side by side |
| `VnpuHal` | both HAL backends, as functions of an ioctl's outcome and of the mock's state |
| `VnpuCtl` | `vnpuctl` -> HAL -> `VnpuDriver` -> device, with the mock given the same calls |
| `MCVnpuDevice`, `MCVnpuDriver`, `MCVnpuProbe`, `MCVnpuCtl` | instances for TLC |
| `VnpuRegsProofs` | what each register function preserves; one lemma per handler |
| `VnpuDeviceProofs`, `VnpuServiceProofs`, `VnpuDotProofs` | theorems about the device, the abstract driver, the arithmetic |
| `VnpuDriverProofs` | the driver in every mode: types, the mutex, RESET, the snapshots, the shipped code |
| `VnpuOneCpuProofs` | the driver on one CPU: device, results, errors, counters; it implements `VnpuService` |
| `VnpuProbeProofs` | the driver from insmod to rmmod, any number of bindings |
| `VnpuCtlProofs` | the whole stack: products, accepted requests, mock against device |

### VnpuRegs and VnpuDevice

QEMU runs every MMIO handler and the timer callback under its main-loop lock,
so each is one atomic function of the register file. `VnpuDevice` offers them all,
in any order, as software that maps BAR0 could (the smoke tools do). Reads other
than RESULT change nothing and are not steps. Time is abstracted: a pending
timer may fire at any moment.

A *word* stands for the pair `(input_a[i], input_b[i])` of packed operands. A
result is the words it was computed from and whether FAULT_CORRUPT_RESULT
flipped its low bit; two results are told apart exactly by operands, length and
fault, which is what the properties are about. Which number that is, `VnpuInt8`
and `VnpuHal` say. `control` and the capabilities, which no handler reads,
are left out, and so are accesses of another size and of unknown offsets, which
have no effect.

The picture of `docs/register_map.md:250-266` knows no rejected VECTOR_LENGTH; the
text of `:189` and `qemu-device/tests/src/vnpu-mmio-smoke.c:230-239` ask for ERROR then.
`VnpuLifecycle!Reject` is that write between operations, where it does not contradict
the picture. During an operation it does: it ends BUSY, also a stuck one, which
`StuckUntilReset` lets it, and the timer may end the ERROR, which is finding 5.
`LifecycleWithReject` names these two steps (`RejectedWhileBusy`, `RejectedEnds`) and
says that no other step departs from the picture.

### VnpuDriver

`pc[t]` is a thread's position in `vnpu_ioctl`. Each MMIO access is a step, with
the assignments that follow it under the mutex; the accesses of an operand pair
are one step, since nothing reads the operands between. The unlock, the test of
`error_flag`, the read of `device_error` and the clearing of the flag are steps
of their own, because the handler or another caller can act in between. The
handler is `isr`: read, acknowledge, error code, flag and count, complete.

| Constant | Meaning |
|---|---|
| `Smp` | FALSE: one CPU, as `scripts/run-qemu.sh` starts the guest; no thread runs while the handler does. TRUE: they run in parallel |
| `SharedLine` | TRUE: the handler may also be invoked with the line low (it is registered with `IRQF_SHARED`) |
| `VecLenSet` | FALSE: the code as it is. TRUE: as if the commented-out assignment of `vec_len` (line 303) were `vec_len = dot.vector_length` |
| `CopyOutcome` | whether copies from and to user memory may fail |
| `MaxCalls` | bound on the number of calls |

`VecLenSet` exists because of line 292: `vec_len` is 0 whenever it is compared
with 8 and 16, so every valid RUN_DOT takes the error return of lines 345-350, with
the mutex held. In that mode there is little else to see: runs `shipped`, `hang`
and `false_success`, and theorem `NothingStartsAsShipped`, say what the shipped
code does. All the rest of the driver (waiting, timing out, errors, counters) is code
behind that line; the other runs study it with `VecLenSet = TRUE`, so that what
they show is what remains once the line is repaired.

Timeouts: an operation takes 100 ms. A `timeout_ms` of at most 100 may expire at
any moment of the wait; a longer one only when the device has nothing left to
say (no timer, no asserted line, no running handler), since a handler is not
delayed by the rest of such a timeout. `wait_for_completion_timeout` returns 0
only when there is nothing to consume, as in the kernel.

Left out: GET_INFO and unknown commands (no state changes), fields that nothing
reads (`last_irq`, `last_irq_error`, `device_status`).
`device_revision` is the device's, as probe read it. The counters are unbounded
naturals (64-bit in the code). A copy to user memory that fails replaces the
call's return code. `vnpu_ioctl` keeps its result in a `u32` and returns it as a
`long`; the kernel's `vfs_ioctl` takes it through an `int`, which restores the sign,
so the outcome is the errno.

### VnpuService

One job at a time; it ends once, in a completion, a timeout or a device error;
the counters tell which; and the caller is told about its own job and operands. There
are no registers, interrupts, completions or mutex. `VnpuDriver!ImplementsService`
maps the driver to it: a job is open from the START of its RUN_DOT until the caller
has left the locked section, it has failed when `error_flag` is set meanwhile, an
answer is what `out` holds, and `submitted` counts a START whose `+= 1` is still to come.
The mapping is refuted by a result over stale operands, a completion of an earlier
job, an error reported for the wrong job, a double or missing count, and a reset
that cuts into a job. It holds where runs `one` and `two` check it and not under the
conditions section 4 lists.

### VnpuProbe

`phase` is the next step of `vnpu_probe` or `vnpu_remove`; each step of probe takes
effect or, if it is in `MayFail`, fails. `managed` is the list of what devres will
release, youngest first, after a failed probe or after remove. The PCI regions are
not in it: since Linux 6.17 `pci_request_regions` is unmanaged even after
`pcim_enable_device`, and `docs/versions.md` names 6.18. Before the first insmod
`ToolUsesDevice` lets software that maps BAR0 do anything to the device, as
`vnpu-devmem-smoke.sh` may; after that only the driver touches it, through several
bindings. Open files hold the module loaded (`.owner = THIS_MODULE`), so remove
starts when none is open; unbinding through sysfs is left out. A RUN_DOT checks its
length against `device_revision`, which is 0 until probe reads it; the calls are
otherwise those of `VnpuDriver`. `EarlyOpen` says whether the node is opened as soon as it
exists (the code as it is) or only after probe (run `probe`); the theorems that need the second
say so.

The writes of `vnpu_hw_reset` are a step each; its three reads are one, because
between them the device, reset and silent, does nothing by itself.

### VnpuInt8 and VnpuDotLoop

A word is a function from its four lanes to bytes, so the shifts by `8 * lane` on both
sides are indexing; `ToByte` and `unpack_i8` are the two conversions between a byte
and a signed value. `VnpuDotLoop` runs `vnpu_dot_product` and
`MockVnpuDevice::dot_product` in step on any two vectors: a turn of the first covers
four turns of the second. It exists to be proved about (section 5); TLC meets
the same operators in run `stack`.

### VnpuHal and VnpuCtl

A vnpuctl process parses its command line, calls the HAL once, and prints. `VnpuCtl`
composes it with the whole of `VnpuDriver`: `CtlRunDot` is `RunDot` of the driver with
the request the HAL builds, the driver and device run, and `RunDotReturns` maps the
outcome as the HAL does and prints it. In the same step the mock gets the same call,
so `reply` holds what both answered. A command line is the record it parses to,
mistakes included: lists with a value out of range, a wrong length or no numbers,
timeouts of -1, 0 and 1001, unknown and missing faults, another path. Commands
main does not know (they print nothing and exit with 0) and a missing command have
no effect and are left out, as is searching the text for options and fields.

`driver_status` is taken from the *copy* of the request: the driver changes its own
and copies it out on some returns only. `ResultValue` turns the words a RESULT was
computed from into the number, by the device's loop. `trouble` is the only variable
the code does not have: whether the last run-dot failed and what followed, to
say until when mock and device are bound to agree.

## 3. Runs

Driver runs use revision B, two operand words, and requests for both lengths
whose operands differ in every word, so that a result over the wrong length, of
another call, or of stale operands is noticed.

| Run | Instance | Shows |
|---|---|---|
| `revB` | two words, supported and unsupported lengths, masks with no, one, two and reserved bits | device invariants, stability of the result, what ends a stuck operation, the documented state machine but for two steps |
| `rejected_length` | the instance of `revB` | finding 5 |
| `one` | 1 thread, 5 calls, good and bad requests, all faults, failing copies, timeouts above 100 ms | a lone caller gets its own results and errors, also after errors, stuck operations and dropped interrupts; RESET always works; the driver implements `VnpuService` |
| `two` | 2 threads, 4 calls, one timeout below 100 ms, IRQ_DROP and STUCK_BUSY | the mutex, the reinitialised completion and the reset on timeout isolate callers on one CPU; `VnpuService` again, now with its callers in competition |
| `smp` | 2 threads, 3 calls, parallel handler, shared line, one timeout below 100 ms, IRQ_DROP, STUCK_BUSY and FORCE_ERROR, fairness | what survives all of that: the mutex, bounds on every snapshot, RESET, the documented use of the device, and every call returns |
| `stack` | vnpuctl, 5 ioctls, 17 command lines good and bad, every fault by name, timeouts above 100 ms | a success prints the dot product; mock and device cannot be told apart until a failure is followed by another run-dot without a reset; the HAL sends nothing the driver refuses |
| `probe` | revision A, 3 probes, 1 thread, 4 calls, shared line, every step that can fail, any tool before | probe recovers the device from anything, every binding starts clean, nothing is used before or after its time, the handler comes and goes while the device is silent, remove gives everything back |
| `shipped` | `VecLenSet = FALSE`, 2 threads, 3 calls | no operation is ever started |
| `hang` | `VecLenSet = FALSE`, fairness | finding 1 |
| `lost_error` | `VecLenSet = TRUE` | finding 2 |
| `false_success` | `VecLenSet = FALSE`, whole stack | finding 3 |
| `failed_probe` | `VecLenSet = FALSE`, the node opened after probe | finding 4 |

The bounds. The device's state is finite as it is; two words and three lengths
are enough to tell results apart. For the driver, three calls are what it takes for
one call to leave something behind, a second to meet it and a third to inject a
fault; four let two callers overlap after a fault was injected; five let a lone
caller inject, fail, reset, change the fault and run again. In `stack` five calls are a
fault, a failure, a reset, a run and a look at the counters; its operands are the
lowest of every product, and two vectors whose lanes, words and signs all differ. In
`probe` three bindings let the second fail on what the first left, and the third
follow a failed one; four calls over all bindings are enough for an injected
fault, a stuck or failed operation and what comes after it. Revision A there, because a
length it does not support exists. Copies to user memory fail in `one` and `probe`.
`CHECK_DEADLOCK FALSE` is given only with `VecLenSet = FALSE`, where threads do wait
forever; elsewhere `Finished` and `Unloaded` stutter only when every call has returned or
the last binding is gone, so that a thread blocked forever is reported as a deadlock.

Fairness (`FairSpec`): weak fairness of each thread's step once it is in a call
(the scheduler), of the handler (an asserted interrupt is delivered) and of the
timer (QEMU's main loop). No caller is obliged to make a call. The kernel's mutex
hands over to waiters; weak fairness is enough here because `MaxCalls` bounds how
often others can take it first. The expiry of a timeout is strongly fair: with a
shared line, invocations of the handler for another device make a long timeout's
expiry impossible for a moment, again and again, but a real clock does not start
anew. With one CPU the same argument holds with less interference: the runs on one
CPU explore a subset of the interleavings, and `smp`, `one` and `two` report a caller
blocked forever as a deadlock.

Each property of a passing run comes with a mutant of a modelled definition (a
plausible bug: a missing `timer_del`, a forgotten unlock, a missing
`reinit_completion`, another read order of the counters) under which TLC finds
the property violated. The mutated definitions stand beside the originals.

## 4. Findings

1. `hang`: `vnpu_drv.c:349` returns with the mutex held; every later RUN_DOT, RESET
   and SET_FAULT waits forever (`docs/uapi.md:35` promises bounded errors).
2. `lost_error`, with `vec_len` set: `error_flag` is cleared after the unlock, so one
   caller can erase the error of the next, which returns the RESULT of a failed device
   (`docs/register_map.md:280`).
3. `false_success`: `vnpu_drv.c:292`, `vec_len` is never assigned, so RUN_DOT
   answers EINVAL without copying `driver_status` out; `vnpu-hal.cpp:93` has no branch
   for that and returns result 0, and `vnpuctl` prints a success
   (`python-tests/test_run_dot.py:32-33`, `docs/vnpu_hal.md:151`).
4. `failed_probe`: probe fails after `pci_request_regions` without releasing
   the regions (`vnpu_drv.c:186`, `:196`, `:203`, `:218`); every later probe returns
   ENOMEM (`docs/uapi.md:290`).
5. `rejected_length`: an unsupported VECTOR_LENGTH during an operation gives ERROR, and
   then DONE when the timer fires (`vnpu.c:338`), without the RESET that
   `docs/register_map.md:260` asks for.

Seen while modelling and not given a run of their own:

- CONTROL_RESET keeps VECTOR_LENGTH (`docs/register_map.md:190`,
  `qemu-device/tests/src/vnpu-mmio-smoke.c:285-291`);
- JOB_ID can be rewritten during an operation (`vnpu.c:239`, against
  `docs/register_map.md:176`) and is writable on revision A; an IRQ_ERROR raised by a
  rejected START is overwritten when the operation ends (`vnpu.c:339`);
- the node is usable before `device_revision` is read (`vnpu_drv.c:215`, `:220`), and
  until then a RUN_DOT of any length passes validation (`docs/uapi.md:224`);
- RUN_DOT counts its submission after START (`vnpu_drv.c:354`), the handler its device
  error whenever it comes, and for a START rejected in STATUS_ERROR it comes at once; a
  GET_STAT in between shows the end and not the submission (`docs/uapi.md:271`).
  `SnapshotBounded` is what holds: the submissions are read last, so completions and
  timeouts never exceed them, and device errors by one at most;
- `error_flag` survives a RESET and the start of an operation. With force-error and a
  timeout of at most 100 ms (`docs/vnpu_hal.md:240`), a run-dot times out while the
  handler records the error; the flag outlives the RESET (`vnpu_drv.c:360`). The next
  run-dot completes, is answered EIO for the old flag (`:371`) and leaves the device
  DONE. The one after that is answered EBUSY, which the HAL takes for a success with
  result 0 (`vnpu-hal.cpp:93-118`);
- probe verifies neither DEVICE_ID nor REVISION (`docs/register_map.md:272-273`), and
  zeroes the counters after the node exists;
- the HAL and `vnpuctl` accept length 8 only, on either revision
  (`docs/vnpu_hal.md:163-164`);
- a timeout is a `device_error` and a forced error a `system_error` in the Linux
  backend, both are a `device_error` in the mock (`docs/vnpu_hal.md:194-204` wants them
  told apart); `MockAgrees` compares verdicts, not types;
- `vnpuctl` calls every parse error "argument parse", exits with 0 after an error of
  the HAL, and prints nothing for a command it does not know.

With `VecLenSet = TRUE` some properties hold only under conditions, which the runs
meet and the theorems of section 5 name:

- `ErrorIsMine`, `ResultIsMine`, `StatsBalance`, `DeviceFreeWithLock`,
  `ImplementsService`: one CPU, and either no FAULT_FORCE_ERROR or a lone caller
  with timeouts above 100 ms. Otherwise a caller can erase the error of the next
  (finding 2), a timeout during the error interrupt is counted as both and leaves its
  error behind, and with several CPUs a handler that is late by one operation
  completes the next one.
- `ReplyIsProduct`, `HalRequestsAccepted`: one CPU, and either no force-error or
  timeouts above 100 ms; with both, the `error_flag` above prints a wrong success.
  `vnpuctl` accepts 1 to 1000 ms. Run `stack` has the forced errors; short timeouts
  without forced errors are covered by the theorems of section 5.
- `EveryBindingSound`, `QuietAtHandover`: nobody opens the node before probe is done,
  which the code does not see to. `ResourcesInUse`, `ProbeRecovers` and `RemoveComplete`
  need no such condition.
- `CompletionNotLost`: no spurious handler invocation besides. The handler
  acknowledges every bit, so one that reads 0 can erase a bit raised before its
  second access.
- `MockAgrees`: all of that, a lone caller, timeouts above 100 ms, and user memory
  that can be written; the mock knows neither short timeouts nor EFAULT.

## 5. Proofs

All proofs hold for every value of the constants that satisfies the named
assumptions: revision A or B, any sets of words, job ids, lengths, masks,
requests and threads, any number of calls.

`VnpuRegsProofs` defines `Sound(d)`: the record is a `Device`, the line is the
enabled pending bits, a finished or idle device has no timer, a pending completion
belongs to an idle or finished device, and an error has its cause. None of these is
inductive alone (that COMPLETION is not pending when a rejected START keeps a
BUSY device needs the status clause, that a forced error is final needs the timer
clause), together they are. One lemma per handler shows that it maps sound records
to sound records; the step lemmas say what each does to status and timer.

`VnpuDeviceProofs` lifts them: type correctness, the four invariants of `revB`, and the
two action properties, under any software. `LifecycleFollowed` matches
every step but `RejectedWhileBusy` and `RejectedEnds` with one of the machine or a
stutter: the timer fires in BUSY or ERROR only, so outside ERROR it is the documented
end of BUSY.
Revision A, which only the runs of `VnpuProbe` instantiate, is covered by these.

`VnpuDriverProofs` uses the invariant
`IInv == TypeOK /\ Sound(dev) /\ LoopsInRange /\ Validated /\ TimerMeansBusy`: the
operand loop stays in `input[0..3]` and the snapshot loop in its five reads; a
request past validation is valid; and a pending timer means BUSY, which fails for
arbitrary software but holds for the driver because it never writes a length the
device rejects. From it follow:

- `TypeCorrect`: types, in every mode.
- `DriverImplementsLifecycle`: with the driver as its only software the device
  implements the *documented* machine, `VnpuLifecycle!Spec`, without the reject.
- `LockCorrect`: with `VecLenSet`, the mutex is held exactly in the locked
  sections, for any number of threads. The strengthening says the leaking
  step is never reached, since validated lengths are 8 and 16.
- `NothingStartsAsShipped`: without it, nothing ever starts. The strengthening adds
  that no interrupt is pending and lists the steps a thread can be at.

`IInv` is `Base`, its first three conjuncts, and two more that `VnpuProbe` establishes
later than the driver alone does; the step lemmas are stated for `Base` where they can
be, so that `VnpuProbeProofs` uses them too. Two more theorems show what the
mutex buys in every mode: `VecLenSet` or not, one CPU or several, a shared line or
not. Their base is `Exclusion`, the half of `LockDiscipline` that holds even when a
return path keeps the mutex.

- `ResetCorrect`: RESET succeeds. From its second write on the device is clean
  (IDLE, no timer, no interrupt, no error, no fault), nobody else may write to it, and
  a clean device does nothing by itself, so the three reads find what they expect.
- `SnapshotCorrect`: a GET_STAT snapshot shows no more completions and timeouts than
  submissions, and at most one device error more (`SnapshotBounded`). Of the counters themselves, a submission is counted before it completes or times
  out (`CountInv`), and one START brings one device error at most (`ErrorInv`): the
  errors counted, with those that may still be (`ErrorsDue`: one of the operation in
  flight, one the handler has read, one pending), do not exceed the submissions and the
  START not yet counted. Of a snapshot being taken, each value read so far is behind its
  counter, and the ends are read before the submissions. TLC checked `ErrorInv` on the
  instance of run `smp` first.

`VnpuOneCpuProofs` assumes `OneCpu`: `VecLenSet`, `~Smp`, and either `Unforced`, no
mask with FAULT_FORCE_ERROR, or `Lone` and `LongTimeouts`, one thread whose timeouts
outlast the operation. The conditions are needed (section 4). Any number of calls,
every other fault, failing copies and a shared line are allowed. The invariant `OneInv`
has four parts:

- `Calm`: what is pending fits the status of the device, the handler knows what it
  read, and an error it saw is a forced one;
- `Reports`: a call about to report an error still finds `error_flag` and
  the device as the handler left them;
- `Free`: between two locked sections the device rests (`Rest`: silent, no timer), the
  counters balance (`Even`), and `error_flag` belongs to a call that reports it;
- `Stage`: the owner of the mutex programs a resting device, or waits for an operation
  (`Flight`) whose completion is in exactly one place at a time (the device, the
  handler, the counter `done`), or has been told that it is over (`Over`), with the
  operands written so far (`Operands`), its interrupts enabled (`Interrupts`) and its
  submission counted but not ended (`Balance`). A timeout that ended the wait found no
  error and none to come (`Missed`).

`StatsBalance` alone is not inductive: it speaks of the unlocked state only, so the
step that unlocks needs to know that the caller's submission is the one not yet
ended (`Stage`), and the next caller that it finds no completion left over from an
earlier one (`Free`). With forced errors the count moves into the handler, so
`Balance` asks whether `error_flag` is up; that it is up exactly when the handler has
counted is a clause of `Flight`, and that nobody else clears it needs `Lone`. TLC
checked `OneInv` on the instances of runs `one` and `two`, the latter with and without
a shared line, before it was proved. From it follow:

- `DeviceFree`, `StatsBalanced`, `ResultWhenDone`: as `Free` and `Stage` say it.
- `NoCompletionLost`, with a line of its own: no operation that ended without
  FAULT_IRQ_DROP goes unnoticed.
- `ResultOwn`, `ErrorOwn`: a result is that of the caller's own operands, a reported
  error that of its own operation.
- `DriverImplementsService`: the initial state maps to the service's, and every
  step to one of its actions or a stutter.
  START opens the job one step before the driver counts it, so the mapped tally adds
  the threads at `run_count`; the proof shows that there is never more than one,
  and that the job that ends is the one open. Besides `OneInv` it needs `ResetInv`
  and `Unanswered`: who holds the mutex for RUN_DOT has answered nothing yet (`RInv`
  is the conjunction of all of them).

`VnpuProbeProofs` is about any number of bindings, threads and calls, any step of
probe failing, and any use of the device before the first probe. `ProbeInv` holds in
every mode, even if the node is opened as soon as it exists:

- `Resources`: what devres holds is a prefix of pci, memory, mapping, irq whose length
  the phase tells, and handler and node exist exactly when it says so;
- `Users`: only who has the node open is in a call, only an installed handler runs;
- `FreshFromReset`: from the RESET of `vnpu_hw_reset` until the node exists, the device is
  clean and a handler that runs has seen nothing. A shared line may invoke the handler
  right after `devm_request_irq`, so the proof must show that it does no harm there.

`ResourcesInUse`, `ProbeRecovers` and `RemoveComplete` follow. If the node is opened
only once probe is done, `LateInv` adds that every RUN_DOT has passed its checks and
that the device is still clean when the counters are zeroed.
Under `OneCpu` as well, `BindingInv` says that `OneInv` holds throughout a binding and
that the device is still during remove: `BindingsSound`, that what is proved of one
binding from power-on holds of every binding, and `HandoverQuiet`.

`VnpuCtlProofs` is about any command lines, in any number. `CtlStepsDriver` shows that
below the HAL the stack takes steps of `VnpuDriver`, so `RInv` holds. `CtlInv` adds
that the thread is in the ioctl of the command with the arguments the HAL gave it
(`InCall`), that the device has the mock's fault or none (`FaultKnown`), and that a
pending answer is of the packed operands and flipped only by that fault (`Answering`).

vnpuctl is one thread at a time, so of `OneCpu` a plain condition remains, which the first
two theorems state as their hypotheses: `VecLenSet`, `~Smp`, and either no mask with
FAULT_FORCE_ERROR or only timeouts above 100 ms. Section 4 says why it is needed.

- `AllRequestsAccepted`: the parser and the HAL let nothing through that the driver
  refuses, and no call leaves a device that refuses the next.
- `RepliesAreProducts`: lane by lane (`UnpackPack` of `VnpuDotProofs`), word
  by word and over two words, the device's sum over the packed words is the mock's
  sum over the operands, for all operands of eight INT8 values.
- `MockAgreesWithDevice`, under `Undisturbed` (section 4). `MockAgrees` speaks of the
  moment a reply is printed; the invariant `Agree` follows the two through the whole
  call. While the operation runs, `Course` relates each state of device, handler and
  counters to `Fate`, the end the mock will give it: ERROR or `error_flag` only if
  that is a device error, no announcement and no timer only if it is a timeout.
  `Ended` says what both then have, and `AtRest` and `FaultSame` what they share between
  calls, until `trouble` says they may part. That a wait only times out when the fault
  drops the interrupt or sticks is where `CompletionNotLost` and `Missed` come in.

TLC checked `ProbeInv`, `LateInv`, `BindingInv`, `CtlInv` and `Agree` on the instances of
runs `probe`, `stack` and, with the node opened at once, `failed_probe` before they were
proved.

`VnpuDotProofs` is about every pair of INT8 vectors of length 8 or 16, which no
run can enumerate. `ByteRoundTrip` and `UnpackPack` show that a lane unpacked is
the element packed; `ProductBound` bounds a product; the invariant of `LoopInvariant`
adds the index and, per turn, a bound on the sum of `i` words. `DeviceMatchesMock`
and `AccumulatorFits` follow; the second includes the flipped low bit of
FAULT_CORRUPT_RESULT.

`VnpuServiceProofs`: `EverySubmissionCountedOnce`, by induction with the fact that
only an open job can have failed. Whatever implements `VnpuService` inherits it.

Only model-checked: `EveryCallReturns`, because liveness under fairness is out of this
prover's reach. Every other property of a passing run is a theorem, several of them under
the conditions section 4 lists; where those are not met, it says what happens.

## 6. Not modelled

Test programs and the Python reference model (read as expectations; `dot_i8` is the
mock's sum); the patch, which is the device source again; build, boot and CI scripts;
unbinding through sysfs with files open; the text of options, JSON and messages. PCI
configuration, QEMU's timer and memory core and the kernel's mutex, completion,
interrupt, misc and devres cores are used through their contracts. uninit ends the
device.

## 7. Plan

Done: `VnpuRegs`, `VnpuLifecycle`, `VnpuDevice`, `VnpuDriver`, `VnpuInt8`,
`VnpuDotLoop`, `VnpuService`, `VnpuHal`, `VnpuCtl`, `VnpuProbe`, and the proofs of
section 5.

Next: what does hold of results and counters on several CPUs without forced errors and
with a line of its own, and of a lone caller with short timeouts, as invariants of
their own; the two lemmas of `VnpuDotProofs` for vectors of any multiple of four.
