------------------------------ MODULE VnpuProbe ------------------------------
(***************************************************************************)
(* The driver from insmod to rmmod: vnpu_probe step by step, with every    *)
(* step that can fail failing, the calls of VnpuDriver on the node it      *)
(* registers, vnpu_remove, and the release of what the device manages      *)
(* (devres) in reverse order.  The device is never reset in between except *)
(* by the driver, and before the first insmod any tool may have used it.   *)
(*                                                                         *)
(* External, as Linux 6.18 (docs/versions.md) does it: a file that is open *)
(* keeps the module loaded; freeing an interrupt waits for its handler;    *)
(* pci_request_regions is not managed, whatever enabled the device.        *)
(***************************************************************************)
EXTENDS VnpuDriver, SequencesExt

CONSTANTS
  ToolLengths, \* values tools write to VECTOR_LENGTH
  ToolMasks,   \* values tools write to FAULT_CONTROL
  EarlyOpen,   \* the node may be opened as soon as misc_register made it
  MayFail,     \* the steps of probe that may fail
  MaxProbes    \* bound on the number of probes

ASSUME ProbeAssumption == EarlyOpen \in BOOLEAN /\ MaxProbes \in Nat

\* The calls of vnpu_probe whose return value is an error.
ASSUME FailureAssumption ==
  MayFail \subseteq {"enable", "alloc", "regions", "iomap", "request_irq", "register"}

VARIABLES
  phase,           \* the next step of vnpu_probe or vnpu_remove
  managed,         \* what devres will release, oldest first
  regions,         \* BAR0 is claimed
  handler,         \* vnpu_irq_handler is installed
  node,            \* /dev/vnpu0 exists
  device_revision, \* 0 until probe has read it
  file,            \* threads that have the node open
  probes           \* how many probes began

\* Grouped for UNCHANGED.
resources == <<managed, regions, handler, node>>
users == <<device_revision, file, probes>>
binding == <<phase, resources, users>>
probeVars == <<vars, binding>>

\* Any software that maps BAR0, with the device's own timer.
Tool == INSTANCE VnpuDevice WITH Lengths <- ToolLengths, Masks <- ToolMasks

ProbeInit ==
  /\ Init
  /\ phase = "off"
  /\ managed = <<>>
  /\ regions = FALSE
  /\ handler = FALSE
  /\ node = FALSE
  /\ device_revision = 0
  /\ file = {}
  /\ probes = 0

ToolUsesDevice ==
  /\ phase = "off"
  /\ Tool!Next
  /\ UNCHANGED <<driver, mutex, isr, threads, binding>>

Insmod ==
  /\ phase \in {"off", "unbound"}
  /\ probes < MaxProbes
  /\ probes' = probes + 1
  /\ phase' = "enable"
  /\ UNCHANGED <<vars, resources, device_revision, file>>
----------------------------------------------------------------------------
\* vnpu_probe.
At(step, next) == MayRun /\ phase = step /\ phase' = next

\* A step fails: probe returns, and the PCI core releases what is managed.
Fails ==
  /\ phase \in MayFail
  /\ phase' = "unwind"
  /\ UNCHANGED <<vars, resources, users>>

Manage(resource) ==
  /\ managed' = Append(managed, resource)
  /\ UNCHANGED <<regions, node, file, probes>>

\* pcim_enable_device.
EnableDevice ==
  /\ At("enable", "alloc")
  /\ Manage("pci")
  /\ UNCHANGED <<vars, handler, device_revision>>

\* devm_kzalloc: a fresh struct vnpu_device, all zero.
Alloc ==
  /\ At("alloc", "regions")
  /\ Manage("memory")
  /\ done' = 0 /\ error_flag' = FALSE /\ device_error' = "NONE"
  /\ stats' = ZeroStats /\ device_revision' = 0
  /\ UNCHANGED <<dev, mutex, isr, threads, handler>>

\* pci_request_regions, which fails if the regions are still claimed.
RequestRegions ==
  /\ At("regions", IF regions THEN "unwind" ELSE "iomap")
  /\ regions' = TRUE
  /\ UNCHANGED <<vars, managed, handler, node, users>>

\* pcim_iomap, then init_completion and mutex_init.
Iomap ==
  /\ At("iomap", "hw_disable")
  /\ Manage("mapping")
  /\ done' = 0
  /\ mutex' = NoThread
  /\ UNCHANGED <<dev, error_flag, device_error, stats, isr, threads, handler, device_revision>>

\* vnpu_hw_reset, one step per write, and one for the three reads, between which
\* a reset device does nothing.
ProbeWrite(step, next, written) ==
  /\ At(step, next)
  /\ dev' = written
  /\ UNCHANGED <<driver, mutex, isr, threads, resources, users>>

ProbeDisable == ProbeWrite("hw_disable", "hw_reset", WriteIrqEnable(dev, {}))
ProbeReset == ProbeWrite("hw_reset", "hw_ack", WriteControl(dev, {"RESET"}))
ProbeAck == ProbeWrite("hw_ack", "hw_check", WriteIrqStatus(dev, IrqBit))

ProbeCheck ==
  /\ At("hw_check", IF dev.status = "IDLE" /\ dev.irq_status = {} /\ dev.err_code = "NONE"
                    THEN "request_irq" ELSE "unwind")
  /\ UNCHANGED <<vars, resources, users>>

\* Mutant: request_irq instead of devm_request_irq.
RequestIrq_Unmanaged ==
  /\ At("request_irq", "register")
  /\ handler' = TRUE
  /\ UNCHANGED <<vars, managed, regions, node, users>>

\* devm_request_irq.
RequestIrq ==
  /\ At("request_irq", "register")
  /\ Manage("irq")
  /\ handler' = TRUE
  /\ UNCHANGED <<vars, device_revision>>

\* misc_register: from here on the node can be opened.
MiscRegister ==
  /\ At("register", "revision")
  /\ node' = TRUE
  /\ UNCHANGED <<vars, managed, regions, handler, users>>

ReadRevision ==
  /\ At("revision", "zero")
  /\ device_revision' = Revision
  /\ UNCHANGED <<vars, resources, file, probes>>

\* The counters and error_flag, whatever a call has made of them by now.  The
\* code clears one after the other: only an early call could tell.
ZeroCounters ==
  /\ At("zero", "bound")
  /\ stats' = ZeroStats
  /\ error_flag' = FALSE
  /\ UNCHANGED <<dev, done, device_error, mutex, isr, threads, resources, users>>
----------------------------------------------------------------------------
\* rmmod: vnpu_remove, once no file is open.
MiscDeregister ==
  /\ At("bound", "release_regions")
  /\ file = {}
  /\ node' = FALSE
  /\ UNCHANGED <<vars, managed, regions, handler, users>>

\* Mutant: the regions are taken for managed.
ReleaseRegions_Forgotten ==
  /\ At("release_regions", "remove")
  /\ UNCHANGED <<vars, resources, users>>

\* pci_release_regions.
ReleaseRegions ==
  /\ At("release_regions", "remove")
  /\ regions' = FALSE
  /\ UNCHANGED <<vars, managed, handler, node, users>>

\* devres: the youngest resource goes first.  free_irq waits for the handler.
Release ==
  /\ phase \in {"unwind", "remove"} /\ managed # <<>>
  /\ managed' = Front(managed)
  /\ IF Last(managed) = "irq"
     THEN isr.pc = "idle" /\ handler' = FALSE
     ELSE UNCHANGED handler
  /\ UNCHANGED <<vars, phase, regions, node, users>>

Unbound ==
  /\ phase \in {"unwind", "remove"} /\ managed = <<>>
  /\ phase' = "unbound"
  /\ UNCHANGED <<vars, resources, users>>
----------------------------------------------------------------------------
Open(t) ==
  /\ node /\ t \notin file
  /\ EarlyOpen \/ phase = "bound"
  /\ file' = file \cup {t}
  /\ UNCHANGED <<vars, phase, resources, device_revision, probes>>

Close(t) ==
  /\ t \in file /\ pc[t] = "idle"
  /\ file' = file \ {t}
  /\ UNCHANGED <<vars, phase, resources, device_revision, probes>>

\* The checks of RUN_DOT: while device_revision is 0 neither test on the length
\* applies.
Accepted(r) ==
  /\ r.abi_version = 1
  /\ device_revision # 0 => r.vector_length \in SupportedLen
  /\ r.timeout_ms \in 1..1000

\* RunDot of VnpuDriver, with these checks.
ProbeRunDot(t) ==
  /\ \E r \in Request :
       /\ req' = [req EXCEPT ![t] = r]
       /\ Enter(t, IF Accepted(r) THEN "run_lock" ELSE "idle")
       /\ out' = [out EXCEPT ![t] = [NoOutcome EXCEPT !.code =
                                      IF Accepted(r) THEN "OK" ELSE "EINVAL"]]
  /\ UNCHANGED <<dev, driver, mutex, isr, mask, word, snap>>

FileCall(t) ==
  /\ t \in file
  /\ \/ ProbeRunDot(t) \/ Reset(t) \/ SetFault(t) \/ GetStat(t) \/ CopyInFails(t)
     \/ Step(t)
  /\ UNCHANGED binding

\* The handler runs if it is installed; the device runs always.
Background ==
  /\ \/ handler /\ IsrRead
     \/ IsrAck \/ IsrErrorCode \/ IsrFlag \/ IsrComplete
     \/ phase # "off" /\ TimerFires
  /\ UNCHANGED binding

\* The bounded instance is at its end: the last probe failed or was removed.
Unloaded == phase = "unbound" /\ probes = MaxProbes /\ UNCHANGED probeVars

ProbeNext ==
  \/ ToolUsesDevice \/ Insmod
  \/ EnableDevice \/ Alloc \/ RequestRegions \/ Iomap
  \/ ProbeDisable \/ ProbeReset \/ ProbeAck \/ ProbeCheck
  \/ RequestIrq \/ MiscRegister \/ ReadRevision \/ ZeroCounters \/ Fails
  \/ MiscDeregister \/ ReleaseRegions \/ Release \/ Unbound
  \/ \E t \in Thread : Open(t) \/ Close(t) \/ FileCall(t)
  \/ Background \/ Unloaded

ProbeSpec == ProbeInit /\ [][ProbeNext]_probeVars
----------------------------------------------------------------------------
\* The handler and every call find the memory, the mapping and the enabled
\* device they use: nothing is released under them, nothing used before its time.
UsersHaveResources ==
  (handler \/ node \/ isr.pc # "idle" \/ \E t \in Thread : pc[t] # "idle") =>
    {"pci", "memory", "mapping"} \subseteq ToSet(managed)

\* When the handler is installed or freed the device is silent and will stay so:
\* nobody is told of an interrupt without a handler, whatever tools, faults,
\* timeouts or an earlier binding left.
QuietAtHandover ==
  [][handler # handler' =>
       ~dev.irq_line /\ ~dev.timer /\ dev.status # "BUSY"]_probeVars

\* vnpu_hw_reset brings the device back from every state tools or an earlier
\* binding leave it in: probe never fails for it.
ProbeSurvivesLeftovers == [][phase = "hw_check" => phase' # "unwind"]_probeVars

\* A new binding starts from scratch, and while no call holds the mutex its
\* counters balance and nothing is in flight (VnpuDriver, across bindings).
EveryBindingSound ==
  phase = "bound" => DeviceFreeWithLock /\ StatsBalance

\* Removal gives everything back, so that the next probe finds it.
RemoveReleasesAll ==
  [][phase = "remove" /\ phase' = "unbound" =>
       managed' = <<>> /\ ~regions' /\ ~handler' /\ ~node']_probeVars

\* docs/uapi.md:290: probe failure paths unwind resources as remove() does.
FailedProbeReleasesAll ==
  phase = "unbound" => ~regions /\ ~handler /\ ~node /\ managed = <<>>
=============================================================================
