---------------------------- MODULE VnpuLifecycle ----------------------------
(***************************************************************************)
(* What the register map promises of the device's state machine (IDLE,     *)
(* BUSY, DONE, ERROR), with the one operation that may be in flight.       *)
(*                                                                         *)
(* Spec is the documented machine: an operation starts only from IDLE,     *)
(* finishes only from BUSY, ERROR is left only by RESET, and a RESET       *)
(* cancels what was in flight.  Reject is what the picture of the register *)
(* map leaves out and its VECTOR_LENGTH section asks for: an unsupported   *)
(* length written between operations puts the device in ERROR.             *)
(***************************************************************************)
VARIABLES status, inflight

vars == <<status, inflight>>

TypeOK ==
  /\ status \in {"IDLE", "BUSY", "DONE", "ERROR"}
  /\ inflight \in BOOLEAN

Init == status = "IDLE" /\ inflight = FALSE

Start == status = "IDLE" /\ status' = "BUSY" /\ inflight' = TRUE

\* BUSY again: the device stays stuck until RESET.
Finish ==
  /\ status = "BUSY" /\ inflight
  /\ inflight' = FALSE
  /\ status' \in {"DONE", "ERROR", "BUSY"}

Consume == status = "DONE" /\ status' = "IDLE" /\ UNCHANGED inflight

Reset == status' = "IDLE" /\ inflight' = FALSE

Reject == status # "BUSY" /\ status' = "ERROR" /\ UNCHANGED inflight

Next == Start \/ Finish \/ Consume \/ Reset

Spec == Init /\ [][Next]_vars
=============================================================================
