---------------------------- MODULE VnpuService ----------------------------
(***************************************************************************)
(* What the driver promises its callers, without registers, interrupts,    *)
(* completions or a mutex: one job at a time, which ends exactly once, in  *)
(* a completion, a timeout or a device error; the counters tell how; and   *)
(* the caller is answered about its own job and no other.                  *)
(***************************************************************************)
EXTENDS Naturals

CONSTANTS
  Caller,  \* tasks with the device open
  Vectors  \* operands a job may carry

VARIABLES
  open,    \* the job on the device: none, or one [by, of]
  failed,  \* the device has failed it
  answer,  \* what each caller was told, of which operands
  tally    \* the five counters

vars == <<open, failed, answer, tally>>

NoOperands == <<>>

StatField == {"timed_out", "completed", "device_error", "submitted", "resets"}

\* What a caller is told before its job has ended: nothing yet, or that its
\* call was refused or its answer could not be copied out.
NotDone == {"nothing", "refused", "lost"}

Init ==
  /\ open = {}
  /\ failed = FALSE
  /\ answer = [t \in Caller |-> [kind |-> "nothing", of |-> NoOperands]]
  /\ tally = [f \in StatField |-> 0]

Count(f) == tally' = [tally EXCEPT ![f] = @ + 1]
Tell(t, kind, of) == answer' = [answer EXCEPT ![t] = [kind |-> kind, of |-> of]]

\* The device's only job.  No failure of an earlier one is left over.
Submit(t, v) ==
  /\ open = {}
  /\ open' = {[by |-> t, of |-> v]}
  /\ failed' = FALSE
  /\ Count("submitted")
  /\ UNCHANGED answer

DeviceFails ==
  /\ open # {} /\ ~failed
  /\ failed' = TRUE
  /\ Count("device_error")
  /\ UNCHANGED <<open, answer>>

\* The three ends of job j.
Complete(j) ==
  /\ j \in open /\ ~failed
  /\ open' = {}
  /\ Tell(j.by, "completed", j.of)
  /\ Count("completed")
  /\ UNCHANGED failed

TimeOut(j) ==
  /\ j \in open /\ ~failed
  /\ open' = {}
  /\ Tell(j.by, "timed_out", NoOperands)
  /\ Count("timed_out")
  /\ UNCHANGED failed

GiveUp(j) ==
  /\ j \in open /\ failed
  /\ open' = {}
  /\ failed' = FALSE
  /\ Tell(j.by, "device_error", NoOperands)
  /\ UNCHANGED tally

\* Any other call of t begins, is refused, or loses its answer.
Other(t) ==
  /\ \A j \in open : j.by # t
  /\ \E kind \in NotDone : Tell(t, kind, NoOperands)
  /\ UNCHANGED <<open, failed, tally>>

\* A RESET never cuts into a job.
Reset ==
  /\ open = {}
  /\ Count("resets")
  /\ UNCHANGED <<open, failed, answer>>

Next ==
  \/ \E t \in Caller : Other(t) \/ \E v \in Vectors : Submit(t, v)
  \/ \E j \in open : Complete(j) \/ TimeOut(j) \/ GiveUp(j)
  \/ DeviceFails
  \/ Reset

Spec == Init /\ [][Next]_vars
----------------------------------------------------------------------------
\* Every submission is counted in exactly one way, except a job still open.
Accounted ==
  tally["submitted"] =
    tally["completed"] + tally["timed_out"] + tally["device_error"]
      + (IF open # {} /\ ~failed THEN 1 ELSE 0)
=============================================================================
