------------------------- MODULE VnpuServiceProofs -------------------------
(***************************************************************************)
(* What follows from the promise of VnpuService alone, for any number of   *)
(* callers and any operands: it holds of whatever implements the service.  *)
(***************************************************************************)
EXTENDS VnpuService, TLAPS

\* The counters are naturals, and only an open job can have failed.
TypeInv ==
  /\ tally \in [StatField -> Nat]
  /\ failed \in BOOLEAN
  /\ failed => open # {}

IInv == TypeInv /\ Accounted

\* Counting changes one counter, by one.
LEMMA CountOne ==
  ASSUME tally \in [StatField -> Nat], NEW f \in StatField, Count(f)
  PROVE  /\ tally' \in [StatField -> Nat]
         /\ tally'[f] = tally[f] + 1
         /\ \A g \in StatField : g # f => tally'[g] = tally[g]
BY DEF Count

\* The four counters of the balance are distinct and are counters.
LEMMA Fields ==
  /\ {"submitted", "completed", "timed_out", "device_error", "resets"} \subseteq StatField
  /\ "submitted" # "completed" /\ "submitted" # "timed_out"
  /\ "submitted" # "device_error" /\ "completed" # "timed_out"
  /\ "completed" # "device_error" /\ "timed_out" # "device_error"
  /\ "resets" \notin {"submitted", "completed", "timed_out", "device_error"}
BY DEF StatField

LEMMA Preserved == IInv /\ [Next]_vars => IInv'
<1>. SUFFICES ASSUME IInv, [Next]_vars
     PROVE  IInv'
  OBVIOUS
<1>. USE Fields
<1>0. /\ tally \in [StatField -> Nat]
      /\ tally["submitted"] \in Nat /\ tally["completed"] \in Nat
      /\ tally["timed_out"] \in Nat /\ tally["device_error"] \in Nat
  BY DEF IInv, TypeInv
<1>1. ASSUME NEW t \in Caller, NEW v \in Vectors, Submit(t, v)
      PROVE  IInv'
  <2>1. open = {} /\ ~failed
    BY <1>1 DEF Submit, IInv, TypeInv
  <2>2. open' # {} /\ ~failed' /\ failed' \in BOOLEAN
    BY <1>1 DEF Submit
  <2>. QED
    BY <1>0, <1>1, <2>1, <2>2, CountOne DEF Submit, IInv, TypeInv, Accounted
<1>2. CASE DeviceFails
  BY <1>0, <1>2, CountOne DEF DeviceFails, IInv, TypeInv, Accounted
<1>3. ASSUME NEW j \in open, Complete(j)
      PROVE  IInv'
  BY <1>0, <1>3, CountOne DEF Complete, IInv, TypeInv, Accounted
<1>4. ASSUME NEW j \in open, TimeOut(j)
      PROVE  IInv'
  BY <1>0, <1>4, CountOne DEF TimeOut, IInv, TypeInv, Accounted
<1>5. ASSUME NEW j \in open, GiveUp(j)
      PROVE  IInv'
  BY <1>0, <1>5 DEF GiveUp, IInv, TypeInv, Accounted
<1>6. ASSUME NEW t \in Caller, Other(t)
      PROVE  IInv'
  BY <1>6 DEF Other, IInv, TypeInv, Accounted
<1>7. CASE Reset
  BY <1>0, <1>7, CountOne DEF Reset, IInv, TypeInv, Accounted
<1>8. CASE UNCHANGED vars
  BY <1>8 DEF vars, IInv, TypeInv, Accounted
<1>. QED
  BY <1>1, <1>2, <1>3, <1>4, <1>5, <1>6, <1>7, <1>8 DEF Next

\* No submission is lost from the counters or counted twice.
THEOREM EverySubmissionCountedOnce == Spec => []Accounted
<1>1. Init => IInv
  <2>. SUFFICES ASSUME Init PROVE IInv
    OBVIOUS
  <2>1. /\ tally["submitted"] = 0 /\ tally["completed"] = 0
        /\ tally["timed_out"] = 0 /\ tally["device_error"] = 0
    BY Fields DEF Init
  <2>2. TypeInv
    BY DEF Init, TypeInv
  <2>3. open = {}
    BY DEF Init
  <2>. QED
    BY <2>1, <2>2, <2>3 DEF IInv, Accounted
<1>. QED
  BY <1>1, Preserved, PTL DEF Spec, IInv
=============================================================================
