---------------------------- MODULE VnpuDotLoop ----------------------------
(***************************************************************************)
(* The two loops that compute a dot product, run side by side on the same  *)
(* operands: vnpu_dot_product of the device, over packed words, and        *)
(* MockVnpuDevice::dot_product of the HAL, over the INT8 vectors           *)
(* (reference_model.dot_i8 of the Python tests is the same sum).  A step   *)
(* is one turn of the device's loop and the four turns of the mock's that  *)
(* cover the same elements.                                                *)
(***************************************************************************)
EXTENDS VnpuInt8

VARIABLES
  len,     \* number of elements: VECTOR_LENGTH
  input_a, \* the operand vectors
  input_b,
  i,       \* words the device has consumed
  result,  \* the device's int32_t accumulator
  mock     \* the mock's

vars == <<len, input_a, input_b, i, result, mock>>

Init ==
  /\ len \in {8, 16}
  /\ input_a \in [0..(len - 1) -> Int8]
  /\ input_b \in [0..(len - 1) -> Int8]
  /\ i = 0
  /\ result = 0
  /\ mock = 0

\* One turn of the mock's loop: element n.
ElementProduct(n) == input_a[n] * input_b[n]

Turn ==
  /\ i < len \div 4
  /\ i' = i + 1
  /\ result' = result + WordProduct(PackWord(input_a, len, i), PackWord(input_b, len, i))
  /\ mock' = mock + ElementProduct(4 * i) + ElementProduct(4 * i + 1)
                  + ElementProduct(4 * i + 2) + ElementProduct(4 * i + 3)
  /\ UNCHANGED <<len, input_a, input_b>>

Spec == Init /\ [][Turn]_vars
----------------------------------------------------------------------------
\* Packing, sign extension and the order of the lanes lose nothing: after every
\* turn the device has summed exactly what the mock has.
DeviceSumsWhatMockSums == result = mock

\* The 32-bit accumulator never overflows, at the extremes of every operand and
\* both lengths: -128 * 127 and -128 * -128 bound each of at most 16 products.
\* Flipping the low bit stays in range as well.
NoOverflow ==
  /\ -260096 <= result /\ result <= 262144
  /\ -260096 <= FlipLowBit(result) /\ FlipLowBit(result) <= 262145
=============================================================================
