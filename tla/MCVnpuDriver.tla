---------------------------- MODULE MCVnpuDriver ----------------------------
(* Instances of VnpuDriver for TLC. *)
EXTENDS VnpuDriver

CONSTANTS w0, w1, j0, a, b

MCWord == {w0, w1}
MCJobId == {j0}
MCOneThread == {a}
MCTwoThreads == {a, b}

Dot(abi, len, timeout, in) ==
  [abi_version |-> abi, vector_length |-> len, timeout_ms |-> timeout,
   input |-> in]

\* Operands that differ in every length: the last two are the stale ones of a
\* Dot8 after a Dot16.
Input8 == <<w0, w1, w0, w0>>
Input16 == <<w1, w0, w0, w1>>

\* Timeouts longer than the operation, and one that races it.
Dot8 == Dot(1, 8, 255, Input8)
Dot16 == Dot(1, 16, 1000, Input16)
Dot8Short == Dot(1, 8, 50, Input8)

BadLength == Dot(1, 32, 255, Input8)
BadAbi == Dot(2, 8, 255, Input8)
BadTimeout == Dot(1, 8, 0, Input8)

MCLong == {Dot8, Dot16}
MCLongAndBad == {Dot8, Dot16, BadLength, BadAbi, BadTimeout}
MCShort == {Dot8Short, Dot16}

\* Every fault, clearing, two bits, a reserved bit.
MCMasks == {{}, {0}, {1}, {2}, {3}, {0, 1}, {4}}
\* Without FAULT_FORCE_ERROR.
MCNoErrorMasks == {{}, {0}, {1}}
MCFaults == {{0}, {1}, {3}}
=============================================================================
