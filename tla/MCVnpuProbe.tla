----------------------------- MODULE MCVnpuProbe -----------------------------
(* Instances of VnpuProbe for TLC: revision A, one word, a supported and an
   unsupported length. *)
EXTENDS VnpuProbe

CONSTANTS w0, j0, a

Dot(len, timeout) ==
  [abi_version |-> 1, vector_length |-> len, timeout_ms |-> timeout,
   input |-> [i \in WordIndex |-> w0]]

MCRequests == {Dot(8, 255), Dot(16, 255)}
MCMasks == {{0}, {1}, {3}}
MCToolMasks == {{}, {1}, {3}}
MCLengths == {8, 16}
MCWord == {w0}
MCJobId == {j0}
MCThread == {a}
MCMayFail == {"enable", "alloc", "regions", "iomap", "request_irq", "register"}
=============================================================================
