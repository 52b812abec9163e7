---------------------------- MODULE MCVnpuDevice ----------------------------
(* Instances of VnpuDevice for TLC. *)
EXTENDS VnpuDevice

CONSTANTS w0, w1, j0

MCWord == {w0, w1}
MCOneJob == {j0}

\* Supported lengths and one that no revision supports.
MCLengths == {8, 16, 32}

\* Clearing, every single fault, two bits at once, and a bit of the upper part.
MCMasks == {{}, {0}, {1}, {2}, {3}, {1, 2}, {4}}
=============================================================================
