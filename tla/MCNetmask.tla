----------------------------- MODULE MCNetmask -----------------------------
EXTENDS Netmask

\* Every contiguous netmask, shortest first.
MCMasks == {ContiguousMask(p) : p \in 0 .. 32}
=============================================================================
