----------------------------- MODULE MCGpuLock -----------------------------
(***************************************************************************)
(* The device for TLC, as far as its lock goes: two models, no adapters,   *)
(* two threads of the pool and the warm-up thread.                         *)
(***************************************************************************)
EXTENDS GpuResidency, TLC

CONSTANTS p1, p2, w, turbo, quality

MCFits == {}

=============================================================================
