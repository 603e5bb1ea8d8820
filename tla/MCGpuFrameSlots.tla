--------------------------- MODULE MCGpuFrameSlots ---------------------------
(***************************************************************************)
(* Values of the constants for TLC: the outcomes of a leased frame.         *)
(***************************************************************************)
EXTENDS GpuFrameSlots

EveryOutcome == {"submits", "abandons", "promotes"}
SubmitsOrPromotes == {"submits", "promotes"}

=============================================================================
