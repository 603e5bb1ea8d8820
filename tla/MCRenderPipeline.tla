--------------------------- MODULE MCRenderPipeline ---------------------------
(***************************************************************************)
(* Values of the constants for TLC: the two runners of the pool and the     *)
(* outcomes of a frame.                                                     *)
(***************************************************************************)
EXTENDS RenderPipeline

BothRunners == {"pump", "render"}
EveryOutcome == {"deferred", "waits", "drains", "fails", "resets", "loss"}
ReachTheGpu == {"deferred", "waits"}
SomeFail == {"deferred", "fails"}

=============================================================================
