----------------------------- MODULE MCXmaContext -----------------------------
(* One stream whose buffers hold one whole frame, kicked by the game and by the audio pump. *)
EXTENDS XmaContext

=============================================================================
