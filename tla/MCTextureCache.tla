----------------------------- MODULE MCTextureCache -----------------------------
(* One texture of two pages, one of them an alias of the other's memory, verified every third  *)
(* frame; the first miss disables the skip.                                                    *)
EXTENDS TextureCache

=============================================================================
