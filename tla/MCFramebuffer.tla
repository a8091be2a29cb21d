---------------------------- MODULE MCFramebuffer ----------------------------
(***************************************************************************)
(* Framebuffer with a screen of a few cells, and every short string.       *)
(***************************************************************************)
EXTENDS Framebuffer

CONSTANT MaxText   \* bound on the length of a string

ShortTexts ==
  UNION {[1 .. n -> Glyphs \cup Controls \cup {"high"}] : n \in 0 .. MaxText}
=============================================================================
