--------------------------- MODULE MCWindowDisplay ---------------------------
(***************************************************************************)
(* A small screen for TLC.  A line of a window has two glyphs, a window two  *)
(* lines and a half, as 600 x 400 pixels have 74 and 23; a glyph can be half *)
(* covered, and the first window covers part of the third.                   *)
(***************************************************************************)
EXTENDS WindowDisplay

CONSTANT a

MCWindowX == [t \in Tids |-> 1 + 2 * t]
MCWindowY == [t \in Tids |-> 1 + 2 * t]
MCIconX == [t \in Tids |-> 2 + 4 * t]
MCIconY == [t \in Tids |-> 13]
MCMoves == {<<5, -4>>, <<-3, -9>>}
=============================================================================
