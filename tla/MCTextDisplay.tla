---------------------------- MODULE MCTextDisplay ----------------------------
(***************************************************************************)
(* A small screen for TLC: a row for the bar and two rows of text.  The    *)
(* radices are small so that the number of a terminal and the address of a *)
(* fault have two digits.  Two programs fit beside the base shells.        *)
(***************************************************************************)
EXTENDS TextDisplay

CONSTANT k, a

MCTerm == 0 .. 2
MCWrites == {<<a, Newline>>, <<Nul, a, Nul>>, <<Backspace>>}
MCAddresses == {5}
MCDrawn == {NUM_COLS * NUM_ROWS - 1}
=============================================================================
