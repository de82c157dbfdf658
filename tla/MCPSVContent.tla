---------------------------- MODULE MCPSVContent ----------------------------
(* Instances of PSVContent for TLC.                                         *)
EXTENDS PSVContent

\* One read of all there may be, and one that starts and ends inside a block.
FewReads == {[offset |-> 0, length |-> 4], [offset |-> 1, length |-> 2]}
=============================================================================
