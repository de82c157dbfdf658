----------------------------- MODULE LineEditor -----------------------------
(***************************************************************************)
(* What keyboard and terminal switching promise to the person who types:   *)
(* every terminal has a line of its own that keys extend and backspace     *)
(* shortens, whichever terminals were looked at in between, and Enter      *)
(* submits the line of the terminal on the screen and of no other.         *)
(***************************************************************************)
EXTENDS Naturals, Sequences

CONSTANTS Term, Keys, LINE_MAX

VARIABLES
  line,        (* the line being typed in each terminal                    *)
  view,        (* the terminal on the screen                               *)
  submitted    (* the terminals with a line no read has answered yet       *)

vars == <<line, view, submitted>>

Init ==
  /\ line = [t \in Term |-> <<>>]
  /\ view \in Term
  /\ submitted = {}

Type(c) ==
  /\ Len(line[view]) < LINE_MAX
  /\ line' = [line EXCEPT ![view] = Append(@, c)]
  /\ UNCHANGED <<view, submitted>>

Erase ==
  /\ line[view] /= <<>>
  /\ line' = [line EXCEPT ![view] = SubSeq(@, 1, Len(@) - 1)]
  /\ UNCHANGED <<view, submitted>>

Submit ==
  /\ line' = [line EXCEPT ![view] = <<>>]
  /\ submitted' = submitted \cup {view}
  /\ UNCHANGED view

Look(t) ==
  /\ view' = t
  /\ UNCHANGED <<line, submitted>>

Answer(t) ==
  /\ submitted' = submitted \ {t}
  /\ UNCHANGED <<line, view>>

Next ==
  \/ \E c \in Keys : Type(c)
  \/ Erase
  \/ Submit
  \/ \E t \in Term : Look(t) \/ Answer(t)

Spec == Init /\ [][Next]_vars

=============================================================================
