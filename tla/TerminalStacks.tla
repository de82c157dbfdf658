--------------------------- MODULE TerminalStacks ---------------------------
(***************************************************************************)
(* What process control promises: each terminal has a stack of processes,  *)
(* its base shell at the bottom and the one that may run on top.  execute  *)
(* pushes, halt pops, a base shell that halts is replaced, and the timer   *)
(* passes the processor to the next terminal, which gets a base shell when *)
(* it has none.  No pid is ever in two places.                             *)
(***************************************************************************)
EXTENDS Integers, Sequences

CONSTANTS Pid, TERM_NUM

Term == 0 .. TERM_NUM - 1

VARIABLES
  stack,     (* terminal -> its processes, the top one first               *)
  running,   (* the terminal that has the processor                        *)
  dead       (* the kernel has gone astray                                 *)

vars == <<stack, running, dead>>

InUse == UNION {{stack[t][i] : i \in DOMAIN stack[t]} : t \in Term}

Init ==
  /\ stack = [t \in Term |-> <<>>]
  /\ running = 0
  /\ dead = FALSE

Push(q) ==
  /\ ~dead /\ stack[running] /= <<>>
  /\ q \notin InUse
  /\ stack' = [stack EXCEPT ![running] = <<q>> \o @]
  /\ UNCHANGED <<running, dead>>

Pop ==
  /\ ~dead /\ Len(stack[running]) > 1
  /\ stack' = [stack EXCEPT ![running] = Tail(@)]
  /\ UNCHANGED <<running, dead>>

Replace(q) ==
  /\ ~dead /\ Len(stack[running]) = 1
  /\ q \notin InUse \ {Head(stack[running])}
  /\ stack' = [stack EXCEPT ![running] = <<q>>]
  /\ UNCHANGED <<running, dead>>

Rotate ==
  LET next == (running + 1) % TERM_NUM
  IN /\ ~dead
     /\ running' = next
     /\ IF stack[next] /= <<>>
        THEN stack' = stack
        ELSE \E q \in Pid \ InUse : stack' = [stack EXCEPT ![next] = <<q>>]
     /\ UNCHANGED dead

Die ==
  /\ ~dead
  /\ dead' = TRUE
  /\ stack' = [t \in Term |-> <<>>]
  /\ running' = 0

Next ==
  \/ \E q \in Pid : Push(q) \/ Replace(q)
  \/ Pop
  \/ Rotate
  \/ Die

Spec == Init /\ [][Next]_vars /\ WF_vars(Rotate \/ Die)

=============================================================================
