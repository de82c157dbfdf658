-------------------------- MODULE MCProcessControl --------------------------
(***************************************************************************)
(* ProcessControl for TLC, with the refinement mapping to TerminalStacks.  *)
(***************************************************************************)
EXTENDS ProcessControl, Sequences

\* p, its parent, its parent's parent, ..., and NoPid from there on.
Ancestry(parent, p) ==
  LET up[n \in 1 .. MAX_NUM_PROCESS] ==
        IF n = 1 THEN p
        ELSE IF up[n - 1] = NoPid THEN NoPid ELSE parent[up[n - 1]]
  IN up

\* The stack with p on top: its ancestry up to the base shell.
StackOf(parent, p) ==
  LET up == Ancestry(parent, p)
  IN  [n \in {m \in 1 .. MAX_NUM_PROCESS : up[m] /= NoPid} |-> up[n]]

Stacks ==
  INSTANCE TerminalStacks WITH
    stack   <- [t \in Term |-> IF Alive THEN StackOf(parent_pid, Leaf(t)) ELSE <<>>],
    running <- IF Alive THEN running_term ELSE 0,
    dead    <- ~Alive

\* The PCBs, the pid bitmap and the tick implement a stack of processes for
\* each terminal, scheduled in turn.
ImplementsStacks == Stacks!Spec

=============================================================================
