----------------------- MODULE ProcessControlProofs -------------------------
(***************************************************************************)
(* The safety properties of ProcessControl, for any number of pids and     *)
(* terminals, and that its steps are those of TerminalStacks.              *)
(***************************************************************************)
EXTENDS MCProcessControl, NumberLemmas, SequenceTheorems, TLAPS

\* cur_pid is -1 exactly in the idle loop.
IdleHasNoPid == Alive => (mode = "idle" <=> cur_pid = NoPid)

(***************************************************************************)
(* Where frames are: a frame saved in user mode is on the process's own    *)
(* stack, one saved before the first iret on the stack of the parent that  *)
(* called execute, which waits.  Of a base shell's nothing is known.       *)
(***************************************************************************)
KernelStacks ==
  Alive =>
    /\ mode = "iret" /\ parent_pid[cur_pid] /= NoPid => kstack = parent_pid[cur_pid]
    /\ \A p \in Leaves \ {cur_pid} :
         /\ saved_at[p] = "user" => saved_on[p] = p
         /\ saved_at[p] = "iret" /\ parent_pid[p] /= NoPid => saved_on[p] = parent_pid[p]

\* Only the frame of a base shell saved before its first iret is overwritten.
OverwrittenAreBase ==
  Alive => \A p \in pcb_bitmap \cap overwritten : parent_pid[p] = NoPid /\ saved_at[p] = "iret"

IInv ==
  /\ TypeOK
  /\ IdleHasNoPid
  /\ ProcessChains
  /\ NoParentCycle
  /\ AddressSpace
  /\ SavedFrames
  /\ KernelStacks
  /\ OverwrittenAreBase
  /\ ReturnsHome

-----------------------------------------------------------------------------

LEMMA NextTermType ==
  ASSUME NEW t \in Term
  PROVE  next_term_to_run(t) \in Term
BY SizeAssumption DEF next_term_to_run, Term

LEMMA InitIInv == Init => IInv
<1> SUFFICES ASSUME Init PROVE IInv
  OBVIOUS
<1> USE SizeAssumption DEF Init, Alive
<1>1. TypeOK
  BY DEF TypeOK, Pid, Term, NoPid, Frames, Modes
<1>2. \A t \in Term : Leaf(t) = NoPid
  BY DEF Leaf
<1>3. Leaves = {}
  BY <1>2 DEF Leaves
<1>4. IdleHasNoPid /\ ReturnsHome /\ AddressSpace /\ OverwrittenAreBase
  BY DEF IdleHasNoPid, ReturnsHome, AddressSpace, OverwrittenAreBase
<1>5. ProcessChains
  BY <1>2, <1>3 DEF ProcessChains, DistinctEnds, EndsInUse, ParentsWait, OneChild, NoOrphan
<1>6. NoParentCycle
  BY DEF NoParentCycle
<1>7. SavedFrames /\ KernelStacks
  BY <1>3 DEF SavedFrames, KernelStacks
<1> QED
  BY <1>1, <1>4, <1>5, <1>6, <1>7 DEF IInv

LEMMA ExecuteIInv ==
  ASSUME IInv, NEW q \in Pid, Execute(q)
  PROVE  IInv'
<1> USE DEF IInv, Alive
<1>1. /\ mode = "user" /\ mode' = "iret" /\ cur_pid' = q
      /\ q \in Pid \ pcb_bitmap /\ pcb_bitmap' = pcb_bitmap \cup {q}
      /\ parent_pid' = [parent_pid EXCEPT ![q] = cur_pid]
      /\ saved_at' = [[saved_at EXCEPT ![cur_pid] = "execute"] EXCEPT ![q] = "none"]
      /\ saved_on' = [saved_on EXCEPT ![cur_pid] = tss_esp0]
      /\ pcb_esp0' = [pcb_esp0 EXCEPT ![q] = q]
      /\ kstack' = tss_esp0 /\ user_page' = q /\ tss_esp0' = q
      /\ UNCHANGED <<term_pid, running_term, shell_elf>>
      /\ overwritten' = (overwritten \cup Reused) \ {cur_pid, q}
  BY DEF Execute, StartProcess, record_process, LowestFree, HandlerStack
<1>2. cur_pid \in pcb_bitmap /\ tss_esp0 = cur_pid /\ cur_pid \in Pid /\ q /= cur_pid /\ cur_pid /= NoPid /\ q /= NoPid
  BY <1>1 DEF AddressSpace, TypeOK, Pid, NoPid
<1>3. TypeOK'
  BY <1>1, <1>2 DEF TypeOK, Frames, Modes, Reused
<1>4. \A t \in Term : Leaf(t)' = IF t = running_term THEN q ELSE Leaf(t)
  BY <1>1 DEF Leaf
<1>5. running_term \in Term /\ Leaf(running_term) = cur_pid
  BY DEF TypeOK, Leaf
<1>6. Leaves \subseteq pcb_bitmap /\ cur_pid \in Leaves
  BY <1>1, <1>2, <1>5 DEF ProcessChains, EndsInUse, Leaves
<1>7. Leaves' = (Leaves \ {cur_pid}) \cup {q}
  <2>1. Leaves' = {Leaf(t)' : t \in Term} \ {NoPid}
    BY DEF Leaves
  <2>2. ASSUME NEW t \in Term, t /= running_term, Leaf(t) = cur_pid PROVE FALSE
    BY <2>2, <1>1, <1>2, <1>5 DEF ProcessChains, DistinctEnds
  <2> QED
    BY <2>1, <2>2, <1>2, <1>4, <1>5 DEF Leaves
<1>8. ProcessChains'
  <2>1. DistinctEnds'
    BY <1>1, <1>2, <1>4, <1>6 DEF ProcessChains, DistinctEnds, Leaves
  <2>2. EndsInUse'
    BY <1>1, <1>6, <1>7 DEF EndsInUse
  <2>3. ParentsWait'
    BY <1>1, <1>2, <1>6, <1>7 DEF ProcessChains, ParentsWait, TypeOK
  <2>4. OneChild'
    BY <1>1, <1>2, <1>6 DEF ProcessChains, OneChild, ParentsWait, TypeOK
  <2>5. NoOrphan'
    BY <1>1, <1>2, <1>6, <1>7 DEF ProcessChains, NoOrphan, TypeOK
  <2> QED
    BY <2>1, <2>2, <2>3, <2>4, <2>5 DEF ProcessChains
<1>9. NoParentCycle'
  <2> SUFFICES ASSUME NEW S \in SUBSET pcb_bitmap', S /= {}
               PROVE  \E p \in S : parent_pid'[p] \notin S
    BY DEF NoParentCycle
  <2>1. CASE S = {q}
    BY <2>1, <1>1, <1>2 DEF TypeOK
  <2>2. CASE S \ {q} /= {}
    <3>1. PICK p \in S \ {q} : parent_pid[p] \notin S \ {q}
      BY <2>2, <1>1 DEF NoParentCycle
    <3>2. p \in pcb_bitmap /\ parent_pid[p] /= q /\ parent_pid'[p] = parent_pid[p]
      BY <3>1, <1>1, <1>2 DEF ProcessChains, ParentsWait, TypeOK
    <3> QED
      BY <3>1, <3>2
  <2> QED
    BY <2>1, <2>2
<1>10. AddressSpace'
  BY <1>1, <1>2 DEF AddressSpace, TypeOK
<1>11. SavedFrames'
  BY <1>1, <1>2, <1>6, <1>7 DEF SavedFrames, TypeOK
<1>12. KernelStacks'
  BY <1>1, <1>2, <1>6, <1>7 DEF KernelStacks, TypeOK
<1>13. \A p \in Reused : parent_pid[p] = NoPid /\ saved_at[p] = "iret"
  BY <1>1, <1>2, <1>6 DEF Reused, SavedFrames, KernelStacks, ProcessChains, ParentsWait
<1>14. OverwrittenAreBase'
  BY <1>1, <1>2, <1>13 DEF OverwrittenAreBase, TypeOK
<1> QED
  BY <1>1, <1>2, <1>3, <1>8, <1>9, <1>10, <1>11, <1>12, <1>14 DEF IdleHasNoPid, ReturnsHome

LEMMA IretIInv ==
  ASSUME IInv, Iret
  PROVE  IInv'
<1> USE DEF IInv, Alive, Iret, pcbs
<1>1. Leaves' = Leaves /\ \A t \in Term : Leaf(t)' = Leaf(t)
  BY DEF Leaves, Leaf
<1>2. TypeOK' /\ IdleHasNoPid' /\ AddressSpace' /\ ReturnsHome' /\ OverwrittenAreBase'
  BY DEF TypeOK, IdleHasNoPid, AddressSpace, ReturnsHome, OverwrittenAreBase, Modes
<1>3. ProcessChains' /\ NoParentCycle'
  BY <1>1 DEF ProcessChains, DistinctEnds, EndsInUse, ParentsWait, OneChild, NoOrphan, NoParentCycle
<1>4. SavedFrames' /\ KernelStacks'
  BY <1>1 DEF SavedFrames, KernelStacks
<1> QED
  BY <1>2, <1>3, <1>4

LEMMA HaltToParentIInv ==
  ASSUME IInv, HaltToParent
  PROVE  IInv'
<1> DEFINE par == parent_pid[cur_pid]
<1> USE DEF IInv, Alive
<1>1. /\ mode = "user" /\ par /= NoPid /\ cur_pid' = par /\ user_page' = par
      /\ pcb_bitmap' = pcb_bitmap \ {cur_pid} /\ tss_esp0' = pcb_esp0[par]
      /\ overwritten' = (overwritten \cup Reused) \ {cur_pid}
      /\ UNCHANGED <<parent_pid, pcb_esp0, saved_at, saved_on, term_pid, running_term, shell_elf>>
      /\ Restore(par, saved_at, saved_on, {"execute"}, overwritten')
  BY DEF HaltToParent, SwitchTo, pcbs
<1>2. /\ cur_pid \in pcb_bitmap /\ tss_esp0 = cur_pid /\ cur_pid \in Pid
      /\ running_term \in Term /\ Leaf(running_term) = cur_pid /\ cur_pid \in Leaves
      /\ Leaves \subseteq pcb_bitmap
  BY <1>1 DEF AddressSpace, TypeOK, Leaf, Leaves, Pid, NoPid, ProcessChains, EndsInUse
<1>3. par \in pcb_bitmap \ Leaves /\ par \in Pid /\ par /= cur_pid
  BY <1>1, <1>2 DEF ProcessChains, ParentsWait, TypeOK
<1>4. saved_at[par] = "execute" /\ saved_on[par] = par /\ pcb_esp0[par] = par
  BY <1>1, <1>3 DEF SavedFrames, AddressSpace
<1>5. par \notin overwritten'
  BY <1>1, <1>2, <1>3, <1>4 DEF OverwrittenAreBase, Reused
<1>6. mode' = "user" /\ kstack' = par
  BY <1>1, <1>4, <1>5 DEF Restore
<1>7. TypeOK'
  BY <1>1, <1>3, <1>4, <1>6 DEF TypeOK, Modes, Reused
<1>8. \A t \in Term : Leaf(t)' = IF t = running_term THEN par ELSE Leaf(t)
  BY <1>1 DEF Leaf
<1>9. Leaves' = (Leaves \ {cur_pid}) \cup {par}
  <2>1. Leaves' = {Leaf(t)' : t \in Term} \ {NoPid}
    BY DEF Leaves
  <2>2. ASSUME NEW t \in Term, t /= running_term, Leaf(t) = cur_pid PROVE FALSE
    BY <2>2, <1>1, <1>2 DEF ProcessChains, DistinctEnds, Pid, NoPid
  <2> QED
    BY <2>1, <2>2, <1>1, <1>2, <1>8 DEF Leaves
<1>10. ProcessChains'
  <2>1. DistinctEnds'
    BY <1>1, <1>3, <1>8 DEF ProcessChains, DistinctEnds, Leaves
  <2>2. EndsInUse'
    BY <1>1, <1>2, <1>3, <1>9 DEF EndsInUse
  <2>3. ASSUME NEW p \in pcb_bitmap', parent_pid[p] \in {par, cur_pid} PROVE FALSE
    BY <2>3, <1>1, <1>2, <1>3 DEF ProcessChains, OneChild, ParentsWait, Pid, NoPid
  <2>4. ParentsWait'
    BY <2>3, <1>1, <1>2, <1>3, <1>9 DEF ProcessChains, ParentsWait
  <2>5. OneChild'
    BY <1>1 DEF ProcessChains, OneChild
  <2>6. NoOrphan'
    <3> SUFFICES ASSUME NEW p \in pcb_bitmap', p \notin Leaves'
                 PROVE  \E c \in pcb_bitmap' : parent_pid'[c] = p
      BY DEF NoOrphan
    <3>1. PICK c \in pcb_bitmap : parent_pid[c] = p
      BY <1>1, <1>9 DEF ProcessChains, NoOrphan
    <3>2. c /= cur_pid
      BY <3>1, <1>9
    <3> QED
      BY <3>1, <3>2, <1>1
  <2> QED
    BY <2>1, <2>2, <2>4, <2>5, <2>6 DEF ProcessChains
<1>11. NoParentCycle'
  BY <1>1 DEF NoParentCycle
<1>12. AddressSpace'
  BY <1>1, <1>3, <1>4, <1>6 DEF AddressSpace
<1>13. SavedFrames'
  BY <1>1, <1>2, <1>3, <1>6, <1>9 DEF SavedFrames
<1>14. KernelStacks'
  BY <1>1, <1>2, <1>3, <1>6, <1>9 DEF KernelStacks
<1>15. \A p \in Reused : parent_pid[p] = NoPid /\ saved_at[p] = "iret"
  BY <1>1, <1>2 DEF Reused, SavedFrames, KernelStacks, ProcessChains, ParentsWait
<1>16. OverwrittenAreBase'
  BY <1>1, <1>15 DEF OverwrittenAreBase
<1> QED
  BY <1>1, <1>3, <1>6, <1>7, <1>10, <1>11, <1>12, <1>13, <1>14, <1>16
  DEF IdleHasNoPid, ReturnsHome, Pid, NoPid

\* halt finds the frame its parent's execute has saved.
LEMMA HaltToParentResumes ==
  ASSUME IInv, HaltToParent
  PROVE  Alive'
<1> DEFINE par == parent_pid[cur_pid]
<1> USE DEF IInv, Alive
<1>1. /\ mode = "user" /\ par /= NoPid /\ overwritten' = (overwritten \cup Reused) \ {cur_pid}
      /\ Restore(par, saved_at, saved_on, {"execute"}, overwritten')
  BY DEF HaltToParent
<1>2. cur_pid \in pcb_bitmap /\ tss_esp0 = cur_pid
  BY <1>1 DEF AddressSpace
<1>3. par \in pcb_bitmap \ Leaves
  BY <1>1, <1>2 DEF ProcessChains, ParentsWait
<1>4. saved_at[par] = "execute" /\ saved_on[par] = par
  BY <1>1, <1>3 DEF SavedFrames
<1>5. par \notin overwritten'
  BY <1>1, <1>2, <1>3, <1>4 DEF OverwrittenAreBase, Reused, NoParentCycle
<1> QED
  BY <1>1, <1>4, <1>5 DEF Restore

LEMMA HaltBaseIInv ==
  ASSUME IInv, NEW q \in Pid, HaltBase(q)
  PROVE  IInv'
<1> USE DEF IInv, Alive
<1>1. /\ mode = "user" /\ parent_pid[cur_pid] = NoPid
      /\ mode' = "iret" /\ cur_pid' = q /\ user_page' = q /\ tss_esp0' = q
      /\ q \in Pid \ (pcb_bitmap \ {cur_pid})
      /\ pcb_bitmap' = (pcb_bitmap \ {cur_pid}) \cup {q}
      /\ parent_pid' = [parent_pid EXCEPT ![q] = NoPid]
      /\ saved_at' = [saved_at EXCEPT ![q] = "none"]
      /\ pcb_esp0' = [pcb_esp0 EXCEPT ![q] = q]
      /\ kstack' = tss_esp0
      /\ UNCHANGED <<saved_on, term_pid, running_term, shell_elf>>
      /\ overwritten' = (overwritten \cup Reused) \ {cur_pid, q}
  BY DEF HaltBase, StartProcess, LowestFree, HandlerStack
<1>2. /\ cur_pid \in pcb_bitmap /\ tss_esp0 = cur_pid /\ cur_pid \in Pid
      /\ running_term \in Term /\ Leaf(running_term) = cur_pid /\ cur_pid \in Leaves
      /\ Leaves \subseteq pcb_bitmap /\ q /= NoPid
  BY <1>1 DEF AddressSpace, TypeOK, Leaf, Leaves, Pid, NoPid, ProcessChains, EndsInUse
<1>3. TypeOK'
  BY <1>1, <1>2 DEF TypeOK, Frames, Modes, Reused
<1>4. \A t \in Term : Leaf(t)' = IF t = running_term THEN q ELSE Leaf(t)
  BY <1>1 DEF Leaf
<1>5. ASSUME NEW t \in Term, t /= running_term PROVE Leaf(t) /= cur_pid
  BY <1>5, <1>1, <1>2 DEF ProcessChains, DistinctEnds, Pid, NoPid
<1>6. Leaves' = (Leaves \ {cur_pid}) \cup {q}
  <2>1. Leaves' = {Leaf(t)' : t \in Term} \ {NoPid}
    BY DEF Leaves
  <2> QED
    BY <2>1, <1>5, <1>2, <1>4 DEF Leaves
<1>7. ProcessChains'
  <2>1. DistinctEnds'
    BY <1>1, <1>2, <1>4, <1>5 DEF ProcessChains, DistinctEnds, Leaves
  <2>2. EndsInUse'
    BY <1>1, <1>2, <1>6 DEF EndsInUse
  <2>3. ParentsWait'
    BY <1>1, <1>2, <1>6 DEF ProcessChains, ParentsWait, TypeOK
  <2>4. OneChild'
    BY <1>1, <1>2 DEF ProcessChains, OneChild, ParentsWait, TypeOK
  <2>5. NoOrphan'
    <3> SUFFICES ASSUME NEW p \in pcb_bitmap', p \notin Leaves'
                 PROVE  \E c \in pcb_bitmap' : parent_pid'[c] = p
      BY DEF NoOrphan
    <3>1. PICK c \in pcb_bitmap : parent_pid[c] = p
      BY <1>1, <1>6 DEF ProcessChains, NoOrphan
    <3>2. p \in Pid /\ p /= NoPid
      BY <1>3 DEF TypeOK, Pid, NoPid
    <3>3. c /= cur_pid /\ c /= q
      BY <3>1, <3>2, <1>1
    <3> QED
      BY <3>1, <3>3, <1>1 DEF TypeOK
  <2> QED
    BY <2>1, <2>2, <2>3, <2>4, <2>5 DEF ProcessChains
<1>8. NoParentCycle'
  <2> SUFFICES ASSUME NEW S \in SUBSET pcb_bitmap', S /= {}
               PROVE  \E p \in S : parent_pid'[p] \notin S
    BY DEF NoParentCycle
  <2>1. CASE q \in S
    BY <2>1, <1>1, <1>3 DEF TypeOK, Pid, NoPid
  <2>2. CASE q \notin S
    BY <2>2, <1>1 DEF NoParentCycle, TypeOK
  <2> QED
    BY <2>1, <2>2
<1>9. AddressSpace'
  BY <1>1, <1>2 DEF AddressSpace, TypeOK
<1>10. SavedFrames'
  BY <1>1, <1>2, <1>6 DEF SavedFrames, TypeOK
<1>11. KernelStacks'
  BY <1>1, <1>2, <1>6 DEF KernelStacks, TypeOK
<1>12. \A p \in Reused : parent_pid[p] = NoPid /\ saved_at[p] = "iret"
  BY <1>1, <1>2 DEF Reused, SavedFrames, KernelStacks, ProcessChains, ParentsWait
<1>13. OverwrittenAreBase'
  BY <1>1, <1>2, <1>12 DEF OverwrittenAreBase, TypeOK
<1> QED
  BY <1>1, <1>2, <1>3, <1>7, <1>8, <1>9, <1>10, <1>11, <1>13 DEF IdleHasNoPid, ReturnsHome

LEMMA HaltBaseFailsIInv ==
  ASSUME IInv, HaltBaseFails
  PROVE  IInv'
BY DEF IInv, HaltBaseFails, pcbs, TypeOK, Modes, Alive, IdleHasNoPid, ProcessChains, NoParentCycle,
       AddressSpace, SavedFrames, KernelStacks, OverwrittenAreBase, ReturnsHome

(***************************************************************************)
(* What every tick saves.                                                  *)
(***************************************************************************)
LEMMA SaveCurrentFacts ==
  ASSUME IInv, SaveCurrent
  PROVE  /\ running_term \in Term /\ running_term' \in Term /\ running_term' = NextTerm
         /\ \A t \in Term : SavedPids[t] = Leaf(t)
         /\ term_pid' = SavedPids /\ SavedPids \in [Term -> Pid \cup {NoPid}]
         /\ cur_pid /= NoPid => /\ cur_pid \in pcb_bitmap \cap Pid /\ cur_pid \in Leaves
                               /\ mode \in {"user", "iret"} /\ tss_esp0 = cur_pid
         /\ cur_pid = NoPid => mode = "idle"
         /\ Leaves \subseteq pcb_bitmap
<1> USE DEF IInv, Alive, SaveCurrent
<1>1. running_term \in Term /\ running_term' \in Term /\ running_term' = NextTerm
  BY NextTermType DEF TypeOK, NextTerm
<1>2. SavedPids \in [Term -> Pid \cup {NoPid}] /\ term_pid' = SavedPids
  BY DEF SavedPids, TypeOK
<1>3. \A t \in Term : SavedPids[t] = Leaf(t)
  BY DEF SavedPids, Leaf, TypeOK
<1>4. cur_pid /= NoPid => /\ cur_pid \in pcb_bitmap \cap Pid
                         /\ mode \in {"user", "iret"} /\ tss_esp0 = cur_pid
  BY DEF IdleHasNoPid, AddressSpace, TypeOK
<1>5. cur_pid /= NoPid => cur_pid \in Leaves
  BY <1>1 DEF Leaves, Leaf
<1>6. cur_pid = NoPid => mode = "idle"
  BY DEF IdleHasNoPid
<1>7. Leaves \subseteq pcb_bitmap
  BY DEF ProcessChains, EndsInUse
<1> QED
  BY <1>1, <1>2, <1>3, <1>4, <1>5, <1>6, <1>7

\* The PCBs after a tick has saved the process it interrupts.
LEMMA SavedFacts ==
  ASSUME IInv, SaveCurrent
  PROVE  /\ SavedEsp0 \in [Pid -> Pid] /\ SavedAt \in [Pid -> Frames] /\ SavedOn \in [Pid -> Pid]
         /\ Damaged \subseteq Pid
         /\ \A p \in pcb_bitmap : SavedEsp0[p] = p
         /\ \A p \in pcb_bitmap \ Leaves : SavedAt[p] = "execute" /\ SavedOn[p] = p
         /\ \A p \in Leaves :
              /\ SavedAt[p] \in {"user", "iret"}
              /\ SavedAt[p] = "user" => SavedOn[p] = p
              /\ SavedAt[p] = "iret" /\ parent_pid[p] /= NoPid => SavedOn[p] = parent_pid[p]
         /\ \A p \in pcb_bitmap \cap Damaged : parent_pid[p] = NoPid /\ SavedAt[p] = "iret"
<1> USE SaveCurrentFacts DEF IInv, Alive
<1>1. SavedEsp0 \in [Pid -> Pid] /\ SavedAt \in [Pid -> Frames] /\ SavedOn \in [Pid -> Pid]
      /\ Damaged \subseteq Pid
  BY DEF SavedEsp0, SavedAt, SavedOn, Damaged, Reused, HandlerStack, TypeOK, Frames, SaveCurrent
<1>2. \A p \in pcb_bitmap : SavedEsp0[p] = p
  BY DEF SavedEsp0, AddressSpace, TypeOK, SaveCurrent
<1>3. \A p \in pcb_bitmap \ Leaves : SavedAt[p] = "execute" /\ SavedOn[p] = p
  BY DEF SavedAt, SavedOn, SavedFrames, TypeOK, SaveCurrent
<1>4. ASSUME NEW p \in Leaves
      PROVE  /\ SavedAt[p] \in {"user", "iret"}
             /\ SavedAt[p] = "user" => SavedOn[p] = p
             /\ SavedAt[p] = "iret" /\ parent_pid[p] /= NoPid => SavedOn[p] = parent_pid[p]
  <2>1. CASE p = cur_pid
    BY <2>1 DEF SavedAt, SavedOn, HandlerStack, KernelStacks, TypeOK, SaveCurrent, Leaves
  <2>2. CASE p /= cur_pid
    BY <2>2 DEF SavedAt, SavedOn, SavedFrames, KernelStacks, TypeOK, SaveCurrent
  <2> QED
    BY <2>1, <2>2
<1>5. \A p \in Reused : parent_pid[p] = NoPid /\ saved_at[p] = "iret"
  BY DEF Reused, SavedFrames, KernelStacks, ProcessChains, ParentsWait, SaveCurrent
<1>6. \A p \in pcb_bitmap \cap Damaged : parent_pid[p] = NoPid /\ SavedAt[p] = "iret"
  BY <1>5 DEF Damaged, SavedAt, OverwrittenAreBase, TypeOK, SaveCurrent
<1> QED
  BY <1>1, <1>2, <1>3, <1>4, <1>6

LEMMA TickResumeIInv ==
  ASSUME IInv, TickResume
  PROVE  IInv'
<1> USE DEF IInv, Alive
<1>1. /\ SaveCurrent /\ NextPid /= NoPid /\ cur_pid' = NextPid /\ user_page' = NextPid
      /\ tss_esp0' = SavedEsp0[NextPid] /\ pcb_esp0' = SavedEsp0 /\ saved_at' = SavedAt
      /\ saved_on' = SavedOn /\ overwritten' = Damaged /\ kstack' = SavedOn[NextPid]
      /\ UNCHANGED <<pcb_bitmap, parent_pid, shell_elf>>
      /\ Restore(NextPid, SavedAt, SavedOn, {"user", "iret"}, Damaged)
  BY DEF TickResume, SwitchTo, SaveCurrent, Restore
<1>2. /\ NextTerm \in Term /\ running_term' = NextTerm /\ NextPid = Leaf(NextTerm)
      /\ NextPid \in Leaves /\ NextPid \in pcb_bitmap /\ NextPid \in Pid
  BY <1>1, SaveCurrentFacts DEF NextPid, Leaves, TypeOK
<1>3. SavedAt[NextPid] \in {"user", "iret"}
  BY <1>1, <1>2, SavedFacts
<1>4. \/ mode' = SavedAt[NextPid]
      \/ mode' = "lost" /\ NextPid \in Damaged
  BY <1>1, <1>3 DEF Restore
<1>5. TypeOK'
  BY <1>1, <1>2, <1>3, <1>4, SaveCurrentFacts, SavedFacts DEF TypeOK, Modes
<1>6. \A t \in Term : Leaf(t)' = Leaf(t)
  BY <1>1, <1>2, SaveCurrentFacts DEF Leaf
<1>7. Leaves' = Leaves
  <2>1. Leaves' = {Leaf(t)' : t \in Term} \ {NoPid}
    BY DEF Leaves
  <2> QED
    BY <2>1, <1>6 DEF Leaves
<1>8. Alive
  BY <1>1 DEF SaveCurrent
<1>9. ProcessChains' /\ NoParentCycle'
  BY <1>1, <1>6, <1>7, <1>8
  DEF ProcessChains, DistinctEnds, EndsInUse, ParentsWait, OneChild, NoOrphan, NoParentCycle
<1>10. AddressSpace'
  BY <1>1, <1>2, SavedFacts DEF AddressSpace
<1>11. SavedFrames'
  BY <1>1, <1>7, SavedFacts DEF SavedFrames
<1>12. KernelStacks'
  BY <1>1, <1>2, <1>3, <1>4, <1>7, SavedFacts DEF KernelStacks
<1>13. OverwrittenAreBase'
  BY <1>1, SavedFacts DEF OverwrittenAreBase
<1>14. ReturnsHome'
  BY <1>1, <1>2, <1>3, <1>4, SavedFacts DEF ReturnsHome
<1>15. IdleHasNoPid'
  BY <1>1, <1>3, <1>4 DEF IdleHasNoPid
<1> QED
  BY <1>5, <1>9, <1>10, <1>11, <1>12, <1>13, <1>14, <1>15

LEMMA TickLaunchIInv ==
  ASSUME IInv, NEW q \in Pid, TickLaunch(q)
  PROVE  IInv'
<1> USE DEF IInv, Alive
<1>1. /\ SaveCurrent /\ NextPid = NoPid /\ q \notin pcb_bitmap
      /\ cur_pid' = q /\ user_page' = q /\ tss_esp0' = q /\ mode' = "iret" /\ kstack' = HandlerStack
      /\ pcb_bitmap' = pcb_bitmap \cup {q} /\ parent_pid' = [parent_pid EXCEPT ![q] = NoPid]
      /\ pcb_esp0' = [SavedEsp0 EXCEPT ![q] = q] /\ saved_at' = [SavedAt EXCEPT ![q] = "none"]
      /\ saved_on' = SavedOn /\ overwritten' = Damaged \ {q} /\ UNCHANGED shell_elf
  BY DEF TickLaunch, StartProcess, record_process, LowestFree, SaveCurrent
<1>2. /\ NextTerm \in Term /\ running_term' = NextTerm /\ Leaf(NextTerm) = NoPid
      /\ Leaves \subseteq pcb_bitmap /\ q /= NoPid
  BY <1>1, SaveCurrentFacts DEF NextPid, Pid, NoPid
<1>3. TypeOK'
  BY <1>1, <1>2, SaveCurrentFacts, SavedFacts DEF TypeOK, Modes, Frames, HandlerStack
<1>4. \A t \in Term : Leaf(t)' = IF t = NextTerm THEN q ELSE Leaf(t)
  BY <1>1, <1>2, SaveCurrentFacts DEF Leaf
<1>5. Leaves' = Leaves \cup {q}
  <2>1. Leaves' = {Leaf(t)' : t \in Term} \ {NoPid}
    BY DEF Leaves
  <2> QED
    BY <2>1, <1>2, <1>4 DEF Leaves
<1>6. Alive
  BY <1>1 DEF SaveCurrent
<1>7. ProcessChains'
  <2>1. DistinctEnds'
    BY <1>1, <1>2, <1>4, <1>6 DEF ProcessChains, DistinctEnds, Leaves
  <2>2. EndsInUse'
    BY <1>1, <1>2, <1>5 DEF EndsInUse
  <2>3. ParentsWait'
    BY <1>1, <1>2, <1>5, <1>6 DEF ProcessChains, ParentsWait, TypeOK
  <2>4. OneChild'
    BY <1>1, <1>2, <1>6 DEF ProcessChains, OneChild, ParentsWait, TypeOK
  <2>5. NoOrphan'
    BY <1>1, <1>2, <1>5, <1>6 DEF ProcessChains, NoOrphan, TypeOK
  <2> QED
    BY <2>1, <2>2, <2>3, <2>4, <2>5 DEF ProcessChains
<1>8. NoParentCycle'
  <2> SUFFICES ASSUME NEW S \in SUBSET pcb_bitmap', S /= {}
               PROVE  \E p \in S : parent_pid'[p] \notin S
    BY DEF NoParentCycle
  <2>1. CASE q \in S
    BY <2>1, <1>1, <1>3 DEF TypeOK, Pid, NoPid
  <2>2. CASE q \notin S
    BY <2>2, <1>1, <1>6 DEF NoParentCycle, TypeOK
  <2> QED
    BY <2>1, <2>2
<1>9. AddressSpace'
  BY <1>1, SavedFacts DEF AddressSpace
<1>10. SavedFrames'
  BY <1>1, <1>2, <1>5, SavedFacts DEF SavedFrames
<1>11. KernelStacks'
  BY <1>1, <1>2, <1>5, SavedFacts DEF KernelStacks, TypeOK
<1>12. OverwrittenAreBase'
  BY <1>1, SavedFacts DEF OverwrittenAreBase, TypeOK
<1> QED
  BY <1>1, <1>2, <1>3, <1>7, <1>8, <1>9, <1>10, <1>11, <1>12 DEF IdleHasNoPid, ReturnsHome

LEMMA TickLaunchFailsIInv ==
  ASSUME IInv, TickLaunchFails
  PROVE  IInv'
<1>1. TypeOK'
  BY SaveCurrentFacts, SavedFacts DEF TickLaunchFails, IInv, TypeOK, Modes, SaveCurrent
<1> QED
  BY <1>1 DEF IInv, TickLaunchFails, Alive, IdleHasNoPid, ProcessChains, NoParentCycle,
     AddressSpace, SavedFrames, KernelStacks, OverwrittenAreBase, ReturnsHome

LEMMA StutterIInv ==
  ASSUME IInv, Rename \/ UNCHANGED vars
  PROVE  IInv'
<1>1. /\ UNCHANGED <<pcb_bitmap, parent_pid, pcb_esp0, saved_at, saved_on, term_pid, running_term,
                     cur_pid, user_page, tss_esp0, mode, kstack, overwritten>>
      /\ shell_elf' = shell_elf \/ shell_elf' = ~shell_elf
  BY DEF Rename, vars, pcbs, cpu
<1>2. TypeOK'
  <2>1. shell_elf' \in BOOLEAN
    BY <1>1 DEF IInv, TypeOK
  <2> QED
    BY <1>1, <2>1 DEF IInv, TypeOK
<1>3. Leaves' = Leaves /\ (Alive' <=> Alive)
  BY <1>1 DEF Leaves, Leaf, Alive
<1>4. \A t \in Term : Leaf(t)' = Leaf(t)
  BY <1>1 DEF Leaf
<1> QED
  BY <1>1, <1>2, <1>3, <1>4
  DEF IInv, IdleHasNoPid, ProcessChains, DistinctEnds, EndsInUse, ParentsWait, OneChild, NoOrphan,
      NoParentCycle, AddressSpace, SavedFrames, KernelStacks, OverwrittenAreBase, ReturnsHome

LEMMA NextIInv ==
  ASSUME IInv, [Next]_vars
  PROVE  IInv'
BY ExecuteIInv, IretIInv, HaltToParentIInv, HaltBaseIInv, HaltBaseFailsIInv, TickResumeIInv,
   TickLaunchIInv, TickLaunchFailsIInv, StutterIInv DEF Next, Tick, Dead

\* The inductive invariant.
THEOREM Inductive == Spec => []IInv
<1>1. Init => IInv
  BY InitIInv
<1>2. IInv /\ [Next]_vars => IInv'
  BY NextIInv
<1> QED
  BY <1>1, <1>2, PTL DEF Spec

-----------------------------------------------------------------------------

\* The variables of process control keep their types.
THEOREM TypeCorrect == Spec => []TypeOK
BY Inductive, PTL DEF IInv

\* The pids in use always form one chain per terminal, without a cycle.
THEOREM ChainsCorrect == Spec => [](ProcessChains /\ NoParentCycle)
BY Inductive, PTL DEF IInv

\* A program always runs in its own page with its own kernel stack in the TSS.
THEOREM AddressSpaceCorrect == Spec => []AddressSpace
BY Inductive, PTL DEF IInv

\* A saved esp/ebp pair is of the kind that halt or schedule() will use it as.
THEOREM FramesCorrect == Spec => []SavedFrames
BY Inductive, PTL DEF IInv

\* Only a base shell interrupted before its first iret can be resumed wrongly.
THEOREM ReturnsCorrect == Spec => []ReturnsHome
BY Inductive, PTL DEF IInv

-----------------------------------------------------------------------------
(* The refinement of TerminalStacks.                                      *)

(***************************************************************************)
(* s is the chain of execute calls that ends with p, in the PCBs parent    *)
(* and the pids used: p first, each the child of the next, a base shell    *)
(* last.                                                                   *)
(***************************************************************************)
IsChain(parent, used, s, p) ==
  /\ s \in Seq(used)
  /\ p = NoPid <=> s = <<>>
  /\ s /= <<>> => s[1] = p /\ parent[s[Len(s)]] = NoPid
  /\ \A i \in 1 .. Len(s) - 1 : parent[s[i]] = s[i + 1]
  /\ \A i, j \in 1 .. Len(s) : s[i] = s[j] => i = j

\* A chain is no longer than there are pids.
LEMMA ChainLength ==
  ASSUME NEW parent, NEW used \in SUBSET Pid, NEW s, NEW p, IsChain(parent, used, s, p)
  PROVE  /\ Len(s) \in 0 .. MAX_NUM_PROCESS /\ DOMAIN s = 1 .. Len(s)
         /\ \A i \in 1 .. Len(s) : s[i] \in Pid /\ s[i] /= NoPid
<1>1. s \in Seq(Pid) /\ Len(s) \in Nat /\ s \in [1 .. Len(s) -> Pid]
  BY DEF IsChain
<1>2. /\ IsFiniteSet(Pid) /\ Cardinality(Pid) = MAX_NUM_PROCESS
      /\ IsFiniteSet(1 .. Len(s)) /\ Cardinality(1 .. Len(s)) = Len(s)
  <2>1. /\ IsFiniteSet(0 .. MAX_NUM_PROCESS - 1)
        /\ Cardinality(0 .. MAX_NUM_PROCESS - 1) = IF 0 > MAX_NUM_PROCESS - 1 THEN 0 ELSE MAX_NUM_PROCESS - 1 - 0 + 1
    BY SizeAssumption, FS_Interval
  <2>2. IsFiniteSet(1 .. Len(s)) /\ Cardinality(1 .. Len(s)) = IF 1 > Len(s) THEN 0 ELSE Len(s) - 1 + 1
    BY <1>1, FS_Interval
  <2> QED
    BY <1>1, <2>1, <2>2, SizeAssumption DEF Pid
<1>3. ASSUME Len(s) > MAX_NUM_PROCESS PROVE FALSE
  <2>1. Cardinality(Pid) < Cardinality(1 .. Len(s))
    BY <1>1, <1>2, <1>3, SizeAssumption
  <2>2. \E i, j \in 1 .. Len(s) : i /= j /\ s[i] = s[j]
    BY <1>1, <1>2, <2>1, FS_PigeonHole
  <2> QED
    BY <2>2 DEF IsChain
<1> QED
  BY <1>1, <1>3, SizeAssumption DEF Pid, NoPid

\* The recursion of Ancestry walks a chain to its end.
LEMMA StackOfChain ==
  ASSUME NEW parent, NEW used \in SUBSET Pid, NEW s, NEW p, IsChain(parent, used, s, p)
  PROVE  StackOf(parent, p) = s
<1> DEFINE Walk == [n \in 1 .. MAX_NUM_PROCESS |-> IF n <= Len(s) THEN s[n] ELSE NoPid]
           Climbs(up) == up = [n \in 1 .. MAX_NUM_PROCESS |->
                                 IF n = 1 THEN p
                                 ELSE IF up[n - 1] = NoPid THEN NoPid ELSE parent[up[n - 1]]]
<1>1. /\ Len(s) \in 0 .. MAX_NUM_PROCESS /\ DOMAIN s = 1 .. Len(s)
      /\ \A i \in 1 .. Len(s) : s[i] \in Pid /\ s[i] /= NoPid
      /\ MAX_NUM_PROCESS \in Nat
  BY ChainLength, SizeAssumption
<1>2. Climbs(Walk)
  <2> SUFFICES ASSUME NEW n \in 1 .. MAX_NUM_PROCESS
               PROVE  Walk[n] = IF n = 1 THEN p
                                ELSE IF Walk[n - 1] = NoPid THEN NoPid ELSE parent[Walk[n - 1]]
    OBVIOUS
  <2>1. CASE n = 1
    BY <2>1, <1>1 DEF IsChain
  <2>2. CASE n > 1 /\ n - 1 > Len(s)
    BY <2>2, <1>1
  <2>3. CASE n > 1 /\ n - 1 = Len(s)
    BY <2>3, <1>1 DEF IsChain
  <2>4. CASE n > 1 /\ n - 1 < Len(s)
    <3>1. n - 1 \in 1 .. Len(s) - 1 /\ n \in 1 .. Len(s)
      BY <2>4, <1>1
    <3>2. parent[s[n - 1]] = s[n]
      BY <3>1, <1>1 DEF IsChain
    <3> QED
      BY <3>1, <3>2, <1>1
  <2> QED
    BY <2>1, <2>2, <2>3, <2>4, <1>1
<1>3. ASSUME NEW up, Climbs(up) PROVE up = Walk
  <2> DEFINE Same == {n \in Nat : n < MAX_NUM_PROCESS => up[n + 1] = Walk[n + 1]}
  <2>1. /\ DOMAIN up = 1 .. MAX_NUM_PROCESS /\ up = [n \in DOMAIN up |-> up[n]]
        /\ DOMAIN Walk = 1 .. MAX_NUM_PROCESS /\ Walk = [n \in DOMAIN Walk |-> Walk[n]]
    BY <1>3
  <2>2. \A n \in 1 .. MAX_NUM_PROCESS :
          /\ up[n] = IF n = 1 THEN p
                     ELSE IF up[n - 1] = NoPid THEN NoPid ELSE parent[up[n - 1]]
          /\ Walk[n] = IF n = 1 THEN p
                       ELSE IF Walk[n - 1] = NoPid THEN NoPid ELSE parent[Walk[n - 1]]
    BY <1>2, <1>3
  <2> HIDE DEF Walk, Climbs
  <2>3. 0 \in Same
    BY <2>2, <1>1
  <2>4. ASSUME NEW n \in Nat, n \in Same PROVE n + 1 \in Same
    <3>1. CASE n + 1 < MAX_NUM_PROCESS
      <4>1. n + 2 \in 1 .. MAX_NUM_PROCESS /\ (n + 2) - 1 = n + 1 /\ n + 2 /= 1
            /\ (n + 1) + 1 = n + 2 /\ n < MAX_NUM_PROCESS
        BY <3>1, <1>1
      <4>2. up[n + 1] = Walk[n + 1]
        BY <2>4, <4>1
      <4>3. up[n + 2] = Walk[n + 2]
        BY <4>1, <4>2, <2>2
      <4> QED
        BY <4>1, <4>3
    <3>2. CASE ~(n + 1 < MAX_NUM_PROCESS)
      BY <3>2
    <3> QED
      BY <3>1, <3>2
  <2>5. Nat \subseteq Same
    <3> HIDE DEF Same
    <3> QED BY <2>3, <2>4, Induction
  <2>6. ASSUME NEW n \in 1 .. MAX_NUM_PROCESS PROVE up[n] = Walk[n]
    <3>1. n - 1 \in Nat /\ n - 1 < MAX_NUM_PROCESS /\ (n - 1) + 1 = n
      BY <1>1
    <3>2. n - 1 \in Same
      BY <2>5, <3>1
    <3> QED
      BY <3>1, <3>2
  <2> QED
    BY <2>1, <2>6
<1>4. Ancestry(parent, p) = Walk
  <2>1. Ancestry(parent, p) = CHOOSE up : Climbs(up)
    BY DEF Ancestry
  <2> HIDE DEF Climbs, Walk
  <2> QED
    BY <2>1, <1>2, <1>3
<1>5. {m \in 1 .. MAX_NUM_PROCESS : Walk[m] /= NoPid} = 1 .. Len(s)
  <2>1. \A m \in 1 .. MAX_NUM_PROCESS : Walk[m] /= NoPid <=> m <= Len(s)
    BY <1>1
  <2> HIDE DEF Walk
  <2> QED
    BY <2>1, <1>1
<1>6. StackOf(parent, p) = [n \in 1 .. Len(s) |-> Walk[n]]
  <2> HIDE DEF Walk
  <2> QED BY <1>4, <1>5 DEF StackOf
<1>7. s = [n \in 1 .. Len(s) |-> s[n]]
  BY <1>1 DEF IsChain
<1>8. \A n \in 1 .. Len(s) : Walk[n] = s[n]
  BY <1>1
<1> HIDE DEF Walk
<1> QED
  BY <1>6, <1>7, <1>8

\* execute puts a free pid on top of the chain.
LEMMA PushChain ==
  ASSUME NEW parent \in [Pid -> Pid \cup {NoPid}], NEW used \in SUBSET Pid,
         NEW s, NEW p, IsChain(parent, used, s, p), p /= NoPid, NEW q \in Pid \ used
  PROVE  IsChain([parent EXCEPT ![q] = p], used \cup {q}, <<q>> \o s, q)
<1> DEFINE r == <<q>> \o s
<1>1. s \in Seq(used) /\ Len(s) \in Nat /\ Len(s) > 0 /\ \A i \in 1 .. Len(s) : s[i] \in used
  BY DEF IsChain
<1>2. r \in Seq(used \cup {q}) /\ Len(r) = Len(s) + 1 /\ r[1] = q /\ r /= <<>>
      /\ \A i \in 2 .. Len(r) : r[i] = s[i - 1]
  BY <1>1
<1> HIDE DEF r
<1> DEFINE par2 == [parent EXCEPT ![q] = p]
<1>3. par2[q] = p /\ \A x \in used : par2[x] = parent[x]
  OBVIOUS
<1>4. q /= NoPid
  BY DEF Pid, NoPid
<1>5. par2[r[Len(r)]] = NoPid
  <2>1. r[Len(r)] = s[Len(s)] /\ s[Len(s)] \in used
    BY <1>1, <1>2
  <2> QED
    BY <2>1, <1>3, <1>1 DEF IsChain
<1>6. ASSUME NEW i \in 1 .. Len(r) - 1 PROVE par2[r[i]] = r[i + 1]
  <2>1. CASE i = 1
    BY <2>1, <1>1, <1>2, <1>3 DEF IsChain
  <2>2. CASE i > 1
    <3>1. i \in 2 .. Len(r) /\ i + 1 \in 2 .. Len(r) /\ i - 1 \in 1 .. Len(s) - 1
          /\ i - 1 \in 1 .. Len(s) /\ (i - 1) + 1 = i /\ (i + 1) - 1 = i
      BY <2>2, <1>1, <1>2
    <3>2. r[i] = s[i - 1] /\ r[i + 1] = s[i] /\ parent[s[i - 1]] = s[i] /\ s[i - 1] \in used
      BY <3>1, <1>1, <1>2 DEF IsChain
    <3> QED
      BY <3>2, <1>3
  <2> QED
    BY <2>1, <2>2, <1>1, <1>2
<1>7. ASSUME NEW i \in 1 .. Len(r), NEW j \in 1 .. Len(r), r[i] = r[j] PROVE i = j
  <2>1. CASE i = 1 /\ j = 1
    BY <2>1
  <2>2. CASE i = 1 /\ j > 1
    <3>1. j \in 2 .. Len(r) /\ j - 1 \in 1 .. Len(s)
      BY <2>2, <1>1, <1>2
    <3> QED BY <3>1, <2>2, <1>7, <1>1, <1>2
  <2>3. CASE i > 1 /\ j = 1
    <3>1. i \in 2 .. Len(r) /\ i - 1 \in 1 .. Len(s)
      BY <2>3, <1>1, <1>2
    <3> QED BY <3>1, <2>3, <1>7, <1>1, <1>2
  <2>4. CASE i > 1 /\ j > 1
    <3>1. i \in 2 .. Len(r) /\ i - 1 \in 1 .. Len(s) /\ j \in 2 .. Len(r) /\ j - 1 \in 1 .. Len(s)
      BY <2>4, <1>1, <1>2
    <3>2. s[i - 1] = s[j - 1]
      BY <3>1, <1>7, <1>2
    <3>3. i - 1 = j - 1
      BY <3>1, <3>2 DEF IsChain
    <3> QED
      BY <3>3, <1>1, <1>2
  <2> QED
    BY <2>1, <2>2, <2>3, <2>4, <1>1, <1>2
<1>8. IsChain(par2, used \cup {q}, r, q)
  <2> HIDE DEF par2
  <2> QED BY <1>2, <1>4, <1>5, <1>6, <1>7 DEF IsChain
<1> QED
  BY <1>8 DEF r

\* A chain whose PCBs are not touched stays a chain.
LEMMA KeepChain ==
  ASSUME NEW parent, NEW used \in SUBSET Pid, NEW s, NEW p, IsChain(parent, used, s, p),
         NEW parent2, NEW used2 \in SUBSET Pid,
         \A i \in 1 .. Len(s) : s[i] \in used2 /\ parent2[s[i]] = parent[s[i]]
  PROVE  IsChain(parent2, used2, s, p)
<1>1. Len(s) \in Nat /\ DOMAIN s = 1 .. Len(s) /\ s \in Seq(used)
  BY DEF IsChain
<1>2. s \in Seq(used2)
  BY <1>1
<1>3. s /= <<>> => Len(s) \in 1 .. Len(s)
  BY <1>1
<1>4. \A i \in 1 .. Len(s) - 1 : i \in 1 .. Len(s)
  BY <1>1
<1> QED
  BY <1>2, <1>3, <1>4 DEF IsChain

\* What is left of a chain without the process on top.
LEMMA PopChain ==
  ASSUME NEW parent, NEW used \in SUBSET Pid, NEW s, NEW p, IsChain(parent, used, s, p),
         p /= NoPid, parent[p] /= NoPid
  PROVE  Len(s) > 1 /\ IsChain(parent, used \ {p}, Tail(s), parent[p])
<1> DEFINE r == Tail(s)
<1>1. s \in Seq(used) /\ Len(s) \in Nat /\ s /= <<>> /\ s[1] = p /\ Len(s) > 0
      /\ \A i \in 1 .. Len(s) : s[i] \in used
  BY DEF IsChain
<1>2. Len(s) > 1 /\ s[2] = parent[p]
  BY <1>1 DEF IsChain
<1>3. r \in Seq(used) /\ Len(r) = Len(s) - 1 /\ r /= <<>> /\ \A i \in 1 .. Len(r) : r[i] = s[i + 1]
  <2>1. r \in Seq(used) /\ Len(r) = Len(s) - 1
    BY <1>1
  <2>2. \A i \in 1 .. Len(r) : r[i] = s[i + 1]
    BY <1>1, HeadTailProperties
  <2>3. Len(r) /= 0
    BY <2>1, <1>1, <1>2
  <2>4. r /= <<>>
    <3> HIDE DEF r
    <3> QED BY <2>3
  <2> QED
    BY <2>1, <2>2, <2>4
<1> HIDE DEF r
<1>4. ASSUME NEW i \in 1 .. Len(r) PROVE r[i] \in used \ {p}
  <2>1. i + 1 \in 1 .. Len(s) /\ 1 \in 1 .. Len(s) /\ i + 1 /= 1
    BY <1>1, <1>2, <1>3
  <2> QED
    BY <2>1, <1>1, <1>3 DEF IsChain
<1>5. r \in Seq(used \ {p})
  BY <1>3, <1>4
<1>6. r[1] = parent[p] /\ parent[r[Len(r)]] = NoPid
  <2>1. Len(r) \in 1 .. Len(r) /\ 1 \in 1 .. Len(r) /\ Len(r) + 1 = Len(s)
    BY <1>1, <1>2, <1>3
  <2> QED
    BY <2>1, <1>1, <1>2, <1>3 DEF IsChain
<1>7. ASSUME NEW i \in 1 .. Len(r) - 1 PROVE parent[r[i]] = r[i + 1]
  <2>1. i + 1 \in 1 .. Len(s) - 1 /\ i \in 1 .. Len(r) /\ i + 1 \in 1 .. Len(r)
    BY <1>1, <1>3
  <2> QED
    BY <2>1, <1>3 DEF IsChain
<1>8. ASSUME NEW i \in 1 .. Len(r), NEW j \in 1 .. Len(r), r[i] = r[j] PROVE i = j
  <2>1. i + 1 \in 1 .. Len(s) /\ j + 1 \in 1 .. Len(s) /\ s[i + 1] = s[j + 1]
    BY <1>1, <1>3, <1>8
  <2>2. i + 1 = j + 1
    BY <2>1 DEF IsChain
  <2> QED
    BY <2>2, <1>1, <1>3
<1>9. IsChain(parent, used \ {p}, r, parent[p])
  BY <1>3, <1>5, <1>6, <1>7, <1>8 DEF IsChain
<1> QED
  BY <1>2, <1>9 DEF r

\* A base shell is alone in its chain.
LEMMA BaseChain ==
  ASSUME NEW parent, NEW used \in SUBSET Pid, NEW s, NEW p, IsChain(parent, used, s, p),
         p /= NoPid, parent[p] = NoPid
  PROVE  s = <<p>>
<1>1. s \in Seq(used) /\ Len(s) \in Nat /\ s /= <<>> /\ s[1] = p /\ Len(s) > 0
      /\ \A i \in 1 .. Len(s) : s[i] \in used
  BY DEF IsChain
<1>2. ASSUME Len(s) > 1 PROVE FALSE
  <2>1. 1 \in 1 .. Len(s) - 1 /\ 2 \in 1 .. Len(s)
    BY <1>1, <1>2
  <2>2. s[2] = NoPid /\ s[2] \in used
    BY <2>1, <1>1 DEF IsChain
  <2> QED
    BY <2>2 DEF Pid, NoPid
<1>3. Len(s) = 1
  <2> DEFINE n == Len(s)
  <2>1. n \in Nat /\ n > 0 /\ ~(n > 1)
    BY <1>1, <1>2
  <2> HIDE DEF n
  <2>2. n = 1
    BY <2>1
  <2> QED
    BY <2>2 DEF n
<1> QED
  BY <1>1, <1>3

LEMMA SingleChain ==
  ASSUME NEW parent, NEW used \in SUBSET Pid, NEW q \in used, parent[q] = NoPid
  PROVE  IsChain(parent, used, <<q>>, q)
BY DEF IsChain, Pid, NoPid

-----------------------------------------------------------------------------

Chain(t) == StackOf(parent_pid, Leaf(t))

\* What the refinement mapping shows of each terminal is its chain.
ChainsMapped ==
  Alive => \A t \in Term : IsChain(parent_pid, pcb_bitmap, Chain(t), Leaf(t))

\* The end of another terminal's chain is not in this one, nor is a free pid.
LEMMA ForeignPid ==
  ASSUME IInv, ChainsMapped, Alive, NEW t \in Term, NEW u \in Term, t /= u, Leaf(u) /= NoPid
  PROVE  \A i \in 1 .. Len(Chain(t)) : Chain(t)[i] \in pcb_bitmap \ {Leaf(u)}
<1> DEFINE s == Chain(t)
<1>1. /\ IsChain(parent_pid, pcb_bitmap, s, Leaf(t)) /\ ProcessChains /\ TypeOK
      /\ Leaf(u) \in Leaves
  BY DEF ChainsMapped, IInv, Leaves
<1> HIDE DEF s
<1>2. s \in Seq(pcb_bitmap) /\ Len(s) \in Nat /\ \A i \in 1 .. Len(s) : s[i] \in pcb_bitmap
  BY <1>1 DEF IsChain
<1> SUFFICES ASSUME NEW i \in 1 .. Len(s), s[i] = Leaf(u) PROVE FALSE
  BY <1>2 DEF s
<1>3. CASE i = 1
  <2>1. s /= <<>> /\ s[1] = Leaf(t)
    BY <1>1, <1>2, <1>3 DEF IsChain
  <2> QED
    BY <2>1, <1>1, <1>3 DEF ProcessChains, DistinctEnds
<1>4. CASE i > 1
  <2>1. i - 1 \in 1 .. Len(s) - 1 /\ i - 1 \in 1 .. Len(s) /\ (i - 1) + 1 = i
    BY <1>2, <1>4
  <2>2. parent_pid[s[i - 1]] = s[i] /\ s[i - 1] \in pcb_bitmap
    BY <2>1, <1>1, <1>2 DEF IsChain
  <2> QED
    BY <2>2, <1>1 DEF ProcessChains, ParentsWait
<1> QED
  BY <1>2, <1>3, <1>4

\* The stacks, as TerminalStacks has them.
StackMap == [t \in Term |-> IF Alive THEN Chain(t) ELSE <<>>]

\* The pids of the abstract stacks are in use.
LEMMA InUseMapped ==
  ASSUME IInv, ChainsMapped, Alive
  PROVE  Stacks!InUse \subseteq pcb_bitmap
<1>1. ASSUME NEW t \in Term, NEW i \in DOMAIN Chain(t) PROVE Chain(t)[i] \in pcb_bitmap
  BY <1>1 DEF ChainsMapped, IsChain
<1> QED
  BY <1>1 DEF Stacks!InUse, Stacks!Term, Chain, Term

\* To know the stacks after a step it is enough to have a chain for each terminal.
LEMMA ChainsMappedNext ==
  ASSUME NEW st, TypeOK',
         \A t \in Term : IsChain(parent_pid', pcb_bitmap', st[t], Leaf(t)')
  PROVE  ChainsMapped' /\ \A t \in Term : Chain(t)' = st[t]
<1>1. pcb_bitmap' \in SUBSET Pid
  BY DEF TypeOK
<1>2. \A t \in Term : Chain(t)' = st[t]
  BY <1>1, StackOfChain DEF Chain
<1> QED
  BY <1>2 DEF ChainsMapped

\* execute pushes the new process.
LEMMA ExecuteStack ==
  ASSUME IInv, ChainsMapped, NEW q \in Pid, Execute(q)
  PROVE  ChainsMapped' /\ Stacks!Push(q)
<1> DEFINE r == running_term
           st == [t \in Term |-> IF t = r THEN <<q>> \o Chain(r) ELSE Chain(t)]
<1>1. /\ mode = "user" /\ mode' = "iret" /\ cur_pid' = q
      /\ q \in Pid \ pcb_bitmap /\ pcb_bitmap' = pcb_bitmap \cup {q}
      /\ parent_pid' = [parent_pid EXCEPT ![q] = cur_pid]
      /\ UNCHANGED <<term_pid, running_term>>
  BY DEF Execute, StartProcess, record_process, LowestFree
<1>2. /\ parent_pid \in [Pid -> Pid \cup {NoPid}] /\ pcb_bitmap \in SUBSET Pid /\ r \in Term
      /\ cur_pid \in pcb_bitmap /\ cur_pid /= NoPid /\ Leaf(r) = cur_pid
  BY <1>1 DEF IInv, TypeOK, AddressSpace, Leaf, Pid, NoPid
<1>3. Alive /\ Alive'
  BY <1>1 DEF Alive
<1>4. TypeOK'
  BY ExecuteIInv DEF IInv
<1>5. \A t \in Term : Leaf(t)' = IF t = r THEN q ELSE Leaf(t)
  BY <1>1 DEF Leaf
<1>6. \A t \in Term : IsChain(parent_pid, pcb_bitmap, Chain(t), Leaf(t))
  BY <1>3 DEF ChainsMapped
<1>7. IsChain(parent_pid', pcb_bitmap', st[r], cur_pid')
  BY <1>1, <1>2, <1>5, <1>6, PushChain
<1>8. ASSUME NEW t \in Term, t /= r PROVE IsChain(parent_pid', pcb_bitmap', st[t], Leaf(t)')
  <2>1. \A i \in 1 .. Len(Chain(t)) : Chain(t)[i] \in pcb_bitmap
    BY <1>2, <1>3, <1>8, ForeignPid
  <2>2. \A i \in 1 .. Len(Chain(t)) :
          Chain(t)[i] \in pcb_bitmap' /\ parent_pid'[Chain(t)[i]] = parent_pid[Chain(t)[i]]
    BY <2>1, <1>1, <1>2
  <2>3. pcb_bitmap' \in SUBSET Pid
    BY <1>1, <1>2
  <2>4. IsChain(parent_pid', pcb_bitmap', Chain(t), Leaf(t))
    BY <2>2, <2>3, <1>2, <1>6, KeepChain
  <2> QED
    BY <2>4, <1>5, <1>8
<1>9. ChainsMapped' /\ \A t \in Term : Chain(t)' = st[t]
  <2>1. \A t \in Term : IsChain(parent_pid', pcb_bitmap', st[t], Leaf(t)')
    <3>1. \A t \in Term : t = r => Leaf(t)' = cur_pid'
      BY <1>1, <1>5
    <3> HIDE DEF st
    <3> QED BY <1>7, <1>8, <3>1
  <2>2. \A x : (\A t \in Term : IsChain(parent_pid', pcb_bitmap', x[t], Leaf(t)'))
              => ChainsMapped' /\ \A t \in Term : Chain(t)' = x[t]
    BY <1>4, ChainsMappedNext
  <2> QED BY <2>1, <2>2
<1>10. StackMap' = [StackMap EXCEPT ![r] = <<q>> \o @]
  BY <1>2, <1>3, <1>9 DEF StackMap
<1>11. StackMap[r] /= <<>>
  BY <1>2, <1>3, <1>6 DEF StackMap, IsChain
<1>12. q \notin Stacks!InUse
  BY <1>1, <1>3, InUseMapped
<1>13. Stacks!Push(q)
  BY <1>1, <1>3, <1>10, <1>11, <1>12 DEF Stacks!Push, StackMap, Chain
<1> QED
  BY <1>9, <1>13

\* halt in a process that has a parent pops it.
LEMMA HaltToParentStack ==
  ASSUME IInv, ChainsMapped, HaltToParent
  PROVE  ChainsMapped' /\ Stacks!Pop
<1> DEFINE r == running_term
           par == parent_pid[cur_pid]
           st == [t \in Term |-> IF t = r THEN Tail(Chain(r)) ELSE Chain(t)]
<1>1. /\ mode = "user" /\ par /= NoPid /\ cur_pid' = par
      /\ pcb_bitmap' = pcb_bitmap \ {cur_pid}
      /\ UNCHANGED <<parent_pid, term_pid, running_term>>
  BY DEF HaltToParent, SwitchTo, pcbs
<1>2. /\ parent_pid \in [Pid -> Pid \cup {NoPid}] /\ pcb_bitmap \in SUBSET Pid /\ r \in Term
      /\ cur_pid \in pcb_bitmap /\ cur_pid /= NoPid /\ Leaf(r) = cur_pid
  BY <1>1 DEF IInv, TypeOK, AddressSpace, Leaf, Pid, NoPid
<1>3. Alive
  BY <1>1 DEF Alive
<1>4. TypeOK' /\ Alive'
  BY HaltToParentIInv, HaltToParentResumes DEF IInv
<1>5. \A t \in Term : Leaf(t)' = IF t = r THEN par ELSE Leaf(t)
  BY <1>1 DEF Leaf
<1>6. \A t \in Term : IsChain(parent_pid, pcb_bitmap, Chain(t), Leaf(t))
  BY <1>3 DEF ChainsMapped
<1>7. Len(Chain(r)) > 1 /\ IsChain(parent_pid', pcb_bitmap', st[r], cur_pid')
  BY <1>1, <1>2, <1>5, <1>6, PopChain
<1>8. ASSUME NEW t \in Term, t /= r PROVE IsChain(parent_pid', pcb_bitmap', st[t], Leaf(t)')
  <2>1. \A i \in 1 .. Len(Chain(t)) : Chain(t)[i] \in pcb_bitmap \ {cur_pid}
    BY <1>2, <1>3, <1>8, ForeignPid
  <2>2. IsChain(parent_pid, pcb_bitmap \ {cur_pid}, Chain(t), Leaf(t))
    BY <2>1, <1>2, <1>6, KeepChain
  <2> QED
    BY <2>2, <1>1, <1>5, <1>8
<1>9. ChainsMapped' /\ \A t \in Term : Chain(t)' = st[t]
  <2>1. \A t \in Term : IsChain(parent_pid', pcb_bitmap', st[t], Leaf(t)')
    <3>1. \A t \in Term : t = r => Leaf(t)' = cur_pid'
      BY <1>1, <1>5
    <3> HIDE DEF st
    <3> QED BY <1>7, <1>8, <3>1
  <2>2. \A x : (\A t \in Term : IsChain(parent_pid', pcb_bitmap', x[t], Leaf(t)'))
              => ChainsMapped' /\ \A t \in Term : Chain(t)' = x[t]
    BY <1>4, ChainsMappedNext
  <2> QED BY <2>1, <2>2
<1>10. StackMap' = [StackMap EXCEPT ![r] = Tail(@)]
  BY <1>2, <1>3, <1>4, <1>9 DEF StackMap
<1>11. Len(StackMap[r]) > 1
  BY <1>2, <1>3, <1>7 DEF StackMap
<1>12. Stacks!Pop
  BY <1>1, <1>3, <1>4, <1>10, <1>11 DEF Stacks!Pop, StackMap, Chain
<1> QED
  BY <1>9, <1>12

\* A base shell that halts is replaced.
LEMMA HaltBaseStack ==
  ASSUME IInv, ChainsMapped, NEW q \in Pid, HaltBase(q)
  PROVE  ChainsMapped' /\ Stacks!Replace(q)
<1> DEFINE r == running_term
           st == [t \in Term |-> IF t = r THEN <<q>> ELSE Chain(t)]
<1>1. /\ mode = "user" /\ mode' = "iret" /\ parent_pid[cur_pid] = NoPid /\ cur_pid' = q
      /\ q \in Pid \ (pcb_bitmap \ {cur_pid})
      /\ pcb_bitmap' = (pcb_bitmap \ {cur_pid}) \cup {q}
      /\ parent_pid' = [parent_pid EXCEPT ![q] = NoPid]
      /\ UNCHANGED <<term_pid, running_term>>
  BY DEF HaltBase, StartProcess, LowestFree
<1>2. /\ parent_pid \in [Pid -> Pid \cup {NoPid}] /\ pcb_bitmap \in SUBSET Pid /\ r \in Term
      /\ cur_pid \in pcb_bitmap /\ cur_pid /= NoPid /\ Leaf(r) = cur_pid
  BY <1>1 DEF IInv, TypeOK, AddressSpace, Leaf, Pid, NoPid
<1>3. Alive /\ Alive'
  BY <1>1 DEF Alive
<1>4. TypeOK'
  BY HaltBaseIInv DEF IInv
<1>5. \A t \in Term : Leaf(t)' = IF t = r THEN q ELSE Leaf(t)
  BY <1>1 DEF Leaf
<1>6. \A t \in Term : IsChain(parent_pid, pcb_bitmap, Chain(t), Leaf(t))
  BY <1>3 DEF ChainsMapped
<1>7. IsChain(parent_pid', pcb_bitmap', st[r], cur_pid')
  <2>1. pcb_bitmap' \in SUBSET Pid /\ q \in pcb_bitmap' /\ parent_pid'[q] = NoPid
    BY <1>1, <1>2
  <2>2. IsChain(parent_pid', pcb_bitmap', <<q>>, q)
    BY <2>1, SingleChain
  <2> QED
    BY <2>2, <1>1, <1>2
<1>8. ASSUME NEW t \in Term, t /= r PROVE IsChain(parent_pid', pcb_bitmap', st[t], Leaf(t)')
  <2>1. \A i \in 1 .. Len(Chain(t)) : Chain(t)[i] \in pcb_bitmap \ {cur_pid}
    BY <1>2, <1>3, <1>8, ForeignPid
  <2>2. \A i \in 1 .. Len(Chain(t)) :
          Chain(t)[i] \in pcb_bitmap' /\ parent_pid'[Chain(t)[i]] = parent_pid[Chain(t)[i]]
    BY <2>1, <1>1, <1>2
  <2>3. pcb_bitmap' \in SUBSET Pid
    BY <1>1, <1>2
  <2>4. IsChain(parent_pid', pcb_bitmap', Chain(t), Leaf(t))
    BY <2>2, <2>3, <1>2, <1>6, KeepChain
  <2> QED
    BY <2>4, <1>5, <1>8
<1>9. ChainsMapped' /\ \A t \in Term : Chain(t)' = st[t]
  <2>1. \A t \in Term : IsChain(parent_pid', pcb_bitmap', st[t], Leaf(t)')
    <3>1. \A t \in Term : t = r => Leaf(t)' = cur_pid'
      BY <1>1, <1>5
    <3> HIDE DEF st
    <3> QED BY <1>7, <1>8, <3>1
  <2>2. \A x : (\A t \in Term : IsChain(parent_pid', pcb_bitmap', x[t], Leaf(t)'))
              => ChainsMapped' /\ \A t \in Term : Chain(t)' = x[t]
    BY <1>4, ChainsMappedNext
  <2> QED BY <2>1, <2>2
<1>10. StackMap' = [StackMap EXCEPT ![r] = <<q>>]
  BY <1>2, <1>3, <1>9 DEF StackMap
<1>11. Chain(r) = <<cur_pid>> /\ StackMap[r] = <<cur_pid>>
  BY <1>1, <1>2, <1>3, <1>6, BaseChain DEF StackMap
<1>12. q \notin Stacks!InUse \ {Head(StackMap[r])}
  BY <1>1, <1>3, <1>11, InUseMapped
<1>13. Stacks!Replace(q)
  BY <1>1, <1>3, <1>10, <1>11, <1>12 DEF Stacks!Replace, StackMap, Chain
<1> QED
  BY <1>9, <1>13

\* With the PCBs and the ends of the chains, the stacks stay as they are.
LEMMA SameChains ==
  ASSUME ChainsMapped, Alive, UNCHANGED <<pcb_bitmap, parent_pid>>,
         \A t \in Term : Leaf(t)' = Leaf(t)
  PROVE  ChainsMapped' /\ \A t \in Term : Chain(t)' = Chain(t)
BY DEF ChainsMapped, Chain

\* After a wrong return nothing is promised.
LEMMA DieStack ==
  ASSUME Alive, ~Alive'
  PROVE  ChainsMapped' /\ Stacks!Die
BY DEF ChainsMapped, Stacks!Die, Stacks!Term, Term

\* A tick that finds a process in the next terminal passes the processor on.
LEMMA TickResumeStack ==
  ASSUME IInv, ChainsMapped, TickResume, Alive'
  PROVE  ChainsMapped' /\ Stacks!Rotate
<1>1. /\ SaveCurrent /\ NextPid /= NoPid /\ cur_pid' = NextPid
      /\ UNCHANGED <<pcb_bitmap, parent_pid>>
  BY DEF TickResume, SwitchTo
<1>2. /\ NextTerm \in Term /\ running_term' = NextTerm /\ NextPid = Leaf(NextTerm)
      /\ term_pid' = SavedPids /\ \A t \in Term : SavedPids[t] = Leaf(t)
  BY <1>1, SaveCurrentFacts DEF NextPid
<1>3. Alive
  BY <1>1 DEF SaveCurrent
<1>4. \A t \in Term : Leaf(t)' = Leaf(t)
  BY <1>1, <1>2 DEF Leaf
<1>5. ChainsMapped' /\ \A t \in Term : Chain(t)' = Chain(t)
  BY <1>1, <1>3, <1>4, SameChains
<1>6. StackMap' = StackMap
  BY <1>3, <1>5 DEF StackMap
<1>7. StackMap[NextTerm] /= <<>>
  BY <1>1, <1>2, <1>3 DEF StackMap, ChainsMapped, IsChain
<1>8. Stacks!Rotate
  BY <1>2, <1>3, <1>6, <1>7 DEF Stacks!Rotate, StackMap, Chain, NextTerm, next_term_to_run
<1> QED
  BY <1>5, <1>8

\* A tick that finds none starts a base shell there.
LEMMA TickLaunchStack ==
  ASSUME IInv, ChainsMapped, NEW q \in Pid, TickLaunch(q)
  PROVE  ChainsMapped' /\ Stacks!Rotate
<1> DEFINE st == [t \in Term |-> IF t = NextTerm THEN <<q>> ELSE Chain(t)]
<1>1. /\ SaveCurrent /\ NextPid = NoPid /\ q \notin pcb_bitmap /\ mode' = "iret"
      /\ cur_pid' = q /\ pcb_bitmap' = pcb_bitmap \cup {q}
      /\ parent_pid' = [parent_pid EXCEPT ![q] = NoPid]
  BY DEF TickLaunch, StartProcess, record_process, LowestFree
<1>2. /\ NextTerm \in Term /\ running_term' = NextTerm /\ Leaf(NextTerm) = NoPid
      /\ term_pid' = SavedPids /\ \A t \in Term : SavedPids[t] = Leaf(t)
  BY <1>1, SaveCurrentFacts DEF NextPid
<1>3. Alive /\ Alive'
  BY <1>1 DEF SaveCurrent, Alive
<1>4. TypeOK' /\ TypeOK
  BY TickLaunchIInv DEF IInv
<1>5. \A t \in Term : Leaf(t)' = IF t = NextTerm THEN q ELSE Leaf(t)
  BY <1>1, <1>2 DEF Leaf
<1>6. \A t \in Term : IsChain(parent_pid, pcb_bitmap, Chain(t), Leaf(t))
  BY <1>3 DEF ChainsMapped
<1>7. IsChain(parent_pid', pcb_bitmap', <<q>>, q)
  <2>1. pcb_bitmap' \in SUBSET Pid /\ q \in pcb_bitmap' /\ parent_pid'[q] = NoPid
    BY <1>1, <1>4 DEF TypeOK
  <2> QED
    BY <2>1, SingleChain
<1>8. ASSUME NEW t \in Term, t /= NextTerm
      PROVE  IsChain(parent_pid', pcb_bitmap', Chain(t), Leaf(t)')
  <2>1. Chain(t) \in Seq(pcb_bitmap)
    BY <1>6 DEF IsChain
  <2>2. \A i \in 1 .. Len(Chain(t)) : Chain(t)[i] \in pcb_bitmap
    BY <2>1
  <2>3. pcb_bitmap' \in SUBSET Pid /\ pcb_bitmap \in SUBSET Pid
    BY <1>4 DEF TypeOK
  <2>4. \A i \in 1 .. Len(Chain(t)) :
          Chain(t)[i] \in pcb_bitmap' /\ parent_pid'[Chain(t)[i]] = parent_pid[Chain(t)[i]]
    BY <2>2, <1>1, <1>4 DEF TypeOK
  <2>5. IsChain(parent_pid', pcb_bitmap', Chain(t), Leaf(t))
    BY <2>3, <2>4, <1>6, KeepChain
  <2> QED
    BY <2>5, <1>5, <1>8
<1>9. ChainsMapped' /\ \A t \in Term : Chain(t)' = st[t]
  <2>1. \A t \in Term : IsChain(parent_pid', pcb_bitmap', st[t], Leaf(t)')
    BY <1>5, <1>7, <1>8
  <2>2. \A x : (\A t \in Term : IsChain(parent_pid', pcb_bitmap', x[t], Leaf(t)'))
              => ChainsMapped' /\ \A t \in Term : Chain(t)' = x[t]
    BY <1>4, ChainsMappedNext
  <2> QED BY <2>1, <2>2
<1>10. StackMap' = [StackMap EXCEPT ![NextTerm] = <<q>>]
  BY <1>2, <1>3, <1>9 DEF StackMap
<1>11. StackMap[NextTerm] = <<>>
  BY <1>2, <1>3, <1>6 DEF StackMap, IsChain
<1>12. q \in Pid \ Stacks!InUse
  BY <1>1, <1>3, InUseMapped
<1>13. Stacks!Rotate
  BY <1>2, <1>3, <1>10, <1>11, <1>12 DEF Stacks!Rotate, StackMap, Chain, NextTerm, next_term_to_run
<1> QED
  BY <1>9, <1>13

\* The steps that TerminalStacks does not see.
LEMMA StutterStack ==
  ASSUME ChainsMapped, Iret \/ Rename \/ Dead \/ UNCHANGED vars
  PROVE  ChainsMapped' /\ UNCHANGED Stacks!vars
<1>1. UNCHANGED <<pcb_bitmap, parent_pid, term_pid, running_term, cur_pid>> /\ (Alive' <=> Alive)
  BY DEF Iret, Rename, Dead, vars, pcbs, cpu, Alive
<1>2. \A t \in Term : Leaf(t)' = Leaf(t)
  BY <1>1 DEF Leaf
<1>3. \A t \in Term : Chain(t)' = Chain(t)
  BY <1>1, <1>2 DEF Chain
<1>4. ChainsMapped'
  BY <1>1, <1>2, <1>3 DEF ChainsMapped
<1>5. StackMap' = StackMap
  BY <1>1, <1>3 DEF StackMap
<1> QED
  BY <1>1, <1>4, <1>5 DEF Stacks!vars, StackMap, Chain

LEMMA InitStack == Init => ChainsMapped /\ Stacks!Init
<1> SUFFICES ASSUME Init PROVE ChainsMapped /\ Stacks!Init
  OBVIOUS
<1>1. TypeOK
  BY InitIInv DEF IInv
<1>2. \A t \in Term : Leaf(t) = NoPid
  BY DEF Init, Leaf
<1>3. IsChain(parent_pid, pcb_bitmap, <<>>, NoPid)
  BY DEF IsChain
<1>4. \A t \in Term : Chain(t) = <<>>
  BY <1>1, <1>2, <1>3, StackOfChain DEF Chain, TypeOK
<1>5. ChainsMapped
  BY <1>2, <1>3, <1>4 DEF ChainsMapped
<1>6. Stacks!Init
  BY <1>4 DEF Init, Stacks!Init, Stacks!Term, Term, Chain, Alive
<1> QED
  BY <1>5, <1>6

LEMMA NextStack ==
  ASSUME IInv, ChainsMapped, [Next]_vars
  PROVE  ChainsMapped' /\ [Stacks!Next]_(Stacks!vars)
<1>1. ASSUME NEW q \in Pid, Execute(q) PROVE ChainsMapped' /\ Stacks!Next
  BY <1>1, ExecuteStack DEF Stacks!Next
<1>2. CASE HaltToParent
  BY <1>2, HaltToParentStack DEF Stacks!Next
<1>3. ASSUME NEW q \in Pid, HaltBase(q) PROVE ChainsMapped' /\ Stacks!Next
  BY <1>3, HaltBaseStack DEF Stacks!Next
<1>4. CASE HaltBaseFails
  BY <1>4, DieStack DEF HaltBaseFails, Alive, Stacks!Next
<1>5. CASE TickResume
  BY <1>5, TickResumeStack, DieStack DEF TickResume, SaveCurrent, Stacks!Next
<1>6. ASSUME NEW q \in Pid, TickLaunch(q) PROVE ChainsMapped' /\ Stacks!Next
  BY <1>6, TickLaunchStack DEF Stacks!Next
<1>7. CASE TickLaunchFails
  BY <1>7, DieStack DEF TickLaunchFails, SaveCurrent, Alive, Stacks!Next
<1>8. CASE Iret \/ Rename \/ Dead \/ UNCHANGED vars
  BY <1>8, StutterStack
<1> QED
  BY <1>1, <1>2, <1>3, <1>4, <1>5, <1>6, <1>7, <1>8 DEF Next, Tick

\* ImplementsStacks without its fairness: every execute, halt and tick, however
\* they interleave, is a push, a pop, a replacement or a rotation of the stacks
\* of TerminalStacks, and everything else leaves them as they are.
THEOREM StacksImplemented == Spec => Stacks!Init /\ [][Stacks!Next]_(Stacks!vars)
<1>1. Init => Stacks!Init /\ ChainsMapped
  BY InitStack
<1>2. IInv /\ ChainsMapped /\ [Next]_vars => ChainsMapped' /\ [Stacks!Next]_(Stacks!vars)
  BY NextStack
<1> QED
  BY <1>1, <1>2, Inductive, PTL DEF Spec

=============================================================================
