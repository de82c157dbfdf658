--------------------------- MODULE ProcessControl ---------------------------
(***************************************************************************)
(* Process control of the kernel: syscall_execute and syscall_halt, the    *)
(* pid bitmap, the PIT tick with schedule(), and the state they share: the *)
(* PCBs, the terminals' pids, the user page and the TSS.                   *)
(*                                                                         *)
(* Every gate is an interrupt gate, so a handler runs to its end without   *)
(* interruption and is one action.  There is one gap: syscall_execute      *)
(* calls sti() before its iret, and a tick that became pending while the   *)
(* program was loaded is taken there, in kernel mode, on whatever stack    *)
(* execute is running on.  The gap is the mode "iret".                     *)
(*                                                                         *)
(* Of a saved esp/ebp pair two things are kept: the code it returns to     *)
(* (saved_at) and the kernel stack it points into (saved_on).  A stack is  *)
(* named by its pid; the boot stack is pid 0's (both end at 0x800000).     *)
(***************************************************************************)
EXTENDS Integers

CONSTANTS
  MAX_NUM_PROCESS,  (* length of pcb_bitmap; 6 in the code                 *)
  TERM_NUM          (* number of terminals; 3 in the code                  *)

ASSUME SizeAssumption ==
  /\ MAX_NUM_PROCESS \in Nat \ {0}
  /\ TERM_NUM \in Nat \ {0}

NoPid == -1                      \* cur_pid and parent_pid of nobody
Pid   == 0 .. MAX_NUM_PROCESS - 1
Term  == 0 .. TERM_NUM - 1

VARIABLES
  pcb_bitmap,    (* the pids in use                                        *)
  parent_pid,    (* PCB field                                              *)
  pcb_esp0,      (* PCB field tss_esp0: the stack it is the top of         *)
  saved_at,      (* PCB fields esp/ebp: where they return to               *)
  saved_on,      (* PCB fields esp/ebp: the stack they point into          *)
  term_pid,      (* terminal_t.pid                                         *)
  running_term,  (* running_term_ptr                                       *)
  cur_pid,       (* cur_pid, with cur_pcb_ptr = get_pcb_ptr(cur_pid)       *)
  user_page,     (* the pid whose 4MB page is at 128MB (NoPid: none yet)   *)
  tss_esp0,      (* the stack the next entry from user mode starts on      *)
  mode,          (* what the processor is doing, see Modes                 *)
  kstack,        (* the stack in use while in kernel mode                  *)
  overwritten,   (* pids whose saved frame lies in a reused stack area     *)
  shell_elf      (* execute("shell") finds an ELF image                    *)

pcbs  == <<parent_pid, pcb_esp0, saved_at, saved_on>>
cpu   == <<user_page, tss_esp0, mode, kstack>>
vars  == <<pcb_bitmap, pcbs, term_pid, running_term, cur_pid, cpu,
           overwritten, shell_elf>>

(***************************************************************************)
(* "idle": the loop at the end of entry().  "user": a program, or a system *)
(* call that has enabled interrupts (syscall_read), on its own stack.      *)
(* "iret": between execute's sti() and its iret.  "printed": one of the    *)
(* two printf("This should not be printed!").  "lost": a frame was         *)
(* restored that is not a return to the process restored.                  *)
(***************************************************************************)
Modes  == {"idle", "user", "iret", "printed", "lost"}
Frames == {"none", "execute", "user", "iret"}

Alive == mode \in {"idle", "user", "iret"}

\* terminal_init links term_arr[i] to term_arr[i+1], the last to the first.
LastNotLinked(t) == IF t = TERM_NUM - 1 THEN t ELSE t + 1                   \* mutant
next_term_to_run(t) == (t + 1) % TERM_NUM

\* The lowest free pid, when bitmap are the pids in use.
LowestFree(q, bitmap) ==
  /\ q \in Pid \ bitmap
  /\ \A r \in 0 .. q - 1 : r \in bitmap

\* record_process gives out the lowest free pid.
NoBitmapTest(q) == q \in Pid /\ \A r \in 0 .. q - 1 : r \in pcb_bitmap    \* mutant
record_process(q) == LowestFree(q, pcb_bitmap)

(***************************************************************************)
(* The stack the handler runs on: the processor loads tss.esp0 when it     *)
(* enters from user mode and keeps the stack it has otherwise.             *)
(***************************************************************************)
AlwaysKstack == kstack                                                      \* mutant
HandlerStack == IF mode = "user" THEN tss_esp0 ELSE kstack

(***************************************************************************)
(* An entry from user mode starts at the top of a stack, so every frame    *)
(* saved there by somebody else may be overwritten from then on.  How deep *)
(* the entry writes is not modelled: Restore chooses.                      *)
(***************************************************************************)
Reused ==
  IF mode = "user"
  THEN {r \in pcb_bitmap \ {cur_pid} : saved_at[r] /= "none" /\ saved_on[r] = tss_esp0}
  ELSE {}

-----------------------------------------------------------------------------

Init ==
  /\ pcb_bitmap   = {}
  /\ parent_pid   = [p \in Pid |-> NoPid]
  /\ pcb_esp0     = [p \in Pid |-> 0]
  /\ saved_at     = [p \in Pid |-> "none"]
  /\ saved_on     = [p \in Pid |-> 0]
  /\ term_pid     = [t \in Term |-> NoPid]
  /\ running_term = 0
  /\ cur_pid      = NoPid
  /\ user_page    = NoPid
  /\ tss_esp0     = 0
  /\ mode         = "idle"
  /\ kstack       = 0
  /\ overwritten  = {}
  /\ shell_elf    \in BOOLEAN    \* what the disk already holds, see Rename

(***************************************************************************)
(* The part of syscall_execute after its checks: new process q, child of   *)
(* par.  esp0 and at are the PCB fields as the caller leaves them.         *)
(***************************************************************************)
StartProcess(q, par, esp0, at, bitmap) ==
  /\ pcb_bitmap' = bitmap \cup {q}
  /\ user_page'  = q
  /\ parent_pid' = [parent_pid EXCEPT ![q] = par]
  /\ pcb_esp0'   = [esp0 EXCEPT ![q] = q]
  /\ saved_at'   = [at EXCEPT ![q] = "none"]
  /\ cur_pid'    = q
  /\ tss_esp0'   = q
  /\ mode'       = "iret"
  /\ kstack'     = HandlerStack

(***************************************************************************)
(* syscall_execute called by a program.  A call that fails (no such file,  *)
(* not an ELF image, no free pid) changes nothing and is not a step.       *)
(***************************************************************************)
Execute(q) ==
  /\ mode = "user"
  /\ record_process(q)
  /\ StartProcess(q, cur_pid, pcb_esp0, [saved_at EXCEPT ![cur_pid] = "execute"], pcb_bitmap)
  /\ saved_on'    = [saved_on EXCEPT ![cur_pid] = HandlerStack]
  /\ overwritten' = (overwritten \cup Reused) \ {cur_pid, q}
  /\ UNCHANGED <<term_pid, running_term, shell_elf>>

\* The iret at the end of syscall_execute.
Iret ==
  /\ mode = "iret"
  /\ mode' = "user"
  /\ UNCHANGED <<pcb_bitmap, pcbs, term_pid, running_term, cur_pid, user_page,
                 tss_esp0, kstack, overwritten, shell_elf>>

\* The user page, the TSS and cur_pid are set to a process that exists.
KeepsTss(p, esp0) == cur_pid' = p /\ user_page' = p /\ UNCHANGED tss_esp0    \* mutant
SwitchTo(p, esp0) ==
  /\ cur_pid'   = p
  /\ user_page' = p
  /\ tss_esp0'  = esp0[p]

(***************************************************************************)
(* Continue at the frame saved in p's PCB.  ret are the kinds of frame the *)
(* jump is written for; any other, and any overwritten one that is no      *)
(* longer intact, sends the kernel astray.                                 *)
(***************************************************************************)
AtAnyFrame(p, at, on, ret, damaged) == kstack' = on[p] /\ mode' = at[p]      \* mutant
Restore(p, at, on, ret, damaged) ==
  /\ kstack' = on[p]
  /\ \/ /\ at[p] \in ret
        /\ mode' = IF at[p] = "iret" THEN "iret" ELSE "user"
     \/ /\ at[p] \notin ret \/ p \in damaged
        /\ mode' = "lost"

(***************************************************************************)
(* syscall_halt, called by a program or by an exception handler, in a      *)
(* process that has a parent.                                              *)
(***************************************************************************)
HaltToParent ==
  /\ mode = "user"
  /\ parent_pid[cur_pid] /= NoPid
  /\ LET par == parent_pid[cur_pid]
         damaged == (overwritten \cup Reused) \ {cur_pid}
     IN /\ pcb_bitmap'  = pcb_bitmap \ {cur_pid}
        /\ SwitchTo(par, pcb_esp0)
        /\ overwritten' = damaged
        /\ Restore(par, saved_at, saved_on, {"execute"}, damaged)
  /\ UNCHANGED <<pcbs, term_pid, running_term, shell_elf>>

(***************************************************************************)
(* syscall_halt in a base shell: its pid is freed and syscall_execute is   *)
(* called on its kernel stack.  Execute returns only when it fails.        *)
(***************************************************************************)
HaltBase(q) ==
  /\ mode = "user"
  /\ parent_pid[cur_pid] = NoPid
  /\ shell_elf
  /\ LET bitmap == pcb_bitmap \ {cur_pid}
     IN /\ LowestFree(q, bitmap)
        /\ StartProcess(q, NoPid, pcb_esp0, saved_at, bitmap)
  /\ overwritten' = (overwritten \cup Reused) \ {cur_pid, q}
  /\ UNCHANGED <<saved_on, term_pid, running_term, shell_elf>>

HaltBaseFails ==
  /\ mode = "user"
  /\ parent_pid[cur_pid] = NoPid
  /\ ~shell_elf
  /\ pcb_bitmap' = pcb_bitmap \ {cur_pid}
  /\ cur_pid'    = NoPid
  /\ mode'       = "printed"
  /\ UNCHANGED <<pcbs, term_pid, running_term, user_page, tss_esp0, kstack,
                 overwritten, shell_elf>>

-----------------------------------------------------------------------------
(***************************************************************************)
(* pit_int_handler and schedule().  What is saved, in the order the code   *)
(* saves it; the idle loop (cur_pid = -1) is not saved at all.             *)
(***************************************************************************)
FrameNotSaved == saved_at                                                   \* mutant
SavedPids == [term_pid EXCEPT ![running_term] = cur_pid]
SavedEsp0 == IF cur_pid = NoPid THEN pcb_esp0 ELSE [pcb_esp0 EXCEPT ![cur_pid] = tss_esp0]
SavedAt   == IF cur_pid = NoPid THEN saved_at ELSE [saved_at EXCEPT ![cur_pid] = mode]
SavedOn   == IF cur_pid = NoPid THEN saved_on ELSE [saved_on EXCEPT ![cur_pid] = HandlerStack]
Damaged   == (overwritten \cup Reused) \ {cur_pid}

NextTerm == next_term_to_run(running_term)
NextPid  == SavedPids[NextTerm]

SaveCurrent ==
  /\ Alive
  /\ term_pid'     = SavedPids
  /\ saved_on'     = SavedOn
  /\ running_term' = NextTerm
  /\ UNCHANGED shell_elf

\* The next terminal has a process: its page, its esp0 and its frame.
TickResume ==
  /\ SaveCurrent
  /\ NextPid /= NoPid
  /\ SwitchTo(NextPid, SavedEsp0)
  /\ pcb_esp0'    = SavedEsp0
  /\ saved_at'    = SavedAt
  /\ overwritten' = Damaged
  /\ Restore(NextPid, SavedAt, SavedOn, {"user", "iret"}, Damaged)
  /\ UNCHANGED <<pcb_bitmap, parent_pid>>

\* The next terminal has none: launch_base_shell calls syscall_execute with
\* cur_pid = -1, still on the stack of the process that was interrupted.
TickLaunch(q) ==
  /\ SaveCurrent
  /\ NextPid = NoPid
  /\ shell_elf
  /\ record_process(q)
  /\ StartProcess(q, NoPid, SavedEsp0, SavedAt, pcb_bitmap)
  /\ overwritten' = Damaged \ {q}

TickLaunchFails ==
  /\ SaveCurrent
  /\ NextPid = NoPid
  /\ ~shell_elf \/ pcb_bitmap = Pid
  /\ cur_pid'     = NoPid
  /\ pcb_esp0'    = SavedEsp0
  /\ saved_at'    = SavedAt
  /\ mode'        = "printed"
  /\ overwritten' = Damaged
  /\ UNCHANGED <<pcb_bitmap, parent_pid, user_page, tss_esp0, kstack>>

Tick ==
  \/ TickResume
  \/ \E q \in Pid : TickLaunch(q)
  \/ TickLaunchFails

-----------------------------------------------------------------------------
(***************************************************************************)
(* A program creates or removes a file "shell" in the current PSV folder,  *)
(* or changes the folder.  read_dentry_by_name looks there first and gives *)
(* execute a PSV inode number, which execute uses in the boot image.       *)
(***************************************************************************)
Rename ==
  /\ mode = "user"
  /\ shell_elf' = ~shell_elf
  /\ UNCHANGED <<pcb_bitmap, pcbs, term_pid, running_term, cur_pid, cpu, overwritten>>

\* Nothing is promised after a wrong return.
Dead ==
  /\ ~Alive
  /\ UNCHANGED vars

Next ==
  \/ \E q \in Pid : Execute(q)
  \/ Iret
  \/ HaltToParent
  \/ \E q \in Pid : HaltBase(q)
  \/ HaltBaseFails
  \/ Tick
  \/ Rename
  \/ Dead

Spec == Init /\ [][Next]_vars

\* The PIT keeps interrupting: interrupts are enabled in all live modes.
FairSpec == Spec /\ WF_vars(Tick)

-----------------------------------------------------------------------------
(***************************************************************************)
(* Properties.                                                             *)
(***************************************************************************)

\* The process at the end of terminal t's chain of execute calls: the one
\* that runs or will run when schedule() comes to t.
Leaf(t) == IF t = running_term THEN cur_pid ELSE term_pid[t]
Leaves  == {Leaf(t) : t \in Term} \ {NoPid}

\* The variables keep the ranges the C types and tables give them.
TypeOK ==
  /\ pcb_bitmap \subseteq Pid
  /\ parent_pid \in [Pid -> Pid \cup {NoPid}]
  /\ pcb_esp0 \in [Pid -> Pid]
  /\ saved_at \in [Pid -> Frames]
  /\ saved_on \in [Pid -> Pid]
  /\ term_pid \in [Term -> Pid \cup {NoPid}]
  /\ running_term \in Term
  /\ cur_pid \in Pid \cup {NoPid}
  /\ user_page \in Pid \cup {NoPid}
  /\ tss_esp0 \in Pid
  /\ mode \in Modes
  /\ kstack \in Pid
  /\ overwritten \subseteq Pid
  /\ shell_elf \in BOOLEAN

DistinctEnds == \A t, u \in Term : Leaf(t) = Leaf(u) /\ Leaf(t) /= NoPid => t = u
EndsInUse    == Leaves \subseteq pcb_bitmap
ParentsWait  == \A p \in pcb_bitmap : parent_pid[p] \in (pcb_bitmap \ Leaves) \cup {NoPid}
OneChild     == \A p, q \in pcb_bitmap :
                   parent_pid[p] = parent_pid[q] /\ parent_pid[p] /= NoPid => p = q
NoOrphan     == \A p \in pcb_bitmap \ Leaves : \E q \in pcb_bitmap : parent_pid[q] = p

\* The pids in use form one chain per terminal, however executes, halts and
\* ticks interleave: the ends of the chains are distinct, a parent is in use,
\* waits (is no end) and waits for one child only, and nobody is left over.
ProcessChains ==
  Alive => DistinctEnds /\ EndsInUse /\ ParentsWait /\ OneChild /\ NoOrphan

\* No process is its own ancestor, although pids are reused while processes
\* that were given them as parents come and go: in every set of processes
\* one has its parent outside.
NoParentCycle ==
  Alive => \A S \in SUBSET pcb_bitmap : S /= {} => \E p \in S : parent_pid[p] \notin S

\* While a program runs or is about to, the page at 128MB and the stack the
\* next system call will use are those of cur_pid, whichever of execute, halt
\* and schedule last set them; and so they are in every PCB in use.
AddressSpace ==
  /\ mode \in {"user", "iret"} =>
       user_page = cur_pid /\ tss_esp0 = cur_pid /\ cur_pid \in pcb_bitmap
  /\ Alive => \A p \in pcb_bitmap : pcb_esp0[p] = p

\* A PCB has one esp/ebp pair for two purposes.  A process that waits in
\* execute has the frame halt returns through, one that was preempted the
\* frame schedule() returns through, and never the other way round.
SavedFrames ==
  Alive =>
    /\ \A p \in pcb_bitmap \ Leaves : saved_at[p] = "execute" /\ saved_on[p] = p
    /\ \A p \in Leaves \ {cur_pid} : saved_at[p] \in {"user", "iret"}

\* A halt always comes back to the execute it answers, and a tick to the
\* process it resumes, with one exception: a base shell that was interrupted
\* before its first iret.
ReturnsHome ==
  mode = "lost" => parent_pid[cur_pid] = NoPid /\ saved_at[cur_pid] = "iret"

\* Every terminal gets the processor again and again, whatever the programs
\* of the others do.
RoundRobin == \A t \in Term : []<>(running_term = t \/ ~Alive)

\* "restore next program's reg info": what schedule() restores is a frame of
\* the process it switches to.
RestoresNextProgram == mode /= "lost"

=============================================================================
