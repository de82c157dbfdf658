----------------------------- MODULE TextDisplay -----------------------------
(***************************************************************************)
(* The text-mode kernel, mp3_terminal: three terminals share one screen.   *)
(* The terminal that is viewed lives in the video memory, the other two in *)
(* a buffer each, and kernel and programs always write to the same virtual *)
(* page: change_vidmem_mapping points it, the page of vidmap and the       *)
(* cursor of nb_putc at the right place.  The tick does so for the next    *)
(* terminal, the keyboard handler for the viewed one and back, and a       *)
(* switch moves the contents.                                              *)
(*                                                                         *)
(* Handlers and system calls that print run with interrupts off, so each   *)
(* is one step.  Processes are modelled as far as they decide which        *)
(* terminal and which mapping is current: ProcessControl has the scheduler *)
(* in detail, LineInput what a read of the keyboard returns.               *)
(***************************************************************************)
EXTENDS TextScreen, FiniteSetsExt

CONSTANTS
  Term,            (* 0 .. 2                                               *)
  MAX_NUM_PROCESS, (* 6                                                    *)
  KBD_BUF_SIZE,    (* 128                                                  *)
  Keys,            (* what is typed, other than Enter and Backspace        *)
  Writes,          (* what programs give to terminal_write                 *)
  Addresses,       (* addresses programs fault at                          *)
  Drawn, Ink,      (* cells a program draws in, and what                   *)
  BarMark, MsgMark,(* the texts of launch_base_shell and of refusals       *)
  Junk,            (* what the BIOS leaves in the memory                   *)
  MaxSteps         (* bound on what programs and keys do                   *)

ASSUME DisplayAssumption ==
  /\ Term = 0 .. Cardinality(Term) - 1 /\ Cardinality(Term) \in 2 .. MAX_NUM_PROCESS
  /\ MAX_NUM_PROCESS \in Nat /\ Addresses \subseteq Nat
  /\ \A w \in Writes : w \in Seq(ToSet(w))
  /\ {BarMark, MsgMark} \cap {PercentD, PercentX} = {}
  /\ KBD_BUF_SIZE \in Nat \ {0, 1} /\ MaxSteps \in Nat

VARIABLES
  display,         (* a record, see below                                  *)
  buf_pos,         (* where the next key is stored                         *)
  term_pos,        (* term_arr[t].buf_pos: set when it is left             *)
  pcb_bitmap, cur_pid, parent_pid,
  pcb_vidmap,      (* PCB.vidmap_flag                                      *)
  term_pid,        (* term_arr[t].pid: set when it stops running           *)
  user_page,       (* the process whose 4MB page is at 128MB               *)
  steps            (* what programs and keys have done, to bound it        *)

keyboard  == <<buf_pos, term_pos>>
processes == <<pcb_bitmap, cur_pid, parent_pid, pcb_vidmap, term_pid, user_page>>
vars      == <<display, keyboard, processes, steps>>

Pid   == 0 .. MAX_NUM_PROCESS - 1
NoPid == -1
Video == Cardinality(Term)               \* pages: the screen, and the buffers 0 .. 2
Pages == Term \cup {Video}

-----------------------------------------------------------------------------
(* The display: memory (page -> cells), the cursor of each terminal, ptr   *)
(* (the terminal screen_x_ptr and screen_y_ptr point into), mapped (the    *)
(* page behind VIDEO_START), usrmap (the page behind FISH_MAP), hw (the    *)
(* position of the hardware cursor), viewing, running, and vidmap_flag.    *)

\* The entries of the page directory that are present from boot on: video memory
\* and its buffers, kernel, and the table of vidmap.
PresentEntries == {"video", "kernel", "usrmap"}

\* Entry VIDEO_START of usr_page_table and of usrmap_page_table after boot:
\* both tables map every page to itself.
InitialMapping == [mapped |-> Video, usrmap |-> [present |-> TRUE, page |-> Video]]

\* terminal_init forgets the cursor clear has put at the start of row 1.
InitialDisplay ==
  LET bios == [cells |-> [i \in Cells |-> Junk], x |-> 0, y |-> 0]
  IN  [memory |-> [p \in Pages |-> IF p = Video THEN ClearText(bios).cells ELSE bios.cells],
       cursor |-> [t \in Term |-> [x |-> 0, y |-> 0]],
       ptr |-> 0, mapped |-> InitialMapping.mapped, usrmap |-> InitialMapping.usrmap,
       hw |-> Position(ClearText(bios)), viewing |-> 0, running |-> 0,
       vidmap_flag |-> [t \in Term |-> FALSE]]

Place(d, t) == IF t # d.viewing THEN t ELSE Video

switch_usrmap(d, page, present) == [d EXCEPT !.usrmap = [present |-> present, page |-> page]]

switch_fish_paging(d, t) ==
  [switch_usrmap(d, Place(d, t), d.vidmap_flag[t]) EXCEPT !.mapped = Place(d, t)]
change_vidmem_mapping(d, t) == [switch_fish_paging(d, t) EXCEPT !.ptr = t]

calib_cursor(d) == [d EXCEPT !.hw = Position(d.cursor[d.ptr])]

Screen(d) == [cells |-> d.memory[d.mapped], x |-> d.cursor[d.ptr].x, y |-> d.cursor[d.ptr].y]
SetScreen(d, s) ==
  [d EXCEPT !.memory[d.mapped] = s.cells, !.cursor[d.ptr] = [x |-> s.x, y |-> s.y]]

AlwaysCalib(d, c) == calib_cursor(SetScreen(d, PutC(Screen(d), c)))         \* mutant
nb_putc(d, c) ==
  LET e == SetScreen(d, PutC(Screen(d), c))
  IN  IF e.viewing = e.running THEN calib_cursor(e) ELSE e

puts(d, str) ==
  LET after[n \in 0 .. Len(str)] == IF n = 0 THEN d ELSE nb_putc(after[n - 1], str[n])
  IN  after[Len(str)]

\* The keyboard handler maps the viewed terminal, and then the running one again.
MapViewed(d)  == change_vidmem_mapping(d, d.viewing)
MapRunning(d) == change_vidmem_mapping(calib_cursor(d), d.running)

StaysOnRunning(d, c) == calib_cursor(nb_putc(d, c))                         \* mutant
Echo(d, c) == MapRunning(nb_putc(MapViewed(d), c))

clear(d) ==
  LET e == MapViewed(d)
  IN  MapRunning(SetScreen(e, ClearText(Screen(e))))

MovesContents(d, target) ==
  [d EXCEPT !.memory[d.viewing] = d.memory[d.mapped],
            !.memory[d.mapped] = d.memory[target]]
ShowCursorOf(d, t) == calib_cursor([d EXCEPT !.ptr = t])

NotMappedAgain(d, target) ==                                                \* mutant
  [MovesContents(MapViewed(ShowCursorOf(d, target)), target) EXCEPT !.viewing = target]
switch_display(d, target) ==
  LET e == MovesContents(MapViewed(ShowCursorOf(d, target)), target)
  IN  change_vidmem_mapping([e EXCEPT !.viewing = target], d.running)

-----------------------------------------------------------------------------
Init ==
  /\ display = InitialDisplay
  /\ buf_pos = 0 /\ term_pos = [t \in Term |-> 0]
  /\ pcb_bitmap = {} /\ cur_pid = NoPid
  /\ parent_pid = [p \in Pid |-> NoPid]
  /\ pcb_vidmap = [p \in Pid |-> FALSE]
  /\ term_pid = [t \in Term |-> NoPid]
  /\ user_page = NoPid
  /\ steps = 0

Bounded == steps < MaxSteps /\ steps' = steps + 1

-----------------------------------------------------------------------------
(* The keyboard handler.                                                   *)

\* A key is echoed also when the line has no room for it.
Key(c) ==
  /\ Bounded
  /\ display' = Echo(display, c)
  /\ buf_pos' = IF buf_pos <= KBD_BUF_SIZE - 2 THEN buf_pos + 1 ELSE buf_pos
  /\ UNCHANGED <<term_pos, processes>>

Enter ==
  /\ Bounded
  /\ display' = Echo(display, Newline)
  /\ buf_pos' = 0
  /\ UNCHANGED <<term_pos, processes>>

EraseKey ==
  /\ Bounded
  /\ buf_pos > 0
  /\ display' = Echo(display, Backspace)
  /\ buf_pos' = buf_pos - 1
  /\ UNCHANGED <<term_pos, processes>>

\* Ctrl+L.
ClearScreen ==
  /\ Bounded
  /\ display' = clear(display)
  /\ UNCHANGED <<keyboard, processes>>

\* Alt+F1 .. Alt+F3.
switch_terminal(target) ==
  /\ Bounded
  /\ target # display.viewing
  /\ display' = switch_display(display, target)
  /\ term_pos' = [term_pos EXCEPT ![display.viewing] = buf_pos]
  /\ buf_pos' = term_pos[target]
  /\ UNCHANGED processes

-----------------------------------------------------------------------------
(* System calls and exceptions of the program that runs.                   *)

\* A program can only be started by a command line, long after boot.
Booted == \A t \in Term : t = display.running \/ term_pid[t] # NoPid
InProgram == cur_pid # NoPid /\ Bounded

terminal_write(str) ==
  /\ InProgram
  /\ display' = puts(display, str)
  /\ UNCHANGED <<keyboard, processes>>

Message == <<MsgMark, Newline>>

\* vidmap of a bad address, execute of what is no program or when the pids are
\* used up.
Refused == terminal_write(Message)

record_process(bitmap) == IF bitmap = Pid THEN NoPid ELSE Min(Pid \ bitmap)
decord_process(p) == pcb_bitmap \ {p}

setup_paging_and_flush_tlb(p) == user_page' = p

\* A new process in the PCB q; its parent is parent.
StartProcess(q, parent, bitmap) ==
  /\ pcb_bitmap' = bitmap \cup {q}
  /\ parent_pid' = [parent_pid EXCEPT ![q] = parent]
  /\ pcb_vidmap' = [pcb_vidmap EXCEPT ![q] = FALSE]
  /\ cur_pid' = q
  /\ setup_paging_and_flush_tlb(q)

\* fish, which alone calls vidmap, executes nothing.
syscall_execute ==
  /\ InProgram /\ Booted /\ ~pcb_vidmap[cur_pid]
  /\ LET q == record_process(pcb_bitmap)
     IN  q # NoPid /\ StartProcess(q, cur_pid, pcb_bitmap)
  /\ UNCHANGED <<display, keyboard, term_pid>>

\* The base shells do not call it.
syscall_vidmap ==
  /\ InProgram /\ parent_pid[cur_pid] # NoPid
  /\ LET d == switch_usrmap(display, Place(display, display.running), TRUE)
     IN  display' = [d EXCEPT !.vidmap_flag[d.running] = TRUE]
  /\ pcb_vidmap' = [pcb_vidmap EXCEPT ![cur_pid] = TRUE]
  /\ UNCHANGED <<keyboard, pcb_bitmap, cur_pid, parent_pid, term_pid, user_page>>

\* A program writes through the page it got.
Draw ==
  /\ InProgram /\ pcb_vidmap[cur_pid] /\ display.usrmap.present
  /\ "usrmap" \in PresentEntries
  /\ \E i \in Drawn : display' = [display EXCEPT !.memory[display.usrmap.page][i] = Ink]
  /\ UNCHANGED <<keyboard, processes>>

VidmapClosed(d) ==
  IF pcb_vidmap[cur_pid]
  THEN [switch_usrmap(d, Place(d, d.running), FALSE) EXCEPT !.vidmap_flag[d.running] = FALSE]
  ELSE d

\* A base shell that halts is executed again.
Halt(d) ==
  LET parent == parent_pid[cur_pid]
      bitmap == decord_process(cur_pid)
  IN  IF parent = NoPid
      THEN /\ StartProcess(record_process(bitmap), NoPid, bitmap)
           /\ display' = d
           /\ UNCHANGED <<keyboard, term_pid>>
      ELSE /\ display' = VidmapClosed(d)
           /\ pcb_bitmap' = bitmap
           /\ pcb_vidmap' = [pcb_vidmap EXCEPT ![cur_pid] = FALSE]
           /\ cur_pid' = parent
           /\ setup_paging_and_flush_tlb(parent)
           /\ UNCHANGED <<keyboard, parent_pid, term_pid>>

syscall_halt == InProgram /\ Halt(display)

\* The other exceptions print a message and halt the program.
EXCP == InProgram /\ Halt(puts(display, Message))

EXCP_page_fault(a) ==
  /\ InProgram
  /\ Halt(puts(puts(display, printf(<<PercentX, Newline>>, a)), Message))

-----------------------------------------------------------------------------
(* The tick: pit_int_handler and schedule.                                 *)

next_term_to_run(t) == (t + 1) % Cardinality(Term)

launch_base_shell(d, t) == puts(d, printf(<<BarMark, PercentD, Newline>>, t))

TickMapping(d) == change_vidmem_mapping(d, next_term_to_run(d.running))

Tick ==
  LET next   == next_term_to_run(display.running)
      mapped == [TickMapping(display) EXCEPT !.running = next]
  IN  /\ term_pid' = [term_pid EXCEPT ![display.running] = cur_pid]
      /\ IF term_pid[next] # NoPid
         THEN /\ cur_pid' = term_pid[next]
              /\ setup_paging_and_flush_tlb(term_pid[next])
              /\ display' = mapped
              /\ UNCHANGED <<pcb_bitmap, parent_pid, pcb_vidmap>>
         ELSE /\ StartProcess(record_process(pcb_bitmap), NoPid, pcb_bitmap)
              /\ display' = launch_base_shell(mapped, next)
      /\ UNCHANGED <<keyboard, steps>>

-----------------------------------------------------------------------------
KeyboardStep ==
  \/ \E c \in Keys : Key(c)
  \/ Enter
  \/ EraseKey
  \/ ClearScreen
  \/ \E t \in Term : switch_terminal(t)

Next ==
  \/ KeyboardStep
  \/ \E w \in Writes : terminal_write(w)
  \/ Refused
  \/ syscall_execute
  \/ syscall_vidmap
  \/ Draw
  \/ syscall_halt
  \/ EXCP
  \/ \E a \in Addresses : EXCP_page_fault(a)
  \/ Tick

Spec == Init /\ [][Next]_vars

-----------------------------------------------------------------------------
(* Properties.                                                             *)

\* Every variable stays within its type; no cursor leaves its screen.
TypeOK ==
  /\ display.memory \in [Pages -> [Cells -> {Blank, Junk, Ink, BarMark, MsgMark}
                                  \cup Keys \cup (UNION {ToSet(w) : w \in Writes})
                                  \cup 0 .. Max({Decimal, Hexadecimal}) - 1]]
  /\ display.cursor \in [Term -> [x : 0 .. NUM_COLS - 1, y : 0 .. NUM_ROWS - 1]]
  /\ display.ptr \in Term /\ display.viewing \in Term /\ display.running \in Term
  /\ display.mapped \in Pages
  /\ display.usrmap \in [present : BOOLEAN, page : Pages]
  /\ display.hw \in Cells
  /\ display.vidmap_flag \in [Term -> BOOLEAN]
  /\ buf_pos \in 0 .. KBD_BUF_SIZE - 1 /\ term_pos \in [Term -> 0 .. KBD_BUF_SIZE - 1]
  /\ pcb_bitmap \subseteq Pid /\ cur_pid \in Pid \cup {NoPid}
  /\ parent_pid \in [Pid -> Pid \cup {NoPid}]
  /\ pcb_vidmap \in [Pid -> BOOLEAN]
  /\ term_pid \in [Term -> Pid \cup {NoPid}]
  /\ user_page \in Pid \cup {NoPid}
  /\ steps \in 0 .. MaxSteps

\* Whatever the ticks, switches and keys in between, text goes to the screen of
\* the terminal it belongs to: programs' and the kernel's to the running one's,
\* the echo of a key to the viewed one's, a drawing through vidmap to that of the
\* program; and it goes to the right cell (nb_putc, clear, switch_terminal,
\* schedule, syscall_vidmap).
Screens == INSTANCE TerminalScreens WITH
  text   <- [t \in Term |-> display.memory[Place(display, t)]],
  at     <- [t \in Term |-> Position(display.cursor[t])],
  viewed <- display.viewing,
  Columns <- NUM_COLS, Rows <- NUM_ROWS
OwnScreens == Screens!Spec

\* While a process runs, the three mappings agree with it: its own page is at
\* 128MB, the kernel writes to the screen or to the buffer of its terminal with
\* that terminal's cursor, and the page of vidmap is the same place, present if
\* and only if the program has called vidmap.
MappingsFollow ==
  cur_pid # NoPid =>
    /\ user_page = cur_pid
    /\ display.ptr = display.running
    /\ display.mapped = Place(display, display.running)
    /\ display.usrmap.page = display.mapped
    /\ display.usrmap.present = pcb_vidmap[cur_pid]

\* Once a shell has been started in the viewed terminal, the hardware cursor is
\* where that terminal's next character goes (calib_cursor at its callers).
Started(t) == (IF t = display.running THEN cur_pid ELSE term_pid[t]) # NoPid
CursorShown ==
  Started(display.viewing) => display.hw = Position(display.cursor[display.viewing])

=============================================================================
