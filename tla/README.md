# MartianOS in TLA+

MartianOS is a small x86 kernel in C: one processor, three terminals, up to six
processes, a read-only boot image and a writable file system, PSV, on an ATA
disk. This directory models the kernel's own logic, checks it with TLC and
proves part of it with TLAPS. Paths below are relative to
`src/mp3_Final/student-distrib/`, the current tree. `mp3_terminal` is an earlier,
text-mode state of the same kernel; its paths begin with `T:`, for
`src/mp3_terminal/student-distrib/`.

## What is hard in this kernel

All gates are interrupt gates, so a handler or a system call runs with
interrupts off and is one step. There are three exceptions:

* `syscall_read` begins with `sti()` (`syscall_handler.c:31`): every read, of the
  keyboard, the clock or the disk, can be cut anywhere by keys and ticks.
* `syscall_execute` does `sti()` before its `iret` (`:332`): a tick can be taken
  while the kernel is still on somebody else's stack.
* The power can go between two writes of one call to the disk.

And even where every handler is one step, most of the state is shared by all
terminals under one name (`kbd_buf`, `screen_x_ptr`, `rtc_signal`, the page of
vidmap, `current_folder`), and ticks, keys and mouse packets decide in which order
it changes hands.

## Inventory

| Component | State | Operations | Interacts through | What makes it correct |
|---|---|---|---|---|
| Processes and scheduling (`syscall_handler.c`, `pit.c`) | PCBs, `pcb_bitmap`, `cur_pid`, `terminal_t.pid`, TSS, user page | execute, halt, exceptions, tick | every other component runs in the process it selects | one chain of processes per terminal; frames and stacks of the right process; every terminal served |
| Terminals and input (`keyboard.c`, `terminal.c`) | `kbd_buf`, `buf_pos`, `kbd_buf_ready`, `viewing_term_ptr` | key, Enter, Backspace, Alt+Fn, `terminal_read` | keyboard interrupt against readers in all terminals | a line is delivered as typed, to its terminal, within its bounds |
| Real time clock (`rtc.c`) | `rtc_signal`, the rate | interrupt, open, read, write | one flag for all terminals | a read waits for a new interrupt; nobody waits for ever alone; the rate is the one accepted |
| PSV folders (`PSV_fs_lite`) | `super_block`, `current_folder`, and their copies on disk | goin, create, delete, lookup | sector writes; the name lookup of open and execute | one tree, kept equal on disk, each call one step of it |
| PSV contents (`PSV_fs_lite`) | inodes, data blocks, `db_map` | create, write, delete, read | reads preempted by the others | no block has two owners; a file keeps its content |
| Hard disk (`harddisk.c`) | ATA registers | sector read, sector write | one set of registers | a command is not mixed with another's |
| File descriptors (`syscall_handler.c`) | `pcb_fds` | open, close, read, write | inode numbers of both file systems | a descriptor means the file it was opened for |
| Boot image (`fs.c`) | the image, file positions | lookup, `read_data`, `dir_read` | lookup goes to PSV first | consecutive reads are the file |
| Windows (`lib.c`, `VGA_*.c`, `terminal.c`, `mouse.c`) | screen, one buffer per terminal, cursors, window layers, pointer | put a character, scroll, clear, raise a window, mouse packet | keyboard echo, programs, ticks, Alt+Fn and mouse share cursor pointers and pages | only the part of a window that is on top is drawn; the front window shows its buffer |
| Paging and vidmap (`paging.c`, `terminal.c`) | page directory, `vidmap_flag` | vidmap, change mapping | ticks, Alt+Fn, every drawing | a program draws into its own terminal |
| Text-mode screens (`T:lib.c`, `T:terminal.c`, `T:pit.c`) | video page, buffers, mappings, hardware cursor | the same, on cells | the same | every terminal has a screen of its own |
| User programs (`src/mp3_Final/syscalls`, `fish`) | their variables, descriptors | one system call at a time | descriptors, PSV, the boot image | each does what its name says and ends |
| Rest (`i8259.c`, `idt.c`, `boot.S`, build tools) | see the component list in `PROJECT.json` | | | |

The hazards, each with its line and the property that watches it, are listed in
`PROJECT.json`.

## Modules

| Module | Models | Extends / uses |
|---|---|---|
| `ProcessControl` | `syscall_execute`, `syscall_halt`, `schedule`, `record_process`, `setup_paging_and_flush_tlb` | |
| `TerminalStacks` | abstract: one stack of processes per terminal, served in turn | |
| `MCProcessControl` | the refinement mapping from the PCBs to the stacks | `ProcessControl`, `TerminalStacks` |
| `ProcessControlProofs` | theorems, the refinement among them | `MCProcessControl`, `NumberLemmas` |
| `LineInput` | keyboard handler, `switch_terminal`, `terminal_read` | `LineEditor` |
| `LineEditor` | abstract: one line of text per terminal | |
| `LineInputProofs` | theorems | `LineInput` |
| `RealTimeClock` | `rtc.c` and its theorems | |
| `PSVFolders` | super block, folder nodes, walking, creating, deleting, crashes | `FolderTree` |
| `FolderTree` | abstract: a tree of paths | |
| `PSVFoldersProofs` | theorems, the refinement among them | `PSVFolders`, `NumberLemmas` |
| `PSVContent` | inodes, data blocks, `write_content`, preempted `read_content` | |
| `MCPSVContent` | the reads the runs use | `PSVContent` |
| `PSVContentProofs` | theorems | `PSVContent` |
| `FileDescriptors` | descriptor tables, lookup order, the boot image (`fs.c`), PSV's reads and writes as a descriptor sees them | |
| `UserPrograms` | the shell and the programs, one system call at a time | `FileDescriptors` |
| `MCUserPrograms` | a boot image and command lines | `UserPrograms` |
| `VGAScreen` | pixels: rectangles, glyphs, windows and their overlaps, scrolling, pictures | |
| `WindowDisplay` | three windows, text, keys, pointer, layers, pages | `VGAScreen` |
| `MCWindowDisplay` | a small screen | `WindowDisplay` |
| `WindowDisplayProofs` | theorems | `WindowDisplay`, `NumberLemmas` |
| `TextScreen` | `nb_putc`, scrolling, `clear`, `printf` of `T:lib.c` on one page of cells | |
| `TerminalScreens` | abstract: each text terminal has a screen of its own | |
| `TextDisplay` | the text-mode kernel: mappings, echo, switches, processes, ticks | `TextScreen`, `TerminalScreens` |
| `MCTextDisplay` | a small screen and what is written | `TextDisplay` |
| `TextDisplayProofs` | theorems, the refinement among them | `TextDisplay`, `NumberLemmas` |
| `NumberLemmas` | lemmas: induction, least elements, division, loops | |

### ProcessControl

State: the bitmap, the PCB fields that more than one operation writes, the
terminals' pids, and the processor (`user_page`, `tss_esp0`, `mode`, `kstack`). Of
a saved esp/ebp pair the module keeps where it returns to (`saved_at`) and on
which stack it lies (`saved_on`). An entry from user mode starts at the top of a
stack, so frames others left there may be overwritten from then on
(`overwritten`); `Restore` chooses whether the frame is still intact. A tick is
`SaveCurrent` and then one of `TickResume`, `TickLaunch` and `TickLaunchFails`.
`Rename` stands for what the PSV calls can do to the name "shell". Exceptions are
halts. The mode "iret" is the gap between `sti()` and `iret`.

### LineInput

One action per key; a read is `Call`, `SeeReady`, one `CopyChar` per character and
`Return`, and anything can come between. `intact` is a history variable: the
line entered, until something else touches it. Which character a scan code gives
is left open; the screen is not modelled.

### RealTimeClock

`rtc_read` is `Call` (clears the flag), `See` (the wait loop finds it set) and
`Return` (clears it again); the tick moves the processor between terminals.
Frequencies are the real numbers of the code, so the rate computation is
checked as it is. The hardware's rate formula (`Hertz`) is external.

### PSVFolders

A call changes the kernel's copies at once and leaves its sector writes, in
their order, in `todo`; `WriteNext` does the next one and `Crash` loses the rest and
mounts what is on the disk. A path is walked a name at a time, so paths have any
length. `delete_folder` is modelled with its activations (`del`), each with its own
copy of a folder, whose first contents are what was on the stack
(`StackGarbage`). Deleted terms keep name and index, as in the code. The duplicate
test reads unused slots too. The counters of the super block are written and
never read and are left out. A write of a node is one step although it is two
sectors: a loss of power between the two is not covered. The disk begins with
zeros in the nodes that are not in use, as `PSV_setup` means it to; `flush_space`
(`helper.c:515-521`) has zeros for one sector only, and its 2177 sectors are cut to 129
by the `uint8_t` of `Disk_SectorWrite`, so that super block, nodes and inodes are
filled with what lies behind the buffer on the kernel's stack.

### PSVContent

A byte is the place it was written for, which lets the properties tell any
misplaced byte from the right one. `write_content`, creation and deletion are one
step each; a read is `ReadStart` (the inode is copied), one `ReadBlock` for each
sector and `ReadEnd`, with everybody else's calls in between. A sector's transfer
is one step. `get_free_bit` is `TakesLowest`. Inodes and blocks are kept by the
sector that `idx2LBA` gives them, so two inodes past `FNODE_NUM_LIM` are one, and so
are two blocks. Two things the model shows coming and does not follow (`Followed`): an
inode and a block in use that have the same sector (`Clash`), which then holds
neither, and a call of `write_content` with a length below 0 or above `MAX_LEN`
(`Overrun`), which it complains about (`PSV.c:740`) and does not refuse, going on past
`data_blocks`. It stops there, and the properties say nothing about these states. No
program of the repository writes as much. Programs read and write files that
exist when the call begins; descriptors of deleted files are in
`FileDescriptors`. A loss of power is modelled for the folders only.

### FileDescriptors and UserPrograms

`FileDescriptors` has no actions: a call is an operator on the table of the
calling process, and returns its result, the table after it and the data. `PSV`
is its root folder as one step per call, with slots that keep the names of
deleted terms; the levels below are `PSVFolders` and `PSVContent`. `read_data` is
`fs.c` with its check of every block's number; `read_content` returns what the
code returns (`Returned`), not what it has read.

`UserPrograms` runs one program in each terminal. A step is one system call that
others can observe, with the program's own computation up to the next. `reg` holds
the program's variables, `out` what it has printed, `verdict` the shell's message.
`hist` is a history variable: whether another terminal has changed PSV since the
program started, what the files held then, and which file names PSV has had at any
moment since. Every open looks in PSV first (`fs.c:110`), so a file of PSV hides the
image's file, program or device of the same name, and the properties say of which names
they hold (`Steady`: PSV has had no such file, or has one within a block that nobody
else has changed). The byte behind grep's
uninitialised buffer is any byte (`newline`).

### VGAScreen and WindowDisplay

A pixel's colour is what it belongs to: a letter, a title bar, the desktop, a
pixel of the picture, the pointer, or black. `screen` is the video memory and
`buffer[t]` the image of terminal `t`. `ptr` is the terminal whose cursor
`screen_x_ptr` and `screen_y_ptr` point to. That need not be the terminal that is
drawn for (`running` in `nb_putc`, `viewing` in `kbd_putc`): the module keeps the
three apart as the code does. The page behind `frame_buffer` is mapped just
before each use and is a parameter of the drawing; the page of vidmap is mapped
by the same calls and stays, so it is the variable `fish`. A handler or a system
call is one step.

### TextScreen and TextDisplay

`TextScreen` is `T:lib.c` on a record of cells and cursor; `printf` gives the
characters it passes to `nb_putc`. `display` in `TextDisplay` is one record: the
memory of the video page and the three buffers, the cursors, `ptr`, the two
mappings, the hardware cursor and which terminal is viewed and which runs. Every
call of the code that changes a mapping is an operator on it, in the code's
order, so that a handler is the composition of its calls. Processes are kept as
far as they decide which page is mapped.

## Runs

| Run | Shows | Bounds, and why they are enough |
|---|---|---|
| `process_control` | every invariant and liveness property of `ProcessControl`, and the refinement of `TerminalStacks` | 4 pids, 3 terminals: bitmap full, the third launch, chains four deep; the theorems cover the rest |
| `process_restore` (violation) | `schedule()` restores a frame that is not the process's any more | 6 pids and 3 terminals, the code's numbers |
| `line_input` | line editing, delivery, the refinement of `LineEditor`, Enter answers | 2 terminals, a buffer of 2, reads of 1 and 2: full buffer, partial and full reads |
| `line_newline` (violation) | a read can copy from a buffer without `'\n'` | a buffer of 3 |
| `clock_service` | no early return, the accepted rate, somebody is served, and a lone reader always is | 3 terminals, frequencies at and around every limit |
| `psv_tree` | kernel copies equal the disk, the folders are a tree, every call is one step of a tree of paths, deletions end | 3 nodes, 2 subfolders each: siblings, nesting, full folder, a deletion that calls itself |
| `psv_crash` | a loss of power between two writes hurts at most the name being created; a file's inode is its own | 3 nodes, 2 inodes, one loss between any two writes of a super block or node |
| `psv_content` | blocks owned once, files keep their content, preempted reads right | blocks of 2 bytes, 3 files of up to 2 blocks, 3 blocks on the disk: it runs full; the last inode and the last block lie past `idx2LBA`'s bound; a text too long for a file |
| `programs` | cat, ls, ls_PSV, grep, echo, syserr and fish do what they say, whatever the other terminal does, as long as PSV hides no name they rely on, or hides it with a steady file within a block; every program ends, but for fish and grep on a longer one | 2 terminals, 2 commands, one that reads beside one that writes; files shorter than, equal to and longer than a block and a buffer, blocks out of order; PSV files called ".", f, frame0.txt, frame1.txt, rtc and shel, made by the other terminal or kept from an earlier boot |
| `windows` | only the free part of a window is drawn, the layers' rectangles are exact, the front window shows its buffer, the icons are upright | windows of 2 glyphs by 2 lines and a half that overlap pairwise, half-covered glyphs, every order of the layers that switches can reach, 4 steps of programs, keys and mouse with any ticks between |
| `windows_vidmap` (violation) | a program of a hidden terminal draws on the screen | as `windows` |
| `text` | every character and drawing goes to its own terminal's screen, mappings and hardware cursor follow | 4 by 3 cells, a bar of 3, radices 2 and 3 so that numbers have two digits, 5 pids, 4 steps of programs and keys with any ticks between |

`CrashHurtsOne` bounds what one loss of power can do, so the run has one: a second
loss may hurt a second name, and with `MaxCrashes = 2` TLC finds two creations cut
off one after the other. It does not say that nothing leaks, and after the loss the properties about settled states are not
claimed.

`MaxSteps` bounds what programs, keys and the mouse do in the two display models;
ticks are free. Four steps hold the longest sequences that the code's hazards
need: switch, tick, print, switch back; a line that wraps and scrolls; type,
switch, erase; vidmap, switch, draw, end.

`FrontShowsBuffer` excepts five cases by name (`Misplaced`), in which the code
does draw in the wrong place (below). What it shows is that there are no others.
In the same way `NoOverdraw` is about prints with the program's own cursor in its
own window, the properties of cat and echo about files of PSV within a block that
nobody else changes, those of ls, grep, syserr and fish about names that PSV does not hide, or
hides steadily, and `ProgramsEnd` excepts two loops by name (`Rewinds`): outside these conditions the code is wrong, as described
below, or promises nothing.

The display models leave out part of what programs may do: in `TextDisplay` a
program that has called vidmap executes nothing (fish does not; were it to start a child that calls vidmap, the child's halt would take the page
away), and programs are only executed once the three base shells run (`Booted`),
as commands are typed long after boot. `WindowDisplay` has no process table; its
programs are the terminals.

## Fairness

* `ProcessControl`: weak fairness of the tick. The PIT interrupts periodically and
  all live modes have interrupts enabled.
* `LineInput`: weak fairness of each terminal's read steps: `RoundRobin` gives every
  terminal the processor again and again, and a reading process does nothing
  else.
* `RealTimeClock`: weak fairness of both devices; strong fairness of a reader's
  steps, as a time slice is far longer than a turn of the wait loop.
* `PSVFolders`: weak fairness of the writes and of the deletion's steps: nothing
  preempts the call and the drive completes its commands.
* `UserPrograms`: a terminal that is not at its prompt goes on, stated as
  `<>[](pc[t] # "prompt") => []<><<Moves(t)>>_vars`. This is weak fairness of the
  program's step, written without ENABLED: no call of a program blocks, so the
  premise is exactly that a step is enabled.
* The display models have safety properties only.

## Proofs

Every theorem is about all values of the constants. The assumptions are those of
the `ASSUME`s, which TLC evaluates on every run: sizes are naturals of the least
value the code needs, and beyond that

* `VGAScreen`: windows and icons lie on the screen, the windows cascade, each at
  or below and at or right of the one before (`VGA_image.h:11-16`), the icons follow
  each other without overlapping (`VGA_image.h:22-29`), and title bar and pointer fit
  the window and the screen;
* `TextScreen`: radices are at least 2, and the characters that `printf` and
  `nb_putc` tell apart differ;
* `TextDisplay`: two terminals or more and no more than there are pids
  (`launch_base_shell` has a pid for every terminal), and the kernel's own messages
  hold no `%d` or `%x`;
* `WindowDisplay`: Backspace is no letter, no text has the pointer's colour, and the
  mouse moves by whole pixels.

`IInv` is in each case the strengthened invariant.

* `ProcessControlProofs`: `TypeCorrect`, `ChainsCorrect`, `AddressSpaceCorrect`,
  `FramesCorrect`, `ReturnsCorrect`. No single
  property is inductive: that halt finds a parent in use needs the chains, that
  a frame is of the right kind needs to know who is the end of a chain, and that
  a return goes home needs `KernelStacks` (on whose stack each frame lies) and
  `OverwrittenAreBase` (only a base shell's first frame can be overwritten).
  `StacksImplemented` is the safety part of `ImplementsStacks`: the initial
  state and every step, from any number of pids, terminals and nested programs, are
  those of one stack of processes per terminal. A sequence is that of a chain
  exactly when it begins at the terminal's process, goes from child to parent and
  ends at a base shell (`StackOfChain`); that each terminal has one is `ChainsMapped`,
  and execute pushes onto it (`PushChain`), halt pops it (`PopChain`), and a step of
  another terminal leaves it alone (`KeepChain`).
* `LineInputProofs`: `TypeCorrect`, `LastReservedCorrect`, `LineDeliveredCorrect` and
  `RefinesLineEditor`, which is the whole of `ImplementsEditor`. `IInv` adds that `kbd_buf`
  points to the viewed terminal, that typed places hold no `'\n'`, that an intact
  line is in its buffer and that what a read has copied is a prefix of it.
* `RealTimeClock`: `ReadWaitsCorrect`; `IInv` adds that a raised flag is newer than
  every read under way. `TypeCorrect`: the rate in the register is that of the
  last frequency accepted, whatever integers programs ask for (`RateFits`: the
  hardware's formula undoes what `set_frequency` computes from the logarithm).
* `PSVFoldersProofs`: `TypeCorrect`, and, while no power is lost, `CopiesCorrect`,
  `FoldersCorrect` and `FilesCorrect`. The disk itself is in order only between the
  calls, so `IInv` speaks of the disk as it is after the writes a call has issued and
  the drive not yet done (`After`), of which each call is one step and a write none
  (`HeadWritten`). Of it `Good` says: the nodes in use form a tree, counted and named
  right, and every inode in use has one name; the kernel's copies are those of that
  disk; the folder to return to is reached from the root, from a folder under
  deletion, or is freed; and each activation of `delete_folder` holds the copy of a
  node of its own that is in use and in no folder. The last says why a recursive
  deletion frees no folder that something else names. Reaching is stated without
  paths (`Reach`: in every set that has the root and with a folder its subfolders);
  `PathTo` leads back to the paths of the properties, since a tree of as many nodes
  has no deeper level (`LastLevel`, by the pigeonhole).
  `TreeImplemented` is the whole of `ImplementsTree` where power is never lost, and
  `TreeUntilLoss` says the same of every step before the first loss. Here the disk
  counts as it is, between the writes of a call too, and `Good` does not hold of it;
  that its terms are a tree does (`IsTree`). `Orderly` adds that of the writes still
  to be done the first makes one step of the tree, or none, and the others leave
  every node's subfolders and files (`Planned`): the parent's node is written first
  (`FolderPlanned`, `FolderGone`), the activations of a recursive deletion
  write only what has no path any more (`CutSilent`), and the node of a new folder is
  last, which changes nothing because a free node is empty on the disk (`FreeEmpty`).
  That in turn holds because a folder is emptied, and its emptied node written,
  before its bit is cleared. Paths are defined like what can be reached
  (`Leads`); `Seen` shows that they are those of `FoldersOnDisk` and `FilesOnDisk`.
  `CrashCorrect` is `CrashHurtsOne` where power is lost once at most, and
  `FirstCrashHurtsOne` says the same of the first loss of any number. `Spared` follows
  the disk through the writes of a call: after the last `Good` holds, so nothing is
  hurt (`GoodUnhurt`); after each before it at most the new name is. A folder under
  creation has no terms yet, so nothing below it is hurt with it (`FolderHurt`, by
  `FreeEmpty`); a file's inode has no second name (`FileHurt`); and a deletion
  writes the parent's node before the bitmap, so that what it loses is a
  bit that stays set (`FileDropUnhurt`).
* `PSVContentProofs`: `TypeCorrect`, with no condition on the inodes of the files or on
  the lengths that programs ask for: `Typed` adds to the types where a read is, since
  that it stays in its inode and its buffer follows from the lengths of the pieces it
  has read (`Upto`, `Part`). `BlocksOwnedCorrect`, as long as no two files in use have
  their inodes in one sector (`InodesApart`): `Owned` with the types is inductive; the
  work is in the arithmetic of `BlocksFor` and `get_num_db` (a deletion frees no block
  the file does not have) and in the failed write, after which the file keeps its old
  inode but its blocks are all marked again because the disk is full.
  `ReadsBackApart`, as long as, besides, no two blocks in use have one sector
  (`SectorsApart`): `ContentInv` adds that the blocks of a file hold its text (`Kept`)
  and that an undisturbed read has the text's bytes so far (`ReadKept`). The code does
  not ensure the two conditions: `idx2LBA` sends all indexes above `FNODE_NUM_LIM` to
  one sector, so they hold until a second inode or a second block of those with the
  numbers from 33 on is in use, of the 64 and 2048 that `PSV.h:24-25` promises. After
  that the properties are false: with `FNODE_NUM_LIM = 1`, `DB_NUM_LIM = 4` and
  `Lengths = {3}` TLC finds a file of two blocks that share a sector after four steps.
  All three speak of the states up to a `Clash` or an `Overrun`.
* `WindowDisplayProofs`: `CoverageCorrect`, `NothingOverdrawn`, `TypeCorrect`,
  `FrontCorrect` and `IconsCorrect`, for any screen, glyph, window and icon size.
  `Layering` is inductive: the layers are a
  permutation with the viewed window on top, and `cover` and `cover2` are what the
  last switch computed from them. That a window's free part is its pixels
  outside these rectangles is geometry (`OverlapCovers`). `nb_putc` tests only two
  corners of a glyph against them: `TwoCorners` shows that this suffices for windows
  that cascade, and `PutOnTop` carries it through a print's wraps and scrolls.
  `FrontCorrect` adds `Typed`: buffers hold text only, never the pointer, so that a
  pixel under the pointer that a print leaves alone is one it has not written to the
  buffer either. `Together` says of a window that each of its pixels is now as in
  the buffer or is as before in both; a glyph (`PutcTogether`), a scroll
  (`ScrollTogether`) and a print for a window behind (`PutBehind`) are such changes.
  `IconsCorrect` rests on `FramePlace`, that the walk through the frame puts row `j`,
  column `i` of the file at its upright place in each of the four orders, and on the
  icons being apart.
* `TextDisplayProofs`: `ScreensTyped`, `MappingsAgree`, `CursorFollows`, from one
  inductive invariant. That the mappings follow a halt needs `Processes`: the parent
  to return to is in use, is nobody else's and is not itself running elsewhere, and
  until every terminal is started a pid is left for the next (`PidsLeft`, by
  counting). `Flags` says that only the innermost process of a terminal can have
  called vidmap and that the terminal's flag is its flag, without which the page of
  vidmap would be right for the process and wrong for the terminal. `Mapped` is
  `MappingsFollow` for the record that handlers compose.
  `ScreensImplemented` is the whole of `OwnScreens`: a step of the kernel is one of
  terminals with a screen each, or none. The abstract screen counts cells where
  `nb_putc` keeps rows and columns (`WriteRefines`), has a number's digits by
  their places where `itoa` divides and reverses (`NumeralIsItoa`), and a text as
  a whole where the code puts character after character (`PutsTwiceRefines`).
* `NumberLemmas`: the provers cannot instantiate the library's induction theorems,
  which take an operator; these state induction about a set (`InductionUpTo`: a set
  with 0 and with every successor up to N has N), from the library's facts about
  cardinalities. From it follow the values of recursive functions that step through
  a text or a number (`LoopExists`, `EndlessLoop`).

Only model-checked:

* liveness (`RoundRobin`, `EnterAnswers`, `ReadersWake`, `DeletionEnds`,
  `ProgramsEnd`, and the fairness in `ImplementsStacks`): out of the prover's reach;
* everything about the user programs.

## Where the code differs from what it says

Checked by runs: `process_restore`, `line_newline`, `windows_vidmap`;
`PROJECT.json` quotes the lines. The models also reproduce the following, which no
run reports, except where the text says that they exclude it.

Processes and clock:

* `syscall_execute("shell")` returns to its callers when a PSV file hides the
  program or no pid is free, after which `syscall_handler.c:375` or `:678` prints
  "This should not be printed!" (mode "printed").
* `execute` loads the program through the inode number of whatever entry the name has, also
  one that is not a regular file; PSV names come before those of the boot image.
* There is one `rtc_signal`: a reader that calls again at once clears it before
  another has seen it (`rtc.c:64`, `:72`), so that of two readers one can take every
  interrupt. `ReadersWake` therefore promises a tick to somebody, and to a reader
  that is alone.

PSV:

* `PSV.c:268` compares a new folder's name with deleted terms too, so a deleted
  name is refused as long as its slot is not reused; files likewise.
* A subfolder can be named "." or ".."; `delete_folder` then stops half-way
  (`PSV.c:365`) and the rest of the subtree keeps its bits.
* `PSV_delete_file` leaves the current folder where the walk ended (`PSV.c:582`).
* After a crash between the parent's and the super block's write, `goin` on the new
  name succeeds without moving (`helper.c:473`).
* `write_content` never advances `buf` (`PSV.c:785`): each block holds the beginning
  of the text. `ReadsBack` is stated about what the code writes.
* `read_content` returns a wrong count once a block boundary is passed
  (`PSV.c:731`): cat loses the rest of a file, and echo overwrites what a file of a
  block or more held.
* `get_num_db` rounds down (`helper.c:375`): the last partial block of a file is
  never freed.
* `idx2LBA` bounds every index by the number of folder nodes (`helper.c:268`, `:277`),
  and all larger ones share one sector, LBA 999, so that the 35th data block in use
  overwrites the 34th, the 35th file has the inode of the 34th and so its blocks, and the
  34th block and the 34th file overwrite one another. `BlocksOwnedCorrect` and
  `ReadsBackApart` are about the time until then; the run of `PSVContent` has one inode
  and one block past the bound and stops when both are in use.
* `used_fnode` and its likes are never decremented (`dec_used` has no caller).
* A descriptor keeps the inode number of a deleted file, and then reads and writes
  whatever file gets the inode next. A read that is preempted while its own file
  is deleted and the blocks are written to for another returns the other's bytes
  (`syscall_handler.c:31`).

Programs:

* `fs.c:110` looks in PSV first. `touch shel` makes syserr's test of a name that is not
  there fail, `touch .` changes what ls and grep list, `touch frame0.txt` gives fish an
  empty frame, and `touch rtc` takes the clock from it: fish then writes its rate into
  that file.
* A PSV frame of a block or more never ends for fish, nor a PSV file "." for grep: the
  read that reaches the end of the block returns a negative count (`PSV.c:731`), which
  takes the position back to 0 (`fish.c:103` waits for a 0). `ProgramsEnd` excepts just
  this (`Rewinds`).
* A read or write through a descriptor whose file another terminal has deleted goes on
  with an uninitialised inode: `read_inode` refuses one that is not in use
  (`helper.c:562`), `read_db` a block, and nobody looks. `FileDescriptors` has two things
  that can be on the stack, what the last read left there and an empty file
  (`Leftovers`), and no others; that such a write may free blocks of other files is
  left out.
* grep looks at the byte behind what it has read, which nobody has initialised
  (`src/mp3_Final/syscalls/ece391grep.c:29`): if that is a newline, the part of a line
  that one read ends with is searched as if it were whole.
* echo reads every piece of its file to the start of `text`, and without `>>` it
  scans past the end of its arguments: the model has both outcomes, the text
  printed and the error.

Windows:

* Backspace while another terminal runs erases on the screen but in the running
  terminal's buffer, and moves the viewed cursor by the running window's edges. So
  the cursor does not stop at the start of its own line: after a line that has
  wrapped it can leave the screen on the left, and what is typed there goes to the
  buffer only (the fourth case of `Misplaced`, found by the proof of `FrontCorrect`;
  it takes more steps than the run has).
* A full line wraps 8 pixels down, half a glyph, and Backspace goes 16 up.
* After a switch the running program prints at the new terminal's cursor until
  the next tick (`terminal.c:191`).
* Ctrl+L blackens the running terminal's window, on the screen only, and moves the
  viewed terminal's cursor into it.
* The pointer puts back pixels that may be older than the text (`VGA_image.c:390`).
* `GUI_init` draws the third window over the second, although their layers say the
  opposite,
  and windows hide icons that can still be clicked.
* After another terminal's output the page of vidmap is not present, and fish is
  killed by a page fault; after a switch it is the screen (`windows_vidmap`).

Text-mode tree:

* Ctrl+L leaves `buf_pos`: Backspace afterwards erases the bar that `clear` is to
  keep ("maintain the terminal bar", `T:lib.c:33`).
* Nobody clears the buffers of the second and third terminal; the model has `Junk`
  there. `terminal_init` resets the cursor without moving the hardware cursor.
* The page of vidmap is present from boot until the first switch or tick maps it.

## Not modelled, and why

* ATA registers and error loops (`harddisk.c`): what matters is how a drive reacts
  to a command in the middle of another, which is not in the repository.
* `i8259.c`, `idt.c`, `boot.S` and the entry stubs: straight-line set-up. Their effect,
  which handlers run with interrupts off, is the step structure of every module.
* Scan code tables and modifier keys: a table look-up in front of the modelled
  handler.
* Glyph bitmaps, colours, cache and privilege bits of page entries, VBE's and the
  mouse's set-up commands.
* `parse_args`, `split_path` and `get_filename_from_path` byte by byte: command lines
  and paths are given split.
* cd, pingpong, counter, and fish's animation after its frames are read.
* Loss of power between the writes of a file's content (modelled for folders).
* The reads, descriptors, files and clock of `mp3_terminal`, nearly line for line
  those of `mp3_Final`.
* Makefiles, scripts, binary images.

What would come next: proofs of the programs' properties; a loss of
power in `PSVContent`; the path functions against a reference definition.
