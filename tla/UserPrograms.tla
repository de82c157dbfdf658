---------------------------- MODULE UserPrograms ----------------------------
(***************************************************************************)
(* The programs of mp3_Final/syscalls and fish/fish.c, run by the shell of  *)
(* every terminal, on the calls of FileDescriptors.                         *)
(*                                                                          *)
(* A step of a program is one system call that other programs can observe,  *)
(* with the work on its own memory up to the next.  A read of a PSV file is *)
(* one step: what may happen inside it is in PSVContent.  Ticks put the     *)
(* steps of different terminals in any order.                               *)
(***************************************************************************)
EXTENDS FileDescriptors, SequencesExt

CONSTANTS Terminals,
          Commands,     \* what is typed in a terminal
          MaxCommands,  \* how many commands are typed in all
          BUFSIZE,      \* 1024, the buffer of cat and grep
          NameSize,     \* 32, what ls and grep read of a folder at a time
          Blank,        \* a space in a frame of fish
          LastRow, LastCol  \* bounds: where the counts of fish stop

VARIABLES fds,      \* pcb_fds of the program of a terminal
          cmd,      \* the command line, as parse_args has split it
          prog,     \* the program that runs
          pc, reg,  \* where it is, and its local variables
          out,      \* what it has written to its terminal
          verdict,  \* what the shell says of it
          hist,     \* history of the program, see below
          typed     \* commands so far

vars == <<psv, fds, cmd, prog, pc, reg, out, verdict, hist, typed>>

\* quiet: no other terminal has changed PSV since the program started; before:
\* what the inodes held then; names: the names that files of PSV have had
\* since, which a lookup finds before those of the boot image; newline: the
\* last byte of a buffer that grep had not initialised was a newline.
PSVNames == {iterms[s].name : s \in {s \in ISlot : iterms[s].used}}
History == [quiet |-> TRUE, before |-> text, names |-> PSVNames, newline |-> FALSE]

NoCommand == [name |-> "", arg |-> "", str |-> <<>>]
NoReg == [fd |-> -1]

Init ==
    /\ PSVInit
    /\ fds = [t \in Terminals |-> init_file_table]
    /\ cmd = [t \in Terminals |-> NoCommand]
    /\ prog = [t \in Terminals |-> ""]
    /\ pc = [t \in Terminals |-> "prompt"]
    /\ reg = [t \in Terminals |-> NoReg]
    /\ out = [t \in Terminals |-> <<>>]
    /\ verdict = [t \in Terminals |-> ""]
    /\ hist = [t \in Terminals |-> History]
    /\ typed = 0

----------------------------------------------------------------------------
(* Steps.                                                                   *)

At(t, p, l) == prog[t] = p /\ pc[t] = l
Goto(t, l) == pc' = [pc EXCEPT ![t] = l]
Table(t, tbl) == fds' = [fds EXCEPT ![t] = tbl]
Local(t, r) == reg' = [reg EXCEPT ![t] = r]
Say(t, s) == out' = [out EXCEPT ![t] = @ \o s]

\* A step that leaves PSV alone, and one that does not.
Looks == UNCHANGED <<psv, hist>>
Changes(t) ==
    hist' = [u \in Terminals |-> [hist[u] EXCEPT !.quiet = @ /\ u = t, !.names = @ \cup PSVNames']]
SameCommand == UNCHANGED <<cmd, prog, typed>>

Running(t, l, tbl, r, s) ==
    Goto(t, l) /\ Table(t, tbl) /\ Local(t, r) /\ Say(t, s)
    /\ SameCommand /\ UNCHANGED verdict

\* What the shell writes when execute returns.
Message(status) ==
    CASE status = 0   -> ""
      [] status = -1  -> "no such command"
      [] status = 256 -> "program terminated by exception"
      [] OTHER        -> "program terminated abnormally"

\* syscall_halt: the descriptors are closed, the shell goes on.
Exit(t, status, s) ==
    /\ Goto(t, "prompt") /\ Table(t, init_file_table) /\ Local(t, NoReg) /\ Say(t, s)
    /\ verdict' = [verdict EXCEPT ![t] = Message(status)]
    /\ SameCommand

getargs(t) == IF cmd[t].arg = "" /\ cmd[t].str = <<>> THEN -1 ELSE 0

----------------------------------------------------------------------------
(* The shell.                                                               *)

Programs == {p \in {Dentries[i].name : i \in DOMAIN Dentries} :
                \E i \in Matching(p) : /\ Dentries[i].type = "regular"
                                       /\ FileBytes(Dentries[i].nr_inode) = <<"ELF">>}

\* The inode that a program of the image is read from.
InodeOf == [p \in Programs |-> Dentries[Lowest(Matching(p))].nr_inode]

\* What execute may start for a name: the program in the boot image's inode
\* with the number that the lookup gave, of whatever type the entry is.  Of an
\* empty inode it reads no byte, and tests and runs what an earlier call left.
Started(n) ==
    LET d == read_dentry_by_name(n)
        magic == read_data(d.nr_inode, 0, 1)
    IN  IF d = NoDentry \/ magic.res = -1 THEN {}
        ELSE IF magic.res = 0 THEN Programs
        ELSE {p \in Programs : InodeOf[p] = d.nr_inode}

MayRefuse(n) ==
    LET d == read_dentry_by_name(n)
    IN  d # NoDentry => read_data(d.nr_inode, 0, 1).data # <<"ELF">>

Command(t, c) ==
    /\ pc[t] = "prompt" /\ typed < MaxCommands
    /\ typed' = typed + 1
    /\ cmd' = [cmd EXCEPT ![t] = c]
    /\ out' = [out EXCEPT ![t] = <<>>]
    /\ hist' = [hist EXCEPT ![t] = History]
    /\ UNCHANGED <<psv, fds, reg>>
    /\ \/ /\ MayRefuse(c.name)
          /\ prog' = [prog EXCEPT ![t] = ""]
          /\ verdict' = [verdict EXCEPT ![t] = Message(-1)]
          /\ pc' = pc
       \/ \E p \in Started(c.name) :
          /\ prog' = [prog EXCEPT ![t] = p]
          /\ verdict' = [verdict EXCEPT ![t] = ""]
          /\ Goto(t, "main")

----------------------------------------------------------------------------
(* cat.                                                                     *)

CatMain(t) ==
    /\ At(t, "cat", "main") /\ Looks
    /\ \E o \in {syscall_open(fds[t], cmd[t].arg)} :
           \/ getargs(t) = -1 /\ Exit(t, 3, <<"could not read arguments", NL>>)
           \/ getargs(t) = 0 /\ o.res = -1 /\ Exit(t, 2, <<"file not found", NL>>)
           \/ getargs(t) = 0 /\ o.res # -1
              /\ Running(t, "read", o.tbl, [fd |-> o.res], <<>>)

CatRead(t) ==
    /\ At(t, "cat", "read") /\ Looks
    /\ \E r \in {syscall_read(fds[t], reg[t].fd, BUFSIZE)} :
           \/ r.res = 0 /\ Exit(t, 0, <<NL>>)
           \/ r.res = -1 /\ Exit(t, 3, <<"file read failed", NL>>)
           \/ r.res \notin {0, -1}
              /\ Running(t, "write", r.tbl,
                         [fd |-> reg[t].fd, cnt |-> r.res, buf |-> r.data], <<>>)

CatWrite(t) ==
    /\ At(t, "cat", "write") /\ Looks
    /\ \/ WriteResult(fds[t], 1, reg[t].cnt) = -1 /\ Exit(t, 3, <<>>)
       \/ WriteResult(fds[t], 1, reg[t].cnt) # -1
          /\ Running(t, "read", fds[t], [fd |-> reg[t].fd], SubSeq(reg[t].buf, 1, reg[t].cnt))

----------------------------------------------------------------------------
(* ls and ls_PSV.  A file of PSV called "." is read like a folder, and may   *)
(* return a negative count, of which the write fails.                       *)

LsMain(t, p, folder) ==
    /\ At(t, p, "main") /\ Looks
    /\ \E o \in {syscall_open(fds[t], folder)} :
           \/ o.res = -1 /\ Exit(t, 2, <<"directory open failed", NL>>)
           \/ o.res # -1 /\ Running(t, "read", o.tbl, [fd |-> o.res], <<>>)

LsRead(t, p) ==
    /\ At(t, p, "read") /\ Looks
    /\ \E r \in {syscall_read(fds[t], reg[t].fd, NameSize)} :
           \/ r.res = 0 /\ Exit(t, 0, <<>>)
           \/ r.res = -1 /\ Exit(t, 3, <<"directory entry read failed", NL>>)
           \/ r.res < -1 /\ Exit(t, 3, <<>>)
           \/ r.res > 0 /\ Running(t, "read", r.tbl, reg[t], Append(SubSeq(r.data, 1, r.res), NL))

----------------------------------------------------------------------------
(* touch, rm, mkdir and rmdir.                                              *)

Modify(t, p, can, act) ==
    /\ At(t, p, "main")
    /\ \/ getargs(t) = -1 /\ Exit(t, 3, <<"could not read arguments", NL>>) /\ Looks
       \/ getargs(t) = 0 /\ ~can /\ Exit(t, 3, <<"could not", NL>>) /\ Looks
       \/ getargs(t) = 0 /\ can /\ Exit(t, 0, <<>>)
          /\ act /\ Changes(t)

touch(t) == Modify(t, "touch", CanCreateFile(cmd[t].arg), createfile(cmd[t].arg))
rm(t) == Modify(t, "rm", CanDeleteFile(cmd[t].arg), deletefile(cmd[t].arg))
mkdir(t) == Modify(t, "mkdir", CanCreateFolder(cmd[t].arg), createfolder(cmd[t].arg))
rmdir(t) == Modify(t, "rmdir", CanDeleteFolder(cmd[t].arg), deletefolder(cmd[t].arg))

----------------------------------------------------------------------------
(* echo: `echo text >> file', and `echo text', for which it looks for a     *)
(* space in what follows the arguments in the process control block.        *)

EchoMain(t) ==
    /\ At(t, "echo", "main") /\ Looks
    /\ \E o \in {syscall_open(fds[t], cmd[t].arg)} :
           \/ getargs(t) = -1 /\ Exit(t, 3, <<"could not read arguments", NL>>)
           \/ /\ getargs(t) = 0 /\ cmd[t].arg = ""
              /\ \/ Exit(t, 0, cmd[t].str)
                 \/ Exit(t, 3, <<"Error!", NL>>)
           \/ /\ cmd[t].arg # "" /\ o.res = -1
              /\ Exit(t, 3, <<"Error! cannot open file!", NL>>)
           \/ /\ cmd[t].arg # "" /\ o.res # -1
              /\ Running(t, "read", o.tbl, [fd |-> o.res, len |-> 0, buf |-> <<>>], <<>>)

\* Every read goes to the start of the buffer.
Overlay(buf, data) == data \o SubSeq(buf, Len(data) + 1, Len(buf))

EchoRead(t) ==
    /\ At(t, "echo", "read") /\ Looks
    /\ \E r \in {syscall_read(fds[t], reg[t].fd, BUFSIZE)} :
           \/ r.res = -1 /\ Exit(t, 3, <<"file read failed", NL>>)
           \/ r.res # -1
              /\ Running(t, IF r.res = 0 THEN "write" ELSE "read", r.tbl,
                         [reg[t] EXCEPT !.len = @ + r.res, !.buf = Overlay(@, r.data)], <<>>)

\* The text and its NUL at the place that len says, zeros in any gap.
NoNul(e, s) == [k \in 1 .. e.len + Len(s) |->                              \* mutant
                  CASE k > e.len -> s[k - e.len] [] k <= Len(e.buf) -> e.buf[k] [] OTHER -> NUL]
Appended(e, s) ==
    [k \in 1 .. e.len + Len(s) + 1 |->
        CASE k > e.len         -> Append(s, NUL)[k - e.len]
          [] k <= Len(e.buf)   -> e.buf[k]
          [] OTHER             -> NUL]

\* PSV_file_write shows the bytes on the screen, too.
EchoWrite(t) ==
    /\ At(t, "echo", "write")
    /\ LET s == Appended(reg[t], cmd[t].str)
           e == fds[t][reg[t].fd]
       IN  \/ /\ WriteResult(fds[t], reg[t].fd, Len(s)) = -1
              /\ Exit(t, 3, <<"Error! File write fail!", NL>>)
              /\ Looks
           \/ /\ WriteResult(fds[t], reg[t].fd, Len(s)) # -1
              /\ write_content(e.inode, s) /\ Changes(t)
              /\ Exit(t, 0, s)

----------------------------------------------------------------------------
(* grep.                                                                    *)

GrepMain(t) ==
    /\ At(t, "grep", "main") /\ Looks
    /\ \E o \in {syscall_open(fds[t], ".")} :
           \/ getargs(t) = -1 /\ Exit(t, 3, <<"could not read argument", NL>>)
           \/ getargs(t) = 0 /\ o.res = -1 /\ Exit(t, 2, <<"directory open failed", NL>>)
           \/ getargs(t) = 0 /\ o.res # -1 /\ Running(t, "dir", o.tbl, [dfd |-> o.res], <<>>)

\* fdputs and open take a string up to its first NUL.
CString(s) == SubSeq(Append(s, NUL), 1, Lowest({k \in 1 .. Len(s) + 1 : Append(s, NUL)[k] = NUL}) - 1)

\* The name in what it has read of ".": all of it after a negative count, which
\* puts the NUL below the buffer.  Only one byte of a file can be a name here.
NameIn(r) ==
    LET s == CString(IF r.res < 0 THEN r.data ELSE SubSeq(r.data, 1, r.res))
    IN  IF Len(s) = 1 THEN s[1] ELSE ""

GrepDir(t) ==
    /\ At(t, "grep", "dir") /\ Looks
    /\ \E r \in {syscall_read(fds[t], reg[t].dfd, NameSize)} :
           \/ r.res = 0 /\ Exit(t, 0, <<>>)
           \/ r.res = -1 /\ Exit(t, 3, <<"directory entry read failed", NL>>)
           \/ r.res \notin {0, -1} /\ r.data[1] = "."
              /\ Running(t, "dir", r.tbl, reg[t], <<>>)
           \/ r.res \notin {0, -1} /\ r.data[1] # "."
              /\ Running(t, "open", r.tbl, [dfd |-> reg[t].dfd, name |-> NameIn(r)], <<>>)

\* do_one_file: its buffer is not initialised; what matters is whether a byte
\* of it is a newline.
GrepOpen(t) ==
    /\ At(t, "grep", "open") /\ UNCHANGED psv
    /\ \E o \in {syscall_open(fds[t], reg[t].name)} :
           \/ o.res = -1 /\ Exit(t, 3, <<"file open failed", NL>>) /\ hist' = hist
           \/ /\ o.res # -1
              /\ \E g \in {NUL, NL} :
                 /\ hist' = [hist EXCEPT ![t].newline = @ \/ g = NL]
                 /\ Running(t, "read", o.tbl,
                            [dfd |-> reg[t].dfd, name |-> reg[t].name, fd |-> o.res,
                             last |-> 0, data |-> [k \in 1 .. BUFSIZE + 1 |-> g]], <<>>)

\* A line of the buffer that begins at `from' ends at its newline, or where the
\* bytes read end.  (`data' is a sequence: its byte k is data[k + 1].)
LineEnd(data, last, from) ==
    IF from >= last THEN from ELSE Lowest({k \in from .. last : k = last \/ data[k + 1] = NL})
Occurs(s, line) == \E k \in 0 .. Len(line) - Len(s) : SubSeq(line, k + 1, k + Len(s)) = s
Found(name, s, line) == IF Occurs(s, line) THEN <<name, ":">> \o CString(line) \o <<NL>> ELSE <<>>

\* The search of what is in the buffer, line by line: what it prints, and the
\* start of the line that it leaves for the next read, or -1 when none is left.
KeepsRest(data, e, cnt, from) == data[e + 1] # NL /\ cnt # 0 /\ from # 0
Scan(name, s, data, last, cnt) ==
    LET scan[from \in 0 .. BUFSIZE] ==
            LET e == LineEnd(data, last, from)
                line == Found(name, s, SubSeq(data, from + 1, e))
                more == scan[e + 1]
            IN  IF KeepsRest(data, e, cnt, from) THEN [lines |-> <<>>, rest |-> from]
                ELSE IF e + 1 >= last THEN [lines |-> line, rest |-> -1]
                ELSE [lines |-> line \o more.lines, rest |-> more.rest]
    IN  scan[0]

\* The buffer after it: every line ends in a NUL, and the rest, up to its first
\* NUL, has been copied to the front.
Marked(data, last) ==
    [k \in 1 .. Len(data) |->
        IF (k <= last /\ data[k] = NL) \/ (last <= 0 /\ k = 1)
           \/ (k = last + 1 /\ k > 1 /\ data[last] # NL)
        THEN NUL ELSE data[k]]
Moved(data, last, rest) ==
    LET m == Marked(data, last)
        n == Lowest({k \in rest + 1 .. Len(m) : m[k] = NUL})
    IN  IF rest = -1 THEN m
        ELSE SubSeq(m, rest + 1, n) \o SubSeq(m, n - rest + 1, Len(m))

GrepRead(t) ==
    /\ At(t, "grep", "read") /\ Looks
    /\ \E r \in {syscall_read(fds[t], reg[t].fd, BUFSIZE - reg[t].last)} :
       LET g == reg[t]
           last == g.last + r.res
       IN  \E data \in {SubSeq(g.data, 1, g.last) \o r.data
                          \o SubSeq(g.data, g.last + Len(r.data) + 1, Len(g.data))} :
           \E scan \in {Scan(g.name, cmd[t].str, data, last, r.res)} :
           \/ r.res = -1 /\ Exit(t, 3, <<"file read failed", NL>>)
           \/ r.res # -1
              /\ Running(t, IF r.res = 0 THEN "close" ELSE "read", r.tbl,
                         [g EXCEPT !.last = IF scan.rest = -1 THEN 0 ELSE last - scan.rest,
                                   !.data = Moved(data, last, scan.rest)],
                         scan.lines)

GrepClose(t) ==
    /\ At(t, "grep", "close") /\ Looks
    /\ \E c \in {syscall_close(fds[t], reg[t].fd)} :
           \/ c.res = -1 /\ Exit(t, 3, <<"file close failed", NL>>)
           \/ c.res # -1 /\ Running(t, "dir", c.tbl, [dfd |-> reg[t].dfd], <<>>)

----------------------------------------------------------------------------
(* syserr: the calls of each test, and how many of the counted ones fail    *)
(* when the system is right.                                                *)

Call(op, fd) == [op |-> op, fd |-> fd, name |-> ""]
Open(n) == [op |-> "open", fd |-> -1, name |-> n]
OnFds(op, first, last) == [k \in 1 .. last - first + 1 |-> Call(op, first + k - 1)]
NEG_FD == -1073741823
BIG_FD == 1073741823

err_neg_fd == [calls |-> << Call("read", NEG_FD), Call("write", NEG_FD), Call("close", NEG_FD) >>,
               fails |-> 3]
err_big_fd == [calls |-> << Call("read", BIG_FD), Call("write", BIG_FD), Call("close", BIG_FD) >>,
               fails |-> 3]
\* Seven times ".", of which the last fails; then everything is closed.
err_open_lots == [calls |-> [k \in 1 .. 7 |-> Open(".")] \o OnFds("close", 2, 7), fails |-> 1]
err_open == [calls |-> << Open("helloo"), Open("shel"), Open("") >>, fails |-> 3]
err_unopened == [calls |-> OnFds("close", 0, 7) \o OnFds("read", 2, 7) \o OnFds("write", 2, 7),
                 fails |-> 20]
err_vidmap == [calls |-> << Call("vidmap", 0), Call("vidmap", 4194304) >>, fails |-> 2]
err_stdin_out == [calls |-> << Call("write", 0), Call("read", 1) >>, fails |-> 2]
err_syscall_num == [calls |-> << Call("number", 1073741823), Call("number", -1073741823),
                                 Call("number", 0) >>, fails |-> 3]

Tests == << err_neg_fd, err_big_fd, err_open_lots, err_open,
            err_unopened, err_vidmap, err_stdin_out, err_syscall_num >>

USER_START == 134217728
USER_END == 138412032
MAX_SYSCALL_IDX == 15

\* What a call of a test returns.
Result(tbl, c) ==
    CASE c.op = "read"   -> [res |-> syscall_read(tbl, c.fd, 31).res,
                             tbl |-> syscall_read(tbl, c.fd, 31).tbl]
      [] c.op = "write"  -> [res |-> WriteResult(tbl, c.fd, 31), tbl |-> tbl]
      [] c.op = "close"  -> syscall_close(tbl, c.fd)
      [] c.op = "open"   -> syscall_open(tbl, c.name)
      [] c.op = "vidmap" -> [res |-> IF CanVidmap(c.fd, USER_START, USER_END) THEN 0 ELSE -1,
                             tbl |-> tbl]
      [] c.op = "number" -> [res |-> IF c.fd \in 1 .. MAX_SYSCALL_IDX THEN 0 ELSE -1,
                             tbl |-> tbl]

\* A number from the keyboard: one test, or 0 for all of them.
SyserrMain(t) ==
    /\ At(t, "syserr", "main") /\ Looks
    /\ \E first \in 1 .. Len(Tests) : \E last \in {first, Len(Tests)} :
          /\ last # first => first = 1
          /\ Running(t, "test", fds[t],
                     [test |-> first, until |-> last, call |-> 1, fails |-> 0, fail |-> 0], <<>>)

SameTest(y, fail) == [y EXCEPT !.call = 1, !.fails = 0, !.fail = fail]      \* mutant
NextTest(y, fail) == [y EXCEPT !.test = @ + 1, !.call = 1, !.fails = 0, !.fail = fail]

SyserrCall(t) ==
    /\ At(t, "syserr", "test") /\ Looks
    /\ LET y == reg[t]
           test == Tests[y.test]
           r == Result(fds[t], test.calls[y.call])
           closing == test = err_open_lots /\ test.calls[y.call].op = "close"
           fails == y.fails + IF r.res = -1 /\ ~closing THEN 1 ELSE 0
           fail == y.fail + IF fails = test.fails THEN 0 ELSE 2
       IN  \/ y.call < Len(test.calls)
              /\ Running(t, "test", r.tbl, [y EXCEPT !.call = @ + 1, !.fails = fails], <<>>)
           \/ y.call = Len(test.calls) /\ y.test < y.until
              /\ Running(t, "test", r.tbl, NextTest(y, fail), <<>>)
           \/ y.call = Len(test.calls) /\ y.test = y.until /\ Exit(t, fail, <<>>)

----------------------------------------------------------------------------
(* fish: add_frames reads its two frames byte by byte, side by side; `cells' *)
(* is what it passes to mp1_ioctl(RTC_ADD), up to a last row and column:     *)
(* of a frame that never ends it adds cells for ever.                       *)

FishMain(t) ==
    /\ At(t, "fish", "main") /\ Looks
    /\ \E clock \in {syscall_open(fds[t], "rtc")} :
       \E o0 \in {syscall_open(clock.tbl, "frame0.txt")} :
       \E o1 \in {syscall_open(o0.tbl, "frame1.txt")} :
           \/ (o0.res < 0 \/ o1.res < 0) /\ Exit(t, 256, <<>>)
           \/ o0.res >= 0 /\ o1.res >= 0
              /\ Running(t, "column", o1.tbl,
                         [rtc |-> clock.res, fd0 |-> o0.res, fd1 |-> o1.res, c0 |-> "0", c1 |-> "0",
                          eof0 |-> FALSE, eof1 |-> FALSE, row |-> 0, col |-> 0, cells |-> {}], <<>>)

\* One frame's byte for the column, once its line has not ended yet.
NextByte(tbl, fd, c, eof) ==
    LET r == syscall_read(tbl, fd, 1)
    IN  IF c = NL THEN [c |-> NL, eof |-> eof, tbl |-> tbl]
        ELSE IF r.res = 0 THEN [c |-> NL, eof |-> TRUE, tbl |-> r.tbl]
        ELSE [c |-> IF r.data = <<>> THEN c ELSE r.data[1], eof |-> eof, tbl |-> r.tbl]

Shown(c) == IF c = NL THEN Blank ELSE c

FishColumn(t) ==
    /\ At(t, "fish", "column") /\ Looks
    /\ \E f \in {reg[t]} :
       \E a \in {NextByte(fds[t], f.fd0, f.c0, f.eof0)} :
       \E b \in {NextByte(a.tbl, f.fd1, f.c1, f.eof1)} :
       LET new == {<<f.row, f.col, Shown(a.c), Shown(b.c)>>}
           seen == f.row <= LastRow /\ f.col <= LastCol
           next == [f EXCEPT !.c0 = a.c, !.c1 = b.c, !.eof0 = a.eof, !.eof1 = b.eof]
       IN  \/ (a.c = NL /\ b.c = NL) /\ Running(t, "row", b.tbl, next, <<>>)
           \/ ~(a.c = NL /\ b.c = NL)
              /\ Running(t, "column", b.tbl,
                         [next EXCEPT !.col = Lesser(@, LastCol) + 1,
                                      !.cells = IF {a.c, b.c} \subseteq {Blank, NL} \/ ~seen THEN @
                                                ELSE @ \cup new], <<>>)

\* The end of a row; a frame that has ended is closed, once more at every row.
FishRow(t) ==
    /\ At(t, "fish", "row") /\ Looks
    /\ LET f == reg[t]
           first == IF f.eof0 THEN syscall_close(fds[t], f.fd0).tbl ELSE fds[t]
           tbl == IF f.eof1 THEN syscall_close(first, f.fd1).tbl ELSE first
       IN  Running(t, IF f.eof0 /\ f.eof1 THEN "animate" ELSE "column", tbl,
                   [f EXCEPT !.c0 = IF f.eof0 THEN NL ELSE "0",
                             !.c1 = IF f.eof1 THEN NL ELSE "0",
                             !.row = Lesser(@, LastRow) + 1, !.col = 0], <<>>)

\* It sets the clock to 32 ticks a second, waits for ticks and animates the
\* frames.  A file of PSV called "rtc" gets the four bytes of 32 instead.
Rate32 == <<Blank, NUL, NUL, NUL>>
FishEnds(t) ==
    /\ At(t, "fish", "animate")
    /\ LET clock == fds[t][reg[t].rtc]
       IN  \/ clock.op_ptr = "rtc" /\ Exit(t, 0, <<>>) /\ Looks
           \/ /\ clock.op_ptr = "PSV_file"
              /\ write_content(clock.inode, Rate32) /\ Changes(t)
              /\ Exit(t, 0, Rate32)

----------------------------------------------------------------------------
(* The programs without a loop.                                             *)

testprint(t) == At(t, "testprint", "main") /\ Looks
                /\ Exit(t, 0, <<"Hello, if this ran, the program was correct. Yay!", NL>>)

hello(t) == At(t, "hello", "main") /\ Looks
            /\ \E name \in {<<NL>>, <<"a", NL>>} :
                  Exit(t, 0, <<"Hi, what's your name? ", "Hello, ">> \o name)

\* Its handlers are refused, so the write to address 0 ends it.
sigtest(t) ==
    /\ At(t, "sigtest", "main") /\ Looks
    /\ \/ getargs(t) = -1 /\ Exit(t, 3, <<"could not read argument", NL>>)
       \/ getargs(t) = 0 /\ Exit(t, 256, <<"Hi, what's your name? ">>)

----------------------------------------------------------------------------

Program(t) ==
    \/ CatMain(t) \/ CatRead(t) \/ CatWrite(t)
    \/ LsMain(t, "ls", ".") \/ LsRead(t, "ls")
    \/ LsMain(t, "ls_PSV", CurrentFolder) \/ LsRead(t, "ls_PSV")
    \/ touch(t) \/ rm(t) \/ mkdir(t) \/ rmdir(t)
    \/ EchoMain(t) \/ EchoRead(t) \/ EchoWrite(t)
    \/ GrepMain(t) \/ GrepDir(t) \/ GrepOpen(t) \/ GrepRead(t) \/ GrepClose(t)
    \/ SyserrMain(t) \/ SyserrCall(t)
    \/ FishMain(t) \/ FishColumn(t) \/ FishRow(t) \/ FishEnds(t)
    \/ testprint(t) \/ hello(t) \/ sigtest(t)

Next == \E t \in Terminals : Program(t) \/ \E c \in Commands[t] : Command(t, c)

Spec == Init /\ [][Next]_vars

\* Every terminal has its turn (ProcessControl), so a program goes on: weak
\* fairness of Program(t), which is enabled when the terminal is not at its
\* prompt, and changes one of the three.
Moves(t) == pc'[t] # pc[t] \/ fds'[t] # fds[t] \/ reg'[t] # reg[t]
FairSpec ==
    Spec /\ \A t \in Terminals : <>[](pc[t] # "prompt") => []<><<Moves(t)>>_vars

----------------------------------------------------------------------------
(* Properties.                                                              *)

Done(t, p, status) == pc[t] = "prompt" /\ prog[t] = p /\ verdict[t] = Message(status)
\* The lines of a text, without their newlines.
Lines(b) ==
    LET ends == SelectSeq([k \in 1 .. Len(b) + 1 |-> k], LAMBDA k : k = Len(b) + 1 \/ b[k] = NL)
    IN  [i \in DOMAIN ends |-> SubSeq(b, IF i = 1 THEN 1 ELSE ends[i - 1] + 1, ends[i] - 1)]

\* The descriptor tables: 0 and 1 are the terminal's, nothing else is open at
\* the prompt, and no position has passed the end of what it is a position in.
PosOK(e) ==
    CASE e.op_ptr = "regular"    -> e.file_pos \in 0 .. Inodes[e.inode + 1].length
      [] e.op_ptr = "dir"        -> e.file_pos \in 0 .. Len(Dentries)
      [] e.op_ptr = "PSV_folder" -> e.file_pos \in 0 .. FTERM_NUM_LIM + ITERM_NUM_LIM
      [] e.op_ptr = "PSV_file"   -> e.inode \in InodeIdx /\ e.file_pos \in Int
      [] OTHER                   -> e.file_pos = 0

TypeOK ==
    \A t \in Terminals :
        /\ DOMAIN fds[t] = FdIdx
        /\ fds[t][0] = Std("stdin") /\ fds[t][1] = Std("stdout")
        /\ \A fd \in FdIdx : fds[t][fd].flags = "IN_USE" => PosOK(fds[t][fd])
        /\ pc[t] = "prompt" => \A fd \in 2 .. 7 : fds[t][fd] = Free

\* The bytes that a name leads to: a file of PSV comes before the image's.
Bytes(n) ==
    LET d == read_dentry_by_name(n)
    IN  CASE d.type = "PSV_file" -> text[d.nr_inode]
          [] d.type = "regular"  -> FileBytes(d.nr_inode)
          [] OTHER               -> <<>>

\* It has led to the same bytes since the program in t started: no file of PSV
\* was so called at any moment, or one is that no other terminal has changed
\* and that is smaller than a block.
Steady(t, n) == n \in hist[t].names => hist[t].quiet /\ Named(n) # {} /\ Len(Bytes(n)) < SECTOR_SIZE

\* cat prints its file, of the boot image or of PSV, and a newline, when the
\* name has been steady.
CatPrintsFile ==
    \A t \in Terminals :
        /\ Done(t, "cat", 0) /\ Steady(t, cmd[t].arg)
        /\ read_dentry_by_name(cmd[t].arg).type \in {"regular", "PSV_file"}
        => out[t] = Append(Bytes(cmd[t].arg), NL)

\* ls prints every name of the boot image, unless a file of PSV is called ".";
\* ls_PSV prints every folder and file of PSV that is in use, once, unless
\* another terminal changes them meanwhile.
UsedNames(terms, slots) ==
    FlattenSeq([k \in 1 .. Cardinality(slots) |->
              IF terms[k - 1].used THEN <<terms[k - 1].name, NL>> ELSE <<>>])
ImageNames == FlattenSeq([i \in DOMAIN Dentries |-> <<Dentries[i].name, NL>>])
LsListsAll ==
    \A t \in Terminals :
        /\ Done(t, "ls", 0) /\ "." \notin hist[t].names => out[t] = ImageNames
        /\ Done(t, "ls_PSV", 0) /\ hist[t].quiet =>
              out[t] = UsedNames(fterms, FSlot) \o UsedNames(iterms, ISlot)

\* grep looks up every name of the boot image and prints the lines that have
\* the string, when the names are steady and no file of PSV is called ".", all
\* lines, with their newline, fit its buffer, no line has a NUL before its end,
\* and the byte after the buffer was no newline when a file was opened.
Searched == {i \in DOMAIN Dentries : Dentries[i].name # "."}
Hits(n, s) ==
    LET lines == Lines(Bytes(n))
    IN  FlattenSeq([k \in DOMAIN lines |-> Found(n, s, lines[k])])
Clean(n) == \A k \in 1 .. Len(Bytes(n)) - 1 : Bytes(n)[k] # NUL
GrepFindsLines ==
    \A t \in Terminals :
        /\ Done(t, "grep", 0) /\ ~hist[t].newline
        /\ "." \notin hist[t].names /\ \A i \in Searched : Steady(t, Dentries[i].name)
        /\ \A i \in Searched : Clean(Dentries[i].name)
        => out[t] = FlattenSeq([i \in DOMAIN Dentries |->
                        IF i \in Searched THEN Hits(Dentries[i].name, cmd[t].str) ELSE <<>>])

\* cat, ls and grep print what they are asked for.
ReadersPrint == CatPrintsFile /\ LsListsAll /\ GrepFindsLines

\* echo leaves the file with what it had, and the text and its NUL after it,
\* when nobody else changes PSV meanwhile and it all fits in one block.
EchoAppends ==
    \A t \in Terminals :
        LET d == read_dentry_by_name(cmd[t].arg)
            s == hist[t].before[d.nr_inode] \o Append(cmd[t].str, NUL)
        IN  Done(t, "echo", 0) /\ hist[t].quiet /\ d.type = "PSV_file" /\ Len(s) <= SECTOR_SIZE
               => text[d.nr_inode] = s

\* syserr: every test of the calls passes, whatever the other terminals do, but
\* for files of PSV with the names that err_open expects to find nowhere.
Absent == {err_open.calls[k].name : k \in DOMAIN err_open.calls}
SyserrPasses ==
    \A t \in Terminals :
        pc[t] = "prompt" /\ prog[t] = "syserr" /\ hist[t].names \cap Absent = {}
        => Done(t, "syserr", 0)

\* fish shows both frames, those of PSV if it has steady ones: the byte of
\* every row and column, side by side.
FrameAt(lines, row, col) ==
    IF row + 1 \in DOMAIN lines /\ col + 1 \in DOMAIN lines[row + 1]
    THEN lines[row + 1][col + 1] ELSE Blank
FishShowsFrames ==
    \A t \in Terminals :
        At(t, "fish", "animate") /\ Steady(t, "frame0.txt") /\ Steady(t, "frame1.txt") =>
        LET f0 == Lines(Bytes("frame0.txt"))
            f1 == Lines(Bytes("frame1.txt"))
            wide == {Len(f0[k]) : k \in DOMAIN f0} \cup {Len(f1[k]) : k \in DOMAIN f1}
            row == 0 .. Len(f0 \o f1)
            col == 0 .. CHOOSE w \in wide : \A v \in wide : v <= w
        IN  reg[t].cells = {<<r, c, FrameAt(f0, r, c), FrameAt(f1, r, c)>> : r \in row, c \in col}
                           \ {<<r, c, Blank, Blank>> : r \in row, c \in col}

\* Every program that starts comes to its end, but for fish while a frame that
\* it reads, and grep while the "." that it reads, is again and again a file of
\* PSV of a block or more: the read that reaches the end of the block returns a
\* negative number and takes the position back to 0.
SmallReads(t) ==
    IF prog[t] = "fish" /\ pc[t] \in {"column", "row"} THEN {reg[t].fd0, reg[t].fd1}
    ELSE IF At(t, "grep", "dir") THEN {reg[t].dfd} ELSE {}
Rewinds(t) ==
    \E fd \in SmallReads(t) :
        fds[t][fd].op_ptr = "PSV_file" /\ Len(text[fds[t][fd].inode]) >= SECTOR_SIZE
ProgramsEnd == \A t \in Terminals : []<>Rewinds(t) \/ (pc[t] # "prompt" ~> pc[t] = "prompt")
=============================================================================
