--------------------------- MODULE FileDescriptors ---------------------------
(***************************************************************************)
(* The file system calls of mp3_Final: the descriptor table of a process    *)
(* (syscall_handler.c), the boot image it can read (fs.c), and the read and *)
(* write operations of PSV that a descriptor leads to (PSV_fs_lite/PSV.c).  *)
(*                                                                          *)
(* Every call is an operator on the table of the calling process.  A call   *)
(* that returns something is a record: `res' is its return value, `tbl' the *)
(* table after it and `data' what it has put in the caller's buffer.        *)
(*                                                                          *)
(* A byte is a string: a letter, the newline NL, or NUL.  So is a name,     *)
(* which stands for the 32 bytes that strncmp compares, and is one byte of  *)
(* what a program reads from a folder.  PSV is its root folder: PSVFolders  *)
(* has the others, and the sectors below; PSVContent has the data blocks,   *)
(* of which there are enough here.                                          *)
(***************************************************************************)
EXTENDS Integers, Sequences, FiniteSets

CONSTANTS Dentries,       \* boot_block.files
          Inodes,         \* the boot image's inodes
          DataBlocks,     \* its data blocks; all three are sequences
          MAX_FILES,      \* inodes of the boot image
          BLOCK_SIZE,     \* bytes of a block of the boot image
          SECTOR_SIZE,    \* bytes of a data block of PSV
          Kept,           \* what PSV's root may hold at boot: sequences of files
          FTERM_NUM_LIM, ITERM_NUM_LIM, INODE_NUM_LIM

ASSUME SizesAssumption ==
    /\ BLOCK_SIZE \in Nat \ {0} /\ SECTOR_SIZE \in Nat \ {0}
    /\ FTERM_NUM_LIM \in Nat /\ FTERM_NUM_LIM >= 2
    /\ ITERM_NUM_LIM \in Nat /\ INODE_NUM_LIM \in Nat

VARIABLES fterms,  \* the subfolders of PSV's root, by slot
          iterms,  \* its files, by slot
          text     \* what the inodes of PSV hold

psv == <<fterms, iterms, text>>

NL == "\n"
NUL == "NUL"
Lesser(m, n) == IF m <= n THEN m ELSE n

----------------------------------------------------------------------------
(* The boot image.                                                          *)

NoDentry == [name |-> "", type |-> "none", nr_inode |-> -1]

\* The byte at a position of a file.
ByteAt(node, k) ==
    DataBlocks[node.inodes[(k \div BLOCK_SIZE) + 1] + 1][(k % BLOCK_SIZE) + 1]

NoClamp(node, offset, n) == offset + n                                      \* mutant
ReadEnd(node, offset, n) == Lesser(node.length, offset + n)

\* Every block from the first to the one of the end is checked, the block
\* after the file's last when the file fills it.
BadBlock(node, offset, n) ==
    \E j \in offset \div BLOCK_SIZE .. ReadEnd(node, offset, n) \div BLOCK_SIZE :
        node.inodes[j + 1] + 1 \notin DOMAIN DataBlocks

read_data(i, offset, n) ==
    LET node == Inodes[i + 1]
        e == ReadEnd(node, offset, n)
    IN  IF i >= MAX_FILES THEN [res |-> -1, data |-> <<>>]
        ELSE IF node.length <= offset THEN [res |-> 0, data |-> <<>>]
        ELSE IF BadBlock(node, offset, n) THEN [res |-> -1, data |-> <<>>]
        ELSE [res |-> e - offset,
              data |-> [k \in 1 .. e - offset |-> ByteAt(node, offset + k - 1)]]

\* The whole file, as a reader of the image would have it.
FileBytes(i) ==
    LET node == Inodes[i + 1]
    IN  [k \in 1 .. node.length |-> ByteAt(node, k - 1)]

\* dir_read: the entry at the position, and how many bytes its name has.
dir_read(pos) ==
    IF pos >= Len(Dentries) THEN [res |-> 0, data |-> <<>>]
    ELSE [res |-> 1, data |-> <<Dentries[pos + 1].name>>]

----------------------------------------------------------------------------
(* PSV.                                                                     *)

FSlot == 0 .. FTERM_NUM_LIM - 1
Sub == 2 .. FTERM_NUM_LIM - 1
ISlot == 0 .. ITERM_NUM_LIM - 1
InodeIdx == 0 .. INODE_NUM_LIM - 1
NoTerm == [used |-> FALSE, name |-> "", inode |-> 0]

\* PSV_setup: the root lists itself.  PSV_check keeps the files of the last boot.
PSVInit ==
    \E files \in Kept :
        /\ fterms = [s \in FSlot |-> IF s = 0 THEN [used |-> TRUE, name |-> ".", inode |-> 0] ELSE NoTerm]
        /\ iterms = [s \in ISlot |-> IF s < Len(files)
                                     THEN [used |-> TRUE, name |-> files[s + 1].name, inode |-> s]
                                     ELSE NoTerm]
        /\ text = [i \in InodeIdx |-> IF i < Len(files) THEN files[i + 1].bytes ELSE <<>>]

UsedInodes == {iterms[s].inode : s \in {s \in ISlot : iterms[s].used}}

\* The slots of a name; the last is the one a lookup returns.
Named(n) == {s \in ISlot : iterms[s].used /\ iterms[s].name = n}
LastNamed(n) == CHOOSE s \in Named(n) : \A r \in Named(n) : r <= s

Lowest(S) == CHOOSE s \in S : \A r \in S : s <= r
FreeSlots(terms) == {s \in DOMAIN terms : ~terms[s].used}

\* PSV_create_file and PSV_create_folder refuse a name that any slot holds, the
\* slot of a deleted term too.
CanCreateFile(n) ==
    /\ FreeSlots(iterms) # {} /\ InodeIdx \ UsedInodes # {}
    /\ \A s \in ISlot : iterms[s].name # n
createfile(n) ==
    LET i == Lowest(InodeIdx \ UsedInodes)
    IN  /\ iterms' = [iterms EXCEPT ![Lowest(FreeSlots(iterms))] =
                        [used |-> TRUE, name |-> n, inode |-> i]]
        /\ text' = [text EXCEPT ![i] = <<>>]
        /\ fterms' = fterms

\* What a descriptor still open on a deleted file finds.  read_inode refuses an
\* inode that is not in use and read_db a freed block, and both leave their
\* caller's variable as it was on the stack: with what the last read had there, or
\* with nothing.  The zeros that delete_db writes are not seen.
Leftovers(s) == {<<>>, s}
CanDeleteFile(n) == Named(n) # {}
deletefile(n) ==
    LET i == iterms[LastNamed(n)].inode
    IN  /\ iterms' = [iterms EXCEPT ![LastNamed(n)].used = FALSE]
        /\ \E s \in Leftovers(text[i]) : text' = [text EXCEPT ![i] = s]
        /\ fterms' = fterms

SubFree == {s \in Sub : ~fterms[s].used}
CanCreateFolder(n) == SubFree # {} /\ \A s \in Sub : fterms[s].name # n
createfolder(n) ==
    /\ fterms' = [fterms EXCEPT ![Lowest(SubFree)] = [used |-> TRUE, name |-> n, inode |-> 0]]
    /\ UNCHANGED <<iterms, text>>

Folders(n) == {s \in Sub : fterms[s].used /\ fterms[s].name = n}
CanDeleteFolder(n) == Folders(n) # {}
deletefolder(n) ==
    /\ fterms' = [s \in FSlot |-> IF s \in Folders(n) THEN [fterms[s] EXCEPT !.used = FALSE]
                                  ELSE fterms[s]]
    /\ UNCHANGED <<iterms, text>>

\* PSV_folder_read: the next used slot, the folders' slots first; the position
\* moves past every slot it has looked at.
Slot(k) == IF k < FTERM_NUM_LIM THEN fterms[k] ELSE iterms[k - FTERM_NUM_LIM]
Skips(pos) == pos + 2                                                       \* mutant
NextPos(pos) == pos + 1
PSV_folder_read(pos) ==
    LET left == {k \in pos .. FTERM_NUM_LIM + ITERM_NUM_LIM - 1 : Slot(k).used}
    IN  IF left = {} THEN [res |-> 0, data |-> <<>>, pos |-> FTERM_NUM_LIM + ITERM_NUM_LIM]
        ELSE [res |-> 1, data |-> <<Slot(Lowest(left)).name>>, pos |-> NextPos(Lowest(left))]

\* What read_content returns: where the end is in its block, minus where the
\* start is in the file.
Returned(e, offset) == (e % SECTOR_SIZE) - offset
read_content(i, offset, n) ==
    LET e == Lesser(Len(text[i]), offset + n)
    IN  IF offset < 0 \/ n <= 0 \/ i >= INODE_NUM_LIM THEN [res |-> -1, data |-> <<>>]
        ELSE IF Len(text[i]) <= offset THEN [res |-> 0, data |-> <<>>]
        ELSE [res |-> Returned(e, offset), data |-> SubSeq(text[i], offset + 1, e)]

\* What write_content leaves on the disk: every block gets the start of the
\* text, the last one only as much as there is left.
Written(s) == [k \in 1 .. Len(s) |-> s[((k - 1) % SECTOR_SIZE) + 1]]
write_content(i, s) ==
    /\ text' = [text EXCEPT ![i] = Written(s)]
    /\ UNCHANGED <<fterms, iterms>>

----------------------------------------------------------------------------
(* Descriptors.                                                             *)

FdIdx == 0 .. 7
Free == [op_ptr |-> "none", inode |-> -1, file_pos |-> 0, flags |-> "FREE"]
Std(ops) == [op_ptr |-> ops, inode |-> -1, file_pos |-> 0, flags |-> "IN_USE"]

init_file_table == [fd \in FdIdx |-> CASE fd = 0 -> Std("stdin") [] fd = 1 -> Std("stdout")
                                       [] OTHER -> Free]

\* The name that ls_PSV opens; no path and no file of the image is so called.
CurrentFolder == "PSV_current_folder:.//"

Matching(n) == {i \in DOMAIN Dentries : Dentries[i].name = n}

\* PSV comes before the boot image.
read_dentry_by_name(n) ==
    IF n = CurrentFolder THEN [name |-> "", type |-> "PSV_folder", nr_inode |-> 0]
    ELSE IF Named(n) # {}
         THEN [name |-> n, type |-> "PSV_file", nr_inode |-> iterms[LastNamed(n)].inode]
    ELSE IF Matching(n) # {} THEN Dentries[Lowest(Matching(n))]
    ELSE NoDentry

AnyFree(tbl) == {fd \in FdIdx : fd >= 2}                                    \* mutant
FreeFds(tbl) == {fd \in 2 .. 7 : tbl[fd].flags = "FREE"}

syscall_open(tbl, n) ==
    LET d == read_dentry_by_name(n)
        fd == Lowest(FreeFds(tbl))
    IN  IF d = NoDentry \/ FreeFds(tbl) = {} THEN [res |-> -1, tbl |-> tbl]
        ELSE [res |-> fd,
              tbl |-> [tbl EXCEPT ![fd] = [op_ptr |-> d.type, inode |-> d.nr_inode,
                                           file_pos |-> 0, flags |-> "IN_USE"]]]

IsOpen(tbl, fd) == fd \in FdIdx /\ tbl[fd].flags = "IN_USE"

CanClose(tbl, fd) == fd \in 2 .. 7 /\ IsOpen(tbl, fd)
syscall_close(tbl, fd) ==
    IF CanClose(tbl, fd) THEN [res |-> 0, tbl |-> [tbl EXCEPT ![fd] = Free]]
    ELSE [res |-> -1, tbl |-> tbl]

\* rtc_read returns 0 after a tick (RealTimeClock); a line from the keyboard
\* is read by `ReadLine' of the programs, not here.
ReadOp(e, n) ==
    CASE e.op_ptr = "regular"    -> read_data(e.inode, e.file_pos, n)
      [] e.op_ptr = "dir"        -> dir_read(e.file_pos)
      [] e.op_ptr = "PSV_file"   -> read_content(e.inode, e.file_pos, n)
      [] e.op_ptr = "PSV_folder" -> PSV_folder_read(e.file_pos)
      [] OTHER                   -> [res |-> 0, data |-> <<>>]

\* Where the operation leaves the position of the descriptor.
PosAfter(e, r) ==
    CASE e.op_ptr = "PSV_folder" -> r.pos
      [] r.res = -1              -> e.file_pos
      [] OTHER                   -> e.file_pos + r.res

CanRead(tbl, fd) == fd # 1 /\ IsOpen(tbl, fd)
syscall_read(tbl, fd, n) ==
    LET r == ReadOp(tbl[fd], n)
    IN  IF CanRead(tbl, fd)
        THEN [res |-> r.res, data |-> r.data,
              tbl |-> [tbl EXCEPT ![fd].file_pos = PosAfter(tbl[fd], r)]]
        ELSE [res |-> -1, data |-> <<>>, tbl |-> tbl]

\* What syscall_write returns for `n' bytes; the bytes of a terminal go to its
\* window, those of a PSV file through write_content.  The clock takes 4 bytes
\* that hold a frequency.
CanWrite(tbl, fd) == fd # 0 /\ IsOpen(tbl, fd)
WriteResult(tbl, fd, n) ==
    IF ~CanWrite(tbl, fd) THEN -1
    ELSE CASE tbl[fd].op_ptr = "stdout"   -> IF n <= 0 THEN -1 ELSE n
           [] tbl[fd].op_ptr = "PSV_file" -> n
           [] tbl[fd].op_ptr = "rtc"      -> IF n = 4 THEN 0 ELSE -1
           [] OTHER                       -> -1

\* syscall_vidmap: no NULL, and four bytes of the program's page.
CanVidmap(addr, start, end) == addr # 0 /\ addr >= start /\ addr <= end - 4
=============================================================================
