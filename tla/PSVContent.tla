----------------------------- MODULE PSVContent -----------------------------
(***************************************************************************)
(* What is in the files of PSV: the inodes, the data blocks and their       *)
(* bitmap, write_content and read_content (PSV_fs_lite/PSV.c), and the data *)
(* side of delete_file.                                                     *)
(*                                                                          *)
(* Writing, creating and deleting run with interrupts off and are one step  *)
(* each.  Reading is not: syscall_read enables interrupts first, so a tick  *)
(* can put another process between any two sectors that read_content reads. *)
(* One reader is followed sector by sector, and every other process may     *)
(* write, create and delete between its steps.                              *)
(*                                                                          *)
(* A byte is the place it was written for: byte `pos' of the text `ver' of  *)
(* the file `file'.                                                         *)
(*                                                                          *)
(* idx2LBA gives every index past FNODE_NUM_LIM the same sector, whether it *)
(* is an inode's or a block's.  Two inodes there are one inode, two blocks  *)
(* one block.  An inode and a block there destroy one another, and a length *)
(* that write_content complains about and does not refuse takes it past     *)
(* data_blocks: the model goes no further than such a state and says        *)
(* nothing about it (Followed).                                             *)
(***************************************************************************)
EXTENDS Integers, FiniteSets, Sequences

CONSTANTS FNODE_NUM_LIM,    \* the bound idx2LBA puts on every index
          DB_NUM_LIM,       \* data blocks
          FILE_BLKSIZE_LIM, \* data blocks of one file
          SECTOR_SIZE,      \* bytes of a block
          Files,            \* inodes
          Texts,            \* the texts a program may write
          Lengths,          \* the lengths it may ask write_content to write
          Reads             \* the offset and length of the reads it may do

ASSUME SizesAssumption ==
    /\ FNODE_NUM_LIM \in Nat
    /\ DB_NUM_LIM \in Nat \ {0}
    /\ FILE_BLKSIZE_LIM \in Nat \ {0}
    /\ SECTOR_SIZE \in Nat \ {0}
    /\ Files \subseteq Nat
    /\ Lengths \subseteq Int
    /\ Reads \subseteq [offset : Nat, length : Nat \ {0}]

VARIABLES dmap,   \* super_block.db_map as a set
          live,   \* super_block.inode_map as a set
          inode,  \* the sectors of the inodes, by LBA
          sect,   \* the sectors of the data, by LBA
          said,   \* history: the text last written to a file
          rd,     \* the read under way, or NoRead
          overrun \* write_content has gone past data_blocks

vars == <<dmap, live, inode, sect, said, rd, overrun>>

DB == 0 .. DB_NUM_LIM - 1
MAX_LEN == SECTOR_SIZE * FILE_BLKSIZE_LIM
Offs == 0 .. SECTOR_SIZE - 1

Byte == [file : Files, ver : Texts, pos : 0 .. MAX_LEN - 1]
Zero == [file |-> -1, ver |-> -1, pos |-> -1]
Unknown == [file |-> -2, ver |-> -2, pos |-> -2]

\* data_blocks has FILE_BLKSIZE_LIM entries; the one read_content may read
\* past them is the reserved word of the inode, a 0.
Slots == 0 .. FILE_BLKSIZE_LIM
Inode == [len : 0 .. MAX_LEN, data_blocks : [Slots -> DB]]
FreshInode == [len |-> 0, data_blocks |-> [i \in Slots |-> 0]]

ErrorLBA == -1
idx2LBA(b) == IF b > FNODE_NUM_LIM THEN ErrorLBA ELSE b
LBA == {idx2LBA(b) : b \in DB}
ILBA == {idx2LBA(f) : f \in Files}

\* get_num_db: whole blocks.
EveryEntry(node) == FILE_BLKSIZE_LIM                                        \* mutant
get_num_db(node) == node.len \div SECTOR_SIZE

\* The blocks a text of that length is written to.
BlocksFor(len) == (len + SECTOR_SIZE - 1) \div SECTOR_SIZE

NoText == [ver |-> -1, len |-> 0]
Lost == [ver |-> -2, len |-> 0]
NoRead == [file |-> -1]

Init ==
    /\ dmap = {} /\ live = {}
    /\ inode = [l \in ILBA |-> FreshInode]
    /\ sect = [l \in LBA |-> [o \in Offs |-> Zero]]
    /\ said = [f \in Files |-> NoText]
    /\ rd = NoRead
    /\ overrun = FALSE

read_inode(f) == inode[idx2LBA(f)]
write_inode(f, node) == [inode EXCEPT ![idx2LBA(f)] = node]

\* An inode in use and a block in use have the same sector.
Clash ==
    \E f \in live, b \in dmap : idx2LBA(f) = ErrorLBA /\ idx2LBA(b) = ErrorLBA

\* How far the model follows the code.
Followed == ~overrun /\ ~Clash

----------------------------------------------------------------------------
(* Creating, writing, deleting.                                             *)

\* A read of f that is under way may see f before or after this.
Touched(f) == rd' = IF rd # NoRead /\ rd.file = f THEN [rd EXCEPT !.quiet = FALSE] ELSE rd

\* create_file, when get_free_bit gives it the inode f.
Create(f) ==
    /\ f \in Files \ live
    /\ live' = live \cup {f}
    /\ inode' = write_inode(f, FreshInode)
    /\ said' = [said EXCEPT ![f] = NoText]
    /\ Touched(f)
    /\ UNCHANGED <<dmap, sect, overrun>>

\* The blocks delete_db is called for: the first get_num_db of the inode.
Freed(f) == {read_inode(f).data_blocks[i] : i \in 0 .. get_num_db(read_inode(f)) - 1}

\* a is what a loop of get_free_bit takes from `free': the lowest, in order.
TakesLowest(a, free) ==
    /\ \A i \in DOMAIN a : a[i] \in free
    /\ \A i, j \in DOMAIN a : i < j => a[i] < a[j]
    /\ \A i \in DOMAIN a : \A b \in free : b < a[i] => \E j \in DOMAIN a : a[j] = b

\* The block i of a text.  `buf' is not moved on from block to block, so each
\* is the start of the text; the last one is filled up with zeros.
NoMemset(f, t, i) ==                                                        \* mutant
    [o \in Offs |-> IF i * SECTOR_SIZE + o < t.len
                    THEN [file |-> f, ver |-> t.ver, pos |-> o]
                    ELSE Unknown]
Chunk(f, t, i) ==
    [o \in Offs |-> IF i * SECTOR_SIZE + o < t.len
                    THEN [file |-> f, ver |-> t.ver, pos |-> o]
                    ELSE Zero]

\* The sectors after delete_db of `gone' and write_db of the blocks of `a', one
\* after the other.
Stored(gone, a, f, t) ==
    [l \in LBA |->
        LET into == {i \in DOMAIN a : idx2LBA(a[i]) = l}
        IN  IF into # {} THEN Chunk(f, t, CHOOSE i \in into : \A j \in into : j <= i)
            ELSE IF \E b \in gone : idx2LBA(b) = l THEN [o \in Offs |-> Zero]
            ELSE sect[l]]

\* write_content: the old blocks go, the new ones come, the inode is written
\* last.  When the blocks run out it returns -1 and does not write the inode.
FileWrite(f, t) ==
    /\ f \in live
    /\ t.len \in 0 .. MAX_LEN
    /\ LET free == DB \ (dmap \ Freed(f))
           need == BlocksFor(t.len)
       IN \E got \in 0 .. need : \E a \in [0 .. got - 1 -> DB] :
          /\ TakesLowest(a, free)
          /\ got < need => free = {a[i] : i \in DOMAIN a}
          /\ dmap' = (dmap \ Freed(f)) \cup {a[i] : i \in DOMAIN a}
          /\ sect' = Stored(Freed(f), a, f, t)
          /\ \/ /\ got = need
                /\ inode' = write_inode(f,
                       [len |-> t.len,
                        data_blocks |-> [i \in Slots |-> IF i < need THEN a[i]
                                                   ELSE read_inode(f).data_blocks[i]]])
                /\ said' = [said EXCEPT ![f] = t]
             \/ /\ got < need
                /\ said' = [said EXCEPT ![f] = Lost]
                /\ inode' = inode
    /\ Touched(f)
    /\ UNCHANGED <<live, overrun>>

\* write_content with a length it prints a complaint about, and goes on.
Overrun(f, n) ==
    /\ f \in live
    /\ n \notin 0 .. MAX_LEN
    /\ overrun' = TRUE
    /\ UNCHANGED <<dmap, live, inode, sect, said, rd>>

\* delete_file on the inode f.
Delete(f) ==
    /\ f \in live
    /\ live' = live \ {f}
    /\ dmap' = dmap \ Freed(f)
    /\ sect' = Stored(Freed(f), <<>>, f, NoText)
    /\ said' = [said EXCEPT ![f] = NoText]
    /\ Touched(f)
    /\ UNCHANGED <<inode, overrun>>

----------------------------------------------------------------------------
(* Reading.                                                                 *)

Lesser(m, n) == IF m <= n THEN m ELSE n

EndPos(r) == Lesser(r.offset + r.length, r.node.len)
StartIdx(r) == r.offset \div SECTOR_SIZE
EndIdx(r) == EndPos(r) \div SECTOR_SIZE
EndOffsOfRead(r) == (r.offset + r.length) % SECTOR_SIZE                     \* mutant
EndOffs(r) == EndPos(r) % SECTOR_SIZE

\* read_content up to read_inode.  At or past the end of the file it returns 0
\* and nothing happens.
ReadStart(f, r) ==
    /\ rd = NoRead
    /\ f \in live
    /\ r.offset < read_inode(f).len
    /\ rd' = [file |-> f, node |-> read_inode(f), offset |-> r.offset, length |-> r.length,
              next |-> StartIdx(r), buf |-> <<>>, quiet |-> TRUE]
    /\ UNCHANGED <<dmap, live, inode, sect, said, overrun>>

\* read_db leaves the buffer alone when the block's bit is clear.
read_db(b) == IF b \in dmap THEN sect[idx2LBA(b)] ELSE [o \in Offs |-> Unknown]

\* The next block: its part between the start and the end of the read goes to
\* the program's buffer.
ReadBlock ==
    /\ rd # NoRead
    /\ rd.next <= EndIdx(rd)
    /\ LET from == IF rd.next = StartIdx(rd) THEN rd.offset % SECTOR_SIZE ELSE 0
           upto == IF rd.next = EndIdx(rd) THEN EndOffs(rd) ELSE SECTOR_SIZE
           block == read_db(rd.node.data_blocks[rd.next])
       IN  rd' = [rd EXCEPT !.next = @ + 1,
                            !.buf = @ \o [k \in 1 .. upto - from |-> block[from + k - 1]]]
    /\ UNCHANGED <<dmap, live, inode, sect, said, overrun>>

AllRead == rd # NoRead /\ rd.next > EndIdx(rd)

\* What read_content returns, and PSV_file_read adds to the file position.
Returned == EndOffs(rd) - rd.offset

ReadEnd ==
    /\ AllRead
    /\ rd' = NoRead
    /\ UNCHANGED <<dmap, live, inode, sect, said, overrun>>

Next ==
    /\ Followed
    /\ \/ \E f \in Files :
             \/ Create(f) \/ Delete(f)
             \/ \E v \in Texts, n \in Lengths : FileWrite(f, [ver |-> v, len |-> n])
             \/ \E n \in Lengths : Overrun(f, n)
             \/ \E r \in Reads : ReadStart(f, r)
       \/ ReadBlock \/ ReadEnd

Spec == Init /\ [][Next]_vars

----------------------------------------------------------------------------
(* Properties.                                                              *)

\* No two files in use have their inodes in one sector.
InodesApart == \A f, g \in live : f # g => idx2LBA(f) # idx2LBA(g)

\* Every index is one of a block, every sector holds bytes that were written or
\* zeros.
MapsOK ==
    /\ dmap \subseteq DB
    /\ live \subseteq Files
    /\ inode \in [ILBA -> Inode]
    /\ overrun \in BOOLEAN

Types ==
    /\ MapsOK
    /\ sect \in [LBA -> [Offs -> Byte \cup {Zero}]]
    /\ said \in [Files -> [ver : Texts, len : 0 .. MAX_LEN] \cup {NoText, Lost}]
    /\ rd = NoRead \/ /\ rd.file \in Files /\ rd.node \in Inode
                      /\ rd.next \in 0 .. FILE_BLKSIZE_LIM + 1
                      /\ Len(rd.buf) <= MAX_LEN

\* Type correctness of the file system's data and of the read under way, as long
\* as the model follows the code.
TypeOK == Followed => Types

\* The blocks that hold the bytes of f.
Blocks(f) ==
    {read_inode(f).data_blocks[i] : i \in 0 .. BlocksFor(read_inode(f).len) - 1}

Owned ==
    /\ \A f \in live : Blocks(f) \subseteq dmap
    /\ \A f, g \in live : f # g => Blocks(f) \cap Blocks(g) = {}

\* No block belongs to two files, and every block of a file is marked used,
\* also after a write that ran out of blocks.  Two inodes past FNODE_NUM_LIM
\* share their sector and so all their blocks: a run has one such file at most.
BlocksOwned == Followed => Owned

\* A file holds what write_content last stored in it (a failed write aside),
\* whatever has been written to and deleted from the other files since.
Content(f) ==
    [k \in 1 .. read_inode(f).len |->
        sect[idx2LBA(read_inode(f).data_blocks[(k - 1) \div SECTOR_SIZE])][(k - 1) % SECTOR_SIZE]]

Chunks(f, t) ==
    [k \in 1 .. t.len |-> Chunk(f, t, (k - 1) \div SECTOR_SIZE)[(k - 1) % SECTOR_SIZE]]

FilesIntact ==
    \A f \in live : said[f] # Lost => Content(f) = Chunks(f, said[f])

ReadIntact ==
    AllRead /\ rd.quiet /\ said[rd.file] # Lost
        => rd.buf = SubSeq(Chunks(rd.file, said[rd.file]), rd.offset + 1, EndPos(rd))

\* A file holds what was last written to it, and a read during which nobody
\* writes, creates or deletes the file itself gives the bytes at its offset,
\* whatever is done to the other files meanwhile.  For two inodes past
\* FNODE_NUM_LIM, or two blocks there, this does not hold: a run has one at most.
ReadsBack == Followed => FilesIntact /\ ReadIntact
=============================================================================
