-------------------------- MODULE PSVContentProofs --------------------------
(***************************************************************************)
(* The contents of PSV, for any number of files, blocks and bytes, whatever *)
(* inodes the files have, and any sequence of writes, failed ones included. *)
(* Everything has its type.  While no two files in use have their inodes in *)
(* one sector, no data block belongs to two files; while, besides, no two   *)
(* blocks in use have the same sector, files and preempted reads give back  *)
(* what was written.                                                        *)
(***************************************************************************)
EXTENDS PSVContent, TLAPS

\* A quotient is rounded down.
LEMMA DivBounds ==
    ASSUME NEW n \in Nat, NEW d \in Nat \ {0}
    PROVE  /\ n \div d \in Nat
           /\ d * (n \div d) <= n
           /\ n < d * (n \div d) + d
  OBVIOUS

\* Fewer bytes than b blocks hold are in a block before b.
LEMMA DivLess ==
    ASSUME NEW n \in Nat, NEW d \in Nat \ {0}, NEW b \in Nat, n < d * b
    PROVE  n \div d < b
  <1>1. d * (n \div d) < d * b  BY DivBounds
  <1> QED  BY <1>1, DivBounds

\* Quotients grow with the dividend.
LEMMA DivMonotone ==
    ASSUME NEW d \in Nat \ {0}, NEW m \in Nat, NEW n \in Nat, m <= n
    PROVE  m \div d <= n \div d
  <1>1. d * (m \div d) < d * ((n \div d) + 1)  BY DivBounds
  <1> QED  BY <1>1, DivBounds

\* The blocks of a text fit into an inode, an empty text has none, and the
\* blocks a deletion frees are among those the text has.
LEMMA BlocksForBounds ==
    ASSUME NEW len \in 0 .. MAX_LEN
    PROVE  /\ BlocksFor(len) \in 0 .. FILE_BLKSIZE_LIM
           /\ len \div SECTOR_SIZE \in 0 .. BlocksFor(len)
           /\ BlocksFor(0) = 0
  <1> USE SizesAssumption
  <1>1. len \in Nat /\ len + SECTOR_SIZE - 1 \in Nat
    BY DEF MAX_LEN
  <1>2. len + SECTOR_SIZE - 1 < SECTOR_SIZE * (FILE_BLKSIZE_LIM + 1)
    BY DEF MAX_LEN
  <1>3. BlocksFor(len) \in Nat /\ BlocksFor(len) < FILE_BLKSIZE_LIM + 1
    BY <1>1, <1>2, DivBounds, DivLess DEF BlocksFor
  <1>4. len \div SECTOR_SIZE \in Nat /\ len \div SECTOR_SIZE <= BlocksFor(len)
    BY <1>1, DivBounds, DivMonotone DEF BlocksFor
  <1>5. BlocksFor(0) = 0
    <2>1. SECTOR_SIZE - 1 \in Nat /\ SECTOR_SIZE - 1 < SECTOR_SIZE * 1
      OBVIOUS
    <2>2. (SECTOR_SIZE - 1) \div SECTOR_SIZE < 1
      BY <2>1, DivLess
    <2> QED  BY <2>1, <2>2, DivBounds DEF BlocksFor
  <1> QED  BY <1>3, <1>4, <1>5

\* Who owns which block: the part of the invariant that no content matters to.
IInv == MapsOK /\ Owned

\* What read_inode gives is an inode, and what write_inode writes it gives back;
\* a file with its inode in another sector keeps its own.
LEMMA ReadInode ==
    ASSUME MapsOK, NEW f \in Files
    PROVE  read_inode(f) \in Inode
  BY DEF MapsOK, ILBA, read_inode

LEMMA WrittenInode ==
    ASSUME MapsOK, NEW f \in Files, NEW n, inode' = write_inode(f, n)
    PROVE  /\ read_inode(f)' = n
           /\ n \in Inode => inode' \in [ILBA -> Inode]
           /\ \A g \in Files : idx2LBA(g) # idx2LBA(f) => read_inode(g)' = read_inode(g)
  BY DEF MapsOK, ILBA, read_inode, write_inode

LEMMA SameInodes ==
    ASSUME inode' = inode
    PROVE  \A f \in Files : read_inode(f)' = read_inode(f)
  BY DEF read_inode

\* What a deletion frees are blocks of the file.
LEMMA FreedAreBlocks ==
    ASSUME MapsOK, NEW f \in Files
    PROVE  /\ Freed(f) \subseteq Blocks(f)
           /\ Blocks(f) \subseteq DB
  <1>1. read_inode(f) \in Inode  BY ReadInode
  <1> DEFINE len == read_inode(f).len
             need == BlocksFor(len)
  <1>2. len \in 0 .. MAX_LEN /\ read_inode(f).data_blocks \in [Slots -> DB]
    BY <1>1 DEF Inode
  <1>3. need \in 0 .. FILE_BLKSIZE_LIM /\ len \div SECTOR_SIZE \in 0 .. need
    BY <1>2, BlocksForBounds
  <1> HIDE DEF len, need
  <1>4. \A i \in 0 .. (len \div SECTOR_SIZE) - 1 : i \in 0 .. need - 1
    BY <1>3, SizesAssumption
  <1>5. \A i \in 0 .. need - 1 : i \in Slots
    BY <1>3, SizesAssumption DEF Slots
  <1>6. Freed(f) = {read_inode(f).data_blocks[i] : i \in 0 .. (len \div SECTOR_SIZE) - 1}
    BY DEF Freed, get_num_db, len
  <1>7. Blocks(f) = {read_inode(f).data_blocks[i] : i \in 0 .. need - 1}
    BY DEF Blocks, len, need
  <1> QED  BY <1>2, <1>4, <1>5, <1>6, <1>7

\* An empty disk has no owners.
LEMMA InitIInv == Init => IInv
  <1> SUFFICES ASSUME Init PROVE IInv  OBVIOUS
  <1>1. FreshInode \in Inode
    BY SizesAssumption DEF FreshInode, Inode, Slots, DB, MAX_LEN
  <1> QED  BY <1>1 DEF Init, IInv, MapsOK, Owned

\* A step after which every file has no blocks, or the blocks it had and their
\* bits, keeps the files apart: creating, deleting and a write that fails.
LEMMA KeptBlocks ==
    ASSUME IInv,
           \A f \in live' :
              \/ Blocks(f)' = {}
              \/ f \in live /\ Blocks(f)' = Blocks(f) /\ Blocks(f) \subseteq dmap'
    PROVE  Owned'
  BY DEF IInv, Owned

\* create_file adds a file without blocks.
LEMMA CreateKeeps ==
    ASSUME IInv, InodesApart', NEW f \in Files, Create(f)
    PROVE  IInv'
  <1>1. MapsOK /\ inode' = write_inode(f, FreshInode) /\ live' = live \cup {f} /\ dmap' = dmap
        /\ overrun' = overrun
    BY DEF IInv, Create
  <1>2. FreshInode \in Inode
    BY SizesAssumption DEF FreshInode, Inode, Slots, DB, MAX_LEN
  <1>3. MapsOK'
    <2>1. inode' \in [ILBA -> Inode]
      BY <1>1, <1>2, WrittenInode
    <2> QED  BY <1>1, <2>1 DEF MapsOK
  <1>4. Blocks(f)' = {}
    <2>1. read_inode(f)' = FreshInode  BY <1>1, WrittenInode
    <2>2. BlocksFor(0) = 0
      BY BlocksForBounds, SizesAssumption DEF MAX_LEN
    <2> QED  BY <2>1, <2>2 DEF Blocks, FreshInode
  <1>5. ASSUME NEW g \in live' \ {f}
        PROVE  g \in live /\ Blocks(g)' = Blocks(g) /\ Blocks(g) \subseteq dmap'
    <2>1. g \in live /\ g \in Files /\ f \in live' /\ g # f
      BY <1>1 DEF MapsOK
    <2>2. idx2LBA(g) # idx2LBA(f)
      BY <2>1 DEF InodesApart
    <2>3. read_inode(g)' = read_inode(g)
      BY <1>1, <2>1, <2>2, WrittenInode
    <2> QED  BY <1>1, <2>1, <2>3 DEF Blocks, IInv, Owned
  <1>6. Owned'  BY <1>4, <1>5, KeptBlocks
  <1> QED  BY <1>3, <1>6 DEF IInv

\* delete_file frees blocks that only its file has.
LEMMA DeleteKeeps ==
    ASSUME IInv, NEW f \in Files, Delete(f)
    PROVE  IInv'
  <1>1. MapsOK'
    BY DEF IInv, MapsOK, Delete
  <1>2. ASSUME NEW g \in live'
        PROVE  g \in live /\ Blocks(g)' = Blocks(g) /\ Blocks(g) \subseteq dmap'
    <2>1. g \in live /\ g # f /\ f \in live /\ inode' = inode /\ dmap' = dmap \ Freed(f)
          /\ g \in Files
      BY DEF Delete, IInv, MapsOK
    <2>2. Blocks(g) \cap Freed(f) = {} /\ Blocks(g) \subseteq dmap
      BY <2>1, FreedAreBlocks DEF IInv, Owned
    <2>3. read_inode(g)' = read_inode(g)
      BY <2>1, SameInodes
    <2> QED  BY <2>1, <2>2, <2>3 DEF Blocks
  <1>3. Owned'  BY <1>2, KeptBlocks
  <1> QED  BY <1>1, <1>3 DEF IInv

\* write_content takes free blocks, and keeps the others' when it fails.
LEMMA WriteKeeps ==
    ASSUME IInv, InodesApart, NEW f \in Files, NEW t, FileWrite(f, t)
    PROVE  IInv'
  <1> DEFINE free == DB \ (dmap \ Freed(f))
             need == BlocksFor(t.len)
  <1>1. t.len \in 0 .. MAX_LEN /\ need \in 0 .. FILE_BLKSIZE_LIM
    BY BlocksForBounds DEF FileWrite
  <1>2. f \in live /\ live' = live /\ overrun' = overrun
    BY DEF FileWrite
  <1>3. PICK got \in 0 .. need : \E a \in [0 .. got - 1 -> DB] :
          /\ TakesLowest(a, free)
          /\ got < need => free = {a[i] : i \in DOMAIN a}
          /\ dmap' = (dmap \ Freed(f)) \cup {a[i] : i \in DOMAIN a}
          /\ \/ /\ got = need
                /\ inode' = write_inode(f,
                       [len |-> t.len,
                        data_blocks |-> [i \in Slots |-> IF i < need THEN a[i]
                                                        ELSE read_inode(f).data_blocks[i]]])
             \/ /\ got < need
                /\ inode' = inode
    BY DEF FileWrite
  <1>4. PICK a \in [0 .. got - 1 -> DB] :
          /\ TakesLowest(a, free)
          /\ got < need => free = {a[i] : i \in DOMAIN a}
          /\ dmap' = (dmap \ Freed(f)) \cup {a[i] : i \in DOMAIN a}
          /\ \/ /\ got = need
                /\ inode' = write_inode(f,
                       [len |-> t.len,
                        data_blocks |-> [i \in Slots |-> IF i < need THEN a[i]
                                                        ELSE read_inode(f).data_blocks[i]]])
             \/ /\ got < need
                /\ inode' = inode
    BY <1>3
  <1> DEFINE taken == {a[i] : i \in DOMAIN a}
  <1>5. taken \subseteq free /\ taken \subseteq DB
    BY <1>4 DEF TakesLowest
  <1>6. ASSUME NEW g \in live, g # f
        PROVE  Blocks(g) \subseteq dmap' /\ Blocks(g) \cap taken = {}
    <2>1. Blocks(g) \subseteq dmap /\ Blocks(g) \cap Freed(f) = {}
      BY <1>2, <1>6, FreedAreBlocks DEF IInv, Owned
    <2> QED  BY <2>1, <1>4, <1>5
  <1>7. CASE got < need
    <2>1. MapsOK'
      BY <1>2, <1>4, <1>5, <1>7 DEF IInv, MapsOK
    <2>2. dmap' = DB
      BY <1>4, <1>7 DEF IInv, MapsOK
    <2>3. ASSUME NEW g \in live'
          PROVE  g \in live /\ Blocks(g)' = Blocks(g) /\ Blocks(g) \subseteq dmap'
      <3>1. inode' = inode /\ g \in Files  BY <1>2, <1>4, <1>7 DEF IInv, MapsOK
      <3>2. Blocks(g) \subseteq DB  BY <3>1, FreedAreBlocks DEF IInv
      <3>3. read_inode(g)' = read_inode(g)  BY <3>1, SameInodes
      <3> QED  BY <1>2, <2>2, <3>2, <3>3 DEF Blocks
    <2>4. Owned'  BY <2>3, KeptBlocks
    <2> QED  BY <2>1, <2>4 DEF IInv
  <1>8. CASE got = need
    <2> DEFINE node == [len |-> t.len,
                        data_blocks |-> [i \in Slots |-> IF i < need THEN a[i]
                                                        ELSE read_inode(f).data_blocks[i]]]
    <2>1. read_inode(f) \in Inode
      BY ReadInode DEF IInv
    <2>2. inode' = write_inode(f, node)
      BY <1>4, <1>8
    <2>3. \A i \in Slots : i < need => i \in 0 .. got - 1
      BY <1>1, <1>8 DEF Slots
    <2>4. node \in Inode
      BY <1>1, <1>4, <2>1, <2>3 DEF Inode
    <2>5. MapsOK'
      <3>1. inode' \in [ILBA -> Inode]
        BY <2>2, <2>4, WrittenInode DEF IInv
      <3> QED  BY <1>2, <1>4, <1>5, <3>1 DEF IInv, MapsOK
    <2>6. \A i \in 0 .. need - 1 : node.data_blocks[i] = a[i]
      <3> SUFFICES ASSUME NEW i \in 0 .. need - 1 PROVE node.data_blocks[i] = a[i]
        OBVIOUS
      <3>1. i \in Slots /\ i < need
        <4> HIDE DEF need
        <4> QED  BY <1>1, SizesAssumption DEF Slots
      <3> QED  BY <3>1
    <2>7. Blocks(f)' = taken
      <3>1. read_inode(f)' = node  BY <2>2, WrittenInode DEF IInv
      <3>2. read_inode(f)'.len = t.len  BY <3>1
      <3>3. Blocks(f)' = {read_inode(f)'.data_blocks[i] : i \in 0 .. need - 1}
        BY <3>2 DEF Blocks
      <3>4. DOMAIN a = 0 .. need - 1  BY <1>4, <1>8
      <3> HIDE DEF need, node
      <3> QED  BY <2>6, <3>1, <3>3, <3>4
    <2>8. ASSUME NEW g \in live, g # f  PROVE Blocks(g)' = Blocks(g)
      <3>1. g \in Files /\ idx2LBA(g) # idx2LBA(f)
        BY <1>2, <2>8 DEF IInv, MapsOK, InodesApart
      <3>2. read_inode(g)' = read_inode(g)
        BY <2>2, <3>1, WrittenInode DEF IInv
      <3> QED  BY <3>2 DEF Blocks
    <2>9. Owned'
      <3>1. \A g \in live : Blocks(g)' \subseteq dmap'
        BY <1>4, <1>6, <2>7, <2>8
      <3>2. \A g, h \in live : g # h => Blocks(g)' \cap Blocks(h)' = {}
        BY <1>6, <2>7, <2>8 DEF IInv, Owned
      <3> QED  BY <1>2, <3>1, <3>2 DEF Owned
    <2> QED  BY <2>5, <2>9 DEF IInv
  <1> QED  BY <1>3, <1>7, <1>8, <1>1

\* Reading changes nobody's blocks.
LEMMA Unmoved ==
    ASSUME IInv, dmap' = dmap, live' = live, inode' = inode, overrun' \in BOOLEAN
    PROVE  IInv'
  <1>1. MapsOK'  BY DEF IInv, MapsOK
  <1>2. ASSUME NEW f \in live'  PROVE Blocks(f)' = Blocks(f) /\ Blocks(f) \subseteq dmap'
    <2>1. f \in Files  BY DEF IInv, MapsOK
    <2>2. read_inode(f)' = read_inode(f)  BY <2>1, SameInodes
    <2> QED  BY <2>2 DEF Blocks, IInv, Owned
  <1>3. Owned'  BY <1>2, KeptBlocks
  <1> QED  BY <1>1, <1>3 DEF IInv

\* Every step keeps the blocks apart, between states in which inodes are.
LEMMA NextIInv == IInv /\ InodesApart /\ InodesApart' /\ [Next]_vars => IInv'
  <1> SUFFICES ASSUME IInv, InodesApart, InodesApart', [Next]_vars PROVE IInv'  OBVIOUS
  <1>1. ASSUME NEW f \in Files, Create(f)  PROVE IInv'
    BY <1>1, CreateKeeps
  <1>2. ASSUME NEW f \in Files, Delete(f)  PROVE IInv'
    BY <1>2, DeleteKeeps
  <1>3. ASSUME NEW f \in Files, NEW v \in Texts, NEW n \in Lengths,
               FileWrite(f, [ver |-> v, len |-> n])
        PROVE  IInv'
    BY <1>3, WriteKeeps
  <1>4. ASSUME dmap' = dmap, live' = live, inode' = inode, overrun' \in BOOLEAN  PROVE IInv'
    BY <1>4, Unmoved
  <1>5. overrun \in BOOLEAN
    BY DEF IInv, MapsOK
  <1>6. ASSUME NEW f \in Files, NEW n \in Lengths, Overrun(f, n)  PROVE IInv'
    BY <1>6, <1>4 DEF Overrun
  <1>7. ASSUME NEW f \in Files, NEW r \in Reads, ReadStart(f, r)  PROVE IInv'
    BY <1>7, <1>5, <1>4 DEF ReadStart
  <1>8. CASE ReadBlock  BY <1>8, <1>5, <1>4 DEF ReadBlock
  <1>9. CASE ReadEnd  BY <1>9, <1>5, <1>4 DEF ReadEnd
  <1>10. CASE UNCHANGED vars  BY <1>10, <1>5, <1>4 DEF vars
  <1> QED  BY <1>1, <1>2, <1>3, <1>6, <1>7, <1>8, <1>9, <1>10 DEF Next

\* While no two files in use have their inodes in one sector, no block belongs to
\* two files and every block of a file is marked used, after any sequence of
\* creations, writes (failed ones too) and deletions.
THEOREM BlocksOwnedCorrect == Spec /\ []InodesApart => []BlocksOwned
  <1>1. Init => IInv  BY InitIInv
  <1>2. IInv /\ InodesApart /\ InodesApart' /\ [Next]_vars => IInv'  BY NextIInv
  <1>3. IInv => BlocksOwned  BY DEF IInv, BlocksOwned
  <1> QED  BY <1>1, <1>2, <1>3, PTL DEF Spec

----------------------------------------------------------------------------
(* Types.                                                                   *)

\* What a byte of a sector, a sector and a text can be.
Symbol == Byte \cup {Zero}
Sector == [Offs -> Symbol]
Text == [ver : Texts, len : 0 .. MAX_LEN]

\* How far a read has got.
Upto(r) == IF r.next = StartIdx(r) THEN r.offset ELSE Lesser(EndPos(r), r.next * SECTOR_SIZE)

\* A read under way: what its buffer holds reaches from its offset to there.
Reading ==
    [file : Files, node : Inode, offset : Nat, length : Nat \ {0}, next : Nat,
     buf : Seq(Symbol \cup {Unknown}), quiet : BOOLEAN]
ReadOK(r) ==
    /\ r \in Reading
    /\ r.offset < r.node.len
    /\ r.next \in StartIdx(r) .. EndIdx(r) + 1
    /\ Len(r.buf) = Upto(r) - r.offset

\* The types, with the position of the read that they depend on.
Typed ==
    /\ MapsOK
    /\ sect \in [LBA -> Sector]
    /\ said \in [Files -> Text \cup {NoText, Lost}]
    /\ rd # NoRead => ReadOK(rd)

\* What the sizes are.
LEMMA Sizes ==
    /\ SECTOR_SIZE \in Nat \ {0} /\ FILE_BLKSIZE_LIM \in Nat \ {0}
    /\ MAX_LEN \in Nat \ {0} /\ SECTOR_SIZE <= MAX_LEN
    /\ MAX_LEN = SECTOR_SIZE * FILE_BLKSIZE_LIM
    /\ Files \subseteq Nat
    /\ NoRead.file = -1
  BY SizesAssumption DEF MAX_LEN, NoRead

\* A read under way is not NoRead.
LEMMA IsReading ==
    ASSUME NEW r, ReadOK(r)
    PROVE  r # NoRead
  BY Sizes DEF ReadOK, Reading

\* The inode that create_file writes is one.
LEMMA FreshTyped == FreshInode \in Inode
  BY SizesAssumption DEF FreshInode, Inode, Slots, DB, MAX_LEN

\* Quotient and remainder.
LEMMA DivMod ==
    ASSUME NEW n \in Nat, NEW d \in Nat \ {0}
    PROVE  /\ n \div d \in Nat /\ n % d \in 0 .. d - 1
           /\ n = d * (n \div d) + (n % d)
  OBVIOUS

\* A product grows with its factor.
LEMMA Multiples ==
    ASSUME NEW d \in Nat \ {0}, NEW p \in Int, NEW q \in Int
    PROVE  /\ d * p \in Int
           /\ p <= q => d * p <= d * q
           /\ p < q => d * p + d <= d * q
           /\ d * (p + 1) = d * p + d
           /\ p * d = d * p
  <1>1. d * (p + 1) = d * p + d /\ p * d = d * p /\ d * p \in Int /\ d * q \in Int
    OBVIOUS
  <1>2. ASSUME NEW x \in Nat PROVE d * (p + x) >= d * p
    <2>1. d * (p + x) = d * p + d * x  OBVIOUS
    <2>2. d * x >= 0  OBVIOUS
    <2> QED  BY <2>1, <2>2
  <1>3. p <= q => d * p <= d * q
    <2> SUFFICES ASSUME p <= q PROVE d * p <= d * q  OBVIOUS
    <2>1. q - p \in Nat /\ p + (q - p) = q  OBVIOUS
    <2> QED  BY <2>1, <1>2
  <1>4. p < q => d * p + d <= d * q
    <2> SUFFICES ASSUME p < q PROVE d * p + d <= d * q  OBVIOUS
    <2>1. (q - (p + 1)) \in Nat  OBVIOUS
    <2>2. d * (p + 1 + (q - (p + 1))) = d * (p + 1) + d * (q - (p + 1))  OBVIOUS
    <2>3. p + 1 + (q - (p + 1)) = q  OBVIOUS
    <2>4. d * (q - (p + 1)) >= 0  BY <2>1
    <2> QED  BY <1>1, <2>2, <2>3, <2>4
  <1> QED  BY <1>1, <1>3, <1>4

\* Where a number is among the multiples of d.
LEMMA DivIs ==
    ASSUME NEW n \in Nat, NEW d \in Nat \ {0}, NEW q \in Nat, d * q <= n, n < d * q + d
    PROVE  n \div d = q /\ n % d = n - d * q
  <1>1. n = d * (n \div d) + (n % d) /\ n \div d \in Nat /\ n % d \in 0 .. d - 1
    OBVIOUS
  <1>2. n \div d < q + 1
    BY DivLess, Multiples
  <1>3. (q * d) \div d = q
    OBVIOUS
  <1>4. q <= n \div d
    BY <1>3, DivMonotone
  <1> QED
    BY <1>1, <1>2, <1>4

\* The numbers of a read: where it ends, and its first and last blocks.
LEMMA Extent ==
    ASSUME NEW r \in Reading, r.offset < r.node.len
    PROVE  /\ EndPos(r) \in Nat /\ r.offset < EndPos(r)
           /\ EndPos(r) <= r.node.len /\ r.node.len <= MAX_LEN
           /\ StartIdx(r) \in Nat /\ EndIdx(r) \in StartIdx(r) .. FILE_BLKSIZE_LIM
           /\ r.offset % SECTOR_SIZE = r.offset - SECTOR_SIZE * StartIdx(r)
           /\ r.offset % SECTOR_SIZE \in 0 .. SECTOR_SIZE - 1
           /\ EndOffs(r) = EndPos(r) - SECTOR_SIZE * EndIdx(r)
           /\ EndOffs(r) \in 0 .. SECTOR_SIZE - 1
  <1> USE Sizes
  <1>1. /\ r.offset \in Nat /\ r.length \in Nat \ {0} /\ r.node.len \in 0 .. MAX_LEN
    BY DEF Reading, Inode
  <1>2. EndPos(r) \in Nat /\ r.offset < EndPos(r) /\ EndPos(r) <= r.node.len /\ EndPos(r) <= MAX_LEN
    BY <1>1 DEF EndPos, Lesser
  <1>3. /\ StartIdx(r) \in Nat /\ r.offset % SECTOR_SIZE \in 0 .. SECTOR_SIZE - 1
        /\ r.offset = SECTOR_SIZE * StartIdx(r) + (r.offset % SECTOR_SIZE)
    BY <1>1, DivMod DEF StartIdx
  <1>4. /\ EndIdx(r) \in Nat /\ EndOffs(r) \in 0 .. SECTOR_SIZE - 1
        /\ EndPos(r) = SECTOR_SIZE * EndIdx(r) + EndOffs(r)
    BY <1>2, DivMod DEF EndIdx, EndOffs
  <1>5. StartIdx(r) <= EndIdx(r)
    <2>1. r.offset \in Nat /\ EndPos(r) \in Nat /\ r.offset <= EndPos(r)
      BY <1>1, <1>2
    <2> QED  BY <2>1, DivMonotone DEF StartIdx, EndIdx
  <1>6. EndIdx(r) <= FILE_BLKSIZE_LIM
    <2> DEFINE S == SECTOR_SIZE  L == FILE_BLKSIZE_LIM  E == EndIdx(r)
    <2>1. E > L => S * L + S <= S * E
      BY <1>4, Multiples
    <2>2. S * E <= S * L
      <3>1. S * E \in Int /\ S * L \in Int  BY <1>4
      <3> QED  BY <1>2, <1>4, <3>1
    <2>3. S * L \in Int  OBVIOUS
    <2> HIDE DEF S, L, E
    <2> QED  BY <1>4, <2>1, <2>2, <2>3 DEF S, L, E
  <1>7. SECTOR_SIZE * StartIdx(r) \in Int /\ SECTOR_SIZE * EndIdx(r) \in Int
    BY <1>3, <1>4
  <1> QED  BY <1>1, <1>2, <1>3, <1>4, <1>5, <1>6, <1>7

\* The part of the block r.next that the read r takes, and how far it gets by it.
From(r) == IF r.next = StartIdx(r) THEN r.offset % SECTOR_SIZE ELSE 0
To(r) == IF r.next = EndIdx(r) THEN EndOffs(r) ELSE SECTOR_SIZE

\* The part of the next block is in the block, continues what the read has, and
\* does not go past the end of the read.
LEMMA Part ==
    ASSUME NEW r, ReadOK(r), r.next <= EndIdx(r)
    PROVE  /\ r.next \in Nat /\ r.next \in 0 .. FILE_BLKSIZE_LIM
           /\ From(r) \in 0 .. SECTOR_SIZE /\ To(r) \in From(r) .. SECTOR_SIZE
           /\ Upto(r) = SECTOR_SIZE * r.next + From(r)
           /\ \A s \in Reading :
                 /\ s.next = r.next + 1 /\ s.node = r.node
                 /\ s.offset = r.offset /\ s.length = r.length
                 => Upto(s) = SECTOR_SIZE * r.next + To(r)
           /\ SECTOR_SIZE * r.next + To(r) <= EndPos(r)
  <1> USE Sizes
  <1> DEFINE S == SECTOR_SIZE  n == r.next  a == StartIdx(r)  b == EndIdx(r)  e == EndPos(r)
  <1>1. /\ r \in Reading /\ n \in a .. b /\ e \in Nat /\ r.offset < e
        /\ a \in Nat /\ b \in a .. FILE_BLKSIZE_LIM /\ n \in Nat
        /\ r.offset % S = r.offset - S * a /\ r.offset % S \in 0 .. S - 1
        /\ EndOffs(r) = e - S * b /\ EndOffs(r) \in 0 .. S - 1 /\ r.offset \in Nat
    <2>1. r \in Reading /\ r.offset < r.node.len /\ n \in a .. b /\ n \in Nat
      BY DEF ReadOK, Reading
    <2> QED  BY <2>1, Extent DEF Reading
  <1>2. /\ S * a \in Int /\ S * b \in Int /\ S * n \in Int
        /\ n < b => S * n + S <= S * b
        /\ a < n => S * a + S <= S * n
        /\ n * S = S * n /\ S * (n + 1) = S * n + S
        /\ (n + 1) * S = S * (n + 1)
    <2>1. S \in Nat \ {0} /\ a \in Int /\ b \in Int /\ n \in Int /\ n + 1 \in Int
      BY <1>1
    <2> HIDE DEF S, n, a, b
    <2> QED  BY <2>1, Multiples
  <1>3. /\ From(r) = IF n = a THEN r.offset - S * a ELSE 0
        /\ To(r) = IF n = b THEN e - S * b ELSE S
    BY <1>1 DEF From, To
  <1>4. Upto(r) = IF n = a THEN r.offset ELSE Lesser(e, n * S)
    BY DEF Upto
  <1>5. ASSUME NEW s \in Reading, s.next = n + 1, s.node = r.node, s.offset = r.offset,
               s.length = r.length
        PROVE  Upto(s) = Lesser(e, (n + 1) * S)
    <2>1. StartIdx(s) = a /\ EndPos(s) = e
      BY <1>5 DEF StartIdx, EndPos
    <2>2. n + 1 # a
      BY <1>1
    <2> QED  BY <1>5, <2>1, <2>2 DEF Upto
  <1>6. /\ r.offset - S * a \in 0 .. S - 1 /\ e - S * b \in 0 .. S - 1 /\ S \in Nat \ {0}
    BY <1>1
  <1>7. \A s \in Reading :
                 /\ s.next = n + 1 /\ s.node = r.node
                 /\ s.offset = r.offset /\ s.length = r.length
                 => Upto(s) = Lesser(e, (n + 1) * S)
    BY <1>5
  <1> DEFINE off == r.offset  sn == S * n  sa == S * a  sb == S * b
  <1>8. n = a => sn = sa
    OBVIOUS
  <1>9. n = b => sn = sb
    OBVIOUS
  <1>10. off \in Nat /\ sn \in Int /\ sa \in Int /\ sb \in Int
    BY <1>1, <1>2
  <1>11. Lesser(e, sn + S) = sn + To(r) /\ sn + To(r) <= e
    <2> HIDE DEF S, n, a, b, e, off, sn, sa, sb
    <2>1. (n < b => sn + S <= sb) /\ e - sb \in 0 .. S - 1
      BY <1>2, <1>6 DEF sn, sb
    <2>2. To(r) = IF n = b THEN e - sb ELSE S
      BY <1>3 DEF sb
    <2> QED  BY <1>1, <1>6, <1>9, <1>10, <2>1, <2>2 DEF Lesser
  <1>12. Upto(r) = sn + From(r) /\ From(r) \in 0 .. S /\ To(r) \in From(r) .. S
    <2> HIDE DEF S, n, a, b, e, off, sn, sa, sb
    <2>1. /\ n < b => sn + S <= sb
          /\ a < n => sa + S <= sn
          /\ e - sb \in 0 .. S - 1 /\ off - sa \in 0 .. S - 1 /\ off < e
      BY <1>1, <1>2, <1>6 DEF sn, sb, sa, off
    <2>2. /\ From(r) = IF n = a THEN off - sa ELSE 0
          /\ To(r) = IF n = b THEN e - sb ELSE S
          /\ Upto(r) = IF n = a THEN off ELSE Lesser(e, sn)
      BY <1>2, <1>3, <1>4 DEF off, sa, sb, sn
    <2>3. n = b \/ n < b
      BY <1>1
    <2>4. n = a \/ a < n
      BY <1>1
    <2>5. sn <= e
      BY <1>1, <1>6, <1>9, <1>10, <2>1, <2>3
    <2>6. Upto(r) = sn + From(r)
      BY <1>1, <1>6, <1>8, <1>10, <2>2, <2>4, <2>5 DEF Lesser
    <2>7. From(r) \in 0 .. S /\ To(r) \in 0 .. S
      BY <1>1, <1>6, <1>10, <2>1, <2>2
    <2>8. From(r) <= To(r)
      BY <1>1, <1>6, <1>8, <1>9, <1>10, <2>1, <2>2, <2>3, <2>4
    <2> QED  BY <1>6, <2>6, <2>7, <2>8
  <1>13. (n + 1) * S = sn + S
    BY <1>2
  <1> QED
    BY <1>1, <1>7, <1>11, <1>12, <1>13

\* The buffer after the next block.
Piece(r) == [k \in 1 .. To(r) - From(r) |-> read_db(r.node.data_blocks[r.next])[From(r) + k - 1]]

\* What ReadBlock does, in terms of the piece.
LEMMA NextPiece ==
    ReadBlock => /\ rd # NoRead /\ rd.next <= EndIdx(rd)
                 /\ rd' = [rd EXCEPT !.next = @ + 1, !.buf = @ \o Piece(rd)]
                 /\ UNCHANGED <<dmap, live, inode, sect, said, overrun>>
  BY DEF ReadBlock, Piece, From, To

\* A block that is read holds bytes, or nothing was read.
LEMMA BlockTyped ==
    ASSUME Typed, NEW b \in DB
    PROVE  read_db(b) \in [Offs -> Symbol \cup {Unknown}]
  <1>1. idx2LBA(b) \in LBA
    BY DEF LBA
  <1>2. sect[idx2LBA(b)] \in Sector
    BY <1>1 DEF Typed
  <1> QED  BY <1>2 DEF read_db, Sector

\* The piece is that part of the block, byte by byte.
LEMMA PieceTyped ==
    ASSUME Typed, ReadOK(rd), rd.next <= EndIdx(rd)
    PROVE  /\ Piece(rd) \in Seq(Symbol \cup {Unknown})
           /\ Len(Piece(rd)) = To(rd) - From(rd)
           /\ \A k \in 1 .. Len(Piece(rd)) :
                 /\ Piece(rd)[k] = read_db(rd.node.data_blocks[rd.next])[From(rd) + k - 1]
                 /\ From(rd) + k - 1 \in Offs
  <1> DEFINE n == To(rd) - From(rd)  b == rd.node.data_blocks[rd.next]  from == From(rd)
  <1>1. n \in Nat /\ rd.next \in Slots /\ from \in Nat /\ To(rd) <= SECTOR_SIZE /\ To(rd) \in Nat
    BY Part, Sizes DEF Slots
  <1>2. b \in DB
    BY <1>1 DEF ReadOK, Reading, Inode
  <1>3. read_db(b) \in [Offs -> Symbol \cup {Unknown}]
    BY <1>2, BlockTyped
  <1>4. ASSUME NEW k \in 1 .. n PROVE from + k - 1 \in Offs
    BY <1>1, Sizes DEF Offs
  <1>5. Piece(rd) = [k \in 1 .. n |-> read_db(b)[from + k - 1]]
    BY DEF Piece
  <1> HIDE DEF n, b, from
  <1>6. \A k \in 1 .. n : read_db(b)[from + k - 1] \in Symbol \cup {Unknown}
    BY <1>3, <1>4
  <1>7. Piece(rd) \in Seq(Symbol \cup {Unknown}) /\ Len(Piece(rd)) = n
    BY <1>1, <1>5, <1>6
  <1> QED  BY <1>4, <1>5, <1>7 DEF n, b, from

\* A read with a longer buffer is a read.
LEMMA LongerBuffer ==
    ASSUME NEW r \in Reading, NEW w \in Seq(Symbol \cup {Unknown})
    PROVE  LET s == [r EXCEPT !.next = @ + 1, !.buf = @ \o w]
           IN  /\ s \in Reading /\ s.next = r.next + 1 /\ s.buf = r.buf \o w
               /\ s.node = r.node /\ s.offset = r.offset /\ s.length = r.length
               /\ s.file = r.file /\ s.quiet = r.quiet
  <1> DEFINE B == Seq(Symbol \cup {Unknown})
             R == [file : Files, node : Inode, offset : Nat, length : Nat \ {0}, next : Nat,
                   buf : B, quiet : BOOLEAN]
  <1>1. r \in R /\ Reading = R
    BY DEF Reading
  <1>2. r.buf \o w \in B
    <2>1. r.buf \in B
      BY <1>1
    <2> QED  BY <2>1
  <1>3. r.next + 1 \in Nat
    BY <1>1
  <1> HIDE DEF B
  <1> QED  BY <1>1, <1>2, <1>3

\* The next block keeps the types and brings the buffer to the end of its part.
LEMMA ReadBlockTyped ==
    ASSUME Typed, ReadBlock
    PROVE  Typed'
  <1>1. /\ rd # NoRead /\ ReadOK(rd) /\ rd.next <= EndIdx(rd)
        /\ rd' = [rd EXCEPT !.next = @ + 1, !.buf = @ \o Piece(rd)]
        /\ UNCHANGED <<dmap, live, inode, sect, said, overrun>>
    BY NextPiece DEF Typed
  <1>2. /\ rd \in Reading /\ rd.offset < rd.node.len
        /\ rd.next \in StartIdx(rd) .. EndIdx(rd) /\ Len(rd.buf) = Upto(rd) - rd.offset
        /\ StartIdx(rd) \in Nat /\ EndIdx(rd) \in Nat /\ rd.next \in Nat /\ rd.offset \in Nat
    BY <1>1, Extent DEF ReadOK, Reading
  <1>3. /\ Piece(rd) \in Seq(Symbol \cup {Unknown}) /\ Len(Piece(rd)) = To(rd) - From(rd)
    BY <1>1, PieceTyped
  <1>4. /\ rd.buf \o Piece(rd) \in Seq(Symbol \cup {Unknown})
        /\ Len(rd.buf \o Piece(rd)) = Len(rd.buf) + Len(Piece(rd))
    <2>1. rd.buf \in Seq(Symbol \cup {Unknown})
      BY <1>2 DEF Reading
    <2> QED  BY <1>3, <2>1
  <1>5. /\ rd' \in Reading /\ rd'.next = rd.next + 1 /\ rd'.node = rd.node
        /\ rd'.offset = rd.offset /\ rd'.length = rd.length /\ rd'.buf = rd.buf \o Piece(rd)
    <2>1. Piece(rd) \in Seq(Symbol \cup {Unknown})
      BY <1>3
    <2> QED  BY <1>1, <1>2, <2>1, LongerBuffer
  <1>6. StartIdx(rd)' = StartIdx(rd) /\ EndIdx(rd)' = EndIdx(rd)
    BY <1>5 DEF StartIdx, EndIdx, EndPos
  <1>7. /\ Upto(rd') = SECTOR_SIZE * rd.next + To(rd)
        /\ Upto(rd) = SECTOR_SIZE * rd.next + From(rd)
        /\ From(rd) \in Int /\ To(rd) \in Int
    <2>1. \A s \in Reading : s.next = rd.next + 1 /\ s.node = rd.node
                             /\ s.offset = rd.offset /\ s.length = rd.length
                             => Upto(s) = SECTOR_SIZE * rd.next + To(rd)
      BY <1>1, Part
    <2>2. /\ From(rd) \in 0 .. SECTOR_SIZE /\ To(rd) \in From(rd) .. SECTOR_SIZE
          /\ Upto(rd) = SECTOR_SIZE * rd.next + From(rd)
      BY <1>1, Part
    <2>3. From(rd) \in Int /\ To(rd) \in Int
      BY <2>2, Sizes
    <2> QED  BY <1>5, <2>1, <2>2, <2>3
  <1>8. Len(rd'.buf) = Upto(rd') - rd'.offset
    BY <1>2, <1>3, <1>4, <1>5, <1>7, Sizes
  <1>9. ReadOK(rd')
    BY <1>2, <1>5, <1>6, <1>8 DEF ReadOK
  <1>10. MapsOK'
    BY <1>1 DEF Typed, MapsOK
  <1> QED  BY <1>1, <1>9, <1>10 DEF Typed

\* A chunk of a text holds bytes.
LEMMA ChunkTyped ==
    ASSUME NEW f \in Files, NEW t, t \in Text, NEW i
    PROVE  Chunk(f, t, i) \in Sector
  <1>1. \A o \in Offs : o \in 0 .. MAX_LEN - 1
    BY Sizes DEF Offs
  <1>2. \A o \in Offs : [file |-> f, ver |-> t.ver, pos |-> o] \in Byte
    BY <1>1 DEF Byte, Text
  <1> QED  BY <1>2 DEF Chunk, Sector, Symbol

\* A freed sector is full of zeros.
LEMMA ZerosTyped == [o \in Offs |-> Zero] \in Sector
  BY DEF Sector, Symbol

\* Writing and freeing blocks leaves sectors of bytes.
LEMMA StoredTyped ==
    ASSUME Typed, NEW gone, NEW a, NEW f \in Files, NEW t,
           DOMAIN a # {} => t \in Text
    PROVE  Stored(gone, a, f, t) \in [LBA -> Sector]
  <1>1. ASSUME NEW l \in LBA, NEW i, DOMAIN a # {}
        PROVE  Chunk(f, t, i) \in Sector
    BY <1>1, ChunkTyped
  <1>2. \A l \in LBA : sect[l] \in Sector
    BY DEF Typed
  <1> DEFINE into(l) == {i \in DOMAIN a : idx2LBA(a[i]) = l}
             new(l) == Chunk(f, t, CHOOSE i \in into(l) : \A j \in into(l) : j <= i)
  <1>3. \A l \in LBA : into(l) # {} => new(l) \in Sector
    BY <1>1
  <1>4. Stored(gone, a, f, t) = [l \in LBA |-> IF into(l) # {} THEN new(l)
                                   ELSE IF \E b \in gone : idx2LBA(b) = l THEN [o \in Offs |-> Zero]
                                   ELSE sect[l]]
    BY DEF Stored
  <1> HIDE DEF into, new
  <1> QED  BY <1>2, <1>3, <1>4, ZerosTyped

\* A read that is under way stays one when its file is touched.
LEMMA TouchedTyped ==
    ASSUME Typed, NEW f, Touched(f)
    PROVE  rd' # NoRead => ReadOK(rd')
  <1>1. CASE rd' = rd
    BY <1>1 DEF Typed
  <1>2. CASE rd # NoRead /\ rd' = [rd EXCEPT !.quiet = FALSE]
    <2>1. ReadOK(rd)
      BY <1>2 DEF Typed
    <2>2. /\ rd' \in Reading /\ rd'.next = rd.next /\ rd'.buf = rd.buf /\ rd'.node = rd.node
          /\ rd'.offset = rd.offset /\ rd'.length = rd.length
      <3> DEFINE B == Seq(Symbol \cup {Unknown})
                 R == [file : Files, node : Inode, offset : Nat, length : Nat \ {0}, next : Nat,
                       buf : B, quiet : BOOLEAN]
      <3>1. rd \in R /\ Reading = R
        BY <2>1 DEF ReadOK, Reading
      <3> HIDE DEF B
      <3> QED  BY <1>2, <3>1
    <2>3. /\ StartIdx(rd') = StartIdx(rd) /\ EndPos(rd') = EndPos(rd) /\ EndIdx(rd') = EndIdx(rd)
      BY <2>2 DEF StartIdx, EndIdx, EndPos
    <2>4. Upto(rd') = Upto(rd)
      BY <2>2, <2>3 DEF Upto
    <2> QED  BY <2>1, <2>2, <2>3, <2>4 DEF ReadOK
  <1> QED  BY <1>1, <1>2 DEF Touched

\* The types hold of an empty disk.
LEMMA InitTyped == Init => Typed
  <1> SUFFICES ASSUME Init PROVE Typed  OBVIOUS
  <1>1. MapsOK
    BY InitIInv DEF IInv
  <1>2. sect \in [LBA -> Sector]
    BY ZerosTyped DEF Init
  <1>3. said \in [Files -> Text \cup {NoText, Lost}] /\ rd = NoRead
    BY DEF Init
  <1> QED  BY <1>1, <1>2, <1>3 DEF Typed

\* create_file keeps the types.
LEMMA CreateTyped ==
    ASSUME Typed, NEW f \in Files, Create(f)
    PROVE  Typed'
  <1>1. MapsOK'
    <2>1. MapsOK /\ inode' = write_inode(f, FreshInode) /\ live' = live \cup {f} /\ dmap' = dmap
          /\ overrun' = overrun
      BY DEF Typed, Create
    <2>2. inode' \in [ILBA -> Inode]
      BY <2>1, FreshTyped, WrittenInode
    <2> QED  BY <2>1, <2>2 DEF MapsOK
  <1>2. rd' # NoRead => ReadOK(rd')
    BY TouchedTyped DEF Create
  <1>3. sect' \in [LBA -> Sector] /\ said' \in [Files -> Text \cup {NoText, Lost}]
    BY DEF Typed, Create
  <1> QED  BY <1>1, <1>2, <1>3 DEF Typed

\* delete_file keeps the types.
LEMMA DeleteTyped ==
    ASSUME Typed, NEW f \in Files, Delete(f)
    PROVE  Typed'
  <1>1. MapsOK'
    BY DEF Typed, MapsOK, Delete
  <1>2. rd' # NoRead => ReadOK(rd')
    BY TouchedTyped DEF Delete
  <1>3. said' \in [Files -> Text \cup {NoText, Lost}]
    BY DEF Typed, Delete
  <1>4. sect' \in [LBA -> Sector]
    <2> DEFINE none == <<>>
    <2>1. DOMAIN none = {}
      OBVIOUS
    <2>2. sect' = Stored(Freed(f), none, f, NoText)
      BY DEF Delete
    <2> HIDE DEF none
    <2> QED  BY <2>1, <2>2, StoredTyped
  <1> QED  BY <1>1, <1>2, <1>3, <1>4 DEF Typed

\* A write, with the blocks it got: a.
Write(f, t, a) ==
    /\ f \in live /\ live' = live /\ Touched(f)
    /\ t.len \in 0 .. MAX_LEN /\ overrun' = overrun
    /\ TakesLowest(a, DB \ (dmap \ Freed(f)))
    /\ dmap' = (dmap \ Freed(f)) \cup {a[i] : i \in DOMAIN a}
    /\ sect' = Stored(Freed(f), a, f, t)
    /\ \/ /\ a \in [0 .. BlocksFor(t.len) - 1 -> DB]
          /\ inode' = write_inode(f,
                       [len |-> t.len,
                        data_blocks |-> [i \in Slots |-> IF i < BlocksFor(t.len) THEN a[i]
                                                        ELSE read_inode(f).data_blocks[i]]])
          /\ said' = [said EXCEPT ![f] = t]
       \/ said' = [said EXCEPT ![f] = Lost] /\ inode' = inode

\* A call of write_content is one such write.
LEMMA WriteIs ==
    ASSUME NEW f, NEW t, FileWrite(f, t)
    PROVE  \E a : Write(f, t, a) /\ \E n : DOMAIN a = 0 .. n - 1
  <1> DEFINE free == DB \ (dmap \ Freed(f))
             need == BlocksFor(t.len)
  <1>1. f \in live /\ live' = live /\ Touched(f) /\ t.len \in 0 .. MAX_LEN /\ overrun' = overrun
    BY DEF FileWrite
  <1>2. PICK got \in 0 .. need : \E a \in [0 .. got - 1 -> DB] :
          /\ TakesLowest(a, free)
          /\ dmap' = (dmap \ Freed(f)) \cup {a[i] : i \in DOMAIN a}
          /\ sect' = Stored(Freed(f), a, f, t)
          /\ \/ /\ got = need
                /\ inode' = write_inode(f,
                       [len |-> t.len,
                        data_blocks |-> [i \in Slots |-> IF i < need THEN a[i]
                                                        ELSE read_inode(f).data_blocks[i]]])
                /\ said' = [said EXCEPT ![f] = t]
             \/ said' = [said EXCEPT ![f] = Lost] /\ inode' = inode
    BY DEF FileWrite
  <1>3. PICK a \in [0 .. got - 1 -> DB] :
          /\ TakesLowest(a, free)
          /\ dmap' = (dmap \ Freed(f)) \cup {a[i] : i \in DOMAIN a}
          /\ sect' = Stored(Freed(f), a, f, t)
          /\ \/ /\ got = need
                /\ inode' = write_inode(f,
                       [len |-> t.len,
                        data_blocks |-> [i \in Slots |-> IF i < need THEN a[i]
                                                        ELSE read_inode(f).data_blocks[i]]])
                /\ said' = [said EXCEPT ![f] = t]
             \/ said' = [said EXCEPT ![f] = Lost] /\ inode' = inode
    BY <1>2
  <1>4. Write(f, t, a)
    BY <1>1, <1>3 DEF Write
  <1> QED  BY <1>3, <1>4

\* What a write leaves in the inode is one.
LEMMA WriteMaps ==
    ASSUME MapsOK, NEW f \in Files, NEW t, NEW a, Write(f, t, a)
    PROVE  MapsOK'
  <1>1. live' = live /\ overrun' = overrun /\ dmap' = (dmap \ Freed(f)) \cup {a[i] : i \in DOMAIN a}
        /\ \A i \in DOMAIN a : a[i] \in DB
    BY DEF Write, TakesLowest
  <1>2. CASE inode' = inode
    BY <1>1, <1>2 DEF MapsOK
  <1>3. CASE inode' # inode
    <2> DEFINE need == BlocksFor(t.len)
               node == [len |-> t.len,
                        data_blocks |-> [i \in Slots |-> IF i < need THEN a[i]
                                                        ELSE read_inode(f).data_blocks[i]]]
    <2>1. t.len \in 0 .. MAX_LEN /\ a \in [0 .. need - 1 -> DB] /\ inode' = write_inode(f, node)
      BY <1>3 DEF Write
    <2>2. need \in 0 .. FILE_BLKSIZE_LIM /\ read_inode(f) \in Inode
      BY <2>1, BlocksForBounds, ReadInode
    <2>3. \A i \in Slots : i < need => i \in 0 .. need - 1
      <3> HIDE DEF need
      <3> QED  BY <2>2 DEF Slots
    <2>4. node \in Inode
      <3> HIDE DEF need
      <3> QED  BY <2>1, <2>2, <2>3 DEF Inode
    <2>5. inode' \in [ILBA -> Inode]
      BY <2>1, <2>4, WrittenInode
    <2> QED  BY <1>1, <2>5 DEF MapsOK
  <1> QED  BY <1>2, <1>3

\* write_content keeps the types, when it fails too.
LEMMA WriteTyped ==
    ASSUME Typed, NEW f \in Files, NEW t \in [ver : Texts, len : Lengths], FileWrite(f, t)
    PROVE  Typed'
  <1>1. t \in Text
    BY DEF Text, FileWrite
  <1>2. PICK a : Write(f, t, a)
    BY WriteIs
  <1>3. sect' \in [LBA -> Sector]
    BY <1>1, <1>2, StoredTyped DEF Write
  <1>4. said' \in [Files -> Text \cup {NoText, Lost}]
    BY <1>1, <1>2 DEF Write, Typed
  <1>5. rd' # NoRead => ReadOK(rd')
    BY <1>2, TouchedTyped DEF Write
  <1>6. MapsOK'
    BY <1>2, WriteMaps DEF Typed
  <1> QED  BY <1>3, <1>4, <1>5, <1>6 DEF Typed

\* A read begins with an empty buffer, at its offset.
LEMMA ReadStartTyped ==
    ASSUME Typed, NEW f \in Files, NEW r \in Reads, ReadStart(f, r)
    PROVE  Typed'
  <1>1. /\ r.offset \in Nat /\ r.length \in Nat \ {0} /\ r.offset < read_inode(f).len
        /\ read_inode(f) \in Inode /\ StartIdx(r) = r.offset \div SECTOR_SIZE
    BY SizesAssumption, ReadInode DEF ReadStart, Typed, StartIdx
  <1>2. StartIdx(r) \in Nat
    BY <1>1, Sizes, DivMod
  <1>3. /\ rd' \in Reading /\ rd'.offset = r.offset /\ rd'.node = read_inode(f)
        /\ rd'.next = StartIdx(r) /\ rd'.buf = <<>>
    <2> DEFINE B == Seq(Symbol \cup {Unknown})  none == <<>>
    <2>1. none \in B
      OBVIOUS
    <2>2. rd' = [file |-> f, node |-> read_inode(f), offset |-> r.offset, length |-> r.length,
                 next |-> StartIdx(r), buf |-> none, quiet |-> TRUE]
      BY DEF ReadStart
    <2>3. Reading = [file : Files, node : Inode, offset : Nat, length : Nat \ {0}, next : Nat,
                     buf : B, quiet : BOOLEAN]
      BY DEF Reading
    <2> HIDE DEF B, none
    <2>4. /\ rd' \in Reading /\ rd'.offset = r.offset /\ rd'.node = read_inode(f)
          /\ rd'.next = StartIdx(r) /\ rd'.buf = none
      BY <1>1, <1>2, <2>1, <2>2, <2>3
    <2> QED  BY <2>4 DEF none
  <1>4. StartIdx(rd') = StartIdx(r) /\ EndIdx(rd') \in StartIdx(rd') .. FILE_BLKSIZE_LIM
    BY <1>1, <1>3, Extent DEF StartIdx
  <1>5. Upto(rd') = rd'.offset
    BY <1>3, <1>4 DEF Upto
  <1>6. rd'.next \in StartIdx(rd') .. EndIdx(rd') + 1
    BY <1>2, <1>3, <1>4, Sizes
  <1>7. Len(rd'.buf) = Upto(rd') - rd'.offset
    <2>1. Len(<<>>) = 0
      OBVIOUS
    <2> QED  BY <1>1, <1>3, <1>5, <2>1
  <1>8. ReadOK(rd')
    BY <1>1, <1>3, <1>6, <1>7 DEF ReadOK
  <1>9. UNCHANGED <<dmap, live, inode, sect, said, overrun>>
    BY DEF ReadStart
  <1> QED  BY <1>8, <1>9 DEF Typed, MapsOK

\* The types of the sectors' bytes and of the read are those of TypeOK.
LEMMA TypedTypes == Typed => Types
  <1> SUFFICES ASSUME Typed PROVE Types  OBVIOUS
  <1>1. ASSUME rd # NoRead
        PROVE  /\ rd.file \in Files /\ rd.node \in Inode
               /\ rd.next \in 0 .. FILE_BLKSIZE_LIM + 1 /\ Len(rd.buf) <= MAX_LEN
    <2>1. /\ rd \in Reading /\ rd.offset < rd.node.len /\ rd.next \in StartIdx(rd) .. EndIdx(rd) + 1
          /\ Len(rd.buf) = Upto(rd) - rd.offset /\ rd.offset \in Nat
          /\ rd.file \in Files /\ rd.node \in Inode /\ rd.next \in Nat
      BY <1>1 DEF Typed, ReadOK, Reading
    <2>2. /\ EndPos(rd) \in Nat /\ EndPos(rd) <= MAX_LEN /\ StartIdx(rd) \in Nat /\ rd.offset < EndPos(rd)
          /\ EndIdx(rd) \in StartIdx(rd) .. FILE_BLKSIZE_LIM
      <3>1. rd \in Reading /\ rd.offset < rd.node.len
        BY <2>1
      <3>2. EndPos(rd) \in Nat /\ EndPos(rd) <= rd.node.len /\ rd.node.len <= MAX_LEN
        BY <3>1, Extent
      <3>3. rd.node.len \in Nat
        BY <2>1, Sizes DEF Inode
      <3> QED  BY <3>1, <3>2, <3>3, Extent, Sizes
    <2>3. Upto(rd) \in Int /\ Upto(rd) <= EndPos(rd)
      <3>1. rd.next * SECTOR_SIZE \in Int
        BY <2>1, Sizes
      <3> QED  BY <2>1, <2>2, <3>1 DEF Upto, Lesser
    <2> QED  BY <2>1, <2>2, <2>3, Sizes
  <1> QED  BY <1>1 DEF Typed, Types, Sector, Symbol, Text

\* Every step keeps the types.
LEMMA StepTyped == Typed /\ [Next]_vars => Typed'
  <1> SUFFICES ASSUME Typed, [Next]_vars PROVE Typed'  OBVIOUS
  <1>1. ASSUME NEW f \in Files, Create(f)  PROVE Typed'
    BY <1>1, CreateTyped
  <1>2. ASSUME NEW f \in Files, Delete(f)  PROVE Typed'
    BY <1>2, DeleteTyped
  <1>3. ASSUME NEW f \in Files, NEW v \in Texts, NEW n \in Lengths,
               FileWrite(f, [ver |-> v, len |-> n])
        PROVE  Typed'
    BY <1>3, WriteTyped
  <1>4. ASSUME NEW f \in Files, NEW n \in Lengths, Overrun(f, n)  PROVE Typed'
    BY <1>4 DEF Overrun, Typed, MapsOK
  <1>5. ASSUME NEW f \in Files, NEW r \in Reads, ReadStart(f, r)  PROVE Typed'
    BY <1>5, ReadStartTyped
  <1>6. CASE ReadBlock
    BY <1>6, ReadBlockTyped
  <1>7. CASE ReadEnd
    BY <1>7 DEF ReadEnd, Typed, MapsOK
  <1>8. CASE UNCHANGED vars
    BY <1>8 DEF vars, Typed, MapsOK
  <1> QED  BY <1>1, <1>2, <1>3, <1>4, <1>5, <1>6, <1>7, <1>8 DEF Next

\* Every index is one of a block, every sector holds bytes that were written or
\* zeros, and a read stays in its file and its buffer, whatever inodes the files
\* have and whatever lengths are asked for.
THEOREM TypeCorrect == Spec => []TypeOK
  <1>1. Init => Typed
    BY InitTyped
  <1>2. Typed /\ [Next]_vars => Typed'
    BY StepTyped
  <1>3. Typed => TypeOK
    BY TypedTypes DEF TypeOK
  <1> QED  BY <1>1, <1>2, <1>3, PTL DEF Spec

----------------------------------------------------------------------------
(* Contents.                                                                *)

\* No two blocks in use share a sector.  idx2LBA has one sector for all indexes
\* above FNODE_NUM_LIM.
SectorsApart == \A b, c \in dmap : idx2LBA(b) = idx2LBA(c) => b = c

\* The blocks of f hold the text last written to it.
Kept(f) ==
    /\ read_inode(f).len = said[f].len
    /\ \A i \in 0 .. BlocksFor(read_inode(f).len) - 1 :
          sect[idx2LBA(read_inode(f).data_blocks[i])] = Chunk(f, said[f], i)
\* All files do, but those a failed write has left.
AllKept == \A f \in live : said[f] # Lost => Kept(f)

\* The byte at the position p of a text.
ByteAt(f, t, p) == Chunk(f, t, p \div SECTOR_SIZE)[p % SECTOR_SIZE]

\* What a read has so far, if nobody has touched its file.
ReadKept ==
    rd # NoRead /\ rd.quiet =>
       /\ rd.file \in live /\ rd.node = read_inode(rd.file)
       /\ said[rd.file] # Lost =>
            \A k \in 1 .. Len(rd.buf) :
               rd.buf[k] = ByteAt(rd.file, said[rd.file], rd.offset + k - 1)

\* A position is in one of the blocks of the text.
LEMMA InBlocks ==
    ASSUME NEW len \in 0 .. MAX_LEN, NEW p \in Nat, p < len
    PROVE  /\ p \div SECTOR_SIZE \in 0 .. BlocksFor(len) - 1
           /\ p \div SECTOR_SIZE \in Slots
           /\ p % SECTOR_SIZE \in Offs
  <1> DEFINE q == p \div SECTOR_SIZE
  <1>1. q \in Nat /\ p % SECTOR_SIZE \in 0 .. SECTOR_SIZE - 1 /\ p = SECTOR_SIZE * q + (p % SECTOR_SIZE)
    BY Sizes, DivMod
  <1>2. SECTOR_SIZE * (q + 1) = SECTOR_SIZE * q + SECTOR_SIZE /\ SECTOR_SIZE * q \in Int
        /\ (q + 1) * SECTOR_SIZE = SECTOR_SIZE * (q + 1)
    BY <1>1, Sizes, Multiples
  <1>3. SECTOR_SIZE * (q + 1) <= len + SECTOR_SIZE - 1 /\ len \in Nat
    <2> HIDE DEF q
    <2> QED  BY <1>1, <1>2, Sizes
  <1> HIDE DEF q
  <1>4. q + 1 <= BlocksFor(len)
    <2> DEFINE n == len + SECTOR_SIZE - 1  b == n \div SECTOR_SIZE
    <2>1. n \in Nat /\ b \in Nat /\ n < SECTOR_SIZE * b + SECTOR_SIZE
      BY <1>3, Sizes, DivBounds
    <2>2. b < q + 1 => SECTOR_SIZE * b + SECTOR_SIZE <= SECTOR_SIZE * (q + 1)
      BY <1>1, <2>1, Sizes, Multiples
    <2>3. SECTOR_SIZE * b \in Int /\ SECTOR_SIZE * (q + 1) \in Int
      BY <1>1, <2>1, Sizes
    <2>4. BlocksFor(len) = b
      BY DEF BlocksFor
    <2>5. n = len + SECTOR_SIZE - 1
      OBVIOUS
    <2> HIDE DEF n, b
    <2> QED  BY <1>1, <1>3, <2>1, <2>2, <2>3, <2>4, <2>5, Sizes
  <1>5. BlocksFor(len) \in 0 .. FILE_BLKSIZE_LIM
    BY BlocksForBounds
  <1> QED  BY <1>1, <1>4, <1>5, Sizes DEF Slots, Offs, q

\* The blocks of a file, one by one.
LEMMA BlockOf ==
    ASSUME MapsOK, NEW f \in Files
    PROVE  /\ read_inode(f).len \in 0 .. MAX_LEN
           /\ \A i \in 0 .. BlocksFor(read_inode(f).len) - 1 :
                 read_inode(f).data_blocks[i] \in Blocks(f) /\ read_inode(f).data_blocks[i] \in DB
  BY FreedAreBlocks, ReadInode DEF Inode, Blocks

\* A sector that no block written or freed has stays as it is.
LEMMA StoredElsewhere ==
    ASSUME NEW gone, NEW a, NEW f, NEW t, NEW b \in DB,
           \A i \in DOMAIN a : idx2LBA(a[i]) # idx2LBA(b),
           \A c \in gone : idx2LBA(c) # idx2LBA(b)
    PROVE  Stored(gone, a, f, t)[idx2LBA(b)] = sect[idx2LBA(b)]
  <1>1. idx2LBA(b) \in LBA
    BY DEF LBA
  <1>2. {i \in DOMAIN a : idx2LBA(a[i]) = idx2LBA(b)} = {}
    OBVIOUS
  <1> QED  BY <1>1, <1>2 DEF Stored

\* A sector that one block written has gets its chunk.
LEMMA StoredThere ==
    ASSUME NEW gone, NEW a, NEW f, NEW t, NEW i \in DOMAIN a, i \in Int, a[i] \in DB,
           \A j \in DOMAIN a : idx2LBA(a[j]) = idx2LBA(a[i]) => j = i
    PROVE  Stored(gone, a, f, t)[idx2LBA(a[i])] = Chunk(f, t, i)
  <1> DEFINE l == idx2LBA(a[i])  into == {j \in DOMAIN a : idx2LBA(a[j]) = l}
  <1>1. l \in LBA
    BY DEF LBA
  <1>2. into = {i}
    OBVIOUS
  <1>3. \A x : (x \in into /\ \A j \in into : j <= x) <=> x = i
    BY <1>2
  <1>4. (CHOOSE x \in into : \A j \in into : j <= x) = i
    BY <1>3
  <1>5. Stored(gone, a, f, t)[l] =
          IF into # {} THEN Chunk(f, t, CHOOSE x \in into : \A j \in into : j <= x)
          ELSE IF \E b \in gone : idx2LBA(b) = l THEN [o \in Offs |-> Zero]
          ELSE sect[l]
    BY <1>1 DEF Stored
  <1> HIDE DEF into, l
  <1> QED  BY <1>2, <1>4, <1>5 DEF l

\* Creating and writing leave the inodes of the other files.
LEMMA CreateOthers ==
    ASSUME MapsOK, InodesApart', NEW f \in Files, Create(f), NEW g \in live, g # f
    PROVE  g \in live' /\ read_inode(g)' = read_inode(g)
  <1>1. live' = live \cup {f} /\ inode' = write_inode(f, FreshInode) /\ g \in Files
    BY DEF Create, MapsOK
  <1>2. idx2LBA(g) # idx2LBA(f)
    BY <1>1 DEF InodesApart
  <1> QED  BY <1>1, <1>2, WrittenInode

LEMMA WriteOthers ==
    ASSUME MapsOK, InodesApart, NEW f \in Files, NEW t, NEW a, Write(f, t, a),
           NEW g \in live, g # f
    PROVE  g \in live' /\ read_inode(g)' = read_inode(g)
  <1>1. f \in live /\ live' = live /\ g \in Files
    BY DEF Write, MapsOK
  <1>2. CASE inode' = inode
    BY <1>1, <1>2, SameInodes
  <1>3. CASE inode' # inode
    <2>1. PICK n : inode' = write_inode(f, n)
      BY <1>3 DEF Write
    <2>2. idx2LBA(g) # idx2LBA(f)
      BY <1>1 DEF InodesApart
    <2> QED  BY <1>1, <2>1, <2>2, WrittenInode
  <1> QED  BY <1>2, <1>3

\* A file that is not written and whose sectors stay is kept.
LEMMA KeptOn ==
    ASSUME MapsOK, NEW g \in Files, Kept(g), read_inode(g)' = read_inode(g), said'[g] = said[g],
           \A b \in Blocks(g) : sect'[idx2LBA(b)] = sect[idx2LBA(b)]
    PROVE  Kept(g)'
  BY BlockOf DEF Kept

\* So are the files that others are written and deleted beside.
LEMMA OthersKept ==
    ASSUME IInv, SectorsApart, NEW f \in live, NEW g \in live, g # f, Kept(g),
           read_inode(g)' = read_inode(g), said'[g] = said[g], NEW a, NEW t,
           sect' = Stored(Freed(f), a, f, t),
           \A i \in DOMAIN a : \A b \in dmap \ Freed(f) : idx2LBA(a[i]) # idx2LBA(b)
    PROVE  Kept(g)'
  <1>1. f \in Files /\ g \in Files /\ MapsOK
    BY DEF IInv, MapsOK
  <1>2. /\ Freed(f) \subseteq Blocks(f) /\ Blocks(f) \subseteq dmap /\ Blocks(g) \subseteq dmap
        /\ Blocks(g) \cap Blocks(f) = {} /\ Blocks(g) \subseteq DB
    BY <1>1, FreedAreBlocks DEF IInv, Owned
  <1>3. ASSUME NEW b \in Blocks(g) PROVE sect'[idx2LBA(b)] = sect[idx2LBA(b)]
    <2>1. \A c \in Freed(f) : idx2LBA(c) # idx2LBA(b)
      BY <1>2 DEF SectorsApart
    <2>2. b \in dmap \ Freed(f) /\ b \in DB
      BY <1>2
    <2> QED  BY <2>1, <2>2, StoredElsewhere
  <1> QED  BY <1>1, <1>3, KeptOn

\* A write stores its text, and no other file has one of the sectors it writes.
LEMMA WriteKept ==
    ASSUME IInv, Typed, AllKept, InodesApart, SectorsApart, SectorsApart', NEW f \in Files,
           NEW t \in [ver : Texts, len : Lengths], FileWrite(f, t)
    PROVE  AllKept'
  <1>1. PICK a : Write(f, t, a) /\ \E n : DOMAIN a = 0 .. n - 1
    BY WriteIs
  <1> DEFINE need == BlocksFor(t.len)
  <1>2. /\ f \in live /\ live' = live /\ sect' = Stored(Freed(f), a, f, t)
        /\ TakesLowest(a, DB \ (dmap \ Freed(f)))
        /\ dmap' = (dmap \ Freed(f)) \cup {a[i] : i \in DOMAIN a}
    BY <1>1 DEF Write
  <1>3. \A i \in DOMAIN a : a[i] \in dmap' /\ a[i] \in DB /\ a[i] \notin dmap \ Freed(f)
    BY <1>2 DEF TakesLowest
  <1>4. \A i \in DOMAIN a : \A b \in dmap \ Freed(f) : idx2LBA(a[i]) # idx2LBA(b)
    BY <1>2, <1>3 DEF SectorsApart
  <1>5. ASSUME NEW g \in live, g # f, said'[g] # Lost PROVE Kept(g)'
    <2>1. read_inode(g)' = read_inode(g) /\ said'[g] = said[g]
      <3>1. MapsOK /\ g \in Files  BY DEF IInv, MapsOK
      <3>2. read_inode(g)' = read_inode(g)  BY <1>1, <1>5, <3>1, WriteOthers
      <3> QED  BY <1>1, <1>5, <3>1, <3>2 DEF Write, Typed
    <2>2. Kept(g)
      BY <1>5, <2>1 DEF AllKept
    <2> QED  BY <1>2, <1>4, <1>5, <2>1, <2>2, OthersKept
  <1>6. ASSUME said'[f] # Lost PROVE Kept(f)'
    <2>1. /\ a \in [0 .. need - 1 -> DB]
          /\ inode' = write_inode(f,
                       [len |-> t.len,
                        data_blocks |-> [i \in Slots |-> IF i < need THEN a[i]
                                                        ELSE read_inode(f).data_blocks[i]]])
          /\ said' = [said EXCEPT ![f] = t]
      BY <1>1, <1>6 DEF Write, Typed
    <2>2. t.len \in 0 .. MAX_LEN /\ need \in 0 .. FILE_BLKSIZE_LIM
      BY <1>1, BlocksForBounds DEF Write
    <2> DEFINE node == [len |-> t.len,
                        data_blocks |-> [i \in Slots |-> IF i < need THEN a[i]
                                                        ELSE read_inode(f).data_blocks[i]]]
    <2>node. read_inode(f)' = node
      BY <2>1, WrittenInode DEF IInv
    <2>3. said'[f] = t /\ read_inode(f)'.len = t.len
      BY <2>1, <2>node DEF Typed
    <2>4. ASSUME NEW i \in 0 .. need - 1
          PROVE  read_inode(f)'.data_blocks[i] = a[i] /\ i \in DOMAIN a /\ i \in Int
      <3>1. i \in Slots /\ i < need /\ i \in Int
        <4> HIDE DEF need
        <4> QED  BY <2>2, Sizes DEF Slots
      <3> QED  BY <2>1, <2>node, <3>1
    <2>5. ASSUME NEW i \in 0 .. need - 1
          PROVE  sect'[idx2LBA(a[i])] = Chunk(f, t, i)
      <3>1. i \in DOMAIN a /\ i \in Int /\ DOMAIN a = 0 .. need - 1
        BY <2>1, <2>4
      <3>2. \A j \in DOMAIN a : idx2LBA(a[j]) = idx2LBA(a[i]) => a[j] = a[i]
        BY <1>3, <3>1 DEF SectorsApart
      <3>3. \A j \in DOMAIN a : a[j] = a[i] => j = i
        <4>1. ASSUME NEW j \in DOMAIN a, a[j] = a[i] PROVE j = i
          <5>1. j \in Int /\ a[i] \in Int
            BY <1>3, <3>1 DEF DB
          <5>2. ~(i < j) /\ ~(j < i)
            BY <1>2, <3>1, <4>1, <5>1 DEF TakesLowest
          <5> QED  BY <3>1, <5>1, <5>2
        <4> QED  BY <4>1
      <3>4. \A j \in DOMAIN a : idx2LBA(a[j]) = idx2LBA(a[i]) => j = i
        BY <3>2, <3>3
      <3>5. Stored(Freed(f), a, f, t)[idx2LBA(a[i])] = Chunk(f, t, i)
        <4>1. i \in DOMAIN a /\ i \in Int /\ a[i] \in DB
          BY <1>3, <3>1
        <4> HIDE DEF need
        <4> QED  BY <4>1, <3>4, StoredThere
      <3> QED  BY <1>2, <3>5
    <2> HIDE DEF need, node
    <2>6. BlocksFor(read_inode(f)'.len) = need
      BY <2>3 DEF need
    <2> QED  BY <2>3, <2>4, <2>5, <2>6 DEF Kept
  <1> QED  BY <1>2, <1>5, <1>6 DEF AllKept

\* The zeros that a deletion writes go to no sector of another file.
LEMMA DeleteKept ==
    ASSUME IInv, Typed, AllKept, SectorsApart, NEW f \in Files, Delete(f)
    PROVE  AllKept'
  <1> DEFINE none == <<>>
  <1>1. DOMAIN none = {}
    OBVIOUS
  <1>2. /\ f \in live /\ live' = live \ {f} /\ sect' = Stored(Freed(f), none, f, NoText)
        /\ inode' = inode /\ said' = [said EXCEPT ![f] = NoText]
    BY DEF Delete
  <1> HIDE DEF none
  <1>3. ASSUME NEW g \in live, g # f, said'[g] # Lost PROVE Kept(g)'
    <2>1. read_inode(g)' = read_inode(g) /\ said'[g] = said[g]
      BY <1>2, <1>3, SameInodes DEF IInv, Typed, MapsOK
    <2>2. Kept(g)
      BY <1>3, <2>1 DEF AllKept
    <2> QED  BY <1>1, <1>2, <1>3, <2>1, <2>2, OthersKept
  <1> QED  BY <1>2, <1>3 DEF AllKept

\* A new file is empty, whatever its number was used for.
LEMMA CreateKept ==
    ASSUME IInv, Typed, AllKept, InodesApart', NEW f \in Files, Create(f)
    PROVE  AllKept'
  <1>1. /\ live' = live \cup {f} /\ inode' = write_inode(f, FreshInode)
        /\ said' = [said EXCEPT ![f] = NoText] /\ sect' = sect /\ MapsOK
    BY DEF Create, IInv
  <1>2. ASSUME NEW g \in live, g # f, said'[g] # Lost PROVE Kept(g)'
    <2>1. read_inode(g)' = read_inode(g) /\ said'[g] = said[g] /\ g \in Files
      <3>1. g \in Files  BY <1>1 DEF MapsOK
      <3>2. read_inode(g)' = read_inode(g)  BY <1>1, <1>2, CreateOthers
      <3> QED  BY <1>1, <1>2, <3>1, <3>2 DEF Typed
    <2>2. Kept(g)
      BY <1>2, <2>1 DEF AllKept
    <2> QED  BY <1>1, <2>1, <2>2, KeptOn
  <1>3. Kept(f)'
    <2>1. read_inode(f)'.len = 0 /\ said'[f].len = 0
      <3>1. read_inode(f)' = FreshInode  BY <1>1, WrittenInode
      <3> QED  BY <1>1, <3>1 DEF Typed, FreshInode, NoText
    <2>2. BlocksFor(0) = 0
      BY BlocksForBounds, Sizes
    <2> QED  BY <2>1, <2>2 DEF Kept
  <1> QED  BY <1>1, <1>2, <1>3 DEF AllKept

\* The invariant of the contents.
ContentInv == IInv /\ Typed /\ AllKept /\ ReadKept

\* A read that nobody's work on its file has touched goes on as it was.
LEMMA TouchedKept ==
    ASSUME Typed, ReadKept, NEW f, Touched(f),
           \A g \in live : g # f => g \in live' /\ read_inode(g)' = read_inode(g) /\ said'[g] = said[g]
    PROVE  ReadKept'
  <1> SUFFICES ASSUME rd' # NoRead, rd'.quiet
               PROVE  /\ rd'.file \in live' /\ rd'.node = read_inode(rd.file)'
                      /\ said'[rd'.file] # Lost =>
                            \A k \in 1 .. Len(rd'.buf) :
                               rd'.buf[k] = ByteAt(rd'.file, said'[rd'.file], rd'.offset + k - 1)
    BY DEF ReadKept
  <1>1. rd # NoRead => rd \in Reading
    BY DEF Typed, ReadOK
  <1>2. rd' = rd /\ rd # NoRead /\ rd.file # f
    <2>1. CASE rd # NoRead /\ rd.file = f
      <3>1. rd'.quiet = FALSE
        BY <1>1, <2>1 DEF Touched, Reading
      <3> QED  BY <3>1
    <2> QED  BY <2>1 DEF Touched
  <1>3. rd.file \in live /\ rd.node = read_inode(rd.file)
        /\ (said[rd.file] # Lost =>
              \A k \in 1 .. Len(rd.buf) : rd.buf[k] = ByteAt(rd.file, said[rd.file], rd.offset + k - 1))
    BY <1>2 DEF ReadKept
  <1> QED  BY <1>2, <1>3

\* What a concatenation is made of.
LEMMA JoinOf ==
    ASSUME NEW S, NEW u \in Seq(S), NEW v \in Seq(S)
    PROVE  /\ Len(u) \in Nat /\ Len(v) \in Nat /\ Len(u \o v) = Len(u) + Len(v)
           /\ \A m \in 1 .. Len(u) : (u \o v)[m] = u[m]
           /\ \A m \in 1 .. Len(v) : (u \o v)[Len(u) + m] = v[m]
  OBVIOUS

\* What a part of a sequence is made of.
LEMMA CutOf ==
    ASSUME NEW S, NEW s \in Seq(S), NEW a \in Nat, NEW b \in Nat, a <= b, b <= Len(s)
    PROVE  /\ SubSeq(s, a + 1, b) \in Seq(S) /\ Len(SubSeq(s, a + 1, b)) = b - a
           /\ \A k \in 1 .. b - a : SubSeq(s, a + 1, b)[k] = s[a + k]
  OBVIOUS

\* Sequences with the same elements are the same.
LEMMA SameSequence ==
    ASSUME NEW S, NEW T, NEW u \in Seq(S), NEW v \in Seq(T), Len(u) = Len(v),
           \A k \in 1 .. Len(u) : u[k] = v[k]
    PROVE  u = v
  OBVIOUS

\* A read that begins has nothing yet.
LEMMA ReadStartKept ==
    ASSUME NEW f, NEW r, ReadStart(f, r)
    PROVE  ReadKept'
  <1>1. rd'.file = f /\ rd'.node = read_inode(f) /\ rd'.buf = <<>> /\ f \in live
        /\ UNCHANGED <<live, inode>>
    BY DEF ReadStart
  <1>2. 1 .. Len(<<>>) = {}
    OBVIOUS
  <1> QED  BY <1>1, <1>2 DEF ReadKept, read_inode

\* Where the bytes of the next block of a read are in the file.
LEMMA PositionRead ==
    ASSUME rd # NoRead, ReadOK(rd), rd.next <= EndIdx(rd), NEW i \in Nat,
           i - Len(rd.buf) \in 1 .. To(rd) - From(rd)
    PROVE  LET p == rd.offset + i - 1
           IN  /\ p = SECTOR_SIZE * rd.next + (From(rd) + (i - Len(rd.buf)) - 1)
               /\ p \in Nat /\ p < rd.node.len
  <1>1. /\ rd \in Reading /\ rd.offset < rd.node.len /\ Len(rd.buf) = Upto(rd) - rd.offset
        /\ rd.offset \in Nat /\ rd.buf \in Seq(Symbol \cup {Unknown})
    BY DEF ReadOK, Reading
  <1>2. /\ Upto(rd) = SECTOR_SIZE * rd.next + From(rd) /\ From(rd) \in 0 .. SECTOR_SIZE
        /\ To(rd) \in From(rd) .. SECTOR_SIZE /\ SECTOR_SIZE * rd.next + To(rd) <= EndPos(rd)
        /\ rd.next \in Nat
    BY Part
  <1>3. EndPos(rd) <= rd.node.len /\ EndPos(rd) \in Nat
    BY <1>1, Extent
  <1>4. rd.node.len \in Nat
    BY <1>1, Sizes DEF Reading, Inode
  <1>5. PICK sj \in Nat : sj = SECTOR_SIZE * rd.next
    BY <1>2, Sizes
  <1>6. PICK x \in Nat : x = From(rd)
    BY <1>2
  <1>7. PICK y \in Nat : y = To(rd)
    BY <1>2, Sizes
  <1>8. PICK lo \in Nat : lo = Len(rd.buf)
    BY <1>1
  <1>9. PICK off \in Nat : off = rd.offset
    BY <1>1
  <1>10. PICK len \in Nat : len = rd.node.len
    BY <1>4
  <1>11. PICK e \in Nat : e = EndPos(rd)
    BY <1>3
  <1>12. /\ lo = (sj + x) - off /\ sj + y <= e /\ e <= len /\ i - lo \in 1 .. y - x
    BY <1>1, <1>2, <1>3, <1>5, <1>6, <1>7, <1>8, <1>9, <1>10, <1>11
  <1>13. /\ off + i - 1 = sj + (x + (i - lo) - 1) /\ off + i - 1 < len /\ off + i - 1 \in Nat
    BY ONLY <1>12
  <1> QED
    BY ONLY <1>5, <1>6, <1>8, <1>9, <1>10, <1>13

\* What the next block adds are the bytes of the text at their positions.
LEMMA ReadBlockKept ==
    ASSUME IInv, Typed, AllKept, ReadKept, ReadBlock
    PROVE  ReadKept'
  <1>1. /\ rd # NoRead /\ ReadOK(rd) /\ rd.next <= EndIdx(rd)
        /\ rd' = [rd EXCEPT !.next = @ + 1, !.buf = @ \o Piece(rd)]
        /\ UNCHANGED <<dmap, live, inode, sect, said, overrun>>
    BY NextPiece DEF Typed
  <1> DEFINE f == rd.file  t == said[f]  from == From(rd)  j == rd.next  piece == Piece(rd)
             old == rd.buf
  <1>2. /\ rd \in Reading /\ rd.offset < rd.node.len /\ Len(old) = Upto(rd) - rd.offset
        /\ rd.offset \in Nat /\ old \in Seq(Symbol \cup {Unknown}) /\ f \in Files
    BY <1>1 DEF ReadOK, Reading
  <1>3. /\ piece \in Seq(Symbol \cup {Unknown}) /\ Len(piece) = To(rd) - from
        /\ \A m \in 1 .. Len(piece) :
              /\ piece[m] = read_db(rd.node.data_blocks[j])[from + m - 1]
              /\ from + m - 1 \in Offs
    BY <1>1, PieceTyped
  <1>4. /\ rd'.buf = old \o piece /\ rd'.node = rd.node /\ rd'.offset = rd.offset
        /\ rd'.file = f /\ rd'.quiet = rd.quiet
    <2>1. piece \in Seq(Symbol \cup {Unknown})
      BY <1>3
    <2> HIDE DEF piece
    <2>2. rd' = [rd EXCEPT !.next = @ + 1, !.buf = @ \o piece]
      BY <1>1 DEF piece
    <2> QED  BY <1>2, <2>1, <2>2, LongerBuffer
  <1>5. SUFFICES ASSUME rd.quiet, t # Lost, NEW k \in 1 .. Len(old \o piece)
                 PROVE  (old \o piece)[k] = ByteAt(f, t, rd.offset + k - 1)
    <2>1. rd.quiet => f \in live /\ rd.node = read_inode(f)
      BY <1>1 DEF ReadKept
    <2>2. said'[f] = t /\ live' = live /\ inode' = inode
      BY <1>1
    <2> HIDE DEF f, t, old, piece
    <2> QED  BY <1>4, <2>1, <2>2 DEF ReadKept, read_inode, f
  <1>6. /\ f \in live /\ rd.node = read_inode(f) /\ Kept(f)
        /\ \A m \in 1 .. Len(old) : old[m] = ByteAt(f, t, rd.offset + m - 1)
    BY <1>1, <1>5 DEF ReadKept, AllKept
  <1>7. /\ Len(old) \in Nat /\ Len(piece) \in Nat /\ Len(old \o piece) = Len(old) + Len(piece)
        /\ \A m \in 1 .. Len(old) : (old \o piece)[m] = old[m]
        /\ \A m \in 1 .. Len(piece) : (old \o piece)[Len(old) + m] = piece[m]
    <2> HIDE DEF old, piece
    <2>1. old \in Seq(Symbol \cup {Unknown}) /\ piece \in Seq(Symbol \cup {Unknown})
      BY <1>2, <1>3
    <2> QED  BY ONLY <2>1, JoinOf
  <1>8. CASE k <= Len(old)
    <2> HIDE DEF old, piece, f, t
    <2> QED  BY <1>5, <1>6, <1>7, <1>8
  <1>9. CASE k > Len(old)
    <2> DEFINE m == k - Len(old)  o == from + m - 1  p == rd.offset + k - 1
    <2>1. m \in 1 .. Len(piece) /\ (old \o piece)[k] = piece[m] /\ k \in Nat
      <3> HIDE DEF old, piece
      <3> QED  BY <1>5, <1>7, <1>9
    <2>2. o \in Offs /\ piece[m] = read_db(rd.node.data_blocks[j])[o]
      BY <1>3, <2>1
    <2>3. /\ Upto(rd) = SECTOR_SIZE * j + from /\ from \in Nat /\ To(rd) \in Nat /\ j \in Nat
          /\ SECTOR_SIZE * j + To(rd) <= EndPos(rd) /\ EndPos(rd) <= rd.node.len
          /\ rd.node.len \in 0 .. MAX_LEN /\ EndPos(rd) \in Nat
      <3>1. /\ Upto(rd) = SECTOR_SIZE * j + from /\ from \in 0 .. SECTOR_SIZE
            /\ To(rd) \in from .. SECTOR_SIZE /\ SECTOR_SIZE * j + To(rd) <= EndPos(rd) /\ j \in Nat
        BY <1>1, Part
      <3>2. EndPos(rd) <= rd.node.len /\ EndPos(rd) \in Nat
        BY <1>2, Extent
      <3>3. rd.node.len \in 0 .. MAX_LEN
        BY <1>2 DEF Reading, Inode
      <3> HIDE DEF from, j
      <3> QED  BY <3>1, <3>2, <3>3, Sizes
    <2>4. /\ p = SECTOR_SIZE * j + o /\ o \in 0 .. SECTOR_SIZE - 1 /\ p \in Nat /\ p < rd.node.len
      <3>1. o \in 0 .. SECTOR_SIZE - 1
        BY <2>2 DEF Offs
      <3>2. k \in Nat /\ k - Len(rd.buf) \in 1 .. To(rd) - From(rd)
        BY <1>3, <2>1
      <3>3. /\ p = SECTOR_SIZE * rd.next + (From(rd) + (k - Len(rd.buf)) - 1)
            /\ p \in Nat /\ p < rd.node.len
        BY <1>1, <3>2, PositionRead
      <3> QED  BY <3>1, <3>3
    <2>5. p \div SECTOR_SIZE = j /\ p % SECTOR_SIZE = o
      <3> DEFINE sj == SECTOR_SIZE * j
      <3>1. sj \in Nat /\ sj <= p /\ p < sj + SECTOR_SIZE /\ p - sj = o
        <4>1. sj \in Nat
          BY <2>3, Sizes
        <4> HIDE DEF sj, p, o
        <4> QED  BY <2>4, <4>1, Sizes DEF sj
      <3> HIDE DEF p, o, j
      <3> QED  BY <2>3, <2>4, <3>1, DivIs, Sizes
    <2>6. j \in 0 .. BlocksFor(rd.node.len) - 1
      <3> HIDE DEF p, j
      <3> QED  BY <2>3, <2>4, <2>5, InBlocks
    <2>7. /\ read_inode(f).data_blocks[j] \in Blocks(f) /\ Blocks(f) \subseteq dmap
      BY <1>2, <1>6, <2>6, BlockOf DEF IInv, Owned
    <2>8. sect[idx2LBA(read_inode(f).data_blocks[j])] = Chunk(f, t, j)
      BY <1>6, <2>6 DEF Kept
    <2>9. read_db(rd.node.data_blocks[j]) = Chunk(f, t, j)
      BY <1>6, <2>7, <2>8 DEF read_db
    <2>10. ByteAt(f, t, p) = Chunk(f, t, j)[o]
      BY <2>5 DEF ByteAt
    <2> HIDE DEF f, t, j, o, m, old, piece
    <2> QED  BY <2>1, <2>2, <2>9, <2>10
  <1>10. k <= Len(old) \/ k > Len(old)
    BY <1>5, <1>7
  <1> QED  BY <1>8, <1>9, <1>10

\* Every step keeps the contents, between states in which inodes and blocks
\* have sectors of their own.
Apart == InodesApart /\ SectorsApart

LEMMA StepContent == ContentInv /\ Apart /\ Apart' /\ [Next]_vars => ContentInv'
  <1> SUFFICES ASSUME ContentInv, Apart, Apart', [Next]_vars PROVE ContentInv'
    OBVIOUS
  <1>1. /\ IInv /\ Typed /\ AllKept /\ ReadKept /\ MapsOK
        /\ InodesApart /\ InodesApart' /\ SectorsApart /\ SectorsApart'
    BY DEF ContentInv, IInv, Apart
  <1>2. IInv' /\ Typed'
    BY <1>1, NextIInv, StepTyped
  <1>3. ASSUME NEW f \in Files, Create(f)  PROVE AllKept' /\ ReadKept'
    <2>1. ASSUME NEW g \in live, g # f
          PROVE  g \in live' /\ read_inode(g)' = read_inode(g) /\ said'[g] = said[g]
      <3>1. g \in live' /\ read_inode(g)' = read_inode(g)  BY <1>1, <1>3, <2>1, CreateOthers
      <3> QED  BY <1>1, <1>3, <2>1, <3>1 DEF Create, Typed, MapsOK
    <2> QED  BY <1>1, <1>3, <2>1, CreateKept, TouchedKept DEF Create
  <1>4. ASSUME NEW f \in Files, Delete(f)  PROVE AllKept' /\ ReadKept'
    <2>1. ASSUME NEW g \in live, g # f
          PROVE  g \in live' /\ read_inode(g)' = read_inode(g) /\ said'[g] = said[g]
      <3>1. g \in Files /\ inode' = inode  BY <1>1, <1>4 DEF Delete, MapsOK
      <3>2. read_inode(g)' = read_inode(g)  BY <3>1, SameInodes
      <3> QED  BY <1>1, <1>4, <2>1, <3>1, <3>2 DEF Delete, Typed
    <2>2. Touched(f)
      BY <1>4 DEF Delete
    <2> QED  BY <1>1, <1>4, <2>1, <2>2, DeleteKept, TouchedKept
  <1>5. ASSUME NEW f \in Files, NEW v \in Texts, NEW n \in Lengths,
               FileWrite(f, [ver |-> v, len |-> n])
        PROVE  AllKept' /\ ReadKept'
    <2> DEFINE t == [ver |-> v, len |-> n]
    <2>1. t \in [ver : Texts, len : Lengths] /\ FileWrite(f, t)
      BY <1>5
    <2> HIDE DEF t
    <2>2. PICK a : Write(f, t, a)
      BY <2>1, WriteIs
    <2>3. ASSUME NEW g \in live, g # f
          PROVE  g \in live' /\ read_inode(g)' = read_inode(g) /\ said'[g] = said[g]
      <3>1. g \in live' /\ read_inode(g)' = read_inode(g)  BY <1>1, <2>2, <2>3, WriteOthers
      <3> QED  BY <1>1, <2>2, <2>3, <3>1 DEF Write, Typed, MapsOK
    <2>4. Touched(f)
      BY <2>2 DEF Write
    <2> QED  BY <1>1, <2>1, <2>3, <2>4, WriteKept, TouchedKept
  <1>6. ASSUME UNCHANGED <<dmap, live, inode, sect, said>>  PROVE AllKept'
    <2>1. ASSUME NEW f \in live, said[f] # Lost  PROVE Kept(f)'
      <3>1. f \in Files /\ Kept(f)  BY <1>1, <2>1 DEF AllKept, MapsOK
      <3> QED  BY <1>1, <1>6, <3>1, SameInodes, KeptOn
    <2> QED  BY <1>6, <2>1 DEF AllKept
  <1>7. ASSUME NEW f \in Files, NEW n \in Lengths, Overrun(f, n)  PROVE AllKept' /\ ReadKept'
    BY <1>1, <1>6, <1>7 DEF Overrun, ReadKept, read_inode
  <1>8. ASSUME NEW f \in Files, NEW r \in Reads, ReadStart(f, r)  PROVE AllKept' /\ ReadKept'
    <2>1. UNCHANGED <<dmap, live, inode, sect, said>>
      BY <1>8 DEF ReadStart
    <2> QED  BY <1>6, <1>8, <2>1, ReadStartKept
  <1>9. ASSUME ReadBlock  PROVE AllKept' /\ ReadKept'
    <2>1. UNCHANGED <<dmap, live, inode, sect, said>>
      BY <1>9 DEF ReadBlock
    <2> QED  BY <1>1, <1>6, <1>9, <2>1, ReadBlockKept
  <1>10. ASSUME ReadEnd  PROVE AllKept' /\ ReadKept'
    BY <1>6, <1>10 DEF ReadEnd, ReadKept
  <1>11. ASSUME UNCHANGED vars  PROVE AllKept' /\ ReadKept'
    BY <1>1, <1>6, <1>11 DEF vars, ReadKept, read_inode
  <1> QED
    BY <1>2, <1>3, <1>4, <1>5, <1>7, <1>8, <1>9, <1>10, <1>11 DEF Next, ContentInv

\* The property from the invariant.
LEMMA ContentReadsBack == ContentInv => FilesIntact /\ ReadIntact
  <1> SUFFICES ASSUME ContentInv PROVE FilesIntact /\ ReadIntact  OBVIOUS
  <1>0. IInv /\ Typed /\ AllKept /\ ReadKept /\ MapsOK
    BY DEF ContentInv, IInv
  <1>1. FilesIntact
    <2> SUFFICES ASSUME NEW f \in live, said[f] # Lost PROVE Content(f) = Chunks(f, said[f])
      BY DEF FilesIntact
    <2> DEFINE len == read_inode(f).len
    <2>1. Kept(f) /\ f \in Files
      BY <1>0 DEF AllKept, MapsOK
    <2>2. len \in 0 .. MAX_LEN /\ said[f].len = len
      BY <1>0, <2>1, BlockOf DEF Kept
    <2>3. ASSUME NEW k \in 1 .. len
          PROVE  sect[idx2LBA(read_inode(f).data_blocks[(k - 1) \div SECTOR_SIZE])]
                   = Chunk(f, said[f], (k - 1) \div SECTOR_SIZE)
      <3> HIDE DEF len
      <3>1. k - 1 \in Nat /\ k - 1 < len
        BY <2>2, Sizes
      <3>2. (k - 1) \div SECTOR_SIZE \in 0 .. BlocksFor(len) - 1
        BY <2>2, <3>1, InBlocks
      <3> QED  BY <2>1, <3>2 DEF Kept, len
    <2> QED  BY <2>2, <2>3 DEF Content, Chunks
  <1>2. ASSUME AllRead, rd.quiet, said[rd.file] # Lost
        PROVE  rd.buf = SubSeq(Chunks(rd.file, said[rd.file]), rd.offset + 1, EndPos(rd))
    <2> DEFINE f == rd.file  t == said[f]  e == EndPos(rd)  off == rd.offset
               all == Chunks(f, t)  sub == SubSeq(all, off + 1, e)
    <2>1. rd \in Reading /\ off < rd.node.len /\ rd.next = EndIdx(rd) + 1
          /\ Len(rd.buf) = Upto(rd) - off /\ off \in Nat /\ rd.buf \in Seq(Symbol \cup {Unknown})
      <3>1. rd # NoRead /\ ReadOK(rd) /\ rd.next > EndIdx(rd)
        BY <1>0, <1>2 DEF AllRead, Typed
      <3>2. rd \in Reading /\ off < rd.node.len
        BY <3>1 DEF ReadOK
      <3>3. EndIdx(rd) \in Int /\ StartIdx(rd) \in Int
        BY <3>2, Extent
      <3> QED  BY <3>1, <3>2, <3>3 DEF ReadOK, Reading
    <2>2. /\ e \in Nat /\ off < e /\ e <= rd.node.len /\ rd.node.len <= MAX_LEN
          /\ StartIdx(rd) \in Nat /\ EndIdx(rd) \in StartIdx(rd) .. FILE_BLKSIZE_LIM
          /\ EndOffs(rd) = e - SECTOR_SIZE * EndIdx(rd) /\ EndOffs(rd) \in 0 .. SECTOR_SIZE - 1
      BY <2>1, Extent
    <2>3. Upto(rd) = e
      <3> DEFINE b == EndIdx(rd)  sb == SECTOR_SIZE * b
      <3>1. b \in Nat /\ b + 1 # StartIdx(rd)
        BY <2>2, Sizes
      <3>2. (b + 1) * SECTOR_SIZE = sb + SECTOR_SIZE /\ sb \in Int
        BY <3>1, Multiples, Sizes
      <3>3. e - sb \in 0 .. SECTOR_SIZE - 1
        BY <2>2
      <3> HIDE DEF b, sb, e
      <3>4. e <= sb + SECTOR_SIZE
        BY <2>2, <3>2, <3>3, Sizes
      <3> QED  BY <2>1, <2>2, <3>1, <3>2, <3>4 DEF Upto, Lesser, b, e
    <2>4. /\ f \in live /\ rd.node = read_inode(f) /\ Kept(f)
          /\ \A k \in 1 .. Len(rd.buf) : rd.buf[k] = ByteAt(f, t, off + k - 1)
      <3>1. rd # NoRead
        BY <1>2 DEF AllRead
      <3> QED  BY <1>0, <1>2, <3>1 DEF ReadKept, AllKept
    <2>5. t.len = rd.node.len /\ rd.node.len \in Nat /\ t \in Text
      <3>1. rd.node.len \in Nat
        BY <2>1, Sizes DEF Reading, Inode
      <3>2. t \in Text \cup {NoText} /\ NoText.len = 0
        BY <1>0, <1>2, <2>1 DEF Typed, Reading, NoText
      <3>3. t.len = rd.node.len
        BY <2>4 DEF Kept
      <3>4. rd.node.len # 0
        BY <2>1, <3>1
      <3> QED  BY <3>1, <3>2, <3>3, <3>4
    <2>6. all \in Seq(Symbol) /\ Len(all) = t.len /\ \A k \in 1 .. t.len : all[k] = ByteAt(f, t, k - 1)
      <3>1. f \in Files
        BY <2>1 DEF Reading
      <3>2. ASSUME NEW k \in 1 .. t.len
            PROVE  Chunk(f, t, (k - 1) \div SECTOR_SIZE)[(k - 1) % SECTOR_SIZE] \in Symbol
        <4>1. k - 1 \in Nat /\ k - 1 < t.len /\ t.len \in 0 .. MAX_LEN
          BY <2>5, Sizes DEF Text
        <4>2. (k - 1) % SECTOR_SIZE \in Offs
          BY <4>1, InBlocks
        <4>3. Chunk(f, t, (k - 1) \div SECTOR_SIZE) \in Sector
          BY <2>5, <3>1, ChunkTyped
        <4> QED  BY <4>2, <4>3 DEF Sector
      <3>3. all = [k \in 1 .. t.len |-> Chunk(f, t, (k - 1) \div SECTOR_SIZE)[(k - 1) % SECTOR_SIZE]]
        BY DEF Chunks
      <3>4. t.len \in Nat
        BY <2>5
      <3> HIDE DEF all, f, t
      <3> QED  BY <3>2, <3>3, <3>4 DEF ByteAt
    <2>7. /\ Len(rd.buf) = e - off
          /\ sub \in Seq(Symbol) /\ Len(sub) = e - off
          /\ \A k \in 1 .. e - off : sub[k] = all[off + k] /\ off + k \in 1 .. t.len
      <3>1. /\ Len(rd.buf) = e - off /\ off \in Nat /\ e \in Nat /\ off <= e
            /\ e <= Len(all) /\ Len(all) = t.len /\ t.len \in Nat
        <4> HIDE DEF all, f, t, e, off
        <4> QED  BY <2>1, <2>2, <2>3, <2>5, <2>6
      <3>2. /\ sub \in Seq(Symbol) /\ Len(sub) = e - off
            /\ \A k \in 1 .. e - off : sub[k] = all[off + k]
        <4>1. all \in Seq(Symbol)
          BY <2>6
        <4> HIDE DEF all, e, off
        <4> QED  BY ONLY <3>1, <4>1, CutOf DEF sub
      <3>3. \A k \in 1 .. e - off : off + k \in 1 .. t.len
        <4> HIDE DEF all, e, off, t
        <4> QED  BY ONLY <3>1
      <3> QED  BY <3>1, <3>2, <3>3
    <2>8. \A k \in 1 .. e - off : rd.buf[k] = sub[k]
      <3> SUFFICES ASSUME NEW k \in 1 .. e - off PROVE rd.buf[k] = sub[k]
        OBVIOUS
      <3>1. off + k \in 1 .. t.len /\ sub[k] = all[off + k]
        BY <2>7
      <3>2. rd.buf[k] = ByteAt(f, t, off + k - 1)
        BY <2>4, <2>7
      <3>3. all[off + k] = ByteAt(f, t, off + k - 1)
        <4>1. off + k \in 1 .. t.len /\ \A i \in 1 .. t.len : all[i] = ByteAt(f, t, i - 1)
          BY <2>6, <3>1
        <4> HIDE DEF all, t, f
        <4>2. \A i \in 1 .. t.len : i = off + k => all[i] = ByteAt(f, t, i - 1)
          BY ONLY <4>1
        <4>3. (off + k) - 1 = off + (k - 1)
          <5>1. off \in Nat /\ k \in Int
            BY <2>1
          <5> HIDE DEF off
          <5> QED  BY ONLY <5>1
        <4> HIDE DEF off
        <4>4. all[off + k] = ByteAt(f, t, (off + k) - 1)
          BY ONLY <4>1, <4>2
        <4> QED  BY ONLY <4>3, <4>4
      <3> QED  BY <3>1, <3>2, <3>3
    <2> HIDE DEF sub, all
    <2>9. rd.buf = sub
      <3>1. rd.buf \in Seq(Symbol \cup {Unknown}) /\ sub \in Seq(Symbol) /\ Len(rd.buf) = Len(sub)
        BY <2>1, <2>7
      <3>2. \A k \in 1 .. Len(rd.buf) : rd.buf[k] = sub[k]
        BY <2>7, <2>8
      <3> QED  BY ONLY <3>1, <3>2, SameSequence
    <2> QED  BY <2>9 DEF sub, all
  <1> QED  BY <1>1, <1>2 DEF ReadIntact

\* As long as no two files in use have their inodes in one sector, and no two
\* blocks in use are one: a file holds what was last written to it, and a
\* preempted read gives the bytes at its offset.
THEOREM ReadsBackApart == Spec /\ []Apart => []ReadsBack
  <1>1. Init => ContentInv
    BY InitTyped, InitIInv DEF ContentInv, Init, AllKept, ReadKept
  <1>2. ContentInv => ReadsBack
    BY ContentReadsBack DEF ReadsBack
  <1> QED  BY <1>1, <1>2, StepContent, PTL DEF Spec
=============================================================================
