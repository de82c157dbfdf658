----------------------------- MODULE PSVFolders -----------------------------
(***************************************************************************)
(* The folders of the PSV file system (PSV_fs_lite/PSV.c, helper.c): the    *)
(* super block with its two bitmaps, the folder nodes, and the calls that   *)
(* walk, create and delete.                                                 *)
(*                                                                          *)
(* There are two copies of the metadata.  The kernel keeps super_block and  *)
(* current_folder (one for all processes); the disk holds the super block   *)
(* and every folder node.  A call changes the kernel's copies at once and   *)
(* writes sectors in a fixed order: `todo' holds the writes the call still  *)
(* has to make.  The calls run with interrupts off, so nothing but a loss   *)
(* of power (Crash, followed by the boot's PSV_mount) can come between two  *)
(* writes.  A write is of the super block or of a folder node; that a node  *)
(* is two sectors, between which the power can go too, is left out.         *)
(*                                                                          *)
(* A path is walked one name a step: Begin, WalkInto ..., and then the call *)
(* that uses the last name.  The names of a path are therefore not part of  *)
(* the state and a path may have any length.  What is in an inode or a data *)
(* block is the subject of PSVContent.  The counters of the super block     *)
(* (used_fnode, used_inode, used_db) are left out: inc_used writes them and *)
(* nothing reads them.                                                      *)
(***************************************************************************)
EXTENDS Integers, FiniteSets, Sequences

CONSTANTS FNODE_NUM_LIM,  \* folder nodes on the disk
          INODE_NUM_LIM,  \* file nodes on the disk
          FTERM_NUM_LIM,  \* folder terms of a folder, "." and ".." included
          ITERM_NUM_LIM,  \* file terms of a folder
          Names,          \* names the programs use
          MaxCrashes      \* bound on the losses of power

ASSUME LimitsAssumption ==
    /\ FNODE_NUM_LIM \in Nat \ {0} /\ INODE_NUM_LIM \in Nat \ {0}
    /\ FTERM_NUM_LIM \in Nat \ {0, 1} /\ ITERM_NUM_LIM \in Nat \ {0}
    /\ MaxCrashes \in Nat
    /\ "" \notin Names

VARIABLES sb,      \* super_block: its bitmaps, as sets
          cf,      \* current_folder
          disk,    \* the super block and the folder nodes on the disk
          todo,    \* writes the call has issued and the disk not yet done
          del,     \* activations of delete_folder, the innermost last
          origin,  \* origin_idx of the call under way, or NoCall
          crashes

vars == <<sb, cf, disk, todo, del, origin, crashes>>

FIdx == 0 .. FNODE_NUM_LIM - 1
IIdx == 0 .. INODE_NUM_LIM - 1
FSlot == 0 .. FTERM_NUM_LIM - 1
Sub == 2 .. FTERM_NUM_LIM - 1
ISlot == 0 .. ITERM_NUM_LIM - 1
ROOT_FOLDER_IDX == 0
SELF_IDX == 0
PARENT_IDX == 1
NoCall == -1
Dots == {".", ".."}

----------------------------------------------------------------------------
(* Terms and folder nodes.                                                  *)

Term == [used : BOOLEAN, name : Names \cup Dots \cup {""}, idx : Nat]
Fnode == [fterms : [FSlot -> Term], iterms : [ISlot -> Term],
          num_fterm : Int, num_iterm : Int]
SuperBlock == [fmap : SUBSET FIdx, imap : SUBSET IIdx]

\* The disk is a function from blocks to what they hold; SB is the super block.
SB == -1
Disk == {d \in [FIdx \cup {SB} -> Fnode \cup SuperBlock] :
            d[SB] \in SuperBlock /\ \A i \in FIdx : d[i] \in Fnode}
Write == [blk : FIdx, data : Fnode] \cup [blk : {SB}, data : SuperBlock]

gen_term(n, i) == [used |-> TRUE, name |-> n, idx |-> i]
NoTerm == [used |-> FALSE, name |-> "", idx |-> 0]

\* A node of zeros, as PSV_setup leaves all of them but the root's.
ZeroFnode == [fterms |-> [s \in FSlot |-> NoTerm],
              iterms |-> [s \in ISlot |-> NoTerm],
              num_fterm |-> 0, num_iterm |-> 0]

self(fn) == fn.fterms[SELF_IDX].idx

NoParentCounted(i, parent) ==                                               \* mutant
    [ZeroFnode EXCEPT !.fterms[SELF_IDX] = gen_term(".", i),
                      !.fterms[PARENT_IDX] = [parent EXCEPT !.name = ".."],
                      !.num_fterm = 1]
gen_fnode(i, parent) ==
    [ZeroFnode EXCEPT
        !.fterms[SELF_IDX] = gen_term(".", i),
        !.fterms[PARENT_IDX] = [parent EXCEPT !.name = ".."],
        !.num_fterm = 2]

----------------------------------------------------------------------------
(* Bitmaps.                                                                 *)

NextByCount(i, map, lim) == i = Cardinality(map) /\ i < lim                 \* mutant
IsLowestFree(i, map, lim) ==
    /\ i \in 0 .. lim - 1 \ map
    /\ \A j \in 0 .. lim - 1 \ map : i <= j

set_bitmap(map, i) == map \cup {i}
clear_bitmap(map, i) == map \ {i}

Full(map, lim) == 0 .. lim - 1 \subseteq map

NoOffset(map, d, fn, i) == IF i \in map THEN d[i - 1] ELSE fn               \* mutant
\* read_fnode: a node whose bit is clear is not read and `fn' stays as it was.
read_fnode(map, d, fn, i) == IF i \in map THEN d[i] ELSE fn

write_fnode(fn, i) == [blk |-> i, data |-> fn]
StaleSb == [blk |-> SB, data |-> disk[SB]]                                  \* mutant
write_sb == [blk |-> SB, data |-> sb']

\* What an automatic folder_node_t can hold before anything is stored in it.
StackGarbage == {ZeroFnode} \cup {disk[i] : i \in FIdx}

----------------------------------------------------------------------------
(* The tables of a folder node.                                             *)

\* The duplicate test of insert_fterm and insert_iterm: it reads the names of
\* all slots, those of deleted terms too.
FolderTaken(fn, n) == \E s \in Sub : fn.fterms[s].name = n
FileTaken(fn, n) == \E s \in ISlot : fn.iterms[s].name = n

FirstUnused(terms, slots, s) ==
    /\ s \in slots /\ ~terms[s].used
    /\ \A t \in slots : t < s => terms[t].used

FirstUsed(terms, slots, s) ==
    /\ s \in slots /\ terms[s].used
    /\ \A t \in slots : t < s => ~terms[t].used

NoneUsed(terms, slots) == \A s \in slots : ~terms[s].used
AllUsed(terms, slots) == \A s \in slots : terms[s].used

Matches(terms, slots, n) == {s \in slots : terms[s].used /\ terms[s].name = n}

\* delete_fterm and delete_iterm: every used term of that name is cleared, the
\* name and the index stay in the slot.
DropTerms(terms, slots, n) ==
    [s \in DOMAIN terms |->
        IF s \in Matches(terms, slots, n)
        THEN [terms[s] EXCEPT !.used = FALSE]
        ELSE terms[s]]

delete_fterm(fn, n) == [fn EXCEPT !.fterms = DropTerms(@, Sub, n), !.num_fterm = @ - 1]
KeepsFile(fn, n) == fn                                                      \* mutant
delete_iterm(fn, n) == [fn EXCEPT !.iterms = DropTerms(@, ISlot, n), !.num_iterm = @ - 1]

\* The slot the deletion returns: the last one of that name.
IsDeleted(s, terms, slots, n) ==
    /\ s \in Matches(terms, slots, n)
    /\ \A t \in Matches(terms, slots, n) : t <= s

----------------------------------------------------------------------------
(* Setting up and walking.                                                  *)

RootFnode == [ZeroFnode EXCEPT !.fterms[SELF_IDX] = gen_term(".", ROOT_FOLDER_IDX),
                               !.num_fterm = 1]

FreshSb == [fmap |-> {ROOT_FOLDER_IDX}, imap |-> {}]

\* PSV_setup, and the PSV_mount of the boot.  flush_space is taken to leave zeros
\* in the folder nodes, as its comment says (helper.c:519); it fills them from
\* the memory behind a buffer of one sector.
Init ==
    /\ sb = FreshSb
    /\ cf = RootFnode
    /\ disk = [i \in FIdx \cup {SB} |-> CASE i = SB -> FreshSb
                                         [] i = ROOT_FOLDER_IDX -> RootFnode
                                         [] OTHER -> ZeroFnode]
    /\ todo = <<>> /\ del = <<>>
    /\ origin = NoCall
    /\ crashes = 0

Idle == origin = NoCall /\ todo = <<>>

\* The call has a path to walk: nothing of it is deleted yet.
Walking == origin # NoCall /\ del = <<>>

\* A call with a path starts: an absolute path is walked from the root.
Begin ==
    /\ Idle
    /\ origin' = self(cf)
    /\ \/ cf' = cf
       \/ cf' = read_fnode(sb.fmap, disk, cf, ROOT_FOLDER_IDX)
    /\ UNCHANGED <<sb, disk, todo, del, crashes>>

\* goin_sp takes one name: the first used term of that name, "." and ".." too.
WalkInto(n) ==
    /\ Walking
    /\ \E s \in Matches(cf.fterms, FSlot, n) :
          /\ \A t \in Matches(cf.fterms, FSlot, n) : s <= t
          /\ cf' = read_fnode(sb.fmap, disk, cf, cf.fterms[s].idx)
    /\ UNCHANGED <<sb, disk, todo, del, origin, crashes>>

\* goin_sp finds no such folder: every caller returns at once, wherever the
\* walk has taken current_folder.
WalkFails(n) ==
    /\ Walking
    /\ Matches(cf.fterms, FSlot, n) = {}
    /\ origin' = NoCall
    /\ UNCHANGED <<sb, cf, disk, todo, del, crashes>>

\* goin: the walk is all there is to it.
Goin ==
    /\ Walking
    /\ origin' = NoCall
    /\ UNCHANGED <<sb, cf, disk, todo, del, crashes>>

\* get_inode_idx_by_path (open, execute): looks, and goes back.
Lookup ==
    /\ Walking
    /\ cf' = read_fnode(sb.fmap, disk, cf, origin)
    /\ origin' = NoCall
    /\ UNCHANGED <<sb, disk, todo, del, crashes>>
----------------------------------------------------------------------------
(* Creating.                                                                *)

\* The disk when the writes `ws' are done.
Written(ws) ==
    [b \in DOMAIN disk |->
        IF \E k \in DOMAIN ws : ws[k].blk = b
        THEN ws[CHOOSE k \in DOMAIN ws :
                    ws[k].blk = b /\ \A l \in DOMAIN ws : ws[l].blk = b => l <= k].data
        ELSE disk[b]]

\* The tail of PSV_create_folder and PSV_create_file, with the writes made so
\* far: the original folder is read back.
Return(fn, ws, back) ==
    /\ todo' = ws
    /\ cf' = read_fnode(sb'.fmap, Written(ws), fn, back)
    /\ origin' = NoCall
    /\ UNCHANGED <<disk, del, crashes>>

create_folder(fn, n, back) ==
    \/ /\ \/ fn.num_fterm >= FTERM_NUM_LIM
          \/ Full(sb.fmap, FNODE_NUM_LIM)
          \/ FolderTaken(fn, n) \/ AllUsed(fn.fterms, Sub)
       /\ sb' = sb
       /\ Return(fn, <<>>, back)
    \/ \E i \in FIdx, s \in Sub :
       /\ fn.num_fterm < FTERM_NUM_LIM /\ IsLowestFree(i, sb.fmap, FNODE_NUM_LIM)
       /\ ~FolderTaken(fn, n) /\ FirstUnused(fn.fterms, Sub, s)
       /\ sb' = [sb EXCEPT !.fmap = set_bitmap(@, i)]
       /\ LET parent == [fn EXCEPT !.fterms[s] = gen_term(n, i),
                                   !.num_fterm = @ + 1]
          IN  Return(parent,
                     << write_fnode(parent, self(fn)), write_sb,
                        write_fnode(gen_fnode(i, parent.fterms[SELF_IDX]), i) >>,
                     back)

create_file(fn, n, back) ==
    \/ /\ \/ fn.num_iterm >= ITERM_NUM_LIM
          \/ Full(sb.imap, INODE_NUM_LIM)
          \/ FileTaken(fn, n) \/ AllUsed(fn.iterms, ISlot)
       /\ sb' = sb
       /\ Return(fn, <<>>, back)
    \/ \E i \in IIdx, s \in ISlot :
       /\ fn.num_iterm < ITERM_NUM_LIM /\ IsLowestFree(i, sb.imap, INODE_NUM_LIM)
       /\ ~FileTaken(fn, n) /\ FirstUnused(fn.iterms, ISlot, s)
       /\ sb' = [sb EXCEPT !.imap = set_bitmap(@, i)]
       /\ LET parent == [fn EXCEPT !.iterms[s] = gen_term(n, i),
                                   !.num_iterm = @ + 1]
          IN  Return(parent, << write_fnode(parent, self(fn)), write_sb >>, back)

CreateFolder(n) == Walking /\ create_folder(cf, n, origin)

CreateFile(n) == Walking /\ create_file(cf, n, origin)

\* A path without a part ("" or "/"): PSV_create_file tests num < 0 only and
\* reads names[-1], bytes of its stack below path_sp.  A byte other than 0
\* there gives some name; a 0 the empty one.
CreateUnnamed ==
    /\ Idle
    /\ \E n \in Names \cup {""} :
       \/ create_file(cf, n, self(cf))
       \/ create_file(read_fnode(sb.fmap, disk, cf, ROOT_FOLDER_IDX), n, self(cf))

----------------------------------------------------------------------------
(* Deleting.                                                                *)

Fails == origin' = NoCall /\ UNCHANGED <<sb, cf, disk, todo, del, crashes>>

\* delete_file on a node: the writes, and the inode's bit.
OnlyFnode(fn) == << write_fnode(fn, self(fn)) >>                            \* mutant
OnlySb(fn) == << write_sb >>                                                \* mutant
FileWrites(fn) == << write_fnode(fn, self(fn)), write_sb >>

\* PSV_delete_file: whatever happens, current_folder stays where the walk ended.
DeleteFile(n) ==
    /\ Walking
    /\ \/ Matches(cf.iterms, ISlot, n) = {} /\ Fails
       \/ \E s \in ISlot :
          /\ IsDeleted(s, cf.iterms, ISlot, n)
          /\ cf' = delete_iterm(cf, n)
          /\ sb' = [sb EXCEPT !.imap = clear_bitmap(@, cf.iterms[s].idx)]
          /\ todo' = FileWrites(cf')
          /\ origin' = NoCall
          /\ UNCHANGED <<disk, del, crashes>>

\* One activation of delete_folder: its copy del_folder of the folder, and the
\* bit to clear when the copy is empty.
Frame == [fn : Fnode, bit : Nat]

\* delete_folder(fn, n) up to and including its read_fnode.
Enter(fn, n, outer) ==
    \E s \in Sub, g \in StackGarbage :
       /\ IsDeleted(s, fn.fterms, Sub, n)
       /\ LET i == fn.fterms[s].idx
          IN  del' = Append(outer, [fn |-> read_fnode(sb.fmap, disk, g, i), bit |-> i])
       /\ todo' = << write_fnode(delete_fterm(fn, n), self(fn)) >>

\* PSV_delete_folder; "." and ".." are refused.
DeleteFolder(n) ==
    /\ Walking
    /\ \/ /\ n \in Dots \/ Matches(cf.fterms, Sub, n) = {}
          /\ Fails
       \/ /\ n \notin Dots
          /\ Enter(cf, n, <<>>)
          /\ cf' = delete_fterm(cf, n)
          /\ UNCHANGED <<sb, disk, origin, crashes>>

Deleting == del # <<>> /\ todo = <<>>
Inner == del[Len(del)]
Outer == SubSeq(del, 1, Len(del) - 1)

\* The files of the folder go first ...
DeleteNextFile ==
    /\ Deleting
    /\ \E s, t \in ISlot :
       LET terms == Inner.fn.iterms
           fn == delete_iterm(Inner.fn, terms[s].name)
       IN /\ FirstUsed(terms, ISlot, s)
          /\ IsDeleted(t, terms, ISlot, terms[s].name)
          /\ sb' = [sb EXCEPT !.imap = clear_bitmap(@, terms[t].idx)]
          /\ todo' = FileWrites(fn)
          /\ del' = [del EXCEPT ![Len(del)].fn = fn]
    /\ UNCHANGED <<cf, disk, origin, crashes>>

\* ... then its subfolders, each with its own activation.  A subfolder called
\* "." or ".." is refused, and all activations return FAIL.
DeleteNextFolder ==
    /\ Deleting
    /\ NoneUsed(Inner.fn.iterms, ISlot)
    /\ \E s \in Sub :
       LET n == Inner.fn.fterms[s].name
       IN /\ FirstUsed(Inner.fn.fterms, Sub, s)
          /\ \/ /\ n \in Dots
                /\ del' = <<>> /\ origin' = NoCall /\ todo' = todo
             \/ /\ n \notin Dots
                /\ Enter(Inner.fn, n, Append(Outer, [Inner EXCEPT !.fn = delete_fterm(@, n)]))
                /\ origin' = origin
    /\ UNCHANGED <<sb, cf, disk, crashes>>

\* The folder is empty: its bit is cleared.  The outermost activation returns
\* to PSV_delete_folder, which reads the original folder back.
DeleteEmptied ==
    /\ Deleting
    /\ NoneUsed(Inner.fn.iterms, ISlot) /\ NoneUsed(Inner.fn.fterms, Sub)
    /\ sb' = [sb EXCEPT !.fmap = clear_bitmap(@, Inner.bit)]
    /\ todo' = << write_sb >>
    /\ del' = Outer
    /\ \/ /\ Outer = <<>>
          /\ origin' = NoCall
          /\ cf' = read_fnode(sb'.fmap, disk, cf, origin)
       \/ Outer # <<>> /\ UNCHANGED <<origin, cf>>
    /\ UNCHANGED <<disk, crashes>>

----------------------------------------------------------------------------
(* The disk.                                                                *)

\* Disk_SectorWrite: the next write of the call reaches the disk.
WriteNext ==
    /\ todo # <<>>
    /\ disk' = [disk EXCEPT ![Head(todo).blk] = Head(todo).data]
    /\ todo' = Tail(todo)
    /\ UNCHANGED <<sb, cf, del, origin, crashes>>

\* The power goes; the next boot mounts what is on the disk.
Crash ==
    /\ crashes < MaxCrashes
    /\ crashes' = crashes + 1
    /\ todo' = <<>> /\ del' = <<>> /\ origin' = NoCall
    /\ sb' = disk[SB]
    /\ cf' = read_fnode(sb'.fmap, disk, ZeroFnode, ROOT_FOLDER_IDX)
    /\ disk' = disk

Call(n) ==
    \/ WalkInto(n) \/ WalkFails(n)
    \/ CreateFolder(n) \/ CreateFile(n)
    \/ DeleteFile(n) \/ DeleteFolder(n)

Next ==
    \/ Begin \/ Goin \/ Lookup \/ CreateUnnamed
    \/ \E n \in Names \cup Dots : Call(n)
    \/ DeleteNextFile \/ DeleteNextFolder \/ DeleteEmptied
    \/ WriteNext \/ Crash

Spec == Init /\ [][Next]_vars

\* A call that has begun to delete runs to its end: it is not preempted, and
\* the drive completes its commands.
FairSpec ==
    /\ Spec
    /\ WF_vars(WriteNext)
    /\ WF_vars(DeleteNextFile \/ DeleteNextFolder \/ DeleteEmptied)

----------------------------------------------------------------------------
(* Properties.                                                              *)

\* Type correctness: the kernel's copies, the disk's blocks and the writes
\* between them hold super blocks and folder nodes where the code expects them.
TypeOK ==
    /\ sb \in SuperBlock
    /\ cf \in Fnode
    /\ disk \in Disk
    /\ todo \in Seq(Write)
    /\ del \in Seq(Frame)
    /\ origin \in Nat \cup {NoCall}
    /\ crashes \in 0 .. MaxCrashes

UsedSubs(i) == {s \in Sub : disk[i].fterms[s].used}
UsedItems(i) == {s \in ISlot : disk[i].iterms[s].used}

\* The folders and the files of the disk, each as <<path, index>>, by the
\* length of the path.
FoldersAt[k \in 0 .. FNODE_NUM_LIM] ==
    IF k = 0 THEN {<< <<>>, ROOT_FOLDER_IDX >>}
    ELSE UNION {{<<Append(e[1], disk[e[2]].fterms[s].name), disk[e[2]].fterms[s].idx>> :
                    s \in UsedSubs(e[2])} : e \in FoldersAt[k - 1]}

FoldersOnDisk == UNION {FoldersAt[k] : k \in 0 .. FNODE_NUM_LIM}

FilesOnDisk ==
    UNION {{<<Append(e[1], disk[e[2]].iterms[s].name), disk[e[2]].iterms[s].idx>> :
               s \in UsedItems(e[2])} : e \in FoldersOnDisk}

\* No call is between two of its writes, and none has been cut off there.
Settled == todo = <<>> /\ del = <<>> /\ crashes = 0

\* Between calls the kernel's copies are what the disk holds (PSV.c reads
\* current_folder back after each call and writes super_block at the end of
\* each): the bitmaps agree, current_folder is the node of its own index, and
\* that node is a folder one can walk to from the root.
CopiesAgree ==
    Settled => /\ sb.fmap = disk[SB].fmap
               /\ sb.imap = disk[SB].imap
               /\ cf = disk[self(cf)]
               /\ \E e \in FoldersOnDisk : e[2] = self(cf)

\* Between calls the folders form a tree: a folder in use knows its own index
\* and counts its terms (num_fterm, num_iterm), a subfolder's bit is set and its
\* ".." is the folder it is in, and no two names lead to the same node.
FoldersSound ==
    Settled =>
       /\ \A i \in sb.fmap :
             /\ disk[i].fterms[SELF_IDX] = gen_term(".", i)
             /\ disk[i].num_fterm = Cardinality({s \in FSlot : disk[i].fterms[s].used})
             /\ disk[i].num_iterm = Cardinality(UsedItems(i))
             /\ \A s \in UsedSubs(i) :
                   LET j == disk[i].fterms[s].idx
                   IN  j \in sb.fmap /\ disk[j].fterms[PARENT_IDX] = gen_term("..", i)
       /\ \A e, f \in FoldersOnDisk : e[2] = f[2] => e = f

\* Between calls every file's bit is set and no two names lead to one inode,
\* also in a folder that a deletion has cut off and not freed.
FilesSound ==
    Settled =>
       /\ \A i \in sb.fmap : \A s \in UsedItems(i) : disk[i].iterms[s].idx \in sb.imap
       /\ \A i, j \in sb.fmap : \A s \in UsedItems(i), t \in UsedItems(j) :
             disk[i].iterms[s].idx = disk[j].iterms[t].idx => i = j /\ s = t

\* Seen through the disk's terms, each call is one step of a tree of paths: a
\* folder appears or disappears with the write of its parent's node, and the
\* rest of the call changes nothing that can be reached.
Tree == INSTANCE FolderTree
    WITH folders <- {e[1] : e \in FoldersOnDisk},
         files <- {e[1] : e \in FilesOnDisk},
         AnyName <- Names \cup Dots \cup {""}

ImplementsTree == Tree!Spec

\* A deletion runs to its end: the recursion of delete_folder finishes and the
\* call returns.
DeletionEnds == del # <<>> ~> del = <<>> /\ origin = NoCall

\* The terms a power failure has hurt: the bit of what they name is clear, or
\* the node was never written.
Hurt ==
    {e \in FoldersOnDisk : e[2] \notin disk[SB].fmap \/ self(disk[e[2]]) # e[2]}
        \cup {e \in FilesOnDisk : e[2] \notin disk[SB].imap}

\* A loss of power between two writes, of the super block or of folder nodes, hurts
\* no more than the one folder or file that the call under way was creating,
\* whatever the call was.
CrashHurtsOne == [][Crash => Cardinality(Hurt) <= 1]_vars
=============================================================================
