-------------------------- MODULE PSVFoldersProofs --------------------------
(***************************************************************************)
(* Proofs about the folders of the PSV file system (PSVFolders).           *)
(*                                                                         *)
(* The types (Typed) are invariant, losses of power included.  While no    *)
(* power is lost more holds, of the disk as it is after the writes a call  *)
(* has issued and the drive not yet done (After): the nodes in use form a  *)
(* tree, each inode is named once, the kernel's copies are what that disk  *)
(* holds, and the folders under deletion are cut off the tree and are each *)
(* the copy of its activation (Good, IInv).  A call is one step of that    *)
(* disk, and a write leaves it as it is (HeadWritten); so the invariant    *)
(* says between the calls, when nothing is left to write, what CopiesAgree,*)
(* FoldersSound and FilesSound do.                                         *)
(*                                                                         *)
(* What can be reached from the root is stated without paths: in all sets  *)
(* of nodes that hold the root and are closed under subfolders (Reach).    *)
(* The levels of FoldersAt, of which the properties speak, are one such    *)
(* set, since there are fewer levels than nodes (LastLevel, PathTo).       *)
(*                                                                         *)
(* The refinement of FolderTree speaks of the disk as it is, write by      *)
(* write.  Its paths are stated like what can be reached, as what is in    *)
(* all sets of paths closed under the terms (Leads), so that no lemma needs*)
(* an induction on their length.  The first write of a call, that of the   *)
(* parent's node, makes the step of the tree; the writes after it leave    *)
(* every node's terms (Planned), in the end because a node that is free has*)
(* none (FreeEmpty): what is created in it starts empty.                   *)
(*                                                                         *)
(* A loss of power can come after any of a call's writes.  After all but   *)
(* the last of them the disk is not in order, but at most the folder or    *)
(* the file that the call is creating is hurt (OneHurt, Spared).           *)
(***************************************************************************)
EXTENDS PSVFolders, NumberLemmas, FiniteSetTheorems, TLAPS

-----------------------------------------------------------------------------
(* Types.                                                                  *)

AnyName == Names \cup Dots \cup {""}

\* The names there are.
LEMMA NamesAre ==
  /\ "." \in AnyName /\ ".." \in AnyName /\ "." # ".." /\ "" \in AnyName
  /\ Names \cup Dots \subseteq AnyName
BY DEF AnyName, Dots

\* A term's index is that of a node there is.
FolderTerm == [used : BOOLEAN, name : AnyName, idx : FIdx]
FileTerm == [used : BOOLEAN, name : AnyName, idx : IIdx]
Node == [fterms : [FSlot -> FolderTerm], iterms : [ISlot -> FileTerm],
         num_fterm : Int, num_iterm : Int]
NodeWrite == [blk : FIdx, data : Node] \cup [blk : {SB}, data : SuperBlock]
Activation == [fn : Node, bit : FIdx]

Disks == {d \in [FIdx \cup {SB} -> Node \cup SuperBlock] :
            d[SB] \in SuperBlock /\ \A i \in FIdx : d[i] \in Node}

Typed ==
  /\ sb \in SuperBlock
  /\ cf \in Node
  /\ disk \in Disks
  /\ todo \in Seq(NodeWrite)
  /\ del \in Seq(Activation)
  /\ origin \in FIdx \cup {NoCall}
  /\ crashes \in 0 .. MaxCrashes
  /\ del # <<>> => origin # NoCall

\* What the sizes of the disk say of the indexes and the slots.
LEMMA Limits ==
  /\ FNODE_NUM_LIM \in Nat \ {0} /\ INODE_NUM_LIM \in Nat \ {0}
  /\ FTERM_NUM_LIM \in Nat \ {0, 1} /\ ITERM_NUM_LIM \in Nat \ {0}
  /\ ROOT_FOLDER_IDX \in FIdx /\ 0 \in FIdx /\ 0 \in IIdx /\ SELF_IDX \in FSlot /\ PARENT_IDX \in FSlot
  /\ SELF_IDX \notin Sub /\ PARENT_IDX \notin Sub /\ SELF_IDX # PARENT_IDX
  /\ FSlot = Sub \cup {SELF_IDX, PARENT_IDX}
  /\ SB \notin FIdx /\ NoCall \notin FIdx
<1>0. /\ FNODE_NUM_LIM \in Nat \ {0} /\ INODE_NUM_LIM \in Nat \ {0}
      /\ FTERM_NUM_LIM \in Nat \ {0, 1} /\ ITERM_NUM_LIM \in Nat \ {0}
  BY LimitsAssumption
<1>1. FTERM_NUM_LIM \in Nat \ {0, 1} => 0 .. FTERM_NUM_LIM - 1 = (2 .. FTERM_NUM_LIM - 1) \cup {0, 1}
  OBVIOUS
<1> QED
  BY <1>0, <1>1 DEF FIdx, IIdx, FSlot, Sub, ROOT_FOLDER_IDX, SELF_IDX, PARENT_IDX, SB, NoCall

\* A node of zeros.
LEMMA ZeroTyped ==
  /\ NoTerm \in FolderTerm /\ NoTerm \in FileTerm /\ ZeroFnode \in Node
  /\ ZeroFnode.fterms = [s \in FSlot |-> NoTerm]
  /\ ZeroFnode.iterms = [s \in ISlot |-> NoTerm]
<1>2. NoTerm \in FolderTerm /\ NoTerm \in FileTerm
  <2> DEFINE empty == ""
  <2>1. NoTerm = [used |-> FALSE, name |-> empty, idx |-> 0] /\ empty \in AnyName
    BY NamesAre DEF NoTerm
  <2> HIDE DEF empty
  <2> QED
    BY <2>1, Limits DEF FolderTerm, FileTerm
<1>3. [s \in FSlot |-> NoTerm] \in [FSlot -> FolderTerm] /\ [s \in ISlot |-> NoTerm] \in [ISlot -> FileTerm]
  BY <1>2
<1> QED
  BY <1>2, <1>3 DEF ZeroFnode, Node

\* A node, by the sets its parts are from.
NodeOf(F, I, m, n) == [fterms : F, iterms : I, num_fterm : m, num_iterm : n]

\* A node as a set of records, its parts abstract.
LEMMA NodeIs == Node = NodeOf([FSlot -> FolderTerm], [ISlot -> FileTerm], Int, Int)
BY DEF Node, NodeOf

\* The parts of a node.
LEMMA PartsOfNode ==
  ASSUME NEW fn \in Node
  PROVE  /\ fn.fterms \in [FSlot -> FolderTerm] /\ fn.iterms \in [ISlot -> FileTerm]
         /\ fn.num_fterm \in Int /\ fn.num_iterm \in Int
         /\ self(fn) \in FIdx
BY Limits DEF Node, self, FolderTerm

\* The root's node, as PSV_setup writes it.
LEMMA RootTyped ==
  /\ RootFnode \in Node
  /\ RootFnode.fterms = [[s \in FSlot |-> NoTerm] EXCEPT ![SELF_IDX] = gen_term(".", ROOT_FOLDER_IDX)]
  /\ RootFnode.iterms = [s \in ISlot |-> NoTerm]
  /\ RootFnode.num_fterm = 1 /\ RootFnode.num_iterm = 0
<1>1. gen_term(".", ROOT_FOLDER_IDX) \in FolderTerm
  BY Limits, NamesAre DEF gen_term, FolderTerm
<1>2. [ZeroFnode.fterms EXCEPT ![SELF_IDX] = gen_term(".", ROOT_FOLDER_IDX)] \in [FSlot -> FolderTerm]
  BY <1>1, ZeroTyped
<1> DEFINE F == [FSlot -> FolderTerm]  I == [ISlot -> FileTerm]  J == Int
<1>3. ZeroFnode.num_iterm = 0 /\ 1 \in J /\ ZeroFnode \in NodeOf(F, I, J, J)
      /\ [ZeroFnode.fterms EXCEPT ![SELF_IDX] = gen_term(".", ROOT_FOLDER_IDX)] \in F
  BY <1>2, ZeroTyped, NodeIs DEF ZeroFnode
<1>4. Node = NodeOf(F, I, J, J)
  BY NodeIs
<1> HIDE DEF F, I, J
<1> QED
  BY <1>3, <1>4, ZeroTyped DEF NodeOf, RootFnode

\* A node that gen_fnode has made.
LEMMA GenTyped ==
  ASSUME NEW i \in FIdx, NEW parent \in FolderTerm
  PROVE  /\ gen_fnode(i, parent) \in Node
         /\ gen_fnode(i, parent).fterms =
              [[[s \in FSlot |-> NoTerm] EXCEPT ![SELF_IDX] = gen_term(".", i)]
                  EXCEPT ![PARENT_IDX] = [parent EXCEPT !.name = ".."]]
         /\ gen_fnode(i, parent).iterms = [s \in ISlot |-> NoTerm]
         /\ gen_fnode(i, parent).num_fterm = 2 /\ gen_fnode(i, parent).num_iterm = 0
<1>1. gen_term(".", i) \in FolderTerm /\ [parent EXCEPT !.name = ".."] \in FolderTerm
  BY NamesAre DEF gen_term, FolderTerm
<1>2. [[ZeroFnode.fterms EXCEPT ![SELF_IDX] = gen_term(".", i)]
         EXCEPT ![PARENT_IDX] = [parent EXCEPT !.name = ".."]] \in [FSlot -> FolderTerm]
  BY <1>1, ZeroTyped
<1> DEFINE F == [FSlot -> FolderTerm]  I == [ISlot -> FileTerm]  J == Int
<1>3. ZeroFnode.num_iterm = 0 /\ 2 \in J /\ ZeroFnode \in NodeOf(F, I, J, J)
      /\ [[ZeroFnode.fterms EXCEPT ![SELF_IDX] = gen_term(".", i)]
             EXCEPT ![PARENT_IDX] = [parent EXCEPT !.name = ".."]] \in F
  BY <1>2, ZeroTyped, NodeIs DEF ZeroFnode
<1>4. Node = NodeOf(F, I, J, J)
  BY NodeIs
<1> HIDE DEF F, I, J
<1> QED
  BY <1>3, <1>4, ZeroTyped DEF NodeOf, gen_fnode

\* A node that delete_fterm or delete_iterm has changed.
LEMMA DropTyped ==
  ASSUME NEW fn \in Node, NEW n
  PROVE  /\ delete_fterm(fn, n) \in Node
         /\ delete_fterm(fn, n).fterms = DropTerms(fn.fterms, Sub, n)
         /\ delete_fterm(fn, n).iterms = fn.iterms
         /\ delete_fterm(fn, n).num_fterm = fn.num_fterm - 1
         /\ delete_fterm(fn, n).num_iterm = fn.num_iterm
         /\ delete_iterm(fn, n) \in Node
         /\ delete_iterm(fn, n).iterms = DropTerms(fn.iterms, ISlot, n)
         /\ delete_iterm(fn, n).fterms = fn.fterms
         /\ delete_iterm(fn, n).num_iterm = fn.num_iterm - 1
         /\ delete_iterm(fn, n).num_fterm = fn.num_fterm
<1>1. /\ fn.fterms \in [FSlot -> FolderTerm] /\ fn.iterms \in [ISlot -> FileTerm]
      /\ fn.num_fterm \in Int /\ fn.num_iterm \in Int
  BY PartsOfNode
<1>2. DropTerms(fn.fterms, Sub, n) \in [FSlot -> FolderTerm]
  BY <1>1 DEF DropTerms, FolderTerm
<1>3. DropTerms(fn.iterms, ISlot, n) \in [ISlot -> FileTerm]
  BY <1>1 DEF DropTerms, FileTerm
<1> DEFINE F == [FSlot -> FolderTerm]  I == [ISlot -> FileTerm]  J == Int
<1>4. /\ fn.num_fterm - 1 \in J /\ fn.num_iterm - 1 \in J
      /\ DropTerms(fn.fterms, Sub, n) \in F /\ DropTerms(fn.iterms, ISlot, n) \in I
  BY <1>1, <1>2, <1>3
<1>5. Node = NodeOf(F, I, J, J)
  BY NodeIs
<1> HIDE DEF F, I, J
<1>6. /\ delete_fterm(fn, n) \in Node
      /\ delete_fterm(fn, n).fterms = DropTerms(fn.fterms, Sub, n)
      /\ delete_fterm(fn, n).iterms = fn.iterms
      /\ delete_fterm(fn, n).num_fterm = fn.num_fterm - 1
      /\ delete_fterm(fn, n).num_iterm = fn.num_iterm
  BY <1>4, <1>5 DEF NodeOf, delete_fterm
<1> QED
  BY <1>4, <1>5, <1>6 DEF NodeOf, delete_iterm

\* A counter of terms that goes up.
LEMMA Successor == \A j \in Int : j + 1 \in Int
OBVIOUS

\* A node with one term more.
LEMMA InsertTyped ==
  ASSUME NEW fn \in Node, NEW n \in AnyName
  PROVE  /\ \A s \in FSlot, i \in FIdx :
               LET r == [fn EXCEPT !.fterms[s] = gen_term(n, i), !.num_fterm = @ + 1]
               IN  /\ r \in Node
                   /\ r.fterms = [fn.fterms EXCEPT ![s] = gen_term(n, i)]
                   /\ r.num_fterm = fn.num_fterm + 1
                   /\ r.iterms = fn.iterms /\ r.num_iterm = fn.num_iterm
         /\ \A s \in ISlot, i \in IIdx :
               LET r == [fn EXCEPT !.iterms[s] = gen_term(n, i), !.num_iterm = @ + 1]
               IN  /\ r \in Node
                   /\ r.iterms = [fn.iterms EXCEPT ![s] = gen_term(n, i)]
                   /\ r.num_iterm = fn.num_iterm + 1
                   /\ r.fterms = fn.fterms /\ r.num_fterm = fn.num_fterm
<1>0. /\ fn.fterms \in [FSlot -> FolderTerm] /\ fn.iterms \in [ISlot -> FileTerm]
      /\ fn.num_fterm \in Int /\ fn.num_iterm \in Int
  BY PartsOfNode
<1>1. \A j \in Int : j + 1 \in Int
  BY Successor
<1>2. ASSUME NEW s \in FSlot, NEW i \in FIdx
      PROVE  [fn.fterms EXCEPT ![s] = gen_term(n, i)] \in [FSlot -> FolderTerm]
  BY <1>0 DEF gen_term, FolderTerm
<1>3. ASSUME NEW s \in ISlot, NEW i \in IIdx
      PROVE  [fn.iterms EXCEPT ![s] = gen_term(n, i)] \in [ISlot -> FileTerm]
  BY <1>0 DEF gen_term, FileTerm
<1> DEFINE F == [FSlot -> FolderTerm]  I == [ISlot -> FileTerm]  J == Int
<1>4. Node = NodeOf(F, I, J, J)
  BY NodeIs
<1>5. fn.num_fterm + 1 \in J /\ fn.num_iterm + 1 \in J
  BY <1>0, <1>1
<1>6. ASSUME NEW s \in FSlot, NEW i \in FIdx
      PROVE  LET r == [fn EXCEPT !.fterms[s] = gen_term(n, i), !.num_fterm = @ + 1]
               IN  /\ r \in Node
                   /\ r.fterms = [fn.fterms EXCEPT ![s] = gen_term(n, i)]
                   /\ r.num_fterm = fn.num_fterm + 1
                   /\ r.iterms = fn.iterms /\ r.num_iterm = fn.num_iterm
  <2>1. [fn.fterms EXCEPT ![s] = gen_term(n, i)] \in F
    BY <1>2
  <2> HIDE DEF F, I, J
  <2> QED
    BY <1>4, <1>5, <2>1 DEF NodeOf
<1>7. ASSUME NEW s \in ISlot, NEW i \in IIdx
      PROVE  LET r == [fn EXCEPT !.iterms[s] = gen_term(n, i), !.num_iterm = @ + 1]
               IN  /\ r \in Node
                   /\ r.iterms = [fn.iterms EXCEPT ![s] = gen_term(n, i)]
                   /\ r.num_iterm = fn.num_iterm + 1
                   /\ r.fterms = fn.fterms /\ r.num_fterm = fn.num_fterm
  <2>1. [fn.iterms EXCEPT ![s] = gen_term(n, i)] \in I
    BY <1>3
  <2> HIDE DEF F, I, J
  <2> QED
    BY <1>4, <1>5, <2>1 DEF NodeOf
<1> QED
  BY <1>6, <1>7

\* What read_fnode leaves in the copy.
LEMMA ReadTyped ==
  ASSUME NEW map, NEW d \in Disks, NEW fn \in Node, NEW i \in FIdx
  PROVE  read_fnode(map, d, fn, i) \in Node
BY DEF read_fnode, Disks

-----------------------------------------------------------------------------
(* The disk after the writes of a call.                                    *)

\* The disk d after the writes ws.
After(d, ws) ==
  [b \in DOMAIN d |->
     IF \E k \in DOMAIN ws : ws[k].blk = b
     THEN ws[CHOOSE k \in DOMAIN ws :
               ws[k].blk = b /\ \A l \in DOMAIN ws : ws[l].blk = b => l <= k].data
     ELSE d[b]]

\* What is written last to a block is what it then holds.
LEMMA WrittenLast ==
  ASSUME NEW d, NEW ws \in Seq(NodeWrite), NEW k \in DOMAIN ws,
         \A l \in DOMAIN ws : ws[l].blk = ws[k].blk => l <= k,
         ws[k].blk \in DOMAIN d
  PROVE  After(d, ws)[ws[k].blk] = ws[k].data
<1> DEFINE b == ws[k].blk
           Latest(j) == j \in DOMAIN ws /\ ws[j].blk = b /\ \A l \in DOMAIN ws : ws[l].blk = b => l <= j
<1>1. Latest(k) /\ \A j : Latest(j) => j = k
  OBVIOUS
<1>2. (CHOOSE j \in DOMAIN ws : ws[j].blk = b /\ \A l \in DOMAIN ws : ws[l].blk = b => l <= j) = k
  BY <1>1
<1>3. After(d, ws)[b] = IF \E j \in DOMAIN ws : ws[j].blk = b
                        THEN ws[CHOOSE j \in DOMAIN ws :
                               ws[j].blk = b /\ \A l \in DOMAIN ws : ws[l].blk = b => l <= j].data
                        ELSE d[b]
  BY DEF After
<1> QED
  BY <1>2, <1>3

\* A block that is not written stays as it was.
LEMMA NotWritten ==
  ASSUME NEW d, NEW ws, NEW b \in DOMAIN d, \A k \in DOMAIN ws : ws[k].blk # b
  PROVE  After(d, ws)[b] = d[b]
BY DEF After

\* A block that is written is written last by some write.
LEMMA LastWrite ==
  ASSUME NEW ws \in Seq(NodeWrite), NEW j \in DOMAIN ws
  PROVE  \E k \in DOMAIN ws : ws[k].blk = ws[j].blk
              /\ \A l \in DOMAIN ws : ws[l].blk = ws[k].blk => l <= k
<1> DEFINE T == {m \in Nat : m < Len(ws) /\ ws[Len(ws) - m].blk = ws[j].blk}
<1>1. Len(ws) - j \in T
  OBVIOUS
<1>2. PICK m \in T : \A n \in T : m <= n
  BY <1>1, LeastElement
<1>3. Len(ws) - m \in DOMAIN ws /\ ws[Len(ws) - m].blk = ws[j].blk
  BY <1>2
<1>4. ASSUME NEW l \in DOMAIN ws, ws[l].blk = ws[j].blk
      PROVE  l <= Len(ws) - m
  <2>1. Len(ws) - l \in T
    BY <1>4
  <2> QED
    BY <1>2, <2>1
<1> QED
  BY <1>3, <1>4

\* The head of the writes reaching the disk does not change what the disk holds
\* after all of them.
LEMMA HeadWritten ==
  ASSUME NEW d, NEW todo0 \in Seq(NodeWrite), todo0 # <<>>
  PROVE  After([d EXCEPT ![Head(todo0).blk] = Head(todo0).data], Tail(todo0)) = After(d, todo0)
<1> DEFINE w == Head(todo0)  rest == Tail(todo0)
           D == [d EXCEPT ![w.blk] = w.data]
<1>2. /\ w = todo0[1] /\ rest \in Seq(NodeWrite) /\ 1 \in DOMAIN todo0
      /\ Len(todo0) \in Nat /\ Len(rest) = Len(todo0) - 1
      /\ DOMAIN todo0 = 1 .. Len(todo0) /\ DOMAIN rest = 1 .. Len(todo0) - 1
      /\ \A k \in DOMAIN rest : rest[k] = todo0[k + 1]
  OBVIOUS
<1> HIDE DEF w, rest
<1>3. DOMAIN D = DOMAIN d
  OBVIOUS
<1>4. ASSUME NEW b \in DOMAIN d PROVE After(D, rest)[b] = After(d, todo0)[b]
  <2>1. CASE \E j \in DOMAIN rest : rest[j].blk = b
    <3> HIDE DEF D
    <3>1. PICK k \in DOMAIN rest : /\ rest[k].blk = b
                                   /\ \A l \in DOMAIN rest : rest[l].blk = rest[k].blk => l <= k
      BY <1>2, <2>1, LastWrite
    <3>2. After(D, rest)[b] = rest[k].data
      BY <1>2, <1>3, <3>1, WrittenLast
    <3>3. k + 1 \in DOMAIN todo0 /\ todo0[k + 1] = rest[k]
      BY <1>2
    <3>4. ASSUME NEW l \in DOMAIN todo0, todo0[l].blk = todo0[k + 1].blk PROVE l <= k + 1
      <4>1. CASE l = 1
        BY <1>2, <4>1
      <4>2. CASE l # 1
        <5>1. l - 1 \in DOMAIN rest /\ rest[l - 1] = todo0[l]
          BY <1>2, <4>2
        <5> QED
          BY <1>2, <3>1, <3>3, <3>4, <5>1
      <4> QED
        BY <4>1, <4>2
    <3>5. After(d, todo0)[b] = todo0[k + 1].data
      BY <1>2, <3>1, <3>3, <3>4, WrittenLast
    <3> QED
      BY <3>2, <3>3, <3>5
  <2>2. CASE \A j \in DOMAIN rest : rest[j].blk # b
    <3>1. After(D, rest)[b] = D[b]
      BY <1>3, <2>2, NotWritten
    <3>0. \A l \in DOMAIN todo0 : l # 1 => todo0[l].blk # b
      <4>1. SUFFICES ASSUME NEW l \in DOMAIN todo0, l # 1 PROVE todo0[l].blk # b
        OBVIOUS
      <4>2. l - 1 \in DOMAIN rest /\ rest[l - 1] = todo0[l]
        BY <1>2, <4>1
      <4> QED
        BY <2>2, <4>2
    <3>2. CASE w.blk = b
      <4>1. \A l \in DOMAIN todo0 : todo0[l].blk = todo0[1].blk => l <= 1
        BY <1>2, <3>0, <3>2
      <4>2. After(d, todo0)[b] = todo0[1].data
        BY <1>2, <3>2, <4>1, WrittenLast
      <4> QED
        BY <1>2, <3>1, <3>2, <4>2
    <3>3. CASE w.blk # b
      <4>1. \A k \in DOMAIN todo0 : todo0[k].blk # b
        BY <1>2, <3>0, <3>3
      <4>2. After(d, todo0)[b] = d[b]
        BY <4>1, NotWritten
      <4> QED
        BY <3>1, <3>3, <4>2
    <3> QED
      BY <3>2, <3>3
  <2> QED
    BY <2>1, <2>2
<1>5. After(D, rest) = [b \in DOMAIN d |-> After(D, rest)[b]]
  BY <1>3 DEF After
<1>6. After(d, todo0) = [b \in DOMAIN d |-> After(d, todo0)[b]]
  BY DEF After
<1>7. After(D, rest) = After(d, todo0)
  BY <1>4, <1>5, <1>6, Zenon
<1> QED
  BY <1>7 DEF w, rest

\* Written, which Return uses, is After the writes.
LEMMA WrittenIsAfter == \A ws : Written(ws) = After(disk, ws)
BY DEF Written, After

\* The disk after the writes of a call.
LEMMA AfterTyped ==
  ASSUME NEW d \in Disks, NEW ws \in Seq(NodeWrite)
  PROVE  After(d, ws) \in Disks
<1> DEFINE D == After(d, ws)
<1>1. DOMAIN D = FIdx \cup {SB} /\ DOMAIN d = FIdx \cup {SB} /\ D = [b \in FIdx \cup {SB} |-> D[b]]
  BY DEF After, Disks
<1>2. ASSUME NEW b \in FIdx \cup {SB}
      PROVE  (b = SB => D[b] \in SuperBlock) /\ (b \in FIdx => D[b] \in Node)
  <2>1. CASE \E j \in DOMAIN ws : ws[j].blk = b
    <3>1. PICK k \in DOMAIN ws : ws[k].blk = b
                                 /\ \A l \in DOMAIN ws : ws[l].blk = ws[k].blk => l <= k
      BY <2>1, LastWrite
    <3>2. D[b] = ws[k].data
      BY <1>1, <3>1, WrittenLast
    <3>3. ws[k] \in NodeWrite
      OBVIOUS
    <3> QED
      BY <3>1, <3>2, <3>3, Limits DEF NodeWrite
  <2>2. CASE \A j \in DOMAIN ws : ws[j].blk # b
    <3>1. D[b] = d[b]
      BY <1>1, <2>2, NotWritten
    <3> QED
      BY <3>1 DEF Disks
  <2> QED
    BY <2>1, <2>2
<1> HIDE DEF D
<1>3. D \in [FIdx \cup {SB} -> Node \cup SuperBlock]
  BY <1>1, <1>2, Limits
<1>4. D \in Disks
  BY <1>2, <1>3 DEF Disks
<1> QED
  BY <1>4 DEF D

-----------------------------------------------------------------------------
(* The types are invariant.                                                *)

\* The disk that PSV_setup leaves.
LEMMA InitTyped == Init => Typed
<1> SUFFICES ASSUME Init PROVE Typed
  OBVIOUS
<1>1. FreshSb \in SuperBlock
  BY Limits DEF FreshSb, SuperBlock
<1>2. disk \in Disks
  <2>1. disk = [i \in FIdx \cup {SB} |-> CASE i = SB -> FreshSb
                                          [] i = ROOT_FOLDER_IDX -> RootFnode
                                          [] OTHER -> ZeroFnode]
    BY DEF Init
  <2>2. disk[SB] = FreshSb
    BY <2>1, Limits
  <2>3. \A i \in FIdx : disk[i] \in {RootFnode, ZeroFnode}
    BY <2>1, Limits
  <2>4. \A i \in FIdx : disk[i] \in Node
    BY <2>3, RootTyped, ZeroTyped
  <2> QED
    BY <1>1, <2>1, <2>2, <2>4, Limits DEF Disks
<1>3. sb \in SuperBlock /\ cf \in Node
  BY <1>1, RootTyped DEF Init
<1>4. todo \in Seq(NodeWrite) /\ del \in Seq(Activation) /\ origin \in FIdx \cup {NoCall}
  BY DEF Init
<1>5. crashes \in 0 .. MaxCrashes
  <2>1. MaxCrashes \in Nat
    BY LimitsAssumption
  <2> QED
    BY <2>1 DEF Init
<1> QED
  BY <1>2, <1>3, <1>4, <1>5 DEF Typed, Init

\* The super block after a bit is set or cleared.
LEMMA BitsTyped ==
  ASSUME NEW s \in SuperBlock, NEW i
  PROVE  /\ i \in FIdx => /\ [s EXCEPT !.fmap = set_bitmap(@, i)] \in SuperBlock
                          /\ [s EXCEPT !.fmap = set_bitmap(@, i)].fmap = s.fmap \cup {i}
                          /\ [s EXCEPT !.fmap = set_bitmap(@, i)].imap = s.imap
         /\ i \in IIdx => /\ [s EXCEPT !.imap = set_bitmap(@, i)] \in SuperBlock
                          /\ [s EXCEPT !.imap = set_bitmap(@, i)].imap = s.imap \cup {i}
                          /\ [s EXCEPT !.imap = set_bitmap(@, i)].fmap = s.fmap
         /\ [s EXCEPT !.fmap = clear_bitmap(@, i)] \in SuperBlock
         /\ [s EXCEPT !.fmap = clear_bitmap(@, i)].fmap = s.fmap \ {i}
         /\ [s EXCEPT !.fmap = clear_bitmap(@, i)].imap = s.imap
         /\ [s EXCEPT !.imap = clear_bitmap(@, i)] \in SuperBlock
         /\ [s EXCEPT !.imap = clear_bitmap(@, i)].imap = s.imap \ {i}
         /\ [s EXCEPT !.imap = clear_bitmap(@, i)].fmap = s.fmap
BY DEF SuperBlock, set_bitmap, clear_bitmap

\* The writes the calls make.
LEMMA WritesTyped ==
  /\ \A fn \in Node, i \in FIdx : write_fnode(fn, i) \in NodeWrite
  /\ \A fn \in Node : write_fnode(fn, self(fn)) \in NodeWrite
  /\ sb' \in SuperBlock => write_sb \in NodeWrite
  /\ \A w \in NodeWrite : <<w>> \in Seq(NodeWrite)
  /\ \A v, w \in NodeWrite : <<v, w>> \in Seq(NodeWrite)
  /\ \A u, v, w \in NodeWrite : <<u, v, w>> \in Seq(NodeWrite)
<1>1. \A fn \in Node, i \in FIdx : write_fnode(fn, i) \in NodeWrite
  BY DEF write_fnode, NodeWrite
<1>2. \A fn \in Node : self(fn) \in FIdx
  BY PartsOfNode
<1>3. sb' \in SuperBlock => write_sb \in NodeWrite
  BY DEF write_sb, NodeWrite
<1> QED
  BY <1>1, <1>2, <1>3

\* The tail of a creation.
LEMMA ReturnTyped ==
  ASSUME Typed, NEW fn \in Node, NEW ws \in Seq(NodeWrite), NEW back \in FIdx,
         del = <<>>, sb' \in SuperBlock, Return(fn, ws, back)
  PROVE  Typed'
<1>1. /\ todo' = ws /\ cf' = read_fnode(sb'.fmap, After(disk, ws), fn, back) /\ origin' = NoCall
      /\ UNCHANGED <<disk, del, crashes>>
  BY WrittenIsAfter DEF Return
<1>2. After(disk, ws) \in Disks
  BY AfterTyped DEF Typed
<1>3. cf' \in Node
  BY <1>1, <1>2, ReadTyped
<1> QED
  BY <1>1, <1>3 DEF Typed

\* create_folder and create_file.
LEMMA CreateTyped ==
  ASSUME Typed, del = <<>>, NEW fn \in Node, NEW back \in FIdx, NEW n \in AnyName
  PROVE  /\ create_folder(fn, n, back) => Typed'
         /\ create_file(fn, n, back) => Typed'
<1>0. sb \in SuperBlock /\ <<>> \in Seq(NodeWrite)
  BY DEF Typed
<1>1. ASSUME sb' = sb, Return(fn, <<>>, back) PROVE Typed'
  BY <1>0, <1>1, ReturnTyped
<1>2. ASSUME NEW i \in FIdx, NEW s \in Sub, sb' = [sb EXCEPT !.fmap = set_bitmap(@, i)],
             LET parent == [fn EXCEPT !.fterms[s] = gen_term(n, i), !.num_fterm = @ + 1]
             IN  Return(parent,
                        << write_fnode(parent, self(fn)), write_sb,
                           write_fnode(gen_fnode(i, parent.fterms[SELF_IDX]), i) >>, back)
      PROVE  Typed'
  <2> DEFINE parent == [fn EXCEPT !.fterms[s] = gen_term(n, i), !.num_fterm = @ + 1]
  <2>1. parent \in Node
    BY InsertTyped, Limits
  <2> HIDE DEF parent
  <2>2. parent.fterms[SELF_IDX] \in FolderTerm /\ self(fn) \in FIdx
    BY <2>1, PartsOfNode, Limits
  <2>3. gen_fnode(i, parent.fterms[SELF_IDX]) \in Node
    BY <2>2, GenTyped
  <2>4. sb' \in SuperBlock
    BY <1>0, <1>2, BitsTyped
  <2>5. << write_fnode(parent, self(fn)), write_sb,
           write_fnode(gen_fnode(i, parent.fterms[SELF_IDX]), i) >> \in Seq(NodeWrite)
    BY <2>1, <2>2, <2>3, <2>4, WritesTyped
  <2>6. Return(parent, << write_fnode(parent, self(fn)), write_sb,
                          write_fnode(gen_fnode(i, parent.fterms[SELF_IDX]), i) >>, back)
    BY <1>2 DEF parent
  <2> QED
    BY <2>1, <2>4, <2>5, <2>6, ReturnTyped
<1>3. ASSUME NEW i \in IIdx, NEW s \in ISlot, sb' = [sb EXCEPT !.imap = set_bitmap(@, i)],
             LET parent == [fn EXCEPT !.iterms[s] = gen_term(n, i), !.num_iterm = @ + 1]
             IN  Return(parent, << write_fnode(parent, self(fn)), write_sb >>, back)
      PROVE  Typed'
  <2> DEFINE parent == [fn EXCEPT !.iterms[s] = gen_term(n, i), !.num_iterm = @ + 1]
  <2>1. parent \in Node
    BY InsertTyped
  <2> HIDE DEF parent
  <2>2. self(fn) \in FIdx
    BY PartsOfNode
  <2>4. sb' \in SuperBlock
    BY <1>0, <1>3, BitsTyped
  <2>5. << write_fnode(parent, self(fn)), write_sb >> \in Seq(NodeWrite)
    BY <2>1, <2>2, <2>4, WritesTyped
  <2>6. Return(parent, << write_fnode(parent, self(fn)), write_sb >>, back)
    BY <1>3 DEF parent
  <2> QED
    BY <2>1, <2>4, <2>5, <2>6, ReturnTyped
<1>4. create_folder(fn, n, back) => Typed'
  BY <1>1, <1>2 DEF create_folder
<1>5. create_file(fn, n, back) => Typed'
  BY <1>1, <1>3 DEF create_file
<1> QED
  BY <1>4, <1>5

\* The activations of delete_folder, one less or with the innermost changed.
LEMMA ActivationsTyped ==
  ASSUME del \in Seq(Activation), del # <<>>
  PROVE  /\ Inner \in Activation /\ Inner.fn \in Node /\ Inner.bit \in FIdx
         /\ Outer \in Seq(Activation)
         /\ \A fn \in Node : [del EXCEPT ![Len(del)].fn = fn] \in Seq(Activation)
         /\ \A fn \in Node : [Inner EXCEPT !.fn = fn] \in Activation
         /\ \A ds \in Seq(Activation), a \in Activation : Append(ds, a) \in Seq(Activation)
<1>1. Len(del) \in DOMAIN del /\ Len(del) \in Nat
  OBVIOUS
<1>2. Inner \in Activation
  BY <1>1 DEF Inner
<1>3. Inner.fn \in Node /\ Inner.bit \in FIdx
  BY <1>2 DEF Activation
<1>4. \A fn \in Node : [Inner EXCEPT !.fn = fn] \in Activation
  BY <1>2 DEF Activation
<1>5. ASSUME NEW fn \in Node PROVE [del EXCEPT ![Len(del)].fn = fn] \in Seq(Activation)
  <2> DEFINE a == [Inner EXCEPT !.fn = fn]
  <2>1. [del EXCEPT ![Len(del)].fn = fn] = [del EXCEPT ![Len(del)] = a]
    BY DEF Inner
  <2>2. a \in Activation
    BY <1>4
  <2> HIDE DEF a
  <2> QED
    BY <1>1, <2>1, <2>2
<1>6. Outer \in Seq(Activation)
  BY <1>1 DEF Outer
<1> QED
  BY <1>2, <1>3, <1>4, <1>5, <1>6

\* delete_folder up to its read_fnode.
LEMMA EnterTyped ==
  ASSUME Typed, NEW fn \in Node, NEW n, NEW outer \in Seq(Activation), Enter(fn, n, outer)
  PROVE  del' \in Seq(Activation) /\ todo' \in Seq(NodeWrite) /\ del' # <<>>
<1>1. PICK s \in Sub, g \in StackGarbage :
        /\ del' = Append(outer, [fn |-> read_fnode(sb.fmap, disk, g, fn.fterms[s].idx),
                                 bit |-> fn.fterms[s].idx])
        /\ todo' = << write_fnode(delete_fterm(fn, n), self(fn)) >>
  BY DEF Enter
<1>2. g \in Node /\ disk \in Disks
  BY ZeroTyped DEF StackGarbage, Typed, Disks
<1>3. fn.fterms[s].idx \in FIdx /\ self(fn) \in FIdx
  BY PartsOfNode, Limits DEF FolderTerm
<1>4. read_fnode(sb.fmap, disk, g, fn.fterms[s].idx) \in Node
  BY <1>2, <1>3, ReadTyped
<1>5. [fn |-> read_fnode(sb.fmap, disk, g, fn.fterms[s].idx), bit |-> fn.fterms[s].idx] \in Activation
  BY <1>3, <1>4 DEF Activation
<1>6. del' \in Seq(Activation) /\ del' # <<>>
  BY <1>1, <1>5
<1>7. delete_fterm(fn, n) \in Node
  BY DropTyped
<1> QED
  BY <1>1, <1>3, <1>6, <1>7, WritesTyped

\* The calls that only walk.
LEMMA WalkTyped ==
  ASSUME Typed
  PROVE  /\ Begin => Typed'
         /\ \A n : WalkInto(n) => Typed'
         /\ \A n : WalkFails(n) => Typed'
         /\ Goin => Typed'
         /\ Lookup => Typed'
         /\ Walking /\ Fails => Typed'
<1>0. /\ cf \in Node /\ self(cf) \in FIdx /\ disk \in Disks
      /\ \A i \in FIdx : read_fnode(sb.fmap, disk, cf, i) \in Node
  BY PartsOfNode, ReadTyped DEF Typed
<1>1. Begin => Typed'
  BY <1>0, Limits DEF Typed, Begin
<1>2. ASSUME NEW n, WalkInto(n) PROVE Typed'
  <2>1. PICK s \in FSlot : cf' = read_fnode(sb.fmap, disk, cf, cf.fterms[s].idx)
    BY <1>2 DEF WalkInto, Matches
  <2>2. cf.fterms[s].idx \in FIdx
    BY <1>0, PartsOfNode DEF FolderTerm
  <2> QED
    BY <1>0, <1>2, <2>1, <2>2 DEF WalkInto, Typed
<1>3. Goin \/ (Walking /\ Fails) \/ (\E n : WalkFails(n)) => Typed'
  BY DEF Typed, Goin, Fails, WalkFails, Walking
<1>4. Lookup => Typed'
  BY <1>0 DEF Typed, Lookup, Walking
<1> QED
  BY <1>1, <1>2, <1>3, <1>4

\* The calls that begin to delete.
LEMMA DeleteTyped ==
  ASSUME Typed, NEW n
  PROVE  DeleteFile(n) \/ DeleteFolder(n) => Typed'
<1>0. cf \in Node /\ sb \in SuperBlock /\ delete_fterm(cf, n) \in Node /\ delete_iterm(cf, n) \in Node
  BY DropTyped DEF Typed
<1>1. ASSUME Walking, Fails PROVE Typed'
  BY <1>1, WalkTyped
<1>2. ASSUME Walking, NEW s \in ISlot, cf' = delete_iterm(cf, n),
             sb' = [sb EXCEPT !.imap = clear_bitmap(@, cf.iterms[s].idx)],
             todo' = FileWrites(cf'), origin' = NoCall, UNCHANGED <<disk, del, crashes>>
      PROVE  Typed'
  <2>1. sb' \in SuperBlock /\ cf' \in Node
    BY <1>0, <1>2, BitsTyped
  <2>2. todo' \in Seq(NodeWrite)
    BY <1>0, <1>2, <2>1, WritesTyped DEF FileWrites
  <2> QED
    BY <1>2, <2>1, <2>2 DEF Typed, Walking
<1>3. ASSUME Walking, Enter(cf, n, <<>>), cf' = delete_fterm(cf, n), UNCHANGED <<sb, disk, origin, crashes>>
      PROVE  Typed'
  <2>1. del' \in Seq(Activation) /\ todo' \in Seq(NodeWrite)
    <3>1. cf \in Node /\ <<>> \in Seq(Activation)
      BY <1>0
    <3> QED
      BY <1>3, <3>1, EnterTyped
  <2> QED
    BY <1>0, <1>3, <2>1 DEF Typed, Walking
<1> QED
  BY <1>1, <1>2, <1>3 DEF DeleteFile, DeleteFolder

\* The rest of a deletion.
LEMMA RecursionTyped ==
  ASSUME Typed
  PROVE  DeleteNextFile \/ DeleteNextFolder \/ DeleteEmptied => Typed'
<1>0. /\ sb \in SuperBlock /\ del \in Seq(Activation) /\ disk \in Disks /\ cf \in Node
      /\ origin \in FIdx \cup {NoCall}
  BY DEF Typed
<1>1. ASSUME DeleteNextFile PROVE Typed'
  <2>1. PICK s \in ISlot, t \in ISlot :
          LET terms == Inner.fn.iterms
              fn == delete_iterm(Inner.fn, terms[s].name)
          IN  /\ sb' = [sb EXCEPT !.imap = clear_bitmap(@, terms[t].idx)]
              /\ todo' = FileWrites(fn)
              /\ del' = [del EXCEPT ![Len(del)].fn = fn]
    BY <1>1 DEF DeleteNextFile
  <2> DEFINE fn == delete_iterm(Inner.fn, Inner.fn.iterms[s].name)
  <2>2. fn \in Node
    BY <1>0, <1>1, ActivationsTyped, DropTyped DEF DeleteNextFile, Deleting
  <2> HIDE DEF fn
  <2>3. del' = [del EXCEPT ![Len(del)].fn = fn] /\ todo' = FileWrites(fn)
    BY <2>1 DEF fn
  <2>4. del' \in Seq(Activation)
    BY <1>0, <1>1, <2>2, <2>3, ActivationsTyped DEF DeleteNextFile, Deleting
  <2>5. sb' \in SuperBlock
    BY <1>0, <2>1, BitsTyped
  <2>6. todo' \in Seq(NodeWrite)
    BY <2>2, <2>3, <2>5, WritesTyped DEF FileWrites
  <2> QED
    BY <1>1, <2>4, <2>5, <2>6 DEF Typed, DeleteNextFile
<1>2. ASSUME DeleteNextFolder PROVE Typed'
  <2>1. PICK s \in Sub :
        LET n == Inner.fn.fterms[s].name
        IN  \/ /\ del' = <<>> /\ origin' = NoCall /\ todo' = todo
            \/ /\ Enter(Inner.fn, n, Append(Outer, [Inner EXCEPT !.fn = delete_fterm(@, n)]))
               /\ origin' = origin
    BY <1>2 DEF DeleteNextFolder
  <2> DEFINE n == Inner.fn.fterms[s].name
             outer == Append(Outer, [Inner EXCEPT !.fn = delete_fterm(@, n)])
  <2>2. Inner.fn \in Node /\ outer \in Seq(Activation)
    <3>1. Inner.fn \in Node /\ Inner \in Activation /\ Outer \in Seq(Activation)
      BY <1>0, <1>2, ActivationsTyped DEF DeleteNextFolder, Deleting
    <3>2. delete_fterm(Inner.fn, n) \in Node
      BY <3>1, DropTyped
    <3>3. [Inner EXCEPT !.fn = delete_fterm(Inner.fn, n)] \in Activation
      BY <1>0, <1>2, <3>2, ActivationsTyped DEF DeleteNextFolder, Deleting
    <3> QED
      BY <3>1, <3>3
  <2>3. ASSUME Enter(Inner.fn, n, outer) PROVE del' \in Seq(Activation) /\ todo' \in Seq(NodeWrite)
    <3> HIDE DEF n, outer
    <3> QED
      BY <2>2, <2>3, EnterTyped
  <2>4. /\ del' \in Seq(Activation) /\ todo' \in Seq(NodeWrite)
        /\ origin' \in FIdx \cup {NoCall} /\ (del' # <<>> => origin' # NoCall)
    <3>1. CASE del' = <<>> /\ origin' = NoCall /\ todo' = todo
      BY <3>1 DEF Typed
    <3>2. CASE Enter(Inner.fn, n, outer) /\ origin' = origin
      BY <1>0, <1>2, <2>3, <3>2 DEF DeleteNextFolder, Deleting, Typed
    <3> HIDE DEF outer
    <3> QED
      BY <2>1, <3>1, <3>2 DEF outer
  <2> QED
    BY <1>2, <2>4 DEF Typed, DeleteNextFolder
<1>3. ASSUME DeleteEmptied PROVE Typed'
  <2>1. /\ Inner.bit \in FIdx /\ Outer \in Seq(Activation)
    BY <1>0, <1>3, ActivationsTyped DEF DeleteEmptied, Deleting
  <2>2. /\ sb' = [sb EXCEPT !.fmap = clear_bitmap(@, Inner.bit)] /\ todo' = << write_sb >>
        /\ del' = Outer /\ UNCHANGED <<disk, crashes>>
    BY <1>3 DEF DeleteEmptied
  <2>3. sb' \in SuperBlock
    BY <1>0, <2>2, BitsTyped
  <2>4. todo' \in Seq(NodeWrite)
    BY <2>2, <2>3, WritesTyped
  <2>5. /\ origin' \in FIdx \cup {NoCall} /\ cf' \in Node
        /\ del' # <<>> => origin' # NoCall
    <3>1. origin # NoCall
      BY <1>3 DEF Typed, DeleteEmptied, Deleting
    <3>2. read_fnode(sb'.fmap, disk, cf, origin) \in Node
      BY <1>0, <3>1, ReadTyped
    <3> QED
      BY <1>0, <1>3, <3>1, <3>2 DEF DeleteEmptied
  <2> QED
    BY <2>1, <2>2, <2>3, <2>4, <2>5 DEF Typed
<1> QED
  BY <1>1, <1>2, <1>3

\* Every step leaves the types as they are.
LEMMA StepTyped == Typed /\ [Next]_vars => Typed'
<1> SUFFICES ASSUME Typed, [Next]_vars PROVE Typed'
  OBVIOUS
<1>0. cf \in Node /\ sb \in SuperBlock /\ disk \in Disks /\ todo \in Seq(NodeWrite) /\ self(cf) \in FIdx
  BY PartsOfNode DEF Typed
<1>1. CASE Begin \/ Goin \/ Lookup
  BY <1>1, WalkTyped
<1>2. ASSUME CreateUnnamed PROVE Typed'
  <2>1. del = <<>>
    BY <1>2 DEF CreateUnnamed, Idle, Typed
  <2>2. read_fnode(sb.fmap, disk, cf, ROOT_FOLDER_IDX) \in Node
    BY <1>0, Limits, ReadTyped
  <2>3. PICK n \in AnyName :
          \/ create_file(cf, n, self(cf))
          \/ create_file(read_fnode(sb.fmap, disk, cf, ROOT_FOLDER_IDX), n, self(cf))
    BY <1>2, Zenon DEF CreateUnnamed, AnyName
  <2> QED
    BY <1>0, <2>1, <2>2, <2>3, CreateTyped
<1>3. ASSUME NEW n \in Names \cup Dots, Call(n) PROVE Typed'
  <2>1. n \in AnyName
    BY NamesAre
  <2>2. CASE WalkInto(n) \/ WalkFails(n)
    BY <2>2, WalkTyped
  <2>3. CASE CreateFolder(n) \/ CreateFile(n)
    <3>1. del = <<>> /\ origin \in FIdx
      BY <2>3 DEF CreateFolder, CreateFile, Walking, Typed
    <3> QED
      BY <1>0, <2>1, <2>3, <3>1, CreateTyped DEF CreateFolder, CreateFile
  <2>4. CASE DeleteFile(n) \/ DeleteFolder(n)
    BY <2>4, DeleteTyped
  <2> QED
    BY <1>3, <2>2, <2>3, <2>4 DEF Call
<1>4. CASE DeleteNextFile \/ DeleteNextFolder \/ DeleteEmptied
  BY <1>4, RecursionTyped
<1>5. CASE WriteNext
  <2>1. /\ disk' = [disk EXCEPT ![Head(todo).blk] = Head(todo).data] /\ todo' = Tail(todo)
        /\ UNCHANGED <<sb, cf, del, origin, crashes>>
    BY <1>5 DEF WriteNext
  <2>2. Head(todo) \in NodeWrite /\ Tail(todo) \in Seq(NodeWrite)
    BY <1>0, <1>5 DEF WriteNext
  <2> DEFINE w == Head(todo)
  <2>3. disk' \in Disks
    <3> HIDE DEF w
    <3>1. w \in NodeWrite /\ disk' = [disk EXCEPT ![w.blk] = w.data]
      BY <2>1, <2>2 DEF w
    <3> QED
      BY <1>0, <3>1, Limits DEF Disks, NodeWrite
  <2> QED
    BY <2>1, <2>2, <2>3 DEF Typed
<1>6. CASE Crash
  <2>1. /\ crashes' = crashes + 1 /\ crashes < MaxCrashes
        /\ todo' = <<>> /\ del' = <<>> /\ origin' = NoCall /\ disk' = disk
        /\ sb' = disk[SB] /\ cf' = read_fnode(sb'.fmap, disk, ZeroFnode, ROOT_FOLDER_IDX)
    BY <1>6 DEF Crash
  <2>2. MaxCrashes \in Nat
    BY LimitsAssumption
  <2>3. crashes' \in 0 .. MaxCrashes
    BY <2>1, <2>2 DEF Typed
  <2>4. cf' \in Node
    BY <1>0, <2>1, ReadTyped, ZeroTyped, Limits
  <2>5. sb' \in SuperBlock
    BY <1>0, <2>1 DEF Disks
  <2> QED
    BY <1>0, <2>1, <2>3, <2>4, <2>5 DEF Typed
<1>7. CASE UNCHANGED vars
  BY <1>7 DEF vars, Typed
<1> QED
  BY <1>1, <1>2, <1>3, <1>4, <1>5, <1>6, <1>7 DEF Next

\* Typed is at least as strong as TypeOK.
LEMMA TypedTypeOK == Typed => TypeOK
<1> SUFFICES ASSUME Typed PROVE TypeOK
  OBVIOUS
<1>1. FIdx \subseteq Nat /\ IIdx \subseteq Nat
  BY DEF FIdx, IIdx
<1>2. FolderTerm \subseteq Term /\ FileTerm \subseteq Term
  <2>1. Term = [used : BOOLEAN, name : AnyName, idx : Nat]
    BY Zenon DEF Term, AnyName
  <2> QED
    BY <1>1, <2>1 DEF FolderTerm, FileTerm
<1>3. Node \subseteq Fnode
  <2>1. [FSlot -> FolderTerm] \subseteq [FSlot -> Term] /\ [ISlot -> FileTerm] \subseteq [ISlot -> Term]
    BY <1>2
  <2> DEFINE A == [FSlot -> FolderTerm]  B == [ISlot -> FileTerm]
             P == [FSlot -> Term]  Q == [ISlot -> Term]
  <2>2. A \subseteq P /\ B \subseteq Q
    BY <2>1
  <2>3. Node = NodeOf(A, B, Int, Int) /\ Fnode = NodeOf(P, Q, Int, Int)
    BY DEF NodeOf, Node, Fnode
  <2> HIDE DEF A, B, P, Q
  <2> QED
    BY <2>2, <2>3 DEF NodeOf
<1>4. NodeWrite \subseteq Write /\ Activation \subseteq Frame
  BY <1>1, <1>3 DEF NodeWrite, Write, Activation, Frame
<1>5. Disks \subseteq Disk
  BY <1>3 DEF Disks, Disk
<1>6. todo \in Seq(Write) /\ del \in Seq(Frame)
  BY <1>4 DEF Typed
<1> QED
  BY <1>1, <1>3, <1>5, <1>6 DEF Typed, TypeOK

\* The types are an invariant.
LEMMA TypedInvariant == Spec => []Typed
BY InitTyped, StepTyped, PTL DEF Spec

\* For any number of nodes, terms, names and losses of power, the kernel's copies
\* and the disk's blocks hold what the code expects in them.
THEOREM TypeCorrect == Spec => []TypeOK
BY TypedInvariant, TypedTypeOK, PTL

-----------------------------------------------------------------------------
(* What can be reached.                                                    *)

\* Terms of which one is the subfolder j.
Holds(terms, j) == \E s \in Sub : terms[s].used /\ terms[s].idx = j

\* Node i has a subfolder j.
Child(d, i, j) == Holds(d[i].fterms, j)

\* C holds the root and with a folder its subfolders.
Closed(d, C) ==
  ROOT_FOLDER_IDX \in C /\ \A i \in C, j \in FIdx : Child(d, i, j) => j \in C

\* One can walk down to p from the root or from a node of B.
Reach(d, B, p) == \A C \in SUBSET FIdx : Closed(d, C) /\ B \subseteq C => p \in C

\* The subfolders of the nodes in use, F: they are in use, and each is in one
\* folder only.
Branches(d, F) ==
  /\ F \in SUBSET FIdx /\ ROOT_FOLDER_IDX \in F
  /\ \A i \in F, j \in FIdx : Child(d, i, j) => j \in F \ {ROOT_FOLDER_IDX}
  /\ \A i, k \in F, j \in FIdx : Child(d, i, j) /\ Child(d, k, j) => i = k

\* No folder in use holds b.
Orphan(d, F, b) == b \in F \ {ROOT_FOLDER_IDX} /\ \A i \in F : ~Child(d, i, b)

\* A folder that can be reached is in use, and not cut off.
LEMMA ReachedUsed ==
  ASSUME NEW d, NEW F, Branches(d, F), NEW p, Reach(d, {}, p)
  PROVE  p \in F /\ \A b : Orphan(d, F, b) => p # b
<1>1. Closed(d, F)
  BY DEF Closed, Branches
<1>2. p \in F
  BY <1>1 DEF Reach, Branches
<1>3. ASSUME NEW b, Orphan(d, F, b) PROVE p # b
  <2>1. Closed(d, F \ {b}) /\ F \ {b} \in SUBSET FIdx
    BY <1>3 DEF Closed, Branches, Orphan
  <2> QED
    BY <2>1 DEF Reach
<1> QED
  BY <1>2, <1>3

\* A folder that is reached holds not itself.
LEMMA NotOwnChild ==
  ASSUME NEW d, NEW F, Branches(d, F), NEW x \in FIdx, Reach(d, {}, x)
  PROVE  ~Child(d, x, x)
<1> SUFFICES ASSUME Child(d, x, x) PROVE FALSE
  OBVIOUS
<1>1. x \in F
  BY ReachedUsed
<1>2. x # ROOT_FOLDER_IDX
  BY <1>1 DEF Branches
<1>3. Closed(d, F \ {x}) /\ F \ {x} \in SUBSET FIdx
  BY <1>1, <1>2 DEF Closed, Branches
<1> QED
  BY <1>3 DEF Reach

\* A subfolder of a folder that can be reached is reached.
LEMMA ReachChild ==
  ASSUME NEW d, NEW x \in FIdx, NEW y \in FIdx, Reach(d, {}, x), Child(d, x, y)
  PROVE  Reach(d, {}, y)
BY DEF Reach, Closed

\* The folder that holds a reached one is reached.
LEMMA ReachParent ==
  ASSUME NEW d, NEW F, Branches(d, F), NEW x \in FIdx, Reach(d, {}, x), x # ROOT_FOLDER_IDX,
         NEW p, \A i \in F : Child(d, i, x) => i = p
  PROVE  Reach(d, {}, p)
<1> SUFFICES ASSUME NEW C \in SUBSET FIdx, Closed(d, C), p \notin C PROVE FALSE
  BY DEF Reach
<1> DEFINE D == (C \cap F) \ {x}
<1>1. Closed(d, D) /\ D \in SUBSET FIdx
  BY DEF Closed, Branches
<1>2. x \in D
  BY <1>1 DEF Reach
<1> QED
  BY <1>2

\* Only the subfolders matter.
LEMMA ReachSame ==
  ASSUME NEW d, NEW e, \A i, j \in FIdx : Child(e, i, j) = Child(d, i, j),
         NEW B, NEW p, Reach(d, B, p)
  PROVE  Reach(e, B, p)
BY DEF Reach, Closed

\* The subfolder y of x is taken away.
Dropped(d, e, x, y) ==
  \A i, j \in FIdx : Child(e, i, j) = (Child(d, i, j) /\ ~(i = x /\ j = y))

\* Without the term of y what was reached is reached from the root or from y.
LEMMA DropReach ==
  ASSUME NEW d, NEW e, NEW x \in FIdx, NEW y \in FIdx, Dropped(d, e, x, y),
         NEW B, NEW p, Reach(d, B, p)
  PROVE  Reach(e, B \cup {y}, p)
BY DEF Reach, Closed, Dropped

\* A folder stays reached when a term of its own goes.
LEMMA DropHere ==
  ASSUME NEW d, NEW e, NEW x \in FIdx, NEW y \in FIdx, Dropped(d, e, x, y), Reach(d, {}, x)
  PROVE  Reach(e, {}, x)
<1> SUFFICES ASSUME NEW C \in SUBSET FIdx, Closed(e, C), x \notin C PROVE FALSE
  BY DEF Reach
<1>1. Closed(d, C)
  BY DEF Closed, Dropped
<1> QED
  BY <1>1 DEF Reach

\* What is reached stays so when the term that goes is in a folder cut off.
LEMMA DropElsewhere ==
  ASSUME NEW d, NEW e, NEW F, Branches(d, F), NEW x \in FIdx, NEW y \in FIdx, Dropped(d, e, x, y),
         Orphan(d, F, x), NEW p, Reach(d, {}, p)
  PROVE  Reach(e, {}, p)
<1> SUFFICES ASSUME NEW C \in SUBSET FIdx, Closed(e, C) PROVE p \in C
  BY DEF Reach
<1> DEFINE D == (C \cap F) \ {x}
<1>1. Closed(d, D) /\ D \in SUBSET FIdx
  BY DEF Closed, Branches, Orphan, Dropped
<1> QED
  BY <1>1 DEF Reach

\* With the last subfolder gone, nothing else is reached through b.
LEMMA LeafReach ==
  ASSUME NEW d, NEW B, NEW b \in FIdx, \A j \in FIdx : ~Child(d, b, j),
         NEW p, p # b, Reach(d, B, p)
  PROVE  Reach(d, B \ {b}, p)
<1> SUFFICES ASSUME NEW C \in SUBSET FIdx, Closed(d, C), B \ {b} \subseteq C PROVE p \in C
  BY DEF Reach
<1>1. Closed(d, C \cup {b}) /\ C \cup {b} \in SUBSET FIdx /\ B \subseteq C \cup {b}
  BY DEF Closed
<1> QED
  BY <1>1 DEF Reach

\* A new node y, with no subfolders, becomes a subfolder of x.
Added(d, e, F, x, y) ==
  /\ \A i \in F, j \in FIdx : Child(e, i, j) = (Child(d, i, j) \/ (i = x /\ j = y))
  /\ \A j \in FIdx : ~Child(e, y, j)

\* What is reached stays so when a folder is added.
LEMMA AddReach ==
  ASSUME NEW d, NEW e, NEW F, Branches(d, F), NEW x \in F, NEW y \in FIdx \ F,
         Added(d, e, F, x, y), NEW p, Reach(d, {}, p)
  PROVE  Reach(e, {}, p)
<1> SUFFICES ASSUME NEW C \in SUBSET FIdx, Closed(e, C) PROVE p \in C
  BY DEF Reach
<1>1. Closed(d, C \cap F) /\ C \cap F \in SUBSET FIdx
  BY DEF Closed, Branches, Added
<1> QED
  BY <1>1 DEF Reach

-----------------------------------------------------------------------------
(* The invariant, of a disk d, a super block's bitmaps and the rest.       *)

Used(terms, slots) == {s \in slots : terms[s].used}

\* A folder in use knows itself, counts its subfolders, holds none twice, and
\* is the ".." of each.
FolderTerms(terms, num, i) ==
  /\ terms[SELF_IDX] = gen_term(".", i)
  /\ num = Cardinality(Used(terms, FSlot))
  /\ \A s, t \in Used(terms, Sub) :
        terms[s].name = terms[t].name \/ terms[s].idx = terms[t].idx => s = t

IsParent(d, F, i) ==
  \A j \in FIdx : Child(d, i, j) => j \in F /\ d[j].fterms[PARENT_IDX] = gen_term("..", i)

FolderNode(d, F, i) ==
  FolderTerms(d[i].fterms, d[i].num_fterm, i) /\ IsParent(d, F, i)

FoldersGood(d, F) ==
  /\ F \in SUBSET FIdx /\ ROOT_FOLDER_IDX \in F
  /\ ~d[ROOT_FOLDER_IDX].fterms[PARENT_IDX].used
  /\ \A i \in F : FolderNode(d, F, i)

\* It counts its files and holds no name twice, and every file in use has an
\* inode in use of its own.
FileTerms(terms, num, I) ==
  /\ num = Cardinality(Used(terms, ISlot))
  /\ \A s, t \in Used(terms, ISlot) : terms[s].name = terms[t].name => s = t
  /\ \A s \in Used(terms, ISlot) : terms[s].idx \in I

FilesGood(d, F, I) ==
  /\ \A i \in F : FileTerms(d[i].iterms, d[i].num_iterm, I)
  /\ \A i, j \in F : \A s \in Used(d[i].iterms, ISlot), t \in Used(d[j].iterms, ISlot) :
        d[i].iterms[s].idx = d[j].iterms[t].idx => i = j /\ s = t

\* A disk in order is a tree.
LEMMA GoodBranches ==
  ASSUME NEW d \in Disks, NEW F, FoldersGood(d, F)
  PROVE  Branches(d, F)
<1>1. ASSUME NEW i \in F, NEW j \in FIdx, Child(d, i, j)
      PROVE  j \in F /\ d[j].fterms[PARENT_IDX] = gen_term("..", i)
  BY <1>1 DEF FoldersGood, FolderNode, IsParent
<1>2. \A i, k : gen_term("..", i).used /\ (gen_term("..", i) = gen_term("..", k) => i = k)
  BY DEF gen_term
<1>3. ASSUME NEW i \in F, NEW j \in FIdx, Child(d, i, j)
      PROVE  j # ROOT_FOLDER_IDX
  BY <1>1, <1>2, <1>3 DEF FoldersGood
<1>4. ASSUME NEW i \in F, NEW k \in F, NEW j \in FIdx, Child(d, i, j), Child(d, k, j)
      PROVE  i = k
  BY <1>1, <1>2, <1>4
<1> QED
  BY <1>1, <1>3, <1>4 DEF FoldersGood, Branches

-----------------------------------------------------------------------------
(* A term is taken away.                                                   *)

Terms(X) == [used : BOOLEAN, name : AnyName, idx : X]

\* DropTerms clears the one slot that has the name.
LEMMA DropFacts ==
  ASSUME NEW X, NEW D, NEW terms \in [D -> Terms(X)], NEW slots \in SUBSET D, NEW n,
         NEW s \in Matches(terms, slots, n),
         \A u, v \in Used(terms, slots) : terms[u].name = terms[v].name => u = v,
         NEW G, G = DropTerms(terms, slots, n)
  PROVE  /\ G \in [D -> Terms(X)]
         /\ \A u \in D : u # s => G[u] = terms[u]
         /\ s \in D /\ ~G[s].used
         /\ \A S \in SUBSET D : Used(G, S) = Used(terms, S) \ {s}
<1>1. Matches(terms, slots, n) = {s}
  BY DEF Matches, Used
<1>2. \A u \in D : G[u] = IF u = s THEN [terms[u] EXCEPT !.used = FALSE] ELSE terms[u]
  BY <1>1 DEF DropTerms
<1>3. DOMAIN G = D
  BY DEF DropTerms
<1>4. s \in D
  BY DEF Matches
<1>5. ASSUME NEW u \in D
      PROVE  /\ u # s => G[u] = terms[u]
             /\ u = s => ~G[u].used
             /\ G[u] \in Terms(X)
  <2>1. terms[u] \in Terms(X)
    OBVIOUS
  <2> DEFINE r == terms[u]
             q == [r EXCEPT !.used = FALSE]
  <2>2. q \in Terms(X) /\ q.name = r.name /\ q.idx = r.idx /\ q.used = FALSE /\ r.used \in BOOLEAN
    <3> HIDE DEF r
    <3>1. r \in Terms(X)
      BY <2>1 DEF r
    <3> QED
      BY <3>1 DEF Terms
  <2>3. G[u] = IF u = s THEN q ELSE r
    BY <1>2
  <2> HIDE DEF q, r
  <2>4. CASE u = s
    BY <2>2, <2>3, <2>4 DEF r
  <2>5. CASE u # s
    BY <2>1, <2>2, <2>3, <2>5 DEF r
  <2> QED
    BY <2>4, <2>5
<1>6. G \in [D -> Terms(X)]
  BY <1>5, Zenon DEF DropTerms
<1>7. \A S \in SUBSET D : Used(G, S) = Used(terms, S) \ {s}
  BY <1>5 DEF Used
<1> QED
  BY <1>4, <1>5, <1>6, <1>7

\* The used slots of a node can be counted.
LEMMA UsedFinite ==
  /\ \A terms : IsFiniteSet(Used(terms, FSlot)) /\ Cardinality(Used(terms, FSlot)) \in Nat
  /\ \A terms : IsFiniteSet(Used(terms, ISlot)) /\ Cardinality(Used(terms, ISlot)) \in Nat
<1>1. IsFiniteSet(FSlot) /\ IsFiniteSet(ISlot)
  <2>1. FTERM_NUM_LIM - 1 \in Int /\ ITERM_NUM_LIM - 1 \in Int /\ 0 \in Int
    BY Limits
  <2> QED
    BY <2>1, FS_Interval DEF FSlot, ISlot
<1>2. \A terms : Used(terms, FSlot) \subseteq FSlot /\ Used(terms, ISlot) \subseteq ISlot
  BY DEF Used
<1> QED
  BY <1>1, <1>2, FS_Subset, FS_CardinalityType

\* The terms of a node on the disk.
LEMMA NodeTerms ==
  ASSUME NEW d \in Disks, NEW i \in FIdx
  PROVE  /\ d[i] \in Node
         /\ d[i].fterms \in [FSlot -> Terms(FIdx)] /\ d[i].iterms \in [ISlot -> Terms(IIdx)]
         /\ DOMAIN d = FIdx \cup {SB}
BY PartsOfNode DEF Disks, Terms, FolderTerm, FileTerm

\* Folder terms after delete_fterm: the counter is right, one subfolder is gone.
LEMMA DropFolderTerms ==
  ASSUME NEW terms \in [FSlot -> Terms(FIdx)], NEW num \in Int, NEW i, FolderTerms(terms, num, i),
         NEW n, NEW s \in Matches(terms, Sub, n), NEW G, G = DropTerms(terms, Sub, n)
  PROVE  /\ FolderTerms(G, num - 1, i)
         /\ G[PARENT_IDX] = terms[PARENT_IDX]
         /\ Holds(terms, terms[s].idx)
         /\ \A j : Holds(G, j) = (Holds(terms, j) /\ j # terms[s].idx)
<1>1. s \in Sub /\ s \in FSlot /\ terms[s].used /\ s \in Used(terms, Sub) /\ s \in Used(terms, FSlot)
  BY Limits DEF Matches, Used
<1>2. \A u, v \in Used(terms, Sub) : terms[u].name = terms[v].name \/ terms[u].idx = terms[v].idx => u = v
  BY DEF FolderTerms
<1>3. /\ \A u \in FSlot : u # s => G[u] = terms[u]
      /\ ~G[s].used
      /\ \A S \in SUBSET FSlot : Used(G, S) = Used(terms, S) \ {s}
  BY <1>2, Limits, DropFacts
<1>4. s # PARENT_IDX /\ s # SELF_IDX /\ Sub \in SUBSET FSlot
  BY <1>1, Limits
<1>5. G[PARENT_IDX] = terms[PARENT_IDX] /\ G[SELF_IDX] = terms[SELF_IDX]
  BY <1>3, <1>4, Limits
<1>6. num - 1 = Cardinality(Used(G, FSlot))
  <2> DEFINE U == Used(terms, FSlot)
  <2>1. Used(G, FSlot) = U \ {s}
    BY <1>3
  <2>2. IsFiniteSet(U) /\ s \in U /\ Cardinality(U) = num
    BY <1>1, UsedFinite DEF FolderTerms
  <2> HIDE DEF U
  <2>3. Cardinality(U \ {s}) = Cardinality(U) - 1
    BY <2>2, FS_RemoveElement
  <2> QED
    BY <2>1, <2>2, <2>3
<1>7. ASSUME NEW u \in Used(G, Sub), NEW v \in Used(G, Sub),
             G[u].name = G[v].name \/ G[u].idx = G[v].idx
      PROVE  u = v
  <2>1. /\ u \in Used(terms, Sub) /\ v \in Used(terms, Sub) /\ u \in FSlot /\ v \in FSlot
        /\ u # s /\ v # s
    BY <1>3, <1>4 DEF Used
  <2> QED
    BY <1>2, <1>3, <1>7, <2>1
<1>8. FolderTerms(G, num - 1, i)
  BY <1>5, <1>6, <1>7 DEF FolderTerms
<1>9. ASSUME NEW j PROVE Holds(G, j) = (Holds(terms, j) /\ j # terms[s].idx)
  <2>1. ASSUME Holds(G, j) PROVE Holds(terms, j) /\ j # terms[s].idx
    <3>1. PICK u \in Sub : G[u].used /\ G[u].idx = j
      BY <2>1 DEF Holds
    <3>2. terms[u].used /\ u # s /\ terms[u].idx = j
      BY <1>3, <1>4, <3>1
    <3>3. terms[u].idx # terms[s].idx
      BY <1>1, <1>2, <3>2 DEF Used
    <3> QED
      BY <3>2, <3>3 DEF Holds
  <2>2. ASSUME Holds(terms, j), j # terms[s].idx PROVE Holds(G, j)
    <3>1. PICK u \in Sub : terms[u].used /\ terms[u].idx = j
      BY <2>2 DEF Holds
    <3> QED
      BY <1>3, <1>4, <2>2, <3>1 DEF Holds
  <2>3. Holds(G, j) \in BOOLEAN /\ Holds(terms, j) \in BOOLEAN
    BY DEF Holds
  <2> QED
    BY <2>1, <2>2, <2>3
<1> QED
  BY <1>1, <1>5, <1>8, <1>9 DEF Holds

\* The disk d with the node f in the block x.
Store(d, x, f) == [d EXCEPT ![x] = f]

\* A node written to its block.
LEMMA Stored ==
  ASSUME NEW d \in Disks, NEW x \in FIdx, NEW f \in Node
  PROVE  /\ Store(d, x, f) \in Disks /\ Store(d, x, f)[SB] = d[SB]
         /\ Store(d, x, f)[x] = f
         /\ \A i \in FIdx \cup {SB} : i # x => Store(d, x, f)[i] = d[i]
BY Limits DEF Store, Disks

\* Without the subfolder of the slot s.
LEMMA DropFolder ==
  ASSUME NEW d \in Disks, NEW F, FoldersGood(d, F), NEW x \in F, NEW n,
         NEW s \in Matches(d[x].fterms, Sub, n),
         NEW e, e = Store(d, x, delete_fterm(d[x], n))
  PROVE  /\ e \in Disks /\ e[SB] = d[SB]
         /\ FoldersGood(e, F)
         /\ d[x].fterms[s].idx \in F \ {ROOT_FOLDER_IDX}
         /\ Child(d, x, d[x].fterms[s].idx)
         /\ Dropped(d, e, x, d[x].fterms[s].idx)
<1> DEFINE terms == d[x].fterms
           G == DropTerms(terms, Sub, n)
           y == terms[s].idx
           f == delete_fterm(d[x], n)
<1>1. /\ x \in FIdx /\ FolderNode(d, F, x) /\ terms \in [FSlot -> Terms(FIdx)]
      /\ d[x] \in Node /\ DOMAIN d = FIdx \cup {SB} /\ d[x].num_fterm \in Int
  BY NodeTerms, PartsOfNode DEF FoldersGood
<1>2. f \in Node /\ f.fterms = G /\ f.num_fterm = d[x].num_fterm - 1
  BY <1>1, DropTyped
<1>3. /\ FolderTerms(G, d[x].num_fterm - 1, x) /\ G[PARENT_IDX] = terms[PARENT_IDX]
      /\ Holds(terms, y) /\ \A j : Holds(G, j) = (Holds(terms, j) /\ j # y)
  <2> HIDE DEF terms, G
  <2>1. s \in Matches(terms, Sub, n) /\ G = DropTerms(terms, Sub, n) /\ FolderTerms(terms, d[x].num_fterm, x)
    BY <1>1 DEF terms, G, FolderNode
  <2> QED
    BY <1>1, <2>1, DropFolderTerms
<1>4. e[x] = f /\ \A i \in FIdx \cup {SB} : i # x => e[i] = d[i]
  BY <1>1, <1>2, Stored
<1>5. e \in Disks /\ e[SB] = d[SB]
  BY <1>1, <1>2, Stored
<1> HIDE DEF f, G
<1>6. y \in F \ {ROOT_FOLDER_IDX} /\ Child(d, x, y) /\ y \in FIdx
  <2>1. s \in FSlot
    BY Limits DEF Matches
  <2>2. Child(d, x, y) /\ y \in FIdx
    BY <1>1, <1>3, <2>1 DEF Child, Terms
  <2> QED
    BY <2>2, GoodBranches DEF Branches
<1>7. ASSUME NEW i \in FIdx, NEW j \in FIdx
      PROVE  Child(e, i, j) = (Child(d, i, j) /\ ~(i = x /\ j = y))
  <2>1. CASE i # x
    BY <1>4, <2>1 DEF Child, Holds
  <2>2. CASE i = x
    BY <1>2, <1>3, <1>4, <2>2 DEF Child
  <2> QED
    BY <2>1, <2>2
<1>8. Dropped(d, e, x, y)
  <2> HIDE DEF y
  <2> QED
    BY <1>7 DEF Dropped
<1>9. \A i \in FIdx : e[i].fterms[PARENT_IDX] = d[i].fterms[PARENT_IDX]
  BY <1>2, <1>3, <1>4
<1>10. ASSUME NEW i \in F PROVE FolderNode(e, F, i)
  <2>1. FolderNode(d, F, i) /\ i \in FIdx
    BY DEF FoldersGood
  <2>2. FolderTerms(e[i].fterms, e[i].num_fterm, i)
    BY <1>2, <1>3, <1>4, <2>1 DEF FolderNode
  <2>3. IsParent(e, F, i)
    BY <1>7, <1>9, <2>1 DEF FolderNode, IsParent
  <2> QED
    BY <2>2, <2>3 DEF FolderNode
<1>11. FoldersGood(e, F)
  BY <1>9, <1>10, Limits DEF FoldersGood
<1> QED
  BY <1>5, <1>6, <1>8, <1>11

SameFolderTerms(d, e) ==
  \A i \in FIdx : e[i].fterms = d[i].fterms /\ e[i].num_fterm = d[i].num_fterm

\* Only the nodes in use matter.
LEMMA SameFolders ==
  ASSUME NEW d, NEW e, NEW F, FoldersGood(d, F),
         \A i \in F : e[i].fterms = d[i].fterms /\ e[i].num_fterm = d[i].num_fterm
  PROVE  FoldersGood(e, F)
<1>1. ASSUME NEW i \in F PROVE FolderNode(e, F, i)
  <2>1. FolderNode(d, F, i)
    BY DEF FoldersGood
  <2> QED
    BY <2>1 DEF FolderNode, IsParent, Child
<1> QED
  BY <1>1 DEF FoldersGood

\* Of the files too.
LEMMA SameFiles ==
  ASSUME NEW d, NEW e, NEW F, NEW I, FilesGood(d, F, I),
         \A i \in F : e[i].iterms = d[i].iterms /\ e[i].num_iterm = d[i].num_iterm
  PROVE  FilesGood(e, F, I)
BY DEF FilesGood

\* A folder that is cut off may be freed.
LEMMA FreeFolder ==
  ASSUME NEW d, NEW F, NEW I, FoldersGood(d, F), FilesGood(d, F, I), NEW b, Orphan(d, F, b)
  PROVE  FoldersGood(d, F \ {b}) /\ FilesGood(d, F \ {b}, I)
<1>1. ASSUME NEW i \in F \ {b} PROVE FolderNode(d, F \ {b}, i)
  <2>1. FolderNode(d, F, i)
    BY DEF FoldersGood
  <2> QED
    BY <2>1 DEF FolderNode, IsParent, Orphan
<1>2. FoldersGood(d, F \ {b})
  BY <1>1 DEF FoldersGood, Orphan
<1>3. FilesGood(d, F \ {b}, I)
  BY DEF FilesGood
<1> QED
  BY <1>2, <1>3

\* File terms after delete_iterm.
LEMMA DropFileTerms ==
  ASSUME NEW terms \in [ISlot -> Terms(IIdx)], NEW num \in Int, NEW I, FileTerms(terms, num, I),
         NEW n, NEW s \in Matches(terms, ISlot, n), NEW G, G = DropTerms(terms, ISlot, n)
  PROVE  /\ num - 1 = Cardinality(Used(G, ISlot))
         /\ \A u \in Used(G, ISlot) : u \in Used(terms, ISlot) /\ u # s /\ G[u] = terms[u]
         /\ s \in Used(terms, ISlot)
<1>1. s \in ISlot /\ s \in Used(terms, ISlot)
  BY DEF Matches, Used
<1>2. /\ \A u \in ISlot : u # s => G[u] = terms[u]
      /\ ~G[s].used
      /\ \A S \in SUBSET ISlot : Used(G, S) = Used(terms, S) \ {s}
  BY DropFacts DEF FileTerms
<1>3. num - 1 = Cardinality(Used(G, ISlot))
  <2> DEFINE U == Used(terms, ISlot)
  <2>1. Used(G, ISlot) = U \ {s}
    BY <1>2
  <2>2. IsFiniteSet(U) /\ s \in U /\ Cardinality(U) = num
    BY <1>1, UsedFinite DEF FileTerms
  <2> HIDE DEF U
  <2>3. Cardinality(U \ {s}) = Cardinality(U) - 1
    BY <2>2, FS_RemoveElement
  <2> QED
    BY <2>1, <2>2, <2>3
<1>4. \A u \in Used(G, ISlot) : u \in ISlot /\ u \in Used(terms, ISlot) /\ u # s
  BY <1>2 DEF Used
<1> QED
  BY <1>1, <1>2, <1>3, <1>4

\* Without the file of the slot s.
LEMMA DropFile ==
  ASSUME NEW d \in Disks, NEW F \in SUBSET FIdx, NEW I, FilesGood(d, F, I), NEW x \in F, NEW n,
         NEW s \in Matches(d[x].iterms, ISlot, n),
         NEW e, e = Store(d, x, delete_iterm(d[x], n))
  PROVE  /\ e \in Disks /\ e[SB] = d[SB]
         /\ FilesGood(e, F, I \ {d[x].iterms[s].idx})
         /\ SameFolderTerms(d, e)
<1> DEFINE terms == d[x].iterms
           G == DropTerms(terms, ISlot, n)
           y == terms[s].idx
           f == delete_iterm(d[x], n)
           J == I \ {y}
<1>1. /\ x \in FIdx /\ FileTerms(terms, d[x].num_iterm, I) /\ terms \in [ISlot -> Terms(IIdx)]
      /\ d[x] \in Node /\ DOMAIN d = FIdx \cup {SB} /\ d[x].num_iterm \in Int
  BY NodeTerms, PartsOfNode DEF FilesGood
<1>2. /\ f \in Node /\ f.iterms = G /\ f.num_iterm = d[x].num_iterm - 1
      /\ f.fterms = d[x].fterms /\ f.num_fterm = d[x].num_fterm
  BY <1>1, DropTyped
<1>3. /\ d[x].num_iterm - 1 = Cardinality(Used(G, ISlot))
      /\ \A u \in Used(G, ISlot) : u \in Used(terms, ISlot) /\ u # s /\ G[u] = terms[u]
      /\ s \in Used(terms, ISlot)
  <2> HIDE DEF terms, G
  <2>1. s \in Matches(terms, ISlot, n) /\ G = DropTerms(terms, ISlot, n)
    BY DEF terms, G
  <2> QED
    BY <1>1, <2>1, DropFileTerms
<1>4. e[x] = f /\ \A i \in FIdx \cup {SB} : i # x => e[i] = d[i]
  BY <1>1, <1>2, Stored
<1>5. e \in Disks /\ e[SB] = d[SB]
  BY <1>1, <1>2, Stored
<1> HIDE DEF f, G
<1>6. ASSUME NEW i \in F, NEW u \in Used(e[i].iterms, ISlot)
      PROVE  u \in Used(d[i].iterms, ISlot) /\ ~(i = x /\ u = s) /\ e[i].iterms[u] = d[i].iterms[u]
  <2>1. CASE i = x
    BY <1>2, <1>3, <1>4, <1>6, <2>1
  <2>2. CASE i # x
    BY <1>4, <1>6, <2>2
  <2> QED
    BY <2>1, <2>2
<1>7. \A i, j \in F : \A u \in Used(d[i].iterms, ISlot), v \in Used(d[j].iterms, ISlot) :
         d[i].iterms[u].idx = d[j].iterms[v].idx => i = j /\ u = v
  BY DEF FilesGood
<1>8. ASSUME NEW i \in F PROVE FileTerms(e[i].iterms, e[i].num_iterm, J)
  <2>1. FileTerms(d[i].iterms, d[i].num_iterm, I)
    BY DEF FilesGood
  <2>2. e[i].num_iterm = Cardinality(Used(e[i].iterms, ISlot))
    <3>1. CASE i = x
      BY <1>2, <1>3, <1>4, <3>1
    <3>2. CASE i # x
      BY <1>4, <2>1, <3>2 DEF FileTerms
    <3> QED
      BY <3>1, <3>2
  <2>3. \A u, v \in Used(e[i].iterms, ISlot) : e[i].iterms[u].name = e[i].iterms[v].name => u = v
    BY <1>6, <2>1 DEF FileTerms
  <2>4. ASSUME NEW u \in Used(e[i].iterms, ISlot) PROVE e[i].iterms[u].idx \in J
    <3>1. /\ u \in Used(d[i].iterms, ISlot) /\ ~(i = x /\ u = s)
          /\ e[i].iterms[u].idx = d[i].iterms[u].idx
      BY <1>6
    <3>2. d[i].iterms[u].idx \in I
      BY <2>1, <3>1 DEF FileTerms
    <3>3. d[i].iterms[u].idx # d[x].iterms[s].idx
      BY <1>3, <1>7, <3>1
    <3> QED
      BY <3>1, <3>2, <3>3
  <2> QED
    BY <2>2, <2>3, <2>4 DEF FileTerms
<1>9. ASSUME NEW i \in F, NEW j \in F,
             NEW u \in Used(e[i].iterms, ISlot), NEW v \in Used(e[j].iterms, ISlot),
             e[i].iterms[u].idx = e[j].iterms[v].idx
      PROVE  i = j /\ u = v
  BY <1>6, <1>7, <1>9
<1>10. FilesGood(e, F, J)
  BY <1>8, <1>9 DEF FilesGood
<1>11. SameFolderTerms(d, e)
  BY <1>2, <1>4 DEF SameFolderTerms
<1> QED
  BY <1>5, <1>10, <1>11

-----------------------------------------------------------------------------
(* A term is added.                                                        *)

\* The node fn with a new term in its slot s, for a folder and for a file.
WithFolder(fn, s, n, i) == [fn EXCEPT !.fterms[s] = gen_term(n, i), !.num_fterm = @ + 1]
WithFile(fn, s, n, i) == [fn EXCEPT !.iterms[s] = gen_term(n, i), !.num_iterm = @ + 1]

\* The node with its new folder term.
LEMMA WithFolderTyped ==
  ASSUME NEW fn \in Node, NEW n \in AnyName, NEW s \in FSlot, NEW i \in FIdx
  PROVE  /\ WithFolder(fn, s, n, i) \in Node
         /\ WithFolder(fn, s, n, i).fterms = [fn.fterms EXCEPT ![s] = gen_term(n, i)]
         /\ WithFolder(fn, s, n, i).num_fterm = fn.num_fterm + 1
<1>1. WithFolder(fn, s, n, i) \in Node
  BY InsertTyped DEF WithFolder
<1>2. WithFolder(fn, s, n, i).fterms = [fn.fterms EXCEPT ![s] = gen_term(n, i)]
  BY DEF WithFolder, Node
<1>3. WithFolder(fn, s, n, i).num_fterm = fn.num_fterm + 1
  BY DEF WithFolder, Node
<1> QED
  BY <1>1, <1>2, <1>3

\* A new folder term leaves the files.
LEMMA WithFolderSame ==
  ASSUME NEW fn \in Node, NEW s, NEW n, NEW i
  PROVE  /\ WithFolder(fn, s, n, i).iterms = fn.iterms
         /\ WithFolder(fn, s, n, i).num_iterm = fn.num_iterm
BY DEF WithFolder, Node

\* The node with its new file term.
LEMMA WithFileTyped ==
  ASSUME NEW fn \in Node, NEW n \in AnyName, NEW s \in ISlot, NEW i \in IIdx
  PROVE  /\ WithFile(fn, s, n, i) \in Node
         /\ WithFile(fn, s, n, i).iterms = [fn.iterms EXCEPT ![s] = gen_term(n, i)]
         /\ WithFile(fn, s, n, i).num_iterm = fn.num_iterm + 1
<1>1. WithFile(fn, s, n, i) \in Node
  BY InsertTyped DEF WithFile
<1>2. WithFile(fn, s, n, i).iterms = [fn.iterms EXCEPT ![s] = gen_term(n, i)]
  BY DEF WithFile, Node
<1>3. WithFile(fn, s, n, i).num_iterm = fn.num_iterm + 1
  BY DEF WithFile, Node
<1> QED
  BY <1>1, <1>2, <1>3

\* A new file term leaves the subfolders.
LEMMA WithFileSame ==
  ASSUME NEW fn \in Node, NEW s, NEW n, NEW i
  PROVE  /\ WithFile(fn, s, n, i).fterms = fn.fterms
         /\ WithFile(fn, s, n, i).num_fterm = fn.num_fterm
BY DEF WithFile, Node

\* A new file y in the slot s of x.
LEMMA AddFile ==
  ASSUME NEW d \in Disks, NEW F \in SUBSET FIdx, NEW I, FilesGood(d, F, I), NEW x \in F,
         NEW n \in AnyName, ~FileTaken(d[x], n), NEW s, FirstUnused(d[x].iterms, ISlot, s),
         NEW y \in IIdx \ I,
         NEW e, e = Store(d, x, WithFile(d[x], s, n, y))
  PROVE  /\ e \in Disks /\ e[SB] = d[SB]
         /\ FilesGood(e, F, I \cup {y})
         /\ SameFolderTerms(d, e)
<1> DEFINE terms == d[x].iterms
           G == [terms EXCEPT ![s] = gen_term(n, y)]
           f == WithFile(d[x], s, n, y)
           J == I \cup {y}
<1>0. s \in ISlot /\ ~terms[s].used
  BY DEF FirstUnused
<1>1. /\ x \in FIdx /\ FileTerms(terms, d[x].num_iterm, I) /\ terms \in [ISlot -> Terms(IIdx)]
      /\ d[x] \in Node /\ DOMAIN d = FIdx \cup {SB} /\ d[x].num_iterm \in Int
  BY NodeTerms, PartsOfNode DEF FilesGood
<1>2. /\ f \in Node /\ f.iterms = G /\ f.num_iterm = d[x].num_iterm + 1
      /\ f.fterms = d[x].fterms /\ f.num_fterm = d[x].num_fterm
  BY <1>0, <1>1, WithFileTyped, WithFileSame
<1>3. /\ \A u \in ISlot : u # s => G[u] = terms[u]
      /\ G[s].used /\ G[s].name = n /\ G[s].idx = y
      /\ Used(G, ISlot) = Used(terms, ISlot) \cup {s} /\ s \notin Used(terms, ISlot)
  <2> HIDE DEF terms, G
  <2>1. ~terms[s].used /\ G[s] = gen_term(n, y) /\ \A u \in ISlot : u # s => G[u] = terms[u]
    BY <1>0, <1>1 DEF terms, G
  <2> QED
    <3>1. Used(G, ISlot) = Used(terms, ISlot) \cup {s} /\ s \notin Used(terms, ISlot)
      <4>1. \A u \in ISlot : G[u].used <=> terms[u].used \/ u = s
        BY <2>1 DEF gen_term
      <4> QED
        BY <1>0, <2>1, <4>1 DEF Used
    <3>2. G[s].used /\ G[s].name = n /\ G[s].idx = y
      BY <2>1 DEF gen_term
    <3> QED
      BY <2>1, <3>1, <3>2
<1>4. e[x] = f /\ \A i \in FIdx \cup {SB} : i # x => e[i] = d[i]
  BY <1>1, <1>2, Stored
<1>5. e \in Disks /\ e[SB] = d[SB]
  BY <1>1, <1>2, Stored
<1> HIDE DEF f, G
<1>6. ASSUME NEW i \in F, NEW u \in Used(e[i].iterms, ISlot)
      PROVE  \/ u \in Used(d[i].iterms, ISlot) /\ e[i].iterms[u] = d[i].iterms[u] /\ ~(i = x /\ u = s)
             \/ i = x /\ u = s /\ e[i].iterms[u].name = n /\ e[i].iterms[u].idx = y
  <2>1. CASE i = x
    <3>1. u \in ISlot /\ (u \in Used(terms, ISlot) \/ u = s)
      BY <1>2, <1>3, <1>4, <1>6, <2>1 DEF Used
    <3> QED
      BY <1>2, <1>3, <1>4, <2>1, <3>1
  <2>2. CASE i # x
    BY <1>4, <1>6, <2>2
  <2> QED
    BY <2>1, <2>2
<1>7. \A i, j \in F : \A u \in Used(d[i].iterms, ISlot), v \in Used(d[j].iterms, ISlot) :
         d[i].iterms[u].idx = d[j].iterms[v].idx => i = j /\ u = v
  BY DEF FilesGood
<1>8. \A i \in F : \A u \in Used(d[i].iterms, ISlot) : d[i].iterms[u].idx \in I
  BY DEF FilesGood, FileTerms
<1>9. \A u \in Used(terms, ISlot) : terms[u].name # n
  BY DEF FileTaken, Used
<1>10. ASSUME NEW i \in F PROVE FileTerms(e[i].iterms, e[i].num_iterm, J)
  <2>1. FileTerms(d[i].iterms, d[i].num_iterm, I)
    BY DEF FilesGood
  <2>2. e[i].num_iterm = Cardinality(Used(e[i].iterms, ISlot))
    <3>1. CASE i = x
      <4> DEFINE U == Used(terms, ISlot)
      <4>1. IsFiniteSet(U) /\ s \notin U /\ Cardinality(U) = d[x].num_iterm /\ Used(G, ISlot) = U \cup {s}
        BY <1>1, <1>3, UsedFinite DEF FileTerms
      <4> HIDE DEF U
      <4>2. Cardinality(U \cup {s}) = Cardinality(U) + 1
        BY <4>1, FS_AddElement
      <4> QED
        BY <1>2, <1>4, <3>1, <4>1, <4>2
    <3>2. CASE i # x
      BY <1>4, <2>1, <3>2 DEF FileTerms
    <3> QED
      BY <3>1, <3>2
  <2>3. ASSUME NEW u \in Used(e[i].iterms, ISlot), NEW v \in Used(e[i].iterms, ISlot),
               e[i].iterms[u].name = e[i].iterms[v].name
        PROVE  u = v
    BY <1>6, <1>9, <2>1, <2>3 DEF FileTerms
  <2>4. \A u \in Used(e[i].iterms, ISlot) : e[i].iterms[u].idx \in J
    BY <1>6, <1>8
  <2> QED
    BY <2>2, <2>3, <2>4 DEF FileTerms
<1>11. ASSUME NEW i \in F, NEW j \in F,
             NEW u \in Used(e[i].iterms, ISlot), NEW v \in Used(e[j].iterms, ISlot),
             e[i].iterms[u].idx = e[j].iterms[v].idx
      PROVE  i = j /\ u = v
  <2> DEFINE old(k, w) == w \in Used(d[k].iterms, ISlot) /\ e[k].iterms[w] = d[k].iterms[w]
             new(k, w) == k = x /\ w = s /\ e[k].iterms[w].idx = y
  <2>1. (old(i, u) \/ new(i, u)) /\ (old(j, v) \/ new(j, v))
    BY <1>6
  <2>2. CASE old(i, u) /\ old(j, v)
    BY <1>7, <1>11, <2>2
  <2>3. CASE old(i, u) /\ new(j, v)
    BY <1>8, <1>11, <2>3
  <2>4. CASE new(i, u) /\ old(j, v)
    BY <1>8, <1>11, <2>4
  <2>5. CASE new(i, u) /\ new(j, v)
    BY <2>5
  <2> QED
    BY <2>1, <2>2, <2>3, <2>4, <2>5
<1>12. FilesGood(e, F, J)
  BY <1>10, <1>11 DEF FilesGood
<1>13. SameFolderTerms(d, e)
  BY <1>2, <1>4 DEF SameFolderTerms
<1> QED
  BY <1>5, <1>12, <1>13

\* The fields of a term that gen_term has made.
LEMMA TermIs == \A n, i : gen_term(n, i).used /\ gen_term(n, i).name = n /\ gen_term(n, i).idx = i
BY DEF gen_term

\* The parent term that gen_fnode copies.
LEMMA Renamed == \A n, m, i : [gen_term(n, i) EXCEPT !.name = m] = gen_term(m, i)
<1> SUFFICES ASSUME NEW n, NEW m, NEW i
             PROVE  [gen_term(n, i) EXCEPT !.name = m] = gen_term(m, i)
  OBVIOUS
<1> DEFINE R == [used : BOOLEAN, name : {n, m}, idx : {i}]
           r == gen_term(n, i)  q == [r EXCEPT !.name = m]  p == gen_term(m, i)
<1>1. r \in R /\ p \in R /\ r.used = TRUE /\ p.used = TRUE /\ r.idx = i /\ p.idx = i /\ p.name = m
  BY DEF gen_term
<1> HIDE DEF r, p
<1>2. q \in R /\ q.used = r.used /\ q.idx = r.idx /\ q.name = m
  BY <1>1
<1> HIDE DEF q
<1>3. q = p
  BY <1>1, <1>2
<1> QED
  BY <1>3 DEF p, q, r

\* A node that gen_fnode has made: no subfolders and no files.
LEMMA GenTerms ==
  ASSUME NEW y \in FIdx, NEW x \in FIdx, NEW g, g = gen_fnode(y, gen_term(".", x))
  PROVE  /\ g \in Node
         /\ FolderTerms(g.fterms, g.num_fterm, y) /\ g.fterms[PARENT_IDX] = gen_term("..", x)
         /\ \A j : ~Holds(g.fterms, j)
         /\ Used(g.iterms, ISlot) = {} /\ g.num_iterm = 0
<1>1. /\ gen_term(".", x) \in FolderTerm
      /\ [gen_term(".", x) EXCEPT !.name = ".."] = gen_term("..", x)
  <2>1. gen_term(".", x) \in FolderTerm
    BY NamesAre DEF gen_term, FolderTerm
  <2> QED
    BY <2>1, Renamed
<1>2. /\ g \in Node
      /\ g.fterms = [[[s \in FSlot |-> NoTerm] EXCEPT ![SELF_IDX] = gen_term(".", y)]
                        EXCEPT ![PARENT_IDX] = gen_term("..", x)]
      /\ g.iterms = [s \in ISlot |-> NoTerm]
      /\ g.num_fterm = 2 /\ g.num_iterm = 0
  BY <1>1, GenTyped
<1>3. /\ \A s \in Sub : g.fterms[s] = NoTerm
      /\ g.fterms[SELF_IDX] = gen_term(".", y) /\ g.fterms[PARENT_IDX] = gen_term("..", x)
  BY <1>2, Limits
<1>4. ~NoTerm.used
  BY DEF NoTerm
<1>5. Used(g.iterms, ISlot) = {} /\ Used(g.fterms, Sub) = {} /\ \A j : ~Holds(g.fterms, j)
  BY <1>2, <1>3, <1>4 DEF Used, Holds
<1>6. Used(g.fterms, FSlot) = {SELF_IDX, PARENT_IDX}
  <2>1. g.fterms[SELF_IDX].used /\ g.fterms[PARENT_IDX].used /\ \A s \in Sub : ~g.fterms[s].used
    <3>1. gen_term(".", y).used /\ gen_term("..", x).used
      BY TermIs
    <3> QED
      BY <1>3, <1>4, <3>1
  <2> QED
    BY <2>1, Limits DEF Used
<1>7. Cardinality({SELF_IDX, PARENT_IDX}) = 2
  <2>1. IsFiniteSet({SELF_IDX}) /\ Cardinality({SELF_IDX}) = 1
    BY FS_Singleton
  <2>2. PARENT_IDX \notin {SELF_IDX} /\ {SELF_IDX} \cup {PARENT_IDX} = {SELF_IDX, PARENT_IDX}
    BY Limits
  <2> DEFINE A == {SELF_IDX}
  <2> HIDE DEF A
  <2>3. IsFiniteSet(A) /\ Cardinality(A) = 1 /\ PARENT_IDX \notin A
    BY <2>1, <2>2 DEF A
  <2>4. Cardinality(A \cup {PARENT_IDX}) = Cardinality(A) + 1
    BY <2>3, FS_AddElement
  <2> QED
    BY <2>2, <2>3, <2>4 DEF A
<1>8. FolderTerms(g.fterms, g.num_fterm, y)
  BY <1>2, <1>3, <1>5, <1>6, <1>7 DEF FolderTerms
<1> QED
  BY <1>2, <1>3, <1>5, <1>8

\* The terms G are `terms' with a subfolder y of a new name n in the slot s.
Inserted(terms, G, s, n, y) ==
  /\ s \in Sub /\ s \notin Used(terms, Sub) /\ \A t \in Sub : terms[t].name # n
  /\ ~Holds(terms, y)
  /\ G[s] = gen_term(n, y) /\ \A u \in FSlot : u # s => G[u] = terms[u]

\* Folder terms after insert_fterm: the counter is right, one subfolder is new.
LEMMA AddFolderTerms ==
  ASSUME NEW terms, NEW num \in Int, NEW x, FolderTerms(terms, num, x),
         NEW n, NEW s, NEW y, NEW G, Inserted(terms, G, s, n, y),
         NEW sum, sum = num + 1
  PROVE  /\ FolderTerms(G, sum, x)
         /\ G[SELF_IDX] = gen_term(".", x) /\ G[PARENT_IDX] = terms[PARENT_IDX]
         /\ \A j : Holds(G, j) = (Holds(terms, j) \/ j = y)
<1>1. s \in FSlot /\ s # SELF_IDX /\ s # PARENT_IDX /\ Sub \subseteq FSlot
  BY Limits DEF Inserted
<1>2. /\ s \in Sub /\ s \notin Used(terms, Sub) /\ \A t \in Sub : terms[t].name # n
      /\ ~Holds(terms, y)
      /\ G[s] = gen_term(n, y) /\ \A u \in FSlot : u # s => G[u] = terms[u]
  BY DEF Inserted
<1>3. G[s].used /\ G[s].name = n /\ G[s].idx = y /\ ~terms[s].used
  BY <1>2 DEF gen_term, Used
<1>4. \A u \in FSlot : G[u].used <=> terms[u].used \/ u = s
  BY <1>2, <1>3
<1>5. /\ Used(G, FSlot) = Used(terms, FSlot) \cup {s} /\ s \notin Used(terms, FSlot)
      /\ Used(G, Sub) = Used(terms, Sub) \cup {s} /\ s \notin Used(terms, Sub)
  BY <1>1, <1>2, <1>4 DEF Used
<1>6. sum = Cardinality(Used(G, FSlot))
  <2> DEFINE U == Used(terms, FSlot)
  <2>1. IsFiniteSet(U) /\ s \notin U /\ Cardinality(U) = num /\ Used(G, FSlot) = U \cup {s}
    BY <1>5, UsedFinite DEF FolderTerms
  <2> HIDE DEF U
  <2>2. Cardinality(U \cup {s}) = Cardinality(U) + 1
    BY <2>1, FS_AddElement
  <2> QED
    BY <2>1, <2>2
<1>7. \A u \in Used(terms, Sub) : u \in Sub /\ u \in FSlot /\ u # s /\ G[u] = terms[u] /\ terms[u].name # n /\ terms[u].idx # y
  BY <1>1, <1>2, <1>5 DEF Used, Holds
<1>8. ASSUME NEW u \in Used(G, Sub), NEW v \in Used(G, Sub),
             G[u].name = G[v].name \/ G[u].idx = G[v].idx
      PROVE  u = v
  <2>1. \A p, q \in Used(terms, Sub) : terms[p].name = terms[q].name \/ terms[p].idx = terms[q].idx => p = q
    BY DEF FolderTerms
  <2> QED
    BY <1>3, <1>5, <1>7, <1>8, <2>1
<1>9. G[SELF_IDX] = gen_term(".", x) /\ G[PARENT_IDX] = terms[PARENT_IDX]
  BY <1>1, <1>2, Limits DEF FolderTerms
<1>10. FolderTerms(G, sum, x)
  BY <1>6, <1>8, <1>9 DEF FolderTerms
<1>11. ASSUME NEW j PROVE Holds(G, j) = (Holds(terms, j) \/ j = y)
  <2>1. Holds(G, j) <=> \E u \in Used(G, Sub) : G[u].idx = j
    BY DEF Holds, Used
  <2>2. Holds(terms, j) <=> \E u \in Used(terms, Sub) : terms[u].idx = j
    BY DEF Holds, Used
  <2>3. (\E u \in Used(G, Sub) : G[u].idx = j) <=> (\E u \in Used(terms, Sub) : terms[u].idx = j) \/ j = y
    BY <1>3, <1>5, <1>7
  <2>4. Holds(G, j) \in BOOLEAN /\ Holds(terms, j) \in BOOLEAN
    BY DEF Holds
  <2> QED
    BY <2>1, <2>2, <2>3, <2>4
<1> QED
  BY <1>9, <1>10, <1>11

\* A new folder y in the slot s of x.
LEMMA AddFolder ==
  ASSUME NEW d \in Disks, NEW F, FoldersGood(d, F), NEW I, FilesGood(d, F, I), NEW x \in F,
         NEW n \in AnyName, ~FolderTaken(d[x], n), NEW s, FirstUnused(d[x].fterms, Sub, s),
         NEW y \in FIdx \ F,
         NEW f, f = WithFolder(d[x], s, n, y),
         NEW e, e = Store(Store(d, x, f), y, gen_fnode(y, f.fterms[SELF_IDX]))
  PROVE  /\ e \in Disks /\ e[SB] = d[SB]
         /\ FoldersGood(e, F \cup {y}) /\ FilesGood(e, F \cup {y}, I)
         /\ Added(d, e, F, x, y)
         /\ f.fterms[SELF_IDX] = gen_term(".", x)
<1> DEFINE terms == d[x].fterms
           g == gen_fnode(y, gen_term(".", x))
<1>0. s \in Sub /\ ~terms[s].used
  BY DEF FirstUnused
<1>1. /\ x \in FIdx /\ y \in FIdx /\ y # x /\ s \in FSlot
      /\ FolderTerms(terms, d[x].num_fterm, x) /\ terms \in [FSlot -> Terms(FIdx)]
      /\ d[x] \in Node /\ DOMAIN d = FIdx \cup {SB} /\ d[x].num_fterm \in Int
  BY <1>0, NodeTerms, PartsOfNode, Limits DEF FoldersGood, FolderNode
<1>2. /\ f \in Node /\ f.fterms = [terms EXCEPT ![s] = gen_term(n, y)] /\ f.num_fterm = d[x].num_fterm + 1
      /\ f.iterms = d[x].iterms /\ f.num_iterm = d[x].num_iterm
  BY <1>1, WithFolderTyped, WithFolderSame
<1>3. ~Holds(terms, y)
  BY <1>1 DEF FoldersGood, FolderNode, IsParent, Child
<1>4. /\ FolderTerms(f.fterms, f.num_fterm, x)
      /\ f.fterms[SELF_IDX] = gen_term(".", x) /\ f.fterms[PARENT_IDX] = terms[PARENT_IDX]
      /\ \A j : Holds(f.fterms, j) = (Holds(terms, j) \/ j = y)
  <2>1. /\ s \notin Used(terms, Sub) /\ \A t \in Sub : terms[t].name # n
        /\ f.fterms[s] = gen_term(n, y) /\ \A u \in FSlot : u # s => f.fterms[u] = terms[u]
    BY <1>0, <1>1, <1>2 DEF FolderTaken, Used
  <2> DEFINE G == f.fterms
  <2>2. G[s] = gen_term(n, y) /\ \A u \in FSlot : u # s => G[u] = terms[u]
    BY <2>1
  <2> HIDE DEF terms, G
  <2>3. /\ FolderTerms(G, f.num_fterm, x)
        /\ G[SELF_IDX] = gen_term(".", x) /\ G[PARENT_IDX] = terms[PARENT_IDX]
        /\ \A j : Holds(G, j) = (Holds(terms, j) \/ j = y)
    <3>1. Inserted(terms, G, s, n, y)
      BY <1>0, <1>3, <2>1, <2>2 DEF Inserted
    <3> QED
      BY <1>1, <1>2, <3>1, AddFolderTerms
  <2> QED
    BY <2>3 DEF G
<1>5. /\ g \in Node
      /\ FolderTerms(g.fterms, g.num_fterm, y) /\ g.fterms[PARENT_IDX] = gen_term("..", x)
      /\ \A j : ~Holds(g.fterms, j)
      /\ Used(g.iterms, ISlot) = {} /\ g.num_iterm = 0
  BY <1>1, GenTerms
<1> HIDE DEF g
<1>6. e \in Disks /\ e[SB] = d[SB] /\ e[x] = f /\ e[y] = g
      /\ \A i \in FIdx \cup {SB} : i # x /\ i # y => e[i] = d[i]
  <2> DEFINE m == Store(d, x, f)
  <2>1. m \in Disks /\ m[SB] = d[SB] /\ m[x] = f /\ \A i \in FIdx \cup {SB} : i # x => m[i] = d[i]
    BY <1>1, <1>2, Stored
  <2>2. e = Store(m, y, g)
    BY <1>4 DEF g
  <2> HIDE DEF m
  <2> QED
    BY <1>1, <1>5, <2>1, <2>2, Stored
<1>8. ASSUME NEW i \in F, NEW j \in FIdx
      PROVE  Child(e, i, j) = (Child(d, i, j) \/ (i = x /\ j = y))
  <2>1. CASE i # x
    <3>1. e[i] = d[i]
      BY <1>6, <2>1 DEF FoldersGood
    <3> QED
      BY <2>1, <3>1 DEF Child, Holds
  <2>2. CASE i = x
    BY <1>4, <1>6, <2>2 DEF Child
  <2> QED
    BY <2>1, <2>2
<1>9. \A j \in FIdx : ~Child(e, y, j)
  BY <1>5, <1>6 DEF Child
<1>10. Added(d, e, F, x, y)
  BY <1>8, <1>9 DEF Added
<1>11. \A i \in F : e[i].fterms[PARENT_IDX] = d[i].fterms[PARENT_IDX]
  BY <1>4, <1>6 DEF FoldersGood
<1>12. ASSUME NEW i \in F PROVE FolderNode(e, F \cup {y}, i)
  <2>1. FolderNode(d, F, i) /\ i \in FIdx
    BY DEF FoldersGood
  <2>2. FolderTerms(e[i].fterms, e[i].num_fterm, i)
    <3>1. CASE i = x
      BY <1>4, <1>6, <3>1
    <3>2. CASE i # x
      BY <1>6, <2>1, <3>2 DEF FolderNode
    <3> QED
      BY <3>1, <3>2
  <2>3. ASSUME NEW j \in FIdx, Child(e, i, j)
        PROVE  j \in F \cup {y} /\ e[j].fterms[PARENT_IDX] = gen_term("..", i)
    <3>1. CASE Child(d, i, j)
      <4>1. j \in F /\ d[j].fterms[PARENT_IDX] = gen_term("..", i)
        BY <2>1, <3>1 DEF FolderNode, IsParent
      <4> QED
        BY <1>11, <4>1
    <3>2. CASE i = x /\ j = y
      BY <1>5, <1>6, <3>2
    <3> QED
      BY <1>8, <2>3, <3>1, <3>2
  <2> QED
    BY <2>2, <2>3 DEF FolderNode, IsParent
<1>13. FolderNode(e, F \cup {y}, y)
  BY <1>5, <1>6, <1>9 DEF FolderNode, IsParent
<1>14. FoldersGood(e, F \cup {y})
  BY <1>1, <1>11, <1>12, <1>13 DEF FoldersGood
<1>15. /\ \A i \in F : e[i].iterms = d[i].iterms /\ e[i].num_iterm = d[i].num_iterm
       /\ Used(e[y].iterms, ISlot) = {} /\ e[y].num_iterm = 0
  BY <1>2, <1>5, <1>6 DEF FoldersGood
<1>16. FileTerms(e[y].iterms, e[y].num_iterm, I)
  BY <1>15, FS_EmptySet DEF FileTerms
<1>17. FilesGood(e, F \cup {y}, I)
  <2>1. FilesGood(e, F, I)
    BY <1>15, SameFiles
  <2> DEFINE U(k) == Used(e[k].iterms, ISlot)
             File(k, p) == e[k].iterms[p].idx
  <2>2. \A k, l \in F : \A p \in U(k), q \in U(l) : File(k, p) = File(l, q) => k = l /\ p = q
    BY <2>1 DEF FilesGood
  <2>3. U(y) = {}
    BY <1>15
  <2>4. \A k, l \in F \cup {y} : \A p \in U(k), q \in U(l) : File(k, p) = File(l, q) => k = l /\ p = q
    <3> HIDE DEF U, File
    <3> QED
      BY <2>2, <2>3
  <2>5. \A i \in F \cup {y} : FileTerms(e[i].iterms, e[i].num_iterm, I)
    BY <1>16, <2>1 DEF FilesGood
  <2> QED
    BY <2>4, <2>5 DEF FilesGood
<1> QED
  BY <1>4, <1>6, <1>10, <1>14, <1>17

-----------------------------------------------------------------------------
(* One to three writes.                                                    *)

Put(d, w) == [d EXCEPT ![w.blk] = w.data]

\* No write.
LEMMA AfterNone ==
  ASSUME NEW d, d = [b \in DOMAIN d |-> d[b]]
  PROVE  After(d, <<>>) = d
<1>1. DOMAIN <<>> = {}
  OBVIOUS
<1>2. After(d, <<>>) = [b \in DOMAIN d |-> d[b]]
  BY <1>1 DEF After
<1> QED
  BY <1>2

\* A disk with a block written is a function.
LEMMA PutIs ==
  ASSUME NEW d, NEW w
  PROVE  Put(d, w) = [b \in DOMAIN Put(d, w) |-> Put(d, w)[b]]
BY DEF Put

\* Heads and tails of one to three writes.
LEMMA Tuples ==
  ASSUME NEW S, NEW u \in S, NEW v \in S, NEW w \in S
  PROVE  /\ <<u>> \in Seq(S) /\ <<u>> # <<>> /\ Head(<<u>>) = u /\ Tail(<<u>>) = <<>>
         /\ <<u, v>> \in Seq(S) /\ <<u, v>> # <<>> /\ Head(<<u, v>>) = u /\ Tail(<<u, v>>) = <<v>>
         /\ <<u, v, w>> \in Seq(S) /\ <<u, v, w>> # <<>>
         /\ Head(<<u, v, w>>) = u /\ Tail(<<u, v, w>>) = <<v, w>>
OBVIOUS

\* HeadWritten, with Put.
LEMMA HeadPut ==
  ASSUME NEW d, NEW ws \in Seq(NodeWrite), ws # <<>>
  PROVE  After(d, ws) = After(Put(d, Head(ws)), Tail(ws))
BY HeadWritten, Zenon DEF Put

\* One write.
LEMMA AfterOne ==
  ASSUME NEW d, NEW u \in NodeWrite
  PROVE  After(d, <<u>>) = Put(d, u)
<1> DEFINE ws == <<u>>
<1>1. ws \in Seq(NodeWrite) /\ ws # <<>> /\ Head(ws) = u
  BY Tuples
<1> HIDE DEF ws
<1>2. After(d, ws) = After(Put(d, u), Tail(ws))
  BY <1>1, HeadPut
<1> QED
  BY <1>2, Tuples, PutIs, AfterNone DEF ws

\* Two writes.
LEMMA AfterTwo ==
  ASSUME NEW d, NEW u \in NodeWrite, NEW v \in NodeWrite
  PROVE  After(d, <<u, v>>) = Put(Put(d, u), v)
<1> DEFINE ws == <<u, v>>
<1>1. ws \in Seq(NodeWrite) /\ ws # <<>> /\ Head(ws) = u
  BY Tuples
<1> HIDE DEF ws
<1>2. After(d, ws) = After(Put(d, u), Tail(ws))
  BY <1>1, HeadPut
<1> QED
  BY <1>2, Tuples, AfterOne DEF ws

\* Three writes.
LEMMA AfterThree ==
  ASSUME NEW d, NEW u \in NodeWrite, NEW v \in NodeWrite, NEW w \in NodeWrite
  PROVE  After(d, <<u, v, w>>) = Put(Put(Put(d, u), v), w)
<1> DEFINE ws == <<u, v, w>>
<1>1. ws \in Seq(NodeWrite) /\ ws # <<>> /\ Head(ws) = u
  BY Tuples
<1> HIDE DEF ws
<1>2. After(d, ws) = After(Put(d, u), Tail(ws))
  BY <1>1, HeadPut
<1> QED
  BY <1>2, Tuples, AfterTwo DEF ws

-----------------------------------------------------------------------------
(* The disk d as it is after all writes issued, the super block s, the      *)
(* current folder c, the original folder o and the activations ds.          *)

Bits(ds) == {ds[k].bit : k \in DOMAIN ds}

GoodDisk(d, s) ==
  /\ d \in Disks /\ s \in SuperBlock /\ d[SB] = s
  /\ FoldersGood(d, s.fmap) /\ FilesGood(d, s.fmap, s.imap)

\* The current folder can be walked to, and is what the disk holds.
Current(d, c) == self(c) \in FIdx /\ c = d[self(c)] /\ Reach(d, {}, self(c))

\* The original folder, while its bit is set, can be walked to from the root or
\* from a folder under deletion.
Original(d, s, o, ds) == o \in s.fmap => Reach(d, Bits(ds), o)

\* The folders under deletion are cut off, each its own, and the copies are
\* what the disk holds.
Cut(d, s, ds) ==
  /\ \A k \in DOMAIN ds : /\ ds[k].bit \in FIdx /\ d[ds[k].bit] = ds[k].fn
                          /\ Orphan(d, s.fmap, ds[k].bit)
  /\ \A j, k \in DOMAIN ds : ds[j].bit = ds[k].bit => j = k

Good(d, s, c, o, ds) == GoodDisk(d, s) /\ Current(d, c) /\ Original(d, s, o, ds) /\ Cut(d, s, ds)

\* A folder that can be reached is in use, knows itself, and is read.
LEMMA NodeHere ==
  ASSUME NEW d, NEW s, GoodDisk(d, s), NEW p, Reach(d, {}, p)
  PROVE  /\ p \in s.fmap /\ p \in FIdx /\ d[p] \in Node /\ self(d[p]) = p
         /\ \A c : read_fnode(s.fmap, d, c, p) = d[p]
         /\ Current(d, d[p])
         /\ Branches(d, s.fmap)
<1>1. Branches(d, s.fmap)
  BY GoodBranches DEF GoodDisk
<1>2. p \in s.fmap /\ p \in FIdx
  BY <1>1, ReachedUsed DEF Branches
<1>3. d[p] \in Node
  BY <1>2 DEF GoodDisk, Disks
<1>4. self(d[p]) = p
  BY <1>2, TermIs DEF GoodDisk, FoldersGood, FolderNode, FolderTerms, self
<1> QED
  BY <1>1, <1>2, <1>3, <1>4 DEF read_fnode, Current

\* The root is reached.
LEMMA RootReach == \A d, B : Reach(d, B, ROOT_FOLDER_IDX)
BY DEF Reach, Closed

\* With no folder under deletion.
LEMMA NoActivation == /\ Bits(<<>>) = {} /\ \A d, s : Cut(d, s, <<>>)
                      /\ \A d, s, o : Reach(d, {}, o) => Original(d, s, o, <<>>)
<1>1. DOMAIN <<>> = {}
  OBVIOUS
<1> QED
  BY <1>1 DEF Bits, Cut, Original

\* With no call under way.
LEMMA NoOriginal == \A d, s, ds : s \in SuperBlock => Original(d, s, NoCall, ds)
BY Limits DEF SuperBlock, Original

\* Every folder term of the current folder that is in use leads to a folder one
\* can walk to.
LEMMA WalkReach ==
  ASSUME NEW d, NEW s, GoodDisk(d, s), NEW c, Current(d, c), NEW t \in FSlot, c.fterms[t].used
  PROVE  Reach(d, {}, c.fterms[t].idx)
<1> DEFINE x == self(c)
<1>1. x \in FIdx /\ c = d[x] /\ Reach(d, {}, x)
  BY DEF Current
<1> HIDE DEF x
<1>2. /\ x \in s.fmap /\ x \in FIdx /\ d[x] \in Node /\ Branches(d, s.fmap)
      /\ FoldersGood(d, s.fmap) /\ FolderNode(d, s.fmap, x)
  BY <1>1, NodeHere DEF GoodDisk, FoldersGood
<1>3. CASE t = SELF_IDX
  BY <1>1, <1>3 DEF x, self
<1>4. CASE t = PARENT_IDX
  <2>1. x # ROOT_FOLDER_IDX
    BY <1>1, <1>2, <1>4 DEF FoldersGood
  <2>2. ASSUME NEW i \in s.fmap, Child(d, i, x) PROVE i = c.fterms[t].idx
    <3>1. d[x].fterms[PARENT_IDX] = gen_term("..", i)
      BY <1>2, <2>2 DEF FoldersGood, FolderNode, IsParent
    <3> QED
      BY <1>1, <1>4, <3>1, TermIs
  <2> QED
    BY <1>1, <1>2, <2>1, <2>2, ReachParent
<1>5. CASE t \in Sub
  <2>1. Child(d, x, c.fterms[t].idx)
    BY <1>1, <1>5 DEF Child, Holds
  <2>2. c.fterms[t].idx \in FIdx
    BY <1>1, <1>2, PartsOfNode DEF FolderTerm
  <2> QED
    BY <1>1, <2>1, <2>2, ReachChild
<1> QED
  BY <1>3, <1>4, <1>5, Limits

\* What is reached in d is reached in e; and without the folder b, which is freed.
Keeps(d, e) == \A B, p : Reach(d, B, p) => Reach(e, B, p)
KeepsRooted(d, e) == \A p : Reach(d, {}, p) => Reach(e, {}, p)
KeepsBut(d, e, b) == \A B, p : p # b /\ Reach(d, B, p) => Reach(e, B \ {b}, p)
KeepsWith(d, e, y) == \A B, p : Reach(d, B, p) => Reach(e, B \cup {y}, p)
SameTree(d, e) == \A i, j \in FIdx : Child(e, i, j) = Child(d, i, j)
Stores(d, e, x, f) == e[x] = f /\ \A i \in FIdx : i # x => e[i] = d[i]
StayCut(d, e, F, y) == \A b : Orphan(d, F, b) => b # y /\ Orphan(e, F, b)
OthersCut(d, e, F, G, b) == \A a : a # b /\ Orphan(d, F, a) => Orphan(e, G, a)
SameNodes(d, e) == \A i \in FIdx : e[i] = d[i]

\* e is d with the super block s written to it.
SbPut(d, e, s) ==
  /\ DOMAIN e = FIdx \cup {SB} /\ e = [b \in DOMAIN e |-> e[b]]
  /\ e[SB] = s /\ \A i \in FIdx : e[i] = d[i]

\* The super block written, the disk is in order.
LEMMA SbGood ==
  ASSUME NEW d \in Disks, NEW s \in SuperBlock, FoldersGood(d, s.fmap), FilesGood(d, s.fmap, s.imap),
         NEW e, SbPut(d, e, s)
  PROVE  GoodDisk(e, s) /\ Keeps(d, e) /\ SameTree(d, e)
<1>1. \A i \in FIdx : e[i] = d[i]
  BY DEF SbPut
<1>2. e \in Disks /\ e[SB] = s
  BY Limits DEF Disks, SbPut
<1>3. s.fmap \subseteq FIdx
  BY DEF SuperBlock
<1>4. FoldersGood(e, s.fmap)
  BY <1>1, <1>3, SameFolders
<1>5. FilesGood(e, s.fmap, s.imap)
  BY <1>1, <1>3, SameFiles
<1>6. SameTree(d, e)
  BY <1>1 DEF Child, SameTree
<1>7. Keeps(d, e)
  BY <1>6, ReachSame DEF Keeps, SameTree
<1> QED
  BY <1>2, <1>4, <1>5, <1>6, <1>7 DEF GoodDisk

\* A node written is a node stored.
LEMMA PutFnode == \A d, f, x : Put(d, write_fnode(f, x)) = Store(d, x, f)
BY DEF Put, write_fnode, Store

\* The super block written.
LEMMA PutSb ==
  ASSUME NEW d \in Disks, NEW s
  PROVE  SbPut(d, Put(d, [blk |-> SB, data |-> s]), s)
BY Limits DEF SbPut, Put, Disks

\* A disk with the folder terms of one in order is in order.
LEMMA SameTerms ==
  ASSUME NEW d, NEW e, SameFolderTerms(d, e), NEW F, FoldersGood(d, F)
  PROVE  FoldersGood(e, F) /\ Keeps(d, e) /\ SameTree(d, e)
<1>1. FoldersGood(e, F)
  BY SameFolders DEF SameFolderTerms, FoldersGood
<1>2. SameTree(d, e)
  BY DEF SameTree, Child, SameFolderTerms
<1> QED
  BY <1>1, <1>2, ReachSame DEF Keeps, SameTree

-----------------------------------------------------------------------------
(* What a call does to the disk.                                           *)

\* The three writes of create_folder leave the disk in order.
LEMMA FolderCreated ==
  ASSUME NEW d, NEW s, GoodDisk(d, s), NEW x, Reach(d, {}, x),
         NEW n \in AnyName, ~FolderTaken(d[x], n), NEW t, FirstUnused(d[x].fterms, Sub, t),
         NEW y \in FIdx \ s.fmap, NEW s2, s2 = [s EXCEPT !.fmap = set_bitmap(@, y)],
         NEW f, f = WithFolder(d[x], t, n, y),
         NEW e, e = Put(Put(Put(d, write_fnode(f, x)), [blk |-> SB, data |-> s2]),
                        write_fnode(gen_fnode(y, f.fterms[SELF_IDX]), y))
  PROVE  GoodDisk(e, s2) /\ KeepsRooted(d, e)
<1> DEFINE g == gen_fnode(y, f.fterms[SELF_IDX])
           e0 == Store(Store(d, x, f), y, g)
<1>1. /\ d \in Disks /\ FoldersGood(d, s.fmap) /\ FilesGood(d, s.fmap, s.imap)
      /\ x \in s.fmap /\ x \in FIdx /\ y \in FIdx /\ x # y /\ Branches(d, s.fmap) /\ s \in SuperBlock
  BY NodeHere DEF GoodDisk
<1>2. s2 \in SuperBlock /\ s2.fmap = s.fmap \cup {y} /\ s2.imap = s.imap
  BY <1>1, BitsTyped
<1>3. /\ e0 \in Disks /\ FoldersGood(e0, s.fmap \cup {y}) /\ FilesGood(e0, s.fmap \cup {y}, s.imap)
      /\ Added(d, e0, s.fmap, x, y)
  <2>1. e0 = Store(Store(d, x, f), y, g) /\ g = gen_fnode(y, f.fterms[SELF_IDX])
    OBVIOUS
  <2> HIDE DEF e0, g
  <2>2. FilesGood(e0, s.fmap \cup {y}, s.imap)
    BY <1>1, <2>1, AddFolder
  <2>3. FoldersGood(e0, s.fmap \cup {y}) /\ e0 \in Disks
    BY <1>1, <2>1, AddFolder
  <2>4. Added(d, e0, s.fmap, x, y)
    BY <1>1, <2>1, AddFolder
  <2> QED
    BY <2>2, <2>3, <2>4
<1>4. SbPut(e0, e, s2)
  <2>1. DOMAIN d = FIdx \cup {SB}
    BY <1>1 DEF Disks
  <2>2. e = [[[d EXCEPT ![x] = f] EXCEPT ![SB] = s2] EXCEPT ![y] = g]
    BY DEF Put, write_fnode
  <2> HIDE DEF g
  <2> QED
    BY <1>1, <2>1, <2>2, Limits DEF SbPut, Store
<1> HIDE DEF e0
<1>5. GoodDisk(e, s2) /\ Keeps(e0, e)
  BY <1>2, <1>3, <1>4, SbGood
<1>6. \A p : Reach(d, {}, p) => Reach(e0, {}, p)
  BY <1>1, <1>3, AddReach
<1> QED
  BY <1>5, <1>6 DEF Keeps, KeepsRooted

\* The two writes of create_file do.
LEMMA FileCreated ==
  ASSUME NEW d, NEW s, GoodDisk(d, s), NEW x, Reach(d, {}, x),
         NEW n \in AnyName, ~FileTaken(d[x], n), NEW t, FirstUnused(d[x].iterms, ISlot, t),
         NEW y \in IIdx \ s.imap, NEW s2, s2 = [s EXCEPT !.imap = set_bitmap(@, y)],
         NEW e, e = Put(Put(d, write_fnode(WithFile(d[x], t, n, y), x)), [blk |-> SB, data |-> s2])
  PROVE  GoodDisk(e, s2) /\ KeepsRooted(d, e)
<1> DEFINE e0 == Store(d, x, WithFile(d[x], t, n, y))
<1>1. /\ d \in Disks /\ FoldersGood(d, s.fmap) /\ FilesGood(d, s.fmap, s.imap)
      /\ x \in s.fmap /\ x \in FIdx /\ s.fmap \in SUBSET FIdx /\ s \in SuperBlock
  BY NodeHere DEF GoodDisk, SuperBlock
<1>2. s2 \in SuperBlock /\ s2.imap = s.imap \cup {y} /\ s2.fmap = s.fmap
  BY <1>1, BitsTyped
<1>3. /\ e0 \in Disks /\ FilesGood(e0, s.fmap, s.imap \cup {y})
      /\ SameFolderTerms(d, e0)
  <2>1. e0 = Store(d, x, WithFile(d[x], t, n, y))
    OBVIOUS
  <2> HIDE DEF e0
  <2> QED
    <3>1. FilesGood(e0, s.fmap, s.imap \cup {y})
      BY <1>1, <2>1, AddFile
    <3>2. SameFolderTerms(d, e0) /\ e0 \in Disks
      <4> DEFINE f == WithFile(d[x], t, n, y)
      <4>1. f \in Node /\ f.fterms = d[x].fterms /\ f.num_fterm = d[x].num_fterm
        <5>1. d[x] \in Node /\ t \in ISlot /\ y \in IIdx
          BY <1>1, NodeTerms DEF FirstUnused
        <5>2. f \in Node
          BY <5>1, WithFileTyped
        <5> QED
          BY <5>1, <5>2, WithFileSame
      <4>2. e0 = Store(d, x, f)
        BY <2>1
      <4> HIDE DEF f
      <4> QED
        BY <1>1, <4>1, <4>2, Stored DEF SameFolderTerms
    <3> QED
      BY <3>1, <3>2
<1>4. e = Put(e0, [blk |-> SB, data |-> s2])
  BY PutFnode
<1> HIDE DEF e0
<1>5. FoldersGood(e0, s.fmap) /\ Keeps(d, e0)
  BY <1>1, <1>3, SameTerms
<1>6. SbPut(e0, e, s2)
  BY <1>3, <1>4, PutSb
<1>7. GoodDisk(e, s2) /\ Keeps(e0, e)
  BY <1>2, <1>3, <1>5, <1>6, SbGood
<1> QED
  BY <1>5, <1>7 DEF Keeps, KeepsRooted

\* The two writes of delete_file do, and leave the tree of folders.
LEMMA FileDeleted ==
  ASSUME NEW d, NEW s, GoodDisk(d, s), NEW x \in s.fmap, NEW n,
         NEW t \in Matches(d[x].iterms, ISlot, n),
         NEW s2, s2 = [s EXCEPT !.imap = clear_bitmap(@, d[x].iterms[t].idx)],
         NEW f, f = delete_iterm(d[x], n),
         NEW e, e = Put(Put(d, write_fnode(f, x)), [blk |-> SB, data |-> s2])
  PROVE  /\ GoodDisk(e, s2) /\ s2.fmap = s.fmap /\ self(f) = self(d[x])
         /\ Keeps(d, e) /\ SameTree(d, e) /\ Stores(d, e, x, f)
<1> DEFINE e0 == Store(d, x, f)
<1>1. /\ d \in Disks /\ FoldersGood(d, s.fmap) /\ FilesGood(d, s.fmap, s.imap)
      /\ x \in FIdx /\ s.fmap \in SUBSET FIdx /\ s \in SuperBlock /\ d[x] \in Node
      /\ DOMAIN d = FIdx \cup {SB}
  BY DEF GoodDisk, SuperBlock, Disks
<1>2. s2 \in SuperBlock /\ s2.imap = s.imap \ {d[x].iterms[t].idx} /\ s2.fmap = s.fmap
  BY <1>1, BitsTyped
<1>3. /\ e0 \in Disks /\ FilesGood(e0, s.fmap, s.imap \ {d[x].iterms[t].idx})
      /\ SameFolderTerms(d, e0)
  BY <1>1, DropFile
<1>4. e = Put(e0, [blk |-> SB, data |-> s2])
  BY PutFnode
<1>5. e0[x] = f /\ \A i \in FIdx : i # x => e0[i] = d[i]
  BY <1>1, DropTyped, Stored
<1> HIDE DEF e0
<1>6. FoldersGood(e0, s.fmap) /\ Keeps(d, e0) /\ SameTree(d, e0)
  BY <1>1, <1>3, SameTerms
<1>7. SbPut(e0, e, s2)
  BY <1>3, <1>4, PutSb
<1>8. GoodDisk(e, s2) /\ Keeps(e0, e) /\ SameTree(e0, e)
  BY <1>2, <1>3, <1>6, <1>7, SbGood
<1>9. self(f) = self(d[x])
  BY <1>1, DropTyped DEF self
<1>10. Stores(d, e, x, f)
  BY <1>1, <1>5, <1>7 DEF SbPut, Stores
<1>11. Keeps(d, e) /\ SameTree(d, e)
  BY <1>6, <1>8 DEF Keeps, SameTree
<1> QED
  BY <1>2, <1>8, <1>9, <1>10, <1>11

\* The write of delete_folder does, and cuts the subfolder off.
LEMMA FolderDeleted ==
  ASSUME NEW d, NEW s, GoodDisk(d, s), NEW x \in s.fmap, NEW n,
         NEW t \in Matches(d[x].fterms, Sub, n),
         NEW y, y = d[x].fterms[t].idx,
         NEW f, f = delete_fterm(d[x], n),
         NEW e, e = Put(d, write_fnode(f, x))
  PROVE  /\ GoodDisk(e, s) /\ self(f) = self(d[x])
         /\ y \in FIdx /\ Child(d, x, y) /\ Dropped(d, e, x, y) /\ Orphan(e, s.fmap, y)
         /\ KeepsWith(d, e, y) /\ StayCut(d, e, s.fmap, y) /\ Stores(d, e, x, f)
<1>1. /\ d \in Disks /\ FoldersGood(d, s.fmap) /\ FilesGood(d, s.fmap, s.imap)
      /\ x \in FIdx /\ s.fmap \in SUBSET FIdx /\ s \in SuperBlock /\ d[x] \in Node
      /\ DOMAIN d = FIdx \cup {SB} /\ Branches(d, s.fmap)
  BY GoodBranches DEF GoodDisk, SuperBlock, Disks
<1>2. e = Store(d, x, f)
  BY PutFnode
<1>3. /\ e \in Disks /\ e[SB] = d[SB] /\ FoldersGood(e, s.fmap)
      /\ y \in s.fmap \ {ROOT_FOLDER_IDX} /\ Child(d, x, y) /\ Dropped(d, e, x, y)
  BY <1>1, <1>2, DropFolder
<1>4. e[x] = f /\ \A i \in FIdx : i # x => e[i] = d[i]
  BY <1>1, <1>2, DropTyped, Stored
<1>5. f.iterms = d[x].iterms /\ f.num_iterm = d[x].num_iterm /\ f.fterms[SELF_IDX] = d[x].fterms[SELF_IDX]
  <2>1. f.fterms = DropTerms(d[x].fterms, Sub, n) /\ SELF_IDX \in DOMAIN d[x].fterms
    BY <1>1, DropTyped, PartsOfNode, Limits
  <2>2. SELF_IDX \notin Matches(d[x].fterms, Sub, n)
    BY Limits DEF Matches
  <2> DEFINE terms == d[x].fterms
  <2>3. f.fterms[SELF_IDX] = terms[SELF_IDX]
    <3> HIDE DEF terms
    <3> QED
      BY <2>1, <2>2 DEF DropTerms, terms
  <2> QED
    BY <1>1, <2>3, DropTyped
<1>6. FilesGood(e, s.fmap, s.imap)
  BY <1>1, <1>4, <1>5, SameFiles
<1>7. GoodDisk(e, s)
  BY <1>1, <1>3, <1>6 DEF GoodDisk
<1>8. KeepsWith(d, e, y)
  BY <1>1, <1>3, DropReach DEF KeepsWith
<1>9. \A i \in s.fmap : Child(d, i, y) => i = x
  BY <1>1, <1>3 DEF Branches
<1>10. Orphan(e, s.fmap, y)
  BY <1>1, <1>3, <1>9 DEF Orphan, Dropped
<1>11. ASSUME NEW b, Orphan(d, s.fmap, b) PROVE b # y /\ Orphan(e, s.fmap, b)
  BY <1>1, <1>3, <1>11 DEF Orphan, Dropped
<1> QED
  BY <1>1, <1>3, <1>4, <1>5, <1>7, <1>8, <1>10, <1>11 DEF self, StayCut, Stores

\* The write of an emptied folder's bit does, and nothing was reached through it.
LEMMA FolderFreed ==
  ASSUME NEW d, NEW s, GoodDisk(d, s), NEW b, Orphan(d, s.fmap, b), NoneUsed(d[b].fterms, Sub),
         NEW s2, s2 = [s EXCEPT !.fmap = clear_bitmap(@, b)],
         NEW e, e = Put(d, [blk |-> SB, data |-> s2])
  PROVE  /\ GoodDisk(e, s2) /\ s2.fmap = s.fmap \ {b}
         /\ KeepsBut(d, e, b) /\ ~Reach(d, {}, b) /\ SameNodes(d, e)
         /\ OthersCut(d, e, s.fmap, s2.fmap, b)
<1>1. /\ d \in Disks /\ FoldersGood(d, s.fmap) /\ FilesGood(d, s.fmap, s.imap)
      /\ s.fmap \in SUBSET FIdx /\ s \in SuperBlock /\ b \in FIdx /\ Branches(d, s.fmap)
  BY GoodBranches DEF GoodDisk, SuperBlock, Orphan
<1>2. s2 \in SuperBlock /\ s2.imap = s.imap /\ s2.fmap = s.fmap \ {b}
  BY <1>1, BitsTyped
<1>3. FoldersGood(d, s2.fmap) /\ FilesGood(d, s2.fmap, s2.imap)
  BY <1>1, <1>2, FreeFolder
<1>4. SbPut(d, e, s2)
  BY <1>1, PutSb
<1>5. GoodDisk(e, s2) /\ Keeps(d, e) /\ SameTree(d, e)
  BY <1>1, <1>2, <1>3, <1>4, SbGood
<1>6. \A j \in FIdx : ~Child(d, b, j)
  BY DEF Child, Holds, NoneUsed
<1>7. KeepsBut(d, e, b)
  BY <1>1, <1>5, <1>6, LeafReach DEF KeepsBut, Keeps
<1>8. ~Reach(d, {}, b)
  BY <1>1, ReachedUsed
<1>9. OthersCut(d, e, s.fmap, s2.fmap, b)
  BY <1>1, <1>2, <1>5 DEF OthersCut, Orphan, SameTree
<1>10. SameNodes(d, e)
  BY <1>4 DEF SbPut, SameNodes
<1> QED
  BY <1>2, <1>5, <1>7, <1>8, <1>9, <1>10

-----------------------------------------------------------------------------
(* The steps, while no power has been lost.                                *)

\* Seen after the writes still to do, everything is in order; and a call that
\* walks has nothing to write and can come back.
Calm ==
  /\ Good(After(disk, todo), sb, cf, origin, del)
  /\ Walking => todo = <<>> /\ origin \in sb.fmap

\* With nothing left to write, the disk is what is on it.
LEMMA NothingToWrite ==
  ASSUME Typed
  PROVE  After(disk, <<>>) = disk /\ disk \in Disks
<1>1. disk \in Disks
  BY DEF Typed
<1>2. disk = [b \in DOMAIN disk |-> disk[b]]
  BY <1>1 DEF Disks
<1> QED
  BY <1>1, <1>2, AfterNone

\* Between the calls, and while a call walks.
LEMMA Resting ==
  ASSUME Typed, Calm, Idle \/ Walking
  PROVE  /\ todo = <<>> /\ del = <<>>
         /\ GoodDisk(disk, sb) /\ Current(disk, cf) /\ Reach(disk, {}, self(cf)) /\ cf = disk[self(cf)]
         /\ Walking => Reach(disk, {}, origin) /\ origin \in FIdx
<1>1. todo = <<>> /\ del = <<>>
  BY DEF Calm, Idle, Walking, Typed
<1>2. Good(disk, sb, cf, origin, <<>>)
  BY <1>1, NothingToWrite DEF Calm
<1>3. GoodDisk(disk, sb) /\ Current(disk, cf) /\ Reach(disk, {}, self(cf)) /\ cf = disk[self(cf)]
  BY <1>2 DEF Good, Current
<1>4. Walking => Reach(disk, {}, origin)
  BY <1>2, NoActivation DEF Good, Original, Calm
<1>5. Walking => origin \in FIdx
  BY DEF Walking, Typed
<1> QED
  BY <1>1, <1>3, <1>4, <1>5

\* A call that only moves the current folder to one it can walk to.
LEMMA Moved ==
  ASSUME Typed, Calm, Idle \/ Walking,
         UNCHANGED <<sb, disk, todo, del>>,
         NEW p, Reach(disk, {}, p), cf' = disk[p],
         origin' = NoCall \/ Reach(disk, {}, origin')
  PROVE  Calm'
<1>1. todo = <<>> /\ del = <<>> /\ GoodDisk(disk, sb)
  BY Resting
<1>2. Current(disk, cf')
  BY <1>1, NodeHere
<1>3. Original(disk, sb, origin', <<>>) /\ Cut(disk, sb, <<>>)
  BY NoActivation, NoOriginal DEF Typed
<1>4. Good(disk, sb, cf', origin', <<>>)
  BY <1>1, <1>2, <1>3 DEF Good
<1>5. Walking' => origin' \in sb.fmap
  BY <1>1, NodeHere DEF Walking
<1> QED
  BY <1>1, <1>4, <1>5, NothingToWrite DEF Calm

\* A creation that reads the original folder back.
LEMMA Returned ==
  ASSUME Typed, del = <<>>, NEW fn, NEW ws, NEW back, Return(fn, ws, back),
         GoodDisk(After(disk, ws), sb'), Reach(After(disk, ws), {}, back)
  PROVE  Calm'
<1> DEFINE d == After(disk, ws)
<1>1. /\ todo' = ws /\ cf' = read_fnode(sb'.fmap, d, fn, back) /\ origin' = NoCall
      /\ disk' = disk /\ del' = <<>>
  BY WrittenIsAfter DEF Return
<1>3. After(disk', todo') = d
  BY <1>1
<1>4. GoodDisk(d, sb') /\ Reach(d, {}, back)
  OBVIOUS
<1> HIDE DEF d
<1>5. Current(d, cf')
  BY <1>1, <1>4, NodeHere
<1>6. Original(d, sb', NoCall, <<>>) /\ Cut(d, sb', <<>>)
  BY <1>4, NoActivation, NoOriginal DEF GoodDisk
<1>7. Good(d, sb', cf', origin', del')
  BY <1>1, <1>4, <1>5, <1>6 DEF Good
<1>8. ~Walking'
  BY <1>1 DEF Walking
<1> QED
  BY <1>3, <1>7, <1>8 DEF Calm

\* The calls that walk, and those that fail.
LEMMA WalkCalm ==
  ASSUME Typed, Calm
  PROVE  /\ Begin => Calm'
         /\ \A n : WalkInto(n) => Calm'
         /\ \A n : WalkFails(n) => Calm'
         /\ Goin => Calm'
         /\ Lookup => Calm'
         /\ Walking /\ Fails => Calm'
<1>1. ASSUME Begin PROVE Calm'
  <2>1. Idle /\ origin' = self(cf) /\ UNCHANGED <<sb, disk, todo, del>>
    BY <1>1 DEF Begin
  <2>2. GoodDisk(disk, sb) /\ Reach(disk, {}, self(cf)) /\ cf = disk[self(cf)]
    BY <2>1, Resting
  <2>3. CASE cf' = cf
    BY <2>1, <2>2, <2>3, Moved
  <2>4. CASE cf' = read_fnode(sb.fmap, disk, cf, ROOT_FOLDER_IDX)
    <3>1. Reach(disk, {}, ROOT_FOLDER_IDX)
      BY RootReach
    <3>2. cf' = disk[ROOT_FOLDER_IDX]
      BY <2>2, <2>4, <3>1, NodeHere
    <3> QED
      BY <2>1, <2>2, <3>1, <3>2, Moved
  <2> QED
    BY <1>1, <2>3, <2>4 DEF Begin
<1>2. ASSUME NEW n, WalkInto(n) PROVE Calm'
  <2>1. Walking /\ UNCHANGED <<sb, disk, todo, del, origin>>
    BY <1>2 DEF WalkInto
  <2>2. GoodDisk(disk, sb) /\ Current(disk, cf) /\ Reach(disk, {}, origin)
    BY <2>1, Resting
  <2>3. PICK t \in Matches(cf.fterms, FSlot, n) :
          cf' = read_fnode(sb.fmap, disk, cf, cf.fterms[t].idx)
    BY <1>2 DEF WalkInto
  <2>4. t \in FSlot /\ cf.fterms[t].used
    BY DEF Matches
  <2>5. Reach(disk, {}, cf.fterms[t].idx)
    BY <2>2, <2>4, WalkReach
  <2>6. cf' = disk[cf.fterms[t].idx]
    BY <2>2, <2>3, <2>5, NodeHere
  <2> QED
    BY <2>1, <2>2, <2>5, <2>6, Moved
<1>3. ASSUME Walking, UNCHANGED <<sb, cf, disk, todo, del>>, origin' = NoCall
      PROVE  Calm'
  <2>1. Reach(disk, {}, self(cf)) /\ cf' = disk[self(cf)]
    BY <1>3, Resting
  <2> QED
    BY <1>3, <2>1, Moved
<1>4. (\A n : WalkFails(n) => Calm') /\ (Goin => Calm') /\ (Walking /\ Fails => Calm')
  BY <1>3 DEF WalkFails, Goin, Fails
<1>5. ASSUME Lookup PROVE Calm'
  <2>1. /\ Walking /\ UNCHANGED <<sb, disk, todo, del>> /\ origin' = NoCall
        /\ cf' = read_fnode(sb.fmap, disk, cf, origin)
    BY <1>5 DEF Lookup
  <2>2. GoodDisk(disk, sb) /\ Reach(disk, {}, origin)
    BY <2>1, Resting
  <2>3. cf' = disk[origin]
    BY <2>1, <2>2, NodeHere
  <2> QED
    BY <2>1, <2>2, <2>3, Moved
<1> QED
  BY <1>1, <1>2, <1>4, <1>5

\* create_folder and create_file, on any folder that can be reached.
LEMMA CreateCalm ==
  ASSUME Typed, del = <<>>, GoodDisk(disk, sb), NEW x, Reach(disk, {}, x), NEW back, Reach(disk, {}, back),
         NEW fn, fn = disk[x], NEW n \in AnyName
  PROVE  /\ create_folder(fn, n, back) => Calm'
         /\ create_file(fn, n, back) => Calm'
<1>0. /\ disk \in Disks /\ sb \in SuperBlock /\ x \in FIdx /\ fn \in Node /\ self(fn) = x
      /\ x \in sb.fmap
  BY NodeHere DEF Typed
<1>1. ASSUME sb' = sb, Return(fn, <<>>, back) PROVE Calm'
  <2>1. GoodDisk(After(disk, <<>>), sb') /\ Reach(After(disk, <<>>), {}, back)
    BY <1>1, NothingToWrite
  <2> QED
    BY <1>1, <2>1, Returned
<1>2. ASSUME NEW i \in FIdx, NEW s \in Sub, IsLowestFree(i, sb.fmap, FNODE_NUM_LIM),
             ~FolderTaken(fn, n), FirstUnused(fn.fterms, Sub, s),
             sb' = [sb EXCEPT !.fmap = set_bitmap(@, i)],
             LET parent == [fn EXCEPT !.fterms[s] = gen_term(n, i), !.num_fterm = @ + 1]
             IN  Return(parent,
                        << write_fnode(parent, self(fn)), write_sb,
                           write_fnode(gen_fnode(i, parent.fterms[SELF_IDX]), i) >>, back)
      PROVE  Calm'
  <2> DEFINE parent == WithFolder(fn, s, n, i)
             g == gen_fnode(i, parent.fterms[SELF_IDX])
             u == write_fnode(parent, x)  v == [blk |-> SB, data |-> sb']  w == write_fnode(g, i)
             e == Put(Put(Put(disk, u), v), w)
  <2>1. Return(parent, <<u, v, w>>, back)
    BY <1>0, <1>2 DEF WithFolder, write_sb
  <2>2. parent \in Node
    BY <1>0, WithFolderTyped, Limits
  <2>3. parent.fterms[SELF_IDX] \in FolderTerm
    BY <2>2, PartsOfNode, Limits
  <2>4. i \in FIdx \ sb.fmap
    BY <1>2 DEF IsLowestFree, FIdx
  <2>5. sb' \in SuperBlock
    BY <1>0, <1>2, BitsTyped
  <2>6. u \in NodeWrite /\ v \in NodeWrite /\ w \in NodeWrite
    <3>1. g \in Node
      BY <2>3, GenTyped
    <3> HIDE DEF g, parent
    <3> QED
      BY <1>0, <2>2, <2>5, <3>1 DEF write_fnode, NodeWrite
  <2>7. GoodDisk(e, sb') /\ KeepsRooted(disk, e)
    <3>1. parent = WithFolder(disk[x], s, n, i) /\ ~FolderTaken(disk[x], n) /\ FirstUnused(disk[x].fterms, Sub, s)
      BY <1>2
    <3>2. e = Put(Put(Put(disk, write_fnode(parent, x)), [blk |-> SB, data |-> sb']),
                  write_fnode(gen_fnode(i, parent.fterms[SELF_IDX]), i))
      OBVIOUS
    <3> HIDE DEF e, parent
    <3> QED
      BY <1>2, <2>4, <3>1, <3>2, FolderCreated
  <2> HIDE DEF u, v, w
  <2>8. After(disk, <<u, v, w>>) = e
    BY <2>6, AfterThree
  <2>9. Reach(e, {}, back)
    BY <2>7 DEF KeepsRooted
  <2> HIDE DEF e, parent
  <2> QED
    BY <2>1, <2>7, <2>8, <2>9, Returned
<1>3. ASSUME NEW i \in IIdx, NEW s \in ISlot, IsLowestFree(i, sb.imap, INODE_NUM_LIM),
             ~FileTaken(fn, n), FirstUnused(fn.iterms, ISlot, s),
             sb' = [sb EXCEPT !.imap = set_bitmap(@, i)],
             LET parent == [fn EXCEPT !.iterms[s] = gen_term(n, i), !.num_iterm = @ + 1]
             IN  Return(parent, << write_fnode(parent, self(fn)), write_sb >>, back)
      PROVE  Calm'
  <2> DEFINE parent == WithFile(fn, s, n, i)
             u == write_fnode(parent, x)  v == [blk |-> SB, data |-> sb']
             e == Put(Put(disk, u), v)
  <2>1. Return(parent, <<u, v>>, back)
    BY <1>0, <1>3 DEF WithFile, write_sb
  <2>2. parent \in Node
    BY <1>0, WithFileTyped
  <2>4. i \in IIdx \ sb.imap
    BY <1>3 DEF IsLowestFree, IIdx
  <2>5. sb' \in SuperBlock
    BY <1>0, <1>3, BitsTyped
  <2>6. u \in NodeWrite /\ v \in NodeWrite
    <3> HIDE DEF parent
    <3> QED
      BY <1>0, <2>2, <2>5 DEF write_fnode, NodeWrite
  <2>7. GoodDisk(e, sb') /\ KeepsRooted(disk, e)
    <3>1. ~FileTaken(disk[x], n) /\ FirstUnused(disk[x].iterms, ISlot, s)
      BY <1>3
    <3>2. e = Put(Put(disk, write_fnode(WithFile(disk[x], s, n, i), x)), [blk |-> SB, data |-> sb'])
      OBVIOUS
    <3> HIDE DEF e, parent
    <3> QED
      BY <1>3, <2>4, <3>1, <3>2, FileCreated
  <2> HIDE DEF u, v
  <2>8. After(disk, <<u, v>>) = e
    BY <2>6, AfterTwo
  <2>9. Reach(e, {}, back)
    BY <2>7 DEF KeepsRooted
  <2> HIDE DEF e, parent
  <2> QED
    BY <2>1, <2>7, <2>8, <2>9, Returned
<1>4. create_folder(fn, n, back) => Calm'
  BY <1>1, <1>2 DEF create_folder
<1>5. create_file(fn, n, back) => Calm'
  BY <1>1, <1>3 DEF create_file
<1> QED
  BY <1>4, <1>5

\* A node in use knows itself.
LEMMA SelfHere ==
  ASSUME NEW d, NEW s, GoodDisk(d, s), NEW x \in s.fmap
  PROVE  x \in FIdx /\ d[x] \in Node /\ self(d[x]) = x
BY TermIs DEF GoodDisk, FoldersGood, FolderNode, FolderTerms, self, Disks

\* A call that ends with the current folder one it can walk to.
LEMMA Settles ==
  ASSUME NEW e, After(disk', todo') = e, GoodDisk(e, sb'), Current(e, cf'), origin' = NoCall, del' = <<>>
  PROVE  Calm'
<1>1. Original(e, sb', NoCall, <<>>) /\ Cut(e, sb', <<>>)
  BY NoActivation, NoOriginal DEF GoodDisk
<1>2. Good(e, sb', cf', origin', del')
  BY <1>1 DEF Good
<1>3. ~Walking'
  BY DEF Walking
<1> QED
  BY <1>2, <1>3 DEF Calm

\* delete_file, on any node in use.
LEMMA FileWritten ==
  ASSUME Typed, GoodDisk(disk, sb), NEW x \in sb.fmap, NEW n, NEW t \in Matches(disk[x].iterms, ISlot, n),
         sb' = [sb EXCEPT !.imap = clear_bitmap(@, disk[x].iterms[t].idx)],
         NEW f, f = delete_iterm(disk[x], n), todo' = FileWrites(f),
         NEW e, e = Put(Put(disk, write_fnode(f, x)), [blk |-> SB, data |-> sb'])
  PROVE  /\ After(disk, todo') = e /\ GoodDisk(e, sb') /\ sb'.fmap = sb.fmap /\ self(f) = x
         /\ Keeps(disk, e) /\ SameTree(disk, e) /\ Stores(disk, e, x, f)
<1>1. x \in FIdx /\ disk[x] \in Node /\ self(disk[x]) = x /\ sb \in SuperBlock
  BY SelfHere DEF Typed
<1>2. /\ GoodDisk(e, sb') /\ sb'.fmap = sb.fmap /\ self(f) = self(disk[x])
      /\ Keeps(disk, e) /\ SameTree(disk, e) /\ Stores(disk, e, x, f)
  BY FileDeleted
<1>3. f \in Node /\ sb' \in SuperBlock
  BY <1>1, <1>2, DropTyped DEF GoodDisk
<1> DEFINE u == write_fnode(f, x)  v == [blk |-> SB, data |-> sb']
<1>4. u \in NodeWrite /\ v \in NodeWrite /\ todo' = <<u, v>>
  BY <1>1, <1>2, <1>3 DEF write_fnode, NodeWrite, FileWrites, write_sb
<1>5. e = Put(Put(disk, u), v)
  OBVIOUS
<1> HIDE DEF u, v
<1>6. After(disk, todo') = e
  BY <1>4, <1>5, AfterTwo
<1> QED
  BY <1>1, <1>2, <1>6

\* PSV_delete_file.
LEMMA DeleteFileCalm ==
  ASSUME Typed, Calm, NEW n, DeleteFile(n)
  PROVE  Calm'
<1>1. CASE Walking /\ Fails
  BY <1>1, WalkCalm
<1>2. ASSUME NEW t \in ISlot, Walking, IsDeleted(t, cf.iterms, ISlot, n), cf' = delete_iterm(cf, n),
             sb' = [sb EXCEPT !.imap = clear_bitmap(@, cf.iterms[t].idx)],
             todo' = FileWrites(cf'), origin' = NoCall, UNCHANGED <<disk, del>>
      PROVE  Calm'
  <2> DEFINE x == self(cf)  f == delete_iterm(cf, n)
             e == Put(Put(disk, write_fnode(f, x)), [blk |-> SB, data |-> sb'])
  <2>1. del = <<>> /\ GoodDisk(disk, sb) /\ Reach(disk, {}, x) /\ cf = disk[x]
    BY <1>2, Resting
  <2>2. x \in sb.fmap
    BY <2>1, NodeHere
  <2>3. t \in Matches(disk[x].iterms, ISlot, n)
    BY <1>2, <2>1 DEF IsDeleted
  <2>4. /\ f = delete_iterm(disk[x], n) /\ todo' = FileWrites(f)
        /\ sb' = [sb EXCEPT !.imap = clear_bitmap(@, disk[x].iterms[t].idx)]
        /\ e = Put(Put(disk, write_fnode(f, x)), [blk |-> SB, data |-> sb'])
    BY <1>2, <2>1
  <2>5. cf' = f /\ disk' = disk
    BY <1>2
  <2> HIDE DEF x, f, e
  <2>6. /\ After(disk, todo') = e /\ GoodDisk(e, sb') /\ self(f) = x
        /\ Keeps(disk, e) /\ Stores(disk, e, x, f)
    BY <2>1, <2>2, <2>3, <2>4, FileWritten
  <2>7. Current(e, f)
    BY <2>1, <2>2, <2>6, SelfHere DEF Current, Keeps, Stores
  <2>8. After(disk', todo') = e /\ Current(e, cf') /\ del' = <<>>
    BY <1>2, <2>1, <2>5, <2>6, <2>7
  <2> QED
    BY <1>2, <2>6, <2>8, Settles
<1> QED
  BY <1>1, <1>2 DEF DeleteFile

-----------------------------------------------------------------------------
(* The activations of delete_folder.                                       *)

\* A sequence with one element more.
LEMMA Appended ==
  ASSUME NEW S, NEW ds \in Seq(S), NEW a \in S, NEW es, es = Append(ds, a)
  PROVE  /\ es \in Seq(S) /\ es # <<>>
         /\ DOMAIN es = DOMAIN ds \cup {Len(ds) + 1} /\ Len(ds) + 1 \notin DOMAIN ds
         /\ es[Len(ds) + 1] = a /\ \A k \in DOMAIN ds : es[k] = ds[k]
OBVIOUS

\* One activation more.
LEMMA CutMore ==
  ASSUME NEW d, NEW s, NEW ds \in Seq(Activation), Cut(d, s, ds), NEW a \in Activation,
         d[a.bit] = a.fn, Orphan(d, s.fmap, a.bit), a.bit \notin Bits(ds),
         NEW es, es = Append(ds, a)
  PROVE  Cut(d, s, es) /\ Bits(es) = Bits(ds) \cup {a.bit}
<1>1. /\ DOMAIN es = DOMAIN ds \cup {Len(ds) + 1} /\ Len(ds) + 1 \notin DOMAIN ds
      /\ es[Len(ds) + 1] = a /\ \A k \in DOMAIN ds : es[k] = ds[k]
  BY Appended
<1>2. \A k \in DOMAIN ds : ds[k].bit # a.bit
  BY DEF Bits
<1>3. a.bit \in FIdx
  BY DEF Activation
<1>4. Cut(d, s, es)
  BY <1>1, <1>2, <1>3 DEF Cut
<1>5. Bits(es) = Bits(ds) \cup {a.bit}
  BY <1>1 DEF Bits
<1> QED
  BY <1>4, <1>5

\* The innermost activation's copy of its folder is now f.
Swapped(ds, es, f) ==
  /\ DOMAIN es = DOMAIN ds
  /\ es[Len(ds)] = [fn |-> f, bit |-> ds[Len(ds)].bit]
  /\ \A k \in DOMAIN ds : k # Len(ds) => es[k] = ds[k]

\* The innermost activation writes its folder.
LEMMA CutSwap ==
  ASSUME NEW d, NEW s, NEW ds \in Seq(Activation), ds # <<>>, Cut(d, s, ds),
         NEW e, NEW s2, NEW f, Stores(d, e, ds[Len(ds)].bit, f),
         NEW es, Swapped(ds, es, f), \A a \in Bits(ds) : Orphan(e, s2.fmap, a)
  PROVE  Cut(e, s2, es) /\ Bits(es) = Bits(ds)
<1>1. Len(ds) \in DOMAIN ds
  OBVIOUS
<1>2. DOMAIN es = DOMAIN ds /\ \A k \in DOMAIN ds : es[k].bit = ds[k].bit
  BY DEF Swapped
<1>3. ASSUME NEW k \in DOMAIN es
      PROVE  es[k].bit \in FIdx /\ e[es[k].bit] = es[k].fn /\ Orphan(e, s2.fmap, es[k].bit)
  <2>1. es[k].bit = ds[k].bit /\ ds[k].bit \in FIdx /\ d[ds[k].bit] = ds[k].fn
    BY <1>2, <1>3 DEF Cut
  <2>2. Orphan(e, s2.fmap, es[k].bit)
    BY <1>2, <1>3 DEF Bits
  <2>3. CASE k = Len(ds)
    BY <2>1, <2>2, <2>3 DEF Swapped, Stores
  <2>4. CASE k # Len(ds)
    BY <1>1, <1>2, <2>1, <2>2, <2>4 DEF Swapped, Stores, Cut
  <2> QED
    BY <2>3, <2>4
<1>4. Cut(e, s2, es)
  BY <1>2, <1>3 DEF Cut
<1>5. Bits(es) = Bits(ds)
  BY <1>2 DEF Bits
<1> QED
  BY <1>4, <1>5

\* The innermost activation and those around it.
LEMMA InnerOuter ==
  ASSUME del \in Seq(Activation), del # <<>>
  PROVE  /\ Len(del) \in DOMAIN del /\ Inner = del[Len(del)] /\ Inner \in Activation
         /\ Inner.fn \in Node /\ Inner.bit \in FIdx
         /\ Outer \in Seq(Activation) /\ Len(Outer) = Len(del) - 1
         /\ DOMAIN Outer = DOMAIN del \ {Len(del)} /\ \A k \in DOMAIN Outer : Outer[k] = del[k]
<1>1. Len(del) \in DOMAIN del /\ Len(del) \in Nat \ {0} /\ DOMAIN del = 1 .. Len(del)
  OBVIOUS
<1>2. Inner = del[Len(del)] /\ Inner \in Activation
  BY <1>1 DEF Inner
<1>3. /\ Outer \in Seq(Activation) /\ Len(Outer) = Len(del) - 1
      /\ \A k \in 1 .. Len(del) - 1 : Outer[k] = del[k]
  BY <1>1 DEF Outer
<1>4. DOMAIN Outer = DOMAIN del \ {Len(del)} /\ DOMAIN Outer = 1 .. Len(del) - 1
  <2>1. DOMAIN Outer = 1 .. Len(Outer)
    BY <1>3
  <2>2. DOMAIN Outer = 1 .. Len(del) - 1
    BY <1>3, <2>1
  <2>3. \A m \in Nat \ {0} : 1 .. m - 1 = (1 .. m) \ {m}
    OBVIOUS
  <2> QED
    BY <1>1, <2>2, <2>3
<1>5. \A k \in DOMAIN Outer : Outer[k] = del[k]
  BY <1>3, <1>4
<1>6. Inner.fn \in Node /\ Inner.bit \in FIdx
  BY <1>2 DEF Activation
<1> QED
  BY <1>1, <1>2, <1>3, <1>4, <1>5, <1>6

\* The two ways the code of a deletion changes its copy.
LEMMA OuterSwapped ==
  ASSUME del \in Seq(Activation), del # <<>>, NEW f \in Node
  PROVE  /\ Swapped(del, Append(Outer, [Inner EXCEPT !.fn = f]), f)
         /\ Append(Outer, [Inner EXCEPT !.fn = f]) \in Seq(Activation)
         /\ Swapped(del, [del EXCEPT ![Len(del)].fn = f], f)
<1>1. /\ Len(del) \in DOMAIN del /\ Inner = del[Len(del)] /\ Inner \in Activation
      /\ Outer \in Seq(Activation) /\ Len(Outer) = Len(del) - 1
      /\ DOMAIN Outer = DOMAIN del \ {Len(del)} /\ \A k \in DOMAIN Outer : Outer[k] = del[k]
  BY InnerOuter
<1>2. [Inner EXCEPT !.fn = f] = [fn |-> f, bit |-> Inner.bit]
  BY <1>1 DEF Activation
<1>3. [fn |-> f, bit |-> Inner.bit] \in Activation
  BY <1>1 DEF Activation
<1> DEFINE a == [fn |-> f, bit |-> Inner.bit]  es == Append(Outer, a)
<1>4. /\ es \in Seq(Activation)
      /\ DOMAIN es = DOMAIN Outer \cup {Len(Outer) + 1}
      /\ es[Len(Outer) + 1] = a /\ \A k \in DOMAIN Outer : es[k] = Outer[k]
  BY <1>1, <1>3, Appended
<1>5. Len(Outer) + 1 = Len(del)
  BY <1>1
<1>6. Swapped(del, es, f)
  BY <1>1, <1>4, <1>5 DEF Swapped
<1>7. Swapped(del, [del EXCEPT ![Len(del)].fn = f], f)
  BY <1>1, <1>2 DEF Swapped
<1> QED
  BY <1>2, <1>4, <1>6, <1>7

-----------------------------------------------------------------------------
(* Deleting a folder.                                                      *)

\* delete_folder enters y, a subfolder of x; x becomes f and the disk e.
Entering(x, y, f, e, outer) ==
  /\ After(disk, todo') = e /\ GoodDisk(e, sb) /\ f \in Node /\ self(f) = x /\ x \in FIdx
  /\ Child(disk, x, y) /\ Dropped(disk, e, x, y) /\ Orphan(e, sb.fmap, y)
  /\ KeepsWith(disk, e, y) /\ StayCut(disk, e, sb.fmap, y) /\ Stores(disk, e, x, f)
  /\ del' = Append(outer, [fn |-> disk[y], bit |-> y]) /\ disk[y] \in Node

\* delete_folder up to its read_fnode, on any node in use.
LEMMA Entered ==
  ASSUME Typed, GoodDisk(disk, sb), NEW x \in sb.fmap, NEW n, NEW outer, Enter(disk[x], n, outer),
         NEW f, f = delete_fterm(disk[x], n), NEW e, e = Put(disk, write_fnode(f, x))
  PROVE  \E y \in FIdx : Entering(x, y, f, e, outer)
<1>1. x \in FIdx /\ disk[x] \in Node /\ self(disk[x]) = x
  BY SelfHere
<1>2. PICK t \in Sub, g \in StackGarbage :
        /\ IsDeleted(t, disk[x].fterms, Sub, n)
        /\ LET i == disk[x].fterms[t].idx
           IN  del' = Append(outer, [fn |-> read_fnode(sb.fmap, disk, g, i), bit |-> i])
        /\ todo' = << write_fnode(delete_fterm(disk[x], n), self(disk[x])) >>
  BY DEF Enter
<1> DEFINE y == disk[x].fterms[t].idx
<1>3. t \in Matches(disk[x].fterms, Sub, n)
  BY <1>2 DEF IsDeleted
<1>4. y = disk[x].fterms[t].idx
  OBVIOUS
<1>5. del' = Append(outer, [fn |-> read_fnode(sb.fmap, disk, g, y), bit |-> y])
  BY <1>2
<1> HIDE DEF y
<1>6. /\ GoodDisk(e, sb) /\ self(f) = self(disk[x])
      /\ y \in FIdx /\ Child(disk, x, y) /\ Dropped(disk, e, x, y) /\ Orphan(e, sb.fmap, y)
      /\ KeepsWith(disk, e, y) /\ StayCut(disk, e, sb.fmap, y) /\ Stores(disk, e, x, f)
  BY <1>3, <1>4, FolderDeleted
<1>7. read_fnode(sb.fmap, disk, g, y) = disk[y] /\ disk[y] \in Node
  BY <1>6, SelfHere DEF read_fnode, Orphan
<1>8. f \in Node
  BY <1>1, DropTyped
<1>9. After(disk, todo') = e
  <2> DEFINE u == write_fnode(f, x)
  <2>1. u \in NodeWrite /\ todo' = <<u>>
    BY <1>1, <1>2, <1>8 DEF write_fnode, NodeWrite
  <2>2. e = Put(disk, u)
    OBVIOUS
  <2> HIDE DEF u
  <2> QED
    BY <2>1, <2>2, AfterOne
<1> QED
  BY <1>1, <1>5, <1>6, <1>7, <1>8, <1>9 DEF Entering

\* PSV_delete_folder.
LEMMA DeleteFolderCalm ==
  ASSUME Typed, Calm, NEW n, DeleteFolder(n)
  PROVE  Calm'
<1>1. CASE Walking /\ Fails
  BY <1>1, WalkCalm
<1>2. ASSUME Walking, Enter(cf, n, <<>>), cf' = delete_fterm(cf, n), UNCHANGED <<sb, disk, origin>>
      PROVE  Calm'
  <2> DEFINE x == self(cf)  f == delete_fterm(disk[x], n)  e == Put(disk, write_fnode(f, x))
  <2>1. GoodDisk(disk, sb) /\ Reach(disk, {}, x) /\ cf = disk[x] /\ Reach(disk, {}, origin)
    BY <1>2, Resting
  <2>2. x \in sb.fmap /\ x \in FIdx /\ Branches(disk, sb.fmap)
    BY <2>1, NodeHere
  <2>3. /\ Enter(disk[x], n, <<>>) /\ f = delete_fterm(disk[x], n) /\ e = Put(disk, write_fnode(f, x))
        /\ cf' = f
    BY <1>2, <2>1
  <2> HIDE DEF x, f, e
  <2>0. PICK y \in FIdx : Entering(x, y, f, e, <<>>)
    BY <2>1, <2>2, <2>3, Entered
  <2>4. /\ After(disk, todo') = e /\ GoodDisk(e, sb) /\ f \in Node /\ self(f) = x /\ x \in FIdx
        /\ Child(disk, x, y) /\ Dropped(disk, e, x, y) /\ Orphan(e, sb.fmap, y)
        /\ KeepsWith(disk, e, y) /\ StayCut(disk, e, sb.fmap, y) /\ Stores(disk, e, x, f)
        /\ del' = Append(<<>>, [fn |-> disk[y], bit |-> y]) /\ disk[y] \in Node
    BY <2>0 DEF Entering
  <2>5. Reach(e, {}, x)
    BY <2>1, <2>2, <2>4, DropHere
  <2>6. Current(e, f)
    BY <2>4, <2>5 DEF Current, Stores
  <2>7. x # y
    BY <2>1, <2>2, <2>4, NotOwnChild
  <2> DEFINE a == [fn |-> disk[y], bit |-> y]
  <2>8. a \in Activation /\ a.bit = y /\ e[a.bit] = a.fn
    BY <2>4, <2>7 DEF Activation, Stores
  <2> DEFINE none == <<>>
  <2>9. del' = Append(none, a) /\ none \in Seq(Activation) /\ Cut(e, sb, none) /\ Bits(none) = {}
    BY <2>4, NoActivation
  <2> HIDE DEF a, none
  <2>10. Cut(e, sb, del') /\ Bits(del') = {} \cup {y} /\ del' # <<>>
    BY <2>4, <2>8, <2>9, CutMore, Appended
  <2>11. Original(e, sb, origin, del')
    BY <2>1, <2>4, <2>10 DEF Original, KeepsWith
  <2>12. Good(e, sb', cf', origin', del')
    BY <1>2, <2>3, <2>4, <2>6, <2>10, <2>11 DEF Good
  <2>13. ~Walking'
    BY <2>10 DEF Walking
  <2>14. After(disk', todo') = e
    BY <1>2, <2>4
  <2> QED
    BY <2>12, <2>13, <2>14 DEF Calm
<1> QED
  BY <1>1, <1>2 DEF DeleteFolder

\* Of an activation under way.
LEMMA Innermost ==
  ASSUME Typed, Calm, Deleting
  PROVE  /\ todo = <<>> /\ del \in Seq(Activation) /\ del # <<>>
         /\ GoodDisk(disk, sb) /\ Current(disk, cf) /\ Cut(disk, sb, del) /\ Original(disk, sb, origin, del)
         /\ Inner.bit \in sb.fmap /\ Inner.bit \in FIdx /\ Inner.fn = disk[Inner.bit]
         /\ Inner = del[Len(del)] /\ Len(del) \in DOMAIN del
         /\ Orphan(disk, sb.fmap, Inner.bit) /\ Inner.bit \in Bits(del)
         /\ Branches(disk, sb.fmap)
<1>1. todo = <<>> /\ del # <<>> /\ del \in Seq(Activation)
  BY DEF Deleting, Typed
<1>2. Good(disk, sb, cf, origin, del)
  BY <1>1, NothingToWrite DEF Calm
<1>3. Inner = del[Len(del)] /\ Len(del) \in DOMAIN del
  BY <1>1, InnerOuter
<1>4. Inner.fn = disk[Inner.bit] /\ Inner.bit \in FIdx /\ Orphan(disk, sb.fmap, Inner.bit)
  BY <1>2, <1>3 DEF Good, Cut
<1>5. Branches(disk, sb.fmap)
  BY <1>2, GoodBranches DEF Good, GoodDisk
<1>6. Inner.bit \in sb.fmap /\ Inner.bit \in Bits(del)
  BY <1>3, <1>4 DEF Bits, Orphan
<1> QED
  BY <1>1, <1>2, <1>3, <1>4, <1>5, <1>6 DEF Good

\* A file of the folder under deletion goes.
LEMMA DeleteNextFileCalm ==
  ASSUME Typed, Calm, DeleteNextFile
  PROVE  Calm'
<1> DEFINE x == Inner.bit
<1>1. Deleting /\ UNCHANGED <<cf, disk, origin>>
  BY DEF DeleteNextFile
<1>2. /\ del \in Seq(Activation) /\ del # <<>> /\ x \in sb.fmap /\ Inner.fn = disk[x]
      /\ GoodDisk(disk, sb) /\ Current(disk, cf) /\ Cut(disk, sb, del) /\ Original(disk, sb, origin, del)
      /\ Orphan(disk, sb.fmap, x) /\ Branches(disk, sb.fmap) /\ x = del[Len(del)].bit
  BY <1>1, Innermost
<1>3. PICK s \in ISlot, t \in ISlot :
         LET terms == Inner.fn.iterms
             fn == delete_iterm(Inner.fn, terms[s].name)
         IN  /\ IsDeleted(t, terms, ISlot, terms[s].name)
             /\ sb' = [sb EXCEPT !.imap = clear_bitmap(@, terms[t].idx)]
             /\ todo' = FileWrites(fn)
             /\ del' = [del EXCEPT ![Len(del)].fn = fn]
  BY DEF DeleteNextFile
<1> DEFINE n == disk[x].iterms[s].name  f == delete_iterm(disk[x], n)
           e == Put(Put(disk, write_fnode(f, x)), [blk |-> SB, data |-> sb'])
<1>4. t \in Matches(disk[x].iterms, ISlot, n)
  BY <1>2, <1>3 DEF IsDeleted
<1>5. /\ f = delete_iterm(disk[x], n) /\ todo' = FileWrites(f)
      /\ sb' = [sb EXCEPT !.imap = clear_bitmap(@, disk[x].iterms[t].idx)]
      /\ e = Put(Put(disk, write_fnode(f, x)), [blk |-> SB, data |-> sb'])
  BY <1>2, <1>3
<1>0. del' = [del EXCEPT ![Len(del)].fn = f]
  BY <1>2, <1>3
<1> HIDE DEF x, n, f, e
<1>6. /\ After(disk, todo') = e /\ GoodDisk(e, sb') /\ sb'.fmap = sb.fmap /\ self(f) = x
      /\ Keeps(disk, e) /\ SameTree(disk, e) /\ Stores(disk, e, x, f)
  <2>1. GoodDisk(disk, sb) /\ x \in sb.fmap
    BY <1>2
  <2> QED
    BY <1>4, <1>5, <2>1, FileWritten
<1>7. disk[x] \in Node
  BY <1>2, SelfHere
<1>8. f \in Node
  BY <1>5, <1>7, DropTyped
<1>9. Swapped(del, del', f)
  BY <1>0, <1>2, <1>8, OuterSwapped
<1>10. \A a \in Bits(del) : Orphan(e, sb'.fmap, a)
  <2>1. \A a \in Bits(del) : Orphan(disk, sb.fmap, a)
    BY <1>2 DEF Bits, Cut
  <2>2. sb.fmap \subseteq FIdx
    BY <1>2 DEF Branches
  <2> QED
    BY <1>6, <2>1, <2>2 DEF Orphan, SameTree
<1>11. Cut(e, sb', del') /\ Bits(del') = Bits(del)
  BY <1>2, <1>6, <1>9, <1>10, CutSwap
<1>12. Original(e, sb', origin', del')
  BY <1>1, <1>2, <1>6, <1>11 DEF Original, Keeps
<1>13. Current(e, cf')
  <2>1. self(cf) # x
    BY <1>2, ReachedUsed DEF Current
  <2> QED
    BY <1>1, <1>2, <1>6, <2>1 DEF Current, Keeps, Stores
<1>14. Good(e, sb', cf', origin', del')
  BY <1>6, <1>11, <1>12, <1>13 DEF Good
<1>15. ~Walking'
  BY <1>2, <1>9 DEF Walking, Swapped
<1>16. After(disk', todo') = e
  BY <1>1, <1>6
<1> QED
  BY <1>14, <1>15, <1>16 DEF Calm

\* A subfolder of it is entered, or refused.
LEMMA DeleteNextFolderCalm ==
  ASSUME Typed, Calm, DeleteNextFolder
  PROVE  Calm'
<1> DEFINE x == Inner.bit
<1>1. Deleting /\ UNCHANGED <<sb, cf, disk>>
  BY DEF DeleteNextFolder
<1>2. /\ del \in Seq(Activation) /\ del # <<>> /\ x \in sb.fmap /\ x \in FIdx /\ Inner.fn = disk[x]
      /\ GoodDisk(disk, sb) /\ Current(disk, cf) /\ Cut(disk, sb, del) /\ Original(disk, sb, origin, del)
      /\ Orphan(disk, sb.fmap, x) /\ Branches(disk, sb.fmap) /\ x = del[Len(del)].bit /\ todo = <<>>
  BY <1>1, Innermost
<1>3. CASE del' = <<>> /\ origin' = NoCall /\ todo' = todo
  <2>1. After(disk', todo') = disk
    BY <1>1, <1>2, <1>3, NothingToWrite
  <2>2. GoodDisk(disk, sb') /\ Current(disk, cf')
    BY <1>1, <1>2
  <2> QED
    BY <1>3, <2>1, <2>2, Settles
<1>4. ASSUME NEW n, origin' = origin,
             Enter(Inner.fn, n, Append(Outer, [Inner EXCEPT !.fn = delete_fterm(@, n)]))
      PROVE  Calm'
  <2> DEFINE f == delete_fterm(disk[x], n)  e == Put(disk, write_fnode(f, x))
             outer == Append(Outer, [Inner EXCEPT !.fn = f])
  <2>1. /\ Enter(disk[x], n, outer) /\ f = delete_fterm(disk[x], n) /\ e = Put(disk, write_fnode(f, x))
        /\ f \in Node
    BY <1>2, <1>4, SelfHere, DropTyped
  <2>2. Swapped(del, outer, f) /\ outer \in Seq(Activation)
    BY <1>2, <2>1, OuterSwapped
  <2> HIDE DEF x, f, e, outer
  <2>3. PICK y \in FIdx : Entering(x, y, f, e, outer)
    BY <1>2, <2>1, Entered
  <2>4. /\ After(disk, todo') = e /\ GoodDisk(e, sb) /\ self(f) = x
        /\ Child(disk, x, y) /\ Dropped(disk, e, x, y) /\ Orphan(e, sb.fmap, y)
        /\ KeepsWith(disk, e, y) /\ StayCut(disk, e, sb.fmap, y) /\ Stores(disk, e, x, f)
        /\ del' = Append(outer, [fn |-> disk[y], bit |-> y]) /\ disk[y] \in Node
    BY <2>3 DEF Entering
  <2>5. \A a \in Bits(del) : a # y /\ Orphan(e, sb.fmap, a)
    BY <1>2, <2>4 DEF Bits, Cut, StayCut
  <2>6. Cut(e, sb, outer) /\ Bits(outer) = Bits(del)
    BY <1>2, <2>2, <2>4, <2>5, CutSwap
  <2>7. x # y
    BY <1>2, <2>4 DEF StayCut
  <2> DEFINE a == [fn |-> disk[y], bit |-> y]
  <2>8. a \in Activation /\ a.bit = y /\ e[a.bit] = a.fn
    BY <2>4, <2>7 DEF Activation, Stores
  <2>9. del' = Append(outer, a) /\ a.bit \notin Bits(outer)
    BY <2>4, <2>5, <2>6
  <2> HIDE DEF a
  <2>10. Cut(e, sb, del') /\ Bits(del') = Bits(del) \cup {y} /\ del' # <<>>
    <3>1. Orphan(e, sb.fmap, a.bit)
      BY <2>4, <2>8
    <3>2. Cut(e, sb, del')
      BY <2>2, <2>6, <2>8, <2>9, <3>1, CutMore
    <3>4. Bits(del') = Bits(outer) \cup {a.bit}
      BY <2>2, <2>8, <2>9, Appended DEF Bits
    <3>3. del' # <<>>
      BY <2>2, <2>8, <2>9, Appended
    <3> QED
      BY <2>6, <2>8, <3>2, <3>3, <3>4
  <2>11. Original(e, sb, origin, del')
    BY <1>2, <2>4, <2>10 DEF Original, KeepsWith
  <2>12. Current(e, cf)
    <3>1. self(cf) # x
      BY <1>2, ReachedUsed DEF Current
    <3>2. Reach(e, {}, self(cf))
      BY <1>2, <2>4, DropElsewhere DEF Current
    <3> QED
      BY <1>2, <2>4, <3>1, <3>2 DEF Current, Stores
  <2>13. Good(e, sb', cf', origin', del')
    BY <1>1, <1>4, <2>4, <2>10, <2>11, <2>12 DEF Good
  <2>14. ~Walking'
    BY <2>10 DEF Walking
  <2>15. After(disk', todo') = e
    BY <1>1, <2>4
  <2> QED
    BY <2>13, <2>14, <2>15 DEF Calm
<1> QED
  BY <1>3, <1>4 DEF DeleteNextFolder

\* The folder is empty and its bit is cleared.
LEMMA DeleteEmptiedCalm ==
  ASSUME Typed, Calm, DeleteEmptied
  PROVE  Calm'
<1> DEFINE b == Inner.bit  e == Put(disk, [blk |-> SB, data |-> sb'])
<1>1. /\ Deleting /\ NoneUsed(Inner.fn.fterms, Sub) /\ disk' = disk
      /\ sb' = [sb EXCEPT !.fmap = clear_bitmap(@, b)] /\ todo' = << write_sb >> /\ del' = Outer
      /\ e = Put(disk, [blk |-> SB, data |-> sb'])
  BY DEF DeleteEmptied
<1>2. /\ del \in Seq(Activation) /\ del # <<>> /\ b \in sb.fmap /\ b \in FIdx /\ Inner.fn = disk[b]
      /\ GoodDisk(disk, sb) /\ Current(disk, cf) /\ Cut(disk, sb, del) /\ Original(disk, sb, origin, del)
      /\ Orphan(disk, sb.fmap, b) /\ b = del[Len(del)].bit /\ Len(del) \in DOMAIN del /\ sb.fmap \subseteq FIdx
  BY <1>1, Innermost DEF Branches
<1>3. /\ DOMAIN Outer = DOMAIN del \ {Len(del)} /\ \A k \in DOMAIN Outer : Outer[k] = del[k]
  BY <1>2, InnerOuter
<1> HIDE DEF b, e
<1>4. /\ GoodDisk(e, sb') /\ sb'.fmap = sb.fmap \ {b}
      /\ KeepsBut(disk, e, b) /\ ~Reach(disk, {}, b) /\ SameNodes(disk, e)
      /\ OthersCut(disk, e, sb.fmap, sb'.fmap, b)
  <2>1. NoneUsed(disk[b].fterms, Sub)
    BY <1>1, <1>2
  <2>2. /\ GoodDisk(disk, sb) /\ Orphan(disk, sb.fmap, b)
        /\ sb' = [sb EXCEPT !.fmap = clear_bitmap(@, b)] /\ e = Put(disk, [blk |-> SB, data |-> sb'])
    BY <1>1, <1>2
  <2>3. GoodDisk(e, sb')
    BY <2>1, <2>2, FolderFreed
  <2>6. sb'.fmap = sb.fmap \ {b}
    BY <2>2, BitsTyped DEF GoodDisk
  <2>4. KeepsBut(disk, e, b) /\ ~Reach(disk, {}, b) /\ SameNodes(disk, e)
    BY <2>1, <2>2, FolderFreed
  <2>5. OthersCut(disk, e, sb.fmap, sb'.fmap, b)
    BY <2>1, <2>2, FolderFreed
  <2> QED
    BY <2>3, <2>4, <2>5, <2>6
<1>5. After(disk', todo') = e
  <2> DEFINE u == [blk |-> SB, data |-> sb']
  <2>1. u \in NodeWrite /\ todo' = <<u>>
    BY <1>1, <1>4 DEF write_sb, NodeWrite, GoodDisk
  <2>2. e = Put(disk, u)
    BY <1>1
  <2> HIDE DEF u
  <2> QED
    BY <1>1, <2>1, <2>2, AfterOne
<1>6. \A k \in DOMAIN Outer : Outer[k].bit # b /\ Outer[k].bit \in FIdx
  BY <1>2, <1>3 DEF Cut
<1>7. Cut(e, sb', Outer)
  <2>1. ASSUME NEW k \in DOMAIN Outer
        PROVE  Outer[k].bit \in FIdx /\ e[Outer[k].bit] = Outer[k].fn /\ Orphan(e, sb'.fmap, Outer[k].bit)
    <3>1. Outer[k] = del[k] /\ Outer[k].bit # b /\ Outer[k].bit \in FIdx
      BY <1>3, <1>6, <2>1
    <3>2. disk[Outer[k].bit] = Outer[k].fn /\ Orphan(disk, sb.fmap, Outer[k].bit)
      BY <1>2, <1>3, <2>1, <3>1 DEF Cut
    <3> QED
      BY <1>4, <3>1, <3>2 DEF SameNodes, OthersCut
  <2>2. \A j, k \in DOMAIN Outer : Outer[j].bit = Outer[k].bit => j = k
    BY <1>2, <1>3 DEF Cut
  <2> QED
    BY <2>1, <2>2 DEF Cut
<1>8. Bits(Outer) = Bits(del) \ {b}
  BY <1>2, <1>3, <1>6 DEF Bits
<1>9. Original(e, sb', origin, Outer)
  BY <1>2, <1>4, <1>8 DEF Original, KeepsBut
<1>10. Current(e, cf)
  <2>1. self(cf) # b /\ {} \ {b} = {}
    BY <1>2, <1>4 DEF Current
  <2>2. Reach(e, {}, self(cf))
    BY <1>2, <1>4, <2>1 DEF Current, KeepsBut
  <2> QED
    BY <1>2, <1>4, <2>2 DEF Current, SameNodes
<1>11. ASSUME Outer = <<>>, origin' = NoCall, cf' = read_fnode(sb'.fmap, disk, cf, origin) PROVE Calm'
  <2>1. CASE origin \in sb'.fmap
    <3>1. Bits(Outer) = {}
      BY <1>11, NoActivation
    <3>2. Reach(e, {}, origin)
      BY <1>9, <2>1, <3>1 DEF Original
    <3>3. Current(e, e[origin]) /\ origin \in FIdx
      BY <1>4, <3>2, NodeHere
    <3>4. cf' = e[origin]
      BY <1>4, <1>11, <2>1, <3>3 DEF read_fnode, SameNodes
    <3>5. Current(e, cf')
      BY <3>3, <3>4
    <3> QED
      BY <1>1, <1>4, <1>5, <1>11, <3>5, Settles
  <2>2. CASE origin \notin sb'.fmap
    <3>1. Current(e, cf')
      BY <1>10, <1>11, <2>2 DEF read_fnode
    <3> QED
      BY <1>1, <1>4, <1>5, <1>11, <3>1, Settles
  <2> QED
    BY <2>1, <2>2
<1>12. ASSUME Outer # <<>>, UNCHANGED <<origin, cf>> PROVE Calm'
  <2>1. Good(e, sb', cf', origin', del')
    BY <1>1, <1>4, <1>7, <1>9, <1>10, <1>12 DEF Good
  <2>2. ~Walking'
    BY <1>1, <1>12 DEF Walking
  <2> QED
    BY <1>5, <2>1, <2>2 DEF Calm
<1> QED
  BY <1>11, <1>12 DEF DeleteEmptied

-----------------------------------------------------------------------------
(* The invariant.                                                          *)

\* The calls that create.
LEMMA CreatesCalm ==
  ASSUME Typed, Calm
  PROVE  /\ \A n \in Names \cup Dots : CreateFolder(n) \/ CreateFile(n) => Calm'
         /\ CreateUnnamed => Calm'
<1>1. ASSUME NEW n \in Names \cup Dots, CreateFolder(n) \/ CreateFile(n) PROVE Calm'
  <2>1. Walking
    BY <1>1 DEF CreateFolder, CreateFile
  <2>2. /\ del = <<>> /\ GoodDisk(disk, sb) /\ Reach(disk, {}, self(cf)) /\ cf = disk[self(cf)]
        /\ Reach(disk, {}, origin)
    BY <2>1, Resting
  <2>3. n \in AnyName
    BY DEF AnyName
  <2>4. create_folder(cf, n, origin) \/ create_file(cf, n, origin)
    BY <1>1 DEF CreateFolder, CreateFile
  <2> QED
    BY <2>2, <2>3, <2>4, CreateCalm
<1>2. ASSUME CreateUnnamed PROVE Calm'
  <2>1. /\ del = <<>> /\ GoodDisk(disk, sb) /\ Reach(disk, {}, self(cf)) /\ cf = disk[self(cf)]
    BY <1>2, Resting DEF CreateUnnamed
  <2>2. PICK n \in Names \cup {""} :
          \/ create_file(cf, n, self(cf))
          \/ create_file(read_fnode(sb.fmap, disk, cf, ROOT_FOLDER_IDX), n, self(cf))
    BY <1>2 DEF CreateUnnamed
  <2>3. n \in AnyName
    BY DEF AnyName
  <2>4. Reach(disk, {}, ROOT_FOLDER_IDX) /\ read_fnode(sb.fmap, disk, cf, ROOT_FOLDER_IDX) = disk[ROOT_FOLDER_IDX]
    <3>1. Reach(disk, {}, ROOT_FOLDER_IDX)
      BY RootReach
    <3> QED
      <4>1. read_fnode(sb.fmap, disk, cf, ROOT_FOLDER_IDX) = disk[ROOT_FOLDER_IDX]
        <5>1. ROOT_FOLDER_IDX \in sb.fmap
          BY <2>1, <3>1, NodeHere
        <5> QED
          BY <5>1 DEF read_fnode
      <4> QED
        BY <3>1, <4>1
  <2>5. CASE create_file(cf, n, self(cf))
    BY <2>1, <2>3, <2>5, CreateCalm
  <2>6. CASE create_file(read_fnode(sb.fmap, disk, cf, ROOT_FOLDER_IDX), n, self(cf))
    BY <2>1, <2>3, <2>4, <2>6, CreateCalm
  <2> QED
    BY <2>2, <2>5, <2>6
<1> QED
  BY <1>1, <1>2

\* A write reaches the disk.
LEMMA WriteCalm ==
  ASSUME Typed, Calm, WriteNext
  PROVE  Calm'
<1>1. todo # <<>> /\ todo \in Seq(NodeWrite) /\ UNCHANGED <<sb, cf, del, origin>>
  BY DEF WriteNext, Typed
<1>2. After(disk', todo') = After(disk, todo)
  BY <1>1, HeadPut DEF WriteNext, Put
<1>3. ~Walking'
  BY <1>1 DEF Calm, Walking
<1> QED
  BY <1>1, <1>2, <1>3 DEF Calm

\* The disk that PSV_setup leaves is in order.
LEMMA InitCalm == Init => Calm
<1> SUFFICES ASSUME Init PROVE Calm
  OBVIOUS
<1>1. Typed
  BY InitTyped
<1>2. /\ sb = FreshSb /\ sb.fmap = {ROOT_FOLDER_IDX} /\ sb.imap = {} /\ cf = RootFnode
      /\ todo = <<>> /\ del = <<>> /\ origin = NoCall /\ sb \in SuperBlock
  BY <1>1 DEF Init, FreshSb, Typed
<1>3. After(disk, todo) = disk /\ disk \in Disks
  BY <1>1, <1>2, NothingToWrite
<1>4. disk[SB] = sb /\ disk[ROOT_FOLDER_IDX] = RootFnode
  BY <1>2, Limits DEF Init
<1> DEFINE terms == RootFnode.fterms
<1>5. /\ terms[SELF_IDX] = gen_term(".", ROOT_FOLDER_IDX)
      /\ \A s \in FSlot : s # SELF_IDX => ~terms[s].used
      /\ RootFnode.num_fterm = 1 /\ RootFnode.num_iterm = 0
      /\ \A s \in ISlot : ~RootFnode.iterms[s].used
  <2>1. ~NoTerm.used
    BY DEF NoTerm
  <2> QED
    BY <2>1, RootTyped, Limits
<1> HIDE DEF terms
<1>6. FolderTerms(terms, 1, ROOT_FOLDER_IDX)
  <2>1. Used(terms, FSlot) = {SELF_IDX}
    BY <1>5, TermIs, Limits DEF Used
  <2>2. Used(terms, Sub) = {}
    BY <1>5, Limits DEF Used
  <2>3. Cardinality({SELF_IDX}) = 1
    BY FS_Singleton
  <2> QED
    BY <1>5, <2>1, <2>2, <2>3 DEF FolderTerms
<1>7. \A j : ~Child(disk, ROOT_FOLDER_IDX, j)
  BY <1>4, <1>5, Limits DEF Child, Holds, terms
<1>8. FoldersGood(disk, sb.fmap)
  <2>1. FolderNode(disk, sb.fmap, ROOT_FOLDER_IDX)
    BY <1>4, <1>5, <1>6, <1>7 DEF FolderNode, IsParent, terms
  <2>2. ~disk[ROOT_FOLDER_IDX].fterms[PARENT_IDX].used
    BY <1>4, <1>5, Limits DEF terms
  <2> QED
    BY <1>2, <2>1, <2>2, Limits DEF FoldersGood
<1>9. FilesGood(disk, sb.fmap, sb.imap)
  <2>1. Used(disk[ROOT_FOLDER_IDX].iterms, ISlot) = {} /\ disk[ROOT_FOLDER_IDX].num_iterm = 0
    BY <1>4, <1>5 DEF Used
  <2> QED
    BY <1>2, <2>1, FS_EmptySet DEF FilesGood, FileTerms
<1>10. GoodDisk(disk, sb)
  BY <1>2, <1>3, <1>4, <1>8, <1>9 DEF GoodDisk
<1>11. Current(disk, cf)
  <2>1. Reach(disk, {}, ROOT_FOLDER_IDX)
    BY RootReach
  <2>2. cf = disk[ROOT_FOLDER_IDX]
    BY <1>2, <1>4
  <2> QED
    BY <1>10, <2>1, <2>2, NodeHere
<1>12. Original(disk, sb, origin, del) /\ Cut(disk, sb, del)
  BY <1>2, NoActivation, NoOriginal
<1> QED
  BY <1>2, <1>3, <1>10, <1>11, <1>12 DEF Calm, Good, Walking

\* While no power has been lost, the disk after the writes still to do is in
\* order, and the kernel's copies with it.
IInv == Typed /\ (crashes = 0 => Calm)

\* Every step leaves it in order, unless the power is lost.
LEMMA StepCalm == IInv /\ [Next]_vars => IInv'
<1> SUFFICES ASSUME IInv, [Next]_vars PROVE IInv'
  OBVIOUS
<1>1. Typed /\ Typed'
  BY StepTyped DEF IInv
<1>2. CASE Crash
  <2>1. crashes' # 0
    BY <1>1, <1>2 DEF Crash, Typed
  <2> QED
    BY <1>1, <2>1 DEF IInv
<1>3. ASSUME crashes' = crashes, Calm => Calm' PROVE IInv'
  BY <1>1, <1>3 DEF IInv
<1>4. CASE Begin \/ Goin \/ Lookup
  BY <1>1, <1>3, <1>4, WalkCalm DEF Begin, Goin, Lookup
<1>5. CASE CreateUnnamed
  <2>1. crashes' = crashes
    BY <1>5 DEF CreateUnnamed, create_file, Return
  <2> QED
    BY <1>1, <1>3, <1>5, <2>1, CreatesCalm
<1>6. ASSUME NEW n \in Names \cup Dots, Call(n) PROVE IInv'
  <2>1. CASE WalkInto(n) \/ WalkFails(n)
    BY <1>1, <1>3, <2>1, WalkCalm DEF WalkInto, WalkFails
  <2>2. CASE CreateFolder(n) \/ CreateFile(n)
    <3>1. crashes' = crashes
      BY <2>2 DEF CreateFolder, CreateFile, create_folder, create_file, Return
    <3> QED
      BY <1>1, <1>3, <1>6, <2>2, <3>1, CreatesCalm
  <2>3. CASE DeleteFile(n)
    BY <1>1, <1>3, <2>3, DeleteFileCalm DEF DeleteFile, Fails
  <2>4. CASE DeleteFolder(n)
    BY <1>1, <1>3, <2>4, DeleteFolderCalm DEF DeleteFolder, Fails
  <2> QED
    BY <1>6, <2>1, <2>2, <2>3, <2>4 DEF Call
<1>7. CASE DeleteNextFile
  BY <1>1, <1>3, <1>7, DeleteNextFileCalm DEF DeleteNextFile
<1>8. CASE DeleteNextFolder
  BY <1>1, <1>3, <1>8, DeleteNextFolderCalm DEF DeleteNextFolder
<1>9. CASE DeleteEmptied
  BY <1>1, <1>3, <1>9, DeleteEmptiedCalm DEF DeleteEmptied
<1>10. CASE WriteNext
  BY <1>1, <1>3, <1>10, WriteCalm DEF WriteNext
<1>11. CASE UNCHANGED vars
  <2>1. UNCHANGED <<sb, cf, disk, todo, del, origin, crashes>>
    BY <1>11 DEF vars
  <2>2. Calm => Calm'
    BY <2>1 DEF Calm, Walking
  <2> QED
    BY <1>3, <2>1, <2>2
<1> QED
  BY <1>2, <1>4, <1>5, <1>6, <1>7, <1>8, <1>9, <1>10, <1>11 DEF Next

\* It is an invariant.
LEMMA IInvInvariant == Spec => []IInv
<1>1. Init => IInv
  BY InitTyped, InitCalm DEF IInv
<1> QED
  BY <1>1, StepCalm, PTL DEF Spec

-----------------------------------------------------------------------------
(* What it means between the calls.                                        *)

\* Between the calls the disk is in order as it is.
LEMMA AtRest ==
  ASSUME IInv, Settled
  PROVE  GoodDisk(disk, sb) /\ Current(disk, cf) /\ Typed
<1>1. Typed /\ Calm /\ todo = <<>>
  BY DEF IInv, Settled
<1>2. Good(disk, sb, cf, origin, del)
  BY <1>1, NothingToWrite DEF Calm
<1> QED
  BY <1>1, <1>2 DEF Good

\* For any number of nodes, terms and names, while no power is lost: between the
\* calls every file's bit is set and no two names lead to one inode.
THEOREM FilesCorrect == Spec => []FilesSound
<1>1. IInv => FilesSound
  <2> SUFFICES ASSUME IInv, Settled
               PROVE  /\ \A i \in sb.fmap : \A s \in UsedItems(i) : disk[i].iterms[s].idx \in sb.imap
                      /\ \A i, j \in sb.fmap : \A s \in UsedItems(i), t \in UsedItems(j) :
                           disk[i].iterms[s].idx = disk[j].iterms[t].idx => i = j /\ s = t
    BY DEF FilesSound
  <2>1. FilesGood(disk, sb.fmap, sb.imap)
    BY AtRest DEF GoodDisk
  <2>2. \A i : UsedItems(i) = Used(disk[i].iterms, ISlot)
    BY DEF UsedItems, Used
  <2> QED
    BY <2>1, <2>2 DEF FilesGood, FileTerms
<1> QED
  BY <1>1, IInvInvariant, PTL

-----------------------------------------------------------------------------
(* The levels of the tree.                                                 *)

\* The folder of the term s of the folder e, and the folders one level below
\* those of S.
Entry(e, s) == <<Append(e[1], disk[e[2]].fterms[s].name), disk[e[2]].fterms[s].idx>>
Below(S) == UNION {{Entry(e, s) : s \in UsedSubs(e[2])} : e \in S}

Depth == 0 .. FNODE_NUM_LIM
Top == << <<>>, ROOT_FOLDER_IDX >>
Places == Seq(AnyName) \X FIdx

\* The root has the empty path.
LEMMA TopIs == Top \in Places /\ Top[1] = <<>> /\ Len(Top[1]) = 0 /\ Top[2] = ROOT_FOLDER_IDX
<1>1. <<>> \in Seq(AnyName) /\ Len(<<>>) = 0
  OBVIOUS
<1> QED
  BY <1>1, Limits DEF Top, Places

\* A term's folder is a subfolder, its path one name longer.
LEMMA EntryIs ==
  ASSUME disk \in Disks, NEW e \in Places, NEW s \in UsedSubs(e[2])
  PROVE  /\ Entry(e, s) \in Places /\ s \in FSlot /\ s \in Sub
         /\ Len(Entry(e, s)[1]) = Len(e[1]) + 1 /\ Len(e[1]) \in Nat
         /\ Entry(e, s)[2] = disk[e[2]].fterms[s].idx
         /\ Child(disk, e[2], Entry(e, s)[2])
<1>1. e[2] \in FIdx /\ e[1] \in Seq(AnyName) /\ s \in FSlot /\ s \in Sub /\ disk[e[2]].fterms[s].used
  BY Limits DEF UsedSubs, Places
<1> DEFINE t == disk[e[2]].fterms[s]
<1>2. t.name \in AnyName /\ t.idx \in FIdx
  BY <1>1, PartsOfNode DEF Disks, FolderTerm
<1>3. Entry(e, s) = <<Append(e[1], t.name), t.idx>>
  BY DEF Entry
<1>4. Child(disk, e[2], t.idx)
  BY <1>1 DEF Child, Holds
<1> HIDE DEF t
<1>5. /\ Append(e[1], t.name) \in Seq(AnyName) /\ Len(Append(e[1], t.name)) = Len(e[1]) + 1
      /\ Len(e[1]) \in Nat
  BY <1>1, <1>2
<1>6. Entry(e, s) \in Places /\ Entry(e, s)[1] = Append(e[1], t.name) /\ Entry(e, s)[2] = t.idx
  <2> DEFINE q == Append(e[1], t.name)  A == Seq(AnyName)
  <2>1. Entry(e, s) = <<q, t.idx>> /\ q \in A /\ t.idx \in FIdx /\ Places = A \X FIdx
    BY <1>2, <1>3, <1>5 DEF Places
  <2>2. q = Append(e[1], t.name)
    OBVIOUS
  <2> HIDE DEF q, A
  <2>3. Entry(e, s) \in Places /\ Entry(e, s)[1] = q /\ Entry(e, s)[2] = t.idx
    BY <2>1
  <2> QED
    BY <2>2, <2>3
<1> QED
  BY <1>1, <1>4, <1>5, <1>6 DEF t

\* FoldersAt is what its recursion says: every level has a set of folders.
LEMMA Levels ==
  ASSUME disk \in Disks
  PROVE  \A k \in Depth : FoldersAt[k] = IF k = 0 THEN {Top} ELSE Below(FoldersAt[k - 1])
<1> DEFINE X == SUBSET Places
           G == [n \in 1 .. FNODE_NUM_LIM |-> [S \in X |-> Below(S)]]
           F(f) == [k \in Depth |-> IF k = 0 THEN {Top} ELSE Below(f[k - 1])]
<1>1. ASSUME NEW S \in X PROVE Below(S) \in X
  <2>1. \A e \in S : \A s \in UsedSubs(e[2]) : Entry(e, s) \in Places
    BY <1>1, EntryIs
  <2> QED
    BY <2>1 DEF Below
<1>2. {Top} \in X
  BY TopIs
<1>3. G \in [1 .. FNODE_NUM_LIM -> [X -> X]]
  BY <1>1
<1>4. FNODE_NUM_LIM \in Nat
  BY Limits
<1>5. PICK r \in [0 .. FNODE_NUM_LIM -> X] : IsLoop(r, FNODE_NUM_LIM, {Top}, G)
  <2> HIDE DEF X, G
  <2> QED
    BY <1>2, <1>3, <1>4, LoopExists
<1>6. r = F(r)
  <2>1. r = [n \in Depth |-> IF n = 0 THEN {Top} ELSE G[n][r[n - 1]]]
    BY <1>5 DEF IsLoop, Depth
  <2>2. ASSUME NEW n \in Depth, n # 0 PROVE G[n][r[n - 1]] = Below(r[n - 1])
    <3>1. n \in 1 .. FNODE_NUM_LIM /\ n - 1 \in 0 .. FNODE_NUM_LIM
      BY <1>4, <2>2 DEF Depth
    <3>2. r[n - 1] \in X
      BY <1>5, <3>1
    <3> HIDE DEF X
    <3> QED
      BY <3>1, <3>2
  <2> HIDE DEF G, X
  <2> QED
    BY <2>1, <2>2
<1>7. FoldersAt = CHOOSE f : f = F(f)
  BY Zenon DEF FoldersAt, Below, Entry, Top, Depth
<1> HIDE DEF F
<1>8. FoldersAt = F(FoldersAt)
  BY <1>6, <1>7, Zenon
<1> QED
  BY <1>8 DEF F

\* A level below the root's is made of the terms of the level above it.
LEMMA LevelBelow ==
  ASSUME disk \in Disks
  PROVE  /\ FoldersAt[0] = {Top}
         /\ \A k \in Nat : k + 1 \in Depth =>
              /\ k \in Depth
              /\ \A f : f \in FoldersAt[k + 1] <=>
                          \E e \in FoldersAt[k] : \E s \in UsedSubs(e[2]) : f = Entry(e, s)
<1>1. FNODE_NUM_LIM \in Nat /\ 0 \in Depth
  BY Limits DEF Depth
<1>2. FoldersAt[0] = {Top}
  BY <1>1, Levels
<1>3. ASSUME NEW k \in Nat, k + 1 \in Depth
      PROVE  /\ k \in Depth
             /\ \A f : f \in FoldersAt[k + 1] <=>
                         \E e \in FoldersAt[k] : \E s \in UsedSubs(e[2]) : f = Entry(e, s)
  <2>1. k \in Depth /\ k + 1 # 0 /\ (k + 1) - 1 = k
    BY <1>1, <1>3 DEF Depth
  <2>2. FoldersAt[k + 1] = Below(FoldersAt[k])
    BY <1>3, <2>1, Levels
  <2> QED
    BY <2>1, <2>2 DEF Below
<1> QED
  BY <1>2, <1>3

\* On level k the paths have k names.
LEMMA LevelTyped ==
  ASSUME disk \in Disks
  PROVE  \A k \in Depth : \A e \in FoldersAt[k] : e \in Places /\ Len(e[1]) = k
<1> DEFINE T == {k \in Nat : k \in Depth => \A e \in FoldersAt[k] : e \in Places /\ Len(e[1]) = k}
<1>1. 0 \in T
  BY LevelBelow, TopIs
<1>2. ASSUME NEW k \in Nat, k \in T PROVE k + 1 \in T
  <2> SUFFICES ASSUME k + 1 \in Depth, NEW f \in FoldersAt[k + 1]
               PROVE  f \in Places /\ Len(f[1]) = k + 1
    OBVIOUS
  <2>1. k \in Depth /\ \E e \in FoldersAt[k] : \E s \in UsedSubs(e[2]) : f = Entry(e, s)
    BY LevelBelow
  <2>2. PICK e \in FoldersAt[k] : \E s \in UsedSubs(e[2]) : f = Entry(e, s)
    BY <2>1
  <2>3. e \in Places /\ Len(e[1]) = k
    BY <1>2, <2>1
  <2> QED
    BY <2>2, <2>3, EntryIs
<1> HIDE DEF T
<1>3. Nat \subseteq T
  BY <1>1, <1>2, Induction
<1>4. Depth \subseteq Nat
  BY Limits DEF Depth
<1> QED
  BY <1>3, <1>4 DEF T

\* Every folder of a level is in use.
LEMMA LevelUsed ==
  ASSUME disk \in Disks, NEW F, Branches(disk, F)
  PROVE  \A k \in Depth : \A e \in FoldersAt[k] : e[2] \in F
<1> DEFINE T == {k \in Nat : k \in Depth => \A e \in FoldersAt[k] : e[2] \in F}
<1>1. 0 \in T
  BY LevelBelow, TopIs DEF Branches
<1>2. ASSUME NEW k \in Nat, k \in T PROVE k + 1 \in T
  <2> SUFFICES ASSUME k + 1 \in Depth, NEW f \in FoldersAt[k + 1] PROVE f[2] \in F
    OBVIOUS
  <2>1. k \in Depth /\ \E e \in FoldersAt[k] : \E s \in UsedSubs(e[2]) : f = Entry(e, s)
    BY LevelBelow
  <2>2. PICK e \in FoldersAt[k] : \E s \in UsedSubs(e[2]) : f = Entry(e, s)
    BY <2>1
  <2>3. e \in Places /\ e[2] \in F
    BY <1>2, <2>1, LevelTyped
  <2>4. Child(disk, e[2], f[2]) /\ f[2] \in FIdx
    BY <2>2, <2>3, EntryIs DEF Places
  <2> QED
    BY <2>3, <2>4 DEF Branches
<1> HIDE DEF T
<1>3. Nat \subseteq T
  BY <1>1, <1>2, Induction
<1>4. Depth \subseteq Nat
  BY Limits DEF Depth
<1> QED
  BY <1>3, <1>4 DEF T

\* The folder node fn has a subfolder j under the name n; a file of the name n.
EdgeOf(fn, n, j) == \E s \in Sub : fn.fterms[s].used /\ fn.fterms[s].name = n /\ fn.fterms[s].idx = j
ItemOf(fn, n) == \E s \in ISlot : fn.iterms[s].used /\ fn.iterms[s].name = n

\* A tree in which no folder holds two subfolders under one name, or one under two.
Treelike(d, F) ==
  /\ Branches(d, F)
  /\ \A i \in F : \A m, n, j, k :
        EdgeOf(d[i], m, j) /\ EdgeOf(d[i], n, k) /\ (m = n \/ j = k) => m = n /\ j = k

\* A disk in order is such a tree.
LEMMA GoodTreelike ==
  ASSUME NEW d \in Disks, NEW F, FoldersGood(d, F)
  PROVE  Treelike(d, F)
<1>1. ASSUME NEW i \in F, NEW m, NEW n, NEW j, NEW k, EdgeOf(d[i], m, j), EdgeOf(d[i], n, k),
             m = n \/ j = k
      PROVE  m = n /\ j = k
  <2>1. \A s, t \in Used(d[i].fterms, Sub) :
          d[i].fterms[s].name = d[i].fterms[t].name \/ d[i].fterms[s].idx = d[i].fterms[t].idx => s = t
    BY DEF FoldersGood, FolderNode, FolderTerms
  <2>2. PICK s \in Used(d[i].fterms, Sub) : d[i].fterms[s].name = m /\ d[i].fterms[s].idx = j
    BY <1>1 DEF EdgeOf, Used
  <2>3. PICK t \in Used(d[i].fterms, Sub) : d[i].fterms[t].name = n /\ d[i].fterms[t].idx = k
    BY <1>1 DEF EdgeOf, Used
  <2> QED
    BY <1>1, <2>1, <2>2, <2>3
<1> QED
  BY <1>1, GoodBranches DEF Treelike

\* A node is on one level, under one path.
LEMMA OnePath ==
  ASSUME disk \in Disks, NEW F, Treelike(disk, F)
  PROVE  \A k, m \in Depth : \A e \in FoldersAt[k], f \in FoldersAt[m] : e[2] = f[2] => e = f
<1> DEFINE T == {k \in Nat : k \in Depth => \A m \in Depth : \A e \in FoldersAt[k], f \in FoldersAt[m] :
                                              e[2] = f[2] => e = f}
           IsBelow(e, f) == /\ \E s \in UsedSubs(e[2]) : f = Entry(e, s)
                            /\ e \in Places /\ e[2] \in F /\ f[2] \in FIdx \ {ROOT_FOLDER_IDX}
                            /\ Child(disk, e[2], f[2])
<1>1. Branches(disk, F)
  BY DEF Treelike
<1>2. ASSUME NEW m \in Depth, NEW f \in FoldersAt[m]
      PROVE  \/ m = 0 /\ f = Top
             \/ m - 1 \in Depth /\ \E e \in FoldersAt[m - 1] : IsBelow(e, f)
  <2>1. CASE m = 0
    BY <1>2, <2>1, LevelBelow
  <2>2. CASE m # 0
    <3>1. m - 1 \in Nat /\ (m - 1) + 1 = m
      BY <2>2, Limits DEF Depth
    <3>2. m - 1 \in Depth /\ \E e \in FoldersAt[m - 1] : \E s \in UsedSubs(e[2]) : f = Entry(e, s)
      BY <1>2, <3>1, LevelBelow
    <3>3. PICK e \in FoldersAt[m - 1] : \E s \in UsedSubs(e[2]) : f = Entry(e, s)
      BY <3>2
    <3>4. e \in Places /\ e[2] \in F
      BY <1>1, <3>2, LevelTyped, LevelUsed
    <3>5. Child(disk, e[2], f[2]) /\ f[2] \in FIdx
      BY <3>3, <3>4, EntryIs DEF Places
    <3>6. f[2] # ROOT_FOLDER_IDX
      BY <1>1, <3>4, <3>5 DEF Branches
    <3> QED
      BY <3>2, <3>3, <3>4, <3>5, <3>6
  <2> QED
    BY <2>1, <2>2
<1>3. 0 \in T
  <2> SUFFICES ASSUME NEW m \in Depth, NEW e \in FoldersAt[0], NEW f \in FoldersAt[m], e[2] = f[2]
               PROVE  e = f
    OBVIOUS
  <2>1. e = Top /\ f[2] = ROOT_FOLDER_IDX
    BY LevelBelow, TopIs
  <2> QED
    BY <1>2, <2>1
<1>4. ASSUME NEW k \in Nat, k \in T PROVE k + 1 \in T
  <2> SUFFICES ASSUME k + 1 \in Depth, NEW m \in Depth,
                      NEW e \in FoldersAt[k + 1], NEW f \in FoldersAt[m], e[2] = f[2]
               PROVE  e = f
    OBVIOUS
  <2>1. k + 1 # 0 /\ (k + 1) - 1 = k
    OBVIOUS
  <2>2. PICK p \in FoldersAt[k] : k \in Depth /\ IsBelow(p, e)
    BY <1>2, <2>1
  <2>3. f # Top
    BY <2>2, TopIs
  <2>4. PICK q \in FoldersAt[m - 1] : m - 1 \in Depth /\ IsBelow(q, f)
    BY <1>2, <2>3
  <2>5. p[2] = q[2]
    BY <1>1, <2>2, <2>4 DEF Branches
  <2>6. p = q
    BY <1>4, <2>2, <2>4, <2>5
  <2>7. PICK s \in UsedSubs(p[2]) : e = Entry(p, s)
    BY <2>2
  <2>8. PICK t \in UsedSubs(p[2]) : f = Entry(p, t)
    BY <2>4, <2>6
  <2>9. /\ e[2] = disk[p[2]].fterms[s].idx /\ f[2] = disk[p[2]].fterms[t].idx
        /\ disk[p[2]].fterms[s].used /\ disk[p[2]].fterms[t].used /\ s \in Sub /\ t \in Sub
    BY <2>2, <2>7, <2>8, EntryIs DEF UsedSubs
  <2>10. /\ EdgeOf(disk[p[2]], disk[p[2]].fterms[s].name, e[2])
         /\ EdgeOf(disk[p[2]], disk[p[2]].fterms[t].name, f[2])
    BY <2>9 DEF EdgeOf
  <2>11. disk[p[2]].fterms[s].name = disk[p[2]].fterms[t].name
    BY <2>2, <2>10 DEF Treelike
  <2> QED
    BY <2>7, <2>8, <2>9, <2>11 DEF Entry
<1> HIDE DEF T
<1>5. Nat \subseteq T
  BY <1>3, <1>4, Induction
<1>6. Depth \subseteq Nat
  BY Limits DEF Depth
<1> QED
  BY <1>5, <1>6 DEF T

\* There are fewer levels than there are nodes: the last is empty.
LEMMA LastLevel ==
  ASSUME disk \in Disks, NEW F, Treelike(disk, F)
  PROVE  FoldersAt[FNODE_NUM_LIM] = {}
<1> DEFINE N == FNODE_NUM_LIM
           T == {j \in Nat : j <= N => FoldersAt[N - j] # {}}
<1>1. N \in Nat /\ Depth = 0 .. N /\ FIdx = 0 .. N - 1
  BY Limits DEF Depth, FIdx
<1> SUFFICES ASSUME FoldersAt[N] # {} PROVE FALSE
  OBVIOUS
<1>2. \A k \in Depth : FoldersAt[k] # {}
  <2>1. 0 \in T
    BY <1>1
  <2>2. ASSUME NEW j \in Nat, j \in T PROVE j + 1 \in T
    <3> SUFFICES ASSUME j + 1 <= N PROVE FoldersAt[N - (j + 1)] # {}
      OBVIOUS
    <3>1. N - (j + 1) \in Nat /\ N - (j + 1) + 1 = N - j /\ N - j \in Depth /\ j <= N
      BY <1>1
    <3>2. PICK f : f \in FoldersAt[N - j]
      BY <2>2, <3>1
    <3> QED
      BY <3>1, <3>2, LevelBelow
  <2> HIDE DEF T
  <2>3. Nat \subseteq T
    BY <2>1, <2>2, Induction
  <2>4. ASSUME NEW k \in Depth PROVE FoldersAt[k] # {}
    <3>1. N - k \in Nat /\ N - k <= N /\ N - (N - k) = k
      BY <1>1, <2>4
    <3> QED
      BY <2>3, <3>1 DEF T
  <2> QED
    BY <2>4
<1> DEFINE at(k) == CHOOSE e : e \in FoldersAt[k]
           c == [k \in Depth |-> at(k)[2]]
<1>3. \A k \in Depth : at(k) \in FoldersAt[k] /\ at(k) \in Places /\ Len(at(k)[1]) = k
  BY <1>2, LevelTyped
<1> HIDE DEF at
<1>4. c \in [Depth -> FIdx]
  BY <1>3 DEF Places
<1>5. /\ IsFiniteSet(Depth) /\ IsFiniteSet(FIdx) /\ Cardinality(FIdx) < Cardinality(Depth)
  BY <1>1, FS_Interval
<1>6. PICK x \in Depth, y \in Depth : x # y /\ c[x] = c[y]
  <2> HIDE DEF c
  <2> QED
    BY <1>4, <1>5, FS_PigeonHole
<1>7. at(x) = at(y)
  BY <1>3, <1>6, OnePath
<1> QED
  BY <1>3, <1>6, <1>7

\* Every node that can be reached has a path.
LEMMA PathTo ==
  ASSUME disk \in Disks, NEW F, Treelike(disk, F), NEW p, Reach(disk, {}, p)
  PROVE  \E e \in FoldersOnDisk : e[2] = p
<1> DEFINE C == {e[2] : e \in FoldersOnDisk}
<1>1. \A e : e \in FoldersOnDisk <=> \E k \in Depth : e \in FoldersAt[k]
  BY DEF FoldersOnDisk, Depth
<1>2. \A e \in FoldersOnDisk : e \in Places
  BY <1>1, LevelTyped
<1>3. C \in SUBSET FIdx
  BY <1>2 DEF Places
<1>4. ROOT_FOLDER_IDX \in C
  <2>1. 0 \in Depth
    BY Limits DEF Depth
  <2>2. Top \in FoldersOnDisk
    BY <1>1, <2>1, LevelBelow
  <2> QED
    BY <2>2, TopIs
<1>5. ASSUME NEW i \in C, NEW j \in FIdx, Child(disk, i, j) PROVE j \in C
  <2>0. PICK k \in Depth : \E e \in FoldersAt[k] : e[2] = i
    BY <1>1
  <2>1. PICK e \in FoldersAt[k] : e[2] = i
    BY <2>0
  <2>2. k # FNODE_NUM_LIM
    BY <2>1, LastLevel
  <2>3. k \in Nat /\ k + 1 \in Depth
    BY <2>2, Limits DEF Depth
  <2>4. PICK s \in Sub : disk[i].fterms[s].used /\ disk[i].fterms[s].idx = j
    BY <1>5 DEF Child, Holds
  <2>5. s \in UsedSubs(e[2]) /\ e \in Places
    BY <2>1, <2>4, LevelTyped DEF UsedSubs
  <2>6. Entry(e, s) \in FoldersAt[k + 1]
    BY <2>1, <2>3, <2>5, LevelBelow
  <2>7. Entry(e, s)[2] = j
    BY <2>1, <2>4, <2>5, EntryIs
  <2> QED
    BY <1>1, <2>3, <2>6, <2>7
<1>6. Closed(disk, C)
  BY <1>4, <1>5 DEF Closed
<1>7. p \in C
  <2> HIDE DEF C
  <2> QED
    BY <1>3, <1>6 DEF Reach
<1> QED
  BY <1>7

-----------------------------------------------------------------------------
(* Between the calls.                                                      *)

\* For any number of nodes, terms and names, while no power is lost: between the
\* calls the kernel's super block and current folder are what the disk holds, and
\* the current folder has a path.
THEOREM CopiesCorrect == Spec => []CopiesAgree
<1>1. IInv => CopiesAgree
  <2> SUFFICES ASSUME IInv, Settled
               PROVE  /\ sb.fmap = disk[SB].fmap
                      /\ sb.imap = disk[SB].imap
                      /\ cf = disk[self(cf)]
                      /\ \E e \in FoldersOnDisk : e[2] = self(cf)
    BY DEF CopiesAgree
  <2>1. disk[SB] = sb /\ disk \in Disks /\ Treelike(disk, sb.fmap)
    BY AtRest, GoodTreelike DEF GoodDisk
  <2>2. cf = disk[self(cf)] /\ Reach(disk, {}, self(cf))
    BY AtRest DEF Current
  <2> QED
    BY <2>1, <2>2, PathTo
<1> QED
  BY <1>1, IInvInvariant, PTL

\* The same of the tree: every folder in use knows itself, counts its terms, and
\* is the ".." of its subfolders, whose bits are set; and a node has one path.
THEOREM FoldersCorrect == Spec => []FoldersSound
<1>1. IInv => FoldersSound
  <2> SUFFICES ASSUME IInv, Settled
               PROVE  /\ \A i \in sb.fmap :
                            /\ disk[i].fterms[SELF_IDX] = gen_term(".", i)
                            /\ disk[i].num_fterm = Cardinality({s \in FSlot : disk[i].fterms[s].used})
                            /\ disk[i].num_iterm = Cardinality(UsedItems(i))
                            /\ \A s \in UsedSubs(i) :
                                  LET j == disk[i].fterms[s].idx
                                  IN  j \in sb.fmap /\ disk[j].fterms[PARENT_IDX] = gen_term("..", i)
                      /\ \A e, f \in FoldersOnDisk : e[2] = f[2] => e = f
    BY DEF FoldersSound
  <2>1. disk \in Disks /\ FoldersGood(disk, sb.fmap) /\ FilesGood(disk, sb.fmap, sb.imap)
    BY AtRest DEF GoodDisk
  <2>2. ASSUME NEW i \in sb.fmap
        PROVE  /\ disk[i].fterms[SELF_IDX] = gen_term(".", i)
               /\ disk[i].num_fterm = Cardinality({s \in FSlot : disk[i].fterms[s].used})
    BY <2>1, <2>2 DEF FoldersGood, FolderNode, FolderTerms, Used
  <2>3. ASSUME NEW i \in sb.fmap PROVE disk[i].num_iterm = Cardinality(UsedItems(i))
    BY <2>1, <2>3 DEF FilesGood, FileTerms, Used, UsedItems
  <2>4. ASSUME NEW i \in sb.fmap, NEW s \in UsedSubs(i), NEW j, j = disk[i].fterms[s].idx
        PROVE  j \in sb.fmap /\ disk[j].fterms[PARENT_IDX] = gen_term("..", i)
    <3>1. i \in FIdx /\ s \in FSlot /\ s \in Sub /\ disk[i].fterms[s].used
      BY <2>1, <2>4, Limits DEF FoldersGood, UsedSubs
    <3>2. j \in FIdx
      BY <2>1, <2>4, <3>1, PartsOfNode DEF Disks, FolderTerm
    <3>3. Child(disk, i, j)
      BY <2>4, <3>1 DEF Child, Holds
    <3> QED
      BY <2>1, <2>4, <3>2, <3>3 DEF FoldersGood, FolderNode, IsParent
  <2>5. \A e, f \in FoldersOnDisk : e[2] = f[2] => e = f
    <3>1. \A e : e \in FoldersOnDisk <=> \E k \in Depth : e \in FoldersAt[k]
      BY DEF FoldersOnDisk, Depth
    <3> QED
      BY <2>1, <3>1, OnePath, GoodTreelike
  <2> QED
    BY <2>2, <2>3, <2>4, <2>5
<1> QED
  BY <1>1, IInvInvariant, PTL

-----------------------------------------------------------------------------
(* Paths.                                                                  *)

\* A path with one name more.
LEMMA Appends ==
  ASSUME NEW S, NEW p \in Seq(S), NEW n \in S
  PROVE  /\ Append(p, n) \in Seq(S) /\ Append(p, n) # <<>>
         /\ Tree!Front(Append(p, n)) = p /\ Tree!Last(Append(p, n)) = n
<1> DEFINE q == Append(p, n)
<1>1. q \in Seq(S) /\ q # <<>> /\ Len(q) = Len(p) + 1 /\ Len(p) \in Nat
  OBVIOUS
<1>2. q[Len(p) + 1] = n /\ \A i \in 1 .. Len(p) : q[i] = p[i]
  OBVIOUS
<1>3. SubSeq(q, 1, Len(p)) = p
  OBVIOUS
<1> HIDE DEF q
<1>4. Tree!Front(q) = p /\ Tree!Last(q) = n
  BY <1>1, <1>2, <1>3 DEF Tree!Front, Tree!Last
<1> QED
  BY <1>1, <1>4 DEF q

\* A path one name longer is so in one way.
LEMMA SameAppend ==
  ASSUME NEW S, NEW p \in Seq(S), NEW n \in S, NEW q \in Seq(S), NEW m \in S,
         Append(p, n) = Append(q, m)
  PROVE  p = q /\ n = m
BY Appends

\* A prefix, place by place.
LEMMA PrefixIs ==
  ASSUME NEW S, NEW p \in Seq(S), NEW q \in Seq(S)
  PROVE  Tree!IsPrefix(p, q) <=> Len(p) <= Len(q) /\ \A i \in 1 .. Len(p) : p[i] = q[i]
<1>1. SubSeq(p, 1, Len(p)) = p
  OBVIOUS
<1>2. ASSUME Len(p) <= Len(q)
      PROVE  /\ SubSeq(q, 1, Len(p)) \in Seq(S) /\ Len(SubSeq(q, 1, Len(p))) = Len(p)
             /\ \A i \in 1 .. Len(p) : SubSeq(q, 1, Len(p))[i] = q[i]
  BY <1>2
<1>3. ASSUME Len(p) <= Len(q)
      PROVE  p = SubSeq(q, 1, Len(p)) <=> \A i \in 1 .. Len(p) : p[i] = q[i]
  <2> DEFINE r == SubSeq(q, 1, Len(p))
  <2>1. r \in Seq(S) /\ Len(r) = Len(p) /\ \A i \in 1 .. Len(p) : r[i] = q[i]
    BY <1>2, <1>3
  <2> HIDE DEF r
  <2>2. p = r <=> \A i \in 1 .. Len(p) : p[i] = q[i]
    BY <2>1
  <2> QED
    BY <2>2 DEF r
<1> QED
  BY <1>1, <1>3 DEF Tree!IsPrefix

\* The prefixes of a path one name longer.
LEMMA Prefixes ==
  ASSUME NEW S, NEW p \in Seq(S), NEW q \in Seq(S), NEW n \in S
  PROVE  /\ Tree!IsPrefix(p, p)
         /\ p # <<>> => ~Tree!IsPrefix(p, <<>>)
         /\ Tree!IsPrefix(p, Append(q, n)) <=> Tree!IsPrefix(p, q) \/ p = Append(q, n)
         /\ Tree!IsStrictPrefix(p, Append(q, n)) <=> Tree!IsPrefix(p, q)
<1> DEFINE r == Append(q, n)
<1>1. r \in Seq(S) /\ Len(r) = Len(q) + 1 /\ Len(q) \in Nat /\ Len(p) \in Nat
  OBVIOUS
<1>2. r[Len(r)] = n /\ \A i \in 1 .. Len(q) : r[i] = q[i]
  OBVIOUS
<1>3. r = Append(q, n)
  OBVIOUS
<1> HIDE DEF r
<1>4. Tree!IsPrefix(p, p)
  BY PrefixIs, <1>1
<1>5. p # <<>> => ~Tree!IsPrefix(p, <<>>)
  <2> DEFINE none == <<>>
  <2>1. none \in Seq(S) /\ Len(none) = 0 /\ (p # none => Len(p) # 0)
    OBVIOUS
  <2> HIDE DEF none
  <2>2. p # none => ~Tree!IsPrefix(p, none)
    <3> SUFFICES ASSUME p # none, Tree!IsPrefix(p, none) PROVE FALSE
      OBVIOUS
    <3>1. Len(p) <= Len(none)
      BY <2>1, PrefixIs
    <3> QED
      BY <1>1, <2>1, <3>1
  <2> QED
    BY <2>2 DEF none
<1>6. Tree!IsPrefix(p, q) => Tree!IsPrefix(p, r) /\ p # r
  <2> SUFFICES ASSUME Tree!IsPrefix(p, q) PROVE Tree!IsPrefix(p, r) /\ p # r
    OBVIOUS
  <2>1. Len(p) <= Len(q) /\ \A i \in 1 .. Len(p) : p[i] = q[i]
    BY PrefixIs
  <2>2. Len(p) <= Len(r) /\ \A i \in 1 .. Len(p) : p[i] = r[i]
    BY <1>1, <1>2, <2>1
  <2> QED
    BY <1>1, <2>1, <2>2, PrefixIs
<1>7. ASSUME Tree!IsPrefix(p, r), p # r PROVE Tree!IsPrefix(p, q)
  <2>1. Len(p) <= Len(r) /\ \A i \in 1 .. Len(p) : p[i] = r[i]
    BY <1>1, <1>7, PrefixIs
  <2>2. Len(p) # Len(r)
    BY <1>1, <1>7, <2>1
  <2>3. Len(p) <= Len(q) /\ \A i \in 1 .. Len(p) : p[i] = q[i]
    BY <1>1, <1>2, <2>1, <2>2
  <2> QED
    BY <2>3, PrefixIs
<1>8. Tree!IsPrefix(r, r)
  BY <1>1, PrefixIs
<1>9. Tree!IsPrefix(p, r) <=> Tree!IsPrefix(p, q) \/ p = r
  BY <1>6, <1>7, <1>8
<1>10. Tree!IsStrictPrefix(p, r) <=> Tree!IsPrefix(p, q)
  BY <1>6, <1>7 DEF Tree!IsStrictPrefix
<1> QED
  BY <1>3, <1>4, <1>5, <1>9, <1>10

-----------------------------------------------------------------------------
(* The paths of a disk d.                                                  *)

Paths == Seq(AnyName)
RootPath == <<>>
Under(p, n) == Append(p, n)

\* A path one name longer is not the root's, and is so in one way.
LEMMA UnderIs ==
  /\ RootPath \in Paths
  /\ \A p \in Paths, n \in AnyName : Under(p, n) \in Paths /\ Under(p, n) # RootPath
  /\ \A p, q \in Paths, m, n \in AnyName : Under(p, m) = Under(q, n) => p = q /\ m = n
<1>1. RootPath \in Paths
  BY DEF RootPath, Paths
<1>2. \A p \in Paths, n \in AnyName : Under(p, n) \in Paths /\ Under(p, n) # RootPath
  BY Appends DEF RootPath, Paths, Under
<1>3. ASSUME NEW p \in Paths, NEW q \in Paths, NEW m \in AnyName, NEW n \in AnyName,
             Under(p, m) = Under(q, n)
      PROVE  p = q /\ m = n
  BY <1>3, SameAppend DEF Paths, Under
<1> QED
  BY <1>1, <1>2, <1>3

\* With a folder, C holds its subfolders, each with its path.
PathClosed(d, C) ==
  /\ <<RootPath, ROOT_FOLDER_IDX>> \in C
  /\ \A p \in Paths, i \in FIdx, n \in AnyName, j \in FIdx :
        <<p, i>> \in C /\ EdgeOf(d[i], n, j) => <<Under(p, n), j>> \in C

\* The path p leads to the folder i.
Leads(d, p, i) == \A C \in SUBSET (Paths \X FIdx) : PathClosed(d, C) => <<p, i>> \in C

\* The paths of the folders, and of the files.
FolderPaths(d) == {p \in Paths : \E i \in FIdx : Leads(d, p, i)}
FilePaths(d) ==
  {f \in Paths : \E p \in Paths, i \in FIdx, n \in AnyName :
                    Leads(d, p, i) /\ ItemOf(d[i], n) /\ f = Under(p, n)}

\* The folders of a set closed under the terms.
LEMMA LeadsInto ==
  ASSUME NEW d, NEW C \in SUBSET (Paths \X FIdx), PathClosed(d, C), NEW p, NEW i, Leads(d, p, i)
  PROVE  <<p, i>> \in C
BY DEF Leads

\* From the root by the terms.
LEMMA LeadsBy ==
  ASSUME NEW d
  PROVE  /\ Leads(d, RootPath, ROOT_FOLDER_IDX)
         /\ \A p \in Paths, i \in FIdx, n \in AnyName, j \in FIdx :
              Leads(d, p, i) /\ EdgeOf(d[i], n, j) => Leads(d, Under(p, n), j)
BY DEF Leads, PathClosed

\* What leads somewhere is a path, and leads to a folder node.
LEMMA LeadsTyped ==
  ASSUME NEW d, NEW p, NEW i, Leads(d, p, i)
  PROVE  p \in Paths /\ i \in FIdx
<1>1. PathClosed(d, Paths \X FIdx)
  BY UnderIs, Limits DEF PathClosed
<1>2. <<p, i>> \in Paths \X FIdx
  BY <1>1, LeadsInto
<1> QED
  BY <1>2

\* And in no other way.
LEMMA LeadsOnly ==
  ASSUME NEW d, NEW p, NEW i, Leads(d, p, i)
  PROVE  \/ p = RootPath /\ i = ROOT_FOLDER_IDX
         \/ \E q \in Paths, k \in FIdx, n \in AnyName :
               Leads(d, q, k) /\ EdgeOf(d[k], n, i) /\ p = Under(q, n)
<1> DEFINE Good0(x, j) == \/ x = RootPath /\ j = ROOT_FOLDER_IDX
                          \/ \E q \in Paths, k \in FIdx, n \in AnyName :
                                Leads(d, q, k) /\ EdgeOf(d[k], n, j) /\ x = Under(q, n)
           C == {z \in Paths \X FIdx : Leads(d, z[1], z[2]) /\ Good0(z[1], z[2])}
<1>1. \A x, j : <<x, j>> \in C <=> x \in Paths /\ j \in FIdx /\ Leads(d, x, j) /\ Good0(x, j)
  <2> HIDE DEF Good0
  <2> QED
    OBVIOUS
<1>2. C \in SUBSET (Paths \X FIdx)
  OBVIOUS
<1> HIDE DEF C
<1>3. <<RootPath, ROOT_FOLDER_IDX>> \in C
  BY <1>1, UnderIs, LeadsBy, Limits
<1>4. ASSUME NEW x \in Paths, NEW k \in FIdx, NEW n \in AnyName, NEW j \in FIdx,
             <<x, k>> \in C, EdgeOf(d[k], n, j)
      PROVE  <<Under(x, n), j>> \in C
  <2>1. Leads(d, x, k)
    BY <1>1, <1>4
  <2>2. Leads(d, Under(x, n), j) /\ Under(x, n) \in Paths
    BY <1>4, <2>1, LeadsBy, UnderIs
  <2>3. Good0(Under(x, n), j)
    BY <1>4, <2>1
  <2> HIDE DEF Good0
  <2> QED
    BY <1>1, <2>2, <2>3
<1>5. PathClosed(d, C)
  BY <1>3, <1>4 DEF PathClosed
<1>6. <<p, i>> \in C
  BY <1>2, <1>5, LeadsInto
<1> QED
  BY <1>1, <1>6

\* What has a path can be reached, and the other way round.
LEMMA LeadsReach ==
  ASSUME NEW d, NEW p, NEW i, Leads(d, p, i)
  PROVE  Reach(d, {}, i)
<1> SUFFICES ASSUME NEW B \in SUBSET FIdx, Closed(d, B) PROVE i \in B
  BY DEF Reach
<1>1. PathClosed(d, Paths \X B)
  <2>1. \A k, n, j : EdgeOf(d[k], n, j) => Child(d, k, j)
    BY DEF EdgeOf, Child, Holds
  <2> QED
    BY <2>1, UnderIs DEF PathClosed, Closed
<1>2. <<p, i>> \in Paths \X B
  BY <1>1, LeadsInto
<1> QED
  BY <1>2

\* A node of the disk d and its terms, by their names.
LEMMA EdgeTyped ==
  ASSUME NEW d \in Disks, NEW i \in FIdx
  PROVE  /\ \A n, j : EdgeOf(d[i], n, j) => n \in AnyName /\ j \in FIdx /\ Child(d, i, j)
         /\ \A j : Child(d, i, j) => \E n \in AnyName : EdgeOf(d[i], n, j)
         /\ \A n : ItemOf(d[i], n) => n \in AnyName
<1>1. d[i] \in Node
  BY DEF Disks
<1>2. \A s \in Sub : s \in FSlot /\ d[i].fterms[s].name \in AnyName /\ d[i].fterms[s].idx \in FIdx
  BY <1>1, PartsOfNode, Limits DEF FolderTerm
<1>3. \A s \in ISlot : d[i].iterms[s].name \in AnyName
  BY <1>1, PartsOfNode DEF FileTerm
<1> QED
  BY <1>2, <1>3 DEF EdgeOf, ItemOf, Child, Holds

\* What can be reached from the root has a path.
LEMMA ReachLeads ==
  ASSUME NEW d \in Disks, NEW i, Reach(d, {}, i)
  PROVE  \E p \in Paths : Leads(d, p, i)
<1> DEFINE B == {k \in FIdx : \E p \in Paths : Leads(d, p, k)}
<1>1. ROOT_FOLDER_IDX \in B
  BY LeadsBy, UnderIs, Limits
<1>2. ASSUME NEW k \in B, NEW j \in FIdx, Child(d, k, j) PROVE j \in B
  <2>1. PICK p \in Paths : Leads(d, p, k)
    OBVIOUS
  <2>2. PICK n \in AnyName : EdgeOf(d[k], n, j)
    BY <1>2, EdgeTyped
  <2> QED
    BY <2>1, <2>2, LeadsBy, UnderIs
<1>3. Closed(d, B) /\ B \in SUBSET FIdx
  BY <1>1, <1>2 DEF Closed
<1>4. i \in B
  <2> HIDE DEF B
  <2> QED
    BY <1>3 DEF Reach
<1> QED
  BY <1>4

\* The term of a folder seen from its path.
LEMMA EntryEdge ==
  ASSUME disk \in Disks, NEW p \in Paths, NEW i \in FIdx, NEW f
  PROVE  (\E s \in UsedSubs(i) : f = Entry(<<p, i>>, s))
            <=> \E n \in AnyName, j \in FIdx : EdgeOf(disk[i], n, j) /\ f = <<Under(p, n), j>>
<1>1. \A s \in UsedSubs(i) : Entry(<<p, i>>, s) = <<Under(p, disk[i].fterms[s].name), disk[i].fterms[s].idx>>
  BY DEF Entry, Under
<1>2. \A s \in UsedSubs(i) : /\ EdgeOf(disk[i], disk[i].fterms[s].name, disk[i].fterms[s].idx)
                             /\ disk[i].fterms[s].name \in AnyName /\ disk[i].fterms[s].idx \in FIdx
  <2>1. \A s \in UsedSubs(i) : EdgeOf(disk[i], disk[i].fterms[s].name, disk[i].fterms[s].idx)
    BY DEF EdgeOf, UsedSubs
  <2> QED
    BY <2>1, EdgeTyped
<1>3. \A n, j : EdgeOf(disk[i], n, j) =>
                   \E s \in UsedSubs(i) : disk[i].fterms[s].name = n /\ disk[i].fterms[s].idx = j
  BY DEF EdgeOf, UsedSubs
<1> QED
  BY <1>1, <1>2, <1>3

\* The folders of the levels are those with a path.
LEMMA FoldersLed ==
  ASSUME disk \in Disks, NEW F, Treelike(disk, F)
  PROVE  \A p, i : <<p, i>> \in FoldersOnDisk <=> Leads(disk, p, i)
<1> DEFINE T == {k \in Nat : k \in Depth => \A p, i : <<p, i>> \in FoldersAt[k] => Leads(disk, p, i)}
<1>1. \A e : e \in FoldersOnDisk <=> \E k \in Depth : e \in FoldersAt[k]
  BY DEF FoldersOnDisk, Depth
<1>2. \A k \in Depth : \A e \in FoldersAt[k] : e = <<e[1], e[2]>> /\ e[1] \in Paths /\ e[2] \in FIdx
  BY LevelTyped DEF Places, Paths
<1>3. 0 \in T
  <2>1. \A p, i : <<p, i>> = Top => p = RootPath /\ i = ROOT_FOLDER_IDX
    BY DEF Top, RootPath
  <2> QED
    BY <2>1, LevelBelow, LeadsBy
<1>4. ASSUME NEW k \in Nat, k \in T PROVE k + 1 \in T
  <2> SUFFICES ASSUME k + 1 \in Depth, NEW p, NEW i, <<p, i>> \in FoldersAt[k + 1]
               PROVE  Leads(disk, p, i)
    OBVIOUS
  <2>1. k \in Depth /\ \E e \in FoldersAt[k] : \E s \in UsedSubs(e[2]) : <<p, i>> = Entry(e, s)
    BY LevelBelow
  <2>2. PICK e \in FoldersAt[k] : \E s \in UsedSubs(e[2]) : <<p, i>> = Entry(e, s)
    BY <2>1
  <2>3. e = <<e[1], e[2]>> /\ e[1] \in Paths /\ e[2] \in FIdx /\ Leads(disk, e[1], e[2])
    BY <1>2, <1>4, <2>1
  <2> DEFINE q == e[1]  m == e[2]
  <2>4. \E s \in UsedSubs(m) : <<p, i>> = Entry(<<q, m>>, s)
    BY <2>2, <2>3
  <2>5. q \in Paths /\ m \in FIdx /\ Leads(disk, q, m)
    BY <2>3
  <2> HIDE DEF q, m, T
  <2>6. PICK n \in AnyName, j \in FIdx : EdgeOf(disk[m], n, j) /\ <<p, i>> = <<Under(q, n), j>>
    <3> DEFINE f == <<p, i>>
    <3>1. \E s \in UsedSubs(m) : f = Entry(<<q, m>>, s)
      BY <2>4
    <3> HIDE DEF f
    <3>2. \E n \in AnyName, j \in FIdx : EdgeOf(disk[m], n, j) /\ f = <<Under(q, n), j>>
      BY <2>5, <3>1, EntryEdge
    <3> QED
      BY <3>2 DEF f
  <2>7. p = Under(q, n) /\ i = j
    BY <2>6
  <2> QED
    BY <2>5, <2>6, <2>7, LeadsBy
<1> HIDE DEF T
<1>5. Nat \subseteq T
  BY <1>3, <1>4, Induction
<1>6. Depth \subseteq Nat
  BY Limits DEF Depth
<1>7. ASSUME NEW p, NEW i, <<p, i>> \in FoldersOnDisk PROVE Leads(disk, p, i)
  BY <1>1, <1>5, <1>6, <1>7 DEF T
<1>8. PathClosed(disk, FoldersOnDisk)
  <2>1. <<RootPath, ROOT_FOLDER_IDX>> \in FoldersOnDisk
    <3>1. 0 \in Depth
      BY Limits DEF Depth
    <3> QED
      BY <1>1, <3>1, LevelBelow DEF Top, RootPath
  <2>2. ASSUME NEW p \in Paths, NEW i \in FIdx, NEW n \in AnyName, NEW j \in FIdx,
               <<p, i>> \in FoldersOnDisk, EdgeOf(disk[i], n, j)
        PROVE  <<Under(p, n), j>> \in FoldersOnDisk
    <3>1. PICK k \in Depth : <<p, i>> \in FoldersAt[k]
      BY <1>1, <2>2
    <3>2. k # FNODE_NUM_LIM
      BY <3>1, LastLevel
    <3>3. k \in Nat /\ k + 1 \in Depth
      BY <3>2, Limits DEF Depth
    <3> DEFINE f == <<Under(p, n), j>>
    <3>4. \E m \in AnyName, l \in FIdx : EdgeOf(disk[i], m, l) /\ f = <<Under(p, m), l>>
      BY <2>2
    <3> HIDE DEF f
    <3>5. \E s \in UsedSubs(i) : f = Entry(<<p, i>>, s)
      BY <3>4, EntryEdge
    <3> DEFINE e == <<p, i>>
    <3>6. e \in FoldersAt[k] /\ \E s \in UsedSubs(e[2]) : f = Entry(e, s)
      BY <3>1, <3>5
    <3> HIDE DEF e
    <3>7. f \in FoldersAt[k + 1]
      BY <3>3, <3>6, LevelBelow
    <3> QED
      BY <1>1, <3>3, <3>7 DEF f
  <2> QED
    BY <2>1, <2>2 DEF PathClosed
<1>9. FoldersOnDisk \in SUBSET (Paths \X FIdx)
  BY <1>1, LevelTyped DEF Places, Paths
<1> QED
  BY <1>7, <1>8, <1>9 DEF Leads

\* One path for a folder, one folder for a path.
LEMMA OneFolder ==
  ASSUME disk \in Disks, NEW F, Treelike(disk, F),
         NEW p, NEW q, NEW i, NEW j, Leads(disk, p, i), Leads(disk, q, j)
  PROVE  i = j => p = q
<1> DEFINE e == <<p, i>>  f == <<q, j>>
<1>1. e \in FoldersOnDisk /\ f \in FoldersOnDisk
  BY FoldersLed
<1>2. e[2] = f[2] => e = f
  <2> HIDE DEF e, f
  <2>1. \A g : g \in FoldersOnDisk <=> \E k \in Depth : g \in FoldersAt[k]
    BY DEF FoldersOnDisk, Depth
  <2> QED
    BY <1>1, <2>1, OnePath
<1> QED
  BY <1>2

\* What has a path is in use.
LEMMA LedUsed ==
  ASSUME NEW d, NEW F, Treelike(d, F), NEW p, NEW i, Leads(d, p, i)
  PROVE  i \in F /\ i \in FIdx
<1>1. Reach(d, {}, i) /\ Branches(d, F)
  BY LeadsReach DEF Treelike
<1> QED
  BY <1>1, ReachedUsed DEF Branches

\* A path leads to one folder.
LEMMA OneNode ==
  ASSUME disk \in Disks, NEW F, Treelike(disk, F),
         NEW p, NEW i, NEW j, Leads(disk, p, i), Leads(disk, p, j)
  PROVE  i = j
<1> DEFINE C == {z \in Paths \X FIdx :
                   Leads(disk, z[1], z[2]) /\ \A k : Leads(disk, z[1], k) => k = z[2]}
<1>1. \A x, k : <<x, k>> \in C <=> /\ x \in Paths /\ k \in FIdx /\ Leads(disk, x, k)
                                   /\ \A l : Leads(disk, x, l) => l = k
  OBVIOUS
<1>2. C \in SUBSET (Paths \X FIdx)
  OBVIOUS
<1> HIDE DEF C
<1>3. ASSUME NEW k, Leads(disk, RootPath, k) PROVE k = ROOT_FOLDER_IDX
  BY <1>3, LeadsOnly, UnderIs
<1>4. <<RootPath, ROOT_FOLDER_IDX>> \in C
  BY <1>1, <1>3, LeadsBy, LeadsTyped
<1>5. ASSUME NEW x \in Paths, NEW k \in FIdx, NEW n \in AnyName, NEW l \in FIdx,
             <<x, k>> \in C, EdgeOf(disk[k], n, l)
      PROVE  <<Under(x, n), l>> \in C
  <2>1. Leads(disk, x, k) /\ \A m : Leads(disk, x, m) => m = k
    BY <1>1, <1>5
  <2>2. Leads(disk, Under(x, n), l) /\ Under(x, n) \in Paths
    BY <1>5, <2>1, LeadsBy, UnderIs
  <2>3. ASSUME NEW m, Leads(disk, Under(x, n), m) PROVE m = l
    <3>1. Under(x, n) # RootPath
      BY UnderIs
    <3>2. PICK y \in Paths, h \in FIdx, a \in AnyName :
             Leads(disk, y, h) /\ EdgeOf(disk[h], a, m) /\ Under(x, n) = Under(y, a)
      BY <2>3, <3>1, LeadsOnly
    <3>3. y = x /\ a = n
      BY <3>2, UnderIs
    <3>4. h = k /\ k \in F
      BY <2>1, <3>2, <3>3, LedUsed
    <3> QED
      BY <1>5, <3>2, <3>3, <3>4 DEF Treelike
  <2> QED
    BY <1>1, <2>2, <2>3
<1>6. PathClosed(disk, C)
  BY <1>4, <1>5 DEF PathClosed
<1>7. <<p, i>> \in C
  BY <1>2, <1>6, LeadsInto
<1> QED
  BY <1>1, <1>7

\* The two sets of paths in which the disk's terms are a tree.
LEMMA Seen ==
  ASSUME disk \in Disks, NEW F, Treelike(disk, F)
  PROVE  /\ {e[1] : e \in FoldersOnDisk} = FolderPaths(disk)
         /\ {e[1] : e \in FilesOnDisk} = FilePaths(disk)
<1>1. \A p, i : <<p, i>> \in FoldersOnDisk <=> Leads(disk, p, i)
  BY FoldersLed
<1>2. \A p, i : Leads(disk, p, i) => p \in Paths /\ i \in FIdx
  BY LeadsTyped
<1>3. \A e \in FoldersOnDisk : e = <<e[1], e[2]>>
  <2>1. \A e : e \in FoldersOnDisk <=> \E k \in Depth : e \in FoldersAt[k]
    BY DEF FoldersOnDisk, Depth
  <2> QED
    BY <2>1, LevelTyped DEF Places
<1>4. {e[1] : e \in FoldersOnDisk} = FolderPaths(disk)
  <2>1. ASSUME NEW e \in FoldersOnDisk PROVE e[1] \in FolderPaths(disk)
    <3>1. Leads(disk, e[1], e[2])
      BY <1>1, <1>3
    <3> QED
      BY <1>2, <3>1 DEF FolderPaths
  <2>2. ASSUME NEW p \in FolderPaths(disk) PROVE \E e \in FoldersOnDisk : p = e[1]
    <3>1. PICK i \in FIdx : Leads(disk, p, i)
      BY DEF FolderPaths
    <3>2. <<p, i>> \in FoldersOnDisk
      BY <1>1, <3>1
    <3> QED
      BY <3>2
  <2> QED
    BY <2>1, <2>2
<1> DEFINE Item(e, s) == <<Append(e[1], disk[e[2]].iterms[s].name), disk[e[2]].iterms[s].idx>>
<1>5. FilesOnDisk = UNION {{Item(e, s) : s \in UsedItems(e[2])} : e \in FoldersOnDisk}
  BY DEF FilesOnDisk
<1>6. \A e, s : Item(e, s)[1] = Under(e[1], disk[e[2]].iterms[s].name)
  BY DEF Under
<1> HIDE DEF Item
<1>0. \A g : g \in FilesOnDisk <=> \E e \in FoldersOnDisk : \E s \in UsedItems(e[2]) : g = Item(e, s)
  BY <1>5
<1>7. {g[1] : g \in FilesOnDisk} = FilePaths(disk)
  <2>1. ASSUME NEW g \in FilesOnDisk PROVE g[1] \in FilePaths(disk)
    <3>1. PICK e \in FoldersOnDisk : \E s \in UsedItems(e[2]) : g = Item(e, s)
      BY <1>0
    <3>2. PICK s \in UsedItems(e[2]) : g = Item(e, s)
      BY <3>1
    <3> DEFINE n == disk[e[2]].iterms[s].name
    <3>3. Leads(disk, e[1], e[2]) /\ e[1] \in Paths /\ e[2] \in FIdx
      BY <1>1, <1>2, <1>3
    <3>4. ItemOf(disk[e[2]], n)
      BY DEF ItemOf, UsedItems
    <3>5. n \in AnyName
      BY <3>3, <3>4, EdgeTyped
    <3>6. g[1] = Under(e[1], n)
      BY <1>6, <3>2
    <3> HIDE DEF n
    <3> QED
      BY <3>3, <3>4, <3>5, <3>6, UnderIs DEF FilePaths
  <2>2. ASSUME NEW f \in FilePaths(disk) PROVE \E g \in FilesOnDisk : f = g[1]
    <3>1. PICK p \in Paths, i \in FIdx, n \in AnyName :
             Leads(disk, p, i) /\ ItemOf(disk[i], n) /\ f = Under(p, n)
      BY DEF FilePaths
    <3> DEFINE e == <<p, i>>
    <3>2. e \in FoldersOnDisk /\ e[1] = p /\ e[2] = i
      BY <1>1, <3>1
    <3> HIDE DEF e
    <3>3. PICK s \in UsedItems(e[2]) : disk[e[2]].iterms[s].name = n
      BY <3>1, <3>2 DEF ItemOf, UsedItems
    <3>4. Item(e, s) \in FilesOnDisk
      BY <1>0, <3>2
    <3>5. Item(e, s)[1] = f
      BY <1>6, <3>1, <3>2, <3>3
    <3> QED
      BY <3>4, <3>5
  <2> QED
    BY <2>1, <2>2
<1> QED
  BY <1>4, <1>7

-----------------------------------------------------------------------------
(* What a write changes of it.                                             *)

SameSeen(d, e) == FolderPaths(e) = FolderPaths(d) /\ FilePaths(e) = FilePaths(d)

\* The nodes have terms of the same names to the same folders, and files of the
\* same names.
SameEdges(f, g) == \A n, j : EdgeOf(g, n, j) = EdgeOf(f, n, j)
SameItems(f, g) == \A n : ItemOf(g, n) = ItemOf(f, n)

\* The paths stay when no folder that has one gets or loses a subfolder.
LEMMA LeadsAlike ==
  ASSUME NEW d, NEW e, \A p, i : Leads(d, p, i) => SameEdges(d[i], e[i])
  PROVE  \A p, i : Leads(e, p, i) <=> Leads(d, p, i)
<1> DEFINE L == {z \in Paths \X FIdx : Leads(d, z[1], z[2])}
<1>0. L \in SUBSET (Paths \X FIdx) /\ \A x, k : <<x, k>> \in L <=> x \in Paths /\ k \in FIdx /\ Leads(d, x, k)
  OBVIOUS
<1> HIDE DEF L
<1>1. PathClosed(e, L)
  BY <1>0, LeadsBy, UnderIs, Limits DEF PathClosed, SameEdges
<1>2. ASSUME NEW p, NEW i, Leads(e, p, i) PROVE Leads(d, p, i)
  BY <1>0, <1>1, <1>2, LeadsInto
<1>3. ASSUME NEW p, NEW i, Leads(d, p, i), NEW C \in SUBSET (Paths \X FIdx), PathClosed(e, C)
      PROVE  <<p, i>> \in C
  <2>1. PathClosed(d, C \cap L)
    BY <1>0, <1>3, LeadsBy, UnderIs, Limits DEF PathClosed, SameEdges
  <2>2. C \cap L \in SUBSET (Paths \X FIdx)
    OBVIOUS
  <2>3. <<p, i>> \in C \cap L
    BY <1>3, <2>1, <2>2, LeadsInto
  <2> QED
    BY <2>3
<1>4. \A p, i : Leads(d, p, i) => Leads(e, p, i)
  BY <1>3 DEF Leads
<1> QED
  BY <1>2, <1>4

\* Nor do the files.
LEMMA SeenAlike ==
  ASSUME NEW d, NEW e, \A p, i : Leads(d, p, i) => SameEdges(d[i], e[i]) /\ SameItems(d[i], e[i])
  PROVE  SameSeen(d, e)
<1>1. \A p, i : Leads(e, p, i) <=> Leads(d, p, i)
  BY LeadsAlike
<1>2. FolderPaths(e) = FolderPaths(d)
  BY <1>1 DEF FolderPaths
<1>3. FilePaths(e) = FilePaths(d)
  BY <1>1 DEF FilePaths, SameItems
<1> QED
  BY <1>2, <1>3 DEF SameSeen

\* A tree that loses terms stays one.
LEMMA TreelikeLess ==
  ASSUME NEW d \in Disks, NEW e \in Disks, NEW F, Treelike(d, F),
         \A i \in FIdx : \A n, j : EdgeOf(e[i], n, j) => EdgeOf(d[i], n, j)
  PROVE  Treelike(e, F)
<1>1. F \in SUBSET FIdx
  BY DEF Treelike, Branches
<1>2. \A i \in FIdx : \A j : Child(e, i, j) => Child(d, i, j)
  BY EdgeTyped
<1>3. Branches(e, F)
  BY <1>1, <1>2 DEF Treelike, Branches
<1> QED
  BY <1>1, <1>3 DEF Treelike

-----------------------------------------------------------------------------
(* The four changes there are, of the disk as it is to one e.              *)

\* Only the node x changes.
Elsewhere(e, x) == \A i \in FIdx : i # x => SameEdges(disk[i], e[i]) /\ SameItems(disk[i], e[i])

MadeFile(d, e) ==
  \E p \in Paths, n \in AnyName :
     /\ p \in FolderPaths(d) /\ Under(p, n) \notin FilePaths(d)
     /\ FilePaths(e) = FilePaths(d) \cup {Under(p, n)}
     /\ FolderPaths(e) = FolderPaths(d)

RemovedFile(d, e) ==
  \E f \in FilePaths(d) : FilePaths(e) = FilePaths(d) \ {f} /\ FolderPaths(e) = FolderPaths(d)

MadeFolder(d, e) ==
  \E p \in Paths, n \in AnyName :
     /\ p \in FolderPaths(d) /\ Under(p, n) \notin FolderPaths(d)
     /\ FolderPaths(e) = FolderPaths(d) \cup {Under(p, n)}
     /\ FilePaths(e) = FilePaths(d)

RemovedFolder(d, e) ==
  \E p \in FolderPaths(d) :
     /\ p # RootPath
     /\ FolderPaths(e) = {q \in FolderPaths(d) : ~Tree!IsPrefix(p, q)}
     /\ p \notin FolderPaths(e)
     /\ FilePaths(e) = {q \in FilePaths(d) : ~Tree!IsStrictPrefix(p, q)}

\* A file's path is that of a folder, and its name.
LEMMA FilePathIs ==
  ASSUME NEW d
  PROVE  \A f : f \in FilePaths(d) <=>
                  \E q \in Paths, i \in FIdx, m \in AnyName :
                     Leads(d, q, i) /\ ItemOf(d[i], m) /\ f = Under(q, m)
BY UnderIs DEF FilePaths

\* A file of a path of its own.
LEMMA FileAdded ==
  ASSUME disk \in Disks, NEW F, Treelike(disk, F), NEW x, Reach(disk, {}, x),
         NEW e, Elsewhere(e, x), SameEdges(disk[x], e[x]),
         NEW n \in AnyName, ~ItemOf(disk[x], n),
         \A m : ItemOf(e[x], m) <=> ItemOf(disk[x], m) \/ m = n
  PROVE  MadeFile(disk, e)
<1>1. PICK p \in Paths : Leads(disk, p, x)
  BY ReachLeads
<1>2. \A q, i : Leads(e, q, i) <=> Leads(disk, q, i)
  BY LeadsTyped, LeadsAlike DEF Elsewhere
<1>3. FolderPaths(e) = FolderPaths(disk)
  BY <1>2 DEF FolderPaths
<1>4. p \in FolderPaths(disk) /\ x \in FIdx
  BY <1>1, LeadsTyped DEF FolderPaths
<1>5. \A i : Leads(disk, p, i) => i = x
  BY <1>1, OneNode
<1>6. \A q : Leads(disk, q, x) => q = p
  BY <1>1, OneFolder
<1>7. Under(p, n) \notin FilePaths(disk)
  BY <1>5, UnderIs DEF FilePaths
<1>8. ASSUME NEW q \in Paths, NEW i \in FIdx, NEW m \in AnyName, Leads(disk, q, i)
      PROVE  ItemOf(e[i], m) <=> ItemOf(disk[i], m) \/ Under(q, m) = Under(p, n)
  <2>1. CASE i = x
    BY <1>6, <1>8, <2>1, UnderIs
  <2>2. CASE i # x
    <3>1. Under(q, m) # Under(p, n)
      BY <1>5, <1>8, <2>2, UnderIs
    <3>2. ItemOf(e[i], m) = ItemOf(disk[i], m)
      BY <2>2 DEF Elsewhere, SameItems
    <3> QED
      BY <3>1, <3>2
  <2> QED
    BY <2>1, <2>2
<1>9. FilePaths(e) = FilePaths(disk) \cup {Under(p, n)}
  <2>1. \A f : f \in FilePaths(e) <=>
               \E q \in Paths, i \in FIdx, m \in AnyName :
                  Leads(disk, q, i) /\ ItemOf(e[i], m) /\ f = Under(q, m)
    BY <1>2, FilePathIs
  <2>2. \A f : f \in FilePaths(disk) <=>
               \E q \in Paths, i \in FIdx, m \in AnyName :
                  Leads(disk, q, i) /\ ItemOf(disk[i], m) /\ f = Under(q, m)
    BY FilePathIs
  <2>3. \A f \in FilePaths(e) : f \in FilePaths(disk) \/ f = Under(p, n)
    BY <1>8, <2>1, <2>2
  <2>4. \A f \in FilePaths(disk) : f \in FilePaths(e)
    BY <1>8, <2>1, <2>2
  <2>5. Under(p, n) \in FilePaths(e)
    BY <1>1, <1>4, <1>8, <2>1
  <2> QED
    BY <2>3, <2>4, <2>5
<1> QED
  BY <1>3, <1>4, <1>7, <1>9 DEF MadeFile

\* A file less.
LEMMA FileDropped ==
  ASSUME disk \in Disks, NEW F, Treelike(disk, F), NEW x, Reach(disk, {}, x),
         NEW e, Elsewhere(e, x), SameEdges(disk[x], e[x]),
         NEW n \in AnyName, ItemOf(disk[x], n),
         \A m : ItemOf(e[x], m) <=> ItemOf(disk[x], m) /\ m # n
  PROVE  RemovedFile(disk, e)
<1>1. PICK p \in Paths : Leads(disk, p, x)
  BY ReachLeads
<1>2. \A q, i : Leads(e, q, i) <=> Leads(disk, q, i)
  BY LeadsTyped, LeadsAlike DEF Elsewhere
<1>3. FolderPaths(e) = FolderPaths(disk)
  BY <1>2 DEF FolderPaths
<1>4. x \in FIdx
  BY <1>1, LeadsTyped
<1>5. \A i : Leads(disk, p, i) => i = x
  BY <1>1, OneNode
<1>6. \A q : Leads(disk, q, x) => q = p
  BY <1>1, OneFolder
<1>7. Under(p, n) \in FilePaths(disk)
  BY <1>1, <1>4, UnderIs DEF FilePaths
<1>8. ASSUME NEW q \in Paths, NEW i \in FIdx, NEW m \in AnyName, Leads(disk, q, i)
      PROVE  ItemOf(e[i], m) <=> ItemOf(disk[i], m) /\ Under(q, m) # Under(p, n)
  <2>1. CASE i = x
    BY <1>6, <1>8, <2>1, UnderIs
  <2>2. CASE i # x
    <3>1. Under(q, m) # Under(p, n)
      BY <1>5, <1>8, <2>2, UnderIs
    <3>2. ItemOf(e[i], m) = ItemOf(disk[i], m)
      BY <2>2 DEF Elsewhere, SameItems
    <3> QED
      BY <3>1, <3>2
  <2> QED
    BY <2>1, <2>2
<1>9. FilePaths(e) = FilePaths(disk) \ {Under(p, n)}
  <2>1. \A f : f \in FilePaths(e) <=>
               \E q \in Paths, i \in FIdx, m \in AnyName :
                  Leads(disk, q, i) /\ ItemOf(e[i], m) /\ f = Under(q, m)
    BY <1>2, FilePathIs
  <2>2. \A f : f \in FilePaths(disk) <=>
               \E q \in Paths, i \in FIdx, m \in AnyName :
                  Leads(disk, q, i) /\ ItemOf(disk[i], m) /\ f = Under(q, m)
    BY FilePathIs
  <2>3. \A f \in FilePaths(e) : f \in FilePaths(disk) /\ f # Under(p, n)
    BY <1>8, <2>1, <2>2
  <2>4. \A f \in FilePaths(disk) : f # Under(p, n) => f \in FilePaths(e)
    BY <1>8, <2>1, <2>2
  <2> QED
    BY <2>3, <2>4
<1> QED
  BY <1>3, <1>7, <1>9 DEF RemovedFile

\* The node x of e has the subfolder y more, of the new name n; y is empty.
NewFolder(e, F, x, n, y) ==
  /\ x \in F /\ y \in FIdx \ F /\ n \in AnyName
  /\ \A j : ~EdgeOf(disk[x], n, j)
  /\ \A m, j : EdgeOf(e[x], m, j) <=> EdgeOf(disk[x], m, j) \/ (m = n /\ j = y)
  /\ \A m, j : ~EdgeOf(e[y], m, j)
  /\ \A m : ~ItemOf(e[y], m)

\* A folder of a path of its own.
LEMMA FolderAdded ==
  ASSUME disk \in Disks, NEW F, Treelike(disk, F), NEW x, Reach(disk, {}, x),
         NEW e, Elsewhere(e, x), SameItems(disk[x], e[x]),
         NEW n, NEW y, NewFolder(e, F, x, n, y)
  PROVE  MadeFolder(disk, e)
<1>1. PICK p \in Paths : Leads(disk, p, x)
  BY ReachLeads
<1>2. /\ x \in F /\ y \in FIdx \ F /\ n \in AnyName /\ x \in FIdx
      /\ \A j : ~EdgeOf(disk[x], n, j)
      /\ \A m, j : EdgeOf(e[x], m, j) <=> EdgeOf(disk[x], m, j) \/ (m = n /\ j = y)
      /\ \A m, j : ~EdgeOf(e[y], m, j)
      /\ \A m : ~ItemOf(e[y], m)
  BY <1>1, LeadsTyped DEF NewFolder
<1>3. \A i : Leads(disk, p, i) => i = x
  BY <1>1, OneNode
<1>4. \A q : Leads(disk, q, x) => q = p
  BY <1>1, OneFolder
<1>5. \A q, i : Leads(disk, q, i) => i # y /\ q \in Paths /\ i \in FIdx
  BY <1>2, LedUsed, LeadsTyped
<1>6. \A q, i : i # x /\ Leads(disk, q, i) => SameEdges(disk[i], e[i]) /\ SameItems(disk[i], e[i])
  BY <1>5 DEF Elsewhere
<1> DEFINE new == Under(p, n)
<1>7. new \in Paths /\ new = Under(p, n)
  BY <1>2, UnderIs
<1>8. ASSUME NEW k, Leads(disk, new, k) PROVE FALSE
  <2>1. PICK q \in Paths, i \in FIdx, m \in AnyName :
           Leads(disk, q, i) /\ EdgeOf(disk[i], m, k) /\ new = Under(q, m)
    BY <1>2, <1>8, LeadsOnly, UnderIs
  <2>2. q = p /\ m = n
    BY <1>2, <2>1, UnderIs
  <2> QED
    BY <1>2, <1>3, <2>1, <2>2
<1> HIDE DEF new
<1>9. \A q, i : Leads(disk, q, i) => Leads(e, q, i)
  <2> SUFFICES ASSUME NEW q, NEW i, Leads(disk, q, i), NEW C \in SUBSET (Paths \X FIdx), PathClosed(e, C)
               PROVE  <<q, i>> \in C
    BY DEF Leads
  <2> DEFINE D == {z \in C : Leads(disk, z[1], z[2])}
  <2>1. D \in SUBSET (Paths \X FIdx) /\ \A a, k : <<a, k>> \in D <=> <<a, k>> \in C /\ Leads(disk, a, k)
    OBVIOUS
  <2> HIDE DEF D
  <2>2. <<RootPath, ROOT_FOLDER_IDX>> \in D
    BY <2>1, LeadsBy DEF PathClosed
  <2>3. ASSUME NEW a \in Paths, NEW k \in FIdx, NEW m \in AnyName, NEW j \in FIdx,
               <<a, k>> \in D, EdgeOf(disk[k], m, j)
        PROVE  <<Under(a, m), j>> \in D
    <3>1. Leads(disk, a, k) /\ <<a, k>> \in C
      BY <2>1, <2>3
    <3>2. Leads(disk, Under(a, m), j)
      BY <2>3, <3>1, LeadsBy
    <3>3. EdgeOf(e[k], m, j)
      BY <1>2, <1>6, <2>3, <3>1 DEF SameEdges
    <3> QED
      BY <2>1, <2>3, <3>1, <3>2, <3>3 DEF PathClosed
  <2>4. PathClosed(disk, D)
    BY <2>2, <2>3 DEF PathClosed
  <2>5. <<q, i>> \in D
    BY <2>1, <2>4, LeadsInto
  <2> QED
    BY <2>1, <2>5
<1>10. Leads(e, new, y)
  <2>1. Leads(e, p, x) /\ EdgeOf(e[x], n, y)
    BY <1>1, <1>2, <1>9
  <2> QED
    BY <1>2, <1>7, <2>1, LeadsBy
<1>11. ASSUME NEW q, NEW i, Leads(e, q, i) PROVE Leads(disk, q, i) \/ (q = new /\ i = y)
  <2> DEFINE D == {z \in Paths \X FIdx : Leads(disk, z[1], z[2]) \/ (z[1] = new /\ z[2] = y)}
  <2>1. \A a, k : <<a, k>> \in D <=> /\ a \in Paths /\ k \in FIdx
                                     /\ Leads(disk, a, k) \/ (a = new /\ k = y)
    OBVIOUS
  <2>2. D \in SUBSET (Paths \X FIdx)
    OBVIOUS
  <2> HIDE DEF D
  <2>3. <<RootPath, ROOT_FOLDER_IDX>> \in D
    BY <2>1, LeadsBy, UnderIs, Limits
  <2>4. ASSUME NEW a \in Paths, NEW k \in FIdx, NEW m \in AnyName, NEW j \in FIdx,
               <<a, k>> \in D, EdgeOf(e[k], m, j)
        PROVE  <<Under(a, m), j>> \in D
    <3>1. k # y /\ Leads(disk, a, k)
      BY <1>2, <1>5, <2>1, <2>4
    <3>2. Under(a, m) \in Paths
      BY UnderIs
    <3>3. EdgeOf(disk[k], m, j) \/ (k = x /\ m = n /\ j = y)
      BY <1>2, <1>6, <2>4, <3>1 DEF SameEdges
    <3>4. CASE EdgeOf(disk[k], m, j)
      BY <2>1, <3>1, <3>2, <3>4, LeadsBy
    <3>5. CASE k = x /\ m = n /\ j = y
      BY <1>4, <1>7, <2>1, <3>1, <3>2, <3>5
    <3> QED
      BY <3>3, <3>4, <3>5
  <2>5. PathClosed(e, D)
    BY <2>3, <2>4 DEF PathClosed
  <2>6. <<q, i>> \in D
    BY <1>11, <2>2, <2>5, LeadsInto
  <2> QED
    BY <2>1, <2>6
<1>12. p \in FolderPaths(disk) /\ new \notin FolderPaths(disk)
  BY <1>1, <1>2, <1>8 DEF FolderPaths
<1>13. FolderPaths(e) = FolderPaths(disk) \cup {new}
  <2>1. \A q : q \in FolderPaths(e) <=> \E i \in FIdx : Leads(e, q, i)
    BY LeadsTyped DEF FolderPaths
  <2>2. \A q : q \in FolderPaths(disk) <=> \E i \in FIdx : Leads(disk, q, i)
    BY LeadsTyped DEF FolderPaths
  <2>3. \A q : q \in FolderPaths(e) <=> q \in FolderPaths(disk) \/ q = new
    BY <1>2, <1>9, <1>10, <1>11, <2>1, <2>2
  <2> QED
    BY <2>3
<1>14. FilePaths(e) = FilePaths(disk)
  <2>1. ASSUME NEW q, NEW i, NEW m, Leads(e, q, i) /\ ItemOf(e[i], m) PROVE Leads(disk, q, i) /\ ItemOf(disk[i], m)
    BY <1>2, <1>6, <1>11, <2>1 DEF SameItems
  <2>2. ASSUME NEW q, NEW i, NEW m, Leads(disk, q, i) /\ ItemOf(disk[i], m) PROVE Leads(e, q, i) /\ ItemOf(e[i], m)
    BY <1>6, <1>9, <2>2 DEF SameItems
  <2> QED
    BY <2>1, <2>2 DEF FilePaths
<1> QED
  BY <1>2, <1>7, <1>12, <1>13, <1>14 DEF MadeFolder

\* The tree with the new folder is one.
LEMMA TreelikeMore ==
  ASSUME disk \in Disks, NEW F, Treelike(disk, F), NEW x,
         NEW e \in Disks, \A i \in FIdx : i # x => SameEdges(disk[i], e[i]),
         NEW n, NEW y, NewFolder(e, F, x, n, y)
  PROVE  Treelike(e, F \cup {y})
<1>1. /\ x \in F /\ y \in FIdx \ F /\ n \in AnyName /\ F \in SUBSET FIdx /\ ROOT_FOLDER_IDX \in F
      /\ \A j : ~EdgeOf(disk[x], n, j)
      /\ \A m, j : EdgeOf(e[x], m, j) <=> EdgeOf(disk[x], m, j) \/ (m = n /\ j = y)
      /\ \A m, j : ~EdgeOf(e[y], m, j)
  BY DEF NewFolder, Treelike, Branches
<1>2. ASSUME NEW i \in F \cup {y}, NEW m, NEW j, EdgeOf(e[i], m, j)
      PROVE  i \in F /\ (EdgeOf(disk[i], m, j) \/ (i = x /\ m = n /\ j = y))
  BY <1>1, <1>2 DEF SameEdges
<1>3. \A i \in F : \A m, j : EdgeOf(disk[i], m, j) => Child(disk, i, j) /\ j \in F \ {ROOT_FOLDER_IDX} /\ j # y
  <2>1. \A i \in F : \A m, j : EdgeOf(disk[i], m, j) => Child(disk, i, j) /\ j \in FIdx
    BY <1>1, EdgeTyped
  <2>2. \A i \in F : \A j \in FIdx : Child(disk, i, j) => j \in F \ {ROOT_FOLDER_IDX}
    BY DEF Treelike, Branches
  <2> QED
    BY <1>1, <2>1, <2>2
<1>4. ASSUME NEW i \in F \cup {y}, NEW j \in FIdx, Child(e, i, j)
      PROVE  i \in F /\ (Child(disk, i, j) \/ (i = x /\ j = y)) /\ j \in (F \cup {y}) \ {ROOT_FOLDER_IDX}
  <2>1. PICK m : EdgeOf(e[i], m, j)
    BY <1>1, <1>4, EdgeTyped
  <2> QED
    BY <1>1, <1>2, <1>3, <2>1
<1>5. ASSUME NEW i \in F \cup {y}, NEW k \in F \cup {y}, NEW j \in FIdx, Child(e, i, j), Child(e, k, j)
      PROVE  i = k
  <2>1. ~Child(disk, i, y) /\ ~Child(disk, k, y)
    BY <1>1, <1>4, <1>5 DEF Treelike, Branches
  <2> QED
    BY <1>4, <1>5, <2>1 DEF Treelike, Branches
<1>6. Branches(e, F \cup {y})
  BY <1>1, <1>4, <1>5 DEF Branches
<1>7. ASSUME NEW i \in F \cup {y}, NEW m, NEW k, NEW j, NEW l, EdgeOf(e[i], m, j), EdgeOf(e[i], k, l),
             m = k \/ j = l
      PROVE  m = k /\ j = l
  <2>1. i \in F /\ (EdgeOf(disk[i], m, j) \/ (i = x /\ m = n /\ j = y))
                /\ (EdgeOf(disk[i], k, l) \/ (i = x /\ k = n /\ l = y))
    BY <1>2, <1>7
  <2>2. EdgeOf(disk[i], m, j) /\ EdgeOf(disk[i], k, l) => m = k /\ j = l
    BY <1>7, <2>1 DEF Treelike
  <2> QED
    BY <1>1, <1>3, <1>7, <2>1, <2>2
<1> QED
  BY <1>6, <1>7 DEF Treelike

\* A folder less, and all below it.
LEMMA FolderDropped ==
  ASSUME disk \in Disks, NEW F, Treelike(disk, F), NEW x, Reach(disk, {}, x),
         NEW e, Elsewhere(e, x), SameItems(disk[x], e[x]),
         NEW n \in AnyName, NEW y, EdgeOf(disk[x], n, y),
         \A m, j : EdgeOf(e[x], m, j) <=> EdgeOf(disk[x], m, j) /\ m # n
  PROVE  RemovedFolder(disk, e)
<1>1. PICK p \in Paths : Leads(disk, p, x)
  BY ReachLeads
<1>2. x \in FIdx /\ y \in FIdx
  BY <1>1, LeadsTyped, EdgeTyped
<1>3. \A i : Leads(disk, p, i) => i = x
  BY <1>1, OneNode
<1>4. \A q : Leads(disk, q, x) => q = p
  BY <1>1, OneFolder
<1>5. \A q, i : i # x /\ Leads(disk, q, i) => SameEdges(disk[i], e[i]) /\ SameItems(disk[i], e[i])
  BY LeadsTyped DEF Elsewhere
<1> DEFINE gone == Under(p, n)
           Stays(q) == ~Tree!IsPrefix(gone, q)
<1>6. gone \in Paths /\ gone = Under(p, n) /\ gone # RootPath
  BY UnderIs
<1> HIDE DEF gone
<1>7. /\ Stays(RootPath) /\ ~Stays(gone)
      /\ \A q \in Paths, m \in AnyName : Stays(Under(q, m)) <=> Stays(q) /\ gone # Under(q, m)
      /\ \A q \in Paths, m \in AnyName : Tree!IsStrictPrefix(gone, Under(q, m)) <=> ~Stays(q)
  <2>1. Stays(RootPath) /\ ~Stays(gone)
    BY <1>6, Prefixes DEF RootPath, Paths
  <2>2. ASSUME NEW q \in Paths, NEW m \in AnyName
        PROVE  /\ Stays(Under(q, m)) <=> Stays(q) /\ gone # Under(q, m)
               /\ Tree!IsStrictPrefix(gone, Under(q, m)) <=> ~Stays(q)
    BY <1>6, Prefixes DEF Under, Paths
  <2> QED
    BY <2>1, <2>2
<1> HIDE DEF Stays
<1>8. ASSUME NEW q, NEW i, Leads(e, q, i) PROVE Leads(disk, q, i) /\ Stays(q)
  <2> DEFINE D == {z \in Paths \X FIdx : Leads(disk, z[1], z[2]) /\ Stays(z[1])}
  <2>1. \A a, k : <<a, k>> \in D <=> /\ a \in Paths /\ k \in FIdx
                                     /\ Leads(disk, a, k) /\ Stays(a)
    OBVIOUS
  <2>2. D \in SUBSET (Paths \X FIdx)
    OBVIOUS
  <2> HIDE DEF D
  <2>3. <<RootPath, ROOT_FOLDER_IDX>> \in D
    BY <1>7, <2>1, LeadsBy, UnderIs, Limits
  <2>4. ASSUME NEW a \in Paths, NEW k \in FIdx, NEW m \in AnyName, NEW j \in FIdx,
               <<a, k>> \in D, EdgeOf(e[k], m, j)
        PROVE  <<Under(a, m), j>> \in D
    <3>1. Leads(disk, a, k) /\ Stays(a) /\ Under(a, m) \in Paths
      BY <2>1, <2>4, UnderIs
    <3>2. EdgeOf(disk[k], m, j) /\ ~(k = x /\ m = n)
      BY <1>5, <2>4, <3>1 DEF SameEdges
    <3>3. Leads(disk, Under(a, m), j)
      BY <2>4, <3>1, <3>2, LeadsBy
    <3>4. Under(a, m) # gone
      BY <1>3, <1>6, <2>4, <3>1, <3>2, UnderIs
    <3> QED
      BY <1>7, <2>1, <2>4, <3>1, <3>3, <3>4
  <2>5. PathClosed(e, D)
    BY <2>3, <2>4 DEF PathClosed
  <2>6. <<q, i>> \in D
    BY <1>8, <2>2, <2>5, LeadsInto
  <2> QED
    BY <2>1, <2>6
<1>9. ASSUME NEW q, NEW i, Leads(disk, q, i), Stays(q) PROVE Leads(e, q, i)
  <2> SUFFICES ASSUME NEW C \in SUBSET (Paths \X FIdx), PathClosed(e, C)
               PROVE  <<q, i>> \in C
    BY DEF Leads
  <2> DEFINE D == {z \in Paths \X FIdx : Leads(disk, z[1], z[2]) /\ (Stays(z[1]) => z \in C)}
  <2>1. \A a, k : <<a, k>> \in D <=> /\ a \in Paths /\ k \in FIdx /\ Leads(disk, a, k)
                                     /\ Stays(a) => <<a, k>> \in C
    OBVIOUS
  <2>2. D \in SUBSET (Paths \X FIdx)
    OBVIOUS
  <2> HIDE DEF D
  <2>3. <<RootPath, ROOT_FOLDER_IDX>> \in D
    BY <2>1, LeadsBy, UnderIs, Limits DEF PathClosed
  <2>4. ASSUME NEW a \in Paths, NEW k \in FIdx, NEW m \in AnyName, NEW j \in FIdx,
               <<a, k>> \in D, EdgeOf(disk[k], m, j)
        PROVE  <<Under(a, m), j>> \in D
    <3>1. Leads(disk, a, k) /\ Under(a, m) \in Paths
      BY <2>1, <2>4, UnderIs
    <3>2. Leads(disk, Under(a, m), j)
      BY <2>4, <3>1, LeadsBy
    <3>3. ASSUME Stays(Under(a, m)) PROVE <<Under(a, m), j>> \in C
      <4>1. Stays(a) /\ gone # Under(a, m) /\ <<a, k>> \in C
        BY <1>7, <2>1, <2>4, <3>3
      <4>2. ~(k = x /\ m = n)
        BY <1>4, <1>6, <3>1, <4>1
      <4>3. EdgeOf(e[k], m, j)
        BY <1>5, <2>4, <3>1, <4>2 DEF SameEdges
      <4> QED
        BY <2>4, <4>1, <4>3 DEF PathClosed
    <3> QED
      BY <2>1, <2>4, <3>1, <3>2, <3>3
  <2>5. PathClosed(disk, D)
    BY <2>3, <2>4 DEF PathClosed
  <2>6. <<q, i>> \in D
    BY <1>9, <2>2, <2>5, LeadsInto
  <2> QED
    BY <1>9, <2>1, <2>6
<1>10. gone \in FolderPaths(disk)
  <2>1. Leads(disk, gone, y)
    BY <1>1, <1>2, <1>6, LeadsBy
  <2> QED
    BY <1>2, <1>6, <2>1 DEF FolderPaths
<1>11. /\ FolderPaths(e) = {q \in FolderPaths(disk) : Stays(q)}
       /\ gone \notin FolderPaths(e)
  <2>1. FolderPaths(e) = {q \in FolderPaths(disk) : Stays(q)}
    BY <1>8, <1>9 DEF FolderPaths
  <2> QED
    BY <1>7, <2>1
<1>12. FilePaths(e) = {q \in FilePaths(disk) : ~Tree!IsStrictPrefix(gone, q)}
  <2>0. ASSUME NEW q \in Paths, NEW i \in FIdx, NEW m \in AnyName
        PROVE  Leads(e, q, i) /\ ItemOf(e[i], m)
                  <=> Leads(disk, q, i) /\ ItemOf(disk[i], m) /\ ~Tree!IsStrictPrefix(gone, Under(q, m))
    <3>1. Tree!IsStrictPrefix(gone, Under(q, m)) <=> ~Stays(q)
      BY <1>7
    <3>2. Leads(e, q, i) <=> Leads(disk, q, i) /\ Stays(q)
      BY <1>8, <1>9
    <3>3. Leads(disk, q, i) => ItemOf(e[i], m) = ItemOf(disk[i], m)
      BY <1>5 DEF SameItems
    <3> QED
      BY <3>1, <3>2, <3>3
  <2>1. \A f : f \in FilePaths(e) <=>
               \E q \in Paths, i \in FIdx, m \in AnyName :
                  Leads(e, q, i) /\ ItemOf(e[i], m) /\ f = Under(q, m)
    BY FilePathIs
  <2>2. \A f : f \in FilePaths(disk) <=>
               \E q \in Paths, i \in FIdx, m \in AnyName :
                  Leads(disk, q, i) /\ ItemOf(disk[i], m) /\ f = Under(q, m)
    BY FilePathIs
  <2>3. ASSUME NEW f \in FilePaths(e) PROVE f \in FilePaths(disk) /\ ~Tree!IsStrictPrefix(gone, f)
    BY <2>0, <2>1, <2>2
  <2>4. ASSUME NEW f \in FilePaths(disk), ~Tree!IsStrictPrefix(gone, f) PROVE f \in FilePaths(e)
    BY <2>0, <2>1, <2>2, <2>4
  <2> QED
    BY <2>3, <2>4
<1> QED
  BY <1>6, <1>10, <1>11, <1>12 DEF RemovedFolder, Stays

-----------------------------------------------------------------------------
(* What the code does to a node, in these terms.                           *)

EmptyNode(fn) == (\A n, j : ~EdgeOf(fn, n, j)) /\ \A n : ~ItemOf(fn, n)

Alike(f, g) == SameEdges(f, g) /\ SameItems(f, g)

\* Nodes with the same terms are alike, and so are two empty ones.
LEMMA AlikeBy ==
  /\ \A f, g : g.fterms = f.fterms => SameEdges(f, g)
  /\ \A f, g : g.iterms = f.iterms => SameItems(f, g)
  /\ \A f, g : EmptyNode(f) /\ EmptyNode(g) => Alike(f, g)
  /\ \A f : Alike(f, f)
<1>1. \A f, g : g.fterms = f.fterms => SameEdges(f, g)
  BY DEF SameEdges, EdgeOf
<1>2. \A f, g : g.iterms = f.iterms => SameItems(f, g)
  BY DEF SameItems, ItemOf
<1>3. ASSUME NEW f, NEW g, EmptyNode(f), EmptyNode(g) PROVE Alike(f, g)
  <2>1. \A n, j : EdgeOf(f, n, j) \in BOOLEAN /\ EdgeOf(g, n, j) \in BOOLEAN
    BY DEF EdgeOf
  <2>2. \A n : ItemOf(f, n) \in BOOLEAN /\ ItemOf(g, n) \in BOOLEAN
    BY DEF ItemOf
  <2> QED
    BY <1>3, <2>1, <2>2 DEF EmptyNode, Alike, SameEdges, SameItems
<1> QED
  BY <1>1, <1>2, <1>3 DEF Alike

\* A node with no used term but "." and ".." is empty.
LEMMA EmptyBy ==
  ASSUME NEW fn, \A s \in Sub : ~fn.fterms[s].used, \A s \in ISlot : ~fn.iterms[s].used
  PROVE  EmptyNode(fn)
BY DEF EmptyNode, EdgeOf, ItemOf

\* insert_fterm.
LEMMA EdgeAdded ==
  ASSUME NEW fn \in Node, NEW n \in AnyName, ~FolderTaken(fn, n), NEW s, FirstUnused(fn.fterms, Sub, s),
         NEW y \in FIdx, NEW g, g = WithFolder(fn, s, n, y)
  PROVE  /\ g \in Node /\ SameItems(fn, g) /\ \A j : ~EdgeOf(fn, n, j)
         /\ \A m, j : EdgeOf(g, m, j) <=> EdgeOf(fn, m, j) \/ (m = n /\ j = y)
<1>1. s \in Sub /\ s \in FSlot /\ ~fn.fterms[s].used /\ Sub \subseteq FSlot
  BY Limits DEF FirstUnused
<1>2. g \in Node /\ g.fterms = [fn.fterms EXCEPT ![s] = gen_term(n, y)] /\ g.iterms = fn.iterms
  BY <1>1, WithFolderTyped, WithFolderSame
<1>3. SameItems(fn, g)
  BY <1>2, AlikeBy
<1>4. \A j : ~EdgeOf(fn, n, j)
  BY DEF FolderTaken, EdgeOf
<1>5. fn.fterms \in [FSlot -> FolderTerm]
  BY PartsOfNode
<1>6. /\ g.fterms[s].used /\ g.fterms[s].name = n /\ g.fterms[s].idx = y
      /\ \A t \in Sub : t # s => g.fterms[t] = fn.fterms[t]
  BY <1>1, <1>2, <1>5, TermIs
<1>7. \A m, j : EdgeOf(g, m, j) <=> EdgeOf(fn, m, j) \/ (m = n /\ j = y)
  BY <1>1, <1>6 DEF EdgeOf
<1> QED
  BY <1>2, <1>3, <1>4, <1>7

\* insert_iterm.
LEMMA ItemAdded ==
  ASSUME NEW fn \in Node, NEW n \in AnyName, ~FileTaken(fn, n), NEW s, FirstUnused(fn.iterms, ISlot, s),
         NEW y \in IIdx, NEW g, g = WithFile(fn, s, n, y)
  PROVE  /\ g \in Node /\ SameEdges(fn, g) /\ ~ItemOf(fn, n)
         /\ \A m : ItemOf(g, m) <=> ItemOf(fn, m) \/ m = n
<1>1. s \in ISlot /\ ~fn.iterms[s].used
  BY DEF FirstUnused
<1>2. g \in Node /\ g.iterms = [fn.iterms EXCEPT ![s] = gen_term(n, y)] /\ g.fterms = fn.fterms
  BY <1>1, WithFileTyped, WithFileSame
<1>3. SameEdges(fn, g)
  BY <1>2, AlikeBy
<1>4. ~ItemOf(fn, n)
  BY DEF FileTaken, ItemOf
<1>5. fn.iterms \in [ISlot -> FileTerm]
  BY PartsOfNode
<1>6. /\ g.iterms[s].used /\ g.iterms[s].name = n
      /\ \A t \in ISlot : t # s => g.iterms[t] = fn.iterms[t]
  BY <1>1, <1>2, <1>5, TermIs
<1>7. \A m : ItemOf(g, m) <=> ItemOf(fn, m) \/ m = n
  BY <1>1, <1>6 DEF ItemOf
<1> QED
  BY <1>2, <1>3, <1>4, <1>7

\* What DropTerms leaves in use, for the slots of folders and of files.
LEMMA Left ==
  ASSUME NEW V, NEW X, NEW terms \in [X -> Terms(V)], NEW slots \in SUBSET X,
         NEW n, NEW G, G = DropTerms(terms, slots, n)
  PROVE  \A s \in slots : /\ G[s].name = terms[s].name /\ G[s].idx = terms[s].idx
                          /\ G[s].used <=> terms[s].used /\ terms[s].name # n
<1> SUFFICES ASSUME NEW s \in slots
             PROVE  /\ G[s].name = terms[s].name /\ G[s].idx = terms[s].idx
                    /\ G[s].used <=> terms[s].used /\ terms[s].name # n
  OBVIOUS
<1>0. terms[s] \in [used : BOOLEAN, name : AnyName, idx : V]
  BY DEF Terms
<1>1. G[s] = IF s \in Matches(terms, slots, n) THEN [terms[s] EXCEPT !.used = FALSE] ELSE terms[s]
  BY DEF DropTerms
<1>2. s \in Matches(terms, slots, n) <=> terms[s].used /\ terms[s].name = n
  BY DEF Matches
<1>3. CASE s \in Matches(terms, slots, n)
  BY <1>0, <1>1, <1>2, <1>3
<1>4. CASE s \notin Matches(terms, slots, n)
  BY <1>1, <1>2, <1>4
<1> QED
  BY <1>3, <1>4

\* delete_fterm.
LEMMA EdgeDropped ==
  ASSUME NEW fn \in Node, NEW n, NEW g, g = delete_fterm(fn, n)
  PROVE  /\ g \in Node /\ SameItems(fn, g)
         /\ \A m, j : EdgeOf(g, m, j) <=> EdgeOf(fn, m, j) /\ m # n
<1>1. g \in Node /\ g.fterms = DropTerms(fn.fterms, Sub, n) /\ g.iterms = fn.iterms
  BY DropTyped
<1> DEFINE terms == fn.fterms  G == g.fterms
<1>2. terms \in [FSlot -> Terms(FIdx)]
  BY PartsOfNode DEF Terms, FolderTerm
<1>3. G = DropTerms(terms, Sub, n) /\ Sub \in SUBSET FSlot
  BY <1>1, Limits
<1> HIDE DEF terms, G
<1>4. \A s \in Sub : /\ G[s].name = terms[s].name /\ G[s].idx = terms[s].idx
                     /\ G[s].used <=> terms[s].used /\ terms[s].name # n
  BY <1>2, <1>3, Left
<1> QED
  BY <1>1, <1>4, AlikeBy DEF EdgeOf, terms, G

\* delete_iterm.
LEMMA ItemDropped ==
  ASSUME NEW fn \in Node, NEW n, NEW g, g = delete_iterm(fn, n)
  PROVE  /\ g \in Node /\ SameEdges(fn, g)
         /\ \A m : ItemOf(g, m) <=> ItemOf(fn, m) /\ m # n
<1>1. g \in Node /\ g.iterms = DropTerms(fn.iterms, ISlot, n) /\ g.fterms = fn.fterms
  BY DropTyped
<1> DEFINE terms == fn.iterms  G == g.iterms
<1>2. terms \in [ISlot -> Terms(IIdx)]
  BY PartsOfNode DEF Terms, FileTerm
<1>3. G = DropTerms(terms, ISlot, n) /\ ISlot \in SUBSET ISlot
  BY <1>1, Limits
<1> HIDE DEF terms, G
<1>4. \A s \in ISlot : /\ G[s].name = terms[s].name /\ G[s].idx = terms[s].idx
                       /\ G[s].used <=> terms[s].used /\ terms[s].name # n
  BY <1>2, <1>3, Left
<1> QED
  BY <1>1, <1>4, AlikeBy DEF ItemOf, terms, G

\* gen_fnode.
LEMMA GenEmpty ==
  ASSUME NEW y \in FIdx, NEW parent \in FolderTerm
  PROVE  gen_fnode(y, parent) \in Node /\ EmptyNode(gen_fnode(y, parent))
<1> DEFINE g == gen_fnode(y, parent)
<1>1. /\ g \in Node
      /\ g.fterms = [[[s \in FSlot |-> NoTerm] EXCEPT ![SELF_IDX] = gen_term(".", y)]
                        EXCEPT ![PARENT_IDX] = [parent EXCEPT !.name = ".."]]
      /\ g.iterms = [s \in ISlot |-> NoTerm]
  BY GenTyped
<1> HIDE DEF g
<1>2. ~NoTerm.used
  BY DEF NoTerm
<1>3. \A s \in Sub : g.fterms[s] = NoTerm
  BY <1>1, Limits
<1>4. \A s \in ISlot : g.iterms[s] = NoTerm
  BY <1>1
<1> QED
  BY <1>1, <1>2, <1>3, <1>4, EmptyBy DEF g

-----------------------------------------------------------------------------
(* The tree through the writes of a call.                                  *)

IsTree(d) == d \in Disks /\ \E F : Treelike(d, F)

\* One step of the tree, or none.
TreeMove(d, e) ==
  \/ SameSeen(d, e)
  \/ MadeFolder(d, e) \/ MadeFile(d, e)
  \/ RemovedFolder(d, e) \/ RemovedFile(d, e)

\* The writes ws leave every node's terms, whatever their order.
Quiet(d, ws) == \A k \in DOMAIN ws : ws[k].blk \in FIdx => Alike(d[ws[k].blk], ws[k].data)

\* The first write makes the step, the others leave it.
Planned(d, ws) ==
  ws # <<>> => /\ TreeMove(d, Put(d, Head(ws))) /\ IsTree(Put(d, Head(ws)))
               /\ Quiet(Put(d, Head(ws)), Tail(ws))

\* A free node has no terms: what is created in it starts empty.
FreeEmpty(d, s) == \A i \in FIdx \ s.fmap : EmptyNode(d[i])

Orderly ==
  /\ IsTree(disk)
  /\ FreeEmpty(After(disk, todo), sb)
  /\ Planned(disk, todo)

\* The disk with one write more.
LEMMA PutTyped ==
  ASSUME NEW d \in Disks, NEW w \in NodeWrite
  PROVE  /\ Put(d, w) \in Disks
         /\ w.blk \in FIdx => Put(d, w)[w.blk] = w.data
         /\ \A i \in FIdx : i # w.blk => Put(d, w)[i] = d[i]
<1>1. w.blk \in FIdx \cup {SB}
  BY DEF NodeWrite
<1>2. CASE w.blk \in FIdx
  <2>1. w.data \in Node
    BY <1>2, Limits DEF NodeWrite
  <2>2. Put(d, w) = Store(d, w.blk, w.data)
    BY DEF Put, Store
  <2> QED
    BY <1>2, <2>1, <2>2, Stored
<1>3. CASE w.blk = SB
  <2>1. w.data \in SuperBlock
    BY <1>3, Limits DEF NodeWrite
  <2> QED
    BY <1>3, <2>1, Limits DEF Put, Disks
<1> QED
  BY <1>1, <1>2, <1>3

\* Writes that leave the terms may be made one by one.
LEMMA QuietPlanned ==
  ASSUME NEW d, IsTree(d), NEW ws \in Seq(NodeWrite), Quiet(d, ws)
  PROVE  Planned(d, ws)
<1> SUFFICES ASSUME ws # <<>>
             PROVE  /\ TreeMove(d, Put(d, Head(ws))) /\ IsTree(Put(d, Head(ws)))
                    /\ Quiet(Put(d, Head(ws)), Tail(ws))
  BY DEF Planned
<1> DEFINE w == Head(ws)  e == Put(d, w)
<1>1. /\ w \in NodeWrite /\ w = ws[1] /\ 1 \in DOMAIN ws
      /\ \A k \in DOMAIN Tail(ws) : k + 1 \in DOMAIN ws /\ Tail(ws)[k] = ws[k + 1]
  OBVIOUS
<1>2. d \in Disks
  BY DEF IsTree
<1>3. /\ e \in Disks
      /\ w.blk \in FIdx => e[w.blk] = w.data
      /\ \A i \in FIdx : i # w.blk => e[i] = d[i]
  BY <1>1, <1>2, PutTyped
<1>4. w.blk \in FIdx => Alike(d[w.blk], w.data)
  BY <1>1 DEF Quiet
<1> HIDE DEF w, e
<1>5. \A i \in FIdx : Alike(d[i], e[i])
  BY <1>3, <1>4, AlikeBy
<1>6. SameSeen(d, e)
  BY <1>5, LeadsTyped, SeenAlike DEF Alike
<1>7. IsTree(e)
  <2>1. PICK F : Treelike(d, F)
    BY DEF IsTree
  <2>2. \A i \in FIdx : \A n, j : EdgeOf(e[i], n, j) => EdgeOf(d[i], n, j)
    BY <1>5 DEF Alike, SameEdges
  <2>3. Treelike(e, F)
    BY <1>2, <1>3, <2>1, <2>2, TreelikeLess
  <2> QED
    BY <1>3, <2>3 DEF IsTree
<1>8. ASSUME NEW k \in DOMAIN Tail(ws), Tail(ws)[k].blk \in FIdx
      PROVE  Alike(e[Tail(ws)[k].blk], Tail(ws)[k].data)
  <2> DEFINE v == Tail(ws)[k]
  <2>1. Alike(d[v.blk], v.data)
    BY <1>1, <1>8 DEF Quiet
  <2>2. Alike(d[v.blk], e[v.blk])
    BY <1>5, <1>8
  <2> HIDE DEF v
  <2>3. Alike(e[v.blk], v.data)
    BY <2>1, <2>2 DEF Alike, SameEdges, SameItems
  <2> QED
    BY <2>3 DEF v
<1> QED
  BY <1>6, <1>7, <1>8 DEF TreeMove, Quiet, w, e

\* A write reaches the disk.
LEMMA WriteOrderly ==
  ASSUME Typed, Orderly, WriteNext
  PROVE  Orderly' /\ TreeMove(disk, disk')
<1>1. todo # <<>> /\ todo \in Seq(NodeWrite) /\ UNCHANGED sb /\ disk' = Put(disk, Head(todo)) /\ todo' = Tail(todo)
  BY DEF WriteNext, Typed, Put
<1>2. After(disk', todo') = After(disk, todo)
  BY <1>1, HeadPut
<1>3. TreeMove(disk, disk') /\ IsTree(disk') /\ Quiet(disk', todo')
  BY <1>1 DEF Orderly, Planned
<1>4. todo' \in Seq(NodeWrite)
  BY <1>1
<1>5. Planned(disk', todo')
  BY <1>3, <1>4, QuietPlanned
<1> QED
  BY <1>1, <1>2, <1>3, <1>5 DEF Orderly

\* The steps that write nothing.
LEMMA NothingPlanned ==
  ASSUME Typed, Orderly, UNCHANGED <<sb, disk, todo>>
  PROVE  Orderly'
BY DEF Orderly

\* With nothing to write, a call begins its writes.
LEMMA Plans ==
  ASSUME Typed, Orderly, todo = <<>>, disk' = disk,
         FreeEmpty(After(disk, todo'), sb'), Planned(disk, todo')
  PROVE  Orderly'
BY DEF Orderly

\* On the disk as it is, a free node is empty.
LEMMA FreeNow ==
  ASSUME Typed, Orderly, todo = <<>>
  PROVE  disk \in Disks /\ IsTree(disk) /\ FreeEmpty(disk, sb)
BY NothingToWrite DEF Orderly

\* A write of the super block alone, or as the last of two, leaves the terms.
LEMMA SbQuiet ==
  ASSUME NEW d, NEW s
  PROVE  /\ Quiet(d, <<[blk |-> SB, data |-> s]>>) /\ Quiet(d, <<>>)
<1> DEFINE u == [blk |-> SB, data |-> s]  us == <<u>>
<1>1. u.blk \notin FIdx
  BY Limits
<1>2. \A k \in DOMAIN us : us[k] = u
  OBVIOUS
<1>3. DOMAIN <<>> = {}
  OBVIOUS
<1> HIDE DEF u
<1>4. Quiet(d, <<u>>)
  BY <1>1, <1>2 DEF Quiet
<1>5. Quiet(d, <<>>)
  BY <1>3 DEF Quiet
<1> QED
  BY <1>4, <1>5 DEF u

\* The first write of a call: one node's.
LEMMA NodeStored ==
  ASSUME disk \in Disks, NEW x \in FIdx, NEW f \in Node, NEW u, u = write_fnode(f, x), NEW e, e = Put(disk, u)
  PROVE  /\ u \in NodeWrite /\ e \in Disks /\ e[x] = f /\ \A i \in FIdx : i # x => e[i] = disk[i]
         /\ Elsewhere(e, x)
<1>1. u \in NodeWrite /\ u.blk = x /\ u.data = f
  BY DEF write_fnode, NodeWrite
<1>2. e \in Disks /\ e[x] = f /\ \A i \in FIdx : i # x => e[i] = disk[i]
  BY <1>1, PutTyped
<1>3. Elsewhere(e, x)
  BY <1>2, AlikeBy DEF Elsewhere, Alike
<1> QED
  BY <1>1, <1>2, <1>3

\* Who changes a folder that is cut off changes nothing that has a path.
LEMMA CutSilent ==
  ASSUME NEW F, Branches(disk, F), NEW x, Orphan(disk, F, x), NEW e, Elsewhere(e, x)
  PROVE  SameSeen(disk, e)
<1>1. \A p, i : Leads(disk, p, i) => i # x /\ i \in FIdx
  BY LeadsReach, LeadsTyped, ReachedUsed
<1> QED
  BY <1>1, SeenAlike DEF Elsewhere

\* create_folder: the parent's node is written first, the new node last.
LEMMA FolderPlanned ==
  ASSUME Typed, Orderly, todo = <<>>, disk' = disk, GoodDisk(disk, sb), NEW x, Reach(disk, {}, x),
         NEW n \in AnyName, ~FolderTaken(disk[x], n), NEW s, FirstUnused(disk[x].fterms, Sub, s),
         NEW y \in FIdx \ sb.fmap, sb' \in SuperBlock, sb'.fmap = sb.fmap \cup {y},
         NEW f, f = WithFolder(disk[x], s, n, y), NEW g \in Node, EmptyNode(g),
         todo' = <<write_fnode(f, x), [blk |-> SB, data |-> sb'], write_fnode(g, y)>>
  PROVE  Orderly'
<1> DEFINE u == write_fnode(f, x)  v == [blk |-> SB, data |-> sb']  w == write_fnode(g, y)
           e == Put(disk, u)  F == sb.fmap
<1>0. u = write_fnode(f, x) /\ e = Put(disk, u) /\ todo' = <<u, v, w>>
  OBVIOUS
<1>1. /\ x \in F /\ x \in FIdx /\ disk[x] \in Node /\ Treelike(disk, F) /\ disk \in Disks
      /\ FreeEmpty(disk, sb) /\ y \in FIdx /\ y # x
  BY NodeHere, GoodTreelike, FreeNow DEF GoodDisk
<1>7. w \in NodeWrite /\ w.blk = y /\ w.data = g
  BY <1>1 DEF write_fnode, NodeWrite
<1>8. v \in NodeWrite /\ v.blk = SB /\ v.data = sb'
  BY DEF NodeWrite
<1> HIDE DEF u, e, v, w
<1>2. /\ f \in Node /\ SameItems(disk[x], f) /\ \A j : ~EdgeOf(disk[x], n, j)
      /\ \A m, j : EdgeOf(f, m, j) <=> EdgeOf(disk[x], m, j) \/ (m = n /\ j = y)
  <2> DEFINE fn == disk[x]
  <2>1. fn \in Node /\ ~FolderTaken(fn, n) /\ FirstUnused(fn.fterms, Sub, s) /\ f = WithFolder(fn, s, n, y)
    BY <1>1
  <2> HIDE DEF fn
  <2>2. f \in Node /\ SameItems(fn, f) /\ \A j : ~EdgeOf(fn, n, j)
    BY <1>1, <2>1, EdgeAdded
  <2>3. \A m, j : EdgeOf(f, m, j) <=> EdgeOf(fn, m, j) \/ (m = n /\ j = y)
    BY <1>1, <2>1, EdgeAdded
  <2> QED
    BY <2>2, <2>3 DEF fn
<1>3. /\ u \in NodeWrite /\ e \in Disks /\ e[x] = f /\ \A i \in FIdx : i # x => e[i] = disk[i]
      /\ Elsewhere(e, x)
  BY <1>0, <1>1, <1>2, NodeStored
<1>4. EmptyNode(e[y]) /\ e[y] = disk[y]
  BY <1>1, <1>3 DEF FreeEmpty
<1>5. NewFolder(e, F, x, n, y)
  BY <1>1, <1>2, <1>3, <1>4 DEF NewFolder, EmptyNode
<1>6. MadeFolder(disk, e)
  BY <1>1, <1>2, <1>3, <1>5, FolderAdded
<1>9. Treelike(e, F \cup {y})
  BY <1>1, <1>3, <1>5, TreelikeMore DEF Elsewhere
<1>10. Quiet(e, <<v, w>>)
  <2>1. Alike(e[y], g)
    BY <1>4, AlikeBy
  <2> DEFINE vs == <<v, w>>
  <2>2. \A k \in DOMAIN vs : vs[k] = v \/ vs[k] = w
    OBVIOUS
  <2> HIDE DEF vs
  <2>3. Quiet(e, vs)
    BY <1>7, <1>8, <2>1, <2>2, Limits DEF Quiet
  <2> QED
    BY <2>3 DEF vs
<1>11. Head(<<u, v, w>>) = u /\ Tail(<<u, v, w>>) = <<v, w>>
  OBVIOUS
<1>12. Planned(disk, todo')
  BY <1>0, <1>3, <1>6, <1>9, <1>10, <1>11 DEF Planned, TreeMove, IsTree
<1>13. FreeEmpty(After(disk, todo'), sb')
  <2> DEFINE a == Put(e, v)  b == Put(a, w)
  <2>1. After(disk, <<u, v, w>>) = b
    BY <1>0, <1>3, <1>7, <1>8, AfterThree
  <2>2. a \in Disks /\ \A i \in FIdx : a[i] = e[i]
    BY <1>3, <1>8, PutTyped, Limits
  <2> HIDE DEF a
  <2>3. \A i \in FIdx : i # y => b[i] = a[i]
    BY <1>7, <2>2, PutTyped
  <2> HIDE DEF b
  <2>4. \A i \in FIdx \ sb'.fmap : i # y /\ i # x /\ i \in FIdx \ sb.fmap
    BY <1>1
  <2>5. \A i \in FIdx \ sb'.fmap : b[i] = disk[i]
    BY <1>3, <2>2, <2>3, <2>4
  <2>6. FreeEmpty(b, sb')
    BY <1>1, <2>4, <2>5 DEF FreeEmpty
  <2> QED
    BY <1>0, <2>1, <2>6
<1> QED
  BY <1>12, <1>13, Plans

\* A node's write, then the super block's or none: no node is made free.
LEMMA NodeThenSb ==
  ASSUME Typed, Orderly, todo = <<>>, disk' = disk, NEW x \in sb.fmap, x \in FIdx, NEW f \in Node,
         sb' \in SuperBlock, sb'.fmap = sb.fmap,
         NEW u, u = write_fnode(f, x), NEW e, e = Put(disk, u), TreeMove(disk, e), IsTree(e),
         todo' = <<u>> \/ todo' = <<u, [blk |-> SB, data |-> sb']>>
  PROVE  Orderly'
<1> DEFINE v == [blk |-> SB, data |-> sb']
<1>1. disk \in Disks /\ FreeEmpty(disk, sb)
  BY FreeNow
<1>2. u \in NodeWrite /\ e \in Disks /\ \A i \in FIdx : i # x => e[i] = disk[i]
  BY <1>1, NodeStored
<1>3. v \in NodeWrite /\ v.blk = SB
  BY DEF NodeWrite
<1>4. Quiet(e, <<v>>) /\ Quiet(e, <<>>)
  BY SbQuiet
<1> HIDE DEF v
<1>5. Head(<<u>>) = u /\ Tail(<<u>>) = <<>> /\ Head(<<u, v>>) = u /\ Tail(<<u, v>>) = <<v>>
  OBVIOUS
<1>6. FreeEmpty(e, sb')
  BY <1>1, <1>2 DEF FreeEmpty
<1>7. CASE todo' = <<u>>
  <2>1. Planned(disk, todo')
    BY <1>4, <1>5, <1>7 DEF Planned
  <2>2. After(disk, todo') = e
    BY <1>2, <1>7, AfterOne
  <2> QED
    BY <1>6, <2>1, <2>2, Plans
<1>8. CASE todo' = <<u, v>>
  <2>1. Planned(disk, todo')
    BY <1>4, <1>5, <1>8 DEF Planned
  <2> DEFINE a == Put(e, v)
  <2>2. After(disk, todo') = a
    BY <1>2, <1>3, <1>8, AfterTwo
  <2>3. \A i \in FIdx : a[i] = e[i]
    BY <1>2, <1>3, PutTyped, Limits
  <2> HIDE DEF a
  <2>4. FreeEmpty(a, sb')
    BY <1>6, <2>3 DEF FreeEmpty
  <2> QED
    BY <2>1, <2>2, <2>4, Plans
<1> QED
  BY <1>7, <1>8 DEF v

\* create_file.
LEMMA FilePlanned ==
  ASSUME Typed, Orderly, todo = <<>>, disk' = disk, GoodDisk(disk, sb), NEW x, Reach(disk, {}, x),
         NEW n \in AnyName, ~FileTaken(disk[x], n), NEW s, FirstUnused(disk[x].iterms, ISlot, s),
         NEW y \in IIdx, sb' \in SuperBlock, sb'.fmap = sb.fmap,
         NEW f, f = WithFile(disk[x], s, n, y),
         todo' = <<write_fnode(f, x), [blk |-> SB, data |-> sb']>>
  PROVE  Orderly'
<1> DEFINE u == write_fnode(f, x)  e == Put(disk, u)  F == sb.fmap
<1>0. u = write_fnode(f, x) /\ e = Put(disk, u) /\ todo' = <<u, [blk |-> SB, data |-> sb']>>
  OBVIOUS
<1>1. x \in F /\ x \in FIdx /\ disk[x] \in Node /\ Treelike(disk, F) /\ disk \in Disks
  BY NodeHere, GoodTreelike DEF GoodDisk
<1>2. /\ f \in Node /\ SameEdges(disk[x], f) /\ ~ItemOf(disk[x], n)
      /\ \A m : ItemOf(f, m) <=> ItemOf(disk[x], m) \/ m = n
  BY <1>1, ItemAdded
<1> HIDE DEF u, e
<1>3. /\ e \in Disks /\ e[x] = f /\ \A i \in FIdx : i # x => e[i] = disk[i] /\ Elsewhere(e, x)
  BY <1>0, <1>1, <1>2, NodeStored
<1>7. Elsewhere(e, x)
  BY <1>0, <1>1, <1>2, NodeStored
<1>4. MadeFile(disk, e)
  BY <1>1, <1>2, <1>3, <1>7, FileAdded
<1>5. \A i \in FIdx : \A m, j : EdgeOf(e[i], m, j) => EdgeOf(disk[i], m, j)
  BY <1>2, <1>3 DEF SameEdges
<1>6. Treelike(e, F)
  BY <1>1, <1>3, <1>5, TreelikeLess
<1> QED
  BY <1>0, <1>1, <1>2, <1>3, <1>4, <1>6, NodeThenSb DEF TreeMove, IsTree

\* delete_file, in a folder that can be reached or in one cut off.
LEMMA FileGone ==
  ASSUME Typed, Orderly, todo = <<>>, disk' = disk, GoodDisk(disk, sb), NEW x \in sb.fmap,
         Reach(disk, {}, x) \/ Orphan(disk, sb.fmap, x),
         NEW n, NEW t \in Matches(disk[x].iterms, ISlot, n), sb' \in SuperBlock, sb'.fmap = sb.fmap,
         NEW f, f = delete_iterm(disk[x], n),
         todo' = <<write_fnode(f, x), [blk |-> SB, data |-> sb']>>
  PROVE  Orderly'
<1> DEFINE u == write_fnode(f, x)  e == Put(disk, u)  F == sb.fmap
<1>0. u = write_fnode(f, x) /\ e = Put(disk, u) /\ todo' = <<u, [blk |-> SB, data |-> sb']>>
  OBVIOUS
<1>1. x \in FIdx /\ disk[x] \in Node /\ Treelike(disk, F) /\ disk \in Disks /\ Branches(disk, F)
  BY SelfHere, GoodTreelike, GoodBranches DEF GoodDisk
<1>2. /\ f \in Node /\ SameEdges(disk[x], f)
      /\ \A m : ItemOf(f, m) <=> ItemOf(disk[x], m) /\ m # n
  BY <1>1, ItemDropped
<1>3. ItemOf(disk[x], n) /\ n \in AnyName
  <2>1. ItemOf(disk[x], n)
    BY DEF Matches, ItemOf
  <2> QED
    BY <1>1, <2>1, EdgeTyped
<1> HIDE DEF u, e
<1>4. /\ e \in Disks /\ e[x] = f /\ \A i \in FIdx : i # x => e[i] = disk[i]
      /\ Elsewhere(e, x)
  BY <1>0, <1>1, <1>2, NodeStored
<1>5. TreeMove(disk, e)
  <2>1. CASE Reach(disk, {}, x)
    <3>1. RemovedFile(disk, e)
      BY <1>1, <1>2, <1>3, <1>4, <2>1, FileDropped
    <3> QED
      BY <3>1 DEF TreeMove
  <2>2. CASE Orphan(disk, sb.fmap, x)
    BY <1>1, <1>4, <2>2, CutSilent DEF TreeMove
  <2> QED
    BY <2>1, <2>2
<1>6. \A i \in FIdx : \A m, j : EdgeOf(e[i], m, j) => EdgeOf(disk[i], m, j)
  BY <1>2, <1>4 DEF SameEdges
<1>7. Treelike(e, F)
  BY <1>1, <1>4, <1>6, TreelikeLess
<1> QED
  BY <1>0, <1>1, <1>2, <1>4, <1>5, <1>7, NodeThenSb DEF IsTree

\* delete_folder, in a folder that can be reached or in one cut off.
LEMMA FolderGone ==
  ASSUME Typed, Orderly, todo = <<>>, disk' = disk, GoodDisk(disk, sb), NEW x \in sb.fmap,
         Reach(disk, {}, x) \/ Orphan(disk, sb.fmap, x),
         NEW n, NEW outer, Enter(disk[x], n, outer), sb' = sb
  PROVE  Orderly'
<1> DEFINE f == delete_fterm(disk[x], n)  u == write_fnode(f, x)  e == Put(disk, u)  F == sb.fmap
<1>1. /\ x \in FIdx /\ disk[x] \in Node /\ self(disk[x]) = x /\ sb \in SuperBlock
      /\ Treelike(disk, F) /\ disk \in Disks /\ Branches(disk, F)
  BY SelfHere, GoodTreelike, GoodBranches DEF GoodDisk
<1>0. u = write_fnode(f, x) /\ e = Put(disk, u) /\ f = delete_fterm(disk[x], n)
  OBVIOUS
<1>2. PICK t \in Sub : t \in Matches(disk[x].fterms, Sub, n) /\ todo' = <<u>>
  BY <1>1 DEF Enter, IsDeleted
<1> HIDE DEF f, u, e
<1>3. /\ f \in Node /\ SameItems(disk[x], f)
      /\ \A m, j : EdgeOf(f, m, j) <=> EdgeOf(disk[x], m, j) /\ m # n
  BY <1>0, <1>1, EdgeDropped
<1>4. PICK y : EdgeOf(disk[x], n, y)
  BY <1>2 DEF Matches, EdgeOf
<1>9. n \in AnyName
  BY <1>1, <1>4, EdgeTyped
<1>5. /\ e \in Disks /\ e[x] = f /\ \A i \in FIdx : i # x => e[i] = disk[i]
      /\ Elsewhere(e, x)
  BY <1>0, <1>1, <1>3, NodeStored
<1>6. TreeMove(disk, e)
  <2>1. CASE Reach(disk, {}, x)
    <3>1. SameItems(disk[x], e[x]) /\ \A m, j : EdgeOf(e[x], m, j) <=> EdgeOf(disk[x], m, j) /\ m # n
      BY <1>3, <1>5
    <3>2. RemovedFolder(disk, e)
      BY <1>1, <1>4, <1>5, <1>9, <2>1, <3>1, FolderDropped
    <3> QED
      BY <3>2 DEF TreeMove
  <2>2. CASE Orphan(disk, sb.fmap, x)
    BY <1>1, <1>5, <2>2, CutSilent DEF TreeMove
  <2> QED
    BY <2>1, <2>2
<1>7. \A i \in FIdx : \A m, j : EdgeOf(e[i], m, j) => EdgeOf(disk[i], m, j)
  BY <1>3, <1>5
<1>8. Treelike(e, F)
  BY <1>1, <1>5, <1>7, TreelikeLess
<1> QED
  BY <1>0, <1>1, <1>2, <1>3, <1>5, <1>6, <1>8, NodeThenSb DEF IsTree

\* create_folder and create_file, on any folder that can be reached.
LEMMA CreateOrderly ==
  ASSUME Typed, Orderly, todo = <<>>, GoodDisk(disk, sb), NEW x, Reach(disk, {}, x), NEW back,
         NEW fn, fn = disk[x], NEW n \in AnyName
  PROVE  /\ create_folder(fn, n, back) => Orderly'
         /\ create_file(fn, n, back) => Orderly'
<1>0. /\ disk \in Disks /\ sb \in SuperBlock /\ x \in FIdx /\ fn \in Node /\ self(fn) = x
      /\ x \in sb.fmap
  BY NodeHere DEF Typed
<1>1. ASSUME sb' = sb, Return(fn, <<>>, back) PROVE Orderly'
  BY <1>1, NothingPlanned DEF Return
<1>2. ASSUME NEW i \in FIdx, NEW s \in Sub, IsLowestFree(i, sb.fmap, FNODE_NUM_LIM),
             ~FolderTaken(fn, n), FirstUnused(fn.fterms, Sub, s),
             sb' = [sb EXCEPT !.fmap = set_bitmap(@, i)],
             LET parent == [fn EXCEPT !.fterms[s] = gen_term(n, i), !.num_fterm = @ + 1]
             IN  Return(parent,
                        << write_fnode(parent, self(fn)), write_sb,
                           write_fnode(gen_fnode(i, parent.fterms[SELF_IDX]), i) >>, back)
      PROVE  Orderly'
  <2> DEFINE parent == WithFolder(fn, s, n, i)
             g == gen_fnode(i, parent.fterms[SELF_IDX])
  <2>1. /\ todo' = <<write_fnode(parent, x), [blk |-> SB, data |-> sb'], write_fnode(g, i)>>
        /\ disk' = disk
    BY <1>0, <1>2 DEF WithFolder, write_sb, Return
  <2>2. parent \in Node
    BY <1>0, WithFolderTyped, Limits
  <2>3. parent.fterms[SELF_IDX] \in FolderTerm
    BY <2>2, PartsOfNode, Limits
  <2>4. i \in FIdx \ sb.fmap
    BY <1>2 DEF IsLowestFree, FIdx
  <2>5. sb' \in SuperBlock /\ sb'.fmap = sb.fmap \cup {i}
    BY <1>0, <1>2, BitsTyped
  <2>6. g \in Node /\ EmptyNode(g)
    BY <2>3, GenEmpty
  <2>7. /\ parent = WithFolder(disk[x], s, n, i) /\ ~FolderTaken(disk[x], n)
        /\ FirstUnused(disk[x].fterms, Sub, s)
    BY <1>2
  <2> HIDE DEF parent, g
  <2> QED
    BY <2>1, <2>4, <2>5, <2>6, <2>7, FolderPlanned
<1>3. ASSUME NEW i \in IIdx, NEW s \in ISlot, ~FileTaken(fn, n), FirstUnused(fn.iterms, ISlot, s),
             sb' = [sb EXCEPT !.imap = set_bitmap(@, i)],
             LET parent == [fn EXCEPT !.iterms[s] = gen_term(n, i), !.num_iterm = @ + 1]
             IN  Return(parent, << write_fnode(parent, self(fn)), write_sb >>, back)
      PROVE  Orderly'
  <2> DEFINE parent == WithFile(fn, s, n, i)
  <2>1. todo' = <<write_fnode(parent, x), [blk |-> SB, data |-> sb']>> /\ disk' = disk
    BY <1>0, <1>3 DEF WithFile, write_sb, Return
  <2>2. sb' \in SuperBlock /\ sb'.fmap = sb.fmap
    BY <1>0, <1>3, BitsTyped
  <2>3. /\ parent = WithFile(disk[x], s, n, i) /\ ~FileTaken(disk[x], n)
        /\ FirstUnused(disk[x].iterms, ISlot, s)
    BY <1>3
  <2> HIDE DEF parent
  <2> QED
    BY <2>1, <2>2, <2>3, FilePlanned
<1>4. create_folder(fn, n, back) => Orderly'
  BY <1>1, <1>2 DEF create_folder
<1>5. create_file(fn, n, back) => Orderly'
  BY <1>1, <1>3 DEF create_file
<1> QED
  BY <1>4, <1>5

\* The calls that create.
LEMMA CreatesOrderly ==
  ASSUME Typed, Calm, Orderly
  PROVE  /\ \A n \in Names \cup Dots : CreateFolder(n) \/ CreateFile(n) => Orderly'
         /\ CreateUnnamed => Orderly'
<1>1. ASSUME NEW n \in Names \cup Dots, CreateFolder(n) \/ CreateFile(n) PROVE Orderly'
  <2>1. Walking
    BY <1>1 DEF CreateFolder, CreateFile
  <2>2. /\ todo = <<>> /\ GoodDisk(disk, sb) /\ Reach(disk, {}, self(cf)) /\ cf = disk[self(cf)]
    BY <2>1, Resting
  <2>3. n \in AnyName
    BY DEF AnyName
  <2>4. create_folder(cf, n, origin) \/ create_file(cf, n, origin)
    BY <1>1 DEF CreateFolder, CreateFile
  <2> QED
    BY <2>2, <2>3, <2>4, CreateOrderly
<1>2. ASSUME CreateUnnamed PROVE Orderly'
  <2>1. todo = <<>> /\ GoodDisk(disk, sb) /\ Reach(disk, {}, self(cf)) /\ cf = disk[self(cf)]
    BY <1>2, Resting DEF CreateUnnamed
  <2>2. PICK n \in Names \cup {""} :
          \/ create_file(cf, n, self(cf))
          \/ create_file(read_fnode(sb.fmap, disk, cf, ROOT_FOLDER_IDX), n, self(cf))
    BY <1>2 DEF CreateUnnamed
  <2>3. n \in AnyName
    BY DEF AnyName
  <2>4. Reach(disk, {}, ROOT_FOLDER_IDX)
    BY RootReach
  <2>5. read_fnode(sb.fmap, disk, cf, ROOT_FOLDER_IDX) = disk[ROOT_FOLDER_IDX]
    <3>1. ROOT_FOLDER_IDX \in sb.fmap
      BY <2>1, <2>4, NodeHere
    <3> QED
      BY <3>1 DEF read_fnode
  <2>6. CASE create_file(cf, n, self(cf))
    BY <2>1, <2>3, <2>6, CreateOrderly
  <2>7. CASE create_file(read_fnode(sb.fmap, disk, cf, ROOT_FOLDER_IDX), n, self(cf))
    BY <2>1, <2>3, <2>4, <2>5, <2>7, CreateOrderly
  <2> QED
    BY <2>2, <2>6, <2>7
<1> QED
  BY <1>1, <1>2

\* PSV_delete_file and PSV_delete_folder.
LEMMA DeletesOrderly ==
  ASSUME Typed, Calm, Orderly, NEW n
  PROVE  /\ DeleteFile(n) => Orderly'
         /\ DeleteFolder(n) => Orderly'
<1>1. ASSUME Fails PROVE Orderly'
  BY <1>1, NothingPlanned DEF Fails
<1>2. ASSUME Walking
      PROVE  /\ todo = <<>> /\ GoodDisk(disk, sb) /\ Reach(disk, {}, self(cf)) /\ cf = disk[self(cf)]
             /\ self(cf) \in sb.fmap /\ sb \in SuperBlock
  BY <1>2, Resting, NodeHere DEF Typed
<1>3. ASSUME NEW t \in ISlot, Walking, IsDeleted(t, cf.iterms, ISlot, n), cf' = delete_iterm(cf, n),
             sb' = [sb EXCEPT !.imap = clear_bitmap(@, cf.iterms[t].idx)],
             todo' = FileWrites(cf'), UNCHANGED disk
      PROVE  Orderly'
  <2> DEFINE x == self(cf)  f == delete_iterm(disk[x], n)
  <2>1. /\ todo = <<>> /\ GoodDisk(disk, sb) /\ Reach(disk, {}, x) /\ cf = disk[x] /\ x \in sb.fmap
        /\ disk[x] \in Node
    BY <1>2, <1>3, SelfHere
  <2>2. t \in Matches(disk[x].iterms, ISlot, n)
    BY <1>3, <2>1 DEF IsDeleted
  <2>3. sb' \in SuperBlock /\ sb'.fmap = sb.fmap
    BY <1>2, <1>3, BitsTyped
  <2>4. self(f) = x
    <3>1. f.fterms = disk[x].fterms
      BY <2>1, DropTyped
    <3> QED
      BY <2>1, <3>1, SelfHere DEF self
  <2>5. todo' = <<write_fnode(f, x), [blk |-> SB, data |-> sb']>> /\ disk' = disk
    <3>1. todo' = FileWrites(f)
      BY <1>3, <2>1
    <3> HIDE DEF f
    <3> QED
      BY <1>3, <2>4, <3>1 DEF FileWrites, write_sb
  <2>6. f = delete_iterm(disk[x], n)
    OBVIOUS
  <2> HIDE DEF x, f
  <2> QED
    BY <2>1, <2>2, <2>3, <2>5, <2>6, FileGone
<1>4. ASSUME Walking, Enter(cf, n, <<>>), UNCHANGED <<sb, disk>>
      PROVE  Orderly'
  <2> DEFINE x == self(cf)
  <2>1. todo = <<>> /\ GoodDisk(disk, sb) /\ Reach(disk, {}, x) /\ cf = disk[x] /\ x \in sb.fmap
    BY <1>2, <1>4
  <2>2. Enter(disk[x], n, <<>>)
    BY <1>4, <2>1
  <2> HIDE DEF x
  <2> QED
    BY <1>4, <2>1, <2>2, FolderGone
<1> QED
  BY <1>1, <1>3, <1>4 DEF DeleteFile, DeleteFolder

\* The recursion of delete_folder.
LEMMA RecursionOrderly ==
  ASSUME Typed, Calm, Orderly
  PROVE  /\ DeleteNextFile => Orderly'
         /\ DeleteNextFolder => Orderly'
         /\ DeleteEmptied => Orderly'
<1> DEFINE x == Inner.bit
<1>1. ASSUME Deleting
      PROVE  /\ todo = <<>> /\ GoodDisk(disk, sb) /\ x \in sb.fmap /\ Inner.fn = disk[x]
             /\ Orphan(disk, sb.fmap, x) /\ disk[x] \in Node /\ sb \in SuperBlock
             /\ self(disk[x]) = x /\ x \in FIdx
  BY <1>1, Innermost, SelfHere DEF Typed
<1>2. ASSUME DeleteNextFile PROVE Orderly'
  <2>1. Deleting /\ disk' = disk
    BY <1>2 DEF DeleteNextFile
  <2>2. PICK s \in ISlot, t \in ISlot :
           LET terms == Inner.fn.iterms
               fn == delete_iterm(Inner.fn, terms[s].name)
           IN  /\ IsDeleted(t, terms, ISlot, terms[s].name)
               /\ sb' = [sb EXCEPT !.imap = clear_bitmap(@, terms[t].idx)]
               /\ todo' = FileWrites(fn)
    BY <1>2 DEF DeleteNextFile
  <2> DEFINE n == disk[x].iterms[s].name  f == delete_iterm(disk[x], n)
  <2>3. /\ todo = <<>> /\ GoodDisk(disk, sb) /\ x \in sb.fmap /\ Inner.fn = disk[x]
        /\ Orphan(disk, sb.fmap, x) /\ disk[x] \in Node /\ sb \in SuperBlock
        /\ self(disk[x]) = x
    BY <1>1, <2>1
  <2>4. t \in Matches(disk[x].iterms, ISlot, n)
    BY <2>2, <2>3 DEF IsDeleted
  <2>5. sb' \in SuperBlock /\ sb'.fmap = sb.fmap
    BY <2>2, <2>3, BitsTyped
  <2>6. f.fterms = disk[x].fterms
    BY <2>3, DropTyped
  <2>7. todo' = FileWrites(f)
    BY <2>2, <2>3
  <2>8. f = delete_iterm(disk[x], n)
    OBVIOUS
  <2> HIDE DEF x, n, f
  <2>9. todo' = <<write_fnode(f, x), [blk |-> SB, data |-> sb']>>
    BY <2>3, <2>6, <2>7 DEF FileWrites, write_sb, self
  <2> QED
    BY <2>1, <2>3, <2>4, <2>5, <2>8, <2>9, FileGone
<1>3. ASSUME DeleteNextFolder PROVE Orderly'
  <2>1. Deleting /\ UNCHANGED <<sb, disk>>
    BY <1>3 DEF DeleteNextFolder
  <2>2. CASE todo' = todo
    BY <2>1, <2>2, NothingPlanned
  <2>3. ASSUME NEW n, NEW outer, Enter(Inner.fn, n, outer) PROVE Orderly'
    <3>1. /\ todo = <<>> /\ GoodDisk(disk, sb) /\ x \in sb.fmap /\ Inner.fn = disk[x]
          /\ Orphan(disk, sb.fmap, x)
      BY <1>1, <2>1
    <3>2. Enter(disk[x], n, outer)
      BY <2>3, <3>1
    <3> HIDE DEF x
    <3> QED
      BY <2>1, <3>1, <3>2, FolderGone
  <2> QED
    BY <1>3, <2>2, <2>3 DEF DeleteNextFolder
<1>4. ASSUME DeleteEmptied PROVE Orderly'
  <2>1. /\ Deleting /\ disk' = disk
        /\ NoneUsed(Inner.fn.iterms, ISlot) /\ NoneUsed(Inner.fn.fterms, Sub)
        /\ sb' = [sb EXCEPT !.fmap = clear_bitmap(@, x)] /\ todo' = <<write_sb>>
    BY <1>4 DEF DeleteEmptied
  <2>2. todo = <<>> /\ Inner.fn = disk[x] /\ x \in FIdx /\ sb \in SuperBlock
    BY <1>1, <2>1
  <2>3. EmptyNode(disk[x])
    BY <2>1, <2>2, EmptyBy DEF NoneUsed
  <2> HIDE DEF x
  <2>4. sb' \in SuperBlock /\ sb'.fmap = sb.fmap \ {x}
    BY <2>1, <2>2, BitsTyped
  <2>5. disk \in Disks /\ IsTree(disk) /\ FreeEmpty(disk, sb)
    BY <2>2, FreeNow
  <2> DEFINE v == [blk |-> SB, data |-> sb']  e == Put(disk, v)
  <2>6. v \in NodeWrite /\ v.blk = SB /\ todo' = <<v>>
    BY <2>1, <2>4 DEF NodeWrite, write_sb
  <2>7. Quiet(disk, <<v>>)
    BY SbQuiet
  <2> HIDE DEF v
  <2>8. Planned(disk, todo')
    <3>1. <<v>> \in Seq(NodeWrite)
      BY <2>6
    <3> QED
      BY <2>5, <2>6, <2>7, <3>1, QuietPlanned
  <2>9. After(disk, todo') = e
    BY <2>6, AfterOne
  <2>10. \A i \in FIdx : e[i] = disk[i]
    BY <2>5, <2>6, PutTyped, Limits
  <2> HIDE DEF e
  <2>11. FreeEmpty(e, sb')
    BY <2>3, <2>4, <2>5, <2>10 DEF FreeEmpty
  <2> QED
    BY <2>1, <2>2, <2>8, <2>9, <2>11, Plans
<1> QED
  BY <1>2, <1>3, <1>4

\* The walks.
LEMMA WalkOrderly ==
  ASSUME Typed, Orderly, NEW n, Begin \/ WalkInto(n) \/ WalkFails(n) \/ Goin \/ Lookup
  PROVE  Orderly'
<1>1. UNCHANGED <<sb, disk, todo>>
  BY DEF Begin, WalkInto, WalkFails, Goin, Lookup
<1> QED
  BY <1>1, NothingPlanned

\* After PSV_setup there is the root, and nothing in any node.
LEMMA InitOrderly == Init => Orderly /\ FolderPaths(disk) = {RootPath} /\ FilePaths(disk) = {}
<1> SUFFICES ASSUME Init PROVE Orderly /\ FolderPaths(disk) = {RootPath} /\ FilePaths(disk) = {}
  OBVIOUS
<1>1. Typed /\ Calm /\ todo = <<>> /\ sb.fmap = {ROOT_FOLDER_IDX}
  BY InitTyped, InitCalm DEF Init, FreshSb
<1>2. After(disk, todo) = disk /\ disk \in Disks
  BY <1>1, NothingToWrite
<1>3. IsTree(disk)
  <2>1. FoldersGood(disk, sb.fmap)
    BY <1>1, <1>2 DEF Calm, Good, GoodDisk
  <2> QED
    BY <1>2, <2>1, GoodTreelike DEF IsTree
<1>4. ~NoTerm.used
  BY DEF NoTerm
<1>5. EmptyNode(ZeroFnode)
  <2>1. (\A s \in Sub : ZeroFnode.fterms[s] = NoTerm) /\ \A s \in ISlot : ZeroFnode.iterms[s] = NoTerm
    BY ZeroTyped, Limits
  <2> QED
    BY <1>4, <2>1, EmptyBy
<1>6. EmptyNode(RootFnode)
  <2>1. (\A s \in Sub : RootFnode.fterms[s] = NoTerm) /\ \A s \in ISlot : RootFnode.iterms[s] = NoTerm
    BY RootTyped, Limits
  <2> QED
    BY <1>4, <2>1, EmptyBy
<1>7. \A i \in FIdx : disk[i] = RootFnode \/ disk[i] = ZeroFnode
  BY Limits DEF Init
<1>8. \A i \in FIdx : EmptyNode(disk[i])
  BY <1>5, <1>6, <1>7
<1>9. Planned(disk, todo)
  BY <1>1 DEF Planned
<1>10. Orderly
  BY <1>2, <1>3, <1>8, <1>9 DEF Orderly, FreeEmpty
<1>11. ASSUME NEW p, NEW i, Leads(disk, p, i) PROVE p = RootPath /\ i = ROOT_FOLDER_IDX
  BY <1>8, <1>11, LeadsOnly DEF EmptyNode
<1>12. FolderPaths(disk) = {RootPath}
  BY <1>11, LeadsBy, LeadsTyped DEF FolderPaths
<1>13. FilePaths(disk) = {}
  BY <1>8 DEF FilePaths, EmptyNode
<1> QED
  BY <1>10, <1>12, <1>13

-----------------------------------------------------------------------------
(* The folders implement a tree of paths.                                  *)

\* While no power is lost, the writes of a call are in order too.
TreeInv == IInv /\ (crashes = 0 => Orderly)

\* Only a loss of power is counted, and only WriteNext writes.
LEMMA WhoWrites ==
  ASSUME [Next]_vars, ~Crash
  PROVE  crashes' = crashes /\ (disk' = disk \/ WriteNext)
<1>1. CASE WriteNext
  BY <1>1 DEF WriteNext
<1>2. CASE Begin \/ Goin \/ Lookup \/ DeleteNextFile \/ DeleteNextFolder \/ DeleteEmptied
  BY <1>2 DEF Begin, Goin, Lookup, DeleteNextFile, DeleteNextFolder, DeleteEmptied
<1>3. CASE CreateUnnamed
  BY <1>3 DEF CreateUnnamed, create_file, Return
<1>4. ASSUME NEW n, Call(n) PROVE UNCHANGED <<crashes, disk>>
  <2>1. CASE WalkInto(n) \/ WalkFails(n)
    BY <2>1 DEF WalkInto, WalkFails, Fails
  <2>2. CASE CreateFolder(n) \/ CreateFile(n)
    BY <2>2 DEF CreateFolder, CreateFile, create_folder, create_file, Return
  <2>3. CASE DeleteFile(n) \/ DeleteFolder(n)
    BY <2>3 DEF DeleteFile, DeleteFolder, Fails
  <2> QED
    BY <1>4, <2>1, <2>2, <2>3 DEF Call
<1>5. CASE UNCHANGED vars
  BY <1>5 DEF vars
<1> QED
  BY <1>1, <1>2, <1>3, <1>4, <1>5 DEF Next

\* A step leaves the writes in order, unless the power is lost.
LEMMA StepOrderly ==
  ASSUME Typed, Calm, Orderly, [Next]_vars, ~Crash
  PROVE  Orderly'
<1>1. CASE WriteNext
  BY <1>1, WriteOrderly
<1>2. CASE Begin \/ Goin \/ Lookup
  BY <1>2, WalkOrderly
<1>3. CASE CreateUnnamed
  BY <1>3, CreatesOrderly
<1>4. ASSUME NEW n \in Names \cup Dots, Call(n) PROVE Orderly'
  BY <1>4, WalkOrderly, CreatesOrderly, DeletesOrderly DEF Call
<1>5. CASE DeleteNextFile \/ DeleteNextFolder \/ DeleteEmptied
  BY <1>5, RecursionOrderly
<1>6. CASE UNCHANGED vars
  BY <1>6, NothingPlanned DEF vars
<1> QED
  BY <1>1, <1>2, <1>3, <1>4, <1>5, <1>6 DEF Next

\* So does every step, as long as no power was lost, and it is a step of the tree.
LEMMA StepMoves ==
  TreeInv /\ [Next]_vars
    => TreeInv' /\ (crashes' = 0 => IsTree(disk) /\ IsTree(disk)' /\ TreeMove(disk, disk'))
<1> SUFFICES ASSUME TreeInv, [Next]_vars
             PROVE  TreeInv' /\ (crashes' = 0 => IsTree(disk) /\ IsTree(disk)' /\ TreeMove(disk, disk'))
  OBVIOUS
<1>1. IInv' /\ Typed
  BY StepCalm DEF TreeInv, IInv
<1>2. CASE Crash
  <2>1. crashes' # 0
    BY <1>1, <1>2 DEF Crash, Typed
  <2> QED
    BY <1>1, <2>1 DEF TreeInv
<1>3. ASSUME ~Crash, crashes' = 0
      PROVE  Orderly' /\ IsTree(disk) /\ IsTree(disk)' /\ TreeMove(disk, disk')
  <2>1. crashes = 0 /\ (disk' = disk \/ WriteNext)
    BY <1>3, WhoWrites
  <2>2. Calm /\ Orderly
    BY <2>1 DEF TreeInv, IInv
  <2>3. Orderly'
    BY <1>1, <1>3, <2>2, StepOrderly
  <2>4. IsTree(disk) /\ IsTree(disk)'
    BY <2>2, <2>3 DEF Orderly
  <2>5. TreeMove(disk, disk')
    <3>1. CASE disk' = disk
      BY <3>1 DEF TreeMove, SameSeen
    <3>2. CASE WriteNext
      BY <1>1, <2>2, <3>2, WriteOrderly
    <3> QED
      BY <2>1, <3>1, <3>2
  <2> QED
    BY <2>3, <2>4, <2>5
<1> QED
  BY <1>1, <1>2, <1>3 DEF TreeInv

\* It is an invariant.
LEMMA TreeInvInvariant == Spec => []TreeInv
<1>1. Init => TreeInv
  BY InitTyped, InitCalm, InitOrderly DEF TreeInv, IInv
<1> QED
  BY <1>1, StepMoves, PTL DEF Spec

\* The two sets that the tree is made of.
FoldersSeen == {e[1] : e \in FoldersOnDisk}
FilesSeen == {e[1] : e \in FilesOnDisk}

\* Where the terms are a tree they are the paths of the folders and of the files.
LEMMA SeenNow == IsTree(disk) => FoldersSeen = FolderPaths(disk) /\ FilesSeen = FilePaths(disk)
BY Seen DEF IsTree, FoldersSeen, FilesSeen

\* And so after the step.
LEMMA SeenNext == (IsTree(disk) => FoldersSeen = FolderPaths(disk) /\ FilesSeen = FilePaths(disk))'
BY SeenNow, PTL

\* A step of the disk is one of the tree.
LEMMA MoveOfTree ==
  IsTree(disk) /\ IsTree(disk)' /\ TreeMove(disk, disk')
    => [Tree!Next]_<<FoldersSeen, FilesSeen>>
<1> SUFFICES ASSUME IsTree(disk), IsTree(disk)', TreeMove(disk, disk')
             PROVE  [Tree!Next]_<<FoldersSeen, FilesSeen>>
  OBVIOUS
<1>1. /\ FoldersSeen = FolderPaths(disk) /\ FilesSeen = FilePaths(disk)
      /\ FoldersSeen' = FolderPaths(disk') /\ FilesSeen' = FilePaths(disk')
  BY SeenNow, SeenNext
<1>2. ASSUME NEW p \in Paths, NEW n \in AnyName
      PROVE  /\ Under(p, n) # RootPath
             /\ Tree!Front(Under(p, n)) = p /\ Tree!Last(Under(p, n)) = n
  BY Appends DEF Paths, Under, RootPath
<1>3. CASE SameSeen(disk, disk')
  BY <1>1, <1>3 DEF SameSeen
<1>4. CASE MadeFolder(disk, disk')
  <2>1. PICK p \in Paths, n \in AnyName :
     /\ p \in FoldersSeen /\ Under(p, n) \notin FoldersSeen
     /\ FoldersSeen' = FoldersSeen \cup {Under(p, n)}
     /\ FilesSeen' = FilesSeen
    BY <1>1, <1>4 DEF MadeFolder
  <2> DEFINE q == Under(p, n)
  <2>2. Tree!IsNew(q)
    BY <1>2, <2>1 DEF Tree!IsNew, FoldersSeen, RootPath, AnyName
  <2> HIDE DEF q
  <2>3. Tree!MakeFolder
    BY <2>1, <2>2 DEF Tree!MakeFolder, FoldersSeen, FilesSeen, q
  <2> QED
    BY <2>3 DEF Tree!Next
<1>5. CASE MadeFile(disk, disk')
  <2>1. PICK p \in Paths, n \in AnyName :
     /\ p \in FoldersSeen /\ Under(p, n) \notin FilesSeen
     /\ FilesSeen' = FilesSeen \cup {Under(p, n)}
     /\ FoldersSeen' = FoldersSeen
    BY <1>1, <1>5 DEF MadeFile
  <2> DEFINE q == Under(p, n)
  <2>2. Tree!IsNew(q)
    BY <1>2, <2>1 DEF Tree!IsNew, FoldersSeen, RootPath, AnyName
  <2> HIDE DEF q
  <2>3. Tree!MakeFile
    BY <2>1, <2>2 DEF Tree!MakeFile, FoldersSeen, FilesSeen, q
  <2> QED
    BY <2>3 DEF Tree!Next
<1>6. CASE RemovedFolder(disk, disk')
  <2>1. PICK p \in FoldersSeen :
     /\ p # RootPath
     /\ FoldersSeen' = {q \in FoldersSeen : ~Tree!IsPrefix(p, q)}
     /\ p \notin FoldersSeen'
     /\ FilesSeen' = {q \in FilesSeen : ~Tree!IsStrictPrefix(p, q)}
    BY <1>1, <1>6 DEF RemovedFolder
  <2>2. Tree!RemoveFolder
    BY <2>1 DEF Tree!RemoveFolder, FoldersSeen, FilesSeen, RootPath
  <2> QED
    BY <2>2 DEF Tree!Next
<1>7. CASE RemovedFile(disk, disk')
  <2>1. PICK f \in FilesSeen : FilesSeen' = FilesSeen \ {f} /\ FoldersSeen' = FoldersSeen
    BY <1>1, <1>7 DEF RemovedFile
  <2>2. Tree!RemoveFile
    BY <2>1 DEF Tree!RemoveFile, FoldersSeen, FilesSeen
  <2> QED
    BY <2>2 DEF Tree!Next
<1> QED
  BY <1>3, <1>4, <1>5, <1>6, <1>7 DEF TreeMove

\* Until power is lost each call is one step of FolderTree, at the moment its
\* parent's node is written; the rest of the call changes nothing that has a path.
THEOREM TreeUntilLoss == Spec => Tree!Init /\ [][crashes' = 0 => Tree!Next]_<<FoldersSeen, FilesSeen>>
<1>1. Init => Tree!Init
  <2> SUFFICES ASSUME Init PROVE Tree!Init
    OBVIOUS
  <2>1. Orderly /\ FolderPaths(disk) = {RootPath} /\ FilePaths(disk) = {}
    BY InitOrderly
  <2>2. FoldersSeen = {RootPath} /\ FilesSeen = {}
    BY <2>1, SeenNow DEF Orderly
  <2> QED
    BY <2>2 DEF Tree!Init, FoldersSeen, FilesSeen, RootPath
<1>2. TreeInv /\ [Next]_vars => [crashes' = 0 => Tree!Next]_<<FoldersSeen, FilesSeen>>
  BY StepMoves, MoveOfTree
<1> QED
  BY <1>1, <1>2, TreeInvInvariant, PTL DEF Spec

\* Where power is never lost, the folders implement FolderTree.
THEOREM TreeImplemented == MaxCrashes = 0 => (Spec => ImplementsTree)
<1> SUFFICES ASSUME MaxCrashes = 0 PROVE Spec => ImplementsTree
  OBVIOUS
<1>1. TreeInv => crashes = 0
  BY DEF TreeInv, IInv, Typed
<1>2. (crashes = 0)' /\ [crashes' = 0 => Tree!Next]_<<FoldersSeen, FilesSeen>>
        => [Tree!Next]_<<{e[1] : e \in FoldersOnDisk}, {e[1] : e \in FilesOnDisk}>>
  BY DEF FoldersSeen, FilesSeen
<1> QED
  BY <1>1, <1>2, TreeInvInvariant, TreeUntilLoss, PTL DEF ImplementsTree, Tree!Spec

-----------------------------------------------------------------------------
(* What a loss of power hurts.                                             *)

\* The folder i of the disk d is hurt, and the file of its slot s.
HurtFolder(d, i) == Reach(d, {}, i) /\ (i \notin d[SB].fmap \/ self(d[i]) # i)
HurtFile(d, i, s) ==
  Reach(d, {}, i) /\ s \in Used(d[i].iterms, ISlot) /\ d[i].iterms[s].idx \notin d[SB].imap

\* No file is hurt and at most one folder, or no folder and at most one file.
OneHurt(d) ==
  \/ /\ \A i, s : ~HurtFile(d, i, s)
     /\ \A i, j : HurtFolder(d, i) /\ HurtFolder(d, j) => i = j
  \/ /\ \A i : ~HurtFolder(d, i)
     /\ \A i, j, s, t : HurtFile(d, i, s) /\ HurtFile(d, j, t) => i = j /\ s = t

\* Nothing of a disk in order is hurt.
LEMMA GoodUnhurt ==
  ASSUME NEW d, NEW s, GoodDisk(d, s)
  PROVE  OneHurt(d)
<1>1. d[SB] = s /\ FilesGood(d, s.fmap, s.imap)
  BY DEF GoodDisk
<1>2. \A i : Reach(d, {}, i) => i \in s.fmap /\ self(d[i]) = i
  BY NodeHere
<1>3. \A i : ~HurtFolder(d, i)
  BY <1>1, <1>2 DEF HurtFolder
<1>4. \A i, t : ~HurtFile(d, i, t)
  BY <1>1, <1>2 DEF HurtFile, FilesGood, FileTerms
<1> QED
  BY <1>3, <1>4 DEF OneHurt

\* The parent's node written by create_folder, and the super block or not: only
\* the folder under way is hurt.
LEMMA FolderHurt ==
  ASSUME NEW d, NEW s, GoodDisk(d, s), NEW x \in s.fmap, NEW y \in FIdx \ s.fmap, EmptyNode(d[y]),
         NEW e, \A i \in FIdx : i # x => e[i] = d[i],
         e[x].iterms = d[x].iterms, self(e[x]) = self(d[x]),
         \A j : Child(e, x, j) => Child(d, x, j) \/ j = y,
         s.fmap \subseteq e[SB].fmap, e[SB].imap = s.imap
  PROVE  OneHurt(e)
<1> DEFINE F == s.fmap
<1>1. /\ F \in SUBSET FIdx /\ ROOT_FOLDER_IDX \in F /\ x \in FIdx /\ x # y /\ FilesGood(d, F, s.imap)
      /\ Branches(d, F)
  BY GoodBranches DEF GoodDisk, FoldersGood
<1>2. \A i \in F : self(d[i]) = i
  BY SelfHere
<1>3. \A j : ~Child(e, y, j)
  BY <1>1 DEF EmptyNode, EdgeOf, Child, Holds
<1>4. \A i \in F, j \in FIdx : Child(e, i, j) => j \in F \/ j = y
  <2> TAKE i \in F, j \in FIdx
  <2>1. CASE i = x
    BY <1>1, <2>1 DEF Branches
  <2>2. CASE i # x
    BY <1>1, <2>2 DEF Branches, Child
  <2> QED
    BY <2>1, <2>2
<1>5. \A i : Reach(e, {}, i) => i \in F \/ i = y
  <2>1. Closed(e, F \cup {y}) /\ F \cup {y} \in SUBSET FIdx
    BY <1>1, <1>3, <1>4 DEF Closed
  <2> QED
    BY <2>1 DEF Reach
<1>6. \A i \in F : self(e[i]) = i /\ e[i].iterms = d[i].iterms
  BY <1>1, <1>2
<1>7. \A i, t : ~HurtFile(e, i, t)
  <2> SUFFICES ASSUME NEW i, NEW t, HurtFile(e, i, t) PROVE FALSE
    OBVIOUS
  <2>1. /\ i \in F \/ i = y
        /\ t \in Used(e[i].iterms, ISlot) /\ e[i].iterms[t].idx \notin s.imap
    BY <1>5 DEF HurtFile
  <2>2. CASE i \in F
    BY <1>1, <1>6, <2>1, <2>2 DEF FilesGood, FileTerms
  <2>3. CASE i = y
    <3>1. e[y] = d[y]
      BY <1>1
    <3> QED
      BY <2>1, <2>3, <3>1 DEF EmptyNode, ItemOf, Used
  <2> QED
    BY <2>1, <2>2, <2>3
<1>8. \A i : HurtFolder(e, i) => i = y
  BY <1>5, <1>6 DEF HurtFolder
<1> QED
  BY <1>7, <1>8 DEF OneHurt

\* The parent's node written by create_file: only the file under way is.
LEMMA FileHurt ==
  ASSUME NEW d, NEW s, GoodDisk(d, s), NEW x \in s.fmap,
         NEW n \in AnyName, ~FileTaken(d[x], n), NEW t, FirstUnused(d[x].iterms, ISlot, t),
         NEW y \in IIdx \ s.imap, NEW e, e = Put(d, write_fnode(WithFile(d[x], t, n, y), x))
  PROVE  OneHurt(e)
<1> DEFINE F == s.fmap  I == s.imap
<1>1. /\ d \in Disks /\ F \in SUBSET FIdx /\ FoldersGood(d, F) /\ FilesGood(d, F, I)
      /\ d[SB].fmap = F /\ d[SB].imap = I /\ x \in F /\ y \in IIdx \ I
  BY DEF GoodDisk, SuperBlock
<1> HIDE DEF F, I
<1>2. e = Store(d, x, WithFile(d[x], t, n, y))
  BY PutFnode
<1>3. e \in Disks /\ e[SB] = d[SB] /\ FilesGood(e, F, I \cup {y}) /\ SameFolderTerms(d, e)
  BY <1>1, <1>2, AddFile
<1>4. FoldersGood(e, F)
  BY <1>1, <1>3, SameTerms
<1>5. \A i : Reach(e, {}, i) => i \in F /\ self(e[i]) = i
  <2>1. Branches(e, F)
    BY <1>3, <1>4, GoodBranches
  <2>2. \A i \in F : self(e[i]) = i
    BY <1>4, TermIs DEF FoldersGood, FolderNode, FolderTerms, self
  <2> QED
    BY <2>1, <2>2, ReachedUsed
<1>6. \A i : ~HurtFolder(e, i)
  BY <1>1, <1>3, <1>5 DEF HurtFolder
<1>7. ASSUME NEW i, NEW r, HurtFile(e, i, r)
      PROVE  i \in F /\ r \in Used(e[i].iterms, ISlot) /\ e[i].iterms[r].idx = y
  BY <1>1, <1>3, <1>5, <1>7 DEF HurtFile, FilesGood, FileTerms
<1>8. ASSUME NEW i, NEW j, NEW r, NEW q, HurtFile(e, i, r), HurtFile(e, j, q)
      PROVE  i = j /\ r = q
  <2>1. /\ i \in F /\ r \in Used(e[i].iterms, ISlot) /\ e[i].iterms[r].idx = y
        /\ j \in F /\ q \in Used(e[j].iterms, ISlot) /\ e[j].iterms[q].idx = y
    BY <1>7, <1>8
  <2> QED
    BY <1>3, <2>1 DEF FilesGood
<1> QED
  BY <1>6, <1>8 DEF OneHurt

\* The node's write of delete_file alone: the inode's bit is set still.
LEMMA FileDropUnhurt ==
  ASSUME NEW d, NEW s, GoodDisk(d, s), NEW x \in s.fmap, NEW n,
         NEW t \in Matches(d[x].iterms, ISlot, n),
         NEW f, f = delete_iterm(d[x], n), NEW e, e = Put(d, write_fnode(f, x))
  PROVE  OneHurt(e)
<1> DEFINE e0 == Store(d, x, f)
<1>1. /\ d \in Disks /\ FoldersGood(d, s.fmap) /\ FilesGood(d, s.fmap, s.imap)
      /\ s.fmap \in SUBSET FIdx /\ s \in SuperBlock /\ d[SB] = s
  BY DEF GoodDisk, SuperBlock
<1>2. e = e0
  BY PutFnode
<1>3. /\ e0 \in Disks /\ e0[SB] = d[SB] /\ FilesGood(e0, s.fmap, s.imap \ {d[x].iterms[t].idx})
      /\ SameFolderTerms(d, e0)
  <2>1. e0[SB] = d[SB]
    <3>1. x \in FIdx /\ f \in Node
      BY SelfHere, DropTyped
    <3> QED
      BY <1>1, <3>1, Stored, Limits
  <2>2. e0 \in Disks /\ FilesGood(e0, s.fmap, s.imap \ {d[x].iterms[t].idx}) /\ SameFolderTerms(d, e0)
    BY <1>1, DropFile
  <2> QED
    BY <2>1, <2>2
<1> HIDE DEF e0
<1>4. FoldersGood(e0, s.fmap)
  BY <1>1, <1>3, SameTerms
<1>5. FilesGood(e0, s.fmap, s.imap)
  BY <1>3 DEF FilesGood, FileTerms
<1>6. GoodDisk(e0, s)
  BY <1>1, <1>3, <1>4, <1>5 DEF GoodDisk
<1> QED
  BY <1>2, <1>6, GoodUnhurt

-----------------------------------------------------------------------------
(* ... wherever the loss comes between the writes of a call.               *)

\* Whichever of the writes ws the last to reach the disk d is, at most one is
\* hurt.  After the last of them the disk is in order (Calm).
Spared(d, ws) ==
  /\ Len(ws) <= 3 /\ OneHurt(d)
  /\ Len(ws) > 1 => OneHurt(Put(d, ws[1]))
  /\ Len(ws) > 2 => OneHurt(Put(Put(d, ws[1]), ws[2]))

\* The calls issue none, one, two or three writes.
LEMMA SparedBy ==
  ASSUME NEW d, OneHurt(d), NEW u, NEW v, NEW w
  PROVE  /\ Spared(d, <<>>) /\ Spared(d, <<u>>)
         /\ OneHurt(Put(d, u)) => Spared(d, <<u, v>>)
         /\ OneHurt(Put(d, u)) /\ OneHurt(Put(Put(d, u), v)) => Spared(d, <<u, v, w>>)
<1>1. Len(<<>>) = 0 /\ Len(<<u>>) = 1
  OBVIOUS
<1>2. Spared(d, <<>>) /\ Spared(d, <<u>>)
  BY <1>1 DEF Spared
<1> DEFINE us == <<u, v>>  ws == <<u, v, w>>
<1>3. Len(us) = 2 /\ us[1] = u
  OBVIOUS
<1>4. Len(ws) = 3 /\ ws[1] = u /\ ws[2] = v
  OBVIOUS
<1> HIDE DEF us, ws
<1>5. OneHurt(Put(d, u)) => Spared(d, us)
  BY <1>3 DEF Spared
<1>6. OneHurt(Put(d, u)) /\ OneHurt(Put(Put(d, u), v)) => Spared(d, ws)
  BY <1>4 DEF Spared
<1> QED
  BY <1>2, <1>5, <1>6 DEF us, ws

\* A write reaches the disk.
LEMMA WriteSpared ==
  ASSUME Typed, Typed', Calm', Spared(disk, todo), WriteNext
  PROVE  Spared(disk', todo')
<1>0. /\ todo # <<>> /\ todo \in Seq(NodeWrite) /\ disk' = Put(disk, Head(todo))
      /\ todo' = Tail(todo)
  BY DEF WriteNext, Typed, Put
<1>1. disk' = Put(disk, todo[1])
  BY <1>0
<1>2. Len(todo) \in Nat \ {0} /\ Len(todo') = Len(todo) - 1
  BY <1>0
<1>3. CASE Len(todo) = 1
  <2>1. todo' = <<>>
    BY <1>0, <1>3
  <2>2. GoodDisk(After(disk', <<>>), sb')
    BY <2>1 DEF Calm, Good
  <2>3. After(disk', <<>>) = disk'
    <3>1. disk' \in Disks
      BY DEF Typed
    <3>2. disk' = [b \in DOMAIN disk' |-> disk'[b]]
      BY <3>1 DEF Disks
    <3> QED
      BY <3>2, AfterNone
  <2>4. OneHurt(disk')
    BY <2>2, <2>3, GoodUnhurt
  <2> QED
    BY <2>1, <2>4, SparedBy
<1>4. CASE Len(todo) = 2
  BY <1>1, <1>2, <1>4 DEF Spared
<1>5. CASE Len(todo) > 2
  <2>1. Len(todo) = 3 /\ todo'[1] = todo[2]
    BY <1>0, <1>2, <1>5 DEF Spared
  <2> QED
    BY <1>1, <1>2, <1>5, <2>1 DEF Spared
<1> QED
  BY <1>2, <1>3, <1>4, <1>5

\* create_folder and create_file, on any folder that can be reached.
LEMMA CreateSpared ==
  ASSUME Typed, Orderly, todo = <<>>, Spared(disk, todo), GoodDisk(disk, sb), NEW x, Reach(disk, {}, x),
         NEW back, NEW fn, fn = disk[x], NEW n \in AnyName
  PROVE  /\ create_folder(fn, n, back) => Spared(disk', todo')
         /\ create_file(fn, n, back) => Spared(disk', todo')
<1>0. /\ disk \in Disks /\ sb \in SuperBlock /\ x \in FIdx /\ fn \in Node /\ self(fn) = x
      /\ x \in sb.fmap /\ OneHurt(disk) /\ FreeEmpty(disk, sb) /\ disk[SB] = sb
  BY NodeHere, FreeNow DEF Typed, Spared, GoodDisk
<1>1. ASSUME Return(fn, <<>>, back) PROVE Spared(disk', todo')
  BY <1>0, <1>1, SparedBy DEF Return
<1>2. ASSUME NEW i \in FIdx, NEW s \in Sub, IsLowestFree(i, sb.fmap, FNODE_NUM_LIM),
             ~FolderTaken(fn, n), FirstUnused(fn.fterms, Sub, s),
             sb' = [sb EXCEPT !.fmap = set_bitmap(@, i)],
             LET parent == [fn EXCEPT !.fterms[s] = gen_term(n, i), !.num_fterm = @ + 1]
             IN  Return(parent,
                        << write_fnode(parent, self(fn)), write_sb,
                           write_fnode(gen_fnode(i, parent.fterms[SELF_IDX]), i) >>, back)
      PROVE  Spared(disk', todo')
  <2> DEFINE parent == WithFolder(fn, s, n, i)  u == write_fnode(parent, x)
             v == [blk |-> SB, data |-> sb']  w == write_fnode(gen_fnode(i, parent.fterms[SELF_IDX]), i)
             e == Put(disk, u)  e2 == Put(e, v)
  <2>1. todo' = <<u, v, w>> /\ disk' = disk
    BY <1>0, <1>2 DEF WithFolder, write_sb, Return
  <2>2. /\ parent \in Node /\ parent.iterms = fn.iterms
        /\ parent.fterms = [fn.fterms EXCEPT ![s] = gen_term(n, i)]
    BY <1>0, WithFolderTyped, WithFolderSame, Limits
  <2>3. self(parent) = self(fn)
    BY <1>0, <2>2, PartsOfNode, Limits DEF self
  <2>4. \A j : Child(e, x, j) => Child(disk, x, j) \/ j = i
    <3>1. e[x] = parent
      BY <1>0, <2>2, NodeStored
    <3> HIDE DEF parent, e
    <3> DEFINE terms == fn.fterms  G == parent.fterms
    <3>2. terms \in [FSlot -> FolderTerm] /\ G = [terms EXCEPT ![s] = gen_term(n, i)]
      BY <1>0, <2>2, PartsOfNode
    <3> HIDE DEF terms, G
    <3>3. \A t \in Sub : G[t] = terms[t] \/ G[t] = gen_term(n, i)
      BY <3>2, Limits
    <3>4. \A j : Holds(G, j) => Holds(terms, j) \/ j = i
      BY <3>3, TermIs DEF Holds
    <3> QED
      BY <3>1, <3>4 DEF Child, terms, G
  <2>5. i \in FIdx \ sb.fmap
    BY <1>2 DEF IsLowestFree, FIdx
  <2>6. EmptyNode(disk[i])
    BY <1>0, <2>5 DEF FreeEmpty
  <2>7. sb' \in SuperBlock /\ sb'.fmap = sb.fmap \cup {i} /\ sb'.imap = sb.imap
    BY <1>0, <1>2, BitsTyped
  <2>8. e \in Disks /\ e[x] = parent /\ \A j \in FIdx : j # x => e[j] = disk[j]
    BY <1>0, <2>2, NodeStored
  <2>9. e[SB] = sb
    <3>1. u.blk = x
      BY DEF write_fnode
    <3>2. SB \in DOMAIN disk
      BY <1>0 DEF Disks
    <3> HIDE DEF u
    <3> QED
      BY <1>0, <3>1, <3>2, Limits DEF Put
  <2>10. e2[SB] = sb' /\ \A j \in FIdx : e2[j] = e[j]
    BY <2>8, Limits DEF Put, Disks
  <2> HIDE DEF parent, u, v, w, e, e2
  <2>11. OneHurt(e)
    BY <1>0, <2>2, <2>3, <2>4, <2>5, <2>6, <2>8, <2>9, FolderHurt
  <2>12. OneHurt(e2)
    <3>1. /\ \A j \in FIdx : j # x => e2[j] = disk[j]
          /\ e2[x].iterms = disk[x].iterms /\ self(e2[x]) = self(disk[x])
      BY <1>0, <2>2, <2>3, <2>8, <2>10
    <3>2. \A j : Child(e2, x, j) => Child(disk, x, j) \/ j = i
      BY <1>0, <2>4, <2>10 DEF Child
    <3>3. sb.fmap \subseteq e2[SB].fmap /\ e2[SB].imap = sb.imap
      BY <2>7, <2>10
    <3> QED
      BY <1>0, <2>5, <2>6, <3>1, <3>2, <3>3, FolderHurt
  <2>13. e = Put(disk, u) /\ e2 = Put(e, v)
    BY DEF e, e2
  <2> QED
    BY <1>0, <2>1, <2>11, <2>12, <2>13, SparedBy
<1>3. ASSUME NEW i \in IIdx, NEW s \in ISlot, IsLowestFree(i, sb.imap, INODE_NUM_LIM),
             ~FileTaken(fn, n), FirstUnused(fn.iterms, ISlot, s),
             sb' = [sb EXCEPT !.imap = set_bitmap(@, i)],
             LET parent == [fn EXCEPT !.iterms[s] = gen_term(n, i), !.num_iterm = @ + 1]
             IN  Return(parent, << write_fnode(parent, self(fn)), write_sb >>, back)
      PROVE  Spared(disk', todo')
  <2> DEFINE u == write_fnode(WithFile(disk[x], s, n, i), x)  v == [blk |-> SB, data |-> sb']
             e == Put(disk, u)
  <2>1. todo' = <<u, v>> /\ disk' = disk
    BY <1>0, <1>3 DEF WithFile, write_sb, Return
  <2>2. i \in IIdx \ sb.imap
    BY <1>3 DEF IsLowestFree, IIdx
  <2>3. OneHurt(e)
    <3>1. e = Put(disk, write_fnode(WithFile(disk[x], s, n, i), x))
      OBVIOUS
    <3> HIDE DEF e
    <3> QED
      BY <1>0, <1>3, <2>2, <3>1, FileHurt
  <2> HIDE DEF u, v
  <2> QED
    BY <1>0, <2>1, <2>3, SparedBy
<1>4. create_folder(fn, n, back) => Spared(disk', todo')
  BY <1>1, <1>2 DEF create_folder
<1>5. create_file(fn, n, back) => Spared(disk', todo')
  BY <1>1, <1>3 DEF create_file
<1> QED
  BY <1>4, <1>5

\* The calls that create.
LEMMA CreatesSpared ==
  ASSUME Typed, Calm, Orderly, Spared(disk, todo)
  PROVE  /\ \A n \in Names \cup Dots : CreateFolder(n) \/ CreateFile(n) => Spared(disk', todo')
         /\ CreateUnnamed => Spared(disk', todo')
<1>1. ASSUME NEW n \in Names \cup Dots, CreateFolder(n) \/ CreateFile(n) PROVE Spared(disk', todo')
  <2>1. Walking
    BY <1>1 DEF CreateFolder, CreateFile
  <2>2. /\ todo = <<>> /\ GoodDisk(disk, sb) /\ Reach(disk, {}, self(cf)) /\ cf = disk[self(cf)]
    BY <2>1, Resting
  <2>3. n \in AnyName
    BY DEF AnyName
  <2>4. create_folder(cf, n, origin) \/ create_file(cf, n, origin)
    BY <1>1 DEF CreateFolder, CreateFile
  <2> QED
    BY <2>2, <2>3, <2>4, CreateSpared
<1>2. ASSUME CreateUnnamed PROVE Spared(disk', todo')
  <2>1. todo = <<>> /\ GoodDisk(disk, sb) /\ Reach(disk, {}, self(cf)) /\ cf = disk[self(cf)]
    BY <1>2, Resting DEF CreateUnnamed
  <2>2. PICK n \in Names \cup {""} :
          \/ create_file(cf, n, self(cf))
          \/ create_file(read_fnode(sb.fmap, disk, cf, ROOT_FOLDER_IDX), n, self(cf))
    BY <1>2 DEF CreateUnnamed
  <2>3. n \in AnyName
    BY DEF AnyName
  <2>4. Reach(disk, {}, ROOT_FOLDER_IDX)
    BY RootReach
  <2>5. read_fnode(sb.fmap, disk, cf, ROOT_FOLDER_IDX) = disk[ROOT_FOLDER_IDX]
    <3>1. ROOT_FOLDER_IDX \in sb.fmap
      BY <2>1, <2>4, NodeHere
    <3> QED
      BY <3>1 DEF read_fnode
  <2>6. CASE create_file(cf, n, self(cf))
    BY <2>1, <2>3, <2>6, CreateSpared
  <2>7. CASE create_file(read_fnode(sb.fmap, disk, cf, ROOT_FOLDER_IDX), n, self(cf))
    BY <2>1, <2>3, <2>4, <2>5, <2>7, CreateSpared
  <2> QED
    BY <2>2, <2>6, <2>7
<1> QED
  BY <1>1, <1>2

\* delete_file, in any folder in use.
LEMMA FileGoneSpared ==
  ASSUME Spared(disk, todo), disk' = disk, GoodDisk(disk, sb), NEW x \in sb.fmap,
         NEW n, NEW t \in Matches(disk[x].iterms, ISlot, n),
         NEW f, f = delete_iterm(disk[x], n), NEW v,
         todo' = <<write_fnode(f, x), v>>
  PROVE  Spared(disk', todo')
<1> DEFINE u == write_fnode(f, x)  e == Put(disk, u)
<1>1. OneHurt(e)
  <2>1. e = Put(disk, write_fnode(f, x))
    OBVIOUS
  <2> HIDE DEF e
  <2> QED
    BY <2>1, FileDropUnhurt
<1>2. OneHurt(disk)
  BY DEF Spared
<1> HIDE DEF u
<1> QED
  BY <1>1, <1>2, SparedBy DEF u

\* A call that issues one write, or none.
LEMMA OneSpared ==
  ASSUME Spared(disk, todo), disk' = disk, todo' = todo \/ \E u : todo' = <<u>>
  PROVE  Spared(disk', todo')
BY SparedBy DEF Spared

\* PSV_delete_file and PSV_delete_folder.
LEMMA DeletesSpared ==
  ASSUME Typed, Calm, Spared(disk, todo), NEW n
  PROVE  /\ DeleteFile(n) => Spared(disk', todo')
         /\ DeleteFolder(n) => Spared(disk', todo')
<1>1. ASSUME Fails PROVE Spared(disk', todo')
  BY <1>1, OneSpared DEF Fails
<1>2. ASSUME NEW t \in ISlot, Walking, IsDeleted(t, cf.iterms, ISlot, n), cf' = delete_iterm(cf, n),
             todo' = FileWrites(cf'), UNCHANGED disk
      PROVE  Spared(disk', todo')
  <2> DEFINE x == self(cf)  f == delete_iterm(disk[x], n)
  <2>1. /\ GoodDisk(disk, sb) /\ cf = disk[x] /\ x \in sb.fmap /\ disk[x] \in Node /\ self(disk[x]) = x
    BY <1>2, Resting, NodeHere
  <2>2. t \in Matches(disk[x].iterms, ISlot, n)
    BY <1>2, <2>1 DEF IsDeleted
  <2>3. f.fterms = disk[x].fterms
    BY <2>1, DropTyped
  <2>4. todo' = FileWrites(f) /\ f = delete_iterm(disk[x], n) /\ disk' = disk
    BY <1>2, <2>1
  <2> HIDE DEF f
  <2>5. self(f) = x
    BY <2>1, <2>3 DEF self
  <2> HIDE DEF x
  <2>6. todo' = <<write_fnode(f, x), write_sb>>
    BY <2>4, <2>5 DEF FileWrites
  <2> QED
    BY <2>1, <2>2, <2>4, <2>6, FileGoneSpared
<1>3. ASSUME Enter(cf, n, <<>>), UNCHANGED disk
      PROVE  Spared(disk', todo')
  BY <1>3, OneSpared DEF Enter
<1> QED
  BY <1>1, <1>2, <1>3 DEF DeleteFile, DeleteFolder

\* The recursion of delete_folder.
LEMMA RecursionSpared ==
  ASSUME Typed, Calm, Spared(disk, todo)
  PROVE  /\ DeleteNextFile => Spared(disk', todo')
         /\ DeleteNextFolder => Spared(disk', todo')
         /\ DeleteEmptied => Spared(disk', todo')
<1>1. ASSUME DeleteNextFile PROVE Spared(disk', todo')
  <2> DEFINE x == Inner.bit
  <2>1. PICK s \in ISlot, t \in ISlot :
           LET terms == Inner.fn.iterms
               fn == delete_iterm(Inner.fn, terms[s].name)
           IN  IsDeleted(t, terms, ISlot, terms[s].name) /\ todo' = FileWrites(fn)
    BY <1>1 DEF DeleteNextFile
  <2> DEFINE n == disk[x].iterms[s].name  f == delete_iterm(disk[x], n)
  <2>2. GoodDisk(disk, sb) /\ x \in sb.fmap /\ Inner.fn = disk[x] /\ disk' = disk
    BY <1>1, Innermost DEF DeleteNextFile
  <2>3. disk[x] \in Node /\ self(disk[x]) = x
    BY <2>2, SelfHere
  <2>4. t \in Matches(disk[x].iterms, ISlot, n)
    BY <2>1, <2>2 DEF IsDeleted
  <2>5. f.fterms = disk[x].fterms
    BY <2>3, DropTyped
  <2>6. todo' = FileWrites(f) /\ f = delete_iterm(disk[x], n)
    BY <2>1, <2>2
  <2> HIDE DEF f, n, x
  <2>7. todo' = <<write_fnode(f, x), write_sb>>
    BY <2>3, <2>5, <2>6 DEF FileWrites, self
  <2> QED
    BY <2>2, <2>4, <2>6, <2>7, FileGoneSpared
<1>2. ASSUME DeleteNextFolder PROVE Spared(disk', todo')
  <2>1. disk' = disk
    BY <1>2 DEF DeleteNextFolder
  <2>2. ASSUME NEW fn, NEW n, NEW outer, Enter(fn, n, outer) PROVE \E u : todo' = <<u>>
    BY <2>2 DEF Enter
  <2>3. todo' = todo \/ \E u : todo' = <<u>>
    BY <1>2, <2>2 DEF DeleteNextFolder
  <2> QED
    BY <2>1, <2>3, OneSpared
<1>3. ASSUME DeleteEmptied PROVE Spared(disk', todo')
  BY <1>3, OneSpared DEF DeleteEmptied
<1> QED
  BY <1>1, <1>2, <1>3

-----------------------------------------------------------------------------
(* The first loss.                                                         *)

\* While no power has been lost, at most one would be hurt.
CrashInv == TreeInv /\ (crashes = 0 => Spared(disk, todo))

\* Every step leaves it so, unless the power is lost.
LEMMA StepSpared == CrashInv /\ [Next]_vars => CrashInv'
<1> SUFFICES ASSUME CrashInv, [Next]_vars PROVE CrashInv'
  OBVIOUS
<1>1. TreeInv' /\ IInv' /\ Typed /\ Typed'
  BY StepMoves DEF CrashInv, TreeInv, IInv
<1>2. CASE Crash
  <2>1. crashes' # 0
    BY <1>1, <1>2 DEF Crash, Typed
  <2> QED
    BY <1>1, <2>1 DEF CrashInv
<1>3. ASSUME ~Crash, crashes' = 0 PROVE Spared(disk', todo')
  <2>1. crashes = 0
    BY <1>3, WhoWrites
  <2>2. Calm /\ Calm' /\ Orderly /\ Spared(disk, todo)
    BY <1>1, <1>3, <2>1 DEF CrashInv, TreeInv, IInv
  <2>3. CASE WriteNext
    BY <1>1, <2>2, <2>3, WriteSpared
  <2>4. CASE Begin \/ Goin \/ Lookup
    BY <2>2, <2>4, OneSpared DEF Begin, Goin, Lookup
  <2>5. CASE CreateUnnamed
    BY <1>1, <2>2, <2>5, CreatesSpared
  <2>6. ASSUME NEW n \in Names \cup Dots, Call(n) PROVE Spared(disk', todo')
    <3>1. CASE WalkInto(n) \/ WalkFails(n)
      BY <2>2, <3>1, OneSpared DEF WalkInto, WalkFails
    <3> QED
      BY <1>1, <2>2, <2>6, <3>1, CreatesSpared, DeletesSpared DEF Call
  <2>7. CASE DeleteNextFile \/ DeleteNextFolder \/ DeleteEmptied
    BY <1>1, <2>2, <2>7, RecursionSpared
  <2>8. CASE UNCHANGED vars
    BY <2>2, <2>8, OneSpared DEF vars
  <2> QED
    BY <1>3, <2>3, <2>4, <2>5, <2>6, <2>7, <2>8 DEF Next
<1> QED
  BY <1>1, <1>2, <1>3 DEF CrashInv

\* It is an invariant.
LEMMA CrashInvInvariant == Spec => []CrashInv
<1>1. ASSUME Init PROVE CrashInv
  <2>1. Typed /\ Calm /\ Orderly /\ todo = <<>>
    BY <1>1, InitTyped, InitCalm, InitOrderly DEF Init
  <2>2. GoodDisk(disk, sb)
    BY <2>1, NothingToWrite DEF Calm, Good
  <2>3. Spared(disk, todo)
    BY <2>1, <2>2, GoodUnhurt, SparedBy
  <2> QED
    BY <2>1, <2>3 DEF CrashInv, TreeInv, IInv
<1> QED
  BY <1>1, StepSpared, PTL DEF Spec

\* The terms that Hurt lists are those.
LEMMA HurtOne ==
  ASSUME IsTree(disk), OneHurt(disk)
  PROVE  \A e, f \in Hurt : e = f
<1> DEFINE Item(e, s) == <<Append(e[1], disk[e[2]].iterms[s].name), disk[e[2]].iterms[s].idx>>
           Lost(e) == e \in FoldersOnDisk /\ (e[2] \notin disk[SB].fmap \/ self(disk[e[2]]) # e[2])
           Gone(e, s) == e \in FoldersOnDisk /\ s \in UsedItems(e[2]) /\ Item(e, s)[2] \notin disk[SB].imap
<1>1. \A e \in FoldersOnDisk : Reach(disk, {}, e[2])
  <2>1. \A e \in FoldersOnDisk : e = <<e[1], e[2]>>
    <3>1. \A e : e \in FoldersOnDisk <=> \E k \in Depth : e \in FoldersAt[k]
      BY DEF FoldersOnDisk, Depth
    <3> QED
      BY <3>1, LevelTyped DEF Places, IsTree
  <2>2. \A e \in FoldersOnDisk : Leads(disk, e[1], e[2])
    BY <2>1, FoldersLed DEF IsTree
  <2> QED
    BY <2>2, LeadsReach
<1>2. \A e, f \in FoldersOnDisk : e[2] = f[2] => e = f
  <2>1. \A e : e \in FoldersOnDisk <=> \E k \in Depth : e \in FoldersAt[k]
    BY DEF FoldersOnDisk, Depth
  <2> QED
    BY <2>1, OnePath DEF IsTree
<1>3. \A e : Lost(e) => HurtFolder(disk, e[2])
  BY <1>1 DEF HurtFolder
<1>4. \A e, s : Gone(e, s) => HurtFile(disk, e[2], s)
  BY <1>1 DEF HurtFile, UsedItems, Used
<1>5. \A e : e \in Hurt => Lost(e) \/ \E g, s : Gone(g, s) /\ e = Item(g, s)
  BY DEF Hurt, FilesOnDisk
<1>6. \A e : Lost(e) => e \in FoldersOnDisk
  OBVIOUS
<1>7. \A e, s : Gone(e, s) => e \in FoldersOnDisk
  OBVIOUS
<1> HIDE DEF Item, Lost, Gone
<1> SUFFICES ASSUME NEW e \in Hurt, NEW f \in Hurt PROVE e = f
  OBVIOUS
<1>8. CASE /\ \A i, s : ~HurtFile(disk, i, s)
           /\ \A i, j : HurtFolder(disk, i) /\ HurtFolder(disk, j) => i = j
  BY <1>2, <1>3, <1>4, <1>5, <1>6, <1>8
<1>9. CASE /\ \A i : ~HurtFolder(disk, i)
           /\ \A i, j, s, t : HurtFile(disk, i, s) /\ HurtFile(disk, j, t) => i = j /\ s = t
  <2>1. PICK g, s : Gone(g, s) /\ e = Item(g, s)
    BY <1>3, <1>5, <1>9
  <2>2. PICK h, t : Gone(h, t) /\ f = Item(h, t)
    BY <1>3, <1>5, <1>9
  <2>3. g[2] = h[2] /\ s = t
    BY <1>4, <1>9, <2>1, <2>2
  <2> QED
    BY <1>2, <1>7, <2>1, <2>2, <2>3
<1> QED
  BY <1>8, <1>9 DEF OneHurt

\* A set whose elements are all the same has at most one.
LEMMA AtMostOne ==
  ASSUME NEW S, \A x, y \in S : x = y
  PROVE  Cardinality(S) <= 1
<1>1. CASE S = {}
  BY <1>1, FS_EmptySet
<1>2. CASE S # {}
  <2>1. PICK x : S = {x}
    BY <1>2
  <2> QED
    BY <2>1, FS_Singleton
<1> QED
  BY <1>1, <1>2

\* For any number of nodes, terms and names: the first loss of power, whatever
\* the call under way and wherever it comes between its writes, hurts no more
\* than one folder or file.
THEOREM FirstCrashHurtsOne == Spec => [][crashes = 0 /\ Crash => Cardinality(Hurt) <= 1]_vars
<1>1. CrashInv => (crashes = 0 => Cardinality(Hurt) <= 1)
  <2> SUFFICES ASSUME CrashInv, crashes = 0 PROVE Cardinality(Hurt) <= 1
    OBVIOUS
  <2>1. IsTree(disk) /\ OneHurt(disk)
    BY DEF CrashInv, TreeInv, Orderly, Spared
  <2> QED
    BY <2>1, HurtOne, AtMostOne
<1>2. CrashInv /\ [Next]_vars => [crashes = 0 /\ Crash => Cardinality(Hurt) <= 1]_vars
  BY <1>1
<1> QED
  BY <1>2, CrashInvInvariant, PTL DEF Spec

\* Where power is lost once at most, that is CrashHurtsOne.
THEOREM CrashCorrect == MaxCrashes <= 1 => (Spec => CrashHurtsOne)
<1> SUFFICES ASSUME MaxCrashes <= 1 PROVE Spec => CrashHurtsOne
  OBVIOUS
<1>1. Typed /\ [crashes = 0 /\ Crash => Cardinality(Hurt) <= 1]_vars
        => [Crash => Cardinality(Hurt) <= 1]_vars
  <2>1. ASSUME Typed, Crash PROVE crashes = 0
    <3>1. MaxCrashes \in Nat /\ crashes \in 0 .. MaxCrashes /\ crashes < MaxCrashes
      BY <2>1, LimitsAssumption DEF Crash, Typed
    <3> QED
      BY <3>1
  <2> QED
    BY <2>1
<1> QED
  BY <1>1, TypedInvariant, FirstCrashHurtsOne, PTL DEF CrashHurtsOne
=============================================================================
