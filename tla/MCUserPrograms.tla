--------------------------- MODULE MCUserPrograms ---------------------------
(* A boot image of the programs and four text files.  A block of it is two     *)
(* sectors of PSV, and so is the buffer of the programs.                      *)
EXTENDS UserPrograms, TLC

CONSTANTS t1, t2

\* f is longer than a block and g fills one; both are longer than the buffer.
Image == << <<"cat", <<"ELF">> >>, <<"ls", <<"ELF">> >>, <<"ls_PSV", <<"ELF">> >>,
            <<"f", <<"a", "b", NL, "b", NL, "b", "b", "b", "a", NL, "b">> >>,
            <<"touch", <<"ELF">> >>, <<"rm", <<"ELF">> >>, <<"mkdir", <<"ELF">> >>,
            <<"rmdir", <<"ELF">> >>, <<"echo", <<"ELF">> >>, <<"grep", <<"ELF">> >>,
            <<"g", <<"b", "a", NL, "a", NL, NL, "a", NL>> >>,
            <<"syserr", <<"ELF">> >>, <<"fish", <<"ELF">> >>,
            <<"frame0.txt", <<"a", Blank, "b", NL, "b", NL>> >>,
            <<"frame1.txt", <<NL, "a", "b", NL, "b">> >>,
            <<"testprint", <<"ELF">> >>, <<"hello", <<"ELF">> >>, <<"sigtest", <<"ELF">> >> >>

MCDentries ==
    << [name |-> ".", type |-> "dir", nr_inode |-> 0], [name |-> "rtc", type |-> "rtc", nr_inode |-> 0] >>
    \o [i \in DOMAIN Image |-> [name |-> Image[i][1], type |-> "regular", nr_inode |-> i]]

\* A file has two blocks, which are not in order in the image.
NoInode == [length |-> 0, inodes |-> <<0, 0, 0>>]
MCInodes ==
    <<NoInode>> \o [i \in DOMAIN Image |-> [length |-> Len(Image[i][2]), inodes |-> <<2 * i, 2 * i - 1, 0>>]]

Block(bytes, from) ==
    <<>> \o [k \in 1 .. BLOCK_SIZE |-> IF from + k \in DOMAIN bytes THEN bytes[from + k] ELSE NUL]
MCDataBlocks ==
    <<Block(<<>>, 0)>>
    \o FlattenSeq([i \in DOMAIN Image |-> <<Block(Image[i][2], BLOCK_SIZE), Block(Image[i][2], 0)>>])

\* Texts of PSV: one that fits a block with room to add one, one that does not,
\* one that echo has left, and one of a block that grep would take for ".".
Short == <<"a", NL>>
Long == <<"b", "a", NL, "a", "a">>
Kept1(n, b) == <<[name |-> n, bytes |-> b]>>
MCKept == {<<>>, Kept1("p", Short), Kept1("p", Long), Kept1("f", <<"b", "a", NUL>>),
           Kept1(".", <<".", ".", ".", ".">>), Kept1("frame0.txt", Short)}

Line(n, a, s) == [name |-> n, arg |-> a, str |-> s]
Readers == { Line("cat", "f", <<>>), Line("cat", "p", <<>>), Line("ls", "", <<>>), Line("ls_PSV", "", <<>>),
             Line("grep", "", <<"a">>), Line("syserr", "", <<>>), Line("fish", "", <<>>) }
Writers == { Line("touch", n, <<>>) : n \in {"q", ".", "f", "rtc", "frame1.txt", "shel"} }
    \cup { Line("rm", "f", <<>>), Line("mkdir", "d", <<>>), Line("rmdir", "d", <<>>), Line("q", "", <<>>),
           Line("cat", "", <<>>), Line("cat", "g", <<>>), Line("testprint", "", <<>>),
           Line("hello", "", <<>>), Line("sigtest", "1", <<>>) }
    \cup { Line("echo", n, <<"a">>) : n \in {"", "p", "f", ".", "frame0.txt"} }
MCCommands == (t1 :> Readers) @@ (t2 :> Writers)
=============================================================================
