------------------------- MODULE TextDisplayProofs --------------------------
(***************************************************************************)
(* The text-mode terminals of TextDisplay, for any size of the screen, any *)
(* number of processes, keys and texts.                                    *)
(***************************************************************************)
EXTENDS TextDisplay, NumberLemmas, FiniteSetTheorems, TLAPS

-----------------------------------------------------------------------------
(* One screen.                                                             *)

\* What a cell may show, and what nb_putc is given.
Shows == {Blank, Junk, Ink, BarMark, MsgMark} \cup Keys \cup (UNION {ToSet(w) : w \in Writes})
            \cup 0 .. Max({Decimal, Hexadecimal}) - 1
Chars == Shows \cup {Newline, Backspace, Nul}

Columns == 0 .. NUM_COLS - 1
Rows == 0 .. NUM_ROWS - 1
TextScreens == [cells : [Cells -> Shows], x : Columns, y : Rows]

\* The sizes of the screen, as the proofs use them.
LEMMA Sizes ==
  /\ NUM_COLS \in Nat /\ NUM_COLS > 0 /\ NUM_ROWS \in Nat /\ NUM_ROWS > 1
  /\ NUM_ROWS * NUM_COLS \in Nat /\ BarCells \in 0 .. NUM_COLS
BY TextAssumption

\* Every column of every row is a cell.
LEMMA CellAt ==
  ASSUME NEW x \in Columns, NEW y \in Rows
  PROVE  /\ y * NUM_COLS + x \in Cells /\ y * NUM_COLS \in Nat
         /\ y > 0 => y * NUM_COLS >= NUM_COLS
<1>1. NUM_COLS * y + NUM_COLS <= NUM_COLS * NUM_ROWS /\ NUM_COLS * y \in Nat
  BY Sizes, Multiples DEF Rows
<1>2. y > 0 => NUM_COLS * 0 + NUM_COLS <= NUM_COLS * y
  BY Sizes, Multiples DEF Rows
<1>3. y * NUM_COLS = NUM_COLS * y /\ NUM_COLS * 0 = 0 /\ NUM_COLS * NUM_ROWS = NUM_ROWS * NUM_COLS
  BY Sizes DEF Rows
<1> DEFINE m == NUM_COLS * y
           n == NUM_ROWS * NUM_COLS
<1>4. m + NUM_COLS <= n /\ m \in Nat /\ n \in Nat /\ (y > 0 => NUM_COLS <= m)
  BY <1>1, <1>2, <1>3, Sizes
<1>5. y * NUM_COLS = m
  BY <1>3
<1> HIDE DEF m
<1>6. m + x \in 0 .. n - 1
  <2> HIDE DEF n
  <2> QED BY <1>4, Sizes DEF Columns
<1> QED
  BY <1>4, <1>5, <1>6 DEF Cells

\* Scrolling brings a cursor below the last row back on the screen.
LEMMA ScrolledScreen ==
  ASSUME NEW s, s \in [cells : [Cells -> Shows], x : Columns, y : 0 .. NUM_ROWS]
  PROVE  ScrollIfFull(s) \in TextScreens
<1>1. CASE s.y # NUM_ROWS
  BY <1>1, Sizes DEF ScrollIfFull, TextScreens, Rows
<1>2. CASE s.y = NUM_ROWS
  <2> DEFINE moved == [i \in Cells |-> IF i < START_HEIGHT * NUM_COLS THEN s.cells[i]
                                      ELSE IF i + NUM_COLS \in Cells THEN s.cells[i + NUM_COLS]
                                      ELSE Blank]
             t == [s EXCEPT !.y = s.y - 1]
  <2>1. moved \in [Cells -> Shows]
    BY DEF Shows
  <2>2. t \in TextScreens
    BY <1>2, Sizes DEF TextScreens, Rows
  <2>3. ScrollIfFull(s) = [t EXCEPT !.cells = moved]
    BY <1>2 DEF ScrollIfFull, up_scroll_for_one_line
  <2> HIDE DEF t, moved
  <2> QED
    BY <2>1, <2>2, <2>3 DEF TextScreens
<1> QED
  BY <1>1, <1>2

\* Backspace stays on the screen: at the start of a row there is a row above.
LEMMA BackspaceScreen ==
  ASSUME NEW s \in TextScreens
  PROVE  PutBackspace(s) \in TextScreens
<1> DEFINE b == IF s.x = 0 THEN [s EXCEPT !.x = NUM_COLS, !.y = s.y - 1] ELSE s
           p == Position(b) - 1
           left == b.x - 1
<1>1. CASE Position(s) = 0
  BY <1>1 DEF PutBackspace
<1>2. CASE Position(s) # 0
  <2>1. s.cells \in [Cells -> Shows] /\ s.x \in Columns /\ s.y \in Rows
    BY DEF TextScreens
  <2>2. /\ DOMAIN b = DOMAIN s /\ b.cells = s.cells
        /\ b.x = IF s.x = 0 THEN NUM_COLS ELSE s.x
        /\ b.y = IF s.x = 0 THEN s.y - 1 ELSE s.y
        /\ DOMAIN s = {"cells", "x", "y"}
    BY DEF TextScreens
  <2> HIDE DEF b
  <2>3. s.x = 0 => s.y > 0
    BY <1>2, <2>1, Sizes DEF Position, Rows
  <2>4. left \in Columns /\ b.y \in Rows
    BY <2>1, <2>2, <2>3, Sizes DEF Columns, Rows
  <2>5. PutBackspace(s) = [b EXCEPT !.x = left, !.cells[p] = Blank]
    BY <1>2 DEF PutBackspace, b
  <2>6. [b.cells EXCEPT ![p] = Blank] \in [Cells -> Shows]
    BY <2>1, <2>2 DEF Shows
  <2> DEFINE c == [b EXCEPT !.x = left]
  <2>7. c \in TextScreens /\ c.cells = b.cells
    <3>1. c = [cells |-> b.cells, x |-> left, y |-> b.y]
      BY <2>2
    <3> HIDE DEF c, left
    <3> QED BY <3>1, <2>1, <2>2, <2>4 DEF TextScreens
  <2>8. PutBackspace(s) = [c EXCEPT !.cells = [b.cells EXCEPT ![p] = Blank]]
    BY <2>5, <2>2
  <2> HIDE DEF c, left, p
  <2> QED
    BY <2>6, <2>7, <2>8 DEF TextScreens
<1> QED
  BY <1>1, <1>2

\* After a character the cursor is on the screen: a full row wraps.
LEMMA CellScreen ==
  ASSUME NEW s \in TextScreens, NEW c \in Shows
  PROVE  PutCell(s, c) \in TextScreens
<1> DEFINE full == s.x + 1 = NUM_COLS
           t == [cells |-> [s.cells EXCEPT ![Position(s)] = c],
                 x |-> IF full THEN 0 ELSE s.x + 1,
                 y |-> IF full THEN s.y + 1 ELSE s.y]
<1>1. s.cells \in [Cells -> Shows] /\ s.x \in Columns /\ s.y \in Rows
  BY DEF TextScreens
<1>2. [s.cells EXCEPT ![Position(s)] = c] \in [Cells -> Shows]
  BY <1>1
<1>3. (IF full THEN 0 ELSE s.x + 1) \in Columns /\ (IF full THEN s.y + 1 ELSE s.y) \in 0 .. NUM_ROWS
  BY <1>1, Sizes DEF Columns, Rows
<1>4. t \in [cells : [Cells -> Shows], x : Columns, y : 0 .. NUM_ROWS]
  BY <1>2, <1>3
<1> QED
  BY <1>4, ScrolledScreen DEF PutCell

\* The same of a newline.
LEMMA NewlineScreen ==
  ASSUME NEW s \in TextScreens
  PROVE  PutNewline(s) \in TextScreens
<1> DEFINE t == [s EXCEPT !.y = s.y + 1]
           u == [t EXCEPT !.x = 0]
<1>1. t \in [cells : [Cells -> Shows], x : Columns, y : 0 .. NUM_ROWS]
  BY Sizes DEF TextScreens, Rows
<1>2. PutNewline(s) = ScrollIfFull(u)
  BY DEF PutNewline
<1> HIDE DEF t
<1>3. u \in [cells : [Cells -> Shows], x : Columns, y : 0 .. NUM_ROWS]
  BY <1>1, Sizes DEF Columns
<1> QED
  BY <1>2, <1>3, ScrolledScreen

\* A character leaves the screen a screen, and the cursor on it.
LEMMA PutCScreen ==
  ASSUME NEW s \in TextScreens, NEW c \in Chars
  PROVE  PutC(s, c) \in TextScreens
<1>1. Blank \in Shows
  BY DEF Shows
<1>2. c \notin {Newline, Backspace, Nul} => c \in Shows
  BY DEF Chars
<1> QED
  BY <1>1, <1>2, NewlineScreen, BackspaceScreen, CellScreen DEF PutC

\* clear leaves a screen.
LEMMA ClearScreens ==
  ASSUME NEW s, s.cells \in [Cells -> Shows]
  PROVE  ClearText(s) \in TextScreens
<1>1. [i \in Cells |-> IF i < BarCells THEN s.cells[i] ELSE Blank] \in [Cells -> Shows]
  BY DEF Shows
<1>2. 0 \in Columns /\ START_HEIGHT \in Rows
  BY Sizes DEF Columns, Rows, START_HEIGHT
<1> QED
  BY <1>1, <1>2 DEF ClearText, TextScreens

\* The position of a cursor is a cell.
LEMMA PositionCell ==
  ASSUME NEW x \in Columns, NEW y \in Rows, NEW s, s.x = x, s.y = y
  PROVE  Position(s) \in Cells
BY CellAt DEF Position
-----------------------------------------------------------------------------
(* The display.                                                            *)

Cursors == [x : Columns, y : Rows]
Displays ==
  [memory : [Pages -> [Cells -> Shows]], cursor : [Term -> Cursors], ptr : Term,
   mapped : Pages, usrmap : [present : BOOLEAN, page : Pages], hw : Cells,
   viewing : Term, running : Term, vidmap_flag : [Term -> BOOLEAN]]

\* Two displays with the same pages, cursors, terminals and flags.
SameText(d, e) ==
  /\ e.memory = d.memory /\ e.cursor = d.cursor
  /\ e.viewing = d.viewing /\ e.running = d.running /\ e.vidmap_flag = d.vidmap_flag

\* switch_usrmap changes the mapping of vidmap and nothing else.
LEMMA UsrmapDisplay ==
  ASSUME NEW d \in Displays, NEW p \in Pages, NEW b \in BOOLEAN
  PROVE  LET e == switch_usrmap(d, p, b)
         IN  /\ e \in Displays /\ SameText(d, e)
             /\ e.ptr = d.ptr /\ e.mapped = d.mapped /\ e.hw = d.hw
             /\ e.usrmap = [present |-> b, page |-> p]
BY DEF switch_usrmap, Displays, SameText

\* A terminal has a page.
LEMMA PlacePage ==
  ASSUME NEW d \in Displays, NEW t \in Term
  PROVE  Place(d, t) \in Pages
BY DEF Place, Pages

\* change_vidmem_mapping changes the two mappings and the cursor in use, no text.
LEMMA MapDisplay ==
  ASSUME NEW d \in Displays, NEW t \in Term
  PROVE  LET e == change_vidmem_mapping(d, t)
         IN  /\ e \in Displays /\ SameText(d, e) /\ e.hw = d.hw
             /\ e.ptr = t /\ e.mapped = Place(d, t)
             /\ e.usrmap = [present |-> d.vidmap_flag[t], page |-> Place(d, t)]
<1> DEFINE u == switch_usrmap(d, Place(d, t), d.vidmap_flag[t])
           f == [u EXCEPT !.mapped = Place(d, t)]
           e == [f EXCEPT !.ptr = t]
<1>1. d.vidmap_flag[t] \in BOOLEAN /\ Place(d, t) \in Pages
  BY PlacePage DEF Displays
<1>2. /\ u \in Displays /\ SameText(d, u) /\ u.hw = d.hw
      /\ u.usrmap = [present |-> d.vidmap_flag[t], page |-> Place(d, t)]
  BY <1>1, UsrmapDisplay
<1> HIDE DEF u
<1>3. /\ f \in Displays /\ SameText(d, f) /\ f.hw = d.hw /\ f.mapped = Place(d, t)
      /\ f.usrmap = u.usrmap
  BY <1>1, <1>2 DEF Displays, SameText
<1> HIDE DEF f
<1>4. /\ e \in Displays /\ SameText(d, e) /\ e.hw = d.hw /\ e.mapped = Place(d, t)
      /\ e.usrmap = u.usrmap /\ e.ptr = t
  BY <1>3 DEF Displays, SameText
<1>5. change_vidmem_mapping(d, t) = e
  BY DEF change_vidmem_mapping, switch_fish_paging, u, f
<1> HIDE DEF e
<1> QED
  BY <1>2, <1>4, <1>5

\* Every cursor is at a cell.
LEMMA CursorCell ==
  ASSUME NEW d \in Displays, NEW t \in Term
  PROVE  Position(d.cursor[t]) \in Cells
<1>1. d.cursor[t] \in Cursors
  BY DEF Displays
<1>2. d.cursor[t].x \in Columns /\ d.cursor[t].y \in Rows
  BY <1>1 DEF Cursors
<1> QED
  BY <1>2, PositionCell

\* calib_cursor moves the hardware cursor and nothing else.
LEMMA CalibDisplay ==
  ASSUME NEW d \in Displays
  PROVE  LET e == calib_cursor(d)
         IN  /\ e \in Displays /\ SameText(d, e)
             /\ e.ptr = d.ptr /\ e.mapped = d.mapped /\ e.usrmap = d.usrmap
             /\ e.hw = Position(d.cursor[d.ptr])
<1>1. Position(d.cursor[d.ptr]) \in Cells
  BY CursorCell DEF Displays
<1> QED
  BY <1>1 DEF calib_cursor, Displays, SameText

\* What is written through the mapping and the cursor in use.
LEMMA SetScreenDisplay ==
  ASSUME NEW d \in Displays, NEW s \in TextScreens
  PROVE  LET e == SetScreen(d, s)
         IN  /\ e \in Displays
             /\ e.memory = [d.memory EXCEPT ![d.mapped] = s.cells]
             /\ e.cursor = [d.cursor EXCEPT ![d.ptr] = [x |-> s.x, y |-> s.y]]
             /\ e.ptr = d.ptr /\ e.mapped = d.mapped /\ e.usrmap = d.usrmap /\ e.hw = d.hw
             /\ e.viewing = d.viewing /\ e.running = d.running
             /\ e.vidmap_flag = d.vidmap_flag
<1> DEFINE m == [d.memory EXCEPT ![d.mapped] = s.cells]
           c == [d.cursor EXCEPT ![d.ptr] = [x |-> s.x, y |-> s.y]]
           f == [d EXCEPT !.memory = m]
           e == [f EXCEPT !.cursor = c]
<1>1. m \in [Pages -> [Cells -> Shows]] /\ c \in [Term -> Cursors]
  BY DEF Displays, TextScreens, Cursors
<1>2. SetScreen(d, s) = e
  BY DEF SetScreen
<1> HIDE DEF m, c
<1>3. /\ f \in Displays /\ f.memory = m /\ f.cursor = d.cursor
      /\ f.ptr = d.ptr /\ f.mapped = d.mapped /\ f.usrmap = d.usrmap /\ f.hw = d.hw
      /\ f.viewing = d.viewing /\ f.running = d.running /\ f.vidmap_flag = d.vidmap_flag
  BY <1>1 DEF Displays
<1> HIDE DEF f
<1>4. /\ e \in Displays /\ e.memory = m /\ e.cursor = c
      /\ e.ptr = d.ptr /\ e.mapped = d.mapped /\ e.usrmap = d.usrmap /\ e.hw = d.hw
      /\ e.viewing = d.viewing /\ e.running = d.running /\ e.vidmap_flag = d.vidmap_flag
  BY <1>1, <1>3 DEF Displays
<1> HIDE DEF e
<1> QED
  BY <1>2, <1>4 DEF m, c

\* What is mapped is a screen.
LEMMA ScreenOf ==
  ASSUME NEW d \in Displays
  PROVE  Screen(d) \in TextScreens
<1>1. d.memory[d.mapped] \in [Cells -> Shows] /\ d.cursor[d.ptr] \in Cursors
  BY DEF Displays
<1> QED
  BY <1>1 DEF Screen, TextScreens, Cursors

\* nb_putc writes one character for the terminal whose cursor is in use.
LEMMA PutcDisplay ==
  ASSUME NEW d \in Displays, NEW c \in Chars
  PROVE  LET e == nb_putc(d, c)
             s == PutC(Screen(d), c)
         IN  /\ e \in Displays
             /\ e.memory = [d.memory EXCEPT ![d.mapped] = s.cells]
             /\ e.cursor = [d.cursor EXCEPT ![d.ptr] = [x |-> s.x, y |-> s.y]]
             /\ e.ptr = d.ptr /\ e.mapped = d.mapped /\ e.usrmap = d.usrmap
             /\ e.viewing = d.viewing /\ e.running = d.running
             /\ e.vidmap_flag = d.vidmap_flag
             /\ e.hw = IF d.viewing = d.running THEN Position(e.cursor[d.ptr]) ELSE d.hw
<1> DEFINE s == PutC(Screen(d), c)
           f == SetScreen(d, s)
<1>1. s \in TextScreens
  BY ScreenOf, PutCScreen
<1>2. nb_putc(d, c) = IF f.viewing = f.running THEN calib_cursor(f) ELSE f
  BY DEF nb_putc
<1> HIDE DEF s
<1>3. /\ f \in Displays
      /\ f.memory = [d.memory EXCEPT ![d.mapped] = s.cells]
      /\ f.cursor = [d.cursor EXCEPT ![d.ptr] = [x |-> s.x, y |-> s.y]]
      /\ f.ptr = d.ptr /\ f.mapped = d.mapped /\ f.usrmap = d.usrmap /\ f.hw = d.hw
      /\ f.viewing = d.viewing /\ f.running = d.running
      /\ f.vidmap_flag = d.vidmap_flag
  BY <1>1, SetScreenDisplay
<1> HIDE DEF f
<1>4. LET g == calib_cursor(f)
      IN  /\ g \in Displays /\ SameText(f, g)
          /\ g.ptr = f.ptr /\ g.mapped = f.mapped /\ g.usrmap = f.usrmap
          /\ g.hw = Position(f.cursor[f.ptr])
  BY <1>3, CalibDisplay
<1> QED
  BY <1>2, <1>3, <1>4 DEF SameText, s
-----------------------------------------------------------------------------
(* Texts.                                                                  *)

\* puts goes through the displays after each of its characters; what every
\* character keeps, it keeps.
LEMMA PutsRuns ==
  ASSUME NEW X \in SUBSET Displays, NEW d \in X, NEW str \in Seq(Chars),
         \A e \in X, c \in Chars : nb_putc(e, c) \in X
  PROVE  \E r \in [0 .. Len(str) -> X] :
           /\ r[0] = d
           /\ \A n \in 1 .. Len(str) : r[n] = nb_putc(r[n - 1], str[n])
           /\ puts(d, str) = r[Len(str)]
<1> DEFINE N == Len(str)
           Run(r) == r = [n \in 0 .. N |-> IF n = 0 THEN d ELSE nb_putc(r[n - 1], str[n])]
           G == [n \in 1 .. N |-> [e \in X |-> nb_putc(e, str[n])]]
<1>1. N \in Nat /\ \A n \in 1 .. N : str[n] \in Chars
  OBVIOUS
<1>2. puts(d, str) = (CHOOSE r : Run(r))[N]
  BY DEF puts
<1> HIDE DEF N
<1>3. G \in [1 .. N -> [X -> X]]
  BY <1>1
<1>4. PICK r \in [0 .. N -> X] : IsLoop(r, N, d, G)
  <2> HIDE DEF G
  <2> QED BY <1>1, <1>3, LoopExists
<1>5. \A n \in 0 .. N : r[n] = IF n = 0 THEN d ELSE nb_putc(r[n - 1], str[n])
  <2> TAKE n \in 0 .. N
  <2>1. r[n] = IF n = 0 THEN d ELSE G[n][r[n - 1]]
    <3> HIDE DEF G
    <3> QED BY <1>4 DEF IsLoop
  <2>2. CASE n = 0
    BY <2>1, <2>2
  <2>3. CASE n # 0
    <3>1. n \in 1 .. N /\ n - 1 \in 0 .. N
      BY <2>3, <1>1
    <3>2. r[n - 1] \in X
      BY <3>1
    <3> QED BY <2>1, <2>3, <3>1, <3>2
  <2> QED BY <2>2, <2>3
<1>6. Run(r)
  <2>1. DOMAIN r = 0 .. N /\ r = [n \in DOMAIN r |-> r[n]]
    OBVIOUS
  <2> QED BY <1>5, <2>1
<1>7. Run(CHOOSE q : Run(q))
  <2> HIDE DEF Run
  <2> QED BY <1>6
<1> DEFINE q == CHOOSE q : Run(q)
<1>8. /\ DOMAIN q = 0 .. N /\ q = [n \in DOMAIN q |-> q[n]]
      /\ \A n \in 0 .. N : q[n] = IF n = 0 THEN d ELSE nb_putc(q[n - 1], str[n])
  <2> HIDE DEF q
  <2>1. Run(q)
    BY <1>7 DEF q
  <2> QED BY <2>1
<1> HIDE DEF q, Run, G
<1>9. \A n \in Nat : n <= N => q[n] \in X
  <2> DEFINE T == {n \in Nat : n <= N => q[n] \in X}
  <2>1. 0 \in T
    BY <1>8, <1>1
  <2>2. ASSUME NEW n \in Nat, n \in T PROVE n + 1 \in T
    <3>1. CASE n + 1 <= N
      <4>1. n + 1 \in 1 .. N /\ n + 1 \in 0 .. N /\ (n + 1) - 1 = n /\ n + 1 # 0 /\ n <= N
        BY <3>1, <1>1
      <4>2. q[n + 1] = nb_putc(q[n], str[n + 1]) /\ q[n] \in X /\ str[n + 1] \in Chars
        BY <4>1, <2>2, <1>1, <1>8
      <4> QED BY <4>2
    <3> QED BY <3>1
  <2>3. Nat \subseteq T
    <3> HIDE DEF T
    <3> QED BY <2>1, <2>2, Induction
  <2> QED BY <2>3
<1>10. q \in [0 .. N -> X]
  BY <1>8, <1>9, <1>1
<1>11. q[0] = d /\ \A n \in 1 .. N : q[n] = nb_putc(q[n - 1], str[n])
  <2>1. 0 \in 0 .. N /\ \A n \in 1 .. N : n \in 0 .. N /\ n # 0
    BY <1>1
  <2> QED BY <1>8, <2>1, Zenon
<1> QED
  BY <1>2, <1>10, <1>11 DEF q, N

\* The last display of puts comes from the last character.
LEMMA PutsIn ==
  ASSUME NEW X \in SUBSET Displays, NEW d \in X, NEW str \in Seq(Chars),
         \A e \in X, c \in Chars : nb_putc(e, c) \in X
  PROVE  /\ puts(d, str) \in X
         /\ str # <<>> => \E e \in X, c \in Chars : puts(d, str) = nb_putc(e, c)
<1>1. PICK r \in [0 .. Len(str) -> X] :
        /\ r[0] = d
        /\ \A n \in 1 .. Len(str) : r[n] = nb_putc(r[n - 1], str[n])
        /\ puts(d, str) = r[Len(str)]
  BY PutsRuns, Zenon
<1>2. Len(str) \in Nat /\ (str # <<>> => Len(str) > 0)
  OBVIOUS
<1> DEFINE N == Len(str)
<1>3. ASSUME str # <<>> PROVE \E e \in X, c \in Chars : puts(d, str) = nb_putc(e, c)
  <2>1. N \in 1 .. N /\ N - 1 \in 0 .. N
    BY <1>2, <1>3
  <2>2. str[N] \in Chars
    BY <2>1
  <2> QED BY <1>1, <2>1, <2>2
<1> QED
  BY <1>1, <1>2, <1>3

\* Dividing by a radix makes a number smaller.
LEMMA Smaller ==
  ASSUME NEW v \in Nat, NEW radix \in Nat \ {0, 1}
  PROVE  v \div radix \in Nat /\ (v # 0 => v \div radix < v)
<1>1. v = radix * (v \div radix) + (v % radix) /\ v \div radix \in Nat /\ v % radix \in 0 .. radix - 1
  BY DivMod
<1> DEFINE q == v \div radix
           m == v % radix
<1>2. q > 0 => radix * q >= 2 * q
  <2>1. q \in Nat /\ radix \in Nat /\ radix - 2 \in Nat
    BY <1>1
  <2> HIDE DEF q
  <2>2. radix * q = 2 * q + (radix - 2) * q /\ (radix - 2) * q \in Nat
    BY <2>1
  <2>3. \A a, b, c \in Nat : a = b + c => a >= b
    OBVIOUS
  <2>4. radix * q \in Nat /\ 2 * q \in Nat
    BY <2>1
  <2> QED BY <2>2, <2>3, <2>4
<1> DEFINE p == radix * q
<1>3. v = p + m /\ q \in Nat /\ m \in Nat /\ p \in Nat /\ (q > 0 => p >= 2 * q)
  BY <1>1, <1>2
<1> HIDE DEF q, m, p
<1>4. v # 0 => q < v
  BY <1>3
<1> QED
  BY <1>3, <1>4 DEF q

\* itoa divides by the radix until nothing is left.
LEMMA PlaceValuesRuns ==
  ASSUME NEW value \in Nat, NEW radix \in Nat \ {0, 1}
  PROVE  \E r \in [Nat -> Nat], count \in 0 .. value :
           /\ r[0] = value /\ \A k \in Nat : r[k + 1] = r[k] \div radix
           /\ r[count] = 0 /\ \A j \in 0 .. count - 1 : r[j] # 0
           /\ PlaceValues(value, radix) = [k \in 1 .. count |-> r[k - 1] % radix]
<1> DEFINE Run(r) == r = [k \in Nat |-> IF k = 0 THEN value ELSE r[k - 1] \div radix]
           G == [v \in Nat |-> v \div radix]
           newval == CHOOSE r : Run(r)
           Ends(c) == newval[c] = 0 /\ \A j \in 0 .. c - 1 : newval[j] # 0
           count == CHOOSE c \in 0 .. value : Ends(c)
<1>1. PlaceValues(value, radix) = [k \in 1 .. count |-> newval[k - 1] % radix]
  BY DEF PlaceValues
<1>2. G \in [Nat -> Nat]
  BY Smaller
<1>3. PICK r \in [Nat -> Nat] : IsEndlessLoop(r, value, G)
  <2> HIDE DEF G
  <2> QED BY <1>2, EndlessLoop
<1>4. Run(r)
  <2>1. \A k \in Nat : r[k] = IF k = 0 THEN value ELSE r[k - 1] \div radix
    <3> TAKE k \in Nat
    <3>1. r[k] = IF k = 0 THEN value ELSE G[r[k - 1]]
      <4> HIDE DEF G
      <4> QED BY <1>3 DEF IsEndlessLoop
    <3>2. k # 0 => r[k - 1] \in Nat
      OBVIOUS
    <3> QED BY <3>1, <3>2
  <2>2. DOMAIN r = Nat /\ r = [k \in DOMAIN r |-> r[k]]
    OBVIOUS
  <2> QED BY <2>1, <2>2
<1>5. Run(newval)
  <2> HIDE DEF Run
  <2> QED BY <1>4
<1> HIDE DEF newval, G
<1>6. /\ DOMAIN newval = Nat /\ newval = [k \in DOMAIN newval |-> newval[k]]
      /\ newval[0] = value
      /\ \A k \in Nat : newval[k + 1] = newval[k] \div radix
  BY <1>5
<1> HIDE DEF Run
<1>7. newval \in [Nat -> Nat] /\ \A k \in Nat : newval[k] = 0 \/ newval[k] + k <= value
  <2> DEFINE T == {k \in Nat : newval[k] \in Nat /\ (newval[k] = 0 \/ newval[k] + k <= value)}
  <2>1. 0 \in T
    BY <1>6
  <2>2. ASSUME NEW k \in Nat, k \in T PROVE k + 1 \in T
    <3>1. newval[k + 1] \in Nat /\ (newval[k] # 0 => newval[k + 1] < newval[k])
      BY <2>2, <1>6, Smaller
    <3>2. newval[k] = 0 => newval[k + 1] = 0
      <4>1. 0 \div radix = 0
        BY DivMod
      <4> QED BY <4>1, <1>6
    <3> QED BY <3>1, <3>2, <2>2
  <2>3. Nat \subseteq T
    <3> HIDE DEF T
    <3> QED BY <2>1, <2>2, Induction
  <2> QED BY <2>3, <1>6
<1>8. \E c \in 0 .. value : Ends(c)
  <2> DEFINE Z == {k \in Nat : newval[k] = 0}
  <2>1. value \in Z
    <3>1. newval[value] = 0 \/ newval[value] + value <= value
      BY <1>7
    <3> QED BY <3>1, <1>7
  <2>2. PICK c \in Z : \A n \in Z : c <= n
    <3>1. Z \in SUBSET Nat /\ Z # {}
      BY <2>1
    <3> HIDE DEF Z
    <3> QED BY <3>1, LeastElement
  <2>3. c \in 0 .. value /\ newval[c] = 0 /\ \A j \in 0 .. c - 1 : j \in Nat /\ ~(c <= j)
    BY <2>1, <2>2
  <2> QED BY <2>2, <2>3
<1>9. count \in 0 .. value /\ Ends(count)
  <2> HIDE DEF Ends
  <2> QED BY <1>8
<1> HIDE DEF count
<1> QED
  BY <1>1, <1>6, <1>7, <1>9

\* Digits can be shown.
LEMMA DigitsShown ==
  /\ Decimal \in Nat \ {0, 1} /\ Hexadecimal \in Nat \ {0, 1}
  /\ \A i \in 0 .. Decimal - 1 \cup 0 .. Hexadecimal - 1 : i \in Shows
<1>1. Decimal \in Nat \ {0, 1} /\ Hexadecimal \in Nat \ {0, 1}
  BY TextAssumption
<1>2. \E m \in {Decimal, Hexadecimal} : \A n \in {Decimal, Hexadecimal} : m >= n
  BY <1>1
<1>3. Max({Decimal, Hexadecimal}) \in Nat /\ Max({Decimal, Hexadecimal}) >= Decimal
      /\ Max({Decimal, Hexadecimal}) >= Hexadecimal
  BY <1>1, <1>2 DEF Max
<1>4. \A i \in 0 .. Decimal - 1 \cup 0 .. Hexadecimal - 1 : i \in 0 .. Max({Decimal, Hexadecimal}) - 1
  BY <1>1, <1>3
<1> QED
  BY <1>1, <1>4 DEF Shows

\* itoa gives a text.
LEMMA ItoaText ==
  ASSUME NEW value \in Nat, NEW radix \in {Decimal, Hexadecimal}
  PROVE  itoa(value, radix) \in Seq(Chars)
<1>1. radix \in Nat \ {0, 1} /\ \A i \in 0 .. radix - 1 : i \in Chars
  BY DigitsShown DEF Chars
<1>2. PICK r \in [Nat -> Nat], count \in 0 .. value :
        /\ r[0] = value /\ \A k \in Nat : r[k + 1] = r[k] \div radix
        /\ r[count] = 0 /\ \A j \in 0 .. count - 1 : r[j] # 0
        /\ PlaceValues(value, radix) = [k \in 1 .. count |-> r[k - 1] % radix]
  BY <1>1, PlaceValuesRuns, Zenon
<1> DEFINE p == [k \in 1 .. count |-> r[k - 1] % radix]
<1>3. p \in [1 .. count -> 0 .. radix - 1] /\ count \in Nat
  <2>1. \A v \in Nat : v % radix \in 0 .. radix - 1
    BY <1>1, DivMod
  <2> QED BY <2>1
<1> HIDE DEF p
<1>4. p \in Seq(Chars) /\ Len(p) = count
  BY <1>1, <1>3
<1>5. Reverse(p) \in Seq(Chars)
  BY <1>3, <1>4 DEF Reverse
<1>6. <<0>> \in Seq(Chars)
  BY <1>1
<1> QED
  BY <1>2, <1>5, <1>6 DEF itoa, strrev, p
\* printf appends what each of the N parts of its format stands for.
Appends(out, N, format, arg) ==
  /\ out \in [0 .. N -> Seq(Chars)] /\ out[0] = <<>>
  /\ \A n \in 1 .. N : out[n] = out[n - 1] \o Converted(format[n], arg)
  /\ printf(format, arg) = out[N]

\* printf goes through its format.
LEMMA PrintfRuns ==
  ASSUME NEW format, NEW N \in Nat, Len(format) = N, NEW arg,
         \A n \in 1 .. N : Converted(format[n], arg) \in Seq(Chars)
  PROVE  \E out : Appends(out, N, format, arg)
<1> DEFINE Out(o) == o = [n \in 0 .. N |-> IF n = 0 THEN <<>>
                                          ELSE o[n - 1] \o Converted(format[n], arg)]
           G == [n \in 1 .. N |-> [s \in Seq(Chars) |-> s \o Converted(format[n], arg)]]
           out == CHOOSE o : Out(o)
<1>1. printf(format, arg) = out[N]
  BY DEF printf
<1>2. G \in [1 .. N -> [Seq(Chars) -> Seq(Chars)]] /\ <<>> \in Seq(Chars)
  OBVIOUS
<1>3. PICK r \in [0 .. N -> Seq(Chars)] : IsLoop(r, N, <<>>, G)
  <2> HIDE DEF G
  <2> QED BY <1>2, LoopExists
<1>4. \A n \in 0 .. N : r[n] = IF n = 0 THEN <<>> ELSE r[n - 1] \o Converted(format[n], arg)
  <2> TAKE n \in 0 .. N
  <2>1. r[n] = IF n = 0 THEN <<>> ELSE G[n][r[n - 1]]
    <3> HIDE DEF G
    <3> QED BY <1>3 DEF IsLoop
  <2>2. CASE n = 0
    BY <2>1, <2>2
  <2>3. CASE n # 0
    <3>1. n \in 1 .. N /\ n - 1 \in 0 .. N
      BY <2>3
    <3>2. r[n - 1] \in Seq(Chars)
      BY <3>1
    <3> QED BY <2>1, <2>3, <3>1, <3>2
  <2> QED BY <2>2, <2>3
<1>5. Out(r)
  <2>1. DOMAIN r = 0 .. N /\ r = [n \in DOMAIN r |-> r[n]]
    OBVIOUS
  <2> QED BY <1>4, <2>1
<1>6. Out(out)
  <2> HIDE DEF Out
  <2> QED BY <1>5
<1> HIDE DEF out
<1>7. /\ DOMAIN out = 0 .. N /\ out = [n \in DOMAIN out |-> out[n]]
      /\ \A n \in 0 .. N : out[n] = IF n = 0 THEN <<>> ELSE out[n - 1] \o Converted(format[n], arg)
  BY <1>6
<1> HIDE DEF Out, G
<1>8. \A n \in Nat : n <= N => out[n] \in Seq(Chars)
  <2> DEFINE T == {n \in Nat : n <= N => out[n] \in Seq(Chars)}
  <2>1. 0 \in T
    <3>1. out[0] = <<>>
      <4>1. 0 \in 0 .. N
        OBVIOUS
      <4> QED BY <4>1, <1>7, Zenon
    <3> QED BY <3>1, <1>2
  <2>2. ASSUME NEW n \in Nat, n \in T PROVE n + 1 \in T
    <3>1. CASE n + 1 <= N
      <4>1. n + 1 \in 1 .. N /\ n + 1 \in 0 .. N /\ (n + 1) - 1 = n /\ n + 1 # 0 /\ n <= N
        BY <3>1
      <4>2. out[n + 1] = out[n] \o Converted(format[n + 1], arg) /\ out[n] \in Seq(Chars)
            /\ Converted(format[n + 1], arg) \in Seq(Chars)
        BY <4>1, <2>2, <1>7
      <4>3. out[n + 1] \in Seq(Chars)
        BY <4>2
      <4> QED BY <4>3
    <3> QED BY <3>1
  <2>3. Nat \subseteq T
    <3> HIDE DEF T
    <3> QED BY <2>1, <2>2, Induction
  <2> QED BY <2>3
<1>9. out \in [0 .. N -> Seq(Chars)]
  BY <1>7, <1>8
<1>10. out[0] = <<>> /\ \A n \in 1 .. N : out[n] = out[n - 1] \o Converted(format[n], arg)
  <2>1. 0 \in 0 .. N /\ \A n \in 1 .. N : n \in 0 .. N /\ n # 0
    OBVIOUS
  <2> QED BY <1>7, <2>1, Zenon
<1> QED
  BY <1>1, <1>9, <1>10 DEF Appends

\* What the kernel prints is plain but for the conversions.
LEMMA MarksPlain ==
  /\ BarMark \in Chars /\ MsgMark \in Chars /\ Newline \in Chars /\ Backspace \in Chars
  /\ \A arg : Converted(BarMark, arg) = <<BarMark>> /\ Converted(Newline, arg) = <<Newline>>
  /\ \A arg : Converted(PercentD, arg) = itoa(arg, Decimal)
              /\ Converted(PercentX, arg) = itoa(arg, Hexadecimal)
BY TextAssumption, DisplayAssumption DEF Chars, Shows, Converted

\* The texts the kernel prints.
LEMMA KernelTexts ==
  /\ Message \in Seq(Chars) /\ Message # <<>>
  /\ \A t \in Nat : LET s == printf(<<BarMark, PercentD, Newline>>, t)
                    IN  s \in Seq(Chars) /\ s = <<BarMark>> \o itoa(t, Decimal) \o <<Newline>>
                        /\ s # <<>>
  /\ \A a \in Nat : LET s == printf(<<PercentX, Newline>>, a)
                    IN  s \in Seq(Chars) /\ s = itoa(a, Hexadecimal) \o <<Newline>>
<1>1. Message \in Seq(Chars) /\ Message # <<>>
  BY MarksPlain DEF Message
<1>2. ASSUME NEW t \in Nat
      PROVE  LET s == printf(<<BarMark, PercentD, Newline>>, t)
             IN  s \in Seq(Chars) /\ s = <<BarMark>> \o itoa(t, Decimal) \o <<Newline>> /\ s # <<>>
  <2> DEFINE f == <<BarMark, PercentD, Newline>>
             m == itoa(t, Decimal)
  <2>1. f[1] = BarMark /\ f[2] = PercentD /\ f[3] = Newline /\ Len(f) = 3
    OBVIOUS
  <2>2. m \in Seq(Chars)
    BY ItoaText
  <2> HIDE DEF m
  <2>3. /\ Converted(f[1], t) = <<BarMark>> /\ Converted(f[2], t) = m
        /\ Converted(f[3], t) = <<Newline>>
    BY <2>1, MarksPlain DEF m
  <2>4. <<BarMark>> \in Seq(Chars) /\ <<Newline>> \in Seq(Chars)
    BY MarksPlain
  <2> HIDE DEF f
  <2>5. \A n \in 1 .. 3 : Converted(f[n], t) \in Seq(Chars)
    <3>1. \A n \in 1 .. 3 : n = 1 \/ n = 2 \/ n = 3
      OBVIOUS
    <3> QED BY <2>2, <2>3, <2>4, <3>1
  <2>6. PICK out : Appends(out, 3, f, t)
    BY <2>1, <2>5, PrintfRuns
  <2>7. out[1] = <<>> \o <<BarMark>> /\ out[2] = out[1] \o m /\ out[3] = out[2] \o <<Newline>>
    <3>1. 1 \in 1 .. 3 /\ 2 \in 1 .. 3 /\ 3 \in 1 .. 3 /\ 1 - 1 = 0 /\ 2 - 1 = 1 /\ 3 - 1 = 2
      OBVIOUS
    <3> QED BY <2>3, <2>6, <3>1, Zenon DEF Appends
  <2>8. out[1] = <<BarMark>>
    BY <2>7
  <2>9. printf(f, t) \in Seq(Chars) /\ printf(f, t) = <<BarMark>> \o m \o <<Newline>>
        /\ printf(f, t) # <<>>
    BY <2>2, <2>4, <2>6, <2>7, <2>8 DEF Appends
  <2> QED BY <2>9 DEF f, m
<1>3. ASSUME NEW a \in Nat
      PROVE  LET s == printf(<<PercentX, Newline>>, a)
             IN  s \in Seq(Chars) /\ s = itoa(a, Hexadecimal) \o <<Newline>>
  <2> DEFINE f == <<PercentX, Newline>>
             m == itoa(a, Hexadecimal)
  <2>1. f[1] = PercentX /\ f[2] = Newline /\ Len(f) = 2
    OBVIOUS
  <2>2. m \in Seq(Chars)
    BY ItoaText
  <2> HIDE DEF m
  <2>3. Converted(f[1], a) = m /\ Converted(f[2], a) = <<Newline>>
    BY <2>1, MarksPlain DEF m
  <2>4. <<Newline>> \in Seq(Chars)
    BY MarksPlain
  <2> HIDE DEF f
  <2>5. \A n \in 1 .. 2 : Converted(f[n], a) \in Seq(Chars)
    <3>1. \A n \in 1 .. 2 : n = 1 \/ n = 2
      OBVIOUS
    <3> QED BY <2>2, <2>3, <2>4, <3>1
  <2>6. PICK out : Appends(out, 2, f, a)
    BY <2>1, <2>5, PrintfRuns
  <2>7. out[1] = <<>> \o m /\ out[2] = out[1] \o <<Newline>>
    <3>1. 1 \in 1 .. 2 /\ 2 \in 1 .. 2 /\ 1 - 1 = 0 /\ 2 - 1 = 1
      OBVIOUS
    <3> QED BY <2>3, <2>6, <3>1, Zenon DEF Appends
  <2>8. out[1] = m
    BY <2>2, <2>7
  <2>9. printf(f, a) \in Seq(Chars) /\ printf(f, a) = m \o <<Newline>>
    BY <2>2, <2>4, <2>6, <2>7, <2>8 DEF Appends
  <2> QED BY <2>9 DEF f, m
<1> QED
  BY <1>1, <1>2, <1>3
-----------------------------------------------------------------------------
(* What handlers and system calls do with the display.                     *)

\* The mappings are those of the terminal that runs.
Follows(d) ==
  /\ d.ptr = d.running /\ d.mapped = Place(d, d.running)
  /\ d.usrmap = [present |-> d.vidmap_flag[d.running], page |-> Place(d, d.running)]

\* The hardware cursor is that of the terminal that is viewed.
HwShows(d) == d.hw = Position(d.cursor[d.viewing])

\* e is d after text for the terminal whose mapping is in use.
Wrote(d, e) ==
  /\ e \in Displays
  /\ \A p \in Pages : p # d.mapped => e.memory[p] = d.memory[p]
  /\ \A t \in Term : t # d.ptr => e.cursor[t] = d.cursor[t]
  /\ e.ptr = d.ptr /\ e.mapped = d.mapped /\ e.usrmap = d.usrmap
  /\ e.viewing = d.viewing /\ e.running = d.running /\ e.vidmap_flag = d.vidmap_flag
  /\ d.viewing # d.running => e.hw = d.hw
  /\ d.viewing = d.running => e = d \/ e.hw = Position(e.cursor[e.ptr])

\* puts writes to the terminal that is mapped, and calibrates the cursor if that one is viewed.
LEMMA PutsWrote ==
  ASSUME NEW d \in Displays, NEW str \in Seq(Chars)
  PROVE  /\ Wrote(d, puts(d, str))
         /\ str # <<>> /\ d.viewing = d.running =>
              puts(d, str).hw = Position(puts(d, str).cursor[puts(d, str).ptr])
<1> DEFINE X == {e \in Displays : Wrote(d, e)}
<1>1. X \in SUBSET Displays /\ d \in X
  BY DEF Wrote
<1>2. ASSUME NEW e \in X, NEW c \in Chars
      PROVE  /\ Wrote(d, nb_putc(e, c))
             /\ d.viewing = d.running =>
                  nb_putc(e, c).hw = Position(nb_putc(e, c).cursor[nb_putc(e, c).ptr])
  <2> DEFINE f == nb_putc(e, c)
             s == PutC(Screen(e), c)
  <2>1. e \in Displays /\ Wrote(d, e)
    OBVIOUS
  <2>2. /\ f \in Displays
        /\ f.memory = [e.memory EXCEPT ![e.mapped] = s.cells]
        /\ f.cursor = [e.cursor EXCEPT ![e.ptr] = [x |-> s.x, y |-> s.y]]
        /\ f.ptr = e.ptr /\ f.mapped = e.mapped /\ f.usrmap = e.usrmap
        /\ f.viewing = e.viewing /\ f.running = e.running /\ f.vidmap_flag = e.vidmap_flag
        /\ f.hw = IF e.viewing = e.running THEN Position(f.cursor[e.ptr]) ELSE e.hw
    BY <2>1, PutcDisplay
  <2> HIDE DEF X, f, s
  <2>3. e.memory \in [Pages -> [Cells -> Shows]] /\ e.cursor \in [Term -> Cursors]
    BY <2>1 DEF Displays
  <2>4. /\ \A p \in Pages : p # e.mapped => f.memory[p] = e.memory[p]
        /\ \A t \in Term : t # e.ptr => f.cursor[t] = e.cursor[t]
    BY <2>2, <2>3
  <2> QED BY <2>1, <2>2, <2>4 DEF Wrote, f
<1>3. \A e \in X, c \in Chars : nb_putc(e, c) \in X
  BY <1>2 DEF Wrote
<1> HIDE DEF X
<1>4. /\ puts(d, str) \in X
      /\ str # <<>> => \E e \in X, c \in Chars : puts(d, str) = nb_putc(e, c)
  BY <1>1, <1>3, PutsIn
<1>5. Wrote(d, puts(d, str))
  BY <1>4 DEF X
<1> QED
  BY <1>2, <1>4, <1>5

\* The viewed terminal is in the video memory.
LEMMA ViewedVideo ==
  ASSUME NEW d
  PROVE  Place(d, d.viewing) = Video
BY DEF Place

\* The keyboard handler leaves the mappings of the terminal that runs.
KeyWrote(d, e) ==
  /\ e \in Displays /\ Follows(e) /\ HwShows(e)
  /\ \A p \in Term : e.memory[p] = d.memory[p]
  /\ \A t \in Term : t # d.viewing => e.cursor[t] = d.cursor[t]
  /\ e.viewing = d.viewing /\ e.running = d.running /\ e.vidmap_flag = d.vidmap_flag

\* The end of the keyboard handler: the cursor is calibrated, the running terminal mapped.
LEMMA MapRunningWrote ==
  ASSUME NEW d \in Displays, d.ptr = d.viewing
  PROVE  LET e == MapRunning(d)
         IN  e \in Displays /\ Follows(e) /\ HwShows(e) /\ SameText(d, e)
<1> DEFINE f == calib_cursor(d)
           e == change_vidmem_mapping(f, d.running)
<1>1. f \in Displays /\ SameText(d, f) /\ f.hw = Position(d.cursor[d.ptr])
  BY CalibDisplay
<1>2. d.running \in Term
  BY DEF Displays
<1> HIDE DEF f
<1>3. /\ e \in Displays /\ SameText(f, e) /\ e.hw = f.hw
      /\ e.ptr = d.running /\ e.mapped = Place(f, d.running)
      /\ e.usrmap = [present |-> f.vidmap_flag[d.running], page |-> Place(f, d.running)]
  BY <1>1, <1>2, MapDisplay
<1>4. MapRunning(d) = e
  BY DEF MapRunning, f
<1> HIDE DEF e
<1> QED
  BY <1>1, <1>3, <1>4 DEF SameText, Follows, HwShows, Place

\* A key changes the viewed terminal only.
LEMMA EchoWrote ==
  ASSUME NEW d \in Displays, NEW c \in Chars
  PROVE  KeyWrote(d, Echo(d, c))
<1> DEFINE m == MapViewed(d)
           f == nb_putc(m, c)
           e == MapRunning(f)
<1>1. d.viewing \in Term /\ Place(d, d.viewing) = Video
  BY ViewedVideo DEF Displays
<1>2. m \in Displays /\ SameText(d, m) /\ m.ptr = d.viewing /\ m.mapped = Video
  BY <1>1, MapDisplay DEF MapViewed
<1> HIDE DEF m
<1>3. /\ f \in Displays /\ f.ptr = m.ptr
      /\ f.memory = [m.memory EXCEPT ![m.mapped] = PutC(Screen(m), c).cells]
      /\ f.cursor = [m.cursor EXCEPT ![m.ptr] = [x |-> PutC(Screen(m), c).x, y |-> PutC(Screen(m), c).y]]
      /\ f.viewing = m.viewing /\ f.running = m.running /\ f.vidmap_flag = m.vidmap_flag
  BY <1>2, PutcDisplay
<1> HIDE DEF f
<1>4. e \in Displays /\ Follows(e) /\ HwShows(e) /\ SameText(f, e)
  BY <1>2, <1>3, MapRunningWrote DEF SameText
<1>5. Echo(d, c) = e
  BY DEF Echo, f, m
<1> HIDE DEF e
<1>6. m.memory \in [Pages -> [Cells -> Shows]] /\ m.cursor \in [Term -> Cursors]
  BY <1>2 DEF Displays
<1>7. \A t \in Term : t \in Pages /\ t # Video
  BY DisplayAssumption DEF Pages, Video
<1> QED
  BY <1>2, <1>3, <1>4, <1>5, <1>6, <1>7 DEF SameText, KeyWrote

\* Ctrl+L changes the viewed terminal only.
LEMMA ClearWrote ==
  ASSUME NEW d \in Displays
  PROVE  KeyWrote(d, clear(d))
<1> DEFINE m == MapViewed(d)
           s == ClearText(Screen(m))
           f == SetScreen(m, s)
           e == MapRunning(f)
<1>1. d.viewing \in Term /\ Place(d, d.viewing) = Video
  BY ViewedVideo DEF Displays
<1>2. m \in Displays /\ SameText(d, m) /\ m.ptr = d.viewing /\ m.mapped = Video
  BY <1>1, MapDisplay DEF MapViewed
<1> HIDE DEF m
<1>3. s \in TextScreens
  <2>1. Screen(m).cells \in [Cells -> Shows]
    BY <1>2, ScreenOf DEF TextScreens
  <2> QED BY <2>1, ClearScreens
<1> HIDE DEF s
<1>4. /\ f \in Displays /\ f.ptr = m.ptr
      /\ f.memory = [m.memory EXCEPT ![m.mapped] = s.cells]
      /\ f.cursor = [m.cursor EXCEPT ![m.ptr] = [x |-> s.x, y |-> s.y]]
      /\ f.viewing = m.viewing /\ f.running = m.running /\ f.vidmap_flag = m.vidmap_flag
  BY <1>2, <1>3, SetScreenDisplay
<1> HIDE DEF f
<1>5. e \in Displays /\ Follows(e) /\ HwShows(e) /\ SameText(f, e)
  BY <1>2, <1>4, MapRunningWrote DEF SameText
<1>6. clear(d) = e
  BY DEF clear, f, m, s
<1> HIDE DEF e
<1>7. m.memory \in [Pages -> [Cells -> Shows]] /\ m.cursor \in [Term -> Cursors]
  BY <1>2 DEF Displays
<1>8. \A t \in Term : t \in Pages /\ t # Video
  BY DisplayAssumption DEF Pages, Video
<1> QED
  BY <1>2, <1>4, <1>5, <1>6, <1>7, <1>8 DEF SameText, KeyWrote

\* Another terminal is viewed: the screen goes to the buffer of the one that was,
\* and its own buffer to the screen.
LEMMA SwitchWrote ==
  ASSUME NEW d \in Displays, NEW target \in Term, target # d.viewing
  PROVE  LET e == switch_display(d, target)
         IN  /\ e \in Displays /\ Follows(e) /\ HwShows(e)
             /\ e.memory = [d.memory EXCEPT ![d.viewing] = d.memory[Video], ![Video] = d.memory[target]]
             /\ e.cursor = d.cursor
             /\ e.viewing = target /\ e.running = d.running /\ e.vidmap_flag = d.vidmap_flag
<1> DEFINE a == [d EXCEPT !.ptr = target]
           b == ShowCursorOf(d, target)
           m == MapViewed(b)
           mem == [m.memory EXCEPT ![m.viewing] = m.memory[m.mapped]]
           mem2 == [mem EXCEPT ![m.mapped] = m.memory[target]]
           f == MovesContents(m, target)
           g == [f EXCEPT !.viewing = target]
           e == change_vidmem_mapping(g, d.running)
<1>1. a \in Displays /\ SameText(d, a) /\ a.ptr = target
  BY DEF Displays, SameText
<1>2. b = calib_cursor(a)
  BY DEF ShowCursorOf
<1> HIDE DEF a, b
<1>3. b \in Displays /\ SameText(d, b) /\ b.hw = Position(d.cursor[target])
  BY <1>1, <1>2, CalibDisplay DEF SameText
<1>4. b.viewing \in Term /\ Place(b, b.viewing) = Video
  BY <1>3, ViewedVideo DEF Displays
<1>5. m \in Displays /\ SameText(d, m) /\ m.mapped = Video /\ m.hw = b.hw
  BY <1>3, <1>4, MapDisplay DEF MapViewed, SameText
<1> HIDE DEF m
<1>6. m.memory \in [Pages -> [Cells -> Shows]] /\ m.viewing \in Pages /\ Video \in Pages /\ target \in Pages
  BY <1>5 DEF Displays, Pages
<1>7. mem \in [Pages -> [Cells -> Shows]] /\ mem2 \in [Pages -> [Cells -> Shows]]
  BY <1>5, <1>6
<1>8. f = [m EXCEPT !.memory = mem2]
  BY <1>5, <1>6 DEF MovesContents
<1> HIDE DEF f
<1>9. mem2 = [d.memory EXCEPT ![d.viewing] = d.memory[Video], ![Video] = d.memory[target]]
  BY <1>5 DEF SameText
<1> HIDE DEF mem, mem2
<1>10. /\ f \in Displays /\ f.memory = mem2 /\ f.cursor = d.cursor /\ f.hw = m.hw
       /\ f.running = d.running /\ f.vidmap_flag = d.vidmap_flag
  BY <1>5, <1>7, <1>8 DEF Displays, SameText
<1>11. /\ g \in Displays /\ g.memory = mem2 /\ g.cursor = d.cursor /\ g.hw = m.hw
       /\ g.running = d.running /\ g.vidmap_flag = d.vidmap_flag /\ g.viewing = target
  BY <1>10 DEF Displays
<1>12. d.running \in Term
  BY DEF Displays
<1> HIDE DEF g
<1>13. /\ e \in Displays /\ SameText(g, e) /\ e.hw = g.hw
       /\ e.ptr = d.running /\ e.mapped = Place(g, d.running)
       /\ e.usrmap = [present |-> g.vidmap_flag[d.running], page |-> Place(g, d.running)]
  BY <1>11, <1>12, MapDisplay
<1>14. switch_display(d, target) = e
  BY DEF switch_display, g, f, m, b
<1> HIDE DEF e
<1> QED
  BY <1>3, <1>5, <1>9, <1>11, <1>13, <1>14 DEF SameText, Follows, HwShows, Place
-----------------------------------------------------------------------------
(* The invariant.                                                          *)

Typed ==
  /\ display \in Displays
  /\ buf_pos \in 0 .. KBD_BUF_SIZE - 1 /\ term_pos \in [Term -> 0 .. KBD_BUF_SIZE - 1]
  /\ pcb_bitmap \subseteq Pid /\ cur_pid \in Pid \cup {NoPid}
  /\ parent_pid \in [Pid -> Pid \cup {NoPid}]
  /\ pcb_vidmap \in [Pid -> BOOLEAN]
  /\ term_pid \in [Term -> Pid \cup {NoPid}]
  /\ user_page \in Pid \cup {NoPid}
  /\ steps \in 0 .. MaxSteps

\* The process that runs in a terminal, or waits there for the processor.
HeadOf(t) == IF t = display.running THEN cur_pid ELSE term_pid[t]

\* Every process in use is a head or the parent of one other, and until every
\* terminal has been started there are only base shells.
Processes ==
  /\ \A t \in Term : HeadOf(t) # NoPid => HeadOf(t) \in pcb_bitmap
  /\ \A t, u \in Term : HeadOf(t) # NoPid /\ HeadOf(t) = HeadOf(u) => t = u
  /\ \A p \in pcb_bitmap : parent_pid[p] # NoPid => parent_pid[p] \in pcb_bitmap
  /\ \A p, q \in pcb_bitmap : parent_pid[p] # NoPid /\ parent_pid[p] = parent_pid[q] => p = q
  /\ \A p \in pcb_bitmap, t \in Term : parent_pid[p] = HeadOf(t) => HeadOf(t) = NoPid
  /\ \A t \in Term : HeadOf(t) = NoPid =>
       \A p \in pcb_bitmap : parent_pid[p] = NoPid /\ \E u \in Term : p = HeadOf(u)

\* Only a head that is no base shell may have called vidmap, and its terminal
\* knows.
Flags ==
  /\ \A p \in pcb_bitmap : pcb_vidmap[p] => parent_pid[p] # NoPid
  /\ \A p \in pcb_bitmap : parent_pid[p] # NoPid => ~pcb_vidmap[parent_pid[p]]
  /\ \A t \in Term : display.vidmap_flag[t] = (HeadOf(t) # NoPid /\ pcb_vidmap[HeadOf(t)])

Mapped == cur_pid # NoPid => user_page = cur_pid /\ Follows(display)

IInv == Typed /\ Processes /\ Flags /\ Mapped /\ CursorShown

\* MappingsFollow is a part of the invariant.
LEMMA IInvFollows ==
  ASSUME IInv
  PROVE  MappingsFollow
<1>1. display.running \in Term /\ HeadOf(display.running) = cur_pid
  BY DEF IInv, Typed, Displays, HeadOf
<1>2. cur_pid # NoPid => display.vidmap_flag[display.running] = pcb_vidmap[cur_pid]
  BY <1>1 DEF IInv, Flags, Typed
<1> QED
  BY <1>1, <1>2 DEF IInv, Mapped, Follows, MappingsFollow

-----------------------------------------------------------------------------
(* Pids.                                                                   *)

\* A pid is found unless all are in use.
LEMMA FreePid ==
  ASSUME NEW bitmap \in SUBSET Pid, bitmap # Pid
  PROVE  record_process(bitmap) \in Pid \ bitmap /\ record_process(bitmap) # NoPid
<1> DEFINE free == Pid \ bitmap
<1>1. Pid \subseteq Nat /\ NoPid \notin Pid
  BY DEF Pid, NoPid
<1>2. free \in SUBSET Nat /\ free # {}
  BY <1>1
<1>3. \E m \in free : \A n \in free : m <= n
  <2> HIDE DEF free
  <2> QED BY <1>2, LeastElement
<1>4. Min(free) \in free
  <2> HIDE DEF free
  <2> QED BY <1>3 DEF Min
<1> QED
  BY <1>1, <1>4 DEF record_process

\* While a terminal waits for its base shell, there is a pid for it.
LEMMA PidsLeft ==
  ASSUME Typed, Processes, NEW n \in Term, HeadOf(n) = NoPid
  PROVE  pcb_bitmap # Pid
<1> SUFFICES ASSUME pcb_bitmap = Pid PROVE FALSE
  OBVIOUS
<1> DEFINE At == [p \in Pid |-> CHOOSE u \in Term : p = HeadOf(u)]
<1>1. \A p \in Pid : \E u \in Term : p = HeadOf(u)
  BY DEF Processes
<1>2. \A p \in Pid : At[p] \in Term /\ p = HeadOf(At[p])
  BY <1>1
<1> HIDE DEF At
<1>3. \A p \in Pid : At[p] \in Term \ {n}
  BY <1>2 DEF Pid, NoPid
<1>4. /\ IsFiniteSet(Pid) /\ Cardinality(Pid) = MAX_NUM_PROCESS
      /\ IsFiniteSet(Term) /\ Cardinality(Term) \in Nat /\ Cardinality(Term) <= MAX_NUM_PROCESS
  <2>1. \A m \in Nat \ {0} : IsFiniteSet(0 .. m - 1) /\ Cardinality(0 .. m - 1) = m
    <3> TAKE m \in Nat \ {0}
    <3>1. IsFiniteSet(0 .. m - 1) /\ Cardinality(0 .. m - 1) = IF 0 > m - 1 THEN 0 ELSE m - 1 - 0 + 1
      BY FS_Interval
    <3> QED BY <3>1
  <2>2. /\ Term = 0 .. Cardinality(Term) - 1 /\ Cardinality(Term) \in 2 .. MAX_NUM_PROCESS
        /\ MAX_NUM_PROCESS \in Nat
    BY DisplayAssumption
  <2>3. Cardinality(Term) \in Nat \ {0} /\ MAX_NUM_PROCESS \in Nat \ {0}
    BY <2>2
  <2> QED BY <2>1, <2>2, <2>3 DEF Pid
<1>5. IsFiniteSet(Term \ {n}) /\ Cardinality(Term \ {n}) = Cardinality(Term) - 1
  BY <1>4, FS_RemoveElement
<1>6. Cardinality(Term \ {n}) < Cardinality(Pid)
  BY <1>4, <1>5, DisplayAssumption
<1>7. At \in [Pid -> Term \ {n}]
  BY <1>3 DEF At
<1>8. \E p, q \in Pid : p # q /\ At[p] = At[q]
  BY <1>4, <1>5, <1>6, <1>7, FS_PigeonHole
<1> QED
  BY <1>2, <1>8

-----------------------------------------------------------------------------
(* Initially.                                                              *)

\* The pages and terminals are what they seem.
LEMMA PageSets ==
  /\ Video \in Pages /\ \A t \in Term : t \in Pages /\ t # Video
  /\ 0 \in Term /\ 0 \in Columns /\ 0 \in Rows
  /\ NoPid \notin Pid
BY DisplayAssumption, Sizes DEF Pages, Video, Columns, Rows, NoPid, Pid

\* terminal_init and boot establish the invariant.
LEMMA InitIInv == Init => IInv
<1> SUFFICES ASSUME Init PROVE IInv
  OBVIOUS
<1> DEFINE bios == [cells |-> [i \in Cells |-> Junk], x |-> 0, y |-> 0]
           memory == [p \in Pages |-> IF p = Video THEN ClearText(bios).cells ELSE bios.cells]
           cursor == [t \in Term |-> [x |-> 0, y |-> 0]]
           flags == [t \in Term |-> FALSE]
           usrmap == [present |-> TRUE, page |-> Video]
<1>1. bios.cells \in [Cells -> Shows]
  BY DEF Shows
<1>2. ClearText(bios) \in TextScreens
  <2> HIDE DEF bios
  <2> QED BY <1>1, ClearScreens
<1>3. ClearText(bios).cells \in [Cells -> Shows] /\ Position(ClearText(bios)) \in Cells
  <2> DEFINE c == ClearText(bios)
  <2>1. c \in TextScreens
    BY <1>2
  <2> HIDE DEF c
  <2>2. c.cells \in [Cells -> Shows] /\ c.x \in Columns /\ c.y \in Rows
    BY <2>1 DEF TextScreens
  <2>3. Position(c) \in Cells
    BY <2>2, PositionCell
  <2> QED BY <2>2, <2>3 DEF c
<1>4. display = [memory |-> memory, cursor |-> cursor, ptr |-> 0, mapped |-> Video,
                 usrmap |-> usrmap, hw |-> Position(ClearText(bios)), viewing |-> 0,
                 running |-> 0, vidmap_flag |-> flags]
  BY DEF Init, InitialDisplay, InitialMapping
<1>5. memory \in [Pages -> [Cells -> Shows]] /\ cursor \in [Term -> Cursors]
      /\ flags \in [Term -> BOOLEAN] /\ usrmap \in [present : BOOLEAN, page : Pages]
  <2> HIDE DEF bios
  <2> QED BY <1>1, <1>3, PageSets DEF Cursors
<1> HIDE DEF memory, cursor, usrmap, bios
<1>6. display \in Displays
  <2> DEFINE hw == Position(ClearText(bios))
  <2>1. hw \in Cells
    BY <1>3
  <2> HIDE DEF hw, flags
  <2> QED BY <1>4, <1>5, <2>1, PageSets DEF Displays, hw
<1>7. Typed
  BY <1>6, DisplayAssumption DEF Init, Typed
<1>8. \A t \in Term : HeadOf(t) = NoPid
  BY DEF Init, HeadOf
<1>9. Processes
  BY <1>8 DEF Processes, Init
<1>10. \A t \in Term : display.vidmap_flag[t] = FALSE
  BY <1>4
<1>11. Flags
  BY <1>8, <1>10 DEF Flags, Init
<1>12. Mapped /\ CursorShown
  BY <1>4, PageSets DEF Init, Mapped, CursorShown, Started
<1> QED
  BY <1>7, <1>9, <1>11, <1>12 DEF IInv

-----------------------------------------------------------------------------
(* Steps that leave the processes alone.                                   *)

\* What leaves the processes and the flags alone.
LEMMA SameProcesses ==
  ASSUME IInv, UNCHANGED processes,
         display'.running = display.running, display'.vidmap_flag = display.vidmap_flag
  PROVE  Processes' /\ Flags' /\ \A t \in Term : HeadOf(t)' = HeadOf(t)
<1>1. \A t \in Term : HeadOf(t)' = HeadOf(t)
  BY DEF HeadOf, processes
<1>2. Processes'
  BY <1>1 DEF Processes, processes, IInv
<1>3. Flags'
  BY <1>1 DEF Flags, processes, IInv
<1> QED
  BY <1>1, <1>2, <1>3

\* The keys.
LEMMA KeyboardIInv ==
  ASSUME IInv, UNCHANGED processes, display' \in Displays, Follows(display'), HwShows(display'),
         display'.running = display.running, display'.vidmap_flag = display.vidmap_flag,
         buf_pos' \in 0 .. KBD_BUF_SIZE - 1, term_pos' \in [Term -> 0 .. KBD_BUF_SIZE - 1],
         Bounded
  PROVE  IInv'
<1>1. steps' \in 0 .. MaxSteps
  BY DisplayAssumption DEF IInv, Typed, Bounded
<1>2. Typed'
  BY <1>1 DEF IInv, Typed, processes
<1>3. Mapped' /\ CursorShown'
  BY DEF IInv, Mapped, Follows, Place, HwShows, CursorShown, processes
<1> QED
  BY <1>2, <1>3, SameProcesses DEF IInv

\* The keyboard handler.
LEMMA KeyIInv ==
  ASSUME IInv, KeyboardStep
  PROVE  IInv'
<1>1. display \in Displays /\ buf_pos \in 0 .. KBD_BUF_SIZE - 1
      /\ term_pos \in [Term -> 0 .. KBD_BUF_SIZE - 1] /\ KBD_BUF_SIZE \in Nat \ {0, 1}
  BY DisplayAssumption DEF IInv, Typed
<1>2. ASSUME NEW c \in Keys, Key(c) PROVE IInv'
  <2>1. c \in Chars
    BY DEF Chars, Shows
  <2>2. KeyWrote(display, display')
    BY <1>1, <1>2, <2>1, EchoWrote DEF Key
  <2>3. buf_pos' \in 0 .. KBD_BUF_SIZE - 1
    BY <1>1, <1>2 DEF Key
  <2> QED BY <1>1, <1>2, <2>2, <2>3, KeyboardIInv DEF Key, KeyWrote
<1>3. CASE Enter
  <2>1. KeyWrote(display, display')
    BY <1>1, <1>3, MarksPlain, EchoWrote DEF Enter
  <2> QED BY <1>1, <1>3, <2>1, KeyboardIInv DEF Enter, KeyWrote
<1>4. CASE EraseKey
  <2>1. KeyWrote(display, display')
    BY <1>1, <1>4, MarksPlain, EchoWrote DEF EraseKey
  <2>2. buf_pos' \in 0 .. KBD_BUF_SIZE - 1
    BY <1>1, <1>4 DEF EraseKey
  <2> QED BY <1>1, <1>4, <2>1, <2>2, KeyboardIInv DEF EraseKey, KeyWrote
<1>5. CASE ClearScreen
  <2>1. KeyWrote(display, display')
    BY <1>1, <1>5, ClearWrote DEF ClearScreen
  <2> QED BY <1>1, <1>5, <2>1, KeyboardIInv DEF ClearScreen, KeyWrote, keyboard
<1>6. ASSUME NEW t \in Term, switch_terminal(t) PROVE IInv'
  <2>1. /\ display' \in Displays /\ Follows(display') /\ HwShows(display')
        /\ display'.running = display.running /\ display'.vidmap_flag = display.vidmap_flag
    BY <1>1, <1>6, SwitchWrote DEF switch_terminal
  <2>2. buf_pos' \in 0 .. KBD_BUF_SIZE - 1 /\ term_pos' \in [Term -> 0 .. KBD_BUF_SIZE - 1]
    BY <1>1, <1>6 DEF switch_terminal
  <2> QED BY <1>6, <2>1, <2>2, KeyboardIInv DEF switch_terminal
<1> QED
  BY <1>2, <1>3, <1>4, <1>5, <1>6 DEF KeyboardStep

-----------------------------------------------------------------------------
(* Steps of the program that runs.                                         *)

\* What a system call or an exception leaves when it has printed.
Printed(d, e) ==
  /\ e \in Displays /\ Follows(e) /\ (HwShows(d) => HwShows(e))
  /\ e.viewing = d.viewing /\ e.running = d.running /\ e.vidmap_flag = d.vidmap_flag

\* puts leaves the mappings, and the cursor if it was right.
LEMMA PutsPrinted ==
  ASSUME NEW d \in Displays, Follows(d), NEW str \in Seq(Chars)
  PROVE  Printed(d, puts(d, str))
<1> DEFINE e == puts(d, str)
<1>1. Wrote(d, e)
  BY PutsWrote
<1> HIDE DEF e
<1>2. Follows(e)
  BY <1>1 DEF Wrote, Follows, Place
<1>3. HwShows(d) => HwShows(e)
  BY <1>1 DEF Wrote, HwShows, Follows, Displays
<1> QED
  BY <1>1, <1>2, <1>3 DEF Printed, Wrote, e

\* What holds while a program runs.
LEMMA ProgramRuns ==
  ASSUME IInv, InProgram
  PROVE  /\ display \in Displays /\ Follows(display) /\ cur_pid \in Pid /\ cur_pid # NoPid
         /\ display.running \in Term /\ display.viewing \in Term
         /\ HeadOf(display.running) = cur_pid /\ cur_pid \in pcb_bitmap
         /\ steps' \in 0 .. MaxSteps
<1>1. display \in Displays /\ Follows(display) /\ cur_pid \in Pid /\ cur_pid # NoPid
  BY DEF IInv, Typed, Mapped, InProgram
<1>2. display.running \in Term /\ display.viewing \in Term
  BY <1>1 DEF Displays
<1>3. HeadOf(display.running) = cur_pid
  BY DEF HeadOf
<1>4. cur_pid \in pcb_bitmap
  BY <1>1, <1>2, <1>3 DEF IInv, Processes
<1>5. steps' \in 0 .. MaxSteps
  BY DisplayAssumption DEF IInv, Typed, InProgram, Bounded
<1> QED
  BY <1>1, <1>2, <1>3, <1>4, <1>5

\* Text, of programs or of the kernel.
LEMMA PrintIInv ==
  ASSUME IInv, NEW str \in Seq(Chars), terminal_write(str)
  PROVE  IInv'
<1>1. Printed(display, display')
  BY ProgramRuns, PutsPrinted DEF terminal_write
<1>2. Typed'
  BY <1>1, ProgramRuns DEF IInv, Typed, processes, keyboard, Printed, terminal_write
<1>3. Mapped'
  BY <1>1 DEF IInv, Mapped, processes, Printed, terminal_write, Follows
<1>4. CursorShown'
  BY <1>1 DEF IInv, CursorShown, Started, HwShows, Printed, processes, terminal_write
<1> QED
  BY <1>1, <1>2, <1>3, <1>4, SameProcesses DEF IInv, Printed, terminal_write

\* What programs write is text.
LEMMA WritesText ==
  ASSUME NEW w \in Writes
  PROVE  w \in Seq(Chars)
<1>1. w \in Seq(ToSet(w))
  BY DisplayAssumption
<1>2. ToSet(w) \subseteq Chars
  BY DEF Chars, Shows
<1>3. Len(w) \in Nat /\ w = [i \in 1 .. Len(w) |-> w[i]] /\ \A i \in 1 .. Len(w) : w[i] \in ToSet(w)
  BY <1>1
<1> QED
  BY <1>2, <1>3

\* Drawing through the page of vidmap.
LEMMA DrawIInv ==
  ASSUME IInv, Draw
  PROVE  IInv'
<1> USE ProgramRuns DEF Draw
<1>1. PICK i \in Drawn : display' = [display EXCEPT !.memory[display.usrmap.page][i] = Ink]
  OBVIOUS
<1> DEFINE page == display.usrmap.page
           cells == [display.memory[page] EXCEPT ![i] = Ink]
           memory == [display.memory EXCEPT ![page] = cells]
<1>2. display.memory \in [Pages -> [Cells -> Shows]] /\ page \in Pages
  BY DEF Displays
<1>3. cells \in [Cells -> Shows]
  BY <1>2 DEF Shows
<1>4. memory \in [Pages -> [Cells -> Shows]]
  BY <1>2, <1>3
<1>5. display' = [display EXCEPT !.memory = memory]
  BY <1>1
<1> HIDE DEF memory
<1>6. /\ display' \in Displays /\ display'.cursor = display.cursor
      /\ display'.ptr = display.ptr /\ display'.mapped = display.mapped
      /\ display'.usrmap = display.usrmap /\ display'.hw = display.hw
      /\ display'.viewing = display.viewing /\ display'.running = display.running
      /\ display'.vidmap_flag = display.vidmap_flag
  BY <1>4, <1>5 DEF Displays
<1>7. UNCHANGED <<keyboard, processes>>
  OBVIOUS
<1>8. Typed'
  BY <1>6, <1>7 DEF IInv, Typed, processes, keyboard
<1>9. Mapped' /\ CursorShown'
  BY <1>6, <1>7 DEF IInv, Mapped, Follows, Place, CursorShown, Started, processes
<1> QED
  BY <1>6, <1>7, <1>8, <1>9, SameProcesses DEF IInv

\* execute: the new process takes the place of the one that waits for it.
LEMMA ExecuteIInv ==
  ASSUME IInv, syscall_execute
  PROVE  IInv'
<1> DEFINE q == record_process(pcb_bitmap)
<1>1. /\ q # NoPid /\ StartProcess(q, cur_pid, pcb_bitmap) /\ ~pcb_vidmap[cur_pid] /\ Booted
      /\ InProgram /\ UNCHANGED <<display, keyboard, term_pid>>
  BY DEF syscall_execute
<1>2. pcb_bitmap \in SUBSET Pid /\ parent_pid \in [Pid -> Pid \cup {NoPid}]
      /\ pcb_vidmap \in [Pid -> BOOLEAN]
  BY DEF IInv, Typed
<1>3. q \in Pid \ pcb_bitmap
  <2>1. pcb_bitmap # Pid
    BY <1>1 DEF record_process
  <2> QED BY <1>2, <2>1, FreePid
<1> HIDE DEF q
<1>4. /\ pcb_bitmap' = pcb_bitmap \cup {q} /\ cur_pid' = q /\ user_page' = q
      /\ parent_pid' = [parent_pid EXCEPT ![q] = cur_pid]
      /\ pcb_vidmap' = [pcb_vidmap EXCEPT ![q] = FALSE]
  BY <1>1 DEF StartProcess, setup_paging_and_flush_tlb
<1>5. /\ parent_pid'[q] = cur_pid /\ \A p \in pcb_bitmap : parent_pid'[p] = parent_pid[p]
      /\ pcb_vidmap'[q] = FALSE /\ \A p \in pcb_bitmap : pcb_vidmap'[p] = pcb_vidmap[p]
  BY <1>2, <1>3, <1>4
<1>6. /\ \A t \in Term : HeadOf(t)' = IF t = display.running THEN q ELSE HeadOf(t)
      /\ \A t \in Term : HeadOf(t) # NoPid /\ HeadOf(t)' # NoPid
  BY <1>1, <1>4 DEF HeadOf, Booted, InProgram
<1>7. /\ display.running \in Term /\ HeadOf(display.running) = cur_pid
      /\ cur_pid \in pcb_bitmap /\ cur_pid # NoPid /\ cur_pid # q
  BY <1>1, <1>3, ProgramRuns
<1>8. Processes'
  <2>1. \A t \in Term : HeadOf(t)' \in pcb_bitmap'
    BY <1>4, <1>6, <1>7 DEF IInv, Processes
  <2>2. \A t, u \in Term : HeadOf(t)' = HeadOf(u)' => t = u
    BY <1>3, <1>6, <1>7 DEF IInv, Processes
  <2>3. \A p \in pcb_bitmap' : parent_pid'[p] # NoPid => parent_pid'[p] \in pcb_bitmap'
    BY <1>4, <1>5, <1>7 DEF IInv, Processes
  <2>4. \A p, r \in pcb_bitmap' : parent_pid'[p] # NoPid /\ parent_pid'[p] = parent_pid'[r] => p = r
    BY <1>4, <1>5, <1>7 DEF IInv, Processes
  <2>5. \A p \in pcb_bitmap', t \in Term : parent_pid'[p] # HeadOf(t)'
    BY <1>3, <1>4, <1>5, <1>6, <1>7 DEF IInv, Processes
  <2> QED
    BY <1>6, <2>1, <2>2, <2>3, <2>4, <2>5 DEF Processes
<1>9. Flags'
  <2>1. \A p \in pcb_bitmap' : pcb_vidmap'[p] => parent_pid'[p] # NoPid
    BY <1>4, <1>5 DEF IInv, Flags
  <2>2. \A p \in pcb_bitmap' : parent_pid'[p] # NoPid => ~pcb_vidmap'[parent_pid'[p]]
    BY <1>1, <1>4, <1>5, <1>7 DEF IInv, Flags, Processes
  <2>3. ASSUME NEW t \in Term
        PROVE  display.vidmap_flag[t] = (HeadOf(t)' # NoPid /\ pcb_vidmap'[HeadOf(t)'])
    <3>1. CASE t = display.running
      BY <3>1, <1>1, <1>5, <1>6, <1>7 DEF IInv, Flags
    <3>2. CASE t # display.running
      BY <3>2, <1>5, <1>6 DEF IInv, Flags, Processes
    <3> QED BY <3>1, <3>2
  <2> QED
    BY <1>1, <2>1, <2>2, <2>3 DEF Flags
<1>10. Typed'
  <2>1. parent_pid' \in [Pid -> Pid \cup {NoPid}] /\ pcb_vidmap' \in [Pid -> BOOLEAN]
    BY <1>1, <1>2, <1>4, ProgramRuns
  <2> QED
    BY <1>1, <1>3, <1>4, <2>1, ProgramRuns DEF IInv, Typed, keyboard
<1>11. Mapped' /\ CursorShown'
  BY <1>1, <1>4, <1>7, ProgramRuns DEF IInv, Mapped, CursorShown, Started
<1> QED
  BY <1>8, <1>9, <1>10, <1>11 DEF IInv

\* vidmap: the page and the flag of the terminal become the program's.
LEMMA VidmapIInv ==
  ASSUME IInv, syscall_vidmap
  PROVE  IInv'
<1> DEFINE d == switch_usrmap(display, Place(display, display.running), TRUE)
           flags == [d.vidmap_flag EXCEPT ![d.running] = TRUE]
<1>1. /\ InProgram /\ parent_pid[cur_pid] # NoPid
      /\ display' = [d EXCEPT !.vidmap_flag = flags]
      /\ pcb_vidmap' = [pcb_vidmap EXCEPT ![cur_pid] = TRUE]
      /\ UNCHANGED <<keyboard, pcb_bitmap, cur_pid, parent_pid, term_pid, user_page>>
  BY DEF syscall_vidmap
<1>2. /\ d \in Displays /\ SameText(display, d)
      /\ d.ptr = display.ptr /\ d.mapped = display.mapped /\ d.hw = display.hw
      /\ d.usrmap = [present |-> TRUE, page |-> Place(display, display.running)]
  BY <1>1, ProgramRuns, PlacePage, UsrmapDisplay
<1> HIDE DEF d
<1>3. flags \in [Term -> BOOLEAN] /\ flags[display.running] = TRUE
      /\ \A t \in Term : t # display.running => flags[t] = display.vidmap_flag[t]
  BY <1>1, <1>2, ProgramRuns DEF Displays, SameText
<1> HIDE DEF flags
<1>4. /\ display' \in Displays /\ display'.vidmap_flag = flags
      /\ display'.cursor = display.cursor /\ display'.hw = display.hw
      /\ display'.viewing = display.viewing /\ display'.running = display.running
      /\ display'.ptr = display.ptr /\ display'.mapped = display.mapped
      /\ display'.usrmap = d.usrmap
  BY <1>1, <1>2, <1>3 DEF Displays, SameText
<1>5. pcb_vidmap \in [Pid -> BOOLEAN]
  BY DEF IInv, Typed
<1>6. pcb_vidmap'[cur_pid] /\ \A p \in Pid : p # cur_pid => pcb_vidmap'[p] = pcb_vidmap[p]
  BY <1>1, <1>5, ProgramRuns
<1>7. pcb_bitmap \subseteq Pid /\ parent_pid \in [Pid -> Pid \cup {NoPid}]
  BY DEF IInv, Typed
<1>8. \A t \in Term : HeadOf(t)' = HeadOf(t)
  BY <1>1, <1>4 DEF HeadOf
<1>9. Processes'
  BY <1>1, <1>8 DEF IInv, Processes
<1>10. Flags'
  <2>1. \A p \in pcb_bitmap : pcb_vidmap'[p] => parent_pid[p] # NoPid
    BY <1>1, <1>6, <1>7 DEF IInv, Flags
  <2>2. \A p \in pcb_bitmap : parent_pid[p] # NoPid => ~pcb_vidmap'[parent_pid[p]]
    BY <1>1, <1>6, <1>7, ProgramRuns DEF IInv, Flags, Processes
  <2>3. ASSUME NEW t \in Term
        PROVE  flags[t] = (HeadOf(t) # NoPid /\ pcb_vidmap'[HeadOf(t)])
    <3>1. CASE t = display.running
      BY <3>1, <1>1, <1>3, <1>6, ProgramRuns
    <3>2. CASE t # display.running
      <4>1. HeadOf(t) # NoPid => HeadOf(t) \in Pid /\ HeadOf(t) # cur_pid
        BY <3>2, <1>1, <1>7, ProgramRuns DEF IInv, Processes
      <4>2. display.vidmap_flag[t] = (HeadOf(t) # NoPid /\ pcb_vidmap[HeadOf(t)])
        BY DEF IInv, Flags
      <4> QED BY <3>2, <4>1, <4>2, <1>3, <1>6
    <3> QED BY <3>1, <3>2
  <2> QED
    BY <1>1, <1>4, <1>8, <2>1, <2>2, <2>3 DEF Flags
<1>11. Typed'
  BY <1>1, <1>4, <1>5, ProgramRuns DEF IInv, Typed, keyboard
<1>12. Mapped' /\ CursorShown'
  <2>1. Follows(display')
    BY <1>1, <1>2, <1>3, <1>4, ProgramRuns DEF Follows, Place
  <2> QED
    BY <1>1, <1>4, <2>1 DEF IInv, Mapped, CursorShown, Started
<1> QED
  BY <1>9, <1>10, <1>11, <1>12 DEF IInv

\* A base shell halts: one is started in its place.
LEMMA HaltBaseIInv ==
  ASSUME IInv, InProgram, NEW d, Printed(display, d), Halt(d), parent_pid[cur_pid] = NoPid
  PROVE  IInv'
<1> DEFINE bitmap == pcb_bitmap \ {cur_pid}
           q == record_process(bitmap)
<1>1. StartProcess(q, NoPid, bitmap) /\ display' = d /\ UNCHANGED <<keyboard, term_pid>>
  BY DEF Halt, decord_process
<1>2. pcb_bitmap \in SUBSET Pid /\ parent_pid \in [Pid -> Pid \cup {NoPid}]
      /\ pcb_vidmap \in [Pid -> BOOLEAN]
  BY DEF IInv, Typed
<1>3. q \in Pid \ bitmap /\ q # NoPid
  <2>1. bitmap \in SUBSET Pid /\ bitmap # Pid
    BY <1>2, ProgramRuns
  <2> HIDE DEF bitmap
  <2> QED BY <2>1, FreePid
<1> HIDE DEF q, bitmap
<1>4. /\ pcb_bitmap' = bitmap \cup {q} /\ cur_pid' = q /\ user_page' = q
      /\ parent_pid' = [parent_pid EXCEPT ![q] = NoPid]
      /\ pcb_vidmap' = [pcb_vidmap EXCEPT ![q] = FALSE]
  BY <1>1 DEF StartProcess, setup_paging_and_flush_tlb
<1>5. /\ parent_pid'[q] = NoPid /\ \A p \in bitmap : parent_pid'[p] = parent_pid[p]
      /\ pcb_vidmap'[q] = FALSE /\ \A p \in bitmap : pcb_vidmap'[p] = pcb_vidmap[p]
      /\ \A p \in bitmap : p \in pcb_bitmap /\ p # cur_pid /\ p # q
  BY <1>2, <1>3, <1>4 DEF bitmap
<1>6. /\ display'.running = display.running /\ display'.viewing = display.viewing
      /\ display'.vidmap_flag = display.vidmap_flag
  BY <1>1 DEF Printed
<1>7. \A t \in Term : HeadOf(t)' = IF t = display.running THEN q ELSE HeadOf(t)
  BY <1>1, <1>4, <1>6 DEF HeadOf
<1>8. /\ display.running \in Term /\ HeadOf(display.running) = cur_pid
      /\ cur_pid \in pcb_bitmap /\ cur_pid # NoPid
  BY ProgramRuns
<1>9. \A t \in Term : t # display.running /\ HeadOf(t) # NoPid => HeadOf(t) \in bitmap
  BY <1>8 DEF IInv, Processes, bitmap
<1>10. \A p \in bitmap : parent_pid[p] # NoPid => parent_pid[p] \in bitmap
  BY <1>5, <1>8 DEF IInv, Processes, bitmap
<1>11. Processes'
  <2>1. \A t \in Term : HeadOf(t)' # NoPid => HeadOf(t)' \in pcb_bitmap'
    BY <1>4, <1>7, <1>9
  <2>2. \A t, u \in Term : HeadOf(t)' # NoPid /\ HeadOf(t)' = HeadOf(u)' => t = u
    BY <1>5, <1>7, <1>9 DEF IInv, Processes
  <2>3. \A p \in pcb_bitmap' : parent_pid'[p] # NoPid => parent_pid'[p] \in pcb_bitmap'
    BY <1>4, <1>5, <1>10
  <2>4. \A p, r \in pcb_bitmap' : parent_pid'[p] # NoPid /\ parent_pid'[p] = parent_pid'[r] => p = r
    BY <1>4, <1>5 DEF IInv, Processes
  <2>5. \A p \in pcb_bitmap', t \in Term : parent_pid'[p] = HeadOf(t)' => HeadOf(t)' = NoPid
    BY <1>3, <1>4, <1>5, <1>7, <1>10 DEF IInv, Processes
  <2>6. ASSUME NEW t \in Term, HeadOf(t)' = NoPid, NEW p \in pcb_bitmap'
        PROVE  parent_pid'[p] = NoPid /\ \E u \in Term : p = HeadOf(u)'
    <3>1. t # display.running /\ HeadOf(t) = NoPid
      BY <2>6, <1>3, <1>7
    <3>2. CASE p = q
      BY <3>2, <1>5, <1>7, <1>8
    <3>3. CASE p \in bitmap
      <4>1. parent_pid[p] = NoPid /\ \E u \in Term : p = HeadOf(u)
        BY <3>1, <3>3, <1>5 DEF IInv, Processes
      <4> QED BY <3>3, <4>1, <1>5, <1>7, <1>8
    <3> QED BY <3>2, <3>3, <1>4
  <2> QED
    BY <2>1, <2>2, <2>3, <2>4, <2>5, <2>6 DEF Processes
<1>12. Flags'
  <2>1. \A p \in pcb_bitmap' : pcb_vidmap'[p] => parent_pid'[p] # NoPid
    BY <1>4, <1>5 DEF IInv, Flags
  <2>2. \A p \in pcb_bitmap' : parent_pid'[p] # NoPid => ~pcb_vidmap'[parent_pid'[p]]
    BY <1>4, <1>5, <1>10 DEF IInv, Flags
  <2>3. ASSUME NEW t \in Term
        PROVE  display.vidmap_flag[t] = (HeadOf(t)' # NoPid /\ pcb_vidmap'[HeadOf(t)'])
    <3>1. CASE t = display.running
      BY <3>1, <1>5, <1>7, <1>8 DEF IInv, Flags
    <3>2. CASE t # display.running
      BY <3>2, <1>5, <1>7, <1>9 DEF IInv, Flags
    <3> QED BY <3>1, <3>2
  <2> QED
    BY <1>6, <2>1, <2>2, <2>3 DEF Flags
<1>13. Typed'
  <2>1. parent_pid' \in [Pid -> Pid \cup {NoPid}] /\ pcb_vidmap' \in [Pid -> BOOLEAN]
    BY <1>2, <1>4
  <2>2. pcb_bitmap' \subseteq Pid
    BY <1>2, <1>3, <1>4 DEF bitmap
  <2> QED
    BY <1>1, <1>3, <1>4, <2>1, <2>2, ProgramRuns DEF IInv, Typed, keyboard, Printed
<1>14. Mapped' /\ CursorShown'
  BY <1>1, <1>4, <1>6, <1>8 DEF IInv, Mapped, CursorShown, Started, Printed, HwShows
<1> QED
  BY <1>11, <1>12, <1>13, <1>14 DEF IInv

\* Another program halts: the one that waits for it goes on, without vidmap.
LEMMA HaltParentIInv ==
  ASSUME IInv, InProgram, NEW d, Printed(display, d), Halt(d), parent_pid[cur_pid] # NoPid
  PROVE  IInv'
<1> DEFINE bitmap == pcb_bitmap \ {cur_pid}
           parent == parent_pid[cur_pid]
           run == display.running
<1>1. /\ display' = VidmapClosed(d) /\ pcb_bitmap' = bitmap
      /\ pcb_vidmap' = [pcb_vidmap EXCEPT ![cur_pid] = FALSE]
      /\ cur_pid' = parent /\ user_page' = parent
      /\ UNCHANGED <<keyboard, parent_pid, term_pid>>
  BY DEF Halt, decord_process, setup_paging_and_flush_tlb
<1>2. pcb_bitmap \in SUBSET Pid /\ parent_pid \in [Pid -> Pid \cup {NoPid}]
      /\ pcb_vidmap \in [Pid -> BOOLEAN]
  BY DEF IInv, Typed
<1>3. /\ run \in Term /\ HeadOf(run) = cur_pid
      /\ cur_pid \in pcb_bitmap /\ cur_pid # NoPid /\ cur_pid \in Pid
  BY ProgramRuns
<1>4. parent \in bitmap /\ parent \in Pid /\ parent # NoPid
  BY <1>2, <1>3 DEF IInv, Processes
<1>5. /\ ~pcb_vidmap'[cur_pid] /\ \A p \in bitmap : pcb_vidmap'[p] = pcb_vidmap[p]
      /\ ~pcb_vidmap'[parent]
  BY <1>1, <1>2, <1>3, <1>4 DEF IInv, Flags
<1>6. /\ display' \in Displays /\ Follows(display') /\ display'.hw = d.hw
      /\ display'.cursor = d.cursor
      /\ display'.running = run /\ display'.viewing = display.viewing
      /\ display'.vidmap_flag[run] = FALSE
      /\ \A t \in Term : t # run => display'.vidmap_flag[t] = display.vidmap_flag[t]
  <2>1. /\ d \in Displays /\ Follows(d) /\ d.running = run /\ d.viewing = display.viewing
        /\ d.vidmap_flag = display.vidmap_flag
    BY DEF Printed
  <2>2. CASE pcb_vidmap[cur_pid]
    <3> DEFINE e == switch_usrmap(d, Place(d, run), FALSE)
               flags == [e.vidmap_flag EXCEPT ![run] = FALSE]
    <3>1. /\ e \in Displays /\ SameText(d, e)
          /\ e.ptr = d.ptr /\ e.mapped = d.mapped /\ e.hw = d.hw
          /\ e.usrmap = [present |-> FALSE, page |-> Place(d, run)]
      BY <2>1, <1>3, PlacePage, UsrmapDisplay
    <3>2. display' = [e EXCEPT !.vidmap_flag = flags]
      <4>1. VidmapClosed(d) = [switch_usrmap(d, Place(d, d.running), FALSE) EXCEPT !.vidmap_flag[d.running] = FALSE]
        BY <2>2 DEF VidmapClosed
      <4> QED BY <4>1, <1>1, <2>1
    <3> HIDE DEF e
    <3>3. flags \in [Term -> BOOLEAN] /\ flags[run] = FALSE
          /\ \A t \in Term : t # run => flags[t] = display.vidmap_flag[t]
      BY <3>1, <2>1, <1>3 DEF Displays, SameText
    <3> HIDE DEF flags
    <3>4. /\ display' \in Displays /\ display'.vidmap_flag = flags
          /\ display'.cursor = d.cursor /\ display'.hw = d.hw
          /\ display'.viewing = d.viewing /\ display'.running = d.running
          /\ display'.ptr = d.ptr /\ display'.mapped = d.mapped
          /\ display'.usrmap = e.usrmap
      BY <3>1, <3>2, <3>3 DEF Displays, SameText
    <3>5. Follows(display')
      <4>1. Place(display', run) = Place(d, run)
        BY <3>4 DEF Place
      <4>2. display'.ptr = run /\ display'.running = run /\ display'.mapped = Place(d, run)
        BY <3>1, <3>4, <2>1 DEF Follows
      <4>3. display'.usrmap = [present |-> display'.vidmap_flag[run], page |-> Place(d, run)]
        BY <3>1, <3>3, <3>4
      <4> QED BY <4>1, <4>2, <4>3 DEF Follows
    <3> QED BY <3>3, <3>4, <3>5, <2>1
  <2>3. CASE ~pcb_vidmap[cur_pid]
    <3>1. display' = d
      BY <2>3, <1>1 DEF VidmapClosed
    <3>2. display.vidmap_flag[run] = FALSE
      BY <2>3, <1>3 DEF IInv, Flags
    <3> QED BY <3>1, <3>2, <2>1
  <2> QED BY <2>2, <2>3
<1>7. \A t \in Term : HeadOf(t)' = IF t = run THEN parent ELSE HeadOf(t)
  BY <1>1, <1>6 DEF HeadOf
<1>8. \A t \in Term : t # run /\ HeadOf(t) # NoPid => HeadOf(t) \in bitmap /\ HeadOf(t) # parent
  BY <1>3, <1>4 DEF IInv, Processes
<1>9. \A p \in bitmap : p \in pcb_bitmap /\ parent_pid[p] # parent
                        /\ (parent_pid[p] # NoPid => parent_pid[p] \in bitmap)
  BY <1>3, <1>4 DEF IInv, Processes
<1>10. \A t \in Term : HeadOf(t) # NoPid
  BY <1>3 DEF IInv, Processes
<1> HIDE DEF bitmap, parent, run
<1>11. Processes'
  <2>1. \A t \in Term : HeadOf(t)' \in pcb_bitmap'
    BY <1>1, <1>4, <1>7, <1>8, <1>10
  <2>2. \A t, u \in Term : HeadOf(t)' = HeadOf(u)' => t = u
    BY <1>7, <1>8, <1>10 DEF IInv, Processes
  <2>3. \A p \in pcb_bitmap' : parent_pid'[p] # NoPid => parent_pid'[p] \in pcb_bitmap'
    BY <1>1, <1>9
  <2>4. \A p, r \in pcb_bitmap' : parent_pid'[p] # NoPid /\ parent_pid'[p] = parent_pid'[r] => p = r
    BY <1>1, <1>9 DEF IInv, Processes
  <2>5. \A p \in pcb_bitmap', t \in Term : parent_pid'[p] # HeadOf(t)'
    BY <1>1, <1>7, <1>9, <1>10 DEF IInv, Processes
  <2>6. \A t \in Term : HeadOf(t)' # NoPid
    BY <1>4, <1>7, <1>10
  <2> QED
    BY <2>1, <2>2, <2>3, <2>4, <2>5, <2>6 DEF Processes
<1>12. Flags'
  <2>1. \A p \in pcb_bitmap' : pcb_vidmap'[p] => parent_pid'[p] # NoPid
    BY <1>1, <1>5, <1>9 DEF IInv, Flags
  <2>2. \A p \in pcb_bitmap' : parent_pid'[p] # NoPid => ~pcb_vidmap'[parent_pid'[p]]
    BY <1>1, <1>5, <1>9 DEF IInv, Flags
  <2>3. ASSUME NEW t \in Term
        PROVE  display'.vidmap_flag[t] = (HeadOf(t)' # NoPid /\ pcb_vidmap'[HeadOf(t)'])
    <3>1. CASE t = run
      BY <3>1, <1>5, <1>6, <1>7
    <3>2. CASE t # run
      BY <3>2, <1>5, <1>6, <1>7, <1>8 DEF IInv, Flags
    <3> QED BY <3>1, <3>2
  <2> QED
    BY <2>1, <2>2, <2>3 DEF Flags
<1>13. Typed'
  <2>1. pcb_vidmap' \in [Pid -> BOOLEAN] /\ pcb_bitmap' \subseteq Pid
    BY <1>1, <1>2, <1>9
  <2> QED
    BY <1>1, <1>4, <1>6, <2>1, ProgramRuns DEF IInv, Typed, keyboard
<1>14. Mapped'
  BY <1>1, <1>6 DEF Mapped
<1>15. CursorShown'
  <2>1. Started(display.viewing)
    BY <1>3, <1>10, ProgramRuns DEF Started, HeadOf
  <2>2. HwShows(d)
    BY <2>1 DEF IInv, CursorShown, HwShows, Printed
  <2> QED BY <2>2, <1>6 DEF CursorShown, HwShows, Printed
<1> QED
  BY <1>11, <1>12, <1>13, <1>14, <1>15 DEF IInv

\* halt, by system call or by exception.
LEMMA HaltIInv ==
  ASSUME IInv, syscall_halt \/ EXCP \/ \E a \in Addresses : EXCP_page_fault(a)
  PROVE  IInv'
<1>1. ASSUME InProgram, NEW d, Printed(display, d), Halt(d) PROVE IInv'
  BY <1>1, HaltBaseIInv, HaltParentIInv
<1>2. CASE syscall_halt
  <2>1. InProgram /\ Halt(display)
    BY <1>2 DEF syscall_halt
  <2>2. Printed(display, display)
    BY <2>1, ProgramRuns DEF Printed
  <2> QED BY <2>1, <2>2, <1>1
<1>3. CASE EXCP
  <2>1. InProgram /\ Halt(puts(display, Message))
    BY <1>3 DEF EXCP
  <2>2. Printed(display, puts(display, Message))
    BY <2>1, ProgramRuns, KernelTexts, PutsPrinted
  <2> QED BY <2>1, <2>2, <1>1
<1>4. ASSUME NEW a \in Addresses, EXCP_page_fault(a) PROVE IInv'
  <2> DEFINE s == printf(<<PercentX, Newline>>, a)
             e == puts(display, s)
             d == puts(e, Message)
  <2>1. InProgram /\ Halt(d)
    BY <1>4 DEF EXCP_page_fault
  <2>2. s \in Seq(Chars)
    BY KernelTexts, DisplayAssumption
  <2> HIDE DEF s
  <2>3. Printed(display, e)
    BY <2>1, <2>2, ProgramRuns, PutsPrinted
  <2> HIDE DEF e
  <2>4. Printed(e, d)
    BY <2>3, KernelTexts, PutsPrinted DEF Printed
  <2> HIDE DEF d
  <2>5. Printed(display, d)
    BY <2>3, <2>4 DEF Printed
  <2> QED BY <2>1, <2>5, <1>1
<1> QED
  BY <1>2, <1>3, <1>4

-----------------------------------------------------------------------------
(* The tick.                                                               *)

\* The next terminal is another one.
LEMMA NextTerminal ==
  ASSUME NEW t \in Term
  PROVE  next_term_to_run(t) \in Term /\ next_term_to_run(t) # t
<1> DEFINE n == Cardinality(Term)
<1>1. Term = 0 .. n - 1 /\ n \in Nat /\ n >= 2 /\ t \in 0 .. n - 1
  BY DisplayAssumption
<1>2. next_term_to_run(t) = (t + 1) % n
  BY DEF next_term_to_run
<1> HIDE DEF n
<1>3. (t + 1) % n = IF t + 1 = n THEN 0 ELSE t + 1
  BY <1>1
<1> QED
  BY <1>1, <1>2, <1>3

\* What the tick does before it starts a base shell, if it does.
LEMMA TickDisplay ==
  ASSUME NEW d \in Displays
  PROVE  LET next == next_term_to_run(d.running)
             e    == [TickMapping(d) EXCEPT !.running = next]
         IN  /\ e \in Displays /\ Follows(e) /\ e.running = next
             /\ e.viewing = d.viewing /\ e.vidmap_flag = d.vidmap_flag
             /\ e.memory = d.memory /\ e.cursor = d.cursor /\ e.hw = d.hw
<1> DEFINE next == next_term_to_run(d.running)
           m == TickMapping(d)
           e == [m EXCEPT !.running = next]
<1>1. next \in Term
  BY NextTerminal DEF Displays
<1>2. m = change_vidmem_mapping(d, next)
  BY DEF TickMapping
<1> HIDE DEF m, next
<1>3. /\ m \in Displays /\ SameText(d, m) /\ m.hw = d.hw
      /\ m.ptr = next /\ m.mapped = Place(d, next)
      /\ m.usrmap = [present |-> d.vidmap_flag[next], page |-> Place(d, next)]
  BY <1>1, <1>2, MapDisplay
<1>4. /\ e \in Displays /\ e.running = next /\ e.ptr = m.ptr /\ e.mapped = m.mapped
      /\ e.usrmap = m.usrmap /\ e.viewing = d.viewing /\ e.vidmap_flag = d.vidmap_flag
      /\ e.memory = d.memory /\ e.cursor = d.cursor /\ e.hw = d.hw
  BY <1>1, <1>3 DEF Displays, SameText
<1> HIDE DEF e
<1>5. Follows(e)
  BY <1>3, <1>4 DEF Follows, Place
<1> QED
  BY <1>4, <1>5 DEF e, m, next

\* The tick, to a terminal that has been started or to one that has not.
LEMMA TickIInv ==
  ASSUME IInv, Tick
  PROVE  IInv'
<1> DEFINE run  == display.running
           next == next_term_to_run(run)
           e    == [TickMapping(display) EXCEPT !.running = next]
           q    == record_process(pcb_bitmap)
<1>1. /\ display \in Displays /\ run \in Term /\ display.viewing \in Term
      /\ term_pid \in [Term -> Pid \cup {NoPid}] /\ pcb_bitmap \in SUBSET Pid
      /\ parent_pid \in [Pid -> Pid \cup {NoPid}] /\ pcb_vidmap \in [Pid -> BOOLEAN]
      /\ cur_pid \in Pid \cup {NoPid}
  BY DEF IInv, Typed, Displays
<1>2. next \in Term /\ next # run
  BY <1>1, NextTerminal
<1>3. /\ e \in Displays /\ Follows(e) /\ e.running = next
      /\ e.viewing = display.viewing /\ e.vidmap_flag = display.vidmap_flag
      /\ e.cursor = display.cursor /\ e.hw = display.hw
  BY <1>1, TickDisplay
<1>4. /\ term_pid' = [term_pid EXCEPT ![run] = cur_pid] /\ UNCHANGED <<keyboard, steps>>
      /\ term_pid[next] # NoPid =>
           /\ cur_pid' = term_pid[next] /\ user_page' = term_pid[next] /\ display' = e
           /\ UNCHANGED <<pcb_bitmap, parent_pid, pcb_vidmap>>
      /\ term_pid[next] = NoPid =>
           /\ StartProcess(q, NoPid, pcb_bitmap) /\ display' = launch_base_shell(e, next)
  BY DEF Tick, setup_paging_and_flush_tlb
<1> HIDE DEF e, q, next
<1>5. term_pid'[run] = cur_pid /\ term_pid' \in [Term -> Pid \cup {NoPid}]
      /\ \A t \in Term : t # run => term_pid'[t] = term_pid[t]
  BY <1>1, <1>4
<1>6. HeadOf(next) = term_pid[next]
  BY <1>2 DEF HeadOf
<1>7. CASE term_pid[next] # NoPid
  <2>1. /\ cur_pid' = term_pid[next] /\ user_page' = term_pid[next] /\ display' = e
        /\ UNCHANGED <<pcb_bitmap, parent_pid, pcb_vidmap>>
    BY <1>4, <1>7
  <2>2. \A t \in Term : HeadOf(t)' = HeadOf(t)
    BY <2>1, <1>2, <1>3, <1>5 DEF HeadOf
  <2>3. Processes'
    BY <2>1, <2>2 DEF IInv, Processes
  <2>4. Flags'
    BY <2>1, <2>2, <1>3 DEF IInv, Flags
  <2>5. Typed'
    BY <2>1, <1>1, <1>2, <1>3, <1>4, <1>5 DEF IInv, Typed, keyboard
  <2>6. Mapped'
    BY <2>1, <1>3 DEF Mapped
  <2>7. CursorShown'
    <3>1. Started(display.viewing)' => Started(display.viewing)
      BY <2>1, <1>1, <1>2, <1>3, <1>5 DEF Started
    <3> QED BY <3>1, <2>1, <1>3 DEF IInv, CursorShown
  <2> QED
    BY <2>3, <2>4, <2>5, <2>6, <2>7 DEF IInv
<1>8. CASE term_pid[next] = NoPid
  <2> DEFINE text == printf(<<BarMark, PercentD, Newline>>, next)
             f == puts(e, text)
  <2>1. StartProcess(q, NoPid, pcb_bitmap) /\ display' = f
    BY <1>4, <1>8 DEF launch_base_shell
  <2>2. q \in Pid \ pcb_bitmap /\ q # NoPid
    <3>1. pcb_bitmap # Pid
      BY <1>2, <1>6, <1>8, PidsLeft DEF IInv
    <3> QED BY <3>1, <1>1, FreePid DEF q
  <2>3. /\ pcb_bitmap' = pcb_bitmap \cup {q} /\ cur_pid' = q /\ user_page' = q
        /\ parent_pid' = [parent_pid EXCEPT ![q] = NoPid]
        /\ pcb_vidmap' = [pcb_vidmap EXCEPT ![q] = FALSE]
    BY <2>1 DEF StartProcess, setup_paging_and_flush_tlb
  <2>4. /\ parent_pid'[q] = NoPid /\ \A p \in pcb_bitmap : parent_pid'[p] = parent_pid[p]
        /\ pcb_vidmap'[q] = FALSE /\ \A p \in pcb_bitmap : pcb_vidmap'[p] = pcb_vidmap[p]
        /\ \A p \in pcb_bitmap : p # q
    BY <1>1, <2>2, <2>3
  <2>5. text \in Seq(Chars) /\ text # <<>>
    <3>1. next \in Nat
      BY <1>2, DisplayAssumption
    <3> QED BY <3>1, KernelTexts
  <2> HIDE DEF text
  <2>6. Printed(e, f) /\ (e.viewing = e.running => HwShows(f))
    <3>1. Printed(e, f)
      BY <1>3, <2>5, PutsPrinted
    <3>2. e.viewing = e.running => f.hw = Position(f.cursor[f.ptr])
      BY <1>3, <2>5, PutsWrote
    <3> HIDE DEF f
    <3> QED BY <3>1, <3>2 DEF Printed, Follows, HwShows
  <2> HIDE DEF f
  <2>7. /\ display' \in Displays /\ Follows(display') /\ display'.running = next
        /\ display'.viewing = display.viewing /\ display'.vidmap_flag = display.vidmap_flag
    BY <1>3, <2>1, <2>6 DEF Printed
  <2>8. \A t \in Term : HeadOf(t)' = IF t = next THEN q ELSE HeadOf(t)
    BY <1>2, <1>5, <2>3, <2>7 DEF HeadOf
  <2>9. \A p \in pcb_bitmap : parent_pid[p] = NoPid /\ \E u \in Term : p = HeadOf(u)
    BY <1>2, <1>6, <1>8 DEF IInv, Processes
  <2>10. \A t \in Term : HeadOf(t) # NoPid => HeadOf(t) \in pcb_bitmap /\ t # next
    BY <1>6, <1>8 DEF IInv, Processes
  <2>11. Processes'
    <3>1. \A t \in Term : HeadOf(t)' # NoPid => HeadOf(t)' \in pcb_bitmap'
      BY <2>3, <2>8, <2>10
    <3>2. \A t, u \in Term : HeadOf(t)' # NoPid /\ HeadOf(t)' = HeadOf(u)' => t = u
      BY <2>4, <2>8, <2>10 DEF IInv, Processes
    <3>3. \A p \in pcb_bitmap' : parent_pid'[p] = NoPid
      BY <2>3, <2>4, <2>9
    <3>4. \A p \in pcb_bitmap' : \E u \in Term : p = HeadOf(u)'
      <4>1. ASSUME NEW p \in pcb_bitmap PROVE \E u \in Term : p = HeadOf(u)'
        <5>1. PICK u \in Term : p = HeadOf(u)
          BY <2>9
        <5>2. p # NoPid
          BY <1>1, PageSets
        <5> QED BY <5>1, <5>2, <2>8, <2>10
      <4>2. \E u \in Term : q = HeadOf(u)'
        BY <1>2, <2>8
      <4> QED BY <4>1, <4>2, <2>3
    <3> QED
      BY <3>1, <3>2, <3>3, <3>4 DEF Processes
  <2>12. Flags'
    <3>1. \A p \in pcb_bitmap' : ~pcb_vidmap'[p] /\ parent_pid'[p] = NoPid
      BY <2>3, <2>4, <2>9 DEF IInv, Flags
    <3>2. ASSUME NEW t \in Term
          PROVE  display.vidmap_flag[t] = (HeadOf(t)' # NoPid /\ pcb_vidmap'[HeadOf(t)'])
      <4>1. CASE t = next
        BY <4>1, <1>2, <1>6, <1>8, <2>4, <2>8 DEF IInv, Flags
      <4>2. CASE t # next
        BY <4>2, <2>4, <2>8, <2>10 DEF IInv, Flags
      <4> QED BY <4>1, <4>2
    <3> QED
      BY <3>1, <3>2, <2>7 DEF Flags
  <2>13. Typed'
    <3>1. parent_pid' \in [Pid -> Pid \cup {NoPid}] /\ pcb_vidmap' \in [Pid -> BOOLEAN]
      BY <1>1, <2>3
    <3> QED
      BY <3>1, <1>1, <1>4, <1>5, <2>2, <2>3, <2>7 DEF IInv, Typed, keyboard
  <2>14. Mapped'
    BY <2>3, <2>7 DEF Mapped
  <2>15. CursorShown'
    <3>1. CASE display.viewing = next
      BY <3>1, <1>3, <2>1, <2>6 DEF CursorShown, HwShows
    <3>2. CASE display.viewing # next
      <4>1. Started(display.viewing)' => Started(display.viewing)
        BY <3>2, <1>1, <1>5, <2>7 DEF Started
      <4>2. HwShows(display) => HwShows(display')
        BY <1>3, <2>1, <2>6 DEF HwShows, Printed
      <4> QED BY <4>1, <4>2, <2>7 DEF IInv, CursorShown, HwShows
    <3> QED BY <3>1, <3>2
  <2> QED
    BY <2>11, <2>12, <2>13, <2>14, <2>15 DEF IInv
<1> QED
  BY <1>7, <1>8

-----------------------------------------------------------------------------
(* The theorems.                                                           *)

\* Every step preserves the invariant.
LEMMA StepIInv == IInv /\ [Next]_vars => IInv'
<1> SUFFICES ASSUME IInv, [Next]_vars PROVE IInv'
  OBVIOUS
<1>1. CASE KeyboardStep
  BY <1>1, KeyIInv
<1>2. ASSUME NEW w \in Writes, terminal_write(w) PROVE IInv'
  BY <1>2, WritesText, PrintIInv
<1>3. CASE Refused
  BY <1>3, KernelTexts, PrintIInv DEF Refused
<1>4. CASE syscall_execute
  BY <1>4, ExecuteIInv
<1>5. CASE syscall_vidmap
  BY <1>5, VidmapIInv
<1>6. CASE Draw
  BY <1>6, DrawIInv
<1>7. CASE syscall_halt \/ EXCP \/ \E a \in Addresses : EXCP_page_fault(a)
  BY <1>7, HaltIInv
<1>8. CASE Tick
  BY <1>8, TickIInv
<1>9. CASE UNCHANGED vars
  <2>1. UNCHANGED <<display, buf_pos, term_pos, pcb_bitmap, cur_pid, parent_pid, pcb_vidmap,
                    term_pid, user_page, steps>>
    BY <1>9 DEF vars, keyboard, processes
  <2>2. Typed' /\ Mapped' /\ CursorShown'
    BY <2>1 DEF IInv, Typed, Mapped, Follows, Place, CursorShown, Started
  <2>3. Processes' /\ Flags'
    BY <1>9, SameProcesses DEF vars
  <2> QED BY <2>2, <2>3 DEF IInv
<1> QED
  BY <1>1, <1>2, <1>3, <1>4, <1>5, <1>6, <1>7, <1>8, <1>9 DEF Next

\* The invariant holds.
LEMMA Invariance == Spec => []IInv
BY InitIInv, StepIInv, PTL DEF Spec

\* Typed is TypeOK.
LEMMA TypedTypeOK == Typed => TypeOK
<1> SUFFICES ASSUME Typed PROVE TypeOK
  OBVIOUS
<1>1. /\ display.memory \in [Pages -> [Cells -> Shows]] /\ display.cursor \in [Term -> Cursors]
      /\ display.ptr \in Term /\ display.viewing \in Term /\ display.running \in Term
      /\ display.mapped \in Pages
      /\ display.usrmap \in [present : BOOLEAN, page : Pages]
      /\ display.hw \in Cells /\ display.vidmap_flag \in [Term -> BOOLEAN]
  BY DEF Typed, Displays
<1> QED
  BY <1>1 DEF Typed, TypeOK, Shows, Cursors, Columns, Rows

\* Whatever is typed, printed or drawn and whenever the tick comes, no cursor
\* leaves its screen and no cell shows what nobody wrote (nb_putc, puts, printf,
\* clear, up_scroll_for_one_line, switch_terminal).
THEOREM ScreensTyped == Spec => []TypeOK
<1>1. IInv => TypeOK
  BY TypedTypeOK DEF IInv
<1> QED
  BY <1>1, Invariance, PTL

\* While a process runs, its memory, the page the kernel writes to, the cursor it
\* writes at and the page of vidmap are those of its terminal (schedule, execute,
\* halt, syscall_vidmap, switch_terminal, the keyboard handler).
THEOREM MappingsAgree == Spec => []MappingsFollow
<1>1. IInv => MappingsFollow
  BY IInvFollows
<1> QED
  BY <1>1, Invariance, PTL

\* The hardware cursor stands where the viewed terminal's next character goes
\* (calib_cursor at its callers).
THEOREM CursorFollows == Spec => []CursorShown
<1>1. IInv => CursorShown
  BY DEF IInv
<1> QED
  BY <1>1, Invariance, PTL

-----------------------------------------------------------------------------
(* The abstract screens: a text, and the number of the cell that is next.  *)

Abstract(s) == [text |-> s.cells, at |-> Position(s)]

\* The cells are those of Columns * Rows.
LEMMA SizeOfScreen ==
  /\ Screens!Size \in Nat /\ Cells = 0 .. Screens!Size - 1
  /\ NUM_ROWS * NUM_COLS = Screens!Size
<1>1. NUM_ROWS * NUM_COLS = NUM_COLS * NUM_ROWS
  BY Sizes
<1> QED
  BY <1>1, Sizes DEF Screens!Size, Cells

\* A cursor that is on no row scrolls the text up.
LEMMA ScrollRefines ==
  ASSUME NEW s, s \in [cells : [Cells -> Shows], x : Columns, y : 0 .. NUM_ROWS],
         s.y = NUM_ROWS => s.x = 0
  PROVE  Screens!Scroll(Abstract(s)) = Abstract(ScrollIfFull(s))
<1> DEFINE size == NUM_ROWS * NUM_COLS
           p == s.y * NUM_COLS + s.x
<1>1. s.cells \in [Cells -> Shows] /\ s.x \in Columns /\ s.y \in 0 .. NUM_ROWS
  OBVIOUS
<1>2. CASE s.y # NUM_ROWS
  <2>1. p \in Cells
    <3>1. s.x \in Columns /\ s.y \in Rows
      BY <1>1, <1>2, Sizes DEF Rows
    <3> QED BY <3>1, CellAt
  <2>2. Position(s) \in Cells
    BY <2>1 DEF Position
  <2>3. Position(s) < Screens!Size
    BY <2>2, SizeOfScreen
  <2> QED BY <1>2, <2>3 DEF Screens!Scroll, Abstract, ScrollIfFull
<1>3. CASE s.y = NUM_ROWS
  <2> DEFINE t == up_scroll_for_one_line(s)
             cells == [i \in Cells |-> IF i < START_HEIGHT * NUM_COLS THEN s.cells[i]
                                       ELSE IF i + NUM_COLS \in Cells THEN s.cells[i + NUM_COLS]
                                       ELSE Blank]
             text == [i \in 0 .. Screens!Size - 1 |->
                        IF i < NUM_COLS THEN s.cells[i]
                        ELSE IF i + NUM_COLS < Screens!Size THEN s.cells[i + NUM_COLS] ELSE Blank]
  <2>1. t.cells = cells /\ t.x = 0 /\ t.y = NUM_ROWS - 1
    BY <1>1, <1>3, Sizes DEF up_scroll_for_one_line
  <2>2. Position(s) = Screens!Size /\ Position(t) = Screens!Size - NUM_COLS
    <3>1. (NUM_ROWS - 1) * NUM_COLS = NUM_ROWS * NUM_COLS - NUM_COLS
      BY Sizes
    <3> HIDE DEF t
    <3> QED BY <1>3, <2>1, <3>1, SizeOfScreen, Sizes DEF Position
  <2>3. cells = text
    <3>1. Cells = 0 .. Screens!Size - 1
      BY SizeOfScreen
    <3>2. \A i \in Cells : /\ i < START_HEIGHT * NUM_COLS <=> i < NUM_COLS
                           /\ i + NUM_COLS \in Cells <=> i + NUM_COLS < Screens!Size
      BY SizeOfScreen, Sizes DEF START_HEIGHT
    <3> QED BY <3>1, <3>2
  <2> HIDE DEF cells, text
  <2>4. Screens!Scroll(Abstract(s)) = [at |-> Position(s) - NUM_COLS, text |-> text]
    <3>1. ~(Position(s) < Screens!Size)
      BY <2>2, SizeOfScreen
    <3> QED BY <3>1 DEF Screens!Scroll, Abstract, text
  <2>5. Abstract(ScrollIfFull(s)) = [text |-> cells, at |-> Position(t)]
    BY <1>3, <2>1 DEF ScrollIfFull, Abstract
  <2> QED BY <2>2, <2>3, <2>4, <2>5
<1> QED
  BY <1>2, <1>3

\* A newline goes to the next multiple of the width.
LEMMA NewlineRefines ==
  ASSUME NEW s \in TextScreens
  PROVE  Screens!Write(Abstract(s), Newline) = Abstract(PutNewline(s))
<1> DEFINE t == [s EXCEPT !.y = s.y + 1]
           u == [t EXCEPT !.x = 0]
<1>1. s.cells \in [Cells -> Shows] /\ s.x \in Columns /\ s.y \in Rows
  BY DEF TextScreens
<1>2. t \in [cells : [Cells -> Shows], x : Columns, y : 0 .. NUM_ROWS]
      /\ t.cells = s.cells /\ t.y = s.y + 1
  BY Sizes DEF TextScreens, Rows
<1>3. PutNewline(s) = ScrollIfFull(u)
  BY DEF PutNewline
<1> HIDE DEF t
<1>4. u \in [cells : [Cells -> Shows], x : Columns, y : 0 .. NUM_ROWS]
      /\ u.cells = s.cells /\ u.y = s.y + 1 /\ u.x = 0
  BY <1>2, Sizes DEF Columns
<1> HIDE DEF u
<1>5. (s.y * NUM_COLS + s.x) \div NUM_COLS = s.y
  <2>1. s.x \in Nat /\ s.y \in Nat /\ NUM_COLS \in Nat \ {0} /\ s.x < NUM_COLS
    BY <1>1, Sizes DEF Columns, Rows
  <2> QED BY <2>1, Division
<1>6. Position(s) \div NUM_COLS = s.y
  BY <1>5 DEF Position
<1>7. Position(u) = (s.y + 1) * NUM_COLS
  <2>1. (s.y + 1) * NUM_COLS \in Nat
    BY <1>1, Sizes DEF Rows
  <2> QED BY <1>4, <2>1 DEF Position
<1>8. Screens!Write(Abstract(s), Newline) = Screens!Scroll([Abstract(s) EXCEPT !.at = (s.y + 1) * NUM_COLS])
  BY <1>6 DEF Screens!Write, Abstract
<1>9. [Abstract(s) EXCEPT !.at = (s.y + 1) * NUM_COLS] = Abstract(u)
  BY <1>4, <1>7 DEF Abstract
<1>10. Screens!Scroll(Abstract(u)) = Abstract(ScrollIfFull(u))
  BY <1>4, ScrollRefines
<1> QED
  BY <1>3, <1>8, <1>9, <1>10

\* Backspace goes one cell back, over the start of a row as well.
LEMMA BackspaceRefines ==
  ASSUME NEW s \in TextScreens
  PROVE  Screens!Write(Abstract(s), Backspace) = Abstract(PutBackspace(s))
<1> DEFINE b == IF s.x = 0 THEN [s EXCEPT !.x = NUM_COLS, !.y = s.y - 1] ELSE s
           left == b.x - 1
<1>1. s.cells \in [Cells -> Shows] /\ s.x \in Columns /\ s.y \in Rows
  BY DEF TextScreens
<1>2. Screens!Write(Abstract(s), Backspace) =
        IF Position(s) = 0 THEN Abstract(s)
        ELSE [at |-> Position(s) - 1, text |-> [s.cells EXCEPT ![Position(s) - 1] = Blank]]
  BY TextAssumption DEF Screens!Write, Abstract
<1>3. CASE Position(s) = 0
  BY <1>2, <1>3 DEF PutBackspace
<1>4. CASE Position(s) # 0
  <2>1. /\ DOMAIN b = DOMAIN s /\ b.cells = s.cells
        /\ b.x = IF s.x = 0 THEN NUM_COLS ELSE s.x
        /\ b.y = IF s.x = 0 THEN s.y - 1 ELSE s.y
        /\ DOMAIN s = {"cells", "x", "y"}
    BY DEF TextScreens
  <2>2. PutBackspace(s) = [b EXCEPT !.x = left, !.cells[Position(b) - 1] = Blank]
    BY <1>4 DEF PutBackspace
  <2> HIDE DEF b
  <2>3. Position(b) = Position(s) /\ Position(s) \in Int
    <3>1. (s.y - 1) * NUM_COLS + NUM_COLS = s.y * NUM_COLS /\ s.y * NUM_COLS \in Nat
      BY <1>1, Sizes DEF Rows
    <3>2. s.x \in Nat
      BY <1>1, Sizes DEF Columns
    <3> QED BY <2>1, <3>1, <3>2 DEF Position
  <2> DEFINE p == PutBackspace(s)
             c == [b EXCEPT !.x = left]
  <2>4. c.x = b.x - 1 /\ c.y = b.y /\ c.cells = s.cells /\ DOMAIN c = {"cells", "x", "y"}
    BY <2>1
  <2>5. p = [c EXCEPT !.cells = [s.cells EXCEPT ![Position(s) - 1] = Blank]]
    BY <2>1, <2>2, <2>3
  <2> HIDE DEF c, p
  <2>6. p.x = b.x - 1 /\ p.y = b.y /\ p.cells = [s.cells EXCEPT ![Position(s) - 1] = Blank]
    BY <2>4, <2>5
  <2>7. Position(p) = Position(s) - 1
    <3>1. b.x \in Int /\ b.y * NUM_COLS \in Int
      BY <1>1, <2>1, Sizes DEF Columns, Rows
    <3> QED BY <2>3, <2>6, <3>1 DEF Position
  <2> QED BY <1>2, <1>4, <2>6, <2>7 DEF Abstract, p
<1> QED
  BY <1>3, <1>4

\* A character goes to the cell, and the place to the next.
LEMMA CellRefines ==
  ASSUME NEW s \in TextScreens, NEW c \in Shows
  PROVE  Screens!Scroll([at |-> Position(s) + 1, text |-> [s.cells EXCEPT ![Position(s)] = c]])
           = Abstract(PutCell(s, c))
<1> DEFINE full == s.x + 1 = NUM_COLS
           t == [cells |-> [s.cells EXCEPT ![Position(s)] = c],
                 x |-> IF full THEN 0 ELSE s.x + 1,
                 y |-> IF full THEN s.y + 1 ELSE s.y]
<1>1. s.cells \in [Cells -> Shows] /\ s.x \in Columns /\ s.y \in Rows
  BY DEF TextScreens
<1>2. [s.cells EXCEPT ![Position(s)] = c] \in [Cells -> Shows]
  BY <1>1
<1>3. (IF full THEN 0 ELSE s.x + 1) \in Columns /\ (IF full THEN s.y + 1 ELSE s.y) \in 0 .. NUM_ROWS
      /\ ((IF full THEN s.y + 1 ELSE s.y) = NUM_ROWS => full)
  BY <1>1, Sizes DEF Columns, Rows
<1>4. t \in [cells : [Cells -> Shows], x : Columns, y : 0 .. NUM_ROWS] /\ (t.y = NUM_ROWS => t.x = 0)
  BY <1>2, <1>3
<1>5. Position(t) = Position(s) + 1
  <2>1. (s.y + 1) * NUM_COLS = s.y * NUM_COLS + NUM_COLS /\ s.y * NUM_COLS \in Nat
    BY <1>1, Sizes DEF Rows
  <2>2. s.x \in Nat
    BY <1>1, Sizes DEF Columns
  <2> QED BY <2>1, <2>2 DEF Position
<1>6. Abstract(t) = [at |-> Position(s) + 1, text |-> [s.cells EXCEPT ![Position(s)] = c]]
  BY <1>5 DEF Abstract
<1>7. PutCell(s, c) = ScrollIfFull(t)
  BY DEF PutCell
<1> HIDE DEF t
<1>8. Screens!Scroll(Abstract(t)) = Abstract(ScrollIfFull(t))
  BY <1>4, ScrollRefines
<1> QED
  BY <1>6, <1>7, <1>8

\* Counting cells, one character goes where nb_putc puts it by row and column.
LEMMA WriteRefines ==
  ASSUME NEW s \in TextScreens, NEW c \in Chars
  PROVE  Screens!Write(Abstract(s), c) = Abstract(PutC(s, c))
<1>1. CASE c = Newline
  BY <1>1, NewlineRefines, TextAssumption DEF PutC
<1>2. CASE c = Backspace
  BY <1>2, BackspaceRefines, TextAssumption DEF PutC
<1>3. CASE c \notin {Newline, Backspace}
  <2> DEFINE shown == IF c = Nul THEN Blank ELSE c
  <2>1. shown \in Shows
    BY <1>3 DEF Chars, Shows
  <2>2. PutC(s, c) = PutCell(s, shown)
    BY <1>3 DEF PutC
  <2>3. Screens!Write(Abstract(s), c) =
          Screens!Scroll([at |-> Position(s) + 1, text |-> [s.cells EXCEPT ![Position(s)] = shown]])
    BY <1>3 DEF Screens!Write, Abstract
  <2> HIDE DEF shown
  <2> QED BY <2>1, <2>2, <2>3, CellRefines
<1> QED
  BY <1>1, <1>2, <1>3

\* A text goes where the characters go one after the other.
Steps(f, N, s, str) ==
  /\ f[0] = s
  /\ \A n \in 1 .. N : f[n] = Screens!Write(f[n - 1], str[n])

LEMMA WrittenRuns ==
  ASSUME NEW str, NEW N \in Nat, Len(str) = N, NEW s, NEW f, DOMAIN f = 0 .. N,
         Steps(f, N, s, str)
  PROVE  Screens!Written(s, str) = f[N]
<1> DEFINE Run(r) == r = [n \in 0 .. N |-> IF n = 0 THEN s ELSE Screens!Write(r[n - 1], str[n])]
           g == [n \in 0 .. N |-> f[n]]
           q == CHOOSE r : Run(r)
<1>1. Screens!Written(s, str) = q[N]
  BY DEF Screens!Written
<1>2. \A n \in 0 .. N : g[n] = IF n = 0 THEN s ELSE Screens!Write(g[n - 1], str[n])
  <2> TAKE n \in 0 .. N
  <2>1. g[n] = f[n] /\ (n # 0 => n \in 1 .. N /\ n - 1 \in 0 .. N)
    OBVIOUS
  <2>2. n # 0 => g[n - 1] = f[n - 1] /\ f[n] = Screens!Write(f[n - 1], str[n])
    BY <2>1 DEF Steps
  <2> QED BY <2>1, <2>2 DEF Steps
<1>3. Run(g)
  <2>1. DOMAIN g = 0 .. N /\ g = [n \in DOMAIN g |-> g[n]]
    OBVIOUS
  <2> HIDE DEF g
  <2> QED BY <1>2, <2>1
<1>4. Run(q)
  <2> HIDE DEF Run, g
  <2> QED BY <1>3
<1> HIDE DEF q
<1>5. \A n \in 0 .. N : q[n] = IF n = 0 THEN s ELSE Screens!Write(q[n - 1], str[n])
  BY <1>4
<1> HIDE DEF Run, g
<1> DEFINE T == {n \in Nat : n <= N => q[n] = f[n]}
<1>6. 0 \in T
  <2>1. 0 \in 0 .. N
    OBVIOUS
  <2>2. q[0] = s
    BY <1>5, <2>1, Zenon
  <2> QED BY <2>2 DEF Steps
<1>7. ASSUME NEW n \in Nat, n \in T PROVE n + 1 \in T
  <2>1. CASE n + 1 <= N
    <3>1. n + 1 \in 1 .. N /\ n + 1 \in 0 .. N /\ (n + 1) - 1 = n /\ n + 1 # 0 /\ q[n] = f[n]
      BY <1>7, <2>1
    <3>2. q[n + 1] = Screens!Write(q[n], str[n + 1])
      BY <1>5, <3>1
    <3>3. f[n + 1] = Screens!Write(f[n], str[n + 1])
      BY <3>1 DEF Steps
    <3> QED BY <3>1, <3>2, <3>3
  <2> QED BY <2>1
<1>8. Nat \subseteq T
  <2> HIDE DEF T
  <2> QED BY <1>6, <1>7, Induction
<1> QED
  BY <1>1, <1>8

\* A screen of the display, and its abstraction.
Own(d, t) == [cells |-> d.memory[Place(d, t)], x |-> d.cursor[t].x, y |-> d.cursor[t].y]

\* A terminal has a screen.
LEMMA OwnScreen ==
  ASSUME NEW d \in Displays, NEW t \in Term
  PROVE  Own(d, t) \in TextScreens
<1>1. d.memory[Place(d, t)] \in [Cells -> Shows] /\ d.cursor[t] \in Cursors
  BY PlacePage DEF Displays
<1> QED
  BY <1>1 DEF Own, TextScreens, Cursors

\* What is mapped is the screen of the terminal whose cursor is in use.
LEMMA ScreenIsOwn ==
  ASSUME NEW d, d.mapped = Place(d, d.ptr)
  PROVE  Screen(d) = Own(d, d.ptr)
BY DEF Screen, Own

\* nb_putc is PutC on what is mapped.
LEMMA PutcScreen ==
  ASSUME NEW d \in Displays, NEW c \in Chars
  PROVE  Screen(nb_putc(d, c)) = PutC(Screen(d), c)
<1> DEFINE e == nb_putc(d, c)
           s == PutC(Screen(d), c)
<1>1. /\ e.memory = [d.memory EXCEPT ![d.mapped] = s.cells]
      /\ e.cursor = [d.cursor EXCEPT ![d.ptr] = [x |-> s.x, y |-> s.y]]
      /\ e.ptr = d.ptr /\ e.mapped = d.mapped
  BY PutcDisplay
<1>2. s \in TextScreens
  BY ScreenOf, PutCScreen
<1> HIDE DEF e, s
<1>3. e.memory[d.mapped] = s.cells /\ e.cursor[d.ptr] = [x |-> s.x, y |-> s.y]
  BY <1>1 DEF Displays
<1>4. Screen(e) = [cells |-> s.cells, x |-> s.x, y |-> s.y]
  BY <1>1, <1>3 DEF Screen
<1>5. s = [cells |-> s.cells, x |-> s.x, y |-> s.y]
  BY <1>2 DEF TextScreens
<1> QED
  BY <1>4, <1>5 DEF e, s

\* The screens that puts goes through.
LEMMA PutsSteps ==
  ASSUME NEW d \in Displays, NEW str \in Seq(Chars)
  PROVE  \E f : /\ DOMAIN f = 0 .. Len(str) /\ Steps(f, Len(str), Abstract(Screen(d)), str)
               /\ f[Len(str)] = Abstract(Screen(puts(d, str)))
<1> DEFINE N == Len(str)
<1>1. \A e \in Displays, c \in Chars : nb_putc(e, c) \in Displays
  BY PutcDisplay
<1>2. PICK r \in [0 .. N -> Displays] :
        /\ r[0] = d
        /\ \A n \in 1 .. N : r[n] = nb_putc(r[n - 1], str[n])
        /\ puts(d, str) = r[N]
  <2>1. Displays \in SUBSET Displays
    OBVIOUS
  <2> QED BY <1>1, <2>1, PutsRuns, Zenon
<1> DEFINE f == [n \in 0 .. N |-> Abstract(Screen(r[n]))]
<1>3. N \in Nat
  OBVIOUS
<1>4. ASSUME NEW n \in 1 .. N PROVE f[n] = Screens!Write(f[n - 1], str[n])
  <2>1. n \in 0 .. N /\ n - 1 \in 0 .. N /\ str[n] \in Chars
    BY <1>3
  <2>2. r[n - 1] \in Displays /\ r[n] = nb_putc(r[n - 1], str[n])
    BY <1>2, <2>1
  <2>3. Screen(r[n]) = PutC(Screen(r[n - 1]), str[n]) /\ Screen(r[n - 1]) \in TextScreens
    BY <2>1, <2>2, PutcScreen, ScreenOf
  <2>4. Screens!Write(Abstract(Screen(r[n - 1])), str[n]) = Abstract(Screen(r[n]))
    BY <2>1, <2>3, WriteRefines
  <2>5. f[n] = Abstract(Screen(r[n])) /\ f[n - 1] = Abstract(Screen(r[n - 1]))
    BY <2>1
  <2> QED BY <2>4, <2>5
<1>5. Steps(f, N, Abstract(Screen(d)), str) /\ DOMAIN f = 0 .. N
  <2>1. f[0] = Abstract(Screen(d))
    BY <1>2, <1>3
  <2> HIDE DEF f
  <2>2. DOMAIN f = 0 .. N
    BY DEF f
  <2> QED BY <1>4, <2>1, <2>2 DEF Steps
<1>6. f[N] = Abstract(Screen(puts(d, str)))
  BY <1>2, <1>3
<1> HIDE DEF f
<1> QED
  BY <1>5, <1>6

\* puts writes the text on the screen that is mapped.
LEMMA PutsRefines ==
  ASSUME NEW d \in Displays, NEW str \in Seq(Chars)
  PROVE  Abstract(Screen(puts(d, str))) = Screens!Written(Abstract(Screen(d)), str)
<1>1. PICK f : /\ DOMAIN f = 0 .. Len(str) /\ Steps(f, Len(str), Abstract(Screen(d)), str)
               /\ f[Len(str)] = Abstract(Screen(puts(d, str)))
  BY PutsSteps
<1>2. Len(str) \in Nat
  OBVIOUS
<1>3. Screens!Written(Abstract(Screen(d)), str) = f[Len(str)]
  BY <1>1, <1>2, WrittenRuns
<1> QED
  BY <1>1, <1>3

\* Two texts one after the other are one text.
LEMMA PutsTwiceRefines ==
  ASSUME NEW d \in Displays, NEW a \in Seq(Chars), NEW b \in Seq(Chars)
  PROVE  Abstract(Screen(puts(puts(d, a), b))) = Screens!Written(Abstract(Screen(d)), a \o b)
<1> DEFINE m == Len(a)
           k == Len(b)
           e == puts(d, a)
           s == Abstract(Screen(d))
<1>1. m \in Nat /\ k \in Nat /\ Len(a \o b) = m + k
  OBVIOUS
<1>2. \A n \in 1 .. m : (a \o b)[n] = a[n]
  OBVIOUS
<1>3. \A n \in 1 .. k : (a \o b)[m + n] = b[n]
  OBVIOUS
<1>4. e \in Displays
  BY PutsWrote DEF Wrote
<1> HIDE DEF e
<1>5. PICK f : DOMAIN f = 0 .. m /\ Steps(f, m, s, a) /\ f[m] = Abstract(Screen(e))
  BY PutsSteps DEF e
<1>6. PICK g : DOMAIN g = 0 .. k /\ Steps(g, k, Abstract(Screen(e)), b)
               /\ g[k] = Abstract(Screen(puts(e, b)))
  BY <1>4, PutsSteps
<1> DEFINE h == [n \in 0 .. m + k |-> IF n <= m THEN f[n] ELSE g[n - m]]
<1> HIDE DEF m, k, s
<1>7. h[0] = s /\ h[m + k] = g[k]
  <2>1. g[0] = f[m]
    BY <1>5, <1>6 DEF Steps
  <2>2. k = 0 \/ ~(m + k <= m)
    BY <1>1
  <2>3. (m + k) - m = k /\ 0 \in 0 .. m + k /\ m + k \in 0 .. m + k /\ 0 <= m /\ m + 0 = m
    BY <1>1
  <2>4. f[0] = s
    BY <1>5 DEF Steps
  <2> QED BY <2>1, <2>2, <2>3, <2>4
<1>8. ASSUME NEW n \in 1 .. m + k PROVE h[n] = Screens!Write(h[n - 1], (a \o b)[n])
  <2>1. n \in 0 .. m + k /\ n - 1 \in 0 .. m + k
    BY <1>1
  <2>2. CASE n <= m
    <3>1. n \in 1 .. m /\ n - 1 <= m
      BY <2>2, <1>1
    <3>2. h[n] = f[n] /\ h[n - 1] = f[n - 1]
      BY <2>1, <2>2, <3>1
    <3> QED BY <3>1, <3>2, <1>2, <1>5 DEF Steps
  <2>3. CASE n > m
    <3>1. n - m \in 1 .. k /\ m + (n - m) = n /\ (n - m) - 1 = (n - 1) - m /\ ~(n <= m)
      BY <2>3, <1>1
    <3>2. h[n] = g[n - m]
      BY <2>1, <3>1
    <3>3. h[n - 1] = g[(n - m) - 1]
      <4>1. CASE n - 1 = m
        <5>1. h[n - 1] = f[m] /\ (n - m) - 1 = 0
          BY <2>1, <4>1, <1>1
        <5>2. g[0] = f[m]
          BY <1>5, <1>6 DEF Steps
        <5> QED BY <5>1, <5>2
      <4>2. CASE n - 1 # m
        <5>1. ~(n - 1 <= m)
          BY <2>3, <4>2, <1>1
        <5> QED BY <2>1, <3>1, <5>1
      <4> QED BY <4>1, <4>2
    <3>4. (a \o b)[n] = b[n - m]
      BY <3>1, <1>3
    <3>5. g[n - m] = Screens!Write(g[(n - m) - 1], b[n - m])
      BY <3>1, <1>6 DEF Steps
    <3> QED BY <3>2, <3>3, <3>4, <3>5
  <2> QED BY <2>2, <2>3, <1>1
<1>9. Steps(h, m + k, s, a \o b) /\ DOMAIN h = 0 .. m + k
  <2>1. DOMAIN h = 0 .. m + k
    OBVIOUS
  <2> HIDE DEF h
  <2> QED BY <2>1, <1>7, <1>8 DEF Steps
<1> HIDE DEF h
<1>10. Screens!Written(s, a \o b) = h[m + k]
  BY <1>1, <1>9, WrittenRuns
<1> QED
  BY <1>6, <1>7, <1>10 DEF e, s

\* One character is a text.
LEMMA WrittenOnce ==
  ASSUME NEW s, NEW c
  PROVE  Screens!Written(s, <<c>>) = Screens!Write(s, c)
<1> DEFINE f == [n \in 0 .. 1 |-> IF n = 0 THEN s ELSE Screens!Write(s, c)]
<1>1. f[0] = s /\ f[1] = Screens!Write(s, c) /\ DOMAIN f = 0 .. 1
  OBVIOUS
<1> HIDE DEF f
<1>2. \A n \in 1 .. 1 : n = 1 /\ n - 1 = 0
  OBVIOUS
<1>3. <<c>>[1] = c /\ Len(<<c>>) = 1
  OBVIOUS
<1>4. Steps(f, 1, s, <<c>>)
  BY <1>1, <1>2, <1>3 DEF Steps
<1> QED
  BY <1>1, <1>3, <1>4, WrittenRuns

-----------------------------------------------------------------------------
(* Numerals.                                                               *)

\* Dividing twice is dividing by the product.
LEMMA DivTwice ==
  ASSUME NEW n \in Nat, NEW p \in Nat \ {0}, NEW radix \in Nat \ {0}
  PROVE  n \div (radix * p) = (n \div p) \div radix /\ radix * p \in Nat \ {0}
<1> DEFINE a == n \div p
           b == n % p
           c == a \div radix
           e == a % radix
<1>1. n = p * a + b /\ a \in Nat /\ b \in 0 .. p - 1
  BY DivMod
<1> HIDE DEF a, b
<1>2. a = radix * c + e /\ c \in Nat /\ e \in 0 .. radix - 1
  BY <1>1, DivMod
<1> HIDE DEF c, e
<1>3. p * e + p <= p * radix /\ p * e \in Nat
  BY <1>2, Multiples
<1>4. p * e + b \in Nat /\ p * e + b < p * radix
  BY <1>1, <1>3
<1>5. p * radix = radix * p /\ radix * p \in Nat /\ p * radix > 0
  BY <1>3, <1>1
<1>6. n = c * (radix * p) + (p * e + b)
  <2>1. p * a = p * (radix * c) + p * e
    BY <1>1, <1>2
  <2>2. p * (radix * c) = c * (radix * p)
    BY <1>2
  <2>3. p * (radix * c) \in Nat /\ b \in Nat
    BY <1>1, <1>2
  <2> QED BY <1>1, <1>3, <2>1, <2>2, <2>3
<1>7. radix * p \in Nat \ {0}
  BY <1>5
<1> DEFINE D == radix * p
           R == p * e + b
<1>8. (c * D + R) \div D = c
  <2>1. R \in Nat /\ D \in Nat \ {0} /\ R < D
    BY <1>4, <1>5, <1>7
  <2> HIDE DEF D, R
  <2> QED BY <2>1, <1>2, Division
<1> QED
  BY <1>6, <1>7, <1>8 DEF c, a

\* The digits that itoa finds by dividing, lowest first, and turns round, are the
\* numeral of the number.
LEMMA NumeralIsItoa ==
  ASSUME NEW value \in Nat, NEW radix \in Nat \ {0, 1}
  PROVE  Screens!Numeral(value, radix) = itoa(value, radix)
<1> DEFINE Power(p) == p = [k \in Nat |-> IF k = 0 THEN 1 ELSE radix * p[k - 1]]
           G == [v \in Nat |-> radix * v]
           power == CHOOSE p : Power(p)
           Enough(k) == value < power[k] /\ \A j \in 1 .. k - 1 : power[j] <= value
           digits == CHOOSE k \in 1 .. value + 1 : Enough(k)
<1>1. Screens!Numeral(value, radix) = [i \in 1 .. digits |-> (value \div power[digits - i]) % radix]
  BY DEF Screens!Numeral
<1>2. G \in [Nat -> Nat] /\ 1 \in Nat
  OBVIOUS
<1>3. PICK q \in [Nat -> Nat] : IsEndlessLoop(q, 1, G)
  <2> HIDE DEF G
  <2> QED BY <1>2, EndlessLoop
<1>4. Power(q)
  <2>1. \A k \in Nat : q[k] = IF k = 0 THEN 1 ELSE radix * q[k - 1]
    <3> TAKE k \in Nat
    <3>1. q[k] = IF k = 0 THEN 1 ELSE G[q[k - 1]]
      <4> HIDE DEF G
      <4> QED BY <1>3 DEF IsEndlessLoop
    <3>2. k # 0 => q[k - 1] \in Nat
      OBVIOUS
    <3> QED BY <3>1, <3>2
  <2>2. DOMAIN q = Nat /\ q = [k \in DOMAIN q |-> q[k]]
    OBVIOUS
  <2> QED BY <2>1, <2>2
<1>5. Power(power)
  <2> HIDE DEF Power
  <2> QED BY <1>4
<1> HIDE DEF power, G
<1>6. power[0] = 1 /\ \A k \in Nat : power[k + 1] = radix * power[k]
  <2>1. \A k \in Nat : power[k] = IF k = 0 THEN 1 ELSE radix * power[k - 1]
    BY <1>5
  <2>2. \A k \in Nat : k + 1 \in Nat /\ k + 1 # 0 /\ (k + 1) - 1 = k
    OBVIOUS
  <2>3. 0 \in Nat
    OBVIOUS
  <2> QED BY <2>1, <2>2, <2>3, Zenon
<1> HIDE DEF Power
<1>7. PICK r \in [Nat -> Nat], count \in 0 .. value :
        /\ r[0] = value /\ \A k \in Nat : r[k + 1] = r[k] \div radix
        /\ r[count] = 0 /\ \A j \in 0 .. count - 1 : r[j] # 0
        /\ PlaceValues(value, radix) = [k \in 1 .. count |-> r[k - 1] % radix]
  BY PlaceValuesRuns, Zenon
<1>7a. ASSUME NEW p \in Nat \ {0}
        PROVE  value \div (radix * p) = (value \div p) \div radix /\ radix * p \in Nat \ {0}
  <2>1. value \in Nat /\ radix \in Nat \ {0}
    OBVIOUS
  <2> QED BY <2>1, DivTwice
<1>8. \A k \in Nat : power[k] \in Nat \ {0} /\ r[k] = value \div power[k]
  <2> DEFINE T == {k \in Nat : power[k] \in Nat \ {0} /\ r[k] = value \div power[k]}
  <2>1. 0 \in T
    <3>1. value \div 1 = value
      BY DivMod
    <3>2. power[0] = 1 /\ r[0] = value
      BY <1>6, <1>7
    <3>3. value \div power[0] = value /\ power[0] \in Nat \ {0}
      BY <3>1, <3>2
    <3> QED BY <3>2, <3>3
  <2>2. ASSUME NEW k \in Nat, k \in T PROVE k + 1 \in T
    <3> DEFINE p == power[k]
    <3>1. p \in Nat \ {0} /\ r[k] = value \div p
      BY <2>2
    <3>2. power[k + 1] = radix * p /\ r[k + 1] = r[k] \div radix
      BY <1>6, <1>7
    <3> HIDE DEF p
    <3>3. value \div (radix * p) = (value \div p) \div radix /\ radix * p \in Nat \ {0}
      BY <3>1, <1>7a
    <3> QED BY <3>1, <3>2, <3>3
  <2>3. Nat \subseteq T
    <3> HIDE DEF T
    <3> QED BY <2>1, <2>2, Induction
  <2> QED BY <2>3
<1>9. \A k \in Nat : r[k] = 0 <=> value < power[k]
  <2> TAKE k \in Nat
  <2> DEFINE p == power[k]
  <2>1. p \in Nat \ {0} /\ r[k] = value \div p
    BY <1>8
  <2> HIDE DEF p
  <2>2. value = p * (value \div p) + (value % p) /\ value % p \in 0 .. p - 1
    BY <2>1, DivMod
  <2>3. value \div p = 0 => value < p
    <3>1. p * 0 = 0
      BY <2>1
    <3> QED BY <2>1, <2>2, <3>1
  <2>4. value < p => value \div p = 0
    <3>1. value < p => (0 * p + value) \div p = 0
      BY <2>1, Division
    <3>2. 0 * p + value = value
      BY <2>1
    <3> QED BY <3>1, <3>2
  <2> QED BY <2>1, <2>3, <2>4 DEF p
<1>10. CASE value # 0
  <2>1. count \in 1 .. value + 1
    BY <1>7, <1>10
  <2>2. Enough(count)
    <3>1. \A j \in 1 .. count - 1 : j \in Nat /\ j \in 0 .. count - 1
      OBVIOUS
    <3>2. value < power[count]
      BY <1>7, <1>9, <2>1
    <3>3. \A j \in 1 .. count - 1 : ~(value < power[j]) /\ power[j] \in Nat
      BY <3>1, <1>7, <1>8, <1>9
    <3> QED BY <3>2, <3>3
  <2>3. ASSUME NEW k \in 1 .. value + 1, Enough(k) PROVE k = count
    <3>1. ~(k < count)
      <4>1. SUFFICES ASSUME k < count PROVE FALSE
        OBVIOUS
      <4>2. k \in 1 .. count - 1 /\ k \in Nat
        BY <4>1, <2>1
      <4>3. power[k] <= value /\ power[k] \in Nat
        BY <4>2, <2>2, <1>8
      <4> QED BY <4>3, <2>3
    <3>2. ~(count < k)
      <4>1. SUFFICES ASSUME count < k PROVE FALSE
        OBVIOUS
      <4>2. count \in 1 .. k - 1 /\ count \in Nat
        BY <4>1, <2>1
      <4>3. power[count] <= value /\ power[count] \in Nat
        BY <4>2, <2>3, <1>8
      <4> QED BY <4>3, <2>2
    <3> QED BY <3>1, <3>2, <2>1
  <2>4. digits = count
    <3> HIDE DEF Enough
    <3> QED BY <2>1, <2>2, <2>3
  <2> DEFINE p == [k \in 1 .. count |-> r[k - 1] % radix]
  <2>5. p \in Seq(Nat) /\ Len(p) = count
    <3>1. \A k \in 1 .. count : r[k - 1] % radix \in Nat
      BY <2>1, DivMod
    <3>2. p \in [1 .. count -> Nat] /\ count \in Nat
      BY <3>1, <2>1
    <3> QED BY <3>2
  <2> DEFINE b == [i \in 1 .. count |-> p[count - i + 1]]
             a == [i \in 1 .. count |-> (value \div power[count - i]) % radix]
  <2>6. itoa(value, radix) = b
    BY <1>7, <1>10, <2>5 DEF itoa, strrev, Reverse
  <2>7. ASSUME NEW i \in 1 .. count PROVE a[i] = b[i]
    <3>1. count - i \in Nat /\ count - i + 1 \in 1 .. count /\ (count - i + 1) - 1 = count - i
      BY <2>1
    <3>2. b[i] = r[count - i] % radix
      BY <3>1
    <3> QED BY <3>1, <3>2, <1>8
  <2>8. a = b
    BY <2>7
  <2> HIDE DEF a, b, digits
  <2> QED BY <1>1, <2>4, <2>6, <2>8 DEF a
<1>11. CASE value = 0
  <2>1. Enough(1)
    <3>1. power[1] \in Nat \ {0}
      BY <1>8
    <3> QED BY <3>1, <1>11
  <2>2. digits = 1
    <3>1. \A k \in 1 .. value + 1 : k = 1
      BY <1>11
    <3>2. 1 \in 1 .. value + 1
      OBVIOUS
    <3> HIDE DEF Enough
    <3> QED BY <2>1, <3>1, <3>2
  <2> HIDE DEF digits
  <2> DEFINE a == [i \in 1 .. 1 |-> (value \div power[1 - i]) % radix]
  <2>3. a = <<0>>
    <3>1. (0 \div 1) % radix = 0
      <4>1. 0 \div 1 = 0
        BY DivMod
      <4>2. (0 * radix + 0) % radix = 0 /\ 0 * radix + 0 = 0
        BY Division
      <4> QED BY <4>1, <4>2
    <3>2. \A i \in 1 .. 1 : i = 1 /\ power[1 - i] = 1
      BY <1>6
    <3>3. \A i \in 1 .. 1 : a[i] = 0
      BY <1>11, <3>1, <3>2
    <3> QED BY <3>3
  <2> QED BY <1>1, <1>11, <2>2, <2>3 DEF itoa
<1> QED
  BY <1>10, <1>11

-----------------------------------------------------------------------------
(* All screens.                                                            *)

SameScreens(d, e) == \A u \in Term : Own(e, u) = Own(d, u)

\* Only the screen of t changes, and to s.
OnlyWrites(d, e, t, s) ==
  /\ e.viewing = d.viewing
  /\ Own(e, t) = s
  /\ \A u \in Term : u # t => Own(e, u) = Own(d, u)

\* A change of mappings changes no screen.
LEMMA SameTextScreens ==
  ASSUME NEW d, NEW e, SameText(d, e)
  PROVE  SameScreens(d, e) /\ e.viewing = d.viewing
BY DEF SameText, SameScreens, Own, Place

\* No two terminals have the same page.
LEMMA PlacesDiffer ==
  ASSUME NEW d, NEW t \in Term, NEW u \in Term, Place(d, t) = Place(d, u)
  PROVE  t = u
BY PageSets DEF Place

\* What is written through the mapping is written on one screen.
LEMMA SetOnlyWrites ==
  ASSUME NEW d \in Displays, NEW e, NEW s \in TextScreens, d.mapped = Place(d, d.ptr),
         e.memory = [d.memory EXCEPT ![d.mapped] = s.cells],
         e.cursor = [d.cursor EXCEPT ![d.ptr] = [x |-> s.x, y |-> s.y]],
         e.viewing = d.viewing
  PROVE  OnlyWrites(d, e, d.ptr, s)
<1>1. /\ d.memory \in [Pages -> [Cells -> Shows]] /\ d.cursor \in [Term -> Cursors]
      /\ d.ptr \in Term /\ d.mapped \in Pages
  BY DEF Displays
<1>2. \A u \in Term : Place(e, u) = Place(d, u)
  BY DEF Place
<1>3. e.memory[d.mapped] = s.cells /\ e.cursor[d.ptr] = [x |-> s.x, y |-> s.y]
  BY <1>1
<1>4. Own(e, d.ptr) = [cells |-> s.cells, x |-> s.x, y |-> s.y]
  BY <1>1, <1>2, <1>3 DEF Own
<1>5. s = [cells |-> s.cells, x |-> s.x, y |-> s.y]
  BY DEF TextScreens
<1>6. ASSUME NEW u \in Term, u # d.ptr PROVE Own(e, u) = Own(d, u)
  <2>1. Place(d, u) # d.mapped
    BY <1>1, <1>6, PlacesDiffer
  <2>2. e.memory[Place(d, u)] = d.memory[Place(d, u)] /\ e.cursor[u] = d.cursor[u]
    BY <1>1, <1>6, <2>1, PlacePage
  <2> QED BY <1>2, <2>2 DEF Own
<1> QED
  BY <1>4, <1>5, <1>6 DEF OnlyWrites

\* The same of a text.
LEMMA WroteOnly ==
  ASSUME NEW d \in Displays, NEW e, Wrote(d, e), d.mapped = Place(d, d.ptr)
  PROVE  OnlyWrites(d, e, d.ptr, Screen(e)) /\ Screen(d) = Own(d, d.ptr)
         /\ e.mapped = Place(e, e.ptr) /\ e.ptr = d.ptr /\ e \in Displays
<1>1. d.ptr \in Term
  BY DEF Displays
<1>2. \A u \in Term : Place(e, u) = Place(d, u)
  BY DEF Wrote, Place
<1>3. ASSUME NEW u \in Term, u # d.ptr PROVE Own(e, u) = Own(d, u)
  <2>1. Place(d, u) # d.mapped
    BY <1>1, <1>3, PlacesDiffer
  <2>2. e.memory[Place(d, u)] = d.memory[Place(d, u)] /\ e.cursor[u] = d.cursor[u]
    BY <1>3, <2>1, PlacePage DEF Wrote
  <2> QED BY <1>2, <2>2 DEF Own
<1>4. e.mapped = Place(e, e.ptr) /\ e.ptr = d.ptr /\ e \in Displays /\ e.viewing = d.viewing
  BY <1>1, <1>2 DEF Wrote
<1>5. Screen(e) = Own(e, d.ptr) /\ Screen(d) = Own(d, d.ptr)
  BY <1>4, ScreenIsOwn
<1> QED
  BY <1>3, <1>4, <1>5 DEF OnlyWrites

\* The kernel's answers and the programs' texts, on the screen that is mapped.
LEMMA PutsOnly ==
  ASSUME NEW d \in Displays, NEW str \in Seq(Chars), d.mapped = Place(d, d.ptr)
  PROVE  LET e == puts(d, str)
         IN  /\ OnlyWrites(d, e, d.ptr, Screen(e)) /\ e \in Displays
             /\ e.mapped = Place(e, e.ptr) /\ e.ptr = d.ptr
             /\ Abstract(Screen(e)) = Screens!Written(Abstract(Own(d, d.ptr)), str)
<1>1. Wrote(d, puts(d, str))
  BY PutsWrote
<1> DEFINE e == puts(d, str)
<1>2. Abstract(Screen(e)) = Screens!Written(Abstract(Screen(d)), str)
  BY PutsRefines
<1>3. Wrote(d, e)
  BY <1>1
<1> HIDE DEF e
<1> QED
  BY <1>2, <1>3, WroteOnly DEF e

\* A key is written on the screen of the terminal that is viewed.
LEMMA EchoOnly ==
  ASSUME NEW d \in Displays, NEW c \in Chars
  PROVE  OnlyWrites(d, Echo(d, c), d.viewing, PutC(Own(d, d.viewing), c))
<1> DEFINE m == MapViewed(d)
           f == nb_putc(m, c)
           e == MapRunning(f)
<1>1. d.viewing \in Term
  BY DEF Displays
<1>2. m \in Displays /\ SameText(d, m) /\ m.ptr = d.viewing /\ m.mapped = Place(d, d.viewing)
  BY <1>1, MapDisplay DEF MapViewed
<1> HIDE DEF m
<1>3. m.mapped = Place(m, m.ptr) /\ Screen(m) = Own(d, d.viewing) /\ m.viewing = d.viewing
      /\ SameScreens(d, m)
  <2>1. m.mapped = Place(m, m.ptr) /\ SameScreens(d, m) /\ m.viewing = d.viewing
    BY <1>2, SameTextScreens DEF SameText, Place
  <2> QED BY <1>1, <1>2, <2>1, ScreenIsOwn DEF SameScreens
<1> DEFINE s == PutC(Screen(m), c)
<1>4. /\ f \in Displays /\ f.ptr = m.ptr
      /\ f.memory = [m.memory EXCEPT ![m.mapped] = s.cells]
      /\ f.cursor = [m.cursor EXCEPT ![m.ptr] = [x |-> s.x, y |-> s.y]]
      /\ f.viewing = m.viewing
  BY <1>2, PutcDisplay
<1>5. s \in TextScreens
  BY <1>2, ScreenOf, PutCScreen
<1> HIDE DEF f, s
<1>6. OnlyWrites(m, f, m.ptr, s)
  BY <1>2, <1>3, <1>4, <1>5, SetOnlyWrites
<1>7. SameText(f, e)
  BY <1>2, <1>3, <1>4, MapRunningWrote
<1>8. Echo(d, c) = e
  BY DEF Echo, f, m
<1> HIDE DEF e
<1>9. SameScreens(f, e) /\ e.viewing = f.viewing
  BY <1>7, SameTextScreens
<1>10. OnlyWrites(d, e, d.viewing, s)
  BY <1>1, <1>2, <1>3, <1>4, <1>6, <1>9 DEF OnlyWrites, SameScreens
<1> QED
  BY <1>3, <1>8, <1>10 DEF s

\* Ctrl+L clears the screen of the terminal that is viewed.
LEMMA ClearOnly ==
  ASSUME NEW d \in Displays
  PROVE  OnlyWrites(d, clear(d), d.viewing, ClearText(Own(d, d.viewing)))
<1> DEFINE m == MapViewed(d)
           s == ClearText(Screen(m))
           f == SetScreen(m, s)
           e == MapRunning(f)
<1>1. d.viewing \in Term
  BY DEF Displays
<1>2. m \in Displays /\ SameText(d, m) /\ m.ptr = d.viewing /\ m.mapped = Place(d, d.viewing)
  BY <1>1, MapDisplay DEF MapViewed
<1> HIDE DEF m
<1>3. m.mapped = Place(m, m.ptr) /\ Screen(m) = Own(d, d.viewing) /\ m.viewing = d.viewing
      /\ SameScreens(d, m)
  <2>1. m.mapped = Place(m, m.ptr) /\ SameScreens(d, m) /\ m.viewing = d.viewing
    BY <1>2, SameTextScreens DEF SameText, Place
  <2> QED BY <1>1, <1>2, <2>1, ScreenIsOwn DEF SameScreens
<1>5. s \in TextScreens
  <2>1. Screen(m).cells \in [Cells -> Shows]
    BY <1>2, ScreenOf DEF TextScreens
  <2> QED BY <2>1, ClearScreens
<1> HIDE DEF s
<1>4. /\ f \in Displays /\ f.ptr = m.ptr
      /\ f.memory = [m.memory EXCEPT ![m.mapped] = s.cells]
      /\ f.cursor = [m.cursor EXCEPT ![m.ptr] = [x |-> s.x, y |-> s.y]]
      /\ f.viewing = m.viewing
  BY <1>2, <1>5, SetScreenDisplay
<1> HIDE DEF f
<1>6. OnlyWrites(m, f, m.ptr, s)
  BY <1>2, <1>3, <1>4, <1>5, SetOnlyWrites
<1>7. SameText(f, e)
  BY <1>2, <1>3, <1>4, MapRunningWrote
<1>8. clear(d) = e
  BY DEF clear, f, m, s
<1> HIDE DEF e
<1>9. SameScreens(f, e) /\ e.viewing = f.viewing
  BY <1>7, SameTextScreens
<1>10. OnlyWrites(d, e, d.viewing, s)
  BY <1>1, <1>2, <1>3, <1>4, <1>6, <1>9 DEF OnlyWrites, SameScreens
<1> QED
  BY <1>3, <1>8, <1>10 DEF s

\* A switch changes which terminal is viewed and no screen.
LEMMA SwitchOnly ==
  ASSUME NEW d \in Displays, NEW target \in Term, target # d.viewing
  PROVE  SameScreens(d, switch_display(d, target)) /\ switch_display(d, target).viewing = target
<1> DEFINE e == switch_display(d, target)
<1>1. /\ e.memory = [d.memory EXCEPT ![d.viewing] = d.memory[Video], ![Video] = d.memory[target]]
      /\ e.cursor = d.cursor /\ e.viewing = target
  BY SwitchWrote
<1> HIDE DEF e
<1>2. d.memory \in [Pages -> [Cells -> Shows]] /\ d.viewing \in Term
  BY DEF Displays
<1>3. ASSUME NEW u \in Term PROVE e.memory[Place(e, u)] = d.memory[Place(d, u)]
  <2>1. u \in Pages /\ u # Video /\ Video \in Pages /\ d.viewing \in Pages /\ d.viewing # Video
    BY <1>2, PageSets
  <2>2. /\ e.memory[Video] = d.memory[target] /\ e.memory[d.viewing] = d.memory[Video]
        /\ \A p \in Pages : p # Video /\ p # d.viewing => e.memory[p] = d.memory[p]
    BY <1>1, <1>2, <2>1
  <2> QED BY <1>1, <2>1, <2>2 DEF Place
<1> QED
  BY <1>1, <1>3 DEF SameScreens, Own, e

-----------------------------------------------------------------------------
(* Every step is a step of the screens.                                    *)

\* A change of one screen, as a step.
LEMMA ShowStep ==
  ASSUME NEW t \in Term, NEW s, OnlyWrites(display, display', t, s)
  PROVE  Screens!Show(t, Abstract(s))
<1> DEFINE text == [u \in Term |-> display.memory[Place(display, u)]]
           at == [u \in Term |-> Position(display.cursor[u])]
<1>1. \A u \in Term : /\ display.memory[Place(display, u)] = Own(display, u).cells
                      /\ Position(display.cursor[u]) = Position(Own(display, u))
  BY DEF Own, Position
<1>2. \A u \in Term : /\ display'.memory[Place(display', u)] = Own(display', u).cells
                      /\ Position(display'.cursor[u]) = Position(Own(display', u))
  BY DEF Own, Position
<1>3. \A u \in Term : Own(display', u) = IF u = t THEN s ELSE Own(display, u)
  BY DEF OnlyWrites
<1>4. text' = [text EXCEPT ![t] = s.cells]
  BY <1>1, <1>2, <1>3
<1>5. at' = [at EXCEPT ![t] = Position(s)]
  BY <1>1, <1>2, <1>3
<1>6. display'.viewing = display.viewing
  BY DEF OnlyWrites
<1>7. Abstract(s).text = s.cells /\ Abstract(s).at = Position(s)
  BY DEF Abstract
<1> QED
  BY <1>4, <1>5, <1>6, <1>7 DEF Screens!Show

\* No change of the screens, as a step.
LEMMA SameStep ==
  ASSUME SameScreens(display, display')
  PROVE  /\ [u \in Term |-> display.memory[Place(display, u)]]' = [u \in Term |-> display.memory[Place(display, u)]]
         /\ [u \in Term |-> Position(display.cursor[u])]' = [u \in Term |-> Position(display.cursor[u])]
<1>1. \A u \in Term : /\ display.memory[Place(display, u)] = Own(display, u).cells
                      /\ Position(display.cursor[u]) = Position(Own(display, u))
  BY DEF Own, Position
<1>2. \A u \in Term : /\ display'.memory[Place(display', u)] = Own(display', u).cells
                      /\ Position(display'.cursor[u]) = Position(Own(display', u))
  BY DEF Own, Position
<1> QED
  BY <1>1, <1>2 DEF SameScreens

\* No change at all.
LEMMA SilentStep ==
  ASSUME SameScreens(display, display'), display'.viewing = display.viewing
  PROVE  UNCHANGED Screens!vars
BY SameStep DEF Screens!vars

\* A text on one screen, as a step.
LEMMA SayStep ==
  ASSUME NEW t \in Term, NEW s, NEW str, OnlyWrites(display, display', t, s),
         Abstract(s) = Screens!Written(Abstract(Own(display, t)), str)
  PROVE  Screens!Say(t, str)
<1> DEFINE text == [u \in Term |-> display.memory[Place(display, u)]]
           at == [u \in Term |-> Position(display.cursor[u])]
<1>1. [text |-> text[t], at |-> at[t]] = Abstract(Own(display, t))
  BY DEF Abstract, Own, Position
<1>2. Screens!Say(t, str) = Screens!Show(t, Screens!Written([text |-> text[t], at |-> at[t]], str))
  BY DEF Screens!Say
<1> HIDE DEF text, at
<1>3. Screens!Say(t, str) = Screens!Show(t, Abstract(s))
  BY <1>1, <1>2
<1> QED
  BY <1>3, ShowStep

\* What the program that runs, or the kernel for it, says.
LEMMA PutsStep ==
  ASSUME display \in Displays, Follows(display), NEW str \in Seq(Chars),
         NEW e, SameScreens(puts(display, str), e), e.viewing = display.viewing, display' = e
  PROVE  Screens!Say(display.running, str)
<1> DEFINE f == puts(display, str)
<1>1. display.ptr = display.running /\ display.mapped = Place(display, display.ptr)
      /\ display.running \in Term
  BY DEF Follows, Displays
<1>2. /\ OnlyWrites(display, f, display.running, Screen(f))
      /\ Abstract(Screen(f)) = Screens!Written(Abstract(Own(display, display.running)), str)
  BY <1>1, PutsOnly
<1> HIDE DEF f
<1>3. SameScreens(f, e)
  BY DEF f
<1>4. OnlyWrites(display, display', display.running, Screen(f))
  BY <1>1, <1>2, <1>3 DEF OnlyWrites, SameScreens
<1> QED
  BY <1>1, <1>2, <1>4, SayStep

\* What ends a program writes nothing.
LEMMA ClosedScreens ==
  ASSUME NEW d \in Displays
  PROVE  SameScreens(d, VidmapClosed(d)) /\ VidmapClosed(d).viewing = d.viewing
<1> DEFINE e == switch_usrmap(d, Place(d, d.running), FALSE)
           f == [e EXCEPT !.vidmap_flag[d.running] = FALSE]
<1>1. d.running \in Term
  BY DEF Displays
<1>2. e \in Displays /\ SameText(d, e)
  BY <1>1, PlacePage, UsrmapDisplay
<1> HIDE DEF e
<1>3. f.memory = e.memory /\ f.cursor = e.cursor /\ f.viewing = e.viewing
  BY <1>2 DEF Displays
<1>4. VidmapClosed(d) = IF pcb_vidmap[cur_pid] THEN f ELSE d
  BY DEF VidmapClosed, e
<1> HIDE DEF f
<1> QED
  BY <1>2, <1>3, <1>4 DEF SameText, SameScreens, Own, Place

\* halt writes nothing.
LEMMA HaltScreens ==
  ASSUME NEW d \in Displays, Halt(d)
  PROVE  SameScreens(d, display') /\ display'.viewing = d.viewing
<1>1. display' = d \/ display' = VidmapClosed(d)
  BY DEF Halt
<1> QED
  BY <1>1, ClosedScreens DEF SameScreens

\* The keyboard echoes, clears and looks.
LEMMA KeyboardScreens ==
  ASSUME IInv, KeyboardStep
  PROVE  Screens!Next
<1>1. display \in Displays /\ display.viewing \in Term
  BY DEF IInv, Typed, Displays
<1> DEFINE own == Own(display, display.viewing)
<1>2. own \in TextScreens
  BY <1>1, OwnScreen
<1>3. ASSUME NEW k \in Keys \cup {Newline, Backspace}, display' = Echo(display, k)
      PROVE  Screens!Next
  <2>1. k \in Chars
    BY DEF Chars, Shows
  <2>2. OnlyWrites(display, display', display.viewing, PutC(own, k))
    BY <1>1, <1>3, <2>1, EchoOnly
  <2>3. Abstract(PutC(own, k)) = Screens!Written(Abstract(own), <<k>>)
    <3> HIDE DEF own
    <3> QED BY <1>2, <2>1, WriteRefines, WrittenOnce
  <2>4. Screens!Say(display.viewing, <<k>>)
    BY <1>1, <2>2, <2>3, SayStep
  <2>5. Screens!Echo
    BY <2>4 DEF Screens!Echo
  <2> QED BY <2>5 DEF Screens!Next
<1>4. CASE ClearScreen
  <2> DEFINE cleared == ClearText(own)
             text == [u \in Term |-> display.memory[Place(display, u)]]
             cells == [i \in 0 .. Screens!Size - 1 |-> IF i < BarCells THEN text[display.viewing][i] ELSE Blank]
  <2>1. OnlyWrites(display, display', display.viewing, cleared)
    BY <1>1, <1>4, ClearOnly DEF ClearScreen
  <2>2. Screens!Show(display.viewing, Abstract(cleared))
    BY <1>1, <2>1, ShowStep
  <2>3. Abstract(cleared) = [at |-> NUM_COLS, text |-> cells]
    <3>1. Position(cleared) = NUM_COLS
      BY Sizes DEF Position, ClearText, START_HEIGHT
    <3>2. text[display.viewing] = own.cells
      BY <1>1 DEF Own
    <3>3. cleared.cells = cells
      <4> HIDE DEF text, own
      <4> QED BY <3>2, SizeOfScreen DEF ClearText
    <3> HIDE DEF cleared, cells
    <3> QED BY <3>1, <3>3 DEF Abstract
  <2> HIDE DEF cleared
  <2>4. Screens!Show(display.viewing, [at |-> NUM_COLS, text |-> cells])
    BY <2>2, <2>3
  <2>5. Screens!Clear
    BY <2>4 DEF Screens!Clear
  <2> QED BY <2>5 DEF Screens!Next
<1>5. ASSUME NEW t \in Term, switch_terminal(t) PROVE Screens!Next
  <2>1. SameScreens(display, display') /\ display'.viewing = t
    BY <1>1, <1>5, SwitchOnly DEF switch_terminal
  <2>2. Screens!Look(t)
    BY <2>1, SameStep DEF Screens!Look
  <2> QED BY <2>2 DEF Screens!Next
<1>6. (\E c \in Keys : Key(c)) \/ Enter \/ EraseKey => \E k \in Keys \cup {Newline, Backspace} : display' = Echo(display, k)
  BY DEF Key, Enter, EraseKey
<1> QED
  BY <1>3, <1>4, <1>5, <1>6 DEF KeyboardStep

\* terminal_write says its text.
LEMMA PrintScreens ==
  ASSUME IInv, NEW str \in Seq(Chars), terminal_write(str)
  PROVE  Screens!Say(display.running, str) /\ display.running \in Term
<1>1. display \in Displays /\ Follows(display) /\ display.running \in Term
  BY ProgramRuns DEF terminal_write
<1>2. Printed(display, puts(display, str))
  BY <1>1, PutsPrinted
<1>3. display' = puts(display, str)
  BY DEF terminal_write
<1>4. SameScreens(puts(display, str), puts(display, str))
  BY DEF SameScreens
<1>5. puts(display, str).viewing = display.viewing
  BY <1>2 DEF Printed
<1> QED
  BY <1>1, <1>3, <1>4, <1>5, PutsStep

\* Drawing through vidmap is drawing on the own screen: the mapping follows.
LEMMA DrawScreens ==
  ASSUME IInv, Draw
  PROVE  Screens!Draw(display.running) /\ display.running \in Term
<1>1. display \in Displays /\ Follows(display) /\ display.running \in Term
  BY ProgramRuns DEF Draw
<1> DEFINE page == display.usrmap.page
           run == display.running
           text == [u \in Term |-> display.memory[Place(display, u)]]
<1>2. PICK i \in Drawn : display' = [display EXCEPT !.memory[page][i] = Ink]
  BY DEF Draw
<1>3. page = Place(display, run)
  BY <1>1 DEF Follows
<1>4. /\ display.memory \in [Pages -> [Cells -> Shows]] /\ page \in Pages
  BY <1>1 DEF Displays
<1> DEFINE cells == [display.memory[page] EXCEPT ![i] = Ink]
           memory == [display.memory EXCEPT ![page] = cells]
<1>5. display' = [display EXCEPT !.memory = memory]
  BY <1>2
<1>6. memory[page] = cells /\ \A p \in Pages : p # page => memory[p] = display.memory[p]
  <2> HIDE DEF cells
  <2> QED BY <1>4
<1> HIDE DEF memory
<1>7. /\ display'.memory = memory /\ display'.cursor = display.cursor
      /\ display'.viewing = display.viewing
  BY <1>1, <1>5 DEF Displays
<1>8. \A u \in Term : Place(display', u) = Place(display, u)
  BY <1>7 DEF Place
<1>9. \A u \in Term : display'.memory[Place(display', u)] =
                        IF u = run THEN cells ELSE display.memory[Place(display, u)]
  <2> HIDE DEF cells
  <2> TAKE u \in Term
  <2>1. u # run => Place(display, u) # page /\ Place(display, u) \in Pages
    BY <1>1, <1>3, PlacesDiffer, PlacePage
  <2> QED BY <1>3, <1>6, <1>7, <1>8, <2>1
<1>10. cells = [text[run] EXCEPT ![i] = Ink]
  BY <1>1, <1>3
<1>11. text' = [text EXCEPT ![run] = cells]
  <2> HIDE DEF cells
  <2> QED BY <1>9
<1>12. text' = [text EXCEPT ![run][i] = Ink]
  <2> HIDE DEF run, cells
  <2>1. [text EXCEPT ![run][i] = Ink] = [text EXCEPT ![run] = [text[run] EXCEPT ![i] = Ink]]
    BY DEF text
  <2> HIDE DEF text
  <2> QED BY <1>10, <1>11, <2>1
<1>13. UNCHANGED <<[u \in Term |-> Position(display.cursor[u])], display.viewing>>
  BY <1>7
<1> QED
  BY <1>1, <1>12, <1>13 DEF Screens!Draw

\* vidmap writes nothing.
LEMMA VidmapScreens ==
  ASSUME IInv, syscall_vidmap
  PROVE  UNCHANGED Screens!vars
<1> DEFINE d == switch_usrmap(display, Place(display, display.running), TRUE)
<1>1. display' = [d EXCEPT !.vidmap_flag[d.running] = TRUE] /\ InProgram
  BY DEF syscall_vidmap
<1>2. d \in Displays /\ SameText(display, d)
  BY <1>1, ProgramRuns, PlacePage, UsrmapDisplay
<1> HIDE DEF d
<1>3. display'.memory = d.memory /\ display'.cursor = d.cursor /\ display'.viewing = d.viewing
  BY <1>1, <1>2 DEF Displays
<1>4. SameScreens(display, display') /\ display'.viewing = display.viewing
  BY <1>2, <1>3 DEF SameText, SameScreens, Own, Place
<1> QED
  BY <1>4, SilentStep

\* Nor does the system call halt.
LEMMA HaltStep ==
  ASSUME IInv, syscall_halt
  PROVE  UNCHANGED Screens!vars
<1>1. display \in Displays /\ Halt(display)
  BY ProgramRuns DEF syscall_halt
<1> QED
  BY <1>1, HaltScreens, SilentStep

\* An exception says its message.
LEMMA ExceptionStep ==
  ASSUME IInv, EXCP
  PROVE  Screens!Say(display.running, Message) /\ display.running \in Term
<1> DEFINE d == puts(display, Message)
<1>1. display \in Displays /\ Follows(display) /\ display.running \in Term /\ Halt(d)
  BY ProgramRuns DEF EXCP
<1>2. Printed(display, d)
  BY <1>1, KernelTexts, PutsPrinted
<1>3. SameScreens(d, display') /\ display'.viewing = d.viewing
  <2> HIDE DEF d
  <2> QED BY <1>1, <1>2, HaltScreens DEF Printed
<1>4. display'.viewing = display.viewing
  BY <1>2, <1>3 DEF Printed
<1>5. Message \in Seq(Chars)
  BY KernelTexts
<1> QED
  BY <1>1, <1>3, <1>4, <1>5, PutsStep

\* A page fault says the address and its message.
LEMMA FaultStep ==
  ASSUME IInv, NEW a \in Addresses, EXCP_page_fault(a)
  PROVE  Screens!Say(display.running, Screens!Numeral(a, Hexadecimal) \o <<Newline>> \o Message)
         /\ display.running \in Term
<1> DEFINE s == printf(<<PercentX, Newline>>, a)
           e == puts(display, s)
           d == puts(e, Message)
           run == display.running
<1>1. display \in Displays /\ Follows(display) /\ run \in Term /\ Halt(d)
  BY ProgramRuns DEF EXCP_page_fault
<1>2. a \in Nat /\ Hexadecimal \in Nat \ {0, 1}
  BY DisplayAssumption, TextAssumption
<1>3. s \in Seq(Chars) /\ s = Screens!Numeral(a, Hexadecimal) \o <<Newline>> /\ Message \in Seq(Chars)
  <2>1. Screens!Numeral(a, Hexadecimal) = itoa(a, Hexadecimal)
    BY <1>2, NumeralIsItoa
  <2> QED BY <1>2, <2>1, KernelTexts
<1> HIDE DEF s
<1>4. display.ptr = run /\ display.mapped = Place(display, display.ptr)
  BY <1>1 DEF Follows
<1>5. /\ OnlyWrites(display, e, run, Screen(e)) /\ e \in Displays
      /\ e.mapped = Place(e, e.ptr) /\ e.ptr = run
  BY <1>1, <1>3, <1>4, PutsOnly
<1>6. Abstract(Screen(d)) = Screens!Written(Abstract(Screen(display)), s \o Message)
  BY <1>1, <1>3, PutsTwiceRefines
<1>7. Screen(display) = Own(display, run)
  BY <1>1, <1>4, ScreenIsOwn
<1> HIDE DEF e
<1>8. OnlyWrites(e, d, run, Screen(d)) /\ d \in Displays
  BY <1>3, <1>5, PutsOnly
<1> HIDE DEF d
<1>9. SameScreens(d, display') /\ display'.viewing = d.viewing
  BY <1>1, <1>8, HaltScreens
<1>10. OnlyWrites(display, display', run, Screen(d))
  BY <1>1, <1>5, <1>8, <1>9 DEF OnlyWrites, SameScreens
<1>11. Screens!Say(run, s \o Message)
  BY <1>1, <1>6, <1>7, <1>10, SayStep
<1> QED
  BY <1>1, <1>3, <1>11

\* A tick says the bar of a new shell, or nothing.
LEMMA TickScreens ==
  ASSUME IInv, Tick
  PROVE  Screens!Next \/ UNCHANGED Screens!vars
<1> DEFINE next == next_term_to_run(display.running)
           e    == [TickMapping(display) EXCEPT !.running = next]
           text == printf(<<BarMark, PercentD, Newline>>, next)
           said == <<BarMark>> \o Screens!Numeral(next, Decimal) \o <<Newline>>
<1>1. display \in Displays /\ next \in Term
  BY NextTerminal DEF IInv, Typed, Displays
<1>2. /\ e \in Displays /\ Follows(e) /\ e.running = next
      /\ e.viewing = display.viewing /\ e.memory = display.memory /\ e.cursor = display.cursor
  BY <1>1, TickDisplay
<1>3. display' = e \/ display' = puts(e, text)
  BY DEF Tick, launch_base_shell
<1>4. next \in Nat /\ Decimal \in Nat \ {0, 1}
  BY <1>1, DisplayAssumption, TextAssumption
<1>5. text \in Seq(Chars) /\ text = said
  <2> HIDE DEF next
  <2>1. Screens!Numeral(next, Decimal) = itoa(next, Decimal)
    BY <1>4, NumeralIsItoa
  <2> QED BY <1>4, <2>1, KernelTexts
<1> HIDE DEF e, text, next
<1>6. SameScreens(display, e)
  BY <1>2 DEF SameScreens, Own, Place
<1>7. CASE display' = e
  BY <1>2, <1>6, <1>7, SilentStep
<1>8. CASE display' = puts(e, text)
  <2> DEFINE f == puts(e, text)
  <2>1. e.ptr = next /\ e.mapped = Place(e, e.ptr)
    BY <1>2 DEF Follows
  <2>2. OnlyWrites(e, f, next, Screen(f))
        /\ Abstract(Screen(f)) = Screens!Written(Abstract(Own(e, next)), text)
    BY <1>2, <1>5, <2>1, PutsOnly
  <2> HIDE DEF f
  <2>3. Own(e, next) = Own(display, next)
    BY <1>1, <1>6 DEF SameScreens
  <2>4. OnlyWrites(display, f, next, Screen(f))
    BY <1>2, <1>6, <2>2 DEF OnlyWrites, SameScreens
  <2>5. display' = f
    BY <1>8 DEF f
  <2>6. Screens!Say(next, text)
    BY <1>1, <2>2, <2>3, <2>4, <2>5, SayStep
  <2>7. \E t \in Term : Screens!Say(t, <<BarMark>> \o Screens!Numeral(t, Decimal) \o <<Newline>>)
    BY <1>1, <1>5, <2>6
  <2> QED BY <2>7 DEF Screens!Next, Screens!Output
<1> QED
  BY <1>3, <1>7, <1>8

\* Every step is one of the screens.
LEMMA StepScreens ==
  ASSUME IInv, [Next]_vars
  PROVE  [Screens!Next]_(Screens!vars)
<1>1. CASE KeyboardStep
  BY <1>1, KeyboardScreens
<1>2. ASSUME NEW w \in Writes, terminal_write(w) PROVE Screens!Next
  <2>1. Screens!Say(display.running, w) /\ display.running \in Term
    BY <1>2, WritesText, PrintScreens
  <2> QED BY <2>1 DEF Screens!Next, Screens!Output
<1>3. CASE Refused
  <2>1. Screens!Say(display.running, Message) /\ display.running \in Term
    BY <1>3, KernelTexts, PrintScreens DEF Refused
  <2> QED BY <2>1 DEF Screens!Next, Screens!Output
<1>4. CASE syscall_execute
  <2>1. display' = display
    BY <1>4 DEF syscall_execute
  <2>2. SameScreens(display, display') /\ display'.viewing = display.viewing
    BY <2>1 DEF SameScreens
  <2> QED BY <2>2, SilentStep
<1>5. CASE syscall_vidmap
  BY <1>5, VidmapScreens
<1>6. CASE Draw
  <2>1. Screens!Draw(display.running) /\ display.running \in Term
    BY <1>6, DrawScreens
  <2> QED BY <2>1 DEF Screens!Next
<1>7. CASE syscall_halt
  BY <1>7, HaltStep
<1>8. CASE EXCP
  <2>1. Screens!Say(display.running, Message) /\ display.running \in Term
    BY <1>8, ExceptionStep
  <2> QED BY <2>1 DEF Screens!Next, Screens!Output
<1>9. ASSUME NEW a \in Addresses, EXCP_page_fault(a) PROVE Screens!Next
  <2>1. Screens!Say(display.running, Screens!Numeral(a, Hexadecimal) \o <<Newline>> \o Message)
        /\ display.running \in Term
    BY <1>9, FaultStep
  <2> QED BY <2>1 DEF Screens!Next, Screens!Output
<1>10. CASE Tick
  BY <1>10, TickScreens
<1>11. CASE UNCHANGED vars
  <2>1. display' = display
    BY <1>11 DEF vars
  <2>2. SameScreens(display, display') /\ display'.viewing = display.viewing
    BY <2>1 DEF SameScreens
  <2> QED BY <2>2, SilentStep
<1> QED
  BY <1>1, <1>2, <1>3, <1>4, <1>5, <1>6, <1>7, <1>8, <1>9, <1>10, <1>11 DEF Next

\* All cursors begin in the corner.
LEMMA InitScreens == Init => Screens!Init
<1> SUFFICES ASSUME Init PROVE Screens!Init
  OBVIOUS
<1>1. display.cursor = [t \in Term |-> [x |-> 0, y |-> 0]] /\ display.viewing = 0
  BY DEF Init, InitialDisplay
<1>2. Position([x |-> 0, y |-> 0]) = 0
  BY Sizes DEF Position
<1>3. \A t \in Term : Position(display.cursor[t]) = 0
  BY <1>1, <1>2
<1> QED
  BY <1>1, <1>3 DEF Screens!Init

\* Whatever is switched, typed, started, halted and drawn between any ticks, every
\* terminal has a screen of its own: each character of a program, of the kernel or
\* of the keyboard goes to the next cell of the terminal it belongs to, and to no
\* other (nb_putc, puts, printf, clear, switch_terminal, schedule, syscall_vidmap).
THEOREM ScreensImplemented == Spec => OwnScreens
<1>1. IInv /\ [Next]_vars => [Screens!Next]_(Screens!vars)
  BY StepScreens
<1> QED
  BY <1>1, InitScreens, Invariance, PTL DEF Spec, OwnScreens, Screens!Spec
=============================================================================
