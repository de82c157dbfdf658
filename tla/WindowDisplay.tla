---------------------------- MODULE WindowDisplay ----------------------------
(***************************************************************************)
(* The graphical display of mp3_Final: three terminals in three windows     *)
(* that overlap, the text a program or the keyboard puts into them, the     *)
(* pointer, the icons, and the pages through which kernel and programs      *)
(* reach the screen (lib.c, VGA_image.c, VGA_font.c, terminal.c, paging.c). *)
(*                                                                          *)
(* Every terminal has a buffer, an image as large as the screen.  Text goes *)
(* to the buffer always, and to the screen where its window is not covered. *)
(* screen_x_ptr and screen_y_ptr point to the cursor of some terminal,      *)
(* `ptr', which the tick and the keyboard change: it need not be the        *)
(* terminal whose window is drawn into.  Handlers and system calls run with *)
(* interrupts off, so each is one step.                                     *)
(*                                                                          *)
(* The frame_buffer of the kernel is one 4MB page, mapped to the screen or   *)
(* to a buffer just before each use.  The same calls map `fish', the page   *)
(* that a program gets from vidmap.                                         *)
(***************************************************************************)
EXTENDS VGAScreen, Sequences

CONSTANTS Letters,       \* what is typed and printed
          FishTerms,     \* terminals whose programs call vidmap
          Moves,         \* movements of the mouse
          MaxSteps         \* bound on what programs, keys and mouse do

NL == "\n"
BS == "BS"          \* '\b'

ASSUME DisplayAssumption ==
    /\ FishTerms \subseteq Tids /\ MaxSteps \in Nat /\ BS \notin Letters
    /\ Moves \subseteq Int \X Int
    /\ PointerInk \notin Letters \cup {Black, TitleInk}

VARIABLES order,         \* of the icon file: read at boot only
          screen,        \* the video memory
          buffer,        \* term_arr[t].vid_mem_buffer
          cursor,        \* term_arr[t].cursor_x and cursor_y
          ptr,           \* the terminal that screen_x_ptr and screen_y_ptr point into
          viewing, running,
          layer,         \* windows[w].layer
          cover, cover2, \* windows[w].window_buf_... and window_buf2_...
          typed,         \* term_arr[t].buf_pos
          fish,          \* entry FISH_VIRTUAL of the page directory
          vidmap_flag,   \* term_arr[t].vidmap_flag, and that of its program
          mouse,         \* mouse_x and mouse_y
          mouse_bg,      \* the pixels under the pointer
          alive,         \* terminals whose base shell has been launched
          steps            \* what programs, keys and mouse have done, to bound it

display == <<screen, buffer, cursor, fish>>
layers == <<layer, cover, cover2>>
pointer == <<mouse, mouse_bg>>
vars == <<order, display, ptr, viewing, running, layers, typed, vidmap_flag,
          pointer, alive, steps>>

TOP == 0
MIDDLE == 1
BOTTOM == 2
Video == 3          \* the page that is the screen; 0 .. 2 are the buffers
NoPage == 4

Up == order = "drawn"

----------------------------------------------------------------------------
(* Pages.                                                                   *)

\* The entries of the page directory that init_page_dir maps to themselves; the
\* others are not present, FISH_VIRTUAL among them.
IdentityMapped == {"low", "kernel", "VBE", "TERM_1", "TERM_2", "TERM_3", "ICON"}
FishEntry(present, page) == [present |-> present, page |-> IF present THEN page ELSE NoPage]
InitialFish == FishEntry("FISH" \in IdentityMapped, NoPage)

MapPage(d, page, t) ==
    [d EXCEPT !.fish = FishEntry(vidmap_flag[t], page)]
switchpagingtobuffer(d, t) == MapPage(d, t, t)
switchpagingtovideomem(d, t) == MapPage(d, Video, t)
change_vidmem_mapping(d, t) == MapPage(d, IF t # viewing THEN t ELSE Video, t)

----------------------------------------------------------------------------
(* Text.  d is the display: the images, the cursor that is written through   *)
(* screen_x_ptr and screen_y_ptr, and the mapping.                           *)

Display(t) == [screen |-> screen, buffer |-> buffer, x |-> cursor[t][1],
               y |-> cursor[t][2], fish |-> fish]

SetDisplay(d, t) ==
    /\ screen' = d.screen /\ buffer' = d.buffer /\ fish' = d.fish
    /\ cursor' = [cursor EXCEPT ![t] = <<d.x, d.y>>]

check_pixel_in_screen(x, y) == x \in 0 .. X_RES - 1 /\ y \in 0 .. Y_RES - 1
check_pixel_in_middle_window(w, x, y) == ~Within(cover[w], x, y)
check_pixel_in_bottom_window(w, x, y) == ~Within(cover[w], x, y) /\ ~Within(cover2[w], x, y)

Shown(w, x, y) ==
    CASE layer[w] = TOP -> TRUE
      [] layer[w] = MIDDLE -> check_pixel_in_middle_window(w, x, y)
      [] layer[w] = BOTTOM -> check_pixel_in_bottom_window(w, x, y)

OneCorner(w, x, y) == layer[w] = TOP \/ Shown(w, x, y)                       \* mutant
\* Two corners of the glyph decide whether it is drawn on the screen.
print_screen_or_buf(w, x, y) ==
    LET x1 == x + GlyphWidth - 1
        y1 == y + GlyphHeight - 1
    IN  IF layer[w] = TOP THEN check_pixel_in_screen(x1 + WindowX[w], y1 + WindowY[w])
        ELSE Shown(w, x, y) /\ Shown(w, x1, y1)

VGA_putc(d, w, c, x, y) ==
    LET b == [switchpagingtobuffer(d, w) EXCEPT !.buffer[w] = Paint(@, x, y, c)]
    IN  IF print_screen_or_buf(w, x - WindowX[w], y - WindowY[w])
        THEN [switchpagingtovideomem(b, w) EXCEPT !.screen = Paint(@, x, y, c)]
        ELSE b

ScrollsBuffer(d, w) ==                                                       \* mutant
    [switchpagingtovideomem(d, w) EXCEPT !.buffer[w] = ScrolledUp(@, w)]
VGA_windowscrolluponeline(d, w) ==
    LET b == [d EXCEPT !.buffer[w] = ScrolledUp(@, w)]
        shown == {p \in InWindow(w) : Shown(w, RelX(w, p), RelY(w, p))}
    IN  [switchpagingtovideomem(b, w) EXCEPT !.screen = CopyPixels(@, b.buffer[w], shown)]

LineStart(w) == WindowX[w] + TEXT_OFF_X
FirstLine(w) == WindowY[w] + TEXT_OFF_Y

ScrollIfFull(d, w) ==
    IF d.y + GlyphHeight < WindowY[w] + WINDOW_HEIGHT THEN d
    ELSE [VGA_windowscrolluponeline(d, w) EXCEPT
            !.y = d.y - GlyphHeight, !.x = LineStart(w)]

PutNewline(d, w) == ScrollIfFull([d EXCEPT !.y = @ + GlyphHeight, !.x = LineStart(w)], w)

\* A line that is full goes on half a glyph below.
PutChar(d, w, c) ==
    LET e == VGA_putc(d, w, c, d.x, d.y)
        full == d.x + 2 * GlyphWidth >= WindowX[w] + WINDOW_WIDTH
    IN  ScrollIfFull([e EXCEPT !.x = IF full THEN LineStart(w) ELSE d.x + GlyphWidth,
                               !.y = IF full THEN @ + GlyphHeight \div 2 ELSE @], w)

PutBackspace(d, w) ==
    LET atStart == d.x = LineStart(w)
        x == IF atStart THEN WindowX[w] + WINDOW_WIDTH ELSE d.x
        y == IF atStart THEN d.y - GlyphHeight ELSE d.y
    IN  IF atStart /\ d.y = FirstLine(w) THEN d
        ELSE [VGA_putc(d, w, Black, x - GlyphWidth, y) EXCEPT !.x = x - GlyphWidth, !.y = y]

Put(d, w, c) ==
    CASE c = NL -> PutNewline(d, w)
      [] c = BS -> PutBackspace(d, w)
      [] OTHER -> PutChar(d, w, c)

nb_putc(d, c) == Put(d, running, c)
kbd_putc(d, c) == Put(d, viewing, c)

----------------------------------------------------------------------------
(* The pointer.                                                             *)

PointerBox(m) == Box(m[1], m[2], PointerWidth, PointerHeight)
VGA_saveMouseBG(img, m) == [p \in PointerBox(m) |-> img[p]]
VGA_putmouseBG(img) == CopyPixels(img, mouse_bg, PointerBox(mouse))
VGA_drawMouse(img, m) ==
    VGA_drawRect(img, m[1], m[2], PointerWidth, PointerHeight, PointerInk)

check_mouse_in_which_terminal(m) ==
    {t \in Tids : /\ m[1] \in IconX[t] .. IconX[t] + ICON_WIDTH - 1
                  /\ m[2] \in IconY[t] .. IconY[t] + ICON_HEIGHT - 1}

----------------------------------------------------------------------------
(* Layers.                                                                  *)

get_window_id(ls, l) == CHOOSE w \in Tids : ls[w] = l

\* The second part is covered by the top window, for the lowest window only.
set_window_buf_boundary(ls, w) ==
    CASE ls[w] = TOP -> NoOverlap
      [] ls[w] = MIDDLE -> Overlap(get_window_id(ls, TOP), w)
      [] ls[w] = BOTTOM -> Overlap(get_window_id(ls, MIDDLE), w)
NoSecond(ls, w) == NoOverlap                                                 \* mutant
set_second_boundary(ls, w) ==
    IF ls[w] = BOTTOM THEN Overlap(get_window_id(ls, TOP), w) ELSE NoOverlap

SetLayers(ls) ==
    /\ layer' = ls
    /\ cover' = [w \in Tids |-> set_window_buf_boundary(ls, w)]
    /\ cover2' = [w \in Tids |-> set_second_boundary(ls, w)]

Raised(t) ==
    [w \in Tids |-> IF w = t THEN TOP ELSE IF w = viewing THEN MIDDLE ELSE BOTTOM]

\* The window of a terminal, as its buffer has it.
Redrawn(img, t) == CopyPixels(img, buffer[t], InWindow(t))

----------------------------------------------------------------------------
Desktop == [p \in Pixels |-> Desk]
InitialLayers == [w \in Tids |-> w]

Init ==
    /\ order \in Orders
    /\ screen = Desktop
    /\ buffer = [t \in Tids |-> [p \in Pixels |-> Black]]
    /\ cursor = [t \in Tids |-> <<LineStart(t), FirstLine(t)>>]
    /\ ptr = 0 /\ viewing = 0 /\ running = 0
    /\ layer = InitialLayers
    /\ cover = [w \in Tids |-> set_window_buf_boundary(InitialLayers, w)]
    /\ cover2 = [w \in Tids |-> set_second_boundary(InitialLayers, w)]
    /\ typed = [t \in Tids |-> 0]
    /\ fish = InitialFish
    /\ vidmap_flag = [t \in Tids |-> FALSE]
    /\ mouse = <<0, 0>> /\ mouse_bg = [p \in PointerBox(<<0, 0>>) |-> Desk]
    /\ alive = {}
    /\ steps = 0

\* The desktop with its icons, the windows from the lowest number to the highest,
\* the pointer, and window 0 on top of all.
GUI_init ==
    /\ ~Up
    /\ \E icons \in {VGA_drawIcon(VGA_drawIcon(VGA_drawIcon(screen,
                        order, IconX[0], IconY[0]), order, IconX[1], IconY[1]),
                        order, IconX[2], IconY[2])} :
       \E windows \in {VGA_drawWindows(VGA_drawWindows(VGA_drawWindows(icons, 0), 1), 2)} :
         /\ buffer' = [t \in Tids |-> VGA_drawWindows(buffer[t], t)]
         /\ mouse_bg' = VGA_saveMouseBG(windows, mouse)
         /\ screen' = CopyPixels(VGA_drawMouse(windows, mouse), buffer'[0], InWindow(0))
    /\ order' = "drawn"
    /\ UNCHANGED <<cursor, ptr, viewing, running, layers, typed, fish, vidmap_flag,
                   mouse, alive, steps>>

----------------------------------------------------------------------------
(* Ticks and programs.                                                      *)

\* The cursor changes hands, the mapping does not.
pit_int_handler ==
    /\ Up
    /\ LET next == (running + 1) % 3
       IN  ptr' = next /\ running' = next /\ alive' = alive \cup {next}
    /\ UNCHANGED <<order, display, viewing, layers, typed, vidmap_flag, pointer, steps>>

\* A program writes one character.
terminal_write(c) ==
    /\ Up /\ running \in alive /\ steps < MaxSteps
    /\ \E d \in {nb_putc(Display(ptr), c)} : SetDisplay(d, ptr)
    /\ steps' = steps + 1
    /\ UNCHANGED <<order, ptr, viewing, running, layers, typed, vidmap_flag, pointer, alive>>

syscall_vidmap ==
    /\ Up /\ running \in alive \cap FishTerms /\ ~vidmap_flag[running] /\ steps < MaxSteps
    /\ fish' = FishEntry(TRUE, IF running # viewing THEN running ELSE Video)
    /\ vidmap_flag' = [vidmap_flag EXCEPT ![running] = TRUE]
    /\ steps' = steps + 1
    /\ UNCHANGED <<order, screen, buffer, cursor, ptr, viewing, running, layers, typed,
                   pointer, alive>>

\* The program that has called vidmap ends, by itself or by a page fault.
EndFish ==
    /\ Up /\ vidmap_flag[running]
    /\ vidmap_flag' = [vidmap_flag EXCEPT ![running] = FALSE]
    /\ fish' = InitialFish
    /\ UNCHANGED <<order, screen, buffer, cursor, ptr, viewing, running, layers, typed,
                   pointer, alive, steps>>

----------------------------------------------------------------------------
(* Keys.                                                                    *)

\* A letter or Enter: echoed in the window that is viewed, at its cursor.  The
\* line stays shorter than the keyboard buffer (LineInput has longer ones).
Echo(c) ==
    /\ Up /\ steps < MaxSteps
    /\ \E d \in {kbd_putc(Display(viewing), c)} : SetDisplay(d, viewing)
    /\ ptr' = running
    /\ typed' = [typed EXCEPT ![viewing] = IF c = NL THEN 0 ELSE @ + 1]
    /\ steps' = steps + 1
    /\ UNCHANGED <<order, viewing, running, layers, vidmap_flag, pointer, alive>>

\* Backspace: the cursor of the terminal that is viewed, and nb_putc, which
\* draws for the one that runs.
Backspace ==
    /\ Up /\ typed[viewing] > 0 /\ steps < MaxSteps
    /\ \E d \in {nb_putc(switchpagingtovideomem(Display(viewing), 0), BS)} :
         SetDisplay(d, viewing)
    /\ ptr' = running
    /\ typed' = [typed EXCEPT ![viewing] = @ - 1]
    /\ steps' = steps + 1
    /\ UNCHANGED <<order, viewing, running, layers, vidmap_flag, pointer, alive>>

\* Ctrl+L: the window of the terminal that runs becomes black on the screen, and
\* the cursor of the one that is viewed goes there.
clear ==
    /\ Up /\ steps < MaxSteps
    /\ \E d \in {change_vidmem_mapping(change_vidmem_mapping(Display(viewing), viewing), running)} :
         SetDisplay([d EXCEPT
             !.screen = VGA_drawRect(@, WindowX[running], WindowY[running] + WINDOW_TITLE_HEIGHT,
                            WINDOW_WIDTH, WINDOW_HEIGHT - WINDOW_TITLE_HEIGHT, Black),
             !.x = LineStart(running), !.y = FirstLine(running)], viewing)
    /\ ptr' = running
    /\ steps' = steps + 1
    /\ UNCHANGED <<order, viewing, running, layers, typed, vidmap_flag, pointer, alive>>

\* The terminal whose window is on top, and for a while the cursor in use.
ViewTerminal(t) ==
    /\ viewing' = t
    /\ IF t = viewing THEN UNCHANGED <<ptr, layers>>
       ELSE ptr' = t /\ SetLayers(Raised(t))

switch_terminal(t) ==
    /\ Up /\ steps < MaxSteps
    /\ screen' = Redrawn(screen, t)
    /\ ViewTerminal(t)
    /\ fish' = FishEntry(vidmap_flag[t], Video)
    /\ steps' = steps + 1
    /\ UNCHANGED <<order, buffer, cursor, running, typed, vidmap_flag, pointer, alive>>

----------------------------------------------------------------------------
(* The mouse.                                                               *)

ClampedRight(m) ==                                                           \* mutant
    <<Smaller(m[1], X_RES - PointerWidth),
      Smaller(Larger(m[2], 0), Y_RES - PointerHeight)>>
Clamped(m) ==
    <<Smaller(Larger(m[1], 0), X_RES - PointerWidth),
      Smaller(Larger(m[2], 0), Y_RES - PointerHeight)>>

\* The pointer on a screen that is without it.
SetPointer(img, m) == mouse_bg' = VGA_saveMouseBG(img, m) /\ screen' = VGA_drawMouse(img, m)

\* A packet: the pointer moves, what was under it comes back and what it covers
\* now is kept.  If the left button is down on an icon, its terminal is shown
\* between taking the pointer away and drawing it again.
mouse_int_handler(move, btn_left) ==
    /\ Up /\ steps < MaxSteps
    /\ \E m \in {Clamped(<<mouse[1] + move[1], mouse[2] - move[2]>>)} :
       \E chosen \in {IF btn_left THEN check_mouse_in_which_terminal(m) ELSE {}} :
       \E bare \in {VGA_putmouseBG(screen)} :
         /\ m # mouse \/ chosen # {}
         /\ mouse' = m
         /\ IF chosen = {} THEN
               /\ SetPointer(bare, m)
               /\ UNCHANGED <<ptr, viewing, layers>>
            ELSE \E t \in chosen :
               /\ SetPointer(Redrawn(bare, t), m)
               /\ ViewTerminal(t)
    /\ fish' = FishEntry(vidmap_flag[0], Video)
    /\ steps' = steps + 1
    /\ UNCHANGED <<order, buffer, cursor, running, typed, vidmap_flag, alive>>

----------------------------------------------------------------------------
Next ==
    \/ GUI_init \/ pit_int_handler
    \/ \E c \in Letters \cup {NL} : terminal_write(c) \/ Echo(c)
    \/ syscall_vidmap \/ EndFish
    \/ Backspace \/ clear
    \/ \E t \in Tids : switch_terminal(t)
    \/ \E m \in Moves, left \in BOOLEAN : mouse_int_handler(m, left)

Spec == Init /\ [][Next]_vars

----------------------------------------------------------------------------
(* Properties.                                                              *)

\* Type invariant: what the variables of the display may hold.
TypeOK ==
    /\ order \in Orders \cup {"drawn"}
    /\ DOMAIN screen = Pixels /\ \A t \in Tids : DOMAIN buffer[t] = Pixels
    /\ cursor \in [Tids -> Int \X Int]
    /\ {ptr, viewing, running} \subseteq Tids /\ alive \subseteq Tids
    /\ layer \in [Tids -> {TOP, MIDDLE, BOTTOM}]
    /\ typed \in [Tids -> 0 .. MaxSteps] /\ steps \in 0 .. MaxSteps
    /\ fish.page \in Tids \cup {Video, NoPage}
    /\ vidmap_flag \in [Tids -> BOOLEAN]
    /\ mouse[1] \in 0 .. X_RES - PointerWidth /\ mouse[2] \in 0 .. Y_RES - PointerHeight
    /\ DOMAIN mouse_bg = PointerBox(mouse)

\* The window that is on top at a pixel.
OnTop(w, p) ==
    p \in InWindow(w) /\ \A v \in Tids : p \in InWindow(v) => layer[w] <= layer[v]

\* The two rectangles that switch_terminal keeps for each window describe exactly
\* the part of it that the windows above leave free, after any sequence of
\* switches by key and by mouse (terminal.c:200-213, VGA_image.c:233-305).
CoverageExact ==
    /\ layer[viewing] = TOP
    /\ \A w \in Tids : \A p \in InWindow(w) : Shown(w, RelX(w, p), RelY(w, p)) <=> OnTop(w, p)

\* The cursor of a terminal is in its window, with room for a glyph.
CursorInside(t) ==
    /\ cursor[t][1] \in WindowX[t] .. WindowX[t] + WINDOW_WIDTH - GlyphWidth
    /\ cursor[t][2] \in WindowY[t] .. WindowY[t] + WINDOW_HEIGHT - GlyphHeight

Prints ==
    /\ steps' # steps /\ typed' = typed /\ mouse' = mouse
    /\ \E c \in Letters \cup {NL} : terminal_write(c)

\* A program that prints with its own cursor changes the screen only where its
\* own window is on top, also when a glyph is half covered and when its window
\* scrolls: the test of two corners in print_screen_or_buf is enough.
NoOverdraw ==
    [][ptr = running /\ CursorInside(running) /\ Prints =>
        \A p \in Pixels : screen'[p] # screen[p] => OnTop(running, p)]_vars

\* What the window of a terminal shows, the pointer taken away.
Uncovered == [p \in Pixels |-> IF p \in PointerBox(mouse) THEN mouse_bg[p] ELSE screen[p]]
ShowsBuffer(t) == \A p \in InWindow(t) : Uncovered[p] = buffer[t][p]

OffScreen(c) == ~check_pixel_in_screen(c[1] + GlyphWidth - 1, c[2] + GlyphHeight - 1)

\* The five ways in which the code draws for one window at the place of another,
\* or in a buffer only, where a Backspace of the first kind has left the cursor
\* outside the screen, or over the pointer, which then has the wrong pixels to
\* put back.
Misplaced ==
    \/ running # viewing /\ typed'[viewing] < typed[viewing] /\ Backspace
    \/ (ptr # running \/ ~CursorInside(ptr)) /\ Prints
    \/ steps' # steps /\ typed' = typed /\ clear
    \/ typed' # typed /\ (OffScreen(cursor[viewing]) \/ OffScreen(cursor'[viewing]))
    \/ mouse' = mouse /\ \E p \in PointerBox(mouse) \cap InWindow(viewing') : screen'[p] # PointerInk

\* The window in front shows what is in its terminal's buffer, so that going to
\* another terminal and back loses nothing (VGA_font.c:574: every terminal keeps
\* a copy of its text in its buffer): no key, tick, print, mouse packet or switch
\* ends this but the five Misplaced ones.
FrontShowsBuffer ==
    [][Up /\ ShowsBuffer(viewing) /\ ~Misplaced => ShowsBuffer(viewing)']_vars

\* GUI_init draws the icons upright at the places where a click finds them,
\* whichever way the picture file orders its pixels; only windows and the
\* pointer cover them.
IconsUpright ==
    [][~Up /\ Up' => \A t \in Tids, i \in 0 .. ICON_WIDTH - 1, j \in 0 .. ICON_HEIGHT - 1 :
        LET p == At(IconX[t] + i, IconY[t] + j)
        IN  \/ \E w \in Tids : p \in InWindow(w)
            \/ p \in PointerBox(mouse)
            \/ screen'[p] = <<i, j>> /\ check_mouse_in_which_terminal(<<IconX[t] + i, IconY[t] + j>>) = {t}
      ]_vars

\* A program whose terminal is not viewed draws into its terminal's buffer
\* (terminal.h:20-22).
HiddenDrawsIntoBuffer ==
    running # viewing /\ vidmap_flag[running] /\ fish.present => fish.page = running
=============================================================================
