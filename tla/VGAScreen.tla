------------------------------ MODULE VGAScreen ------------------------------
(***************************************************************************)
(* The drawing operations of mp3_Final (VGA_image.c, VGA_font.c) on one     *)
(* image: the frame buffer of the screen or the buffer of a terminal, all   *)
(* of X_RES x Y_RES pixels and indexed the same way.                        *)
(*                                                                          *)
(* A pixel's colour is what it belongs to: a letter (its whole glyph is one *)
(* colour), a title bar, the desktop, a pixel of the icon's picture, the    *)
(* pointer, or the black of an empty window.  The sizes are constants that  *)
(* keep the relations of the code's: a glyph is twice as high as the line   *)
(* feed of a wrapped line, and windows overlap in part of a glyph.          *)
(***************************************************************************)
EXTENDS Integers, FiniteSets

CONSTANTS X_RES, Y_RES,
          GlyphWidth, GlyphHeight,              \* 8 and 16 pixels
          WINDOW_WIDTH, WINDOW_HEIGHT, WINDOW_TITLE_HEIGHT,
          TEXT_OFF_X, TEXT_OFF_Y,               \* where the text of a window begins
          WindowX, WindowY,                     \* corner of each terminal's window
          IconX, IconY, ICON_WIDTH, ICON_HEIGHT,
          PointerWidth, PointerHeight,
          Black, TitleInk, Desk, PointerInk

Tids == 0 .. 2

ASSUME GeometryAssumption ==
    /\ {X_RES, Y_RES, GlyphWidth, GlyphHeight, WINDOW_WIDTH, WINDOW_HEIGHT,
        ICON_WIDTH, ICON_HEIGHT, PointerWidth, PointerHeight} \subseteq Nat \ {0}
    /\ {WINDOW_TITLE_HEIGHT, TEXT_OFF_X, TEXT_OFF_Y} \subseteq Nat
    /\ PointerWidth <= X_RES /\ PointerHeight <= Y_RES
    /\ GlyphHeight % 2 = 0
    /\ WINDOW_TITLE_HEIGHT <= TEXT_OFF_Y /\ WINDOW_TITLE_HEIGHT <= WINDOW_HEIGHT
    /\ \A t \in Tids :
        /\ WindowX[t] \in 0 .. X_RES - WINDOW_WIDTH
        /\ WindowY[t] \in 0 .. Y_RES - WINDOW_HEIGHT
        /\ \A v \in Tids : v < t => WindowX[v] <= WindowX[t] /\ WindowY[v] <= WindowY[t]
        /\ IconX[t] \in 0 .. X_RES - ICON_WIDTH /\ IconY[t] \in 0 .. Y_RES - ICON_HEIGHT
        /\ \A v \in Tids : v < t => \/ IconX[v] + ICON_WIDTH <= IconX[t]
                                   \/ IconY[v] + ICON_HEIGHT <= IconY[t]

----------------------------------------------------------------------------
(* Pixels.  A pixel is its index in the frame buffer, row after row: what is *)
(* drawn beyond the right edge comes out in the next row, and what is drawn  *)
(* before the first or after the last pixel is not on the screen.            *)

Pixels == 0 .. X_RES * Y_RES - 1
At(x, y) == y * X_RES + x
InBox(p, first, w, h) ==
    p >= first /\ (p - first) % X_RES < w /\ (p - first) \div X_RES < h
Box(x, y, w, h) == {At(i, j) : i \in x .. x + w - 1, j \in y .. y + h - 1}

VGA_drawRect(img, x, y, w, h, c) ==
    [p \in Pixels |-> IF InBox(p, At(x, y), w, h) THEN c ELSE img[p]]

\* The pixels of one image in a set, in the place of another's.
CopyPixels(img, from, ps) == [p \in Pixels |-> IF p \in ps THEN from[p] ELSE img[p]]

\* A glyph, on either image (VGA_putc and VGA_kbdputc paint it twice).
Paint(img, x, y, c) == VGA_drawRect(img, x, y, GlyphWidth, GlyphHeight, c)

----------------------------------------------------------------------------
(* Windows.  Rows and columns of a window are relative to its corner.       *)

Windows == [w \in Tids |-> Box(WindowX[w], WindowY[w], WINDOW_WIDTH, WINDOW_HEIGHT)]
InWindow(w) == Windows[w]
RelX(w, p) == (p % X_RES) - WindowX[w]
RelY(w, p) == (p \div X_RES) - WindowY[w]

VGA_drawWindows(img, w) ==
    VGA_drawRect(VGA_drawRect(img, WindowX[w], WindowY[w], WINDOW_WIDTH, WINDOW_HEIGHT, Black),
                 WindowX[w], WindowY[w], WINDOW_WIDTH, WINDOW_TITLE_HEIGHT, TitleInk)

\* The part of a window that another one covers, as [start, end) of its rows
\* and columns.
NoOverlap == [x0 |-> -1, x1 |-> -1, y0 |-> -1, y1 |-> -1]
Smaller(m, n) == IF m <= n THEN m ELSE n
Larger(m, n) == IF m >= n THEN m ELSE n

Apart(v, w) ==
    \/ WindowX[v] + WINDOW_WIDTH <= WindowX[w] \/ WindowX[v] >= WindowX[w] + WINDOW_WIDTH
    \/ WindowY[v] + WINDOW_HEIGHT <= WindowY[w] \/ WindowY[v] >= WindowY[w] + WINDOW_HEIGHT

Overlap(v, w) ==
    LET dx == WindowX[v] - WindowX[w]
        dy == WindowY[v] - WindowY[w]
    IN  IF Apart(v, w) THEN NoOverlap
        ELSE [x0 |-> Larger(dx, 0), x1 |-> Smaller(dx + WINDOW_WIDTH, WINDOW_WIDTH),
              y0 |-> Larger(dy, 0), y1 |-> Smaller(dy + WINDOW_HEIGHT, WINDOW_HEIGHT)]

Within(b, x, y) == x >= b.x0 /\ x < b.x1 /\ y >= b.y0 /\ y < b.y1

\* One line up, in the text of a window; its last line becomes empty.
ScrolledUp(img, w) ==
    [p \in Pixels |->
        IF p \notin InWindow(w) \/ RelY(w, p) < TEXT_OFF_Y THEN img[p]
        ELSE IF RelY(w, p) >= WINDOW_HEIGHT - GlyphHeight THEN Black
        ELSE img[p + GlyphHeight * X_RES]]

----------------------------------------------------------------------------
(* Pictures.  A .tga file keeps its pixels in one of four orders, and the   *)
(* icon is drawn by walking the frame in the file's order.                  *)

Orders == {"top left", "top right", "bottom left", "bottom right"}  \* of the first pixel
left_to_right(order) == order \in {"top left", "bottom left"}
top_to_bottom(order) == order \in {"top left", "top right"}

\* The pixel of the upright picture that the file holds at row j, column i.
Stored(order, i, j) ==
    <<IF left_to_right(order) THEN i ELSE ICON_WIDTH - 1 - i,
      IF top_to_bottom(order) THEN j ELSE ICON_HEIGHT - 1 - j>>

FrameStart(order, x, y) ==
    At(IF left_to_right(order) THEN x ELSE x + ICON_WIDTH - 1,
       IF top_to_bottom(order) THEN y ELSE y + ICON_HEIGHT - 1)

\* What a row adds to the position, walked pixel by pixel, and then the step to
\* the next row.
AlongRow(order) == IF left_to_right(order) THEN 1 ELSE -1
NextRowStay(order) == IF top_to_bottom(order) THEN X_RES ELSE -X_RES          \* mutant
NextRow(order) ==
    (IF top_to_bottom(order) THEN X_RES ELSE -X_RES)
        + (IF left_to_right(order) THEN -ICON_WIDTH ELSE ICON_WIDTH)

FramePos(order, x, y, i, j) ==
    FrameStart(order, x, y) + j * (ICON_WIDTH * AlongRow(order) + NextRow(order))
        + i * AlongRow(order)

VGA_drawIcon(img, order, x, y) ==
    [p \in Pixels |->
        IF \E i \in 0 .. ICON_WIDTH - 1, j \in 0 .. ICON_HEIGHT - 1 :
               FramePos(order, x, y, i, j) = p
        THEN LET ij == CHOOSE ij \in (0 .. ICON_WIDTH - 1) \X (0 .. ICON_HEIGHT - 1) :
                           FramePos(order, x, y, ij[1], ij[2]) = p
             IN  Stored(order, ij[1], ij[2])
        ELSE img[p]]
=============================================================================
