------------------------- MODULE WindowDisplayProofs -------------------------
(***************************************************************************)
(* The windows of WindowDisplay, for any sizes of screen, windows, glyphs,  *)
(* icons and pointer and any places of the windows and icons on the screen: *)
(* what of a window is free, what prints and keys draw, what the window in  *)
(* front shows, and the icons.                                              *)
(***************************************************************************)
EXTENDS WindowDisplay, NumberLemmas, TLAPS

----------------------------------------------------------------------------
(* Pixels, columns and rows.                                                *)

Columns == 0 .. X_RES - 1
Lines == 0 .. Y_RES - 1
Col(p) == p % X_RES
Line(p) == p \div X_RES

\* The pixel of a column and a line is in that column and that line.
LEMMA AtPixel ==
    ASSUME NEW i \in Columns, NEW j \in Lines
    PROVE  At(i, j) \in Pixels /\ Col(At(i, j)) = i /\ Line(At(i, j)) = j
  <1> USE GeometryAssumption
  <1>1. i \in Nat /\ j \in Nat /\ i < X_RES /\ j < Y_RES /\ X_RES \in Nat \ {0} /\ Y_RES \in Nat \ {0}
    BY DEF Columns, Lines
  <1>2. X_RES * j + X_RES <= X_RES * Y_RES /\ X_RES * j \in Nat /\ X_RES * Y_RES \in Nat
    BY <1>1, Multiples
  <1>3. At(i, j) \in Pixels
    BY <1>1, <1>2 DEF At, Pixels
  <1> QED  BY <1>1, <1>3, Division DEF At, Col, Line

\* Every pixel of an image is the one of its column and its line.
LEMMA PixelAt ==
    ASSUME NEW p \in Pixels
    PROVE  Col(p) \in Columns /\ Line(p) \in Lines /\ p = At(Col(p), Line(p))
  <1> USE GeometryAssumption
  <1>1. X_RES \in Nat \ {0} /\ Y_RES \in Nat \ {0} /\ p \in Nat /\ X_RES * Y_RES \in Nat /\ p < X_RES * Y_RES
    BY DEF Pixels
  <1>2. p = X_RES * Line(p) + Col(p) /\ Line(p) \in Nat /\ Col(p) \in 0 .. X_RES - 1
    BY <1>1, DivMod DEF Line, Col
  <1>3. Line(p) < Y_RES
    <2>1. ASSUME Y_RES <= Line(p) PROVE X_RES * Y_RES <= X_RES * Line(p)
      <3>1. CASE Y_RES = Line(p)
        BY <3>1, <1>1
      <3>2. CASE Y_RES < Line(p)
        BY <3>2, <1>1, <1>2, Multiples
      <3> QED  BY <2>1, <3>1, <3>2, <1>1, <1>2
    <2>2. X_RES * Line(p) \in Nat
      BY <1>1, <1>2
    <2> QED  BY <2>1, <2>2, <1>1, <1>2
  <1> QED  BY <1>1, <1>2, <1>3 DEF At, Columns, Lines

\* A window has the pixels in its columns and lines.
LEMMA WindowPixels ==
    ASSUME NEW w \in Tids
    PROVE  \A p : p \in InWindow(w) <=>
               /\ p \in Pixels
               /\ Col(p) \in WindowX[w] .. WindowX[w] + WINDOW_WIDTH - 1
               /\ Line(p) \in WindowY[w] .. WindowY[w] + WINDOW_HEIGHT - 1
  <1> DEFINE xs == WindowX[w] .. WindowX[w] + WINDOW_WIDTH - 1
             ys == WindowY[w] .. WindowY[w] + WINDOW_HEIGHT - 1
  <1>1. InWindow(w) = {At(i, j) : i \in xs, j \in ys}
    BY DEF InWindow, Windows, Box
  <1>2. xs \subseteq Columns /\ ys \subseteq Lines
    BY GeometryAssumption DEF Columns, Lines
  <1> HIDE DEF xs, ys
  <1>3. ASSUME NEW p \in InWindow(w) PROVE p \in Pixels /\ Col(p) \in xs /\ Line(p) \in ys
    <2>1. PICK i \in xs, j \in ys : p = At(i, j)
      BY <1>1
    <2> QED  BY <2>1, <1>2, AtPixel
  <1>4. ASSUME NEW p \in Pixels, Col(p) \in xs, Line(p) \in ys PROVE p \in InWindow(w)
    BY <1>1, <1>4, PixelAt
  <1> QED  BY <1>3, <1>4 DEF xs, ys

\* The numbers that the constants of the windows are.
LEMMA WindowSizes ==
    /\ WINDOW_WIDTH \in Nat \ {0} /\ WINDOW_HEIGHT \in Nat \ {0} /\ X_RES \in Nat \ {0}
    /\ \A w \in Tids : WindowX[w] \in Nat /\ WindowY[w] \in Nat
  BY GeometryAssumption

----------------------------------------------------------------------------
(* Coverage.                                                                *)

\* Of a window w, the rectangle Overlap(v, w) is what it has in common with v.
LEMMA OverlapCovers ==
    ASSUME NEW v \in Tids, NEW w \in Tids, NEW p \in InWindow(w)
    PROVE  Within(Overlap(v, w), RelX(w, p), RelY(w, p)) <=> p \in InWindow(v)
  <1>1. /\ p \in Pixels
        /\ Col(p) \in WindowX[w] .. WindowX[w] + WINDOW_WIDTH - 1
        /\ Line(p) \in WindowY[w] .. WindowY[w] + WINDOW_HEIGHT - 1
    BY WindowPixels
  <1>2. p \in InWindow(v) <=>
            /\ Col(p) \in WindowX[v] .. WindowX[v] + WINDOW_WIDTH - 1
            /\ Line(p) \in WindowY[v] .. WindowY[v] + WINDOW_HEIGHT - 1
    BY <1>1, WindowPixels
  <1>3. RelX(w, p) = Col(p) - WindowX[w] /\ RelY(w, p) = Line(p) - WindowY[w]
    BY DEF RelX, RelY, Col, Line
  <1> DEFINE x == Col(p)
             y == Line(p)
             xv == WindowX[v]
             yv == WindowY[v]
             xw == WindowX[w]
             yw == WindowY[w]
  <1>4. /\ x \in xw .. xw + WINDOW_WIDTH - 1 /\ y \in yw .. yw + WINDOW_HEIGHT - 1
        /\ xv \in Nat /\ yv \in Nat /\ xw \in Nat /\ yw \in Nat
        /\ WINDOW_WIDTH \in Nat \ {0} /\ WINDOW_HEIGHT \in Nat \ {0}
    BY <1>1, WindowSizes
  <1>5. CASE Apart(v, w)
    <2>1. ~Within(NoOverlap, x - xw, y - yw)
      BY <1>4 DEF Within, NoOverlap
    <2>2. \/ xv + WINDOW_WIDTH <= xw \/ xv >= xw + WINDOW_WIDTH
          \/ yv + WINDOW_HEIGHT <= yw \/ yv >= yw + WINDOW_HEIGHT
      BY <1>5 DEF Apart
    <2> HIDE DEF x, y, xv, yv, xw, yw
    <2>3. ~(x \in xv .. xv + WINDOW_WIDTH - 1 /\ y \in yv .. yv + WINDOW_HEIGHT - 1)
      BY <2>2, <1>4
    <2> QED  BY <2>1, <2>3, <1>2, <1>3, <1>5 DEF Overlap, x, y, xv, yv, xw, yw
  <1>6. CASE ~Apart(v, w)
    <2>1. Overlap(v, w) = [x0 |-> Larger(xv - xw, 0), x1 |-> Smaller((xv - xw) + WINDOW_WIDTH, WINDOW_WIDTH),
                           y0 |-> Larger(yv - yw, 0), y1 |-> Smaller((yv - yw) + WINDOW_HEIGHT, WINDOW_HEIGHT)]
      BY <1>6 DEF Overlap
    <2> HIDE DEF x, y, xv, yv, xw, yw
    <2>2. Within(Overlap(v, w), x - xw, y - yw) <=>
             x \in xv .. xv + WINDOW_WIDTH - 1 /\ y \in yv .. yv + WINDOW_HEIGHT - 1
      BY <2>1, <1>4 DEF Within, Larger, Smaller
    <2> QED  BY <2>2, <1>2, <1>3 DEF x, y, xv, yv, xw, yw
  <1> QED  BY <1>5, <1>6

\* The layers are three, the window in front is the one viewed, and the
\* rectangles are those of the layers.
Layering ==
    /\ viewing \in Tids /\ running \in Tids
    /\ layer \in [Tids -> {TOP, MIDDLE, BOTTOM}]
    /\ \A v, w \in Tids : layer[v] = layer[w] => v = w
    /\ layer[viewing] = TOP
    /\ cover = [w \in Tids |-> set_window_buf_boundary(layer, w)]
    /\ cover2 = [w \in Tids |-> set_second_boundary(layer, w)]

\* Of the window behind the other two, what the first covers and what the second
\* covers are kept apart; of the second, what the first covers.
LEMMA ShownOnTop ==
    ASSUME Layering
    PROVE  CoverageExact
  <1> USE DEF Layering
  <1> SUFFICES ASSUME NEW w \in Tids, NEW p \in InWindow(w)
               PROVE  Shown(w, RelX(w, p), RelY(w, p)) <=> OnTop(w, p)
    BY DEF CoverageExact
  <1>0. NoOverlap.x0 = -1 /\ NoOverlap.x1 = -1
    BY DEF NoOverlap
  <1>1. \A v \in Tids : layer[v] \in {TOP, MIDDLE, BOTTOM}
    OBVIOUS
  <1>2. PICK t \in Tids, m \in Tids, b \in Tids :
           layer[t] = TOP /\ layer[m] = MIDDLE /\ layer[b] = BOTTOM /\ Tids = {t, m, b}
    <2>1. Tids = {0, 1, 2}
      BY DEF Tids
    <2> QED  BY <2>1 DEF TOP, MIDDLE, BOTTOM
  <1>3. get_window_id(layer, TOP) = t /\ get_window_id(layer, MIDDLE) = m
    BY <1>2 DEF get_window_id
  <1>4. \A v \in Tids : Within(Overlap(v, w), RelX(w, p), RelY(w, p)) <=> p \in InWindow(v)
    BY OverlapCovers
  <1>5. OnTop(w, p) <=> \A v \in Tids : p \in InWindow(v) => layer[w] <= layer[v]
    BY DEF OnTop
  <1>6. CASE w = t
    <2>1. Shown(w, RelX(w, p), RelY(w, p))
      <3>1. layer[w] = TOP
        BY <1>6, <1>2
      <3> QED  BY <3>1 DEF Shown, TOP, MIDDLE, BOTTOM
    <2> QED  BY <2>1, <1>5, <1>2, <1>6 DEF TOP, MIDDLE, BOTTOM
  <1>7. CASE w = m
    <2>1. cover[w] = Overlap(t, w)
      BY <1>7, <1>2, <1>3 DEF set_window_buf_boundary, TOP, MIDDLE, BOTTOM
    <2>2. Shown(w, RelX(w, p), RelY(w, p)) <=> ~Within(cover[w], RelX(w, p), RelY(w, p))
      BY <1>7, <1>2 DEF Shown, check_pixel_in_middle_window, TOP, MIDDLE, BOTTOM
    <2>3. OnTop(w, p) <=> p \notin InWindow(t)
      BY <1>5, <1>2, <1>7 DEF TOP, MIDDLE, BOTTOM
    <2> QED  BY <2>1, <2>2, <2>3, <1>4
  <1>8. CASE w = b
    <2>1. cover[w] = Overlap(m, w) /\ cover2[w] = Overlap(t, w)
      BY <1>8, <1>2, <1>3 DEF set_window_buf_boundary, set_second_boundary, TOP, MIDDLE, BOTTOM
    <2>2. Shown(w, RelX(w, p), RelY(w, p)) <=>
             ~Within(cover[w], RelX(w, p), RelY(w, p)) /\ ~Within(cover2[w], RelX(w, p), RelY(w, p))
      BY <1>8, <1>2 DEF Shown, check_pixel_in_bottom_window, TOP, MIDDLE, BOTTOM
    <2>3. OnTop(w, p) <=> p \notin InWindow(t) /\ p \notin InWindow(m)
      BY <1>5, <1>2, <1>8 DEF TOP, MIDDLE, BOTTOM
    <2> QED  BY <2>1, <2>2, <2>3, <1>4
  <1> QED  BY <1>2, <1>6, <1>7, <1>8

\* At boot window 0 is in front of window 1, and that of window 2.
LEMMA InitLayering == Init => Layering
  BY DEF Init, Layering, InitialLayers, Tids, TOP, MIDDLE, BOTTOM

\* A terminal that is looked at comes to the front, and the one that was there
\* goes behind it, before the third (switch_terminal).
LEMMA ViewLayering ==
    ASSUME Layering, NEW t \in Tids, ViewTerminal(t), running' = running
    PROVE  Layering'
  <1>1. CASE t = viewing
    BY <1>1 DEF Layering, ViewTerminal, layers, set_window_buf_boundary, set_second_boundary
  <1>2. CASE t # viewing
    <2>1. /\ viewing' = t /\ layer' = Raised(t)
          /\ cover' = [w \in Tids |-> set_window_buf_boundary(Raised(t), w)]
          /\ cover2' = [w \in Tids |-> set_second_boundary(Raised(t), w)]
      BY <1>2 DEF ViewTerminal, SetLayers
    <2>2. /\ Raised(t) \in [Tids -> {TOP, MIDDLE, BOTTOM}] /\ Raised(t)[t] = TOP
          /\ \A v, w \in Tids : Raised(t)[v] = Raised(t)[w] => v = w
      BY <1>2 DEF Layering, Raised, Tids, TOP, MIDDLE, BOTTOM
    <2> QED  BY <2>1, <2>2 DEF Layering
  <1> QED  BY <1>1, <1>2

\* No other step touches the layers.
LEMMA NextLayering ==
    ASSUME Layering, [Next]_vars
    PROVE  Layering'
  <1> DEFINE Same == UNCHANGED <<viewing, running, layers>>
  <1>1. ASSUME Same PROVE Layering'
    BY <1>1 DEF Layering, layers
  <1>2. CASE GUI_init
    BY <1>2, <1>1 DEF GUI_init
  <1>7. CASE pit_int_handler
    <2>1. running' \in Tids /\ UNCHANGED <<viewing, layers>>
      BY <1>7 DEF pit_int_handler, Layering, Tids
    <2> QED  BY <2>1 DEF Layering, layers, set_window_buf_boundary, set_second_boundary
  <1>3. ASSUME NEW c, terminal_write(c) \/ Echo(c) PROVE Layering'
    BY <1>3, <1>1 DEF terminal_write, Echo
  <1>4. CASE syscall_vidmap \/ EndFish \/ Backspace \/ clear \/ UNCHANGED vars
    BY <1>4, <1>1 DEF syscall_vidmap, EndFish, Backspace, clear, vars
  <1>5. ASSUME NEW t \in Tids, switch_terminal(t) PROVE Layering'
    BY <1>5, ViewLayering DEF switch_terminal
  <1>6. ASSUME NEW m, NEW left \in BOOLEAN, mouse_int_handler(m, left) PROVE Layering'
    <2>1. Same \/ (running' = running /\ \E t \in Tids : ViewTerminal(t))
      BY <1>6 DEF mouse_int_handler, check_mouse_in_which_terminal
    <2> QED  BY <2>1, <1>1, ViewLayering
  <1> QED  BY <1>2, <1>3, <1>4, <1>5, <1>6, <1>7 DEF Next

\* However the windows have been raised, by key or by mouse, the rectangles kept
\* for a window leave exactly what no window in front of it covers.
THEOREM CoverageCorrect == Spec => []CoverageExact
  <1>1. Init => Layering
    BY InitLayering
  <1>2. Layering /\ [Next]_vars => Layering'
    BY NextLayering
  <1>3. Layering => CoverageExact
    BY ShownOnTop
  <1> QED  BY <1>1, <1>2, <1>3, PTL DEF Spec

----------------------------------------------------------------------------
(* Drawing.                                                                 *)

\* The numbers that the constants of the glyphs are; windows are in a cascade.
LEMMA GlyphSizes ==
    /\ GlyphWidth \in Nat \ {0} /\ GlyphHeight \in Nat \ {0}
    /\ \A w \in Tids : WindowX[w] + WINDOW_WIDTH <= X_RES
    /\ \A v, w \in Tids : v < w => WindowX[v] <= WindowX[w] /\ WindowY[v] <= WindowY[w]
  BY GeometryAssumption

\* Where a glyph may begin, to be all in a window.
Fits(w, x, y) ==
    /\ x \in WindowX[w] .. WindowX[w] + WINDOW_WIDTH - GlyphWidth
    /\ y \in WindowY[w] .. WindowY[w] + WINDOW_HEIGHT - GlyphHeight

\* The box of a glyph does not run over the right edge of the image.
LEMMA GlyphPixels ==
    ASSUME NEW w \in Tids, NEW x, NEW y, Fits(w, x, y),
           NEW p \in Pixels, InBox(p, At(x, y), GlyphWidth, GlyphHeight)
    PROVE  /\ Col(p) \in x .. x + GlyphWidth - 1 /\ Line(p) \in y .. y + GlyphHeight - 1
           /\ p \in InWindow(w)
  <1> DEFINE n == p - At(x, y)
             i == n % X_RES
             j == n \div X_RES
  <1>1. /\ x \in Nat /\ y \in Nat /\ X_RES \in Nat \ {0} /\ p \in Nat
        /\ GlyphWidth \in Nat \ {0} /\ GlyphHeight \in Nat \ {0}
        /\ x + GlyphWidth <= WindowX[w] + WINDOW_WIDTH /\ WindowX[w] <= x
        /\ y + GlyphHeight <= WindowY[w] + WINDOW_HEIGHT /\ WindowY[w] <= y
        /\ WindowX[w] \in Nat /\ WindowY[w] \in Nat
        /\ WINDOW_WIDTH \in Nat /\ WINDOW_HEIGHT \in Nat
        /\ x + GlyphWidth <= X_RES
    BY WindowSizes, GlyphSizes DEF Fits, Pixels
  <1>2. At(x, y) \in Nat /\ n \in Nat /\ i < GlyphWidth /\ j < GlyphHeight
    BY <1>1 DEF At, InBox
  <1> HIDE DEF n
  <1>3. n = X_RES * j + i /\ j \in Nat /\ i \in Nat
    <2>1. n \in Nat /\ X_RES \in Nat \ {0}
      BY <1>1, <1>2
    <2>2. n = X_RES * (n \div X_RES) + (n % X_RES) /\ n \div X_RES \in Nat /\ n % X_RES \in 0 .. X_RES - 1
      BY <2>1, DivMod, Zenon
    <2>3. n % X_RES \in Nat
      BY <2>1, <2>2
    <2> QED  BY <2>2, <2>3, Zenon
  <1>4. p = (y + j) * X_RES + (x + i)
    <2>1. p = (y * X_RES + x) + n
      BY <1>1, <1>2 DEF At, n
    <2> HIDE DEF i, j
    <2> QED  BY <1>1, <1>3, <2>1
  <1> HIDE DEF i, j
  <1>5. Col(p) = x + i /\ Line(p) = y + j
    <2>1. x + i \in Nat /\ y + j \in Nat /\ x + i < X_RES
      BY <1>1, <1>2, <1>3
    <2> QED  BY <1>1, <1>4, <2>1, Division DEF Col, Line
  <1>6. Col(p) \in x .. x + GlyphWidth - 1 /\ Line(p) \in y .. y + GlyphHeight - 1
    BY <1>1, <1>2, <1>3, <1>5
  <1> QED  BY <1>1, <1>6, WindowPixels

\* A column and a line of a window are a pixel of it, and where in it.
LEMMA CornerInWindow ==
    ASSUME NEW w \in Tids, NEW x \in WindowX[w] .. WindowX[w] + WINDOW_WIDTH - 1,
           NEW y \in WindowY[w] .. WindowY[w] + WINDOW_HEIGHT - 1
    PROVE  /\ At(x, y) \in InWindow(w) /\ Col(At(x, y)) = x /\ Line(At(x, y)) = y
           /\ RelX(w, At(x, y)) = x - WindowX[w] /\ RelY(w, At(x, y)) = y - WindowY[w]
  <1>1. x \in Columns /\ y \in Lines
    BY GeometryAssumption DEF Columns, Lines
  <1>2. At(x, y) \in Pixels /\ Col(At(x, y)) = x /\ Line(At(x, y)) = y
    BY <1>1, AtPixel
  <1> QED  BY <1>2, WindowPixels DEF RelX, RelY, Col, Line

\* Windows are in a cascade: one that covers a pixel of a glyph from above on the
\* left covers its upper left corner, and one from below on the right the other.
LEMMA TwoCorners ==
    ASSUME Layering, NEW w \in Tids, NEW x, NEW y, Fits(w, x, y),
           print_screen_or_buf(w, x - WindowX[w], y - WindowY[w]),
           NEW p \in InWindow(w),
           Col(p) \in x .. x + GlyphWidth - 1, Line(p) \in y .. y + GlyphHeight - 1
    PROVE  OnTop(w, p)
  <1> DEFINE x1 == x + GlyphWidth - 1
             y1 == y + GlyphHeight - 1
             p0 == At(x, y)
             p1 == At(x1, y1)
  <1>1. CoverageExact
    BY ShownOnTop
  <1>2. CASE layer[w] = TOP
    <2>1. Shown(w, RelX(w, p), RelY(w, p))
      BY <1>2 DEF Shown, TOP, MIDDLE, BOTTOM
    <2> QED  BY <1>1, <2>1 DEF CoverageExact
  <1>3. CASE layer[w] # TOP
    <2>1. /\ x \in WindowX[w] .. WindowX[w] + WINDOW_WIDTH - 1
          /\ y \in WindowY[w] .. WindowY[w] + WINDOW_HEIGHT - 1
          /\ x1 \in WindowX[w] .. WindowX[w] + WINDOW_WIDTH - 1
          /\ y1 \in WindowY[w] .. WindowY[w] + WINDOW_HEIGHT - 1
          /\ x \in Nat /\ y \in Nat /\ x1 \in Nat /\ y1 \in Nat
          /\ WindowX[w] \in Nat /\ WindowY[w] \in Nat
      BY WindowSizes, GlyphSizes DEF Fits
    <2>2. Shown(w, x - WindowX[w], y - WindowY[w]) /\ Shown(w, x1 - WindowX[w], y1 - WindowY[w])
      <3>1. (x - WindowX[w]) + GlyphWidth - 1 = x1 - WindowX[w]
            /\ (y - WindowY[w]) + GlyphHeight - 1 = y1 - WindowY[w]
        <4>2. /\ x \in Nat /\ y \in Nat /\ WindowX[w] \in Nat /\ WindowY[w] \in Nat
              /\ GlyphWidth \in Nat /\ GlyphHeight \in Nat
          BY <2>1, GlyphSizes
        <4> QED  BY ONLY <4>2
      <3> HIDE DEF x1, y1
      <3> QED  BY <1>3, <3>1 DEF print_screen_or_buf
    <2> HIDE DEF x1, y1, p0, p1
    <2>3. OnTop(w, p0) /\ p0 \in InWindow(w) /\ Col(p0) = x /\ Line(p0) = y
      BY <1>1, <2>1, <2>2, CornerInWindow DEF CoverageExact, p0
    <2>4. OnTop(w, p1) /\ p1 \in InWindow(w) /\ Col(p1) = x1 /\ Line(p1) = y1
      BY <1>1, <2>1, <2>2, CornerInWindow DEF CoverageExact, p1
    <2>5. ASSUME NEW v \in Tids, p \in InWindow(v) PROVE layer[w] <= layer[v]
      <3>1. p0 \in InWindow(v) \/ p1 \in InWindow(v)
        <4>1. /\ Col(p) \in WindowX[v] .. WindowX[v] + WINDOW_WIDTH - 1
              /\ Line(p) \in WindowY[v] .. WindowY[v] + WINDOW_HEIGHT - 1
          BY <2>5, WindowPixels
        <4>2. \/ WindowX[v] <= WindowX[w] /\ WindowY[v] <= WindowY[w]
              \/ WindowX[w] <= WindowX[v] /\ WindowY[w] <= WindowY[v]
          <5>1. v < w \/ v = w \/ w < v
            BY DEF Tids
          <5> QED  BY <5>1, GlyphSizes, WindowSizes
        <4>3. WindowX[v] \in Nat /\ WindowY[v] \in Nat /\ WINDOW_WIDTH \in Nat /\ WINDOW_HEIGHT \in Nat
          BY WindowSizes
        <4>4. p0 \in Pixels /\ p1 \in Pixels
          BY <2>3, <2>4, WindowPixels
        <4>5. x <= Col(p) /\ y <= Line(p) /\ Col(p) <= x1 /\ Line(p) <= y1
              /\ Col(p) \in Int /\ Line(p) \in Int
          BY <2>1 DEF x1, y1
        <4>6. CASE WindowX[v] <= WindowX[w] /\ WindowY[v] <= WindowY[w]
          <5>1. /\ x \in WindowX[v] .. WindowX[v] + WINDOW_WIDTH - 1
                /\ y \in WindowY[v] .. WindowY[v] + WINDOW_HEIGHT - 1
            BY <4>1, <4>3, <4>5, <4>6, <2>1
          <5> QED  BY <5>1, <2>3, <4>4, WindowPixels
        <4>7. CASE WindowX[w] <= WindowX[v] /\ WindowY[w] <= WindowY[v]
          <5>1. /\ x1 \in WindowX[v] .. WindowX[v] + WINDOW_WIDTH - 1
                /\ y1 \in WindowY[v] .. WindowY[v] + WINDOW_HEIGHT - 1
            BY <4>1, <4>3, <4>5, <4>7, <2>1
          <5> QED  BY <5>1, <2>4, <4>4, WindowPixels
        <4> QED  BY <4>2, <4>6, <4>7
      <3> QED  BY <3>1, <2>3, <2>4 DEF OnTop
    <2> QED  BY <2>5 DEF OnTop
  <1> QED  BY <1>2, <1>3

----------------------------------------------------------------------------
(* Printing.                                                                *)

IsDisplay(d) ==
    d = [screen |-> d.screen, buffer |-> d.buffer, x |-> d.x, y |-> d.y, fish |-> d.fish]

\* Of two displays, the screen differs only where a window is on top.
DrawsOnTop(d, e, w) == \A p \in Pixels : e.screen[p] # d.screen[p] => OnTop(w, p)

\* Mapping a page changes neither images nor cursor.
LEMMA MapKeeps ==
    ASSUME NEW d, IsDisplay(d), NEW page, NEW t
    PROVE  LET e == MapPage(d, page, t)
           IN  IsDisplay(e) /\ e.screen = d.screen /\ e.buffer = d.buffer /\ e.x = d.x /\ e.y = d.y
  BY DEF MapPage, IsDisplay

\* Moving the cursor changes no image.
LEMMA MoveKeeps ==
    ASSUME NEW d, IsDisplay(d), NEW i, NEW j
    PROVE  LET e == [d EXCEPT !.x = i, !.y = j]
           IN  IsDisplay(e) /\ e.screen = d.screen
  <1> DEFINE e == [d EXCEPT !.x = i, !.y = j]
  <1>1. e = [screen |-> d.screen, buffer |-> d.buffer, x |-> i, y |-> j, fish |-> d.fish]
    <2> DEFINE f == [d EXCEPT !.x = i]
    <2>1. e = [f EXCEPT !.y = j]
      OBVIOUS
    <2>2. f = [screen |-> d.screen, buffer |-> d.buffer, x |-> i, y |-> d.y, fish |-> d.fish]
      BY DEF IsDisplay
    <2> HIDE DEF e, f
    <2> QED  BY <2>1, <2>2
  <1> HIDE DEF e
  <1>2. e.screen = d.screen /\ e.buffer = d.buffer /\ e.x = i /\ e.y = j /\ e.fish = d.fish
    BY <1>1
  <1> QED  BY <1>1, <1>2 DEF IsDisplay, e

\* A glyph drawn inside a window.
LEMMA PutcOnTop ==
    ASSUME Layering, NEW w \in Tids, NEW d, IsDisplay(d), NEW c, NEW x, NEW y, Fits(w, x, y)
    PROVE  LET e == VGA_putc(d, w, c, x, y)
           IN  IsDisplay(e) /\ e.x = d.x /\ e.y = d.y /\ DrawsOnTop(d, e, w)
  <1> DEFINE m == switchpagingtobuffer(d, w)
             b == [m EXCEPT !.buffer[w] = Paint(@, x, y, c)]
             v == switchpagingtovideomem(b, w)
             e == VGA_putc(d, w, c, x, y)
             shown == print_screen_or_buf(w, x - WindowX[w], y - WindowY[w])
  <1>1. IsDisplay(m) /\ m.screen = d.screen /\ m.x = d.x /\ m.y = d.y
    BY MapKeeps DEF switchpagingtobuffer
  <1> HIDE DEF m
  <1>2. IsDisplay(b) /\ b.screen = d.screen /\ b.x = d.x /\ b.y = d.y
    BY <1>1 DEF IsDisplay
  <1>3. e = IF shown THEN [v EXCEPT !.screen = Paint(@, x, y, c)] ELSE b
    BY DEF VGA_putc, m
  <1> HIDE DEF b, e, shown
  <1>4. IsDisplay(v) /\ v.screen = d.screen /\ v.x = d.x /\ v.y = d.y
    BY <1>2, MapKeeps DEF switchpagingtovideomem
  <1> HIDE DEF v
  <1>5. CASE ~shown
    BY <1>2, <1>3, <1>5 DEF DrawsOnTop, e
  <1>6. CASE shown
    <2>1. IsDisplay(e) /\ e.screen = Paint(d.screen, x, y, c) /\ e.x = d.x /\ e.y = d.y
      BY <1>3, <1>4, <1>6 DEF IsDisplay
    <2>2. ASSUME NEW p \in Pixels, e.screen[p] # d.screen[p] PROVE OnTop(w, p)
      <3>1. InBox(p, At(x, y), GlyphWidth, GlyphHeight)
        BY <2>1, <2>2 DEF Paint, VGA_drawRect
      <3> QED  BY <3>1, <1>6, GlyphPixels, TwoCorners DEF shown
    <2> QED  BY <2>1, <2>2 DEF DrawsOnTop, e
  <1> QED  BY <1>5, <1>6

\* The lines of a window move up.
LEMMA ScrollOnTop ==
    ASSUME Layering, NEW w \in Tids, NEW d, IsDisplay(d)
    PROVE  DrawsOnTop(d, ScrollIfFull(d, w), w)
  <1> DEFINE b == [d EXCEPT !.buffer[w] = ScrolledUp(@, w)]
             v == switchpagingtovideomem(b, w)
             shown == {p \in InWindow(w) : Shown(w, RelX(w, p), RelY(w, p))}
             s == VGA_windowscrolluponeline(d, w)
             e == ScrollIfFull(d, w)
             full == ~(d.y + GlyphHeight < WindowY[w] + WINDOW_HEIGHT)
  <1>1. IsDisplay(b) /\ b.screen = d.screen
    BY DEF IsDisplay
  <1>2. s = [v EXCEPT !.screen = CopyPixels(@, b.buffer[w], shown)]
    BY DEF VGA_windowscrolluponeline
  <1>3. e = IF full THEN [s EXCEPT !.y = d.y - GlyphHeight, !.x = LineStart(w)] ELSE d
    BY DEF ScrollIfFull
  <1> HIDE DEF b, s, e, full
  <1>4. IsDisplay(v) /\ v.screen = d.screen
    BY <1>1, MapKeeps DEF switchpagingtovideomem
  <1> HIDE DEF v
  <1>5. e.screen = d.screen \/ e.screen = CopyPixels(d.screen, b.buffer[w], shown)
    BY <1>2, <1>3, <1>4 DEF IsDisplay
  <1>6. ASSUME NEW p \in Pixels, e.screen[p] # d.screen[p] PROVE OnTop(w, p)
    <2>1. p \in shown
      BY <1>5, <1>6 DEF CopyPixels
    <2> QED  BY <2>1, ShownOnTop DEF CoverageExact
  <1> QED  BY <1>6 DEF DrawsOnTop, e

\* A character that is not a backspace, put at a cursor that is in the window.
LEMMA PutOnTop ==
    ASSUME Layering, NEW w \in Tids, NEW d, IsDisplay(d), Fits(w, d.x, d.y),
           NEW c \in Letters \cup {NL}
    PROVE  DrawsOnTop(d, Put(d, w, c), w)
  <1>1. CASE c = NL
    <2> DEFINE n == [d EXCEPT !.y = @ + GlyphHeight, !.x = LineStart(w)]
    <2>1. IsDisplay(n) /\ n.screen = d.screen
      <3>1. n = [d EXCEPT !.x = LineStart(w), !.y = d.y + GlyphHeight]
        OBVIOUS
      <3> HIDE DEF n
      <3> QED  BY <3>1, MoveKeeps
    <2>2. Put(d, w, c) = ScrollIfFull(n, w)
      BY <1>1 DEF Put, PutNewline, NL, BS
    <2> HIDE DEF n
    <2> QED  BY <2>1, <2>2, ScrollOnTop DEF DrawsOnTop
  <1>2. CASE c # NL
    <2> DEFINE e == VGA_putc(d, w, c, d.x, d.y)
               full == d.x + 2 * GlyphWidth >= WindowX[w] + WINDOW_WIDTH
               i == IF full THEN LineStart(w) ELSE d.x + GlyphWidth
               j == IF full THEN e.y + GlyphHeight \div 2 ELSE e.y
               f == [e EXCEPT !.x = i, !.y = j]
    <2>1. c # BS
      BY <1>2, DisplayAssumption
    <2>2. Put(d, w, c) = ScrollIfFull(f, w)
      BY <1>2, <2>1 DEF Put, PutChar
    <2>3. IsDisplay(e) /\ DrawsOnTop(d, e, w)
      BY PutcOnTop
    <2> HIDE DEF e
    <2>4. IsDisplay(f) /\ f.screen = e.screen
      <3> HIDE DEF i, j
      <3> QED  BY <2>3, MoveKeeps
    <2> HIDE DEF f
    <2>5. DrawsOnTop(f, ScrollIfFull(f, w), w)
      BY <2>4, ScrollOnTop
    <2> QED  BY <2>2, <2>3, <2>4, <2>5 DEF DrawsOnTop
  <1> QED  BY <1>1, <1>2

\* What a program prints with its own cursor appears only where its window is in
\* front: the test of two corners of each glyph is enough (print_screen_or_buf,
\* nb_putc, VGA_windowscrolluponeline).
THEOREM NothingOverdrawn == Spec => NoOverdraw
  <1>1. ASSUME Layering, [Next]_vars
        PROVE  [ptr = running /\ CursorInside(running) /\ Prints =>
                  \A p \in Pixels : screen'[p] # screen[p] => OnTop(running, p)]_vars
    <2> SUFFICES ASSUME ptr = running, CursorInside(running), NEW c \in Letters \cup {NL},
                        terminal_write(c), running \in Tids
                 PROVE  \A p \in Pixels : screen'[p] # screen[p] => OnTop(running, p)
      BY <1>1 DEF Prints, Layering
    <2> DEFINE d == Display(ptr)
    <2>1. IsDisplay(d) /\ d.screen = screen /\ Fits(running, d.x, d.y)
      BY DEF Display, IsDisplay, CursorInside, Fits
    <2>2. screen' = nb_putc(d, c).screen
      BY DEF terminal_write, SetDisplay
    <2> HIDE DEF d
    <2>3. DrawsOnTop(d, Put(d, running, c), running)
      BY <1>1, <2>1, PutOnTop
    <2> QED  BY <2>1, <2>2, <2>3 DEF nb_putc, DrawsOnTop
  <1> QED  BY <1>1, InitLayering, NextLayering, PTL DEF Spec, NoOverdraw

----------------------------------------------------------------------------
(* Types.                                                                   *)

\* What a pixel of a buffer shows: the pointer is drawn on the screen only.
Inks == Letters \cup {Black, TitleInk}
Image == [Pixels -> Inks]
Pages == Tids \cup {Video, NoPage}

\* A display of the parts given, and what the parts of one must be.
Parts(s, b, x, y, f) == [screen |-> s, buffer |-> b, x |-> x, y |-> y, fish |-> f]
DisplayOK(d) ==
    /\ IsDisplay(d)
    /\ DOMAIN d.screen = Pixels
    /\ d.buffer \in [Tids -> Image]
    /\ d.x \in Int /\ d.y \in Int
    /\ d.fish.page \in Pages

\* The types of what a display and the mouse hold.
Typed ==
    /\ order \in Orders \cup {"drawn"}
    /\ DOMAIN screen = Pixels
    /\ buffer \in [Tids -> Image]
    /\ cursor \in [Tids -> Int \X Int]
    /\ ptr \in Tids /\ alive \subseteq Tids
    /\ fish.page \in Pages
    /\ vidmap_flag \in [Tids -> BOOLEAN]
    /\ mouse \in (0 .. X_RES - PointerWidth) \X (0 .. Y_RES - PointerHeight)
    /\ DOMAIN mouse_bg = PointerBox(mouse)

\* No more characters have been typed than keys been pressed.
Counted ==
    /\ steps \in 0 .. MaxSteps
    /\ typed \in [Tids -> Nat]
    /\ \A t \in Tids : typed[t] <= steps

\* A rectangle is drawn in one ink.
LEMMA RectImage ==
    ASSUME NEW img \in Image, NEW x, NEW y, NEW w, NEW h, NEW c \in Inks
    PROVE  VGA_drawRect(img, x, y, w, h, c) \in Image
  BY DEF VGA_drawRect, Image

\* The lines that move up come from the window itself.
LEMMA ScrolledImage ==
    ASSUME NEW img \in Image, NEW w \in Tids
    PROVE  ScrolledUp(img, w) \in Image
  <1> SUFFICES ASSUME NEW p \in InWindow(w), p \in Pixels, ~(RelY(w, p) >= WINDOW_HEIGHT - GlyphHeight)
               PROVE  p + GlyphHeight * X_RES \in Pixels
    BY DEF ScrolledUp, Image, Inks
  <1> DEFINE i == Col(p)  j == Line(p)
  <1>1. /\ i \in Columns /\ j \in Lines /\ p = At(i, j) /\ j \in WindowY[w] .. WindowY[w] + WINDOW_HEIGHT - 1
    BY PixelAt, WindowPixels
  <1>2. RelY(w, p) = j - WindowY[w]
    BY DEF RelY, Line
  <1>3. /\ X_RES \in Nat /\ GlyphHeight \in Nat /\ WINDOW_HEIGHT \in Nat /\ WindowY[w] \in Nat
        /\ WindowY[w] + WINDOW_HEIGHT <= Y_RES /\ i \in Nat /\ j \in Nat /\ Y_RES \in Nat
    BY <1>1, GeometryAssumption DEF Columns, Lines
  <1> HIDE DEF i, j
  <1>4. j + GlyphHeight \in Lines
    BY <1>1, <1>2, <1>3 DEF Lines
  <1>5. At(i, j + GlyphHeight) \in Pixels
    BY <1>1, <1>4, AtPixel
  <1>6. At(i, j + GlyphHeight) = p + GlyphHeight * X_RES
    <2>1. (j + GlyphHeight) * X_RES = j * X_RES + GlyphHeight * X_RES
      BY <1>3
    <2>2. j * X_RES \in Int /\ GlyphHeight * X_RES \in Int
      BY <1>3
    <2> QED  BY <1>1, <1>3, <2>1, <2>2 DEF At
  <1> QED  BY <1>5, <1>6

----------------------------------------------------------------------------
(* What the operations on a display do, part by part.                       *)

\* Mapping a page.
LEMMA MapParts ==
    ASSUME NEW d, IsDisplay(d), NEW page, NEW t
    PROVE  MapPage(d, page, t) = Parts(d.screen, d.buffer, d.x, d.y, FishEntry(vidmap_flag[t], page))
  BY DEF MapPage, IsDisplay, Parts

\* The entry that is made for a page.
LEMMA EntryPage ==
    ASSUME NEW present, NEW page \in Pages
    PROVE  FishEntry(present, page).page \in Pages
  BY DEF FishEntry, Pages

\* A display made of parts has them.
LEMMA PartsOf ==
    ASSUME NEW d, NEW s, NEW b, NEW x, NEW y, NEW f, d = Parts(s, b, x, y, f)
    PROVE  /\ IsDisplay(d) /\ d.screen = s /\ d.buffer = b /\ d.x = x /\ d.y = y /\ d.fish = f
  BY DEF Parts, IsDisplay

\* A glyph.
LEMMA PutcParts ==
    ASSUME NEW w \in Tids, NEW d, IsDisplay(d), NEW c, NEW x, NEW y
    PROVE  LET b == [d.buffer EXCEPT ![w] = Paint(@, x, y, c)]
               shown == print_screen_or_buf(w, x - WindowX[w], y - WindowY[w])
           IN  VGA_putc(d, w, c, x, y) =
                 Parts(IF shown THEN Paint(d.screen, x, y, c) ELSE d.screen, b, d.x, d.y,
                       FishEntry(vidmap_flag[w], IF shown THEN Video ELSE w))
  <1> DEFINE m == switchpagingtobuffer(d, w)
             b == [m EXCEPT !.buffer[w] = Paint(@, x, y, c)]
             nb == [d.buffer EXCEPT ![w] = Paint(@, x, y, c)]
             v == switchpagingtovideomem(b, w)
             e == VGA_putc(d, w, c, x, y)
             shown == print_screen_or_buf(w, x - WindowX[w], y - WindowY[w])
             fw == FishEntry(vidmap_flag[w], w)
             fv == FishEntry(vidmap_flag[w], Video)
  <1>1. m = Parts(d.screen, d.buffer, d.x, d.y, fw)
    BY MapParts DEF switchpagingtobuffer
  <1>2. e = IF shown THEN [v EXCEPT !.screen = Paint(@, x, y, c)] ELSE b
    BY DEF VGA_putc
  <1> HIDE DEF m, fw, fv, shown, e
  <1>3. b = Parts(d.screen, nb, d.x, d.y, fw)
    BY <1>1 DEF Parts
  <1> HIDE DEF b, nb
  <1>4. v = Parts(d.screen, nb, d.x, d.y, fv)
    <2>1. IsDisplay(b) /\ b.screen = d.screen /\ b.buffer = nb /\ b.x = d.x /\ b.y = d.y
      BY <1>3, PartsOf
    <2> QED  BY <2>1, MapParts DEF switchpagingtovideomem, fv
  <1> HIDE DEF v
  <1>5. [v EXCEPT !.screen = Paint(@, x, y, c)] = Parts(Paint(d.screen, x, y, c), nb, d.x, d.y, fv)
    BY <1>4 DEF Parts
  <1> QED  BY <1>2, <1>3, <1>5 DEF e, nb, shown, fw, fv

\* The part of a window that a scroll brings to the screen.
ShownPixels(w) == {p \in InWindow(w) : Shown(w, RelX(w, p), RelY(w, p))}

\* A scroll.
LEMMA ScrollParts ==
    ASSUME NEW w \in Tids, NEW d, IsDisplay(d)
    PROVE  LET b == [d.buffer EXCEPT ![w] = ScrolledUp(@, w)]
           IN  \/ ScrollIfFull(d, w) = d
               \/ ScrollIfFull(d, w) =
                    Parts(CopyPixels(d.screen, b[w], ShownPixels(w)), b, LineStart(w),
                          d.y - GlyphHeight, FishEntry(vidmap_flag[w], Video))
  <1> DEFINE b == [d EXCEPT !.buffer[w] = ScrolledUp(@, w)]
             nb == [d.buffer EXCEPT ![w] = ScrolledUp(@, w)]
             v == switchpagingtovideomem(b, w)
             s == VGA_windowscrolluponeline(d, w)
             fv == FishEntry(vidmap_flag[w], Video)
             new == CopyPixels(d.screen, nb[w], ShownPixels(w))
             full == ~(d.y + GlyphHeight < WindowY[w] + WINDOW_HEIGHT)
             x == LineStart(w)
             y == d.y - GlyphHeight
  <1>1. b = Parts(d.screen, nb, d.x, d.y, d.fish)
    BY DEF Parts, IsDisplay
  <1>2. s = [v EXCEPT !.screen = CopyPixels(@, b.buffer[w], ShownPixels(w))]
    BY DEF VGA_windowscrolluponeline, ShownPixels
  <1>3. ScrollIfFull(d, w) = IF full THEN [s EXCEPT !.y = y, !.x = x] ELSE d
    BY DEF ScrollIfFull
  <1> HIDE DEF b, s, full, x, y, fv
  <1>4. v = Parts(d.screen, nb, d.x, d.y, fv) /\ b.buffer = nb
    <2>1. IsDisplay(b) /\ b.screen = d.screen /\ b.buffer = nb /\ b.x = d.x /\ b.y = d.y
      BY <1>1, PartsOf
    <2> QED  BY <2>1, MapParts DEF switchpagingtovideomem, fv
  <1> HIDE DEF v, nb
  <1>5. s = Parts(new, nb, d.x, d.y, fv)
    BY <1>2, <1>4 DEF Parts
  <1> HIDE DEF new
  <1>6. [s EXCEPT !.y = y, !.x = x] = Parts(new, nb, x, y, fv)
    <2> DEFINE r == [s EXCEPT !.y = y]
    <2>1. r = Parts(new, nb, d.x, y, fv)
      BY <1>5 DEF Parts
    <2>2. [s EXCEPT !.y = y, !.x = x] = [r EXCEPT !.x = x]
      OBVIOUS
    <2> HIDE DEF r
    <2> QED  BY <2>1, <2>2 DEF Parts
  <1> QED  BY <1>3, <1>6 DEF new, nb, x, y, fv

\* Moving the cursor.
LEMMA MoveParts ==
    ASSUME NEW d, IsDisplay(d), NEW i, NEW j
    PROVE  /\ [d EXCEPT !.x = i, !.y = j] = Parts(d.screen, d.buffer, i, j, d.fish)
           /\ [d EXCEPT !.y = j, !.x = i] = Parts(d.screen, d.buffer, i, j, d.fish)
  <1> DEFINE f == [d EXCEPT !.x = i]  g == [d EXCEPT !.y = j]
  <1>1. f = Parts(d.screen, d.buffer, i, d.y, d.fish) /\ g = Parts(d.screen, d.buffer, d.x, j, d.fish)
    BY DEF IsDisplay, Parts
  <1>2. [d EXCEPT !.x = i, !.y = j] = [f EXCEPT !.y = j] /\ [d EXCEPT !.y = j, !.x = i] = [g EXCEPT !.x = i]
    OBVIOUS
  <1> HIDE DEF f, g
  <1> QED  BY <1>1, <1>2 DEF Parts

\* A display that keeps its types.
LEMMA PartsOK ==
    ASSUME NEW d, NEW s, NEW b, NEW x, NEW y, NEW f, d = Parts(s, b, x, y, f),
           DOMAIN s = Pixels, b \in [Tids -> Image], x \in Int, y \in Int, f.page \in Pages
    PROVE  DisplayOK(d)
  BY PartsOf DEF DisplayOK

\* The numbers that the operations on text count with.
LEMMA TextSizes ==
    /\ GlyphWidth \in Nat \ {0} /\ GlyphHeight \in Nat \ {0} /\ GlyphHeight \div 2 \in Int
    /\ WINDOW_WIDTH \in Nat /\ WINDOW_HEIGHT \in Nat
    /\ \A w \in Tids : /\ WindowX[w] \in Nat /\ WindowY[w] \in Nat
                       /\ LineStart(w) \in Nat /\ FirstLine(w) \in Nat
  BY GeometryAssumption DEF LineStart, FirstLine

\* A glyph keeps the types.
LEMMA PutcOK ==
    ASSUME NEW w \in Tids, NEW d, DisplayOK(d), NEW c \in Inks, NEW x, NEW y
    PROVE  LET e == VGA_putc(d, w, c, x, y)
           IN  DisplayOK(e) /\ e.x = d.x /\ e.y = d.y
                /\ e.buffer = [d.buffer EXCEPT ![w] = Paint(@, x, y, c)]
  <1> DEFINE b == [d.buffer EXCEPT ![w] = Paint(@, x, y, c)]
             shown == print_screen_or_buf(w, x - WindowX[w], y - WindowY[w])
             s == IF shown THEN Paint(d.screen, x, y, c) ELSE d.screen
             f == FishEntry(vidmap_flag[w], IF shown THEN Video ELSE w)
             e == VGA_putc(d, w, c, x, y)
  <1>1. e = Parts(s, b, d.x, d.y, f)
    BY PutcParts DEF DisplayOK
  <1>2. DOMAIN s = Pixels
    BY DEF Paint, VGA_drawRect, DisplayOK
  <1>3. b \in [Tids -> Image]
    <2>1. Paint(d.buffer[w], x, y, c) \in Image
      BY RectImage DEF Paint, DisplayOK
    <2> QED  BY <2>1 DEF DisplayOK
  <1>4. f.page \in Pages
    <2>1. (IF shown THEN Video ELSE w) \in Pages
      BY DEF Pages
    <2> QED  BY <2>1, EntryPage
  <1> HIDE DEF s, b, f, e
  <1>5. d.x \in Int /\ d.y \in Int
    BY DEF DisplayOK
  <1>6. DisplayOK(e)
    BY <1>1, <1>2, <1>3, <1>4, <1>5, PartsOK
  <1>7. e.x = d.x /\ e.y = d.y /\ e.buffer = b
    BY <1>1, PartsOf
  <1> QED  BY <1>6, <1>7 DEF e, b

\* So does a scroll.
LEMMA ScrollOK ==
    ASSUME NEW w \in Tids, NEW d, DisplayOK(d)
    PROVE  /\ DisplayOK(ScrollIfFull(d, w))
           /\ \A v \in Tids : v # w => ScrollIfFull(d, w).buffer[v] = d.buffer[v]
  <1> DEFINE b == [d.buffer EXCEPT ![w] = ScrolledUp(@, w)]
             s == CopyPixels(d.screen, b[w], ShownPixels(w))
             f == FishEntry(vidmap_flag[w], Video)
             e == ScrollIfFull(d, w)
             x == LineStart(w)
             y == d.y - GlyphHeight
  <1>1. CASE e = d
    BY <1>1
  <1>2. CASE e = Parts(s, b, x, y, f)
    <2>1. DOMAIN s = Pixels
      BY DEF CopyPixels
    <2>2. b \in [Tids -> Image]
      <3>1. ScrolledUp(d.buffer[w], w) \in Image
        BY ScrolledImage DEF DisplayOK
      <3> QED  BY <3>1 DEF DisplayOK
    <2>3. f.page \in Pages
      BY EntryPage DEF Pages
    <2>4. x \in Int /\ y \in Int
      BY TextSizes DEF DisplayOK
    <2>5. \A v \in Tids : v # w => b[v] = d.buffer[v]
      BY DEF DisplayOK
    <2> HIDE DEF s, b, f, e, x, y
    <2>6. DisplayOK(e)
      BY <1>2, <2>1, <2>2, <2>3, <2>4, PartsOK
    <2>7. e.buffer = b
      BY <1>2, PartsOf
    <2> QED  BY <2>5, <2>6, <2>7 DEF e
  <1>3. e = d \/ e = Parts(s, b, x, y, f)
    BY ScrollParts DEF DisplayOK
  <1> QED  BY <1>1, <1>2, <1>3

\* A display whose page has been mapped.
LEMMA MapOK ==
    ASSUME NEW d, DisplayOK(d), NEW page \in Pages, NEW t
    PROVE  LET e == MapPage(d, page, t)
           IN  DisplayOK(e) /\ e.screen = d.screen /\ e.buffer = d.buffer /\ e.x = d.x /\ e.y = d.y
  <1> DEFINE f == FishEntry(vidmap_flag[t], page)  e == MapPage(d, page, t)
  <1>1. e = Parts(d.screen, d.buffer, d.x, d.y, f)
    BY MapParts DEF DisplayOK
  <1>2. f.page \in Pages
    BY EntryPage
  <1> HIDE DEF f, e
  <1>3. DisplayOK(e)
    BY <1>1, <1>2, PartsOK DEF DisplayOK
  <1> QED  BY <1>1, <1>3, PartsOf DEF e

\* Where a character is painted, if one is.
Glyph(d, w, c) ==
    IF c = BS
    THEN IF d.x = LineStart(w) THEN <<WindowX[w] + WINDOW_WIDTH - GlyphWidth, d.y - GlyphHeight>>
         ELSE <<d.x - GlyphWidth, d.y>>
    ELSE <<d.x, d.y>>

\* A character: it is painted or it is not, the cursor moves, and the window
\* scrolls or does not.
LEMMA PutSteps ==
    ASSUME NEW w \in Tids, NEW d, DisplayOK(d), NEW c \in Letters \cup {NL, BS}
    PROVE  \E e, f :
              /\ e = d \/ \E ink \in Inks, x, y \in Int :
                             e = VGA_putc(d, w, ink, x, y) /\ <<x, y>> = Glyph(d, w, c)
              /\ DisplayOK(f) /\ f.screen = e.screen /\ f.buffer = e.buffer
              /\ Put(d, w, c) = f \/ Put(d, w, c) = ScrollIfFull(f, w)
              /\ c = NL => e = d
              /\ c = BS => Put(d, w, c) = f /\ (e = d \/ <<f.x, f.y>> = Glyph(d, w, c))
  <1>0. d.x \in Int /\ d.y \in Int
    BY DEF DisplayOK
  <1>1. CASE c = NL
    <2> DEFINE j == d.y + GlyphHeight  i == LineStart(w)  f == [d EXCEPT !.y = j, !.x = i]
    <2>1. i \in Int /\ j \in Int
      BY <1>0, TextSizes
    <2>2. Put(d, w, c) = ScrollIfFull(f, w) /\ c # BS
      BY <1>1 DEF Put, PutNewline, NL, BS
    <2> HIDE DEF i, j
    <2>3. f = Parts(d.screen, d.buffer, i, j, d.fish)
      BY MoveParts DEF DisplayOK
    <2> HIDE DEF f
    <2>4. DisplayOK(f) /\ f.screen = d.screen /\ f.buffer = d.buffer
      BY <2>1, <2>3, PartsOK, PartsOf DEF DisplayOK
    <2> QED  BY <2>2, <2>4
  <1>2. CASE c = BS
    <2> DEFINE atStart == d.x = LineStart(w)
               xx == IF atStart THEN WindowX[w] + WINDOW_WIDTH ELSE d.x
               x == xx - GlyphWidth
               y == IF atStart THEN d.y - GlyphHeight ELSE d.y
               e == VGA_putc(d, w, Black, x, y)
               f == [e EXCEPT !.x = x, !.y = y]
    <2>1. x \in Int /\ y \in Int /\ Black \in Inks
      BY <1>0, TextSizes DEF Inks
    <2>2. Put(d, w, c) = IF atStart /\ d.y = FirstLine(w) THEN d ELSE f
      BY <1>2 DEF Put, PutBackspace, NL, BS
    <2>3. <<x, y>> = Glyph(d, w, c)
      <3>1. CASE atStart
        <4>1. x = (WindowX[w] + WINDOW_WIDTH) - GlyphWidth /\ y = d.y - GlyphHeight
          BY <3>1
        <4>2. Glyph(d, w, c) = <<WindowX[w] + WINDOW_WIDTH - GlyphWidth, d.y - GlyphHeight>>
          BY <1>2, <3>1 DEF Glyph
        <4> HIDE DEF x, y
        <4>3. WindowX[w] + WINDOW_WIDTH - GlyphWidth = (WindowX[w] + WINDOW_WIDTH) - GlyphWidth
          BY TextSizes
        <4> QED  BY <4>1, <4>2, <4>3
      <3>2. CASE ~atStart
        BY <1>2, <3>2 DEF Glyph
      <3> QED  BY <3>1, <3>2
    <2> HIDE DEF x, y, atStart
    <2>4. DisplayOK(e)
      BY <2>1, PutcOK
    <2>6. e = VGA_putc(d, w, Black, x, y)
      OBVIOUS
    <2> HIDE DEF e
    <2>5. f = Parts(e.screen, e.buffer, x, y, e.fish)
      BY <2>4, MoveParts DEF DisplayOK
    <2> HIDE DEF f
    <2>7. DisplayOK(f) /\ f.screen = e.screen /\ f.buffer = e.buffer /\ f.x = x /\ f.y = y
      BY <2>1, <2>4, <2>5, PartsOK, PartsOf DEF DisplayOK
    <2>8. CASE Put(d, w, c) = d
      BY <2>8
    <2>9. CASE Put(d, w, c) = f
      <3>1. c # NL
        BY <1>2 DEF NL, BS
      <3>2. \E ink \in Inks, u, v \in Int : e = VGA_putc(d, w, ink, u, v) /\ <<u, v>> = Glyph(d, w, c)
        BY <2>1, <2>3, <2>6
      <3> QED  BY <2>3, <2>7, <2>9, <3>1, <3>2
    <2> QED  BY <2>2, <2>8, <2>9
  <1>3. CASE c # NL /\ c # BS
    <2> DEFINE cx == d.x
               cy == d.y
               e == VGA_putc(d, w, c, cx, cy)
               full == d.x + 2 * GlyphWidth >= WindowX[w] + WINDOW_WIDTH
               i == IF full THEN LineStart(w) ELSE d.x + GlyphWidth
               j == IF full THEN e.y + GlyphHeight \div 2 ELSE e.y
               f == [e EXCEPT !.x = i, !.y = j]
    <2>1. c \in Inks
      BY <1>3 DEF Inks
    <2>2. <<cx, cy>> = Glyph(d, w, c)
      BY <1>3 DEF Glyph
    <2>3. Put(d, w, c) = ScrollIfFull(f, w)
      BY <1>3 DEF Put, PutChar
    <2>4. cx \in Int /\ cy \in Int
      BY <1>0
    <2> HIDE DEF cx, cy
    <2>5. e = VGA_putc(d, w, c, cx, cy)
      OBVIOUS
    <2>6. DisplayOK(e)
      BY <2>1, <2>4, PutcOK
    <2> HIDE DEF e
    <2>7. i \in Int /\ j \in Int
      <3>1. e.y \in Int
        BY <2>6 DEF DisplayOK
      <3> QED  BY <1>0, <3>1, TextSizes
    <2> HIDE DEF i, j
    <2>8. f = Parts(e.screen, e.buffer, i, j, e.fish)
      BY <2>6, MoveParts DEF DisplayOK
    <2> HIDE DEF f
    <2>9. DisplayOK(f) /\ f.screen = e.screen /\ f.buffer = e.buffer
      BY <2>6, <2>7, <2>8, PartsOK, PartsOf DEF DisplayOK
    <2> QED  BY <1>3, <2>1, <2>2, <2>3, <2>4, <2>5, <2>9
  <1> QED  BY <1>1, <1>2, <1>3

\* A character keeps the types, and the buffers of the other terminals.
LEMMA PutOK ==
    ASSUME NEW w \in Tids, NEW d, DisplayOK(d), NEW c \in Letters \cup {NL, BS}
    PROVE  /\ DisplayOK(Put(d, w, c))
           /\ \A v \in Tids : v # w => Put(d, w, c).buffer[v] = d.buffer[v]
  <1>1. PICK e, f :
              /\ e = d \/ \E ink \in Inks, x, y \in Int : e = VGA_putc(d, w, ink, x, y)
              /\ DisplayOK(f) /\ f.screen = e.screen /\ f.buffer = e.buffer
              /\ Put(d, w, c) = f \/ Put(d, w, c) = ScrollIfFull(f, w)
    BY PutSteps
  <1>2. \A v \in Tids : v # w => e.buffer[v] = d.buffer[v]
    <2>1. CASE e = d
      BY <2>1
    <2>2. CASE \E ink \in Inks, x, y \in Int : e = VGA_putc(d, w, ink, x, y)
      <3>1. PICK ink \in Inks, x \in Int, y \in Int : e = VGA_putc(d, w, ink, x, y)
        BY <2>2
      <3>2. e.buffer = [d.buffer EXCEPT ![w] = Paint(@, x, y, ink)]
        BY <3>1, PutcOK
      <3> QED  BY <3>2 DEF DisplayOK
    <2> QED  BY <1>1, <2>1, <2>2
  <1> QED  BY <1>1, <1>2, ScrollOK

\* The display that is written through the cursor of a terminal.
LEMMA DisplayTyped ==
    ASSUME Typed, NEW t \in Tids
    PROVE  LET d == Display(t)
           IN  /\ DisplayOK(d) /\ d.screen = screen /\ d.buffer = buffer
               /\ d.x = cursor[t][1] /\ d.y = cursor[t][2]
  <1> DEFINE d == Display(t)  x == cursor[t][1]  y == cursor[t][2]
  <1>1. d = Parts(screen, buffer, x, y, fish)
    BY DEF Display, Parts
  <1>2. x \in Int /\ y \in Int
    BY DEF Typed
  <1> HIDE DEF d, x, y
  <1>3. DisplayOK(d)
    BY <1>1, <1>2, PartsOK DEF Typed
  <1> QED  BY <1>1, <1>3, PartsOf DEF d, x, y

\* What a display leaves in the variables.
LEMMA SetTyped ==
    ASSUME Typed, NEW t \in Tids, NEW d, DisplayOK(d), SetDisplay(d, t)
    PROVE  /\ DOMAIN screen' = Pixels /\ buffer' \in [Tids -> Image]
           /\ cursor' \in [Tids -> Int \X Int] /\ fish'.page \in Pages
  BY DEF Typed, DisplayOK, SetDisplay

\* Where the pointer ends up, the corner of the screen included.
LEMMA ClampedOn ==
    ASSUME NEW i \in Int, NEW j \in Int
    PROVE  Clamped(<<i, j>>) \in (0 .. X_RES - PointerWidth) \X (0 .. Y_RES - PointerHeight)
  <1>1. /\ X_RES - PointerWidth \in Nat /\ Y_RES - PointerHeight \in Nat
    BY GeometryAssumption
  <1> QED  BY <1>1 DEF Clamped, Smaller, Larger

\* The screen with the pointer drawn, and what it covers.
LEMMA PointerTyped ==
    ASSUME NEW img, NEW m, SetPointer(img, m)
    PROVE  DOMAIN screen' = Pixels /\ DOMAIN mouse_bg' = PointerBox(m)
  BY DEF SetPointer, VGA_saveMouseBG, VGA_drawMouse, VGA_drawRect

\* A window that is drawn in a buffer.
LEMMA WindowImage ==
    ASSUME NEW img \in Image, NEW w
    PROVE  VGA_drawWindows(img, w) \in Image
  <1>1. Black \in Inks /\ TitleInk \in Inks
    BY DEF Inks
  <1> QED  BY <1>1, RectImage DEF VGA_drawWindows

\* At boot the buffers are black and the pointer is in the corner of the screen.
LEMMA InitTyped == Init => Typed /\ Counted
  <1> SUFFICES ASSUME Init PROVE Typed /\ Counted
    OBVIOUS
  <1>1. Black \in Inks /\ 0 \in Tids /\ NoPage \in Pages
    BY DEF Inks, Tids, Pages
  <1>2. fish.page \in Pages
    BY <1>1, EntryPage DEF Init, InitialFish
  <1>3. cursor \in [Tids -> Int \X Int]
    BY TextSizes DEF Init
  <1>4. mouse \in (0 .. X_RES - PointerWidth) \X (0 .. Y_RES - PointerHeight)
    BY GeometryAssumption DEF Init
  <1>5. buffer \in [Tids -> Image] /\ DOMAIN screen = Pixels
    BY <1>1 DEF Init, Image, Desktop
  <1>6. Counted
    BY DisplayAssumption DEF Init, Counted
  <1> QED  BY <1>1, <1>2, <1>3, <1>4, <1>5, <1>6 DEF Init, Typed

\* The bounds that count presses of keys and what is typed.
LEMMA NextCounted ==
    ASSUME Layering, Counted, [Next]_vars
    PROVE  Counted'
  <1> USE DisplayAssumption
  <1>1. ASSUME UNCHANGED <<typed, steps>> PROVE Counted'
    BY <1>1 DEF Counted
  <1>2. ASSUME typed' = typed, steps' = steps + 1, steps < MaxSteps PROVE Counted'
    BY <1>2 DEF Counted
  <1>3. ASSUME NEW n \in Nat, n <= typed[viewing] + 1, typed' = [typed EXCEPT ![viewing] = n],
               steps' = steps + 1, steps < MaxSteps
        PROVE  Counted'
    BY <1>3 DEF Counted, Layering
  <1>4. CASE GUI_init \/ pit_int_handler \/ EndFish \/ UNCHANGED vars
    BY <1>1, <1>4 DEF GUI_init, pit_int_handler, EndFish, vars
  <1>5. ASSUME NEW c, terminal_write(c) PROVE Counted'
    BY <1>2, <1>5 DEF terminal_write
  <1>6. CASE syscall_vidmap \/ clear
    BY <1>2, <1>6 DEF syscall_vidmap, clear
  <1>7. ASSUME NEW t, switch_terminal(t) PROVE Counted'
    BY <1>2, <1>7 DEF switch_terminal
  <1>8. ASSUME NEW m, NEW left, mouse_int_handler(m, left) PROVE Counted'
    BY <1>2, <1>8 DEF mouse_int_handler
  <1>9. typed[viewing] \in Nat
    BY DEF Counted, Layering
  <1>10. ASSUME NEW c, Echo(c) PROVE Counted'
    <2> DEFINE n == IF c = NL THEN 0 ELSE typed[viewing] + 1
    <2>1. n \in Nat /\ n <= typed[viewing] + 1
      BY <1>9
    <2>2. typed' = [typed EXCEPT ![viewing] = n] /\ steps' = steps + 1 /\ steps < MaxSteps
      BY <1>10 DEF Echo
    <2> HIDE DEF n
    <2> QED  BY <1>3, <2>1, <2>2
  <1>11. CASE Backspace
    <2> DEFINE n == typed[viewing] - 1
    <2>1. n \in Nat /\ n <= typed[viewing] + 1
      BY <1>9, <1>11 DEF Backspace
    <2>2. typed' = [typed EXCEPT ![viewing] = n] /\ steps' = steps + 1 /\ steps < MaxSteps
      BY <1>11 DEF Backspace
    <2> HIDE DEF n
    <2> QED  BY <1>3, <2>1, <2>2
  <1> QED  BY <1>4, <1>5, <1>6, <1>7, <1>8, <1>10, <1>11 DEF Next

\* Every step keeps the types of the images, the cursors and the pointer.
LEMMA NextTyped ==
    ASSUME Layering, Typed, [Next]_vars
    PROVE  Typed'
  <1>0. viewing \in Tids /\ running \in Tids
    BY DEF Layering
  <1>1. CASE GUI_init
    <2>1. buffer' \in [Tids -> Image]
      BY <1>1, WindowImage DEF GUI_init, Typed
    <2>2. DOMAIN screen' = Pixels /\ DOMAIN mouse_bg' = PointerBox(mouse)
      BY <1>1 DEF GUI_init, CopyPixels, VGA_saveMouseBG
    <2> QED  BY <1>1, <2>1, <2>2 DEF GUI_init, Typed
  <1>2. CASE pit_int_handler
    <2>1. (running + 1) % 3 \in Tids
      BY <1>0 DEF Tids
    <2> QED  BY <1>2, <2>1 DEF pit_int_handler, Typed, display, pointer
  <1>3. ASSUME NEW d, DisplayOK(d), NEW t \in Tids, SetDisplay(d, t), ptr' \in Tids,
               UNCHANGED <<order, vidmap_flag, pointer, alive>>
        PROVE  Typed'
    BY <1>3, SetTyped DEF Typed, pointer
  <1>4. ASSUME NEW c \in Letters \cup {NL}, terminal_write(c) PROVE Typed'
    <2>1. ptr \in Tids
      BY DEF Typed
    <2>2. DisplayOK(nb_putc(Display(ptr), c))
      BY <1>0, <2>1, DisplayTyped, PutOK DEF nb_putc
    <2>3. SetDisplay(nb_putc(Display(ptr), c), ptr) /\ UNCHANGED <<ptr, order, vidmap_flag, pointer, alive>>
      BY <1>4 DEF terminal_write
    <2> QED  BY <1>3, <2>1, <2>2, <2>3
  <1>5. ASSUME NEW c \in Letters \cup {NL}, Echo(c) PROVE Typed'
    <2>1. DisplayOK(kbd_putc(Display(viewing), c))
      BY <1>0, DisplayTyped, PutOK DEF kbd_putc
    <2>2. SetDisplay(kbd_putc(Display(viewing), c), viewing) /\ ptr' = running
          /\ UNCHANGED <<order, vidmap_flag, pointer, alive>>
      BY <1>5 DEF Echo
    <2> QED  BY <1>0, <1>3, <2>1, <2>2
  <1>6. CASE syscall_vidmap
    <2> DEFINE page == IF running # viewing THEN running ELSE Video
    <2>1. page \in Pages
      BY <1>0 DEF Pages
    <2>2. FishEntry(TRUE, page).page \in Pages
      BY <2>1, EntryPage
    <2>3. fish' = FishEntry(TRUE, page) /\ vidmap_flag' = [vidmap_flag EXCEPT ![running] = TRUE]
          /\ UNCHANGED <<order, screen, buffer, cursor, ptr, pointer, alive>>
      BY <1>6 DEF syscall_vidmap
    <2> HIDE DEF page
    <2> QED  BY <2>2, <2>3 DEF Typed, pointer
  <1>7. CASE EndFish
    <2>1. InitialFish.page \in Pages
      BY EntryPage DEF InitialFish, Pages
    <2> QED  BY <1>7, <2>1 DEF EndFish, Typed, pointer
  <1>8. CASE Backspace
    <2> DEFINE d == Display(viewing)
               e == MapPage(d, Video, 0)
               f == Put(e, running, BS)
    <2>1. DisplayOK(d)
      BY <1>0, DisplayTyped
    <2> HIDE DEF d
    <2>2. DisplayOK(e)
      BY <2>1, MapOK DEF Pages
    <2> HIDE DEF e
    <2>3. DisplayOK(f)
      BY <1>0, <2>2, PutOK
    <2>4. SetDisplay(f, viewing) /\ ptr' = running /\ UNCHANGED <<order, vidmap_flag, pointer, alive>>
      BY <1>8 DEF Backspace, nb_putc, switchpagingtovideomem, d, e
    <2> HIDE DEF f
    <2> QED  BY <1>0, <1>3, <2>3, <2>4
  <1>9. CASE clear
    <2> DEFINE d == Display(viewing)
               e == change_vidmem_mapping(d, viewing)
               f == change_vidmem_mapping(e, running)
               s == VGA_drawRect(f.screen, WindowX[running], WindowY[running] + WINDOW_TITLE_HEIGHT,
                            WINDOW_WIDTH, WINDOW_HEIGHT - WINDOW_TITLE_HEIGHT, Black)
               x == LineStart(running)
               y == FirstLine(running)
               g == [f EXCEPT !.screen = s, !.x = x, !.y = y]
    <2>1. DisplayOK(d)
      BY <1>0, DisplayTyped
    <2>2. SetDisplay(g, viewing) /\ ptr' = running /\ UNCHANGED <<order, vidmap_flag, pointer, alive>>
      BY <1>9 DEF clear
    <2>3. x \in Int /\ y \in Int
      BY <1>0, TextSizes
    <2>4. DOMAIN s = Pixels
      BY DEF VGA_drawRect
    <2> HIDE DEF d, x, y, s
    <2>5. DisplayOK(e)
      <3>1. \A t \in Tids : (IF t # viewing THEN t ELSE Video) \in Pages
        BY DEF Pages
      <3> QED  BY <1>0, <2>1, <3>1, MapOK DEF change_vidmem_mapping
    <2> HIDE DEF e
    <2>6. DisplayOK(f)
      <3>1. \A t \in Tids : (IF t # viewing THEN t ELSE Video) \in Pages
        BY DEF Pages
      <3> QED  BY <1>0, <2>5, <3>1, MapOK DEF change_vidmem_mapping
    <2> HIDE DEF f
    <2>7. g = Parts(s, f.buffer, x, y, f.fish)
      <3> DEFINE h == [f EXCEPT !.screen = s]
      <3>1. h = Parts(s, f.buffer, f.x, f.y, f.fish)
        BY <2>6 DEF DisplayOK, IsDisplay, Parts
      <3>2. g = [h EXCEPT !.x = x, !.y = y]
        OBVIOUS
      <3> HIDE DEF g, h
      <3>3. IsDisplay(h) /\ h.screen = s /\ h.buffer = f.buffer /\ h.fish = f.fish
        BY <3>1, PartsOf
      <3>4. [h EXCEPT !.x = x, !.y = y] = Parts(h.screen, h.buffer, x, y, h.fish)
        BY <3>3, MoveParts
      <3> QED  BY <3>2, <3>3, <3>4
    <2> HIDE DEF g
    <2>8. DisplayOK(g)
      BY <2>3, <2>4, <2>6, <2>7, PartsOK DEF DisplayOK
    <2> QED  BY <1>0, <1>3, <2>2, <2>8
  <1>10. ASSUME NEW t \in Tids, ViewTerminal(t) PROVE ptr' \in Tids
    BY <1>10 DEF ViewTerminal, Typed
  <1>11. Video \in Pages
    BY DEF Pages
  <1>12. ASSUME NEW t \in Tids, switch_terminal(t) PROVE Typed'
    <2>1. fish'.page \in Pages
      BY <1>11, <1>12, EntryPage DEF switch_terminal
    <2>2. DOMAIN screen' = Pixels
      BY <1>12 DEF switch_terminal, Redrawn, CopyPixels
    <2> QED  BY <1>10, <1>12, <2>1, <2>2 DEF switch_terminal, Typed, pointer
  <1>13. ASSUME NEW m \in Moves, NEW left, mouse_int_handler(m, left) PROVE Typed'
    <2>1. fish'.page \in Pages
      BY <1>11, <1>13, EntryPage DEF mouse_int_handler
    <2>2. mouse' \in (0 .. X_RES - PointerWidth) \X (0 .. Y_RES - PointerHeight)
      <3>1. mouse[1] + m[1] \in Int /\ mouse[2] - m[2] \in Int
        <4>1. mouse[1] \in Int /\ mouse[2] \in Int
          BY GeometryAssumption DEF Typed
        <4>2. m[1] \in Int /\ m[2] \in Int
          BY DisplayAssumption
        <4> QED  BY <4>1, <4>2
      <3>2. mouse' = Clamped(<<mouse[1] + m[1], mouse[2] - m[2]>>)
        BY <1>13 DEF mouse_int_handler
      <3> QED  BY <3>1, <3>2, ClampedOn
    <2>3. (\E img : SetPointer(img, mouse')) /\ ptr' \in Tids
      <3>1. PICK chosen, bare :
              /\ chosen \in {{}, check_mouse_in_which_terminal(mouse')}
              /\ IF chosen = {} THEN SetPointer(bare, mouse') /\ ptr' = ptr
                 ELSE \E t \in chosen : SetPointer(Redrawn(bare, t), mouse') /\ ViewTerminal(t)
        BY <1>13 DEF mouse_int_handler
      <3>2. CASE chosen = {}
        BY <3>1, <3>2 DEF Typed
      <3>3. CASE chosen # {}
        <4>1. PICK t \in chosen : SetPointer(Redrawn(bare, t), mouse') /\ ViewTerminal(t)
          BY <3>1, <3>3
        <4>2. t \in Tids
          BY <3>1, <4>1 DEF check_mouse_in_which_terminal
        <4> QED  BY <1>10, <4>1, <4>2
      <3> QED  BY <3>2, <3>3
    <2>4. DOMAIN screen' = Pixels /\ DOMAIN mouse_bg' = PointerBox(mouse')
      BY <2>3, PointerTyped
    <2> QED  BY <1>13, <2>1, <2>2, <2>3, <2>4 DEF mouse_int_handler, Typed
  <1>14. CASE UNCHANGED vars
    BY <1>14 DEF vars, display, pointer, Typed
  <1> QED  BY <1>1, <1>2, <1>4, <1>5, <1>6, <1>7, <1>8, <1>9, <1>12, <1>13, <1>14 DEF Next

\* Images stay as large as the screen, buffers hold only what is printed or a
\* window is made of, the pointer stays on the screen and covers what it keeps,
\* and no line is longer than the keys that were pressed.
THEOREM TypeCorrect == Spec => []TypeOK
  <1>1. Typed /\ Layering /\ Counted => TypeOK
    <2> SUFFICES ASSUME Typed, Layering, Counted PROVE TypeOK
      OBVIOUS
    <2>1. \A t \in Tids : DOMAIN buffer[t] = Pixels
      BY DEF Typed, Image
    <2>2. typed \in [Tids -> 0 .. MaxSteps]
      BY DisplayAssumption DEF Counted
    <2>3. mouse[1] \in 0 .. X_RES - PointerWidth /\ mouse[2] \in 0 .. Y_RES - PointerHeight
      BY DEF Typed
    <2>4. steps \in 0 .. MaxSteps /\ fish.page \in Tids \cup {Video, NoPage}
      BY DEF Counted, Typed, Pages
    <2> QED  BY <2>1, <2>2, <2>3, <2>4 DEF Typed, Layering, TypeOK
  <1> QED  BY <1>1, InitTyped, NextTyped, InitLayering, NextLayering, NextCounted, PTL DEF Spec

----------------------------------------------------------------------------
(* What the window in front shows.                                          *)

\* The box of what is drawn at a place does not run over the right edge.
LEMMA BoxPixels ==
    ASSUME NEW x \in Nat, NEW y \in Nat, NEW w \in Nat, NEW h \in Nat, x + w <= X_RES,
           NEW p \in Pixels, InBox(p, At(x, y), w, h)
    PROVE  p \in Box(x, y, w, h)
  <1> DEFINE n == p - At(x, y)
             i == n % X_RES
             j == n \div X_RES
  <1>1. X_RES \in Nat \ {0} /\ p \in Nat
    BY GeometryAssumption DEF Pixels
  <1>2. At(x, y) \in Nat /\ n \in Nat /\ i < w /\ j < h
    BY <1>1 DEF At, InBox
  <1>3. n = X_RES * j + i /\ j \in Nat /\ i \in Nat
    <2> HIDE DEF n
    <2>1. n = X_RES * (n \div X_RES) + (n % X_RES) /\ n \div X_RES \in Nat /\ n % X_RES \in 0 .. X_RES - 1
      BY <1>1, <1>2, DivMod, Zenon
    <2>2. n % X_RES \in Nat
      BY <1>1, <2>1
    <2> QED  BY <2>1, <2>2, Zenon
  <1>4. p = (y + j) * X_RES + (x + i)
    <2>1. p = (y * X_RES + x) + n
      BY <1>1, <1>2 DEF At
    <2> HIDE DEF i, j, n
    <2> QED  BY <1>1, <1>3, <2>1
  <1> HIDE DEF n, i, j
  <1>5. x + i \in x .. x + w - 1 /\ y + j \in y .. y + h - 1
    BY <1>2, <1>3
  <1>6. p = At(x + i, y + j)
    BY <1>4 DEF At
  <1> QED  BY <1>5, <1>6 DEF Box

\* The pointer covers the pixels that are kept for it.
LEMMA PointerPixels ==
    ASSUME NEW m \in (0 .. X_RES - PointerWidth) \X (0 .. Y_RES - PointerHeight),
           NEW p \in Pixels, InBox(p, At(m[1], m[2]), PointerWidth, PointerHeight)
    PROVE  p \in PointerBox(m)
  <1>1. /\ m[1] \in Nat /\ m[2] \in Nat /\ m[1] + PointerWidth <= X_RES
        /\ PointerWidth \in Nat /\ PointerHeight \in Nat
    BY GeometryAssumption
  <1> QED  BY <1>1, BoxPixels DEF PointerBox

\* In a window each pixel has come to be as its buffer has it, or is as it was in
\* both.
Together(d, e, w) ==
    \A p \in InWindow(w) : \/ e.screen[p] = e.buffer[w][p]
                           \/ e.screen[p] = d.screen[p] /\ e.buffer[w][p] = d.buffer[w][p]

\* One such change after the other.
LEMMA TogetherBoth ==
    ASSUME NEW w, NEW d, NEW e, NEW f, Together(d, e, w), Together(e, f, w)
    PROVE  Together(d, f, w)
  BY DEF Together

\* Where the lower right corner of a glyph is on the screen.
OnScreen(x, y) == check_pixel_in_screen(x + GlyphWidth - 1, y + GlyphHeight - 1)

\* A glyph for the window in front is drawn on both images if it is on the screen.
LEMMA PutcTogether ==
    ASSUME NEW w \in Tids, layer[w] = TOP, NEW d, DisplayOK(d), NEW c, NEW x \in Int, NEW y \in Int,
           OnScreen(x, y)
    PROVE  Together(d, VGA_putc(d, w, c, x, y), w)
  <1> DEFINE e == VGA_putc(d, w, c, x, y)
             b == [d.buffer EXCEPT ![w] = Paint(@, x, y, c)]
             s == Paint(d.screen, x, y, c)
             f == FishEntry(vidmap_flag[w], Video)
             shown == print_screen_or_buf(w, x - WindowX[w], y - WindowY[w])
  <1>1. shown
    <2>1. /\ ((x - WindowX[w]) + GlyphWidth - 1) + WindowX[w] = x + GlyphWidth - 1
          /\ ((y - WindowY[w]) + GlyphHeight - 1) + WindowY[w] = y + GlyphHeight - 1
      BY TextSizes
    <2> QED  BY <2>1 DEF OnScreen, print_screen_or_buf
  <1>2. e = Parts(s, b, d.x, d.y, f)
    <2> HIDE DEF e
    <2>1. e = Parts(IF shown THEN s ELSE d.screen, b, d.x, d.y,
                    FishEntry(vidmap_flag[w], IF shown THEN Video ELSE w))
      BY PutcParts DEF DisplayOK, e
    <2> QED  BY <1>1, <2>1
  <1>3. b[w] = Paint(d.buffer[w], x, y, c)
    BY DEF DisplayOK
  <1> HIDE DEF b, e, f, s
  <1>4. e.screen = s /\ e.buffer = b
    BY <1>2, PartsOf
  <1>5. \A p \in InWindow(w) : p \in Pixels
    BY WindowPixels
  <1>6. \A p \in InWindow(w) : \/ s[p] = b[w][p]
                               \/ s[p] = d.screen[p] /\ b[w][p] = d.buffer[w][p]
    <2> SUFFICES ASSUME NEW p \in InWindow(w)
                 PROVE  s[p] = b[w][p] \/ (s[p] = d.screen[p] /\ b[w][p] = d.buffer[w][p])
      OBVIOUS
    <2> DEFINE inside == InBox(p, At(x, y), GlyphWidth, GlyphHeight)
    <2>1. s[p] = (IF inside THEN c ELSE d.screen[p])
      BY <1>5 DEF Paint, VGA_drawRect, s
    <2>2. b[w][p] = (IF inside THEN c ELSE d.buffer[w][p])
      BY <1>3, <1>5 DEF Paint, VGA_drawRect
    <2> QED  BY <2>1, <2>2
  <1> QED  BY <1>4, <1>6 DEF Together, e

\* The window in front is copied from its buffer when it scrolls.
LEMMA ScrollTogether ==
    ASSUME NEW w \in Tids, layer[w] = TOP, NEW d, DisplayOK(d)
    PROVE  Together(d, ScrollIfFull(d, w), w)
  <1> DEFINE b == [d.buffer EXCEPT ![w] = ScrolledUp(@, w)]
             s == CopyPixels(d.screen, b[w], ShownPixels(w))
             f == FishEntry(vidmap_flag[w], Video)
             e == ScrollIfFull(d, w)
  <1>1. \A p \in InWindow(w) : s[p] = b[w][p]
    <2>1. ShownPixels(w) = InWindow(w)
      BY DEF ShownPixels, Shown, TOP, MIDDLE, BOTTOM
    <2> QED  BY <2>1, WindowPixels DEF CopyPixels
  <1>2. \/ e = d
        \/ e = Parts(s, b, LineStart(w), d.y - GlyphHeight, f)
    BY ScrollParts DEF DisplayOK
  <1> HIDE DEF b, s, f, e
  <1>3. CASE e = d
    BY <1>3 DEF Together, e
  <1>4. CASE e = Parts(s, b, LineStart(w), d.y - GlyphHeight, f)
    <2>1. e.screen = s /\ e.buffer = b
      BY <1>4, PartsOf
    <2> QED  BY <1>1, <2>1 DEF Together, e
  <1> QED  BY <1>2, <1>3, <1>4

\* A character for the window in front: on both images, if its glyph is on the
\* screen.
LEMMA PutTogether ==
    ASSUME NEW w \in Tids, layer[w] = TOP, NEW d, DisplayOK(d), NEW c \in Letters \cup {NL, BS},
           \/ c = NL
           \/ OnScreen(Glyph(d, w, c)[1], Glyph(d, w, c)[2])
           \/ c = BS /\ OnScreen(Put(d, w, c).x, Put(d, w, c).y)
    PROVE  Together(d, Put(d, w, c), w)
  <1> DEFINE r == Put(d, w, c)  g == Glyph(d, w, c)
  <1>1. PICK e, f :
              /\ e = d \/ \E ink \in Inks, x, y \in Int :
                             e = VGA_putc(d, w, ink, x, y) /\ <<x, y>> = g
              /\ DisplayOK(f) /\ f.screen = e.screen /\ f.buffer = e.buffer
              /\ r = f \/ r = ScrollIfFull(f, w)
              /\ c = NL => e = d
              /\ c = BS => r = f /\ (e = d \/ <<f.x, f.y>> = g)
    BY PutSteps
  <1>2. c = NL \/ OnScreen(g[1], g[2]) \/ (c = BS /\ OnScreen(r.x, r.y))
    OBVIOUS
  <1> HIDE DEF r, g
  <1>3. Together(d, e, w)
    <2>1. CASE e = d
      BY <2>1 DEF Together
    <2>2. CASE e # d
      <3>1. PICK ink \in Inks, x \in Int, y \in Int : e = VGA_putc(d, w, ink, x, y) /\ <<x, y>> = g
        BY <1>1, <2>2
      <3>2. c # NL
        BY <1>1, <2>2
      <3>3. g[1] = x /\ g[2] = y
        BY <3>1
      <3>4. c = BS => r = f /\ f.x = x /\ f.y = y
        BY <1>1, <2>2, <3>1
      <3>5. OnScreen(x, y)
        BY <1>2, <3>2, <3>3, <3>4
      <3> QED  BY <3>1, <3>5, PutcTogether
    <2> QED  BY <2>1, <2>2
  <1>4. Together(d, f, w)
    BY <1>1, <1>3 DEF Together
  <1>5. CASE r = f
    BY <1>4, <1>5 DEF r
  <1>6. CASE r = ScrollIfFull(f, w)
    <2>1. Together(f, ScrollIfFull(f, w), w)
      BY <1>1, ScrollTogether
    <2>2. Together(d, ScrollIfFull(f, w), w)
      BY <1>4, <2>1, TogetherBoth
    <2> QED  BY <1>6, <2>2 DEF r
  <1> QED  BY <1>1, <1>5, <1>6

\* A character for another window leaves the one in front and its buffer alone.
LEMMA PutBehind ==
    ASSUME Layering, NEW v \in Tids, v # viewing, NEW d, DisplayOK(d), Fits(v, d.x, d.y),
           NEW c \in Letters \cup {NL}
    PROVE  Together(d, Put(d, v, c), viewing)
  <1> DEFINE e == Put(d, v, c)
  <1>1. e.buffer[viewing] = d.buffer[viewing]
    BY PutOK DEF Layering
  <1>2. DrawsOnTop(d, e, v)
    BY PutOnTop DEF DisplayOK
  <1>3. \A p : OnTop(v, p) => p \notin InWindow(viewing)
    BY DEF OnTop, Layering, TOP, MIDDLE, BOTTOM
  <1>4. \A p \in InWindow(viewing) : p \in Pixels
    BY WindowPixels DEF Layering
  <1> QED  BY <1>1, <1>2, <1>3, <1>4 DEF DrawsOnTop, Together

\* No picture of text has the colour of the pointer in it.
LEMMA NoPointerInText ==
    ASSUME NEW img \in Image, NEW p \in Pixels
    PROVE  img[p] # PointerInk
  BY DisplayAssumption DEF Image, Inks

\* Text: what was on the window in front and what has come to be there, where the
\* pointer is not disturbed.
LEMMA TextShows ==
    ASSUME Layering, Typed, Typed', ShowsBuffer(viewing), UNCHANGED <<viewing, mouse, mouse_bg>>,
           \A p \in PointerBox(mouse) \cap InWindow(viewing') : screen'[p] = PointerInk,
           \A p \in InWindow(viewing) :
              \/ screen'[p] = buffer'[viewing][p]
              \/ screen'[p] = screen[p] /\ buffer'[viewing][p] = buffer[viewing][p]
    PROVE  ShowsBuffer(viewing)'
  <1> SUFFICES ASSUME NEW p \in InWindow(viewing)
               PROVE  (IF p \in PointerBox(mouse) THEN mouse_bg[p] ELSE screen'[p]) = buffer'[viewing][p]
    <2>1. \A p \in InWindow(viewing) : p \in Pixels
      BY WindowPixels DEF Layering
    <2> QED  BY <2>1 DEF ShowsBuffer, Uncovered
  <1>1. viewing \in Tids /\ p \in Pixels
    BY WindowPixels DEF Layering
  <1>2. (IF p \in PointerBox(mouse) THEN mouse_bg[p] ELSE screen[p]) = buffer[viewing][p]
    BY <1>1 DEF ShowsBuffer, Uncovered
  <1>3. CASE p \notin PointerBox(mouse)
    BY <1>2, <1>3
  <1>4. CASE p \in PointerBox(mouse)
    <2>1. screen'[p] = PointerInk
      BY <1>4
    <2>2. buffer'[viewing] \in Image
      BY <1>1 DEF Typed
    <2>3. screen'[p] # buffer'[viewing][p]
      BY <1>1, <2>1, <2>2, NoPointerInText
    <2>4. buffer'[viewing][p] = buffer[viewing][p]
      BY <2>3
    <2> QED  BY <1>2, <1>4, <2>4
  <1> QED  BY <1>3, <1>4

\* The same, of the display that a step leaves.
LEMMA PutShows ==
    ASSUME Layering, Typed, Typed', ShowsBuffer(viewing), UNCHANGED <<viewing, pointer>>,
           \A p \in PointerBox(mouse) \cap InWindow(viewing') : screen'[p] = PointerInk,
           NEW d, NEW e, NEW t, Together(d, e, viewing), d.screen = screen, d.buffer = buffer,
           SetDisplay(e, t)
    PROVE  ShowsBuffer(viewing)'
  <1>1. screen' = e.screen /\ buffer' = e.buffer
    BY DEF SetDisplay
  <1> QED  BY <1>1, TextShows DEF Together, pointer

\* A glyph at a cursor inside a window is on the screen.
LEMMA InsideOnScreen ==
    ASSUME NEW t \in Tids, CursorInside(t)
    PROVE  OnScreen(cursor[t][1], cursor[t][2])
  BY GeometryAssumption DEF CursorInside, OnScreen, check_pixel_in_screen

\* A program prints.
LEMMA WriteShows ==
    ASSUME Layering, Typed, Typed', Counted, ShowsBuffer(viewing), NEW c \in Letters \cup {NL},
           terminal_write(c), ~Misplaced
    PROVE  ShowsBuffer(viewing)'
  <1>1. steps' # steps /\ typed' = typed /\ mouse' = mouse
    <2>1. steps \in Nat
      BY DEF Counted
    <2> QED  BY <2>1 DEF terminal_write, pointer
  <1>2. /\ ptr = running /\ CursorInside(ptr)
        /\ \A p \in PointerBox(mouse) \cap InWindow(viewing') : screen'[p] = PointerInk
    BY <1>1 DEF Misplaced, Prints
  <1> DEFINE d == Display(ptr)  e == Put(d, running, c)
  <1>3. SetDisplay(e, ptr) /\ UNCHANGED <<viewing, pointer>>
    BY DEF terminal_write, nb_putc
  <1>4. running \in Tids /\ viewing \in Tids /\ ptr \in Tids
    BY DEF Layering, Typed
  <1>5. DisplayOK(d) /\ d.screen = screen /\ d.buffer = buffer /\ d.x = cursor[ptr][1] /\ d.y = cursor[ptr][2]
    BY <1>4, DisplayTyped
  <1>6. CASE running = viewing
    <2>1. layer[running] = TOP /\ c # BS
      BY <1>6, DisplayAssumption DEF Layering, NL, BS
    <2>2. OnScreen(cursor[ptr][1], cursor[ptr][2])
      BY <1>2, <1>4, InsideOnScreen
    <2> HIDE DEF d
    <2>3. Glyph(d, running, c)[1] = d.x /\ Glyph(d, running, c)[2] = d.y
      BY <2>1 DEF Glyph
    <2>4. OnScreen(Glyph(d, running, c)[1], Glyph(d, running, c)[2])
      BY <1>5, <2>2, <2>3
    <2>5. Together(d, e, running)
      BY <1>4, <1>5, <2>1, <2>4, PutTogether
    <2> HIDE DEF e
    <2> QED  BY <1>2, <1>3, <1>5, <1>6, <2>5, PutShows
  <1>7. CASE running # viewing
    <2>1. Fits(running, d.x, d.y)
      <3> HIDE DEF d
      <3> QED  BY <1>2, <1>5 DEF CursorInside, Fits
    <2> HIDE DEF d
    <2>2. Together(d, e, viewing)
      BY <1>4, <1>5, <1>7, <2>1, PutBehind
    <2> HIDE DEF e
    <2> QED  BY <1>2, <1>3, <1>5, <2>2, PutShows
  <1> QED  BY <1>6, <1>7

\* A key is echoed in the window that is viewed.
LEMMA EchoShows ==
    ASSUME Layering, Typed, Typed', Counted, ShowsBuffer(viewing), NEW c \in Letters \cup {NL},
           Echo(c), ~Misplaced
    PROVE  ShowsBuffer(viewing)'
  <1> DEFINE d == Display(viewing)  e == Put(d, viewing, c)
  <1>1. SetDisplay(e, viewing) /\ UNCHANGED <<viewing, pointer>>
    BY DEF Echo, kbd_putc
  <1>2. viewing \in Tids /\ layer[viewing] = TOP /\ c # BS
    BY DisplayAssumption DEF Layering, NL, BS
  <1>3. DisplayOK(d) /\ d.screen = screen /\ d.buffer = buffer
        /\ d.x = cursor[viewing][1] /\ d.y = cursor[viewing][2]
    BY <1>2, DisplayTyped
  <1>4. \A p \in PointerBox(mouse) \cap InWindow(viewing') : screen'[p] = PointerInk
    BY <1>1 DEF Misplaced, pointer
  <1>5. c = NL \/ OnScreen(cursor[viewing][1], cursor[viewing][2])
    <2> SUFFICES ASSUME c # NL PROVE ~OffScreen(cursor[viewing])
      BY DEF OffScreen, OnScreen
    <2>1. typed' = [typed EXCEPT ![viewing] = typed[viewing] + 1] /\ typed \in [Tids -> Nat]
      BY DEF Echo, Counted
    <2>2. typed'[viewing] # typed[viewing]
      BY <1>2, <2>1
    <2> QED  BY <2>2 DEF Misplaced
  <1> HIDE DEF d
  <1>6. Glyph(d, viewing, c)[1] = d.x /\ Glyph(d, viewing, c)[2] = d.y
    BY <1>2 DEF Glyph
  <1>7. c = NL \/ OnScreen(Glyph(d, viewing, c)[1], Glyph(d, viewing, c)[2])
    BY <1>3, <1>5, <1>6
  <1>8. Together(d, e, viewing)
    BY <1>2, <1>3, <1>7, PutTogether
  <1> HIDE DEF e
  <1> QED  BY <1>1, <1>3, <1>4, <1>8, PutShows

\* Backspace, when the terminal that is viewed runs.
LEMMA BackspaceShows ==
    ASSUME Layering, Typed, Typed', Counted, ShowsBuffer(viewing), Backspace, ~Misplaced
    PROVE  ShowsBuffer(viewing)'
  <1> DEFINE d == Display(viewing)  f == MapPage(d, Video, 0)  e == Put(f, running, BS)
  <1>1. SetDisplay(e, viewing) /\ UNCHANGED <<viewing, pointer>>
    BY DEF Backspace, nb_putc, switchpagingtovideomem
  <1>2. viewing \in Tids /\ layer[viewing] = TOP
    BY DEF Layering
  <1>3. typed'[viewing] < typed[viewing] /\ typed' # typed
    <2>1. typed' = [typed EXCEPT ![viewing] = typed[viewing] - 1] /\ typed[viewing] \in Nat
          /\ typed \in [Tids -> Nat]
      BY <1>2 DEF Backspace, Counted
    <2>2. typed'[viewing] = typed[viewing] - 1
      BY <1>2, <2>1
    <2> QED  BY <2>1, <2>2
  <1>4. /\ running = viewing /\ ~OffScreen(cursor'[viewing])
        /\ \A p \in PointerBox(mouse) \cap InWindow(viewing') : screen'[p] = PointerInk
    BY <1>1, <1>3 DEF Misplaced, pointer
  <1>5. DisplayOK(d) /\ d.screen = screen /\ d.buffer = buffer
    BY <1>2, DisplayTyped
  <1> HIDE DEF d
  <1>6. DisplayOK(f) /\ f.screen = screen /\ f.buffer = buffer
    BY <1>5, MapOK DEF Pages
  <1> HIDE DEF f
  <1>7. cursor'[viewing] = <<e.x, e.y>>
    BY <1>1, <1>2 DEF SetDisplay, Typed
  <1>8. OnScreen(e.x, e.y)
    <2> HIDE DEF e
    <2> QED  BY <1>4, <1>7 DEF OffScreen, OnScreen
  <1>9. Together(f, e, viewing)
    <2>1. e = Put(f, viewing, BS)
      BY <1>4
    <2>2. OnScreen(Put(f, viewing, BS).x, Put(f, viewing, BS).y)
      BY <1>8, <2>1
    <2>3. Together(f, Put(f, viewing, BS), viewing)
      BY <1>2, <1>6, <2>2, PutTogether
    <2> QED  BY <2>1, <2>3
  <1> HIDE DEF e
  <1> QED  BY <1>1, <1>4, <1>6, <1>9, PutShows

\* A terminal that comes to the front is drawn as its buffer has it; where the
\* pointer was, it is gone.
LEMMA SwitchShows ==
    ASSUME Typed, NEW t \in Tids, switch_terminal(t), ~Misplaced
    PROVE  ShowsBuffer(viewing)'
  <1>1. /\ screen' = Redrawn(screen, t) /\ viewing' = t /\ UNCHANGED <<buffer, mouse, mouse_bg>>
    BY DEF switch_terminal, ViewTerminal, pointer
  <1> SUFFICES ASSUME NEW p \in InWindow(t)
               PROVE  (IF p \in PointerBox(mouse) THEN mouse_bg[p] ELSE screen'[p]) = buffer[t][p]
    <2>1. \A p \in InWindow(t) : p \in Pixels
      BY WindowPixels
    <2> QED  BY <1>1, <2>1 DEF ShowsBuffer, Uncovered
  <1>2. p \in Pixels
    BY WindowPixels
  <1>3. screen'[p] = buffer[t][p]
    BY <1>1, <1>2 DEF Redrawn, CopyPixels
  <1>4. buffer[t] \in Image
    BY DEF Typed
  <1>5. screen'[p] # PointerInk
    BY <1>2, <1>3, <1>4, NoPointerInText
  <1>6. p \notin PointerBox(mouse)
    BY <1>1, <1>5 DEF Misplaced
  <1> QED  BY <1>3, <1>6

\* The pointer on an image that shows a window: what it covers of it is kept.
LEMMA PointerShows ==
    ASSUME NEW img, NEW t \in Tids, buffer' = buffer, viewing' = t, SetPointer(img, mouse'),
           mouse' \in (0 .. X_RES - PointerWidth) \X (0 .. Y_RES - PointerHeight),
           \A p \in InWindow(t) : img[p] = buffer[t][p]
    PROVE  ShowsBuffer(viewing)'
  <1> SUFFICES ASSUME NEW p \in InWindow(t)
               PROVE  (IF p \in PointerBox(mouse') THEN mouse_bg'[p] ELSE screen'[p]) = buffer[t][p]
    <2>1. \A p \in InWindow(t) : p \in Pixels
      BY WindowPixels
    <2> QED  BY <2>1 DEF ShowsBuffer, Uncovered
  <1>1. p \in Pixels
    BY WindowPixels
  <1>2. CASE p \in PointerBox(mouse')
    BY <1>2 DEF SetPointer, VGA_saveMouseBG
  <1>3. CASE p \notin PointerBox(mouse')
    <2> DEFINE m == mouse'
    <2>1. ~InBox(p, At(m[1], m[2]), PointerWidth, PointerHeight)
      <3>1. m \in (0 .. X_RES - PointerWidth) \X (0 .. Y_RES - PointerHeight) /\ p \notin PointerBox(m)
        BY <1>3
      <3> HIDE DEF m
      <3> QED  BY <1>1, <3>1, PointerPixels
    <2>2. screen' = VGA_drawMouse(img, m)
      BY DEF SetPointer
    <2> HIDE DEF m
    <2>3. screen'[p] = img[p]
      BY <1>1, <2>1, <2>2 DEF VGA_drawMouse, VGA_drawRect
    <2> QED  BY <1>3, <2>3
  <1> QED  BY <1>2, <1>3

\* A packet of the mouse: the screen without the pointer shows the window in front,
\* or the one that a click has brought there.
LEMMA MouseShows ==
    ASSUME Layering, Typed, Typed', ShowsBuffer(viewing), NEW m \in Moves, NEW left \in BOOLEAN,
           mouse_int_handler(m, left)
    PROVE  ShowsBuffer(viewing)'
  <1> DEFINE bare == VGA_putmouseBG(screen)
  <1>1. PICK chosen :
          /\ chosen \in {{}, check_mouse_in_which_terminal(mouse')}
          /\ IF chosen = {} THEN SetPointer(bare, mouse') /\ viewing' = viewing
             ELSE \E t \in chosen : SetPointer(Redrawn(bare, t), mouse') /\ ViewTerminal(t)
    BY DEF mouse_int_handler
  <1>2. buffer' = buffer /\ mouse' \in (0 .. X_RES - PointerWidth) \X (0 .. Y_RES - PointerHeight)
    BY DEF mouse_int_handler, Typed
  <1>3. CASE chosen = {}
    <2>1. \A p \in InWindow(viewing) : bare[p] = buffer[viewing][p]
      <3>1. \A p \in InWindow(viewing) : p \in Pixels
        BY WindowPixels DEF Layering
      <3> QED  BY <3>1 DEF ShowsBuffer, Uncovered, VGA_putmouseBG, CopyPixels
    <2>2. SetPointer(bare, mouse') /\ viewing' = viewing /\ viewing \in Tids
      BY <1>1, <1>3 DEF Layering
    <2> HIDE DEF bare
    <2> QED  BY <1>2, <2>1, <2>2, PointerShows
  <1>4. CASE chosen # {}
    <2>1. PICK t \in chosen : SetPointer(Redrawn(bare, t), mouse') /\ ViewTerminal(t)
      BY <1>1, <1>4
    <2>2. t \in Tids /\ viewing' = t
      BY <1>1, <2>1 DEF check_mouse_in_which_terminal, ViewTerminal
    <2> HIDE DEF bare
    <2>3. \A p \in InWindow(t) : Redrawn(bare, t)[p] = buffer[t][p]
      <3>1. \A p \in InWindow(t) : p \in Pixels
        BY <2>2, WindowPixels
      <3> QED  BY <3>1 DEF Redrawn, CopyPixels
    <2> QED  BY <1>2, <2>1, <2>2, <2>3, PointerShows
  <1> QED  BY <1>3, <1>4

\* What leaves the images, the pointer and the view alone.
LEMMA SameShows ==
    ASSUME ShowsBuffer(viewing), UNCHANGED <<screen, buffer, viewing, mouse, mouse_bg>>
    PROVE  ShowsBuffer(viewing)'
  BY DEF ShowsBuffer, Uncovered

\* The window in front goes on showing what is in its terminal's buffer, whatever
\* program prints, whichever key is typed and wherever the mouse goes, but for the
\* misplaced drawings (nb_putc, kbd_putc, switch_terminal, mouse_int_handler).
THEOREM FrontCorrect == Spec => FrontShowsBuffer
  <1>1. ASSUME Layering, Typed, Typed', Counted, [Next]_vars
        PROVE  [Up /\ ShowsBuffer(viewing) /\ ~Misplaced => ShowsBuffer(viewing)']_vars
    <2> SUFFICES ASSUME Next, Up, ShowsBuffer(viewing), ~Misplaced
                 PROVE  ShowsBuffer(viewing)'
      BY <1>1
    <2>1. CASE GUI_init
      BY <2>1 DEF GUI_init
    <2>2. CASE pit_int_handler \/ syscall_vidmap \/ EndFish
      BY <2>2, SameShows DEF pit_int_handler, syscall_vidmap, EndFish, display, pointer
    <2>3. ASSUME NEW c \in Letters \cup {NL}, terminal_write(c) \/ Echo(c) PROVE ShowsBuffer(viewing)'
      BY <1>1, <2>3, WriteShows, EchoShows
    <2>4. CASE Backspace
      BY <1>1, <2>4, BackspaceShows
    <2>5. CASE clear
      <3>1. steps' # steps /\ typed' = typed
        BY <1>1, <2>5 DEF clear, Counted
      <3> QED  BY <2>5, <3>1 DEF Misplaced
    <2>6. ASSUME NEW t \in Tids, switch_terminal(t) PROVE ShowsBuffer(viewing)'
      BY <1>1, <2>6, SwitchShows
    <2>7. ASSUME NEW m \in Moves, NEW left \in BOOLEAN, mouse_int_handler(m, left)
          PROVE  ShowsBuffer(viewing)'
      BY <1>1, <2>7, MouseShows
    <2> QED  BY <2>1, <2>2, <2>3, <2>4, <2>5, <2>6, <2>7 DEF Next
  <1> QED  BY <1>1, InitTyped, NextTyped, InitLayering, NextLayering, NextCounted, PTL
          DEF Spec, FrontShowsBuffer

----------------------------------------------------------------------------
(* Icons.                                                                   *)

\* A rectangle changes no pixel outside it.
LEMMA RectOutside ==
    ASSUME NEW x \in Nat, NEW y \in Nat, NEW w \in Nat, NEW h \in Nat, x + w <= X_RES,
           NEW img, NEW c, NEW p \in Pixels, p \notin Box(x, y, w, h)
    PROVE  VGA_drawRect(img, x, y, w, h, c)[p] = img[p]
  BY BoxPixels DEF VGA_drawRect

\* A window changes no pixel outside it.
LEMMA WindowOutside ==
    ASSUME NEW w \in Tids, NEW img, NEW p \in Pixels, p \notin InWindow(w)
    PROVE  VGA_drawWindows(img, w)[p] = img[p]
  <1> DEFINE x == WindowX[w]  y == WindowY[w]
             black == VGA_drawRect(img, x, y, WINDOW_WIDTH, WINDOW_HEIGHT, Black)
  <1>1. /\ x \in Nat /\ y \in Nat /\ x + WINDOW_WIDTH <= X_RES
        /\ WINDOW_WIDTH \in Nat /\ WINDOW_HEIGHT \in Nat /\ WINDOW_TITLE_HEIGHT \in Nat
        /\ WINDOW_TITLE_HEIGHT <= WINDOW_HEIGHT
    BY GeometryAssumption
  <1>2. p \notin Box(x, y, WINDOW_WIDTH, WINDOW_HEIGHT)
    BY DEF InWindow, Windows
  <1> HIDE DEF x, y
  <1>3. p \notin Box(x, y, WINDOW_WIDTH, WINDOW_TITLE_HEIGHT)
    BY <1>1, <1>2 DEF Box
  <1>4. black[p] = img[p]
    BY <1>1, <1>2, RectOutside
  <1> HIDE DEF black
  <1>5. VGA_drawRect(black, x, y, WINDOW_WIDTH, WINDOW_TITLE_HEIGHT, TitleInk)[p] = black[p]
    BY <1>1, <1>3, RectOutside
  <1> QED  BY <1>4, <1>5 DEF VGA_drawWindows, black, x, y

\* What the picture file has at a row and a column comes out at its upright place,
\* whichever corner the file begins in.
LEMMA FramePlace ==
    ASSUME NEW o \in Orders, NEW x \in Nat, NEW y \in Nat, NEW i \in Nat, NEW j \in Nat
    PROVE  FramePos(o, x, y, i, j) = At(x + Stored(o, i, j)[1], y + Stored(o, i, j)[2])
  <1> DEFINE W == ICON_WIDTH  H == ICON_HEIGHT  X == X_RES
  <1>0. W \in Nat /\ H \in Nat /\ X \in Nat
    BY GeometryAssumption
  <1>1. CASE o = "top left"
    <2>1. FramePos(o, x, y, i, j) = (y * X + x) + (j * (W * 1 + (X + (-W)))) + i * 1
      BY <1>1 DEF FramePos, FrameStart, AlongRow, NextRow, left_to_right, top_to_bottom, At
    <2>2. Stored(o, i, j) = <<i, j>>
      BY <1>1 DEF Stored, left_to_right, top_to_bottom
    <2> HIDE DEF W, H, X
    <2>3. W * 1 + (X + (-W)) = X
      BY <1>0
    <2> QED  BY <1>0, <2>1, <2>2, <2>3 DEF At, X
  <1>2. CASE o = "top right"
    <2>1. FramePos(o, x, y, i, j) = (y * X + (x + W - 1)) + (j * (W * (-1) + (X + W))) + i * (-1)
      BY <1>2 DEF FramePos, FrameStart, AlongRow, NextRow, left_to_right, top_to_bottom, At
    <2>2. Stored(o, i, j) = <<(W - 1) - i, j>>
      BY <1>2 DEF Stored, left_to_right, top_to_bottom
    <2> HIDE DEF W, H, X
    <2>3. W * (-1) + (X + W) = X
      BY <1>0
    <2> QED  BY <1>0, <2>1, <2>2, <2>3 DEF At, X
  <1>3. CASE o = "bottom left"
    <2>1. FramePos(o, x, y, i, j) = ((y + H - 1) * X + x) + (j * (W * 1 + ((-X) + (-W)))) + i * 1
      BY <1>3 DEF FramePos, FrameStart, AlongRow, NextRow, left_to_right, top_to_bottom, At
    <2>2. Stored(o, i, j) = <<i, (H - 1) - j>>
      BY <1>3 DEF Stored, left_to_right, top_to_bottom
    <2> HIDE DEF W, H, X
    <2>3. W * 1 + ((-X) + (-W)) = -X
      BY <1>0
    <2> QED  BY <1>0, <2>1, <2>2, <2>3 DEF At, X
  <1>4. CASE o = "bottom right"
    <2>1. FramePos(o, x, y, i, j) = ((y + H - 1) * X + (x + W - 1)) + (j * (W * (-1) + ((-X) + W))) + i * (-1)
      BY <1>4 DEF FramePos, FrameStart, AlongRow, NextRow, left_to_right, top_to_bottom, At
    <2>2. Stored(o, i, j) = <<(W - 1) - i, (H - 1) - j>>
      BY <1>4 DEF Stored, left_to_right, top_to_bottom
    <2> HIDE DEF W, H, X
    <2>3. W * (-1) + ((-X) + W) = -X
      BY <1>0
    <2> QED  BY <1>0, <2>1, <2>2, <2>3 DEF At, X
  <1> QED  BY <1>1, <1>2, <1>3, <1>4 DEF Orders

\* A column and a line from which an icon does not run over the screen.
IconFits(x, y) == x \in 0 .. X_RES - ICON_WIDTH /\ y \in 0 .. Y_RES - ICON_HEIGHT

\* A pixel of an icon has the colour of the picture there.
LEMMA IconInside ==
    ASSUME NEW o \in Orders, NEW x, NEW y, IconFits(x, y), NEW img,
           NEW a \in 0 .. ICON_WIDTH - 1, NEW b \in 0 .. ICON_HEIGHT - 1
    PROVE  VGA_drawIcon(img, o, x, y)[At(x + a, y + b)] = <<a, b>>
  <1> DEFINE p == At(x + a, y + b)
             frame == (0 .. ICON_WIDTH - 1) \X (0 .. ICON_HEIGHT - 1)
             ij == CHOOSE ij \in frame : FramePos(o, x, y, ij[1], ij[2]) = p
  <1>0. /\ x \in Nat /\ y \in Nat /\ ICON_WIDTH \in Nat /\ ICON_HEIGHT \in Nat
        /\ x + ICON_WIDTH <= X_RES /\ y + ICON_HEIGHT <= Y_RES /\ X_RES \in Nat /\ Y_RES \in Nat
        /\ a \in Nat /\ b \in Nat
    BY GeometryAssumption DEF IconFits
  <1>1. \A i \in 0 .. ICON_WIDTH - 1, j \in 0 .. ICON_HEIGHT - 1 :
           /\ i \in Nat /\ j \in Nat
           /\ Stored(o, i, j) = <<Stored(o, i, j)[1], Stored(o, i, j)[2]>>
           /\ Stored(o, i, j)[1] \in 0 .. ICON_WIDTH - 1 /\ Stored(o, i, j)[2] \in 0 .. ICON_HEIGHT - 1
    BY <1>0 DEF Stored
  <1>2. \A i \in 0 .. ICON_WIDTH - 1, j \in 0 .. ICON_HEIGHT - 1 :
           x + i \in Columns /\ y + j \in Lines
    BY <1>0 DEF Columns, Lines
  <1>3. p \in Pixels /\ Col(p) = x + a /\ Line(p) = y + b
    BY <1>2, AtPixel
  <1> HIDE DEF p
  <1>4. ASSUME NEW i \in 0 .. ICON_WIDTH - 1, NEW j \in 0 .. ICON_HEIGHT - 1,
               FramePos(o, x, y, i, j) = p
        PROVE  Stored(o, i, j) = <<a, b>>
    <2> DEFINE c == Stored(o, i, j)[1]  d == Stored(o, i, j)[2]
    <2>1. c \in 0 .. ICON_WIDTH - 1 /\ d \in 0 .. ICON_HEIGHT - 1 /\ Stored(o, i, j) = <<c, d>>
      BY <1>1
    <2>2. p = At(x + c, y + d)
      BY <1>0, <1>1, <1>4, FramePlace
    <2> HIDE DEF c, d
    <2>3. Col(p) = x + c /\ Line(p) = y + d
      BY <1>2, <2>1, <2>2, AtPixel
    <2>4. c = a /\ d = b
      BY <1>0, <1>3, <2>1, <2>3
    <2> QED  BY <2>1, <2>4
  <1>5. \E i \in 0 .. ICON_WIDTH - 1, j \in 0 .. ICON_HEIGHT - 1 : FramePos(o, x, y, i, j) = p
    <2> DEFINE i == IF left_to_right(o) THEN a ELSE ICON_WIDTH - 1 - a
               j == IF top_to_bottom(o) THEN b ELSE ICON_HEIGHT - 1 - b
    <2>1. i \in 0 .. ICON_WIDTH - 1 /\ j \in 0 .. ICON_HEIGHT - 1
      BY <1>0
    <2>2. Stored(o, i, j) = <<a, b>>
      BY <1>0 DEF Stored
    <2> HIDE DEF i, j
    <2>3. i \in Nat /\ j \in Nat
      BY <1>1, <2>1
    <2>4. FramePos(o, x, y, i, j) = At(x + Stored(o, i, j)[1], y + Stored(o, i, j)[2])
      BY <1>0, <2>3, FramePlace
    <2>5. FramePos(o, x, y, i, j) = At(x + a, y + b)
      BY <2>2, <2>4
    <2> QED  BY <2>1, <2>5 DEF p
  <1>6. ij \in frame /\ FramePos(o, x, y, ij[1], ij[2]) = p
    <2>1. PICK i \in 0 .. ICON_WIDTH - 1, j \in 0 .. ICON_HEIGHT - 1 : FramePos(o, x, y, i, j) = p
      BY <1>5
    <2>2. <<i, j>> \in frame /\ FramePos(o, x, y, <<i, j>>[1], <<i, j>>[2]) = p
      BY <2>1
    <2>3. \E q \in frame : FramePos(o, x, y, q[1], q[2]) = p
      BY <2>2
    <2> HIDE DEF frame
    <2> QED  BY <2>3
  <1>7. VGA_drawIcon(img, o, x, y)[p] = Stored(o, ij[1], ij[2])
    BY <1>3, <1>5 DEF VGA_drawIcon
  <1> HIDE DEF ij
  <1>8. ij[1] \in 0 .. ICON_WIDTH - 1 /\ ij[2] \in 0 .. ICON_HEIGHT - 1
    BY <1>6
  <1> QED  BY <1>4, <1>6, <1>7, <1>8 DEF p

\* An icon changes no pixel outside it.
LEMMA IconOutside ==
    ASSUME NEW o \in Orders, NEW x, NEW y, IconFits(x, y), NEW img, NEW p \in Pixels,
           ~(Col(p) \in x .. x + ICON_WIDTH - 1 /\ Line(p) \in y .. y + ICON_HEIGHT - 1)
    PROVE  VGA_drawIcon(img, o, x, y)[p] = img[p]
  <1>0. /\ x \in Nat /\ y \in Nat /\ ICON_WIDTH \in Nat /\ ICON_HEIGHT \in Nat
        /\ x + ICON_WIDTH <= X_RES /\ y + ICON_HEIGHT <= Y_RES /\ X_RES \in Nat /\ Y_RES \in Nat
    BY GeometryAssumption DEF IconFits
  <1>1. ASSUME NEW i \in 0 .. ICON_WIDTH - 1, NEW j \in 0 .. ICON_HEIGHT - 1
        PROVE  FramePos(o, x, y, i, j) # p
    <2> DEFINE c == Stored(o, i, j)[1]  d == Stored(o, i, j)[2]
    <2>1. c \in 0 .. ICON_WIDTH - 1 /\ d \in 0 .. ICON_HEIGHT - 1
      BY <1>0 DEF Stored
    <2>2. i \in Nat /\ j \in Nat
      BY <1>0
    <2>3. FramePos(o, x, y, i, j) = At(x + c, y + d)
      BY <1>0, <2>2, FramePlace
    <2> HIDE DEF c, d
    <2>4. x + c \in Columns /\ y + d \in Lines
      BY <1>0, <2>1 DEF Columns, Lines
    <2>5. Col(At(x + c, y + d)) = x + c /\ Line(At(x + c, y + d)) = y + d
      BY <2>4, AtPixel
    <2>6. x + c \in x .. x + ICON_WIDTH - 1 /\ y + d \in y .. y + ICON_HEIGHT - 1
      BY <1>0, <2>1
    <2> QED  BY <2>3, <2>5, <2>6
  <1> QED  BY <1>1 DEF VGA_drawIcon

\* The three icons, and the three windows over them.
IconsDrawn(img, o) ==
    VGA_drawIcon(VGA_drawIcon(VGA_drawIcon(img, o, IconX[0], IconY[0]), o, IconX[1], IconY[1]),
                 o, IconX[2], IconY[2])
WindowsDrawn(img) == VGA_drawWindows(VGA_drawWindows(VGA_drawWindows(img, 0), 1), 2)

\* The icons of the desktop are drawn one after the other: each is whole, for
\* they do not overlap.
LEMMA IconsWhole ==
    ASSUME NEW o \in Orders, NEW img, NEW t \in Tids,
           NEW i \in 0 .. ICON_WIDTH - 1, NEW j \in 0 .. ICON_HEIGHT - 1
    PROVE  /\ At(IconX[t] + i, IconY[t] + j) \in Pixels
           /\ IconsDrawn(img, o)[At(IconX[t] + i, IconY[t] + j)] = <<i, j>>
           /\ check_mouse_in_which_terminal(<<IconX[t] + i, IconY[t] + j>>) = {t}
  <1> DEFINE one == VGA_drawIcon(img, o, IconX[0], IconY[0])
             two == VGA_drawIcon(one, o, IconX[1], IconY[1])
             three == VGA_drawIcon(two, o, IconX[2], IconY[2])
             p == At(IconX[t] + i, IconY[t] + j)
             In(v) == /\ IconX[t] + i \in IconX[v] .. IconX[v] + ICON_WIDTH - 1
                      /\ IconY[t] + j \in IconY[v] .. IconY[v] + ICON_HEIGHT - 1
  <1>0. /\ 0 \in Tids /\ 1 \in Tids /\ 2 \in Tids /\ t \in {0, 1, 2}
    BY DEF Tids
  <1>1. \A v \in Tids : IconFits(IconX[v], IconY[v])
    BY GeometryAssumption DEF IconFits
  <1>2. /\ ICON_WIDTH \in Nat /\ ICON_HEIGHT \in Nat /\ X_RES \in Nat /\ Y_RES \in Nat
        /\ \A v \in Tids : /\ IconX[v] \in Nat /\ IconY[v] \in Nat
                           /\ IconX[v] + ICON_WIDTH <= X_RES /\ IconY[v] + ICON_HEIGHT <= Y_RES
    BY GeometryAssumption
  <1>3. In(t)
    BY <1>2
  <1>4. ASSUME NEW v \in Tids, v # t PROVE ~In(v)
    <2>1. \A u, w \in Tids : u < w => \/ IconX[u] + ICON_WIDTH <= IconX[w]
                                    \/ IconY[u] + ICON_HEIGHT <= IconY[w]
      BY GeometryAssumption
    <2>2. v < t \/ t < v
      BY <1>4 DEF Tids
    <2>3. CASE v < t
      BY <1>2, <2>1, <2>3
    <2>4. CASE t < v
      BY <1>2, <2>1, <2>4
    <2> QED  BY <2>2, <2>3, <2>4
  <1>5. p \in Pixels /\ Col(p) = IconX[t] + i /\ Line(p) = IconY[t] + j
    <2>1. IconX[t] + i \in Columns /\ IconY[t] + j \in Lines
      BY <1>2 DEF Columns, Lines
    <2> QED  BY <2>1, AtPixel
  <1>6. check_mouse_in_which_terminal(<<IconX[t] + i, IconY[t] + j>>) = {t}
    <2>1. check_mouse_in_which_terminal(<<IconX[t] + i, IconY[t] + j>>) = {v \in Tids : In(v)}
      BY DEF check_mouse_in_which_terminal
    <2> HIDE DEF In
    <2> QED  BY <1>3, <1>4, <2>1
  <1>7. ASSUME NEW v \in Tids, v # t, NEW before
        PROVE  VGA_drawIcon(before, o, IconX[v], IconY[v])[p] = before[p]
    <2>1. ~(Col(p) \in IconX[v] .. IconX[v] + ICON_WIDTH - 1
            /\ Line(p) \in IconY[v] .. IconY[v] + ICON_HEIGHT - 1)
      BY <1>4, <1>5, <1>7
    <2> HIDE DEF p
    <2> QED  BY <1>1, <1>5, <2>1, IconOutside
  <1>8. \A before : VGA_drawIcon(before, o, IconX[t], IconY[t])[p] = <<i, j>>
    BY <1>1, IconInside
  <1> HIDE DEF p, In
  <1>9. /\ 0 # t => one[p] = img[p]
        /\ 1 # t => two[p] = one[p]
        /\ 2 # t => three[p] = two[p]
    <2>1. 0 # t => one[p] = img[p]
      BY <1>0, <1>7
    <2> HIDE DEF one
    <2>2. 1 # t => two[p] = one[p]
      BY <1>0, <1>7
    <2> HIDE DEF two
    <2>3. 2 # t => three[p] = two[p]
      BY <1>0, <1>7
    <2> QED  BY <2>1, <2>2, <2>3
  <1>10. /\ 0 = t => one[p] = <<i, j>>
         /\ 1 = t => two[p] = <<i, j>>
         /\ 2 = t => three[p] = <<i, j>>
    BY <1>8
  <1>12. IconsDrawn(img, o) = three
    BY DEF IconsDrawn
  <1> HIDE DEF one, two, three
  <1>11. three[p] = <<i, j>>
    <2>1. CASE t = 0
      BY <1>9, <1>10, <2>1
    <2>2. CASE t = 1
      BY <1>9, <1>10, <2>2
    <2>3. CASE t = 2
      BY <1>10, <2>3
    <2> QED  BY <1>0, <2>1, <2>2, <2>3
  <1> QED  BY <1>5, <1>6, <1>11, <1>12 DEF p

\* The windows, the pointer and the window in front are drawn over the icons, and
\* nowhere else.
LEMMA BootOutside ==
    ASSUME Typed, NEW icons, NEW front, NEW p \in Pixels,
           \A w \in Tids : p \notin InWindow(w), p \notin PointerBox(mouse)
    PROVE  CopyPixels(VGA_drawMouse(WindowsDrawn(icons), mouse), front, InWindow(0))[p] = icons[p]
  <1> DEFINE w1 == VGA_drawWindows(icons, 0)
             w2 == VGA_drawWindows(w1, 1)
             w3 == WindowsDrawn(icons)
             drawn == VGA_drawMouse(w3, mouse)
  <1>0. 0 \in Tids /\ 1 \in Tids /\ 2 \in Tids
    BY DEF Tids
  <1>1. w1[p] = icons[p]
    BY <1>0, WindowOutside
  <1>2. w3 = VGA_drawWindows(w2, 2)
    BY DEF WindowsDrawn
  <1> HIDE DEF w1
  <1>3. w2[p] = w1[p]
    BY <1>0, WindowOutside
  <1> HIDE DEF w2
  <1>4. w3[p] = w2[p]
    BY <1>0, <1>2, WindowOutside
  <1> HIDE DEF w3
  <1>5. drawn[p] = w3[p]
    <2>1. ~InBox(p, At(mouse[1], mouse[2]), PointerWidth, PointerHeight)
      BY PointerPixels DEF Typed
    <2> QED  BY <2>1 DEF VGA_drawMouse, VGA_drawRect
  <1> HIDE DEF drawn
  <1>6. CopyPixels(drawn, front, InWindow(0))[p] = drawn[p]
    BY <1>0 DEF CopyPixels
  <1> QED  BY <1>1, <1>3, <1>4, <1>5, <1>6 DEF drawn, w3

\* At boot each icon is drawn upright where a click finds it, in whichever of the
\* four orders the file keeps its pixels (GUI_init, VGA_drawIcon,
\* check_mouse_in_which_terminal).
THEOREM IconsCorrect == Spec => IconsUpright
  <1>1. ASSUME Typed, [Next]_vars
        PROVE  [~Up /\ Up' => \A t \in Tids, i \in 0 .. ICON_WIDTH - 1, j \in 0 .. ICON_HEIGHT - 1 :
                  LET p == At(IconX[t] + i, IconY[t] + j)
                  IN  \/ \E w \in Tids : p \in InWindow(w)
                      \/ p \in PointerBox(mouse)
                      \/ screen'[p] = <<i, j>> /\ check_mouse_in_which_terminal(<<IconX[t] + i, IconY[t] + j>>) = {t}
              ]_vars
    <2> SUFFICES ASSUME Next, ~Up, NEW t \in Tids, NEW i \in 0 .. ICON_WIDTH - 1,
                        NEW j \in 0 .. ICON_HEIGHT - 1,
                        \A w \in Tids : At(IconX[t] + i, IconY[t] + j) \notin InWindow(w),
                        At(IconX[t] + i, IconY[t] + j) \notin PointerBox(mouse)
                 PROVE  /\ screen'[At(IconX[t] + i, IconY[t] + j)] = <<i, j>>
                        /\ check_mouse_in_which_terminal(<<IconX[t] + i, IconY[t] + j>>) = {t}
      BY <1>1
    <2>1. GUI_init
      BY DEF Next, pit_int_handler, terminal_write, Echo, syscall_vidmap, EndFish, Backspace, clear,
             switch_terminal, mouse_int_handler
    <2> DEFINE icons == IconsDrawn(screen, order)
               p == At(IconX[t] + i, IconY[t] + j)
    <2>2. screen' = CopyPixels(VGA_drawMouse(WindowsDrawn(icons), mouse), buffer'[0], InWindow(0))
      BY <2>1 DEF GUI_init, IconsDrawn, WindowsDrawn
    <2>3. order \in Orders
      BY <1>1 DEF Typed, Up
    <2>4. /\ p \in Pixels /\ icons[p] = <<i, j>>
          /\ check_mouse_in_which_terminal(<<IconX[t] + i, IconY[t] + j>>) = {t}
      BY <2>3, IconsWhole
    <2>5. (\A w \in Tids : p \notin InWindow(w)) /\ p \notin PointerBox(mouse)
      OBVIOUS
    <2> HIDE DEF icons, p
    <2>6. screen'[p] = icons[p]
      BY <1>1, <2>2, <2>4, <2>5, BootOutside
    <2> QED  BY <2>4, <2>6 DEF p
  <1> QED  BY <1>1, InitTyped, NextTyped, InitLayering, NextLayering, PTL DEF Spec, IconsUpright
=============================================================================
