----------------------------- MODULE TextScreen ------------------------------
(***************************************************************************)
(* The text-mode output routines of mp3_terminal/student-distrib/lib.c, on *)
(* one page of video memory and the cursor they write through: a record    *)
(* [cells, x, y].  The attribute byte of a cell is the same for all text   *)
(* and is left out.                                                        *)
(***************************************************************************)
EXTENDS Integers, Sequences, SequencesExt

CONSTANTS
  NUM_COLS, NUM_ROWS,        (* 80 and 25                                  *)
  BarCells,                  (* 30: what clear leaves of row 0             *)
  Decimal, Hexadecimal,      (* the radices of %d and %x: 10 and 16        *)
  Newline, Backspace, Nul,   (* '\n', '\b' and '\0'                        *)
  Blank,                     (* ' '                                        *)
  PercentD, PercentX         (* "%d" and "%x" in a format                  *)

ASSUME TextAssumption ==
  /\ NUM_COLS \in Nat \ {0} /\ NUM_ROWS \in Nat \ {0, 1}
  /\ BarCells \in 0 .. NUM_COLS
  /\ Decimal \in Nat \ {0, 1} /\ Hexadecimal \in Nat \ {0, 1}
  /\ PercentD # PercentX /\ Newline \notin {PercentD, PercentX}
  /\ Newline # Backspace /\ Nul \notin {Newline, Backspace}

Cells == 0 .. NUM_ROWS * NUM_COLS - 1
START_HEIGHT == 1

Position(s) == s.y * NUM_COLS + s.x

\* Row 0 holds the terminal's bar and does not move.
up_scroll_for_one_line(s) ==
  [s EXCEPT !.y = @ - 1,
            !.cells = [i \in Cells |->
                         IF i < START_HEIGHT * NUM_COLS THEN @[i]
                         ELSE IF i + NUM_COLS \in Cells THEN @[i + NUM_COLS]
                         ELSE Blank]]

ScrollIfFull(s) == IF s.y = NUM_ROWS THEN up_scroll_for_one_line(s) ELSE s

PutNewline(s) == ScrollIfFull([s EXCEPT !.y = @ + 1, !.x = 0])

\* At the start of a row it goes back to the end of the one above.
PutBackspace(s) ==
  LET b == IF s.x = 0 THEN [s EXCEPT !.x = NUM_COLS, !.y = @ - 1] ELSE s
  IN  IF Position(s) = 0 THEN s
      ELSE [b EXCEPT !.x = @ - 1, !.cells[Position(b) - 1] = Blank]

WrapsLate(s, c) ==                                                          \* mutant
  LET full == s.x = NUM_COLS
  IN  ScrollIfFull([cells |-> [s.cells EXCEPT ![Position(s)] = c],
                    x |-> IF full THEN 0 ELSE s.x + 1,
                    y |-> IF full THEN s.y + 1 ELSE s.y])
PutCell(s, c) ==
  LET full == s.x + 1 = NUM_COLS
  IN  ScrollIfFull([cells |-> [s.cells EXCEPT ![Position(s)] = c],
                    x |-> IF full THEN 0 ELSE s.x + 1,
                    y |-> IF full THEN s.y + 1 ELSE s.y])

PutC(s, c) ==
  CASE c = Newline   -> PutNewline(s)
    [] c = Backspace -> PutBackspace(s)
    [] c = Nul       -> PutCell(s, Blank)
    [] OTHER         -> PutCell(s, c)

ClearText(s) ==
  [cells |-> [i \in Cells |-> IF i < BarCells THEN s.cells[i] ELSE Blank],
   x |-> 0, y |-> START_HEIGHT]

-----------------------------------------------------------------------------
(* printf, for the two conversions its callers use.  A character is any    *)
(* value; that of a digit is the digit.                                    *)

\* The digits of a number, the lowest first: none of 0.
PlaceValues(value, radix) ==
  LET newval[k \in Nat] == IF k = 0 THEN value ELSE newval[k - 1] \div radix
      count == CHOOSE k \in 0 .. value : newval[k] = 0 /\ \A j \in 0 .. k - 1 : newval[j] # 0
  IN  [k \in 1 .. count |-> newval[k - 1] % radix]

strrev(s) == Reverse(s)

itoa(value, radix) == IF value = 0 THEN <<0>> ELSE strrev(PlaceValues(value, radix))

Converted(conv, arg) ==
  CASE conv = PercentD -> itoa(arg, Decimal)        \* no caller has arg < 0
    [] conv = PercentX -> itoa(arg, Hexadecimal)
    [] OTHER           -> <<conv>>

\* What printf gives to nb_putc; a format has at most one conversion.
printf(format, arg) ==
  LET out[n \in 0 .. Len(format)] ==
        IF n = 0 THEN <<>> ELSE out[n - 1] \o Converted(format[n], arg)
  IN  out[Len(format)]

=============================================================================
