--------------------------- MODULE TerminalScreens ---------------------------
(***************************************************************************)
(* What the text terminals promise: every terminal has a screen of its own *)
(* with a row for its bar, on which its programs and the kernel write, and *)
(* one of the terminals is looked at.  Keys are echoed on that one.  The   *)
(* place where the next character goes is a number of cells; no terminal's *)
(* output is ever seen on another's screen.                                *)
(***************************************************************************)
EXTENDS Integers, Sequences

CONSTANTS Term, Columns, Rows, BarCells, Newline, Backspace, Nul, Blank,
          Keys,          \* what can be typed
          Writes,        \* what programs write
          Message,       \* the kernel's answer to a call it refuses
          Addresses,     \* where programs fault
          BarMark,       \* what the bar shows before the terminal's number
          Decimal, Hexadecimal,
          Ink, Drawn     \* what programs draw, and in which cells

VARIABLES text,          \* terminal -> what each cell shows
          at,            \* terminal -> the cell that is written next
          viewed         \* the terminal that is looked at

vars == <<text, at, viewed>>

Size == Columns * Rows

Scroll(s) ==
  IF s.at < Size THEN s
  ELSE [at |-> s.at - Columns,
        text |-> [i \in 0 .. Size - 1 |->
                    IF i < Columns THEN s.text[i]
                    ELSE IF i + Columns < Size THEN s.text[i + Columns] ELSE Blank]]

Write(s, c) ==
  IF c = Newline THEN Scroll([s EXCEPT !.at = (@ \div Columns + 1) * Columns])
  ELSE IF c = Backspace
  THEN IF s.at = 0 THEN s ELSE [at |-> s.at - 1, text |-> [s.text EXCEPT ![s.at - 1] = Blank]]
  ELSE Scroll([at |-> s.at + 1,
               text |-> [s.text EXCEPT ![s.at] = IF c = Nul THEN Blank ELSE c]])

Written(s, str) ==
  LET after[n \in 0 .. Len(str)] == IF n = 0 THEN s ELSE Write(after[n - 1], str[n])
  IN  after[Len(str)]

Show(t, s) ==
  /\ text' = [text EXCEPT ![t] = s.text]
  /\ at' = [at EXCEPT ![t] = s.at]
  /\ UNCHANGED viewed

Say(t, str) == Show(t, Written([text |-> text[t], at |-> at[t]], str))

\* The numeral of n: as many digits as it needs, the highest first.
Numeral(n, radix) ==
  LET power[k \in Nat] == IF k = 0 THEN 1 ELSE radix * power[k - 1]
      digits == CHOOSE k \in 1 .. n + 1 : n < power[k] /\ \A j \in 1 .. k - 1 : power[j] <= n
  IN  [i \in 1 .. digits |-> (n \div power[digits - i]) % radix]

\* A program writes, is refused something, faults, or its terminal is started.
Output(t) ==
  \/ \E w \in Writes : Say(t, w)
  \/ Say(t, Message)
  \/ \E a \in Addresses : Say(t, Numeral(a, Hexadecimal) \o <<Newline>> \o Message)
  \/ Say(t, <<BarMark>> \o Numeral(t, Decimal) \o <<Newline>>)

Echo == \E k \in Keys \cup {Newline, Backspace} : Say(viewed, <<k>>)

Clear ==
  Show(viewed, [at |-> Columns,
                text |-> [i \in 0 .. Size - 1 |-> IF i < BarCells THEN text[viewed][i] ELSE Blank]])

Draw(t) ==
  /\ \E i \in Drawn : text' = [text EXCEPT ![t][i] = Ink]
  /\ UNCHANGED <<at, viewed>>

Look(t) == viewed' = t /\ UNCHANGED <<text, at>>

\* What the memory holds at first does not matter.
Init == at = [t \in Term |-> 0] /\ viewed = 0

Next == Echo \/ Clear \/ \E t \in Term : Output(t) \/ Draw(t) \/ Look(t)

Spec == Init /\ [][Next]_vars

=============================================================================
