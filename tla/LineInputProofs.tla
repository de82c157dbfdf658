--------------------------- MODULE LineInputProofs --------------------------
(***************************************************************************)
(* Line input, for any buffer size and any number of terminals: the types, *)
(* the refinement of LineEditor, and what a read that nothing disturbs     *)
(* returns.                                                                *)
(***************************************************************************)
EXTENDS LineInput, SequenceTheorems, TLAPS

\* The pointer kbd_buf is moved together with viewing_term_ptr.
PointerFollows == kbd_buf = viewing_term

\* What has been typed of a line has no '\n' in it.
TypedAreKeys ==
  \A t \in Term : \A i \in 0 .. KBD_BUF_SIZE - 1 : i < Pos(t) => term_buf[t][i] \in Keys

\* The buffer of a terminal still holds the line entered there, and a read has
\* copied a part of it.
Whole(t) == Append(intact[t], Newline)

IntactInBuffer ==
  \A t \in Term : intact[t] /= NoLine =>
    /\ t = viewing_term
    /\ intact[t] \in Seq(Keys)
    /\ Len(intact[t]) <= KBD_BUF_SIZE - 1
    /\ buf_pos = 0
    /\ \A i \in 1 .. Len(intact[t]) : term_buf[t][i - 1] = intact[t][i]
    /\ term_buf[t][Len(intact[t])] = Newline

CopiedFromLine ==
  \A t \in Term : intact[t] /= NoLine /\ read[t].at = "copying" =>
    /\ Len(read[t].got) <= Len(intact[t]) + 1
    /\ \A i \in 1 .. Len(read[t].got) : read[t].got[i] = Whole(t)[i]

\* A read never gives a program more than it asked for or the buffer holds.
ReadBounded ==
  \A t \in Term : read[t].at /= "none" =>
    Len(read[t].got) <= read[t].nbytes /\ Len(read[t].got) <= KBD_BUF_SIZE

NothingYet == \A t \in Term : read[t].at = "waiting" => read[t].got = <<>>

IInv ==
  /\ TypeOK
  /\ PointerFollows
  /\ LastReserved
  /\ TypedAreKeys
  /\ ReadBounded
  /\ NothingYet
  /\ IntactInBuffer
  /\ CopiedFromLine

-----------------------------------------------------------------------------

LEMMA InitIInv == Init => IInv
<1> SUFFICES ASSUME Init PROVE IInv
  OBVIOUS
<1> USE LineAssumption DEF Init
<1>1. TypeOK
  BY DEF TypeOK, Char, NoRead, NoLine
<1>2. PointerFollows /\ LastReserved /\ TypedAreKeys /\ ReadBounded /\ NothingYet
  BY DEF PointerFollows, NothingYet, LastReserved, TypedAreKeys, ReadBounded, Pos, NoRead
<1>3. IntactInBuffer /\ CopiedFromLine
  BY DEF IntactInBuffer, CopiedFromLine
<1> QED
  BY <1>1, <1>2, <1>3 DEF IInv

LEMMA KeyIInv ==
  ASSUME IInv, NEW c \in Keys, Key(c)
  PROVE  IInv'
<1> USE LineAssumption DEF IInv, Key, Room, Store, PointerFollows
<1>1. TypeOK'
  BY DEF TypeOK, Char, NoLine
<1>2. \A t \in Term, i \in 0 .. KBD_BUF_SIZE - 1 :
        term_buf'[t][i] = IF t = viewing_term /\ i = buf_pos THEN c ELSE term_buf[t][i]
  BY DEF TypeOK
<1>3. PointerFollows' /\ ReadBounded' /\ NothingYet'
  BY DEF ReadBounded, NothingYet
<1>4. LastReserved'
  BY <1>2 DEF LastReserved, TypeOK
<1>5. TypedAreKeys'
  BY <1>2 DEF TypedAreKeys, TypeOK, Pos
<1>6. IntactInBuffer' /\ CopiedFromLine'
  BY <1>2 DEF IntactInBuffer, CopiedFromLine, TypeOK, Whole
<1> QED
  BY <1>1, <1>3, <1>4, <1>5, <1>6

LEMMA EnterIInv ==
  ASSUME IInv, Enter
  PROVE  IInv'
<1> USE LineAssumption DEF IInv, Enter, Store, PosAfterEnter, Wake, PointerFollows
<1>1. TypedLine \in Seq(Keys) /\ Len(TypedLine) = buf_pos
      /\ \A i \in 1 .. buf_pos : TypedLine[i] = term_buf[viewing_term][i - 1]
  BY DEF TypedLine, TypedAreKeys, Pos, TypeOK
<1>2. Keys \subseteq Char /\ Newline \in Char
  BY DEF Char
<1>3. TypedLine \in Seq(Char)
  BY <1>1, <1>2
<1>4. TypeOK'
  <2>1. term_buf' \in [Term -> [0 .. KBD_BUF_SIZE - 1 -> Char]]
    BY <1>2 DEF TypeOK
  <2>2. NoLine \in Seq(Char)
    BY DEF NoLine, Char
  <2>3. intact' \in [Term -> Seq(Char)]
    BY <1>3, <2>2 DEF TypeOK
  <2> QED
    BY <2>1, <2>3 DEF TypeOK
<1>5. \A t \in Term, i \in 0 .. KBD_BUF_SIZE - 1 :
        term_buf'[t][i] = IF t = viewing_term /\ i = buf_pos THEN Newline ELSE term_buf[t][i]
  BY DEF TypeOK
<1>6. PointerFollows' /\ ReadBounded' /\ NothingYet'
  BY DEF ReadBounded, NothingYet
<1>7. LastReserved'
  BY <1>5 DEF LastReserved, TypeOK
<1>8. TypedAreKeys'
  BY <1>5 DEF TypedAreKeys, TypeOK, Pos
<1>9. \A t \in Term : t /= viewing_term => intact[t] = NoLine
  BY DEF IntactInBuffer
<1>10. IntactInBuffer'
  <2> SUFFICES ASSUME NEW t \in Term, intact'[t] /= NoLine
               PROVE  /\ t = viewing_term' /\ intact'[t] \in Seq(Keys)
                      /\ Len(intact'[t]) <= KBD_BUF_SIZE - 1 /\ buf_pos' = 0
                      /\ \A i \in 1 .. Len(intact'[t]) : term_buf'[t][i - 1] = intact'[t][i]
                      /\ term_buf'[t][Len(intact'[t])] = Newline
    BY DEF IntactInBuffer
  <2>1. t = viewing_term /\ intact'[t] = TypedLine
    BY <1>9 DEF TypeOK
  <2> QED
    BY <2>1, <1>1, <1>5 DEF TypeOK
<1>11. CopiedFromLine'
  BY <1>9 DEF CopiedFromLine, TypeOK
<1> QED
  BY <1>4, <1>6, <1>7, <1>8, <1>10, <1>11

LEMMA BackspaceIInv ==
  ASSUME IInv, Backspace
  PROVE  IInv'
<1> USE LineAssumption DEF IInv, Backspace, PointerFollows
<1>1. TypeOK'
  BY DEF TypeOK
<1>2. TypedAreKeys'
  BY DEF TypedAreKeys, Pos, TypeOK
<1>3. PointerFollows' /\ LastReserved' /\ ReadBounded' /\ NothingYet' /\ CopiedFromLine'
  BY DEF NothingYet, LastReserved, ReadBounded, CopiedFromLine, Whole
<1>4. IntactInBuffer'
  BY DEF IntactInBuffer, TypeOK
<1> QED
  BY <1>1, <1>2, <1>3, <1>4

LEMMA SwitchIInv ==
  ASSUME IInv, NEW target \in Term, switch_terminal(target)
  PROVE  IInv'
<1> USE LineAssumption DEF IInv, switch_terminal, SavedPos, PointerFollows
<1>1. TypeOK'
  BY DEF TypeOK, NoLine, Char
<1>2. TypedAreKeys'
  BY DEF TypedAreKeys, Pos, TypeOK
<1>3. PointerFollows' /\ LastReserved' /\ ReadBounded' /\ NothingYet'
  BY DEF NothingYet, LastReserved, ReadBounded
<1>4. IntactInBuffer' /\ CopiedFromLine'
  BY DEF IntactInBuffer, CopiedFromLine
<1> QED
  BY <1>1, <1>2, <1>3, <1>4

LEMMA CallIInv ==
  ASSUME IInv, NEW t \in Term, NEW n \in NBytes, Call(t, n)
  PROVE  IInv'
<1> USE LineAssumption DEF IInv, Call, keyboard
<1>1. TypeOK'
  BY DEF TypeOK
<1>2. PointerFollows' /\ LastReserved' /\ TypedAreKeys' /\ IntactInBuffer'
  BY DEF PointerFollows, LastReserved, TypedAreKeys, Pos, IntactInBuffer
<1>3. ReadBounded' /\ NothingYet'
  <2>1. read'[t].got = <<>> /\ read'[t].nbytes \in Nat
    BY DEF TypeOK
  <2> QED
    BY <2>1 DEF ReadBounded, NothingYet, TypeOK
<1>4. CopiedFromLine'
  <2>1. \A u \in Term : Whole(u)' = Whole(u)
    BY DEF Whole
  <2>2. \A u \in Term : read'[u].at = "copying" => read'[u] = read[u]
    BY DEF TypeOK
  <2> QED
    BY <2>1, <2>2 DEF CopiedFromLine
<1> QED
  BY <1>1, <1>2, <1>3, <1>4

LEMMA SeeReadyIInv ==
  ASSUME IInv, NEW t \in Term, SeeReady(t)
  PROVE  IInv'
<1> USE LineAssumption DEF IInv, SeeReady, keyboard
<1>1. TypeOK'
  BY DEF TypeOK
<1>2. PointerFollows' /\ LastReserved' /\ TypedAreKeys' /\ IntactInBuffer'
  BY DEF PointerFollows, LastReserved, TypedAreKeys, Pos, IntactInBuffer
<1>3. ReadBounded' /\ NothingYet'
  BY DEF ReadBounded, NothingYet, TypeOK
<1>4. CopiedFromLine'
  <2>1. \A u \in Term : Whole(u)' = Whole(u)
    BY DEF Whole
  <2>2. \A u \in Term : u /= t => read'[u] = read[u]
    BY DEF TypeOK
  <2>3. read'[t].got = <<>>
    BY DEF NothingYet, TypeOK
  <2> QED
    BY <2>1, <2>2, <2>3 DEF CopiedFromLine
<1> QED
  BY <1>1, <1>2, <1>3, <1>4

\* What ~LoopEnds says of a read that copies an intact line: it is not over.
LEMMA NotAllCopied ==
  ASSUME IInv, NEW t \in Term, intact[t] /= NoLine,
         read[t].at = "copying", ~LoopEnds(read[t])
  PROVE  Len(read[t].got) <= Len(intact[t])
<1> USE DEF IInv
<1> DEFINE got == read[t].got
<1>1. got \in Seq(Char) /\ intact[t] \in Seq(Keys)
  BY DEF TypeOK, IntactInBuffer
<1>2. Len(got) <= Len(intact[t]) + 1 /\ \A i \in 1 .. Len(got) : got[i] = Whole(t)[i]
  BY DEF CopiedFromLine
<1>3. CASE Len(got) = Len(intact[t]) + 1
  <2>1. got[Len(got)] = Newline
    BY <1>1, <1>2, <1>3 DEF Whole
  <2>2. got /= <<>>
    BY <1>1, <1>3
  <2> QED
    BY <2>1, <2>2 DEF LoopEnds
<1> QED
  BY <1>1, <1>2, <1>3

LEMMA CopyCharIInv ==
  ASSUME IInv, NEW t \in Term, CopyChar(t)
  PROVE  IInv'
<1> USE LineAssumption DEF IInv, CopyChar, keyboard, PointerFollows
<1> DEFINE got == read[t].got
           next == term_buf[kbd_buf][Len(got)]
<1>1. got \in Seq(Char) /\ read[t].nbytes \in Nat
  BY DEF TypeOK
<1>2. Len(got) < read[t].nbytes /\ Len(got) \in 0 .. KBD_BUF_SIZE - 1
  BY <1>1 DEF LoopEnds
<1>3. next \in Char
  BY <1>2 DEF TypeOK
<1>4. /\ Append(got, next) \in Seq(Char)
      /\ Len(Append(got, next)) = Len(got) + 1
      /\ \A i \in 1 .. Len(got) : Append(got, next)[i] = got[i]
      /\ Append(got, next)[Len(got) + 1] = next
  BY <1>1, <1>3
<1> HIDE DEF next
<1>5. /\ read' = [read EXCEPT ![t] = [read[t] EXCEPT !.got = Append(got, next)]]
      /\ read'[t].got = Append(got, next)
      /\ read'[t].nbytes = read[t].nbytes /\ read'[t].at = read[t].at
      /\ \A u \in Term : u /= t => read'[u] = read[u]
  BY DEF TypeOK, next
<1>6. TypeOK'
  <2>1. [read[t] EXCEPT !.got = Append(got, next)]
          \in [at : {"none", "waiting", "copying"}, nbytes : NBytes \cup {0}, got : Seq(Char)]
    BY <1>4 DEF TypeOK
  <2>2. read' \in [Term -> [at : {"none", "waiting", "copying"}, nbytes : NBytes \cup {0},
                            got : Seq(Char)]]
    BY <2>1, <1>5 DEF TypeOK
  <2> QED
    BY <2>2 DEF TypeOK
<1>7. PointerFollows' /\ LastReserved' /\ TypedAreKeys' /\ IntactInBuffer'
  BY DEF LastReserved, TypedAreKeys, Pos, IntactInBuffer
<1>8. ReadBounded' /\ NothingYet'
  BY <1>1, <1>2, <1>4, <1>5 DEF ReadBounded, NothingYet
<1>9. CopiedFromLine'
  <2>1. \A u \in Term : Whole(u)' = Whole(u)
    BY DEF Whole
  <2>2. ASSUME intact[t] /= NoLine
        PROVE  /\ Len(got) + 1 <= Len(intact[t]) + 1
               /\ \A i \in 1 .. Len(got) + 1 : Append(got, next)[i] = Whole(t)[i]
    <3>1. Len(got) <= Len(intact[t])
      BY <2>2, NotAllCopied
    <3>2. \A i \in 1 .. Len(got) : got[i] = Whole(t)[i]
      BY <2>2 DEF CopiedFromLine
    <3>3. intact[t] \in Seq(Keys) /\ t = viewing_term
      BY <2>2 DEF IntactInBuffer
    <3>4. next = term_buf[t][Len(got)]
      BY <3>3 DEF next
    <3>5. ASSUME Len(got) = Len(intact[t])
          PROVE  next = Whole(t)[Len(got) + 1]
      <4>1. Whole(t)[Len(got) + 1] = Newline
        BY <3>3, <3>5 DEF Whole
      <4> QED
        BY <4>1, <3>4, <3>5, <2>2 DEF IntactInBuffer
    <3>6. ASSUME Len(got) < Len(intact[t])
          PROVE  next = Whole(t)[Len(got) + 1]
      <4>1. Whole(t)[Len(got) + 1] = intact[t][Len(got) + 1]
        BY <3>3, <3>6, <1>1 DEF Whole
      <4>2. Len(got) + 1 \in 1 .. Len(intact[t])
        BY <3>3, <3>6, <1>1
      <4>3. term_buf[t][(Len(got) + 1) - 1] = intact[t][Len(got) + 1]
        BY <4>2, <2>2 DEF IntactInBuffer
      <4> QED
        BY <4>1, <4>3, <3>4, <1>1
    <3>7. next = Whole(t)[Len(got) + 1]
      BY <3>1, <3>3, <3>5, <3>6, <1>1
    <3>8. ASSUME NEW i \in 1 .. Len(got) + 1
          PROVE  Append(got, next)[i] = Whole(t)[i]
      BY <3>2, <3>7, <1>1, <1>4
    <3> QED
      BY <3>1, <3>3, <3>8, <1>1
  <2> QED
    BY <2>1, <2>2, <1>4, <1>5 DEF CopiedFromLine
<1> QED
  BY <1>6, <1>7, <1>8, <1>9

LEMMA ReturnIInv ==
  ASSUME IInv, NEW t \in Term, Return(t)
  PROVE  IInv'
<1> USE LineAssumption DEF IInv, Return, keyboard
<1>1. TypeOK'
  <2>1. NoLine \in Seq(Char) /\ NoRead.got \in Seq(Char)
    BY DEF NoRead, NoLine, Char
  <2>2. read' \in [Term -> [at : {"none", "waiting", "copying"},
                           nbytes : NBytes \cup {0}, got : Seq(Char)]]
    BY <2>1 DEF TypeOK, NoRead
  <2>3. intact' \in [Term -> Seq(Char)] /\ kbd_buf_ready' \in [Term -> BOOLEAN]
    BY <2>1 DEF TypeOK
  <2> QED
    BY <2>2, <2>3 DEF TypeOK
<1>2. PointerFollows' /\ LastReserved' /\ TypedAreKeys'
  BY DEF PointerFollows, LastReserved, TypedAreKeys, Pos
<1>3. ReadBounded' /\ NothingYet'
  BY DEF ReadBounded, NothingYet, TypeOK, NoRead
<1>4. intact'[t] = NoLine /\ \A u \in Term : u /= t => intact'[u] = intact[u] /\ read'[u] = read[u]
  BY DEF TypeOK
<1>5. IntactInBuffer'
  BY <1>4 DEF IntactInBuffer
<1>6. CopiedFromLine'
  BY <1>4 DEF CopiedFromLine, Whole
<1> QED
  BY <1>1, <1>2, <1>3, <1>5, <1>6

LEMMA NextIInv ==
  ASSUME IInv, [Next]_vars
  PROVE  IInv'
<1>1. CASE \E c \in Keys : Key(c)
  BY <1>1, KeyIInv
<1>2. CASE Enter
  BY <1>2, EnterIInv
<1>3. CASE Backspace
  BY <1>3, BackspaceIInv
<1>4. CASE \E t \in Term : switch_terminal(t)
  BY <1>4, SwitchIInv
<1>5. CASE \E t \in Term, n \in NBytes : Call(t, n)
  BY <1>5, CallIInv
<1>6. CASE \E t \in Term : Step(t)
  BY <1>6, SeeReadyIInv, CopyCharIInv, ReturnIInv DEF Step
<1>7. CASE UNCHANGED vars
  BY <1>7 DEF vars, keyboard, IInv, TypeOK, PointerFollows, LastReserved, TypedAreKeys, Pos, ReadBounded,
              NothingYet, IntactInBuffer, CopiedFromLine, Whole
<1> QED
  BY <1>1, <1>2, <1>3, <1>4, <1>5, <1>6, <1>7 DEF Next

THEOREM Inductive == Spec => []IInv
<1>1. IInv /\ [Next]_vars => IInv'
  BY NextIInv
<1> QED
  BY <1>1, InitIInv, PTL DEF Spec

\* Every variable of line input keeps its type: no position passes the end of
\* a buffer.
THEOREM TypeCorrect == Spec => []TypeOK
<1>1. IInv => TypeOK
  BY DEF IInv
<1> QED
  BY <1>1, Inductive, PTL

\* The last place of a buffer is only ever written by Enter.
THEOREM LastReservedCorrect == Spec => []LastReserved
<1>1. IInv => LastReserved
  BY DEF IInv
<1> QED
  BY <1>1, Inductive, PTL

-----------------------------------------------------------------------------

LEMMA DeliveredIInv == IInv => LineDelivered
<1> SUFFICES ASSUME IInv, NEW t \in Term, read[t].at = "copying", LoopEnds(read[t]), intact[t] /= NoLine
             PROVE  read[t].got = Delivered(intact[t], read[t].nbytes)
  BY DEF LineDelivered
<1> USE LineAssumption DEF IInv
<1> DEFINE got == read[t].got
           n == read[t].nbytes
           text == intact[t]
<1>1. got \in Seq(Char) /\ n \in Nat
  <2>1. read[t] \in [at : {"none", "waiting", "copying"}, nbytes : NBytes \cup {0}, got : Seq(Char)]
    BY DEF TypeOK
  <2>2. got \in Seq(Char) /\ n \in NBytes \cup {0}
    BY <2>1
  <2>3. NBytes \cup {0} \subseteq Nat
    OBVIOUS
  <2> QED
    BY <2>2, <2>3
<1>2. text \in Seq(Keys) /\ Len(text) <= KBD_BUF_SIZE - 1
  BY DEF IntactInBuffer
<1>3. /\ Len(got) <= Len(text) + 1 /\ Len(got) <= n
      /\ \A i \in 1 .. Len(got) : got[i] = Append(text, Newline)[i]
  BY DEF CopiedFromLine, Whole, ReadBounded
<1> HIDE DEF got, n, text
<1>4. Append(text, Newline) \in Seq(Char) /\ Len(Append(text, Newline)) = Len(text) + 1
  BY <1>2 DEF Char
<1>5. \A i \in 1 .. Len(text) : text[i] \in Keys /\ Append(text, Newline)[i] = text[i]
  BY <1>2
<1>6. Len(got) = n \/ Len(got) = Len(text) + 1
  <2>1. CASE Len(got) >= n
    BY <2>1, <1>1, <1>3
  <2>2. CASE Len(got) > KBD_BUF_SIZE - 1
    BY <2>2, <1>1, <1>2, <1>3
  <2>3. CASE got /= <<>> /\ got[Len(got)] = Newline
    <3>1. Len(got) \in 1 .. Len(got)
      BY <2>3, <1>1
    <3> QED
      BY <2>3, <3>1, <1>1, <1>2, <1>3, <1>5
  <2> QED
    BY <2>1, <2>2, <2>3 DEF LoopEnds, got, n
<1>7. CASE n <= Len(text)
  <2>1. Len(got) = n
    BY <1>7, <1>6, <1>3, <1>1, <1>2
  <2>2. /\ SubSeq(text, 1, n) \in Seq(Keys) /\ Len(SubSeq(text, 1, n)) = n
        /\ \A i \in 1 .. n : SubSeq(text, 1, n)[i] = text[i]
    BY <1>7, <1>1, <1>2
  <2>3. got = SubSeq(text, 1, n)
    BY <2>1, <2>2, <1>1, <1>3, <1>5, <1>7, SeqEqual
  <2> QED
    BY <2>3, <1>7 DEF Delivered, got, n, text
<1>8. CASE ~(n <= Len(text))
  <2>1. Len(got) = Len(text) + 1
    BY <1>8, <1>6, <1>3, <1>1, <1>2
  <2>2. got = Append(text, Newline)
    BY <2>1, <1>1, <1>3, <1>4, SeqEqual
  <2> QED
    BY <2>2, <1>8 DEF Delivered, got, n, text
<1> QED
  BY <1>7, <1>8

\* A read that nothing disturbs returns the line as it was typed.
THEOREM LineDeliveredCorrect == Spec => []LineDelivered
  BY DeliveredIInv, Inductive, PTL

-----------------------------------------------------------------------------
(* The refinement of LineEditor.                                           *)

Line(t) == [i \in 1 .. Pos(t) |-> term_buf[t][i - 1]]

Lines == [t \in Term |-> Line(t)]

LEMMA LineFacts ==
  ASSUME IInv
  PROVE  \A t \in Term : Line(t) \in Seq(Keys) /\ Len(Line(t)) = Pos(t) /\ Pos(t) \in 0 .. KBD_BUF_SIZE - 1
<1> USE LineAssumption DEF IInv
<1>1. \A t \in Term : Pos(t) \in 0 .. KBD_BUF_SIZE - 1
  BY DEF TypeOK, Pos
<1>2. ASSUME NEW t \in Term
      PROVE  Line(t) \in Seq(Keys) /\ Len(Line(t)) = Pos(t)
  <2>1. \A i \in 1 .. Pos(t) : term_buf[t][i - 1] \in Keys
    BY <1>1 DEF TypedAreKeys
  <2>2. Pos(t) \in Nat
    BY <1>1
  <2> HIDE DEF IInv
  <2> QED
    BY <2>1, <2>2 DEF Line
<1> QED
  BY <1>1, <1>2

LEMMA RefinesInit == Init => Editor!Init
<1> SUFFICES ASSUME Init PROVE Editor!Init
  OBVIOUS
<1>1. ASSUME NEW t \in Term
      PROVE  Line(t) = <<>>
  <2>1. Pos(t) = 0
    BY DEF Init, Pos
  <2>2. Line(t) \in Seq(Keys) /\ Len(Line(t)) = 0
    BY InitIInv, LineFacts, <2>1
  <2> QED
    BY <2>2
<1>2. Lines = [t \in Term |-> <<>>]
  BY <1>1 DEF Lines
<1> QED
  BY <1>2, LineAssumption DEF Editor!Init, Init, Lines, Line

LEMMA KeyRefines ==
  ASSUME IInv, NEW c \in Keys, Key(c)
  PROVE  Editor!Type(c)
<1> USE LineAssumption DEF IInv, Key, Store, Room, PointerFollows
<1>1. viewing_term \in Term /\ buf_pos \in 0 .. KBD_BUF_SIZE - 2 /\ Pos(viewing_term) = buf_pos
  BY DEF TypeOK, Pos
<1>2. \A t \in Term : t /= viewing_term => Line(t)' = Line(t)
  BY DEF Line, Pos, TypeOK
<1>3. Line(viewing_term)' = Append(Line(viewing_term), c)
  <2>1. Line(viewing_term)' = [i \in 1 .. buf_pos + 1 |-> term_buf'[viewing_term][i - 1]]
    BY DEF Line, Pos
  <2>2. \A i \in 1 .. buf_pos + 1 :
          term_buf'[viewing_term][i - 1] = IF i = buf_pos + 1 THEN c ELSE term_buf[viewing_term][i - 1]
    BY <1>1 DEF TypeOK
  <2>3. Line(viewing_term) \in Seq(Keys) /\ Len(Line(viewing_term)) = buf_pos
    BY <1>1, LineFacts
  <2>4. \A i \in 1 .. buf_pos : Line(viewing_term)[i] = term_buf[viewing_term][i - 1]
    BY <1>1 DEF Line
  <2>5. /\ Append(Line(viewing_term), c) \in Seq(Keys)
        /\ Len(Append(Line(viewing_term), c)) = buf_pos + 1
        /\ \A i \in 1 .. buf_pos + 1 : Append(Line(viewing_term), c)[i] =
                 IF i = buf_pos + 1 THEN c ELSE term_buf[viewing_term][i - 1]
    BY <1>1, <2>3, <2>4
  <2>6. /\ Line(viewing_term)' \in Seq(Keys)
        /\ Len(Line(viewing_term)') = buf_pos + 1
        /\ \A i \in 1 .. buf_pos + 1 : Line(viewing_term)'[i] = Append(Line(viewing_term), c)[i]
    <3>1. \A i \in 1 .. buf_pos : term_buf[viewing_term][i - 1] \in Keys
      BY <1>1 DEF TypedAreKeys
    <3> HIDE DEF IInv, Key
    <3>2. \A i \in 1 .. buf_pos + 1 : term_buf'[viewing_term][i - 1] \in Keys
      BY <1>1, <2>2, <3>1
    <3> QED
      BY <3>2, <1>1, <2>1, <2>2, <2>5
  <2> QED
    BY <1>1, <2>5, <2>6, SeqEqual
<1>4. Lines' = [Lines EXCEPT ![viewing_term] = Append(@, c)]
  BY <1>1, <1>2, <1>3 DEF Lines
<1>5. Len(Lines[viewing_term]) < KBD_BUF_SIZE - 1
  BY <1>1, LineFacts DEF Lines
<1> QED
  BY <1>4, <1>5 DEF Editor!Type, Lines, Line

LEMMA EnterRefines ==
  ASSUME IInv, Enter
  PROVE  Editor!Submit
<1> USE LineAssumption DEF IInv, Enter, Store, PosAfterEnter, PointerFollows
<1>1. viewing_term \in Term /\ buf_pos \in 0 .. KBD_BUF_SIZE - 1
  BY DEF TypeOK
<1>2. \A t \in Term : t /= viewing_term => Line(t)' = Line(t)
  BY DEF Line, Pos, TypeOK
<1>3. Line(viewing_term)' = <<>>
  BY DEF Line, Pos
<1>4. Lines' = [Lines EXCEPT ![viewing_term] = <<>>]
  BY <1>1, <1>2, <1>3 DEF Lines
<1>5. {t \in Term : kbd_buf_ready'[t]} = {t \in Term : kbd_buf_ready[t]} \cup {viewing_term}
  BY <1>1 DEF Wake, TypeOK
<1> QED
  BY <1>4, <1>5 DEF Editor!Submit, Lines, Line

LEMMA BackspaceRefines ==
  ASSUME IInv, Backspace
  PROVE  Editor!Erase
<1> USE LineAssumption DEF IInv, Backspace
<1>1. viewing_term \in Term /\ buf_pos \in 1 .. KBD_BUF_SIZE - 1 /\ Pos(viewing_term) = buf_pos
  BY DEF TypeOK, Pos
<1>2. \A t \in Term : t /= viewing_term => Line(t)' = Line(t)
  BY DEF Line, Pos
<1>3. Line(viewing_term) \in Seq(Keys) /\ Len(Line(viewing_term)) = buf_pos
  BY <1>1, LineFacts
<1>4. Line(viewing_term)' = [i \in 1 .. buf_pos - 1 |-> term_buf[viewing_term][i - 1]]
  BY DEF Line, Pos
<1>5. \A i \in 1 .. buf_pos : Line(viewing_term)[i] = term_buf[viewing_term][i - 1]
  BY <1>1 DEF Line
<1>6. Line(viewing_term)' = SubSeq(Line(viewing_term), 1, Len(Line(viewing_term)) - 1)
  BY <1>1, <1>3, <1>4, <1>5
<1>7. Lines' = [Lines EXCEPT ![viewing_term] = SubSeq(@, 1, Len(@) - 1)]
  BY <1>1, <1>2, <1>6 DEF Lines
<1>8. Lines[viewing_term] /= <<>>
  BY <1>1, <1>3 DEF Lines
<1> QED
  BY <1>7, <1>8 DEF Editor!Erase, Lines, Line

LEMMA SwitchRefines ==
  ASSUME IInv, NEW target \in Term, switch_terminal(target)
  PROVE  Editor!Look(target)
<1> USE LineAssumption DEF IInv, switch_terminal, SavedPos
<1>1. \A t \in Term : Pos(t)' = Pos(t)
  BY DEF TypeOK, Pos
<1>2. Lines' = Lines
  BY <1>1 DEF Lines, Line
<1> QED
  BY <1>2 DEF Editor!Look, Lines, Line

LEMMA ReturnRefines ==
  ASSUME IInv, NEW t \in Term, Return(t)
  PROVE  Editor!Answer(t)
<1> USE DEF IInv, Return, keyboard
<1>1. {u \in Term : kbd_buf_ready'[u]} = {u \in Term : kbd_buf_ready[u]} \ {t}
  BY DEF TypeOK
<1>2. Lines' = Lines
  BY DEF Lines, Line, Pos
<1> QED
  BY <1>1, <1>2 DEF Editor!Answer, Lines, Line

LEMMA OthersStutter ==
  ASSUME UNCHANGED <<keyboard, kbd_buf_ready>>
  PROVE  UNCHANGED Editor!vars
BY DEF keyboard, Editor!vars, Pos

LEMMA RefinesNext ==
  ASSUME IInv, [Next]_vars
  PROVE  [Editor!Next]_(Editor!vars)
<1>1. CASE \E c \in Keys : Key(c)
  BY <1>1, KeyRefines DEF Editor!Next
<1>2. CASE Enter
  BY <1>2, EnterRefines DEF Editor!Next
<1>3. CASE Backspace
  BY <1>3, BackspaceRefines DEF Editor!Next
<1>4. CASE \E t \in Term : switch_terminal(t)
  BY <1>4, SwitchRefines DEF Editor!Next
<1>5. CASE \E t \in Term, n \in NBytes : Call(t, n)
  BY <1>5, OthersStutter DEF Call
<1>6. CASE \E t \in Term : Step(t)
  <2> PICK t \in Term : Step(t)
    BY <1>6
  <2>1. CASE SeeReady(t) \/ CopyChar(t)
    BY <2>1, OthersStutter DEF SeeReady, CopyChar
  <2>2. CASE Return(t)
    BY <2>2, ReturnRefines DEF Editor!Next
  <2> QED
    BY <2>1, <2>2 DEF Step
<1>7. CASE UNCHANGED vars
  BY <1>7, OthersStutter DEF vars
<1> QED
  BY <1>1, <1>2, <1>3, <1>4, <1>5, <1>6, <1>7 DEF Next

\* The handlers implement one line of text per terminal, which no switch, key
\* or read in another terminal changes.
THEOREM RefinesLineEditor == Spec => ImplementsEditor
<1>1. IInv /\ [Next]_vars => [Editor!Next]_(Editor!vars)
  BY RefinesNext
<1> QED
  BY <1>1, RefinesInit, Inductive, PTL DEF Spec, ImplementsEditor, Editor!Spec

=============================================================================
