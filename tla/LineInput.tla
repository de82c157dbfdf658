----------------------------- MODULE LineInput ------------------------------
(***************************************************************************)
(* The keyboard handler, switch_terminal and terminal_read: how keys reach *)
(* the line buffer of the terminal on the screen, and how a program in any *)
(* terminal reads a line from it.                                          *)
(*                                                                         *)
(* The keyboard handler runs with interrupts disabled, so a key press is   *)
(* one action.  syscall_read enables interrupts first, so a read is cut    *)
(* into steps between which keys, terminal switches and the steps of other *)
(* terminals' reads come: the wait for kbd_buf_ready, one step for every   *)
(* character copied, and the reset of kbd_buf_ready.  Which terminal has   *)
(* the processor is not modelled; any may take the next step.              *)
(*                                                                         *)
(* The modifier keys are not modelled: they decide which character or      *)
(* command a key is, and any may come next.  Nor is the screen.            *)
(***************************************************************************)
EXTENDS Naturals, Sequences

CONSTANTS
  Term,           (* the terminals                                         *)
  FirstTerm,      (* the one on the screen after terminal_init             *)
  Keys,           (* the characters other than '\n'                        *)
  Newline, Nul,   (* '\n', and what a buffer holds at first                *)
  KBD_BUF_SIZE,   (* 128 in the code                                       *)
  NBytes          (* the sizes programs ask terminal_read for              *)

ASSUME LineAssumption ==
  /\ FirstTerm \in Term
  /\ Newline \notin Keys /\ Nul \notin Keys /\ Nul /= Newline
  /\ KBD_BUF_SIZE \in Nat /\ KBD_BUF_SIZE >= 2
  /\ NBytes \subseteq Nat \ {0}     \* terminal_read refuses nbytes <= 0

Char   == Keys \cup {Newline, Nul}
NoLine == <<Nul>>

VARIABLES
  term_buf,       (* terminal_t.kbd_buf                                    *)
  term_pos,       (* terminal_t.buf_pos: set when the terminal is left     *)
  kbd_buf,        (* the terminal whose buffer the pointer kbd_buf names   *)
  buf_pos,        (* where the next key goes                               *)
  viewing_term,   (* viewing_term_ptr                                      *)
  kbd_buf_ready,  (* terminal_t.kbd_buf_ready                              *)
  read,           (* the call of terminal_read made in each terminal       *)
  intact          (* history: the line entered in a terminal, NoLine once  *)
                  (* it was read or anything else was typed or switched    *)

keyboard == <<term_buf, term_pos, kbd_buf, buf_pos, viewing_term>>
vars     == <<keyboard, kbd_buf_ready, read, intact>>

NoRead == [at |-> "none", nbytes |-> 0, got |-> <<>>]

Init ==
  /\ term_buf      = [t \in Term |-> [i \in 0 .. KBD_BUF_SIZE - 1 |-> Nul]]
  /\ term_pos      = [t \in Term |-> 0]
  /\ kbd_buf       = FirstTerm
  /\ buf_pos       = 0
  /\ viewing_term  = FirstTerm
  /\ kbd_buf_ready = [t \in Term |-> FALSE]
  /\ read          = [t \in Term |-> NoRead]
  /\ intact        = [t \in Term |-> NoLine]

-----------------------------------------------------------------------------
(* The keyboard handler.                                                   *)

RoomForAll == buf_pos <= KBD_BUF_SIZE - 1                                   \* mutant
Room == buf_pos <= KBD_BUF_SIZE - 2

Store(c) == term_buf' = [term_buf EXCEPT ![kbd_buf][buf_pos] = c]

\* A key other than Enter.  It is echoed also when there is no room for it.
Key(c) ==
  /\ Room
  /\ Store(c)
  /\ buf_pos' = buf_pos + 1
  /\ intact' = [intact EXCEPT ![viewing_term] = NoLine]
  /\ UNCHANGED <<term_pos, kbd_buf, viewing_term, kbd_buf_ready, read>>

PosAfterEnter == 0

WakeFirst == [kbd_buf_ready EXCEPT ![FirstTerm] = TRUE]                     \* mutant
Wake == [kbd_buf_ready EXCEPT ![viewing_term] = TRUE]

TypedLine == [i \in 1 .. buf_pos |-> term_buf[kbd_buf][i - 1]]

Enter ==
  /\ buf_pos <= KBD_BUF_SIZE - 1
  /\ Store(Newline)
  /\ buf_pos' = PosAfterEnter
  /\ kbd_buf_ready' = Wake
  /\ intact' = [intact EXCEPT ![viewing_term] =
                  IF read[viewing_term].at = "copying" THEN NoLine ELSE TypedLine]
  /\ UNCHANGED <<term_pos, kbd_buf, viewing_term, read>>

Backspace ==
  /\ buf_pos > 0
  /\ buf_pos' = buf_pos - 1
  /\ UNCHANGED <<term_buf, term_pos, kbd_buf, viewing_term, kbd_buf_ready, read, intact>>

PosNotSaved == term_pos                                                     \* mutant
SavedPos == [term_pos EXCEPT ![viewing_term] = buf_pos]

\* Alt+F1 .. Alt+F3; only the screen changes for the terminal already on it.
switch_terminal(target) ==
  /\ target /= viewing_term
  /\ term_pos'     = SavedPos
  /\ kbd_buf'      = target
  /\ buf_pos'      = term_pos[target]
  /\ viewing_term' = target
  /\ intact'       = [t \in Term |-> NoLine]
  /\ UNCHANGED <<term_buf, kbd_buf_ready, read>>

-----------------------------------------------------------------------------
(* read_from_kbd_buf_to_buf, called in terminal t.                         *)

Call(t, n) ==
  /\ read[t].at = "none"
  /\ read' = [read EXCEPT ![t] = [at |-> "waiting", nbytes |-> n, got |-> <<>>]]
  /\ UNCHANGED <<keyboard, kbd_buf_ready, intact>>

\* The spin on kbd_buf_ready ends.
SeeReady(t) ==
  /\ read[t].at = "waiting"
  /\ kbd_buf_ready[t]
  /\ read' = [read EXCEPT ![t].at = "copying"]
  /\ UNCHANGED <<keyboard, kbd_buf_ready, intact>>

\* The conditions that end the for loop after the characters got.
NoStop(r) == Len(r.got) >= r.nbytes \/ Len(r.got) > KBD_BUF_SIZE - 1        \* mutant
LoopEnds(r) ==
  \/ Len(r.got) >= r.nbytes
  \/ Len(r.got) > KBD_BUF_SIZE - 1
  \/ r.got /= <<>> /\ r.got[Len(r.got)] = Newline

\* One iteration: the buffer is the one kbd_buf names at that moment.
CopyChar(t) ==
  /\ read[t].at = "copying"
  /\ ~LoopEnds(read[t])
  /\ read' = [read EXCEPT ![t].got = Append(@, term_buf[kbd_buf][Len(@)])]
  /\ UNCHANGED <<keyboard, kbd_buf_ready, intact>>

Return(t) ==
  /\ read[t].at = "copying"
  /\ LoopEnds(read[t])
  /\ kbd_buf_ready' = [kbd_buf_ready EXCEPT ![t] = FALSE]
  /\ read' = [read EXCEPT ![t] = NoRead]
  /\ intact' = [intact EXCEPT ![t] = NoLine]
  /\ UNCHANGED keyboard

Step(t) == SeeReady(t) \/ CopyChar(t) \/ Return(t)

Next ==
  \/ \E c \in Keys : Key(c)
  \/ Enter
  \/ Backspace
  \/ \E t \in Term : switch_terminal(t)
  \/ \E t \in Term, n \in NBytes : Call(t, n)
  \/ \E t \in Term : Step(t)

Spec == Init /\ [][Next]_vars

\* Every terminal gets the processor again and again (RoundRobin of
\* ProcessControl) and a read that has it goes on.  Nobody has to type.
FairSpec == Spec /\ \A t \in Term : WF_vars(Step(t))

-----------------------------------------------------------------------------
(* Properties.                                                             *)

Pos(t) == IF t = viewing_term THEN buf_pos ELSE term_pos[t]

\* The variables keep their types: no position is beyond the last character.
TypeOK ==
  /\ term_buf \in [Term -> [0 .. KBD_BUF_SIZE - 1 -> Char]]
  /\ term_pos \in [Term -> 0 .. KBD_BUF_SIZE - 1]
  /\ kbd_buf \in Term
  /\ buf_pos \in 0 .. KBD_BUF_SIZE - 1
  /\ viewing_term \in Term
  /\ kbd_buf_ready \in [Term -> BOOLEAN]
  /\ read \in [Term -> [at : {"none", "waiting", "copying"},
                        nbytes : NBytes \cup {0}, got : Seq(Char)]]
  /\ intact \in [Term -> Seq(Char)]

\* "the last character in the buffer should be reserved for '\n'": in no
\* terminal does a key ever reach it, however switches, erasing and a full
\* line follow one another.
LastReserved == \A t \in Term : term_buf[t][KBD_BUF_SIZE - 1] \in {Nul, Newline}

Delivered(line, n) ==
  IF n <= Len(line) THEN SubSeq(line, 1, n) ELSE Append(line, Newline)

\* When nothing is pressed from Enter until the read ends, the read has the
\* line as it was typed, with its '\n' if that fits.
LineDelivered ==
  \A t \in Term :
    read[t].at = "copying" /\ LoopEnds(read[t]) /\ intact[t] /= NoLine =>
      read[t].got = Delivered(intact[t], read[t].nbytes)

\* Enter in a terminal ends the read that waits there.
EnterAnswers ==
  \A t \in Term : read[t].at = "waiting" /\ intact[t] /= NoLine ~> read[t].at = "none"

Editor ==
  INSTANCE LineEditor WITH
    LINE_MAX  <- KBD_BUF_SIZE - 1,
    line      <- [t \in Term |-> [i \in 1 .. Pos(t) |-> term_buf[t][i - 1]]],
    view      <- viewing_term,
    submitted <- {t \in Term : kbd_buf_ready[t]}

\* Buffers, positions and pointers implement one line per terminal: what was
\* typed in a terminal is there when it is looked at again.
ImplementsEditor == Editor!Spec

\* "(there is always a '\n' in the keyboard buffer)": while a read copies.
AlwaysNewline ==
  \A t \in Term : read[t].at = "copying" =>
    \E i \in 0 .. KBD_BUF_SIZE - 1 : term_buf[kbd_buf][i] = Newline

=============================================================================
