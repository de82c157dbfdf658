--------------------------- MODULE RealTimeClock ----------------------------
(***************************************************************************)
(* The RTC driver: the interrupt handler, rtc_open, rtc_write and the read *)
(* that waits for the next interrupt.  There is one rtc_signal and one     *)
(* hardware rate for the programs of all terminals.                        *)
(*                                                                         *)
(* Handlers run with interrupts disabled and are one action; rtc_read runs *)
(* under syscall_read, with interrupts enabled, and takes three steps.     *)
(* A program moves only while its terminal has the processor, which the    *)
(* PIT passes round.                                                       *)
(***************************************************************************)
EXTENDS Integers, TLAPS

CONSTANTS
  TERM_NUM,     (* number of terminals                                     *)
  Requests      (* the frequencies programs ask for, good and bad ones     *)

ASSUME ClockAssumption == TERM_NUM \in Nat \ {0} /\ Requests \subseteq Int

Term == 0 .. TERM_NUM - 1

LOW_FREQUENCY  == 2
HIGH_FREQUENCY == 1024

VARIABLES
  running,      (* the terminal that has the processor                     *)
  rtc_signal,   (* set by the interrupt, cleared by reads                  *)
  read,         (* terminal -> where its program's rtc_read is             *)
  rate,         (* low four bits of RTC register A                         *)
  accepted,     (* history: the last frequency set_frequency accepted      *)
  ticked        (* history: an interrupt came since the read was called    *)

clock == <<rtc_signal, rate, accepted>>
vars  == <<running, clock, read, ticked>>

\* log_fre: how often fre can be shifted right before it is 0, less one.
Log(fre) == CHOOSE n \in 0 .. 15 : 2^n <= fre /\ fre < 2^(n + 1)

InRange(fre) == LOW_FREQUENCY <= fre /\ fre <= HIGH_FREQUENCY
PowerOfTwo(fre) == 2^Log(fre) = fre               \* (fre - 1) & fre is 0

OnlyRange(fre) == InRange(fre)                                              \* mutant
Valid(fre) == InRange(fre) /\ PowerOfTwo(fre)

\* The hardware: 2^15 Hz, halved rate - 1 times.
Hertz(r) == 2^(15 - (r - 1))

\* The BIOS leaves 1024 Hz; rtc_init does not change it.
Init ==
  /\ running = 0
  /\ rtc_signal = FALSE
  /\ read = [t \in Term |-> "none"]
  /\ rate = 6 /\ accepted = HIGH_FREQUENCY
  /\ ticked = [t \in Term |-> FALSE]

NextTerm == (running + 1) % TERM_NUM

Tick ==
  /\ running' = NextTerm
  /\ UNCHANGED <<clock, read, ticked>>

rtc_int_handler ==
  /\ rtc_signal' = TRUE
  /\ ticked' = [t \in Term |-> TRUE]
  /\ UNCHANGED <<running, rate, accepted, read>>

\* A frequency that is not accepted changes nothing.
set_frequency(fre) ==
  /\ Valid(fre)
  /\ rate' = 16 - Log(fre)
  /\ accepted' = fre
  /\ UNCHANGED <<running, rtc_signal, read, ticked>>

rtc_open == set_frequency(LOW_FREQUENCY)

rtc_write(fre) == set_frequency(fre)

\* Line by line: rtc_signal = 0; while (rtc_signal != 1); rtc_signal = 0.
SignalKept == rtc_signal                                                    \* mutant
SignalAtCall == FALSE

Call(t) ==
  /\ running = t /\ read[t] = "none"
  /\ rtc_signal' = SignalAtCall
  /\ read' = [read EXCEPT ![t] = "waiting"]
  /\ ticked' = [ticked EXCEPT ![t] = FALSE]
  /\ UNCHANGED <<running, rate, accepted>>

\* As if rtc_signal were not volatile.
NeverSeen(t) == FALSE                                                       \* mutant
SignalSeen(t) == rtc_signal

See(t) ==
  /\ running = t /\ read[t] = "waiting"
  /\ SignalSeen(t)
  /\ read' = [read EXCEPT ![t] = "woken"]
  /\ UNCHANGED <<running, clock, ticked>>

Return(t) ==
  /\ running = t /\ read[t] = "woken"
  /\ rtc_signal' = FALSE
  /\ read' = [read EXCEPT ![t] = "none"]
  /\ UNCHANGED <<running, rate, accepted, ticked>>

Next ==
  \/ Tick
  \/ rtc_int_handler
  \/ rtc_open
  \/ \E fre \in Requests : rtc_write(fre)
  \/ \E t \in Term : Call(t) \/ See(t) \/ Return(t)

Spec == Init /\ [][Next]_vars

\* Both devices keep interrupting.  A time slice is far longer than a turn of
\* the wait loop: a program that is ready whenever it has the processor does
\* move at some time, hence strong fairness.
FairSpec ==
  /\ Spec
  /\ WF_vars(Tick) /\ WF_vars(rtc_int_handler)
  /\ \A t \in Term : SF_vars(See(t)) /\ SF_vars(Return(t))

-----------------------------------------------------------------------------
(* Properties.                                                             *)

\* The hardware runs at the frequency that was accepted last: the logarithm,
\* the rate and the range check fit together.
RateIsFrequency == Hertz(rate) = accepted

\* The variables keep their types, and the rate is right.
TypeOK ==
  /\ running \in Term
  /\ rtc_signal \in BOOLEAN
  /\ read \in [Term -> {"none", "waiting", "woken"}]
  /\ rate \in 1 .. 15
  /\ accepted \in Int /\ RateIsFrequency
  /\ ticked \in [Term -> BOOLEAN]

\* No read returns at once on an interrupt that came before it was called,
\* whoever cleared or left rtc_signal in between.
ReadWaitsForTick == \A t \in Term : read[t] = "woken" => ticked[t]

\* When programs wait, one of them is woken.
SomebodyWakes ==
  (\E t \in Term : read[t] = "waiting") ~> (\E t \in Term : read[t] = "woken")

\* A program that is the only one to use the clock from some time on is woken.
\* That every read is answered, with others using the clock, does not hold:
\* they can consume each interrupt before it gets the processor.
LoneReaderWakes ==
  \A t \in Term :
    <>[](\A u \in Term \ {t} : read[u] = "none") => (read[t] = "waiting" ~> read[t] = "woken")

\* Both.
ReadersWake == SomebodyWakes /\ LoneReaderWakes

-----------------------------------------------------------------------------
(* ReadWaitsForTick, for any number of terminals and any requests.         *)

HistoryType ==
  /\ rtc_signal \in BOOLEAN
  /\ read \in [Term -> {"none", "waiting", "woken"}]
  /\ ticked \in [Term -> BOOLEAN]

\* A read that waits or is woken cleared rtc_signal when it was called, so a
\* signal it can see was set since.
SignalIsNew == rtc_signal => \A t \in Term : read[t] /= "none" => ticked[t]

IInv == HistoryType /\ SignalIsNew /\ ReadWaitsForTick

LEMMA InitIInv == Init => IInv
BY DEF Init, IInv, HistoryType, SignalIsNew, ReadWaitsForTick

LEMMA NextIInv ==
  ASSUME IInv, [Next]_vars
  PROVE  IInv'
<1> USE DEF IInv, HistoryType, SignalIsNew, ReadWaitsForTick, clock
<1>1. CASE Tick
  BY <1>1 DEF Tick
<1>2. CASE rtc_int_handler
  BY <1>2 DEF rtc_int_handler
<1>3. CASE rtc_open \/ \E fre \in Requests : rtc_write(fre)
  BY <1>3 DEF rtc_open, rtc_write, set_frequency
<1>4. ASSUME NEW t \in Term, Call(t)
      PROVE  IInv'
  BY <1>4 DEF Call, SignalAtCall
<1>5. ASSUME NEW t \in Term, See(t)
      PROVE  IInv'
  BY <1>5 DEF See, SignalSeen
<1>6. ASSUME NEW t \in Term, Return(t)
      PROVE  IInv'
  BY <1>6 DEF Return
<1>7. CASE UNCHANGED vars
  BY <1>7 DEF vars
<1> QED
  BY <1>1, <1>2, <1>3, <1>4, <1>5, <1>6, <1>7 DEF Next

\* rtc_read never answers with an interrupt older than the call.
THEOREM ReadWaitsCorrect == Spec => []ReadWaitsForTick
<1>1. IInv /\ [Next]_vars => IInv'
  BY NextIInv
<1>2. IInv => ReadWaitsForTick
  BY DEF IInv
<1> QED
  BY <1>1, <1>2, InitIInv, PTL DEF Spec

-----------------------------------------------------------------------------
(* TypeOK, with the frequency of the hardware.                             *)

\* The binary logarithm of a frequency in the range: the loop of shifts finds it.
LEMMA LogIsFound ==
  ASSUME NEW fre \in Int, InRange(fre)
  PROVE  Log(fre) \in 0 .. 15 /\ 2^Log(fre) <= fre /\ fre < 2^(Log(fre) + 1)
<1>1. /\ 2^1 = 2 /\ 2^2 = 4 /\ 2^3 = 8 /\ 2^4 = 16 /\ 2^5 = 32 /\ 2^6 = 64
      /\ 2^7 = 128 /\ 2^8 = 256 /\ 2^9 = 512 /\ 2^10 = 1024 /\ 2^11 = 2048
  OBVIOUS
<1>2. \E n \in 0 .. 15 : 2^n <= fre /\ fre < 2^(n + 1)
  <2> DEFINE Between(n) == 2^n <= fre /\ fre < 2^(n + 1)
  <2>1. \/ (2 <= fre /\ fre < 4) \/ (4 <= fre /\ fre < 8) \/ (8 <= fre /\ fre < 16)
        \/ (16 <= fre /\ fre < 32) \/ (32 <= fre /\ fre < 64) \/ (64 <= fre /\ fre < 128)
        \/ (128 <= fre /\ fre < 256) \/ (256 <= fre /\ fre < 512) \/ (512 <= fre /\ fre < 1024)
        \/ (1024 <= fre /\ fre < 2048)
    BY DEF InRange, LOW_FREQUENCY, HIGH_FREQUENCY
  <2>2. \/ Between(1) \/ Between(2) \/ Between(3) \/ Between(4) \/ Between(5)
        \/ Between(6) \/ Between(7) \/ Between(8) \/ Between(9) \/ Between(10)
    BY <1>1, <2>1
  <2> QED
    BY <2>2
<1> QED
  BY <1>2 DEF Log

\* What set_frequency puts into register A divides 2^15 Hz to the frequency.
LEMMA RateFits ==
  ASSUME NEW fre \in Int, Valid(fre)
  PROVE  16 - Log(fre) \in 1 .. 15 /\ Hertz(16 - Log(fre)) = fre
<1>1. InRange(fre) /\ 2^Log(fre) = fre
  BY DEF Valid, PowerOfTwo
<1>2. Log(fre) \in 0 .. 15
  BY <1>1, LogIsFound
<1>3. 2^0 = 1
  OBVIOUS
<1>4. ASSUME Log(fre) = 0 PROVE FALSE
  <2>1. fre = 1
    BY <1>1, <1>3, <1>4
  <2> QED
    BY <2>1, <1>1 DEF InRange, LOW_FREQUENCY, HIGH_FREQUENCY
<1>5. 16 - Log(fre) \in 1 .. 15 /\ 15 - ((16 - Log(fre)) - 1) = Log(fre)
  BY <1>2, <1>4
<1> QED
  BY <1>1, <1>5 DEF Hertz

LEMMA InitTypeOK == Init => TypeOK
<1>1. 15 - (6 - 1) = 10 /\ 2^10 = 1024
  OBVIOUS
<1>2. Hertz(6) = HIGH_FREQUENCY
  BY <1>1 DEF Hertz, HIGH_FREQUENCY
<1>3. HIGH_FREQUENCY \in Int /\ 0 \in Term
  BY ClockAssumption DEF HIGH_FREQUENCY, Term
<1>4. ASSUME Init PROVE TypeOK
  <2>1. RateIsFrequency
    BY <1>2, <1>4 DEF Init, RateIsFrequency
  <2>2. rtc_signal \in BOOLEAN /\ ticked \in [Term -> BOOLEAN]
    BY <1>4 DEF Init
  <2>3. read \in [Term -> {"none", "waiting", "woken"}]
    BY <1>4 DEF Init
  <2>4. running \in Term /\ rate \in 1 .. 15 /\ accepted \in Int
    BY <1>3, <1>4 DEF Init
  <2> QED
    BY <2>1, <2>2, <2>3, <2>4 DEF TypeOK
<1> QED
  BY <1>4

LEMMA NextTypeOK ==
  ASSUME TypeOK, [Next]_vars
  PROVE  TypeOK'
<1> USE ClockAssumption DEF TypeOK, clock
<1>1. CASE Tick
  BY <1>1 DEF Tick, NextTerm, Term, RateIsFrequency
<1>2. CASE rtc_int_handler
  BY <1>2 DEF rtc_int_handler, RateIsFrequency
<1>3. ASSUME NEW fre \in Int, set_frequency(fre)
      PROVE  TypeOK'
  <2>1. /\ 16 - Log(fre) \in 1 .. 15 /\ Hertz(16 - Log(fre)) = fre
        /\ rate' = 16 - Log(fre) /\ accepted' = fre
        /\ UNCHANGED <<running, rtc_signal, read, ticked>>
    BY <1>3, RateFits DEF set_frequency
  <2> QED
    BY <2>1 DEF RateIsFrequency
<1>4. CASE rtc_open \/ \E fre \in Requests : rtc_write(fre)
  BY <1>3, <1>4 DEF rtc_open, rtc_write, LOW_FREQUENCY
<1>5. ASSUME NEW t \in Term, Call(t) \/ See(t) \/ Return(t)
      PROVE  TypeOK'
  BY <1>5 DEF Call, See, Return, SignalAtCall, RateIsFrequency
<1>6. CASE UNCHANGED vars
  BY <1>6 DEF vars, RateIsFrequency
<1> QED
  BY <1>1, <1>2, <1>4, <1>5, <1>6 DEF Next

\* For all the frequencies programs may ask for, the hardware runs at the one that
\* was accepted last.
THEOREM TypeCorrect == Spec => []TypeOK
BY InitTypeOK, NextTypeOK, PTL DEF Spec

=============================================================================
