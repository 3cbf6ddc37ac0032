-------------------------------- MODULE Tick --------------------------------
(***************************************************************************)
(* The system tick: src/code/net/Tick.c.                                   *)
(*                                                                         *)
(* A hardware timer TMR1 counts modulo LowRange and raises the flag T1IF   *)
(* when it returns to zero; the interrupt handler _T1Interrupt counts the  *)
(* rounds in dwInternalTicks.  GetTickCopy puts the two together into one  *)
(* count while the timer goes on, in a loop that closes the interrupt,     *)
(* reads both and starts again if the flag came up meanwhile.  The device  *)
(* (a PIC32MX270) raises the flag at the return to zero, so the correction *)
(* of a low half of 0xFFFF that other devices need is not compiled.        *)
(***************************************************************************)
EXTENDS Integers

CONSTANTS
  LowRange,    \* TMR1 counts modulo this: 2^16
  HighRange,   \* dwInternalTicks counts modulo this: 2^32
  MaxNow       \* bound on the ticks of a behaviour

ASSUME TickAssumption ==
  /\ LowRange \in Nat \ {0} /\ HighRange \in Nat \ {0}
  /\ MaxNow \in Nat

VARIABLES
  tmr,         \* TMR1
  t1if,        \* the interrupt flag
  t1ie,        \* the interrupt enable bit
  high,        \* dwInternalTicks
  at,          \* where the main loop stands in GetTickCopy
  low,         \* the low half of vTickReading
  reading,     \* vTickReading when GetTickCopy last returned
  now,         \* history: ticks since the timer was started
  lowAt,       \* history: now when low was read
  readAt       \* history: now when the low half of reading was read

timer == <<tmr, t1if, now>>
tickVars == <<timer, t1ie, high, at, low, reading, lowAt, readAt>>

-----------------------------------------------------------------------------
\* The timer.  It does not come round a second time before the handler has
\* run: the interrupt is never held off for a whole round (0.4 s).
Count ==
  /\ now < MaxNow
  /\ ~(t1if /\ tmr = LowRange - 1)
  /\ now' = now + 1
  /\ IF tmr = LowRange - 1
     THEN tmr' = 0 /\ t1if' = TRUE
     ELSE tmr' = tmr + 1 /\ UNCHANGED t1if
  /\ UNCHANGED <<t1ie, high, at, low, reading, lowAt, readAt>>

\* _T1Interrupt.
Interrupt ==
  /\ t1if /\ t1ie
  /\ high' = IF high = HighRange - 1 THEN 0 ELSE high + 1
  /\ t1if' = FALSE
  /\ UNCHANGED <<tmr, now, t1ie, at, low, reading, lowAt, readAt>>

-----------------------------------------------------------------------------
(* GetTickCopy. *)

Call ==
  /\ at = "idle"
  /\ at' = "open"
  /\ UNCHANGED <<timer, t1ie, high, low, reading, lowAt, readAt>>

\* Mutant: the interrupt stays closed when the loop starts again.
OpenForgotten ==
  /\ at = "open"
  /\ at' = "close"
  /\ UNCHANGED <<timer, t1ie, high, low, reading, lowAt, readAt>>

\* IEC0SET: a pending interrupt may be taken until the next step.
Open ==
  /\ at = "open"
  /\ t1ie' = TRUE
  /\ at' = "close"
  /\ UNCHANGED <<timer, high, low, reading, lowAt, readAt>>

\* IEC0CLR.
Close ==
  /\ at = "close"
  /\ t1ie' = FALSE
  /\ at' = "low"
  /\ UNCHANGED <<timer, high, low, reading, lowAt, readAt>>

ReadLow ==
  /\ at = "low"
  /\ low' = tmr
  /\ lowAt' = now
  /\ at' = "check"
  /\ UNCHANGED <<timer, t1ie, high, reading, readAt>>

\* The flag came up: one of the halves may be a round behind the other.
Again ==
  /\ at = "check" /\ t1if
  /\ at' = "open"
  /\ UNCHANGED <<timer, t1ie, high, low, reading, lowAt, readAt>>

\* Mutant: the flag is not looked at.
ReturnUnchecked ==
  /\ at = "check"
  /\ reading' = [high |-> high, low |-> low]
  /\ readAt' = lowAt
  /\ t1ie' = TRUE
  /\ at' = "idle"
  /\ UNCHANGED <<timer, high, low, lowAt>>

\* dwInternalTicks cannot change while the interrupt is closed, so it is
\* read here, in the step that finds the flag down.
Return ==
  /\ at = "check" /\ ~t1if
  /\ reading' = [high |-> high, low |-> low]
  /\ readAt' = lowAt
  /\ t1ie' = TRUE
  /\ at' = "idle"
  /\ UNCHANGED <<timer, high, low, lowAt>>

GetTickCopy == Open \/ Close \/ ReadLow \/ Again \/ Return

-----------------------------------------------------------------------------
\* TickInit.
TickInit ==
  /\ tmr = 0 /\ t1if = FALSE /\ t1ie = TRUE /\ high = 0
  /\ at = "idle" /\ low = 0 /\ reading = [high |-> 0, low |-> 0]
  /\ now = 0 /\ lowAt = 0 /\ readAt = 0

TickNext == Count \/ Interrupt \/ Call \/ GetTickCopy

\* GetTickCopy goes on, and an interrupt that is pending each time the
\* loop opens it is taken at last, however short the opening.
TickSpec == TickInit /\ [][TickNext]_tickVars /\ WF_tickVars(GetTickCopy) /\ SF_tickVars(Interrupt)

-----------------------------------------------------------------------------
(* Properties. *)

Reading == [high : 0 .. HighRange - 1, low : 0 .. LowRange - 1]

TickTypeOK ==
  /\ tmr \in 0 .. LowRange - 1 /\ low \in 0 .. LowRange - 1
  /\ high \in 0 .. HighRange - 1
  /\ t1if \in BOOLEAN /\ t1ie \in BOOLEAN
  /\ at \in {"idle", "open", "close", "low", "check"}
  /\ reading \in Reading
  /\ now \in 0 .. MaxNow /\ lowAt \in 0 .. MaxNow /\ readAt \in 0 .. MaxNow

\* The two halves of a count.
HighOf(n) == (n \div LowRange) % HighRange
LowOf(n) == n % LowRange

\* "An interrupt-safe and synchronized read": both halves of what
\* GetTickCopy returns are those of one and the same moment, wherever the
\* timer comes round during the call.
ReadingExact == reading = [high |-> HighOf(readAt), low |-> LowOf(readAt)]

\* A call of GetTickCopy returns: a flag that came up is served in the
\* opening, so the loop does not go round on it for ever.
ReadEnds == at # "idle" ~> at = "idle"
=============================================================================
