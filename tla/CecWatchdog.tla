---------------------------- MODULE CecWatchdog ----------------------------
(***************************************************************************)
(* The line watchdog, cec_watchdog.S: timer 1 with two compare matches,    *)
(* and a routine that tells whether somebody else holds the line low.      *)
(*                                                                         *)
(* The routine runs with interrupts disabled, in less than a tick of the   *)
(* timer: a call is one step.  cec_watchdog_init() has been called.        *)
(***************************************************************************)
EXTENDS Integers

CONSTANTS
  TIMER,      \* counts of timer 1                     (code: 256)
  LATENCY,    \* US_TO_TICKS(MAX_LATENCY_US)           (code: 175 at 16 MHz)
  RISE,       \* US_TO_TICKS_UP(CEC_MAX_RISE_TIME)     (code: 63 at 16 MHz)
  MaxGap      \* ticks between two calls

VARIABLES
  TCNT1, OCR1B,  \* timer 1; OCR1A is RISE
  TIFR,          \* its compare flags
  cec_watchdog_last_output,
  PBOUT,         \* our output: we drive the line low
  othersLow,     \* somebody else does
  result,        \* r24 of the last call
  gap,           \* history: ticks since the last call
  floating       \* history: ticks since a call first found the line released

vars == <<TCNT1, OCR1B, TIFR, cec_watchdog_last_output, PBOUT, othersLow, result, gap, floating>>

Flags == SUBSET {"OCF1A", "OCF1B"}

Init ==
  /\ TCNT1 = 0 /\ OCR1B = LATENCY /\ TIFR = {}
  /\ cec_watchdog_last_output = 0
  /\ PBOUT = 0 /\ othersLow \in BOOLEAN
  /\ result = 0 /\ gap = 0 /\ floating = 0

LineLow == othersLow \/ PBOUT = 1

Matches(count) ==
  {flag \in {"OCF1A", "OCF1B"} : count = IF flag = "OCF1A" THEN RISE ELSE OCR1B}

Tick ==
  /\ gap < MaxGap
  /\ TCNT1' = (TCNT1 + 1) % TIMER
  /\ TIFR' = TIFR \cup Matches(TCNT1')
  /\ gap' = gap + 1
  /\ floating' = IF floating > RISE THEN floating ELSE floating + 1
  /\ UNCHANGED <<OCR1B, cec_watchdog_last_output, PBOUT, othersLow, result>>

(* The driver and the other devices, independently of each other.          *)
Line ==
  /\ \/ PBOUT' = 1 - PBOUT /\ UNCHANGED othersLow
     \/ othersLow' = ~othersLow /\ UNCHANGED PBOUT
  /\ UNCHANGED <<TCNT1, OCR1B, TIFR, cec_watchdog_last_output, result, gap, floating>>

-----------------------------------------------------------------------------
(***************************************************************************)
(* cec_watchdog_periodic().  r18 holds the last output until it is taken   *)
(* for the new expiration.  The flags that are cleared are those of a      *)
(* register, r13, that nobody has set: the build may have anything there.  *)
(***************************************************************************)
Expiration == (TCNT1 + LATENCY) % TIMER

r18 == Expiration

rising_edge ==
  /\ OCR1B' = LATENCY
  /\ TCNT1' = 0
  /\ \E r13 \in Flags : TIFR' = TIFR \ r13
  /\ result' = 0

no_edge ==
  /\ OCR1B' = Expiration
  /\ result' = IF "OCF1A" \notin TIFR /\ LineLow THEN 1 ELSE 0
  /\ UNCHANGED <<TCNT1, TIFR>>

AlreadyDriving ==
  /\ OCR1B' = Expiration
  /\ result' = 0
  /\ UNCHANGED <<TCNT1, TIFR>>

TooLate == "OCF1B" \in TIFR

cec_watchdog_periodic ==
  /\ \/ TooLate /\ rising_edge
     \/ ~TooLate /\ PBOUT = 1 /\ AlreadyDriving
     \/ ~TooLate /\ PBOUT = 0 /\ r18 # 0 /\ rising_edge
     \/ ~TooLate /\ PBOUT = 0 /\ r18 = 0 /\ no_edge
  /\ cec_watchdog_last_output' = IF TooLate THEN 1 ELSE PBOUT
  /\ gap' = 0
  /\ floating' = IF PBOUT = 1 \/ cec_watchdog_last_output = 1 \/ TooLate THEN 0 ELSE floating
  /\ UNCHANGED <<PBOUT, othersLow>>

Next == Tick \/ Line \/ cec_watchdog_periodic

Spec == Init /\ [][Next]_vars

-----------------------------------------------------------------------------
(* "During the time after a release of the CEC line, we ignore it's state. *)
(* If it's been longer than that and the line is low, it's because someone *)
(* else is driving the line low.  Return 1." (cec_watchdog.S)              *)
ReportsOthers ==
  [][gap' = 0 /\ gap > 0 /\ gap < LATENCY /\ PBOUT = 0 /\ cec_watchdog_last_output = 0
     /\ floating > RISE /\ othersLow
       => result' = 1]_vars
=============================================================================
