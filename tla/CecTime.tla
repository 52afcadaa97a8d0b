------------------------------ MODULE CecTime ------------------------------
(***************************************************************************)
(* Times as the timers count them: the macros of time.h, div.h and         *)
(* bitops.h, and what the drivers of timers 0 and 1 make of them.          *)
(*                                                                         *)
(* A clock rate f is in units of 10 kHz, a time n in microseconds, so that *)
(* n * F_CPU is n * f * 10000; products are as wide as they need to be.    *)
(***************************************************************************)
EXTENDS Integers

(* As the README would have it set.                                        *)
TCNT0_ROLLOVER_PERIOD_US == 300

(* The line in microseconds: the nominal times of the standard and what it *)
(* allows.                                                                 *)
CEC_T1_EARLY1        == 400
CEC_1                == 600
CEC_T2_LATE1         == 800
CEC_T3               == 850
CEC_NOM_SAMPLE       == 1050
CEC_T4               == 1250
CEC_T5_EARLY0        == 1300
CEC_0                == 1500
CEC_T6_LATE0         == 1700
CEC_T7_EARLY_END     == 2050
CEC_PERIOD           == 2400
CEC_T8_LATE_END      == 2750
CEC_START_LOW_EARLY  == 3500
CEC_START_LOW        == 3700
CEC_START_LOW_LATE   == 3900
CEC_START_HIGH_EARLY == 4300
CEC_START_HIGH       == 4500
CEC_START_HIGH_LATE  == 4700
CEC_MAX_RISE_TIME    == 250

SAMPLE_US == CEC_PERIOD \div 8
MIN_TICKS(n) == (n - 5) \div SAMPLE_US
MAX_TICKS(n) == 1 + (n + 5) \div SAMPLE_US

DIV_ROUND(n, d) == (n + d \div 2) \div d
DIV_ROUND_UP(n, d) == 1 + (n - 1) \div d

(* Mutant: a power of two is taken for the end of the range below it.      *)
LOG2AtMost(n) == IF n < 2 THEN 0 ELSE CHOOSE k \in 0..30 : 2^k < n /\ n <= 2^(k + 1)

LOG2(n) == IF n < 1 THEN 0 ELSE CHOOSE k \in 0..30 : 2^k <= n /\ n < 2^(k + 1)

-----------------------------------------------------------------------------
(***************************************************************************)
(* Timer 0 and the USI driver: the smallest prescaler with which 256       *)
(* counts last long enough, and the count of a sample.  A timer that is    *)
(* cleared on compare match takes OCR0A + 1 counts, of an 8-bit register.  *)
(***************************************************************************)
TCNT0_PRESCALER_IDEAL(f) == DIV_ROUND_UP(f * TCNT0_ROLLOVER_PERIOD_US, 25600)

(* Mutant: 256 counts may be shorter than a sample.                        *)
TCNT0PrescalerDown(f) ==
  CHOOSE p \in {1, 8, 64, 256, 1024} :
    /\ p <= TCNT0_PRESCALER_IDEAL(f)
    /\ \A q \in {1, 8, 64, 256, 1024} : q <= TCNT0_PRESCALER_IDEAL(f) => q <= p

TCNT0_PRESCALER(f) ==
  CHOOSE p \in {1, 8, 64, 256, 1024} :
    /\ TCNT0_PRESCALER_IDEAL(f) <= p
    /\ \A q \in {1, 8, 64, 256, 1024} : TCNT0_PRESCALER_IDEAL(f) <= q => p <= q

US_TO_JIFFIES_RND(f, n) == DIV_ROUND(n * f, TCNT0_PRESCALER(f) * 100)

TCNT0_TOP(f) == US_TO_JIFFIES_RND(f, SAMPLE_US)

(* A tick of the USI driver, in 1/f of 100 us.                             *)
UsiTick(f) == ((TCNT0_TOP(f) % 256) + 1) * TCNT0_PRESCALER(f)

-----------------------------------------------------------------------------
(***************************************************************************)
(* Timer 1 and the PWM driver.  OCR1C + 1 and OCR1B + 1 counts are the     *)
(* period and the low part of a frame.                                     *)
(***************************************************************************)
TCNT1_PRESCALER_IDEAL(f) == DIV_ROUND_UP(f * CEC_START_HIGH, 25600)
TCNT1_PRESCALER_VAL(f) == LOG2(TCNT1_PRESCALER_IDEAL(f) - 1) + 2
TCNT1_PRESCALER(f) == 2^(TCNT1_PRESCALER_VAL(f) - 1)

US_TO_CEC_JIFFIES(f, n) == DIV_ROUND(n * f, TCNT1_PRESCALER(f) * 100)

(* The time that n microseconds become, in 1/f of 100 us.                  *)
PwmTime(f, n) == (((US_TO_CEC_JIFFIES(f, n) - 1) % 256) + 1) * TCNT1_PRESCALER(f)

-----------------------------------------------------------------------------
(* A time t in 1/f of 100 us lies between two times in microseconds.       *)
Within(f, t, first, last) == first * f <= t * 100 /\ t * 100 <= last * f

(* The frames of timer 1, from 1 to 20 MHz: its prescaler is one it has,   *)
(* and both times of a frame are within the limits of the standard.        *)
PwmClocks == 100..2000

PwmStartInSpec ==
  \A f \in PwmClocks :
    /\ TCNT1_PRESCALER_VAL(f) \in 1..15
    /\ Within(f, PwmTime(f, CEC_START_LOW), CEC_START_LOW_EARLY, CEC_START_LOW_LATE)
    /\ Within(f, PwmTime(f, CEC_START_HIGH), CEC_START_HIGH_EARLY, CEC_START_HIGH_LATE)

PwmBitInSpec(low, early, late) ==
  \A f \in PwmClocks :
    /\ Within(f, PwmTime(f, low), early, late)
    /\ Within(f, PwmTime(f, CEC_PERIOD), CEC_T7_EARLY_END, CEC_T8_LATE_END)

Pwm0InSpec == PwmBitInSpec(CEC_0, CEC_T5_EARLY0, CEC_T6_LATE0)
Pwm1InSpec == PwmBitInSpec(CEC_1, CEC_T1_EARLY1, CEC_T2_LATE1)
=============================================================================
