------------------------------- MODULE CecPwm -------------------------------
(***************************************************************************)
(* The library over its other pair of drivers: cec_receive_min.c, which    *)
(* times the edges of the line between two calls of cec_periodic(), and    *)
(* cec_transmit_pwm.c, which has timer 1 put the frames on the line while  *)
(* the code loads the duty cycle of the next one.                          *)
(*                                                                         *)
(* Time passes in ticks of timer 1.  The engines are those of CecReceive;  *)
(* their idle waits are times here, and nacking stands for a               *)
(* receive_frame_ack_done that was set for a nack.                         *)
(***************************************************************************)
EXTENDS Integers, Sequences, FiniteSets

CONSTANTS
  ADDR_BITS, CEC_BUFFER_SIZE, LEN_RANGE, CEC_XMIT_MAX_RETRANSMIT,
  CEC_PRESENT_PERIOD_WAIT, CEC_NEW_PERIOD_WAIT, CEC_PREV_PERIOD_WAIT,
  ADDR_MODULE, cec_dev_addrs, CEC_FIXED_LOGICAL_ADDRESS,
  CEC_START_TICKS, CEC_START_PERIOD,       \* timer 1: compare value and top
  CEC_0_TICKS, CEC_1_TICKS, CEC_DATA_PERIOD,
  CEC_T3_TIME, CEC_T4_TIME,  \* the sample window of a bit
  CEC_T5_EARLY0_TIME,        \* how long an ack is held
  CEC_T7_EARLY_END_TIME,     \* the earliest next frame
  CEC_START_LOW_EARLY_TIME,  \* the low part of a start frame
  CEC_START_LOW_LATE_TIME,
  CEC_START_HIGH_EARLY_TIME, \* its earliest end
  NO_EDGE,      \* a transition this late is not coming      (code: 800 us)
  NACK_TIME,    \* how long a nack is held                   (code: 10 periods)
  TIMER_RANGE,  \* values of a software timer                (code: 2^16)
  LOW_RANGE,    \* values of its low byte                    (code: 2^8)
  TCNT1_RANGE,  \* values of timer 1                         (code: 2^8)
  MaxLatency,   \* ticks between two calls of cec_periodic()
  OthersPulses, \* what others may do to the line at any time: ticks low, high
  AckPulses,    \* what they may do to the ack bit of our message
  Messages, HaltPolicy

VARIABLES
  transmit_state, transmit_stats, transmit_buf, transmit_buf_end, transmit_buf_bit,
  transmit_buf_pos, transmit_last_bit, transmit_retries, needed_idle_time,
  logical_address, cec_dev_idx, logical_addresses,
  cec_receive_buf, cec_receive_byte, cec_receive_pos, cec_receive_flags,
  cec_receive_hdr, recv_driven, nacking,
  receive_frame_timer, receive_frame_period, receive_frame_ack_done,
  last_state, sample,
  transmit_high_timer, xmit_state,
  TCNT1, OCR1B, OCR1B_next, OCR1C,  \* timer 1; OCR1B is double buffered
  TOV1,                             \* its overflow flag
  clock,                            \* TCCR1 # 0
  pwm,                              \* GTCCR & _BV(PWM1B)
  pwm_low,                          \* timer 1 pulls the line low
  others,                           \* the pulse of somebody else, what is left
  elapsed,                          \* ticks since the last call's delta
  delta, state,                     \* argument and local of this call
  phase,                            \* where in cec_periodic() we are
  mode,                             \* "running" or "halted"
  aired                             \* history: frames begun since xmit_start()


INSTANCE CecReceive
  WITH usi_xmit_state <- xmit_state, needed_idle_frames <- needed_idle_time,
       usi_nacking <- nacking, IDLE_FRAMES_MAX <- TIMER_RANGE - 1

Time == INSTANCE CecTime

(* The variables of the two engines and of the address assignment.          *)
txVars == <<transmit_state, transmit_stats, transmit_buf, transmit_buf_end, transmit_buf_bit,
            transmit_buf_pos, transmit_last_bit, transmit_retries, needed_idle_time,
            xmit_state>>
addressVars == <<logical_address, cec_dev_idx, logical_addresses>>
rxVars == <<cec_receive_buf, cec_receive_byte, cec_receive_pos, cec_receive_flags,
            cec_receive_hdr, recv_driven, nacking>>
minVars == <<receive_frame_timer, receive_frame_period, receive_frame_ack_done,
             last_state, sample>>
timerVars == <<TCNT1, OCR1B, OCR1B_next, OCR1C, TOV1, clock, pwm, pwm_low>>
callVars == <<delta, state, phase>>
busVars == <<others, elapsed>>
vars == <<txVars, addressVars, rxVars, minVars, transmit_high_timer, timerVars,
          callVars, busVars, mode, aired>>

(* XMIT_IDLE is also where cec_transmit_abort() of CecTransmit goes.       *)
XMIT_IDLE    == "idle"
XMIT_START   == "start"
XMIT_RUNNING == "running"
XMIT_END1    == "end1"
XMIT_END2    == "end2"

(* Every wait ends before a timer saturates, the ack before the next frame *)
(* can begin.                                                              *)
ASSUME TimingAssumption ==
  /\ CEC_T3_TIME < CEC_T4_TIME /\ CEC_T4_TIME < CEC_T7_EARLY_END_TIME
  /\ CEC_T5_EARLY0_TIME < CEC_T7_EARLY_END_TIME
  /\ {CEC_PRESENT_PERIOD_WAIT, CEC_NEW_PERIOD_WAIT, CEC_PREV_PERIOD_WAIT}
       \subseteq 1..(TIMER_RANGE - LOW_RANGE)
  /\ NACK_TIME < TIMER_RANGE - LOW_RANGE
  /\ CEC_START_HIGH_EARLY_TIME + NO_EDGE < TIMER_RANGE - LOW_RANGE
  /\ CEC_T7_EARLY_END_TIME < CEC_START_HIGH_EARLY_TIME
  /\ {CEC_DATA_PERIOD, CEC_START_PERIOD} \subseteq 1..(TCNT1_RANGE - 1)
  /\ CEC_1_TICKS < CEC_0_TICKS /\ CEC_0_TICKS < CEC_DATA_PERIOD
  /\ OthersPulses \cup AckPulses \subseteq [low : Nat, high : Nat]
  /\ HaltPolicy \in {"never", "quiet", "anytime"}

ASSUME PwmAssumption ==
  /\ ADDR_BITS \in Nat \ {0} /\ CEC_BUFFER_SIZE \in Nat \ {0}
  /\ LEN_RANGE \in Nat /\ CEC_BUFFER_SIZE < LEN_RANGE
  /\ CEC_XMIT_MAX_RETRANSMIT \in 1..(UCHAR - 1)
  /\ \A m \in Messages : Len(m.body) \in 0..(CEC_BUFFER_SIZE - 1)
  /\ {CEC_T3_TIME, CEC_T4_TIME, CEC_T7_EARLY_END_TIME, CEC_START_HIGH_EARLY_TIME, NO_EDGE}
       \subseteq Nat
  /\ TIMER_RANGE \in Nat /\ LOW_RANGE \in 1..TIMER_RANGE
  /\ TCNT1_RANGE \in Nat /\ MaxLatency \in Nat

Timer == 0..(TIMER_RANGE - 1)

AiredMax == FRAME * CEC_BUFFER_SIZE + 2

PwmTypeOK ==
  /\ transmit_state \in TransmitState
  /\ transmit_retries \in 0..(UCHAR - 1) /\ needed_idle_time \in Timer
  /\ ReceiveTypeOK
  /\ receive_frame_timer \in Timer /\ transmit_high_timer \in Timer
  /\ receive_frame_period \in {0, CEC_T7_EARLY_END_TIME, CEC_START_HIGH_EARLY_TIME}
  /\ receive_frame_ack_done \in {0, CEC_T5_EARLY0_TIME, NACK_TIME}
  /\ {last_state, sample, state, TOV1, clock, pwm, pwm_low} \subseteq BOOLEAN
  /\ others \in [low : Nat, high : Nat]
  /\ xmit_state \in {XMIT_IDLE, XMIT_START, XMIT_RUNNING, XMIT_END1, XMIT_END2}
  /\ TCNT1 \in 0..(TCNT1_RANGE - 1)
  /\ {OCR1B, OCR1B_next} \subseteq {0, CEC_START_TICKS, CEC_0_TICKS, CEC_1_TICKS}
  /\ OCR1C \in {0, CEC_START_PERIOD, CEC_DATA_PERIOD}
  /\ elapsed \in 0..MaxLatency /\ delta \in 0..MaxLatency
  /\ phase \in {"app", "float", "edge", "pwm", "start", "addr"}
  /\ mode \in {"running", "halted"}
  /\ aired \in 0..AiredMax

NoPulse == [low |-> 0, high |-> 0]

Init ==
  /\ TransmitInit /\ AddrInit /\ ReceiveInit
  /\ receive_frame_timer = 0 /\ receive_frame_period = 0 /\ receive_frame_ack_done = 0
  /\ last_state = FALSE /\ sample = FALSE
  /\ transmit_high_timer = 0
  /\ TCNT1 = 0 /\ OCR1B = 0 /\ OCR1B_next = 0 /\ OCR1C = 0 /\ TOV1 = FALSE
  /\ clock = FALSE /\ pwm = FALSE /\ pwm_low = FALSE
  /\ others = NoPulse
  /\ elapsed = 0 /\ delta = 0 /\ state = FALSE
  /\ phase = "app" /\ mode = "running" /\ aired = 0

LineHigh == others.low = 0 /\ ~recv_driven /\ ~pwm_low

(* Mutant: the timer does not saturate.                                    *)
AddUncapped(timer, d) == timer + d

(* The 16-bit sum; on a carry only its high byte is set to 0xff.           *)
AddCapped(timer, d) ==
  IF timer + d < TIMER_RANGE THEN timer + d
  ELSE TIMER_RANGE - LOW_RANGE + ((timer + d) % LOW_RANGE)

-----------------------------------------------------------------------------
(***************************************************************************)
(* Hardware: timer 1.  In PWM mode it counts to OCR1C, and OC1B is set at  *)
(* 0 and cleared after the match with OCR1B.                               *)
(***************************************************************************)
Top == IF pwm THEN OCR1C ELSE TCNT1_RANGE - 1

Overflow ==
  /\ clock /\ TCNT1 = Top
  /\ TCNT1' = 0
  /\ TOV1' = TRUE
  /\ OCR1B' = OCR1B_next
  /\ pwm_low' = (pwm /\ OCR1B_next # 0)
  /\ aired' = IF aired < AiredMax THEN aired + 1 ELSE aired

Count ==
  /\ clock /\ TCNT1 # Top
  /\ TCNT1' = (TCNT1 + 1) % TCNT1_RANGE
  /\ pwm_low' = (pwm_low /\ TCNT1 # OCR1B)
  /\ UNCHANGED <<TOV1, OCR1B, aired>>

TimerStopped == ~clock /\ UNCHANGED <<TCNT1, TOV1, OCR1B, pwm_low, aired>>

TimerTick ==
  /\ Overflow \/ Count \/ TimerStopped
  /\ UNCHANGED <<OCR1B_next, OCR1C, clock, pwm>>

(* The other devices.  The ack bit of our message is theirs to hold.       *)
AckBitBegins ==
  aired' > 1 /\ FrameOffset(aired' - 1) = FRAME /\ pwm_low' /\ TCNT1' = 0

OthersTick ==
  IF others.low > 0 THEN others' = [others EXCEPT !.low = @ - 1]
  ELSE IF others.high > 0 THEN others' = [others EXCEPT !.high = @ - 1]
  ELSE others' \in {NoPulse} \cup OthersPulses \cup (IF AckBitBegins THEN AckPulses ELSE {})

(* Time passes between two calls, or between the two halves of one.        *)
Tick ==
  /\ phase \in {"app", "pwm"}
  /\ mode = "running" => elapsed < MaxLatency
  /\ elapsed' = IF mode = "running" THEN elapsed + 1 ELSE elapsed
  /\ TimerTick
  /\ OthersTick
  /\ UNCHANGED <<txVars, addressVars, rxVars, minVars, transmit_high_timer,
                 callVars, mode>>

-----------------------------------------------------------------------------
(***************************************************************************)
(* cec_receive_periodic().                                                 *)
(***************************************************************************)
Aborted == Transmitting /\ transmit_state' \in {TRANSMIT_FAILED, TRANSMIT_AGAIN}

(* Mutant: the abort leaves the clock running.                             *)
AbortKeepsClock ==
  /\ pwm' = (pwm /\ ~Aborted)
  /\ pwm_low' = (pwm_low /\ ~Aborted)
  /\ UNCHANGED <<TCNT1, OCR1B, OCR1B_next, OCR1C, clock>>

(* cec_transmit_abort() stops the clock and lets the line go.              *)
AbortTimer ==
  /\ clock' = (clock /\ ~Aborted)
  /\ pwm' = (pwm /\ ~Aborted)
  /\ pwm_low' = (pwm_low /\ ~Aborted)
  /\ UNCHANGED <<TCNT1, OCR1B, OCR1B_next, OCR1C>>

Nacks == "BCAST" \in cec_receive_flags

ReceiveError(err, timer) ==
  /\ cec_receive_error(err)
  /\ receive_frame_timer' = IF Nacks THEN 0 ELSE timer
  /\ receive_frame_ack_done' = IF Nacks THEN NACK_TIME ELSE receive_frame_ack_done

NewTimer == AddCapped(receive_frame_timer, elapsed)

(* Mutant: the bit is sampled at the first call after its falling edge.    *)
SampleAtOnce == sample

SampleDue == sample /\ NewTimer > CEC_T3_TIME

TakeSample ==
  /\ SampleDue /\ NewTimer <= CEC_T4_TIME
  /\ cec_receive_bit(LineHigh)
  /\ receive_frame_timer' = NewTimer
  /\ UNCHANGED receive_frame_ack_done

MissSample ==
  /\ SampleDue /\ NewTimer > CEC_T4_TIME
  /\ ReceiveError(CEC_ERR_HW, NewTimer)

NoSample ==
  /\ ~SampleDue
  /\ receive_frame_timer' = NewTimer
  /\ UNCHANGED <<txVars, rxVars, receive_frame_ack_done>>

(* Mutant: a sample that was taken stays due.                              *)
SampleStaysDue == sample' = sample

SampleDone == sample' = (sample /\ ~SampleDue)

(* The timer, the line, and the sample of a bit.                           *)
ReceiveSample ==
  /\ phase = "app" /\ mode = "running"
  /\ TakeSample \/ MissSample \/ NoSample
  /\ AbortTimer
  /\ SampleDone
  /\ state' = LineHigh
  /\ delta' = elapsed /\ elapsed' = 0
  /\ phase' = "float"
  /\ UNCHANGED <<addressVars, receive_frame_period, last_state, transmit_high_timer, TOV1,
                 others, mode, aired>>

(* Mutant: the line is let go only while a message is received.            *)
FloatInMessage ==
  /\ phase = "float"
  /\ LET done == cec_receive_flags # {} /\ receive_frame_timer > receive_frame_ack_done
     IN  recv_driven' = (recv_driven /\ ~done) /\ nacking' = (nacking /\ ~done)
  /\ phase' = "edge"
  /\ UNCHANGED <<cec_receive_buf, cec_receive_byte, cec_receive_pos, cec_receive_flags,
                 cec_receive_hdr>>
  /\ UNCHANGED <<txVars, addressVars, minVars, transmit_high_timer, timerVars, delta,
                 state, busVars, mode, aired>>

(* Done acking or nacking.                                                 *)
ReceiveFloat ==
  /\ phase = "float"
  /\ LET done == receive_frame_timer > receive_frame_ack_done
     IN  recv_driven' = (recv_driven /\ ~done) /\ nacking' = (nacking /\ ~done)
  /\ phase' = "edge"
  /\ UNCHANGED <<cec_receive_buf, cec_receive_byte, cec_receive_pos, cec_receive_flags,
                 cec_receive_hdr>>
  /\ UNCHANGED <<txVars, addressVars, minVars, transmit_high_timer, timerVars, delta,
                 state, busVars, mode, aired>>

NoEdge ==
  /\ state = last_state
  /\ IF receive_frame_timer > receive_frame_period + NO_EDGE
     THEN ReceiveError(CEC_ERR_NO_EOM, receive_frame_timer)
     ELSE UNCHANGED <<txVars, rxVars, receive_frame_timer, receive_frame_ack_done>>
  /\ UNCHANGED <<receive_frame_period, sample>>

StartLow ==
  /\ CEC_START_LOW_EARLY_TIME < receive_frame_timer
  /\ receive_frame_timer < CEC_START_LOW_LATE_TIME

RisingEdge ==
  /\ state /\ ~last_state
  /\ IF StartLow
     THEN cec_receive_start /\ receive_frame_period' = CEC_START_HIGH_EARLY_TIME
     ELSE UNCHANGED <<txVars, rxVars, receive_frame_period>>
  /\ UNCHANGED <<receive_frame_timer, receive_frame_ack_done, sample>>

EarlyEdge ==
  /\ cec_receive_flags # {} /\ receive_frame_timer < receive_frame_period
  /\ ReceiveError(CEC_ERR_LOW_DRIVE, 0)
  /\ UNCHANGED sample

(* A new bit begins; an ack bit of ours is held from here.                 *)
AckHere == "DO_ACK" \in cec_receive_flags /\ ~ReceivingBits

BitBegins ==
  /\ cec_receive_flags # {} /\ receive_frame_timer >= receive_frame_period
  /\ recv_driven' = (recv_driven \/ AckHere)
  /\ receive_frame_ack_done' = IF AckHere THEN CEC_T5_EARLY0_TIME ELSE receive_frame_ack_done
  /\ sample' = TRUE
  /\ receive_frame_timer' = 0
  /\ UNCHANGED <<txVars, cec_receive_buf, cec_receive_byte, cec_receive_pos,
                 cec_receive_flags, cec_receive_hdr, nacking>>

(* Mutant: the bits of a message have to be as long as its start frame.    *)
FallingEdgeKeepsPeriod ==
  /\ ~state /\ last_state
  /\ \/ EarlyEdge
     \/ BitBegins
     \/ /\ cec_receive_flags = {}
        /\ receive_frame_timer' = 0
        /\ UNCHANGED <<txVars, rxVars, receive_frame_ack_done, sample>>
  /\ UNCHANGED receive_frame_period

FallingEdge ==
  /\ ~state /\ last_state
  /\ \/ EarlyEdge
     \/ BitBegins
     \/ /\ cec_receive_flags = {}
        /\ receive_frame_timer' = 0
        /\ UNCHANGED <<txVars, rxVars, receive_frame_ack_done, sample>>
  /\ receive_frame_period' = CEC_T7_EARLY_END_TIME

ReceiveEdge ==
  /\ phase = "edge"
  /\ NoEdge \/ RisingEdge \/ FallingEdge
  /\ AbortTimer
  /\ last_state' = state
  /\ phase' = "pwm"
  /\ UNCHANGED <<addressVars, transmit_high_timer, TOV1, delta, state, busVars, mode, aired>>

-----------------------------------------------------------------------------
(***************************************************************************)
(* cec_transmit_periodic().                                                *)
(***************************************************************************)
Ticks(bit) == IF bit THEN CEC_1_TICKS ELSE CEC_0_TICKS

(* The receive side is not tracking us.                                    *)
LoseTrack ==
  /\ xmit_state = XMIT_RUNNING /\ cec_receive_flags = {}
  /\ cec_transmit_on_error(CEC_ERR_ARB_LOST)
  /\ AbortTimer

(* Load the duty cycle of the next frame.                                  *)
LoadFrame(bit) ==
  /\ xmit_state = XMIT_START \/ (xmit_state = XMIT_RUNNING /\ cec_receive_flags # {})
  /\ cec_transmit_get_bit(bit)
  /\ OCR1B_next' = Ticks(bit)
  /\ OCR1C' = IF xmit_state = XMIT_RUNNING THEN CEC_DATA_PERIOD ELSE OCR1C
  /\ xmit_state' = IF transmit_state' = TRANSMIT_WAIT_FOR_ACK THEN XMIT_END1 ELSE XMIT_RUNNING
  /\ UNCHANGED <<TCNT1, OCR1B, clock, pwm, pwm_low>>

transmitUnchanged ==
  UNCHANGED <<transmit_state, transmit_stats, transmit_buf, transmit_buf_end,
              transmit_buf_bit, transmit_buf_pos, transmit_last_bit, transmit_retries,
              needed_idle_time>>

(* Mutant: one more frame follows the last one.                            *)
EndKeepsFrame ==
  /\ xmit_state = XMIT_END1
  /\ xmit_state' = XMIT_END2
  /\ transmitUnchanged
  /\ UNCHANGED <<TCNT1, OCR1B, OCR1B_next, OCR1C, clock, pwm, pwm_low>>

(* Leave the line high after this frame.                                   *)
EndLow ==
  /\ xmit_state = XMIT_END1
  /\ OCR1B_next' = 0
  /\ xmit_state' = XMIT_END2
  /\ transmitUnchanged
  /\ UNCHANGED <<TCNT1, OCR1B, OCR1C, clock, pwm, pwm_low>>

(* Mutant: the clock stops, the driver does not become idle.               *)
EndKeepsState ==
  /\ xmit_state = XMIT_END2
  /\ clock' = FALSE
  /\ transmitUnchanged
  /\ UNCHANGED <<TCNT1, OCR1B, OCR1B_next, OCR1C, pwm, pwm_low, xmit_state>>

EndClock ==
  /\ xmit_state = XMIT_END2
  /\ clock' = FALSE
  /\ xmit_state' = XMIT_IDLE
  /\ transmitUnchanged
  /\ UNCHANGED <<TCNT1, OCR1B, OCR1B_next, OCR1C, pwm, pwm_low>>

FrameDone == xmit_state # XMIT_IDLE /\ TOV1

xmit_pwm_periodic ==
  /\ phase = "pwm"
  /\ \/ /\ FrameDone
        /\ TOV1' = FALSE
        /\ LoseTrack \/ EndLow \/ EndClock \/ \E bit \in BOOLEAN : LoadFrame(bit)
     \/ /\ ~FrameDone
        /\ UNCHANGED <<txVars, timerVars>>
  /\ phase' = "start"
  /\ UNCHANGED <<addressVars, rxVars, minVars, transmit_high_timer, delta, state, busVars,
                 mode, aired>>

xmit_start ==
  /\ TCNT1' = CEC_START_PERIOD - 1
  /\ OCR1C' = CEC_START_PERIOD
  /\ pwm' = TRUE
  /\ OCR1B_next' = CEC_START_TICKS
  /\ xmit_state' = XMIT_START
  /\ cec_transmit_start
  /\ clock' = TRUE
  /\ aired' = 0
  /\ UNCHANGED <<OCR1B, TOV1, pwm_low>>

NewHighTimer == IF LineHigh THEN AddCapped(transmit_high_timer, delta) ELSE 0

MayStart ==
  LineHigh /\ NewHighTimer >= needed_idle_time /\ xmit_state = XMIT_IDLE /\ Pending

cec_transmit_periodic ==
  /\ phase = "start"
  /\ transmit_high_timer' = NewHighTimer
  /\ IF MayStart THEN xmit_start ELSE UNCHANGED <<txVars, timerVars, aired>>
  /\ delta' = 0
  /\ phase' = "addr"
  /\ UNCHANGED <<addressVars, rxVars, minVars, state, busVars, mode>>

AddrPeriodic ==
  /\ phase = "addr"
  /\ cec_addr_periodic
  /\ phase' = "app"
  /\ UNCHANGED <<cec_receive_buf, cec_receive_byte, cec_receive_pos, cec_receive_flags,
                 recv_driven, nacking>>
  /\ UNCHANGED <<minVars, transmit_high_timer, timerVars, delta, state, busVars, mode, aired>>

cec_periodic ==
  \/ ReceiveSample \/ ReceiveFloat \/ ReceiveEdge
  \/ xmit_pwm_periodic \/ cec_transmit_periodic
  \/ AddrPeriodic

-----------------------------------------------------------------------------
(***************************************************************************)
(* The application, as in CecEngine.                                       *)
(***************************************************************************)
AppTurn == phase = "app" /\ mode = "running"

driverUnchanged ==
  UNCHANGED <<minVars, transmit_high_timer, callVars, busVars, aired>>

AppSend(m) ==
  /\ AppTurn
  /\ transmit_state < TRANSMIT_PEND
  /\ transmit_buf' =
       [i \in DOMAIN transmit_buf |->
          IF i = 0 THEN cec_addr_build(m.source, m.target)
          ELSE IF i <= Len(m.body) THEN m.body[i] ELSE transmit_buf[i]]
  /\ transmit_buf_end' = Len(m.body)
  /\ transmit_state' = TRANSMIT_PEND
  /\ UNCHANGED <<transmit_stats, transmit_buf_bit, transmit_buf_pos, transmit_last_bit,
                 transmit_retries, needed_idle_time, xmit_state>>
  /\ UNCHANGED <<addressVars, rxVars, timerVars, mode>>
  /\ driverUnchanged

AppClearHeader ==
  /\ AppTurn
  /\ MessagePending
  /\ cec_receive_hdr' = EmptyHeader
  /\ UNCHANGED <<txVars, addressVars, cec_receive_buf, cec_receive_byte, cec_receive_pos,
                 cec_receive_flags, recv_driven, nacking, timerVars, mode>>
  /\ driverUnchanged

HaltAllowed ==
  CASE HaltPolicy = "never"   -> FALSE
    [] HaltPolicy = "quiet"   -> /\ xmit_state = XMIT_IDLE
                                 /\ cec_receive_flags = {} /\ ~sample /\ ~recv_driven
    [] HaltPolicy = "anytime" -> TRUE

(* Both cec_receive_halt_hw() and cec_transmit_halt_hw() are empty: what   *)
(* reaches the driver is the nack and the abort of cec_receive_error().    *)
cec_halt ==
  /\ AppTurn /\ HaltAllowed
  /\ HaltAbort
  /\ transmit_state' = TRANSMIT_IDLE
  /\ clock' = (clock /\ ~HaltAborts)
  /\ pwm' = (pwm /\ ~HaltAborts)
  /\ pwm_low' = (pwm_low /\ ~HaltAborts)
  /\ recv_driven' = (recv_driven \/ Nacks)
  /\ nacking' = (nacking \/ Nacks)
  /\ receive_frame_timer' = IF Nacks THEN 0 ELSE receive_frame_timer
  /\ receive_frame_ack_done' = IF Nacks THEN NACK_TIME ELSE receive_frame_ack_done
  /\ cec_receive_flags' = {}
  /\ cec_receive_hdr' = EmptyHeader
  /\ cec_addr_init
  /\ mode' = "halted"
  /\ UNCHANGED <<cec_receive_buf, cec_receive_byte, cec_receive_pos, receive_frame_period,
                 last_state, sample, transmit_high_timer, TCNT1, OCR1B, OCR1B_next, OCR1C,
                 TOV1, callVars, busVars, aired>>

cec_init ==
  /\ mode = "halted"
  /\ recv_driven' = FALSE /\ nacking' = FALSE
  /\ needed_idle_time' = CEC_NEW_PERIOD_WAIT
  /\ pwm' = FALSE /\ pwm_low' = FALSE
  /\ transmit_state' = AddrInitTransmitState
  /\ cec_addr_init
  /\ elapsed' = 0
  /\ mode' = "running"
  /\ UNCHANGED <<transmit_stats, transmit_buf, transmit_buf_end, transmit_buf_bit,
                 transmit_buf_pos, transmit_last_bit, transmit_retries, xmit_state>>
  /\ UNCHANGED <<cec_receive_buf, cec_receive_byte, cec_receive_pos, cec_receive_flags,
                 cec_receive_hdr, minVars, transmit_high_timer, TCNT1, OCR1B, OCR1B_next,
                 OCR1C, TOV1, clock, callVars, others, aired>>

Application ==
  \/ \E m \in Messages : AppSend(m)
  \/ AppClearHeader
  \/ cec_halt
  \/ cec_init

Next == Tick \/ cec_periodic \/ Application

(* The application's main loop calls cec_periodic() again and again, and   *)
(* time passes, if not during any particular one of its steps.             *)
Fairness == WF_vars(cec_periodic) /\ SF_vars(Tick)

Spec == Init /\ [][Next]_vars /\ Fairness

-----------------------------------------------------------------------------
(* Driver, engine and timer 1 are inside a message together: the driver    *)
(* loads frames exactly while the engine has bits to hand out, the clock   *)
(* runs exactly while the driver is in a message, and never while the      *)
(* engine waits to retransmit.                                             *)
PwmInStep ==
  /\ xmit_state \in {XMIT_START, XMIT_RUNNING} <=> transmit_state \in {TRANSMIT_BIT_EOM, TRANSMIT_ACK}
  /\ clock <=> xmit_state # XMIT_IDLE
  /\ transmit_state \in {TRANSMIT_FAILED, TRANSMIT_AGAIN} => xmit_state = XMIT_IDLE

(* Over these drivers, too, the transmit interface implements its abstract *)
(* specification, however late the calls are.                              *)
ServiceStatus == IF mode = "halted" THEN "off" ELSE StatusOf(transmit_state)
ServiceTries == TriesOf(transmit_state, transmit_retries)

Service == INSTANCE TransmitService
             WITH MaxTries <- CEC_XMIT_MAX_RETRANSMIT,
                  status <- ServiceStatus, tries <- ServiceTries

ImplementsService == Service!Spec

(* On a bus where the others only ack, and with cec_periodic() called in   *)
(* time, a transmission of ours fails for a missing ack or not at all: the *)
(* samples are compared with the right bits, and no frame of ours is       *)
(* mistaken for somebody else's.                                           *)
OnlyNacksFail == \A err \in CecErr \ {CEC_ERR_NACK} : transmit_stats[err] = 0

(* The k-th frame on the line, counted from the start frame, is that of    *)
(* the message, and the line stays high after the last one.  Once the      *)
(* message is acked, in its last frame or before, only the ack bit can     *)
(* still follow.                                                           *)
FrameTicks(k) ==
  CASE k = 0                             -> CEC_START_TICKS
    [] k > FRAME * (transmit_buf_end + 1) -> 0
    [] OTHER                             -> Ticks(FrameBit(k))

AirsTheMessage ==
  [][aired' = aired + 1 =>
       OCR1B' = IF Transmitting THEN FrameTicks(aired)
                ELSE IF xmit_state = XMIT_END1 THEN CEC_1_TICKS ELSE 0]_vars

(* No message leaves the overflow flag set, so that the first frame of the *)
(* next one is not taken for done before it has begun.  An abort in the    *)
(* moment a frame begins would violate it; a nack, sampled later in its    *)
(* frame, does not.                                                        *)
NoFlagLeft == ~clock => ~TOV1

(* When a frame ends, its low part and its period were those of the same   *)
(* kind of frame, although the code loads the low part a frame ahead and   *)
(* the period in the middle of the frame; and at every clock rate both are *)
(* within the limits of the standard.                                      *)
FramesInSpec ==
  [][aired > 0 /\ aired' = aired + 1 /\ OCR1B # 0 =>
       \/ OCR1B = CEC_START_TICKS /\ OCR1C = CEC_START_PERIOD /\ Time!PwmStartInSpec
       \/ OCR1B = CEC_0_TICKS /\ OCR1C = CEC_DATA_PERIOD /\ Time!Pwm0InSpec
       \/ OCR1B = CEC_1_TICKS /\ OCR1C = CEC_DATA_PERIOD /\ Time!Pwm1InSpec]_vars

(* "Load up the start bit for after the OCR1C match occurs"                *)
(* (cec_transmit_pwm.c).  An overflow flag left over from an aborted       *)
(* message violates it.                                                    *)
StartBitFirst == [][aired = 0 /\ aired' = 1 => OCR1B' = CEC_START_TICKS]_vars

(* A queued message is disposed of, one way or the other.                  *)
SendEnds == transmit_state = TRANSMIT_PEND ~> transmit_state < TRANSMIT_PEND

(* Whatever the others do, an ack or nack lets go of the line again.       *)
LineReleased == recv_driven ~> ~recv_driven

-----------------------------------------------------------------------------
(***************************************************************************)
(* Receiving.                                                              *)
(***************************************************************************)
(* A bit is sampled for a message that is being received.  A falling edge  *)
(* that comes before the sample ends the reception and leaves it pending:  *)
(* then the engine is handed an ack bit of no message at all.              *)
SamplesInMessage == sample => cec_receive_flags # {}

(* So it is if every bit is sampled before the next falling edge.          *)
EdgesSpaced == [][phase = "edge" /\ ~state /\ last_state => ~sample]_vars

(* "Until the user app clears the header byte, no additional messages can  *)
(* be received" (README.md:28): meanwhile neither the bytes nor the header *)
(* change.                                                                 *)
BufferOwnedByApp ==
  [][MessagePending =>
       /\ cec_receive_buf' = cec_receive_buf
       /\ cec_receive_hdr' \in {cec_receive_hdr, EmptyHeader}]_vars

(* A byte beyond the end of the buffer is marked as dropped, however long  *)
(* the message, whether or not cec_receive_pos wraps.                      *)
StoresInBounds ==
  cec_receive_flags # {} /\ cec_receive_pos > CEC_BUFFER_SIZE =>
    cec_receive_flags \cap {"IGNORE", "OVERRUN"} # {}
=============================================================================
