---------------------------- MODULE CecPwmProofs ----------------------------
(***************************************************************************)
(* Proofs about the PWM build, CecPwm, for every value of the constants:   *)
(* whatever is on the line and however late the calls are.                 *)
(***************************************************************************)
EXTENDS CecPwm, SequenceTheorems, TLAPS

-----------------------------------------------------------------------------
(***************************************************************************)
(* Types of the constants, and the parts of PwmTypeOK.                     *)
(***************************************************************************)
LEMMA Sizes ==
  /\ UCHAR \in Nat /\ UCHAR > CEC_BUFFER_SIZE
  /\ BITS \in Nat /\ BITS >= 2 /\ FRAME \in Nat
  /\ CEC_XMIT_MAX_RETRANSMIT \in 1..(UCHAR - 1)
  BY PwmAssumption DEF UCHAR, BITS, FRAME

LEMMA UcharMod ==
  ASSUME NEW n \in Nat
  PROVE  n % UCHAR \in 0..(UCHAR - 1)
  BY Sizes

LEMMA Timers ==
  /\ 0 \in Timer /\ TIMER_RANGE \in Nat
  /\ {CEC_PRESENT_PERIOD_WAIT, CEC_NEW_PERIOD_WAIT, CEC_PREV_PERIOD_WAIT} \subseteq Timer
<1>1. /\ TIMER_RANGE \in Nat /\ LOW_RANGE \in 1..TIMER_RANGE
      /\ TIMER_RANGE > 0 /\ TIMER_RANGE - LOW_RANGE \in 0..(TIMER_RANGE - 1)
  BY PwmAssumption
<1>2. \A n \in 1..(TIMER_RANGE - LOW_RANGE) : n \in 0..(TIMER_RANGE - 1)
  BY <1>1
<1>3. {CEC_PRESENT_PERIOD_WAIT, CEC_NEW_PERIOD_WAIT, CEC_PREV_PERIOD_WAIT}
        \subseteq 1..(TIMER_RANGE - LOW_RANGE)
  BY TimingAssumption
<1>4. 0 \in 0..(TIMER_RANGE - 1)
  BY <1>1
<1> DEFINE waits == {CEC_PRESENT_PERIOD_WAIT, CEC_NEW_PERIOD_WAIT, CEC_PREV_PERIOD_WAIT}
<1>5. waits \subseteq 0..(TIMER_RANGE - 1)
  <2> SUFFICES ASSUME NEW n \in waits PROVE n \in 0..(TIMER_RANGE - 1)
    OBVIOUS
  <2> QED BY <1>2, <1>3
<1> QED BY <1>1, <1>4, <1>5 DEF Timer

(* The 16-bit sum of the code saturates within its range.                  *)
LEMMA AddCappedTyped ==
  ASSUME NEW timer \in Timer, NEW d \in 0..MaxLatency
  PROVE  AddCapped(timer, d) \in Timer
<1>1. timer + d \in Nat /\ LOW_RANGE \in Nat \ {0}
  BY PwmAssumption DEF Timer
<1>2. (timer + d) % LOW_RANGE \in 0..(LOW_RANGE - 1)
  BY <1>1
<1>3. \A m \in 0..(LOW_RANGE - 1) : TIMER_RANGE - LOW_RANGE + m \in Timer
  BY PwmAssumption DEF Timer
<1>4. timer + d < TIMER_RANGE => timer + d \in Timer
  BY <1>1, PwmAssumption DEF Timer
<1> QED BY <1>2, <1>3, <1>4 DEF AddCapped

DriverState == {XMIT_IDLE, XMIT_START, XMIT_RUNNING, XMIT_END1, XMIT_END2}

EngineOK ==
  /\ transmit_state \in TransmitState
  /\ transmit_retries \in 0..(UCHAR - 1)
  /\ needed_idle_time \in Timer
  /\ xmit_state \in DriverState

MinOK ==
  /\ receive_frame_timer \in Timer
  /\ receive_frame_period \in {0, CEC_T7_EARLY_END_TIME, CEC_START_HIGH_EARLY_TIME}
  /\ receive_frame_ack_done \in {0, CEC_T5_EARLY0_TIME, NACK_TIME}
  /\ last_state \in BOOLEAN /\ sample \in BOOLEAN

TimerOK ==
  /\ TOV1 \in BOOLEAN /\ clock \in BOOLEAN /\ pwm \in BOOLEAN /\ pwm_low \in BOOLEAN
  /\ TCNT1 \in 0..(TCNT1_RANGE - 1)
  /\ OCR1B \in {0, CEC_START_TICKS, CEC_0_TICKS, CEC_1_TICKS}
  /\ OCR1B_next \in {0, CEC_START_TICKS, CEC_0_TICKS, CEC_1_TICKS}
  /\ OCR1C \in {0, CEC_START_PERIOD, CEC_DATA_PERIOD}

CallOK ==
  /\ transmit_high_timer \in Timer
  /\ state \in BOOLEAN
  /\ others \in [low : Nat, high : Nat]
  /\ elapsed \in 0..MaxLatency /\ delta \in 0..MaxLatency
  /\ phase \in {"app", "float", "edge", "pwm", "start", "addr"}
  /\ mode \in {"running", "halted"}

AiredOK == aired \in 0..AiredMax

PwmParts == EngineOK /\ ReceiveTypeOK /\ MinOK /\ TimerOK /\ CallOK /\ AiredOK

LEMMA Parts == PwmTypeOK <=> PwmParts
  BY DEF PwmTypeOK, PwmParts, EngineOK, MinOK, TimerOK, CallOK, AiredOK, DriverState

LEMMA AiredMaxTyped == AiredMax \in Nat
<1>1. FRAME * CEC_BUFFER_SIZE \in Nat
  BY Sizes, PwmAssumption
<1> QED BY <1>1 DEF AiredMax

-----------------------------------------------------------------------------
(***************************************************************************)
(* The engines.                                                            *)
(***************************************************************************)
LEMMA OnErrorTyped ==
  ASSUME EngineOK, NEW err, cec_transmit_on_error(err)
  PROVE  EngineOK'
<1>1. CASE UNCHANGED <<transmit_state, transmit_retries, needed_idle_time, xmit_state>>
  BY <1>1 DEF EngineOK
<1>2. CASE AbortEffects(err) /\ transmit_state' = AbortedState
  <2>1. transmit_retries' \in 0..(UCHAR - 1)
    <3>1. transmit_retries + 1 \in Nat
      BY DEF EngineOK
    <3> QED BY <1>2, <3>1, UcharMod DEF AbortEffects, NextRetry
  <2>2. transmit_state' \in TransmitState
    BY <1>2 DEF AbortedState, TransmitState
  <2>3. xmit_state' \in DriverState /\ needed_idle_time' \in Timer
    BY <1>2, Timers DEF AbortEffects, DriverState, EngineOK, XMIT_IDLE, USI_XMIT_IDLE
  <2> QED BY <2>1, <2>2, <2>3 DEF EngineOK
<1> QED BY <1>1, <1>2 DEF cec_transmit_on_error, transmitVars

LEMMA CheckBitTyped ==
  ASSUME EngineOK, NEW bit, cec_check_tx_bit(bit)
  PROVE  EngineOK'
<1>1. CASE cec_transmit_on_error(CEC_ERR_ARB_LOST)
  BY <1>1, OnErrorTyped
<1>2. CASE UNCHANGED transmitVars
  BY <1>2 DEF transmitVars, EngineOK
<1> QED BY <1>1, <1>2 DEF cec_check_tx_bit

LEMMA ReceiveAckTyped ==
  ASSUME EngineOK, NEW ack, cec_transmit_receive_ack(ack)
  PROVE  EngineOK'
<1>1. CASE cec_transmit_on_error(CEC_ERR_NACK)
  BY <1>1, OnErrorTyped
<1>2. CASE /\ transmit_state' = AckedState
           /\ UNCHANGED <<transmit_retries, needed_idle_time, xmit_state>>
  BY <1>2 DEF AckedState, TransmitState, EngineOK
<1> QED BY <1>1, <1>2 DEF cec_transmit_receive_ack

(* The marker falls out of a complete byte, and what is left is a byte.    *)
LEMMA ShiftedByte ==
  ASSUME ReceiveTypeOK, NEW bit \in BOOLEAN, LastDataBit
  PROVE  Tail(ShiftIn(bit)) \in Byte
<1>1. cec_receive_byte \in Seq(BOOLEAN) /\ Len(cec_receive_byte) = BITS
  BY DEF ReceiveTypeOK, LastDataBit
<1>2. ShiftIn(bit) \in Seq(BOOLEAN) /\ Len(ShiftIn(bit)) = BITS + 1
  BY <1>1, Sizes DEF ShiftIn
<1>3. Tail(ShiftIn(bit)) \in Seq(BOOLEAN) /\ Len(Tail(ShiftIn(bit))) = BITS
  BY <1>2, Sizes
<1> QED BY <1>3, LenProperties DEF Byte

LEMMA ByteDoneTyped ==
  ASSUME ReceiveTypeOK, NEW byte \in Byte, ReceiveByteDone(byte),
         recv_driven' \in BOOLEAN, nacking' \in BOOLEAN
  PROVE  ReceiveTypeOK'
<1>1. cec_receive_flags' \subseteq RecvFlag
  <2>1. ByteFlags(byte) \subseteq RecvFlag
    BY DEF ByteFlags, AddressFlags, RecvFlag, ReceiveTypeOK
  <2> QED BY <2>1 DEF ReceiveByteDone, RefusedFlags, RecvFlag
<1>2. cec_receive_pos' \in 0..(UCHAR - 1)
  <2>1. cec_receive_pos + 1 \in Nat
    BY Sizes DEF ReceiveTypeOK
  <2> QED BY <2>1, UcharMod DEF ReceiveByteDone
<1>3. cec_receive_buf' \in [1..CEC_BUFFER_SIZE -> Byte]
  BY DEF ReceiveByteDone, ReceiveTypeOK
<1>4. cec_receive_byte' \in Seq(BOOLEAN) /\ Len(cec_receive_byte') <= BITS
  BY Sizes DEF ReceiveByteDone, ByteComplete
<1> QED BY <1>1, <1>2, <1>3, <1>4 DEF ReceiveByteDone, ReceiveTypeOK

LEMMA ReceiveBitTyped ==
  ASSUME EngineOK, ReceiveTypeOK, NEW bit \in BOOLEAN, cec_receive_bit(bit)
  PROVE  EngineOK' /\ ReceiveTypeOK'
<1>1. recv_driven' \in BOOLEAN /\ nacking' \in BOOLEAN
  BY DEF cec_receive_bit, ReceiveTypeOK
<1>2. CASE ReceiveDataBit(bit)
  <2>1. EngineOK'
    BY <1>2, CheckBitTyped DEF ReceiveDataBit
  <2>2. CASE LastDataBit
    BY <1>1, <1>2, <2>1, <2>2, ShiftedByte, ByteDoneTyped DEF ReceiveDataBit
  <2>3. CASE ~LastDataBit
    <3>1. cec_receive_byte' \in Seq(BOOLEAN) /\ Len(cec_receive_byte') <= BITS
      BY <1>2, <2>3, Sizes DEF ReceiveDataBit, LastDataBit, ShiftIn, ReceiveTypeOK
    <3> QED BY <1>1, <1>2, <2>1, <2>3, <3>1 DEF ReceiveDataBit, ReceiveTypeOK
  <2> QED BY <2>2, <2>3
<1>3. CASE ReceiveEomBit(bit)
  <2>1. EngineOK'
    BY <1>3, CheckBitTyped DEF ReceiveEomBit
  <2>2. ReceiveTypeOK'
    BY <1>1, <1>3 DEF ReceiveEomBit, RecvFlag, ReceiveTypeOK
  <2> QED BY <2>1, <2>2
<1>4. CASE ReceiveAckBit(bit)
  <2>1. EngineOK'
    BY <1>4, ReceiveAckTyped DEF ReceiveAckBit
  <2>2. cec_receive_byte' \in Seq(BOOLEAN) /\ Len(cec_receive_byte') <= BITS
    <3>1. MarkerOnly \in Seq(BOOLEAN) /\ Len(MarkerOnly) = 1
      BY DEF MarkerOnly
    <3>2. cec_receive_byte' \in {MarkerOnly, cec_receive_byte}
      BY <1>4 DEF ReceiveAckBit
    <3>3. CASE cec_receive_byte' = MarkerOnly
      BY <3>1, <3>3, Sizes
    <3>4. CASE cec_receive_byte' = cec_receive_byte
      BY <3>4 DEF ReceiveTypeOK
    <3> QED BY <3>2, <3>3, <3>4
  <2>3. cec_receive_flags' \subseteq RecvFlag
    BY <1>4 DEF ReceiveAckBit, RecvFlag, ReceiveTypeOK
  <2> QED BY <1>1, <1>4, <2>1, <2>2, <2>3 DEF ReceiveAckBit, ReceiveTypeOK
<1> QED BY <1>2, <1>3, <1>4 DEF cec_receive_bit

LEMMA ReceiveErrorTyped ==
  ASSUME EngineOK, ReceiveTypeOK, NEW err, cec_receive_error(err)
  PROVE  EngineOK' /\ ReceiveTypeOK'
<1>1. CASE cec_receive_flags = {}
  BY <1>1 DEF cec_receive_error, receiveVars, transmitVars, EngineOK, ReceiveTypeOK
<1>2. CASE cec_receive_flags # {}
  <2>1. EngineOK'
    BY <1>2, OnErrorTyped DEF cec_receive_error
  <2>2. ReceiveTypeOK'
    BY <1>2 DEF cec_receive_error, cec_receive_nack_frame, ReceiveTypeOK
  <2> QED BY <2>1, <2>2
<1> QED BY <1>1, <1>2

LEMMA ReceiveStartTyped ==
  ASSUME EngineOK, ReceiveTypeOK, cec_receive_start
  PROVE  EngineOK' /\ ReceiveTypeOK'
  BY Sizes, Timers DEF cec_receive_start, EngineOK, ReceiveTypeOK, RecvFlag, MarkerOnly

-----------------------------------------------------------------------------
(***************************************************************************)
(* The parts that a step leaves alone.                                     *)
(***************************************************************************)
LEMMA EngineUnchanged ==
  ASSUME EngineOK, UNCHANGED txVars
  PROVE  EngineOK'
  BY DEF EngineOK, txVars

LEMMA ReceiverUnchanged ==
  ASSUME ReceiveTypeOK, UNCHANGED rxVars
  PROVE  ReceiveTypeOK'
  BY DEF ReceiveTypeOK, rxVars

LEMMA MinUnchanged ==
  ASSUME MinOK, UNCHANGED minVars
  PROVE  MinOK'
  BY DEF MinOK, minVars

LEMMA TimerUnchanged ==
  ASSUME TimerOK, UNCHANGED timerVars
  PROVE  TimerOK'
  BY DEF TimerOK, timerVars

(* An abort, or none, leaves the registers of timer 1 typed.               *)
LEMMA AbortTimerTyped ==
  ASSUME TimerOK, AbortTimer, TOV1' \in BOOLEAN
  PROVE  TimerOK'
<1>1. clock' \in BOOLEAN /\ pwm' \in BOOLEAN /\ pwm_low' \in BOOLEAN
  BY DEF AbortTimer
<1> QED BY <1>1 DEF TimerOK, AbortTimer

-----------------------------------------------------------------------------
(***************************************************************************)
(* Time passes.                                                            *)
(***************************************************************************)
LEMMA TimerTickTyped ==
  ASSUME TimerOK, AiredOK, TimerTick
  PROVE  TimerOK' /\ AiredOK'
<1>1. CASE Overflow
  <2>1. TCNT1' \in 0..(TCNT1_RANGE - 1)
    BY <1>1, PwmAssumption DEF Overflow, TimerOK
  <2>2. pwm_low' \in BOOLEAN /\ TOV1' \in BOOLEAN
    BY <1>1 DEF Overflow
  <2>3. AiredOK'
    BY <1>1, AiredMaxTyped DEF Overflow, AiredOK
  <2> QED BY <1>1, <2>1, <2>2, <2>3 DEF Overflow, TimerTick, TimerOK
<1>2. CASE Count
  <2>1. TCNT1' \in 0..(TCNT1_RANGE - 1)
    <3>1. TCNT1 + 1 \in Nat /\ TCNT1_RANGE \in Nat \ {0}
      BY PwmAssumption DEF TimerOK
    <3>2. (TCNT1 + 1) % TCNT1_RANGE \in 0..(TCNT1_RANGE - 1)
      BY <3>1
    <3> QED BY <1>2, <3>2 DEF Count
  <2>2. pwm_low' \in BOOLEAN
    BY <1>2 DEF Count
  <2> QED BY <1>2, <2>1, <2>2 DEF Count, TimerTick, TimerOK, AiredOK
<1>3. CASE TimerStopped
  BY <1>3 DEF TimerStopped, TimerTick, TimerOK, AiredOK
<1> QED BY <1>1, <1>2, <1>3 DEF TimerTick

LEMMA OthersTickTyped ==
  ASSUME others \in [low : Nat, high : Nat], OthersTick
  PROVE  others' \in [low : Nat, high : Nat]
<1>1. CASE others.low > 0
  <2>1. others.low - 1 \in Nat
    BY <1>1
  <2> QED BY <1>1, <2>1 DEF OthersTick
<1>2. CASE ~(others.low > 0) /\ others.high > 0
  <2>1. others.high - 1 \in Nat
    BY <1>2
  <2> QED BY <1>2, <2>1 DEF OthersTick
<1>3. CASE ~(others.low > 0) /\ ~(others.high > 0)
  <2>1. NoPulse \in [low : Nat, high : Nat]
    BY DEF NoPulse
  <2>2. OthersPulses \subseteq [low : Nat, high : Nat] /\ AckPulses \subseteq [low : Nat, high : Nat]
    BY TimingAssumption
  <2>3. others' \in {NoPulse} \cup OthersPulses \cup AckPulses
    BY <1>3 DEF OthersTick
  <2> QED BY <2>1, <2>2, <2>3
<1> QED BY <1>1, <1>2, <1>3

LEMMA TickTyped ==
  ASSUME PwmParts, Tick
  PROVE  PwmParts'
<1>1. EngineOK' /\ ReceiveTypeOK' /\ MinOK'
  BY EngineUnchanged, ReceiverUnchanged, MinUnchanged DEF PwmParts, Tick
<1>2. TimerOK' /\ AiredOK'
  BY TimerTickTyped DEF PwmParts, Tick
<1>3. CallOK'
  <2>1. elapsed' \in 0..MaxLatency
    BY PwmAssumption DEF PwmParts, CallOK, Tick
  <2> QED BY <2>1, OthersTickTyped DEF PwmParts, CallOK, Tick, callVars
<1> QED BY <1>1, <1>2, <1>3 DEF PwmParts

-----------------------------------------------------------------------------
(***************************************************************************)
(* The receive driver.                                                     *)
(***************************************************************************)
LEMMA DriverErrorTyped ==
  ASSUME EngineOK, ReceiveTypeOK, NEW err, NEW timer \in Timer, ReceiveError(err, timer),
         receive_frame_ack_done \in {0, CEC_T5_EARLY0_TIME, NACK_TIME}
  PROVE  /\ EngineOK' /\ ReceiveTypeOK'
         /\ receive_frame_timer' \in Timer
         /\ receive_frame_ack_done' \in {0, CEC_T5_EARLY0_TIME, NACK_TIME}
  BY ReceiveErrorTyped, Timers DEF ReceiveError

LEMMA ReceiveSampleTyped ==
  ASSUME PwmParts, ReceiveSample
  PROVE  PwmParts'
<1>0. NewTimer \in Timer
  BY AddCappedTyped DEF PwmParts, MinOK, CallOK, NewTimer
<1>1. /\ EngineOK' /\ ReceiveTypeOK'
      /\ receive_frame_timer' \in Timer
      /\ receive_frame_ack_done' \in {0, CEC_T5_EARLY0_TIME, NACK_TIME}
  <2>1. CASE TakeSample
    <3>1. LineHigh \in BOOLEAN
      BY DEF LineHigh
    <3> QED BY <1>0, <2>1, <3>1, ReceiveBitTyped DEF TakeSample, PwmParts, MinOK
  <2>2. CASE MissSample
    BY <1>0, <2>2, DriverErrorTyped DEF MissSample, PwmParts, MinOK
  <2>3. CASE NoSample
    BY <1>0, <2>3, EngineUnchanged, ReceiverUnchanged DEF NoSample, PwmParts, MinOK
  <2> QED BY <2>1, <2>2, <2>3 DEF ReceiveSample
<1>2. MinOK'
  <2>1. sample' \in BOOLEAN
    BY DEF ReceiveSample, SampleDone
  <2> QED BY <1>1, <2>1 DEF PwmParts, MinOK, ReceiveSample
<1>3. TimerOK'
  BY AbortTimerTyped DEF PwmParts, TimerOK, ReceiveSample
<1>4. CallOK'
  <2>1. state' \in BOOLEAN
    BY DEF ReceiveSample, LineHigh
  <2>2. elapsed' \in 0..MaxLatency /\ delta' \in 0..MaxLatency
    BY PwmAssumption DEF PwmParts, CallOK, ReceiveSample
  <2> QED BY <2>1, <2>2 DEF PwmParts, CallOK, ReceiveSample
<1> QED BY <1>1, <1>2, <1>3, <1>4 DEF PwmParts, AiredOK, ReceiveSample

LEMMA ReceiveFloatTyped ==
  ASSUME PwmParts, ReceiveFloat
  PROVE  PwmParts'
<1>1. ReceiveTypeOK'
  <2>1. recv_driven' \in BOOLEAN /\ nacking' \in BOOLEAN
    BY DEF ReceiveFloat
  <2> QED BY <2>1 DEF PwmParts, ReceiveTypeOK, ReceiveFloat
<1>2. EngineOK' /\ MinOK' /\ TimerOK'
  BY EngineUnchanged, MinUnchanged, TimerUnchanged DEF PwmParts, ReceiveFloat
<1>3. CallOK' /\ AiredOK'
  BY DEF PwmParts, CallOK, AiredOK, ReceiveFloat, busVars
<1> QED BY <1>1, <1>2, <1>3 DEF PwmParts

LEMMA NoEdgeTyped ==
  ASSUME EngineOK, ReceiveTypeOK, MinOK, NoEdge
  PROVE  /\ EngineOK' /\ ReceiveTypeOK'
         /\ receive_frame_timer' \in Timer
         /\ receive_frame_ack_done' \in {0, CEC_T5_EARLY0_TIME, NACK_TIME}
<1>1. CASE ReceiveError(CEC_ERR_NO_EOM, receive_frame_timer)
  BY <1>1, DriverErrorTyped DEF MinOK
<1>2. CASE UNCHANGED <<txVars, rxVars, receive_frame_timer, receive_frame_ack_done>>
  BY <1>2, EngineUnchanged, ReceiverUnchanged DEF MinOK
<1> QED BY <1>1, <1>2 DEF NoEdge

LEMMA RisingEdgeTyped ==
  ASSUME EngineOK, ReceiveTypeOK, MinOK, RisingEdge
  PROVE  EngineOK' /\ ReceiveTypeOK'
         /\ receive_frame_period' \in {0, CEC_T7_EARLY_END_TIME, CEC_START_HIGH_EARLY_TIME}
<1>1. CASE cec_receive_start /\ receive_frame_period' = CEC_START_HIGH_EARLY_TIME
  BY <1>1, ReceiveStartTyped
<1>2. CASE UNCHANGED <<txVars, rxVars, receive_frame_period>>
  BY <1>2, EngineUnchanged, ReceiverUnchanged DEF MinOK
<1> QED BY <1>1, <1>2 DEF RisingEdge

LEMMA FallingEdgeTyped ==
  ASSUME EngineOK, ReceiveTypeOK, MinOK, FallingEdge
  PROVE  /\ EngineOK' /\ ReceiveTypeOK'
         /\ receive_frame_timer' \in Timer
         /\ receive_frame_ack_done' \in {0, CEC_T5_EARLY0_TIME, NACK_TIME}
         /\ sample' \in BOOLEAN
<1>1. CASE EarlyEdge
  BY <1>1, DriverErrorTyped, Timers DEF EarlyEdge, MinOK
<1>2. CASE BitBegins
  <2>1. recv_driven' \in BOOLEAN /\ sample' \in BOOLEAN
    BY <1>2 DEF BitBegins
  <2>2. ReceiveTypeOK'
    BY <1>2, <2>1 DEF BitBegins, ReceiveTypeOK
  <2> QED BY <1>2, <2>1, <2>2, EngineUnchanged, Timers DEF BitBegins, MinOK
<1>3. CASE /\ receive_frame_timer' = 0
           /\ UNCHANGED <<txVars, rxVars, receive_frame_ack_done, sample>>
  BY <1>3, EngineUnchanged, ReceiverUnchanged, Timers DEF MinOK
<1> QED BY <1>1, <1>2, <1>3 DEF FallingEdge

LEMMA ReceiveEdgeTyped ==
  ASSUME PwmParts, ReceiveEdge
  PROVE  PwmParts'
<1>0. EngineOK /\ ReceiveTypeOK /\ MinOK /\ TimerOK /\ CallOK /\ AiredOK
  BY DEF PwmParts
<1>1. last_state' \in BOOLEAN
  BY <1>0 DEF CallOK, ReceiveEdge
<1>2. EngineOK' /\ ReceiveTypeOK' /\ MinOK'
  <2>1. CASE NoEdge
    BY <1>0, <1>1, <2>1, NoEdgeTyped DEF MinOK, NoEdge
  <2>2. CASE RisingEdge
    BY <1>0, <1>1, <2>2, RisingEdgeTyped DEF MinOK, RisingEdge
  <2>3. CASE FallingEdge
    BY <1>0, <1>1, <2>3, FallingEdgeTyped DEF MinOK, FallingEdge
  <2> QED BY <2>1, <2>2, <2>3 DEF ReceiveEdge
<1>3. TimerOK'
  BY <1>0, AbortTimerTyped DEF TimerOK, ReceiveEdge
<1>4. CallOK' /\ AiredOK'
  BY <1>0 DEF CallOK, AiredOK, ReceiveEdge, busVars
<1> QED BY <1>2, <1>3, <1>4 DEF PwmParts

-----------------------------------------------------------------------------
(***************************************************************************)
(* The transmit driver.                                                    *)
(***************************************************************************)
LEMMA GetBitTyped ==
  ASSUME EngineOK, NEW bit, cec_transmit_get_bit(bit), xmit_state' \in DriverState
  PROVE  EngineOK'
<1>1. transmit_state' \in TransmitState /\ needed_idle_time' \in Timer
  BY Timers DEF cec_transmit_get_bit, GetDataBit, GetEomBit, GetAckBit, TransmitState, EngineOK
<1> QED BY <1>1 DEF cec_transmit_get_bit, EngineOK

LEMMA XmitTyped ==
  ASSUME PwmParts, xmit_pwm_periodic
  PROVE  PwmParts'
<1>0. EngineOK /\ ReceiveTypeOK /\ MinOK /\ TimerOK /\ CallOK /\ AiredOK
  BY DEF PwmParts
<1>1. EngineOK' /\ TimerOK'
  <2>1. CASE FrameDone /\ TOV1' = FALSE /\ LoseTrack
    BY <1>0, <2>1, OnErrorTyped, AbortTimerTyped DEF LoseTrack
  <2>2. CASE FrameDone /\ TOV1' = FALSE /\ EndLow
    BY <1>0, <2>2 DEF EndLow, transmitUnchanged, EngineOK, TimerOK, DriverState
  <2>3. CASE FrameDone /\ TOV1' = FALSE /\ EndClock
    BY <1>0, <2>3 DEF EndClock, transmitUnchanged, EngineOK, TimerOK, DriverState
  <2>4. ASSUME NEW bit \in BOOLEAN, TOV1' = FALSE, LoadFrame(bit)
        PROVE  EngineOK' /\ TimerOK'
    <3>1. xmit_state' \in DriverState
      BY <2>4 DEF LoadFrame, DriverState
    <3>2. EngineOK'
      BY <1>0, <2>4, <3>1, GetBitTyped DEF LoadFrame
    <3>3. TimerOK'
      BY <1>0, <2>4 DEF LoadFrame, Ticks, TimerOK
    <3> QED BY <3>2, <3>3
  <2>5. CASE UNCHANGED <<txVars, timerVars>>
    BY <1>0, <2>5, EngineUnchanged, TimerUnchanged
  <2> QED BY <2>1, <2>2, <2>3, <2>4, <2>5 DEF xmit_pwm_periodic
<1>2. ReceiveTypeOK' /\ MinOK'
  BY <1>0, ReceiverUnchanged, MinUnchanged DEF xmit_pwm_periodic
<1>3. CallOK' /\ AiredOK'
  BY <1>0 DEF CallOK, AiredOK, xmit_pwm_periodic, busVars
<1> QED BY <1>1, <1>2, <1>3 DEF PwmParts

LEMMA StartTyped ==
  ASSUME PwmParts, cec_transmit_periodic
  PROVE  PwmParts'
<1>0. EngineOK /\ ReceiveTypeOK /\ MinOK /\ TimerOK /\ CallOK /\ AiredOK
  BY DEF PwmParts
<1>1. EngineOK' /\ TimerOK' /\ AiredOK'
  <2>1. CASE xmit_start
    <3>1. EngineOK'
      BY <1>0, <2>1, Sizes
         DEF xmit_start, cec_transmit_start, EngineOK, TransmitState, DriverState
    <3>2. CEC_START_PERIOD - 1 \in 0..(TCNT1_RANGE - 1)
      BY TimingAssumption, PwmAssumption
    <3>3. TimerOK'
      BY <1>0, <2>1, <3>2 DEF xmit_start, TimerOK
    <3>4. AiredOK'
      BY <2>1, AiredMaxTyped DEF xmit_start, AiredOK
    <3> QED BY <3>1, <3>3, <3>4
  <2>2. CASE UNCHANGED <<txVars, timerVars, aired>>
    BY <1>0, <2>2, EngineUnchanged, TimerUnchanged DEF AiredOK
  <2> QED BY <2>1, <2>2 DEF cec_transmit_periodic
<1>2. ReceiveTypeOK' /\ MinOK'
  BY <1>0, ReceiverUnchanged, MinUnchanged DEF cec_transmit_periodic
<1>3. CallOK'
  <2>1. transmit_high_timer' \in Timer
    BY <1>0, AddCappedTyped, Timers DEF CallOK, cec_transmit_periodic, NewHighTimer
  <2>2. delta' \in 0..MaxLatency
    BY PwmAssumption DEF cec_transmit_periodic
  <2> QED BY <1>0, <2>1, <2>2 DEF CallOK, cec_transmit_periodic, busVars
<1> QED BY <1>1, <1>2, <1>3 DEF PwmParts

-----------------------------------------------------------------------------
(***************************************************************************)
(* The address assignment and the application.                             *)
(***************************************************************************)
LEMMA AddrPeriodicTyped ==
  ASSUME PwmParts, AddrPeriodic
  PROVE  PwmParts'
<1>0. EngineOK /\ ReceiveTypeOK /\ MinOK /\ TimerOK /\ CallOK /\ AiredOK
  BY DEF PwmParts
<1>1. EngineOK'
  BY <1>0 DEF AddrPeriodic, cec_addr_periodic, AddrIdle, AddrPing, AddrGiveUp, AddrClaim, AddrWait,
              transmitVars, EngineOK, TransmitState
<1>2. ReceiveTypeOK' /\ MinOK' /\ TimerOK'
  BY <1>0, MinUnchanged, TimerUnchanged DEF AddrPeriodic, ReceiveTypeOK
<1>3. CallOK' /\ AiredOK'
  BY <1>0 DEF CallOK, AiredOK, AddrPeriodic, busVars
<1> QED BY <1>1, <1>2, <1>3 DEF PwmParts

LEMMA AppTyped ==
  ASSUME PwmParts, AppClearHeader \/ \E m \in Messages : AppSend(m)
  PROVE  PwmParts'
<1>0. EngineOK /\ ReceiveTypeOK /\ MinOK /\ TimerOK /\ CallOK /\ AiredOK
  BY DEF PwmParts
<1>1. EngineOK'
  BY <1>0, EngineUnchanged DEF AppClearHeader, AppSend, EngineOK, TransmitState
<1>2. ReceiveTypeOK'
  BY <1>0, ReceiverUnchanged DEF AppClearHeader, AppSend, ReceiveTypeOK
<1>3. MinOK' /\ TimerOK'
  BY <1>0, MinUnchanged, TimerUnchanged DEF AppClearHeader, AppSend, driverUnchanged
<1>4. CallOK' /\ AiredOK'
  BY <1>0 DEF CallOK, AiredOK, AppClearHeader, AppSend, driverUnchanged, callVars, busVars
<1> QED BY <1>1, <1>2, <1>3, <1>4 DEF PwmParts

LEMMA HaltTyped ==
  ASSUME PwmParts, cec_halt
  PROVE  PwmParts'
<1>0. EngineOK /\ ReceiveTypeOK /\ MinOK /\ TimerOK /\ CallOK /\ AiredOK
  BY DEF PwmParts
<1>1. EngineOK'
  <2>1. transmit_state' \in TransmitState
    BY DEF cec_halt, TransmitState
  <2>2. CASE AbortEffects(CEC_ERR_HALT)
    <3>1. transmit_retries' \in 0..(UCHAR - 1)
      <4>1. transmit_retries + 1 \in Nat
        BY <1>0 DEF EngineOK
      <4> QED BY <2>2, <4>1, UcharMod DEF AbortEffects, NextRetry
    <3>2. xmit_state' \in DriverState /\ needed_idle_time' \in Timer
      BY <1>0, <2>2, Timers DEF AbortEffects, DriverState, EngineOK, XMIT_IDLE, USI_XMIT_IDLE
    <3> QED BY <2>1, <3>1, <3>2 DEF EngineOK
  <2>3. CASE UNCHANGED <<transmit_retries, needed_idle_time, xmit_state>>
    BY <1>0, <2>1, <2>3 DEF EngineOK
  <2> QED BY <2>2, <2>3 DEF cec_halt, HaltAbort
<1>2. ReceiveTypeOK'
  <2>1. recv_driven' \in BOOLEAN /\ nacking' \in BOOLEAN
    BY DEF cec_halt
  <2> QED BY <1>0, <2>1 DEF cec_halt, ReceiveTypeOK, RecvFlag
<1>3. MinOK'
  BY <1>0, Timers DEF cec_halt, MinOK
<1>4. TimerOK'
  <2>1. clock' \in BOOLEAN /\ pwm' \in BOOLEAN /\ pwm_low' \in BOOLEAN
    BY DEF cec_halt
  <2> QED BY <1>0, <2>1 DEF cec_halt, TimerOK
<1>5. CallOK' /\ AiredOK'
  BY <1>0 DEF cec_halt, CallOK, AiredOK, callVars, busVars
<1> QED BY <1>1, <1>2, <1>3, <1>4, <1>5 DEF PwmParts

LEMMA RestartTyped ==
  ASSUME PwmParts, cec_init
  PROVE  PwmParts'
<1>0. EngineOK /\ ReceiveTypeOK /\ MinOK /\ TimerOK /\ CallOK /\ AiredOK
  BY DEF PwmParts
<1>1. EngineOK'
  BY <1>0, Timers DEF cec_init, AddrInitTransmitState, EngineOK, TransmitState
<1>2. ReceiveTypeOK' /\ MinOK'
  BY <1>0, MinUnchanged DEF cec_init, ReceiveTypeOK
<1>3. TimerOK'
  BY <1>0 DEF cec_init, TimerOK
<1>4. elapsed' \in 0..MaxLatency
  BY PwmAssumption DEF cec_init
<1>5. CallOK' /\ AiredOK'
  BY <1>0, <1>4 DEF cec_init, CallOK, AiredOK, callVars
<1> QED BY <1>1, <1>2, <1>3, <1>5 DEF PwmParts

LEMMA InitTyped == Init => PwmParts
<1> SUFFICES ASSUME Init PROVE PwmParts
  OBVIOUS
<1>1. EngineOK
  BY Timers, Sizes DEF Init, TransmitInit, EngineOK, TransmitState, DriverState, XMIT_IDLE,
                       USI_XMIT_IDLE
<1>2. ReceiveTypeOK
  <2>1. cec_receive_buf \in [1..CEC_BUFFER_SIZE -> Byte]
    <3>1. ZeroByte \in Byte
      BY DEF ZeroByte, Byte
    <3> QED BY <3>1 DEF Init, ReceiveInit
  <2>2. cec_receive_byte \in Seq(BOOLEAN) /\ Len(cec_receive_byte) <= BITS
    BY EmptySeq, Sizes DEF Init, ReceiveInit, ByteComplete
  <2>3. 0 \in 0..(UCHAR - 1)
    BY Sizes
  <2> QED BY <2>1, <2>2, <2>3 DEF Init, ReceiveInit, ReceiveTypeOK
<1>0. FALSE \in BOOLEAN
  OBVIOUS
<1>3. MinOK
  BY <1>0, Timers DEF Init, MinOK
<1>4. TimerOK
  <2>1. 0 \in 0..(TCNT1_RANGE - 1)
    <3>1. CEC_DATA_PERIOD \in 1..(TCNT1_RANGE - 1)
      BY TimingAssumption
    <3> QED BY <3>1, PwmAssumption
  <2> QED BY <1>0, <2>1 DEF Init, TimerOK
<1>5. CallOK /\ AiredOK
  <2>1. 0 \in 0..MaxLatency /\ 0 \in 0..AiredMax
    BY PwmAssumption, AiredMaxTyped
  <2>2. NoPulse \in [low : Nat, high : Nat]
    BY DEF NoPulse
  <2>3. transmit_high_timer \in Timer /\ state \in BOOLEAN
    BY <1>0, Timers DEF Init
  <2>4. others \in [low : Nat, high : Nat]
    BY <2>2 DEF Init
  <2>5. elapsed \in 0..MaxLatency /\ delta \in 0..MaxLatency /\ aired \in 0..AiredMax
    BY <2>1 DEF Init
  <2>6. phase = "app" /\ mode = "running"
    BY DEF Init
  <2> QED BY <2>3, <2>4, <2>5, <2>6 DEF CallOK, AiredOK
<1> QED BY <1>1, <1>2, <1>3, <1>4, <1>5 DEF PwmParts

LEMMA NextTyped == PwmTypeOK /\ [Next]_vars => PwmTypeOK'
<1>0. PwmTypeOK' <=> PwmParts'
  BY DEF PwmTypeOK, PwmParts, EngineOK, MinOK, TimerOK, CallOK, AiredOK, DriverState
<1> SUFFICES ASSUME PwmParts, [Next]_vars PROVE PwmParts'
  BY <1>0, Parts
<1>1. CASE Tick
  BY <1>1, TickTyped
<1>2. CASE cec_periodic
  BY <1>2, ReceiveSampleTyped, ReceiveFloatTyped, ReceiveEdgeTyped, XmitTyped, StartTyped,
     AddrPeriodicTyped DEF cec_periodic
<1>3. CASE Application
  BY <1>3, AppTyped, HaltTyped, RestartTyped DEF Application
<1>4. CASE UNCHANGED vars
  BY <1>4, EngineUnchanged, ReceiverUnchanged, MinUnchanged, TimerUnchanged
     DEF vars, PwmParts, CallOK, AiredOK, callVars, busVars
<1> QED BY <1>1, <1>2, <1>3, <1>4 DEF Next

(* However late the calls are, and whatever is on the line: the software   *)
(* timers of cec_receive_min.c and cec_transmit_pwm.c saturate within      *)
(* their 16 bits, and timer 1 and its registers hold values that the code  *)
(* wrote.                                                                  *)
THEOREM PwmTypeCorrect == Spec => []PwmTypeOK
<1>1. Init => PwmTypeOK
  BY InitTyped, Parts
<1>2. PwmTypeOK /\ [Next]_vars => PwmTypeOK'
  BY NextTyped
<1> QED BY <1>1, <1>2, PTL DEF Spec

-----------------------------------------------------------------------------
(***************************************************************************)
(* The driver, the engine and timer 1 are inside a message together.       *)
(* cec_init() resets the engine and not the driver: that the engine is     *)
(* idle as long as the library is halted is needed for it.                 *)
(***************************************************************************)
HaltedIsQuiet == mode = "halted" => phase = "app" /\ transmit_state = TRANSMIT_IDLE

PwmInv == PwmTypeOK /\ PwmInStep /\ HaltedIsQuiet

USE DEF TRANSMIT_IDLE, TRANSMIT_FAILED, TRANSMIT_PEND, TRANSMIT_AGAIN, TRANSMIT_BIT_EOM,
        TRANSMIT_ACK, TRANSMIT_WAIT_FOR_ACK, XMIT_IDLE, XMIT_START, XMIT_RUNNING, XMIT_END1,
        XMIT_END2, USI_XMIT_IDLE

(* An abort, and nothing else here, stops the clock.                       *)
ClockStops == clock' <=> clock /\ ~Aborted

LEMMA AbortStopsClock == AbortTimer => ClockStops
  BY Zenon DEF AbortTimer, ClockStops

LEMMA StaysInStep ==
  ASSUME PwmInStep, UNCHANGED <<transmit_state, xmit_state, clock>>
  PROVE  PwmInStep'
  BY DEF PwmInStep

LEMMA NotAborted ==
  ASSUME EngineOK, UNCHANGED transmit_state
  PROVE  ~Aborted
  BY DEF EngineOK, TransmitState, Aborted, Transmitting

LEMMA QuietInStep ==
  ASSUME EngineOK, PwmInStep, ClockStops, UNCHANGED <<transmit_state, xmit_state>>
  PROVE  PwmInStep'
  BY NotAborted DEF PwmInStep, ClockStops

LEMMA OnErrorInStep ==
  ASSUME EngineOK, PwmInStep, ClockStops, NEW err, cec_transmit_on_error(err)
  PROVE  PwmInStep'
<1>1. CASE UNCHANGED transmitVars
  BY <1>1, QuietInStep DEF transmitVars
<1>2. CASE Transmitting /\ AbortEffects(err) /\ transmit_state' = AbortedState
  <2>1. xmit_state' = XMIT_IDLE /\ transmit_state' \in {TRANSMIT_FAILED, TRANSMIT_AGAIN}
    BY <1>2 DEF AbortEffects, AbortedState
  <2>2. ~clock'
    BY <1>2, <2>1 DEF ClockStops, Aborted
  <2> QED BY <2>1, <2>2 DEF PwmInStep
<1> QED BY <1>1, <1>2 DEF cec_transmit_on_error

LEMMA ReceiveAckInStep ==
  ASSUME EngineOK, PwmInStep, ClockStops, NEW ack, cec_transmit_receive_ack(ack)
  PROVE  PwmInStep'
<1>1. CASE cec_transmit_on_error(CEC_ERR_NACK)
  BY <1>1, OnErrorInStep
<1>2. CASE transmit_state' = AckedState /\ UNCHANGED xmit_state
  <2>1. CASE transmit_state = TRANSMIT_WAIT_FOR_ACK
    BY <1>2, <2>1 DEF AckedState, PwmInStep, ClockStops, Aborted
  <2>2. CASE transmit_state # TRANSMIT_WAIT_FOR_ACK
    BY <1>2, <2>2, QuietInStep DEF AckedState
  <2> QED BY <2>1, <2>2
<1> QED BY <1>1, <1>2 DEF cec_transmit_receive_ack

LEMMA ReceiveBitInStep ==
  ASSUME EngineOK, PwmInStep, ClockStops, NEW bit, cec_receive_bit(bit)
  PROVE  PwmInStep'
<1>1. CASE cec_transmit_on_error(CEC_ERR_ARB_LOST)
  BY <1>1, OnErrorInStep
<1>2. CASE UNCHANGED transmitVars
  BY <1>2, QuietInStep DEF transmitVars
<1>3. CASE cec_transmit_receive_ack(Acked(bit))
  BY <1>3, ReceiveAckInStep
<1> QED BY <1>1, <1>2, <1>3
        DEF cec_receive_bit, ReceiveDataBit, ReceiveEomBit, ReceiveAckBit, cec_check_tx_bit

LEMMA ReceiveErrorInStep ==
  ASSUME EngineOK, PwmInStep, ClockStops, NEW err, cec_receive_error(err)
  PROVE  PwmInStep'
<1>1. CASE cec_transmit_on_error(err)
  BY <1>1, OnErrorInStep
<1>2. CASE UNCHANGED transmitVars
  BY <1>2, QuietInStep DEF transmitVars
<1> QED BY <1>1, <1>2 DEF cec_receive_error

LEMMA ReceiverInStep ==
  ASSUME EngineOK, PwmInStep, ReceiveSample \/ ReceiveFloat \/ ReceiveEdge
  PROVE  PwmInStep'
<1>1. CASE ReceiveFloat
  BY <1>1, StaysInStep DEF ReceiveFloat, txVars, timerVars
<1>2. CASE ReceiveSample
  <2>1. ClockStops
    BY <1>2, AbortStopsClock DEF ReceiveSample
  <2> QED BY <1>2, <2>1, ReceiveBitInStep, ReceiveErrorInStep, QuietInStep
          DEF ReceiveSample, TakeSample, MissSample, NoSample, ReceiveError, txVars
<1>3. CASE ReceiveEdge
  <2>1. ClockStops
    BY <1>3, AbortStopsClock DEF ReceiveEdge
  <2>2. CASE cec_receive_start
    BY <2>1, <2>2, QuietInStep DEF cec_receive_start
  <2>3. CASE UNCHANGED txVars
    BY <2>1, <2>3, QuietInStep DEF txVars
  <2>4. ASSUME NEW err, cec_receive_error(err)
        PROVE  PwmInStep'
    BY <2>1, <2>4, ReceiveErrorInStep
  <2> QED BY <1>3, <2>2, <2>3, <2>4
          DEF ReceiveEdge, NoEdge, RisingEdge, FallingEdge, EarlyEdge, BitBegins, ReceiveError
<1> QED BY <1>1, <1>2, <1>3

LEMMA XmitInStep ==
  ASSUME EngineOK, PwmInStep, xmit_pwm_periodic
  PROVE  PwmInStep'
<1>1. CASE LoseTrack
  BY <1>1, AbortStopsClock, OnErrorInStep DEF LoseTrack
<1>2. CASE EndLow
  BY <1>2 DEF EndLow, transmitUnchanged, PwmInStep
<1>3. CASE EndClock
  <2>1. ~clock'
    BY <1>3 DEF EndClock
  <2> QED BY <1>3, <2>1 DEF EndClock, transmitUnchanged, PwmInStep
<1>4. ASSUME NEW bit \in BOOLEAN, LoadFrame(bit)
      PROVE  PwmInStep'
  <2>1. /\ xmit_state \in {XMIT_START, XMIT_RUNNING}
        /\ transmit_state \in {TRANSMIT_BIT_EOM, TRANSMIT_ACK}
        /\ clock' <=> clock
        /\ clock
    BY <1>4 DEF LoadFrame, PwmInStep
  <2>2. transmit_state' \in {TRANSMIT_BIT_EOM, TRANSMIT_ACK, TRANSMIT_WAIT_FOR_ACK}
    BY <1>4, <2>1 DEF LoadFrame, cec_transmit_get_bit, GetDataBit, GetEomBit, GetAckBit
  <2>3. xmit_state' = IF transmit_state' = TRANSMIT_WAIT_FOR_ACK THEN XMIT_END1 ELSE XMIT_RUNNING
    BY <1>4 DEF LoadFrame
  <2> QED BY <2>1, <2>2, <2>3 DEF PwmInStep
<1>5. CASE UNCHANGED <<txVars, timerVars>>
  BY <1>5, StaysInStep DEF txVars, timerVars
<1> QED BY <1>1, <1>2, <1>3, <1>4, <1>5 DEF xmit_pwm_periodic

LEMMA StartInStep ==
  ASSUME PwmInStep, cec_transmit_periodic
  PROVE  PwmInStep'
<1>1. CASE xmit_start
  <2>1. clock'
    BY <1>1 DEF xmit_start
  <2>2. xmit_state' = XMIT_START /\ transmit_state' = TRANSMIT_BIT_EOM
    BY <1>1 DEF xmit_start, cec_transmit_start
  <2> QED BY <2>1, <2>2 DEF PwmInStep
<1>2. CASE UNCHANGED <<txVars, timerVars>>
  BY <1>2, StaysInStep DEF txVars, timerVars
<1> QED BY <1>1, <1>2 DEF cec_transmit_periodic

(* The address search queues a ping on an idle interface only.             *)
LEMMA AddrInStep ==
  ASSUME PwmInStep, AddrPeriodic
  PROVE  PwmInStep'
<1>1. clock' = clock /\ xmit_state' = xmit_state
  BY DEF AddrPeriodic, timerVars, cec_addr_periodic, AddrIdle, AddrPing, AddrGiveUp, AddrClaim,
         AddrWait, transmitVars
<1>2. CASE UNCHANGED transmit_state
  BY <1>1, <1>2, StaysInStep
<1>3. CASE transmit_state = TRANSMIT_IDLE /\ transmit_state' = TRANSMIT_PEND
  BY <1>1, <1>3 DEF PwmInStep
<1> QED BY <1>2, <1>3
        DEF AddrPeriodic, cec_addr_periodic, AddrIdle, AddrPing, AddrGiveUp, AddrClaim, AddrWait,
            transmitVars

LEMMA AppInStep ==
  ASSUME EngineOK, PwmInStep, AppClearHeader \/ \E m \in Messages : AppSend(m)
  PROVE  PwmInStep'
<1>1. CASE AppClearHeader
  BY <1>1, StaysInStep DEF AppClearHeader, txVars, timerVars
<1>2. ASSUME NEW m \in Messages, AppSend(m)
      PROVE  PwmInStep'
  <2>1. /\ transmit_state \in {TRANSMIT_IDLE, TRANSMIT_FAILED}
        /\ transmit_state' = TRANSMIT_PEND
        /\ UNCHANGED <<xmit_state, clock>>
    BY <1>2 DEF AppSend, timerVars, EngineOK, TransmitState
  <2> QED BY <2>1 DEF PwmInStep
<1> QED BY <1>1, <1>2

(* cec_halt() while nothing is under way.                                  *)
LEMMA HaltInStep ==
  ASSUME HaltPolicy # "anytime", EngineOK, PwmInStep, cec_halt
  PROVE  PwmInStep'
<1>1. xmit_state = XMIT_IDLE /\ cec_receive_flags = {}
  BY TimingAssumption DEF cec_halt, HaltAllowed
<1>2. ~HaltAborts
  BY <1>1 DEF HaltAborts
<1>3. xmit_state' = XMIT_IDLE
  BY <1>1, <1>2 DEF cec_halt, HaltAbort
<1>4. ~clock'
  <2>1. clock' <=> clock /\ ~HaltAborts
    BY Zenon DEF cec_halt
  <2>2. ~clock
    BY <1>1 DEF PwmInStep
  <2> QED BY <2>1, <2>2
<1> QED BY <1>3, <1>4 DEF cec_halt, PwmInStep

LEMMA RestartInStep ==
  ASSUME PwmInStep, HaltedIsQuiet, cec_init
  PROVE  PwmInStep'
<1>1. transmit_state' = transmit_state
  BY DEF cec_init, HaltedIsQuiet, AddrInitTransmitState
<1> QED BY <1>1, StaysInStep DEF cec_init

LEMMA HaltedStaysQuiet ==
  ASSUME HaltedIsQuiet, [Next]_vars
  PROVE  HaltedIsQuiet'
<1>1. CASE Tick
  BY <1>1 DEF Tick, HaltedIsQuiet, txVars, callVars
<1>2. CASE cec_periodic
  <2>1. mode' # "halted"
    BY <1>2 DEF cec_periodic, ReceiveSample, ReceiveFloat, ReceiveEdge, xmit_pwm_periodic,
                cec_transmit_periodic, AddrPeriodic, HaltedIsQuiet
  <2> QED BY <2>1 DEF HaltedIsQuiet
<1>3. CASE AppClearHeader \/ \E m \in Messages : AppSend(m)
  BY <1>3 DEF AppClearHeader, AppSend, AppTurn, HaltedIsQuiet
<1>4. CASE cec_halt
  BY <1>4 DEF cec_halt, AppTurn, HaltedIsQuiet, callVars
<1>5. CASE cec_init
  BY <1>5 DEF cec_init, HaltedIsQuiet
<1>6. CASE UNCHANGED vars
  BY <1>6 DEF vars, txVars, callVars, HaltedIsQuiet
<1> QED BY <1>1, <1>2, <1>3, <1>4, <1>5, <1>6 DEF Next, Application

LEMMA InStepInit == Init => PwmInStep /\ HaltedIsQuiet
<1> SUFFICES ASSUME Init PROVE PwmInStep /\ HaltedIsQuiet
  OBVIOUS
<1>1. ~clock
  BY DEF Init
<1>2. transmit_state = TRANSMIT_IDLE /\ xmit_state = XMIT_IDLE /\ mode = "running"
  BY DEF Init, TransmitInit
<1> QED BY <1>1, <1>2 DEF PwmInStep, HaltedIsQuiet

LEMMA InStepNext ==
  ASSUME HaltPolicy # "anytime", PwmInv, [Next]_vars
  PROVE  PwmInv'
<1>0. EngineOK /\ PwmInStep /\ HaltedIsQuiet
  BY Parts DEF PwmInv, PwmParts
<1>1. PwmInStep'
  <2>1. CASE Tick
    BY <1>0, <2>1, StaysInStep DEF Tick, txVars, TimerTick
  <2>2. CASE cec_periodic
    BY <1>0, <2>2, ReceiverInStep, XmitInStep, StartInStep, AddrInStep DEF cec_periodic
  <2>3. CASE Application
    BY <1>0, <2>3, AppInStep, HaltInStep, RestartInStep DEF Application
  <2>4. CASE UNCHANGED vars
    BY <1>0, <2>4, StaysInStep DEF vars, txVars, timerVars
  <2> QED BY <2>1, <2>2, <2>3, <2>4 DEF Next
<1> QED BY <1>0, <1>1, NextTyped, HaltedStaysQuiet DEF PwmInv

(* Driver, engine and timer 1 enter and leave a message together, however  *)
(* late the calls are and wherever the message is given up: provided that  *)
(* cec_halt() is called only between messages, for it stops none of them.  *)
THEOREM PwmStaysInStep ==
  ASSUME HaltPolicy # "anytime"
  PROVE  Spec => []PwmInStep
<1>1. Init => PwmInv
  BY InitTyped, Parts, InStepInit DEF PwmInv
<1>2. PwmInv /\ [Next]_vars => PwmInv'
  BY InStepNext
<1>3. PwmInv => PwmInStep
  BY DEF PwmInv
<1> QED BY <1>1, <1>2, <1>3, PTL DEF Spec

-----------------------------------------------------------------------------
(***************************************************************************)
(* The transmit side implements TransmitService over these drivers too.    *)
(* As in CecEngineTxProofs each operation is one of its steps or stutters, *)
(* and a message still in progress has a transmission left.                *)
(***************************************************************************)
Unfinished ==
  {TRANSMIT_AGAIN, TRANSMIT_BIT_EOM, TRANSMIT_ACK, TRANSMIT_WAIT_FOR_ACK}

RetriesLeft ==
  transmit_state \in Unfinished => transmit_retries < CEC_XMIT_MAX_RETRANSMIT

ServiceStep == Service!Next \/ UNCHANGED <<ServiceStatus, ServiceTries>>

Awake == mode # "halted" /\ mode' # "halted"

MapVars == <<transmit_state, transmit_retries>>

LEMMA Statuses ==
  ASSUME NEW r \in Nat
  PROVE  /\ StatusOf(TRANSMIT_IDLE) = "idle"     /\ TriesOf(TRANSMIT_IDLE, r) = 0
         /\ StatusOf(TRANSMIT_FAILED) = "failed" /\ TriesOf(TRANSMIT_FAILED, r) = 0
         /\ StatusOf(TRANSMIT_PEND) = "pend"     /\ TriesOf(TRANSMIT_PEND, r) = 0
         /\ StatusOf(TRANSMIT_AGAIN) = "again"   /\ TriesOf(TRANSMIT_AGAIN, r) = r
         /\ \A s \in {TRANSMIT_BIT_EOM, TRANSMIT_ACK, TRANSMIT_WAIT_FOR_ACK} :
               StatusOf(s) = "busy" /\ TriesOf(s, r) = r + 1
  BY DEF StatusOf, TriesOf

LEMMA MapUnchanged ==
  ASSUME Awake, RetriesLeft, UNCHANGED MapVars
  PROVE  RetriesLeft' /\ ServiceStep
  BY DEF Awake, RetriesLeft, ServiceStep, ServiceStatus, ServiceTries, MapVars

LEMMA OnErrorMap ==
  ASSUME Awake, EngineOK, RetriesLeft, NEW err, cec_transmit_on_error(err)
  PROVE  RetriesLeft' /\ ServiceStep
<1>1. CASE UNCHANGED transmitVars
  BY <1>1, MapUnchanged DEF transmitVars, MapVars
<1>2. CASE Transmitting /\ AbortEffects(err) /\ transmit_state' = AbortedState
  <2>1. /\ transmit_retries \in Nat
        /\ transmit_retries + 1 <= CEC_XMIT_MAX_RETRANSMIT
        /\ transmit_state \in {TRANSMIT_BIT_EOM, TRANSMIT_ACK, TRANSMIT_WAIT_FOR_ACK}
    BY <1>2, Sizes DEF EngineOK, TransmitState, Transmitting, RetriesLeft, Unfinished
  <2>2. NextRetry = transmit_retries + 1
    BY <2>1, Sizes DEF NextRetry
  <2>3. ServiceStatus = "busy" /\ ServiceTries = transmit_retries + 1
    BY <2>1, Statuses DEF Awake, ServiceStatus, ServiceTries
  <2>4. transmit_retries' = transmit_retries + 1 /\ transmit_retries' \in Nat
    BY <1>2, <2>1, <2>2 DEF AbortEffects
  <2>5. CASE transmit_retries + 1 = CEC_XMIT_MAX_RETRANSMIT
    <3>1. transmit_state' = TRANSMIT_FAILED
      BY <1>2, <2>2, <2>5 DEF AbortedState, OutOfRetries
    <3>2. ServiceStatus' = "failed" /\ ServiceTries' = 0
      BY <2>4, <3>1, Statuses DEF Awake, ServiceStatus, ServiceTries
    <3>3. RetriesLeft'
      BY <3>1 DEF RetriesLeft, Unfinished
    <3> QED BY <2>3, <2>5, <3>2, <3>3 DEF ServiceStep, Service!Next, Service!Fail
  <2>6. CASE transmit_retries + 1 # CEC_XMIT_MAX_RETRANSMIT
    <3>1. transmit_state' = TRANSMIT_AGAIN
      BY <1>2, <2>2, <2>6 DEF AbortedState, OutOfRetries
    <3>2. ServiceStatus' = "again" /\ ServiceTries' = transmit_retries + 1
      BY <2>4, <3>1, Statuses DEF Awake, ServiceStatus, ServiceTries
    <3>3. transmit_retries + 1 < CEC_XMIT_MAX_RETRANSMIT
      BY <2>1, <2>6, Sizes
    <3> QED BY <2>3, <2>4, <3>2, <3>3 DEF RetriesLeft, ServiceStep, Service!Next, Service!Retry
  <2> QED BY <2>5, <2>6
<1> QED BY <1>1, <1>2 DEF cec_transmit_on_error

LEMMA ReceiveAckMap ==
  ASSUME Awake, EngineOK, RetriesLeft, NEW ack, cec_transmit_receive_ack(ack)
  PROVE  RetriesLeft' /\ ServiceStep
<1>1. CASE cec_transmit_on_error(CEC_ERR_NACK)
  BY <1>1, OnErrorMap
<1>2. CASE transmit_state' = AckedState /\ UNCHANGED transmit_retries
  <2>1. CASE transmit_state = TRANSMIT_WAIT_FOR_ACK
    <3>1. transmit_state' = TRANSMIT_IDLE /\ transmit_retries \in Nat /\ transmit_retries' \in Nat
      BY <1>2, <2>1, Sizes DEF AckedState, EngineOK
    <3>2. ServiceStatus = "busy" /\ ServiceStatus' = "idle" /\ ServiceTries' = 0
      BY <2>1, <3>1, Statuses DEF Awake, ServiceStatus, ServiceTries
    <3>3. RetriesLeft'
      BY <3>1 DEF RetriesLeft, Unfinished
    <3> QED BY <3>2, <3>3 DEF ServiceStep, Service!Next, Service!Succeed
  <2>2. CASE transmit_state # TRANSMIT_WAIT_FOR_ACK
    BY <1>2, <2>2, MapUnchanged DEF AckedState, MapVars
  <2> QED BY <2>1, <2>2
<1> QED BY <1>1, <1>2 DEF cec_transmit_receive_ack

LEMMA ReceiveBitMap ==
  ASSUME Awake, EngineOK, RetriesLeft, NEW bit, cec_receive_bit(bit)
  PROVE  RetriesLeft' /\ ServiceStep
<1>1. CASE cec_transmit_on_error(CEC_ERR_ARB_LOST)
  BY <1>1, OnErrorMap
<1>2. CASE UNCHANGED transmitVars
  BY <1>2, MapUnchanged DEF transmitVars, MapVars
<1>3. CASE cec_transmit_receive_ack(Acked(bit))
  BY <1>3, ReceiveAckMap
<1> QED BY <1>1, <1>2, <1>3
        DEF cec_receive_bit, ReceiveDataBit, ReceiveEomBit, ReceiveAckBit, cec_check_tx_bit

LEMMA ReceiveErrorMap ==
  ASSUME Awake, EngineOK, RetriesLeft, NEW err, cec_receive_error(err)
  PROVE  RetriesLeft' /\ ServiceStep
<1>1. CASE cec_transmit_on_error(err)
  BY <1>1, OnErrorMap
<1>2. CASE UNCHANGED transmitVars
  BY <1>2, MapUnchanged DEF transmitVars, MapVars
<1> QED BY <1>1, <1>2 DEF cec_receive_error

LEMMA ReceiverMap ==
  ASSUME Awake, EngineOK, RetriesLeft, ReceiveSample \/ ReceiveFloat \/ ReceiveEdge
  PROVE  RetriesLeft' /\ ServiceStep
<1>1. CASE UNCHANGED txVars
  BY <1>1, MapUnchanged DEF txVars, MapVars
<1>2. CASE cec_receive_start
  BY <1>2, MapUnchanged DEF cec_receive_start, MapVars
<1>3. ASSUME NEW err, cec_receive_error(err)
      PROVE  RetriesLeft' /\ ServiceStep
  BY <1>3, ReceiveErrorMap
<1>4. CASE cec_receive_bit(LineHigh)
  BY <1>4, ReceiveBitMap
<1>5. CASE ReceiveSample
  BY <1>1, <1>3, <1>4, <1>5 DEF ReceiveSample, TakeSample, MissSample, NoSample, ReceiveError
<1>6. CASE ReceiveFloat
  BY <1>1, <1>6 DEF ReceiveFloat
<1>7. CASE ReceiveEdge
  BY <1>1, <1>2, <1>3, <1>7
     DEF ReceiveEdge, NoEdge, RisingEdge, FallingEdge, EarlyEdge, BitBegins, ReceiveError
<1> QED BY <1>5, <1>6, <1>7

(* The next frame is loaded: the engine stays busy.                        *)
LEMMA XmitMap ==
  ASSUME Awake, EngineOK, PwmInStep, RetriesLeft, xmit_pwm_periodic
  PROVE  RetriesLeft' /\ ServiceStep
<1>1. CASE LoseTrack
  BY <1>1, OnErrorMap DEF LoseTrack
<1>2. CASE EndLow \/ EndClock
  BY <1>2, MapUnchanged DEF EndLow, EndClock, transmitUnchanged, MapVars
<1>3. ASSUME NEW bit \in BOOLEAN, LoadFrame(bit)
      PROVE  RetriesLeft' /\ ServiceStep
  <2>1. transmit_state \in {TRANSMIT_BIT_EOM, TRANSMIT_ACK} /\ transmit_retries \in Nat
    BY <1>3, Sizes DEF LoadFrame, PwmInStep, EngineOK
  <2>2. /\ transmit_state' \in {TRANSMIT_BIT_EOM, TRANSMIT_ACK, TRANSMIT_WAIT_FOR_ACK}
        /\ transmit_retries' = transmit_retries
    BY <1>3, <2>1 DEF LoadFrame, cec_transmit_get_bit, GetDataBit, GetEomBit, GetAckBit
  <2>3. UNCHANGED <<ServiceStatus, ServiceTries>>
    BY <2>1, <2>2, Statuses DEF Awake, ServiceStatus, ServiceTries
  <2>4. RetriesLeft'
    BY <2>1, <2>2 DEF RetriesLeft, Unfinished
  <2> QED BY <2>3, <2>4 DEF ServiceStep
<1>4. CASE UNCHANGED <<txVars, timerVars>>
  BY <1>4, MapUnchanged DEF txVars, MapVars
<1> QED BY <1>1, <1>2, <1>3, <1>4 DEF xmit_pwm_periodic

LEMMA StartMap ==
  ASSUME Awake, EngineOK, RetriesLeft, cec_transmit_periodic
  PROVE  RetriesLeft' /\ ServiceStep
<1>1. CASE MayStart /\ xmit_start
  <2>1. /\ transmit_state \in {TRANSMIT_PEND, TRANSMIT_AGAIN}
        /\ transmit_state' = TRANSMIT_BIT_EOM
        /\ transmit_retries' = IF transmit_state = TRANSMIT_PEND THEN 0 ELSE transmit_retries
        /\ transmit_retries \in Nat
    BY <1>1, Sizes DEF MayStart, Pending, xmit_start, cec_transmit_start, FreshMessage, EngineOK
  <2>2. transmit_retries' \in Nat /\ transmit_retries' < CEC_XMIT_MAX_RETRANSMIT
    BY <2>1, Sizes DEF RetriesLeft, Unfinished
  <2>3. ServiceStatus' = "busy" /\ ServiceTries' = transmit_retries' + 1
    BY <2>1, <2>2, Statuses DEF Awake, ServiceStatus, ServiceTries
  <2>4. ServiceStatus \in {"pend", "again"} /\ ServiceTries = transmit_retries'
    BY <2>1, Statuses DEF Awake, ServiceStatus, ServiceTries
  <2> QED BY <2>2, <2>3, <2>4 DEF RetriesLeft, ServiceStep, Service!Next, Service!Begin
<1>2. CASE UNCHANGED txVars
  BY <1>2, MapUnchanged DEF txVars, MapVars
<1> QED BY <1>1, <1>2 DEF cec_transmit_periodic

(* Queueing, by the application or by the address search.                  *)
LEMMA QueueMap ==
  ASSUME Awake, EngineOK, transmit_state \in {TRANSMIT_IDLE, TRANSMIT_FAILED},
         transmit_state' = TRANSMIT_PEND, UNCHANGED transmit_retries
  PROVE  RetriesLeft' /\ ServiceStep
<1>1. transmit_retries \in Nat
  BY Sizes DEF EngineOK
<1>2. ServiceStatus \in {"idle", "failed"} /\ ServiceStatus' = "pend" /\ ServiceTries' = 0
  BY <1>1, Statuses DEF Awake, ServiceStatus, ServiceTries
<1>3. RetriesLeft'
  BY DEF RetriesLeft, Unfinished
<1> QED BY <1>2, <1>3 DEF ServiceStep, Service!Next, Service!Queue

LEMMA AddrMap ==
  ASSUME Awake, EngineOK, RetriesLeft, AddrPeriodic
  PROVE  RetriesLeft' /\ ServiceStep
<1>1. CASE AddrPing
  BY <1>1, QueueMap DEF AddrPing
<1>2. CASE UNCHANGED transmitVars
  BY <1>2, MapUnchanged DEF transmitVars, MapVars
<1> QED BY <1>1, <1>2
        DEF AddrPeriodic, cec_addr_periodic, AddrIdle, AddrGiveUp, AddrClaim, AddrWait

LEMMA HaltMap ==
  ASSUME EngineOK, EngineOK', cec_halt
  PROVE  RetriesLeft' /\ ServiceStep
<1>1. transmit_state' = TRANSMIT_IDLE /\ transmit_retries' \in Nat
  BY Sizes DEF cec_halt, EngineOK
<1>2. ServiceStatus' = "off" /\ ServiceTries' = 0
  BY <1>1, Statuses DEF cec_halt, ServiceStatus, ServiceTries
<1>3. ServiceStatus # "off"
  BY DEF cec_halt, AppTurn, ServiceStatus, StatusOf
<1>4. RetriesLeft'
  BY <1>1 DEF RetriesLeft, Unfinished
<1> QED BY <1>2, <1>3, <1>4 DEF ServiceStep, Service!Next, Service!Halt

LEMMA RestartMap ==
  ASSUME EngineOK, HaltedIsQuiet, cec_init
  PROVE  RetriesLeft' /\ ServiceStep
<1>1. /\ mode = "halted" /\ mode' # "halted"
      /\ transmit_state = TRANSMIT_IDLE /\ transmit_state' = TRANSMIT_IDLE
      /\ transmit_retries \in Nat /\ transmit_retries' \in Nat
  BY Sizes DEF cec_init, AddrInitTransmitState, HaltedIsQuiet, EngineOK
<1>2. ServiceStatus = "off" /\ ServiceStatus' = "idle"
  BY <1>1, Statuses DEF ServiceStatus
<1>3. ServiceTries = 0 /\ ServiceTries' = 0
  BY <1>1, Statuses DEF ServiceTries
<1>4. RetriesLeft'
  BY <1>1 DEF RetriesLeft, Unfinished
<1> QED BY <1>2, <1>3, <1>4 DEF ServiceStep, Service!Next, Service!Restart

LEMMA ServiceInit == Init => RetriesLeft /\ Service!Init
<1> SUFFICES ASSUME Init PROVE RetriesLeft /\ Service!Init
  OBVIOUS
<1>1. transmit_state = TRANSMIT_IDLE /\ transmit_retries = 0 /\ mode # "halted"
  BY DEF Init, TransmitInit
<1>2. ServiceStatus = "idle" /\ ServiceTries = 0
  BY <1>1, Statuses DEF ServiceStatus, ServiceTries
<1> QED BY <1>1, <1>2 DEF RetriesLeft, Unfinished, Service!Init

LEMMA PeriodicAwake ==
  ASSUME HaltedIsQuiet, cec_periodic
  PROVE  Awake
  BY DEF HaltedIsQuiet, Awake, cec_periodic, ReceiveSample, ReceiveFloat, ReceiveEdge,
         xmit_pwm_periodic, cec_transmit_periodic, AddrPeriodic

LEMMA ServiceNext ==
  ASSUME PwmInv, PwmInv', RetriesLeft, [Next]_vars
  PROVE  RetriesLeft' /\ ServiceStep
<1>0. EngineOK /\ PwmInStep /\ HaltedIsQuiet /\ EngineOK'
  BY Parts DEF PwmInv, PwmParts, PwmTypeOK, EngineOK, DriverState
<1>1. CASE cec_periodic
  BY <1>0, <1>1, PeriodicAwake, ReceiverMap, XmitMap, StartMap, AddrMap DEF cec_periodic
<1>2. CASE \E m \in Messages : AppSend(m)
  <2>1. Awake
    BY <1>2 DEF AppSend, AppTurn, Awake
  <2>2. transmit_state \in {TRANSMIT_IDLE, TRANSMIT_FAILED}
    BY <1>0, <1>2 DEF AppSend, EngineOK, TransmitState
  <2> QED BY <1>0, <1>2, <2>1, <2>2, QueueMap DEF AppSend
<1>3. CASE AppClearHeader
  <2>1. Awake
    BY <1>3 DEF AppClearHeader, AppTurn, Awake
  <2> QED BY <1>3, <2>1, MapUnchanged DEF AppClearHeader, txVars, MapVars
<1>4. CASE cec_halt
  BY <1>0, <1>4, HaltMap
<1>5. CASE cec_init
  BY <1>0, <1>5, RestartMap
<1>6. CASE Tick \/ UNCHANGED vars
  BY <1>6 DEF Tick, vars, txVars, RetriesLeft, ServiceStep, ServiceStatus, ServiceTries
<1> QED BY <1>1, <1>2, <1>3, <1>4, <1>5, <1>6 DEF Next, Application

(* Over the PWM drivers, too, a queued message is transmitted at most      *)
(* CEC_XMIT_MAX_RETRANSMIT times, fails only when all of them did, and the *)
(* interface is reported free only then, after an ack, or by cec_halt().   *)
THEOREM PwmServiceCorrect ==
  ASSUME HaltPolicy # "anytime"
  PROVE  Spec => ImplementsService
<1>1. Init => PwmInv /\ RetriesLeft /\ Service!Init
  BY InitTyped, Parts, InStepInit, ServiceInit DEF PwmInv
<1>2. PwmInv /\ [Next]_vars => PwmInv'
  BY InStepNext
<1>3. /\ PwmInv /\ RetriesLeft /\ [Next]_vars /\ PwmInv'
      => RetriesLeft' /\ [Service!Next]_<<ServiceStatus, ServiceTries>>
  BY ServiceNext DEF ServiceStep
<1> QED BY <1>1, <1>2, <1>3, PTL DEF Spec, ImplementsService, Service!Spec
-----------------------------------------------------------------------------
(***************************************************************************)
(* The frames on the line.  The code loads a duty cycle while the frame    *)
(* before is on the line, and learns from TOV1 that it has begun.  Called  *)
(* twice a frame it sees every overflow before the next one; what can      *)
(* still go wrong is a flag that is older than the message (NoFlagLeft).   *)
(***************************************************************************)
CallsInTime ==
  2 * MaxLatency <= CEC_DATA_PERIOD /\ 2 * MaxLatency <= CEC_START_PERIOD

Tx == INSTANCE CecTransmitProofs
        WITH usi_xmit_state <- xmit_state, needed_idle_frames <- needed_idle_time,
             IDLE_FRAMES_MAX <- TIMER_RANGE - 1

LEMMA TxAssumptions == Tx!SizeAssumption /\ Tx!WaitAssumption
<1>1. Tx!SizeAssumption
  BY PwmAssumption DEF Tx!SizeAssumption, UCHAR, Tx!UCHAR
<1>2. Tx!WaitAssumption
  <2>1. TIMER_RANGE - 1 \in Nat /\ 1..(TIMER_RANGE - LOW_RANGE) \subseteq 1..(TIMER_RANGE - 1)
    BY PwmAssumption
  <2>2. {CEC_PRESENT_PERIOD_WAIT, CEC_NEW_PERIOD_WAIT, CEC_PREV_PERIOD_WAIT}
          \subseteq 1..(TIMER_RANGE - LOW_RANGE)
    BY TimingAssumption
  <2> QED BY <2>1, <2>2 DEF Tx!WaitAssumption
<1> QED BY <1>1, <1>2

LEMMA SameFrames ==
  /\ Tx!FRAME = FRAME
  /\ Tx!MessageFrames = FRAME * (transmit_buf_end + 1)
  /\ \A k : Tx!FrameBit(k) = FrameBit(k)
<1>1. Tx!BITS = BITS
  BY DEF BITS, Tx!BITS
<1>2. Tx!FRAME = FRAME
  BY <1>1 DEF FRAME, Tx!FRAME
<1>3. ASSUME NEW k
      PROVE  Tx!FrameBit(k) = FrameBit(k)
  BY <1>1, <1>2, Zenon
     DEF FrameBit, FrameByte, FrameOffset, Tx!FrameBit, Tx!FrameByte, Tx!FrameOffset
<1> QED BY <1>2, <1>3 DEF Tx!MessageFrames

LEMMA SameGetBit ==
  ASSUME NEW bit, cec_transmit_get_bit(bit)
  PROVE  Tx!cec_transmit_get_bit(bit)
<1>1. Tx!BITS = BITS /\ Tx!UCHAR = UCHAR
  BY DEF BITS, Tx!BITS, UCHAR, Tx!UCHAR
<1> QED BY <1>1, Zenon
        DEF cec_transmit_get_bit, GetDataBit, GetEomBit, GetAckBit, DataBits, EomBit, IsLast,
            Tx!cec_transmit_get_bit, Tx!GetDataBit, Tx!GetEomBit, Tx!GetAckBit, Tx!DataBits,
            Tx!EomBit, Tx!IsLast, Tx!TRANSMIT_BIT_EOM, Tx!TRANSMIT_ACK,
            Tx!TRANSMIT_WAIT_FOR_ACK

LEMMA BitHandedOut ==
  ASSUME NEW n \in Nat, Tx!Place(n), Tx!InMessage,
         transmit_state \in {TRANSMIT_BIT_EOM, TRANSMIT_ACK},
         NEW bit \in BOOLEAN, cec_transmit_get_bit(bit)
  PROVE  Tx!Handed(n + 1, bit)
<1>1. transmit_state \in {Tx!TRANSMIT_BIT_EOM, Tx!TRANSMIT_ACK}
  BY DEF Tx!TRANSMIT_BIT_EOM, Tx!TRANSMIT_ACK
<1> QED BY <1>1, TxAssumptions, SameGetBit, Tx!GetBitPlace

-----------------------------------------------------------------------------
(* The frames of the message in the buffer, all bytes together, and the    *)
(* number of the frame that is loaded: it follows the one on the line, or  *)
(* is on the line already without the code knowing.                        *)
Length == FRAME * (transmit_buf_end + 1)

Due == IF TOV1 THEN aired - 1 ELSE aired

Sending == transmit_state \in {TRANSMIT_BIT_EOM, TRANSMIT_ACK}

(* Every overflow is seen before the next one.                             *)
OverflowSeen ==
  /\ phase \in {"addr", "app"} => delta = 0
  /\ clock /\ TOV1 => phase \notin {"start", "addr"} /\ TCNT1 <= delta + elapsed

BufferOK ==
  /\ transmit_buf_end \in 0..(CEC_BUFFER_SIZE - 1)
  /\ Sending => Tx!InMessage

LoadedStart ==
  Due = 0 /\ Tx!Place(0) /\ OCR1B_next = CEC_START_TICKS /\ OCR1C = CEC_START_PERIOD

LoadedBit ==
  /\ Due \in 1..Length /\ Tx!Place(Due) /\ OCR1B_next = Ticks(FrameBit(Due))
  /\ OCR1C \in {CEC_START_PERIOD, CEC_DATA_PERIOD}

LoadedAck ==
  /\ Due > 0 /\ OCR1B_next = CEC_1_TICKS /\ OCR1C = CEC_DATA_PERIOD
  /\ Transmitting => Due = Length /\ FrameBit(Due) = TRUE

LoadedNothing ==
  /\ Due > 0 /\ OCR1B_next = 0 /\ OCR1C = CEC_DATA_PERIOD
  /\ Transmitting => Due = Length + 1

Loaded ==
  /\ xmit_state = XMIT_START   => LoadedStart
  /\ xmit_state = XMIT_RUNNING => LoadedBit
  /\ xmit_state = XMIT_END1    => LoadedAck
  /\ xmit_state = XMIT_END2    => LoadedNothing

(* The frame on the line has a low part and a period of the same kind once *)
(* the code has seen it begin.                                             *)
Paired ==
  \/ xmit_state = XMIT_START /\ aired = 0
  \/ TOV1 /\ OCR1B = OCR1B_next
  \/ ~TOV1 /\ OCR1B = CEC_START_TICKS /\ OCR1C = CEC_START_PERIOD
  \/ ~TOV1 /\ OCR1B \in {CEC_0_TICKS, CEC_1_TICKS} /\ OCR1C = CEC_DATA_PERIOD

FramesOK == BufferOK /\ (clock => pwm /\ Loaded /\ Paired)

HaltedIsOff == mode = "halted" => ~clock

FrameInv == PwmInv /\ HaltedIsOff /\ OverflowSeen /\ FramesOK

LEMMA LengthBounds ==
  ASSUME transmit_buf_end \in 0..(CEC_BUFFER_SIZE - 1)
  PROVE  /\ Length \in Nat /\ Length >= 4 /\ Length + 2 <= AiredMax
         /\ AiredMax \in Nat
<1> DEFINE e == transmit_buf_end
           b == CEC_BUFFER_SIZE
<1>1. FRAME \in Nat /\ FRAME >= 4
  BY Sizes DEF FRAME
<1>2. e \in Nat /\ b \in Nat /\ e + 1 <= b
  BY PwmAssumption
<1>3. Length \in Nat /\ FRAME * e \in Nat /\ Length = FRAME * e + FRAME
  BY <1>1, <1>2 DEF Length
<1>4. FRAME * e + FRAME <= FRAME * b /\ FRAME * b \in Nat
  <2>1. FRAME * b = FRAME * e + FRAME + FRAME * (b - e - 1)
    BY <1>1, <1>2
  <2>2. FRAME * (b - e - 1) \in Nat
    <3>1. b - e - 1 \in Nat
      BY <1>2
    <3> QED BY <1>1, <3>1
  <2> QED BY <1>3, <2>1, <2>2, <1>1
<1> QED BY <1>1, <1>3, <1>4 DEF AiredMax

-----------------------------------------------------------------------------
(* The receive side changes nothing of a frame, unless it ends the message.*)
MessageVars ==
  <<transmit_buf, transmit_buf_end, transmit_buf_bit, transmit_buf_pos>>

FrameVars ==
  <<MessageVars, xmit_state, OCR1B, OCR1B_next, OCR1C, TOV1, aired>>

MessageKept ==
  /\ UNCHANGED MessageVars
  /\ \/ UNCHANGED <<transmit_state, xmit_state>>
     \/ transmit_state' = TRANSMIT_IDLE /\ UNCHANGED xmit_state
     \/ Aborted

LEMMA FramesKept ==
  ASSUME FramesOK, UNCHANGED MessageVars,
         transmit_state' = transmit_state \/ ~Transmitting',
         clock' => clock /\ (pwm => pwm') /\ UNCHANGED FrameVars
  PROVE  FramesOK'
<1>1. BufferOK'
  BY DEF FramesOK, BufferOK, Sending, Transmitting, MessageVars, Tx!InMessage, Tx!BITS
<1>2. ASSUME clock'
      PROVE  pwm' /\ Loaded' /\ Paired'
  <2>1. pwm' /\ Loaded /\ Paired /\ UNCHANGED FrameVars
    BY <1>2 DEF FramesOK
  <2>2. /\ Due' = Due /\ Length' = Length
        /\ FrameBit(Due)' = FrameBit(Due)
        /\ Transmitting' => Transmitting
    <3>1. Due' = Due
      BY <2>1 DEF FrameVars, Due
    <3>2. FrameBit(Due)' = FrameBit(Due)
      BY <3>1, Zenon DEF MessageVars, FrameBit, FrameByte, FrameOffset
    <3> QED BY <3>1, <3>2 DEF MessageVars, Length, Transmitting
  <2>3. \A n : Tx!Place(n) => Tx!Place(n)'
    BY DEF MessageVars, Transmitting, Tx!Place, Tx!TRANSMIT_BIT_EOM, Tx!TRANSMIT_ACK
  <2>4. Loaded'
    <3>1. xmit_state' = XMIT_START => LoadedStart'
      BY <2>1, <2>2, <2>3 DEF Loaded, LoadedStart, FrameVars
    <3>2. xmit_state' = XMIT_RUNNING => LoadedBit'
      BY <2>1, <2>2, <2>3 DEF Loaded, LoadedBit, FrameVars
    <3>3. xmit_state' = XMIT_END1 => LoadedAck'
      BY <2>1, <2>2 DEF Loaded, LoadedAck, FrameVars
    <3>4. xmit_state' = XMIT_END2 => LoadedNothing'
      BY <2>1, <2>2 DEF Loaded, LoadedNothing, FrameVars
    <3> QED BY <3>1, <3>2, <3>3, <3>4 DEF Loaded
  <2>5. pwm' /\ Paired'
    BY <2>1 DEF Paired, FrameVars
  <2> QED BY <2>4, <2>5
<1> QED BY <1>1, <1>2 DEF FramesOK

LEMMA OnErrorKeeps ==
  ASSUME NEW err, cec_transmit_on_error(err)
  PROVE  MessageKept
  BY DEF cec_transmit_on_error, AbortEffects, AbortedState, Aborted, MessageKept, MessageVars,
         transmitVars

LEMMA ReceiveBitKeeps ==
  ASSUME NEW bit, cec_receive_bit(bit)
  PROVE  MessageKept
<1>1. CASE cec_check_tx_bit(bit)
  BY <1>1, OnErrorKeeps DEF cec_check_tx_bit, MessageKept, MessageVars, transmitVars
<1>2. CASE cec_transmit_receive_ack(Acked(bit))
  BY <1>2, OnErrorKeeps DEF cec_transmit_receive_ack, AckedState, MessageKept, MessageVars
<1> QED BY <1>1, <1>2 DEF cec_receive_bit, ReceiveDataBit, ReceiveEomBit, ReceiveAckBit

LEMMA ReceiveErrorKeeps ==
  ASSUME NEW err, cec_receive_error(err)
  PROVE  MessageKept
  BY OnErrorKeeps DEF cec_receive_error, MessageKept, MessageVars, transmitVars

LEMMA ReceiverKeeps ==
  ASSUME ReceiveSample \/ ReceiveFloat \/ ReceiveEdge
  PROVE  MessageKept
<1>1. ASSUME UNCHANGED txVars
      PROVE  MessageKept
  BY <1>1 DEF txVars, MessageKept, MessageVars
<1>2. CASE cec_receive_start
  BY <1>2 DEF cec_receive_start, MessageKept, MessageVars
<1>3. CASE ReceiveSample
  BY <1>1, <1>3, ReceiveBitKeeps, ReceiveErrorKeeps
     DEF ReceiveSample, TakeSample, MissSample, NoSample, ReceiveError
<1>4. CASE ReceiveEdge
  BY <1>1, <1>2, <1>4, ReceiveErrorKeeps
     DEF ReceiveEdge, NoEdge, RisingEdge, FallingEdge, EarlyEdge, BitBegins, ReceiveError
<1> QED BY <1>1, <1>3, <1>4 DEF ReceiveFloat

LEMMA ReceiverFrames ==
  ASSUME FramesOK, ReceiveSample \/ ReceiveFloat \/ ReceiveEdge
  PROVE  FramesOK'
<1>1. MessageKept
  BY ReceiverKeeps
<1>2. UNCHANGED <<OCR1B, OCR1B_next, OCR1C, TOV1, aired>>
  BY DEF ReceiveSample, ReceiveFloat, ReceiveEdge, AbortTimer, timerVars
<1>3. \/ clock' => clock /\ ~Aborted /\ (pwm => pwm')
      \/ UNCHANGED <<txVars, timerVars>>
  <2>1. ASSUME AbortTimer
        PROVE  clock' => clock /\ ~Aborted /\ (pwm => pwm')
    BY <2>1, Zenon DEF AbortTimer
  <2> QED BY <2>1 DEF ReceiveSample, ReceiveFloat, ReceiveEdge
<1>4. clock' => clock /\ (pwm => pwm') /\ UNCHANGED FrameVars
  BY <1>1, <1>2, <1>3 DEF FrameVars, MessageKept, MessageVars, timerVars, txVars
<1>5. UNCHANGED MessageVars
      /\ (transmit_state' = transmit_state \/ ~Transmitting')
  BY <1>1 DEF MessageKept, Aborted, Transmitting
<1> QED BY <1>4, <1>5, FramesKept

(* The next message goes into the buffer while a frame of the last one is  *)
(* still on the line.                                                      *)
LEMMA NextMessageFrames ==
  ASSUME FramesOK, PwmInStep,
         transmit_state \in {TRANSMIT_IDLE, TRANSMIT_FAILED}, transmit_state' = TRANSMIT_PEND,
         transmit_buf_end' \in 0..(CEC_BUFFER_SIZE - 1),
         UNCHANGED <<xmit_state, timerVars, aired>>
  PROVE  FramesOK'
<1>1. BufferOK'
  BY DEF BufferOK, Sending
<1>2. xmit_state' \notin {XMIT_START, XMIT_RUNNING} /\ ~Transmitting'
  BY DEF PwmInStep, Transmitting
<1>3. ASSUME clock'
      PROVE  pwm' /\ Loaded' /\ Paired'
  <2>1. pwm /\ Loaded /\ Paired /\ Due' = Due
    BY <1>3 DEF FramesOK, timerVars, Due
  <2>2. Loaded'
    BY <1>2, <2>1 DEF Loaded, LoadedAck, LoadedNothing, timerVars
  <2>3. pwm' /\ Paired'
    BY <2>1 DEF Paired, timerVars
  <2> QED BY <2>2, <2>3
<1> QED BY <1>1, <1>3 DEF FramesOK

LEMMA ApplicationFrames ==
  ASSUME HaltPolicy # "anytime", PwmInv, HaltedIsOff, FramesOK, Application
  PROVE  FramesOK'
<1>0. PwmInStep /\ HaltedIsQuiet /\ EngineOK /\ EngineOK'
  BY Parts, NextTyped DEF PwmInv, PwmParts, Next, PwmTypeOK, EngineOK, DriverState
<1>1. ASSUME NEW m \in Messages, AppSend(m)
      PROVE  FramesOK'
  <2>1. /\ transmit_state \in {TRANSMIT_IDLE, TRANSMIT_FAILED}
        /\ transmit_state' = TRANSMIT_PEND /\ transmit_buf_end' = Len(m.body)
        /\ UNCHANGED <<xmit_state, timerVars, aired>>
    BY <1>0, <1>1 DEF AppSend, EngineOK, TransmitState, driverUnchanged
  <2>2. transmit_buf_end' \in 0..(CEC_BUFFER_SIZE - 1)
    BY <2>1, PwmAssumption
  <2> QED BY <1>0, <2>1, <2>2, NextMessageFrames
<1>2. CASE AppClearHeader
  BY <1>2, FramesKept
     DEF AppClearHeader, driverUnchanged, txVars, timerVars, FrameVars, MessageVars
<1>3. CASE cec_halt
  <2>1. xmit_state = XMIT_IDLE /\ cec_receive_flags = {}
    BY <1>3, TimingAssumption DEF cec_halt, HaltAllowed
  <2>2. ~clock /\ ~HaltAborts
    BY <1>0, <2>1 DEF PwmInStep, HaltAborts
  <2>3. ~clock'
    BY <1>3, <2>2, Zenon DEF cec_halt
  <2>4. UNCHANGED MessageVars /\ ~Transmitting'
    BY <1>3, <2>2 DEF cec_halt, HaltAbort, MessageVars, Transmitting
  <2> QED BY <2>3, <2>4, FramesKept
<1>4. CASE cec_init
  <2>1. ~clock' /\ transmit_state' = transmit_state /\ UNCHANGED MessageVars
    BY <1>0, <1>4
       DEF cec_init, HaltedIsQuiet, HaltedIsOff, AddrInitTransmitState, MessageVars
  <2> QED BY <2>1, FramesKept
<1> QED BY <1>1, <1>2, <1>3, <1>4 DEF Application

LEMMA AddrFrames ==
  ASSUME PwmInStep, FramesOK, AddrPeriodic
  PROVE  FramesOK'
<1>1. UNCHANGED <<xmit_state, timerVars, aired>>
  BY DEF AddrPeriodic, cec_addr_periodic, AddrIdle, AddrPing, AddrGiveUp, AddrClaim, AddrWait,
         transmitVars
<1>2. CASE AddrPing
  <2>1. transmit_buf_end' \in 0..(CEC_BUFFER_SIZE - 1)
    BY <1>2, PwmAssumption DEF AddrPing
  <2> QED BY <1>1, <1>2, <2>1, NextMessageFrames DEF AddrPing
<1>3. CASE UNCHANGED transmitVars
  BY <1>1, <1>3, FramesKept DEF transmitVars, timerVars, FrameVars, MessageVars
<1> QED BY <1>2, <1>3
        DEF AddrPeriodic, cec_addr_periodic, AddrIdle, AddrGiveUp, AddrClaim, AddrWait

-----------------------------------------------------------------------------
(* cec_transmit_start() and the first frames.  This is where a flag that   *)
(* is left from another message would be taken for the start frame's.      *)
LEMMA StartFrames ==
  ASSUME PwmTypeOK, PwmInStep, NoFlagLeft, FramesOK, cec_transmit_periodic
  PROVE  FramesOK'
<1>1. CASE UNCHANGED <<txVars, timerVars, aired>>
  BY <1>1, FramesKept DEF txVars, timerVars, FrameVars, MessageVars
<1>2. CASE xmit_start /\ MayStart
  <2>1. /\ xmit_state' = XMIT_START /\ transmit_state' = TRANSMIT_BIT_EOM
        /\ UNCHANGED transmit_buf_end /\ transmit_buf_pos' = 0 /\ transmit_buf_bit' = BITS
        /\ OCR1B_next' = CEC_START_TICKS /\ OCR1C' = CEC_START_PERIOD /\ pwm' /\ aired' = 0
    BY <1>2 DEF xmit_start, cec_transmit_start
  <2>2. ~TOV1'
    BY <1>2 DEF xmit_start, MayStart, NoFlagLeft, PwmInStep
  <2>3. Tx!Place(0)' /\ Tx!InMessage'
    <3>1. 0 = Tx!FRAME * 0 + (Tx!BITS - Tx!BITS) /\ Tx!BITS = BITS /\ BITS \in Nat
      BY SameFrames, Sizes DEF Tx!BITS, BITS, FRAME
    <3>2. 0 \in 0..transmit_buf_end /\ BITS \in 0..BITS
      BY <3>1, PwmAssumption DEF FramesOK, BufferOK
    <3> QED BY <2>1, <3>1, <3>2
            DEF Tx!Place, Tx!InMessage, Tx!TRANSMIT_BIT_EOM, Tx!TRANSMIT_ACK, FramesOK, BufferOK
  <2>4. BufferOK'
    BY <2>1, <2>3 DEF BufferOK, FramesOK
  <2>5. Loaded' /\ Paired'
    BY <2>1, <2>2, <2>3 DEF Loaded, LoadedStart, Due, Paired
  <2> QED BY <2>1, <2>4, <2>5 DEF FramesOK
<1> QED BY <1>1, <1>2 DEF cec_transmit_periodic

(* An overflow that the code has not seen yet, in a message.               *)
LEMMA Begun ==
  ASSUME PwmTypeOK, PwmInStep, FramesOK, FrameDone
  PROVE  /\ clock /\ pwm /\ Loaded /\ OCR1B = OCR1B_next
         /\ Due = aired - 1 /\ aired \in Nat /\ Due \in Int
<1>1. clock /\ TOV1
  BY DEF FrameDone, PwmInStep
<1>2. pwm /\ Loaded /\ Paired
  BY <1>1 DEF FramesOK
<1>3. Due = aired - 1 /\ aired \in Nat /\ Due \in Int
  BY <1>1, AiredMaxTyped DEF Due, PwmTypeOK
<1>4. ~(xmit_state = XMIT_START /\ aired = 0)
  BY <1>2, <1>3 DEF Loaded, LoadedStart
<1> QED BY <1>1, <1>2, <1>3, <1>4 DEF Paired

(* The bit that is loaded is that of the frame after the one on the line.  *)
LEMMA LoadFrames ==
  ASSUME PwmTypeOK, PwmInStep, FramesOK, FrameDone, TOV1' = FALSE, UNCHANGED aired,
         NEW bit \in BOOLEAN, LoadFrame(bit)
  PROVE  FramesOK'
<1>0. clock /\ pwm /\ Loaded /\ OCR1B = OCR1B_next /\ Due = aired - 1 /\ aired \in Nat
  BY Begun
<1>1. /\ transmit_buf_end \in 0..(CEC_BUFFER_SIZE - 1)
      /\ transmit_state \in {TRANSMIT_BIT_EOM, TRANSMIT_ACK} /\ Tx!InMessage
  BY DEF FramesOK, BufferOK, Sending, LoadFrame, PwmInStep
<1>2. Length \in Nat /\ Length >= 4 /\ Tx!MessageFrames = Length
  BY <1>1, LengthBounds, SameFrames DEF Length
<1>3. Tx!Place(Due) /\ Due \in Nat
  BY <1>0, <1>2 DEF LoadFrame, Loaded, LoadedStart, LoadedBit
<1>4. Tx!Handed(Due + 1, bit)
  BY <1>1, <1>3, BitHandedOut DEF LoadFrame
<1>5. /\ Tx!Place(aired)' /\ Tx!InMessage'
      /\ aired \in 1..Length /\ bit = FrameBit(aired)
      /\ transmit_state' = TRANSMIT_WAIT_FOR_ACK <=> aired = Length
      /\ aired = Length => bit = TRUE
  <2>1. Due + 1 = aired /\ aired >= 1
    BY <1>0, <1>3
  <2>2. Tx!Handed(aired, bit) /\ UNCHANGED aired
    BY <1>4, <2>1
  <2> QED BY <1>0, <1>2, <2>1, <2>2, SameFrames DEF Tx!Handed, Tx!TRANSMIT_WAIT_FOR_ACK
<1>6. UNCHANGED <<transmit_buf, transmit_buf_end>> /\ Length' = Length
      /\ FrameBit(aired)' = FrameBit(aired)
  <2>1. UNCHANGED <<transmit_buf, transmit_buf_end, aired>>
    BY DEF LoadFrame, cec_transmit_get_bit
  <2> QED BY <2>1, Zenon DEF Length, FrameBit, FrameByte, FrameOffset
<1>7. BufferOK'
  BY <1>1, <1>5, <1>6 DEF BufferOK
<1>8. Due' = aired
  BY DEF Due
<1>9. OCR1B_next' = Ticks(bit) /\ OCR1C' \in {CEC_START_PERIOD, CEC_DATA_PERIOD}
      /\ (xmit_state = XMIT_RUNNING => OCR1C' = CEC_DATA_PERIOD)
      /\ UNCHANGED <<OCR1B, clock, pwm>>
  BY <1>0 DEF LoadFrame, Loaded, LoadedStart, LoadedBit
<1>10. Loaded'
  <2>1. CASE aired = Length
    <3>1. xmit_state' = XMIT_END1 /\ xmit_state = XMIT_RUNNING
      BY <1>0, <1>2, <1>5, <2>1 DEF LoadFrame, Loaded, LoadedStart
    <3>2. LoadedAck'
      BY <1>2, <1>5, <1>6, <1>8, <1>9, <2>1, <3>1 DEF LoadedAck, Ticks
    <3> QED BY <3>1, <3>2 DEF Loaded
  <2>2. CASE aired # Length
    <3>1. xmit_state' = XMIT_RUNNING
      BY <1>5, <2>2 DEF LoadFrame
    <3>2. LoadedBit'
      BY <1>5, <1>6, <1>8, <1>9 DEF LoadedBit
    <3> QED BY <3>1, <3>2 DEF Loaded
  <2> QED BY <2>1, <2>2
<1>11. Paired'
  <2>1. CASE xmit_state = XMIT_START
    BY <1>0, <1>9, <2>1 DEF Loaded, LoadedStart, LoadFrame, Paired
  <2>2. CASE xmit_state = XMIT_RUNNING
    BY <1>0, <1>9, <2>2 DEF Loaded, LoadedBit, Ticks, Paired
  <2> QED BY <2>1, <2>2 DEF LoadFrame
<1> QED BY <1>0, <1>7, <1>9, <1>10, <1>11 DEF FramesOK

LEMMA XmitFrames ==
  ASSUME PwmTypeOK, PwmInStep, FramesOK, xmit_pwm_periodic
  PROVE  FramesOK'
<1>0. UNCHANGED aired
  BY DEF xmit_pwm_periodic
<1>1. CASE ~FrameDone /\ UNCHANGED <<txVars, timerVars>>
  BY <1>0, <1>1, FramesKept DEF txVars, timerVars, FrameVars, MessageVars
<1>2. CASE FrameDone /\ TOV1' = FALSE /\ LoseTrack
  <2>1. MessageKept
    BY <1>2, OnErrorKeeps DEF LoseTrack
  <2>2. Transmitting
    BY <1>2 DEF LoseTrack, PwmInStep, Transmitting
  <2>3. Aborted
    <3>1. transmit_state' = AbortedState
      BY <1>2, <2>2 DEF LoseTrack, cec_transmit_on_error
    <3> QED BY <2>2, <3>1 DEF AbortedState, Aborted
  <2>4. ~clock'
    BY <1>2, <2>3, Zenon DEF LoseTrack, AbortTimer
  <2>5. UNCHANGED MessageVars /\ ~Transmitting'
    BY <2>1, <2>3 DEF MessageKept, Aborted, Transmitting
  <2> QED BY <2>4, <2>5, FramesKept
<1>3. CASE FrameDone /\ TOV1' = FALSE /\ EndLow
  <2>0. clock /\ pwm /\ Loaded /\ OCR1B = OCR1B_next /\ Due = aired - 1 /\ aired \in Nat
    BY <1>3, Begun
  <2>1. /\ Due > 0 /\ OCR1B_next = CEC_1_TICKS /\ OCR1C = CEC_DATA_PERIOD
        /\ Transmitting => Due = Length
    BY <1>3, <2>0 DEF EndLow, Loaded, LoadedAck
  <2>2. /\ UNCHANGED <<transmit_state, transmit_buf, transmit_buf_end, transmit_buf_bit,
                      transmit_buf_pos, OCR1B, OCR1C, clock, pwm>>
        /\ xmit_state' = XMIT_END2 /\ OCR1B_next' = 0
    BY <1>3 DEF EndLow, transmitUnchanged
  <2>3. Due' = aired /\ Length' = Length
    BY <1>0, <1>3, <2>2 DEF Due, Length
  <2>4. BufferOK'
    BY <1>3, <2>2 DEF FramesOK, BufferOK, Sending, EndLow, PwmInStep
  <2>5. Loaded'
    <3>1. Transmitting' => aired = Length + 1
      <4>1. Transmitting' => Transmitting
        BY <2>2 DEF Transmitting
      <4>2. Length \in Int
        BY LengthBounds DEF FramesOK, BufferOK
      <4> QED BY <2>0, <2>1, <4>1, <4>2
    <3> QED BY <2>0, <2>1, <2>2, <2>3, <3>1 DEF Loaded, LoadedNothing
  <2>6. Paired'
    BY <1>3, <2>0, <2>1, <2>2 DEF Paired
  <2> QED BY <2>0, <2>2, <2>4, <2>5, <2>6 DEF FramesOK
<1>4. CASE FrameDone /\ TOV1' = FALSE /\ EndClock
  <2>1. ~clock'
    BY <1>4 DEF EndClock
  <2>2. UNCHANGED MessageVars /\ transmit_state' = transmit_state
    BY <1>4 DEF EndClock, transmitUnchanged, MessageVars
  <2> QED BY <2>1, <2>2, FramesKept
<1>5. ASSUME FrameDone, TOV1' = FALSE, NEW bit \in BOOLEAN, LoadFrame(bit)
      PROVE  FramesOK'
  BY <1>0, <1>5, LoadFrames
<1> QED BY <1>1, <1>2, <1>3, <1>4, <1>5 DEF xmit_pwm_periodic

-----------------------------------------------------------------------------
(* Time passes.  Called in time, the code has seen the last overflow when  *)
(* the next one comes.                                                     *)
LEMMA OverflowIsNew ==
  ASSUME CallsInTime, PwmInv, HaltedIsOff, OverflowSeen, FramesOK, Tick, Overflow
  PROVE  /\ ~TOV1 /\ pwm /\ Loaded /\ Paired /\ Due = aired
         /\ xmit_state # XMIT_IDLE
         /\ Transmitting => aired' = aired + 1
<1>0. PwmTypeOK /\ PwmInStep
  BY DEF PwmInv
<1>1. clock /\ TCNT1 = Top
  BY DEF Overflow
<1>2. pwm /\ Loaded /\ Paired /\ xmit_state # XMIT_IDLE
  BY <1>0, <1>1 DEF FramesOK, PwmInStep
<1>3. OCR1C \in {CEC_START_PERIOD, CEC_DATA_PERIOD} /\ TCNT1 = OCR1C
  <2>1. xmit_state \in {XMIT_START, XMIT_RUNNING, XMIT_END1, XMIT_END2}
    BY <1>0, <1>2 DEF PwmTypeOK
  <2>2. OCR1C \in {CEC_START_PERIOD, CEC_DATA_PERIOD}
    BY <1>2, <2>1 DEF Loaded, LoadedStart, LoadedBit, LoadedAck, LoadedNothing
  <2> QED BY <1>1, <1>2, <2>2 DEF Top
<1>4. ~TOV1
  <2> SUFFICES ASSUME TOV1 PROVE FALSE
    OBVIOUS
  <2>1. TCNT1 <= delta + elapsed
    BY <1>1 DEF OverflowSeen
  <2>2. /\ delta \in Nat /\ delta <= MaxLatency /\ elapsed \in Nat /\ elapsed < MaxLatency
        /\ MaxLatency \in Nat
    BY <1>0, <1>1, PwmAssumption DEF Tick, HaltedIsOff, PwmTypeOK
  <2>3. TCNT1 \in Nat /\ 2 * MaxLatency <= TCNT1
    BY <1>0, <1>3, PwmAssumption DEF CallsInTime, PwmTypeOK
  <2> QED BY <2>1, <2>2, <2>3
<1>5. Due = aired
  BY <1>4 DEF Due
<1>6. Transmitting => aired' = aired + 1
  <2> SUFFICES ASSUME Transmitting PROVE aired < AiredMax
    BY DEF Overflow
  <2>1. Length \in Nat /\ Length >= 4 /\ Length + 2 <= AiredMax /\ AiredMax \in Nat
    BY LengthBounds DEF FramesOK, BufferOK
  <2>2. aired <= Length + 1
    BY <1>0, <1>2, <1>5, <2>1
       DEF PwmTypeOK, Loaded, LoadedStart, LoadedBit, LoadedAck, LoadedNothing
  <2>3. aired \in Nat
    BY <1>0, <2>1 DEF PwmTypeOK
  <2> QED BY <2>1, <2>2, <2>3
<1> QED BY <1>2, <1>4, <1>5, <1>6

LEMMA TickFrames ==
  ASSUME CallsInTime, PwmInv, HaltedIsOff, OverflowSeen, FramesOK, Tick
  PROVE  FramesOK'
<1>0. UNCHANGED <<txVars, OCR1B_next, OCR1C, clock, pwm>>
  BY DEF Tick, TimerTick
<1>1. CASE Count \/ TimerStopped
  BY <1>0, <1>1, FramesKept
     DEF Count, TimerStopped, txVars, FrameVars, MessageVars
<1>2. CASE Overflow
  <2>0. /\ ~TOV1 /\ pwm /\ Loaded /\ Due = aired
        /\ Transmitting => aired' = aired + 1
    BY <1>2, OverflowIsNew
  <2>1. TOV1' /\ OCR1B' = OCR1B_next
    BY <1>2 DEF Overflow
  <2>2. /\ Transmitting => Due' = Due
        /\ Due > 0 => Due' > 0
    <3>1. aired \in 0..AiredMax /\ AiredMax \in Nat /\ AiredMax > 1
      <4>1. FRAME * CEC_BUFFER_SIZE \in Nat
        BY Sizes, PwmAssumption
      <4> QED BY <4>1 DEF PwmInv, PwmTypeOK, AiredMax
    <3>2. aired' = IF aired < AiredMax THEN aired + 1 ELSE aired
      BY <1>2 DEF Overflow
    <3>3. Due' = aired' - 1
      BY <2>1 DEF Due
    <3> QED BY <2>0, <3>1, <3>2, <3>3
  <2>3. /\ UNCHANGED <<MessageVars, transmit_state, xmit_state, OCR1B_next, OCR1C, pwm>>
        /\ Length' = Length /\ (Transmitting' <=> Transmitting)
    BY <1>0 DEF Length, Transmitting, txVars, MessageVars
  <2>4. BufferOK'
    BY <2>3 DEF FramesOK, BufferOK, Sending, MessageVars, Tx!InMessage, Tx!BITS
  <2>5. Transmitting => FrameBit(Due)' = FrameBit(Due)
    BY <2>2, <2>3, Zenon DEF MessageVars, FrameBit, FrameByte, FrameOffset
  <2>6. \A n : Tx!Place(n)' <=> Tx!Place(n)
    BY <2>3 DEF MessageVars, Tx!Place
  <2>7. xmit_state \in {XMIT_START, XMIT_RUNNING} => Transmitting
    BY DEF PwmInv, PwmInStep, Transmitting
  <2>8. Loaded'
    <3>1. xmit_state' = XMIT_START => LoadedStart'
      BY <2>0, <2>2, <2>3, <2>6, <2>7 DEF Loaded, LoadedStart
    <3>2. xmit_state' = XMIT_RUNNING => LoadedBit'
      BY <2>0, <2>2, <2>3, <2>5, <2>6, <2>7 DEF Loaded, LoadedBit
    <3>3. xmit_state' = XMIT_END1 => LoadedAck'
      BY <2>0, <2>2, <2>3, <2>5 DEF Loaded, LoadedAck
    <3>4. xmit_state' = XMIT_END2 => LoadedNothing'
      BY <2>0, <2>2, <2>3 DEF Loaded, LoadedNothing
    <3> QED BY <3>1, <3>2, <3>3, <3>4 DEF Loaded
  <2>9. Paired'
    BY <2>1, <2>3 DEF Paired
  <2> QED BY <2>0, <2>3, <2>4, <2>8, <2>9 DEF FramesOK
<1> QED BY <1>1, <1>2 DEF Tick, TimerTick

(* The code sees an overflow in the same call, or in the next.             *)
LEMMA OverflowStaysSeen ==
  ASSUME CallsInTime, PwmInv, HaltedIsOff, OverflowSeen, NoFlagLeft, FramesOK, [Next]_vars
  PROVE  OverflowSeen'
<1>0. /\ PwmTypeOK /\ PwmInStep
      /\ delta \in Nat /\ elapsed \in Nat /\ TCNT1 \in Nat
  BY PwmAssumption DEF PwmInv, PwmTypeOK
<1>1. ASSUME Tick
      PROVE  OverflowSeen'
  <2>1. UNCHANGED <<phase, delta, clock>> /\ phase \in {"app", "pwm"}
    BY <1>1 DEF Tick, callVars, TimerTick
  <2>2. clock' => elapsed' = elapsed + 1
    BY <1>1, <2>1 DEF Tick, HaltedIsOff, PwmInv, PwmTypeOK
  <2>3. CASE Overflow
    <3>1. TCNT1' = 0
      BY <2>3 DEF Overflow
    <3> QED BY <1>0, <2>1, <2>2, <3>1 DEF OverflowSeen
  <2>4. CASE Count
    <3>1. TCNT1' <= TCNT1 + 1 /\ UNCHANGED TOV1
      <4>1. TCNT1' = (TCNT1 + 1) % TCNT1_RANGE /\ TCNT1 + 1 <= TCNT1_RANGE
            /\ TCNT1_RANGE \in Nat \ {0}
        BY <1>0, <2>4, PwmAssumption DEF Count, PwmTypeOK
      <4> QED BY <1>0, <2>4, <4>1 DEF Count
    <3>2. TCNT1' \in Nat
      BY <1>0, <1>1, NextTyped, PwmAssumption DEF PwmTypeOK, Next
    <3> QED BY <1>0, <2>1, <2>2, <3>1, <3>2 DEF OverflowSeen
  <2>5. CASE TimerStopped
    BY <2>1, <2>5 DEF TimerStopped, OverflowSeen
  <2> QED BY <1>1, <2>3, <2>4, <2>5 DEF Tick, TimerTick
<1>2. CASE ReceiveSample
  <2>1. (clock' => clock) /\ UNCHANGED <<TCNT1, TOV1>>
    <3>1. AbortTimer /\ UNCHANGED TOV1
      BY <1>2 DEF ReceiveSample
    <3> QED BY <3>1, Zenon DEF AbortTimer
  <2>2. delta' = elapsed /\ elapsed' = 0 /\ phase' = "float" /\ delta = 0
    BY <1>2 DEF ReceiveSample, OverflowSeen
  <2> QED BY <1>0, <2>1, <2>2 DEF OverflowSeen
<1>3. CASE ReceiveFloat \/ ReceiveEdge
  <2>1. (clock' => clock) /\ UNCHANGED <<TCNT1, TOV1>>
    <3>1. CASE ReceiveFloat
      BY <3>1 DEF ReceiveFloat, timerVars
    <3>2. CASE AbortTimer /\ UNCHANGED TOV1
      BY <3>2, Zenon DEF AbortTimer
    <3> QED BY <1>3, <3>1, <3>2 DEF ReceiveEdge
  <2>2. UNCHANGED <<delta, elapsed>> /\ phase' \in {"edge", "pwm"}
    BY <1>3 DEF ReceiveFloat, ReceiveEdge, busVars
  <2> QED BY <2>1, <2>2 DEF OverflowSeen
<1>4. CASE xmit_pwm_periodic
  <2>1. ~TOV1' \/ ~clock'
    BY <1>0, <1>4 DEF xmit_pwm_periodic, FrameDone, PwmInStep, timerVars
  <2>2. phase' = "start"
    BY <1>4 DEF xmit_pwm_periodic
  <2> QED BY <2>1, <2>2 DEF OverflowSeen
<1>5. CASE cec_transmit_periodic
  <2>1. clock' => ~TOV1'
    BY <1>0, <1>5 DEF cec_transmit_periodic, xmit_start, MayStart, timerVars, OverflowSeen,
                      NoFlagLeft, PwmInStep
  <2>2. phase' = "addr" /\ delta' = 0
    BY <1>5 DEF cec_transmit_periodic
  <2> QED BY <2>1, <2>2 DEF OverflowSeen
<1>6. CASE AddrPeriodic
  BY <1>0, <1>6 DEF AddrPeriodic, OverflowSeen, timerVars
<1>7. CASE AppClearHeader \/ \E m \in Messages : AppSend(m)
  BY <1>7 DEF AppClearHeader, AppSend, driverUnchanged, callVars, busVars, timerVars, OverflowSeen
<1>8. CASE cec_halt
  <2>1. clock' => clock
    BY <1>8, Zenon DEF cec_halt
  <2>2. UNCHANGED <<TCNT1, TOV1, callVars, busVars>>
    BY <1>8 DEF cec_halt
  <2> QED BY <2>1, <2>2 DEF callVars, busVars, OverflowSeen
<1>9. CASE cec_init
  BY <1>9 DEF cec_init, callVars, HaltedIsOff, OverflowSeen
<1>10. CASE UNCHANGED vars
  BY <1>10 DEF vars, timerVars, callVars, busVars, OverflowSeen
<1> QED BY <1>1, <1>2, <1>3, <1>4, <1>5, <1>6, <1>7, <1>8, <1>9, <1>10
        DEF Next, cec_periodic, Application

LEMMA HaltedStaysOff ==
  ASSUME HaltPolicy # "anytime", PwmInv, HaltedIsOff, [Next]_vars
  PROVE  HaltedIsOff'
<1>0. PwmInStep
  BY DEF PwmInv
<1>1. CASE mode' = mode /\ clock' = clock
  BY <1>1 DEF HaltedIsOff
<1>2. CASE mode' = "running"
  BY <1>2 DEF HaltedIsOff
<1>3. CASE cec_halt
  <2>1. ~clock
    BY <1>0, <1>3, TimingAssumption DEF cec_halt, HaltAllowed, PwmInStep
  <2>2. ~clock'
    BY <1>3, <2>1, Zenon DEF cec_halt
  <2> QED BY <2>2 DEF HaltedIsOff
<1>4. CASE cec_periodic
  <2>1. mode \in {"running", "halted"} /\ mode' = mode
    BY <1>4 DEF cec_periodic, ReceiveSample, ReceiveFloat, ReceiveEdge, xmit_pwm_periodic,
                cec_transmit_periodic, AddrPeriodic, PwmInv, PwmTypeOK
  <2>2. mode # "halted"
    BY <1>4 DEF cec_periodic, ReceiveSample, ReceiveFloat, ReceiveEdge, xmit_pwm_periodic,
                cec_transmit_periodic, AddrPeriodic, PwmInv, HaltedIsQuiet
  <2> QED BY <2>1, <2>2 DEF HaltedIsOff
<1>5. CASE cec_init
  BY <1>2, <1>5 DEF cec_init
<1>6. CASE Tick
  BY <1>1, <1>6 DEF Tick, TimerTick
<1>7. CASE AppClearHeader \/ \E m \in Messages : AppSend(m)
  BY <1>1, <1>7 DEF AppClearHeader, AppSend, timerVars
<1>8. CASE UNCHANGED vars
  BY <1>1, <1>8 DEF vars, timerVars
<1> QED BY <1>3, <1>4, <1>5, <1>6, <1>7, <1>8 DEF Next, Application

LEMMA FrameInit == Init => FrameInv
<1> SUFFICES ASSUME Init PROVE FrameInv
  OBVIOUS
<1>1. PwmInv
  BY InitTyped, Parts, InStepInit DEF PwmInv
<1>2. ~clock /\ mode = "running" /\ phase = "app" /\ delta = 0
  BY DEF Init
<1>3. transmit_state = TRANSMIT_IDLE /\ transmit_buf_end \in 0..(CEC_BUFFER_SIZE - 1)
  BY PwmAssumption DEF Init, TransmitInit
<1> QED BY <1>1, <1>2, <1>3 DEF FrameInv, HaltedIsOff, OverflowSeen, FramesOK, BufferOK, Sending

LEMMA FrameNext ==
  ASSUME HaltPolicy # "anytime", CallsInTime, FrameInv, NoFlagLeft, [Next]_vars
  PROVE  FrameInv'
<1>0. PwmInv /\ PwmTypeOK /\ PwmInStep /\ HaltedIsOff /\ OverflowSeen /\ FramesOK
  BY DEF FrameInv, PwmInv
<1>1. FramesOK'
  <2>1. CASE Tick
    BY <1>0, <2>1, TickFrames
  <2>2. CASE cec_periodic
    BY <1>0, <2>2, ReceiverFrames, XmitFrames, StartFrames, AddrFrames DEF cec_periodic
  <2>3. CASE Application
    BY <1>0, <2>3, ApplicationFrames
  <2>4. CASE UNCHANGED vars
    BY <1>0, <2>4, FramesKept DEF vars, txVars, timerVars, FrameVars, MessageVars
  <2> QED BY <2>1, <2>2, <2>3, <2>4 DEF Next
<1> QED BY <1>0, <1>1, InStepNext, HaltedStaysOff, OverflowStaysSeen DEF FrameInv

-----------------------------------------------------------------------------
(***************************************************************************)
(* What a frame that begins or ends looks like.                            *)
(***************************************************************************)
FrameBegins ==
  aired' = aired + 1 =>
    OCR1B' = IF Transmitting THEN FrameTicks(aired)
             ELSE IF xmit_state = XMIT_END1 THEN CEC_1_TICKS ELSE 0

StartBegins == aired = 0 /\ aired' = 1 => OCR1B' = CEC_START_TICKS

FrameEnds ==
  aired > 0 /\ aired' = aired + 1 /\ OCR1B # 0 =>
    \/ OCR1B = CEC_START_TICKS /\ OCR1C = CEC_START_PERIOD /\ Time!PwmStartInSpec
    \/ OCR1B = CEC_0_TICKS /\ OCR1C = CEC_DATA_PERIOD /\ Time!Pwm0InSpec
    \/ OCR1B = CEC_1_TICKS /\ OCR1C = CEC_DATA_PERIOD /\ Time!Pwm1InSpec

(* Only an overflow begins a frame.                                        *)
LEMMA AiredCounts ==
  ASSUME PwmTypeOK, [Next]_vars, aired' = aired + 1
  PROVE  Tick /\ Overflow
<1>1. aired \in Nat /\ aired' \notin {aired, 0}
  BY AiredMaxTyped DEF PwmTypeOK
<1>2. Tick
  BY <1>1 DEF Next, vars, cec_periodic, Application, ReceiveSample, ReceiveFloat, ReceiveEdge,
              xmit_pwm_periodic, cec_transmit_periodic, xmit_start, AddrPeriodic, AppSend,
              AppClearHeader, driverUnchanged, cec_halt, cec_init
<1> QED BY <1>1, <1>2 DEF Tick, TimerTick, Count, TimerStopped

LEMMA FrameSteps ==
  ASSUME CallsInTime, FrameInv, [Next]_vars
  PROVE  /\ FrameBegins /\ StartBegins
         /\ Time!PwmStartInSpec /\ Time!Pwm0InSpec /\ Time!Pwm1InSpec => FrameEnds
<1>0. PwmTypeOK /\ PwmInStep /\ aired \in Nat
  BY AiredMaxTyped DEF FrameInv, PwmInv, PwmTypeOK
<1> SUFFICES ASSUME aired' = aired + 1
             PROVE  /\ FrameBegins /\ StartBegins
                    /\ Time!PwmStartInSpec /\ Time!Pwm0InSpec /\ Time!Pwm1InSpec => FrameEnds
  BY <1>0 DEF FrameBegins, StartBegins, FrameEnds
<1>1. Tick /\ Overflow
  BY <1>0, AiredCounts
<1>2. ~TOV1 /\ Loaded /\ Paired /\ Due = aired /\ xmit_state # XMIT_IDLE
  BY <1>1, OverflowIsNew DEF FrameInv
<1>3. OCR1B' = OCR1B_next
  BY <1>1 DEF Overflow
<1>4. xmit_state \in {XMIT_START, XMIT_RUNNING, XMIT_END1, XMIT_END2}
  BY <1>0, <1>2 DEF PwmTypeOK
<1>5. xmit_state \in {XMIT_START, XMIT_RUNNING} => Transmitting
  BY <1>0 DEF PwmInStep, Transmitting
<1>6. FrameBegins
  <2>1. Length \in Nat /\ Length >= 4
    BY LengthBounds DEF FrameInv, FramesOK, BufferOK
  <2>2. Transmitting => OCR1B_next = FrameTicks(aired)
    <3> SUFFICES ASSUME Transmitting PROVE OCR1B_next = FrameTicks(aired)
      OBVIOUS
    <3>1. FrameTicks(aired) = CASE aired = 0      -> CEC_START_TICKS
                                [] aired > Length -> 0
                                [] OTHER          -> Ticks(FrameBit(aired))
      BY Zenon DEF FrameTicks, Length
    <3>2. CASE xmit_state = XMIT_START
      BY <1>2, <2>1, <3>1, <3>2 DEF Loaded, LoadedStart
    <3>3. CASE xmit_state = XMIT_RUNNING
      BY <1>0, <1>2, <2>1, <3>1, <3>3 DEF Loaded, LoadedBit
    <3>4. CASE xmit_state = XMIT_END1
      BY <1>0, <1>2, <2>1, <3>1, <3>4 DEF Loaded, LoadedAck, Ticks
    <3>5. CASE xmit_state = XMIT_END2
      BY <1>0, <1>2, <2>1, <3>1, <3>5 DEF Loaded, LoadedNothing
    <3> QED BY <1>4, <3>2, <3>3, <3>4, <3>5
  <2>3. ~Transmitting =>
          OCR1B_next = IF xmit_state = XMIT_END1 THEN CEC_1_TICKS ELSE 0
    BY <1>2, <1>4, <1>5 DEF Loaded, LoadedAck, LoadedNothing
  <2> QED BY <1>3, <2>2, <2>3 DEF FrameBegins
<1>7. StartBegins
  BY <1>2, <1>3, <1>4 DEF StartBegins, Loaded, LoadedStart, LoadedBit, LoadedAck, LoadedNothing
<1>8. Time!PwmStartInSpec /\ Time!Pwm0InSpec /\ Time!Pwm1InSpec => FrameEnds
  <2>1. aired > 0 => aired # 0
    BY <1>0
  <2> QED BY <1>2, <2>1, Zenon DEF FrameEnds, Paired
<1> QED BY <1>6, <1>7, <1>8

LEMMA FramesHold ==
  ASSUME HaltPolicy # "anytime", CallsInTime
  PROVE  Spec /\ []NoFlagLeft => []FrameInv
<1>1. Init => FrameInv
  BY FrameInit
<1>2. FrameInv /\ NoFlagLeft /\ [Next]_vars => FrameInv'
  BY FrameNext
<1> QED BY <1>1, <1>2, PTL DEF Spec

(* Called twice a frame, cec_transmit_pwm.c puts the message on the line   *)
(* bit for bit, whatever the others do, wherever a transmission is given   *)
(* up and as often as it is repeated: provided that no message is begun    *)
(* with the overflow flag of an earlier one.                               *)
THEOREM PwmAirsCorrect ==
  ASSUME HaltPolicy # "anytime", CallsInTime
  PROVE  Spec /\ []NoFlagLeft => AirsTheMessage
<1>1. Spec /\ []NoFlagLeft => []FrameInv
  BY FramesHold
<1>2. FrameInv /\ [Next]_vars => FrameBegins
  BY FrameSteps
<1>3. AirsTheMessage <=> [][FrameBegins]_vars
  BY DEF AirsTheMessage, FrameBegins
<1> QED BY <1>1, <1>2, <1>3, PTL DEF Spec

(* Nor is a low part ever ended by the period of the other kind of frame.  *)
(* That the periods themselves are within the standard is a fact about     *)
(* cec_spec.h and time.h that the run evaluates for every clock rate.      *)
THEOREM PwmFramesCorrect ==
  ASSUME HaltPolicy # "anytime", CallsInTime,
         Time!PwmStartInSpec, Time!Pwm0InSpec, Time!Pwm1InSpec
  PROVE  Spec /\ []NoFlagLeft => FramesInSpec
<1>1. Spec /\ []NoFlagLeft => []FrameInv
  BY FramesHold
<1>2. FrameInv /\ [Next]_vars => FrameEnds
  BY FrameSteps
<1>3. FramesInSpec <=> [][FrameEnds]_vars
  BY DEF FramesInSpec, FrameEnds
<1> QED BY <1>1, <1>2, <1>3, PTL DEF Spec

(* What the comment of xmit_start() says holds as long as no overflow flag *)
(* is left: the flag, which is cleared in xmit_pwm_periodic() only, is all *)
(* that the run which violates it has found.                               *)
THEOREM PwmStartCorrect ==
  ASSUME HaltPolicy # "anytime", CallsInTime
  PROVE  Spec /\ []NoFlagLeft => StartBitFirst
<1>1. Spec /\ []NoFlagLeft => []FrameInv
  BY FramesHold
<1>2. FrameInv /\ [Next]_vars => StartBegins
  BY FrameSteps
<1>3. StartBitFirst <=> [][StartBegins]_vars
  BY DEF StartBitFirst, StartBegins
<1> QED BY <1>1, <1>2, <1>3, PTL DEF Spec

-----------------------------------------------------------------------------
(***************************************************************************)
(* Where a flag that is left over comes from.                              *)
(***************************************************************************)
LEMMA FlagSeen ==
  ASSUME HaltPolicy # "anytime", PwmInStep, NoFlagLeft, [Next]_vars, Aborted => ~TOV1'
  PROVE  NoFlagLeft'
<1> SUFFICES ASSUME ~clock' PROVE ~TOV1'
  BY DEF NoFlagLeft
<1>1. CASE Tick
  BY <1>1 DEF Tick, TimerTick, TimerStopped, Overflow, Count, NoFlagLeft
<1>2. CASE ReceiveSample \/ ReceiveEdge
  <2>1. AbortTimer /\ UNCHANGED TOV1
    BY <1>2 DEF ReceiveSample, ReceiveEdge
  <2>2. CASE Aborted
    BY <2>2
  <2>3. CASE ~Aborted
    BY <2>1, <2>3, Zenon DEF AbortTimer, NoFlagLeft
  <2> QED BY <2>2, <2>3
<1>3. CASE ReceiveFloat \/ AddrPeriodic
  BY <1>3 DEF ReceiveFloat, AddrPeriodic, timerVars, NoFlagLeft
<1>4. CASE xmit_pwm_periodic
  BY <1>4 DEF xmit_pwm_periodic, timerVars, NoFlagLeft
<1>5. CASE cec_transmit_periodic
  BY <1>5 DEF cec_transmit_periodic, xmit_start, timerVars, NoFlagLeft
<1>6. CASE cec_halt
  <2>1. ~clock /\ UNCHANGED TOV1
    BY <1>6, TimingAssumption DEF cec_halt, HaltAllowed, PwmInStep
  <2> QED BY <2>1 DEF NoFlagLeft
<1>7. CASE (\E m \in Messages : AppSend(m)) \/ AppClearHeader \/ cec_init
  BY <1>7 DEF AppSend, AppClearHeader, cec_init, timerVars, NoFlagLeft
<1>8. CASE UNCHANGED vars
  BY <1>8 DEF vars, timerVars, NoFlagLeft
<1> QED BY <1>1, <1>2, <1>3, <1>4, <1>5, <1>6, <1>7, <1>8 DEF Next, cec_periodic, Application

(* No message is given up in a call that finds a frame begun and not yet   *)
(* seen by xmit_pwm_periodic().                                            *)
GivesUpInFrame == [][Aborted => ~TOV1']_vars

(* An abort in the moment a frame has begun is the only way to a flag that *)
(* is left over: the last frame, LoseTrack and a halt leave none, however  *)
(* late the calls are.                                                     *)
THEOREM PwmFlagCorrect ==
  ASSUME HaltPolicy # "anytime"
  PROVE  Spec /\ GivesUpInFrame => []NoFlagLeft
<1> DEFINE Inv == PwmInv /\ NoFlagLeft
           InFrame == Aborted => ~TOV1'
<1>1. Init => Inv
  BY InitTyped, Parts, InStepInit DEF PwmInv, Init, NoFlagLeft
<1>2. Inv /\ [Next]_vars /\ [InFrame]_vars => Inv'
  <2> SUFFICES ASSUME Inv, [Next]_vars, [InFrame]_vars PROVE Inv'
    OBVIOUS
  <2>1. PwmInv'
    BY InStepNext
  <2>2. CASE InFrame
    BY <2>1, <2>2, FlagSeen DEF PwmInv
  <2>3. CASE UNCHANGED vars
    BY <2>1, <2>3 DEF vars, timerVars, NoFlagLeft
  <2> QED BY <2>2, <2>3
<1>3. GivesUpInFrame <=> [][InFrame]_vars
  BY DEF GivesUpInFrame
<1> QED BY <1>1, <1>2, <1>3, PTL DEF Spec

(* So, called in time, the driver puts the message on the line frame for   *)
(* frame and each frame as a whole, if no message is given up then; and    *)
(* that is the only way to the start bit that the run pwm_stale finds      *)
(* replaced.                                                               *)
THEOREM PwmSendsCorrect ==
  ASSUME HaltPolicy # "anytime", CallsInTime,
         Time!PwmStartInSpec, Time!Pwm0InSpec, Time!Pwm1InSpec
  PROVE  Spec /\ GivesUpInFrame => AirsTheMessage /\ FramesInSpec /\ StartBitFirst
BY PwmFlagCorrect, PwmAirsCorrect, PwmFramesCorrect, PwmStartCorrect

-----------------------------------------------------------------------------
(***************************************************************************)
(* Receiving.  A sample is pending only within a message and before its    *)
(* window is over, if no falling edge comes before the sample.             *)
(***************************************************************************)
SampleFresh ==
  sample => /\ receive_frame_period \in {CEC_T7_EARLY_END_TIME, CEC_START_HIGH_EARLY_TIME}
            /\ phase \in {"float", "edge"} => receive_frame_timer <= CEC_T3_TIME

SampleInv == PwmInv /\ SamplesInMessage /\ SampleFresh

SamplesFirst == phase = "edge" /\ ~state /\ last_state => ~sample

LEMMA SampleKept ==
  ASSUME SamplesInMessage, SampleFresh, phase' \notin {"float", "edge"},
         UNCHANGED <<sample, cec_receive_flags, receive_frame_period>>
  PROVE  SamplesInMessage' /\ SampleFresh'
  BY DEF SamplesInMessage, SampleFresh

LEMMA SampleTaken ==
  ASSUME SampleInv, ReceiveSample
  PROVE  SamplesInMessage' /\ SampleFresh'
<1>1. receive_frame_period' = receive_frame_period
  BY DEF ReceiveSample
<1>2. CASE SampleDue
  BY <1>2 DEF ReceiveSample, SampleDone, SamplesInMessage, SampleFresh
<1>3. CASE ~SampleDue
  <2>1. UNCHANGED <<sample, cec_receive_flags>> /\ receive_frame_timer' = NewTimer
    <3>1. NoSample
      BY <1>3 DEF ReceiveSample, TakeSample, MissSample
    <3>2. sample \in BOOLEAN
      BY DEF SampleInv, PwmInv, PwmTypeOK
    <3> QED BY <1>3, <3>1, <3>2 DEF NoSample, ReceiveSample, SampleDone, rxVars
  <2>2. sample => NewTimer <= CEC_T3_TIME
    <3>1. NewTimer \in Nat
      BY AddCappedTyped, PwmAssumption DEF SampleInv, PwmInv, PwmTypeOK, NewTimer, Timer
    <3> QED BY <1>3, <3>1, PwmAssumption DEF SampleDue
  <2> QED BY <1>1, <2>1, <2>2 DEF SampleInv, SamplesInMessage, SampleFresh
<1> QED BY <1>2, <1>3

LEMMA SampleAtEdge ==
  ASSUME SampleInv, SamplesFirst, ReceiveEdge
  PROVE  SamplesInMessage' /\ SampleFresh'
<1>1. phase = "edge" /\ phase' = "pwm"
  BY DEF ReceiveEdge
<1>2. CASE NoEdge
  <2>1. ASSUME sample
        PROVE  ~(receive_frame_timer > receive_frame_period + NO_EDGE)
    <3>1. receive_frame_timer \in Nat /\ receive_frame_timer <= CEC_T3_TIME
      BY <1>1, <2>1, PwmAssumption
         DEF SampleInv, SampleFresh, PwmInv, PwmTypeOK, Timer
    <3>2. receive_frame_period \in Nat /\ CEC_T3_TIME < receive_frame_period
      BY <2>1, PwmAssumption, TimingAssumption DEF SampleInv, SampleFresh
    <3> QED BY <3>1, <3>2, PwmAssumption
  <2>2. UNCHANGED <<sample, receive_frame_period>>
    BY <1>2 DEF NoEdge
  <2>3. sample => UNCHANGED cec_receive_flags
    BY <1>2, <2>1 DEF NoEdge, rxVars
  <2> QED BY <1>1, <2>2, <2>3 DEF SampleInv, SamplesInMessage, SampleFresh
<1>3. CASE RisingEdge
  <2>1. CASE StartLow
    BY <1>1, <1>3, <2>1
       DEF RisingEdge, cec_receive_start, SampleInv, SamplesInMessage, SampleFresh
  <2>2. CASE ~StartLow
    BY <1>1, <1>3, <2>2, SampleKept DEF RisingEdge, rxVars, SampleInv
  <2> QED BY <2>1, <2>2
<1>4. CASE FallingEdge
  <2>1. ~sample /\ receive_frame_period' = CEC_T7_EARLY_END_TIME
    BY <1>1, <1>4 DEF FallingEdge, SamplesFirst
  <2>2. CASE BitBegins
    BY <1>1, <2>1, <2>2 DEF BitBegins, SamplesInMessage, SampleFresh
  <2>3. CASE EarlyEdge \/ UNCHANGED sample
    BY <2>1, <2>3 DEF EarlyEdge, SamplesInMessage, SampleFresh
  <2> QED BY <1>4, <2>2, <2>3 DEF FallingEdge
<1> QED BY <1>2, <1>3, <1>4 DEF ReceiveEdge

LEMMA SampleNext ==
  ASSUME HaltPolicy # "anytime", SampleInv, SamplesFirst, [Next]_vars
  PROVE  SampleInv'
<1>0. SamplesInMessage /\ SampleFresh
  BY DEF SampleInv
<1>1. PwmInv'
  BY InStepNext DEF SampleInv
<1>2. CASE ReceiveSample \/ ReceiveEdge
  BY <1>1, <1>2, SampleTaken, SampleAtEdge DEF SampleInv
<1>3. CASE ReceiveFloat
  BY <1>0, <1>1, <1>3 DEF ReceiveFloat, minVars, SampleInv, SamplesInMessage, SampleFresh
<1>4. CASE Tick \/ UNCHANGED vars
  BY <1>0, <1>1, <1>4
     DEF Tick, vars, rxVars, minVars, callVars, SampleInv, SamplesInMessage, SampleFresh
<1>5. CASE xmit_pwm_periodic \/ cec_transmit_periodic \/ AddrPeriodic
  <2>1. /\ phase' \in {"start", "addr", "app"}
        /\ UNCHANGED <<sample, cec_receive_flags, receive_frame_period>>
    BY <1>5 DEF xmit_pwm_periodic, cec_transmit_periodic, AddrPeriodic, rxVars, minVars
  <2> QED BY <1>0, <1>1, <2>1, SampleKept DEF SampleInv
<1>6. CASE AppClearHeader \/ cec_init \/ \E m \in Messages : AppSend(m)
  <2>1. UNCHANGED <<sample, cec_receive_flags, receive_frame_period, phase, receive_frame_timer>>
    BY <1>6 DEF AppClearHeader, AppSend, cec_init, driverUnchanged, rxVars, minVars, callVars
  <2> QED BY <1>0, <1>1, <2>1 DEF SampleInv, SamplesInMessage, SampleFresh
<1>7. CASE cec_halt
  <2>1. ~sample /\ UNCHANGED sample
    BY <1>7, TimingAssumption DEF cec_halt, HaltAllowed, SampleInv, SamplesInMessage
  <2> QED BY <1>1, <2>1 DEF SampleInv, SamplesInMessage, SampleFresh
<1> QED BY <1>2, <1>3, <1>4, <1>5, <1>6, <1>7 DEF Next, cec_periodic, Application

(* Two falling edges within one sample time are the only way to a sample   *)
(* of no message, however late the calls are.                              *)
THEOREM MinSampleCorrect ==
  ASSUME HaltPolicy # "anytime"
  PROVE  Spec /\ EdgesSpaced => []SamplesInMessage
<1>1. Init => SampleInv
  BY InitTyped, Parts, InStepInit
     DEF PwmInv, Init, SampleInv, SamplesInMessage, SampleFresh
<1>2. SampleInv /\ [Next]_vars /\ [SamplesFirst]_vars => SampleInv'
  <2> SUFFICES ASSUME SampleInv, [Next]_vars, [SamplesFirst]_vars PROVE SampleInv'
    OBVIOUS
  <2>1. CASE SamplesFirst
    BY <2>1, SampleNext
  <2>2. CASE UNCHANGED vars
    <3>1. PwmInv'
      BY InStepNext DEF SampleInv
    <3> QED BY <2>2, <3>1
            DEF vars, rxVars, minVars, callVars, SampleInv, SamplesInMessage, SampleFresh
  <2> QED BY <2>1, <2>2
<1>3. EdgesSpaced <=> [][SamplesFirst]_vars
  BY DEF EdgesSpaced, SamplesFirst
<1>4. SampleInv => SamplesInMessage
  BY DEF SampleInv
<1> QED BY <1>1, <1>2, <1>3, <1>4, PTL DEF Spec
(***************************************************************************)
(* The receive buffer.  A message that is being stored has it for itself;  *)
(* until its first byte is complete that is not known yet.                 *)
(***************************************************************************)
FirstBits ==
  /\ cec_receive_pos = 0 /\ cec_receive_flags = {"ACTIVE", "BITS_EOM"}
  /\ cec_receive_byte # ByteComplete

BufferFree ==
  cec_receive_flags # {} /\ "IGNORE" \notin cec_receive_flags => FirstBits \/ ~MessagePending

BufferInv == ReceiveTypeOK /\ BufferFree /\ StoresInBounds

BufferKept ==
  MessagePending =>
    /\ cec_receive_buf' = cec_receive_buf
    /\ cec_receive_hdr' \in {cec_receive_hdr, EmptyHeader}

LEMMA ReceptionKept ==
  ASSUME BufferInv, cec_receive_hdr' \in {cec_receive_hdr, EmptyHeader},
         UNCHANGED <<cec_receive_buf, cec_receive_byte, cec_receive_pos, cec_receive_flags>>
  PROVE  BufferFree' /\ StoresInBounds' /\ BufferKept
  BY DEF BufferInv, BufferFree, FirstBits, MessagePending, StoresInBounds, BufferKept

LEMMA ReceptionEnded ==
  ASSUME cec_receive_flags' = {}, cec_receive_buf' = cec_receive_buf,
         cec_receive_hdr' \in {cec_receive_hdr, EmptyHeader}
  PROVE  BufferFree' /\ StoresInBounds' /\ BufferKept
  BY DEF BufferFree, StoresInBounds, BufferKept

LEMMA ReceptionBegun ==
  ASSUME cec_receive_start
  PROVE  BufferFree' /\ StoresInBounds' /\ BufferKept
<1>1. MarkerOnly # ByteComplete /\ ~(0 > CEC_BUFFER_SIZE)
  BY PwmAssumption DEF MarkerOnly, ByteComplete
<1> QED BY <1>1 DEF cec_receive_start, BufferFree, FirstBits, StoresInBounds, BufferKept

LEMMA ErrorFreesBuffer ==
  ASSUME BufferInv, NEW err, cec_receive_error(err)
  PROVE  BufferFree' /\ StoresInBounds' /\ BufferKept
<1>1. CASE UNCHANGED receiveVars
  BY <1>1, ReceptionKept DEF receiveVars
<1>2. CASE cec_receive_flags' = {}
  BY <1>2, ReceptionEnded DEF cec_receive_error, receiveVars
<1> QED BY <1>1, <1>2 DEF cec_receive_error

(* The last bit of a byte.                                                 *)
LEMMA ByteDoneBuffer ==
  ASSUME BufferInv, ReceivingBits, NEW byte, ReceiveByteDone(byte)
  PROVE  BufferFree' /\ StoresInBounds' /\ BufferKept
<1>0. /\ cec_receive_flags # {} /\ cec_receive_hdr' = cec_receive_hdr
      /\ cec_receive_flags \cap {"IGNORE", "OVERRUN"}
           \subseteq cec_receive_flags' \cap {"IGNORE", "OVERRUN"}
      /\ FirstByte /\ MessagePending => "IGNORE" \in cec_receive_flags'
      /\ BufferFull => "OVERRUN" \in cec_receive_flags'
  BY DEF ReceivingBits, ReceiveByteDone, ByteFlags, RefusedFlags
<1>1. MessagePending /\ "IGNORE" \notin cec_receive_flags => cec_receive_pos = 0
  BY <1>0 DEF BufferInv, BufferFree, FirstBits
<1>2. BufferFree'
  BY <1>0, <1>1 DEF BufferFree, MessagePending, FirstByte
<1>3. StoresInBounds'
  <2> SUFFICES ASSUME cec_receive_pos' > CEC_BUFFER_SIZE
               PROVE  cec_receive_flags' \cap {"IGNORE", "OVERRUN"} # {}
    BY DEF StoresInBounds
  <2>1. cec_receive_pos \in 0..(UCHAR - 1) /\ cec_receive_pos' = (cec_receive_pos + 1) % UCHAR
    BY DEF BufferInv, ReceiveTypeOK, ReceiveByteDone
  <2>2. cec_receive_pos' = IF cec_receive_pos = UCHAR - 1 THEN 0 ELSE cec_receive_pos + 1
    BY <2>1, Sizes
  <2>3. cec_receive_pos >= CEC_BUFFER_SIZE
    BY <2>1, <2>2, Sizes, PwmAssumption
  <2>4. CASE cec_receive_pos = CEC_BUFFER_SIZE
    <3>1. BufferFull
      BY <2>4, PwmAssumption DEF BufferFull, FirstByte
    <3> QED BY <1>0, <3>1
  <2>5. CASE cec_receive_pos > CEC_BUFFER_SIZE
    BY <1>0, <2>5 DEF BufferInv, StoresInBounds
  <2> QED BY <2>1, <2>3, <2>4, <2>5, PwmAssumption
<1>4. BufferKept
  <2> SUFFICES ASSUME MessagePending PROVE cec_receive_buf' = cec_receive_buf
    BY <1>0 DEF BufferKept
  <2>1. ~StoreByte(ByteFlags(byte))
    <3>1. CASE "IGNORE" \in cec_receive_flags
      BY <3>1 DEF StoreByte, ByteFlags
    <3>2. CASE "IGNORE" \notin cec_receive_flags
      BY <1>1, <3>2 DEF StoreByte, RefuseByte, FirstByte
    <3> QED BY <3>1, <3>2
  <2> QED BY <2>1 DEF ReceiveByteDone
<1> QED BY <1>2, <1>3, <1>4

LEMMA BitKeepsBuffer ==
  ASSUME BufferInv, cec_receive_flags # {}, NEW bit \in BOOLEAN, cec_receive_bit(bit)
  PROVE  BufferFree' /\ StoresInBounds' /\ BufferKept
<1>1. CASE ReceiveDataBit(bit) /\ ~LastDataBit
  <2>1. /\ UNCHANGED <<cec_receive_buf, cec_receive_pos, cec_receive_flags, cec_receive_hdr>>
        /\ cec_receive_byte' = Append(cec_receive_byte, bit)
    BY <1>1 DEF ReceiveDataBit, ShiftIn
  <2>2. cec_receive_byte' # ByteComplete
    <3>1. cec_receive_byte \in Seq(BOOLEAN)
      BY DEF BufferInv, ReceiveTypeOK
    <3>2. Len(cec_receive_byte') = Len(cec_receive_byte) + 1 /\ Len(cec_receive_byte) \in Nat
      BY <2>1, <3>1
    <3>3. Len(ByteComplete) = 0
      BY DEF ByteComplete
    <3> QED BY <3>2, <3>3
  <2> QED BY <2>1, <2>2
          DEF BufferInv, BufferFree, FirstBits, MessagePending, StoresInBounds, BufferKept
<1>2. CASE ReceiveDataBit(bit) /\ LastDataBit
  BY <1>2, ByteDoneBuffer DEF ReceiveDataBit
<1>3. CASE ReceiveEomBit(bit)
  <2>1. ~FirstBits /\ cec_receive_flags # {}
    BY <1>3 DEF ReceiveEomBit, FirstBits, ReceivingBits
  <2>2. UNCHANGED <<cec_receive_buf, cec_receive_pos, cec_receive_hdr>>
    BY <1>3 DEF ReceiveEomBit
  <2>3. cec_receive_flags' \cap {"IGNORE", "OVERRUN"} = cec_receive_flags \cap {"IGNORE", "OVERRUN"}
    BY <1>3 DEF ReceiveEomBit
  <2>4. BufferFree'
    BY <2>1, <2>2, <2>3 DEF BufferInv, BufferFree, MessagePending
  <2> QED BY <2>1, <2>2, <2>3, <2>4 DEF BufferInv, StoresInBounds, BufferKept
<1>4. CASE ReceiveAckBit(bit)
  <2>1. "IGNORE" \notin cec_receive_flags => ~MessagePending
    BY <1>4 DEF ReceiveAckBit, ReceivingBits, BufferInv, BufferFree, FirstBits
  <2>2. UNCHANGED <<cec_receive_buf, cec_receive_pos>>
    BY <1>4 DEF ReceiveAckBit
  <2>3. CASE EndOfMessage(Acked(bit))
    BY <1>4, <2>1, <2>2, <2>3
       DEF ReceiveAckBit, BufferFree, StoresInBounds, BufferKept
  <2>4. CASE ~EndOfMessage(Acked(bit))
    <3>1. cec_receive_hdr' = cec_receive_hdr
          /\ cec_receive_flags' = cec_receive_flags \cup {"BITS_EOM"}
      BY <1>4, <2>4 DEF ReceiveAckBit
    <3> QED BY <2>1, <2>2, <3>1
            DEF BufferInv, BufferFree, MessagePending, StoresInBounds, BufferKept
  <2> QED BY <2>3, <2>4
<1> QED BY <1>1, <1>2, <1>3, <1>4 DEF cec_receive_bit

LEMMA BufferNext ==
  ASSUME SamplesInMessage, BufferInv, [Next]_vars
  PROVE  BufferFree' /\ StoresInBounds' /\ BufferKept
<1>1. CASE ReceiveSample
  <2>1. LineHigh \in BOOLEAN
    BY DEF LineHigh
  <2>2. CASE TakeSample
    BY <2>1, <2>2, BitKeepsBuffer DEF TakeSample, SampleDue, SamplesInMessage
  <2>3. CASE MissSample
    BY <2>3, ErrorFreesBuffer DEF MissSample, ReceiveError
  <2>4. CASE NoSample
    BY <2>4, ReceptionKept DEF NoSample, rxVars
  <2> QED BY <1>1, <2>2, <2>3, <2>4 DEF ReceiveSample
<1>2. CASE ReceiveFloat
  BY <1>2, ReceptionKept DEF ReceiveFloat
<1>3. CASE ReceiveEdge
  <2>1. CASE cec_receive_start
    BY <2>1, ReceptionBegun
  <2>2. CASE UNCHANGED rxVars
    BY <2>2, ReceptionKept DEF rxVars
  <2>3. ASSUME NEW err, cec_receive_error(err)
        PROVE  BufferFree' /\ StoresInBounds' /\ BufferKept
    BY <2>3, ErrorFreesBuffer
  <2>4. CASE BitBegins
    BY <2>4, ReceptionKept DEF BitBegins
  <2>5. CASE NoEdge
    BY <2>2, <2>3, <2>5 DEF NoEdge, ReceiveError
  <2>6. CASE RisingEdge
    BY <2>1, <2>2, <2>6 DEF RisingEdge
  <2>7. CASE FallingEdge
    BY <2>2, <2>3, <2>4, <2>7 DEF FallingEdge, EarlyEdge, ReceiveError
  <2> QED BY <1>3, <2>5, <2>6, <2>7 DEF ReceiveEdge
<1>4. CASE Tick \/ xmit_pwm_periodic \/ cec_transmit_periodic \/ UNCHANGED vars
  BY <1>4, ReceptionKept
     DEF Tick, xmit_pwm_periodic, cec_transmit_periodic, vars, rxVars
<1>5. CASE AddrPeriodic
  <2>1. cec_receive_hdr' \in {cec_receive_hdr, EmptyHeader}
    BY <1>5 DEF AddrPeriodic, cec_addr_periodic, AddrIdle, AddrPing, AddrGiveUp, AddrClaim,
                AddrWait
  <2> QED BY <1>5, <2>1, ReceptionKept DEF AddrPeriodic
<1>6. CASE AppClearHeader \/ cec_init \/ \E m \in Messages : AppSend(m)
  BY <1>6, ReceptionKept DEF AppClearHeader, cec_init, AppSend, rxVars
<1>7. CASE cec_halt
  BY <1>7, ReceptionEnded DEF cec_halt
<1> QED BY <1>1, <1>2, <1>3, <1>4, <1>5, <1>6, <1>7 DEF Next, cec_periodic, Application

(* The receive buffer over the minimal driver: nothing is stored beyond    *)
(* it, and while the application owns it nothing changes it, for messages  *)
(* of every length, those that wrap cec_receive_pos included; as long as   *)
(* no bit is sampled outside a message.                                    *)
THEOREM MinBufferCorrect ==
  ASSUME HaltPolicy # "anytime"
  PROVE  Spec /\ EdgesSpaced => []StoresInBounds /\ BufferOwnedByApp
<1>1. Spec => []PwmTypeOK
  BY PwmTypeCorrect
<1>2. PwmTypeOK => ReceiveTypeOK
  BY DEF PwmTypeOK
<1>3. Init => BufferFree /\ StoresInBounds
  BY DEF Init, ReceiveInit, BufferFree, StoresInBounds
<1>4. /\ BufferFree /\ StoresInBounds /\ ReceiveTypeOK /\ SamplesInMessage /\ [Next]_vars
      => BufferFree' /\ StoresInBounds' /\ BufferKept
  BY BufferNext DEF BufferInv
<1>5. BufferOwnedByApp <=> [][BufferKept]_vars
  BY DEF BufferOwnedByApp, BufferKept
<1>6. Spec /\ EdgesSpaced => []SamplesInMessage
  BY MinSampleCorrect
<1> QED BY <1>1, <1>2, <1>3, <1>4, <1>5, <1>6, PTL DEF Spec
=============================================================================
