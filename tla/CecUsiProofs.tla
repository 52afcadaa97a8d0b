---------------------------- MODULE CecUsiProofs ----------------------------
(***************************************************************************)
(* The USI driver implements CecEngine: what is proved of the engine holds *)
(* of the tick-level driver, for all latencies, pulses and messages.       *)
(***************************************************************************)
EXTENDS CecUsi, CecEngineRxProofs, CecEngineSendProofs, CecAddrProofs, FiniteSetTheorems

(* Each part of a call of cec_periodic() is the step of the engine named   *)
(* after it, or concerns the registers only.                               *)
LEMMA UsiPeriodicStep == usi_periodic => cec_periodic \/ UNCHANGED vars
<1> SUFFICES ASSUME usi_periodic PROVE cec_periodic \/ UNCHANGED vars
  OBVIOUS
<1>1. CASE PollOnly
  BY <1>1 DEF PollOnly, cec_periodic
<1>2. CASE PollByte
  BY <1>2 DEF PollByte, cec_periodic
<1>3. CASE Sample
  <2>1. High \in BOOLEAN
    BY DEF High
  <2> QED BY <1>3, <2>1 DEF Sample, cec_periodic
<1>4. CASE Edge
  BY <1>4 DEF Edge, SameLevel, FallingEdge, RisingEdge, NoEvent, cec_periodic
<1>5. CASE WriteByte
  BY <1>5 DEF WriteByte, cec_periodic
<1>6. CASE CheckAck \/ cec_receive_do_ack
  BY <1>6 DEF CheckAck, cec_receive_do_ack
<1>7. CASE UsiAddrPeriodic
  BY <1>7 DEF UsiAddrPeriodic, cec_periodic
<1> QED
  BY <1>1, <1>2, <1>3, <1>4, <1>5, <1>6, <1>7 DEF usi_periodic

LEMMA UsiApplicationStep == UsiApplication => Application
BY DEF UsiApplication, UsiHalt, UsiRestart, Application

LEMMA UsiStep == [UsiNext]_usiAllVars => [Next]_vars
<1> SUFFICES ASSUME [UsiNext]_usiAllVars PROVE [Next]_vars
  OBVIOUS
<1>1. CASE Tick
  BY <1>1 DEF Tick
<1>2. CASE usi_periodic
  BY <1>2, UsiPeriodicStep DEF Next
<1>3. CASE UsiApplication
  BY <1>3, UsiApplicationStep DEF Next
<1>4. CASE UNCHANGED usiAllVars
  BY <1>4 DEF usiAllVars
<1> QED
  BY <1>1, <1>2, <1>3, <1>4 DEF UsiNext

(* cec_usi.c takes no step that CecEngine does not allow, whatever the     *)
(* line and the clock do.                                                  *)
THEOREM UsiImplementsEngine == UsiSpec => Spec
<1>1. UsiInit => Init
  BY DEF UsiInit
<1>2. [UsiNext]_usiAllVars => [Next]_vars
  BY UsiStep
<1> QED BY <1>1, <1>2, PTL DEF UsiSpec, Spec

(* What is proved of the engine therefore holds of the driver, at whatever *)
(* tick the errors come: its two state machines leave a message together,  *)
(* a message that is dropped is never acked, the buffer belongs to the     *)
(* application while the header is set, and a header that is filled in is  *)
(* true of the bytes that were received.                                   *)
THEOREM UsiKeepsPromises ==
  ASSUME HaltPolicy # "anytime", MaxWireBytes < UCHAR
  PROVE  UsiSpec => /\ []TypeOK /\ []TxLockstep
                    /\ []NoAckOfDroppedData /\ []StoresInBounds
                    /\ BufferOwnedByApp /\ DeliversWhatWasSent
<1>1. UsiSpec => Spec
  BY UsiImplementsEngine
<1>2. Spec => []TypeOK /\ []TxLockstep
  BY TypeCorrect, LockstepCorrect
<1>3. Spec => []NoAckOfDroppedData /\ []StoresInBounds
  BY AckCorrect, BoundsCorrect
<1>4. Spec => BufferOwnedByApp /\ DeliversWhatWasSent
  BY BufferOwnership, DeliveryCorrect
<1> QED BY <1>1, <1>2, <1>3, <1>4

(* And so does what is proved of sending: the application sees every       *)
(* failure counted once and the transmit interface of TransmitService, and *)
(* never sees the address search nor an address that somebody else has.    *)
THEOREM UsiServesApplication ==
  ASSUME HaltPolicy # "anytime"
  PROVE  UsiSpec => /\ ImplementsService
                    /\ []StatsMatchRetries
                    /\ []SearchHidden /\ []ClaimsUnansweredAddress
<1>1. UsiSpec => Spec
  BY UsiImplementsEngine
<1>2. Spec => ImplementsService
  BY ServiceCorrect
<1>3. Spec => []StatsMatchRetries
  BY StatsCorrect
<1>4. Spec => []SearchHidden /\ []ClaimsUnansweredAddress
  BY SearchHiddenCorrect, ClaimCorrect
<1> QED BY <1>1, <1>2, <1>3, <1>4

-----------------------------------------------------------------------------
(***************************************************************************)
(* What the driver writes.                                                 *)
(***************************************************************************)
(* The byte that is written to USIBR for the n-th bit of a message is the  *)
(* pattern of its n-th frame.                                              *)
FrameWritten ==
  sent' = sent + 1 => USIBR' = Pattern(FrameBit(sent'))

(* The driver takes the bit it writes from the engine in the same step.    *)
LEMMA WriteByteWritesFrame ==
  ASSUME TypeOK, BitSent, [UsiNext]_usiAllVars
  PROVE  FrameWritten
<1> SUFFICES ASSUME sent' = sent + 1 PROVE USIBR' = Pattern(FrameBit(sent'))
  BY DEF FrameWritten
<1>0. sent \in Nat /\ sent' # sent /\ sent' # 0
  BY DEF TypeOK, HistoryTypeOK
<1>1. WriteByte /\ cec_usi_next_bit
  <2>1. CASE Tick \/ UNCHANGED usiAllVars
    BY <1>0, <2>1 DEF Tick, usiAllVars, vars, historyVars
  <2>2. CASE usi_periodic /\ ~WriteByte
    BY <1>0, <2>2
       DEF usi_periodic, PollOnly, PollByte, Sample, Edge, CheckAck, cec_receive_do_ack,
           UsiAddrPeriodic, PollBetweenBytes, ByteReceived, SampleBit, SameLevel, FallingEdge,
           RisingEdge, NoTransition, EarlyFallingEdge, StartLow, StartFrame, Lost, NoEvent,
           AddrPeriodic, vars, historyVars
  <2>3. CASE UsiApplication
    BY <1>0, <2>3
       DEF UsiApplication, AppSend, AppClearHeader, UsiHalt, UsiRestart, cec_halt, cec_init,
           historyVars
  <2>4. CASE WriteByte
    BY <2>4 DEF WriteByte
  <2> QED BY <2>1, <2>2, <2>3, <2>4 DEF UsiNext
<1>2. usi_xmit_state = USI_XMIT_BITS
  BY <1>0, <1>1 DEF cec_usi_next_bit, NextBitNone, NextBitStart, NextBitStart1, NextBitData
<1>3. USIBR' = Pattern(transmit_last_bit'[2])
  BY <1>1, <1>2
     DEF WriteByte, NextPattern, USI_XMIT_BITS, USI_XMIT_IDLE, USI_XMIT_START
<1>4. transmit_last_bit'[2] = FrameBit(sent')
  BY DEF BitSent
<1> QED BY <1>3, <1>4

(* What cec_usi_next_bit() leaves in USIBR when it takes a bit from the    *)
(* engine is the frame of the bit of the message that is due, also after   *)
(* a retransmission and however late the calls are.                        *)
THEOREM WritesTheMessage ==
  ASSUME HaltPolicy # "anytime"
  PROVE  UsiSpec => [][FrameWritten]_usiAllVars
<1>1. UsiSpec => []TypeOK /\ SendsTheMessage
  BY UsiImplementsEngine, TypeCorrect, SendCorrect
<1>2. SendsTheMessage <=> [][BitSent]_vars
  BY DEF SendsTheMessage, BitSent
<1>3. TypeOK /\ [BitSent]_vars /\ [UsiNext]_usiAllVars => [FrameWritten]_usiAllVars
  <2> SUFFICES ASSUME TypeOK, [BitSent]_vars, [UsiNext]_usiAllVars PROVE FrameWritten
    OBVIOUS
  <2>1. CASE BitSent
    BY <2>1, WriteByteWritesFrame
  <2>2. CASE UNCHANGED vars
    BY <2>2 DEF vars, historyVars, FrameWritten, TypeOK, HistoryTypeOK
  <2> QED BY <2>1, <2>2
<1> QED BY <1>1, <1>2, <1>3, PTL DEF UsiSpec

-----------------------------------------------------------------------------
(***************************************************************************)
(* The types of the driver's registers and counts.                         *)
(***************************************************************************)
LEMMA UsiConstants ==
  /\ SAMPLE_US = 300
  /\ FRAME \in Nat /\ FRAME > 0 /\ AiredMax \in Nat /\ TICK_MAX \in Nat
  /\ MIN_TICKS(CEC_T7_EARLY_END) \in 0..TICK_MAX /\ MAX_TICKS(CEC_T8_LATE_END) \in 0..TICK_MAX
  /\ MIN_TICKS(CEC_START_HIGH_EARLY) \in 0..TICK_MAX
  /\ MAX_TICKS(CEC_START_HIGH_LATE) \in 0..TICK_MAX
  /\ \A bit : FloatTicks(bit) \in 0..8
  /\ START1_TICKS \in 0..8
<1>1. SAMPLE_US = 300
  BY DEF SAMPLE_US, CEC_PERIOD
<1>2. FRAME \in Nat /\ FRAME > 0 /\ AiredMax \in Nat
  <2>1. FRAME \in Nat /\ FRAME > 0
    BY Sizes DEF FRAME
  <2>2. FRAME * CEC_BUFFER_SIZE \in Nat
    BY <2>1, SizeAssumption
  <2> QED BY <2>1, <2>2 DEF AiredMax
<1>3. MAX_TICKS(CEC_START_HIGH_LATE) = 16 /\ MIN_TICKS(CEC_START_HIGH_EARLY) = 14
      /\ MIN_TICKS(CEC_T7_EARLY_END) = 6 /\ MAX_TICKS(CEC_T8_LATE_END) = 10
  BY <1>1 DEF MAX_TICKS, MIN_TICKS, CEC_START_HIGH_LATE, CEC_START_HIGH_EARLY, CEC_T7_EARLY_END,
              CEC_T8_LATE_END
<1>4. TICK_MAX \in Nat /\ TICK_MAX > 16
  BY <1>3, UsiAssumption
<1>5. \A bit : FloatTicks(bit) \in 0..8
  BY <1>1 DEF FloatTicks, DIV_ROUND_UP, CEC_1, CEC_0, CEC_MAX_RISE_TIME
<1>6. START1_TICKS \in 0..8
  BY <1>1 DEF START1_TICKS, DIV_ROUND_UP, CEC_START_LOW, CEC_MAX_RISE_TIME
<1> QED BY <1>1, <1>2, <1>3, <1>4, <1>5, <1>6

LEMMA PatternsTyped ==
  /\ {CEC_PAT_START0, CEC_PAT_START1, CEC_PAT_IDLE} \subseteq [1..8 -> BOOLEAN]
  /\ \A bit : Pattern(bit) \in [1..8 -> BOOLEAN]
BY DEF CEC_PAT_START0, CEC_PAT_START1, CEC_PAT_IDLE, CEC_PAT_1, CEC_PAT_0, Pattern

LEMMA UsiInitTyped == UsiInit => UsiTypeOK
<1> SUFFICES ASSUME UsiInit PROVE UsiTypeOK
  OBVIOUS
<1>0. /\ USIOIF \in BOOLEAN /\ recv_last_bit \in BOOLEAN /\ ack_done \in BOOLEAN
      /\ edge \in BOOLEAN
  BY DEF UsiInit
<1>1. UsiRegistersOK
  BY <1>0, PatternsTyped DEF UsiInit, UsiRegistersOK
<1>2. TicksOK
  BY <1>0, UsiConstants DEF UsiInit, TicksOK
<1>3. CallOK
  <2>1. samples \in Seq(BOOLEAN) /\ Len(samples) <= 8 /\ acks \in 0..5
    BY EmptySeq DEF UsiInit
  <2> QED BY <1>0, <2>1 DEF UsiInit, CallOK
<1>4. BusOK
  BY UsiConstants, UsiAssumption, EmptySeq DEF UsiInit, BusOK, Silence
<1> QED BY <1>1, <1>2, <1>3, <1>4 DEF UsiTypeOK

(* A pulse of the others, whichever they choose.                           *)
LEMMA OthersTyped ==
  ASSUME BusOK, OthersTick
  PROVE  /\ others' \in [msg : Seq(Byte), bit : Nat, low : Nat, len : Nat \ {0}, t : Nat, heard : BOOLEAN]
         /\ said' \in Seq(Byte) /\ gap' \in 0..Gap
<1> DEFINE Other == [msg : Seq(Byte), bit : Nat, low : Nat, len : Nat \ {0}, t : Nat, heard : BOOLEAN]
<1>1. Silence \in Other
  BY EmptySeq DEF Silence
<1>2. \A msg \in Seq(Byte), bit \in Nat, pulses \in SUBSET Pulse : Begin(msg, bit, pulses) \subseteq Other
  <2> TAKE msg \in Seq(Byte), bit \in Nat, pulses \in SUBSET Pulse
  <2> DEFINE r(p) == [msg |-> msg, bit |-> bit, low |-> p.low, len |-> p.len, t |-> 0, heard |-> FALSE]
  <2>0. Begin(msg, bit, pulses) = {r(p) : p \in pulses}
    BY DEF Begin
  <2> SUFFICES ASSUME NEW p \in pulses PROVE r(p) \in Other
    BY <2>0
  <2>1. p.low \in Nat /\ p.len \in Nat \ {0}
    BY DEF Pulse
  <2>2. FALSE \in BOOLEAN
    OBVIOUS
  <2> QED BY <2>1, <2>2
<1>3. NextBit \subseteq Other
  <2>1. others.msg \in Seq(Byte) /\ others.bit + 1 \in Nat
    BY DEF BusOK
  <2>2. OnePulses \subseteq Pulse /\ ZeroPulses \subseteq Pulse
    BY UsiAssumption
  <2> QED BY <1>2, <2>1, <2>2 DEF NextBit
<1>4. OthersFree \subseteq Other
  <2>1. << >> \in Seq(Byte) /\ OthersMessages \subseteq Seq(Byte)
    BY UsiAssumption, EmptySeq
  <2>2. StartPulses \subseteq Pulse /\ AckPulses \subseteq Pulse /\ Glitches \subseteq Pulse
    BY UsiAssumption
  <2>3. UNION {Begin(m, 0, StartPulses) : m \in OthersMessages} \subseteq Other
    BY <1>2, <2>1, <2>2
  <2> QED BY <1>1, <1>2, <2>1, <2>2, <2>3 DEF OthersFree
<1>5. others' \in Other
  <2>1. CASE others.t + 1 < others.len
    <3>1. others' = [others EXCEPT !.t = @ + 1, !.heard = IF others.t = 3 THEN LineLow ELSE @]
      BY <2>1 DEF OthersTick
    <3>2. LineLow \in BOOLEAN
      BY DEF LineLow
    <3>3. others \in Other
      BY DEF BusOK
    <3>4. others.t + 1 \in Nat /\ (IF others.t = 3 THEN LineLow ELSE others.heard) \in BOOLEAN
      BY <3>2, <3>3
    <3> QED BY <3>1, <3>3, <3>4
  <2>2. CASE ~(others.t + 1 < others.len)
    BY <2>2, <1>1, <1>3, <1>4 DEF OthersTick
  <2> QED BY <2>1, <2>2
<1>6. said' \in Seq(Byte)
  BY DEF OthersTick, BusOK
<1>7. gap' \in 0..Gap
  BY UsiAssumption DEF OthersTick, BusOK
<1> QED BY <1>5, <1>6, <1>7

LEMMA RegisterIsSeq ==
  ASSUME NEW r \in [1..8 -> BOOLEAN]
  PROVE  r \in Seq(BOOLEAN) /\ Len(r) = 8
<1>1. r \in Seq(BOOLEAN)
  BY SeqDef
<1>2. DOMAIN r = 1..Len(r) /\ Len(r) \in Nat
  BY <1>1, LenProperties
<1>3. 1..Len(r) = 1..8
  BY <1>2
<1> QED BY <1>1, <1>2, <1>3

LEMMA ShiftedTyped ==
  ASSUME UsiRegistersOK
  PROVE  Shifted \in [1..8 -> BOOLEAN]
<1>1. USIDR \in Seq(BOOLEAN) /\ Len(USIDR) = 8
  BY RegisterIsSeq DEF UsiRegistersOK
<1>2. LineLow \in BOOLEAN
  BY DEF LineLow
<1>3. Tail(USIDR) \in Seq(BOOLEAN) /\ Len(Tail(USIDR)) = 7
  BY <1>1
<1>4. Append(Tail(USIDR), LineLow) \in Seq(BOOLEAN) /\ Len(Append(Tail(USIDR), LineLow)) = 8
  BY <1>2, <1>3
<1> QED BY <1>4, LenProperties DEF Shifted

LEMMA TickTyped ==
  ASSUME UsiTypeOK, Tick
  PROVE  UsiTypeOK'
<1>1. UsiRegistersOK'
  <2>1. USIDR' \in [1..8 -> BOOLEAN] /\ USIBR' \in [1..8 -> BOOLEAN] /\ USICNT' \in 0..15
    BY ShiftedTyped DEF UsiTypeOK, UsiRegistersOK, Tick, Overflow, Shift
  <2>2. USIOIF' \in BOOLEAN
    BY DEF UsiTypeOK, UsiRegistersOK, Tick, Overflow, Shift
  <2> QED BY <2>1, <2>2 DEF UsiRegistersOK
<1>2. TicksOK'
  BY DEF UsiTypeOK, TicksOK, Tick, tickVars, floatVars
<1>3. CallOK'
  BY DEF UsiTypeOK, CallOK, Tick, callVars
<1>4. BusOK'
  <2>1. elapsed' \in 0..MaxLatency
    BY UsiAssumption DEF UsiTypeOK, BusOK, Tick
  <2>2. aired' \in 0..AiredMax
    <3>1. aired \in 0..AiredMax /\ AiredMax \in Nat
      BY UsiConstants DEF UsiTypeOK, BusOK
    <3>2. aired' = aired \/ (aired < AiredMax /\ aired' = aired + 1)
      BY DEF Tick, Overflow, Shift
    <3> QED BY <3>1, <3>2
  <2>3. out' \in 0..8
    <3>1. out \in 0..8
      BY DEF UsiTypeOK, BusOK
    <3>2. out' = 0 \/ out' = out \/ (out < 8 /\ out' = out + 1)
      BY DEF Tick, Overflow, Shift
    <3> QED BY <3>1, <3>2
  <2> QED BY <2>1, <2>2, <2>3, OthersTyped DEF UsiTypeOK, BusOK, Tick
<1> QED BY <1>1, <1>2, <1>3, <1>4 DEF UsiTypeOK

LEMMA AbortTyped ==
  ASSUME UsiRegistersOK, cec_transmit_abort
  PROVE  USIDR' \in [1..8 -> BOOLEAN]
<1>1. \A i \in 1..8 : (i > 8 - ShiftedIn /\ USIDR[i]) \in BOOLEAN
  OBVIOUS
<1>2. [i \in 1..8 |-> i > 8 - ShiftedIn /\ USIDR[i]] \in [1..8 -> BOOLEAN]
  BY <1>1
<1> QED BY <1>2 DEF UsiRegistersOK, cec_transmit_abort

LEMMA PollTyped ==
  ASSUME UsiTypeOK, Poll
  PROVE  /\ TicksOK' /\ BusOK'
         /\ USIDR' \in [1..8 -> BOOLEAN] /\ UNCHANGED <<USIBR, USICNT, USIOIF>>
<1>1. USIDR' \in [1..8 -> BOOLEAN]
  BY AbortTyped DEF UsiTypeOK, Poll
<1>2. TicksOK'
  BY DEF UsiTypeOK, TicksOK, Poll, NewFloatTicks, tickVars
<1>3. BusOK'
  BY UsiAssumption DEF UsiTypeOK, BusOK, Poll
<1> QED BY <1>1, <1>2, <1>3 DEF Poll

LEMMA PollOnlyTyped ==
  ASSUME UsiTypeOK, PollOnly
  PROVE  UsiTypeOK'
<1>1. CallOK'
  BY DEF UsiTypeOK, CallOK, PollOnly, Poll
<1> QED BY <1>1, PollTyped DEF UsiTypeOK, UsiRegistersOK, PollOnly

LEMMA PollByteTyped ==
  ASSUME UsiTypeOK, PollByte
  PROVE  UsiTypeOK'
<1>1. CallOK'
  <2>1. samples' \in Seq(BOOLEAN) /\ Len(samples') <= 8
    <3>1. samples' = USIBR
      BY DEF PollByte
    <3>2. USIBR \in Seq(BOOLEAN) /\ Len(USIBR) = 8
      BY RegisterIsSeq DEF UsiTypeOK, UsiRegistersOK
    <3> QED BY <3>1, <3>2
  <2> QED BY <2>1 DEF UsiTypeOK, CallOK, PollByte, Poll
<1> QED BY <1>1, PollTyped DEF UsiTypeOK, UsiRegistersOK, PollByte

LEMMA NewTickTyped ==
  ASSUME TicksOK
  PROVE  NewTick \in 0..TICK_MAX
BY UsiConstants DEF TicksOK, NewTick

LEMMA SampleTyped ==
  ASSUME UsiTypeOK, Sample
  PROVE  UsiTypeOK'
<1>1. UsiRegistersOK'
  BY AbortTyped DEF UsiTypeOK, UsiRegistersOK, Sample
<1>2. TicksOK'
  BY NewTickTyped DEF UsiTypeOK, TicksOK, Sample, floatVars
<1>3. CallOK'
  <2>1. edge' \in BOOLEAN
    BY DEF Sample
  <2> QED BY <2>1 DEF UsiTypeOK, CallOK, Sample
<1>4. BusOK'
  BY DEF UsiTypeOK, BusOK, Sample, busVars
<1> QED BY <1>1, <1>2, <1>3, <1>4 DEF UsiTypeOK

(* A transition, or none: the ticks and the frame that follow.             *)
LEMMA EdgeTicksTyped ==
  ASSUME TicksOK, SameLevel \/ FallingEdge \/ RisingEdge
  PROVE  /\ recv_frame_tick' \in 0..TICK_MAX /\ recv_frame' \in 0..(FRAME - 1)
         /\ min_frame_ticks' \in 0..TICK_MAX /\ max_frame_ticks' \in 0..TICK_MAX
<1>1. recv_frame_tick' \in 0..TICK_MAX
  BY NewTickTyped, UsiConstants DEF SameLevel, FallingEdge, RisingEdge
<1>2. NextFrame \in 0..(FRAME - 1) /\ 0 \in 0..(FRAME - 1)
  BY UsiConstants DEF TicksOK, NextFrame
<1>3. recv_frame' \in 0..(FRAME - 1)
  BY <1>2 DEF TicksOK, SameLevel, FallingEdge, RisingEdge
<1>4. min_frame_ticks' \in 0..TICK_MAX /\ max_frame_ticks' \in 0..TICK_MAX
  BY UsiConstants DEF TicksOK, SameLevel, FallingEdge, RisingEdge, frameLimits
<1> QED BY <1>1, <1>3, <1>4

LEMMA EdgeTyped ==
  ASSUME UsiTypeOK, Edge
  PROVE  UsiTypeOK'
<1>1. UsiRegistersOK'
  BY AbortTyped DEF UsiTypeOK, UsiRegistersOK, Edge
<1>2. TicksOK'
  <2>1. recv_last_bit' \in BOOLEAN
    BY DEF Edge, High
  <2> QED BY <2>1, EdgeTicksTyped DEF UsiTypeOK, TicksOK, Edge, floatVars
<1>3. CallOK'
  <2>1. ack_done' \in BOOLEAN /\ edge' \in BOOLEAN
    BY DEF UsiTypeOK, CallOK, Edge, SameLevel, FallingEdge, RisingEdge
  <2>2. samples' \in Seq(BOOLEAN) /\ Len(samples') <= 8
    BY HeadTailProperties DEF UsiTypeOK, CallOK, Edge, InSamples
  <2> QED BY <2>1, <2>2 DEF UsiTypeOK, CallOK, Edge
<1>4. BusOK'
  BY DEF UsiTypeOK, BusOK, Edge, busVars
<1> QED BY <1>1, <1>2, <1>3, <1>4 DEF UsiTypeOK

LEMMA WriteByteTyped ==
  ASSUME UsiTypeOK, WriteByte
  PROVE  UsiTypeOK'
<1>1. UsiRegistersOK'
  <2>1. USIBR' \in [1..8 -> BOOLEAN]
    BY PatternsTyped DEF WriteByte, NextPattern
  <2>2. USIOIF' \in BOOLEAN
    BY DEF WriteByte
  <2>3. USICNT' \in 0..15
    BY DEF UsiTypeOK, UsiRegistersOK, WriteByte, NewCount, ShiftedIn
  <2> QED BY <2>1, <2>2, <2>3 DEF UsiTypeOK, UsiRegistersOK, WriteByte
<1>2. TicksOK'
  <2>1. float_ticks_max_next' \in 0..8
    BY UsiConstants DEF UsiTypeOK, TicksOK, WriteByte, NextPattern
  <2> QED BY <2>1 DEF UsiTypeOK, TicksOK, WriteByte, tickVars
<1>3. CallOK'
  BY DEF UsiTypeOK, CallOK, WriteByte
<1>4. BusOK'
  BY UsiConstants DEF UsiTypeOK, BusOK, WriteByte
<1> QED BY <1>1, <1>2, <1>3, <1>4 DEF UsiTypeOK

LEMMA CheckAckTyped ==
  ASSUME UsiTypeOK, CheckAck
  PROVE  UsiTypeOK'
<1>1. CallOK'
  <2>1. AckTicks \in 0..5
    BY DEF UsiTypeOK, TicksOK, AckTicks
  <2>2. ack_done' \in BOOLEAN
    BY DEF CheckAck
  <2>3. acks' \in 0..5
    BY <2>1 DEF CheckAck
  <2> QED BY <2>2, <2>3 DEF UsiTypeOK, CallOK, CheckAck
<1> QED BY <1>1 DEF UsiTypeOK, UsiRegistersOK, TicksOK, BusOK, CheckAck, usiVars, tickVars,
                    floatVars, busVars

LEMMA DoAckTyped ==
  ASSUME UsiTypeOK, cec_receive_do_ack
  PROVE  UsiTypeOK'
<1>1. UsiRegistersOK'
  <2> DEFINE now == IF AcksLeft < 8 - ShiftedIn THEN AcksLeft ELSE 8 - ShiftedIn
  <2>1. /\ USIDR' = [i \in 1..8 |-> i <= now \/ USIDR[i]]
        /\ USIBR' = IF AcksLeft > now THEN [i \in 1..8 |-> i <= AcksLeft - now] ELSE USIBR
    BY DEF cec_receive_do_ack
  <2>2. \A i \in 1..8 : (i <= now \/ USIDR[i]) \in BOOLEAN
    OBVIOUS
  <2>3. [i \in 1..8 |-> i <= AcksLeft - now] \in [1..8 -> BOOLEAN]
    <3> SUFFICES ASSUME NEW i \in 1..8 PROVE (i <= AcksLeft - now) \in BOOLEAN
      OBVIOUS
    <3> HIDE DEF now
    <3> QED OBVIOUS
  <2> HIDE DEF now
  <2> QED BY <2>1, <2>2, <2>3 DEF UsiTypeOK, UsiRegistersOK, cec_receive_do_ack
<1>2. CallOK'
  BY DEF UsiTypeOK, CallOK, cec_receive_do_ack
<1> QED BY <1>1, <1>2 DEF UsiTypeOK, TicksOK, BusOK, cec_receive_do_ack, tickVars, floatVars, busVars

LEMMA AddrTyped ==
  ASSUME UsiTypeOK, UsiAddrPeriodic
  PROVE  UsiTypeOK'
BY DEF UsiTypeOK, UsiRegistersOK, TicksOK, CallOK, BusOK, UsiAddrPeriodic, usiVars, tickVars,
       floatVars, busVars

LEMMA UsiApplicationTyped ==
  ASSUME UsiTypeOK, UsiApplication
  PROVE  UsiTypeOK'
<1>1. CASE UNCHANGED usiDriverVars
  BY <1>1 DEF UsiTypeOK, UsiRegistersOK, TicksOK, CallOK, BusOK, usiDriverVars, usiVars, tickVars,
              floatVars, callVars, busVars
<1>2. CASE UsiHalt
  BY <1>2, PatternsTyped DEF UsiTypeOK, UsiRegistersOK, TicksOK, CallOK, BusOK, UsiHalt, tickVars,
              floatVars, callVars, busVars
<1>3. CASE UsiRestart
  <2>1. UsiRegistersOK'
    <3>1. USIOIF' \in BOOLEAN
      BY <1>3 DEF UsiRestart
    <3> QED BY <1>3, <3>1, PatternsTyped DEF UsiRegistersOK, UsiRestart
  <2>2. BusOK'
    BY <1>3, UsiAssumption DEF UsiTypeOK, BusOK, UsiRestart
  <2> QED BY <1>3, <2>1, <2>2 DEF UsiTypeOK, TicksOK, CallOK, UsiRestart, tickVars, floatVars, callVars
<1> QED BY <1>1, <1>2, <1>3 DEF UsiApplication

LEMMA UsiNextTyped == UsiTypeOK /\ [UsiNext]_usiAllVars => UsiTypeOK'
<1> SUFFICES ASSUME UsiTypeOK, [UsiNext]_usiAllVars PROVE UsiTypeOK'
  OBVIOUS
<1>1. CASE Tick
  BY <1>1, TickTyped
<1>2. CASE usi_periodic
  BY <1>2, PollOnlyTyped, PollByteTyped, SampleTyped, EdgeTyped, WriteByteTyped, CheckAckTyped,
     DoAckTyped, AddrTyped DEF usi_periodic
<1>3. CASE UsiApplication
  BY <1>3, UsiApplicationTyped
<1>4. CASE UNCHANGED usiAllVars
  BY <1>4 DEF UsiTypeOK, UsiRegistersOK, TicksOK, CallOK, BusOK, usiAllVars, usiDriverVars,
              usiVars, tickVars, floatVars, callVars, busVars
<1> QED BY <1>1, <1>2, <1>3, <1>4 DEF UsiNext

(* Whatever the line does and however late the calls are, the tick count   *)
(* of cec_usi.c saturates, the frame index stays within a byte, and an     *)
(* ack never asks for more than five ticks.                                *)
THEOREM UsiTypeCorrect == UsiSpec => []UsiTypeOK
<1>1. UsiInit => UsiTypeOK
  BY UsiInitTyped
<1>2. UsiTypeOK /\ [UsiNext]_usiAllVars => UsiTypeOK'
  BY UsiNextTyped
<1> QED BY <1>1, <1>2, PTL DEF UsiSpec

-----------------------------------------------------------------------------
(***************************************************************************)
(* What a step leaves of the message that is being transmitted.            *)
(***************************************************************************)
GivenUp == transmit_state \in {TRANSMIT_FAILED, TRANSMIT_AGAIN}

(* A step of the engine in which it hands out no bit.                      *)
EngineStep ==
  \/ PollBetweenBytes
  \/ \E high \in BOOLEAN : ByteReceived(high)
  \/ \E bit \in BOOLEAN : SampleBit(bit)
  \/ NoTransition \/ EarlyFallingEdge \/ StartLow \/ StartFrame
  \/ AddrPeriodic
  \/ Application
  \/ UNCHANGED vars

LEMMA EngineSteps == [UsiNext]_usiAllVars => WriteByte \/ EngineStep
<1> SUFFICES ASSUME [UsiNext]_usiAllVars, ~WriteByte PROVE EngineStep
  OBVIOUS
<1>1. CASE Tick \/ CheckAck \/ cec_receive_do_ack
  BY <1>1 DEF Tick, CheckAck, cec_receive_do_ack, EngineStep
<1>2. CASE PollOnly \/ PollByte
  BY <1>2 DEF PollOnly, PollByte, EngineStep
<1>3. CASE Sample
  <2>1. High \in BOOLEAN
    BY DEF High
  <2> QED BY <1>3, <2>1 DEF Sample, EngineStep
<1>4. CASE Edge
  BY <1>4 DEF Edge, SameLevel, FallingEdge, RisingEdge, NoEvent, EngineStep
<1>5. CASE UsiAddrPeriodic
  BY <1>5 DEF UsiAddrPeriodic, EngineStep
<1>6. CASE UsiApplication
  BY <1>6, UsiApplicationStep DEF EngineStep
<1>7. CASE UNCHANGED usiAllVars
  BY <1>7 DEF usiAllVars, EngineStep
<1> QED BY <1>1, <1>2, <1>3, <1>4, <1>5, <1>6, <1>7 DEF UsiNext, usi_periodic

MessageVars == <<transmit_state, usi_xmit_state, transmit_buf, transmit_buf_end, sent>>

LEMMA AbortEnds ==
  AbortedState \in {TRANSMIT_FAILED, TRANSMIT_AGAIN}
  BY DEF AbortedState

(* An error ends the message or finds none.                                *)
LEMMA OnErrorEnds ==
  ASSUME NEW err, cec_transmit_on_error(err)
  PROVE  UNCHANGED transmitVars \/ Aborted
  BY AbortEnds DEF cec_transmit_on_error, Aborted

LEMMA ReceiveBitEnds ==
  ASSUME NEW bit, cec_receive_bit(bit)
  PROVE  \/ UNCHANGED <<transmit_state, usi_xmit_state, transmit_buf, transmit_buf_end>>
         \/ Aborted
         \/ transmit_state' = TRANSMIT_IDLE
<1>1. CASE cec_check_tx_bit(bit)
  BY <1>1, OnErrorEnds DEF cec_check_tx_bit, transmitVars
<1>2. CASE cec_transmit_receive_ack(Acked(bit))
  BY <1>2, OnErrorEnds DEF cec_transmit_receive_ack, AckedState, transmitVars
<1> QED BY <1>1, <1>2 DEF cec_receive_bit, ReceiveDataBit, ReceiveEomBit, ReceiveAckBit

(* Steps of the engine leave the message alone, give it up, or leave the   *)
(* interface with no message or with one that is yet to be begun.          *)
LEMMA EngineStepEnds ==
  ASSUME EngineStep
  PROVE  \/ UNCHANGED MessageVars
         \/ Aborted
         \/ transmit_state' \in {TRANSMIT_IDLE, TRANSMIT_PEND}
<1>1. CASE PollBetweenBytes \/ \E high \in BOOLEAN : ByteReceived(high)
  BY <1>1, OnErrorEnds
     DEF PollBetweenBytes, ByteReceived, LineCheck, transmitVars, historyVars, MessageVars
<1>2. CASE \E bit \in BOOLEAN : SampleBit(bit)
  BY <1>2, ReceiveBitEnds DEF SampleBit, MessageVars
<1>3. CASE NoTransition \/ EarlyFallingEdge
  BY <1>3, OnErrorEnds
     DEF NoTransition, EarlyFallingEdge, Lost, cec_receive_error, transmitVars, historyVars,
         MessageVars
<1>4. CASE StartLow \/ StartFrame
  BY <1>4 DEF StartLow, StartFrame, cec_receive_start, transmitVars, historyVars, MessageVars
<1>5. CASE AddrPeriodic
  BY <1>5
     DEF AddrPeriodic, cec_addr_periodic, AddrIdle, AddrPing, AddrGiveUp, AddrClaim, AddrWait,
         transmitVars, historyVars, MessageVars
<1>6. CASE Application
  <2>1. CASE \E m \in Messages : AppSend(m)
    BY <2>1 DEF AppSend
  <2>2. CASE AppClearHeader \/ \E set \in AddressSets : AppSetAddresses(set)
    BY <2>2 DEF AppClearHeader, AppSetAddresses, transmitVars, historyVars, MessageVars
  <2>3. CASE cec_halt
    BY <2>3 DEF cec_halt
  <2>4. CASE cec_init
    BY <2>4 DEF cec_init, AddrInitTransmitState, historyVars, MessageVars
  <2> QED BY <1>6, <2>1, <2>2, <2>3, <2>4 DEF Application
<1>7. CASE UNCHANGED vars
  BY <1>7 DEF vars, transmitVars, historyVars, MessageVars
<1> QED BY <1>1, <1>2, <1>3, <1>4, <1>5, <1>6, <1>7 DEF EngineStep

LEMMA MessageKept ==
  ASSUME [UsiNext]_usiAllVars, ~WriteByte, Transmitting'
  PROVE  UNCHANGED MessageVars
<1>1. ~(transmit_state' \in {TRANSMIT_IDLE, TRANSMIT_PEND, TRANSMIT_FAILED, TRANSMIT_AGAIN})
  BY DEF Transmitting, TRANSMIT_IDLE, TRANSMIT_FAILED, TRANSMIT_PEND, TRANSMIT_AGAIN
<1> QED BY <1>1, EngineSteps, EngineStepEnds DEF Aborted

-----------------------------------------------------------------------------
(***************************************************************************)
(* The bytes.  Overflows and calls alternate: after an overflow the byte   *)
(* in USIBR is one that was received, and a call replaces it before the    *)
(* next, if it comes in time.                                              *)
(***************************************************************************)
Clocked ==
  /\ InLoop => USIOIF
  /\ ~USIOIF => USICNT >= 8
  /\ USIOIF /\ mode # "halted" => USICNT <= IF InLoop THEN MaxLatency ELSE elapsed

LEMMA ClockedInit == UsiInit => Clocked
<1> SUFFICES ASSUME UsiInit PROVE Clocked
  OBVIOUS
<1>1. ~USIOIF /\ USICNT = 8 /\ ~InLoop
  BY DEF UsiInit, Init, InLoop
<1> QED BY <1>1 DEF Clocked

LEMMA ClockedTick ==
  ASSUME UsiTypeOK, Clocked, Tick
  PROVE  Clocked'
<1>1. ~InLoop /\ ~InLoop' /\ mode' = mode
  BY DEF Tick, InLoop, vars, driverVars
<1>2. USICNT \in Nat /\ elapsed \in Nat
  BY UsiAssumption DEF UsiTypeOK, UsiRegistersOK, BusOK
<1>3. CASE Overflow
  <2>1. USIOIF' /\ USICNT' = 0
    BY <1>3 DEF Overflow
  <2>2. mode # "halted" => elapsed' = elapsed + 1
    BY DEF Tick
  <2> QED BY <1>1, <1>2, <2>1, <2>2 DEF Clocked
<1>4. CASE Shift
  <2>1. USIOIF' = USIOIF /\ USICNT' = USICNT + 1
    BY <1>4 DEF Shift
  <2>2. mode # "halted" => elapsed' = elapsed + 1
    BY DEF Tick
  <2> QED BY <1>1, <1>2, <2>1, <2>2 DEF Clocked
<1> QED BY <1>3, <1>4 DEF Tick

(* Nothing but timer 0, the loading of a byte and a restart touches the    *)
(* counter.                                                                *)
LEMMA CounterKept ==
  ASSUME [UsiNext]_usiAllVars, ~Tick, ~WriteByte, ~UsiRestart
  PROVE  UNCHANGED <<USICNT, USIOIF, aired, out>>
<1>1. CASE PollOnly \/ PollByte
  BY <1>1 DEF PollOnly, PollByte, Poll
<1>2. CASE Sample \/ Edge
  BY <1>2 DEF Sample, Edge, busVars
<1>3. CASE CheckAck \/ cec_receive_do_ack \/ UsiAddrPeriodic
  BY <1>3 DEF CheckAck, cec_receive_do_ack, UsiAddrPeriodic, usiVars, busVars
<1>4. CASE UsiApplication
  BY <1>4 DEF UsiApplication, UsiHalt, usiDriverVars, usiVars, busVars
<1>5. CASE UNCHANGED usiAllVars
  BY <1>5 DEF usiAllVars, usiDriverVars, usiVars, busVars
<1> QED BY <1>1, <1>2, <1>3, <1>4, <1>5 DEF UsiNext, usi_periodic

(* Where the call is after a step, and when it began.                      *)
LEMMA LoopKept ==
  ASSUME [UsiNext]_usiAllVars, ~Tick, ~WriteByte, ~UsiRestart, HaltedIsQuiet, HaltedIsQuiet'
  PROVE  \/ UNCHANGED <<InLoop, elapsed>> /\ (mode' # "halted" => mode # "halted")
         \/ PollOnly /\ ~InLoop'
         \/ PollByte /\ ~InLoop /\ InLoop' /\ mode # "halted"
<1>1. CASE PollOnly
  BY <1>1 DEF PollOnly, PollBetweenBytes, InLoop
<1>2. CASE PollByte
  BY <1>2 DEF PollByte, ByteReceived, InLoop
<1>3. CASE Sample
  BY <1>3 DEF Sample, SampleBit, InLoop, busVars
<1>4. CASE Edge
  BY <1>4 DEF Edge, SameLevel, FallingEdge, RisingEdge, NoTransition, EarlyFallingEdge, Lost,
              StartLow, StartFrame, NoEvent, InLoop, busVars, vars, driverVars
<1>5. CASE CheckAck \/ cec_receive_do_ack
  BY <1>5 DEF CheckAck, cec_receive_do_ack, InLoop, busVars, vars, driverVars
<1>6. CASE UsiAddrPeriodic
  BY <1>6 DEF UsiAddrPeriodic, AddrPeriodic, InLoop, busVars, HaltedIsQuiet
<1>7. CASE UsiApplication
  BY <1>7 DEF UsiApplication, UsiHalt, cec_halt, AppTurn, AppSend, AppClearHeader, InLoop,
              usiDriverVars, busVars, driverVars
<1>8. CASE UNCHANGED usiAllVars
  BY <1>8 DEF usiAllVars, usiDriverVars, busVars, vars, driverVars, InLoop
<1> QED BY <1>1, <1>2, <1>3, <1>4, <1>5, <1>6, <1>7, <1>8 DEF UsiNext, usi_periodic

LEMMA ClockedNext ==
  ASSUME UsiTypeOK, HaltedIsQuiet, HaltedIsQuiet', Clocked, [UsiNext]_usiAllVars
  PROVE  Clocked'
<1>0. USICNT \in Nat /\ elapsed \in Nat /\ MaxLatency \in Nat /\ elapsed <= MaxLatency
  BY UsiAssumption DEF UsiTypeOK, UsiRegistersOK, BusOK
<1>1. CASE Tick
  BY <1>1, ClockedTick
<1>2. CASE WriteByte
  <2>1. ~USIOIF' /\ USICNT' = 8 + ShiftedIn /\ ~InLoop'
    BY <1>2 DEF WriteByte, NewCount, cec_usi_next_bit, InLoop
  <2>2. ShiftedIn \in Nat
    BY <1>0 DEF ShiftedIn
  <2> QED BY <2>1, <2>2 DEF Clocked
<1>3. CASE UsiRestart
  <2>1. ~USIOIF' /\ USICNT' = 8 /\ phase' = phase /\ mode = "halted"
    BY <1>3 DEF UsiRestart, cec_init
  <2>2. ~InLoop'
    BY <2>1 DEF HaltedIsQuiet, InLoop
  <2> QED BY <2>1, <2>2 DEF Clocked
<1>4. CASE ~Tick /\ ~WriteByte /\ ~UsiRestart
  <2>1. UNCHANGED <<USICNT, USIOIF>>
    BY <1>4, CounterKept
  <2>2. CASE UNCHANGED <<InLoop, elapsed>> /\ (mode' # "halted" => mode # "halted")
    BY <2>1, <2>2 DEF Clocked
  <2>3. CASE PollOnly /\ ~InLoop'
    <3>1. ~USIOIF
      BY <2>3 DEF PollOnly
    <3> QED BY <2>1, <2>3, <3>1 DEF Clocked
  <2>4. CASE PollByte /\ ~InLoop /\ InLoop' /\ mode # "halted"
    <3>1. USIOIF
      BY <2>4 DEF PollByte
    <3> QED BY <1>0, <2>1, <2>4, <3>1 DEF Clocked
  <2> QED BY <1>4, <2>2, <2>3, <2>4, LoopKept
<1> QED BY <1>1, <1>2, <1>3, <1>4

(* With less than sixteen ticks between two calls no overflow is missed.   *)
LEMMA OverflowsOnce ==
  ASSUME MaxLatency < 16, UsiTypeOK, Clocked, Tick, Overflow, mode # "halted"
  PROVE  ~USIOIF
<1>1. ~InLoop /\ elapsed < MaxLatency /\ USICNT = 15
  BY DEF Tick, Overflow, InLoop
<1>2. elapsed \in Nat /\ MaxLatency \in Nat
  BY UsiAssumption DEF UsiTypeOK, BusOK
<1> QED BY <1>1, <1>2 DEF Clocked

(* Bytes in USIBR that are still to go onto the line, and bytes of this    *)
(* transmission that were written to it.                                   *)
ToGo == IF USIOIF THEN 0 ELSE 1
Written == IF usi_xmit_state = USI_XMIT_START THEN 1 ELSE sent + 2

(* What was written is on the line, or is the next byte to be.             *)
InPlace ==
  Transmitting =>
    /\ usi_xmit_state # USI_XMIT_IDLE => aired + ToGo = Written /\ sent < MessageFrames
    /\ usi_xmit_state = USI_XMIT_START => sent = 0
    /\ usi_xmit_state = USI_XMIT_IDLE => aired + ToGo >= Written /\ sent = MessageFrames

LEMMA FramesFit ==
  ASSUME TransmitTypeOK
  PROVE  MessageFrames \in Nat /\ MessageFrames > 0 /\ MessageFrames + 3 <= AiredMax
<1>1. FRAME \in Nat /\ FRAME > 0 /\ CEC_BUFFER_SIZE \in Nat
  BY FrameSize, SizeAssumption
<1>2. transmit_buf_end \in Nat /\ transmit_buf_end + 1 <= CEC_BUFFER_SIZE
  BY <1>1 DEF TransmitTypeOK
<1> PICK n \in Nat : n = transmit_buf_end + 1
  BY <1>2
<1>3. FRAME * n \in Nat /\ FRAME * CEC_BUFFER_SIZE \in Nat
  BY <1>1
<1>4. FRAME * 0 + FRAME <= FRAME * n
  BY <1>1, <1>2, Multiples
<1>5. FRAME * n <= FRAME * CEC_BUFFER_SIZE
  <2>1. CASE n = CEC_BUFFER_SIZE
    BY <1>3, <2>1
  <2>2. CASE n < CEC_BUFFER_SIZE
    <3>1. FRAME * n + FRAME <= FRAME * CEC_BUFFER_SIZE
      BY <1>1, <2>2, Multiples
    <3> QED BY <1>1, <1>3, <3>1
  <2> QED BY <1>1, <1>2, <2>1, <2>2
<1>6. MessageFrames = FRAME * n
  BY DEF MessageFrames
<1> QED BY <1>1, <1>3, <1>4, <1>5, <1>6 DEF AiredMax

(* The state of the driver and that of the engine, in a message.           *)
LEMMA DriverStates ==
  ASSUME TransmitTypeOK, DriverInStep
  PROVE  /\ usi_xmit_state \in {USI_XMIT_IDLE, USI_XMIT_START, USI_XMIT_BITS}
         /\ usi_xmit_state # USI_XMIT_IDLE => Transmitting
         /\ Transmitting /\ usi_xmit_state = USI_XMIT_IDLE =>
              transmit_state = TRANSMIT_WAIT_FOR_ACK
  BY TransmittingStates DEF TransmitTypeOK, XmitState, DriverInStep

LEMMA InPlaceTick ==
  ASSUME MaxLatency < 16, TxInv, UsiTypeOK, Clocked, InPlace, Tick, Transmitting
  PROVE  InPlace'
<1>0. TransmitTypeOK /\ DriverInStep /\ mode # "halted" /\ sent \in Nat
  BY DEF TxInv, TypeOK, TxLockstep, HaltedIsQuiet, Transmitting, TRANSMIT_IDLE, TRANSMIT_AGAIN,
         HistoryTypeOK
<1>1. /\ UNCHANGED <<usi_xmit_state, sent, transmit_buf_end, transmit_state>>
  BY DEF Tick, vars, transmitVars, historyVars
<1>2. /\ MessageFrames' = MessageFrames /\ Written' = Written /\ Transmitting' = Transmitting
  BY <1>1 DEF MessageFrames, Written, Transmitting
<1>3. CASE Overflow
  <2>1. ~USIOIF /\ USIOIF'
    BY <1>0, <1>3, OverflowsOnce DEF Overflow
  <2>2. ToGo = 1 /\ ToGo' = 0
    BY <2>1 DEF ToGo
  <2>3. aired \in Nat /\ AiredMax \in Nat
    BY UsiConstants DEF UsiTypeOK, BusOK
  <2>4. aired' = aired + 1 \/ (aired >= AiredMax /\ aired' = aired)
    BY <1>3, <2>3 DEF Overflow
  <2>5. Written \in Nat /\ Written <= sent + 2 /\
        (usi_xmit_state = USI_XMIT_IDLE => Written = sent + 2)
    BY <1>0, States DEF Written
  <2> HIDE DEF Written, ToGo
  <2> QED BY <1>0, <1>1, <1>2, <2>2, <2>3, <2>4, <2>5, FramesFit DEF InPlace
<1>4. CASE Shift
  <2>1. aired' = aired /\ ToGo' = ToGo
    BY <1>4 DEF Shift, ToGo
  <2> QED BY <1>1, <1>2, <2>1 DEF InPlace
<1> QED BY <1>3, <1>4 DEF Tick

LEMMA InPlaceWrite ==
  ASSUME TxInv, BitSent, UsiTypeOK, Clocked, InPlace, WriteByte
  PROVE  InPlace'
<1>0. /\ TransmitTypeOK /\ DriverInStep /\ sent \in Nat /\ aired \in Nat
      /\ MessageFrames \in Nat /\ MessageFrames > 0
  BY FramesFit DEF TxInv, TypeOK, TxLockstep, HistoryTypeOK, UsiTypeOK, BusOK
<1>1. /\ ToGo = 0 /\ ToGo' = 1
  BY DEF ToGo, Clocked, WriteByte
<1>2. transmit_buf_end' = transmit_buf_end /\ MessageFrames' = MessageFrames
  BY DEF WriteByte, cec_usi_next_bit, NextBitNone, NextBitStart, NextBitStart1, NextBitData,
         cec_transmit_start, cec_transmit_get_bit, transmitVars, MessageFrames
<1>3. CASE NextBitNone
  <2>1. /\ aired' = aired /\ UNCHANGED <<usi_xmit_state, transmit_state, sent>>
        /\ usi_xmit_state = USI_XMIT_IDLE
    BY <1>3 DEF NextBitNone, WriteByte, transmitVars
  <2>2. Written' = Written /\ Transmitting' = Transmitting /\ Written = sent + 2
    BY <2>1, States DEF Written, Transmitting
  <2> QED BY <1>0, <1>1, <1>2, <2>1, <2>2, States DEF InPlace
<1>4. CASE NextBitStart
  <2>1. aired' = 0 /\ sent' = 0 /\ usi_xmit_state' = USI_XMIT_START
    BY <1>4 DEF NextBitStart, WriteByte
  <2>2. Written' = 1
    BY <2>1 DEF Written
  <2> QED BY <1>0, <1>1, <1>2, <2>1, <2>2, States DEF InPlace
<1>5. CASE NextBitStart1
  <2>1. /\ usi_xmit_state = USI_XMIT_START /\ usi_xmit_state' = USI_XMIT_BITS
        /\ sent' = sent /\ aired' = aired
    BY <1>5, States DEF NextBitStart1, WriteByte
  <2>2. Written = 1 /\ Written' = sent + 2
    BY <2>1, States DEF Written
  <2>3. sent = 0 /\ aired = 1
    BY <1>0, <1>1, <2>1, <2>2, States, DriverStates DEF InPlace
  <2> QED BY <1>0, <1>1, <1>2, <2>1, <2>2, <2>3, States DEF InPlace
<1>6. ASSUME NEW bit \in BOOLEAN, NextBitData(bit) PROVE InPlace'
  <2>1. /\ usi_xmit_state = USI_XMIT_BITS /\ sent' = sent + 1 /\ aired' = aired
        /\ usi_xmit_state' =
             IF transmit_state' = TRANSMIT_WAIT_FOR_ACK THEN USI_XMIT_IDLE ELSE USI_XMIT_BITS
    BY <1>6, States DEF NextBitData, WriteByte
  <2>2. Written = sent + 2 /\ Written' = sent + 3
    BY <1>0, <2>1, States DEF Written
  <2>3. aired = sent + 2
    BY <1>0, <1>1, <2>1, <2>2, States, DriverStates DEF InPlace
  <2>4. /\ sent' <= MessageFrames
        /\ transmit_state' = TRANSMIT_WAIT_FOR_ACK <=> sent' = MessageFrames
    BY <2>1 DEF BitSent, MessageFrames
  <2> QED BY <1>0, <1>1, <1>2, <2>1, <2>2, <2>3, <2>4, States DEF InPlace
<1> QED BY <1>3, <1>4, <1>5, <1>6 DEF WriteByte, cec_usi_next_bit

(* A restart finds the interface idle.                                     *)
LEMMA RestartIdle ==
  ASSUME HaltedIsQuiet, UsiRestart
  PROVE  ~Transmitting'
  BY DEF UsiRestart, cec_init, AddrInitTransmitState, HaltedIsQuiet, Transmitting, TRANSMIT_IDLE,
         TRANSMIT_AGAIN

LEMMA InPlaceNext ==
  ASSUME MaxLatency < 16, TxInv, BitSent, UsiTypeOK, Clocked, InPlace, [UsiNext]_usiAllVars
  PROVE  InPlace'
<1> SUFFICES ASSUME Transmitting' PROVE InPlace'
  BY DEF InPlace
<1>1. CASE Tick
  <2>1. Transmitting
    BY <1>1 DEF Tick, vars, transmitVars, Transmitting
  <2> QED BY <1>1, <2>1, InPlaceTick
<1>2. CASE WriteByte
  BY <1>2, InPlaceWrite
<1>3. CASE UsiRestart
  BY <1>3, RestartIdle DEF TxInv
<1>4. CASE ~Tick /\ ~WriteByte /\ ~UsiRestart
  <2>1. UNCHANGED MessageVars
    BY <1>4, MessageKept
  <2>2. aired' = aired /\ ToGo' = ToGo
    BY <1>4, CounterKept DEF ToGo
  <2>3. /\ MessageFrames' = MessageFrames /\ Written' = Written /\ Transmitting' = Transmitting
        /\ UNCHANGED <<usi_xmit_state, sent>>
    BY <2>1 DEF MessageVars, MessageFrames, Written, Transmitting
  <2> QED BY <2>2, <2>3 DEF InPlace
<1> QED BY <1>1, <1>2, <1>3, <1>4

-----------------------------------------------------------------------------
(***************************************************************************)
(* What is loaded is the next frame of the message, and nothing when there *)
(* is no message.  Two things can come between: an ack that is poked into  *)
(* USIBR, and an abort that leaves it as it is.                            *)
(***************************************************************************)
(* Nothing is acked from the first byte of a message of ours until it is   *)
(* done with.                                                              *)
QuietMeanwhile == step = "inject" => aired = AiredMax /\ ~GivenUp

(* A message is given up while a byte is processed, not between two.       *)
GivesUpInByte == [][Aborted => USIOIF \/ InLoop]_usiAllVars

FrameLoaded ==
  ~USIOIF /\ aired < AiredMax /\ Transmitting => USIBR = FramePattern(aired + 1)

NothingLoaded ==
  ~USIOIF /\ aired < AiredMax /\ ~Transmitting => USIBR = CEC_PAT_IDLE

LEMMA FramePatterns ==
  ASSUME MessageFrames \in Nat
  PROVE  /\ FramePattern(1) = CEC_PAT_START0
         /\ FramePattern(2) = CEC_PAT_START1
         /\ \A n \in 1..MessageFrames : FramePattern(n + 2) = Pattern(FrameBit(n))
         /\ \A k \in Nat : k > MessageFrames + 2 => FramePattern(k) = CEC_PAT_IDLE
<1>1. FramePattern(1) = CEC_PAT_START0
  BY DEF FramePattern, MessageFrames
<1>2. FramePattern(2) = CEC_PAT_START1
  BY DEF FramePattern, MessageFrames
<1>3. ASSUME NEW n \in 1..MessageFrames PROVE FramePattern(n + 2) = Pattern(FrameBit(n))
  <2>1. n + 2 # 1 /\ n + 2 # 2 /\ ~(n + 2 > MessageFrames + 2) /\ n + 2 - 2 = n
    OBVIOUS
  <2> QED BY <2>1 DEF FramePattern, MessageFrames
<1>4. ASSUME NEW k \in Nat, k > MessageFrames + 2 PROVE FramePattern(k) = CEC_PAT_IDLE
  <2>1. k # 1 /\ k # 2
    BY <1>4
  <2> QED BY <1>4, <2>1 DEF FramePattern, MessageFrames
<1> QED BY <1>1, <1>2, <1>3, <1>4

(* The frames are those of the message in the buffer.                      *)
LEMMA PatternKept ==
  ASSUME UNCHANGED <<transmit_buf, transmit_buf_end>>
  PROVE  /\ MessageFrames' = MessageFrames
         /\ \A k : FrameBit(k)' = FrameBit(k)
         /\ \A k : FramePattern(k)' = FramePattern(k)
<1>1. MessageFrames' = MessageFrames
  BY DEF MessageFrames
<1>2. ASSUME NEW k PROVE FrameBit(k)' = FrameBit(k)
  BY DEF FrameBit, FrameByte, FrameOffset
<1>3. ASSUME NEW k PROVE FramePattern(k)' = FramePattern(k)
  BY <1>2 DEF FramePattern
<1> QED BY <1>1, <1>2, <1>3

LEMMA LoadedWrite ==
  ASSUME TxInv, BitSent, UsiTypeOK, Clocked, InPlace, WriteByte
  PROVE  FrameLoaded' /\ NothingLoaded'
<1>0. /\ TransmitTypeOK /\ DriverInStep /\ sent \in Nat /\ aired \in Nat
      /\ MessageFrames \in Nat /\ MessageFrames > 0 /\ ToGo = 0
  BY FramesFit DEF TxInv, TypeOK, TxLockstep, HistoryTypeOK, UsiTypeOK, BusOK, ToGo, Clocked,
                   WriteByte
<1>1. UNCHANGED <<transmit_buf, transmit_buf_end>>
  BY DEF WriteByte, cec_usi_next_bit, NextBitNone, NextBitStart, NextBitStart1, NextBitData,
         cec_transmit_start, cec_transmit_get_bit, transmitVars
<1>2. /\ \A k : FramePattern(k)' = FramePattern(k)
      /\ \A k : FrameBit(k)' = FrameBit(k)
  BY <1>1, PatternKept
<1>3. CASE NextBitNone
  <2>1. /\ usi_xmit_state = USI_XMIT_IDLE /\ ~MayStart /\ aired' = aired
        /\ transmit_state' = transmit_state
    BY <1>3 DEF NextBitNone, WriteByte, transmitVars
  <2>2. USIBR' = CEC_PAT_IDLE
    BY <2>1, States DEF WriteByte, NextPattern
  <2>3. ASSUME Transmitting PROVE FramePattern(aired + 1) = CEC_PAT_IDLE
    <3>1. sent = MessageFrames /\ aired >= sent + 2
      BY <1>0, <2>1, <2>3, States DEF InPlace, Written
    <3> QED BY <1>0, <3>1, FramePatterns
  <2>4. Transmitting' = Transmitting
    BY <2>1 DEF Transmitting
  <2> QED BY <1>2, <2>1, <2>2, <2>3, <2>4 DEF FrameLoaded, NothingLoaded
<1>4. CASE NextBitStart
  <2>1. usi_xmit_state = USI_XMIT_IDLE /\ MayStart /\ transmit_state' = TRANSMIT_BIT_EOM
    BY <1>4 DEF NextBitStart, cec_transmit_start
  <2>2. USIBR' = CEC_PAT_START0 /\ aired' = 0
    BY <2>1, States DEF WriteByte, NextPattern
  <2>3. Transmitting'
    BY <2>1 DEF Transmitting, TRANSMIT_BIT_EOM, TRANSMIT_AGAIN
  <2>4. FramePattern(0 + 1) = CEC_PAT_START0
    BY <1>0, FramePatterns
  <2> QED BY <1>2, <2>2, <2>3, <2>4 DEF FrameLoaded, NothingLoaded
<1>5. CASE NextBitStart1
  <2>1. /\ usi_xmit_state = USI_XMIT_START /\ transmit_state' = transmit_state
        /\ aired' = aired
    BY <1>5, States DEF NextBitStart1, WriteByte
  <2>2. USIBR' = CEC_PAT_START1
    BY <2>1, States DEF WriteByte, NextPattern
  <2>3. Transmitting /\ Transmitting'
    BY <1>0, <2>1, States, DriverStates DEF Transmitting
  <2>4. aired = 1
    BY <1>0, <2>1, <2>3, States DEF InPlace, Written
  <2>5. FramePattern(1 + 1) = CEC_PAT_START1
    BY <1>0, FramePatterns
  <2> QED BY <1>2, <2>1, <2>2, <2>3, <2>4, <2>5 DEF FrameLoaded, NothingLoaded
<1>6. ASSUME NEW bit \in BOOLEAN, NextBitData(bit) PROVE FrameLoaded' /\ NothingLoaded'
  <2>1. usi_xmit_state = USI_XMIT_BITS /\ sent' = sent + 1 /\ aired' = aired
    BY <1>6, States DEF NextBitData, WriteByte
  <2>2. USIBR' = Pattern(transmit_last_bit'[2])
    BY <2>1, States DEF WriteByte, NextPattern
  <2>3. transmit_last_bit'[2] = FrameBit(sent') /\ sent' <= MessageFrames
    BY <2>1 DEF BitSent, MessageFrames
  <2>4. Transmitting
    BY <1>0, <2>1, States, DriverStates
  <2>5. aired = sent + 2
    BY <1>0, <2>1, <2>4, States DEF InPlace, Written
  <2>6. FramePattern(aired + 1) = Pattern(FrameBit(sent'))
    <3>1. sent' \in 1..MessageFrames /\ aired + 1 = sent' + 2
      BY <1>0, <2>1, <2>3, <2>5
    <3> QED BY <1>0, <3>1, FramePatterns
  <2>7. FramePattern(aired + 1)' = FramePattern(aired + 1)
    BY <1>2, <2>1
  <2>8. FrameLoaded'
    BY <2>1, <2>2, <2>3, <2>6, <1>2 DEF FrameLoaded
  <2>9. Transmitting'
    BY <1>6, <2>4 DEF NextBitData, cec_transmit_get_bit, GetDataBit, GetEomBit, GetAckBit,
                      Transmitting, TRANSMIT_AGAIN, TRANSMIT_BIT_EOM, TRANSMIT_ACK,
                      TRANSMIT_WAIT_FOR_ACK
  <2> QED BY <2>8, <2>9 DEF NothingLoaded
<1> QED BY <1>3, <1>4, <1>5, <1>6 DEF WriteByte, cec_usi_next_bit

(* The other steps that write USIBR.                                       *)
LEMMA BufferKept ==
  ASSUME [UsiNext]_usiAllVars, ~Tick, ~WriteByte, ~cec_receive_do_ack, ~UsiHalt, ~UsiRestart
  PROVE  USIBR' = USIBR
<1>1. CASE PollOnly \/ PollByte
  BY <1>1 DEF PollOnly, PollByte, Poll
<1>2. CASE Sample \/ Edge
  BY <1>2 DEF Sample, Edge
<1>3. CASE CheckAck \/ UsiAddrPeriodic
  BY <1>3 DEF CheckAck, UsiAddrPeriodic, usiVars
<1>4. CASE UsiApplication
  BY <1>4 DEF UsiApplication, usiDriverVars, usiVars
<1>5. CASE UNCHANGED usiAllVars
  BY <1>5 DEF usiAllVars, usiDriverVars, usiVars
<1> QED BY <1>1, <1>2, <1>3, <1>4, <1>5 DEF UsiNext, usi_periodic

LEMMA LoadedTick ==
  ASSUME Tick
  PROVE  (FrameLoaded => FrameLoaded') /\ (NothingLoaded => NothingLoaded')
<1>1. UNCHANGED <<transmit_state, transmit_buf, transmit_buf_end>>
  BY DEF Tick, vars, transmitVars
<1>2. Transmitting' = Transmitting /\ \A k : FramePattern(k)' = FramePattern(k)
  BY <1>1, PatternKept DEF Transmitting
<1>3. CASE Overflow
  BY <1>3 DEF Overflow, FrameLoaded, NothingLoaded
<1>4. CASE Shift
  BY <1>2, <1>4 DEF Shift, FrameLoaded, NothingLoaded
<1> QED BY <1>3, <1>4 DEF Tick

LEMMA FrameLoadedNext ==
  ASSUME TxInv, BitSent, UsiTypeOK, Clocked, InPlace, FrameLoaded, [UsiNext]_usiAllVars,
         AcksOutsideOurs \/ QuietMeanwhile
  PROVE  FrameLoaded'
<1>1. CASE Tick
  BY <1>1, LoadedTick
<1>2. CASE WriteByte
  BY <1>2, LoadedWrite
<1>3. CASE cec_receive_do_ack
  <2>1. UNCHANGED <<aired, transmit_state>> /\ step = "inject"
    BY <1>3 DEF cec_receive_do_ack, busVars, vars, transmitVars
  <2>2. CASE AcksOutsideOurs
    <3>1. ~Transmitting'
      BY <2>1, <2>2 DEF AcksOutsideOurs, Transmitting
    <3> QED BY <3>1 DEF FrameLoaded
  <2>3. CASE QuietMeanwhile
    <3>1. aired' = AiredMax /\ AiredMax \in Nat
      BY <2>1, <2>3, UsiConstants DEF QuietMeanwhile
    <3> QED BY <3>1 DEF FrameLoaded, AiredMax
  <2> QED BY <2>2, <2>3
<1>4. CASE UsiHalt
  <2>1. ~Transmitting'
    BY <1>4 DEF UsiHalt, cec_halt, Transmitting, TRANSMIT_IDLE, TRANSMIT_AGAIN
  <2> QED BY <2>1 DEF FrameLoaded
<1>5. CASE UsiRestart
  BY <1>5, RestartIdle DEF TxInv, FrameLoaded
<1>6. CASE ~Tick /\ ~WriteByte /\ ~cec_receive_do_ack /\ ~UsiHalt /\ ~UsiRestart
  <2> SUFFICES ASSUME Transmitting' PROVE FrameLoaded'
    BY DEF FrameLoaded
  <2>1. UNCHANGED MessageVars
    BY <1>6, MessageKept
  <2>2. Transmitting' = Transmitting /\ \A k : FramePattern(k)' = FramePattern(k)
    BY <2>1, PatternKept DEF MessageVars, Transmitting
  <2>3. UNCHANGED <<USIBR, USIOIF, aired>>
    BY <1>6, CounterKept, BufferKept
  <2> QED BY <2>2, <2>3 DEF FrameLoaded, AiredMax
<1> QED BY <1>1, <1>2, <1>3, <1>4, <1>5, <1>6

(* A message ends between two bytes only where the line is polled, or in   *)
(* cec_halt().                                                             *)
LEMMA BetweenBytes ==
  ASSUME TransmitTypeOK, [UsiNext]_usiAllVars, ~USIOIF, ~InLoop,
         ~PollOnly, ~WriteByte, ~UsiHalt, ~UsiRestart
  PROVE  Transmitting' = Transmitting
<1>1. CASE PollByte
  BY <1>1 DEF PollByte
<1>2. CASE Sample \/ Edge
  BY <1>2 DEF Sample, Edge, InSamples
<1>4. CASE Tick \/ CheckAck \/ cec_receive_do_ack
  BY <1>4 DEF Tick, CheckAck, cec_receive_do_ack, vars, transmitVars, Transmitting
<1>5. CASE UsiAddrPeriodic
  <2>1. \/ transmit_state' = transmit_state
        \/ transmit_state \in {TRANSMIT_IDLE, TRANSMIT_FAILED} /\ transmit_state' = TRANSMIT_PEND
    BY <1>5
       DEF UsiAddrPeriodic, AddrPeriodic, cec_addr_periodic, AddrIdle, AddrPing, AddrGiveUp,
           AddrClaim, AddrWait, transmitVars
  <2> QED BY <2>1 DEF Transmitting, TRANSMIT_IDLE, TRANSMIT_FAILED, TRANSMIT_PEND, TRANSMIT_AGAIN
<1>6. CASE UsiApplication
  <2>1. CASE \E m \in Messages : AppSend(m)
    <3>1. transmit_state' = TRANSMIT_PEND /\ transmit_state < TRANSMIT_PEND
      BY <2>1 DEF AppSend
    <3> QED BY <3>1, TransmittingStates, States
               DEF Transmitting, TRANSMIT_PEND, TRANSMIT_AGAIN, TRANSMIT_IDLE, TRANSMIT_FAILED
  <2>2. CASE AppClearHeader
    BY <2>2 DEF AppClearHeader, transmitVars, Transmitting
  <2> QED BY <1>6, <2>1, <2>2 DEF UsiApplication
<1>7. CASE UNCHANGED usiAllVars
  BY <1>7 DEF usiAllVars, vars, transmitVars, Transmitting
<1> QED BY <1>1, <1>2, <1>4, <1>5, <1>6, <1>7 DEF UsiNext, usi_periodic

LEMMA EndsInByte ==
  ASSUME TransmitTypeOK, Clocked, [UsiNext]_usiAllVars, Aborted => USIOIF \/ InLoop,
         ~WriteByte, ~UsiHalt, ~UsiRestart, ~USIOIF
  PROVE  Transmitting' = Transmitting
<1>0. ~InLoop /\ ~Aborted
  BY DEF Clocked
<1>1. CASE PollOnly
  <2>1. transmit_state' = transmit_state
    BY <1>0, <1>1, OnErrorEnds DEF PollOnly, PollBetweenBytes, LineCheck, transmitVars
  <2> QED BY <2>1 DEF Transmitting
<1>2. CASE ~PollOnly
  BY <1>0, <1>2, BetweenBytes
<1> QED BY <1>1, <1>2

LEMMA NothingLoadedNext ==
  ASSUME TxInv, BitSent, UsiTypeOK, Clocked, InPlace, QuietMeanwhile, NothingLoaded,
         [UsiNext]_usiAllVars, Aborted => USIOIF \/ InLoop
  PROVE  NothingLoaded'
<1>1. CASE Tick
  BY <1>1, LoadedTick
<1>2. CASE WriteByte
  BY <1>2, LoadedWrite
<1>3. CASE cec_receive_do_ack
  <2>1. aired' = aired /\ aired = AiredMax
    BY <1>3 DEF cec_receive_do_ack, busVars, QuietMeanwhile
  <2> QED BY <2>1 DEF NothingLoaded, AiredMax
<1>4. CASE UsiHalt \/ UsiRestart
  <2>1. USIBR' = CEC_PAT_IDLE
    BY <1>4 DEF UsiHalt, UsiRestart
  <2> QED BY <2>1 DEF NothingLoaded, CEC_PAT_IDLE
<1>5. CASE ~Tick /\ ~WriteByte /\ ~cec_receive_do_ack /\ ~UsiHalt /\ ~UsiRestart
  <2>1. UNCHANGED <<USIBR, USIOIF, aired>>
    BY <1>5, CounterKept, BufferKept
  <2>2. ~USIOIF => Transmitting' = Transmitting
    BY <1>5, EndsInByte DEF TxInv, TypeOK
  <2> QED BY <2>1, <2>2 DEF NothingLoaded, AiredMax
<1> QED BY <1>1, <1>2, <1>3, <1>4, <1>5

-----------------------------------------------------------------------------
(***************************************************************************)
(* What is loaded goes onto the line as it is, and once.                   *)
(***************************************************************************)
BytesInv == TxInv /\ BitsOut /\ UsiTypeOK /\ Clocked /\ InPlace

LEMMA BytesInvInit == UsiInit => BytesInv
<1> SUFFICES ASSUME UsiInit PROVE BytesInv
  OBVIOUS
<1>1. Init
  BY DEF UsiInit
<1>2. TxInv
  BY <1>1, TxInvInit
<1>3. BitsOut
  BY <1>1, States DEF Init, TransmitInit, BitsOut, Place
<1>4. InPlace
  BY <1>1 DEF Init, TransmitInit, InPlace, Transmitting, TRANSMIT_IDLE, TRANSMIT_AGAIN
<1> QED BY <1>2, <1>3, <1>4, UsiInitTyped, ClockedInit DEF BytesInv

LEMMA BytesInvNext ==
  ASSUME HaltPolicy # "anytime", MaxLatency < 16
  PROVE  BytesInv /\ [UsiNext]_usiAllVars => BytesInv' /\ BitSent
<1> SUFFICES ASSUME BytesInv, [UsiNext]_usiAllVars PROVE BytesInv' /\ BitSent
  OBVIOUS
<1>1. [Next]_vars
  BY UsiStep
<1>2. TxInv /\ TxInv'
  BY <1>1, TxInvNext DEF BytesInv
<1>3. BitsOut' /\ BitSent
  BY <1>1, <1>2, SendNext DEF BytesInv
<1>4. UsiTypeOK'
  BY UsiNextTyped DEF BytesInv
<1>5. Clocked'
  BY <1>2, ClockedNext DEF BytesInv, TxInv
<1>6. InPlace'
  BY <1>2, <1>3, InPlaceNext DEF BytesInv
<1> QED BY <1>2, <1>3, <1>4, <1>5, <1>6 DEF BytesInv

(* A byte goes onto the line when it is the first overflow since it was    *)
(* loaded.                                                                 *)
LEMMA ByteAired ==
  ASSUME MaxLatency < 16, BytesInv, [UsiNext]_usiAllVars, aired' = aired + 1, mode # "halted"
  PROVE  /\ ~USIOIF /\ aired < AiredMax /\ USIDR' = USIBR
         /\ UNCHANGED vars
<1>1. aired \in Nat /\ AiredMax \in Nat
  BY UsiConstants DEF BytesInv, UsiTypeOK, BusOK
<1>2. CASE Tick
  <2>1. Overflow
    BY <1>1, <1>2 DEF Tick, Shift
  <2>2. ~USIOIF
    BY <1>2, <2>1, OverflowsOnce DEF BytesInv
  <2> QED BY <1>1, <1>2, <2>1, <2>2 DEF Overflow, Tick
<1>3. CASE WriteByte
  BY <1>1, <1>3 DEF WriteByte
<1>4. CASE UsiRestart
  BY <1>1, <1>4 DEF UsiRestart
<1>5. CASE ~Tick /\ ~WriteByte /\ ~UsiRestart
  BY <1>1, <1>5, CounterKept
<1> QED BY <1>2, <1>3, <1>4, <1>5

AirsFrame == aired' = aired + 1 /\ Transmitting => USIDR' = FramePattern(aired')

LEMMA AirsFrameStep ==
  ASSUME MaxLatency < 16, BytesInv, FrameLoaded, [UsiNext]_usiAllVars
  PROVE  AirsFrame
<1> SUFFICES ASSUME aired' = aired + 1, Transmitting PROVE USIDR' = FramePattern(aired')
  BY DEF AirsFrame
<1>1. mode # "halted"
  BY DEF BytesInv, TxInv, HaltedIsQuiet, Transmitting, TRANSMIT_IDLE, TRANSMIT_AGAIN
<1>2. ~USIOIF /\ aired < AiredMax /\ USIDR' = USIBR
  BY <1>1, ByteAired
<1> QED BY <1>2 DEF FrameLoaded

(* Whatever the bus does and however late the calls are, up to a byte      *)
(* missed, the bytes that the shift register takes from its buffer during  *)
(* a message are the frames of this message, each once and in their order. *)
(* The condition is that cec_receive_do_ack(), which may write to USIBR,   *)
(* is not called meanwhile.  What becomes of a byte once it is loaded is   *)
(* the matter of AirsCorrect, which asks for calls less than a byte apart. *)
THEOREM AirsOwnCorrect ==
  ASSUME HaltPolicy # "anytime", MaxLatency < 16
  PROVE  UsiSpec /\ []AcksOutsideOurs => AirsOwnFrames
<1> DEFINE Inv == BytesInv /\ FrameLoaded
<1>1. UsiInit => Inv
  <2>1. UsiInit => FrameLoaded
    BY DEF UsiInit, FrameLoaded, AiredMax
  <2> QED BY <2>1, BytesInvInit
<1>2. Inv /\ AcksOutsideOurs /\ [UsiNext]_usiAllVars => Inv'
  <2> SUFFICES ASSUME Inv, AcksOutsideOurs, [UsiNext]_usiAllVars PROVE Inv'
    OBVIOUS
  <2>1. BytesInv' /\ BitSent
    BY BytesInvNext
  <2> QED BY <2>1, FrameLoadedNext DEF BytesInv
<1>3. Inv /\ [UsiNext]_usiAllVars => [AirsFrame]_usiAllVars
  BY AirsFrameStep
<1>4. AirsOwnFrames <=> [][AirsFrame]_usiAllVars
  BY DEF AirsOwnFrames, AirsFrame
<1> QED BY <1>1, <1>2, <1>3, <1>4, PTL DEF UsiSpec

-----------------------------------------------------------------------------
(***************************************************************************)
(* The line, tick by tick.                                                 *)
(***************************************************************************)
(* The bits of the byte that has yet to leave the shift register are those *)
(* of the frame that is due, or none.                                      *)
OutInStep == mode # "halted" => out = ShiftedIn

FrameLeaves ==
  Transmitting /\ aired \in 1..(AiredMax - 1)
    => \A i \in 1..(8 - out) : USIDR[i] = FramePattern(aired)[out + i]

NothingLeaves ==
  ~Transmitting /\ aired < AiredMax /\ mode # "halted" => \A i \in 1..(8 - out) : ~USIDR[i]

LineInv == OutInStep /\ FrameLeaves /\ NothingLeaves

(* A message of ours that is not given up ends behind its last frame: its  *)
(* last bit is the one that is sampled last.                               *)
EndsInTurn ==
  [][Transmitting /\ ~Transmitting' /\ ~Aborted /\ mode' # "halted"
       => aired > MessageFrames + 2]_usiAllVars

LEMMA ShiftedUp ==
  ASSUME UsiRegistersOK, NEW i \in 1..7
  PROVE  Shifted[i] = USIDR[i + 1]
<1>1. USIDR \in Seq(BOOLEAN) /\ Len(USIDR) = 8
  BY RegisterIsSeq DEF UsiRegistersOK
<1>2. Tail(USIDR) \in Seq(BOOLEAN) /\ Len(Tail(USIDR)) = 7
  BY <1>1
<1>3. Tail(USIDR)[i] = USIDR[i + 1]
  <2>1. USIDR # << >>
    <3>1. Len(<< >>) = 0
      OBVIOUS
    <3>2. 0 # 8
      OBVIOUS
    <3> QED BY <1>1, <3>1, <3>2, Zenon
  <2>2. \A k \in 1..Len(Tail(USIDR)) : Tail(USIDR)[k] = USIDR[k + 1]
    BY <1>1, <2>1, HeadTailProperties
  <2> QED BY <1>2, <2>2
<1>4. LineLow \in BOOLEAN
  BY DEF LineLow
<1>5. Append(Tail(USIDR), LineLow)[i] = Tail(USIDR)[i]
  <2>1. \A k \in 1..Len(Tail(USIDR)) : Append(Tail(USIDR), LineLow)[k] = Tail(USIDR)[k]
    BY <1>2, <1>4, AppendProperties
  <2> QED BY <1>2, <2>1
<1> QED BY <1>3, <1>5 DEF Shifted

(* What the other steps do to USIDR.                                       *)
LEMMA ShiftRegisterKept ==
  ASSUME [UsiNext]_usiAllVars, ~Tick, ~WriteByte, ~cec_receive_do_ack, ~UsiHalt, ~UsiRestart
  PROVE  cec_transmit_abort \/ (USIDR' = USIDR /\ ~Aborted)
<1>1. CASE PollOnly \/ PollByte
  <2>1. cec_transmit_abort
    BY <1>1 DEF PollOnly, PollByte, Poll
  <2> QED BY <2>1
<1>2. CASE Sample \/ Edge
  <2>1. cec_transmit_abort
    BY <1>2 DEF Sample, Edge
  <2> QED BY <2>1
<1>3. CASE CheckAck
  BY <1>3 DEF CheckAck, usiVars, vars, transmitVars, Aborted, Transmitting, TRANSMIT_FAILED,
              TRANSMIT_AGAIN
<1>4. CASE UsiAddrPeriodic
  <2>1. transmit_state' = transmit_state \/ transmit_state' = TRANSMIT_PEND
    BY <1>4
       DEF UsiAddrPeriodic, AddrPeriodic, cec_addr_periodic, AddrIdle, AddrPing, AddrGiveUp,
           AddrClaim, AddrWait, transmitVars
  <2> QED BY <1>4, <2>1 DEF UsiAddrPeriodic, usiVars, Aborted, Transmitting, TRANSMIT_FAILED,
                            TRANSMIT_AGAIN, TRANSMIT_PEND
<1>5. CASE UsiApplication
  <2>1. transmit_state' = transmit_state \/ transmit_state' = TRANSMIT_PEND
    BY <1>5 DEF UsiApplication, AppSend, AppClearHeader, transmitVars
  <2> QED BY <1>5, <2>1 DEF UsiApplication, usiDriverVars, usiVars, Aborted, Transmitting,
                            TRANSMIT_FAILED, TRANSMIT_AGAIN, TRANSMIT_PEND
<1>6. CASE UNCHANGED usiAllVars
  BY <1>6 DEF usiAllVars, usiDriverVars, usiVars, vars, transmitVars, Aborted, Transmitting,
              TRANSMIT_FAILED, TRANSMIT_AGAIN
<1> QED BY <1>1, <1>2, <1>3, <1>4, <1>5, <1>6 DEF UsiNext, usi_periodic

(* With less than a byte between two calls the eighth bit leaves with the  *)
(* overflow, never a sample behind it.                                     *)
LEMMA BitLeaves ==
  ASSUME MaxLatency < 8, UsiTypeOK, Clocked, Clocked', OutInStep, Tick, mode # "halted"
  PROVE  /\ Overflow => out = 7 /\ out' = 0 /\ ShiftedIn' = 0
         /\ Shift => out \in 0..6 /\ out' = out + 1 /\ ShiftedIn' = out + 1
<1>0. /\ out = ShiftedIn /\ USICNT \in 0..15 /\ mode' # "halted" /\ ~InLoop'
      /\ elapsed' \in Nat /\ elapsed' <= MaxLatency /\ MaxLatency \in Nat
  BY UsiAssumption DEF OutInStep, UsiTypeOK, UsiRegistersOK, BusOK, Tick, vars, driverVars, InLoop
<1>1. CASE Overflow
  BY <1>0, <1>1 DEF Overflow, Shift, ShiftedIn
<1>2. CASE Shift
  <2>1. USICNT \in 0..14 /\ USICNT' = USICNT + 1 /\ USIOIF' = USIOIF
    BY <1>0, <1>2 DEF Shift
  <2>2. USICNT # 7
    BY <1>0, <2>1 DEF Clocked
  <2>3. ShiftedIn' = ShiftedIn + 1 /\ ShiftedIn \in 0..6
    BY <2>1, <2>2 DEF ShiftedIn
  <2> QED BY <1>0, <1>2, <2>1, <2>3 DEF Shift, Overflow
<1> QED BY <1>1, <1>2 DEF Tick

LEMMA OutInStepNext ==
  ASSUME MaxLatency < 8, UsiTypeOK, HaltedIsQuiet, HaltedIsQuiet', Clocked, Clocked', OutInStep,
         [UsiNext]_usiAllVars
  PROVE  OutInStep'
<1> SUFFICES ASSUME mode' # "halted" PROVE out' = ShiftedIn'
  BY DEF OutInStep
<1>1. CASE Tick
  <2>1. mode # "halted"
    BY <1>1 DEF Tick, vars, driverVars
  <2> QED BY <1>1, <2>1, BitLeaves DEF Tick
<1>2. CASE WriteByte
  <2>1. mode # "halted" /\ out' = out
    BY <1>2 DEF WriteByte, cec_usi_next_bit, driverVars
  <2>2. ShiftedIn' = ShiftedIn
    BY <1>2 DEF WriteByte, NewCount, ShiftedIn, UsiTypeOK, UsiRegistersOK
  <2> QED BY <2>1, <2>2 DEF OutInStep
<1>3. CASE UsiRestart
  BY <1>3 DEF UsiRestart, ShiftedIn
<1>4. CASE ~Tick /\ ~WriteByte /\ ~UsiRestart
  <2>1. UNCHANGED <<USICNT, out>>
    BY <1>4, CounterKept
  <2>2. mode # "halted"
    BY <1>4, LoopKept DEF PollOnly, PollBetweenBytes
  <2> QED BY <2>1, <2>2 DEF OutInStep, ShiftedIn
<1> QED BY <1>1, <1>2, <1>3, <1>4

LEMMA LineTick ==
  ASSUME MaxLatency < 8, BytesInv, Clocked', FrameLoaded, NothingLoaded, LineInv, Tick,
         mode # "halted"
  PROVE  FrameLeaves' /\ NothingLeaves'
<1>0. /\ UNCHANGED <<transmit_state, transmit_buf, transmit_buf_end, mode>>
      /\ aired \in 0..AiredMax /\ AiredMax \in Nat
  BY UsiConstants DEF Tick, vars, transmitVars, driverVars, BytesInv, UsiTypeOK, BusOK
<1>1. Transmitting' = Transmitting /\ \A k : FramePattern(k)' = FramePattern(k)
  BY <1>0, PatternKept DEF Transmitting
<1>2. CASE Overflow
  <2>1. out' = 0 /\ USIDR' = USIBR /\ ~USIOIF
    <3>1. MaxLatency < 16
      BY UsiAssumption
    <3> QED BY <1>2, <3>1, OverflowsOnce DEF Overflow, BytesInv
  <2>2. aired' \in 1..(AiredMax - 1) \/ aired' < AiredMax
          => aired' = aired + 1 /\ aired < AiredMax
    BY <1>0, <1>2 DEF Overflow
  <2>3. CASE aired' = aired + 1 /\ aired < AiredMax /\ Transmitting
    <3>1. USIDR' = FramePattern(aired + 1)
      BY <2>1, <2>3 DEF FrameLoaded
    <3>2. FramePattern(aired)' = FramePattern(aired + 1)
      BY <1>1, <2>3
    <3>3. \A i \in 1..(8 - out') : out' + i = i
      BY <2>1
    <3> QED BY <1>1, <2>3, <3>1, <3>2, <3>3 DEF FrameLeaves, NothingLeaves
  <2>4. CASE aired' = aired + 1 /\ aired < AiredMax /\ ~Transmitting
    <3>1. USIDR' = CEC_PAT_IDLE
      BY <2>1, <2>4 DEF NothingLoaded
    <3>2. \A i \in 1..(8 - out') : ~USIDR'[i]
      BY <2>1, <3>1 DEF CEC_PAT_IDLE
    <3> QED BY <1>1, <2>4, <3>2 DEF FrameLeaves, NothingLeaves
  <2> QED BY <2>2, <2>3, <2>4 DEF FrameLeaves, NothingLeaves
<1>3. CASE Shift
  <2>1. out \in 0..6 /\ out' = out + 1 /\ aired' = aired
    BY <1>3, BitLeaves DEF LineInv, BytesInv, Shift
  <2>2. ASSUME NEW i \in 1..(8 - out')
        PROVE  /\ i + 1 \in 1..(8 - out) /\ USIDR'[i] = USIDR[i + 1]
               /\ out' + i = out + (i + 1)
    <3>1. i \in 1..7 /\ i + 1 \in 1..(8 - out) /\ out' + i = out + (i + 1)
      BY <2>1
    <3> QED BY <1>3, <3>1, ShiftedUp DEF Shift, BytesInv, UsiTypeOK
  <2>3. FrameLeaves'
    <3> SUFFICES ASSUME Transmitting', aired' \in 1..(AiredMax - 1), NEW i \in 1..(8 - out')
                 PROVE  USIDR'[i] = FramePattern(aired)'[out' + i]
      BY <1>0 DEF FrameLeaves
    <3>1. USIDR[i + 1] = FramePattern(aired)[out + (i + 1)]
      BY <1>1, <2>1, <2>2 DEF LineInv, FrameLeaves
    <3> QED BY <1>1, <2>1, <2>2, <3>1
  <2>4. NothingLeaves'
    BY <1>0, <1>1, <2>1, <2>2 DEF LineInv, NothingLeaves
  <2> QED BY <2>3, <2>4
<1> QED BY <1>2, <1>3 DEF Tick

LEMMA LineWrite ==
  ASSUME TxInv, LineInv, WriteByte
  PROVE  FrameLeaves' /\ NothingLeaves'
<1>0. TransmitTypeOK /\ DriverInStep
  BY DEF TxInv, TypeOK, TxLockstep
<1>1. /\ UNCHANGED <<transmit_buf, transmit_buf_end, USIDR, out, mode>>
      /\ \A k : FramePattern(k)' = FramePattern(k)
  <2>1. UNCHANGED <<transmit_buf, transmit_buf_end, USIDR, out, mode>>
    BY DEF WriteByte, cec_usi_next_bit, NextBitNone, NextBitStart, NextBitStart1, NextBitData,
           cec_transmit_start, cec_transmit_get_bit, transmitVars, driverVars
  <2> QED BY <2>1, PatternKept
<1>2. CASE NextBitStart
  <2>1. /\ usi_xmit_state = USI_XMIT_IDLE /\ MayStart /\ transmit_state' = TRANSMIT_BIT_EOM
    BY <1>2 DEF NextBitStart, cec_transmit_start
  <2>2. aired' = 0 /\ Transmitting'
    BY <2>1 DEF WriteByte, Transmitting, TRANSMIT_BIT_EOM, TRANSMIT_AGAIN
  <2> QED BY <2>2 DEF FrameLeaves, NothingLeaves
<1>3. CASE ~NextBitStart
  <2>1. aired' = aired /\ Transmitting' = Transmitting
    <3>1. CASE NextBitNone
      BY <3>1, States DEF NextBitNone, WriteByte, transmitVars, Transmitting
    <3>2. CASE NextBitStart1
      BY <3>2, States DEF NextBitStart1, WriteByte, Transmitting
    <3>3. ASSUME NEW bit \in BOOLEAN, NextBitData(bit)
          PROVE  aired' = aired /\ Transmitting' = Transmitting
      <4>1. usi_xmit_state = USI_XMIT_BITS /\ aired' = aired
        BY <3>3, States DEF NextBitData, WriteByte
      <4>2. Transmitting
        BY <1>0, <4>1, States, DriverStates
      <4>3. Transmitting'
        BY <3>3, <4>2 DEF NextBitData, cec_transmit_get_bit, GetDataBit, GetEomBit, GetAckBit,
                          Transmitting, TRANSMIT_AGAIN, TRANSMIT_BIT_EOM, TRANSMIT_ACK,
                          TRANSMIT_WAIT_FOR_ACK
      <4> QED BY <4>1, <4>2, <4>3
    <3> QED BY <1>3, <3>1, <3>2, <3>3 DEF WriteByte, cec_usi_next_bit
  <2> QED BY <1>1, <2>1 DEF LineInv, FrameLeaves, NothingLeaves
<1> QED BY <1>2, <1>3

LEMMA LineNext ==
  ASSUME MaxLatency < 8, BytesInv, Clocked', HaltedIsQuiet', FrameLoaded, NothingLoaded, LineInv,
         QuietMeanwhile, [UsiNext]_usiAllVars,
         Transmitting /\ ~Transmitting' /\ ~Aborted /\ mode' # "halted"
           => aired > MessageFrames + 2
  PROVE  LineInv'
<1>0. /\ TxInv /\ TransmitTypeOK /\ HaltedIsQuiet /\ UsiTypeOK
      /\ aired \in 0..AiredMax /\ AiredMax \in Nat
  BY UsiConstants DEF BytesInv, TxInv, TypeOK, UsiTypeOK, BusOK
<1>1. OutInStep'
  BY <1>0, OutInStepNext DEF LineInv, BytesInv
<1>2. CASE Tick
  <2>1. CASE mode = "halted"
    <3>1. mode' = "halted" /\ transmit_state' = TRANSMIT_IDLE
      BY <1>0, <1>2, <2>1 DEF Tick, vars, driverVars, transmitVars, HaltedIsQuiet
    <3> QED BY <1>1, <3>1
            DEF LineInv, FrameLeaves, NothingLeaves, Transmitting, TRANSMIT_IDLE, TRANSMIT_AGAIN
  <2> QED BY <1>1, <1>2, <2>1, LineTick DEF LineInv
<1>3. CASE WriteByte
  BY <1>0, <1>1, <1>3, LineWrite DEF LineInv
<1>4. CASE cec_receive_do_ack
  <2>1. aired' = aired /\ aired = AiredMax
    BY <1>4 DEF cec_receive_do_ack, busVars, QuietMeanwhile
  <2> QED BY <1>0, <1>1, <2>1 DEF LineInv, FrameLeaves, NothingLeaves, AiredMax
<1>5. CASE UsiHalt
  <2>1. mode' = "halted" /\ transmit_state' = TRANSMIT_IDLE
    BY <1>5 DEF UsiHalt, cec_halt
  <2> QED BY <1>1, <2>1
          DEF LineInv, FrameLeaves, NothingLeaves, Transmitting, TRANSMIT_IDLE, TRANSMIT_AGAIN
<1>6. CASE UsiRestart
  <2>1. USIDR' = CEC_PAT_IDLE /\ out' = 0 /\ ~Transmitting'
    BY <1>0, <1>6, RestartIdle DEF UsiRestart
  <2>2. \A i \in 1..(8 - out') : ~USIDR'[i]
    BY <2>1 DEF CEC_PAT_IDLE
  <2> QED BY <1>1, <2>1, <2>2 DEF LineInv, FrameLeaves, NothingLeaves
<1>7. CASE ~Tick /\ ~WriteByte /\ ~cec_receive_do_ack /\ ~UsiHalt /\ ~UsiRestart
  <2>1. UNCHANGED <<USICNT, aired, out>> /\ AiredMax' = AiredMax
    BY <1>7, CounterKept DEF AiredMax
  <2>2. mode' # "halted" => mode # "halted"
    BY <1>0, <1>7, LoopKept DEF PollOnly, PollBetweenBytes
  <2>3. cec_transmit_abort \/ (USIDR' = USIDR /\ ~Aborted)
    BY <1>7, ShiftRegisterKept
  <2>4. CASE Transmitting'
    <3>1. UNCHANGED MessageVars
      BY <1>7, <2>4, MessageKept
    <3>2. Transmitting /\ ~Aborted /\ \A k : FramePattern(k)' = FramePattern(k)
      BY <2>4, <3>1, PatternKept DEF MessageVars, Transmitting, Aborted, TRANSMIT_FAILED,
                                     TRANSMIT_AGAIN
    <3>3. USIDR' = USIDR
      BY <2>3, <3>2 DEF cec_transmit_abort
    <3>4. FramePattern(aired)' = FramePattern(aired)
      BY <2>1, <3>2
    <3> QED BY <1>1, <2>1, <2>4, <3>2, <3>3, <3>4 DEF LineInv, FrameLeaves, NothingLeaves
  <2>5. CASE ~Transmitting'
    <3> SUFFICES ASSUME aired < AiredMax, mode' # "halted", NEW i \in 1..(8 - out) PROVE ~USIDR'[i]
      BY <1>1, <2>1, <2>5 DEF LineInv, FrameLeaves, NothingLeaves
    <3>1. out = ShiftedIn /\ out \in 0..7 /\ i \in 1..8
      BY <1>0, <2>2 DEF LineInv, OutInStep, ShiftedIn, UsiTypeOK, UsiRegistersOK
    <3>2. CASE Aborted
      <4>1. USIDR' = [j \in 1..8 |-> j > 8 - ShiftedIn /\ USIDR[j]]
        BY <2>3, <3>2 DEF cec_transmit_abort
      <4>2. i \in 1..8 /\ ~(i > 8 - ShiftedIn)
        BY <3>1
      <4> QED BY <4>1, <4>2
    <3>3. CASE ~Aborted
      <4>1. USIDR' = USIDR
        BY <2>3, <3>3 DEF cec_transmit_abort
      <4>2. CASE ~Transmitting
        BY <2>2, <3>1, <4>1, <4>2 DEF LineInv, NothingLeaves
      <4>3. CASE Transmitting
        <5>1. aired > MessageFrames + 2 /\ MessageFrames \in Nat /\ aired \in 1..(AiredMax - 1)
          BY <1>0, <2>5, <3>3, <4>3, FramesFit
        <5>2. USIDR[i] = CEC_PAT_IDLE[out + i] /\ out + i \in 1..8
          BY <3>1, <4>3, <5>1, FramePatterns DEF LineInv, FrameLeaves
        <5> QED BY <4>1, <5>2 DEF CEC_PAT_IDLE
      <4> QED BY <4>2, <4>3
    <3> QED BY <3>2, <3>3
  <2> QED BY <2>4, <2>5
<1> QED BY <1>2, <1>3, <1>4, <1>5, <1>6, <1>7

LEMMA LineInOrder ==
  ASSUME BytesInv, LineInv
  PROVE  InOrder
<1>1. ASSUME mode # "halted" PROVE out \in 0..7 /\ 1 \in 1..(8 - out)
  BY <1>1 DEF BytesInv, LineInv, OutInStep, ShiftedIn, UsiTypeOK, UsiRegistersOK
<1>2. Transmitting => mode # "halted"
  BY DEF BytesInv, TxInv, HaltedIsQuiet, Transmitting, TRANSMIT_IDLE, TRANSMIT_AGAIN
<1> QED BY <1>1, <1>2 DEF LineInv, FrameLeaves, NothingLeaves, InOrder

LEMMA LastsEight ==
  ASSUME MaxLatency < 16, BytesInv, OutInStep, [UsiNext]_usiAllVars
  PROVE  LastsEightTicks
<1> SUFFICES ASSUME aired' = aired + 1, Transmitting PROVE out = 7
  BY DEF LastsEightTicks
<1>1. aired \in Nat /\ mode # "halted"
  BY DEF BytesInv, TxInv, HaltedIsQuiet, Transmitting, TRANSMIT_IDLE, TRANSMIT_AGAIN, UsiTypeOK,
         BusOK
<1>2. Tick /\ Overflow
  <2>1. CASE WriteByte
    BY <1>1, <2>1 DEF WriteByte
  <2>2. CASE UsiRestart
    BY <1>1, <2>2 DEF UsiRestart
  <2>3. CASE ~Tick /\ ~WriteByte /\ ~UsiRestart
    BY <1>1, <2>3, CounterKept
  <2> QED BY <1>1, <2>1, <2>2, <2>3 DEF Tick, Shift
<1> QED BY <1>1, <1>2 DEF OutInStep, ShiftedIn, Overflow

(* While the calls are less than a byte apart, each tick of a message and  *)
(* of what follows puts on the line what the message wants there: no frame *)
(* is cut short or repeated, no sample is sent on, and nothing is left     *)
(* over at the end of the message or of an abort.  That asks for three     *)
(* things of the bus: there is nothing to ack meanwhile, which might go    *)
(* into the same registers; no message is given up between two USI bytes,  *)
(* where the byte that is loaded goes out, as cec_transmit_abort() masks   *)
(* the other one only; and a message that goes well ends with the sample   *)
(* of its last bit.                                                        *)
THEOREM AirsCorrect ==
  ASSUME HaltPolicy # "anytime", MaxLatency < 8
  PROVE  UsiSpec /\ []QuietMeanwhile /\ GivesUpInByte /\ EndsInTurn => AirsTheMessage
<1> DEFINE Inv == BytesInv /\ FrameLoaded /\ NothingLoaded /\ LineInv
           InByte == Aborted => USIOIF \/ InLoop
           InTurn == Transmitting /\ ~Transmitting' /\ ~Aborted /\ mode' # "halted"
                       => aired > MessageFrames + 2
<1>0. MaxLatency < 16
  BY UsiAssumption
<1>1. UsiInit => Inv
  <2>1. UsiInit => FrameLoaded /\ NothingLoaded
    BY DEF UsiInit, FrameLoaded, NothingLoaded, AiredMax
  <2>2. UsiInit => LineInv
    <3> SUFFICES ASSUME UsiInit PROVE LineInv
      OBVIOUS
    <3>1. USICNT = 8 /\ out = 0 /\ aired = AiredMax /\ AiredMax \in Nat
      BY UsiConstants DEF UsiInit
    <3> QED BY <3>1 DEF LineInv, OutInStep, FrameLeaves, NothingLeaves, ShiftedIn, AiredMax
  <2> QED BY <2>1, <2>2, BytesInvInit
<1>2. Inv /\ QuietMeanwhile /\ [UsiNext]_usiAllVars /\ [InByte]_usiAllVars /\ [InTurn]_usiAllVars
        => Inv' /\ LastsEightTicks
  <2> SUFFICES ASSUME Inv, QuietMeanwhile, [UsiNext]_usiAllVars, [InByte]_usiAllVars,
                      [InTurn]_usiAllVars
               PROVE  Inv' /\ LastsEightTicks
    OBVIOUS
  <2>1. BytesInv' /\ BitSent
    BY <1>0, BytesInvNext
  <2>2. FrameLoaded'
    BY <2>1, FrameLoadedNext DEF BytesInv
  <2>3. InByte /\ InTurn
    <3>1. CASE UNCHANGED usiAllVars
      BY <3>1 DEF usiAllVars, vars, transmitVars, Aborted, Transmitting, TRANSMIT_FAILED, TRANSMIT_AGAIN
    <3> QED BY <3>1
  <2>4. NothingLoaded'
    BY <2>1, <2>3, NothingLoadedNext DEF BytesInv
  <2>5. LineInv'
    BY <2>1, <2>3, LineNext DEF BytesInv, TxInv
  <2> QED BY <1>0, <2>1, <2>2, <2>4, <2>5, LastsEight DEF LineInv
<1>3. Inv => InOrder
  BY LineInOrder
<1>4. GivesUpInByte <=> [][InByte]_usiAllVars
  BY DEF GivesUpInByte
<1>5. EndsInTurn <=> [][InTurn]_usiAllVars
  BY DEF EndsInTurn
<1>6. AirsTheMessage <=> [][InOrder' /\ LastsEightTicks]_usiAllVars
  BY DEF AirsTheMessage
<1> QED BY <1>1, <1>2, <1>3, <1>4, <1>5, <1>6, PTL DEF UsiSpec

-----------------------------------------------------------------------------
(***************************************************************************)
(* A message that is given up leaves the line at once.                     *)
(***************************************************************************)
(* The bits of USIDR that are still to be sent, and the byte behind them.  *)
Masked ==
  GivenUp => /\ \A i \in 1..(8 - ShiftedIn) : ~USIDR[i]
             /\ ~USIOIF => USIBR = CEC_PAT_IDLE

LEMMA MaskedTick ==
  ASSUME MaxLatency < 8, TxInv, UsiTypeOK, Clocked, Clocked', Masked, Tick
  PROVE  Masked'
<1> SUFFICES ASSUME GivenUp' PROVE Masked'
  BY DEF Masked
<1>0. /\ GivenUp /\ mode # "halted" /\ mode' # "halted" /\ ~InLoop /\ ~InLoop'
      /\ elapsed' \in Nat /\ elapsed' <= MaxLatency /\ MaxLatency \in Nat
  <2>1. /\ GivenUp /\ UNCHANGED <<mode, phase>>
    BY DEF Tick, vars, transmitVars, driverVars, GivenUp
  <2>2. mode # "halted"
    BY <2>1, States DEF TxInv, HaltedIsQuiet, GivenUp
  <2> QED BY <2>1, <2>2, UsiAssumption DEF Tick, InLoop, UsiTypeOK, BusOK
<1>1. CASE Overflow
  <2>1. /\ USIDR' = USIBR /\ USIOIF' /\ ~USIOIF
    <3>1. MaxLatency < 16
      BY <1>0
    <3> QED BY <1>0, <1>1, <3>1, OverflowsOnce DEF Overflow
  <2>2. USIDR' = CEC_PAT_IDLE
    BY <1>0, <2>1 DEF Masked
  <2>3. ShiftedIn' = 0
    BY <1>1 DEF Overflow, ShiftedIn
  <2> QED BY <2>1, <2>2, <2>3 DEF Masked, CEC_PAT_IDLE
<1>2. CASE Shift
  <2>1. USICNT \in 0..14 /\ USICNT' = USICNT + 1 /\ UNCHANGED <<USIBR, USIOIF>>
    BY <1>2 DEF Shift, UsiTypeOK, UsiRegistersOK
  <2>2. USICNT # 7
    BY <1>0, <2>1 DEF Clocked
  <2>3. ShiftedIn' = ShiftedIn + 1 /\ ShiftedIn \in 0..6
    BY <2>1, <2>2 DEF ShiftedIn
  <2>4. ASSUME NEW i \in 1..(8 - ShiftedIn') PROVE ~USIDR'[i]
    <3>1. i \in 1..7 /\ i + 1 \in 1..(8 - ShiftedIn)
      BY <2>3
    <3>2. USIDR'[i] = USIDR[i + 1]
      BY <1>2, <3>1, ShiftedUp DEF Shift, UsiTypeOK
    <3> QED BY <1>0, <3>1, <3>2 DEF Masked
  <2> QED BY <1>0, <2>1, <2>4 DEF Masked
<1> QED BY <1>1, <1>2 DEF Tick

LEMMA MaskedWrite ==
  ASSUME TxInv, UsiTypeOK, Masked, WriteByte
  PROVE  Masked'
<1> SUFFICES ASSUME GivenUp' PROVE Masked'
  BY DEF Masked
<1>0. TransmitTypeOK /\ DriverInStep
  BY DEF TxInv, TypeOK, TxLockstep
<1>1. /\ transmit_state' = transmit_state /\ usi_xmit_state = USI_XMIT_IDLE /\ ~MayStart
  <2>1. CASE NextBitNone
    BY <2>1 DEF NextBitNone, transmitVars
  <2>2. CASE NextBitStart
    BY <2>2, States DEF NextBitStart, cec_transmit_start, GivenUp
  <2>3. CASE NextBitStart1
    <3>1. usi_xmit_state = USI_XMIT_START /\ transmit_state' = transmit_state
      BY <2>3 DEF NextBitStart1
    <3> QED BY <1>0, <3>1, States, DriverStates DEF GivenUp, Transmitting, TRANSMIT_FAILED, TRANSMIT_AGAIN
  <2>4. ASSUME NEW bit \in BOOLEAN, NextBitData(bit) PROVE FALSE
    <3>1. Transmitting
      BY <1>0, <2>4, States, DriverStates DEF NextBitData
    <3>2. Transmitting'
      BY <2>4, <3>1 DEF NextBitData, cec_transmit_get_bit, GetDataBit, GetEomBit, GetAckBit,
                        Transmitting, TRANSMIT_AGAIN, TRANSMIT_BIT_EOM, TRANSMIT_ACK,
                        TRANSMIT_WAIT_FOR_ACK
    <3> QED BY <3>2 DEF GivenUp, Transmitting, TRANSMIT_FAILED, TRANSMIT_AGAIN
  <2> QED BY <2>1, <2>2, <2>3, <2>4 DEF WriteByte, cec_usi_next_bit
<1>2. USIBR' = CEC_PAT_IDLE /\ USIDR' = USIDR
  BY <1>1, States DEF WriteByte, NextPattern
<1>3. ShiftedIn' = ShiftedIn
  BY DEF WriteByte, NewCount, ShiftedIn, UsiTypeOK, UsiRegistersOK
<1>4. GivenUp
  BY <1>1 DEF GivenUp
<1> QED BY <1>2, <1>3, <1>4 DEF Masked

LEMMA MaskedNext ==
  ASSUME MaxLatency < 8, TxInv, UsiTypeOK, Clocked, Clocked', Masked, QuietMeanwhile,
         [UsiNext]_usiAllVars, Aborted => USIOIF \/ InLoop
  PROVE  Masked'
<1> SUFFICES ASSUME GivenUp' PROVE Masked'
  BY DEF Masked
<1>1. CASE Tick
  BY <1>1, MaskedTick
<1>2. CASE WriteByte
  BY <1>2, MaskedWrite
<1>3. CASE cec_receive_do_ack
  <2>1. GivenUp /\ step = "inject"
    BY <1>3 DEF cec_receive_do_ack, vars, transmitVars, GivenUp
  <2> QED BY <2>1 DEF QuietMeanwhile
<1>4. CASE UsiHalt
  BY <1>4, States DEF UsiHalt, cec_halt, GivenUp
<1>5. CASE UsiRestart
  BY <1>5, States DEF UsiRestart, cec_init, AddrInitTransmitState, TxInv, HaltedIsQuiet, GivenUp
<1>6. CASE ~Tick /\ ~WriteByte /\ ~cec_receive_do_ack /\ ~UsiHalt /\ ~UsiRestart
  <2>1. UNCHANGED <<USIBR, USICNT, USIOIF>>
    BY <1>6, CounterKept, BufferKept
  <2>2. ShiftedIn' = ShiftedIn
    BY <2>1 DEF ShiftedIn
  <2>3. cec_transmit_abort \/ (USIDR' = USIDR /\ ~Aborted)
    BY <1>6, ShiftRegisterKept
  <2>4. CASE Aborted
    <3>1. USIDR' = [i \in 1..8 |-> i > 8 - ShiftedIn /\ USIDR[i]]
      BY <2>3, <2>4 DEF cec_transmit_abort
    <3>2. ShiftedIn \in 0..7
      BY DEF ShiftedIn, UsiTypeOK, UsiRegistersOK
    <3>3. ASSUME NEW i \in 1..(8 - ShiftedIn) PROVE ~USIDR'[i]
      <4>1. i \in 1..8 /\ ~(i > 8 - ShiftedIn)
        BY <3>2
      <4> QED BY <3>1, <4>1
    <3>4. USIOIF
      BY <2>4 DEF Clocked
    <3> QED BY <2>1, <2>2, <3>3, <3>4 DEF Masked
  <2>5. CASE ~Aborted
    <3>1. USIDR' = USIDR
      BY <2>3, <2>5 DEF cec_transmit_abort
    <3>2. GivenUp
      BY <1>6, <2>5, EngineSteps, EngineStepEnds
         DEF GivenUp, MessageVars, TRANSMIT_IDLE, TRANSMIT_PEND, TRANSMIT_FAILED, TRANSMIT_AGAIN
    <3> QED BY <2>1, <2>2, <3>1, <3>2 DEF Masked
  <2> QED BY <2>4, <2>5
<1> QED BY <1>1, <1>2, <1>3, <1>4, <1>5, <1>6

(* With less than a byte between two calls the bits that                   *)
(* cec_transmit_abort() masks are all that is left of a message that is    *)
(* given up, if that is not between two USI bytes: only so the driver can  *)
(* come to send what the run usi_abort shows.                              *)
THEOREM StopsCorrect ==
  ASSUME HaltPolicy # "anytime", MaxLatency < 8
  PROVE  UsiSpec /\ []QuietMeanwhile /\ GivesUpInByte => []StopsWhenAborted
<1> DEFINE Inv == BytesInv /\ Masked
           InByte == Aborted => USIOIF \/ InLoop
<1>0. MaxLatency < 16
  BY UsiAssumption
<1>1. UsiInit => Inv
  <2>1. UsiInit => Masked
    BY States DEF UsiInit, Init, TransmitInit, GivenUp, Masked
  <2> QED BY <2>1, BytesInvInit
<1>2. Inv /\ QuietMeanwhile /\ [UsiNext]_usiAllVars /\ [InByte]_usiAllVars => Inv'
  <2> SUFFICES ASSUME Inv, QuietMeanwhile, [UsiNext]_usiAllVars, [InByte]_usiAllVars
               PROVE  Inv'
    OBVIOUS
  <2>1. BytesInv'
    BY <1>0, BytesInvNext
  <2>2. InByte
    <3>1. CASE UNCHANGED usiAllVars
      BY <3>1 DEF usiAllVars, vars, transmitVars, Aborted, Transmitting, TRANSMIT_FAILED,
                  TRANSMIT_AGAIN
    <3> QED BY <3>1
  <2> QED BY <2>1, <2>2, MaskedNext DEF BytesInv
<1>3. Inv => StopsWhenAborted
  <2> SUFFICES ASSUME Inv, GivenUp PROVE ~USIDR[1]
    BY DEF StopsWhenAborted, GivenUp
  <2>1. 1 \in 1..(8 - ShiftedIn)
    BY DEF BytesInv, ShiftedIn, UsiTypeOK, UsiRegistersOK
  <2> QED BY <2>1 DEF Masked
<1>4. GivesUpInByte <=> [][InByte]_usiAllVars
  BY DEF GivesUpInByte
<1> QED BY <1>1, <1>2, <1>3, <1>4, PTL DEF UsiSpec

(* An error between two USI bytes is a lost arbitration, and is counted.   *)
LEMMA OnlyNacksStep ==
  ASSUME TxInv, TxInv', Clocked, OnlyNacksFail, OnlyNacksFail', [UsiNext]_usiAllVars
  PROVE  Aborted => USIOIF \/ InLoop
<1> SUFFICES ASSUME Aborted, ~USIOIF, ~InLoop PROVE FALSE
  OBVIOUS
<1>0. Transmitting /\ ~Transmitting' /\ TransmitTypeOK
  BY DEF Aborted, Transmitting, TRANSMIT_FAILED, TRANSMIT_AGAIN, TxInv, TypeOK
<1>1. CASE PollOnly
  <2>1. cec_transmit_on_error(CEC_ERR_ARB_LOST)
    <3>1. transmit_state' # transmit_state
      BY <1>0 DEF Transmitting
    <3> QED BY <1>1, <3>1 DEF PollOnly, PollBetweenBytes, LineCheck, transmitVars
  <2>2. AbortEffects(CEC_ERR_ARB_LOST)
    BY <1>0, <2>1 DEF cec_transmit_on_error
  <2>3. transmit_stats[CEC_ERR_ARB_LOST] = 0 /\ transmit_stats'[CEC_ERR_ARB_LOST] = 0
    BY DEF OnlyNacksFail, CecErr, CEC_ERR_ARB_LOST, CEC_ERR_NACK
  <2>4. CEC_ERR_ARB_LOST \in CecErr /\ transmit_stats \in [CecErr -> 0..(UCHAR - 1)]
    BY <1>0 DEF TransmitTypeOK, CecErr
  <2>5. transmit_stats'[CEC_ERR_ARB_LOST] = (0 + 1) % UCHAR
    BY <2>2, <2>3, <2>4 DEF AbortEffects
  <2>6. UCHAR \in Nat /\ UCHAR > 1
    BY SizeAssumption DEF UCHAR
  <2> QED BY <2>3, <2>5, <2>6
<1>2. CASE WriteByte
  BY <1>2 DEF WriteByte
<1>3. CASE UsiHalt
  BY <1>3, States DEF UsiHalt, cec_halt, Aborted
<1>4. CASE UsiRestart
  BY <1>4, States DEF UsiRestart, cec_init, AddrInitTransmitState, TxInv, HaltedIsQuiet, Aborted
<1>5. CASE ~PollOnly /\ ~WriteByte /\ ~UsiHalt /\ ~UsiRestart
  BY <1>0, <1>5, BetweenBytes
<1> QED BY <1>1, <1>2, <1>3, <1>4, <1>5

(* The properties of the run usi: where a message fails for a missing ack  *)
(* or not at all, and we have nothing to ack ourselves meanwhile, only its *)
(* frames are on the line, and nothing of it once it is given up.          *)
THEOREM OnlyNacksSuffices ==
  ASSUME HaltPolicy # "anytime", MaxLatency < 8
  PROVE  UsiSpec /\ []OnlyNacksFail /\ []QuietMeanwhile /\ EndsInTurn
           => AirsTheMessage /\ []StopsWhenAborted
<1> DEFINE InByte == Aborted => USIOIF \/ InLoop
<1>0. MaxLatency < 16
  BY UsiAssumption
<1>1. UsiInit => BytesInv
  BY BytesInvInit
<1>2. BytesInv /\ [UsiNext]_usiAllVars => BytesInv'
  BY <1>0, BytesInvNext
<1>3. BytesInv /\ BytesInv' /\ OnlyNacksFail /\ OnlyNacksFail' /\ [UsiNext]_usiAllVars
        => [InByte]_usiAllVars
  BY OnlyNacksStep DEF BytesInv
<1>4. GivesUpInByte <=> [][InByte]_usiAllVars
  BY DEF GivesUpInByte
<1>5. UsiSpec /\ []OnlyNacksFail => GivesUpInByte
  BY <1>1, <1>2, <1>3, <1>4, PTL DEF UsiSpec
<1> QED BY <1>0, <1>5, AirsCorrect, StopsCorrect, PTL

-----------------------------------------------------------------------------
(***************************************************************************)
(* The times of the frames.                                                *)
(***************************************************************************)
(* What the ticks of a clock rate make of the frames of cec_usi.c, and     *)
(* what they make of the limits.                                           *)
FramesWithin(f) ==
  /\ Within(f, Sent(f, 12), CEC_START_LOW_EARLY, CEC_START_LOW_LATE)
  /\ Within(f, Sent(f, 15), CEC_START_HIGH_EARLY, CEC_START_HIGH_LATE)
  /\ Within(f, Sent(f, 2), CEC_T1_EARLY1, CEC_T2_LATE1)
  /\ Within(f, Sent(f, 5), CEC_T5_EARLY0, CEC_T6_LATE0)
  /\ Within(f, Sent(f, 8), CEC_T7_EARLY_END, CEC_T8_LATE_END)

LimitsAdmit(f) ==
  /\ Accepted(f, MIN_TICKS(CEC_START_LOW_EARLY), MAX_TICKS(CEC_START_LOW_LATE),
              CEC_START_LOW_EARLY, CEC_START_LOW_LATE)
  /\ Accepted(f, MIN_TICKS(CEC_START_HIGH_EARLY), MAX_TICKS(CEC_START_HIGH_LATE),
              CEC_START_HIGH_EARLY, CEC_START_HIGH_LATE)
  /\ SampledInSpec(f)
  /\ Accepted(f, MIN_TICKS(CEC_T7_EARLY_END), MAX_TICKS(CEC_T8_LATE_END),
              CEC_T7_EARLY_END, CEC_T8_LATE_END)

(* What is asked of a clock rate: a tick is within 2 % of the 300 us that  *)
(* it stands for.  It is where OCR0A holds the counts of a sample and a    *)
(* count of timer 0 is no longer than 4 us, and at some rates beyond.      *)
TickFits(f) ==
  UsiTick(f) \in Nat /\ 294 * f <= UsiTick(f) * 100 /\ UsiTick(f) * 100 <= 306 * f

CountsFit(f) == TCNT0_TOP(f) < 256 /\ TCNT0_PRESCALER(f) * 100 <= 4 * f

LEMMA DivBounds ==
  ASSUME NEW a \in Int, NEW b \in Nat \ {0}
  PROVE  /\ a \div b \in Int
         /\ b * (a \div b) <= a /\ a < b * (a \div b) + b
OBVIOUS

LEMMA PrescalerTyped ==
  ASSUME NEW f \in Nat \ {0}, f <= 80000
  PROVE  TCNT0_PRESCALER(f) \in {1, 8, 64, 256, 1024}
<1> DEFINE S == {1, 8, 64, 256, 1024}
           n == TCNT0_PRESCALER_IDEAL(f)
<1>1. n \in Int /\ n <= 1024
  BY DEF TCNT0_PRESCALER_IDEAL, DIV_ROUND_UP, TCNT0_ROLLOVER_PERIOD_US
<1> HIDE DEF n
<1>2. \E p \in S : n <= p /\ \A q \in S : n <= q => p <= q
  <2>1. CASE n <= 1
    BY <1>1, <2>1
  <2>2. CASE 1 < n /\ n <= 8
    BY <1>1, <2>2
  <2>3. CASE 8 < n /\ n <= 64
    BY <1>1, <2>3
  <2>4. CASE 64 < n /\ n <= 256
    BY <1>1, <2>4
  <2>5. CASE 256 < n
    BY <1>1, <2>5
  <2> QED BY <1>1, <2>1, <2>2, <2>3, <2>4, <2>5
<1> QED BY <1>2 DEF TCNT0_PRESCALER, n

(* Rounded to counts, and a count longer than OCR0A says.                  *)
LEMMA CountsSuffice ==
  ASSUME NEW f \in Nat \ {0}, f <= 80000, CountsFit(f)
  PROVE  TickFits(f)
<1> DEFINE p == TCNT0_PRESCALER(f)
           top == TCNT0_TOP(f)
<1>1. p \in {1, 8, 64, 256, 1024}
  BY PrescalerTyped
<1>2. p * 100 <= 4 * f /\ top < 256
  BY DEF CountsFit
<1>3. top = (300 * f + (p * 100) \div 2) \div (p * 100)
  BY UsiConstants DEF TCNT0_TOP, US_TO_JIFFIES_RND, DIV_ROUND
<1>4. UsiTick(f) = ((top % 256) + 1) * p
  BY DEF UsiTick
<1> HIDE DEF p, top
<1>5. ASSUME NEW c \in {1, 8, 64, 256, 1024}, p = c
      PROVE  UsiTick(f) \in Nat /\ 300 * f <= UsiTick(f) * 100 /\ UsiTick(f) * 100 <= 306 * f
  <2> DEFINE a == 300 * f + 50 * c
             d == c * 100
  <2>1. top = a \div d /\ d <= 4 * f
    BY <1>2, <1>3, <1>5
  <2>2. a \in Int /\ a >= 0 /\ d \in Nat \ {0}
    OBVIOUS
  <2> HIDE DEF a, d
  <2>3. top \in Int /\ d * top <= a /\ a < d * top + d
    BY <2>1, <2>2, DivBounds
  <2>4. top >= 0
    <3> SUFFICES ASSUME top < 0 PROVE FALSE
      BY <2>3
    <3>1. d * top + d <= d * 0
      BY <2>2, <2>3, Multiples
    <3> QED BY <2>2, <2>3, <3>1
  <2>5. UsiTick(f) = (top + 1) * c
    BY <1>2, <1>4, <1>5, <2>3, <2>4
  <2> QED BY <2>1, <2>3, <2>4, <2>5 DEF a, d
<1> QED BY <1>1, <1>5 DEF TickFits

LEMMA AcceptedIf ==
  ASSUME NEW f \in Nat \ {0}, UsiTick(f) \in Nat \ {0}, NEW min \in Int, NEW max \in Int,
         NEW first \in Nat, NEW last \in Nat,
         (UsiTick(f) * 100) * min <= first * f, last * f <= (UsiTick(f) * 100) * max
  PROVE  Accepted(f, min, max, first, last)
<1> DEFINE t == UsiTick(f) * 100
           a == first * f
           b == last * f - 1
<1>1. t \in Nat \ {0} /\ a \in Int /\ b \in Int /\ b < t * max
  OBVIOUS
<1>2. a < t * (a \div t) + t /\ a \div t \in Int
  BY <1>1, DivBounds
<1>3. t * (b \div t) <= b /\ b \div t \in Int
  BY <1>1, DivBounds
<1> HIDE DEF t, a, b
<1>4. min <= a \div t
  <2> SUFFICES ASSUME a \div t < min PROVE FALSE
    BY <1>2
  <2>1. t * (a \div t) + t <= t * min
    BY <1>1, <1>2, Multiples
  <2>2. t * (a \div t) \in Int /\ t * min \in Int /\ t * min <= a
    BY <1>1, <1>2 DEF t, a
  <2> QED BY <1>1, <1>2, <2>1, <2>2
<1>5. 1 + b \div t <= max
  <2> SUFFICES ASSUME max <= b \div t PROVE FALSE
    BY <1>3
  <2>1. t * max <= t * (b \div t)
    <3>1. CASE max = b \div t
      BY <1>1, <3>1
    <3>2. CASE max < b \div t
      <4>1. t * max + t <= t * (b \div t)
        BY <1>1, <1>3, <3>2, Multiples
      <4>2. t * max \in Int /\ t * (b \div t) \in Int
        BY <1>1, <1>3
      <4> QED BY <1>1, <4>1, <4>2
    <3> QED BY <1>3, <3>1, <3>2
  <2>2. t * (b \div t) \in Int /\ t * max \in Int
    BY <1>1, <1>3
  <2> QED BY <1>1, <1>3, <2>1, <2>2
<1> QED BY <1>4, <1>5 DEF Accepted, DIV_ROUND_UP, t, a, b

(* Such a tick meets every time of the standard.                           *)
LEMMA TicksInSpec ==
  ASSUME NEW f \in Nat \ {0}, TickFits(f)
  PROVE  FramesWithin(f) /\ LimitsAdmit(f)
<1>1. /\ UsiTick(f) \in Nat \ {0}
      /\ 294 * f <= UsiTick(f) * 100 /\ UsiTick(f) * 100 <= 306 * f
  BY DEF TickFits
<1>2. CEC_NOM_SAMPLE \div SAMPLE_US = 3
  BY UsiConstants DEF CEC_NOM_SAMPLE
<1>3. FramesWithin(f)
  BY <1>1 DEF FramesWithin, Within, Sent, CEC_START_LOW_EARLY, CEC_START_LOW_LATE,
              CEC_START_HIGH_EARLY, CEC_START_HIGH_LATE, CEC_T1_EARLY1, CEC_T2_LATE1,
              CEC_T5_EARLY0, CEC_T6_LATE0, CEC_T7_EARLY_END, CEC_T8_LATE_END
<1>4. SampledInSpec(f)
  BY <1>1, <1>2 DEF SampledInSpec, CEC_T3, CEC_T4
<1>5. Accepted(f, MIN_TICKS(CEC_START_LOW_EARLY), MAX_TICKS(CEC_START_LOW_LATE),
               CEC_START_LOW_EARLY, CEC_START_LOW_LATE)
  <2>1. MIN_TICKS(CEC_START_LOW_EARLY) = 11 /\ MAX_TICKS(CEC_START_LOW_LATE) = 14
    BY UsiConstants DEF MIN_TICKS, MAX_TICKS, CEC_START_LOW_EARLY, CEC_START_LOW_LATE
  <2>2. (UsiTick(f) * 100) * 11 <= 3500 * f /\ 3900 * f <= (UsiTick(f) * 100) * 14
    BY <1>1
  <2>3. Accepted(f, 11, 14, 3500, 3900)
    BY <1>1, <2>2, AcceptedIf
  <2> QED BY <2>1, <2>3 DEF CEC_START_LOW_EARLY, CEC_START_LOW_LATE
<1>6. Accepted(f, MIN_TICKS(CEC_START_HIGH_EARLY), MAX_TICKS(CEC_START_HIGH_LATE),
               CEC_START_HIGH_EARLY, CEC_START_HIGH_LATE)
  <2>1. MIN_TICKS(CEC_START_HIGH_EARLY) = 14 /\ MAX_TICKS(CEC_START_HIGH_LATE) = 16
    BY UsiConstants DEF MIN_TICKS, MAX_TICKS, CEC_START_HIGH_EARLY, CEC_START_HIGH_LATE
  <2>2. (UsiTick(f) * 100) * 14 <= 4300 * f /\ 4700 * f <= (UsiTick(f) * 100) * 16
    BY <1>1
  <2>3. Accepted(f, 14, 16, 4300, 4700)
    BY <1>1, <2>2, AcceptedIf
  <2> QED BY <2>1, <2>3 DEF CEC_START_HIGH_EARLY, CEC_START_HIGH_LATE
<1>7. Accepted(f, MIN_TICKS(CEC_T7_EARLY_END), MAX_TICKS(CEC_T8_LATE_END),
               CEC_T7_EARLY_END, CEC_T8_LATE_END)
  <2>1. MIN_TICKS(CEC_T7_EARLY_END) = 6 /\ MAX_TICKS(CEC_T8_LATE_END) = 10
    BY UsiConstants DEF MIN_TICKS, MAX_TICKS, CEC_T7_EARLY_END, CEC_T8_LATE_END
  <2>2. (UsiTick(f) * 100) * 6 <= 2050 * f /\ 2750 * f <= (UsiTick(f) * 100) * 10
    BY <1>1
  <2>3. Accepted(f, 6, 10, 2050, 2750)
    BY <1>1, <2>2, AcceptedIf
  <2> QED BY <2>1, <2>3 DEF CEC_T7_EARLY_END, CEC_T8_LATE_END
<1> QED BY <1>3, <1>4, <1>5, <1>6, <1>7 DEF LimitsAdmit

LEMMA PatternTicks ==
  /\ LowTicks(CEC_PAT_START1) = 5 /\ LowTicks(CEC_PAT_IDLE) = 0
  /\ LowTicks(CEC_PAT_1) = 2 /\ LowTicks(CEC_PAT_0) = 5
<1>1. ASSUME NEW i \in 1..8
      PROVE  /\ CEC_PAT_START1[i] = (i <= 5) /\ CEC_PAT_0[i] = (i <= 5)
             /\ CEC_PAT_1[i] = (i <= 2) /\ CEC_PAT_IDLE[i] = FALSE
  BY DEF CEC_PAT_START1, CEC_PAT_0, CEC_PAT_1, CEC_PAT_IDLE
<1>2. {i \in 1..8 : i <= 5} = 1..5 /\ {i \in 1..8 : i <= 2} = 1..2
  OBVIOUS
<1>3. {i \in 1..8 : CEC_PAT_START1[i]} = {i \in 1..8 : i <= 5}
  BY <1>1, Zenon
<1>4. {i \in 1..8 : CEC_PAT_0[i]} = {i \in 1..8 : i <= 5}
  BY <1>1, Zenon
<1>5. {i \in 1..8 : CEC_PAT_1[i]} = {i \in 1..8 : i <= 2}
  BY <1>1, Zenon
<1>6. {i \in 1..8 : CEC_PAT_IDLE[i]} = {}
  BY <1>1, Zenon
<1>7. Cardinality(1..5) = 5
  <2>1. Cardinality(1..5) = IF 1 > 5 THEN 0 ELSE 5 - 1 + 1
    BY FS_Interval, 1 \in Int, 5 \in Int, Zenon
  <2> QED BY <2>1
<1>8. Cardinality(1..2) = 2
  <2>1. Cardinality(1..2) = IF 1 > 2 THEN 0 ELSE 2 - 1 + 1
    BY FS_Interval, 1 \in Int, 2 \in Int, Zenon
  <2> QED BY <2>1
<1> QED BY <1>2, <1>3, <1>4, <1>5, <1>6, <1>7, <1>8, FS_EmptySet DEF LowTicks

(* The n-th byte of a message, n > 2, is one of these.                     *)
LEMMA LaterFrames ==
  ASSUME MessageFrames \in Nat, NEW n \in Nat, n > 2
  PROVE  FramePattern(n) \in {CEC_PAT_1, CEC_PAT_0, CEC_PAT_IDLE}
<1>1. CASE n > MessageFrames + 2
  BY <1>1, FramePatterns
<1>2. CASE n <= MessageFrames + 2
  <2>1. n - 2 \in 1..MessageFrames /\ (n - 2) + 2 = n
    BY <1>2
  <2>2. FramePattern(n) = Pattern(FrameBit(n - 2))
    BY <2>1, FramePatterns
  <2> QED BY <2>2 DEF Pattern
<1> QED BY <1>1, <1>2

LEMMA FrameSentInSpec ==
  ASSUME MessageFrames \in Nat, NEW n \in Nat \ {0}, NEW f, FramesWithin(f)
  PROVE  SentInSpec(f, n, FramePattern(n))
<1>1. CASE n = 1
  BY <1>1 DEF SentInSpec
<1>2. CASE n = 2
  <2>1. 7 + LowTicks(FramePattern(2)) = 12 /\ 7 + 8 = 15
    BY FramePatterns, PatternTicks
  <2> QED BY <1>2, <2>1 DEF SentInSpec, FramesWithin
<1>3. CASE n > 2
  <2> DEFINE low == LowTicks(FramePattern(n))
  <2>1. low \in {0, 2, 5}
    BY <1>3, LaterFrames, PatternTicks
  <2>2. n # 1 /\ n # 2
    BY <1>3
  <2>3. \/ low = 0
        \/ Within(f, Sent(f, low), CEC_T1_EARLY1, CEC_T2_LATE1)
        \/ Within(f, Sent(f, low), CEC_T5_EARLY0, CEC_T6_LATE0)
    BY <2>1 DEF FramesWithin
  <2> QED BY <2>2, <2>3 DEF SentInSpec, FramesWithin
<1> QED BY <1>1, <1>2, <1>3

(* The limits change with the frame that is expected.                      *)
LEMMA LimitsSet ==
  ASSUME [UsiNext]_usiAllVars, frameLimits' # frameLimits
  PROVE  \/ /\ usi_recv_state' = USI_RECV_START
            /\ min_frame_ticks' = MIN_TICKS(CEC_START_HIGH_EARLY)
            /\ max_frame_ticks' = MAX_TICKS(CEC_START_HIGH_LATE)
         \/ /\ usi_recv_state' = USI_RECV_BITS
            /\ min_frame_ticks' = MIN_TICKS(CEC_T7_EARLY_END)
            /\ max_frame_ticks' = MAX_TICKS(CEC_T8_LATE_END)
<1>1. Edge
  <2>1. CASE Tick \/ PollOnly \/ PollByte
    BY <2>1 DEF Tick, PollOnly, PollByte, Poll, tickVars, frameLimits
  <2>2. CASE Sample \/ WriteByte
    BY <2>2 DEF Sample, WriteByte, tickVars, frameLimits
  <2>3. CASE CheckAck \/ cec_receive_do_ack \/ UsiAddrPeriodic
    BY <2>3 DEF CheckAck, cec_receive_do_ack, UsiAddrPeriodic, tickVars, frameLimits
  <2>4. CASE UsiApplication \/ UNCHANGED usiAllVars
    BY <2>4 DEF UsiApplication, UsiHalt, UsiRestart, usiAllVars, usiDriverVars, tickVars,
                frameLimits
  <2> QED BY <2>1, <2>2, <2>3, <2>4 DEF UsiNext, usi_periodic
<1>2. CASE SameLevel
  BY <1>2 DEF SameLevel
<1>3. CASE FallingEdge
  BY <1>3 DEF FallingEdge, StartFrame
<1>4. CASE RisingEdge
  BY <1>4 DEF RisingEdge, StartLow
<1> QED BY <1>1, <1>2, <1>3, <1>4 DEF Edge

LEMMA LimitsInSpec ==
  ASSUME [UsiNext]_usiAllVars, frameLimits' # frameLimits, NEW f, LimitsAdmit(f)
  PROVE  ReceivedInSpec(f, min_frame_ticks', max_frame_ticks')
<1>1. USI_RECV_START # USI_RECV_BITS
  BY DEF USI_RECV_START, USI_RECV_BITS
<1> QED BY <1>1, LimitsSet DEF ReceivedInSpec, LimitsAdmit

(* At every clock rate whose tick fits, and with less than a byte between *)
(* two calls, every byte of a message that goes onto the line stays there  *)
(* for eight ticks and has, where it is in the message, the times of the   *)
(* standard; and the limits by which the driver tells the frames of others *)
(* apart admit what the standard does and are those of the frame that it   *)
(* expects.                                                                *)
THEOREM UsiTimingCorrect ==
  ASSUME HaltPolicy # "anytime", MaxLatency < 8,
         \A f \in Clocks : TickFits(f)
  PROVE  UsiSpec /\ []AcksOutsideOurs => UsiTimingInSpec /\ [][LastsEightTicks]_usiAllVars
<1> DEFINE Inv == BytesInv /\ OutInStep
           InSpec ==
      \A f \in Clocks :
        /\ aired' = aired + 1 /\ Transmitting => SentInSpec(f, aired', USIDR')
        /\ frameLimits' # frameLimits => ReceivedInSpec(f, min_frame_ticks', max_frame_ticks')
<1>0. MaxLatency < 16
  BY UsiAssumption
<1>1. UsiSpec /\ []AcksOutsideOurs => AirsOwnFrames
  BY <1>0, AirsOwnCorrect
<1>2. UsiInit => Inv
  BY BytesInvInit DEF UsiInit, OutInStep, ShiftedIn
<1>3. Inv /\ [UsiNext]_usiAllVars => Inv' /\ LastsEightTicks
  <2> SUFFICES ASSUME Inv, [UsiNext]_usiAllVars PROVE Inv' /\ LastsEightTicks
    OBVIOUS
  <2>1. BytesInv'
    BY <1>0, BytesInvNext
  <2>2. OutInStep'
    BY <2>1, OutInStepNext DEF BytesInv, TxInv
  <2> QED BY <1>0, <2>1, <2>2, LastsEight
<1>4. AirsOwnFrames <=> [][AirsFrame]_usiAllVars
  BY DEF AirsOwnFrames, AirsFrame
<1>5. Inv /\ [UsiNext]_usiAllVars /\ [AirsFrame]_usiAllVars => [InSpec]_usiAllVars
  <2> SUFFICES ASSUME BytesInv, [UsiNext]_usiAllVars, AirsFrame, NEW f \in Clocks
               PROVE  /\ aired' = aired + 1 /\ Transmitting => SentInSpec(f, aired', USIDR')
                      /\ frameLimits' # frameLimits
                           => ReceivedInSpec(f, min_frame_ticks', max_frame_ticks')
    OBVIOUS
  <2>1. MessageFrames \in Nat /\ aired \in Nat
    BY FramesFit DEF BytesInv, TxInv, TypeOK, UsiTypeOK, BusOK
  <2>2. FramesWithin(f) /\ LimitsAdmit(f)
    BY UsiAssumption, TicksInSpec
  <2>3. ASSUME aired' = aired + 1, Transmitting PROVE SentInSpec(f, aired', USIDR')
    <3>1. aired' \in Nat \ {0} /\ USIDR' = FramePattern(aired')
      BY <2>1, <2>3 DEF AirsFrame
    <3> QED BY <2>1, <2>2, <3>1, FrameSentInSpec
  <2> QED BY <2>2, <2>3, LimitsInSpec
<1>6. UsiTimingInSpec <=> [][InSpec]_usiAllVars
  BY DEF UsiTimingInSpec
<1> QED BY <1>1, <1>2, <1>3, <1>4, <1>5, <1>6, PTL DEF UsiSpec
=============================================================================
