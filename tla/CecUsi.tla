------------------------------- MODULE CecUsi -------------------------------
(***************************************************************************)
(* The USI driver, cec_usi.c, tick by tick: the shift register and its     *)
(* buffer, the counter, the tick counts that tell the events of CecEngine  *)
(* apart, and the ack bits that are poked into a register that is already  *)
(* being shifted out.                                                      *)
(*                                                                         *)
(* Each action takes the event of CecEngine that the code takes, under the *)
(* condition the code takes it, so that the driver implements CecEngine.   *)
(*                                                                         *)
(* A tick is 300 us, an eighth of a USI byte; the limits are those of the  *)
(* code.  A register is the sequence of its bits, most significant first;  *)
(* a set bit is a low line, received or sent.                              *)
(***************************************************************************)
EXTENDS CecEngine, CecTime

CONSTANTS
  TICK_MAX,      \* where recv_frame_tick saturates               (code: 255)
  MaxLatency,    \* ticks between two calls of cec_periodic()
  CallTicks,     \* ticks that may fall into one call
  OthersMessages,  \* messages of the other devices: sequences of bytes
  StartPulses, ZeroPulses, OnePulses,  \* their start frames, zeros and ones
  AckPulses,     \* what they may do to the ack bit of our message
  Glitches,      \* what they may do at any time
  GiveUp,        \* bits of a message after which they may give it up
  Gap,           \* ticks of silence before they begin a message
  Clocks         \* clock rates of boards with this driver, in 10 kHz

VARIABLES
  USIDR,         \* the shift register
  USIBR,         \* its buffer
  USICNT,        \* USISR & 0xf: the counter
  USIOIF,        \* USISR & _BV(USIOIF): the counter has overflowed
  recv_frame_tick, recv_frame, min_frame_ticks, max_frame_ticks,
  recv_last_bit,
  float_ticks_max, float_ticks_max_next,
  ack_done,      \* GPIOR1 & _BV(FLAG1_CEC_USI_ACK_DONE)
  samples,       \* local buf: the samples of the byte still to be processed
  edge,          \* the sample window of this sample is done, not its edge
  step,          \* what is left of the call after the samples
  acks,          \* argument of cec_receive_do_ack()
  others,        \* the other devices: their message, its bit, ticks into it
  said,          \* history: the last message they sent to the end
  gap,           \* ticks until they may begin another message
  elapsed,       \* ticks since the last call began
  aired,         \* history: bytes put on the line since cec_transmit_start()
  out            \* history: bits of the byte on the line that have gone out

usiVars == <<USIDR, USIBR, USICNT, USIOIF>>
tickVars == <<recv_frame_tick, recv_frame, min_frame_ticks, max_frame_ticks, recv_last_bit>>
floatVars == <<float_ticks_max, float_ticks_max_next>>
callVars == <<samples, edge, step, acks>>
busVars == <<others, said, gap, elapsed, aired, out>>
usiDriverVars == <<usiVars, tickVars, floatVars, ack_done, callVars, busVars>>
usiAllVars == <<vars, usiDriverVars>>

(* The frames of the standard, an eighth of a bit period per bit.  A start *)
(* frame is two bytes long.                                                *)
CEC_PAT_START0 == [i \in 1..8 |-> i > 1]
CEC_PAT_START1 == [i \in 1..8 |-> i <= 5]
CEC_PAT_1      == [i \in 1..8 |-> i <= 2]
CEC_PAT_0      == [i \in 1..8 |-> i <= 5]
CEC_PAT_IDLE   == [i \in 1..8 |-> FALSE]

Pattern(bit) == IF bit THEN CEC_PAT_1 ELSE CEC_PAT_0

(* The other devices.  A pulse is low for low ticks out of len; bit 0 of a *)
(* message is its start frame.                                             *)
Pulse == [low : Nat, len : Nat \ {0}]
Silence == [msg |-> << >>, bit |-> 0, low |-> 0, len |-> 1, t |-> 0, heard |-> FALSE]

ASSUME UsiAssumption ==
  /\ TICK_MAX \in Nat /\ TICK_MAX > MAX_TICKS(CEC_START_HIGH_LATE)
  /\ MaxLatency \in Nat \ {0} /\ CallTicks \in Nat
  /\ OthersMessages \subseteq Seq(Byte)
  /\ StartPulses \cup ZeroPulses \cup OnePulses \cup AckPulses \cup Glitches \subseteq Pulse
  /\ GiveUp \subseteq Nat /\ Gap \in Nat
  /\ Clocks \subseteq Nat \ {0}

(* Where aired saturates: past the two bytes of the start frame, those of  *)
(* the longest message, and the idle one that follows.                     *)
AiredMax == FRAME * CEC_BUFFER_SIZE + 4

UsiRegistersOK ==
  /\ USIDR \in [1..8 -> BOOLEAN] /\ USIBR \in [1..8 -> BOOLEAN]
  /\ USICNT \in 0..15 /\ USIOIF \in BOOLEAN

TicksOK ==
  /\ recv_frame_tick \in 0..TICK_MAX /\ recv_frame \in 0..(FRAME - 1)
  /\ min_frame_ticks \in 0..TICK_MAX /\ max_frame_ticks \in 0..TICK_MAX
  /\ recv_last_bit \in BOOLEAN
  /\ float_ticks_max \in 0..8 /\ float_ticks_max_next \in 0..8

CallOK ==
  /\ ack_done \in BOOLEAN /\ edge \in BOOLEAN
  /\ samples \in Seq(BOOLEAN) /\ Len(samples) <= 8
  /\ step \in {"next", "ack", "inject", "addr"} /\ acks \in 0..5

BusOK ==
  /\ others \in [msg : Seq(Byte), bit : Nat, low : Nat, len : Nat \ {0}, t : Nat, heard : BOOLEAN]
  /\ said \in Seq(Byte) /\ gap \in 0..Gap
  /\ elapsed \in 0..MaxLatency /\ aired \in 0..AiredMax /\ out \in 0..8

(* Registers keep their width, counts saturate or stay within a frame.     *)
UsiTypeOK == UsiRegistersOK /\ TicksOK /\ CallOK /\ BusOK

UsiInit ==
  /\ Init
  /\ USIDR = CEC_PAT_IDLE /\ USIBR = CEC_PAT_IDLE /\ USICNT = 8 /\ USIOIF = FALSE
  /\ recv_frame_tick = 0 /\ recv_frame = 0 /\ min_frame_ticks = 0 /\ max_frame_ticks = 0
  /\ recv_last_bit = FALSE
  /\ float_ticks_max = 0 /\ float_ticks_max_next = 0
  /\ ack_done = FALSE
  /\ samples = << >> /\ edge = FALSE /\ step = "next" /\ acks = 0
  /\ others = Silence /\ said = << >> /\ gap = 0 /\ elapsed = 0 /\ aired = AiredMax
  /\ out = 0

(* The line: anybody may pull it low.  The register's first bit is always  *)
(* on its way out.                                                         *)
OthersLow == others.t < others.low
LineLow == OthersLow \/ recv_driven \/ USIDR[1]

(* The bits of the counter that say how many bits of USIDR are input.      *)
ShiftedIn == USICNT % 8

-----------------------------------------------------------------------------
(***************************************************************************)
(* The other devices.                                                      *)
(***************************************************************************)
MessageBits(msg) == FRAME * Len(msg)

OthersBit(msg, k) ==
  LET byte == 1 + FrameByte(k)
      offset == FrameOffset(k)
  IN CASE offset <= BITS     -> msg[byte][offset]
       [] offset = BITS + 1  -> byte = Len(msg)
       [] offset = BITS + 2  -> TRUE

(* A sender goes on after an ack bit that says that it was heard.          *)
OthersGoOn ==
  /\ others.msg # << >> /\ others.bit < MessageBits(others.msg)
  /\ others.bit > 0 /\ FrameOffset(others.bit) = FRAME
       => others.heard = (Target(others.msg[1]) # CEC_ADDR_BROADCAST)

Begin(msg, bit, pulses) ==
  {[msg |-> msg, bit |-> bit, low |-> p.low, len |-> p.len, t |-> 0, heard |-> FALSE] : p \in pulses}

NextBit ==
  LET bit == others.bit + 1
  IN  Begin(others.msg, bit, IF OthersBit(others.msg, bit) THEN OnePulses ELSE ZeroPulses)

(* The ack bit of our message begins with the byte that is loaded.         *)
OurAckBit == aired' > 3 /\ aired' # aired /\ FrameOffset(aired' - 2) = FRAME /\ USIDR'[1]

OthersFree ==
  {Silence} \cup Begin(<< >>, 0, Glitches)
    \cup (IF gap = 0 THEN UNION {Begin(m, 0, StartPulses) : m \in OthersMessages} ELSE {})
    \cup (IF OurAckBit THEN Begin(<< >>, 0, AckPulses) ELSE {})

OthersTick ==
  /\ said' = IF others.t = 3 /\ others.bit = MessageBits(others.msg) THEN others.msg ELSE said
  /\ gap' = IF LineLow THEN Gap ELSE IF gap > 0 THEN gap - 1 ELSE 0
  /\ IF others.t + 1 < others.len
     THEN others' = [others EXCEPT !.t = @ + 1,
                                   !.heard = IF others.t = 3 THEN LineLow ELSE @]
     ELSE others' \in
                  IF ~OthersGoOn THEN OthersFree
                  ELSE NextBit \cup (IF others.bit \in GiveUp THEN {Silence} ELSE {})

-----------------------------------------------------------------------------
(***************************************************************************)
(* Hardware: a compare match of timer 0 shifts the line into USIDR and     *)
(* counts.  When the counter overflows USIDR and USIBR change places.      *)
(***************************************************************************)
Shifted == Append(Tail(USIDR), LineLow)

Overflow ==
  /\ USICNT = 15
  /\ USIDR' = USIBR
  /\ USIBR' = Shifted
  /\ USICNT' = 0
  /\ USIOIF' = TRUE
  /\ aired' = IF aired < AiredMax THEN aired + 1 ELSE aired
  /\ out' = 0

Shift ==
  /\ USICNT # 15
  /\ USIDR' = Shifted
  /\ USICNT' = USICNT + 1
  /\ out' = IF out < 8 THEN out + 1 ELSE out
  /\ UNCHANGED <<USIBR, USIOIF, aired>>

(* Time passes between two calls.  A call takes less than a tick, which    *)
(* may fall between the loop and the injection of an ack.                  *)
Tick ==
  /\ \/ phase = "app"
     \/ phase = "out" /\ step \in {"ack", "inject"} /\ elapsed < CallTicks
  /\ mode # "halted" => elapsed < MaxLatency
  /\ elapsed' = IF mode # "halted" THEN elapsed + 1 ELSE elapsed
  /\ Overflow \/ Shift
  /\ OthersTick
  /\ UNCHANGED <<vars, tickVars, floatVars, ack_done, callVars>>

-----------------------------------------------------------------------------
(***************************************************************************)
(* An abort, in whatever step of the call, masks the bits of USIDR that    *)
(* are still to be sent.                                                   *)
(***************************************************************************)
Aborted == Transmitting /\ transmit_state' \in {TRANSMIT_FAILED, TRANSMIT_AGAIN}

(* Mutant: the two halves of USIDR are swapped.                            *)
AbortMasksInput ==
  USIDR' = IF Aborted THEN [i \in 1..8 |-> i > ShiftedIn /\ USIDR[i]] ELSE USIDR

cec_transmit_abort ==
  USIDR' = IF Aborted THEN [i \in 1..8 |-> i > 8 - ShiftedIn /\ USIDR[i]] ELSE USIDR

(* The top of cec_receive_periodic().                                      *)
NewFloatTicks == IF USIOIF THEN float_ticks_max_next ELSE float_ticks_max

LineTaken == LineLow /\ ShiftedIn >= NewFloatTicks

Poll ==
  /\ Aborted <=> Transmitting /\ LineTaken
  /\ cec_transmit_abort
  /\ float_ticks_max' = NewFloatTicks
  /\ elapsed' = 0
  /\ UNCHANGED <<USIBR, USICNT, USIOIF, tickVars, float_ticks_max_next, ack_done,
                 edge, acks, others, said, gap, aired, out>>

PollOnly ==
  /\ ~USIOIF
  /\ PollBetweenBytes
  /\ Poll
  /\ step' = "ack"
  /\ UNCHANGED samples

PollByte ==
  /\ USIOIF
  /\ ByteReceived(\A i \in 1..8 : ~USIBR[i])
  /\ Poll
  /\ samples' = USIBR
  /\ step' = "next"

-----------------------------------------------------------------------------
(***************************************************************************)
(* cec_process_tick().                                                     *)
(***************************************************************************)
High == ~Head(samples)

(* Mutant: the count does not saturate.                                    *)
NewTickUnbounded == IF edge THEN recv_frame_tick ELSE recv_frame_tick + 1

NewTick ==
  IF edge THEN recv_frame_tick
  ELSE IF recv_frame_tick = TICK_MAX THEN TICK_MAX ELSE recv_frame_tick + 1

(* Mutant: the bit is sampled a tick early.                                *)
SampleEarly ==
  usi_recv_state = USI_RECV_BITS /\ ~edge /\ NewTick = CEC_NOM_SAMPLE \div SAMPLE_US - 1

SampleDue ==
  usi_recv_state = USI_RECV_BITS /\ ~edge /\ NewTick = CEC_NOM_SAMPLE \div SAMPLE_US

InSamples == InLoop /\ samples # << >>

Sample ==
  /\ InSamples /\ SampleDue
  /\ SampleBit(High)
  /\ cec_transmit_abort
  /\ recv_frame_tick' = NewTick
  /\ edge' = TRUE
  /\ UNCHANGED <<USIBR, USICNT, USIOIF, recv_frame, min_frame_ticks, max_frame_ticks,
                 recv_last_bit, floatVars, ack_done, samples, step, acks, busVars>>

NoEvent ==
  UNCHANGED vars

frameLimits == <<min_frame_ticks, max_frame_ticks>>

SameLevel ==
  /\ High = recv_last_bit
  /\ recv_frame_tick' = NewTick
  /\ \/ NewTick > max_frame_ticks /\ NoTransition
     \/ NewTick <= max_frame_ticks /\ NoEvent
  /\ UNCHANGED <<recv_frame, frameLimits, ack_done>>

NextFrame == (recv_frame + 1) % FRAME

FallingEdge ==
  /\ ~High /\ recv_last_bit
  /\ recv_frame_tick' = 0
  /\ \/ /\ NewTick < min_frame_ticks
        /\ EarlyFallingEdge
        /\ recv_frame' = NextFrame
        /\ ack_done' = (ack_done /\ NextFrame # 0)
        /\ UNCHANGED frameLimits
     \/ /\ NewTick >= min_frame_ticks /\ usi_recv_state = USI_RECV_START
        /\ StartFrame
        /\ recv_frame' = 0
        /\ ack_done' = FALSE
        /\ min_frame_ticks' = MIN_TICKS(CEC_T7_EARLY_END)
        /\ max_frame_ticks' = MAX_TICKS(CEC_T8_LATE_END)
     \/ /\ NewTick >= min_frame_ticks /\ usi_recv_state # USI_RECV_START
        /\ NoEvent
        /\ recv_frame' = NextFrame
        /\ ack_done' = (ack_done /\ NextFrame # 0)
        /\ UNCHANGED frameLimits

IsStartLow ==
  MIN_TICKS(CEC_START_LOW_EARLY) <= NewTick /\ NewTick <= MAX_TICKS(CEC_START_LOW_LATE)

RisingEdge ==
  /\ High /\ ~recv_last_bit
  /\ recv_frame_tick' = NewTick
  /\ \/ /\ IsStartLow
        /\ StartLow
        /\ min_frame_ticks' = MIN_TICKS(CEC_START_HIGH_EARLY)
        /\ max_frame_ticks' = MAX_TICKS(CEC_START_HIGH_LATE)
     \/ /\ ~IsStartLow
        /\ NoEvent
        /\ UNCHANGED frameLimits
  /\ UNCHANGED <<recv_frame, ack_done>>

Edge ==
  /\ InSamples /\ ~SampleDue
  /\ SameLevel \/ FallingEdge \/ RisingEdge
  /\ cec_transmit_abort
  /\ recv_last_bit' = High
  /\ samples' = Tail(samples)
  /\ edge' = FALSE
  /\ UNCHANGED <<USIBR, USICNT, USIOIF, floatVars, step, acks, busVars>>

-----------------------------------------------------------------------------
(***************************************************************************)
(* cec_usi_next_bit() and what is left of cec_receive_periodic().  The     *)
(* counter goes on from where it is, eight bits before its overflow.       *)
(***************************************************************************)
NextPattern(pattern, ticks) ==
  USIBR' = pattern /\ float_ticks_max_next' = ticks

(* Mutant: others may not hold our ack bit low.                            *)
FloatTicksOfAnyBit(bit) ==
  DIV_ROUND_UP((IF bit THEN CEC_1 ELSE CEC_0) + CEC_MAX_RISE_TIME, SAMPLE_US)

FloatTicks(bit) ==
  IF bit /\ recv_frame # BITS - 1
  THEN DIV_ROUND_UP(CEC_1 + CEC_MAX_RISE_TIME, SAMPLE_US)
  ELSE DIV_ROUND_UP(CEC_0 + CEC_MAX_RISE_TIME, SAMPLE_US)

(* Mutant: the counter starts anew.                                        *)
NewCountFromEight == 8

NewCount == 8 + ShiftedIn

START1_TICKS == DIV_ROUND_UP(CEC_START_LOW + CEC_MAX_RISE_TIME, SAMPLE_US) - 8

WriteByte ==
  /\ InLoop /\ samples = << >>
  /\ cec_usi_next_bit
  /\ \/ usi_xmit_state = USI_XMIT_IDLE /\ MayStart /\ NextPattern(CEC_PAT_START0, 8)
     \/ usi_xmit_state = USI_XMIT_IDLE /\ ~MayStart /\ NextPattern(CEC_PAT_IDLE, float_ticks_max_next)
     \/ usi_xmit_state = USI_XMIT_START /\ NextPattern(CEC_PAT_START1, START1_TICKS)
     \/ /\ usi_xmit_state = USI_XMIT_BITS
        /\ NextPattern(Pattern(transmit_last_bit'[2]), FloatTicks(transmit_last_bit'[2]))
  /\ aired' = IF usi_xmit_state = USI_XMIT_IDLE /\ MayStart THEN 0 ELSE aired
  /\ USICNT' = NewCount
  /\ USIOIF' = FALSE
  /\ step' = "ack"
  /\ UNCHANGED <<USIDR, tickVars, float_ticks_max, ack_done, samples, edge, acks, others, said, gap,
                 elapsed, out>>

-----------------------------------------------------------------------------
(***************************************************************************)
(* Acks.  The falling edge that begins the ack bit is either in the byte   *)
(* that was processed last or in the one that is being shifted in.         *)
(***************************************************************************)
(* Mutant: every frame before the ack frame may be at its end.             *)
AckTicksAnyFrame ==
  IF recv_frame = BITS + 1 /\ recv_frame_tick < 4 THEN 4 - recv_frame_tick
  ELSE IF recv_frame = BITS THEN 5 ELSE 0

(* Mutant: the falling edge is looked for in the last byte only.           *)
AckTicksLastByteOnly ==
  IF recv_frame = BITS + 1 /\ recv_frame_tick < 4 THEN 4 - recv_frame_tick ELSE 0

(* Mutant: the whole counter is taken for the ticks since its overflow.    *)
AckTicksWholeCount ==
  IF recv_frame = BITS + 1 /\ recv_frame_tick < 4 THEN 4 - recv_frame_tick
  ELSE IF recv_frame = BITS /\ recv_frame_tick + USICNT >= MAX_TICKS(CEC_T6_LATE0) THEN 5
  ELSE 0

AckTicks ==
  IF recv_frame = BITS + 1 /\ recv_frame_tick < 4 THEN 4 - recv_frame_tick
  ELSE IF recv_frame = BITS /\ recv_frame_tick + ShiftedIn >= MAX_TICKS(CEC_T6_LATE0) THEN 5
  ELSE 0

(* Mutant: whatever is received is acked.                                  *)
AckDueToOthers == ~ack_done /\ LineLow /\ AckTicks > 0

AckDue == ~ack_done /\ "DO_ACK" \in cec_receive_flags /\ LineLow /\ AckTicks > 0

CheckAck ==
  /\ phase = "out" /\ step = "ack"
  /\ acks' = IF AckDue THEN AckTicks ELSE 0
  /\ ack_done' = (ack_done \/ AckDue)
  /\ step' = IF AckDue THEN "inject" ELSE "addr"
  /\ UNCHANGED <<vars, usiVars, tickVars, floatVars, samples, edge, busVars>>

(* The samples in USIDR since the line fell are ticks we have missed.      *)
Missed ==
  CHOOSE k \in 0..ShiftedIn :
    /\ \A i \in (9 - k)..8 : USIDR[i]
    /\ k < ShiftedIn => ~USIDR[8 - k]

AcksLeft == acks - Missed

(* What does not fit into the bits of USIDR still to be sent goes to USIBR.*)
cec_receive_do_ack ==
  /\ phase = "out" /\ step = "inject"
  /\ LET now == IF AcksLeft < 8 - ShiftedIn THEN AcksLeft ELSE 8 - ShiftedIn
     IN  /\ USIDR' = [i \in 1..8 |-> i <= now \/ USIDR[i]]
         /\ USIBR' = IF AcksLeft > now THEN [i \in 1..8 |-> i <= AcksLeft - now] ELSE USIBR
  /\ acks' = 0
  /\ step' = "addr"
  /\ UNCHANGED <<vars, USICNT, USIOIF, tickVars, floatVars, ack_done, samples, edge, busVars>>

UsiAddrPeriodic ==
  /\ step = "addr"
  /\ AddrPeriodic
  /\ step' = "next"
  /\ UNCHANGED <<usiVars, tickVars, floatVars, ack_done, samples, edge, acks, busVars>>

usi_periodic ==
  \/ PollOnly \/ PollByte \/ Sample \/ Edge \/ WriteByte
  \/ CheckAck \/ cec_receive_do_ack \/ UsiAddrPeriodic

-----------------------------------------------------------------------------
(***************************************************************************)
(* The application, as in CecEngine.  Nothing stops timer 0 in cec_halt(). *)
(***************************************************************************)
UsiHalt ==
  /\ cec_halt
  /\ USIBR' = CEC_PAT_IDLE /\ USIDR' = CEC_PAT_IDLE
  /\ UNCHANGED <<USICNT, USIOIF, tickVars, floatVars, ack_done, callVars, busVars>>

UsiRestart ==
  /\ cec_init
  /\ USIBR' = CEC_PAT_IDLE /\ USIDR' = CEC_PAT_IDLE
  /\ USICNT' = 8 /\ USIOIF' = FALSE
  /\ elapsed' = 0 /\ out' = 0
  /\ UNCHANGED <<tickVars, floatVars, ack_done, callVars, others, said, gap, aired>>

UsiApplication ==
  \/ (\E m \in Messages : AppSend(m)) /\ UNCHANGED usiDriverVars
  \/ AppClearHeader /\ UNCHANGED usiDriverVars
  \/ UsiHalt
  \/ UsiRestart

UsiNext == Tick \/ usi_periodic \/ UsiApplication

UsiFairness == WF_usiAllVars(usi_periodic) /\ SF_usiAllVars(Tick)

UsiSpec == UsiInit /\ [][UsiNext]_usiAllVars /\ UsiFairness

-----------------------------------------------------------------------------
FramePattern(k) ==
  CASE k = 1 -> CEC_PAT_START0
    [] k = 2 -> CEC_PAT_START1
    [] k > FRAME * (transmit_buf_end + 1) + 2 -> CEC_PAT_IDLE
    [] OTHER -> Pattern(FrameBit(k - 2))

(* The bit on its way out is the one of the frame that is due, no frame    *)
(* lasts longer than its eight bits, and outside a message it is none.     *)
InOrder ==
  /\ Transmitting /\ aired \in 1..(AiredMax - 1)
       => out < 8 /\ USIDR[1] = FramePattern(aired)[out + 1]
  /\ ~Transmitting /\ aired < AiredMax /\ mode # "halted" => ~USIDR[1]

(* A frame of a message gives way to the next with its eighth bit.         *)
LastsEightTicks == aired' = aired + 1 /\ Transmitting /\ aired > 0 => out = 7

(* At every tick the line is driven as the frames of the message want it,  *)
(* however late cec_periodic() is: each of them bit by bit, none of them   *)
(* twice, cut short or left out, nothing of what was sampled, and nothing  *)
(* after the last one or after an abort.  Nothing is sent at first.        *)
AirsTheMessage == [][InOrder' /\ LastsEightTicks]_usiAllVars

(* While others send to us as well, whenever either begins, a message of   *)
(* ours may be given up and the rest of its frame masked, but no byte that *)
(* is loaded is replaced while the message goes on.                        *)
AirsOwnFrames ==
  [][aired' = aired + 1 /\ Transmitting => USIDR' = FramePattern(aired')]_usiAllVars

(* The reason: an ack, which may have to go into the byte that is loaded,  *)
(* falls into a message of another device only, also when that began with  *)
(* one of ours and won.  A broadcast of ours that we refuse violates it.   *)
AcksOutsideOurs == step = "inject" => ~Transmitting

(* When others only ack, and cec_periodic() is called in time, a           *)
(* transmission fails for a missing ack or not at all: each bit is         *)
(* compared with its own sample, two bytes later, and none of our own      *)
(* frames is taken for somebody else's.                                    *)
OnlyNacksFail == \A err \in CecErr \ {CEC_ERR_NACK} : transmit_stats[err] = 0

(* A queued message is disposed of, one way or the other.                  *)
SendEnds == transmit_state = TRANSMIT_PEND ~> transmit_state < TRANSMIT_PEND

(* "we can't keep sending bad data" (cec_usi.c:172): once a transmission   *)
(* is given up nothing of it is on the line, neither the rest of the frame *)
(* that is being shifted out nor the one behind it.  It holds when others  *)
(* only ack; an arbitration that is lost between two USI bytes violates it.*)
StopsWhenAborted ==
  transmit_state \in {TRANSMIT_FAILED, TRANSMIT_AGAIN} => ~USIDR[1]

(* A device that has nothing to send drives the line in ack bits only,     *)
(* however their falling edges fall into the USI bytes, and a nack of lost *)
(* sync drives it only while nobody sends.                                 *)
OthersAckBit == others.bit > 0 /\ FrameOffset(others.bit) = FRAME

AckInItsBit ==
  /\ USIDR[1] /\ transmit_state = TRANSMIT_IDLE => OthersAckBit
  /\ recv_driven => others.msg = << >>

(* When cec_periodic() is called once a tick, the sender of a message that *)
(* we accept samples our ack, and that of a broadcast that we refuse our   *)
(* nack, in every byte.                                                    *)
AckHeard ==
  [][OthersAckBit /\ others.t = 3 /\ others'.t = 4 /\ "DO_ACK" \in cec_receive_flags
       => others'.heard]_usiAllVars

(* A header that admits neither a nack nor an overrun stands for a message *)
(* that its sender has sent to the end, and the buffer holds its bytes,    *)
(* whatever the lengths of its pulses and the alignment of the USI bytes.  *)
ReceivedAsSent ==
  [][~MessagePending /\ MessagePending' /\ ~cec_receive_hdr'.nack /\ ~cec_receive_hdr'.overrun
       => /\ cec_receive_hdr'.len = Len(said)
          /\ \A i \in DOMAIN said : cec_receive_buf'[i] = said[i]]_usiAllVars

(* A nack of lost sync lets the line go again.                             *)
LineReleased == recv_driven ~> ~recv_driven

(* The ticks that a frame is low, and what n ticks are at a clock rate.    *)
LowTicks(pattern) == Cardinality({i \in 1..8 : pattern[i]})

Sent(f, n) == n * UsiTick(f)

(* What the n-th byte of a message of ours makes of the line.              *)
SentInSpec(f, n, byte) ==
  LET low == LowTicks(byte)
  IN CASE n = 1 -> TRUE
       [] n = 2 -> /\ Within(f, Sent(f, 7 + low), CEC_START_LOW_EARLY, CEC_START_LOW_LATE)
                   /\ Within(f, Sent(f, 7 + 8), CEC_START_HIGH_EARLY, CEC_START_HIGH_LATE)
       [] OTHER -> /\ \/ low = 0
                      \/ Within(f, Sent(f, low), CEC_T1_EARLY1, CEC_T2_LATE1)
                      \/ Within(f, Sent(f, low), CEC_T5_EARLY0, CEC_T6_LATE0)
                   /\ Within(f, Sent(f, 8), CEC_T7_EARLY_END, CEC_T8_LATE_END)

(* A falling edge is seen up to a tick late.  The sample is taken where    *)
(* the standard wants it, and neither the start frames nor the bits that   *)
(* the standard allows have too few or too many ticks.                     *)
SampledInSpec(f) ==
  /\ CEC_T3 * f <= UsiTick(f) * 100 * (CEC_NOM_SAMPLE \div SAMPLE_US)
  /\ UsiTick(f) * 100 * (1 + CEC_NOM_SAMPLE \div SAMPLE_US) <= CEC_T4 * f

Accepted(f, min, max, first, last) ==
  /\ min <= (first * f) \div (UsiTick(f) * 100)
  /\ DIV_ROUND_UP(last * f, UsiTick(f) * 100) <= max

ReceivedInSpec(f, min, max) ==
  CASE usi_recv_state' = USI_RECV_START ->
         /\ Accepted(f, MIN_TICKS(CEC_START_LOW_EARLY), MAX_TICKS(CEC_START_LOW_LATE),
                     CEC_START_LOW_EARLY, CEC_START_LOW_LATE)
         /\ Accepted(f, min, max, CEC_START_HIGH_EARLY, CEC_START_HIGH_LATE)
    [] usi_recv_state' = USI_RECV_BITS ->
         SampledInSpec(f) /\ Accepted(f, min, max, CEC_T7_EARLY_END, CEC_T8_LATE_END)
    [] OTHER -> TRUE

(* The driver sends and expects whole ticks, and a tick is rounded to what *)
(* timer 0 can count.  Whatever byte of a message it puts on the line is   *)
(* within the limits of the standard, and whatever limits it sets admit    *)
(* all that the standard does.                                             *)
UsiTimingInSpec ==
  [][\A f \in Clocks :
       /\ aired' = aired + 1 /\ Transmitting => SentInSpec(f, aired', USIDR')
       /\ frameLimits' # frameLimits => ReceivedInSpec(f, min_frame_ticks', max_frame_ticks')
    ]_usiAllVars
=============================================================================
