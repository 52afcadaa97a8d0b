----------------------------- MODULE CecEngine -----------------------------
(***************************************************************************)
(* The library as the application runs it: cec_init(), cec_periodic() and  *)
(* cec_halt() of cec.c over the two engines, the address assignment and    *)
(* the USI driver, cec_usi.c.                                              *)
(*                                                                         *)
(* The driver is modelled at the level of the events cec_process_tick()    *)
(* finds in the eight line samples of a USI byte.  The tick counts that    *)
(* tell the events apart are left out: any event may follow any other, so  *)
(* that every sequence of samples is covered, the ones a noisy bus or a    *)
(* late cec_periodic() produces included.                                  *)
(*                                                                         *)
(* Nothing here runs in an interrupt.  cec_periodic() is split into steps  *)
(* (phase), but the application acts only between two calls of it.         *)
(***************************************************************************)
EXTENDS CecReceive

CONSTANTS
  Messages,       \* messages the application sends
  WireBytes,      \* bytes that may be seen on the bus
  MaxWireBytes,   \* bound on the bytes of a message on the bus
  AddressSets,    \* bitfield: sets the application may assign
  HaltPolicy      \* when the application calls cec_halt()

VARIABLES
  usi_recv_state,  \* USI_RECV_...
  idle_frames,     \* USI bytes in a row in which the line stayed high
  phase,           \* where in cec_periodic() we are
  mode,            \* "started" by cec_init(), "running" or "halted"
  sent,            \* history: bits handed out in this transmission
  wire,            \* history: bytes seen since the start frame, the first
                   \* CEC_BUFFER_SIZE of them
  count,           \* history: how many bytes were seen since the start frame
  acked            \* history: addresses that answered our pings

historyVars == <<sent, wire, count, acked>>
driverVars == <<usi_recv_state, idle_frames, phase, mode>>
vars == <<transmitVars, addrVars, receiveVars, driverVars, historyVars>>

USI_RECV_IDLE  == "idle"
USI_RECV_START == "start"
USI_RECV_BITS  == "bits"

ASSUME EngineAssumption ==
  /\ \A m \in Messages : /\ m \in [source : Address, target : Address, body : Seq(Byte)]
                         /\ Len(m.body) < CEC_BUFFER_SIZE
  /\ WireBytes \subseteq Byte
  /\ MaxWireBytes \in Nat \ {0}
  /\ AddressSets \subseteq SUBSET Address
  /\ HaltPolicy \in {"never", "quiet", "anytime"}

(* Between two calls; in the loop over the samples of a byte, which had a  *)
(* low sample ("ticks") or none ("high"); after the loop.                  *)
Phase == {"app", "ticks", "high", "out"}

DriverTypeOK ==
  /\ usi_recv_state \in {USI_RECV_IDLE, USI_RECV_START, USI_RECV_BITS}
  /\ idle_frames \in 0..IDLE_FRAMES_MAX
  /\ phase \in Phase
  /\ mode \in {"started", "running", "halted"}

HistoryTypeOK ==
  /\ sent \in Nat
  /\ wire \in Seq(Byte) /\ Len(wire) <= CEC_BUFFER_SIZE
  /\ count \in 0..MaxWireBytes
  /\ acked \subseteq Address

(* The types of every variable: C types, the arrays' bounds, and the       *)
(* saturation of idle_frames.                                              *)
TypeOK ==
  TransmitTypeOK /\ AddrTypeOK /\ ReceiveTypeOK /\ DriverTypeOK /\ HistoryTypeOK

(* Power up: static storage is zero, then the application's cec_init().    *)
Init ==
  /\ TransmitInit
  /\ AddrInit
  /\ ReceiveInit
  /\ usi_recv_state = USI_RECV_IDLE
  /\ idle_frames = 0
  /\ phase = "app"
  /\ mode = "started"
  /\ sent = 0 /\ wire = << >> /\ count = 0 /\ acked = {}

-----------------------------------------------------------------------------
(***************************************************************************)
(* cec_receive_periodic(), before the loop.  Between two USI bytes it can  *)
(* only find that somebody else holds the line low.                        *)
(***************************************************************************)
LineCheck ==
  \/ cec_transmit_on_error(CEC_ERR_ARB_LOST)
  \/ UNCHANGED transmitVars

PollBetweenBytes ==
  /\ phase = "app" /\ mode # "halted"
  /\ LineCheck
  /\ phase' = "out"
  /\ UNCHANGED <<addrVars, receiveVars, usi_recv_state, idle_frames, mode, historyVars>>

(* Mutant: the counter does not saturate.                                  *)
NextIdleFramesUnbounded(high) == IF high THEN idle_frames + 1 ELSE 0

NextIdleFrames(high) ==
  IF ~high THEN 0
  ELSE IF idle_frames = IDLE_FRAMES_MAX THEN IDLE_FRAMES_MAX ELSE idle_frames + 1

(* Mutant: the nack has no end.                                            *)
ByteReceivedKeepsNack(high) ==
  /\ phase = "app" /\ mode # "halted"
  /\ LineCheck
  /\ recv_driven' = (recv_driven /\ usi_nacking)
  /\ idle_frames' = NextIdleFrames(high)
  /\ phase' = IF high THEN "high" ELSE "ticks"
  /\ UNCHANGED <<addrVars, cec_receive_buf, cec_receive_byte, cec_receive_pos,
                 cec_receive_flags, cec_receive_hdr, usi_nacking, usi_recv_state, mode,
                 historyVars>>

(* A USI byte is complete.  The line is let go, unless a nack has not yet  *)
(* lasted for a full byte.  high: the line was high for the whole byte.    *)
ByteReceived(high) ==
  /\ phase = "app" /\ mode # "halted"
  /\ LineCheck
  /\ recv_driven' = (recv_driven /\ usi_nacking)
  /\ usi_nacking' = FALSE
  /\ idle_frames' = NextIdleFrames(high)
  /\ phase' = IF high THEN "high" ELSE "ticks"
  /\ UNCHANGED <<addrVars, cec_receive_buf, cec_receive_byte, cec_receive_pos,
                 cec_receive_flags, cec_receive_hdr, usi_recv_state, mode,
                 historyVars>>

-----------------------------------------------------------------------------
(***************************************************************************)
(* cec_process_tick(): the events found in the samples.                    *)
(***************************************************************************)
InLoop == phase \in {"ticks", "high"}

(* The bytes the bus carries begin with the bits received so far.          *)
OnTheBus(bit) ==
  \E b \in WireBytes : \A i \in 2..Len(ShiftIn(bit)) : b[i - 1] = ShiftIn(bit)[i]

RecordByte(bit) ==
  IF LastDataBit
  THEN /\ count' = count + 1
       /\ wire' = IF Len(wire) < CEC_BUFFER_SIZE THEN Append(wire, Tail(ShiftIn(bit))) ELSE wire
  ELSE UNCHANGED <<wire, count>>

(* A ping of the address search was answered.                              *)
RecordAck ==
  acked' = IF /\ transmit_state = TRANSMIT_WAIT_FOR_ACK
              /\ transmit_state' = TRANSMIT_IDLE
              /\ Searching
           THEN acked \cup {Target(transmit_buf[0])} ELSE acked

(* The sample window of a bit.                                             *)
SampleBit(bit) ==
  /\ InLoop /\ (phase = "high" => bit)
  /\ usi_recv_state = USI_RECV_BITS
  /\ ReceivingBits /\ cec_receive_byte # ByteComplete => OnTheBus(bit)
  /\ LastDataBit => count < MaxWireBytes
  /\ cec_receive_bit(bit)
  /\ usi_recv_state' = IF cec_receive_flags' = {} THEN USI_RECV_IDLE ELSE USI_RECV_BITS
  /\ RecordByte(bit)
  /\ RecordAck
  /\ UNCHANGED <<addrVars, idle_frames, phase, mode, sent>>

(* No transition for too long, or a falling edge too early.                *)
Lost(err) ==
  /\ cec_receive_error(err)
  /\ usi_recv_state' = USI_RECV_IDLE
  /\ UNCHANGED <<addrVars, idle_frames, phase, mode, historyVars>>

NoTransition == InLoop /\ Lost(CEC_ERR_NO_EOM)

EarlyFallingEdge == phase = "ticks" /\ Lost(CEC_ERR_LOW_DRIVE)

(* A rising edge after the low period of a start frame.                    *)
StartLow ==
  /\ InLoop
  /\ usi_recv_state' = USI_RECV_START
  /\ UNCHANGED <<transmitVars, addrVars, receiveVars, idle_frames, phase, mode, historyVars>>

(* The falling edge that completes a start frame.                          *)
StartFrame ==
  /\ phase = "ticks"
  /\ usi_recv_state = USI_RECV_START
  /\ cec_receive_start
  /\ usi_recv_state' = USI_RECV_BITS
  /\ wire' = << >> /\ count' = 0
  /\ UNCHANGED <<addrVars, idle_frames, phase, mode, sent, acked>>

-----------------------------------------------------------------------------
(***************************************************************************)
(* cec_usi_next_bit(): the frame to send during the byte after the next.   *)
(***************************************************************************)
MayStart == Pending /\ idle_frames >= needed_idle_frames

NextBitNone ==
  /\ usi_xmit_state = USI_XMIT_IDLE /\ ~MayStart
  /\ UNCHANGED <<transmitVars, sent>>

NextBitStart ==
  /\ usi_xmit_state = USI_XMIT_IDLE /\ MayStart
  /\ cec_transmit_start
  /\ usi_xmit_state' = USI_XMIT_START
  /\ sent' = 0

(* The second byte of the start frame.                                     *)
NextBitStart1 ==
  /\ usi_xmit_state = USI_XMIT_START
  /\ usi_xmit_state' = USI_XMIT_BITS
  /\ UNCHANGED <<transmit_state, transmit_stats, transmit_buf, transmit_buf_end,
                 transmit_buf_bit, transmit_buf_pos, transmit_last_bit,
                 transmit_retries, needed_idle_frames, sent>>

NextBitData(bit) ==
  /\ usi_xmit_state = USI_XMIT_BITS
  /\ cec_transmit_get_bit(bit)
  /\ usi_xmit_state' =
       IF transmit_state' = TRANSMIT_WAIT_FOR_ACK THEN USI_XMIT_IDLE ELSE USI_XMIT_BITS
  /\ sent' = sent + 1

cec_usi_next_bit ==
  /\ InLoop
  /\ \/ NextBitNone
     \/ NextBitStart
     \/ NextBitStart1
     \/ \E bit \in BOOLEAN : NextBitData(bit)
  /\ phase' = "out"
  /\ UNCHANGED <<addrVars, receiveVars, usi_recv_state, idle_frames, mode, wire, count, acked>>

(* cec_addr_periodic() is the last call of cec_periodic().                 *)
AddrPeriodic ==
  /\ phase = "out"
  /\ cec_addr_periodic
  /\ phase' = "app"
  /\ mode' = "running"
  /\ UNCHANGED <<cec_receive_buf, cec_receive_byte, cec_receive_pos, cec_receive_flags,
                 recv_driven, usi_nacking, usi_recv_state, idle_frames, historyVars>>

cec_periodic ==
  \/ PollBetweenBytes
  \/ \E high \in BOOLEAN : ByteReceived(high)
  \/ \E bit \in BOOLEAN : SampleBit(bit)
  \/ NoTransition \/ EarlyFallingEdge \/ StartLow \/ StartFrame
  \/ cec_usi_next_bit
  \/ AddrPeriodic

-----------------------------------------------------------------------------
(***************************************************************************)
(* The application.  It follows README.md: it loads a message only into a  *)
(* free transmit interface, and it clears the header of a message it has   *)
(* read.                                                                   *)
(***************************************************************************)
AppTurn == phase = "app" /\ mode = "running"

AppSend(m) ==
  /\ AppTurn
  /\ transmit_state < TRANSMIT_PEND
  /\ transmit_buf' =
       [i \in DOMAIN transmit_buf |->
          IF i = 0 THEN cec_addr_build(m.source, m.target)
          ELSE IF i <= Len(m.body) THEN m.body[i] ELSE transmit_buf[i]]
  /\ transmit_buf_end' = Len(m.body)
  /\ transmit_state' = TRANSMIT_PEND
  /\ UNCHANGED <<transmit_stats, transmit_buf_bit, transmit_buf_pos, transmit_last_bit,
                 transmit_retries, needed_idle_frames, usi_xmit_state>>
  /\ UNCHANGED <<addrVars, receiveVars, driverVars, historyVars>>

AppClearHeader ==
  /\ AppTurn
  /\ MessagePending
  /\ cec_receive_hdr' = EmptyHeader
  /\ UNCHANGED <<transmitVars, addrVars, cec_receive_buf, cec_receive_byte, cec_receive_pos,
                 cec_receive_flags, recv_driven, usi_nacking, driverVars, historyVars>>

AppSetAddresses(set) ==
  /\ AppTurn
  /\ ADDR_MODULE = "bitfield"
  /\ logical_addresses' = set
  /\ UNCHANGED <<logical_address, cec_dev_idx>>
  /\ UNCHANGED <<transmitVars, receiveVars, driverVars, historyVars>>

(* "quiet": only while neither half of the driver is inside a message.     *)
HaltAllowed ==
  CASE HaltPolicy = "never"   -> FALSE
    [] HaltPolicy = "quiet"   -> /\ usi_xmit_state = USI_XMIT_IDLE
                                 /\ usi_recv_state # USI_RECV_BITS
    [] HaltPolicy = "anytime" -> TRUE

cec_halt ==
  /\ AppTurn /\ HaltAllowed
  /\ HaltAbort
  /\ transmit_state' = TRANSMIT_IDLE
  /\ usi_nacking' = (usi_nacking \/ "BCAST" \in cec_receive_flags)
  /\ recv_driven' = FALSE
  /\ cec_receive_flags' = {}
  /\ cec_receive_hdr' = EmptyHeader
  /\ cec_addr_init
  /\ mode' = "halted"
  /\ acked' = {}
  /\ UNCHANGED <<cec_receive_buf, cec_receive_byte, cec_receive_pos,
                 usi_recv_state, idle_frames, phase, sent, wire, count>>

cec_init ==
  /\ mode = "halted"
  /\ needed_idle_frames' = CEC_NEW_PERIOD_WAIT
  /\ transmit_state' = AddrInitTransmitState
  /\ cec_addr_init
  /\ mode' = "started"
  /\ UNCHANGED <<transmit_stats, transmit_buf, transmit_buf_end, transmit_buf_bit,
                 transmit_buf_pos, transmit_last_bit, transmit_retries, usi_xmit_state>>
  /\ recv_driven' = FALSE
  /\ UNCHANGED <<cec_receive_buf, cec_receive_byte, cec_receive_pos, cec_receive_flags,
                 cec_receive_hdr, usi_nacking, usi_recv_state, idle_frames, phase,
                 historyVars>>

Application ==
  \/ \E m \in Messages : AppSend(m)
  \/ AppClearHeader
  \/ \E set \in AddressSets : AppSetAddresses(set)
  \/ cec_halt
  \/ cec_init

Next == cec_periodic \/ Application

Spec == Init /\ [][Next]_vars

-----------------------------------------------------------------------------
(***************************************************************************)
(* Transmitting.                                                           *)
(***************************************************************************)

DriverInStep ==
  usi_xmit_state # USI_XMIT_IDLE <=> transmit_state \in {TRANSMIT_BIT_EOM, TRANSMIT_ACK}

NeverPastTheEnd ==
  usi_xmit_state # USI_XMIT_IDLE => transmit_buf_pos <= transmit_buf_end

(* The driver is inside a message exactly while the engine has one to      *)
(* hand out, and the engine never runs past the message's last byte.       *)
(* cec_usi.c and cec_transmit.c each keep their own state for this.        *)
TxLockstep == DriverInStep /\ NeverPastTheEnd

Failures ==
  transmit_stats[CEC_ERR_ARB_LOST] + transmit_stats[CEC_ERR_NACK] + transmit_stats[CEC_ERR_NO_EOM]
  + transmit_stats[CEC_ERR_LOW_DRIVE] + transmit_stats[CEC_ERR_HALT] + transmit_stats[CEC_ERR_HW]

(* Every failed transmission of the current message is counted once and    *)
(* under one cause in transmit_state_buf (README.md, CEC_ERR_STATS).       *)
StatsMatchRetries ==
  transmit_state \notin {TRANSMIT_IDLE, TRANSMIT_PEND} => Failures = transmit_retries

(* The bits handed to the driver are the frames of the message, in order,  *)
(* none skipped, repeated or added, also after a retransmission; the       *)
(* engine starts waiting for the ack when all of them are out.             *)
SendsTheMessage ==
  [][sent' = sent + 1 =>
       /\ sent' <= FRAME * (transmit_buf_end + 1)
       /\ transmit_last_bit'[2] = FrameBit(sent')
       /\ transmit_state' = TRANSMIT_WAIT_FOR_ACK <=> sent' = FRAME * (transmit_buf_end + 1)]_vars

(* The engine behind the transmit interface implements its abstract        *)
(* specification.                                                          *)
ServiceStatus == IF mode = "halted" THEN "off" ELSE StatusOf(transmit_state)
ServiceTries == TriesOf(transmit_state, transmit_retries)

Service == INSTANCE TransmitService
             WITH MaxTries <- CEC_XMIT_MAX_RETRANSMIT,
                  status <- ServiceStatus, tries <- ServiceTries

ImplementsService == Service!Spec

-----------------------------------------------------------------------------
(***************************************************************************)
(* Receiving.                                                              *)
(***************************************************************************)
Receiving == cec_receive_flags # {}

Dropped == cec_receive_flags \cap {"IGNORE", "OVERRUN"} # {}

(* The line is pulled low in an ack frame to accept a message addressed to *)
(* us alone and to refuse a broadcast, so DO_ACK must be off while we drop *)
(* a message of the first kind, and on exactly while we drop a broadcast:  *)
(* the sender is never told that a message went through that was lost.     *)
NoAckOfDroppedData ==
  Receiving =>
    IF "BCAST" \in cec_receive_flags
    THEN "DO_ACK" \in cec_receive_flags <=> Dropped
    ELSE "DO_ACK" \in cec_receive_flags => ~Dropped

(* Bytes past the buffer are always marked: nothing is stored beyond it.   *)
StoresInBounds ==
  Receiving /\ cec_receive_pos > CEC_BUFFER_SIZE => Dropped

(* While the header is set the receive buffer is the application's: the    *)
(* engine changes neither the bytes nor the header, whatever arrives.      *)
BufferOwnedByApp ==
  [][MessagePending =>
       /\ cec_receive_buf' = cec_receive_buf
       /\ cec_receive_hdr' \in {cec_receive_hdr, EmptyHeader}]_vars

(* A header is filled in at the end of a reception only, it says how many  *)
(* bytes there were and whether they fit, it admits an incomplete message  *)
(* by its nack bit, and the buffer holds what was on the wire.  From       *)
(* LEN_RANGE bytes on the length spills over (README.md).                  *)
DeliversWhatWasSent ==
  [][~MessagePending /\ MessagePending' =>
       /\ Receiving
       /\ "EOM" \in cec_receive_flags \/ cec_receive_hdr'.nack
       /\ count < LEN_RANGE =>
            /\ cec_receive_hdr'.len = count
            /\ cec_receive_hdr'.overrun <=> count > CEC_BUFFER_SIZE
       /\ \A i \in DOMAIN wire : cec_receive_buf'[i] = wire[i]]_vars

-----------------------------------------------------------------------------
(***************************************************************************)
(* Address assignment.                                                     *)
(***************************************************************************)

(* An address that answered a ping is never claimed, and the search ends   *)
(* without an address only if every candidate answered.                    *)
ClaimsUnansweredAddress ==
  ADDR_MODULE = "dev_type" /\ cec_addr_ready =>
    IF logical_address = CEC_ADDR_UNREGISTERED
    THEN \A i \in DOMAIN cec_dev_addrs : Target(cec_dev_addrs[i]) \in acked
    ELSE logical_address \notin acked

(* README.md: the application need not ask cec_addr_ready(), because until *)
(* then it sees an empty receive buffer and a busy transmit interface.     *)
SearchHidden ==
  AppTurn /\ Searching => ~MessagePending /\ transmit_state >= TRANSMIT_PEND
=============================================================================
