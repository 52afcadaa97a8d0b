-------------------------- MODULE CecEngineProofs --------------------------
(***************************************************************************)
(* Proofs about CecEngine, for every value of the constants.               *)
(***************************************************************************)
EXTENDS CecEngine, SequenceTheorems, TLAPS

USE SizeAssumption, WaitAssumption

-----------------------------------------------------------------------------
(***************************************************************************)
(* Types of the constants and of the operators on bytes.                   *)
(***************************************************************************)
LEMMA Sizes ==
  /\ UCHAR \in Nat /\ UCHAR > CEC_BUFFER_SIZE /\ UCHAR >= LEN_RANGE
  /\ BITS \in Nat /\ BITS = ADDR_BITS + ADDR_BITS /\ BITS >= 2
  BY DEF UCHAR, BITS

LEMMA UcharMod ==
  ASSUME NEW n \in Nat
  PROVE  n % UCHAR \in 0..(UCHAR - 1)
  BY Sizes

LEMMA ByteTypes ==
  /\ ZeroByte \in Byte
  /\ CEC_ADDR_BROADCAST \in Address
  /\ CEC_ADDR_UNREGISTERED \in Address
  /\ \A b \in Byte : Target(b) \in Address
  /\ \A s, t \in Address : MAKE_ADDRESS(s, t) \in Byte
  BY Sizes DEF ZeroByte, Byte, CEC_ADDR_BROADCAST, CEC_ADDR_UNREGISTERED, Target,
               MAKE_ADDRESS, Address

-----------------------------------------------------------------------------
(***************************************************************************)
(* The operations of the transmit engine preserve its types.               *)
(***************************************************************************)
LEMMA OnErrorTyped ==
  ASSUME TransmitTypeOK, NEW err \in CecErr, cec_transmit_on_error(err)
  PROVE  TransmitTypeOK'
<1>1. CASE UNCHANGED transmitVars
  BY <1>1 DEF transmitVars, TransmitTypeOK
<1>2. CASE AbortEffects(err) /\ transmit_state' = AbortedState
  <2>1. transmit_stats' \in [CecErr -> 0..(UCHAR - 1)]
    <3>1. transmit_stats[err] + 1 \in Nat
      BY Sizes DEF TransmitTypeOK
    <3>2. (transmit_stats[err] + 1) % UCHAR \in 0..(UCHAR - 1)
      BY <3>1, UcharMod
    <3> QED BY <1>2, <3>2 DEF AbortEffects, TransmitTypeOK
  <2>2. transmit_retries' \in 0..(UCHAR - 1)
    <3>1. transmit_retries + 1 \in Nat
      BY DEF TransmitTypeOK
    <3> QED BY <1>2, <3>1, UcharMod DEF AbortEffects, NextRetry
  <2>3. transmit_state' \in TransmitState
    BY <1>2 DEF AbortedState, TransmitState
  <2>4. usi_xmit_state' \in XmitState /\ needed_idle_frames' \in 0..IDLE_FRAMES_MAX
    BY <1>2 DEF AbortEffects, XmitState, TransmitTypeOK
  <2> QED BY <1>2, <2>1, <2>2, <2>3, <2>4 DEF AbortEffects, TransmitTypeOK
<1> QED BY <1>1, <1>2 DEF cec_transmit_on_error

LEMMA CheckBitTyped ==
  ASSUME TransmitTypeOK, NEW bit \in BOOLEAN, cec_check_tx_bit(bit)
  PROVE  TransmitTypeOK'
<1>1. CASE cec_transmit_on_error(CEC_ERR_ARB_LOST)
  BY <1>1, OnErrorTyped DEF CecErr
<1>2. CASE UNCHANGED transmitVars
  BY <1>2 DEF transmitVars, TransmitTypeOK
<1> QED BY <1>1, <1>2 DEF cec_check_tx_bit

LEMMA ReceiveAckTyped ==
  ASSUME TransmitTypeOK, NEW ack \in BOOLEAN, cec_transmit_receive_ack(ack)
  PROVE  TransmitTypeOK'
<1>1. CASE ack
  BY <1>1 DEF cec_transmit_receive_ack, AckedState, TransmitState, TransmitTypeOK
<1>2. CASE ~ack
  BY <1>2, OnErrorTyped DEF cec_transmit_receive_ack, CecErr
<1> QED BY <1>1, <1>2

LEMMA StartTyped ==
  ASSUME TransmitTypeOK, cec_transmit_start, usi_xmit_state' \in XmitState
  PROVE  TransmitTypeOK'
  BY Sizes DEF TransmitTypeOK, cec_transmit_start, NoStats, TransmitState

LEMMA GetBitTyped ==
  ASSUME TransmitTypeOK, NEW bit \in BOOLEAN, cec_transmit_get_bit(bit),
         usi_xmit_state' \in XmitState
  PROVE  TransmitTypeOK'
<1>1. transmit_last_bit' \in BOOLEAN \X BOOLEAN
  BY DEF cec_transmit_get_bit, TransmitTypeOK
<1>2. /\ transmit_state' \in TransmitState
      /\ transmit_buf_bit' \in 0..BITS
      /\ needed_idle_frames' \in 0..IDLE_FRAMES_MAX
  BY Sizes DEF cec_transmit_get_bit, GetDataBit, GetEomBit, GetAckBit, TransmitState, TransmitTypeOK
<1>3. transmit_buf_pos' \in 0..(UCHAR - 1)
  <2>1. transmit_buf_pos + 1 \in Nat
    BY DEF TransmitTypeOK
  <2> QED BY <2>1, UcharMod
          DEF cec_transmit_get_bit, GetDataBit, GetEomBit, GetAckBit, TransmitTypeOK
<1> QED BY <1>1, <1>2, <1>3 DEF cec_transmit_get_bit, TransmitTypeOK

-----------------------------------------------------------------------------
(***************************************************************************)
(* The address assignment preserves its types and those of the transmit    *)
(* engine.                                                                 *)
(***************************************************************************)
LEMMA HeaderTyped == EmptyHeader \in Header
  BY DEF EmptyHeader, Header

LEMMA DevAddrTyped ==
  ASSUME NEW i \in DOMAIN cec_dev_addrs
  PROVE  cec_dev_addrs[i] \in Byte
  BY AddrAssumption

LEMMA AddrPeriodicTyped ==
  ASSUME TransmitTypeOK, AddrTypeOK, cec_addr_periodic
  PROVE  TransmitTypeOK' /\ AddrTypeOK'
<1>1. CASE AddrIdle
  BY <1>1 DEF AddrIdle, transmitVars, addrVars, TransmitTypeOK, AddrTypeOK
<1>2. CASE AddrPing
  <2>1. cec_dev_idx + 1 \in 1..Len(cec_dev_addrs)
    BY <1>2, AddrAssumption DEF AddrPing, AddrTypeOK
  <2>2. cec_dev_addrs[cec_dev_idx + 1] \in Byte
    BY <2>1, DevAddrTyped, AddrAssumption
  <2> QED BY <1>2, <2>1, <2>2, HeaderTyped
          DEF AddrPing, TransmitTypeOK, AddrTypeOK, TransmitState
<1>3. CASE AddrGiveUp
  BY <1>3, HeaderTyped, ByteTypes DEF AddrGiveUp, transmitVars, TransmitTypeOK, AddrTypeOK
<1>4. CASE AddrClaim
  <2>1. Target(transmit_buf[0]) \in Address
    BY ByteTypes DEF TransmitTypeOK
  <2> QED BY <1>4, <2>1, HeaderTyped DEF AddrClaim, transmitVars, TransmitTypeOK, AddrTypeOK
<1>5. CASE AddrWait
  BY <1>5, HeaderTyped DEF AddrWait, transmitVars, addrVars, TransmitTypeOK, AddrTypeOK
<1> QED BY <1>1, <1>2, <1>3, <1>4, <1>5 DEF cec_addr_periodic

LEMMA AddrInitTyped ==
  ASSUME AddrTypeOK, cec_addr_init, cec_receive_hdr' \in Header
  PROVE  AddrTypeOK'
<1>1. 0 \in 0..Len(cec_dev_addrs)
  BY AddrAssumption
<1> QED BY <1>1 DEF AddrTypeOK, cec_addr_init, addrVars

-----------------------------------------------------------------------------
(***************************************************************************)
(* The operations of the receive engine preserve its types and those of    *)
(* the transmit engine.                                                    *)
(***************************************************************************)
RecvTypeOK == ReceiveTypeOK /\ cec_receive_hdr \in Header

LEMMA ReceiveErrorTyped ==
  ASSUME TransmitTypeOK, RecvTypeOK, NEW err \in CecErr, cec_receive_error(err)
  PROVE  TransmitTypeOK' /\ RecvTypeOK'
<1>1. CASE cec_receive_flags = {}
  BY <1>1 DEF cec_receive_error, receiveVars, transmitVars, TransmitTypeOK, RecvTypeOK, ReceiveTypeOK
<1>2. CASE cec_receive_flags # {}
  <2>1. TransmitTypeOK'
    BY <1>2, OnErrorTyped DEF cec_receive_error
  <2>2. RecvTypeOK'
    BY <1>2 DEF cec_receive_error, cec_receive_nack_frame, RecvTypeOK, ReceiveTypeOK
  <2> QED BY <2>1, <2>2
<1> QED BY <1>1, <1>2

LEMMA ReceiveStartTyped ==
  ASSUME TransmitTypeOK, RecvTypeOK, cec_receive_start
  PROVE  TransmitTypeOK' /\ RecvTypeOK'
  BY Sizes DEF cec_receive_start, TransmitTypeOK, RecvTypeOK, ReceiveTypeOK, RecvFlag, MarkerOnly

(* The marker falls out of a complete byte, and what is left is a byte.    *)
LEMMA ShiftedByte ==
  ASSUME RecvTypeOK, NEW bit \in BOOLEAN, LastDataBit
  PROVE  Tail(ShiftIn(bit)) \in Byte
<1>1. cec_receive_byte \in Seq(BOOLEAN) /\ Len(cec_receive_byte) = BITS
  BY DEF RecvTypeOK, ReceiveTypeOK, LastDataBit
<1>2. /\ ShiftIn(bit) \in Seq(BOOLEAN)
      /\ Len(ShiftIn(bit)) = BITS + 1
  BY <1>1, Sizes DEF ShiftIn
<1>3. /\ Tail(ShiftIn(bit)) \in Seq(BOOLEAN)
      /\ Len(Tail(ShiftIn(bit))) = BITS
  BY <1>2, Sizes
<1> QED BY <1>3, LenProperties DEF Byte

LEMMA ByteDoneTyped ==
  ASSUME RecvTypeOK, NEW byte \in Byte, ReceiveByteDone(byte),
         recv_driven' \in BOOLEAN, usi_nacking' \in BOOLEAN
  PROVE  RecvTypeOK'
<1>1. cec_receive_flags' \subseteq RecvFlag
  <2>1. ByteFlags(byte) \subseteq RecvFlag
    BY DEF ByteFlags, AddressFlags, RecvFlag, RecvTypeOK, ReceiveTypeOK
  <2> QED BY <2>1 DEF ReceiveByteDone, RefusedFlags, RecvFlag
<1>2. cec_receive_pos' \in 0..(UCHAR - 1)
  <2>1. cec_receive_pos + 1 \in Nat
    BY Sizes DEF RecvTypeOK, ReceiveTypeOK
  <2> QED BY <2>1, UcharMod DEF ReceiveByteDone
<1>3. cec_receive_buf' \in [1..CEC_BUFFER_SIZE -> Byte]
  BY DEF ReceiveByteDone, RecvTypeOK, ReceiveTypeOK
<1>4. cec_receive_byte' \in Seq(BOOLEAN) /\ Len(cec_receive_byte') <= BITS
  BY Sizes DEF ReceiveByteDone, ByteComplete
<1> QED BY <1>1, <1>2, <1>3, <1>4 DEF ReceiveByteDone, RecvTypeOK, ReceiveTypeOK

LEMMA StatusHeaderTyped ==
  ASSUME RecvTypeOK, NEW nacked \in BOOLEAN
  PROVE  StatusHeader(nacked) \in Header
<1>1. cec_receive_pos \in Nat /\ LEN_RANGE \in Nat \ {0}
  BY Sizes DEF RecvTypeOK, ReceiveTypeOK
<1>2. cec_receive_pos % LEN_RANGE \in 0..(LEN_RANGE - 1)
  BY <1>1
<1> QED BY <1>2 DEF StatusHeader, Header

LEMMA ReceiveBitTyped ==
  ASSUME TransmitTypeOK, RecvTypeOK, NEW bit \in BOOLEAN, cec_receive_bit(bit)
  PROVE  TransmitTypeOK' /\ RecvTypeOK'
<1>1. recv_driven' \in BOOLEAN /\ usi_nacking' \in BOOLEAN
  BY DEF cec_receive_bit, RecvTypeOK, ReceiveTypeOK
<1>2. CASE ReceiveDataBit(bit)
  <2>1. TransmitTypeOK'
    BY <1>2, CheckBitTyped DEF ReceiveDataBit
  <2>2. CASE LastDataBit
    BY <1>1, <1>2, <2>1, <2>2, ShiftedByte, ByteDoneTyped DEF ReceiveDataBit
  <2>3. CASE ~LastDataBit
    <3>1. cec_receive_byte' \in Seq(BOOLEAN) /\ Len(cec_receive_byte') <= BITS
      BY <1>2, <2>3, Sizes DEF ReceiveDataBit, LastDataBit, ShiftIn, RecvTypeOK, ReceiveTypeOK
    <3> QED BY <1>1, <1>2, <2>1, <2>3, <3>1 DEF ReceiveDataBit, RecvTypeOK, ReceiveTypeOK
  <2> QED BY <2>2, <2>3
<1>3. CASE ReceiveEomBit(bit)
  <2>1. TransmitTypeOK'
    BY <1>3, CheckBitTyped DEF ReceiveEomBit
  <2>2. RecvTypeOK'
    BY <1>1, <1>3 DEF ReceiveEomBit, RecvFlag, RecvTypeOK, ReceiveTypeOK
  <2> QED BY <2>1, <2>2
<1>4. CASE ReceiveAckBit(bit)
  <2> DEFINE ack == Acked(bit)
  <2>1. ack \in BOOLEAN
    BY DEF Acked
  <2>2. TransmitTypeOK'
    BY <1>4, <2>1, ReceiveAckTyped DEF ReceiveAckBit
  <2>3. cec_receive_hdr' \in Header
    BY <1>4, <2>1, StatusHeaderTyped DEF ReceiveAckBit, RecvTypeOK
  <2>4. cec_receive_byte' \in Seq(BOOLEAN) /\ Len(cec_receive_byte') <= BITS
    <3>1. MarkerOnly \in Seq(BOOLEAN) /\ Len(MarkerOnly) = 1
      BY DEF MarkerOnly
    <3>2. cec_receive_byte' \in {MarkerOnly, cec_receive_byte}
      BY <1>4 DEF ReceiveAckBit
    <3>3. cec_receive_byte \in Seq(BOOLEAN) /\ Len(cec_receive_byte) <= BITS
      BY DEF RecvTypeOK, ReceiveTypeOK
    <3>4. CASE cec_receive_byte' = MarkerOnly
      BY <3>1, <3>4, Sizes
    <3>5. CASE cec_receive_byte' = cec_receive_byte
      BY <3>3, <3>5
    <3> QED BY <3>2, <3>4, <3>5
  <2>5. cec_receive_flags' \subseteq RecvFlag
    BY <1>4 DEF ReceiveAckBit, RecvFlag, RecvTypeOK, ReceiveTypeOK
  <2> QED BY <1>1, <1>4, <2>2, <2>3, <2>4, <2>5 DEF ReceiveAckBit, RecvTypeOK, ReceiveTypeOK
<1> QED BY <1>2, <1>3, <1>4 DEF cec_receive_bit

-----------------------------------------------------------------------------
(***************************************************************************)
(* Type correctness of the whole.                                          *)
(***************************************************************************)
LEMMA InitTyped == Init => TypeOK
<1> SUFFICES ASSUME Init PROVE TypeOK
  OBVIOUS
<1>1. TransmitTypeOK
  <2>1. 0 \in 0..IDLE_FRAMES_MAX /\ CEC_NEW_PERIOD_WAIT \in 0..IDLE_FRAMES_MAX
    OBVIOUS
  <2>2. transmit_stats \in [CecErr -> 0..(UCHAR - 1)]
    BY Sizes DEF Init, TransmitInit, NoStats
  <2>3. transmit_buf \in [0..(CEC_BUFFER_SIZE - 1) -> Byte]
    BY ByteTypes DEF Init, TransmitInit
  <2>4. transmit_last_bit \in BOOLEAN \X BOOLEAN
    BY DEF Init, TransmitInit
  <2>5. 0 \in 0..(CEC_BUFFER_SIZE - 1) /\ 0 \in 0..BITS /\ 0 \in 0..(UCHAR - 1)
    BY Sizes
  <2>6. transmit_state \in TransmitState /\ usi_xmit_state \in XmitState
    BY DEF Init, TransmitInit, TransmitState, XmitState
  <2> QED BY <2>1, <2>2, <2>3, <2>4, <2>5, <2>6 DEF Init, TransmitInit, TransmitTypeOK
<1>2. AddrTypeOK
  <2>1. Len(cec_dev_addrs) \in Nat
    BY AddrAssumption
  <2> QED BY <2>1, HeaderTyped DEF Init, AddrInit, ReceiveInit, AddrTypeOK
<1>3. ReceiveTypeOK
  <2>1. cec_receive_buf \in [1..CEC_BUFFER_SIZE -> Byte]
    BY ByteTypes DEF Init, ReceiveInit
  <2>2. cec_receive_byte \in Seq(BOOLEAN) /\ Len(cec_receive_byte) <= BITS
    BY EmptySeq, Sizes DEF Init, ReceiveInit, ByteComplete
  <2>3. 0 \in 0..(UCHAR - 1)
    BY Sizes
  <2> QED BY <2>1, <2>2, <2>3 DEF Init, ReceiveInit, ReceiveTypeOK
<1>4. DriverTypeOK
  BY DEF Init, DriverTypeOK, Phase
<1>5. HistoryTypeOK
  <2>1. << >> \in Seq(Byte) /\ Len(<< >>) <= CEC_BUFFER_SIZE
    BY EmptySeq
  <2>2. MaxWireBytes \in Nat
    BY EngineAssumption
  <2> QED BY <2>1, <2>2 DEF Init, HistoryTypeOK
<1> QED BY <1>1, <1>2, <1>3, <1>4, <1>5 DEF TypeOK

LEMMA LineCheckTyped ==
  ASSUME TransmitTypeOK, LineCheck
  PROVE  TransmitTypeOK'
<1>1. CASE cec_transmit_on_error(CEC_ERR_ARB_LOST)
  BY <1>1, OnErrorTyped DEF CecErr
<1>2. CASE UNCHANGED transmitVars
  BY <1>2 DEF transmitVars, TransmitTypeOK
<1> QED BY <1>1, <1>2 DEF LineCheck

LEMMA PollBetweenBytesTyped ==
  ASSUME TypeOK, PollBetweenBytes
  PROVE  TypeOK'
<1>1. TransmitTypeOK'
  BY LineCheckTyped DEF TypeOK, PollBetweenBytes
<1> QED BY <1>1 DEF PollBetweenBytes, TypeOK, addrVars, receiveVars, historyVars,
                    AddrTypeOK, ReceiveTypeOK, DriverTypeOK, HistoryTypeOK, Phase

LEMMA ByteReceivedTyped ==
  ASSUME TypeOK, NEW high \in BOOLEAN, ByteReceived(high)
  PROVE  TypeOK'
<1>1. TransmitTypeOK'
  BY LineCheckTyped DEF TypeOK, ByteReceived
<1>2. idle_frames' \in 0..IDLE_FRAMES_MAX
  BY DEF ByteReceived, NextIdleFrames, TypeOK, DriverTypeOK
<1>3. ReceiveTypeOK'
  BY DEF ByteReceived, TypeOK, ReceiveTypeOK
<1>4. AddrTypeOK' /\ HistoryTypeOK'
  BY DEF ByteReceived, TypeOK, addrVars, historyVars, AddrTypeOK, HistoryTypeOK
<1>5. DriverTypeOK'
  BY <1>2 DEF ByteReceived, TypeOK, DriverTypeOK, Phase
<1> QED BY <1>1, <1>3, <1>4, <1>5 DEF TypeOK

LEMMA SampleBitTyped ==
  ASSUME TypeOK, NEW bit \in BOOLEAN, SampleBit(bit)
  PROVE  TypeOK'
<1>1. RecvTypeOK /\ cec_receive_bit(bit)
  BY DEF TypeOK, AddrTypeOK, RecvTypeOK, SampleBit
<1>2. TransmitTypeOK' /\ RecvTypeOK'
  BY <1>1, ReceiveBitTyped DEF TypeOK
<1>3. AddrTypeOK'
  BY <1>2 DEF SampleBit, TypeOK, AddrTypeOK, addrVars, RecvTypeOK
<1>4. DriverTypeOK'
  BY DEF SampleBit, TypeOK, DriverTypeOK
<1>5. acked' \subseteq Address
  <2>1. Target(transmit_buf[0]) \in Address
    BY ByteTypes DEF TypeOK, TransmitTypeOK
  <2> QED BY <2>1 DEF SampleBit, RecordAck, TypeOK, HistoryTypeOK
<1>6. count' \in 0..MaxWireBytes
  BY EngineAssumption DEF SampleBit, RecordByte, TypeOK, HistoryTypeOK
<1>7. wire' \in Seq(Byte) /\ Len(wire') <= CEC_BUFFER_SIZE
  <2>1. CASE ~LastDataBit
    BY <2>1 DEF SampleBit, RecordByte, TypeOK, HistoryTypeOK
  <2>2. CASE LastDataBit
    <3>1. Tail(ShiftIn(bit)) \in Byte
      BY <1>1, <2>2, ShiftedByte
    <3>2. wire \in Seq(Byte) /\ Len(wire) <= CEC_BUFFER_SIZE
      BY DEF TypeOK, HistoryTypeOK
    <3>3. wire' = IF Len(wire) < CEC_BUFFER_SIZE
                  THEN Append(wire, Tail(ShiftIn(bit))) ELSE wire
      BY <2>2 DEF SampleBit, RecordByte
    <3> HIDE DEF ShiftIn
    <3> QED BY <3>1, <3>2, <3>3
  <2> QED BY <2>1, <2>2
<1>8. HistoryTypeOK'
  BY <1>5, <1>6, <1>7 DEF SampleBit, TypeOK, HistoryTypeOK
<1> QED BY <1>2, <1>3, <1>4, <1>8 DEF TypeOK, RecvTypeOK

LEMMA LostTyped ==
  ASSUME TypeOK, NEW err \in CecErr, Lost(err)
  PROVE  TypeOK'
<1>1. RecvTypeOK /\ cec_receive_error(err)
  BY DEF TypeOK, AddrTypeOK, RecvTypeOK, Lost
<1>2. TransmitTypeOK' /\ RecvTypeOK'
  BY <1>1, ReceiveErrorTyped DEF TypeOK
<1> QED BY <1>2 DEF Lost, TypeOK, RecvTypeOK, AddrTypeOK, DriverTypeOK, HistoryTypeOK,
                    addrVars, historyVars

LEMMA StartLowTyped ==
  ASSUME TypeOK, StartLow
  PROVE  TypeOK'
  BY DEF StartLow, TypeOK, TransmitTypeOK, AddrTypeOK, ReceiveTypeOK, DriverTypeOK, HistoryTypeOK,
         transmitVars, addrVars, receiveVars, historyVars

LEMMA StartFrameTyped ==
  ASSUME TypeOK, StartFrame
  PROVE  TypeOK'
<1>1. RecvTypeOK /\ cec_receive_start
  BY DEF TypeOK, AddrTypeOK, RecvTypeOK, StartFrame
<1>2. TransmitTypeOK' /\ RecvTypeOK'
  BY <1>1, ReceiveStartTyped DEF TypeOK
<1>3. HistoryTypeOK'
  <2>1. << >> \in Seq(Byte) /\ Len(<< >>) <= CEC_BUFFER_SIZE
    BY EmptySeq
  <2>2. MaxWireBytes \in Nat
    BY EngineAssumption
  <2> QED BY <2>1, <2>2 DEF StartFrame, TypeOK, HistoryTypeOK
<1>4. AddrTypeOK' /\ DriverTypeOK'
  BY <1>2 DEF StartFrame, TypeOK, RecvTypeOK, AddrTypeOK, DriverTypeOK, addrVars
<1> QED BY <1>2, <1>3, <1>4 DEF TypeOK, RecvTypeOK

LEMMA NextBitTyped ==
  ASSUME TypeOK, cec_usi_next_bit
  PROVE  TypeOK'
<1>1. TransmitTypeOK' /\ sent' \in Nat
  <2>1. CASE NextBitNone
    BY <2>1 DEF NextBitNone, transmitVars, TypeOK, TransmitTypeOK, HistoryTypeOK
  <2>2. CASE NextBitStart
    <3>1. cec_transmit_start /\ usi_xmit_state' \in XmitState
      BY <2>2 DEF NextBitStart, XmitState
    <3> QED BY <2>2, <3>1, StartTyped DEF NextBitStart, TypeOK
  <2>3. CASE NextBitStart1
    BY <2>3 DEF NextBitStart1, TypeOK, TransmitTypeOK, HistoryTypeOK, XmitState
  <2>4. ASSUME NEW bit \in BOOLEAN, NextBitData(bit)
        PROVE  TransmitTypeOK' /\ sent' \in Nat
    <3>1. cec_transmit_get_bit(bit) /\ usi_xmit_state' \in XmitState
      BY <2>4 DEF NextBitData, XmitState
    <3> QED BY <2>4, <3>1, GetBitTyped DEF NextBitData, TypeOK, HistoryTypeOK
  <2> QED BY <2>1, <2>2, <2>3, <2>4 DEF cec_usi_next_bit
<1> QED BY <1>1 DEF cec_usi_next_bit, TypeOK, AddrTypeOK, ReceiveTypeOK, DriverTypeOK,
                    HistoryTypeOK, Phase, addrVars, receiveVars

LEMMA AddrPeriodicStepTyped ==
  ASSUME TypeOK, AddrPeriodic
  PROVE  TypeOK'
<1>1. TransmitTypeOK' /\ AddrTypeOK'
  BY AddrPeriodicTyped DEF TypeOK, AddrPeriodic
<1> QED BY <1>1 DEF AddrPeriodic, TypeOK, ReceiveTypeOK, DriverTypeOK, HistoryTypeOK,
                    Phase, historyVars

LEMMA BuildTyped ==
  ASSUME AddrTypeOK, NEW s \in Address, NEW t \in Address
  PROVE  cec_addr_build(s, t) \in Byte
<1>1. [i \in 1..BITS |-> TRUE] \in Byte
  BY DEF Byte
<1> QED BY <1>1, ByteTypes, AddrAssumption DEF cec_addr_build, AddrTypeOK

LEMMA AppSendTyped ==
  ASSUME TypeOK, NEW m \in Messages, AppSend(m)
  PROVE  TypeOK'
<1>1. /\ m.source \in Address /\ m.target \in Address
      /\ m.body \in Seq(Byte) /\ Len(m.body) \in 0..(CEC_BUFFER_SIZE - 1)
  BY EngineAssumption
<1>2. transmit_buf' \in [0..(CEC_BUFFER_SIZE - 1) -> Byte]
  <2>1. transmit_buf \in [0..(CEC_BUFFER_SIZE - 1) -> Byte]
    BY DEF TypeOK, TransmitTypeOK
  <2>2. cec_addr_build(m.source, m.target) \in Byte
    BY <1>1, BuildTyped DEF TypeOK
  <2>3. ASSUME NEW i \in 0..(CEC_BUFFER_SIZE - 1), i # 0, i <= Len(m.body)
        PROVE  m.body[i] \in Byte
    BY <1>1, <2>3, ElementOfSeq
  <2> QED BY <2>1, <2>2, <2>3 DEF AppSend
<1>3. TransmitTypeOK'
  BY <1>1, <1>2 DEF AppSend, TypeOK, TransmitTypeOK, TransmitState
<1> QED BY <1>3 DEF AppSend, TypeOK, AddrTypeOK, ReceiveTypeOK, DriverTypeOK, HistoryTypeOK,
                    addrVars, receiveVars, driverVars, historyVars

LEMMA AppClearHeaderTyped ==
  ASSUME TypeOK, AppClearHeader
  PROVE  TypeOK'
  BY HeaderTyped DEF AppClearHeader, TypeOK, TransmitTypeOK, AddrTypeOK, ReceiveTypeOK,
         DriverTypeOK, HistoryTypeOK, transmitVars, addrVars, driverVars, historyVars

LEMMA AppSetAddressesTyped ==
  ASSUME TypeOK, NEW set \in AddressSets, AppSetAddresses(set)
  PROVE  TypeOK'
  BY EngineAssumption DEF AppSetAddresses, TypeOK, TransmitTypeOK, AddrTypeOK, ReceiveTypeOK,
         DriverTypeOK, HistoryTypeOK, transmitVars, receiveVars, driverVars, historyVars

LEMMA HaltTyped ==
  ASSUME TypeOK, cec_halt
  PROVE  TypeOK'
<1>1. TransmitTypeOK'
  <2>1. CASE AbortEffects(CEC_ERR_HALT)
    <3>1. transmit_stats[CEC_ERR_HALT] + 1 \in Nat /\ transmit_retries + 1 \in Nat
      BY Sizes DEF TypeOK, TransmitTypeOK, CecErr
    <3>2. (transmit_stats[CEC_ERR_HALT] + 1) % UCHAR \in 0..(UCHAR - 1)
      BY <3>1, UcharMod
    <3>3. (transmit_retries + 1) % UCHAR \in 0..(UCHAR - 1)
      BY <3>1, UcharMod
    <3>4. transmit_stats' \in [CecErr -> 0..(UCHAR - 1)]
      BY <2>1, <3>2 DEF AbortEffects, TypeOK, TransmitTypeOK
    <3>5. transmit_retries' \in 0..(UCHAR - 1)
      BY <2>1, <3>3 DEF AbortEffects, NextRetry
    <3>6. usi_xmit_state' \in XmitState /\ needed_idle_frames' \in 0..IDLE_FRAMES_MAX
      BY <2>1 DEF AbortEffects, XmitState, TypeOK, TransmitTypeOK
    <3>7. transmit_state' \in TransmitState
      BY DEF cec_halt, TransmitState
    <3> QED BY <2>1, <3>4, <3>5, <3>6, <3>7 DEF AbortEffects, TypeOK, TransmitTypeOK
  <2>2. CASE ~HaltAborts
    BY <2>2 DEF cec_halt, HaltAbort, TypeOK, TransmitTypeOK, TransmitState
  <2> QED BY <2>1, <2>2 DEF cec_halt, HaltAbort
<1>2. ReceiveTypeOK'
  BY DEF cec_halt, TypeOK, ReceiveTypeOK
<1>3. AddrTypeOK'
  BY AddrInitTyped, HeaderTyped DEF cec_halt, TypeOK
<1>4. DriverTypeOK' /\ HistoryTypeOK'
  BY DEF cec_halt, TypeOK, DriverTypeOK, HistoryTypeOK
<1> QED BY <1>1, <1>2, <1>3, <1>4 DEF TypeOK

LEMMA CecInitTyped ==
  ASSUME TypeOK, cec_init
  PROVE  TypeOK'
<1>1. AddrTypeOK'
  BY AddrInitTyped DEF cec_init, TypeOK, AddrTypeOK
<1>2. TransmitTypeOK'
  BY DEF cec_init, AddrInitTransmitState, TypeOK, TransmitTypeOK, TransmitState
<1>3. ReceiveTypeOK'
  BY DEF cec_init, TypeOK, ReceiveTypeOK
<1>4. DriverTypeOK' /\ HistoryTypeOK'
  BY DEF cec_init, TypeOK, DriverTypeOK, HistoryTypeOK, historyVars
<1> QED BY <1>1, <1>2, <1>3, <1>4 DEF TypeOK

LEMMA NextTyped == TypeOK /\ [Next]_vars => TypeOK'
<1> SUFFICES ASSUME TypeOK, [Next]_vars PROVE TypeOK'
  OBVIOUS
<1>1. CASE PollBetweenBytes
  BY <1>1, PollBetweenBytesTyped
<1>2. CASE \E high \in BOOLEAN : ByteReceived(high)
  BY <1>2, ByteReceivedTyped
<1>3. CASE \E bit \in BOOLEAN : SampleBit(bit)
  BY <1>3, SampleBitTyped
<1>4. CASE NoTransition \/ EarlyFallingEdge
  BY <1>4, LostTyped DEF NoTransition, EarlyFallingEdge, CecErr
<1>5. CASE StartLow
  BY <1>5, StartLowTyped
<1>6. CASE StartFrame
  BY <1>6, StartFrameTyped
<1>7. CASE cec_usi_next_bit
  BY <1>7, NextBitTyped
<1>8. CASE AddrPeriodic
  BY <1>8, AddrPeriodicStepTyped
<1>9. CASE \E m \in Messages : AppSend(m)
  BY <1>9, AppSendTyped
<1>10. CASE AppClearHeader
  BY <1>10, AppClearHeaderTyped
<1>11. CASE \E set \in AddressSets : AppSetAddresses(set)
  BY <1>11, AppSetAddressesTyped
<1>12. CASE cec_halt
  BY <1>12, HaltTyped
<1>13. CASE cec_init
  BY <1>13, CecInitTyped
<1>14. CASE UNCHANGED vars
  BY <1>14 DEF vars, TypeOK, TransmitTypeOK, AddrTypeOK, ReceiveTypeOK, DriverTypeOK,
               HistoryTypeOK, transmitVars, addrVars, receiveVars, driverVars, historyVars
<1> QED BY <1>1, <1>2, <1>3, <1>4, <1>5, <1>6, <1>7, <1>8, <1>9, <1>10, <1>11, <1>12, <1>13, <1>14
        DEF Next, cec_periodic, Application

(* Every variable keeps its type: the counters stay in an unsigned char,   *)
(* the buffers keep their size, the state variables their states.          *)
THEOREM TypeCorrect == Spec => []TypeOK
<1>1. Init => TypeOK
  BY InitTyped
<1>2. TypeOK /\ [Next]_vars => TypeOK'
  BY NextTyped
<1> QED BY <1>1, <1>2, PTL DEF Spec
=============================================================================
