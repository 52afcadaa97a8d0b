------------------------- MODULE CecEngineSendProofs -------------------------
(***************************************************************************)
(* What becomes of a message that CecEngine transmits: every failure is    *)
(* counted once, and the bits handed to the driver are those of the        *)
(* message.                                                                *)
(***************************************************************************)
EXTENDS CecEngineTxProofs, CecTransmitProofs

-----------------------------------------------------------------------------
(***************************************************************************)
(* The statistics.  They and transmit_retries are cleared together, when a *)
(* new message is begun, and grow together, on every abort; neither wraps, *)
(* because there are not more failures than transmissions.                 *)
(***************************************************************************)
CountVars == <<transmit_state, transmit_stats, transmit_retries>>

Counting(state) == state \notin {TRANSMIT_IDLE, TRANSMIT_PEND}

LEMMA CountUnchanged ==
  ASSUME StatsMatchRetries, UNCHANGED CountVars
  PROVE  StatsMatchRetries'
  BY DEF StatsMatchRetries, Failures, CountVars

(* Going on with the same message.                                         *)
LEMMA CountKept ==
  ASSUME StatsMatchRetries, Counting(transmit_state),
         UNCHANGED <<transmit_stats, transmit_retries>>
  PROVE  StatsMatchRetries'
  BY DEF StatsMatchRetries, Failures, Counting

LEMMA NothingToCount ==
  ASSUME transmit_state' \in {TRANSMIT_IDLE, TRANSMIT_PEND}
  PROVE  StatsMatchRetries'
  BY DEF StatsMatchRetries

(* One more failure of one cause is one more failure.                      *)
LEMMA OneMoreFailure ==
  ASSUME transmit_stats \in [CecErr -> Nat], NEW err \in CecErr,
         transmit_stats' = [transmit_stats EXCEPT ![err] = @ + 1]
  PROVE  Failures' = Failures + 1
<1>1. \A e \in CecErr : /\ transmit_stats[e] \in Nat
                        /\ transmit_stats'[e] = IF e = err THEN transmit_stats[e] + 1
                                                           ELSE transmit_stats[e]
  OBVIOUS
<1>2. /\ CEC_ERR_ARB_LOST \in CecErr /\ CEC_ERR_NACK \in CecErr /\ CEC_ERR_NO_EOM \in CecErr
      /\ CEC_ERR_LOW_DRIVE \in CecErr /\ CEC_ERR_HALT \in CecErr /\ CEC_ERR_HW \in CecErr
  BY DEF CecErr
<1>3. /\ err \in {CEC_ERR_ARB_LOST, CEC_ERR_NACK, CEC_ERR_NO_EOM, CEC_ERR_LOW_DRIVE,
                  CEC_ERR_HALT, CEC_ERR_HW}
      /\ CEC_ERR_ARB_LOST \notin {CEC_ERR_NACK, CEC_ERR_NO_EOM, CEC_ERR_LOW_DRIVE, CEC_ERR_HALT,
                                  CEC_ERR_HW}
      /\ CEC_ERR_NACK \notin {CEC_ERR_NO_EOM, CEC_ERR_LOW_DRIVE, CEC_ERR_HALT, CEC_ERR_HW}
      /\ CEC_ERR_NO_EOM \notin {CEC_ERR_LOW_DRIVE, CEC_ERR_HALT, CEC_ERR_HW}
      /\ CEC_ERR_LOW_DRIVE \notin {CEC_ERR_HALT, CEC_ERR_HW}
      /\ CEC_ERR_HALT # CEC_ERR_HW
  BY DEF CecErr, CEC_ERR_ARB_LOST, CEC_ERR_NACK, CEC_ERR_NO_EOM, CEC_ERR_LOW_DRIVE,
         CEC_ERR_HALT, CEC_ERR_HW
<1> QED BY <1>1, <1>2, <1>3 DEF Failures

(* No cause was counted more often than all of them together.              *)
LEMMA CauseBound ==
  ASSUME transmit_stats \in [CecErr -> Nat], NEW err \in CecErr
  PROVE  transmit_stats[err] <= Failures
<1>1. \A e \in CecErr : transmit_stats[e] \in Nat
  OBVIOUS
<1> QED BY <1>1 DEF Failures, CecErr

LEMMA OnErrorCount ==
  ASSUME TransmitTypeOK, RetriesLeft, StatsMatchRetries, NEW err \in CecErr,
         cec_transmit_on_error(err)
  PROVE  StatsMatchRetries'
<1>1. CASE UNCHANGED transmitVars
  BY <1>1, CountUnchanged DEF transmitVars, CountVars
<1>2. CASE Transmitting /\ AbortEffects(err)
  <2>1. /\ transmit_stats \in [CecErr -> Nat]
        /\ transmit_retries \in Nat
        /\ transmit_retries + 1 \in 0..(UCHAR - 1)
        /\ Failures = transmit_retries
    <3>1. transmit_state \in {TRANSMIT_BIT_EOM, TRANSMIT_ACK, TRANSMIT_WAIT_FOR_ACK}
      BY <1>2, TransmittingStates
    <3>2. Failures = transmit_retries
      BY <3>1 DEF StatsMatchRetries, TRANSMIT_IDLE, TRANSMIT_PEND, TRANSMIT_BIT_EOM,
                  TRANSMIT_ACK, TRANSMIT_WAIT_FOR_ACK
    <3>3. transmit_retries \in Nat /\ transmit_retries < CEC_XMIT_MAX_RETRANSMIT
      BY <3>1 DEF TransmitTypeOK, RetriesLeft, Unfinished
    <3>4. transmit_stats \in [CecErr -> Nat]
      <4>1. 0..(UCHAR - 1) \subseteq Nat
        BY Sizes
      <4> QED BY <4>1 DEF TransmitTypeOK
    <3> QED BY <3>2, <3>3, <3>4, Sizes, SizeAssumption
  <2>2. transmit_stats[err] \in Nat /\ transmit_stats[err] <= transmit_retries
    BY <2>1, CauseBound
  <2>3. (transmit_stats[err] + 1) % UCHAR = transmit_stats[err] + 1
    BY <2>1, <2>2, Sizes
  <2>4. transmit_retries' = transmit_retries + 1
    BY <1>2, <2>1, Sizes DEF AbortEffects, NextRetry
  <2>5. Failures' = Failures + 1
    BY <1>2, <2>1, <2>3, OneMoreFailure DEF AbortEffects
  <2> QED BY <2>1, <2>4, <2>5 DEF StatsMatchRetries
<1> QED BY <1>1, <1>2 DEF cec_transmit_on_error

LEMMA CheckBitCount ==
  ASSUME TransmitTypeOK, RetriesLeft, StatsMatchRetries, NEW bit, cec_check_tx_bit(bit)
  PROVE  StatsMatchRetries'
  BY OnErrorCount, CountUnchanged DEF cec_check_tx_bit, transmitVars, CountVars, CecErr

LEMMA ReceiveAckCount ==
  ASSUME TransmitTypeOK, RetriesLeft, StatsMatchRetries, NEW ack,
         cec_transmit_receive_ack(ack)
  PROVE  StatsMatchRetries'
<1>1. CASE cec_transmit_on_error(CEC_ERR_NACK)
  BY <1>1, OnErrorCount DEF CecErr
<1>2. CASE transmit_state' = AckedState /\ UNCHANGED <<transmit_stats, transmit_retries>>
  BY <1>2, NothingToCount, CountUnchanged DEF AckedState, CountVars
<1> QED BY <1>1, <1>2 DEF cec_transmit_receive_ack

LEMMA ReceiveBitCount ==
  ASSUME TransmitTypeOK, RetriesLeft, StatsMatchRetries, NEW bit, cec_receive_bit(bit)
  PROVE  StatsMatchRetries'
  BY CheckBitCount, ReceiveAckCount
     DEF cec_receive_bit, ReceiveDataBit, ReceiveEomBit, ReceiveAckBit

LEMMA ReceiveErrorCount ==
  ASSUME TransmitTypeOK, RetriesLeft, StatsMatchRetries, NEW err \in CecErr,
         cec_receive_error(err)
  PROVE  StatsMatchRetries'
  BY OnErrorCount, CountUnchanged DEF cec_receive_error, transmitVars, CountVars

LEMMA LineCheckCount ==
  ASSUME TransmitTypeOK, RetriesLeft, StatsMatchRetries, LineCheck
  PROVE  StatsMatchRetries'
  BY OnErrorCount, CountUnchanged DEF LineCheck, transmitVars, CountVars, CecErr

LEMMA NextBitCount ==
  ASSUME TxLockstep, StatsMatchRetries, cec_usi_next_bit
  PROVE  StatsMatchRetries'
<1>1. CASE NextBitNone \/ NextBitStart1
  BY <1>1, CountUnchanged DEF NextBitNone, NextBitStart1, transmitVars, CountVars
<1>2. CASE NextBitStart
  <2>1. CASE FreshMessage
    <3>1. transmit_stats' = NoStats /\ transmit_retries' = 0
      BY <1>2, <2>1 DEF NextBitStart, cec_transmit_start
    <3>2. Failures' = 0
      BY <3>1 DEF Failures, NoStats, CecErr
    <3> QED BY <3>1, <3>2 DEF StatsMatchRetries
  <2>2. CASE ~FreshMessage
    BY <1>2, <2>2, CountKept, States
       DEF NextBitStart, cec_transmit_start, FreshMessage, MayStart, Pending, Counting
  <2> QED BY <2>1, <2>2
<1>3. ASSUME NEW bit \in BOOLEAN, NextBitData(bit)
      PROVE  StatsMatchRetries'
  <2>1. Counting(transmit_state)
    BY <1>3, States DEF NextBitData, TxLockstep, DriverInStep, Counting
  <2> QED BY <1>3, <2>1, CountKept DEF NextBitData, cec_transmit_get_bit
<1> QED BY <1>1, <1>2, <1>3 DEF cec_usi_next_bit

LEMMA AddrPeriodicCount ==
  ASSUME StatsMatchRetries, cec_addr_periodic
  PROVE  StatsMatchRetries'
<1>1. CASE AddrPing
  BY <1>1, NothingToCount DEF AddrPing
<1>2. CASE UNCHANGED transmitVars
  BY <1>2, CountUnchanged DEF transmitVars, CountVars
<1> QED BY <1>1, <1>2 DEF cec_addr_periodic, AddrIdle, AddrGiveUp, AddrClaim, AddrWait

LEMMA CountNext ==
  ASSUME TxInv, RetriesLeft, StatsMatchRetries, [Next]_vars
  PROVE  StatsMatchRetries'
<1>0. TransmitTypeOK /\ TxLockstep /\ HaltedIsQuiet
  BY DEF TxInv, TypeOK
<1>1. CASE PollBetweenBytes \/ \E high \in BOOLEAN : ByteReceived(high)
  BY <1>0, <1>1, LineCheckCount DEF PollBetweenBytes, ByteReceived
<1>2. CASE \E bit \in BOOLEAN : SampleBit(bit)
  BY <1>0, <1>2, ReceiveBitCount DEF SampleBit
<1>3. CASE NoTransition \/ EarlyFallingEdge
  BY <1>0, <1>3, ReceiveErrorCount DEF NoTransition, EarlyFallingEdge, Lost, CecErr
<1>4. CASE StartLow \/ StartFrame
  BY <1>4, CountUnchanged DEF StartLow, StartFrame, cec_receive_start, transmitVars, CountVars
<1>5. CASE cec_usi_next_bit
  BY <1>0, <1>5, NextBitCount
<1>6. CASE AddrPeriodic
  BY <1>6, AddrPeriodicCount DEF AddrPeriodic
<1>7. CASE \E m \in Messages : AppSend(m)
  BY <1>7, NothingToCount DEF AppSend
<1>8. CASE AppClearHeader \/ \E set \in AddressSets : AppSetAddresses(set)
  BY <1>8, CountUnchanged DEF AppClearHeader, AppSetAddresses, transmitVars, CountVars
<1>9. CASE cec_halt
  BY <1>9, NothingToCount DEF cec_halt
<1>10. CASE cec_init
  BY <1>0, <1>10, NothingToCount DEF cec_init, AddrInitTransmitState, HaltedIsQuiet
<1>11. CASE UNCHANGED vars
  BY <1>11, CountUnchanged DEF vars, transmitVars, CountVars
<1> QED BY <1>1, <1>2, <1>3, <1>4, <1>5, <1>6, <1>7, <1>8, <1>9, <1>10, <1>11
        DEF Next, cec_periodic, Application

(* Every failed transmission of a message is counted, once and under one   *)
(* cause, and no counter wraps.                                            *)
THEOREM StatsCorrect ==
  ASSUME HaltPolicy # "anytime"
  PROVE  Spec => []StatsMatchRetries
<1> DEFINE Inv == TxInv /\ RetriesLeft /\ StatsMatchRetries
<1>1. Init => Inv
  <2>1. Init => StatsMatchRetries
    BY DEF Init, TransmitInit, StatsMatchRetries
  <2> QED BY <2>1, TxInvInit, ServiceInit
<1>2. Inv /\ [Next]_vars => Inv'
  <2>1. TxInv /\ [Next]_vars => TxInv'
    BY TxInvNext
  <2> QED BY <2>1, ServiceNext, CountNext
<1>3. Inv => StatsMatchRetries
  OBVIOUS
<1> QED BY <1>1, <1>2, <1>3, PTL DEF Spec

-----------------------------------------------------------------------------
(***************************************************************************)
(* The bits.                                                               *)
(***************************************************************************)
(* The engine is where the bits handed out so far have brought it.         *)
BitsOut == Place(sent)

(* One more frame bit, the one with number sent + 1.                       *)
BitSent ==
  sent' = sent + 1 =>
    /\ sent' <= FRAME * (transmit_buf_end + 1)
    /\ transmit_last_bit'[2] = FrameBit(sent')
    /\ transmit_state' = TRANSMIT_WAIT_FOR_ACK <=> sent' = FRAME * (transmit_buf_end + 1)

PlaceVars == <<transmit_state, transmit_buf_bit, transmit_buf_pos, sent>>

LEMMA PlaceUnchanged ==
  ASSUME sent \in Nat, BitsOut, UNCHANGED PlaceVars
  PROVE  BitsOut' /\ BitSent
  BY DEF BitsOut, Place, BitSent, PlaceVars

(* Out of the message.                                                     *)
LEMMA NowhereToBe ==
  ASSUME sent \in Nat, transmit_state' \notin {TRANSMIT_BIT_EOM, TRANSMIT_ACK},
         UNCHANGED sent
  PROVE  BitsOut' /\ BitSent
  BY DEF BitsOut, Place, BitSent

LEMMA OnErrorPlace ==
  ASSUME sent \in Nat, BitsOut, UNCHANGED sent, NEW err, cec_transmit_on_error(err)
  PROVE  BitsOut' /\ BitSent
<1>1. CASE UNCHANGED transmitVars
  BY <1>1, PlaceUnchanged DEF transmitVars, PlaceVars
<1>2. CASE transmit_state' = AbortedState
  BY <1>2, NowhereToBe, States DEF AbortedState
<1> QED BY <1>1, <1>2 DEF cec_transmit_on_error

LEMMA ReceiveBitPlace ==
  ASSUME sent \in Nat, BitsOut, UNCHANGED sent, NEW bit, cec_receive_bit(bit)
  PROVE  BitsOut' /\ BitSent
<1>1. CASE cec_check_tx_bit(bit)
  BY <1>1, OnErrorPlace, PlaceUnchanged DEF cec_check_tx_bit, transmitVars, PlaceVars
<1>2. CASE cec_transmit_receive_ack(Acked(bit))
  <2>1. CASE cec_transmit_on_error(CEC_ERR_NACK)
    BY <2>1, OnErrorPlace
  <2>2. CASE transmit_state' = AckedState /\ UNCHANGED <<transmit_buf_bit, transmit_buf_pos>>
    BY <2>2, PlaceUnchanged, NowhereToBe, States DEF AckedState, PlaceVars
  <2> QED BY <1>2, <2>1, <2>2 DEF cec_transmit_receive_ack
<1> QED BY <1>1, <1>2 DEF cec_receive_bit, ReceiveDataBit, ReceiveEomBit, ReceiveAckBit

LEMMA ReceiveErrorPlace ==
  ASSUME sent \in Nat, BitsOut, UNCHANGED sent, NEW err, cec_receive_error(err)
  PROVE  BitsOut' /\ BitSent
  BY OnErrorPlace, PlaceUnchanged DEF cec_receive_error, transmitVars, PlaceVars

LEMMA LineCheckPlace ==
  ASSUME sent \in Nat, BitsOut, UNCHANGED sent, LineCheck
  PROVE  BitsOut' /\ BitSent
  BY OnErrorPlace, PlaceUnchanged DEF LineCheck, transmitVars, PlaceVars

(* The driver keeps the bit it was handed.                                 *)
LEMMA BitHandedOut ==
  ASSUME TransmitTypeOK, sent \in Nat, BitsOut, NeverPastTheEnd,
         transmit_state \in {TRANSMIT_BIT_EOM, TRANSMIT_ACK},
         usi_xmit_state # USI_XMIT_IDLE,
         NEW bit \in BOOLEAN, cec_transmit_get_bit(bit), sent' = sent + 1
  PROVE  BitsOut' /\ BitSent
<1> PICK n \in Nat : n = sent
  OBVIOUS
<1>1. Place(n) /\ InMessage
  BY SizeAssumption DEF BitsOut, Place, InMessage, TransmitTypeOK, NeverPastTheEnd
<1>2. Handed(n + 1, bit)
  BY <1>1, GetBitPlace
<1>3. transmit_last_bit'[2] = bit
  BY DEF cec_transmit_get_bit
<1>4. BitsOut'
  BY <1>2 DEF Handed, BitsOut, Place
<1>5. BitSent
  BY <1>2, <1>3 DEF Handed, BitSent, MessageFrames
<1> QED BY <1>4, <1>5

LEMMA NextBitPlace ==
  ASSUME TransmitTypeOK, sent \in Nat, BitsOut, TxLockstep, cec_usi_next_bit
  PROVE  BitsOut' /\ BitSent
<1>1. CASE NextBitNone \/ NextBitStart1
  BY <1>1, PlaceUnchanged DEF NextBitNone, NextBitStart1, transmitVars, PlaceVars
<1>2. CASE NextBitStart
  <2>1. /\ sent' = 0 /\ transmit_state' = TRANSMIT_BIT_EOM
        /\ transmit_buf_pos' = 0 /\ transmit_buf_bit' = BITS
    BY <1>2 DEF NextBitStart, cec_transmit_start
  <2>2. FRAME * 0 + (BITS - BITS) = 0
    BY FrameSize
  <2> QED BY <2>1, <2>2, States DEF BitsOut, Place, BitSent
<1>3. ASSUME NEW bit \in BOOLEAN, NextBitData(bit)
      PROVE  BitsOut' /\ BitSent
  <2>1. /\ transmit_state \in {TRANSMIT_BIT_EOM, TRANSMIT_ACK} /\ NeverPastTheEnd
        /\ usi_xmit_state # USI_XMIT_IDLE
    BY <1>3, States DEF NextBitData, TxLockstep, DriverInStep
  <2> QED BY <1>3, <2>1, BitHandedOut DEF NextBitData
<1> QED BY <1>1, <1>2, <1>3 DEF cec_usi_next_bit

LEMMA AddrPeriodicPlace ==
  ASSUME sent \in Nat, BitsOut, UNCHANGED sent, cec_addr_periodic
  PROVE  BitsOut' /\ BitSent
<1>1. CASE AddrPing
  BY <1>1, NowhereToBe, States DEF AddrPing, TRANSMIT_PEND, TRANSMIT_BIT_EOM, TRANSMIT_ACK
<1>2. CASE UNCHANGED transmitVars
  BY <1>2, PlaceUnchanged DEF transmitVars, PlaceVars
<1> QED BY <1>1, <1>2 DEF cec_addr_periodic, AddrIdle, AddrGiveUp, AddrClaim, AddrWait

LEMMA SendNext ==
  ASSUME TxInv, BitsOut, [Next]_vars
  PROVE  BitsOut' /\ BitSent
<1>0. TransmitTypeOK /\ sent \in Nat /\ TxLockstep /\ HaltedIsQuiet
  BY DEF TxInv, TypeOK, HistoryTypeOK
<1>1. CASE PollBetweenBytes \/ \E high \in BOOLEAN : ByteReceived(high)
  BY <1>0, <1>1, LineCheckPlace DEF PollBetweenBytes, ByteReceived, historyVars
<1>2. CASE \E bit \in BOOLEAN : SampleBit(bit)
  BY <1>0, <1>2, ReceiveBitPlace DEF SampleBit
<1>3. CASE NoTransition \/ EarlyFallingEdge
  BY <1>0, <1>3, ReceiveErrorPlace DEF NoTransition, EarlyFallingEdge, Lost, historyVars
<1>4. CASE StartLow \/ StartFrame
  BY <1>0, <1>4, PlaceUnchanged
     DEF StartLow, StartFrame, cec_receive_start, transmitVars, historyVars, PlaceVars
<1>5. CASE cec_usi_next_bit
  BY <1>0, <1>5, NextBitPlace
<1>6. CASE AddrPeriodic
  BY <1>0, <1>6, AddrPeriodicPlace DEF AddrPeriodic, historyVars
<1>7. CASE \E m \in Messages : AppSend(m)
  BY <1>0, <1>7, NowhereToBe
     DEF AppSend, historyVars, TRANSMIT_PEND, TRANSMIT_BIT_EOM, TRANSMIT_ACK
<1>8. CASE AppClearHeader \/ \E set \in AddressSets : AppSetAddresses(set)
  BY <1>0, <1>8, PlaceUnchanged
     DEF AppClearHeader, AppSetAddresses, transmitVars, historyVars, PlaceVars
<1>9. CASE cec_halt
  BY <1>0, <1>9, NowhereToBe, States DEF cec_halt
<1>10. CASE cec_init
  BY <1>0, <1>10, NowhereToBe, States
     DEF cec_init, AddrInitTransmitState, HaltedIsQuiet, historyVars
<1>11. CASE UNCHANGED vars
  BY <1>0, <1>11, PlaceUnchanged DEF vars, transmitVars, historyVars, PlaceVars
<1> QED BY <1>1, <1>2, <1>3, <1>4, <1>5, <1>6, <1>7, <1>8, <1>9, <1>10, <1>11
        DEF Next, cec_periodic, Application

(* Whatever happens on the bus between two bits, the driver is handed the  *)
(* bits of the message in order, with the EOM bit in the last byte only    *)
(* and no EOM bit in a ping, and a retransmission begins with the first    *)
(* bit again.                                                              *)
THEOREM SendCorrect ==
  ASSUME HaltPolicy # "anytime"
  PROVE  Spec => SendsTheMessage
<1> DEFINE Inv == TxInv /\ BitsOut
<1>1. Init => Inv
  <2>1. Init => BitsOut
    BY States DEF Init, TransmitInit, BitsOut, Place
  <2> QED BY <2>1, TxInvInit
<1>2. Inv /\ [Next]_vars => Inv'
  BY TxInvNext, SendNext
<1>3. Inv /\ [Next]_vars => [BitSent]_vars
  BY SendNext
<1>4. SendsTheMessage <=> [][BitSent]_vars
  BY DEF SendsTheMessage, BitSent
<1> QED BY <1>1, <1>2, <1>3, <1>4, PTL DEF Spec
=============================================================================
