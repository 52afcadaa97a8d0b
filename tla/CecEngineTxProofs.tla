------------------------- MODULE CecEngineTxProofs -------------------------
(***************************************************************************)
(* The transmit side of CecEngine: the USI driver and the transmit engine  *)
(* stay in step, as long as cec_halt() is not called inside a message.     *)
(***************************************************************************)
EXTENDS CecEngineProofs

(* The strengthening that makes TxLockstep inductive: cec_init() clears    *)
(* transmit_state without looking at the driver, which is harmless only    *)
(* because it was cleared before.                                          *)
HaltedIsQuiet == mode = "halted" => transmit_state = TRANSMIT_IDLE /\ phase = "app"

TxInv == TypeOK /\ TxLockstep /\ HaltedIsQuiet

Awake == mode # "halted" /\ mode' # "halted"

(* cec_periodic() neither runs in a halted library nor halts it.           *)
LEMMA PeriodicAwake ==
  ASSUME HaltedIsQuiet, cec_periodic
  PROVE  Awake
<1>1. mode # "halted" /\ mode' \in {mode, "running"}
  BY DEF cec_periodic, PollBetweenBytes, ByteReceived, SampleBit, NoTransition,
         EarlyFallingEdge, Lost, StartLow, StartFrame, cec_usi_next_bit, AddrPeriodic,
         InLoop, HaltedIsQuiet
<1> QED BY <1>1 DEF Awake

LEMMA States ==
  /\ TRANSMIT_BIT_EOM \notin {TRANSMIT_IDLE, TRANSMIT_FAILED, TRANSMIT_PEND, TRANSMIT_AGAIN}
  /\ TRANSMIT_ACK \notin {TRANSMIT_IDLE, TRANSMIT_FAILED, TRANSMIT_PEND, TRANSMIT_AGAIN}
  /\ TRANSMIT_WAIT_FOR_ACK \notin {TRANSMIT_BIT_EOM, TRANSMIT_ACK, TRANSMIT_IDLE}
  /\ TRANSMIT_IDLE \notin {TRANSMIT_FAILED, TRANSMIT_PEND, TRANSMIT_AGAIN}
  /\ TRANSMIT_BIT_EOM # TRANSMIT_ACK
  /\ USI_XMIT_IDLE \notin {USI_XMIT_START, USI_XMIT_BITS}
  /\ USI_XMIT_START # USI_XMIT_BITS
  BY DEF TRANSMIT_IDLE, TRANSMIT_FAILED, TRANSMIT_PEND, TRANSMIT_AGAIN, TRANSMIT_BIT_EOM,
         TRANSMIT_ACK, TRANSMIT_WAIT_FOR_ACK, USI_XMIT_IDLE, USI_XMIT_START, USI_XMIT_BITS

(* What the lockstep depends on.                                           *)
LockVars == <<transmit_state, transmit_buf_pos, transmit_buf_end, usi_xmit_state>>

LEMMA LockUnchanged ==
  ASSUME TxLockstep, UNCHANGED LockVars
  PROVE  TxLockstep'
  BY DEF TxLockstep, DriverInStep, NeverPastTheEnd, LockVars

(* An abort takes both sides out of the message.                           *)
LEMMA OnErrorLock ==
  ASSUME TxLockstep, NEW err, cec_transmit_on_error(err)
  PROVE  TxLockstep'
<1>1. CASE UNCHANGED transmitVars
  BY <1>1, LockUnchanged DEF transmitVars, LockVars
<1>2. CASE AbortEffects(err) /\ transmit_state' = AbortedState
  BY <1>2, States DEF AbortEffects, AbortedState, TxLockstep, DriverInStep, NeverPastTheEnd
<1> QED BY <1>1, <1>2 DEF cec_transmit_on_error

LEMMA CheckBitLock ==
  ASSUME TxLockstep, NEW bit, cec_check_tx_bit(bit)
  PROVE  TxLockstep'
<1>1. CASE cec_transmit_on_error(CEC_ERR_ARB_LOST)
  BY <1>1, OnErrorLock
<1>2. CASE UNCHANGED transmitVars
  BY <1>2, LockUnchanged DEF transmitVars, LockVars
<1> QED BY <1>1, <1>2 DEF cec_check_tx_bit

(* An ack ends a message the driver is already done with.                  *)
LEMMA ReceiveAckLock ==
  ASSUME TxLockstep, NEW ack, cec_transmit_receive_ack(ack)
  PROVE  TxLockstep'
<1>1. CASE cec_transmit_on_error(CEC_ERR_NACK)
  BY <1>1, OnErrorLock
<1>2. CASE /\ transmit_state' = AckedState
           /\ UNCHANGED <<transmit_buf_pos, transmit_buf_end, usi_xmit_state>>
  BY <1>2, States DEF AckedState, TxLockstep, DriverInStep, NeverPastTheEnd
<1> QED BY <1>1, <1>2 DEF cec_transmit_receive_ack

LEMMA ReceiveErrorLock ==
  ASSUME TxLockstep, NEW err, cec_receive_error(err)
  PROVE  TxLockstep'
<1>1. CASE cec_transmit_on_error(err)
  BY <1>1, OnErrorLock
<1>2. CASE UNCHANGED transmitVars
  BY <1>2, LockUnchanged DEF transmitVars, LockVars
<1> QED BY <1>1, <1>2 DEF cec_receive_error

LEMMA ReceiveBitLock ==
  ASSUME TxLockstep, NEW bit, cec_receive_bit(bit)
  PROVE  TxLockstep'
<1>1. CASE cec_check_tx_bit(bit)
  BY <1>1, CheckBitLock
<1>2. CASE cec_transmit_receive_ack(Acked(bit))
  BY <1>2, ReceiveAckLock
<1> QED BY <1>1, <1>2 DEF cec_receive_bit, ReceiveDataBit, ReceiveEomBit, ReceiveAckBit

LEMMA LineCheckLock ==
  ASSUME TxLockstep, LineCheck
  PROVE  TxLockstep'
<1>1. CASE cec_transmit_on_error(CEC_ERR_ARB_LOST)
  BY <1>1, OnErrorLock
<1>2. CASE UNCHANGED transmitVars
  BY <1>2, LockUnchanged DEF transmitVars, LockVars
<1> QED BY <1>1, <1>2 DEF LineCheck

(* The driver's own steps: it enters a message with the engine and leaves  *)
(* it with the engine, and the position advances only below the end.       *)
LEMMA NextBitLock ==
  ASSUME TypeOK, TxLockstep, cec_usi_next_bit
  PROVE  TxLockstep'
<1>0. TransmitTypeOK
  BY DEF TypeOK
<1>1. CASE NextBitNone
  BY <1>1, LockUnchanged DEF NextBitNone, transmitVars, LockVars
<1>2. CASE NextBitStart
  <2>1. transmit_buf_end' \in Nat
    BY <1>0, <1>2 DEF NextBitStart, cec_transmit_start, TransmitTypeOK
  <2> QED BY <1>2, <2>1, States DEF NextBitStart, cec_transmit_start, TxLockstep,
                                    DriverInStep, NeverPastTheEnd
<1>3. CASE NextBitStart1
  BY <1>3, States DEF NextBitStart1, TxLockstep, DriverInStep, NeverPastTheEnd
<1>4. ASSUME NEW bit \in BOOLEAN, NextBitData(bit)
      PROVE  TxLockstep'
  <2>1. /\ transmit_state \in {TRANSMIT_BIT_EOM, TRANSMIT_ACK}
        /\ transmit_buf_pos <= transmit_buf_end
        /\ transmit_buf_end' = transmit_buf_end
    BY <1>4, States DEF NextBitData, cec_transmit_get_bit, TxLockstep, DriverInStep, NeverPastTheEnd
  <2>2. usi_xmit_state' =
          IF transmit_state' = TRANSMIT_WAIT_FOR_ACK THEN USI_XMIT_IDLE ELSE USI_XMIT_BITS
    BY <1>4 DEF NextBitData
  <2>3. CASE GetDataBit(bit) \/ GetEomBit(bit)
    BY <2>1, <2>2, <2>3, States DEF GetDataBit, GetEomBit, TxLockstep, DriverInStep, NeverPastTheEnd
  <2>4. CASE GetAckBit(bit)
    <3>1. CASE IsLast
      BY <2>1, <2>2, <2>4, <3>1, States DEF GetAckBit, TxLockstep, DriverInStep, NeverPastTheEnd
    <3>2. CASE ~IsLast
      <4>1. transmit_buf_pos + 1 <= transmit_buf_end /\ transmit_buf_pos + 1 \in 0..(UCHAR - 1)
        <5>1. /\ transmit_buf_pos \in Nat
              /\ transmit_buf_end \in Nat /\ transmit_buf_end <= CEC_BUFFER_SIZE - 1
          BY <1>0, Sizes DEF TransmitTypeOK
        <5>2. transmit_buf_pos # transmit_buf_end
          BY <3>2 DEF IsLast
        <5> QED BY <2>1, <5>1, <5>2, Sizes, SizeAssumption
      <4>2. (transmit_buf_pos + 1) % UCHAR = transmit_buf_pos + 1
        BY <4>1, Sizes
      <4>3. transmit_state' = TRANSMIT_BIT_EOM /\ transmit_buf_pos' = transmit_buf_pos + 1
        BY <2>4, <3>2, <4>2 DEF GetAckBit
      <4> QED BY <2>1, <2>2, <4>1, <4>3, States DEF TxLockstep, DriverInStep, NeverPastTheEnd
    <3> QED BY <3>1, <3>2
  <2> QED BY <1>4, <2>3, <2>4 DEF NextBitData, cec_transmit_get_bit
<1> QED BY <1>1, <1>2, <1>3, <1>4 DEF cec_usi_next_bit

(* A message is loaded only into a free interface, where the driver is     *)
(* idle.                                                                   *)
LEMMA AddrPeriodicLock ==
  ASSUME TxLockstep, cec_addr_periodic
  PROVE  TxLockstep'
<1>1. CASE AddrPing
  BY <1>1, States DEF AddrPing, TxLockstep, DriverInStep, NeverPastTheEnd
<1>2. CASE UNCHANGED transmitVars
  BY <1>2, LockUnchanged DEF transmitVars, LockVars
<1> QED BY <1>1, <1>2 DEF cec_addr_periodic, AddrIdle, AddrGiveUp, AddrClaim, AddrWait

LEMMA AppSendLock ==
  ASSUME TypeOK, TxLockstep, NEW m \in Messages, AppSend(m)
  PROVE  TxLockstep'
<1>1. transmit_state \notin {TRANSMIT_BIT_EOM, TRANSMIT_ACK}
  BY DEF AppSend, TRANSMIT_PEND, TRANSMIT_BIT_EOM, TRANSMIT_ACK
<1> QED BY <1>1, States DEF AppSend, TxLockstep, DriverInStep, NeverPastTheEnd

LEMMA HaltLock ==
  ASSUME TxLockstep, cec_halt, HaltPolicy # "anytime"
  PROVE  TxLockstep'
<1>1. usi_xmit_state = USI_XMIT_IDLE
  BY EngineAssumption DEF cec_halt, HaltAllowed
<1>2. usi_xmit_state' = USI_XMIT_IDLE /\ transmit_state' = TRANSMIT_IDLE
  BY <1>1 DEF cec_halt, HaltAbort, AbortEffects
<1> QED BY <1>2, States DEF TxLockstep, DriverInStep, NeverPastTheEnd

LEMMA CecInitLock ==
  ASSUME TxLockstep, HaltedIsQuiet, cec_init
  PROVE  TxLockstep'
<1>1. UNCHANGED LockVars
  BY DEF cec_init, AddrInitTransmitState, HaltedIsQuiet, LockVars
<1> QED BY <1>1, LockUnchanged

LEMMA TxInvInit == Init => TxInv
<1> SUFFICES ASSUME Init PROVE TxInv
  OBVIOUS
<1>1. TypeOK
  BY InitTyped
<1>2. TxLockstep
  BY States DEF Init, TransmitInit, TxLockstep, DriverInStep, NeverPastTheEnd
<1>3. HaltedIsQuiet
  BY DEF Init, HaltedIsQuiet
<1> QED BY <1>1, <1>2, <1>3 DEF TxInv

LEMMA TxInvNext ==
  ASSUME HaltPolicy # "anytime"
  PROVE  TxInv /\ [Next]_vars => TxInv'
<1> SUFFICES ASSUME TxInv, [Next]_vars PROVE TxInv'
  OBVIOUS
<1>0. TypeOK /\ TxLockstep /\ HaltedIsQuiet
  BY DEF TxInv
<1>1. TypeOK'
  BY <1>0, NextTyped
<1>2. TxLockstep'
  <2>1. CASE PollBetweenBytes \/ \E high \in BOOLEAN : ByteReceived(high)
    BY <1>0, <2>1, LineCheckLock DEF PollBetweenBytes, ByteReceived
  <2>2. CASE \E bit \in BOOLEAN : SampleBit(bit)
    BY <1>0, <2>2, ReceiveBitLock DEF SampleBit
  <2>3. CASE NoTransition \/ EarlyFallingEdge
    BY <1>0, <2>3, ReceiveErrorLock DEF NoTransition, EarlyFallingEdge, Lost
  <2>4. CASE StartLow
    BY <1>0, <2>4, LockUnchanged DEF StartLow, transmitVars, LockVars
  <2>5. CASE StartFrame
    BY <1>0, <2>5, LockUnchanged DEF StartFrame, cec_receive_start, LockVars
  <2>6. CASE cec_usi_next_bit
    BY <1>0, <2>6, NextBitLock
  <2>7. CASE AddrPeriodic
    BY <1>0, <2>7, AddrPeriodicLock DEF AddrPeriodic
  <2>8. CASE \E m \in Messages : AppSend(m)
    BY <1>0, <2>8, AppSendLock
  <2>9. CASE AppClearHeader \/ \E set \in AddressSets : AppSetAddresses(set)
    BY <1>0, <2>9, LockUnchanged DEF AppClearHeader, AppSetAddresses, transmitVars, LockVars
  <2>10. CASE cec_halt
    BY <1>0, <2>10, HaltLock
  <2>11. CASE cec_init
    BY <1>0, <2>11, CecInitLock
  <2>12. CASE UNCHANGED vars
    BY <1>0, <2>12, LockUnchanged DEF vars, transmitVars, LockVars
  <2> QED BY <2>1, <2>2, <2>3, <2>4, <2>5, <2>6, <2>7, <2>8, <2>9, <2>10, <2>11, <2>12
          DEF Next, cec_periodic, Application
<1>3. HaltedIsQuiet'
  <2>1. CASE cec_periodic
    BY <1>0, <2>1, PeriodicAwake DEF Awake, HaltedIsQuiet
  <2>2. CASE Application
    BY <1>0, <2>2 DEF Application, AppSend, AppClearHeader, AppSetAddresses, cec_halt, cec_init,
         AppTurn, driverVars, transmitVars, HaltedIsQuiet
  <2>3. CASE UNCHANGED vars
    BY <1>0, <2>3 DEF vars, driverVars, transmitVars, HaltedIsQuiet
  <2> QED BY <2>1, <2>2, <2>3 DEF Next
<1> QED BY <1>1, <1>2, <1>3 DEF TxInv

(* Whatever the bus does, the driver is inside a message exactly while the *)
(* engine is, and never reads past the message's end, provided that the    *)
(* application halts outside of messages only.                             *)
THEOREM LockstepCorrect ==
  ASSUME HaltPolicy # "anytime"
  PROVE  Spec => []TxLockstep
<1>1. Init => TxInv
  BY TxInvInit
<1>2. TxInv /\ [Next]_vars => TxInv'
  BY TxInvNext
<1>3. TxInv => TxLockstep
  BY DEF TxInv
<1> QED BY <1>1, <1>2, <1>3, PTL DEF Spec

-----------------------------------------------------------------------------
(***************************************************************************)
(* The transmit side implements TransmitService.  Each operation maps to   *)
(* one of its steps or to a stutter; the invariant the mapping needs is    *)
(* that a message still in progress has a transmission left.               *)
(***************************************************************************)
Unfinished ==
  {TRANSMIT_AGAIN, TRANSMIT_BIT_EOM, TRANSMIT_ACK, TRANSMIT_WAIT_FOR_ACK}

RetriesLeft ==
  transmit_state \in Unfinished => transmit_retries < CEC_XMIT_MAX_RETRANSMIT

ServiceStep == Service!Next \/ UNCHANGED <<ServiceStatus, ServiceTries>>

(* What the mapping and RetriesLeft depend on.                             *)
MapVars == <<transmit_state, transmit_retries>>

LEMMA Statuses ==
  ASSUME NEW r \in Nat
  PROVE  /\ StatusOf(TRANSMIT_IDLE) = "idle"     /\ TriesOf(TRANSMIT_IDLE, r) = 0
         /\ StatusOf(TRANSMIT_FAILED) = "failed" /\ TriesOf(TRANSMIT_FAILED, r) = 0
         /\ StatusOf(TRANSMIT_PEND) = "pend"     /\ TriesOf(TRANSMIT_PEND, r) = 0
         /\ StatusOf(TRANSMIT_AGAIN) = "again"   /\ TriesOf(TRANSMIT_AGAIN, r) = r
         /\ \A s \in {TRANSMIT_BIT_EOM, TRANSMIT_ACK, TRANSMIT_WAIT_FOR_ACK} :
               StatusOf(s) = "busy" /\ TriesOf(s, r) = r + 1
  BY DEF StatusOf, TriesOf, TRANSMIT_IDLE, TRANSMIT_FAILED, TRANSMIT_PEND, TRANSMIT_AGAIN,
         TRANSMIT_BIT_EOM, TRANSMIT_ACK, TRANSMIT_WAIT_FOR_ACK

LEMMA TransmittingStates ==
  ASSUME TransmitTypeOK
  PROVE  /\ Transmitting <=>
              transmit_state \in {TRANSMIT_BIT_EOM, TRANSMIT_ACK, TRANSMIT_WAIT_FOR_ACK}
         /\ transmit_state < TRANSMIT_PEND <=>
              transmit_state \in {TRANSMIT_IDLE, TRANSMIT_FAILED}
  BY DEF TransmitTypeOK, TransmitState, Transmitting, TRANSMIT_IDLE, TRANSMIT_FAILED,
         TRANSMIT_PEND, TRANSMIT_AGAIN, TRANSMIT_BIT_EOM, TRANSMIT_ACK, TRANSMIT_WAIT_FOR_ACK

LEMMA MapUnchanged ==
  ASSUME Awake, RetriesLeft, UNCHANGED MapVars
  PROVE  RetriesLeft' /\ ServiceStep
  BY DEF Awake, RetriesLeft, ServiceStep, ServiceStatus, ServiceTries, MapVars

LEMMA OnErrorMap ==
  ASSUME Awake, TransmitTypeOK, RetriesLeft, NEW err, cec_transmit_on_error(err)
  PROVE  RetriesLeft' /\ ServiceStep
<1>1. CASE UNCHANGED transmitVars
  BY <1>1, MapUnchanged DEF transmitVars, MapVars
<1>2. CASE Transmitting /\ AbortEffects(err) /\ transmit_state' = AbortedState
  <2>1. /\ transmit_retries \in Nat
        /\ transmit_retries + 1 \in Nat
        /\ transmit_retries + 1 <= CEC_XMIT_MAX_RETRANSMIT
        /\ CEC_XMIT_MAX_RETRANSMIT \in 1..(UCHAR - 1)
    BY <1>2, TransmittingStates, Sizes, SizeAssumption
       DEF TransmitTypeOK, RetriesLeft, Unfinished
  <2>2. NextRetry = transmit_retries + 1
    BY <2>1, Sizes DEF NextRetry
  <2>3. ServiceStatus = "busy" /\ ServiceTries = transmit_retries + 1
    BY <1>2, <2>1, TransmittingStates, Statuses DEF Awake, ServiceStatus, ServiceTries
  <2>4. transmit_retries' = transmit_retries + 1
    BY <1>2, <2>2 DEF AbortEffects
  <2>5. CASE transmit_retries + 1 = CEC_XMIT_MAX_RETRANSMIT
    <3>1. transmit_state' = TRANSMIT_FAILED
      BY <1>2, <2>2, <2>5 DEF AbortedState, OutOfRetries
    <3>2. ServiceStatus' = "failed" /\ ServiceTries' = 0
      BY <2>1, <2>4, <3>1, Statuses DEF Awake, ServiceStatus, ServiceTries
    <3>3. RetriesLeft'
      BY <3>1, States DEF RetriesLeft, Unfinished, TRANSMIT_FAILED, TRANSMIT_AGAIN,
         TRANSMIT_BIT_EOM, TRANSMIT_ACK, TRANSMIT_WAIT_FOR_ACK
    <3> QED BY <2>3, <2>5, <3>2, <3>3 DEF ServiceStep, Service!Next, Service!Fail
  <2>6. CASE transmit_retries + 1 # CEC_XMIT_MAX_RETRANSMIT
    <3>1. transmit_state' = TRANSMIT_AGAIN
      BY <1>2, <2>2, <2>6 DEF AbortedState, OutOfRetries
    <3>2. ServiceStatus' = "again" /\ ServiceTries' = transmit_retries + 1
      BY <2>1, <2>4, <3>1, Statuses DEF Awake, ServiceStatus, ServiceTries
    <3>3. RetriesLeft'
      BY <2>1, <2>4, <2>6 DEF RetriesLeft
    <3> QED BY <2>1, <2>3, <2>6, <3>2, <3>3 DEF ServiceStep, Service!Next, Service!Retry
  <2> QED BY <2>5, <2>6
<1> QED BY <1>1, <1>2 DEF cec_transmit_on_error

LEMMA ReceiveAckMap ==
  ASSUME Awake, TransmitTypeOK, RetriesLeft, NEW ack, cec_transmit_receive_ack(ack)
  PROVE  RetriesLeft' /\ ServiceStep
<1>1. CASE cec_transmit_on_error(CEC_ERR_NACK)
  BY <1>1, OnErrorMap
<1>2. CASE transmit_state' = AckedState /\ UNCHANGED transmit_retries
  <2>1. CASE transmit_state = TRANSMIT_WAIT_FOR_ACK
    <3>1. transmit_state' = TRANSMIT_IDLE /\ transmit_retries \in Nat /\ transmit_retries' \in Nat
      BY <1>2, <2>1, Sizes DEF AckedState, TransmitTypeOK
    <3>2. ServiceStatus = "busy" /\ ServiceStatus' = "idle" /\ ServiceTries' = 0
      BY <2>1, <3>1, Statuses DEF Awake, ServiceStatus, ServiceTries
    <3>3. RetriesLeft'
      BY <3>1, States DEF RetriesLeft, Unfinished
    <3> QED BY <3>2, <3>3 DEF ServiceStep, Service!Next, Service!Succeed
  <2>2. CASE transmit_state # TRANSMIT_WAIT_FOR_ACK
    BY <1>2, <2>2, MapUnchanged DEF AckedState, MapVars
  <2> QED BY <2>1, <2>2
<1> QED BY <1>1, <1>2 DEF cec_transmit_receive_ack

LEMMA ReceiveBitMap ==
  ASSUME Awake, TransmitTypeOK, RetriesLeft, NEW bit, cec_receive_bit(bit)
  PROVE  RetriesLeft' /\ ServiceStep
<1>1. CASE cec_transmit_on_error(CEC_ERR_ARB_LOST)
  BY <1>1, OnErrorMap
<1>2. CASE UNCHANGED transmitVars
  BY <1>2, MapUnchanged DEF transmitVars, MapVars
<1>3. CASE cec_transmit_receive_ack(Acked(bit))
  BY <1>3, ReceiveAckMap
<1> QED BY <1>1, <1>2, <1>3
        DEF cec_receive_bit, ReceiveDataBit, ReceiveEomBit, ReceiveAckBit, cec_check_tx_bit

LEMMA ReceiveErrorMap ==
  ASSUME Awake, TransmitTypeOK, RetriesLeft, NEW err, cec_receive_error(err)
  PROVE  RetriesLeft' /\ ServiceStep
<1>1. CASE cec_transmit_on_error(err)
  BY <1>1, OnErrorMap
<1>2. CASE UNCHANGED transmitVars
  BY <1>2, MapUnchanged DEF transmitVars, MapVars
<1> QED BY <1>1, <1>2 DEF cec_receive_error

LEMMA LineCheckMap ==
  ASSUME Awake, TransmitTypeOK, RetriesLeft, LineCheck
  PROVE  RetriesLeft' /\ ServiceStep
<1>1. CASE cec_transmit_on_error(CEC_ERR_ARB_LOST)
  BY <1>1, OnErrorMap
<1>2. CASE UNCHANGED transmitVars
  BY <1>2, MapUnchanged DEF transmitVars, MapVars
<1> QED BY <1>1, <1>2 DEF LineCheck

LEMMA NextBitMap ==
  ASSUME Awake, TypeOK, TxLockstep, RetriesLeft, cec_usi_next_bit
  PROVE  RetriesLeft' /\ ServiceStep
<1>0. transmit_retries \in Nat
  BY DEF TypeOK, TransmitTypeOK
<1>1. CASE NextBitNone
  BY <1>1, MapUnchanged DEF NextBitNone, transmitVars, MapVars
<1>2. CASE NextBitStart
  <2>1. /\ transmit_state \in {TRANSMIT_PEND, TRANSMIT_AGAIN}
        /\ transmit_state' = TRANSMIT_BIT_EOM
        /\ transmit_retries' = IF transmit_state = TRANSMIT_PEND THEN 0 ELSE transmit_retries
    BY <1>2 DEF NextBitStart, MayStart, Pending, cec_transmit_start, FreshMessage
  <2>2. transmit_retries' \in Nat /\ transmit_retries' < CEC_XMIT_MAX_RETRANSMIT
    BY <1>0, <2>1, SizeAssumption, Sizes DEF RetriesLeft, Unfinished
  <2>3. ServiceStatus' = "busy" /\ ServiceTries' = transmit_retries' + 1
    BY <2>1, <2>2, Statuses DEF Awake, ServiceStatus, ServiceTries
  <2>4. ServiceStatus \in {"pend", "again"} /\ ServiceTries = transmit_retries'
    BY <1>0, <2>1, Statuses, States DEF Awake, ServiceStatus, ServiceTries
  <2> QED BY <2>2, <2>3, <2>4 DEF RetriesLeft, ServiceStep, Service!Next, Service!Begin
<1>3. CASE NextBitStart1
  BY <1>3, MapUnchanged DEF NextBitStart1, MapVars
<1>4. ASSUME NEW bit \in BOOLEAN, NextBitData(bit)
      PROVE  RetriesLeft' /\ ServiceStep
  <2>1. transmit_state \in {TRANSMIT_BIT_EOM, TRANSMIT_ACK}
    BY <1>4, States DEF NextBitData, TxLockstep, DriverInStep
  <2>2. /\ transmit_state' \in {TRANSMIT_BIT_EOM, TRANSMIT_ACK, TRANSMIT_WAIT_FOR_ACK}
        /\ transmit_retries' = transmit_retries
    BY <1>4, <2>1 DEF NextBitData, cec_transmit_get_bit, GetDataBit, GetEomBit, GetAckBit
  <2>3. UNCHANGED <<ServiceStatus, ServiceTries>>
    BY <1>0, <2>1, <2>2, Statuses DEF Awake, ServiceStatus, ServiceTries
  <2>4. RetriesLeft'
    BY <2>1, <2>2 DEF RetriesLeft, Unfinished
  <2> QED BY <2>3, <2>4 DEF ServiceStep
<1> QED BY <1>1, <1>2, <1>3, <1>4 DEF cec_usi_next_bit

(* Queueing, by the application or by the address search.                  *)
LEMMA QueueMap ==
  ASSUME Awake, TransmitTypeOK, transmit_state \in {TRANSMIT_IDLE, TRANSMIT_FAILED},
         transmit_state' = TRANSMIT_PEND, UNCHANGED transmit_retries
  PROVE  RetriesLeft' /\ ServiceStep
<1>1. transmit_retries \in Nat
  BY DEF TransmitTypeOK
<1>2. ServiceStatus \in {"idle", "failed"} /\ ServiceStatus' = "pend" /\ ServiceTries' = 0
  BY <1>1, Statuses DEF Awake, ServiceStatus, ServiceTries
<1>3. RetriesLeft'
  BY DEF RetriesLeft, Unfinished, TRANSMIT_PEND, TRANSMIT_AGAIN, TRANSMIT_BIT_EOM,
         TRANSMIT_ACK, TRANSMIT_WAIT_FOR_ACK
<1> QED BY <1>2, <1>3 DEF ServiceStep, Service!Next, Service!Queue

LEMMA AddrPeriodicMap ==
  ASSUME Awake, TransmitTypeOK, RetriesLeft, cec_addr_periodic
  PROVE  RetriesLeft' /\ ServiceStep
<1>1. CASE AddrPing
  BY <1>1, QueueMap DEF AddrPing
<1>2. CASE UNCHANGED transmitVars
  BY <1>2, MapUnchanged DEF transmitVars, MapVars
<1> QED BY <1>1, <1>2 DEF cec_addr_periodic, AddrIdle, AddrGiveUp, AddrClaim, AddrWait

LEMMA HaltMap ==
  ASSUME TypeOK, TypeOK', cec_halt
  PROVE  RetriesLeft' /\ ServiceStep
<1>1. transmit_state' = TRANSMIT_IDLE /\ transmit_retries' \in Nat
  BY DEF cec_halt, TypeOK, TransmitTypeOK
<1>2. ServiceStatus' = "off" /\ ServiceTries' = 0
  BY <1>1, Statuses DEF cec_halt, ServiceStatus, ServiceTries
<1>3. ServiceStatus # "off"
  BY DEF cec_halt, AppTurn, ServiceStatus, StatusOf
<1>4. RetriesLeft'
  BY <1>1, States DEF RetriesLeft, Unfinished
<1> QED BY <1>2, <1>3, <1>4 DEF ServiceStep, Service!Next, Service!Halt

LEMMA RestartMap ==
  ASSUME TypeOK, TypeOK', HaltedIsQuiet, cec_init
  PROVE  RetriesLeft' /\ ServiceStep
<1>1. /\ mode = "halted" /\ mode' # "halted"
      /\ transmit_state = TRANSMIT_IDLE /\ transmit_state' = TRANSMIT_IDLE
      /\ transmit_retries \in Nat /\ transmit_retries' \in Nat
  BY DEF cec_init, AddrInitTransmitState, HaltedIsQuiet, TypeOK, TransmitTypeOK
<1>2. ServiceStatus = "off" /\ ServiceStatus' = "idle"
  BY <1>1, Statuses DEF ServiceStatus
<1>3. ServiceTries = 0 /\ ServiceTries' = 0
  BY <1>1, Statuses DEF ServiceTries
<1>4. RetriesLeft'
  BY <1>1, States DEF RetriesLeft, Unfinished
<1> QED BY <1>2, <1>3, <1>4 DEF ServiceStep, Service!Next, Service!Restart

LEMMA ServiceInit == Init => RetriesLeft /\ Service!Init
<1> SUFFICES ASSUME Init PROVE RetriesLeft /\ Service!Init
  OBVIOUS
<1>1. transmit_state = TRANSMIT_IDLE /\ transmit_retries = 0 /\ mode # "halted"
  BY DEF Init, TransmitInit
<1>2. ServiceStatus = "idle" /\ ServiceTries = 0
  BY <1>1, Statuses DEF ServiceStatus, ServiceTries
<1> QED BY <1>1, <1>2, States DEF RetriesLeft, Unfinished, Service!Init

LEMMA ServiceNext ==
  ASSUME TxInv, TxInv', RetriesLeft, [Next]_vars
  PROVE  RetriesLeft' /\ ServiceStep
<1>0. TypeOK /\ TypeOK' /\ TransmitTypeOK /\ TxLockstep /\ HaltedIsQuiet
  BY DEF TxInv, TypeOK
<1>1. CASE cec_periodic
  <2>0. Awake
    BY <1>0, <1>1, PeriodicAwake
  <2>1. CASE PollBetweenBytes \/ \E high \in BOOLEAN : ByteReceived(high)
    BY <1>0, <2>0, <2>1, LineCheckMap DEF PollBetweenBytes, ByteReceived
  <2>2. CASE \E bit \in BOOLEAN : SampleBit(bit)
    BY <1>0, <2>0, <2>2, ReceiveBitMap DEF SampleBit
  <2>3. CASE NoTransition \/ EarlyFallingEdge
    BY <1>0, <2>0, <2>3, ReceiveErrorMap DEF NoTransition, EarlyFallingEdge, Lost
  <2>4. CASE StartLow \/ StartFrame
    BY <2>0, <2>4, MapUnchanged
       DEF StartLow, StartFrame, cec_receive_start, transmitVars, MapVars
  <2>5. CASE cec_usi_next_bit
    BY <1>0, <2>0, <2>5, NextBitMap
  <2>6. CASE AddrPeriodic
    BY <1>0, <2>0, <2>6, AddrPeriodicMap DEF AddrPeriodic
  <2> QED BY <1>1, <2>1, <2>2, <2>3, <2>4, <2>5, <2>6 DEF cec_periodic
<1>2. CASE \E m \in Messages : AppSend(m)
  <2>1. Awake
    BY <1>2 DEF AppSend, AppTurn, driverVars, Awake
  <2> QED BY <1>0, <1>2, <2>1, QueueMap, TransmittingStates DEF AppSend
<1>3. CASE AppClearHeader \/ \E set \in AddressSets : AppSetAddresses(set)
  <2>1. Awake
    BY <1>3 DEF AppClearHeader, AppSetAddresses, AppTurn, driverVars, Awake
  <2> QED BY <1>3, <2>1, MapUnchanged
             DEF AppClearHeader, AppSetAddresses, transmitVars, MapVars
<1>4. CASE cec_halt
  BY <1>0, <1>4, HaltMap
<1>5. CASE cec_init
  BY <1>0, <1>5, RestartMap
<1>6. CASE UNCHANGED vars
  BY <1>6 DEF vars, transmitVars, driverVars, RetriesLeft, ServiceStep, ServiceStatus,
              ServiceTries
<1> QED BY <1>1, <1>2, <1>3, <1>4, <1>5, <1>6 DEF Next, Application

(* A queued message is transmitted at most CEC_XMIT_MAX_RETRANSMIT times,  *)
(* fails only when all of those transmissions did, and the interface is    *)
(* reported free only then, after an ack, or after cec_halt().             *)
THEOREM ServiceCorrect ==
  ASSUME HaltPolicy # "anytime"
  PROVE  Spec => ImplementsService
<1>1. Init => TxInv /\ RetriesLeft /\ Service!Init
  BY TxInvInit, ServiceInit
<1>2. TxInv /\ [Next]_vars => TxInv'
  BY TxInvNext
<1>3. /\ TxInv /\ RetriesLeft /\ [Next]_vars /\ TxInv'
      => RetriesLeft' /\ [Service!Next]_<<ServiceStatus, ServiceTries>>
  BY ServiceNext DEF ServiceStep
<1> QED BY <1>1, <1>2, <1>3, PTL DEF Spec, ImplementsService, Service!Spec
=============================================================================
