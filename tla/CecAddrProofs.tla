---------------------------- MODULE CecAddrProofs ----------------------------
(***************************************************************************)
(* The address search of cec_addr_dev_type.c, run by cec_periodic() behind *)
(* the application's back: what the application sees of it, and that it    *)
(* does not take an address that somebody else has.                        *)
(***************************************************************************)
EXTENDS CecEngineTxProofs

-----------------------------------------------------------------------------
(***************************************************************************)
(* The search, in terms of the variables it depends on.                    *)
(***************************************************************************)
LEMMA AddressIsReady ==
  ASSUME NEW a \in Address
  PROVE  a # NOT_READY
<1>1. 1 \in DOMAIN a
  BY SizeAssumption DEF Address
<1>2. 1 \notin DOMAIN NOT_READY
  BY DEF NOT_READY
<1> QED BY <1>1, <1>2

LEMMA SearchingMeans ==
  /\ Searching <=> ADDR_MODULE = "dev_type" /\ logical_address = NOT_READY
  /\ Searching' <=> ADDR_MODULE = "dev_type" /\ logical_address' = NOT_READY
  BY DEF Searching, cec_addr_ready

(* Only the search itself, cec_halt() and cec_init() write logical_address.*)
LEMMA AddrUnchanged ==
  ASSUME UNCHANGED addrVars
  PROVE  /\ UNCHANGED <<logical_address, cec_dev_idx>>
         /\ Searching' <=> Searching
  BY SearchingMeans DEF addrVars

(* A search ends with an address.                                          *)
LEMMA SearchEnds ==
  ASSUME TransmitTypeOK, AddrGiveUp \/ AddrClaim
  PROVE  ~Searching'
<1>1. logical_address' \in Address
  <2>1. Target(transmit_buf[0]) \in Address
    BY ByteTypes, SizeAssumption DEF TransmitTypeOK
  <2> QED BY <2>1, ByteTypes DEF AddrGiveUp, AddrClaim
<1> QED BY <1>1, AddressIsReady, SearchingMeans

-----------------------------------------------------------------------------
(***************************************************************************)
(* The application's view: it runs after cec_addr_periodic(), which leaves *)
(* the transmit interface busy and the receive header empty for as long as *)
(* the search goes on.                                                     *)
(***************************************************************************)
LEMMA PeriodicNotOver ==
  ASSUME cec_periodic
  PROVE  phase' # "app" \/ AddrPeriodic
  BY DEF cec_periodic, PollBetweenBytes, ByteReceived, SampleBit, NoTransition, EarlyFallingEdge,
         Lost, StartLow, StartFrame, cec_usi_next_bit, InLoop

LEMMA AddrPeriodicHides ==
  ASSUME TypeOK, AddrPeriodic
  PROVE  SearchHidden'
<1>0. TransmitTypeOK
  BY DEF TypeOK
<1>1. CASE AddrIdle
  BY <1>1, AddrUnchanged DEF AddrIdle, SearchHidden
<1>2. CASE AddrPing
  BY <1>2 DEF AddrPing, SearchHidden, MessagePending, TRANSMIT_PEND
<1>3. CASE AddrGiveUp \/ AddrClaim
  BY <1>0, <1>3, SearchEnds DEF SearchHidden
<1>4. CASE AddrWait
  <2>1. transmit_state' >= TRANSMIT_PEND
    BY <1>0, <1>4 DEF AddrWait, transmitVars, TransmitTypeOK, TransmitState, TRANSMIT_IDLE,
       TRANSMIT_FAILED, TRANSMIT_PEND, TRANSMIT_AGAIN, TRANSMIT_BIT_EOM, TRANSMIT_ACK,
       TRANSMIT_WAIT_FOR_ACK
  <2> QED BY <1>4, <2>1 DEF AddrWait, SearchHidden, MessagePending
<1> QED BY <1>1, <1>2, <1>3, <1>4 DEF AddrPeriodic, cec_addr_periodic

(* A free interface in the application's turn means that it has an address.*)
LEMMA SendAfterSearch ==
  ASSUME TransmitTypeOK, SearchHidden, NEW m \in Messages, AppSend(m)
  PROVE  ~Searching /\ ~Searching'
<1>1. ~Searching
  BY TransmittingStates DEF AppSend, SearchHidden, TRANSMIT_IDLE, TRANSMIT_FAILED, TRANSMIT_PEND
<1> QED BY <1>1, AddrUnchanged DEF AppSend

LEMMA HiddenNext == TypeOK /\ SearchHidden /\ [Next]_vars => SearchHidden'
<1> SUFFICES ASSUME TypeOK, SearchHidden, [Next]_vars PROVE SearchHidden'
  OBVIOUS
<1>0. TransmitTypeOK
  BY DEF TypeOK
<1>1. CASE cec_periodic
  BY <1>1, PeriodicNotOver, AddrPeriodicHides DEF SearchHidden, AppTurn
<1>2. CASE \E m \in Messages : AppSend(m)
  BY <1>0, <1>2, SendAfterSearch DEF SearchHidden
<1>3. CASE AppClearHeader
  BY <1>3, AddrUnchanged DEF AppClearHeader, SearchHidden, MessagePending, AppTurn, transmitVars
<1>4. CASE \E set \in AddressSets : AppSetAddresses(set)
  BY <1>4, SearchingMeans DEF AppSetAddresses, SearchHidden
<1>5. CASE cec_halt \/ cec_init
  BY <1>5 DEF cec_halt, cec_init, SearchHidden, AppTurn
<1>6. CASE UNCHANGED vars
  <2>1. UNCHANGED <<phase, mode, transmit_state, cec_receive_hdr, addrVars>>
    BY <1>6 DEF vars, driverVars, transmitVars, receiveVars
  <2> QED BY <2>1, AddrUnchanged DEF SearchHidden, AppTurn, MessagePending
<1> QED BY <1>1, <1>2, <1>3, <1>4, <1>5, <1>6 DEF Next, Application

(* The application need not know of the search: whenever it runs before    *)
(* the library has an address, it sees a transmit interface that is busy   *)
(* and no message to read.  This holds however and whenever it halts.      *)
THEOREM SearchHiddenCorrect == Spec => []SearchHidden
<1>1. Init => TypeOK /\ SearchHidden
  BY InitTyped DEF Init, SearchHidden, AppTurn
<1>2. TypeOK /\ SearchHidden /\ [Next]_vars => TypeOK' /\ SearchHidden'
  BY NextTyped, HiddenNext
<1> QED BY <1>1, <1>2, PTL DEF Spec

-----------------------------------------------------------------------------
(***************************************************************************)
(* The claim.  The engine owns the interface during a search, so that what *)
(* is in it tells how far the search has come: when the interface is idle  *)
(* the candidates tried so far have all answered; otherwise the last one   *)
(* of them is being pinged, and the ones before it have answered.          *)
(***************************************************************************)
Answered(k) == {Target(cec_dev_addrs[i]) : i \in 1..k}

PingUnderWay ==
  IF transmit_state = TRANSMIT_IDLE
  THEN acked = Answered(cec_dev_idx)
  ELSE /\ cec_dev_idx # 0
       /\ transmit_buf[0] = cec_dev_addrs[cec_dev_idx]
       /\ acked = Answered(cec_dev_idx - 1)

(* cec_halt() leaves nothing of an earlier search.                         *)
HaltedBeforeSearch ==
  ADDR_MODULE = "dev_type" /\ mode = "halted" => Searching /\ cec_dev_idx = 0 /\ acked = {}

ClaimInv ==
  (Searching => PingUnderWay) /\ HaltedBeforeSearch /\ ClaimsUnansweredAddress

(* The driver and the engines leave the message alone, and do not finish   *)
(* it other than by an ack.                                                *)
PingKept ==
  /\ UNCHANGED transmit_buf
  /\ transmit_state' = TRANSMIT_IDLE <=> transmit_state = TRANSMIT_IDLE

LEMMA ClaimKept ==
  ASSUME ClaimInv, PingKept, UNCHANGED <<logical_address, cec_dev_idx, acked>>,
         mode' # "halted" \/ mode' = mode
  PROVE  ClaimInv'
<1>1. Searching' <=> Searching
  BY SearchingMeans
<1>2. Searching' => PingUnderWay'
  BY <1>1 DEF ClaimInv, PingKept, PingUnderWay
<1>3. HaltedBeforeSearch'
  BY <1>1 DEF ClaimInv, HaltedBeforeSearch
<1>4. ClaimsUnansweredAddress'
  BY DEF ClaimInv, ClaimsUnansweredAddress, cec_addr_ready
<1> QED BY <1>2, <1>3, <1>4 DEF ClaimInv

LEMMA PingUnchanged ==
  ASSUME UNCHANGED transmitVars
  PROVE  PingKept
  BY DEF transmitVars, PingKept

LEMMA OnErrorPing ==
  ASSUME TransmitTypeOK, NEW err, cec_transmit_on_error(err)
  PROVE  PingKept
<1>1. CASE UNCHANGED transmitVars
  BY <1>1, PingUnchanged
<1>2. CASE Transmitting /\ AbortEffects(err) /\ transmit_state' = AbortedState
  BY <1>2, TransmittingStates, States DEF AbortEffects, AbortedState, PingKept
<1> QED BY <1>1, <1>2 DEF cec_transmit_on_error

LEMMA LineCheckPing ==
  ASSUME TransmitTypeOK, LineCheck
  PROVE  PingKept
  BY OnErrorPing, PingUnchanged DEF LineCheck

LEMMA CheckBitPing ==
  ASSUME TransmitTypeOK, NEW bit, cec_check_tx_bit(bit)
  PROVE  PingKept
  BY OnErrorPing, PingUnchanged DEF cec_check_tx_bit

LEMMA ReceiveErrorPing ==
  ASSUME TransmitTypeOK, NEW err, cec_receive_error(err)
  PROVE  PingKept
  BY OnErrorPing, PingUnchanged DEF cec_receive_error

LEMMA NextBitPing ==
  ASSUME TxLockstep, cec_usi_next_bit
  PROVE  PingKept
<1>1. CASE NextBitNone
  BY <1>1, PingUnchanged DEF NextBitNone
<1>2. CASE NextBitStart
  BY <1>2, States DEF NextBitStart, MayStart, Pending, cec_transmit_start, PingKept
<1>3. CASE NextBitStart1
  BY <1>3 DEF NextBitStart1, PingKept
<1>4. ASSUME NEW bit \in BOOLEAN, NextBitData(bit)
      PROVE  PingKept
  <2>1. transmit_state \in {TRANSMIT_BIT_EOM, TRANSMIT_ACK}
    BY <1>4, States DEF NextBitData, TxLockstep, DriverInStep
  <2> QED BY <1>4, <2>1, States
             DEF NextBitData, cec_transmit_get_bit, GetDataBit, GetEomBit, GetAckBit, PingKept
<1> QED BY <1>1, <1>2, <1>3, <1>4 DEF cec_usi_next_bit

(* The only way to acked: the ping was answered.                           *)
LEMMA AnsweredPing ==
  ASSUME TypeOK, ClaimInv, transmit_state = TRANSMIT_WAIT_FOR_ACK,
         transmit_state' = TRANSMIT_IDLE, RecordAck,
         UNCHANGED <<transmit_buf, logical_address, cec_dev_idx, mode>>
  PROVE  ClaimInv'
<1>1. Searching' <=> Searching
  BY SearchingMeans
<1>2. CASE Searching
  <2>1. /\ cec_dev_idx \in Nat /\ cec_dev_idx # 0
        /\ transmit_buf[0] = cec_dev_addrs[cec_dev_idx]
        /\ acked = Answered(cec_dev_idx - 1)
    BY <1>2, States, AddrAssumption DEF ClaimInv, PingUnderWay, TypeOK, AddrTypeOK
  <2>2. acked' = Answered(cec_dev_idx - 1) \cup {Target(cec_dev_addrs[cec_dev_idx])}
    BY <1>2, <2>1 DEF RecordAck
  <2>3. 1..cec_dev_idx = 1..(cec_dev_idx - 1) \cup {cec_dev_idx}
    BY <2>1
  <2>4. acked' = Answered(cec_dev_idx)
    BY <2>2, <2>3 DEF Answered
  <2>5. mode # "halted"
    BY <1>2, <2>1, SearchingMeans DEF ClaimInv, HaltedBeforeSearch
  <2>6. ~cec_addr_ready'
    BY <1>1, <1>2 DEF Searching
  <2> QED BY <2>4, <2>5, <2>6 DEF ClaimInv, PingUnderWay, HaltedBeforeSearch,
                                 ClaimsUnansweredAddress
<1>3. CASE ~Searching
  BY <1>1, <1>3 DEF RecordAck, ClaimInv, HaltedBeforeSearch, ClaimsUnansweredAddress,
                    cec_addr_ready
<1> QED BY <1>2, <1>3

LEMMA SampleBitClaim ==
  ASSUME TypeOK, ClaimInv, NEW bit \in BOOLEAN, SampleBit(bit)
  PROVE  ClaimInv'
<1>0. /\ TransmitTypeOK /\ RecordAck
      /\ UNCHANGED <<logical_address, cec_dev_idx, mode>>
  BY DEF TypeOK, SampleBit, addrVars
<1>1. ASSUME PingKept
      PROVE  ClaimInv'
  <2>1. acked' = acked
    BY <1>0, <1>1, States DEF RecordAck, PingKept
  <2> QED BY <1>0, <1>1, <2>1, ClaimKept
<1>2. CASE cec_check_tx_bit(bit)
  BY <1>0, <1>1, <1>2, CheckBitPing
<1>3. CASE cec_transmit_receive_ack(Acked(bit))
  <2>1. CASE cec_transmit_on_error(CEC_ERR_NACK)
    BY <1>0, <1>1, <2>1, OnErrorPing
  <2>2. CASE transmit_state' = AckedState /\ UNCHANGED transmit_buf
    BY <1>0, <1>1, <2>2, AnsweredPing DEF AckedState, PingKept
  <2> QED BY <1>3, <2>1, <2>2 DEF cec_transmit_receive_ack
<1> QED BY <1>2, <1>3 DEF SampleBit, cec_receive_bit, ReceiveDataBit, ReceiveEomBit, ReceiveAckBit

(* The candidates are different addresses, and none is the broadcast one.  *)
LEMMA Candidates ==
  ASSUME NEW k \in 1..Len(cec_dev_addrs)
  PROVE  /\ Target(cec_dev_addrs[k]) \notin Answered(k - 1)
         /\ Target(cec_dev_addrs[k]) # CEC_ADDR_UNREGISTERED
<1>1. DOMAIN cec_dev_addrs = 1..Len(cec_dev_addrs) /\ Len(cec_dev_addrs) \in Nat
  BY AddrAssumption, LenProperties
<1>2. \A i \in 1..(k - 1) : Target(cec_dev_addrs[i]) # Target(cec_dev_addrs[k])
  <2> TAKE i \in 1..(k - 1)
  <2>1. i \in DOMAIN cec_dev_addrs /\ k \in DOMAIN cec_dev_addrs /\ i # k
    BY <1>1
  <2> QED BY <2>1, AddrAssumption
<1>3. Target(cec_dev_addrs[k]) # CEC_ADDR_UNREGISTERED
  BY <1>1, AddrAssumption DEF CEC_ADDR_UNREGISTERED
<1> QED BY <1>2, <1>3 DEF Answered

LEMMA AddrPeriodicClaim ==
  ASSUME TypeOK, ClaimInv, AddrPeriodic
  PROVE  ClaimInv'
<1>0. /\ TransmitTypeOK /\ mode' = "running" /\ acked' = acked
      /\ cec_dev_idx \in 0..Len(cec_dev_addrs) /\ Len(cec_dev_addrs) \in Nat
  BY AddrAssumption DEF TypeOK, AddrTypeOK, AddrPeriodic, historyVars
<1>1. CASE AddrIdle \/ AddrWait
  BY <1>0, <1>1, PingUnchanged, ClaimKept DEF AddrIdle, AddrWait, addrVars
<1>2. CASE AddrPing
  <2>1. Searching' /\ acked = Answered(cec_dev_idx)
    BY <1>2, SearchingMeans DEF AddrPing, ClaimInv, PingUnderWay
  <2>2. /\ transmit_state' # TRANSMIT_IDLE
        /\ cec_dev_idx' = cec_dev_idx + 1
        /\ transmit_buf'[0] = cec_dev_addrs[cec_dev_idx + 1]
    BY <1>0, <1>2, States, SizeAssumption DEF AddrPing, TransmitTypeOK
  <2>3. PingUnderWay'
    BY <1>0, <2>1, <2>2 DEF PingUnderWay, Answered
  <2> QED BY <1>0, <2>1, <2>3 DEF ClaimInv, HaltedBeforeSearch, ClaimsUnansweredAddress, Searching
<1>3. CASE AddrGiveUp
  <2>1. ~Searching'
    BY <1>0, <1>3, SearchEnds
  <2>2. acked' = Answered(Len(cec_dev_addrs)) /\ logical_address' = CEC_ADDR_UNREGISTERED
    BY <1>0, <1>3 DEF AddrGiveUp, ClaimInv, PingUnderWay
  <2>3. \A i \in DOMAIN cec_dev_addrs : Target(cec_dev_addrs[i]) \in acked'
    BY <2>2, AddrAssumption, LenProperties DEF Answered
  <2> QED BY <1>0, <2>1, <2>2, <2>3 DEF ClaimInv, HaltedBeforeSearch, ClaimsUnansweredAddress
<1>4. CASE AddrClaim
  <2>1. ~Searching'
    BY <1>0, <1>4, SearchEnds
  <2>2. /\ cec_dev_idx \in 1..Len(cec_dev_addrs)
        /\ logical_address' = Target(cec_dev_addrs[cec_dev_idx])
        /\ acked' = Answered(cec_dev_idx - 1)
    BY <1>0, <1>4, States DEF AddrClaim, ClaimInv, PingUnderWay
  <2>3. logical_address' # CEC_ADDR_UNREGISTERED /\ logical_address' \notin acked'
    BY <2>2, Candidates
  <2> QED BY <1>0, <2>1, <2>3 DEF ClaimInv, HaltedBeforeSearch, ClaimsUnansweredAddress
<1> QED BY <1>1, <1>2, <1>3, <1>4 DEF AddrPeriodic, cec_addr_periodic

LEMMA HaltClaim ==
  ASSUME cec_halt
  PROVE  ClaimInv'
<1>1. CASE ADDR_MODULE = "dev_type"
  <2>1. /\ Searching' /\ ~cec_addr_ready' /\ cec_dev_idx' = 0 /\ acked' = {}
        /\ transmit_state' = TRANSMIT_IDLE
    BY <1>1, SearchingMeans DEF cec_halt, cec_addr_init, cec_addr_ready
  <2> QED BY <2>1 DEF ClaimInv, PingUnderWay, Answered, HaltedBeforeSearch,
                      ClaimsUnansweredAddress
<1>2. CASE ADDR_MODULE # "dev_type"
  BY <1>2, SearchingMeans DEF ClaimInv, HaltedBeforeSearch, ClaimsUnansweredAddress
<1> QED BY <1>1, <1>2

LEMMA CecInitClaim ==
  ASSUME ClaimInv, cec_init
  PROVE  ClaimInv'
<1>1. CASE ADDR_MODULE = "dev_type"
  <2>1. /\ Searching' /\ ~cec_addr_ready' /\ cec_dev_idx' = 0 /\ acked' = {}
        /\ transmit_state' = TRANSMIT_IDLE
    BY <1>1, SearchingMeans DEF cec_init, cec_addr_init, cec_addr_ready, AddrInitTransmitState,
       historyVars, ClaimInv, HaltedBeforeSearch
  <2> QED BY <2>1 DEF ClaimInv, PingUnderWay, Answered, HaltedBeforeSearch,
                      ClaimsUnansweredAddress
<1>2. CASE ADDR_MODULE # "dev_type"
  BY <1>2, SearchingMeans DEF ClaimInv, HaltedBeforeSearch, ClaimsUnansweredAddress
<1> QED BY <1>1, <1>2

LEMMA ClaimInit == Init => ClaimInv
<1> SUFFICES ASSUME Init PROVE ClaimInv
  OBVIOUS
<1>1. /\ logical_address = NOT_READY /\ cec_dev_idx = 0 /\ acked = {}
      /\ transmit_state = TRANSMIT_IDLE /\ mode = "started"
  BY DEF Init, AddrInit, TransmitInit
<1>2. acked = Answered(cec_dev_idx)
  BY <1>1 DEF Answered
<1>3. ADDR_MODULE = "dev_type" => ~cec_addr_ready
  BY <1>1 DEF cec_addr_ready
<1> QED BY <1>1, <1>2, <1>3 DEF ClaimInv, PingUnderWay, HaltedBeforeSearch,
                                ClaimsUnansweredAddress

LEMMA ClaimNext ==
  ASSUME TxInv, SearchHidden, ClaimInv, [Next]_vars
  PROVE  ClaimInv'
<1>0. TypeOK /\ TransmitTypeOK /\ TxLockstep /\ HaltedIsQuiet
  BY DEF TxInv, TypeOK
<1>1. CASE PollBetweenBytes \/ \E high \in BOOLEAN : ByteReceived(high)
  BY <1>0, <1>1, LineCheckPing, ClaimKept
     DEF PollBetweenBytes, ByteReceived, addrVars, historyVars
<1>2. CASE \E bit \in BOOLEAN : SampleBit(bit)
  BY <1>0, <1>2, SampleBitClaim
<1>3. CASE NoTransition \/ EarlyFallingEdge
  BY <1>0, <1>3, ReceiveErrorPing, ClaimKept
     DEF NoTransition, EarlyFallingEdge, Lost, addrVars, historyVars
<1>4. CASE StartLow
  BY <1>4, PingUnchanged, ClaimKept DEF StartLow, addrVars, historyVars
<1>5. CASE StartFrame
  BY <1>5, ClaimKept DEF StartFrame, cec_receive_start, addrVars, PingKept
<1>6. CASE cec_usi_next_bit
  BY <1>0, <1>6, NextBitPing, ClaimKept DEF cec_usi_next_bit, addrVars
<1>7. CASE AddrPeriodic
  BY <1>0, <1>7, AddrPeriodicClaim
<1>8. ASSUME NEW m \in Messages, AppSend(m)
      PROVE  ClaimInv'
  <2>1. ~Searching /\ ~Searching'
    BY <1>0, <1>8, SendAfterSearch
  <2>2. UNCHANGED <<addrVars, driverVars, historyVars>>
    BY <1>8 DEF AppSend
  <2> QED BY <2>1, <2>2 DEF ClaimInv, HaltedBeforeSearch, ClaimsUnansweredAddress,
                            cec_addr_ready, addrVars, driverVars, historyVars
<1>9. CASE AppClearHeader
  BY <1>9, PingUnchanged, ClaimKept DEF AppClearHeader, addrVars, driverVars, historyVars
<1>10. CASE \E set \in AddressSets : AppSetAddresses(set)
  BY <1>10, PingUnchanged, ClaimKept DEF AppSetAddresses, driverVars, historyVars
<1>11. CASE cec_halt
  BY <1>11, HaltClaim
<1>12. CASE cec_init
  BY <1>12, CecInitClaim
<1>13. CASE UNCHANGED vars
  BY <1>13, PingUnchanged, ClaimKept DEF vars, addrVars, driverVars, historyVars
<1> QED BY <1>1, <1>2, <1>3, <1>4, <1>5, <1>6, <1>7, <1>8, <1>9, <1>10, <1>11, <1>12, <1>13
        DEF Next, cec_periodic, Application

(* The address search never takes an address whose ping was answered, and  *)
(* gives up only if every candidate answered, however its pings are lost,  *)
(* retried and interleaved with what others send, and through any number   *)
(* of halts and restarts outside of messages.                              *)
THEOREM ClaimCorrect ==
  ASSUME HaltPolicy # "anytime"
  PROVE  Spec => []ClaimsUnansweredAddress
<1> DEFINE Inv == TxInv /\ SearchHidden /\ ClaimInv
<1>1. Init => Inv
  <2>1. Init => SearchHidden
    BY DEF Init, SearchHidden, AppTurn
  <2> QED BY <2>1, TxInvInit, ClaimInit
<1>2. Inv /\ [Next]_vars => Inv'
  <2>1. TxInv /\ SearchHidden /\ [Next]_vars => TxInv' /\ SearchHidden'
    BY TxInvNext, HiddenNext DEF TxInv
  <2> QED BY <2>1, ClaimNext
<1>3. Inv => ClaimsUnansweredAddress
  BY DEF ClaimInv
<1> QED BY <1>1, <1>2, <1>3, PTL DEF Spec
=============================================================================
