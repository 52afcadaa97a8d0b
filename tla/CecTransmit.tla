---------------------------- MODULE CecTransmit ----------------------------
(***************************************************************************)
(* The transmit engine, cec_transmit.c: the interface the application      *)
(* queues a message on (transmit_buf, transmit_buf_end, transmit_state),   *)
(* and the bit-by-bit state machine the hardware driver pulls frames from. *)
(*                                                                         *)
(* Every operator named after a C function is that function's effect on    *)
(* the variables declared here; the composing modules conjoin them.        *)
(***************************************************************************)
EXTENDS CecSpec

VARIABLES
  transmit_state,      \* TRANSMIT_...; transmit_state_buf[0]
  transmit_stats,      \* transmit_state_buf[1..6]: failures per cause
  transmit_buf,        \* the message, indexed from 0
  transmit_buf_end,    \* index of the message's last byte
  transmit_buf_bit,    \* k > 0: mask 2^(k-1) is next; 0: mask shifted out
  transmit_buf_pos,    \* index of the byte being sent
  transmit_last_bit,   \* the two youngest bits handed out, oldest first
  transmit_retries,    \* failed transmissions of the current message
  needed_idle_frames,  \* idle frames to wait for before transmitting
  usi_xmit_state       \* the driver's progress, reset by cec_transmit_abort

transmitVars ==
  <<transmit_state, transmit_stats, transmit_buf, transmit_buf_end,
    transmit_buf_bit, transmit_buf_pos, transmit_last_bit, transmit_retries,
    needed_idle_frames, usi_xmit_state>>

TRANSMIT_IDLE         == 0
TRANSMIT_FAILED       == 1
TRANSMIT_PEND         == 2
TRANSMIT_AGAIN        == 3
TRANSMIT_BIT_EOM      == 4
TRANSMIT_ACK          == 8
TRANSMIT_WAIT_FOR_ACK == 16

TransmitState ==
  {TRANSMIT_IDLE, TRANSMIT_FAILED, TRANSMIT_PEND, TRANSMIT_AGAIN,
   TRANSMIT_BIT_EOM, TRANSMIT_ACK, TRANSMIT_WAIT_FOR_ACK}

(* transmit_state & TRANSMIT_PEND                                          *)
Pending == transmit_state \in {TRANSMIT_PEND, TRANSMIT_AGAIN}

(* transmit_state > TRANSMIT_AGAIN: a transmission is in progress          *)
Transmitting == transmit_state > TRANSMIT_AGAIN

USI_XMIT_IDLE  == "idle"
USI_XMIT_START == "start"
USI_XMIT_BITS  == "bits"

XmitState == {USI_XMIT_IDLE, USI_XMIT_START, USI_XMIT_BITS}

NoStats == [e \in CecErr |-> 0]

TransmitTypeOK ==
  /\ transmit_state \in TransmitState
  /\ transmit_stats \in [CecErr -> 0..(UCHAR - 1)]
  /\ transmit_buf \in [0..(CEC_BUFFER_SIZE - 1) -> Byte]
  /\ transmit_buf_end \in 0..(CEC_BUFFER_SIZE - 1)
  /\ transmit_buf_bit \in 0..BITS
  /\ transmit_buf_pos \in 0..(UCHAR - 1)
  /\ transmit_last_bit \in BOOLEAN \X BOOLEAN
  /\ transmit_retries \in 0..(UCHAR - 1)
  /\ needed_idle_frames \in 0..IDLE_FRAMES_MAX
  /\ usi_xmit_state \in XmitState

(* Static storage is zero; cec_transmit_init() then sets the idle period.  *)
TransmitInit ==
  /\ transmit_state = TRANSMIT_IDLE
  /\ transmit_stats = NoStats
  /\ transmit_buf = [i \in 0..(CEC_BUFFER_SIZE - 1) |-> ZeroByte]
  /\ transmit_buf_end = 0
  /\ transmit_buf_bit = 0
  /\ transmit_buf_pos = 0
  /\ transmit_last_bit = <<FALSE, FALSE>>
  /\ transmit_retries = 0
  /\ needed_idle_frames = CEC_NEW_PERIOD_WAIT
  /\ usi_xmit_state = USI_XMIT_IDLE

-----------------------------------------------------------------------------
(***************************************************************************)
(* Errors.  AbortEffects is what an abort changes besides transmit_state:  *)
(* cec_halt() overwrites the state an abort leaves behind.                 *)
(***************************************************************************)
NextRetry == (transmit_retries + 1) % UCHAR

OutOfRetries == NextRetry = CEC_XMIT_MAX_RETRANSMIT

AbortedState == IF OutOfRetries THEN TRANSMIT_FAILED ELSE TRANSMIT_AGAIN

(* Mutant: the abort forgets to stop the driver.                           *)
AbortEffectsKeepDriver(err) ==
  /\ transmit_stats' = [transmit_stats EXCEPT ![err] = (@ + 1) % UCHAR]
  /\ transmit_retries' = NextRetry
  /\ needed_idle_frames' =
       IF OutOfRetries THEN needed_idle_frames ELSE CEC_PREV_PERIOD_WAIT
  /\ UNCHANGED <<transmit_buf, transmit_buf_end, transmit_buf_bit,
                 transmit_buf_pos, transmit_last_bit, usi_xmit_state>>

(* transmit_state_buf[err]++, then cec_transmit_abort() of the driver and  *)
(* cec_transmit_finish_abort() up to its assignment of transmit_state.     *)
AbortEffects(err) ==
  /\ transmit_stats' = [transmit_stats EXCEPT ![err] = (@ + 1) % UCHAR]
  /\ usi_xmit_state' = USI_XMIT_IDLE
  /\ transmit_retries' = NextRetry
  /\ needed_idle_frames' =
       IF OutOfRetries THEN needed_idle_frames ELSE CEC_PREV_PERIOD_WAIT
  /\ UNCHANGED <<transmit_buf, transmit_buf_end, transmit_buf_bit,
                 transmit_buf_pos, transmit_last_bit>>

cec_transmit_on_error(err) ==
  \/ /\ Transmitting
     /\ AbortEffects(err)
     /\ transmit_state' = AbortedState
  \/ /\ ~Transmitting
     /\ UNCHANGED transmitVars

(***************************************************************************)
(* The receive engine reports what it saw on the line.  The driver works   *)
(* CHECK_BIT_DELAY = 1 frame ahead, so the bit on the line is the older of *)
(* the two youngest bits handed out.                                       *)
(***************************************************************************)
DelayedBit == transmit_last_bit[1]

cec_check_tx_bit(bit) ==
  \/ /\ bit # DelayedBit
     /\ cec_transmit_on_error(CEC_ERR_ARB_LOST)
  \/ /\ bit = DelayedBit
     /\ UNCHANGED transmitVars

(* What the sampled ack bit makes of transmit_state when it is an ack.     *)
AckedState ==
  IF transmit_state = TRANSMIT_WAIT_FOR_ACK THEN TRANSMIT_IDLE ELSE transmit_state

cec_transmit_receive_ack(ack) ==
  \/ /\ ack
     /\ transmit_state' = AckedState
     /\ UNCHANGED <<transmit_stats, transmit_buf, transmit_buf_end,
                    transmit_buf_bit, transmit_buf_pos, transmit_last_bit,
                    transmit_retries, needed_idle_frames, usi_xmit_state>>
  \/ /\ ~ack
     /\ cec_transmit_on_error(CEC_ERR_NACK)

-----------------------------------------------------------------------------
(***************************************************************************)
(* The driver starts a message and pulls its bits.                         *)
(***************************************************************************)
(* Mutant: a retransmission counts as a new message.                       *)
FreshMessageOrRetry == Pending

FreshMessage == transmit_state = TRANSMIT_PEND

(* Mutant: the failure counts of the previous message are not cleared.     *)
StartKeepsStats ==
  /\ transmit_retries' = IF FreshMessage THEN 0 ELSE transmit_retries
  /\ transmit_buf_bit' = BITS
  /\ transmit_buf_pos' = 0
  /\ transmit_state' = TRANSMIT_BIT_EOM
  /\ UNCHANGED <<transmit_stats, transmit_buf, transmit_buf_end,
                 transmit_last_bit, needed_idle_frames>>

(* Mutant: a retransmission goes on at the byte where the last one failed. *)
StartKeepsPosition ==
  /\ transmit_retries' = IF FreshMessage THEN 0 ELSE transmit_retries
  /\ transmit_stats' = IF FreshMessage THEN NoStats ELSE transmit_stats
  /\ transmit_buf_bit' = BITS
  /\ transmit_state' = TRANSMIT_BIT_EOM
  /\ UNCHANGED <<transmit_buf, transmit_buf_end, transmit_buf_pos,
                 transmit_last_bit, needed_idle_frames>>

cec_transmit_start ==
  /\ transmit_retries' = IF FreshMessage THEN 0 ELSE transmit_retries
  /\ transmit_stats' = IF FreshMessage THEN NoStats ELSE transmit_stats
  /\ transmit_buf_bit' = BITS
  /\ transmit_buf_pos' = 0
  /\ transmit_state' = TRANSMIT_BIT_EOM
  /\ UNCHANGED <<transmit_buf, transmit_buf_end, transmit_last_bit,
                 needed_idle_frames>>

IsLast == transmit_buf_end = transmit_buf_pos

(* The bit under the mask.  Past the end of the array the build reads      *)
(* whatever lies there.                                                    *)
DataBits ==
  IF transmit_buf_pos < CEC_BUFFER_SIZE
  THEN {transmit_buf[transmit_buf_pos][BITS + 1 - transmit_buf_bit]}
  ELSE BOOLEAN

(* A message of one byte is a ping and carries no EOM.                     *)
EomBit == IsLast /\ transmit_buf_end # 0

GetDataBit(bit) ==
  /\ transmit_buf_bit # 0
  /\ bit \in DataBits
  /\ transmit_buf_bit' = transmit_buf_bit - 1
  /\ UNCHANGED <<transmit_state, transmit_buf_pos, needed_idle_frames>>

GetEomBit(bit) ==
  /\ transmit_buf_bit = 0
  /\ transmit_state = TRANSMIT_BIT_EOM
  /\ bit = EomBit
  /\ transmit_state' = TRANSMIT_ACK
  /\ UNCHANGED <<transmit_buf_bit, transmit_buf_pos, needed_idle_frames>>

GetAckBit(bit) ==
  /\ transmit_buf_bit = 0
  /\ transmit_state # TRANSMIT_BIT_EOM
  /\ bit = TRUE
  /\ needed_idle_frames' = CEC_PRESENT_PERIOD_WAIT
  /\ \/ /\ IsLast
        /\ transmit_state' = TRANSMIT_WAIT_FOR_ACK
        /\ UNCHANGED <<transmit_buf_bit, transmit_buf_pos>>
     \/ /\ ~IsLast
        /\ transmit_buf_bit' = BITS
        /\ transmit_buf_pos' = (transmit_buf_pos + 1) % UCHAR
        /\ transmit_state' = TRANSMIT_BIT_EOM

cec_transmit_get_bit(bit) ==
  /\ GetDataBit(bit) \/ GetEomBit(bit) \/ GetAckBit(bit)
  /\ transmit_last_bit' = <<transmit_last_bit[2], bit>>
  /\ UNCHANGED <<transmit_stats, transmit_buf, transmit_buf_end, transmit_retries>>

-----------------------------------------------------------------------------
(* The frame bits of a message, numbered from 1: for each byte its data    *)
(* bits, the EOM bit (set in the last byte of a message that is no ping)   *)
(* and a released ack bit.                                                 *)
FRAME == BITS + 2
FrameByte(k) == (k - 1) \div FRAME
FrameOffset(k) == 1 + ((k - 1) % FRAME)

FrameBit(k) ==
  LET byte == FrameByte(k)
      offset == FrameOffset(k)
  IN CASE offset <= BITS     -> transmit_buf[byte][offset]
       [] offset = BITS + 1  -> byte = transmit_buf_end /\ byte > 0
       [] offset = BITS + 2  -> TRUE

-----------------------------------------------------------------------------
(***************************************************************************)
(* What the application makes of the state: the status of the transmit     *)
(* interface, and the transmissions of its message begun so far.           *)
(***************************************************************************)
StatusOf(state) ==
  CASE state = TRANSMIT_IDLE   -> "idle"
    [] state = TRANSMIT_FAILED -> "failed"
    [] state = TRANSMIT_PEND   -> "pend"
    [] state = TRANSMIT_AGAIN  -> "again"
    [] OTHER                   -> "busy"

TriesOf(state, retries) ==
  CASE StatusOf(state) = "busy"  -> retries + 1
    [] StatusOf(state) = "again" -> retries
    [] OTHER                     -> 0
=============================================================================
