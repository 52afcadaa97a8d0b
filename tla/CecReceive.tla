----------------------------- MODULE CecReceive -----------------------------
(***************************************************************************)
(* The receive engine, cec_receive.c: it assembles the bits the driver     *)
(* samples into the single receive buffer, decides what to acknowledge,    *)
(* and reports every bit to the transmit engine for cross-checking.        *)
(***************************************************************************)
EXTENDS CecAddr

VARIABLES
  cec_receive_buf,    \* cec_receive_buf[1..]: the bytes of the message
  cec_receive_byte,   \* bits of cec_receive_byte from its highest set bit on
  cec_receive_pos,    \* bytes received, an unsigned char
  cec_receive_flags,  \* the set of CEC_RECV_... flags
  recv_driven,        \* cec_receive_driven(): we pull the line low
  usi_nacking         \* GPIOR1 & FLAG1_CEC_USI_NACKING

receiveVars ==
  <<cec_receive_buf, cec_receive_byte, cec_receive_pos, cec_receive_flags,
    cec_receive_hdr, recv_driven, usi_nacking>>

RecvFlag == {"ACTIVE", "BCAST", "DO_ACK", "BITS_EOM", "EOM", "IGNORE",
             "OVERRUN", "NACKED"}

(* The byte register is preloaded with a 1 that marks how many bits are    *)
(* still missing; 0 means that the byte is complete.                       *)
MarkerOnly == <<TRUE>>
ByteComplete == << >>

ReceiveTypeOK ==
  /\ cec_receive_buf \in [1..CEC_BUFFER_SIZE -> Byte]
  /\ cec_receive_byte \in Seq(BOOLEAN)
  /\ Len(cec_receive_byte) <= BITS
  /\ cec_receive_pos \in 0..(UCHAR - 1)
  /\ cec_receive_flags \subseteq RecvFlag
  /\ recv_driven \in BOOLEAN
  /\ usi_nacking \in BOOLEAN

ReceiveInit ==
  /\ cec_receive_buf = [i \in 1..CEC_BUFFER_SIZE |-> ZeroByte]
  /\ cec_receive_byte = ByteComplete
  /\ cec_receive_pos = 0
  /\ cec_receive_flags = {}
  /\ cec_receive_hdr = EmptyHeader
  /\ recv_driven = FALSE
  /\ usi_nacking = FALSE

-----------------------------------------------------------------------------
(***************************************************************************)
(* cec_receive_error(): give up the message.  A broadcast is nacked by     *)
(* cec_receive_nack_frame() of the driver.                                 *)
(***************************************************************************)
cec_receive_nack_frame ==
  /\ recv_driven' = TRUE
  /\ usi_nacking' = TRUE

cec_receive_error(err) ==
  \/ /\ cec_receive_flags = {}
     /\ UNCHANGED <<receiveVars, transmitVars>>
  \/ /\ cec_receive_flags # {}
     /\ \/ "BCAST" \in cec_receive_flags /\ cec_receive_nack_frame
        \/ "BCAST" \notin cec_receive_flags /\ UNCHANGED <<recv_driven, usi_nacking>>
     /\ cec_receive_flags' = {}
     /\ cec_transmit_on_error(err)
     /\ UNCHANGED <<cec_receive_buf, cec_receive_byte, cec_receive_pos, cec_receive_hdr>>

(* cec_halt() calls cec_receive_error(); cec_transmit_halt() overwrites    *)
(* what the abort leaves in transmit_state.                                *)
HaltAborts == cec_receive_flags # {} /\ Transmitting

HaltAbort ==
  \/ HaltAborts /\ AbortEffects(CEC_ERR_HALT)
  \/ /\ ~HaltAborts
     /\ UNCHANGED <<transmit_stats, transmit_buf, transmit_buf_end, transmit_buf_bit,
                    transmit_buf_pos, transmit_last_bit, transmit_retries,
                    needed_idle_frames, usi_xmit_state>>

(* Mutant: the new message is appended to the old one.                     *)
StartKeepsReceivePos ==
  /\ cec_receive_byte' = MarkerOnly
  /\ cec_receive_flags' = {"ACTIVE", "BITS_EOM"}
  /\ needed_idle_frames' = CEC_NEW_PERIOD_WAIT
  /\ UNCHANGED <<cec_receive_buf, cec_receive_pos, cec_receive_hdr, recv_driven, usi_nacking>>
  /\ UNCHANGED <<transmit_state, transmit_stats, transmit_buf, transmit_buf_end,
                 transmit_buf_bit, transmit_buf_pos, transmit_last_bit,
                 transmit_retries, usi_xmit_state>>

(* A start frame: somebody else is present initiator, unless we are.       *)
cec_receive_start ==
  /\ cec_receive_pos' = 0
  /\ cec_receive_byte' = MarkerOnly
  /\ cec_receive_flags' = {"ACTIVE", "BITS_EOM"}
  /\ needed_idle_frames' = CEC_NEW_PERIOD_WAIT
  /\ UNCHANGED <<cec_receive_buf, cec_receive_hdr, recv_driven, usi_nacking>>
  /\ UNCHANGED <<transmit_state, transmit_stats, transmit_buf, transmit_buf_end,
                 transmit_buf_bit, transmit_buf_pos, transmit_last_bit,
                 transmit_retries, usi_xmit_state>>

-----------------------------------------------------------------------------
(***************************************************************************)
(* cec_receive_bit(): the last data bit of a byte.                         *)
(***************************************************************************)
FirstByte == cec_receive_pos = 0

(* Mutant: the buffer is taken to be one byte longer than it is.           *)
BufferFullLate == ~FirstByte /\ cec_receive_pos = CEC_BUFFER_SIZE + 1

BufferFull == ~FirstByte /\ cec_receive_pos = CEC_BUFFER_SIZE
MessagePending == cec_receive_hdr # EmptyHeader

(* Flags raised by the byte: whom the header addresses, whether the app    *)
(* still owns the buffer, whether the buffer is full.                      *)
AddressFlags(byte) ==
  IF Target(byte) = CEC_ADDR_BROADCAST THEN {"BCAST"}
  ELSE IF cec_addr_match(Target(byte)) THEN {"DO_ACK"} ELSE {}

(* Mutant: only the first byte of a message is refused, the rest stored.   *)
ByteFlagsWithoutIgnore(byte) ==
  cec_receive_flags
    \cup (IF FirstByte THEN AddressFlags(byte) ELSE {})
    \cup (IF BufferFull THEN {"OVERRUN"} ELSE {})

ByteFlags(byte) ==
  cec_receive_flags
    \cup (IF FirstByte THEN AddressFlags(byte) ELSE {})
    \cup (IF FirstByte /\ MessagePending THEN {"IGNORE"} ELSE {})
    \cup (IF BufferFull THEN {"OVERRUN"} ELSE {})

RefuseByte == (FirstByte /\ MessagePending) \/ BufferFull

(* Mutant: a message that does not fit is still acked.                     *)
RefusedFlagsKeepAck(flags) ==
  IF "BCAST" \in flags THEN flags \cup {"DO_ACK"} ELSE flags

(* A byte we refuse: a broadcast has to be nacked, a unicast message must  *)
(* not be acked.                                                           *)
RefusedFlags(flags) ==
  IF "BCAST" \in flags THEN flags \cup {"DO_ACK"} ELSE flags \ {"DO_ACK"}

StoreByte(flags) == ~RefuseByte /\ flags \cap {"IGNORE", "OVERRUN"} = {}

ReceiveByteDone(byte) ==
  LET flags == ByteFlags(byte) IN
  /\ cec_receive_flags' = IF RefuseByte THEN RefusedFlags(flags) ELSE flags
  /\ cec_receive_buf' = IF StoreByte(flags)
                        THEN [cec_receive_buf EXCEPT ![cec_receive_pos + 1] = byte]
                        ELSE cec_receive_buf
  /\ cec_receive_pos' = (cec_receive_pos + 1) % UCHAR
  /\ cec_receive_byte' = ByteComplete
  /\ UNCHANGED cec_receive_hdr

(* The byte register shifted left by one with bit moved in; the marker     *)
(* falls out of a complete byte.                                           *)
ShiftIn(bit) == Append(cec_receive_byte, bit)

ReceivingBits == "BITS_EOM" \in cec_receive_flags

(* This bit completes a byte.                                              *)
LastDataBit == ReceivingBits /\ Len(cec_receive_byte) = BITS

ReceiveDataBit(bit) ==
  /\ ReceivingBits
  /\ cec_receive_byte # ByteComplete
  /\ cec_check_tx_bit(bit)
  /\ \/ /\ ~LastDataBit
        /\ cec_receive_byte' = ShiftIn(bit)
        /\ UNCHANGED <<cec_receive_buf, cec_receive_pos, cec_receive_flags, cec_receive_hdr>>
     \/ /\ LastDataBit
        /\ ReceiveByteDone(Tail(ShiftIn(bit)))

ReceiveEomBit(bit) ==
  /\ ReceivingBits
  /\ cec_receive_byte = ByteComplete
  /\ cec_check_tx_bit(bit)
  /\ cec_receive_flags' =
       (cec_receive_flags \ {"BITS_EOM"}) \cup (IF bit THEN {"EOM"} ELSE {})
  /\ UNCHANGED <<cec_receive_buf, cec_receive_byte, cec_receive_pos, cec_receive_hdr>>

-----------------------------------------------------------------------------
(***************************************************************************)
(* cec_receive_bit(): the ack bit.  A low level acks a unicast message and *)
(* nacks a broadcast.  The header byte is receive_pos or-ed with the nack  *)
(* and overrun flags, so a long length spills into them.                   *)
(***************************************************************************)
Acked(bit) == IF "BCAST" \in cec_receive_flags THEN bit ELSE ~bit

(* Mutant: the length is not confined to its bits.                         *)
StatusHeaderWide(nacked) ==
  [len     |-> cec_receive_pos,
   overrun |-> "OVERRUN" \in cec_receive_flags,
   nack    |-> nacked \/ "NACKED" \in cec_receive_flags]

StatusHeader(nacked) ==
  [len     |-> cec_receive_pos % LEN_RANGE,
   overrun |-> \/ "OVERRUN" \in cec_receive_flags
               \/ (cec_receive_pos \div LEN_RANGE) % 2 = 1,
   nack    |-> \/ nacked \/ "NACKED" \in cec_receive_flags
               \/ cec_receive_pos \div (2 * LEN_RANGE) = 1]

EndOfMessage(ack) == ~ack \/ "EOM" \in cec_receive_flags

ReceiveAckBit(bit) ==
  LET ack == Acked(bit) IN
  /\ ~ReceivingBits
  /\ cec_transmit_receive_ack(ack)
  /\ \/ /\ EndOfMessage(ack)
        /\ cec_receive_hdr' = IF "IGNORE" \in cec_receive_flags
                              THEN cec_receive_hdr ELSE StatusHeader(~ack)
        /\ cec_receive_flags' = {}
        /\ UNCHANGED cec_receive_byte
     \/ /\ ~EndOfMessage(ack)
        /\ cec_receive_byte' = MarkerOnly
        /\ cec_receive_flags' = cec_receive_flags \cup {"BITS_EOM"}
        /\ UNCHANGED cec_receive_hdr
  /\ UNCHANGED <<cec_receive_buf, cec_receive_pos>>

cec_receive_bit(bit) ==
  /\ ReceiveDataBit(bit) \/ ReceiveEomBit(bit) \/ ReceiveAckBit(bit)
  /\ UNCHANGED <<recv_driven, usi_nacking>>
=============================================================================
