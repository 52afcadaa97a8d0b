-------------------------- MODULE CecTransmitProofs --------------------------
(***************************************************************************)
(* What cec_transmit_get_bit() hands out, for the builds of both drivers:  *)
(* bit for bit the frames of the message in transmit_buf.                  *)
(***************************************************************************)
EXTENDS CecTransmit, TLAPS

-----------------------------------------------------------------------------
USE DEF TRANSMIT_BIT_EOM, TRANSMIT_ACK, TRANSMIT_WAIT_FOR_ACK

(***************************************************************************)
(* Frames.  Counting the bits that were handed out is counting the byte,   *)
(* its data bits, its EOM and its ack bit.                                 *)
(***************************************************************************)
LEMMA FrameSize ==
  /\ BITS \in Nat /\ BITS >= 2
  /\ FRAME \in Nat /\ FRAME = BITS + 2
  /\ UCHAR \in Nat /\ UCHAR > CEC_BUFFER_SIZE
  BY SizeAssumption DEF BITS, FRAME, UCHAR

LEMMA Multiples ==
  ASSUME NEW F \in Nat, NEW p \in Int, NEW q \in Int, p < q
  PROVE  F * p + F <= F * q
<1>1. F * (q - p - 1) >= 0
  <2>1. q - p - 1 \in Nat
    OBVIOUS
  <2> QED BY <2>1
<1>2. F * (q - p - 1) = F * q - (F * p + F)
  OBVIOUS
<1>3. F * p \in Int /\ F * q \in Int
  OBVIOUS
<1> QED BY <1>1, <1>2, <1>3

LEMMA Division ==
  ASSUME NEW F \in Nat \ {0}, NEW p \in Nat, NEW o \in 0..(F - 1)
  PROVE  (F * p + o) \div F = p /\ (F * p + o) % F = o
<1> DEFINE n == F * p + o
           q == n \div F
           r == n % F
<1>0. F * p \in Nat /\ n \in Nat
  OBVIOUS
<1>1. q \in Int /\ r \in 0..(F - 1) /\ n = F * q + r /\ F * q \in Int
  BY <1>0
<1> HIDE DEF q, r
<1>2. ~(p < q)
  <2> SUFFICES ASSUME p < q PROVE FALSE
    OBVIOUS
  <2>1. F * p + F <= F * q
    BY <1>1, Multiples
  <2> QED BY <1>0, <1>1, <2>1
<1>3. ~(q < p)
  <2> SUFFICES ASSUME q < p PROVE FALSE
    OBVIOUS
  <2>1. F * q + F <= F * p
    BY <1>1, Multiples
  <2> QED BY <1>0, <1>1, <2>1
<1>4. q = p
  BY <1>1, <1>2, <1>3
<1>5. r = o
  BY <1>0, <1>1, <1>4
<1> QED BY <1>4, <1>5 DEF q, r

(* The frame bit with offset o of byte p of a message.                     *)
LEMMA FrameBits ==
  ASSUME NEW p \in Nat, NEW o \in 1..FRAME
  PROVE  FrameByte(FRAME * p + o) = p /\ FrameOffset(FRAME * p + o) = o
<1>1. FRAME \in Nat \ {0}
  BY FrameSize
<1>2. o - 1 \in 0..(FRAME - 1) /\ FRAME * p \in Nat
  BY <1>1
<1>3. FRAME * p + o - 1 = FRAME * p + (o - 1)
  BY <1>1, <1>2
<1>4. (FRAME * p + (o - 1)) \div FRAME = p /\ (FRAME * p + (o - 1)) % FRAME = o - 1
  BY <1>1, <1>2, Division
<1> HIDE DEF FRAME
<1> QED BY <1>2, <1>3, <1>4 DEF FrameByte, FrameOffset

(* Where in a message of which n bits were handed out the engine is: the   *)
(* next bit is a data bit or the EOM bit of a byte, or its ack bit.        *)
Place(n) ==
  /\ transmit_state = TRANSMIT_BIT_EOM =>
       n = FRAME * transmit_buf_pos + (BITS - transmit_buf_bit)
  /\ transmit_state = TRANSMIT_ACK =>
       transmit_buf_bit = 0 /\ n = FRAME * transmit_buf_pos + (BITS + 1)

(* The place is in the message.                                            *)
InMessage ==
  /\ transmit_buf_end \in 0..(CEC_BUFFER_SIZE - 1)
  /\ transmit_buf_pos \in 0..transmit_buf_end
  /\ transmit_buf_bit \in 0..BITS

(* The frame bits of the message, all bytes together.                      *)
MessageFrames == FRAME * (transmit_buf_end + 1)

(* The bit that is handed out has the number and the value of the frame    *)
(* bit it stands for, and it is the last one exactly if it is the ack bit  *)
(* of the last byte.                                                       *)
Handed(n, bit) ==
  /\ Place(n)' /\ InMessage'
  /\ n <= MessageFrames /\ bit = FrameBit(n)
  /\ transmit_state' \in {TRANSMIT_BIT_EOM, TRANSMIT_ACK, TRANSMIT_WAIT_FOR_ACK}
  /\ transmit_state' = TRANSMIT_WAIT_FOR_ACK <=> n = MessageFrames
  /\ n = MessageFrames => bit = TRUE

LEMMA GetBitPlace ==
  ASSUME NEW n \in Nat, Place(n), InMessage,
         transmit_state \in {TRANSMIT_BIT_EOM, TRANSMIT_ACK},
         NEW bit \in BOOLEAN, cec_transmit_get_bit(bit)
  PROVE  Handed(n + 1, bit)
<1> DEFINE p == transmit_buf_pos
           e == transmit_buf_end
<1>1. /\ p \in Nat /\ e \in Nat /\ p <= e /\ e < CEC_BUFFER_SIZE
      /\ CEC_BUFFER_SIZE \in Nat /\ transmit_buf_bit \in 0..BITS
      /\ transmit_buf_end' = e
  BY SizeAssumption DEF InMessage, cec_transmit_get_bit
<1>2. /\ FRAME * p \in Nat /\ MessageFrames \in Nat
      /\ FRAME * (p + 1) = FRAME * p + FRAME
      /\ p # e => FRAME * p + FRAME < MessageFrames
      /\ p = e => FRAME * p + FRAME = MessageFrames
  <2>1. FRAME * p \in Nat /\ FRAME * e \in Nat /\ FRAME * (p + 1) = FRAME * p + FRAME
        /\ MessageFrames = FRAME * e + FRAME
    BY <1>1, FrameSize DEF MessageFrames
  <2>2. p < e => FRAME * p + FRAME <= FRAME * e
    BY <1>1, FrameSize, Multiples
  <2> QED BY <1>1, <2>1, <2>2, FrameSize
<1> HIDE DEF p, e
<1>3. CASE GetDataBit(bit)
  <2> DEFINE o == BITS + 1 - transmit_buf_bit
  <2>1. /\ transmit_buf_bit # 0 /\ transmit_state = TRANSMIT_BIT_EOM
        /\ transmit_state' = TRANSMIT_BIT_EOM /\ transmit_buf_bit' = transmit_buf_bit - 1
        /\ transmit_buf_pos' = p
    BY <1>3 DEF GetDataBit, Place, p
  <2>2. /\ o \in 1..BITS /\ o \in 1..FRAME
        /\ n + 1 = FRAME * p + o /\ n + 1 < FRAME * p + FRAME
    BY <1>1, <1>2, <2>1, FrameSize DEF Place, p
  <2>3. bit = transmit_buf[p][o]
    BY <1>1, <1>3 DEF GetDataBit, DataBits, p
  <2>4. FrameBit(n + 1) = transmit_buf[p][o]
    <3>1. FrameByte(n + 1) = p /\ FrameOffset(n + 1) = o
      BY <1>1, <2>2, FrameBits
    <3>2. o <= BITS /\ o # BITS + 1 /\ o # BITS + 2
      BY <2>2, FrameSize
    <3> HIDE DEF o
    <3> QED BY <3>1, <3>2 DEF FrameBit
  <2>5. Place(n + 1)' /\ InMessage'
    BY <1>1, <1>2, <2>1, <2>2, FrameSize DEF Place, InMessage, e, p
  <2> QED BY <1>1, <1>2, <2>1, <2>2, <2>3, <2>4, <2>5, FrameSize DEF Handed
<1>4. CASE GetEomBit(bit)
  <2>1. /\ transmit_state = TRANSMIT_BIT_EOM /\ transmit_buf_bit = 0
        /\ transmit_state' = TRANSMIT_ACK /\ transmit_buf_bit' = 0 /\ transmit_buf_pos' = p
        /\ bit = (e = p /\ e # 0)
    BY <1>4 DEF GetEomBit, EomBit, IsLast, e, p
  <2>2. /\ n + 1 = FRAME * p + (BITS + 1) /\ BITS + 1 \in 1..FRAME
        /\ n + 1 < FRAME * p + FRAME
    BY <1>1, <1>2, <2>1, FrameSize DEF Place, p
  <2>3. FrameBit(n + 1) = (p = e /\ p > 0)
    <3>1. FrameByte(n + 1) = p /\ FrameOffset(n + 1) = BITS + 1
      BY <1>1, <2>2, FrameBits
    <3>2. ~(BITS + 1 <= BITS) /\ BITS + 1 # BITS + 2
      BY FrameSize
    <3> QED BY <3>1, <3>2 DEF FrameBit, e
  <2>4. Place(n + 1)' /\ InMessage'
    BY <1>1, <2>1, <2>2, FrameSize DEF Place, InMessage, e, p
  <2> QED BY <1>1, <1>2, <2>1, <2>2, <2>3, <2>4, FrameSize DEF Handed
<1>5. CASE GetAckBit(bit)
  <2>1. transmit_state = TRANSMIT_ACK /\ transmit_buf_bit = 0 /\ bit = TRUE
    BY <1>5 DEF GetAckBit
  <2>2. n + 1 = FRAME * p + FRAME /\ FRAME \in 1..FRAME
    BY <1>1, <1>2, <2>1, FrameSize DEF Place, p
  <2>3. FrameBit(n + 1) = TRUE
    <3>1. FrameByte(n + 1) = p /\ FrameOffset(n + 1) = BITS + 2
      BY <1>1, <2>2, FrameBits, FrameSize
    <3>2. ~(BITS + 2 <= BITS) /\ BITS + 2 # BITS + 1
      BY FrameSize
    <3> QED BY <3>1, <3>2 DEF FrameBit
  <2>4. bit = FrameBit(n + 1)
    BY <2>1, <2>3
  <2>5. CASE IsLast
    <3>1. /\ transmit_state' = TRANSMIT_WAIT_FOR_ACK /\ p = e
          /\ UNCHANGED <<transmit_buf_bit, transmit_buf_pos>>
      BY <1>5, <2>5 DEF GetAckBit, IsLast, e, p
    <3>2. Place(n + 1)' /\ InMessage'
      BY <1>1, <3>1 DEF Place, InMessage, e
    <3> QED BY <1>1, <1>2, <2>1, <2>2, <2>4, <3>1, <3>2, FrameSize DEF Handed
  <2>6. CASE ~IsLast
    <3>1. p + 1 \in 0..(UCHAR - 1) /\ p # e
      BY <1>1, <2>6, FrameSize DEF IsLast, e, p
    <3>2. transmit_buf_pos' = p + 1
      <4>1. (p + 1) % UCHAR = p + 1
        BY <3>1, FrameSize
      <4> QED BY <1>5, <2>6, <4>1 DEF GetAckBit, p
    <3>3. transmit_state' = TRANSMIT_BIT_EOM /\ transmit_buf_bit' = BITS
      BY <1>5, <2>6 DEF GetAckBit
    <3>4. Place(n + 1)'
      <4>1. BITS - BITS = 0 /\ FRAME * (p + 1) + 0 = FRAME * p + FRAME
        BY <1>1, <1>2, FrameSize
      <4> QED BY <2>2, <3>2, <3>3, <4>1 DEF Place
    <3>5. InMessage'
      BY <1>1, <3>1, <3>2, <3>3, FrameSize DEF InMessage, e
    <3> QED BY <1>1, <1>2, <2>1, <2>2, <2>4, <3>1, <3>3, <3>4, <3>5, FrameSize DEF Handed
  <2> QED BY <2>5, <2>6
<1> QED BY <1>3, <1>4, <1>5 DEF cec_transmit_get_bit

(* A message that is begun has none of its bits handed out.                *)
LEMMA StartPlace ==
  ASSUME cec_transmit_start
  PROVE  Place(0)' /\ (transmit_buf_end \in 0..(CEC_BUFFER_SIZE - 1) => InMessage')
<1>1. /\ transmit_buf_bit' = BITS /\ transmit_buf_pos' = 0
      /\ transmit_state' = TRANSMIT_BIT_EOM /\ UNCHANGED transmit_buf_end
  BY DEF cec_transmit_start
<1>2. 0 = FRAME * 0 + (BITS - BITS)
  BY FrameSize
<1> QED BY <1>1, <1>2, FrameSize, SizeAssumption DEF Place, InMessage
=============================================================================
