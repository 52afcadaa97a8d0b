------------------------- MODULE CecEngineRxProofs -------------------------
(***************************************************************************)
(* The receive side of CecEngine: no ack for what is dropped, the buffer   *)
(* belongs to the application while the header is set, and what is         *)
(* delivered is what was on the wire.  All of it for messages too short to *)
(* wrap cec_receive_pos, and as long as cec_halt() is not called inside a  *)
(* message.                                                                *)
(***************************************************************************)
EXTENDS CecEngineProofs

(* The driver samples bits only while the engine is receiving.             *)
SamplesReceiving == usi_recv_state = USI_RECV_BITS => Receiving

PosCounts == Receiving => cec_receive_pos = count

(* Until the first byte is complete nothing is known of the message.       *)
FirstByteFresh ==
  Receiving /\ cec_receive_pos = 0 =>
    cec_receive_flags = {"ACTIVE", "BITS_EOM"} /\ cec_receive_byte # ByteComplete

OverrunMarked ==
  Receiving => ("OVERRUN" \in cec_receive_flags <=> cec_receive_pos > CEC_BUFFER_SIZE)

(* A message that is being stored has the buffer for itself.               *)
BufferFree ==
  Receiving /\ cec_receive_pos > 0 /\ "IGNORE" \notin cec_receive_flags => ~MessagePending

Stored == IF count < CEC_BUFFER_SIZE THEN count ELSE CEC_BUFFER_SIZE

WireStored ==
  Receiving =>
    /\ Len(wire) = Stored
    /\ "IGNORE" \notin cec_receive_flags =>
         \A i \in 1..Stored : cec_receive_buf[i] = wire[i]

RxParts ==
  /\ SamplesReceiving /\ PosCounts /\ FirstByteFresh /\ OverrunMarked
  /\ NoAckOfDroppedData /\ BufferFree /\ WireStored

RxInv == TypeOK /\ RxParts

-----------------------------------------------------------------------------
(***************************************************************************)
(* Steps that leave the reception alone, abandon it or begin a new one.    *)
(***************************************************************************)
LEMMA RxKept ==
  ASSUME RxParts,
         UNCHANGED <<cec_receive_buf, cec_receive_byte, cec_receive_pos, cec_receive_flags,
                     wire, count>>,
         cec_receive_hdr' \in {cec_receive_hdr, EmptyHeader},
         usi_recv_state' \in {usi_recv_state, USI_RECV_START}
  PROVE  RxParts'
<1>1. USI_RECV_START # USI_RECV_BITS
  BY DEF USI_RECV_START, USI_RECV_BITS
<1>2. SamplesReceiving' /\ PosCounts' /\ FirstByteFresh' /\ OverrunMarked' /\ NoAckOfDroppedData'
  BY <1>1 DEF RxParts, SamplesReceiving, PosCounts, FirstByteFresh, OverrunMarked,
              NoAckOfDroppedData, Receiving, Dropped
<1>3. BufferFree'
  BY DEF RxParts, BufferFree, Receiving, MessagePending
<1>4. WireStored'
  BY DEF RxParts, WireStored, Stored, Receiving
<1> QED BY <1>2, <1>3, <1>4 DEF RxParts

LEMMA RxAbandoned ==
  ASSUME cec_receive_flags' = {}, usi_recv_state' # USI_RECV_BITS
  PROVE  RxParts'
  BY DEF RxParts, SamplesReceiving, PosCounts, FirstByteFresh, OverrunMarked,
         NoAckOfDroppedData, BufferFree, WireStored, Receiving

LEMMA RxErrorKeeps ==
  ASSUME RxParts, NEW err, Lost(err)
  PROVE  RxParts'
<1>1. usi_recv_state' = USI_RECV_IDLE /\ USI_RECV_IDLE # USI_RECV_BITS
  BY DEF Lost, USI_RECV_IDLE, USI_RECV_BITS
<1>2. cec_receive_flags' = {}
  BY DEF Lost, cec_receive_error, receiveVars
<1> QED BY <1>1, <1>2, RxAbandoned

LEMMA RxStarted ==
  ASSUME StartFrame
  PROVE  RxParts'
<1>1. /\ cec_receive_pos' = 0 /\ count' = 0 /\ wire' = << >>
      /\ cec_receive_byte' = MarkerOnly
      /\ cec_receive_flags' = {"ACTIVE", "BITS_EOM"}
  BY DEF StartFrame, cec_receive_start
<1>2. MarkerOnly # ByteComplete
  BY DEF MarkerOnly, ByteComplete
<1>3. SamplesReceiving' /\ PosCounts' /\ FirstByteFresh' /\ BufferFree'
  BY <1>1, <1>2 DEF SamplesReceiving, PosCounts, FirstByteFresh, BufferFree, Receiving
<1>4. OverrunMarked' /\ NoAckOfDroppedData'
  BY <1>1, SizeAssumption DEF OverrunMarked, NoAckOfDroppedData, Dropped, Receiving
<1>5. WireStored'
  <2>1. Len(wire') = 0
    BY <1>1
  <2>2. Stored' = 0
    BY <1>1, SizeAssumption DEF Stored
  <2> QED BY <2>1, <2>2 DEF WireStored
<1> QED BY <1>3, <1>4, <1>5 DEF RxParts

-----------------------------------------------------------------------------
LEMMA SmallDivMod ==
  ASSUME NEW m \in Nat \ {0}, NEW n \in 0..(m - 1)
  PROVE  n % m = n /\ n \div m = 0
  OBVIOUS

(***************************************************************************)
(* The sample of a bit.                                                    *)
(***************************************************************************)
LEMMA RxSampledData ==
  ASSUME RxInv, NEW bit \in BOOLEAN, SampleBit(bit), ReceiveDataBit(bit), ~LastDataBit
  PROVE  RxParts'
<1>1. /\ UNCHANGED <<cec_receive_buf, cec_receive_pos, cec_receive_flags, cec_receive_hdr, wire, count>>
      /\ cec_receive_byte' = ShiftIn(bit)
  BY DEF SampleBit, ReceiveDataBit, RecordByte
<1>2. Receiving /\ ReceivingBits
  BY DEF ReceiveDataBit, ReceivingBits, Receiving
<1>3. cec_receive_byte' # ByteComplete
  <2>1. cec_receive_byte \in Seq(BOOLEAN)
    BY DEF RxInv, TypeOK, ReceiveTypeOK
  <2>2. Len(ShiftIn(bit)) = Len(cec_receive_byte) + 1 /\ Len(cec_receive_byte) \in Nat
    BY <2>1 DEF ShiftIn
  <2>3. Len(ByteComplete) = 0
    BY DEF ByteComplete
  <2> QED BY <1>1, <2>2, <2>3
<1>4. SamplesReceiving' /\ PosCounts' /\ FirstByteFresh' /\ OverrunMarked' /\ NoAckOfDroppedData'
  BY <1>1, <1>2, <1>3 DEF RxInv, RxParts, SamplesReceiving, PosCounts, FirstByteFresh,
     OverrunMarked, NoAckOfDroppedData, Receiving, Dropped
<1>5. BufferFree' /\ WireStored'
  BY <1>1 DEF RxInv, RxParts, BufferFree, WireStored, Stored, Receiving, MessagePending
<1> QED BY <1>4, <1>5 DEF RxParts

LEMMA RxSampledEom ==
  ASSUME RxInv, NEW bit \in BOOLEAN, SampleBit(bit), ReceiveEomBit(bit)
  PROVE  RxParts'
<1>1. /\ UNCHANGED <<cec_receive_buf, cec_receive_pos, cec_receive_byte, cec_receive_hdr, wire, count>>
      /\ cec_receive_flags' =
           (cec_receive_flags \ {"BITS_EOM"}) \cup (IF bit THEN {"EOM"} ELSE {})
  <2>1. Len(cec_receive_byte) = 0
    BY DEF ReceiveEomBit, ByteComplete
  <2>2. ~LastDataBit
    BY <2>1, Sizes DEF LastDataBit
  <2> QED BY <2>2 DEF SampleBit, ReceiveEomBit, RecordByte
<1>2. Receiving /\ cec_receive_pos # 0
  BY DEF ReceiveEomBit, ReceivingBits, Receiving, RxInv, RxParts, FirstByteFresh
<1>3. SamplesReceiving'
  BY DEF SampleBit, SamplesReceiving, Receiving, USI_RECV_IDLE, USI_RECV_BITS
<1>4. PosCounts' /\ FirstByteFresh' /\ OverrunMarked' /\ NoAckOfDroppedData'
  BY <1>1, <1>2 DEF RxInv, RxParts, PosCounts, FirstByteFresh,
     OverrunMarked, NoAckOfDroppedData, Receiving, Dropped
<1>5. BufferFree' /\ WireStored'
  BY <1>1, <1>2 DEF RxInv, RxParts, BufferFree, WireStored, Stored, Receiving, MessagePending
<1> QED BY <1>3, <1>4, <1>5 DEF RxParts

LEMMA RxSampledAck ==
  ASSUME RxInv, NEW bit \in BOOLEAN, SampleBit(bit), ReceiveAckBit(bit)
  PROVE  RxParts'
<1>1. CASE EndOfMessage(Acked(bit))
  <2>1. cec_receive_flags' = {}
    BY <1>1 DEF ReceiveAckBit
  <2>2. usi_recv_state' # USI_RECV_BITS
    BY <2>1 DEF SampleBit, USI_RECV_IDLE, USI_RECV_BITS
  <2> QED BY <2>1, <2>2, RxAbandoned
<1>2. CASE ~EndOfMessage(Acked(bit))
  <2>1. /\ UNCHANGED <<cec_receive_buf, cec_receive_pos, cec_receive_hdr, wire, count>>
        /\ cec_receive_byte' = MarkerOnly
        /\ cec_receive_flags' = cec_receive_flags \cup {"BITS_EOM"}
    BY <1>2 DEF SampleBit, ReceiveAckBit, RecordByte, LastDataBit
  <2>2. Receiving
    BY DEF SampleBit, RxInv, RxParts, SamplesReceiving
  <2>3. cec_receive_pos # 0
    BY <2>2 DEF ReceiveAckBit, ReceivingBits, RxInv, RxParts, FirstByteFresh
  <2>4. SamplesReceiving'
    BY DEF SampleBit, SamplesReceiving, Receiving, USI_RECV_IDLE, USI_RECV_BITS
  <2>5. PosCounts' /\ FirstByteFresh' /\ OverrunMarked' /\ NoAckOfDroppedData'
    BY <2>1, <2>2, <2>3 DEF RxInv, RxParts, PosCounts, FirstByteFresh,
       OverrunMarked, NoAckOfDroppedData, Receiving, Dropped
  <2>6. BufferFree' /\ WireStored'
    BY <2>1, <2>2 DEF RxInv, RxParts, BufferFree, WireStored, Stored, Receiving, MessagePending
  <2> QED BY <2>4, <2>5, <2>6 DEF RxParts
<1> QED BY <1>1, <1>2

(***************************************************************************)
(* The last bit of a byte, by what cec_receive_bit() makes of the byte:    *)
(* the address byte, the first byte that does not fit, any other.          *)
(***************************************************************************)
LEMMA ByteDoneFlags ==
  ASSUME RxInv, Receiving, NEW byte, ReceiveByteDone(byte), ReceivingBits
  PROVE  /\ "BITS_EOM" \in cec_receive_flags'
         /\ "OVERRUN" \in cec_receive_flags' <=>
              "OVERRUN" \in cec_receive_flags \/ cec_receive_pos = CEC_BUFFER_SIZE
         /\ "IGNORE" \in cec_receive_flags' <=>
              "IGNORE" \in cec_receive_flags \/ (cec_receive_pos = 0 /\ MessagePending)
         /\ NoAckOfDroppedData'
<1>0. NoAckOfDroppedData /\ CEC_BUFFER_SIZE \in Nat \ {0}
  BY SizeAssumption DEF RxInv, RxParts
<1>1. CASE cec_receive_pos = 0
  <2>1. cec_receive_flags = {"ACTIVE", "BITS_EOM"}
    BY <1>1 DEF RxInv, RxParts, FirstByteFresh
  <2>2. CEC_BUFFER_SIZE # 0 /\ ~BufferFull
    BY <1>0, <1>1 DEF BufferFull, FirstByte
  <2>3. RefuseByte <=> MessagePending
    BY <1>1, <2>2 DEF RefuseByte, FirstByte
  <2>4. AddressFlags(byte) \in {{"BCAST"}, {"DO_ACK"}, {}}
    BY DEF AddressFlags
  <2>5. ByteFlags(byte) = {"ACTIVE", "BITS_EOM"} \cup AddressFlags(byte)
                            \cup (IF MessagePending THEN {"IGNORE"} ELSE {})
    BY <1>1, <2>1, <2>2 DEF ByteFlags, FirstByte
  <2>6. cec_receive_flags' = IF MessagePending THEN RefusedFlags(ByteFlags(byte))
                             ELSE ByteFlags(byte)
    BY <2>3 DEF ReceiveByteDone
  <2>7. CASE MessagePending
    BY <1>1, <2>1, <2>2, <2>4, <2>5, <2>6, <2>7
       DEF RefusedFlags, NoAckOfDroppedData, Dropped
  <2>8. CASE ~MessagePending
    BY <1>1, <2>1, <2>2, <2>4, <2>5, <2>6, <2>8 DEF NoAckOfDroppedData, Dropped
  <2> QED BY <2>7, <2>8
<1>2. CASE cec_receive_pos = CEC_BUFFER_SIZE
  <2>1. cec_receive_pos # 0 /\ BufferFull /\ RefuseByte /\ ~FirstByte
    BY <1>0, <1>2 DEF BufferFull, RefuseByte, FirstByte
  <2>2. cec_receive_flags' = RefusedFlags(cec_receive_flags \cup {"OVERRUN"})
    BY <2>1 DEF ReceiveByteDone, ByteFlags
  <2> QED BY <1>0, <1>2, <2>1, <2>2
          DEF RefusedFlags, NoAckOfDroppedData, Dropped, ReceivingBits, Receiving
<1>3. CASE cec_receive_pos # 0 /\ cec_receive_pos # CEC_BUFFER_SIZE
  <2>1. cec_receive_flags' = cec_receive_flags
    BY <1>3 DEF ReceiveByteDone, ByteFlags, BufferFull, RefuseByte, FirstByte
  <2> QED BY <1>0, <1>3, <2>1
          DEF NoAckOfDroppedData, Dropped, ReceivingBits, Receiving
<1> QED BY <1>1, <1>2, <1>3

LEMMA RxSampledByte ==
  ASSUME RxInv, MaxWireBytes < UCHAR,
         NEW bit \in BOOLEAN, SampleBit(bit), ReceiveDataBit(bit), LastDataBit
  PROVE  RxParts'
<1> DEFINE byte == Tail(ShiftIn(bit))
<1>1. /\ ReceiveByteDone(byte)
      /\ count' = count + 1
      /\ wire' = IF Len(wire) < CEC_BUFFER_SIZE THEN Append(wire, byte) ELSE wire
      /\ UNCHANGED cec_receive_hdr
      /\ count < MaxWireBytes
  BY DEF SampleBit, ReceiveDataBit, RecordByte, ReceiveByteDone
<1>2. Receiving /\ ReceivingBits
  BY DEF ReceiveDataBit, ReceivingBits, Receiving
<1>3. /\ count \in Nat /\ cec_receive_pos = count /\ count + 1 < UCHAR
      /\ CEC_BUFFER_SIZE \in Nat \ {0}
      /\ wire \in Seq(Byte)
      /\ cec_receive_buf \in [1..CEC_BUFFER_SIZE -> Byte]
  BY <1>1, <1>2, Sizes, SizeAssumption, EngineAssumption
     DEF RxInv, RxParts, PosCounts, TypeOK, HistoryTypeOK, ReceiveTypeOK
<1>0. byte \in Byte
  BY ShiftedByte DEF RxInv, TypeOK, AddrTypeOK, RecvTypeOK
<1> HIDE DEF byte
<1>4. cec_receive_pos' = count + 1
  BY <1>1, <1>3, Sizes, SmallDivMod DEF ReceiveByteDone
<1>5. /\ "BITS_EOM" \in cec_receive_flags'
      /\ "OVERRUN" \in cec_receive_flags' <=>
           "OVERRUN" \in cec_receive_flags \/ cec_receive_pos = CEC_BUFFER_SIZE
      /\ "IGNORE" \in cec_receive_flags' <=>
           "IGNORE" \in cec_receive_flags \/ (cec_receive_pos = 0 /\ MessagePending)
      /\ NoAckOfDroppedData'
  BY <1>1, <1>2, ByteDoneFlags
<1>6. SamplesReceiving' /\ PosCounts' /\ FirstByteFresh'
  BY <1>1, <1>3, <1>4, <1>5 DEF SamplesReceiving, PosCounts, FirstByteFresh, Receiving
<1>7. "OVERRUN" \in cec_receive_flags <=> count > CEC_BUFFER_SIZE
  BY <1>2, <1>3 DEF RxInv, RxParts, OverrunMarked
<1>8. OverrunMarked'
  BY <1>3, <1>4, <1>5, <1>7 DEF OverrunMarked
<1>9. BufferFree'
  BY <1>1, <1>2, <1>3, <1>5 DEF RxInv, RxParts, BufferFree, MessagePending
<1>10. WireStored'
  <2>1. Len(wire) = IF count < CEC_BUFFER_SIZE THEN count ELSE CEC_BUFFER_SIZE
    BY <1>2 DEF RxInv, RxParts, WireStored, Stored
  <2>2. ASSUME "IGNORE" \notin cec_receive_flags'
        PROVE  \A i \in 1..Len(wire) : cec_receive_buf[i] = wire[i]
    BY <1>2, <1>5, <2>1, <2>2 DEF RxInv, RxParts, WireStored, Stored
  <2>3. CASE count < CEC_BUFFER_SIZE
    <3>1. Len(wire') = count + 1 /\ Stored' = count + 1
      BY <1>1, <1>3, <2>1, <2>3 DEF Stored
    <3>2. ASSUME "IGNORE" \notin cec_receive_flags'
          PROVE  cec_receive_buf' = [cec_receive_buf EXCEPT ![count + 1] = byte]
      <4>1. ~RefuseByte /\ ~BufferFull
        BY <1>3, <1>5, <2>3, <3>2 DEF RefuseByte, BufferFull, FirstByte
      <4>2. cec_receive_flags' = ByteFlags(byte)
        BY <1>1, <4>1 DEF ReceiveByteDone
      <4>3. "OVERRUN" \notin cec_receive_flags'
        BY <1>3, <1>5, <1>7, <2>3
      <4>4. StoreByte(ByteFlags(byte))
        BY <3>2, <4>1, <4>2, <4>3 DEF StoreByte
      <4> QED BY <1>1, <1>3, <4>4 DEF ReceiveByteDone
    <3>3. wire' = Append(wire, byte)
      BY <1>1, <1>3, <2>1, <2>3
    <3>4. ASSUME "IGNORE" \notin cec_receive_flags', NEW i \in 1..(count + 1)
          PROVE  cec_receive_buf'[i] = wire'[i]
      <4>1. CASE i = count + 1
        BY <1>0, <1>3, <2>1, <2>3, <3>2, <3>3, <3>4, <4>1
      <4>2. CASE i # count + 1
        <5>1. i \in 1..Len(wire) /\ i \in 1..CEC_BUFFER_SIZE
          BY <1>3, <2>1, <2>3, <4>2
        <5>2. wire'[i] = wire[i]
          BY <1>3, <3>3, <5>1
        <5>3. cec_receive_buf'[i] = cec_receive_buf[i]
          BY <1>3, <3>2, <3>4, <4>2, <5>1
        <5> QED BY <2>2, <3>4, <5>1, <5>2, <5>3
      <4> QED BY <4>1, <4>2
    <3> QED BY <3>1, <3>4 DEF WireStored
  <2>4. CASE ~(count < CEC_BUFFER_SIZE)
    <3>1. wire' = wire /\ Stored' = CEC_BUFFER_SIZE /\ Len(wire) = CEC_BUFFER_SIZE
      BY <1>1, <1>3, <2>1, <2>4 DEF Stored
    <3>2. cec_receive_buf' = cec_receive_buf
      <4>1. CASE count = CEC_BUFFER_SIZE
        BY <1>1, <1>3, <4>1 DEF ReceiveByteDone, StoreByte, RefuseByte, BufferFull, FirstByte
      <4>2. CASE count > CEC_BUFFER_SIZE
        <5>1. "OVERRUN" \in ByteFlags(byte)
          BY <1>7, <4>2 DEF ByteFlags
        <5> QED BY <1>1, <5>1 DEF ReceiveByteDone, StoreByte
      <4> QED BY <1>3, <2>4, <4>1, <4>2
    <3> QED BY <2>2, <3>1, <3>2 DEF WireStored
  <2> QED BY <2>3, <2>4
<1> QED BY <1>5, <1>6, <1>8, <1>9, <1>10 DEF RxParts

(***************************************************************************)
(* A sampled bit disturbs the buffer and the header only where the         *)
(* application does not own them, and a header it fills in is honest.      *)
(***************************************************************************)
LEMMA SampledBitKinds ==
  ASSUME NEW bit, SampleBit(bit)
  PROVE  ReceiveDataBit(bit) \/ ReceiveEomBit(bit) \/ ReceiveAckBit(bit)
  BY DEF SampleBit, cec_receive_bit

LEMMA SampleKeepsRxInv ==
  ASSUME RxInv, MaxWireBytes < UCHAR, NEW bit \in BOOLEAN, SampleBit(bit)
  PROVE  RxParts'
  BY SampledBitKinds, RxSampledByte, RxSampledData, RxSampledEom, RxSampledAck

(* What a step may do to a buffer the application owns.                    *)
LeavesBufferToApp ==
  MessagePending =>
    /\ cec_receive_buf' = cec_receive_buf
    /\ cec_receive_hdr' \in {cec_receive_hdr, EmptyHeader}

LEMMA SampleLeavesBuffer ==
  ASSUME RxInv, NEW bit \in BOOLEAN, SampleBit(bit)
  PROVE  LeavesBufferToApp
<1>0. SUFFICES ASSUME MessagePending
               PROVE  /\ cec_receive_buf' = cec_receive_buf
                      /\ cec_receive_hdr' \in {cec_receive_hdr, EmptyHeader}
  BY DEF LeavesBufferToApp
<1>1. Receiving
  BY DEF SampleBit, RxInv, RxParts, SamplesReceiving
<1>2. CASE ReceiveDataBit(bit)
  <2>1. CASE LastDataBit
    <3>1. ReceiveByteDone(Tail(ShiftIn(bit)))
      BY <1>2, <2>1 DEF ReceiveDataBit
    <3>2. ~StoreByte(ByteFlags(Tail(ShiftIn(bit))))
      BY <1>0, <1>1 DEF RxInv, RxParts, BufferFree, StoreByte, RefuseByte, FirstByte, ByteFlags,
                        TypeOK, ReceiveTypeOK
    <3> QED BY <3>1, <3>2 DEF ReceiveByteDone
  <2>2. CASE ~LastDataBit
    BY <1>2, <2>2 DEF ReceiveDataBit
  <2> QED BY <2>1, <2>2
<1>3. CASE ReceiveEomBit(bit)
  BY <1>3 DEF ReceiveEomBit
<1>4. CASE ReceiveAckBit(bit)
  <2>1. cec_receive_pos > 0
    BY <1>1, <1>4 DEF ReceiveAckBit, ReceivingBits, RxInv, RxParts, FirstByteFresh,
                      TypeOK, ReceiveTypeOK
  <2>2. "IGNORE" \in cec_receive_flags
    BY <1>0, <1>1, <2>1 DEF RxInv, RxParts, BufferFree
  <2> QED BY <1>4, <2>2 DEF ReceiveAckBit
<1> QED BY <1>2, <1>3, <1>4, SampledBitKinds

(* What a header that a step fills in says of the message on the wire.     *)
FillsInHonestHeader ==
  ~MessagePending /\ MessagePending' =>
    /\ Receiving
    /\ "EOM" \in cec_receive_flags \/ cec_receive_hdr'.nack
    /\ count < LEN_RANGE =>
         /\ cec_receive_hdr'.len = count
         /\ cec_receive_hdr'.overrun <=> count > CEC_BUFFER_SIZE
    /\ \A i \in DOMAIN wire : cec_receive_buf'[i] = wire[i]

LEMMA SampleFillsIn ==
  ASSUME RxInv, NEW bit \in BOOLEAN, SampleBit(bit)
  PROVE  FillsInHonestHeader
<1>0. SUFFICES ASSUME ~MessagePending, MessagePending'
               PROVE  /\ Receiving
                      /\ "EOM" \in cec_receive_flags \/ cec_receive_hdr'.nack
                      /\ count < LEN_RANGE =>
                           /\ cec_receive_hdr'.len = count
                           /\ cec_receive_hdr'.overrun <=> count > CEC_BUFFER_SIZE
                      /\ \A i \in DOMAIN wire : cec_receive_buf'[i] = wire[i]
  BY DEF FillsInHonestHeader
<1>1. Receiving
  BY DEF SampleBit, RxInv, RxParts, SamplesReceiving
<1>2. cec_receive_hdr' # cec_receive_hdr
  BY <1>0 DEF MessagePending
<1>3. ReceiveAckBit(bit)
  BY <1>2, SampledBitKinds DEF ReceiveDataBit, ReceiveEomBit, ReceiveByteDone
<1>4. /\ EndOfMessage(Acked(bit))
      /\ "IGNORE" \notin cec_receive_flags
      /\ cec_receive_hdr' = StatusHeader(~Acked(bit))
      /\ cec_receive_buf' = cec_receive_buf
  BY <1>2, <1>3 DEF ReceiveAckBit
<1>5. "EOM" \in cec_receive_flags \/ cec_receive_hdr'.nack
  BY <1>4 DEF EndOfMessage, StatusHeader
<1>6. /\ cec_receive_pos = count /\ count \in Nat
      /\ LEN_RANGE \in Nat \ {0} /\ 2 * LEN_RANGE \in Nat \ {0}
      /\ "OVERRUN" \in cec_receive_flags <=> count > CEC_BUFFER_SIZE
  BY <1>1, SizeAssumption DEF RxInv, RxParts, PosCounts, OverrunMarked, TypeOK, HistoryTypeOK
<1>7. ASSUME count < LEN_RANGE
      PROVE  /\ cec_receive_hdr'.len = count
             /\ cec_receive_hdr'.overrun <=> count > CEC_BUFFER_SIZE
  <2>1. count % LEN_RANGE = count /\ count \div LEN_RANGE = 0
    BY <1>6, <1>7, SmallDivMod
  <2> QED BY <1>4, <1>6, <2>1 DEF StatusHeader
<1>8. \A i \in DOMAIN wire : cec_receive_buf'[i] = wire[i]
  <2>1. wire \in Seq(Byte)
    BY DEF RxInv, TypeOK, HistoryTypeOK
  <2>2. DOMAIN wire = 1..Stored
    BY <1>1, <2>1 DEF RxInv, RxParts, WireStored
  <2> QED BY <1>1, <1>4, <2>2 DEF RxInv, RxParts, WireStored
<1> QED BY <1>1, <1>5, <1>7, <1>8

-----------------------------------------------------------------------------
(***************************************************************************)
(* The invariant is inductive.                                             *)
(***************************************************************************)
LEMMA RxInvInit == Init => RxInv
<1> SUFFICES ASSUME Init PROVE RxInv
  OBVIOUS
<1>1. TypeOK
  BY InitTyped
<1>2. RxParts
  BY DEF Init, ReceiveInit, RxParts, SamplesReceiving, PosCounts, FirstByteFresh, OverrunMarked,
         NoAckOfDroppedData, BufferFree, WireStored, Receiving, USI_RECV_IDLE, USI_RECV_BITS
<1> QED BY <1>1, <1>2 DEF RxInv

(* The steps outside a reception leave the buffer alone and can only       *)
(* clear the header.                                                       *)
BufferAlone ==
  /\ cec_receive_buf' = cec_receive_buf
  /\ cec_receive_hdr' \in {cec_receive_hdr, EmptyHeader}

LEMMA AloneIsHarmless ==
  ASSUME BufferAlone
  PROVE  LeavesBufferToApp /\ FillsInHonestHeader
  BY DEF BufferAlone, LeavesBufferToApp, FillsInHonestHeader, MessagePending

LEMMA RxNext ==
  ASSUME HaltPolicy # "anytime", MaxWireBytes < UCHAR, RxInv, [Next]_vars
  PROVE  RxInv' /\ LeavesBufferToApp /\ FillsInHonestHeader
<1>0. TypeOK' /\ RxParts
  BY NextTyped DEF RxInv
<1>1. CASE PollBetweenBytes \/ (\E high \in BOOLEAN : ByteReceived(high)) \/ StartLow
  <2>1. /\ UNCHANGED <<cec_receive_buf, cec_receive_byte, cec_receive_pos, cec_receive_flags,
                       wire, count>>
        /\ cec_receive_hdr' \in {cec_receive_hdr, EmptyHeader}
        /\ usi_recv_state' \in {usi_recv_state, USI_RECV_START}
    BY <1>1 DEF PollBetweenBytes, ByteReceived, StartLow, receiveVars, historyVars
  <2> QED BY <1>0, <2>1, RxKept, AloneIsHarmless DEF RxInv, BufferAlone
<1>2. CASE \E bit \in BOOLEAN : SampleBit(bit)
  BY <1>0, <1>2, SampleKeepsRxInv, SampleLeavesBuffer, SampleFillsIn DEF RxInv
<1>3. CASE NoTransition \/ EarlyFallingEdge
  <2>1. PICK err \in {CEC_ERR_NO_EOM, CEC_ERR_LOW_DRIVE} : Lost(err)
    BY <1>3 DEF NoTransition, EarlyFallingEdge
  <2>2. BufferAlone
    BY <2>1 DEF Lost, cec_receive_error, receiveVars, BufferAlone
  <2> QED BY <1>0, <2>1, <2>2, RxErrorKeeps, AloneIsHarmless DEF RxInv
<1>4. CASE StartFrame
  <2>1. BufferAlone
    BY <1>4 DEF StartFrame, cec_receive_start, BufferAlone
  <2> QED BY <1>0, <1>4, <2>1, RxStarted, AloneIsHarmless DEF RxInv
<1>5. CASE cec_usi_next_bit
  <2>1. UNCHANGED <<receiveVars, usi_recv_state, wire, count>>
    BY <1>5 DEF cec_usi_next_bit
  <2> QED BY <1>0, <2>1, RxKept, AloneIsHarmless DEF RxInv, receiveVars, BufferAlone
<1>6. CASE AddrPeriodic
  <2>1. /\ UNCHANGED <<cec_receive_buf, cec_receive_byte, cec_receive_pos, cec_receive_flags,
                       wire, count, usi_recv_state>>
        /\ cec_receive_hdr' \in {cec_receive_hdr, EmptyHeader}
    BY <1>6 DEF AddrPeriodic, historyVars, cec_addr_periodic, AddrIdle, AddrPing, AddrGiveUp,
                AddrClaim, AddrWait
  <2> QED BY <1>0, <2>1, RxKept, AloneIsHarmless DEF RxInv, BufferAlone
<1>7. CASE (\E m \in Messages : AppSend(m)) \/ AppClearHeader
             \/ (\E set \in AddressSets : AppSetAddresses(set)) \/ cec_init
  <2>1. /\ UNCHANGED <<cec_receive_buf, cec_receive_byte, cec_receive_pos, cec_receive_flags,
                       wire, count, usi_recv_state>>
        /\ cec_receive_hdr' \in {cec_receive_hdr, EmptyHeader}
    BY <1>7 DEF AppSend, AppClearHeader, AppSetAddresses, cec_init, receiveVars, driverVars,
                historyVars
  <2> QED BY <1>0, <2>1, RxKept, AloneIsHarmless DEF RxInv, BufferAlone
<1>8. CASE cec_halt
  <2>1. usi_recv_state # USI_RECV_BITS
    BY <1>8, EngineAssumption DEF cec_halt, HaltAllowed
  <2>2. cec_receive_flags' = {} /\ usi_recv_state' # USI_RECV_BITS /\ BufferAlone
    BY <1>8, <2>1 DEF cec_halt, BufferAlone
  <2> QED BY <1>0, <2>2, RxAbandoned, AloneIsHarmless DEF RxInv
<1>9. CASE UNCHANGED vars
  BY <1>0, <1>9, RxKept, AloneIsHarmless DEF RxInv, vars, receiveVars, driverVars, historyVars,
                                             BufferAlone
<1> QED BY <1>1, <1>2, <1>3, <1>4, <1>5, <1>6, <1>7, <1>8, <1>9
        DEF Next, cec_periodic, Application

-----------------------------------------------------------------------------
LEMMA RxInvariant ==
  ASSUME HaltPolicy # "anytime", MaxWireBytes < UCHAR
  PROVE  Spec => []RxInv
<1>1. Init => RxInv
  BY RxInvInit
<1>2. RxInv /\ [Next]_vars => RxInv'
  BY RxNext
<1> QED BY <1>1, <1>2, PTL DEF Spec

(* The sender is never told that a message went through that was lost:     *)
(* whenever the engine drops what it receives, cec_receive_bit() has       *)
(* DO_ACK off for a unicast message and on for a broadcast.                *)
THEOREM AckCorrect ==
  ASSUME HaltPolicy # "anytime", MaxWireBytes < UCHAR
  PROVE  Spec => []NoAckOfDroppedData
<1>1. RxInv => NoAckOfDroppedData
  BY DEF RxInv, RxParts
<1> QED BY <1>1, RxInvariant, PTL

(* A byte past the end of cec_receive_buf is always marked as dropped, so  *)
(* cec_receive_bit() stores nothing there.                                 *)
THEOREM BoundsCorrect ==
  ASSUME HaltPolicy # "anytime", MaxWireBytes < UCHAR
  PROVE  Spec => []StoresInBounds
<1>1. RxInv => StoresInBounds
  BY DEF RxInv, RxParts, OverrunMarked, StoresInBounds, Dropped
<1> QED BY <1>1, RxInvariant, PTL

(* From the moment the header byte is filled in until the application      *)
(* clears it, no step of cec_periodic() touches the receive buffer.        *)
THEOREM BufferOwnership ==
  ASSUME HaltPolicy # "anytime", MaxWireBytes < UCHAR
  PROVE  Spec => BufferOwnedByApp
<1>1. RxInv /\ [Next]_vars => LeavesBufferToApp
  BY RxNext
<1> QED BY <1>1, RxInvariant, PTL DEF Spec, BufferOwnedByApp, LeavesBufferToApp

(* A header cec_receive_bit() fills in ends a reception, tells the length  *)
(* and what went wrong, and the buffer holds the bytes of the wire.        *)
THEOREM DeliveryCorrect ==
  ASSUME HaltPolicy # "anytime", MaxWireBytes < UCHAR
  PROVE  Spec => DeliversWhatWasSent
<1>1. RxInv /\ [Next]_vars => FillsInHonestHeader
  BY RxNext
<1> QED BY <1>1, RxInvariant, PTL DEF Spec, DeliversWhatWasSent, FillsInHonestHeader
=============================================================================
