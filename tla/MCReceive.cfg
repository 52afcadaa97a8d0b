CONSTANTS
  ADDR_BITS = 1
  CEC_BUFFER_SIZE = 2
  LEN_RANGE = 3
  CEC_XMIT_MAX_RETRANSMIT = 2
  CEC_PRESENT_PERIOD_WAIT = 1
  CEC_NEW_PERIOD_WAIT = 1
  CEC_PREV_PERIOD_WAIT = 1
  IDLE_FRAMES_MAX = 1
  ADDR_MODULE = "bitfield"
  cec_dev_addrs <- MCNoDevices
  CEC_FIXED_LOGICAL_ADDRESS <- MCAddress0
  Messages <- MCMessages
  WireBytes <- MCWireBytes
  MaxWireBytes = 6
  AddressSets <- MCAddressSets
  HaltPolicy = "quiet"
SPECIFICATION Spec
INVARIANTS
  TypeOK
  NoAckOfDroppedData
  StoresInBounds
PROPERTIES
  BufferOwnedByApp
  DeliversWhatWasSent
