CONSTANTS
  ADDR_BITS = 2
  CEC_BUFFER_SIZE = 2
  LEN_RANGE = 3
  CEC_XMIT_MAX_RETRANSMIT = 2
  CEC_PRESENT_PERIOD_WAIT = 1
  CEC_NEW_PERIOD_WAIT = 1
  CEC_PREV_PERIOD_WAIT = 1
  IDLE_FRAMES_MAX = 1
  ADDR_MODULE = "dev_type"
  cec_dev_addrs <- MCDevAddrs
  CEC_FIXED_LOGICAL_ADDRESS <- MCAddressTV
  Messages <- MCMessages
  WireBytes <- MCWireBytes
  MaxWireBytes = 1
  AddressSets <- MCNoAddresses
  HaltPolicy = "quiet"
SPECIFICATION Spec
INVARIANTS
  TypeOK
  TxLockstep
  StatsMatchRetries
  ClaimsUnansweredAddress
  SearchHidden
PROPERTIES
  SendsTheMessage
  ImplementsService
