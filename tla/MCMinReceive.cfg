CONSTANTS
  ADDR_BITS = 1
  CEC_BUFFER_SIZE = 1
  LEN_RANGE = 2
  CEC_XMIT_MAX_RETRANSMIT = 2
  CEC_PRESENT_PERIOD_WAIT = 8
  CEC_NEW_PERIOD_WAIT = 7
  CEC_PREV_PERIOD_WAIT = 6
  ADDR_MODULE = "fixed"
  cec_dev_addrs <- MCNoDevices
  CEC_FIXED_LOGICAL_ADDRESS <- MCAddress0
  CEC_START_TICKS = 5
  CEC_START_PERIOD = 7
  CEC_0_TICKS = 3
  CEC_1_TICKS = 1
  CEC_DATA_PERIOD = 5
  CEC_T3_TIME = 2
  CEC_T4_TIME = 3
  CEC_T5_EARLY0_TIME = 3
  CEC_T7_EARLY_END_TIME = 4
  CEC_START_LOW_EARLY_TIME = 4
  CEC_START_LOW_LATE_TIME = 6
  CEC_START_HIGH_EARLY_TIME = 6
  NO_EDGE = 1
  NACK_TIME = 7
  TIMER_RANGE = 10
  LOW_RANGE = 2
  TCNT1_RANGE = 8
  MaxLatency = 1
  OthersPulses <- MCBitPulses
  AckPulses <- MCNoPulses
  Messages <- MCNoMessages
  HaltPolicy = "never"
SPECIFICATION Spec
INVARIANTS
  SamplesInMessage
  StoresInBounds
PROPERTIES
  EdgesSpaced
  BufferOwnedByApp
