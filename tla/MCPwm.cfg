CONSTANTS
  ADDR_BITS = 1
  CEC_BUFFER_SIZE = 2
  LEN_RANGE = 3
  CEC_XMIT_MAX_RETRANSMIT = 2
  CEC_PRESENT_PERIOD_WAIT = 12
  CEC_NEW_PERIOD_WAIT = 11
  CEC_PREV_PERIOD_WAIT = 10
  ADDR_MODULE = "fixed"
  cec_dev_addrs <- MCNoDevices
  CEC_FIXED_LOGICAL_ADDRESS <- MCAddress1
  CEC_START_TICKS = 8
  CEC_START_PERIOD = 11
  CEC_0_TICKS = 4
  CEC_1_TICKS = 1
  CEC_DATA_PERIOD = 7
  CEC_T3_TIME = 1
  CEC_T4_TIME = 3
  CEC_T5_EARLY0_TIME = 4
  CEC_T7_EARLY_END_TIME = 6
  CEC_START_LOW_EARLY_TIME = 7
  CEC_START_LOW_LATE_TIME = 11
  CEC_START_HIGH_EARLY_TIME = 11
  NO_EDGE = 3
  NACK_TIME = 12
  TIMER_RANGE = 18
  LOW_RANGE = 2
  TCNT1_RANGE = 16
  MaxLatency = 2
  OthersPulses <- MCNoPulses
  AckPulses <- MCAckPulses
  Messages <- MCMessages
  HaltPolicy = "quiet"
SPECIFICATION Spec
INVARIANTS
  OnlyNacksFail
  NoFlagLeft
PROPERTIES
  AirsTheMessage
  FramesInSpec
  ImplementsService
