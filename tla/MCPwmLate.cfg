CONSTANTS
  ADDR_BITS = 1
  CEC_BUFFER_SIZE = 1
  LEN_RANGE = 2
  CEC_XMIT_MAX_RETRANSMIT = 1
  CEC_PRESENT_PERIOD_WAIT = 7
  CEC_NEW_PERIOD_WAIT = 7
  CEC_PREV_PERIOD_WAIT = 7
  ADDR_MODULE = "fixed"
  cec_dev_addrs <- MCNoDevices
  CEC_FIXED_LOGICAL_ADDRESS <- MCAddress1
  CEC_START_TICKS = 4
  CEC_START_PERIOD = 5
  CEC_0_TICKS = 2
  CEC_1_TICKS = 1
  CEC_DATA_PERIOD = 4
  CEC_T3_TIME = 1
  CEC_T4_TIME = 2
  CEC_T5_EARLY0_TIME = 2
  CEC_T7_EARLY_END_TIME = 3
  CEC_START_LOW_EARLY_TIME = 3
  CEC_START_LOW_LATE_TIME = 7
  CEC_START_HIGH_EARLY_TIME = 5
  NO_EDGE = 1
  NACK_TIME = 5
  TIMER_RANGE = 8
  LOW_RANGE = 1
  TCNT1_RANGE = 8
  MaxLatency = 2
  OthersPulses <- MCNoPulses
  AckPulses <- MCOneAckPulse
  Messages <- MCMessages
  HaltPolicy = "never"
SPECIFICATION Spec
INVARIANTS
  PwmTypeOK
  PwmInStep
PROPERTIES
  SendEnds
