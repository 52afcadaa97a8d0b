CONSTANTS
  ADDR_BITS = 1
  CEC_BUFFER_SIZE = 2
  LEN_RANGE = 3
  CEC_XMIT_MAX_RETRANSMIT = 2
  CEC_PRESENT_PERIOD_WAIT = 3
  CEC_NEW_PERIOD_WAIT = 2
  CEC_PREV_PERIOD_WAIT = 1
  IDLE_FRAMES_MAX = 3
  ADDR_MODULE = "fixed"
  cec_dev_addrs <- MCNoDevices
  CEC_FIXED_LOGICAL_ADDRESS <- MCAddress1
  Messages <- MCLongMessages
  WireBytes <- MCBytes
  MaxWireBytes = 4
  AddressSets <- MCNone
  HaltPolicy = "quiet"
  TICK_MAX = 18
  MaxLatency = 7
  CallTicks = 1
  OthersMessages <- MCNone
  StartPulses <- MCNone
  ZeroPulses <- MCNone
  OnePulses <- MCNone
  AckPulses <- MCAckPulses
  Glitches <- MCNone
  GiveUp <- MCNone
  Gap = 0
  Clocks <- MCClocks
SPECIFICATION UsiSpec
INVARIANTS
  UsiTypeOK
  OnlyNacksFail
  StopsWhenAborted
PROPERTIES
  AirsTheMessage
  SendEnds
  UsiTimingInSpec
