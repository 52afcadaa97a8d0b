CONSTANTS
  ADDR_BITS = 2
  CEC_BUFFER_SIZE = 2
  LEN_RANGE = 3
  CEC_XMIT_MAX_RETRANSMIT = 2
  CEC_PRESENT_PERIOD_WAIT = 3
  CEC_NEW_PERIOD_WAIT = 2
  CEC_PREV_PERIOD_WAIT = 1
  IDLE_FRAMES_MAX = 3
  ADDR_MODULE = "fixed"
  cec_dev_addrs <- MCNoDevices
  CEC_FIXED_LOGICAL_ADDRESS <- MCWide0
  Messages <- MCToOthers
  WireBytes <- MCBytes
  MaxWireBytes = 4
  AddressSets <- MCNone
  HaltPolicy = "never"
  TICK_MAX = 18
  MaxLatency = 2
  CallTicks = 1
  OthersMessages <- MCToUs
  StartPulses <- MCStartPulses
  ZeroPulses <- MCZeroPulse
  OnePulses <- MCOnePulse
  AckPulses <- MCNone
  Glitches <- MCNone
  GiveUp <- MCNone
  Gap = 24
  Clocks <- MCClocks
SPECIFICATION UsiSpec
INVARIANTS
  AcksOutsideOurs
  AckInItsBit
PROPERTIES
  AirsOwnFrames
