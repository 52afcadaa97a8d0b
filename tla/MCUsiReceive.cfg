CONSTANTS
  ADDR_BITS = 1
  CEC_BUFFER_SIZE = 2
  LEN_RANGE = 3
  CEC_XMIT_MAX_RETRANSMIT = 2
  CEC_PRESENT_PERIOD_WAIT = 3
  CEC_NEW_PERIOD_WAIT = 2
  CEC_PREV_PERIOD_WAIT = 1
  IDLE_FRAMES_MAX = 3
  ADDR_MODULE = "fixed"
  cec_dev_addrs <- MCNoDevices
  CEC_FIXED_LOGICAL_ADDRESS <- MCAddress0
  Messages <- MCNone
  WireBytes <- MCBytes
  MaxWireBytes = 4
  AddressSets <- MCNone
  HaltPolicy = "never"
  TICK_MAX = 18
  MaxLatency = 1
  CallTicks = 0
  OthersMessages <- MCOthersMessages
  StartPulses <- MCStartPulses
  ZeroPulses <- MCZeroPulses
  OnePulses <- MCOnePulses
  AckPulses <- MCNone
  Glitches <- MCNone
  GiveUp <- MCGiveUp
  Gap = 24
  Clocks <- MCClocks
SPECIFICATION UsiSpec
INVARIANTS
  AckInItsBit
PROPERTIES
  AckHeard
  ReceivedAsSent
  LineReleased
