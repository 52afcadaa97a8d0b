CONSTANTS
  TIMER = 256
  LATENCY = 175
  RISE = 63
  MaxGap = 80
SPECIFICATION Spec
PROPERTIES
  ReportsOthers
