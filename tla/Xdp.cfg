SPECIFICATION Spec
CONSTANTS
  Cpu = {1, 2}
  Base = 4
  Second = 2
  MaxTime = 5
  MaxPackets = 4
INVARIANTS TypeOK Balanced ChecksumValid NoFalseAlarm
CHECK_DEADLOCK FALSE
