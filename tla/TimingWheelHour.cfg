SPECIFICATION Spec
CONSTANTS
  Entries = {e1}
  Delays = {6}
  Second = 1
  Minute = 2
  Hour = 6
  Day = 12
  MaxDays = 2
  MaxClock = 14
  Idle = Idle
INVARIANT EveryWheelTurns
