SPECIFICATION Spec
CONSTANTS
  Entries = {e1, e2}
  Delays = {0, 2, 4, 7}
  Second = 2
  Minute = 3
  Hour = 9
  Day = 18
  MaxDays = 2
  MaxClock = 16
  Idle = Idle
INVARIANTS TypeOK NeverLate EarlyAtMost
