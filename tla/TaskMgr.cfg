SPECIFICATION FairSpec
CONSTANTS
  t1 = t1
  t2 = t2
  Tasks = {t1, t2}
  Interval <- MCInterval
  MaxNow = 4
INVARIANTS TypeOK KeptWhileArmed
PROPERTIES OncePerArming DueIsRun
CHECK_DEADLOCK FALSE
