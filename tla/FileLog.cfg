SPECIFICATION Spec
CONSTANTS
  Loggers = {l1, l2}
  Rotators = {r1, r2}
  Archive = {old1, old2}
  MaxLines = 2
  MaxFiles = 3
  MaxFailures = 1
INVARIANTS TypeOK NoLineLost CurrentFile FilesInOrder
CHECK_DEADLOCK FALSE
