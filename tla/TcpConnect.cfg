SPECIFICATION FairSpec
CONSTANTS
  m1 = m1
  m2 = m2
  m3 = m3
  Close = Close
  Messages = {m1, m2, m3}
  Text <- MCText
  Lists = {m3}
  SendRoom = 2
  MaxInputs = 1
  CloseCallback = TRUE
INVARIANTS TypeOK NothingLost InOrder NoStall
PROPERTIES SilentOnceClosed SentIsWritten
CHECK_DEADLOCK FALSE
