SPECIFICATION FairSpec
CONSTANTS
  m1 = m1
  m2 = m2
  m3 = m3
  Close = Close
  Messages = {m1, m2}
  Text <- MCText
  Lists = {}
  SendRoom = 2
  MaxInputs = 1
  CloseCallback = TRUE
PROPERTY CompleteMeansWritten
CHECK_DEADLOCK FALSE
