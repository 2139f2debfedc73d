SPECIFICATION FairSpec
CONSTANTS
  A = A
  B = B
  a1 = a1
  a2 = a2
  a3 = a3
  b1 = b1
  b2 = b2
  NoTask = NoTask
  NoThread = NoThread
  Home <- MCHome
  Loops = {A, B}
  Clients = {c1}
  Tasks = {a1, a2, b1, b2}
  FollowUp <- MCCrossing
  Reacts = {}
  MayQuit = {}
  PageWords = 2
  Pages = 2
PROPERTY EveryTaskRuns
CHECK_DEADLOCK FALSE
