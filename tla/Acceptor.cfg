SPECIFICATION FairSpec
CONSTANTS
  Fds = {3, 4, 5}
  MaxClients = 3
  MaxStarts = 2
  MaxFailures = 2
INVARIANTS TypeOK OneListener NoConnectionLeft
PROPERTIES StaysStopped Serves
CHECK_DEADLOCK FALSE
