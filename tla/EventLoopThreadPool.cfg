SPECIFICATION PoolSpec
CONSTANTS
  Owner = Owner
  Others = {u, v}
  Worker = Worker
  NoThread = NoThread
  Stale = {TRUE, FALSE}
  Size = 3
  HalfRange = 2
INVARIANTS PoolTypeOK RunPublishesLoop WaitsForRun
PROPERTIES CallsReturn DealtInTurn
CHECK_DEADLOCK FALSE
