CONSTANTS
  Proc = {p1, p2}
  Client = {c1}
  Task = {1, 2}
  NoTask = NoTask
  NoLease = NoLease
  WorkerId <- SharedWorkerId
  MaxQueued = 2
  MaxCrashes = 1
  TimelyLeases = TRUE
SPECIFICATION Spec
PROPERTY CancelledQueuedNotProcessed
