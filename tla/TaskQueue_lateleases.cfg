CONSTANTS
  Proc = {p1, p2}
  Client = {c1}
  Task = {1, 2}
  NoTask = NoTask
  NoLease = NoLease
  WorkerId <- SharedWorkerId
  MaxQueued = 2
  MaxCrashes = 0
  TimelyLeases = FALSE
SPECIFICATION Spec
PROPERTY LongRunKeepsItsTask
