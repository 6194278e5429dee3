CONSTANTS
  Proc = {p1, p2}
  Client = {c1, c2}
  Task = {1, 2}
  NoTask = NoTask
  NoLease = NoLease
  WorkerId <- SharedWorkerId
  MaxQueued = 1
  MaxCrashes = 2
  TimelyLeases = TRUE
SPECIFICATION Spec
INVARIANTS TypeOK ExclusiveRun LeaseCoversRun AdmissionOvershoot
PROPERTIES OwnershipSpec 
SYMMETRY ProcSymmetry
