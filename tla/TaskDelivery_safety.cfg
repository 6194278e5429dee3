SPECIFICATION Spec
CONSTANTS
  Proc = {p1, p2}
  MaxAttempts = 3
  MaxRepairs = 1
  MaxChildren = 2
  Issues = {"render", "blocked"}
  MayBeUnready = TRUE
  Events = {"revise", "retry", "accept", "cancel", "crash", "loss", "raise"}
  MaxEvents = 1
SYMMETRY ProcSymmetry
INVARIANTS TypeOK RepairBudget
 
