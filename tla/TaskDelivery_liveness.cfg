SPECIFICATION FairSpec
CONSTANTS
  Proc = {p1}
  MaxAttempts = 5
  MaxRepairs = 1
  MaxChildren = 3
  Issues = {"render", "other"}
  MayBeUnready = FALSE
  Events = {"revise", "accept", "cancel", "crash"}
  MaxEvents = 2
INVARIANTS  DegradedBudget ResolutionIsReal
PROPERTIES RequestSettles 
