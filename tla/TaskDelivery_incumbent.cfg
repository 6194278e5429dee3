SPECIFICATION Spec
CONSTANTS
  Proc = {p1}
  MaxAttempts = 4
  MaxRepairs = 2
  MaxChildren = 3
  Issues = {"render", "blocked", "other"}
  MayBeUnready = FALSE
  Events = {}
  MaxEvents = 0
PROPERTIES IncumbentIsPreserved
