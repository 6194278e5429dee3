SPECIFICATION Spec
CONSTANTS
  Proc = {p1, p2}
  MaxTasks = 3
  MaxScore = 2
  MaxEvents = 0
PROPERTIES PromotionKeepsBetter
