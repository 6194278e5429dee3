SPECIFICATION FairSpec
CONSTANTS
  Proc = {p1, p2}
  MaxTasks = 2
  MaxScore = 2
  MaxEvents = 2
INVARIANTS TypeOK PromotionEvidence
PROPERTIES TieKeepsIncumbent CaseCatchesUp ChallengerIsSettled
