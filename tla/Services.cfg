SPECIFICATION Spec
CHECK_DEADLOCK FALSE
CONSTANTS
  CaseCount = 2
  Tags <- AllTags
  MaxStarts = 3
  Strategies = {1, 2, 3}
  ClusterOf <- OneCluster
  FirstStatus <- OneServes
  Evaluators = {e1, e2}
  MinPasses = 1
  MaxEvaluations = 3
  Fields = {f1}
  Values = {1, 2}
  Talks = {t1}
  Works = {w1}
  MinCompleted = 1
  MaxSuggestions = 1
  MaxEdits = 2
  Tokens = {token1}
  Logins = {login1}
  Requests = {request1, request2}
  Connections = {connection1}
  Lifetime = 3
  Day = 4
  ResetHour = 3
  IdleLimit = 3
  MaxTime = 5
  Servers = {"api", "worker"}
  Writers = {"w1", "w2"}
  ServerOf <- TwoProcesses
  Goals = {g1}
  MaxRevisions = 2
  Endings = {"completed"}
  MaxEntries = 1
  MaxAttemptsKept = 1
  MaxClears = 1
  Authors = {c1}
  Choosers = {c2}
  Agents = {}
  MaxIterations = 2
  MaxResults = 1
  MaxTurns = 2
  Collaborators = {"collaborator"}
  Memories = {"m1"}
  MaxChildren = 1
  MaxAttempts = 3
  MaxLog = 1
  MaxUpdates = 1
  MaxDecisions = 2
  People = {"agent1", "agent2"}
  Records = {record1}
  PromotedBy <- FirstAgents
  Askers = {a1, a2}
  MaxChain = 2
  Scripts <- SomeScripts
  VideoFaults <- SomeFaults
  MinScore = 750
  MaxRuns = 2
INVARIANTS
  TypeOK
  ResumptionIsSound
  OneActiveStrategy
  
  BarredStayOut
  NothingForgotten
  DisabledStaysOut
  LineageIsSound ComposerNamesAddressee
   SuggestionIsTaken NothingOverwritten
  EvidenceIsFresh RunsClose RepairFollowsContract RefusalIsExplained
PROPERTIES
  KeepsServing VersionNamesContent GatewayRotates
