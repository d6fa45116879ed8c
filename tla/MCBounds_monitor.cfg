\* The one tool that has every kind of bound, its own agent and another that reports may
\* name, windows of two and three calls, two requests a minute, two faults.
SPECIFICATION FairSpec
CONSTANTS
  screen = screen
  assess = assess
  amlAgent = amlAgent
  creditAgent = creditAgent
  NoTool = NoTool
  Agents = {amlAgent, creditAgent}
  Tools = {screen}
  DefaultAgent <- MCDefaultAgent
  ReportAgents = {creditAgent}
  Rated = {screen}
  AnomalyWindow = 2
  MaxErrorPct = 50
  PerformanceWindow = 3
  MinSuccessPct = 60
  MaxPerMinute = 2
  RequestCap = 4
  QueueCap = 2
  MaxFaults = 2
INVARIANTS
  EnabledWithinBounds
  FileAgrees
  ChainFollowsMonitor
PROPERTIES
  SuspensionReachesChain
