\* One bootstrap server with room for one agent, and the node: one agent and two faults, or
\* two agents of which the server refuses the status reports of one.
SPECIFICATION FleetSpec
CONSTANTS
  Absent = Absent
  a1 = a1
  a2 = a2
  a3 = a3
  s1 = s1
  Addresses = {a1, a2, a3}
  Bootstraps = {s1}
  Recognised <- MCRecognised
  MaxEntries = 1
  QuarantineTTL = 2
  RemovalTTL = 2
  SyncInterval = 2
  StatusInterval = 1
  NodeInterval = 1
  WarmAfter = 1
  MaxRequests <- MCRequests
  Budgets <- MCBudgets
PROPERTIES
  RemovedOnlyWhenSilent
  StoppedForgotten
  RunningDiscovered
CHECK_DEADLOCK FALSE
