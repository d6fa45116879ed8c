\* One execution, two decision requests, one connection, one fault or restart.
SPECIFICATION FairSpec
CONSTANTS
  e1 = e1
  e2 = e2
  q1 = q1
  q2 = q2
  v1 = v1
  v2 = v2
  NoExecution = NoExecution
  Executions = {e1}
  Requests = {q1, q2}
  Viewers = {v1}
  AccountShares = {0, 60, 100}
  MaxFaults = 1
  Tasks <- MCTasks
INVARIANTS
  HumanGate
  QueuedIsUntouched
  StatusBacked
PROPERTIES
  Settles
\* Once every run has ended and every request and connection is used up, nothing is left to do.
CHECK_DEADLOCK FALSE
