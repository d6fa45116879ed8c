\* One flow, three events of the review loops.
SPECIFICATION GraphSpec
CONSTANTS
  f1 = f1
  Flows = {f1}
  Flow = f1
  Teams <- MCTeams
  MaxEvents = 3
INVARIANTS
  MaskMirrorsChain
\* The graph stops when every node is parked and no event comes.
CHECK_DEADLOCK FALSE
