\* Two stores, three changes, one saved document and one load.
SPECIFICATION ContextSpec
CONSTANTS
  ra = ra
  rb = rb
  Replicas = {ra, rb}
  playbook = playbook
  Entries = {playbook}
  Fields = {1}
  Assessments <- MCAssessments
  alert = alert
  Events = {alert}
  MaxChanges = 3
  MaxSaves = 1
  MaxLoads = 1
SYMMETRY MCSymmetry
INVARIANTS
  RiskConsistent
  JournalKept
  HistoryComplete
PROPERTIES
  MergeNeverUnderstates
\* Every change and load may be used up.
CHECK_DEADLOCK FALSE
