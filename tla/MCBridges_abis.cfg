\* The interface of abis.py: the first finished screening cannot be handed in.
SPECIFICATION BridgedSpec
CONSTANTS
  NoFlow = NoFlow
  NoAgent = NoAgent
  NoAccount = NoAccount
  NoOracle = NoOracle
  NoDoc = NoDoc
  Agents <- MCAgents
  ClientAgents <- MCClientAgents
  Humans <- MCHumans
  HomeOracle <- MCHomeOracle
  BankDesk <- MCBankDesk
  ClientDesk <- MCClientDesk
  Interface <- AbisInterface
  Flows = {f1}
  AMLRequests = {a1}
  CreditRequests = {c1}
  LegalRequests = {l1}
  Docs = {d1}
  MaxRound = 1
  MaxFaults = 1
  Rotating = {}
  Revocable = {}
INVARIANTS
  ScreeningReachesHumans
CHECK_DEADLOCK FALSE
