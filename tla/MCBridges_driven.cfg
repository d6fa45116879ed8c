\* One flow with its three reviews; a round of each kind, one fault, one human.
SPECIFICATION FairBridgedSpec
CONSTANTS
  NoFlow = NoFlow
  NoAgent = NoAgent
  NoAccount = NoAccount
  NoOracle = NoOracle
  NoDoc = NoDoc
  Agents <- MCAgents
  ClientAgents <- MCClientAgents
  Humans <- MCHumans
  HomeOracle <- MCHomeOracle
  BankDesk <- MCBankDesk
  ClientDesk <- MCClientDesk
  Interface <- MCInterface
  Flows = {f1}
  AMLRequests = {a1}
  CreditRequests = {c1}
  LegalRequests = {l1}
  Docs = {d1}
  MaxRound = 1
  MaxFaults = 1
  Rotating = {}
  Revocable = {}
INVARIANTS
  OneDriver
  AbandonedOnlyByRounds
  SetupDriven
PROPERTIES
  RoundsRunOut
  FlowSettles
\* A flow that is terminated, complete or abandoned has nothing left to do.
CHECK_DEADLOCK FALSE
