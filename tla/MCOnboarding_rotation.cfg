\* Two flows; the bank's credit agent loses and regains its wallet, binding and card hash, and the owner revokes and restores the credit oracle, under open requests.
SPECIFICATION Spec
CONSTANTS
  NoFlow = NoFlow
  NoAgent = NoAgent
  NoAccount = NoAccount
  NoOracle = NoOracle
  NoDoc = NoDoc
  Agents <- MCAgents
  ClientAgents <- MCClientAgents
  Humans <- MCHumans
  HomeOracle <- MCHomeOracle
  Flows = {f1, f2}
  AMLRequests = {}
  CreditRequests = {c1}
  LegalRequests = {l1}
  Docs = {d1}
  MaxRound = 1
  Rotating = {"bankCredit"}
  Revocable = {"credit"}
INVARIANTS
  PhasesBacked
  NoRequestStuck
\* A flow that is terminated or complete has nothing left to do.
CHECK_DEADLOCK FALSE
