\* One flow; two AML requests, one credit and one legal request race on it, with
\* two versions of the contract.
SPECIFICATION Spec
CONSTANTS
  NoFlow = NoFlow
  NoAgent = NoAgent
  NoAccount = NoAccount
  NoOracle = NoOracle
  NoDoc = NoDoc
  Agents <- MCAgents
  ClientAgents <- MCClientAgents
  Humans <- MCHumans
  HomeOracle <- MCHomeOracle
  Flows = {f1}
  AMLRequests = {a1, a2}
  CreditRequests = {c1}
  LegalRequests = {l1}
  Docs = {d1, d2}
  MaxRound = 1
  Rotating = {}
  Revocable = {}
SYMMETRY Interchangeable
INVARIANTS
  PhasesBacked
  OneRejection
  NoRequestStuck
  ReadyOnlyWhenDecided
PROPERTIES
  TerminatedFlowFrozen
  SignedTextFixed
  RefinesOnboardingFlow
\* A flow that is terminated or complete has nothing left to do.
CHECK_DEADLOCK FALSE
