------------------------------ MODULE AMLOracle ------------------------------
(***************************************************************************)
(* The AML review sub-flow (contracts/oracles/AMLOracle.sol): requests     *)
(* that the bank's AML agent opens and works on, the client's document     *)
(* agent supplies data for, and a human clears or rejects.  A request id   *)
(* is a hash of flow, agent and block timestamp; here it is any unused     *)
(* member of AMLRequests, which is what the collision check demands.       *)
(***************************************************************************)
EXTENDS OnboardingRegistry, AgentIdentity

CONSTANTS
  AMLRequests,   \* request ids
  ClientAgents,  \* the agents of the client institution
  MaxRound       \* the largest uint8: a checked increment beyond it reverts

ASSUME MaxRoundAssumption == MaxRound \in Nat \ {0}
ASSUME ClientAgentsAssumption == ClientAgents \subseteq Agents

VARIABLE aml     \* _requests

AMLStatus == {"None", "Pending", "DataRequested", "InHumanReview", "Escalated",
              "Cleared", "Rejected"}

AMLRecord == [status: AMLStatus, flow: Flows \cup {NoFlow},
              bankAgent: Agents \cup {NoAgent}, clientAgent: Agents \cup {NoAgent},
              dataRound: 0..MaxRound]

NoAMLRequest == [status |-> "None", flow |-> NoFlow, bankAgent |-> NoAgent,
                 clientAgent |-> NoAgent, dataRound |-> 0]

AMLTypeOK == aml \in [AMLRequests -> AMLRecord]
AMLInit == aml = [r \in AMLRequests |-> NoAMLRequest]

AMLActive(r) == aml[r].status # "None" /\ IsActive(aml[r].flow)
AMLUnderReview(r) == AMLActive(r) /\ aml[r].status \in {"InHumanReview", "Escalated"}

-----------------------------------------------------------------------------
RequestAMLReview(r, f, bank, client) ==
  /\ OnlyBankAgent(bank, "aml")
  /\ IsActive(f)
  /\ aml[r].status = "None"
  /\ aml' = [aml EXCEPT ![r] = [status |-> "Pending", flow |-> f, bankAgent |-> bank,
                                clientAgent |-> client, dataRound |-> 0]]
  /\ UNCHANGED registryVars

(* Mutant: the round counter is never incremented.                         *)
AMLRequestClientDataUncounted(r) ==
  /\ OnlyBankAgent(aml[r].bankAgent, "aml")
  /\ AMLActive(r)
  /\ aml[r].status = "Pending"
  /\ aml' = [aml EXCEPT ![r].status = "DataRequested"]
  /\ UNCHANGED registryVars

(* What each call requires comes apart from what it does, for those who    *)
(* ask whether a call would be taken.                                      *)
AMLMayRequestData(r) ==
  /\ OnlyBankAgent(aml[r].bankAgent, "aml")
  /\ AMLActive(r)
  /\ aml[r].status = "Pending"
  /\ aml[r].dataRound < MaxRound

AMLRequestClientData(r) ==
  /\ AMLMayRequestData(r)
  /\ aml' = [aml EXCEPT ![r] =
       [aml[r] EXCEPT !.status = "DataRequested", !.dataRound = @ + 1]]
  /\ UNCHANGED registryVars

AMLMayFulfill(r) ==
  /\ OnlyClientAgent(aml[r].clientAgent)
  /\ CheckCardHash(aml[r].clientAgent)
  /\ AMLActive(r)
  /\ aml[r].status = "DataRequested"

AMLFulfillDataRequest(r) ==
  /\ AMLMayFulfill(r)
  /\ aml' = [aml EXCEPT ![r].status = "Pending"]
  /\ UNCHANGED registryVars

AMLMayRecommend(r) ==
  /\ OnlyBankAgent(aml[r].bankAgent, "aml")
  /\ CheckCardHash(aml[r].bankAgent)
  /\ AMLActive(r)
  /\ aml[r].status \in {"Pending", "DataRequested"}

AMLSubmitRecommendation(r) ==
  /\ AMLMayRecommend(r)
  /\ aml' = [aml EXCEPT ![r].status = "InHumanReview"]
  /\ UNCHANGED registryVars

AMLEscalate(r) ==
  /\ OnlyBankAgent(aml[r].bankAgent, "aml")
  /\ AMLActive(r)
  /\ aml[r].status = "InHumanReview"
  /\ aml' = [aml EXCEPT ![r].status = "Escalated"]
  /\ UNCHANGED registryVars

AMLMayClear(r, caller) ==
  /\ AMLUnderReview(r)
  /\ caller # GetAgentWallet(aml[r].bankAgent)
  /\ MaySetPhase("aml", aml[r].flow)

AMLClear(r, caller) ==
  /\ AMLMayClear(r, caller)
  /\ aml' = [aml EXCEPT ![r].status = "Cleared"]
  /\ SetPhaseComplete("aml", aml[r].flow, "AML_CLEARED")

AMLReject(r, caller) ==
  /\ AMLUnderReview(r)
  /\ caller # GetAgentWallet(aml[r].bankAgent)
  /\ aml' = [aml EXCEPT ![r].status = "Rejected"]
  /\ Terminate("aml", aml[r].flow)

AMLStep(r) ==
  \/ \E f \in Flows, bank \in Agents, client \in ClientAgents :
       RequestAMLReview(r, f, bank, client)
  \/ AMLRequestClientData(r)
  \/ AMLFulfillDataRequest(r)
  \/ AMLSubmitRecommendation(r)
  \/ AMLEscalate(r)
  \/ \E caller \in Accounts : AMLClear(r, caller) \/ AMLReject(r, caller)

AMLNext == \E r \in AMLRequests : AMLStep(r)
=============================================================================
