-------------------------- MODULE CreditRiskOracle --------------------------
(***************************************************************************)
(* The credit review sub-flow (contracts/oracles/CreditRiskOracle.sol):    *)
(* the data loop of the AML review plus a negotiation of terms between the *)
(* bank's credit agent and the client's negotiator.  Of the hash of the    *)
(* terms on the table the model keeps who put them there.                  *)
(***************************************************************************)
EXTENDS AMLOracle

CONSTANT CreditRequests

VARIABLE credit

CreditStatus == {"None", "Pending", "DataRequested", "Negotiating",
                 "InHumanReview", "Escalated", "Approved", "Rejected"}

Terms == {"none", "proposed", "countered", "agreed"}

CreditRecord == [status: CreditStatus, flow: Flows \cup {NoFlow},
                 bankAgent: Agents \cup {NoAgent}, clientAgent: Agents \cup {NoAgent},
                 dataRound: 0..MaxRound, terms: Terms, negotiationRound: 0..MaxRound]

NoCreditRequest == [status |-> "None", flow |-> NoFlow, bankAgent |-> NoAgent,
                    clientAgent |-> NoAgent, dataRound |-> 0, terms |-> "none",
                    negotiationRound |-> 0]

CreditTypeOK == credit \in [CreditRequests -> CreditRecord]
CreditInit == credit = [r \in CreditRequests |-> NoCreditRequest]

CreditActive(r) == credit[r].status # "None" /\ IsActive(credit[r].flow)
CreditUnderReview(r) ==
  CreditActive(r) /\ credit[r].status \in {"InHumanReview", "Escalated"}

-----------------------------------------------------------------------------
RequestCreditReview(r, f, bank, client) ==
  /\ OnlyBankAgent(bank, "credit")
  /\ IsActive(f)
  /\ credit[r].status = "None"
  /\ credit' = [credit EXCEPT ![r] =
       [status |-> "Pending", flow |-> f, bankAgent |-> bank, clientAgent |-> client,
        dataRound |-> 0, terms |-> "none", negotiationRound |-> 0]]
  /\ UNCHANGED registryVars

CreditMayRequestData(r) ==
  /\ OnlyBankAgent(credit[r].bankAgent, "credit")
  /\ CreditActive(r)
  /\ credit[r].status = "Pending"
  /\ credit[r].dataRound < MaxRound

CreditRequestClientData(r) ==
  /\ CreditMayRequestData(r)
  /\ credit' = [credit EXCEPT ![r] =
       [credit[r] EXCEPT !.status = "DataRequested", !.dataRound = @ + 1]]
  /\ UNCHANGED registryVars

CreditMayFulfill(r) ==
  /\ OnlyClientAgent(credit[r].clientAgent)
  /\ CheckCardHash(credit[r].clientAgent)
  /\ CreditActive(r)
  /\ credit[r].status = "DataRequested"

CreditFulfillDataRequest(r) ==
  /\ CreditMayFulfill(r)
  /\ credit' = [credit EXCEPT ![r].status = "Pending"]
  /\ UNCHANGED registryVars

MayProposeTerms(r) ==
  /\ OnlyBankAgent(credit[r].bankAgent, "credit")
  /\ CheckCardHash(credit[r].bankAgent)
  /\ CreditActive(r)
  /\ credit[r].status = "Pending"
  /\ credit[r].negotiationRound < MaxRound

ProposeTerms(r) ==
  /\ MayProposeTerms(r)
  /\ credit' = [credit EXCEPT ![r] =
       [credit[r] EXCEPT !.status = "Negotiating", !.terms = "proposed",
                         !.negotiationRound = @ + 1]]
  /\ UNCHANGED registryVars

MayCounter(r) ==
  /\ OnlyClientAgent(credit[r].clientAgent)
  /\ CheckCardHash(credit[r].clientAgent)
  /\ CreditActive(r)
  /\ credit[r].status = "Negotiating"

SubmitCounterProposal(r) ==
  /\ MayCounter(r)
  /\ credit' = [credit EXCEPT ![r] =
       [credit[r] EXCEPT !.status = "Pending", !.terms = "countered"]]
  /\ UNCHANGED registryVars

MayAcceptTerms(r) ==
  /\ OnlyBankAgent(credit[r].bankAgent, "credit")
  /\ CheckCardHash(credit[r].bankAgent)
  /\ CreditActive(r)
  /\ credit[r].status = "Negotiating"

AcceptTerms(r) ==
  /\ MayAcceptTerms(r)
  /\ credit' = [credit EXCEPT ![r] =
       [credit[r] EXCEPT !.status = "Pending", !.terms = "agreed"]]
  /\ UNCHANGED registryVars

(* Mutant: a recommendation needs agreed terms.                            *)
CreditMayRecommendOnceAgreed(r) ==
  /\ OnlyBankAgent(credit[r].bankAgent, "credit")
  /\ CheckCardHash(credit[r].bankAgent)
  /\ CreditActive(r)
  /\ credit[r].status = "Pending"
  /\ credit[r].terms = "agreed"

CreditMayRecommend(r) ==
  /\ OnlyBankAgent(credit[r].bankAgent, "credit")
  /\ CheckCardHash(credit[r].bankAgent)
  /\ CreditActive(r)
  /\ credit[r].status \in {"Pending", "DataRequested"}

CreditSubmitRecommendation(r) ==
  /\ CreditMayRecommend(r)
  /\ credit' = [credit EXCEPT ![r].status = "InHumanReview"]
  /\ UNCHANGED registryVars

CreditEscalate(r) ==
  /\ OnlyBankAgent(credit[r].bankAgent, "credit")
  /\ CreditActive(r)
  /\ credit[r].status = "InHumanReview"
  /\ credit' = [credit EXCEPT ![r].status = "Escalated"]
  /\ UNCHANGED registryVars

(* Mutant: a registry that refuses the call does not revert the approval.  *)
CreditApproveRegardless(r, caller) ==
  /\ CreditUnderReview(r)
  /\ caller # GetAgentWallet(credit[r].bankAgent)
  /\ credit' = [credit EXCEPT ![r].status = "Approved"]
  /\ IF "credit" \in oracles
       THEN SetPhaseComplete("credit", credit[r].flow, "CREDIT_APPROVED")
       ELSE UNCHANGED registryVars

CreditMayApprove(r, caller) ==
  /\ CreditUnderReview(r)
  /\ caller # GetAgentWallet(credit[r].bankAgent)
  /\ MaySetPhase("credit", credit[r].flow)

CreditApprove(r, caller) ==
  /\ CreditMayApprove(r, caller)
  /\ credit' = [credit EXCEPT ![r].status = "Approved"]
  /\ SetPhaseComplete("credit", credit[r].flow, "CREDIT_APPROVED")

CreditReject(r, caller) ==
  /\ CreditUnderReview(r)
  /\ caller # GetAgentWallet(credit[r].bankAgent)
  /\ credit' = [credit EXCEPT ![r].status = "Rejected"]
  /\ Terminate("credit", credit[r].flow)

CreditStep(r) ==
  \/ \E f \in Flows, bank \in Agents, client \in ClientAgents :
       RequestCreditReview(r, f, bank, client)
  \/ CreditRequestClientData(r)
  \/ CreditFulfillDataRequest(r)
  \/ ProposeTerms(r)
  \/ SubmitCounterProposal(r)
  \/ AcceptTerms(r)
  \/ CreditSubmitRecommendation(r)
  \/ CreditEscalate(r)
  \/ \E caller \in Accounts : CreditApprove(r, caller) \/ CreditReject(r, caller)

CreditNext == \E r \in CreditRequests : CreditStep(r)
=============================================================================
