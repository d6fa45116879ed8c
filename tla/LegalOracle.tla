---------------------------- MODULE LegalOracle ----------------------------
(***************************************************************************)
(* The legal review sub-flow (contracts/oracles/LegalOracle.sol): drafts   *)
(* and markups in rounds, then approval by one human of each side, then    *)
(* execution by anyone.  Document hashes are members of Docs; versions[r]  *)
(* is the trail _versionHashes keeps, one document per round.              *)
(***************************************************************************)
EXTENDS AMLOracle, Sequences

CONSTANTS
  LegalRequests,
  Docs,     \* document version hashes
  NoDoc     \* bytes32(0)

ASSUME DocsAssumption == NoDoc \notin Docs /\ Docs # {}

VARIABLES
  legal,    \* _requests
  versions  \* _versionHashes: what issueDraft recorded in rounds 1, 2, ...

legalVars == <<legal, versions>>

(* MarkupSubmitted is declared by the contract and never assigned.         *)
LegalStatus == {"None", "Pending", "DraftIssued", "MarkupSubmitted",
                "InHumanReview", "Escalated", "Executed", "Rejected"}

LegalRecord == [status: LegalStatus, flow: Flows \cup {NoFlow},
                bankAgent: Agents \cup {NoAgent}, clientAgent: Agents \cup {NoAgent},
                round: 0..MaxRound, latest: Docs \cup {NoDoc},
                bankApproved: BOOLEAN, clientApproved: BOOLEAN,
                result: Docs \cup {NoDoc}]

NoLegalRequest == [status |-> "None", flow |-> NoFlow, bankAgent |-> NoAgent,
                   clientAgent |-> NoAgent, round |-> 0, latest |-> NoDoc,
                   bankApproved |-> FALSE, clientApproved |-> FALSE, result |-> NoDoc]

LegalTypeOK ==
  /\ legal \in [LegalRequests -> LegalRecord]
  /\ versions \in [LegalRequests -> Seq(Docs)]

LegalInit ==
  /\ legal = [r \in LegalRequests |-> NoLegalRequest]
  /\ versions = [r \in LegalRequests |-> <<>>]

(* Mutant: the oracle does not ask the registry.                           *)
LegalOpened(r) == legal[r].status # "None"

LegalActive(r) == legal[r].status # "None" /\ IsActive(legal[r].flow)
LegalUnderReview(r) ==
  LegalActive(r) /\ legal[r].status \in {"InHumanReview", "Escalated"}

-----------------------------------------------------------------------------
RequestLegalReview(r, f, bank, client) ==
  /\ OnlyBankAgent(bank, "legal")
  /\ IsActive(f)
  /\ legal[r].status = "None"
  /\ legal' = [legal EXCEPT ![r] =
       [status |-> "Pending", flow |-> f, bankAgent |-> bank, clientAgent |-> client,
        round |-> 0, latest |-> NoDoc, bankApproved |-> FALSE,
        clientApproved |-> FALSE, result |-> NoDoc]]
  /\ UNCHANGED <<versions, registryVars>>

LegalMayRecommend(r) ==
  /\ OnlyBankAgent(legal[r].bankAgent, "legal")
  /\ CheckCardHash(legal[r].bankAgent)
  /\ LegalActive(r)
  /\ legal[r].status = "Pending"

MayIssueDraft(r) == LegalMayRecommend(r) /\ legal[r].round < MaxRound

IssueDraft(r, doc) ==
  /\ MayIssueDraft(r)
  /\ legal' = [legal EXCEPT ![r] =
       [legal[r] EXCEPT !.status = "DraftIssued", !.latest = doc, !.round = @ + 1]]
  /\ versions' = [versions EXCEPT ![r] = Append(@, doc)]
  /\ UNCHANGED registryVars

MaySubmitMarkup(r) ==
  /\ OnlyClientAgent(legal[r].clientAgent)
  /\ CheckCardHash(legal[r].clientAgent)
  /\ LegalActive(r)
  /\ legal[r].status = "DraftIssued"

SubmitMarkup(r, doc) ==
  /\ MaySubmitMarkup(r)
  /\ legal' = [legal EXCEPT ![r] = [legal[r] EXCEPT !.status = "Pending", !.latest = doc]]
  /\ UNCHANGED <<versions, registryVars>>

(* Mutant: a recommendation may be replaced while humans sign it.          *)
LegalResubmitRecommendation(r, finalHash) ==
  /\ OnlyBankAgent(legal[r].bankAgent, "legal")
  /\ CheckCardHash(legal[r].bankAgent)
  /\ LegalActive(r)
  /\ legal[r].status \in {"Pending", "InHumanReview"}
  /\ legal' = [legal EXCEPT ![r] =
       [legal[r] EXCEPT !.status = "InHumanReview", !.latest = finalHash]]
  /\ UNCHANGED <<versions, registryVars>>

(* finalHash is whatever the agent passes: it need not be a version either
   side has seen.                                                          *)
LegalSubmitRecommendation(r, finalHash) ==
  /\ LegalMayRecommend(r)
  /\ legal' = [legal EXCEPT ![r] =
       [legal[r] EXCEPT !.status = "InHumanReview", !.latest = finalHash]]
  /\ UNCHANGED <<versions, registryVars>>

LegalEscalate(r) ==
  /\ OnlyBankAgent(legal[r].bankAgent, "legal")
  /\ LegalActive(r)
  /\ legal[r].status = "InHumanReview"
  /\ legal' = [legal EXCEPT ![r].status = "Escalated"]
  /\ UNCHANGED <<versions, registryVars>>

MayApproveBankSide(r, caller) ==
  /\ LegalUnderReview(r)
  /\ caller # GetAgentWallet(legal[r].bankAgent)
  /\ ~legal[r].bankApproved

ApproveBankSide(r, caller) ==
  /\ MayApproveBankSide(r, caller)
  /\ legal' = [legal EXCEPT ![r].bankApproved = TRUE]
  /\ UNCHANGED <<versions, registryVars>>

MayApproveClientSide(r, caller) ==
  /\ LegalUnderReview(r)
  /\ caller # GetAgentWallet(legal[r].clientAgent)
  /\ ~legal[r].clientApproved

ApproveClientSide(r, caller) ==
  /\ MayApproveClientSide(r, caller)
  /\ legal' = [legal EXCEPT ![r].clientApproved = TRUE]
  /\ UNCHANGED <<versions, registryVars>>

MayExecute(r) ==
  /\ LegalUnderReview(r)
  /\ legal[r].bankApproved
  /\ legal[r].clientApproved
  /\ MaySetPhase("legal", legal[r].flow)

Execute(r) ==
  /\ MayExecute(r)
  /\ legal' = [legal EXCEPT ![r] =
       [legal[r] EXCEPT !.status = "Executed", !.result = legal[r].latest]]
  /\ UNCHANGED versions
  /\ SetPhaseComplete("legal", legal[r].flow, "LEGAL_EXECUTED")

LegalReject(r, caller) ==
  /\ LegalUnderReview(r)
  /\ caller # GetAgentWallet(legal[r].bankAgent)
  /\ legal' = [legal EXCEPT ![r].status = "Rejected"]
  /\ UNCHANGED versions
  /\ Terminate("legal", legal[r].flow)

LegalStep(r) ==
  \/ \E f \in Flows, bank \in Agents, client \in ClientAgents :
       RequestLegalReview(r, f, bank, client)
  \/ \E doc \in Docs : IssueDraft(r, doc)
  \/ \E doc \in Docs : SubmitMarkup(r, doc)
  \/ \E doc \in Docs : LegalSubmitRecommendation(r, doc)
  \/ LegalEscalate(r)
  \/ \E caller \in Accounts : ApproveBankSide(r, caller)
  \/ \E caller \in Accounts : ApproveClientSide(r, caller)
  \/ Execute(r)
  \/ \E caller \in Accounts : LegalReject(r, caller)

LegalNext == \E r \in LegalRequests : LegalStep(r)
=============================================================================
