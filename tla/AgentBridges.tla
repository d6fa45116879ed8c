---------------------------- MODULE AgentBridges ----------------------------
(***************************************************************************)
(* The onboarding contracts driven by the processes that really call them: *)
(* seven agent bridges, the orchestrator that opens a flow, and the human  *)
(* approvers.  A bridge polls the chain for events, hands each event to a  *)
(* task of its own, asks its MCP server what to do and sends one           *)
(* transaction.  Nothing is retried: a call that fails or reverts is       *)
(* logged and the event is gone, and so are the events a bridge misses     *)
(* while it is down, because its filters start at the latest block.        *)
(*                                                                         *)
(* "work" holds those tasks: what was heard, about which request or flow,  *)
(* and the call the MCP server's answer asks for, once there is one.       *)
(***************************************************************************)
EXTENDS OnboardingSystem

CONSTANTS
  BankDesk,    \* the agent each bridge of the bank runs as
  ClientDesk,  \* the agents of the client the orchestrator names in a request
  Interface,   \* the calls the bridges encode the way the contracts declare them
  MaxFaults    \* a model bound: failed calls, denied preflights and crashes

VARIABLES
  work,        \* the tasks of the bridges
  up,          \* the bridge processes that are running
  faults       \* how many faults have happened

bridgeVars == <<work, up, faults>>
bvars == <<vars, bridgeVars>>

Bridges == {"aml_bridge", "credit_risk_bridge", "legal_bridge", "client_setup_bridge",
            "hf_document_bridge", "hf_credit_negotiator_bridge", "hf_legal_bridge",
            "onboarding_orchestrator_bridge"}

ASSUME DesksAssumption ==
  /\ BankDesk \in [{"aml", "credit", "legal", "setup"} -> Agents]
  /\ ClientDesk \in [{"aml", "credit", "legal"} -> ClientAgents]
  /\ MaxFaults \in Nat

(* What the contract interfaces let a bridge hear and call.  The registry's
   one event is PhaseCompleted; the task keeps its phase.                  *)
AMLEvents == {"AMLReviewRequested", "DataRequested", "DataFulfilled"}
CreditEvents == {"CreditReviewRequested", "DataRequested", "DataFulfilled",
                 "TermsProposed", "CounterProposed"}
LegalEvents == {"LegalReviewRequested", "DraftIssued", "MarkupSubmitted"}

AMLCalls == {"requestAMLReview", "requestClientData", "fulfillDataRequest",
             "submitRecommendation"}
CreditCalls == {"requestCreditReview", "requestClientData", "fulfillDataRequest",
                "proposeTerms", "acceptTerms", "submitCounterProposal",
                "submitRecommendation"}
LegalCalls == {"requestLegalReview", "issueDraft", "submitMarkup", "submitRecommendation"}
SetupCalls == {"setupLegalEntity", "setupAccount", "setupProducts"}

Calls == AMLCalls \cup CreditCalls \cup LegalCalls \cup SetupCalls

(* The interface abis.py really gives the bridges.  It leaves out the card *)
(* hash that the contracts take as a fourth argument of every call that    *)
(* hands something in, so that those calls name functions that do not      *)
(* exist and revert; acceptTerms among them.                               *)
AbisInterface == {"requestAMLReview", "requestCreditReview", "requestLegalReview",
                  "requestClientData"}

ASSUME InterfaceAssumption == Interface \subseteq Calls

Unanswered == "unanswered"

Tasks ==
  [oracle: {"aml"}, event: AMLEvents, of: AMLRequests, call: AMLCalls \cup {Unanswered}]
    \cup [oracle: {"credit"}, event: CreditEvents, of: CreditRequests,
          call: CreditCalls \cup {Unanswered}]
    \cup [oracle: {"legal"}, event: LegalEvents, of: LegalRequests,
          call: LegalCalls \cup {Unanswered}]
    \cup [oracle: {"registry"}, event: AllPhases, of: Flows,
          call: SetupCalls \cup {Unanswered}]
    \cup [oracle: {"initiate"}, event: {"initiateOnboarding"}, of: Flows,
          call: {"requestAMLReview", "requestCreditReview", "requestLegalReview"}]

Heard(oracle, event, of) ==
  [oracle |-> oracle, event |-> event, of |-> of, call |-> Unanswered]

BridgesTypeOK ==
  /\ TypeOK
  /\ work \subseteq Tasks
  /\ up \subseteq Bridges
  /\ faults \in 0..MaxFaults

BridgesInit ==
  /\ Init
  /\ work = {}
  /\ up = Bridges
  /\ faults = 0

-----------------------------------------------------------------------------
(* Who listens to what: the filters each bridge's poll loop creates.  The  *)
(* two legal bridges also hear InHumanReview, and only log it.             *)
AMLBridgeHears(i) ==
  i.oracle = "aml" /\ i.event \in {"AMLReviewRequested", "DataFulfilled"}
CreditBridgeHears(i) ==
  i.oracle = "credit"
    /\ i.event \in {"CreditReviewRequested", "DataFulfilled", "CounterProposed"}
LegalBridgeHears(i) ==
  i.oracle = "legal" /\ i.event \in {"LegalReviewRequested", "MarkupSubmitted"}
SetupBridgeHears(i) == i.oracle = "registry"
DocumentBridgeHears(i) == i.oracle \in {"aml", "credit"} /\ i.event = "DataRequested"
NegotiatorBridgeHears(i) == i.oracle = "credit" /\ i.event = "TermsProposed"
ClientLegalBridgeHears(i) == i.oracle = "legal" /\ i.event = "DraftIssued"

Listener(i) ==
  CASE AMLBridgeHears(i) -> "aml_bridge"
    [] CreditBridgeHears(i) -> "credit_risk_bridge"
    [] LegalBridgeHears(i) -> "legal_bridge"
    [] SetupBridgeHears(i) -> "client_setup_bridge"
    [] DocumentBridgeHears(i) -> "hf_document_bridge"
    [] NegotiatorBridgeHears(i) -> "hf_credit_negotiator_bridge"
    [] ClientLegalBridgeHears(i) -> "hf_legal_bridge"
    [] OTHER -> "onboarding_orchestrator_bridge"

(* Mutant: the handler does not let go of a task it has finished.          *)
EmitKeepingTask(done, events) ==
  work' = work \cup {e \in events : Listener(e) \in up}

(* The tasks after i is done and a transaction emitted these events: only  *)
(* a running process hears them.                                           *)
Emit(done, events) ==
  work' = (work \ done) \cup {e \in events : Listener(e) \in up}

-----------------------------------------------------------------------------
(* What the MCP servers may answer: the call the bridge then makes.        *)
ScreenClient == {"requestClientData", "submitRecommendation"}
ContinueScreening == {"requestClientData", "submitRecommendation"}
AssessCredit == {"requestClientData", "proposeTerms", "submitRecommendation"}
ContinueAssessment == {"requestClientData", "proposeTerms", "acceptTerms",
                       "submitRecommendation"}
IssueInitialDraft == {"issueDraft"}
ReviewMarkupAndRespond == {"issueDraft", "submitRecommendation"}
AssembleDocuments == {"fulfillDataRequest"}
(* The negotiator's decision to accept is sent as a counter-proposal too.  *)
EvaluateTerms == {"submitCounterProposal"}
ReviewDraft == {"submitMarkup"}

Answered(i, calls) ==
  /\ i.call = Unanswered
  /\ \E c \in calls : work' = (work \ {i}) \cup {[i EXCEPT !.call = c]}

(* The handlers up to the answer of the MCP server, one per event.         *)
AMLHandleReviewRequested(i) ==
  AMLBridgeHears(i) /\ i.event = "AMLReviewRequested" /\ Answered(i, ScreenClient)
AMLHandleDataFulfilled(i) ==
  AMLBridgeHears(i) /\ i.event = "DataFulfilled" /\ Answered(i, ContinueScreening)
CreditHandleReviewRequested(i) ==
  CreditBridgeHears(i) /\ i.event = "CreditReviewRequested" /\ Answered(i, AssessCredit)
CreditHandleDataFulfilled(i) ==
  CreditBridgeHears(i) /\ i.event = "DataFulfilled" /\ Answered(i, ContinueAssessment)
CreditHandleCounterProposed(i) ==
  CreditBridgeHears(i) /\ i.event = "CounterProposed" /\ Answered(i, ContinueAssessment)
LegalHandleReviewRequested(i) ==
  LegalBridgeHears(i) /\ i.event = "LegalReviewRequested" /\ Answered(i, IssueInitialDraft)
LegalHandleMarkupSubmitted(i) ==
  LegalBridgeHears(i) /\ i.event = "MarkupSubmitted" /\ Answered(i, ReviewMarkupAndRespond)
HandleDataRequested(i) == DocumentBridgeHears(i) /\ Answered(i, AssembleDocuments)
(* Mutant: the negotiator sends nothing when it decides to accept.         *)
HandleTermsProposedSilently(i) ==
  /\ NegotiatorBridgeHears(i)
  /\ i.call = Unanswered
  /\ Answered(i, EvaluateTerms) \/ work' = work \ {i}
HandleTermsProposed(i) == NegotiatorBridgeHears(i) /\ Answered(i, EvaluateTerms)
HandleDraftIssued(i) == ClientLegalBridgeHears(i) /\ Answered(i, ReviewDraft)

(* The set-up bridge does not look at the phase it heard of: it reads the  *)
(* bitmask the chain has now, and acts on it after a call to its server.   *)
NextSetupCall(f) ==
  LET done(phase) == phase \in flows[f].phases IN
  IF ReviewsDone(f) /\ ~done("ENTITY_SETUP_DONE") THEN {"setupLegalEntity"}
  ELSE IF done("ENTITY_SETUP_DONE") /\ ~done("ACCOUNT_SETUP_DONE") THEN {"setupAccount"}
  ELSE IF done("ACCOUNT_SETUP_DONE") /\ ~done("PRODUCT_SETUP_DONE") THEN {"setupProducts"}
  ELSE {}

(* Mutant: set-up starts from the last review in the usual order only.     *)
HandlePhaseHeard(i) ==
  /\ SetupBridgeHears(i)
  /\ i.call = Unanswered
  /\ IF NextSetupCall(i.of) = {} \/ i.event \in {"AML_CLEARED", "CREDIT_APPROVED"}
       THEN work' = work \ {i}
       ELSE Answered(i, NextSetupCall(i.of))

HandlePhaseCompleted(i) ==
  /\ SetupBridgeHears(i)
  /\ i.call = Unanswered
  /\ IF NextSetupCall(i.of) = {}
       THEN work' = work \ {i}
       ELSE Answered(i, NextSetupCall(i.of))

Handle(i) ==
  /\ \/ AMLHandleReviewRequested(i) \/ AMLHandleDataFulfilled(i)
     \/ CreditHandleReviewRequested(i) \/ CreditHandleDataFulfilled(i)
     \/ CreditHandleCounterProposed(i)
     \/ LegalHandleReviewRequested(i) \/ LegalHandleMarkupSubmitted(i)
     \/ HandleDataRequested(i) \/ HandleTermsProposed(i) \/ HandleDraftIssued(i)
     \/ HandlePhaseCompleted(i)
  /\ UNCHANGED <<vars, up, faults>>

-----------------------------------------------------------------------------
(* The transaction a task ends with, and the events it emits.              *)
AMLCall(i) ==
  /\ i.oracle = "aml"
  /\ \/ /\ i.call = "requestClientData" /\ AMLRequestClientData(i.of)
        /\ Emit({i}, {Heard("aml", "DataRequested", i.of)})
     \/ /\ i.call = "fulfillDataRequest" /\ AMLFulfillDataRequest(i.of)
        /\ Emit({i}, {Heard("aml", "DataFulfilled", i.of)})
     \/ /\ i.call = "submitRecommendation" /\ AMLSubmitRecommendation(i.of)
        /\ Emit({i}, {})
  /\ UNCHANGED <<identityVars, credit, legalVars>>

(* An accepted offer is followed by a second transaction of the same task. *)
CreditCall(i) ==
  /\ i.oracle = "credit"
  /\ \/ /\ i.call = "requestClientData" /\ CreditRequestClientData(i.of)
        /\ Emit({i}, {Heard("credit", "DataRequested", i.of)})
     \/ /\ i.call = "fulfillDataRequest" /\ CreditFulfillDataRequest(i.of)
        /\ Emit({i}, {Heard("credit", "DataFulfilled", i.of)})
     \/ /\ i.call = "proposeTerms" /\ ProposeTerms(i.of)
        /\ Emit({i}, {Heard("credit", "TermsProposed", i.of)})
     \/ /\ i.call = "submitCounterProposal" /\ SubmitCounterProposal(i.of)
        /\ Emit({i}, {Heard("credit", "CounterProposed", i.of)})
     \/ /\ i.call = "acceptTerms" /\ AcceptTerms(i.of)
        /\ Emit({i}, {[i EXCEPT !.call = "submitRecommendation"]})
     \/ /\ i.call = "submitRecommendation" /\ CreditSubmitRecommendation(i.of)
        /\ Emit({i}, {})
  /\ UNCHANGED <<identityVars, aml, legalVars>>

LegalCall(i) ==
  /\ i.oracle = "legal"
  /\ \E doc \in Docs :
       \/ /\ i.call = "issueDraft" /\ IssueDraft(i.of, doc)
          /\ Emit({i}, {Heard("legal", "DraftIssued", i.of)})
       \/ /\ i.call = "submitMarkup" /\ SubmitMarkup(i.of, doc)
          /\ Emit({i}, {Heard("legal", "MarkupSubmitted", i.of)})
       \/ /\ i.call = "submitRecommendation" /\ LegalSubmitRecommendation(i.of, doc)
          /\ Emit({i}, {})
  /\ UNCHANGED <<identityVars, aml, credit>>

SetupCall(i) ==
  /\ i.oracle = "registry"
  /\ \/ /\ i.call = "setupLegalEntity" /\ SetupLegalEntity(i.of, BankDesk["setup"])
        /\ Emit({i}, {Heard("registry", "ENTITY_SETUP_DONE", i.of)})
     \/ /\ i.call = "setupAccount" /\ SetupAccount(i.of, BankDesk["setup"])
        /\ Emit({i}, {Heard("registry", "ACCOUNT_SETUP_DONE", i.of)})
     \/ /\ i.call = "setupProducts" /\ SetupProducts(i.of, BankDesk["setup"])
        /\ Emit({i}, {Heard("registry", "PRODUCT_SETUP_DONE", i.of)})
  /\ UNCHANGED <<identityVars, aml, credit, legalVars>>

(* POST /initiate opens the flow; the initiate node then opens the three
   reviews with three concurrent transactions.                             *)
OpenReview(i) ==
  /\ i.oracle = "initiate"
  /\ \/ \E r \in AMLRequests :
          /\ i.call = "requestAMLReview"
          /\ RequestAMLReview(r, i.of, BankDesk["aml"], ClientDesk["aml"])
          /\ Emit({i}, {Heard("aml", "AMLReviewRequested", r)})
          /\ UNCHANGED <<credit, legalVars>>
     \/ \E r \in CreditRequests :
          /\ i.call = "requestCreditReview"
          /\ RequestCreditReview(r, i.of, BankDesk["credit"], ClientDesk["credit"])
          /\ Emit({i}, {Heard("credit", "CreditReviewRequested", r)})
          /\ UNCHANGED <<aml, legalVars>>
     \/ \E r \in LegalRequests :
          /\ i.call = "requestLegalReview"
          /\ RequestLegalReview(r, i.of, BankDesk["legal"], ClientDesk["legal"])
          /\ Emit({i}, {Heard("legal", "LegalReviewRequested", r)})
          /\ UNCHANGED <<aml, credit>>
  /\ UNCHANGED identityVars

Initiate(f) ==
  /\ "onboarding_orchestrator_bridge" \in up
  /\ InitiateOnboarding(f)
  /\ work' = work \cup
       [oracle: {"initiate"}, event: {"initiateOnboarding"}, of: {f},
        call: {"requestAMLReview", "requestCreditReview", "requestLegalReview"}]
  /\ UNCHANGED <<identityVars, aml, credit, legalVars, up, faults>>

Call(i) ==
  /\ i.call \in Interface
  /\ AMLCall(i) \/ CreditCall(i) \/ LegalCall(i) \/ SetupCall(i) \/ OpenReview(i)
  /\ UNCHANGED <<up, faults>>

(* What the contracts require of the call a task is left with.             *)
AMLTakes(call, r) ==
  \/ call = "requestClientData" /\ AMLMayRequestData(r)
  \/ call = "fulfillDataRequest" /\ AMLMayFulfill(r)
  \/ call = "submitRecommendation" /\ AMLMayRecommend(r)

CreditTakes(call, r) ==
  \/ call = "requestClientData" /\ CreditMayRequestData(r)
  \/ call = "fulfillDataRequest" /\ CreditMayFulfill(r)
  \/ call = "proposeTerms" /\ MayProposeTerms(r)
  \/ call = "submitCounterProposal" /\ MayCounter(r)
  \/ call = "acceptTerms" /\ MayAcceptTerms(r)
  \/ call = "submitRecommendation" /\ CreditMayRecommend(r)

LegalTakes(call, r) ==
  \/ call = "issueDraft" /\ MayIssueDraft(r)
  \/ call = "submitMarkup" /\ MaySubmitMarkup(r)
  \/ call = "submitRecommendation" /\ LegalMayRecommend(r)

SetupTakes(call, f) ==
  \/ call = "setupLegalEntity" /\ MaySetUpEntity(f, BankDesk["setup"])
  \/ call = "setupAccount" /\ MaySetUpAccount(f, BankDesk["setup"])
  \/ call = "setupProducts" /\ MaySetUpProducts(f, BankDesk["setup"])

ReviewTakes(call, f) ==
  /\ IsActive(f)
  /\ \/ /\ call = "requestAMLReview" /\ OnlyBankAgent(BankDesk["aml"], "aml")
        /\ \E r \in AMLRequests : aml[r].status = "None"
     \/ /\ call = "requestCreditReview" /\ OnlyBankAgent(BankDesk["credit"], "credit")
        /\ \E r \in CreditRequests : credit[r].status = "None"
     \/ /\ call = "requestLegalReview" /\ OnlyBankAgent(BankDesk["legal"], "legal")
        /\ \E r \in LegalRequests : legal[r].status = "None"

Taken(i) ==
  /\ i.call \in Interface
  /\ \/ i.oracle = "aml" /\ AMLTakes(i.call, i.of)
     \/ i.oracle = "credit" /\ CreditTakes(i.call, i.of)
     \/ i.oracle = "legal" /\ LegalTakes(i.call, i.of)
     \/ i.oracle = "registry" /\ SetupTakes(i.call, i.of)
     \/ i.oracle = "initiate" /\ ReviewTakes(i.call, i.of)

(* Mutant: a reverted transaction is sent again for ever.                  *)
RevertAndRetry(i) ==
  /\ i.call # Unanswered
  /\ ~Taken(i)
  /\ UNCHANGED bvars

(* The contract refuses the call: the handler's except branch logs it and
   nobody hears of the request again.                                      *)
Revert(i) ==
  /\ i.call # Unanswered
  /\ ~Taken(i)
  /\ work' = work \ {i}
  /\ UNCHANGED <<vars, up, faults>>

(* A denied preflight, a suspended tool, a model or a server that does not
   answer, or a node that does not take the transaction: the task ends.    *)
Drop(i) ==
  /\ faults < MaxFaults
  /\ work' = work \ {i}
  /\ faults' = faults + 1
  /\ UNCHANGED <<vars, up>>

(* A bridge process ends, and its tasks and the filters it polls with it;
   the launcher starts no new one, an operator may.                        *)
Crash(b) ==
  /\ faults < MaxFaults
  /\ b \in up
  /\ up' = up \ {b}
  /\ work' = {i \in work : Listener(i) # b}
  /\ faults' = faults + 1
  /\ UNCHANGED vars

Restart(b) ==
  /\ b \notin up
  /\ up' = up \cup {b}
  /\ UNCHANGED <<vars, work, faults>>

(* The human approvers of both sides.                                      *)
Approve(human) ==
  \/ \E r \in AMLRequests :
       /\ AMLClear(r, human)
       /\ Emit({}, {Heard("registry", "AML_CLEARED", aml[r].flow)})
       /\ UNCHANGED <<credit, legalVars>>
  \/ \E r \in CreditRequests :
       /\ CreditApprove(r, human)
       /\ Emit({}, {Heard("registry", "CREDIT_APPROVED", credit[r].flow)})
       /\ UNCHANGED <<aml, legalVars>>
  \/ \E r \in LegalRequests :
       /\ Execute(r)
       /\ Emit({}, {Heard("registry", "LEGAL_EXECUTED", legal[r].flow)})
       /\ UNCHANGED <<aml, credit>>
  \/ \E r \in LegalRequests :
       /\ ApproveBankSide(r, human) \/ ApproveClientSide(r, human)
       /\ UNCHANGED <<aml, credit, work>>

Refuse(human) ==
  /\ \/ \E r \in AMLRequests : AMLReject(r, human) /\ UNCHANGED <<credit, legalVars>>
     \/ \E r \in CreditRequests : CreditReject(r, human) /\ UNCHANGED <<aml, legalVars>>
     \/ \E r \in LegalRequests : LegalReject(r, human) /\ UNCHANGED <<aml, credit>>
  /\ UNCHANGED work

HumanStep ==
  /\ \E human \in Humans : Approve(human) \/ Refuse(human)
  /\ UNCHANGED <<identityVars, up, faults>>

BridgeStep == \E i \in work : Handle(i) \/ Call(i) \/ Revert(i)

BridgedNext ==
  \/ \E f \in Flows : Initiate(f)
  \/ BridgeStep
  \/ HumanStep
  \/ \E i \in work : Drop(i)
  \/ \E b \in Bridges : Crash(b) \/ Restart(b)

BridgedSpec == BridgesInit /\ [][BridgedNext]_bvars

(* The poll loops run for ever and every task is a coroutine of its own;   *)
(* the approvers decide what is put before them.  Nothing makes an         *)
(* operator open a flow or restart a process.                              *)
FairBridgedSpec == BridgedSpec /\ WF_bvars(BridgeStep) /\ WF_bvars(HumanStep)

-----------------------------------------------------------------------------
(* The task that has to move a request on, by the status the request has.  *)
AMLTasks(r) == {i \in work : i.oracle = "aml" /\ i.of = r}
CreditTasks(r) == {i \in work : i.oracle = "credit" /\ i.of = r}
LegalTasks(r) == {i \in work : i.oracle = "legal" /\ i.of = r}

(* Handing a request from bridge to bridge through events duplicates no    *)
(* work, whatever crashes: a request has at most one task, the task is one *)
(* of the side whose turn it is on the chain, and none at all while humans *)
(* decide.  So two answers of the models never race for one request.       *)
OneDriver ==
  /\ \A r \in AMLRequests, i, j \in work :
       {i, j} \subseteq AMLTasks(r) /\ AMLActive(r) =>
         i = j /\ aml[r].status = IF DocumentBridgeHears(i) THEN "DataRequested"
                                                             ELSE "Pending"
  /\ \A r \in CreditRequests, i, j \in work :
       {i, j} \subseteq CreditTasks(r) /\ CreditActive(r) =>
         i = j /\ credit[r].status = CASE DocumentBridgeHears(i) -> "DataRequested"
                                       [] NegotiatorBridgeHears(i) -> "Negotiating"
                                       [] OTHER -> "Pending"
  /\ \A r \in LegalRequests, i, j \in work :
       {i, j} \subseteq LegalTasks(r) /\ LegalActive(r) =>
         i = j /\ legal[r].status = IF ClientLegalBridgeHears(i) THEN "DraftIssued"
                                                                 ELSE "Pending"

(* The requests on a flow that no task will move, with no human asked.     *)
Abandoned(f) ==
  \/ \E r \in AMLRequests : aml[r].flow = f /\ AMLTasks(r) = {}
                              /\ aml[r].status \in {"Pending", "DataRequested"}
  \/ \E r \in CreditRequests : credit[r].flow = f /\ CreditTasks(r) = {}
                                 /\ credit[r].status \in {"Pending", "DataRequested",
                                                          "Negotiating"}
  \/ \E r \in LegalRequests : legal[r].flow = f /\ LegalTasks(r) = {}
                                /\ legal[r].status \in {"Pending", "DraftIssued"}

(* design/onboarding.flow.md:205 says of submitRecommendation that the AML *)
(* agent calls it and the review goes "-> InHumanReview"; aml_bridge.py:9  *)
(* names the same call as what a finished screening leads to.              *)
ScreeningReachesHumans ==
  \A i \in work :
    /\ i.oracle = "aml" /\ i.call = "submitRecommendation"
    /\ AMLActive(i.of) /\ aml[i.of].status = "Pending"
    => Taken(i)

(* The answers the bridges cannot all send: their interface leaves out one.*)
Unencoded(calls) == ~(calls \subseteq Interface)

(* The reasons the bridges have to let go of a request: it has used up a   *)
(* round counter, so that the call the model asked for reverts; the credit *)
(* model answered accept_terms, which it can from the first data or        *)
(* counter-offer on and which always reverts, because acceptTerms() wants  *)
(* the status Negotiating and the bank's bridge only ever holds the request*)
(* when it is Pending; or a call the server may answer with is not encoded *)
(* the way the contract declares it, which reverts too.                    *)
AMLLetGo(r) ==
  \/ /\ aml[r].status = "Pending"
     /\ aml[r].dataRound = MaxRound \/ Unencoded(ScreenClient)
  \/ aml[r].status = "DataRequested" /\ Unencoded(AssembleDocuments)

CreditLetGo(r) ==
  \/ /\ credit[r].status = "Pending"
     /\ \/ credit[r].dataRound > 0 \/ credit[r].terms = "countered"
        \/ Unencoded(AssessCredit)
  \/ credit[r].status = "DataRequested" /\ Unencoded(AssembleDocuments)
  \/ credit[r].status = "Negotiating" /\ Unencoded(EvaluateTerms)

LegalLetGo(r) ==
  \/ /\ legal[r].status = "Pending"
     /\ legal[r].round = MaxRound \/ Unencoded(ReviewMarkupAndRespond)
  \/ legal[r].status = "DraftIssued" /\ Unencoded(ReviewDraft)

(* While no fault has happened, the bridges abandon a request for these    *)
(* reasons only.                                                           *)
AbandonedOnlyByRounds ==
  faults = 0 =>
    /\ \A r \in AMLRequests :
         AMLActive(r) /\ aml[r].status \in {"Pending", "DataRequested"} /\ AMLTasks(r) = {}
         => AMLLetGo(r)
    /\ \A r \in CreditRequests :
         /\ CreditActive(r) /\ CreditTasks(r) = {}
         /\ credit[r].status \in {"Pending", "DataRequested", "Negotiating"}
         => CreditLetGo(r)
    /\ \A r \in LegalRequests :
         LegalActive(r) /\ legal[r].status \in {"Pending", "DraftIssued"} /\ LegalTasks(r) = {}
         => LegalLetGo(r)

(* Set-up is never left half done: as long as nothing failed, a live flow  *)
(* that passed its reviews and is not ready yet has a task at the set-up   *)
(* bridge that will look at it again, although every task acts on a        *)
(* bitmask it read before its call to the server; unless the interface     *)
(* leaves out the very call that is due.                                   *)
SetupDriven ==
  faults = 0 =>
    \A f \in Flows :
      IsActive(f) /\ ReviewsDone(f) /\ flows[f].phases # AllPhases
        => \/ \E i \in work : SetupBridgeHears(i) /\ i.of = f
           \/ Unencoded(NextSetupCall(f))

(* A flow that was opened comes to an end: it is terminated or ready, or   *)
(* something went wrong that is never retried, a fault or a request the    *)
(* bridges abandoned.                                                      *)
FlowSettles ==
  \A f \in Flows :
    flows[f].created ~> \/ flows[f].terminated \/ flows[f].phases = AllPhases
                        \/ faults > 0 \/ Abandoned(f)
=============================================================================
