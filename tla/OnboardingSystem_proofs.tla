----------------------- MODULE OnboardingSystem_proofs -----------------------
(***************************************************************************)
(* Theorems of OnboardingSystem, for any number of flows, requests, agents *)
(* and documents and any round limit: the types; that the registry's flow  *)
(* records and the decisions in the three oracles never disagree; that a   *)
(* terminated flow and a signed text are frozen; that OnboardingSystem     *)
(* implements OnboardingFlow; and that every transaction uses up some of   *)
(* what a flow may still do.                                               *)
(***************************************************************************)
EXTENDS OnboardingSystem, FiniteSetTheorems, TLAPS

USE DEF registryVars, identityVars, legalVars

(* What a call requires is always part of what it does.                    *)
USE DEF AMLMayRequestData, AMLMayFulfill, AMLMayRecommend, AMLMayClear,
        CreditMayRequestData, CreditMayFulfill, MayProposeTerms, MayCounter,
        MayAcceptTerms, CreditMayRecommend, CreditMayApprove,
        MayIssueDraft, MaySubmitMarkup, LegalMayRecommend, MayApproveBankSide,
        MayApproveClientSide, MayExecute,
        MaySetPhase, MaySetUp, MaySetUpEntity, MaySetUpAccount, MaySetUpProducts

-----------------------------------------------------------------------------
(* Type correctness.  The calls into the registry are typed because a      *)
(* request that was opened names a flow, which is why Linked goes along.   *)

LEMMA RegistryCallsTyped ==
  ASSUME RegistryTypeOK, NEW o \in Callers, NEW f \in Flows
  PROVE  /\ \A phase \in AllPhases : SetPhaseComplete(o, f, phase) => RegistryTypeOK'
         /\ Terminate(o, f) => RegistryTypeOK'
<1>1. ASSUME NEW phase \in AllPhases, SetPhaseComplete(o, f, phase)
      PROVE  RegistryTypeOK'
  <2>1. flows' \in [Flows -> FlowRecord]
    BY <1>1 DEF RegistryTypeOK, SetPhaseComplete, FlowRecord
  <2>2. ready' \in [Flows -> Nat]
    BY <1>1 DEF RegistryTypeOK, SetPhaseComplete
  <2> QED BY <1>1, <2>1, <2>2 DEF RegistryTypeOK, SetPhaseComplete
<1>2. ASSUME Terminate(o, f) PROVE RegistryTypeOK'
  BY <1>2 DEF RegistryTypeOK, Terminate, FlowRecord
<1> QED BY <1>1, <1>2

LEMMA RegistryNextTyped ==
  ASSUME RegistryTypeOK, RegistryNext PROVE RegistryTypeOK'
<1>1. ASSUME NEW f \in Flows, InitiateOnboarding(f) PROVE RegistryTypeOK'
  BY <1>1 DEF RegistryTypeOK, InitiateOnboarding, FlowRecord, NoRecord
<1>2. ASSUME NEW o \in Revocable, NEW enabled \in BOOLEAN, SetOracle(o, enabled)
      PROVE  RegistryTypeOK'
  BY <1>2, RevocableAssumption DEF RegistryTypeOK, SetOracle
<1> QED BY <1>1, <1>2 DEF RegistryNext

LEMMA IdentityNextTyped ==
  ASSUME IdentityTypeOK, IdentityNext PROVE IdentityTypeOK'
<1> SUFFICES ASSUME NEW a \in Rotating,
                    \/ SetAgentWallet(a)
                    \/ UnsetAgentWallet(a)
                    \/ TransferAgent(a)
                    \/ \E oracle \in Oracles \cup {NoOracle} : SetOracleAddress(a, oracle)
                    \/ \E matches \in BOOLEAN : SetCardHash(a, matches)
             PROVE  IdentityTypeOK'
  BY DEF IdentityNext
<1> a \in Agents BY AgentsAssumption
<1> QED
  BY DEF IdentityTypeOK, SetAgentWallet, UnsetAgentWallet, TransferAgent,
         SetOracleAddress, SetCardHash

LEMMA AMLStepTyped ==
  ASSUME aml \in [AMLRequests -> AMLRecord], NEW r \in AMLRequests, AMLStep(r)
  PROVE  aml' \in [AMLRequests -> AMLRecord]
<1>0. aml[r] \in AMLRecord OBVIOUS
<1>1. ASSUME NEW f \in Flows, NEW bank \in Agents, NEW client \in ClientAgents,
             RequestAMLReview(r, f, bank, client)
      PROVE  aml' \in [AMLRequests -> AMLRecord]
  BY <1>1, ClientAgentsAssumption, MaxRoundAssumption
     DEF RequestAMLReview, AMLRecord, AMLStatus
<1>2. CASE AMLRequestClientData(r)
  <2>1. aml[r].dataRound + 1 \in 0..MaxRound
    BY <1>0, <1>2, MaxRoundAssumption DEF AMLRequestClientData, AMLRecord
  <2> DEFINE new == [aml[r] EXCEPT !.status = "DataRequested", !.dataRound = @ + 1]
  <2>2. new \in AMLRecord
    BY <1>0, <1>2, <2>1 DEF AMLRecord, AMLStatus
  <2>3. aml' = [aml EXCEPT ![r] = new] BY <1>2 DEF AMLRequestClientData
  <2> HIDE DEF new
  <2> QED BY <2>2, <2>3
<1>3. CASE AMLFulfillDataRequest(r)
  BY <1>3 DEF AMLFulfillDataRequest, AMLRecord, AMLStatus
<1>4. CASE AMLSubmitRecommendation(r)
  BY <1>4 DEF AMLSubmitRecommendation, AMLRecord, AMLStatus
<1>5. CASE AMLEscalate(r)
  BY <1>5 DEF AMLEscalate, AMLRecord, AMLStatus
<1>6. ASSUME NEW caller \in Accounts,
             AMLClear(r, caller)
      PROVE  aml' \in [AMLRequests -> AMLRecord]
  BY <1>6 DEF AMLClear, AMLRecord, AMLStatus
<1>7. ASSUME NEW caller \in Accounts,
             AMLReject(r, caller)
      PROVE  aml' \in [AMLRequests -> AMLRecord]
  BY <1>7 DEF AMLReject, AMLRecord, AMLStatus
<1> QED
  BY <1>1, <1>2, <1>3, <1>4, <1>5, <1>6, <1>7 DEF AMLStep

LEMMA AMLStepLinked ==
  ASSUME aml \in [AMLRequests -> AMLRecord], AMLLinked, NEW r \in AMLRequests, AMLStep(r)
  PROVE  AMLLinked'
<1> USE DEF AMLLinked
<1>1. ASSUME NEW f \in Flows, NEW bank \in Agents, NEW client \in ClientAgents,
             RequestAMLReview(r, f, bank, client)
      PROVE  AMLLinked'
  BY <1>1, FlowsAssumption DEF RequestAMLReview
<1>2. CASE AMLRequestClientData(r)
  BY <1>2 DEF AMLRequestClientData
<1>3. CASE AMLFulfillDataRequest(r)
  BY <1>3 DEF AMLFulfillDataRequest
<1>4. CASE AMLSubmitRecommendation(r)
  BY <1>4 DEF AMLSubmitRecommendation
<1>5. CASE AMLEscalate(r)
  BY <1>5 DEF AMLEscalate
<1>6. ASSUME NEW caller \in Accounts,
             AMLClear(r, caller)
      PROVE  AMLLinked'
  BY <1>6 DEF AMLClear, AMLUnderReview, AMLActive
<1>7. ASSUME NEW caller \in Accounts,
             AMLReject(r, caller)
      PROVE  AMLLinked'
  BY <1>7 DEF AMLReject, AMLUnderReview, AMLActive
<1> QED
  BY <1>1, <1>2, <1>3, <1>4, <1>5, <1>6, <1>7 DEF AMLStep

LEMMA AMLStepRegistryTyped ==
  ASSUME RegistryTypeOK, aml \in [AMLRequests -> AMLRecord], AMLLinked,
         NEW r \in AMLRequests, AMLStep(r)
  PROVE  RegistryTypeOK'
<1>1. ASSUME NEW caller \in Accounts,
             AMLClear(r, caller)
      PROVE  RegistryTypeOK'
  <2>1. aml[r].flow \in Flows
    BY <1>1 DEF AMLClear, AMLUnderReview, AMLActive, AMLLinked, AMLRecord
  <2> QED BY <1>1, <2>1, RegistryCallsTyped DEF AMLClear, Callers, AllPhases, ReviewPhases
<1>2. ASSUME NEW caller \in Accounts,
             AMLReject(r, caller)
      PROVE  RegistryTypeOK'
  <2>1. aml[r].flow \in Flows
    BY <1>2 DEF AMLReject, AMLUnderReview, AMLActive, AMLLinked, AMLRecord
  <2> QED BY <1>2, <2>1, RegistryCallsTyped DEF AMLReject, Callers, AllPhases, ReviewPhases
<1>3. CASE UNCHANGED registryVars BY <1>3 DEF RegistryTypeOK
<1> QED
  BY <1>1, <1>2, <1>3
     DEF AMLStep, RequestAMLReview, AMLRequestClientData, AMLFulfillDataRequest,
         AMLSubmitRecommendation, AMLEscalate

LEMMA AMLNextTyped ==
  ASSUME RegistryTypeOK, AMLTypeOK, AMLLinked, AMLNext
  PROVE  RegistryTypeOK' /\ AMLTypeOK' /\ AMLLinked'
  BY AMLStepTyped, AMLStepLinked, AMLStepRegistryTyped DEF AMLNext, AMLTypeOK

LEMMA CreditStepTyped ==
  ASSUME credit \in [CreditRequests -> CreditRecord], NEW r \in CreditRequests, CreditStep(r)
  PROVE  credit' \in [CreditRequests -> CreditRecord]
<1>0. credit[r] \in CreditRecord OBVIOUS
<1>1. ASSUME NEW f \in Flows, NEW bank \in Agents, NEW client \in ClientAgents,
             RequestCreditReview(r, f, bank, client)
      PROVE  credit' \in [CreditRequests -> CreditRecord]
  BY <1>1, ClientAgentsAssumption, MaxRoundAssumption
     DEF RequestCreditReview, CreditRecord, CreditStatus, Terms
<1>2. CASE CreditRequestClientData(r)
  <2>1. credit[r].dataRound + 1 \in 0..MaxRound
    BY <1>0, <1>2, MaxRoundAssumption DEF CreditRequestClientData, CreditRecord
  <2> DEFINE new == [credit[r] EXCEPT !.status = "DataRequested", !.dataRound = @ + 1]
  <2>2. new \in CreditRecord
    BY <1>0, <1>2, <2>1 DEF CreditRecord, CreditStatus, Terms
  <2>3. credit' = [credit EXCEPT ![r] = new] BY <1>2 DEF CreditRequestClientData
  <2> HIDE DEF new
  <2> QED BY <2>2, <2>3
<1>3. CASE CreditFulfillDataRequest(r)
  BY <1>3 DEF CreditFulfillDataRequest, CreditRecord, CreditStatus, Terms
<1>4. CASE ProposeTerms(r)
  <2>1. credit[r].negotiationRound + 1 \in 0..MaxRound
    BY <1>0, <1>4, MaxRoundAssumption DEF ProposeTerms, CreditRecord
  <2> DEFINE new == [credit[r] EXCEPT !.status = "Negotiating", !.terms = "proposed",
                          !.negotiationRound = @ + 1]
  <2>2. new \in CreditRecord
    BY <1>0, <1>4, <2>1 DEF CreditRecord, CreditStatus, Terms
  <2>3. credit' = [credit EXCEPT ![r] = new] BY <1>4 DEF ProposeTerms
  <2> HIDE DEF new
  <2> QED BY <2>2, <2>3
<1>5. CASE SubmitCounterProposal(r)
  <2>1. [credit[r] EXCEPT !.status = "Pending", !.terms = "countered"] \in CreditRecord
    BY <1>0, <1>5 DEF CreditRecord, CreditStatus, Terms
  <2> QED BY <1>5, <2>1 DEF SubmitCounterProposal
<1>6. CASE AcceptTerms(r)
  <2>1. [credit[r] EXCEPT !.status = "Pending", !.terms = "agreed"] \in CreditRecord
    BY <1>0, <1>6 DEF CreditRecord, CreditStatus, Terms
  <2> QED BY <1>6, <2>1 DEF AcceptTerms
<1>7. CASE CreditSubmitRecommendation(r)
  BY <1>7 DEF CreditSubmitRecommendation, CreditRecord, CreditStatus, Terms
<1>8. CASE CreditEscalate(r)
  BY <1>8 DEF CreditEscalate, CreditRecord, CreditStatus, Terms
<1>9. ASSUME NEW caller \in Accounts,
             CreditApprove(r, caller)
      PROVE  credit' \in [CreditRequests -> CreditRecord]
  BY <1>9 DEF CreditApprove, CreditRecord, CreditStatus, Terms
<1>10. ASSUME NEW caller \in Accounts,
             CreditReject(r, caller)
      PROVE  credit' \in [CreditRequests -> CreditRecord]
  BY <1>10 DEF CreditReject, CreditRecord, CreditStatus, Terms
<1> QED
  BY <1>1, <1>2, <1>3, <1>4, <1>5, <1>6, <1>7, <1>8, <1>9, <1>10 DEF CreditStep

LEMMA CreditStepLinked ==
  ASSUME credit \in [CreditRequests -> CreditRecord], CreditLinked, NEW r \in CreditRequests, CreditStep(r)
  PROVE  CreditLinked'
<1> USE DEF CreditLinked
<1>1. ASSUME NEW f \in Flows, NEW bank \in Agents, NEW client \in ClientAgents,
             RequestCreditReview(r, f, bank, client)
      PROVE  CreditLinked'
  BY <1>1, FlowsAssumption DEF RequestCreditReview
<1>2. CASE CreditRequestClientData(r)
  BY <1>2 DEF CreditRequestClientData
<1>3. CASE CreditFulfillDataRequest(r)
  BY <1>3 DEF CreditFulfillDataRequest
<1>4. CASE ProposeTerms(r)
  BY <1>4 DEF ProposeTerms
<1>5. CASE SubmitCounterProposal(r)
  BY <1>5 DEF SubmitCounterProposal
<1>6. CASE AcceptTerms(r)
  BY <1>6 DEF AcceptTerms
<1>7. CASE CreditSubmitRecommendation(r)
  BY <1>7 DEF CreditSubmitRecommendation
<1>8. CASE CreditEscalate(r)
  BY <1>8 DEF CreditEscalate
<1>9. ASSUME NEW caller \in Accounts,
             CreditApprove(r, caller)
      PROVE  CreditLinked'
  BY <1>9 DEF CreditApprove, CreditUnderReview, CreditActive
<1>10. ASSUME NEW caller \in Accounts,
             CreditReject(r, caller)
      PROVE  CreditLinked'
  BY <1>10 DEF CreditReject, CreditUnderReview, CreditActive
<1> QED
  BY <1>1, <1>2, <1>3, <1>4, <1>5, <1>6, <1>7, <1>8, <1>9, <1>10 DEF CreditStep

LEMMA CreditStepRegistryTyped ==
  ASSUME RegistryTypeOK, credit \in [CreditRequests -> CreditRecord], CreditLinked,
         NEW r \in CreditRequests, CreditStep(r)
  PROVE  RegistryTypeOK'
<1>1. ASSUME NEW caller \in Accounts,
             CreditApprove(r, caller)
      PROVE  RegistryTypeOK'
  <2>1. credit[r].flow \in Flows
    BY <1>1
       DEF CreditApprove, CreditUnderReview, CreditActive, CreditLinked, CreditRecord
  <2> QED BY <1>1, <2>1, RegistryCallsTyped DEF CreditApprove, Callers, AllPhases, ReviewPhases
<1>2. ASSUME NEW caller \in Accounts,
             CreditReject(r, caller)
      PROVE  RegistryTypeOK'
  <2>1. credit[r].flow \in Flows
    BY <1>2
       DEF CreditReject, CreditUnderReview, CreditActive, CreditLinked, CreditRecord
  <2> QED BY <1>2, <2>1, RegistryCallsTyped DEF CreditReject, Callers, AllPhases, ReviewPhases
<1>3. CASE UNCHANGED registryVars BY <1>3 DEF RegistryTypeOK
<1> QED
  BY <1>1, <1>2, <1>3
     DEF CreditStep, RequestCreditReview, CreditRequestClientData,
         CreditFulfillDataRequest, ProposeTerms, SubmitCounterProposal,
         AcceptTerms, CreditSubmitRecommendation, CreditEscalate

LEMMA CreditNextTyped ==
  ASSUME RegistryTypeOK, CreditTypeOK, CreditLinked, CreditNext
  PROVE  RegistryTypeOK' /\ CreditTypeOK' /\ CreditLinked'
  BY CreditStepTyped, CreditStepLinked, CreditStepRegistryTyped
     DEF CreditNext, CreditTypeOK

LEMMA LegalStepTyped ==
  ASSUME legal \in [LegalRequests -> LegalRecord], NEW r \in LegalRequests, LegalStep(r)
  PROVE  legal' \in [LegalRequests -> LegalRecord]
<1>0. legal[r] \in LegalRecord OBVIOUS
<1>1. ASSUME NEW f \in Flows, NEW bank \in Agents, NEW client \in ClientAgents,
             RequestLegalReview(r, f, bank, client)
      PROVE  legal' \in [LegalRequests -> LegalRecord]
  BY <1>1, ClientAgentsAssumption, MaxRoundAssumption
     DEF RequestLegalReview, LegalRecord, LegalStatus
<1>2. ASSUME NEW doc \in Docs,
             IssueDraft(r, doc)
      PROVE  legal' \in [LegalRequests -> LegalRecord]
  <2>1. legal[r].round + 1 \in 0..MaxRound
    BY <1>0, <1>2, MaxRoundAssumption DEF IssueDraft, LegalRecord
  <2> DEFINE new == [legal[r] EXCEPT !.status = "DraftIssued", !.latest = doc, !.round = @ + 1]
  <2>2. new \in LegalRecord
    BY <1>0, <1>2, <2>1 DEF LegalRecord, LegalStatus
  <2>3. legal' = [legal EXCEPT ![r] = new] BY <1>2 DEF IssueDraft
  <2> HIDE DEF new
  <2> QED BY <2>2, <2>3
<1>3. ASSUME NEW doc \in Docs,
             SubmitMarkup(r, doc)
      PROVE  legal' \in [LegalRequests -> LegalRecord]
  <2>1. [legal[r] EXCEPT !.status = "Pending", !.latest = doc] \in LegalRecord
    BY <1>0, <1>3 DEF LegalRecord, LegalStatus
  <2> QED BY <1>3, <2>1 DEF SubmitMarkup
<1>4. ASSUME NEW doc \in Docs,
             LegalSubmitRecommendation(r, doc)
      PROVE  legal' \in [LegalRequests -> LegalRecord]
  <2>1. [legal[r] EXCEPT !.status = "InHumanReview", !.latest = doc] \in LegalRecord
    BY <1>0, <1>4 DEF LegalRecord, LegalStatus
  <2> QED BY <1>4, <2>1 DEF LegalSubmitRecommendation
<1>5. CASE LegalEscalate(r)
  BY <1>5 DEF LegalEscalate, LegalRecord, LegalStatus
<1>6. ASSUME NEW caller \in Accounts,
             ApproveBankSide(r, caller)
      PROVE  legal' \in [LegalRequests -> LegalRecord]
  <2>1. [legal[r] EXCEPT !.bankApproved = TRUE] \in LegalRecord
    BY <1>0, <1>6 DEF LegalRecord, LegalStatus
  <2> QED BY <1>6, <2>1 DEF ApproveBankSide
<1>7. ASSUME NEW caller \in Accounts,
             ApproveClientSide(r, caller)
      PROVE  legal' \in [LegalRequests -> LegalRecord]
  <2>1. [legal[r] EXCEPT !.clientApproved = TRUE] \in LegalRecord
    BY <1>0, <1>7 DEF LegalRecord, LegalStatus
  <2> QED BY <1>7, <2>1 DEF ApproveClientSide
<1>8. CASE Execute(r)
  <2>1. [legal[r] EXCEPT !.status = "Executed", !.result = legal[r].latest] \in LegalRecord
    BY <1>0, <1>8 DEF LegalRecord, LegalStatus
  <2> QED BY <1>8, <2>1 DEF Execute
<1>9. ASSUME NEW caller \in Accounts,
             LegalReject(r, caller)
      PROVE  legal' \in [LegalRequests -> LegalRecord]
  BY <1>9 DEF LegalReject, LegalRecord, LegalStatus
<1> QED
  BY <1>1, <1>2, <1>3, <1>4, <1>5, <1>6, <1>7, <1>8, <1>9 DEF LegalStep

LEMMA LegalStepLinked ==
  ASSUME legal \in [LegalRequests -> LegalRecord], LegalLinked, NEW r \in LegalRequests, LegalStep(r)
  PROVE  LegalLinked'
<1> USE DEF LegalLinked
<1>1. ASSUME NEW f \in Flows, NEW bank \in Agents, NEW client \in ClientAgents,
             RequestLegalReview(r, f, bank, client)
      PROVE  LegalLinked'
  BY <1>1, FlowsAssumption DEF RequestLegalReview
<1>2. ASSUME NEW doc \in Docs,
             IssueDraft(r, doc)
      PROVE  LegalLinked'
  BY <1>2 DEF IssueDraft
<1>3. ASSUME NEW doc \in Docs,
             SubmitMarkup(r, doc)
      PROVE  LegalLinked'
  BY <1>3 DEF SubmitMarkup
<1>4. ASSUME NEW doc \in Docs,
             LegalSubmitRecommendation(r, doc)
      PROVE  LegalLinked'
  BY <1>4 DEF LegalSubmitRecommendation
<1>5. CASE LegalEscalate(r)
  BY <1>5 DEF LegalEscalate
<1>6. ASSUME NEW caller \in Accounts,
             ApproveBankSide(r, caller)
      PROVE  LegalLinked'
  BY <1>6 DEF ApproveBankSide
<1>7. ASSUME NEW caller \in Accounts,
             ApproveClientSide(r, caller)
      PROVE  LegalLinked'
  BY <1>7 DEF ApproveClientSide
<1>8. CASE Execute(r)
  BY <1>8 DEF Execute, LegalUnderReview, LegalActive
<1>9. ASSUME NEW caller \in Accounts,
             LegalReject(r, caller)
      PROVE  LegalLinked'
  BY <1>9 DEF LegalReject, LegalUnderReview, LegalActive
<1> QED
  BY <1>1, <1>2, <1>3, <1>4, <1>5, <1>6, <1>7, <1>8, <1>9 DEF LegalStep

LEMMA LegalStepRegistryTyped ==
  ASSUME RegistryTypeOK, legal \in [LegalRequests -> LegalRecord], LegalLinked,
         NEW r \in LegalRequests, LegalStep(r)
  PROVE  RegistryTypeOK'
<1>1. CASE Execute(r)
  <2>1. legal[r].flow \in Flows
    BY <1>1 DEF Execute, LegalUnderReview, LegalActive, LegalLinked, LegalRecord
  <2> QED BY <1>1, <2>1, RegistryCallsTyped DEF Execute, Callers, AllPhases, ReviewPhases
<1>2. ASSUME NEW caller \in Accounts,
             LegalReject(r, caller)
      PROVE  RegistryTypeOK'
  <2>1. legal[r].flow \in Flows
    BY <1>2 DEF LegalReject, LegalUnderReview, LegalActive, LegalLinked, LegalRecord
  <2> QED BY <1>2, <2>1, RegistryCallsTyped DEF LegalReject, Callers, AllPhases, ReviewPhases
<1>3. CASE UNCHANGED registryVars BY <1>3 DEF RegistryTypeOK
<1> QED
  BY <1>1, <1>2, <1>3
     DEF LegalStep, RequestLegalReview, IssueDraft, SubmitMarkup,
         LegalSubmitRecommendation, LegalEscalate, ApproveBankSide,
         ApproveClientSide

LEMMA LegalStepTrailTyped ==
  ASSUME versions \in [LegalRequests -> Seq(Docs)], NEW r \in LegalRequests, LegalStep(r)
  PROVE  versions' \in [LegalRequests -> Seq(Docs)]
<1>1. ASSUME NEW doc \in Docs, IssueDraft(r, doc)
      PROVE  versions' \in [LegalRequests -> Seq(Docs)]
  BY <1>1 DEF IssueDraft
<1>2. CASE UNCHANGED versions
  BY <1>2
<1> QED
  BY <1>1, <1>2
     DEF LegalStep, RequestLegalReview, SubmitMarkup, LegalSubmitRecommendation,
         LegalEscalate, ApproveBankSide, ApproveClientSide, Execute, LegalReject

LEMMA LegalNextTyped ==
  ASSUME RegistryTypeOK, LegalTypeOK, LegalLinked, LegalNext
  PROVE  RegistryTypeOK' /\ LegalTypeOK' /\ LegalLinked'
<1> PICK r \in LegalRequests : LegalStep(r) BY DEF LegalNext
<1>1. legal \in [LegalRequests -> LegalRecord] /\ versions \in [LegalRequests -> Seq(Docs)]
  BY DEF LegalTypeOK
<1>2. legal' \in [LegalRequests -> LegalRecord] BY <1>1, LegalStepTyped
<1>3. versions' \in [LegalRequests -> Seq(Docs)] BY <1>1, LegalStepTrailTyped
<1>4. LegalLinked' BY <1>1, LegalStepLinked
<1>5. RegistryTypeOK' BY <1>1, LegalStepRegistryTyped
<1> QED BY <1>2, <1>3, <1>4, <1>5 DEF LegalTypeOK

LEMMA SetupNextTyped ==
  ASSUME RegistryTypeOK, SetupNext PROVE RegistryTypeOK'
<1> SUFFICES ASSUME NEW f \in Flows, NEW agent \in Agents, SetupStep(f, agent)
             PROVE  RegistryTypeOK'
  BY DEF SetupNext
<1> QED
  BY RegistryCallsTyped
     DEF SetupStep, SetupLegalEntity, SetupAccount, SetupProducts, Callers, AllPhases,
         SetupPhases

LEMMA InitTyped == Init => TypeOK /\ Linked
<1> SUFFICES ASSUME Init PROVE TypeOK /\ Linked
  OBVIOUS
<1>1. RegistryTypeOK BY DEF Init, RegistryInit, RegistryTypeOK, FlowRecord, NoRecord
<1>2. IdentityTypeOK BY AgentsAssumption DEF Init, IdentityInit, IdentityTypeOK
<1>3. AMLTypeOK /\ AMLLinked
  BY MaxRoundAssumption
     DEF Init, AMLInit, AMLTypeOK, AMLLinked, AMLRecord, AMLStatus, NoAMLRequest
<1>4. CreditTypeOK /\ CreditLinked
  BY MaxRoundAssumption
     DEF Init, CreditInit, CreditTypeOK, CreditLinked, CreditRecord, CreditStatus, Terms,
         NoCreditRequest
<1>5. LegalTypeOK /\ LegalLinked
  BY MaxRoundAssumption
     DEF Init, LegalInit, LegalTypeOK, LegalLinked, LegalRecord, LegalStatus,
         NoLegalRequest
<1> QED BY <1>1, <1>2, <1>3, <1>4, <1>5 DEF TypeOK, Linked

LEMMA NextTyped == TypeOK /\ Linked /\ [Next]_vars => TypeOK' /\ Linked'
<1> SUFFICES ASSUME TypeOK, Linked, [Next]_vars PROVE TypeOK' /\ Linked'
  OBVIOUS
<1> USE DEF TypeOK, Linked
<1>a. UNCHANGED registryVars => RegistryTypeOK' BY DEF RegistryTypeOK
<1>b. UNCHANGED identityVars => IdentityTypeOK' BY DEF IdentityTypeOK
<1>c. UNCHANGED aml => AMLTypeOK' /\ AMLLinked' BY DEF AMLTypeOK, AMLLinked
<1>d. UNCHANGED credit => CreditTypeOK' /\ CreditLinked' BY DEF CreditTypeOK, CreditLinked
<1>e. UNCHANGED legalVars => LegalTypeOK' /\ LegalLinked' BY DEF LegalTypeOK, LegalLinked
<1>1. CASE RegistryNext /\ UNCHANGED <<identityVars, aml, credit, legalVars>>
  BY <1>1, <1>b, <1>c, <1>d, <1>e, RegistryNextTyped
<1>2. CASE IdentityNext /\ UNCHANGED <<registryVars, aml, credit, legalVars>>
  BY <1>2, <1>a, <1>c, <1>d, <1>e, IdentityNextTyped
<1>3. CASE AMLNext /\ UNCHANGED <<identityVars, credit, legalVars>>
  BY <1>3, <1>b, <1>d, <1>e, AMLNextTyped
<1>4. CASE CreditNext /\ UNCHANGED <<identityVars, aml, legalVars>>
  BY <1>4, <1>b, <1>c, <1>e, CreditNextTyped
<1>5. CASE LegalNext /\ UNCHANGED <<identityVars, aml, credit>>
  BY <1>5, <1>b, <1>c, <1>d, LegalNextTyped
<1>6. CASE SetupNext /\ UNCHANGED <<identityVars, aml, credit, legalVars>>
  BY <1>6, <1>b, <1>c, <1>d, <1>e, SetupNextTyped
<1>7. CASE UNCHANGED vars
  BY <1>7, <1>a, <1>b, <1>c, <1>d, <1>e DEF vars
<1> QED BY <1>1, <1>2, <1>3, <1>4, <1>5, <1>6, <1>7 DEF Next

(* Every reachable state of the contracts is typed, and every request that *)
(* was opened names an existing flow.                                      *)
THEOREM TypeCorrect == Spec => [](TypeOK /\ Linked)
  BY InitTyped, NextTyped, PTL DEF Spec

-----------------------------------------------------------------------------
(* What a AML transaction does, seen from the flow: it moves one request    *)
(* and leaves the registry alone, or it decides that request.              *)
AMLQuiet(r) ==
  /\ UNCHANGED registryVars
  /\ aml[r].status \notin {"Cleared", "Rejected"}
  /\ aml'[r].status \notin {"Cleared", "Rejected"}
  /\ aml'[r].flow \in Flows /\ IsActive(aml'[r].flow)
  /\ aml[r].flow \in {NoFlow, aml'[r].flow}

AMLDecides(r, f, verdict) ==
  /\ IsActive(f) /\ aml[r].flow = f /\ aml'[r].flow = f
  /\ aml[r].status \notin {"Cleared", "Rejected"} /\ aml'[r].status = verdict

AMLPass(r, f) ==
  AMLDecides(r, f, "Cleared") /\ SetPhaseComplete("aml", f, "AML_CLEARED")

AMLFail(r, f) == AMLDecides(r, f, "Rejected") /\ Terminate("aml", f)

AMLEffect(r) ==
  /\ \A q \in AMLRequests \ {r} : aml'[q] = aml[q]
  /\ AMLQuiet(r) \/ \E f \in Flows : AMLPass(r, f) \/ AMLFail(r, f)

LEMMA AMLStepEffect ==
  ASSUME aml \in [AMLRequests -> AMLRecord], AMLLinked, NEW r \in AMLRequests, AMLStep(r)
  PROVE  AMLEffect(r)
<1>0. aml[r].flow \in Flows \cup {NoFlow} BY DEF AMLRecord
<1>1. \A q \in AMLRequests \ {r} : aml'[q] = aml[q]
  BY DEF AMLStep, RequestAMLReview, AMLRequestClientData, AMLFulfillDataRequest,
         AMLSubmitRecommendation, AMLEscalate, AMLClear, AMLReject
<1>2. ASSUME NEW f \in Flows, NEW bank \in Agents, NEW client \in ClientAgents,
             RequestAMLReview(r, f, bank, client)
      PROVE  AMLQuiet(r)
  BY <1>0, <1>2 DEF RequestAMLReview, AMLQuiet, AMLActive, AMLLinked, IsActive
<1>3. ASSUME AMLRequestClientData(r) PROVE AMLQuiet(r)
  BY <1>0, <1>3 DEF AMLRequestClientData, AMLQuiet, AMLActive, AMLLinked, IsActive
<1>4. ASSUME AMLFulfillDataRequest(r) PROVE AMLQuiet(r)
  BY <1>0, <1>4 DEF AMLFulfillDataRequest, AMLQuiet, AMLActive, AMLLinked, IsActive
<1>5. ASSUME AMLSubmitRecommendation(r) PROVE AMLQuiet(r)
  BY <1>0, <1>5 DEF AMLSubmitRecommendation, AMLQuiet, AMLActive, AMLLinked, IsActive
<1>6. ASSUME AMLEscalate(r) PROVE AMLQuiet(r)
  BY <1>0, <1>6 DEF AMLEscalate, AMLQuiet, AMLActive, AMLLinked, IsActive
<1>7. ASSUME NEW caller \in Accounts,
             AMLClear(r, caller)
      PROVE  \E f \in Flows : AMLPass(r, f)
  BY <1>0, <1>7
     DEF AMLClear, AMLPass, AMLDecides, AMLUnderReview, AMLActive, AMLLinked, IsActive
<1>8. ASSUME NEW caller \in Accounts,
             AMLReject(r, caller)
      PROVE  \E f \in Flows : AMLFail(r, f)
  BY <1>0, <1>8
     DEF AMLReject, AMLFail, AMLDecides, AMLUnderReview, AMLActive, AMLLinked, IsActive
<1> QED
  BY <1>1, <1>2, <1>3, <1>4, <1>5, <1>6, <1>7, <1>8 DEF AMLStep, AMLEffect

LEMMA AMLDecidedSame ==
  ASSUME NEW r \in AMLRequests, \A q \in AMLRequests \ {r} : aml'[q] = aml[q],
         NEW verdict, aml[r].status # verdict, aml'[r].status # verdict, NEW f
  PROVE  AMLDecided(f, verdict)' <=> AMLDecided(f, verdict)
  BY DEF AMLDecided

LEMMA AMLDecidedNow ==
  ASSUME NEW r \in AMLRequests, \A q \in AMLRequests \ {r} : aml'[q] = aml[q],
         NEW verdict, aml[r].status # verdict, aml'[r].status = verdict, NEW f
  PROVE  AMLDecided(f, verdict)' <=> AMLDecided(f, verdict) \/ aml'[r].flow = f
  BY DEF AMLDecided

LEMMA AMLRejectionsSame ==
  ASSUME NEW r \in AMLRequests, \A q \in AMLRequests \ {r} : aml'[q] = aml[q],
         aml[r].status # "Rejected", aml'[r].status # "Rejected", NEW f
  PROVE  AMLRejections(f)' = AMLRejections(f)
  BY DEF AMLRejections

LEMMA AMLRejectionsNow ==
  ASSUME NEW r \in AMLRequests, \A q \in AMLRequests \ {r} : aml'[q] = aml[q],
         aml[r].status # "Rejected", aml'[r].status = "Rejected", NEW f
  PROVE  AMLRejections(f)' = IF aml'[r].flow = f THEN AMLRejections(f) \cup {r}
                                               ELSE AMLRejections(f)
  BY DEF AMLRejections

LEMMA AMLFrameSame ==
  ASSUME UNCHANGED aml, NEW f
  PROVE  /\ \A verdict : AMLDecided(f, verdict)' <=> AMLDecided(f, verdict)
         /\ AMLRejections(f)' = AMLRejections(f)
  BY DEF AMLDecided, AMLRejections

(* What a Credit transaction does, seen from the flow: it moves one request    *)
(* and leaves the registry alone, or it decides that request.              *)
CreditQuiet(r) ==
  /\ UNCHANGED registryVars
  /\ credit[r].status \notin {"Approved", "Rejected"}
  /\ credit'[r].status \notin {"Approved", "Rejected"}
  /\ credit'[r].flow \in Flows /\ IsActive(credit'[r].flow)
  /\ credit[r].flow \in {NoFlow, credit'[r].flow}

CreditDecides(r, f, verdict) ==
  /\ IsActive(f) /\ credit[r].flow = f /\ credit'[r].flow = f
  /\ credit[r].status \notin {"Approved", "Rejected"} /\ credit'[r].status = verdict

CreditPass(r, f) ==
  CreditDecides(r, f, "Approved") /\ SetPhaseComplete("credit", f, "CREDIT_APPROVED")

CreditFail(r, f) == CreditDecides(r, f, "Rejected") /\ Terminate("credit", f)

CreditEffect(r) ==
  /\ \A q \in CreditRequests \ {r} : credit'[q] = credit[q]
  /\ CreditQuiet(r) \/ \E f \in Flows : CreditPass(r, f) \/ CreditFail(r, f)

LEMMA CreditStepEffect ==
  ASSUME credit \in [CreditRequests -> CreditRecord], CreditLinked, NEW r \in CreditRequests, CreditStep(r)
  PROVE  CreditEffect(r)
<1>0. credit[r].flow \in Flows \cup {NoFlow} BY DEF CreditRecord
<1>1. \A q \in CreditRequests \ {r} : credit'[q] = credit[q]
  BY DEF CreditStep, RequestCreditReview, CreditRequestClientData,
         CreditFulfillDataRequest, ProposeTerms, SubmitCounterProposal,
         AcceptTerms, CreditSubmitRecommendation, CreditEscalate, CreditApprove,
         CreditReject
<1>2. ASSUME NEW f \in Flows, NEW bank \in Agents, NEW client \in ClientAgents,
             RequestCreditReview(r, f, bank, client)
      PROVE  CreditQuiet(r)
  BY <1>0, <1>2
     DEF RequestCreditReview, CreditQuiet, CreditActive, CreditLinked, IsActive
<1>3. ASSUME CreditRequestClientData(r) PROVE CreditQuiet(r)
  BY <1>0, <1>3
     DEF CreditRequestClientData, CreditQuiet, CreditActive, CreditLinked, IsActive
<1>4. ASSUME CreditFulfillDataRequest(r) PROVE CreditQuiet(r)
  BY <1>0, <1>4
     DEF CreditFulfillDataRequest, CreditQuiet, CreditActive, CreditLinked, IsActive
<1>5. ASSUME ProposeTerms(r) PROVE CreditQuiet(r)
  BY <1>0, <1>5 DEF ProposeTerms, CreditQuiet, CreditActive, CreditLinked, IsActive
<1>6. ASSUME SubmitCounterProposal(r) PROVE CreditQuiet(r)
  BY <1>0, <1>6
     DEF SubmitCounterProposal, CreditQuiet, CreditActive, CreditLinked, IsActive
<1>7. ASSUME AcceptTerms(r) PROVE CreditQuiet(r)
  BY <1>0, <1>7 DEF AcceptTerms, CreditQuiet, CreditActive, CreditLinked, IsActive
<1>8. ASSUME CreditSubmitRecommendation(r) PROVE CreditQuiet(r)
  BY <1>0, <1>8
     DEF CreditSubmitRecommendation, CreditQuiet, CreditActive, CreditLinked, IsActive
<1>9. ASSUME CreditEscalate(r) PROVE CreditQuiet(r)
  BY <1>0, <1>9 DEF CreditEscalate, CreditQuiet, CreditActive, CreditLinked, IsActive
<1>10. ASSUME NEW caller \in Accounts,
             CreditApprove(r, caller)
      PROVE  \E f \in Flows : CreditPass(r, f)
  BY <1>0, <1>10
     DEF CreditApprove, CreditPass, CreditDecides, CreditUnderReview, CreditActive, CreditLinked, IsActive
<1>11. ASSUME NEW caller \in Accounts,
             CreditReject(r, caller)
      PROVE  \E f \in Flows : CreditFail(r, f)
  BY <1>0, <1>11
     DEF CreditReject, CreditFail, CreditDecides, CreditUnderReview, CreditActive, CreditLinked, IsActive
<1> QED
  BY <1>1, <1>2, <1>3, <1>4, <1>5, <1>6, <1>7, <1>8, <1>9, <1>10, <1>11 DEF
     CreditStep, CreditEffect

LEMMA CreditDecidedSame ==
  ASSUME NEW r \in CreditRequests, \A q \in CreditRequests \ {r} : credit'[q] = credit[q],
         NEW verdict, credit[r].status # verdict, credit'[r].status # verdict, NEW f
  PROVE  CreditDecided(f, verdict)' <=> CreditDecided(f, verdict)
  BY DEF CreditDecided

LEMMA CreditDecidedNow ==
  ASSUME NEW r \in CreditRequests, \A q \in CreditRequests \ {r} : credit'[q] = credit[q],
         NEW verdict, credit[r].status # verdict, credit'[r].status = verdict, NEW f
  PROVE  CreditDecided(f, verdict)' <=> CreditDecided(f, verdict) \/ credit'[r].flow = f
  BY DEF CreditDecided

LEMMA CreditRejectionsSame ==
  ASSUME NEW r \in CreditRequests, \A q \in CreditRequests \ {r} : credit'[q] = credit[q],
         credit[r].status # "Rejected", credit'[r].status # "Rejected", NEW f
  PROVE  CreditRejections(f)' = CreditRejections(f)
  BY DEF CreditRejections

LEMMA CreditRejectionsNow ==
  ASSUME NEW r \in CreditRequests, \A q \in CreditRequests \ {r} : credit'[q] = credit[q],
         credit[r].status # "Rejected", credit'[r].status = "Rejected", NEW f
  PROVE  CreditRejections(f)' = IF credit'[r].flow = f THEN CreditRejections(f) \cup {r}
                                               ELSE CreditRejections(f)
  BY DEF CreditRejections

LEMMA CreditFrameSame ==
  ASSUME UNCHANGED credit, NEW f
  PROVE  /\ \A verdict : CreditDecided(f, verdict)' <=> CreditDecided(f, verdict)
         /\ CreditRejections(f)' = CreditRejections(f)
  BY DEF CreditDecided, CreditRejections

(* What a Legal transaction does, seen from the flow: it moves one request    *)
(* and leaves the registry alone, or it decides that request.              *)
LegalQuiet(r) ==
  /\ UNCHANGED registryVars
  /\ legal[r].status \notin {"Executed", "Rejected"}
  /\ legal'[r].status \notin {"Executed", "Rejected"}
  /\ legal'[r].flow \in Flows /\ IsActive(legal'[r].flow)
  /\ legal[r].flow \in {NoFlow, legal'[r].flow}

LegalDecides(r, f, verdict) ==
  /\ IsActive(f) /\ legal[r].flow = f /\ legal'[r].flow = f
  /\ legal[r].status \notin {"Executed", "Rejected"} /\ legal'[r].status = verdict

LegalPass(r, f) ==
  LegalDecides(r, f, "Executed") /\ SetPhaseComplete("legal", f, "LEGAL_EXECUTED")

LegalFail(r, f) == LegalDecides(r, f, "Rejected") /\ Terminate("legal", f)

LegalEffect(r) ==
  /\ \A q \in LegalRequests \ {r} : legal'[q] = legal[q] /\ versions'[q] = versions[q]
  /\ LegalQuiet(r) \/ \E f \in Flows : LegalPass(r, f) \/ LegalFail(r, f)

LEMMA LegalStepEffect ==
  ASSUME LegalTypeOK, LegalLinked, NEW r \in LegalRequests, LegalStep(r)
  PROVE  LegalEffect(r)
<1>0. legal[r].flow \in Flows \cup {NoFlow} BY DEF LegalRecord, LegalTypeOK
<1> USE DEF LegalTypeOK
<1>1. \A q \in LegalRequests \ {r} : legal'[q] = legal[q] /\ versions'[q] = versions[q]
  BY DEF LegalStep, RequestLegalReview, IssueDraft, SubmitMarkup,
         LegalSubmitRecommendation, LegalEscalate, ApproveBankSide,
         ApproveClientSide, Execute, LegalReject
<1>2. ASSUME NEW f \in Flows, NEW bank \in Agents, NEW client \in ClientAgents,
             RequestLegalReview(r, f, bank, client)
      PROVE  LegalQuiet(r)
  BY <1>0, <1>2 DEF RequestLegalReview, LegalQuiet, LegalActive, LegalLinked, IsActive
<1>3. ASSUME NEW doc \in Docs,
             IssueDraft(r, doc)
      PROVE  LegalQuiet(r)
  BY <1>0, <1>3 DEF IssueDraft, LegalQuiet, LegalActive, LegalLinked, IsActive
<1>4. ASSUME NEW doc \in Docs,
             SubmitMarkup(r, doc)
      PROVE  LegalQuiet(r)
  BY <1>0, <1>4 DEF SubmitMarkup, LegalQuiet, LegalActive, LegalLinked, IsActive
<1>5. ASSUME NEW doc \in Docs,
             LegalSubmitRecommendation(r, doc)
      PROVE  LegalQuiet(r)
  BY <1>0, <1>5
     DEF LegalSubmitRecommendation, LegalQuiet, LegalActive, LegalLinked, IsActive
<1>6. ASSUME LegalEscalate(r) PROVE LegalQuiet(r)
  BY <1>0, <1>6 DEF LegalEscalate, LegalQuiet, LegalActive, LegalLinked, IsActive
<1>7. ASSUME NEW caller \in Accounts,
             ApproveBankSide(r, caller)
      PROVE  LegalQuiet(r)
  BY <1>0, <1>7
     DEF ApproveBankSide, LegalQuiet, LegalActive, LegalUnderReview, LegalLinked, IsActive
<1>8. ASSUME NEW caller \in Accounts,
             ApproveClientSide(r, caller)
      PROVE  LegalQuiet(r)
  BY <1>0, <1>8
     DEF ApproveClientSide, LegalQuiet, LegalActive, LegalUnderReview, LegalLinked, IsActive
<1>9. ASSUME Execute(r) PROVE \E f \in Flows : LegalPass(r, f)
  BY <1>0, <1>9
     DEF Execute, LegalPass, LegalDecides, LegalUnderReview, LegalActive, LegalLinked, IsActive
<1>10. ASSUME NEW caller \in Accounts,
             LegalReject(r, caller)
      PROVE  \E f \in Flows : LegalFail(r, f)
  BY <1>0, <1>10
     DEF LegalReject, LegalFail, LegalDecides, LegalUnderReview, LegalActive, LegalLinked, IsActive
<1> QED
  BY <1>1, <1>2, <1>3, <1>4, <1>5, <1>6, <1>7, <1>8, <1>9, <1>10 DEF LegalStep,
     LegalEffect

LEMMA LegalDecidedSame ==
  ASSUME NEW r \in LegalRequests, \A q \in LegalRequests \ {r} : legal'[q] = legal[q],
         NEW verdict, legal[r].status # verdict, legal'[r].status # verdict, NEW f
  PROVE  LegalDecided(f, verdict)' <=> LegalDecided(f, verdict)
  BY DEF LegalDecided

LEMMA LegalDecidedNow ==
  ASSUME NEW r \in LegalRequests, \A q \in LegalRequests \ {r} : legal'[q] = legal[q],
         NEW verdict, legal[r].status # verdict, legal'[r].status = verdict, NEW f
  PROVE  LegalDecided(f, verdict)' <=> LegalDecided(f, verdict) \/ legal'[r].flow = f
  BY DEF LegalDecided

LEMMA LegalRejectionsSame ==
  ASSUME NEW r \in LegalRequests, \A q \in LegalRequests \ {r} : legal'[q] = legal[q],
         legal[r].status # "Rejected", legal'[r].status # "Rejected", NEW f
  PROVE  LegalRejections(f)' = LegalRejections(f)
  BY DEF LegalRejections

LEMMA LegalRejectionsNow ==
  ASSUME NEW r \in LegalRequests, \A q \in LegalRequests \ {r} : legal'[q] = legal[q],
         legal[r].status # "Rejected", legal'[r].status = "Rejected", NEW f
  PROVE  LegalRejections(f)' = IF legal'[r].flow = f THEN LegalRejections(f) \cup {r}
                                               ELSE LegalRejections(f)
  BY DEF LegalRejections

LEMMA LegalFrameSame ==
  ASSUME UNCHANGED legal, NEW f
  PROVE  /\ \A verdict : LegalDecided(f, verdict)' <=> LegalDecided(f, verdict)
         /\ LegalRejections(f)' = LegalRejections(f)
  BY DEF LegalDecided, LegalRejections

-----------------------------------------------------------------------------
(* Every step of the system, seen from the flows and their verdicts.       *)

SamePassed(f) == Passed(f)' = Passed(f)
SameFailed(f) == Failed(f)' = Failed(f) /\ RejectedRequests(f)' = RejectedRequests(f)

QuietShape ==
  UNCHANGED <<flows, ready>> /\ \A g \in Flows : SamePassed(g) /\ SameFailed(g)

OpenShape(f) ==
  InitiateOnboarding(f) /\ \A g \in Flows : SamePassed(g) /\ SameFailed(g)

PassShape(t, f) ==
  /\ IsActive(f) /\ SetPhaseComplete(t, f, PhaseOf[t])
  /\ \A g \in Flows : /\ Passed(g)' = IF g = f THEN Passed(g) \cup {t} ELSE Passed(g)
                      /\ SameFailed(g)

FailShape(t, f, r) ==
  /\ IsActive(f) /\ Terminate(t, f)
  /\ \A g \in Flows :
       /\ SamePassed(g)
       /\ Failed(g)' = IF g = f THEN Failed(g) \cup {t} ELSE Failed(g)
       /\ RejectedRequests(g)' = IF g = f THEN RejectedRequests(g) \cup {<<t, r>>}
                                          ELSE RejectedRequests(g)

SetupShape(f) ==
  /\ \E agent \in Agents : SetupStep(f, agent)
  /\ \A g \in Flows : SamePassed(g) /\ SameFailed(g)

Shape ==
  \/ QuietShape
  \/ \E f \in Flows : \/ OpenShape(f)
                      \/ SetupShape(f)
                      \/ \E t \in Teams : PassShape(t, f) \/ \E r : FailShape(t, f, r)

LEMMA AMLShape ==
  ASSUME NEW r \in AMLRequests, AMLEffect(r), UNCHANGED credit /\ UNCHANGED legal
  PROVE  Shape
<1> USE DEF AMLEffect
<1>1. CASE AMLQuiet(r)
  <2>1. ASSUME NEW g PROVE SamePassed(g) /\ SameFailed(g)
    <3>1. /\ AMLDecided(g, "Cleared")' <=> AMLDecided(g, "Cleared")
          /\ AMLDecided(g, "Rejected")' <=> AMLDecided(g, "Rejected")
          /\ AMLRejections(g)' = AMLRejections(g)
      BY <1>1, AMLDecidedSame, AMLRejectionsSame DEF AMLQuiet
    <3>2. SamePassed(g) BY <3>1, CreditFrameSame, LegalFrameSame DEF SamePassed, Passed
    <3>3. SameFailed(g)
      BY <3>1, CreditFrameSame, LegalFrameSame DEF SameFailed, Failed, RejectedRequests
    <3> QED BY <3>2, <3>3
  <2> QED BY <1>1, <2>1 DEF AMLQuiet, QuietShape, Shape
<1>2. ASSUME NEW f \in Flows, AMLPass(r, f) PROVE Shape
  <2>1. ASSUME NEW g
        PROVE  /\ Passed(g)' = IF g = f THEN Passed(g) \cup {"aml"} ELSE Passed(g)
               /\ SameFailed(g)
    <3>1. /\ AMLDecided(g, "Cleared")' <=> AMLDecided(g, "Cleared") \/ f = g
          /\ AMLDecided(g, "Rejected")' <=> AMLDecided(g, "Rejected")
          /\ AMLRejections(g)' = AMLRejections(g)
      BY <1>2, AMLDecidedSame, AMLDecidedNow, AMLRejectionsSame DEF AMLPass, AMLDecides
    <3>2. SameFailed(g)
      BY <3>1, CreditFrameSame, LegalFrameSame DEF SameFailed, Failed, RejectedRequests
    <3>3. Passed(g)' = IF g = f THEN Passed(g) \cup {"aml"} ELSE Passed(g)
      BY <3>1, CreditFrameSame, LegalFrameSame DEF Passed, Teams
    <3> QED BY <3>2, <3>3
  <2>2. PassShape("aml", f) BY <1>2, <2>1 DEF AMLPass, AMLDecides, PassShape, PhaseOf
  <2> QED BY <2>2 DEF Shape, Teams
<1>3. ASSUME NEW f \in Flows, AMLFail(r, f) PROVE Shape
  <2>1. ASSUME NEW g
        PROVE  /\ SamePassed(g)
               /\ Failed(g)' = IF g = f THEN Failed(g) \cup {"aml"} ELSE Failed(g)
               /\ RejectedRequests(g)' =
                    IF g = f THEN RejectedRequests(g) \cup {<<"aml", r>>}
                             ELSE RejectedRequests(g)
    <3>1. /\ AMLDecided(g, "Rejected")' <=> AMLDecided(g, "Rejected") \/ f = g
          /\ AMLDecided(g, "Cleared")' <=> AMLDecided(g, "Cleared")
          /\ AMLRejections(g)' = IF f = g THEN AMLRejections(g) \cup {r}
                                        ELSE AMLRejections(g)
      BY <1>3, AMLDecidedSame, AMLDecidedNow, AMLRejectionsNow DEF AMLFail, AMLDecides
    <3>2. SamePassed(g) BY <3>1, CreditFrameSame, LegalFrameSame DEF SamePassed, Passed
    <3>3. Failed(g)' = IF g = f THEN Failed(g) \cup {"aml"} ELSE Failed(g)
      BY <3>1, CreditFrameSame, LegalFrameSame DEF Failed, Teams
    <3>4. RejectedRequests(g)' = IF g = f THEN RejectedRequests(g) \cup {<<"aml", r>>}
                                          ELSE RejectedRequests(g)
      BY <3>1, CreditFrameSame, LegalFrameSame DEF RejectedRequests
    <3> QED BY <3>2, <3>3, <3>4
  <2>2. FailShape("aml", f, r) BY <1>3, <2>1 DEF AMLFail, AMLDecides, FailShape
  <2> QED BY <2>2 DEF Shape, Teams
<1> QED BY <1>1, <1>2, <1>3

LEMMA CreditShape ==
  ASSUME NEW r \in CreditRequests, CreditEffect(r), UNCHANGED aml /\ UNCHANGED legal
  PROVE  Shape
<1> USE DEF CreditEffect
<1>1. CASE CreditQuiet(r)
  <2>1. ASSUME NEW g PROVE SamePassed(g) /\ SameFailed(g)
    <3>1. /\ CreditDecided(g, "Approved")' <=> CreditDecided(g, "Approved")
          /\ CreditDecided(g, "Rejected")' <=> CreditDecided(g, "Rejected")
          /\ CreditRejections(g)' = CreditRejections(g)
      BY <1>1, CreditDecidedSame, CreditRejectionsSame DEF CreditQuiet
    <3>2. SamePassed(g) BY <3>1, AMLFrameSame, LegalFrameSame DEF SamePassed, Passed
    <3>3. SameFailed(g)
      BY <3>1, AMLFrameSame, LegalFrameSame DEF SameFailed, Failed, RejectedRequests
    <3> QED BY <3>2, <3>3
  <2> QED BY <1>1, <2>1 DEF CreditQuiet, QuietShape, Shape
<1>2. ASSUME NEW f \in Flows, CreditPass(r, f) PROVE Shape
  <2>1. ASSUME NEW g
        PROVE  /\ Passed(g)' = IF g = f THEN Passed(g) \cup {"credit"} ELSE Passed(g)
               /\ SameFailed(g)
    <3>1. /\ CreditDecided(g, "Approved")' <=> CreditDecided(g, "Approved") \/ f = g
          /\ CreditDecided(g, "Rejected")' <=> CreditDecided(g, "Rejected")
          /\ CreditRejections(g)' = CreditRejections(g)
      BY <1>2, CreditDecidedSame, CreditDecidedNow, CreditRejectionsSame
         DEF CreditPass, CreditDecides
    <3>2. SameFailed(g)
      BY <3>1, AMLFrameSame, LegalFrameSame DEF SameFailed, Failed, RejectedRequests
    <3>3. Passed(g)' = IF g = f THEN Passed(g) \cup {"credit"} ELSE Passed(g)
      BY <3>1, AMLFrameSame, LegalFrameSame DEF Passed, Teams
    <3> QED BY <3>2, <3>3
  <2>2. PassShape("credit", f) BY <1>2, <2>1 DEF CreditPass, CreditDecides, PassShape, PhaseOf
  <2> QED BY <2>2 DEF Shape, Teams
<1>3. ASSUME NEW f \in Flows, CreditFail(r, f) PROVE Shape
  <2>1. ASSUME NEW g
        PROVE  /\ SamePassed(g)
               /\ Failed(g)' = IF g = f THEN Failed(g) \cup {"credit"} ELSE Failed(g)
               /\ RejectedRequests(g)' =
                    IF g = f THEN RejectedRequests(g) \cup {<<"credit", r>>}
                             ELSE RejectedRequests(g)
    <3>1. /\ CreditDecided(g, "Rejected")' <=> CreditDecided(g, "Rejected") \/ f = g
          /\ CreditDecided(g, "Approved")' <=> CreditDecided(g, "Approved")
          /\ CreditRejections(g)' = IF f = g THEN CreditRejections(g) \cup {r}
                                        ELSE CreditRejections(g)
      BY <1>3, CreditDecidedSame, CreditDecidedNow, CreditRejectionsNow
         DEF CreditFail, CreditDecides
    <3>2. SamePassed(g) BY <3>1, AMLFrameSame, LegalFrameSame DEF SamePassed, Passed
    <3>3. Failed(g)' = IF g = f THEN Failed(g) \cup {"credit"} ELSE Failed(g)
      BY <3>1, AMLFrameSame, LegalFrameSame DEF Failed, Teams
    <3>4. RejectedRequests(g)' = IF g = f THEN RejectedRequests(g) \cup {<<"credit", r>>}
                                          ELSE RejectedRequests(g)
      BY <3>1, AMLFrameSame, LegalFrameSame DEF RejectedRequests
    <3> QED BY <3>2, <3>3, <3>4
  <2>2. FailShape("credit", f, r) BY <1>3, <2>1 DEF CreditFail, CreditDecides, FailShape
  <2> QED BY <2>2 DEF Shape, Teams
<1> QED BY <1>1, <1>2, <1>3

LEMMA LegalShape ==
  ASSUME NEW r \in LegalRequests, LegalEffect(r), UNCHANGED aml /\ UNCHANGED credit
  PROVE  Shape
<1> USE DEF LegalEffect
<1>1. CASE LegalQuiet(r)
  <2>1. ASSUME NEW g PROVE SamePassed(g) /\ SameFailed(g)
    <3>1. /\ LegalDecided(g, "Executed")' <=> LegalDecided(g, "Executed")
          /\ LegalDecided(g, "Rejected")' <=> LegalDecided(g, "Rejected")
          /\ LegalRejections(g)' = LegalRejections(g)
      BY <1>1, LegalDecidedSame, LegalRejectionsSame DEF LegalQuiet
    <3>2. SamePassed(g) BY <3>1, AMLFrameSame, CreditFrameSame DEF SamePassed, Passed
    <3>3. SameFailed(g)
      BY <3>1, AMLFrameSame, CreditFrameSame DEF SameFailed, Failed, RejectedRequests
    <3> QED BY <3>2, <3>3
  <2> QED BY <1>1, <2>1 DEF LegalQuiet, QuietShape, Shape
<1>2. ASSUME NEW f \in Flows, LegalPass(r, f) PROVE Shape
  <2>1. ASSUME NEW g
        PROVE  /\ Passed(g)' = IF g = f THEN Passed(g) \cup {"legal"} ELSE Passed(g)
               /\ SameFailed(g)
    <3>1. /\ LegalDecided(g, "Executed")' <=> LegalDecided(g, "Executed") \/ f = g
          /\ LegalDecided(g, "Rejected")' <=> LegalDecided(g, "Rejected")
          /\ LegalRejections(g)' = LegalRejections(g)
      BY <1>2, LegalDecidedSame, LegalDecidedNow, LegalRejectionsSame
         DEF LegalPass, LegalDecides
    <3>2. SameFailed(g)
      BY <3>1, AMLFrameSame, CreditFrameSame DEF SameFailed, Failed, RejectedRequests
    <3>3. Passed(g)' = IF g = f THEN Passed(g) \cup {"legal"} ELSE Passed(g)
      BY <3>1, AMLFrameSame, CreditFrameSame DEF Passed, Teams
    <3> QED BY <3>2, <3>3
  <2>2. PassShape("legal", f) BY <1>2, <2>1 DEF LegalPass, LegalDecides, PassShape, PhaseOf
  <2> QED BY <2>2 DEF Shape, Teams
<1>3. ASSUME NEW f \in Flows, LegalFail(r, f) PROVE Shape
  <2>1. ASSUME NEW g
        PROVE  /\ SamePassed(g)
               /\ Failed(g)' = IF g = f THEN Failed(g) \cup {"legal"} ELSE Failed(g)
               /\ RejectedRequests(g)' =
                    IF g = f THEN RejectedRequests(g) \cup {<<"legal", r>>}
                             ELSE RejectedRequests(g)
    <3>1. /\ LegalDecided(g, "Rejected")' <=> LegalDecided(g, "Rejected") \/ f = g
          /\ LegalDecided(g, "Executed")' <=> LegalDecided(g, "Executed")
          /\ LegalRejections(g)' = IF f = g THEN LegalRejections(g) \cup {r}
                                        ELSE LegalRejections(g)
      BY <1>3, LegalDecidedSame, LegalDecidedNow, LegalRejectionsNow
         DEF LegalFail, LegalDecides
    <3>2. SamePassed(g) BY <3>1, AMLFrameSame, CreditFrameSame DEF SamePassed, Passed
    <3>3. Failed(g)' = IF g = f THEN Failed(g) \cup {"legal"} ELSE Failed(g)
      BY <3>1, AMLFrameSame, CreditFrameSame DEF Failed, Teams
    <3>4. RejectedRequests(g)' = IF g = f THEN RejectedRequests(g) \cup {<<"legal", r>>}
                                          ELSE RejectedRequests(g)
      BY <3>1, AMLFrameSame, CreditFrameSame DEF RejectedRequests
    <3> QED BY <3>2, <3>3, <3>4
  <2>2. FailShape("legal", f, r) BY <1>3, <2>1 DEF LegalFail, LegalDecides, FailShape
  <2> QED BY <2>2 DEF Shape, Teams
<1> QED BY <1>1, <1>2, <1>3

LEMMA NextEffect ==
  ASSUME TypeOK, Linked, [Next]_vars
  PROVE  \/ RegistryNext /\ UNCHANGED <<identityVars, aml, credit, legalVars>>
         \/ UNCHANGED <<registryVars, aml, credit, legalVars>>
         \/ (\E r \in AMLRequests : AMLEffect(r)) /\ UNCHANGED <<credit, legalVars>>
         \/ (\E r \in CreditRequests : CreditEffect(r)) /\ UNCHANGED <<aml, legalVars>>
         \/ (\E r \in LegalRequests : LegalEffect(r)) /\ UNCHANGED <<aml, credit>>
         \/ SetupNext /\ UNCHANGED <<identityVars, aml, credit, legalVars>>
<1> USE DEF TypeOK, Linked
<1>1. CASE AMLNext /\ UNCHANGED <<identityVars, credit, legalVars>>
  BY <1>1, AMLStepEffect DEF AMLNext, AMLTypeOK
<1>2. CASE CreditNext /\ UNCHANGED <<identityVars, aml, legalVars>>
  BY <1>2, CreditStepEffect DEF CreditNext, CreditTypeOK
<1>3. CASE LegalNext /\ UNCHANGED <<identityVars, aml, credit>>
  BY <1>3, LegalStepEffect DEF LegalNext
<1> QED BY <1>1, <1>2, <1>3 DEF Next, vars

LEMMA NextShape ==
  ASSUME TypeOK, Linked, [Next]_vars PROVE Shape
<1>1. ASSUME UNCHANGED <<aml, credit, legalVars>>, NEW g
      PROVE  SamePassed(g) /\ SameFailed(g)
  <2>1. SamePassed(g)
    BY <1>1, AMLFrameSame, CreditFrameSame, LegalFrameSame DEF SamePassed, Passed
  <2>2. SameFailed(g)
    BY <1>1, AMLFrameSame, CreditFrameSame, LegalFrameSame
       DEF SameFailed, Failed, RejectedRequests
  <2> QED BY <2>1, <2>2
<1>2. CASE RegistryNext /\ UNCHANGED <<identityVars, aml, credit, legalVars>>
  <2>1. ASSUME NEW f \in Flows, InitiateOnboarding(f) PROVE Shape
    BY <1>1, <1>2, <2>1 DEF OpenShape, Shape
  <2>2. ASSUME NEW o \in Revocable, NEW enabled \in BOOLEAN, SetOracle(o, enabled)
        PROVE  Shape
    BY <1>1, <1>2, <2>2 DEF SetOracle, QuietShape, Shape
  <2> QED BY <1>2, <2>1, <2>2 DEF RegistryNext
<1>3. CASE UNCHANGED <<registryVars, aml, credit, legalVars>>
  BY <1>1, <1>3 DEF QuietShape, Shape
<1>4. CASE (\E r \in AMLRequests : AMLEffect(r)) /\ UNCHANGED <<credit, legalVars>>
  BY <1>4, AMLShape
<1>5. CASE (\E r \in CreditRequests : CreditEffect(r)) /\ UNCHANGED <<aml, legalVars>>
  BY <1>5, CreditShape
<1>6. CASE (\E r \in LegalRequests : LegalEffect(r)) /\ UNCHANGED <<aml, credit>>
  BY <1>6, LegalShape
<1>7. CASE SetupNext /\ UNCHANGED <<identityVars, aml, credit, legalVars>>
  BY <1>1, <1>7 DEF SetupNext, SetupShape, Shape
<1> QED BY NextEffect, <1>2, <1>3, <1>4, <1>5, <1>6, <1>7

-----------------------------------------------------------------------------
(* What the registry's calls do to each flow record.                       *)

LEMMA SetPhaseFlows ==
  ASSUME RegistryTypeOK, NEW o, NEW f \in Flows, NEW phase, SetPhaseComplete(o, f, phase),
         NEW g \in Flows
  PROVE  /\ flows'[g].phases = IF g = f THEN flows[g].phases \cup {phase}
                                        ELSE flows[g].phases
         /\ flows'[g].created = flows[g].created
         /\ flows'[g].terminated = flows[g].terminated
         /\ g # f => flows'[g] = flows[g]
<1>1. flows \in [Flows -> FlowRecord] BY DEF RegistryTypeOK
<1> QED BY <1>1 DEF SetPhaseComplete, FlowRecord

LEMMA SetPhaseReady ==
  ASSUME RegistryTypeOK, NEW o, NEW f \in Flows, NEW phase, SetPhaseComplete(o, f, phase),
         NEW g \in Flows
  PROVE  /\ ready'[g] > 0 <=>
              ready[g] > 0 \/ (g = f /\ flows[f].phases \cup {phase} = AllPhases)
         /\ g # f => ready'[g] = ready[g]
<1>1. ready \in [Flows -> Nat] BY DEF RegistryTypeOK
<1>2. CASE flows[f].phases \cup {phase} = AllPhases
  <2>1. ready' = [ready EXCEPT ![f] = @ + 1] BY <1>2 DEF SetPhaseComplete
  <2> QED BY <1>1, <1>2, <2>1
<1>3. CASE flows[f].phases \cup {phase} # AllPhases
  <2>1. ready' = ready BY <1>3 DEF SetPhaseComplete
  <2> QED BY <1>1, <1>3, <2>1
<1> QED BY <1>2, <1>3

LEMMA TerminateEffect ==
  ASSUME RegistryTypeOK, NEW o, NEW f \in Flows, Terminate(o, f)
  PROVE  /\ ready' = ready
         /\ \A g \in Flows :
              /\ flows'[g].phases = flows[g].phases
              /\ flows'[g].created = flows[g].created
              /\ flows'[g].terminated <=> flows[g].terminated \/ g = f
              /\ g # f => flows'[g] = flows[g]
  BY DEF RegistryTypeOK, Terminate, FlowRecord

LEMMA OpenEffect ==
  ASSUME RegistryTypeOK, Fresh, NEW f \in Flows, InitiateOnboarding(f)
  PROVE  /\ ready' = ready
         /\ ready[f] = 0
         /\ flows[f] = NoRecord
         /\ \A g \in Flows :
              /\ flows'[g].phases = flows[g].phases
              /\ flows'[g].created <=> flows[g].created \/ g = f
              /\ flows'[g].terminated = flows[g].terminated
              /\ g # f => flows'[g] = flows[g]
  BY DEF RegistryTypeOK, InitiateOnboarding, FlowRecord, Fresh, NoRecord

LEMMA SetupEffect ==
  ASSUME NEW f \in Flows, NEW agent, SetupStep(f, agent)
  PROVE  /\ IsActive(f)
         /\ \E phase \in SetupPhases :
              /\ SetPhaseComplete("setup", f, phase)
              /\ phase \notin flows[f].phases
              /\ phase = "ENTITY_SETUP_DONE" => ReviewsDone(f)
              /\ phase = "ACCOUNT_SETUP_DONE" => "ENTITY_SETUP_DONE" \in flows[f].phases
              /\ phase = "PRODUCT_SETUP_DONE" => "ACCOUNT_SETUP_DONE" \in flows[f].phases
  BY DEF SetupStep, SetupLegalEntity, SetupAccount, SetupProducts, SetupPhases

-----------------------------------------------------------------------------
(* The inductive invariant, one lemma per conjunct.                        *)

LEMMA FlowsPersist ==
  ASSUME TypeOK, Fresh, Shape, NEW g \in Flows, ~flows'[g].created
  PROVE  ~flows[g].created /\ flows'[g] = flows[g] /\ ready'[g] = ready[g]
<1>0. RegistryTypeOK BY DEF TypeOK
<1>1. CASE QuietShape BY <1>1 DEF QuietShape
<1>2. ASSUME NEW f \in Flows, OpenShape(f)
      PROVE  ~flows[g].created /\ flows'[g] = flows[g] /\ ready'[g] = ready[g]
  BY <1>0, <1>2, OpenEffect DEF OpenShape
<1>3. ASSUME NEW f \in Flows, NEW o, NEW phase, IsActive(f), SetPhaseComplete(o, f, phase)
      PROVE  ~flows[g].created /\ flows'[g] = flows[g] /\ ready'[g] = ready[g]
  <2>1. /\ flows'[g].created = flows[g].created
        /\ g # f => flows'[g] = flows[g]
    BY <1>0, <1>3, SetPhaseFlows
  <2>2. g # f => ready'[g] = ready[g] BY <1>0, <1>3, SetPhaseReady
  <2> QED BY <1>3, <2>1, <2>2 DEF IsActive
<1>4. ASSUME NEW f \in Flows, NEW o, IsActive(f), Terminate(o, f)
      PROVE  ~flows[g].created /\ flows'[g] = flows[g] /\ ready'[g] = ready[g]
  BY <1>0, <1>4, TerminateEffect DEF IsActive
<1>5. ASSUME NEW f \in Flows, SetupShape(f)
      PROVE  ~flows[g].created /\ flows'[g] = flows[g] /\ ready'[g] = ready[g]
  BY <1>3, <1>5, SetupEffect DEF SetupShape
<1> QED BY <1>1, <1>2, <1>3, <1>4, <1>5 DEF Shape, PassShape, FailShape

LEMMA FreshStep ==
  ASSUME TypeOK, Linked, Fresh, [Next]_vars PROVE Fresh'
<1> SUFFICES ASSUME NEW g \in Flows, ~flows'[g].created
             PROVE  /\ flows'[g] = NoRecord
                    /\ ready'[g] = 0
                    /\ \A r \in AMLRequests : aml'[r].flow # g
                    /\ \A r \in CreditRequests : credit'[r].flow # g
                    /\ \A r \in LegalRequests : legal'[r].flow # g
  BY DEF Fresh
<1>1. ~flows[g].created /\ flows'[g] = flows[g] /\ ready'[g] = ready[g]
  BY FlowsPersist, NextShape
<1>2. /\ flows[g] = NoRecord
      /\ ready[g] = 0
      /\ \A r \in AMLRequests : aml[r].flow # g
      /\ \A r \in CreditRequests : credit[r].flow # g
      /\ \A r \in LegalRequests : legal[r].flow # g
  BY <1>1 DEF Fresh
<1>3. ASSUME NEW r \in AMLRequests PROVE aml'[r].flow # g
  BY <1>1, <1>2, NextEffect
     DEF AMLEffect, AMLQuiet, AMLPass, AMLFail, AMLDecides, IsActive
<1>4. ASSUME NEW r \in CreditRequests PROVE credit'[r].flow # g
  BY <1>1, <1>2, NextEffect
     DEF CreditEffect, CreditQuiet, CreditPass, CreditFail, CreditDecides, IsActive
<1>5. ASSUME NEW r \in LegalRequests PROVE legal'[r].flow # g
  BY <1>1, <1>2, NextEffect
     DEF LegalEffect, LegalQuiet, LegalPass, LegalFail, LegalDecides, IsActive
<1> QED BY <1>1, <1>2, <1>3, <1>4, <1>5

LEMMA PhasesBackedStep ==
  ASSUME TypeOK, Fresh, PhasesBacked, Shape PROVE PhasesBacked'
<1> SUFFICES ASSUME NEW g \in Flows, NEW u \in Teams
             PROVE  PhaseOf[u] \in flows'[g].phases <=> u \in Passed(g)'
  BY DEF PhasesBacked
<1>0. RegistryTypeOK BY DEF TypeOK
<1>a. PhaseOf[u] \in flows[g].phases <=> u \in Passed(g) BY DEF PhasesBacked
<1>1. CASE QuietShape BY <1>1, <1>a DEF QuietShape, SamePassed
<1>2. ASSUME NEW f \in Flows, OpenShape(f)
      PROVE  PhaseOf[u] \in flows'[g].phases <=> u \in Passed(g)'
  BY <1>0, <1>2, <1>a, OpenEffect DEF OpenShape, SamePassed
<1>3. ASSUME NEW f \in Flows, NEW t \in Teams, PassShape(t, f)
      PROVE  PhaseOf[u] \in flows'[g].phases <=> u \in Passed(g)'
  <2>1. PhaseOf[u] = PhaseOf[t] <=> u = t BY DEF PhaseOf, Teams
  <2>2. flows'[g].phases = IF g = f THEN flows[g].phases \cup {PhaseOf[t]}
                                    ELSE flows[g].phases
    <3>1. SetPhaseComplete(t, f, PhaseOf[t]) BY <1>3 DEF PassShape
    <3> QED BY <1>0, <3>1, SetPhaseFlows
  <2>3. Passed(g)' = IF g = f THEN Passed(g) \cup {t} ELSE Passed(g)
    BY <1>3 DEF PassShape
  <2> QED BY <1>a, <2>1, <2>2, <2>3
<1>4. ASSUME NEW f \in Flows, NEW t \in Teams, NEW r, FailShape(t, f, r)
      PROVE  PhaseOf[u] \in flows'[g].phases <=> u \in Passed(g)'
  BY <1>0, <1>4, <1>a, TerminateEffect DEF FailShape, SamePassed
<1>5. ASSUME NEW f \in Flows, SetupShape(f)
      PROVE  PhaseOf[u] \in flows'[g].phases <=> u \in Passed(g)'
  <2>1. PhaseOf[u] \notin SetupPhases BY DEF PhaseOf, Teams, SetupPhases
  <2>2. PICK phase \in SetupPhases : SetPhaseComplete("setup", f, phase)
    BY <1>5, SetupEffect DEF SetupShape
  <2>3. flows'[g].phases = IF g = f THEN flows[g].phases \cup {phase} ELSE flows[g].phases
    BY <1>0, <2>2, SetPhaseFlows
  <2> QED BY <1>5, <1>a, <2>1, <2>3 DEF SetupShape, SamePassed
<1> QED BY <1>1, <1>2, <1>3, <1>4, <1>5 DEF Shape

LEMMA TerminatedByRejectionStep ==
  ASSUME TypeOK, Fresh, TerminatedByRejection, Shape PROVE TerminatedByRejection'
<1> SUFFICES ASSUME NEW g \in Flows
             PROVE  flows'[g].terminated <=> Failed(g)' # {}
  BY DEF TerminatedByRejection
<1>0. RegistryTypeOK BY DEF TypeOK
<1>a. flows[g].terminated <=> Failed(g) # {} BY DEF TerminatedByRejection
<1>1. CASE QuietShape BY <1>1, <1>a DEF QuietShape, SameFailed
<1>2. ASSUME NEW f \in Flows, OpenShape(f)
      PROVE  flows'[g].terminated <=> Failed(g)' # {}
  BY <1>0, <1>2, <1>a, OpenEffect DEF OpenShape, SameFailed
<1>3. ASSUME NEW f \in Flows, NEW t \in Teams, PassShape(t, f)
      PROVE  flows'[g].terminated <=> Failed(g)' # {}
  BY <1>0, <1>3, <1>a, SetPhaseFlows DEF PassShape, SameFailed
<1>4. ASSUME NEW f \in Flows, NEW t \in Teams, NEW r, FailShape(t, f, r)
      PROVE  flows'[g].terminated <=> Failed(g)' # {}
  BY <1>0, <1>4, <1>a, TerminateEffect DEF FailShape
<1>5. ASSUME NEW f \in Flows, SetupShape(f)
      PROVE  flows'[g].terminated <=> Failed(g)' # {}
  BY <1>0, <1>5, <1>a, SetupEffect, SetPhaseFlows DEF SetupShape, SameFailed
<1> QED BY <1>1, <1>2, <1>3, <1>4, <1>5 DEF Shape

LEMMA LiveFlowHasNoRejection ==
  ASSUME TerminatedByRejection, NEW f \in Flows, IsActive(f)
  PROVE  Failed(f) = {} /\ RejectedRequests(f) = {}
<1>1. Failed(f) = {} BY DEF TerminatedByRejection, IsActive
<1>2. ~AMLDecided(f, "Rejected") /\ ~CreditDecided(f, "Rejected")
      /\ ~LegalDecided(f, "Rejected")
  BY <1>1 DEF Failed, Teams
<1>3. AMLRejections(f) = {} /\ CreditRejections(f) = {} /\ LegalRejections(f) = {}
  BY <1>2
     DEF AMLDecided, CreditDecided, LegalDecided, AMLRejections, CreditRejections,
         LegalRejections
<1> QED BY <1>1, <1>3 DEF RejectedRequests

LEMMA OneRejectionStep ==
  ASSUME TerminatedByRejection, OneRejection, Shape PROVE OneRejection'
<1> SUFFICES ASSUME NEW g \in Flows
             PROVE  \A x, y \in RejectedRequests(g)' : x = y
  BY DEF OneRejection
<1>a. \A x, y \in RejectedRequests(g) : x = y BY DEF OneRejection
<1>1. CASE RejectedRequests(g)' = RejectedRequests(g) BY <1>1, <1>a
<1>2. ASSUME NEW f \in Flows, NEW t \in Teams, NEW r, FailShape(t, f, r)
      PROVE  \A x, y \in RejectedRequests(g)' : x = y
  <2>1. RejectedRequests(f)' = {<<t, r>>}
    BY <1>2, LiveFlowHasNoRejection DEF FailShape
  <2>2. g # f => RejectedRequests(g)' = RejectedRequests(g) BY <1>2 DEF FailShape
  <2> QED BY <1>a, <2>1, <2>2
<1> QED
  BY <1>1, <1>2 DEF Shape, QuietShape, OpenShape, PassShape, SetupShape, SameFailed

SetupOrder(g) ==
  /\ flows[g].phases \cap SetupPhases # {} => Passed(g) = Teams
  /\ "ACCOUNT_SETUP_DONE" \in flows[g].phases => "ENTITY_SETUP_DONE" \in flows[g].phases
  /\ "PRODUCT_SETUP_DONE" \in flows[g].phases => "ACCOUNT_SETUP_DONE" \in flows[g].phases

Announced(g) == ready[g] > 0 <=> flows[g].phases = AllPhases

LEMMA SetupOrderStep ==
  ASSUME TypeOK, Fresh, PhasesBacked, Shape, NEW g \in Flows, SetupOrder(g)
  PROVE  SetupOrder(g)'
<1> USE DEF SetupOrder
<1>0. RegistryTypeOK BY DEF TypeOK
<1>1. CASE QuietShape BY <1>1 DEF QuietShape, SamePassed
<1>2. ASSUME NEW f \in Flows, OpenShape(f) PROVE SetupOrder(g)'
  <2>1. flows'[g].phases = flows[g].phases BY <1>0, <1>2, OpenEffect DEF OpenShape
  <2> QED BY <1>2, <2>1 DEF OpenShape, SamePassed
<1>3. ASSUME NEW f \in Flows, NEW t \in Teams, PassShape(t, f) PROVE SetupOrder(g)'
  <2>1. SetPhaseComplete(t, f, PhaseOf[t]) BY <1>3 DEF PassShape
  <2>2. flows'[g].phases = IF g = f THEN flows[g].phases \cup {PhaseOf[t]}
                                    ELSE flows[g].phases
    BY <1>0, <2>1, SetPhaseFlows
  <2>3. PhaseOf[t] \notin SetupPhases BY DEF PhaseOf, Teams, SetupPhases
  <2>4. flows'[g].phases \cap SetupPhases = flows[g].phases \cap SetupPhases
    BY <2>2, <2>3
  <2>5. Passed(g) = Teams => Passed(g)' = Teams BY <1>3 DEF PassShape
  <2>6. \A p \in SetupPhases : p \in flows'[g].phases <=> p \in flows[g].phases
    BY <2>4
  <2> QED BY <2>4, <2>5, <2>6 DEF SetupPhases
<1>4. ASSUME NEW f \in Flows, NEW t \in Teams, NEW r, FailShape(t, f, r)
      PROVE  SetupOrder(g)'
  <2>1. flows'[g].phases = flows[g].phases BY <1>0, <1>4, TerminateEffect DEF FailShape
  <2> QED BY <1>4, <2>1 DEF FailShape, SamePassed
<1>5. ASSUME NEW f \in Flows, SetupShape(f) PROVE SetupOrder(g)'
  <2>1. PICK phase \in SetupPhases :
          /\ SetPhaseComplete("setup", f, phase)
          /\ phase = "ENTITY_SETUP_DONE" => ReviewsDone(f)
          /\ phase = "ACCOUNT_SETUP_DONE" => "ENTITY_SETUP_DONE" \in flows[f].phases
          /\ phase = "PRODUCT_SETUP_DONE" => "ACCOUNT_SETUP_DONE" \in flows[f].phases
    BY <1>5, SetupEffect DEF SetupShape
  <2>2. flows'[g].phases = IF g = f THEN flows[g].phases \cup {phase} ELSE flows[g].phases
    BY <1>0, <2>1, SetPhaseFlows
  <2>3. Passed(g)' = Passed(g) BY <1>5 DEF SetupShape, SamePassed
  <2>4. CASE g # f BY <2>2, <2>3, <2>4
  <2>5. CASE g = f
    <3>1. ReviewsDone(f) => Passed(f) = Teams
      <4>1. ASSUME ReviewsDone(f), NEW u \in Teams PROVE u \in Passed(f)
        <5>1. PhaseOf[u] \in ReviewPhases BY DEF PhaseOf, Teams, ReviewPhases
        <5> QED BY <4>1, <5>1 DEF ReviewsDone, PhasesBacked
      <4>2. Passed(f) \subseteq Teams BY DEF Passed
      <4> QED BY <4>1, <4>2
    <3>2. Passed(f) = Teams BY <2>1, <2>5, <3>1 DEF SetupPhases
    <3>3. \A p : p \in flows'[f].phases <=> p \in flows[f].phases \/ p = phase
      BY <2>2, <2>5
    <3>4. Passed(g)' = Teams BY <2>3, <2>5, <3>2
    <3>5. "ACCOUNT_SETUP_DONE" \in flows'[g].phases => "ENTITY_SETUP_DONE" \in flows'[g].phases
      BY <2>1, <2>5, <3>3
    <3>6. "PRODUCT_SETUP_DONE" \in flows'[g].phases => "ACCOUNT_SETUP_DONE" \in flows'[g].phases
      BY <2>1, <2>5, <3>3
    <3> QED BY <3>4, <3>5, <3>6
  <2> QED BY <2>4, <2>5
<1> QED BY <1>1, <1>2, <1>3, <1>4, <1>5 DEF Shape

LEMMA AnnouncedStep ==
  ASSUME TypeOK, Fresh, Shape, NEW g \in Flows, Announced(g)
  PROVE  Announced(g)'
<1> USE DEF Announced
<1>0. RegistryTypeOK BY DEF TypeOK
<1>1. CASE QuietShape BY <1>1 DEF QuietShape
<1>2. ASSUME NEW f \in Flows, OpenShape(f) PROVE Announced(g)'
  <2>1. flows'[g].phases = flows[g].phases /\ ready' = ready
    BY <1>0, <1>2, OpenEffect DEF OpenShape
  <2> QED BY <2>1
<1>3. ASSUME NEW f \in Flows, NEW o, NEW phase \in AllPhases, SetPhaseComplete(o, f, phase)
      PROVE  Announced(g)'
  <2>1. flows'[g].phases = IF g = f THEN flows[g].phases \cup {phase} ELSE flows[g].phases
    BY <1>0, <1>3, SetPhaseFlows
  <2>2. ready'[g] > 0 <=> ready[g] > 0 \/ (g = f /\ flows[f].phases \cup {phase} = AllPhases)
    BY <1>0, <1>3, SetPhaseReady
  <2>3. flows[g].phases = AllPhases => flows'[g].phases = AllPhases BY <2>1
  <2> QED BY <2>1, <2>2, <2>3
<1>4. ASSUME NEW f \in Flows, NEW t \in Teams, NEW r, FailShape(t, f, r)
      PROVE  Announced(g)'
  <2>1. flows'[g].phases = flows[g].phases /\ ready' = ready
    BY <1>0, <1>4, TerminateEffect DEF FailShape
  <2> QED BY <2>1
<1>5. ASSUME NEW f \in Flows, NEW t \in Teams, PassShape(t, f) PROVE Announced(g)'
  <2>1. PhaseOf[t] \in AllPhases BY DEF PhaseOf, Teams, AllPhases, ReviewPhases
  <2> QED BY <1>3, <1>5, <2>1 DEF PassShape
<1>6. ASSUME NEW f \in Flows, SetupShape(f) PROVE Announced(g)'
  <2>1. PICK phase \in SetupPhases : SetPhaseComplete("setup", f, phase)
    BY <1>6, SetupEffect DEF SetupShape
  <2> QED BY <1>3, <2>1 DEF AllPhases
<1> QED BY <1>1, <1>2, <1>4, <1>5, <1>6 DEF Shape

LEMMA ReadyOnlyWhenDecidedStep ==
  ASSUME TypeOK, Fresh, PhasesBacked, ReadyOnlyWhenDecided, Shape
  PROVE  ReadyOnlyWhenDecided'
<1>1. ASSUME NEW g \in Flows PROVE SetupOrder(g)' /\ Announced(g)'
  <2>1. SetupOrder(g) /\ Announced(g) BY DEF ReadyOnlyWhenDecided, SetupOrder, Announced
  <2> QED BY <2>1, SetupOrderStep, AnnouncedStep
<1> QED BY <1>1 DEF ReadyOnlyWhenDecided, SetupOrder, Announced

LEMMA InitIInv == Init => IInv
<1> SUFFICES ASSUME Init PROVE IInv
  OBVIOUS
<1>1. /\ flows = [f \in Flows |-> NoRecord] /\ ready = [f \in Flows |-> 0]
      /\ aml = [r \in AMLRequests |-> NoAMLRequest]
      /\ credit = [r \in CreditRequests |-> NoCreditRequest]
      /\ legal = [r \in LegalRequests |-> NoLegalRequest]
  BY DEF Init, RegistryInit, AMLInit, CreditInit, LegalInit
<1>2. TypeOK /\ Linked BY InitTyped
<1>3. Fresh
  BY <1>1, FlowsAssumption DEF Fresh, NoAMLRequest, NoCreditRequest, NoLegalRequest
<1>4. ASSUME NEW f \in Flows
      PROVE  Passed(f) = {} /\ Failed(f) = {} /\ RejectedRequests(f) = {}
  <2>1. \A s \in {"Cleared", "Approved", "Executed", "Rejected"} :
          ~AMLDecided(f, s) /\ ~CreditDecided(f, s) /\ ~LegalDecided(f, s)
    BY <1>1
       DEF AMLDecided, CreditDecided, LegalDecided, NoAMLRequest, NoCreditRequest,
           NoLegalRequest
  <2>2. AMLRejections(f) = {} /\ CreditRejections(f) = {} /\ LegalRejections(f) = {}
    BY <1>1
       DEF AMLRejections, CreditRejections, LegalRejections, NoAMLRequest,
           NoCreditRequest, NoLegalRequest
  <2> QED BY <2>1, <2>2 DEF Passed, Failed, RejectedRequests
<1>5. PhasesBacked BY <1>1, <1>4 DEF PhasesBacked, NoRecord
<1>6. TerminatedByRejection BY <1>1, <1>4 DEF TerminatedByRejection, NoRecord
<1>7. OneRejection BY <1>4 DEF OneRejection
<1>8. ReadyOnlyWhenDecided
  <2>1. ASSUME NEW f \in Flows PROVE SetupOrder(f) /\ Announced(f)
    <3>1. flows[f].phases = {} /\ ready[f] = 0 BY <1>1 DEF NoRecord
    <3>2. "AML_CLEARED" \in AllPhases BY DEF AllPhases, ReviewPhases
    <3> QED BY <3>1, <3>2 DEF SetupOrder, Announced
  <2> QED BY <2>1 DEF ReadyOnlyWhenDecided, SetupOrder, Announced
<1> QED BY <1>2, <1>3, <1>5, <1>6, <1>7, <1>8 DEF IInv

LEMMA NextIInv == IInv /\ [Next]_vars => IInv'
<1> SUFFICES ASSUME IInv, [Next]_vars PROVE IInv'
  OBVIOUS
<1> USE DEF IInv
<1>1. TypeOK' /\ Linked' BY NextTyped
<1>2. Fresh' BY FreshStep
<1>3. Shape BY NextShape
<1>4. PhasesBacked' BY <1>3, PhasesBackedStep
<1>5. TerminatedByRejection' BY <1>3, TerminatedByRejectionStep
<1>6. OneRejection' BY <1>3, OneRejectionStep
<1>7. ReadyOnlyWhenDecided' BY <1>3, ReadyOnlyWhenDecidedStep
<1> QED BY <1>1, <1>2, <1>4, <1>5, <1>6, <1>7

(* The registry and the three oracles agree in every reachable state: the  *)
(* conjuncts of IInv are the invariants the runs check.                    *)
THEOREM DecisionsAgree ==
  Spec => [](PhasesBacked /\ TerminatedByRejection /\ OneRejection /\ ReadyOnlyWhenDecided)
<1>1. IInv => PhasesBacked /\ TerminatedByRejection /\ OneRejection /\ ReadyOnlyWhenDecided
  BY DEF IInv
<1> QED BY <1>1, InitIInv, NextIInv, PTL DEF Spec

(* The reject that comes second never takes effect.                        *)
COROLLARY OneRejectionAlways == Spec => []OneRejection
BY DecisionsAgree, PTL

(* Set-up never runs ahead of the reviews or out of its order.             *)
COROLLARY SetupWaits == Spec => []ReadyOnlyWhenDecided
BY DecisionsAgree, PTL

-----------------------------------------------------------------------------
(* A terminated flow is frozen.                                            *)

FrozenStep ==
  \A f \in Flows : flows[f].terminated =>
    /\ flows'[f] = flows[f]
    /\ ready'[f] = ready[f]
    /\ \A r \in AMLRequests : aml[r].flow = f => aml'[r] = aml[r]
    /\ \A r \in CreditRequests : credit[r].flow = f => credit'[r] = credit[r]
    /\ \A r \in LegalRequests : legal[r].flow = f =>
         legal'[r] = legal[r] /\ versions'[r] = versions[r]

LEMMA FrozenRecord ==
  ASSUME IInv, Shape, NEW g \in Flows, flows[g].terminated
  PROVE  flows'[g] = flows[g] /\ ready'[g] = ready[g]
<1>0. RegistryTypeOK BY DEF IInv, TypeOK
<1>1. flows[g].created BY DEF IInv, Fresh, NoRecord
<1>2. CASE QuietShape BY <1>2 DEF QuietShape
<1>3. ASSUME NEW f \in Flows, OpenShape(f)
      PROVE  flows'[g] = flows[g] /\ ready'[g] = ready[g]
  <2>1. g # f BY <1>1, <1>3 DEF OpenShape, InitiateOnboarding
  <2> QED BY <1>0, <1>3, <2>1, OpenEffect DEF OpenShape, IInv
<1>4. ASSUME NEW f \in Flows, NEW o, NEW phase, SetPhaseComplete(o, f, phase)
      PROVE  flows'[g] = flows[g] /\ ready'[g] = ready[g]
  <2>1. g # f BY <1>4 DEF SetPhaseComplete, IsActive
  <2>2. flows'[g] = flows[g] BY <1>0, <1>4, <2>1, SetPhaseFlows
  <2>3. ready'[g] = ready[g] BY <1>0, <1>4, <2>1, SetPhaseReady
  <2> QED BY <2>2, <2>3
<1>5. ASSUME NEW f \in Flows, NEW o, Terminate(o, f)
      PROVE  flows'[g] = flows[g] /\ ready'[g] = ready[g]
  <2>1. g # f BY <1>5 DEF Terminate, IsActive
  <2> QED BY <1>0, <1>5, <2>1, TerminateEffect
<1>6. ASSUME NEW f \in Flows, SetupShape(f)
      PROVE  flows'[g] = flows[g] /\ ready'[g] = ready[g]
  BY <1>4, <1>6, SetupEffect DEF SetupShape
<1> QED BY <1>2, <1>3, <1>4, <1>5, <1>6 DEF Shape, PassShape, FailShape

LEMMA NextFrozen == IInv /\ [Next]_vars => FrozenStep
<1> SUFFICES ASSUME IInv, [Next]_vars, NEW f \in Flows, flows[f].terminated
             PROVE  /\ flows'[f] = flows[f]
                    /\ ready'[f] = ready[f]
                    /\ \A r \in AMLRequests : aml[r].flow = f => aml'[r] = aml[r]
                    /\ \A r \in CreditRequests : credit[r].flow = f => credit'[r] = credit[r]
                    /\ \A r \in LegalRequests : legal[r].flow = f =>
                         legal'[r] = legal[r] /\ versions'[r] = versions[r]
  BY DEF FrozenStep
<1>0. TypeOK /\ Linked BY DEF IInv
<1>1. flows'[f] = flows[f] /\ ready'[f] = ready[f] BY <1>0, FrozenRecord, NextShape
<1>2. ~IsActive(f) /\ f # NoFlow BY FlowsAssumption DEF IsActive
<1>3. ASSUME NEW r \in AMLRequests, aml[r].flow = f PROVE aml'[r] = aml[r]
  <2>1. CASE UNCHANGED aml BY <2>1
  <2>2. ASSUME NEW q \in AMLRequests, AMLEffect(q) PROVE aml'[r] = aml[r]
    BY <1>2, <1>3, <2>2 DEF AMLEffect, AMLQuiet, AMLPass, AMLFail, AMLDecides, IsActive
  <2> QED BY <1>0, <2>1, <2>2, NextEffect
<1>4. ASSUME NEW r \in CreditRequests, credit[r].flow = f
      PROVE  credit'[r] = credit[r]
  <2>1. CASE UNCHANGED credit BY <2>1
  <2>2. ASSUME NEW q \in CreditRequests, CreditEffect(q)
        PROVE  credit'[r] = credit[r]
    BY <1>2, <1>4, <2>2
       DEF CreditEffect, CreditQuiet, CreditPass, CreditFail, CreditDecides, IsActive
  <2> QED BY <1>0, <2>1, <2>2, NextEffect
<1>5. ASSUME NEW r \in LegalRequests, legal[r].flow = f
      PROVE  legal'[r] = legal[r] /\ versions'[r] = versions[r]
  <2>1. CASE UNCHANGED legalVars BY <2>1
  <2>2. ASSUME NEW q \in LegalRequests, LegalEffect(q)
        PROVE  legal'[r] = legal[r] /\ versions'[r] = versions[r]
    BY <1>2, <1>5, <2>2
       DEF LegalEffect, LegalQuiet, LegalPass, LegalFail, LegalDecides, IsActive
  <2> QED BY <1>0, <2>1, <2>2, NextEffect
<1> QED BY <1>1, <1>3, <1>4, <1>5

(* TERMINATED is absorbing for everything that belongs to the flow.        *)
THEOREM Frozen == Spec => TerminatedFlowFrozen
<1>1. Spec => [][FrozenStep]_vars
  BY InitIInv, NextIInv, NextFrozen, PTL DEF Spec
<1> QED BY <1>1, PTL DEF TerminatedFlowFrozen, FrozenStep

-----------------------------------------------------------------------------
(* A signed text stays: a request carries a signature from the moment its  *)
(* review is with the humans only, and every call that changes a text      *)
(* wants an earlier status.                                                *)

AfterReview == {"InHumanReview", "Escalated", "Executed", "Rejected"}
Signed(r) == legal[r].bankApproved \/ legal[r].clientApproved
SignedLate == \A r \in LegalRequests : Signed(r) => legal[r].status \in AfterReview

KeepsText(r) ==
  /\ legal'[r].latest = legal[r].latest
  /\ versions'[r] = versions[r]
  /\ legal[r].bankApproved => legal'[r].bankApproved
  /\ legal[r].clientApproved => legal'[r].clientApproved

SignedStep == \A r \in LegalRequests : Signed(r) => KeepsText(r)

LEMMA LegalStepSigned ==
  ASSUME LegalTypeOK, SignedLate, NEW r \in LegalRequests, LegalStep(r)
  PROVE  /\ legal'[r].bankApproved \/ legal'[r].clientApproved
              => legal'[r].status \in AfterReview
         /\ Signed(r) => KeepsText(r)
         /\ \A q \in LegalRequests \ {r} : legal'[q] = legal[q] /\ versions'[q] = versions[q]
<1> USE DEF LegalTypeOK, LegalRecord
<1>0. legal[r].status \notin AfterReview => ~legal[r].bankApproved /\ ~legal[r].clientApproved
  BY DEF SignedLate, Signed
<1>1. ASSUME NEW f \in Flows, NEW bank \in Agents, NEW client \in ClientAgents,
             RequestLegalReview(r, f, bank, client)
      PROVE  /\ ~legal[r].bankApproved /\ ~legal[r].clientApproved
             /\ ~legal'[r].bankApproved /\ ~legal'[r].clientApproved
             /\ \A q \in LegalRequests \ {r} :
                  legal'[q] = legal[q] /\ versions'[q] = versions[q]
  BY <1>0, <1>1 DEF RequestLegalReview, AfterReview
<1>2. ASSUME NEW doc \in Docs, IssueDraft(r, doc) \/ SubmitMarkup(r, doc)
      PROVE  /\ ~legal[r].bankApproved /\ ~legal[r].clientApproved
             /\ ~legal'[r].bankApproved /\ ~legal'[r].clientApproved
             /\ \A q \in LegalRequests \ {r} :
                  legal'[q] = legal[q] /\ versions'[q] = versions[q]
  <2>1. CASE IssueDraft(r, doc)
    BY <1>0, <2>1 DEF IssueDraft, AfterReview
  <2>2. CASE SubmitMarkup(r, doc)
    BY <1>0, <2>2 DEF SubmitMarkup, AfterReview
  <2> QED BY <1>2, <2>1, <2>2
<1>3. ASSUME NEW doc \in Docs, LegalSubmitRecommendation(r, doc)
      PROVE  /\ ~legal[r].bankApproved /\ ~legal[r].clientApproved
             /\ legal'[r].status \in AfterReview
             /\ \A q \in LegalRequests \ {r} :
                  legal'[q] = legal[q] /\ versions'[q] = versions[q]
  BY <1>0, <1>3 DEF LegalSubmitRecommendation, AfterReview
<1>4. ASSUME \/ LegalEscalate(r) \/ Execute(r)
             \/ \E caller \in Accounts : \/ ApproveBankSide(r, caller)
                                         \/ ApproveClientSide(r, caller)
                                         \/ LegalReject(r, caller)
      PROVE  /\ legal'[r].status \in AfterReview
             /\ KeepsText(r)
             /\ \A q \in LegalRequests \ {r} :
                  legal'[q] = legal[q] /\ versions'[q] = versions[q]
  <2>1. CASE LegalEscalate(r)
    BY <2>1 DEF LegalEscalate, AfterReview, KeepsText
  <2>2. CASE Execute(r)
    BY <2>2 DEF Execute, AfterReview, KeepsText
  <2>3. CASE \E caller \in Accounts : ApproveBankSide(r, caller)
    BY <2>3 DEF ApproveBankSide, LegalUnderReview, AfterReview, KeepsText
  <2>4. CASE \E caller \in Accounts : ApproveClientSide(r, caller)
    BY <2>4 DEF ApproveClientSide, LegalUnderReview, AfterReview, KeepsText
  <2>5. CASE \E caller \in Accounts : LegalReject(r, caller)
    BY <2>5 DEF LegalReject, AfterReview, KeepsText
  <2> QED BY <1>4, <2>1, <2>2, <2>3, <2>4, <2>5
<1> QED BY <1>1, <1>2, <1>3, <1>4 DEF LegalStep, Signed

LEMMA NextSigned == TypeOK /\ SignedLate /\ [Next]_vars => SignedLate' /\ SignedStep
<1> SUFFICES ASSUME TypeOK, SignedLate, [Next]_vars PROVE SignedLate' /\ SignedStep
  OBVIOUS
<1>1. CASE UNCHANGED legalVars
  BY <1>1 DEF legalVars, SignedLate, SignedStep, Signed, KeepsText
<1>2. CASE LegalNext
  <2>1. PICK r \in LegalRequests : LegalStep(r) BY <1>2 DEF LegalNext
  <2>2. LegalTypeOK BY DEF TypeOK
  <2> QED BY <2>1, <2>2, LegalStepSigned DEF SignedLate, SignedStep, Signed, KeepsText
<1> QED BY <1>1, <1>2 DEF Next, vars

(* No text changes hands once a human has signed.                          *)
THEOREM SignedTextTheorem == Spec => SignedTextFixed
<1>1. Init => SignedLate BY DEF Init, LegalInit, NoLegalRequest, SignedLate, Signed
<1>2. Spec => [][SignedStep]_vars
  BY <1>1, InitTyped, NextTyped, NextSigned, PTL DEF Spec
<1> QED BY <1>2, PTL DEF SignedTextFixed, SignedStep, Signed, KeepsText
-----------------------------------------------------------------------------
(* No open request is stuck.  Each status a request can be in has a call   *)
(* that takes it on; MarkupSubmitted would have none, and no call assigns  *)
(* it.  The human such a call may need is none of the two agents.          *)
NoMarkup == \A r \in LegalRequests : legal[r].status # "MarkupSubmitted"

LEMMA NextNoMarkup == TypeOK /\ NoMarkup /\ [Next]_vars => NoMarkup'
<1> SUFFICES ASSUME TypeOK, NoMarkup, [Next]_vars PROVE NoMarkup'
  OBVIOUS
<1> USE DEF NoMarkup
<1>1. CASE UNCHANGED legalVars BY <1>1
<1>2. CASE LegalNext
  <2>1. PICK r \in LegalRequests : LegalStep(r) BY <1>2 DEF LegalNext
  <2> USE DEF TypeOK, LegalTypeOK, LegalRecord
  <2>2. ASSUME NEW f \in Flows, NEW bank \in Agents, NEW client \in ClientAgents,
               RequestLegalReview(r, f, bank, client)
        PROVE  NoMarkup'
    BY <2>2 DEF RequestLegalReview
  <2>3. ASSUME NEW doc \in Docs, IssueDraft(r, doc) PROVE NoMarkup' BY <2>3 DEF IssueDraft
  <2>4. ASSUME NEW doc \in Docs, SubmitMarkup(r, doc) PROVE NoMarkup' BY <2>4 DEF SubmitMarkup
  <2>5. ASSUME NEW doc \in Docs, LegalSubmitRecommendation(r, doc) PROVE NoMarkup'
    BY <2>5 DEF LegalSubmitRecommendation
  <2>6. ASSUME LegalEscalate(r) PROVE NoMarkup' BY <2>6 DEF LegalEscalate
  <2>7. ASSUME NEW caller \in Accounts, ApproveBankSide(r, caller) PROVE NoMarkup'
    BY <2>7 DEF ApproveBankSide
  <2>8. ASSUME NEW caller \in Accounts, ApproveClientSide(r, caller) PROVE NoMarkup'
    BY <2>8 DEF ApproveClientSide
  <2>9. ASSUME Execute(r) PROVE NoMarkup' BY <2>9 DEF Execute
  <2>10. ASSUME NEW caller \in Accounts, LegalReject(r, caller) PROVE NoMarkup'
    BY <2>10 DEF LegalReject
  <2> QED BY <2>1, <2>2, <2>3, <2>4, <2>5, <2>6, <2>7, <2>8, <2>9, <2>10 DEF LegalStep
<1> QED BY <1>1, <1>2 DEF Next, vars

LEMMA InPlaceActs ==
  ASSUME NEW bank, NEW client, NEW oracle, IdentityTypeOK, AgentsInPlace(bank, client, oracle)
  PROVE  /\ OnlyBankAgent(bank, oracle) /\ CheckCardHash(bank)
         /\ OnlyClientAgent(client) /\ CheckCardHash(client)
         /\ \E caller \in Accounts : /\ caller # GetAgentWallet(bank)
                                     /\ caller # GetAgentWallet(client)
<1>1. {bank, client} \subseteq Agents /\ GetAgentWallet(bank) = bank
      /\ GetAgentWallet(client) = client
  BY DEF AgentsInPlace, IdentityTypeOK, GetAgentWallet
<1>2. PICK human \in Humans : human \notin Agents BY AgentsAssumption
<1>3. human \in Accounts /\ human # bank /\ human # client BY <1>1, <1>2 DEF Accounts
<1> QED
  BY <1>1, <1>3 DEF AgentsInPlace, OnlyBankAgent, OnlyClientAgent, CheckCardHash

LEMMA NoneStuck == TypeOK /\ NoMarkup => NoRequestStuck
<1> SUFFICES ASSUME TypeOK, NoMarkup PROVE NoRequestStuck
  OBVIOUS
<1> USE DEF TypeOK
<1>1. ASSUME NEW r \in AMLRequests,
             AMLActive(r), aml[r].status \notin {"Cleared", "Rejected"},
             AgentsInPlace(aml[r].bankAgent, aml[r].clientAgent, "aml")
      PROVE  AMLMayRecommend(r) \/ \E caller \in Accounts : AMLMayClear(r, caller)
  <2>1. aml[r].status \in {"Pending", "DataRequested", "InHumanReview", "Escalated"}
    BY <1>1 DEF AMLTypeOK, AMLRecord, AMLStatus, AMLActive
  <2>2. CASE aml[r].status \in {"Pending", "DataRequested"}
    BY <1>1, <2>2, InPlaceActs
  <2>3. CASE aml[r].status \in {"InHumanReview", "Escalated"}
    BY <1>1, <2>3, InPlaceActs DEF AMLUnderReview, AMLActive, AgentsInPlace
  <2> QED BY <2>1, <2>2, <2>3
<1>2. ASSUME NEW r \in CreditRequests,
             CreditActive(r), credit[r].status \notin {"Approved", "Rejected"},
             AgentsInPlace(credit[r].bankAgent, credit[r].clientAgent, "credit")
      PROVE  \/ CreditMayRecommend(r) \/ MayCounter(r)
             \/ \E caller \in Accounts : CreditMayApprove(r, caller)
  <2>1. credit[r].status \in {"Pending", "DataRequested", "Negotiating",
                              "InHumanReview", "Escalated"}
    BY <1>2 DEF CreditTypeOK, CreditRecord, CreditStatus, CreditActive
  <2>2. CASE credit[r].status \in {"Pending", "DataRequested"}
    BY <1>2, <2>2, InPlaceActs
  <2>3. CASE credit[r].status = "Negotiating"
    BY <1>2, <2>3, InPlaceActs
  <2>4. CASE credit[r].status \in {"InHumanReview", "Escalated"}
    BY <1>2, <2>4, InPlaceActs DEF CreditUnderReview, CreditActive, AgentsInPlace
  <2> QED BY <2>1, <2>2, <2>3, <2>4
<1>3. ASSUME NEW r \in LegalRequests,
             LegalActive(r), legal[r].status \notin {"Executed", "Rejected"},
             AgentsInPlace(legal[r].bankAgent, legal[r].clientAgent, "legal")
      PROVE  \/ LegalMayRecommend(r) \/ MaySubmitMarkup(r) \/ MayExecute(r)
             \/ \E caller \in Accounts :
                  MayApproveBankSide(r, caller) \/ MayApproveClientSide(r, caller)
  <2>1. legal[r].status \in {"Pending", "DraftIssued", "InHumanReview", "Escalated"}
    BY <1>3 DEF LegalTypeOK, LegalRecord, LegalStatus, LegalActive, NoMarkup
  <2>2. CASE legal[r].status = "Pending"
    BY <1>3, <2>2, InPlaceActs
  <2>3. CASE legal[r].status = "DraftIssued"
    BY <1>3, <2>3, InPlaceActs
  <2>4. CASE LegalUnderReview(r) /\ legal[r].bankApproved /\ legal[r].clientApproved
    BY <1>3, <2>4 DEF LegalUnderReview, LegalActive, AgentsInPlace
  <2>5. CASE LegalUnderReview(r) /\ ~(legal[r].bankApproved /\ legal[r].clientApproved)
    BY <1>3, <2>5, InPlaceActs
  <2> QED BY <1>3, <2>1, <2>2, <2>3, <2>4, <2>5 DEF LegalUnderReview
<1> QED BY <1>1, <1>2, <1>3 DEF NoRequestStuck

(* Whatever the agents, the humans and the owners did before, an open      *)
(* request whose agents are in place has a call that takes it on, also     *)
(* when the round counters are exhausted.                                  *)
THEOREM NotStuck == Spec => []NoRequestStuck
<1>1. Init => NoMarkup BY DEF Init, LegalInit, NoLegalRequest, NoMarkup
<1> QED BY <1>1, InitTyped, NextTyped, NextNoMarkup, NoneStuck, PTL DEF Spec

-----------------------------------------------------------------------------
(* The onboarding contracts implement OnboardingFlow: their initial state  *)
(* is one of its initial states, and every transaction is, seen through    *)
(* the decisions it records, one of its steps or a stutter.                *)
Opened == {f \in Flows : flows[f].created}
PassedAll == [f \in Flows |-> Passed(f)]
FailedAll == [f \in Flows |-> Failed(f)]
SetupAll == [f \in Flows |-> SetupDone(f)]

LEMMA InitRefines == Init => Abstract!Init
<1> SUFFICES ASSUME Init PROVE Abstract!Init
  OBVIOUS
<1>1. IInv BY InitIInv
<1>2. flows = [f \in Flows |-> NoRecord] BY DEF Init, RegistryInit
<1>3. ASSUME NEW f \in Flows
      PROVE  /\ ~flows[f].created
             /\ Passed(f) = {}
             /\ Failed(f) = {}
             /\ SetupDone(f) = 0
  <2>1. flows[f] = NoRecord BY <1>2
  <2>2. flows[f].phases = {} /\ ~flows[f].created /\ ~flows[f].terminated
    BY <2>1 DEF NoRecord
  <2>3. Failed(f) = {} BY <1>1, <2>2 DEF IInv, TerminatedByRejection
  <2>4. \A t \in Teams : t \notin Passed(f) BY <1>1, <2>2 DEF IInv, PhasesBacked
  <2>5. Passed(f) = {} BY <2>4 DEF Passed
  <2> QED BY <2>2, <2>3, <2>5 DEF SetupDone
<1> QED BY <1>3 DEF Abstract!Init

(* What a set-up call does to the number of set-up steps taken.            *)
LEMMA SetupDoneStep ==
  ASSUME IInv, NEW f \in Flows, SetupShape(f)
  PROVE  /\ SetupDone(f) < 3
         /\ SetupDone(f)' = SetupDone(f) + 1
         /\ \A g \in Flows \ {f} : SetupDone(g)' = SetupDone(g)
<1>0. RegistryTypeOK BY DEF IInv, TypeOK
<1>1. PICK phase \in SetupPhases :
        /\ SetPhaseComplete("setup", f, phase)
        /\ phase \notin flows[f].phases
        /\ phase = "ACCOUNT_SETUP_DONE" => "ENTITY_SETUP_DONE" \in flows[f].phases
        /\ phase = "PRODUCT_SETUP_DONE" => "ACCOUNT_SETUP_DONE" \in flows[f].phases
  BY SetupEffect DEF SetupShape
<1>a. ASSUME NEW g \in Flows
      PROVE  /\ flows'[g].phases = IF g = f THEN flows[g].phases \cup {phase}
                                            ELSE flows[g].phases
             /\ g # f => flows'[g] = flows[g]
  BY <1>0, <1>1, SetPhaseFlows
<1>2. flows'[f].phases = flows[f].phases \cup {phase} BY <1>a
<1>3. /\ "ACCOUNT_SETUP_DONE" \in flows[f].phases => "ENTITY_SETUP_DONE" \in flows[f].phases
      /\ "PRODUCT_SETUP_DONE" \in flows[f].phases => "ACCOUNT_SETUP_DONE" \in flows[f].phases
  BY DEF IInv, ReadyOnlyWhenDecided
<1>4. SetupDone(f) < 3 /\ SetupDone(f)' = SetupDone(f) + 1
  BY <1>1, <1>2, <1>3 DEF SetupDone, SetupPhases
<1>5. ASSUME NEW g \in Flows \ {f} PROVE SetupDone(g)' = SetupDone(g)
  <2>1. flows'[g] = flows[g] BY <1>a
  <2> QED BY <2>1 DEF SetupDone
<1> QED BY <1>4, <1>5

(* A review team's decision and a rejection leave the set-up steps alone.  *)
LEMMA SetupDoneSame ==
  ASSUME NEW g, flows'[g].phases \cap SetupPhases = flows[g].phases \cap SetupPhases
  PROVE  SetupDone(g)' = SetupDone(g)
<1>1. \A p \in SetupPhases : p \in flows'[g].phases <=> p \in flows[g].phases
  OBVIOUS
<1> QED BY <1>1 DEF SetupDone, SetupPhases

LEMMA OpenRefines ==
  ASSUME IInv, NEW f \in Flows, OpenShape(f)
  PROVE  Abstract!Open(f)
<1>0. RegistryTypeOK /\ Fresh BY DEF IInv, TypeOK
<1>1. InitiateOnboarding(f) BY DEF OpenShape
<1>2. \A g \in Flows : /\ flows'[g].phases = flows[g].phases
                       /\ flows'[g].created <=> flows[g].created \/ g = f
  BY <1>0, <1>1, OpenEffect
<1>3. Opened' = Opened \cup {f} BY <1>2 DEF Opened
<1>4. f \notin Opened BY <1>1 DEF Opened, InitiateOnboarding
<1>5. PassedAll' = PassedAll /\ FailedAll' = FailedAll
  BY DEF OpenShape, SamePassed, SameFailed, PassedAll, FailedAll
<1>6. \A g \in Flows : SetupDone(g)' = SetupDone(g) BY <1>2, SetupDoneSame
<1>7. SetupAll' = SetupAll BY <1>6 DEF SetupAll
<1> QED
  BY <1>3, <1>4, <1>5, <1>7 DEF Abstract!Open, Opened, PassedAll, FailedAll, SetupAll

LEMMA LiveAbstractly ==
  ASSUME IInv, NEW f \in Flows, IsActive(f)
  PROVE  Abstract!Live(f)
<1>1. Failed(f) = {} BY LiveFlowHasNoRejection DEF IInv
<1> QED BY <1>1 DEF Abstract!Live, IsActive

LEMMA PassRefines ==
  ASSUME IInv, NEW f \in Flows, NEW t \in Teams, PassShape(t, f)
  PROVE  Abstract!Pass(f, t)
<1>0. RegistryTypeOK BY DEF IInv, TypeOK
<1>1. SetPhaseComplete(t, f, PhaseOf[t]) /\ Abstract!Live(f)
  BY LiveAbstractly DEF PassShape
<1>2. PhaseOf[t] \notin SetupPhases BY DEF PhaseOf, Teams, SetupPhases
<1>3. ASSUME NEW g \in Flows
      PROVE  flows'[g].created = flows[g].created /\ SetupDone(g)' = SetupDone(g)
  <2>1. /\ flows'[g].created = flows[g].created
        /\ flows'[g].phases = IF g = f THEN flows[g].phases \cup {PhaseOf[t]}
                                       ELSE flows[g].phases
    BY <1>0, <1>1, SetPhaseFlows
  <2> QED BY <1>2, <2>1, SetupDoneSame
<1>4. Opened' = Opened BY <1>3 DEF Opened
<1>5. SetupAll' = SetupAll BY <1>3 DEF SetupAll
<1>6. FailedAll' = FailedAll BY DEF PassShape, SameFailed, FailedAll
<1>7. PassedAll' = [PassedAll EXCEPT ![f] = @ \cup {t}]
  <2>1. \A g \in Flows : Passed(g)' = IF g = f THEN Passed(g) \cup {t} ELSE Passed(g)
    BY DEF PassShape
  <2> QED BY <2>1 DEF PassedAll
<1> QED
  BY <1>1, <1>4, <1>5, <1>6, <1>7
     DEF Abstract!Pass, Opened, PassedAll, FailedAll, SetupAll

LEMMA FailRefines ==
  ASSUME IInv, NEW f \in Flows, NEW t \in Teams, NEW r, FailShape(t, f, r)
  PROVE  Abstract!Fail(f, t)
<1>0. RegistryTypeOK BY DEF IInv, TypeOK
<1>1. Terminate(t, f) /\ IsActive(f) /\ Abstract!Live(f)
  BY LiveAbstractly DEF FailShape
<1>2. \A g \in Flows : /\ flows'[g].phases = flows[g].phases
                       /\ flows'[g].created = flows[g].created
  BY <1>0, <1>1, TerminateEffect
<1>3. Opened' = Opened BY <1>2 DEF Opened
<1>4. \A g \in Flows : SetupDone(g)' = SetupDone(g) BY <1>2, SetupDoneSame
<1>5. SetupAll' = SetupAll BY <1>4 DEF SetupAll
<1>6. PassedAll' = PassedAll BY DEF FailShape, SamePassed, PassedAll
<1>7. Failed(f) = {} BY <1>1, LiveFlowHasNoRejection DEF IInv
<1>8. FailedAll' = [FailedAll EXCEPT ![f] = {t}]
  <2>1. \A g \in Flows : Failed(g)' = IF g = f THEN {t} ELSE Failed(g)
    BY <1>7 DEF FailShape
  <2> QED BY <2>1 DEF FailedAll
<1> QED
  BY <1>1, <1>3, <1>5, <1>6, <1>8
     DEF Abstract!Fail, Opened, PassedAll, FailedAll, SetupAll

LEMMA SetUpRefines ==
  ASSUME IInv, IInv', NEW f \in Flows, SetupShape(f)
  PROVE  Abstract!SetUp(f)
<1>0. RegistryTypeOK BY DEF IInv, TypeOK
<1>1. PICK phase \in SetupPhases : SetPhaseComplete("setup", f, phase)
  BY SetupEffect DEF SetupShape
<1>2. Abstract!Live(f) BY SetupEffect, LiveAbstractly DEF SetupShape
<1>3. ASSUME NEW g \in Flows
      PROVE  /\ flows'[g].created = flows[g].created
             /\ flows'[g].phases = IF g = f THEN flows[g].phases \cup {phase}
                                            ELSE flows[g].phases
  BY <1>0, <1>1, SetPhaseFlows
<1>4. Opened' = Opened BY <1>3 DEF Opened
<1>5. PassedAll' = PassedAll /\ FailedAll' = FailedAll
  BY DEF SetupShape, SamePassed, SameFailed, PassedAll, FailedAll
<1>6. Passed(f) = Teams
  <2>1. phase \in flows'[f].phases BY <1>3
  <2>2. flows'[f].phases \cap SetupPhases # {} BY <2>1
  <2>3. Passed(f)' = Teams BY <2>2 DEF IInv, ReadyOnlyWhenDecided
  <2> QED BY <2>3 DEF SetupShape, SamePassed
<1>7. SetupDone(f) < 3 /\ SetupAll' = [SetupAll EXCEPT ![f] = @ + 1]
  BY SetupDoneStep DEF SetupAll
<1> QED
  BY <1>2, <1>4, <1>5, <1>6, <1>7
     DEF Abstract!SetUp, Abstract!SetupSteps, Opened, PassedAll, FailedAll, SetupAll

LEMMA QuietRefines == QuietShape => UNCHANGED Abstract!flowVars
<1> SUFFICES ASSUME QuietShape PROVE UNCHANGED Abstract!flowVars
  OBVIOUS
<1>1. Opened' = Opened BY DEF QuietShape, Opened
<1>2. PassedAll' = PassedAll BY DEF QuietShape, SamePassed, PassedAll
<1>3. FailedAll' = FailedAll BY DEF QuietShape, SameFailed, FailedAll
<1>4. SetupAll' = SetupAll BY DEF QuietShape, SetupDone, SetupAll
<1> QED
  BY <1>1, <1>2, <1>3, <1>4 DEF Abstract!flowVars, Opened, PassedAll, FailedAll, SetupAll

LEMMA NextRefines ==
  IInv /\ IInv' /\ [Next]_vars => [Abstract!Next]_(Abstract!flowVars)
<1> SUFFICES ASSUME IInv, IInv', [Next]_vars
             PROVE  Abstract!Next \/ UNCHANGED Abstract!flowVars
  OBVIOUS
<1>1. Shape BY NextShape DEF IInv
<1>2. CASE QuietShape BY <1>2, QuietRefines
<1>3. ASSUME NEW f \in Flows, OpenShape(f) PROVE Abstract!Next
  BY <1>3, OpenRefines DEF Abstract!Next
<1>4. ASSUME NEW f \in Flows, SetupShape(f) PROVE Abstract!Next
  BY <1>4, SetUpRefines DEF Abstract!Next
<1>5. ASSUME NEW f \in Flows, NEW t \in Teams, PassShape(t, f) PROVE Abstract!Next
  BY <1>5, PassRefines DEF Abstract!Next
<1>6. ASSUME NEW f \in Flows, NEW t \in Teams, NEW r, FailShape(t, f, r)
      PROVE  Abstract!Next
  BY <1>6, FailRefines DEF Abstract!Next
<1> QED BY <1>1, <1>2, <1>3, <1>4, <1>5, <1>6 DEF Shape

(* For every set of flows, requests, agents and document versions, the     *)
(* contracts implement the onboarding flow they promise.                   *)
THEOREM Refinement == Spec => RefinesOnboardingFlow
<1>1. Spec => Abstract!Init /\ [][Abstract!Next]_(Abstract!flowVars)
  BY InitRefines, InitIInv, NextIInv, NextRefines, PTL DEF Spec
<1> QED BY <1>1 DEF RefinesOnboardingFlow, Abstract!Spec
-----------------------------------------------------------------------------
(* Why the transactions run out.  Every request and every flow has a rank, *)
(* a natural number made of the rounds it may still take and the stage it  *)
(* is in.  No step raises a rank and each transaction lowers one, so a     *)
(* system makes at most as many transactions as the ranks add up to.       *)

Stage(status) ==
  IF status \in {"DataRequested", "Negotiating", "DraftIssued"} THEN 5
  ELSE IF status \in {"Pending", "MarkupSubmitted"} THEN 4
  ELSE IF status = "InHumanReview" THEN 3
  ELSE IF status = "Escalated" THEN 2
  ELSE 1

Missing(done) == IF done THEN 0 ELSE 1

AMLRank(q) ==
  IF q.status = "None" THEN 2 * MaxRound + 5
  ELSE 2 * (MaxRound - q.dataRound) + Stage(q.status)

CreditRank(q) ==
  IF q.status = "None" THEN 4 * MaxRound + 5
  ELSE 2 * (MaxRound - q.dataRound) + 2 * (MaxRound - q.negotiationRound) + Stage(q.status)

LegalRank(q) ==
  IF q.status = "None" THEN 2 * MaxRound + 7
  ELSE 2 * (MaxRound - q.round) + Stage(q.status)
         + Missing(q.bankApproved) + Missing(q.clientApproved)

FlowRank(f) ==
  Missing(flows[f].created) + Missing(flows[f].terminated) + (3 - SetupDone(f))

Ranked ==
  /\ \A r \in AMLRequests : AMLRank(aml[r]) \in Nat
  /\ \A r \in CreditRequests : CreditRank(credit[r]) \in Nat
  /\ \A r \in LegalRequests : LegalRank(legal[r]) \in Nat
  /\ \A f \in Flows : FlowRank(f) \in Nat

NoneRises ==
  /\ \A r \in AMLRequests : AMLRank(aml'[r]) <= AMLRank(aml[r])
  /\ \A r \in CreditRequests : CreditRank(credit'[r]) <= CreditRank(credit[r])
  /\ \A r \in LegalRequests : LegalRank(legal'[r]) <= LegalRank(legal[r])
  /\ \A f \in Flows : FlowRank(f)' <= FlowRank(f)

OneFalls ==
  \/ \E r \in AMLRequests : AMLRank(aml'[r]) < AMLRank(aml[r])
  \/ \E r \in CreditRequests : CreditRank(credit'[r]) < CreditRank(credit[r])
  \/ \E r \in LegalRequests : LegalRank(legal'[r]) < LegalRank(legal[r])
  \/ \E f \in Flows : FlowRank(f)' < FlowRank(f)

Spends == NoneRises /\ OneFalls

(* A transaction on a flow or a request: every step but those by which the *)
(* owner toggles a permission and an agent changes its account.            *)
Transacts ==
  \/ (\E f \in Flows : InitiateOnboarding(f))
       /\ UNCHANGED <<identityVars, aml, credit, legalVars>>
  \/ AMLNext /\ UNCHANGED <<identityVars, credit, legalVars>>
  \/ CreditNext /\ UNCHANGED <<identityVars, aml, legalVars>>
  \/ LegalNext /\ UNCHANGED <<identityVars, aml, credit>>
  \/ SetupNext /\ UNCHANGED <<identityVars, aml, credit, legalVars>>

LEMMA TransactsIsNext == Transacts => Next
BY DEF Transacts, Next, RegistryNext

(* What is left of Next.                                                   *)
LEMMA NextTransacts ==
  ASSUME [Next]_vars
  PROVE  Transacts \/ UNCHANGED <<flows, aml, credit, legalVars>>
<1>1. ASSUME RegistryNext PROVE \/ \E f \in Flows : InitiateOnboarding(f)
                                \/ UNCHANGED flows
  BY <1>1 DEF RegistryNext, SetOracle
<1> QED BY <1>1 DEF Transacts, Next, vars, registryVars

LEMMA RanksAreNatural == TypeOK => Ranked
<1> SUFFICES ASSUME TypeOK PROVE Ranked
  OBVIOUS
<1> USE MaxRoundAssumption DEF TypeOK, Stage, Missing
<1>1. ASSUME NEW r \in AMLRequests PROVE AMLRank(aml[r]) \in Nat
  <2>1. aml[r].dataRound \in 0..MaxRound BY DEF AMLTypeOK, AMLRecord
  <2> QED BY <2>1 DEF AMLRank
<1>2. ASSUME NEW r \in CreditRequests PROVE CreditRank(credit[r]) \in Nat
  <2>1. credit[r].dataRound \in 0..MaxRound /\ credit[r].negotiationRound \in 0..MaxRound
    BY DEF CreditTypeOK, CreditRecord
  <2> QED BY <2>1 DEF CreditRank
<1>3. ASSUME NEW r \in LegalRequests PROVE LegalRank(legal[r]) \in Nat
  <2>1. legal[r].round \in 0..MaxRound BY DEF LegalTypeOK, LegalRecord
  <2> QED BY <2>1 DEF LegalRank
<1>4. ASSUME NEW f \in Flows PROVE FlowRank(f) \in Nat
  BY DEF FlowRank, SetupDone
<1> QED BY <1>1, <1>2, <1>3, <1>4 DEF Ranked

LEMMA AMLStepSpends ==
  ASSUME AMLTypeOK, NEW r \in AMLRequests, AMLStep(r)
  PROVE  AMLRank(aml'[r]) < AMLRank(aml[r])
<1> USE MaxRoundAssumption DEF Stage, AMLRank, AMLTypeOK, AMLRecord
<1>0. aml[r] \in AMLRecord OBVIOUS
<1>1. ASSUME NEW f \in Flows, NEW bank \in Agents, NEW client \in ClientAgents,
             RequestAMLReview(r, f, bank, client)
      PROVE  AMLRank(aml'[r]) < AMLRank(aml[r])
  BY <1>1 DEF RequestAMLReview
<1>2. ASSUME AMLRequestClientData(r) PROVE AMLRank(aml'[r]) < AMLRank(aml[r])
  BY <1>0, <1>2 DEF AMLRequestClientData
<1>3. ASSUME AMLFulfillDataRequest(r) PROVE AMLRank(aml'[r]) < AMLRank(aml[r])
  BY <1>0, <1>3 DEF AMLFulfillDataRequest
<1>4. ASSUME AMLSubmitRecommendation(r) PROVE AMLRank(aml'[r]) < AMLRank(aml[r])
  BY <1>0, <1>4 DEF AMLSubmitRecommendation
<1>5. ASSUME AMLEscalate(r) PROVE AMLRank(aml'[r]) < AMLRank(aml[r])
  BY <1>0, <1>5 DEF AMLEscalate
<1>6. ASSUME NEW caller \in Accounts, AMLClear(r, caller) \/ AMLReject(r, caller)
      PROVE  AMLRank(aml'[r]) < AMLRank(aml[r])
  BY <1>0, <1>6 DEF AMLClear, AMLReject, AMLUnderReview
<1> QED BY <1>1, <1>2, <1>3, <1>4, <1>5, <1>6 DEF AMLStep

LEMMA CreditStepSpends ==
  ASSUME CreditTypeOK, NEW r \in CreditRequests, CreditStep(r)
  PROVE  CreditRank(credit'[r]) < CreditRank(credit[r])
<1> USE MaxRoundAssumption DEF Stage, CreditRank, CreditTypeOK, CreditRecord
<1> DEFINE Falls == CreditRank(credit'[r]) < CreditRank(credit[r])
<1>0. credit[r] \in CreditRecord OBVIOUS
<1>1. ASSUME NEW f \in Flows, NEW bank \in Agents, NEW client \in ClientAgents,
             RequestCreditReview(r, f, bank, client)
      PROVE  Falls
  BY <1>1 DEF RequestCreditReview
<1>2. ASSUME CreditRequestClientData(r) PROVE Falls
  BY <1>0, <1>2 DEF CreditRequestClientData
<1>3. ASSUME CreditFulfillDataRequest(r) PROVE Falls
  BY <1>0, <1>3 DEF CreditFulfillDataRequest
<1>4. ASSUME ProposeTerms(r) PROVE Falls BY <1>0, <1>4 DEF ProposeTerms
<1>5. ASSUME SubmitCounterProposal(r) PROVE Falls BY <1>0, <1>5 DEF SubmitCounterProposal
<1>6. ASSUME AcceptTerms(r) PROVE Falls BY <1>0, <1>6 DEF AcceptTerms
<1>7. ASSUME CreditSubmitRecommendation(r) PROVE Falls
  BY <1>0, <1>7 DEF CreditSubmitRecommendation
<1>8. ASSUME CreditEscalate(r) PROVE Falls BY <1>0, <1>8 DEF CreditEscalate
<1>9. ASSUME NEW caller \in Accounts, CreditApprove(r, caller) \/ CreditReject(r, caller)
      PROVE  Falls
  BY <1>0, <1>9 DEF CreditApprove, CreditReject, CreditUnderReview
<1> QED BY <1>1, <1>2, <1>3, <1>4, <1>5, <1>6, <1>7, <1>8, <1>9 DEF CreditStep

LEMMA LegalStepSpends ==
  ASSUME LegalTypeOK, NEW r \in LegalRequests, LegalStep(r)
  PROVE  LegalRank(legal'[r]) < LegalRank(legal[r])
<1> USE MaxRoundAssumption DEF Stage, Missing, LegalRank, LegalTypeOK, LegalRecord
<1> DEFINE Falls == LegalRank(legal'[r]) < LegalRank(legal[r])
<1>0. legal[r] \in LegalRecord OBVIOUS
<1>1. ASSUME NEW f \in Flows, NEW bank \in Agents, NEW client \in ClientAgents,
             RequestLegalReview(r, f, bank, client)
      PROVE  Falls
  BY <1>1 DEF RequestLegalReview
<1>2. ASSUME NEW doc \in Docs, IssueDraft(r, doc) PROVE Falls BY <1>0, <1>2 DEF IssueDraft
<1>3. ASSUME NEW doc \in Docs, SubmitMarkup(r, doc) PROVE Falls BY <1>0, <1>3 DEF SubmitMarkup
<1>4. ASSUME NEW doc \in Docs, LegalSubmitRecommendation(r, doc) PROVE Falls
  BY <1>0, <1>4 DEF LegalSubmitRecommendation
<1>5. ASSUME LegalEscalate(r) PROVE Falls BY <1>0, <1>5 DEF LegalEscalate
<1>6. ASSUME NEW caller \in Accounts, ApproveBankSide(r, caller) PROVE Falls
  BY <1>0, <1>6 DEF ApproveBankSide, LegalUnderReview
<1>7. ASSUME NEW caller \in Accounts, ApproveClientSide(r, caller) PROVE Falls
  BY <1>0, <1>7 DEF ApproveClientSide, LegalUnderReview
<1>8. ASSUME Execute(r) PROVE Falls BY <1>0, <1>8 DEF Execute, LegalUnderReview
<1>9. ASSUME NEW caller \in Accounts, LegalReject(r, caller) PROVE Falls
  BY <1>0, <1>9 DEF LegalReject, LegalUnderReview
<1> QED BY <1>1, <1>2, <1>3, <1>4, <1>5, <1>6, <1>7, <1>8, <1>9 DEF LegalStep

(* A flow's record only moves forward.                                     *)
LEMMA FlowRankStep ==
  ASSUME IInv, [Next]_vars
  PROVE  /\ \A f \in Flows : FlowRank(f)' <= FlowRank(f)
         /\ \A f \in Flows : OpenShape(f) \/ SetupShape(f) => FlowRank(f)' < FlowRank(f)
<1>0. TypeOK /\ Linked /\ Fresh /\ RegistryTypeOK BY DEF IInv, TypeOK
<1>1. \A f \in Flows : SetupDone(f) \in 0..3 BY DEF SetupDone
<1>2. ASSUME NEW g \in Flows, OpenShape(g), NEW f \in Flows
      PROVE  FlowRank(f)' <= FlowRank(f) /\ FlowRank(g)' < FlowRank(g)
  <2>1. /\ flows[g] = NoRecord
        /\ \A h \in Flows : /\ flows'[h].phases = flows[h].phases
                            /\ flows'[h].created <=> flows[h].created \/ h = g
                            /\ flows'[h].terminated = flows[h].terminated
    BY <1>0, <1>2, OpenEffect DEF OpenShape
  <2>2. \A h \in Flows : SetupDone(h)' = SetupDone(h) BY <2>1, SetupDoneSame
  <2> QED BY <1>1, <2>1, <2>2 DEF FlowRank, Missing, NoRecord
<1>3. ASSUME NEW g \in Flows, SetupShape(g), NEW f \in Flows
      PROVE  FlowRank(f)' <= FlowRank(f) /\ FlowRank(g)' < FlowRank(g)
  <2>1. PICK phase \in SetupPhases : SetPhaseComplete("setup", g, phase)
    BY <1>3, SetupEffect DEF SetupShape
  <2>2. \A h \in Flows : /\ flows'[h].created = flows[h].created
                         /\ flows'[h].terminated = flows[h].terminated
    BY <1>0, <2>1, SetPhaseFlows
  <2>3. /\ SetupDone(g)' = SetupDone(g) + 1
        /\ \A h \in Flows \ {g} : SetupDone(h)' = SetupDone(h)
    BY <1>3, SetupDoneStep
  <2> QED BY <1>1, <2>2, <2>3 DEF FlowRank, Missing
<1>4. ASSUME NEW g \in Flows, NEW t \in Teams, PassShape(t, g), NEW f \in Flows
      PROVE  FlowRank(f)' <= FlowRank(f)
  <2>1. PhaseOf[t] \notin SetupPhases BY DEF PhaseOf, Teams, SetupPhases
  <2>2. /\ flows'[f].phases = IF f = g THEN flows[f].phases \cup {PhaseOf[t]}
                                       ELSE flows[f].phases
        /\ flows'[f].created = flows[f].created
        /\ flows'[f].terminated = flows[f].terminated
    BY <1>0, <1>4, SetPhaseFlows DEF PassShape
  <2>3. SetupDone(f)' = SetupDone(f) BY <2>1, <2>2, SetupDoneSame
  <2> QED BY <1>1, <2>2, <2>3 DEF FlowRank, Missing
<1>5. ASSUME NEW g \in Flows, NEW t \in Teams, NEW r, FailShape(t, g, r), NEW f \in Flows
      PROVE  FlowRank(f)' <= FlowRank(f)
  <2>1. /\ flows'[f].phases = flows[f].phases
        /\ flows'[f].created = flows[f].created
        /\ flows[f].terminated => flows'[f].terminated
    BY <1>0, <1>5, TerminateEffect DEF FailShape
  <2>2. SetupDone(f)' = SetupDone(f) BY <2>1, SetupDoneSame
  <2> QED BY <1>1, <2>1, <2>2 DEF FlowRank, Missing
<1>6. ASSUME QuietShape, NEW f \in Flows PROVE FlowRank(f)' <= FlowRank(f)
  BY <1>1, <1>6 DEF QuietShape, FlowRank, SetupDone, Missing
<1>7. Shape BY <1>0, NextShape
<1>8. \A f \in Flows : FlowRank(f)' <= FlowRank(f)
  BY <1>2, <1>3, <1>4, <1>5, <1>6, <1>7 DEF Shape
<1> QED BY <1>2, <1>3, <1>8

LEMMA TransactionSpends ==
  ASSUME IInv, Transacts
  PROVE  Spends
<1>n. Next BY TransactsIsNext
<1>0. TypeOK /\ AMLTypeOK /\ CreditTypeOK /\ LegalTypeOK /\ Linked /\ Ranked
  BY RanksAreNatural DEF IInv, TypeOK
<1>1. \A f \in Flows : FlowRank(f)' <= FlowRank(f) BY <1>n, FlowRankStep
<1>a. /\ \A r \in AMLRequests : AMLRank(aml[r]) \in Nat /\ AMLRank(aml'[r]) \in Nat
      /\ \A r \in CreditRequests : CreditRank(credit[r]) \in Nat /\ CreditRank(credit'[r]) \in Nat
      /\ \A r \in LegalRequests : LegalRank(legal[r]) \in Nat /\ LegalRank(legal'[r]) \in Nat
  <2>1. TypeOK' BY <1>0, <1>n, NextTyped
  <2>2. TypeOK' => Ranked' BY RanksAreNatural, PTL
  <2> QED BY <1>0, <2>1, <2>2 DEF Ranked
<1>b. /\ \A r \in AMLRequests : \/ aml'[r] = aml[r]
                                 \/ AMLRank(aml'[r]) < AMLRank(aml[r])
                                 => AMLRank(aml'[r]) <= AMLRank(aml[r])
      /\ \A r \in CreditRequests : \/ credit'[r] = credit[r]
                                    \/ CreditRank(credit'[r]) < CreditRank(credit[r])
                                    => CreditRank(credit'[r]) <= CreditRank(credit[r])
      /\ \A r \in LegalRequests : \/ legal'[r] = legal[r]
                                   \/ LegalRank(legal'[r]) < LegalRank(legal[r])
                                   => LegalRank(legal'[r]) <= LegalRank(legal[r])
  BY <1>a
<1>2. ASSUME NEW r \in AMLRequests, AMLStep(r), UNCHANGED <<credit, legal>> PROVE Spends
  <2>1. AMLRank(aml'[r]) < AMLRank(aml[r]) BY <1>0, <1>2, AMLStepSpends
  <2>2. \A q \in AMLRequests \ {r} : aml'[q] = aml[q]
    BY <1>0, <1>2, AMLStepEffect DEF AMLEffect, AMLTypeOK, Linked
  <2> QED BY <1>1, <1>2, <1>b, <2>1, <2>2 DEF Spends, NoneRises, OneFalls
<1>3. ASSUME NEW r \in CreditRequests, CreditStep(r), UNCHANGED <<aml, legal>> PROVE Spends
  <2>1. CreditRank(credit'[r]) < CreditRank(credit[r]) BY <1>0, <1>3, CreditStepSpends
  <2>2. \A q \in CreditRequests \ {r} : credit'[q] = credit[q]
    BY <1>0, <1>3, CreditStepEffect DEF CreditEffect, CreditTypeOK, Linked
  <2> QED BY <1>1, <1>3, <1>b, <2>1, <2>2 DEF Spends, NoneRises, OneFalls
<1>4. ASSUME NEW r \in LegalRequests, LegalStep(r), UNCHANGED <<aml, credit>> PROVE Spends
  <2>1. LegalRank(legal'[r]) < LegalRank(legal[r]) BY <1>0, <1>4, LegalStepSpends
  <2>2. \A q \in LegalRequests \ {r} : legal'[q] = legal[q]
    BY <1>0, <1>4, LegalStepEffect DEF LegalEffect, LegalTypeOK, Linked
  <2> QED BY <1>1, <1>4, <1>b, <2>1, <2>2 DEF Spends, NoneRises, OneFalls
<1>5. ASSUME NEW f \in Flows, OpenShape(f) \/ SetupShape(f), UNCHANGED <<aml, credit, legal>>
      PROVE  Spends
  <2>1. FlowRank(f)' < FlowRank(f) BY <1>5, <1>n, FlowRankStep
  <2> QED BY <1>1, <1>5, <1>b, <2>1 DEF Spends, NoneRises, OneFalls
<1>6. ASSUME NEW g, UNCHANGED <<aml, credit, legalVars>> PROVE SamePassed(g) /\ SameFailed(g)
  BY <1>6, AMLFrameSame, CreditFrameSame, LegalFrameSame
     DEF SamePassed, Passed, SameFailed, Failed, RejectedRequests
<1>7. ASSUME NEW f \in Flows, InitiateOnboarding(f),
             UNCHANGED <<identityVars, aml, credit, legalVars>>
      PROVE  Spends
  BY <1>5, <1>6, <1>7 DEF OpenShape
<1>8. CASE SetupNext /\ UNCHANGED <<identityVars, aml, credit, legalVars>>
  <2>1. PICK f \in Flows : \E agent \in Agents : SetupStep(f, agent) BY <1>8 DEF SetupNext
  <2> QED BY <1>5, <1>6, <1>8, <2>1 DEF SetupShape
<1> QED BY <1>2, <1>3, <1>4, <1>7, <1>8 DEF Transacts, AMLNext, CreditNext, LegalNext

(* The other steps change no rank.                                         *)
LEMMA OthersSpendNothing ==
  ASSUME Ranked, UNCHANGED <<flows, aml, credit, legalVars>>
  PROVE  NoneRises
<1>1. \A f \in Flows : FlowRank(f)' = FlowRank(f) BY DEF FlowRank, SetupDone
<1> QED BY <1>1 DEF Ranked, NoneRises

RoundsSpent == NoneRises /\ (UNCHANGED <<identityVars, oracles>> => OneFalls)

LEMMA RoundsSpentStep == IInv /\ [Next]_vars => [RoundsSpent]_vars
<1> SUFFICES ASSUME IInv, [Next]_vars, ~UNCHANGED vars PROVE RoundsSpent
  OBVIOUS
<1>1. Ranked BY RanksAreNatural DEF IInv
<1>2. CASE Transacts BY <1>2, TransactionSpends DEF Spends, RoundsSpent
<1>3. CASE ~Transacts
  <2>1. UNCHANGED <<flows, aml, credit, legalVars>> BY <1>3, NextTransacts
  <2>2. UNCHANGED ready
    BY <1>3 DEF Next, Transacts, RegistryNext, SetOracle, registryVars
  <2>3. ~UNCHANGED <<identityVars, oracles>> BY <2>1, <2>2 DEF vars, registryVars
  <2> QED BY <1>1, <2>1, <2>3, OthersSpendNothing DEF RoundsSpent
<1> QED BY <1>2, <1>3

(* The data, negotiation and drafting loops cannot go on for ever, whatever *)
(* agents and owner do in between: of the ranks, which are natural numbers, *)
(* no step raises one, and a step lowers one unless it changes an agent's   *)
(* account or a permission.                                                 *)
THEOREM RoundsSpentTheorem == Spec => []Ranked /\ [][RoundsSpent]_vars
<1> IInv => Ranked BY RanksAreNatural DEF IInv
<1> QED BY RoundsSpentStep, InitIInv, NextIInv, PTL DEF Spec

-----------------------------------------------------------------------------
(* With finitely many flows and requests the ranks add up to one budget.   *)
(* A rank is counted as the set of its units, one for each number up to    *)
(* it, so that a sum of ranks is the size of a set.                        *)
Units(S, bound, rank) == {u \in S \X (1..bound) : u[2] <= rank[u[1]]}

LEMMA UnitsCount ==
  ASSUME NEW S, IsFiniteSet(S), NEW bound \in Nat, NEW rank, NEW newRank,
         \A x \in S : /\ rank[x] \in 0..bound
                      /\ newRank[x] \in Nat
                      /\ newRank[x] <= rank[x]
  PROVE  /\ Cardinality(Units(S, bound, rank)) \in Nat
         /\ Cardinality(Units(S, bound, newRank)) \in Nat
         /\ Cardinality(Units(S, bound, rank)) <= Cardinality(S) * bound
         /\ Cardinality(Units(S, bound, newRank)) <= Cardinality(Units(S, bound, rank))
         /\ (\E x \in S : newRank[x] < rank[x]) =>
              Cardinality(Units(S, bound, newRank)) < Cardinality(Units(S, bound, rank))
<1> DEFINE old == Units(S, bound, rank)
           new == Units(S, bound, newRank)
<1>1. IsFiniteSet(1..bound) /\ Cardinality(1..bound) = bound BY FS_Interval
<1>2. IsFiniteSet(S \X (1..bound)) /\ Cardinality(S \X (1..bound)) = Cardinality(S) * bound
  BY <1>1, FS_Product
<1>3. old \in SUBSET (S \X (1..bound)) BY DEF Units
<1>4. new \in SUBSET old BY DEF Units
<1>5. (\E x \in S : newRank[x] < rank[x]) => new # old
  <2> SUFFICES ASSUME NEW x \in S, newRank[x] < rank[x] PROVE new # old
    OBVIOUS
  <2>1. rank[x] \in 1..bound OBVIOUS
  <2>2. <<x, rank[x]>> \in old BY <2>1 DEF Units
  <2>3. <<x, rank[x]>> \notin new BY DEF Units
  <2> QED BY <2>2, <2>3
<1> HIDE DEF old, new
<1>6. IsFiniteSet(old) /\ Cardinality(old) <= Cardinality(S) * bound
  BY <1>2, <1>3, FS_Subset
<1>7. /\ IsFiniteSet(new)
      /\ Cardinality(new) <= Cardinality(old)
      /\ Cardinality(new) = Cardinality(old) => new = old
  BY <1>4, <1>6, FS_Subset
<1>8. Cardinality(old) \in Nat /\ Cardinality(new) \in Nat
  BY <1>6, <1>7, FS_CardinalityType
<1>9. new # old => Cardinality(new) < Cardinality(old) BY <1>7, <1>8
<1> QED BY <1>5, <1>6, <1>7, <1>8, <1>9 DEF old, new

AMLRanks == [r \in AMLRequests |-> AMLRank(aml[r])]
CreditRanks == [r \in CreditRequests |-> CreditRank(credit[r])]
LegalRanks == [r \in LegalRequests |-> LegalRank(legal[r])]
FlowRanks == [f \in Flows |-> FlowRank(f)]

(* What every flow and request may still spend, together, and the most     *)
(* that can be.                                                            *)
Budget ==
  Cardinality(Units(AMLRequests, 2 * MaxRound + 5, AMLRanks))
    + Cardinality(Units(CreditRequests, 4 * MaxRound + 5, CreditRanks))
    + Cardinality(Units(LegalRequests, 2 * MaxRound + 7, LegalRanks))
    + Cardinality(Units(Flows, 5, FlowRanks))

FullBudget ==
  Cardinality(AMLRequests) * (2 * MaxRound + 5)
    + Cardinality(CreditRequests) * (4 * MaxRound + 5)
    + Cardinality(LegalRequests) * (2 * MaxRound + 7)
    + Cardinality(Flows) * 5

FinitelyMany ==
  /\ IsFiniteSet(Flows)
  /\ IsFiniteSet(AMLRequests) /\ IsFiniteSet(CreditRequests) /\ IsFiniteSet(LegalRequests)

RanksBounded ==
  /\ \A r \in AMLRequests : AMLRank(aml[r]) \in 0..(2 * MaxRound + 5)
  /\ \A r \in CreditRequests : CreditRank(credit[r]) \in 0..(4 * MaxRound + 5)
  /\ \A r \in LegalRequests : LegalRank(legal[r]) \in 0..(2 * MaxRound + 7)
  /\ \A f \in Flows : FlowRank(f) \in 0..5

LEMMA RanksAreBounded == TypeOK => RanksBounded
<1> SUFFICES ASSUME TypeOK PROVE RanksBounded
  OBVIOUS
<1> USE MaxRoundAssumption DEF TypeOK, Stage, Missing
<1>1. ASSUME NEW r \in AMLRequests PROVE AMLRank(aml[r]) \in 0..(2 * MaxRound + 5)
  <2>1. aml[r].dataRound \in 0..MaxRound BY DEF AMLTypeOK, AMLRecord
  <2> QED BY <2>1 DEF AMLRank
<1>2. ASSUME NEW r \in CreditRequests PROVE CreditRank(credit[r]) \in 0..(4 * MaxRound + 5)
  <2>1. credit[r].dataRound \in 0..MaxRound /\ credit[r].negotiationRound \in 0..MaxRound
    BY DEF CreditTypeOK, CreditRecord
  <2> QED BY <2>1 DEF CreditRank
<1>3. ASSUME NEW r \in LegalRequests PROVE LegalRank(legal[r]) \in 0..(2 * MaxRound + 7)
  <2>1. legal[r].round \in 0..MaxRound BY DEF LegalTypeOK, LegalRecord
  <2> QED BY <2>1 DEF LegalRank
<1>4. ASSUME NEW f \in Flows PROVE FlowRank(f) \in 0..5
  BY DEF FlowRank, SetupDone
<1> QED BY <1>1, <1>2, <1>3, <1>4 DEF RanksBounded

LEMMA BudgetBounded ==
  ASSUME FinitelyMany, RanksBounded
  PROVE  Budget \in 0..FullBudget
<1> DEFINE Counted(S, bound, rank) ==
      /\ Cardinality(Units(S, bound, rank)) \in Nat
      /\ Cardinality(Units(S, bound, rank)) <= Cardinality(S) * bound
<1>1. MaxRound \in Nat BY MaxRoundAssumption
<1>2. Counted(AMLRequests, 2 * MaxRound + 5, AMLRanks)
  <2>1. \A r \in AMLRequests : AMLRanks[r] \in 0..(2 * MaxRound + 5)
    BY DEF AMLRanks, RanksBounded
  <2> QED BY <1>1, <2>1, UnitsCount DEF FinitelyMany
<1>3. Counted(CreditRequests, 4 * MaxRound + 5, CreditRanks)
  <2>1. \A r \in CreditRequests : CreditRanks[r] \in 0..(4 * MaxRound + 5)
    BY DEF CreditRanks, RanksBounded
  <2> QED BY <1>1, <2>1, UnitsCount DEF FinitelyMany
<1>4. Counted(LegalRequests, 2 * MaxRound + 7, LegalRanks)
  <2>1. \A r \in LegalRequests : LegalRanks[r] \in 0..(2 * MaxRound + 7)
    BY DEF LegalRanks, RanksBounded
  <2> QED BY <1>1, <2>1, UnitsCount DEF FinitelyMany
<1>5. Counted(Flows, 5, FlowRanks)
  <2>1. \A f \in Flows : FlowRanks[f] \in 0..5 BY DEF FlowRanks, RanksBounded
  <2> QED BY <2>1, UnitsCount DEF FinitelyMany
<1>6. /\ Cardinality(AMLRequests) * (2 * MaxRound + 5) \in Nat
      /\ Cardinality(CreditRequests) * (4 * MaxRound + 5) \in Nat
      /\ Cardinality(LegalRequests) * (2 * MaxRound + 7) \in Nat
      /\ Cardinality(Flows) * 5 \in Nat
  BY <1>1, FS_CardinalityType DEF FinitelyMany
<1> QED BY <1>2, <1>3, <1>4, <1>5, <1>6 DEF Budget, FullBudget

(* The budget follows the ranks: down whenever one of them falls.          *)
LEMMA BudgetStep ==
  ASSUME FinitelyMany, RanksBounded, RanksBounded', NoneRises
  PROVE  /\ Budget \in Nat /\ Budget' \in Nat
         /\ Budget' <= Budget
         /\ OneFalls => Budget' < Budget
<1> DEFINE Counted(S, bound, rank, newRank) ==
      /\ Cardinality(Units(S, bound, rank)) \in Nat
      /\ Cardinality(Units(S, bound, newRank)) \in Nat
      /\ Cardinality(Units(S, bound, newRank)) <= Cardinality(Units(S, bound, rank))
      /\ (\E x \in S : newRank[x] < rank[x]) =>
           Cardinality(Units(S, bound, newRank)) < Cardinality(Units(S, bound, rank))
<1>1. /\ IsFiniteSet(Flows)
      /\ IsFiniteSet(AMLRequests) /\ IsFiniteSet(CreditRequests) /\ IsFiniteSet(LegalRequests)
      /\ MaxRound \in Nat
  BY MaxRoundAssumption DEF FinitelyMany
<1>2. Counted(AMLRequests, 2 * MaxRound + 5, AMLRanks, AMLRanks')
  <2>1. 2 * MaxRound + 5 \in Nat BY <1>1
  <2>2. \A r \in AMLRequests : /\ AMLRanks[r] \in 0..(2 * MaxRound + 5)
                               /\ AMLRanks'[r] \in Nat /\ AMLRanks'[r] <= AMLRanks[r]
    BY <1>1 DEF AMLRanks, RanksBounded, NoneRises
  <2> QED BY <1>1, <2>1, <2>2, UnitsCount
<1>3. Counted(CreditRequests, 4 * MaxRound + 5, CreditRanks, CreditRanks')
  <2>1. 4 * MaxRound + 5 \in Nat BY <1>1
  <2>2. \A r \in CreditRequests : /\ CreditRanks[r] \in 0..(4 * MaxRound + 5)
                                  /\ CreditRanks'[r] \in Nat
                                  /\ CreditRanks'[r] <= CreditRanks[r]
    BY <1>1 DEF CreditRanks, RanksBounded, NoneRises
  <2> QED BY <1>1, <2>1, <2>2, UnitsCount
<1>4. Counted(LegalRequests, 2 * MaxRound + 7, LegalRanks, LegalRanks')
  <2>1. 2 * MaxRound + 7 \in Nat BY <1>1
  <2>2. \A r \in LegalRequests : /\ LegalRanks[r] \in 0..(2 * MaxRound + 7)
                                 /\ LegalRanks'[r] \in Nat
                                 /\ LegalRanks'[r] <= LegalRanks[r]
    BY <1>1 DEF LegalRanks, RanksBounded, NoneRises
  <2> QED BY <1>1, <2>1, <2>2, UnitsCount
<1>5. Counted(Flows, 5, FlowRanks, FlowRanks')
  <2>1. \A f \in Flows : /\ FlowRanks[f] \in 0..5
                         /\ FlowRanks'[f] \in Nat /\ FlowRanks'[f] <= FlowRanks[f]
    BY DEF FlowRanks, RanksBounded, NoneRises
  <2> QED BY <1>1, <2>1, UnitsCount
<1>6. OneFalls => \/ \E r \in AMLRequests : AMLRanks'[r] < AMLRanks[r]
                  \/ \E r \in CreditRequests : CreditRanks'[r] < CreditRanks[r]
                  \/ \E r \in LegalRequests : LegalRanks'[r] < LegalRanks[r]
                  \/ \E f \in Flows : FlowRanks'[f] < FlowRanks[f]
  BY DEF OneFalls, AMLRanks, CreditRanks, LegalRanks, FlowRanks
<1> QED BY <1>2, <1>3, <1>4, <1>5, <1>6 DEF Budget

BudgetSpent ==
  Budget' <= Budget /\ (UNCHANGED <<identityVars, oracles>> => Budget' < Budget)

(* Finitely many flows and requests take at most FullBudget transactions,  *)
(* however many changes of accounts and permissions come between them.     *)
THEOREM BudgetTheorem ==
  ASSUME FinitelyMany
  PROVE  Spec => [](Budget \in 0..FullBudget) /\ [][BudgetSpent]_vars
<1>1. IInv => RanksBounded BY RanksAreBounded DEF IInv
<1>2. IInv /\ [Next]_vars => [BudgetSpent]_vars
  <2> SUFFICES ASSUME IInv, [Next]_vars, ~UNCHANGED vars PROVE BudgetSpent
    OBVIOUS
  <2>1. RoundsSpent BY RoundsSpentStep
  <2>2. RanksBounded /\ RanksBounded'
    <3>1. IInv' BY NextIInv
    <3>2. IInv' => RanksBounded' BY <1>1, PTL
    <3> QED BY <1>1, <3>1, <3>2
  <2> QED BY <2>1, <2>2, BudgetStep DEF RoundsSpent, BudgetSpent
<1>3. IInv => Budget \in 0..FullBudget BY <1>1, BudgetBounded
<1> QED BY <1>2, <1>3, InitIInv, NextIInv, PTL DEF Spec
=============================================================================
