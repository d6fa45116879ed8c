------------------------- MODULE AgentBridges_proofs -------------------------
(***************************************************************************)
(* What the bridges do to the contracts is something the contracts allow,  *)
(* so that everything proved of OnboardingSystem holds of the driven       *)
(* system; and handing a request from bridge to bridge duplicates no work. *)
(***************************************************************************)
EXTENDS AgentBridges, OnboardingSystem_proofs

(* What a call requires is always part of what it does.                    *)
USE DEF AMLMayRequestData, AMLMayFulfill, AMLMayRecommend, AMLMayClear,
        CreditMayRequestData, CreditMayFulfill, MayProposeTerms, MayCounter,
        MayAcceptTerms, CreditMayRecommend, CreditMayApprove,
        MayIssueDraft, MaySubmitMarkup, LegalMayRecommend, MayApproveBankSide,
        MayApproveClientSide, MayExecute,
        MaySetPhase, MaySetUp, MaySetUpEntity, MaySetUpAccount, MaySetUpProducts

(* The fact the implementation rests on: a task is about something its     *)
(* oracle knows.                                                           *)
Typed == work \subseteq Tasks

(* A step replaces the tasks done by some of those it announces.           *)
Replaces(done, new) == work' \subseteq (work \ done) \cup new

LEMMA EmitReplaces ==
  ASSUME NEW done, NEW events, Emit(done, events)
  PROVE  Replaces(done, events)
BY DEF Emit, Replaces

(* The request or flow a task is about, by its oracle.                     *)
LEMMA TaskOf ==
  ASSUME Typed, NEW i \in work
  PROVE  /\ i.oracle = "aml" => i.of \in AMLRequests
         /\ i.oracle = "credit" => i.of \in CreditRequests
         /\ i.oracle = "legal" => i.of \in LegalRequests
         /\ i.oracle \in {"registry", "initiate"} => i.of \in Flows
<1>1. i \in Tasks BY DEF Typed
<1> QED BY <1>1 DEF Tasks

-----------------------------------------------------------------------------
(* A transaction of a task, or of a human, is a step of the contracts.     *)

LEMMA AMLCallAllowed ==
  ASSUME Typed, NEW i \in work, AMLCall(i)
  PROVE  Transacts
<1>1. i.of \in AMLRequests BY TaskOf DEF AMLCall
<1>2. AMLStep(i.of) BY DEF AMLCall, AMLStep
<1> QED BY <1>1, <1>2 DEF AMLCall, AMLNext, Transacts

LEMMA CreditCallAllowed ==
  ASSUME Typed, NEW i \in work, CreditCall(i)
  PROVE  Transacts
<1>1. i.of \in CreditRequests BY TaskOf DEF CreditCall
<1>2. CreditStep(i.of) BY DEF CreditCall, CreditStep
<1> QED BY <1>1, <1>2 DEF CreditCall, CreditNext, Transacts

LEMMA LegalCallAllowed ==
  ASSUME Typed, NEW i \in work, LegalCall(i)
  PROVE  Transacts
<1>1. i.of \in LegalRequests BY TaskOf DEF LegalCall
<1>2. LegalStep(i.of) BY DEF LegalCall, LegalStep
<1> QED BY <1>1, <1>2 DEF LegalCall, LegalNext, Transacts

LEMMA SetupCallAllowed ==
  ASSUME Typed, NEW i \in work, SetupCall(i)
  PROVE  Transacts
<1>1. i.of \in Flows BY TaskOf DEF SetupCall
<1>2. BankDesk["setup"] \in Agents BY DesksAssumption
<1>3. SetupStep(i.of, BankDesk["setup"]) BY DEF SetupCall, SetupStep
<1> QED BY <1>1, <1>2, <1>3 DEF SetupCall, SetupNext, Transacts

LEMMA OpenReviewAllowed ==
  ASSUME Typed, NEW i \in work, OpenReview(i)
  PROVE  Transacts
<1>1. i.of \in Flows BY TaskOf DEF OpenReview
<1>2. /\ \A o \in {"aml", "credit", "legal"} : BankDesk[o] \in Agents
      /\ \A o \in {"aml", "credit", "legal"} : ClientDesk[o] \in ClientAgents
  BY DesksAssumption
<1>3. CASE \E r \in AMLRequests :
             RequestAMLReview(r, i.of, BankDesk["aml"], ClientDesk["aml"])
             /\ UNCHANGED <<credit, legalVars>>
  BY <1>1, <1>2, <1>3 DEF OpenReview, AMLStep, AMLNext, Transacts
<1>4. CASE \E r \in CreditRequests :
             RequestCreditReview(r, i.of, BankDesk["credit"], ClientDesk["credit"])
             /\ UNCHANGED <<aml, legalVars>>
  BY <1>1, <1>2, <1>4 DEF OpenReview, CreditStep, CreditNext, Transacts
<1>5. CASE \E r \in LegalRequests :
             RequestLegalReview(r, i.of, BankDesk["legal"], ClientDesk["legal"])
             /\ UNCHANGED <<aml, credit>>
  BY <1>1, <1>2, <1>5 DEF OpenReview, LegalStep, LegalNext, Transacts
<1> QED BY <1>3, <1>4, <1>5 DEF OpenReview

LEMMA CallAllowed ==
  ASSUME Typed, NEW i \in work, Call(i)
  PROVE  Transacts
BY AMLCallAllowed, CreditCallAllowed, LegalCallAllowed, SetupCallAllowed,
   OpenReviewAllowed DEF Call

LEMMA HumanStepAllowed == HumanStep => Transacts
<1> SUFFICES ASSUME NEW human \in Humans, Approve(human) \/ Refuse(human),
                    UNCHANGED identityVars
             PROVE  Transacts
  BY DEF HumanStep
<1>1. human \in Accounts BY DEF Accounts
<1>2. CASE Approve(human)
  <2>1. CASE \E r \in AMLRequests : AMLClear(r, human) /\ UNCHANGED <<credit, legalVars>>
    BY <1>1, <2>1 DEF AMLStep, AMLNext, Transacts
  <2>2. CASE \E r \in CreditRequests :
               CreditApprove(r, human) /\ UNCHANGED <<aml, legalVars>>
    BY <1>1, <2>2 DEF CreditStep, CreditNext, Transacts
  <2>3. CASE \E r \in LegalRequests : Execute(r) /\ UNCHANGED <<aml, credit>>
    BY <1>1, <2>3 DEF LegalStep, LegalNext, Transacts
  <2>4. CASE \E r \in LegalRequests :
               /\ ApproveBankSide(r, human) \/ ApproveClientSide(r, human)
               /\ UNCHANGED <<aml, credit>>
    BY <1>1, <2>4 DEF LegalStep, LegalNext, Transacts
  <2> QED BY <1>2, <2>1, <2>2, <2>3, <2>4 DEF Approve
<1>3. CASE Refuse(human)
  <2>1. CASE \E r \in AMLRequests : AMLReject(r, human) /\ UNCHANGED <<credit, legalVars>>
    BY <1>1, <2>1 DEF AMLStep, AMLNext, Transacts
  <2>2. CASE \E r \in CreditRequests :
               CreditReject(r, human) /\ UNCHANGED <<aml, legalVars>>
    BY <1>1, <2>2 DEF CreditStep, CreditNext, Transacts
  <2>3. CASE \E r \in LegalRequests : LegalReject(r, human) /\ UNCHANGED <<aml, credit>>
    BY <1>1, <2>3 DEF LegalStep, LegalNext, Transacts
  <2> QED BY <1>3, <2>1, <2>2, <2>3 DEF Refuse
<1> QED BY <1>2, <1>3

LEMMA InitiateAllowed ==
  ASSUME NEW f \in Flows, Initiate(f)
  PROVE  Transacts
BY DEF Initiate, Transacts

-----------------------------------------------------------------------------
(* The invariant: a task of a review belongs to the side whose turn it is, *)
(* no two tasks are about the same request, and the negotiator accepts     *)
(* nothing in its own transaction.                                         *)

AMLTurn(event) == IF event = "DataRequested" THEN "DataRequested" ELSE "Pending"
CreditTurn(event) ==
  IF event = "DataRequested" THEN "DataRequested"
  ELSE IF event = "TermsProposed" THEN "Negotiating" ELSE "Pending"
LegalTurn(event) == IF event = "DraftIssued" THEN "DraftIssued" ELSE "Pending"

AMLTurns == \A i \in work : i.oracle = "aml" => aml[i.of].status = AMLTurn(i.event)
CreditTurns ==
  \A i \in work : i.oracle = "credit" => credit[i.of].status = CreditTurn(i.event)
LegalTurns ==
  \A i \in work : i.oracle = "legal" => legal[i.of].status = LegalTurn(i.event)

Alone ==
  \A i, j \in work :
    i.oracle \in {"aml", "credit", "legal"} /\ i.oracle = j.oracle /\ i.of = j.of => i = j

Countering ==
  \A i \in work : i.oracle = "credit" /\ i.event = "TermsProposed"
                    => i.call \in {Unanswered, "submitCounterProposal"}

Driven == Typed /\ AMLTurns /\ CreditTurns /\ LegalTurns /\ Alone /\ Countering

(* What a step of task i leaves behind: at most one task, about the same.  *)
Continues(i, new) ==
  /\ Replaces({i}, new)
  /\ new \subseteq Tasks
  /\ \A e \in new : e.oracle = i.oracle /\ e.of = i.of
  /\ \A d, e \in new : d = e

LEMMA ContinuesAlone ==
  ASSUME Typed, Alone, NEW i \in work, NEW new, Continues(i, new)
  PROVE  Typed' /\ Alone'
BY DEF Typed, Alone, Continues, Replaces

LEMMA HeardFields ==
  ASSUME NEW o, NEW e, NEW r
  PROVE  /\ Heard(o, e, r).oracle = o
         /\ Heard(o, e, r).event = e
         /\ Heard(o, e, r).of = r
         /\ Heard(o, e, r).call = Unanswered
BY DEF Heard

LEMMA HeardTyped ==
  /\ \A r \in AMLRequests, e \in AMLEvents : Heard("aml", e, r) \in Tasks
  /\ \A r \in CreditRequests, e \in CreditEvents : Heard("credit", e, r) \in Tasks
  /\ \A r \in LegalRequests, e \in LegalEvents : Heard("legal", e, r) \in Tasks
  /\ \A f \in Flows, e \in AllPhases : Heard("registry", e, f) \in Tasks
BY DEF Heard, Tasks

LEMMA AnswerFields ==
  ASSUME NEW i \in Tasks, NEW c
  PROVE  /\ [i EXCEPT !.call = c].oracle = i.oracle
         /\ [i EXCEPT !.call = c].event = i.event
         /\ [i EXCEPT !.call = c].of = i.of
         /\ [i EXCEPT !.call = c].call = c
         /\ i.oracle = "aml" /\ c \in AMLCalls => [i EXCEPT !.call = c] \in Tasks
         /\ i.oracle = "credit" /\ c \in CreditCalls => [i EXCEPT !.call = c] \in Tasks
         /\ i.oracle = "legal" /\ c \in LegalCalls => [i EXCEPT !.call = c] \in Tasks
         /\ i.oracle = "registry" /\ c \in SetupCalls => [i EXCEPT !.call = c] \in Tasks
BY DEF Tasks

-----------------------------------------------------------------------------
(* The steps that leave the contracts alone.                               *)

LEMMA FewerTasks ==
  ASSUME Driven, work' \subseteq work, UNCHANGED <<aml, credit, legal>>
  PROVE  Driven'
BY DEF Driven, Typed, AMLTurns, CreditTurns, LegalTurns, Alone, Countering

(* An answer of the MCP server turns the task into one with a call.        *)
LEMMA AnsweredContinues ==
  ASSUME Typed, NEW i \in work, NEW calls, Answered(i, calls),
         \/ i.oracle = "aml" /\ calls \subseteq AMLCalls
         \/ i.oracle = "credit" /\ calls \subseteq CreditCalls
         \/ i.oracle = "legal" /\ calls \subseteq LegalCalls
         \/ i.oracle = "registry" /\ calls \subseteq SetupCalls
  PROVE  \E new : Continues(i, new)
                  /\ \A e \in new : /\ e.oracle = i.oracle /\ e.event = i.event
                                     /\ e.call \in calls
<1>1. PICK c \in calls : work' = (work \ {i}) \cup {[i EXCEPT !.call = c]}
  BY DEF Answered
<1> DEFINE e == [i EXCEPT !.call = c]
<1>2. i \in Tasks BY DEF Typed
<1>3. e \in Tasks /\ e.oracle = i.oracle /\ e.of = i.of /\ e.event = i.event /\ e.call = c
  BY <1>2, AnswerFields
<1> HIDE DEF e
<1>4. Replaces({i}, {e}) BY <1>1 DEF Replaces, e
<1> QED BY <1>3, <1>4 DEF Continues

LEMMA NextSetupCalls == \A f : NextSetupCall(f) \subseteq SetupCalls
BY DEF NextSetupCall, SetupCalls

LEMMA HandleContinues ==
  ASSUME Typed, NEW i \in work, Handle(i)
  PROVE  \E new : /\ Continues(i, new)
                  /\ \A e \in new :
                       /\ e.event = i.event
                       /\ e.oracle = "credit" /\ e.event = "TermsProposed"
                            => e.call = "submitCounterProposal"
<1>1. CASE AMLHandleReviewRequested(i) \/ AMLHandleDataFulfilled(i)
  <2>1. i.oracle = "aml" /\ \E calls : calls \subseteq AMLCalls /\ Answered(i, calls)
    BY <1>1 DEF AMLHandleReviewRequested, AMLHandleDataFulfilled, AMLBridgeHears,
                ScreenClient, ContinueScreening, AMLCalls
  <2> QED BY <2>1, AnsweredContinues
<1>2. CASE CreditHandleReviewRequested(i) \/ CreditHandleDataFulfilled(i)
             \/ CreditHandleCounterProposed(i)
  <2>1. /\ i.oracle = "credit" /\ i.event # "TermsProposed"
        /\ \E calls : calls \subseteq CreditCalls /\ Answered(i, calls)
    BY <1>2 DEF CreditHandleReviewRequested, CreditHandleDataFulfilled,
                CreditHandleCounterProposed, CreditBridgeHears,
                AssessCredit, ContinueAssessment, CreditCalls
  <2> QED BY <2>1, AnsweredContinues
<1>3. CASE LegalHandleReviewRequested(i) \/ LegalHandleMarkupSubmitted(i)
             \/ HandleDraftIssued(i)
  <2>1. /\ i.oracle = "legal"
        /\ \E calls : calls \subseteq LegalCalls /\ Answered(i, calls)
    BY <1>3 DEF LegalHandleReviewRequested, LegalHandleMarkupSubmitted,
                HandleDraftIssued, LegalBridgeHears, ClientLegalBridgeHears,
                IssueInitialDraft, ReviewMarkupAndRespond, ReviewDraft, LegalCalls
  <2> QED BY <2>1, AnsweredContinues
<1>4. CASE HandleDataRequested(i)
  <2>1. /\ i.oracle \in {"aml", "credit"} /\ i.event # "TermsProposed"
        /\ Answered(i, AssembleDocuments)
    BY <1>4 DEF HandleDataRequested, DocumentBridgeHears
  <2>2. AssembleDocuments \subseteq AMLCalls /\ AssembleDocuments \subseteq CreditCalls
    BY DEF AssembleDocuments, AMLCalls, CreditCalls
  <2> QED BY <2>1, <2>2, AnsweredContinues
<1>5. CASE HandleTermsProposed(i)
  <2>1. i.oracle = "credit" /\ Answered(i, EvaluateTerms)
    BY <1>5 DEF HandleTermsProposed, NegotiatorBridgeHears
  <2>2. EvaluateTerms \subseteq CreditCalls BY DEF EvaluateTerms, CreditCalls
  <2> QED BY <2>1, <2>2, AnsweredContinues DEF EvaluateTerms
<1>6. CASE HandlePhaseCompleted(i)
  <2>1. i.oracle = "registry" BY <1>6 DEF HandlePhaseCompleted, SetupBridgeHears
  <2>2. CASE work' = work \ {i}
    <3>1. Continues(i, {}) BY <2>2 DEF Continues, Replaces
    <3> QED BY <3>1
  <2>3. CASE Answered(i, NextSetupCall(i.of))
    BY <2>1, <2>3, NextSetupCalls, AnsweredContinues
  <2> QED BY <1>6, <2>2, <2>3 DEF HandlePhaseCompleted
<1> QED BY <1>1, <1>2, <1>3, <1>4, <1>5, <1>6 DEF Handle

LEMMA HandleDriven ==
  ASSUME Driven, NEW i \in work, Handle(i)
  PROVE  Driven'
<1>1. PICK new : /\ Continues(i, new)
                 /\ \A e \in new :
                      /\ e.event = i.event
                      /\ e.oracle = "credit" /\ e.event = "TermsProposed"
                           => e.call = "submitCounterProposal"
  BY HandleContinues DEF Driven
<1>2. Typed' /\ Alone' BY <1>1, ContinuesAlone DEF Driven
<1>3. UNCHANGED <<aml, credit, legal>> BY DEF Handle, vars, legalVars
<1>4. \A j \in work' : \E k \in work :
        j.oracle = k.oracle /\ j.of = k.of /\ j.event = k.event
  BY <1>1 DEF Continues, Replaces
<1>5. AMLTurns' /\ CreditTurns' /\ LegalTurns'
  BY <1>3, <1>4 DEF Driven, AMLTurns, CreditTurns, LegalTurns
<1>6. Countering' BY <1>1 DEF Driven, Countering, Continues, Replaces
<1> QED BY <1>2, <1>5, <1>6 DEF Driven

-----------------------------------------------------------------------------
(* The transactions of the tasks.                                          *)

LEMMA OneHeard ==
  ASSUME NEW i, NEW e \in Tasks, e.oracle = i.oracle, e.of = i.of, Emit({i}, {e})
  PROVE  Continues(i, {e})
BY EmitReplaces DEF Continues

LEMMA NoneHeard ==
  ASSUME NEW i, Emit({i}, {})
  PROVE  Continues(i, {})
BY EmitReplaces DEF Continues

LEMMA AMLCallContinues ==
  ASSUME Typed, AMLTypeOK, NEW i \in work, AMLCall(i)
  PROVE  /\ \E new : /\ Continues(i, new)
                     /\ \A e \in new : aml'[i.of].status = AMLTurn(e.event)
         /\ \A r \in AMLRequests \ {i.of} : aml'[r] = aml[r]
<1>1. i.oracle = "aml" /\ i.of \in AMLRequests BY TaskOf DEF AMLCall
<1> DEFINE heard(event) == Heard("aml", event, i.of)
<1>2. \A event \in AMLEvents : /\ heard(event) \in Tasks
                               /\ heard(event).oracle = i.oracle
                               /\ heard(event).of = i.of
                               /\ heard(event).event = event
  BY <1>1, HeardTyped, HeardFields
<1>3. ASSUME NEW event \in AMLEvents, Emit({i}, {heard(event)})
      PROVE  Continues(i, {heard(event)})
  BY <1>2, <1>3, OneHeard
<1> HIDE DEF heard
<1>4. CASE AMLRequestClientData(i.of) /\ Emit({i}, {heard("DataRequested")})
  <2>1. /\ aml'[i.of].status = "DataRequested"
        /\ \A r \in AMLRequests \ {i.of} : aml'[r] = aml[r]
    BY <1>1, <1>4 DEF AMLRequestClientData, AMLTypeOK, AMLRecord
  <2> QED BY <1>2, <1>3, <1>4, <2>1 DEF AMLTurn, AMLEvents
<1>5. CASE AMLFulfillDataRequest(i.of) /\ Emit({i}, {heard("DataFulfilled")})
  <2>1. /\ aml'[i.of].status = "Pending"
        /\ \A r \in AMLRequests \ {i.of} : aml'[r] = aml[r]
    BY <1>1, <1>5 DEF AMLFulfillDataRequest, AMLTypeOK, AMLRecord
  <2> QED BY <1>2, <1>3, <1>5, <2>1 DEF AMLTurn, AMLEvents
<1>6. CASE AMLSubmitRecommendation(i.of) /\ Emit({i}, {})
  <2>1. \A r \in AMLRequests \ {i.of} : aml'[r] = aml[r]
    BY <1>1, <1>6 DEF AMLSubmitRecommendation, AMLTypeOK, AMLRecord
  <2> QED BY <1>6, <2>1, NoneHeard
<1> QED BY <1>4, <1>5, <1>6 DEF AMLCall, heard

LEMMA AMLCallDriven ==
  ASSUME Driven, AMLTypeOK, NEW i \in work, AMLCall(i)
  PROVE  Driven'
<1>1. PICK new : /\ Continues(i, new)
                 /\ \A e \in new : aml'[i.of].status = AMLTurn(e.event)
  BY AMLCallContinues DEF Driven
<1>2. \A r \in AMLRequests \ {i.of} : aml'[r] = aml[r] BY AMLCallContinues DEF Driven
<1>3. Typed' /\ Alone' BY <1>1, ContinuesAlone DEF Driven
<1>4. i.oracle = "aml" /\ UNCHANGED <<credit, legal>> BY DEF AMLCall, legalVars
<1>5. AMLTurns'
  <2> SUFFICES ASSUME NEW j \in work', j.oracle = "aml"
               PROVE  aml'[j.of].status = AMLTurn(j.event)
    BY DEF AMLTurns
  <2>1. CASE j \in new BY <1>1, <2>1 DEF Continues
  <2>2. CASE j \notin new
    <3>1. j \in work /\ j # i BY <1>1, <2>2 DEF Continues, Replaces
    <3>2. j.of \in AMLRequests /\ j.of # i.of
      BY <1>4, <3>1, TaskOf DEF Driven, Alone
    <3> QED BY <1>2, <3>1, <3>2 DEF Driven, AMLTurns
  <2> QED BY <2>1, <2>2
<1>6. \A j \in work' : j.oracle # "aml" => j \in work
  BY <1>1, <1>4 DEF Continues, Replaces
<1>7. CreditTurns' /\ LegalTurns' /\ Countering'
  BY <1>4, <1>6 DEF Driven, CreditTurns, LegalTurns, Countering
<1> QED BY <1>3, <1>5, <1>7 DEF Driven

(* The negotiator's task never asks for acceptTerms, and the bank's task   *)
(* finds the request Pending, where the contract refuses it.               *)
LEMMA CreditCallContinues ==
  ASSUME Driven, CreditTypeOK, NEW i \in work, CreditCall(i)
  PROVE  /\ \E new : /\ Continues(i, new)
                     /\ \A e \in new : /\ credit'[i.of].status = CreditTurn(e.event)
                                       /\ e.call = Unanswered
         /\ \A r \in CreditRequests \ {i.of} : credit'[r] = credit[r]
<1>1. i.oracle = "credit" /\ i.of \in CreditRequests
  BY TaskOf DEF CreditCall, Driven
<1> DEFINE heard(event) == Heard("credit", event, i.of)
<1>2. \A event \in CreditEvents : /\ heard(event) \in Tasks
                                  /\ heard(event).oracle = i.oracle
                                  /\ heard(event).of = i.of
                                  /\ heard(event).event = event
                                  /\ heard(event).call = Unanswered
  BY <1>1, HeardTyped, HeardFields
<1>3. ASSUME NEW event \in CreditEvents, Emit({i}, {heard(event)})
      PROVE  Continues(i, {heard(event)})
  BY <1>2, <1>3, OneHeard
<1> HIDE DEF heard
<1>4. CASE CreditRequestClientData(i.of) /\ Emit({i}, {heard("DataRequested")})
  <2>1. /\ credit'[i.of].status = "DataRequested"
        /\ \A r \in CreditRequests \ {i.of} : credit'[r] = credit[r]
    BY <1>1, <1>4 DEF CreditRequestClientData, CreditTypeOK, CreditRecord
  <2> QED BY <1>2, <1>3, <1>4, <2>1 DEF CreditTurn, CreditEvents
<1>5. CASE CreditFulfillDataRequest(i.of) /\ Emit({i}, {heard("DataFulfilled")})
  <2>1. /\ credit'[i.of].status = "Pending"
        /\ \A r \in CreditRequests \ {i.of} : credit'[r] = credit[r]
    BY <1>1, <1>5 DEF CreditFulfillDataRequest, CreditTypeOK, CreditRecord
  <2> QED BY <1>2, <1>3, <1>5, <2>1 DEF CreditTurn, CreditEvents
<1>6. CASE ProposeTerms(i.of) /\ Emit({i}, {heard("TermsProposed")})
  <2>1. /\ credit'[i.of].status = "Negotiating"
        /\ \A r \in CreditRequests \ {i.of} : credit'[r] = credit[r]
    BY <1>1, <1>6 DEF ProposeTerms, CreditTypeOK, CreditRecord
  <2> QED BY <1>2, <1>3, <1>6, <2>1 DEF CreditTurn, CreditEvents
<1>7. CASE SubmitCounterProposal(i.of) /\ Emit({i}, {heard("CounterProposed")})
  <2>1. /\ credit'[i.of].status = "Pending"
        /\ \A r \in CreditRequests \ {i.of} : credit'[r] = credit[r]
    BY <1>1, <1>7 DEF SubmitCounterProposal, CreditTypeOK, CreditRecord
  <2> QED BY <1>2, <1>3, <1>7, <2>1 DEF CreditTurn, CreditEvents
<1>8. CASE i.call = "acceptTerms" /\ AcceptTerms(i.of)
  <2>1. credit[i.of].status = "Negotiating" BY <1>8 DEF AcceptTerms
  <2>2. i.event = "TermsProposed" BY <1>1, <2>1 DEF Driven, CreditTurns, CreditTurn
  <2> QED BY <1>1, <1>8, <2>2 DEF Driven, Countering, Unanswered
<1>9. CASE CreditSubmitRecommendation(i.of) /\ Emit({i}, {})
  <2>1. \A r \in CreditRequests \ {i.of} : credit'[r] = credit[r]
    BY <1>1, <1>9 DEF CreditSubmitRecommendation, CreditTypeOK, CreditRecord
  <2> QED BY <1>9, <2>1, NoneHeard
<1> QED BY <1>4, <1>5, <1>6, <1>7, <1>8, <1>9 DEF CreditCall, heard

LEMMA CreditCallDriven ==
  ASSUME Driven, CreditTypeOK, NEW i \in work, CreditCall(i)
  PROVE  Driven'
<1>1. PICK new : /\ Continues(i, new)
                 /\ \A e \in new : /\ credit'[i.of].status = CreditTurn(e.event)
                                   /\ e.call = Unanswered
  BY CreditCallContinues
<1>2. \A r \in CreditRequests \ {i.of} : credit'[r] = credit[r] BY CreditCallContinues
<1>3. Typed' /\ Alone' BY <1>1, ContinuesAlone DEF Driven
<1>4. i.oracle = "credit" /\ UNCHANGED <<aml, legal>> BY DEF CreditCall, legalVars
<1>5. CreditTurns'
  <2> SUFFICES ASSUME NEW j \in work', j.oracle = "credit"
               PROVE  credit'[j.of].status = CreditTurn(j.event)
    BY DEF CreditTurns
  <2>1. CASE j \in new BY <1>1, <2>1 DEF Continues
  <2>2. CASE j \notin new
    <3>1. j \in work /\ j # i BY <1>1, <2>2 DEF Continues, Replaces
    <3>2. j.of \in CreditRequests /\ j.of # i.of
      BY <1>4, <3>1, TaskOf DEF Driven, Alone
    <3> QED BY <1>2, <3>1, <3>2 DEF Driven, CreditTurns
  <2> QED BY <2>1, <2>2
<1>6. \A j \in work' : j.oracle # "credit" => j \in work
  BY <1>1, <1>4 DEF Continues, Replaces
<1>7. AMLTurns' /\ LegalTurns' BY <1>4, <1>6 DEF Driven, AMLTurns, LegalTurns
<1>8. Countering' BY <1>1 DEF Driven, Countering, Continues, Replaces
<1> QED BY <1>3, <1>5, <1>7, <1>8 DEF Driven

LEMMA LegalCallContinues ==
  ASSUME Typed, LegalTypeOK, NEW i \in work, LegalCall(i)
  PROVE  /\ \E new : /\ Continues(i, new)
                     /\ \A e \in new : legal'[i.of].status = LegalTurn(e.event)
         /\ \A r \in LegalRequests \ {i.of} : legal'[r] = legal[r]
<1>1. i.oracle = "legal" /\ i.of \in LegalRequests BY TaskOf DEF LegalCall
<1> DEFINE heard(event) == Heard("legal", event, i.of)
<1>2. \A event \in LegalEvents : /\ heard(event) \in Tasks
                                 /\ heard(event).oracle = i.oracle
                                 /\ heard(event).of = i.of
                                 /\ heard(event).event = event
  BY <1>1, HeardTyped, HeardFields
<1>3. ASSUME NEW event \in LegalEvents, Emit({i}, {heard(event)})
      PROVE  Continues(i, {heard(event)})
  BY <1>2, <1>3, OneHeard
<1> HIDE DEF heard
<1>4. CASE \E doc \in Docs : IssueDraft(i.of, doc) /\ Emit({i}, {heard("DraftIssued")})
  <2>1. /\ legal'[i.of].status = "DraftIssued"
        /\ \A r \in LegalRequests \ {i.of} : legal'[r] = legal[r]
    BY <1>1, <1>4 DEF IssueDraft, LegalTypeOK, LegalRecord
  <2> QED BY <1>2, <1>3, <1>4, <2>1 DEF LegalTurn, LegalEvents
<1>5. CASE \E doc \in Docs : SubmitMarkup(i.of, doc)
                             /\ Emit({i}, {heard("MarkupSubmitted")})
  <2>1. /\ legal'[i.of].status = "Pending"
        /\ \A r \in LegalRequests \ {i.of} : legal'[r] = legal[r]
    BY <1>1, <1>5 DEF SubmitMarkup, LegalTypeOK, LegalRecord
  <2> QED BY <1>2, <1>3, <1>5, <2>1 DEF LegalTurn, LegalEvents
<1>6. CASE \E doc \in Docs : LegalSubmitRecommendation(i.of, doc) /\ Emit({i}, {})
  <2>1. \A r \in LegalRequests \ {i.of} : legal'[r] = legal[r]
    BY <1>1, <1>6 DEF LegalSubmitRecommendation, LegalTypeOK, LegalRecord
  <2> QED BY <1>6, <2>1, NoneHeard
<1> QED BY <1>4, <1>5, <1>6 DEF LegalCall, heard

LEMMA LegalCallDriven ==
  ASSUME Driven, LegalTypeOK, NEW i \in work, LegalCall(i)
  PROVE  Driven'
<1>1. PICK new : /\ Continues(i, new)
                 /\ \A e \in new : legal'[i.of].status = LegalTurn(e.event)
  BY LegalCallContinues DEF Driven
<1>2. \A r \in LegalRequests \ {i.of} : legal'[r] = legal[r]
  BY LegalCallContinues DEF Driven
<1>3. Typed' /\ Alone' BY <1>1, ContinuesAlone DEF Driven
<1>4. i.oracle = "legal" /\ UNCHANGED <<aml, credit>> BY DEF LegalCall
<1>5. LegalTurns'
  <2> SUFFICES ASSUME NEW j \in work', j.oracle = "legal"
               PROVE  legal'[j.of].status = LegalTurn(j.event)
    BY DEF LegalTurns
  <2>1. CASE j \in new BY <1>1, <2>1 DEF Continues
  <2>2. CASE j \notin new
    <3>1. j \in work /\ j # i BY <1>1, <2>2 DEF Continues, Replaces
    <3>2. j.of \in LegalRequests /\ j.of # i.of
      BY <1>4, <3>1, TaskOf DEF Driven, Alone
    <3> QED BY <1>2, <3>1, <3>2 DEF Driven, LegalTurns
  <2> QED BY <2>1, <2>2
<1>6. \A j \in work' : j.oracle # "legal" => j \in work
  BY <1>1, <1>4 DEF Continues, Replaces
<1>7. AMLTurns' /\ CreditTurns' /\ Countering'
  BY <1>4, <1>6 DEF Driven, AMLTurns, CreditTurns, Countering
<1> QED BY <1>3, <1>5, <1>7 DEF Driven

LEMMA SetupCallDriven ==
  ASSUME Driven, NEW i \in work, SetupCall(i)
  PROVE  Driven'
<1>1. i.oracle = "registry" /\ i.of \in Flows BY TaskOf DEF SetupCall, Driven
<1>2. UNCHANGED <<aml, credit, legal>> BY DEF SetupCall, legalVars
<1>3. PICK phase \in SetupPhases : Emit({i}, {Heard("registry", phase, i.of)})
  BY DEF SetupCall, SetupPhases
<1> DEFINE e == Heard("registry", phase, i.of)
<1>4. e \in Tasks /\ e.oracle = i.oracle /\ e.of = i.of
  BY <1>1, HeardTyped, HeardFields DEF SetupPhases, AllPhases
<1> HIDE DEF e
<1>5. Continues(i, {e}) BY <1>3, <1>4, OneHeard DEF e
<1>6. Typed' /\ Alone' BY <1>5, ContinuesAlone DEF Driven
<1>7. \A j \in work' : j.oracle # "registry" => j \in work
  BY <1>1, <1>5 DEF Continues, Replaces
<1>8. AMLTurns' /\ CreditTurns' /\ LegalTurns' /\ Countering'
  BY <1>2, <1>7 DEF Driven, AMLTurns, CreditTurns, LegalTurns, Countering
<1> QED BY <1>6, <1>8 DEF Driven

-----------------------------------------------------------------------------
(* A review is opened for a request nobody has a task about yet.           *)

OpensFor(i, e) ==
  /\ Replaces({i}, {e})
  /\ e \in Tasks
  /\ e.oracle \in {"aml", "credit", "legal"}
  /\ e.event # "TermsProposed"
  /\ \A j \in work : ~(j.oracle = e.oracle /\ j.of = e.of)

LEMMA OpensAlone ==
  ASSUME Driven, NEW i \in work, NEW e, OpensFor(i, e)
  PROVE  Typed' /\ Alone' /\ Countering'
BY DEF Driven, Typed, Alone, Countering, OpensFor, Replaces

LEMMA OpenReviewDriven ==
  ASSUME Driven, TypeOK, NEW i \in work, OpenReview(i)
  PROVE  Driven'
<1> USE DEF TypeOK
<1>1. CASE \E r \in AMLRequests :
             /\ RequestAMLReview(r, i.of, BankDesk["aml"], ClientDesk["aml"])
             /\ Emit({i}, {Heard("aml", "AMLReviewRequested", r)})
             /\ UNCHANGED <<credit, legalVars>>
  <2>1. PICK r \in AMLRequests :
             /\ RequestAMLReview(r, i.of, BankDesk["aml"], ClientDesk["aml"])
             /\ Emit({i}, {Heard("aml", "AMLReviewRequested", r)})
             /\ UNCHANGED <<credit, legalVars>>
    BY <1>1
  <2> DEFINE e == Heard("aml", "AMLReviewRequested", r)
  <2>2. /\ aml[r].status = "None"
        /\ aml'[r].status = "Pending"
        /\ \A q \in AMLRequests \ {r} : aml'[q] = aml[q]
    BY <2>1 DEF RequestAMLReview, AMLTypeOK
  <2>3. e \in Tasks /\ e.oracle = "aml" /\ e.of = r /\ e.event = "AMLReviewRequested"
    BY HeardTyped, HeardFields DEF AMLEvents
  <2> HIDE DEF e
  <2>4. \A j \in work : ~(j.oracle = "aml" /\ j.of = r)
    BY <2>2 DEF Driven, AMLTurns, AMLTurn
  <2>5. OpensFor(i, e) BY <2>1, <2>3, <2>4, EmitReplaces DEF OpensFor, e
  <2>6. \A j \in work' : j = e \/ j \in work BY <2>5 DEF OpensFor, Replaces
  <2>7. AMLTurns'
    BY <2>2, <2>3, <2>4, <2>6, TaskOf DEF Driven, AMLTurns, AMLTurn
  <2>8. CreditTurns' /\ LegalTurns'
    BY <2>1, <2>3, <2>6 DEF Driven, CreditTurns, LegalTurns, legalVars
  <2> QED BY <2>5, <2>7, <2>8, OpensAlone DEF Driven
<1>2. CASE \E r \in CreditRequests :
             /\ RequestCreditReview(r, i.of, BankDesk["credit"], ClientDesk["credit"])
             /\ Emit({i}, {Heard("credit", "CreditReviewRequested", r)})
             /\ UNCHANGED <<aml, legalVars>>
  <2>1. PICK r \in CreditRequests :
             /\ RequestCreditReview(r, i.of, BankDesk["credit"], ClientDesk["credit"])
             /\ Emit({i}, {Heard("credit", "CreditReviewRequested", r)})
             /\ UNCHANGED <<aml, legalVars>>
    BY <1>2
  <2> DEFINE e == Heard("credit", "CreditReviewRequested", r)
  <2>2. /\ credit[r].status = "None"
        /\ credit'[r].status = "Pending"
        /\ \A q \in CreditRequests \ {r} : credit'[q] = credit[q]
    BY <2>1 DEF RequestCreditReview, CreditTypeOK
  <2>3. e \in Tasks /\ e.oracle = "credit" /\ e.of = r /\ e.event = "CreditReviewRequested"
    BY HeardTyped, HeardFields DEF CreditEvents
  <2> HIDE DEF e
  <2>4. \A j \in work : ~(j.oracle = "credit" /\ j.of = r)
    BY <2>2 DEF Driven, CreditTurns, CreditTurn
  <2>5. OpensFor(i, e) BY <2>1, <2>3, <2>4, EmitReplaces DEF OpensFor, e
  <2>6. \A j \in work' : j = e \/ j \in work BY <2>5 DEF OpensFor, Replaces
  <2>7. CreditTurns'
    BY <2>2, <2>3, <2>4, <2>6, TaskOf DEF Driven, CreditTurns, CreditTurn
  <2>8. AMLTurns' /\ LegalTurns'
    BY <2>1, <2>3, <2>6 DEF Driven, AMLTurns, LegalTurns, legalVars
  <2> QED BY <2>5, <2>7, <2>8, OpensAlone DEF Driven
<1>3. CASE \E r \in LegalRequests :
             /\ RequestLegalReview(r, i.of, BankDesk["legal"], ClientDesk["legal"])
             /\ Emit({i}, {Heard("legal", "LegalReviewRequested", r)})
             /\ UNCHANGED <<aml, credit>>
  <2>1. PICK r \in LegalRequests :
             /\ RequestLegalReview(r, i.of, BankDesk["legal"], ClientDesk["legal"])
             /\ Emit({i}, {Heard("legal", "LegalReviewRequested", r)})
             /\ UNCHANGED <<aml, credit>>
    BY <1>3
  <2> DEFINE e == Heard("legal", "LegalReviewRequested", r)
  <2>2. /\ legal[r].status = "None"
        /\ legal'[r].status = "Pending"
        /\ \A q \in LegalRequests \ {r} : legal'[q] = legal[q]
    BY <2>1 DEF RequestLegalReview, LegalTypeOK
  <2>3. e \in Tasks /\ e.oracle = "legal" /\ e.of = r /\ e.event = "LegalReviewRequested"
    BY HeardTyped, HeardFields DEF LegalEvents
  <2> HIDE DEF e
  <2>4. \A j \in work : ~(j.oracle = "legal" /\ j.of = r)
    BY <2>2 DEF Driven, LegalTurns, LegalTurn
  <2>5. OpensFor(i, e) BY <2>1, <2>3, <2>4, EmitReplaces DEF OpensFor, e
  <2>6. \A j \in work' : j = e \/ j \in work BY <2>5 DEF OpensFor, Replaces
  <2>7. LegalTurns'
    BY <2>2, <2>3, <2>4, <2>6, TaskOf DEF Driven, LegalTurns, LegalTurn
  <2>8. AMLTurns' /\ CreditTurns'
    BY <2>1, <2>3, <2>6 DEF Driven, AMLTurns, CreditTurns
  <2> QED BY <2>5, <2>7, <2>8, OpensAlone DEF Driven
<1> QED BY <1>1, <1>2, <1>3 DEF OpenReview

LEMMA CallDriven ==
  ASSUME Driven, TypeOK, NEW i \in work, Call(i)
  PROVE  Driven'
BY AMLCallDriven, CreditCallDriven, LegalCallDriven, SetupCallDriven, OpenReviewDriven
   DEF Call, TypeOK

-----------------------------------------------------------------------------
(* Opening a flow, and the humans.                                         *)

(* What comes from neither a bridge's review task nor about a review.      *)
Aside(new) == new \subseteq Tasks /\ \A e \in new : e.oracle \in {"registry", "initiate"}

SameStatus ==
  \A j \in work :
    /\ j.oracle = "aml" => aml'[j.of].status = aml[j.of].status
    /\ j.oracle = "credit" => credit'[j.of].status = credit[j.of].status
    /\ j.oracle = "legal" => legal'[j.of].status = legal[j.of].status

LEMMA AsideDriven ==
  ASSUME Driven, NEW new, Aside(new), Replaces({}, new), SameStatus
  PROVE  Driven'
<1>1. \A j \in work' : \/ j \in work
                       \/ j \in Tasks /\ j.oracle \in {"registry", "initiate"}
  BY DEF Aside, Replaces
<1>2. Typed' BY <1>1 DEF Driven, Typed
<1>3. Alone' /\ Countering' BY <1>1 DEF Driven, Alone, Countering
<1>4. AMLTurns' /\ CreditTurns' /\ LegalTurns'
  BY <1>1 DEF Driven, AMLTurns, CreditTurns, LegalTurns, SameStatus
<1> QED BY <1>2, <1>3, <1>4 DEF Driven

LEMMA InitiateDriven ==
  ASSUME Driven, NEW f \in Flows, Initiate(f)
  PROVE  Driven'
<1> DEFINE new == [oracle: {"initiate"}, event: {"initiateOnboarding"}, of: {f},
                   call: {"requestAMLReview", "requestCreditReview", "requestLegalReview"}]
<1>1. Aside(new) BY DEF Aside, Tasks
<1>2. Replaces({}, new) BY DEF Initiate, Replaces
<1>3. SameStatus BY DEF Initiate, SameStatus, legalVars
<1> QED BY <1>1, <1>2, <1>3, AsideDriven

LEMMA HumanStepDriven ==
  ASSUME Driven, TypeOK, Linked, HumanStep
  PROVE  Driven'
<1> USE DEF TypeOK
<1>1. CASE \E r \in AMLRequests, human \in Humans :
             /\ AMLClear(r, human) \/ AMLReject(r, human)
             /\ \/ Emit({}, {Heard("registry", "AML_CLEARED", aml[r].flow)})
                \/ UNCHANGED work
             /\ UNCHANGED <<credit, legalVars>>
  <2>1. PICK r \in AMLRequests, human \in Humans :
             /\ AMLClear(r, human) \/ AMLReject(r, human)
             /\ \/ Emit({}, {Heard("registry", "AML_CLEARED", aml[r].flow)})
                \/ UNCHANGED work
             /\ UNCHANGED <<credit, legalVars>>
    BY <1>1
  <2>2. /\ aml[r].status \in {"InHumanReview", "Escalated"}
        /\ \A q \in AMLRequests \ {r} : aml'[q] = aml[q]
    BY <2>1 DEF AMLClear, AMLReject, AMLUnderReview, AMLTypeOK
  <2>3. aml[r].flow \in Flows
    BY <2>2 DEF Linked, AMLLinked, AMLTypeOK, AMLRecord
  <2>4. \A j \in work : j.oracle = "aml" => j.of \in AMLRequests \ {r}
    BY <2>2, TaskOf DEF Driven, AMLTurns, AMLTurn
  <2>5. SameStatus BY <2>1, <2>2, <2>4 DEF SameStatus, legalVars
  <2> DEFINE e == Heard("registry", "AML_CLEARED", aml[r].flow)
  <2>6. Aside({e}) /\ Aside({})
    BY <2>3, HeardTyped, HeardFields DEF Aside, AllPhases, ReviewPhases
  <2> HIDE DEF e
  <2>7. Replaces({}, {e}) \/ Replaces({}, {}) BY <2>1 DEF Replaces, Emit, e
  <2> QED BY <2>5, <2>6, <2>7, AsideDriven
<1>2. CASE \E r \in CreditRequests, human \in Humans :
             /\ CreditApprove(r, human) \/ CreditReject(r, human)
             /\ \/ Emit({}, {Heard("registry", "CREDIT_APPROVED", credit[r].flow)})
                \/ UNCHANGED work
             /\ UNCHANGED <<aml, legalVars>>
  <2>1. PICK r \in CreditRequests, human \in Humans :
             /\ CreditApprove(r, human) \/ CreditReject(r, human)
             /\ \/ Emit({}, {Heard("registry", "CREDIT_APPROVED", credit[r].flow)})
                \/ UNCHANGED work
             /\ UNCHANGED <<aml, legalVars>>
    BY <1>2
  <2>2. /\ credit[r].status \in {"InHumanReview", "Escalated"}
        /\ \A q \in CreditRequests \ {r} : credit'[q] = credit[q]
    BY <2>1 DEF CreditApprove, CreditReject, CreditUnderReview, CreditTypeOK
  <2>3. credit[r].flow \in Flows
    BY <2>2 DEF Linked, CreditLinked, CreditTypeOK, CreditRecord
  <2>4. \A j \in work : j.oracle = "credit" => j.of \in CreditRequests \ {r}
    BY <2>2, TaskOf DEF Driven, CreditTurns, CreditTurn
  <2>5. SameStatus BY <2>1, <2>2, <2>4 DEF SameStatus, legalVars
  <2> DEFINE e == Heard("registry", "CREDIT_APPROVED", credit[r].flow)
  <2>6. Aside({e}) /\ Aside({})
    BY <2>3, HeardTyped, HeardFields DEF Aside, AllPhases, ReviewPhases
  <2> HIDE DEF e
  <2>7. Replaces({}, {e}) \/ Replaces({}, {}) BY <2>1 DEF Replaces, Emit, e
  <2> QED BY <2>5, <2>6, <2>7, AsideDriven
<1>3. CASE \E r \in LegalRequests, human \in Humans :
             /\ \/ Execute(r) \/ LegalReject(r, human)
                \/ ApproveBankSide(r, human) \/ ApproveClientSide(r, human)
             /\ \/ Emit({}, {Heard("registry", "LEGAL_EXECUTED", legal[r].flow)})
                \/ UNCHANGED work
             /\ UNCHANGED <<aml, credit>>
  <2>1. PICK r \in LegalRequests, human \in Humans :
             /\ \/ Execute(r) \/ LegalReject(r, human)
                \/ ApproveBankSide(r, human) \/ ApproveClientSide(r, human)
             /\ \/ Emit({}, {Heard("registry", "LEGAL_EXECUTED", legal[r].flow)})
                \/ UNCHANGED work
             /\ UNCHANGED <<aml, credit>>
    BY <1>3
  <2>2. /\ legal[r].status \in {"InHumanReview", "Escalated"}
        /\ \A q \in LegalRequests \ {r} : legal'[q] = legal[q]
    BY <2>1 DEF Execute, LegalReject, ApproveBankSide, ApproveClientSide,
                LegalUnderReview, LegalTypeOK
  <2>3. legal[r].flow \in Flows
    BY <2>2 DEF Linked, LegalLinked, LegalTypeOK, LegalRecord
  <2>4. \A j \in work : j.oracle = "legal" => j.of \in LegalRequests \ {r}
    BY <2>2, TaskOf DEF Driven, LegalTurns, LegalTurn
  <2>5. SameStatus BY <2>1, <2>2, <2>4 DEF SameStatus
  <2> DEFINE e == Heard("registry", "LEGAL_EXECUTED", legal[r].flow)
  <2>6. Aside({e}) /\ Aside({})
    BY <2>3, HeardTyped, HeardFields DEF Aside, AllPhases, ReviewPhases
  <2> HIDE DEF e
  <2>7. Replaces({}, {e}) \/ Replaces({}, {}) BY <2>1 DEF Replaces, Emit, e
  <2> QED BY <2>5, <2>6, <2>7, AsideDriven
<1>4. PICK human \in Humans : Approve(human) \/ Refuse(human) BY DEF HumanStep
<1> QED BY <1>1, <1>2, <1>3, <1>4 DEF Approve, Refuse

-----------------------------------------------------------------------------
(* The whole.                                                              *)

LEMMA InitDriven == BridgesInit => Driven
BY DEF BridgesInit, Driven, Typed, AMLTurns, CreditTurns, LegalTurns, Alone, Countering

LEMMA BridgedNextAllowed == Typed /\ [BridgedNext]_bvars => [Next]_vars
<1> SUFFICES ASSUME Typed, [BridgedNext]_bvars PROVE [Next]_vars
  OBVIOUS
<1>1. CASE \E f \in Flows : Initiate(f) BY <1>1, InitiateAllowed, TransactsIsNext
<1>2. CASE \E i \in work : Handle(i) BY <1>2 DEF Handle
<1>3. CASE \E i \in work : Call(i) BY <1>3, CallAllowed, TransactsIsNext
<1>4. CASE \E i \in work : Revert(i) BY <1>4 DEF Revert
<1>5. CASE HumanStep BY <1>5, HumanStepAllowed, TransactsIsNext
<1>6. CASE \E i \in work : Drop(i) BY <1>6 DEF Drop
<1>7. CASE \E b \in Bridges : Crash(b) \/ Restart(b) BY <1>7 DEF Crash, Restart
<1>8. CASE UNCHANGED bvars BY <1>8 DEF bvars
<1> QED BY <1>1, <1>2, <1>3, <1>4, <1>5, <1>6, <1>7, <1>8 DEF BridgedNext, BridgeStep

LEMMA BridgedNextDriven ==
  Driven /\ TypeOK /\ Linked /\ [BridgedNext]_bvars => Driven'
<1> SUFFICES ASSUME Driven, TypeOK, Linked, [BridgedNext]_bvars PROVE Driven'
  OBVIOUS
<1>1. CASE \E f \in Flows : Initiate(f) BY <1>1, InitiateDriven
<1>2. CASE \E i \in work : Handle(i) BY <1>2, HandleDriven
<1>3. CASE \E i \in work : Call(i) BY <1>3, CallDriven
<1>4. CASE \E i \in work : Revert(i)
  BY <1>4, FewerTasks DEF Revert, vars, legalVars
<1>5. CASE HumanStep BY <1>5, HumanStepDriven
<1>6. CASE \E i \in work : Drop(i) BY <1>6, FewerTasks DEF Drop, vars, legalVars
<1>7. CASE \E b \in Bridges : Crash(b) \/ Restart(b)
  BY <1>7, FewerTasks DEF Crash, Restart, vars, legalVars
<1>8. CASE UNCHANGED bvars
  BY <1>8, FewerTasks DEF bvars, bridgeVars, vars, legalVars
<1> QED BY <1>1, <1>2, <1>3, <1>4, <1>5, <1>6, <1>7, <1>8 DEF BridgedNext, BridgeStep

(* The driven system is a behaviour of the contracts: whatever the bridges *)
(* answer, lose or crash in, what holds of OnboardingSystem holds of it.   *)
THEOREM BridgesWithinContracts == BridgedSpec => Spec
<1>1. BridgesInit => Init /\ Driven BY InitDriven DEF BridgesInit
<1>2. Driven /\ TypeOK /\ Linked /\ [BridgedNext]_bvars
        => [Next]_vars /\ Driven' /\ TypeOK' /\ Linked'
  <2>1. Driven => Typed BY DEF Driven
  <2> QED BY <2>1, BridgedNextAllowed, BridgedNextDriven, NextTyped
<1> QED BY <1>1, <1>2, InitTyped, PTL DEF BridgedSpec, Spec

(* So the registry and the oracles agree also when the bridges drive them, *)
(* for any interface they are given.                                       *)
COROLLARY DrivenDecisionsAgree ==
  BridgedSpec => [](PhasesBacked /\ TerminatedByRejection /\ OneRejection /\ ReadyOnlyWhenDecided)
BY BridgesWithinContracts, DecisionsAgree

(* And what the contracts promise of single steps holds of the bridges'    *)
(* steps: a terminated flow and a signed text stay as they are, and the    *)
(* bridges' work is a behaviour of the abstract flow.                      *)
COROLLARY DrivenStepsKept ==
  BridgedSpec => TerminatedFlowFrozen /\ SignedTextFixed /\ RefinesOnboardingFlow
BY BridgesWithinContracts, Frozen, SignedTextTheorem, Refinement

LEMMA DrivenIsOneDriver == Driven => OneDriver
<1> SUFFICES ASSUME Driven PROVE OneDriver
  OBVIOUS
<1> USE DEF Driven, Alone, Unanswered
<1>1. ASSUME NEW r \in AMLRequests, NEW i \in work, NEW j \in work,
             {i, j} \subseteq AMLTasks(r)
      PROVE  i = j /\ aml[r].status = IF DocumentBridgeHears(i) THEN "DataRequested"
                                                               ELSE "Pending"
  BY <1>1 DEF AMLTasks, AMLTurns, AMLTurn, DocumentBridgeHears
<1>2. ASSUME NEW r \in CreditRequests, NEW i \in work, NEW j \in work,
             {i, j} \subseteq CreditTasks(r)
      PROVE  i = j /\ credit[r].status = CASE DocumentBridgeHears(i) -> "DataRequested"
                                           [] NegotiatorBridgeHears(i) -> "Negotiating"
                                           [] OTHER -> "Pending"
  BY <1>2 DEF CreditTasks, CreditTurns, CreditTurn, DocumentBridgeHears,
              NegotiatorBridgeHears
<1>3. ASSUME NEW r \in LegalRequests, NEW i \in work, NEW j \in work,
             {i, j} \subseteq LegalTasks(r)
      PROVE  i = j /\ legal[r].status = IF ClientLegalBridgeHears(i) THEN "DraftIssued"
                                                                    ELSE "Pending"
  BY <1>3 DEF LegalTasks, LegalTurns, LegalTurn, ClientLegalBridgeHears
<1> QED BY <1>1, <1>2, <1>3 DEF OneDriver

(* A request has one task at most, and it is of the side whose turn it is, *)
(* for any number of flows, requests, faults and restarts.                 *)
THEOREM OneDriverAlways == BridgedSpec => []OneDriver
<1>1. BridgesInit => Init /\ Driven BY InitDriven DEF BridgesInit
<1>2. Driven /\ TypeOK /\ Linked /\ [BridgedNext]_bvars => Driven' /\ TypeOK' /\ Linked'
  <2>1. Driven => Typed BY DEF Driven
  <2> QED BY <2>1, BridgedNextAllowed, BridgedNextDriven, NextTyped
<1> QED BY <1>1, <1>2, InitTyped, DrivenIsOneDriver, PTL DEF BridgedSpec

-----------------------------------------------------------------------------
(* What the bridges leave behind.  No one but them and the humans calls    *)
(* the contracts, so that wallets, bindings and permissions stay what they *)
(* were at deployment, and every request names the desks it was opened by. *)

InPlace == wallet = Agents /\ boundTo = HomeOracle /\ staleCard = {} /\ oracles = Callers

DesksBound == \A t \in {"aml", "credit", "legal", "setup"} : HomeOracle[BankDesk[t]] = t

OfDesks(request, t) ==
  request.status # "None" =>
    request.bankAgent = BankDesk[t] /\ request.clientAgent = ClientDesk[t]

Staffed ==
  /\ \A r \in AMLRequests : OfDesks(aml[r], "aml")
  /\ \A r \in CreditRequests : OfDesks(credit[r], "credit")
  /\ \A r \in LegalRequests : OfDesks(legal[r], "legal")

LEMMA DesksAccepted ==
  ASSUME InPlace, DesksBound
  PROVE  /\ \A t \in {"aml", "credit", "legal", "setup"} :
              OnlyBankAgent(BankDesk[t], t) /\ CheckCardHash(BankDesk[t])
         /\ \A t \in {"aml", "credit", "legal"} :
              OnlyClientAgent(ClientDesk[t]) /\ CheckCardHash(ClientDesk[t])
<1>1. /\ \A t \in {"aml", "credit", "legal", "setup"} : BankDesk[t] \in Agents
      /\ \A t \in {"aml", "credit", "legal"} : ClientDesk[t] \in Agents
  BY DesksAssumption, ClientAgentsAssumption
<1>2. \A a \in Agents : GetAgentWallet(a) = a /\ CheckCardHash(a)
  BY DEF InPlace, GetAgentWallet, CheckCardHash
<1> QED BY <1>1, <1>2 DEF InPlace, DesksBound, OnlyBankAgent, OnlyClientAgent

(* The contracts' own steps leave the permissions alone, but for SetOracle. *)
LEMMA InPlaceStep ==
  ASSUME Typed, InPlace, [BridgedNext]_bvars
  PROVE  InPlace'
<1> USE DEF registryVars, identityVars
<1>1. CASE \E f \in Flows : Initiate(f)
  BY <1>1 DEF Initiate, InitiateOnboarding, InPlace
<1>2. ASSUME NEW i \in work, Handle(i) PROVE InPlace'
  BY <1>2 DEF Handle, vars, InPlace
<1>3. ASSUME NEW i \in work, Call(i) PROVE InPlace'
  <2>1. UNCHANGED identityVars
    BY <1>3 DEF Call, AMLCall, CreditCall, LegalCall, SetupCall, OpenReview
  <2>2. oracles' = oracles
    <3>1. CASE AMLCall(i)
      BY <3>1 DEF AMLCall, AMLRequestClientData, AMLFulfillDataRequest, AMLSubmitRecommendation
    <3>2. CASE CreditCall(i)
      BY <3>2 DEF CreditCall, CreditRequestClientData, CreditFulfillDataRequest,
                  ProposeTerms, SubmitCounterProposal, AcceptTerms, CreditSubmitRecommendation
    <3>3. CASE LegalCall(i)
      BY <3>3 DEF LegalCall, IssueDraft, SubmitMarkup, LegalSubmitRecommendation
    <3>4. CASE SetupCall(i)
      BY <3>4 DEF SetupCall, SetupLegalEntity, SetupAccount, SetupProducts, SetPhaseComplete
    <3>5. CASE OpenReview(i)
      BY <3>5 DEF OpenReview, RequestAMLReview, RequestCreditReview, RequestLegalReview
    <3> QED BY <1>3, <3>1, <3>2, <3>3, <3>4, <3>5 DEF Call
  <2> QED BY <2>1, <2>2 DEF InPlace
<1>4. ASSUME NEW i \in work, Revert(i) \/ Drop(i) PROVE InPlace'
  BY <1>4 DEF Revert, Drop, vars, InPlace
<1>5. CASE HumanStep
  <2>1. UNCHANGED identityVars BY <1>5 DEF HumanStep
  <2>2. oracles' = oracles
    BY <1>5 DEF HumanStep, Approve, Refuse, AMLClear, AMLReject, CreditApprove, CreditReject,
                Execute, LegalReject, ApproveBankSide, ApproveClientSide,
                SetPhaseComplete, Terminate
  <2> QED BY <2>1, <2>2 DEF InPlace
<1>6. CASE \E b \in Bridges : Crash(b) \/ Restart(b)
  BY <1>6 DEF Crash, Restart, vars, InPlace
<1>7. CASE UNCHANGED bvars BY <1>7 DEF bvars, vars, InPlace
<1> QED BY <1>1, <1>2, <1>3, <1>4, <1>5, <1>6, <1>7 DEF BridgedNext, BridgeStep

(* A request that is open keeps its desks.                                 *)
KeepsDesks(old, new) ==
  old.status # "None" /\ new.bankAgent = old.bankAgent /\ new.clientAgent = old.clientAgent

LEMMA StaffedStep ==
  ASSUME Typed, TypeOK, Staffed, [BridgedNext]_bvars
  PROVE  Staffed'
<1> USE DEF TypeOK
<1>1. ASSUME UNCHANGED <<aml, credit, legal>> PROVE Staffed'
  BY <1>1 DEF Staffed
<1>2. ASSUME NEW r \in AMLRequests, UNCHANGED <<credit, legal>>,
             \A q \in AMLRequests \ {r} : aml'[q] = aml[q],
             KeepsDesks(aml[r], aml'[r]) \/ OfDesks(aml'[r], "aml")
      PROVE  Staffed'
  BY <1>2 DEF Staffed, OfDesks, KeepsDesks
<1>3. ASSUME NEW r \in CreditRequests, UNCHANGED <<aml, legal>>,
             \A q \in CreditRequests \ {r} : credit'[q] = credit[q],
             KeepsDesks(credit[r], credit'[r]) \/ OfDesks(credit'[r], "credit")
      PROVE  Staffed'
  BY <1>3 DEF Staffed, OfDesks, KeepsDesks
<1>4. ASSUME NEW r \in LegalRequests, UNCHANGED <<aml, credit>>,
             \A q \in LegalRequests \ {r} : legal'[q] = legal[q],
             KeepsDesks(legal[r], legal'[r]) \/ OfDesks(legal'[r], "legal")
      PROVE  Staffed'
  BY <1>4 DEF Staffed, OfDesks, KeepsDesks
<1>5. ASSUME NEW i \in work, Call(i) PROVE Staffed'
  <2>1. CASE AMLCall(i)
    <3>1. i.of \in AMLRequests BY <2>1, TaskOf DEF AMLCall
    <3> DEFINE Kept == /\ \A q \in AMLRequests \ {i.of} : aml'[q] = aml[q]
                       /\ KeepsDesks(aml[i.of], aml'[i.of])
    <3> USE DEF AMLTypeOK, AMLRecord, KeepsDesks, AMLActive
    <3>2. ASSUME AMLRequestClientData(i.of) PROVE Kept BY <3>1, <3>2 DEF AMLRequestClientData
    <3>3. ASSUME AMLFulfillDataRequest(i.of) PROVE Kept BY <3>1, <3>3 DEF AMLFulfillDataRequest
    <3>4. ASSUME AMLSubmitRecommendation(i.of) PROVE Kept
      BY <3>1, <3>4 DEF AMLSubmitRecommendation
    <3>5. Kept BY <2>1, <3>2, <3>3, <3>4 DEF AMLCall
    <3> QED BY <1>2, <2>1, <3>1, <3>5 DEF AMLCall, legalVars
  <2>2. CASE CreditCall(i)
    <3>1. i.of \in CreditRequests BY <2>2, TaskOf DEF CreditCall
    <3> DEFINE Kept == /\ \A q \in CreditRequests \ {i.of} : credit'[q] = credit[q]
                       /\ KeepsDesks(credit[i.of], credit'[i.of])
    <3> USE DEF CreditTypeOK, CreditRecord, KeepsDesks, CreditActive
    <3>2. ASSUME CreditRequestClientData(i.of) PROVE Kept BY <3>1, <3>2 DEF CreditRequestClientData
    <3>3. ASSUME CreditFulfillDataRequest(i.of) PROVE Kept BY <3>1, <3>3 DEF CreditFulfillDataRequest
    <3>4. ASSUME ProposeTerms(i.of) PROVE Kept BY <3>1, <3>4 DEF ProposeTerms
    <3>5. ASSUME SubmitCounterProposal(i.of) PROVE Kept BY <3>1, <3>5 DEF SubmitCounterProposal
    <3>6. ASSUME AcceptTerms(i.of) PROVE Kept BY <3>1, <3>6 DEF AcceptTerms
    <3>7. ASSUME CreditSubmitRecommendation(i.of) PROVE Kept BY <3>1, <3>7 DEF CreditSubmitRecommendation
    <3>8. Kept BY <2>2, <3>2, <3>3, <3>4, <3>5, <3>6, <3>7 DEF CreditCall
    <3> QED BY <1>3, <2>2, <3>1, <3>8 DEF CreditCall, legalVars
  <2>3. CASE LegalCall(i)
    <3>1. i.of \in LegalRequests BY <2>3, TaskOf DEF LegalCall
    <3>2. PICK doc \in Docs : \/ IssueDraft(i.of, doc) \/ SubmitMarkup(i.of, doc)
                              \/ LegalSubmitRecommendation(i.of, doc)
      BY <2>3 DEF LegalCall
    <3> DEFINE Kept == /\ \A q \in LegalRequests \ {i.of} : legal'[q] = legal[q]
                       /\ KeepsDesks(legal[i.of], legal'[i.of])
    <3> USE DEF LegalTypeOK, LegalRecord, KeepsDesks, LegalActive
    <3>3. ASSUME IssueDraft(i.of, doc) PROVE Kept BY <3>1, <3>3 DEF IssueDraft
    <3>4. ASSUME SubmitMarkup(i.of, doc) PROVE Kept BY <3>1, <3>4 DEF SubmitMarkup
    <3>5. ASSUME LegalSubmitRecommendation(i.of, doc) PROVE Kept BY <3>1, <3>5 DEF LegalSubmitRecommendation
    <3>6. Kept BY <3>2, <3>3, <3>4, <3>5
    <3> QED BY <1>4, <2>3, <3>1, <3>6 DEF LegalCall
  <2>4. CASE SetupCall(i) BY <1>1, <2>4 DEF SetupCall, legalVars
  <2>5. CASE OpenReview(i)
    <3>1. CASE \E r \in AMLRequests :
                 /\ RequestAMLReview(r, i.of, BankDesk["aml"], ClientDesk["aml"])
                 /\ UNCHANGED <<credit, legalVars>>
      <4>1. PICK r \in AMLRequests :
                 /\ RequestAMLReview(r, i.of, BankDesk["aml"], ClientDesk["aml"])
                 /\ UNCHANGED <<credit, legalVars>>
        BY <3>1
      <4>2. (\A q \in AMLRequests \ {r} : aml'[q] = aml[q]) /\ OfDesks(aml'[r], "aml")
        BY <4>1 DEF RequestAMLReview, AMLTypeOK, OfDesks
      <4> QED BY <1>2, <4>1, <4>2 DEF legalVars
    <3>2. CASE \E r \in CreditRequests :
                 /\ RequestCreditReview(r, i.of, BankDesk["credit"], ClientDesk["credit"])
                 /\ UNCHANGED <<aml, legalVars>>
      <4>1. PICK r \in CreditRequests :
                 /\ RequestCreditReview(r, i.of, BankDesk["credit"], ClientDesk["credit"])
                 /\ UNCHANGED <<aml, legalVars>>
        BY <3>2
      <4>2. /\ \A q \in CreditRequests \ {r} : credit'[q] = credit[q]
            /\ OfDesks(credit'[r], "credit")
        BY <4>1 DEF RequestCreditReview, CreditTypeOK, OfDesks
      <4> QED BY <1>3, <4>1, <4>2 DEF legalVars
    <3>3. CASE \E r \in LegalRequests :
                 /\ RequestLegalReview(r, i.of, BankDesk["legal"], ClientDesk["legal"])
                 /\ UNCHANGED <<aml, credit>>
      <4>1. PICK r \in LegalRequests :
                 /\ RequestLegalReview(r, i.of, BankDesk["legal"], ClientDesk["legal"])
                 /\ UNCHANGED <<aml, credit>>
        BY <3>3
      <4>2. (\A q \in LegalRequests \ {r} : legal'[q] = legal[q]) /\ OfDesks(legal'[r], "legal")
        BY <4>1 DEF RequestLegalReview, LegalTypeOK, OfDesks
      <4> QED BY <1>4, <4>1, <4>2
    <3> QED BY <2>5, <3>1, <3>2, <3>3 DEF OpenReview
  <2> QED BY <1>5, <2>1, <2>2, <2>3, <2>4, <2>5 DEF Call
<1>6. CASE HumanStep
  <2>1. PICK human \in Humans : Approve(human) \/ Refuse(human) BY <1>6 DEF HumanStep
  <2>2. CASE \E r \in AMLRequests : /\ AMLClear(r, human) \/ AMLReject(r, human)
                                    /\ UNCHANGED <<credit, legalVars>>
    <3>1. PICK r \in AMLRequests : /\ AMLClear(r, human) \/ AMLReject(r, human)
                                   /\ UNCHANGED <<credit, legalVars>>
      BY <2>2
    <3>2. (\A q \in AMLRequests \ {r} : aml'[q] = aml[q]) /\ KeepsDesks(aml[r], aml'[r])
      BY <3>1 DEF AMLClear, AMLReject, AMLTypeOK, AMLRecord, KeepsDesks, AMLUnderReview
    <3> QED BY <1>2, <3>1, <3>2 DEF legalVars
  <2>3. CASE \E r \in CreditRequests : /\ CreditApprove(r, human) \/ CreditReject(r, human)
                                       /\ UNCHANGED <<aml, legalVars>>
    <3>1. PICK r \in CreditRequests : /\ CreditApprove(r, human) \/ CreditReject(r, human)
                                      /\ UNCHANGED <<aml, legalVars>>
      BY <2>3
    <3>2. /\ \A q \in CreditRequests \ {r} : credit'[q] = credit[q]
          /\ KeepsDesks(credit[r], credit'[r])
      BY <3>1 DEF CreditApprove, CreditReject, CreditTypeOK, CreditRecord, KeepsDesks,
                  CreditUnderReview
    <3> QED BY <1>3, <3>1, <3>2 DEF legalVars
  <2>4. CASE \E r \in LegalRequests :
               /\ \/ Execute(r) \/ LegalReject(r, human)
                  \/ ApproveBankSide(r, human) \/ ApproveClientSide(r, human)
               /\ UNCHANGED <<aml, credit>>
    <3>1. PICK r \in LegalRequests :
               /\ \/ Execute(r) \/ LegalReject(r, human)
                  \/ ApproveBankSide(r, human) \/ ApproveClientSide(r, human)
               /\ UNCHANGED <<aml, credit>>
      BY <2>4
    <3>2. /\ \A q \in LegalRequests \ {r} : legal'[q] = legal[q]
          /\ KeepsDesks(legal[r], legal'[r])
      BY <3>1 DEF Execute, LegalReject, ApproveBankSide, ApproveClientSide, LegalTypeOK,
                  LegalRecord, KeepsDesks, LegalUnderReview
    <3> QED BY <1>4, <3>1, <3>2
  <2> QED BY <2>1, <2>2, <2>3, <2>4 DEF Approve, Refuse
<1>7. CASE \/ \E f \in Flows : Initiate(f)
           \/ \E i \in work : Handle(i) \/ Revert(i) \/ Drop(i)
           \/ \E b \in Bridges : Crash(b) \/ Restart(b)
           \/ UNCHANGED bvars
  BY <1>1, <1>7 DEF Initiate, Handle, Revert, Drop, Crash, Restart, bvars, vars, legalVars
<1> QED BY <1>5, <1>6, <1>7 DEF BridgedNext, BridgeStep

-----------------------------------------------------------------------------
(* The answer a task is left with fits what was heard, and what was heard  *)
(* says something of the credit request's past.                            *)

AMLAnswers(event) == IF event = "DataRequested" THEN AssembleDocuments ELSE ScreenClient
CreditAnswers(event) ==
  IF event = "DataRequested" THEN AssembleDocuments
  ELSE IF event = "TermsProposed" THEN EvaluateTerms
  ELSE IF event = "CreditReviewRequested" THEN AssessCredit ELSE ContinueAssessment
LegalAnswers(event) ==
  IF event = "DraftIssued" THEN ReviewDraft
  ELSE IF event = "LegalReviewRequested" THEN IssueInitialDraft ELSE ReviewMarkupAndRespond

Replies(i) ==
  \/ i.call = Unanswered
  \/ i.oracle = "aml" /\ i.call \in AMLAnswers(i.event)
  \/ i.oracle = "credit" /\ i.call \in CreditAnswers(i.event)
  \/ i.oracle = "legal" /\ i.call \in LegalAnswers(i.event)
  \/ i.oracle \in {"registry", "initiate"}

Recalls(event, request) ==
  /\ event = "CreditReviewRequested"
       => request.dataRound = 0 /\ request.negotiationRound = 0
  /\ event \in {"DataRequested", "DataFulfilled"} => request.dataRound > 0
  /\ event = "CounterProposed" => request.terms = "countered"

Informed ==
  \A i \in work : Replies(i) /\ (i.oracle = "credit" => Recalls(i.event, credit[i.of]))

(* What a handler does, by the oracle it listens to.                       *)
LEMMA HandleAnswers ==
  ASSUME Typed, NEW i \in work, Handle(i)
  PROVE  /\ i.call = Unanswered
         /\ \/ i.oracle = "aml" /\ Answered(i, AMLAnswers(i.event))
            \/ i.oracle = "credit" /\ Answered(i, CreditAnswers(i.event))
            \/ i.oracle = "legal" /\ Answered(i, LegalAnswers(i.event))
            \/ HandlePhaseCompleted(i)
<1>1. CASE AMLHandleReviewRequested(i) \/ AMLHandleDataFulfilled(i)
  BY <1>1 DEF AMLHandleReviewRequested, AMLHandleDataFulfilled, AMLBridgeHears,
              ScreenClient, ContinueScreening, AMLAnswers, Answered
<1>2. CASE CreditHandleReviewRequested(i) \/ CreditHandleDataFulfilled(i)
             \/ CreditHandleCounterProposed(i)
  BY <1>2 DEF CreditHandleReviewRequested, CreditHandleDataFulfilled,
              CreditHandleCounterProposed, CreditBridgeHears, CreditAnswers, Answered
<1>3. CASE LegalHandleReviewRequested(i) \/ LegalHandleMarkupSubmitted(i)
             \/ HandleDraftIssued(i)
  BY <1>3 DEF LegalHandleReviewRequested, LegalHandleMarkupSubmitted, HandleDraftIssued,
              LegalBridgeHears, ClientLegalBridgeHears, LegalAnswers, Answered
<1>4. CASE HandleDataRequested(i)
  BY <1>4 DEF HandleDataRequested, DocumentBridgeHears, AMLAnswers, CreditAnswers, Answered
<1>5. CASE HandleTermsProposed(i)
  BY <1>5 DEF HandleTermsProposed, NegotiatorBridgeHears, CreditAnswers, Answered
<1>6. CASE HandlePhaseCompleted(i) BY <1>6 DEF HandlePhaseCompleted
<1> QED BY <1>1, <1>2, <1>3, <1>4, <1>5, <1>6 DEF Handle

(* What a handler leaves: the tasks of others, and of a review this one.   *)
LEMMA AnsweredBy ==
  ASSUME NEW i \in Tasks, NEW calls, Answered(i, calls)
  PROVE  \E e : /\ work' = (work \ {i}) \cup {e}
                /\ e.oracle = i.oracle /\ e.event = i.event /\ e.of = i.of
                /\ e.call \in calls
<1>1. PICK c \in calls : work' = (work \ {i}) \cup {[i EXCEPT !.call = c]}
  BY DEF Answered
<1> DEFINE e == [i EXCEPT !.call = c]
<1>2. e.oracle = i.oracle /\ e.event = i.event /\ e.of = i.of /\ e.call = c
  BY AnswerFields
<1> HIDE DEF e
<1>3. work' = (work \ {i}) \cup {e} BY <1>1 DEF e
<1> QED BY <1>2, <1>3

LEMMA HandleKeeps ==
  ASSUME Typed, NEW i \in work, Handle(i)
  PROVE  /\ work \ {i} \subseteq work'
         /\ \A j \in work' \ work :
              j.oracle = i.oracle /\ j.event = i.event /\ j.of = i.of /\ Replies(j)
         /\ i.oracle # "registry" => \E j \in work' : j.oracle = i.oracle /\ j.of = i.of
         /\ i.oracle = "registry" /\ NextSetupCall(i.of) # {} =>
              \E j \in work' : /\ j.oracle = i.oracle /\ j.of = i.of
                               /\ j.call \in NextSetupCall(i.of)
<1>1. i \in Tasks BY DEF Typed
<1>2. CASE i.oracle = "aml" /\ Answered(i, AMLAnswers(i.event))
  BY <1>1, <1>2, AnsweredBy DEF Replies
<1>3. CASE i.oracle = "credit" /\ Answered(i, CreditAnswers(i.event))
  BY <1>1, <1>3, AnsweredBy DEF Replies
<1>4. CASE i.oracle = "legal" /\ Answered(i, LegalAnswers(i.event))
  BY <1>1, <1>4, AnsweredBy DEF Replies
<1>5. CASE HandlePhaseCompleted(i)
  <2>1. i.oracle = "registry" BY <1>5 DEF HandlePhaseCompleted, SetupBridgeHears
  <2>2. CASE NextSetupCall(i.of) = {}
    BY <1>5, <2>1, <2>2 DEF HandlePhaseCompleted
  <2>3. CASE NextSetupCall(i.of) # {}
    <3>1. Answered(i, NextSetupCall(i.of)) BY <1>5, <2>3 DEF HandlePhaseCompleted
    <3> QED BY <1>1, <2>1, <3>1, AnsweredBy DEF Replies
  <2> QED BY <2>2, <2>3
<1> QED BY <1>2, <1>3, <1>4, <1>5, HandleAnswers

(* What a transaction of a credit task leaves to be heard of is true.      *)
LEMMA CreditCallRecalls ==
  ASSUME Driven, Informed, CreditTypeOK, NEW i \in work, CreditCall(i)
  PROVE  \A j \in work' : \/ j \in work /\ j # i
                          \/ /\ j.oracle = "credit" /\ j.of = i.of
                             /\ j.call = Unanswered
                             /\ Recalls(j.event, credit'[i.of])
<1>1. i.oracle = "credit" /\ i.of \in CreditRequests
  BY TaskOf DEF CreditCall, Driven
<1>2. Recalls(i.event, credit[i.of]) BY <1>1 DEF Informed
<1>3. ASSUME NEW event, Emit({i}, {Heard("credit", event, i.of)}),
             Recalls(event, credit'[i.of])
      PROVE  \A j \in work' : \/ j \in work /\ j # i
                              \/ /\ j.oracle = "credit" /\ j.of = i.of
                                 /\ j.call = Unanswered
                                 /\ Recalls(j.event, credit'[i.of])
  <2> DEFINE e == Heard("credit", event, i.of)
  <2>1. e.oracle = "credit" /\ e.of = i.of /\ e.call = Unanswered /\ e.event = event
    BY HeardFields
  <2> HIDE DEF e
  <2>2. \A j \in work' : (j \in work /\ j # i) \/ j = e BY <1>3 DEF Emit, e
  <2> QED BY <1>3, <2>1, <2>2
<1>4. CASE CreditRequestClientData(i.of) /\ Emit({i}, {Heard("credit", "DataRequested", i.of)})
  <2>1. credit'[i.of].dataRound > 0
    BY <1>1, <1>4 DEF CreditRequestClientData, CreditTypeOK, CreditRecord
  <2>2. Recalls("DataRequested", credit'[i.of]) BY <2>1 DEF Recalls
  <2> QED BY <1>3, <1>4, <2>2
<1>5. CASE CreditFulfillDataRequest(i.of) /\ Emit({i}, {Heard("credit", "DataFulfilled", i.of)})
  <2>1. credit[i.of].status = "DataRequested" BY <1>5 DEF CreditFulfillDataRequest
  <2>2. i.event = "DataRequested" BY <1>1, <2>1 DEF Driven, CreditTurns, CreditTurn
  <2>3. credit[i.of].dataRound > 0 BY <1>2, <2>2 DEF Recalls
  <2>4. credit'[i.of].dataRound = credit[i.of].dataRound
    BY <1>1, <1>5 DEF CreditFulfillDataRequest, CreditTypeOK, CreditRecord
  <2>5. Recalls("DataFulfilled", credit'[i.of]) BY <2>3, <2>4 DEF Recalls
  <2> QED BY <1>3, <1>5, <2>5
<1>6. CASE ProposeTerms(i.of) /\ Emit({i}, {Heard("credit", "TermsProposed", i.of)})
  <2>1. Recalls("TermsProposed", credit'[i.of]) BY DEF Recalls
  <2> QED BY <1>3, <1>6, <2>1
<1>7. CASE SubmitCounterProposal(i.of) /\ Emit({i}, {Heard("credit", "CounterProposed", i.of)})
  <2>1. credit'[i.of].terms = "countered"
    BY <1>1, <1>7 DEF SubmitCounterProposal, CreditTypeOK, CreditRecord
  <2>2. Recalls("CounterProposed", credit'[i.of]) BY <2>1 DEF Recalls
  <2> QED BY <1>3, <1>7, <2>2
<1>8. CASE i.call = "acceptTerms" /\ AcceptTerms(i.of)
  <2>1. credit[i.of].status = "Negotiating" BY <1>8 DEF AcceptTerms
  <2>2. i.event = "TermsProposed" BY <1>1, <2>1 DEF Driven, CreditTurns, CreditTurn
  <2> QED BY <1>1, <1>8, <2>2 DEF Driven, Countering, Unanswered
<1>9. CASE Emit({i}, {}) BY <1>9 DEF Emit
<1> QED BY <1>4, <1>5, <1>6, <1>7, <1>8, <1>9 DEF CreditCall

(* A step that gives no credit task something else to recall.              *)
LEMMA InformedKept ==
  ASSUME Informed,
         \A j \in work' : /\ j \in work \/ Replies(j)
                          /\ j.oracle = "credit" =>
                               \/ Recalls(j.event, credit'[j.of])
                               \/ \E k \in work : /\ k.oracle = "credit" /\ k.of = j.of
                                                  /\ k.event = j.event
                                                  /\ credit'[j.of] = credit[j.of]
  PROVE  Informed'
<1> SUFFICES ASSUME NEW j \in work'
             PROVE  Replies(j) /\ (j.oracle = "credit" => Recalls(j.event, credit'[j.of]))
  BY DEF Informed, Replies
<1>1. Replies(j) BY DEF Informed
<1>2. ASSUME j.oracle = "credit" PROVE Recalls(j.event, credit'[j.of])
  BY <1>2 DEF Informed
<1> QED BY <1>1, <1>2

LEMMA HumanTasks ==
  ASSUME Driven, TypeOK, HumanStep
  PROVE  /\ work \subseteq work'
         /\ \A j \in work' \ work : j.oracle = "registry"
         /\ \A j \in work : /\ j.oracle = "aml" => aml'[j.of] = aml[j.of]
                            /\ j.oracle = "credit" => credit'[j.of] = credit[j.of]
                            /\ j.oracle = "legal" => legal'[j.of] = legal[j.of]
<1> USE DEF TypeOK
<1>1. PICK human \in Humans : Approve(human) \/ Refuse(human) BY DEF HumanStep
<1>2. /\ work \subseteq work'
      /\ \A j \in work' \ work : j.oracle = "registry"
  <2>1. \A phase, f : Heard("registry", phase, f).oracle = "registry" BY HeardFields
  <2> QED BY <1>1, <2>1 DEF Approve, Refuse, Emit
<1>3. CASE \E r \in AMLRequests : /\ AMLClear(r, human) \/ AMLReject(r, human)
                                  /\ UNCHANGED <<credit, legalVars>>
  <2>1. PICK r \in AMLRequests : /\ AMLClear(r, human) \/ AMLReject(r, human)
                                 /\ UNCHANGED <<credit, legalVars>>
    BY <1>3
  <2>2. /\ aml[r].status \in {"InHumanReview", "Escalated"}
        /\ \A q \in AMLRequests \ {r} : aml'[q] = aml[q]
    BY <2>1 DEF AMLClear, AMLReject, AMLUnderReview, AMLTypeOK
  <2>3. \A j \in work : j.oracle = "aml" => j.of \in AMLRequests \ {r}
    BY <2>2, TaskOf DEF Driven, AMLTurns, AMLTurn
  <2> QED BY <1>2, <2>1, <2>2, <2>3 DEF legalVars
<1>4. CASE \E r \in CreditRequests : /\ CreditApprove(r, human) \/ CreditReject(r, human)
                                     /\ UNCHANGED <<aml, legalVars>>
  <2>1. PICK r \in CreditRequests : /\ CreditApprove(r, human) \/ CreditReject(r, human)
                                    /\ UNCHANGED <<aml, legalVars>>
    BY <1>4
  <2>2. /\ credit[r].status \in {"InHumanReview", "Escalated"}
        /\ \A q \in CreditRequests \ {r} : credit'[q] = credit[q]
    BY <2>1 DEF CreditApprove, CreditReject, CreditUnderReview, CreditTypeOK
  <2>3. \A j \in work : j.oracle = "credit" => j.of \in CreditRequests \ {r}
    BY <2>2, TaskOf DEF Driven, CreditTurns, CreditTurn
  <2> QED BY <1>2, <2>1, <2>2, <2>3 DEF legalVars
<1>5. CASE \E r \in LegalRequests :
             /\ \/ Execute(r) \/ LegalReject(r, human)
                \/ ApproveBankSide(r, human) \/ ApproveClientSide(r, human)
             /\ UNCHANGED <<aml, credit>>
  <2>1. PICK r \in LegalRequests :
             /\ \/ Execute(r) \/ LegalReject(r, human)
                \/ ApproveBankSide(r, human) \/ ApproveClientSide(r, human)
             /\ UNCHANGED <<aml, credit>>
    BY <1>5
  <2>2. /\ legal[r].status \in {"InHumanReview", "Escalated"}
        /\ \A q \in LegalRequests \ {r} : legal'[q] = legal[q]
    BY <2>1 DEF Execute, LegalReject, ApproveBankSide, ApproveClientSide,
                LegalUnderReview, LegalTypeOK
  <2>3. \A j \in work : j.oracle = "legal" => j.of \in LegalRequests \ {r}
    BY <2>2, TaskOf DEF Driven, LegalTurns, LegalTurn
  <2> QED BY <1>2, <2>1, <2>2, <2>3
<1> QED BY <1>1, <1>3, <1>4, <1>5 DEF Approve, Refuse

(* Opening a review leaves one task about a request no one has a task of.  *)
OpenedBy(i, oracle, event, r) ==
  work' = (work \ {i}) \cup {e \in {Heard(oracle, event, r)} : Listener(e) \in up}

LEMMA OpenReviewTasks ==
  ASSUME Driven, TypeOK, NEW i \in work, OpenReview(i)
  PROVE  \/ \E r \in AMLRequests :
              /\ OpenedBy(i, "aml", "AMLReviewRequested", r)
              /\ aml[r].status = "None" /\ (\A q \in AMLRequests \ {r} : aml'[q] = aml[q])
              /\ UNCHANGED <<credit, legal>>
         \/ \E r \in CreditRequests :
              /\ OpenedBy(i, "credit", "CreditReviewRequested", r)
              /\ credit[r].status = "None"
              /\ \A q \in CreditRequests \ {r} : credit'[q] = credit[q]
              /\ Recalls("CreditReviewRequested", credit'[r])
              /\ UNCHANGED <<aml, legal>>
         \/ \E r \in LegalRequests :
              /\ OpenedBy(i, "legal", "LegalReviewRequested", r)
              /\ legal[r].status = "None" /\ (\A q \in LegalRequests \ {r} : legal'[q] = legal[q])
              /\ UNCHANGED <<aml, credit>>
<1> USE DEF TypeOK, OpenedBy, Emit
<1>1. CASE \E r \in AMLRequests :
             /\ RequestAMLReview(r, i.of, BankDesk["aml"], ClientDesk["aml"])
             /\ Emit({i}, {Heard("aml", "AMLReviewRequested", r)})
             /\ UNCHANGED <<credit, legalVars>>
  BY <1>1 DEF RequestAMLReview, AMLTypeOK, legalVars
<1>2. CASE \E r \in CreditRequests :
             /\ RequestCreditReview(r, i.of, BankDesk["credit"], ClientDesk["credit"])
             /\ Emit({i}, {Heard("credit", "CreditReviewRequested", r)})
             /\ UNCHANGED <<aml, legalVars>>
  BY <1>2 DEF RequestCreditReview, CreditTypeOK, legalVars, Recalls
<1>3. CASE \E r \in LegalRequests :
             /\ RequestLegalReview(r, i.of, BankDesk["legal"], ClientDesk["legal"])
             /\ Emit({i}, {Heard("legal", "LegalReviewRequested", r)})
             /\ UNCHANGED <<aml, credit>>
  BY <1>3 DEF RequestLegalReview, LegalTypeOK
<1> QED BY <1>1, <1>2, <1>3 DEF OpenReview

LEMMA InformedStep ==
  ASSUME Driven, TypeOK, Informed, [BridgedNext]_bvars
  PROVE  Informed'
<1>1. CASE \E f \in Flows : Initiate(f)
  <2>1. credit' = credit /\ \A j \in work' : j \in work \/ j.oracle = "initiate"
    BY <1>1 DEF Initiate
  <2> QED BY <2>1, InformedKept DEF Replies
<1>2. ASSUME NEW i \in work, Handle(i) PROVE Informed'
  <2>1. credit' = credit BY <1>2 DEF Handle, vars
  <2>2. \A j \in work' \ work :
          j.oracle = i.oracle /\ j.event = i.event /\ j.of = i.of /\ Replies(j)
    BY <1>2, HandleKeeps DEF Driven
  <2> QED BY <2>1, <2>2, InformedKept
<1>3. ASSUME NEW i \in work, Call(i) PROVE Informed'
  <2>1. CASE CreditCall(i)
    <3>1. \A j \in work' : \/ j \in work /\ j # i
                           \/ /\ j.oracle = "credit" /\ j.of = i.of
                              /\ j.call = Unanswered
                              /\ Recalls(j.event, credit'[i.of])
      BY <2>1, CreditCallRecalls DEF TypeOK
    <3>2. \A r \in CreditRequests \ {i.of} : credit'[r] = credit[r]
      BY <2>1, CreditCallContinues DEF TypeOK
    <3>3. i.oracle = "credit" BY <2>1 DEF CreditCall
    <3>4. \A j \in work : j # i /\ j.oracle = "credit" => credit'[j.of] = credit[j.of]
      BY <3>2, <3>3, TaskOf DEF Driven, Alone
    <3> QED BY <3>1, <3>4, InformedKept DEF Replies
  <2>2. ASSUME NEW oracle, NEW event, NEW r, Emit({i}, {Heard(oracle, event, r)}) \/ Emit({i}, {}),
               oracle # "credit", UNCHANGED credit
        PROVE  Informed'
    <3>1. /\ Heard(oracle, event, r).oracle = oracle
          /\ Heard(oracle, event, r).call = Unanswered
      BY HeardFields
    <3>2. \A j \in work' : j \in work \/ (j.oracle # "credit" /\ Replies(j))
      BY <2>2, <3>1 DEF Emit, Replies
    <3> QED BY <2>2, <3>2, InformedKept
  <2>3. CASE AMLCall(i) BY <2>2, <2>3 DEF AMLCall
  <2>4. CASE LegalCall(i) BY <2>2, <2>4 DEF LegalCall
  <2>5. CASE SetupCall(i) BY <2>2, <2>5 DEF SetupCall
  <2>6. CASE OpenReview(i)
    <3>2. CASE \E r \in CreditRequests :
              /\ OpenedBy(i, "credit", "CreditReviewRequested", r)
              /\ credit[r].status = "None"
              /\ \A q \in CreditRequests \ {r} : credit'[q] = credit[q]
              /\ Recalls("CreditReviewRequested", credit'[r])
      <4>1. PICK r \in CreditRequests :
              /\ OpenedBy(i, "credit", "CreditReviewRequested", r)
              /\ credit[r].status = "None"
              /\ \A q \in CreditRequests \ {r} : credit'[q] = credit[q]
              /\ Recalls("CreditReviewRequested", credit'[r])
        BY <3>2
      <4> DEFINE e == Heard("credit", "CreditReviewRequested", r)
      <4>2. /\ e.event = "CreditReviewRequested" /\ e.of = r /\ e.call = Unanswered
        BY HeardFields
      <4>3. \A j \in work' : j \in work \/ j = e BY <4>1 DEF OpenedBy
      <4> HIDE DEF e
      <4>4. \A j \in work : j.oracle = "credit" => j.of \in CreditRequests \ {r}
        BY <4>1, TaskOf DEF Driven, CreditTurns, CreditTurn
      <4> QED BY <4>1, <4>2, <4>3, <4>4, InformedKept DEF Replies
    <3>3. CASE UNCHANGED credit
               /\ \E oracle \in {"aml", "legal"} : \E event, r : Emit({i}, {Heard(oracle, event, r)})
      BY <2>2, <3>3
    <3> QED BY <2>6, <3>2, <3>3, OpenReviewTasks DEF OpenedBy, Emit
  <2> QED BY <1>3, <2>1, <2>3, <2>4, <2>5, <2>6 DEF Call
<1>4. CASE HumanStep
  <2>1. /\ \A j \in work' \ work : j.oracle = "registry"
        /\ \A j \in work : j.oracle = "credit" => credit'[j.of] = credit[j.of]
    BY <1>4, HumanTasks
  <2> QED BY <2>1, InformedKept DEF Replies
<1>5. CASE \/ \E i \in work : Revert(i) \/ Drop(i)
           \/ \E b \in Bridges : Crash(b) \/ Restart(b)
           \/ UNCHANGED bvars
  <2>1. work' \subseteq work /\ credit' = credit
    BY <1>5 DEF Revert, Drop, Crash, Restart, bvars, bridgeVars, vars
  <2> QED BY <2>1, InformedKept
<1> QED BY <1>1, <1>2, <1>3, <1>4, <1>5 DEF BridgedNext, BridgeStep

-----------------------------------------------------------------------------
(* Without faults every process runs, hears every event and makes the call *)
(* it was told to make.                                                    *)

LEMMA ListenerIsBridge == \A i : Listener(i) \in Bridges
BY DEF Listener, Bridges

LEMMA EmitHeard ==
  ASSUME up = Bridges, NEW done, NEW events, Emit(done, events)
  PROVE  work' = (work \ done) \cup events
BY ListenerIsBridge DEF Emit

LEMMA FaultFree ==
  ASSUME faults \in Nat, faults = 0 => up = Bridges, [BridgedNext]_bvars
  PROVE  /\ faults' \in Nat
         /\ faults' = 0 =>
              /\ faults = 0 /\ up = Bridges /\ up' = Bridges
              /\ \/ (\E f \in Flows : Initiate(f)) \/ BridgeStep \/ HumanStep
                 \/ UNCHANGED bvars
<1>1. CASE (\E f \in Flows : Initiate(f)) \/ BridgeStep \/ HumanStep \/ UNCHANGED bvars
  BY <1>1 DEF Initiate, BridgeStep, Handle, Call, Revert, HumanStep, bvars, bridgeVars
<1>2. CASE (\E i \in work : Drop(i)) \/ (\E b \in Bridges : Crash(b))
  BY <1>2 DEF Drop, Crash
<1>3. CASE \E b \in Bridges : Restart(b) BY <1>3 DEF Restart
<1> QED BY <1>1, <1>2, <1>3 DEF BridgedNext

(* Nothing brings a flow back to life, and a request is on a flow that was *)
(* opened.                                                                 *)
LEMMA LiveBefore ==
  ASSUME IInv, [Next]_vars, NEW f \in Flows, flows[f].created, IsActive(f)'
  PROVE  IsActive(f)
<1>0. TypeOK /\ Linked /\ Fresh /\ RegistryTypeOK BY DEF IInv, TypeOK
<1> SUFFICES flows[f].terminated => flows'[f].terminated BY DEF IsActive
<1>1. CASE QuietShape BY <1>1 DEF QuietShape
<1>2. ASSUME NEW g \in Flows, InitiateOnboarding(g)
      PROVE  flows[f].terminated => flows'[f].terminated
  BY <1>0, <1>2, OpenEffect
<1>3. ASSUME NEW g \in Flows, NEW o, NEW phase, SetPhaseComplete(o, g, phase)
      PROVE  flows[f].terminated => flows'[f].terminated
  BY <1>0, <1>3, SetPhaseFlows
<1>4. ASSUME NEW g \in Flows, NEW o, Terminate(o, g)
      PROVE  flows[f].terminated => flows'[f].terminated
  BY <1>0, <1>4, TerminateEffect
<1>5. ASSUME NEW g \in Flows, SetupShape(g)
      PROVE  flows[f].terminated => flows'[f].terminated
  BY <1>3, <1>5, SetupEffect DEF SetupShape
<1> QED BY <1>0, <1>1, <1>2, <1>3, <1>4, <1>5, NextShape
        DEF Shape, OpenShape, PassShape, FailShape

LEMMA OnOpenedFlow ==
  ASSUME IInv
  PROVE  /\ \A r \in AMLRequests : aml[r].status # "None" =>
              aml[r].flow \in Flows /\ flows[aml[r].flow].created
         /\ \A r \in CreditRequests : credit[r].status # "None" =>
              credit[r].flow \in Flows /\ flows[credit[r].flow].created
         /\ \A r \in LegalRequests : legal[r].status # "None" =>
              legal[r].flow \in Flows /\ flows[legal[r].flow].created
<1> USE DEF IInv, TypeOK, Linked, Fresh
<1>1. \A r \in AMLRequests : aml[r].status # "None" =>
         aml[r].flow \in Flows /\ flows[aml[r].flow].created
  BY DEF AMLTypeOK, AMLRecord, AMLLinked
<1>2. \A r \in CreditRequests : credit[r].status # "None" =>
         credit[r].flow \in Flows /\ flows[credit[r].flow].created
  BY DEF CreditTypeOK, CreditRecord, CreditLinked
<1>3. \A r \in LegalRequests : legal[r].status # "None" =>
         legal[r].flow \in Flows /\ flows[legal[r].flow].created
  BY DEF LegalTypeOK, LegalRecord, LegalLinked
<1> QED BY <1>1, <1>2, <1>3

(* The invariant the theorems to come share.                               *)
Deployed == IInv /\ Driven /\ InPlace /\ Staffed /\ Informed

-----------------------------------------------------------------------------
(* The AML requests that no task is about.                                 *)

AMLAttended(r) ==
  AMLActive(r) /\ aml[r].status \in {"Pending", "DataRequested"} /\ AMLTasks(r) = {}
    => AMLLetGo(r)

LEMMA AMLFrame ==
  ASSUME IInv, [Next]_vars, NEW r \in AMLRequests, AMLAttended(r), aml'[r] = aml[r],
         AMLTasks(r) # {} => AMLTasks(r)' # {}
  PROVE  AMLAttended(r)'
<1> SUFFICES ASSUME AMLActive(r)', AMLTasks(r)' = {},
                    aml[r].status \in {"Pending", "DataRequested"}
             PROVE  AMLLetGo(r)
  BY DEF AMLAttended, AMLLetGo, Unencoded
<1>1. aml[r].status # "None" /\ IsActive(aml[r].flow)' BY DEF AMLActive, IsActive
<1>2. IsActive(aml[r].flow) BY <1>1, OnOpenedFlow, LiveBefore
<1> QED BY <1>1, <1>2 DEF AMLAttended, AMLActive

LEMMA AMLCallCovers ==
  ASSUME Driven, AMLTypeOK, up = Bridges, NEW i \in work, AMLCall(i)
  PROVE  AMLTasks(i.of)' # {} \/ aml'[i.of].status = "InHumanReview"
<1>1. i.of \in AMLRequests BY TaskOf DEF AMLCall, Driven
<1>2. CASE \E event : Emit({i}, {Heard("aml", event, i.of)})
  <2>1. PICK event : Emit({i}, {Heard("aml", event, i.of)}) BY <1>2
  <2>2. Heard("aml", event, i.of) \in work' BY <2>1, EmitHeard
  <2> QED BY <2>2, HeardFields DEF AMLTasks
<1>3. CASE AMLSubmitRecommendation(i.of)
  BY <1>1, <1>3 DEF AMLSubmitRecommendation, AMLTypeOK, AMLRecord
<1> QED BY <1>2, <1>3 DEF AMLCall

LEMMA AMLRefused ==
  ASSUME DesksBound, Deployed, NEW i \in work, i.oracle = "aml", i.call # Unanswered,
         ~Taken(i), AMLActive(i.of)
  PROVE  AMLLetGo(i.of)
<1> USE DEF Deployed
<1>1. i \in Tasks /\ i.of \in AMLRequests BY TaskOf DEF Driven, Typed
<1>2. i.call \in AMLCalls /\ i.event \in AMLEvents BY <1>1 DEF Tasks
<1>3. i.call \in Interface => ~AMLTakes(i.call, i.of) BY DEF Taken
<1>4. /\ OnlyBankAgent(aml[i.of].bankAgent, "aml") /\ CheckCardHash(aml[i.of].bankAgent)
      /\ OnlyClientAgent(aml[i.of].clientAgent) /\ CheckCardHash(aml[i.of].clientAgent)
  <2>1. aml[i.of].bankAgent = BankDesk["aml"] /\ aml[i.of].clientAgent = ClientDesk["aml"]
    BY <1>1 DEF Staffed, OfDesks, AMLActive
  <2> QED BY <2>1, DesksAccepted
<1>5. aml[i.of].status = AMLTurn(i.event) BY DEF Driven, AMLTurns
<1>6. i.call \in AMLAnswers(i.event) BY DEF Informed, Replies
<1>7. aml[i.of].dataRound \in 0..MaxRound BY <1>1 DEF IInv, TypeOK, AMLTypeOK, AMLRecord
<1>8. CASE i.event = "DataRequested"
  <2>1. i.call = "fulfillDataRequest" /\ aml[i.of].status = "DataRequested"
    BY <1>5, <1>6, <1>8 DEF AMLTurn, AMLAnswers, AssembleDocuments
  <2>2. i.call \notin Interface BY <1>3, <1>4, <2>1 DEF AMLTakes
  <2> QED BY <2>1, <2>2 DEF AMLLetGo, Unencoded, AssembleDocuments
<1>9. CASE i.event # "DataRequested"
  <2>1. i.call \in {"requestClientData", "submitRecommendation"} /\ aml[i.of].status = "Pending"
    BY <1>5, <1>6, <1>9 DEF AMLTurn, AMLAnswers, ScreenClient
  <2>2. i.call \in Interface => ~(aml[i.of].dataRound < MaxRound)
    BY <1>3, <1>4, <2>1 DEF AMLTakes
  <2>3. i.call \notin Interface => Unencoded(ScreenClient)
    BY <2>1 DEF Unencoded, ScreenClient
  <2> QED BY <1>7, <2>1, <2>2, <2>3, MaxRoundAssumption DEF AMLLetGo
<1> QED BY <1>8, <1>9

LEMMA AMLAttendedStep ==
  ASSUME DesksBound, Deployed, faults \in Nat, faults = 0 => up = Bridges,
         [BridgedNext]_bvars, faults' = 0, NEW r \in AMLRequests, AMLAttended(r)
  PROVE  AMLAttended(r)'
<1>0. TypeOK /\ AMLTypeOK /\ Typed /\ IInv BY DEF Deployed, IInv, TypeOK, Driven
<1>1. [Next]_vars BY <1>0, BridgedNextAllowed
<1>2. up = Bridges BY FaultFree
<1>3. ASSUME aml'[r] = aml[r], AMLTasks(r) # {} => AMLTasks(r)' # {} PROVE AMLAttended(r)'
  BY <1>0, <1>1, <1>3, AMLFrame
<1>4. ASSUME aml'[r] = aml[r], NEW i \in work, i.oracle # "aml" \/ i.of # r,
             work \ {i} \subseteq work'
      PROVE  AMLAttended(r)'
  BY <1>3, <1>4 DEF AMLTasks
<1>5. CASE (\E f \in Flows : Initiate(f)) \/ UNCHANGED bvars
  BY <1>3, <1>5 DEF Initiate, bvars, bridgeVars, vars, AMLTasks
<1>6. ASSUME NEW i \in work, Handle(i) PROVE AMLAttended(r)'
  <2>1. aml' = aml BY <1>6 DEF Handle, vars
  <2>2. work \ {i} \subseteq work' BY <1>0, <1>6, HandleKeeps
  <2>3. CASE i.oracle = "aml" /\ i.of = r
    <3>1. \E j \in work' : j.oracle = "aml" /\ j.of = r
      BY <1>0, <1>6, <2>3, HandleKeeps
    <3> QED BY <1>3, <2>1, <3>1 DEF AMLTasks
  <2> QED BY <1>4, <2>1, <2>2, <2>3
<1>7. ASSUME NEW i \in work, Call(i) PROVE AMLAttended(r)'
  <2>1. CASE AMLCall(i)
    <3>1. i.oracle = "aml" /\ i.of \in AMLRequests BY <1>0, <2>1, TaskOf DEF AMLCall
    <3>2. CASE i.of = r
      <4>1. AMLTasks(r)' # {} \/ aml'[r].status = "InHumanReview"
        BY <1>0, <1>2, <2>1, <3>2, AMLCallCovers DEF Deployed
      <4> QED BY <4>1 DEF AMLAttended
    <3>3. CASE i.of # r
      <4>1. aml'[r] = aml[r] BY <1>0, <2>1, <3>3, AMLCallContinues
      <4>2. work \ {i} \subseteq work' BY <2>1 DEF AMLCall, Emit
      <4> QED BY <1>4, <3>3, <4>1, <4>2
    <3> QED BY <3>2, <3>3
  <2>2. CASE CreditCall(i) \/ LegalCall(i) \/ SetupCall(i)
    <3>1. i.oracle # "aml" /\ aml' = aml /\ work \ {i} \subseteq work'
      BY <2>2 DEF CreditCall, LegalCall, SetupCall, Emit
    <3> QED BY <1>4, <3>1
  <2>3. CASE OpenReview(i)
    <3>1. i.oracle # "aml" BY <2>3 DEF OpenReview
    <3>2. ASSUME NEW q \in AMLRequests, OpenedBy(i, "aml", "AMLReviewRequested", q),
                 \A p \in AMLRequests \ {q} : aml'[p] = aml[p]
          PROVE  AMLAttended(r)'
      <4>1. work' = (work \ {i}) \cup {Heard("aml", "AMLReviewRequested", q)}
        BY <1>2, <3>2, EmitHeard DEF OpenedBy, Emit
      <4>2. CASE q = r
        <5>1. Heard("aml", "AMLReviewRequested", q) \in AMLTasks(r)'
          BY <4>1, <4>2, HeardFields DEF AMLTasks
        <5> QED BY <5>1 DEF AMLAttended
      <4>3. CASE q # r
        <5>1. aml'[r] = aml[r] BY <3>2, <4>3
        <5>2. work \ {i} \subseteq work' BY <4>1
        <5> QED BY <1>4, <3>1, <5>1, <5>2
      <4> QED BY <4>2, <4>3
    <3>3. ASSUME aml' = aml, work \ {i} \subseteq work' PROVE AMLAttended(r)'
      BY <1>4, <3>1, <3>3
    <3> QED BY <1>0, <2>3, <3>2, <3>3, OpenReviewTasks DEF OpenedBy, Deployed
  <2> QED BY <1>7, <2>1, <2>2, <2>3 DEF Call
<1>8. ASSUME NEW i \in work, Revert(i) PROVE AMLAttended(r)'
  <2>1. aml' = aml /\ work' = work \ {i} /\ i.call # Unanswered /\ ~Taken(i)
    BY <1>8 DEF Revert, vars
  <2>2. CASE i.oracle = "aml" /\ i.of = r
    <3> SUFFICES ASSUME AMLActive(r)'
                 PROVE  AMLLetGo(r)
      BY <2>1 DEF AMLAttended, AMLLetGo, Unencoded
    <3>1. AMLActive(r) BY <1>8 DEF Revert, vars, registryVars, AMLActive, IsActive
    <3> QED BY <2>1, <2>2, <3>1, AMLRefused
  <2> QED BY <1>4, <2>1, <2>2
<1>9. CASE HumanStep
  <2>1. work \subseteq work' BY <1>0, <1>9, HumanTasks DEF Deployed
  <2>2. CASE aml'[r] = aml[r] BY <1>3, <2>1, <2>2 DEF AMLTasks
  <2>3. CASE aml'[r] # aml[r]
    <3>1. PICK human \in Humans : AMLClear(r, human) \/ AMLReject(r, human)
      BY <1>0, <1>9, <2>3 DEF HumanStep, Approve, Refuse, AMLClear, AMLReject, AMLTypeOK
    <3>2. aml'[r].status \in {"Cleared", "Rejected"}
      BY <1>0, <3>1 DEF AMLClear, AMLReject, AMLTypeOK, AMLRecord
    <3> QED BY <3>2 DEF AMLAttended
  <2> QED BY <2>2, <2>3
<1> QED BY <1>5, <1>6, <1>7, <1>8, <1>9, FaultFree DEF BridgeStep
-----------------------------------------------------------------------------
(* The credit requests that no task is about.                              *)

CreditAttended(r) ==
  /\ CreditActive(r) /\ CreditTasks(r) = {}
  /\ credit[r].status \in {"Pending", "DataRequested", "Negotiating"}
  => CreditLetGo(r)

LEMMA CreditFrame ==
  ASSUME IInv, [Next]_vars, NEW r \in CreditRequests, CreditAttended(r), credit'[r] = credit[r],
         CreditTasks(r) # {} => CreditTasks(r)' # {}
  PROVE  CreditAttended(r)'
<1> SUFFICES ASSUME CreditActive(r)', CreditTasks(r)' = {},
                    credit[r].status \in {"Pending", "DataRequested", "Negotiating"}
             PROVE  CreditLetGo(r)
  BY DEF CreditAttended, CreditLetGo, Unencoded
<1>1. credit[r].status # "None" /\ IsActive(credit[r].flow)' BY DEF CreditActive, IsActive
<1>2. IsActive(credit[r].flow) BY <1>1, OnOpenedFlow, LiveBefore
<1> QED BY <1>1, <1>2 DEF CreditAttended, CreditActive

LEMMA CreditCallCovers ==
  ASSUME Driven, CreditTypeOK, up = Bridges, NEW i \in work, CreditCall(i)
  PROVE  CreditTasks(i.of)' # {} \/ credit'[i.of].status = "InHumanReview"
<1>1. i.oracle = "credit" /\ i.of \in CreditRequests BY TaskOf DEF CreditCall, Driven
<1>2. CASE \E event : Emit({i}, {Heard("credit", event, i.of)})
  <2>1. PICK event : Emit({i}, {Heard("credit", event, i.of)}) BY <1>2
  <2>2. Heard("credit", event, i.of) \in work' BY <2>1, EmitHeard
  <2> QED BY <2>2, HeardFields DEF CreditTasks
<1>3. CASE CreditSubmitRecommendation(i.of)
  BY <1>1, <1>3 DEF CreditSubmitRecommendation, CreditTypeOK, CreditRecord
<1>4. CASE i.call = "acceptTerms" /\ AcceptTerms(i.of)
  <2>1. credit[i.of].status = "Negotiating" BY <1>4 DEF AcceptTerms
  <2>2. i.event = "TermsProposed" BY <1>1, <2>1 DEF Driven, CreditTurns, CreditTurn
  <2> QED BY <1>1, <1>4, <2>2 DEF Driven, Countering, Unanswered
<1> QED BY <1>2, <1>3, <1>4 DEF CreditCall

LEMMA CreditRefused ==
  ASSUME DesksBound, Deployed, NEW i \in work, i.oracle = "credit", i.call # Unanswered,
         ~Taken(i), CreditActive(i.of)
  PROVE  CreditLetGo(i.of)
<1> USE DEF Deployed
<1>1. i \in Tasks /\ i.of \in CreditRequests BY TaskOf DEF Driven, Typed
<1>2. i.call \in CreditCalls /\ i.event \in CreditEvents BY <1>1 DEF Tasks
<1>3. i.call \in Interface => ~CreditTakes(i.call, i.of) BY DEF Taken
<1>4. /\ OnlyBankAgent(credit[i.of].bankAgent, "credit")
      /\ CheckCardHash(credit[i.of].bankAgent)
      /\ OnlyClientAgent(credit[i.of].clientAgent)
      /\ CheckCardHash(credit[i.of].clientAgent)
  <2>1. /\ credit[i.of].bankAgent = BankDesk["credit"]
        /\ credit[i.of].clientAgent = ClientDesk["credit"]
    BY <1>1 DEF Staffed, OfDesks, CreditActive
  <2> QED BY <2>1, DesksAccepted
<1>5. credit[i.of].status = CreditTurn(i.event) BY DEF Driven, CreditTurns
<1>6. i.call \in CreditAnswers(i.event) /\ Recalls(i.event, credit[i.of])
  BY DEF Informed, Replies
<1>7. CASE i.event = "DataRequested"
  <2>1. i.call = "fulfillDataRequest" /\ credit[i.of].status = "DataRequested"
    BY <1>5, <1>6, <1>7 DEF CreditTurn, CreditAnswers, AssembleDocuments
  <2>2. i.call \notin Interface BY <1>3, <1>4, <2>1 DEF CreditTakes
  <2> QED BY <2>1, <2>2 DEF CreditLetGo, Unencoded, AssembleDocuments
<1>8. CASE i.event = "TermsProposed"
  <2>1. i.call = "submitCounterProposal" /\ credit[i.of].status = "Negotiating"
    BY <1>5, <1>6, <1>8 DEF CreditTurn, CreditAnswers, EvaluateTerms
  <2>2. i.call \notin Interface BY <1>3, <1>4, <2>1 DEF CreditTakes
  <2> QED BY <2>1, <2>2 DEF CreditLetGo, Unencoded, EvaluateTerms
<1>9. CASE i.event = "CreditReviewRequested"
  <2>1. /\ i.call \in {"requestClientData", "proposeTerms", "submitRecommendation"}
        /\ credit[i.of].status = "Pending"
    BY <1>5, <1>6, <1>9 DEF CreditTurn, CreditAnswers, AssessCredit
  <2>2. credit[i.of].dataRound = 0 /\ credit[i.of].negotiationRound = 0
    BY <1>6, <1>9 DEF Recalls
  <2>3. 0 < MaxRound BY MaxRoundAssumption
  <2>4. i.call \notin Interface BY <1>3, <1>4, <2>1, <2>2, <2>3 DEF CreditTakes
  <2> QED BY <2>1, <2>4 DEF CreditLetGo, Unencoded, AssessCredit
<1>10. CASE i.event \in {"DataFulfilled", "CounterProposed"}
  BY <1>5, <1>6, <1>10 DEF CreditTurn, Recalls, CreditLetGo
<1> QED BY <1>2, <1>7, <1>8, <1>9, <1>10 DEF CreditEvents

LEMMA CreditAttendedStep ==
  ASSUME DesksBound, Deployed, faults \in Nat, faults = 0 => up = Bridges,
         [BridgedNext]_bvars, faults' = 0, NEW r \in CreditRequests, CreditAttended(r)
  PROVE  CreditAttended(r)'
<1>0. TypeOK /\ CreditTypeOK /\ Typed /\ IInv BY DEF Deployed, IInv, TypeOK, Driven
<1>1. [Next]_vars BY <1>0, BridgedNextAllowed
<1>2. up = Bridges BY FaultFree
<1>3. ASSUME credit'[r] = credit[r], CreditTasks(r) # {} => CreditTasks(r)' # {} PROVE CreditAttended(r)'
  BY <1>0, <1>1, <1>3, CreditFrame
<1>4. ASSUME credit'[r] = credit[r], NEW i \in work, i.oracle # "credit" \/ i.of # r,
             work \ {i} \subseteq work'
      PROVE  CreditAttended(r)'
  BY <1>3, <1>4 DEF CreditTasks
<1>5. CASE (\E f \in Flows : Initiate(f)) \/ UNCHANGED bvars
  BY <1>3, <1>5 DEF Initiate, bvars, bridgeVars, vars, CreditTasks
<1>6. ASSUME NEW i \in work, Handle(i) PROVE CreditAttended(r)'
  <2>1. credit' = credit BY <1>6 DEF Handle, vars
  <2>2. work \ {i} \subseteq work' BY <1>0, <1>6, HandleKeeps
  <2>3. CASE i.oracle = "credit" /\ i.of = r
    <3>1. \E j \in work' : j.oracle = "credit" /\ j.of = r
      BY <1>0, <1>6, <2>3, HandleKeeps
    <3> QED BY <1>3, <2>1, <3>1 DEF CreditTasks
  <2> QED BY <1>4, <2>1, <2>2, <2>3
<1>7. ASSUME NEW i \in work, Call(i) PROVE CreditAttended(r)'
  <2>1. CASE CreditCall(i)
    <3>1. i.oracle = "credit" /\ i.of \in CreditRequests BY <1>0, <2>1, TaskOf DEF CreditCall
    <3>2. CASE i.of = r
      <4>1. CreditTasks(r)' # {} \/ credit'[r].status = "InHumanReview"
        BY <1>0, <1>2, <2>1, <3>2, CreditCallCovers DEF Deployed
      <4> QED BY <4>1 DEF CreditAttended
    <3>3. CASE i.of # r
      <4>1. credit'[r] = credit[r] BY <1>0, <2>1, <3>3, CreditCallContinues DEF Deployed
      <4>2. work \ {i} \subseteq work' BY <2>1 DEF CreditCall, Emit
      <4> QED BY <1>4, <3>3, <4>1, <4>2
    <3> QED BY <3>2, <3>3
  <2>2. CASE AMLCall(i) \/ LegalCall(i) \/ SetupCall(i)
    <3>1. i.oracle # "credit" /\ credit' = credit /\ work \ {i} \subseteq work'
      BY <2>2 DEF AMLCall, LegalCall, SetupCall, Emit
    <3> QED BY <1>4, <3>1
  <2>3. CASE OpenReview(i)
    <3>1. i.oracle # "credit" BY <2>3 DEF OpenReview
    <3>2. ASSUME NEW q \in CreditRequests, OpenedBy(i, "credit", "CreditReviewRequested", q),
                 \A p \in CreditRequests \ {q} : credit'[p] = credit[p]
          PROVE  CreditAttended(r)'
      <4>1. work' = (work \ {i}) \cup {Heard("credit", "CreditReviewRequested", q)}
        BY <1>2, <3>2, EmitHeard DEF OpenedBy, Emit
      <4>2. CASE q = r
        <5>1. Heard("credit", "CreditReviewRequested", q) \in CreditTasks(r)'
          BY <4>1, <4>2, HeardFields DEF CreditTasks
        <5> QED BY <5>1 DEF CreditAttended
      <4>3. CASE q # r
        <5>1. credit'[r] = credit[r] BY <3>2, <4>3
        <5>2. work \ {i} \subseteq work' BY <4>1
        <5> QED BY <1>4, <3>1, <5>1, <5>2
      <4> QED BY <4>2, <4>3
    <3>3. ASSUME credit' = credit, work \ {i} \subseteq work' PROVE CreditAttended(r)'
      BY <1>4, <3>1, <3>3
    <3> QED BY <1>0, <2>3, <3>2, <3>3, OpenReviewTasks DEF OpenedBy, Deployed
  <2> QED BY <1>7, <2>1, <2>2, <2>3 DEF Call
<1>8. ASSUME NEW i \in work, Revert(i) PROVE CreditAttended(r)'
  <2>1. credit' = credit /\ work' = work \ {i} /\ i.call # Unanswered /\ ~Taken(i)
    BY <1>8 DEF Revert, vars
  <2>2. CASE i.oracle = "credit" /\ i.of = r
    <3> SUFFICES ASSUME CreditActive(r)'
                 PROVE  CreditLetGo(r)
      BY <2>1 DEF CreditAttended, CreditLetGo, Unencoded
    <3>1. CreditActive(r) BY <1>8 DEF Revert, vars, registryVars, CreditActive, IsActive
    <3> QED BY <2>1, <2>2, <3>1, CreditRefused
  <2> QED BY <1>4, <2>1, <2>2
<1>9. CASE HumanStep
  <2>1. work \subseteq work' BY <1>0, <1>9, HumanTasks DEF Deployed
  <2>2. CASE credit'[r] = credit[r] BY <1>3, <2>1, <2>2 DEF CreditTasks
  <2>3. CASE credit'[r] # credit[r]
    <3>1. PICK human \in Humans : CreditApprove(r, human) \/ CreditReject(r, human)
      BY <1>0, <1>9, <2>3 DEF HumanStep, Approve, Refuse, CreditApprove, CreditReject, CreditTypeOK
    <3>2. credit'[r].status \in {"Approved", "Rejected"}
      BY <1>0, <3>1 DEF CreditApprove, CreditReject, CreditTypeOK, CreditRecord
    <3> QED BY <3>2 DEF CreditAttended
  <2> QED BY <2>2, <2>3
<1> QED BY <1>5, <1>6, <1>7, <1>8, <1>9, FaultFree DEF BridgeStep

-----------------------------------------------------------------------------
(* The legal requests that no task is about.                               *)

LegalAttended(r) ==
  LegalActive(r) /\ legal[r].status \in {"Pending", "DraftIssued"} /\ LegalTasks(r) = {}
    => LegalLetGo(r)

LEMMA LegalFrame ==
  ASSUME IInv, [Next]_vars, NEW r \in LegalRequests, LegalAttended(r), legal'[r] = legal[r],
         LegalTasks(r) # {} => LegalTasks(r)' # {}
  PROVE  LegalAttended(r)'
<1> SUFFICES ASSUME LegalActive(r)', LegalTasks(r)' = {},
                    legal[r].status \in {"Pending", "DraftIssued"}
             PROVE  LegalLetGo(r)
  BY DEF LegalAttended, LegalLetGo, Unencoded
<1>1. legal[r].status # "None" /\ IsActive(legal[r].flow)' BY DEF LegalActive, IsActive
<1>2. IsActive(legal[r].flow) BY <1>1, OnOpenedFlow, LiveBefore
<1> QED BY <1>1, <1>2 DEF LegalAttended, LegalActive

LEMMA LegalCallCovers ==
  ASSUME Driven, LegalTypeOK, up = Bridges, NEW i \in work, LegalCall(i)
  PROVE  LegalTasks(i.of)' # {} \/ legal'[i.of].status = "InHumanReview"
<1>1. i.of \in LegalRequests BY TaskOf DEF LegalCall, Driven
<1>2. CASE \E event : Emit({i}, {Heard("legal", event, i.of)})
  <2>1. PICK event : Emit({i}, {Heard("legal", event, i.of)}) BY <1>2
  <2>2. Heard("legal", event, i.of) \in work' BY <2>1, EmitHeard
  <2> QED BY <2>2, HeardFields DEF LegalTasks
<1>3. CASE \E doc \in Docs : LegalSubmitRecommendation(i.of, doc)
  BY <1>1, <1>3 DEF LegalSubmitRecommendation, LegalTypeOK, LegalRecord
<1> QED BY <1>2, <1>3 DEF LegalCall

LEMMA LegalRefused ==
  ASSUME DesksBound, Deployed, NEW i \in work, i.oracle = "legal", i.call # Unanswered,
         ~Taken(i), LegalActive(i.of)
  PROVE  LegalLetGo(i.of)
<1> USE DEF Deployed
<1>1. i \in Tasks /\ i.of \in LegalRequests BY TaskOf DEF Driven, Typed
<1>2. i.call \in LegalCalls /\ i.event \in LegalEvents BY <1>1 DEF Tasks
<1>3. i.call \in Interface => ~LegalTakes(i.call, i.of) BY DEF Taken
<1>4. /\ OnlyBankAgent(legal[i.of].bankAgent, "legal") /\ CheckCardHash(legal[i.of].bankAgent)
      /\ OnlyClientAgent(legal[i.of].clientAgent) /\ CheckCardHash(legal[i.of].clientAgent)
  <2>1. /\ legal[i.of].bankAgent = BankDesk["legal"]
        /\ legal[i.of].clientAgent = ClientDesk["legal"]
    BY <1>1 DEF Staffed, OfDesks, LegalActive
  <2> QED BY <2>1, DesksAccepted
<1>5. legal[i.of].status = LegalTurn(i.event) BY DEF Driven, LegalTurns
<1>6. i.call \in LegalAnswers(i.event) BY DEF Informed, Replies
<1>7. legal[i.of].round \in 0..MaxRound
  BY <1>1 DEF IInv, TypeOK, LegalTypeOK, LegalRecord
<1>8. CASE i.event = "DraftIssued"
  <2>1. i.call = "submitMarkup" /\ legal[i.of].status = "DraftIssued"
    BY <1>5, <1>6, <1>8 DEF LegalTurn, LegalAnswers, ReviewDraft
  <2>2. i.call \notin Interface BY <1>3, <1>4, <2>1 DEF LegalTakes
  <2> QED BY <2>1, <2>2 DEF LegalLetGo, Unencoded, ReviewDraft
<1>9. CASE i.event # "DraftIssued"
  <2>1. i.call \in {"issueDraft", "submitRecommendation"} /\ legal[i.of].status = "Pending"
    BY <1>5, <1>6, <1>9 DEF LegalTurn, LegalAnswers, IssueInitialDraft, ReviewMarkupAndRespond
  <2>2. i.call \in Interface => ~(legal[i.of].round < MaxRound)
    BY <1>3, <1>4, <2>1 DEF LegalTakes
  <2>3. i.call \notin Interface => Unencoded(ReviewMarkupAndRespond)
    BY <2>1 DEF Unencoded, ReviewMarkupAndRespond
  <2> QED BY <1>7, <2>1, <2>2, <2>3, MaxRoundAssumption DEF LegalLetGo
<1> QED BY <1>8, <1>9

LEMMA LegalAttendedStep ==
  ASSUME DesksBound, Deployed, faults \in Nat, faults = 0 => up = Bridges,
         [BridgedNext]_bvars, faults' = 0, NEW r \in LegalRequests, LegalAttended(r)
  PROVE  LegalAttended(r)'
<1>0. TypeOK /\ LegalTypeOK /\ Typed /\ IInv BY DEF Deployed, IInv, TypeOK, Driven
<1>1. [Next]_vars BY <1>0, BridgedNextAllowed
<1>2. up = Bridges BY FaultFree
<1>3. ASSUME legal'[r] = legal[r], LegalTasks(r) # {} => LegalTasks(r)' # {} PROVE LegalAttended(r)'
  BY <1>0, <1>1, <1>3, LegalFrame
<1>4. ASSUME legal'[r] = legal[r], NEW i \in work, i.oracle # "legal" \/ i.of # r,
             work \ {i} \subseteq work'
      PROVE  LegalAttended(r)'
  BY <1>3, <1>4 DEF LegalTasks
<1>5. CASE (\E f \in Flows : Initiate(f)) \/ UNCHANGED bvars
  BY <1>3, <1>5 DEF Initiate, bvars, bridgeVars, vars, legalVars, LegalTasks
<1>6. ASSUME NEW i \in work, Handle(i) PROVE LegalAttended(r)'
  <2>1. legal' = legal BY <1>6 DEF Handle, vars, legalVars
  <2>2. work \ {i} \subseteq work' BY <1>0, <1>6, HandleKeeps
  <2>3. CASE i.oracle = "legal" /\ i.of = r
    <3>1. \E j \in work' : j.oracle = "legal" /\ j.of = r
      BY <1>0, <1>6, <2>3, HandleKeeps
    <3> QED BY <1>3, <2>1, <3>1 DEF LegalTasks
  <2> QED BY <1>4, <2>1, <2>2, <2>3
<1>7. ASSUME NEW i \in work, Call(i) PROVE LegalAttended(r)'
  <2>1. CASE LegalCall(i)
    <3>1. i.oracle = "legal" /\ i.of \in LegalRequests BY <1>0, <2>1, TaskOf DEF LegalCall
    <3>2. CASE i.of = r
      <4>1. LegalTasks(r)' # {} \/ legal'[r].status = "InHumanReview"
        BY <1>0, <1>2, <2>1, <3>2, LegalCallCovers DEF Deployed
      <4> QED BY <4>1 DEF LegalAttended
    <3>3. CASE i.of # r
      <4>1. legal'[r] = legal[r] BY <1>0, <2>1, <3>3, LegalCallContinues
      <4>2. work \ {i} \subseteq work' BY <2>1 DEF LegalCall, Emit
      <4> QED BY <1>4, <3>3, <4>1, <4>2
    <3> QED BY <3>2, <3>3
  <2>2. CASE AMLCall(i) \/ CreditCall(i) \/ SetupCall(i)
    <3>1. i.oracle # "legal" /\ legal' = legal /\ work \ {i} \subseteq work'
      BY <2>2 DEF AMLCall, CreditCall, SetupCall, legalVars, Emit
    <3> QED BY <1>4, <3>1
  <2>3. CASE OpenReview(i)
    <3>1. i.oracle # "legal" BY <2>3 DEF OpenReview
    <3>2. ASSUME NEW q \in LegalRequests, OpenedBy(i, "legal", "LegalReviewRequested", q),
                 \A p \in LegalRequests \ {q} : legal'[p] = legal[p]
          PROVE  LegalAttended(r)'
      <4>1. work' = (work \ {i}) \cup {Heard("legal", "LegalReviewRequested", q)}
        BY <1>2, <3>2, EmitHeard DEF OpenedBy, Emit
      <4>2. CASE q = r
        <5>1. Heard("legal", "LegalReviewRequested", q) \in LegalTasks(r)'
          BY <4>1, <4>2, HeardFields DEF LegalTasks
        <5> QED BY <5>1 DEF LegalAttended
      <4>3. CASE q # r
        <5>1. legal'[r] = legal[r] BY <3>2, <4>3
        <5>2. work \ {i} \subseteq work' BY <4>1
        <5> QED BY <1>4, <3>1, <5>1, <5>2
      <4> QED BY <4>2, <4>3
    <3>3. ASSUME legal' = legal, work \ {i} \subseteq work' PROVE LegalAttended(r)'
      BY <1>4, <3>1, <3>3
    <3> QED BY <1>0, <2>3, <3>2, <3>3, OpenReviewTasks DEF OpenedBy, Deployed
  <2> QED BY <1>7, <2>1, <2>2, <2>3 DEF Call
<1>8. ASSUME NEW i \in work, Revert(i) PROVE LegalAttended(r)'
  <2>1. legal' = legal /\ work' = work \ {i} /\ i.call # Unanswered /\ ~Taken(i)
    BY <1>8 DEF Revert, vars, legalVars
  <2>2. CASE i.oracle = "legal" /\ i.of = r
    <3> SUFFICES ASSUME LegalActive(r)'
                 PROVE  LegalLetGo(r)
      BY <2>1 DEF LegalAttended, LegalLetGo, Unencoded
    <3>1. LegalActive(r) BY <1>8 DEF Revert, vars, legalVars, registryVars, LegalActive, IsActive
    <3> QED BY <2>1, <2>2, <3>1, LegalRefused
  <2> QED BY <1>4, <2>1, <2>2
<1>9. CASE HumanStep
  <2>1. work \subseteq work' BY <1>0, <1>9, HumanTasks DEF Deployed
  <2>2. CASE legal'[r] = legal[r] BY <1>3, <2>1, <2>2 DEF LegalTasks
  <2>3. CASE legal'[r] # legal[r]
    <3>1. PICK human \in Humans :
            /\ \/ Execute(r) \/ LegalReject(r, human)
               \/ ApproveBankSide(r, human) \/ ApproveClientSide(r, human)
      BY <1>0, <1>9, <2>3 DEF HumanStep, Approve, Refuse, Execute, LegalReject, ApproveBankSide,
                              ApproveClientSide, LegalTypeOK, legalVars
    <3>2. legal'[r].status \in {"Executed", "Rejected", "InHumanReview", "Escalated"}
      BY <1>0, <3>1 DEF Execute, LegalReject, ApproveBankSide, ApproveClientSide,
                        LegalUnderReview, LegalTypeOK, LegalRecord
    <3> QED BY <3>2 DEF LegalAttended
  <2> QED BY <2>2, <2>3
<1> QED BY <1>5, <1>6, <1>7, <1>8, <1>9, FaultFree DEF BridgeStep

-----------------------------------------------------------------------------
(* The set-up of a flow: a task has not looked at the flow yet, or is left *)
(* with the very call the registry waits for, although it looked before    *)
(* other tasks wrote to the chain.                                         *)

Awaits(i, f) ==
  /\ i.oracle = "registry" /\ i.of = f
  /\ i.call = Unanswered \/ i.call \in NextSetupCall(f)

SetupAwaited(f) ==
  IsActive(f) /\ ReviewsDone(f) /\ flows[f].phases # AllPhases
    => (\E i \in work : Awaits(i, f)) \/ Unencoded(NextSetupCall(f))

LEMMA NextCallExists ==
  ASSUME RegistryTypeOK, NEW f \in Flows, ReviewsDone(f), flows[f].phases # AllPhases
  PROVE  NextSetupCall(f) # {}
<1>1. flows[f].phases \subseteq AllPhases BY DEF RegistryTypeOK, FlowRecord
<1>2. ~(SetupPhases \subseteq flows[f].phases) BY <1>1 DEF ReviewsDone, AllPhases
<1> QED BY <1>2 DEF NextSetupCall, SetupPhases

LEMMA NextCallTaken ==
  ASSUME DesksBound, InPlace, NEW f \in Flows, IsActive(f), NEW c \in NextSetupCall(f)
  PROVE  SetupTakes(c, f)
<1>1. /\ OnlyBankAgent(BankDesk["setup"], "setup") /\ CheckCardHash(BankDesk["setup"])
      /\ "setup" \in oracles
  BY DesksAccepted DEF InPlace, Callers
<1>2. \/ c = "setupLegalEntity" /\ ReviewsDone(f) /\ "ENTITY_SETUP_DONE" \notin flows[f].phases
      \/ /\ c = "setupAccount" /\ "ENTITY_SETUP_DONE" \in flows[f].phases
         /\ "ACCOUNT_SETUP_DONE" \notin flows[f].phases
      \/ /\ c = "setupProducts" /\ "ACCOUNT_SETUP_DONE" \in flows[f].phases
         /\ "PRODUCT_SETUP_DONE" \notin flows[f].phases
  BY DEF NextSetupCall
<1> QED BY <1>1, <1>2 DEF SetupTakes

LEMMA SetupFrame ==
  ASSUME NEW f \in Flows, SetupAwaited(f), flows'[f] = flows[f],
         \A i \in work : /\ Awaits(i, f) /\ IsActive(f)
                         /\ ReviewsDone(f) /\ flows[f].phases # AllPhases
                         => (\E j \in work' : Awaits(j, f)) \/ Unencoded(NextSetupCall(f))
  PROVE  SetupAwaited(f)'
<1>1. /\ IsActive(f)' <=> IsActive(f)
      /\ ReviewsDone(f)' <=> ReviewsDone(f)
      /\ NextSetupCall(f)' = NextSetupCall(f)
  BY DEF IsActive, ReviewsDone, NextSetupCall
<1>2. \A j : Awaits(j, f)' <=> Awaits(j, f) BY <1>1 DEF Awaits
<1>3. Unencoded(NextSetupCall(f))' <=> Unencoded(NextSetupCall(f)) BY <1>1 DEF Unencoded
<1> QED BY <1>1, <1>2, <1>3 DEF SetupAwaited

LEMMA PhaseHeard ==
  ASSUME NEW f, NEW phase, Heard("registry", phase, f) \in work'
  PROVE  SetupAwaited(f)'
<1>1. /\ Heard("registry", phase, f).oracle = "registry"
      /\ Heard("registry", phase, f).of = f
      /\ Heard("registry", phase, f).call = Unanswered
  BY HeardFields
<1>2. Awaits(Heard("registry", phase, f), f)' BY <1>1 DEF Awaits
<1> QED BY <1>2 DEF SetupAwaited

(* A phase that is completed is heard of, and leaves the other flows alone. *)
LEMMA CompletedAwaited ==
  ASSUME RegistryTypeOK, up = Bridges, NEW f \in Flows, SetupAwaited(f),
         NEW done, NEW o, NEW g \in Flows, NEW phase,
         SetPhaseComplete(o, g, phase), Emit(done, {Heard("registry", phase, g)}),
         \A i \in done : i.oracle = "registry" => i.of = g
  PROVE  SetupAwaited(f)'
<1>1. work' = (work \ done) \cup {Heard("registry", phase, g)} BY EmitHeard
<1>2. CASE g = f BY <1>1, <1>2, PhaseHeard
<1>3. CASE g # f
  <2>1. flows'[f] = flows[f] BY <1>3, SetPhaseFlows
  <2>2. \A i \in work : Awaits(i, f) => i \in work' BY <1>1, <1>3 DEF Awaits
  <2> QED BY <2>1, <2>2, SetupFrame
<1> QED BY <1>2, <1>3

LEMMA SetupAwaitedStep ==
  ASSUME DesksBound, Deployed, faults \in Nat, faults = 0 => up = Bridges,
         [BridgedNext]_bvars, faults' = 0, NEW f \in Flows, SetupAwaited(f)
  PROVE  SetupAwaited(f)'
<1>0. TypeOK /\ RegistryTypeOK /\ Typed /\ IInv BY DEF Deployed, IInv, TypeOK, Driven
<1>1. up = Bridges BY FaultFree
<1>2. ASSUME flows' = flows, NEW i, i.oracle # "registry" \/ i.of # f,
             work \ {i} \subseteq work'
      PROVE  SetupAwaited(f)'
  <2>1. \A j \in work : Awaits(j, f) => j \in work' BY <1>2 DEF Awaits
  <2> QED BY <1>2, <2>1, SetupFrame
<1>3. ASSUME NEW g \in Flows, Initiate(g) PROVE SetupAwaited(f)'
  <2>1. work \subseteq work' /\ InitiateOnboarding(g) BY <1>3 DEF Initiate
  <2>2. CASE g = f
    <3>1. flows'[f].phases = {} BY <1>0, <2>1, <2>2, OpenEffect DEF IInv, NoRecord
    <3> QED BY <3>1 DEF SetupAwaited, ReviewsDone, ReviewPhases
  <2>3. CASE g # f
    <3>1. flows'[f] = flows[f] BY <1>0, <2>1, <2>3, OpenEffect DEF IInv
    <3> QED BY <2>1, <3>1, SetupFrame
  <2> QED BY <2>2, <2>3
<1>4. ASSUME NEW i \in work, Handle(i) PROVE SetupAwaited(f)'
  <2>1. flows' = flows BY <1>4 DEF Handle, vars, registryVars
  <2>2. work \ {i} \subseteq work' BY <1>0, <1>4, HandleKeeps
  <2>3. CASE i.oracle = "registry" /\ i.of = f
    <3>1. ASSUME ReviewsDone(f), flows[f].phases # AllPhases
          PROVE  \E j \in work' : Awaits(j, f)
      <4>1. NextSetupCall(f) # {} BY <1>0, <3>1, NextCallExists
      <4>2. \E j \in work' : /\ j.oracle = i.oracle /\ j.of = i.of
                             /\ j.call \in NextSetupCall(i.of)
        BY <1>0, <1>4, <2>3, <4>1, HandleKeeps
      <4> QED BY <2>3, <4>2 DEF Awaits
    <3> QED BY <2>1, <3>1, SetupFrame
  <2> QED BY <1>2, <2>1, <2>2, <2>3
<1>5. ASSUME NEW i \in work, Call(i) PROVE SetupAwaited(f)'
  <2>1. CASE AMLCall(i)
    <3>1. flows' = flows /\ work \ {i} \subseteq work' /\ i.oracle # "registry"
      BY <2>1 DEF AMLCall, Emit, registryVars, AMLRequestClientData, AMLFulfillDataRequest,
                  AMLSubmitRecommendation
    <3> QED BY <1>2, <3>1
  <2>2. CASE CreditCall(i)
    <3>1. flows' = flows /\ work \ {i} \subseteq work' /\ i.oracle # "registry"
      BY <2>2 DEF CreditCall, Emit, registryVars, CreditRequestClientData,
                  CreditFulfillDataRequest, ProposeTerms, SubmitCounterProposal, AcceptTerms,
                  CreditSubmitRecommendation
    <3> QED BY <1>2, <3>1
  <2>3. CASE LegalCall(i)
    <3>1. flows' = flows /\ work \ {i} \subseteq work' /\ i.oracle # "registry"
      BY <2>3 DEF LegalCall, Emit, registryVars, IssueDraft, SubmitMarkup,
                  LegalSubmitRecommendation
    <3> QED BY <1>2, <3>1
  <2>4. CASE SetupCall(i)
    <3>1. i.of \in Flows BY <1>0, <2>4, TaskOf DEF SetupCall
    <3>2. PICK phase : /\ SetPhaseComplete("setup", i.of, phase)
                       /\ Emit({i}, {Heard("registry", phase, i.of)})
      BY <2>4 DEF SetupCall, SetupLegalEntity, SetupAccount, SetupProducts
    <3> QED BY <1>0, <1>1, <3>1, <3>2, CompletedAwaited
  <2>5. CASE OpenReview(i)
    <3>1. flows' = flows /\ work \ {i} \subseteq work' /\ i.oracle # "registry"
      BY <2>5 DEF OpenReview, Emit, registryVars, RequestAMLReview, RequestCreditReview,
                  RequestLegalReview
    <3> QED BY <1>2, <3>1
  <2> QED BY <1>5, <2>1, <2>2, <2>3, <2>4, <2>5 DEF Call
<1>6. ASSUME NEW i \in work, Revert(i) PROVE SetupAwaited(f)'
  <2>1. flows' = flows /\ work' = work \ {i} /\ i.call # Unanswered /\ ~Taken(i)
    BY <1>6 DEF Revert, vars, registryVars
  <2>2. CASE i.oracle = "registry" /\ i.of = f
    <3>1. ASSUME Awaits(i, f), IsActive(f) PROVE Unencoded(NextSetupCall(f))
      <4>1. i.call \in NextSetupCall(f) BY <2>1, <3>1 DEF Awaits
      <4>2. SetupTakes(i.call, f) BY <3>1, <4>1, NextCallTaken DEF Deployed
      <4>3. i.call \notin Interface BY <2>1, <2>2, <4>2 DEF Taken
      <4> QED BY <4>1, <4>3 DEF Unencoded
    <3> QED BY <2>1, <3>1, SetupFrame
  <2> QED BY <1>2, <2>1, <2>2
<1>7. CASE HumanStep
  <2>1. PICK human \in Humans : Approve(human) \/ Refuse(human) BY <1>7 DEF HumanStep
  <2>2. work \subseteq work' BY <1>0, <1>7, HumanTasks DEF Deployed
  <2>3. ASSUME NEW g \in Flows, NEW o, NEW phase, SetPhaseComplete(o, g, phase),
               Emit({}, {Heard("registry", phase, g)})
        PROVE  SetupAwaited(f)'
    BY <1>0, <1>1, <2>3, CompletedAwaited
  <2>4. ASSUME NEW g \in Flows, NEW o, Terminate(o, g) PROVE SetupAwaited(f)'
    <3>1. CASE g = f
      <4>1. flows'[f].terminated BY <1>0, <2>4, <3>1, TerminateEffect
      <4> QED BY <4>1 DEF SetupAwaited, IsActive
    <3>2. CASE g # f
      <4>1. flows'[f] = flows[f] BY <1>0, <2>4, <3>2, TerminateEffect
      <4> QED BY <2>2, <4>1, SetupFrame
    <3> QED BY <3>1, <3>2
  <2>5. ASSUME flows' = flows PROVE SetupAwaited(f)' BY <2>2, <2>5, SetupFrame
  <2>6. ASSUME NEW r \in AMLRequests, AMLClear(r, human) \/ AMLReject(r, human)
        PROVE  aml[r].flow \in Flows
    BY <1>0, <2>6, OnOpenedFlow DEF AMLClear, AMLReject, AMLUnderReview, AMLActive
  <2>7. ASSUME NEW r \in CreditRequests, CreditApprove(r, human) \/ CreditReject(r, human)
        PROVE  credit[r].flow \in Flows
    BY <1>0, <2>7, OnOpenedFlow DEF CreditApprove, CreditReject, CreditUnderReview, CreditActive
  <2>8. ASSUME NEW r \in LegalRequests, Execute(r) \/ LegalReject(r, human)
        PROVE  legal[r].flow \in Flows
    BY <1>0, <2>8, OnOpenedFlow DEF Execute, LegalReject, LegalUnderReview, LegalActive
  <2>9. CASE Approve(human)
    BY <2>3, <2>5, <2>6, <2>7, <2>8, <2>9
       DEF Approve, AMLClear, CreditApprove, Execute, ApproveBankSide, ApproveClientSide,
           registryVars
  <2>10. CASE Refuse(human)
    BY <2>4, <2>6, <2>7, <2>8, <2>10 DEF Refuse, AMLReject, CreditReject, LegalReject
  <2> QED BY <2>1, <2>9, <2>10
<1>8. CASE UNCHANGED bvars
  BY <1>8, SetupFrame DEF bvars, bridgeVars, vars, registryVars
<1> QED BY <1>3, <1>4, <1>5, <1>6, <1>7, <1>8, FaultFree DEF BridgeStep

-----------------------------------------------------------------------------
(* Nothing is abandoned but for the reasons given, and set-up is driven.   *)

Undisturbed ==
  faults = 0 =>
    /\ up = Bridges
    /\ \A r \in AMLRequests : AMLAttended(r)
    /\ \A r \in CreditRequests : CreditAttended(r)
    /\ \A r \in LegalRequests : LegalAttended(r)
    /\ \A f \in Flows : SetupAwaited(f)

BridgesInv == Deployed /\ faults \in Nat /\ Undisturbed

LEMMA InitBridgesInv == BridgesInit => BridgesInv
<1> SUFFICES ASSUME BridgesInit PROVE BridgesInv
  OBVIOUS
<1>1. Init /\ work = {} /\ up = Bridges /\ faults = 0 BY DEF BridgesInit
<1>2. IInv /\ Driven BY <1>1, InitIInv, InitDriven
<1>3. InPlace BY <1>1 DEF Init, RegistryInit, IdentityInit, InPlace
<1>4. /\ \A r \in AMLRequests : aml[r].status = "None"
      /\ \A r \in CreditRequests : credit[r].status = "None"
      /\ \A r \in LegalRequests : legal[r].status = "None"
  BY <1>1 DEF Init, AMLInit, CreditInit, LegalInit, NoAMLRequest, NoCreditRequest,
              NoLegalRequest
<1>5. Staffed /\ Informed BY <1>1, <1>4 DEF Staffed, OfDesks, Informed
<1>6. /\ \A r \in AMLRequests : AMLAttended(r)
      /\ \A r \in CreditRequests : CreditAttended(r)
      /\ \A r \in LegalRequests : LegalAttended(r)
  BY <1>4 DEF AMLAttended, CreditAttended, LegalAttended
<1>7. \A f \in Flows : SetupAwaited(f)
  BY <1>1 DEF Init, RegistryInit, NoRecord, SetupAwaited, IsActive
<1> QED BY <1>1, <1>2, <1>3, <1>5, <1>6, <1>7 DEF BridgesInv, Deployed, Undisturbed

LEMMA NextBridgesInv ==
  ASSUME DesksBound, BridgesInv, [BridgedNext]_bvars
  PROVE  BridgesInv'
<1>1. Deployed /\ faults \in Nat /\ (faults = 0 => up = Bridges)
  BY DEF BridgesInv, Undisturbed
<1>2. IInv /\ TypeOK /\ Linked /\ Driven /\ Typed /\ InPlace /\ Staffed /\ Informed
  BY <1>1 DEF Deployed, IInv, Driven
<1>3. [Next]_vars BY <1>2, BridgedNextAllowed
<1>4. Deployed'
  BY <1>2, <1>3, NextIInv, BridgedNextDriven, InPlaceStep, StaffedStep, InformedStep
     DEF Deployed
<1>5. faults' \in Nat BY <1>1, FaultFree
<1>6. ASSUME faults' = 0
      PROVE  /\ up' = Bridges
             /\ \A r \in AMLRequests : AMLAttended(r)'
             /\ \A r \in CreditRequests : CreditAttended(r)'
             /\ \A r \in LegalRequests : LegalAttended(r)'
             /\ \A f \in Flows : SetupAwaited(f)'
  <2>1. faults = 0 /\ up' = Bridges BY <1>1, <1>6, FaultFree
  <2>2. /\ \A r \in AMLRequests : AMLAttended(r)
        /\ \A r \in CreditRequests : CreditAttended(r)
        /\ \A r \in LegalRequests : LegalAttended(r)
        /\ \A f \in Flows : SetupAwaited(f)
    BY <2>1 DEF BridgesInv, Undisturbed
  <2> QED BY <1>1, <1>6, <2>1, <2>2, AMLAttendedStep, CreditAttendedStep,
             LegalAttendedStep, SetupAwaitedStep
<1>7. Undisturbed' BY <1>6 DEF Undisturbed
<1> QED BY <1>4, <1>5, <1>7 DEF BridgesInv

LEMMA InvAbandons == BridgesInv => AbandonedOnlyByRounds
BY DEF BridgesInv, Undisturbed, AMLAttended, CreditAttended, LegalAttended,
       AbandonedOnlyByRounds

LEMMA InvSetupDriven == BridgesInv => SetupDriven
BY DEF BridgesInv, Undisturbed, SetupAwaited, Awaits, SetupBridgeHears, SetupDriven

(* With desks bound to their oracles, and whatever calls the interface has,*)
(* a request no task will move and no human was asked about has used up a  *)
(* round counter, was answered accept_terms or was due a call that is not  *)
(* encoded, however many flows are open at the same time and whatever the  *)
(* models answer.                                                          *)
THEOREM AbandonmentTheorem ==
  ASSUME DesksBound
  PROVE  BridgedSpec => []AbandonedOnlyByRounds
<1>1. BridgesInv /\ [BridgedNext]_bvars => BridgesInv' BY NextBridgesInv
<1> QED BY <1>1, InitBridgesInv, InvAbandons, PTL DEF BridgedSpec

(* Set-up is never left half done: the bitmask a task read before its call *)
(* to the server is still the one its transaction needs, or another task   *)
(* is about to look again, for every interface that has the call then due. *)
THEOREM SetupTheorem ==
  ASSUME DesksBound
  PROVE  BridgedSpec => []SetupDriven
<1>1. BridgesInv /\ [BridgedNext]_bvars => BridgesInv' BY NextBridgesInv
<1> QED BY <1>1, InitBridgesInv, InvSetupDriven, PTL DEF BridgedSpec

-----------------------------------------------------------------------------
(* No flow is left without a next move.  "About" is the flow a task works  *)
(* for; a team is out of ids for a flow when the ids of its requests are   *)
(* all used for other flows (in the contracts an id is a hash, so that the *)
(* sets of ids are a bound of the model).                                  *)

About(i, f) ==
  \/ i.oracle = "aml" /\ aml[i.of].flow = f
  \/ i.oracle = "credit" /\ credit[i.of].flow = f
  \/ i.oracle = "legal" /\ legal[i.of].flow = f
  \/ i.oracle \in {"registry", "initiate"} /\ i.of = f

HumanMayDecide(f) ==
  \E human \in Humans :
    \/ \E r \in AMLRequests : aml[r].flow = f /\ AMLMayClear(r, human)
    \/ \E r \in CreditRequests : credit[r].flow = f /\ CreditMayApprove(r, human)
    \/ \E r \in LegalRequests :
         /\ legal[r].flow = f
         /\ MayExecute(r) \/ MayApproveBankSide(r, human) \/ MayApproveClientSide(r, human)

OutOfIds(f) ==
  \/ \A r \in AMLRequests : aml[r].status # "None" /\ aml[r].flow # f
  \/ \A r \in CreditRequests : credit[r].status # "None" /\ credit[r].flow # f
  \/ \A r \in LegalRequests : legal[r].status # "None" /\ legal[r].flow # f

Openings == {"requestAMLReview", "requestCreditReview", "requestLegalReview"}

NeverLeft ==
  faults = 0 /\ ~Unencoded(Openings) =>
    \A f \in Flows : flows[f].created =>
      \/ flows[f].terminated \/ flows[f].phases = AllPhases \/ Abandoned(f)
      \/ \E i \in work : About(i, f)
      \/ HumanMayDecide(f)
      \/ OutOfIds(f)
      \/ ReviewsDone(f) /\ Unencoded(NextSetupCall(f))

(* Behind it: each team has been asked for its review of a live flow, or   *)
(* a task is about to ask.                                                 *)
Asks(f, call) == \E i \in work : i.oracle = "initiate" /\ i.of = f /\ i.call = call

AMLAsked(f) ==
  \/ \E r \in AMLRequests : aml[r].flow = f
  \/ \A r \in AMLRequests : aml[r].status # "None"
  \/ Asks(f, "requestAMLReview")
CreditAsked(f) ==
  \/ \E r \in CreditRequests : credit[r].flow = f
  \/ \A r \in CreditRequests : credit[r].status # "None"
  \/ Asks(f, "requestCreditReview")
LegalAsked(f) ==
  \/ \E r \in LegalRequests : legal[r].flow = f
  \/ \A r \in LegalRequests : legal[r].status # "None"
  \/ Asks(f, "requestLegalReview")

Asked ==
  faults = 0 /\ ~Unencoded(Openings) =>
    \A f \in Flows : IsActive(f) => AMLAsked(f) /\ CreditAsked(f) /\ LegalAsked(f)

LEMMA RequestsStay ==
  ASSUME TypeOK, Linked, [Next]_vars
  PROVE  /\ \A r \in AMLRequests : aml[r].flow # NoFlow => aml'[r].flow = aml[r].flow
         /\ \A r \in CreditRequests : credit[r].flow # NoFlow => credit'[r].flow = credit[r].flow
         /\ \A r \in LegalRequests : legal[r].flow # NoFlow => legal'[r].flow = legal[r].flow
<1>1. \A r \in AMLRequests : aml[r].flow # NoFlow => aml'[r].flow = aml[r].flow
  BY NextEffect DEF AMLEffect, AMLQuiet, AMLPass, AMLFail, AMLDecides
<1>2. \A r \in CreditRequests : credit[r].flow # NoFlow => credit'[r].flow = credit[r].flow
  BY NextEffect DEF CreditEffect, CreditQuiet, CreditPass, CreditFail, CreditDecides
<1>3. \A r \in LegalRequests : legal[r].flow # NoFlow => legal'[r].flow = legal[r].flow
  BY NextEffect DEF legalVars, LegalEffect, LegalQuiet, LegalPass, LegalFail, LegalDecides
<1> QED BY <1>1, <1>2, <1>3

(* Only the orchestrator opens flows.                                      *)
LEMMA NoneOpens ==
  ASSUME IInv, Typed, BridgeStep \/ HumanStep, NEW f \in Flows, flows'[f].created
  PROVE  flows[f].created
<1>0. TypeOK /\ RegistryTypeOK BY DEF IInv, TypeOK
<1>1. ASSUME NEW i \in work, Call(i) PROVE flows[f].created
  <2>1. CASE AMLCall(i) \/ CreditCall(i) \/ LegalCall(i) \/ OpenReview(i)
    <3>1. flows' = flows
      BY <2>1 DEF AMLCall, CreditCall, LegalCall, OpenReview, registryVars,
           AMLRequestClientData, AMLFulfillDataRequest, AMLSubmitRecommendation,
           CreditRequestClientData, CreditFulfillDataRequest, ProposeTerms,
           SubmitCounterProposal, AcceptTerms, CreditSubmitRecommendation,
           IssueDraft, SubmitMarkup, LegalSubmitRecommendation,
           RequestAMLReview, RequestCreditReview, RequestLegalReview
    <3> QED BY <3>1
  <2>2. CASE SetupCall(i)
    <3>1. i.of \in Flows BY <2>2, TaskOf DEF SetupCall
    <3>2. \E phase : SetPhaseComplete("setup", i.of, phase)
      BY <2>2 DEF SetupCall, SetupLegalEntity, SetupAccount, SetupProducts
    <3> QED BY <1>0, <3>1, <3>2, SetPhaseFlows
  <2> QED BY <1>1, <2>1, <2>2 DEF Call
<1>2. CASE HumanStep
  <2>1. PICK human \in Humans : Approve(human) \/ Refuse(human) BY <1>2 DEF HumanStep
  <2>2. ASSUME NEW g \in Flows, NEW o, NEW phase, SetPhaseComplete(o, g, phase)
        PROVE  flows[f].created
    BY <1>0, <2>2, SetPhaseFlows
  <2>3. ASSUME NEW g \in Flows, NEW o, Terminate(o, g) PROVE flows[f].created
    BY <1>0, <2>3, TerminateEffect
  <2>4. ASSUME NEW r \in AMLRequests, AMLClear(r, human) \/ AMLReject(r, human)
        PROVE  aml[r].flow \in Flows
    BY <2>4, OnOpenedFlow DEF AMLClear, AMLReject, AMLUnderReview, AMLActive
  <2>5. ASSUME NEW r \in CreditRequests, CreditApprove(r, human) \/ CreditReject(r, human)
        PROVE  credit[r].flow \in Flows
    BY <2>5, OnOpenedFlow DEF CreditApprove, CreditReject, CreditUnderReview, CreditActive
  <2>6. ASSUME NEW r \in LegalRequests, Execute(r) \/ LegalReject(r, human)
        PROVE  legal[r].flow \in Flows
    BY <2>6, OnOpenedFlow DEF Execute, LegalReject, LegalUnderReview, LegalActive
  <2>7. CASE Approve(human)
    BY <2>2, <2>4, <2>5, <2>6, <2>7
       DEF Approve, AMLClear, CreditApprove, Execute, ApproveBankSide, ApproveClientSide,
           registryVars
  <2>8. CASE Refuse(human)
    BY <2>3, <2>4, <2>5, <2>6, <2>8 DEF Refuse, AMLReject, CreditReject, LegalReject
  <2> QED BY <2>1, <2>7, <2>8
<1> QED BY <1>1, <1>2 DEF BridgeStep, Handle, Revert, vars, registryVars

(* A task that is to ask stays, or has asked, or was refused an id.        *)
LEMMA AskerStays ==
  ASSUME DesksBound, Deployed, up = Bridges,
         (\E f \in Flows : Initiate(f)) \/ BridgeStep \/ HumanStep \/ UNCHANGED bvars,
         NEW i \in work, i.oracle = "initiate", i.call \in Interface
  PROVE  \/ i \in work'
         \/ OpenReview(i)
         \/ IsActive(i.of) => /\ ~ReviewTakes(i.call, i.of)
                              /\ UNCHANGED <<aml, credit, legal>>
<1>0. Typed /\ TypeOK BY DEF Deployed, Driven, IInv
<1>1. i \in Tasks BY <1>0 DEF Typed
<1>2. ASSUME NEW j \in work, Handle(j) PROVE i \in work'
  <2>1. j.oracle # "initiate"
    BY <1>2 DEF Handle, AMLHandleReviewRequested, AMLHandleDataFulfilled,
         CreditHandleReviewRequested, CreditHandleDataFulfilled, CreditHandleCounterProposed,
         LegalHandleReviewRequested, LegalHandleMarkupSubmitted, HandleDataRequested,
         HandleTermsProposed, HandleDraftIssued, HandlePhaseCompleted, AMLBridgeHears,
         CreditBridgeHears, LegalBridgeHears, DocumentBridgeHears, NegotiatorBridgeHears,
         ClientLegalBridgeHears, SetupBridgeHears
  <2>2. work \ {j} \subseteq work' BY <1>0, <1>2, HandleKeeps
  <2> QED BY <2>1, <2>2
<1>3. ASSUME NEW j \in work, Call(j) PROVE i \in work' \/ OpenReview(i)
  BY <1>3 DEF Call, AMLCall, CreditCall, LegalCall, SetupCall, OpenReview, Emit
<1>4. ASSUME NEW j \in work, Revert(j)
      PROVE  i \in work' \/ (/\ ~ReviewTakes(i.call, i.of)
                             /\ UNCHANGED <<aml, credit, legal>>)
  <2>1. work' = work \ {j} /\ ~Taken(j) /\ UNCHANGED <<aml, credit, legal>>
    BY <1>4 DEF Revert, vars, legalVars
  <2> QED BY <2>1 DEF Taken
<1>5. CASE HumanStep BY <1>0, <1>5, HumanTasks DEF Deployed
<1>6. CASE (\E f \in Flows : Initiate(f)) \/ UNCHANGED bvars
  BY <1>6 DEF Initiate, bvars, bridgeVars
<1> QED BY <1>2, <1>3, <1>4, <1>5, <1>6 DEF BridgeStep

LEMMA AskedStep ==
  ASSUME DesksBound, BridgesInv, Asked, [BridgedNext]_bvars
  PROVE  Asked'
<1> SUFFICES ASSUME faults' = 0, Openings \subseteq Interface, NEW f \in Flows, IsActive(f)'
             PROVE  AMLAsked(f)' /\ CreditAsked(f)' /\ LegalAsked(f)'
  BY DEF Asked, Unencoded
<1>1. Deployed /\ IInv /\ TypeOK /\ Linked /\ Driven /\ Typed /\ InPlace
  BY DEF BridgesInv, Deployed, IInv, Driven
<1>2. /\ faults = 0 /\ up = Bridges
      /\ (\E g \in Flows : Initiate(g)) \/ BridgeStep \/ HumanStep \/ UNCHANGED bvars
  BY FaultFree DEF BridgesInv, Undisturbed
<1>3. [Next]_vars BY <1>1, BridgedNextAllowed
<1>4. Linked' BY <1>1, <1>3, NextTyped
<1>5. f # NoFlow BY FlowsAssumption
<1>6. CASE ~flows[f].created
  <2>1. flows'[f].created BY DEF IsActive
  <2>2. flows' # flows BY <1>6, <2>1
  <2>3. PICK g \in Flows : Initiate(g)
    BY <1>1, <1>2, <1>6, <2>1, <2>2, NoneOpens DEF bvars, vars, registryVars
  <2>4. g = f
    <3>1. RegistryTypeOK /\ Fresh BY <1>1 DEF IInv, TypeOK
    <3>2. flows'[f].created <=> flows[f].created \/ f = g
      BY <2>3, <3>1, OpenEffect DEF Initiate
    <3> QED BY <1>6, <2>1, <3>2
  <2>5. ASSUME NEW call \in {"requestAMLReview", "requestCreditReview", "requestLegalReview"}
        PROVE  Asks(f, call)'
    <3> DEFINE i == [oracle |-> "initiate", event |-> "initiateOnboarding", of |-> f,
                     call |-> call]
    <3>1. i \in work' BY <2>3, <2>4 DEF Initiate
    <3> QED BY <3>1 DEF Asks
  <2> QED BY <2>5 DEF AMLAsked, CreditAsked, LegalAsked
<1>7. CASE flows[f].created
  <2>1. IsActive(f) BY <1>1, <1>3, <1>7, LiveBefore
  <2>2. AMLAsked(f) /\ CreditAsked(f) /\ LegalAsked(f) BY <1>2, <2>1 DEF Asked, Unencoded
  <2>3. /\ \A r \in AMLRequests : /\ aml[r].flow = f => aml'[r].flow = f
                                  /\ aml[r].status # "None" => aml'[r].status # "None"
        /\ \A r \in CreditRequests : /\ credit[r].flow = f => credit'[r].flow = f
                                     /\ credit[r].status # "None" => credit'[r].status # "None"
        /\ \A r \in LegalRequests : /\ legal[r].flow = f => legal'[r].flow = f
                                    /\ legal[r].status # "None" => legal'[r].status # "None"
    BY <1>1, <1>3, <1>4, <1>5, RequestsStay DEF Linked, AMLLinked, CreditLinked, LegalLinked
  <2>4. /\ OnlyBankAgent(BankDesk["aml"], "aml") /\ OnlyBankAgent(BankDesk["credit"], "credit")
        /\ OnlyBankAgent(BankDesk["legal"], "legal")
    BY <1>1, DesksAccepted
  <2>5. ASSUME NEW i \in work, i.oracle = "initiate", i.of = f
        PROVE  \/ i \in work'
               \/ OpenReview(i)
               \/ ~ReviewTakes(i.call, f) /\ UNCHANGED <<aml, credit, legal>>
    <3>1. i \in Tasks BY <1>1 DEF Typed
    <3>2. i.call \in Openings BY <2>5, <3>1 DEF Tasks, Openings
    <3> QED BY <1>1, <1>2, <2>1, <2>5, <3>2, AskerStays
  <2>6. AMLAsked(f)'
    <3>1. ASSUME NEW i \in work, i.oracle = "initiate", i.of = f, i.call = "requestAMLReview"
          PROVE  AMLAsked(f)'
      <4>1. CASE i \in work' BY <3>1, <4>1 DEF AMLAsked, Asks
      <4>2. CASE OpenReview(i)
        <5>1. PICK r \in AMLRequests : RequestAMLReview(r, f, BankDesk["aml"], ClientDesk["aml"])
          BY <3>1, <4>2 DEF OpenReview
        <5>2. aml'[r].flow = f BY <1>1, <5>1 DEF RequestAMLReview, TypeOK, AMLTypeOK
        <5> QED BY <5>2 DEF AMLAsked
      <4>3. CASE ~ReviewTakes(i.call, f) /\ UNCHANGED <<aml, credit, legal>>
        BY <2>1, <2>4, <3>1, <4>3 DEF ReviewTakes, AMLAsked
      <4> QED BY <2>5, <3>1, <4>1, <4>2, <4>3
    <3> QED BY <2>2, <2>3, <3>1 DEF AMLAsked, Asks
  <2>7. CreditAsked(f)'
    <3>1. ASSUME NEW i \in work, i.oracle = "initiate", i.of = f, i.call = "requestCreditReview"
          PROVE  CreditAsked(f)'
      <4>1. CASE i \in work' BY <3>1, <4>1 DEF CreditAsked, Asks
      <4>2. CASE OpenReview(i)
        <5>1. PICK r \in CreditRequests :
                RequestCreditReview(r, f, BankDesk["credit"], ClientDesk["credit"])
          BY <3>1, <4>2 DEF OpenReview
        <5>2. credit'[r].flow = f BY <1>1, <5>1 DEF RequestCreditReview, TypeOK, CreditTypeOK
        <5> QED BY <5>2 DEF CreditAsked
      <4>3. CASE ~ReviewTakes(i.call, f) /\ UNCHANGED <<aml, credit, legal>>
        BY <2>1, <2>4, <3>1, <4>3 DEF ReviewTakes, CreditAsked
      <4> QED BY <2>5, <3>1, <4>1, <4>2, <4>3
    <3> QED BY <2>2, <2>3, <3>1 DEF CreditAsked, Asks
  <2>8. LegalAsked(f)'
    <3>1. ASSUME NEW i \in work, i.oracle = "initiate", i.of = f, i.call = "requestLegalReview"
          PROVE  LegalAsked(f)'
      <4>1. CASE i \in work' BY <3>1, <4>1 DEF LegalAsked, Asks
      <4>2. CASE OpenReview(i)
        <5>1. PICK r \in LegalRequests :
                RequestLegalReview(r, f, BankDesk["legal"], ClientDesk["legal"])
          BY <3>1, <4>2 DEF OpenReview
        <5>2. legal'[r].flow = f BY <1>1, <5>1 DEF RequestLegalReview, TypeOK, LegalTypeOK
        <5> QED BY <5>2 DEF LegalAsked
      <4>3. CASE ~ReviewTakes(i.call, f) /\ UNCHANGED <<aml, credit, legal>>
        BY <2>1, <2>4, <3>1, <4>3 DEF ReviewTakes, LegalAsked
      <4> QED BY <2>5, <3>1, <4>1, <4>2, <4>3
    <3> QED BY <2>2, <2>3, <3>1 DEF LegalAsked, Asks
  <2> QED BY <2>6, <2>7, <2>8
<1> QED BY <1>6, <1>7

(* A review that waits for a human can be decided, whoever the human is.   *)
LEMMA HumanAccepted ==
  ASSUME Deployed
  PROVE  \E human \in Humans :
           /\ \A r \in AMLRequests : AMLUnderReview(r) => AMLMayClear(r, human)
           /\ \A r \in CreditRequests : CreditUnderReview(r) => CreditMayApprove(r, human)
           /\ \A r \in LegalRequests : LegalUnderReview(r) =>
                \/ MayExecute(r) \/ MayApproveBankSide(r, human)
                \/ MayApproveClientSide(r, human)
<1>1. InPlace /\ TypeOK /\ AMLTypeOK /\ CreditTypeOK /\ LegalTypeOK
  BY DEF Deployed, IInv, TypeOK
<1>2. PICK human \in Humans : human \notin Agents /\ human # NoAccount
  BY AgentsAssumption DEF Accounts
<1>3. \A a : human # GetAgentWallet(a) BY <1>1, <1>2 DEF InPlace, GetAgentWallet
<1>4. oracles = Callers BY <1>1 DEF InPlace
<1>5. ASSUME NEW r \in AMLRequests, AMLUnderReview(r) PROVE AMLMayClear(r, human)
  BY <1>3, <1>4, <1>5 DEF AMLUnderReview, AMLActive, Callers
<1>6. ASSUME NEW r \in CreditRequests, CreditUnderReview(r) PROVE CreditMayApprove(r, human)
  BY <1>3, <1>4, <1>6 DEF CreditUnderReview, CreditActive, Callers
<1>7. ASSUME NEW r \in LegalRequests, LegalUnderReview(r)
      PROVE  \/ MayExecute(r) \/ MayApproveBankSide(r, human)
             \/ MayApproveClientSide(r, human)
  BY <1>3, <1>4, <1>7 DEF LegalUnderReview, LegalActive, Callers
<1> QED BY <1>2, <1>5, <1>6, <1>7

LEMMA InvNeverLeft == BridgesInv /\ Asked /\ NoMarkup => NeverLeft
<1> SUFFICES ASSUME BridgesInv, Asked, NoMarkup, faults = 0, NEW f \in Flows,
                    flows[f].created, ~flows[f].terminated, flows[f].phases # AllPhases,
                    ~Abandoned(f), ~OutOfIds(f), ~Unencoded(Openings),
                    ~(ReviewsDone(f) /\ Unencoded(NextSetupCall(f))),
                    \A i \in work : ~About(i, f)
             PROVE  HumanMayDecide(f)
  BY DEF NeverLeft
<1>1. /\ Deployed /\ IInv /\ TypeOK /\ Linked /\ PhasesBacked /\ TerminatedByRejection
      /\ RegistryTypeOK /\ AMLTypeOK /\ CreditTypeOK /\ LegalTypeOK
  BY DEF BridgesInv, Deployed, IInv, TypeOK
<1>2. IsActive(f) /\ Failed(f) = {} /\ f # NoFlow
  BY <1>1, FlowsAssumption DEF IsActive, TerminatedByRejection
<1>3. ~ReviewsDone(f)
  <2>1. ASSUME ReviewsDone(f) PROVE \E i \in work : SetupBridgeHears(i) /\ i.of = f
    BY <1>2, <2>1, InvSetupDriven DEF SetupDriven
  <2> QED BY <2>1 DEF SetupBridgeHears, About
<1>4. PICK human \in Humans :
           /\ \A r \in AMLRequests : AMLUnderReview(r) => AMLMayClear(r, human)
           /\ \A r \in CreditRequests : CreditUnderReview(r) => CreditMayApprove(r, human)
           /\ \A r \in LegalRequests : LegalUnderReview(r) =>
                \/ MayExecute(r) \/ MayApproveBankSide(r, human)
                \/ MayApproveClientSide(r, human)
  BY <1>1, HumanAccepted
<1>5. \A call : ~Asks(f, call) BY DEF Asks, About
<1>6. AMLAsked(f) /\ CreditAsked(f) /\ LegalAsked(f) BY <1>2 DEF Asked
<1>7. PICK t \in Teams : PhaseOf[t] \notin flows[f].phases /\ t \notin Passed(f)
  <2>1. PICK t \in Teams : PhaseOf[t] \notin flows[f].phases
    BY <1>3 DEF ReviewsDone, ReviewPhases, Teams, PhaseOf
  <2> QED BY <1>1, <2>1 DEF PhasesBacked
<1>8. CASE t = "aml"
  <2>1. PICK r \in AMLRequests : aml[r].flow = f BY <1>5, <1>6 DEF AMLAsked, OutOfIds
  <2>2. aml[r].status \notin {"None", "Cleared", "Rejected"}
    BY <1>1, <1>2, <1>7, <1>8, <2>1
       DEF Passed, Failed, AMLDecided, Teams, Linked, AMLLinked
  <2>3. aml[r].status \notin {"Pending", "DataRequested"}
    BY <2>1 DEF Abandoned, AMLTasks, About
  <2>4. AMLUnderReview(r)
    BY <1>1, <1>2, <2>1, <2>2, <2>3
       DEF AMLUnderReview, AMLActive, AMLTypeOK, AMLRecord, AMLStatus
  <2> HIDE DEF AMLMayClear
  <2> QED BY <1>4, <2>1, <2>4 DEF HumanMayDecide
<1>9. CASE t = "credit"
  <2>1. PICK r \in CreditRequests : credit[r].flow = f
    BY <1>5, <1>6 DEF CreditAsked, OutOfIds
  <2>2. credit[r].status \notin {"None", "Approved", "Rejected"}
    BY <1>1, <1>2, <1>7, <1>9, <2>1
       DEF Passed, Failed, CreditDecided, Teams, Linked, CreditLinked
  <2>3. credit[r].status \notin {"Pending", "DataRequested", "Negotiating"}
    BY <2>1 DEF Abandoned, CreditTasks, About
  <2>4. CreditUnderReview(r)
    BY <1>1, <1>2, <2>1, <2>2, <2>3
       DEF CreditUnderReview, CreditActive, CreditTypeOK, CreditRecord, CreditStatus
  <2> HIDE DEF CreditMayApprove
  <2> QED BY <1>4, <2>1, <2>4 DEF HumanMayDecide
<1>10. CASE t = "legal"
  <2>1. PICK r \in LegalRequests : legal[r].flow = f BY <1>5, <1>6 DEF LegalAsked, OutOfIds
  <2>2. legal[r].status \notin {"None", "Executed", "Rejected"}
    BY <1>1, <1>2, <1>7, <1>10, <2>1
       DEF Passed, Failed, LegalDecided, Teams, Linked, LegalLinked
  <2>3. legal[r].status \notin {"Pending", "DraftIssued", "MarkupSubmitted"}
    BY <2>1 DEF Abandoned, LegalTasks, About, NoMarkup
  <2>4. LegalUnderReview(r)
    BY <1>1, <1>2, <2>1, <2>2, <2>3
       DEF LegalUnderReview, LegalActive, LegalTypeOK, LegalRecord, LegalStatus
  <2> HIDE DEF MayExecute, MayApproveBankSide, MayApproveClientSide
  <2> QED BY <1>4, <2>1, <2>4 DEF HumanMayDecide
<1> QED BY <1>7, <1>8, <1>9, <1>10 DEF Teams

(* What FlowSettles comes to in each state: a flow that is open, with no   *)
(* fault so far, is settled, or a task works for it, or a human may take   *)
(* the next decision on it; whatever the models answer, in whatever order  *)
(* reviews, events and transactions come, with every interface that opens  *)
(* reviews, as the one the bridges have does, unless it leaves out the     *)
(* set-up call that is due.                                                *)
THEOREM NeverLeftTheorem ==
  ASSUME DesksBound
  PROVE  BridgedSpec => []NeverLeft
<1>1. BridgesInv /\ Asked /\ NoMarkup /\ [BridgedNext]_bvars
        => BridgesInv' /\ Asked' /\ NoMarkup'
  <2>1. BridgesInv => Typed /\ TypeOK BY DEF BridgesInv, Deployed, Driven, IInv
  <2> QED BY <2>1, NextBridgesInv, AskedStep, BridgedNextAllowed, NextNoMarkup
<1>2. BridgesInit => BridgesInv /\ Asked /\ NoMarkup
  <2>1. BridgesInit => Asked
    BY DEF BridgesInit, Init, RegistryInit, NoRecord, Asked, IsActive
  <2>2. BridgesInit => NoMarkup
    BY DEF BridgesInit, Init, LegalInit, NoLegalRequest, NoMarkup
  <2> QED BY <2>1, <2>2, InitBridgesInv
<1> QED BY <1>1, <1>2, InvNeverLeft, PTL DEF BridgedSpec

-----------------------------------------------------------------------------
(* What the bridges get done with the interface abis.py has.               *)
NothingHandedIn ==
  /\ \A r \in AMLRequests : aml[r].status \in {"None", "Pending", "DataRequested"}
  /\ \A r \in CreditRequests : credit[r].status \in {"None", "Pending", "DataRequested"}
  /\ \A r \in LegalRequests : legal[r].status \in {"None", "Pending"}
  /\ \A f \in Flows : flows[f].phases = {} /\ ~flows[f].terminated

LEMMA NothingToDecide == NothingHandedIn => ~HumanStep
<1> SUFFICES ASSUME NothingHandedIn PROVE ~HumanStep
  OBVIOUS
<1>1. /\ \A r \in AMLRequests : ~AMLUnderReview(r)
      /\ \A r \in CreditRequests : ~CreditUnderReview(r)
      /\ \A r \in LegalRequests : ~LegalUnderReview(r)
  BY DEF NothingHandedIn, AMLUnderReview, CreditUnderReview, LegalUnderReview
<1> QED
  BY <1>1 DEF HumanStep, Approve, Refuse, AMLClear, AMLReject, CreditApprove, CreditReject,
              Execute, LegalReject, ApproveBankSide, ApproveClientSide

LEMMA NothingStep ==
  ASSUME Interface \subseteq AbisInterface, IInv, Typed, NothingHandedIn, [BridgedNext]_bvars
  PROVE  NothingHandedIn'
<1>0. AMLTypeOK /\ CreditTypeOK /\ LegalTypeOK /\ RegistryTypeOK /\ Fresh
  BY DEF IInv, TypeOK
<1>1. ASSUME UNCHANGED vars PROVE NothingHandedIn'
  BY <1>1 DEF vars, registryVars, legalVars, NothingHandedIn
<1>2. ASSUME NEW f \in Flows, Initiate(f) PROVE NothingHandedIn'
  <2>1. UNCHANGED <<aml, credit, legal>> /\ InitiateOnboarding(f)
    BY <1>2 DEF Initiate, legalVars
  <2>2. \A g \in Flows : /\ flows'[g].phases = flows[g].phases
                         /\ flows'[g].terminated = flows[g].terminated
    BY <1>0, <2>1, OpenEffect
  <2> QED BY <2>1, <2>2 DEF NothingHandedIn
<1>3. ASSUME NEW i \in work, Call(i) PROVE NothingHandedIn'
  <2>1. i.call \in AbisInterface BY <1>3 DEF Call
  <2>2. CASE AMLCall(i)
    <3>1. AMLRequestClientData(i.of) /\ i.of \in AMLRequests
      BY <1>3, <2>1, <2>2, TaskOf DEF AMLCall, AbisInterface
    <3>2. UNCHANGED <<credit, legal, flows>>
      BY <2>2, <3>1 DEF AMLCall, AMLRequestClientData, registryVars, legalVars
    <3>3. \A r \in AMLRequests : aml'[r].status \in {aml[r].status, "DataRequested"}
      BY <1>0, <3>1 DEF AMLRequestClientData, AMLTypeOK, AMLRecord
    <3> QED BY <3>2, <3>3 DEF NothingHandedIn
  <2>3. CASE CreditCall(i)
    <3>1. CreditRequestClientData(i.of) /\ i.of \in CreditRequests
      BY <1>3, <2>1, <2>3, TaskOf DEF CreditCall, AbisInterface
    <3>2. UNCHANGED <<aml, legal, flows>>
      BY <2>3, <3>1 DEF CreditCall, CreditRequestClientData, registryVars, legalVars
    <3>3. \A r \in CreditRequests : credit'[r].status \in {credit[r].status, "DataRequested"}
      BY <1>0, <3>1 DEF CreditRequestClientData, CreditTypeOK, CreditRecord
    <3> QED BY <3>2, <3>3 DEF NothingHandedIn
  <2>4. CASE LegalCall(i) \/ SetupCall(i)
    BY <2>1, <2>4 DEF LegalCall, SetupCall, AbisInterface
  <2>5. CASE OpenReview(i)
    <3>1. ASSUME NEW r \in AMLRequests,
                 RequestAMLReview(r, i.of, BankDesk["aml"], ClientDesk["aml"]),
                 UNCHANGED <<credit, legalVars>>
          PROVE  NothingHandedIn'
      <4>1. \A q \in AMLRequests : aml'[q].status \in {aml[q].status, "Pending"}
        BY <1>0, <3>1 DEF RequestAMLReview, AMLTypeOK, AMLRecord
      <4> QED BY <3>1, <4>1 DEF RequestAMLReview, registryVars, legalVars, NothingHandedIn
    <3>2. ASSUME NEW r \in CreditRequests,
                 RequestCreditReview(r, i.of, BankDesk["credit"], ClientDesk["credit"]),
                 UNCHANGED <<aml, legalVars>>
          PROVE  NothingHandedIn'
      <4>1. \A q \in CreditRequests : credit'[q].status \in {credit[q].status, "Pending"}
        BY <1>0, <3>2 DEF RequestCreditReview, CreditTypeOK, CreditRecord
      <4> QED BY <3>2, <4>1 DEF RequestCreditReview, registryVars, legalVars, NothingHandedIn
    <3>3. ASSUME NEW r \in LegalRequests,
                 RequestLegalReview(r, i.of, BankDesk["legal"], ClientDesk["legal"]),
                 UNCHANGED <<aml, credit>>
          PROVE  NothingHandedIn'
      <4>1. \A q \in LegalRequests : legal'[q].status \in {legal[q].status, "Pending"}
        BY <1>0, <3>3 DEF RequestLegalReview, LegalTypeOK, LegalRecord
      <4> QED BY <3>3, <4>1 DEF RequestLegalReview, registryVars, NothingHandedIn
    <3> QED BY <2>5, <3>1, <3>2, <3>3 DEF OpenReview
  <2> QED BY <1>3, <2>2, <2>3, <2>4, <2>5 DEF Call
<1>4. ASSUME \/ \E i \in work : Handle(i) \/ Revert(i) \/ Drop(i)
             \/ \E b \in Bridges : Crash(b) \/ Restart(b)
             \/ UNCHANGED bvars
      PROVE  NothingHandedIn'
  BY <1>1, <1>4 DEF Handle, Revert, Drop, Crash, Restart, bvars
<1> QED BY <1>2, <1>3, <1>4, NothingToDecide DEF BridgedNext, BridgeStep

(* With the interface that abis.py has, or less, no review of any team is  *)
(* ever handed in, put before a human or decided, and no flow completes a  *)
(* phase or is terminated: each request waits, for the bank or, where data *)
(* was asked for, for the client, whatever the models answer and however   *)
(* often the bridges are restarted.                                        *)
THEOREM AbisTheorem ==
  ASSUME Interface \subseteq AbisInterface
  PROVE  BridgedSpec => []NothingHandedIn
<1> DEFINE Inv == IInv /\ Driven /\ NothingHandedIn
<1>1. BridgesInit => Inv
  <2>1. BridgesInit => NothingHandedIn
    BY DEF BridgesInit, Init, RegistryInit, NoRecord, AMLInit, NoAMLRequest, CreditInit,
           NoCreditRequest, LegalInit, NoLegalRequest, NothingHandedIn
  <2> QED BY <2>1, InitIInv, InitDriven DEF BridgesInit
<1>2. Inv /\ [BridgedNext]_bvars => Inv'
  <2>1. Driven => Typed BY DEF Driven
  <2>2. IInv => TypeOK /\ Linked BY DEF IInv
  <2> QED BY <2>1, <2>2, BridgedNextAllowed, BridgedNextDriven, NextIInv, NothingStep
<1>3. Inv => NothingHandedIn OBVIOUS
<1> QED BY <1>1, <1>2, <1>3, PTL DEF BridgedSpec

-----------------------------------------------------------------------------
(* Nor is any work done for ever.  The effort left is the budget of the    *)
(* contracts, four for each unit, and one or two for every task: one when  *)
(* its call is chosen, two while its server has yet to answer.  A          *)
(* transaction takes four and announces tasks worth less than that.        *)
Load(tasks) == Cardinality(tasks) + Cardinality({t \in tasks : t.call = Unanswered})

Effort == 4 * Budget + Load(work)

Weight(t) == IF t.call = Unanswered THEN 2 ELSE 1

LEMMA WeightIs ==
  ASSUME NEW t
  PROVE  /\ Weight(t) \in {1, 2}
         /\ t.call = Unanswered => Weight(t) = 2
         /\ t.call # Unanswered => Weight(t) = 1
BY DEF Weight

LEMMA LoadOfFewer ==
  ASSUME NEW S, IsFiniteSet(S), NEW T \in SUBSET S
  PROVE  IsFiniteSet(T) /\ Load(T) \in Nat /\ Load(S) \in Nat /\ Load(T) <= Load(S)
<1> DEFINE waiting(tasks) == {t \in tasks : t.call = Unanswered}
<1>1. IsFiniteSet(T) /\ Cardinality(T) <= Cardinality(S) BY FS_Subset
<1>2. waiting(S) \in SUBSET S /\ waiting(T) \in SUBSET waiting(S) OBVIOUS
<1> HIDE DEF waiting
<1>3. IsFiniteSet(waiting(S)) BY <1>2, FS_Subset
<1>4. IsFiniteSet(waiting(T)) /\ Cardinality(waiting(T)) <= Cardinality(waiting(S))
  BY <1>2, <1>3, FS_Subset
<1>5. /\ Cardinality(S) \in Nat /\ Cardinality(T) \in Nat
      /\ Cardinality(waiting(S)) \in Nat /\ Cardinality(waiting(T)) \in Nat
  BY <1>1, <1>3, <1>4, FS_CardinalityType
<1> QED BY <1>1, <1>4, <1>5 DEF Load, waiting

LEMMA LoadWithout ==
  ASSUME NEW S, IsFiniteSet(S), NEW i \in S
  PROVE  /\ IsFiniteSet(S \ {i})
         /\ Load(S) \in Nat /\ Load(S \ {i}) \in Nat
         /\ Load(S \ {i}) = Load(S) - Weight(i)
<1> DEFINE waiting(tasks) == {t \in tasks : t.call = Unanswered}
<1>1. /\ IsFiniteSet(S \ {i})
      /\ Cardinality(S \ {i}) = Cardinality(S) - 1
  BY FS_RemoveElement
<1>2. waiting(S) \in SUBSET S /\ waiting(S \ {i}) = waiting(S) \ {i} OBVIOUS
<1>3. i \in waiting(S) <=> i.call = Unanswered OBVIOUS
<1> HIDE DEF waiting
<1>4. IsFiniteSet(waiting(S)) BY <1>2, FS_Subset
<1>5. Cardinality(waiting(S \ {i})) = IF i \in waiting(S) THEN Cardinality(waiting(S)) - 1
                                                        ELSE Cardinality(waiting(S))
  BY <1>2, <1>4, FS_RemoveElement
<1>6. /\ Cardinality(S) \in Nat /\ Cardinality(waiting(S)) \in Nat
  BY <1>4, FS_CardinalityType
<1>7. Load(S) \in Nat /\ Load(S \ {i}) \in Nat BY <1>1, LoadOfFewer
<1>8. /\ Load(S) = Cardinality(S) + Cardinality(waiting(S))
      /\ Load(S \ {i}) = Cardinality(S \ {i}) + Cardinality(waiting(S \ {i}))
  BY DEF Load, waiting
<1>9. Load(S \ {i}) = Load(S) - Weight(i)
  <2>1. CASE i \in waiting(S)
    <3>1. Weight(i) = 2 BY <1>3, <2>1, WeightIs
    <3> QED BY <1>1, <1>5, <1>6, <1>8, <2>1, <3>1
  <2>2. CASE i \notin waiting(S)
    <3>1. Weight(i) = 1 BY <1>3, <2>2, WeightIs
    <3> QED BY <1>1, <1>5, <1>6, <1>8, <2>2, <3>1
  <2> QED BY <2>1, <2>2
<1> QED BY <1>1, <1>7, <1>9

LEMMA LoadWith ==
  ASSUME NEW S, IsFiniteSet(S), NEW e
  PROVE  /\ IsFiniteSet(S \cup {e})
         /\ Load(S) \in Nat /\ Load(S \cup {e}) \in Nat
         /\ Load(S \cup {e}) <= Load(S) + Weight(e)
<1>1. IsFiniteSet(S \cup {e}) BY FS_AddElement
<1>2. Load(S) \in Nat /\ Load(S \cup {e}) \in Nat BY <1>1, LoadOfFewer
<1>3. CASE e \in S
  <2>1. S \cup {e} = S BY <1>3
  <2>2. Load(S \cup {e}) = Load(S) BY <2>1, Zenon
  <2> QED BY <1>1, <1>2, <2>2, WeightIs
<1>4. CASE e \notin S
  <2> DEFINE more == S \cup {e}
  <2>1. e \in more /\ more \ {e} = S BY <1>4
  <2> HIDE DEF more
  <2>2. Load(more \ {e}) = Load(more) - Weight(e) BY <1>1, <2>1, LoadWithout DEF more
  <2>3. Load(more \ {e}) = Load(S) BY <2>1, Zenon
  <2> QED BY <1>1, <1>2, <2>2, <2>3, WeightIs DEF more
<1> QED BY <1>3, <1>4

(* What a step may do to the tasks.                                        *)
Settled == IsFiniteSet(work) /\ IsFiniteSet(work')

LEMMA TaskDone ==
  ASSUME IsFiniteSet(work), NEW i \in work, NEW e,
         \/ work' = work \ {i}
         \/ /\ work' \subseteq (work \ {i}) \cup {e}
            /\ i.call = Unanswered /\ e.call # Unanswered
  PROVE  Settled /\ Load(work') \in Nat /\ Load(work') < Load(work)
<1>1. /\ IsFiniteSet(work \ {i})
      /\ Load(work) \in Nat /\ Load(work \ {i}) \in Nat
      /\ Load(work \ {i}) = Load(work) - Weight(i)
  BY LoadWithout
<1>2. CASE work' = work \ {i}
  <2>1. Load(work') = Load(work \ {i}) BY <1>2, Zenon
  <2> QED BY <1>1, <1>2, <2>1, WeightIs DEF Settled
<1>3. CASE /\ work' \subseteq (work \ {i}) \cup {e}
           /\ i.call = Unanswered /\ e.call # Unanswered
  <2> DEFINE more == (work \ {i}) \cup {e}
  <2>1. /\ IsFiniteSet(more) /\ Load(more) \in Nat
        /\ Load(more) <= Load(work \ {i}) + 1
    BY <1>1, <1>3, LoadWith, WeightIs
  <2>2. IsFiniteSet(work') /\ Load(work') \in Nat /\ Load(work') <= Load(more)
    BY <1>3, <2>1, LoadOfFewer
  <2> HIDE DEF more
  <2> QED BY <1>1, <1>3, <2>1, <2>2, WeightIs DEF Settled
<1> QED BY <1>2, <1>3

(* A transaction adds at most three tasks that are chosen or one that is   *)
(* not.                                                                    *)
LEMMA TaskAnnounced ==
  ASSUME IsFiniteSet(work), NEW e, work' \subseteq work \cup {e}
  PROVE  Settled /\ Load(work) \in Nat /\ Load(work') \in Nat /\ Load(work') <= Load(work) + 2
<1> DEFINE more == work \cup {e}
<1>1. /\ IsFiniteSet(more) /\ Load(work) \in Nat /\ Load(more) \in Nat
      /\ Load(more) <= Load(work) + Weight(e)
  BY LoadWith
<1>2. IsFiniteSet(work') /\ Load(work') \in Nat /\ Load(work') <= Load(more)
  BY <1>1, LoadOfFewer
<1> HIDE DEF more
<1> QED BY <1>1, <1>2, WeightIs DEF Settled

LEMMA ReviewsAsked ==
  ASSUME IsFiniteSet(work), NEW f \in Flows, Initiate(f)
  PROVE  Settled /\ Load(work) \in Nat /\ Load(work') \in Nat /\ Load(work') <= Load(work) + 3
<1> DEFINE task(c) == [oracle |-> "initiate", event |-> "initiateOnboarding", of |-> f,
                       call |-> c]
           a == task("requestAMLReview")
           b == task("requestCreditReview")
           c == task("requestLegalReview")
           w1 == work \cup {a}
           w2 == w1 \cup {b}
<1>1. work' = w2 \cup {c} BY DEF Initiate
<1>2. a.call # Unanswered /\ b.call # Unanswered /\ c.call # Unanswered BY DEF Unanswered
<1> HIDE DEF a, b, c
<1>3. IsFiniteSet(w1) /\ Load(work) \in Nat /\ Load(w1) \in Nat /\ Load(w1) <= Load(work) + 1
  BY <1>2, LoadWith, WeightIs
<1> HIDE DEF w1
<1>4. IsFiniteSet(w2) /\ Load(w2) \in Nat /\ Load(w2) <= Load(w1) + 1
  BY <1>2, <1>3, LoadWith, WeightIs
<1> HIDE DEF w2
<1>5. IsFiniteSet(work') /\ Load(work') \in Nat /\ Load(work') <= Load(w2) + 1
  BY <1>1, <1>2, <1>4, LoadWith, WeightIs
<1> QED BY <1>3, <1>4, <1>5 DEF Settled

LEMMA CallAnnounces ==
  ASSUME Typed, NEW i \in work, Call(i)
  PROVE  \E e : work' \subseteq work \cup {e}
<1>1. CASE OpenReview(i) BY <1>1 DEF OpenReview, Emit
<1>2. CASE AMLCall(i) BY <1>2 DEF AMLCall, Emit
<1>3. CASE CreditCall(i) BY <1>3 DEF CreditCall, Emit
<1>4. CASE LegalCall(i) BY <1>4 DEF LegalCall, Emit
<1>5. CASE SetupCall(i) BY <1>5 DEF SetupCall, Emit
<1> QED BY <1>1, <1>2, <1>3, <1>4, <1>5 DEF Call

LEMMA HumanAnnounces ==
  ASSUME HumanStep
  PROVE  \E e : work' \subseteq work \cup {e}
BY DEF HumanStep, Approve, Refuse, Emit

(* The calls a server may answer are chosen.                               *)
LEMMA HandleChooses ==
  ASSUME Typed, NEW i \in work, Handle(i)
  PROVE  /\ i.call = Unanswered
         /\ \/ work' = work \ {i}
            \/ \E e : work' \subseteq (work \ {i}) \cup {e} /\ e.call # Unanswered
<1>1. ASSUME NEW calls, Answered(i, calls), Unanswered \notin calls
      PROVE  /\ i.call = Unanswered
             /\ \E e : work' \subseteq (work \ {i}) \cup {e} /\ e.call # Unanswered
  <2>1. PICK c \in calls : work' = (work \ {i}) \cup {[i EXCEPT !.call = c]}
    BY <1>1 DEF Answered
  <2>2. i \in Tasks BY DEF Typed
  <2>3. [i EXCEPT !.call = c].call = c BY <2>2, AnswerFields
  <2> QED BY <1>1, <2>1, <2>3 DEF Answered
<1> QED
  BY <1>1 DEF Handle, Unanswered,
     AMLHandleReviewRequested, AMLHandleDataFulfilled, ScreenClient, ContinueScreening,
     CreditHandleReviewRequested, CreditHandleDataFulfilled, CreditHandleCounterProposed,
     AssessCredit, ContinueAssessment,
     LegalHandleReviewRequested, LegalHandleMarkupSubmitted, HandleDraftIssued,
     IssueInitialDraft, ReviewMarkupAndRespond, ReviewDraft,
     HandleDataRequested, AssembleDocuments, HandleTermsProposed, EvaluateTerms,
     HandlePhaseCompleted, NextSetupCall

EffortSpent == Effort' <= Effort /\ (UNCHANGED <<up, faults>> => Effort' < Effort)

LEMMA InvBoundsRanks == IInv => RanksBounded
BY RanksAreBounded DEF IInv

(* A transaction pays for the tasks it announces.                          *)
LEMMA TransactionPays ==
  ASSUME FinitelyMany, IInv, Transacts, IsFiniteSet(work), Settled,
         Load(work) \in Nat, Load(work') \in Nat, Load(work') <= Load(work) + 3
  PROVE  EffortSpent
<1>1. NoneRises /\ OneFalls BY TransactionSpends DEF Spends
<1>2. RanksBounded /\ RanksBounded'
  <2>1. IInv' BY TransactsIsNext, NextIInv
  <2>2. IInv' => RanksBounded' BY InvBoundsRanks, PTL
  <2> QED BY <2>1, <2>2, InvBoundsRanks
<1>3. Budget \in Nat /\ Budget' \in Nat /\ Budget' < Budget BY <1>1, <1>2, BudgetStep
<1> QED BY <1>3 DEF Effort, EffortSpent, Load

(* A step that leaves the contracts alone leaves the budget alone.         *)
LEMMA SameBudget ==
  ASSUME FinitelyMany, IInv, UNCHANGED vars
  PROVE  Budget \in Nat /\ Budget' = Budget
<1>1. Budget \in 0..FullBudget BY InvBoundsRanks, BudgetBounded
<1>2. AMLRanks' = AMLRanks /\ CreditRanks' = CreditRanks /\ LegalRanks' = LegalRanks
  BY DEF AMLRanks, CreditRanks, LegalRanks, vars, legalVars
<1>3. FlowRanks' = FlowRanks
  BY DEF FlowRanks, FlowRank, SetupDone, vars, registryVars
<1>4. Budget' = Budget BY <1>2, <1>3 DEF Budget
<1> QED BY <1>1, <1>4

LEMMA EffortStep ==
  ASSUME FinitelyMany
  PROVE  IInv /\ Typed /\ IsFiniteSet(work) /\ [BridgedNext]_bvars
           => [EffortSpent]_bvars /\ IsFiniteSet(work')
<1> SUFFICES ASSUME IInv, Typed, IsFiniteSet(work), [BridgedNext]_bvars
             PROVE  (EffortSpent \/ UNCHANGED bvars) /\ IsFiniteSet(work')
  OBVIOUS
<1>1. ASSUME NEW f \in Flows, Initiate(f) PROVE EffortSpent /\ IsFiniteSet(work')
  BY <1>1, InitiateAllowed, ReviewsAsked, TransactionPays DEF Settled
<1>2. ASSUME NEW i \in work, Call(i) PROVE EffortSpent /\ IsFiniteSet(work')
  <2>1. PICK e : work' \subseteq work \cup {e} BY <1>2, CallAnnounces
  <2>2. /\ Settled /\ Load(work) \in Nat /\ Load(work') \in Nat
        /\ Load(work') <= Load(work) + 2
    BY <2>1, TaskAnnounced
  <2> QED BY <1>2, <2>2, CallAllowed, TransactionPays DEF Settled
<1>3. ASSUME HumanStep PROVE EffortSpent /\ IsFiniteSet(work')
  <2>1. PICK e : work' \subseteq work \cup {e} BY <1>3, HumanAnnounces
  <2>2. /\ Settled /\ Load(work) \in Nat /\ Load(work') \in Nat
        /\ Load(work') <= Load(work) + 2
    BY <2>1, TaskAnnounced
  <2> QED BY <1>3, <2>2, HumanStepAllowed, TransactionPays DEF Settled
<1>4. ASSUME NEW i \in work, Handle(i) \/ Revert(i) \/ Drop(i)
      PROVE  EffortSpent /\ IsFiniteSet(work')
  <2>1. UNCHANGED vars BY <1>4 DEF Handle, Revert, Drop
  <2>2. IsFiniteSet(work') /\ Load(work') \in Nat /\ Load(work') < Load(work)
    <3>1. CASE Handle(i) BY <3>1, HandleChooses, TaskDone DEF Settled
    <3>2. CASE Revert(i) \/ Drop(i) BY <3>2, TaskDone DEF Revert, Drop, Settled
    <3> QED BY <1>4, <3>1, <3>2
  <2>3. Load(work) \in Nat BY LoadOfFewer
  <2> QED BY <2>1, <2>2, <2>3, SameBudget DEF Effort, EffortSpent
<1>5. ASSUME NEW b \in Bridges, Crash(b) \/ Restart(b)
      PROVE  EffortSpent /\ IsFiniteSet(work')
  <2>1. UNCHANGED vars /\ work' \in SUBSET work BY <1>5 DEF Crash, Restart
  <2>2. ~UNCHANGED up BY <1>5 DEF Crash, Restart
  <2>3. IsFiniteSet(work') /\ Load(work') \in Nat /\ Load(work) \in Nat
        /\ Load(work') <= Load(work)
    BY <2>1, LoadOfFewer
  <2> QED BY <2>1, <2>2, <2>3, SameBudget DEF Effort, EffortSpent
<1>6. CASE UNCHANGED bvars BY <1>6 DEF bvars, bridgeVars
<1> QED BY <1>1, <1>2, <1>3, <1>4, <1>5, <1>6 DEF BridgedNext, BridgeStep

(* Without further faults and restarts, whatever the models answer and the *)
(* humans decide, every step leaves less to do, so the bridges come to a   *)
(* stop; a fault or a restart makes no new work.                           *)
THEOREM EffortTheorem ==
  ASSUME FinitelyMany
  PROVE  BridgedSpec => [](Effort \in Nat) /\ [][EffortSpent]_bvars
<1> DEFINE Inv == IInv /\ Driven /\ IsFiniteSet(work)
<1>1. BridgesInit => Inv
  BY InitIInv, InitDriven, FS_EmptySet DEF BridgesInit
<1>2. Inv /\ [BridgedNext]_bvars => Inv' /\ [EffortSpent]_bvars
  <2>1. Driven => Typed BY DEF Driven
  <2>2. IInv => TypeOK /\ Linked BY DEF IInv
  <2> QED BY <2>1, <2>2, BridgedNextAllowed, BridgedNextDriven, NextIInv, EffortStep
<1>3. Inv => Effort \in Nat
  <2> SUFFICES ASSUME Inv PROVE Effort \in Nat
    OBVIOUS
  <2>1. Budget \in Nat
    <3>1. Budget \in 0..FullBudget BY InvBoundsRanks, BudgetBounded
    <3> QED BY <3>1
  <2>2. Load(work) \in Nat BY LoadOfFewer
  <2> QED BY <2>1, <2>2 DEF Effort
<1> QED BY <1>1, <1>2, <1>3, PTL DEF BridgedSpec
=============================================================================
