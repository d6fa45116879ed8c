-------------------------- MODULE OnboardingSystem --------------------------
(***************************************************************************)
(* The onboarding contracts together.  A step is one transaction: it runs  *)
(* to its end or reverts, and the transactions of the bank's agents, the   *)
(* client's agents, the human approvers and the contracts' owners          *)
(* interleave in every order.  Three review oracles write the same flow    *)
(* record; any of them can end the flow under the other two.               *)
(***************************************************************************)
EXTENDS CreditRiskOracle, LegalOracle, ClientSetupOracle

vars == <<registryVars, identityVars, aml, credit, legalVars>>

TypeOK ==
  /\ RegistryTypeOK
  /\ IdentityTypeOK
  /\ AMLTypeOK
  /\ CreditTypeOK
  /\ LegalTypeOK

Init ==
  /\ RegistryInit
  /\ IdentityInit
  /\ AMLInit
  /\ CreditInit
  /\ LegalInit

Next ==
  \/ RegistryNext /\ UNCHANGED <<identityVars, aml, credit, legalVars>>
  \/ IdentityNext /\ UNCHANGED <<registryVars, aml, credit, legalVars>>
  \/ AMLNext /\ UNCHANGED <<identityVars, credit, legalVars>>
  \/ CreditNext /\ UNCHANGED <<identityVars, aml, legalVars>>
  \/ LegalNext /\ UNCHANGED <<identityVars, aml, credit>>
  \/ SetupNext /\ UNCHANGED <<identityVars, aml, credit, legalVars>>

Spec == Init /\ [][Next]_vars

-----------------------------------------------------------------------------
(* The decisions recorded in the oracles, against the flow record.         *)

Teams == {"aml", "credit", "legal"}

PhaseOf == [aml |-> "AML_CLEARED", credit |-> "CREDIT_APPROVED",
            legal |-> "LEGAL_EXECUTED"]

AMLDecided(f, s) == \E r \in AMLRequests : aml[r].flow = f /\ aml[r].status = s
CreditDecided(f, s) ==
  \E r \in CreditRequests : credit[r].flow = f /\ credit[r].status = s
LegalDecided(f, s) ==
  \E r \in LegalRequests : legal[r].flow = f /\ legal[r].status = s

Passed(f) ==
  {t \in Teams : \/ t = "aml" /\ AMLDecided(f, "Cleared")
                 \/ t = "credit" /\ CreditDecided(f, "Approved")
                 \/ t = "legal" /\ LegalDecided(f, "Executed")}

Failed(f) ==
  {t \in Teams : \/ t = "aml" /\ AMLDecided(f, "Rejected")
                 \/ t = "credit" /\ CreditDecided(f, "Rejected")
                 \/ t = "legal" /\ LegalDecided(f, "Rejected")}

AMLRejections(f) == {r \in AMLRequests : aml[r].flow = f /\ aml[r].status = "Rejected"}
CreditRejections(f) ==
  {r \in CreditRequests : credit[r].flow = f /\ credit[r].status = "Rejected"}
LegalRejections(f) ==
  {r \in LegalRequests : legal[r].flow = f /\ legal[r].status = "Rejected"}

RejectedRequests(f) ==
  ({"aml"} \X AMLRejections(f)) \cup ({"credit"} \X CreditRejections(f))
    \cup ({"legal"} \X LegalRejections(f))

(* A review bit is on exactly when some request of that team on that flow  *)
(* was decided in favour: the oracle's own record and the registry's never *)
(* disagree, whatever other oracles did to the flow in between.            *)
PhasesBacked ==
  \A f \in Flows, t \in Teams : PhaseOf[t] \in flows[f].phases <=> t \in Passed(f)

(* A flow is terminated exactly when a request on it was rejected: no      *)
(* rejection is lost and no flow ends without one (design/onboarding.flow.md, *)
(* "any rejected sub-flow calls OnboardingRegistry.terminate").            *)
TerminatedByRejection ==
  \A f \in Flows : flows[f].terminated <=> Failed(f) # {}

(* However many requests of the three teams are under human review at the  *)
(* same time, at most one rejection takes effect on a flow: the reject     *)
(* that comes second finds the flow inactive and reverts.                  *)
OneRejection ==
  \A f \in Flows : \A x, y \in RejectedRequests(f) : x = y

(* Set-up never runs ahead of the reviews, nor out of its own order, so    *)
(* ReadyToTransact is announced exactly for flows with all six phases,     *)
(* each team's decision among them.                                        *)
ReadyOnlyWhenDecided ==
  \A f \in Flows :
    /\ flows[f].phases \cap SetupPhases # {} => Passed(f) = Teams
    /\ "ACCOUNT_SETUP_DONE" \in flows[f].phases => "ENTITY_SETUP_DONE" \in flows[f].phases
    /\ "PRODUCT_SETUP_DONE" \in flows[f].phases => "ACCOUNT_SETUP_DONE" \in flows[f].phases
    /\ ready[f] > 0 <=> flows[f].phases = AllPhases

(* A request that is open on a live flow can always be taken further, with *)
(* no team refusing it, as long as its agents are in place: by the bank's  *)
(* recommendation or the client's answer, also when the uint8 round        *)
(* counters are exhausted and another round would revert; and by a human,  *)
(* or by the execution once both sides have signed.                        *)
AgentsInPlace(bank, client, oracle) ==
  /\ {bank, client} \subseteq wallet \ staleCard
  /\ boundTo[bank] = oracle
  /\ oracle \in oracles

NoRequestStuck ==
  /\ \A r \in AMLRequests :
       /\ AMLActive(r) /\ aml[r].status \notin {"Cleared", "Rejected"}
       /\ AgentsInPlace(aml[r].bankAgent, aml[r].clientAgent, "aml")
       => AMLMayRecommend(r) \/ \E caller \in Accounts : AMLMayClear(r, caller)
  /\ \A r \in CreditRequests :
       /\ CreditActive(r) /\ credit[r].status \notin {"Approved", "Rejected"}
       /\ AgentsInPlace(credit[r].bankAgent, credit[r].clientAgent, "credit")
       => \/ CreditMayRecommend(r) \/ MayCounter(r)
          \/ \E caller \in Accounts : CreditMayApprove(r, caller)
  /\ \A r \in LegalRequests :
       /\ LegalActive(r) /\ legal[r].status \notin {"Executed", "Rejected"}
       /\ AgentsInPlace(legal[r].bankAgent, legal[r].clientAgent, "legal")
       => \/ LegalMayRecommend(r) \/ MaySubmitMarkup(r) \/ MayExecute(r)
          \/ \E caller \in Accounts :
               MayApproveBankSide(r, caller) \/ MayApproveClientSide(r, caller)

-----------------------------------------------------------------------------
(* What a step may never do.                                               *)

(* TERMINATED is absorbing for the whole flow: once one team rejects,      *)
(* nothing of the flow changes any more, neither its record nor any        *)
(* request on it, in whatever state the rejection caught that request.     *)
TerminatedFlowFrozen ==
  [][\A f \in Flows : flows[f].terminated =>
       /\ flows'[f] = flows[f]
       /\ ready'[f] = ready[f]
       /\ \A r \in AMLRequests : aml[r].flow = f => aml'[r] = aml[r]
       /\ \A r \in CreditRequests : credit[r].flow = f => credit'[r] = credit[r]
       /\ \A r \in LegalRequests : legal[r].flow = f =>
            legal'[r] = legal[r] /\ versions'[r] = versions[r]]_vars

(* No text changes hands once a human has signed: from the first approval  *)
(* of either side on, neither the version on the table nor the trail of    *)
(* drafts changes, and no approval is withdrawn.                           *)
SignedTextFixed ==
  [][\A r \in LegalRequests : legal[r].bankApproved \/ legal[r].clientApproved =>
       /\ legal'[r].latest = legal[r].latest
       /\ versions'[r] = versions[r]
       /\ legal[r].bankApproved => legal'[r].bankApproved
       /\ legal[r].clientApproved => legal'[r].clientApproved]_vars

-----------------------------------------------------------------------------
(* The data, negotiation and drafting loops cannot go on for ever on a     *)
(* request: every round spends a checked uint8 increment, so all           *)
(* transactions run out, without any fairness.                             *)
RoundsRunOut == <>[][FALSE]_vars

-----------------------------------------------------------------------------
(* The inductive invariant behind the theorems.                            *)

(* An unused request id names no flow; a request that was opened names a   *)
(* flow that exists.                                                       *)
AMLLinked == \A r \in AMLRequests : aml[r].status # "None" <=> aml[r].flow # NoFlow
CreditLinked ==
  \A r \in CreditRequests : credit[r].status # "None" <=> credit[r].flow # NoFlow
LegalLinked ==
  \A r \in LegalRequests : legal[r].status # "None" <=> legal[r].flow # NoFlow
Linked == AMLLinked /\ CreditLinked /\ LegalLinked

(* A flow that was not opened has an empty record and no request on it.    *)
Fresh ==
  \A f \in Flows : ~flows[f].created =>
    /\ flows[f] = NoRecord
    /\ ready[f] = 0
    /\ \A r \in AMLRequests : aml[r].flow # f
    /\ \A r \in CreditRequests : credit[r].flow # f
    /\ \A r \in LegalRequests : legal[r].flow # f

IInv ==
  /\ TypeOK
  /\ Linked
  /\ Fresh
  /\ PhasesBacked
  /\ TerminatedByRejection
  /\ OneRejection
  /\ ReadyOnlyWhenDecided

-----------------------------------------------------------------------------
(* The refinement of OnboardingFlow.                                       *)

SetupDone(f) ==
  IF "PRODUCT_SETUP_DONE" \in flows[f].phases THEN 3
  ELSE IF "ACCOUNT_SETUP_DONE" \in flows[f].phases THEN 2
  ELSE IF "ENTITY_SETUP_DONE" \in flows[f].phases THEN 1
  ELSE 0

Abstract == INSTANCE OnboardingFlow WITH
  opened <- {f \in Flows : flows[f].created},
  passed <- [f \in Flows |-> Passed(f)],
  failed <- [f \in Flows |-> Failed(f)],
  setup  <- [f \in Flows |-> SetupDone(f)]

(* Seen through its decisions, the system of five contracts does what      *)
(* OnboardingFlow promises.                                                *)
RefinesOnboardingFlow == Abstract!Spec
=============================================================================
