---------------------------- MODULE Permissions ----------------------------
(***************************************************************************)
(* What an agent may do: the registry of institutions, the permits and the *)
(* flow authorisations that rest on it, called by owners, minters, flow    *)
(* initiators and approvers in any order.  A step is one accepted          *)
(* transaction.                                                            *)
(***************************************************************************)
EXTENDS ActionPermitRegistry, FlowAuthorizationRegistry

vars == <<participantVars, permitVars, flowVars>>

TypeOK == ParticipantTypeOK /\ PermitTypeOK /\ FlowTypeOK

Init == ParticipantInit /\ PermitInit /\ FlowInit

Next ==
  \/ ParticipantNext /\ UNCHANGED <<permitVars, flowVars>>
  \/ PermitNext /\ UNCHANGED <<participantVars, flowVars>>
  \/ FlowNext /\ UNCHANGED <<participantVars, permitVars>>

Spec == Init /\ [][Next]_vars

-----------------------------------------------------------------------------
\* An approved Tier 2 permit rests on as many different accounts as it asks for,
\* who approved since it was granted: approvals of a permit that was revoked do not
\* count for the one granted after it (approveAction, revokePermit, grantPermit).
FreshSignatures ==
  \A k \in Keys :
    Exists(k) /\ permits[k].tier = 2 /\ permits[k].approved =>
      Cardinality(signed[k]) >= permits[k].requiredApprovals

\* While the gate is set nobody approves but accounts an active institution lists at
\* that moment, however accounts were listed, moved and removed, and institutions
\* deactivated and registered again.
SignaturesCredentialed == unlisted = {}

\* After a revocation no sequence of approvals, new patterns or role changes makes
\* the action valid again under a Tier 1 or 2 pattern: that takes a new grant.
RevokedStaysRefused ==
  \A k \in revoked : pattern[k[3]] \in {1, 2, 3} => ~ValidateAction(k)

\* With both registries set, no account consents for an agent whose institution is
\* on record unless that institution lists it as a minter then, however minters were
\* moved between institutions and agents minted and transferred
\* (authorizeAgentForFlow).
ConsentIsOwn == foreign = {}

-----------------------------------------------------------------------------
(* The inductive invariant behind the theorems.                            *)

\* approvalCount is the number of accounts that signed, all of them on record.
CountsSigned ==
  \A k \in Keys :
    /\ signed[k] \subseteq voted[k]
    /\ Exists(k) => permits[k].approvalCount = Cardinality(signed[k])

RevokedGone == \A k \in revoked : ~Exists(k)

IInv ==
  /\ TypeOK
  /\ LookupsBacked
  /\ CountsSigned
  /\ FreshSignatures
  /\ SignaturesCredentialed
  /\ RevokedGone
  /\ ConsentIsOwn
=============================================================================
