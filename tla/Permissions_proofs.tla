------------------------- MODULE Permissions_proofs -------------------------
(***************************************************************************)
(* Proofs about Permissions for any institutions, accounts, flows, agents, *)
(* actions and capabilities.                                               *)
(***************************************************************************)
EXTENDS Permissions, TLAPS, FiniteSetTheorems

-----------------------------------------------------------------------------
(* The registry of institutions.                                           *)

LEMMA AddAllBacked ==
  ASSUME ParticipantTypeOK, LookupsBacked,
         NEW p \in Participants, NEW grants \in SUBSET (Roles \X Accounts), AddAll(p, grants)
  PROVE  /\ listed' \subseteq Roles \X Participants \X Accounts
         /\ standsFor' \in [Roles \X Accounts -> Participants \cup {NoParticipant}]
         /\ shared' \subseteq Roles \X Accounts
         /\ LookupsBacked'
<1>1. listed' \subseteq Roles \X Participants \X Accounts
  BY DEF AddAll, ParticipantTypeOK
<1>2. standsFor' \in [Roles \X Accounts -> Participants \cup {NoParticipant}]
  BY DEF AddAll, ParticipantTypeOK
<1>3. ASSUME NEW r \in Roles, NEW a \in Accounts, standsFor'[<<r, a>>] # NoParticipant
      PROVE  <<r, standsFor'[<<r, a>>], a>> \in listed'
  <2>1. CASE <<r, a>> \in grants
    <3>1. standsFor'[<<r, a>>] = p
      BY <2>1 DEF AddAll
    <3>2. <<r, p, a>> \in {<<g[1], p, g[2]>> : g \in grants}
      BY <2>1
    <3> QED
      BY <3>1, <3>2 DEF AddAll
  <2>2. CASE <<r, a>> \notin grants
    <3>1. standsFor'[<<r, a>>] = standsFor[<<r, a>>]
      BY <2>2 DEF AddAll
    <3> QED
      BY <1>3, <3>1 DEF AddAll, LookupsBacked
  <2> QED
    BY <2>1, <2>2
<1>4. ASSUME NEW r \in Roles, NEW q \in Participants, NEW a \in Accounts,
             <<r, q, a>> \in listed', <<r, a>> \notin shared'
      PROVE  standsFor'[<<r, a>>] = q
  <2>1. CASE <<r, a>> \in grants
    <3>1. standsFor'[<<r, a>>] = p
      BY <2>1 DEF AddAll
    <3>2. q # p => <<r, q, a>> \in listed
      BY <1>4 DEF AddAll
    <3>3. q # p => <<r, a>> \in shared'
      BY <2>1, <3>2 DEF AddAll
    <3> QED
      BY <1>4, <3>1, <3>3
  <2>2. CASE <<r, a>> \notin grants
    <3>1. <<r, q, a>> \in listed
      BY <1>4, <2>2 DEF AddAll
    <3>2. standsFor[<<r, a>>] = q
      BY <1>4, <3>1 DEF AddAll, LookupsBacked
    <3> QED
      BY <2>2, <3>2 DEF AddAll
  <2> QED
    BY <2>1, <2>2
<1>5. ASSUME NEW a \in Accounts
      PROVE  <<"minter", a>> \notin shared'
  <2>1. ASSUME <<"minter", a>> \in grants, NEW q \in Participants,
               <<"minter", q, a>> \in listed
        PROVE  FALSE
    <3>1. standsFor[<<"minter", a>>] = NoParticipant
      BY <2>1 DEF AddAll, MayAdd
    <3>2. standsFor[<<"minter", a>>] = q
      BY <2>1 DEF LookupsBacked, Roles
    <3> QED
      BY <3>1, <3>2, NoParticipantAssumption
  <2> QED
    BY <2>1 DEF AddAll, LookupsBacked
<1>6. shared' \subseteq Roles \X Accounts
  BY DEF AddAll, ParticipantTypeOK
<1> QED
  BY <1>1, <1>2, <1>3, <1>4, <1>5, <1>6 DEF LookupsBacked

LEMMA RemoveRoleBacked ==
  ASSUME ParticipantTypeOK, LookupsBacked,
         NEW r \in Roles, NEW p \in Participants, NEW a \in Accounts, RemoveRole(r, p, a)
  PROVE  ParticipantTypeOK' /\ LookupsBacked'
<1>1. ParticipantTypeOK'
  BY DEF RemoveRole, ParticipantTypeOK
<1>2. ASSUME NEW s \in Roles, NEW b \in Accounts, standsFor'[<<s, b>>] # NoParticipant
      PROVE  <<s, standsFor'[<<s, b>>], b>> \in listed'
  <2>1. <<s, b>> # <<r, a>> /\ standsFor'[<<s, b>>] = standsFor[<<s, b>>]
    BY <1>2 DEF RemoveRole, ParticipantTypeOK
  <2> QED
    BY <1>2, <2>1 DEF RemoveRole, LookupsBacked
<1>3. ASSUME NEW s \in Roles, NEW q \in Participants, NEW b \in Accounts,
             <<s, q, b>> \in listed', <<s, b>> \notin shared'
      PROVE  standsFor'[<<s, b>>] = q
  <2>1. /\ <<s, q, b>> \in listed /\ <<s, q, b>> # <<r, p, a>>
        /\ <<s, b>> \notin shared
    BY <1>3 DEF RemoveRole
  <2>2. standsFor[<<s, b>>] = q
    BY <2>1 DEF LookupsBacked
  <2>3. <<s, b>> # <<r, a>>
    BY <2>1, <2>2 DEF RemoveRole, LookupsBacked
  <2> QED
    BY <2>2, <2>3 DEF RemoveRole, ParticipantTypeOK
<1>4. \A b \in Accounts : <<"minter", b>> \notin shared'
  BY DEF RemoveRole, LookupsBacked
<1> QED
  BY <1>1, <1>2, <1>3, <1>4 DEF LookupsBacked

LEMMA ParticipantStep ==
  ASSUME ParticipantTypeOK, LookupsBacked, ParticipantNext
  PROVE  ParticipantTypeOK' /\ LookupsBacked'
<1>1. ASSUME NEW r \in Registrations, RegisterParticipant(r[1], r[2])
      PROVE  ParticipantTypeOK' /\ LookupsBacked'
  <2>1. r[1] \in Participants /\ r[2] \in SUBSET (Roles \X Accounts)
    BY OwnerInputsAssumption
  <2> QED
    BY <1>1, <2>1, AddAllBacked DEF RegisterParticipant, ParticipantTypeOK
<1>2. ASSUME NEW p \in Participants, DeactivateParticipant(p)
      PROVE  ParticipantTypeOK' /\ LookupsBacked'
  BY <1>2 DEF DeactivateParticipant, ParticipantTypeOK, LookupsBacked
<1>3. ASSUME NEW l \in Listings, AddRole(l[1], l[2], l[3])
      PROVE  ParticipantTypeOK' /\ LookupsBacked'
  <2>1. l[2] \in Participants /\ {<<l[1], l[3]>>} \in SUBSET (Roles \X Accounts)
    BY OwnerInputsAssumption
  <2> QED
    BY <1>3, <2>1, AddAllBacked DEF AddRole, ParticipantTypeOK
<1>4. ASSUME NEW l \in listed, RemoveRole(l[1], l[2], l[3])
      PROVE  ParticipantTypeOK' /\ LookupsBacked'
  <2>1. l[1] \in Roles /\ l[2] \in Participants /\ l[3] \in Accounts
    BY DEF ParticipantTypeOK
  <2> QED
    BY <1>4, <2>1, RemoveRoleBacked
<1> QED
  BY <1>1, <1>2, <1>3, <1>4 DEF ParticipantNext

(* Who passes the gate is listed by an active institution.                 *)
LEMMA RoleIsCredential ==
  ASSUME ParticipantTypeOK, NEW a \in Accounts,
         HasRole("approver", a) \/ HasRole("senior", a)
  PROVE  Credentialed(a)
BY DEF HasRole, Credentialed, ParticipantTypeOK, Roles

-----------------------------------------------------------------------------
(* The permits.                                                            *)
PermitInv ==
  PermitTypeOK /\ CountsSigned /\ FreshSignatures /\ SignaturesCredentialed /\ RevokedGone

LEMMA PermitUnchanged ==
  ASSUME PermitInv, UNCHANGED permitVars
  PROVE  PermitInv'
BY DEF PermitInv, PermitTypeOK, CountsSigned, FreshSignatures, SignaturesCredentialed,
       RevokedGone, Exists, permitVars

LEMMA NoPermitIsNone == NoPermit \notin Permit
BY DEF NoPermit, Permit

LEMMA GrantPermitKeeps ==
  ASSUME PermitInv, NEW x \in Accounts, NEW k \in Keys, NEW g \in Grants,
         GrantPermit(x, k, g[1], g[2])
  PROVE  PermitInv'
<1> DEFINE new == [tier |-> g[1], approved |-> g[1] < 2 \/ g[2] = 0,
                   approvalCount |-> 0, requiredApprovals |-> g[2]]
<1>1. g[1] \in 0..2 /\ g[2] \in Nat
  BY PermitInputsAssumption
<1>2. new \in Permit
  BY <1>1 DEF Permit
<1>3. /\ permits' = [permits EXCEPT ![k] = new]
      /\ signed' = [signed EXCEPT ![k] = {}]
      /\ initiator' = [initiator EXCEPT ![k[1]] = x]
      /\ revoked' = revoked \ {k}
      /\ UNCHANGED <<gated, pattern, voted, unlisted>>
  BY DEF GrantPermit
<1>4. k[1] \in Flows
  BY DEF Keys
<1>5. /\ permits' \in [Keys -> Permit \cup {NoPermit}]
      /\ initiator' \in [Flows -> Accounts \cup {NoAccount}]
      /\ signed' \in [Keys -> SUBSET Accounts]
  BY <1>2, <1>3 DEF PermitInv, PermitTypeOK
<1>6. \A j \in Keys : permits'[j] # NoPermit => initiator'[j[1]] # NoAccount
  BY <1>3, <1>4, OwnerAssumption DEF PermitInv, PermitTypeOK, Keys
<1>7. PermitTypeOK'
  BY <1>3, <1>5, <1>6 DEF PermitInv, PermitTypeOK
<1>8. ASSUME NEW j \in Keys
      PROVE  /\ signed'[j] \subseteq voted'[j]
             /\ Exists(j)' => permits'[j].approvalCount = Cardinality(signed'[j])
             /\ Exists(j)' /\ permits'[j].tier = 2 /\ permits'[j].approved =>
                  Cardinality(signed'[j]) >= permits'[j].requiredApprovals
  <2>1. CASE j = k
    <3>1. permits'[j] = new /\ signed'[j] = {}
      BY <1>3, <2>1 DEF PermitInv, PermitTypeOK
    <3>2. Cardinality({}) = 0
      BY FS_EmptySet
    <3>3. /\ new.approvalCount = 0 /\ new.tier = g[1] /\ new.requiredApprovals = g[2]
          /\ new.approved => g[1] < 2 \/ g[2] = 0
      OBVIOUS
    <3> HIDE DEF new
    <3> QED
      BY <1>1, <3>1, <3>2, <3>3
  <2>2. CASE j # k
    BY <1>3, <2>2 DEF PermitInv, PermitTypeOK, CountsSigned, FreshSignatures, Exists
  <2> QED
    BY <2>1, <2>2
<1>9. RevokedGone'
  BY <1>3 DEF PermitInv, RevokedGone, PermitTypeOK, Exists
<1> QED
  BY <1>3, <1>7, <1>8, <1>9
  DEF PermitInv, CountsSigned, FreshSignatures, SignaturesCredentialed

LEMMA ApproveActionKeeps ==
  ASSUME PermitInv, ParticipantTypeOK, NEW x \in Accounts, NEW k \in Keys, ApproveAction(x, k)
  PROVE  PermitInv'
<1> DEFINE old == permits[k]
           new == WithApproval(old)
<1>1. old \in Permit
  BY DEF ApproveAction, Exists, PermitInv, PermitTypeOK
<1>2. /\ new \in Permit
      /\ new.approvalCount = old.approvalCount + 1
      /\ new.tier = old.tier /\ new.requiredApprovals = old.requiredApprovals
      /\ new.approved => old.approvalCount + 1 >= old.requiredApprovals
  <2> HIDE DEF old
  <2>1. /\ old.tier \in 0..2 /\ old.approvalCount \in Nat /\ old.requiredApprovals \in Nat
    BY <1>1 DEF Permit
  <2>2. new \in Permit
    BY <2>1 DEF Permit, WithApproval
  <2> QED
    BY <2>2 DEF WithApproval
<1>3. permits' = [permits EXCEPT ![k] = new]
  BY DEF ApproveAction
<1>4. /\ voted' = [voted EXCEPT ![k] = voted[k] \cup {x}]
      /\ signed' = [signed EXCEPT ![k] = signed[k] \cup {x}]
      /\ UNCHANGED <<gated, pattern, initiator, revoked>>
      /\ x \notin voted[k] /\ Exists(k)
  BY DEF ApproveAction
<1>5. unlisted' = unlisted
  BY RoleIsCredential DEF ApproveAction
<1>6. PermitTypeOK'
  <2>1. permits' \in [Keys -> Permit \cup {NoPermit}]
    BY <1>2, <1>3 DEF PermitInv, PermitTypeOK
  <2>2. voted' \in [Keys -> SUBSET Accounts] /\ signed' \in [Keys -> SUBSET Accounts]
    BY <1>4 DEF PermitInv, PermitTypeOK
  <2>3. \A j \in Keys : permits'[j] # NoPermit => initiator'[j[1]] # NoAccount
    BY <1>3, <1>4 DEF PermitInv, PermitTypeOK, Exists
  <2> QED
    BY <1>4, <1>5, <2>1, <2>2, <2>3 DEF PermitInv, PermitTypeOK
<1>7. x \notin signed[k] /\ signed[k] \in SUBSET Accounts /\ signed[k] \subseteq voted[k]
  BY <1>4 DEF PermitInv, CountsSigned, PermitTypeOK
<1>8. Cardinality(signed[k] \cup {x}) = Cardinality(signed[k]) + 1
  BY <1>7, AccountsFinite, FS_Subset, FS_AddElement
<1>9. old.approvalCount = Cardinality(signed[k])
  BY <1>4 DEF PermitInv, CountsSigned
<1>10. ASSUME NEW j \in Keys
       PROVE  /\ signed'[j] \subseteq voted'[j]
              /\ Exists(j)' => permits'[j].approvalCount = Cardinality(signed'[j])
              /\ Exists(j)' /\ permits'[j].tier = 2 /\ permits'[j].approved =>
                   Cardinality(signed'[j]) >= permits'[j].requiredApprovals
  <2>1. CASE j = k
    <3>1. permits'[j] = new /\ signed'[j] = signed[k] \cup {x} /\ voted'[j] = voted[k] \cup {x}
      BY <1>3, <1>4, <2>1 DEF PermitInv, PermitTypeOK
    <3>2. new.approvalCount = Cardinality(signed'[j])
      BY <1>2, <1>8, <1>9, <3>1
    <3>3. new.approved => new.approvalCount >= new.requiredApprovals
      BY <1>2
    <3> HIDE DEF new
    <3> QED
      BY <1>7, <3>1, <3>2, <3>3
  <2>2. CASE j # k
    <3>1. permits'[j] = permits[j] /\ signed'[j] = signed[j] /\ voted'[j] = voted[j]
      BY <1>3, <1>4, <2>2 DEF PermitInv, PermitTypeOK
    <3> QED
      BY <3>1 DEF PermitInv, CountsSigned, FreshSignatures, Exists
  <2> QED
    BY <2>1, <2>2
<1>11. RevokedGone'
  <2>1. k \notin revoked
    BY <1>4 DEF PermitInv, RevokedGone
  <2> QED
    BY <1>3, <1>4, <2>1 DEF PermitInv, RevokedGone, PermitTypeOK, Exists
<1> QED
  BY <1>5, <1>6, <1>10, <1>11
  DEF PermitInv, CountsSigned, FreshSignatures, SignaturesCredentialed

LEMMA RevokePermitKeeps ==
  ASSUME PermitInv, NEW x \in Accounts, NEW k \in Keys, RevokePermit(x, k)
  PROVE  PermitInv'
<1>1. /\ permits' = [permits EXCEPT ![k] = NoPermit]
      /\ revoked' = revoked \cup {k}
      /\ UNCHANGED <<gated, pattern, voted, initiator, signed, unlisted>>
  BY DEF RevokePermit
<1>2. permits' \in [Keys -> Permit \cup {NoPermit}]
  BY <1>1 DEF PermitInv, PermitTypeOK
<1>3. \A j \in Keys : Exists(j)' => Exists(j) /\ permits'[j] = permits[j]
  BY <1>1 DEF Exists, PermitInv, PermitTypeOK
<1>4. PermitTypeOK'
  BY <1>1, <1>2, <1>3 DEF PermitInv, PermitTypeOK, Exists
<1>5. CountsSigned' /\ FreshSignatures'
  BY <1>1, <1>3 DEF PermitInv, CountsSigned, FreshSignatures
<1>6. RevokedGone'
  BY <1>1, <1>3 DEF PermitInv, RevokedGone, PermitTypeOK, Exists
<1> QED
  BY <1>1, <1>4, <1>5, <1>6 DEF PermitInv, SignaturesCredentialed

LEMMA PermitStep ==
  ASSUME PermitInv, ParticipantTypeOK, PermitNext
  PROVE  PermitInv'
<1>1. CASE SetParticipantRegistry
  BY <1>1 DEF SetParticipantRegistry, PermitInv, PermitTypeOK, CountsSigned, FreshSignatures,
              SignaturesCredentialed, RevokedGone, Exists
<1>2. ASSUME NEW c \in Actions, NEW tier \in PatternTiers, RegisterPattern(c, tier)
      PROVE  PermitInv'
  <2>1. pattern' \in [Actions -> Tiers \cup {Unregistered}]
    BY <1>2, PermitInputsAssumption DEF RegisterPattern, PermitInv, PermitTypeOK
  <2> QED
    BY <1>2, <2>1 DEF RegisterPattern, PermitInv, PermitTypeOK, CountsSigned, FreshSignatures,
                      SignaturesCredentialed, RevokedGone, Exists
<1> QED
  BY <1>1, <1>2, GrantPermitKeeps, ApproveActionKeeps, RevokePermitKeeps DEF PermitNext

-----------------------------------------------------------------------------
(* Agents and flows.                                                       *)
LEMMA FlowStep ==
  ASSUME ParticipantTypeOK, LookupsBacked, FlowTypeOK, ConsentIsOwn, FlowNext
  PROVE  FlowTypeOK' /\ ConsentIsOwn'
<1>1. CASE SetMintGate
  BY <1>1 DEF SetMintGate, FlowTypeOK, ConsentIsOwn
<1>2. ASSUME NEW x \in Accounts, NEW a \in Agents, RegisterAgent(x, a)
      PROVE  FlowTypeOK' /\ ConsentIsOwn'
  <2>1. standsFor[<<"minter", x>>] \in Participants \cup {NoParticipant}
    BY DEF ParticipantTypeOK, Roles
  <2> QED
    BY <1>2, <2>1 DEF RegisterAgent, FlowTypeOK, ConsentIsOwn
<1>3. ASSUME NEW a \in Agents, TransferAgent(a)
      PROVE  FlowTypeOK' /\ ConsentIsOwn'
  BY <1>3 DEF TransferAgent, FlowTypeOK, ConsentIsOwn
<1>4. ASSUME NEW registries \in Wirings, SetGovernanceContracts(registries)
      PROVE  FlowTypeOK' /\ ConsentIsOwn'
  BY <1>4, WiringsAssumption DEF SetGovernanceContracts, FlowTypeOK, ConsentIsOwn
<1>5. ASSUME NEW f \in Flows, NEW policy \in Policies, CreateFlow(f, policy)
      PROVE  FlowTypeOK' /\ ConsentIsOwn'
  <2>1. policy \subseteq Agents \X Capabilities
    BY PoliciesAssumption
  <2>2. granted' \subseteq flows' \X Agents \X Capabilities
    BY <1>5, <2>1 DEF CreateFlow, FlowTypeOK
  <2> QED
    BY <1>5, <2>2 DEF CreateFlow, FlowTypeOK, ConsentIsOwn
<1>6. ASSUME NEW x \in Accounts, NEW f \in Flows, NEW a \in Agents,
             NEW caps \in SUBSET Capabilities, AuthorizeAgentForFlow(x, f, a, caps)
      PROVE  FlowTypeOK' /\ ConsentIsOwn'
  <2>1. ~Foreign(x, a)
    BY <1>6 DEF AuthorizeAgentForFlow, MayConsent, Foreign, LookupsBacked, Roles, Registries
  <2>2. granted' \subseteq flows' \X Agents \X Capabilities
    BY <1>6 DEF AuthorizeAgentForFlow, FlowTypeOK
  <2> QED
    BY <1>6, <2>1, <2>2 DEF AuthorizeAgentForFlow, FlowTypeOK, ConsentIsOwn
<1> QED
  BY <1>1, <1>2, <1>3, <1>4, <1>5, <1>6 DEF FlowNext

-----------------------------------------------------------------------------
LEMMA InitIInv == Init => IInv
<1> SUFFICES ASSUME Init PROVE IInv
  OBVIOUS
<1> USE DEF Init
<1>1. ParticipantTypeOK /\ LookupsBacked
  BY DEF ParticipantInit, ParticipantTypeOK, LookupsBacked
<1>2. PermitTypeOK
  BY DEF PermitInit, PermitTypeOK
<1>3. CountsSigned /\ FreshSignatures /\ SignaturesCredentialed /\ RevokedGone
  BY DEF PermitInit, CountsSigned, FreshSignatures, SignaturesCredentialed, RevokedGone, Exists
<1>4. FlowTypeOK /\ ConsentIsOwn
  BY DEF FlowInit, FlowTypeOK, ConsentIsOwn
<1> QED
  BY <1>1, <1>2, <1>3, <1>4 DEF IInv, TypeOK

LEMMA FlowUnchanged ==
  ASSUME FlowTypeOK, ConsentIsOwn, UNCHANGED flowVars
  PROVE  FlowTypeOK' /\ ConsentIsOwn'
BY DEF FlowTypeOK, ConsentIsOwn, flowVars

LEMMA ParticipantUnchanged ==
  ASSUME ParticipantTypeOK, LookupsBacked, UNCHANGED participantVars
  PROVE  ParticipantTypeOK' /\ LookupsBacked'
BY DEF ParticipantTypeOK, LookupsBacked, participantVars

LEMMA NextIInv == IInv /\ [Next]_vars => IInv'
<1> SUFFICES ASSUME IInv, [Next]_vars PROVE IInv'
  OBVIOUS
<1>0. ParticipantTypeOK /\ LookupsBacked /\ PermitInv /\ FlowTypeOK /\ ConsentIsOwn
  BY DEF IInv, TypeOK, PermitInv
<1>1. CASE ParticipantNext /\ UNCHANGED <<permitVars, flowVars>>
  BY <1>0, <1>1, ParticipantStep, PermitUnchanged, FlowUnchanged DEF IInv, TypeOK, PermitInv
<1>2. CASE PermitNext /\ UNCHANGED <<participantVars, flowVars>>
  BY <1>0, <1>2, PermitStep, ParticipantUnchanged, FlowUnchanged DEF IInv, TypeOK, PermitInv
<1>3. CASE FlowNext /\ UNCHANGED <<participantVars, permitVars>>
  BY <1>0, <1>3, FlowStep, ParticipantUnchanged, PermitUnchanged DEF IInv, TypeOK, PermitInv
<1>4. CASE UNCHANGED vars
  BY <1>0, <1>4, ParticipantUnchanged, PermitUnchanged, FlowUnchanged
  DEF IInv, TypeOK, PermitInv, vars
<1> QED
  BY <1>1, <1>2, <1>3, <1>4 DEF Next

(* The inductive invariant holds in every reachable state.                 *)
THEOREM PermissionsInvariant == Spec => []IInv
BY InitIInv, NextIInv, PTL DEF Spec

(* The reverse lookups never name an institution that does not list the    *)
(* account, and a minter stands for one institution at most.               *)
THEOREM LookupsTheorem == Spec => []LookupsBacked
<1>1. IInv => LookupsBacked
  BY DEF IInv
<1> QED
  BY <1>1, PermissionsInvariant, PTL

(* An approved Tier 2 permit has the signatures it asks for, from different *)
(* accounts and given since it was granted.                                *)
THEOREM SignaturesTheorem == Spec => []FreshSignatures
<1>1. IInv => FreshSignatures
  BY DEF IInv
<1> QED
  BY <1>1, PermissionsInvariant, PTL

(* While the gate is set, only accounts that an active institution lists   *)
(* at that moment approve.                                                 *)
THEOREM CredentialsTheorem == Spec => []SignaturesCredentialed
<1>1. IInv => SignaturesCredentialed
  BY DEF IInv
<1> QED
  BY <1>1, PermissionsInvariant, PTL

(* A revoked permit validates nothing before it is granted again.          *)
THEOREM RevocationTheorem == Spec => []RevokedStaysRefused
<1>1. IInv => RevokedStaysRefused
  BY DEF IInv, RevokedGone, RevokedStaysRefused, ValidateAction,
              Unregistered
<1> QED
  BY <1>1, PermissionsInvariant, PTL

(* Consent for an agent with an institution on record comes from an        *)
(* account that institution lists.                                         *)
THEOREM ConsentTheorem == Spec => []ConsentIsOwn
<1>1. IInv => ConsentIsOwn
  BY DEF IInv
<1> QED
  BY <1>1, PermissionsInvariant, PTL
=============================================================================
