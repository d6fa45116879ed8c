------------------------ MODULE ActionPermitRegistry ------------------------
(***************************************************************************)
(* Permits for the actions of agents (ActionPermitRegistry.sol), with the  *)
(* registry of institutions that says who may approve them.  The contract  *)
(* keys a permit by a hash of flow, agent and action; the three are fixed  *)
(* in length, so a key is the triple.                                      *)
(***************************************************************************)
EXTENDS ParticipantRegistry, Integers

CONSTANTS
  Owner,           \* the account that deployed the permit registry
  NoAccount,
  Actions,
  PatternTiers,    \* the tiers the owner registers
  Grants           \* the <<tier, requiredApprovals>> of the permits granted

Keys == Flows \X Agents \X Actions
Tiers == 0..3
Permit == [tier: 0..2, approved: BOOLEAN, approvalCount: Nat, requiredApprovals: Nat]
NoPermit == [tier |-> 3]     \* flowId is zero
Unregistered == 4            \* the tier of a pattern that is not registered

ASSUME OwnerAssumption == Owner \in Accounts /\ NoAccount \notin Accounts
ASSUME PermitInputsAssumption == PatternTiers \subseteq Tiers /\ Grants \subseteq (0..2) \X Nat
ASSUME AccountsFinite == IsFiniteSet(Accounts)

VARIABLES
  gated,        \* _participantRegistry is set
  pattern,      \* action -> tier of _patterns
  permits,      \* _permits
  voted,        \* _approvals
  initiator,    \* _flowInitiators
  signed,       \* history: who approved the permit since it was granted
  unlisted,     \* history: approvals past the gate by accounts no active institution lists
  revoked       \* history: keys whose permit was revoked and not granted again

permitVars == <<gated, pattern, permits, voted, initiator, signed, unlisted, revoked>>

PermitTypeOK ==
  /\ gated \in BOOLEAN
  /\ pattern \in [Actions -> Tiers \cup {Unregistered}]
  /\ permits \in [Keys -> Permit \cup {NoPermit}]
  /\ voted \in [Keys -> SUBSET Accounts]
  /\ initiator \in [Flows -> Accounts \cup {NoAccount}]
  /\ signed \in [Keys -> SUBSET Accounts]
  /\ unlisted \subseteq Keys \X Accounts
  /\ revoked \subseteq Keys
  \* A permit is only ever granted on a flow that has an initiator.
  /\ \A k \in Keys : permits[k] # NoPermit => initiator[k[1]] # NoAccount

PermitInit ==
  /\ gated = FALSE
  /\ pattern = [c \in Actions |-> Unregistered]
  /\ permits = [k \in Keys |-> NoPermit]
  /\ voted = [k \in Keys |-> {}]
  /\ initiator = [f \in Flows |-> NoAccount]
  /\ signed = [k \in Keys |-> {}]
  /\ unlisted = {}
  /\ revoked = {}

-----------------------------------------------------------------------------
Exists(k) == permits[k] # NoPermit

SetParticipantRegistry ==
  /\ gated' = ~gated
  /\ UNCHANGED <<pattern, permits, voted, initiator, signed, unlisted, revoked>>

RegisterPattern(c, tier) ==
  /\ pattern' = [pattern EXCEPT ![c] = tier]
  /\ UNCHANGED <<gated, permits, voted, initiator, signed, unlisted, revoked>>

\* The first account to grant a permit on a flow becomes its initiator.
GrantPermit(x, k, tier, required) ==
  /\ initiator[k[1]] \in {NoAccount, x}
  /\ initiator' = [initiator EXCEPT ![k[1]] = x]
  /\ ~Exists(k)
  /\ permits' = [permits EXCEPT ![k] =
       [tier |-> tier, approved |-> tier < 2 \/ required = 0,
        approvalCount |-> 0, requiredApprovals |-> required]]
  /\ signed' = [signed EXCEPT ![k] = {}]
  /\ revoked' = revoked \ {k}
  /\ UNCHANGED <<gated, pattern, voted, unlisted>>

\* What the gate means to ask: some active institution lists the account.
Credentialed(a) ==
  \E r \in {"approver", "senior"}, p \in active : <<r, p, a>> \in listed

WithApproval(permit) ==
  [tier |-> permit.tier, approved |-> permit.approvalCount + 1 >= permit.requiredApprovals,
   approvalCount |-> permit.approvalCount + 1, requiredApprovals |-> permit.requiredApprovals]

\* Mutant: an account may approve a permit again.
ApproveActionAgain(x, k) ==
  /\ gated => HasRole("approver", x) \/ HasRole("senior", x)
  /\ Exists(k) /\ ~permits[k].approved
  /\ voted' = [voted EXCEPT ![k] = @ \cup {x}]
  /\ permits' = [permits EXCEPT ![k] = WithApproval(@)]
  /\ signed' = [signed EXCEPT ![k] = @ \cup {x}]
  /\ unlisted' = IF gated /\ ~Credentialed(x) THEN unlisted \cup {<<k, x>>} ELSE unlisted
  /\ UNCHANGED <<gated, pattern, initiator, revoked>>

ApproveAction(x, k) ==
  /\ gated => HasRole("approver", x) \/ HasRole("senior", x)
  /\ Exists(k) /\ ~permits[k].approved
  /\ x \notin voted[k]
  /\ voted' = [voted EXCEPT ![k] = @ \cup {x}]
  /\ permits' = [permits EXCEPT ![k] = WithApproval(@)]
  /\ signed' = [signed EXCEPT ![k] = @ \cup {x}]
  /\ unlisted' = IF gated /\ ~Credentialed(x) THEN unlisted \cup {<<k, x>>} ELSE unlisted
  /\ UNCHANGED <<gated, pattern, initiator, revoked>>

\* Mutant: a revoked permit loses its approval, not its existence.
RevokePermitApproval(x, k) ==
  /\ x \in {Owner, initiator[k[1]]}
  /\ Exists(k)
  /\ permits' = [permits EXCEPT ![k].approved = FALSE]
  /\ revoked' = revoked \cup {k}
  /\ UNCHANGED <<gated, pattern, voted, initiator, signed, unlisted>>

\* The permit is deleted; _approvals, who has voted on it, is not.
RevokePermit(x, k) ==
  /\ x \in {Owner, initiator[k[1]]}
  /\ Exists(k)
  /\ permits' = [permits EXCEPT ![k] = NoPermit]
  /\ revoked' = revoked \cup {k}
  /\ UNCHANGED <<gated, pattern, voted, initiator, signed, unlisted>>

PermitNext ==
  \/ SetParticipantRegistry
  \/ \E c \in Actions, tier \in PatternTiers : RegisterPattern(c, tier)
  \/ \E x \in Accounts, k \in Keys, g \in Grants : GrantPermit(x, k, g[1], g[2])
  \/ \E x \in Accounts, k \in Keys : ApproveAction(x, k)
  \/ \E x \in Accounts, k \in Keys : RevokePermit(x, k)

-----------------------------------------------------------------------------
\* validateAction: the tier is the pattern's, not the permit's.
ValidateAction(k) ==
  \/ pattern[k[3]] \in {Unregistered, 0}
  \/ pattern[k[3]] \in {1, 2} /\ Exists(k) /\ permits[k].approved
=============================================================================
