---------------------- MODULE FlowAuthorizationRegistry ----------------------
(***************************************************************************)
(* Which agent may do what in a flow (FlowAuthorizationRegistry.sol), with *)
(* the part of the identity registry it reads: the institution recorded on *)
(* an agent when it is minted (IdentityRegistryUpgradeable.sol).  Each     *)
(* institution consents for its own agents.                                *)
(***************************************************************************)
EXTENDS ParticipantRegistry

CONSTANTS
  Capabilities,
  Policies,        \* the sets of <<agent, capability>> flows are created with
  Wirings          \* what the owner names in setGovernanceContracts

Registries == {"identity", "participants"}

ASSUME PoliciesAssumption == Policies \subseteq SUBSET (Agents \X Capabilities)
ASSUME WiringsAssumption == Wirings \subseteq SUBSET Registries

VARIABLES
  mintGated,       \* the identity registry's _participantRegistry is set
  minted,          \* the agents that exist
  participantId,   \* the metadata of that key, NoParticipant when empty
  governed,        \* the registries setGovernanceContracts named
  flows,           \* _policies: the flows that exist
  granted,         \* _grants: <<flow, agent, capability>>
  foreign          \* history: consents for a recorded agent by an account its institution does not list

flowVars == <<mintGated, minted, participantId, governed, flows, granted, foreign>>

FlowTypeOK ==
  /\ mintGated \in BOOLEAN /\ governed \subseteq Registries
  /\ minted \subseteq Agents
  /\ participantId \in [Agents -> Participants \cup {NoParticipant}]
  /\ \A a \in Agents : participantId[a] # NoParticipant => a \in minted
  /\ flows \subseteq Flows
  /\ granted \subseteq flows \X Agents \X Capabilities
  /\ foreign \subseteq Flows \X Agents

FlowInit ==
  /\ mintGated = FALSE /\ governed = {}
  /\ minted = {}
  /\ participantId = [a \in Agents |-> NoParticipant]
  /\ flows = {} /\ granted = {} /\ foreign = {}

-----------------------------------------------------------------------------
(* Agents.                                                                 *)

SetMintGate ==
  /\ mintGated' = ~mintGated
  /\ UNCHANGED <<minted, participantId, governed, flows, granted, foreign>>

\* Ids are handed out in order, so that an id can be named before it is minted.
RegisterAgent(x, a) ==
  /\ a \notin minted
  /\ mintGated => HasRole("minter", x)
  /\ minted' = minted \cup {a}
  /\ participantId' = [participantId EXCEPT ![a] =
       IF mintGated THEN standsFor[<<"minter", x>>] ELSE NoParticipant]
  /\ UNCHANGED <<mintGated, governed, flows, granted, foreign>>

\* A transfer clears the reserved metadata (_update).
TransferAgent(a) ==
  /\ a \in minted
  /\ participantId' = [participantId EXCEPT ![a] = NoParticipant]
  /\ UNCHANGED <<mintGated, minted, governed, flows, granted, foreign>>

-----------------------------------------------------------------------------
(* Flows.                                                                  *)

SetGovernanceContracts(registries) ==
  /\ governed' = registries
  /\ UNCHANGED <<mintGated, minted, participantId, flows, granted, foreign>>

\* Anyone creates a flow, with capabilities for any agents.
CreateFlow(f, policy) ==
  /\ f \notin flows
  /\ flows' = flows \cup {f}
  /\ granted' = granted \cup {<<f, ac[1], ac[2]>> : ac \in policy}
  /\ UNCHANGED <<mintGated, minted, participantId, governed, foreign>>

\* An agent without a record is anyone's who is a minter.
MayConsent(x, a) ==
  "participants" \in governed =>
    /\ standsFor[<<"minter", x>>] # NoParticipant
    /\ "identity" \in governed =>
         participantId[a] \in {NoParticipant, standsFor[<<"minter", x>>]}

Foreign(x, a) ==
  /\ governed = Registries /\ participantId[a] # NoParticipant
  /\ <<"minter", participantId[a], x>> \notin listed

AuthorizeAgentForFlow(x, f, a, caps) ==
  /\ f \in flows
  /\ MayConsent(x, a)
  /\ granted' = granted \cup ({f} \X {a} \X caps)
  /\ foreign' = IF Foreign(x, a) THEN foreign \cup {<<f, a>>} ELSE foreign
  /\ UNCHANGED <<mintGated, minted, participantId, governed, flows>>

FlowNext ==
  \/ SetMintGate
  \/ \E x \in Accounts, a \in Agents : RegisterAgent(x, a)
  \/ \E a \in Agents : TransferAgent(a)
  \/ \E registries \in Wirings : SetGovernanceContracts(registries)
  \/ \E f \in Flows, policy \in Policies : CreateFlow(f, policy)
  \/ \E x \in Accounts, f \in Flows, a \in Agents, caps \in SUBSET Capabilities :
       AuthorizeAgentForFlow(x, f, a, caps)
=============================================================================
