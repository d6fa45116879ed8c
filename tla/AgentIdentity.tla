---------------------------- MODULE AgentIdentity ----------------------------
(***************************************************************************)
(* The part of IdentityRegistryUpgradeable.sol the oracles read: whether   *)
(* an agent NFT has a wallet, and the oracle it is bound to.  An agent's   *)
(* wallet, while it is set, is the account named after the agent; humans   *)
(* hold accounts of their own.                                             *)
(***************************************************************************)
CONSTANTS
  Agents,      \* agent NFT ids
  NoAgent,     \* the id in a request that was never opened
  Humans,      \* accounts of human approvers
  NoAccount,   \* address(0)
  NoOracle,    \* the unset oracleAddress
  HomeOracle,  \* the oracle each agent is bound to at deployment, or NoOracle
  Rotating     \* the agents whose NFT or wallet changes hands (a model bound)

VARIABLES
  wallet,      \* the agents whose "agentWallet" metadata is set
  boundTo,     \* the "oracleAddress" metadata of each agent
  staleCard    \* the agents whose committed card hash is no longer the one
               \* their running process presents

identityVars == <<wallet, boundTo, staleCard>>

Oracles == {"aml", "credit", "legal", "setup"}
Accounts == Agents \cup Humans

ASSUME AgentsAssumption ==
  /\ NoAgent \notin Agents
  /\ Humans # {} /\ Agents \cap Humans = {}
  /\ NoAccount \notin Accounts
  /\ NoOracle \notin Oracles
  /\ HomeOracle \in [Agents -> Oracles \cup {NoOracle}]
  /\ Rotating \subseteq Agents

IdentityTypeOK ==
  /\ wallet \subseteq Agents
  /\ boundTo \in [Agents -> Oracles \cup {NoOracle}]
  /\ staleCard \subseteq Agents

(* Every agent registered, its wallet the minting account, its card hash
   the one its process was started with.                                   *)
IdentityInit ==
  /\ wallet = Agents
  /\ boundTo = HomeOracle
  /\ staleCard = {}

GetAgentWallet(a) == IF a \in wallet THEN a ELSE NoAccount

(* The modifier onlyBankAgent of the four oracles, for a call that agent
   a's own account makes.                                                  *)
OnlyBankAgent(a, oracle) ==
  /\ a \in Agents
  /\ GetAgentWallet(a) = a
  /\ boundTo[a] = oracle

(* The modifier onlyClientAgent.                                           *)
OnlyClientAgent(a) == a \in Agents /\ GetAgentWallet(a) = a

(* _checkCardHash: a committed hash, when there is one, has to match.      *)
CheckCardHash(a) == a \notin staleCard

-----------------------------------------------------------------------------
SetAgentWallet(a) ==
  /\ wallet' = wallet \cup {a}
  /\ UNCHANGED <<boundTo, staleCard>>

UnsetAgentWallet(a) ==
  /\ wallet' = wallet \ {a}
  /\ UNCHANGED <<boundTo, staleCard>>

SetOracleAddress(a, oracle) ==
  /\ boundTo' = [boundTo EXCEPT ![a] = oracle]
  /\ UNCHANGED <<wallet, staleCard>>

SetCardHash(a, matches) ==
  /\ staleCard' = IF matches THEN staleCard \ {a} ELSE staleCard \cup {a}
  /\ UNCHANGED <<wallet, boundTo>>

(* _update on a transfer clears the wallet, the binding and the card hash. *)
TransferAgent(a) ==
  /\ wallet' = wallet \ {a}
  /\ boundTo' = [boundTo EXCEPT ![a] = NoOracle]
  /\ staleCard' = staleCard \ {a}

IdentityNext ==
  \E a \in Rotating :
    \/ SetAgentWallet(a)
    \/ UnsetAgentWallet(a)
    \/ TransferAgent(a)
    \/ \E oracle \in Oracles \cup {NoOracle} : SetOracleAddress(a, oracle)
    \/ \E matches \in BOOLEAN : SetCardHash(a, matches)
=============================================================================
