------------------------- MODULE ClientSetupOracle -------------------------
(***************************************************************************)
(* The three set-up steps that follow the reviews                          *)
(* (contracts/oracles/ClientSetupOracle.sol).  The contract keeps no state *)
(* of its own: each step reads the flow's bitmask and writes one bit.      *)
(***************************************************************************)
EXTENDS OnboardingRegistry, AgentIdentity

MaySetUp(f, agent) ==
  /\ OnlyBankAgent(agent, "setup")
  /\ CheckCardHash(agent)
  /\ MaySetPhase("setup", f)

MaySetUpEntity(f, agent) ==
  /\ MaySetUp(f, agent)
  /\ ReviewsDone(f)
  /\ "ENTITY_SETUP_DONE" \notin flows[f].phases

MaySetUpAccount(f, agent) ==
  /\ MaySetUp(f, agent)
  /\ "ENTITY_SETUP_DONE" \in flows[f].phases
  /\ "ACCOUNT_SETUP_DONE" \notin flows[f].phases

MaySetUpProducts(f, agent) ==
  /\ MaySetUp(f, agent)
  /\ "ACCOUNT_SETUP_DONE" \in flows[f].phases
  /\ "PRODUCT_SETUP_DONE" \notin flows[f].phases

SetupLegalEntity(f, agent) ==
  /\ MaySetUpEntity(f, agent)
  /\ SetPhaseComplete("setup", f, "ENTITY_SETUP_DONE")

(* Mutant: without the check of the preceding step.                        *)
SetupAccountOutOfOrder(f, agent) ==
  /\ OnlyBankAgent(agent, "setup")
  /\ CheckCardHash(agent)
  /\ IsActive(f)
  /\ ReviewsDone(f)
  /\ "ACCOUNT_SETUP_DONE" \notin flows[f].phases
  /\ SetPhaseComplete("setup", f, "ACCOUNT_SETUP_DONE")

SetupAccount(f, agent) ==
  /\ MaySetUpAccount(f, agent)
  /\ SetPhaseComplete("setup", f, "ACCOUNT_SETUP_DONE")

SetupProducts(f, agent) ==
  /\ MaySetUpProducts(f, agent)
  /\ SetPhaseComplete("setup", f, "PRODUCT_SETUP_DONE")

SetupStep(f, agent) ==
  SetupLegalEntity(f, agent) \/ SetupAccount(f, agent) \/ SetupProducts(f, agent)

SetupNext == \E f \in Flows, agent \in Agents : SetupStep(f, agent)
=============================================================================
