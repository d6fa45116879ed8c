------------------------- MODULE OnboardingRegistry -------------------------
(***************************************************************************)
(* The central state machine of the client onboarding contracts            *)
(* (contracts/registries/OnboardingRegistry.sol): one record per flow with *)
(* the phases completed so far and an absorbing "terminated" mark, and the *)
(* addresses that may write to it.  The uint8 phase bitmask is the set of  *)
(* the phases whose bit is on.                                             *)
(***************************************************************************)
EXTENDS Naturals

CONSTANTS
  Flows,      \* flow identifiers (the bytes32 traceIds)
  NoFlow,     \* the zero flowId of a request that was never opened
  Revocable   \* the callers whose permission the owner toggles (a model bound)

VARIABLES
  flows,      \* _flows
  oracles,    \* _oracles: the callers that may write to the registry
  ready       \* how many ReadyToTransact events each flow has emitted

registryVars == <<flows, oracles, ready>>

(* The deployed writers: the four sub-flow oracles and the account of the
   bank's orchestrator bridge, which only ever opens flows.                *)
Callers == {"aml", "credit", "legal", "setup", "orchestrator"}

ReviewPhases == {"AML_CLEARED", "CREDIT_APPROVED", "LEGAL_EXECUTED"}
SetupPhases == {"ENTITY_SETUP_DONE", "ACCOUNT_SETUP_DONE", "PRODUCT_SETUP_DONE"}
AllPhases == ReviewPhases \cup SetupPhases

ASSUME FlowsAssumption == NoFlow \notin Flows
ASSUME RevocableAssumption == Revocable \subseteq Callers

FlowRecord == [created: BOOLEAN, phases: SUBSET AllPhases, terminated: BOOLEAN]
NoRecord == [created |-> FALSE, phases |-> {}, terminated |-> FALSE]

RegistryTypeOK ==
  /\ flows \in [Flows -> FlowRecord]
  /\ oracles \subseteq Callers
  /\ ready \in [Flows -> Nat]

RegistryInit ==
  /\ flows = [f \in Flows |-> NoRecord]
  /\ oracles = Callers
  /\ ready = [f \in Flows |-> 0]

-----------------------------------------------------------------------------
(* Mutant: the view forgets the termination mark.                          *)
IsActiveOnceCreated(f) == flows[f].created

IsActive(f) == flows[f].created /\ ~flows[f].terminated

(* Mutant: (mask & ALL_REVIEWS_DONE) != 0.                                 *)
AnyReviewDone(f) == ReviewPhases \cap flows[f].phases # {}

ReviewsDone(f) == ReviewPhases \subseteq flows[f].phases

SetOracle(o, enabled) ==
  /\ oracles' = IF enabled THEN oracles \cup {o} ELSE oracles \ {o}
  /\ UNCHANGED <<flows, ready>>

InitiateOnboarding(f) ==
  /\ "orchestrator" \in oracles
  /\ ~flows[f].created
  /\ flows' = [flows EXCEPT ![f] = [NoRecord EXCEPT !.created = TRUE]]
  /\ UNCHANGED <<oracles, ready>>

(* Mutant: the bitmask is assigned, not or-ed.                             *)
SetPhaseCompleteAssigned(o, f, phase) ==
  /\ o \in oracles
  /\ IsActive(f)
  /\ flows' = [flows EXCEPT ![f].phases = {phase}]
  /\ UNCHANGED <<oracles, ready>>

(* Called by oracle o in the same transaction as its own state change: when
   a require fails here the whole call reverts.                            *)
MaySetPhase(o, f) == o \in oracles /\ IsActive(f)

SetPhaseComplete(o, f, phase) ==
  /\ MaySetPhase(o, f)
  /\ flows' = [flows EXCEPT ![f].phases = @ \cup {phase}]
  /\ ready' = IF flows[f].phases \cup {phase} = AllPhases
                THEN [ready EXCEPT ![f] = @ + 1]
                ELSE ready
  /\ UNCHANGED oracles

Terminate(o, f) ==
  /\ o \in oracles
  /\ IsActive(f)
  /\ flows' = [flows EXCEPT ![f].terminated = TRUE]
  /\ UNCHANGED <<oracles, ready>>

(* The calls that do not come from a sub-flow oracle.                      *)
RegistryNext ==
  \/ \E f \in Flows : InitiateOnboarding(f)
  \/ \E o \in Revocable, enabled \in BOOLEAN : SetOracle(o, enabled)
=============================================================================
