# OpenEAGO in TLA+

Models, model-checking runs and proofs for the programs in this repository. The
repository is a specification with a dozen example programs; the models follow
those that carry control logic of their own:

* the **on-chain onboarding contracts**, the **agent bridges** that drive them
  and the **LangGraph** of their orchestrator (`examples/mcp-erc8004-enterprise`);
* what governs those agents (same directory): the **autonomy bounds monitor**,
  the **consortium governance**, and the **permissions** (institutions, permits,
  flow authorisations);
* the **reference orchestrator** with the scoring of its validation agent
  (`examples/reference-implementation`);
* the **agent registry** (Rust) and the **agent template** whose processes keep
  it informed (`examples/agent-registry`, `examples/agent-template`);
* the **workflow context**, replicated documents that agents merge
  (`examples/context-management`).

The rest is inventoried below with the reason it is left out.

    tlc -config MCOnboarding_races.cfg MCOnboarding.tla
    tlapm OnboardingSystem_proofs.tla

## 1. Inventory

| Part | State | Operations | How it interacts | What makes it correct |
|---|---|---|---|---|
| OnboardingRegistry | flow record (phase bits, terminated), oracle list | initiate, setPhaseComplete, terminate, setOracle | called by the four oracles inside their transactions | the record agrees with the oracles' own; a terminated flow is frozen |
| AML, Credit, Legal oracles | requests with a status machine, round counters, documents, approvals | open, data loop, negotiation, drafts, recommendation, escalation, decision | two institutions' agents and human approvers take turns; read the identity registry; write the flow record | no lost or doubled decision; loops end; both sides sign one text |
| ClientSetupOracle | none | three ordered set-up calls | reads and writes the flow record | set-up after all reviews and in order |
| IdentityRegistry | wallets, oracle bindings, card hashes, token owner | register, set or unset wallet, set hash or oracle, transfer | read by every agent call of the oracles | agents changing under open requests leave nothing stuck |
| Pipeline (workflow.py, main.py, persistence.py) | one MongoDB document per execution; asyncio tasks | submit, six phase nodes, pause, decision, resume, failure | coroutines of one event loop share the documents; agents over HTTP | the human gate; statuses that mean something; no run left "running" |
| WebSocket hub (ws_hub.py) | sets of connections | connect, disconnect, broadcast | broadcast runs inside every pipeline step | a dashboard does not disturb a run |
| ConsortiumGovernance | members, one voting address each; proposals, votes, quorum parameters, pause | bootstrap, propose, vote, execute, pause | executing a proposal changes its own members and parameters or calls another contract | every change carries the voted share of the members; the membership stays consistent and not empty |
| ParticipantRegistry | per institution and role a list of addresses; reverse lookups | register, deactivate, list, remove | asked at every mint, approval and consent | a lookup that answers is on the lists of that institution |
| ActionPermitRegistry | patterns, permits, approvals | register pattern, grant, approve, revoke, validate | asks ParticipantRegistry; read by the bridges' preflight | no permit without its approvals; revocation sticks |
| FlowAuthorizationRegistry | flows, capability grants | create flow, consent | asks ParticipantRegistry and the agent's record in IdentityRegistry | each institution consents for its own agents |
| AutonomyBoundsRegistry and bounds_monitor.py | entries per agent and tool; windows in memory, bounds-state.json | report, reset, disable, enable | one handler at a time under a lock writes the file that MCP servers read and sends transactions that set what the bridges read | file and chain follow the monitor; an enabled tool is within its bounds |
| Agent bridges and MCP servers | tasks of each bridge process, and where its filters start | poll events, ask an MCP server, send one transaction; open a flow | events of one bridge's transaction are another's tasks | a request has one driver, of the side whose turn it is; set-up is driven to its end; what is left undone has a named reason |
| Onboarding LangGraph | its own statuses and bitmask, scheduled and parked nodes | nodes, routes, interrupts, updates from chain events | asks the same MCP servers, hears the same events; sends nothing after the flow is open | the bitmask mirrors the chain |
| Agent registry (Rust) | entries with last-seen times, health, metrics, quarantine marks; in memory | register, status, evict, discover; a node copies the bootstrap servers' lists | HTTP from agents and nodes | a live agent stays listed and is discovered, a dead one goes |
| Agent template | runtime metrics; a sync and a status loop; SIGTERM | start, execute, register, report, stop | calls the bootstrap servers, each call may be lost | see the registry |
| Workflow context (CRDT) | documents with maps, lists, a risk, a change log | change, merge, save, load | agents merge each other's documents in any order | a risk is of one piece and never understated; nothing appended is lost |
| Validation agent | none | assess: score, tier, policy check, outcome | phase 3 of the pipeline | a score from 0.60 on goes to a human, a violation to nobody |
| Other phase agents; reputation, dataset, prompt and trace registries; MockMultiSig; Sui registry; data router; provenance; prompt registry; dashboards | see section 5 | | | |

What is hard here: several parties' transactions interleaving on one record; one
party's decision ending a flow under the others; loops between institutions with
checked counters; coroutines that read a status, await, and act on it; an
exception at an await; restarts; a loop over a live set; votes counted against a
membership that changes; events that are heard once or never; two time limits
raced by late calls; merges after merges. PROJECT.json lists each hazard at its
line with the property that watches it, or the reason why none does.

## 2. Modules

    OnboardingRegistry --+
    AgentIdentity -------+-- AMLOracle -- CreditRiskOracle --+
                         |   LegalOracle --------------------+-- OnboardingSystem -- MCOnboarding
                         |   ClientSetupOracle --------------+       |        |
                                                       INSTANCE      |        AgentBridges -- MCBridges
                                 OnboardingFlow (abstract) ----------+
                                 OnboardingFlow -- OnboardingGraph -- MCGraph
    EventHub -- ExecutionPipeline -- MCPipeline
    AutonomyBoundsRegistry -- BoundsMonitor -- MCBounds
    ConsortiumGovernance -- MCGovernance
    ParticipantRegistry --+-- ActionPermitRegistry ------+-- Permissions -- MCPermits
                          +-- FlowAuthorizationRegistry -+
    AgentRegistry -- AgentFleet -- MCFleet
    WorkflowContext -- MCContext

    OnboardingSystem_proofs (with the refinement) <- AgentBridges_proofs
    ExecutionPipeline_proofs, BoundsMonitor_proofs, ConsortiumGovernance_proofs,
    Permissions_proofs, WorkflowContext_proofs, AgentFleet_proofs

### Onboarding contracts

A step is one transaction that is accepted; a call that would revert is not a
step. One action per external function, with its `require`s as guards and the
nested registry call as part of the action. What a call requires is an operator
of its own (`AMLMayRecommend` of `AMLSubmitRecommendation`, ...) wherever a
property or the bridges ask whether it would be taken.

* `OnboardingRegistry`: `flows[f]` is `_flows` (the bitmask as a set of
  phases), `oracles` is `_oracles`, `ready[f]` counts ReadyToTransact events.
  `deploy.js` gives the initial oracle list. Which callers the owner may revoke
  is the constant `Revocable`.
* `AgentIdentity`: `wallet` (agents with a wallet set), `staleCard` (agents
  whose registered card hash is not the one their calls carry), `boundTo` (the
  oracle an agent is bound to). An agent's wallet account is named after the
  agent. `Rotating` are the agents whose owner changes these.
* `AMLOracle`, `CreditRiskOracle`, `LegalOracle`: `aml`, `credit`, `legal` are
  the `_requests` mappings, `versions` is `_versionHashes`. A request id is a
  hash of flow, agent and timestamp; here it is any unused id, which is what
  the contracts' collision check leaves. Documents are members of `Docs`; terms
  are kept as who put them on the table. `MaxRound` stands for 255, the bound of
  the checked `uint8` counters.
* `ClientSetupOracle`: three calls, no state of its own.
* `OnboardingFlow`: what the five contracts promise together: teams pass or
  fail a flow, a failure ends it, and set-up goes step by step once all passed.
* `OnboardingSystem`: the composition, the properties, the inductive invariant
  `IInv` and the refinement mapping.

### Bridges over the contracts

* `AgentBridges` extends `OnboardingSystem`: its steps are transactions of the
  contracts made by the processes that really make them. `work` is the asyncio
  tasks: the event, what it is about, and the call the MCP server's answer asks
  for (`Unanswered` before that). `up` is the running processes; an event that
  no running process hears is gone, since the filters start at the latest block.
  The answers an MCP tool may give are the sets `ScreenClient`, `AssessCredit`,
  ...: the model behind them may choose any action its schema allows. `Revert`
  ends the task of a transaction the contracts do not take (`Taken` spells out
  their requirements per call, so that it can be reasoned about), `Drop` one
  whose preflight was denied or whose server, model or node failed, `Crash` all
  of a process.
* `Interface` is the set of calls the bridges encode the way the contracts
  declare them. With what `shared/abis.py` really declares (`AbisInterface`)
  nothing that hands something in reaches a contract, which is run abis and the
  theorem `AbisTheorem`. Run bridged asks what the bridges' own logic is worth
  once the interface is repaired, and takes the full one; all other theorems
  hold for every interface, and name what is lost for each call it leaves out
  (`Unencoded`).
* `OnboardingGraph` is the orchestrator's LangGraph for one flow. The runtime is
  external: it runs a scheduled node on the channels it reads, merges what the
  node returns, follows the edges and parks a node that interrupts. The chain is
  `OnboardingFlow` by EXTENDS, which is sound because the contracts refine it.

### Reference orchestrator

A step is the code between two awaits that touches shared state.

* `EventHub`: `watching` is the two connection sets, `looping` where each
  coroutine's `broadcast` loop stands, `disturbed` the coroutines whose set
  changed under their loop. Python raises when the set's *size* differs at the
  next iteration; a disturbed loop may therefore raise or, had the set come
  back to its size, end. That is an over-approximation by one kind of trace.
* `ExecutionPipeline`: `store` is the `executions` collection (status, phases
  on record, draft outcome, decision), `task` the coroutines: one run per
  execution, and the hitl-decision requests, which become the continuation they
  start. `faults` counts injected failures. Discovery and the agent call belong
  to the step of the update they precede, since they touch nothing shared; a
  failure can strike before an update, at the event recorded behind it
  (`WorkRaises`), or in a broadcast (`BroadcastRaises`). A request refused with
  400 or 404 changes nothing and is left out. The events collection is written
  but never read by the pipeline and is not kept. What is submitted is an
  application (account value, accepted budget, profile, documents, violation);
  `CompositeScore`, `RiskTier` and `EscalationOutcome` are the validation
  agent's arithmetic in integers, exact on the shares the assumption admits.

### Autonomy bounds

* `AutonomyBoundsRegistry`: `entries` is `_state`, `appointed` whether
  `monitor` is the account the monitor signs with. Initially it is not:
  `deploy.js` does not call `setMonitor`.
* `BoundsMonitor`: `enabled`, `anomaly`, `performance` and `requests` are the
  fields of `ToolState`; `requests` is the length of the 60-second buffer, of
  which a timestamp leaves at any moment (`Prune`). A handler runs alone under
  the lock; its steps are the part that switches the tool in memory (`Report`,
  `Reset`), the opening of the file, which truncates it (`OpenFile`), the end of
  the write (`WriteFile`) and the return of `transact()` (`Send`), and `phase`
  and `job` say where it stands. `WriteFails` is an exception of `write_text` at
  either place: at the opening, which leaves the old file whole and wrong, or
  after it, which leaves it torn. `file` is what another process reads.
  `pending` is the account's transactions in nonce order, mined by `Mine`, which
  is external. `overridden`, `adrift` and `lapsed` (the tools a failed write has
  not told the file of) are history variables. The servers' only part is the
  question they ask, `IsToolSuspended`: their own reports carry the key `tool`
  where `post_report` requires `toolName`, and are dropped, so reports come from
  the environment. It is assumed that BOUNDS_STATE_PATH points the servers at
  the monitor's file (the two defaults differ), and `--mock` is left out.

### Consortium governance

* `ConsortiumGovernance`: `active` and `seat` are the `_members` entries,
  `memberAt` is `_addrToMember`; `content`, `state`, `votesFor` are fields of
  `_proposals`, `votes` is `_votes`; the history variable `supporters` keeps who
  voted for, which the contract only counts. What calldata does when executed is decided
  when the proposal is put (`content`): `accepted` FALSE stands for everything
  that makes the execution revert. No clock is kept: `open` are the proposals
  whose deadline has not passed, and since `votingPeriod` is itself voted,
  deadlines pass in any order. It is assumed that `block.timestamp +
  votingPeriod` does not overflow; the overflow of the quorum is modelled.
  An id that nobody created has deadline zero, so `executeProposal` may mark it
  Defeated; `createProposal` sets it back to Active. Nothing reads
  `upgradeTimelock`, and no other contract reads `crossBankPaused`.

### Permissions

A step is one accepted transaction of an owner, a minter, an approver or a flow
initiator.

* `ParticipantRegistry`: `listed` is the three role lists, `standsFor` the three
  reverse lookups. A removal deletes the lookup of the account, whichever
  institution it names; the history variable `shared` keeps the accounts that two
  institutions listed at once. All calls are the owner's.
* `ActionPermitRegistry`: `pattern`, `permits`, `voted` (`_approvals`),
  `initiator` (`_flowInitiators`), `gated` (a registry is set). A permit key is
  the triple that the code hashes. Revocation deletes the permit and leaves
  `voted`. `signed`, `unlisted` and `revoked` are history variables.
* `FlowAuthorizationRegistry`: `flows`, `granted` (`_grants`), `governed` (the
  registries named in `setGovernanceContracts`), and of the identity registry
  the mint gate, the agents that exist and `participantId`, the institution
  recorded on them. `foreign` is a history variable.
* `Permissions`: the composition, the properties and the inductive invariant.

### Agent registry and agents

* `AgentRegistry`: `listed` is the registry of each bootstrap server, `copied`
  that of the node. Times are ages in ticks that stop counting at the sum of the
  two TTLs, past which nothing distinguishes them; reliability and uptime are
  kept as whether they reach the floors discovery applies. A registration that
  would be a new entry is refused at `MaxEntries` (`HasRoom`, 429), and a status
  report from an IP that is none of the agent's registered host (403): `Recognised`
  says for which servers and agents the two agree, a matter of the network
  between them.
* `AgentFleet`: `proc` and `runtime` are an agent process and its metrics, `call`
  what its two loops are sending and to whom, `timer` when each periodic task is
  due. A tick passes only when no call is on its way and nothing is due (calls
  time out after ten seconds, the intervals are longer). After SIGTERM the
  process stays in `server.shutdown()` and only leaves by `Exit`, of whose calls
  at most the one on its way per loop arrives. There is no DELETE endpoint, so
  deregistering has no action.

### Workflow context

* `WorkflowContext`: a list is the set of the contents in it, since
  `_deep_merge` takes equal contents for one (how often a list holds one is left
  out). A journal entry carries the time it was made, so its content is the
  change that made it; a risk event is any dictionary, and two changes may
  record equal ones (`Events`). A map entry is the function from its fields to
  the change that wrote them. The change log is numbered by its own length, as
  in the code, so numbers collide after a merge and after a load; that is what
  `MergeHistories` and `HistoryComplete` are about. `known`, `made` and `forked`
  are history variables.

## 3. Runs

A run switches off the deadlock check where the system really stops: flows end,
executions end, bounded proposals and changes are used up, a parked graph waits
for events. The runs of the monitor and of the permissions check it.

| Run | Instance | Shows |
|---|---|---|
| races | 1 flow, 2 AML + 1 credit + 1 legal request, 2 documents, `MaxRound` 1; AML requests and documents are symmetric | PhasesBacked, OneRejection, NoRequestStuck, ReadyOnlyWhenDecided, TerminatedFlowFrozen, SignedTextFixed, RefinesOnboardingFlow |
| rotation | 2 flows, 1 credit + 1 legal request, a rotating agent, a revocable oracle | PhasesBacked when a registry call is refused midway; NoRequestStuck once the agent is back |
| bridged | 1 flow, 1 request of each team, `MaxRound` 1, 1 fault, full interface | OneDriver, AbandonedOnlyByRounds, SetupDriven, RoundsRunOut, FlowSettles |
| abis | the same with `AbisInterface` | violation of ScreeningReachesHumans |
| graph | 1 flow, 3 loop events | violation of MaskMirrorsChain |
| context | 2 stores (symmetric), 3 changes, one event or none with an assessment, 1 saved document, 1 load | RiskConsistent, JournalKept, HistoryComplete, MergeNeverUnderstates |
| agents | 1 bootstrap server with room for one, 1 node, TTLs of 2 ticks; 1 agent with 2 starts and 1 fault or 1 start and 2 faults, or 2 agents that serve no requests, one of them not recognised | RemovedOnlyWhenSilent, StoppedForgotten, RunningDiscovered |
| hitl_gate | 1 execution of any application, 2 decision requests, 1 connection, 1 fault | HumanGate, QueuedIsUntouched, StatusBacked, Settles |
| double_decision | 2 decision requests, nothing else | violation of OneDecisionPerPause |
| bounds | 1 tool, 2 agents, windows of 2 and 3, 2 requests a minute, 2 faults, 2 transactions on their way | EnabledWithinBounds, FileAgrees, ChainFollowsMonitor, SuspensionReachesChain |
| governance | 2 banks, 3 addresses, 2 proposals | SeatsMatch, NeverEmptied, OneVotePerParticipant, ChangesAreVoted, BallotKept, ProposalsSettle |
| permits | 2 institutions, 2 accounts, 1 permit key, 1 flow, 1 agent | LookupsBacked, FreshSignatures, SignaturesCredentialed, RevokedStaysRefused, ConsentIsOwn |

The type invariants are stated in every module; where there is a proof, it
proves them first.

**Bounds.** Requests of one team only meet each other through the flow record,
so two of one team (both may reject, or pass and reject) next to one of each
other team already show every pairing; a second flow can only matter by mixing
flows up, which rotation covers. `MaxRound` 1 instead of 255 makes the
exhausted counter an early and frequent state; the theorem `TypeCorrect` covers
the bound itself. Two documents distinguish "the text that was signed"
from another. In the pipeline two decision requests are enough for each race on
the one read-check-write; executions share nothing but the hub's global feed,
whose connection is in the run; one fault can fall on every await. A fault
inside a failure handler is covered by the handler's own broadcast raising.

In run bridged requests of different teams meet through the flow record and the
set-up bridge, so one of each is enough; the one fault can hit any task, any
process or the moment between an event and its handling. Two stores show every
order of two merges, and a third change lets a store write after a merge and
after a load; JournalKept, RiskConsistent and MergeNeverUnderstates are proved
for any number. One agent with one server and a node has every race of the TTLs
with lost calls: agents share nothing but the room in the table, servers nothing
at all. With two agents, one may take that room and the other find it taken; the
one that is not recognised has its reports refused, so that its entry goes stale
while it runs (`MCBudgets`). TTLs of two ticks and a status interval of one let
a single lost call reach quarantine and two reach removal.

Tools share the monitor's lock, its file and the order of its transactions and
nothing else, so one tool shows what can happen to its windows and entries, and
the theorems are for any number. Windows of different lengths make one of them
full before the other, and a limit of 2 requests lets a burst begin and end. Two
faults allow a failed call on top of a restart.

Two proposals suffice for one to change the ground under the other: a member
removed and added under a new address during a vote, a quorum parameter
changed, or the pause lifted by a vote that is older than it. The proposed
values are one that is refused (0), one that no vote reaches and one that
overflows `MaxUint`, here 10. Two institutions and two accounts give every
overlap of roles that matters: an approver listed by both, a senior approver of
one, a minter that changes sides, an account that is the owner too. A permit
with two required approvals can be half approved when it is revoked. The
flow registry is wired to both registries at once; one without the other
(`Wirings`) is left to the theorems. Permit
keys share only the flow's initiator, and the theorems are for any number.

**Fairness.** `FairBridgedSpec` has the bridges' tasks and the approvers go on:
each task is a coroutine of a poll loop that runs for ever, and a request in
human review has somebody who decides; nobody has to open a flow or restart a
process. One weak fairness for all the bridges is enough, since each of their
steps takes a task further and the rounds run out. The contracts alone are
driven by parties nobody obliges, so no fairness is assumed of `Spec`. The
orchestrator's event loop runs every ready coroutine and everything awaited
answers or times out (httpx after 5 s for discovery and 15 s for an agent call,
MongoDB's server selection after 5 s): weak fairness per coroutine. Nobody has
to submit, decide, connect or fail. The monitor goes on when its write or its
RPC call returns, and the node mines what it took; reports, resets and restarts
need not come. In the governance, time passes every deadline and anyone may
execute a proposal, so somebody does; nobody has to propose or vote. In the
fleet `Scheduling` is what happens by the clock (ticks, loops that wake, calls
that arrive, evictions, syncs), and a tick waits for all that is due, so one
weak fairness gives every loop its turns; starting, executing and stopping are
not fair, and losses are bounded.

### What the violations show

1. `double_decision`: workflow.py:253 refuses a decision on a run that is not
   awaiting one, but reads the status at line 250 and moves it on at line 271,
   awaits in between.
2. `abis`: design/onboarding.flow.md:205 has the AML agent call
   `submitRecommendation` and the review go to InHumanReview; abis.py:207 leaves
   out the card hash the contract takes as its fourth argument, so the call has
   a selector the contract does not know. The other calls that hand something in
   are in the same state.
3. `graph`: onboarding_state.py:43-44 calls `phase_bitmask` a mirror of the
   on-chain bitmask; the phase gate sets its bits from the models'
   recommendations, while on the chain a human has yet to decide.

### Disagreements met by reading

These are not runs; where a property is concerned it names the case.

*Onboarding contracts.* CreditRiskOracle.sol:356-359 promises that after a
counter-proposal the bank may call `acceptTerms()`; the counter sets Pending and
`acceptTerms` (line 271) demands Negotiating (the second exception of
AbandonedOnlyByRounds). LegalOracle.sol:15-16 promises a trail of each round's
document hash; only `issueDraft` writes it, so a text of a markup or a
recommendation that is executed need not be on it. A second request of a team on
a flow that is complete announces ReadyToTransact again (OnboardingRegistry.sol:118).

*Graph and bridges.* onboarding_orchestrator_bridge.py:171 resets the AML status
"so aml_node calls continue_screening", but the node calls `screen_client`;
nothing assigns the legal status "approved", so the set-up node is unreachable;
`_on_phase_completed` may write back a mask older than the one there (line 212).
The prompt registry's bridge hashes another serialisation of a prompt than
prompt_verifier.py:30-41 checks, runtime_verifier.py imports a function
that langsmith_client.py does not have, and PROMPT_REGISTRY_ABI and
ONBOARDING_REGISTRY_ABI name functions the contracts lack.

*Orchestrator.* A dashboard that connects during the broadcast at workflow.py:272
makes it raise after the status became "running", and nothing continues the run
(the excuse of a lost coroutine in Settles; RFC.md:47 says the decision resumes
it). validation/tools.py has tiers at 0.75, 0.50, 0.30 and weights of its own
where SPECIFICATION.md:302-313 has 0.80, 0.60, 0.40 and others, and sends a
critical tier to a human where the specification rejects it. Without a violation
the highest score is 0.575, so the case only arises together with a
violation, which the code rejects.

*Bounds.* dynamic-autonomy-bounding.md:135 says a call of a suspended tool
returns an error; bounds_monitor.py:271 rewrites the file in place, and a server
that reads it between truncation and write takes the empty text for "nothing is
suspended". A write that fails answers 500 with the tool switched in memory, and
the file, the old one or a torn one, stays wrong until something else is
switched (`lapsed`). `has_recovered` ignores latency, so the report after a late
answer enables the tool again (line 161 of the same document); a restarted
monitor never enables the entries it left disabled on chain; the servers' own
reports carry the key `tool` where `post_report` wants `toolName`.

*Governance and permissions.* ConsortiumGovernance.sol:13 promises a timelock that
nothing enforces (`upgradeTimelock`, line 226). Removing an approver from one
institution makes `isApprover` false although another active institution lists
it, against IParticipantRegistry.sol:27-29.

*Agent registry.* With a `quarantine_ttl` of one second, which types.rs accepts,
the eviction runs once a second, and an agent that reports every second may be
stale again at each one: its mark then stays, and it is removed one
`removal_ttl` later (registry.rs:250-253). RemovedOnlyWhenSilent holds from two
seconds on. README.md:242 of agent-registry says that registering again or a
gossip update clears quarantine; `update_registry` keeps the health it finds and
`merge_addresses` updates neither health nor metrics (RFC.md:333). There is no
DELETE endpoint (RFC.md:228). The template's SIGTERM handler calls
`server.shutdown()` in the serving thread, which waits for itself.

*Workflow context.* DESIGN.md:26 claims that replicas converge; scalars keep the
local value, and crdt_backend.py:10 calls that "last writer wins". demo.py
makes its stores by loading the same bytes, so all log under one actor, and the
merged log drops changes that DESIGN.md:176 says it accumulates.

## 4. Theorems

For every value of the constants (any sets of flows, requests, agents, callers,
documents, tools, members, stores, any `MaxRound`, windows and limits), from the
named ASSUMEs (absent values are not members of the sets, the node is no server
and no agent; `ClientAgents` are agents; `MaxRound` is at least 1, as 255 is;
there is a document to draft; intervals are at least one tick, and so are the
TTLs, which `types.rs` enforces; some human holds an account that is no agent's;
...), and from the hypotheses in the last column:

| Theorem | Says | For |
|---|---|---|
| `TypeCorrect` | `Spec => [](TypeOK /\ Linked)` | |
| `DecisionsAgree` | `Spec => [](PhasesBacked /\ TerminatedByRejection /\ OneRejection /\ ReadyOnlyWhenDecided)` | |
| `Frozen` | `Spec => TerminatedFlowFrozen` | |
| `Refinement` | `Spec => RefinesOnboardingFlow` | |
| `OneRejectionAlways`, `SetupWaits` | `Spec => []OneRejection`, `Spec => []ReadyOnlyWhenDecided` | |
| `SignedTextTheorem` | `Spec => SignedTextFixed` | |
| `NotStuck` | `Spec => []NoRequestStuck` | |
| `RoundsSpentTheorem` | `Spec => []Ranked /\ [][RoundsSpent]_vars`: every transaction uses something up | |
| `BudgetTheorem` | `Spec => [](Budget \in 0..FullBudget) /\ [][BudgetSpent]_vars`: all together at most `FullBudget` transactions | finitely many flows and request ids |
| `BridgesWithinContracts` | `BridgedSpec => Spec`: what the bridges do is a behaviour of the contracts | |
| `DrivenDecisionsAgree` | `BridgedSpec =>` the agreements of `DecisionsAgree` | |
| `OneDriverAlways` | `BridgedSpec => []OneDriver` | |
| `DrivenStepsKept` | `BridgedSpec =>` `TerminatedFlowFrozen`, `SignedTextFixed` and `RefinesOnboardingFlow` | |
| `AbandonmentTheorem` | `BridgedSpec => []AbandonedOnlyByRounds` | `DesksBound` |
| `SetupTheorem` | `BridgedSpec => []SetupDriven` | `DesksBound` |
| `NeverLeftTheorem` | `BridgedSpec => []NeverLeft`: a flow has a next move or is settled | `DesksBound` |
| `AbisTheorem` | `BridgedSpec => []NothingHandedIn`: no review gets further than a demand for data | `Interface \subseteq AbisInterface` |
| `EffortTheorem` | `BridgedSpec => [](Effort \in Nat) /\ [][EffortSpent]_bvars`: every step leaves less to do | finitely many flows and request ids |
| `PipelineTyped` | `Spec => []TypeOK` of the pipeline | |
| `GateTheorem` | `Spec => []HumanGate` | |
| `QueueTheorem` | `Spec => []QueuedIsUntouched` | |
| `StatusTheorem` | `Spec => []StatusBacked` | |
| `DrivenTheorem` | `Spec => []RunningIsDriven`: a document that says running has a coroutine on its way | |
| `StepsTheorem` | `Spec => [](Ahead(t) \in 0..51) /\ [][GoesOn]_vars`: no coroutine goes on for ever | |
| `MonitorTyped` | `Spec => []TypeOK` of the bounds monitor | |
| `EnabledIsWithin` | `Spec => []EnabledWithinBounds` | |
| `ChainFollows` | `Spec => []ChainFollowsMonitor` | |
| `FileNeverStale` | `Spec => []FileAgrees` | |
| `UnderWayTheorem` | `Spec => []SuspensionsUnderWay`: the job in hand or the last transaction about the tool carries it | |
| `SuspensionTheorem` | `Spec => [][Nearing]_vars`: nothing gets ahead of a suspension on its way | |
| `SeatsTheorem` | `Spec => []SeatsMatch` of the governance | |
| `NeverEmptiedTheorem` | `Spec => []NeverEmptied` | |
| `OneVoteTheorem` | `Spec => []OneVotePerParticipant` | |
| `VotedTheorem` | `Spec => ChangesAreVoted` | |
| `BallotTheorem` | `Spec => BallotKept` | |
| `LockedTheorem` | `Spec => [][StaysLocked]_vars`: a quorum of more than everybody is for good | |
| `EverybodyTheorem` | `Spec => []EverybodySuffices`: with any other quorum a unanimous vote carries | |
| `RiskTheorem` | `ContextSpec => []RiskConsistent` | |
| `MergeTheorem` | `ContextSpec => MergeNeverUnderstates` | |
| `JournalTheorem` | `ContextSpec => []JournalKept` | |
| `HistoryTheorem` | `ContextSpec => []HistoryComplete` | |
| `FleetTyped` | `FleetSpec => []FleetTypeOK` | |
| `RemovalTheorem` | `FleetSpec => RemovedOnlyWhenSilent` | `QuarantineTTL > 1` |
| `ForgettingTheorem` | `FleetSpec => [][Fading]_fleetVars`: an entry nobody renews counts down to its removal | `QuarantineTTL > 1` |
| `SilenceTheorem` | `FleetSpec => [][FallsSilent]_fleetVars`: a stopped agent says nothing more | |
| `InformedTheorem` | `FleetSpec => [][StaysInformed]_fleetVars`: a server that knows the truth keeps it | |
| `LookupsTheorem` | `Spec => []LookupsBacked` of the permissions | |
| `SignaturesTheorem` | `Spec => []FreshSignatures` | |
| `CredentialsTheorem` | `Spec => []SignaturesCredentialed` | |
| `RevocationTheorem` | `Spec => []RevokedStaysRefused` | |
| `ConsentTheorem` | `Spec => []ConsentIsOwn` | |

The argument. The four agreements are inductive only together, and with three
helpers: `TypeOK`; `Linked` (a request names a flow exactly when it was opened,
otherwise a registry call could go nowhere); `Fresh` (an unopened flow has an
empty record and no request, otherwise opening it could meet old decisions).
Their conjunction is `IInv`. The 29 transactions are first reduced to what they
can do to the records: each oracle's step lemma (`AMLStepEffect`, ...) says that
it leaves decisions alone, passes one request, or fails one; `NextShape`
collects this into five shapes of step (quiet, open, pass, fail, set-up), and
each conjunct of `IInv` is then preserved by each shape. `Frozen` follows since
every transaction on a request demands `isActive`. `Refinement` maps the shapes
to the steps of `OnboardingFlow` (quiet to stuttering). `SignedTextFixed` needs
no invariant of the other contracts: a step that changes the text demands a
status that a signed request has left and never returns to.

No request is stuck. `NoRequestStuck` asks for a call that would be taken, so it
is stated with what the calls require and not with ENABLED. It rests on the
types, which leave a request four or five statuses, on `NoMarkup` (the status
MarkupSubmitted, from which no call leads on, is never assigned) and on the
assumption that somebody holds an account that is neither agent's.

The bridges. Each step is a transaction of the contracts or leaves them alone,
and the desks of the bridges are agents, so `BridgesWithinContracts` maps steps
to steps and every theorem about `Spec` carries over. `OneDriver` is not
inductive: whether a handler's answer fits the turn depends on the event that was
heard. The invariant `Driven` says that tasks are well formed, that an event is
only pending while its request has the status the event left it in (`AMLTurns`,
`CreditTurns`, `LegalTurns`), on a flow that is live or not, that no request has
two tasks (`Alone`), and that the answer to an offer is a counter-offer
(`Countering`; an acceptance would keep its task while the status moves on).

What the bridges leave behind. `DesksBound` says that each desk's agent is bound
to its own team's oracle; otherwise every call of a desk reverts. Of the
interface nothing is assumed: where a server may answer with a call that it does
not encode (`Unencoded`), the properties name that as one of the reasons a
request, or the set-up, is let go (`AMLLetGo`, `CreditLetGo`, `LegalLetGo`).
With the full interface these reasons vanish and the properties are those of run
bridged; with the one `abis.py` has, a request waits from the first answer on,
which is exactly what `AbisTheorem` says from the other side.
`AbandonedOnlyByRounds` and `SetupDriven` say that a task exists, and a task is
only of use if what it will send is accepted. So `BridgesInv` adds to `IInv` and
`Driven`: nobody but the bridges and the humans calls, so wallets, cards,
bindings and permissions are those of the deployment (`InPlace`); each request
names the desks it was opened by (`Staffed`); an answer fits the event it
answers, and an event says something of the credit request's past, that is which
of the two counters has been used (`Informed`); and while `faults` is 0 every
process is up and each request has its task or one of the two excuses
(`AMLAttended`, `CreditAttended`, `LegalAttended`). The step that matters is
`Revert`: by `InPlace` and `Staffed` nothing but the status, the round counter
and the encoding can have refused the call, by `Driven` the status is right, so
the counter is at its limit or the call is not encoded. `SetupDriven` needs more
than a task: one that looked at an outdated bitmask reverts. `SetupAwaited` says
that a live flow past its reviews has a task that has not looked yet or holds
exactly the call the registry waits for (`Awaits`); each accepted set-up call
emits the event that replaces the task it ends, and a task that reverts was not
the awaited one, or asked for a call the interface leaves out.

No flow is left. `NeverLeft` says of an opened flow, while `faults` is 0, that
it is settled or abandoned, or a task is about it, or a human may take the next
decision. To `BridgesInv` and `NoMarkup` it adds `Asked`: each team has a
request of a live flow, or a task is about to open one. A live flow past its
reviews has its task by `SetupAwaited`; before that some team has not passed,
and its request has a task, waits for a human who may decide (nobody's
permission was withdrawn, and the human holds no agent's account), or is
abandoned; a rejected one has ended the flow. `OutOfIds` is the one excuse that
the code does not have: request ids are hashes, and the model's sets of ids may
be used up by other flows.

The rounds. `AMLRank`, `CreditRank`, `LegalRank` and `FlowRank` are natural
numbers (twice the rounds left, plus the stage, plus missing signatures). No
step raises the rank of any request or flow and each transaction lowers one
(`RoundsSpent`). What is not a transaction, an agent that changes its account or a
permission that comes and goes, changes no rank, and those steps are told apart by
what they do change. A sum over a set would be an induction over data, so
`BudgetTheorem` adds the ranks up as one set: `Units` has a pair of a request
and a number for each number up to its rank, and a step that lowers a rank leaves
a strict subset, with a smaller cardinality. `Effort` counts on from there: four
for each unit of the budget, one for a task with its call and two for one that
waits for its server. A transaction takes at least four and announces tasks worth
three at most; an answer turns two into one; a reverted task is gone. So the
bridges come to rest, with no hypothesis on the interface or the desks. With
`NeverLeft` these are the two halves of `FlowSettles`, which adds fairness.

The pipeline. The documents are shared, so `PipelineInv` says of each coroutine,
at each place where it can stand, what it may assume of its document
(`TaskSound`), next to what holds of the document itself (`DocSound`). A run
that has not paused has its document to itself, because a decision request only
takes up a document that reads `awaiting_hitl`, and only a pause writes that; a
request beyond its check carries on a run that has paused for good. The phases
behind a coroutine's node are on record and never leave it, so two requests that
race only add to them. Who is let past the gate is the run with an approved
draft or a request whose decision is on record. `Assessed` is the arithmetic:
without a violation the composite stays below 0.60, so the high-risk case is
always a rejected one.

What a final status says. `StatusBacked` compares it with the decision on
record, which another coroutine may have written. `RecordSound` adds to
`PipelineInv` whose decision that is: on record is the draft's, or where a human
was asked, that of some request past its check (`Ruled`), and so with a
rejection that ends the run; a completion has somebody who let it through
(`DocSound`). A request that is on record keeps its decision (`RulingsStay`), so
that a status and a decision from two requests either agree or witness a dispute
(`Disputed`) for good.

A run settles. `RunningIsDriven` says that behind each document that reads
`running` there is a coroutine that has a status to write to it yet, or one that
a restart or an exception in the failure handler took away (`Drives`). Each
handler that writes `running` is followed by another, and a coroutine that
writes its last status writes another than `running`; the case that takes thought
is that of two decision requests, of which one finishes and the other puts the document
back to `running`, which then is the one that drives it. `Ahead` counts what a
coroutine has before it: four for each node on its longest way to an end, failure
included, and one for each leg of the broadcast between two nodes, over the
global feed first and the execution's own next. No step raises it for any
coroutine, and each step lowers it for one, except a viewer's connection and a
restart (`GoesOn`). For that `LoopsOwn` adds to `PipelineInv` that a broadcast
runs over no other execution's feed. There are finitely many coroutines, so their
steps run out, and what is left is settled: the two halves of `Settles`, to which
it adds fairness.

The workflow context. `RiskConsistent` is strengthened by the same of every saved
document, which a load brings back. `JournalKept` compares two stores, and the
one that merges or loads may come from anywhere, so `Kept` states it for all
pairs of stores and saved documents together: what either appended and the
other knows, the other has. `known` keeps the contents of events apart from the
changes, which are numbers (`Events` has none of those): a merge that unites equal
events loses neither. `HistoryComplete` is about numbers that collide: a
log numbers a change by its own length, which is no longer its own after a merge
or a load. `Audited` says that an actor not forked by a load has one store,
which knows all its changes (`Owned`), that its numbers are given once
(`MadeNumbered`), and that the log of that store has none twice and none above
its own cardinality (`Numbers`), so that the next number is new. A merged log
drops of two changes with one number the other one, and two distinct changes
have one number only under a forked actor (`JoinedLogs`). The first
record of a store has a number, but no effect, and may be dropped.

The fleet. `RemovedOnlyWhenSilent` compares the age of an entry with both TTLs,
but a removal reads the age of its mark, and a status report resets the one and
not the other. `Silent` is the invariant: an entry is not marked, or is as old as
the quarantine TTL and its mark together, or it was renewed since the last
eviction, and the next one, which is due before it can be stale, takes the mark
off. The last case needs an eviction interval below the quarantine TTL, which
`min(TTLs) / 2` is (`EvictionsOften`), unless that TTL is one second: hence
the hypothesis, and the case below it under "Disagreements met by reading". For
that, every timer is bounded by its interval (`FleetTypeOK`).

How the registries converge. `Due` is the number of ticks until an entry that is
not renewed is gone at the latest. It depends on the timer of the eviction as
much as on the two ages: a mark that the next eviction takes off again counts as
none (`Condemned`). `InTime` bounds the ages, so that `Due` is never
more than both TTLs and two evictions less a tick, and is preserved by all
that can happen to an entry (`Passes`: nothing, a tick, an eviction, a loss or
word of the agent). A registry that is not `Spoken` to lowers `Due` with every
tick and takes up nothing (`Fading`), the node too once no server lists the
agent; and after one tick an agent that stopped says nothing until it is started
again (`FallsSilent`). Those are the steps of `StoppedForgotten`: the servers
drop the agent, then the node does; that ticks go on is fairness. For
`RunningDiscovered`, `Informed` says that an entry and every report on its
way are the truth about a running agent with enough uptime; it stays so until
the agent serves a request or stops, whatever is lost, refused or restarted, and a
status report of a listed agent then makes it discoverable exactly if it is
reliable, provided that the server recognises the caller. Of an agent that is not
recognised nothing of the kind holds, and one that finds the registry full is not
listed.

The monitor. `EnabledWithinBounds` is inductive: its step rests on the lemma
that `has_recovered` vouches for the three rates, the same as an evaluation
that finds no violation. `ChainFollowsMonitor` is not, since it only speaks when
nothing is on its way. `FollowInv` adds what holds before that: the job in hand
says what the monitor holds of its tool, and for every other tool that is not
adrift the last transaction on its way under the tool's agent does, or the
entry when there is none. Sending appends to that queue, mining takes its head,
and the lock makes the job in hand the newest of all. The assumptions are the
named ASSUMEs: windows are not empty, the tool of no job is no tool, agents of
reports are agents.

A suspension that the chain does not know yet (`Waiting`) is the job in hand or,
by `FollowInv`, stands in a transaction on its way that is the last about its tool
(`NewestExists` has it that there is a last one: a sequence has no
induction here, so sending and mining keep it). `StepsLeft` is the place
of that transaction in the queue, or the place it will get and the writes before.
A step can only lower it, since what is sent stands behind and what is mined
stood before; and mining, and the handler's own steps, do lower it (`Nearing`).
Those are the steps of `SuspensionReachesChain`, at most the queue and four.
`FileAgrees` is inductive with that much: a file that is written tells all, a
failed write leaves out the tools of `BeingWritten`, which join `lapsed`, and no
other tool is switched until it ends, since the handler holds the lock.

The governance. `IInv` is `TypeOK`, `SeatsMatch`, `NeverEmptied`,
`OneVotePerParticipant` and `UnusedIds` (an id nobody has created holds nothing;
otherwise a proposal could start with votes). A vote for adds its participant to
`supporters`, where it was not since it had not voted, so the count stays the set's
cardinality. `ChangesAreVoted` then needs only arithmetic: the rounded-up quorum,
reached by `votesFor`, is at least the voted share of `Cardinality(active)`, since
`memberCount` is that cardinality. It is the number of supporters that has to make
up the share of the members there are; supporters who have left are among them,
because the contract takes no vote back.

What a quorum can do to the consortium follows from the same arithmetic.
`_applyParamChange` checks numerator and denominator for zero, each on its own,
so a vote may make the share more than one. From then on, once no active
proposal has supporters among former members (`Locked`), no proposal is ever
executed again: votes are votes of members, and the share asks for more of them
than there are. Nobody joins or leaves, the quorum stays, and the pause, which
any member can still set, is never lifted. (With votes of former members the
count may still reach the quorum: `castVote` does not take them back.) Up to a
share of one the members can always act together, since rounding up never asks
for more votes than there are members (`EverybodySuffices`).

The permissions. `IInv` adds to the properties that `approvalCount` is the
cardinality of the accounts that signed since the grant, all of whom are
recorded as having voted (`CountsSigned`), and that a revoked key has no permit
(`RevokedGone`). That an account past the gate is listed follows from the
definition of the lookups; that a minter's institution lists it, from
`LookupsBacked`. That has two directions: the lookups are backed by the lists,
and a listed account is found. The second fails where two institutions list one
approver (see the disagreements), and is shown for every account that never was
`shared`; a minter never is, since `_addMinter` refuses one that stands for
another institution. Here the assumptions are that the set of accounts is finite
and that the inputs have their types.

Only model-checked. Liveness under fairness is beyond the prover; of most such
properties the theorems hold the safety half, a measure that falls and a next
step that is always there: RoundsRunOut (`BudgetTheorem`), FlowSettles
(`NeverLeftTheorem` and `EffortTheorem`), Settles (`DrivenTheorem` and
`StepsTheorem`), SuspensionReachesChain (`UnderWayTheorem` and
`SuspensionTheorem`), StoppedForgotten (`SilenceTheorem` and
`ForgettingTheorem`), RunningDiscovered (`InformedTheorem`). ProposalsSettle
asks whether an approved proposal can be executed, which is a matter of ENABLED;
that what is settled stays settled is in `BallotTheorem`. All other properties
of passing runs are proved.

What the proofs changed in the model. The eviction timer of the node fell under
two arms of the CASE in `Interval`, of which TLC took the first and which
the semantics leaves open; the arm of the sync is now its own. So did two loops
of a broadcast in `NextLoop`, now a chain of IFs in the order of the code; and an
execution id that is one of the hub's marks would have been taken for it
(`FeedsAssumption`). `Revert` was the negation of ENABLED and is now written
out. The theorems asked for the assumptions that absent entries are no entries
(`AbsentAssumption`) and that the node is no bootstrap server
(`NodeAssumption`), that a round is possible and that there is a document.

## 5. Not modelled

Inside modelled parts: the contents of strings and hashes, event logs, the
signatures of `setAgentWallet`, gas, proxy upgrades, the prompts and the models
behind MCP answers, TLS and attestation headers, `--mock`, the Automerge
backend, filters of discovery by capability, the validation of registrations and
reports (400), a failing DNS lookup in the ownership check of a status report
(for the agent no different from a lost call), which names the two disagree on
(a constant, `Recognised`), how often a list of the workflow context holds equal
contents. LangGraph checkpoints are in memory, so a restarted orchestrator
starts from nothing.

As components: the phase agents other than validation, and the data router, are
stateless services in front of a model; dashboards only render; MockMultiSig is
a stand-in for an external wallet; the dataset, prompt, trace and reputation
registries have one writer per entry and no interaction; the provenance
manifest and the prompt registry are sequential hashing and signing; the Sui
registry is Move code behind a chain with an event-driven read model, whose
runtime is not in this repository.

## 6. Open ends

1. Proofs: the liveness properties from their safety cores, once
   the prover handles fairness.
2. The bridges' preflight over the permission registries: a permit, consent or
   enabled tool that is withdrawn between preflight and transaction. Here a
   denied preflight is one of the faults of `Drop`.
3. The Sui registry's read model, if its event source enters the repository.
