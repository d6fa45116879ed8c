--------------------------- MODULE OnboardingGraph ---------------------------
(***************************************************************************)
(* The orchestrator's LangGraph view of one flow: a state of its own that  *)
(* the review nodes advance by asking the same MCP servers the bridges     *)
(* ask, that the phase gate sums up, and that the orchestrator bridge      *)
(* overwrites from chain events.  The chain is the abstract OnboardingFlow *)
(* (the humans decide there); the graph sends nothing to it after the flow *)
(* is opened.  The runtime is external: it runs a scheduled node on the    *)
(* state it finds, merges what the node returns, follows the edges, and    *)
(* parks a node that interrupts until the graph is resumed.                *)
(***************************************************************************)
EXTENDS OnboardingFlow, TLC

CONSTANTS
  Flow,       \* one of Flows, the graph's thread id
  MaxEvents   \* a model bound: the chain events of the data, credit and legal loops

VARIABLES
  graph,      \* OnboardingState: the channels the nodes and routes read
  scheduled,  \* the nodes the runtime will run next
  running,    \* the nodes waiting for their MCP server, with the state they read
  parked,     \* the nodes that interrupted
  handlers,   \* PhaseCompleted handlers, with the bitmask each has read
  events      \* how many loop events were emitted

graphVars == <<graph, scheduled, running, parked, handlers, events>>
gvars == <<flowVars, graphVars>>

Nodes == {"initiate", "aml", "credit", "legal", "phase_gate", "client_setup"}
AMLStatuses == {"pending", "data_requested", "cleared", "rejected", "error"}
CreditStatuses == {"pending", "data_requested", "terms_proposed", "counter_proposed",
                   "approved", "rejected", "error"}
LegalStatuses == {"pending", "draft_issued", "markup_received", "human_review",
                  "approved", "rejected", "error"}
Bits == 0..5
ReviewBits == 0..2

GraphState == [aml: AMLStatuses, credit: CreditStatuses, legal: LegalStatuses,
               mask: SUBSET Bits, terminated: BOOLEAN]

GraphTypeOK ==
  /\ graph \in GraphState
  /\ scheduled \cup parked \subseteq Nodes
  /\ handlers \subseteq SUBSET Bits
  /\ events \in 0..MaxEvents

(* The bitmask on the chain: bits 0 to 2 for the reviews, then set-up.     *)
ChainMask ==
  {b \in ReviewBits : <<"aml", "credit", "legal">>[b + 1] \in passed[Flow]}
    \cup {b \in 3..5 : b - 2 <= setup[Flow]}

InitialState == [aml |-> "pending", credit |-> "pending", legal |-> "pending",
                 mask |-> {}, terminated |-> FALSE]

GraphInit ==
  /\ Init
  /\ graph = InitialState
  /\ scheduled = {} /\ running = {} /\ parked = {}
  /\ handlers = {} /\ events = 0

-----------------------------------------------------------------------------
(* What a node returns for the state it reads: one of these updates.       *)
Nothing == {<<>>}

InitiateNode(s) == {[aml |-> "pending", credit |-> "pending", legal |-> "pending"]}

(* The model's recommendation, not the human's decision, ends the review.  *)
AMLNode(s) ==
  IF s.aml = "pending"
    THEN {[aml |-> a] : a \in {"data_requested", "cleared", "rejected"}}
    ELSE Nothing

CreditResult(actions) ==
  {[credit |-> CASE a = "request_documents" -> "data_requested"
                 [] a = "propose_terms" -> "terms_proposed"
                 [] a \in {"accept_terms", "approve"} -> "approved"
                 [] OTHER -> "rejected"] : a \in actions}

CreditNode(s) ==
  CASE s.credit = "pending" ->
         CreditResult({"request_documents", "propose_terms", "approve", "decline"})
    [] s.credit = "counter_proposed" ->
         CreditResult({"request_documents", "propose_terms", "accept_terms", "approve",
                       "decline"})
    [] OTHER -> Nothing

LegalNode(s) ==
  CASE s.legal = "pending" -> {[legal |-> "draft_issued"]}
    [] s.legal = "markup_received" -> {[legal |-> l] : l \in {"draft_issued", "human_review"}}
    [] OTHER -> Nothing

PhaseGateNode(s) ==
  {[mask |-> s.mask \cup {b \in ReviewBits : \/ b = 0 /\ s.aml = "cleared"
                                             \/ b = 1 /\ s.credit = "approved"
                                             \/ b = 2 /\ s.legal = "approved"},
    terminated |-> s.terminated \/ {"rejected", "error"} \cap {s.aml, s.credit, s.legal} # {}]}

(* The bit of the first set-up step that is missing.                       *)
ClientSetupNode(s) ==
  LET missing == (3..5) \ s.mask
  IN IF missing = {} THEN Nothing
     ELSE {[mask |-> s.mask \cup {CHOOSE b \in missing : \A c \in missing : b <= c}]}

Returns(n, s) ==
  CASE n = "initiate" -> InitiateNode(s)
    [] n = "aml" -> AMLNode(s)
    [] n = "credit" -> CreditNode(s)
    [] n = "legal" -> LegalNode(s)
    [] n = "phase_gate" -> PhaseGateNode(s)
    [] n = "client_setup" -> ClientSetupNode(s)

(* The states in which a node calls interrupt(), before it returns; set-up *)
(* does so after its call, except for the last step.                       *)
Interrupts(n, s) ==
  \/ n = "aml" /\ s.aml = "data_requested"
  \/ n = "credit" /\ s.credit \in {"data_requested", "terms_proposed"}
  \/ n = "legal" /\ s.legal \in {"draft_issued", "human_review"}
  \/ n = "client_setup" /\ {3, 4} \ s.mask # {}

-----------------------------------------------------------------------------
(* The edges out of a node.                                                *)
AMLRoute(s) == IF s.aml \in {"cleared", "rejected", "error"} THEN {"phase_gate"} ELSE {"aml"}
CreditRoute(s) ==
  IF s.credit \in {"approved", "rejected", "error"} THEN {"phase_gate"} ELSE {"credit"}
LegalRoute(s) ==
  IF s.legal \in {"approved", "rejected", "error"} THEN {"phase_gate"} ELSE {"legal"}
PhaseGateRoute(s) ==
  IF /\ ~s.terminated
     /\ s.aml = "cleared" /\ s.credit = "approved" /\ s.legal = "approved"
    THEN {"client_setup"} ELSE {}
SetupRoute(s) == IF 5 \in s.mask THEN {} ELSE {"client_setup"}

(* The graph as build_graph wires it.                                      *)
Edges(n, s) ==
  CASE n = "initiate" -> {"aml", "credit", "legal"}
    [] n = "aml" -> AMLRoute(s)
    [] n = "credit" -> CreditRoute(s)
    [] n = "legal" -> LegalRoute(s)
    [] n = "phase_gate" -> PhaseGateRoute(s)
    [] n = "client_setup" -> SetupRoute(s)

(* The channels a node and the edges out of it read.                       *)
Reads(n) ==
  CASE n = "initiate" -> <<>>
    [] n = "aml" -> [aml |-> graph.aml]
    [] n = "credit" -> [credit |-> graph.credit]
    [] n = "legal" -> [legal |-> graph.legal]
    [] n = "phase_gate" -> graph
    [] n = "client_setup" -> [mask |-> graph.mask]

-----------------------------------------------------------------------------
(* The runtime.                                                            *)
RunNode(n) ==
  /\ n \in scheduled
  /\ \A t \in running : t.node # n
  /\ scheduled' = scheduled \ {n}
  /\ IF Interrupts(n, graph)
       THEN parked' = parked \cup {n} /\ UNCHANGED running
       ELSE running' = running \cup {[node |-> n, seen |-> Reads(n)]} /\ UNCHANGED parked
  /\ UNCHANGED <<flowVars, graph, handlers, events>>

(* The initiate node opens the flow on the chain before it returns.        *)
FinishNode(t) ==
  /\ IF t.node = "initiate" THEN Open(Flow) ELSE UNCHANGED flowVars
  /\ \E delta \in Returns(t.node, t.seen) :
       /\ graph' = delta @@ graph
       /\ scheduled' = scheduled \cup Edges(t.node, delta @@ t.seen)
  /\ running' = running \ {t}
  /\ UNCHANGED <<parked, handlers, events>>

(* aupdate_state followed by ainvoke(Command(resume=True)).                *)
Inject(delta) ==
  /\ graph' = delta @@ graph
  /\ scheduled' = scheduled \cup parked
  /\ parked' = {}
  /\ UNCHANGED <<flowVars, running>>

-----------------------------------------------------------------------------
(* The orchestrator bridge.                                                *)
HandleInitiate ==
  /\ Flow \notin opened
  /\ scheduled = {} /\ running = {}
  /\ scheduled' = {"initiate"}
  /\ UNCHANGED <<flowVars, graph, running, parked, handlers, events>>

LoopEvent ==
  /\ Live(Flow)
  /\ events < MaxEvents
  /\ events' = events + 1
  /\ UNCHANGED handlers

OnAMLDataFulfilled == LoopEvent /\ Inject([aml |-> "pending"])
OnCreditCounterProposed == LoopEvent /\ Inject([credit |-> "counter_proposed"])
OnLegalMarkupSubmitted == LoopEvent /\ Inject([legal |-> "markup_received"])

(* A phase completes on the chain; its handler reads the bitmask, and      *)
(* writes what it read some time later.                                    *)
ChainStep ==
  /\ \/ \E t \in Teams : Pass(Flow, t)
     \/ SetUp(Flow)
  /\ handlers' = handlers \cup {ChainMask'}
  /\ UNCHANGED <<graph, scheduled, running, parked, events>>

ChainEnds ==
  /\ \E t \in Teams : Fail(Flow, t)
  /\ UNCHANGED graphVars

OnPhaseCompleted ==
  \E read \in handlers :
    /\ Inject([mask |-> read])
    /\ handlers' = handlers \ {read}
    /\ UNCHANGED events

GraphNext ==
  \/ HandleInitiate
  \/ \E n \in Nodes : RunNode(n)
  \/ \E t \in running : FinishNode(t)
  \/ OnAMLDataFulfilled \/ OnCreditCounterProposed \/ OnLegalMarkupSubmitted
  \/ ChainStep \/ OnPhaseCompleted \/ ChainEnds

GraphSpec == GraphInit /\ [][GraphNext]_gvars

-----------------------------------------------------------------------------
(* onboarding_state.py:43-44 calls phase_bitmask "Phase tracking (mirrors  *)
(* on-chain bitmask)", "current on-chain bitmask": a bit the graph has is  *)
(* a phase the chain completed.                                            *)
MaskMirrorsChain == graph.mask \subseteq ChainMask
=============================================================================
