------------------------- MODULE ExecutionPipeline -------------------------
(***************************************************************************)
(* The six-phase pipeline of the reference orchestrator (workflow.py,      *)
(* persistence.py, main.py).  Coroutines of one event loop share the       *)
(* MongoDB documents of the executions: the background run of each         *)
(* execution, and the hitl-decision requests, which turn into background   *)
(* continuations once their decision is recorded.  A step is the code      *)
(* between two awaits: one database update, or one leg of the broadcast    *)
(* that follows it.  Agent calls touch no shared state, so each belongs to *)
(* the step of the update it precedes.                                     *)
(***************************************************************************)
EXTENDS EventHub, Naturals

CONSTANTS
  Requests,     \* hitl-decision requests
  NoExecution,  \* the target of a request that was not made yet
  AccountShares, \* account values of applications, in percent of 500,000
  MaxFaults     \* how many agent calls, updates or processes fail

ASSUME PipelineAssumption ==
  /\ Executions \cap Requests = {}
  /\ Tasks = Executions \cup Requests
  /\ NoExecution \notin Executions
  /\ AccountShares \subseteq {s \in 0..100 : s % 4 = 0}
  /\ MaxFaults \in Nat

VARIABLES
  store,        \* the executions collection
  task,         \* where each coroutine is
  faults

vars == <<hubVars, store, task, faults>>

Phases == {"contract", "planning", "validation", "execution", "context",
           "communication"}
Decisions == {"approved", "rejected", "modified"}
Outcomes == {"approved", "rejected", "hitl_pending"}

(* What the validation agent assesses: the account's value, whether the
   negotiation accepted the budget, whether the profile is European, whether
   there are two documents, and whether a policy is violated.              *)
Applications == [share: AccountShares, accepted: BOOLEAN, european: BOOLEAN,
                 documented: BOOLEAN, violation: BOOLEAN]

(* The composite of handle_assess in 1/10000: the weights in percent times
   the dimensions in percent.  On these shares its rounding is exact.      *)
CompositeScore(a) ==
  25 * a.share
    + 20 * (IF a.accepted THEN 15 ELSE 50)
    + 35 * (IF a.violation THEN 95 ELSE IF a.european THEN 20 ELSE 30)
    + 20 * (IF a.documented THEN 15 ELSE 60)

RiskTier(score) ==
  CASE score >= 7500 -> "critical"
    [] score >= 5000 /\ score < 7500 -> "high"
    [] score >= 3000 /\ score < 5000 -> "medium"
    [] score < 3000 -> "low"

(* Mutant: the tier is looked at before the policy check.                  *)
EscalationOfTier(tier, violation) ==
  IF tier \in {"high", "critical"} THEN "hitl_pending"
  ELSE IF violation THEN "rejected" ELSE "approved"

(* "approved_with_enhanced_monitoring" is an approval like any other to
   node_validation, and stands under that name here.                       *)
EscalationOutcome(tier, violation) ==
  IF violation THEN "rejected"
  ELSE IF tier \in {"high", "critical"} THEN "hitl_pending" ELSE "approved"

(* The draft of an application: its outcome, whether it reports a policy
   violation, and whether its composite reaches the 0.60 from which
   SPECIFICATION.md:312 asks for a human.                                  *)
Assess(a) ==
  [draft |-> EscalationOutcome(RiskTier(CompositeScore(a)), a.violation),
   violation |-> a.violation, highRisk |-> CompositeScore(a) >= 6000]

Assessments == {Assess(a) : a \in Applications}

Document == [status: {"none", "running", "awaiting_hitl", "completed", "rejected",
                      "failed"},
             phases: SUBSET Phases,
             draft: Outcomes \cup {"none"},
             violation: BOOLEAN,
             highRisk: BOOLEAN,
             decision: Decisions \cup {"none"}]

(* The nodes of the graphs, and around them: the request handlers' steps
   ("submit", "hitl", "resume"), the final and the error status ("finish",
   "failure"), and the ends: "done", "errored" by an exception nobody
   handles, "lost" in a restart.                                           *)
Ended == {"done", "errored", "lost"}
Nodes == Phases \cup Ended \cup
  {"idle", "submit", "draft", "hitl", "resume", "finish", "failure"}

Coroutine == [target: Executions \cup {NoExecution}, node: Nodes,
              at: {"work", "cast"}, decision: Decisions \cup {"none"}]

TypeOK ==
  /\ HubTypeOK
  /\ store \in [Executions -> Document]
  /\ task \in [Tasks -> Coroutine]
  /\ faults \in 0..MaxFaults

Init ==
  /\ HubInit
  /\ store = [e \in Executions |->
       [status |-> "none", phases |-> {}, draft |-> "none", violation |-> FALSE,
        highRisk |-> FALSE, decision |-> "none"]]
  /\ task = [t \in Tasks |->
       [target |-> IF t \in Executions THEN t ELSE NoExecution, node |-> "idle",
        at |-> "work", decision |-> "none"]]
  /\ faults = 0

-----------------------------------------------------------------------------
Doc(t) == store[task[t].target]

(* Mutant: the pause has no route of its own.                              *)
RouteWithoutPause(t) ==
  IF task[t].decision = "rejected" THEN "communication" ELSE "execution"

(* The route out of each node, once its update and broadcast are through.  *)
RouteAfterValidation(t) ==
  IF Doc(t).draft = "hitl_pending" THEN "done"
  ELSE IF task[t].decision = "rejected" THEN "communication" ELSE "execution"

Following(t) ==
  CASE task[t].node = "contract" -> "planning"
    [] task[t].node = "planning" -> "draft"
    [] task[t].node = "validation" -> RouteAfterValidation(t)
    [] task[t].node = "execution" -> "context"
    [] task[t].node = "context" -> "communication"
    [] task[t].node = "communication" -> "finish"
    [] task[t].node = "hitl" -> "resume"
    [] task[t].node = "resume" ->
         IF task[t].decision = "rejected" THEN "communication" ELSE "execution"
    [] task[t].node \in {"finish", "failure"} -> "done"

(* An exception inside a background task is caught once and turned into
   the status "failed"; in a request handler it ends the request.          *)
Handler(t) ==
  IF task[t].node \in {"submit", "hitl", "resume", "failure"} THEN "errored"
  ELSE "failure"

GoTo(t, node) == task' = [task EXCEPT ![t].node = node, ![t].at = "work"]

AtWork(t, node) == task[t].node = node /\ task[t].at = "work"

(* One update of t's document by a node that broadcasts what it did.       *)
Update(t, doc) ==
  /\ store' = [store EXCEPT ![task[t].target] = doc]
  /\ UNCHANGED <<hubVars, faults>>

ThenCast(t) == task' = [task EXCEPT ![t].at = "cast"]

-----------------------------------------------------------------------------
Submit(e) ==
  /\ AtWork(e, "idle")
  /\ Update(e, [store[e] EXCEPT !.status = "running"])
  /\ GoTo(e, "submit")

Launch(e) ==
  /\ AtWork(e, "submit")
  /\ GoTo(e, "contract")
  /\ UNCHANGED <<hubVars, store, faults>>

(* node_contract, node_planning, node_execution, node_context and the
   first half of node_communication, by way of _call_phase_agent.          *)
CallPhaseAgent(t) ==
  \E node \in Phases \ {"validation"} :
    /\ AtWork(t, node)
    /\ Update(t, [Doc(t) EXCEPT !.phases = @ \cup {node}])
    /\ ThenCast(t)

SaveValidationDraft(t) ==
  /\ AtWork(t, "draft")
  /\ \E assessed \in Assessments :
       Update(t, [Doc(t) EXCEPT !.draft = assessed.draft,
                                !.violation = assessed.violation,
                                !.highRisk = assessed.highRisk])
  /\ GoTo(t, "validation")

PauseForHuman(t) ==
  /\ AtWork(t, "validation")
  /\ Doc(t).draft = "hitl_pending"
  /\ Update(t, [Doc(t) EXCEPT !.status = "awaiting_hitl"])
  /\ ThenCast(t)

DecideAutomatically(t) ==
  /\ AtWork(t, "validation")
  /\ Doc(t).draft # "hitl_pending"
  /\ Update(t, [Doc(t) EXCEPT !.phases = @ \cup {"validation"},
                              !.decision = Doc(t).draft])
  /\ task' = [task EXCEPT ![t].at = "cast", ![t].decision = Doc(t).draft]

(* Mutants: a rejection keeps the status it finds; the decision on record  *)
(* is read instead of the one the coroutine carries; a modified approval   *)
(* is not taken for one.                                                   *)
FinishCompletions(t) ==
  /\ AtWork(t, "finish")
  /\ Update(t, [Doc(t) EXCEPT !.status =
       IF task[t].decision \in {"approved", "modified"} THEN "completed" ELSE @])
  /\ ThenCast(t)

FinishFromRecord(t) ==
  /\ AtWork(t, "finish")
  /\ Update(t, [Doc(t) EXCEPT !.status =
       IF Doc(t).decision \in {"approved", "modified"} THEN "completed" ELSE "rejected"])
  /\ ThenCast(t)

FinishApprovals(t) ==
  /\ AtWork(t, "finish")
  /\ Update(t, [Doc(t) EXCEPT !.status =
       IF task[t].decision = "approved" THEN "completed" ELSE "rejected"])
  /\ ThenCast(t)

(* The final status comes from the decision the coroutine carries, not from
   the one on record.                                                      *)
Finish(t) ==
  /\ AtWork(t, "finish")
  /\ Update(t, [Doc(t) EXCEPT !.status =
       IF task[t].decision \in {"approved", "modified"} THEN "completed" ELSE "rejected"])
  /\ ThenCast(t)

SetFailed(t) ==
  /\ AtWork(t, "failure")
  /\ Update(t, [Doc(t) EXCEPT !.status = "failed"])
  /\ ThenCast(t)

(* The request reads the document; a request refused here changes nothing.
   What it read is not read again before the steps that follow.            *)
ReceiveDecision(q, e, decision) ==
  /\ AtWork(q, "idle")
  /\ store[e].status = "awaiting_hitl"
  /\ task' = [task EXCEPT ![q] =
       [target |-> e, node |-> "hitl", at |-> "work", decision |-> decision]]
  /\ UNCHANGED <<hubVars, store, faults>>

RecordDecision(q) ==
  /\ AtWork(q, "hitl")
  /\ Update(q, [Doc(q) EXCEPT !.phases = @ \cup {"validation"},
                              !.decision = task[q].decision])
  /\ ThenCast(q)

(* Mutant: the status is not moved on.                                     *)
SetRunningForgotten(q) ==
  /\ AtWork(q, "resume")
  /\ UNCHANGED <<hubVars, store, faults>>
  /\ ThenCast(q)

SetRunning(q) ==
  /\ AtWork(q, "resume")
  /\ Update(q, [Doc(q) EXCEPT !.status = "running"])
  /\ ThenCast(q)

(* The next leg of the broadcast; after the last one, the next node.       *)
Broadcast(t) ==
  /\ task[t].at = "cast"
  /\ SendOn(t, task[t].target)
  /\ IF NextLoop(t, task[t].target) = "off" THEN GoTo(t, Following(t))
                                            ELSE UNCHANGED task
  /\ UNCHANGED <<store, faults>>

BroadcastRaises(t) ==
  /\ task[t].at = "cast"
  /\ LoopRaises(t)
  /\ GoTo(t, Handler(t))
  /\ UNCHANGED <<store, faults>>

(* An agent is missing, down or times out, or the database is, before the
   update or at the event that is recorded behind it.                      *)
WorkRaises(t) ==
  /\ faults < MaxFaults
  /\ looping[t] = "off"
  /\ task[t].node \notin Ended \cup {"idle"}
  /\ faults' = faults + 1
  /\ GoTo(t, Handler(t))
  /\ UNCHANGED <<hubVars, store>>

(* The process dies and starts again: lifespan only reconnects to MongoDB. *)
Restart ==
  /\ faults < MaxFaults
  /\ faults' = faults + 1
  /\ task' = [t \in Tasks |->
       IF task[t].node \in Ended \cup {"idle"} THEN task[t]
       ELSE [task[t] EXCEPT !.node = "lost", !.at = "work"]]
  /\ HubRestart
  /\ UNCHANGED store

-----------------------------------------------------------------------------
TaskStep(t) ==
  \/ CallPhaseAgent(t)
  \/ SaveValidationDraft(t)
  \/ PauseForHuman(t)
  \/ DecideAutomatically(t)
  \/ Finish(t)
  \/ SetFailed(t)
  \/ RecordDecision(t)
  \/ SetRunning(t)
  \/ Broadcast(t)
  \/ BroadcastRaises(t)

Next ==
  \/ \E e \in Executions : Submit(e) \/ Launch(e)
  \/ \E q \in Requests, e \in Executions, decision \in Decisions :
       ReceiveDecision(q, e, decision)
  \/ \E t \in Tasks : TaskStep(t)
  \/ \E t \in Tasks : WorkRaises(t)
  \/ Restart
  \/ HubNext /\ UNCHANGED <<store, task, faults>>

Spec == Init /\ [][Next]_vars

(* The event loop runs every ready coroutine, and everything a coroutine
   awaits answers or times out (httpx after 5 or 15 s, MongoDB after 5 s).
   Nobody has to submit, decide, connect or fail.                          *)
FairSpec ==
  /\ Spec
  /\ \A e \in Executions : WF_vars(Launch(e))
  /\ \A t \in Tasks : WF_vars(TaskStep(t))

-----------------------------------------------------------------------------
(* A request whose decision is on record, and possibly acted upon.         *)
Recorded(q) ==
  /\ task[q].target # NoExecution
  /\ ~(task[q].node = "hitl" /\ task[q].at = "work")

(* SPECIFICATION.md:312, "MUST NOT proceed to Phase 4 without human        *)
(* approval": whatever application was assessed and whatever races, faults *)
(* and restarts followed, an execution of high risk, or one the assessment *)
(* sent to a human, reaches phase 4 only on a decision of some human that  *)
(* lets it; and one that violates a policy never does (line 313).          *)
HumanGate ==
  \A e \in Executions :
    "execution" \in store[e].phases =>
      /\ ~store[e].violation
      /\ store[e].highRisk \/ store[e].draft = "hitl_pending" =>
           \E q \in Requests : /\ task[q].target = e /\ Recorded(q)
                               /\ task[q].decision \in {"approved", "modified"}

(* An execution in the approval queue has run nothing behind the gate, so  *)
(* the human decides on something that has not happened yet.               *)
QueuedIsUntouched ==
  \A e \in Executions :
    store[e].status = "awaiting_hitl" =>
      /\ store[e].draft = "hitl_pending"
      /\ store[e].phases \subseteq {"contract", "planning", "validation"}

(* One human let an execution pass and another rejected it.                *)
Disputed(e) ==
  \E p, q \in Requests :
    /\ task[p].target = e /\ Recorded(p) /\ task[p].decision = "rejected"
    /\ task[q].target = e /\ Recorded(q) /\ task[q].decision # "rejected"

(* The status a run ends with is the one of the decision on record, which  *)
(* another coroutine may have written, except where two requests disagreed *)
(* on one pause.  And it tells which phases are on record: all six behind  *)
(* a completion, and behind a rejection a decision and its delivery.       *)
StatusBacked ==
  \A e \in Executions :
    /\ store[e].status \in {"completed", "rejected"} /\ ~Disputed(e) =>
         (store[e].status = "rejected" <=> store[e].decision = "rejected")
    /\ store[e].status = "completed" => store[e].phases = Phases
    /\ store[e].status = "rejected" =>
         {"contract", "planning", "validation", "communication"} \subseteq store[e].phases
    /\ "context" \in store[e].phases => "execution" \in store[e].phases

(* A run either leaves the status "running", or one of its coroutines was  *)
(* lost or died of an exception that nobody handles.                       *)
Settles ==
  \A e \in Executions :
    store[e].status = "running" ~>
      \/ store[e].status # "running"
      \/ \E t \in Tasks : task[t].target = e /\ task[t].node \in {"errored", "lost"}

(* workflow.py:253-254 refuses a decision on an execution that "is not     *)
(* awaiting a HITL decision": so a pause takes one decision.               *)
OneDecisionPerPause ==
  \A p, q \in Requests :
    Recorded(p) /\ Recorded(q) /\ task[p].target = task[q].target => p = q
=============================================================================
