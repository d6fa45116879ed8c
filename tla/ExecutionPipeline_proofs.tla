---------------------- MODULE ExecutionPipeline_proofs ----------------------
(***************************************************************************)
(* The human gate of the pipeline, the untouched queue and the meaning of  *)
(* the final statuses, for any executions, decision requests, connections, *)
(* applications and faults.  They are inductive together with what each    *)
(* coroutine may assume at the place where it stands: a run that has not   *)
(* paused has no decision request, a request only ever continues a run     *)
(* that paused, and neither gets past the gate with another decision than  *)
(* the draft's or a human's.                                               *)
(***************************************************************************)
EXTENDS ExecutionPipeline, TLAPS

-----------------------------------------------------------------------------
(* What the validation agent can say: a violation is always rejected, and  *)
(* without one no application reaches a composite of 0.60.                 *)
LEMMA Assessed ==
  ASSUME NEW s \in Assessments
  PROVE  /\ s.draft \in Outcomes
         /\ s.violation \in BOOLEAN /\ s.highRisk \in BOOLEAN
         /\ s.violation \/ s.highRisk => s.draft = "rejected"
<1>1. PICK a \in Applications : s = Assess(a) BY DEF Assessments
<1>2. a.share \in Nat /\ a.share <= 100
  <2>1. a.share \in AccountShares BY DEF Applications
  <2>2. a.share \in 0..100 BY <2>1, PipelineAssumption
  <2> QED BY <2>2
<1>3. a.violation \in BOOLEAN BY DEF Applications
<1>4. ~a.violation => CompositeScore(a) < 6000
  BY <1>2, <1>3 DEF CompositeScore
<1>5. CompositeScore(a) \in Nat BY <1>2 DEF CompositeScore
<1>6. s.highRisk => a.violation BY <1>1, <1>3, <1>4, <1>5 DEF Assess
<1> QED BY <1>1, <1>3, <1>6 DEF Assess, EscalationOutcome, Outcomes

-----------------------------------------------------------------------------
Before == {"idle", "submit", "contract", "planning", "draft"}
Behind == {"execution", "context", "communication", "finish"}
Casting == Phases \cup {"hitl", "resume", "finish", "failure"}

(* The run of e has paused, or ended, or is failing.                       *)
Paused(e) ==
  \/ task[e].node \in Ended \cup {"failure"}
  \/ task[e].node = "validation" /\ task[e].at = "cast"

LetThrough(e) ==
  \E q \in Requests : /\ task[q].target = e /\ Recorded(q)
                      /\ task[q].decision \in {"approved", "modified"}

DocSound(e) ==
  /\ store[e].violation \/ store[e].highRisk => store[e].draft = "rejected"
  /\ "execution" \in store[e].phases =>
       store[e].draft = "approved" \/ (store[e].draft = "hitl_pending" /\ LetThrough(e))
  /\ "context" \in store[e].phases => "execution" \in store[e].phases
  /\ store[e].draft # "none" => {"contract", "planning"} \subseteq store[e].phases
  /\ store[e].status = "awaiting_hitl" =>
       /\ store[e].draft = "hitl_pending"
       /\ store[e].phases \subseteq {"contract", "planning", "validation"}
       /\ Paused(e)
  /\ store[e].status = "completed" => store[e].phases = Phases
  /\ store[e].status = "rejected" =>
       {"contract", "planning", "validation", "communication"} \subseteq store[e].phases

(* Where the run of e may stand, and what its document says then.          *)
RunSound(e) ==
  /\ task[e].target = e
  /\ task[e].node \notin {"hitl", "resume"}
  /\ task[e].node \in Before => store[e].draft = "none"
  /\ task[e].node = "validation" => store[e].draft # "none"
  /\ task[e].node \in Before \/ (task[e].node = "validation" /\ task[e].at = "work") =>
       store[e].phases \subseteq {"contract", "planning"}
  /\ \/ task[e].node = "validation" /\ task[e].at = "cast" /\ store[e].draft # "hitl_pending"
     \/ task[e].node \in Behind
     => store[e].draft \in {"approved", "rejected"} /\ task[e].decision = store[e].draft
  /\ task[e].node \in {"execution", "context"} => store[e].draft = "approved"

(* A request that was let in, and the continuation it becomes.             *)
RequestSound(q) ==
  /\ task[q].node \in {"idle", "hitl", "resume", "failure"} \cup Behind \cup Ended
  /\ task[q].node = "idle" <=> task[q].target = NoExecution
  /\ task[q].node # "idle" =>
       /\ Doc(q).draft = "hitl_pending"
       /\ Paused(task[q].target)
       /\ task[q].decision \in Decisions
  /\ task[q].node \in {"execution", "context"} => task[q].decision # "rejected"
  /\ \/ task[q].node \in Behind \cup {"failure"}
     \/ task[q].node = "resume" /\ task[q].at = "cast"
     => Doc(q).status # "awaiting_hitl"

(* The phases on record when a coroutine has come to a node.               *)
Reviewed == {"contract", "planning", "validation"}
Delivered(decision) ==
  IF decision = "rejected" THEN Reviewed ELSE Reviewed \cup {"execution", "context"}

Progress(t) ==
  /\ task[t].node = "planning" => "contract" \in Doc(t).phases
  /\ task[t].node \in {"draft", "validation", "hitl"} =>
       {"contract", "planning"} \subseteq Doc(t).phases
  /\ task[t].node \in {"resume", "execution", "context"} => Reviewed \subseteq Doc(t).phases
  /\ task[t].node = "context" => "execution" \in Doc(t).phases
  /\ task[t].node \in {"communication", "finish"} =>
       Delivered(task[t].decision) \subseteq Doc(t).phases
  /\ task[t].node = "finish" => "communication" \in Doc(t).phases
  /\ task[t].at = "cast" /\ task[t].node \in Phases \ {"validation"} =>
       task[t].node \in Doc(t).phases
  /\ \/ task[t].at = "cast" /\ task[t].node = "hitl"
     \/ task[t].at = "cast" /\ task[t].node = "validation" /\ Doc(t).draft # "hitl_pending"
     => "validation" \in Doc(t).phases

(* What holds of a coroutine and its document.                             *)
TaskSound(t) ==
  /\ task[t].at = "cast" => task[t].node \in Casting
  /\ t \in Executions => RunSound(t)
  /\ t \in Requests => RequestSound(t)
  /\ task[t].node # "idle" => Progress(t)

PipelineInv ==
  /\ TypeOK
  /\ \A e \in Executions : DocSound(e)
  /\ \A t \in Tasks : TaskSound(t)

-----------------------------------------------------------------------------
(* A step of coroutine t on the document of e.                             *)
Moves(t, e) ==
  /\ e \in Executions /\ t \in Tasks
  /\ task[t].target = e /\ task'[t].target = e
  /\ \A u \in Tasks \ {t} : task'[u] = task[u]
  /\ \A x \in Executions \ {e} : store'[x] = store[x]

(* The others can rely on it: what they saw of the document stays true, or *)
(* there are no others.                                                    *)
Grows(e) ==
  /\ store'[e].draft = store[e].draft
  /\ store[e].phases \subseteq store'[e].phases
  /\ store'[e].status = "awaiting_hitl" => store[e].status = "awaiting_hitl"
  /\ store[e].draft = "hitl_pending" /\ Paused(e) => Paused(e)'

AloneOn(t, e) == t = e /\ \A q \in Requests : task[q].target # e

KeepsDecision(t) ==
  t \in Requests => /\ task'[t].decision = task[t].decision
                    /\ ~(task'[t].node = "hitl" /\ task'[t].at = "work")

LEMMA ActiveTarget ==
  ASSUME PipelineInv, NEW t \in Tasks, task[t].node # "idle"
  PROVE  task[t].target \in Executions
<1>1. CASE t \in Executions BY <1>1 DEF PipelineInv, TaskSound, RunSound
<1>2. CASE t \in Requests
  <2>1. task[t].target # NoExecution
    BY <1>2 DEF PipelineInv, TaskSound, RequestSound
  <2> QED BY <2>1 DEF PipelineInv, TypeOK, Coroutine
<1> QED BY <1>1, <1>2, PipelineAssumption

LEMMA OtherDocs ==
  ASSUME PipelineInv, NEW t, NEW e, Moves(t, e), NEW x \in Executions \ {e}
  PROVE  DocSound(x)'
<1>1. DocSound(x) BY DEF PipelineInv
<1>2. store'[x] = store[x] BY DEF Moves
<1>3. t # x
  BY DEF PipelineInv, TaskSound, RunSound, Moves
<1>4. task'[x] = task[x] BY <1>3, PipelineAssumption DEF Moves
<1>5. Paused(x)' <=> Paused(x) BY <1>4 DEF Paused
<1>6. LetThrough(x) => LetThrough(x)'
  <2> SUFFICES ASSUME NEW q \in Requests, task[q].target = x, Recorded(q),
                      task[q].decision \in {"approved", "modified"}
               PROVE  LetThrough(x)'
    BY DEF LetThrough
  <2>1. q # t BY DEF Moves
  <2>2. task'[q] = task[q] BY <2>1, PipelineAssumption DEF Moves
  <2> QED BY <2>2 DEF LetThrough, Recorded
<1> QED BY <1>1, <1>2, <1>5, <1>6 DEF DocSound

LEMMA OtherTasks ==
  ASSUME PipelineInv, NEW t, NEW e, Moves(t, e), Grows(e) \/ AloneOn(t, e),
         NEW u \in Tasks \ {t}
  PROVE  TaskSound(u)'
<1>0. TaskSound(u) /\ TaskSound(t) BY DEF PipelineInv, Moves
<1>1. task'[u] = task[u] BY DEF Moves
<1>2. CASE task[u].node = "idle"
  <2>2. u \in Executions => RunSound(u)'
    <3>1. CASE u = e /\ u \in Executions
      <4>1. Grows(e) BY <3>1 DEF AloneOn
      <4>2. t \in Requests BY <3>1, PipelineAssumption, <1>0 DEF TaskSound, RunSound, Moves
      <4>3. task[t].node # "idle"
        BY <4>2, <1>0, PipelineAssumption DEF TaskSound, RequestSound, Moves
      <4>4. Paused(e) BY <4>2, <4>3, <1>0 DEF TaskSound, RequestSound, Moves
      <4> QED BY <1>2, <3>1, <4>4 DEF Paused, Ended
    <3>2. CASE u # e /\ u \in Executions
      BY <1>0, <1>1, <3>2 DEF TaskSound, RunSound, Moves
    <3> QED BY <3>1, <3>2
  <2>3. u \in Requests => RequestSound(u)'
    BY <1>0, <1>1, <1>2 DEF TaskSound, RequestSound, Behind, Ended
  <2> QED BY <1>0, <1>1, <1>2, <2>2, <2>3 DEF TaskSound
<1>3. CASE task[u].node # "idle" /\ task[u].target # e
  <2>1. task[u].target \in Executions BY <1>3, ActiveTarget
  <2>2. Doc(u)' = Doc(u) BY <1>1, <1>3, <2>1 DEF Doc, Moves
  <2>3. Progress(u)' BY <1>0, <1>1, <1>3, <2>2 DEF TaskSound, Progress, Delivered
  <2>4. u \in Executions => RunSound(u)'
    BY <1>0, <1>1, <1>3, <2>1 DEF TaskSound, RunSound, Moves
  <2>5. ASSUME u \in Requests PROVE RequestSound(u)'
    <3>1. task'[task[u].target] = task[task[u].target]
      BY <1>0, <1>3, <2>1, PipelineAssumption DEF TaskSound, RunSound, Moves
    <3>2. Paused(task[u].target)' <=> Paused(task[u].target)
      BY <1>1, <3>1 DEF Paused
    <3> QED BY <1>0, <1>1, <2>2, <2>5, <3>2 DEF TaskSound, RequestSound
  <2> QED BY <1>0, <1>1, <2>3, <2>4, <2>5 DEF TaskSound
<1>4. CASE task[u].node # "idle" /\ task[u].target = e
  <2>1. Grows(e)
    BY <1>0, <1>4, PipelineAssumption DEF AloneOn, TaskSound, RunSound, Moves
  <2>2. Doc(u)' = store'[e] /\ Doc(u) = store[e] BY <1>1, <1>4 DEF Doc
  <2>3. Progress(u)'
    BY <1>0, <1>1, <1>4, <2>1, <2>2 DEF TaskSound, Progress, Delivered, Grows
  <2>4. ASSUME u \in Executions PROVE RunSound(u)'
    <3>1. u = e BY <1>0, <1>4, <2>4 DEF TaskSound, RunSound
    <3>2. t \in Requests BY <1>0, <3>1, PipelineAssumption DEF TaskSound, RunSound, Moves
    <3>3. task[t].node # "idle"
      BY <3>2, <1>0, PipelineAssumption DEF TaskSound, RequestSound, Moves
    <3>4. Paused(e) BY <3>2, <3>3, <1>0 DEF TaskSound, RequestSound, Moves
    <3> QED BY <1>0, <1>1, <2>1, <2>4, <3>1, <3>4
            DEF TaskSound, RunSound, Grows, Paused, Before, Behind, Ended
  <2>5. ASSUME u \in Requests PROVE RequestSound(u)'
    BY <1>0, <1>1, <1>4, <2>1, <2>2, <2>5 DEF TaskSound, RequestSound, Grows
  <2> QED BY <1>0, <1>1, <2>3, <2>4, <2>5 DEF TaskSound
<1> QED BY <1>2, <1>3, <1>4

(* So a step is sound when its own coroutine and document are.             *)
LEMMA StepSound ==
  ASSUME PipelineInv, NEW t, NEW e, Moves(t, e), Grows(e) \/ AloneOn(t, e),
         TypeOK', DocSound(e)', TaskSound(t)'
  PROVE  PipelineInv'
<1>1. ASSUME NEW x \in Executions PROVE DocSound(x)' BY OtherDocs
<1>2. ASSUME NEW u \in Tasks PROVE TaskSound(u)' BY OtherTasks
<1> QED BY <1>1, <1>2 DEF PipelineInv

LEMMA LetThroughKept ==
  ASSUME PipelineInv, NEW t, NEW e, Moves(t, e), KeepsDecision(t), LetThrough(e)
  PROVE  LetThrough(e)'
<1>1. PICK q \in Requests : /\ task[q].target = e /\ Recorded(q)
                            /\ task[q].decision \in {"approved", "modified"}
  BY DEF LetThrough
<1>2. /\ task'[q].target = e /\ task'[q].decision = task[q].decision
      /\ ~(task'[q].node = "hitl" /\ task'[q].at = "work")
  BY <1>1, PipelineAssumption DEF Moves, KeepsDecision, Recorded
<1>3. Recorded(q)' BY <1>1, <1>2, PipelineAssumption DEF Recorded, Moves
<1> QED BY <1>1, <1>2, <1>3 DEF LetThrough

-----------------------------------------------------------------------------
(* The steps that write to a document.                                     *)
Becomes(t, c) == task' = [task EXCEPT ![t] = c]

LEMMA UpdateMoves ==
  ASSUME PipelineInv, NEW t \in Tasks, NEW e \in Executions, task[t].target = e,
         NEW doc \in Document, Update(t, doc),
         NEW c \in Coroutine, Becomes(t, c), c.target = e
  PROVE  Moves(t, e) /\ TypeOK' /\ store'[e] = doc /\ task'[t] = c
<1> USE DEF Becomes
<1>2. TypeOK BY DEF PipelineInv
<1>3. store' = [store EXCEPT ![e] = doc] /\ UNCHANGED <<hubVars, faults>>
  BY DEF Update
<1>4. Moves(t, e) BY <1>2, <1>3 DEF TypeOK, Moves
<1>5. TypeOK' BY <1>2, <1>3 DEF TypeOK, HubTypeOK, hubVars
<1> QED BY <1>2, <1>3, <1>4, <1>5 DEF TypeOK

(* The record of a coroutine that begins its broadcast, and of one that    *)
(* goes to its next node.                                                  *)
LEMMA CastRecord ==
  ASSUME PipelineInv, NEW t \in Tasks, ThenCast(t)
  PROVE  \E c \in Coroutine :
           /\ Becomes(t, c)
           /\ c.target = task[t].target /\ c.node = task[t].node /\ c.at = "cast"
           /\ c.decision = task[t].decision
<1> DEFINE c == [task[t] EXCEPT !.at = "cast"]
<1>1. task[t] \in Coroutine /\ task \in [Tasks -> Coroutine] BY DEF PipelineInv, TypeOK
<1>2. Becomes(t, c) BY <1>1 DEF ThenCast, Becomes
<1>3. /\ c \in Coroutine
      /\ c.target = task[t].target /\ c.node = task[t].node /\ c.at = "cast"
      /\ c.decision = task[t].decision
  BY <1>1 DEF Coroutine
<1> HIDE DEF c
<1> QED BY <1>2, <1>3

LEMMA GoToRecord ==
  ASSUME PipelineInv, NEW t \in Tasks, NEW node \in Nodes, GoTo(t, node)
  PROVE  \E c \in Coroutine :
           /\ Becomes(t, c)
           /\ c.target = task[t].target /\ c.node = node /\ c.at = "work"
           /\ c.decision = task[t].decision
<1> DEFINE c == [task[t] EXCEPT !.node = node, !.at = "work"]
<1>1. task[t] \in Coroutine /\ task \in [Tasks -> Coroutine] BY DEF PipelineInv, TypeOK
<1>2. Becomes(t, c) BY <1>1 DEF GoTo, Becomes
<1>3. /\ c \in Coroutine
      /\ c.target = task[t].target /\ c.node = node /\ c.at = "work"
      /\ c.decision = task[t].decision
  BY <1>1 DEF Coroutine
<1> HIDE DEF c
<1> QED BY <1>2, <1>3

LEMMA CallPhaseAgentSound ==
  ASSUME PipelineInv, NEW t \in Tasks, NEW e \in Executions, task[t].target = e,
         CallPhaseAgent(t)
  PROVE  PipelineInv'
<1>1. PICK node \in Phases \ {"validation"} :
        /\ AtWork(t, node)
        /\ Update(t, [Doc(t) EXCEPT !.phases = @ \cup {node}])
        /\ ThenCast(t)
  BY DEF CallPhaseAgent
<1>2. task[t].node = node /\ task[t].at = "work"
  BY <1>1 DEF AtWork
<1>3. TypeOK /\ DocSound(e) /\ TaskSound(t) BY DEF PipelineInv
<1>4. PICK d \in Document :
        /\ Update(t, d)
        /\ d.phases = store[e].phases \cup {node} /\ d.draft = store[e].draft
        /\ d.status = store[e].status /\ d.violation = store[e].violation
        /\ d.highRisk = store[e].highRisk
  BY <1>1, <1>3 DEF TypeOK, Doc, Document
<1>5. PICK c \in Coroutine :
        /\ Becomes(t, c)
        /\ c.target = e /\ c.node = node /\ c.at = "cast" /\ c.decision = task[t].decision
  BY <1>1, <1>2, CastRecord
<1>6. Moves(t, e) /\ TypeOK' /\ store'[e] = d /\ task'[t] = c
  BY <1>4, <1>5, UpdateMoves
<1>7. Paused(e) => t # e /\ Paused(e)'
  BY <1>2, <1>6, PipelineAssumption DEF Moves, Paused, Ended, Phases
<1>8. Grows(e) BY <1>4, <1>6, <1>7 DEF Grows
<1>9. t \in Requests => RequestSound(t) /\ RequestSound(t)'
  BY <1>2, <1>3, <1>4, <1>5, <1>6, <1>7 DEF TaskSound, RequestSound, Doc, Phases, Behind, Ended
<1>10. t \in Executions => RunSound(t) /\ RunSound(t)' /\ t = e
  BY <1>2, <1>3, <1>4, <1>5, <1>6 DEF TaskSound, RunSound, Phases, Behind, Before
<1>11. Progress(t) /\ Progress(t)'
  BY <1>2, <1>3, <1>4, <1>5, <1>6 DEF TaskSound, Progress, Doc, Phases, Delivered, Reviewed
<1>12. TaskSound(t)' BY <1>2, <1>5, <1>6, <1>9, <1>10, <1>11 DEF TaskSound, Casting
<1>13. DocSound(e)'
  <2>1. LetThrough(e) => LetThrough(e)'
    BY <1>2, <1>5, <1>6, LetThroughKept DEF KeepsDecision, Phases
  <2>2. node = "execution" =>
          store[e].draft = "approved" \/ (store[e].draft = "hitl_pending" /\ LetThrough(e)')
    <3> SUFFICES ASSUME node = "execution", t \in Requests PROVE
          store[e].draft = "hitl_pending" /\ LetThrough(e)'
      BY <1>2, <1>10, PipelineAssumption DEF RunSound
    <3>1. task[t].decision \in {"approved", "modified"} BY <1>2, <1>9 DEF RequestSound, Decisions
    <3> QED BY <1>2, <1>5, <1>6, <1>9, <3>1 DEF LetThrough, Recorded, RequestSound, Doc
  <2>3. node = "context" => "execution" \in store[e].phases BY <1>2, <1>11 DEF Progress, Doc
  <2>4. store[e].status = "awaiting_hitl" => node \in {"contract", "planning"}
    BY <1>2, <1>3, <1>7, <1>9, <1>10, PipelineAssumption
       DEF DocSound, RequestSound, RunSound, Doc, Phases, Behind
  <2>5. store[e].status = "completed" => d.phases = Phases
    BY <1>3, <1>4 DEF DocSound, Document
  <2> QED BY <1>3, <1>4, <1>6, <1>7, <2>1, <2>2, <2>3, <2>4, <2>5 DEF DocSound
<1> QED BY <1>6, <1>8, <1>12, <1>13, StepSound

(* The run of an execution before its pause has the document to itself.    *)
LEMMA RunAlone ==
  ASSUME PipelineInv, NEW t \in Tasks,
         task[t].node \in Before \/ (task[t].node = "validation" /\ task[t].at = "work"),
         task[t].node # "idle" \/ t \in Executions
  PROVE  t \in Executions /\ task[t].target = t /\ AloneOn(t, t) /\ ~Paused(t)
<1>1. TaskSound(t) BY DEF PipelineInv
<1>2. t \in Executions
  BY <1>1, PipelineAssumption DEF TaskSound, RequestSound, Before, Behind, Ended
<1>3. task[t].target = t BY <1>1, <1>2 DEF TaskSound, RunSound
<1>4. ~Paused(t) BY DEF Paused, Before, Ended
<1>5. ASSUME NEW q \in Requests, task[q].target = t PROVE FALSE
  <2>1. RequestSound(q) BY PipelineAssumption DEF PipelineInv, TaskSound
  <2>2. task[q].node # "idle" BY <1>2, <1>5, <2>1, PipelineAssumption DEF RequestSound
  <2> QED BY <1>4, <1>5, <2>1, <2>2 DEF RequestSound
<1> QED BY <1>2, <1>3, <1>4, <1>5 DEF AloneOn

LEMMA SubmitSound ==
  ASSUME PipelineInv, NEW e \in Executions, Submit(e)
  PROVE  PipelineInv'
<1>0. e \in Tasks /\ "submit" \in Nodes BY PipelineAssumption DEF Nodes
<1>1. task[e].node = "idle" /\ task[e].at = "work" BY DEF Submit, AtWork
<1>2. TypeOK /\ DocSound(e) /\ TaskSound(e) BY <1>0 DEF PipelineInv
<1>3. task[e].target = e /\ AloneOn(e, e) /\ ~Paused(e)
  BY <1>0, <1>1, RunAlone DEF Before
<1>4. PICK d \in Document :
        /\ Update(e, d)
        /\ d.phases = store[e].phases /\ d.draft = store[e].draft
        /\ d.status = "running" /\ d.violation = store[e].violation
        /\ d.highRisk = store[e].highRisk
  BY <1>2 DEF Submit, TypeOK, Document
<1>5. PICK c \in Coroutine :
        Becomes(e, c) /\ c.target = e /\ c.node = "submit" /\ c.at = "work"
  BY <1>0, <1>3, GoToRecord DEF Submit
<1>6. Moves(e, e) /\ TypeOK' /\ store'[e] = d /\ task'[e] = c
  BY <1>0, <1>3, <1>4, <1>5, UpdateMoves
<1>7. RunSound(e)' BY <1>1, <1>2, <1>4, <1>5, <1>6 DEF TaskSound, RunSound, Before, Behind
<1>8. Progress(e)' BY <1>5, <1>6 DEF Progress
<1>9. TaskSound(e)' BY <1>5, <1>6, <1>7, <1>8, PipelineAssumption DEF TaskSound
<1>10. LetThrough(e) => LetThrough(e)'
  BY <1>6, PipelineAssumption, LetThroughKept DEF KeepsDecision
<1>11. DocSound(e)' BY <1>2, <1>4, <1>6, <1>10 DEF DocSound
<1> QED BY <1>3, <1>6, <1>9, <1>11, StepSound

LEMMA SaveValidationDraftSound ==
  ASSUME PipelineInv, NEW e \in Tasks, SaveValidationDraft(e)
  PROVE  PipelineInv'
<1>0. "validation" \in Nodes BY DEF Nodes, Phases
<1>1. task[e].node = "draft" /\ task[e].at = "work" BY DEF SaveValidationDraft, AtWork
<1>3. e \in Executions /\ task[e].target = e /\ AloneOn(e, e) /\ ~Paused(e)
  BY <1>1, RunAlone DEF Before
<1>2. TypeOK /\ DocSound(e) /\ TaskSound(e) BY <1>3 DEF PipelineInv
<1>a. PICK s \in Assessments :
        Update(e, [Doc(e) EXCEPT !.draft = s.draft, !.violation = s.violation,
                                 !.highRisk = s.highRisk])
  BY DEF SaveValidationDraft
<1>4. PICK d \in Document :
        /\ Update(e, d)
        /\ d.phases = store[e].phases /\ d.draft = s.draft
        /\ d.status = store[e].status /\ d.violation = s.violation
        /\ d.highRisk = s.highRisk
  <2> DEFINE d == [store[e] EXCEPT !.draft = s.draft, !.violation = s.violation,
                                   !.highRisk = s.highRisk]
  <2>1. Update(e, d) BY <1>3, <1>a DEF Doc
  <2>2. store[e] \in Document BY <1>2, <1>3 DEF TypeOK
  <2>3. s.draft \in Outcomes /\ s.violation \in BOOLEAN /\ s.highRisk \in BOOLEAN
    BY Assessed
  <2>4. d \in Document BY <2>2, <2>3 DEF Document
  <2>5. /\ d.phases = store[e].phases /\ d.draft = s.draft
        /\ d.status = store[e].status /\ d.violation = s.violation
        /\ d.highRisk = s.highRisk
    BY <2>2 DEF Document
  <2> HIDE DEF d
  <2> QED BY <2>1, <2>4, <2>5
<1>5. PICK c \in Coroutine :
        Becomes(e, c) /\ c.target = e /\ c.node = "validation" /\ c.at = "work"
  BY <1>0, <1>3, GoToRecord DEF SaveValidationDraft
<1>6. Moves(e, e) /\ TypeOK' /\ store'[e] = d /\ task'[e] = c
  BY <1>3, <1>4, <1>5, UpdateMoves
<1>b. d.draft # "none" BY <1>4, Assessed DEF Outcomes
<1>c. RunSound(e) /\ Progress(e) BY <1>1, <1>2, <1>3 DEF TaskSound
<1>7. RunSound(e)'
  BY <1>1, <1>3, <1>4, <1>5, <1>6, <1>b, <1>c DEF RunSound, Before, Behind
<1>8. Progress(e)' BY <1>1, <1>3, <1>4, <1>5, <1>6, <1>c DEF Progress, Doc, Phases
<1>9. TaskSound(e)' BY <1>3, <1>5, <1>6, <1>7, <1>8, PipelineAssumption DEF TaskSound
<1>10. store[e].phases \subseteq {"contract", "planning"} BY <1>1, <1>c DEF RunSound, Before
<1>11. d.status # "awaiting_hitl" BY <1>2, <1>3, <1>4 DEF DocSound
<1>12. d.violation \/ d.highRisk => d.draft = "rejected" BY <1>4, Assessed
<1>d. {"contract", "planning"} \subseteq store[e].phases BY <1>1, <1>3, <1>c DEF Progress, Doc
<1>13. DocSound(e)' BY <1>2, <1>4, <1>6, <1>10, <1>11, <1>12, <1>d DEF DocSound
<1> QED BY <1>3, <1>6, <1>9, <1>13, StepSound

LEMMA PauseForHumanSound ==
  ASSUME PipelineInv, NEW e \in Tasks, PauseForHuman(e)
  PROVE  PipelineInv'
<1>1. task[e].node = "validation" /\ task[e].at = "work"
  BY DEF PauseForHuman, AtWork
<1>3. e \in Executions /\ task[e].target = e /\ AloneOn(e, e) BY <1>1, RunAlone
<1>2. TypeOK /\ DocSound(e) /\ TaskSound(e) BY <1>3 DEF PipelineInv
<1>a. store[e].draft = "hitl_pending" BY <1>3 DEF PauseForHuman, Doc
<1>4. PICK d \in Document :
        /\ Update(e, d)
        /\ d.phases = store[e].phases /\ d.draft = "hitl_pending"
        /\ d.status = "awaiting_hitl" /\ d.violation = store[e].violation
        /\ d.highRisk = store[e].highRisk
  BY <1>2, <1>3, <1>a DEF PauseForHuman, Doc, TypeOK, Document
<1>5. PICK c \in Coroutine :
        Becomes(e, c) /\ c.target = e /\ c.node = "validation" /\ c.at = "cast"
  BY <1>1, <1>3, CastRecord DEF PauseForHuman
<1>6. Moves(e, e) /\ TypeOK' /\ store'[e] = d /\ task'[e] = c
  BY <1>3, <1>4, <1>5, UpdateMoves
<1>c. RunSound(e) /\ Progress(e) BY <1>1, <1>2, <1>3 DEF TaskSound
<1>7. RunSound(e)' BY <1>1, <1>4, <1>5, <1>6, <1>c DEF RunSound, Before, Behind
<1>8. Progress(e)' BY <1>1, <1>3, <1>4, <1>5, <1>6, <1>c DEF Progress, Doc, Phases
<1>9. TaskSound(e)'
  BY <1>3, <1>5, <1>6, <1>7, <1>8, PipelineAssumption DEF TaskSound, Casting, Phases
<1>10. store[e].phases \subseteq {"contract", "planning"} BY <1>1, <1>c DEF RunSound
<1>11. Paused(e)' BY <1>5, <1>6 DEF Paused
<1>12. DocSound(e)' BY <1>2, <1>4, <1>6, <1>10, <1>11, <1>a DEF DocSound
<1> QED BY <1>3, <1>6, <1>9, <1>12, StepSound

LEMMA DecideAutomaticallySound ==
  ASSUME PipelineInv, NEW e \in Tasks, DecideAutomatically(e)
  PROVE  PipelineInv'
<1>1. task[e].node = "validation" /\ task[e].at = "work"
  BY DEF DecideAutomatically, AtWork
<1>3. e \in Executions /\ task[e].target = e /\ AloneOn(e, e) /\ ~Paused(e)
  BY <1>1, RunAlone
<1>2. TypeOK /\ DocSound(e) /\ TaskSound(e) BY <1>3 DEF PipelineInv
<1>c. RunSound(e) /\ Progress(e) BY <1>1, <1>2, <1>3 DEF TaskSound
<1>a. store[e].draft \in {"approved", "rejected"}
  <2>1. store[e].draft \in Outcomes \cup {"none"} BY <1>2, <1>3 DEF TypeOK, Document
  <2>2. store[e].draft # "hitl_pending" BY <1>3 DEF DecideAutomatically, Doc
  <2>3. store[e].draft # "none" BY <1>1, <1>c DEF RunSound
  <2> QED BY <2>1, <2>2, <2>3 DEF Outcomes
<1>4. PICK d \in Document :
        /\ Update(e, d)
        /\ d.phases = store[e].phases \cup {"validation"} /\ d.draft = store[e].draft
        /\ d.status = store[e].status /\ d.violation = store[e].violation
        /\ d.highRisk = store[e].highRisk
  <2> DEFINE d == [store[e] EXCEPT !.phases = @ \cup {"validation"},
                                   !.decision = store[e].draft]
  <2>1. Update(e, d) BY <1>3 DEF DecideAutomatically, Doc
  <2>2. store[e] \in Document BY <1>2, <1>3 DEF TypeOK
  <2>3. d \in Document BY <1>a, <2>2 DEF Document, Phases, Decisions
  <2>4. /\ d.phases = store[e].phases \cup {"validation"} /\ d.draft = store[e].draft
        /\ d.status = store[e].status /\ d.violation = store[e].violation
        /\ d.highRisk = store[e].highRisk
    BY <2>2 DEF Document
  <2> HIDE DEF d
  <2> QED BY <2>1, <2>3, <2>4
<1>5. PICK c \in Coroutine :
        /\ Becomes(e, c) /\ c.target = e /\ c.node = "validation" /\ c.at = "cast"
        /\ c.decision = store[e].draft
  <2> DEFINE c == [task[e] EXCEPT !.at = "cast", !.decision = store[e].draft]
  <2>1. Becomes(e, c) BY <1>2, <1>3 DEF DecideAutomatically, Doc, Becomes, TypeOK
  <2>2. /\ c \in Coroutine /\ c.target = e /\ c.node = "validation" /\ c.at = "cast"
        /\ c.decision = store[e].draft
    BY <1>1, <1>2, <1>3, <1>a DEF TypeOK, Coroutine, Decisions
  <2> HIDE DEF c
  <2> QED BY <2>1, <2>2
<1>6. Moves(e, e) /\ TypeOK' /\ store'[e] = d /\ task'[e] = c
  BY <1>3, <1>4, <1>5, UpdateMoves
<1>7. RunSound(e)'
  BY <1>1, <1>4, <1>5, <1>6, <1>a, <1>c DEF RunSound, Before, Behind
<1>8. Progress(e)' BY <1>1, <1>3, <1>4, <1>5, <1>6, <1>c DEF Progress, Doc, Phases
<1>9. TaskSound(e)'
  BY <1>3, <1>5, <1>6, <1>7, <1>8, PipelineAssumption DEF TaskSound, Casting, Phases
<1>10. store[e].phases \subseteq {"contract", "planning"} BY <1>1, <1>c DEF RunSound
<1>11. d.status \notin {"awaiting_hitl", "completed", "rejected"}
  BY <1>2, <1>3, <1>4, <1>10 DEF DocSound, Phases
<1>12. DocSound(e)' BY <1>2, <1>4, <1>6, <1>10, <1>11 DEF DocSound
<1> QED BY <1>3, <1>6, <1>9, <1>12, StepSound

(* The document after an update of its status.                             *)
SetsStatus(t, status) == Update(t, [Doc(t) EXCEPT !.status = status])

LEMMA StatusRecord ==
  ASSUME PipelineInv, NEW t \in Tasks, NEW e \in Executions, task[t].target = e,
         NEW status \in {"running", "completed", "rejected", "failed"},
         SetsStatus(t, status)
  PROVE  \E d \in Document :
           /\ Update(t, d)
           /\ d.phases = store[e].phases /\ d.draft = store[e].draft
           /\ d.status = status /\ d.violation = store[e].violation
           /\ d.highRisk = store[e].highRisk
<1> DEFINE d == [store[e] EXCEPT !.status = status]
<1>1. Update(t, d) BY DEF Doc, SetsStatus
<1>2. store[e] \in Document BY DEF PipelineInv, TypeOK
<1>3. d \in Document BY <1>2 DEF Document
<1>4. /\ d.phases = store[e].phases /\ d.draft = store[e].draft
      /\ d.status = status /\ d.violation = store[e].violation
      /\ d.highRisk = store[e].highRisk
  BY <1>2 DEF Document
<1> HIDE DEF d
<1> QED BY <1>1, <1>3, <1>4

LEMMA FinishSound ==
  ASSUME PipelineInv, NEW t \in Tasks, NEW e \in Executions, task[t].target = e, Finish(t)
  PROVE  PipelineInv'
<1>1. task[t].node = "finish" /\ task[t].at = "work" BY DEF Finish, AtWork
<1>2. TypeOK /\ DocSound(e) /\ TaskSound(t) BY DEF PipelineInv
<1>c. (t \in Executions => RunSound(t)) /\ (t \in Requests => RequestSound(t)) /\ Progress(t)
  BY <1>1, <1>2 DEF TaskSound
<1>3. PICK status \in {"completed", "rejected"} :
        /\ SetsStatus(t, status)
        /\ status = "completed" => task[t].decision \in {"approved", "modified"}
  BY DEF Finish, SetsStatus
<1>4. PICK d \in Document :
        /\ Update(t, d)
        /\ d.phases = store[e].phases /\ d.draft = store[e].draft
        /\ d.status = status /\ d.violation = store[e].violation
        /\ d.highRisk = store[e].highRisk
  <2>1. status \in {"running", "completed", "rejected", "failed"} OBVIOUS
  <2> QED BY <1>3, <2>1, StatusRecord
<1>5. PICK c \in Coroutine :
        /\ Becomes(t, c) /\ c.target = e /\ c.node = "finish" /\ c.at = "cast"
        /\ c.decision = task[t].decision
  BY <1>1, CastRecord DEF Finish
<1>6. Moves(t, e) /\ TypeOK' /\ store'[e] = d /\ task'[t] = c
  BY <1>4, <1>5, UpdateMoves
<1>7. Paused(e) => t # e /\ Paused(e)'
  BY <1>1, <1>6, PipelineAssumption DEF Moves, Paused, Ended
<1>8. Grows(e) BY <1>4, <1>6, <1>7 DEF Grows
<1>9. t \in Requests => RequestSound(t)'
  BY <1>1, <1>4, <1>5, <1>6, <1>7, <1>c DEF RequestSound, Doc, Behind, Ended
<1>10. t \in Executions => RunSound(t)'
  BY <1>1, <1>4, <1>5, <1>6, <1>c DEF RunSound, Behind, Before
<1>11. Progress(t)'
  BY <1>1, <1>4, <1>5, <1>6, <1>c DEF Progress, Doc, Phases
<1>12. TaskSound(t)' BY <1>5, <1>6, <1>9, <1>10, <1>11 DEF TaskSound, Casting
<1>13. LetThrough(e) => LetThrough(e)'
  BY <1>5, <1>6, LetThroughKept DEF KeepsDecision
<1>14. {"contract", "planning", "validation", "communication"} \subseteq store[e].phases
  BY <1>1, <1>c DEF Progress, Doc, Delivered, Reviewed
<1>15. status = "completed" => store[e].phases = Phases
  <2>1. store[e].phases \subseteq Phases BY <1>2 DEF TypeOK, Document
  <2>2. task[t].decision \in {"approved", "modified"} => Phases \subseteq store[e].phases
    BY <1>1, <1>c DEF Progress, Doc, Delivered, Reviewed, Phases
  <2> QED BY <1>3, <2>1, <2>2
<1>16. DocSound(e)' BY <1>2, <1>4, <1>6, <1>13, <1>14, <1>15 DEF DocSound
<1> QED BY <1>6, <1>8, <1>12, <1>16, StepSound

LEMMA SetFailedSound ==
  ASSUME PipelineInv, NEW t \in Tasks, NEW e \in Executions, task[t].target = e, SetFailed(t)
  PROVE  PipelineInv'
<1>1. task[t].node = "failure" /\ task[t].at = "work" BY DEF SetFailed, AtWork
<1>2. TypeOK /\ DocSound(e) /\ TaskSound(t) BY DEF PipelineInv
<1>c. (t \in Executions => RunSound(t)) /\ (t \in Requests => RequestSound(t))
  BY <1>1, <1>2 DEF TaskSound
<1>4. PICK d \in Document :
        /\ Update(t, d)
        /\ d.phases = store[e].phases /\ d.draft = store[e].draft
        /\ d.status = "failed" /\ d.violation = store[e].violation
        /\ d.highRisk = store[e].highRisk
  BY StatusRecord DEF SetFailed, SetsStatus
<1>5. PICK c \in Coroutine :
        /\ Becomes(t, c) /\ c.target = e /\ c.node = "failure" /\ c.at = "cast"
        /\ c.decision = task[t].decision
  BY <1>1, CastRecord DEF SetFailed
<1>6. Moves(t, e) /\ TypeOK' /\ store'[e] = d /\ task'[t] = c
  BY <1>4, <1>5, UpdateMoves
<1>7. Paused(e) => Paused(e)'
  BY <1>5, <1>6, PipelineAssumption DEF Moves, Paused
<1>8. Grows(e) BY <1>4, <1>6, <1>7 DEF Grows
<1>9. t \in Requests => RequestSound(t)'
  BY <1>1, <1>4, <1>5, <1>6, <1>7, <1>c DEF RequestSound, Doc, Behind, Ended
<1>10. t \in Executions => RunSound(t)'
  BY <1>1, <1>5, <1>6, <1>c DEF RunSound, Behind, Before
<1>11. Progress(t)' BY <1>5, <1>6 DEF Progress, Phases
<1>12. TaskSound(t)' BY <1>5, <1>6, <1>9, <1>10, <1>11 DEF TaskSound, Casting
<1>13. LetThrough(e) => LetThrough(e)'
  BY <1>5, <1>6, LetThroughKept DEF KeepsDecision
<1>14. DocSound(e)' BY <1>2, <1>4, <1>6, <1>13 DEF DocSound
<1> QED BY <1>6, <1>8, <1>12, <1>14, StepSound

(* The decision requests.                                                  *)
LEMMA RecordDecisionSound ==
  ASSUME PipelineInv, NEW t \in Tasks, NEW e \in Executions, task[t].target = e,
         RecordDecision(t)
  PROVE  PipelineInv'
<1>1. task[t].node = "hitl" /\ task[t].at = "work" BY DEF RecordDecision, AtWork
<1>2. TypeOK /\ DocSound(e) /\ TaskSound(t) BY DEF PipelineInv
<1>3. t \in Requests /\ t \notin Executions
  BY <1>1, <1>2, PipelineAssumption DEF TaskSound, RunSound
<1>c. RequestSound(t) /\ Progress(t) BY <1>1, <1>2, <1>3 DEF TaskSound
<1>4. PICK d \in Document :
        /\ Update(t, d)
        /\ d.phases = store[e].phases \cup {"validation"} /\ d.draft = store[e].draft
        /\ d.status = store[e].status /\ d.violation = store[e].violation
        /\ d.highRisk = store[e].highRisk
  <2> DEFINE d == [store[e] EXCEPT !.phases = @ \cup {"validation"},
                                   !.decision = task[t].decision]
  <2>1. Update(t, d) BY DEF RecordDecision, Doc
  <2>2. store[e] \in Document BY <1>2 DEF TypeOK
  <2>3. task[t].decision \in Decisions BY <1>1, <1>c DEF RequestSound
  <2>4. d \in Document BY <2>2, <2>3 DEF Document, Phases
  <2>5. /\ d.phases = store[e].phases \cup {"validation"} /\ d.draft = store[e].draft
        /\ d.status = store[e].status /\ d.violation = store[e].violation
        /\ d.highRisk = store[e].highRisk
    BY <2>2 DEF Document
  <2> HIDE DEF d
  <2> QED BY <2>1, <2>4, <2>5
<1>5. PICK c \in Coroutine :
        /\ Becomes(t, c) /\ c.target = e /\ c.node = "hitl" /\ c.at = "cast"
        /\ c.decision = task[t].decision
  BY <1>1, CastRecord DEF RecordDecision
<1>6. Moves(t, e) /\ TypeOK' /\ store'[e] = d /\ task'[t] = c
  BY <1>4, <1>5, UpdateMoves
<1>7. Paused(e) => Paused(e)'
  BY <1>3, <1>6, PipelineAssumption DEF Moves, Paused
<1>8. Grows(e) BY <1>4, <1>6, <1>7 DEF Grows
<1>9. RequestSound(t)'
  BY <1>1, <1>4, <1>5, <1>6, <1>7, <1>c DEF RequestSound, Doc, Behind, Ended
<1>10. Progress(t)' BY <1>1, <1>4, <1>5, <1>6, <1>c DEF Progress, Doc, Phases
<1>11. TaskSound(t)' BY <1>3, <1>5, <1>6, <1>9, <1>10 DEF TaskSound, Casting
<1>12. LetThrough(e) => LetThrough(e)'
  BY <1>5, <1>6, LetThroughKept DEF KeepsDecision
<1>13. store[e].status = "completed" => d.phases = Phases
  BY <1>2, <1>4 DEF DocSound, Document
<1>14. DocSound(e)' BY <1>2, <1>4, <1>6, <1>7, <1>12, <1>13 DEF DocSound
<1> QED BY <1>6, <1>8, <1>11, <1>14, StepSound

LEMMA SetRunningSound ==
  ASSUME PipelineInv, NEW t \in Tasks, NEW e \in Executions, task[t].target = e,
         SetRunning(t)
  PROVE  PipelineInv'
<1>1. task[t].node = "resume" /\ task[t].at = "work" BY DEF SetRunning, AtWork
<1>2. TypeOK /\ DocSound(e) /\ TaskSound(t) BY DEF PipelineInv
<1>3. t \in Requests /\ t \notin Executions
  BY <1>1, <1>2, PipelineAssumption DEF TaskSound, RunSound
<1>c. RequestSound(t) /\ Progress(t) BY <1>1, <1>2, <1>3 DEF TaskSound
<1>4. PICK d \in Document :
        /\ Update(t, d)
        /\ d.phases = store[e].phases /\ d.draft = store[e].draft
        /\ d.status = "running" /\ d.violation = store[e].violation
        /\ d.highRisk = store[e].highRisk
  BY StatusRecord DEF SetRunning, SetsStatus
<1>5. PICK c \in Coroutine :
        /\ Becomes(t, c) /\ c.target = e /\ c.node = "resume" /\ c.at = "cast"
        /\ c.decision = task[t].decision
  BY <1>1, CastRecord DEF SetRunning
<1>6. Moves(t, e) /\ TypeOK' /\ store'[e] = d /\ task'[t] = c
  BY <1>4, <1>5, UpdateMoves
<1>7. Paused(e) => Paused(e)'
  BY <1>3, <1>6, PipelineAssumption DEF Moves, Paused
<1>8. Grows(e) BY <1>4, <1>6, <1>7 DEF Grows
<1>9. RequestSound(t)'
  BY <1>1, <1>4, <1>5, <1>6, <1>7, <1>c DEF RequestSound, Doc, Behind, Ended
<1>10. Progress(t)' BY <1>1, <1>4, <1>5, <1>6, <1>c DEF Progress, Doc, Phases
<1>11. TaskSound(t)' BY <1>3, <1>5, <1>6, <1>9, <1>10 DEF TaskSound, Casting
<1>12. LetThrough(e) => LetThrough(e)'
  BY <1>5, <1>6, LetThroughKept DEF KeepsDecision
<1>13. DocSound(e)' BY <1>2, <1>4, <1>6, <1>12 DEF DocSound
<1> QED BY <1>6, <1>8, <1>11, <1>13, StepSound

-----------------------------------------------------------------------------
(* The steps that leave every document as it is.                           *)
LEMMA StayMoves ==
  ASSUME PipelineInv, NEW t \in Tasks, NEW e \in Executions, task[t].target = e,
         UNCHANGED store, HubTypeOK', faults' \in 0..MaxFaults,
         NEW c \in Coroutine, Becomes(t, c), c.target = e
  PROVE  Moves(t, e) /\ TypeOK' /\ task'[t] = c
<1>1. TypeOK BY DEF PipelineInv
<1> QED BY <1>1 DEF TypeOK, Moves, Becomes

(* Then the document stays sound if its run does not leave its pause.      *)
LEMMA StaySound ==
  ASSUME PipelineInv, NEW t \in Tasks, NEW e \in Executions,
         Moves(t, e), TypeOK', UNCHANGED store, KeepsDecision(t), TaskSound(t)',
         store[e].draft = "hitl_pending" /\ Paused(e) => Paused(e)'
  PROVE  PipelineInv'
<1>1. Grows(e) BY DEF Grows
<1>2. DocSound(e) BY DEF PipelineInv
<1>3. LetThrough(e) => LetThrough(e)' BY LetThroughKept
<1>4. DocSound(e)' BY <1>2, <1>3 DEF DocSound
<1> QED BY <1>1, <1>4, StepSound

LEMMA LaunchSound ==
  ASSUME PipelineInv, NEW e \in Executions, Launch(e)
  PROVE  PipelineInv'
<1>0. e \in Tasks /\ e \notin Requests /\ "contract" \in Nodes
  BY PipelineAssumption DEF Nodes, Phases
<1>1. task[e].node = "submit" /\ task[e].at = "work" BY DEF Launch, AtWork
<1>2. TypeOK /\ TaskSound(e) BY <1>0 DEF PipelineInv
<1>3. task[e].target = e /\ ~Paused(e) BY <1>0, <1>1, RunAlone DEF Before
<1>4. PICK c \in Coroutine :
        Becomes(e, c) /\ c.target = e /\ c.node = "contract" /\ c.at = "work"
  BY <1>0, <1>3, GoToRecord DEF Launch
<1>5. UNCHANGED store /\ HubTypeOK' /\ faults' \in 0..MaxFaults
  BY <1>2 DEF Launch, TypeOK, HubTypeOK, hubVars
<1>6. Moves(e, e) /\ TypeOK' /\ task'[e] = c BY <1>0, <1>3, <1>4, <1>5, StayMoves
<1>7. RunSound(e)' BY <1>1, <1>2, <1>4, <1>5, <1>6 DEF TaskSound, RunSound, Before, Behind
<1>8. Progress(e)' BY <1>4, <1>6 DEF Progress
<1>9. TaskSound(e)' BY <1>0, <1>4, <1>6, <1>7, <1>8 DEF TaskSound
<1>10. KeepsDecision(e) BY <1>0 DEF KeepsDecision
<1> QED BY <1>0, <1>3, <1>5, <1>6, <1>9, <1>10, StaySound

(* An exception leads to a handler that relies on nothing.                 *)
LEMMA RaiseSound ==
  ASSUME PipelineInv, NEW t \in Tasks, task[t].node \notin Ended \cup {"idle"},
         GoTo(t, Handler(t)), UNCHANGED store, HubTypeOK', faults' \in 0..MaxFaults
  PROVE  PipelineInv'
<1>1. PICK e \in Executions : task[t].target = e BY ActiveTarget
<1>2. Handler(t) \in {"errored", "failure"} /\ Handler(t) \in Nodes
  BY DEF Handler, Nodes, Ended
<1>3. PICK c \in Coroutine :
        /\ Becomes(t, c) /\ c.target = e /\ c.node = Handler(t) /\ c.at = "work"
        /\ c.decision = task[t].decision
  BY <1>1, <1>2, GoToRecord
<1>4. Moves(t, e) /\ TypeOK' /\ task'[t] = c BY <1>1, <1>3, StayMoves
<1>5. TaskSound(t) BY DEF PipelineInv
<1>6. Paused(e) => Paused(e)'
  BY <1>2, <1>3, <1>4, PipelineAssumption DEF Moves, Paused, Ended
<1>7. t \in Requests => RequestSound(t)'
  <2> SUFFICES ASSUME t \in Requests PROVE RequestSound(t)' OBVIOUS
  <2>1. RequestSound(t) BY <1>5 DEF TaskSound
  <2>2. Handler(t) = "failure" => task[t].node \in Behind
    BY <2>1 DEF RequestSound, Handler, Ended
  <2> QED BY <1>1, <1>2, <1>3, <1>4, <1>6, <2>1, <2>2 DEF RequestSound, Doc, Behind, Ended
<1>8. t \in Executions => RunSound(t)'
  BY <1>1, <1>2, <1>3, <1>4, <1>5 DEF TaskSound, RunSound, Before, Behind
<1>9. Progress(t)' BY <1>2, <1>3, <1>4 DEF Progress
<1>10. TaskSound(t)' BY <1>3, <1>4, <1>7, <1>8, <1>9 DEF TaskSound
<1>11. KeepsDecision(t) BY <1>2, <1>3, <1>4 DEF KeepsDecision
<1> QED BY <1>4, <1>6, <1>10, <1>11, StaySound

LEMMA BroadcastSound ==
  ASSUME PipelineInv, NEW t \in Tasks, Broadcast(t)
  PROVE  PipelineInv'
<1>1. TypeOK /\ TaskSound(t) BY DEF PipelineInv
<1>2. task[t].at = "cast" /\ task[t].node \in Casting BY <1>1 DEF Broadcast, TaskSound
<1>3. PICK e \in Executions : task[t].target = e
  BY <1>2, ActiveTarget DEF Casting, Phases
<1>4. NextLoop(t, e) \in Feeds \cup {"off"} BY DEF NextLoop, Feeds
<1>5. UNCHANGED store /\ HubTypeOK' /\ faults' \in 0..MaxFaults
  BY <1>1, <1>3, <1>4 DEF Broadcast, SendOn, TypeOK, HubTypeOK
<1>6. CASE UNCHANGED task
  <2>1. TypeOK' BY <1>1, <1>5, <1>6 DEF TypeOK
  <2>2. ASSUME NEW x \in Executions PROVE DocSound(x)'
    BY <1>5, <1>6 DEF PipelineInv, DocSound, Paused, LetThrough, Recorded
  <2>3. ASSUME NEW u \in Tasks PROVE TaskSound(u)'
    BY <1>5, <1>6 DEF PipelineInv, TaskSound, RunSound, RequestSound, Progress, Paused, Doc
  <2> QED BY <2>1, <2>2, <2>3 DEF PipelineInv
<1>7. CASE GoTo(t, Following(t))
  <2>1. Following(t) \in Nodes
    BY <1>2 DEF Following, RouteAfterValidation, Casting, Phases, Nodes, Ended
  <2>2. PICK c \in Coroutine :
          /\ Becomes(t, c) /\ c.target = e /\ c.node = Following(t) /\ c.at = "work"
          /\ c.decision = task[t].decision
    BY <1>3, <1>7, <2>1, GoToRecord
  <2>3. Moves(t, e) /\ TypeOK' /\ task'[t] = c BY <1>3, <1>5, <2>2, StayMoves
  <2>4. /\ t \in Executions => RunSound(t) /\ t = e
        /\ t \in Requests => RequestSound(t)
        /\ Progress(t)
    BY <1>1, <1>2, <1>3 DEF TaskSound, RunSound, Casting, Phases
  <2>5. store[e].draft = "hitl_pending" /\ Paused(e) => Paused(e)'
    <3>1. CASE t # e BY <2>3, <3>1, PipelineAssumption DEF Moves, Paused
    <3>2. CASE t = e /\ store[e].draft = "hitl_pending" /\ Paused(e)
      <4>1. Following(t) = "done"
        BY <1>2, <1>3, <3>2 DEF Paused, Following, RouteAfterValidation, Doc, Casting, Phases, Ended
      <4> QED BY <2>2, <2>3, <3>2, <4>1 DEF Paused, Ended
    <3> QED BY <3>1, <3>2
  <2>6. ASSUME t \in Requests PROVE RequestSound(t)'
    BY <1>2, <1>3, <1>5, <2>2, <2>3, <2>4, <2>5, <2>6
       DEF RequestSound, Following, Doc, Behind, Casting, Phases, Ended, Decisions
  <2>7. ASSUME t \in Executions PROVE RunSound(t)'
    BY <1>1, <1>2, <1>3, <1>5, <2>2, <2>3, <2>4, <2>7
       DEF RunSound, Following, RouteAfterValidation, Doc, Before, Behind, Casting, Phases, Ended
  <2>8. Progress(t)'
    <3> DEFINE node == task[t].node
    <3>0. Doc(t)' = Doc(t) /\ task'[t].decision = task[t].decision
      BY <1>3, <1>5, <2>2, <2>3 DEF Doc
    <3>1. CASE node = "contract"
      BY <1>2, <2>2, <2>3, <2>4, <3>0, <3>1 DEF Following, Progress, Phases
    <3>2. CASE node = "planning"
      BY <1>2, <2>2, <2>3, <2>4, <3>0, <3>2 DEF Following, Progress, Phases
    <3>3. CASE node = "validation"
      <4>1. CASE Doc(t).draft = "hitl_pending"
        BY <2>2, <2>3, <3>3, <4>1 DEF Following, RouteAfterValidation, Progress
      <4>2. CASE Doc(t).draft # "hitl_pending"
        BY <1>2, <2>2, <2>3, <2>4, <3>0, <3>3, <4>2
           DEF Following, RouteAfterValidation, Progress, Delivered, Reviewed
      <4> QED BY <4>1, <4>2
    <3>4. CASE node = "execution"
      BY <1>2, <2>2, <2>3, <2>4, <3>0, <3>4 DEF Following, Progress, Phases
    <3>5. CASE node = "context"
      BY <1>2, <2>2, <2>3, <2>4, <3>0, <3>5
         DEF Following, Progress, Phases, Delivered, Reviewed
    <3>6. CASE node = "communication"
      BY <1>2, <2>2, <2>3, <2>4, <3>0, <3>6 DEF Following, Progress, Phases
    <3>7. CASE node = "hitl"
      BY <1>2, <2>2, <2>3, <2>4, <3>0, <3>7 DEF Following, Progress, Reviewed
    <3>8. CASE node = "resume"
      BY <1>2, <2>2, <2>3, <2>4, <3>0, <3>8 DEF Following, Progress, Delivered, Reviewed
    <3>9. CASE node \in {"finish", "failure"}
      BY <2>2, <2>3, <3>9 DEF Following, Progress
    <3> QED BY <1>2, <3>1, <3>2, <3>3, <3>4, <3>5, <3>6, <3>7, <3>8, <3>9
            DEF Casting, Phases
  <2>9. TaskSound(t)' BY <2>2, <2>3, <2>6, <2>7, <2>8 DEF TaskSound
  <2>10. KeepsDecision(t)
    BY <1>2, <2>2, <2>3 DEF KeepsDecision, Following, RouteAfterValidation, Casting, Phases
  <2> QED BY <1>5, <2>3, <2>5, <2>9, <2>10, StaySound
<1> QED BY <1>6, <1>7 DEF Broadcast

LEMMA RaisesSound ==
  ASSUME PipelineInv, NEW t \in Tasks, BroadcastRaises(t) \/ WorkRaises(t)
  PROVE  PipelineInv'
<1>1. TypeOK /\ TaskSound(t) BY DEF PipelineInv
<1>2. CASE BroadcastRaises(t)
  <2>1. task[t].node \notin Ended \cup {"idle"}
    BY <1>1, <1>2 DEF BroadcastRaises, TaskSound, Casting, Phases, Ended
  <2>2. HubTypeOK' BY <1>1, <1>2 DEF BroadcastRaises, LoopRaises, TypeOK, HubTypeOK
  <2>3. faults' \in 0..MaxFaults /\ UNCHANGED store
    BY <1>1, <1>2 DEF BroadcastRaises, TypeOK
  <2> QED BY <1>2, <2>1, <2>2, <2>3, RaiseSound DEF BroadcastRaises
<1>3. CASE WorkRaises(t)
  <2>1. HubTypeOK' /\ UNCHANGED store
    BY <1>1, <1>3 DEF WorkRaises, hubVars, TypeOK, HubTypeOK
  <2>2. faults' \in 0..MaxFaults
    BY <1>1, <1>3, PipelineAssumption DEF WorkRaises, TypeOK
  <2> QED BY <1>3, <2>1, <2>2, RaiseSound DEF WorkRaises
<1> QED BY <1>2, <1>3

(* A request is let in while the execution awaits a decision, so the run   *)
(* has paused.                                                             *)
LEMMA ReceiveDecisionSound ==
  ASSUME PipelineInv, NEW q \in Requests, NEW e \in Executions, NEW decision \in Decisions,
         ReceiveDecision(q, e, decision)
  PROVE  PipelineInv'
<1>0. q \in Tasks /\ q \notin Executions BY PipelineAssumption
<1>1. TypeOK /\ TaskSound(q) /\ DocSound(e) BY <1>0 DEF PipelineInv
<1>2. task[q].node = "idle" /\ store[e].status = "awaiting_hitl"
  BY DEF ReceiveDecision, AtWork
<1>3. task[q].target = NoExecution BY <1>0, <1>1, <1>2 DEF TaskSound, RequestSound
<1>4. /\ task'[q] = [target |-> e, node |-> "hitl", at |-> "work", decision |-> decision]
      /\ \A u \in Tasks \ {q} : task'[u] = task[u]
      /\ UNCHANGED store
  BY <1>0, <1>1 DEF ReceiveDecision, TypeOK
<1>5. TypeOK'
  <2>1. [target |-> e, node |-> "hitl", at |-> "work", decision |-> decision] \in Coroutine
    BY DEF Coroutine, Nodes
  <2> QED BY <1>1, <2>1 DEF ReceiveDecision, TypeOK, HubTypeOK, hubVars
<1>6. \A x \in Executions : Paused(x)' <=> Paused(x)
  BY <1>0, <1>4, PipelineAssumption DEF Paused
<1>7. ASSUME NEW x \in Executions PROVE DocSound(x)'
  <2>1. LetThrough(x) => LetThrough(x)'
    <3> SUFFICES ASSUME NEW p \in Requests, task[p].target = x, Recorded(p),
                        task[p].decision \in {"approved", "modified"}
                 PROVE  LetThrough(x)'
      BY DEF LetThrough
    <3>1. p # q BY <1>3, PipelineAssumption
    <3>2. task'[p] = task[p] BY <1>4, <3>1, PipelineAssumption
    <3> QED BY <3>2 DEF LetThrough, Recorded
  <2>2. DocSound(x) BY DEF PipelineInv
  <2> QED BY <1>4, <1>6, <2>1, <2>2 DEF DocSound
<1>8. ASSUME NEW u \in Tasks \ {q} PROVE TaskSound(u)'
  <2>1. TaskSound(u) /\ task'[u] = task[u] BY <1>4 DEF PipelineInv
  <2>2. Doc(u)' = Doc(u) BY <1>4, <2>1 DEF Doc
  <2>3. u \in Executions => RunSound(u)' BY <1>4, <2>1 DEF TaskSound, RunSound
  <2>4. ASSUME u \in Requests PROVE RequestSound(u)'
    <3>1. task[u].node # "idle" => task[u].target \in Executions BY ActiveTarget
    <3> QED BY <1>6, <2>1, <2>2, <2>4, <3>1 DEF TaskSound, RequestSound
  <2>5. task[u].node # "idle" => Progress(u)'
    BY <2>1, <2>2 DEF TaskSound, Progress, Delivered
  <2> QED BY <2>1, <2>3, <2>4, <2>5 DEF TaskSound
<1>9. TaskSound(q)'
  <2>1. store[e].draft = "hitl_pending" /\ Paused(e) BY <1>1, <1>2 DEF DocSound
  <2>2. Doc(q)' = store[e] BY <1>4 DEF Doc
  <2>3. RequestSound(q)'
    BY <1>4, <1>6, <2>1, <2>2, PipelineAssumption DEF RequestSound, Behind
  <2>4. {"contract", "planning"} \subseteq store[e].phases BY <1>1, <2>1 DEF DocSound
  <2>5. Progress(q)' BY <1>4, <2>2, <2>4 DEF Progress
  <2> QED BY <1>0, <1>4, <2>3, <2>5 DEF TaskSound
<1> QED BY <1>5, <1>7, <1>8, <1>9 DEF PipelineInv

(* A restart forgets coroutines; the documents stay.                       *)
LEMMA RestartSound ==
  ASSUME PipelineInv, Restart
  PROVE  PipelineInv'
<1>1. TypeOK BY DEF PipelineInv
<1>2. ASSUME NEW t \in Tasks
      PROVE  /\ task'[t].target = task[t].target /\ task'[t].decision = task[t].decision
             /\ task[t].node \in Ended \cup {"idle"} => task'[t] = task[t]
             /\ task[t].node \notin Ended \cup {"idle"} =>
                  task'[t].node = "lost" /\ task'[t].at = "work"
             /\ task'[t] \in Coroutine
  BY <1>1 DEF Restart, TypeOK, Coroutine, Nodes, Ended
<1>3. TypeOK'
  <2>1. HubTypeOK' BY <1>1 DEF Restart, HubRestart, TypeOK, HubTypeOK, Feeds
  <2>2. task' \in [Tasks -> Coroutine] BY <1>2 DEF Restart
  <2>3. faults' \in 0..MaxFaults
    <3>1. faults \in 0..MaxFaults BY <1>1 DEF TypeOK
    <3>2. faults < MaxFaults /\ faults' = faults + 1 BY DEF Restart
    <3> QED BY <3>1, <3>2, PipelineAssumption
  <2>4. UNCHANGED store BY DEF Restart
  <2> QED BY <1>1, <2>1, <2>2, <2>3, <2>4 DEF TypeOK
<1>4. UNCHANGED store BY DEF Restart
<1>5. \A x \in Executions : Paused(x) => Paused(x)'
  BY <1>2, PipelineAssumption DEF Paused, Ended
<1>6. ASSUME NEW x \in Executions PROVE DocSound(x)'
  <2>1. LetThrough(x) => LetThrough(x)'
    BY <1>2, PipelineAssumption DEF LetThrough, Recorded, Ended
  <2>2. DocSound(x) BY DEF PipelineInv
  <2> QED BY <1>4, <1>5, <2>1, <2>2 DEF DocSound
<1>7. ASSUME NEW t \in Tasks PROVE TaskSound(t)'
  <2>1. TaskSound(t) BY DEF PipelineInv
  <2>2. Doc(t)' = Doc(t) BY <1>2, <1>4 DEF Doc
  <2>3. t \in Executions => RunSound(t)'
    BY <1>2, <1>4, <2>1 DEF TaskSound, RunSound, Before, Behind, Ended
  <2>4. ASSUME t \in Requests PROVE RequestSound(t)'
    <3>1. ASSUME task[t].node # "idle" PROVE Paused(task[t].target)'
      <4>1. PICK e \in Executions : task[t].target = e BY <3>1, ActiveTarget
      <4>2. Paused(e) BY <2>1, <2>4, <3>1, <4>1 DEF TaskSound, RequestSound
      <4>3. Paused(e)' BY <1>5, <4>2
      <4> QED BY <1>2, <4>1, <4>3
    <3> QED BY <1>2, <2>1, <2>2, <2>4, <3>1 DEF TaskSound, RequestSound, Behind, Ended
  <2>5. task'[t].node # "idle" => Progress(t)'
    BY <1>2, <2>1, <2>2 DEF TaskSound, Progress, Delivered, Ended
  <2> QED BY <1>2, <2>1, <2>3, <2>4, <2>5 DEF TaskSound
<1> QED BY <1>3, <1>6, <1>7 DEF PipelineInv

(* Connections come and go without the pipeline's state.                   *)
LEMMA QuietSound ==
  ASSUME PipelineInv, UNCHANGED <<store, task, faults>>, HubTypeOK'
  PROVE  PipelineInv'
<1>1. TypeOK' BY DEF PipelineInv, TypeOK
<1>2. ASSUME NEW x \in Executions PROVE DocSound(x)'
  BY DEF PipelineInv, DocSound, Paused, LetThrough, Recorded
<1>3. ASSUME NEW u \in Tasks PROVE TaskSound(u)'
  BY DEF PipelineInv, TaskSound, RunSound, RequestSound, Progress, Paused, Doc
<1> QED BY <1>1, <1>2, <1>3 DEF PipelineInv

LEMMA InitSound == Init => PipelineInv
<1> SUFFICES ASSUME Init PROVE PipelineInv OBVIOUS
<1>1. TypeOK
  BY PipelineAssumption
     DEF Init, HubInit, TypeOK, HubTypeOK, Feeds, Document, Coroutine, Nodes, Ended
<1>2. ASSUME NEW e \in Executions PROVE DocSound(e)
  BY <1>2 DEF Init, DocSound
<1>3. ASSUME NEW t \in Tasks PROVE TaskSound(t)
  BY PipelineAssumption DEF Init, TaskSound, RunSound, RequestSound, Before, Behind
<1> QED BY <1>1, <1>2, <1>3 DEF PipelineInv

LEMMA NextSound == PipelineInv /\ [Next]_vars => PipelineInv'
<1> SUFFICES ASSUME PipelineInv, [Next]_vars PROVE PipelineInv' OBVIOUS
<1>1. ASSUME NEW e \in Executions, Submit(e) \/ Launch(e) PROVE PipelineInv'
  BY <1>1, SubmitSound, LaunchSound
<1>2. ASSUME NEW q \in Requests, NEW e \in Executions, NEW decision \in Decisions,
             ReceiveDecision(q, e, decision)
      PROVE  PipelineInv'
  BY <1>2, ReceiveDecisionSound
<1>3. ASSUME NEW t \in Tasks, TaskStep(t) PROVE PipelineInv'
  <2>1. CASE Broadcast(t) BY <2>1, BroadcastSound
  <2>2. CASE BroadcastRaises(t) BY <2>2, RaisesSound
  <2>3. CASE SaveValidationDraft(t) BY <2>3, SaveValidationDraftSound
  <2>4. CASE PauseForHuman(t) BY <2>4, PauseForHumanSound
  <2>5. CASE DecideAutomatically(t) BY <2>5, DecideAutomaticallySound
  <2>6. ASSUME CallPhaseAgent(t) \/ Finish(t) \/ SetFailed(t) \/ RecordDecision(t)
                 \/ SetRunning(t)
        PROVE  PipelineInv'
    <3>1. task[t].node # "idle"
      BY <2>6 DEF CallPhaseAgent, Finish, SetFailed, RecordDecision, SetRunning, AtWork, Phases
    <3>2. PICK e \in Executions : task[t].target = e BY <3>1, ActiveTarget
    <3> QED BY <2>6, <3>2, CallPhaseAgentSound, FinishSound, SetFailedSound,
               RecordDecisionSound, SetRunningSound
  <2> QED BY <1>3, <2>1, <2>2, <2>3, <2>4, <2>5, <2>6 DEF TaskStep
<1>4. ASSUME NEW t \in Tasks, WorkRaises(t) PROVE PipelineInv' BY <1>4, RaisesSound
<1>5. CASE HubNext /\ UNCHANGED <<store, task, faults>>
  <2>1. HubTypeOK'
    BY <1>5 DEF PipelineInv, TypeOK, HubTypeOK, HubNext, Connect, Disconnect, Disturb
  <2> QED BY <1>5, <2>1, QuietSound
<1>6. CASE UNCHANGED vars
  BY <1>6, QuietSound DEF PipelineInv, TypeOK, HubTypeOK, hubVars, vars
<1> QED BY <1>1, <1>2, <1>3, <1>4, <1>5, <1>6, RestartSound DEF Next

-----------------------------------------------------------------------------
LEMMA SoundAlways == Spec => []PipelineInv
BY InitSound, NextSound, PTL DEF Spec

(* Documents, coroutines and connections keep their types through races,   *)
(* exceptions and restarts.                                                *)
THEOREM PipelineTyped == Spec => []TypeOK
<1>1. PipelineInv => TypeOK BY DEF PipelineInv
<1> QED BY <1>1, SoundAlways, PTL

(* Nothing of high risk, and nothing sent to a human, is executed without  *)
(* a human's decision that lets it; and no violation ever is.              *)
THEOREM GateTheorem == Spec => []HumanGate
<1>1. ASSUME PipelineInv PROVE HumanGate
  <2> SUFFICES ASSUME NEW e \in Executions, "execution" \in store[e].phases
               PROVE  /\ ~store[e].violation
                      /\ store[e].highRisk \/ store[e].draft = "hitl_pending" => LetThrough(e)
    BY DEF HumanGate, LetThrough
  <2>1. DocSound(e) BY <1>1 DEF PipelineInv
  <2> QED BY <2>1 DEF DocSound
<1> QED BY <1>1, SoundAlways, PTL

(* What waits for a human has not been executed.                           *)
THEOREM QueueTheorem == Spec => []QueuedIsUntouched
<1>1. PipelineInv => QueuedIsUntouched BY DEF PipelineInv, DocSound, QueuedIsUntouched
<1> QED BY <1>1, SoundAlways, PTL

-----------------------------------------------------------------------------
(* The decision on record is the draft's, or a request's that is recorded; *)
(* and so is a rejection that ends the run, though perhaps another one's.  *)
Ruled(e, decision) ==
  \E q \in Requests : /\ task[q].target = e /\ Recorded(q)
                      /\ task[q].decision = decision

RecordSound(e) ==
  /\ "validation" \in store[e].phases <=> store[e].decision # "none"
  /\ store[e].draft \in {"approved", "rejected"} /\ store[e].decision # "none" =>
       store[e].decision = store[e].draft
  /\ store[e].draft = "hitl_pending" /\ store[e].decision # "none" =>
       Ruled(e, store[e].decision)
  /\ store[e].status = "rejected" =>
       \/ store[e].draft = "rejected"
       \/ store[e].draft = "hitl_pending" /\ Ruled(e, "rejected")

RecordsSound == \A e \in Executions : RecordSound(e)

(* A recorded request stays recorded, with its decision.                   *)
RulingsStay ==
  \A q \in Requests : Recorded(q) => /\ Recorded(q)' /\ task'[q].target = task[q].target
                                     /\ task'[q].decision = task[q].decision

LEMMA RulingsAlways ==
  ASSUME PipelineInv, [Next]_vars
  PROVE  RulingsStay
<1>0. TypeOK /\ Requests \subseteq Tasks BY PipelineAssumption DEF PipelineInv
<1>1. ASSUME NEW t \in Tasks, NEW node \in Nodes \ {"hitl"}, GoTo(t, node)
      PROVE  RulingsStay
  <2>1. PICK c \in Coroutine :
          /\ Becomes(t, c)
          /\ c.target = task[t].target /\ c.node = node /\ c.at = "work"
          /\ c.decision = task[t].decision
    BY <1>1, GoToRecord
  <2>2. \A u \in Tasks : task'[u] = IF u = t THEN c ELSE task[u]
    BY <1>0, <2>1 DEF Becomes, TypeOK
  <2> QED BY <1>0, <1>1, <2>1, <2>2 DEF RulingsStay, Recorded
<1>2. ASSUME NEW t \in Tasks, ThenCast(t) PROVE RulingsStay
  <2>1. PICK c \in Coroutine :
          /\ Becomes(t, c)
          /\ c.target = task[t].target /\ c.node = task[t].node /\ c.at = "cast"
          /\ c.decision = task[t].decision
    BY <1>2, CastRecord
  <2>2. \A u \in Tasks : task'[u] = IF u = t THEN c ELSE task[u]
    BY <1>0, <2>1 DEF Becomes, TypeOK
  <2> QED BY <1>0, <2>1, <2>2 DEF RulingsStay, Recorded
<1>3. ASSUME NEW e \in Executions, Submit(e) \/ Launch(e) PROVE RulingsStay
  BY <1>1, <1>3, PipelineAssumption DEF Submit, Launch, Nodes, Phases
<1>4. ASSUME NEW q \in Requests, NEW e \in Executions, NEW decision \in Decisions,
             ReceiveDecision(q, e, decision)
      PROVE  RulingsStay
  <2>1. task[q].target = NoExecution
    BY <1>0, <1>4 DEF PipelineInv, TaskSound, RequestSound, ReceiveDecision, AtWork
  <2>2. \A u \in Tasks \ {q} : task'[u] = task[u]
    BY <1>0, <1>4 DEF ReceiveDecision, TypeOK
  <2> QED BY <1>0, <2>1, <2>2 DEF RulingsStay, Recorded
<1>5. ASSUME NEW t \in Tasks, DecideAutomatically(t) PROVE RulingsStay
  <2>1. t \in Executions BY <1>5, RunAlone DEF DecideAutomatically, AtWork
  <2>2. \A q \in Requests : task'[q] = task[q]
    BY <1>0, <1>5, <2>1, PipelineAssumption DEF DecideAutomatically, TypeOK
  <2> QED BY <2>2 DEF RulingsStay, Recorded
<1>6. ASSUME NEW t \in Tasks, Broadcast(t) PROVE RulingsStay
  <2>1. task[t].node \in Casting BY <1>6 DEF PipelineInv, TaskSound, Broadcast
  <2>2. Following(t) \in Nodes \ {"hitl"}
    BY <2>1 DEF Following, RouteAfterValidation, Casting, Phases, Nodes, Ended
  <2>3. CASE UNCHANGED task BY <2>3 DEF RulingsStay, Recorded
  <2>4. CASE GoTo(t, Following(t)) BY <1>1, <2>2, <2>4
  <2> QED BY <1>6, <2>3, <2>4 DEF Broadcast
<1>7. ASSUME NEW t \in Tasks, BroadcastRaises(t) \/ WorkRaises(t) PROVE RulingsStay
  <2>1. Handler(t) \in Nodes \ {"hitl"} BY DEF Handler, Nodes, Ended
  <2> QED BY <1>1, <1>7, <2>1 DEF BroadcastRaises, WorkRaises
<1>8. ASSUME NEW t \in Tasks, TaskStep(t) PROVE RulingsStay
  <2>1. "validation" \in Nodes \ {"hitl"} BY DEF Nodes, Phases
  <2> QED BY <1>1, <1>2, <1>5, <1>6, <1>7, <1>8, <2>1
          DEF TaskStep, CallPhaseAgent, SaveValidationDraft, PauseForHuman, Finish, SetFailed,
              RecordDecision, SetRunning
<1>9. CASE Restart
  <2> SUFFICES ASSUME NEW q \in Requests, Recorded(q)
               PROVE  /\ Recorded(q)' /\ task'[q].target = task[q].target
                      /\ task'[q].decision = task[q].decision
    BY DEF RulingsStay
  <2>1. task[q] \in Coroutine BY <1>0 DEF TypeOK
  <2>2. task'[q] \in {task[q], [task[q] EXCEPT !.node = "lost", !.at = "work"]}
    BY <1>0, <1>9 DEF Restart
  <2> QED BY <2>1, <2>2 DEF Recorded, Coroutine
<1>10. CASE UNCHANGED task BY <1>10 DEF RulingsStay, Recorded
<1> QED BY <1>3, <1>4, <1>7, <1>8, <1>9, <1>10 DEF Next, vars

(* A document whose decision and draft stay, and that is not rejected now. *)
LEMMA RecordStays ==
  ASSUME RulingsStay, NEW e \in Executions, RecordSound(e),
         store'[e].decision = store[e].decision, store'[e].draft = store[e].draft,
         "validation" \in store'[e].phases <=> "validation" \in store[e].phases,
         store'[e].status = "rejected" => store[e].status = "rejected"
  PROVE  RecordSound(e)'
<1>1. \A decision : Ruled(e, decision) => Ruled(e, decision)' BY DEF Ruled, RulingsStay
<1> QED BY <1>1 DEF RecordSound

(* The steps that write to a document.                                     *)
LEMMA TaskStepRecords ==
  ASSUME PipelineInv, RecordsSound, RulingsStay, NEW t \in Tasks, TaskStep(t),
         ~UNCHANGED store
  PROVE  RecordsSound'
<1>0. TypeOK /\ TaskSound(t) BY DEF PipelineInv
<1>1. task[t].node # "idle"
  BY DEF TaskStep, CallPhaseAgent, SaveValidationDraft, PauseForHuman,
     DecideAutomatically, Finish, SetFailed, RecordDecision, SetRunning, Broadcast,
     BroadcastRaises, AtWork, Phases
<1>2. PICK e \in Executions : task[t].target = e BY <1>1, ActiveTarget
<1>3. store[e] \in Document /\ Doc(t) = store[e] /\ RecordSound(e)
  BY <1>0, <1>2 DEF TypeOK, Doc, RecordsSound
<1>4. ASSUME NEW doc, Update(t, doc), RecordSound(e)' PROVE RecordsSound'
  <2> SUFFICES ASSUME NEW x \in Executions \ {e} PROVE RecordSound(x)'
    BY <1>4 DEF RecordsSound
  <2>1. store'[x] = store[x] BY <1>0, <1>2, <1>4 DEF Update, TypeOK
  <2> QED BY <2>1, RecordStays DEF RecordsSound
<1>5. \A doc : Update(t, doc) => store'[e] = doc BY <1>0, <1>2 DEF Update, TypeOK
<1>6. CASE CallPhaseAgent(t)
  <2>1. PICK node \in Phases \ {"validation"} :
          Update(t, [store[e] EXCEPT !.phases = @ \cup {node}])
    BY <1>3, <1>6 DEF CallPhaseAgent
  <2>2. store'[e] = [store[e] EXCEPT !.phases = @ \cup {node}] BY <1>5, <2>1
  <2>3. RecordSound(e)' BY <1>3, <2>2, RecordStays DEF Document
  <2> QED BY <1>4, <2>1, <2>3
<1>7. CASE PauseForHuman(t) \/ SetFailed(t) \/ SetRunning(t)
  <2>1. PICK status \in {"awaiting_hitl", "failed", "running"} :
          Update(t, [store[e] EXCEPT !.status = status])
    BY <1>3, <1>7 DEF PauseForHuman, SetFailed, SetRunning
  <2>2. store'[e] = [store[e] EXCEPT !.status = status] BY <1>5, <2>1
  <2>3. RecordSound(e)' BY <1>3, <2>2, RecordStays DEF Document
  <2> QED BY <1>4, <2>1, <2>3
<1>8. CASE SaveValidationDraft(t)
  <2>1. task[t].node = "draft" BY <1>8 DEF SaveValidationDraft, AtWork
  <2>2. t = e /\ e \in Executions BY <1>2, <2>1, RunAlone DEF Before
  <2>3. store[e].phases \subseteq {"contract", "planning"}
    BY <1>0, <2>1, <2>2 DEF TaskSound, RunSound, Before
  <2>4. store[e].status # "rejected" BY <2>3 DEF PipelineInv, DocSound
  <2>5. PICK s \in Assessments :
          Update(t, [store[e] EXCEPT !.draft = s.draft, !.violation = s.violation,
                                     !.highRisk = s.highRisk])
    BY <1>3, <1>8 DEF SaveValidationDraft
  <2>6. store'[e] = [store[e] EXCEPT !.draft = s.draft, !.violation = s.violation,
                                     !.highRisk = s.highRisk]
    BY <1>5, <2>5
  <2>7. /\ store'[e].phases = store[e].phases /\ store'[e].decision = store[e].decision
        /\ store'[e].status = store[e].status
    BY <1>3, <2>6 DEF Document
  <2>8. store[e].decision = "none" BY <1>3, <2>3 DEF RecordSound
  <2>9. RecordSound(e)' BY <2>3, <2>4, <2>7, <2>8 DEF RecordSound
  <2> QED BY <1>4, <2>5, <2>9
<1>9. CASE DecideAutomatically(t)
  <2>1. /\ task[t].node = "validation" /\ task[t].at = "work"
        /\ Update(t, [store[e] EXCEPT !.phases = @ \cup {"validation"},
                                      !.decision = store[e].draft])
        /\ store[e].draft # "hitl_pending"
    BY <1>3, <1>9 DEF DecideAutomatically, AtWork
  <2>2. t = e BY <1>2, <2>1, RunAlone
  <2>3. store[e].draft # "none" /\ store[e].phases \subseteq {"contract", "planning"}
    BY <1>0, <2>1, <2>2 DEF TaskSound, RunSound
  <2>4. store[e].status # "rejected" BY <2>3 DEF PipelineInv, DocSound
  <2>5. store'[e] = [store[e] EXCEPT !.phases = @ \cup {"validation"},
                                     !.decision = store[e].draft]
    BY <1>5, <2>1
  <2>6. /\ store'[e].phases = store[e].phases \cup {"validation"}
        /\ store'[e].decision = store[e].draft /\ store'[e].draft = store[e].draft
        /\ store'[e].status = store[e].status
    BY <1>3, <2>5 DEF Document
  <2>7. RecordSound(e)' BY <2>1, <2>3, <2>4, <2>6 DEF RecordSound
  <2> QED BY <1>4, <2>1, <2>7
<1>10. CASE Finish(t)
  <2>1. task[t].node = "finish" BY <1>10 DEF Finish, AtWork
  <2>2. PICK status \in {"completed", "rejected"} :
          /\ Update(t, [store[e] EXCEPT !.status = status])
          /\ status = "rejected" => task[t].decision \notin {"approved", "modified"}
    BY <1>3, <1>10 DEF Finish
  <2>3. store'[e] = [store[e] EXCEPT !.status = status] BY <1>5, <2>2
  <2>4. /\ store'[e].phases = store[e].phases /\ store'[e].decision = store[e].decision
        /\ store'[e].draft = store[e].draft /\ store'[e].status = status
    BY <1>3, <2>3 DEF Document
  <2>5. CASE status = "completed" BY <1>3, <2>4, <2>5, <2>2, <1>4, RecordStays
  <2>6. CASE status = "rejected" /\ t \in Executions
    <3>1. t = e /\ store[e].draft = "rejected"
      BY <1>0, <1>2, <2>1, <2>2, <2>6 DEF TaskSound, RunSound, Behind
    <3>2. RecordSound(e)' BY <1>3, <2>4, <3>1 DEF RecordSound
    <3> QED BY <1>4, <2>2, <3>2
  <2>7. CASE status = "rejected" /\ t \in Requests
    <3>1. store[e].draft = "hitl_pending" /\ task[t].decision = "rejected"
      BY <1>0, <1>3, <2>1, <2>2, <2>7 DEF TaskSound, RequestSound, Decisions
    <3>2. Recorded(t) BY <1>2, <2>1, PipelineAssumption DEF Recorded
    <3>3. \A decision : Ruled(e, decision) => Ruled(e, decision)' BY DEF Ruled, RulingsStay
    <3>4. Ruled(e, "rejected") BY <1>2, <2>7, <3>1, <3>2 DEF Ruled
    <3>5. RecordSound(e)' BY <1>3, <2>4, <3>1, <3>3, <3>4 DEF RecordSound
    <3> QED BY <1>4, <2>2, <3>5
  <2> QED BY <2>5, <2>6, <2>7, PipelineAssumption
<1>11. CASE RecordDecision(t)
  <2>1. /\ task[t].node = "hitl" /\ ThenCast(t)
        /\ Update(t, [store[e] EXCEPT !.phases = @ \cup {"validation"},
                                      !.decision = task[t].decision])
    BY <1>3, <1>11 DEF RecordDecision, AtWork
  <2>2. t \in Requests
    BY <1>0, <2>1, PipelineAssumption DEF TaskSound, RunSound
  <2>3. store[e].draft = "hitl_pending" /\ task[t].decision \in Decisions
    BY <1>0, <1>3, <2>1, <2>2 DEF TaskSound, RequestSound
  <2>4. store'[e] = [store[e] EXCEPT !.phases = @ \cup {"validation"},
                                     !.decision = task[t].decision]
    BY <1>5, <2>1
  <2>5. /\ store'[e].phases = store[e].phases \cup {"validation"}
        /\ store'[e].decision = task[t].decision /\ store'[e].draft = store[e].draft
        /\ store'[e].status = store[e].status
    BY <1>3, <2>4 DEF Document
  <2>6. PICK c \in Coroutine :
          /\ Becomes(t, c)
          /\ c.target = task[t].target /\ c.node = "hitl" /\ c.at = "cast"
          /\ c.decision = task[t].decision
    BY <2>1, CastRecord
  <2>7. task'[t] = c BY <1>0, <2>6 DEF Becomes, TypeOK
  <2>8. Ruled(e, task[t].decision)'
    BY <1>2, <2>2, <2>6, <2>7, PipelineAssumption DEF Ruled, Recorded
  <2>9. \A decision : Ruled(e, decision) => Ruled(e, decision)' BY DEF Ruled, RulingsStay
  <2>10. task[t].decision # "none" BY <2>3 DEF Decisions
  <2>11. RecordSound(e)' BY <1>3, <2>3, <2>5, <2>7, <2>6, <2>8, <2>9, <2>10 DEF RecordSound
  <2> QED BY <1>4, <2>1, <2>11
<1> QED BY <1>6, <1>7, <1>8, <1>9, <1>10, <1>11
        DEF TaskStep, Broadcast, BroadcastRaises

LEMMA NextRecords ==
  PipelineInv /\ RecordsSound /\ [Next]_vars => RecordsSound'
<1> SUFFICES ASSUME PipelineInv, RecordsSound, [Next]_vars PROVE RecordsSound'
  OBVIOUS
<1>1. RulingsStay BY RulingsAlways
<1>2. CASE UNCHANGED store BY <1>1, <1>2, RecordStays DEF RecordsSound
<1>3. ASSUME NEW t \in Tasks, TaskStep(t), ~UNCHANGED store PROVE RecordsSound'
  BY <1>1, <1>3, TaskStepRecords
<1>4. ASSUME NEW e \in Executions, Submit(e) PROVE RecordsSound'
  <2>1. task[e].target = e /\ store \in [Executions -> Document]
    BY PipelineAssumption DEF PipelineInv, TaskSound, RunSound, TypeOK
  <2>2. store' = [store EXCEPT ![e] = [store[e] EXCEPT !.status = "running"]]
    BY <1>4, <2>1 DEF Submit, Update
  <2>3. \A x \in Executions :
          /\ store'[x].decision = store[x].decision /\ store'[x].draft = store[x].draft
          /\ store'[x].phases = store[x].phases
          /\ store'[x].status = "rejected" => store[x].status = "rejected"
    BY <2>1, <2>2 DEF Document
  <2> QED BY <1>1, <2>3, RecordStays DEF RecordsSound
<1> QED BY <1>2, <1>3, <1>4
        DEF Next, vars, Launch, ReceiveDecision, WorkRaises, Restart

(* Final statuses say what is on record, whichever coroutine wrote them.   *)
THEOREM StatusTheorem == Spec => []StatusBacked
<1>1. Init => RecordsSound
  <2> SUFFICES ASSUME Init, NEW e \in Executions PROVE RecordSound(e)
    BY DEF RecordsSound
  <2>1. /\ store[e].phases = {} /\ store[e].decision = "none"
        /\ store[e].draft = "none" /\ store[e].status = "none"
    BY DEF Init
  <2> QED BY <2>1 DEF RecordSound
<1>2. Spec => []RecordsSound BY <1>1, InitSound, NextSound, NextRecords, PTL DEF Spec
<1>3. PipelineInv /\ RecordsSound => StatusBacked
  <2> SUFFICES ASSUME PipelineInv, RecordsSound, NEW e \in Executions
               PROVE  /\ store[e].status \in {"completed", "rejected"} /\ ~Disputed(e) =>
                           (store[e].status = "rejected" <=> store[e].decision = "rejected")
                      /\ store[e].status = "completed" => store[e].phases = Phases
                      /\ store[e].status = "rejected" =>
                           {"contract", "planning", "validation", "communication"}
                             \subseteq store[e].phases
                      /\ "context" \in store[e].phases => "execution" \in store[e].phases
    BY DEF StatusBacked
  <2>1. DocSound(e) /\ RecordSound(e) BY DEF PipelineInv, RecordsSound
  <2>2. ASSUME store[e].status = "completed", store[e].decision = "rejected"
        PROVE  Disputed(e)
    <3>1. "execution" \in store[e].phases BY <2>1, <2>2 DEF DocSound, Phases
    <3>2. store[e].draft = "hitl_pending" /\ LetThrough(e)
      BY <2>1, <2>2, <3>1 DEF DocSound, RecordSound
    <3>3. Ruled(e, "rejected") BY <2>1, <2>2, <3>2 DEF RecordSound
    <3> QED BY <3>2, <3>3 DEF LetThrough, Ruled, Disputed
  <2>3. ASSUME store[e].status = "rejected", store[e].decision # "rejected"
        PROVE  Disputed(e)
    <3>1. store[e].decision # "none" BY <2>1, <2>3 DEF DocSound, RecordSound
    <3>2. /\ store[e].draft = "hitl_pending"
          /\ Ruled(e, "rejected") /\ Ruled(e, store[e].decision)
      BY <2>1, <2>3, <3>1 DEF RecordSound
    <3> QED BY <2>3, <3>2 DEF Ruled, Disputed
  <2> QED BY <2>1, <2>2, <2>3 DEF DocSound
<1> QED BY <1>2, <1>3, SoundAlways, PTL

-----------------------------------------------------------------------------
(* Why a run settles.  Two facts stand behind it: somebody is always left  *)
(* to write the status that follows "running", and nobody goes on for ever.*)

(* Coroutine t has a status to write to the document of e yet, or an error *)
(* or a restart took it away before it could.                              *)
Drives(t, e) ==
  /\ task[t].target = e
  /\ \/ task[t].node \in {"errored", "lost"}
     \/ /\ task[t].node \notin Ended \cup {"idle"}
        /\ task[t].at = "cast" =>
             /\ task[t].node \notin {"finish", "failure"}
             /\ task[t].node = "validation" => store[e].draft # "hitl_pending"

RunningIsDriven ==
  \A e \in Executions : store[e].status = "running" => \E t \in Tasks : Drives(t, e)

(* A coroutine that writes to its document: what it leaves behind when the *)
(* status is "running".                                                    *)
LEMMA WriterDrives ==
  ASSUME PipelineInv, RunningIsDriven, NEW t, NEW e, Moves(t, e),
         store'[e].status = "running" => Drives(t, e)'
  PROVE  RunningIsDriven'
<1> SUFFICES ASSUME NEW x \in Executions, store'[x].status = "running"
             PROVE  \E u \in Tasks : Drives(u, x)'
  BY DEF RunningIsDriven
<1>1. CASE x = e BY <1>1 DEF Moves
<1>2. CASE x # e
  <2>1. store'[x] = store[x] BY <1>2 DEF Moves
  <2>2. PICK u \in Tasks : Drives(u, x) BY <2>1 DEF RunningIsDriven
  <2>3. u # t BY <1>2, <2>2 DEF Drives, Moves
  <2>4. task'[u] = task[u] BY <2>3 DEF Moves
  <2> QED BY <2>1, <2>2, <2>4 DEF Drives
<1> QED BY <1>1, <1>2

(* One that only goes on: it still drives what it drove.                   *)
LEMMA GoingOnDrives ==
  ASSUME PipelineInv, RunningIsDriven, UNCHANGED store, NEW t,
         \A u \in Tasks \ {t} : task'[u] = task[u],
         \A e \in Executions : Drives(t, e) => Drives(t, e)'
  PROVE  RunningIsDriven'
BY DEF RunningIsDriven, Drives

LEMMA UpdateFrame ==
  ASSUME PipelineInv, NEW t \in Tasks, NEW e \in Executions, task[t].target = e,
         NEW doc, Update(t, doc), NEW c \in Coroutine, Becomes(t, c), c.target = e
  PROVE  Moves(t, e) /\ store'[e] = doc /\ task'[t] = c
BY DEF PipelineInv, TypeOK, Update, Becomes, Moves

LEMMA CastFrame ==
  ASSUME PipelineInv, NEW t \in Tasks, NEW e \in Executions, task[t].target = e,
         NEW doc, Update(t, doc), ThenCast(t)
  PROVE  /\ Moves(t, e) /\ store'[e] = doc
         /\ task'[t].node = task[t].node /\ task'[t].at = "cast" /\ task'[t].target = e
<1>1. PICK c \in Coroutine :
        /\ Becomes(t, c)
        /\ c.target = task[t].target /\ c.node = task[t].node /\ c.at = "cast"
  BY CastRecord
<1> QED BY <1>1, UpdateFrame

LEMMA GoToFrame ==
  ASSUME PipelineInv, NEW t \in Tasks, NEW node \in Nodes, GoTo(t, node)
  PROVE  /\ task'[t].node = node /\ task'[t].at = "work" /\ task'[t].target = task[t].target
         /\ \A u \in Tasks \ {t} : task'[u] = task[u]
BY DEF PipelineInv, TypeOK, Coroutine, GoTo

LEMMA HandlerDrives ==
  ASSUME PipelineInv, RunningIsDriven, NEW t \in Tasks, UNCHANGED store,
         GoTo(t, Handler(t))
  PROVE  RunningIsDriven'
<1>1. Handler(t) \in {"errored", "failure"} /\ Handler(t) \in Nodes
  BY DEF Handler, Nodes, Ended
<1>2. /\ task'[t].node = Handler(t) /\ task'[t].at = "work"
      /\ task'[t].target = task[t].target
      /\ \A u \in Tasks \ {t} : task'[u] = task[u]
  BY <1>1, GoToFrame
<1>3. \A e \in Executions : Drives(t, e) => Drives(t, e)'
  BY <1>1, <1>2 DEF Drives, Ended
<1> QED BY <1>2, <1>3, GoingOnDrives

LEMMA TaskStepDrives ==
  ASSUME PipelineInv, RunningIsDriven, NEW t \in Tasks, TaskStep(t)
  PROVE  RunningIsDriven'
<1>0. TypeOK /\ TaskSound(t) BY DEF PipelineInv
<1>1. task[t].node # "idle"
  BY <1>0 DEF TaskStep, CallPhaseAgent, SaveValidationDraft, PauseForHuman,
     DecideAutomatically, Finish, SetFailed, RecordDecision, SetRunning, Broadcast,
     BroadcastRaises, AtWork, TaskSound, Casting, Phases
<1>2. PICK e \in Executions : task[t].target = e BY <1>1, ActiveTarget
<1>3. store[e] \in Document BY <1>0 DEF TypeOK
<1>4. ASSUME CallPhaseAgent(t) PROVE RunningIsDriven'
  <2>1. PICK node \in Phases \ {"validation"} :
          /\ task[t].node = node
          /\ Update(t, [Doc(t) EXCEPT !.phases = @ \cup {node}])
          /\ ThenCast(t)
    BY <1>4 DEF CallPhaseAgent, AtWork
  <2>2. Moves(t, e) /\ task'[t].node = node /\ task'[t].at = "cast" /\ task'[t].target = e
    BY <1>2, <2>1, CastFrame
  <2>3. Drives(t, e)' BY <2>2 DEF Drives, Phases, Ended
  <2> QED BY <2>2, <2>3, WriterDrives
<1>5. ASSUME SaveValidationDraft(t) PROVE RunningIsDriven'
  <2>1. PICK assessed \in Assessments :
          /\ Update(t, [Doc(t) EXCEPT !.draft = assessed.draft,
                                      !.violation = assessed.violation,
                                      !.highRisk = assessed.highRisk])
          /\ GoTo(t, "validation")
    BY <1>5 DEF SaveValidationDraft
  <2>2. PICK c \in Coroutine :
          Becomes(t, c) /\ c.target = e /\ c.node = "validation" /\ c.at = "work"
    BY <1>2, <2>1, GoToRecord DEF Nodes, Phases
  <2>3. Moves(t, e) /\ task'[t] = c BY <1>2, <2>1, <2>2, UpdateFrame
  <2>4. Drives(t, e)' BY <2>2, <2>3 DEF Drives, Ended
  <2> QED BY <2>3, <2>4, WriterDrives
<1>6. ASSUME PauseForHuman(t) PROVE RunningIsDriven'
  <2>1. Moves(t, e) /\ store'[e] = [store[e] EXCEPT !.status = "awaiting_hitl"]
    BY <1>2, <1>6, CastFrame DEF PauseForHuman, Doc
  <2>2. store'[e].status # "running" BY <1>3, <2>1 DEF Document
  <2> QED BY <2>1, <2>2, WriterDrives
<1>7. ASSUME DecideAutomatically(t) PROVE RunningIsDriven'
  <2> DEFINE doc == [store[e] EXCEPT !.phases = @ \cup {"validation"},
                                     !.decision = store[e].draft]
             c == [task[t] EXCEPT !.at = "cast", !.decision = store[e].draft]
  <2>1. /\ task[t].node = "validation" /\ store[e].draft # "hitl_pending"
        /\ Update(t, doc) /\ Becomes(t, c)
    BY <1>0, <1>2, <1>7 DEF DecideAutomatically, AtWork, Doc, Becomes, TypeOK
  <2>2. doc.draft = store[e].draft BY <1>3 DEF Document
  <2>3. /\ c \in Coroutine
        /\ c.target = e /\ c.node = "validation" /\ c.at = "cast"
    BY <1>0, <1>2, <1>3, <2>1 DEF TypeOK, Coroutine, Document, Outcomes, Decisions
  <2> HIDE DEF doc, c
  <2>4. Moves(t, e) /\ store'[e] = doc /\ task'[t] = c BY <1>2, <2>1, <2>3, UpdateFrame
  <2>5. Drives(t, e)' BY <2>1, <2>2, <2>3, <2>4 DEF Drives, Ended
  <2> QED BY <2>4, <2>5, WriterDrives
<1>8. ASSUME Finish(t) PROVE RunningIsDriven'
  <2>1. /\ Moves(t, e)
        /\ store'[e] = [store[e] EXCEPT !.status =
             IF task[t].decision \in {"approved", "modified"} THEN "completed" ELSE "rejected"]
    BY <1>2, <1>8, CastFrame DEF Finish, Doc
  <2>2. store'[e].status # "running" BY <1>3, <2>1 DEF Document
  <2> QED BY <2>1, <2>2, WriterDrives
<1>9. ASSUME SetFailed(t) PROVE RunningIsDriven'
  <2>1. Moves(t, e) /\ store'[e] = [store[e] EXCEPT !.status = "failed"]
    BY <1>2, <1>9, CastFrame DEF SetFailed, Doc
  <2>2. store'[e].status # "running" BY <1>3, <2>1 DEF Document
  <2> QED BY <2>1, <2>2, WriterDrives
<1>10. ASSUME RecordDecision(t) \/ SetRunning(t) PROVE RunningIsDriven'
  <2>1. task[t].node \in {"hitl", "resume"} /\ ThenCast(t) /\ \E doc : Update(t, doc)
    BY <1>10 DEF RecordDecision, SetRunning, AtWork
  <2>2. /\ Moves(t, e)
        /\ task'[t].node = task[t].node /\ task'[t].at = "cast" /\ task'[t].target = e
    BY <1>2, <2>1, CastFrame
  <2>3. Drives(t, e)' BY <2>1, <2>2 DEF Drives, Ended
  <2> QED BY <2>2, <2>3, WriterDrives
<1>11. ASSUME Broadcast(t) PROVE RunningIsDriven'
  <2>1. UNCHANGED store /\ task[t].at = "cast" /\ task[t].node \in Casting
    BY <1>0, <1>11 DEF Broadcast, TaskSound
  <2>2. CASE UNCHANGED task
    <3>1. \A x \in Executions : Drives(t, x) => Drives(t, x)' BY <2>1, <2>2 DEF Drives
    <3> QED BY <2>1, <2>2, <3>1, GoingOnDrives
  <2>3. CASE GoTo(t, Following(t))
    <3>1. Following(t) \in Nodes
      BY <2>1 DEF Following, RouteAfterValidation, Casting, Phases, Nodes, Ended
    <3>2. /\ task'[t].node = Following(t) /\ task'[t].at = "work"
          /\ task'[t].target = task[t].target
          /\ \A u \in Tasks \ {t} : task'[u] = task[u]
      BY <2>3, <3>1, GoToFrame
    <3>3. \/ Following(t) \notin Ended \cup {"idle"}
          \/ task[t].node \in {"finish", "failure"}
          \/ task[t].node = "validation" /\ store[e].draft = "hitl_pending"
      BY <1>2, <2>1 DEF Following, RouteAfterValidation, Casting, Phases, Ended, Doc
    <3>4. \A x \in Executions : Drives(t, x) => Drives(t, x)'
      BY <1>2, <2>1, <3>2, <3>3 DEF Drives, Ended
    <3> QED BY <2>1, <3>2, <3>4, GoingOnDrives
  <2> QED BY <1>11, <2>2, <2>3 DEF Broadcast
<1>12. ASSUME BroadcastRaises(t) PROVE RunningIsDriven'
  <2>1. UNCHANGED store /\ GoTo(t, Handler(t)) BY <1>12 DEF BroadcastRaises
  <2> QED BY <2>1, HandlerDrives
<1> QED BY <1>4, <1>5, <1>6, <1>7, <1>8, <1>9, <1>10, <1>11, <1>12 DEF TaskStep

LEMMA NextDrives ==
  PipelineInv /\ RunningIsDriven /\ [Next]_vars => RunningIsDriven'
<1> SUFFICES ASSUME PipelineInv, RunningIsDriven, [Next]_vars PROVE RunningIsDriven'
  OBVIOUS
<1>0. TypeOK BY DEF PipelineInv
<1>1. ASSUME NEW e \in Executions, Submit(e) \/ Launch(e) PROVE RunningIsDriven'
  <2>1. e \in Tasks /\ task[e].target = e
    BY PipelineAssumption DEF PipelineInv, TaskSound, RunSound
  <2>2. PICK node \in {"submit", "contract"} : GoTo(e, node)
    BY <1>1 DEF Submit, Launch
  <2>3. PICK c \in Coroutine :
          Becomes(e, c) /\ c.target = e /\ c.node = node /\ c.at = "work"
    BY <2>1, <2>2, GoToRecord DEF Nodes, Phases
  <2>4. Moves(e, e) /\ task'[e] = c
    <3>1. CASE \E doc : Update(e, doc) BY <2>1, <2>3, <3>1, UpdateFrame
    <3>2. CASE UNCHANGED store
      BY <1>0, <2>1, <2>3, <3>2 DEF Moves, Becomes, TypeOK
    <3> QED BY <1>1, <3>1, <3>2 DEF Submit, Launch
  <2>5. Drives(e, e)' BY <2>3, <2>4 DEF Drives, Ended
  <2> QED BY <2>4, <2>5, WriterDrives
<1>2. ASSUME NEW q \in Requests, NEW e \in Executions, NEW decision \in Decisions,
             ReceiveDecision(q, e, decision)
      PROVE  RunningIsDriven'
  <2>1. q \in Tasks /\ task[q].node = "idle" /\ UNCHANGED store
    BY <1>2, PipelineAssumption DEF ReceiveDecision, AtWork
  <2>2. \A u \in Tasks \ {q} : task'[u] = task[u]
    BY <1>0, <1>2 DEF ReceiveDecision, TypeOK
  <2>3. \A x \in Executions : ~Drives(q, x) BY <2>1 DEF Drives, Ended
  <2> QED BY <2>1, <2>2, <2>3, GoingOnDrives
<1>3. ASSUME NEW t \in Tasks, TaskStep(t) PROVE RunningIsDriven'
  BY <1>3, TaskStepDrives
<1>4. ASSUME NEW t \in Tasks, WorkRaises(t) PROVE RunningIsDriven'
  BY <1>4, HandlerDrives DEF WorkRaises
<1>5. ASSUME Restart PROVE RunningIsDriven'
  <2>1. UNCHANGED store BY <1>5 DEF Restart
  <2>2. ASSUME NEW t \in Tasks, NEW e \in Executions, Drives(t, e) PROVE Drives(t, e)'
    <3>1. task[t] \in Coroutine BY <1>0 DEF TypeOK
    <3>2. CASE task[t].node \in Ended \cup {"idle"}
      <4>1. task'[t] = task[t] BY <1>5, <3>2 DEF Restart
      <4> QED BY <2>1, <2>2, <4>1 DEF Drives
    <3>3. CASE task[t].node \notin Ended \cup {"idle"}
      <4>1. task'[t] = [task[t] EXCEPT !.node = "lost", !.at = "work"]
        BY <1>5, <3>3 DEF Restart
      <4>2. task'[t].node = "lost" /\ task'[t].target = task[t].target
        BY <3>1, <4>1 DEF Coroutine
      <4> QED BY <2>2, <4>2 DEF Drives
    <3> QED BY <3>2, <3>3
  <2> QED BY <2>1, <2>2 DEF RunningIsDriven
<1>6. CASE UNCHANGED <<store, task>> BY <1>6 DEF RunningIsDriven, Drives
<1> QED BY <1>1, <1>2, <1>3, <1>4, <1>5, <1>6 DEF Next, vars

(* An execution that is running is never left alone: a coroutine is on its *)
(* way to write another status, whatever the decisions that raced for it   *)
(* wrote, or one was lost or died of an exception nobody handles.          *)
THEOREM DrivenTheorem == Spec => []RunningIsDriven
<1>1. Init => RunningIsDriven BY DEF Init, RunningIsDriven
<1> QED BY <1>1, InitSound, NextSound, NextDrives, PTL DEF Spec

-----------------------------------------------------------------------------
(* How far a coroutine is from its end: the nodes before it, and in each   *)
(* the update and the loops of the broadcast behind it.                    *)
Distance(node) ==
  CASE node = "idle" -> 12
    [] node = "submit" -> 11
    [] node = "contract" -> 10
    [] node = "planning" -> 9
    [] node \in {"draft", "hitl"} -> 8
    [] node \in {"validation", "resume"} -> 7
    [] node = "execution" -> 6
    [] node = "context" -> 5
    [] node = "communication" -> 4
    [] node = "finish" -> 3
    [] node = "failure" -> 2
    [] node \in Ended -> 1

Legs(at, feed) ==
  IF at = "work" THEN 3 ELSE IF feed = "off" THEN 2 ELSE IF feed = "all" THEN 1 ELSE 0

Ahead(t) == 4 * Distance(task[t].node) + Legs(task[t].at, looping[t])

NoneReturns == \A t \in Tasks : Ahead(t)' <= Ahead(t)

(* What is no step of a coroutine: a connection that comes or goes, and a  *)
(* restart, which is counted as a fault.                                   *)
GoesOn ==
  /\ NoneReturns
  /\ UNCHANGED <<watching, faults>> => \E t \in Tasks : Ahead(t)' < Ahead(t)

LEMMA DistanceNat == \A node \in Nodes : Distance(node) \in 1..12
BY DEF Distance, Nodes, Phases, Ended

Counted == \A t \in Tasks : Ahead(t) \in Nat

LEMMA AheadNat == TypeOK => Counted
<1> SUFFICES ASSUME TypeOK, NEW t \in Tasks PROVE Ahead(t) \in Nat
  BY DEF Counted
<1>1. task[t].node \in Nodes BY DEF TypeOK, Coroutine
<1>2. Distance(task[t].node) \in 1..12 BY <1>1, DistanceNat
<1>3. Legs(task[t].at, looping[t]) \in 0..3 BY DEF Legs
<1> QED BY <1>2, <1>3 DEF Ahead

(* A step of one coroutine.                                                *)
LEMMA OneGoesOn ==
  ASSUME TypeOK, NEW t \in Tasks,
         \A u \in Tasks \ {t} : task'[u] = task[u] /\ looping'[u] = looping[u],
         Ahead(t)' < Ahead(t), TypeOK'
  PROVE  GoesOn
<1>1. TypeOK' => Counted' BY AheadNat, PTL
<1>2. \A u \in Tasks : Ahead(u) \in Nat /\ Ahead(u)' \in Nat
  BY <1>1, AheadNat DEF Counted
<1>3. \A u \in Tasks \ {t} : Ahead(u)' = Ahead(u) BY DEF Ahead
<1> QED BY <1>2, <1>3 DEF GoesOn, NoneReturns

LEMMA Nearer ==
  ASSUME TypeOK, NEW t \in Tasks, NEW node \in Nodes, GoTo(t, node),
         Distance(node) < Distance(task[t].node)
  PROVE  /\ Ahead(t)' < Ahead(t)
         /\ \A u \in Tasks \ {t} : task'[u] = task[u]
<1>1. task'[t].node = node /\ \A u \in Tasks \ {t} : task'[u] = task[u]
  BY DEF TypeOK, Coroutine, GoTo
<1>2. task[t].node \in Nodes BY DEF TypeOK, Coroutine
<1>3. Distance(node) \in 1..12 /\ Distance(task[t].node) \in 1..12
  BY <1>2, DistanceNat
<1>4. Legs(task[t].at, looping[t]) \in 0..3 /\ Legs(task'[t].at, looping'[t]) \in 0..3
  BY DEF Legs
<1>5. Ahead(t)' = 4 * Distance(node) + Legs(task'[t].at, looping'[t]) BY <1>1 DEF Ahead
<1> QED BY <1>1, <1>3, <1>4, <1>5 DEF Ahead

LEMMA BeginsCast ==
  ASSUME TypeOK, NEW t \in Tasks, task[t].at = "work",
         \E decision : task' = [task EXCEPT ![t].at = "cast", ![t].decision = decision]
  PROVE  /\ Ahead(t)' < Ahead(t)
         /\ \A u \in Tasks \ {t} : task'[u] = task[u]
<1>1. /\ task'[t].node = task[t].node /\ task'[t].at = "cast"
      /\ \A u \in Tasks \ {t} : task'[u] = task[u]
  BY DEF TypeOK, Coroutine
<1>2. task[t].node \in Nodes BY DEF TypeOK, Coroutine
<1>3. Distance(task[t].node) \in 1..12 BY <1>2, DistanceNat
<1>4. Legs(task'[t].at, looping'[t]) \in 0..2 BY <1>1 DEF Legs
<1>5. Ahead(t) = 4 * Distance(task[t].node) + 3 BY DEF Ahead, Legs
<1>6. Ahead(t)' = 4 * Distance(task[t].node) + Legs(task'[t].at, looping'[t])
  BY <1>1 DEF Ahead
<1>7. Ahead(t)' < Ahead(t) BY <1>3, <1>4, <1>5, <1>6
<1> QED BY <1>1, <1>7

(* Where an exception leads lies ahead.                                    *)
LEMMA HandlerNearer ==
  ASSUME TypeOK, NEW t \in Tasks, task[t].node \notin Ended \cup {"idle"}
  PROVE  Handler(t) \in Nodes /\ Distance(Handler(t)) < Distance(task[t].node)
<1>1. task[t].node \in Nodes BY DEF TypeOK, Coroutine
<1> QED BY <1>1 DEF Handler, Nodes, Phases, Ended, Distance

LEMMA FollowingNearer ==
  ASSUME NEW t \in Tasks, task[t].node \in Casting
  PROVE  Following(t) \in Nodes /\ Distance(Following(t)) < Distance(task[t].node)
<1> USE DEF Nodes, Phases, Ended, Distance
<1>1. CASE task[t].node = "contract" BY <1>1 DEF Following
<1>2. CASE task[t].node = "planning" BY <1>2 DEF Following
<1>3. CASE task[t].node = "validation"
  <2>1. Following(t) \in {"done", "communication", "execution"}
    BY <1>3 DEF Following, RouteAfterValidation
  <2> QED BY <1>3, <2>1
<1>4. CASE task[t].node = "execution" BY <1>4 DEF Following
<1>5. CASE task[t].node = "context" BY <1>5 DEF Following
<1>6. CASE task[t].node = "communication" BY <1>6 DEF Following
<1>7. CASE task[t].node = "hitl" BY <1>7 DEF Following
<1>8. CASE task[t].node = "resume"
  <2>1. Following(t) \in {"communication", "execution"} BY <1>8 DEF Following
  <2> QED BY <1>8, <2>1
<1>9. CASE task[t].node \in {"finish", "failure"} BY <1>9 DEF Following
<1> QED BY <1>1, <1>2, <1>3, <1>4, <1>5, <1>6, <1>7, <1>8, <1>9 DEF Casting

(* A loop runs over the global feed or that of the coroutine's execution.  *)
LoopsOwn ==
  \A t \in Tasks : /\ looping[t] \in {"off", "all", task[t].target}
                   /\ task[t].node = "idle" => looping[t] = "off"

LEMMA TaskGoesOn ==
  ASSUME PipelineInv, LoopsOwn, TypeOK', NEW t \in Tasks, TaskStep(t)
  PROVE  GoesOn
<1>0. TypeOK /\ TaskSound(t) BY DEF PipelineInv
<1>1. ASSUME NEW doc, Update(t, doc) PROVE \A u \in Tasks : looping'[u] = looping[u]
  BY <1>1 DEF Update, hubVars
<1>2. ASSUME task[t].at = "work", NEW doc, Update(t, doc), ThenCast(t) PROVE GoesOn
  <2>1. task' = [task EXCEPT ![t].at = "cast", ![t].decision = task[t].decision]
    BY <1>0, <1>2 DEF ThenCast, TypeOK, Coroutine
  <2> QED BY <1>0, <1>1, <1>2, <2>1, BeginsCast, OneGoesOn
<1>3. ASSUME SaveValidationDraft(t) PROVE GoesOn
  <2>1. task[t].node = "draft" /\ GoTo(t, "validation") /\ \E doc : Update(t, doc)
    BY <1>3 DEF SaveValidationDraft, AtWork
  <2>2. "validation" \in Nodes /\ Distance("validation") < Distance("draft")
    BY DEF Nodes, Phases, Distance, Ended
  <2> QED BY <1>0, <1>1, <2>1, <2>2, Nearer, OneGoesOn
<1>4. ASSUME DecideAutomatically(t) PROVE GoesOn
  <2>1. task[t].at = "work" /\ \E doc : Update(t, doc)
    BY <1>4 DEF DecideAutomatically, AtWork
  <2> QED BY <1>0, <1>1, <1>4, <2>1, BeginsCast, OneGoesOn DEF DecideAutomatically
<1>5. ASSUME \/ CallPhaseAgent(t) \/ PauseForHuman(t) \/ Finish(t) \/ SetFailed(t)
             \/ RecordDecision(t) \/ SetRunning(t)
      PROVE  GoesOn
  <2>1. task[t].at = "work" /\ ThenCast(t) /\ \E doc : Update(t, doc)
    BY <1>5 DEF CallPhaseAgent, PauseForHuman, Finish, SetFailed, RecordDecision,
                SetRunning, AtWork
  <2> QED BY <1>2, <2>1
<1>6. ASSUME Broadcast(t) PROVE GoesOn
  <2> DEFINE next == NextLoop(t, task[t].target)
  <2>1. /\ task[t].at = "cast" /\ task[t].node \in Casting
        /\ looping' = [looping EXCEPT ![t] = next]
    BY <1>0, <1>6 DEF Broadcast, SendOn, TaskSound
  <2>2. looping'[t] = next /\ \A u \in Tasks \ {t} : looping'[u] = looping[u]
    BY <1>0, <2>1 DEF TypeOK, HubTypeOK
  <2>3. CASE next = "off"
    <3>1. GoTo(t, Following(t)) BY <1>6, <2>3 DEF Broadcast
    <3>2. Following(t) \in Nodes /\ Distance(Following(t)) < Distance(task[t].node)
      BY <2>1, FollowingNearer
    <3> QED BY <1>0, <2>2, <3>1, <3>2, Nearer, OneGoesOn
  <2>4. CASE next # "off"
    <3>1. UNCHANGED task BY <1>6, <2>4 DEF Broadcast
    <3>2. \/ looping[t] = "off" /\ next = "all"
          \/ looping[t] # task[t].target /\ next = task[t].target
      BY <2>4 DEF NextLoop
    <3>3. task[t].target \in Executions
      BY <2>1, ActiveTarget DEF Casting, Phases
    <3>4. looping[t] \in {"off", "all", task[t].target}
      BY DEF LoopsOwn
    <3>5. Legs("cast", next) < Legs("cast", looping[t])
      BY <2>4, <3>2, <3>3, <3>4, FeedsAssumption DEF Legs
    <3>6. task[t].node \in Nodes BY <1>0 DEF TypeOK, Coroutine
    <3>7. Distance(task[t].node) \in 1..12 BY <3>6, DistanceNat
    <3>8. Legs("cast", next) \in 0..3 /\ Legs("cast", looping[t]) \in 0..3 BY DEF Legs
    <3>9. /\ Ahead(t)' = 4 * Distance(task[t].node) + Legs("cast", next)
          /\ Ahead(t) = 4 * Distance(task[t].node) + Legs("cast", looping[t])
      BY <2>1, <2>2, <3>1 DEF Ahead
    <3>10. Ahead(t)' < Ahead(t) BY <3>5, <3>7, <3>8, <3>9
    <3> QED BY <1>0, <2>2, <3>1, <3>10, OneGoesOn
  <2> QED BY <2>3, <2>4
<1>7. ASSUME BroadcastRaises(t) PROVE GoesOn
  <2>1. task[t].node \notin Ended \cup {"idle"}
    BY <1>0, <1>7 DEF BroadcastRaises, TaskSound, Casting, Phases, Ended
  <2>2. \A u \in Tasks \ {t} : looping'[u] = looping[u]
    BY <1>0, <1>7 DEF BroadcastRaises, LoopRaises, TypeOK, HubTypeOK
  <2> QED BY <1>0, <1>7, <2>1, <2>2, HandlerNearer, Nearer, OneGoesOn DEF BroadcastRaises
<1> QED BY <1>3, <1>4, <1>5, <1>6, <1>7 DEF TaskStep

LEMMA NextLoopsOwn == PipelineInv /\ LoopsOwn /\ [Next]_vars => LoopsOwn'
<1> SUFFICES ASSUME PipelineInv, LoopsOwn, [Next]_vars, NEW t \in Tasks
             PROVE  /\ looping'[t] \in {"off", "all", task'[t].target}
                    /\ task'[t].node = "idle" => looping'[t] = "off"
  BY DEF LoopsOwn
<1>0. TypeOK /\ TaskSound(t) BY DEF PipelineInv
<1>1. /\ looping[t] \in {"off", "all", task[t].target}
      /\ task[t].node = "idle" => looping[t] = "off"
  BY DEF LoopsOwn
<1> DEFINE Loops == \/ looping'[t] \in {looping[t], "off"}
                    \/ looping'[t] \in {"all", task[t].target} /\ task[t].node # "idle"
           Stays == /\ task'[t].target = task[t].target \/ task[t].node = "idle"
                    /\ task'[t].node = "idle" => task[t].node = "idle"
<1>2. ASSUME Loops, Stays
      PROVE  /\ looping'[t] \in {"off", "all", task'[t].target}
             /\ task'[t].node = "idle" => looping'[t] = "off"
  BY <1>1, <1>2
<1> HIDE DEF Loops, Stays
<1>3. ASSUME NEW u \in Tasks, NEW node, GoTo(u, node), node # "idle" PROVE Stays
  BY <1>0, <1>3 DEF GoTo, TypeOK, Coroutine, Stays
<1>4. ASSUME NEW u \in Tasks, ThenCast(u) PROVE Stays
  BY <1>0, <1>4 DEF ThenCast, TypeOK, Coroutine, Stays
<1>5. UNCHANGED looping => Loops BY DEF Loops
<1>6. \A doc, u : Update(u, doc) => UNCHANGED looping BY DEF Update, hubVars
<1>7. ASSUME NEW e \in Executions, Submit(e) \/ Launch(e) PROVE Loops /\ Stays
  <2>1. e \in Tasks BY PipelineAssumption
  <2> QED BY <1>3, <1>5, <1>6, <1>7, <2>1 DEF Submit, Launch, hubVars
<1>8. ASSUME NEW q \in Requests, NEW e \in Executions, NEW decision \in Decisions,
             ReceiveDecision(q, e, decision)
      PROVE  Loops /\ Stays
  BY <1>0, <1>5, <1>8 DEF ReceiveDecision, AtWork, TypeOK, Stays, hubVars
<1>9. ASSUME NEW u \in Tasks, TaskStep(u) PROVE Loops /\ Stays
  <2>1. CASE CallPhaseAgent(u) \/ PauseForHuman(u) \/ Finish(u) \/ SetFailed(u)
               \/ RecordDecision(u) \/ SetRunning(u)
    BY <1>4, <1>5, <1>6, <2>1 DEF CallPhaseAgent, PauseForHuman, Finish, SetFailed,
                                  RecordDecision, SetRunning
  <2>2. CASE SaveValidationDraft(u) BY <1>3, <1>5, <1>6, <2>2 DEF SaveValidationDraft
  <2>3. CASE DecideAutomatically(u)
    BY <1>0, <1>5, <1>6, <2>3 DEF DecideAutomatically, TypeOK, Coroutine, Stays
  <2>4. CASE Broadcast(u)
    <3>1. /\ task[u].node \in Casting
          /\ looping' = [looping EXCEPT ![u] = NextLoop(u, task[u].target)]
      BY <2>4 DEF Broadcast, SendOn, PipelineInv, TaskSound
    <3>2. NextLoop(u, task[u].target) \in {"off", "all", task[u].target} BY DEF NextLoop
    <3>3. Loops
      BY <1>0, <3>1, <3>2 DEF TypeOK, HubTypeOK, Loops, Casting, Phases
    <3>4. Following(u) # "idle"
      BY <3>1 DEF Following, RouteAfterValidation, Casting, Phases
    <3>5. Stays BY <1>3, <2>4, <3>4 DEF Broadcast, Stays
    <3> QED BY <3>3, <3>5
  <2>5. CASE BroadcastRaises(u)
    <3>1. Handler(u) # "idle" BY DEF Handler
    <3>2. Loops
      BY <1>0, <2>5 DEF BroadcastRaises, LoopRaises, TypeOK, HubTypeOK, Loops
    <3> QED BY <1>3, <2>5, <3>1, <3>2 DEF BroadcastRaises
  <2> QED BY <1>9, <2>1, <2>2, <2>3, <2>4, <2>5 DEF TaskStep
<1>10. ASSUME NEW u \in Tasks, WorkRaises(u) PROVE Loops /\ Stays
  <2>1. Handler(u) # "idle" BY DEF Handler
  <2> QED BY <1>3, <1>5, <1>10, <2>1 DEF WorkRaises, hubVars
<1>11. ASSUME Restart PROVE Loops /\ Stays
  <2>1. looping'[t] = "off" BY <1>11 DEF Restart, HubRestart
  <2>2. task'[t] = IF task[t].node \in Ended \cup {"idle"} THEN task[t]
                   ELSE [task[t] EXCEPT !.node = "lost", !.at = "work"]
    BY <1>11 DEF Restart
  <2> QED BY <1>0, <2>1, <2>2 DEF TypeOK, Coroutine, Loops, Stays
<1>12. ASSUME UNCHANGED <<task, looping>> PROVE Loops /\ Stays
  BY <1>12 DEF Loops, Stays
<1> QED BY <1>2, <1>7, <1>8, <1>9, <1>10, <1>11, <1>12
        DEF Next, HubNext, Connect, Disconnect, vars, hubVars

(* What is in the way of the others when a restart takes them.             *)
LEMMA RestartGoesOn ==
  ASSUME PipelineInv, TypeOK', Restart
  PROVE  GoesOn
<1>0. TypeOK BY DEF PipelineInv
<1>1. faults' # faults
  <2>1. faults' = faults + 1 BY DEF Restart
  <2>2. faults \in Nat BY <1>0, PipelineAssumption DEF TypeOK
  <2> QED BY <2>1, <2>2
<1>2. ASSUME NEW t \in Tasks PROVE Ahead(t)' <= Ahead(t)
  <2>1. task[t] \in Coroutine /\ TaskSound(t) BY <1>0 DEF TypeOK, PipelineInv
  <2>2. Distance(task[t].node) \in 1..12 BY <2>1, DistanceNat DEF Coroutine
  <2>3. Legs(task[t].at, looping[t]) \in 0..3 BY DEF Legs
  <2>4. CASE task[t].node \in Ended \cup {"idle"}
    <3>1. task'[t] = task[t] BY <2>4 DEF Restart
    <3>2. task[t].at = "work"
      BY <2>1, <2>4 DEF TaskSound, Coroutine, Casting, Phases, Ended
    <3>3. Ahead(t)' = Ahead(t) BY <3>1, <3>2 DEF Ahead, Legs
    <3> QED BY <2>2, <2>3, <3>3 DEF Ahead
  <2>5. CASE task[t].node \notin Ended \cup {"idle"}
    <3>1. task'[t] = [task[t] EXCEPT !.node = "lost", !.at = "work"] BY <2>5 DEF Restart
    <3>2. task'[t].node = "lost" /\ task'[t].at = "work" BY <2>1, <3>1 DEF Coroutine
    <3>3. Ahead(t)' = 4 * 1 + 3 BY <3>2 DEF Ahead, Distance, Ended, Legs
    <3>4. Distance(task[t].node) >= 2
      BY <2>1, <2>5 DEF Coroutine, Nodes, Phases, Ended, Distance
    <3> QED BY <2>2, <2>3, <3>3, <3>4 DEF Ahead
  <2> QED BY <2>4, <2>5
<1> QED BY <1>1, <1>2 DEF GoesOn, NoneReturns

LEMMA NextGoesOn ==
  PipelineInv /\ LoopsOwn /\ [Next]_vars => [GoesOn]_vars
<1> SUFFICES ASSUME PipelineInv, LoopsOwn, Next PROVE GoesOn
  OBVIOUS
<1>0. TypeOK /\ TypeOK'
  <2>1. PipelineInv' BY NextSound
  <2> QED BY <2>1 DEF PipelineInv
<1>1. ASSUME NEW e \in Executions, Submit(e) \/ Launch(e) PROVE GoesOn
  <2>1. e \in Tasks /\ UNCHANGED looping
    BY <1>1, PipelineAssumption DEF Submit, Launch, Update, hubVars
  <2>2. PICK node \in {"submit", "contract"} :
          GoTo(e, node) /\ task[e].node = IF node = "submit" THEN "idle" ELSE "submit"
    BY <1>1 DEF Submit, Launch, AtWork
  <2>3. node \in Nodes /\ Distance(node) < Distance(task[e].node)
    BY <2>2 DEF Nodes, Phases, Ended, Distance
  <2> QED BY <1>0, <2>1, <2>2, <2>3, Nearer, OneGoesOn
<1>2. ASSUME NEW q \in Requests, NEW e \in Executions, NEW decision \in Decisions,
             ReceiveDecision(q, e, decision)
      PROVE  GoesOn
  <2>1. q \in Tasks /\ UNCHANGED looping /\ task[q].node = "idle" /\ task[q].at = "work"
    BY <1>2, PipelineAssumption DEF ReceiveDecision, AtWork, hubVars
  <2>2. /\ task'[q].node = "hitl" /\ task'[q].at = "work"
        /\ \A u \in Tasks \ {q} : task'[u] = task[u]
    BY <1>0, <1>2, <2>1 DEF ReceiveDecision, TypeOK
  <2>3. Ahead(q)' = 35 /\ Ahead(q) = 51
    BY <2>1, <2>2 DEF Ahead, Legs, Distance, Ended
  <2> QED BY <1>0, <2>1, <2>2, <2>3, OneGoesOn
<1>3. ASSUME NEW t \in Tasks, TaskStep(t) PROVE GoesOn BY <1>0, <1>3, TaskGoesOn
<1>4. ASSUME NEW t \in Tasks, WorkRaises(t) PROVE GoesOn
  BY <1>0, <1>4, HandlerNearer, Nearer, OneGoesOn DEF WorkRaises, hubVars
<1>5. ASSUME Restart PROVE GoesOn BY <1>0, <1>5, RestartGoesOn
<1>6. ASSUME HubNext, UNCHANGED task PROVE GoesOn
  <2>1. UNCHANGED looping BY <1>6 DEF HubNext, Connect, Disconnect
  <2>2. watching' # watching
    <3>1. watching \in [Viewers -> Feeds \cup {"new", "gone"}]
      BY <1>0 DEF TypeOK, HubTypeOK
    <3>2. "new" \notin Feeds /\ "gone" \notin Feeds BY FeedsAssumption DEF Feeds
    <3>3. ASSUME NEW v \in Viewers, NEW feed \in Feeds, Connect(v, feed)
          PROVE  watching'[v] # watching[v]
      BY <3>1, <3>2, <3>3 DEF Connect
    <3>4. ASSUME NEW v \in Viewers, Disconnect(v) PROVE watching'[v] # watching[v]
      BY <3>1, <3>2, <3>4 DEF Disconnect
    <3> QED BY <1>6, <3>3, <3>4 DEF HubNext
  <2>3. \A t \in Tasks : Ahead(t)' = Ahead(t) BY <1>6, <2>1 DEF Ahead
  <2>4. Counted BY <1>0, AheadNat
  <2> QED BY <2>2, <2>3, <2>4 DEF GoesOn, NoneReturns, Counted
<1> QED BY <1>1, <1>2, <1>3, <1>4, <1>5, <1>6 DEF Next

(* No coroutine comes back to where it was: what lies ahead of it, at most *)
(* 51 steps, only ever gets less, and each step takes some away unless it  *)
(* is of a viewer or a restart.                                            *)
THEOREM StepsTheorem ==
  Spec => [](\A t \in Tasks : Ahead(t) \in 0..51) /\ [][GoesOn]_vars
<1>1. Init => LoopsOwn BY DEF Init, HubInit, LoopsOwn
<1>2. PipelineInv => \A t \in Tasks : Ahead(t) \in 0..51
  <2> SUFFICES ASSUME PipelineInv, NEW t \in Tasks PROVE Ahead(t) \in 0..51
    OBVIOUS
  <2>1. Distance(task[t].node) \in 1..12 BY DistanceNat DEF PipelineInv, TypeOK, Coroutine
  <2>2. Legs(task[t].at, looping[t]) \in 0..3 BY DEF Legs
  <2> QED BY <2>1, <2>2 DEF Ahead
<1> QED BY <1>1, <1>2, InitSound, NextSound, NextLoopsOwn, NextGoesOn, PTL DEF Spec
=============================================================================
