------------------------ MODULE BoundsMonitor_proofs ------------------------
(***************************************************************************)
(* Proofs about BoundsMonitor for any tools, agents, windows and limits.   *)
(***************************************************************************)
EXTENDS BoundsMonitor, TLAPS, FiniteSetTheorems

(* A deque keeps its element type and never grows beyond maxlen.           *)
LEMMA PushType ==
  ASSUME NEW size \in Nat \ {0}, NEW w \in Seq(BOOLEAN), Len(w) <= size, NEW b \in BOOLEAN
  PROVE  Push(w, b, size) \in Seq(BOOLEAN) /\ Len(Push(w, b, size)) <= size
<1>1. CASE Len(w) < size
  <2>1. Append(w, b) \in Seq(BOOLEAN) /\ Len(Append(w, b)) = Len(w) + 1
    OBVIOUS
  <2> QED
    BY <1>1, <2>1 DEF Push
<1>2. CASE Len(w) = size
  <2>1. w # <<>>
    BY <1>2
  <2>2. Tail(w) \in Seq(BOOLEAN) /\ Len(Tail(w)) = Len(w) - 1
    BY <2>1
  <2>3. /\ Append(Tail(w), b) \in Seq(BOOLEAN)
        /\ Len(Append(Tail(w), b)) = Len(Tail(w)) + 1
    BY <2>2
  <2>4. (IF Len(w) < size THEN w ELSE Tail(w)) = Tail(w)
    BY <1>2
  <2>5. Push(w, b, size) = Append(Tail(w), b)
    BY <2>4, Zenon DEF Push
  <2>6. Len(Tail(w)) + 1 = size
    BY <1>2, <2>2
  <2> QED
    BY <2>3, <2>5, <2>6
<1> QED
  BY <1>1, <1>2

(* Successes and errors are numbers, so rates compare as numbers do.       *)
LEMMA Counts ==
  ASSUME NEW w \in Seq(BOOLEAN)
  PROVE  SuccessCount(w) \in Nat /\ ErrorCount(w) \in Int
<1>1. IsFiniteSet(DOMAIN w)
  BY FS_Interval, DOMAIN w = 1..Len(w), Len(w) \in Nat
<1>2. IsFiniteSet({i \in DOMAIN w : w[i]})
  BY <1>1, FS_Subset, {i \in DOMAIN w : w[i]} \subseteq DOMAIN w
<1>3. SuccessCount(w) \in Nat
  BY <1>2, FS_CardinalityType DEF SuccessCount
<1> QED
  BY <1>3 DEF ErrorCount

-----------------------------------------------------------------------------
LEMMA TypeInit == Init => TypeOK
<1> SUFFICES ASSUME Init PROVE TypeOK
  OBVIOUS
<1>1. ChainTypeOK
  BY DEF Init, ChainInit, ChainTypeOK, ToolEntry
<1>2. /\ anomaly \in [Tools -> Seq(BOOLEAN)] /\ performance \in [Tools -> Seq(BOOLEAN)]
      /\ \A t \in Tools :
           Len(anomaly[t]) <= AnomalyWindow /\ Len(performance[t]) <= PerformanceWindow
  BY BoundsAssumption DEF Init
<1>3. pending \in Seq(Job) /\ Len(pending) <= QueueCap
  BY BoundsAssumption DEF Init
<1>4. requests \in [Tools -> 0..RequestCap] /\ faults \in 0..MaxFaults
  BY BoundsAssumption DEF Init
<1> QED
  BY <1>1, <1>2, <1>3, <1>4 DEF Init, TypeOK, Torn, FileStates

(* The queue holds jobs only, also after its head has been mined.          *)
LEMMA QueueType ==
  ASSUME NEW q \in Seq(Job), q # <<>>
  PROVE  Head(q) \in Job /\ Tail(q) \in Seq(Job) /\ Len(Tail(q)) = Len(q) - 1
OBVIOUS

LEMMA JobsAreReal == ASSUME NEW j \in Job PROVE j # NoJob /\ j.tool \in Tools
BY ToolsAssumption DEF Job, NoJob

LEMMA SwitchType ==
  ASSUME TypeOK, NEW op \in {"disable", "enable"}, NEW a \in Agents, NEW t \in Tools,
         Switch(op, a, t)
  PROVE  /\ enabled' \subseteq Tools
         /\ phase' = "opening" /\ job' \in Job
BY DEF TypeOK, Switch, Job

(* What a write that fails adds to the tools the file does not speak of.   *)
LEMMA BeingWrittenType == BeingWritten \subseteq Tools
BY DEF BeingWritten

(* A write to one entry leaves every other entry as it was.                *)
LEMMA EntryWritten ==
  ASSUME ChainTypeOK, NEW a \in Agents, NEW t \in Tools, NEW e \in ToolEntry,
         entries' = [entries EXCEPT ![a][t] = e]
  PROVE  /\ entries' \in [Agents -> [Tools -> ToolEntry]]
         /\ entries'[a][t] = e
         /\ \A b \in Agents, u \in Tools :
              b # a \/ u # t => entries'[b][u] = entries[b][u]
<1>1. entries[a] \in [Tools -> ToolEntry]
  BY DEF ChainTypeOK
<1>2. [entries[a] EXCEPT ![t] = e] \in [Tools -> ToolEntry]
  BY <1>1
<1>3. entries' = [entries EXCEPT ![a] = [entries[a] EXCEPT ![t] = e]]
  OBVIOUS
<1> QED
  BY <1>1, <1>2, <1>3 DEF ChainTypeOK

LEMMA TypeStep == TypeOK /\ [Next]_vars => TypeOK'
<1> SUFFICES ASSUME TypeOK, [Next]_vars PROVE TypeOK'
  OBVIOUS
<1> USE BoundsAssumption, AgentsAssumption
<1>1. ASSUME NEW t \in Tools, NEW success \in BOOLEAN, NEW latency \in Latencies,
             NEW a \in ReportAgents \cup {DefaultAgent[t]}, Report(t, success, latency, a)
      PROVE  TypeOK'
  <2>1. requests' \in [Tools -> 0..RequestCap]
    BY <1>1 DEF Report, RecordOutcome, TypeOK
  <2>2. /\ anomaly' \in [Tools -> Seq(BOOLEAN)]
        /\ performance' \in [Tools -> Seq(BOOLEAN)]
        /\ \A u \in Tools :
             Len(anomaly'[u]) <= AnomalyWindow /\ Len(performance'[u]) <= PerformanceWindow
    <3>1. /\ Push(anomaly[t], success, AnomalyWindow) \in Seq(BOOLEAN)
          /\ Len(Push(anomaly[t], success, AnomalyWindow)) <= AnomalyWindow
      BY PushType DEF TypeOK
    <3>2. /\ Push(performance[t], success, PerformanceWindow) \in Seq(BOOLEAN)
          /\ Len(Push(performance[t], success, PerformanceWindow)) <= PerformanceWindow
      BY PushType DEF TypeOK
    <3>3. CASE t \in Rated
      BY <1>1, <3>1, <3>2, <3>3 DEF Report, RecordOutcome, TypeOK
    <3>4. CASE t \notin Rated
      BY <1>1, <3>4 DEF Report, RecordOutcome, TypeOK
    <3> QED
      BY <3>3, <3>4
  <2>3. /\ enabled' \subseteq Tools
        /\ phase' \in {"idle", "opening"} /\ job' \in Job \cup {NoJob}
    <3>1. a \in Agents
      BY <1>1
    <3>2. CASE Switch("disable", a, t) \/ Switch("enable", a, t)
      BY <3>1, <3>2, SwitchType
    <3>3. CASE UNCHANGED <<enabled, phase, job>>
      BY <1>1, <3>3 DEF Report, TypeOK
    <3> QED
      BY <1>1, <3>2, <3>3 DEF Report
  <2> QED
    BY <1>1, <2>1, <2>2, <2>3 DEF Report, TypeOK, ChainTypeOK, chainVars
<1>2. ASSUME NEW t \in Tools, Reset(t) PROVE TypeOK'
  BY <1>2, SwitchType DEF Reset, TypeOK, ChainTypeOK, chainVars
<1>3. ASSUME NEW t \in Tools, Prune(t) PROVE TypeOK'
  BY <1>3 DEF Prune, TypeOK, ChainTypeOK, chainVars
<1>4. CASE WriteFile
  BY <1>4 DEF WriteFile, TypeOK, ChainTypeOK, chainVars, FileStates
<1>13. CASE OpenFile
  BY <1>13 DEF OpenFile, TypeOK, ChainTypeOK, chainVars, FileStates, Torn
<1>5. CASE WriteFails
  BY <1>5, JobsAreReal, BeingWrittenType DEF WriteFails, Abandoned, TypeOK, ChainTypeOK, chainVars
<1>6. CASE Send
  <2>1. job \in Job
    BY <1>6 DEF Send, TypeOK
  <2>2. pending' \in Seq(Job) /\ Len(pending') <= QueueCap
    BY <1>6, <2>1 DEF Send, TypeOK
  <2> QED
    BY <1>6, <2>1, <2>2, JobsAreReal DEF Send, TypeOK, ChainTypeOK, chainVars
<1>7. CASE SendFails
  BY <1>7, JobsAreReal DEF SendFails, Abandoned, TypeOK, ChainTypeOK, chainVars
<1>8. CASE Mine
  <2>1. /\ Head(pending) \in Job
        /\ pending' \in Seq(Job) /\ Len(pending') <= QueueCap
    BY <1>8, QueueType DEF Mine, TypeOK
  <2> DEFINE tx == Head(pending)
  <2>0. ChainTypeOK /\ adrift \subseteq Tools
    BY DEF TypeOK
  <2>2. tx.agent \in Agents /\ tx.tool \in Tools
    BY <2>1 DEF Job
  <2>3. ChainTypeOK' /\ adrift' \subseteq Tools
    <3>1. CASE ~appointed
      BY <1>8, <2>0, <2>2, <3>1 DEF Mine, ChainTypeOK, chainVars
    <3>2. CASE DisableTool(tx.agent, tx.tool) /\ UNCHANGED adrift
      <4>1. [enabled |-> FALSE, disabledAt |-> 1] \in ToolEntry
        BY DEF ToolEntry
      <4> QED
        BY <2>0, <2>2, <3>2, <4>1, EntryWritten DEF DisableTool, ChainTypeOK
    <3>3. CASE EnableTool(tx.agent, tx.tool) /\ UNCHANGED adrift
      <4>1. [enabled |-> TRUE, disabledAt |-> 0] \in ToolEntry
        BY DEF ToolEntry
      <4> QED
        BY <2>0, <2>2, <3>3, <4>1, EntryWritten DEF EnableTool, ChainTypeOK
    <3> QED
      BY <1>8, <3>1, <3>2, <3>3 DEF Mine
  <2> QED
    BY <1>8, <2>1, <2>3 DEF Mine, TypeOK
<1>9. ASSUME NEW ours \in BOOLEAN, Appoint(ours) PROVE TypeOK'
  BY <1>9 DEF Appoint, SetMonitor, TypeOK, ChainTypeOK
<1>10. CASE Crash
  BY <1>10, JobsAreReal, BeingWrittenType DEF Crash, Abandoned, TypeOK, ChainTypeOK, chainVars
<1>11. CASE Restart
  BY <1>11 DEF Restart, TypeOK, ChainTypeOK, chainVars
<1>12. CASE UNCHANGED vars
  BY <1>12 DEF vars, monitorVars, chainVars, TypeOK, ChainTypeOK
<1> QED
  BY <1>1, <1>2, <1>3, <1>4, <1>5, <1>6, <1>7, <1>8, <1>9, <1>10, <1>11, <1>12,
     <1>13 DEF Next

(* Every variable of the monitor, its file, its queue and the registry     *)
(* keeps its type: the windows never outgrow their deques (SlidingWindow)  *)
(* and a call on chain is always about a real tool and agent.              *)
THEOREM MonitorTyped == Spec => []TypeOK
BY TypeInit, TypeStep, PTL DEF Spec

-----------------------------------------------------------------------------
(* What process_report decides: evaluate_thresholds and has_recovered each *)
(* vouch for the three rates by which EnabledWithinBounds judges.          *)
WithinBounds(t) ==
  /\ t \in Rated /\ Len(anomaly[t]) = AnomalyWindow
       => ErrorCount(anomaly[t]) * 100 <= MaxErrorPct * AnomalyWindow
  /\ t \in Rated /\ Len(performance[t]) = PerformanceWindow
       => SuccessCount(performance[t]) * 100 >= MinSuccessPct * PerformanceWindow
  /\ requests[t] <= MaxPerMinute

RecoveryVouches == \A t \in Tools : HasRecovered(t) => WithinBounds(t)

LEMMA HasRecoveredIsWithin == TypeOK => RecoveryVouches
<1> SUFFICES ASSUME TypeOK, NEW t \in Tools, HasRecovered(t) PROVE WithinBounds(t)
  BY DEF RecoveryVouches
<1> USE BoundsAssumption
<1>1. /\ anomaly[t] \in Seq(BOOLEAN) /\ performance[t] \in Seq(BOOLEAN)
      /\ requests[t] \in Nat
  BY DEF TypeOK
<1>2. /\ SuccessCount(performance[t]) \in Nat /\ ErrorCount(anomaly[t]) \in Int
  BY <1>1, Counts
<1>3. ASSUME t \in Rated, Len(anomaly[t]) = AnomalyWindow
      PROVE  ErrorCount(anomaly[t]) * 100 <= MaxErrorPct * AnomalyWindow
  <2>1. ~(ErrorCount(anomaly[t]) * 100 > MaxErrorPct * AnomalyWindow)
    BY <1>3 DEF HasRecovered, AnomalyExceeded, ErrorRateAbove
  <2>2. MaxErrorPct * AnomalyWindow \in Int /\ ErrorCount(anomaly[t]) * 100 \in Int
    BY <1>2
  <2> QED
    BY <2>1, <2>2
<1>4. ASSUME t \in Rated, Len(performance[t]) = PerformanceWindow
      PROVE  SuccessCount(performance[t]) * 100 >= MinSuccessPct * PerformanceWindow
  <2>1. ~(SuccessCount(performance[t]) * 100 < MinSuccessPct * PerformanceWindow)
    BY <1>4 DEF HasRecovered, PerformanceExceeded, SuccessRateBelow
  <2>2. MinSuccessPct * PerformanceWindow \in Int /\ SuccessCount(performance[t]) * 100 \in Int
    BY <1>2
  <2> QED
    BY <2>1, <2>2
<1>5. requests[t] <= MaxPerMinute
  BY <1>1 DEF HasRecovered, BurstExceeded
<1> QED
  BY <1>3, <1>4, <1>5 DEF WithinBounds

LEMMA BoundsStep == TypeOK /\ TypeOK' /\ EnabledWithinBounds /\ [Next]_vars
                      => EnabledWithinBounds'
<1> SUFFICES ASSUME TypeOK, TypeOK', EnabledWithinBounds, [Next]_vars
             PROVE  EnabledWithinBounds'
  OBVIOUS
<1> USE BoundsAssumption
<1>1. ASSUME NEW t \in Tools, NEW success \in BOOLEAN, NEW latency \in Latencies,
             NEW a \in ReportAgents \cup {DefaultAgent[t]}, Report(t, success, latency, a)
      PROVE  EnabledWithinBounds'
  <2>1. t \in enabled' => WithinBounds(t)'
    <3>1. t \in enabled' => HasRecovered(t)'
      BY <1>1 DEF Report, Switch, EvaluateThresholds, HasRecovered
    <3>2. RecoveryVouches'
      BY HasRecoveredIsWithin, PTL
    <3> QED
      BY <3>1, <3>2 DEF RecoveryVouches
  <2>2. ASSUME NEW u \in enabled' \ overridden', u # t
        PROVE  u \in enabled \ overridden /\ (WithinBounds(u) => WithinBounds(u)')
    <3>1. u \in Tools /\ u \in enabled \ overridden
      BY <1>1, <2>2 DEF Report, Switch, TypeOK
    <3>2. /\ anomaly'[u] = anomaly[u] /\ performance'[u] = performance[u]
          /\ requests'[u] = requests[u]
      BY <1>1, <2>2, <3>1 DEF Report, RecordOutcome, TypeOK
    <3> QED
      BY <3>1, <3>2 DEF WithinBounds
  <2> QED
    BY <2>1, <2>2 DEF EnabledWithinBounds, WithinBounds
<1>2. ASSUME NEW t \in Tools, Reset(t) PROVE EnabledWithinBounds'
  BY <1>2 DEF Reset, Switch, EnabledWithinBounds
<1>3. ASSUME NEW t \in Tools, Prune(t) PROVE EnabledWithinBounds'
  <2>1. \A u \in Tools : requests'[u] <= requests[u]
    BY <1>3 DEF Prune, TypeOK
  <2>2. \A u \in Tools : requests[u] \in Nat /\ requests'[u] \in Nat
    BY DEF TypeOK
  <2> QED
    BY <1>3, <2>1, <2>2 DEF Prune, EnabledWithinBounds, TypeOK
<1>4. CASE Restart
  <2>1. \A t \in Tools : /\ Len(anomaly'[t]) = 0 /\ Len(performance'[t]) = 0
                         /\ requests'[t] = 0
    BY <1>4 DEF Restart
  <2> QED
    BY <1>4, <2>1 DEF Restart, EnabledWithinBounds
<1>5. CASE OpenFile \/ WriteFile \/ WriteFails \/ Send \/ SendFails \/ Mine \/ Crash
           \/ (\E ours \in BOOLEAN : Appoint(ours)) \/ UNCHANGED vars
  <2>1. UNCHANGED <<enabled, overridden, anomaly, performance, requests>>
    BY <1>5 DEF OpenFile, WriteFile, WriteFails, Send, SendFails, Mine, Crash, Appoint,
      vars, monitorVars
  <2> QED
    BY <2>1 DEF EnabledWithinBounds
<1> QED
  BY <1>1, <1>2, <1>3, <1>4, <1>5 DEF Next

(* A tool that is enabled is within every rate bound, unless the operator  *)
(* reset it and no report has come since (process_report): suspension and  *)
(* recovery, judged by two functions, leave no gap between them.           *)
THEOREM EnabledIsWithin == Spec => []EnabledWithinBounds
<1>1. Init => EnabledWithinBounds
  BY BoundsAssumption DEF Init, EnabledWithinBounds
<1> QED
  BY <1>1, BoundsStep, MonitorTyped, PTL DEF Spec
-----------------------------------------------------------------------------
(* The strengthening of ChainFollowsMonitor.  The job in hand says what    *)
(* the monitor holds of its tool, and without a handler at work there is   *)
(* none; for every other tool that is not adrift, the last transaction on  *)
(* its way under the tool's agent says what the monitor holds, and when    *)
(* there is none the entry on chain does.                                  *)
JobAgrees ==
  /\ phase \in {"idle", "down"} => job = NoJob
  /\ job # NoJob => (job.op = "enable" <=> job.tool \in enabled)

Own(i, t) == pending[i].tool = t /\ pending[i].agent = DefaultAgent[t]

LastIsRight(t) ==
  \A i \in 1..Len(pending) :
    Own(i, t) /\ (\A j \in (i + 1)..Len(pending) : ~Own(j, t))
      => (pending[i].op = "enable" <=> t \in enabled)

EntryIsRight(t) ==
  (\A i \in 1..Len(pending) : ~Own(i, t))
    => (t \in enabled <=> IsToolEnabled(DefaultAgent[t], t))

Follows == \A t \in Tools \ adrift : job.tool # t => LastIsRight(t) /\ EntryIsRight(t)

FollowInv == JobAgrees /\ Follows
(* Switching a tool, with its job now in hand, asks nothing of that tool   *)
(* and changes nothing for the others.                                     *)
LEMMA SwitchFollows ==
  ASSUME TypeOK, FollowInv, NEW op \in {"disable", "enable"}, NEW a \in Agents,
         NEW t \in Tools, phase = "idle", Switch(op, a, t), UNCHANGED <<pending, adrift, entries>>
  PROVE  FollowInv'
<1>1. job = NoJob
  BY DEF FollowInv, JobAgrees
<1>2. JobAgrees'
  BY DEF Switch, JobAgrees
<1>3. ASSUME NEW u \in Tools \ adrift', job'.tool # u
      PROVE  LastIsRight(u)' /\ EntryIsRight(u)'
  <2>1. u # t /\ job.tool # u
    BY <1>1, <1>3, ToolsAssumption DEF Switch, NoJob
  <2>2. u \in enabled' <=> u \in enabled
    BY <2>1 DEF Switch
  <2>3. LastIsRight(u) /\ EntryIsRight(u)
    BY <1>3, <2>1 DEF FollowInv, Follows
  <2> QED
    BY <2>2, <2>3 DEF LastIsRight, EntryIsRight, Own, IsToolEnabled
<1> QED
  BY <1>2, <1>3 DEF FollowInv, Follows

(* A handler that ends without a transaction leaves its tool adrift.       *)
LEMMA AbandonedFollows ==
  ASSUME TypeOK, FollowInv, adrift' = Abandoned, job' = NoJob,
         UNCHANGED <<enabled, pending, entries>>
  PROVE  FollowInv'
<1>1. JobAgrees'
  BY DEF JobAgrees
<1>2. ASSUME NEW u \in Tools \ adrift'
      PROVE  LastIsRight(u)' /\ EntryIsRight(u)'
  <2>1. u \notin adrift /\ job.tool # u
    BY <1>2, ToolsAssumption DEF Abandoned, NoJob
  <2>2. LastIsRight(u) /\ EntryIsRight(u)
    BY <1>2, <2>1 DEF FollowInv, Follows
  <2> QED
    BY <2>2 DEF LastIsRight, EntryIsRight, Own, IsToolEnabled
<1> QED
  BY <1>1, <1>2 DEF FollowInv, Follows

(* Sending a job puts it behind everything else that is on its way.        *)
LEMMA SendFollows == ASSUME TypeOK, FollowInv, Send PROVE FollowInv'
<1> USE AgentsAssumption
<1>1. job \in Job /\ job.tool \in Tools
  BY JobsAreReal DEF Send, TypeOK
<1>2. job.op = "enable" <=> job.tool \in enabled
  BY <1>1, JobsAreReal DEF FollowInv, JobAgrees
<1>0. PICK n \in Nat : n = Len(pending)
  BY DEF TypeOK
<1>3. /\ Len(pending') = n + 1
      /\ pending'[n + 1] = job
      /\ \A i \in 1..n : pending'[i] = pending[i]
  BY <1>1, <1>0 DEF Send, TypeOK
<1>4. JobAgrees'
  BY DEF Send, JobAgrees
<1>5. ASSUME NEW u \in Tools \ adrift', u = job.tool
      PROVE  LastIsRight(u)' /\ EntryIsRight(u)'
  <2>1. job.agent = DefaultAgent[u]
    BY <1>5 DEF Send
  <2>2. Own(n + 1, u)'
    BY <1>0, <1>3, <1>5, <2>1 DEF Own
  <2>3. enabled' = enabled
    BY DEF Send
  <2>4. LastIsRight(u)'
    <3> SUFFICES ASSUME NEW i \in 1..Len(pending'),
                        \A j \in (i + 1)..Len(pending') : ~Own(j, u)'
                 PROVE  pending'[i].op = "enable" <=> u \in enabled'
      BY DEF LastIsRight
    <3>1. i = n + 1
      BY <1>0, <1>3, <2>2
    <3> QED
      BY <1>2, <1>0, <1>3, <1>5, <2>3, <3>1
  <2>5. EntryIsRight(u)'
    BY <1>0, <1>3, <2>2 DEF EntryIsRight
  <2> QED
    BY <2>4, <2>5
<1>6. ASSUME NEW u \in Tools \ adrift', u # job.tool
      PROVE  LastIsRight(u)' /\ EntryIsRight(u)'
  <2>1. LastIsRight(u) /\ EntryIsRight(u) /\ enabled' = enabled /\ entries' = entries
    BY <1>6 DEF FollowInv, Follows, Send, chainVars
  <2>2. /\ ~Own(n + 1, u)'
        /\ \A i \in 1..n : Own(i, u)' <=> Own(i, u)
    BY <1>0, <1>3, <1>6 DEF Own
  <2>3. LastIsRight(u)'
    <3> SUFFICES ASSUME NEW i \in 1..Len(pending'), Own(i, u)',
                        \A j \in (i + 1)..Len(pending') : ~Own(j, u)'
                 PROVE  pending'[i].op = "enable" <=> u \in enabled'
      BY DEF LastIsRight
    <3>1. i \in 1..n
      BY <1>0, <1>3, <2>2
    <3>2. \A j \in (i + 1)..Len(pending) : ~Own(j, u)
      BY <1>0, <1>3, <2>2, <3>1
    <3> QED
      BY <1>0, <1>3, <2>1, <2>2, <3>1, <3>2 DEF LastIsRight
  <2>4. EntryIsRight(u)'
    BY <1>0, <1>3, <2>1, <2>2 DEF EntryIsRight, IsToolEnabled
  <2> QED
    BY <2>3, <2>4
<1> QED
  BY <1>4, <1>5, <1>6 DEF FollowInv, Follows
(* The entry that a mined transaction writes, when it is not reverted.     *)
LEMMA MinedEntry ==
  ASSUME TypeOK, Mine, appointed, NEW u \in Tools
  PROVE  /\ Own(1, u) => (IsToolEnabled(DefaultAgent[u], u)' <=> pending[1].op = "enable")
         /\ ~Own(1, u) => (IsToolEnabled(DefaultAgent[u], u)' <=> IsToolEnabled(DefaultAgent[u], u))
<1> USE AgentsAssumption
<1>1. pending # <<>> /\ Head(pending) = pending[1] /\ Head(pending) \in Job
  BY QueueType DEF Mine, TypeOK
<1>2. PICK a \in Agents, t \in Tools : a = pending[1].agent /\ t = pending[1].tool
  BY <1>1 DEF Job
<1>3. ASSUME NEW e \in ToolEntry, entries' = [entries EXCEPT ![a][t] = e],
             e.enabled <=> pending[1].op = "enable",
             e.disabledAt = 0 => e.enabled
      PROVE  /\ Own(1, u) => (IsToolEnabled(DefaultAgent[u], u)' <=> pending[1].op = "enable")
             /\ ~Own(1, u) => (IsToolEnabled(DefaultAgent[u], u)'
                                  <=> IsToolEnabled(DefaultAgent[u], u))
  <2>1. /\ entries'[a][t] = e
        /\ \A b \in Agents, v \in Tools : b # a \/ v # t => entries'[b][v] = entries[b][v]
    <3>1. ChainTypeOK
      BY DEF TypeOK
    <3>2. entries' = [entries EXCEPT ![a][t] = e]
      BY <1>3
    <3> QED
      BY <3>1, <3>2 DEF ChainTypeOK
  <2>2. Own(1, u) <=> (u = t /\ DefaultAgent[u] = a)
    BY <1>2 DEF Own
  <2>3. CASE Own(1, u)
    BY <1>3, <2>1, <2>2, <2>3 DEF IsToolEnabled
  <2>4. CASE ~Own(1, u)
    BY <2>1, <2>2, <2>4 DEF IsToolEnabled
  <2> QED
    BY <2>3, <2>4
<1>4. CASE pending[1].op = "disable" /\ DisableTool(a, t)
  <2> DEFINE e == [enabled |-> FALSE, disabledAt |-> 1]
  <2>1. e \in ToolEntry /\ e.enabled = FALSE /\ e.disabledAt = 1
    BY DEF ToolEntry
  <2>2. entries' = [entries EXCEPT ![a][t] = e]
    BY <1>4 DEF DisableTool
  <2>3. (e.enabled <=> pending[1].op = "enable") /\ (e.disabledAt = 0 => e.enabled)
    BY <1>4, <2>1
  <2> HIDE DEF e
  <2> QED
    BY <1>3, <2>1, <2>2, <2>3
<1>5. CASE pending[1].op = "enable" /\ EnableTool(a, t)
  <2> DEFINE e == [enabled |-> TRUE, disabledAt |-> 0]
  <2>1. e \in ToolEntry /\ e.enabled = TRUE /\ e.disabledAt = 0
    BY DEF ToolEntry
  <2>2. entries' = [entries EXCEPT ![a][t] = e]
    BY <1>5 DEF EnableTool
  <2>3. (e.enabled <=> pending[1].op = "enable") /\ (e.disabledAt = 0 => e.enabled)
    BY <1>5, <2>1
  <2> HIDE DEF e
  <2> QED
    BY <1>3, <2>1, <2>2, <2>3
<1> QED
  BY <1>1, <1>2, <1>4, <1>5 DEF Mine

LEMMA MineFollows == ASSUME TypeOK, FollowInv, Mine PROVE FollowInv'
<1>0. PICK n \in Nat \ {0} : n = Len(pending)
  BY DEF TypeOK, Mine
<1>1. /\ Len(pending') = n - 1
      /\ \A i \in 1..(n - 1) : pending'[i] = pending[i + 1]
      /\ Head(pending) = pending[1]
  BY <1>0 DEF Mine, TypeOK
<1>2. UNCHANGED <<enabled, phase, job>> /\ adrift \subseteq adrift'
  BY DEF Mine
<1>3. ASSUME NEW u \in Tools \ adrift', job'.tool # u
      PROVE  LastIsRight(u)' /\ EntryIsRight(u)'
  <2>1. LastIsRight(u) /\ EntryIsRight(u)
    BY <1>2, <1>3 DEF FollowInv, Follows
  <2>2. \A i \in 1..(n - 1) : Own(i, u)' <=> Own(i + 1, u)
    BY <1>1 DEF Own
  <2>3. LastIsRight(u)'
    <3> SUFFICES ASSUME NEW i \in 1..(n - 1), Own(i, u)',
                        \A j \in (i + 1)..(n - 1) : ~Own(j, u)'
                 PROVE  pending'[i].op = "enable" <=> u \in enabled
      BY <1>1, <1>2 DEF LastIsRight
    <3>1. i + 1 \in 1..n /\ Own(i + 1, u)
      BY <2>2
    <3>2. \A j \in (i + 2)..n : ~Own(j, u)
      <4> SUFFICES ASSUME NEW j \in (i + 2)..n PROVE ~Own(j, u)
        OBVIOUS
      <4>1. j - 1 \in (i + 1)..(n - 1) /\ j - 1 \in 1..(n - 1) /\ (j - 1) + 1 = j
        OBVIOUS
      <4> QED
        BY <2>2, <4>1
    <3>3. pending[i + 1].op = "enable" <=> u \in enabled
      BY <1>0, <2>1, <3>1, <3>2 DEF LastIsRight
    <3> QED
      BY <1>1, <3>3
  <2>4. EntryIsRight(u)'
    <3> SUFFICES ASSUME \A i \in 1..(n - 1) : ~Own(i, u)'
                 PROVE  u \in enabled <=> IsToolEnabled(DefaultAgent[u], u)'
      BY <1>1, <1>2 DEF EntryIsRight
    <3>1. \A j \in 2..n : ~Own(j, u)
      <4> SUFFICES ASSUME NEW j \in 2..n PROVE ~Own(j, u)
        OBVIOUS
      <4>1. j - 1 \in 1..(n - 1) /\ (j - 1) + 1 = j
        OBVIOUS
      <4> QED
        BY <2>2, <4>1
    <3>2. CASE Own(1, u)
      <4>1. pending[1].op = "enable" <=> u \in enabled
        BY <1>0, <2>1, <3>1, <3>2 DEF LastIsRight
      <4>2. appointed
        BY <1>1, <1>3, <3>2 DEF Mine, Own
      <4> QED
        BY <3>2, <4>1, <4>2, MinedEntry
    <3>3. CASE ~Own(1, u)
      <4>1. u \in enabled <=> IsToolEnabled(DefaultAgent[u], u)
        BY <1>0, <2>1, <3>1, <3>3 DEF EntryIsRight
      <4>2. CASE appointed
        BY <3>3, <4>1, <4>2, MinedEntry
      <4>3. CASE ~appointed
        BY <4>1, <4>3 DEF Mine, chainVars, IsToolEnabled
      <4> QED
        BY <4>2, <4>3
    <3> QED
      BY <3>2, <3>3
  <2> QED
    BY <2>3, <2>4
<1>4. JobAgrees'
  BY <1>2 DEF FollowInv, JobAgrees
<1> QED
  BY <1>3, <1>4 DEF FollowInv, Follows
(* A step that leaves alone what the invariant looks at.                   *)
LEMMA UntouchedFollows ==
  ASSUME FollowInv, UNCHANGED <<enabled, job, pending, adrift, entries>>,
         phase' \in {"idle", "down"} => job = NoJob
  PROVE  FollowInv'
BY DEF FollowInv, JobAgrees, Follows, LastIsRight, EntryIsRight, Own, IsToolEnabled

LEMMA FollowStep == TypeOK /\ FollowInv /\ [Next]_vars => FollowInv'
<1> SUFFICES ASSUME TypeOK, FollowInv, [Next]_vars PROVE FollowInv'
  OBVIOUS
<1> USE AgentsAssumption
<1>1. ASSUME NEW t \in Tools, NEW success \in BOOLEAN, NEW latency \in Latencies,
             NEW a \in ReportAgents \cup {DefaultAgent[t]}, Report(t, success, latency, a)
      PROVE  FollowInv'
  <2>1. phase = "idle" /\ a \in Agents /\ UNCHANGED <<pending, adrift, entries>>
    BY <1>1 DEF Report, chainVars
  <2>2. CASE Switch("disable", a, t) \/ Switch("enable", a, t)
    BY <2>1, <2>2, SwitchFollows
  <2>3. CASE UNCHANGED <<enabled, phase, job>>
    BY <2>1, <2>3, UntouchedFollows DEF FollowInv, JobAgrees
  <2> QED
    BY <1>1, <2>2, <2>3 DEF Report
<1>2. ASSUME NEW t \in Tools, Reset(t) PROVE FollowInv'
  BY <1>2, SwitchFollows DEF Reset, chainVars
<1>3. ASSUME NEW t \in Tools, Prune(t) PROVE FollowInv'
  BY <1>3, UntouchedFollows DEF Prune, chainVars, FollowInv, JobAgrees
<1>4. CASE OpenFile \/ WriteFile
  BY <1>4, UntouchedFollows DEF OpenFile, WriteFile, chainVars
<1>5. CASE WriteFails \/ SendFails \/ Crash
  BY <1>5, AbandonedFollows DEF WriteFails, SendFails, Crash, chainVars
<1>6. CASE Send
  BY <1>6, SendFollows
<1>7. CASE Mine
  BY <1>7, MineFollows
<1>8. ASSUME NEW ours \in BOOLEAN, Appoint(ours) PROVE FollowInv'
  BY <1>8, UntouchedFollows DEF Appoint, SetMonitor, FollowInv, JobAgrees
<1>9. CASE Restart
  <2>1. job = NoJob /\ job' = NoJob
    BY <1>9 DEF Restart, FollowInv, JobAgrees
  <2>2. ASSUME NEW u \in Tools \ adrift'
        PROVE  LastIsRight(u)' /\ EntryIsRight(u)'
    <3>1. u \notin adrift /\ u \in enabled /\ u \in enabled' /\ job.tool # u
      BY <1>9, <2>1, <2>2, ToolsAssumption DEF Restart, NoJob
    <3>2. LastIsRight(u) /\ EntryIsRight(u)
      BY <2>2, <3>1 DEF FollowInv, Follows
    <3> QED
      BY <1>9, <3>1, <3>2
      DEF Restart, chainVars, LastIsRight, EntryIsRight, Own, IsToolEnabled
  <2> QED
    BY <2>1, <2>2 DEF FollowInv, JobAgrees, Follows
<1>10. CASE UNCHANGED vars
  BY <1>10, UntouchedFollows DEF vars, monitorVars, chainVars, FollowInv, JobAgrees
<1> QED
  BY <1>1, <1>2, <1>3, <1>4, <1>5, <1>6, <1>7, <1>8, <1>9, <1>10 DEF Next

LEMMA FollowInit == Init => FollowInv
<1> SUFFICES ASSUME Init PROVE FollowInv
  OBVIOUS
<1>1. JobAgrees
  BY DEF Init, JobAgrees
<1>2. ASSUME NEW t \in Tools PROVE LastIsRight(t) /\ EntryIsRight(t)
  <2>1. Len(pending) = 0 /\ t \in enabled
    BY DEF Init
  <2>2. IsToolEnabled(DefaultAgent[t], t)
    BY AgentsAssumption DEF Init, ChainInit, IsToolEnabled
  <2> QED
    BY <2>1, <2>2 DEF LastIsRight, EntryIsRight
<1> QED
  BY <1>1, <1>2 DEF FollowInv, Follows

(* Once nothing is on its way, chain and monitor agree on every tool whose *)
(* last change was sent under the tool's own agent (process_report holds   *)
(* the lock until then, and transactions are mined in nonce order).        *)
THEOREM ChainFollows == Spec => []ChainFollowsMonitor
<1>1. TypeOK /\ FollowInv => ChainFollowsMonitor
  <2> SUFFICES ASSUME TypeOK, FollowInv, phase \in {"idle", "down"}, pending = <<>>,
                      NEW t \in Tools \ adrift
               PROVE  t \in enabled <=> IsToolEnabled(DefaultAgent[t], t)
    BY DEF ChainFollowsMonitor
  <2>1. job.tool # t
    BY ToolsAssumption DEF FollowInv, JobAgrees, NoJob
  <2> QED
    BY <2>1 DEF FollowInv, Follows, EntryIsRight
<1> QED
  BY <1>1, FollowInit, FollowStep, MonitorTyped, PTL DEF Spec
-----------------------------------------------------------------------------
(* How a suspension gets to the chain: a job in hand becomes the newest    *)
(* transaction about its tool, and what is mined brings that one forward.  *)
Waiting(t) == t \notin enabled \cup adrift /\ IsToolEnabled(DefaultAgent[t], t)

IsNewest(i, t) ==
  /\ i \in 1..Len(pending)
  /\ Own(i, t) /\ \A j \in (i + 1)..Len(pending) : ~Own(j, t)

UnderWay(t) ==
  \/ job.tool = t /\ job.op = "disable" /\ phase \in {"opening", "writing", "sending"}
  \/ job.tool # t /\ \E i \in Nat : IsNewest(i, t) /\ pending[i].op = "disable"

SuspensionsUnderWay == \A t \in Tools : Waiting(t) => UnderWay(t)

(* The steps of the handler and of the chain until the suspension is there.*)
StepsLeft(t) ==
  IF job.tool = t
    THEN Len(pending) + (CASE phase = "opening" -> 4 [] phase = "writing" -> 3 [] OTHER -> 2)
    ELSE CHOOSE i \in Nat : IsNewest(i, t)

Nearing ==
  \A t \in Tools : Waiting(t) /\ Waiting(t)' =>
    /\ StepsLeft(t) \in 1 .. Len(pending) + 4
    /\ StepsLeft(t)' <= StepsLeft(t)
    /\ Mine \/ (job.tool = t /\ (OpenFile \/ WriteFile \/ Send)) => StepsLeft(t)' < StepsLeft(t)

LEMMA NewestIs ==
  ASSUME TypeOK, NEW t \in Tools, NEW i \in Nat, IsNewest(i, t)
  PROVE  (CHOOSE k \in Nat : IsNewest(k, t)) = i
<1>1. ASSUME NEW k \in Nat, IsNewest(k, t) PROVE k = i
  <2>1. Len(pending) \in Nat BY DEF TypeOK
  <2> QED BY <1>1, <2>1 DEF IsNewest
<1> QED BY <1>1

(* Where something is on its way about a tool, one transaction is last: so *)
(* it is with one more sent and with the first one mined.                  *)
NewestExists ==
  \A t \in Tools : (\E i \in 1..Len(pending) : Own(i, t)) => \E i \in Nat : IsNewest(i, t)

LEMMA SendNewest == ASSUME TypeOK, NewestExists, Send PROVE NewestExists'
<1>1. job \in Job BY DEF Send, TypeOK
<1>2. PICK n \in Nat : n = Len(pending) BY DEF TypeOK
<1>3. /\ Len(pending') = n + 1 /\ pending'[n + 1] = job
      /\ \A i \in 1..n : pending'[i] = pending[i]
  BY <1>1, <1>2 DEF Send, TypeOK
<1>4. ASSUME NEW t \in Tools, NEW i \in 1..Len(pending'), Own(i, t)'
      PROVE  \E k \in Nat : IsNewest(k, t)'
  <2>1. CASE Own(n + 1, t)'
    <3>1. IsNewest(n + 1, t)' BY <1>2, <1>3, <2>1 DEF IsNewest
    <3> QED BY <3>1
  <2>2. CASE ~Own(n + 1, t)'
    <3>1. i \in 1..n BY <1>2, <1>3, <1>4, <2>2
    <3>2. Own(i, t) BY <1>3, <1>4, <3>1 DEF Own
    <3>3. PICK k \in Nat : IsNewest(k, t) BY <1>2, <3>1, <3>2 DEF NewestExists
    <3>4. \A j \in 1..n : Own(j, t)' <=> Own(j, t) BY <1>3 DEF Own
    <3>5. IsNewest(k, t)' BY <1>2, <1>3, <2>2, <3>3, <3>4 DEF IsNewest
    <3> QED BY <3>5
  <2> QED BY <2>1, <2>2
<1> QED BY <1>4 DEF NewestExists

(* The first transaction is mined: the others move up by one.              *)
LEMMA MinedShifts ==
  ASSUME TypeOK, Mine
  PROVE  /\ Len(pending) \in Nat \ {0} /\ Len(pending') = Len(pending) - 1
         /\ \A i \in 1..Len(pending') : pending'[i] = pending[i + 1]
         /\ Head(pending) = pending[1]
BY DEF Mine, TypeOK

LEMMA NewestMoves ==
  ASSUME TypeOK, Mine, NEW t \in Tools, NEW i \in Nat, IsNewest(i, t), i # 1
  PROVE  i - 1 \in Nat \ {0} /\ IsNewest(i - 1, t)' /\ pending'[i - 1] = pending[i]
<1>1. PICK n \in Nat \ {0} : n = Len(pending) BY MinedShifts
<1>2. Len(pending') = n - 1 /\ \A j \in 1..(n - 1) : pending'[j] = pending[j + 1]
  BY <1>1, MinedShifts
<1>3. i \in 2..n /\ i - 1 \in 1..(n - 1) BY <1>1 DEF IsNewest
<1>4. \A j \in 1..(n - 1) : Own(j, t)' <=> Own(j + 1, t) BY <1>2 DEF Own
<1>5. Own(i - 1, t)' BY <1>3, <1>4 DEF IsNewest
<1>6. ASSUME NEW j \in i..(n - 1) PROVE ~Own(j, t)'
  <2>1. j \in 1..(n - 1) /\ j + 1 \in (i + 1)..n BY <1>3
  <2> QED BY <1>1, <1>4, <2>1 DEF IsNewest
<1> QED BY <1>2, <1>3, <1>5, <1>6 DEF IsNewest

LEMMA MineNewest == ASSUME TypeOK, NewestExists, Mine PROVE NewestExists'
<1>1. ASSUME NEW t \in Tools, NEW i \in 1..Len(pending'), Own(i, t)'
      PROVE  \E k \in Nat : IsNewest(k, t)'
  <2>1. i + 1 \in 2..Len(pending) /\ Own(i + 1, t) BY <1>1, MinedShifts DEF Own
  <2>2. PICK k \in Nat : IsNewest(k, t) BY <2>1 DEF NewestExists
  <2>3. k # 1 BY <2>1, <2>2, MinedShifts DEF IsNewest
  <2> QED BY <2>2, <2>3, NewestMoves
<1> QED BY <1>1 DEF NewestExists

LEMMA NewestStep == TypeOK /\ NewestExists /\ [Next]_vars => NewestExists'
<1> SUFFICES ASSUME TypeOK, NewestExists, [Next]_vars PROVE NewestExists'
  OBVIOUS
<1>1. CASE Send BY <1>1, SendNewest
<1>2. CASE Mine BY <1>2, MineNewest
<1>3. CASE UNCHANGED pending BY <1>3 DEF NewestExists, IsNewest, Own
<1> QED
  BY <1>1, <1>2, <1>3 DEF Next, Report, Reset, Prune, OpenFile, WriteFile, WriteFails,
    SendFails, Appoint, Crash, Restart, vars, monitorVars

LEMMA WaitingUnderWay == TypeOK /\ FollowInv /\ NewestExists => SuspensionsUnderWay
<1> SUFFICES ASSUME TypeOK, FollowInv, NewestExists, NEW t \in Tools, Waiting(t)
             PROVE  UnderWay(t)
  BY DEF SuspensionsUnderWay
<1>1. CASE job.tool = t
  <2>1. job # NoJob BY <1>1, ToolsAssumption DEF NoJob
  <2>2. job.op = "disable"
    BY <1>1, <2>1 DEF FollowInv, JobAgrees, Waiting, TypeOK, Job
  <2>3. phase \in {"opening", "writing", "sending"} BY <2>1 DEF FollowInv, JobAgrees, TypeOK
  <2> QED BY <1>1, <2>2, <2>3 DEF UnderWay
<1>2. CASE job.tool # t
  <2>1. LastIsRight(t) /\ EntryIsRight(t) BY <1>2 DEF FollowInv, Follows, Waiting
  <2>2. \E i \in 1..Len(pending) : Own(i, t) BY <2>1 DEF EntryIsRight, Waiting
  <2>3. PICK i \in Nat : IsNewest(i, t) BY <2>2 DEF NewestExists
  <2>4. pending[i] \in Job BY <2>3 DEF IsNewest, TypeOK
  <2>5. pending[i].op # "enable" BY <2>1, <2>3 DEF LastIsRight, IsNewest, Waiting
  <2> QED BY <1>2, <2>3, <2>4, <2>5 DEF UnderWay, Job
<1> QED BY <1>1, <1>2

(* A suspension that the chain is still to be told of is with the handler  *)
(* that holds the lock, or is the last transaction on its way about the    *)
(* tool, whatever else was sent, mined, reported or reset meanwhile.       *)
THEOREM UnderWayTheorem == Spec => []SuspensionsUnderWay
<1>1. Init => NewestExists BY DEF Init, NewestExists
<1> QED
  BY <1>1, NewestStep, WaitingUnderWay, FollowInit, FollowStep, MonitorTyped, PTL DEF Spec

LEMMA LeftCounts ==
  ASSUME TypeOK, NEW t \in Tools, UnderWay(t)
  PROVE  StepsLeft(t) \in 1 .. Len(pending) + 4
<1>1. Len(pending) \in Nat BY DEF TypeOK
<1>2. CASE job.tool = t BY <1>1, <1>2 DEF StepsLeft
<1>3. CASE job.tool # t
  <2>1. PICK i \in Nat : IsNewest(i, t) BY <1>3 DEF UnderWay
  <2>2. StepsLeft(t) = i BY <1>3, <2>1, NewestIs DEF StepsLeft
  <2> QED BY <1>1, <2>1, <2>2 DEF IsNewest
<1> QED BY <1>2, <1>3

LEMMA MineNears ==
  ASSUME TypeOK, TypeOK', NEW t \in Tools, Waiting(t), UnderWay(t), Mine, Waiting(t)'
  PROVE  StepsLeft(t)' \in Int /\ StepsLeft(t)' < StepsLeft(t)
<1>0. Len(pending) \in Nat \ {0} /\ Len(pending') = Len(pending) - 1 BY MinedShifts
<1>1. phase' = phase /\ job' = job /\ adrift \subseteq adrift' BY DEF Mine
<1>2. CASE job.tool = t BY <1>0, <1>1, <1>2 DEF StepsLeft
<1>3. CASE job.tool # t
  <2>1. PICK i \in Nat : IsNewest(i, t) /\ pending[i].op = "disable" BY <1>3 DEF UnderWay
  <2>2. i # 1
    <3> SUFFICES ASSUME i = 1 PROVE FALSE OBVIOUS
    <3>1. Own(1, t) BY <2>1 DEF IsNewest
    <3>2. CASE appointed BY <2>1, <3>1, <3>2, MinedEntry DEF Waiting
    <3>3. CASE ~appointed BY <3>1, <3>3, MinedShifts DEF Mine, Own, Waiting
    <3> QED BY <3>2, <3>3
  <2>3. i - 1 \in Nat /\ IsNewest(i - 1, t)' BY <2>1, <2>2, NewestMoves
  <2>4. StepsLeft(t) = i BY <1>3, <2>1, NewestIs DEF StepsLeft
  <2>5. StepsLeft(t)' = i - 1
    <3>1. \A k \in Nat : IsNewest(k, t)' => k = i - 1
      BY <1>0, <2>3 DEF IsNewest
    <3>2. (CHOOSE k \in Nat : IsNewest(k, t)') = i - 1 BY <2>3, <3>1
    <3> QED BY <1>1, <1>3, <3>2 DEF StepsLeft
  <2> QED BY <2>4, <2>5
<1> QED BY <1>2, <1>3

LEMMA SendNears ==
  ASSUME TypeOK, TypeOK', NEW t \in Tools, Waiting(t), UnderWay(t), Send, Waiting(t)'
  PROVE  /\ StepsLeft(t)' <= StepsLeft(t)
         /\ job.tool = t => StepsLeft(t)' < StepsLeft(t)
<1>1. job \in Job /\ job' = NoJob /\ job'.tool # t
  BY ToolsAssumption DEF Send, TypeOK, NoJob
<1>2. PICK n \in Nat : n = Len(pending) BY DEF TypeOK
<1>3. /\ Len(pending') = n + 1 /\ pending'[n + 1] = job
      /\ \A i \in 1..n : pending'[i] = pending[i]
  BY <1>1, <1>2 DEF Send, TypeOK
<1>4. CASE job.tool = t
  <2>1. job.agent = DefaultAgent[t] BY <1>4 DEF Send, Waiting
  <2>2. IsNewest(n + 1, t)' BY <1>3, <1>4, <2>1 DEF IsNewest, Own
  <2>3. \A k \in Nat : IsNewest(k, t)' => k = n + 1 BY <1>3, <2>2 DEF IsNewest
  <2>4. (CHOOSE k \in Nat : IsNewest(k, t)') = n + 1 BY <2>2, <2>3
  <2>5. StepsLeft(t)' = n + 1 BY <1>1, <2>4 DEF StepsLeft
  <2>6. StepsLeft(t) = n + 2 BY <1>2, <1>4 DEF StepsLeft, Send
  <2> QED BY <2>5, <2>6
<1>5. CASE job.tool # t
  <2>1. PICK i \in Nat : IsNewest(i, t) BY <1>5 DEF UnderWay
  <2>2. \A j \in 1..n : Own(j, t)' <=> Own(j, t) BY <1>3 DEF Own
  <2>3. ~Own(n + 1, t)' BY <1>3, <1>5 DEF Own
  <2>4. IsNewest(i, t)' BY <1>2, <1>3, <2>1, <2>2, <2>3 DEF IsNewest
  <2>5. \A k \in Nat : IsNewest(k, t)' => k = i BY <1>3, <2>4 DEF IsNewest
  <2>6. (CHOOSE k \in Nat : IsNewest(k, t)') = i BY <2>4, <2>5
  <2>7. StepsLeft(t)' = i BY <1>1, <2>6 DEF StepsLeft
  <2>8. StepsLeft(t) = i BY <1>5, <2>1, NewestIs DEF StepsLeft
  <2> QED BY <1>5, <2>7, <2>8
<1> QED BY <1>4, <1>5

(* What leaves the queue alone, and the tool of the job in hand.           *)
LEMMA QueueKept ==
  ASSUME NEW t \in Tools, pending' = pending, job'.tool = t <=> job.tool = t
  PROVE  /\ job.tool # t => StepsLeft(t)' = StepsLeft(t)
         /\ job.tool = t /\ phase' = phase => StepsLeft(t)' = StepsLeft(t)
<1>1. \A k \in Nat : IsNewest(k, t)' <=> IsNewest(k, t) BY DEF IsNewest, Own
<1>2. (CHOOSE k \in Nat : IsNewest(k, t)') = (CHOOSE k \in Nat : IsNewest(k, t)) BY <1>1
<1>3. CASE job.tool # t BY <1>2, <1>3 DEF StepsLeft
<1>4. CASE job.tool = t BY <1>4 DEF StepsLeft
<1> QED BY <1>3, <1>4

(* In a step that neither sends nor mines, a tool that still waits is in   *)
(* hand afterwards only if it was before.                                  *)
LEMMA HandKept ==
  ASSUME TypeOK, FollowInv, [Next]_vars, ~Send, ~Mine, NEW t \in Tools, Waiting(t), Waiting(t)'
  PROVE  /\ pending' = pending /\ (job'.tool = t <=> job.tool = t)
         /\ job.tool = t => phase' = phase \/ OpenFile \/ WriteFile
<1> USE DEF Waiting
<1>0. NoJob.tool # t BY ToolsAssumption DEF NoJob
<1>1. ASSUME NEW u \in Tools, NEW success \in BOOLEAN, NEW latency \in Latencies,
             NEW a \in ReportAgents \cup {DefaultAgent[u]}, Report(u, success, latency, a)
      PROVE  /\ pending' = pending /\ (job'.tool = t <=> job.tool = t) /\ job.tool # t
             \/ UNCHANGED <<pending, job, phase>>
  <2>1. job = NoJob BY <1>1 DEF Report, FollowInv, JobAgrees
  <2>2. pending' = pending BY <1>1 DEF Report
  <2>3. CASE UNCHANGED <<enabled, phase, job>> BY <2>2, <2>3
  <2>4. CASE u \in enabled /\ Switch("disable", a, u)
    <3>1. u # t /\ job'.tool = u BY <2>4 DEF Switch
    <3> QED BY <1>0, <2>1, <2>2, <3>1
  <2>5. CASE u \notin enabled /\ Switch("enable", a, u)
    <3>1. u # t /\ job'.tool = u BY <2>5 DEF Switch
    <3> QED BY <1>0, <2>1, <2>2, <3>1
  <2> QED BY <1>1, <2>3, <2>4, <2>5 DEF Report
<1>2. ASSUME NEW u \in Tools, Reset(u)
      PROVE  pending' = pending /\ (job'.tool = t <=> job.tool = t) /\ job.tool # t
  <2>1. job = NoJob /\ pending' = pending BY <1>2 DEF Reset, FollowInv, JobAgrees
  <2>2. u # t /\ job'.tool = u BY <1>2 DEF Reset, Switch
  <2> QED BY <1>0, <2>1, <2>2
<1>3. CASE OpenFile \/ WriteFile BY <1>3 DEF OpenFile, WriteFile
<1>4. CASE WriteFails \/ SendFails \/ Crash
  <2>1. pending' = pending /\ job' = NoJob /\ adrift' = Abandoned
    BY <1>4 DEF WriteFails, SendFails, Crash
  <2>2. job.tool # t BY <1>0, <2>1 DEF Abandoned
  <2> QED BY <1>0, <2>1, <2>2
<1>5. CASE Restart BY <1>5 DEF Restart
<1>6. CASE \/ UNCHANGED vars \/ \E u \in Tools : Prune(u) \/ \E ours \in BOOLEAN : Appoint(ours)
  BY <1>6 DEF Prune, Appoint, vars, monitorVars
<1> QED BY <1>1, <1>2, <1>3, <1>4, <1>5, <1>6 DEF Next

LEMMA NextNears ==
  TypeOK /\ TypeOK' /\ FollowInv /\ SuspensionsUnderWay /\ [Next]_vars => Nearing
<1> SUFFICES ASSUME TypeOK, TypeOK', FollowInv, SuspensionsUnderWay, [Next]_vars,
                    NEW t \in Tools, Waiting(t), Waiting(t)'
             PROVE  /\ StepsLeft(t) \in 1 .. Len(pending) + 4
                    /\ StepsLeft(t)' <= StepsLeft(t)
                    /\ Mine \/ (job.tool = t /\ (OpenFile \/ WriteFile \/ Send))
                         => StepsLeft(t)' < StepsLeft(t)
  BY DEF Nearing
<1>1. UnderWay(t) BY DEF SuspensionsUnderWay
<1>2. StepsLeft(t) \in 1 .. Len(pending) + 4 BY <1>1, LeftCounts
<1>3. Len(pending) \in Nat /\ Len(pending') \in Nat BY DEF TypeOK
<1>4. CASE Mine
  <2>1. StepsLeft(t)' \in Int /\ StepsLeft(t)' < StepsLeft(t) BY <1>1, <1>4, MineNears
  <2> QED BY <1>2, <1>3, <2>1
<1>5. CASE Send
  <2>1. ~Mine /\ ~OpenFile /\ ~WriteFile BY <1>5 DEF Send, Mine, OpenFile, WriteFile
  <2> QED BY <1>1, <1>2, <1>5, <2>1, SendNears
<1>6. CASE ~Send /\ ~Mine
  <2>1. /\ pending' = pending /\ (job'.tool = t <=> job.tool = t)
        /\ job.tool = t => phase' = phase \/ OpenFile \/ WriteFile
    BY <1>6, HandKept
  <2>2. CASE job.tool = t /\ WriteFile
    <3>1. phase = "writing" /\ phase' = "sending" /\ ~Send /\ ~Mine
      BY <1>6, <2>2, ToolsAssumption DEF WriteFile, NoJob
    <3>2. StepsLeft(t) = Len(pending) + 3 /\ StepsLeft(t)' = Len(pending) + 2
      BY <2>1, <2>2, <3>1 DEF StepsLeft
    <3> QED BY <1>2, <1>3, <3>1, <3>2
  <2>4. CASE job.tool = t /\ OpenFile
    <3>1. phase = "opening" /\ phase' = "writing" /\ ~Send /\ ~Mine
      BY <1>6, <2>4 DEF OpenFile
    <3>2. StepsLeft(t) = Len(pending) + 4 /\ StepsLeft(t)' = Len(pending) + 3
      BY <2>1, <2>4, <3>1 DEF StepsLeft
    <3> QED BY <1>2, <1>3, <3>1, <3>2
  <2>3. CASE ~(job.tool = t /\ (OpenFile \/ WriteFile))
    <3>1. StepsLeft(t)' = StepsLeft(t) BY <2>1, <2>3, QueueKept
    <3> QED BY <1>2, <1>3, <1>6, <2>3, <3>1
  <2> QED BY <2>2, <2>3, <2>4
<1> QED BY <1>4, <1>5, <1>6

(* A suspension on its way to the chain comes nearer to it with each       *)
(* transaction mined and each step of its own handler, and never goes back:*)
(* nobody's reports, resets, failures or transactions get ahead of it.     *)
THEOREM SuspensionTheorem == Spec => [][Nearing]_vars
<1>1. TypeOK /\ TypeOK' /\ FollowInv /\ SuspensionsUnderWay /\ [Next]_vars => [Nearing]_vars
  BY NextNears
<1>2. Spec => []FollowInv BY FollowInit, FollowStep, MonitorTyped, PTL DEF Spec
<1> QED BY <1>1, <1>2, MonitorTyped, UnderWayTheorem, PTL DEF Spec

(* A change of what is excepted, with everything else as it was.           *)
LEMMA StillAgrees ==
  ASSUME FileAgrees, UNCHANGED <<enabled, file>>,
         lapsed \cup BeingWritten \subseteq (lapsed \cup BeingWritten)'
  PROVE  FileAgrees'
BY DEF FileAgrees, IsToolSuspended

(* Servers refuse what the monitor holds suspended, except for the tools   *)
(* of a write under way or, until the next that works, of a failed one     *)
(* (persist_state): a write that could not open the file is behind on its  *)
(* one tool, one that was cut short on any.                                *)
THEOREM FileNeverStale == Spec => []FileAgrees
<1>1. Init => FileAgrees
  BY DEF Init, BeingWritten, FileAgrees
<1>2. TypeOK /\ FollowInv /\ FileAgrees /\ [Next]_vars => FileAgrees'
  <2> SUFFICES ASSUME TypeOK, FollowInv, FileAgrees, [Next]_vars PROVE FileAgrees'
    OBVIOUS
  <2>1. ASSUME phase = "idle", NEW op \in {"disable", "enable"}, NEW a \in Agents,
               NEW t \in Tools, Switch(op, a, t), UNCHANGED <<file, lapsed>>
        PROVE  FileAgrees'
    <3>1. BeingWritten' = {t}
      BY <2>1, SwitchType, JobsAreReal DEF Switch, BeingWritten
    <3>2. ASSUME NEW u \in Tools \ (lapsed \cup {t})
          PROVE  IsToolSuspended(u)' <=> u \notin enabled'
      BY <2>1, <3>2 DEF FileAgrees, BeingWritten, IsToolSuspended, Switch
    <3> QED
      BY <2>1, <3>1, <3>2 DEF FileAgrees
  <2>2. ASSUME NEW t \in Tools, NEW success \in BOOLEAN, NEW latency \in Latencies,
               NEW a \in ReportAgents \cup {DefaultAgent[t]}, Report(t, success, latency, a)
        PROVE  FileAgrees'
    <3>1. a \in Agents /\ phase = "idle" /\ UNCHANGED <<file, lapsed>>
      BY <2>2, AgentsAssumption DEF Report
    <3>2. CASE Switch("disable", a, t) \/ Switch("enable", a, t)
      BY <2>1, <3>1, <3>2
    <3>3. CASE UNCHANGED <<enabled, phase, job>>
      BY <3>1, <3>3, StillAgrees DEF BeingWritten
    <3> QED
      BY <2>2, <3>2, <3>3 DEF Report
  <2>3. ASSUME NEW t \in Tools, Reset(t) PROVE FileAgrees'
    BY <2>1, <2>3, AgentsAssumption DEF Reset
  <2>4. ASSUME NEW t \in Tools, Prune(t) PROVE FileAgrees'
    BY <2>4, StillAgrees DEF Prune, BeingWritten
  <2>5. CASE OpenFile \/ Restart
    BY <2>5 DEF OpenFile, Restart, BeingWritten, FileAgrees, FollowInv, JobAgrees
  <2>6. CASE WriteFile
    BY <2>6 DEF WriteFile, FileAgrees, IsToolSuspended
  <2>7. CASE WriteFails \/ Crash
    BY <2>7, StillAgrees DEF WriteFails, Crash, BeingWritten
  <2>8. CASE Send \/ SendFails
    BY <2>8, StillAgrees DEF Send, SendFails, BeingWritten
  <2>9. CASE \/ Mine \/ UNCHANGED vars \/ \E ours \in BOOLEAN : Appoint(ours)
    BY <2>9, StillAgrees DEF Mine, Appoint, vars, monitorVars, BeingWritten
  <2> QED
    BY <2>2, <2>3, <2>4, <2>5, <2>6, <2>7, <2>8, <2>9 DEF Next
<1>3. Spec => []FollowInv
  BY FollowInit, FollowStep, MonitorTyped, PTL DEF Spec
<1> QED
  BY <1>1, <1>2, <1>3, MonitorTyped, PTL DEF Spec
=============================================================================
