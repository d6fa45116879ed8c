--------------------------- MODULE BoundsMonitor ---------------------------
(***************************************************************************)
(* The off-chain autonomy bounds monitor (bounds_monitor.py) with what it  *)
(* writes to: the file bounds-state.json that the MCP servers read on      *)
(* every call, and AutonomyBoundsRegistry, through a queue of signed       *)
(* transactions.  Handlers run one at a time under an asyncio lock, which  *)
(* is held while a transaction is sent.  A tool is switched in memory      *)
(* first; then the file is opened, which truncates it, and then written,   *)
(* and either may fail.  The servers are other processes.                  *)
(*                                                                         *)
(* The 60-second buffer of timestamps is abstracted to its length: each    *)
(* timestamp leaves at some later moment.                                  *)
(***************************************************************************)
EXTENDS AutonomyBoundsRegistry, Sequences, FiniteSets

CONSTANTS
  NoTool,             \* the tool of no job
  DefaultAgent,       \* tool -> the agent_id of its ToolState
  ReportAgents,       \* the agent ids that reports name themselves
  Rated,              \* the tools whose spec has anomaly and performance bounds
  AnomalyWindow, MaxErrorPct,
  PerformanceWindow, MinSuccessPct,
  MaxPerMinute,
  RequestCap,         \* model bound on the requests of a minute
  QueueCap,           \* model bound on transactions not mined yet
  MaxFaults           \* model bound on failures, crashes and dismissals

ASSUME ToolsAssumption == NoTool \notin Tools
ASSUME AgentsAssumption ==
  DefaultAgent \in [Tools -> Agents] /\ ReportAgents \subseteq Agents
ASSUME BoundsAssumption ==
  /\ AnomalyWindow \in Nat \ {0} /\ PerformanceWindow \in Nat \ {0}
  /\ MaxErrorPct \in 0..100 /\ MinSuccessPct \in 0..100
  /\ MaxPerMinute \in Nat /\ RequestCap \in Nat /\ RequestCap > MaxPerMinute
  /\ QueueCap \in Nat /\ MaxFaults \in Nat

VARIABLES
  enabled,      \* the tools whose ToolState.enabled is true
  anomaly,      \* anomaly_window: the outcomes of the last calls, TRUE a success
  performance,  \* performance_window
  requests,     \* the length of burst_tracker
  phase,        \* where the process is: down, idle, or in a handler at one of its steps
  job,          \* the on-chain call that the holder of the lock is to make
  file,         \* bounds-state.json: the tools it says are enabled, and whether it is whole
  pending,      \* transactions sent and not mined, in nonce order
  overridden,   \* history: tools reset by the operator with no report since
  adrift,       \* history: tools of which the chain was last not told
  lapsed,       \* history: tools whose change never got to the file, for a failed write
  faults        \* faults so far

monitorVars == <<enabled, anomaly, performance, requests, phase, job, file,
                 pending, overridden, adrift, lapsed, faults>>
vars == <<monitorVars, chainVars>>

Latencies == {"absent", "prompt", "late"}   \* "late": above response_timeout_ms
Job == [op: {"disable", "enable"}, agent: Agents, tool: Tools]
NoJob == [tool |-> NoTool]
FileStates == [whole: BOOLEAN, enabled: SUBSET Tools]

TypeOK ==
  /\ ChainTypeOK
  /\ enabled \subseteq Tools
  /\ anomaly \in [Tools -> Seq(BOOLEAN)]
  /\ performance \in [Tools -> Seq(BOOLEAN)]
  /\ \A t \in Tools :
       Len(anomaly[t]) <= AnomalyWindow /\ Len(performance[t]) <= PerformanceWindow
  /\ requests \in [Tools -> 0..RequestCap]
  /\ phase \in {"down", "idle", "opening", "writing", "sending"}
  /\ job \in Job \cup {NoJob}
  /\ phase = "sending" => job # NoJob
  /\ file \in FileStates
  /\ pending \in Seq(Job) /\ Len(pending) <= QueueCap
  /\ overridden \subseteq Tools
  /\ adrift \subseteq Tools /\ lapsed \subseteq Tools
  /\ faults \in 0..MaxFaults

Torn == [whole |-> FALSE, enabled |-> {}]

(* main initialises the tools and rewrites the file, at every start; there *)
(* is no file at the first.                                                *)
Init ==
  /\ ChainInit
  /\ enabled = Tools
  /\ anomaly = [t \in Tools |-> <<>>]
  /\ performance = [t \in Tools |-> <<>>]
  /\ requests = [t \in Tools |-> 0]
  /\ phase = "opening" /\ job = NoJob
  /\ file = Torn
  /\ pending = <<>>
  /\ overridden = {} /\ adrift = {} /\ lapsed = {}
  /\ faults = 0

-----------------------------------------------------------------------------
(* A deque with maxlen "size".                                             *)
Push(w, success, size) == Append(IF Len(w) < size THEN w ELSE Tail(w), success)

SuccessCount(w) == Cardinality({i \in DOMAIN w : w[i]})
ErrorCount(w) == Len(w) - SuccessCount(w)

(* error_rate_pct and success_rate_pct against a limit, without division.  *)
ErrorRateAbove(w, pct) == ErrorCount(w) * 100 > pct * Len(w)
SuccessRateBelow(w, pct) == Len(w) > 0 /\ SuccessCount(w) * 100 < pct * Len(w)

AnomalyExceeded(t) ==
  /\ t \in Rated
  /\ Len(anomaly[t]) >= AnomalyWindow
  /\ ErrorRateAbove(anomaly[t], MaxErrorPct)

PerformanceExceeded(t) ==
  /\ t \in Rated
  /\ Len(performance[t]) >= PerformanceWindow
  /\ SuccessRateBelow(performance[t], MinSuccessPct)

BurstExceeded(t) == requests[t] > MaxPerMinute

EvaluateThresholds(t, latency) ==
  AnomalyExceeded(t) \/ PerformanceExceeded(t) \/ BurstExceeded(t) \/ latency = "late"

(* Mutant: the success rate is forgotten.                                  *)
HasRecoveredFromErrors(t) == ~AnomalyExceeded(t) /\ ~BurstExceeded(t)

(* The latency has no part in a recovery.                                  *)
HasRecovered(t) == ~AnomalyExceeded(t) /\ ~PerformanceExceeded(t) /\ ~BurstExceeded(t)

-----------------------------------------------------------------------------
(* The part of a handler up to persist_state: the tool is switched in      *)
(* memory, and the file and the chain are still to follow.                 *)
Switch(op, a, t) ==
  /\ enabled' = IF op = "enable" THEN enabled \cup {t} ELSE enabled \ {t}
  /\ phase' = "opening"
  /\ job' = [op |-> op, agent |-> a, tool |-> t]

(* The windows of a tool that is not rated are never read.                 *)
RecordOutcome(t, success) ==
  /\ requests[t] < RequestCap
  /\ requests' = [requests EXCEPT ![t] = @ + 1]
  /\ IF t \in Rated
       THEN /\ anomaly' = [anomaly EXCEPT ![t] = Push(@, success, AnomalyWindow)]
            /\ performance' = [performance EXCEPT ![t] = Push(@, success, PerformanceWindow)]
       ELSE UNCHANGED <<anomaly, performance>>

(* POST /report, by the agent that the report names or else the tool's.    *)
Report(t, success, latency, a) ==
  /\ phase = "idle"
  /\ RecordOutcome(t, success)
  /\ CASE t \in enabled /\ EvaluateThresholds(t, latency)' -> Switch("disable", a, t)
       [] t \notin enabled /\ HasRecovered(t)' -> Switch("enable", a, t)
       [] OTHER -> UNCHANGED <<enabled, phase, job>>
  /\ overridden' = overridden \ {t}
  /\ UNCHANGED <<file, pending, adrift, lapsed, faults, chainVars>>

(* Mutant: the operator's reset does not write the file.                   *)
ResetUnwritten(t) ==
  /\ phase = "idle"
  /\ enabled' = enabled \cup {t}
  /\ phase' = "sending"
  /\ job' = [op |-> "enable", agent |-> DefaultAgent[t], tool |-> t]
  /\ overridden' = overridden \cup {t}
  /\ UNCHANGED <<anomaly, performance, requests, file, pending, adrift, lapsed, faults,
                 chainVars>>

(* POST /reset: the windows keep what they hold.                           *)
Reset(t) ==
  /\ phase = "idle"
  /\ Switch("enable", DefaultAgent[t], t)
  /\ overridden' = overridden \cup {t}
  /\ UNCHANGED <<anomaly, performance, requests, file, pending, adrift, lapsed, faults,
                 chainVars>>

(* A timestamp turns 60 seconds old.                                       *)
Prune(t) ==
  /\ requests[t] > 0
  /\ requests' = [requests EXCEPT ![t] = @ - 1]
  /\ UNCHANGED <<enabled, anomaly, performance, phase, job, file, pending,
                 overridden, adrift, lapsed, faults, chainVars>>

(* The file is opened for writing, and so truncated.                       *)
OpenFile ==
  /\ phase = "opening"
  /\ file' = Torn
  /\ phase' = "writing"
  /\ UNCHANGED <<enabled, anomaly, performance, requests, job, pending, overridden,
                 adrift, lapsed, faults, chainVars>>

(* Mutant: a suspension is written to the file and nowhere else.           *)
WriteFileOnly ==
  /\ phase = "writing"
  /\ file' = [whole |-> TRUE, enabled |-> enabled]
  /\ phase' = IF job # NoJob /\ job.op = "enable" THEN "sending" ELSE "idle"
  /\ job' = IF job # NoJob /\ job.op = "enable" THEN job ELSE NoJob
  /\ lapsed' = {}
  /\ UNCHANGED <<enabled, anomaly, performance, requests, pending, overridden,
                 adrift, faults, chainVars>>

WriteFile ==
  /\ phase = "writing"
  /\ file' = [whole |-> TRUE, enabled |-> enabled]
  /\ phase' = IF job = NoJob THEN "idle" ELSE "sending"
  /\ lapsed' = {}
  /\ UNCHANGED <<enabled, anomaly, performance, requests, job, pending, overridden,
                 adrift, faults, chainVars>>

(* What the chain is left without when the job in hand is abandoned.       *)
Abandoned == IF job = NoJob THEN adrift ELSE adrift \cup {job.tool}

(* The tools of which the file is still to be told by the write under way: *)
(* the one just switched, and all of them at a start or with the file open.*)
BeingWritten ==
  {t \in Tools : \/ phase = "writing"
                 \/ phase = "opening" /\ (job = NoJob \/ job.tool = t)}

(* write_text raises, as it opens the file, which then stays as it was, or *)
(* later: a request ends in a 500 with the tool switched and the chain not *)
(* told; at the start the process ends.                                    *)
WriteFails ==
  /\ phase \in {"opening", "writing"}
  /\ faults < MaxFaults /\ faults' = faults + 1
  /\ phase' = IF job = NoJob THEN "down" ELSE "idle"
  /\ adrift' = Abandoned
  /\ lapsed' = lapsed \cup BeingWritten
  /\ job' = NoJob
  /\ UNCHANGED <<enabled, anomaly, performance, requests, file, pending, overridden,
                 chainVars>>

(* transact() returns when the node has taken the transaction.  Its gas    *)
(* estimate fails unless the registry knows the sender as its monitor.     *)
Send ==
  /\ phase = "sending"
  /\ appointed
  /\ Len(pending) < QueueCap
  /\ pending' = Append(pending, job)
  /\ adrift' = IF job.agent = DefaultAgent[job.tool] THEN adrift \ {job.tool}
               ELSE adrift \cup {job.tool}
  /\ phase' = "idle" /\ job' = NoJob
  /\ UNCHANGED <<enabled, anomaly, performance, requests, file, overridden, lapsed, faults,
                 chainVars>>

(* The exception is logged and the handler answers as if it had worked.    *)
SendFails ==
  /\ phase = "sending"
  /\ appointed => faults < MaxFaults
  /\ faults' = IF appointed THEN faults + 1 ELSE faults
  /\ adrift' = Abandoned
  /\ phase' = "idle" /\ job' = NoJob
  /\ UNCHANGED <<enabled, anomaly, performance, requests, file, pending, overridden,
                 lapsed, chainVars>>

Mine ==
  /\ pending # <<>>
  /\ pending' = Tail(pending)
  /\ LET tx == Head(pending)
     IN IF ~appointed
          THEN adrift' = adrift \cup {tx.tool} /\ UNCHANGED chainVars   \* reverts
          ELSE /\ UNCHANGED adrift
               /\ \/ tx.op = "disable" /\ DisableTool(tx.agent, tx.tool)
                  \/ tx.op = "enable" /\ EnableTool(tx.agent, tx.tool)
  /\ UNCHANGED <<enabled, anomaly, performance, requests, phase, job, file,
                 overridden, lapsed, faults>>

(* The owner names the monitor's account, or takes its right away.         *)
Appoint(ours) ==
  /\ appointed # ours
  /\ SetMonitor(ours)
  /\ IF ours THEN UNCHANGED faults ELSE faults < MaxFaults /\ faults' = faults + 1
  /\ UNCHANGED <<enabled, anomaly, performance, requests, phase, job, file, pending,
                 overridden, adrift, lapsed>>

Crash ==
  /\ phase # "down"
  /\ faults < MaxFaults /\ faults' = faults + 1
  /\ phase' = "down"
  /\ adrift' = Abandoned
  /\ lapsed' = lapsed \cup BeingWritten
  /\ job' = NoJob
  /\ UNCHANGED <<enabled, anomaly, performance, requests, file, pending, overridden,
                 chainVars>>

(* Every tool is enabled again; the file follows, the chain is not told.   *)
Restart ==
  /\ phase = "down"
  /\ enabled' = Tools
  /\ anomaly' = [t \in Tools |-> <<>>]
  /\ performance' = [t \in Tools |-> <<>>]
  /\ requests' = [t \in Tools |-> 0]
  /\ phase' = "opening"
  /\ overridden' = {}
  /\ adrift' = adrift \cup (Tools \ enabled)
  /\ UNCHANGED <<job, file, pending, lapsed, faults, chainVars>>

-----------------------------------------------------------------------------
(* What suspended_when_revoked asks before each call of a tool: a file     *)
(* that does not parse suspends nothing.                                   *)
IsToolSuspended(t) == file.whole /\ t \notin file.enabled

Next ==
  \/ \E t \in Tools, success \in BOOLEAN, latency \in Latencies :
       \E a \in ReportAgents \cup {DefaultAgent[t]} : Report(t, success, latency, a)
  \/ \E t \in Tools : Reset(t) \/ Prune(t)
  \/ OpenFile \/ WriteFile \/ WriteFails
  \/ Send \/ SendFails
  \/ Mine
  \/ \E ours \in BOOLEAN : Appoint(ours)
  \/ Crash \/ Restart

Spec == Init /\ [][Next]_vars

(* A handler goes on when its I/O is done, and sent transactions are       *)
(* mined.  Nothing makes reports, resets or restarts happen.               *)
FairSpec ==
  /\ Spec
  /\ WF_vars(OpenFile) /\ WF_vars(WriteFile)
  /\ WF_vars(Send \/ SendFails)
  /\ WF_vars(Mine)

-----------------------------------------------------------------------------
(* A tool that is enabled is within every bound that can be checked later  *)
(* (process_report, evaluate_thresholds, has_recovered: the two functions  *)
(* judge by code of their own): error rate, success rate and burst rate,   *)
(* unless the operator reset it and no report has come since.              *)
EnabledWithinBounds ==
  \A t \in enabled \ overridden :
    /\ t \in Rated /\ Len(anomaly[t]) = AnomalyWindow
         => ErrorCount(anomaly[t]) * 100 <= MaxErrorPct * AnomalyWindow
    /\ t \in Rated /\ Len(performance[t]) = PerformanceWindow
         => SuccessCount(performance[t]) * 100 >= MinSuccessPct * PerformanceWindow
    /\ requests[t] <= MaxPerMinute

(* The servers that read bounds-state.json refuse exactly the tools the    *)
(* monitor holds suspended, through resets, crashes and restarts           *)
(* (persist_state is called on every path that switches a tool).  Excepted *)
(* are the tools of a write under way, and after a failed one, until the   *)
(* next that works: the one tool it was about where the file could not be  *)
(* opened, for the old file stays, and all of them where it was cut short, *)
(* for a file that does not parse suspends nothing.                        *)
FileAgrees ==
  \A t \in Tools \ (lapsed \cup BeingWritten) : IsToolSuspended(t) <=> t \notin enabled

(* Once nothing is on its way, the entry of a tool's own agent on chain    *)
(* agrees with the monitor, except where the chain was not told: a failed  *)
(* write, transaction or process, a restart, a report that named another   *)
(* agent.  The next change under the tool's agent heals it.  It rests on   *)
(* the lock being held until the transaction is sent.                      *)
ChainFollowsMonitor ==
  phase \in {"idle", "down"} /\ pending = <<>> =>
    \A t \in Tools \ adrift : t \in enabled <=> IsToolEnabled(DefaultAgent[t], t)

(* A suspension gets to the chain (bounds_monitor.py:14-15, "so oracle     *)
(* bridges are also blocked"), or is lifted, or is one of the exceptions.  *)
SuspensionReachesChain ==
  \A t \in Tools :
    t \notin enabled ~> \/ t \in enabled \cup adrift
                        \/ ~IsToolEnabled(DefaultAgent[t], t)
=============================================================================
