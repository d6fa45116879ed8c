----------------------------- MODULE AgentFleet -----------------------------
(***************************************************************************)
(* The agents built from the template (server_base.py) and the registry    *)
(* they keep informed.  An agent is a process with one thread that serves  *)
(* requests, one that registers it again every SyncInterval and one that   *)
(* reports its status every StatusInterval, each to all bootstrap servers  *)
(* in turn; a call that fails is logged and not retried before its thread  *)
(* wakes up again.  The registry has no DELETE endpoint, so that           *)
(* deregistering changes nothing there.                                    *)
(*                                                                         *)
(* Time passes in ticks.  A tick is longer than a call takes (they time    *)
(* out after ten seconds), so a task that is due runs before the next one. *)
(***************************************************************************)
EXTENDS AgentRegistry

CONSTANTS
  SyncInterval, StatusInterval, NodeInterval,  \* the intervals of the loops
  WarmAfter,    \* ticks of uptime until uptime_percentage reaches the floor
  MaxRequests,  \* a model bound: requests a process of each agent serves
  Budgets       \* model bounds: how often each agent starts, with how many lost calls,
                \* failed syncs and server restarts

ASSUME IntervalAssumption ==
  /\ {SyncInterval, StatusInterval, NodeInterval} \subseteq Nat \ {0}
  /\ WarmAfter \in Nat /\ MaxRequests \in [Addresses -> Nat]
  /\ Budgets \subseteq [starts: [Addresses -> Nat], faults: Nat]

VARIABLES
  proc,     \* each agent's process
  runtime,  \* its AgentRuntime
  call,     \* what its two loops are sending, and to whom
  timer,    \* ticks until each periodic task is due
  starts, faults   \* what is left of the budget

fleetVars == <<registryVars, proc, runtime, call, timer, starts, faults>>

Loops == {"sync", "status"}
Node == "node"

ASSUME NodeAssumption == Node \notin Bootstraps \cup Addresses /\ IsFiniteSet(Bootstraps)

(* The periodic tasks: two loops per agent, an eviction per registry and   *)
(* the sync of the node.                                                   *)
Tasks == (Loops \X Addresses) \cup ({"evict"} \X (Bootstraps \cup {Node}))
           \cup {<<"sync", Node>>}

Interval(task) ==
  CASE task[1] = "evict" -> EvictInterval
    [] task[1] = "status" -> StatusInterval
    [] task = <<"sync", Node>> -> NodeInterval
    [] OTHER -> SyncInterval

Runtimes == [uptime: 0..WarmAfter, requests: Nat, errors: Nat]
Calls == [to: SUBSET Bootstraps, report: Reports]
Idle == [to |-> {}, report |-> [health |-> "healthy", reliable |-> TRUE, warm |-> FALSE]]

FleetTypeOK ==
  /\ listed \in [Bootstraps -> Registries]
  /\ copied \in Registries
  /\ proc \in [Addresses -> {"off", "running", "stopping"}]
  /\ runtime \in [Addresses -> Runtimes]
  /\ call \in [Addresses -> [Loops -> Calls]]
  /\ timer \in [Tasks -> Nat] /\ \A t \in Tasks : timer[t] <= Interval(t)
  /\ starts \in [Addresses -> Nat]
  /\ faults \in Nat

NewRuntime == [uptime |-> 0, requests |-> 0, errors |-> 0]

FleetInit ==
  /\ RegistryInit
  /\ proc = [a \in Addresses |-> "off"]
  /\ runtime = [a \in Addresses |-> NewRuntime]
  /\ call = [a \in Addresses |-> [l \in Loops |-> Idle]]
  /\ timer = [t \in Tasks |-> Interval(t)]
  /\ \E budget \in Budgets : starts = budget.starts /\ faults = budget.faults

-----------------------------------------------------------------------------
(* reliability() against the floor of 0.95 that discovery applies.         *)
Reliable(a) == 100 * (runtime[a].requests - runtime[a].errors) >= 95 * runtime[a].requests

(* uptime_percentage(): t / (t + 1), which reaches 99% after 99 seconds.   *)
Warm(a) == runtime[a].uptime = WarmAfter

(* build_agent_details and the body of the status report.                  *)
Report(a) ==
  [health |-> IF proc[a] = "running" THEN "healthy" ELSE "unhealthy",
   reliable |-> Reliable(a), warm |-> Warm(a)]

(* The process starts and registers before its loops do.                   *)
Start(a) ==
  /\ proc[a] = "off" /\ call[a] = [l \in Loops |-> Idle]
  /\ starts[a] > 0
  /\ starts' = [starts EXCEPT ![a] = @ - 1]
  /\ proc' = [proc EXCEPT ![a] = "running"]
  /\ runtime' = [runtime EXCEPT ![a] = NewRuntime]
  /\ call' = [call EXCEPT ![a]["sync"] =
       [to |-> Bootstraps,
        report |-> [health |-> "healthy", reliable |-> TRUE, warm |-> WarmAfter = 0]]]
  /\ timer' = [timer EXCEPT ![<<"sync", a>>] = SyncInterval, ![<<"status", a>>] = StatusInterval]
  /\ UNCHANGED <<registryVars, faults>>

(* POST /api/execute: the one request the metrics count.                   *)
Execute(a) ==
  /\ proc[a] = "running"
  /\ runtime[a].requests < MaxRequests[a]
  /\ \E failed \in {0, 1} :
       runtime' = [runtime EXCEPT ![a].requests = @ + 1, ![a].errors = @ + failed]
  /\ UNCHANGED <<registryVars, proc, call, timer, starts, faults>>

(* A loop wakes up and builds what it is going to send.  One that woke up  *)
(* just before the process was told to stop still sends it.                *)
Wake(a, loop) ==
  /\ proc[a] # "off"
  /\ timer[<<loop, a>>] = 0
  /\ call' = [call EXCEPT ![a][loop] = [to |-> Bootstraps, report |-> Report(a)]]
  /\ timer' = [timer EXCEPT ![<<loop, a>>] = Interval(<<loop, a>>)]
  /\ UNCHANGED <<registryVars, proc, runtime, starts, faults>>

Sent(a, loop, s) ==
  LET rest == call[a][loop].to \ {s}
  IN call' = [call EXCEPT ![a][loop] = IF rest = {} THEN Idle ELSE [@ EXCEPT !.to = rest]]

Deliver(a, loop, s) ==
  /\ s \in call[a][loop].to
  /\ IF loop = "sync" THEN Register(s, a, call[a][loop].report)
                      ELSE ReportStatus(s, a, call[a][loop].report)
  /\ Sent(a, loop, s)
  /\ UNCHANGED <<proc, runtime, timer, starts, faults>>

Lose(a, loop, s) ==
  /\ s \in call[a][loop].to
  /\ faults > 0
  /\ faults' = faults - 1
  /\ Sent(a, loop, s)
  /\ UNCHANGED <<registryVars, proc, runtime, timer, starts>>

(* SIGTERM: the handler runs in the serving thread, tries to deregister and*)
(* waits in server.shutdown() for the serving loop below it on the stack:  *)
(* the process serves nothing any more and does not end.                   *)
Terminate(a) ==
  /\ proc[a] = "running"
  /\ proc' = [proc EXCEPT ![a] = "stopping"]
  /\ UNCHANGED <<registryVars, runtime, call, timer, starts, faults>>

(* The process ends, by an interrupt or because it was killed; of each loop*)
(* at most the request that is on its way still arrives.                   *)
Exit(a) ==
  /\ proc[a] # "off"
  /\ proc' = [proc EXCEPT ![a] = "off"]
  /\ runtime' = [runtime EXCEPT ![a] = NewRuntime]
  /\ \E last \in [Loops -> SUBSET Bootstraps] :
       /\ \A l \in Loops : last[l] \subseteq call[a][l].to /\ Cardinality(last[l]) <= 1
       /\ call' = [call EXCEPT ![a] =
            [l \in Loops |-> IF last[l] = {} THEN Idle ELSE [@[l] EXCEPT !.to = last[l]]]]
  /\ UNCHANGED <<registryVars, timer, starts, faults>>

-----------------------------------------------------------------------------
Evict(where) ==
  /\ timer[<<"evict", where>>] = 0
  /\ IF where = Node THEN EvictAtNode ELSE EvictAt(where)
  /\ timer' = [timer EXCEPT ![<<"evict", where>>] = EvictInterval]
  /\ UNCHANGED <<proc, runtime, call, starts, faults>>

NodeSync(reached) ==
  /\ timer[<<"sync", Node>>] = 0
  /\ SyncFrom(reached)
  /\ Cardinality(Bootstraps \ reached) <= faults
  /\ faults' = faults - Cardinality(Bootstraps \ reached)
  /\ timer' = [timer EXCEPT ![<<"sync", Node>>] = NodeInterval]
  /\ UNCHANGED <<proc, runtime, call, starts>>

CrashServer(s) ==
  /\ faults > 0
  /\ faults' = faults - 1
  /\ RestartServer(s)
  /\ UNCHANGED <<proc, runtime, call, timer, starts>>

(* The tasks that run at all: the loops of an agent that was told to stop  *)
(* see it when they wake up.                                               *)
Scheduled(task) == task[1] \in Loops /\ task[2] # Node => proc[task[2]] = "running"

Tick ==
  /\ \A a \in Addresses, l \in Loops : call[a][l] = Idle
  /\ \A t \in Tasks : Scheduled(t) => timer[t] > 0
  /\ AgeEntries
  /\ runtime' = [a \in Addresses |->
       IF proc[a] = "running" /\ ~Warm(a) THEN [runtime[a] EXCEPT !.uptime = @ + 1]
                                          ELSE runtime[a]]
  /\ timer' = [t \in Tasks |-> IF Scheduled(t) THEN timer[t] - 1 ELSE Interval(t)]
  /\ UNCHANGED <<proc, call, starts, faults>>

(* What happens by the clock.                                              *)
Scheduling ==
  \/ Tick
  \/ \E a \in Addresses, l \in Loops : Wake(a, l) \/ \E s \in Bootstraps : Deliver(a, l, s)
  \/ \E where \in Bootstraps \cup {Node} : Evict(where)
  \/ \E reached \in SUBSET Bootstraps : NodeSync(reached)

FleetNext ==
  \/ Scheduling
  \/ \E a \in Addresses :
       \/ Start(a) \/ Execute(a) \/ Terminate(a) \/ Exit(a)
       \/ \E l \in Loops, s \in Bootstraps : Lose(a, l, s)
  \/ \E s \in Bootstraps : CrashServer(s)

FleetSpec == FleetInit /\ [][FleetNext]_fleetVars /\ WF_fleetVars(Scheduling)

-----------------------------------------------------------------------------
(* A registry drops an agent only after it heard nothing of it for both    *)
(* TTLs together: a status report between quarantine and removal, by an    *)
(* agent that does not register anew, starts the whole count again.        *)
RemovedOnlyWhenSilent ==
  [][\A s \in Bootstraps, a \in Addresses :
       EvictAt(s) /\ listed[s][a] # Absent /\ listed'[s][a] = Absent
         => listed[s][a].age >= QuarantineTTL + RemovalTTL]_fleetVars

(* An agent that stopped for good is forgotten everywhere, by the node too *)
(* that keeps renewing what it copies, and whatever calls of the agent     *)
(* were still on their way when it stopped.                                *)
StoppedForgotten ==
  \A a \in Addresses :
    <>[](proc[a] # "running")
      => <>[](copied[a] = Absent /\ \A s \in Bootstraps : listed[s][a] = Absent)

(* The bootstrap servers converge on the agents that run: whatever calls   *)
(* were lost and servers restarted, and though a registration leaves a     *)
(* quarantine and old metrics in place, an agent that keeps running is     *)
(* discovered in the end exactly if it is reliable, at every server that   *)
(* takes its status reports for its own (verify_caller_owns_address) and   *)
(* has room for it (update_registry).                                      *)
RunningDiscovered ==
  \A a \in Addresses, s \in Bootstraps :
    <<s, a>> \in Recognised =>
      (<>[](proc[a] = "running" /\ HasRoom(listed[s], a))
         => <>[](Discoverable(listed[s], a) <=> Reliable(a)))
=============================================================================
