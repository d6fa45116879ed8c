-------------------------- MODULE AgentFleet_proofs --------------------------
(***************************************************************************)
(* Theorems of AgentFleet, for any number of agents and servers, any       *)
(* intervals and any number of faults: the types, that an eviction never   *)
(* removes an agent the server has heard of within the two TTLs, how an    *)
(* agent that stopped is forgotten and what a server knows of one that     *)
(* runs.                                                                   *)
(***************************************************************************)
EXTENDS AgentFleet, FiniteSetTheorems, TLAPS

USE TTLAssumption, IntervalAssumption, AbsentAssumption, NodeAssumption
USE DEF registryVars

-----------------------------------------------------------------------------
(* Numbers.                                                                *)

LEMMA MinOfTwo ==
  ASSUME NEW m \in Nat, NEW n \in Nat
  PROVE  Min({m, n}) = IF m <= n THEN m ELSE n
<1> DEFINE least == IF m <= n THEN m ELSE n
<1>1. least \in {m, n} /\ \A y \in {m, n} : least <= y
  OBVIOUS
<1>2. \A x \in {m, n} : (\A y \in {m, n} : x <= y) => x = least
  OBVIOUS
<1> QED BY <1>1, <1>2 DEF Min

LEMMA MaxOfTwo ==
  ASSUME NEW m \in Nat, NEW n \in Nat
  PROVE  Max({m, n}) = IF m >= n THEN m ELSE n
<1> DEFINE most == IF m >= n THEN m ELSE n
<1>1. most \in {m, n} /\ \A y \in {m, n} : most >= y
  OBVIOUS
<1>2. \A x \in {m, n} : (\A y \in {m, n} : x >= y) => x = most
  OBVIOUS
<1> QED BY <1>1, <1>2 DEF Max

LEMMA Ages ==
  /\ MaxAge \in Nat /\ MaxAge = QuarantineTTL + RemovalTTL
  /\ Unmarked = MaxAge + 1
  /\ \A n \in Nat : Older(n) = IF n + 1 <= MaxAge THEN n + 1 ELSE MaxAge
<1>1. MaxAge \in Nat BY DEF MaxAge
<1>2. ASSUME NEW n \in Nat PROVE Older(n) = IF n + 1 <= MaxAge THEN n + 1 ELSE MaxAge
  BY <1>1, MinOfTwo DEF Older
<1> QED BY <1>1, <1>2 DEF MaxAge, Unmarked

(* The eviction runs at least once within a quarantine TTL, unless that is *)
(* the shortest there is.                                                  *)
LEMMA EvictionsOften ==
  /\ EvictInterval \in Nat \ {0}
  /\ QuarantineTTL > 1 => EvictInterval < QuarantineTTL
<1> DEFINE least == Min({QuarantineTTL, RemovalTTL})
<1>1. least \in Nat /\ least <= QuarantineTTL BY MinOfTwo
<1> HIDE DEF least
<1>2. least \div 2 \in Nat /\ 2 * (least \div 2) <= least BY <1>1
<1>3. EvictInterval = IF least \div 2 >= 1 THEN least \div 2 ELSE 1
  BY <1>2, MaxOfTwo DEF EvictInterval, least
<1> QED BY <1>1, <1>2, <1>3

LEMMA IntervalTyped == \A t \in Tasks : Interval(t) \in Nat
  BY EvictionsOften DEF Interval

-----------------------------------------------------------------------------
(* The registry's functions.                                               *)

LEMMA EntriesMade ==
  ASSUME NEW reg \in Registries, NEW a \in Addresses, NEW report \in Reports
  PROVE  UpdateRegistry(reg, a, report) \in Registries
         /\ UpdateStatus(reg, a, report) \in Registries
<1>1. MaxAge \in Nat /\ Unmarked = MaxAge + 1 BY Ages
<1>2. UpdateRegistry(reg, a, report) \in Registries
  <2>1. CASE ~HasRoom(reg, a) BY <2>1 DEF UpdateRegistry
  <2>2. CASE HasRoom(reg, a)
    BY <1>1, <2>2 DEF UpdateRegistry, Registries, Entries, Reports, HealthStates
  <2> QED BY <2>1, <2>2
<1>3. UpdateStatus(reg, a, report) \in Registries
  <2>1. CASE reg[a] = Absent BY <2>1 DEF UpdateStatus
  <2>2. CASE reg[a] # Absent
    <3>1. reg[a] \in Entries BY <2>2 DEF Registries
    <3>2. [reg[a] EXCEPT !.age = 0, !.health = report.health,
                         !.reliable = report.reliable, !.warm = report.warm] \in Entries
      <4>1. /\ 0 \in 0..MaxAge /\ report.health \in HealthStates
            /\ report.reliable \in BOOLEAN /\ report.warm \in BOOLEAN
        BY <1>1 DEF Reports, HealthStates
      <4>2. [reg[a] EXCEPT !.age = 0, !.health = report.health] \in Entries
        BY <3>1, <4>1 DEF Entries
      <4>3. \A e \in Entries, reliable \in BOOLEAN, warm \in BOOLEAN :
              [e EXCEPT !.reliable = reliable, !.warm = warm] \in Entries
        BY DEF Entries
      <4> QED BY <4>1, <4>2, <4>3
    <3> QED BY <2>2, <3>2 DEF UpdateStatus, Registries
  <2> QED BY <2>1, <2>2
<1> QED BY <1>2, <1>3

(* What a call leaves behind: the agent's entry is fresh, or, where the    *)
(* server refused the call, what it was.                                   *)
Answers(reg, a, report) ==
  {UpdateRegistry(reg, a, report), UpdateStatus(reg, a, report), reg}

LEMMA AnswerMade ==
  ASSUME NEW reg \in Registries, NEW a \in Addresses, NEW report \in Reports,
         NEW new \in Answers(reg, a, report)
  PROVE  /\ new \in Registries
         /\ \A b \in Addresses \ {a} : new[b] = reg[b]
         /\ new[a] = reg[a] \/ new[a].age = 0
<1>1. new \in Registries BY EntriesMade DEF Answers
<1>2. CASE new = reg BY <1>1, <1>2
<1>3. CASE new = UpdateRegistry(reg, a, report) /\ HasRoom(reg, a)
  BY <1>1, <1>3 DEF UpdateRegistry, Registries
<1>4. CASE new = UpdateStatus(reg, a, report) /\ reg[a] # Absent
  <2>1. reg[a] \in Entries BY <1>4 DEF Registries
  <2>2. new = [reg EXCEPT ![a] = [@ EXCEPT !.age = 0, !.health = report.health,
                                    !.reliable = report.reliable, !.warm = report.warm]]
    BY <1>4 DEF UpdateStatus
  <2>3. new[a].age = 0 BY <2>1, <2>2 DEF Registries, Entries
  <2> QED BY <1>1, <2>2, <2>3 DEF Registries
<1> QED BY <1>1, <1>2, <1>3, <1>4 DEF Answers, UpdateRegistry, UpdateStatus

LEMMA EvictedTyped ==
  ASSUME NEW reg \in Registries
  PROVE  EvictStaleEntries(reg) \in Registries
<1>1. MaxAge \in Nat /\ Unmarked = MaxAge + 1 BY Ages
<1>2. ASSUME NEW e \in Entries PROVE Evicted(e) \in Entries \cup {Absent}
  <2> DEFINE mark == IF e.marked = Unmarked THEN 0 ELSE e.marked
  <2>1. mark \in 0..Unmarked /\ Unmarked \in 0..Unmarked BY <1>1 DEF Entries
  <2> HIDE DEF mark
  <2>2. [e EXCEPT !.marked = Unmarked] \in Entries BY <2>1 DEF Entries
  <2>3. [e EXCEPT !.marked = mark, !.health = "quarantine"] \in Entries
    BY <2>1 DEF Entries, HealthStates
  <2> QED BY <2>2, <2>3 DEF Evicted, mark
<1> QED BY <1>2 DEF EvictStaleEntries, Registries

LEMMA AgedTyped ==
  ASSUME NEW reg \in Registries
  PROVE  Aged(reg) \in Registries
<1>1. MaxAge \in Nat /\ Unmarked = MaxAge + 1 BY Ages
<1>2. \A n \in 0..MaxAge : Older(n) \in 0..MaxAge BY Ages
<1>3. ASSUME NEW e \in Entries
      PROVE  [e EXCEPT !.age = Older(@),
                       !.marked = IF @ = Unmarked THEN @ ELSE Older(@)] \in Entries
  <2>1. e.age \in 0..MaxAge /\ e.marked \in 0..Unmarked BY DEF Entries
  <2>2. Older(e.age) \in 0..MaxAge BY <1>2, <2>1
  <2>3. (IF e.marked = Unmarked THEN e.marked ELSE Older(e.marked)) \in 0..Unmarked
    <3>1. CASE e.marked = Unmarked BY <1>1, <3>1
    <3>2. CASE e.marked # Unmarked BY <1>1, <1>2, <2>1, <3>2
    <3> QED BY <3>1, <3>2
  <2> QED BY <2>2, <2>3 DEF Entries
<1> QED BY <1>3 DEF Aged, Registries

LEMMA MergedTyped ==
  ASSUME NEW own \in Entries \cup {Absent}, NEW theirs \in Entries
  PROVE  Merged(own, theirs) \in Entries
<1>1. MaxAge \in Nat /\ Unmarked = MaxAge + 1 BY Ages
<1>2. 0 \in 0..MaxAge /\ Unmarked \in 0..Unmarked BY <1>1
<1>3. [theirs EXCEPT !.age = 0] \in Entries BY <1>2 DEF Entries
<1>4. ASSUME own \in Entries
      PROVE  [own EXCEPT !.age = 0, !.marked = Unmarked] \in Entries
  BY <1>2, <1>4 DEF Entries
<1> QED BY <1>3, <1>4 DEF Merged

-----------------------------------------------------------------------------
(* Type correctness.                                                       *)

RegistryTyped == listed \in [Bootstraps -> Registries] /\ copied \in Registries

Timed(t) == t \in [Tasks -> Nat] /\ \A k \in Tasks : t[k] <= Interval(k)

LEMMA Intervals ==
  /\ \A a \in Addresses, l \in Loops : <<l, a>> \in Tasks
  /\ \A where \in Bootstraps \cup {Node} :
       <<"evict", where>> \in Tasks /\ Interval(<<"evict", where>>) = EvictInterval
  /\ \A a \in Addresses :
       Interval(<<"sync", a>>) = SyncInterval /\ Interval(<<"status", a>>) = StatusInterval
  /\ <<"sync", Node>> \in Tasks /\ Interval(<<"sync", Node>>) = NodeInterval
<1>1. \A a \in Addresses : a # Node OBVIOUS
<1>2. /\ \A a \in Addresses, l \in Loops : <<l, a>> \in Tasks
      /\ \A where \in Bootstraps \cup {Node} : <<"evict", where>> \in Tasks
      /\ <<"sync", Node>> \in Tasks
  BY DEF Tasks, Loops
<1>3. \A where : Interval(<<"evict", where>>) = EvictInterval BY DEF Interval
<1>4. \A a \in Addresses : /\ Interval(<<"sync", a>>) = SyncInterval
                           /\ Interval(<<"status", a>>) = StatusInterval
  BY <1>1 DEF Interval
<1>5. Interval(<<"sync", Node>>) = NodeInterval BY DEF Interval
<1> QED BY <1>2, <1>3, <1>4, <1>5

(* A timer is set to its interval.                                         *)
LEMMA TimerSet ==
  ASSUME NEW t, Timed(t), NEW k \in Tasks
  PROVE  Timed([t EXCEPT ![k] = Interval(k)])
BY IntervalTyped DEF Timed

LEMMA SentTyped ==
  ASSUME FleetTypeOK, NEW a \in Addresses, NEW l \in Loops, NEW s, Sent(a, l, s)
  PROVE  call' \in [Addresses -> [Loops -> Calls]]
<1>1. call[a][l] \in Calls BY DEF FleetTypeOK
<1>2. Idle \in Calls BY DEF Idle, Calls, Reports
<1> DEFINE rest == call[a][l].to \ {s}
           left == [call[a][l] EXCEPT !.to = rest]
<1>3. left \in Calls BY <1>1 DEF Calls
<1>4. call' = [call EXCEPT ![a][l] = IF rest = {} THEN Idle ELSE left] BY DEF Sent
<1> HIDE DEF rest, left
<1>5. (IF rest = {} THEN Idle ELSE left) \in Calls BY <1>2, <1>3
<1> QED BY <1>4, <1>5 DEF FleetTypeOK

LEMMA ReportTyped ==
  ASSUME NEW a \in Addresses PROVE Report(a) \in Reports
<1>1. Reliable(a) \in BOOLEAN BY DEF Reliable
<1>2. Warm(a) \in BOOLEAN BY DEF Warm
<1> QED BY <1>1, <1>2 DEF Report, Reports

LEMMA StartTyped ==
  ASSUME FleetTypeOK, NEW a \in Addresses, Start(a) PROVE FleetTypeOK'
<1> DEFINE first == [to |-> Bootstraps,
             report |-> [health |-> "healthy", reliable |-> TRUE, warm |-> WarmAfter = 0]]
<1>1. first \in Calls BY DEF Calls, Reports
<1>2. call' = [call EXCEPT ![a]["sync"] = first] BY DEF Start
<1> HIDE DEF first
<1>3. call' \in [Addresses -> [Loops -> Calls]] BY <1>1, <1>2 DEF FleetTypeOK, Loops
<1>4. Timed(timer)' 
  <2>1. Timed([timer EXCEPT ![<<"sync", a>>] = SyncInterval])
    BY Intervals, TimerSet DEF FleetTypeOK, Timed, Loops
  <2>2. Timed([[timer EXCEPT ![<<"sync", a>>] = SyncInterval]
                      EXCEPT ![<<"status", a>>] = StatusInterval])
    BY <2>1, Intervals, TimerSet DEF Loops
  <2>3. timer' = [[timer EXCEPT ![<<"sync", a>>] = SyncInterval]
                         EXCEPT ![<<"status", a>>] = StatusInterval]
    BY DEF Start
  <2> QED BY <2>2, <2>3 DEF Timed
<1>5. proc' \in [Addresses -> {"off", "running", "stopping"}] BY DEF Start, FleetTypeOK
<1>6. runtime' \in [Addresses -> Runtimes]
  BY DEF Start, FleetTypeOK, NewRuntime, Runtimes
<1>7. starts' \in [Addresses -> Nat]
  <2>1. starts \in [Addresses -> Nat] /\ starts[a] > 0 BY DEF Start, FleetTypeOK
  <2> QED BY <2>1 DEF Start
<1>8. UNCHANGED <<listed, copied, faults>> BY DEF Start
<1> QED BY <1>3, <1>4, <1>5, <1>6, <1>7, <1>8 DEF FleetTypeOK, Timed

(* An error is a request that was counted.                                 *)
ErrorsCounted == \A a \in Addresses : runtime[a].errors <= runtime[a].requests

LEMMA ExecuteTyped ==
  ASSUME FleetTypeOK, ErrorsCounted, NEW a \in Addresses, Execute(a)
  PROVE  FleetTypeOK' /\ ErrorsCounted'
<1>1. PICK failed \in {0, 1} :
        runtime' = [runtime EXCEPT ![a].requests = @ + 1, ![a].errors = @ + failed]
  BY DEF Execute
<1> DEFINE old == runtime[a]
           new == [runtime[a] EXCEPT !.requests = @ + 1, !.errors = @ + failed]
<1>2. /\ old \in Runtimes /\ old.errors <= old.requests
  BY DEF FleetTypeOK, ErrorsCounted
<1>3. new \in Runtimes /\ new.errors <= new.requests
  <2>1. old.requests \in Nat /\ old.errors \in Nat BY <1>2 DEF Runtimes
  <2>2. /\ old.requests + 1 \in Nat /\ old.errors + failed \in Nat
        /\ old.errors + failed <= old.requests + 1
    BY <1>2, <2>1
  <2> QED BY <1>2, <2>2 DEF Runtimes
<1>4. runtime' = [runtime EXCEPT ![a] = new] BY <1>1
<1> HIDE DEF new
<1>5. runtime' \in [Addresses -> Runtimes] BY <1>3, <1>4 DEF FleetTypeOK
<1>6. ErrorsCounted' BY <1>3, <1>4 DEF ErrorsCounted, FleetTypeOK
<1> QED BY <1>5, <1>6 DEF Execute, FleetTypeOK

LEMMA ProcessTyped ==
  ASSUME FleetTypeOK, NEW a \in Addresses
  PROVE  /\ \A l \in Loops : Wake(a, l) => FleetTypeOK'
         /\ Terminate(a) => FleetTypeOK'
         /\ Exit(a) => FleetTypeOK'
<1>1. ASSUME NEW l \in Loops, Wake(a, l) PROVE FleetTypeOK'
  <2>1. [to |-> Bootstraps, report |-> Report(a)] \in Calls BY ReportTyped DEF Calls
  <2>2. call' \in [Addresses -> [Loops -> Calls]] BY <1>1, <2>1 DEF Wake, FleetTypeOK
  <2>3. Timed(timer)' BY <1>1, Intervals, TimerSet DEF Wake, FleetTypeOK, Timed
  <2> QED BY <1>1, <2>2, <2>3 DEF Wake, FleetTypeOK, Timed
<1>2. ASSUME Terminate(a) PROVE FleetTypeOK'
  BY <1>2 DEF Terminate, FleetTypeOK
<1>3. ASSUME Exit(a) PROVE FleetTypeOK'
  <2>1. PICK last \in [Loops -> SUBSET Bootstraps] :
          call' = [call EXCEPT ![a] =
            [l \in Loops |-> IF last[l] = {} THEN Idle ELSE [@[l] EXCEPT !.to = last[l]]]]
    BY <1>3 DEF Exit
  <2>2. Idle \in Calls BY DEF Idle, Calls, Reports
  <2>3. \A l \in Loops : [call[a][l] EXCEPT !.to = last[l]] \in Calls
    <3> SUFFICES ASSUME NEW l \in Loops
                 PROVE  [call[a][l] EXCEPT !.to = last[l]] \in Calls
      OBVIOUS
    <3>1. call[a][l] \in Calls /\ last[l] \in SUBSET Bootstraps BY DEF FleetTypeOK
    <3> QED BY <3>1 DEF Calls
  <2>4. call' \in [Addresses -> [Loops -> Calls]] BY <2>1, <2>2, <2>3 DEF FleetTypeOK
  <2>5. runtime' \in [Addresses -> Runtimes]
    BY <1>3 DEF Exit, FleetTypeOK, NewRuntime, Runtimes
  <2> QED BY <1>3, <2>4, <2>5 DEF Exit, FleetTypeOK
<1> QED BY <1>1, <1>2, <1>3

LEMMA Answered ==
  ASSUME FleetTypeOK, NEW a \in Addresses, NEW l \in Loops, NEW s \in Bootstraps,
         Deliver(a, l, s)
  PROVE  /\ listed[s] \in Registries /\ call[a][l].report \in Reports
         /\ \E new \in Answers(listed[s], a, call[a][l].report) :
              listed' = [listed EXCEPT ![s] = new]
<1>1. listed = [listed EXCEPT ![s] = listed[s]] BY DEF FleetTypeOK
<1>2. \/ listed' = [listed EXCEPT ![s] = UpdateRegistry(@, a, call[a][l].report)]
      \/ listed' = [listed EXCEPT ![s] = UpdateStatus(@, a, call[a][l].report)]
      \/ listed' = listed
  BY DEF Deliver, Register, ReportStatus
<1> QED BY <1>1, <1>2 DEF Answers, FleetTypeOK, Calls

LEMMA CallsTyped ==
  ASSUME FleetTypeOK, NEW a \in Addresses, NEW l \in Loops, NEW s \in Bootstraps
  PROVE  /\ Deliver(a, l, s) => FleetTypeOK'
         /\ Lose(a, l, s) => FleetTypeOK'
<1>1. ASSUME Deliver(a, l, s) PROVE FleetTypeOK'
  <2>1. call' \in [Addresses -> [Loops -> Calls]] BY <1>1, SentTyped DEF Deliver
  <2>2. PICK new \in Answers(listed[s], a, call[a][l].report) :
          listed' = [listed EXCEPT ![s] = new]
    BY <1>1, Answered
  <2>3. new \in Registries BY <1>1, <2>2, Answered, AnswerMade
  <2>4. listed' \in [Bootstraps -> Registries] BY <2>2, <2>3 DEF FleetTypeOK
  <2>5. copied' = copied BY <1>1 DEF Deliver, Register, ReportStatus
  <2> QED BY <1>1, <2>1, <2>4, <2>5 DEF Deliver, FleetTypeOK
<1>2. ASSUME Lose(a, l, s) PROVE FleetTypeOK'
  <2>1. call' \in [Addresses -> [Loops -> Calls]] BY <1>2, SentTyped DEF Lose
  <2>2. faults' \in Nat BY <1>2 DEF Lose, FleetTypeOK
  <2> QED BY <1>2, <2>1, <2>2 DEF Lose, FleetTypeOK
<1> QED BY <1>1, <1>2

LEMMA EvictTyped ==
  ASSUME FleetTypeOK, NEW where \in Bootstraps \cup {Node}, Evict(where)
  PROVE  FleetTypeOK'
<1>1. Timed(timer)' BY Intervals, TimerSet DEF Evict, FleetTypeOK, Timed
<1>2. RegistryTyped'
  <2>1. CASE where = Node
    BY <2>1, EvictedTyped DEF Evict, EvictAtNode, FleetTypeOK, RegistryTyped
  <2>2. CASE where # Node
    <3>1. where \in Bootstraps BY <2>2
    <3>2. EvictStaleEntries(listed[where]) \in Registries
      BY <3>1, EvictedTyped DEF FleetTypeOK
    <3> QED BY <2>2, <3>1, <3>2 DEF Evict, EvictAt, FleetTypeOK, RegistryTyped
  <2> QED BY <2>1, <2>2
<1> QED BY <1>1, <1>2 DEF Evict, FleetTypeOK, Timed, RegistryTyped

LEMMA NodeSyncTyped ==
  ASSUME FleetTypeOK, NEW reached \in SUBSET Bootstraps, NodeSync(reached)
  PROVE  FleetTypeOK'
<1>1. Timed(timer)' BY Intervals, TimerSet DEF NodeSync, FleetTypeOK, Timed
<1>2. faults' \in Nat
  <2>1. Cardinality(Bootstraps \ reached) \in Nat BY FS_Difference, FS_CardinalityType
  <2> QED BY <2>1 DEF NodeSync, FleetTypeOK
<1> DEFINE Listing(a) == {s \in reached : listed[s][a] # Absent}
<1>3. PICK first \in [Addresses -> Bootstraps] :
        /\ \A a \in Addresses : Listing(a) # {} => first[a] \in Listing(a)
        /\ copied' = [a \in Addresses |->
             IF Listing(a) = {} THEN copied[a] ELSE Merged(copied[a], listed[first[a]][a])]
  BY DEF NodeSync, SyncFrom
<1>4. ASSUME NEW a \in Addresses
      PROVE  (IF Listing(a) = {} THEN copied[a]
                                 ELSE Merged(copied[a], listed[first[a]][a]))
               \in Entries \cup {Absent}
  <2>1. copied[a] \in Entries \cup {Absent} BY DEF FleetTypeOK, Registries
  <2>2. CASE Listing(a) # {}
    <3>1. first[a] \in Bootstraps /\ listed[first[a]][a] # Absent BY <1>3, <2>2
    <3>2. listed[first[a]][a] \in Entries BY <3>1 DEF FleetTypeOK, Registries
    <3> QED BY <2>1, <2>2, <3>2, MergedTyped
  <2> QED BY <2>1, <2>2
<1> HIDE DEF Listing
<1>5. copied' \in Registries BY <1>3, <1>4 DEF Registries
<1> QED BY <1>1, <1>2, <1>5 DEF NodeSync, SyncFrom, FleetTypeOK, Timed

LEMMA CrashTyped ==
  ASSUME FleetTypeOK, NEW s \in Bootstraps, CrashServer(s)
  PROVE  FleetTypeOK'
<1>1. NothingListed \in Registries BY DEF NothingListed, Registries
<1>2. RegistryTyped'
  BY <1>1 DEF CrashServer, RestartServer, FleetTypeOK, RegistryTyped
<1> QED BY <1>2 DEF CrashServer, FleetTypeOK, RegistryTyped

LEMMA TickTyped ==
  ASSUME FleetTypeOK, Tick
  PROVE  FleetTypeOK'
<1>1. RegistryTyped' BY AgedTyped DEF Tick, AgeEntries, FleetTypeOK, RegistryTyped
<1>2. runtime' \in [Addresses -> Runtimes]
  <2>1. ASSUME NEW a \in Addresses, ~Warm(a)
        PROVE  [runtime[a] EXCEPT !.uptime = @ + 1] \in Runtimes
    <3>1. runtime[a] \in Runtimes BY DEF FleetTypeOK
    <3>2. runtime[a].uptime + 1 \in 0..WarmAfter BY <2>1, <3>1 DEF Warm, Runtimes
    <3> QED BY <3>1, <3>2 DEF Runtimes
  <2> QED BY <2>1 DEF Tick, FleetTypeOK
<1>3. Timed(timer)'
  <2>1. \A k \in Tasks : Scheduled(k) => timer[k] > 0 BY DEF Tick
  <2>2. timer' = [k \in Tasks |-> IF Scheduled(k) THEN timer[k] - 1 ELSE Interval(k)]
    BY DEF Tick
  <2>3. \A k \in Tasks : timer[k] \in Nat /\ timer[k] <= Interval(k) /\ Interval(k) \in Nat
    BY IntervalTyped DEF FleetTypeOK
  <2> QED BY <2>1, <2>2, <2>3 DEF Timed
<1> QED BY <1>1, <1>2, <1>3 DEF Tick, FleetTypeOK, RegistryTyped, Timed

LEMMA InitTyped == FleetInit => FleetTypeOK /\ ErrorsCounted
<1> SUFFICES ASSUME FleetInit PROVE FleetTypeOK /\ ErrorsCounted
  OBVIOUS
<1>1. RegistryTyped
  BY DEF FleetInit, RegistryInit, NothingListed, Registries, RegistryTyped
<1>2. runtime \in [Addresses -> Runtimes] BY DEF FleetInit, NewRuntime, Runtimes
<1>3. call \in [Addresses -> [Loops -> Calls]]
  <2>1. Idle \in Calls BY DEF Idle, Calls, Reports
  <2> QED BY <2>1 DEF FleetInit
<1>4. Timed(timer) BY IntervalTyped DEF FleetInit, Timed
<1>5. ErrorsCounted BY DEF FleetInit, NewRuntime, ErrorsCounted
<1>6. proc \in [Addresses -> {"off", "running", "stopping"}] BY DEF FleetInit
<1>7. starts \in [Addresses -> Nat] /\ faults \in Nat
  <2>1. PICK budget \in Budgets : starts = budget.starts /\ faults = budget.faults
    BY DEF FleetInit
  <2> QED BY <2>1
<1> QED BY <1>1, <1>2, <1>3, <1>4, <1>5, <1>6, <1>7 DEF FleetTypeOK, RegistryTyped, Timed

LEMMA NextTyped ==
  FleetTypeOK /\ ErrorsCounted /\ [FleetNext]_fleetVars => FleetTypeOK' /\ ErrorsCounted'
<1> SUFFICES ASSUME FleetTypeOK, ErrorsCounted, [FleetNext]_fleetVars
             PROVE  FleetTypeOK' /\ ErrorsCounted'
  OBVIOUS
<1>1. ASSUME Tick PROVE FleetTypeOK' /\ ErrorsCounted'
  <2>1. ErrorsCounted' 
    BY <1>1 DEF Tick, ErrorsCounted, FleetTypeOK, Runtimes
  <2> QED BY <1>1, <2>1, TickTyped
<1>2. ASSUME NEW a \in Addresses, NEW l \in Loops,
             \/ Wake(a, l)
             \/ \E s \in Bootstraps : Deliver(a, l, s) \/ Lose(a, l, s)
      PROVE  FleetTypeOK' /\ ErrorsCounted'
  <2>1. FleetTypeOK' BY <1>2, ProcessTyped, CallsTyped
  <2>2. runtime' = runtime BY <1>2 DEF Wake, Deliver, Lose
  <2> QED BY <2>1, <2>2 DEF ErrorsCounted
<1>3. ASSUME NEW where \in Bootstraps \cup {Node}, Evict(where)
      PROVE  FleetTypeOK' /\ ErrorsCounted'
  BY <1>3, EvictTyped DEF Evict, ErrorsCounted
<1>4. ASSUME NEW reached \in SUBSET Bootstraps, NodeSync(reached)
      PROVE  FleetTypeOK' /\ ErrorsCounted'
  BY <1>4, NodeSyncTyped DEF NodeSync, ErrorsCounted
<1>5. ASSUME NEW a \in Addresses, Start(a) \/ Terminate(a) \/ Exit(a)
      PROVE  FleetTypeOK' /\ ErrorsCounted'
  <2>1. FleetTypeOK' BY <1>5, StartTyped, ProcessTyped
  <2>2. runtime' \in {runtime, [runtime EXCEPT ![a] = NewRuntime]}
    BY <1>5 DEF Start, Terminate, Exit
  <2>3. NewRuntime.errors <= NewRuntime.requests BY DEF NewRuntime
  <2>4. runtime \in [Addresses -> Runtimes] BY DEF FleetTypeOK
  <2>5. ErrorsCounted' BY <2>2, <2>3, <2>4 DEF ErrorsCounted
  <2> QED BY <2>1, <2>5
<1>6. ASSUME NEW a \in Addresses, Execute(a) PROVE FleetTypeOK' /\ ErrorsCounted'
  BY <1>6, ExecuteTyped
<1>7. ASSUME NEW s \in Bootstraps, CrashServer(s) PROVE FleetTypeOK' /\ ErrorsCounted'
  BY <1>7, CrashTyped DEF CrashServer, ErrorsCounted
<1>8. CASE UNCHANGED fleetVars
  BY <1>8 DEF fleetVars, FleetTypeOK, ErrorsCounted
<1> QED BY <1>1, <1>2, <1>3, <1>4, <1>5, <1>6, <1>7, <1>8 DEF FleetNext, Scheduling

(* Entries, processes, runtimes, calls and timers keep their types, and no *)
(* timer exceeds its interval.                                             *)
THEOREM FleetTyped == FleetSpec => []FleetTypeOK
  BY InitTyped, NextTyped, PTL DEF FleetSpec

-----------------------------------------------------------------------------
(* A marked entry has been silent for a quarantine TTL and as long as it   *)
(* is marked, or it was renewed after the last eviction, and the next one  *)
(* comes before it can be stale again and takes the mark off.              *)
Silent(e, left) ==
  \/ e.marked = Unmarked
  \/ e.age = MaxAge \/ e.age >= QuarantineTTL + e.marked
  \/ e.age + left <= EvictInterval

AllSilent ==
  \A s \in Bootstraps, a \in Addresses :
    listed[s][a] # Absent => Silent(listed[s][a], timer[<<"evict", s>>])

LEMMA EntryFields ==
  ASSUME NEW e \in Entries
  PROVE  /\ e.age \in 0..MaxAge /\ e.marked \in 0..Unmarked
         /\ DOMAIN e = {"age", "health", "marked", "reliable", "warm"}
BY DEF Entries

(* A tick makes the entry older and brings the eviction closer.            *)
LEMMA AgedSilent ==
  ASSUME NEW e \in Entries, NEW left \in Nat, left > 0, Silent(e, left)
  PROVE  Silent([e EXCEPT !.age = Older(@),
                          !.marked = IF @ = Unmarked THEN @ ELSE Older(@)], left - 1)
<1> DEFINE older == [e EXCEPT !.age = Older(@),
                              !.marked = IF @ = Unmarked THEN @ ELSE Older(@)]
<1>1. /\ MaxAge \in Nat /\ MaxAge = QuarantineTTL + RemovalTTL /\ Unmarked = MaxAge + 1
      /\ e.age \in 0..MaxAge /\ e.marked \in 0..Unmarked
      /\ EvictInterval \in Nat
  BY Ages, EntryFields, EvictionsOften
<1>2. older.age = IF e.age + 1 <= MaxAge THEN e.age + 1 ELSE MaxAge
  BY <1>1, Ages, EntryFields
<1>3. e.marked = Unmarked => older.marked = Unmarked BY EntryFields
<1>4. e.marked # Unmarked =>
        older.marked = IF e.marked + 1 <= MaxAge THEN e.marked + 1 ELSE MaxAge
  BY <1>1, Ages, EntryFields
<1> HIDE DEF older
<1>5. Silent(older, left - 1)
  BY <1>1, <1>2, <1>3, <1>4 DEF Silent
<1> QED BY <1>5 DEF older

(* An eviction takes the mark off a fresh entry, and a stale one was heard *)
(* of before the last eviction.                                            *)
LEMMA EvictedSilent ==
  ASSUME QuarantineTTL > 1, NEW e \in Entries, NEW left \in Nat, Silent(e, left)
  PROVE  /\ Evicted(e) = Absent => e.age >= QuarantineTTL + RemovalTTL
         /\ Evicted(e) # Absent => Silent(Evicted(e), EvictInterval)
<1>1. /\ MaxAge \in Nat /\ MaxAge = QuarantineTTL + RemovalTTL /\ Unmarked = MaxAge + 1
      /\ e.age \in 0..MaxAge /\ e.marked \in 0..Unmarked
      /\ EvictInterval \in Nat /\ EvictInterval < QuarantineTTL
  BY Ages, EntryFields, EvictionsOften
<1>2. CASE e.age < QuarantineTTL
  <2>1. Evicted(e) = [e EXCEPT !.marked = Unmarked] BY <1>2 DEF Evicted
  <2>2. Evicted(e).marked = Unmarked BY <2>1, EntryFields
  <2>3. [e EXCEPT !.marked = Unmarked] \in Entries BY <1>1 DEF Entries
  <2> QED BY <2>1, <2>2, <2>3 DEF Silent
<1>3. CASE ~(e.age < QuarantineTTL)
  <2> DEFINE mark == IF e.marked = Unmarked THEN 0 ELSE e.marked
  <2>1. mark \in Nat /\ (e.age = MaxAge \/ e.age >= QuarantineTTL + mark)
    BY <1>1, <1>3 DEF Silent
  <2>2. Evicted(e) = IF mark >= RemovalTTL THEN Absent
                     ELSE [e EXCEPT !.marked = mark, !.health = "quarantine"]
    BY <1>3 DEF Evicted
  <2> HIDE DEF mark
  <2>3. CASE mark >= RemovalTTL
    <3>1. e.age >= QuarantineTTL + RemovalTTL BY <1>1, <2>1, <2>3
    <3> QED BY <2>2, <2>3, <3>1
  <2>4. CASE ~(mark >= RemovalTTL)
    <3> DEFINE kept == [e EXCEPT !.marked = mark, !.health = "quarantine"]
    <3>1. kept.marked = mark /\ kept.age = e.age BY EntryFields
    <3>2. mark \in 0..Unmarked BY <1>1, <2>1, <2>4
    <3>3. kept \in Entries BY <3>2 DEF Entries, HealthStates
    <3>4. Evicted(e) = kept BY <2>2, <2>4
    <3> HIDE DEF kept
    <3>5. Silent(kept, EvictInterval) BY <2>1, <3>1 DEF Silent
    <3> QED BY <3>3, <3>4, <3>5
  <2> QED BY <2>3, <2>4
<1> QED BY <1>2, <1>3

(* A registration or a status report makes an entry fresh, unless it is    *)
(* refused.                                                                *)
LEMMA RenewedSilent ==
  ASSUME NEW reg \in Registries, NEW a \in Addresses, NEW report \in Reports,
         NEW left \in Nat, left <= EvictInterval, reg[a] # Absent => Silent(reg[a], left),
         NEW new \in Answers(reg, a, report), new[a] # Absent
  PROVE  Silent(new[a], left)
<1>1. new[a] = reg[a] \/ new[a].age = 0 BY AnswerMade
<1>2. EvictInterval \in Nat BY EvictionsOften
<1> QED BY <1>1, <1>2 DEF Silent

(* A step that leaves the registries and their evictions alone.            *)
EvictionsSame ==
  listed' = listed /\ \A s \in Bootstraps : timer'[<<"evict", s>>] = timer[<<"evict", s>>]

LEMMA SameSilent == AllSilent /\ EvictionsSame => AllSilent'
  BY DEF AllSilent, EvictionsSame

LEMMA TimersApart ==
  ASSUME FleetTypeOK, NEW k \in (Loops \X Addresses) \cup {<<"sync", Node>>}, NEW n,
         NEW s \in Bootstraps
  PROVE  [timer EXCEPT ![k] = n][<<"evict", s>>] = timer[<<"evict", s>>]
<1>1. k # <<"evict", s>> BY DEF Loops
<1> QED BY <1>1, Intervals DEF FleetTypeOK

LEMMA QuietSteps ==
  ASSUME FleetTypeOK, NEW a \in Addresses
  PROVE  /\ Start(a) \/ Execute(a) \/ Terminate(a) \/ Exit(a) => EvictionsSame
         /\ \A l \in Loops : Wake(a, l) => EvictionsSame
         /\ \A l \in Loops, s \in Bootstraps : Lose(a, l, s) => EvictionsSame
<1>1. ASSUME Start(a) PROVE EvictionsSame
  <2>1. \A s \in Bootstraps : <<"sync", a>> # <<"evict", s>> /\ <<"status", a>> # <<"evict", s>>
    OBVIOUS
  <2>2. /\ listed' = listed
        /\ timer' = [timer EXCEPT ![<<"sync", a>>] = SyncInterval,
                                  ![<<"status", a>>] = StatusInterval]
    BY <1>1 DEF Start
  <2> QED BY <2>1, <2>2, Intervals DEF EvictionsSame, FleetTypeOK
<1>2. ASSUME Execute(a) \/ Terminate(a) \/ Exit(a) PROVE EvictionsSame
  BY <1>2 DEF Execute, Terminate, Exit, EvictionsSame
<1>3. ASSUME NEW l \in Loops, Wake(a, l) PROVE EvictionsSame
  <2>1. /\ listed' = listed
        /\ timer' = [timer EXCEPT ![<<l, a>>] = Interval(<<l, a>>)]
    BY <1>3 DEF Wake
  <2>2. \A s \in Bootstraps : <<l, a>> # <<"evict", s>> BY DEF Loops
  <2>3. \A s \in Bootstraps : timer'[<<"evict", s>>] = timer[<<"evict", s>>]
    BY <2>1, <2>2, Intervals DEF FleetTypeOK
  <2> QED BY <2>1, <2>3 DEF EvictionsSame
<1>4. ASSUME NEW l \in Loops, NEW s \in Bootstraps, Lose(a, l, s) PROVE EvictionsSame
  BY <1>4 DEF Lose, EvictionsSame
<1> QED BY <1>1, <1>2, <1>3, <1>4

LEMMA NextSilent ==
  ASSUME QuarantineTTL > 1, FleetTypeOK, AllSilent, [FleetNext]_fleetVars
  PROVE  AllSilent'
<1>1. ASSUME Tick PROVE AllSilent'
  <2> SUFFICES ASSUME NEW s \in Bootstraps, NEW a \in Addresses, listed'[s][a] # Absent
               PROVE  Silent(listed'[s][a], timer'[<<"evict", s>>])
    BY DEF AllSilent
  <2> DEFINE e == listed[s][a]
             left == timer[<<"evict", s>>]
             older == [e EXCEPT !.age = Older(@),
                                !.marked = IF @ = Unmarked THEN @ ELSE Older(@)]
  <2>1. <<"evict", s>> \in Tasks /\ Scheduled(<<"evict", s>>)
    BY Intervals DEF Scheduled, Loops
  <2>2. left \in Nat /\ left > 0 /\ timer'[<<"evict", s>>] = left - 1
    BY <1>1, <2>1 DEF Tick, FleetTypeOK
  <2>3. e # Absent /\ listed'[s][a] = older
    BY <1>1 DEF Tick, AgeEntries, Aged
  <2>4. e \in Entries BY <2>3 DEF FleetTypeOK, Registries
  <2>5. Silent(e, left) BY <2>3 DEF AllSilent
  <2>6. Silent(older, left - 1) BY <2>2, <2>4, <2>5, AgedSilent
  <2> QED BY <2>2, <2>3, <2>6
<1>2. ASSUME NEW a \in Addresses, NEW l \in Loops, NEW s \in Bootstraps, Deliver(a, l, s)
      PROVE  AllSilent'
  <2>1. call[a][l].report \in Reports /\ listed[s] \in Registries
    BY DEF FleetTypeOK, Calls
  <2>2. PICK new \in Answers(listed[s], a, call[a][l].report) :
          listed' = [listed EXCEPT ![s] = new]
    BY <1>2, Answered
  <2>3. timer' = timer BY <1>2 DEF Deliver
  <2>4. timer[<<"evict", s>>] \in Nat /\ timer[<<"evict", s>>] <= EvictInterval
    BY Intervals DEF FleetTypeOK
  <2>5. /\ \A b \in Addresses \ {a} : new[b] = listed[s][b]
        /\ new[a] # Absent => Silent(new[a], timer[<<"evict", s>>])
    BY <2>1, <2>2, <2>4, AnswerMade, RenewedSilent DEF AllSilent
  <2>6. listed'[s] = new /\ \A q \in Bootstraps \ {s} : listed'[q] = listed[q]
    BY <2>2 DEF FleetTypeOK
  <2> QED BY <2>3, <2>5, <2>6 DEF AllSilent
<1>3. ASSUME NEW where \in Bootstraps \cup {Node}, Evict(where) PROVE AllSilent'
  <2>1. timer' = [timer EXCEPT ![<<"evict", where>>] = EvictInterval] BY <1>3 DEF Evict
  <2>2. \A s \in Bootstraps : s # where => timer'[<<"evict", s>>] = timer[<<"evict", s>>]
    BY <2>1, Intervals DEF FleetTypeOK
  <2>3. CASE where = Node
    <3>1. listed' = listed BY <1>3, <2>3 DEF Evict, EvictAtNode
    <3> QED BY <2>2, <2>3, <3>1, SameSilent DEF EvictionsSame
  <2>4. CASE where # Node
    <3>1. where \in Bootstraps BY <2>4
    <3>2. timer'[<<"evict", where>>] = EvictInterval
      BY <2>1, <3>1, Intervals DEF FleetTypeOK
    <3>3. /\ listed'[where] = EvictStaleEntries(listed[where])
          /\ \A q \in Bootstraps \ {where} : listed'[q] = listed[q]
      BY <1>3, <2>4, <3>1 DEF Evict, EvictAt, FleetTypeOK
    <3>4. ASSUME NEW a \in Addresses, listed'[where][a] # Absent
          PROVE  Silent(listed'[where][a], EvictInterval)
      <4>1. listed[where][a] # Absent /\ listed'[where][a] = Evicted(listed[where][a])
        BY <3>3, <3>4 DEF EvictStaleEntries
      <4>2. listed[where][a] \in Entries BY <3>1, <4>1 DEF FleetTypeOK, Registries
      <4>3. Silent(listed[where][a], timer[<<"evict", where>>])
        BY <3>1, <4>1 DEF AllSilent
      <4>4. timer[<<"evict", where>>] \in Nat BY <3>1, Intervals DEF FleetTypeOK
      <4> QED BY <3>4, <4>1, <4>2, <4>3, <4>4, EvictedSilent
    <3> QED BY <2>2, <3>2, <3>3, <3>4 DEF AllSilent
  <2> QED BY <2>3, <2>4
<1>4. ASSUME NEW reached \in SUBSET Bootstraps, NodeSync(reached) PROVE AllSilent'
  <2>1. EvictionsSame
    BY <1>4, TimersApart DEF NodeSync, SyncFrom, EvictionsSame
  <2> QED BY <2>1, SameSilent
<1>5. ASSUME NEW a \in Addresses,
             \/ Start(a) \/ Execute(a) \/ Terminate(a) \/ Exit(a)
             \/ \E l \in Loops : Wake(a, l) \/ \E s \in Bootstraps : Lose(a, l, s)
      PROVE  AllSilent'
  BY <1>5, QuietSteps, SameSilent
<1>6. ASSUME NEW s \in Bootstraps, CrashServer(s) PROVE AllSilent'
  BY <1>6 DEF CrashServer, RestartServer, NothingListed, AllSilent, FleetTypeOK
<1>7. CASE UNCHANGED fleetVars
  BY <1>7, SameSilent DEF fleetVars, EvictionsSame
<1> QED BY <1>1, <1>2, <1>3, <1>4, <1>5, <1>6, <1>7 DEF FleetNext, Scheduling

(* With a quarantine TTL of more than a tick a bootstrap server removes no *)
(* agent it has heard of within the two TTLs, whatever calls are late,     *)
(* lost or repeated and whatever restarts.  (With a TTL of one tick the    *)
(* eviction runs only as often as an entry goes stale, and one that was    *)
(* renewed in between is removed for its old mark.)                        *)
THEOREM RemovalTheorem ==
  ASSUME QuarantineTTL > 1 PROVE FleetSpec => RemovedOnlyWhenSilent
<1> DEFINE Removes == \A s \in Bootstraps, a \in Addresses :
             EvictAt(s) /\ listed[s][a] # Absent /\ listed'[s][a] = Absent
               => listed[s][a].age >= QuarantineTTL + RemovalTTL
           IInv == FleetTypeOK /\ ErrorsCounted /\ AllSilent
<1>1. FleetInit => IInv
  <2>1. FleetInit => AllSilent
    BY DEF FleetInit, RegistryInit, NothingListed, AllSilent
  <2> QED BY <2>1, InitTyped
<1>2. IInv /\ [FleetNext]_fleetVars => IInv'
  BY NextTyped, NextSilent
<1>3. IInv => [Removes]_fleetVars
  <2> SUFFICES ASSUME FleetTypeOK, AllSilent, NEW s \in Bootstraps, NEW a \in Addresses,
                      EvictAt(s), listed[s][a] # Absent, listed'[s][a] = Absent
               PROVE  listed[s][a].age >= QuarantineTTL + RemovalTTL
    OBVIOUS
  <2>1. listed'[s][a] = Evicted(listed[s][a])
    BY DEF EvictAt, EvictStaleEntries, FleetTypeOK
  <2>2. listed[s][a] \in Entries BY DEF FleetTypeOK, Registries
  <2>3. timer[<<"evict", s>>] \in Nat BY Intervals DEF FleetTypeOK
  <2> QED BY <2>1, <2>2, <2>3, EvictedSilent DEF AllSilent
<1> QED BY <1>1, <1>2, <1>3, PTL DEF FleetSpec, RemovedOnlyWhenSilent

-----------------------------------------------------------------------------
(* How an agent is forgotten.  A registry that hears nothing of an agent   *)
(* any more drops it within the two TTLs and two evictions more.           *)
At(where) == IF where = Node THEN copied ELSE listed[where]
Left(where) == timer[<<"evict", where>>]

(* An entry that the next eviction will leave marked.                      *)
Condemned(e, left) == e.marked # Unmarked /\ e.age + left >= QuarantineTTL

(* The ticks until an entry that is not renewed is gone at the latest.     *)
Due(e, left) ==
  IF Condemned(e, left) THEN RemovalTTL + EvictInterval - 1 - e.marked
  ELSE QuarantineTTL + EvictInterval - 1 - e.age + RemovalTTL + EvictInterval

InTime(e, left) ==
  /\ e.marked = Unmarked => e.age + left <= QuarantineTTL + EvictInterval - 1
  /\ Condemned(e, left) => e.marked + left <= RemovalTTL + EvictInterval - 1

Longest == QuarantineTTL + RemovalTTL + 2 * EvictInterval - 1

(* Word of the agent that is on its way to the registry, or was before the *)
(* node looked.                                                            *)
Spoken(where, a) ==
  IF where = Node THEN \E s \in Bootstraps : listed[s][a] # Absent
  ELSE \E l \in Loops : where \in call[a][l].to

AllInTime ==
  \A where \in Bootstraps \cup {Node}, a \in Addresses :
    At(where)[a] # Absent => InTime(At(where)[a], Left(where))

Fading ==
  \A where \in Bootstraps \cup {Node}, a \in Addresses :
    ~Spoken(where, a) =>
      /\ At(where)[a] = Absent => At(where)'[a] = Absent
      /\ At(where)'[a] # Absent =>
           /\ Due(At(where)[a], Left(where)) \in 0..Longest
           /\ Due(At(where)'[a], Left(where)') <= Due(At(where)[a], Left(where))
           /\ Tick => Due(At(where)'[a], Left(where)') < Due(At(where)[a], Left(where))

(* An agent that no longer runs and has nothing to send any more.          *)
Silenced(a) ==
  /\ proc[a] # "running" /\ call[a] = [l \in Loops |-> Idle]
  /\ proc[a] = "stopping" => \A l \in Loops : timer[<<l, a>>] > 0

FallsSilent ==
  \A a \in Addresses : (Silenced(a) \/ Tick) /\ proc'[a] # "running" => Silenced(a)'

LEMMA EvictBounds ==
  /\ EvictInterval \in Nat \ {0}
  /\ EvictInterval <= QuarantineTTL /\ EvictInterval <= RemovalTTL
<1> DEFINE least == Min({QuarantineTTL, RemovalTTL})
<1>1. least \in Nat /\ least <= QuarantineTTL /\ least <= RemovalTTL BY MinOfTwo
<1> HIDE DEF least
<1>2. least \div 2 \in Nat /\ 2 * (least \div 2) <= least BY <1>1
<1>3. EvictInterval = IF least \div 2 >= 1 THEN least \div 2 ELSE 1
  BY <1>2, MaxOfTwo DEF EvictInterval, least
<1> QED BY <1>1, <1>2, <1>3

LEMMA Numbers ==
  ASSUME QuarantineTTL > 1, NEW e \in Entries
  PROVE  /\ MaxAge = QuarantineTTL + RemovalTTL /\ Unmarked = MaxAge + 1
         /\ e.age \in 0..MaxAge /\ e.marked \in 0..Unmarked
         /\ EvictInterval \in Nat \ {0} /\ EvictInterval < QuarantineTTL
         /\ EvictInterval <= RemovalTTL
BY Ages, EntryFields, EvictionsOften, EvictBounds

LEMMA DueRange ==
  ASSUME QuarantineTTL > 1, NEW e \in Entries, NEW left \in Nat, InTime(e, left)
  PROVE  Due(e, left) \in 0..Longest
<1>1. CASE Condemned(e, left)
  BY <1>1, Numbers DEF InTime, Due, Longest
<1>2. CASE ~Condemned(e, left)
  <2>1. e.age <= QuarantineTTL + EvictInterval - 1
    BY <1>2, Numbers DEF InTime, Condemned
  <2> QED BY <1>2, <2>1, Numbers DEF Due, Longest
<1> QED BY <1>1, <1>2

(* A tick.                                                                 *)
LEMMA AgedInTime ==
  ASSUME QuarantineTTL > 1, NEW e \in Entries, NEW left \in Nat, left > 0, InTime(e, left),
         NEW older, older = [e EXCEPT !.age = Older(@),
                                      !.marked = IF @ = Unmarked THEN @ ELSE Older(@)]
  PROVE  InTime(older, left - 1) /\ Due(older, left - 1) < Due(e, left)
<1>1. older.age = IF e.age + 1 <= MaxAge THEN e.age + 1 ELSE MaxAge
  BY Numbers, Ages, EntryFields
<1>2. e.marked = Unmarked => older.marked = Unmarked BY EntryFields
<1>3. e.marked # Unmarked =>
        older.marked = IF e.marked + 1 <= MaxAge THEN e.marked + 1 ELSE MaxAge
  BY Numbers, Ages, EntryFields
<1>4. CASE Condemned(e, left)
  <2>1. e.marked + 1 <= MaxAge /\ older.marked = e.marked + 1
    BY <1>3, <1>4, Numbers DEF InTime, Condemned
  <2>2. Condemned(older, left - 1) BY <1>1, <1>4, <2>1, Numbers DEF Condemned
  <2> QED BY <1>4, <2>1, <2>2, Numbers DEF InTime, Condemned, Due
<1>5. CASE ~Condemned(e, left)
  <2>1. e.age + 1 <= MaxAge /\ older.age = e.age + 1
    BY <1>1, <1>5, Numbers DEF InTime, Condemned
  <2>2. e.marked = Unmarked <=> older.marked = Unmarked BY <1>2, <1>3, Numbers
  <2>3. ~Condemned(older, left - 1) BY <1>5, <2>1, <2>2, Numbers DEF Condemned
  <2> QED BY <1>5, <2>1, <2>2, <2>3, Numbers DEF InTime, Due
<1> QED BY <1>4, <1>5

(* An eviction.                                                            *)
LEMMA EvictedInTime ==
  ASSUME QuarantineTTL > 1, NEW e \in Entries, InTime(e, 0), Evicted(e) # Absent
  PROVE  /\ InTime(Evicted(e), EvictInterval)
         /\ Due(Evicted(e), EvictInterval) <= Due(e, 0)
<1>1. CASE e.age < QuarantineTTL
  <2>1. Evicted(e) = [e EXCEPT !.marked = Unmarked] BY <1>1 DEF Evicted
  <2>2. Evicted(e).marked = Unmarked /\ Evicted(e).age = e.age BY <2>1, EntryFields
  <2> QED BY <1>1, <2>2, Numbers DEF InTime, Condemned, Due
<1>2. CASE ~(e.age < QuarantineTTL)
  <2> DEFINE mark == IF e.marked = Unmarked THEN 0 ELSE e.marked
  <2>1. Evicted(e) = [e EXCEPT !.marked = mark, !.health = "quarantine"] /\ mark < RemovalTTL
    <3>1. mark \in Nat BY Numbers
    <3>2. ~(mark >= RemovalTTL) BY <1>2 DEF Evicted
    <3>3. Evicted(e) = [e EXCEPT !.marked = mark, !.health = "quarantine"]
      BY <1>2, <3>2 DEF Evicted
    <3> QED BY <3>1, <3>2, <3>3
  <2>2. Evicted(e).marked = mark /\ Evicted(e).age = e.age BY <2>1, EntryFields
  <2>3. Condemned(Evicted(e), EvictInterval)
    BY <1>2, <2>1, <2>2, Numbers DEF Condemned
  <2> QED BY <1>2, <2>1, <2>2, <2>3, Numbers DEF InTime, Condemned, Due
<1> QED BY <1>1, <1>2

(* Word of the agent.                                                      *)
LEMMA FreshInTime ==
  ASSUME QuarantineTTL > 1, NEW e \in Entries, e.age = 0,
         NEW left \in Nat, left <= EvictInterval
  PROVE  InTime(e, left)
BY Numbers DEF InTime, Condemned

(* What a step does to the entry of agent a in one registry.               *)
Passes(where, a) ==
  \/ At(where)'[a] = At(where)[a] /\ Left(where)' = Left(where)
  \/ /\ Left(where)' = Left(where) - 1
     /\ At(where)'[a] = Aged(At(where))[a]
  \/ /\ Left(where) = 0 /\ Left(where)' = EvictInterval
     /\ At(where)'[a] = EvictStaleEntries(At(where))[a]
  \/ /\ Left(where)' = Left(where)
     /\ \/ At(where)'[a] = Absent
        \/ Spoken(where, a) /\ At(where)'[a].age = 0

LEMMA TickMoves ==
  ASSUME FleetTypeOK, Tick, NEW where \in Bootstraps \cup {Node}
  PROVE  Left(where) > 0 /\ Left(where)' = Left(where) - 1
<1>1. <<"evict", where>> \in Tasks /\ Scheduled(<<"evict", where>>)
  BY Intervals DEF Scheduled, Loops
<1> QED BY <1>1 DEF Tick, FleetTypeOK, Left

LEMMA AgentSteps ==
  ASSUME FleetTypeOK, NEW where \in Bootstraps \cup {Node}, NEW b \in Addresses
  PROVE  /\ Start(b) \/ Execute(b) \/ Terminate(b) \/ Exit(b) =>
              UNCHANGED registryVars /\ Left(where)' = Left(where)
         /\ \A l \in Loops : Wake(b, l) => UNCHANGED registryVars /\ Left(where)' = Left(where)
         /\ \A l \in Loops, s \in Bootstraps :
              Lose(b, l, s) => UNCHANGED registryVars /\ Left(where)' = Left(where)
<1>1. ASSUME Start(b) PROVE UNCHANGED registryVars /\ Left(where)' = Left(where)
  <2>1. <<"sync", b>> # <<"evict", where>> /\ <<"status", b>> # <<"evict", where>>
    OBVIOUS
  <2>2. timer' = [timer EXCEPT ![<<"sync", b>>] = SyncInterval,
                               ![<<"status", b>>] = StatusInterval]
    BY <1>1 DEF Start
  <2> QED BY <1>1, <2>1, <2>2, Intervals DEF FleetTypeOK, Left, Start
<1>2. ASSUME Execute(b) \/ Terminate(b) \/ Exit(b)
      PROVE  UNCHANGED registryVars /\ Left(where)' = Left(where)
  BY <1>2 DEF Execute, Terminate, Exit, Left
<1>3. ASSUME NEW l \in Loops, Wake(b, l)
      PROVE  UNCHANGED registryVars /\ Left(where)' = Left(where)
  <2>1. <<l, b>> # <<"evict", where>> BY DEF Loops
  <2> QED BY <1>3, <2>1, Intervals DEF Wake, FleetTypeOK, Left
<1>4. ASSUME NEW l \in Loops, NEW s \in Bootstraps, Lose(b, l, s)
      PROVE  UNCHANGED registryVars /\ Left(where)' = Left(where)
  BY <1>4 DEF Lose, Left
<1> QED BY <1>1, <1>2, <1>3, <1>4

LEMMA DeliverPasses ==
  ASSUME FleetTypeOK, NEW where \in Bootstraps \cup {Node}, NEW a \in Addresses,
         NEW b \in Addresses, NEW l \in Loops, NEW s \in Bootstraps, Deliver(b, l, s)
  PROVE  Passes(where, a)
<1>1. Left(where)' = Left(where) /\ copied' = copied
  BY DEF Deliver, Register, ReportStatus, Left
<1>2. CASE where = Node BY <1>1, <1>2 DEF At, Passes
<1>3. CASE where # Node
  <2>1. where \in Bootstraps /\ listed[s] \in Registries /\ call[b][l].report \in Reports
    BY <1>3 DEF FleetTypeOK, Calls
  <2>2. PICK new \in Answers(listed[s], b, call[b][l].report) :
          listed' = [listed EXCEPT ![s] = new]
    BY Answered
  <2>3. /\ \A c \in Addresses \ {b} : new[c] = listed[s][c]
        /\ new[b] = listed[s][b] \/ new[b].age = 0
    BY <2>1, <2>2, AnswerMade
  <2>4. CASE where # s \/ a # b \/ new[b] = listed[s][b]
    <3>1. listed'[where][a] = listed[where][a] BY <2>1, <2>2, <2>3, <2>4 DEF FleetTypeOK
    <3> QED BY <1>1, <1>3, <3>1 DEF At, Passes
  <2>5. CASE where = s /\ a = b /\ new[b].age = 0
    <3>1. Spoken(where, a) BY <1>3, <2>5 DEF Deliver, Spoken
    <3>2. listed'[s] = new BY <2>2 DEF FleetTypeOK
    <3> QED BY <1>1, <1>3, <2>5, <3>1, <3>2 DEF At, Passes
  <2> QED BY <2>3, <2>4, <2>5
<1> QED BY <1>2, <1>3

LEMMA SyncPasses ==
  ASSUME FleetTypeOK, NEW where \in Bootstraps \cup {Node}, NEW a \in Addresses,
         NEW reached \in SUBSET Bootstraps, NodeSync(reached)
  PROVE  Passes(where, a)
<1>1. Left(where)' = Left(where)
  <2>1. <<"sync", Node>> # <<"evict", where>> OBVIOUS
  <2> QED BY <2>1, Intervals DEF NodeSync, FleetTypeOK, Left
<1>2. CASE where # Node BY <1>1, <1>2 DEF NodeSync, SyncFrom, At, Passes
<1>3. CASE where = Node
  <2> DEFINE Listing(c) == {s \in reached : listed[s][c] # Absent}
  <2>1. PICK first \in [Addresses -> Bootstraps] :
          /\ \A c \in Addresses : Listing(c) # {} => first[c] \in Listing(c)
          /\ copied' = [c \in Addresses |->
               IF Listing(c) = {} THEN copied[c] ELSE Merged(copied[c], listed[first[c]][c])]
    BY DEF NodeSync, SyncFrom
  <2>2. CASE Listing(a) = {}
    <3>1. copied'[a] = copied[a] BY <2>1, <2>2
    <3> QED BY <1>1, <1>3, <3>1 DEF At, Passes
  <2>3. CASE Listing(a) # {}
    <3>1. /\ first[a] \in Bootstraps /\ listed[first[a]][a] # Absent
          /\ copied'[a] = Merged(copied[a], listed[first[a]][a])
      BY <2>1, <2>3
    <3>2. Spoken(where, a) BY <1>3, <3>1 DEF Spoken
    <3>3. listed[first[a]][a] \in Entries /\ copied[a] \in Entries \cup {Absent}
      BY <3>1 DEF FleetTypeOK, Registries
    <3>4. Merged(copied[a], listed[first[a]][a]).age = 0
      BY <3>3, EntryFields DEF Merged
    <3> QED BY <1>1, <1>3, <3>1, <3>2, <3>4 DEF At, Passes
  <2> QED BY <2>2, <2>3
<1> QED BY <1>2, <1>3

LEMMA EvictPasses ==
  ASSUME FleetTypeOK, NEW where \in Bootstraps \cup {Node}, NEW a \in Addresses,
         NEW there \in Bootstraps \cup {Node}, Evict(there)
  PROVE  Passes(where, a)
<1>1. timer' = [timer EXCEPT ![<<"evict", there>>] = EvictInterval] /\ timer \in [Tasks -> Nat]
  BY DEF Evict, FleetTypeOK
<1>2. CASE where # there
  <2>1. Left(where)' = Left(where) BY <1>1, <1>2, Intervals DEF Left
  <2>2. At(where)' = At(where)
    BY <1>2 DEF Evict, EvictAt, EvictAtNode, At, FleetTypeOK
  <2> QED BY <2>1, <2>2 DEF Passes
<1>3. CASE where = there
  <2>1. Left(where) = 0 /\ Left(where)' = EvictInterval
    BY <1>1, <1>3, Intervals DEF Left, Evict
  <2>2. At(where)' = EvictStaleEntries(At(where))
    BY <1>3 DEF Evict, EvictAt, EvictAtNode, At, FleetTypeOK
  <2> QED BY <2>1, <2>2 DEF Passes
<1> QED BY <1>2, <1>3

LEMMA NextPasses ==
  ASSUME FleetTypeOK, [FleetNext]_fleetVars,
         NEW where \in Bootstraps \cup {Node}, NEW a \in Addresses
  PROVE  Passes(where, a)
<1>1. ASSUME Tick PROVE Passes(where, a)
  <2>1. Left(where)' = Left(where) - 1 BY <1>1, TickMoves
  <2>2. At(where)' = Aged(At(where)) BY <1>1 DEF Tick, AgeEntries, At
  <2> QED BY <2>1, <2>2 DEF Passes
<1>2. ASSUME NEW s \in Bootstraps, CrashServer(s) PROVE Passes(where, a)
  <2>1. /\ timer' = timer /\ copied' = copied
        /\ listed' = [listed EXCEPT ![s] = NothingListed]
    BY <1>2 DEF CrashServer, RestartServer
  <2>2. CASE where = s BY <2>1, <2>2 DEF NothingListed, At, Left, Passes, FleetTypeOK
  <2>3. CASE where # s BY <2>1, <2>3 DEF At, Left, Passes, FleetTypeOK
  <2> QED BY <2>2, <2>3
<1>3. ASSUME NEW b \in Addresses,
             \/ Start(b) \/ Execute(b) \/ Terminate(b) \/ Exit(b)
             \/ \E l \in Loops : Wake(b, l) \/ \E s \in Bootstraps : Lose(b, l, s)
      PROVE  Passes(where, a)
  BY <1>3, AgentSteps DEF Passes, At
<1>4. CASE UNCHANGED fleetVars BY <1>4 DEF fleetVars, Passes, At, Left
<1> QED
  BY <1>1, <1>2, <1>3, <1>4, DeliverPasses, SyncPasses, EvictPasses DEF FleetNext, Scheduling

(* One entry, from one state to the next.                                  *)
LEMMA EntryFades ==
  ASSUME QuarantineTTL > 1, FleetTypeOK, FleetTypeOK', AllInTime, [FleetNext]_fleetVars,
         NEW where \in Bootstraps \cup {Node}, NEW a \in Addresses, At(where)'[a] # Absent
  PROVE  /\ InTime(At(where)'[a], Left(where)')
         /\ ~Spoken(where, a) =>
              /\ At(where)[a] # Absent
              /\ Due(At(where)[a], Left(where)) \in 0..Longest
              /\ Due(At(where)'[a], Left(where)') <= Due(At(where)[a], Left(where))
              /\ Tick => Due(At(where)'[a], Left(where)') < Due(At(where)[a], Left(where))
<1> DEFINE e == At(where)[a]
           new == At(where)'[a]
<1>1. /\ Left(where) \in Nat /\ Left(where) <= EvictInterval
      /\ Left(where)' \in Nat /\ Left(where)' <= EvictInterval
  BY Intervals DEF FleetTypeOK, Left
<1>2. e \in Entries \cup {Absent} /\ new \in Entries
  BY DEF FleetTypeOK, Registries, At
<1>3. e # Absent => e \in Entries /\ InTime(e, Left(where)) BY <1>2 DEF AllInTime
<1>4. Tick => Left(where) > 0 /\ Left(where)' = Left(where) - 1 BY TickMoves
<1>5. e # Absent => Due(e, Left(where)) \in 0..Longest BY <1>1, <1>3, DueRange
<1>6. Longest \in Nat BY Numbers, EvictBounds DEF Longest
<1> DEFINE Fades == /\ InTime(new, Left(where)')
                    /\ ~Spoken(where, a) =>
                         /\ e # Absent /\ Due(e, Left(where)) \in 0..Longest
                         /\ Due(new, Left(where)') <= Due(e, Left(where))
                         /\ Tick => Due(new, Left(where)') < Due(e, Left(where))
<1> SUFFICES Fades OBVIOUS
<1>7. CASE new = e /\ Left(where)' = Left(where)
  <2> HIDE DEF e, new
  <2> QED BY <1>1, <1>2, <1>3, <1>4, <1>5, <1>6, <1>7
<1>8. CASE Left(where)' = Left(where) - 1 /\ new = Aged(At(where))[a]
  <2>1. e # Absent /\ new = [e EXCEPT !.age = Older(@),
                                      !.marked = IF @ = Unmarked THEN @ ELSE Older(@)]
    BY <1>8 DEF Aged
  <2> HIDE DEF e, new
  <2>2. Left(where) > 0 BY <1>1, <1>8
  <2>3. InTime(new, Left(where) - 1) /\ Due(new, Left(where) - 1) < Due(e, Left(where))
    BY <1>1, <1>3, <2>1, <2>2, AgedInTime
  <2>4. Due(new, Left(where)') \in 0..Longest BY <1>1, <1>2, <1>8, <2>3, DueRange
  <2> QED BY <1>3, <1>5, <1>6, <1>8, <2>1, <2>3, <2>4
<1>9. CASE /\ Left(where) = 0 /\ Left(where)' = EvictInterval
           /\ new = EvictStaleEntries(At(where))[a]
  <2>1. e # Absent /\ new = Evicted(e) BY <1>9 DEF EvictStaleEntries
  <2> HIDE DEF e, new
  <2>2. InTime(new, EvictInterval) /\ Due(new, EvictInterval) <= Due(e, 0)
    BY <1>2, <1>3, <1>9, <2>1, EvictedInTime
  <2> QED BY <1>1, <1>4, <1>5, <1>9, <2>1, <2>2
<1>10. CASE Left(where)' = Left(where) /\ Spoken(where, a) /\ new.age = 0
  <2> HIDE DEF e, new
  <2> QED BY <1>1, <1>2, <1>10, FreshInTime
<1> QED BY <1>7, <1>8, <1>9, <1>10, NextPasses DEF Passes

LEMMA NextInTime ==
  ASSUME QuarantineTTL > 1, FleetTypeOK, FleetTypeOK', AllInTime, [FleetNext]_fleetVars
  PROVE  AllInTime' /\ Fading
<1>1. AllInTime' BY EntryFades DEF AllInTime
<1>2. ASSUME NEW where \in Bootstraps \cup {Node}, NEW a \in Addresses,
             ~Spoken(where, a), At(where)[a] = Absent
      PROVE  At(where)'[a] = Absent
  BY <1>2, EntryFades
<1>3. Fading BY <1>2, EntryFades DEF Fading
<1> QED BY <1>1, <1>3

LEMMA NextFallsSilent == FleetTypeOK /\ [FleetNext]_fleetVars => FallsSilent
<1> SUFFICES ASSUME FleetTypeOK, [FleetNext]_fleetVars, NEW a \in Addresses,
                    Silenced(a) \/ Tick, proc'[a] # "running"
             PROVE  Silenced(a)'
  BY DEF FallsSilent
<1>1. CASE Tick
  <2>1. proc' = proc /\ call' = call /\ call[a] = [l \in Loops |-> Idle]
    BY <1>1 DEF Tick, FleetTypeOK
  <2>2. ASSUME NEW l \in Loops PROVE timer'[<<l, a>>] > 0
    <3>1. <<l, a>> \in Tasks /\ ~Scheduled(<<l, a>>)
      BY <2>1, Intervals DEF Scheduled
    <3>2. timer'[<<l, a>>] = Interval(<<l, a>>) BY <1>1, <3>1 DEF Tick
    <3>3. SyncInterval > 0 /\ StatusInterval > 0 OBVIOUS
    <3>4. CASE l = "sync" BY <3>2, <3>3, <3>4, Intervals
    <3>5. CASE l = "status" BY <3>2, <3>3, <3>5, Intervals
    <3> QED BY <3>4, <3>5 DEF Loops
  <2> QED BY <2>1, <2>2 DEF Silenced
<1>2. ASSUME Silenced(a), UNCHANGED <<call, timer>>, proc'[a] = proc[a] PROVE Silenced(a)'
  BY <1>2 DEF Silenced
<1>3. ASSUME Silenced(a), NEW b \in Addresses, Start(b) PROVE Silenced(a)'
  <2>1. a # b BY <1>3 DEF Start, FleetTypeOK
  <2>2. call'[a] = call[a] /\ proc'[a] = proc[a]
    BY <1>3, <2>1 DEF Start, FleetTypeOK
  <2>3. \A l \in Loops : timer'[<<l, a>>] = timer[<<l, a>>]
    <3>1. \A l \in Loops : <<"sync", b>> # <<l, a>> /\ <<"status", b>> # <<l, a>>
      BY <2>1
    <3>2. timer' = [timer EXCEPT ![<<"sync", b>>] = SyncInterval,
                                 ![<<"status", b>>] = StatusInterval]
      BY <1>3 DEF Start
    <3> QED BY <3>1, <3>2, Intervals DEF FleetTypeOK
  <2> QED BY <1>3, <2>2, <2>3 DEF Silenced
<1>4. ASSUME Silenced(a), NEW b \in Addresses, NEW l \in Loops, Wake(b, l) PROVE Silenced(a)'
  <2>1. a # b BY <1>4 DEF Wake, Silenced, FleetTypeOK
  <2>2. call'[a] = call[a] /\ proc'[a] = proc[a] BY <1>4, <2>1 DEF Wake, FleetTypeOK
  <2>3. \A k \in Loops : timer'[<<k, a>>] = timer[<<k, a>>]
    BY <1>4, <2>1, Intervals DEF Wake, FleetTypeOK
  <2> QED BY <1>4, <2>2, <2>3 DEF Silenced
<1>5. ASSUME Silenced(a), NEW b \in Addresses, NEW l \in Loops, NEW s \in Bootstraps,
             s \in call[b][l].to, Sent(b, l, s), UNCHANGED <<proc, timer>>
      PROVE  Silenced(a)'
  <2>1. a # b BY <1>5 DEF Silenced, Idle
  <2>2. call'[a] = call[a] BY <1>5, <2>1 DEF Sent, FleetTypeOK
  <2> QED BY <1>5, <2>2 DEF Silenced
<1>6. ASSUME Silenced(a), NEW b \in Addresses, Terminate(b) PROVE Silenced(a)'
  <2>1. a # b BY <1>6 DEF Terminate, Silenced
  <2> QED BY <1>2, <1>6, <2>1 DEF Terminate, FleetTypeOK
<1>7. ASSUME Silenced(a), NEW b \in Addresses, Exit(b) PROVE Silenced(a)'
  <2>1. CASE a # b
    <3>1. proc'[a] = proc[a] /\ call'[a] = call[a] /\ timer' = timer
      BY <1>7, <2>1 DEF Exit, FleetTypeOK
    <3> QED BY <1>7, <3>1 DEF Silenced
  <2>2. CASE a = b
    <3>1. PICK last \in [Loops -> SUBSET Bootstraps] :
            /\ \A l \in Loops : last[l] \subseteq call[a][l].to
            /\ call' = [call EXCEPT ![a] =
                 [l \in Loops |-> IF last[l] = {} THEN Idle ELSE [@[l] EXCEPT !.to = last[l]]]]
      BY <1>7, <2>2 DEF Exit
    <3>2. \A l \in Loops : last[l] = {} BY <1>7, <3>1 DEF Silenced, Idle
    <3>3. call'[a] = [l \in Loops |-> Idle] BY <3>1, <3>2 DEF FleetTypeOK
    <3>4. proc'[a] = "off" BY <1>7, <2>2 DEF Exit, FleetTypeOK
    <3> QED BY <3>3, <3>4 DEF Silenced
  <2> QED BY <2>1, <2>2
<1>8. ASSUME Silenced(a),
             \/ \E b \in Addresses : Execute(b)
             \/ \E s \in Bootstraps : CrashServer(s)
             \/ UNCHANGED fleetVars
      PROVE  Silenced(a)'
  BY <1>2, <1>8 DEF Execute, CrashServer, fleetVars
<1>9. ASSUME Silenced(a),
             \/ \E where \in Bootstraps \cup {Node} : Evict(where)
             \/ \E reached \in SUBSET Bootstraps : NodeSync(reached)
      PROVE  Silenced(a)'
  <2>1. PICK k \in ({"evict"} \X (Bootstraps \cup {Node})) \cup {<<"sync", Node>>}, n \in Nat :
          timer' = [timer EXCEPT ![k] = n]
    BY <1>9, EvictBounds DEF Evict, NodeSync
  <2>2. \A l \in Loops : k # <<l, a>> BY DEF Loops
  <2>3. \A l \in Loops : timer'[<<l, a>>] = timer[<<l, a>>]
    BY <2>1, <2>2, Intervals DEF FleetTypeOK
  <2>4. UNCHANGED <<proc, call>> BY <1>9 DEF Evict, NodeSync
  <2> QED BY <1>9, <2>3, <2>4 DEF Silenced
<1> QED
  BY <1>1, <1>3, <1>4, <1>5, <1>6, <1>7, <1>8, <1>9
  DEF FleetNext, Scheduling, Deliver, Lose

(* A registry that is told nothing more of an agent counts down, by one    *)
(* with each tick and from at most the two TTLs and two evictions, to the  *)
(* moment when it drops the agent, and does not take it up again; whatever *)
(* quarantine, mark or renewal it was in, and also the node, as soon as no *)
(* bootstrap server lists the agent.                                       *)
THEOREM ForgettingTheorem ==
  ASSUME QuarantineTTL > 1 PROVE FleetSpec => [][Fading]_fleetVars
<1> DEFINE IInv == FleetTypeOK /\ ErrorsCounted /\ AllInTime
<1>1. FleetInit => IInv
  <2>1. FleetInit => AllInTime
    BY DEF FleetInit, RegistryInit, NothingListed, AllInTime, At
  <2> QED BY <2>1, InitTyped
<1>2. IInv /\ [FleetNext]_fleetVars => IInv' BY NextTyped, NextInTime
<1>3. IInv /\ [FleetNext]_fleetVars => [Fading]_fleetVars BY NextTyped, NextInTime
<1> QED BY <1>1, <1>2, <1>3, PTL DEF FleetSpec

(* An agent that stopped says nothing any more from the first tick on, and *)
(* stays silent until its process is started again: the requests its loops *)
(* had on their way have arrived or were dropped by then.                  *)
THEOREM SilenceTheorem == FleetSpec => [][FallsSilent]_fleetVars
<1>1. FleetTypeOK /\ [FleetNext]_fleetVars => [FallsSilent]_fleetVars BY NextFallsSilent
<1> QED BY <1>1, FleetTyped, PTL DEF FleetSpec

-----------------------------------------------------------------------------
(* How an agent is discovered.  What a bootstrap server holds of a running *)
(* agent, and what is on its way there, is the truth about the agent: but  *)
(* for a quarantine, which the next status report lifts.                   *)
Agrees(e, a) == e.reliable = Reliable(a) /\ e.warm = TRUE /\ e.health # "unhealthy"

Informed(s, a) ==
  /\ proc[a] = "running" /\ Warm(a)
  /\ \A l \in Loops : s \in call[a][l].to => call[a][l].report = Report(a)
  /\ listed[s][a] # Absent => Agrees(listed[s][a], a)

StaysInformed ==
  \A s \in Bootstraps, a \in Addresses :
    Informed(s, a) /\ runtime'[a] = runtime[a] /\ proc'[a] = "running" =>
      /\ Informed(s, a)'
      /\ Deliver(a, "status", s) /\ <<s, a>> \in Recognised /\ listed[s][a] # Absent =>
           (Discoverable(listed'[s], a) <=> Reliable(a))

LEMMA SameReport ==
  ASSUME NEW a \in Addresses, runtime'[a] = runtime[a], proc'[a] = proc[a]
  PROVE  /\ Reliable(a)' = Reliable(a) /\ Warm(a)' = Warm(a) /\ Report(a)' = Report(a)
BY DEF Reliable, Warm, Report

(* What is on its way: only an accurate report is added to it.             *)
LEMMA CallsInformed ==
  ASSUME FleetTypeOK, [FleetNext]_fleetVars, NEW s \in Bootstraps, NEW a \in Addresses,
         Informed(s, a), runtime'[a] = runtime[a], proc'[a] = "running",
         NEW l \in Loops, s \in call'[a][l].to
  PROVE  call'[a][l].report = Report(a)
<1> SUFFICES ASSUME call'[a][l] # call[a][l] PROVE call'[a][l].report = Report(a)
  BY DEF Informed
<1>1. ASSUME NEW b \in Addresses, Start(b) PROVE FALSE
  <2>1. a # b BY <1>1 DEF Start, Informed
  <2> QED BY <1>1, <2>1 DEF Start, FleetTypeOK
<1>2. ASSUME NEW b \in Addresses, NEW k \in Loops, Wake(b, k)
      PROVE  call'[a][l].report = Report(a)
  BY <1>2 DEF Wake, FleetTypeOK
<1>3. ASSUME NEW b \in Addresses, NEW k \in Loops, NEW q \in Bootstraps, Sent(b, k, q)
      PROVE  call'[a][l].report = Report(a)
  <2>1. a = b /\ l = k BY <1>3 DEF Sent, FleetTypeOK
  <2> DEFINE rest == call[a][l].to \ {q}
  <2>2. call'[a][l] = IF rest = {} THEN Idle ELSE [call[a][l] EXCEPT !.to = rest]
    BY <1>3, <2>1 DEF Sent, FleetTypeOK
  <2>3. rest # {} BY <2>2 DEF Idle
  <2>4. call[a][l] \in Calls BY DEF FleetTypeOK
  <2>5. call'[a][l].to = rest /\ call'[a][l].report = call[a][l].report
    BY <2>2, <2>3, <2>4 DEF Calls
  <2> QED BY <2>5 DEF Informed
<1>4. ASSUME NEW b \in Addresses, Exit(b) PROVE FALSE
  <2>1. a # b BY <1>4 DEF Exit, FleetTypeOK
  <2> QED BY <1>4, <2>1 DEF Exit, FleetTypeOK
<1>5. call' # call OBVIOUS
<1> QED
  BY <1>1, <1>2, <1>3, <1>4, <1>5
  DEF FleetNext, Scheduling, Deliver, Lose, Execute, Terminate, Evict, NodeSync,
      CrashServer, Tick, fleetVars

(* What the server makes of a report.                                      *)
LEMMA ReportAgrees ==
  ASSUME FleetTypeOK, NEW s \in Bootstraps, NEW a \in Addresses, NEW l \in Loops,
         Informed(s, a), Deliver(a, l, s)
  PROVE  /\ listed'[s][a] # Absent => Agrees(listed'[s][a], a)
         /\ l = "status" /\ <<s, a>> \in Recognised /\ listed[s][a] # Absent =>
              (Discoverable(listed'[s], a) <=> Reliable(a))
<1> DEFINE report == call[a][l].report
           e == listed[s][a]
<1>1. report = Report(a) BY DEF Deliver, Informed
<1>2. report.health = "healthy" /\ report.reliable = Reliable(a) /\ report.warm = TRUE
  <2>1. Warm(a) = TRUE BY DEF Informed, Warm
  <2> QED BY <1>1, <2>1 DEF Report, Informed
<1>3. listed[s] \in Registries /\ e \in Entries \cup {Absent} BY DEF FleetTypeOK, Registries
<1>4. e # Absent => Agrees(e, a) BY DEF Informed
<1> HIDE DEF report
<1>5. CASE l = "sync"
  <2>1. listed'[s] = UpdateRegistry(listed[s], a, report)
    BY <1>5 DEF Deliver, Register, FleetTypeOK, report
  <2>2. CASE ~HasRoom(listed[s], a)
    <3>1. listed'[s][a] = e BY <2>1, <2>2 DEF UpdateRegistry
    <3> QED BY <1>4, <1>5, <3>1
  <2>3. CASE HasRoom(listed[s], a)
    <3>1. listed'[s][a] =
            LET metrics == IF e = Absent THEN report ELSE e
            IN [age |-> 0, marked |-> Unmarked, health |-> metrics.health,
                reliable |-> metrics.reliable, warm |-> metrics.warm]
      BY <1>3, <2>1, <2>3 DEF UpdateRegistry, Registries
    <3>2. CASE e = Absent BY <1>2, <1>5, <3>1, <3>2 DEF Agrees
    <3>3. CASE e # Absent BY <1>4, <1>5, <3>1, <3>3 DEF Agrees
    <3> QED BY <3>2, <3>3
  <2> QED BY <2>2, <2>3
<1>6. CASE l = "status" /\ <<s, a>> \notin Recognised
  <2>1. listed'[s][a] = e BY <1>6 DEF Deliver, ReportStatus
  <2> QED BY <1>4, <1>6, <2>1
<1>7. CASE l = "status" /\ <<s, a>> \in Recognised
  <2>1. listed'[s] = UpdateStatus(listed[s], a, report)
    BY <1>7 DEF Deliver, ReportStatus, FleetTypeOK, report
  <2>2. CASE e = Absent BY <2>1, <2>2 DEF UpdateStatus
  <2>3. CASE e # Absent
    <3>1. listed'[s][a] = [e EXCEPT !.age = 0, !.health = report.health,
                                    !.reliable = report.reliable, !.warm = report.warm]
      BY <1>3, <2>1, <2>3 DEF UpdateStatus, Registries
    <3>2. e \in Entries BY <1>3, <2>3
    <3>3. /\ listed'[s][a].health = "healthy" /\ listed'[s][a].reliable = Reliable(a)
          /\ listed'[s][a].warm = TRUE
      BY <1>2, <3>1, <3>2 DEF Entries
    <3>4. listed'[s][a] # Absent
      <4>1. report \in Reports BY DEF FleetTypeOK, Calls, report
      <4>2. /\ 0 \in 0..MaxAge /\ report.health \in HealthStates
            /\ report.reliable \in BOOLEAN /\ report.warm \in BOOLEAN
        BY <4>1, Ages DEF Reports, HealthStates
      <4>3. [e EXCEPT !.age = 0, !.health = report.health] \in Entries
        BY <3>2, <4>2 DEF Entries
      <4>4. \A f \in Entries, reliable \in BOOLEAN, warm \in BOOLEAN :
              [f EXCEPT !.reliable = reliable, !.warm = warm] \in Entries
        BY DEF Entries
      <4> QED BY <3>1, <4>2, <4>3, <4>4
    <3> QED BY <3>3, <3>4 DEF Agrees, Discoverable
  <2> QED BY <2>2, <2>3
<1> QED BY <1>5, <1>6, <1>7 DEF Loops

(* Age and quarantine.                                                     *)
LEMMA OlderAgrees ==
  ASSUME NEW e \in Entries, NEW a \in Addresses, Agrees(e, a)
  PROVE  /\ Agrees([e EXCEPT !.age = Older(@),
                             !.marked = IF @ = Unmarked THEN @ ELSE Older(@)], a)
         /\ Evicted(e) # Absent => Agrees(Evicted(e), a)
<1>1. Agrees([e EXCEPT !.age = Older(@),
                       !.marked = IF @ = Unmarked THEN @ ELSE Older(@)], a)
  BY EntryFields DEF Agrees
<1>2. \A mark : Agrees([e EXCEPT !.marked = mark], a) BY EntryFields DEF Agrees
<1>3. \A mark : Agrees([e EXCEPT !.marked = mark, !.health = "quarantine"], a)
  BY EntryFields DEF Agrees
<1> QED BY <1>1, <1>2, <1>3 DEF Evicted

LEMMA ListInformed ==
  ASSUME FleetTypeOK, [FleetNext]_fleetVars, NEW s \in Bootstraps, NEW a \in Addresses,
         Informed(s, a), listed'[s][a] # Absent
  PROVE  Agrees(listed'[s][a], a)
<1>1. listed[s] \in Registries /\ (listed[s][a] # Absent => listed[s][a] \in Entries)
  BY DEF FleetTypeOK, Registries
<1>2. CASE listed'[s][a] = listed[s][a] BY <1>2 DEF Informed
<1>3. CASE Tick
  <2>1. listed'[s] = Aged(listed[s]) BY <1>3 DEF Tick, AgeEntries
  <2>2. listed[s][a] # Absent BY <2>1 DEF Aged
  <2>3. listed'[s][a] = [listed[s][a] EXCEPT !.age = Older(@),
                           !.marked = IF @ = Unmarked THEN @ ELSE Older(@)]
    BY <2>1, <2>2 DEF Aged
  <2>4. listed[s][a] \in Entries /\ Agrees(listed[s][a], a) BY <1>1, <2>2 DEF Informed
  <2>5. Agrees([listed[s][a] EXCEPT !.age = Older(@),
                  !.marked = IF @ = Unmarked THEN @ ELSE Older(@)], a)
    BY <2>4, OlderAgrees
  <2> QED BY <2>3, <2>5
<1>4. ASSUME NEW b \in Addresses, NEW l \in Loops, NEW q \in Bootstraps, Deliver(b, l, q)
      PROVE  Agrees(listed'[s][a], a)
  <2>1. CASE a = b /\ s = q BY <1>4, <2>1, ReportAgrees
  <2>2. CASE a # b \/ s # q
    <3>1. PICK new \in Answers(listed[q], b, call[b][l].report) :
            listed' = [listed EXCEPT ![q] = new]
      BY <1>4, Answered
    <3>2. \A c \in Addresses \ {b} : new[c] = listed[q][c]
      BY <1>4, <3>1, Answered, AnswerMade
    <3>3. listed'[s][a] = listed[s][a] BY <2>2, <3>1, <3>2 DEF FleetTypeOK
    <3> QED BY <1>2, <3>3
  <2> QED BY <2>1, <2>2
<1>5. ASSUME NEW where \in Bootstraps \cup {Node}, Evict(where)
      PROVE  Agrees(listed'[s][a], a)
  <2>1. CASE where = s
    <3>1. listed'[s] = EvictStaleEntries(listed[s])
      BY <1>5, <2>1 DEF Evict, EvictAt, FleetTypeOK
    <3>2. listed[s][a] # Absent /\ listed'[s][a] = Evicted(listed[s][a])
      BY <3>1 DEF EvictStaleEntries
    <3> QED BY <1>1, <3>2, OlderAgrees DEF Informed
  <2>2. CASE where # s
    <3>1. listed'[s][a] = listed[s][a]
      BY <1>5, <2>2 DEF Evict, EvictAt, EvictAtNode, FleetTypeOK
    <3> QED BY <1>2, <3>1
  <2> QED BY <2>1, <2>2
<1>6. ASSUME NEW q \in Bootstraps, CrashServer(q) PROVE Agrees(listed'[s][a], a)
  <2>1. s # q BY <1>6 DEF CrashServer, RestartServer, NothingListed, FleetTypeOK
  <2>2. listed'[s][a] = listed[s][a]
    BY <1>6, <2>1 DEF CrashServer, RestartServer, FleetTypeOK
  <2> QED BY <1>2, <2>2
<1>7. CASE UNCHANGED listed BY <1>2, <1>7
<1> QED
  BY <1>3, <1>4, <1>5, <1>6, <1>7
  DEF FleetNext, Scheduling, Start, Execute, Terminate, Exit, Wake, Lose, NodeSync,
      SyncFrom, fleetVars

LEMMA NextInformed == FleetTypeOK /\ [FleetNext]_fleetVars => StaysInformed
<1> SUFFICES ASSUME FleetTypeOK, [FleetNext]_fleetVars, NEW s \in Bootstraps,
                    NEW a \in Addresses, Informed(s, a),
                    runtime'[a] = runtime[a], proc'[a] = "running"
             PROVE  /\ Informed(s, a)'
                    /\ Deliver(a, "status", s) /\ <<s, a>> \in Recognised
                         /\ listed[s][a] # Absent =>
                         (Discoverable(listed'[s], a) <=> Reliable(a))
  BY DEF StaysInformed
<1>1. /\ Reliable(a)' = Reliable(a) /\ Warm(a)' = Warm(a) /\ Report(a)' = Report(a)
  BY SameReport DEF Informed
<1>2. \A l \in Loops : s \in call'[a][l].to => call'[a][l].report = Report(a)'
  BY <1>1, CallsInformed
<1>3. listed'[s][a] # Absent => Agrees(listed[s][a], a)'
  BY <1>1, ListInformed DEF Agrees
<1>4. Informed(s, a)' BY <1>1, <1>2, <1>3 DEF Informed
<1> QED BY <1>4, ReportAgrees DEF Loops

(* Once a server is informed of a running agent it stays so until the      *)
(* agent serves another request or stops: whatever calls are lost, servers *)
(* restart and entries go stale, whatever registrations and reports the    *)
(* server refuses, nothing old or half true comes back, and each status    *)
(* report of an agent it lists, if it comes from an IP of the agent's host,*)
(* makes the agent discoverable exactly if it is reliable, a quarantine    *)
(* included.                                                               *)
THEOREM InformedTheorem == FleetSpec => [][StaysInformed]_fleetVars
<1>1. FleetTypeOK /\ [FleetNext]_fleetVars => [StaysInformed]_fleetVars BY NextInformed
<1> QED BY <1>1, FleetTyped, PTL DEF FleetSpec
=============================================================================
