---------------------------- MODULE AgentRegistry ----------------------------
(***************************************************************************)
(* The agent registry (agent-registry, Rust): bootstrap servers that agents*)
(* register with, and a node that copies what the bootstrap servers list.  *)
(* Times are ages in ticks, so an entry holds how long ago the agent was   *)
(* seen and how long ago it was marked for removal; ages stop counting at  *)
(* MaxAge.  Reliability and uptime are kept as whether they reach the      *)
(* floors of the specification.                                            *)
(***************************************************************************)
EXTENDS Naturals, FiniteSetsExt

CONSTANTS
  Addresses,      \* the agents' addresses
  Bootstraps,     \* the bootstrap servers
  QuarantineTTL,  \* max_ttl: silence until quarantine
  RemovalTTL,     \* time in quarantine until removal
  MaxEntries,     \* MAX_REGISTRY_ENTRIES
  Recognised,     \* <<s, a>>: s sees a's calls come from an IP of a's registered host
  Absent          \* the entry of an agent that is not listed

ASSUME TTLAssumption == QuarantineTTL \in Nat \ {0} /\ RemovalTTL \in Nat \ {0}
ASSUME AdmissionAssumption ==
  MaxEntries \in Nat \ {0} /\ Recognised \subseteq Bootstraps \X Addresses

VARIABLES
  listed,    \* the registry of each bootstrap server
  copied     \* the registry of the node

registryVars == <<listed, copied>>

HealthStates == {"healthy", "unhealthy", "quarantine"}

MaxAge == QuarantineTTL + RemovalTTL
Unmarked == MaxAge + 1

Entries ==
  [age: 0..MaxAge, health: HealthStates, marked: 0..Unmarked,
   reliable: BOOLEAN, warm: BOOLEAN]

ASSUME AbsentAssumption == Absent \notin Entries

Registries == [Addresses -> Entries \cup {Absent}]

(* The metrics of an agent, as a registration or a status report has them. *)
Reports == [health: {"healthy", "unhealthy"}, reliable: BOOLEAN, warm: BOOLEAN]

NothingListed == [a \in Addresses |-> Absent]

RegistryInit ==
  /\ listed = [s \in Bootstraps |-> NothingListed]
  /\ copied = NothingListed

(* An agent keeps its entry, and gets a new one where the registry is not  *)
(* full; the others are answered 429.                                      *)
HasRoom(reg, a) ==
  reg[a] # Absent \/ Cardinality({b \in Addresses : reg[b] # Absent}) < MaxEntries

(* update_registry: what was learned of a known agent since it registered  *)
(* stays, and so does its status, a quarantine included.                   *)
UpdateRegistry(reg, a, report) ==
  LET metrics == IF reg[a] = Absent THEN report ELSE reg[a]
  IN IF HasRoom(reg, a)
       THEN [reg EXCEPT ![a] =
               [age |-> 0, marked |-> Unmarked, health |-> metrics.health,
                reliable |-> metrics.reliable, warm |-> metrics.warm]]
       ELSE reg

(* Mutant: a status report does not change the health status.              *)
UpdateStatusKeepingHealth(reg, a, report) ==
  IF reg[a] = Absent THEN reg
  ELSE [reg EXCEPT ![a] = [@ EXCEPT !.age = 0, !.reliable = report.reliable,
                                    !.warm = report.warm]]

(* An unknown address is answered 404.                                     *)
UpdateStatus(reg, a, report) ==
  IF reg[a] = Absent THEN reg
  ELSE [reg EXCEPT ![a] = [@ EXCEPT !.age = 0, !.health = report.health,
                                    !.reliable = report.reliable, !.warm = report.warm]]

(* Mutants: an entry that is fresh again keeps its mark; the mark is set   *)
(* anew whenever the entry is found stale.                                 *)
EvictedKeepingMark(e) ==
  LET mark == IF e.marked = Unmarked THEN 0 ELSE e.marked
  IN IF e.age < QuarantineTTL THEN e
     ELSE IF mark >= RemovalTTL THEN Absent
     ELSE [e EXCEPT !.marked = mark, !.health = "quarantine"]

EvictedMarkedAnew(e) ==
  IF e.age < QuarantineTTL THEN [e EXCEPT !.marked = Unmarked]
  ELSE [e EXCEPT !.marked = 0, !.health = "quarantine"]

(* evict_stale_entries, for one entry.                                     *)
Evicted(e) ==
  LET mark == IF e.marked = Unmarked THEN 0 ELSE e.marked
  IN IF e.age < QuarantineTTL THEN [e EXCEPT !.marked = Unmarked]
     ELSE IF mark >= RemovalTTL THEN Absent
     ELSE [e EXCEPT !.marked = mark, !.health = "quarantine"]

EvictStaleEntries(reg) ==
  [a \in Addresses |-> IF reg[a] = Absent THEN Absent ELSE Evicted(reg[a])]

(* How often the eviction task runs.                                       *)
EvictInterval == Max({Min({QuarantineTTL, RemovalTTL}) \div 2, 1})

(* merge_addresses, for one listed entry: a known agent counts as seen now *)
(* and its mark goes, its health and its metrics stay as they were copied  *)
(* the first time.                                                         *)
Merged(own, theirs) ==
  IF own = Absent THEN [theirs EXCEPT !.age = 0]
  ELSE [own EXCEPT !.age = 0, !.marked = Unmarked]

(* The floors discover_agents enforces, with the exclusion of the statuses *)
(* its callers pass.                                                       *)
Discoverable(reg, a) ==
  reg[a] # Absent /\ reg[a].reliable /\ reg[a].warm /\ reg[a].health = "healthy"

-----------------------------------------------------------------------------
Register(s, a, report) ==
  /\ listed' = [listed EXCEPT ![s] = UpdateRegistry(@, a, report)]
  /\ UNCHANGED copied

(* PUT /status: verify_caller_owns_address answers 403 to the others.      *)
ReportStatus(s, a, report) ==
  /\ IF <<s, a>> \in Recognised
       THEN listed' = [listed EXCEPT ![s] = UpdateStatus(@, a, report)]
       ELSE UNCHANGED listed
  /\ UNCHANGED copied

EvictAt(s) ==
  /\ listed' = [listed EXCEPT ![s] = EvictStaleEntries(@)]
  /\ UNCHANGED copied

EvictAtNode ==
  /\ copied' = EvictStaleEntries(copied)
  /\ UNCHANGED listed

(* The node's sync: the lists of the servers that answered, merged one     *)
(* after the other; of an agent new to the node the first entry is copied. *)
SyncFrom(reached) ==
  LET Listing(a) == {s \in reached : listed[s][a] # Absent}
  IN /\ \E first \in [Addresses -> Bootstraps] :
          /\ \A a \in Addresses : Listing(a) # {} => first[a] \in Listing(a)
          /\ copied' = [a \in Addresses |->
               IF Listing(a) = {} THEN copied[a]
                                  ELSE Merged(copied[a], listed[first[a]][a])]
     /\ UNCHANGED listed

(* A bootstrap server restarts: the registry lives in memory only.         *)
RestartServer(s) ==
  /\ listed' = [listed EXCEPT ![s] = NothingListed]
  /\ UNCHANGED copied

(* A tick passes.                                                          *)
Older(n) == Min({n + 1, MaxAge})
Aged(reg) ==
  [a \in Addresses |->
     IF reg[a] = Absent THEN Absent
     ELSE [reg[a] EXCEPT !.age = Older(@),
                         !.marked = IF @ = Unmarked THEN @ ELSE Older(@)]]

AgeEntries ==
  /\ listed' = [s \in Bootstraps |-> Aged(listed[s])]
  /\ copied' = Aged(copied)
=============================================================================
