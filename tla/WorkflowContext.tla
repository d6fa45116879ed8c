--------------------------- MODULE WorkflowContext ---------------------------
(***************************************************************************)
(* The replicated workflow context (context-management): every agent has a *)
(* store of its own, changes it without coordination and merges the stores *)
(* of others.  A store is saved to bytes and loaded from them, by the same *)
(* agent after a restart or by another one that starts from a copy; the    *)
(* bytes carry the id of the actor the changes are logged under.           *)
(*                                                                         *)
(* A list is the set of the contents in it, which is what a merge compares *)
(* (how often it holds one is left out).  A journal entry carries the time *)
(* it was made, so its content is that of one change; a risk event is any  *)
(* dictionary, and two changes may record equal ones.  A map entry is the  *)
(* function from the fields of its value to the change that wrote them.    *)
(* The wall clock is the count of changes.  Risk dimensions are tenths,    *)
(* scores thousandths.                                                     *)
(***************************************************************************)
EXTENDS Naturals, FiniteSets

CONSTANTS
  Replicas,     \* the agents' stores, and the actor id each is created with
  Entries,      \* the places of the playbook, plan and agents maps
  Fields,       \* the fields a map value may have
  Assessments,  \* the risk dimensions an agent may record
  Events,       \* the risk events it may record with them
  MaxChanges,   \* a model bound: changes of all stores together
  MaxSaves,     \* a model bound: saved documents that are kept
  MaxLoads      \* a model bound: loads from saved bytes

ASSUME ContextAssumption ==
  /\ Assessments \subseteq [financial: 0..10, operational: 0..10,
                            compliance: 0..10, security: 0..10]
  /\ Events \cap Nat = {}
  /\ {MaxChanges, MaxSaves, MaxLoads} \subseteq Nat

VARIABLES
  stores,   \* the document of each replica
  saved,    \* the documents that were saved to bytes
  made,     \* every change ever logged (a history variable)
  forked,   \* the actors whose id a second writer took up (a history variable)
  loads     \* how many loads there were

contextVars == <<stores, saved, made, forked, loads>>

-----------------------------------------------------------------------------
(* Risk.                                                                   *)
NoRisk == [financial |-> 0, operational |-> 0, compliance |-> 0, security |-> 0]

ComputeComposite(d) ==
  25 * d.financial + 20 * d.operational + 30 * d.compliance + 25 * d.security

ScoreToTier(score) ==
  CASE score < 400 -> "low"
    [] score >= 400 /\ score < 600 -> "medium"
    [] score >= 600 /\ score < 800 -> "high"
    [] OTHER -> "critical"

-----------------------------------------------------------------------------
(* Documents; a new one has the "init" record in its change log.  "known"  *)
(* is what a perfect merge would hold: the times of the changes made to    *)
(* this document or merged into it, and the events that came with them (a  *)
(* history variable).                                                      *)
CreateDoc(actor) ==
  [actor |-> actor, journal |-> {}, events |-> {}, maps |-> [e \in Entries |-> <<>>],
   dims |-> NoRisk, score |-> 0, tier |-> "low",
   history |-> {[actor |-> actor, seq |-> 1, time |-> 0]}, known |-> {}]

(* The change a document logs next, numbered by the length of its log.     *)
NextChange(doc) ==
  [actor |-> doc.actor, seq |-> Cardinality(doc.history) + 1, time |-> Cardinality(made) + 1]

(* The document with one more record in its change log.                    *)
Logged(doc) ==
  [doc EXCEPT !.history = @ \cup {NextChange(doc)}, !.known = @ \cup {NextChange(doc).time}]

(* apply_change: replica r's document becomes "doc", logged.               *)
ApplyChange(r, doc) ==
  /\ Cardinality(made) < MaxChanges
  /\ stores' = [stores EXCEPT ![r] = Logged(doc)]
  /\ made' = made \cup {NextChange(doc)}
  /\ UNCHANGED <<saved, forked, loads>>

(* Mutant: a list both sides have is kept as it is.                        *)
MergeListsLocal(local, remote) == IF local = {} THEN remote ELSE local

(* _deep_merge: lists are united by content, values merged field by field, *)
(* and of a field both sides have the local one stays.                     *)
MergeLists(local, remote) == local \cup remote
MergeValue(local, remote) ==
  [f \in DOMAIN local \cup DOMAIN remote |->
     IF f \in DOMAIN local THEN local[f] ELSE remote[f]]

(* Mutant: records of different actors with one number are taken for one.  *)
MergeHistoriesByNumber(local, remote) ==
  local \cup {c \in remote : \A d \in local : d.seq # c.seq}

(* The change logs are joined, local first, and of the records with the    *)
(* same actor and number only the first is kept.                           *)
MergeHistories(local, remote) ==
  LET First(c, d) == IF c \in local /\ d \in local THEN c.time < d.time
                     ELSE c \in local \/ (d \notin local /\ c.time < d.time)
  IN {c \in local \cup remote :
        \A d \in (local \cup remote) \ {c} :
          d.actor = c.actor /\ d.seq = c.seq => First(c, d)}

MergeDocs(local, remote) ==
  [local EXCEPT !.journal = MergeLists(@, remote.journal),
                !.events = MergeLists(@, remote.events),
                !.maps = [e \in Entries |-> MergeValue(local.maps[e], remote.maps[e])],
                !.history = MergeHistories(@, remote.history),
                !.known = @ \cup remote.known]

-----------------------------------------------------------------------------
ContextInit ==
  /\ stores = [r \in Replicas |-> CreateDoc(r)]
  /\ saved = {}
  /\ made = {}
  /\ forked = {}
  /\ loads = 0

Now(r) == NextChange(stores[r]).time

AppendJournal(r) ==
  ApplyChange(r, [stores[r] EXCEPT !.journal = @ \cup {Now(r)}])

(* upsert_playbook, update_plan and register_agent: the values at some     *)
(* places are replaced.                                                    *)
Upsert(r, places, fields) ==
  ApplyChange(r, [stores[r] EXCEPT !.maps =
    [e \in Entries |-> IF e \in places THEN [f \in fields |-> Now(r)] ELSE @[e]]])

(* "given" is the event, or nothing.                                       *)
UpdateRisk(r, dims, given) ==
  ApplyChange(r, [stores[r] EXCEPT
    !.dims = dims, !.score = ComputeComposite(dims),
    !.tier = ScoreToTier(ComputeComposite(dims)), !.events = @ \cup given,
    !.known = @ \cup given])

(* Mutants: the worse score is adopted without its dimensions; the risk of *)
(* the other side is adopted whichever is worse.                           *)
MergeWithScoreOnly(r, other) ==
  LET merged == MergeDocs(stores[r], stores[other])
  IN IF stores[other].score > stores[r].score
       THEN ApplyChange(r, [merged EXCEPT
              !.score = stores[other].score, !.tier = ScoreToTier(stores[other].score)])
       ELSE /\ stores' = [stores EXCEPT ![r] = merged]
            /\ UNCHANGED <<saved, made, forked, loads>>

MergeWithTheirs(r, other) ==
  LET merged == MergeDocs(stores[r], stores[other])
  IN ApplyChange(r, [merged EXCEPT
       !.score = stores[other].score, !.tier = stores[other].tier,
       !.dims = stores[other].dims])

(* The structural merge, then the higher of the two scores with its tier   *)
(* and its dimensions, as a change of its own.                             *)
MergeWith(r, other) ==
  LET merged == MergeDocs(stores[r], stores[other])
  IN IF stores[other].score > stores[r].score
       THEN ApplyChange(r, [merged EXCEPT
              !.score = stores[other].score, !.tier = ScoreToTier(stores[other].score),
              !.dims = stores[other].dims])
       ELSE /\ stores' = [stores EXCEPT ![r] = merged]
            /\ UNCHANGED <<saved, made, forked, loads>>

Save(r) ==
  /\ Cardinality(saved) < MaxSaves
  /\ saved' = saved \cup {stores[r]}
  /\ UNCHANGED <<stores, made, forked, loads>>

(* Replica r starts from bytes that it or another one saved, and goes on   *)
(* under the actor id in them.  That forks the actor when another store    *)
(* still writes under it, or when changes it made since are not in them.   *)
Load(r, doc) ==
  LET second == \/ \E s \in Replicas \ {r} : stores[s].actor = doc.actor
                \/ \E c \in made : c.actor = doc.actor /\ c.time \notin doc.known
  IN /\ loads < MaxLoads
     /\ loads' = loads + 1
     /\ stores' = [stores EXCEPT ![r] = doc]
     /\ forked' = IF second THEN forked \cup {doc.actor} ELSE forked
     /\ UNCHANGED <<saved, made>>

ContextNext ==
  \E r \in Replicas :
    \/ AppendJournal(r)
    \/ \E places \in (SUBSET Entries) \ {{}}, fields \in (SUBSET Fields) \ {{}} :
         Upsert(r, places, fields)
    \/ \E dims \in Assessments, given \in {{}} \cup {{e} : e \in Events} :
         UpdateRisk(r, dims, given)
    \/ \E other \in Replicas \ {r} : MergeWith(r, other)
    \/ Save(r)
    \/ \E doc \in saved : Load(r, doc)

ContextSpec == ContextInit /\ [][ContextNext]_contextVars

-----------------------------------------------------------------------------
(* Whatever was merged in which order, the tier a replica shows is the one *)
(* of its score and the score is that of its dimensions: the three parts   *)
(* of a risk are never taken from different assessments.                   *)
RiskConsistent ==
  \A r \in Replicas :
    /\ stores[r].score = ComputeComposite(stores[r].dims)
    /\ stores[r].tier = ScoreToTier(stores[r].score)

(* A merge never understates a risk: a score drops only by the replica's   *)
(* own reassessment or a restart, and a merge leaves it at least as high   *)
(* as that of the store merged in.                                         *)
MergeNeverUnderstates ==
  [][\A r \in Replicas, other \in Replicas :
       r # other /\ MergeWith(r, other) =>
         /\ stores'[r].score >= stores[r].score
         /\ stores'[r].score >= stores[other].score]_contextVars

(* No write is lost: an entry or an event that reached a replica by any    *)
(* chain of merges, loads and copies is in its lists, it has nothing else  *)
(* in them, and a place of its maps that it has seen written is not empty  *)
(* again.                                                                  *)
JournalKept ==
  \A r, s \in Replicas :
    /\ stores[s].journal \cap stores[r].known \subseteq stores[r].journal
    /\ stores[s].events \cap stores[r].known \subseteq stores[r].events
    /\ stores[r].journal \cup stores[r].events \subseteq stores[r].known
    /\ \A e \in Entries : \A f \in DOMAIN stores[s].maps[e] :
         stores[s].maps[e][f] \in stores[r].known => DOMAIN stores[r].maps[e] # {}

(* The change log is complete for auditing as long as no actor id is used  *)
(* by two writers: a change that reached a replica is in its log, unless   *)
(* its actor was forked by loading saved bytes.                            *)
HistoryComplete ==
  \A r \in Replicas : \A c \in made :
    c.time \in stores[r].known /\ c.actor \notin forked => c \in stores[r].history
=============================================================================
