----------------------- MODULE WorkflowContext_proofs -----------------------
(***************************************************************************)
(* What the replicated context promises, for any number of stores, changes *)
(* and loads: the parts of a risk belong together, a merge understates no  *)
(* risk, and no appended entry is lost on any way through the stores.      *)
(***************************************************************************)
EXTENDS WorkflowContext, FiniteSetTheorems, TLAPS

(* A document is a record of nine fields, its maps a map over the entries. *)
Record(actor, journal, events, maps, dims, score, tier, history, known) ==
  [actor: {actor}, journal: {journal}, events: {events}, maps: {maps}, dims: {dims},
   score: {score}, tier: {tier}, history: {history}, known: {known}]

Shape(d) ==
  /\ d \in Record(d.actor, d.journal, d.events, d.maps, d.dims, d.score, d.tier,
                  d.history, d.known)
  /\ DOMAIN d.maps = Entries

RiskOf(d) ==
  /\ d.dims \in Assessments \cup {NoRisk}
  /\ d.score = ComputeComposite(d.dims)
  /\ d.tier = ScoreToTier(d.score)

Documents == {stores[r] : r \in Replicas} \cup saved

Risky ==
  /\ DOMAIN stores = Replicas
  /\ \A d \in Documents : Shape(d) /\ RiskOf(d)

LEMMA CompositeNatural ==
  ASSUME NEW dims \in Assessments \cup {NoRisk}
  PROVE  ComputeComposite(dims) \in Nat
<1>1. dims \in [financial: 0..10, operational: 0..10, compliance: 0..10, security: 0..10]
  BY ContextAssumption DEF NoRisk
<1>2. /\ dims.financial \in Nat /\ dims.operational \in Nat
      /\ dims.compliance \in Nat /\ dims.security \in Nat
  BY <1>1
<1> QED BY <1>2 DEF ComputeComposite

LEMMA NewRisk == RiskOf(CreateDoc("any")) /\ \A a : RiskOf(CreateDoc(a))
<1>1. ComputeComposite(NoRisk) = 0 BY DEF ComputeComposite, NoRisk
<1>2. ScoreToTier(0) = "low" BY DEF ScoreToTier
<1> QED BY <1>1, <1>2 DEF RiskOf, CreateDoc

LEMMA NewShape == \A a : Shape(CreateDoc(a))
BY DEF Shape, Record, CreateDoc

LEMMA RecordFields ==
  ASSUME NEW A, NEW J, NEW E, NEW M, NEW D, NEW S, NEW T, NEW H, NEW K,
         NEW d \in Record(A, J, E, M, D, S, T, H, K)
  PROVE  /\ d.actor = A /\ d.journal = J /\ d.events = E /\ d.maps = M /\ d.dims = D
         /\ d.score = S /\ d.tier = T /\ d.history = H /\ d.known = K
BY DEF Record

LEMMA RecordUpdates ==
  ASSUME NEW A, NEW J, NEW E, NEW M, NEW D, NEW S, NEW T, NEW H, NEW K, NEW x,
         NEW d \in Record(A, J, E, M, D, S, T, H, K)
  PROVE  /\ [d EXCEPT !.journal = x] \in Record(A, x, E, M, D, S, T, H, K)
         /\ [d EXCEPT !.events = x] \in Record(A, J, x, M, D, S, T, H, K)
         /\ [d EXCEPT !.maps = x] \in Record(A, J, E, x, D, S, T, H, K)
         /\ [d EXCEPT !.dims = x] \in Record(A, J, E, M, x, S, T, H, K)
         /\ [d EXCEPT !.score = x] \in Record(A, J, E, M, D, x, T, H, K)
         /\ [d EXCEPT !.tier = x] \in Record(A, J, E, M, D, S, x, H, K)
         /\ [d EXCEPT !.history = x] \in Record(A, J, E, M, D, S, T, x, K)
         /\ [d EXCEPT !.known = x] \in Record(A, J, E, M, D, S, T, H, x)
BY DEF Record

(* What logging a change leaves of a document, and what a merge makes.     *)
LEMMA LoggedFields ==
  ASSUME NEW d, Shape(d)
  PROVE  /\ Shape(Logged(d))
         /\ Logged(d).journal = d.journal /\ Logged(d).events = d.events
         /\ Logged(d).maps = d.maps /\ Logged(d).dims = d.dims
         /\ Logged(d).score = d.score /\ Logged(d).tier = d.tier
         /\ Logged(d).known = d.known \cup {Cardinality(made) + 1}
         /\ Logged(d).actor = d.actor
         /\ Logged(d).history = d.history \cup {NextChange(d)}
<1>1. NextChange(d).time = Cardinality(made) + 1 BY DEF NextChange
<1> DEFINE h == d.history \cup {NextChange(d)}
           n == [d EXCEPT !.history = h]
           k == d.known \cup {Cardinality(made) + 1}
           l == [n EXCEPT !.known = k]
<1>2. n \in Record(d.actor, d.journal, d.events, d.maps, d.dims, d.score, d.tier,
                   h, d.known)
  BY RecordUpdates DEF Shape
<1>3. n.known = d.known BY <1>2, RecordFields
<1>4. Logged(d) = l BY <1>1, <1>3 DEF Logged
<1> HIDE DEF n, h, k, l
<1>5. l \in Record(d.actor, d.journal, d.events, d.maps, d.dims, d.score, d.tier, h, k)
  BY <1>2, RecordUpdates DEF l
<1>6. /\ Logged(d).actor = d.actor /\ Logged(d).journal = d.journal
      /\ Logged(d).events = d.events /\ Logged(d).maps = d.maps
      /\ Logged(d).dims = d.dims /\ Logged(d).score = d.score
      /\ Logged(d).tier = d.tier /\ Logged(d).history = h /\ Logged(d).known = k
  BY <1>4, <1>5, RecordFields
<1> QED BY <1>4, <1>5, <1>6 DEF Shape, h, k

LEMMA MergedFields ==
  ASSUME NEW d, NEW e, Shape(d)
  PROVE  /\ Shape(MergeDocs(d, e))
         /\ MergeDocs(d, e).journal = d.journal \cup e.journal
         /\ MergeDocs(d, e).events = d.events \cup e.events
         /\ \A p \in Entries : MergeDocs(d, e).maps[p] = MergeValue(d.maps[p], e.maps[p])
         /\ MergeDocs(d, e).dims = d.dims
         /\ MergeDocs(d, e).score = d.score
         /\ MergeDocs(d, e).tier = d.tier
         /\ MergeDocs(d, e).known = d.known \cup e.known
         /\ MergeDocs(d, e).actor = d.actor
         /\ MergeDocs(d, e).history = MergeHistories(d.history, e.history)
<1> DEFINE J == d.journal \cup e.journal
           E == d.events \cup e.events
           M == [p \in Entries |-> MergeValue(d.maps[p], e.maps[p])]
           H == MergeHistories(d.history, e.history)
           K == d.known \cup e.known
<1>0. DOMAIN M = Entries /\ \A p \in Entries : M[p] = MergeValue(d.maps[p], e.maps[p])
  OBVIOUS
<1> DEFINE d1 == [d EXCEPT !.journal = J]
           d2 == [d1 EXCEPT !.events = E]
           d3 == [d2 EXCEPT !.maps = M]
           d4 == [d3 EXCEPT !.history = H]
           d5 == [d4 EXCEPT !.known = K]
<1> HIDE DEF J, E, M, H, K, d1, d2, d3, d4, d5
<1>1. d1 \in Record(d.actor, J, d.events, d.maps, d.dims, d.score, d.tier, d.history,
                    d.known)
  BY RecordUpdates DEF Shape, d1
<1>2. d2 \in Record(d.actor, J, E, d.maps, d.dims, d.score, d.tier, d.history, d.known)
  BY <1>1, RecordUpdates DEF d2
<1>3. d3 \in Record(d.actor, J, E, M, d.dims, d.score, d.tier, d.history, d.known)
  BY <1>2, RecordUpdates DEF d3
<1>4. d4 \in Record(d.actor, J, E, M, d.dims, d.score, d.tier, H, d.known)
  BY <1>3, RecordUpdates DEF d4
<1>5. d5 \in Record(d.actor, J, E, M, d.dims, d.score, d.tier, H, K)
  BY <1>4, RecordUpdates DEF d5
<1>6. d1.events = d.events /\ d3.history = d.history /\ d4.known = d.known
  BY <1>1, <1>3, <1>4, RecordFields
<1>7. MergeDocs(d, e) =
        [[[[d1 EXCEPT !.events = d1.events \cup e.events] EXCEPT !.maps = M]
            EXCEPT !.history = MergeHistories(d3.history, e.history)]
            EXCEPT !.known = d4.known \cup e.known]
  BY <1>6 DEF MergeDocs, MergeLists, d1, d2, d3, d4, J, E, M, H
<1>8. MergeDocs(d, e) = d5 BY <1>6, <1>7 DEF d2, d3, d4, d5, E, H, K
<1>9. /\ MergeDocs(d, e).actor = d.actor /\ MergeDocs(d, e).journal = J
      /\ MergeDocs(d, e).events = E /\ MergeDocs(d, e).maps = M
      /\ MergeDocs(d, e).dims = d.dims /\ MergeDocs(d, e).score = d.score
      /\ MergeDocs(d, e).tier = d.tier /\ MergeDocs(d, e).history = H
      /\ MergeDocs(d, e).known = K
  BY <1>5, <1>8, RecordFields
<1>10. Shape(MergeDocs(d, e)) BY <1>0, <1>5, <1>8, <1>9 DEF Shape
<1> QED BY <1>0, <1>9, <1>10 DEF J, E, H, K

-----------------------------------------------------------------------------
(* The three parts of a risk belong together.                              *)

(* A step gives some replica one document, and leaves the others.          *)
Gives(r, d) == stores' = [stores EXCEPT ![r] = d] /\ saved' = saved

(* Documents that come from d by a change to other parts than the risk.    *)
SameRisk(n, d) == Shape(n) /\ n.dims = d.dims /\ n.score = d.score /\ n.tier = d.tier

LEMMA GivesRisky ==
  ASSUME Risky, NEW r \in Replicas, NEW d, Gives(r, d), Shape(d), RiskOf(d)
  PROVE  Risky'
<1>1. /\ DOMAIN stores' = Replicas
      /\ \A q \in Replicas : stores'[q] = IF q = r THEN d ELSE stores[q]
  BY DEF Gives, Risky
<1>2. \A n \in Documents' : n = d \/ n \in Documents BY <1>1 DEF Documents, Gives
<1> QED BY <1>1, <1>2 DEF Risky

LEMMA SameRiskOf ==
  ASSUME NEW d, NEW n, RiskOf(d), SameRisk(n, d)
  PROVE  RiskOf(n)
BY DEF RiskOf, SameRisk

-----------------------------------------------------------------------------
(* What a step does, seen through the lists and maps: a change adds its    *)
(* time and its event to what is known, and at most these to the lists,    *)
(* writes its time into whole values of the maps, and adds one record to   *)
(* the change log.                                                         *)

Time == Cardinality(made) + 1

Written(b, n) ==
  \A p \in Entries :
    \/ n.maps[p] = b.maps[p]
    \/ DOMAIN n.maps[p] # {} /\ \A f \in DOMAIN n.maps[p] : n.maps[p][f] = Time

Grown(b, n) ==
  /\ Shape(n)
  /\ n.actor = b.actor
  /\ n.history = b.history \cup {NextChange(b)}
  /\ \E given \in SUBSET Events : /\ n.known = (b.known \cup given) \cup {Time}
                                   /\ n.events = b.events \cup given
  /\ b.journal \subseteq n.journal /\ n.journal \subseteq b.journal \cup {Time}
  /\ Written(b, n)

(* The document a change starts from: the store's, or a merge into it.     *)
Base(r, b) ==
  b = stores[r] \/ \E other \in Replicas : b = MergeDocs(stores[r], stores[other])

Changes(r) ==
  /\ \E b, n : /\ Base(r, b) /\ Grown(b, n) /\ RiskOf(n) /\ Gives(r, n)
               /\ made' = made \cup {NextChange(b)}
  /\ forked' = forked

LEMMA LogChanges ==
  ASSUME NEW r \in Replicas, NEW b, Base(r, b), NEW n, Shape(n), RiskOf(n),
         ApplyChange(r, n), NEW given \in SUBSET Events,
         n.actor = b.actor, n.history = b.history, n.known = b.known \cup given,
         b.journal \subseteq n.journal, n.journal \subseteq b.journal \cup {Time},
         n.events = b.events \cup given, Written(b, n)
  PROVE  Changes(r)
<1>1. /\ Shape(Logged(n))
      /\ Logged(n).journal = n.journal /\ Logged(n).events = n.events
      /\ Logged(n).maps = n.maps /\ Logged(n).dims = n.dims
      /\ Logged(n).score = n.score /\ Logged(n).tier = n.tier
      /\ Logged(n).known = n.known \cup {Time}
      /\ Logged(n).actor = n.actor
      /\ Logged(n).history = n.history \cup {NextChange(n)}
  BY LoggedFields DEF Time
<1>5. NextChange(n) = NextChange(b) BY DEF NextChange
<1>2. Grown(b, Logged(n)) BY <1>1, <1>5 DEF Grown, Written
<1>3. RiskOf(Logged(n)) BY <1>1, SameRiskOf DEF SameRisk
<1>4. Gives(r, Logged(n)) BY DEF ApplyChange, Gives
<1>6. made' = made \cup {NextChange(n)} /\ forked' = forked BY DEF ApplyChange
<1> QED BY <1>2, <1>3, <1>4, <1>5, <1>6 DEF Changes

LEMMA StoreGood ==
  ASSUME Risky, NEW r \in Replicas
  PROVE  Shape(stores[r]) /\ RiskOf(stores[r]) /\ stores[r] \in Documents
BY DEF Risky, Documents

LEMMA NowIsTime == \A r : Now(r) = Time
BY DEF Now, NextChange, Time

LEMMA AppendChanges ==
  ASSUME Risky, NEW r \in Replicas, AppendJournal(r)
  PROVE  Changes(r)
<1> DEFINE d == stores[r]
           J == d.journal \cup {Time}
           n == [d EXCEPT !.journal = J]
<1>1. ApplyChange(r, n) BY NowIsTime DEF AppendJournal
<1>2. Shape(d) /\ RiskOf(d) BY StoreGood
<1> HIDE DEF d, J, n
<1>3. n \in Record(d.actor, J, d.events, d.maps, d.dims, d.score, d.tier, d.history,
                   d.known)
  BY <1>2, RecordUpdates DEF Shape, n
<1>4. /\ n.actor = d.actor /\ n.journal = J /\ n.events = d.events /\ n.maps = d.maps
      /\ n.dims = d.dims /\ n.score = d.score /\ n.tier = d.tier
      /\ n.history = d.history /\ n.known = d.known
  BY <1>3, RecordFields
<1>5. Shape(n) BY <1>2, <1>3, <1>4 DEF Shape
<1>6. RiskOf(n) BY <1>2, <1>4 DEF RiskOf
<1>7. Base(r, d) BY DEF Base, d
<1>8. d.journal \subseteq J /\ J \subseteq d.journal \cup {Time} BY DEF J
<1>9. {} \in SUBSET Events /\ n.known = d.known \cup {} /\ n.events = d.events \cup {}
  BY <1>4
<1>10. Written(d, n) BY <1>4 DEF Written
<1> QED BY <1>1, <1>4, <1>5, <1>6, <1>7, <1>8, <1>9, <1>10, LogChanges

LEMMA UpsertChanges ==
  ASSUME Risky, NEW r \in Replicas, NEW places \in SUBSET Entries,
         NEW fields \in (SUBSET Fields) \ {{}}, Upsert(r, places, fields)
  PROVE  Changes(r)
<1> DEFINE d == stores[r]
           M == [e \in Entries |-> IF e \in places THEN [f \in fields |-> Time]
                                                   ELSE d.maps[e]]
           n == [d EXCEPT !.maps = M]
<1>1. ApplyChange(r, n) BY NowIsTime DEF Upsert
<1>2. Shape(d) /\ RiskOf(d) BY StoreGood
<1>3. DOMAIN M = Entries OBVIOUS
<1>4. \A p \in Entries :
        \/ M[p] = d.maps[p]
        \/ DOMAIN M[p] # {} /\ \A f \in DOMAIN M[p] : M[p][f] = Time
  <2> SUFFICES ASSUME NEW p \in Entries, p \in places
               PROVE  DOMAIN M[p] # {} /\ \A f \in DOMAIN M[p] : M[p][f] = Time
    OBVIOUS
  <2>1. M[p] = [f \in fields |-> Time] OBVIOUS
  <2> HIDE DEF M
  <2>2. DOMAIN M[p] = fields /\ \A f \in fields : M[p][f] = Time BY <2>1
  <2> QED BY <2>2
<1> HIDE DEF d, M, n
<1>5. n \in Record(d.actor, d.journal, d.events, M, d.dims, d.score, d.tier, d.history,
                   d.known)
  BY <1>2, RecordUpdates DEF Shape, n
<1>6. /\ n.actor = d.actor /\ n.journal = d.journal /\ n.events = d.events /\ n.maps = M
      /\ n.dims = d.dims /\ n.score = d.score /\ n.tier = d.tier
      /\ n.history = d.history /\ n.known = d.known
  BY <1>5, RecordFields
<1>7. Shape(n) BY <1>3, <1>5, <1>6 DEF Shape
<1>8. RiskOf(n) BY <1>2, <1>6 DEF RiskOf
<1>9. Base(r, d) BY DEF Base, d
<1>10. {} \in SUBSET Events /\ n.known = d.known \cup {} /\ n.events = d.events \cup {}
  BY <1>6
<1>11. d.journal \subseteq n.journal /\ n.journal \subseteq d.journal \cup {Time}
  BY <1>6
<1>12. Written(d, n) BY <1>4, <1>6 DEF Written
<1>13. n.actor = d.actor /\ n.history = d.history BY <1>6
<1> QED BY <1>1, <1>7, <1>8, <1>9, <1>10, <1>11, <1>12, <1>13, LogChanges

LEMMA UpdateRiskChanges ==
  ASSUME Risky, NEW r \in Replicas, NEW dims \in Assessments, NEW given \in SUBSET Events,
         UpdateRisk(r, dims, given)
  PROVE  Changes(r)
<1> DEFINE d == stores[r]
           S == ComputeComposite(dims)
           T == ScoreToTier(S)
           E == d.events \cup given
           K == d.known \cup given
           d1 == [d EXCEPT !.dims = dims]
           d2 == [d1 EXCEPT !.score = S]
           d3 == [d2 EXCEPT !.tier = T]
           d4 == [d3 EXCEPT !.events = E]
           n == [d4 EXCEPT !.known = K]
<1>2. Shape(d) /\ RiskOf(d) BY StoreGood
<1> HIDE DEF d, S, T, E, K, d1, d2, d3, d4, n
<1>3. d1 \in Record(d.actor, d.journal, d.events, d.maps, dims, d.score, d.tier,
                    d.history, d.known)
  BY <1>2, RecordUpdates DEF Shape, d1
<1>4. d2 \in Record(d.actor, d.journal, d.events, d.maps, dims, S, d.tier, d.history,
                    d.known)
  BY <1>3, RecordUpdates DEF d2
<1>5. d3 \in Record(d.actor, d.journal, d.events, d.maps, dims, S, T, d.history, d.known)
  BY <1>4, RecordUpdates DEF d3
<1>6. d4 \in Record(d.actor, d.journal, E, d.maps, dims, S, T, d.history, d.known)
  BY <1>5, RecordUpdates DEF d4
<1>7. n \in Record(d.actor, d.journal, E, d.maps, dims, S, T, d.history, K)
  BY <1>6, RecordUpdates DEF n
<1>8. d3.events = d.events /\ d4.known = d.known BY <1>5, <1>6, RecordFields
<1>9. n = [[[[[d EXCEPT !.dims = dims] EXCEPT !.score = S] EXCEPT !.tier = T]
             EXCEPT !.events = d3.events \cup given] EXCEPT !.known = d4.known \cup given]
  BY <1>8 DEF n, E, K, d1, d2, d3, d4
<1>10. ApplyChange(r, n)
  BY <1>9 DEF UpdateRisk, S, T, d, d1, d2, d3, d4, E
<1>11. /\ n.actor = d.actor /\ n.journal = d.journal /\ n.events = E /\ n.maps = d.maps
       /\ n.dims = dims /\ n.score = S /\ n.tier = T
       /\ n.history = d.history /\ n.known = K
  BY <1>7, RecordFields
<1>12. Shape(n) BY <1>2, <1>7, <1>11 DEF Shape
<1>13. RiskOf(n) BY <1>11 DEF RiskOf, S, T
<1>14. Base(r, d) BY DEF Base, d
<1>15. n.events = d.events \cup given /\ n.known = d.known \cup given
  BY <1>11 DEF E, K
<1>16. Written(d, n) BY <1>11 DEF Written
<1> QED BY <1>10, <1>11, <1>12, <1>13, <1>14, <1>15, <1>16, LogChanges

LEMMA MergeChanges ==
  ASSUME Risky, NEW r \in Replicas, NEW other \in Replicas, MergeWith(r, other),
         stores[other].score > stores[r].score
  PROVE  Changes(r)
<1> DEFINE m == MergeDocs(stores[r], stores[other])
           o == stores[other]
           d1 == [m EXCEPT !.score = o.score]
           d2 == [d1 EXCEPT !.tier = ScoreToTier(o.score)]
           n == [d2 EXCEPT !.dims = o.dims]
<1>1. Shape(stores[r]) /\ RiskOf(o) BY StoreGood
<1>2. Shape(m) BY <1>1, MergedFields
<1>3. ApplyChange(r, n) BY DEF MergeWith
<1>4. Base(r, m) BY DEF Base
<1> HIDE DEF m, o, d1, d2, n
<1>5. d1 \in Record(m.actor, m.journal, m.events, m.maps, m.dims, o.score, m.tier,
                    m.history, m.known)
  BY <1>2, RecordUpdates DEF Shape, d1
<1>6. d2 \in Record(m.actor, m.journal, m.events, m.maps, m.dims, o.score,
                    ScoreToTier(o.score), m.history, m.known)
  BY <1>5, RecordUpdates DEF d2
<1>7. n \in Record(m.actor, m.journal, m.events, m.maps, o.dims, o.score,
                   ScoreToTier(o.score), m.history, m.known)
  BY <1>6, RecordUpdates DEF n
<1>8. /\ n.actor = m.actor /\ n.journal = m.journal /\ n.events = m.events
      /\ n.maps = m.maps /\ n.dims = o.dims /\ n.score = o.score
      /\ n.tier = ScoreToTier(o.score) /\ n.history = m.history /\ n.known = m.known
  BY <1>7, RecordFields
<1>9. Shape(n) BY <1>2, <1>7, <1>8 DEF Shape
<1>10. RiskOf(n) BY <1>1, <1>8 DEF RiskOf
<1>11. {} \in SUBSET Events /\ n.known = m.known \cup {} /\ n.events = m.events \cup {}
  BY <1>8
<1>12. Written(m, n) BY <1>8 DEF Written
<1> QED BY <1>3, <1>4, <1>8, <1>9, <1>10, <1>11, <1>12, LogChanges

MergedIn(r) ==
  /\ \E other \in Replicas : Gives(r, MergeDocs(stores[r], stores[other]))
  /\ made' = made /\ forked' = forked

Saves(r) ==
  /\ stores' = stores /\ saved' = saved \cup {stores[r]}
  /\ made' = made /\ forked' = forked

(* An actor that is not forked by a load has no other store, and all its   *)
(* changes are in the bytes.                                               *)
Loads(r, d) ==
  /\ Gives(r, d) /\ made' = made
  /\ forked \subseteq forked'
  /\ d.actor \notin forked' =>
       /\ \A s \in Replicas \ {r} : stores[s].actor # d.actor
       /\ \A c \in made : c.actor = d.actor => c.time \in d.known

LEMMA NextEffects ==
  ASSUME Risky, [ContextNext]_contextVars
  PROVE  \/ UNCHANGED <<stores, saved, made, forked>>
         \/ \E r \in Replicas : Changes(r) \/ MergedIn(r) \/ Saves(r)
         \/ \E r \in Replicas, d \in saved : Loads(r, d)
<1>1. ASSUME NEW r \in Replicas, NEW other \in Replicas \ {r}, MergeWith(r, other)
      PROVE  Changes(r) \/ MergedIn(r)
  <2>1. CASE stores[other].score > stores[r].score BY <1>1, <2>1, MergeChanges
  <2>2. CASE ~(stores[other].score > stores[r].score)
    BY <1>1, <2>2 DEF MergeWith, MergedIn, Gives
  <2> QED BY <2>1, <2>2
<1>2. ASSUME NEW r \in Replicas, Save(r)
      PROVE  Saves(r)
  BY <1>2 DEF Save, Saves
<1>3. ASSUME NEW r \in Replicas, NEW d \in saved, Load(r, d)
      PROVE  Loads(r, d)
  BY <1>3 DEF Load, Loads, Gives
<1>4. ASSUME NEW r \in Replicas, NEW places \in (SUBSET Entries) \ {{}},
             NEW fields \in (SUBSET Fields) \ {{}}, Upsert(r, places, fields)
      PROVE  Changes(r)
  BY <1>4, UpsertChanges
<1>5. ASSUME NEW r \in Replicas, NEW dims \in Assessments,
             NEW given \in {{}} \cup {{e} : e \in Events}, UpdateRisk(r, dims, given)
      PROVE  Changes(r)
  <2>1. given \in SUBSET Events OBVIOUS
  <2> QED BY <1>5, <2>1, UpdateRiskChanges
<1> QED BY <1>1, <1>2, <1>3, <1>4, <1>5, AppendChanges
        DEF ContextNext, contextVars

LEMMA InitRisky == ContextInit => Risky
BY NewRisk, NewShape DEF ContextInit, Risky, Documents

LEMMA NextRisky == Risky /\ [ContextNext]_contextVars => Risky'
<1> SUFFICES ASSUME Risky, [ContextNext]_contextVars PROVE Risky'
  OBVIOUS
<1>1. CASE UNCHANGED <<stores, saved, made, forked>> BY <1>1 DEF Risky, Documents
<1>2. ASSUME NEW r \in Replicas, Changes(r) PROVE Risky'
  BY <1>2, GivesRisky DEF Changes, Grown
<1>3. ASSUME NEW r \in Replicas, MergedIn(r) PROVE Risky'
  <2>1. PICK other \in Replicas : Gives(r, MergeDocs(stores[r], stores[other]))
    BY <1>3 DEF MergedIn
  <2>2. Shape(stores[r]) /\ RiskOf(stores[r]) BY StoreGood
  <2>3. SameRisk(MergeDocs(stores[r], stores[other]), stores[r])
    BY <2>2, MergedFields DEF SameRisk
  <2> QED BY <2>1, <2>2, <2>3, SameRiskOf, GivesRisky DEF SameRisk
<1>4. ASSUME NEW r \in Replicas, Saves(r) PROVE Risky'
  BY <1>4 DEF Saves, Risky, Documents
<1>5. ASSUME NEW r \in Replicas, NEW d \in saved, Loads(r, d) PROVE Risky'
  BY <1>5, GivesRisky DEF Loads, Risky, Documents
<1> QED BY <1>1, <1>2, <1>3, <1>4, <1>5, NextEffects

(* The score is that of the dimensions and the tier that of the score, in  *)
(* every store and whatever was merged, saved and loaded in which order.   *)
THEOREM RiskTheorem == ContextSpec => []RiskConsistent
<1>1. Risky => RiskConsistent BY DEF Risky, RiskConsistent, RiskOf, Documents
<1> QED BY <1>1, InitRisky, NextRisky, PTL DEF ContextSpec

-----------------------------------------------------------------------------
(* A merge understates no risk.                                            *)

NotLowered ==
  \A r \in Replicas, other \in Replicas :
    r # other /\ MergeWith(r, other) =>
      /\ stores'[r].score >= stores[r].score
      /\ stores'[r].score >= stores[other].score

LEMMA NextNotLowered == Risky => NotLowered
<1> SUFFICES ASSUME Risky, NEW r \in Replicas, NEW other \in Replicas,
                    MergeWith(r, other)
             PROVE  /\ stores'[r].score >= stores[r].score
                    /\ stores'[r].score >= stores[other].score
  BY DEF NotLowered
<1>1. /\ Shape(stores[r]) /\ RiskOf(stores[r]) /\ RiskOf(stores[other])
      /\ DOMAIN stores = Replicas
  BY StoreGood DEF Risky
<1>2. stores[r].score \in Nat /\ stores[other].score \in Nat
  BY <1>1, CompositeNatural DEF RiskOf
<1> DEFINE m == MergeDocs(stores[r], stores[other])
           o == stores[other]
<1>3. Shape(m) /\ m.score = stores[r].score BY <1>1, MergedFields
<1>4. CASE o.score > stores[r].score
  <2> DEFINE d1 == [m EXCEPT !.score = o.score]
             d2 == [d1 EXCEPT !.tier = ScoreToTier(o.score)]
             n == [d2 EXCEPT !.dims = o.dims]
  <2>1. stores'[r] = Logged(n) BY <1>1, <1>4 DEF MergeWith, ApplyChange
  <2> HIDE DEF m, d1, d2, n
  <2>2. d1 \in Record(m.actor, m.journal, m.events, m.maps, m.dims, o.score, m.tier,
                      m.history, m.known)
    BY <1>3, RecordUpdates DEF Shape, d1
  <2>3. d2 \in Record(m.actor, m.journal, m.events, m.maps, m.dims, o.score,
                      ScoreToTier(o.score), m.history, m.known)
    BY <2>2, RecordUpdates DEF d2
  <2>4. n \in Record(m.actor, m.journal, m.events, m.maps, o.dims, o.score,
                     ScoreToTier(o.score), m.history, m.known)
    BY <2>3, RecordUpdates DEF n
  <2>5. /\ n.actor = m.actor /\ n.journal = m.journal /\ n.events = m.events
        /\ n.maps = m.maps /\ n.dims = o.dims /\ n.score = o.score
        /\ n.tier = ScoreToTier(o.score) /\ n.history = m.history /\ n.known = m.known
    BY <2>4, RecordFields
  <2>6. Shape(n) BY <1>3, <2>4, <2>5 DEF Shape
  <2>7. stores'[r].score = o.score BY <2>1, <2>5, <2>6, LoggedFields
  <2> QED BY <1>2, <1>4, <2>7
<1>5. CASE ~(o.score > stores[r].score)
  <2>1. stores'[r] = m BY <1>1, <1>5 DEF MergeWith
  <2> HIDE DEF m
  <2> QED BY <1>2, <1>3, <1>5, <2>1
<1> QED BY <1>4, <1>5

(* The merged store is at least as worried as either side was.             *)
THEOREM MergeTheorem == ContextSpec => MergeNeverUnderstates
<1>1. ContextSpec => [][NotLowered]_contextVars
  BY InitRisky, NextRisky, NextNotLowered, PTL DEF ContextSpec
<1> QED BY <1>1, PTL DEF MergeNeverUnderstates, NotLowered

-----------------------------------------------------------------------------
(* No write is lost.  The invariant is about all documents, the saved ones *)
(* too, pairwise: what one holds and another knows of, the other holds.    *)

Held(d) ==
  /\ d.journal \subseteq d.known \ Events
  /\ d.events \subseteq d.known
  /\ \A p \in Entries : \A f \in DOMAIN d.maps[p] : d.maps[p][f] \in d.known \ Events

Agree(d, e) ==
  /\ e.journal \cap d.known \subseteq d.journal
  /\ e.events \cap d.known \subseteq d.events
  /\ \A p \in Entries : \A f \in DOMAIN e.maps[p] :
       e.maps[p][f] \in d.known => DOMAIN d.maps[p] # {}

Fits(d) ==
  /\ Held(d)
  /\ d.known \subseteq (1..Cardinality(made)) \cup Events
  /\ d.events = d.known \cap Events
  /\ \A e \in Documents : Agree(d, e) /\ Agree(e, d)

MadeCounted ==
  /\ IsFiniteSet(made)
  /\ \A c \in made : c.time \in 1..Cardinality(made)

Kept == Risky /\ MadeCounted /\ \A d \in Documents : Fits(d)

LEMMA MergeValueFields ==
  ASSUME NEW x, NEW y
  PROVE  /\ DOMAIN MergeValue(x, y) = DOMAIN x \cup DOMAIN y
         /\ \A f \in DOMAIN MergeValue(x, y) :
              \/ f \in DOMAIN x /\ MergeValue(x, y)[f] = x[f]
              \/ f \in DOMAIN y /\ MergeValue(x, y)[f] = y[f]
BY DEF MergeValue

(* A merge holds what both sides hold and knows no more than they do.      *)
LEMMA MergedFits ==
  ASSUME Kept, NEW r \in Replicas, NEW other \in Replicas
  PROVE  Fits(MergeDocs(stores[r], stores[other]))
<1> DEFINE d == stores[r]
           o == stores[other]
           m == MergeDocs(d, o)
<1>1. Shape(d) /\ Fits(d) /\ Fits(o) /\ d \in Documents /\ o \in Documents
  BY StoreGood DEF Kept
<1>2. /\ m.journal = d.journal \cup o.journal
      /\ m.events = d.events \cup o.events
      /\ m.known = d.known \cup o.known
      /\ \A p \in Entries : m.maps[p] = MergeValue(d.maps[p], o.maps[p])
  BY <1>1, MergedFields
<1>3. \A p \in Entries :
        /\ DOMAIN m.maps[p] = DOMAIN d.maps[p] \cup DOMAIN o.maps[p]
        /\ \A f \in DOMAIN m.maps[p] :
             \/ f \in DOMAIN d.maps[p] /\ m.maps[p][f] = d.maps[p][f]
             \/ f \in DOMAIN o.maps[p] /\ m.maps[p][f] = o.maps[p][f]
  <2> SUFFICES ASSUME NEW p \in Entries
               PROVE  /\ DOMAIN m.maps[p] = DOMAIN d.maps[p] \cup DOMAIN o.maps[p]
                      /\ \A f \in DOMAIN m.maps[p] :
                           \/ f \in DOMAIN d.maps[p] /\ m.maps[p][f] = d.maps[p][f]
                           \/ f \in DOMAIN o.maps[p] /\ m.maps[p][f] = o.maps[p][f]
    OBVIOUS
  <2>1. m.maps[p] = MergeValue(d.maps[p], o.maps[p]) BY <1>2
  <2> DEFINE v == m.maps[p]
             x == d.maps[p]
             y == o.maps[p]
  <2>2. v = MergeValue(x, y) BY <2>1
  <2> HIDE DEF v, x, y
  <2>3. /\ DOMAIN v = DOMAIN x \cup DOMAIN y
        /\ \A f \in DOMAIN v : \/ f \in DOMAIN x /\ v[f] = x[f]
                               \/ f \in DOMAIN y /\ v[f] = y[f]
    BY <2>2, MergeValueFields
  <2> QED BY <2>3 DEF v, x, y
<1> HIDE DEF d, o, m
<1>4. Held(m) BY <1>1, <1>2, <1>3 DEF Fits, Held
<1>5. /\ m.known \subseteq (1..Cardinality(made)) \cup Events
      /\ m.events = m.known \cap Events
  BY <1>1, <1>2 DEF Fits
<1>6. ASSUME NEW e \in Documents PROVE Agree(m, e) /\ Agree(e, m)
  <2>1. Agree(d, e) /\ Agree(o, e) /\ Agree(e, d) /\ Agree(e, o)
    BY <1>1 DEF Fits
  <2>2. Agree(m, e) BY <1>2, <1>3, <2>1 DEF Agree
  <2>3. Agree(e, m) BY <1>2, <1>3, <2>1 DEF Agree
  <2> QED BY <2>2, <2>3
<1>7. Fits(m) BY <1>4, <1>5, <1>6 DEF Fits
<1> QED BY <1>7 DEF m, d, o

LEMMA SelfAgree ==
  ASSUME NEW d, Held(d)
  PROVE  Agree(d, d)
BY DEF Agree, Held

(* A change is new to everybody.                                           *)
LEMMA TimeIsNew ==
  ASSUME Kept
  PROVE  /\ Cardinality(made) \in Nat
         /\ Time \notin 1..Cardinality(made)
         /\ Time \in 1..Time
         /\ 1..Cardinality(made) \subseteq 1..Time
         /\ Time \in Nat /\ Time \notin Events
         /\ \A d \in Documents : Time \notin d.known
<1>1. Cardinality(made) \in Nat BY FS_CardinalityType DEF Kept, MadeCounted
<1>2. Time \in Nat /\ Time \notin 1..Cardinality(made) BY <1>1 DEF Time
<1>3. Time \notin Events BY <1>2, ContextAssumption
<1>4. \A d \in Documents : Time \notin d.known BY <1>2, <1>3 DEF Kept, Fits
<1> QED BY <1>1, <1>2, <1>3, <1>4 DEF Time

LEMMA GrownFits ==
  ASSUME Kept, NEW b, Fits(b), NEW n, Grown(b, n)
  PROVE  /\ Held(n)
         /\ n.known \subseteq (1..Time) \cup Events
         /\ n.events = n.known \cap Events
         /\ \A e \in Documents : Agree(n, e) /\ Agree(e, n)
<1>0. PICK given \in SUBSET Events : /\ n.known = (b.known \cup given) \cup {Time}
                                     /\ n.events = b.events \cup given
  BY DEF Grown
<1>1. Held(n)
  <2>1. Held(b) BY DEF Fits
  <2>2. n.journal \subseteq n.known \ Events /\ n.events \subseteq n.known
    BY <1>0, <2>1, TimeIsNew DEF Held, Grown
  <2>3. \A p \in Entries : \A f \in DOMAIN n.maps[p] : n.maps[p][f] \in n.known \ Events
    BY <1>0, <2>1, TimeIsNew DEF Held, Grown, Written
  <2> QED BY <2>2, <2>3 DEF Held
<1>2. /\ n.known \subseteq (1..Time) \cup Events
      /\ n.events = n.known \cap Events
  BY <1>0, TimeIsNew DEF Fits
<1>3. ASSUME NEW e \in Documents PROVE Agree(n, e) /\ Agree(e, n)
  <2>1. Agree(b, e) /\ Agree(e, b) BY DEF Fits
  <2>2. Held(e) /\ Time \notin e.known /\ e.events = e.known \cap Events
    BY TimeIsNew DEF Kept, Fits
  <2>3. Agree(n, e)
    <3>1. e.journal \cap n.known \subseteq n.journal
      BY <1>0, <2>1, <2>2 DEF Agree, Held, Grown
    <3>3. e.events \cap n.known \subseteq n.events BY <1>2, <2>2
    <3>2. ASSUME NEW p \in Entries, NEW f \in DOMAIN e.maps[p],
                 e.maps[p][f] \in n.known
          PROVE  DOMAIN n.maps[p] # {}
      <4>1. e.maps[p][f] \in b.known BY <1>0, <2>2, <3>2 DEF Held
      <4>2. DOMAIN b.maps[p] # {} BY <2>1, <4>1 DEF Agree
      <4> QED BY <4>2 DEF Grown, Written
    <3> QED BY <3>1, <3>2, <3>3 DEF Agree
  <2>4. Agree(e, n)
    <3>1. n.journal \cap e.known \subseteq e.journal BY <2>1, <2>2 DEF Agree, Grown
    <3>3. n.events \cap e.known \subseteq e.events BY <1>2, <2>2
    <3>2. ASSUME NEW p \in Entries, NEW f \in DOMAIN n.maps[p],
                 n.maps[p][f] \in e.known
          PROVE  DOMAIN e.maps[p] # {}
      <4>1. n.maps[p] = b.maps[p] BY <2>2, <3>2 DEF Grown, Written
      <4> QED BY <2>1, <3>2, <4>1 DEF Agree
    <3> QED BY <3>1, <3>2, <3>3 DEF Agree
  <2> QED BY <2>3, <2>4
<1> QED BY <1>1, <1>2, <1>3

-----------------------------------------------------------------------------
(* The steps.                                                              *)

LEMMA InitKept == ContextInit => Kept
<1> SUFFICES ASSUME ContextInit PROVE Kept
  OBVIOUS
<1>1. Risky BY InitRisky
<1>2. IsFiniteSet(made) /\ Cardinality(made) = 0 /\ made = {}
  BY FS_EmptySet DEF ContextInit
<1>3. \A d \in Documents : /\ d.journal = {} /\ d.events = {} /\ d.known = {}
                           /\ \A p \in Entries : d.maps[p] = <<>>
  BY DEF ContextInit, Documents, CreateDoc
<1>4. DOMAIN <<>> = {} OBVIOUS
<1>5. ASSUME NEW d \in Documents, NEW e \in Documents PROVE Held(d) /\ Agree(d, e)
  BY <1>3, <1>4 DEF Held, Agree
<1>6. ASSUME NEW d \in Documents PROVE Fits(d)
  BY <1>3, <1>5 DEF Fits
<1> QED BY <1>1, <1>2, <1>6 DEF Kept, MadeCounted

(* Giving a store a document that fits, with no change made.               *)
LEMMA GivesKept ==
  ASSUME Kept, Risky', NEW r \in Replicas, NEW d, Gives(r, d), Fits(d), made' = made
  PROVE  Kept'
<1>1. \A n \in Documents' : n = d \/ n \in Documents
  BY DEF Documents, Gives, Kept, Risky
<1>2. ASSUME NEW n \in Documents' PROVE Fits(n)'
  <2>1. Fits(n) BY <1>1 DEF Kept
  <2>2. ASSUME NEW e \in Documents' PROVE Agree(n, e) /\ Agree(e, n)
    <3>1. CASE e \in Documents BY <2>1, <3>1 DEF Fits
    <3>2. CASE n \in Documents
      <4>1. Fits(e) BY <1>1 DEF Kept
      <4> QED BY <3>2, <4>1 DEF Fits
    <3>3. CASE e = d /\ n = d BY <3>3, SelfAgree DEF Fits
    <3> QED BY <1>1, <3>1, <3>2, <3>3
  <2> QED BY <2>1, <2>2 DEF Fits
<1>3. MadeCounted' BY DEF MadeCounted, Kept
<1> QED BY <1>2, <1>3 DEF Kept

LEMMA ChangesKept ==
  ASSUME Kept, Risky', NEW r \in Replicas, Changes(r)
  PROVE  Kept'
<1>1. PICK b, n : /\ Base(r, b) /\ Grown(b, n) /\ RiskOf(n) /\ Gives(r, n)
                  /\ made' = made \cup {NextChange(b)}
  BY DEF Changes
<1>2. PICK c : c.time = Time /\ made' = made \cup {c} BY <1>1 DEF NextChange, Time
<1>3. Fits(b)
  <2>1. Fits(stores[r]) BY StoreGood DEF Kept
  <2> QED BY <1>1, <2>1, MergedFits DEF Base
<1>4. /\ Held(n) /\ n.known \subseteq (1..Time) \cup Events
      /\ n.events = n.known \cap Events
      /\ \A e \in Documents : Agree(n, e) /\ Agree(e, n)
  BY <1>1, <1>3, GrownFits
<1>5. IsFiniteSet(made') /\ Cardinality(made') = Time
  <2>1. c \notin made BY <1>2, TimeIsNew DEF Kept, MadeCounted
  <2>2. IsFiniteSet(made) BY DEF Kept, MadeCounted
  <2> QED BY <1>2, <2>1, <2>2, FS_AddElement DEF Time
<1>6. MadeCounted' BY <1>2, <1>5, TimeIsNew DEF Kept, MadeCounted
<1>7. \A e \in Documents' : e = n \/ e \in Documents
  BY <1>1 DEF Documents, Gives, Kept, Risky
<1>8. ASSUME NEW d \in Documents' PROVE Fits(d)'
  <2>1. d = n \/ (d \in Documents /\ Fits(d)) BY <1>7 DEF Kept
  <2>2. /\ Held(d) /\ d.known \subseteq (1..Time) \cup Events
        /\ d.events = d.known \cap Events
    BY <1>4, <2>1, TimeIsNew DEF Fits
  <2>3. ASSUME NEW e \in Documents' PROVE Agree(d, e) /\ Agree(e, d)
    <3>1. CASE e \in Documents BY <1>4, <2>1, <3>1 DEF Fits
    <3>2. CASE d \in Documents /\ e = n BY <1>4, <3>2
    <3>3. CASE d = n /\ e = n BY <1>4, <3>3, SelfAgree
    <3> QED BY <1>7, <2>1, <3>1, <3>2, <3>3
  <2> QED BY <1>5, <2>2, <2>3 DEF Fits
<1> QED BY <1>6, <1>8 DEF Kept

LEMMA NextKept == Kept /\ [ContextNext]_contextVars => Kept'
<1> SUFFICES ASSUME Kept, [ContextNext]_contextVars PROVE Kept'
  OBVIOUS
<1>0. Risky /\ Risky' BY NextRisky DEF Kept
<1>1. CASE UNCHANGED <<stores, saved, made, forked>>
  <2>1. Documents' = Documents BY <1>1 DEF Documents
  <2>2. \A d \in Documents' : Fits(d)' BY <1>1, <2>1 DEF Kept, Fits, Held, Agree
  <2>3. MadeCounted' BY <1>1 DEF Kept, MadeCounted
  <2> QED BY <1>0, <2>2, <2>3 DEF Kept
<1>2. ASSUME NEW r \in Replicas, Changes(r) PROVE Kept'
  BY <1>0, <1>2, ChangesKept
<1>3. ASSUME NEW r \in Replicas, MergedIn(r) PROVE Kept'
  BY <1>0, <1>3, MergedFits, GivesKept DEF MergedIn
<1>4. ASSUME NEW r \in Replicas, Saves(r) PROVE Kept'
  <2>0. stores' = stores /\ saved' = saved \cup {stores[r]} /\ made' = made
    BY <1>4 DEF Saves
  <2>1. Documents' = Documents BY <2>0 DEF Documents
  <2>2. \A d \in Documents' : Fits(d)' BY <2>0, <2>1 DEF Kept, Fits, Held, Agree
  <2>3. MadeCounted' BY <2>0 DEF Kept, MadeCounted
  <2> QED BY <1>0, <2>2, <2>3 DEF Kept
<1>5. ASSUME NEW r \in Replicas, NEW d \in saved, Loads(r, d) PROVE Kept'
  <2>1. Fits(d) BY DEF Kept, Documents
  <2> QED BY <1>0, <1>5, <2>1, GivesKept DEF Loads
<1> QED BY <1>0, <1>1, <1>2, <1>3, <1>4, <1>5, NextEffects

(* An entry that reached a store on any way through merges, saved bytes    *)
(* and loads is in its lists and stays there.                              *)
THEOREM JournalTheorem == ContextSpec => []JournalKept
<1>1. Kept => JournalKept
  <2> SUFFICES ASSUME Kept, NEW r \in Replicas, NEW s \in Replicas
               PROVE  /\ stores[s].journal \cap stores[r].known \subseteq stores[r].journal
                      /\ stores[s].events \cap stores[r].known \subseteq stores[r].events
                      /\ stores[r].journal \cup stores[r].events \subseteq stores[r].known
                      /\ \A e \in Entries : \A f \in DOMAIN stores[s].maps[e] :
                           stores[s].maps[e][f] \in stores[r].known
                             => DOMAIN stores[r].maps[e] # {}
    BY DEF JournalKept
  <2>1. stores[r] \in Documents /\ stores[s] \in Documents BY DEF Documents
  <2>2. Agree(stores[r], stores[s]) /\ Held(stores[r]) BY <2>1 DEF Kept, Fits
  <2> QED BY <2>2 DEF Agree, Held
<1> QED BY <1>1, InitKept, NextKept, PTL DEF ContextSpec
-----------------------------------------------------------------------------
(* The change log.  Numbers collide, since a log numbers by its length and *)
(* a merge or a load changes that; but not the numbers one writer gives,   *)
(* as long as it is the only one under its actor: its log has all its      *)
(* changes, none twice, and never gets shorter.                            *)

Unique(h) == \A c, d \in h : c.actor = d.actor /\ c.seq = d.seq => c = d

FirstRecord(c) == c = [actor |-> c.actor, seq |-> 1, time |-> 0]

(* What a log holds, and what it has of the changes its document knows.    *)
Logs(d) ==
  /\ IsFiniteSet(d.history)
  /\ \E c \in d.history : FirstRecord(c)
  /\ \A c \in d.history : c \in made \/ FirstRecord(c)
  /\ \A c \in made : c.time \in d.known /\ c.actor \notin forked => c \in d.history

(* The log of a document that is the only one written under its actor.     *)
Numbers(d) ==
  d.actor \notin forked =>
    /\ Unique(d.history)
    /\ \A c \in d.history : c.actor = d.actor => c.seq <= Cardinality(d.history)

MadeNumbered ==
  /\ \A c \in made : c.seq \in Nat /\ c.seq > 1
  /\ \A c, d \in made : c.actor = d.actor /\ c.seq = d.seq /\ c.actor \notin forked => c = d

(* An actor has one store, which knows all changes made under it.          *)
Owned ==
  /\ \A r, s \in Replicas :
       r # s /\ stores[r].actor = stores[s].actor => stores[r].actor \in forked
  /\ \A r \in Replicas, c \in made :
       c.actor = stores[r].actor /\ c.actor \notin forked => c.time \in stores[r].known

Audited ==
  /\ Kept
  /\ MadeNumbered
  /\ Owned
  /\ \A d \in Documents : Logs(d) /\ Numbers(d)

(* What joining two logs keeps: all of a log without doubles, every first  *)
(* record, and every change of an actor that is not forked.                *)
LEMMA JoinedLogs ==
  ASSUME MadeCounted, MadeNumbered, NEW h, NEW k,
         \A c \in h \cup k : c \in made \/ FirstRecord(c)
  PROVE  /\ MergeHistories(h, k) \subseteq h \cup k
         /\ Unique(MergeHistories(h, k))
         /\ Unique(h) => h \subseteq MergeHistories(h, k)
         /\ \A c \in h \cup k : FirstRecord(c) => c \in MergeHistories(h, k)
         /\ \A c \in h \cup k : c \in made /\ c.actor \notin forked => c \in MergeHistories(h, k)
<1> DEFINE First(c, d) == IF c \in h /\ d \in h THEN c.time < d.time
                          ELSE c \in h \/ (d \notin h /\ c.time < d.time)
           Kin(c, d) == d.actor = c.actor /\ d.seq = c.seq
<1>1. MergeHistories(h, k) =
        {c \in h \cup k : \A d \in (h \cup k) \ {c} : Kin(c, d) => First(c, d)}
  BY DEF MergeHistories
<1>2. \A c \in h \cup k : c.time \in Nat
  <2> SUFFICES ASSUME NEW c \in h \cup k PROVE c.time \in Nat
    OBVIOUS
  <2>1. CASE c \in made
    <3>1. Cardinality(made) \in Nat BY FS_CardinalityType DEF MadeCounted
    <3> QED BY <2>1, <3>1 DEF MadeCounted
  <2>2. CASE FirstRecord(c) BY <2>2 DEF FirstRecord
  <2> QED BY <2>1, <2>2
<1>3. Unique(MergeHistories(h, k))
  <2> SUFFICES ASSUME NEW c \in MergeHistories(h, k), NEW d \in MergeHistories(h, k),
                      Kin(c, d), c # d
               PROVE  FALSE
    BY DEF Unique
  <2>1. c \in h \cup k /\ d \in h \cup k BY <1>1
  <2>2. First(c, d) BY <1>1, <2>1
  <2>3. First(d, c) BY <1>1, <2>1
  <2>4. c.time \in Nat /\ d.time \in Nat BY <1>2, <2>1
  <2> QED BY <2>2, <2>3, <2>4
<1>4. ASSUME Unique(h), NEW c \in h PROVE c \in MergeHistories(h, k)
  <2> SUFFICES ASSUME NEW d \in (h \cup k) \ {c}, Kin(c, d) PROVE First(c, d)
    BY <1>1, <1>4
  <2>1. d \notin h BY <1>4 DEF Unique
  <2> QED BY <1>4, <2>1
<1>5. ASSUME NEW c \in h \cup k, FirstRecord(c) PROVE c \in MergeHistories(h, k)
  <2> SUFFICES ASSUME NEW d \in (h \cup k) \ {c}, Kin(c, d) PROVE FALSE
    BY <1>1, <1>5
  <2>1. c.seq = 1 BY <1>5 DEF FirstRecord
  <2>2. FirstRecord(d) BY <2>1 DEF MadeNumbered
  <2> QED BY <1>5, <2>2 DEF FirstRecord
<1>6. ASSUME NEW c \in h \cup k, c \in made, c.actor \notin forked
      PROVE  c \in MergeHistories(h, k)
  <2> SUFFICES ASSUME NEW d \in (h \cup k) \ {c}, Kin(c, d) PROVE FALSE
    BY <1>1, <1>6
  <2>1. CASE d \in made BY <1>6, <2>1 DEF MadeNumbered
  <2>2. CASE FirstRecord(d)
    <3>1. d.seq = 1 BY <2>2 DEF FirstRecord
    <3>2. c.seq = 1 BY <3>1
    <3>3. c.seq \in Nat /\ c.seq > 1 BY <1>6 DEF MadeNumbered
    <3> QED BY <3>2, <3>3
  <2> QED BY <2>1, <2>2
<1> QED BY <1>1, <1>3, <1>4, <1>5, <1>6

LEMMA LogCounted ==
  ASSUME NEW d, Logs(d)
  PROVE  Cardinality(d.history) \in Nat /\ Cardinality(d.history) >= 1
<1>1. IsFiniteSet(d.history) /\ d.history # {} BY DEF Logs
<1>2. Cardinality(d.history) \in Nat /\ Cardinality(d.history) # 0
  BY <1>1, FS_CardinalityType, FS_EmptySet
<1> QED BY <1>2

LEMMA MergedLogs ==
  ASSUME Audited, NEW r \in Replicas, NEW other \in Replicas
  PROVE  /\ Logs(MergeDocs(stores[r], stores[other]))
         /\ Numbers(MergeDocs(stores[r], stores[other]))
         /\ MergeDocs(stores[r], stores[other]).actor = stores[r].actor
         /\ stores[r].known \subseteq MergeDocs(stores[r], stores[other]).known
<1> DEFINE d == stores[r]
           o == stores[other]
           m == MergeDocs(d, o)
<1>1. /\ Shape(d) /\ Logs(d) /\ Numbers(d) /\ Logs(o)
      /\ MadeCounted /\ MadeNumbered
  BY StoreGood DEF Audited, Kept
<1>2. /\ m.actor = d.actor /\ m.known = d.known \cup o.known
      /\ m.history = MergeHistories(d.history, o.history)
  BY <1>1, MergedFields
<1>3. \A c \in made : c.actor = d.actor /\ c.actor \notin forked => c.time \in d.known
  BY DEF Audited, Owned
<1> HIDE DEF d, o, m
<1>4. \A c \in d.history \cup o.history : c \in made \/ FirstRecord(c) BY <1>1 DEF Logs
<1>5. /\ m.history \subseteq d.history \cup o.history
      /\ Unique(m.history)
      /\ Unique(d.history) => d.history \subseteq m.history
      /\ \A c \in d.history \cup o.history : FirstRecord(c) => c \in m.history
      /\ \A c \in d.history \cup o.history : c \in made /\ c.actor \notin forked
                                                => c \in m.history
  BY <1>1, <1>2, <1>4, JoinedLogs
<1>6. Logs(m)
  <2>1. IsFiniteSet(m.history)
    BY <1>1, <1>5, FS_Union, FS_Subset DEF Logs
  <2>2. \E c \in m.history : FirstRecord(c) BY <1>1, <1>5 DEF Logs
  <2>3. \A c \in m.history : c \in made \/ FirstRecord(c) BY <1>4, <1>5
  <2>4. ASSUME NEW c \in made, c.time \in m.known, c.actor \notin forked
        PROVE  c \in m.history
    <3>1. c \in d.history \cup o.history BY <1>1, <1>2, <2>4 DEF Logs
    <3> QED BY <1>5, <2>4, <3>1
  <2> QED BY <2>1, <2>2, <2>3, <2>4 DEF Logs
<1>7. Numbers(m)
  <2> SUFFICES ASSUME d.actor \notin forked, NEW c \in m.history, c.actor = d.actor
               PROVE  c.seq <= Cardinality(m.history)
    BY <1>2, <1>5 DEF Numbers
  <2>1. CASE c \in made
    <3>1. c \in d.history BY <1>1, <1>3, <2>1 DEF Logs
    <3>2. c.seq <= Cardinality(d.history) BY <1>1, <3>1 DEF Numbers
    <3>3. Cardinality(d.history) <= Cardinality(m.history)
      BY <1>1, <1>5, <1>6, FS_Subset DEF Logs, Numbers
    <3>4. c.seq \in Nat BY <1>1, <2>1 DEF MadeNumbered
    <3> QED BY <1>1, <1>6, <3>2, <3>3, <3>4, LogCounted
  <2>2. CASE FirstRecord(c)
    <3>1. c.seq = 1 BY <2>2 DEF FirstRecord
    <3> QED BY <1>6, <3>1, LogCounted
  <2> QED BY <1>4, <1>5, <2>1, <2>2
<1>8. d.known \subseteq m.known BY <1>2
<1> QED BY <1>2, <1>6, <1>7, <1>8 DEF m, d, o

(* A new change of an actor that is not forked has a number of its own.    *)
LEMMA ChangesAudited ==
  ASSUME Audited, Kept', NEW r \in Replicas, Changes(r)
  PROVE  Audited'
<1>1. PICK b, n : /\ Base(r, b) /\ Grown(b, n) /\ Gives(r, n)
                  /\ made' = made \cup {NextChange(b)}
  BY DEF Changes
<1>2. forked' = forked BY DEF Changes
<1> DEFINE c0 == NextChange(b)
<1>3. /\ c0.actor = b.actor /\ c0.seq = Cardinality(b.history) + 1 /\ c0.time = Time
  BY DEF NextChange, Time
<1> HIDE DEF c0
<1>4. /\ Logs(b) /\ Numbers(b) /\ b.actor = stores[r].actor
      /\ stores[r].known \subseteq b.known
  <2>1. Logs(stores[r]) /\ Numbers(stores[r]) BY StoreGood DEF Audited, Kept
  <2> QED BY <1>1, <2>1, MergedLogs DEF Base
<1>5. Cardinality(b.history) \in Nat /\ Cardinality(b.history) >= 1 BY <1>4, LogCounted
<1>6. c0.seq \in Nat /\ c0.seq > 1 BY <1>3, <1>5
<1>7. MadeNumbered /\ Owned /\ MadeCounted /\ DOMAIN stores = Replicas
  BY DEF Audited, Kept, Risky
<1>8. ASSUME NEW c \in made, c.actor = b.actor, c.actor \notin forked
      PROVE  c \in b.history /\ c.seq <= Cardinality(b.history)
  <2>1. c.time \in b.known BY <1>4, <1>7, <1>8 DEF Owned
  <2>2. c \in b.history BY <1>4, <1>8, <2>1 DEF Logs
  <2> QED BY <1>4, <1>8, <2>2 DEF Numbers
<1>9. MadeNumbered'
  <2>1. \A c \in made' : c = c0 \/ c \in made BY <1>1 DEF c0
  <2>2. ASSUME NEW c \in made, c.actor = c0.actor, c.seq = c0.seq, c.actor \notin forked
        PROVE  FALSE
    <3>1. c.seq <= Cardinality(b.history) BY <1>3, <1>8, <2>2
    <3> QED BY <1>3, <1>5, <2>2, <3>1
  <2> QED BY <1>2, <1>6, <1>7, <2>1, <2>2 DEF MadeNumbered
<1>10. /\ n.actor = b.actor /\ n.history = b.history \cup {c0}
       /\ \E given \in SUBSET Events : n.known = (b.known \cup given) \cup {Time}
  BY <1>1 DEF Grown, c0
<1>11. \A c \in made : c.time # Time /\ c.time \notin Events
  <2>1. \A c \in made : c.time \in 1..Cardinality(made) BY <1>7 DEF MadeCounted
  <2>2. 1..Cardinality(made) \subseteq Nat OBVIOUS
  <2> QED BY <2>1, <2>2, TimeIsNew, ContextAssumption DEF Audited
<1>12. Logs(n)'
  <2>1. IsFiniteSet(n.history) BY <1>4, <1>10, FS_AddElement DEF Logs
  <2>2. \E c \in n.history : FirstRecord(c) BY <1>4, <1>10 DEF Logs
  <2>3. \A c \in n.history : c \in made' \/ FirstRecord(c)
    BY <1>1, <1>4, <1>10 DEF Logs, c0
  <2>4. ASSUME NEW c \in made', c.time \in n.known, c.actor \notin forked
        PROVE  c \in n.history
    <3>1. CASE c = c0 BY <1>10, <3>1
    <3>2. CASE c \in made
      <4>1. c.time \in b.known BY <1>10, <1>11, <2>4, <3>2
      <4> QED BY <1>4, <1>10, <2>4, <3>2, <4>1 DEF Logs
    <3> QED BY <1>1, <3>1, <3>2 DEF c0
  <2> QED BY <1>2, <2>1, <2>2, <2>3, <2>4 DEF Logs
<1>13. Numbers(n)'
  <2> SUFFICES ASSUME b.actor \notin forked
               PROVE  /\ Unique(n.history)
                      /\ \A c \in n.history : c.actor = b.actor =>
                           c.seq <= Cardinality(n.history)
    BY <1>2, <1>10 DEF Numbers
  <2>1. /\ Unique(b.history)
        /\ \A c \in b.history : c.actor = b.actor => c.seq <= Cardinality(b.history)
    BY <1>4 DEF Numbers
  <2>2. \A c \in b.history : c.actor = b.actor => c.seq \in Nat
    BY <1>4, <1>7 DEF Logs, MadeNumbered, FirstRecord
  <2>3. \A c \in b.history : ~(c.actor = c0.actor /\ c.seq = c0.seq)
    BY <1>3, <1>5, <2>1, <2>2
  <2>4. Unique(n.history) BY <1>10, <2>1, <2>3 DEF Unique
  <2>5. Cardinality(n.history) = Cardinality(b.history) + 1
    <3>1. c0 \notin b.history BY <2>3
    <3>2. IsFiniteSet(b.history) BY <1>4 DEF Logs
    <3>3. Cardinality(b.history \cup {c0}) = Cardinality(b.history) + 1
      BY <3>1, <3>2, FS_AddElement
    <3> QED BY <1>10, <3>3
  <2>6. ASSUME NEW c \in n.history, c.actor = b.actor
        PROVE  c.seq <= Cardinality(n.history)
    BY <1>3, <1>5, <1>10, <2>1, <2>2, <2>5, <2>6
  <2> QED BY <2>4, <2>6
<1>14. ASSUME NEW e \in Documents PROVE Logs(e)' /\ Numbers(e)'
  <2>1. Logs(e) /\ Numbers(e) BY DEF Audited
  <2>2. Time \notin e.known BY TimeIsNew DEF Audited, Kept, Fits
  <2>3. Logs(e)' BY <1>1, <1>2, <1>3, <2>1, <2>2 DEF Logs, c0
  <2>4. Numbers(e)' BY <1>2, <2>1 DEF Numbers
  <2> QED BY <2>3, <2>4
<1>15. \A q \in Replicas : stores'[q] = IF q = r THEN n ELSE stores[q]
  BY <1>1, <1>7 DEF Gives
<1>16. Owned'
  <2>1. \A q \in Replicas : /\ stores'[q].actor = stores[q].actor
                            /\ stores[q].known \subseteq stores'[q].known
    BY <1>4, <1>10, <1>15
  <2>2. ASSUME NEW q \in Replicas, c0.actor = stores'[q].actor, c0.actor \notin forked
        PROVE  c0.time \in stores'[q].known
    <3>1. q = r BY <1>3, <1>4, <1>7, <2>1, <2>2 DEF Owned
    <3> QED BY <1>3, <1>10, <1>15, <3>1
  <2>3. \A c \in made' : c = c0 \/ c \in made BY <1>1 DEF c0
  <2> QED BY <1>2, <1>7, <2>1, <2>2, <2>3 DEF Owned
<1>17. \A e \in Documents' : e = n \/ e \in Documents
  BY <1>1, <1>15 DEF Documents, Gives
<1> QED BY <1>9, <1>12, <1>13, <1>14, <1>16, <1>17 DEF Audited

(* Steps that make no change leave every log sound, also when they fork an *)
(* actor.                                                                  *)
LEMMA SameMadeAudited ==
  ASSUME Audited, Kept', made' = made, forked \subseteq forked', Owned',
         \A d \in Documents' : Logs(d) /\ Numbers(d)
  PROVE  Audited'
<1>1. MadeNumbered' BY DEF Audited, MadeNumbered
<1>2. ASSUME NEW d \in Documents' PROVE Logs(d)' /\ Numbers(d)'
  <2>1. Logs(d) /\ Numbers(d) OBVIOUS
  <2>2. Logs(d)' BY <2>1 DEF Logs
  <2>3. Numbers(d)' BY <2>1 DEF Numbers
  <2> QED BY <2>2, <2>3
<1> QED BY <1>1, <1>2 DEF Audited

LEMMA GivesDocuments ==
  ASSUME Audited, NEW r \in Replicas, NEW d, Gives(r, d)
  PROVE  /\ \A q \in Replicas : stores'[q] = IF q = r THEN d ELSE stores[q]
         /\ \A n \in Documents' : n = d \/ n \in Documents
<1>1. DOMAIN stores = Replicas BY DEF Audited, Kept, Risky
<1> QED BY <1>1 DEF Gives, Documents

LEMMA MergesAudited ==
  ASSUME Audited, Kept', NEW r \in Replicas, MergedIn(r)
  PROVE  Audited'
<1>1. PICK other \in Replicas : Gives(r, MergeDocs(stores[r], stores[other]))
  BY DEF MergedIn
<1> DEFINE m == MergeDocs(stores[r], stores[other])
<1>2. /\ Logs(m) /\ Numbers(m) /\ m.actor = stores[r].actor
      /\ stores[r].known \subseteq m.known
  BY MergedLogs
<1>3. Gives(r, m) BY <1>1
<1> HIDE DEF m
<1>4. made' = made /\ forked' = forked BY DEF MergedIn
<1>5. \A q \in Replicas : /\ stores'[q].actor = stores[q].actor
                          /\ stores[q].known \subseteq stores'[q].known
  BY <1>2, <1>3, GivesDocuments
<1>6. Owned' BY <1>4, <1>5 DEF Audited, Owned
<1>7. \A d \in Documents' : Logs(d) /\ Numbers(d)
  BY <1>2, <1>3, GivesDocuments DEF Audited
<1> QED BY <1>4, <1>6, <1>7, SameMadeAudited

LEMMA LoadsAudited ==
  ASSUME Audited, Kept', NEW r \in Replicas, NEW d \in saved, Loads(r, d)
  PROVE  Audited'
<1>1. Gives(r, d) /\ made' = made /\ forked \subseteq forked' BY DEF Loads
<1>2. Logs(d) /\ Numbers(d) BY DEF Audited, Documents
<1>3. \A n \in Documents' : Logs(n) /\ Numbers(n)
  BY <1>1, <1>2, GivesDocuments DEF Audited
<1>4. d.actor \notin forked' =>
        /\ \A s \in Replicas \ {r} : stores[s].actor # d.actor
        /\ \A c \in made : c.actor = d.actor => c.time \in d.known
  BY DEF Loads
<1>5. \A q \in Replicas : stores'[q] = IF q = r THEN d ELSE stores[q]
  BY <1>1, GivesDocuments
<1>6. Owned BY DEF Audited
<1>7. ASSUME NEW q \in Replicas, NEW s \in Replicas, q # s,
             stores'[q].actor = stores'[s].actor
      PROVE  stores'[q].actor \in forked'
  BY <1>1, <1>4, <1>5, <1>6, <1>7 DEF Owned
<1>8. ASSUME NEW q \in Replicas, NEW c \in made', c.actor = stores'[q].actor,
             c.actor \notin forked'
      PROVE  c.time \in stores'[q].known
  BY <1>1, <1>4, <1>5, <1>6, <1>8 DEF Owned
<1>9. Owned' BY <1>7, <1>8 DEF Owned
<1> QED BY <1>1, <1>3, <1>9, SameMadeAudited

LEMMA InitAudited == ContextInit => Audited
<1> SUFFICES ASSUME ContextInit PROVE Audited
  OBVIOUS
<1>1. Kept BY InitKept
<1>2. made = {} /\ forked = {} BY DEF ContextInit
<1>3. \A r \in Replicas : stores[r].actor = r BY DEF ContextInit, CreateDoc
<1>4. Owned BY <1>2, <1>3 DEF Owned
<1>5. MadeNumbered BY <1>2 DEF MadeNumbered
<1>6. ASSUME NEW d \in Documents PROVE Logs(d) /\ Numbers(d)
  <2>1. PICK r \in Replicas : d = CreateDoc(r) BY DEF ContextInit, Documents
  <2> DEFINE c == [actor |-> r, seq |-> 1, time |-> 0]
  <2>2. d.history = {c} /\ d.actor = r BY <2>1 DEF CreateDoc
  <2>3. FirstRecord(c) /\ c.seq = 1 BY DEF FirstRecord
  <2> HIDE DEF c
  <2>4. IsFiniteSet({c}) /\ Cardinality({c}) = 1 BY FS_Singleton
  <2>5. Logs(d) BY <1>2, <2>2, <2>3, <2>4 DEF Logs
  <2>6. Numbers(d) BY <2>2, <2>3, <2>4 DEF Numbers, Unique
  <2> QED BY <2>5, <2>6
<1> QED BY <1>1, <1>4, <1>5, <1>6 DEF Audited

LEMMA NextAudited == Audited /\ [ContextNext]_contextVars => Audited'
<1> SUFFICES ASSUME Audited, [ContextNext]_contextVars PROVE Audited'
  OBVIOUS
<1>0. Risky /\ Kept' BY NextKept DEF Audited, Kept
<1>1. CASE UNCHANGED <<stores, saved, made, forked>>
  <2>1. Documents' = Documents /\ Owned' BY <1>1 DEF Documents, Audited, Owned
  <2> QED BY <1>0, <1>1, <2>1, SameMadeAudited DEF Audited
<1>2. ASSUME NEW r \in Replicas, Saves(r) PROVE Audited'
  <2>1. /\ stores' = stores /\ saved' = saved \cup {stores[r]}
        /\ made' = made /\ forked' = forked
    BY <1>2 DEF Saves
  <2>2. Documents' = Documents /\ Owned' BY <2>1 DEF Documents, Audited, Owned
  <2> QED BY <1>0, <2>1, <2>2, SameMadeAudited DEF Audited
<1> QED BY <1>0, <1>1, <1>2, ChangesAudited, MergesAudited, LoadsAudited, NextEffects

(* A change that reached a store is in its log, on whatever way it came,   *)
(* unless a load made a second writer of its actor.                        *)
THEOREM HistoryTheorem == ContextSpec => []HistoryComplete
<1>1. Audited => HistoryComplete
  BY DEF Audited, HistoryComplete, Logs, Documents
<1> QED BY <1>1, InitAudited, NextAudited, PTL DEF ContextSpec
=============================================================================
