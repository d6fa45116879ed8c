------------------------------ MODULE EventHub ------------------------------
(***************************************************************************)
(* The WebSocket hub of the reference orchestrator (ws_hub.py): who is     *)
(* connected to the global feed and to the feed of each execution, and the *)
(* broadcast loops that walk those sets with an await in their body.  A    *)
(* set that changes size under a suspended loop makes the loop raise       *)
(* RuntimeError at its next step.                                          *)
(***************************************************************************)
CONSTANTS
  Executions,   \* execution ids; each has a feed of its own
  Viewers,      \* WebSocket connections, each used once
  Tasks         \* the coroutines that broadcast

ASSUME FeedsAssumption == Executions \cap {"all", "new", "gone", "off"} = {}

VARIABLES
  watching,     \* the feed each connection is on
  looping,      \* the feed whose connections each task is sending to
  disturbed     \* the tasks whose loop saw its set change

hubVars == <<watching, looping, disturbed>>

Feeds == {"all"} \cup Executions

HubTypeOK ==
  /\ watching \in [Viewers -> Feeds \cup {"new", "gone"}]
  /\ looping \in [Tasks -> Feeds \cup {"off"}]
  /\ disturbed \subseteq Tasks

HubInit ==
  /\ watching = [v \in Viewers |-> "new"]
  /\ looping = [t \in Tasks |-> "off"]
  /\ disturbed = {}

Watchers(feed) == {v \in Viewers : watching[v] = feed}

-----------------------------------------------------------------------------
Disturb(feed) == disturbed' = disturbed \cup {t \in Tasks : looping[t] = feed}

Connect(v, feed) ==
  /\ watching[v] = "new"
  /\ watching' = [watching EXCEPT ![v] = feed]
  /\ Disturb(feed)
  /\ UNCHANGED looping

(* disconnect_global and disconnect_execution, and the discards of the     *)
(* connections a broadcast found dead.                                     *)
Disconnect(v) ==
  /\ watching[v] \in Feeds
  /\ watching' = [watching EXCEPT ![v] = "gone"]
  /\ Disturb(watching[v])
  /\ UNCHANGED looping

(* A loop over an empty set does not suspend: broadcast goes on at once.
   The global feed comes first, the feed of the event's execution second.  *)
NextLoop(t, e) ==
  IF looping[t] = "off" /\ Watchers("all") # {} THEN "all"
  ELSE IF looping[t] # e /\ Watchers(e) # {} THEN e ELSE "off"

(* Task t gets through the loop it is in, or begins the broadcast.  A set
   that changed twice may be back at its size, so a disturbed loop too may
   end.                                                                    *)
SendOn(t, e) ==
  /\ looping' = [looping EXCEPT ![t] = NextLoop(t, e)]
  /\ disturbed' = disturbed \ {t}
  /\ UNCHANGED watching

LoopRaises(t) ==
  /\ t \in disturbed
  /\ looping' = [looping EXCEPT ![t] = "off"]
  /\ disturbed' = disturbed \ {t}
  /\ UNCHANGED watching

(* The process restarts: every connection and every loop is gone.          *)
HubRestart ==
  /\ watching' = [v \in Viewers |-> IF watching[v] = "new" THEN "new" ELSE "gone"]
  /\ looping' = [t \in Tasks |-> "off"]
  /\ disturbed' = {}

HubNext ==
  \/ \E v \in Viewers, feed \in Feeds : Connect(v, feed)
  \/ \E v \in Viewers : Disconnect(v)
=============================================================================
