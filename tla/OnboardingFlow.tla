--------------------------- MODULE OnboardingFlow ---------------------------
(***************************************************************************)
(* What client onboarding promises, with no request, agent or contract in  *)
(* sight: a flow is opened once; each review team may pass it, and any     *)
(* team may fail it, which ends it for all; once every team has passed it  *)
(* the three set-up steps are taken in their order.  OnboardingSystem      *)
(* implements this specification.                                          *)
(***************************************************************************)
EXTENDS Naturals

CONSTANTS Flows, Teams

VARIABLES
  opened,   \* the flows that exist
  passed,   \* the teams with a positive decision on each flow
  failed,   \* the team whose rejection ended the flow, if one did
  setup     \* how many of the set-up steps the flow has taken

flowVars == <<opened, passed, failed, setup>>

SetupSteps == 3

Init ==
  /\ opened = {}
  /\ passed = [f \in Flows |-> {}]
  /\ failed = [f \in Flows |-> {}]
  /\ setup = [f \in Flows |-> 0]

Live(f) == f \in opened /\ failed[f] = {}

Open(f) ==
  /\ f \notin opened
  /\ opened' = opened \cup {f}
  /\ UNCHANGED <<passed, failed, setup>>

Pass(f, t) ==
  /\ Live(f)
  /\ passed' = [passed EXCEPT ![f] = @ \cup {t}]
  /\ UNCHANGED <<opened, failed, setup>>

Fail(f, t) ==
  /\ Live(f)
  /\ failed' = [failed EXCEPT ![f] = {t}]
  /\ UNCHANGED <<opened, passed, setup>>

SetUp(f) ==
  /\ Live(f)
  /\ passed[f] = Teams
  /\ setup[f] < SetupSteps
  /\ setup' = [setup EXCEPT ![f] = @ + 1]
  /\ UNCHANGED <<opened, passed, failed>>

Next ==
  \E f \in Flows :
    \/ Open(f)
    \/ \E t \in Teams : Pass(f, t) \/ Fail(f, t)
    \/ SetUp(f)

Spec == Init /\ [][Next]_flowVars
=============================================================================
