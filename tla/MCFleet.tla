------------------------------- MODULE MCFleet -------------------------------
(***************************************************************************)
(* An instance of AgentFleet for TLC.  The server has room for one agent.   *)
(* It is either a1 alone, with everything that can happen to it; or two    *)
(* others without faults and requests, of which the calls of a3 do not come*)
(* from an IP of its registered host.                                      *)
(***************************************************************************)
EXTENDS AgentFleet

CONSTANTS a1, a2, a3, s1

MCRecognised == {<<s1, a1>>, <<s1, a2>>}
MCRequests == [a \in Addresses |-> IF a = a1 THEN 1 ELSE 0]
Alone(n) == [a \in Addresses |-> IF a = a1 THEN n ELSE 0]
MCBudgets == { [starts |-> Alone(2), faults |-> 1],
               [starts |-> Alone(1), faults |-> 2],
               [starts |-> [a \in Addresses |-> IF a = a1 THEN 0 ELSE 1], faults |-> 0] }
=============================================================================
