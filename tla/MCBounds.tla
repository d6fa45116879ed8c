------------------------------ MODULE MCBounds ------------------------------
(***************************************************************************)
(* Instances of BoundsMonitor for TLC: one tool whose spec has all bounds  *)
(* (screen_client is the only one), and one with flow bounds alone.        *)
(***************************************************************************)
EXTENDS BoundsMonitor

CONSTANTS screen, assess, amlAgent, creditAgent

MCDefaultAgent == [t \in Tools |-> IF t = screen THEN amlAgent ELSE creditAgent]
=============================================================================
