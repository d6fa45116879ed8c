----------------------------- MODULE MCPipeline -----------------------------
(***************************************************************************)
(* Instances of ExecutionPipeline for TLC.                                 *)
(***************************************************************************)
EXTENDS ExecutionPipeline

CONSTANTS e1, e2, q1, q2, v1, v2

MCTasks == Executions \cup Requests
=============================================================================
