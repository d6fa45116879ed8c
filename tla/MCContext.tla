------------------------------ MODULE MCContext ------------------------------
(***************************************************************************)
(* An instance of WorkflowContext for TLC: a low and a high assessment.    *)
(***************************************************************************)
EXTENDS WorkflowContext, TLC

MCAssessments ==
  {[financial |-> 3, operational |-> 4, compliance |-> 5, security |-> 2],
   [financial |-> 6, operational |-> 7, compliance |-> 8, security |-> 6]}

(* Stores are alike.                                                       *)
MCSymmetry == Permutations(Replicas)
=============================================================================
