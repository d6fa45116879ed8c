---------------------------- MODULE MCGovernance ----------------------------
(***************************************************************************)
(* An instance of ConsortiumGovernance for TLC: the proposals that are put *)
(* are of each kind, with an addition under a new address and with quorum  *)
(* values that are refused, hard to reach and overflow.                    *)
(***************************************************************************)
EXTENDS ConsortiumGovernance

CONSTANTS p1, p2, a1, a2, a3

MCFoundings == {<<p1, a1>>, <<p2, a2>>, <<p2, a3>>}

MCProposable ==
  { [type |-> "ADD_MEMBER", participant |-> p2, address |-> a3],
    [type |-> "REMOVE_MEMBER", participant |-> p2],
    [type |-> "PARAM_CHANGE", param |-> "numerator", value |-> 0],
    [type |-> "PARAM_CHANGE", param |-> "numerator", value |-> 5],
    [type |-> "PARAM_CHANGE", param |-> "denominator", value |-> 1],
    [type |-> "PARAM_CHANGE", param |-> "other", value |-> 0],
    [type |-> "CONTRACT_UPGRADE", accepted |-> TRUE],
    [type |-> "UNPAUSE"] }
=============================================================================
