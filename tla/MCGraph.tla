------------------------------- MODULE MCGraph -------------------------------
(***************************************************************************)
(* An instance of OnboardingGraph for TLC.                                 *)
(***************************************************************************)
EXTENDS OnboardingGraph

MCTeams == {"aml", "credit", "legal"}
=============================================================================
