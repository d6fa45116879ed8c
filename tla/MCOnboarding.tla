---------------------------- MODULE MCOnboarding ----------------------------
(***************************************************************************)
(* Instances of OnboardingSystem for TLC: one agent of the bank for each   *)
(* oracle, one agent of the client, and the agents' home bindings.         *)
(***************************************************************************)
EXTENDS OnboardingSystem, TLC

MCAgents == {"bankAML", "bankCredit", "bankLegal", "bankSetup", "clientDesk"}
MCClientAgents == {"clientDesk"}
MCHumans == {"officer"}

MCHomeOracle ==
  [a \in MCAgents |-> CASE a = "bankAML" -> "aml"
                        [] a = "bankCredit" -> "credit"
                        [] a = "bankLegal" -> "legal"
                        [] a = "bankSetup" -> "setup"
                        [] OTHER -> NoOracle]

(* Nothing orders the requests of a team or the texts among themselves, and
   no property of the run that uses this is a liveness property.           *)
Interchangeable == Permutations(AMLRequests) \cup Permutations(Docs)
=============================================================================
