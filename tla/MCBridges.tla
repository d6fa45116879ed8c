------------------------------ MODULE MCBridges ------------------------------
(***************************************************************************)
(* Instances of AgentBridges for TLC: one agent of the bank for each       *)
(* oracle, one agent of the client, one human.                             *)
(***************************************************************************)
EXTENDS AgentBridges

MCAgents == {"bankAML", "bankCredit", "bankLegal", "bankSetup", "clientDesk"}
MCClientAgents == {"clientDesk"}
MCHumans == {"officer"}

MCBankDesk == [aml |-> "bankAML", credit |-> "bankCredit", legal |-> "bankLegal",
               setup |-> "bankSetup"]
MCClientDesk == [t \in {"aml", "credit", "legal"} |-> "clientDesk"]

(* Interfaces as the contracts declare them; what abis.py has is            *)
(* AbisInterface.                                                          *)
MCInterface == Calls

MCHomeOracle ==
  [a \in MCAgents |-> CASE a = "bankAML" -> "aml"
                        [] a = "bankCredit" -> "credit"
                        [] a = "bankLegal" -> "legal"
                        [] a = "bankSetup" -> "setup"
                        [] OTHER -> NoOracle]
=============================================================================
