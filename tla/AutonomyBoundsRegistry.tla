----------------------- MODULE AutonomyBoundsRegistry -----------------------
(***************************************************************************)
(* The contract that switches single tools of single agents off            *)
(* (contracts/registries/AutonomyBoundsRegistry.sol): an entry per agent   *)
(* and tool, written by the monitor's account alone.  A timestamp is       *)
(* abstracted to whether it is zero.                                       *)
(***************************************************************************)
EXTENDS Naturals

CONSTANTS
  Agents,     \* agent ids
  Tools       \* tool hashes

VARIABLES
  entries,    \* _state
  appointed   \* whether "monitor" is the address the bounds monitor signs with

chainVars == <<entries, appointed>>

ToolEntry == [enabled: BOOLEAN, disabledAt: {0, 1}]

ChainTypeOK ==
  /\ entries \in [Agents -> [Tools -> ToolEntry]]
  /\ appointed \in BOOLEAN

(* The zero struct: "enabled" is false, yet the tool counts as enabled.     *)
ChainInit ==
  /\ entries = [a \in Agents |-> [t \in Tools |-> [enabled |-> FALSE, disabledAt |-> 0]]]
  /\ appointed = FALSE

-----------------------------------------------------------------------------
IsToolEnabled(a, t) == entries[a][t].disabledAt = 0 \/ entries[a][t].enabled

SetMonitor(ours) ==
  /\ appointed' = ours
  /\ UNCHANGED entries

(* Both revert for any sender but the monitor.                             *)
DisableTool(a, t) ==
  /\ appointed
  /\ entries' = [entries EXCEPT ![a][t] = [enabled |-> FALSE, disabledAt |-> 1]]
  /\ UNCHANGED appointed

(* Mutant: the struct is not taken from storage, nothing is written back.  *)
EnableToolInMemory(a, t) ==
  /\ appointed
  /\ UNCHANGED chainVars

EnableTool(a, t) ==
  /\ appointed
  /\ entries' = [entries EXCEPT ![a][t] = [enabled |-> TRUE, disabledAt |-> 0]]
  /\ UNCHANGED appointed
=============================================================================
