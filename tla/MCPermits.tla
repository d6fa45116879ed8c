----------------------------- MODULE MCPermits -----------------------------
(***************************************************************************)
(* An instance of Permissions for TLC: two institutions; one account that  *)
(* both may list as approver, one that is senior approver of one of them,  *)
(* and the minter of either, in turn.                                      *)
(***************************************************************************)
EXTENDS Permissions

CONSTANTS bank, client, x, y, g1, tool

MCListings ==
  { <<"approver", bank, x>>, <<"approver", client, x>>, <<"senior", client, y>>,
    <<"minter", bank, y>>, <<"minter", client, y>> }

MCRegistrations ==
  { <<bank, {<<"approver", x>>}>>, <<bank, {}>>,
    <<client, {<<"minter", y>>, <<"senior", y>>}>>, <<client, {}>> }

MCPolicies == {{}}

\* Neither registry at first, then both.
MCWirings == {{"identity", "participants"}}

MCGrants == {<<1, 0>>, <<2, 2>>}
=============================================================================
