------------------------- MODULE ParticipantRegistry -------------------------
(***************************************************************************)
(* The registry of institutions (ParticipantRegistry.sol): who may mint    *)
(* agents for them and who may approve actions on their behalf.  For each  *)
(* of three roles it keeps the addresses an institution lists and, for     *)
(* lookups, the one institution an address stands for.  All calls are the  *)
(* owner's; types and deployment tiers are never read by these contracts.  *)
(***************************************************************************)
EXTENDS FiniteSets

CONSTANTS
  Participants, NoParticipant,
  Accounts,
  Flows, Agents,   \* what the permits and consents built on this registry are about
  Listings,        \* the <<role, participant, account>> the owner lists
  Registrations    \* the <<participant, set of <<role, account>>>> it registers

Roles == {"minter", "approver", "senior"}

ASSUME NoParticipantAssumption == NoParticipant \notin Participants
ASSUME OwnerInputsAssumption ==
  /\ Listings \subseteq Roles \X Participants \X Accounts
  /\ Registrations \subseteq Participants \X SUBSET (Roles \X Accounts)

VARIABLES
  active,      \* the participants registered and not deactivated
  listed,      \* _minters, _approvers, _seniorApprovers: <<role, participant, account>>
  standsFor,   \* role -> account -> participant: the reverse lookups
  shared       \* the <<role, account>> two institutions listed at once (history)

participantVars == <<active, listed, standsFor, shared>>

ParticipantTypeOK ==
  /\ active \subseteq Participants
  /\ listed \subseteq Roles \X Participants \X Accounts
  /\ standsFor \in [Roles \X Accounts -> Participants \cup {NoParticipant}]
  /\ shared \subseteq Roles \X Accounts

ParticipantInit ==
  /\ active = {} /\ listed = {} /\ shared = {}
  /\ standsFor = [ra \in Roles \X Accounts |-> NoParticipant]

-----------------------------------------------------------------------------
\* Mutant: the active flag of the institution is not read.
ListedInLookup(role, a) ==
  /\ standsFor[<<role, a>>] # NoParticipant
  /\ <<role, standsFor[<<role, a>>], a>> \in listed

\* isApprovedMinter, isApprover and isSeniorApprover.
HasRole(role, a) ==
  /\ standsFor[<<role, a>>] # NoParticipant
  /\ <<role, standsFor[<<role, a>>], a>> \in listed
  /\ standsFor[<<role, a>>] \in active

\* Mutant: a minter may be listed by a second institution.
MayAddAnyone(p, role, a) == <<role, p, a>> \notin listed

\* A minter belongs to one institution; an approver is not held to that.
MayAdd(p, role, a) ==
  /\ <<role, p, a>> \notin listed
  /\ role = "minter" => standsFor[<<role, a>>] = NoParticipant

AddAll(p, grants) ==
  /\ \A g \in grants : MayAdd(p, g[1], g[2])
  /\ listed' = listed \cup {<<g[1], p, g[2]>> : g \in grants}
  /\ standsFor' = [ra \in Roles \X Accounts |-> IF ra \in grants THEN p ELSE standsFor[ra]]
  /\ shared' = shared \cup
       {g \in grants : \E q \in Participants \ {p} : <<g[1], q, g[2]>> \in listed}

RegisterParticipant(p, grants) ==
  /\ p \notin active
  /\ active' = active \cup {p}
  /\ AddAll(p, grants)

DeactivateParticipant(p) ==
  /\ p \in active
  /\ active' = active \ {p}
  /\ UNCHANGED <<listed, standsFor, shared>>

\* addMinter, addApprover, addSeniorApprover
AddRole(role, p, a) ==
  /\ p \in active
  /\ AddAll(p, {<<role, a>>})
  /\ UNCHANGED active

\* Mutants: the lookup is left standing; those of the account's other roles are
\* deleted too.
RemoveRoleKeepingLookup(role, p, a) ==
  /\ <<role, p, a>> \in listed
  /\ listed' = listed \ {<<role, p, a>>}
  /\ UNCHANGED <<active, standsFor, shared>>

RemoveRoleWithOthers(role, p, a) ==
  /\ <<role, p, a>> \in listed
  /\ listed' = listed \ {<<role, p, a>>}
  /\ standsFor' = [ra \in Roles \X Accounts |->
                     IF ra[2] = a THEN NoParticipant ELSE standsFor[ra]]
  /\ UNCHANGED <<active, shared>>

\* removeMinter, removeApprover, removeSeniorApprover: the lookup is deleted,
\* also when it names another institution that lists the account.
RemoveRole(role, p, a) ==
  /\ <<role, p, a>> \in listed
  /\ listed' = listed \ {<<role, p, a>>}
  /\ standsFor' = [standsFor EXCEPT ![<<role, a>>] = NoParticipant]
  /\ UNCHANGED <<active, shared>>

ParticipantNext ==
  \/ \E r \in Registrations : RegisterParticipant(r[1], r[2])
  \/ \E p \in Participants : DeactivateParticipant(p)
  \/ \E l \in Listings : AddRole(l[1], l[2], l[3])
  \/ \E l \in listed : RemoveRole(l[1], l[2], l[3])

\* What isApproved..., isApprover and getMinterParticipantId answer is on the lists
\* after any additions and removals: an institution an account stands for lists it;
\* an account stands for every institution that lists it, so for one at most, unless
\* two institutions once listed it at the same time; and with a minter they never did.
LookupsBacked ==
  /\ \A r \in Roles, a \in Accounts :
       standsFor[<<r, a>>] # NoParticipant => <<r, standsFor[<<r, a>>], a>> \in listed
  /\ \A r \in Roles, p \in Participants, a \in Accounts :
       <<r, p, a>> \in listed => standsFor[<<r, a>>] = p \/ <<r, a>> \in shared
  /\ \A a \in Accounts : <<"minter", a>> \notin shared
=============================================================================
