------------------------ MODULE ConsortiumGovernance ------------------------
(***************************************************************************)
(* The consortium's governance contract (ConsortiumGovernance.sol): member *)
(* banks, each voting from one address, change the membership, the quorum  *)
(* and other contracts by proposals, and lift the emergency pause that any *)
(* one of them can set.                                                    *)
(*                                                                         *)
(* A step is one accepted transaction, or the moment a voting deadline     *)
(* passes.  votingPeriod can itself be voted, so deadlines pass in any     *)
(* order and no clock is kept; upgradeTimelock is stored and never read.   *)
(* A proposal may be put, and fails, with an id nobody has created.        *)
(***************************************************************************)
EXTENDS Integers, FiniteSets

CONSTANTS
  Participants, NoParticipant,
  Addresses, NoAddress,
  Foundings,       \* the seats the deployer may fill: <<participant, address>>
  Proposable,      \* the contents of the proposals that are put
  MaxUint,         \* the largest uint256
  MaxProposals     \* model bound on proposals

Ids == 0 .. MaxProposals - 1

\* What a proposal does when it is executed.  Calldata that does not decode, a
\* missing target and a target that refuses the call are all accepted = FALSE;
\* so is the empty record of an id that was never used.
Addition == [type: {"ADD_MEMBER"}, participant: Participants, address: Addresses]
Removal == [type: {"REMOVE_MEMBER"}, participant: Participants]
ParamChange == [type: {"PARAM_CHANGE"},
                param: {"numerator", "denominator", "other"}, value: 0..MaxUint]
Upgrade == [type: {"CONTRACT_UPGRADE"}, accepted: BOOLEAN]
Unpause == [type: {"UNPAUSE"}]
Contents == Addition \cup Removal \cup ParamChange \cup Upgrade \cup Unpause
Blank == [type |-> "CONTRACT_UPGRADE", accepted |-> FALSE]

ASSUME ZerosAssumption == NoParticipant \notin Participants /\ NoAddress \notin Addresses
ASSUME FiniteAssumption == IsFiniteSet(Participants)
ASSUME InputsAssumption ==
  Foundings \subseteq Participants \X Addresses /\ Proposable \subseteq Contents
ASSUME GovBoundsAssumption == MaxUint \in Nat /\ MaxUint >= 3 /\ MaxProposals \in Nat

VARIABLES
  bootstrapping,    \* bootstrapOwner has not renounced
  active,           \* the participants whose _members entry is active
  seat,             \* governanceAddress of _members
  memberAt,         \* _addrToMember
  memberCount,
  numerator, denominator,   \* quorumNumerator, quorumDenominator
  nextProposalId,
  content,          \* what each of _proposals does
  state,            \* Active, Executed or Defeated
  open,             \* the proposals whose votingDeadline has not passed
  votes,            \* _votes
  votesFor,
  supporters,       \* history: who voted for each proposal
  crossBankPaused

membership == <<active, seat, memberAt, memberCount>>
quorum == <<numerator, denominator>>
ballots == <<nextProposalId, content, open, votes, votesFor, supporters>>
vars == <<bootstrapping, membership, quorum, ballots, state, crossBankPaused>>

TypeOK ==
  /\ bootstrapping \in BOOLEAN
  /\ active \subseteq Participants
  /\ seat \in [Participants -> Addresses \cup {NoAddress}]
  /\ memberAt \in [Addresses -> Participants \cup {NoParticipant}]
  /\ memberCount \in Nat
  /\ numerator \in 1..MaxUint /\ denominator \in 1..MaxUint
  /\ nextProposalId \in 0..MaxProposals
  /\ content \in [Ids -> Contents]
  /\ state \in [Ids -> {"Active", "Executed", "Defeated"}]
  /\ open \subseteq 0 .. nextProposalId - 1
  /\ votes \in [Ids -> SUBSET Participants]
  /\ votesFor \in [Ids -> Nat]
  /\ supporters \in [Ids -> SUBSET Participants]
  /\ crossBankPaused \in BOOLEAN

Init ==
  /\ bootstrapping = TRUE
  /\ active = {} /\ memberCount = 0
  /\ seat = [p \in Participants |-> NoAddress]
  /\ memberAt = [a \in Addresses |-> NoParticipant]
  /\ numerator = 2 /\ denominator = 3
  /\ nextProposalId = 0
  /\ content = [i \in Ids |-> Blank]
  /\ state = [i \in Ids |-> "Active"]
  /\ open = {}
  /\ votes = [i \in Ids |-> {}]
  /\ votesFor = [i \in Ids |-> 0]
  /\ supporters = [i \in Ids |-> {}]
  /\ crossBankPaused = FALSE

-----------------------------------------------------------------------------
CanAdd(p, a) == p \notin active /\ memberAt[a] = NoParticipant

AddMember(p, a) ==
  /\ CanAdd(p, a)
  /\ active' = active \cup {p}
  /\ seat' = [seat EXCEPT ![p] = a]
  /\ memberAt' = [memberAt EXCEPT ![a] = p]
  /\ memberCount' = memberCount + 1

CanRemove(p) == p \in active /\ memberCount > 1

\* Mutant: the address of a removed member stays in the reverse lookup.
RemoveMemberKeepingAddress(p) ==
  /\ CanRemove(p)
  /\ active' = active \ {p}
  /\ memberCount' = memberCount - 1
  /\ UNCHANGED <<seat, memberAt>>

RemoveMember(p) ==
  /\ CanRemove(p)
  /\ active' = active \ {p}
  /\ memberAt' = [memberAt EXCEPT ![seat[p]] = NoParticipant]
  /\ memberCount' = memberCount - 1
  /\ UNCHANGED seat

BootstrapAddMember(p, a) ==
  /\ bootstrapping
  /\ AddMember(p, a)
  /\ UNCHANGED <<bootstrapping, quorum, ballots, state, crossBankPaused>>

\* Mutant: the deployer may leave before there are members.
RenounceBootstrapEarly ==
  /\ bootstrapping
  /\ bootstrapping' = FALSE
  /\ UNCHANGED <<membership, quorum, ballots, state, crossBankPaused>>

RenounceBootstrap ==
  /\ bootstrapping
  /\ memberCount >= 2
  /\ bootstrapping' = FALSE
  /\ UNCHANGED <<membership, quorum, ballots, state, crossBankPaused>>

\* The modifier onlyMember, for a call from address a.
OnlyMember(a) == memberAt[a] # NoParticipant /\ memberAt[a] \in active

CreateProposal(a, c) ==
  /\ OnlyMember(a)
  /\ nextProposalId < MaxProposals
  /\ nextProposalId' = nextProposalId + 1
  /\ content' = [content EXCEPT ![nextProposalId] = c]
  /\ state' = [state EXCEPT ![nextProposalId] = "Active"]
  /\ open' = open \cup {nextProposalId}
  /\ UNCHANGED <<bootstrapping, membership, quorum, votes, votesFor, supporters,
                 crossBankPaused>>

\* Mutant: a member may vote again.
CastVoteAgain(a, i, support) ==
  /\ OnlyMember(a)
  /\ state[i] = "Active"
  /\ i \in open
  /\ votes' = [votes EXCEPT ![i] = @ \cup {memberAt[a]}]
  /\ votesFor' = IF support THEN [votesFor EXCEPT ![i] = @ + 1] ELSE votesFor
  /\ supporters' = IF support THEN [supporters EXCEPT ![i] = @ \cup {memberAt[a]}]
                   ELSE supporters
  /\ UNCHANGED <<bootstrapping, membership, quorum, nextProposalId, content, state,
                 open, crossBankPaused>>

\* Mutant: votes are taken until the proposal is executed.
CastVoteLate(a, i, support) ==
  /\ OnlyMember(a)
  /\ state[i] = "Active"
  /\ i < nextProposalId
  /\ memberAt[a] \notin votes[i]
  /\ votes' = [votes EXCEPT ![i] = @ \cup {memberAt[a]}]
  /\ votesFor' = IF support THEN [votesFor EXCEPT ![i] = @ + 1] ELSE votesFor
  /\ supporters' = IF support THEN [supporters EXCEPT ![i] = @ \cup {memberAt[a]}]
                   ELSE supporters
  /\ UNCHANGED <<bootstrapping, membership, quorum, nextProposalId, content, state,
                 open, crossBankPaused>>

\* Mutant: a vote against counts as one for.
CastVoteEitherWay(a, i, support) ==
  /\ OnlyMember(a)
  /\ state[i] = "Active"
  /\ i \in open
  /\ memberAt[a] \notin votes[i]
  /\ votes' = [votes EXCEPT ![i] = @ \cup {memberAt[a]}]
  /\ votesFor' = [votesFor EXCEPT ![i] = @ + 1]
  /\ supporters' = IF support THEN [supporters EXCEPT ![i] = @ \cup {memberAt[a]}]
                   ELSE supporters
  /\ UNCHANGED <<bootstrapping, membership, quorum, nextProposalId, content, state,
                 open, crossBankPaused>>

CastVote(a, i, support) ==
  /\ OnlyMember(a)
  /\ state[i] = "Active"
  /\ i \in open
  /\ memberAt[a] \notin votes[i]
  /\ votes' = [votes EXCEPT ![i] = @ \cup {memberAt[a]}]
  /\ votesFor' = IF support THEN [votesFor EXCEPT ![i] = @ + 1] ELSE votesFor
  /\ supporters' = IF support THEN [supporters EXCEPT ![i] = @ \cup {memberAt[a]}]
                   ELSE supporters
  /\ UNCHANGED <<bootstrapping, membership, quorum, nextProposalId, content, state,
                 open, crossBankPaused>>

DeadlinePasses(i) ==
  /\ i \in open
  /\ open' = open \ {i}
  /\ UNCHANGED <<bootstrapping, membership, quorum, nextProposalId, content, state,
                 votes, votesFor, supporters, crossBankPaused>>

-----------------------------------------------------------------------------
\* Mutant: the quorum is rounded down.
QuorumRoundedDown == (memberCount * numerator) \div denominator

QuorumRequired ==
  IF memberCount = 0 THEN 0
  ELSE (memberCount * numerator + denominator - 1) \div denominator

\* The checked arithmetic of quorumRequired reverts when it overflows.
QuorumComputable ==
  memberCount = 0 \/ memberCount * numerator + denominator <= MaxUint

QuorumReached(i) == votesFor[i] >= QuorumRequired

ApplyParamChange(param, value) ==
  \/ param = "numerator" /\ value > 0 /\ numerator' = value /\ UNCHANGED denominator
  \/ param = "denominator" /\ value > 0 /\ denominator' = value /\ UNCHANGED numerator
  \/ param = "other" /\ UNCHANGED quorum

\* The action of the proposal, in the transaction that executes it.
Perform(c) ==
  \/ /\ c.type = "ADD_MEMBER"
     /\ AddMember(c.participant, c.address)
     /\ UNCHANGED <<quorum, crossBankPaused>>
  \/ /\ c.type = "REMOVE_MEMBER"
     /\ RemoveMember(c.participant)
     /\ UNCHANGED <<quorum, crossBankPaused>>
  \/ /\ c.type = "PARAM_CHANGE"
     /\ ApplyParamChange(c.param, c.value)
     /\ UNCHANGED <<membership, crossBankPaused>>
  \/ /\ c.type = "CONTRACT_UPGRADE" /\ c.accepted
     /\ UNCHANGED <<membership, quorum, crossBankPaused>>
  \/ /\ c.type = "UNPAUSE"
     /\ crossBankPaused' = FALSE
     /\ UNCHANGED <<membership, quorum>>

\* Mutant: the quorum is required, so a proposal that misses it is never Defeated.
ExecuteProposalIfPassed(i) ==
  /\ state[i] = "Active"
  /\ i \notin open
  /\ QuorumComputable
  /\ QuorumReached(i)
  /\ state' = [state EXCEPT ![i] = "Executed"]
  /\ Perform(content[i])
  /\ UNCHANGED <<bootstrapping, ballots>>

ExecuteProposal(i) ==
  /\ state[i] = "Active"
  /\ i \notin open
  /\ QuorumComputable
  /\ \/ /\ ~QuorumReached(i)
        /\ state' = [state EXCEPT ![i] = "Defeated"]
        /\ UNCHANGED <<membership, quorum, crossBankPaused>>
     \/ /\ QuorumReached(i)
        /\ state' = [state EXCEPT ![i] = "Executed"]
        /\ Perform(content[i])
  /\ UNCHANGED <<bootstrapping, ballots>>

PauseCrossBank(a) ==
  /\ OnlyMember(a)
  /\ ~crossBankPaused
  /\ crossBankPaused' = TRUE
  /\ UNCHANGED <<bootstrapping, membership, quorum, ballots, state>>

Next ==
  \/ \E f \in Foundings : BootstrapAddMember(f[1], f[2])
  \/ RenounceBootstrap
  \/ \E a \in Addresses, c \in Proposable : CreateProposal(a, c)
  \/ \E a \in Addresses, i \in Ids, support \in BOOLEAN : CastVote(a, i, support)
  \/ \E i \in Ids : DeadlinePasses(i)
  \/ \E i \in Ids : ExecuteProposal(i)
  \/ \E a \in Addresses : PauseCrossBank(a)

\* Time passes, and anyone may execute a proposal, so somebody does.
Fairness == \A i \in Ids : WF_vars(DeadlinePasses(i)) /\ WF_vars(ExecuteProposal(i))

Spec == Init /\ [][Next]_vars
FairSpec == Spec /\ Fairness

-----------------------------------------------------------------------------
(* Safety.                                                                 *)

\* Exactly the seated addresses vote, each for one active member, and the counter
\* the quorum is taken of is their number (_addMember, _removeMember).
SeatsMatch ==
  /\ \A a \in Addresses, p \in Participants :
       memberAt[a] = p <=> (p \in active /\ seat[p] = a)
  /\ \A p \in active : seat[p] \in Addresses
  /\ memberCount = Cardinality(active)

\* After the bootstrap the consortium never runs out of members, whatever it
\* votes: nobody could then put a proposal or set the pause.
NeverEmptied == ~bootstrapping => active # {}

\* The count the quorum is compared with is the number of participants who voted
\* for the proposal, each once and no other way, also when members leave, come back
\* and change address during a vote (castVote).
OneVotePerParticipant ==
  \A i \in Ids :
    supporters[i] \subseteq votes[i] /\ votesFor[i] = Cardinality(supporters[i])

\* Ids nobody has created: they may be Defeated, but hold nothing.
UnusedIds ==
  \A i \in Ids : i >= nextProposalId =>
    content[i] = Blank /\ votes[i] = {} /\ supporters[i] = {} /\ votesFor[i] = 0

\* The inductive invariant.
IInv == TypeOK /\ SeatsMatch /\ NeverEmptied /\ OneVotePerParticipant /\ UnusedIds

Carried(i) ==
  /\ i \in 0 .. nextProposalId - 1 /\ i \notin open
  /\ state[i] = "Active" /\ state'[i] = "Executed"
  /\ Cardinality(supporters[i]) * denominator >= numerator * Cardinality(active)

\* After the bootstrap, members and quorum change only by a closed proposal with
\* enough participants for it to make the exact share of the members there are when
\* it is executed, counted on sets and not on the contract's counters; nor is the
\* pause ever lifted otherwise.  Who voted for it and has left since still counts:
\* removing a member takes no vote back (castVote, _removeMember, executeProposal).
ChangesAreVoted ==
  [][ (\/ ~bootstrapping /\ (active' # active \/ quorum' # quorum)
       \/ crossBankPaused /\ ~crossBankPaused')
      => \E i \in Ids : Carried(i) ]_vars

\* A proposal keeps what was voted on; its votes stand from the deadline on, and
\* once Executed or Defeated it stays so (one proposal is not executed twice).
BallotKept ==
  [][ \A i \in 0 .. nextProposalId - 1 :
        /\ content'[i] = content[i]
        /\ i \notin open =>
             i \notin open' /\ votes'[i] = votes[i] /\ votesFor'[i] = votesFor[i]
        /\ state[i] # "Active" => state'[i] = state[i] ]_vars

-----------------------------------------------------------------------------
(* Liveness.                                                               *)

\* What executing an approved proposal would be refused for.
Refused(c) ==
  \/ c.type = "ADD_MEMBER" /\ ~CanAdd(c.participant, c.address)
  \/ c.type = "REMOVE_MEMBER" /\ ~CanRemove(c.participant)
  \/ c.type = "PARAM_CHANGE" /\ c.param # "other" /\ c.value = 0
  \/ c.type = "CONTRACT_UPGRADE" /\ ~c.accepted

\* Every proposal is executed or defeated in the end, unless its quorum cannot be
\* computed or its action is refused; then executeProposal reverts and the
\* approved proposal stays Active (executeProposal).
ProposalsSettle ==
  \A i \in Ids :
    i < nextProposalId ~> \/ state[i] # "Active"
                          \/ ~QuorumComputable
                          \/ Refused(content[i])
=============================================================================
