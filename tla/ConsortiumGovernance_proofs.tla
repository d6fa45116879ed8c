-------------------- MODULE ConsortiumGovernance_proofs --------------------
(***************************************************************************)
(* Proofs about ConsortiumGovernance for any members, addresses, proposals *)
(* and word size.                                                          *)
(***************************************************************************)
EXTENDS ConsortiumGovernance, TLAPS, FiniteSetTheorems

(* The fields a content has, by its type.                                  *)
LEMMA ContentFields ==
  ASSUME NEW c \in Contents
  PROVE  /\ c.type = "ADD_MEMBER" => c.participant \in Participants /\ c.address \in Addresses
         /\ c.type = "REMOVE_MEMBER" => c.participant \in Participants
         /\ c.type = "PARAM_CHANGE" => c.value \in 0..MaxUint
BY DEF Contents, Addition, Removal, ParamChange, Upgrade, Unpause

(* Sets of participants are finite, and their sizes are numbers.           *)
LEMMA Countable ==
  ASSUME NEW S \in SUBSET Participants
  PROVE  IsFiniteSet(S) /\ Cardinality(S) \in Nat
BY FiniteAssumption, FS_Subset, FS_CardinalityType

(* Rounding up: enough votes for the rounded quorum are enough for the     *)
(* exact one (quorumRequired).                                             *)
LEMMA CeilingSuffices ==
  ASSUME NEW v \in Nat, NEW x \in Nat, NEW d \in Nat \ {0},
         v >= (x + d - 1) \div d
  PROVE  v * d >= x
<1> DEFINE q == (x + d - 1) \div d
<1>1. q \in Nat /\ x + d - 1 < q * d + d
  OBVIOUS
<1>2. q * d >= x
  BY <1>1
<1>3. v * d >= q * d
  BY <1>1
<1> QED
  BY <1>1, <1>2, <1>3

-----------------------------------------------------------------------------
(* The membership after an addition, a removal, and neither.               *)
MembershipTyped ==
  /\ active \subseteq Participants
  /\ seat \in [Participants -> Addresses \cup {NoAddress}]
  /\ memberAt \in [Addresses -> Participants \cup {NoParticipant}]
  /\ memberCount \in Nat

LEMMA AddMemberSeats ==
  ASSUME MembershipTyped, SeatsMatch,
         NEW p \in Participants, NEW a \in Addresses, AddMember(p, a)
  PROVE  MembershipTyped' /\ SeatsMatch' /\ active' # {}
<1>1. MembershipTyped'
  BY DEF MembershipTyped, AddMember
<1>2. \A b \in Addresses, r \in Participants :
        memberAt'[b] = r <=> (r \in active' /\ seat'[r] = b)
  BY ZerosAssumption DEF MembershipTyped, SeatsMatch, AddMember, CanAdd
<1>3. \A r \in active' : seat'[r] \in Addresses
  BY DEF MembershipTyped, SeatsMatch, AddMember
<1>4. Cardinality(active \cup {p}) = Cardinality(active) + 1
  BY Countable, FS_AddElement DEF MembershipTyped, AddMember, CanAdd
<1> QED
  BY <1>1, <1>2, <1>3, <1>4 DEF SeatsMatch, AddMember

LEMMA RemoveMemberSeats ==
  ASSUME MembershipTyped, SeatsMatch, NEW p \in Participants, RemoveMember(p)
  PROVE  MembershipTyped' /\ SeatsMatch' /\ active' # {}
<1>0. p \in active /\ memberCount > 1 /\ seat[p] \in Addresses
  BY DEF RemoveMember, CanRemove, SeatsMatch
<1>1. MembershipTyped'
  BY <1>0 DEF MembershipTyped, RemoveMember
<1>2. \A b \in Addresses, r \in Participants :
        memberAt'[b] = r <=> (r \in active' /\ seat'[r] = b)
  BY <1>0, ZerosAssumption DEF MembershipTyped, SeatsMatch, RemoveMember
<1>3. \A r \in active' : seat'[r] \in Addresses
  BY DEF MembershipTyped, SeatsMatch, RemoveMember
<1>4. Cardinality(active \ {p}) = Cardinality(active) - 1
  BY <1>0, Countable, FS_RemoveElement DEF MembershipTyped
<1>5. active' # {}
  <2>1. Cardinality(active') # 0
    BY <1>0, <1>4 DEF RemoveMember, SeatsMatch, MembershipTyped
  <2> QED
    BY <2>1, FS_EmptySet
<1> QED
  BY <1>1, <1>2, <1>3, <1>4, <1>5 DEF SeatsMatch, RemoveMember

LEMMA SameSeats ==
  ASSUME MembershipTyped, SeatsMatch, UNCHANGED membership
  PROVE  MembershipTyped' /\ SeatsMatch' /\ active' = active
BY DEF MembershipTyped, SeatsMatch, membership

(* What performing an approved proposal leaves in order.                   *)
LEMMA PerformSeats ==
  ASSUME MembershipTyped, SeatsMatch, NEW c \in Contents, Perform(c),
         numerator \in 1..MaxUint, denominator \in 1..MaxUint, crossBankPaused \in BOOLEAN
  PROVE  /\ MembershipTyped' /\ SeatsMatch'
         /\ active' = active \/ active' # {}
         /\ numerator' \in 1..MaxUint /\ denominator' \in 1..MaxUint
         /\ crossBankPaused' \in BOOLEAN
<1>1. CASE c.type = "ADD_MEMBER" /\ AddMember(c.participant, c.address)
           /\ UNCHANGED <<quorum, crossBankPaused>>
  BY <1>1, ContentFields, AddMemberSeats DEF quorum
<1>2. CASE c.type = "REMOVE_MEMBER" /\ RemoveMember(c.participant)
           /\ UNCHANGED <<quorum, crossBankPaused>>
  BY <1>2, ContentFields, RemoveMemberSeats DEF quorum
<1>3. CASE c.type = "PARAM_CHANGE" /\ ApplyParamChange(c.param, c.value)
           /\ UNCHANGED <<membership, crossBankPaused>>
  <2>1. c.value \in 0..MaxUint
    BY <1>3, ContentFields
  <2>2. numerator' \in 1..MaxUint /\ denominator' \in 1..MaxUint
    BY <1>3, <2>1, GovBoundsAssumption DEF ApplyParamChange, quorum
  <2> QED
    BY <1>3, <2>2, SameSeats
<1>4. CASE UNCHANGED <<membership, quorum>> /\ crossBankPaused' \in BOOLEAN
  BY <1>4, SameSeats DEF quorum
<1> QED
  BY <1>1, <1>2, <1>3, <1>4 DEF Perform

-----------------------------------------------------------------------------
(* The types that are not the membership's.                                *)
BallotsTyped ==
  /\ bootstrapping \in BOOLEAN
  /\ numerator \in 1..MaxUint /\ denominator \in 1..MaxUint
  /\ nextProposalId \in 0..MaxProposals
  /\ content \in [Ids -> Contents]
  /\ state \in [Ids -> {"Active", "Executed", "Defeated"}]
  /\ open \subseteq 0 .. nextProposalId - 1
  /\ votes \in [Ids -> SUBSET Participants]
  /\ votesFor \in [Ids -> Nat]
  /\ supporters \in [Ids -> SUBSET Participants]
  /\ crossBankPaused \in BOOLEAN

LEMMA TypeOKParts == TypeOK <=> MembershipTyped /\ BallotsTyped
BY DEF TypeOK, MembershipTyped, BallotsTyped

LEMMA InitIInv == Init => IInv
<1> SUFFICES ASSUME Init PROVE IInv
  OBVIOUS
<1>1. Blank \in Contents
  BY DEF Blank, Contents, Upgrade
<1>2. TypeOK
  <2>1. 2 \in 1..MaxUint /\ 3 \in 1..MaxUint /\ 0 \in 0..MaxProposals
    BY GovBoundsAssumption
  <2>2. content \in [Ids -> Contents] /\ state \in [Ids -> {"Active", "Executed", "Defeated"}]
    BY <1>1 DEF Init
  <2>3. /\ votes \in [Ids -> SUBSET Participants] /\ votesFor \in [Ids -> Nat]
        /\ supporters \in [Ids -> SUBSET Participants]
    BY DEF Init
  <2> QED
    BY <2>1, <2>2, <2>3 DEF Init, TypeOK
<1>3. SeatsMatch
  BY ZerosAssumption, FS_EmptySet DEF Init, SeatsMatch
<1>4. OneVotePerParticipant
  BY FS_EmptySet DEF Init, OneVotePerParticipant
<1> QED
  BY <1>2, <1>3, <1>4 DEF Init, IInv, NeverEmptied, UnusedIds

(* A vote for is counted once and a vote against never: the voter had not  *)
(* voted yet (castVote).                                                   *)
LEMMA CastVoteCounts ==
  ASSUME TypeOK, SeatsMatch, OneVotePerParticipant,
         NEW a \in Addresses, NEW i \in Ids, NEW support \in BOOLEAN,
         CastVote(a, i, support)
  PROVE  BallotsTyped' /\ OneVotePerParticipant'
<1> DEFINE p == memberAt[a]
<1>1. p \in Participants /\ p \notin votes[i]
  BY DEF CastVote, OnlyMember, TypeOK
<1>2. votes[i] \in SUBSET Participants /\ supporters[i] \in SUBSET Participants
  BY DEF TypeOK
<1>3. supporters[i] \subseteq votes[i] /\ votesFor[i] = Cardinality(supporters[i])
  BY DEF OneVotePerParticipant
<1>4. Cardinality(supporters[i] \cup {p}) = Cardinality(supporters[i]) + 1
  BY <1>1, <1>2, <1>3, Countable, FS_AddElement
<1>5. votes' = [votes EXCEPT ![i] = votes[i] \cup {p}]
  BY DEF CastVote
<1>6. /\ votes' \in [Ids -> SUBSET Participants] /\ votesFor' \in [Ids -> Nat]
      /\ supporters' \in [Ids -> SUBSET Participants]
  BY <1>1, <1>2, <1>5 DEF CastVote, TypeOK
<1>7. BallotsTyped'
  BY <1>6 DEF CastVote, TypeOK, BallotsTyped, quorum
<1>8. ASSUME NEW j \in Ids
      PROVE  supporters'[j] \subseteq votes'[j] /\ votesFor'[j] = Cardinality(supporters'[j])
  <2>1. CASE j = i /\ support
    <3>1. /\ votes'[j] = votes[i] \cup {p} /\ supporters'[j] = supporters[i] \cup {p}
          /\ votesFor'[j] = votesFor[i] + 1
      BY <1>5, <2>1 DEF CastVote, TypeOK
    <3> QED
      BY <1>3, <1>4, <3>1
  <2>2. CASE j = i /\ ~support
    <3>1. /\ votes'[j] = votes[i] \cup {p}
          /\ UNCHANGED <<supporters, votesFor>>
      BY <1>5, <2>2 DEF CastVote, TypeOK
    <3> QED
      BY <1>3, <2>2, <3>1
  <2>3. CASE j # i
    <3>1. /\ votes'[j] = votes[j] /\ votesFor'[j] = votesFor[j]
          /\ supporters'[j] = supporters[j]
      BY <2>3 DEF CastVote, TypeOK
    <3> QED
      BY <3>1 DEF OneVotePerParticipant
  <2> QED
    BY <2>1, <2>2, <2>3
<1> QED
  BY <1>7, <1>8 DEF OneVotePerParticipant

LEMMA NextIInv == IInv /\ [Next]_vars => IInv'
<1> SUFFICES ASSUME IInv, [Next]_vars PROVE IInv'
  OBVIOUS
<1> USE DEF IInv
<1>0. MembershipTyped /\ BallotsTyped
  BY TypeOKParts
<1>a. TypeOK' <=> MembershipTyped' /\ BallotsTyped'
  BY TypeOKParts, PTL
<1>1. ASSUME NEW f \in Foundings, BootstrapAddMember(f[1], f[2]) PROVE IInv'
  <2>1. f[1] \in Participants /\ f[2] \in Addresses
    BY InputsAssumption
  <2>2. MembershipTyped' /\ SeatsMatch' /\ active' # {}
    BY <1>0, <1>1, <2>1, AddMemberSeats DEF BootstrapAddMember
  <2>3. BallotsTyped'
    BY <1>0, <1>1 DEF BallotsTyped, BootstrapAddMember, quorum, ballots
  <2>4. OneVotePerParticipant' /\ UnusedIds'
    BY <1>1 DEF OneVotePerParticipant, UnusedIds, BootstrapAddMember, ballots
  <2> QED
    BY <1>a, <2>2, <2>3, <2>4 DEF NeverEmptied
<1>2. CASE RenounceBootstrap
  <2>1. MembershipTyped' /\ SeatsMatch' /\ active' = active
    BY <1>0, <1>2, SameSeats DEF RenounceBootstrap
  <2>2. BallotsTyped'
    BY <1>0, <1>2 DEF BallotsTyped, RenounceBootstrap, quorum, ballots
  <2>3. active # {}
    BY <1>2, FS_EmptySet DEF RenounceBootstrap, SeatsMatch
  <2>4. OneVotePerParticipant' /\ UnusedIds'
    BY <1>2 DEF OneVotePerParticipant, UnusedIds, RenounceBootstrap, ballots
  <2> QED
    BY <1>a, <2>1, <2>2, <2>3, <2>4 DEF NeverEmptied
<1>3. ASSUME NEW a \in Addresses, NEW c \in Proposable, CreateProposal(a, c) PROVE IInv'
  <2>1. MembershipTyped' /\ SeatsMatch' /\ active' = active
    BY <1>0, <1>3, SameSeats DEF CreateProposal
  <2>2. c \in Contents /\ nextProposalId \in Ids
    BY <1>0, <1>3, InputsAssumption, GovBoundsAssumption DEF CreateProposal, BallotsTyped, Ids
  <2>3. nextProposalId' \in 0..MaxProposals /\ open' \subseteq 0 .. nextProposalId' - 1
    BY <1>0, <1>3, GovBoundsAssumption DEF BallotsTyped, CreateProposal
  <2>4. BallotsTyped'
    BY <1>0, <1>3, <2>2, <2>3 DEF BallotsTyped, CreateProposal, quorum
  <2>5. OneVotePerParticipant'
    BY <1>3 DEF OneVotePerParticipant, CreateProposal
  <2>6. UnusedIds'
    BY <1>0, <1>3, <2>2 DEF UnusedIds, CreateProposal, BallotsTyped, Ids
  <2> QED
    BY <1>3, <1>a, <2>1, <2>4, <2>5, <2>6 DEF NeverEmptied, CreateProposal
<1>4. ASSUME NEW a \in Addresses, NEW i \in Ids, NEW support \in BOOLEAN,
             CastVote(a, i, support)
      PROVE  IInv'
  <2>1. MembershipTyped' /\ SeatsMatch' /\ active' = active
    BY <1>0, <1>4, SameSeats DEF CastVote
  <2>2. BallotsTyped' /\ OneVotePerParticipant'
    BY <1>4, CastVoteCounts
  <2>3. i < nextProposalId
    BY <1>0, <1>4 DEF CastVote, BallotsTyped
  <2>4. UnusedIds'
    BY <1>0, <1>4, <2>3 DEF UnusedIds, CastVote, BallotsTyped
  <2> QED
    BY <1>4, <1>a, <2>1, <2>2, <2>4 DEF NeverEmptied, CastVote
<1>5. ASSUME NEW i \in Ids, DeadlinePasses(i) PROVE IInv'
  <2>1. MembershipTyped' /\ SeatsMatch' /\ active' = active
    BY <1>0, <1>5, SameSeats DEF DeadlinePasses
  <2>2. BallotsTyped'
    BY <1>0, <1>5 DEF BallotsTyped, DeadlinePasses, quorum
  <2>3. OneVotePerParticipant' /\ UnusedIds'
    BY <1>5 DEF OneVotePerParticipant, UnusedIds, DeadlinePasses
  <2> QED
    BY <1>5, <1>a, <2>1, <2>2, <2>3 DEF NeverEmptied, DeadlinePasses
<1>6. ASSUME NEW i \in Ids, ExecuteProposal(i) PROVE IInv'
  <2>1. /\ MembershipTyped' /\ SeatsMatch'
        /\ active' = active \/ active' # {}
        /\ numerator' \in 1..MaxUint /\ denominator' \in 1..MaxUint
        /\ crossBankPaused' \in BOOLEAN
    <3>1. CASE UNCHANGED <<membership, quorum, crossBankPaused>>
      BY <1>0, <3>1, SameSeats DEF BallotsTyped, quorum
    <3>2. CASE Perform(content[i])
      BY <1>0, <3>2, PerformSeats DEF BallotsTyped
    <3> QED
      BY <1>6, <3>1, <3>2 DEF ExecuteProposal
  <2>2. state' \in [Ids -> {"Active", "Executed", "Defeated"}]
    BY <1>0, <1>6 DEF BallotsTyped, ExecuteProposal
  <2>3. BallotsTyped'
    BY <1>0, <1>6, <2>1, <2>2 DEF BallotsTyped, ExecuteProposal, ballots
  <2>4. OneVotePerParticipant' /\ UnusedIds'
    BY <1>6 DEF OneVotePerParticipant, UnusedIds, ExecuteProposal, ballots
  <2> QED
    BY <1>6, <1>a, <2>1, <2>3, <2>4 DEF NeverEmptied, ExecuteProposal
<1>7. ASSUME NEW a \in Addresses, PauseCrossBank(a) PROVE IInv'
  <2>1. MembershipTyped' /\ SeatsMatch' /\ active' = active
    BY <1>0, <1>7, SameSeats DEF PauseCrossBank
  <2>2. BallotsTyped'
    BY <1>0, <1>7 DEF BallotsTyped, PauseCrossBank, quorum, ballots
  <2>3. OneVotePerParticipant' /\ UnusedIds'
    BY <1>7 DEF OneVotePerParticipant, UnusedIds, PauseCrossBank, ballots
  <2> QED
    BY <1>7, <1>a, <2>1, <2>2, <2>3 DEF NeverEmptied, PauseCrossBank
<1>8. CASE UNCHANGED vars
  <2>1. MembershipTyped' /\ SeatsMatch' /\ active' = active
    BY <1>0, <1>8, SameSeats DEF vars
  <2>2. BallotsTyped'
    BY <1>0, <1>8 DEF BallotsTyped, vars, quorum, ballots
  <2>3. OneVotePerParticipant' /\ UnusedIds'
    BY <1>8 DEF OneVotePerParticipant, UnusedIds, vars, ballots
  <2> QED
    BY <1>8, <1>a, <2>1, <2>2, <2>3 DEF NeverEmptied, vars
<1> QED
  BY <1>1, <1>2, <1>3, <1>4, <1>5, <1>6, <1>7, <1>8 DEF Next

(* The inductive invariant holds in every reachable state.                 *)
THEOREM GovernanceInvariant == Spec => []IInv
BY InitIInv, NextIInv, PTL DEF Spec

(* Voting addresses and members correspond one to one and memberCount is   *)
(* their number, for any membership history (_addMember, _removeMember).   *)
THEOREM SeatsTheorem == Spec => []SeatsMatch
<1>1. IInv => SeatsMatch
  BY DEF IInv
<1> QED
  BY <1>1, GovernanceInvariant, PTL

(* After the bootstrap there is always a member.                           *)
THEOREM NeverEmptiedTheorem == Spec => []NeverEmptied
<1>1. IInv => NeverEmptied
  BY DEF IInv
<1> QED
  BY <1>1, GovernanceInvariant, PTL

(* The count that the quorum is compared with is the number of those who   *)
(* voted for the proposal, for any membership history (castVote).          *)
THEOREM OneVoteTheorem == Spec => []OneVotePerParticipant
<1>1. IInv => OneVotePerParticipant
  BY DEF IInv
<1> QED
  BY <1>1, GovernanceInvariant, PTL

-----------------------------------------------------------------------------
(* Only executed proposals lift the pause, change the quorum or, after the *)
(* bootstrap, the membership, and as many voted for them as the exact      *)
(* share of the actual members (createProposal, castVote, executeProposal).*)
LEMMA PassedIsCarried ==
  ASSUME IInv, NEW i \in Ids, ExecuteProposal(i), Perform(content[i]), QuorumReached(i),
         state' = [state EXCEPT ![i] = "Executed"]
  PROVE  Carried(i)
<1>1. i \in 0 .. nextProposalId - 1
  <2>1. ~(content[i].type = "CONTRACT_UPGRADE" /\ ~content[i].accepted)
    BY DEF Perform
  <2>2. content[i] # Blank
    BY <2>1 DEF Blank
  <2> QED
    BY <2>2 DEF IInv, UnusedIds, TypeOK, Ids
<1>2. i \notin open /\ state[i] = "Active" /\ state'[i] = "Executed"
  BY DEF ExecuteProposal, IInv, TypeOK
<1>3. votesFor[i] \in Nat /\ memberCount \in Nat
  BY DEF IInv, TypeOK
<1>4. votesFor[i] = Cardinality(supporters[i])
  BY DEF IInv, OneVotePerParticipant
<1>5. numerator \in Nat /\ denominator \in Nat \ {0}
  BY GovBoundsAssumption DEF IInv, TypeOK
<1>6. memberCount * numerator \in Nat
  BY <1>3, <1>5
<1>7. votesFor[i] * denominator >= memberCount * numerator
  <2>1. CASE memberCount = 0
    <3>1. memberCount * numerator = 0
      BY <1>5, <2>1
    <3>2. votesFor[i] * denominator >= 0
      BY <1>3, <1>5
    <3> QED
      BY <3>1, <3>2
  <2>2. CASE memberCount # 0
    <3>1. votesFor[i] >= (memberCount * numerator + denominator - 1) \div denominator
      BY <2>2 DEF QuorumReached, QuorumRequired
    <3> QED
      BY <1>3, <1>5, <1>6, <3>1, CeilingSuffices
  <2> QED
    BY <2>1, <2>2
<1>8. memberCount = Cardinality(active)
  BY DEF IInv, SeatsMatch
<1> QED
  BY <1>1, <1>2, <1>3, <1>4, <1>5, <1>7, <1>8 DEF Carried

(* What ChangesAreVoted says of one step.                                  *)
Changed ==
  \/ ~bootstrapping /\ (active' # active \/ quorum' # quorum)
  \/ crossBankPaused /\ ~crossBankPaused'

LEMMA ChangeIsCarried ==
  ASSUME IInv, [Next]_vars, Changed
  PROVE  \E i \in Ids : Carried(i)
<1> USE DEF Changed
<1>1. ASSUME NEW f \in Foundings, BootstrapAddMember(f[1], f[2]) PROVE FALSE
  BY <1>1 DEF BootstrapAddMember
<1>2. CASE RenounceBootstrap
  BY <1>2 DEF RenounceBootstrap, membership
<1>3. ASSUME NEW a \in Addresses, NEW c \in Proposable, CreateProposal(a, c) PROVE FALSE
  BY <1>3 DEF CreateProposal, membership
<1>4. ASSUME NEW a \in Addresses, NEW i \in Ids, NEW support \in BOOLEAN,
             CastVote(a, i, support)
      PROVE  FALSE
  BY <1>4 DEF CastVote, membership
<1>5. ASSUME NEW i \in Ids, DeadlinePasses(i) PROVE FALSE
  BY <1>5 DEF DeadlinePasses, membership
<1>6. ASSUME NEW i \in Ids, ExecuteProposal(i) PROVE Carried(i)
  <2>1. ~UNCHANGED <<membership, quorum, crossBankPaused>>
    BY DEF membership
  <2> QED
    BY <1>6, <2>1, PassedIsCarried DEF ExecuteProposal
<1>7. ASSUME NEW a \in Addresses, PauseCrossBank(a) PROVE FALSE
  BY <1>7 DEF PauseCrossBank, membership
<1>8. CASE UNCHANGED vars
  BY <1>8 DEF vars, membership
<1> QED
  BY <1>1, <1>2, <1>3, <1>4, <1>5, <1>6, <1>7, <1>8 DEF Next

(* The quorum rule is respected for every membership history: as many as   *)
(* the exact share of the members at that moment voted for each change.    *)
THEOREM VotedTheorem == Spec => ChangesAreVoted
<1>1. IInv /\ [Next]_vars => [Changed => \E i \in Ids : Carried(i)]_vars
  BY ChangeIsCarried
<1> QED
  BY <1>1, GovernanceInvariant, PTL DEF Spec, ChangesAreVoted, Changed

(* What BallotKept says of one step and one proposal.                      *)
Kept(i) ==
  /\ content'[i] = content[i]
  /\ i \notin open =>
       i \notin open' /\ votes'[i] = votes[i] /\ votesFor'[i] = votesFor[i]
  /\ state[i] # "Active" => state'[i] = state[i]

LEMMA StepKeeps ==
  ASSUME TypeOK, [Next]_vars, NEW i \in 0 .. nextProposalId - 1
  PROVE  Kept(i)
<1> USE DEF Kept
<1>0. i \in Ids /\ i # nextProposalId
  BY GovBoundsAssumption DEF TypeOK, Ids
<1>1. ASSUME NEW f \in Foundings, BootstrapAddMember(f[1], f[2]) PROVE Kept(i)
  BY <1>1 DEF BootstrapAddMember, ballots
<1>2. CASE RenounceBootstrap
  BY <1>2 DEF RenounceBootstrap, ballots
<1>3. ASSUME NEW a \in Addresses, NEW c \in Proposable, CreateProposal(a, c) PROVE Kept(i)
  BY <1>0, <1>3 DEF CreateProposal, TypeOK
<1>4. ASSUME NEW a \in Addresses, NEW j \in Ids, NEW support \in BOOLEAN,
             CastVote(a, j, support)
      PROVE  Kept(i)
  BY <1>0, <1>4 DEF CastVote, TypeOK
<1>5. ASSUME NEW j \in Ids, DeadlinePasses(j) PROVE Kept(i)
  BY <1>5 DEF DeadlinePasses
<1>6. ASSUME NEW j \in Ids, ExecuteProposal(j) PROVE Kept(i)
  BY <1>0, <1>6 DEF ExecuteProposal, ballots, TypeOK
<1>7. ASSUME NEW a \in Addresses, PauseCrossBank(a) PROVE Kept(i)
  BY <1>7 DEF PauseCrossBank, ballots
<1>8. CASE UNCHANGED vars
  BY <1>8 DEF vars, ballots
<1> QED
  BY <1>1, <1>2, <1>3, <1>4, <1>5, <1>6, <1>7, <1>8 DEF Next

(* A proposal's content, its votes after the deadline and its outcome are  *)
(* final, however many proposals run side by side.                         *)
THEOREM BallotTheorem == Spec => BallotKept
<1>1. IInv /\ [Next]_vars => [\A i \in 0 .. nextProposalId - 1 : Kept(i)]_vars
  BY StepKeeps DEF IInv
<1> QED
  BY <1>1, GovernanceInvariant, PTL DEF Spec, BallotKept, Kept

-----------------------------------------------------------------------------
(* A share of more than everybody (executeProposal checks the two numbers  *)
(* of a quorum for zero, each on its own) closes the consortium for good,  *)
(* once no proposal is left that former members voted for.                 *)
Locked ==
  /\ ~bootstrapping /\ numerator > denominator
  /\ \A i \in 0 .. nextProposalId - 1 : state[i] = "Active" => supporters[i] \subseteq active

StaysLocked ==
  Locked => /\ Locked'
            /\ UNCHANGED <<active, quorum>> /\ (crossBankPaused => crossBankPaused')
            /\ \A i \in Ids : state[i] = "Active" => state'[i] # "Executed"

LEMMA NothingCarried == ASSUME IInv, Locked, NEW i \in Ids, Carried(i) PROVE FALSE
<1>1. supporters[i] \subseteq active /\ active \subseteq Participants /\ active # {}
  BY DEF Carried, Locked, IInv, NeverEmptied, TypeOK
<1>2. /\ IsFiniteSet(active)
      /\ Cardinality(active) \in Nat /\ Cardinality(supporters[i]) \in Nat
  BY <1>1, Countable
<1>3. Cardinality(supporters[i]) <= Cardinality(active) /\ Cardinality(active) # 0
  BY <1>1, <1>2, FS_Subset, FS_EmptySet
<1>4. numerator \in Nat /\ denominator \in Nat /\ numerator > denominator
  BY GovBoundsAssumption DEF IInv, TypeOK, Locked
<1>5. Cardinality(supporters[i]) * denominator <= Cardinality(active) * denominator
  BY <1>2, <1>3, <1>4
<1>6. Cardinality(active) * denominator < numerator * Cardinality(active)
  BY <1>2, <1>3, <1>4
<1>7. Cardinality(supporters[i]) * denominator >= numerator * Cardinality(active)
  BY DEF Carried
<1>8. /\ Cardinality(supporters[i]) * denominator \in Int
      /\ Cardinality(active) * denominator \in Int /\ numerator * Cardinality(active) \in Int
  BY <1>2, <1>4
<1> QED BY <1>5, <1>6, <1>7, <1>8

LEMMA NextLocked == IInv /\ [Next]_vars => StaysLocked
<1> SUFFICES ASSUME IInv, [Next]_vars, Locked
             PROVE  /\ Locked'
                    /\ UNCHANGED <<active, quorum>> /\ (crossBankPaused => crossBankPaused')
                    /\ \A i \in Ids : state[i] = "Active" => state'[i] # "Executed"
  BY DEF StaysLocked
<1>0. /\ state \in [Ids -> {"Active", "Executed", "Defeated"}]
      /\ nextProposalId \in 0..MaxProposals /\ supporters \in [Ids -> SUBSET Participants]
      /\ MaxProposals \in Nat
  BY GovBoundsAssumption DEF IInv, TypeOK
<1>1. UNCHANGED <<active, quorum>> /\ (crossBankPaused => crossBankPaused')
  BY ChangeIsCarried, NothingCarried DEF Changed, Locked
<1>2. ASSUME NEW f \in Foundings, BootstrapAddMember(f[1], f[2]) PROVE FALSE
  BY <1>2 DEF BootstrapAddMember, Locked
<1>3. CASE RenounceBootstrap
  BY <1>3 DEF RenounceBootstrap, Locked
<1>4. ASSUME NEW a \in Addresses, NEW c \in Proposable, CreateProposal(a, c)
      PROVE  Locked' /\ \A i \in Ids : state[i] = "Active" => state'[i] # "Executed"
  <2>1. /\ nextProposalId \in Ids /\ nextProposalId' = nextProposalId + 1
        /\ state' = [state EXCEPT ![nextProposalId] = "Active"]
        /\ UNCHANGED <<supporters, active, quorum, bootstrapping>>
    BY <1>0, <1>1, <1>4 DEF CreateProposal, Ids
  <2>2. supporters[nextProposalId] = {} BY <1>0, <2>1 DEF IInv, UnusedIds
  <2>3. Locked'
    <3> SUFFICES ASSUME NEW i \in 0 .. nextProposalId, state'[i] = "Active"
                 PROVE  supporters[i] \subseteq active
      BY <1>0, <2>1 DEF Locked, quorum
    <3>1. CASE i = nextProposalId BY <2>2, <3>1
    <3>2. CASE i # nextProposalId
      <4>1. i \in 0 .. nextProposalId - 1 BY <1>0, <3>2
      <4>2. state[i] = "Active" BY <1>0, <2>1, <3>2, <4>1 DEF Ids
      <4> QED BY <4>1, <4>2 DEF Locked
    <3> QED BY <3>1, <3>2
  <2> QED BY <1>0, <2>1, <2>3
<1>5. ASSUME NEW a \in Addresses, NEW i \in Ids, NEW support \in BOOLEAN,
             CastVote(a, i, support)
      PROVE  Locked' /\ UNCHANGED state
  <2>1. /\ memberAt[a] \in active
        /\ supporters' = IF support THEN [supporters EXCEPT ![i] = @ \cup {memberAt[a]}]
                         ELSE supporters
        /\ UNCHANGED <<state, nextProposalId, active, quorum, bootstrapping>>
    BY <1>1, <1>5 DEF CastVote, OnlyMember
  <2>2. \A j \in Ids : supporters'[j] \subseteq supporters[j] \cup active BY <1>0, <2>1
  <2>3. 0 .. nextProposalId - 1 \subseteq Ids BY <1>0 DEF Ids
  <2> QED BY <2>1, <2>2, <2>3 DEF Locked, quorum
<1>6. ASSUME NEW i \in Ids, DeadlinePasses(i) PROVE Locked' /\ UNCHANGED state
  BY <1>1, <1>6 DEF DeadlinePasses, Locked, quorum
<1>7. ASSUME NEW i \in Ids, ExecuteProposal(i)
      PROVE  Locked' /\ \A j \in Ids : state[j] = "Active" => state'[j] # "Executed"
  <2>1. ~(/\ QuorumReached(i) /\ state' = [state EXCEPT ![i] = "Executed"]
          /\ Perform(content[i]))
    BY <1>7, PassedIsCarried, NothingCarried
  <2>2. state' = [state EXCEPT ![i] = "Defeated"] BY <1>7, <2>1 DEF ExecuteProposal
  <2>3. UNCHANGED <<supporters, nextProposalId, active, quorum, bootstrapping>>
    BY <1>1, <1>7 DEF ExecuteProposal, ballots
  <2>4. \A j \in Ids : state'[j] = state[j] \/ state'[j] = "Defeated" BY <1>0, <2>2
  <2>5. 0 .. nextProposalId - 1 \subseteq Ids BY <1>0 DEF Ids
  <2>6. Locked' BY <2>3, <2>4, <2>5 DEF Locked, quorum
  <2> QED BY <2>4, <2>6
<1>8. ASSUME NEW a \in Addresses, PauseCrossBank(a) PROVE Locked' /\ UNCHANGED state
  BY <1>8 DEF PauseCrossBank, membership, quorum, ballots, Locked
<1>9. CASE UNCHANGED vars
  BY <1>9 DEF vars, membership, quorum, ballots, Locked
<1>10. UNCHANGED state => \A i \in Ids : state[i] = "Active" => state'[i] # "Executed"
  OBVIOUS
<1> QED
  BY <1>1, <1>2, <1>3, <1>4, <1>5, <1>6, <1>7, <1>8, <1>9, <1>10 DEF Next, vars

(* A consortium that voted itself a quorum of more than everybody never    *)
(* again executes a proposal, so that nobody joins or leaves, the quorum   *)
(* stays and a pause that a member sets is never lifted.                   *)
THEOREM LockedTheorem == Spec => [][StaysLocked]_vars
<1>1. IInv /\ [Next]_vars => [StaysLocked]_vars BY NextLocked
<1> QED BY <1>1, GovernanceInvariant, PTL DEF Spec

(* With any other quorum the members can always act when they all agree:   *)
(* rounding up asks for no vote more than there are members.               *)
EverybodySuffices ==
  numerator <= denominator =>
    \A i \in Ids : votesFor[i] >= Cardinality(active) => QuorumReached(i)

LEMMA CeilingReached ==
  ASSUME NEW n \in Nat, NEW m \in Nat, NEW d \in Nat \ {0}, n <= d
  PROVE  m >= (m * n + d - 1) \div d
<1> DEFINE x == m * n
<1>1. x \in Nat /\ m * d \in Nat /\ x <= m * d OBVIOUS
<1>2. (m * d + d - 1) \div d = m
  <2>1. m * d + d - 1 = d * m + (d - 1) OBVIOUS
  <2> QED BY <2>1
<1> HIDE DEF x
<1>3. (x + d - 1) \div d <= (m * d + d - 1) \div d BY <1>1
<1> QED BY <1>1, <1>2, <1>3 DEF x

THEOREM EverybodyTheorem == Spec => []EverybodySuffices
<1>1. IInv => EverybodySuffices
  <2> SUFFICES ASSUME IInv, numerator <= denominator, NEW i \in Ids,
                      votesFor[i] >= Cardinality(active)
               PROVE  QuorumReached(i)
    BY DEF EverybodySuffices
  <2>1. /\ numerator \in Nat /\ denominator \in Nat \ {0} /\ memberCount \in Nat
        /\ votesFor[i] \in Nat /\ memberCount = Cardinality(active)
    BY GovBoundsAssumption DEF IInv, TypeOK, SeatsMatch
  <2>2. memberCount >= (memberCount * numerator + denominator - 1) \div denominator
    BY <2>1, CeilingReached
  <2>3. (memberCount * numerator + denominator - 1) \div denominator \in Int
    <3>1. memberCount * numerator \in Nat BY <2>1
    <3> QED BY <2>1, <3>1
  <2>4. QuorumRequired \in Int /\ QuorumRequired <= memberCount
    BY <2>1, <2>2, <2>3 DEF QuorumRequired
  <2> QED BY <2>1, <2>4 DEF QuorumReached
<1> QED BY <1>1, GovernanceInvariant, PTL
=============================================================================
