\* Two banks, one of which may change its address, and two proposals.
SPECIFICATION FairSpec
CONSTANTS
  p1 = p1
  p2 = p2
  a1 = a1
  a2 = a2
  a3 = a3
  Participants = {p1, p2}
  NoParticipant = NoParticipant
  Addresses = {a1, a2, a3}
  NoAddress = NoAddress
  Foundings <- MCFoundings
  Proposable <- MCProposable
  MaxUint = 10
  MaxProposals = 2
INVARIANTS
  SeatsMatch
  NeverEmptied
  OneVotePerParticipant
PROPERTIES
  ChangesAreVoted
  BallotKept
  ProposalsSettle
CHECK_DEADLOCK FALSE
