\* Two institutions, two accounts, one of them the owner's, and one permit key.
SPECIFICATION Spec
CONSTANTS
  bank = bank
  client = client
  x = x
  y = y
  Participants = {bank, client}
  NoParticipant = NoParticipant
  Accounts = {x, y}
  Listings <- MCListings
  Registrations <- MCRegistrations
  Owner = x
  NoAccount = NoAccount
  g1 = g1
  tool = tool
  Flows = {f1}
  Agents = {g1}
  Actions = {tool}
  Capabilities = {tool}
  Policies <- MCPolicies
  Wirings <- MCWirings
  PatternTiers = {2}
  Grants <- MCGrants
INVARIANTS
  LookupsBacked
  FreshSignatures
  SignaturesCredentialed
  RevokedStaysRefused
  ConsentIsOwn
