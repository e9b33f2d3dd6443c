CONSTANTS
  Owners = {alice, bob}
  PublicOwner = alice
  Processes = {p1, p2}
  Calls = {c1, c2}
  States = {g1}
  Configured = configured
  LastPair = 3
  None = None
SPECIFICATION FairSpec
CHECK_DEADLOCK FALSE
INVARIANTS
  TypeOK
  TokensOfOwner
  StateUsedOnce
  AuthorizationKept
PROPERTIES
  AccessReturns
