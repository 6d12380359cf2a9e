SPECIFICATION FeedsSpec
CONSTANTS
  u1 = u1  u2 = u2  w1 = w1  w2 = w2  c1 = c1
  NoUser = NoUser
  NoOne = NoOne
  Purger = Purger
  Users <- TwoUsers
  Writers <- TwoWriters
  Clients <- OneClient
  UserOf <- AllOfU1
  PageLimit = 1
  MaxRevision = 3
  s1 = s1  s2 = s2  h1 = h1  h2 = h2  ca1 = ca1  ca2 = ca2  leaf = leaf  other = other
  PinSets = {s1, s2}
  Pins = {ca1, ca2, leaf}
  Hosts = {h1, h2}
  Seeded <- MCSeeded
  HostsOf <- MCHostsOf
  Chains <- MCChains
  NoDocument = NoDocument
  Unusable = Unusable
  NotProbing = NotProbing
  Validity = 2
  ResignBefore = 1
  ExpiryAhead = 2
  MaxNow = 4
  MaxSerial = 3
  MaxExpiry = 3
  PinMixes <- MCPinMixes
INVARIANTS NoGapUnlessOvertaken LogCompleteAboveCompacted DocumentAnsweredFor AppTakesTheNewest
PROPERTIES CommitOrderIsRevisionOrder CatchesUp KeepsMatching
