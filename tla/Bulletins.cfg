SPECIFICATION Spec
CONSTANTS
  Posts = {1, 2, 3}
  Body <- MCBody
  Classes <- MCClasses
  NoClass = NoClass
  Workers = {w1, w2}
  ProcessLimit = 2
  MaxProcessAttempts = 2
  StaleCycles = 1
  MaxBoardChanges = 2
  BulletinMixes <- MCMixes
  ip = ip
  a1 = a1
  a2 = a2
  Handsets = {ip, a1, a2}
  Android = {a1, a2}
  AnonymousRules <- MCRules
  UserRules <- MCRules
  Audience <- MCAudience
  NoFilter = NoFilter
  Batch = 2
  RetryDelay = 2
  MAX_DISPATCH_ATTEMPTS = 2
  MaxFaults = 1
  MaxTokens = 2
  Signing = {ip, a1}
INVARIANTS PendingIsWorkedOn RepostStaysSilent AnonymousOnce OneTrack
PROPERTIES KeepsNotifying
CHECK_DEADLOCK FALSE
