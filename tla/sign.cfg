SPECIFICATION SignSpec
CONSTANTS
  Initiators <- OneInitiator
  SignGroups <- TwoSignGroups
  Calls = {"k1", "k2"}
  ECCalls = {"k1", "k2"}
  RValues = {"r1"}
  retrySignLoop = 1
  maxSignGroupFailures = 1
INVARIANTS RValueUsedOnce HealthyGroupStays
PROPERTIES DoSignReturns GroupsComeBack
