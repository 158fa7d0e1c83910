SPECIFICATION LiveSpec
CONSTANTS
  s1 = s1
  s2 = s2
  Swaps <- OneSwap
  NoTx = NoTx
  FirstNonce = 1
  MaxNonce = 2
  VerifyErrors = {"TxWithWrongValue"}
  maxCachedVerifyingSwaps = 1
  Parallel = FALSE
  IncreaseNonceWhenSendTx = FALSE
  SendTxLoop = FALSE
  maxCachedSwapTasks = 1
  SlowProducers = {"swap", "stable"}
  MaxTxs = 2
  EnableReplaceSwap = FALSE
  maxReplaceCount = 20
  maxReplaceDistance = 10
  QuiescentReswap = TRUE
  BlackList = {}
  AdminForbids = {}
  MaxCrashes = 0

PROPERTIES  PaidSettles PassedNonceSettles
CHECK_DEADLOCK FALSE
