SPECIFICATION VerifiedSpec
CONSTANTS
  s1 = s1
  s2 = s2
  Swaps <- TwoSwaps
  NoTx = NoTx
  FirstNonce = 1
  MaxNonce = 2
  VerifyErrors = {}
  maxCachedVerifyingSwaps = 1
  Parallel = FALSE
  IncreaseNonceWhenSendTx = TRUE
  SendTxLoop = TRUE
  maxCachedSwapTasks = 1
  SlowProducers = {}
  MaxTxs = 2
  EnableReplaceSwap = TRUE
  maxReplaceCount = 20
  maxReplaceDistance = 10
  QuiescentReswap = TRUE
  BlackList = {}
  AdminForbids = {}
  MaxCrashes = 1
PROPERTY NonceUnique
SYMMETRY SwapSymmetry
CHECK_DEADLOCK FALSE
