SPECIFICATION ReplacedSpec
CONSTANTS
  s1 = s1
  s2 = s2
  Swaps <- TwoSwaps
  NoTx = NoTx
  FirstNonce = 1
  MaxNonce = 2
  VerifyErrors = {}
  maxCachedVerifyingSwaps = 1
  Parallel = TRUE
  IncreaseNonceWhenSendTx = TRUE
  SendTxLoop = FALSE
  maxCachedSwapTasks = 2
  SlowProducers = {}
  MaxTxs = 2
  EnableReplaceSwap = TRUE
  maxReplaceCount = 0
  maxReplaceDistance = 0
  QuiescentReswap = TRUE
  BlackList = {}
  AdminForbids = {}
  MaxCrashes = 1
INVARIANTS NoDoublePayout SentTxTracked
PROPERTY ReswapIsSafe
SYMMETRY SwapSymmetry
CHECK_DEADLOCK FALSE
