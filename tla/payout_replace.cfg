SPECIFICATION VerifiedSpec
CONSTANTS
  s1 = s1
  s2 = s2
  Swaps <- OneSwap
  NoTx = NoTx
  FirstNonce = 1
  MaxNonce = 2
  VerifyErrors = {}
  maxCachedVerifyingSwaps = 1
  Parallel = FALSE
  IncreaseNonceWhenSendTx = FALSE
  SendTxLoop = FALSE
  maxCachedSwapTasks = 1
  SlowProducers = {}
  MaxTxs = 3
  EnableReplaceSwap = TRUE
  maxReplaceCount = 20
  maxReplaceDistance = 10
  QuiescentReswap = TRUE
  BlackList <- OneSwap
  AdminForbids <- OneSwap
  MaxCrashes = 0
INVARIANTS TypeOK NoDoublePayout SentTxTracked StableMeansPaid
CHECK_DEADLOCK FALSE
