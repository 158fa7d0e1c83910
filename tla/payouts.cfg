SPECIFICATION LiveSpec
CONSTANTS
  Million = 10
  ConfigDecimals = 0
  Confirmations = 1
  InitialHeight = 0
  CallByContract = {}
  MaxInt64 = 2000
  NonceWindow = 10
  FirstNonceMax = 100
  SwapinFeeLimit = 3
  NearGasLimit = 3
  CosmosGasLimit = 3
  AccountReserve = 20
  RippleFee = 10
  StellarDigits = 7
  StellarMinFee = 1
  FlowGasLimit = 3
  AptosGasPrice = 2
  AptosMaxFee = 8
  KeepAlive = 100
  Kb = 10
  MinRelayFee = 30
  MaxRelayFee = 80
  PlusFeePercent = 10
  TxSize = 2
  WitnessInput = 1
  InputSize = 2
  DustSize = 1
  Swaps <- AllSwaps
  Worlds <- AllWorlds
  Pairs <- TwoPairs
  MaxFaults = 1
  MaxSigned = 2
INVARIANTS SignedWithinLimits OneCanBeMined OutputsAddUp SignedByTheAccount
PROPERTIES AgreedPaysTheSwap HonestRequestIsAgreed PaidWhenPossible
CHECK_DEADLOCK FALSE
