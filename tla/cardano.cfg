SPECIFICATION Spec
CONSTANTS
  Swaps = {1}
  Asset <- Token
  Value <- Two
  NoTTL = {}
  Utxos <- TwoOutputs
  OwnPolicy = TRUE
  MaxFee = 1
  Fee = 1
  FixAdaAmount = 1
  DefaultAdaAmount = 2
  TxTimeout = 1
  Confirmations = 0
  MaxSlot = 3
  MaxTxs = 3
  MaxFaults = 1
CHECK_DEADLOCK FALSE
INVARIANTS ReswapTxTracked ChangeIsReal
