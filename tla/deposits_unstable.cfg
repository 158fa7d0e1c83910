SPECIFICATION Spec
CONSTANTS
  g1 = g1
  g2 = g2
  Gateways <- GatewayPair
  Transactions <- UnstableTransactions
  Million = 10
  ConfigDecimals = 0
  Confirmations = 2
  InitialHeight = 2
  CallByContract = {}
  DefaultAdaAmount = 10
  MaxUint = 16
  SwapWithPermit = FALSE
  SwapoutForbidden = {"held"}
  MaxReorg = 1
  MaxLag = 1
  MaxHeight = 5
  MaxIndex = 5
  Requests = {0, 2}
SYMMETRY GatewaySymmetry
INVARIANT EveryVerifiedIsFinal
CHECK_DEADLOCK FALSE
