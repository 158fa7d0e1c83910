SPECIFICATION Spec
CONSTANTS
  Lists <- GatewayLists
  Kinds = {"eth","tron","solana","aptos","cardano","near","flow","btc","iota","ripple","stellar","reef","cosmos"}
  RouterKinds = {"eth","solana","aptos","near","stellar","reef"}
  Tip = 3
  MaxOutages = 2
  MaxUpdates = 1
  Files <- ConfigFiles
  AdminIDs = {2}
  MaxEdits = 2
  MaxAdmin = 1
  Chains = {1, 2}
  TokenIDs = {1}
  Worlds <- ContractStates
  MaxChanges = 1
  MaxFailures = 1
INVARIANTS Served HonestMedian SettingsCatchUp DynamicFeeHasConfig RetiredIsUnusable
PROPERTIES OrderCatchesUp RegistryCatchesUp
