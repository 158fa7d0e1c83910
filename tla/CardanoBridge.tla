--------------------------- MODULE CardanoBridge ----------------------------
(***************************************************************************)
(* Deposits on Cardano: tokens/cardano.  A transaction has the addresses   *)
(* of its inputs, the destination in its metadata, and outputs with        *)
(* receiver, ADA and other tokens.  With the API (tx.useAPI) an output is  *)
(* one swap, numbered from 0; otherwise the ADA and each token of every    *)
(* output is one, numbered from 1 through all outputs.                     *)
(***************************************************************************)
EXTENDS BridgeBase

CONSTANT DefaultAdaAmount  \* the ADA of an output that is not part of the swap

ADA == "lovelace"

checkTxStatus(tx, rpc, allowUnstable) ==
  IF ~tx.success THEN "ErrTxIsNotValidated"
  ELSE IF allowUnstable THEN "nil"
  ELSE IF rpc.latest = NoHeight THEN "ErrTxNotFound"
  ELSE StableError(rpc.tx, rpc.latest)

\* getTxOutputs
statusError(tx, rpc, allowUnstable) ==
  IF rpc.tx \in {NotFound, InPool} THEN "ErrTxNotFound" ELSE checkTxStatus(tx, rpc, allowUnstable)

\* The outputs before the k-th take this many indexes.
Entries(output) == Len(output.tokens) + 1
Offset(tx, k) == MapThenSumSet(LAMBDA j : Entries(tx.outputs[j]), 1 .. (k - 1))

\* The output an index points into, and the asset of it: 0 is ADA.
OutputOf(tx, i) ==
  IF tx.useAPI THEN i + 1
  ELSE LET reached == {k \in DOMAIN tx.outputs : i <= Offset(tx, k) + Entries(tx.outputs[k])}
       IN IF reached = {} THEN 1 ELSE Min(reached)
AssetOf(tx, i) ==
  IF tx.useAPI THEN (IF tx.outputs[i + 1].tokens = <<>> THEN 0 ELSE 1)
  ELSE IF i > Offset(tx, Len(tx.outputs) + 1) THEN 0
  ELSE i - Offset(tx, OutputOf(tx, i)) - 1

parseTxOutput(output, asset) ==
  IF output.to # MPC THEN "ErrMpcAddrMissMatch"
  ELSE IF asset = 0
    THEN IF output.ada <= DefaultAdaAmount THEN "ErrAdaSwapOutAmount" ELSE "nil"
  ELSE IF Len(output.tokens) > 1 THEN "ErrMpcAddrMissMatch"
  ELSE "nil"

AssetToken(output, asset) == IF asset = 0 THEN ADA ELSE output.tokens[asset].asset
AssetAmount(output, asset) ==
  IF asset = 0 THEN output.ada - DefaultAdaAmount ELSE output.tokens[asset].amount

\* The receiver of the swap is the address in the metadata, and it is checked before the value.
checkSwapInfo(tx, token, value) ==
  IF tx.metadata = "malformed" THEN "wrong chain id"
  ELSE IF ~HasTokenConfig(token) THEN "ErrMissTokenConfig"
  ELSE IF tx.inputs # <<>> /\ tx.inputs[1] = "bind" THEN "ErrTxWithWrongSender"
  ELSE IF tx.metadata = "no_token" THEN "ErrMissTokenConfig"
  ELSE IF ~HasBridge(tx.metadata) THEN "ErrNoBridgeForChainID"
  ELSE IF ~ValidBind(tx.metadata) THEN "ErrWrongBindAddress"
  ELSE IF ~CheckTokenSwapValue(tx.pair, value, tx.whitelisted) THEN "ErrTxWithWrongValue"
  ELSE "nil"

CheckOutput(tx, i, height) ==
  LET output == tx.outputs[OutputOf(tx, i)]
      asset == AssetOf(tx, i)
      token == AssetToken(output, asset)
      value == AssetAmount(output, asset)
  IN SwapInfo(i, checkSwapInfo(tx, token, value), token, value, height)

OutputError(tx, i) ==
  LET output == tx.outputs[OutputOf(tx, i)]
  IN IF tx.useAPI /\ output.to # MPC THEN "ErrTxWithWrongContract"
     ELSE parseTxOutput(output, AssetOf(tx, i))

VerifyTransaction(tx, rpc, i, allowUnstable) ==
  LET status == statusError(tx, rpc, allowUnstable)
  IN IF status # "nil" THEN Fail(i, status)
     ELSE IF tx.metadata = "none" THEN FailAt(i, "ErrMetadataKeyMissMatch", rpc.tx)
     ELSE IF OutputError(tx, i) # "nil" THEN FailAt(i, OutputError(tx, i), rpc.tx)
     ELSE CheckOutput(tx, i, rpc.tx)

\* With the API the index that was asked for is not looked at.
RegisterSwap(tx, rpc, i) ==
  LET status == statusError(tx, rpc, TRUE)
      last == Offset(tx, Len(tx.outputs) + 1)
      indexes == IF tx.useAPI THEN 0 .. (Len(tx.outputs) - 1) ELSE RegisterIndexes(i, 1, last)
      found == {k \in indexes : OutputError(tx, k) = "nil"}
  IN IF status # "nil" THEN {Fail(i, status)}
     ELSE IF tx.metadata = "none" THEN {Fail(i, "ErrMetadataKeyMissMatch")}
     ELSE IF ~tx.useAPI /\ i > last THEN {Fail(i, "ErrLogIndexOutOfRange")}
     ELSE IF found = {} THEN {Fail(i, "ErrSwapoutLogNotFound")}
     ELSE {CheckOutput(tx, k, rpc.tx) : k \in found}

\* What the MPC address received.
Received(tx, token) ==
  MapThenSumSet(LAMBDA k :
    IF token = ADA THEN tx.outputs[k].ada
    ELSE MapThenSumSet(LAMBDA t : IF tx.outputs[k].tokens[t].asset = token
                                    THEN tx.outputs[k].tokens[t].amount ELSE 0,
                       DOMAIN tx.outputs[k].tokens),
    {k \in DOMAIN tx.outputs : tx.outputs[k].to = MPC})

=============================================================================
