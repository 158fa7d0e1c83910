----------------------------- MODULE IotaBridge -----------------------------
(***************************************************************************)
(* Deposits on IOTA: tokens/iota.  A transaction has a payload type,       *)
(* outputs with receiver and amount, and an index payload that names the   *)
(* destination.  One transaction is one swap, with index 0.                *)
(***************************************************************************)
EXTENDS BridgeBase

token == "iota"

ToMPC(tx) == {k \in DOMAIN tx.outputs : tx.outputs[k].to = MPC}
Amount(tx) == MapThenSumSet(LAMBDA k : tx.outputs[k].amount, ToMPC(tx))

\* A message that no milestone references yet has no index to compare: the code follows a
\* nil pointer there and the server stops.  The document is as it was and the job tries again
\* after the restart, as it does for a message that is not found.
statusError(rpc, allowUnstable) ==
  IF rpc.tx = NotFound THEN "ErrTxNotFound"
  ELSE IF allowUnstable THEN "nil"
  ELSE IF rpc.latest = NoHeight THEN "ErrGetNodeInfo"
  ELSE IF rpc.tx = InPool THEN "ErrTxNotFound"
  ELSE IF NotStable(rpc.tx, rpc.latest) THEN "ErrTxNotStable"
  ELSE IF rpc.latest < InitialHeight THEN "ErrTxBeforeInitialHeight"
  ELSE "nil"

\* ParseMessagePayload and ParseIndexPayload.
PayloadError(tx) ==
  IF ~tx.transaction THEN "ErrPayloadType"
  ELSE IF Amount(tx) = 0 THEN "ErrTxWithWrongValue"
  ELSE IF tx.index = "malformed" THEN "ErrPayloadType"
  ELSE "nil"

\* The sender is the MPC address, the receiver the address in the index payload.
VerifyTransaction(tx, rpc, i, allowUnstable) ==
  LET status == statusError(rpc, allowUnstable)
  IN IF status # "nil" THEN Fail(0, status)
     ELSE IF ~rpc.more THEN Fail(0, "ErrTxNotFound")
     ELSE IF PayloadError(tx) # "nil" THEN Fail(0, PayloadError(tx))
     ELSE SwapInfo(0, checkSwapoutInfo(tx, MPC, "bind", token, tx.index, Amount(tx)),
                   token, Amount(tx), 0)

RegisterSwap(tx, rpc, i) == {VerifyTransaction(tx, rpc, i, TRUE)}

\* What the MPC address received.
Received(tx, tok) == IF tok = token THEN Amount(tx) ELSE 0

=============================================================================
