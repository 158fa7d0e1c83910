---------------------------- MODULE RippleBridge ----------------------------
(***************************************************************************)
(* Deposits on the XRP ledger: tokens/ripple.  A transaction has a result, *)
(* a type, the delivered asset and amount, sender, receiver and memos.     *)
(* One transaction is one swap, with index 0.                              *)
(***************************************************************************)
EXTENDS BridgeBase

\* The first memo that names a chain with a bridge and a valid address there.
GoodMemos(tx) == {k \in DOMAIN tx.memos : ValidBind(tx.memos[k])}

statusError(tx, rpc, allowUnstable) ==
  IF rpc.tx = NotFound THEN "ErrTxNotFound"
  ELSE IF rpc.tx = InPool THEN "ErrTxIsNotValidated"
  ELSE IF allowUnstable THEN "nil"
  ELSE IF rpc.latest = NoHeight THEN "ErrRPCQueryError"
  ELSE StableError(rpc.tx, rpc.latest)

VerifyTransaction(tx, rpc, i, allowUnstable) ==
  LET status == statusError(tx, rpc, allowUnstable)
      dest == tx.memos[Min(GoodMemos(tx))]
  IN IF status # "nil" THEN Fail(0, status)
     ELSE IF ~tx.success THEN Fail(0, "ErrTxWithWrongStatus")
     ELSE IF ~HasTokenConfig(tx.asset) THEN Fail(0, "ErrMissTokenConfig")
     ELSE IF ~tx.payment THEN Fail(0, "not a payment transaction")
     ELSE IF tx.to # MPC THEN Fail(0, "ErrTxWithWrongReceiver")
     ELSE IF ~tx.issuerOk THEN Fail(0, "ripple currency issuer not match")
     ELSE IF GoodMemos(tx) = {} THEN Fail(0, "ErrWrongBindAddress")
     ELSE IF tx.delivered <= 0 THEN Fail(0, "ErrTxWithNoPayment")
     ELSE SwapInfo(0, checkSwapoutInfo(tx, tx.from, MPC, tx.asset, dest, tx.delivered),
                   tx.asset, tx.delivered, 0)

RegisterSwap(tx, rpc, i) == {VerifyTransaction(tx, rpc, i, TRUE)}

\* What the MPC account received.
Received(tx, token) ==
  IF tx.success /\ tx.asset = token /\ tx.to = MPC THEN tx.delivered ELSE 0

=============================================================================
