--------------------------- MODULE StellarBridge ----------------------------
(***************************************************************************)
(* Deposits on Stellar: tokens/stellar.  A transaction has one memo and    *)
(* operations, numbered from 0; an operation is a payment or not and has   *)
(* asset, sender, receiver and amount.                                     *)
(***************************************************************************)
EXTENDS BridgeBase

\* The latest ledger, not the one of the transaction, is compared with the initial height.
stableError(rpc, allowUnstable) ==
  IF allowUnstable THEN "nil"
  ELSE IF rpc.latest = NoHeight THEN "get latest ledger failed"
  ELSE IF NotStable(rpc.tx, rpc.latest) THEN "ErrTxNotStable"
  ELSE IF rpc.latest < InitialHeight THEN "ErrTxBeforeInitialHeight"
  ELSE "nil"

statusError(tx, rpc, allowUnstable) ==
  LET stable == stableError(rpc, allowUnstable)
  IN IF rpc.tx \in {NotFound, InPool} THEN "ErrTxNotFound"
     ELSE IF stable # "nil" THEN stable
     ELSE IF ~tx.success THEN "ErrTxWithWrongStatus"
     ELSE "nil"

buildSwapInfoFromOperation(tx, i) ==
  LET op == tx.operations[i + 1]
  IN IF ~HasTokenConfig(op.asset) THEN Fail(i, "ErrMissTokenConfig")
     ELSE IF op.to # MPC THEN Fail(i, "ErrTxWithWrongReceiver")
     ELSE IF ~ValidBind(tx.memo) THEN Fail(i, "ErrWrongBindAddress")
     ELSE IF op.amount <= 0 THEN Fail(i, "ErrTxWithWrongValue")
     ELSE SwapInfo(i, checkSwapoutInfo(tx, op.from, MPC, op.asset, tx.memo, op.amount),
                   op.asset, op.amount, 0)

VerifyTransaction(tx, rpc, i, allowUnstable) ==
  LET status == statusError(tx, rpc, allowUnstable)
  IN IF status # "nil" THEN Fail(i, status)
     ELSE IF ~rpc.more THEN Fail(i, "get operations failed")
     ELSE IF i >= Len(tx.operations) THEN Fail(i, "ErrLogIndexOutOfRange")
     ELSE IF ~tx.operations[i + 1].payment THEN Fail(i, "not a payment transaction")
     ELSE buildSwapInfoFromOperation(tx, i)

\* checkSwapoutInfo leaves no swap info behind when it refuses an operation, and the caller
\* uses the missing one: the registration ends there, after the operations before.
Refused(tx, i) ==
  /\ buildSwapInfoFromOperation(tx, i).token # "unknown"
  /\ buildSwapInfoFromOperation(tx, i).err # "nil"

RegisterSwap(tx, rpc, i) ==
  LET status == statusError(tx, rpc, TRUE)
      payments == {k \in RegisterIndexes(i, 0, Len(tx.operations) - 1) : tx.operations[k + 1].payment}
  IN IF status # "nil" \/ ~rpc.more \/ (i # 0 /\ i >= Len(tx.operations)) THEN {}
     ELSE {buildSwapInfoFromOperation(tx, k) :
             k \in {p \in payments : \A q \in payments : q <= p => ~Refused(tx, q)}}

\* What the MPC account received.
Received(tx, token) ==
  MapThenSumSet(LAMBDA k : tx.operations[k].amount,
    {k \in DOMAIN tx.operations :
       /\ tx.operations[k].payment
       /\ tx.operations[k].asset = token
       /\ tx.operations[k].to = MPC})

=============================================================================
