----------------------------- MODULE NearBridge -----------------------------
(***************************************************************************)
(* Deposits on NEAR: tokens/near.  A transaction has the outcome of its    *)
(* receipts; each has the executing contract (a token of some contract     *)
(* version) and the logs it left.  A log is a record of what kind it is,   *)
(* who transferred to whom, the amount and the destination named in it.    *)
(***************************************************************************)
EXTENDS BridgeBase

\* A swapout log of the contract versions of the router, 666 and 999.
SwapoutLog(kind, receipt) == Len(receipt.logs) = 1 /\ receipt.logs[1].kind = kind

\* A transfer to the MPC account: one event of a V4 token, or the logs of ft_transfer_call,
\* the second of which names the destination.
TransferV4(receipt) ==
  /\ Len(receipt.logs) = 1 /\ receipt.logs[1].kind = "transfer_v4"
  /\ receipt.logs[1].to = MPC
  /\ receipt.logs[1].dest # "malformed"
TransferCall(receipt) ==
  /\ Len(receipt.logs) \in {2, 3}
  /\ receipt.logs[1].kind = "transfer" /\ receipt.logs[1].to = MPC
  /\ receipt.logs[2].dest # "malformed"

\* fliterReceipts: the event of a receipt, or an error.
Event(from, receipt, named) ==
  [err |-> "nil", from |-> from, amount |-> receipt.logs[1].amount,
   dest |-> receipt.logs[named].dest]
NoEvent(error) == [err |-> error, from |-> "none", amount |-> 0, dest |-> "malformed"]

TransferEvent(receipt) ==
  IF TransferV4(receipt) THEN Event(receipt.logs[1].from, receipt, 1)
  ELSE IF TransferCall(receipt)
    THEN IF Len(receipt.logs) = 3 /\ ~receipt.logs[3].success
           THEN NoEvent("ErrSwapoutPatternMismatch")
         ELSE Event(receipt.logs[1].from, receipt, 2)
  ELSE NoEvent("ErrSwapoutLogNotFound")

fliterReceipts(tx, receipt) ==
  IF ~HasTokenConfig(receipt.executor) THEN NoEvent("ErrMissTokenConfig")
  ELSE CASE receipt.version = 666 /\ SwapoutLog("swapout", receipt) -> Event(tx.signer, receipt, 1)
         [] /\ receipt.version = 999 /\ SwapoutLog("swapout_native", receipt)
            /\ receipt.executor = MPC -> Event(tx.signer, receipt, 1)
         [] receipt.version \notin {666, 999} -> TransferEvent(receipt)
         [] OTHER -> NoEvent("ErrSwapoutLogNotFound")

\* A transaction that is not executed yet has no success value.
checkTxStatus(tx, rpc, allowUnstable) ==
  IF rpc.tx = InPool \/ ~tx.success THEN "ErrTxWithWrongStatus"
  ELSE IF allowUnstable THEN "nil"
  ELSE IF rpc.latest = NoHeight \/ ~rpc.more THEN "ErrGetLatestBlockNumber"
  ELSE StableError(rpc.tx, rpc.latest)

getSwapTxReceipt(tx, rpc, allowUnstable) ==
  IF rpc.tx = NotFound THEN "ErrTxNotFound" ELSE checkTxStatus(tx, rpc, allowUnstable)

\* The destination is the receiver of the swap.
CheckEvent(tx, i, token, event) ==
  SwapInfo(i,
    IF event.dest = "same_chain" /\ event.from # "bind" THEN "ErrSameFromAndToChainID"
    ELSE checkSwapoutInfo(tx, event.from, "bind", token, event.dest, event.amount),
    token, event.amount, 0)

\* Receipts are numbered from 0.
VerifyTransaction(tx, rpc, i, allowUnstable) ==
  LET status == getSwapTxReceipt(tx, rpc, allowUnstable)
      receipt == tx.receipts[i + 1]
      event == fliterReceipts(tx, receipt)
  IN IF status # "nil" THEN Fail(i, status)
     ELSE IF i >= Len(tx.receipts) THEN Fail(i, "ErrLogIndexOutOfRange")
     ELSE IF event.err # "nil" THEN Fail(i, event.err)
     ELSE CheckEvent(tx, i, receipt.executor, event)

RegisterSwap(tx, rpc, i) ==
  LET status == getSwapTxReceipt(tx, rpc, TRUE)
      found == {k \in RegisterIndexes(i, 0, Len(tx.receipts) - 1) :
                  fliterReceipts(tx, tx.receipts[k + 1]).err = "nil"}
  IN IF status # "nil" THEN {Fail(i, status)}
     ELSE IF i # 0 /\ i >= Len(tx.receipts) THEN {Fail(i, "ErrLogIndexOutOfRange")}
     ELSE IF found = {} THEN {Fail(i, "ErrSwapoutLogNotFound")}
     ELSE {CheckEvent(tx, k, tx.receipts[k + 1].executor, fliterReceipts(tx, tx.receipts[k + 1])) :
             k \in found}

\* What the router burnt or the MPC account received.
Received(tx, token) ==
  MapThenSumSet(LAMBDA k : tx.receipts[k].logs[1].amount,
    {k \in DOMAIN tx.receipts :
       /\ tx.receipts[k].executor = token
       /\ tx.receipts[k].logs # <<>>
       /\ \/ tx.receipts[k].logs[1].kind \in {"swapout", "swapout_native"}
          \/ tx.receipts[k].logs[1].to = MPC})

=============================================================================
