----------------------------- MODULE BtcBridge ------------------------------
(***************************************************************************)
(* Deposits on Bitcoin and its relatives: tokens/btc.  A transaction has   *)
(* the addresses of its inputs (vin), its outputs (vout) of a script type  *)
(* with receiver, value and memo, and a lock time.                         *)
(***************************************************************************)
EXTENDS BridgeBase

token == "token"

\* The MPC address if it is among the inputs, otherwise the first address.
getTxFrom(vin) == IF \E k \in DOMAIN vin : vin[k] = MPC THEN MPC ELSE vin[1]

ToMPC(tx) == {k \in DOMAIN tx.vout : tx.vout[k].type = "p2pkh" /\ tx.vout[k].to = MPC}

Memos(tx) == {k \in DOMAIN tx.vout : tx.vout[k].type = "op_return"}

GetReceivedValue(tx) == MapThenSumSet(LAMBDA k : tx.vout[k].value, ToMPC(tx))

\* The first op_return names the destination.
GetBindAddressFromMemoScipt(tx) ==
  IF Memos(tx) = {} THEN "malformed" ELSE tx.vout[Min(Memos(tx))].memo

checkTxStatus(tx, rpc, allowUnstable) ==
  IF rpc.tx = InPool /\ (tx.locktime # 0 \/ ~allowUnstable) THEN "ErrTxNotStable"
  ELSE IF allowUnstable THEN "nil"
  ELSE IF rpc.tx < InitialHeight THEN "ErrTxBeforeInitialHeight"
  ELSE IF rpc.latest = NoHeight THEN "ErrTxNotFound"
  ELSE IF NotStable(rpc.tx, rpc.latest) THEN "ErrTxNotStable"
  ELSE "nil"

\* All outputs are one swap, with index 0.  The status is checked as unstable whatever the
\* caller allows.
VerifyTransaction(tx, rpc, i, allowUnstable) ==
  LET status == checkTxStatus(tx, rpc, TRUE)
      value == GetReceivedValue(tx)
      dest == GetBindAddressFromMemoScipt(tx)
  IN IF rpc.tx = NotFound THEN Fail(0, "ErrTxNotFound")
     ELSE IF status # "nil" THEN FailAt(0, status, rpc.tx)
     ELSE IF i >= Len(tx.vout) THEN FailAt(0, "ErrLogIndexOutOfRange", rpc.tx)
     ELSE IF ToMPC(tx) = {} THEN FailAt(0, "ErrTxWithWrongReceiver", rpc.tx)
     ELSE IF dest = "malformed" THEN FailAt(0, "ErrTxWithWrongMemo", rpc.tx)
     ELSE SwapInfo(0, checkSwapoutInfo(tx, getTxFrom(tx.vin), MPC, token, dest, value),
                   token, value, rpc.tx)

RegisterSwap(tx, rpc, i) == {VerifyTransaction(tx, rpc, i, TRUE)}

\* What the MPC address received.
Received(tx, tok) == IF tok = token THEN GetReceivedValue(tx) ELSE 0

=============================================================================
