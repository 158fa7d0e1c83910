---------------------------- MODULE SolanaBridge ----------------------------
(***************************************************************************)
(* Deposits on Solana: tokens/solana.  A transaction has the log messages  *)
(* of its programs, numbered from 0: the router is invoked ("invoke"),     *)
(* runs the swapout instruction ("instruction"), logs the swapout with     *)
(* token, amount and destination ("swapout") and succeeds ("success").     *)
(***************************************************************************)
EXTENDS BridgeBase

\* The gateway answers with finalized transactions only; no confirmations are known when
\* the latest slot is not, or is not past the one of the transaction.
confirmations(rpc) ==
  IF rpc.latest > rpc.tx THEN rpc.latest - rpc.tx ELSE 0

\* getTransactionMeta
statusError(tx, rpc, allowUnstable) ==
  IF rpc.tx \in {NotFound, InPool} THEN "ErrTxNotFound"
  ELSE IF rpc.tx < InitialHeight THEN "ErrTxBeforeInitialHeight"
  ELSE IF ~allowUnstable /\ confirmations(rpc) < Confirmations THEN "ErrTxNotStable"
  ELSE IF ~tx.success THEN "ErrTxWithWrongStatus"
  ELSE "nil"

\* The height is known once the transaction is found and not too old.
heightOf(rpc) == IF rpc.tx >= InitialHeight /\ rpc.tx > 0 THEN rpc.tx ELSE 0

\* A swapout log counts when the router succeeds right after it.
Confirmed(msgs, j) ==
  /\ msgs[j].kind = "swapout"
  /\ j + 2 <= Len(msgs) /\ msgs[j + 2].kind = "success"

\* Where the search for the swapout log ends: at it, at the success of the router, or at
\* another invocation of the router.
Ends(msgs) == {j \in DOMAIN msgs : Confirmed(msgs, j) \/ msgs[j].kind \in {"success", "invoke"}}

After(tx, i) == SubSeq(tx.logs, i + 2, Len(tx.logs))
HasSwapout(tx, i) ==
  LET msgs == After(tx, i) IN Ends(msgs) # {} /\ Confirmed(msgs, Min(Ends(msgs)))
SwapoutLog(tx, i) == After(tx, i)[Min(Ends(After(tx, i)))]

verifySwapoutLogs(tx, i) ==
  IF i + 6 > Len(tx.logs) THEN "ErrLogIndexOutOfRange"
  ELSE IF ~MayCallRouter(tx.to) THEN "ErrTxWithWrongContract"
  ELSE IF tx.logs[i + 1].kind # "invoke" \/ tx.logs[i + 2].kind # "instruction" THEN "ErrSwapoutLogNotFound"
  ELSE IF ~HasSwapout(tx, i) THEN "ErrSwapoutLogNotFound"
  ELSE IF ~HasTokenConfig(SwapoutLog(tx, i).token) THEN "ErrMissTokenConfig"
  ELSE "nil"

\* The sender is not compared with the receiver.
checkTokenSwapInfo(tx, i) ==
  LET msg == SwapoutLog(tx, i) IN checkSwapoutInfo(tx, "none", MPC, msg.token, msg.dest, msg.amount)

\* The swap an index stands for; checkError is the error of its check, if it is checked.
InfoOf(tx, i, height, checkError) ==
  LET error == verifySwapoutLogs(tx, i)
      msg == SwapoutLog(tx, i)
  IN IF error # "nil" THEN FailAt(i, error, height)
     ELSE SwapInfo(i, checkError, msg.token, msg.amount, height)

VerifyTransaction(tx, rpc, i, allowUnstable) ==
  LET status == statusError(tx, rpc, allowUnstable)
  IN IF status # "nil" THEN FailAt(i, status, heightOf(rpc))
     ELSE InfoOf(tx, i, heightOf(rpc), checkTokenSwapInfo(tx, i))

\* A registration looks for invocations from the index asked for, stops at the first one
\* unless that is 0, numbers what it finds from there, and does not check the swap.
RegisterSwap(tx, rpc, i) ==
  LET status == statusError(tx, rpc, TRUE)
      invoked == {k \in i .. (Len(tx.logs) - 1) : tx.logs[k + 1].kind = "invoke"}
      found == IF i > 0 /\ invoked # {} THEN {Min(invoked)} ELSE invoked
  IN IF status # "nil" THEN {Fail(i, status)}
     ELSE IF i >= Len(tx.logs) THEN {Fail(i, "ErrLogIndexOutOfRange")}
     ELSE IF found = {} THEN {Fail(i, "ErrSwapoutLogNotFound")}
     ELSE {InfoOf(tx, k - i, heightOf(rpc), "nil") : k \in found}

\* What the router took.
Received(tx, token) ==
  MapThenSumSet(LAMBDA k : tx.logs[k].amount,
    {k \in DOMAIN tx.logs : tx.logs[k].kind = "swapout" /\ tx.logs[k].token = token})

=============================================================================
