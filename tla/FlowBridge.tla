----------------------------- MODULE FlowBridge -----------------------------
(***************************************************************************)
(* Deposits on Flow: tokens/flow.  A transaction has a status and events;  *)
(* an event is of the router's type or not and holds token, value and      *)
(* destination.                                                            *)
(***************************************************************************)
EXTENDS BridgeBase

checkTxStatus(tx, rpc, allowUnstable) ==
  IF rpc.tx = InPool \/ ~tx.success THEN "ErrTxIsNotValidated"
  ELSE IF allowUnstable THEN "nil"
  ELSE IF rpc.latest = NoHeight \/ ~rpc.more THEN "ErrGetLatestBlockNumber"
  ELSE IF NotStable(rpc.tx, rpc.latest) THEN "ErrTxNotStable"
  ELSE IF rpc.latest < InitialHeight THEN "ErrTxBeforeInitialHeight"
  ELSE "nil"

getSwapTxReceipt(tx, rpc, allowUnstable) ==
  IF rpc.tx = NotFound THEN "ErrTxNotFound" ELSE checkTxStatus(tx, rpc, allowUnstable)

\* fliterReceipts: an event of the router's contract.
IsRouterEvent(event) == event.type = "swapout"

\* parseSwapoutTxEvent and checkSwapoutInfo; the sender is not known.
CheckEvent(tx, i) ==
  LET event == tx.events[i + 1] IN
  SwapInfo(i,
    IF ~HasTokenConfig(event.token) THEN "ErrMissTokenConfig"
    ELSE checkSwapoutInfo(tx, "none", MPC, event.token, event.dest, event.value),
    event.token, event.value, 0)

\* Receipts are asked for as unstable whatever the caller allows.
VerifyTransaction(tx, rpc, i, allowUnstable) ==
  LET status == getSwapTxReceipt(tx, rpc, TRUE)
  IN IF status # "nil" THEN Fail(i, status)
     ELSE IF i >= Len(tx.events) THEN Fail(i, "ErrLogIndexOutOfRange")
     ELSE IF ~IsRouterEvent(tx.events[i + 1]) THEN Fail(i, "ErrSwapoutLogNotFound")
     ELSE CheckEvent(tx, i)

\* Events are numbered from 0, and the search for all of them starts at 1.
RegisterSwap(tx, rpc, i) ==
  LET status == getSwapTxReceipt(tx, rpc, TRUE)
      found == {k \in RegisterIndexes(i, 1, Len(tx.events) - 1) : IsRouterEvent(tx.events[k + 1])}
  IN IF status # "nil" THEN {Fail(i, status)}
     ELSE IF i # 0 /\ i >= Len(tx.events) THEN {Fail(i, "ErrLogIndexOutOfRange")}
     ELSE IF found = {} THEN {Fail(i, "ErrSwapoutLogNotFound")}
     ELSE {CheckEvent(tx, k) : k \in found}

\* What the router took.
Received(tx, token) ==
  MapThenSumSet(LAMBDA k : tx.events[k].value,
    {k \in DOMAIN tx.events : IsRouterEvent(tx.events[k]) /\ tx.events[k].token = token})

=============================================================================
