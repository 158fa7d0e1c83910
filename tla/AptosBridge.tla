---------------------------- MODULE AptosBridge -----------------------------
(***************************************************************************)
(* Deposits on Aptos: tokens/aptos.  A transaction calls the module of an  *)
(* account and has events, numbered from 0; an event is a SwapOutEvent of  *)
(* the router or not and has token, sender, amount and destination.        *)
(***************************************************************************)
EXTENDS BridgeBase

\* A pending transaction has no success flag.
GetTransactionInfo(tx, rpc, allowUnstable) ==
  IF rpc.tx = NotFound THEN "ErrTxNotFound"
  ELSE IF rpc.tx = InPool \/ ~tx.success THEN "ErrTxWithWrongStatus"
  ELSE IF allowUnstable THEN "nil"
  ELSE IF rpc.latest = NoHeight THEN "get ledger version failed"
  ELSE StableError(rpc.tx, rpc.latest)

verifySwapoutEvents(tx, i) ==
  IF i >= Len(tx.events) THEN "ErrLogIndexOutOfRange"
  ELSE IF ~tx.events[i + 1].swapout THEN "ErrSwapoutLogNotFound"
  ELSE IF ~MayCallRouter(tx.to) THEN "ErrTxWithWrongContract"
  ELSE IF ~HasTokenConfig(tx.events[i + 1].token) THEN "ErrMissTokenConfig"
  ELSE IF tx.events[i + 1].dest = "malformed" THEN "wrong chain id"
  ELSE "nil"

CheckEvent(tx, i) ==
  LET event == tx.events[i + 1]
      error == verifySwapoutEvents(tx, i)
  IN IF error # "nil" THEN Fail(i, error)
     ELSE SwapInfo(i, checkSwapoutInfo(tx, event.from, MPC, event.token, event.dest, event.amount),
                   event.token, event.amount, 0)

VerifyTransaction(tx, rpc, i, allowUnstable) ==
  LET status == GetTransactionInfo(tx, rpc, allowUnstable)
  IN IF status # "nil" THEN Fail(i, status) ELSE CheckEvent(tx, i)

RegisterSwap(tx, rpc, i) ==
  LET status == GetTransactionInfo(tx, rpc, TRUE)
      found == {k \in RegisterIndexes(i, 0, Len(tx.events) - 1) :
                  verifySwapoutEvents(tx, k) \notin {"ErrSwapoutLogNotFound", "ErrTxWithWrongContract"}}
  IN IF status # "nil" THEN {Fail(i, status)}
     ELSE IF i # 0 /\ i >= Len(tx.events) THEN {Fail(i, "ErrLogIndexOutOfRange")}
     ELSE IF found = {} THEN {Fail(i, "ErrSwapoutLogNotFound")}
     ELSE {CheckEvent(tx, k) : k \in found}

\* What the router took.
Received(tx, token) ==
  MapThenSumSet(LAMBDA k : tx.events[k].amount,
    {k \in DOMAIN tx.events : tx.events[k].swapout /\ tx.events[k].token = token})

=============================================================================
