---------------------------- MODULE CosmosBridge ----------------------------
(***************************************************************************)
(* Deposits on Cosmos chains: tokens/cosmos.  A transaction has one memo   *)
(* and a log for each of its messages, numbered from 1.  A log is the      *)
(* sequence of its transfers, with sender, receiver and coins; the denoms  *)
(* of a transfer differ from each other.                                   *)
(***************************************************************************)
EXTENDS BridgeBase

\* Mutation: the error of the latest height is passed on as it is.
checkTxStatus_RawError(tx, rpc, allowUnstable) ==
  IF ~tx.success THEN "ErrTxWithWrongStatus"
  ELSE IF allowUnstable THEN "nil"
  ELSE IF rpc.latest = NoHeight THEN "get latest block failed"
  ELSE StableError(rpc.tx, rpc.latest)

checkTxStatus(tx, rpc, allowUnstable) ==
  IF ~tx.success THEN "ErrTxWithWrongStatus"
  ELSE IF allowUnstable THEN "nil"
  ELSE IF rpc.latest = NoHeight THEN "ErrRPCQueryError"
  ELSE StableError(rpc.tx, rpc.latest)

\* A transaction of the pool is not found.
statusError(tx, rpc, allowUnstable) ==
  IF rpc.tx \in {NotFound, InPool} THEN "ErrTxNotFound" ELSE checkTxStatus(tx, rpc, allowUnstable)

ParseMemo(tx) == IF ValidBind(tx.memo) THEN "nil" ELSE "ErrTxWithWrongMemo"

\* ParseCoinAmount: the coins of a transfer that may give the deposit its unit.
Units(transfer) ==
  IF transfer.to # MPC THEN {}
  ELSE {c \in DOMAIN transfer.coins :
          HasTokenConfig(transfer.coins[c].denom) /\ transfer.coins[c].amount > 0}

WithUnit(log) == {t \in DOMAIN log : Units(log[t]) # {}}

\* The first transfer with such a coin, and its first such coin.
First(log) == log[Min(WithUnit(log))]
Unit(log) == First(log).coins[Min(Units(First(log)))].denom

AmountOf(transfer, denom) ==
  MapThenSumSet(LAMBDA c : IF transfer.coins[c].denom = denom THEN transfer.coins[c].amount ELSE 0,
                DOMAIN transfer.coins)

\* All that the MPC address received of the unit in this message.
ParseAmountTotal(log) ==
  MapThenSumSet(LAMBDA t : IF log[t].to = MPC THEN AmountOf(log[t], Unit(log)) ELSE 0, DOMAIN log)

\* The receiver of the swap is the address in the memo.
CheckLog(tx, i, height) ==
  LET log == tx.logs[i]
  IN SwapInfo(i, checkSwapoutInfo(tx, First(log).from, "bind", Unit(log), tx.memo, ParseAmountTotal(log)),
              Unit(log), ParseAmountTotal(log), height)

VerifyTransaction(tx, rpc, i, allowUnstable) ==
  LET status == statusError(tx, rpc, allowUnstable)
  IN IF status # "nil" THEN Fail(i, status)
     ELSE IF ParseMemo(tx) # "nil" THEN FailAt(i, ParseMemo(tx), rpc.tx)
     ELSE IF WithUnit(tx.logs[i]) = {} THEN FailAt(i, "ErrDepositNotFound", rpc.tx)
     ELSE CheckLog(tx, i, rpc.tx)

\* Mutation: the swap found in a log is not checked.
RegisterSwap_Unchecked(tx, rpc, i) ==
  LET status == statusError(tx, rpc, TRUE)
      found == {k \in DOMAIN tx.logs : WithUnit(tx.logs[k]) # {}}
  IN IF status # "nil" THEN {Fail(i, status)}
     ELSE {[CheckLog(tx, k, 0) EXCEPT !.err = "nil"] : k \in found}

RegisterSwap(tx, rpc, i) ==
  LET status == statusError(tx, rpc, TRUE)
      found == {k \in RegisterIndexes(i, 1, Len(tx.logs)) : WithUnit(tx.logs[k]) # {}}
  IN IF status # "nil" THEN {Fail(i, status)}
     ELSE IF ParseMemo(tx) # "nil" THEN {Fail(i, ParseMemo(tx))}
     ELSE IF i > Len(tx.logs) THEN {Fail(i, "ErrLogIndexOutOfRange")}
     ELSE IF found = {} THEN {Fail(i, "ErrSwapoutLogNotFound")}
     ELSE {CheckLog(tx, k, 0) : k \in found}

\* What the MPC address received in all messages.
Received(tx, token) ==
  MapThenSumSet(LAMBDA k :
    MapThenSumSet(LAMBDA t : IF tx.logs[k][t].to = MPC THEN AmountOf(tx.logs[k][t], token) ELSE 0,
                  DOMAIN tx.logs[k]),
    DOMAIN tx.logs)

=============================================================================
