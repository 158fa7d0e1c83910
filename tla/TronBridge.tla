----------------------------- MODULE TronBridge -----------------------------
(***************************************************************************)
(* Deposits on Tron: tokens/tron.  The gateways answer for solidified      *)
(* transactions; their errors are not told from a refusal.                 *)
(***************************************************************************)
EXTENDS BridgeBase

CONSTANT MaxUint  \* one more than the largest height (code: 2^64)

\* GetTransactionStatus: an unsigned difference, 0 if the latest height is not known.
confirmations(rpc) == IF rpc.latest = NoHeight THEN 0 ELSE (rpc.latest - rpc.tx) % MaxUint

checkTxSuccess(tx, rpc, allowUnstable) ==
  IF rpc.tx = NotFound /\ ~rpc.more THEN "tx log not found"
  ELSE IF rpc.tx \in {NotFound, InPool} THEN "ErrTxNotFound"
  ELSE IF rpc.tx < InitialHeight THEN "ErrTxBeforeInitialHeight"
  ELSE IF ~allowUnstable /\ confirmations(rpc) < Confirmations THEN "ErrTxNotStable"
  ELSE IF ~rpc.more THEN "Tron RPC error"
  ELSE IF ~tx.success THEN "tron tx not success"
  ELSE "nil"

heightOf(rpc) == IF rpc.tx >= InitialHeight /\ rpc.tx > 0 THEN rpc.tx ELSE 0

\* The token of a deposit of NFTs is looked up by its hexadecimal address, and the
\* configuration has Tron addresses: no token is found, and no deposit is taken.
NFTLogError(tx, log) ==
  IF log.kind \notin NFTKinds(tx) THEN "ErrSwapoutLogNotFound"
  ELSE IF ~log.parses THEN "ErrParseDataError"
  ELSE "ErrMissTokenConfig"

\* Version 7 is not known here; its logs have too few topics.  The contract of a log, as a
\* hexadecimal address, is never the Tron address of the router.
verifyAnyCallSwapTxLog(tx, log) ==
  IF log.kind # "anycall" \/ log.version = "v7" THEN "ErrTxWithWrongTopics"
  ELSE IF tx.subType = "v7" THEN "ErrUnknownSwapSubType"
  ELSE IF log.version # tx.subType THEN "ErrSwapoutLogNotFound"
  ELSE IF ~log.parses THEN "ErrParseDataError"
  ELSE IF log.removed THEN "ErrTxWithRemovedLog"
  ELSE "ErrTxWithWrongContract"

\* What is wrong with a log: a registration leaves out one that is no swapout of the router.
LogError(tx, log) ==
  CASE tx.type = "erc20" -> verifyERC20SwapTxLog(log)
    [] tx.type = "nft" -> NFTLogError(tx, log)
    [] OTHER -> verifyAnyCallSwapTxLog(tx, log)

\* No log of NFTs or calls gets as far as the checks of its destination.
CheckLog(tx, rpc, i) ==
  LET log == tx.logs[i + 1]
  IN LogInfo(log, i, IF LogError(tx, log) # "nil" THEN LogError(tx, log) ELSE checkERC20SwapInfo(tx, log), heightOf(rpc))

VerifyLog(tx, rpc, i, status) ==
  IF status # "nil" THEN FailAt(i, status, heightOf(rpc))
  ELSE IF i >= Len(tx.logs) THEN FailAt(i, "ErrLogIndexOutOfRange", rpc.tx)
  ELSE CheckLog(tx, rpc, i)

\* All types check the transaction alike.
verifyNFTSwapTx(tx, rpc, i, allowUnstable) == VerifyLog(tx, rpc, i, checkTxSuccess(tx, rpc, allowUnstable))
verifyAnyCallSwapTx(tx, rpc, i, allowUnstable) == VerifyLog(tx, rpc, i, checkTxSuccess(tx, rpc, allowUnstable))
verifyERC20SwapTx(tx, rpc, i, allowUnstable) == VerifyLog(tx, rpc, i, checkTxSuccess(tx, rpc, allowUnstable))

VerifyTransaction(tx, rpc, i, allowUnstable) ==
  CASE tx.type = "erc20" -> verifyERC20SwapTx(tx, rpc, i, allowUnstable)
    [] tx.type = "nft" -> verifyNFTSwapTx(tx, rpc, i, allowUnstable)
    [] OTHER -> verifyAnyCallSwapTx(tx, rpc, i, allowUnstable)

-----------------------------------------------------------------------------
(* Registration *)

GetTransactionLog(tx, rpc) ==
  IF rpc.tx = NotFound /\ ~rpc.more THEN "tx log not found"
  ELSE IF rpc.tx \in {NotFound, InPool} \/ ~tx.success THEN "tx status is not success"
  ELSE "nil"

RegisterLogs(tx, rpc, i, status) ==
  LET found == Registered(tx, i, [k \in DOMAIN tx.logs |-> LogError(tx, tx.logs[k])])
  IN IF status # "nil" THEN {Fail(i, status)}
     ELSE IF i # 0 /\ i >= Len(tx.logs) THEN {Fail(i, "ErrLogIndexOutOfRange")}
     ELSE IF found = {} THEN {Fail(i, "ErrSwapoutLogNotFound")}
     ELSE {CheckLog(tx, rpc, k) : k \in found}

\* The height and the sender of NFTs and calls are not asked for.
registerNFTSwapTx(tx, rpc, i) == RegisterLogs(tx, rpc, i, GetTransactionLog(tx, rpc))
registerAnyCallSwapTx(tx, rpc, i) == RegisterLogs(tx, rpc, i, GetTransactionLog(tx, rpc))
registerERC20SwapTx(tx, rpc, i) == RegisterLogs(tx, rpc, i, checkTxSuccess(tx, rpc, TRUE))

RegisterSwap(tx, rpc, i) ==
  CASE tx.type = "erc20" -> registerERC20SwapTx(tx, rpc, i)
    [] tx.type = "nft" -> registerNFTSwapTx(tx, rpc, i)
    [] OTHER -> registerAnyCallSwapTx(tx, rpc, i)

\* What the router took.
Received(tx, token) == Logged(tx, token)

=============================================================================
