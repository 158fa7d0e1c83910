----------------------------- MODULE EthBridge ------------------------------
(***************************************************************************)
(* Deposits on EVM chains: tokens/eth.  Besides its logs a transaction has *)
(* the function it called (tx.permit), and the balances and supplies of    *)
(* the block before and after it (tx.balance, tx.supply).  The token is    *)
(* the contract "token" over the contract "underlying" when the pair has   *)
(* an underlying (tx.underlying), and the chain may be configured to check *)
(* balances (tx.checkBalance).                                             *)
(***************************************************************************)
EXTENDS BridgeBase

CONSTANTS
  SwapWithPermit,   \* swaps by a signed permit are allowed
  SwapoutForbidden  \* tokens that may not be swapped out at the moment

\* No confirmations are known when the latest height is not past the transaction.
confirmations(rpc) == IF rpc.latest > rpc.tx THEN rpc.latest - rpc.tx ELSE 0

\* A receipt without its block, as a gateway may give for a transaction in its pool, one of
\* another transaction, or of a block that is not on the chain any more: the error of the
\* first answer is passed on as it is, and the other gateways are not asked.
GetTransactionReceipt(rpc) ==
  IF rpc.tx = NotFound \/ (rpc.tx = InPool /\ rpc.sound) THEN "ErrRPCQueryError"
  ELSE IF rpc.tx = InPool THEN "errTxReceiptMissBlockInfo"
  ELSE IF ~rpc.sound THEN "errTxHashMismatch"
  ELSE "nil"

getSwapTxReceipt(tx, rpc, allowUnstable) ==
  IF GetTransactionReceipt(rpc) # "nil" THEN GetTransactionReceipt(rpc)
  ELSE IF rpc.tx < InitialHeight THEN "ErrTxBeforeInitialHeight"
  ELSE IF ~allowUnstable /\ confirmations(rpc) < Confirmations THEN "ErrTxNotStable"
  ELSE IF ~tx.success THEN "ErrTxWithWrongReceipt"
  ELSE IF tx.to = "constructor" THEN "ErrTxWithWrongContract"
  ELSE "nil"

heightOf(rpc) == IF rpc.sound /\ rpc.tx >= InitialHeight /\ rpc.tx > 0 THEN rpc.tx ELSE 0

\* verifyERC20SwapTxLog: the security contract of a v7 router knows the swapout.
LogError(log, rpc) ==
  IF verifyERC20SwapTxLog(log) # "nil" THEN verifyERC20SwapTxLog(log)
  ELSE IF log.swapoutID = "none" THEN "nil"
  ELSE IF ~rpc.more THEN "ErrRPCQueryError"
  ELSE IF log.swapoutID = "unknown" THEN "ErrSwapoutIDNotExist"
  ELSE "nil"

-----------------------------------------------------------------------------
(* Received tokens *)

Receives(log) == log.kind = "transfer" /\ ~log.removed

\* The mint right before the burn of the same token: routers up to v5 mint and burn.
MintedBefore(tx, k, from) ==
  /\ k >= 3
  /\ tx.logs[k - 1].kind = "transfer" /\ tx.logs[k - 1].addr = "token"
  /\ tx.logs[k - 1].from = "zero" /\ tx.logs[k - 1].to = from

NoAmount == -1

\* Mutation: the search goes on past a log of the router.
recvAmount_Reentrant(tx, from, n) ==
  LET sent == {k \in 1 .. n : Receives(tx.logs[k]) /\ tx.logs[k].addr = "underlying" /\ tx.logs[k].to = "token"}
  IN IF sent = {} THEN NoAmount ELSE tx.logs[Max(sent)].amount

\* The amount found in the first k logs, looking backwards; a log of the router ends the
\* search, so that no other swapout uses the same transfer.
recvAmount(tx, from, n) ==
  LET found[k \in 0 .. n] ==
        IF k = 0 THEN NoAmount
        ELSE LET log == tx.logs[k] IN
          CASE log.addr = MPC -> NoAmount
            [] log.addr # MPC /\ Receives(log) /\ log.addr = "underlying" ->
                 IF log.to = "zero" THEN (IF log.from = from THEN log.amount ELSE NoAmount)
                 ELSE IF log.to = "token"
                   THEN (IF log.from \in {from, MPC} THEN log.amount ELSE NoAmount)
                 ELSE found[k - 1]
            [] Receives(log) /\ log.addr = "token" /\ log.to = "zero" /\ log.from = from ->
                 IF MintedBefore(tx, k, from) THEN found[k - 2] ELSE log.amount
            [] OTHER -> found[k - 1]
  IN found[n]

\* At least this much has to arrive: fees and burns may take the rest.
MinAmount(value) == (value * 4) \div 5

checkTokenReceived(tx, i) ==
  LET log == tx.logs[i + 1]
      amount == recvAmount(tx, log.from, i)
  IN IF tx.underlying /\ (amount = NoAmount \/ amount < MinAmount(log.amount))
       THEN "ErrVerifyTxUnsafe" ELSE "nil"

-----------------------------------------------------------------------------
(* Balances: a block that is not known, or a zero, is not held against the swap. *)

\* What the balance of account changed by, with the transfers the other way in the block.
checkAccountBalance(tx, contract, account, least, isDecrease) ==
  LET b == tx.balance[contract, account]
      change == IF isDecrease THEN b.prev - b.post ELSE b.post - b.prev
      back == IF isDecrease THEN b.received ELSE b.sent
  IN b.prev = 0 \/ b.post = 0 \/ change >= least \/ change + back >= least

checkTotalSupply(tx, contract, least) ==
  LET b == tx.supply[contract]
  IN b.prev = 0 \/ b.post = 0 \/ b.prev - b.post >= least \/ b.prev - b.post + b.minted >= least

\* Transfers and burns of the swap: after the last log of the router before it.
Matched(tx, i) ==
  LET swap == tx.logs[i + 1]
  IN {k \in 1 .. i :
        /\ \A j \in k .. i : tx.logs[j].addr # MPC
        /\ tx.logs[k].addr \in {"token", "underlying"}
        /\ Receives(tx.logs[k])
        /\ tx.logs[k].from \in {swap.from, MPC}
        /\ tx.logs[k].to \in {"zero", "token"}
        /\ tx.logs[k].amount >= MinAmount(swap.amount)}

checkTokenTransfer(tx, swap, log) ==
  /\ log.from = MPC \/ checkAccountBalance(tx, log.addr, log.from, MinAmount(swap.amount), TRUE)
  /\ checkAccountBalance(tx, log.addr, "token", MinAmount(swap.amount), FALSE)

checkTokenBurn(tx, swap, log) ==
  /\ checkAccountBalance(tx, log.addr, swap.from, MinAmount(swap.amount), TRUE)
  /\ checkTotalSupply(tx, log.addr, MinAmount(swap.amount))

\* Transfers are checked before burns, and burns only when there is no transfer.
checkTokenBalance(tx, rpc, i) ==
  LET swap == tx.logs[i + 1]
      transfers == {k \in Matched(tx, i) : tx.logs[k].to = "token"}
      burns == Matched(tx, i) \ transfers
  IN IF ~tx.checkBalance THEN "nil"
     ELSE IF Matched(tx, i) = {} THEN "no swapout pattern matched"
     ELSE IF ~rpc.more THEN "nil"
     ELSE IF \/ \E k \in transfers : ~checkTokenTransfer(tx, swap, tx.logs[k])
             \/ transfers = {} /\ \E k \in burns : ~checkTokenBurn(tx, swap, tx.logs[k])
       THEN "ErrVerifyTxUnsafe"
     ELSE "nil"

-----------------------------------------------------------------------------
(* Swaps *)

checkSwapWithPermit(tx, log, rpc) ==
  IF SwapWithPermit \/ log.callProxy \/ tx.to # MPC THEN "nil"
  ELSE IF ~rpc.more THEN "ErrRPCQueryError"
  ELSE IF tx.permit THEN "ErrUnsupportedFuncHash"
  ELSE "nil"

\* A call on the destination needs a v7 router there; a paused token takes no swaps.
checkSwapInfo(tx, log, rpc) ==
  IF ~MayCallRouter(tx.to) THEN "ErrTxWithWrongContract"
  ELSE IF checkSwapWithPermit(tx, log, rpc) # "nil" THEN checkSwapWithPermit(tx, log, rpc)
  ELSE IF /\ checkERC20SwapInfo(tx, log) \in {"nil", "ErrTxWithWrongValue", "ErrWrongBindAddress"}
          /\ tx.paused THEN "ErrPauseSwapInto"
  ELSE IF checkERC20SwapInfo(tx, log) # "nil" THEN checkERC20SwapInfo(tx, log)
  ELSE IF log.callProxy /\ ~tx.dstV7 THEN "ErrRouterVersionMismatch"
  ELSE "nil"

verifyERC20Swap(tx, rpc, i) ==
  LET log == tx.logs[i + 1]
  IN IF LogError(log, rpc) # "nil" THEN LogError(log, rpc)
     ELSE IF checkTokenReceived(tx, i) # "nil" THEN checkTokenReceived(tx, i)
     ELSE IF checkSwapInfo(tx, log, rpc) # "nil" THEN checkSwapInfo(tx, log, rpc)
     ELSE IF checkTokenBalance(tx, rpc, i) # "nil" THEN checkTokenBalance(tx, rpc, i)
     ELSE IF log.token \in SwapoutForbidden THEN "ErrSwapoutForbidden"
     ELSE "nil"

-----------------------------------------------------------------------------
(* NFTs *)

\* The parser of each kind: the data has its length, and the token is known.
ParseNFTLog(log) ==
  IF ~log.parses THEN "ErrParseDataError"
  ELSE IF ~HasTokenConfig(log.token) THEN "ErrMissTokenConfig"
  ELSE "nil"

verifyNFTSwapTxLog(tx, log) ==
  IF log.kind \notin NFTKinds(tx) THEN "ErrSwapoutLogNotFound"
  ELSE IF ParseNFTLog(log) # "nil" THEN ParseNFTLog(log)
  ELSE IF log.removed THEN "ErrTxWithRemovedLog"
  ELSE IF log.addr # MPC THEN "ErrTxWithWrongContract"
  ELSE "nil"

\* A batch has an amount for each id, the others have one id, and one amount at most.
WrongIDsOrAmounts(log) ==
  IF log.kind = "nft1155batch" THEN log.ids = 0 \/ log.ids # log.amounts
  ELSE log.ids # 1 \/ log.amounts > 1

checkNFTSwapInfo(tx, log) ==
  IF ~MayCallRouter(tx.to) THEN "ErrTxWithWrongContract"
  ELSE IF ~log.fromChainOk THEN "ErrFromChainIDMismatch"
  ELSE IF log.dest = "same_chain" THEN "ErrSameFromAndToChainID"
  ELSE IF ~HasBridge(log.dest) THEN "ErrNoBridgeForChainID"
  ELSE IF ~ValidBind(log.dest) THEN "ErrWrongBindAddress"
  ELSE IF log.dest = "no_token" THEN "ErrMissTokenConfig"
  ELSE IF WrongIDsOrAmounts(log) THEN "errWrongIDsOrAmounts"
  ELSE "nil"

verifyNFTSwap(tx, i) ==
  LET log == tx.logs[i + 1]
  IN IF verifyNFTSwapTxLog(tx, log) # "nil" THEN verifyNFTSwapTxLog(tx, log)
     ELSE IF checkNFTSwapInfo(tx, log) # "nil" THEN checkNFTSwapInfo(tx, log)
     ELSE IF log.token \in SwapoutForbidden THEN "ErrSwapoutForbidden"
     ELSE "nil"

-----------------------------------------------------------------------------
(* Calls *)

\* The parsers of the versions: an application may not take fallbacks of version 6.
ParseCallLog(log) ==
  IF ~log.parses THEN "ErrParseDataError"
  ELSE IF log.version = "v6" /\ log.fallback THEN "ErrFallbackNotSupport"
  ELSE "nil"

\* A log of the version that is configured.
verifyAnyCallSwapTxLog(tx, log) ==
  IF log.kind # "anycall" \/ log.version # tx.subType THEN "ErrSwapoutLogNotFound"
  ELSE IF ParseCallLog(log) # "nil" THEN ParseCallLog(log)
  ELSE IF log.removed THEN "ErrTxWithRemovedLog"
  ELSE IF log.addr # MPC THEN "ErrTxWithWrongContract"
  ELSE "nil"

\* The second flag, whose meaning version 7 has turned round.
isPayFeeOnDest(log) == log.version = "v5" \/ (log.version = "v7" /\ log.flag) \/ (log.version = "v6" /\ ~log.flag)

\* The caller holds the budget of the destination, if there is one; the contract that is
\* called is any, and so is the one the transaction calls first.
checkAnyCallSwapInfo(tx, log, rpc) ==
  IF log.dest = "same_chain" THEN "ErrSameFromAndToChainID"
  ELSE IF ~HasBridge(log.dest) THEN "ErrNoBridgeForChainID"
  ELSE IF tx.budget = "none" \/ ~isPayFeeOnDest(log) THEN "nil"
  ELSE IF ~rpc.more THEN "ErrRPCQueryError"
  ELSE IF tx.budget = "short" THEN "ErrNoEnoughReserveBudget"
  ELSE "nil"

\* The message nearest before the call of one that moves USDC, whichever call it belongs
\* to; the server asks for its attestation.
findMessageSentInfo(tx, rpc, i, allowUnstable) ==
  LET messages == {k \in 1 .. i : tx.logs[k].kind = "message"}
  IN IF messages = {} THEN "ErrMessageSentNotFound"
     ELSE IF ~tx.logs[Max(messages)].parses THEN "ErrParseDataError"
     ELSE IF ~allowUnstable /\ ~rpc.more THEN "ErrGetAttestationFailed"
     ELSE "nil"

verifyAnyCallSwap(tx, rpc, i, allowUnstable) ==
  LET log == tx.logs[i + 1]
      message == findMessageSentInfo(tx, rpc, i, allowUnstable)
  IN IF verifyAnyCallSwapTxLog(tx, log) # "nil" THEN verifyAnyCallSwapTxLog(tx, log)
     ELSE IF log.usdc /\ message # "nil" THEN message
     ELSE checkAnyCallSwapInfo(tx, log, rpc)

-----------------------------------------------------------------------------
(* Verification and registration *)

VerifyError(tx, rpc, i, allowUnstable) ==
  CASE tx.type = "erc20" -> verifyERC20Swap(tx, rpc, i)
    [] tx.type = "nft" -> verifyNFTSwap(tx, i)
    [] OTHER -> verifyAnyCallSwap(tx, rpc, i, allowUnstable)

VerifyTransaction(tx, rpc, i, allowUnstable) ==
  LET status == getSwapTxReceipt(tx, rpc, allowUnstable)
  IN IF status # "nil" THEN FailAt(i, status, heightOf(rpc))
     ELSE IF i >= Len(tx.logs) THEN FailAt(i, "ErrLogIndexOutOfRange", rpc.tx)
     ELSE LogInfo(tx.logs[i + 1], i, VerifyError(tx, rpc, i, allowUnstable), rpc.tx)

\* A registration does not look for what was received, for messages or at what is forbidden.
registerERC20SwapTx(tx, rpc, log) ==
  IF LogError(log, rpc) # "nil" THEN LogError(log, rpc) ELSE checkSwapInfo(tx, log, rpc)

registerNFTSwapTx(tx, log) ==
  IF verifyNFTSwapTxLog(tx, log) # "nil" THEN verifyNFTSwapTxLog(tx, log) ELSE checkNFTSwapInfo(tx, log)

registerAnyCallSwapTx(tx, rpc, log) ==
  IF verifyAnyCallSwapTxLog(tx, log) # "nil" THEN verifyAnyCallSwapTxLog(tx, log)
  ELSE checkAnyCallSwapInfo(tx, log, rpc)

RegisterError(tx, rpc, i) ==
  LET log == tx.logs[i + 1]
  IN CASE tx.type = "erc20" -> registerERC20SwapTx(tx, rpc, log)
       [] tx.type = "nft" -> registerNFTSwapTx(tx, log)
       [] OTHER -> registerAnyCallSwapTx(tx, rpc, log)

\* What a registration skips a log for.
FoundError(tx, rpc, log) ==
  CASE tx.type = "erc20" -> LogError(log, rpc)
    [] tx.type = "nft" -> verifyNFTSwapTxLog(tx, log)
    [] OTHER -> verifyAnyCallSwapTxLog(tx, log)

RegisterSwap(tx, rpc, i) ==
  LET status == getSwapTxReceipt(tx, rpc, TRUE)
      found == Registered(tx, i, [k \in DOMAIN tx.logs |-> FoundError(tx, rpc, tx.logs[k])])
  IN IF status # "nil" THEN {Fail(i, status)}
     ELSE IF i # 0 /\ i >= Len(tx.logs) THEN {Fail(i, "ErrLogIndexOutOfRange")}
     ELSE IF found = {} THEN {Fail(i, "ErrSwapoutLogNotFound")}
     ELSE {LogInfo(tx.logs[k + 1], k, RegisterError(tx, rpc, k), rpc.tx) : k \in found}

\* What reached the token contract or was burnt, less what was minted; without an
\* underlying the logs of the router are the only source.
Moved(log) ==
  IF ~Receives(log) THEN 0
  ELSE IF log.addr = "underlying" /\ log.to \in {"zero", "token"} THEN log.amount
  ELSE IF log.addr = "token" /\ log.to = "zero" THEN log.amount
  ELSE IF log.addr = "token" /\ log.from = "zero" THEN -log.amount
  ELSE 0

Received(tx, token) ==
  IF tx.type # "erc20" \/ ~tx.underlying THEN Logged(tx, token)
  ELSE IF token = "token" THEN MapThenSumSet(LAMBDA k : Moved(tx.logs[k]), DOMAIN tx.logs)
  ELSE 0

=============================================================================
