----------------------------- MODULE EvmPayouts -----------------------------
(***************************************************************************)
(* Payouts of the EVM and Tron adapters, which call the router contract.   *)
(***************************************************************************)
EXTENDS PayoutBase

-----------------------------------------------------------------------------
(* The call of the router contract that pays a swap: the method and what   *)
(* it is given (tokens/eth and tokens/tron builderc20swaptx.go, nftswap.go *)
(* and anycallswap.go).  The two chains differ in the versions of the      *)
(* contract: v7 and anycall v7 are on EVM chains only.                     *)

\* An error, or the method with its receiver, value and other arguments.
NoCall(err) == [err |-> err, method |-> "none", recv |-> "none", amount |-> 0, data |-> <<>>]
Call(method, recv, amount, data) ==
  [err |-> "nil", method |-> method, recv |-> recv, amount |-> amount, data |-> data]

\* The version of the token contract: forced to one method, a wrapper, none or a number.
GetSwapInFuncHash(cfg) ==
  CASE cfg.version \in {"wrapper", "force_plain", "force_plain_call"} -> "anySwapIn"
    [] cfg.version = "force_auto" -> "anySwapInAuto"
    [] cfg.version \in {"force_underlying", "force_underlying_call"} -> "anySwapInUnderlying"
    [] cfg.version = "force_native" -> "anySwapInNative"
    [] cfg.version = "none" -> IF cfg.underlying THEN "anySwapInAuto" ELSE "anySwapIn"
    [] OTHER -> IF cfg.underlying \/ cfg.forceAuto THEN "anySwapInAuto" ELSE "anySwapIn"

GetSwapInAndExecFuncHash(cfg) ==
  CASE cfg.version \in {"wrapper", "force_plain_call"} -> "anySwapInAndExec"
    [] cfg.version = "force_underlying_call" -> "anySwapInUnderlyingAndExec"
    [] OTHER -> IF cfg.underlying THEN "anySwapInUnderlyingAndExec" ELSE "anySwapInAndExec"

\* buildERC20SwapTxInput.  On EVM chains an execution needs version 7 of the router.
BuildERC20SwapTxInput(args) ==
  IF receiverError(args) # "nil" THEN NoCall(receiverError(args))
  ELSE IF args.type = "mixpool" THEN Call("anySwapInMixPool", args.bind, SwapAmount(args), <<>>)
  ELSE IF ~args.callProxy
    THEN Call(GetSwapInFuncHash(args.cfg), args.bind, SwapAmount(args), <<args.cfg.router>>)
  ELSE IF args.chain \in {"eth", "reef"} /\ args.cfg.router # "v7" THEN NoCall("ErrRouterVersionMismatch")
  ELSE Call(GetSwapInAndExecFuncHash(args.cfg), args.bind, SwapAmount(args), <<args.cfg.router>>)

\* buildNFTSwapTxInput: ids and amounts fit the kind of token.
WrongIDsOrAmounts(nft) ==
  CASE nft.batch -> Len(nft.ids) # Len(nft.amounts) \/ Len(nft.ids) = 0
    [] ~nft.batch /\ Len(nft.amounts) > 0 -> Len(nft.ids) # 1 \/ Len(nft.amounts) # 1
    [] OTHER -> Len(nft.ids) # 1

buildNFTSwapTxInput(args) ==
  LET nft == args.nft IN
  IF args.bind # "good" THEN NoCall("ErrWrongBindAddress")
  ELSE IF args.token = "unknown" THEN NoCall("ErrMissTokenConfig")
  ELSE IF WrongIDsOrAmounts(nft) THEN NoCall("errWrongIDsOrAmounts")
  ELSE Call(CASE nft.batch -> "nft1155BatchSwapIn"
              [] ~nft.batch /\ nft.amounts # <<>> -> "nft1155SwapIn"
              [] OTHER -> "nft721SwapIn",
            args.bind, 0, <<nft.ids, nft.amounts>>)

\* buildAnyCallSwapTxInput: what is called is the receiver.  The attestation of a message is
\* packed into the data of version 7 only.
buildAnyCallSwapTxInput(args) ==
  LET call == args.anycall IN
  IF call.subType \notin {"v5", "v6"} /\ ~(call.subType = "v7" /\ args.chain = "eth")
    THEN NoCall("ErrUnknownSwapSubType")
  ELSE Call("anyExec", call.to, 0,
            <<call.subType, call.data, IF call.subType = "v7" THEN call.attestation ELSE "none">>)

BuildInput(args) ==
  CASE args.type = "erc20" -> BuildERC20SwapTxInput(args)
    [] args.type = "mixpool" /\ args.chain = "eth" -> BuildERC20SwapTxInput(args)
    [] args.type = "nft" -> buildNFTSwapTxInput(args)
    [] args.type = "anycall" -> buildAnyCallSwapTxInput(args)
    [] OTHER -> NoCall("ErrSwapTypeNotSupported")

-----------------------------------------------------------------------------
(* Payouts of the EVM adapter (tokens/eth/buildtx.go and signtx.go).       *)
(* args.cfg holds the gas configuration: fixed and maximal price (Nil for  *)
(* none), the percentages of the server, and the gas limits.  view.seq is  *)
(* the nonce the nonce setter hands out (see SwapJob).                     *)

CONSTANTS
  NonceWindow,   \* how far the next nonce may be from the last one (code: 1000)
  FirstNonceMax  \* the largest nonce for an account not seen before (code: 10000000)

-----------------------------------------------------------------------------
(* Gas price *)

\* Percentage a server adds, more with every replacement.
AddPercent(cfg, plus, replaceNum) ==
  Min({plus + replaceNum * cfg.replacePlus, cfg.maxPlus})

\* Mutation: the automatic limit stays what the first price made it.
adjustSwapGasPrice_NoGrowth(cfg, price, replaceNum, mem) ==
  LET new == PlusPercent(price, AddPercent(cfg, IF cfg.fixedPrice # Nil THEN 0 ELSE cfg.plus, replaceNum))
  IN [price |-> new, mem |-> [mem EXCEPT !.autoMax = IF @ = Nil THEN 10 * new ELSE @]]

\* The price with the percentage, not below the last one by more than the fluctuation
\* allowed; the automatic limit shrinks at once and grows by a tenth.
adjustSwapGasPrice(cfg, price, replaceNum, mem) ==
  LET raised == PlusPercent(price, AddPercent(cfg, IF cfg.fixedPrice # Nil THEN 0 ELSE cfg.plus, replaceNum))
      new == IF cfg.fluct = 0 \/ mem.latest = Nil THEN raised
             ELSE MaxOf(raised, mem.latest - (mem.latest * cfg.fluct) \div 100)
  IN [price |-> new,
      mem |-> [mem EXCEPT
                !.latest = IF cfg.fluct > 0 /\ replaceNum = 0 THEN new ELSE @,
                !.autoMax = IF @ = Nil \/ @ > 10 * new THEN 10 * new ELSE @ + @ \div 10]]

GasPrice(err, price, mem) == [err |-> err, price |-> price, mem |-> mem]

EthGetGasPrice(args, server, view, replaceNum, mem) ==
  LET cfg == args.cfg
      fixed == cfg.fixedPrice # Nil
      suggested == IF fixed THEN cfg.fixedPrice ELSE view.price
      adjusted == adjustSwapGasPrice(cfg, suggested, replaceNum, mem)
      limit == IF cfg.maxPrice # Nil THEN cfg.maxPrice ELSE adjusted.mem.autoMax
  IN IF fixed /\ (replaceNum = 0 \/ cfg.maxPrice = cfg.fixedPrice)
       THEN GasPrice("nil", cfg.fixedPrice, mem)
     ELSE IF suggested = Nil THEN GasPrice("rpc error", Nil, mem)
     ELSE IF ~server THEN GasPrice("no router server config", Nil, mem)
     ELSE IF adjusted.price > limit THEN GasPrice("gas price exceeded maximum limit", Nil, adjusted.mem)
     ELSE GasPrice("nil", RoundUp(adjusted.price, cfg.unit), adjusted.mem)

\* Mutation: the tip is not cut off.
getGasTipCap_Uncut(args, view, replaceNum) ==
  PlusPercent(view.price, AddPercent(args.cfg, args.cfg.plus, replaceNum))

\* getGasTipCap and getGasFeeCap are cut off at their maxima.
getGasTipCap(args, view, replaceNum) ==
  LET tip == PlusPercent(view.price, AddPercent(args.cfg, args.cfg.plus, replaceNum))
  IN Min({tip, Default(args.cfg.maxTip, tip)})

getGasFeeCap(args, view, tip) ==
  LET cap == PlusPercent(tip + 2 * view.base, args.cfg.plusCap)
  IN Min({cap, Default(args.cfg.maxCap, cap)})

\* setDefaults for a dynamic fee transaction, or one with a gas price.
DynamicFees(args, server, view, extra, mem) ==
  LET tip == Default(extra.tip, getGasTipCap(args, view, extra.replaceNum))
      cap == Default(extra.cap, getGasFeeCap(args, view, tip))
      done == [extra EXCEPT !.tip = tip, !.cap = cap, !.price = Nil]
  IN IF extra.tip = Nil /\ ~server THEN Refused("ErrMissDynamicFeeConfig", mem)
     ELSE IF extra.tip = Nil /\ view.price = Nil THEN Refused("rpc error", mem)
     ELSE IF extra.cap = Nil /\ view.base = Nil THEN Refused("rpc error", mem)
     ELSE Built(done, "fees", mem)

LegacyFees(args, server, view, extra, mem) ==
  LET gasPrice == EthGetGasPrice(args, server, view, extra.replaceNum, mem) IN
  IF extra.price # Nil THEN Built(extra, "fees", mem)
  ELSE IF gasPrice.err # "nil" THEN Refused(gasPrice.err, gasPrice.mem)
  ELSE Built([extra EXCEPT !.price = gasPrice.price, !.tip = Nil, !.cap = Nil], "fees", gasPrice.mem)

-----------------------------------------------------------------------------
(* Gas, balance and nonce *)

\* The estimate with 30 percent more, at least the default; the limit of the token goes
\* before the limit of the chain.
GasLimit(cfg, estimate) == MaxOf(PlusPercent(estimate, 30), cfg.defaultGas)
MaxGas(cfg) == IF cfg.maxTokenGas > 0 THEN cfg.maxTokenGas ELSE cfg.maxGas

gasError(args, view, extra) ==
  IF extra.gas # Nil THEN "nil"
  ELSE IF view.gas = Nil THEN "ErrBuildTxErrorAndDelay"
  ELSE IF view.gas = 0 /\ args.cfg.gasMustBePositive THEN "ErrBuildTxErrorAndDelay"
  ELSE IF MaxGas(args.cfg) > 0 /\ GasLimit(args.cfg, view.gas) > MaxGas(args.cfg)
    THEN "ErrBuildTxErrorAndDelay"
  ELSE "nil"

\* The server, and a node that is told to, wants the reserve and five times the fee.
EthBalanceError(args, server, view, extra) ==
  LET fee == extra.gas * (IF args.cfg.dynamic THEN extra.cap ELSE extra.price) IN
  IF ~server \/ args.cfg.minReserve = 0 THEN "nil"
  ELSE IF view.coin = Nil THEN "rpc error"
  ELSE IF view.coin < args.cfg.minReserve + 5 * fee THEN "not enough coin balance"
  ELSE "nil"

NonceOutOfRange(cached, nonce) ==
  IF cached > 0 THEN nonce > cached + NonceWindow \/ nonce + NonceWindow < cached
  ELSE nonce > FirstNonceMax

\* buildTx, of a call with all fees set.
buildTx(args, server, view, extra, call, mem) ==
  LET nonce == Default(extra.seq, view.seq) IN
  IF EthBalanceError(args, server, view, extra) # "nil"
    THEN Refused(EthBalanceError(args, server, view, extra), mem)
  ELSE IF nonce = Nil THEN Refused("rpc error", mem)
  ELSE IF NonceOutOfRange(mem.cached, nonce) THEN Refused("nonce is out of range", mem)
  ELSE Built([extra EXCEPT !.seq = nonce],
             [to |-> Contract, method |-> call.method, recv |-> call.recv, amount |-> call.amount,
              data |-> call.data, seq |-> nonce, gas |-> extra.gas, price |-> extra.price,
              tip |-> extra.tip, cap |-> extra.cap],
             [mem EXCEPT !.cached = nonce])

EthBuildRawTransaction(args, server, view, extra, mem) ==
  LET call == BuildInput(args)
      fees == IF args.cfg.dynamic THEN DynamicFees(args, server, view, extra, mem)
              ELSE LegacyFees(args, server, view, extra, mem)
      gas == Default(extra.gas, GasLimit(args.cfg, view.gas))
  IN IF senderError(args) # "nil" THEN Refused(senderError(args), mem)
     ELSE IF call.err # "nil" THEN Refused(call.err, mem)
     ELSE IF fees.err # "nil" THEN fees
     ELSE IF gasError(args, view, extra) # "nil" THEN Refused(gasError(args, view, extra), fees.mem)
     ELSE buildTx(args, server, view, [fees.extra EXCEPT !.gas = gas], call, fees.mem)

-----------------------------------------------------------------------------
\* Mutation: the transaction gets the new price, the extra of the request the old one.
EthMPCSignTransaction_Forgets(args, view, built) ==
  LET tx == built.tx[1]
      gasPrice == EthGetGasPrice(args, TRUE, view, built.extra.replaceNum, built.mem)
  IN IF args.cfg.dynamic \/ args.cfg.zkSync \/ gasPrice.err # "nil" \/ gasPrice.price <= built.extra.price THEN built
     ELSE Built(built.extra, [tx EXCEPT !.price = gasPrice.price], gasPrice.mem)

\* MPCSignTransaction: a price that rose since the build is taken into the transaction and
\* into the request; a price that cannot be had is ignored.
EthMPCSignTransaction(args, view, built) ==
  LET tx == built.tx[1]
      gasPrice == EthGetGasPrice(args, TRUE, view, built.extra.replaceNum, built.mem)
  IN IF tx.to # Contract THEN Refused("tx receiver mismatch", built.mem)
     ELSE IF args.cfg.dynamic \/ args.cfg.zkSync THEN built
     ELSE IF gasPrice.err = "nil" /\ built.extra.price < gasPrice.price
       THEN Built([built.extra EXCEPT !.price = gasPrice.price],
                  [tx EXCEPT !.price = gasPrice.price], gasPrice.mem)
     ELSE [built EXCEPT !.mem = gasPrice.mem]

EthVerifyMsgHash(tx, hash) == tx = hash

\* signTxWithSignature tries both values of v until the sender is the account.
signTxWithSignature(rsv) ==
  IF rsv.of = 1 THEN SignedWith(<<[rsv EXCEPT !.v = TRUE]>>) ELSE Unsigned("wrong sender address")

\* On zkSync the signature is not looked at.
EthSignatures(args, rsvs) ==
  IF OneOfSize(TRUE, rsvs).err # "nil" \/ args.cfg.zkSync THEN OneOfSize(TRUE, rsvs)
  ELSE signTxWithSignature(rsvs[1])

\* SignTransactionWithPrivateKey does not know the transactions of zkSync.
EthSignWithPrivateKey(args, sigs) ==
  IF args.cfg.zkSync THEN Unsigned("wrong raw tx param") ELSE SignedWith(sigs)

-----------------------------------------------------------------------------
(* Payouts of the Tron adapter (tokens/tron/buildtx.go and signtx.go).     *)
(* A node builds the transaction, with a reference to one of its blocks    *)
(* (view.block); the request carries the transaction, and the MPC nodes    *)
(* check it instead of building one.                                       *)

CONSTANT SwapinFeeLimit

\* BuildTriggerConstantContractTx
TriggerTx(call, block) ==
  [to |-> Contract, method |-> call.method, recv |-> call.recv, amount |-> call.amount,
   data |-> call.data, feeLimit |-> SwapinFeeLimit, block |-> block]

\* Mutation: the data of the call is not compared.
verifyRawTransaction_NoData(tx, call) == tx.feeLimit = SwapinFeeLimit /\ tx.to = Contract

verifyRawTransaction(tx, call) ==
  /\ tx.feeLimit = SwapinFeeLimit
  /\ tx.to = Contract
  /\ <<tx.method, tx.recv, tx.amount, tx.data>> = <<call.method, call.recv, call.amount, call.data>>

TronBuildRawTransaction(args, server, view, extra, mem) ==
  LET call == BuildInput(args)
      tx == TriggerTx(call, view.block)
  IN IF senderError(args) # "nil" THEN Refused(senderError(args), mem)
     ELSE IF call.err # "nil" THEN Refused(call.err, mem)
     ELSE IF extra.raw # <<>>
       THEN IF verifyRawTransaction(extra.raw[1], call) THEN Built(extra, extra.raw[1], mem)
            ELSE Refused("tx data mismatch", mem)
     ELSE IF view.block = Nil THEN Refused("rpc error", mem)
     ELSE Built([extra EXCEPT !.raw = <<tx>>], tx, mem)

TronMPCSignTransaction(built) ==
  IF built.tx[1].to # Contract THEN Refused("tx receiver mismatch", built.mem) ELSE built

TronVerifyMsgHash(tx, hash) == tx = hash

TronSignatures(rsvs) == OneOfSize(TRUE, rsvs)

-----------------------------------------------------------------------------
(* Payouts of the Reef adapter (tokens/reef/buildtx.go, signtx.go), an EVM *)
(* whose transactions are wrapped in ones of the Substrate chain.  Scripts *)
(* do the encoding: getSignInfo, which asks the chain for gas, storage     *)
(* gas, block and nonce (view.gas, price, block, seq), and others that ask *)
(* for nothing (view.sim is 1 when they succeed).                          *)

ReefHasSignInfo(view) == Nil \notin {view.gas, view.price, view.block, view.seq}

\* buildRawtx, getTxHash and signTxWallet
ReefScriptRuns(view) == view.sim = 1

\* setDefaults.  What AdjustNonce makes of the nonce is not used.
ReefSetDefaults(view, extra) ==
  [extra EXCEPT !.price = Default(@, view.price), !.gas = Default(@, view.gas),
                !.seq = Default(@, view.seq), !.block = Default(@, view.block)]

\* checkCoinBalance of the reserve
ReefBalanceError(args, server, view) ==
  IF ~server \/ args.cfg.minReserve = 0 THEN "nil"
  ELSE IF view.coin = Nil THEN "rpc error"
  ELSE IF view.coin < args.cfg.minReserve THEN "not enough coin balance"
  ELSE "nil"

\* Server and nodes run getSignInfo, whatever is settled already.
ReefBuildRawTransaction(args, server, view, extra, mem) ==
  LET call == BuildERC20SwapTxInput(args)
      full == ReefSetDefaults(view, extra)
  IN IF senderError(args) # "nil" THEN Refused(senderError(args), mem)
     ELSE IF args.type \notin {"erc20", "mixpool"} THEN Refused("ErrSwapTypeNotSupported", mem)
     ELSE IF call.err # "nil" THEN Refused(call.err, mem)
     ELSE IF ~ReefHasSignInfo(view) THEN Refused("getSignInfo ts output error", mem)
     ELSE IF ReefBalanceError(args, server, view) # "nil" THEN Refused(ReefBalanceError(args, server, view), mem)
     ELSE Built(full, [to |-> Contract, method |-> call.method, recv |-> call.recv, amount |-> call.amount,
                       data |-> call.data, seq |-> full.seq, gas |-> full.gas, price |-> full.price,
                       block |-> full.block], mem)

\* The account must not be the EVM address the chain gives a key by default: cfg.bound says
\* that another one was bound to it.
ReefMPCSignTransaction(args, view, built) ==
  IF built.tx[1].to # Contract THEN Refused("tx receiver mismatch", built.mem)
  ELSE IF args.ownKey THEN built
  ELSE IF ~args.cfg.bound THEN Refused("signer dismatch", built.mem)
  ELSE IF ~ReefScriptRuns(view) THEN Refused("buildRawtx ts output error", built.mem)
  ELSE built

\* (buildRawtx of a node fails as its getSignInfo does.)
ReefVerifyMsgHash(tx, hash) == tx = hash

ReefSignatures(view, rsvs) == AndThen(OneOfSize(FALSE, rsvs), ReefScriptRuns(view))
ReefSignWithPrivateKey(view, sigs) == AndThen(SignedWith(sigs), ReefScriptRuns(view))

=============================================================================
