---------------------------- MODULE ChainPayouts ----------------------------
(***************************************************************************)
(* Payouts of the adapters of the chains that are no EVM: with accounts and*)
(* nonces (Near, Flow, Aptos, Solana, Cosmos), payment ledgers (Ripple,    *)
(* Stellar) and unspent outputs (Bitcoin, Iota; Cardano is in              *)
(* CardanoPayout).                                                         *)
(***************************************************************************)
EXTENDS PayoutBase, SequencesExt

-----------------------------------------------------------------------------
(* Payouts of the Near adapter (tokens/near/buildtx.go): a call of the     *)
(* token contract, or a transfer of the native coin.  The nonce and the    *)
(* hash of a recent block are settled by the server.                       *)

CONSTANT NearGasLimit

NearInitExtra(view, extra) ==
  [extra EXCEPT !.seq = Default(@, view.seq), !.gas = Default(@, NearGasLimit),
                !.block = Default(@, view.block)]

\* CreateFunctionCall: version 666 mints, 999 is the native coin, others are transferred.
NearBalanceError(args, view, amount) ==
  LET has == IF args.cfg.version = "native" THEN view.coin ELSE view.bal IN
  IF args.cfg.version = "mint" THEN "nil"
  ELSE IF has = Nil THEN "rpc error"
  ELSE IF has < amount THEN "ErrBalanceNotEnough"
  ELSE "nil"

NearMethod(args) ==
  CASE args.cfg.version = "mint" -> "swap_in"
    [] args.cfg.version = "native" -> "transfer"
    [] OTHER -> "ft_transfer"

NearBuildRawTransaction(args, server, view, extra, mem) ==
  LET amount == SwapAmount(args)
      full == NearInitExtra(view, extra)
  IN IF senderError(args) # "nil" THEN Refused(senderError(args), mem)
     ELSE IF args.type # "erc20" THEN Refused("ErrSwapTypeNotSupported", mem)
     ELSE IF receiverError(args) # "nil" THEN Refused(receiverError(args), mem)
     ELSE IF full.seq = Nil \/ full.block = Nil THEN Refused("rpc error", mem)
     ELSE IF NearBalanceError(args, view, amount) # "nil" THEN Refused(NearBalanceError(args, view, amount), mem)
     ELSE Built(full, [method |-> NearMethod(args), recv |-> args.bind, amount |-> amount,
                       seq |-> full.seq, gas |-> full.gas, block |-> full.block], mem)

NearVerifyMsgHash(tx, hash) == tx = hash

NearSignatures(rsvs) == OneOfSize(FALSE, rsvs)

-----------------------------------------------------------------------------
(* Payouts of the Flow adapter (tokens/flow/buildtx.go, signtx.go).  The   *)
(* value of the swap is computed, and the value of the deposit is paid.    *)
(* view.account is the key of the account that signs.                      *)

CONSTANT FlowGasLimit

FlowInitExtra(view, extra) ==
  [extra EXCEPT !.seq = Default(@, view.seq), !.gas = Default(@, FlowGasLimit),
                !.block = Default(@, view.block)]

\* CreateSwapInArgs.  CreateTransaction takes the gas and does not set it.
FlowBuildRawTransaction(args, server, view, extra, mem) ==
  LET full == FlowInitExtra(view, extra) IN
  IF senderError(args) # "nil" THEN Refused(senderError(args), mem)
  ELSE IF args.type # "erc20" THEN Refused("ErrSwapTypeNotSupported", mem)
  ELSE IF args.token = "unknown" THEN Refused("ErrMissTokenConfig", mem)
  ELSE IF full.seq = Nil \/ full.block = Nil \/ view.account = Nil THEN Refused("rpc error", mem)
  ELSE IF args.bind # "good" THEN Refused("swapout to invalid receiver", mem)
  ELSE IF args.cfg.receivePaths # 2 THEN Refused("receive path len error", mem)
  ELSE Built(full, [recv |-> args.bind, amount |-> args.value, key |-> view.account,
                    seq |-> full.seq, block |-> full.block], mem)

FlowVerifyMsgHash(tx, hash) == tx = hash

FlowSignatures(rsvs) == OneOfSize(TRUE, rsvs)

-----------------------------------------------------------------------------
(* Payouts of the Aptos adapter (tokens/aptos/buildtx.go, signtx.go).  The *)
(* receiver has registered the coin (view.recv is 1); the time a           *)
(* transaction expires is in the place of the block, the gas price in the  *)
(* place of the gas.  The server simulates what it built.                  *)

CONSTANTS AptosGasPrice, AptosMaxFee   \* the defaults of the code

\* The estimate, at least the fixed price; without an estimate the fixed price or the default.
AptosGetGasPrice(args, view) ==
  LET fixed == args.cfg.fixedPrice IN
  IF view.price = Nil THEN Default(fixed, AptosGasPrice) ELSE MaxOf(view.price, fixed)

AptosGetMaxFee(args) == IF args.cfg.maxGas = 0 THEN AptosMaxFee ELSE args.cfg.maxGas

AptosSetExtraArgs(args, view, extra) ==
  [extra EXCEPT !.seq = Default(@, view.seq), !.block = Default(@, view.clock),
                !.gas = Default(@, AptosGetGasPrice(args, view)), !.fee = Default(@, AptosGetMaxFee(args))]

\* getReceiverAndAmount
AptosReceiverError(args) ==
  IF args.bind # "good" THEN "can not swapout to invalid receiver"
  ELSE IF SwapAmount(args) > MaxUint64 THEN "ErrTxWithWrongValue"
  ELSE "nil"

AptosBuildSwapinTransferTransaction(args, full) ==
  [swap |-> args.swap, recv |-> args.bind, amount |-> SwapAmount(args), seq |-> full.seq,
   gas |-> full.gas, fee |-> full.fee, expires |-> full.block]

AptosBuildRawTransaction(args, server, view, extra, mem) ==
  LET full == AptosSetExtraArgs(args, view, extra)
  IN IF args.type # "erc20" THEN Refused("ErrSwapTypeNotSupported", mem)
     ELSE IF senderError(args) # "nil" THEN Refused(senderError(args), mem)
     ELSE IF args.token = "unknown" THEN Refused("ErrMissTokenConfig", mem)
     ELSE IF view.recv # 1 THEN Refused("not register coin", mem)
     ELSE IF full.seq = Nil THEN Refused("ErrBuildTxErrorAndDelay", mem)
     ELSE IF AptosReceiverError(args) # "nil" THEN Refused(AptosReceiverError(args), mem)
     ELSE IF server /\ view.sim # 1 THEN Refused("ErrBuildTxErrorAndDelay", mem)
     ELSE Built(full, AptosBuildSwapinTransferTransaction(args, full), mem)

\* verifyTransactionWithArgs
AptosMPCSignTransaction(args, built) ==
  IF <<built.tx[1].swap, built.tx[1].recv>> = <<args.swap, args.bind>> THEN built
  ELSE Refused("verify transaction failed", built.mem)

AptosVerifyMsgHash(tx, hash) == tx = hash

\* Any one signature is taken; CalcTxHashByTSScirpt asks for the ledger.
AptosSignatures(view, rsvs) == AndThen(DoSignOne(FALSE, rsvs), view.block # Nil)

\* SignTransactionWithPrivateKey simulates once more.
AptosSignWithPrivateKey(view, sigs) == AndThen(SignedWith(sigs), view.sim = 1 /\ view.block # Nil)

-----------------------------------------------------------------------------
(* Payouts of the Solana adapter (tokens/solana/buildtx.go, signtx.go).    *)
(* The hash of a recent block and the height it is good for (both are      *)
(* view.block) stand for the nonce; server and nodes simulate what they    *)
(* built (view.sim is 1 when that succeeds).  The sender is the configured *)
(* account, whatever the swap says.                                        *)

SolanaSetExtraArgs(view, extra) ==
  IF extra.seq = Nil /\ extra.block = Nil THEN [extra EXCEPT !.seq = view.block, !.block = view.block]
  ELSE extra

SolanaInstruction(args) ==
  CASE args.cfg.native -> "native"
    [] ~args.cfg.native /\ args.cfg.version = "0" -> "transfer"
    [] OTHER -> "mint"

SolanaBuildRawTransaction(args, server, view, extra, mem) ==
  LET full == SolanaSetExtraArgs(view, extra)
      amount == SwapAmount(args)
  IN IF args.toChain # args.chain THEN Refused("ErrToChainIDMismatch", mem)
     ELSE IF args.type # "erc20" THEN Refused("ErrSwapTypeNotSupported", mem)
     ELSE IF receiverError(args) # "nil" THEN Refused(receiverError(args), mem)
     ELSE IF amount > MaxUint64 THEN Refused("ErrTxWithWrongValue", mem)
     ELSE IF full.block = Nil THEN Refused("rpc error", mem)
     ELSE IF view.sim # 1 THEN Refused("simulation failed", mem)
     ELSE Built(full, [instruction |-> SolanaInstruction(args), swap |-> args.swap, recv |-> args.bind,
                       amount |-> amount, seq |-> full.seq, block |-> full.block], mem)

\* verifyTransactionWithArgs compares the swap and its chain.
SolanaMPCSignTransaction(args, built) ==
  IF built.tx[1].swap = args.swap THEN built ELSE Refused("verify Tx failed", built.mem)

SolanaVerifyMsgHash(tx, hash) == tx = hash

SolanaSignatures(rsvs) == OneOfSize(FALSE, rsvs)

-----------------------------------------------------------------------------
(* Payouts of the Cosmos adapter (tokens/cosmos/buildtx.go, tx.go).  The   *)
(* fee of a replacement is raised by the server; the bridge fee of the     *)
(* swap may be charged in the same transaction.                            *)

CONSTANT CosmosGasLimit

CosmosBridgeFee(args) ==
  ConvertTokenValue(args.value, args.pair.fromDecimals, args.pair.toDecimals) - SwapAmount(args)

\* The configured fee of the server; a node has only the default.
CosmosGetDefaultFee(args, server) == IF server THEN args.cfg.fee ELSE args.cfg.defaultFee

CosmosRaisedFee(args, server, replaceNum) ==
  IF replaceNum = 0 THEN CosmosGetDefaultFee(args, server)
  ELSE PlusPercent(CosmosGetDefaultFee(args, server),
                   Min({args.cfg.plus + replaceNum * args.cfg.replacePlus, args.cfg.maxPlus}))

CosmosInitExtra(args, server, view, extra) ==
  [extra EXCEPT !.seq = Default(@, view.seq), !.gas = Default(@, CosmosGasLimit),
                !.fee = Default(@, CosmosRaisedFee(args, server, extra.replaceNum))]

\* GetAccountNum: kept once it is known, unless it is 0.
CosmosAccountNum(view, mem) == IF mem.account > 0 THEN mem.account ELSE view.account

CosmosBuildRawTransaction(args, server, view, extra, mem) ==
  LET amount == SwapAmount(args)
      full == CosmosInitExtra(args, server, view, extra)
      account == CosmosAccountNum(view, mem)
  IN IF argsError(args) # "nil" THEN Refused(argsError(args), mem)
     ELSE IF full.seq = Nil THEN Refused("rpc error", mem)
     ELSE IF extra.fee = Nil /\ extra.replaceNum > 0 /\ ~server
       THEN Refused("no router server config", mem)
     ELSE IF view.bal = Nil THEN Refused("rpc error", mem)
     ELSE IF view.bal < amount THEN Refused("ErrBalanceNotEnough", mem)
     ELSE IF account = Nil THEN Refused("rpc error", mem)
     ELSE Built(full,
                [recv |-> args.bind, amount |-> amount,
                 charged |-> IF args.cfg.chargeFee THEN CosmosBridgeFee(args) ELSE 0,
                 fee |-> full.fee, gas |-> full.gas, seq |-> full.seq, account |-> account],
                [mem EXCEPT !.account = account])

CosmosVerifyMsgHash(tx, hash) == tx = hash

CosmosSignatures(rsvs) == OneVerified(TRUE, rsvs)

-----------------------------------------------------------------------------
(* Payouts of the Ripple adapter (tokens/ripple/buildtx.go and signtx.go). *)
(* The receiver must keep the reserve of an account, and have a trust line *)
(* (view.line) for an issued asset; only the server looks at trust lines.  *)

CONSTANTS
  AccountReserve,  \* coins an account cannot spend
  RippleFee        \* the least fee that is offered

\* A balance that cannot be read counts as none.
RippleCheckNativeBalance(balance, change) == Default(balance, 0) + change >= AccountReserve

RippleCheckBalances(args, server, view, amount) ==
  LET cfg == args.cfg
      paid == IF cfg.native THEN amount ELSE 0
  IN IF cfg.native /\ ~RippleCheckNativeBalance(view.coin, -(amount + cfg.minReserve)) THEN "insufficient native balance"
     ELSE IF ~RippleCheckNativeBalance(view.recv, paid) THEN "insufficient native balance"
     ELSE IF cfg.native \/ ~server THEN "nil"
     ELSE IF view.line = Nil THEN "ErrBuildTxErrorAndDelay"
     ELSE IF cfg.issuer = MPC THEN "nil"
     ELSE IF view.bal = Nil THEN "rpc error"
     ELSE IF view.bal < amount THEN "insufficient balance"
     ELSE "nil"

RippleSetExtraArgs(view, extra) ==
  [extra EXCEPT !.seq = Default(@, view.seq),
                !.fee = Default(@, IF view.price = Nil THEN Nil ELSE MaxOf(view.price, RippleFee))]

RippleNewUnsignedPaymentTransaction(args, amount, full) ==
  [recv |-> args.bind, tag |-> args.tag, amount |-> amount, native |-> args.cfg.native,
   partial |-> args.cfg.partial, seq |-> full.seq, fee |-> full.fee]

RippleBuildRawTransaction(args, server, view, extra, mem) ==
  LET amount == SwapAmount(args)
      full == RippleSetExtraArgs(view, extra)
  IN IF senderError(args) # "nil" THEN Refused(senderError(args), mem)
     ELSE IF args.type # "erc20" THEN Refused("ErrSwapTypeNotSupported", mem)
     ELSE IF receiverError(args) # "nil" THEN Refused(receiverError(args), mem)
     ELSE IF amount > MaxInt64 THEN Refused("amount overflow", mem)
     ELSE IF RippleCheckBalances(args, server, view, amount) # "nil"
       THEN Refused(RippleCheckBalances(args, server, view, amount), mem)
     ELSE IF full.seq = Nil \/ full.fee = Nil THEN Refused("rpc error", mem)
     ELSE Built(full, RippleNewUnsignedPaymentTransaction(args, amount, full), mem)

\* verifyTransactionWithArgs
RippleMPCSignTransaction(args, built) ==
  IF <<built.tx[1].recv, built.tx[1].tag>> = <<args.bind, args.tag>> THEN built
  ELSE Refused("verify payment tx receiver failed", built.mem)

RippleVerifyMsgHash(tx, hash) == tx = hash

\* An account has a key of either kind (isEd25519Pubkey).
RippleSignatures(args, rsvs) == OneVerified(~args.cfg.ed, rsvs)

-----------------------------------------------------------------------------
(* Payouts of the Stellar adapter (tokens/stellar/buildtx.go, signtx.go).  *)
(* The request carries the fee and the time a transaction is valid until   *)
(* (extra.seq, from view.clock); the sequence of the account is read by    *)
(* everyone (view.account).  The account is there when it holds coins of   *)
(* its own: how many is logged and not compared.                           *)

CONSTANTS
  StellarDigits,   \* digits of the fraction of an amount (code: 7)
  StellarMinFee    \* the fee when no gateway knows one

Digits(n, most) == CHOOSE k \in 1 .. most : 10 ^ (k - 1) <= n /\ n < 10 ^ k

\* getPaymentAmount writes the fraction as the number it is, without the zeros in front
\* of it, takes off one zero at its end and cuts it; the ledger reads it as a fraction.
StellarGetPaymentAmount(amount, decimals) ==
  LET unit == 10 ^ decimals
      fraction == amount % unit
      trimmed == IF fraction % 10 = 0 THEN fraction \div 10 ELSE fraction
      length == Digits(trimmed, decimals)
      kept == Min({length, StellarDigits})
      read == (trimmed \div 10 ^ (length - kept)) * 10 ^ (decimals - kept)
  IN IF fraction = 0 THEN amount ELSE (amount \div unit) * unit + read

StellarSetExtraArgs(view, extra) ==
  [extra EXCEPT !.fee = Default(@, IF view.price = Nil THEN StellarMinFee ELSE 2 * view.price),
                !.seq = Default(@, view.clock)]

StellarBuildRawTransaction(args, server, view, extra, mem) ==
  LET full == StellarSetExtraArgs(view, extra) IN
  IF senderError(args) # "nil" THEN Refused(senderError(args), mem)
  ELSE IF args.type # "erc20" THEN Refused("ErrSwapTypeNotSupported", mem)
  ELSE IF receiverError(args) # "nil" THEN Refused(receiverError(args), mem)
  ELSE IF view.account = Nil THEN Refused("rpc error", mem)
  ELSE Built(full, [recv |-> args.bind, amount |-> StellarGetPaymentAmount(SwapAmount(args), args.pair.toDecimals),
                    fee |-> full.fee, until |-> full.seq, seq |-> view.account + 1], mem)

StellarMPCSignTransaction(args, built) ==
  IF built.tx[1].recv = args.bind THEN built ELSE Refused("verify tx receiver failed", built.mem)

StellarVerifyMsgHash(tx, hash) == tx = hash

StellarSignatures(rsvs) == OneVerified(FALSE, rsvs)

-----------------------------------------------------------------------------
(* Payouts of the Bitcoin adapter (tokens/btc/buildtx.go, signtx.go).      *)
(* Outputs are spent in the order the gateway lists them, and nothing of   *)
(* what the server chose is in the request.  view.utxos is the list (empty *)
(* when the call failed); an output is good when it can be read and is one *)
(* of the MPC account.                                                     *)

CONSTANTS
  Kb,              \* bytes the fee rate is for (code: 1000)
  MinRelayFee, MaxRelayFee, PlusFeePercent,
  TxSize,          \* bytes of a transaction with a payment, a memo and change, without inputs
  WitnessInput,    \* bytes of the input the first estimate assumes
  InputSize,       \* bytes of an input of the MPC account
  DustSize         \* bytes that decide what is dust

Total(outs) == FoldLeft(LAMBDA sum, out : sum + out.value, 0, outs)

BtcGetRelayFeePerKb(estimate) ==
  Max({MinRelayFee, Min({MaxRelayFee, PlusPercent(estimate, PlusFeePercent)})})

Fee(rate, size) == IF (rate * size) \div Kb = 0 THEN rate ELSE (rate * size) \div Kb
IsDust(rate, amount) == (amount * Kb) \div (3 * DustSize) < rate

\* The outputs that can be spent: an unreadable or a foreign one is passed over.
BtcKeep(outs, out) == IF out.good /\ out.value > 0 THEN Append(outs, out) ELSE outs
BtcSpendable(view) == FoldLeft(BtcKeep, <<>>, view.utxos)

\* The loop of NewUnsignedTransaction asks selectUtxos again with the fee of the inputs it
\* got, until they pay for it: it ends with the first n outputs that cover the payment and
\* the fee for n inputs, as the fee grows with the inputs.
BtcEnough(rate, outs, n, amount) ==
  LET total == Total(SubSeq(outs, 1, n)) IN
  /\ total >= amount + Fee(rate, TxSize + WitnessInput)
  /\ total >= amount + Fee(rate, TxSize + n * InputSize)

\* A payment of nothing, or of more than fits, is left out of the outputs.
BtcGetTxOutputs(args, amount) ==
  [recv |-> IF amount > 0 THEN args.bind ELSE "none", amount |-> amount, memo |-> args.swap]

BtcNewUnsignedTransaction(args, rate, outs, amount) ==
  LET n == Min({k \in 1 .. Len(outs) : BtcEnough(rate, outs, k, amount)})
      inputs == SubSeq(outs, 1, n)
      change == Total(inputs) - amount - Fee(rate, TxSize + n * InputSize)
      outputs == BtcGetTxOutputs(args, amount)
  IN [recv |-> outputs.recv, amount |-> outputs.amount, memo |-> outputs.memo, inputs |-> inputs,
      change |-> IF IsDust(rate, change) THEN 0 ELSE change, rate |-> rate]

BtcBuildRawTransaction(args, server, view, extra, mem) ==
  LET amount == MaxOf(Int64(SwapAmount(args)), 0)
      rate == BtcGetRelayFeePerKb(view.price)
      outs == BtcSpendable(view)
  IN IF senderError(args) # "nil" THEN Refused(senderError(args), mem)
     ELSE IF args.type # "erc20" THEN Refused("ErrSwapTypeNotSupported", mem)
     ELSE IF receiverError(args) # "nil" THEN Refused(receiverError(args), mem)
     ELSE IF view.price = Nil THEN Refused("rpc error", mem)
     ELSE IF \A k \in 1 .. Len(outs) : ~BtcEnough(rate, outs, k, amount)
       THEN Refused("not enough balance", mem)
     ELSE Built(extra, BtcNewUnsignedTransaction(args, rate, outs, amount), mem)

\* verifyTransactionWithArgs: some output pays the receiver.
BtcMPCSignTransaction(args, built) ==
  IF built.tx[1].recv = args.bind THEN built ELSE Refused("verify tx receiver failed", built.mem)

\* One hash for each input, of the whole transaction; the rate is not part of it.
BtcVerifyMsgHash(tx, hash) == [tx EXCEPT !.rate = 0] = [hash EXCEPT !.rate = 0]

\* getPkDataFromSig gives the key of the account.
Recovers(rsv, i) == rsv.of = i /\ rsv.v

\* Mutation: the signatures are taken in the order they come.
BtcAdjustRsvOrders_AsTheyCome(rsvs, n) == SignedWith(rsvs)

\* The signatures in the order of the inputs; a single one is not looked at.
BtcAdjustRsvOrders(rsvs, n) ==
  LET matching(i) == {k \in DOMAIN rsvs : Recovers(rsvs[k], i)} IN
  IF Len(rsvs) <= 1 THEN SignedWith(rsvs)
  ELSE IF \E i \in 1 .. n : matching(i) = {} THEN Unsigned("msgHash has no matched rsv")
  ELSE SignedWith([i \in 1 .. n |-> rsvs[Min(matching(i))]])

\* DcrmSignMsgHash and MakeSignedTransaction
BtcSignatures(tx, rsvs) ==
  LET n == Len(tx.inputs) IN
  IF DoSign(TRUE, rsvs).err # "nil" THEN DoSign(TRUE, rsvs)
  ELSE IF Len(rsvs) # n THEN Unsigned("require as many rsv as messages")
  ELSE BtcAdjustRsvOrders(rsvs, n)

-----------------------------------------------------------------------------
(* Payouts of the Iota adapter (tokens/iota/buildtx.go, rpcClient.go).     *)
(* Outputs are spent in the order a node lists them; an output of less     *)
(* than KeepAlive is not allowed, so that more outputs are spent until the *)
(* change is none or enough.                                               *)

CONSTANT KeepAlive

\* CheckBalance
IotaBalanceError(view, amount) ==
  IF amount < KeepAlive THEN "ErrSwapValueTooLess"
  ELSE IF view.coin = Nil THEN "ErrCheckBalance"
  ELSE IF view.coin < amount + KeepAlive THEN "ErrBalanceNoKeepAlive"
  ELSE "nil"

IotaSelection(amount) == [inputs |-> <<>>, need |-> amount, finish |-> FALSE, change |-> 0, done |-> FALSE]

\* Mutation: a change of any size is returned.
IotaSpend_AnyChange(sel, out) ==
  IF sel.done \/ ~out.good THEN sel
  ELSE LET short == out.value < sel.need
       IN [sel EXCEPT !.inputs = Append(@, out), !.done = ~short,
                      !.change = IF short THEN 0 ELSE out.value - sel.need,
                      !.need = IF short THEN @ - out.value ELSE 0]

\* GetOutPutByID and what BuildRawTransaction makes of it: need is what is missing, and
\* the change so far once enough is there.
IotaSpend(sel, out) ==
  IF sel.done \/ ~out.good THEN sel
  ELSE LET short == ~sel.finish /\ out.value < sel.need
           change == IF sel.finish THEN out.value + sel.need ELSE out.value - sel.need
       IN IF short THEN [sel EXCEPT !.inputs = Append(@, out), !.need = @ - out.value]
          ELSE IF change = 0 \/ change >= KeepAlive
            THEN [sel EXCEPT !.inputs = Append(@, out), !.change = change, !.done = TRUE]
          ELSE [sel EXCEPT !.inputs = Append(@, out), !.need = change, !.finish = TRUE]

IotaInitExtra(view, extra) == [extra EXCEPT !.seq = Default(@, view.seq)]

IotaBuildMessage(args, amount, sel) ==
  [recv |-> args.bind, amount |-> amount, swap |-> args.swap, inputs |-> sel.inputs, change |-> sel.change]

IotaBuildRawTransaction(args, server, view, extra, mem) ==
  LET amount == Uint64(SwapAmount(args))
      full == IotaInitExtra(view, extra)
      sel == FoldLeft(IotaSpend, IotaSelection(amount), view.utxos)
  IN IF argsError(args) # "nil" THEN Refused(argsError(args), mem)
     ELSE IF IotaBalanceError(view, amount) # "nil" THEN Refused(IotaBalanceError(view, amount), mem)
     ELSE IF full.seq = Nil THEN Refused("rpc error", mem)
     ELSE IF ~sel.done THEN Refused("ErrInputAndOutputLength", mem)
     ELSE Built(full, IotaBuildMessage(args, amount, sel), mem)

IotaVerifyMsgHash(tx, hash) == tx = hash

\* The first input is unlocked by the signature, the others refer to it.  A gateway does the
\* proof of work (view.sim is 1 when one of them can).
IotaSignatures(view, rsvs) == AndThen(OneOfSize(FALSE, rsvs), view.sim = 1)
IotaSignWithPrivateKey(view, sigs) == AndThen(SignedWith(sigs), view.sim = 1)

=============================================================================
