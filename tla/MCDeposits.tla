----------------------------- MODULE MCDeposits -----------------------------
(* Deposits on every chain: good ones, several in one transaction, and ones  *)
(* that fail at each check of the adapter.                                   *)
EXTENDS Deposits, TLC

CONSTANTS g1, g2

GatewayPair == {g1, g2}
GatewaySymmetry == Permutations(GatewayPair)

\* A proportional fee, a fixed one and none; the destination has fewer decimals.
RatedPair ==
  [fromDecimals |-> 1, toDecimals |-> 0, minimumSwap |-> 2, maximumSwap |-> 9,
   minimumSwapFee |-> 1, maximumSwapFee |-> 3, feeRate |-> 2,
   srcFeeRate |-> 0, srcMinimumSwapFee |-> 0, srcMaximumSwapFee |-> 0, baseFeePercent |-> -50]
FixedPair == [RatedPair EXCEPT !.maximumSwapFee = 1, !.baseFeePercent = 20]
FreePair == [RatedPair EXCEPT !.feeRate = 0, !.minimumSwapFee = 0, !.maximumSwapFee = 0, !.minimumSwap = 0]

On(chain, pair, fields) ==
  [chain |-> chain, pair |-> pair, whitelisted |-> FALSE, success |-> TRUE] @@ fields

-----------------------------------------------------------------------------
AptosEvent(token, from, amount, dest) ==
  [swapout |-> TRUE, token |-> token, from |-> from, amount |-> amount, dest |-> dest]
OtherEvent == [AptosEvent("token", "user", 50, "good") EXCEPT !.swapout = FALSE]
AptosTxs ==
  {On("aptos", RatedPair, [to |-> to, events |-> events]) : to \in {MPC, "other"},
     events \in {<<AptosEvent("token", "user", 50, "good"), OtherEvent, AptosEvent("token", "user", 25, "good")>>,
                 <<AptosEvent("token", MPC, 50, "good"), AptosEvent("token", "user", 50, "bad_bind")>>,
                 <<AptosEvent("unknown", "user", 50, "good"), AptosEvent("token", "user", 15, "good")>>}}

Out(type, to, value, memo) == [type |-> type, to |-> to, value |-> value, memo |-> memo]
BtcTxs ==
  {On("btc", RatedPair, [vin |-> vin, locktime |-> lock,
        vout |-> <<Out("p2pkh", MPC, 30, "none"), Out("p2pkh", "user", 90, "none"),
                   Out("p2pkh", MPC, 20, "none"), Out("op_return", "none", 0, memo)>>]) :
     vin \in {<<"user">>, <<"user", MPC>>}, lock \in {0, 1}, memo \in {"good"}}

CardanoOut(to, ada, list) == [to |-> to, ada |-> ada, tokens |-> list]
Asset(asset, amount) == [asset |-> asset, amount |-> amount]
CardanoTxs ==
  {On("cardano", FreePair, [useAPI |-> api, inputs |-> <<"user">>, metadata |-> metadata,
        outputs |-> <<CardanoOut(MPC, 5, <<Asset("token", 50)>>), CardanoOut("user", 90, <<>>),
                      CardanoOut(MPC, 40, <<Asset("token", 25), Asset("other", 25)>>)>>]) :
     api \in BOOLEAN, metadata \in {"good", "bad_bind"}}

Transfer(to, coins) == [from |-> "user", to |-> to, coins |-> coins]
Coin(denom, amount) == [denom |-> denom, amount |-> amount]
CosmosTxs ==
  {On("cosmos", RatedPair, [memo |-> memo,
        logs |-> <<<<Transfer(MPC, <<Coin("unknown", 70), Coin("token", 30)>>), Transfer("user", <<Coin("token", 99)>>),
                     Transfer(MPC, <<Coin("other", 40), Coin("token", 20)>>)>>,
                   <<Transfer("user", <<Coin("token", 50)>>)>>,
                   <<Transfer(MPC, <<Coin("token", small)>>)>>>>]) :
     memo \in {"good", "malformed", "no_token"}, small \in {25, 15}}

FlowEvent(type, token, value, dest) == [type |-> type, token |-> token, value |-> value, dest |-> dest]
FlowTxs ==
  {On("flow", FixedPair, [events |-> events]) :
     events \in {<<FlowEvent("other", "token", 50, "good"), FlowEvent("swapout", "token", 50, "good"),
                   FlowEvent("swapout", "unknown", 50, "good")>>,
                 <<FlowEvent("swapout", "token", 50, "good")>>}}

IotaTxs ==
  {On("iota", RatedPair, [transaction |-> kind, index |-> index,
        outputs |-> <<[to |-> MPC, amount |-> 30], [to |-> "user", amount |-> 90], [to |-> MPC, amount |-> amount]>>]) :
     kind \in {TRUE}, index \in {"good", "malformed"}, amount \in {20, 2000}}

NearLog(kind, from, to, amount, dest) ==
  [kind |-> kind, from |-> from, to |-> to, amount |-> amount, dest |-> dest, success |-> TRUE]
Receipt(executor, version, logs) == [executor |-> executor, version |-> version, logs |-> logs]
NearReceipts ==
  {<<Receipt("token", 666, <<NearLog("swapout", "user", "none", 50, "good")>>),
     Receipt("unknown", 666, <<NearLog("swapout", "user", "none", 50, "good")>>),
     Receipt("token", 5, <<NearLog("transfer", "user", MPC, 25, "malformed"), NearLog("memo", "user", "none", 0, "good")>>)>>,
   <<Receipt("token", 999, <<NearLog("swapout_native", "user", "none", 50, "good")>>),
     Receipt(MPC, 999, <<NearLog("swapout_native", "user", "none", 50, "good")>>),
     Receipt("token", 5, <<NearLog("transfer_v4", "user", MPC, 30, "same_chain")>>)>>}
NearTxs == {On("near", RatedPair, [signer |-> "user", receipts |-> receipts]) : receipts \in NearReceipts}

RippleTxs ==
  {[On("ripple", FixedPair, [asset |-> "token", payment |-> TRUE, to |-> to, from |-> "user", issuerOk |-> issuerOk,
        memos |-> <<"malformed", "good">>, delivered |-> delivered]) EXCEPT !.success = success] :
     to \in {MPC}, issuerOk \in {TRUE}, delivered \in {50, 15}, success \in BOOLEAN}

Msg(kind, token, amount) == [kind |-> kind, token |-> token, amount |-> amount, dest |-> "good"]
Call(amount) ==
  <<Msg("invoke", "none", 0), Msg("instruction", "none", 0), Msg("swapout", "token", amount),
    Msg("other", "none", 0), Msg("success", "none", 0)>>
Reentrant ==
  <<Msg("invoke", "none", 0), Msg("instruction", "none", 0), Msg("invoke", "none", 0),
    Msg("swapout", "token", 30), Msg("other", "none", 0), Msg("success", "none", 0)>>
SolanaTxs ==
  {On("solana", RatedPair, [to |-> MPC, logs |-> logs]) :
     logs \in {Call(50) \o Call(25) \o <<Msg("other", "none", 0)>>, Call(15) \o <<Msg("other", "none", 0)>>, Reentrant \o Call(50)}}

Payment(asset, to, amount, payment) ==
  [asset |-> asset, from |-> "user", to |-> to, amount |-> amount, payment |-> payment]
StellarTxs ==
  {On("stellar", RatedPair, [memo |-> memo, operations |-> operations]) : memo \in {"good", "malformed"},
     operations \in {<<Payment("token", MPC, 50, TRUE), Payment("token", MPC, 50, FALSE), Payment("token", MPC, 25, TRUE)>>,
                     <<Payment("token", "user", 50, TRUE), Payment("token", MPC, 15, TRUE), Payment("token", MPC, 50, TRUE)>>}}

-----------------------------------------------------------------------------
EvmLog(kind, addr, from, to, amount) ==
  [kind |-> kind, addr |-> addr, from |-> from, to |-> to, amount |-> amount, token |-> "token",
   dest |-> "good", removed |-> FALSE, fromChainOk |-> TRUE, swapoutID |-> "none", callProxy |-> FALSE,
   parses |-> TRUE, ids |-> 1, amounts |-> 0, version |-> "none", flag |-> FALSE, fallback |-> FALSE, usdc |-> FALSE]
Swapout(amount) == EvmLog("swapout", MPC, "user", "none", amount)
Sent(amount) == EvmLog("transfer", "underlying", "user", "token", amount)
Burnt(amount) == EvmLog("transfer", "token", "user", "zero", amount)
Minted(amount) == EvmLog("transfer", "token", "zero", "user", amount)
Swapout7(amount, id) == [Swapout(amount) EXCEPT !.swapoutID = id, !.callProxy = TRUE]

\* Sent once and logged twice, minted and burnt, burnt, deflated, a foreign log, v7 logs.
EthLogs ==
  {<<Sent(50), Swapout(50), Swapout(50)>>,
   <<Sent(50), Minted(50), Burnt(50), Swapout(50)>>,
   <<Burnt(50), Swapout(50), Sent(25), Swapout(30)>>,
   <<Sent(20), [Swapout(20) EXCEPT !.addr = "other"], Sent(25), Swapout(50)>>,
   <<Sent(50), Swapout7(50, "known"), Burnt(50), Swapout7(50, "unknown")>>,
   <<EvmLog("transfer", "underlying", "other", "token", 50), [Swapout(50) EXCEPT !.dest = "same_chain"]>>}

Held == [prev |-> 100, post |-> 50, sent |-> 0, received |-> 0]
Gained == [prev |-> 50, post |-> 100, sent |-> 0, received |-> 0]
Balances ==
  [x \in {"token", "underlying"} \X {"user", "token"} |-> IF x[2] = "user" THEN Held ELSE Gained]
Supplies == [c \in {"token", "underlying"} |-> [prev |-> 100, post |-> 50, minted |-> 0]]

EthTx(logs, to, underlying, dstV7) ==
  On("eth", RatedPair, [to |-> to, logs |-> logs, underlying |-> underlying, permit |-> FALSE, paused |-> FALSE,
       checkBalance |-> TRUE, dstV7 |-> dstV7, balance |-> Balances, supply |-> Supplies,
       type |-> "erc20", withData |-> FALSE, subType |-> "none", budget |-> "none"])
EthTxs ==
  {EthTx(logs, MPC, TRUE, TRUE) : logs \in EthLogs}
    \cup {EthTx(<<Sent(50), Swapout(50), Swapout7(25, "known")>>, to, FALSE, FALSE) : to \in {MPC, "other"}}
    \cup {EthTx(<<Sent(50), [Swapout(50) EXCEPT !.token = "held"]>>, MPC, FALSE, TRUE),
          [EthTx(<<Sent(50), Swapout(50), Swapout(50)>>, MPC, TRUE, TRUE) EXCEPT !.checkBalance = FALSE],
          [EthTx(<<Sent(50), Swapout(50)>>, MPC, TRUE, TRUE) EXCEPT !.balance["underlying", "user"] = Gained],
          [EthTx(<<Sent(50), Swapout(50)>>, MPC, TRUE, TRUE) EXCEPT !.permit = TRUE],
          [EthTx(<<Sent(50), Swapout(50)>>, MPC, TRUE, TRUE) EXCEPT !.paused = TRUE]}

\* NFTs and calls of every kind, two calls that move USDC with one message.
NFTLog(kind, ids, amounts) == [EvmLog(kind, MPC, "user", "none", 0) EXCEPT !.ids = ids, !.amounts = amounts]
CallLog(version, flag, usdc) == [EvmLog("anycall", MPC, "user", "none", 0) EXCEPT !.version = version, !.flag = flag, !.usdc = usdc]
NFTs == <<NFTLog("nft721", 1, 0), NFTLog("nft1155", 1, 1), NFTLog("nft1155batch", 0, 0)>>
DataNFTs == <<Swapout(50), [NFTLog("nft721data", 1, 0) EXCEPT !.token = "held"], NFTLog("nft721", 1, 0)>>
Calls6 == <<CallLog("v5", FALSE, FALSE), [CallLog("v6", TRUE, FALSE) EXCEPT !.fallback = TRUE], CallLog("v6", FALSE, FALSE)>>
Calls7 == <<CallLog("v7", FALSE, TRUE), EvmLog("message", "usdc", "none", "none", 0), CallLog("v7", TRUE, TRUE)>>

NFTTx(chain, logs, to, withData) ==
  On(chain, RatedPair, [to |-> to, logs |-> logs, type |-> "nft", withData |-> withData])
CallTx(chain, logs, subType, budget) ==
  On(chain, RatedPair, [to |-> "other", logs |-> logs, type |-> "anycall", subType |-> subType, budget |-> budget])

NFTTxs ==
  {NFTTx("eth", NFTs, MPC, FALSE), NFTTx("eth", NFTs, "other", FALSE), NFTTx("eth", DataNFTs, MPC, TRUE),
   NFTTx("tron", NFTs, MPC, FALSE)}
CallTxs ==
  {CallTx("eth", Calls6, "v6", "short"), CallTx("eth", Calls7, "v7", "enough"),
   CallTx("tron", Calls6, "v6", "none"), CallTx("tron", Calls6, "v7", "none")}

TronTxs ==
  {On("tron", RatedPair, [to |-> to, type |-> "erc20",
        logs |-> <<Swapout(50), Swapout(25), [Swapout(50) EXCEPT !.removed = TRUE]>>]) : to \in {MPC, "other"}}

EvmTxs == UNION {EthTxs, TronTxs, NFTTxs, CallTxs}

-----------------------------------------------------------------------------
AllTransactions ==
  UNION {AptosTxs, BtcTxs, CardanoTxs, CosmosTxs, EvmTxs, FlowTxs, IotaTxs, NearTxs,
         RippleTxs, SolanaTxs, StellarTxs}

\* The adapters that do not wait.
UnstableTransactions == BtcTxs \cup FlowTxs

=============================================================================
