----------------------------- MODULE MCPayouts ------------------------------
(* A payout on every chain, with chain states in which it can be built and   *)
(* ones in which it cannot.                                                  *)
EXTENDS Payouts, TLC

\* A fee of a fifth, at most 30; and a fee of at least 200, which is too much for some swaps.
RatedPair ==
  [fromDecimals |-> 1, toDecimals |-> 1, minimumSwap |-> 2, maximumSwap |-> 90,
   minimumSwapFee |-> 1, maximumSwapFee |-> 3, feeRate |-> 2,
   srcFeeRate |-> 0, srcMinimumSwapFee |-> 0, srcMaximumSwapFee |-> 0, baseFeePercent |-> 0]
CostlyPair == [RatedPair EXCEPT !.minimumSwapFee = 20, !.maximumSwapFee = 30]
TwoPairs == <<RatedPair, CostlyPair>>

Swap(chain, value, cfg) ==
  [chain |-> chain, toChain |-> chain, from |-> MPC, token |-> "token", bind |-> "good", tag |-> 0,
   type |-> "erc20", value |-> value, pair |-> RatedPair, whitelisted |-> FALSE, swap |-> "swap", ownKey |-> FALSE,
   callProxy |-> FALSE, nft |-> [batch |-> FALSE, ids |-> <<1>>, amounts |-> <<>>],
   anycall |-> [subType |-> "v7", to |-> "callee", data |-> "data", attestation |-> "a"], cfg |-> cfg]

\* Requests that are refused: after the MPC account was changed, and for a bad receiver.
Refusals(s) == {[s EXCEPT !.from = "old"], [s EXCEPT !.bind = "bad"]}

-----------------------------------------------------------------------------
EvmCfg ==
  [dynamic |-> FALSE, fixedPrice |-> Nil, maxPrice |-> 130, unit |-> 7, plus |-> 10, replacePlus |-> 20,
   maxPlus |-> 30, fluct |-> 0, minReserve |-> 1, defaultGas |-> 1, maxTokenGas |-> 0, maxGas |-> 5,
   gasMustBePositive |-> TRUE, maxTip |-> Nil, plusCap |-> 10, maxCap |-> Nil,
   version |-> "none", underlying |-> TRUE, forceAuto |-> FALSE, router |-> "v7", zkSync |-> FALSE]
AutoCfg == [EvmCfg EXCEPT !.maxPrice = Nil, !.unit = 0]
DynamicCfg == [EvmCfg EXCEPT !.dynamic = TRUE, !.maxPrice = Nil, !.maxTip = 105, !.maxCap = 150]

EvmSwaps ==
  {Swap("eth", 500, EvmCfg), Swap("eth", 150, AutoCfg),
   Swap("eth", 500, [EvmCfg EXCEPT !.fluct = 5, !.unit = 0]),
   Swap("eth", 500, [EvmCfg EXCEPT !.fixedPrice = 50, !.minReserve = 0]),
   Swap("eth", 500, DynamicCfg), Swap("eth", 500, [EvmCfg EXCEPT !.zkSync = TRUE]),
   [Swap("eth", 500, EvmCfg) EXCEPT !.callProxy = TRUE],
   [Swap("eth", 500, EvmCfg) EXCEPT !.type = "mixpool"],
   [Swap("eth", 500, EvmCfg) EXCEPT !.type = "nft"],
   [Swap("eth", 500, EvmCfg) EXCEPT !.type = "anycall"]}
    \cup Refusals(Swap("eth", 500, EvmCfg))

TronSwaps ==
  {Swap("tron", 500, EvmCfg), Swap("tron", 150, EvmCfg), [Swap("tron", 500, EvmCfg) EXCEPT !.type = "nft"],
   [Swap("tron", 500, EvmCfg) EXCEPT !.type = "anycall", !.anycall.subType = "v6"]}

NearSwaps == {Swap("near", 500, [version |-> v]) : v \in {"mint", "native", "other"}}
CosmosSwaps ==
  {Swap("cosmos", 500, [fee |-> 9, defaultFee |-> 5, plus |-> 0, replacePlus |-> 10, maxPlus |-> 15, chargeFee |-> c]) :
     c \in BOOLEAN}
RippleSwaps ==
  {Swap("ripple", 500, [native |-> n, minReserve |-> 1, issuer |-> i, partial |-> FALSE, ed |-> n]) :
     n \in BOOLEAN, i \in {MPC, "issuer"}}
StellarSwaps == {Swap("stellar", 500, [x |-> 0])}
FlowSwaps == {Swap("flow", 500, [receivePaths |-> n]) : n \in {1, 2}}
SolanaSwaps == {Swap("solana", 500, [native |-> n, version |-> v]) : n \in BOOLEAN, v \in {"0", "1"}}
AptosSwaps == {Swap("aptos", 500, [fixedPrice |-> p, maxGas |-> 0]) : p \in {Nil, 50}}
UtxoSwaps == {Swap("btc", 500, [x |-> 0]), Swap("btc", 1500, [x |-> 0]), Swap("iota", 500, [x |-> 0]), Swap("iota", 120, [x |-> 0])}

ReefCfg == [minReserve |-> 1, bound |-> TRUE, version |-> "none", underlying |-> FALSE, forceAuto |-> FALSE, router |-> "v7"]
ReefSwaps == {Swap("reef", 500, ReefCfg), Swap("reef", 500, [ReefCfg EXCEPT !.bound = FALSE])}

\* Servers that have a key of their own.
OwnKeySwaps ==
  {[s EXCEPT !.ownKey = TRUE] :
     s \in {Swap("eth", 500, EvmCfg), Swap("eth", 500, [EvmCfg EXCEPT !.zkSync = TRUE]), Swap("btc", 500, [x |-> 0]),
            Swap("aptos", 500, [fixedPrice |-> Nil, maxGas |-> 0]), Swap("iota", 500, [x |-> 0]),
            Swap("reef", 500, [ReefCfg EXCEPT !.bound = FALSE]), Swap("near", 500, [version |-> "mint"])}}

AllSwaps ==
  UNION {EvmSwaps, TronSwaps, NearSwaps, CosmosSwaps, RippleSwaps, StellarSwaps, FlowSwaps, SolanaSwaps,
         AptosSwaps, UtxoSwaps, ReefSwaps, OwnKeySwaps}

-----------------------------------------------------------------------------
World ==
  [seq |-> 5, price |-> 100, base |-> 10, gas |-> 2, block |-> 70, clock |-> 70, coin |-> 5000, bal |-> 600, recv |-> 1,
   line |-> 1, sim |-> 1, account |-> 3, utxos |-> <<>>]

Utxo(id, value, good) == [id |-> id, value |-> value, good |-> good]
UtxoLists ==
  {<<Utxo(1, 300, TRUE), Utxo(2, 180, TRUE), Utxo(3, 10, TRUE), Utxo(4, 400, TRUE)>>,
   <<Utxo(4, 400, TRUE), Utxo(1, 300, FALSE), Utxo(5, 100, TRUE), Utxo(2, 180, TRUE), Utxo(6, 900, TRUE)>>}

WorldsOf(s) ==
  CASE s.chain = "eth" /\ s.cfg.maxPrice = Nil /\ ~s.cfg.dynamic -> {World, [World EXCEPT !.price = 5]}
    [] s.chain = "eth" /\ (s.type # "erc20" \/ s.callProxy \/ s.cfg.fluct > 0 \/ s.cfg.zkSync \/ s.ownKey) -> {World, [World EXCEPT !.seq = 6, !.base = 30, !.coin = 20]}
    [] s.chain = "tron" /\ s.type # "erc20" -> {World, [World EXCEPT !.block = 71, !.clock = 71, !.sim = 0]}
    [] s.chain = "eth" -> {World, [World EXCEPT !.seq = 6, !.price = 80, !.gas = 4], [World EXCEPT !.base = 30, !.coin = 20]}
    [] s.chain = "btc" -> {[World EXCEPT !.utxos = u, !.price = p] : u \in UtxoLists, p \in {20, 100}}
    [] s.chain = "iota" -> {[World EXCEPT !.utxos = u] : u \in UtxoLists}
    [] s.chain = "ripple" -> {[World EXCEPT !.recv = 25], [World EXCEPT !.recv = 25, !.seq = 6, !.price = 9],
                              [World EXCEPT !.coin = 500]}
    [] s.chain = "stellar" -> {World, [World EXCEPT !.account = 4, !.clock = 71]}
    [] OTHER -> {World, [World EXCEPT !.seq = 6, !.block = 71, !.clock = 71, !.price = 40],
                 [World EXCEPT !.bal = 400, !.sim = 0]}

AllWorlds == [s \in AllSwaps |-> WorldsOf(s)]

=============================================================================
