----------------------------- MODULE BridgeBase -----------------------------
(***************************************************************************)
(* What the adapters of the source chains share when they register and     *)
(* verify a deposit (tokens/base.go and the checks repeated in every       *)
(* tokens/<chain>/verifytx.go).                                            *)
(*                                                                         *)
(* An adapter asks its gateways one after the other until one answers, so  *)
(* each call is answered by some gateway or fails.  rpc is what the calls  *)
(* of one verification returned:                                           *)
(*   rpc.tx     the block of the transaction, InPool or NotFound           *)
(*   rpc.latest the latest height, or NoHeight                             *)
(*   rpc.more   whether the other calls were answered                      *)
(*   rpc.sound  whether the answer about the transaction is one the        *)
(*              adapter takes; only EVM chains check it                    *)
(***************************************************************************)
EXTENDS Integers, Sequences, FiniteSetsExt

CONSTANTS
  Million,         \* the base of fee rates (code: 1000000)
  ConfigDecimals,  \* decimals of the amounts in the configuration (code: 18)
  Confirmations,   \* blocks on top of a deposit before it is stable
  InitialHeight,   \* older deposits are not taken
  CallByContract   \* contracts besides the router that a deposit may call first

ASSUME BaseAssumption ==
  /\ Million \in Nat \ {0} /\ ConfigDecimals \in Nat
  /\ Confirmations \in Nat \ {0} /\ InitialHeight \in Nat

NotFound == -1
InPool == 0
NoHeight == -1

-----------------------------------------------------------------------------
(* Values *)

ConvertTokenValue(value, fromDecimals, toDecimals) ==
  IF fromDecimals > toDecimals THEN value \div 10 ^ (fromDecimals - toDecimals)
  ELSE value * 10 ^ (toDecimals - fromDecimals)

MaxOf(a, b) == IF a >= b THEN a ELSE b

FromConfig(cfg, value) == ConvertTokenValue(value, ConfigDecimals, cfg.fromDecimals)

\* Minimum and maximum are the same: a fixed fee.
useFixedFee(cfg) == cfg.minimumSwapFee > 0 /\ cfg.minimumSwapFee = cfg.maximumSwapFee

\* The rate of the pair, unless its fee is fixed, and the rate the source chain adds.
FeeRate(cfg) == (IF useFixedFee(cfg) THEN 0 ELSE cfg.feeRate) + cfg.srcFeeRate
MinFee(cfg) == FromConfig(cfg, MaxOf(cfg.minimumSwapFee, cfg.srcMinimumSwapFee))
MaxFee(cfg) == FromConfig(cfg, MaxOf(cfg.maximumSwapFee, cfg.srcMaximumSwapFee))

\* The proportional fee, at least the fixed one, clamped.
RatedFee(cfg, value) ==
  LET rated == (value * FeeRate(cfg)) \div Million
      fee == IF useFixedFee(cfg) THEN MaxOf(rated, FromConfig(cfg, cfg.minimumSwapFee)) ELSE rated
  IN CASE fee < MinFee(cfg) -> MinFee(cfg)
       [] fee >= MinFee(cfg) /\ fee > MaxFee(cfg) -> MaxFee(cfg)
       [] OTHER -> fee

\* The percentage of the minimum the destination adds or takes off; the percentage may be
\* negative and the division rounds down.
BaseFee(cfg) ==
  IF cfg.baseFeePercent = 0 \/ MinFee(cfg) <= 0 THEN 0
  ELSE (MinFee(cfg) * cfg.baseFeePercent) \div 100

SwapFee(cfg, value, whitelisted) ==
  CASE FeeRate(cfg) = 0 /\ ~useFixedFee(cfg) -> 0
    [] whitelisted -> MinFee(cfg)
    [] OTHER -> MaxOf(RatedFee(cfg, value) + BaseFee(cfg), 0)

\* What is paid out: the value without the fee, in the decimals of the destination.
CalcSwapValue(cfg, value, whitelisted) ==
  LET fee == SwapFee(cfg, value, whitelisted)
  IN IF FeeRate(cfg) = 0 /\ ~useFixedFee(cfg)
       THEN ConvertTokenValue(value, cfg.fromDecimals, cfg.toDecimals)
     ELSE IF value <= fee THEN 0
     ELSE ConvertTokenValue(value - fee, cfg.fromDecimals, cfg.toDecimals)

CheckTokenSwapValue(cfg, value, whitelisted) ==
  /\ value > 0
  /\ value >= FromConfig(cfg, cfg.minimumSwap)
  /\ value > FromConfig(cfg, cfg.maximumSwap) => whitelisted
  /\ CalcSwapValue(cfg, value, whitelisted) > 0
-----------------------------------------------------------------------------
(* Tokens and destinations of a deposit: known by name.                    *)

MPC == "mpc"   \* the address, contract or account that takes deposits

\* GetTokenConfig
HasTokenConfig(token) == token # "unknown"

\* The destination a deposit names: good, on the same chain, a chain without a bridge or
\* without the token, an address that is not valid there, or nothing that can be parsed
\* ("good", "same_chain", "no_bridge", "no_token", "bad_bind", "malformed").
HasBridge(dest) == dest \notin {"no_bridge", "malformed"}
ValidBind(dest) == HasBridge(dest) /\ dest # "bad_bind"

\* checkCallByContract: the contract the transaction calls is the router or allowed.
MayCallRouter(txTo) == txTo \in {MPC} \cup CallByContract

\* What every adapter demands of the parsed deposit, in the order of the code.
checkSwapoutInfo(tx, from, to, token, dest, value) ==
  IF from = to THEN "ErrTxWithWrongSender"
  ELSE IF ~HasTokenConfig(token) \/ dest = "no_token" THEN "ErrMissTokenConfig"
  ELSE IF dest = "no_bridge" THEN "ErrNoBridgeForChainID"
  ELSE IF ~CheckTokenSwapValue(tx.pair, value, tx.whitelisted) THEN "ErrTxWithWrongValue"
  ELSE IF ~ValidBind(dest) THEN "ErrWrongBindAddress"
  ELSE "nil"

-----------------------------------------------------------------------------
(* Height of a deposit *)

\* Mutation: one confirmation less.
NotStable_OffByOne(at, latest) == latest + 1 < at + Confirmations

NotStable(at, latest) == latest < at + Confirmations

\* Stable, and not older than the bridge.
StableError(at, latest) ==
  IF NotStable(at, latest) THEN "ErrTxNotStable"
  ELSE IF at < InitialHeight THEN "ErrTxBeforeInitialHeight"
  ELSE "nil"

-----------------------------------------------------------------------------
(* SwapTxInfo with its error.  An adapter without Height leaves it 0.      *)

SwapInfo(i, err, token, value, height) ==
  [index |-> i, err |-> err, token |-> token, value |-> value, height |-> height]

FailAt(i, err, height) == SwapInfo(i, err, "unknown", 0, height)
Fail(i, err) == FailAt(i, err, 0)

\* The indexes a registration looks at: all of them, or the one that was asked for.
RegisterIndexes(i, first, last) == IF i = 0 THEN first .. last ELSE {i}

-----------------------------------------------------------------------------
(* Logs of EVM chains and of Tron.  A transaction calls a contract (tx.to) *)
(* and leaves logs, numbered from 0.  A log has the contract that left it  *)
(* (addr) and a kind:                                                      *)
(*   "swapout"   a deposit of token by from, with amount and destination   *)
(*   "transfer"  amount from from to to, "zero" for minted and burnt       *)
(*   "nft721", "nft721data", "nft1155", "nft1155batch"  a deposit of NFTs  *)
(*   "anycall"   a call for another chain, by a version of the contract    *)
(*   "message"   a message of the USDC contract                            *)
(*   "other"     anything else, malformed topics included                  *)
(* A router is configured for one type of swap (tx.type): "erc20", "nft",  *)
(* with or without data (tx.withData), or "anycall", of one version        *)
(* (tx.subType) and perhaps with a budget the caller must hold (tx.budget).*)

\* verifyERC20SwapTxLog with the parsers of the log.
verifyERC20SwapTxLog(log) ==
  IF log.kind # "swapout" THEN "ErrSwapoutLogNotFound"
  ELSE IF ~HasTokenConfig(log.token) THEN "ErrMissTokenConfig"
  ELSE IF log.removed THEN "ErrTxWithRemovedLog"
  ELSE IF log.addr # MPC THEN "ErrTxWithWrongContract"
  ELSE "nil"

\* checkERC20SwapInfo: a sender is not compared with the receiver, the chain is.
checkERC20SwapInfo(tx, log) ==
  IF ~MayCallRouter(tx.to) THEN "ErrTxWithWrongContract"
  ELSE IF ~log.fromChainOk THEN "ErrFromChainIDMismatch"
  ELSE IF log.dest = "same_chain" THEN "ErrSameFromAndToChainID"
  ELSE checkSwapoutInfo(tx, "none", MPC, log.token, log.dest, log.amount)

\* The kinds of log a router of NFTs looks for.
NFTKinds(tx) == IF tx.withData THEN {"nft721data"} ELSE {"nft721", "nft1155", "nft1155batch"}

\* The indexes of the logs a registration stores: it leaves out what is no swapout of the
\* router.  The search for all of them starts at 1, but at 0 for calls.  errors has the
\* error of each log.
Registered(tx, i, errors) ==
  {k \in RegisterIndexes(i, IF tx.type = "anycall" THEN 0 ELSE 1, Len(tx.logs) - 1) :
     errors[k + 1] \notin {"ErrSwapoutLogNotFound", "ErrTxWithWrongTopics", "ErrTxWithWrongContract"}}

\* The swap of a log, and the one of a log that is refused.  NFTs and calls have no value.
LogInfo(log, i, err, height) ==
  CASE log.kind = "swapout" -> SwapInfo(i, err, log.token, log.amount, height)
    [] log.kind \in {"nft721", "nft721data", "nft1155", "nft1155batch"} -> SwapInfo(i, err, log.token, 0, height)
    [] log.kind = "anycall" -> SwapInfo(i, err, "none", 0, height)
    [] OTHER -> FailAt(i, err, height)

\* What the logs of the router say was deposited.
Logged(tx, token) ==
  MapThenSumSet(LAMBDA k : tx.logs[k].amount,
    {k \in DOMAIN tx.logs : verifyERC20SwapTxLog(tx.logs[k]) = "nil" /\ tx.logs[k].token = token})

=============================================================================
