------------------------------- MODULE Payouts ------------------------------
(***************************************************************************)
(* The payout of one swap: the server builds a transaction, asks the MPC   *)
(* nodes to sign it, a node builds it again from the request and agrees    *)
(* when it is the same, the server puts the signatures it gets into the    *)
(* transaction, and a signed transaction may be replaced later.            *)
(*                                                                         *)
(* Between the steps the destination chain moves on (world), calls to the  *)
(* gateways fail, each process reloads the configuration of the token pair *)
(* in its own time, signatures come in any order, are lost or are wrong,   *)
(* and processes are restarted.  A server may have a key of its own.  One  *)
(* node stands for the nodes, which all do the same.  What the nodes check *)
(* of the deposit is in Deposits, their answers in AcceptJob, the signing  *)
(* protocol in SignClient, and what becomes of the transaction in          *)
(* RouterSwap.                                                             *)
(***************************************************************************)
EXTENDS ChainPayouts, EvmPayouts

CONSTANTS
  Swaps,      \* the swaps that are considered
  Worlds,     \* for each swap, the states the gateways may report
  Pairs,      \* the configurations of the token pair, in the order they are made
  MaxFaults,  \* bound of failed calls, lost signatures and restarts
  MaxSigned   \* bound of the transactions signed for the swap

SwapFields ==
  {"chain", "toChain", "from", "token", "bind", "tag", "type", "value", "pair", "whitelisted", "swap",
   "ownKey", "callProxy", "nft", "anycall", "cfg"}

ViewFields ==
  {"seq", "price", "base", "gas", "block", "clock", "coin", "bal", "recv", "line", "sim", "account", "utxos"}

Chains ==
  {"aptos", "btc", "cosmos", "eth", "flow", "iota", "near", "reef", "ripple", "solana", "stellar", "tron"}

\* Swaps and answers are records with these fields.
ASSUME SwapAssumption ==
  /\ Pairs \in Seq(Range(Pairs)) /\ Pairs # <<>>
  /\ \A s \in Swaps :
       /\ DOMAIN s = SwapFields /\ s.chain \in Chains
       /\ \A w \in Worlds[s] : DOMAIN w = ViewFields

\* What the configuration of an EVM chain and its gateways say are natural numbers, or Nil.
ASSUME EvmAssumption ==
  \A s \in Swaps : s.chain = "eth" =>
    /\ {s.cfg.unit, s.cfg.plus, s.cfg.replacePlus, s.cfg.maxPlus, s.cfg.fluct, s.cfg.plusCap, s.cfg.defaultGas} \subseteq Nat
    /\ {s.cfg.fixedPrice, s.cfg.maxPrice, s.cfg.maxTip, s.cfg.maxCap} \subseteq Nat \cup {Nil}
    /\ \A w \in Worlds[s] : {w.price, w.base, w.gas} \subseteq Nat \cup {Nil}

\* The same of the chains where the request carries more than the nonce: the defaults, the
\* configuration and the clock are numbers, and a price is one or missing.
ASSUME OtherAssumption ==
  /\ {NearGasLimit, CosmosGasLimit, AptosGasPrice, AptosMaxFee} \subseteq Nat
  /\ \A s \in Swaps :
       /\ s.chain = "aptos" => s.cfg.fixedPrice \in Nat \cup {Nil} /\ s.cfg.maxGas \in Nat
       /\ s.chain = "cosmos" =>
            {s.cfg.fee, s.cfg.defaultFee, s.cfg.plus, s.cfg.replacePlus, s.cfg.maxPlus} \subseteq Nat
       /\ \A w \in Worlds[s] : w.clock \in Nat /\ w.price \in Nat \cup {Nil}

\* The same of the chains with outputs: sizes, rates and the values of outputs and payouts are
\* numbers, and nothing is divided by 0.
ASSUME OutputAssumption ==
  /\ Kb \in Nat \ {0} /\ KeepAlive \in Nat
  /\ {MinRelayFee, MaxRelayFee, PlusFeePercent, TxSize, WitnessInput, InputSize} \subseteq Nat
  /\ \A s \in Swaps : s.chain \in {"btc", "iota"} =>
       /\ \A conf \in 1 .. Len(Pairs) : CalcSwapValue(Pairs[conf], s.value, s.whitelisted) \in Nat
       /\ \A w \in Worlds[s] :
            w.utxos \in Seq(Range(w.utxos)) /\ \A out \in Range(w.utxos) : out.value \in Nat

VARIABLES
  swap,    \* BuildTxArgs without what the processes have configured
  world,   \* what the gateways report when they answer
  server,  \* the swap server: [pc, built, pair, conf, mem]; conf is the configuration it has
           \* loaded, pair the one it built with
  node,    \* an MPC node: [answer, conf, mem]
  signed,  \* the transactions of the swap in the order they were signed, each with its signatures
  faults

vars == <<swap, world, server, node, signed, faults>>

BuildRawTransaction(args, isServer, view, extra, mem) ==
  CASE args.chain = "aptos" -> AptosBuildRawTransaction(args, isServer, view, extra, mem)
    [] args.chain = "btc" -> BtcBuildRawTransaction(args, isServer, view, extra, mem)
    [] args.chain = "cosmos" -> CosmosBuildRawTransaction(args, isServer, view, extra, mem)
    [] args.chain = "flow" -> FlowBuildRawTransaction(args, isServer, view, extra, mem)
    [] args.chain = "iota" -> IotaBuildRawTransaction(args, isServer, view, extra, mem)
    [] args.chain = "near" -> NearBuildRawTransaction(args, isServer, view, extra, mem)
    [] args.chain = "reef" -> ReefBuildRawTransaction(args, isServer, view, extra, mem)
    [] args.chain = "ripple" -> RippleBuildRawTransaction(args, isServer, view, extra, mem)
    [] args.chain = "solana" -> SolanaBuildRawTransaction(args, isServer, view, extra, mem)
    [] args.chain = "stellar" -> StellarBuildRawTransaction(args, isServer, view, extra, mem)
    [] args.chain = "tron" -> TronBuildRawTransaction(args, isServer, view, extra, mem)
    [] OTHER -> EthBuildRawTransaction(args, isServer, view, extra, mem)

\* Up to the request to the MPC nodes: what is built is checked, and may be changed.
MPCSignTransaction(args, view, built) ==
  CASE args.chain = "aptos" -> AptosMPCSignTransaction(args, built)
    [] args.chain = "btc" -> BtcMPCSignTransaction(args, built)
    [] args.chain = "eth" -> EthMPCSignTransaction(args, view, built)
    [] args.chain = "reef" -> ReefMPCSignTransaction(args, view, built)
    [] args.chain = "ripple" -> RippleMPCSignTransaction(args, built)
    [] args.chain = "solana" -> SolanaMPCSignTransaction(args, built)
    [] args.chain = "stellar" -> StellarMPCSignTransaction(args, built)
    [] args.chain = "tron" -> TronMPCSignTransaction(built)
    [] OTHER -> built

VerifyMsgHash(tx, hash) ==
  CASE swap.chain = "aptos" -> AptosVerifyMsgHash(tx, hash)
    [] swap.chain = "btc" -> BtcVerifyMsgHash(tx, hash)
    [] swap.chain = "cosmos" -> CosmosVerifyMsgHash(tx, hash)
    [] swap.chain = "flow" -> FlowVerifyMsgHash(tx, hash)
    [] swap.chain = "iota" -> IotaVerifyMsgHash(tx, hash)
    [] swap.chain = "near" -> NearVerifyMsgHash(tx, hash)
    [] swap.chain = "reef" -> ReefVerifyMsgHash(tx, hash)
    [] swap.chain = "ripple" -> RippleVerifyMsgHash(tx, hash)
    [] swap.chain = "solana" -> SolanaVerifyMsgHash(tx, hash)
    [] swap.chain = "stellar" -> StellarVerifyMsgHash(tx, hash)
    [] swap.chain = "tron" -> TronVerifyMsgHash(tx, hash)
    [] OTHER -> EthVerifyMsgHash(tx, hash)

\* The rest of MPCSignTransaction, with the answer of the MPC nodes.
Signatures(args, view, tx, rsvs) ==
  CASE args.chain = "aptos" -> AptosSignatures(view, rsvs)
    [] args.chain = "btc" -> BtcSignatures(tx, rsvs)
    [] args.chain = "cosmos" -> CosmosSignatures(rsvs)
    [] args.chain = "flow" -> FlowSignatures(rsvs)
    [] args.chain = "iota" -> IotaSignatures(view, rsvs)
    [] args.chain = "near" -> NearSignatures(rsvs)
    [] args.chain = "reef" -> ReefSignatures(view, rsvs)
    [] args.chain = "ripple" -> RippleSignatures(args, rsvs)
    [] args.chain = "solana" -> SolanaSignatures(rsvs)
    [] args.chain = "stellar" -> StellarSignatures(rsvs)
    [] args.chain = "tron" -> TronSignatures(rsvs)
    [] OTHER -> EthSignatures(args, rsvs)

\* The number of messages a transaction has, and the kind of the key.
Messages(tx) == IF swap.chain = "btc" THEN Len(tx.inputs) ELSE 1
ECKey ==
  \/ swap.chain \in {"btc", "cosmos", "eth", "flow", "tron"}
  \/ swap.chain = "ripple" /\ ~swap.cfg.ed

InOrder(tx) == [i \in 1 .. Messages(tx) |-> Genuine(i, ECKey)]

SignTransactionWithPrivateKey(args, view, tx) ==
  CASE args.chain = "aptos" -> AptosSignWithPrivateKey(view, InOrder(tx))
    [] args.chain = "eth" -> EthSignWithPrivateKey(args, InOrder(tx))
    [] args.chain = "iota" -> IotaSignWithPrivateKey(view, InOrder(tx))
    [] args.chain = "reef" -> ReefSignWithPrivateKey(view, InOrder(tx))
    [] OTHER -> SignedWith(InOrder(tx))

\* IsNonceSupported: the chains with a nonce setter, where transactions are replaced.
NonceSetters == {"aptos", "cosmos", "eth", "flow", "iota", "near", "reef", "ripple"}

-----------------------------------------------------------------------------
(* Chain, gateways and configuration *)

Calls == {"seq", "price", "base", "gas", "block", "coin", "bal", "recv", "line", "sim", "account"}

\* One call is not answered by any gateway.
FaultyViews == {[world EXCEPT ![call] = Nil] : call \in Calls} \cup {[world EXCEPT !.utxos = <<>>]}

\* The answers a process gets: all of them right, or one missing.
Sees(view) ==
  \/ view = world /\ UNCHANGED faults
  \/ faults < MaxFaults /\ view \in FaultyViews /\ faults' = faults + 1

Views == {world} \cup FaultyViews

Nothing == Refused("nil", FreshMem)

Init ==
  /\ swap \in Swaps
  /\ world \in Worlds[swap]
  /\ server = [pc |-> "idle", built |-> Nothing, pair |-> 1, conf |-> 1, mem |-> FreshMem]
  /\ node = [answer |-> "none", conf |-> 1, mem |-> FreshMem]
  /\ signed = <<>>
  /\ faults = 0

\* The chain moves on: prices, balances, blocks and outputs change.
Drift ==
  /\ world' \in Worlds[swap] \ {world}
  /\ UNCHANGED <<swap, server, node, signed, faults>>

\* ReloadRouterConfig, in each process when it learns of a change.
ServerReload ==
  /\ server.conf < Len(Pairs)
  /\ server' = [server EXCEPT !.conf = @ + 1]
  /\ UNCHANGED <<swap, world, node, signed, faults>>

NodeReload ==
  /\ node.conf < Len(Pairs)
  /\ node' = [node EXCEPT !.conf = @ + 1]
  /\ UNCHANGED <<swap, world, server, signed, faults>>

-----------------------------------------------------------------------------
(* Server *)

ArgsWith(conf) == [swap EXCEPT !.pair = Pairs[conf]]

\* Mutation: a replacement asks for a nonce of its own.
StartExtra_NewNonce == [NoExtra EXCEPT !.replaceNum = Len(signed)]

\* doSwap starts with nothing settled, ReplaceRouterSwap with the nonce of the swap and the
\* number of transactions it has had.  (An administrator may give a price of his own; such a
\* replacement is not in this model.)
StartExtra ==
  IF signed = <<>> THEN NoExtra
  ELSE [NoExtra EXCEPT !.seq = signed[1].seq, !.replaceNum = Len(signed)]

MayBuild ==
  /\ server.pc = "idle"
  /\ signed # <<>> => swap.chain \in NonceSetters /\ Len(signed) < MaxSigned

BackToIdle(mem) == [server EXCEPT !.pc = "idle", !.built = Nothing, !.mem = mem]

ServerBuild ==
  /\ MayBuild
  /\ \E view \in Views :
       /\ Sees(view)
       /\ LET built == BuildRawTransaction(ArgsWith(server.conf), TRUE, view, StartExtra, server.mem)
          IN server' = IF built.err # "nil" THEN BackToIdle(built.mem)
                       ELSE [server EXCEPT !.pc = "built", !.built = built, !.pair = server.conf,
                                           !.mem = built.mem]
  /\ UNCHANGED <<swap, world, node, signed>>

\* A signed transaction with the nonce that is stored for the swap.
Signed(built, sigs) == [tx |-> built.tx[1], seq |-> built.extra.seq, sigs |-> sigs]

AddSigned(built, result) ==
  IF result.err # "nil" \/ \E i \in DOMAIN signed : signed[i] = Signed(built, result.sigs) THEN signed
  ELSE Append(signed, Signed(built, result.sigs))

\* With a key of its own the server signs what it would ask the nodes to sign.
ServerSign ==
  /\ server.pc = "built"
  /\ \E view \in Views :
       /\ Sees(view)
       /\ LET asked == MPCSignTransaction(ArgsWith(server.conf), view, server.built)
              own == asked.err = "nil" /\ swap.ownKey
          IN /\ server' = IF asked.err # "nil" \/ own THEN BackToIdle(asked.mem)
                          ELSE [server EXCEPT !.pc = "asked", !.built = asked, !.mem = asked.mem]
             /\ signed' = IF own
                            THEN AddSigned(asked, SignTransactionWithPrivateKey(swap, view, asked.tx[1]))
                          ELSE signed
  /\ UNCHANGED <<swap, world, node>>

Restarted == [server EXCEPT !.pc = "idle", !.built = Nothing, !.mem = FreshMem]

ServerRestart ==
  /\ faults < MaxFaults
  /\ server # Restarted
  /\ server' = Restarted
  /\ node' = [node EXCEPT !.answer = "none"]
  /\ faults' = faults + 1
  /\ UNCHANGED <<swap, world, signed>>

\* The nodes that agreed give the signatures of all messages, in some order.
Answers == {[i \in DOMAIN order |-> Genuine(order[i], ECKey)] : order \in SetToSeqs(1 .. Messages(server.built.tx[1]))}

\* One signature is of something else, has a wrong v or is cut off; or it is missing.
WrongSigs == {Sig(0, ECSize, TRUE), Sig(0, EDSize, TRUE), Sig(1, ECSize, FALSE), Sig(1, EDSize - 1, TRUE)}
OneWrong(rsvs) == {[rsvs EXCEPT ![1] = wrong] : wrong \in WrongSigs} \cup {Tail(rsvs)}
WrongAnswers == UNION {OneWrong(rsvs) : rsvs \in Answers}

\* The answer of the nodes ends the request.
ServerFinish ==
  /\ server.pc = "asked" /\ node.answer # "none"
  /\ \/ /\ node.answer # "agree"
        /\ UNCHANGED <<signed, faults>>
     \/ /\ node.answer = "agree"
        /\ \E view \in Views, rsvs \in Answers :
             /\ Sees(view)
             /\ signed' = AddSigned(server.built, Signatures(swap, view, server.built.tx[1], rsvs))
     \/ /\ node.answer = "agree" /\ faults < MaxFaults
        /\ \E rsvs \in WrongAnswers :
             signed' = AddSigned(server.built, Signatures(swap, world, server.built.tx[1], rsvs))
        /\ faults' = faults + 1
  /\ server' = BackToIdle(server.mem)
  /\ node' = [node EXCEPT !.answer = "none"]
  /\ UNCHANGED <<swap, world>>

-----------------------------------------------------------------------------
(* Node *)

\* rebuildAndVerifyMsgHash: the value of the deposit must be enough, and the transaction that
\* is built from the extra of the request the one to sign.
NodeAnswer(rebuilt) ==
  IF rebuilt.err # "nil" \/ ~CheckTokenSwapValue(Pairs[node.conf], swap.value, swap.whitelisted) THEN "failed"
  ELSE IF VerifyMsgHash(rebuilt.tx[1], server.built.tx[1]) THEN "agree"
  ELSE "mismatch"

NodeVerify ==
  /\ server.pc = "asked" /\ node.answer = "none"
  /\ \E view \in Views :
       /\ Sees(view)
       /\ LET rebuilt == BuildRawTransaction(ArgsWith(node.conf), FALSE, view, server.built.extra, node.mem)
          IN node' = [node EXCEPT !.answer = NodeAnswer(rebuilt), !.mem = rebuilt.mem]
  /\ UNCHANGED <<swap, world, server, signed>>

NodeRestart ==
  /\ faults < MaxFaults
  /\ node.mem # FreshMem
  /\ node' = [node EXCEPT !.mem = FreshMem]
  /\ faults' = faults + 1
  /\ UNCHANGED <<swap, world, server, signed>>

Next ==
  \/ Drift \/ ServerReload \/ NodeReload
  \/ ServerBuild \/ ServerSign \/ ServerFinish \/ ServerRestart
  \/ NodeVerify \/ NodeRestart

Spec == Init /\ [][Next]_vars

\* Weak fairness of ServerBuild while nothing is signed, of ServerSign, NodeVerify and
\* ServerFinish, with the condition that enables each of them written out: the jobs of the
\* server come back to a swap that is not sent, and a node to a request it has not answered.
\* A build that fails is a step when the process remembers something of it.
Attempt == BuildRawTransaction(ArgsWith(server.conf), TRUE, world, NoExtra, server.mem)
BuildIsEnabled ==
  server.pc = "idle" /\ signed = <<>> /\ (Attempt.err = "nil" \/ Attempt.mem # server.mem)
BuildIsTaken == server.pc = "idle" /\ <<server'.pc, server'.mem>> # <<server.pc, server.mem>>

Fairness ==
  /\ []<>~BuildIsEnabled \/ []<><<BuildIsTaken>>_vars
  /\ []<>(server.pc # "built")
  /\ []<>(server.pc # "asked" \/ node.answer # "none")
  /\ []<>(server.pc # "asked" \/ node.answer = "none")
LiveSpec == Spec /\ Fairness

-----------------------------------------------------------------------------
(* Properties *)

\* What a node agrees to pays the receiver the value of the swap under the configuration of
\* the node, and not nothing, whatever the server has configured.  The Flow and Stellar
\* adapters pay another value (CreateSwapInArgs, getPaymentAmount).
PaysTheSwap(tx, args) ==
  tx.recv = args.bind /\ tx.amount = SwapAmount(args) /\ tx.amount > 0

AgreedPaysTheSwap ==
  [][/\ node.answer = "none" /\ node'.answer = "agree"
     /\ swap.type \in {"erc20", "mixpool"} /\ swap.chain \notin {"flow", "stellar"}
     => PaysTheSwap(server.built.tx[1], ArgsWith(node.conf))]_vars

\* A node that can build the transaction of an honest server gets the same one, although
\* prices, blocks, nonces and fees have changed in between, unless one of the two has
\* reloaded the configuration.  Only adapters that choose outputs or read the sequence of the
\* account again are sensitive to the state of the chain.
SensitiveToTheChain == {"btc", "iota", "stellar"}

HonestRequestIsAgreed ==
  [][node.answer = "none" /\ node'.answer = "mismatch"
     => server.pair # node.conf \/ swap.chain \in SensitiveToTheChain]_vars

\* No transaction of an EVM chain is signed with a tip or a fee cap above the configured limit, nor at
\* a price above the limit rounded up to the price unit: getGasPrice compares the price first and rounds
\* it afterwards, so the limit itself is passed by less than a unit (with a limit of 130 and a unit of
\* 7, 133). The raises of replacements and the raise before the signing are included.
SignedWithinLimits ==
  swap.chain = "eth" =>
    \A i \in DOMAIN signed :
      LET tx == signed[i].tx
          cfg == swap.cfg
      IN /\ cfg.maxPrice # Nil => tx.price <= RoundUp(cfg.maxPrice, cfg.unit)
         /\ cfg.maxTip # Nil => tx.tip <= cfg.maxTip
         /\ cfg.maxCap # Nil => tx.cap <= cfg.maxCap

\* The transactions signed for a swap exclude each other: they have the same nonce of the
\* account, on the chains where nonces count.
OneCanBeMined ==
  swap.chain \in NonceSetters \ {"iota"} =>
    \A i, j \in DOMAIN signed : signed[i].tx.seq = signed[j].tx.seq

\* What is spent is what is paid, returned and left as a fee that the transaction needs; no
\* output is smaller than the ledger allows.
OutputsAddUp ==
  \A i \in DOMAIN signed :
    LET tx == signed[i].tx IN
    /\ swap.chain = "btc" =>
         Total(tx.inputs) >= tx.amount + tx.change + Fee(tx.rate, TxSize + Len(tx.inputs) * InputSize)
    /\ swap.chain = "iota" =>
         /\ Total(tx.inputs) = tx.amount + tx.change
         /\ tx.amount >= KeepAlive
         /\ tx.change = 0 \/ tx.change >= KeepAlive

\* Where the signatures are verified, by the sender or the key they give, or put in the order
\* of the inputs, a transaction is signed only with genuine ones, each in its place, whatever
\* order they came in and whatever is wrong with them.  The other adapters look at the length
\* at most, and find out when the transaction is sent.
Verified(tx) ==
  \/ swap.chain \in {"cosmos", "ripple", "stellar"}
  \/ swap.chain = "eth" /\ ~swap.cfg.zkSync
  \/ swap.chain = "btc" /\ Len(tx.inputs) > 1

SignedByTheAccount ==
  \A i \in DOMAIN signed :
    LET tx == signed[i].tx IN
    Verified(tx) => /\ Len(signed[i].sigs) = Messages(tx)
                    /\ \A k \in DOMAIN signed[i].sigs : signed[i].sigs[k].of = k

\* A swap that could be paid is paid: when chain and configuration stay as they are and a
\* server and a node just started would sign, the swap is signed whatever happened before,
\* a price ten times the limit derived from earlier prices included.
FreshBuild == BuildRawTransaction(ArgsWith(server.conf), TRUE, world, NoExtra, FreshMem)

CanPay ==
  /\ FreshBuild.err = "nil"
  /\ LET asked == MPCSignTransaction(ArgsWith(server.conf), world, FreshBuild) IN
     /\ asked.err = "nil"
     /\ swap.ownKey => SignTransactionWithPrivateKey(swap, world, asked.tx[1]).err = "nil"
     /\ ~swap.ownKey => Signatures(swap, world, asked.tx[1], InOrder(asked.tx[1])).err = "nil"
     /\ LET rebuilt == BuildRawTransaction(ArgsWith(node.conf), FALSE, world, asked.extra, FreshMem)
        IN \/ swap.ownKey
           \/ /\ rebuilt.err = "nil"
              /\ VerifyMsgHash(rebuilt.tx[1], asked.tx[1])
              /\ CheckTokenSwapValue(Pairs[node.conf], swap.value, swap.whitelisted)

PaidWhenPossible ==
  <>[]CanPay /\ <>[][UNCHANGED <<world, server.conf, node.conf>>]_vars => <>(signed # <<>>)

=============================================================================
