------------------------------ MODULE Gateways ------------------------------
(* The gateways (RPC servers) of one chain: the order in which the bridge    *)
(* asks them, which AdjustGatewayOrder keeps up to date, and what each call  *)
(* of each bridge makes of their answers.                                    *)
EXTENDS Integers, Sequences, FiniteSets, SequencesExt, FiniteSetsExt

CONSTANTS
  Lists,       \* the gateway lists (sequences of gateways) a configuration file may give
  Kinds,       \* the kinds of chain
  Tip,         \* the height of the chain
  MaxOutages,  \* bound: changes of a gateway's health
  MaxUpdates   \* bound: changes of the gateway list

AllGateways == UNION {Range(l) : l \in Lists}

ASSUME GatewaysAssumption == /\ Lists # {} /\ Lists \subseteq Seq(AllGateways)
                             /\ Kinds \subseteq {"eth", "tron", "solana", "aptos", "cardano", "near", "flow",
                                                 "btc", "iota", "ripple", "stellar", "reef", "cosmos"}
                             /\ Tip \in Nat /\ Tip > 1 /\ MaxOutages \in Nat /\ MaxUpdates \in Nat

\* A gateway that is up knows the object asked for; one that is behind does not know it yet;
\* one that is forked answers with something else; one that is down does not answer.
Health == {"up", "behind", "forked", "down"}

-----------------------------------------------------------------------------
(* Answers and what a loop over the gateways makes of them                   *)

Ok(v) == [st |-> "ok", v |-> v]
None == [st |-> "none", v |-> 0]          \* a well-formed answer with nothing in it
Bad == [st |-> "bad", v |-> Tip + 5]      \* an answer that a check of the caller refuses
Err == [st |-> "err", v |-> 0]
NotFound == [st |-> "notfound", v |-> 0]
NilNil == [st |-> "nil", v |-> 0]         \* no result and no error
Panic == [st |-> "panic", v |-> 0]

\* The error left after the loop is that of the last gateway asked: without one it is ErrNotFound.
WrapRPCQueryError(a) == IF a = <<>> \/ Last(a).st # "err" THEN NotFound ELSE Err

First(a, accepted, otherwise) ==
  LET at == {i \in DOMAIN a : a[i].st \in accepted} IN IF at = {} THEN otherwise ELSE a[Min(at)]

\* The first gateway that answers at all; the first whose answer is not null; the same where the
\* client reports what is missing as an error; and where it checks the answer as well.
FirstAnswer(a) == First(a, {"ok", "none", "bad"}, WrapRPCQueryError(a))
FirstFound(a) == First(a, {"ok", "bad"}, WrapRPCQueryError(a))
FirstTaken(a, otherwise) == First(a, {"ok", "bad"}, otherwise)
FirstGood(a, otherwise) == First(a, {"ok"}, otherwise)

\* What a client makes of the answers: one without the thing asked for is an error.
MissingIsError(a) == [i \in DOMAIN a |-> IF a[i].st = "none" THEN Err ELSE a[i]]

Values(a) == {i \in DOMAIN a : a[i].st # "err"}

Highest(a) ==
  LET top == Max({0} \cup {a[i].v : i \in Values(a)}) IN IF top > 0 THEN Ok(top) ELSE WrapRPCQueryError(a)

\* The indexes in S in the order of the values v, equal ones as they come.
Before(v, i, j) == v[i] < v[j] \/ (v[i] = v[j] /\ i < j)
Sorted(S, v) ==
  CHOOSE s \in [1..Cardinality(S) -> S] : \A p, q \in 1..Cardinality(S) : p < q => Before(v, s[p], s[q])

\* The middle one of the values in the order s, or the mean of the two in the middle.
Middle(a, s, n) ==
  LET md == (n - 1) \div 2 + 1 IN IF n % 2 # 0 THEN a[s[md]].v ELSE (a[s[md]].v + a[s[md + 1]].v) \div 2

Median_Unsorted(a) ==
  LET n == Cardinality(Values(a))
  IN IF n = 0 THEN WrapRPCQueryError(a) ELSE Ok(Middle(a, SetToSortSeq(Values(a), <), n))

Median(a) ==
  LET n == Cardinality(Values(a))
  IN IF n = 0 THEN WrapRPCQueryError(a) ELSE Ok(Middle(a, Sorted(Values(a), [i \in DOMAIN a |-> a[i].v]), n))

\* Every gateway is asked; the reply of the last one is returned if any succeeded.
LastReply(a, otherwise) ==
  IF \E i \in DOMAIN a : a[i].st = "ok" THEN IF Last(a).st = "ok" THEN Last(a) ELSE None ELSE otherwise

-----------------------------------------------------------------------------
(* The calls of each bridge. q holds the answers to a query, in the order    *)
(* the bridge asks: q.height to the latest height, q.object to a transaction *)
(* or block, q.value to a number, q.send to a signed transaction, q.first to *)
(* a number by the first gateway of the file, q.grpc by the gRPC clients;    *)
(* q.initing is router.IsIniting.                                            *)

EthHeight(q) == [GetLatestBlockNumber |-> Highest(q.height)]

\* GetTransactionReceipt refuses a receipt without block or of another hash, and (if so configured)
\* one whose block does not hold the transaction; the other gateways are not asked then.
EthObjects(q) ==
  [GetBlockByNumber |-> FirstFound(q.object), GetTransactionByHash |-> FirstFound(q.object),
   GetTransactionByBlockNumberAndIndex |-> FirstFound(q.object), GetTransactionReceipt |-> FirstFound(q.object)]
EthPoolNonce(q) == [GetPoolNonce |-> Median(q.value)]

SuggestPrice(method, q) ==
  CASE method = "first" -> q.first
    [] method = "max" -> Highest(q.value)
    [] OTHER -> Median(q.value)
EthPrices(q) ==
  [SuggestPrice |-> SuggestPrice("median", q), SuggestPriceMax |-> SuggestPrice("max", q),
   SuggestPriceFirst |-> SuggestPrice("first", q)]
EthTipCap(q) == [SuggestGasTipCap |-> Median(q.value)]

EthNetwork(q) ==
  [ChainID |-> FirstAnswer(q.value), NetworkID |-> FirstAnswer(q.value), GetCode |-> FirstAnswer(q.value)]
EthBalance(q) == [GetBalance |-> FirstAnswer(q.value)]
EthFees(q) ==
  [FeeHistory |-> FirstAnswer(q.value), GetBaseFee |-> FirstAnswer(q.value), EstimateGas |-> FirstAnswer(q.value)]
EthLogs(q) == [GetLogs |-> FirstFound(q.object)]

\* While the router starts, a call that reverts ends the loop.
EthCall(q) ==
  [CallContract |-> First(q.value, IF q.initing THEN {"ok", "none", "bad"} ELSE {"ok", "none"}, WrapRPCQueryError(q.value))]
\* The errors of the inner calls are dropped.
SapphireCall(q) == [CallContractSapphire |-> First(q.value, {"ok", "none", "bad"}, NotFound)]

\* All gateways at once; the first success that arrives is returned.
SendSignedTransaction(q) == {FirstGood(q.send, WrapRPCQueryError(q.send))}
SendSignedZKSyncTransaction(q) == {FirstGood(q.send, WrapRPCQueryError(q.send))}
SendSignedTransactionSapphire(q) == {FirstAnswer(q.send)}

-----------------------------------------------------------------------------
\* An answer that knows no transaction parses as an empty one.
TronHeight(q) == [GetLatestBlockNumber |-> FirstTaken(q.height, Err)]
TronTransaction(q) == [GetTronTransaction |-> First(q.object, {"ok", "none", "bad"}, NilNil)]
TronTransactionInfo(q) == [GetTransactionInfo |-> First(q.object, {"ok", "none", "bad"}, NotFound)]
TronCode(q) == [GetCode |-> FirstTaken(q.value, Err)]
\* A number of the JSON is never an int64, and the balance it would be stored in is nil.
TronBalance(q) == [GetBalance |-> Panic]
TronBuild(q) == [BuildTriggerConstantContractTx |-> FirstTaken(q.value, Err)]
TronCall(q) == [CallContract |-> First(q.value, {"ok", "none"}, IF q.value = <<>> THEN None ELSE Err)]
TronBroadcastTx(q) == {FirstGood(q.send, Err)}

SolanaHeight(q) == [GetLatestBlockNumber |-> Highest(q.height)]
SolanaBlocks(q) ==
  [GetLatestBlockhash |-> FirstAnswer(q.value), GetRecentBlockhash |-> FirstAnswer(q.value),
   GetFeeForMessage |-> FirstAnswer(q.value), GetFees |-> FirstAnswer(q.value), GetBlock |-> FirstAnswer(q.object)]
SolanaAccount(q) ==
  LET a == FirstAnswer(q.object)
  IN [GetAccountInfo |-> IF a = None THEN NotFound ELSE a, GetNonceAccountInfo |-> IF a = None THEN NotFound ELSE a,
      GetBalance |-> FirstAnswer(q.value), GetProgramAccounts |-> a]
SolanaNumbers(q) ==
  [IsBlockhashValid |-> FirstAnswer(q.value), GetBlockHeight |-> FirstAnswer(q.height), AirDrop |-> FirstAnswer(q.value),
   GetMinimumBalanceForRentExemption |-> FirstAnswer(q.value), GetEpochInfo |-> FirstAnswer(q.value),
   GetBlocks |-> FirstAnswer(q.value)]
SolanaSignatures(q) == [SimulateTransaction |-> FirstAnswer(q.value), GetSignatureStatuses |-> FirstAnswer(q.value)]
\* A gateway chosen at random; another is chosen only when the first does not know the block hash.
SolanaSend(q) ==
  IF \E i \in DOMAIN q.send : q.send[i].st # "none" THEN {q.send[i] : i \in {j \in DOMAIN q.send : q.send[j].st # "none"}}
  ELSE {Err}

AptosClient(a) == MissingIsError(a)
AptosQueries(q) ==
  [GetLedger |-> FirstTaken(AptosClient(q.height), Err), GetAccount |-> FirstTaken(AptosClient(q.object), Err),
   GetAccountResource |-> FirstTaken(AptosClient(q.object), Err)]
AptosTransactions(q) ==
  [GetTransactions |-> FirstTaken(AptosClient(q.object), Err), GetTransactionsNotPending |-> FirstTaken(AptosClient(q.object), Err),
   EstimateGasPrice |-> FirstAnswer(q.value), GetSigningMessage |-> FirstAnswer(q.value),
   SimulateTranscation |-> FirstGood(AptosClient(q.value), Err)]
AptosAccountBalance(q) == [GetAccountBalance |-> First(q.object, {"ok", "none"}, Err)]
AptosHeight(q) == [GetLatestBlockNumber |-> AptosQueries(q).GetLedger]
AptosSubmit(q) == {FirstGood(q.send, Err)}

-----------------------------------------------------------------------------
\* The errors of the gateways are dropped for ErrTxNotFound and the like.
CardanoClient(a) == MissingIsError(a)
CardanoHeight(q) == [GetLatestBlockNumber |-> FirstTaken(CardanoClient(q.height), NotFound)]
CardanoTip(q) == [GetTip |-> FirstTaken(CardanoClient(q.height), NotFound)]
CardanoTransaction(q) == [GetTransactionByHash |-> FirstTaken(CardanoClient(q.object), NotFound)]
CardanoUtxos(q) == [GetUtxosByAddress |-> FirstTaken(CardanoClient(q.object), Err)]

NearClient(a) == MissingIsError(a)
NearBlocks_FirstOnly(q) ==
  [GetLatestBlockNumber |-> IF q.height = <<>> THEN Err ELSE q.height[1], GetLatestBlockHash |-> FirstTaken(NearClient(q.value), Err),
   GetBlockNumberByHash |-> FirstTaken(NearClient(q.object), Err)]

NearBlocks(q) ==
  [GetLatestBlockNumber |-> FirstTaken(NearClient(q.height), Err), GetLatestBlockHash |-> FirstTaken(NearClient(q.value), Err),
   GetBlockNumberByHash |-> FirstTaken(NearClient(q.object), Err)]

NearTransaction(q) == [GetTransactionByHash |-> FirstGood(NearClient(q.object), NotFound)]
\* A balance that is too small ends the loop.
NearBalances(q) == [CheckBalance |-> FirstTaken(NearClient(q.value), Err), CheckTokenBalance |-> FirstTaken(NearClient(q.value), Err)]
NearBroadcast(q) == {LastReply(q.send, Err)}

FlowClient(a) == MissingIsError(a)
FlowQueries(q) ==
  [GetLatestBlockNumber |-> FirstTaken(FlowClient(q.height), Err), GetLatestBlockID |-> FirstTaken(FlowClient(q.value), Err),
   GetBlockNumberByHash |-> FirstTaken(FlowClient(q.object), Err), GetTransactionByHash |-> FirstTaken(FlowClient(q.object), NotFound)]
FlowBroadcast(q) == {LastReply(q.send, Err)}

BtcClient(a) == MissingIsError(a)
BtcQueries(q) ==
  [GetLatestBlockNumber |-> FirstTaken(BtcClient(q.height), NotFound), GetTransactionByHash |-> FirstTaken(BtcClient(q.object), NotFound),
   GetElectTransactionStatus |-> FirstTaken(BtcClient(q.object), NotFound)]
BtcBroadcast(q) == {LastReply(q.send, Err)}

IotaClient(a) == MissingIsError(a)
IotaHeight(q) == [GetLatestBlockNumber |-> FirstTaken(IotaClient(q.height), Err)]
IotaTransactions(q) ==
  [GetTransactionMetadata |-> FirstTaken(IotaClient(q.object), NotFound), GetTransactionByHash |-> FirstTaken(IotaClient(q.object), NotFound)]
IotaBalance(q) == [CheckBalance |-> FirstTaken(IotaClient(q.value), Err)]
IotaSend(q) == {FirstGood(q.send, Err)}

\* Each is repeated rpcRetryTimes; the account lines of a gateway that answers null are read all the same.
RippleHeight(q) == [GetLatestBlockNumber |-> FirstTaken(q.height, Err)]
RippleTransaction(q) == [GetTransactionByHash |-> FirstFound(q.object)]
RippleAccount(q) == [GetAccount |-> FirstFound(q.object), GetBalance |-> FirstFound(q.object)]
RippleAccountLine(q) ==
  LET a == FirstFound(q.object) IN [GetAccountLine |-> IF a = NotFound /\ q.object # <<>> THEN Panic ELSE a]
RippleFeeCall(q) == [GetFee |-> FirstFound(q.value)]
RippleSubmit(q) == {FirstGood(q.send, Err)}

\* Every remote is one and the same client, whose URL is the last one of the list.
Shared(a) == IF a = <<>> THEN <<>> ELSE <<Last(a)>>
StellarHeight(q) == [GetLatestBlockNumber |-> FirstTaken(Shared(q.urlHeight), Err)]
StellarTransaction(q) == [GetTransaction |-> FirstTaken(Shared(q.urlObject), Err)]
StellarBlocks(q) ==
  [GetBlockHash |-> FirstTaken(Shared(q.urlObject), Err), GetBlockTxids |-> FirstTaken(Shared(q.urlObject), Err)]
StellarAccount(q) ==
  [GetAccount |-> FirstTaken(Shared(q.urlObject), Err), GetAsset |-> FirstTaken(Shared(q.urlObject), Err)]
StellarFee(q) == [GetFee |-> FirstTaken(Shared(q.urlValue), Ok(1))]
StellarOperations(q) == [GetOperations |-> FirstTaken(Shared(q.urlObject), NilNil)]
StellarSubmit(q) == {FirstGood(Shared(q.urlSend), Err)}

\* The errors of the websocket queries are dropped.
ReefCall(q) == [GetGetBlockHash |-> FirstAnswer(q.value), CallContract |-> EthCall(q).CallContract]
ReefAddresses(q) == [QueryEvmAddress |-> FirstTaken(q.object, Err), QueryReefAddress |-> FirstTaken(q.object, Err)]
ReefAccount(q) ==
  [GetBalance |-> FirstTaken(q.value, NilNil), GetTransactionByHash |-> First(q.object, {"ok", "bad", "none"}, NilNil),
   GetPoolNonce |-> FirstTaken(q.value, NilNil)]

-----------------------------------------------------------------------------
\* Cosmos asks the gRPC clients first, then the REST gateways.
GRPC(a) == FirstTaken(MissingIsError(a), Err)
GrpcThenRest(clients, rest) ==
  LET a == GRPC(clients) IN IF a # Err \/ rest = <<>> THEN a ELSE FirstTaken(rest, Err)
CosmosBlocks(q) ==
  [GetLatestBlockNumber |-> GrpcThenRest(q.grpcHeight, q.height), GetChainID |-> GrpcThenRest(q.grpcValue, q.value)]
CosmosTransaction(q) == [GetTransactionByHash |-> GrpcThenRest(q.grpcObject, q.object)]
CosmosAccount(q) ==
  [GetBaseAccount |-> GrpcThenRest(q.grpcObject, q.object), GetDenomBalance |-> GrpcThenRest(q.grpcValue, q.value)]
CosmosSimulate(q) == [SimulateTx |-> GrpcThenRest(q.grpcValue, q.value)]
\* An empty reply of the last gateway is ErrBroadcastTx.
CosmosBroadcast(q) ==
  LET a == FirstGood(q.grpcSend, Err)
      r == LastReply(q.send, Err)
  IN {IF a # Err \/ q.send = <<>> THEN a ELSE IF r = None THEN Err ELSE r}

-----------------------------------------------------------------------------
(* Every call of the bridge of a kind, and the ways its sending may end      *)

Results(k, q) ==
  CASE k = "eth" -> {EthHeight(q), EthObjects(q), EthPoolNonce(q), EthPrices(q), EthTipCap(q), EthNetwork(q),
                     EthBalance(q), EthFees(q), EthLogs(q), EthCall(q), SapphireCall(q)}
    [] k = "tron" -> {TronHeight(q), TronTransaction(q), TronTransactionInfo(q), TronCode(q), TronBalance(q),
                      TronBuild(q), TronCall(q)}
    [] k = "solana" -> {SolanaHeight(q), SolanaBlocks(q), SolanaAccount(q), SolanaNumbers(q), SolanaSignatures(q)}
    [] k = "aptos" -> {AptosHeight(q), AptosQueries(q), AptosTransactions(q), AptosAccountBalance(q)}
    [] k = "cardano" -> {CardanoHeight(q), CardanoTip(q), CardanoTransaction(q), CardanoUtxos(q)}
    [] k = "near" -> {NearBlocks(q), NearTransaction(q), NearBalances(q)}
    [] k = "flow" -> {FlowQueries(q)}
    [] k = "btc" -> {BtcQueries(q)}
    [] k = "iota" -> {IotaHeight(q), IotaTransactions(q), IotaBalance(q)}
    [] k = "ripple" -> {RippleHeight(q), RippleTransaction(q), RippleAccount(q), RippleAccountLine(q), RippleFeeCall(q)}
    [] k = "stellar" -> {StellarHeight(q), StellarTransaction(q), StellarBlocks(q), StellarAccount(q), StellarFee(q),
                         StellarOperations(q)}
    [] k = "reef" -> {ReefCall(q), ReefAddresses(q), ReefAccount(q)}
    [] OTHER -> {CosmosBlocks(q), CosmosTransaction(q), CosmosAccount(q), CosmosSimulate(q)}

Sends(k, q) ==
  CASE k = "eth" -> SendSignedTransaction(q) \cup SendSignedZKSyncTransaction(q) \cup SendSignedTransactionSapphire(q)
    [] k = "tron" -> TronBroadcastTx(q)
    [] k = "solana" -> SolanaSend(q)
    [] k = "aptos" -> AptosSubmit(q)
    [] k = "near" -> NearBroadcast(q)
    [] k = "flow" -> FlowBroadcast(q)
    [] k = "btc" -> BtcBroadcast(q)
    [] k = "iota" -> IotaSend(q)
    [] k = "ripple" -> RippleSubmit(q)
    [] k = "stellar" -> StellarSubmit(q)
    [] k = "cosmos" -> CosmosBroadcast(q)
    [] OTHER -> {}

-----------------------------------------------------------------------------
(* The gateways of one chain over time                                       *)

VARIABLES
  kind,      \* the kind of the chain
  file,      \* the list in the configuration file
  notified,  \* fsnotify has an event for the file
  gateway,   \* the bridge's GatewayConfig: urls (OriginAllGatewayURLs), order (AllGatewayURLs), ctx (AdjustContext is set), fails
  grpc,      \* rpcClients (cosmos)
  adjust,    \* the adjust loop: its step, whether the object it works on is the bridge's (mine), and the answers it got
  cached,    \* CachedLatestBlockNumber, 0 without
  health,    \* what each gateway answers
  outages, updates,
  steady     \* the gateways that have been up all the time

gvars == <<kind, file, notified, gateway, grpc, adjust, cached, health, outages, updates, steady>>

HeightOf == [up |-> Ok(Tip), behind |-> Ok(Tip - 1), forked |-> Ok(Tip + 5), down |-> Err]
ObjectOf == [up |-> Ok(1), behind |-> None, forked |-> Bad, down |-> Err]
ValueOf == [up |-> Ok(2), behind |-> Ok(1), forked |-> Bad, down |-> Err]
\* A gateway that is behind does not know the block the transaction refers to: solana tells this from other errors.
SendOf == [up |-> Ok(1), behind |-> IF kind = "solana" THEN None ELSE Err, forked |-> Err, down |-> Err]

Ask(gs, answer) == [i \in DOMAIN gs |-> answer[health[gs[i]]]]

Queries(initing) ==
  [height |-> Ask(gateway.order, HeightOf), object |-> Ask(gateway.order, ObjectOf), value |-> Ask(gateway.order, ValueOf),
   send |-> Ask(gateway.order, SendOf), first |-> IF gateway.urls = <<>> THEN NilNil ELSE Ask(gateway.urls, ValueOf)[1],
   urlHeight |-> Ask(gateway.urls, HeightOf), urlObject |-> Ask(gateway.urls, ObjectOf), urlValue |-> Ask(gateway.urls, ValueOf),
   urlSend |-> Ask(gateway.urls, SendOf), grpcHeight |-> Ask(grpc, HeightOf), grpcObject |-> Ask(grpc, ObjectOf),
   grpcValue |-> Ask(grpc, ValueOf), grpcSend |-> Ask(grpc, SendOf), initing |-> initing]

\* Cardano asks the first gateway that answers, stellar its one client, whatever the URL.
GetLatestBlockNumberOf(g) ==
  CASE kind = "cardano" -> CardanoHeight(Queries(FALSE)).GetLatestBlockNumber
    [] kind = "stellar" -> StellarHeight(Queries(FALSE)).GetLatestBlockNumber
    [] OTHER -> HeightOf[health[g]]

SetGatewayConfig(urls) ==
  [urls |-> urls, order |-> urls, ctx |-> FALSE, fails |-> [g \in AllGateways |-> 0]]
InitGrpcClients(urls) == IF kind = "cosmos" THEN grpc \o urls ELSE grpc

\* A step of the loop: "idle" between two rounds, "asking", "logging" what a round did, and "crashed".
At(step) == [step |-> step, mine |-> FALSE, answers |-> <<>>]

GatewaysInit ==
  /\ kind \in Kinds
  /\ file \in Lists
  /\ notified = FALSE
  /\ gateway = SetGatewayConfig(file)
  /\ grpc = IF kind = "cosmos" THEN file ELSE <<>>
  /\ adjust = At("idle")
  /\ cached = 0
  /\ health = [g \in AllGateways |-> "up"]
  /\ outages = 0 /\ updates = 0
  /\ steady = AllGateways

\* A gateway recovers, falls behind, is on another fork or goes down.
HealthChanges(g, h) ==
  /\ outages < MaxOutages
  /\ health[g] # h
  /\ health' = [health EXCEPT ![g] = h]
  /\ outages' = outages + 1
  /\ steady' = steady \ {g}
  /\ UNCHANGED <<kind, file, notified, gateway, grpc, adjust, cached, updates>>

EditFile(l) ==
  /\ updates < MaxUpdates
  /\ file' = l /\ notified' = TRUE
  /\ updates' = updates + 1
  /\ UNCHANGED <<kind, gateway, grpc, adjust, cached, health, outages, steady>>

\* The bridge gets a new configuration object; an adjustment under way goes on with the old one.
updateGateway ==
  /\ notified /\ adjust.step # "crashed"
  /\ notified' = FALSE
  /\ gateway' = SetGatewayConfig(file)
  /\ grpc' = InitGrpcClients(file)
  /\ adjust' = [adjust EXCEPT !.mine = FALSE]
  /\ UNCHANGED <<kind, file, cached, health, outages, updates, steady>>

\* One round: the configuration gets its context, every gateway of the list is asked for its height ...
AdjustAsk ==
  /\ adjust.step = "idle"
  /\ gateway' = [gateway EXCEPT !.ctx = TRUE]
  /\ adjust' = [step |-> "asking", mine |-> TRUE,
                answers |-> [i \in DOMAIN gateway.urls |-> GetLatestBlockNumberOf(gateway.urls[i])]]
  /\ UNCHANGED <<kind, file, notified, grpc, cached, health, outages, updates, steady>>

\* ... those that failed three times in a row are left out, the others are sorted by height.
NoHeight(answer) == answer.st \in {"err", "notfound"}
Fails(answers) ==
  [g \in AllGateways |->
     LET at == {i \in DOMAIN answers : gateway.urls[i] = g}
     IN IF at = {} \/ ~NoHeight(answers[Min(at)]) THEN 0 ELSE Min({3, gateway.fails[g] + 1})]

Reordered_Ascending(answers) ==
  LET kept == {i \in DOMAIN answers : Fails(answers)[gateway.urls[i]] < 3}
      s == Sorted(kept, [i \in DOMAIN answers |-> answers[i].v])
  IN IF kept = {} THEN gateway.urls ELSE [p \in 1..Cardinality(kept) |-> gateway.urls[s[p]]]

Reordered(answers) ==
  LET kept == {i \in DOMAIN answers : Fails(answers)[gateway.urls[i]] < 3}
      s == Sorted(kept, [i \in DOMAIN answers |-> -answers[i].v])
  IN IF kept = {} THEN gateway.urls ELSE [p \in 1..Cardinality(kept) |-> gateway.urls[s[p]]]

\* Every third round is logged.
AdjustGatewayOrder ==
  /\ adjust.step = "asking"
  /\ adjust' \in {At("idle"), At("logging")}
  /\ LET top == Max({0} \cup {adjust.answers[i].v : i \in DOMAIN adjust.answers})
     IN cached' = IF top > 0 THEN top ELSE cached
  /\ gateway' = IF adjust.mine
                 THEN [gateway EXCEPT !.fails = Fails(adjust.answers), !.order = Reordered(adjust.answers)]
                 ELSE gateway
  /\ UNCHANGED <<kind, file, notified, grpc, health, outages, updates, steady>>

\* The context is that of the configuration the bridge has now: a new one has none yet, and the
\* type assertion on it panics and ends the program.
LogAdjustment ==
  /\ adjust.step = "logging"
  /\ adjust' = At(IF gateway.ctx THEN "idle" ELSE "crashed")
  /\ UNCHANGED <<kind, file, notified, gateway, grpc, cached, health, outages, updates, steady>>

\* The program starts again, with the file as it is.
RestartGateways ==
  /\ adjust.step = "crashed"
  /\ notified' = FALSE
  /\ gateway' = SetGatewayConfig(file)
  /\ grpc' = IF kind = "cosmos" THEN file ELSE <<>>
  /\ adjust' = At("idle") /\ cached' = 0
  /\ UNCHANGED <<kind, file, health, outages, updates, steady>>

\* The loop, which never waits for anything but its timer.
AdjustLoop == AdjustAsk \/ AdjustGatewayOrder \/ LogAdjustment

GatewaysNext ==
  \/ \E g \in AllGateways, h \in Health : HealthChanges(g, h)
  \/ \E l \in Lists : EditFile(l)
  \/ updateGateway
  \/ AdjustLoop
  \/ RestartGateways

-----------------------------------------------------------------------------
Listed == Range(gateway.urls)

\* Calls that do not ask the other gateways, or never succeed.
Fragile == [k \in Kinds |->
  CASE k = "eth" -> {"SuggestPriceFirst"} [] k = "tron" -> {"GetBalance"} [] OTHER -> {}]

\* The gateways of a list are there so that one that works is enough (the loops of every callapi.go,
\* bridge.go and rpcclient.go): as long as no gateway answers wrongly, a listed one that was never down
\* serves every call in spite of the others, of reorderings and of a new list; and a transaction that
\* some gateway in use accepts is reported as sent. Left out are the calls of Fragile, stellar with its
\* one client, and for sending the bridges that return the last reply (near, flow, btc, cosmos) or that
\* ask one gateway (solana).
Served ==
  /\ (/\ kind # "stellar" /\ Listed \cap steady # {}
      /\ \A g \in Listed \cup Range(grpc) : health[g] \in {"up", "down"}) =>
     \A i \in BOOLEAN : \A r \in Results(kind, Queries(i)) : \A c \in DOMAIN r \ Fragile[kind] : r[c].st = "ok"
  /\ (/\ kind \notin {"stellar", "near", "flow", "btc", "cosmos", "solana"}
      /\ \E g \in Range(gateway.order) : health[g] = "up") =>
     \A s \in Sends(kind, Queries(FALSE)) : s.st = "ok"

\* The median that GetPoolNonce, SuggestPrice and SuggestGasTipCap take (getMedianGasPrice) stays
\* between values that honest gateways gave as long as fewer than half of those that answer lie, also
\* for an even number of answers and when others are down.
HonestMedian ==
  LET a == Ask(gateway.order, ValueOf)
      lying == {i \in Values(a) : a[i].st = "bad"}
      honest == {a[i].v : i \in Values(a) \ lying}
  IN (2 * Cardinality(lying) < Cardinality(Values(a))) =>
     Median(a).v \in Min(honest)..Max(honest)

Ahead(g) == \A h \in Listed : HeightOf[health[g]].v >= HeightOf[health[h]].v
\* Once neither the gateways nor the file change, the watcher and the adjust loop (updateGateway,
\* AdjustGatewayOrder) leave the bridge with the list of the file, and asking a gateway first that
\* none is ahead of: an adjustment that overlaps a new list sorts the old one, or ends the program
\* when it is logged, and then only a restart brings the order up to date. Cardano and stellar do not
\* learn a gateway's own height.
OrderCatchesUp ==
  <>[][FALSE]_<<health, file>> =>
  <>[](kind \in {"cardano", "stellar"} \/ (Listed = Range(file) /\ Ahead(gateway.order[1])))
=============================================================================
