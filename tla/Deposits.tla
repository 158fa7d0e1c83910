------------------------------ MODULE Deposits ------------------------------
(***************************************************************************)
(* A deposit on a source chain that reorganises, seen through gateways     *)
(* that lag behind it, registered and verified by the router.              *)
(*                                                                         *)
(* The chain is the height head and the block of the transaction (InPool   *)
(* while it is in none).  A gateway has the height and the block it saw    *)
(* last.  The router asks through the adapter of the chain: a registration *)
(* takes deposits that are not stable, and the verify job decides.         *)
(*                                                                         *)
(* Chain and gateways are external.  Big values, the black list and the    *)
(* writes after the verdict are those of SwapRegister.                     *)
(***************************************************************************)
EXTENDS BridgeBase

CONSTANTS
  DefaultAdaAmount, MaxUint, SwapWithPermit, SwapoutForbidden,
  Transactions,  \* deposits that are considered, with their chain and token pair
  Gateways,
  MaxReorg,      \* blocks a chain may replace at once
  MaxLag,        \* blocks a gateway may be behind
  MaxHeight,     \* bound of the heights
  MaxIndex,      \* bound of the indexes of a deposit in its transaction
  Requests       \* the indexes registrations ask for; 0 stands for all

Chains ==
  {"aptos", "btc", "cardano", "cosmos", "eth", "flow", "iota", "near", "ripple", "solana", "stellar", "tron"}

\* Confirmations are configured for what the chain and the gateways may do.
ASSUME DepositAssumption ==
  /\ \A t \in Transactions : t.chain \in Chains
  /\ MaxReorg \in Nat /\ MaxLag \in Nat /\ MaxHeight \in Nat
  /\ MaxIndex \in Nat /\ Requests \subseteq 0 .. MaxIndex
  /\ Confirmations >= MaxReorg + MaxLag

\* Outputs, events, receipts, operations and logs are lists; the confirmations fit the unsigned
\* numbers that heights are compared in.
ASSUME TransactionAssumption ==
  /\ MaxUint \in Nat /\ Confirmations < MaxUint
  /\ \A t \in Transactions :
       /\ t.chain = "btc" => Len(t.vout) \in Nat
       /\ t.chain = "flow" => Len(t.events) \in Nat
       /\ t.chain = "near" => Len(t.receipts) \in Nat
       /\ t.chain = "stellar" => Len(t.operations) \in Nat
       /\ t.chain = "tron" => Len(t.logs) \in Nat

VARIABLES
  tx,        \* the transaction
  head,      \* the height of the chain
  block,     \* the block of the transaction, or InPool
  gateways,  \* what each gateway saw: [height, at]
  docs       \* the register document of each index

vars == <<tx, head, block, gateways, docs>>

Indexes == 0 .. MaxIndex

Aptos == INSTANCE AptosBridge
Btc == INSTANCE BtcBridge
Cardano == INSTANCE CardanoBridge
Cosmos == INSTANCE CosmosBridge
Eth == INSTANCE EthBridge
Flow == INSTANCE FlowBridge
Iota == INSTANCE IotaBridge
Near == INSTANCE NearBridge
Ripple == INSTANCE RippleBridge
Solana == INSTANCE SolanaBridge
Stellar == INSTANCE StellarBridge
Tron == INSTANCE TronBridge

\* NewCrossChainBridge: a chain that is no other is an EVM chain.
VerifyTransaction(rpc, i, allowUnstable) ==
  CASE tx.chain = "aptos" -> Aptos!VerifyTransaction(tx, rpc, i, allowUnstable)
    [] tx.chain = "btc" -> Btc!VerifyTransaction(tx, rpc, i, allowUnstable)
    [] tx.chain = "cardano" -> Cardano!VerifyTransaction(tx, rpc, i, allowUnstable)
    [] tx.chain = "cosmos" -> Cosmos!VerifyTransaction(tx, rpc, i, allowUnstable)
    [] tx.chain = "flow" -> Flow!VerifyTransaction(tx, rpc, i, allowUnstable)
    [] tx.chain = "iota" -> Iota!VerifyTransaction(tx, rpc, i, allowUnstable)
    [] tx.chain = "near" -> Near!VerifyTransaction(tx, rpc, i, allowUnstable)
    [] tx.chain = "ripple" -> Ripple!VerifyTransaction(tx, rpc, i, allowUnstable)
    [] tx.chain = "solana" -> Solana!VerifyTransaction(tx, rpc, i, allowUnstable)
    [] tx.chain = "stellar" -> Stellar!VerifyTransaction(tx, rpc, i, allowUnstable)
    [] tx.chain = "tron" -> Tron!VerifyTransaction(tx, rpc, i, allowUnstable)
    [] OTHER -> Eth!VerifyTransaction(tx, rpc, i, allowUnstable)

RegisterSwap(rpc, i) ==
  CASE tx.chain = "aptos" -> Aptos!RegisterSwap(tx, rpc, i)
    [] tx.chain = "btc" -> Btc!RegisterSwap(tx, rpc, i)
    [] tx.chain = "cardano" -> Cardano!RegisterSwap(tx, rpc, i)
    [] tx.chain = "cosmos" -> Cosmos!RegisterSwap(tx, rpc, i)
    [] tx.chain = "flow" -> Flow!RegisterSwap(tx, rpc, i)
    [] tx.chain = "iota" -> Iota!RegisterSwap(tx, rpc, i)
    [] tx.chain = "near" -> Near!RegisterSwap(tx, rpc, i)
    [] tx.chain = "ripple" -> Ripple!RegisterSwap(tx, rpc, i)
    [] tx.chain = "solana" -> Solana!RegisterSwap(tx, rpc, i)
    [] tx.chain = "stellar" -> Stellar!RegisterSwap(tx, rpc, i)
    [] tx.chain = "tron" -> Tron!RegisterSwap(tx, rpc, i)
    [] OTHER -> Eth!RegisterSwap(tx, rpc, i)

\* What the chain moved to the router of a token.
Received(token) ==
  CASE tx.chain = "aptos" -> Aptos!Received(tx, token)
    [] tx.chain = "btc" -> Btc!Received(tx, token)
    [] tx.chain = "cardano" -> Cardano!Received(tx, token)
    [] tx.chain = "cosmos" -> Cosmos!Received(tx, token)
    [] tx.chain = "flow" -> Flow!Received(tx, token)
    [] tx.chain = "iota" -> Iota!Received(tx, token)
    [] tx.chain = "near" -> Near!Received(tx, token)
    [] tx.chain = "ripple" -> Ripple!Received(tx, token)
    [] tx.chain = "solana" -> Solana!Received(tx, token)
    [] tx.chain = "stellar" -> Stellar!Received(tx, token)
    [] tx.chain = "tron" -> Tron!Received(tx, token)
    [] OTHER -> Eth!Received(tx, token)

-----------------------------------------------------------------------------
(* Documents *)

ShouldRegisterRouterSwapForError(err) ==
  err \in {"nil", "ErrTxWithWrongValue", "ErrMissTokenConfig", "ErrVerifyTxUnsafe", "ErrSwapoutForbidden"}

GetRouterSwapStatusByVerifyError(err) ==
  CASE err = "nil" -> "TxNotStable"
    [] err = "ErrTxWithWrongValue" -> "TxWithWrongValue"
    [] err = "ErrMissTokenConfig" -> "MissTokenConfig"
    [] err = "ErrVerifyTxUnsafe" -> "TxMaybeUnsafe"
    [] err = "ErrSwapoutForbidden" -> "SwapoutForbidden"
    [] OTHER -> "TxVerifyFailed"

IsRegisteredOk(status) == status \in {"TxNotStable", "TxNotSwapped", "TxMaybeUnsafe"}

Doc(status, err, swap, height) ==
  [status |-> status, err |-> err, token |-> swap.token, value |-> swap.value, height |-> height]

NoDoc == Doc("None", "nil", [token |-> "unknown", value |-> 0], 0)

\* addMgoSwap; the height is only known to the verify job.
NewDoc(info, status) == Doc(status, info.err, info, 0)

\* A new swap is stored; one that was refused, has no result and verifies now starts again.
Stored(doc, info) ==
  IF IsRegisteredOk(doc.status) \/ ~ShouldRegisterRouterSwapForError(info.err) THEN doc
  ELSE IF doc.status = "None" THEN NewDoc(info, GetRouterSwapStatusByVerifyError(info.err))
  ELSE IF info.err = "nil" /\ doc.status # "SwapoutForbidden"
    THEN Doc("TxNotStable", "nil", info, doc.height)
  ELSE doc

IsRetryError(err) == err \in {"ErrTxNotStable", "ErrRPCQueryError", "ErrTxNotFound"}

\* What a verification leaves: the swap passes, or is tried again or given up after a
\* time, or is refused.
Verdicts(doc, info) ==
  LET height == IF info.height > 0 THEN info.height ELSE doc.height
  IN IF info.err = "nil" THEN {Doc("TxNotSwapped", "nil", info, doc.height)}
     ELSE IF IsRetryError(info.err)
       THEN {Doc(doc.status, doc.err, doc, height), Doc("TxVerifyFailed", info.err, doc, height)}
     ELSE {Doc(GetRouterSwapStatusByVerifyError(info.err), info.err, doc, doc.height)}

-----------------------------------------------------------------------------
(* Chain and gateways *)

Init ==
  /\ tx \in Transactions
  /\ head = 0
  /\ block = InPool
  /\ gateways = [g \in Gateways |-> [height |-> 0, at |-> InPool]]
  /\ docs = [i \in Indexes |-> NoDoc]

\* No gateway falls behind further than MaxLag.
MayGrow ==
  /\ head < MaxHeight
  /\ \A g \in Gateways : head + 1 <= gateways[g].height + MaxLag

\* A new block, with the transaction in it or without.
Mine ==
  /\ MayGrow
  /\ head' = head + 1
  /\ block' \in IF block = InPool THEN {InPool, head + 1} ELSE {block}
  /\ UNCHANGED <<tx, gateways, docs>>

\* The last d blocks are replaced by one more; a transaction in them is in another one or
\* back in the pool.
Reorg ==
  /\ MayGrow
  /\ \E d \in 1 .. MaxReorg :
       /\ d <= head
       /\ block' \in IF block > head - d THEN {InPool} \cup ((head - d + 1) .. (head + 1)) ELSE {block}
  /\ head' = head + 1
  /\ UNCHANGED <<tx, gateways, docs>>

Sync(g) ==
  /\ gateways' = [gateways EXCEPT ![g] = [height |-> head, at |-> block]]
  /\ UNCHANGED <<tx, head, block, docs>>

\* The answers of one run of an adapter: each call by one of the gateways, or by none.
Answers ==
  [tx : {NotFound} \cup {gateways[g].at : g \in Gateways},
   latest : {NoHeight} \cup {gateways[g].height : g \in Gateways},
   more : BOOLEAN,
   sound : IF tx.chain = "eth" THEN BOOLEAN ELSE {TRUE}]

-----------------------------------------------------------------------------
(* The router *)

\* RegisterRouterSwap for one index, or for all of them with 0.
Register(i) ==
  /\ ~IsRegisteredOk(docs[i].status)
  /\ \E infos \in {RegisterSwap(rpc, i) : rpc \in Answers} :
       docs' = [k \in Indexes |->
                  IF \E info \in infos : info.index = k
                    THEN Stored(docs[k], CHOOSE info \in infos : info.index = k)
                    ELSE docs[k]]
  /\ UNCHANGED <<tx, head, block, gateways>>

\* The verify job: not before the height it knows can be stable; the latest height it has
\* cached is that of some gateway in the past.
Verify(i) ==
  /\ docs[i].status = "TxNotStable"
  /\ docs[i].height = 0 \/ docs[i].height + Confirmations <= head
  /\ \E info \in {VerifyTransaction(rpc, i, FALSE) : rpc \in Answers} :
       \E doc \in Verdicts(docs[i], info) :
         docs' = [docs EXCEPT ![i] = doc]
  /\ UNCHANGED <<tx, head, block, gateways>>

Next ==
  \/ Mine
  \/ Reorg
  \/ \E g \in Gateways : Sync(g)
  \/ \E i \in Requests : Register(i)
  \/ \E i \in Indexes : Verify(i)

Spec == Init /\ [][Next]_vars

-----------------------------------------------------------------------------
(* Properties *)

Verified(i) == docs[i].status = "TxNotSwapped"

\* A deposit that passed verification stays on the chain, whatever the chain replaces later
\* and however far the gateways that answered were behind.  Not for the adapters that do
\* not wait (btc, flow) and for the one whose difference of heights wraps (tron).
VerifiedIsFinal ==
  tx.chain \notin {"btc", "flow", "tron"} => \A i \in Indexes : Verified(i) => block > 0

\* The same of every adapter: verification with AllowUnstable false checks stability.
EveryVerifiedIsFinal == \A i \in Indexes : Verified(i) => block > 0

\* An EVM adapter accepts that a part of the value does not arrive.
Tolerated(value) == IF tx.chain = "eth" THEN Eth!MinAmount(value) ELSE value

\* All verified swaps of a transaction together pay out no more of a token than the
\* transaction moved to the router: no output, log or transfer backs two swaps.
VerifiedIsCovered ==
  \A token \in {docs[i].token : i \in Indexes} :
    MapThenSumSet(LAMBDA i : CalcSwapValue(tx.pair, Tolerated(docs[i].value), tx.whitelisted),
                  {i \in Indexes : Verified(i) /\ docs[i].token = token})
      <= ConvertTokenValue(Received(token), tx.pair.fromDecimals, tx.pair.toDecimals)

\* The verdict once the transaction is stable and all gateways answer.
Ideal(i) ==
  VerifyTransaction([tx |-> InitialHeight + 1, latest |-> InitialHeight + 1 + Confirmations, more |-> TRUE,
                     sound |-> TRUE],
                    i, FALSE)

\* What a registration takes for a good deposit, verification takes too, and for the same
\* value: the two do not disagree on indexes, memos or amounts.  Registration on Solana does
\* not check the swap, and on EVM chains not the tokens received.
RegisteredIsVerifiable ==
  tx.chain \notin {"solana", "eth"} =>
    \A i \in Indexes : docs[i].status = "TxNotStable" =>
      /\ Ideal(i).err = "nil"
      /\ Ideal(i).value = docs[i].value
      /\ Ideal(i).token = docs[i].token

\* A deposit that was refused, other than by giving up on its chain or by its age, is no
\* good one: an answer that did not come does not cost the deposit.  Only for the adapters
\* that tell failing calls from bad deposits.  EVM chains are not among them: what the adapter
\* holds against the receipt of one gateway (GetTransactionReceipt) refuses the deposit.
RejectedForGood ==
  tx.chain \in {"btc", "cardano", "cosmos", "solana"} =>
    \A i \in Indexes :
      /\ docs[i].status = "TxVerifyFailed"
      /\ ~IsRetryError(docs[i].err)
      /\ docs[i].err # "ErrTxBeforeInitialHeight"
      => Ideal(i).err # "nil"

=============================================================================
