--------------------------- MODULE CardanoPayout ---------------------------
(***************************************************************************)
(* Payouts on a chain whose transactions expire: the transactions the      *)
(* Cardano bridge builds and sends (tokens/cardano), and the reswap job    *)
(* that pays again after the time to live of a payout is over              *)
(* (worker/reswap.go, tokens/base/reswapable.go, the stable job).          *)
(*                                                                         *)
(* The swap job appears with its order of steps (build, sign, record, send)*)
(* and its single consumer; its own interleavings are in SwapJob.  A block *)
(* is a slot.  An output is named by a number: a negative one is an output *)
(* the MPC address has from the start, a positive one the change of the    *)
(* transaction with that number.  A transaction is its index in txs, and 0 *)
(* is the empty hash.                                                      *)
(***************************************************************************)
EXTENDS Integers, Sequences, FiniteSets, Functions

CONSTANTS
  Swaps,
  Asset,          \* what every swap pays: "ada" or "tok"
  Value,          \* the amount of every swap
  NoTTL,          \* swaps above the value SetTxTimeout allows to reswap
  Utxos,          \* outputs of the MPC address at the start, a sequence of [ada, tok]
  OwnPolicy,      \* the token is minted under the router's policy
  MaxFee, Fee,    \* calcMaxFee, and the fee of a transaction
  FixAdaAmount, DefaultAdaAmount,
  TxTimeout,      \* slots a transaction lives
  Confirmations,
  MaxSlot, MaxTxs,
  MaxFaults       \* bound on dropped transactions and restarts together

ASSUME CardanoAssumption ==
  /\ MaxFee \in Nat /\ Fee \in 1 .. MaxFee
  /\ FixAdaAmount \in Nat /\ DefaultAdaAmount \in Nat /\ FixAdaAmount <= DefaultAdaAmount
  /\ Utxos \in Seq([ada : Nat, tok : Nat])
  /\ \A s \in Swaps : Asset[s] \in {"ada", "tok"} /\ Value[s] \in Nat \ {0}
  /\ TxTimeout \in Nat /\ Confirmations \in Nat

VARIABLES
  txs,           \* the transactions built so far
  pool,          \* transactions the nodes hold
  mined,         \* slot of every transaction that is on chain, 0 if it is not
  slot,
  res,           \* result documents
  processed,     \* swaps whose register document is TxProcessed
  chaining,      \* TransactionChaining: the last transaction sent, 0 for none
  spent,         \* SpentUtxoMap
  spentBy,       \* transactions in SpentUtxoListGropByTxHash
  consumer,      \* the swap job's consumer: [pc, tx]
  reswapQueue,   \* snapshots in the reswap job's queue, at most one of a swap
  signing,       \* signAndSendReswapTx goroutines: [pc, tx]
  loops,         \* sendTxLoopUntilSuccess goroutines
  list,          \* snapshots the stable job's producer has read and not dispatched
  stable,        \* its tasks: [pc, snap, found]
  faults

chainVars == <<pool, mined, slot>>
cacheVars == <<chaining, spent, spentBy>>
jobVars == <<consumer, reswapQueue, signing, loops, list, stable>>
cardanoVars == <<txs, chainVars, res, processed, cacheVars, jobVars, faults>>

Ids == 1 .. Len(txs)

Init ==
  /\ txs = <<>>
  /\ pool = {}
  /\ mined = <<>>
  /\ slot = Confirmations + 1
  /\ res = [s \in Swaps |-> [swap |-> s, status |-> "MatchTxEmpty", swaptx |-> 0,
                             old |-> {}, height |-> 0, ttl |-> 0]]
  /\ processed = {}
  /\ chaining = 0
  /\ spent = {}
  /\ spentBy = {}
  /\ consumer = [pc |-> "idle", tx |-> 0]
  /\ reswapQueue = {}
  /\ signing = {}
  /\ loops = {}
  /\ list = {}
  /\ stable = {}
  /\ faults = 0

-----------------------------------------------------------------------------
(* The chain (external). *)

Amount(k) == IF k < 0 THEN Utxos[-k] ELSE txs[k].change

Total(keys) == [ada |-> SumFunction([k \in keys |-> Amount(k).ada]),
                tok |-> SumFunction([k \in keys |-> Amount(k).tok])]

Mined == {i \in Ids : mined[i] > 0}
SpentBy(ids) == UNION {txs[i].ins : i \in ids}
OnChain == ({-u : u \in DOMAIN Utxos} \cup Mined) \ SpentBy(Mined)

Expired(i) == slot > txs[i].ttl

\* A node takes a transaction whose inputs are there, on chain or as the change of a
\* transaction it holds, and not spent by another one it holds.
Acceptable(i) ==
  /\ i \notin pool \cup Mined
  /\ ~Expired(i)
  /\ txs[i].ins \subseteq (OnChain \cup pool) \ SpentBy(pool)

\* Whoever spends the change of a transaction that left the pool leaves it too; numbers
\* grow along a chain of change outputs.
Surviving(p) ==
  LET alive[i \in Ids] == i \in p /\ \A k \in txs[i].ins : k \in OnChain \/ (k > 0 /\ alive[k])
  IN {i \in p : alive[i]}

Mine(i) ==
  /\ i \in pool
  /\ txs[i].ins \subseteq OnChain
  /\ mined' = [mined EXCEPT ![i] = slot]
  /\ pool' = pool \ {i}
  /\ UNCHANGED <<txs, slot, res, processed, cacheVars, jobVars, faults>>

\* A slot passes: what is expired leaves the pools.
Tick ==
  /\ slot < MaxSlot
  /\ slot' = slot + 1
  /\ pool' = Surviving({i \in pool : slot + 1 <= txs[i].ttl})
  /\ UNCHANGED <<txs, mined, res, processed, cacheVars, jobVars, faults>>

\* A full pool drops a transaction.
Lose(i) ==
  /\ faults < MaxFaults
  /\ i \in pool
  /\ faults' = faults + 1
  /\ pool' = Surviving(pool \ {i})
  /\ UNCHANGED <<txs, mined, slot, res, processed, cacheVars, jobVars>>

-----------------------------------------------------------------------------
(* Building, signing and sending (tokens/cardano). *)

\* GetTransactionChainingMap: the change of the last transaction sent covers the payout.
ChainingEnough(s) ==
  /\ chaining # 0
  /\ LET change == txs[chaining].change
     IN IF Asset[s] = "ada" THEN change.ada >= Value[s] + MaxFee
        ELSE change.tok >= Value[s] /\ change.ada >= MaxFee

\* Its other answer: a change with some of the token, but not enough ada for the fee, gives
\* no outputs and no error.
ChainingShort(s) ==
  /\ chaining # 0
  /\ Asset[s] = "tok" /\ txs[chaining].change.tok > 0
  /\ txs[chaining].change.ada < MaxFee

\* QueryUtxo: the chain is only asked after an error, for what is not known to be spent.
QueryUtxo(s) ==
  CASE ChainingEnough(s) -> {chaining}
    [] ChainingShort(s) -> {}
    [] OTHER -> OnChain \ spent

PaidAda(s) == IF Asset[s] = "ada" THEN Value[s] ELSE FixAdaAmount
PaidTok(s) == IF Asset[s] = "tok" THEN Value[s] ELSE 0
AdaRequired(s) == MaxFee + FixAdaAmount + PaidAda(s)

\* The loop over the outputs stops here (strictly more than is needed).
Enough(s, keys) ==
  /\ Total(keys).ada > AdaRequired(s)
  /\ Asset[s] = "tok" => Total(keys).tok > Value[s]

\* The inputs BuildTx may end up with: it ranges over a Go map, in any order.
Inputs(s) ==
  {keys \in SUBSET QueryUtxo(s) :
     /\ Total(keys).ada > AdaRequired(s)
     /\ IF Enough(s, keys) THEN \E k \in keys : ~Enough(s, keys \ {k})
        ELSE keys = QueryUtxo(s)}

\* Mutation: what is minted is the payout and not the shortage.
Minted_All(s, keys) == IF Total(keys).tok >= PaidTok(s) THEN 0 ELSE PaidTok(s)

\* The shortage of a token of the router's own policy is minted.
Minted(s, keys) ==
  IF Total(keys).tok >= PaidTok(s) THEN 0 ELSE PaidTok(s) - Total(keys).tok

CanBuild(s, keys) ==
  /\ Asset[s] = "ada" => Value[s] >= FixAdaAmount
  /\ Minted(s, keys) > 0 => OwnPolicy

\* BuildTx; what is left goes back to the MPC address.
BuildTx(s, keys) ==
  [swap |-> s, ins |-> keys, mint |-> Minted(s, keys),
   out |-> [ada |-> PaidAda(s), tok |-> PaidTok(s)],
   rest |-> [ada |-> Total(keys).ada - PaidAda(s),
             tok |-> IF Total(keys).tok > PaidTok(s) THEN Total(keys).tok - PaidTok(s) ELSE 0]]

\* The transaction that is built of it: it lives for the configured time from the slot
\* BuildTx asked for.
genTxBuilder(raw) ==
  [swap |-> raw.swap, ins |-> raw.ins, mint |-> raw.mint, out |-> raw.out, change |-> raw.rest,
   ttl |-> slot + TxTimeout]

\* The fee is known once the transaction is built, and is taken off the change.
buildTxAndAdjustRestAda(tx) == [tx EXCEPT !.change.ada = @ - Fee]

CreateRawTx(s, keys) == buildTxAndAdjustRestAda(genTxBuilder(BuildTx(s, keys)))

BuildRawTransaction(s, keys) ==
  /\ Len(txs) < MaxTxs
  /\ keys \in Inputs(s)
  /\ CanBuild(s, keys)
  /\ txs' = Append(txs, CreateRawTx(s, keys))
  /\ mined' = Append(mined, 0)

\* SetTxTimeout: the time to live the documents keep, 0 for none.
RecordedTTL(i) == IF txs[i].swap \in NoTTL THEN 0 ELSE txs[i].ttl

\* The nodes check the transaction the server shows them instead of building one.
VerifyRawTransaction(i) ==
  LET t == txs[i] IN
  IF t.out.tok = 0 THEN t.out.ada <= Value[t.swap]
  ELSE t.out.ada <= DefaultAdaAmount /\ t.out.tok <= Value[t.swap]

\* MPCSignTransaction gets a signature when the nodes accept the transaction.  It is taken by
\* its length, and with a wrong one the submission fails, as it may for other reasons.
MPCSignTransaction(i) == VerifyRawTransaction(i)

\* SendTransaction: after a successful submission the change of the transaction is what
\* the next payout is built on, and its inputs are remembered as spent.
SendTransaction(i) ==
  \/ /\ Acceptable(i)
     /\ pool' = pool \cup {i}
     /\ chaining' = i
     /\ spent' = spent \cup txs[i].ins
     /\ spentBy' = spentBy \cup {i}
  \/ /\ Acceptable(i)          \* the submission times out, but a node took it
     /\ pool' = pool \cup {i}
     /\ UNCHANGED cacheVars
  \/ UNCHANGED <<pool, cacheVars>>

\* ClearTransactionChainingKeyCache, called when a looked up transaction is final.
ClearTransactionChainingKeyCache(i) ==
  IF i \in spentBy /\ slot - mined[i] > Confirmations
  THEN spent' = spent \ txs[i].ins /\ spentBy' = spentBy \ {i}
  ELSE UNCHANGED <<spent, spentBy>>

-----------------------------------------------------------------------------
(* The swap job (worker/swap.go). *)

SwapBuild(s) ==
  /\ consumer.pc = "idle"
  /\ s \notin processed
  /\ res[s].status = "MatchTxEmpty" /\ res[s].swaptx = 0
  /\ \E keys \in SUBSET QueryUtxo(s) : BuildRawTransaction(s, keys)
  /\ consumer' = [pc |-> "sign", tx |-> Len(txs) + 1]
  /\ UNCHANGED <<pool, slot, res, processed, cacheVars, reswapQueue, signing, loops,
                 list, stable, faults>>

\* updateRouterSwapResult with the hash of a new transaction: refused when there is one.
CanRecord(r) == r.swaptx = 0 /\ r.status # "MatchTxStable"

Record(r, i) ==
  [r EXCEPT !.status = "MatchTxNotStable", !.swaptx = i,
            !.ttl = IF RecordedTTL(i) > 0 THEN RecordedTTL(i) ELSE @]

\* The signature arrives, the result is checked again and the two documents are updated;
\* or there is no signature.
SwapSign ==
  /\ consumer.pc = "sign"
  /\ LET s == txs[consumer.tx].swap IN
     \/ /\ MPCSignTransaction(consumer.tx)
        /\ res[s].status = "MatchTxEmpty" /\ CanRecord(res[s])
        /\ res' = [res EXCEPT ![s] = Record(@, consumer.tx)]
        /\ processed' = processed \cup {s}
        /\ consumer' = [consumer EXCEPT !.pc = "send"]
     \/ consumer' = [pc |-> "idle", tx |-> 0] /\ UNCHANGED <<res, processed>>
  /\ UNCHANGED <<txs, chainVars, cacheVars, reswapQueue, signing, loops, list, stable,
                 faults>>

\* A transaction sent with success is sent again by a goroutine until it is on chain.
Sent(i) == loops' = IF chaining' = i THEN loops \cup {i} ELSE loops

SwapSend ==
  /\ consumer.pc = "send"
  /\ SendTransaction(consumer.tx)
  /\ Sent(consumer.tx)
  /\ consumer' = [pc |-> "idle", tx |-> 0]
  /\ UNCHANGED <<txs, mined, slot, res, processed, reswapQueue, signing, list,
                 stable, faults>>

\* getSwapTxStatus: the transactions of a document that are on chain.
Lookup(r) == ({r.swaptx} \cup r.old) \cap Mined

\* A round of sendTxLoopUntilSuccess: nothing is on chain, send again.
LoopSend(i) ==
  /\ i \in loops
  /\ Lookup(res[txs[i].swap]) = {}
  /\ SendTransaction(i)
  /\ loops' = loops
  /\ UNCHANGED <<txs, mined, slot, res, processed, consumer, reswapQueue, signing,
                 list, stable, faults>>

\* A payout is found and recorded, under the hash of this transaction unless the last
\* attempt to send it again failed; or it was the last round.
LoopSee(i) ==
  /\ i \in loops
  /\ LET s == txs[i].swap IN
     \/ \E j \in Lookup(res[s]), hash \in {i, res[s].swaptx} :
          /\ res' = [res EXCEPT ![s] = IF @.status = "MatchTxStable" THEN @
                                      ELSE [@ EXCEPT !.swaptx = hash, !.height = mined[j]]]
          /\ ClearTransactionChainingKeyCache(j)
     \/ Lookup(res[s]) = {} /\ UNCHANGED <<res, spent, spentBy>>   \* the last round
  /\ loops' = loops \ {i}
  /\ UNCHANGED <<txs, chainVars, processed, chaining, consumer, reswapQueue, signing, list,
                 stable, faults>>

-----------------------------------------------------------------------------
(* The stable job, for a chain with reswaps (worker/stable.go). *)

FindRouterSwapResultsToStable == {r \in {res[s] : s \in Swaps} : r.status = "MatchTxNotStable"}

StableFind ==
  /\ list = {}
  /\ list' = FindRouterSwapResultsToStable
  /\ list' # {}
  /\ UNCHANGED <<txs, chainVars, res, processed, cacheVars, consumer, reswapQueue, signing,
                 loops, stable, faults>>

\* A snapshot is queued, unless there is a task of the swap in the queue.
StableDispatch(r) ==
  /\ r \in list
  /\ list' = list \ {r}
  /\ stable' = IF \E task \in stable : task.snap.swap = r.swap THEN stable
               ELSE stable \cup {[pc |-> "queued", snap |-> r, found |-> 0]}
  /\ UNCHANGED <<txs, chainVars, res, processed, cacheVars, consumer, reswapQueue, signing,
                 loops, faults>>

\* getSwapTxStatus on the snapshot, for a result whose height is not recent.
StableLook(task) ==
  /\ task \in stable /\ task.pc = "queued"
  /\ \A other \in stable : other.pc = "queued"
  /\ IF task.snap.height # 0 /\ task.snap.height + Confirmations > slot
     THEN stable' = stable \ {task} /\ UNCHANGED <<spent, spentBy>>
     ELSE \/ \E i \in Lookup(task.snap) :
               /\ task.snap.swaptx \in Mined => i = task.snap.swaptx
               /\ stable' = IF task.snap.height # 0 /\ slot - mined[i] < Confirmations
                             THEN stable \ {task}     \* not confirmed yet
                             ELSE (stable \ {task})
                                    \cup {[task EXCEPT !.pc = "looked", !.found = i]}
               /\ ClearTransactionChainingKeyCache(i)
          \/ /\ Lookup(task.snap) = {}
             /\ stable' = (stable \ {task}) \cup {[task EXCEPT !.pc = "looked"]}
             /\ UNCHANGED <<spent, spentBy>>
  /\ UNCHANGED <<txs, chainVars, res, processed, chaining, consumer, reswapQueue, signing,
                 loops, list, faults>>

\* GetCurrentThreshold and IsTxTimeout.
IsTxTimeout(ttl) == ttl > 0 /\ slot - Confirmations > ttl

\* reswapIfTimeout: by the time to live of the snapshot, whatever the result holds by now.
reswapIfTimeout(r) ==
  res' = IF IsTxTimeout(r.ttl) THEN [res EXCEPT ![r.swap].status = "TxNeedReswap"] ELSE res

\* The height of a payout, and its hash if it is not the one of the snapshot.
StableRecord(r, i) ==
  res' = [res EXCEPT ![r.swap] =
            IF @.status = "MatchTxStable" THEN @
            ELSE [@ EXCEPT !.height = mined[i],
                           !.swaptx = IF i = r.swaptx THEN res[r.swap].swaptx ELSE i]]

\* updateSwapTx and markSwapResultStable
StableMark(r, i) ==
  LET known == i = r.swaptx \/ res[r.swap].status = "MatchTxStable"
  IN res' = [res EXCEPT ![r.swap].status = "MatchTxStable",
                        ![r.swap].swaptx = IF known THEN @ ELSE i]

StableDecide(task) ==
  /\ task \in stable /\ task.pc = "looked"
  /\ stable' = stable \ {task}
  /\ \/ task.found = 0 /\ task.snap.height = 0 /\ reswapIfTimeout(task.snap)
     \/ task.found = 0 /\ task.snap.height # 0 /\ UNCHANGED res
     \/ task.found # 0 /\ task.snap.height = 0 /\ StableRecord(task.snap, task.found)
     \/ task.found # 0 /\ task.snap.height # 0 /\ StableMark(task.snap, task.found)
  /\ UNCHANGED <<txs, chainVars, processed, cacheVars, consumer, reswapQueue, signing, loops,
                 list, faults>>

-----------------------------------------------------------------------------
(* The reswap job (worker/reswap.go). *)

ReswapDispatch(s) ==
  /\ res[s].status = "TxNeedReswap"
  /\ \A r \in reswapQueue : r.swap # s
  /\ reswapQueue' = reswapQueue \cup {res[s]}
  /\ UNCHANGED <<txs, chainVars, res, processed, cacheVars, consumer, signing, loops, list,
                 stable, faults>>

\* verifyReswapSwap: the register document is read again, the snapshot is not.
verifyReswapSwap(r) == r.swap \in processed /\ r.swaptx \notin Mined

\* reswapRouterSwap: the goroutine that signs goes on when the key has left the queue.
ReswapBuild(r) ==
  /\ r \in reswapQueue
  /\ reswapQueue' = reswapQueue \ {r}
  /\ verifyReswapSwap(r)
  /\ \E keys \in SUBSET QueryUtxo(r.swap) : BuildRawTransaction(r.swap, keys)
  /\ signing' = signing \cup {[pc |-> "sign", tx |-> Len(txs) + 1]}
  /\ UNCHANGED <<pool, slot, res, processed, cacheVars, consumer, loops, list,
                 stable, faults>>

\* The payout is on chain, or the transaction cannot be built.
ReswapDrop(r) ==
  /\ r \in reswapQueue
  /\ ~verifyReswapSwap(r) \/ ~\E keys \in Inputs(r.swap) : CanBuild(r.swap, keys)
  /\ reswapQueue' = reswapQueue \ {r}
  /\ UNCHANGED <<txs, chainVars, res, processed, cacheVars, consumer, signing, loops, list,
                 stable, faults>>

Advance(g, pc) == signing' = (signing \ {g}) \cup {[g EXCEPT !.pc = pc]}

\* Mutation: only the transaction that is replaced joins the old ones.
UpdateRouterOldSwapTxs_NoPush(r, i) ==
  IF i \in {r.swaptx} \cup r.old THEN r
  ELSE [r EXCEPT !.swaptx = IF r.status = "TxNeedReswap" THEN 0 ELSE i, !.old = @ \cup {r.swaptx}]

\* UpdateRouterOldSwapTxs: a result that waits for its reswap loses its swaptx.
UpdateRouterOldSwapTxs(r, i) ==
  IF i \in {r.swaptx} \cup r.old THEN r
  ELSE [r EXCEPT
         !.swaptx = CASE r.status = "TxNeedReswap" -> 0
                      [] r.status = "MatchTxStable" -> @
                      [] OTHER -> i,
         !.old = IF @ = {} THEN {r.swaptx, i} ELSE @ \cup {i}]

\* The signature arrives and the hash joins the old ones; or there is no signature.
ReswapSign(g) ==
  /\ g \in signing /\ g.pc = "sign"
  /\ \/ /\ MPCSignTransaction(g.tx)
        /\ res' = [res EXCEPT ![txs[g.tx].swap] = UpdateRouterOldSwapTxs(@, g.tx)]
        /\ Advance(g, "update")
     \/ signing' = signing \ {g} /\ UNCHANGED res
  /\ UNCHANGED <<txs, chainVars, processed, cacheVars, consumer, reswapQueue, loops, list,
                 stable, faults>>

\* updateRouterSwapResult: nothing is sent unless it records the hash, or the result is
\* stable and the update is ignored without an error.
ReswapUpdate(g) ==
  /\ g \in signing /\ g.pc = "update"
  /\ LET r == res[txs[g.tx].swap] IN
     CASE r.status = "MatchTxStable" -> Advance(g, "send") /\ UNCHANGED res
       [] CanRecord(r) -> Advance(g, "send") /\ res' = [res EXCEPT ![r.swap] = Record(@, g.tx)]
       [] OTHER -> signing' = signing \ {g} /\ UNCHANGED res
  /\ UNCHANGED <<txs, chainVars, processed, cacheVars, consumer, reswapQueue, loops, list,
                 stable, faults>>

ReswapSend(g) ==
  /\ g \in signing /\ g.pc = "send"
  /\ SendTransaction(g.tx)
  /\ Sent(g.tx)
  /\ signing' = signing \ {g}
  /\ UNCHANGED <<txs, mined, slot, res, processed, consumer, reswapQueue, list,
                 stable, faults>>

-----------------------------------------------------------------------------
\* A restart of the server keeps the documents and nothing else.
Restart ==
  /\ faults < MaxFaults
  /\ faults' = faults + 1
  /\ chaining' = 0 /\ spent' = {} /\ spentBy' = {}
  /\ consumer' = [pc |-> "idle", tx |-> 0]
  /\ reswapQueue' = {} /\ signing' = {} /\ loops' = {} /\ list' = {} /\ stable' = {}
  /\ UNCHANGED <<txs, chainVars, res, processed>>

Next ==
  \/ \E i \in Ids : Mine(i) \/ Lose(i) \/ LoopSend(i) \/ LoopSee(i)
  \/ Tick \/ Restart
  \/ SwapSign \/ SwapSend
  \/ StableFind
  \/ \E r \in list : StableDispatch(r)
  \/ \E task \in stable : StableLook(task) \/ StableDecide(task)
  \/ \E s \in Swaps : SwapBuild(s) \/ ReswapDispatch(s)
  \/ \E r \in reswapQueue : ReswapBuild(r) \/ ReswapDrop(r)
  \/ \E g \in signing : ReswapSign(g) \/ ReswapUpdate(g) \/ ReswapSend(g)

Spec == Init /\ [][Next]_cardanoVars

-----------------------------------------------------------------------------
(* Properties *)

\* A transaction a node holds or that is on chain is known to the result of its swap, so
\* that the jobs look it up: UpdateRouterOldSwapTxs before every transaction of a reswap.
ReswapTxTracked ==
  \A i \in pool \cup Mined :
    LET r == res[txs[i].swap] IN i \in {r.swaptx} \cup r.old

\* What a transaction spends and mints is what it pays, the fee, and the change the server
\* builds the next payout on before anything is confirmed.
ChangeIsReal ==
  \A i \in Ids :
    LET t == txs[i] IN
    /\ t.change.ada >= 0 /\ t.change.tok >= 0
    /\ Total(t.ins).ada = t.out.ada + t.change.ada + Fee
    /\ Total(t.ins).tok + t.mint = t.out.tok + t.change.tok

=============================================================================
