------------------------------- MODULE SwapJob -------------------------------
(***************************************************************************)
(* The swap job (worker/swap.go): the producer that picks registered swaps,*)
(* the consumer that builds, signs, records and sends the payout, and the  *)
(* sending of a signed transaction (worker/common.go).                     *)
(*                                                                         *)
(* One consumer per destination chain runs doSwap to its end before it     *)
(* takes the next task.  doSwap's steps are separate actions: the producer,*)
(* the other jobs, the administrator and the chain run between them.  With *)
(* parallel signing the consumer only allocates the nonce and leaves       *)
(* signing and sending to a goroutine.                                     *)
(*                                                                         *)
(* The MPC signature is external: it succeeds or fails.  The queue is a    *)
(* set: the order of its tasks is left open.                               *)
(*                                                                         *)
(* Like the stable and the replace job, the producer first adds the task to*)
(* the queue and then its key to the set of keys in the queue.  Only the   *)
(* producer looks at the key, when it comes to the swap again, so it does  *)
(* not matter when the key is added, unless the consumer is done with the  *)
(* task between the two calls: it removes a key that is not there yet, and *)
(* the key that is added then stays.  The job ignores the swap until the   *)
(* server is started again.                                                *)
(***************************************************************************)
EXTENDS SwapRegister, DstChain

CONSTANTS
  Parallel,                  \* config EnableParallelSwap
  IncreaseNonceWhenSendTx,   \* config: count the nonce as used even if sending failed
  SendTxLoop,                \* config SendTxLoopCount >= 0: send again until mined
  maxCachedSwapTasks,        \* size of cachedSwapTasks
  SlowProducers,             \* jobs a consumer may overtake between the producer's two calls
  MaxTxs                     \* bound on the number of signed transactions

Jobs == {"swap", "stable", "replace"}

ASSUME SwapJobAssumption ==
  /\ Parallel \in BOOLEAN
  /\ IncreaseNonceWhenSendTx \in BOOLEAN
  /\ SendTxLoop \in BOOLEAN
  /\ SlowProducers \subseteq Jobs
  /\ MaxTxs \in Nat

VARIABLES
  foundSwaps,  \* swaps the producer found in this round and has not looked at yet
  cached,      \* cachedSwapTasks
  swapTasks,   \* tasks in the queue, the one being processed included
  inQueue,     \* swapTasksInQueue, stableTasksInQueue and replaceTasksInQueue
  adding,      \* the task a producer has just queued: its key may not be added yet
  doPc,        \* the next step of the consumer in doSwap
  doTx,        \* the transaction the consumer works on
  swapNonce,   \* the MPC account's next nonce as the nonce setter counts it
  recycleNonce, \* a nonce of the account that was given up; 0 is none
  txCount,     \* number of transactions signed so far
  signing,     \* transactions signAndSendTx goroutines are signing (parallel)
  sending,     \* signed and recorded transactions goroutines are about to send
  loops,       \* transactions a sendTxLoopUntilSuccess goroutine watches
  loopSeen     \* ... after it saw one of the swap's transactions on chain

queueVars == <<inQueue, adding>>
taskVars == <<swapTasks, queueVars>>
swapVars == <<foundSwaps, cached, swapTasks, doPc, doTx, swapNonce, recycleNonce, txCount>>
sendVars == <<signing, sending, loops, loopSeen>>

SwapJobInit ==
  /\ foundSwaps = {}
  /\ cached = {}
  /\ swapTasks = {}
  /\ inQueue = [job \in Jobs |-> {}]
  /\ adding = [job \in Jobs |-> {}]
  /\ doPc = "idle"
  /\ doTx = NoTx
  /\ swapNonce = FirstNonce
  /\ recycleNonce = 0
  /\ txCount = 0
  /\ signing = {}
  /\ sending = {}
  /\ loops = {}
  /\ loopSeen = {}

\* Mutation: replaced transactions are not looked up.
getSwapTxStatus_LastOnly(r) == IF OnChain(r.swaptx) THEN {r.swaptx} ELSE {}

\* getSwapTxStatus: the known transactions found on chain; none is the empty set.
getSwapTxStatus(r) ==
  IF OnChain(r.swaptx) THEN {r.swaptx} ELSE {tx \in r.old : OnChain(tx)}

\* NonceSetterBase.AdjustNonce and SetNonce.
AdjustNonce(old, value) ==
  IF value > 2 * old + 1000 THEN old ELSE IF old > value THEN old ELSE value

SetNonce(old, value) == IF old < value THEN value ELSE old

-----------------------------------------------------------------------------
(* The keys of the tasks in the queue of a job *)

\* taskQueue.Add and then swapTasksInQueue.Add.
QueueTask(job, s) ==
  /\ inQueue' = [inQueue EXCEPT ![job] = @ \cup {s}]
  /\ adding' = [adding EXCEPT ![job] = IF job \in SlowProducers THEN {s} ELSE {}]

\* The producer goes on to another swap: it has added the key.
MovesOn(job) ==
  /\ adding' = [adding EXCEPT ![job] = {}]
  /\ UNCHANGED inQueue

\* swapTasksInQueue.Remove, when the consumer is done with the task: before the producer
\* added the key, or after.
RemoveKey(job, s) ==
  /\ adding' = [adding EXCEPT ![job] = @ \ {s}]
  /\ \/ inQueue' = [inQueue EXCEPT ![job] = @ \ {s}]
     \/ s \in adding[job] /\ UNCHANGED inQueue

-----------------------------------------------------------------------------
(* The producer *)

\* processNonEmptySwapResult: something was already done for this result.
AlreadySwapped(r) ==
  \/ r.nonce > 0
  \/ ~isPendingSwapStatus(r.status)
  \/ r.swaptx # NoTx
  \/ r.height
  \/ r.old # {}

\* A round of the producer starts with the list of swaps in status TxNotSwapped; by
\* the time a swap of the list is looked at its documents may have changed.
SwapFind ==
  /\ foundSwaps = {}
  /\ foundSwaps' = FindRouterSwapsWithStatus("TxNotSwapped")
  /\ foundSwaps' # {}
  /\ MovesOn("swap")
  /\ UNCHANGED <<dbVars, cached, swapTasks, doPc, doTx, swapNonce, recycleNonce, txCount, sendVars>>

FromList(s) == s \in foundSwaps /\ foundSwaps' = foundSwaps \ {s}

\* "ignore swap in queue", "ignore swap in cache".
Ignored(s) == s \in inQueue["swap"] \cup cached

SwapIgnore(s) ==
  /\ FromList(s)
  /\ Ignored(s)
  /\ MovesOn("swap")
  /\ UNCHANGED <<dbVars, cached, swapTasks, doPc, doTx, swapNonce, recycleNonce, txCount, sendVars>>

\* processRouterSwap and dispatchSwapTask.
SwapDispatch(s) ==
  /\ FromList(s)
  /\ ~Ignored(s)
  /\ ResultExists(res[s])
  /\ IF AlreadySwapped(res[s])
       THEN SetReg(s, "TxProcessed") /\ MovesOn("swap") /\ UNCHANGED swapTasks
       ELSE swapTasks' = swapTasks \cup {s} /\ QueueTask("swap", s) /\ UNCHANGED reg
  /\ UNCHANGED <<res, cached, doPc, doTx, swapNonce, recycleNonce, txCount, sendVars>>

SwapNoResult(s) ==
  /\ FromList(s)
  /\ ~Ignored(s)
  /\ ~ResultExists(res[s])
  /\ SetReg(s, "TxNotStable")
  /\ MovesOn("swap")
  /\ UNCHANGED <<res, cached, swapTasks, doPc, doTx, swapNonce, recycleNonce, txCount, sendVars>>

SwapBlacked(s) ==
  /\ s \in BlackList
  /\ FromList(s)
  /\ ~Ignored(s)
  /\ SetReg(s, "SwapInBlacklist")
  /\ SetResStatus(s, "SwapInBlacklist")
  /\ MovesOn("swap")
  /\ UNCHANGED <<cached, swapTasks, doPc, doTx, swapNonce, recycleNonce, txCount, sendVars>>

-----------------------------------------------------------------------------
(* The consumer: doSwap *)

\* Mutation: a failed swap stays in the cache.
Finish_KeepsCache(s, processed) ==
  doPc' = "idle" /\ doTx' = NoTx /\ swapTasks' = swapTasks \ {s} /\ RemoveKey("swap", s) /\ UNCHANGED cached

\* The end of doSwap; a swap that was not recorded leaves the cache.
Finish(s, processed) ==
  /\ doPc' = "idle"
  /\ doTx' = NoTx
  /\ swapTasks' = swapTasks \ {s}
  /\ RemoveKey("swap", s)
  /\ cached' = IF processed THEN cached ELSE cached \ {s}

DoSwapBuild(s) ==
  /\ ~Parallel
  /\ doPc = "idle"
  /\ s \in swapTasks \ cached
  /\ cached' \in CacheAdd(cached, s, maxCachedSwapTasks)
  /\ \E poolNonce \in PoolNonces :
       LET nonce == AdjustNonce(swapNonce, poolNonce) IN
         /\ nonce <= MaxNonce
         /\ doTx' = [swap |-> s, nonce |-> nonce, id |-> 0]
  /\ doPc' = "sign"
  /\ UNCHANGED <<dbVars, taskVars, swapNonce, recycleNonce, txCount, sendVars>>

\* Building fails: the task is dropped and found again later.
DoSwapBuildFails(s) ==
  /\ doPc = "idle"
  /\ s \in swapTasks \ cached
  /\ \E c \in CacheAdd(cached, s, maxCachedSwapTasks) : cached' = c \ {s}
  /\ swapTasks' = swapTasks \ {s}
  /\ RemoveKey("swap", s)
  /\ UNCHANGED <<dbVars, doPc, doTx, swapNonce, recycleNonce, txCount, sendVars>>

\* Signing fails; a swap that is verified again meanwhile is as it was.
DoSwapSignFails ==
  /\ doPc \in {"sign", "reverify"}
  /\ Finish(doTx.swap, FALSE)
  /\ UNCHANGED <<dbVars, swapNonce, recycleNonce, txCount, sendVars>>

\* The MPC nodes disagree: a swap whose result is pending is verified once more.  (The other
\* callers of reverifySwap sign for results that have a nonce and are not pending.)
DoSwapDisagree ==
  /\ doPc = "sign"
  /\ VerifyErrors # {}
  /\ ResultExists(res[doTx.swap]) => isPendingSwapStatus(res[doTx.swap].status)
  /\ doPc' = "reverify"
  /\ UNCHANGED <<dbVars, cached, taskVars, doTx, swapNonce, recycleNonce, txCount, sendVars>>

\* It is refused: the result is TxNotStable, and the register document cannot be.
reverifySwap ==
  /\ doPc = "reverify"
  /\ SetReg(doTx.swap, "TxNotStable")
  /\ SetResStatus(doTx.swap, "TxNotStable")
  /\ Finish(doTx.swap, FALSE)
  /\ UNCHANGED <<swapNonce, recycleNonce, txCount, sendVars>>

DoSwapSign ==
  /\ doPc = "sign"
  /\ txCount < MaxTxs
  /\ txCount' = txCount + 1
  /\ doTx' = [doTx EXCEPT !.id = txCount + 1]
  /\ doPc' = "recheck"
  /\ UNCHANGED <<dbVars, cached, taskVars, swapNonce, recycleNonce, sendVars>>

\* Signing takes long: read the result again before it is updated.
DoSwapRecheck ==
  /\ doPc = "recheck"
  /\ IF ResultExists(res[doTx.swap]) /\ ~AlreadySwapped(res[doTx.swap])
       THEN doPc' = "update" /\ UNCHANGED <<reg, doTx, taskVars, cached>>
       ELSE /\ SetReg(doTx.swap, "TxProcessed")
            /\ Finish(doTx.swap, FALSE)
  /\ UNCHANGED <<res, swapNonce, recycleNonce, txCount, sendVars>>

DoSwapUpdateResult ==
  LET s == doTx.swap
      u == Update("MatchTxNotStable", doTx, FALSE, doTx.nonce)
  IN /\ doPc = "update"
     /\ res' = [res EXCEPT ![s] = UpdateRouterSwapResult(@, u)]
     /\ IF CanUpdateRouterSwapResult(res[s], u)
          THEN doPc' = "status" /\ UNCHANGED <<doTx, taskVars, cached>>
          ELSE Finish(s, FALSE)
     /\ UNCHANGED <<reg, swapNonce, recycleNonce, txCount, sendVars>>

DoSwapUpdateStatus ==
  /\ doPc = "status"
  /\ SetReg(doTx.swap, "TxProcessed")
  /\ doPc' = "send"
  /\ UNCHANGED <<res, cached, taskVars, doTx, swapNonce, recycleNonce, txCount, sendVars>>

\* sendSignedTransaction.  An error does not say that no node took the transaction.
SendSigned(tx, reached, ok) ==
  /\ ok => reached
  /\ pool' = IF reached THEN pool \cup {tx} ELSE pool
  /\ swapNonce' = IF ~Parallel /\ (ok \/ IncreaseNonceWhenSendTx)
                    THEN SetNonce(swapNonce, tx.nonce + 1) ELSE swapNonce
  /\ loops' = IF ok /\ SendTxLoop THEN loops \cup {tx} ELSE loops
  /\ UNCHANGED <<minedOk, minedFail, chainNonce, recycleNonce>>

DoSwapSend(reached, ok) ==
  /\ doPc = "send"
  /\ SendSigned(doTx, reached, ok)
  /\ Finish(doTx.swap, TRUE)
  /\ UNCHANGED <<dbVars, txCount, signing, sending, loopSeen>>

-----------------------------------------------------------------------------
(* doSwapParallel and signAndSendTx *)

\* AllocateNonce: a recycled nonce, once it has waited long enough, or the next one.
AllocateNonce(nonce) ==
  \/ /\ recycleNonce # 0
     /\ nonce = recycleNonce
     /\ recycleNonce' = 0
     /\ UNCHANGED swapNonce
  \/ /\ swapNonce <= MaxNonce
     /\ nonce = swapNonce
     /\ swapNonce' = swapNonce + 1
     /\ UNCHANGED recycleNonce

\* BuildRawTransaction allocates the nonce in the database: AllocateRouterSwapNonce.
DoSwapParallel(s) ==
  /\ Parallel
  /\ s \in swapTasks \ cached
  /\ CanAllocateRouterSwapNonce(res[s])
  /\ txCount < MaxTxs
  /\ cached' \in CacheAdd(cached, s, maxCachedSwapTasks)
  /\ swapTasks' = swapTasks \ {s}
  /\ RemoveKey("swap", s)
  /\ \E nonce \in {swapNonce, recycleNonce} :
       /\ AllocateNonce(nonce)
       /\ res' = [res EXCEPT ![s] = AllocateRouterSwapNonce(@, nonce)]
       /\ signing' = signing \cup {[swap |-> s, nonce |-> nonce, id |-> txCount + 1]}
  /\ SetReg(s, "TxProcessed")
  /\ txCount' = txCount + 1
  /\ UNCHANGED <<doPc, doTx, sending, loops, loopSeen>>

SignParallelFails(tx) ==
  /\ tx \in signing
  /\ signing' = signing \ {tx}
  /\ UNCHANGED <<dbVars, swapVars, queueVars, sending, loops, loopSeen>>

\* Mutation: the signed transaction is sent and not recorded.
SignParallel_Unrecorded(tx) ==
  /\ tx \in signing
  /\ signing' = signing \ {tx}
  /\ sending' = sending \cup {tx}
  /\ UNCHANGED <<dbVars, swapVars, queueVars, loops, loopSeen>>

\* The transaction is written over the one in the result document.
SignParallel(tx) ==
  /\ tx \in signing
  /\ signing' = signing \ {tx}
  /\ res' = [res EXCEPT ![tx.swap] =
               UpdateRouterSwapResult(@, Update("KeepStatus", tx, FALSE, 0))]
  /\ sending' = sending \cup {tx}
  /\ UNCHANGED <<reg, swapVars, queueVars, loops, loopSeen>>

SendParallel(tx, reached, ok) ==
  /\ tx \in sending
  /\ sending' = sending \ {tx}
  /\ SendSigned(tx, reached, ok)
  /\ UNCHANGED <<dbVars, cached, taskVars, doPc, doTx, txCount, signing, loopSeen>>

-----------------------------------------------------------------------------
(* sendTxLoopUntilSuccess: watch the swap, then record the block *)

LoopSee(tx) ==
  /\ tx \in loops
  /\ getSwapTxStatus(res[tx.swap]) # {}
  /\ loops' = loops \ {tx}
  /\ loopSeen' = loopSeen \cup {tx}
  /\ UNCHANGED <<dbVars, swapVars, queueVars, signing, sending>>

\* The hash is its own, or empty when sending it once more failed.
LoopRecord(tx, hash) ==
  /\ tx \in loopSeen
  /\ loopSeen' = loopSeen \ {tx}
  /\ res' = [res EXCEPT ![tx.swap] =
               UpdateRouterSwapResult(@, Update("KeepStatus", hash, TRUE, 0))]
  /\ UNCHANGED <<reg, swapVars, queueVars, signing, sending, loops>>

LoopGiveUp(tx) ==
  /\ tx \in loops
  /\ loops' = loops \ {tx}
  /\ UNCHANGED <<dbVars, swapVars, queueVars, signing, sending, loopSeen>>

-----------------------------------------------------------------------------
ProduceStep ==
  \/ SwapFind
  \/ \E s \in Swaps : SwapIgnore(s) \/ SwapDispatch(s) \/ SwapNoResult(s) \/ SwapBlacked(s)

ConsumeStep ==
  \/ \E s \in Swaps : DoSwapBuild(s) \/ DoSwapBuildFails(s) \/ DoSwapParallel(s)
  \/ DoSwapSignFails
  \/ DoSwapDisagree
  \/ reverifySwap
  \/ DoSwapSign
  \/ DoSwapRecheck
  \/ DoSwapUpdateResult
  \/ DoSwapUpdateStatus
  \/ \E tx \in signing : SignParallelFails(tx) \/ SignParallel(tx)
  \/ \E tx \in loops : LoopSee(tx) \/ LoopGiveUp(tx)
  \/ \E tx \in loopSeen, h \in {TRUE, FALSE} : LoopRecord(tx, IF h THEN tx ELSE NoTx)

SendStep ==
  \E reached, ok \in BOOLEAN :
    \/ DoSwapSend(reached, ok)
    \/ \E tx \in sending : SendParallel(tx, reached, ok)

SwapJobNext ==
  \/ ProduceStep /\ UNCHANGED chainVars
  \/ ConsumeStep /\ UNCHANGED <<foundSwaps, chainVars>>
  \/ SendStep /\ UNCHANGED foundSwaps

\* The consumer has recorded its transaction and will send it.
DoSending == IF doPc \in {"status", "send"} THEN {doTx} ELSE {}

QueueTypeOK ==
  /\ inQueue \in [Jobs -> SUBSET Swaps]
  /\ adding \in [Jobs -> SUBSET Swaps]

SwapJobTypeOK ==
  /\ foundSwaps \subseteq Swaps
  /\ cached \subseteq Swaps
  /\ swapTasks \subseteq Swaps
  /\ doPc \in {"idle", "sign", "reverify", "recheck", "update", "status", "send"}
  /\ doTx \in Tx \cup {NoTx}
  /\ doPc # "idle" => doTx \in Tx
  /\ swapNonce \in Nat
  /\ recycleNonce \in Nat
  /\ txCount \in Nat
  /\ signing \subseteq Tx
  /\ sending \subseteq Tx
  /\ loops \subseteq Tx
  /\ loopSeen \subseteq Tx

=============================================================================
