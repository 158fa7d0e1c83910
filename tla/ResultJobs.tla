----------------------------- MODULE ResultJobs -----------------------------
(***************************************************************************)
(* The jobs that follow a payout: the stable job (worker/stable.go), the   *)
(* replace job (worker/replace.go) and the check failed swap job           *)
(* (worker/checkfailedswap.go).                                            *)
(*                                                                         *)
(* A producer reads the result documents with some status and puts each in *)
(* a queue unless its key is already there; any time later a consumer works*)
(* on the document as it was read, a snapshot (on the keys see SwapJob).   *)
(* Each swap is in a queue at most once, so a queue is a function from     *)
(* swaps to snapshots; the order of its tasks is left open.  Marking a result is the last of several     *)
(* database calls of its task, and a step of its own (a task with a mark). *)
(*                                                                         *)
(* Waiting times and confirmations are nondeterministic choices.           *)
(***************************************************************************)
EXTENDS SwapJob

CONSTANTS
  EnableReplaceSwap,     \* config: run the replace job
  maxReplaceCount,       \* config MaxReplaceCount
  maxReplaceDistance     \* config MaxReplaceDistance

ASSUME ResultJobsAssumption ==
  /\ EnableReplaceSwap \in BOOLEAN
  /\ maxReplaceCount \in Nat
  /\ maxReplaceDistance \in Nat

VARIABLES
  stableTask,     \* snapshots in the stable queue, or being processed
  replaceTask,    \* snapshots in the replace queue, or being processed
  replacing,      \* replacement transactions being signed
  failedFound     \* snapshots in the check failed swap job's list

replaceVars == <<replaceTask, replacing>>

NoMark == "None"
NoTask == [snap |-> NoResult, mark |-> NoMark]
Queued(r) == [snap |-> r, mark |-> NoMark]
ToMark(task, status) == [task EXCEPT !.mark = status]

Tasks == [snap : SwapResults, mark : {NoMark, "MatchTxStable", "MatchTxFailed"}]

ResultJobsInit ==
  /\ stableTask = [s \in Swaps |-> NoTask]
  /\ replaceTask = [s \in Swaps |-> NoTask]
  /\ replacing = {}
  /\ failedFound = [s \in Swaps |-> NoResult]

\* Mutation: off by one in the comparison of the nonces.
NonceHasPassed_OffByOne(r) ==
  getSwapTxStatus(r) = {} /\ chainNonce > r.nonce + 1 /\ r.nonce > 0

\* checkIfSwapNonceHasPassed: the account went past the nonce and no known
\* transaction is on chain.  The account's nonce is read before the transactions.
NonceHasPassed(r) ==
  /\ getSwapTxStatus(r) = {}
  /\ chainNonce > r.nonce
  /\ r.nonce > 0

\* A passed nonce fails the result, unless a fresh read shows it is being reswapped.
MayMarkFailed(s) == ResultExists(res[s]) /\ res[s].status # "Reswapping"

-----------------------------------------------------------------------------
(* The stable job *)

StableDispatch(s) ==
  /\ s \in FindRouterSwapResultsWithStatus("MatchTxNotStable")
  /\ s \notin inQueue["stable"]
  /\ stableTask' = [stableTask EXCEPT ![s] = Queued(res[s])]
  /\ QueueTask("stable", s)
  /\ UNCHANGED dbVars

StableQueued(s) == stableTask[s] # NoTask /\ stableTask[s].mark = NoMark

\* startStableConsumer, when a task is done.
StableDone(s) ==
  /\ stableTask' = [stableTask EXCEPT ![s] = NoTask]
  /\ RemoveKey("stable", s)

StableTo(s, status) ==
  /\ stableTask' = [stableTask EXCEPT ![s] = ToMark(@, status)]
  /\ UNCHANGED queueVars

\* Nothing to do yet: too few confirmations, or not on chain and the nonce not passed.
StableWait(s) ==
  LET r == stableTask[s].snap IN
  /\ StableQueued(s)
  /\ r.height \/ getSwapTxStatus(r) = {}
  /\ StableDone(s)
  /\ UNCHANGED dbVars

\* Not on chain, and the nonce passed longer than the confirm interval ago.
StableNoncePassed(s) ==
  LET r == stableTask[s].snap IN
  /\ StableQueued(s)
  /\ ~r.height
  /\ NonceHasPassed(r)
  /\ IF MayMarkFailed(s) THEN StableTo(s, "MatchTxFailed") ELSE StableDone(s)
  /\ UNCHANGED dbVars

\* On chain for the first time: record the block, and the transaction if it is another one.
StableRecord(s) ==
  LET r == stableTask[s].snap IN
  /\ StableQueued(s)
  /\ ~r.height
  /\ \E tx \in getSwapTxStatus(r) :
       res' = [res EXCEPT ![s] = UpdateRouterSwapResult(@,
                 Update("KeepStatus", IF tx = r.swaptx THEN NoTx ELSE tx, TRUE, 0))]
  /\ StableDone(s)
  /\ UNCHANGED reg

\* Mutation: a transaction on chain counts as a success.
StableConfirm_IgnoresReceipt(s) ==
  /\ StableQueued(s)
  /\ stableTask[s].snap.height
  /\ getSwapTxStatus(stableTask[s].snap) # {}
  /\ StableTo(s, "MatchTxStable")
  /\ UNCHANGED dbVars

\* Enough confirmations: updateSwapTx if it is another transaction, then mark.
StableConfirm(s) ==
  LET r == stableTask[s].snap IN
  /\ StableQueued(s)
  /\ r.height
  /\ \E tx \in getSwapTxStatus(r) :
       /\ res' = IF tx = r.swaptx THEN res
                 ELSE [res EXCEPT ![s] =
                         UpdateRouterSwapResult(@, Update("KeepStatus", tx, FALSE, 0))]
       /\ StableTo(s, IF tx \in minedFail THEN "MatchTxFailed" ELSE "MatchTxStable")
  /\ UNCHANGED reg

\* markSwapResultStable and markSwapResultFailed.
StableMark(s) ==
  /\ stableTask[s].mark # NoMark
  /\ SetResStatus(s, stableTask[s].mark)
  /\ StableDone(s)
  /\ UNCHANGED reg

StableStep(s) ==
  \/ StableDispatch(s)
  \/ StableWait(s)
  \/ StableNoncePassed(s)
  \/ StableRecord(s)
  \/ StableConfirm(s)
  \/ StableMark(s)

-----------------------------------------------------------------------------
(* The replace job, and the replaceswap admin call *)

\* Replaced too often: the producer gives the nonce to other swaps, if it does anything.
GivenUp(r) == Cardinality(r.old) > maxReplaceCount

\* What is given up stays with the producer, which looks at no other result meanwhile;
\* the rest goes to the queue.
ReplaceDispatch(s) ==
  /\ EnableReplaceSwap
  /\ s \in FindRouterSwapResultsWithStatus("MatchTxNotStable")
  /\ s \notin inQueue["replace"]
  /\ replaceTask[s] = NoTask
  /\ IF GivenUp(res[s]) THEN Parallel /\ UNCHANGED queueVars
     ELSE res[s].nonce <= chainNonce + maxReplaceDistance /\ QueueTask("replace", s)
  /\ replaceTask' = [replaceTask EXCEPT ![s] = Queued(res[s])]
  /\ UNCHANGED <<dbVars, txCount, replacing>>

\* verifyReplaceSwap, up to the check of the nonce.
verifyReplaceSwap(s, r, isManual) ==
  /\ reg[s] = "TxProcessed"
  /\ r.swaptx # NoTx \/ Parallel
  /\ r.nonce # 0 \/ isManual
  /\ r.status = "MatchTxNotStable"
  /\ ~r.height \/ isManual

\* ReplaceRouterSwap builds a transaction with the nonce of the snapshot.
Replace(s, r, isManual) ==
  /\ verifyReplaceSwap(s, r, isManual)
  /\ getSwapTxStatus(r) = {}
  /\ ~NonceHasPassed(r)
  /\ txCount < MaxTxs
  /\ txCount' = txCount + 1
  /\ replacing' = replacing \cup {[swap |-> s, nonce |-> r.nonce, id |-> txCount + 1]}

\* startReplaceConsumer, when a task is done.
ReplaceDone(s) ==
  /\ replaceTask' = [replaceTask EXCEPT ![s] = NoTask]
  /\ RemoveKey("replace", s)

ReplaceQueued(s) == replaceTask[s] # NoTask /\ replaceTask[s].mark = NoMark

ReplaceStart(s) ==
  /\ ReplaceQueued(s)
  /\ ~GivenUp(replaceTask[s].snap)
  /\ Replace(s, replaceTask[s].snap, FALSE)
  /\ ReplaceDone(s)
  /\ UNCHANGED dbVars

\* checkAndRecycleSwapNonce and RecycleSwapNonce: the lowest nonce given up is kept.
RecycleSwapNonce(s) ==
  LET r == replaceTask[s].snap IN
  /\ ReplaceQueued(s)
  /\ GivenUp(r)
  /\ verifyReplaceSwap(s, r, FALSE)
  /\ getSwapTxStatus(r) = {}
  /\ ~NonceHasPassed(r)
  /\ recycleNonce' = IF recycleNonce = 0 \/ r.nonce < recycleNonce THEN r.nonce ELSE recycleNonce
  /\ replaceTask' = [replaceTask EXCEPT ![s] = NoTask]
  /\ UNCHANGED <<dbVars, txCount, replacing, queueVars>>

\* Refused, or the transaction cannot be built.
ReplaceDrop(s) ==
  /\ ReplaceQueued(s)
  /\ ReplaceDone(s)
  /\ UNCHANGED <<dbVars, txCount, replacing>>

ReplaceBlacked(s) ==
  /\ s \in BlackList
  /\ ReplaceQueued(s)
  /\ SetReg(s, "SwapInBlacklist")
  /\ SetResStatus(s, "SwapInBlacklist")
  /\ ReplaceDone(s)
  /\ UNCHANGED <<txCount, replacing>>

ReplaceNoncePassed(s) ==
  LET r == replaceTask[s].snap IN
  /\ ReplaceQueued(s)
  /\ verifyReplaceSwap(s, r, FALSE)
  /\ NonceHasPassed(r)
  /\ MayMarkFailed(s)
  /\ replaceTask' = [replaceTask EXCEPT ![s] = ToMark(@, "MatchTxFailed")]
  /\ UNCHANGED <<dbVars, txCount, replacing, queueVars>>

ReplaceMark(s) ==
  /\ replaceTask[s].mark # NoMark
  /\ SetResStatus(s, replaceTask[s].mark)
  /\ ReplaceDone(s)
  /\ UNCHANGED <<reg, txCount, replacing>>

\* The admin call works on the document as it is now.
AdminReplace(s) ==
  /\ \/ Replace(s, res[s], TRUE) /\ UNCHANGED dbVars
     \/ /\ verifyReplaceSwap(s, res[s], TRUE)
        /\ NonceHasPassed(res[s])
        /\ SetResStatus(s, "MatchTxFailed")
        /\ UNCHANGED <<reg, txCount, replacing>>
     \/ /\ ResultExists(res[s])
        /\ s \in BlackList
        /\ SetReg(s, "SwapInBlacklist")
        /\ SetResStatus(s, "SwapInBlacklist")
        /\ UNCHANGED <<txCount, replacing>>
  /\ UNCHANGED <<replaceTask, queueVars>>

\* signAndSendReplaceTx: record the signed transaction, then hand it over to be sent.
ReplaceSign(tx) ==
  /\ tx \in replacing
  /\ replacing' = replacing \ {tx}
  /\ res' = [res EXCEPT ![tx.swap] = UpdateRouterOldSwapTxs(@, tx)]
  /\ sending' = sending \cup {tx}
  /\ UNCHANGED <<reg, txCount, replaceTask>>

ReplaceSignFails(tx) ==
  /\ tx \in replacing
  /\ replacing' = replacing \ {tx}
  /\ UNCHANGED <<dbVars, txCount, sending, replaceTask>>

ReplaceStep(s) ==
  \/ ReplaceDispatch(s)
  \/ ReplaceStart(s)
  \/ ReplaceDrop(s)
  \/ ReplaceBlacked(s)
  \/ ReplaceNoncePassed(s)
  \/ ReplaceMark(s)
  \/ AdminReplace(s)

-----------------------------------------------------------------------------
(* The check failed swap job: a failed result may have been paid after all *)

FailedFind(s) ==
  /\ s \in FindRouterSwapResultsWithStatus("MatchTxFailed")
  /\ failedFound' = [failedFound EXCEPT ![s] = res[s]]
  /\ UNCHANGED dbVars

\* Mutation: a transaction on chain is not looked at.
FailedVerdicts_OnlyNonce(r) ==
  IF getSwapTxStatus(r) = {} /\ chainNonce <= r.nonce THEN {"MatchTxNotStable"} ELSE {NoMark}

\* The status checkFailedRouterSwap gives the result; NoMark leaves it alone.
FailedVerdicts(r) ==
  IF (r.nonce = 0 /\ ~r.height) \/ r.swaptx = NoTx THEN {NoMark}
  ELSE IF getSwapTxStatus(r) # {}
    THEN UNION {IF tx \in minedFail THEN {NoMark} ELSE {"MatchTxNotStable", "MatchTxStable"} :
                  tx \in getSwapTxStatus(r)}
  ELSE IF chainNonce <= r.nonce THEN {"MatchTxNotStable"} ELSE {NoMark}

FailedCheck(s) ==
  /\ failedFound[s] # NoResult
  /\ \E status \in FailedVerdicts(failedFound[s]) :
       IF status = NoMark THEN UNCHANGED res ELSE SetResStatus(s, status)
  /\ failedFound' = [failedFound EXCEPT ![s] = NoResult]
  /\ UNCHANGED reg

-----------------------------------------------------------------------------
ResultJobsNext ==
  \/ \E s \in Swaps :
       \/ /\ StableStep(s)
          /\ UNCHANGED <<swapVars, sendVars, chainVars, replaceVars, failedFound>>
       \/ /\ ReplaceStep(s)
          /\ UNCHANGED <<foundSwaps, cached, swapTasks, doPc, doTx, swapNonce, recycleNonce, sendVars,
                         chainVars, stableTask, failedFound>>
       \/ /\ RecycleSwapNonce(s)
          /\ UNCHANGED <<foundSwaps, cached, swapTasks, doPc, doTx, swapNonce, sendVars, chainVars,
                         stableTask, failedFound>>
       \/ /\ FailedFind(s) \/ FailedCheck(s)
          /\ UNCHANGED <<swapVars, queueVars, sendVars, chainVars, stableTask, replaceVars>>
  \/ \E tx \in replacing :
       /\ ReplaceSign(tx) \/ ReplaceSignFails(tx)
       /\ UNCHANGED <<foundSwaps, cached, taskVars, doPc, doTx, swapNonce, recycleNonce, signing,
                      loops, loopSeen, chainVars, stableTask, failedFound>>

ResultJobsTypeOK ==
  /\ res \in [Swaps -> SwapResults]
  /\ stableTask \in [Swaps -> Tasks]
  /\ replaceTask \in [Swaps -> Tasks]
  /\ replacing \subseteq Tx
  /\ failedFound \in [Swaps -> SwapResults]

=============================================================================
