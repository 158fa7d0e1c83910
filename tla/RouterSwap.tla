----------------------------- MODULE RouterSwap -----------------------------
(***************************************************************************)
(* The router server: registration and verification, the swap job, the     *)
(* jobs that follow a payout, the administrator's reswap and forbid calls, *)
(* and crashes, all running against one database and one destination chain.*)
(***************************************************************************)
EXTENDS ResultJobs

CONSTANTS
  QuiescentReswap,   \* the operator reswaps only a swap no job is working on
  AdminForbids,      \* swaps the administrator may forbid
  MaxCrashes         \* bound on the number of crashes

ASSUME RouterSwapAssumption == 
  /\ QuiescentReswap \in BOOLEAN
  /\ AdminForbids \subseteq Swaps
  /\ MaxCrashes \in Nat

VARIABLES
  reswapChecked, \* <<swap, nonce>> of reswap calls that found no successful transaction
  reswapping,   \* reswap calls between their two database updates
  crashes       \* number of crashes so far

vars == <<reg, res, verifying, verifyRun, inserting, passing, pool, minedOk, minedFail,
          chainNonce, foundSwaps, cached, swapTasks, inQueue, adding, doPc, doTx, swapNonce,
          recycleNonce, txCount, signing, sending, loops, loopSeen, stableTask, replaceTask, replacing, failedFound,
          reswapChecked, reswapping, crashes>>

adminVars == <<reswapChecked, reswapping>>

Init ==
  /\ RegisterInit
  /\ ChainInit
  /\ SwapJobInit
  /\ ResultJobsInit
  /\ reswapChecked = {}
  /\ reswapping = {}
  /\ crashes = 0

-----------------------------------------------------------------------------
(* Administrator *)

\* No job, queue or goroutine holds data of the swap.
Quiescent(s) ==
  /\ stableTask[s] = NoTask
  /\ replaceTask[s] = NoTask
  /\ failedFound[s] = NoResult
  /\ \A tx \in signing \cup sending \cup loops \cup loopSeen \cup replacing : tx.swap # s
  /\ doPc # "idle" => doTx.swap # s

\* RouterAdminReswap accepts a processed swap with a failed result.
Reswappable(s) ==
  /\ reg[s] = "TxProcessed"
  /\ res[s].status = "MatchTxFailed"
  /\ res[s].swaptx # NoTx

\* It found a successful transaction: the result is watched again.
ReswapRefused(s) ==
  /\ Reswappable(s)
  /\ \E tx \in getSwapTxStatus(res[s]) : tx \in minedOk
  /\ SetResStatus(s, "MatchTxNotStable")
  /\ UNCHANGED <<reg, adminVars>>

\* Mutation: the known transactions are not looked up on the chain.
NoSuccessFound_NoLookup(r) == TRUE

\* No known transaction is on chain, or the one that was found failed.
NoSuccessFound(r) ==
  \/ getSwapTxStatus(r) = {}
  \/ \E tx \in getSwapTxStatus(r) : tx \in minedFail

ReswapLookup(s) ==
  /\ Reswappable(s)
  /\ NoSuccessFound(res[s])
  /\ QuiescentReswap => Quiescent(s)
  /\ reswapChecked' = reswapChecked \cup {<<s, res[s].nonce>>}
  /\ UNCHANGED <<dbVars, reswapping>>

\* Then the account's nonce is read: "can not retry swap with lower nonce", or the
\* result is reset, whatever its status is by now.
RouterAdminReswap(s, nonce) ==
  /\ <<s, nonce>> \in reswapChecked
  /\ QuiescentReswap => Quiescent(s)
  /\ reswapChecked' = reswapChecked \ {<<s, nonce>>}
  /\ IF chainNonce <= nonce THEN UNCHANGED <<dbVars, reswapping>>
     ELSE SetResStatus(s, "Reswapping") /\ reswapping' = reswapping \cup {s} /\ UNCHANGED reg

\* The second update of RouterAdminReswap, and DeleteCachedSwap.
ReswapFinish(s) ==
  /\ s \in reswapping
  /\ reswapping' = reswapping \ {s}
  /\ SetReg(s, "TxNotSwapped")
  /\ cached' = cached \ {s}
  /\ UNCHANGED <<res, reswapChecked>>

\* routerForbidSwap.
ForbidSwap(s) ==
  /\ s \in AdminForbids
  /\ SetResStatus(s, "ManualMakeFail")
  /\ SetReg(s, "ManualMakeFail")
  /\ UNCHANGED adminVars

-----------------------------------------------------------------------------
(* Crash and restart: the database stays, the nonce setter starts anew *)

\* FindNextSwapNonce: one more than the highest nonce in the result documents.
IsNextSwapNonce(n) ==
  \/ n = 0 /\ \A s \in Swaps : res[s].nonce = 0
  \/ \E s \in Swaps : /\ res[s].nonce > 0
                      /\ n = res[s].nonce + 1
                      /\ \A k \in Swaps : res[k].nonce <= res[s].nonce

\* Mutation: the nonces in the database are ignored.
InitSwapNonce_PoolOnly == \E pendingNonce \in PoolNonces : swapNonce' = pendingNonce

\* InitSwapNonce.
InitSwapNonce ==
  \E n \in 0 .. MaxNonce + 1, pendingNonce \in PoolNonces :
    /\ IsNextSwapNonce(n)
    /\ swapNonce' = IF pendingNonce > n THEN pendingNonce ELSE n

Crash ==
  /\ crashes < MaxCrashes
  /\ crashes' = crashes + 1
  /\ InitSwapNonce
  /\ verifying' = {} /\ verifyRun' = {} /\ inserting' = {} /\ passing' = {}
  /\ foundSwaps' = {} /\ cached' = {} /\ swapTasks' = {} /\ doPc' = "idle" /\ doTx' = NoTx
  /\ inQueue' = [job \in Jobs |-> {}] /\ adding' = [job \in Jobs |-> {}]
  /\ recycleNonce' = 0
  /\ signing' = {} /\ sending' = {} /\ loops' = {} /\ loopSeen' = {}
  /\ stableTask' = [s \in Swaps |-> NoTask]
  /\ replaceTask' = [s \in Swaps |-> NoTask]
  /\ replacing' = {}
  /\ failedFound' = [s \in Swaps |-> NoResult]
  /\ reswapChecked' = {} /\ reswapping' = {}
  /\ UNCHANGED <<dbVars, chainVars, txCount>>

-----------------------------------------------------------------------------
resultVars == <<stableTask, replaceVars, failedFound>>

RegisterStep ==
  /\ RegisterNext
  /\ UNCHANGED <<chainVars, swapVars, queueVars, sendVars, resultVars, adminVars, crashes>>

SwapStep ==
  /\ SwapJobNext
  /\ UNCHANGED <<verifyVars, resultVars, adminVars, crashes>>

ResultStep ==
  /\ ResultJobsNext
  /\ UNCHANGED <<verifyVars, adminVars, crashes>>

AdminStep ==
  /\ \E s \in Swaps :
       \/ /\ \/ ReswapRefused(s)
             \/ ReswapLookup(s)
             \/ \E nonce \in {c[2] : c \in reswapChecked} : RouterAdminReswap(s, nonce)
             \/ ForbidSwap(s)
          /\ UNCHANGED cached
       \/ ReswapFinish(s)
  /\ UNCHANGED <<verifyVars, chainVars, foundSwaps, taskVars, doPc, doTx, swapNonce,
                 recycleNonce, txCount, sendVars, resultVars, crashes>>

ChainStep ==
  /\ ChainNext
  /\ UNCHANGED <<dbVars, verifyVars, swapVars, queueVars, sendVars, resultVars, adminVars, crashes>>

Next == RegisterStep \/ SwapStep \/ ResultStep \/ AdminStep \/ ChainStep \/ Crash

Spec == Init /\ [][Next]_vars

-----------------------------------------------------------------------------
(* Properties *)

TypeOK ==
  /\ RegisterTypeOK
  /\ ChainTypeOK
  /\ SwapJobTypeOK
  /\ QueueTypeOK
  /\ ResultJobsTypeOK
  /\ reswapChecked \subseteq Swaps \X Nat
  /\ reswapping \subseteq Swaps
  /\ crashes \in Nat

\* At most one successful payout transaction of a swap is ever mined, whatever jobs,
\* crashes, replacements and reswaps did in between (preventReswap, RouterAdminReswap).
NoDoublePayout ==
  \A tx1, tx2 \in minedOk : tx1.swap = tx2.swap => tx1 = tx2

\* A payout transaction that was handed to the network, or is about to be, and that
\* can still be mined is known to the swap's result document under its nonce ("update
\* database before sending transaction").
SentTxTracked ==
  \A tx \in pool \cup sending \cup DoSending :
    Minable(tx) => /\ tx \in Tracked(res[tx.swap])
                   /\ res[tx.swap].nonce = tx.nonce

\* A result is only ever declared stable when the swap has been paid: the decision is
\* taken on a snapshot and written by a later step.
StableMeansPaid ==
  \A s \in Swaps : res[s].status = "MatchTxStable" => Paid(s)

\* A result is reset for a reswap only when no transaction of the swap has succeeded
\* and none that could still be mined is on its way.
ReswapIsSafe ==
  [][\A s \in Swaps :
       (res[s].status # "Reswapping" /\ res'[s].status = "Reswapping") =>
         /\ ~Paid(s)
         /\ \A tx \in pool \cup sending \cup DoSending : tx.swap = s => ~Minable(tx)]_vars

\* A nonce of the MPC account that is given to a result is held by no other result, unless
\* the replace job recycled it (AllocateRouterSwapNonce, InitSwapNonce after a restart, and
\* the reset of the nonce by a reswap).
NonceUnique ==
  [][\A s, k \in Swaps :
       /\ s # k
       /\ res'[s].nonce # res[s].nonce
       /\ res'[s].nonce # 0
       /\ res'[s].nonce = res[k].nonce
       => res'[s].nonce = recycleNonce]_vars

-----------------------------------------------------------------------------
(* What must eventually happen.  Every job is a goroutine in an endless    *)
(* loop, so its next step is weakly fair.  Building and signing a          *)
(* transaction and the confirmations of a block depend on the outside: they*)
(* may fail or be late any number of times, but a job that tries again and *)
(* again succeeds (strong fairness).  Nothing is assumed of users, the     *)
(* administrator, the replace job or mining.                               *)

Fair(s) ==
  /\ \A status \in {"MatchTxEmpty", "SwapoutForbidden"} :
       WF_vars(InsertResult(s, status) /\ RegisterStep)
  /\ WF_vars(InsertPassed(s) /\ RegisterStep)
  /\ WF_vars((SwapIgnore(s) \/ SwapDispatch(s) \/ SwapNoResult(s)) /\ SwapStep)
  /\ SF_vars(DoSwapBuild(s) /\ SwapStep)
  /\ WF_vars(StableDispatch(s) /\ ResultStep)
  /\ SF_vars(StableRecord(s) /\ ResultStep)
  /\ SF_vars(StableConfirm(s) /\ ResultStep)
  /\ SF_vars(StableNoncePassed(s) /\ ResultStep)
  /\ WF_vars(StableMark(s) /\ ResultStep)
  /\ WF_vars(ReplaceMark(s) /\ ResultStep)
  /\ WF_vars(FailedFind(s) /\ ResultStep)
  /\ WF_vars(FailedCheck(s) /\ ResultStep)
  /\ WF_vars(ReswapFinish(s) /\ AdminStep)

LiveSpec ==
  /\ Spec
  /\ \A s \in Swaps : Fair(s)
  /\ WF_vars(SwapFind /\ SwapStep)
  /\ SF_vars(DoSwapSign /\ SwapStep)
  /\ WF_vars(doPc = "reverify" /\ (DoSwapSignFails \/ reverifySwap) /\ SwapStep)
  /\ WF_vars((DoSwapRecheck \/ DoSwapUpdateResult \/ DoSwapUpdateStatus) /\ SwapStep)
  /\ WF_vars(SendStep /\ SwapStep)

\* The bounds of the model, not the code, stop a swap from being paid.
BoundReached == txCount = MaxTxs \/ swapNonce > MaxNonce \/ chainNonce > MaxNonce

\* A key was left behind: its task is done, and the job ignores the swap until a restart.
SwapKeyLeft(s) == s \in inQueue["swap"] \ swapTasks
StableKeyLeft(s) == s \in inQueue["stable"] /\ stableTask[s] = NoTask

\* A swap that passed verification leaves TxNotSwapped: it is processed, or rejected
\* by the black list or the administrator (status.go: "TxNotSwapped -> TxProcessed").
\* Nothing but a key left behind in the set of the swap job can hold it up for good.
NotSwappedMovesOn ==
  \A s \in Swaps : reg[s] = "TxNotSwapped" ~>
    (reg[s] # "TxNotSwapped" \/ SwapKeyLeft(s) \/ BoundReached)

\* The verdict "not found for too long" of a verify goroutine may hit a swap that an
\* administrator let pass in the meantime: it overwrites the result's status for good.
LateVerdict(s) == res[s].status = "TxVerifyFailed"

\* A paid swap ends as stable, although jobs with older snapshots of its result may
\* have declared it failed before (the check failed swap job repairs that), unless its key
\* is left behind in the set of the stable job.
PaidSettles ==
  \A s \in Swaps : Paid(s) ~>
    (res[s].status = "MatchTxStable" \/ LateVerdict(s) \/ StableKeyLeft(s))

\* A result whose nonce was consumed does not stay unsettled: it becomes stable or it
\* is declared failed, so that the administrator can reswap it, unless its key is left
\* behind in the set of the stable job.
PassedNonceSettles ==
  \A s \in Swaps :
    (res[s].status = "MatchTxNotStable" /\ chainNonce > res[s].nonce) ~>
       (res[s].status \in {"MatchTxStable", "MatchTxFailed"} \/ LateVerdict(s) \/ StableKeyLeft(s))

=============================================================================
