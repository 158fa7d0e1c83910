-------------------------- MODULE RouterSwapProofs --------------------------
(***************************************************************************)
(* Proofs about RouterSwap for every set of swaps and every configuration. *)
(*                                                                         *)
(* StableMeansPaid is not inductive: a job decides on a snapshot of the    *)
(* result and writes its verdict later.  The inductive invariant Inv says  *)
(* in addition that a result document, and every snapshot of it, only knows*)
(* transactions of its own swap, and that a task about to mark its result  *)
(* stable belongs to a swap that is paid.                                  *)
(***************************************************************************)
EXTENDS RouterSwap, TLAPS

\* A result document only knows transactions of its own swap.
OwnTxs(s, r) == \A tx \in Tracked(r) : tx.swap = s

\* What holds of the result document of a swap.
ResOK(s, r) ==
  /\ r \in SwapResults
  /\ OwnTxs(s, r)
  /\ r.status = "MatchTxStable" => Paid(s)

\* What holds of a snapshot: its status may be out of date.
SnapOK(s, r) == r \in SwapResults /\ OwnTxs(s, r)

TaskOK(s, t) ==
  /\ t \in Tasks
  /\ SnapOK(s, t.snap)
  /\ t.mark = "MatchTxStable" => Paid(s)

ResInv == res \in [Swaps -> SwapResults] /\ \A s \in Swaps : ResOK(s, res[s])
StableTaskInv ==
  stableTask \in [Swaps -> Tasks] /\ \A s \in Swaps : TaskOK(s, stableTask[s])
ReplaceTaskInv ==
  replaceTask \in [Swaps -> Tasks] /\ \A s \in Swaps : TaskOK(s, replaceTask[s])
FailedInv ==
  failedFound \in [Swaps -> SwapResults] /\ \A s \in Swaps : SnapOK(s, failedFound[s])

\* The types of the other variables.
RestTypeOK ==
  /\ RegisterTypeOK
  /\ ChainTypeOK
  /\ SwapJobTypeOK
  /\ replacing \subseteq Tx
  /\ reswapChecked \subseteq Swaps \X Nat
  /\ reswapping \subseteq Swaps
  /\ crashes \in Nat

TasksInv == StableTaskInv /\ ReplaceTaskInv /\ FailedInv

Inv == RestTypeOK /\ ResInv /\ TasksInv

-----------------------------------------------------------------------------
(* The update functions of the database preserve what holds of a result *)

\* An initial result knows no transaction.
LEMMA InitialOK ==
  ASSUME NEW s \in Swaps, NEW status \in ResStatus \ {"MatchTxStable"}
  PROVE  ResOK(s, InitialSwapResult(status))
BY DEF ResOK, InitialSwapResult, SwapResults, OwnTxs, Tracked

\* AddRouterSwapResult keeps an existing document or inserts an initial one.
LEMMA AddOK ==
  ASSUME NEW s \in Swaps, NEW r, ResOK(s, r),
         NEW status \in ResStatus \ {"MatchTxStable"}
  PROVE  ResOK(s, AddRouterSwapResult(r, status))
BY InitialOK DEF AddRouterSwapResult

\* UpdateRouterSwapResultStatus may declare a result stable only if the swap is paid.
LEMMA StatusOK ==
  ASSUME NEW s \in Swaps, NEW r, ResOK(s, r), NEW status \in ResStatus,
         status = "MatchTxStable" => Paid(s)
  PROVE  ResOK(s, UpdateRouterSwapResultStatus(r, status))
<1>1. CASE ~ResultExists(r)
  BY <1>1 DEF UpdateRouterSwapResultStatus
<1>2. CASE ResultExists(r) /\ status = "Reswapping"
  BY <1>2, InitialOK DEF UpdateRouterSwapResultStatus
<1>3. CASE ResultExists(r) /\ status # "Reswapping"
  BY <1>3 DEF UpdateRouterSwapResultStatus, ResOK, SwapResults, OwnTxs, Tracked
<1> QED BY <1>1, <1>2, <1>3

\* UpdateRouterSwapResult records only a transaction of the swap, and never that it
\* is stable.
LEMMA UpdateOK ==
  ASSUME NEW s \in Swaps, NEW r, ResOK(s, r),
         NEW status \in {"KeepStatus", "MatchTxNotStable"},
         NEW tx \in Tx \cup {NoTx}, tx # NoTx => tx.swap = s,
         NEW height \in BOOLEAN, NEW nonce \in Nat
  PROVE  ResOK(s, UpdateRouterSwapResult(r, Update(status, tx, height, nonce)))
<1> DEFINE u == Update(status, tx, height, nonce)
           q == UpdateRouterSwapResult(r, u)
<1>1. CASE ~CanUpdateRouterSwapResult(r, u) \/ r.status = "MatchTxStable"
  BY <1>1 DEF UpdateRouterSwapResult
<1>2. CASE CanUpdateRouterSwapResult(r, u) /\ r.status # "MatchTxStable"
  <2>1. q = [status |-> IF status = "KeepStatus" THEN r.status ELSE status,
             swaptx |-> IF tx = NoTx THEN r.swaptx ELSE tx,
             old    |-> r.old,
             height |-> r.height \/ height,
             nonce  |-> IF nonce = 0 THEN r.nonce ELSE nonce]
    BY <1>2 DEF UpdateRouterSwapResult, Update
  <2>2. q \in SwapResults
    BY <2>1 DEF ResOK, SwapResults, ResStatus
  <2>3. Tracked(q) \subseteq Tracked(r) \cup ({tx} \ {NoTx})
    BY <2>1 DEF Tracked
  <2>4. OwnTxs(s, q)
    BY <2>3 DEF ResOK, OwnTxs
  <2>5. q.status # "MatchTxStable"
    BY <1>2, <2>1
  <2> QED BY <2>2, <2>4, <2>5 DEF ResOK
<1> QED BY <1>1, <1>2

\* UpdateRouterOldSwapTxs records only a transaction of the swap.
LEMMA OldTxsOK ==
  ASSUME NEW s \in Swaps, NEW r, ResOK(s, r), NEW tx \in Tx, tx.swap = s
  PROVE  ResOK(s, UpdateRouterOldSwapTxs(r, tx))
<1> DEFINE q == UpdateRouterOldSwapTxs(r, tx)
<1>1. CASE ~ResultExists(r) \/ tx \in Tracked(r)
  BY <1>1 DEF UpdateRouterOldSwapTxs
<1>2. CASE ~(~ResultExists(r) \/ tx \in Tracked(r))
  <2>1. q = [r EXCEPT
               !.swaptx = IF r.status = "MatchTxStable" THEN @ ELSE tx,
               !.old    = IF @ = {} THEN {r.swaptx, tx} ELSE @ \cup {tx}]
    BY <1>2 DEF UpdateRouterOldSwapTxs
  <2> DEFINE swaptx == IF r.status = "MatchTxStable" THEN r.swaptx ELSE tx
             old == IF r.old = {} THEN {r.swaptx, tx} ELSE r.old \cup {tx}
  <2>2. q = [status |-> r.status, swaptx |-> swaptx, old |-> old,
             height |-> r.height, nonce |-> r.nonce]
    BY <2>1 DEF ResOK, SwapResults
  <2>3. swaptx \in Tx \cup {NoTx} /\ old \subseteq Tx \cup {NoTx}
    BY DEF ResOK, SwapResults
  <2>4. q \in SwapResults /\ q.status = r.status
    <3> HIDE DEF swaptx, old
    <3> QED BY <2>2, <2>3 DEF ResOK, SwapResults
  <2>5. q.swaptx \in {r.swaptx, tx} /\ q.old \subseteq r.old \cup {r.swaptx, tx}
    BY <2>2
  <2>6. OwnTxs(s, q)
    BY <2>5 DEF ResOK, OwnTxs, Tracked
  <2> QED BY <2>4, <2>6 DEF ResOK
<1> QED BY <1>1, <1>2

\* AllocateRouterSwapNonce leaves the transactions alone.
LEMMA AllocateOK ==
  ASSUME NEW s \in Swaps, NEW r, ResOK(s, r), NEW nonce \in Nat
  PROVE  ResOK(s, AllocateRouterSwapNonce(r, nonce))
BY DEF AllocateRouterSwapNonce, ResOK, SwapResults, ResStatus, OwnTxs, Tracked

-----------------------------------------------------------------------------
(* Setting a document, and steps that leave the documents or the tasks alone *)

\* Writing the register document keeps its type.
LEMMA SetRegOK ==
  ASSUME NEW s \in Swaps, NEW status \in RegStatus, reg \in [Swaps -> RegStatus],
         SetReg(s, status)
  PROVE  reg' \in [Swaps -> RegStatus]
BY DEF SetReg, UpdateRouterSwapStatus

\* Writing one result document with a good one keeps all of them good.
LEMMA SetResOK ==
  ASSUME ResInv, NEW s \in Swaps, NEW r, ResOK(s, r),
         res' = [res EXCEPT ![s] = r], UNCHANGED minedOk
  PROVE  ResInv'
BY DEF ResInv, ResOK, Paid

\* Writing the status of a result: stable only for a paid swap.
LEMMA SetResStatusOK ==
  ASSUME ResInv, NEW s \in Swaps, NEW status \in ResStatus,
         status = "MatchTxStable" => Paid(s),
         SetResStatus(s, status), UNCHANGED minedOk
  PROVE  ResInv'
<1>1. ResOK(s, UpdateRouterSwapResultStatus(res[s], status))
  BY StatusOK DEF ResInv
<1> QED BY <1>1, SetResOK DEF SetResStatus

\* Documents that do not change stay good, as a payout stays mined.
LEMMA SameResOK ==
  ASSUME ResInv, UNCHANGED <<res, minedOk>>
  PROVE  ResInv'
BY DEF ResInv, ResOK, Paid

\* Snapshots that do not change stay good, as a payout stays mined.
LEMMA SameTasksOK ==
  ASSUME TasksInv, UNCHANGED <<resultVars, minedOk>>
  PROVE  TasksInv'
BY DEF TasksInv, resultVars, replaceVars, StableTaskInv, ReplaceTaskInv, FailedInv,
       TaskOK, Paid

\* A bounded cache stays a set of swaps when a key is added.
LEMMA CacheAddOK ==
  ASSUME NEW cache \in SUBSET Swaps, NEW s \in Swaps, NEW max,
         NEW c \in CacheAdd(cache, s, max)
  PROVE  c \in SUBSET Swaps
BY DEF CacheAdd

-----------------------------------------------------------------------------
(* Registration and verification *)

\* Registration, the verify job and the release of held back swaps.
LEMMA RegisterStepOK ==
  ASSUME Inv, RegisterStep
  PROVE  Inv'
<1>1. UNCHANGED <<chainVars, swapVars, queueVars, sendVars, resultVars, adminVars, crashes>>
  BY DEF RegisterStep
<1>2. RestTypeOK /\ ResInv /\ TasksInv /\ RegisterTypeOK /\ reg \in [Swaps -> RegStatus]
  BY DEF Inv, RestTypeOK, RegisterTypeOK
<1>3. UNCHANGED minedOk
  BY <1>1 DEF chainVars
<1>4. TasksInv'
  BY <1>1, <1>2, <1>3, SameTasksOK
<1>5. SUFFICES RegisterTypeOK' /\ ResInv'
  BY <1>1, <1>2, <1>4 DEF Inv, RestTypeOK, ChainTypeOK, SwapJobTypeOK, chainVars,
     swapVars, sendVars, resultVars, replaceVars, adminVars
<1>6. PICK s \in Swaps :
         \/ RegisterNew(s) \/ RegisterAgain(s) \/ VerifyStart(s) \/ VerifyPass(s)
         \/ VerifyReject(s) \/ VerifyForbid(s) \/ VerifyRetry(s)
         \/ VerifyNotFound(s) \/ PassBigValue(s) \/ InsertPassed(s)
         \/ RouterAdminPassForbiddenSwapout(s)
         \/ \E status \in {"MatchTxEmpty", "SwapoutForbidden"} : InsertResult(s, status)
  BY DEF RegisterStep, RegisterNext
<1>7. ResOK(s, res[s])
  BY <1>2 DEF ResInv
<1>8. CASE RegisterNew(s)
  <2>1. ResInv' BY <1>2, <1>3, <1>8, SameResOK DEF RegisterNew
  <2>2. reg' \in [Swaps -> RegStatus]
    BY <1>2, <1>8, RegisterAssumption DEF RegisterNew, RegStatus, VerifyErrorStatus
  <2> QED BY <1>2, <1>8, <2>1, <2>2 DEF RegisterNew, RegisterTypeOK, verifyVars
<1>9. CASE RegisterAgain(s)
  <2>1. ResInv' BY <1>2, <1>3, <1>9, SameResOK DEF RegisterAgain
  <2>2. reg' \in [Swaps -> RegStatus]
    BY <1>2, <1>9 DEF RegisterAgain, RegStatus
  <2> QED BY <1>2, <1>9, <2>1, <2>2 DEF RegisterAgain, RegisterTypeOK
<1>10. CASE VerifyStart(s)
  <2>1. ResInv' BY <1>2, <1>3, <1>10, SameResOK DEF VerifyStart, dbVars
  <2>2. verifying' \in SUBSET Swaps
    BY <1>2, <1>10, CacheAddOK DEF VerifyStart, RegisterTypeOK
  <2> QED BY <1>2, <1>10, <2>1, <2>2 DEF VerifyStart, RegisterTypeOK, dbVars
<1>11. CASE VerifyPass(s)
  <2>1. ResInv' BY <1>2, <1>3, <1>11, SameResOK DEF VerifyPass
  <2>2. reg' \in [Swaps -> RegStatus]
    BY <1>2, <1>11, SetRegOK DEF VerifyPass, RegStatus
  <2> QED BY <1>2, <1>11, <2>1, <2>2 DEF VerifyPass, RegisterTypeOK
<1>12. CASE VerifyReject(s)
  <2>1. ResInv' BY <1>2, <1>3, <1>12, SameResOK DEF VerifyReject
  <2>2. PICK status \in RejectStatus(s) : SetReg(s, status)
    BY <1>12 DEF VerifyReject
  <2>3. status \in RegStatus
    BY RegisterAssumption DEF RejectStatus, RegStatus
  <2>4. reg' \in [Swaps -> RegStatus]
    BY <1>2, <2>2, <2>3, SetRegOK
  <2> QED BY <1>2, <1>12, <2>1, <2>4 DEF VerifyReject, RegisterTypeOK
<1>14. CASE VerifyForbid(s)
  <2>1. ResInv' BY <1>2, <1>3, <1>14, SameResOK DEF VerifyForbid
  <2>2. reg' \in [Swaps -> RegStatus]
    BY <1>2, <1>14, SetRegOK DEF VerifyForbid, RegStatus
  <2> QED BY <1>2, <1>14, <2>1, <2>2 DEF VerifyForbid, RegisterTypeOK
<1>15. CASE VerifyRetry(s)
  <2>1. ResInv' BY <1>2, <1>3, <1>15, SameResOK DEF VerifyRetry, dbVars
  <2> QED BY <1>2, <1>15, <2>1 DEF VerifyRetry, RegisterTypeOK, dbVars
<1>16. CASE VerifyNotFound(s)
  <2>1. ResInv'
    BY <1>2, <1>3, <1>16, SetResStatusOK DEF VerifyNotFound, ResStatus
  <2>2. reg' \in [Swaps -> RegStatus]
    BY <1>2, <1>16, SetRegOK DEF VerifyNotFound, RegStatus, VerifyErrorStatus
  <2> QED BY <1>2, <1>16, <2>1, <2>2 DEF VerifyNotFound, RegisterTypeOK
<1>17. CASE PassBigValue(s)
  <2>1. ResInv' BY <1>2, <1>3, <1>17, SameResOK DEF PassBigValue
  <2>2. reg' \in [Swaps -> RegStatus]
    BY <1>2, <1>17, SetRegOK DEF PassBigValue, RegStatus
  <2> QED BY <1>2, <1>17, <2>1, <2>2 DEF PassBigValue, RegisterTypeOK
<1>18. CASE InsertPassed(s)
  <2>1. ResOK(s, AddRouterSwapResult(res[s], "MatchTxEmpty"))
    BY <1>7, AddOK DEF ResStatus
  <2>2. ResInv' BY <1>2, <1>3, <1>18, <2>1, SetResOK DEF InsertPassed
  <2> QED BY <1>2, <1>18, <2>2 DEF InsertPassed, RegisterTypeOK
<1>19. CASE RouterAdminPassForbiddenSwapout(s)
  <2>1. ResInv'
    BY <1>2, <1>3, <1>19, SetResStatusOK DEF RouterAdminPassForbiddenSwapout, ResStatus
  <2>2. reg' \in [Swaps -> RegStatus]
    BY <1>2, <1>19, SetRegOK DEF RouterAdminPassForbiddenSwapout, RegStatus
  <2> QED BY <1>2, <1>19, <2>1, <2>2
          DEF RouterAdminPassForbiddenSwapout, RegisterTypeOK, verifyVars
<1>20. ASSUME NEW status \in {"MatchTxEmpty", "SwapoutForbidden"}, InsertResult(s, status)
       PROVE  RegisterTypeOK' /\ ResInv'
  <2>1. ResOK(s, AddRouterSwapResult(res[s], status))
    BY <1>7, AddOK DEF ResStatus
  <2>2. ResInv' BY <1>2, <1>3, <1>20, <2>1, SetResOK DEF InsertResult
  <2> QED BY <1>2, <1>20, <2>2 DEF InsertResult, RegisterTypeOK
<1> QED BY <1>6, <1>8, <1>9, <1>10, <1>11, <1>12, <1>14, <1>15, <1>16, <1>17,
           <1>18, <1>19, <1>20

-----------------------------------------------------------------------------
(* The swap job *)

\* A transaction built from a swap, a nonce and a number is a transaction.
LEMMA TxType ==
  ASSUME NEW tx \in Tx
  PROVE  tx.swap \in Swaps /\ tx.nonce \in Nat /\ tx.id \in Nat
BY DEF Tx

\* The pool nonces a node may answer are natural numbers.
LEMMA PoolNoncesType ==
  ASSUME ChainTypeOK
  PROVE  PoolNonces \subseteq Nat
<1>1. \A tx \in pool : tx.nonce + 1 \in Nat
  BY TxType DEF ChainTypeOK
<1> QED BY <1>1 DEF PoolNonces, ChainTypeOK

\* The steps of the producer.
LEMMA ProduceStepOK ==
  ASSUME RestTypeOK, ResInv, ProduceStep, UNCHANGED chainVars
  PROVE  reg' \in [Swaps -> RegStatus] /\ SwapJobTypeOK' /\ ResInv'
<1>1. UNCHANGED minedOk
  BY DEF chainVars
<1>2. reg \in [Swaps -> RegStatus] /\ SwapJobTypeOK
  BY DEF RestTypeOK, RegisterTypeOK
<1>3. ASSUME SwapFind
      PROVE  reg' \in [Swaps -> RegStatus] /\ SwapJobTypeOK' /\ ResInv'
  <2>1. ResInv' BY <1>1, <1>3, SameResOK DEF SwapFind, dbVars
  <2> QED BY <1>2, <1>3, <2>1 DEF SwapFind, FindRouterSwapsWithStatus, SwapJobTypeOK, taskVars, dbVars, sendVars
<1>4. ASSUME NEW s \in Swaps, SwapIgnore(s)
      PROVE  reg' \in [Swaps -> RegStatus] /\ SwapJobTypeOK' /\ ResInv'
  <2>1. ResInv' BY <1>1, <1>4, SameResOK DEF SwapIgnore, dbVars
  <2> QED BY <1>2, <1>4, <2>1 DEF SwapIgnore, FromList, SwapJobTypeOK, taskVars, dbVars, sendVars
<1>5. ASSUME NEW s \in Swaps, SwapDispatch(s)
      PROVE  reg' \in [Swaps -> RegStatus] /\ SwapJobTypeOK' /\ ResInv'
  <2>1. ResInv' BY <1>1, <1>5, SameResOK DEF SwapDispatch
  <2>2. reg' \in [Swaps -> RegStatus]
    BY <1>2, <1>5, SetRegOK DEF SwapDispatch, RegStatus
  <2> QED BY <1>2, <1>5, <2>1, <2>2 DEF SwapDispatch, FromList, SwapJobTypeOK, taskVars, sendVars
<1>6. ASSUME NEW s \in Swaps, SwapNoResult(s)
      PROVE  reg' \in [Swaps -> RegStatus] /\ SwapJobTypeOK' /\ ResInv'
  <2>1. ResInv' BY <1>1, <1>6, SameResOK DEF SwapNoResult
  <2>2. reg' \in [Swaps -> RegStatus]
    BY <1>2, <1>6, SetRegOK DEF SwapNoResult, RegStatus
  <2> QED BY <1>2, <1>6, <2>1, <2>2 DEF SwapNoResult, FromList, SwapJobTypeOK, taskVars, sendVars
<1>7. ASSUME NEW s \in Swaps, SwapBlacked(s)
      PROVE  reg' \in [Swaps -> RegStatus] /\ SwapJobTypeOK' /\ ResInv'
  <2>1. ResInv' BY <1>1, <1>7, SetResStatusOK DEF SwapBlacked, ResStatus
  <2>2. reg' \in [Swaps -> RegStatus]
    BY <1>2, <1>7, SetRegOK DEF SwapBlacked, RegStatus
  <2> QED BY <1>2, <1>7, <2>1, <2>2 DEF SwapBlacked, FromList, SwapJobTypeOK, taskVars, sendVars
<1> QED BY <1>3, <1>4, <1>5, <1>6, <1>7 DEF ProduceStep

\* The steps of the consumer and of the goroutines that sign and watch.
LEMMA ConsumeStepOK ==
  ASSUME RestTypeOK, ResInv, ConsumeStep, UNCHANGED <<foundSwaps, chainVars>>
  PROVE  reg' \in [Swaps -> RegStatus] /\ SwapJobTypeOK' /\ ResInv'
<1>1. UNCHANGED minedOk
  BY DEF chainVars
<1>2. /\ reg \in [Swaps -> RegStatus] /\ SwapJobTypeOK /\ ChainTypeOK
      /\ res \in [Swaps -> SwapResults]
  BY DEF RestTypeOK, RegisterTypeOK, ResInv
<1>3. doPc # "idle" => /\ doTx \in Tx /\ doTx.swap \in Swaps
                       /\ doTx.nonce \in Nat
  BY <1>2, TxType DEF SwapJobTypeOK
<1>4. \A s \in Swaps : ResOK(s, res[s])
  BY DEF ResInv
<1>5. ASSUME NEW s \in Swaps, DoSwapBuild(s)
      PROVE  reg' \in [Swaps -> RegStatus] /\ SwapJobTypeOK' /\ ResInv'
  <2>1. ResInv' BY <1>1, <1>5, SameResOK DEF DoSwapBuild, dbVars
  <2>2. cached' \in SUBSET Swaps
    BY <1>2, <1>5, CacheAddOK DEF DoSwapBuild, SwapJobTypeOK
  <2>3. doTx' \in Tx
    <3>1. PICK n \in PoolNonces :
             doTx' = [swap |-> s, nonce |-> AdjustNonce(swapNonce, n), id |-> 0]
      BY <1>5 DEF DoSwapBuild
    <3>2. AdjustNonce(swapNonce, n) \in Nat
      BY <1>2, PoolNoncesType DEF AdjustNonce, SwapJobTypeOK
    <3> QED BY <3>1, <3>2 DEF Tx
  <2> QED BY <1>2, <1>5, <2>1, <2>2, <2>3 DEF DoSwapBuild, SwapJobTypeOK, taskVars, dbVars, sendVars
<1>6. ASSUME NEW s \in Swaps, DoSwapBuildFails(s)
      PROVE  reg' \in [Swaps -> RegStatus] /\ SwapJobTypeOK' /\ ResInv'
  <2>1. ResInv' BY <1>1, <1>6, SameResOK DEF DoSwapBuildFails, dbVars
  <2>2. cached' \in SUBSET Swaps
    BY <1>2, <1>6, CacheAddOK DEF DoSwapBuildFails, SwapJobTypeOK
  <2> QED BY <1>2, <1>6, <2>1, <2>2 DEF DoSwapBuildFails, SwapJobTypeOK, taskVars, dbVars, sendVars
<1>7. ASSUME NEW s \in Swaps, DoSwapParallel(s)
       PROVE  reg' \in [Swaps -> RegStatus] /\ SwapJobTypeOK' /\ ResInv'
  <2>0. PICK nonce \in {swapNonce, recycleNonce} :
           /\ AllocateNonce(nonce)
           /\ res' = [res EXCEPT ![s] = AllocateRouterSwapNonce(@, nonce)]
           /\ signing' = signing \cup {[swap |-> s, nonce |-> nonce, id |-> txCount + 1]}
    BY <1>7 DEF DoSwapParallel
  <2>1. nonce \in Nat /\ ResOK(s, AllocateRouterSwapNonce(res[s], nonce))
    BY <1>2, <1>4, AllocateOK DEF SwapJobTypeOK
  <2>2. ResInv' BY <1>1, <2>0, <2>1, SetResOK
  <2>3. cached' \in SUBSET Swaps
    BY <1>2, <1>7, CacheAddOK DEF DoSwapParallel, SwapJobTypeOK
  <2>4. reg' \in [Swaps -> RegStatus]
    BY <1>2, <1>7, SetRegOK DEF DoSwapParallel, RegStatus
  <2>5. [swap |-> s, nonce |-> nonce, id |-> txCount + 1] \in Tx
    BY <1>2, <2>1 DEF SwapJobTypeOK, Tx
  <2>6. /\ swapTasks' = swapTasks \ {s} /\ txCount' = txCount + 1
        /\ UNCHANGED <<doPc, doTx, sending, loops, loopSeen>>
    BY <1>7 DEF DoSwapParallel
  <2>7. swapNonce' \in Nat /\ recycleNonce' \in Nat
    BY <1>2, <2>0 DEF AllocateNonce, SwapJobTypeOK
  <2>8. signing' \subseteq Tx
    BY <1>2, <2>0, <2>5 DEF SwapJobTypeOK
  <2> QED BY <1>2, <2>2, <2>3, <2>4, <2>6, <2>7, <2>8 DEF SwapJobTypeOK, taskVars
<1>8. ASSUME DoSwapSignFails
       PROVE  reg' \in [Swaps -> RegStatus] /\ SwapJobTypeOK' /\ ResInv'
  <2>1. ResInv' BY <1>1, <1>8, SameResOK DEF DoSwapSignFails, dbVars
  <2> QED BY <1>2, <1>8, <2>1 DEF DoSwapSignFails, Finish, SwapJobTypeOK, taskVars, dbVars, sendVars
<1>16. ASSUME DoSwapDisagree
       PROVE  reg' \in [Swaps -> RegStatus] /\ SwapJobTypeOK' /\ ResInv'
  <2>1. ResInv' BY <1>1, <1>16, SameResOK DEF DoSwapDisagree, dbVars
  <2> QED BY <1>2, <1>16, <2>1 DEF DoSwapDisagree, SwapJobTypeOK, taskVars, dbVars, sendVars
<1>17. ASSUME reverifySwap
       PROVE  reg' \in [Swaps -> RegStatus] /\ SwapJobTypeOK' /\ ResInv'
  <2>1. ResInv'
    BY <1>1, <1>2, <1>3, <1>17, SetResStatusOK DEF reverifySwap, ResStatus
  <2>2. reg' \in [Swaps -> RegStatus]
    BY <1>2, <1>3, <1>17, SetRegOK DEF reverifySwap, RegStatus
  <2> QED BY <1>2, <1>17, <2>1, <2>2 DEF reverifySwap, Finish, SwapJobTypeOK, taskVars, sendVars
<1>9. ASSUME DoSwapSign
       PROVE  reg' \in [Swaps -> RegStatus] /\ SwapJobTypeOK' /\ ResInv'
  <2>1. ResInv' BY <1>1, <1>9, SameResOK DEF DoSwapSign, dbVars
  <2>2. doTx' \in Tx
    BY <1>2, <1>3, <1>9 DEF DoSwapSign, SwapJobTypeOK, Tx
  <2> QED BY <1>2, <1>9, <2>1, <2>2 DEF DoSwapSign, SwapJobTypeOK, taskVars, dbVars, sendVars
<1>10. ASSUME DoSwapRecheck
       PROVE  reg' \in [Swaps -> RegStatus] /\ SwapJobTypeOK' /\ ResInv'
  <2>1. ResInv' BY <1>1, <1>10, SameResOK DEF DoSwapRecheck
  <2>2. reg' \in [Swaps -> RegStatus]
    BY <1>2, <1>3, <1>10, SetRegOK DEF DoSwapRecheck, RegStatus
  <2> QED BY <1>2, <1>3, <1>10, <2>1, <2>2 DEF DoSwapRecheck, Finish, SwapJobTypeOK, taskVars, sendVars
<1>11. ASSUME DoSwapUpdateResult
       PROVE  reg' \in [Swaps -> RegStatus] /\ SwapJobTypeOK' /\ ResInv'
  <2>1. ResOK(doTx.swap, UpdateRouterSwapResult(res[doTx.swap],
                           Update("MatchTxNotStable", doTx, FALSE, doTx.nonce)))
    BY <1>3, <1>4, <1>11, UpdateOK DEF DoSwapUpdateResult
  <2>2. ResInv' BY <1>1, <1>3, <1>11, <2>1, SetResOK DEF DoSwapUpdateResult
  <2> QED BY <1>2, <1>3, <1>11, <2>2 DEF DoSwapUpdateResult, Finish, SwapJobTypeOK, taskVars, sendVars
<1>12. ASSUME DoSwapUpdateStatus
       PROVE  reg' \in [Swaps -> RegStatus] /\ SwapJobTypeOK' /\ ResInv'
  <2>1. ResInv' BY <1>1, <1>12, SameResOK DEF DoSwapUpdateStatus
  <2>2. reg' \in [Swaps -> RegStatus]
    BY <1>2, <1>3, <1>12, SetRegOK DEF DoSwapUpdateStatus, RegStatus
  <2> QED BY <1>2, <1>3, <1>12, <2>1, <2>2 DEF DoSwapUpdateStatus, SwapJobTypeOK, taskVars, sendVars
<1>13. ASSUME NEW tx \in signing, SignParallelFails(tx) \/ SignParallel(tx)
       PROVE  reg' \in [Swaps -> RegStatus] /\ SwapJobTypeOK' /\ ResInv'
  <2>1. tx \in Tx /\ tx.swap \in Swaps
    BY <1>2, TxType DEF SwapJobTypeOK
  <2>2. ResOK(tx.swap, UpdateRouterSwapResult(res[tx.swap], Update("KeepStatus", tx, FALSE, 0)))
    BY <1>4, <2>1, UpdateOK
  <2>3. ResInv'
    BY <1>1, <1>13, <2>1, <2>2, SetResOK, SameResOK
       DEF SignParallelFails, SignParallel, dbVars
  <2> QED BY <1>2, <1>13, <2>1, <2>3
          DEF SignParallelFails, SignParallel, SwapJobTypeOK, taskVars, swapVars, dbVars
<1>14. ASSUME NEW tx \in loops, LoopSee(tx) \/ LoopGiveUp(tx)
       PROVE  reg' \in [Swaps -> RegStatus] /\ SwapJobTypeOK' /\ ResInv'
  <2>1. ResInv' BY <1>1, <1>14, SameResOK DEF LoopSee, LoopGiveUp, dbVars
  <2> QED BY <1>2, <1>14, <2>1 DEF LoopSee, LoopGiveUp, SwapJobTypeOK, taskVars, swapVars, dbVars
<1>15. ASSUME NEW tx \in loopSeen, NEW h \in {TRUE, FALSE},
              LoopRecord(tx, IF h THEN tx ELSE NoTx)
       PROVE  reg' \in [Swaps -> RegStatus] /\ SwapJobTypeOK' /\ ResInv'
  <2> DEFINE hash == IF h THEN tx ELSE NoTx
  <2>1. tx \in Tx /\ tx.swap \in Swaps
    BY <1>2, TxType DEF SwapJobTypeOK
  <2>2. hash \in Tx \cup {NoTx} /\ (hash # NoTx => hash.swap = tx.swap)
    BY <2>1
  <2> HIDE DEF hash
  <2>3. ResOK(tx.swap, UpdateRouterSwapResult(res[tx.swap], Update("KeepStatus", hash, TRUE, 0)))
    BY <1>4, <2>1, <2>2, UpdateOK
  <2>4. /\ res' = [res EXCEPT ![tx.swap] =
                    UpdateRouterSwapResult(@, Update("KeepStatus", hash, TRUE, 0))]
        /\ loopSeen' = loopSeen \ {tx}
        /\ UNCHANGED <<reg, swapVars, queueVars, signing, sending, loops>>
    BY <1>15 DEF LoopRecord, hash
  <2>5. ResInv' BY <1>1, <2>1, <2>3, <2>4, SetResOK
  <2> QED BY <1>2, <2>4, <2>5 DEF SwapJobTypeOK, taskVars, swapVars
<1> QED BY <1>5, <1>6, <1>7, <1>8, <1>9, <1>10, <1>11, <1>12, <1>13, <1>14, <1>15,
           <1>16, <1>17
        DEF ConsumeStep

\* Sending puts a transaction into the pool and leaves the documents alone.
LEMMA SendStepOK ==
  ASSUME RestTypeOK, ResInv, SendStep, UNCHANGED foundSwaps
  PROVE  /\ UNCHANGED <<dbVars, minedOk>> /\ SwapJobTypeOK' /\ ChainTypeOK' /\ ResInv'
<1>1. SwapJobTypeOK /\ ChainTypeOK
  BY DEF RestTypeOK
<1>2. ASSUME NEW tx \in Tx, NEW reached \in BOOLEAN, NEW ok \in BOOLEAN,
             SendSigned(tx, reached, ok)
      PROVE  /\ ChainTypeOK' /\ swapNonce' \in Nat /\ recycleNonce' \in Nat /\ loops' \subseteq Tx
             /\ UNCHANGED minedOk
  BY <1>1, <1>2, TxType DEF SendSigned, SetNonce, ChainTypeOK, SwapJobTypeOK
<1>3. ASSUME NEW reached \in BOOLEAN, NEW ok \in BOOLEAN, DoSwapSend(reached, ok)
      PROVE  UNCHANGED <<dbVars, minedOk>> /\ SwapJobTypeOK' /\ ChainTypeOK'
  <2>1. doTx \in Tx
    BY <1>1, <1>3 DEF DoSwapSend, SwapJobTypeOK
  <2> QED BY <1>1, <1>2, <1>3, <2>1 DEF DoSwapSend, Finish, SwapJobTypeOK, taskVars
<1>4. ASSUME NEW reached \in BOOLEAN, NEW ok \in BOOLEAN, NEW tx \in sending,
             SendParallel(tx, reached, ok)
      PROVE  UNCHANGED <<dbVars, minedOk>> /\ SwapJobTypeOK' /\ ChainTypeOK'
  <2>1. tx \in Tx
    BY <1>1 DEF SwapJobTypeOK
  <2> QED BY <1>1, <1>2, <1>4, <2>1 DEF SendParallel, SwapJobTypeOK, taskVars
<1>5. UNCHANGED <<dbVars, minedOk>> /\ SwapJobTypeOK' /\ ChainTypeOK'
  BY <1>3, <1>4 DEF SendStep
<1> QED BY <1>5, SameResOK DEF dbVars

\* The swap job, sending included.
LEMMA SwapStepOK ==
  ASSUME Inv, SwapStep
  PROVE  Inv'
<1>1. RestTypeOK /\ ResInv /\ TasksInv
  BY DEF Inv
<1>2. UNCHANGED <<verifyVars, resultVars, adminVars, crashes>>
  BY DEF SwapStep
<1>3. /\ reg' \in [Swaps -> RegStatus] /\ SwapJobTypeOK' /\ ChainTypeOK' /\ ResInv'
      /\ UNCHANGED minedOk
  <2>1. CASE ProduceStep /\ UNCHANGED chainVars
    BY <1>1, <2>1, ProduceStepOK DEF RestTypeOK, ChainTypeOK, chainVars
  <2>2. CASE ConsumeStep /\ UNCHANGED <<foundSwaps, chainVars>>
    BY <1>1, <2>2, ConsumeStepOK DEF RestTypeOK, ChainTypeOK, chainVars
  <2>3. CASE SendStep /\ UNCHANGED foundSwaps
    BY <1>1, <2>3, SendStepOK DEF RestTypeOK, RegisterTypeOK, dbVars
  <2> QED BY <2>1, <2>2, <2>3 DEF SwapStep, SwapJobNext
<1>4. TasksInv'
  BY <1>1, <1>2, <1>3, SameTasksOK
<1>5. RegisterTypeOK'
  BY <1>1, <1>2, <1>3 DEF RestTypeOK, RegisterTypeOK, verifyVars
<1> QED BY <1>1, <1>2, <1>3, <1>4, <1>5
        DEF Inv, RestTypeOK, resultVars, replaceVars, adminVars

-----------------------------------------------------------------------------
(* The jobs that follow a payout *)

\* The empty task is good.
LEMMA NoTaskOK ==
  ASSUME NEW s \in Swaps
  PROVE  SnapOK(s, NoResult) /\ TaskOK(s, NoTask)
<1>1. SnapOK(s, NoResult)
  BY InitialOK DEF NoResult, ResOK, SnapOK, ResStatus
<1> QED BY <1>1 DEF SnapOK, TaskOK, NoTask, NoMark, Tasks

\* A new task holds the result as it was read.
LEMMA QueuedOK ==
  ASSUME NEW s \in Swaps, NEW r, ResOK(s, r)
  PROVE  TaskOK(s, Queued(r))
BY DEF ResOK, SnapOK, TaskOK, Queued, NoMark, Tasks

\* A task may be about to mark its result stable only for a paid swap.
LEMMA ToMarkOK ==
  ASSUME NEW s \in Swaps, NEW t, TaskOK(s, t),
         NEW mark \in {"MatchTxStable", "MatchTxFailed"}, mark = "MatchTxStable" => Paid(s)
  PROVE  TaskOK(s, ToMark(t, mark))
<1>1. ToMark(t, mark) = [snap |-> t.snap, mark |-> mark]
  BY DEF ToMark, TaskOK, Tasks
<1> QED BY <1>1 DEF TaskOK, Tasks, SnapOK

\* The transactions getSwapTxStatus finds belong to the swap of the snapshot.
LEMMA FoundTxs ==
  ASSUME ChainTypeOK, NEW s \in Swaps, NEW r, SnapOK(s, r), NEW tx \in getSwapTxStatus(r)
  PROVE  tx \in Tx /\ tx # NoTx /\ tx.swap = s /\ (tx \notin minedFail => Paid(s))
<1>1. tx \in {r.swaptx} \cup r.old /\ OnChain(tx)
  BY DEF getSwapTxStatus
<1>2. tx \in Tx /\ tx # NoTx
  BY <1>1, NoTxAssumption DEF OnChain, ChainTypeOK
<1>3. tx.swap = s
  BY <1>1, <1>2 DEF SnapOK, OwnTxs, Tracked
<1> QED BY <1>1, <1>2, <1>3 DEF OnChain, Paid

\* Putting a good task into the stable queue keeps the queue good.
LEMMA SetStableTaskOK ==
  ASSUME StableTaskInv, NEW s \in Swaps, NEW t, TaskOK(s, t),
         stableTask' = [stableTask EXCEPT ![s] = t], UNCHANGED minedOk
  PROVE  StableTaskInv'
BY DEF StableTaskInv, TaskOK, Paid

\* Putting a good task into the replace queue keeps the queue good.
LEMMA SetReplaceTaskOK ==
  ASSUME ReplaceTaskInv, NEW s \in Swaps, NEW t, TaskOK(s, t),
         replaceTask' = [replaceTask EXCEPT ![s] = t], UNCHANGED minedOk
  PROVE  ReplaceTaskInv'
BY DEF ReplaceTaskInv, TaskOK, Paid

\* Putting a good snapshot into the list of the check failed swap job.
LEMMA SetFailedOK ==
  ASSUME FailedInv, NEW s \in Swaps, NEW r, SnapOK(s, r),
         failedFound' = [failedFound EXCEPT ![s] = r]
  PROVE  FailedInv'
BY DEF FailedInv, SnapOK

\* The stable job marks a result stable only after a successful receipt.
LEMMA StableStepOK ==
  ASSUME RestTypeOK, ResInv, StableTaskInv, NEW s \in Swaps, StableStep(s),
         UNCHANGED chainVars
  PROVE  reg' = reg /\ ResInv' /\ StableTaskInv'
<1>1. UNCHANGED minedOk /\ ChainTypeOK
  BY DEF chainVars, RestTypeOK
<1>2. ResOK(s, res[s]) /\ TaskOK(s, stableTask[s]) /\ SnapOK(s, stableTask[s].snap)
  BY DEF ResInv, StableTaskInv, TaskOK
<1>3. TaskOK(s, NoTask)
  BY NoTaskOK
<1>4. CASE StableDispatch(s)
  <2>1. ResInv' BY <1>1, <1>4, SameResOK DEF StableDispatch, dbVars
  <2>2. StableTaskInv'
    BY <1>1, <1>2, <1>4, QueuedOK, SetStableTaskOK DEF StableDispatch
  <2> QED BY <1>4, <2>1, <2>2 DEF StableDispatch, dbVars
<1>5. CASE StableWait(s)
  <2>1. ResInv' BY <1>1, <1>5, SameResOK DEF StableWait, StableDone, dbVars
  <2>2. StableTaskInv' BY <1>1, <1>3, <1>5, SetStableTaskOK DEF StableWait, StableDone
  <2> QED BY <1>5, <2>1, <2>2 DEF StableWait, StableDone, dbVars
<1>6. CASE StableNoncePassed(s)
  <2>1. ResInv' BY <1>1, <1>6, SameResOK DEF StableNoncePassed, StableTo, StableDone, dbVars
  <2>2. TaskOK(s, IF MayMarkFailed(s) THEN ToMark(stableTask[s], "MatchTxFailed") ELSE NoTask)
    BY <1>2, <1>3, ToMarkOK
  <2>3. StableTaskInv' BY <1>1, <1>6, <2>2, SetStableTaskOK DEF StableNoncePassed, StableTo, StableDone
  <2> QED BY <1>6, <2>1, <2>3 DEF StableNoncePassed, StableTo, StableDone, dbVars
<1>7. CASE StableRecord(s)
  <2>1. PICK tx \in getSwapTxStatus(stableTask[s].snap) :
          res' = [res EXCEPT ![s] = UpdateRouterSwapResult(@,
                    Update("KeepStatus", IF tx = stableTask[s].snap.swaptx THEN NoTx ELSE tx,
                           TRUE, 0))]
    BY <1>7 DEF StableRecord, StableDone
  <2>2. tx \in Tx /\ tx.swap = s
    BY <1>1, <1>2, FoundTxs
  <2> DEFINE new == IF tx = stableTask[s].snap.swaptx THEN NoTx ELSE tx
  <2>3. new \in Tx \cup {NoTx} /\ (new # NoTx => new.swap = s)
    BY <2>2
  <2>4. res' = [res EXCEPT ![s] = UpdateRouterSwapResult(res[s], Update("KeepStatus", new, TRUE, 0))]
    BY <2>1
  <2> HIDE DEF new
  <2>5. ResOK(s, UpdateRouterSwapResult(res[s], Update("KeepStatus", new, TRUE, 0)))
    BY <1>2, <2>3, UpdateOK
  <2>6. ResInv' BY <1>1, <2>4, <2>5, SetResOK
  <2>7. StableTaskInv' BY <1>1, <1>3, <1>7, SetStableTaskOK DEF StableRecord, StableDone
  <2> QED BY <1>7, <2>6, <2>7 DEF StableRecord, StableDone
<1>8. CASE StableConfirm(s)
  <2>1. PICK tx \in getSwapTxStatus(stableTask[s].snap) :
          /\ res' = IF tx = stableTask[s].snap.swaptx THEN res
                    ELSE [res EXCEPT ![s] =
                            UpdateRouterSwapResult(@, Update("KeepStatus", tx, FALSE, 0))]
          /\ stableTask' = [stableTask EXCEPT ![s] =
               ToMark(@, IF tx \in minedFail THEN "MatchTxFailed" ELSE "MatchTxStable")]
    BY <1>8 DEF StableConfirm, StableTo
  <2>2. tx \in Tx /\ tx.swap = s /\ (tx \notin minedFail => Paid(s))
    BY <1>1, <1>2, FoundTxs
  <2>3. ResOK(s, UpdateRouterSwapResult(res[s], Update("KeepStatus", tx, FALSE, 0)))
    BY <1>2, <2>2, UpdateOK
  <2>4. ResInv'
    <3>1. CASE res' = res
      BY <1>1, <3>1, SameResOK
    <3>2. CASE res' = [res EXCEPT ![s] =
                         UpdateRouterSwapResult(res[s], Update("KeepStatus", tx, FALSE, 0))]
      BY <1>1, <2>3, <3>2, SetResOK
    <3> QED BY <2>1, <3>1, <3>2
  <2>5. TaskOK(s, ToMark(stableTask[s],
                    IF tx \in minedFail THEN "MatchTxFailed" ELSE "MatchTxStable"))
    <3>1. CASE tx \in minedFail
      BY <1>2, <3>1, ToMarkOK
    <3>2. CASE tx \notin minedFail
      BY <1>2, <2>2, <3>2, ToMarkOK
    <3> QED BY <3>1, <3>2
  <2>6. StableTaskInv' BY <1>1, <2>1, <2>5, SetStableTaskOK
  <2> QED BY <1>8, <2>4, <2>6 DEF StableConfirm, StableTo
<1>9. CASE StableMark(s)
  <2>1. /\ stableTask[s].mark \in {"MatchTxStable", "MatchTxFailed"}
        /\ stableTask[s].mark = "MatchTxStable" => Paid(s)
    BY <1>2, <1>9 DEF StableMark, StableDone, TaskOK, Tasks, NoMark
  <2>2. ResInv' BY <1>1, <1>9, <2>1, SetResStatusOK DEF StableMark, StableDone, ResStatus
  <2>3. StableTaskInv' BY <1>1, <1>3, <1>9, SetStableTaskOK DEF StableMark, StableDone
  <2> QED BY <1>9, <2>2, <2>3 DEF StableMark, StableDone
<1> QED BY <1>4, <1>5, <1>6, <1>7, <1>8, <1>9 DEF StableStep

\* A replacement is a transaction of the swap with the nonce of the snapshot.
LEMMA ReplaceOK ==
  ASSUME RestTypeOK, NEW s \in Swaps, NEW r, SnapOK(s, r), NEW m, Replace(s, r, m)
  PROVE  txCount' \in Nat /\ replacing' \subseteq Tx
<1>1. r.nonce \in Nat /\ txCount \in Nat /\ replacing \subseteq Tx
  BY DEF SnapOK, SwapResults, RestTypeOK, SwapJobTypeOK
<1>2. [swap |-> s, nonce |-> r.nonce, id |-> txCount + 1] \in Tx
  BY <1>1 DEF Tx
<1> QED BY <1>1, <1>2 DEF Replace

\* The replace job and the replaceswap call.
LEMMA ReplaceStepOK ==
  ASSUME RestTypeOK, ResInv, ReplaceTaskInv, NEW s \in Swaps, ReplaceStep(s),
         UNCHANGED chainVars
  PROVE  /\ reg' \in [Swaps -> RegStatus] /\ ResInv' /\ ReplaceTaskInv'
         /\ txCount' \in Nat /\ replacing' \subseteq Tx
<1>1. /\ UNCHANGED minedOk /\ reg \in [Swaps -> RegStatus] /\ txCount \in Nat
      /\ replacing \subseteq Tx
  BY DEF chainVars, RestTypeOK, RegisterTypeOK, SwapJobTypeOK
<1>2. /\ ResOK(s, res[s]) /\ SnapOK(s, res[s]) /\ TaskOK(s, replaceTask[s])
      /\ SnapOK(s, replaceTask[s].snap)
  BY DEF ResInv, ResOK, SnapOK, ReplaceTaskInv, TaskOK
<1>3. TaskOK(s, NoTask)
  BY NoTaskOK
<1>4. CASE ReplaceDispatch(s)
  <2>1. ResInv' BY <1>1, <1>4, SameResOK DEF ReplaceDispatch, dbVars
  <2>2. ReplaceTaskInv'
    BY <1>1, <1>2, <1>4, QueuedOK, SetReplaceTaskOK DEF ReplaceDispatch
  <2> QED BY <1>1, <1>4, <2>1, <2>2 DEF ReplaceDispatch, dbVars
<1>5. CASE ReplaceStart(s)
  <2>1. ResInv' BY <1>1, <1>5, SameResOK DEF ReplaceStart, ReplaceDone, dbVars
  <2>2. ReplaceTaskInv' BY <1>1, <1>3, <1>5, SetReplaceTaskOK DEF ReplaceStart, ReplaceDone
  <2>3. txCount' \in Nat /\ replacing' \subseteq Tx
    BY <1>2, <1>5, ReplaceOK DEF ReplaceStart, ReplaceDone
  <2> QED BY <1>1, <1>5, <2>1, <2>2, <2>3 DEF ReplaceStart, ReplaceDone, dbVars
<1>6. CASE ReplaceDrop(s)
  <2>1. ResInv' BY <1>1, <1>6, SameResOK DEF ReplaceDrop, ReplaceDone, dbVars
  <2>2. ReplaceTaskInv' BY <1>1, <1>3, <1>6, SetReplaceTaskOK DEF ReplaceDrop, ReplaceDone
  <2> QED BY <1>1, <1>6, <2>1, <2>2 DEF ReplaceDrop, ReplaceDone, dbVars
<1>7. CASE ReplaceBlacked(s)
  <2>1. ResInv' BY <1>1, <1>7, SetResStatusOK DEF ReplaceBlacked, ReplaceDone, ResStatus
  <2>2. ReplaceTaskInv' BY <1>1, <1>3, <1>7, SetReplaceTaskOK DEF ReplaceBlacked, ReplaceDone
  <2>3. reg' \in [Swaps -> RegStatus]
    BY <1>1, <1>7, SetRegOK DEF ReplaceBlacked, ReplaceDone, RegStatus
  <2> QED BY <1>1, <1>7, <2>1, <2>2, <2>3 DEF ReplaceBlacked, ReplaceDone
<1>8. CASE ReplaceNoncePassed(s)
  <2>1. ResInv' BY <1>1, <1>8, SameResOK DEF ReplaceNoncePassed, dbVars
  <2>2. TaskOK(s, ToMark(replaceTask[s], "MatchTxFailed"))
    BY <1>2, ToMarkOK
  <2>3. ReplaceTaskInv' BY <1>1, <1>8, <2>2, SetReplaceTaskOK DEF ReplaceNoncePassed
  <2> QED BY <1>1, <1>8, <2>1, <2>3 DEF ReplaceNoncePassed, dbVars
<1>9. CASE ReplaceMark(s)
  <2>1. /\ replaceTask[s].mark \in {"MatchTxStable", "MatchTxFailed"}
        /\ replaceTask[s].mark = "MatchTxStable" => Paid(s)
    BY <1>2, <1>9 DEF ReplaceMark, ReplaceDone, TaskOK, Tasks, NoMark
  <2>2. ResInv' BY <1>1, <1>9, <2>1, SetResStatusOK DEF ReplaceMark, ReplaceDone, ResStatus
  <2>3. ReplaceTaskInv' BY <1>1, <1>3, <1>9, SetReplaceTaskOK DEF ReplaceMark, ReplaceDone
  <2> QED BY <1>1, <1>9, <2>2, <2>3 DEF ReplaceMark, ReplaceDone
<1>10. CASE AdminReplace(s)
  <2>1. ReplaceTaskInv'
    BY <1>1, <1>10 DEF AdminReplace, ReplaceTaskInv, TaskOK, Paid
  <2>2. CASE Replace(s, res[s], TRUE) /\ UNCHANGED dbVars
    <3>1. ResInv' BY <1>1, <2>2, SameResOK DEF dbVars
    <3>2. txCount' \in Nat /\ replacing' \subseteq Tx
      BY <1>2, <2>2, ReplaceOK
    <3> QED BY <1>1, <2>1, <2>2, <3>1, <3>2 DEF dbVars
  <2>3. CASE SetResStatus(s, "MatchTxFailed") /\ UNCHANGED <<reg, txCount, replacing>>
    <3>1. ResInv' BY <1>1, <2>3, SetResStatusOK DEF ResStatus
    <3> QED BY <1>1, <2>1, <2>3, <3>1
  <2>4. CASE /\ SetReg(s, "SwapInBlacklist") /\ SetResStatus(s, "SwapInBlacklist")
             /\ UNCHANGED <<txCount, replacing>>
    <3>1. ResInv' BY <1>1, <2>4, SetResStatusOK DEF ResStatus
    <3>2. reg' \in [Swaps -> RegStatus]
      BY <1>1, <2>4, SetRegOK DEF RegStatus
    <3> QED BY <1>1, <2>1, <2>4, <3>1, <3>2
  <2> QED BY <1>10, <2>2, <2>3, <2>4 DEF AdminReplace
<1> QED BY <1>4, <1>5, <1>6, <1>7, <1>8, <1>9, <1>10 DEF ReplaceStep

\* The check failed swap job declares a result stable only for a successful receipt.
LEMMA FailedStepOK ==
  ASSUME RestTypeOK, ResInv, FailedInv, NEW s \in Swaps, FailedFind(s) \/ FailedCheck(s),
         UNCHANGED chainVars
  PROVE  reg' = reg /\ ResInv' /\ FailedInv'
<1>1. UNCHANGED minedOk /\ ChainTypeOK
  BY DEF chainVars, RestTypeOK
<1>2. SnapOK(s, res[s]) /\ SnapOK(s, failedFound[s]) /\ SnapOK(s, NoResult)
  BY NoTaskOK DEF ResInv, ResOK, SnapOK, FailedInv
<1>3. CASE FailedFind(s)
  <2>1. ResInv' BY <1>1, <1>3, SameResOK DEF FailedFind, dbVars
  <2>2. FailedInv' BY <1>2, <1>3, SetFailedOK DEF FailedFind
  <2> QED BY <1>3, <2>1, <2>2 DEF FailedFind, dbVars
<1>4. CASE FailedCheck(s)
  <2>1. PICK status \in FailedVerdicts(failedFound[s]) :
          IF status = NoMark THEN UNCHANGED res ELSE SetResStatus(s, status)
    BY <1>4 DEF FailedCheck
  <2>2. /\ status \in {NoMark, "MatchTxNotStable", "MatchTxStable"}
        /\ status = "MatchTxStable" => Paid(s)
    <3> DEFINE r == failedFound[s]
    <3>1. \A tx \in getSwapTxStatus(r) : tx \notin minedFail => Paid(s)
      BY <1>1, <1>2, FoundTxs
    <3> HIDE DEF r
    <3>2. CASE status \in {NoMark, "MatchTxNotStable"}
      BY <3>2 DEF NoMark
    <3>3. CASE \E tx \in getSwapTxStatus(r) :
                 status \in IF tx \in minedFail THEN {NoMark}
                           ELSE {"MatchTxNotStable", "MatchTxStable"}
      BY <3>1, <3>3 DEF NoMark
    <3>4. status \in FailedVerdicts(r)
      BY <2>1 DEF r
    <3> QED BY <3>2, <3>3, <3>4 DEF FailedVerdicts
  <2>3. ResInv'
    <3>1. CASE status = NoMark
      BY <1>1, <2>1, <3>1, SameResOK
    <3>2. CASE status # NoMark
      BY <1>1, <2>1, <2>2, <3>2, SetResStatusOK DEF ResStatus
    <3> QED BY <3>1, <3>2
  <2>4. FailedInv' BY <1>2, <1>4, SetFailedOK DEF FailedCheck
  <2> QED BY <1>4, <2>3, <2>4 DEF FailedCheck
<1> QED BY <1>3, <1>4

\* The jobs that follow a payout, together.
LEMMA ResultStepOK ==
  ASSUME Inv, ResultStep
  PROVE  Inv'
<1>1. /\ RestTypeOK /\ ResInv /\ TasksInv /\ StableTaskInv /\ ReplaceTaskInv /\ FailedInv
      /\ RegisterTypeOK /\ ChainTypeOK /\ SwapJobTypeOK
  BY DEF Inv, TasksInv, RestTypeOK
<1>2. UNCHANGED <<verifyVars, adminVars, crashes>>
  BY DEF ResultStep
<1>3. ASSUME NEW s \in Swaps, StableStep(s),
             UNCHANGED <<swapVars, sendVars, chainVars, replaceVars, failedFound>>
      PROVE  Inv'
  <2>1. reg' = reg /\ ResInv' /\ StableTaskInv'
    BY <1>1, <1>3, StableStepOK
  <2>2. ReplaceTaskInv' /\ FailedInv'
    BY <1>1, <1>3 DEF ReplaceTaskInv, FailedInv, TaskOK, Paid, chainVars, replaceVars
  <2>3. RestTypeOK'
    BY <1>1, <1>2, <1>3, <2>1 DEF RestTypeOK, RegisterTypeOK, ChainTypeOK, SwapJobTypeOK,
       adminVars, verifyVars, swapVars, sendVars, chainVars, replaceVars
  <2> QED BY <2>1, <2>2, <2>3 DEF Inv, TasksInv
<1>4. ASSUME NEW s \in Swaps, ReplaceStep(s),
             UNCHANGED <<foundSwaps, cached, swapTasks, doPc, doTx, swapNonce, recycleNonce, sendVars,
                         chainVars, stableTask, failedFound>>
      PROVE  Inv'
  <2>1. /\ reg' \in [Swaps -> RegStatus] /\ ResInv' /\ ReplaceTaskInv'
        /\ txCount' \in Nat /\ replacing' \subseteq Tx
    BY <1>1, <1>4, ReplaceStepOK
  <2>2. StableTaskInv' /\ FailedInv'
    BY <1>1, <1>4 DEF StableTaskInv, FailedInv, TaskOK, Paid, chainVars
  <2>3. RestTypeOK'
    BY <1>1, <1>2, <1>4, <2>1 DEF RestTypeOK, RegisterTypeOK, ChainTypeOK, SwapJobTypeOK,
       adminVars, verifyVars, sendVars, chainVars
  <2> QED BY <2>1, <2>2, <2>3 DEF Inv, TasksInv
<1>5. ASSUME NEW s \in Swaps, FailedFind(s) \/ FailedCheck(s),
             UNCHANGED <<swapVars, queueVars, sendVars, chainVars, stableTask, replaceVars>>
      PROVE  Inv'
  <2>1. reg' = reg /\ ResInv' /\ FailedInv'
    BY <1>1, <1>5, FailedStepOK
  <2>2. StableTaskInv' /\ ReplaceTaskInv'
    BY <1>1, <1>5 DEF StableTaskInv, ReplaceTaskInv, TaskOK, Paid, chainVars, replaceVars
  <2>3. RestTypeOK'
    BY <1>1, <1>2, <1>5, <2>1 DEF RestTypeOK, RegisterTypeOK, ChainTypeOK, SwapJobTypeOK,
       adminVars, verifyVars, swapVars, sendVars, chainVars, replaceVars
  <2> QED BY <2>1, <2>2, <2>3 DEF Inv, TasksInv
<1>6. ASSUME NEW tx \in replacing, ReplaceSign(tx) \/ ReplaceSignFails(tx),
             UNCHANGED <<foundSwaps, cached, taskVars, doPc, doTx, swapNonce, recycleNonce, signing, loops,
                         loopSeen, chainVars, stableTask, failedFound>>
      PROVE  Inv'
  <2>1. tx \in Tx /\ tx.swap \in Swaps
    BY <1>1, TxType DEF RestTypeOK
  <2>2. ResOK(tx.swap, UpdateRouterOldSwapTxs(res[tx.swap], tx))
    BY <1>1, <2>1, OldTxsOK DEF ResInv
  <2>3. ResInv'
    <3>1. CASE ReplaceSign(tx)
      BY <1>1, <1>6, <2>1, <2>2, <3>1, SetResOK DEF ReplaceSign, chainVars
    <3>2. CASE ReplaceSignFails(tx)
      BY <1>1, <1>6, <3>2, SameResOK DEF ReplaceSignFails, dbVars, chainVars
    <3> QED BY <1>6, <3>1, <3>2
  <2>4. /\ UNCHANGED <<reg, txCount, replaceTask>>
        /\ replacing' \subseteq Tx /\ sending' \subseteq Tx
    BY <1>1, <1>6, <2>1 DEF ReplaceSign, ReplaceSignFails, dbVars, RestTypeOK, SwapJobTypeOK
  <2>5. TasksInv'
    BY <1>1, <1>6, <2>4 DEF TasksInv, StableTaskInv, ReplaceTaskInv, FailedInv, TaskOK,
       Paid, chainVars
  <2>6. RestTypeOK'
    BY <1>1, <1>2, <1>6, <2>4 DEF RestTypeOK, RegisterTypeOK, ChainTypeOK, SwapJobTypeOK,
       adminVars, verifyVars, chainVars, taskVars
  <2> QED BY <2>3, <2>5, <2>6 DEF Inv
<1>7. ASSUME NEW s \in Swaps, RecycleSwapNonce(s),
             UNCHANGED <<foundSwaps, cached, swapTasks, doPc, doTx, swapNonce, sendVars, chainVars,
                         stableTask, failedFound>>
      PROVE  Inv'
  <2>1. ResInv'
    BY <1>1, <1>7, SameResOK DEF RecycleSwapNonce, dbVars, chainVars
  <2>2. ReplaceTaskInv'
    BY <1>1, <1>7, NoTaskOK, SetReplaceTaskOK DEF RecycleSwapNonce, chainVars
  <2>3. StableTaskInv' /\ FailedInv'
    BY <1>1, <1>7 DEF StableTaskInv, FailedInv, TaskOK, Paid, chainVars
  <2>4. recycleNonce' \in Nat
    BY <1>1, <1>7 DEF RecycleSwapNonce, SwapJobTypeOK, ReplaceTaskInv, TaskOK, SnapOK, SwapResults
  <2>5. RestTypeOK'
    BY <1>1, <1>2, <1>7, <2>4 DEF RecycleSwapNonce, RestTypeOK, RegisterTypeOK, ChainTypeOK,
       SwapJobTypeOK, adminVars, dbVars, verifyVars, sendVars, chainVars
  <2> QED BY <2>1, <2>2, <2>3, <2>5 DEF Inv, TasksInv
<1> QED BY <1>3, <1>4, <1>5, <1>6, <1>7 DEF ResultStep, ResultJobsNext

-----------------------------------------------------------------------------
(* The administrator, the chain and a crash *)

\* The reswap and forbid calls of the administrator.
LEMMA AdminStepOK ==
  ASSUME Inv, AdminStep
  PROVE  Inv'
<1>1. /\ RestTypeOK /\ ResInv /\ TasksInv /\ RegisterTypeOK
      /\ reg \in [Swaps -> RegStatus] /\ cached \subseteq Swaps /\ reswapping \subseteq Swaps
      /\ reswapChecked \subseteq Swaps \X Nat
  BY DEF Inv, RestTypeOK, RegisterTypeOK, SwapJobTypeOK
<1>2. UNCHANGED <<verifyVars, chainVars, foundSwaps, taskVars, doPc, doTx, swapNonce, recycleNonce,
                  txCount, sendVars, resultVars, crashes>>
  BY DEF AdminStep
<1>3. UNCHANGED minedOk
  BY <1>2 DEF chainVars
<1>4. TasksInv'
  BY <1>1, <1>2, <1>3, SameTasksOK
<1>5. PICK s \in Swaps :
         \/ /\ \/ ReswapRefused(s) \/ ReswapLookup(s) \/ ForbidSwap(s)
               \/ \E nonce \in {c[2] : c \in reswapChecked} : RouterAdminReswap(s, nonce)
            /\ UNCHANGED cached
         \/ ReswapFinish(s)
  BY DEF AdminStep
<1>6. /\ reg' \in [Swaps -> RegStatus] /\ ResInv' /\ cached' \subseteq Swaps
      /\ reswapping' \subseteq Swaps /\ reswapChecked' \subseteq Swaps \X Nat
  <2>1. CASE ReswapRefused(s) /\ UNCHANGED cached
    <3>1. ResInv' BY <1>1, <1>3, <2>1, SetResStatusOK DEF ReswapRefused, ResStatus
    <3> QED BY <1>1, <2>1, <3>1 DEF ReswapRefused, adminVars
  <2>2. CASE ReswapLookup(s) /\ UNCHANGED cached
    <3>1. ResInv' BY <1>1, <1>3, <2>2, SameResOK DEF ReswapLookup, dbVars
    <3>2. res[s].nonce \in Nat
      BY <1>1 DEF ResInv, SwapResults
    <3> QED BY <1>1, <2>2, <3>1, <3>2 DEF ReswapLookup, dbVars
  <2>3. ASSUME NEW nonce, RouterAdminReswap(s, nonce), UNCHANGED cached
        PROVE  /\ reg' \in [Swaps -> RegStatus] /\ ResInv' /\ cached' \subseteq Swaps
               /\ reswapping' \subseteq Swaps /\ reswapChecked' \subseteq Swaps \X Nat
    <3>1. CASE chainNonce <= nonce
      BY <1>1, <1>3, <2>3, <3>1, SameResOK DEF RouterAdminReswap, dbVars
    <3>2. CASE ~(chainNonce <= nonce)
      <4>1. ResInv'
        BY <1>1, <1>3, <2>3, <3>2, SetResStatusOK DEF RouterAdminReswap, ResStatus
      <4> QED BY <1>1, <2>3, <3>2, <4>1 DEF RouterAdminReswap
    <3> QED BY <3>1, <3>2
  <2>4. CASE ForbidSwap(s) /\ UNCHANGED cached
    <3>1. ResInv' BY <1>1, <1>3, <2>4, SetResStatusOK DEF ForbidSwap, ResStatus
    <3>2. reg' \in [Swaps -> RegStatus]
      BY <1>1, <2>4, SetRegOK DEF ForbidSwap, RegStatus
    <3> QED BY <1>1, <2>4, <3>1, <3>2 DEF ForbidSwap, adminVars
  <2>5. CASE ReswapFinish(s)
    <3>1. ResInv' BY <1>1, <1>3, <2>5, SameResOK DEF ReswapFinish
    <3>2. reg' \in [Swaps -> RegStatus]
      BY <1>1, <2>5, SetRegOK DEF ReswapFinish, RegStatus
    <3> QED BY <1>1, <2>5, <3>1, <3>2 DEF ReswapFinish
  <2> QED BY <1>5, <2>1, <2>2, <2>3, <2>4, <2>5
<1>7. RestTypeOK'
  BY <1>1, <1>2, <1>6 DEF RestTypeOK, RegisterTypeOK, ChainTypeOK, SwapJobTypeOK,
     verifyVars, sendVars, chainVars, resultVars, replaceVars, taskVars
<1> QED BY <1>4, <1>6, <1>7 DEF Inv

\* A payout stays mined.
LEMMA ChainStepOK ==
  ASSUME Inv, ChainStep
  PROVE  Inv'
<1>1. UNCHANGED <<dbVars, verifyVars, swapVars, queueVars, sendVars, resultVars, adminVars, crashes>>
  BY DEF ChainStep
<1>2. ChainTypeOK' /\ minedOk \subseteq minedOk'
  BY DEF ChainStep, ChainNext, Mine, OtherTx, ChainTypeOK, Inv, RestTypeOK
<1>3. \A s \in Swaps : Paid(s) => Paid(s)'
  BY <1>2 DEF Paid
<1>4. ResInv'
  BY <1>1, <1>3 DEF Inv, ResInv, ResOK, dbVars
<1>5. TasksInv'
  BY <1>1, <1>3 DEF Inv, TasksInv, StableTaskInv, ReplaceTaskInv, FailedInv, TaskOK,
     resultVars, replaceVars
<1>6. RestTypeOK'
  BY <1>1, <1>2 DEF Inv, RestTypeOK, RegisterTypeOK, SwapJobTypeOK, dbVars,
     verifyVars, swapVars, sendVars, resultVars, replaceVars, adminVars
<1> QED BY <1>4, <1>5, <1>6 DEF Inv

\* A crash empties every queue and leaves the documents alone.
LEMMA CrashOK ==
  ASSUME Inv, Crash
  PROVE  Inv'
<1>1. UNCHANGED <<dbVars, chainVars, txCount>> /\ UNCHANGED minedOk
  BY DEF Crash, chainVars
<1>2. ResInv'
  BY <1>1, SameResOK DEF Inv, dbVars
<1>3. TasksInv'
  <2>1. \A s \in Swaps : TaskOK(s, NoTask) /\ SnapOK(s, NoResult)
    BY NoTaskOK
  <2>2. /\ stableTask' = [s \in Swaps |-> NoTask] /\ replaceTask' = [s \in Swaps |-> NoTask]
        /\ failedFound' = [s \in Swaps |-> NoResult]
    BY DEF Crash
  <2> QED BY <1>1, <2>1, <2>2
          DEF TasksInv, StableTaskInv, ReplaceTaskInv, FailedInv, TaskOK, SnapOK, Paid
<1>4. swapNonce' \in Nat
  BY PoolNoncesType DEF Crash, InitSwapNonce, Inv, RestTypeOK
<1>5. RestTypeOK'
  BY <1>1, <1>4 DEF Crash, Inv, RestTypeOK, RegisterTypeOK, ChainTypeOK, SwapJobTypeOK,
     dbVars, chainVars
<1> QED BY <1>2, <1>3, <1>5 DEF Inv

-----------------------------------------------------------------------------
(* The theorems *)

\* A fresh server on an empty database.
LEMMA InitOK == Init => Inv
<1> SUFFICES ASSUME Init PROVE Inv
  OBVIOUS
<1>1. ResInv
  BY InitialOK DEF Init, RegisterInit, NoResult, ResInv, ResOK, ResStatus
<1>2. TasksInv
  BY NoTaskOK DEF Init, ResultJobsInit, TasksInv, StableTaskInv, ReplaceTaskInv,
     FailedInv, TaskOK, SnapOK
<1>3. RestTypeOK
  BY NonceAssumption DEF Init, RegisterInit, ChainInit, SwapJobInit, ResultJobsInit,
     RestTypeOK, RegisterTypeOK, ChainTypeOK, SwapJobTypeOK, RegStatus
<1> QED BY <1>1, <1>2, <1>3 DEF Inv

\* Every step of the server and of the chain preserves the invariant.
LEMMA NextOK == Inv /\ [Next]_vars => Inv'
<1> SUFFICES ASSUME Inv, [Next]_vars PROVE Inv'
  OBVIOUS
<1>1. CASE UNCHANGED vars
  BY <1>1 DEF vars, Inv, RestTypeOK, RegisterTypeOK, ChainTypeOK, SwapJobTypeOK, ResInv,
     ResOK, TasksInv, StableTaskInv, ReplaceTaskInv, FailedInv, TaskOK, Paid
<1> QED BY <1>1, RegisterStepOK, SwapStepOK, ResultStepOK, AdminStepOK, ChainStepOK,
           CrashOK DEF Next

\* The inductive invariant holds in every behaviour: no document and no snapshot
\* knows a transaction of another swap, and no job is about to mark an unpaid swap
\* stable.
THEOREM Invariant == Spec => []Inv
BY InitOK, NextOK, PTL DEF Spec

\* What a step may do with the keys of the tasks in the queues.
KeysStep ==
  \/ UNCHANGED queueVars
  \/ \E job \in Jobs :
       \/ MovesOn(job)
       \/ \E s \in Swaps : QueueTask(job, s)
       \/ \E s : RemoveKey(job, s)

\* Every step of a job handles the keys of its own queue.
LEMMA KeysOfJobs ==
  ASSUME SwapStep \/ ResultStep
  PROVE  KeysStep
<1>1. {"swap", "stable", "replace"} = Jobs
  BY DEF Jobs
<1>2. CASE SwapStep
  <2>1. CASE ProduceStep
    BY <1>1, <2>1 DEF ProduceStep, SwapFind, SwapIgnore, SwapDispatch, SwapNoResult, SwapBlacked,
       KeysStep
  <2>2. CASE ConsumeStep
    <3>1. ASSUME NEW s, NEW ok, Finish(s, ok)
          PROVE  KeysStep
      BY <1>1, <3>1 DEF Finish, KeysStep
    <3>2. ASSUME NEW s \in Swaps, DoSwapBuild(s) \/ DoSwapBuildFails(s) \/ DoSwapParallel(s)
          PROVE  KeysStep
      BY <1>1, <3>2 DEF DoSwapBuild, DoSwapBuildFails, DoSwapParallel, KeysStep, taskVars
    <3>3. CASE DoSwapSignFails \/ reverifySwap
      BY <3>1, <3>3 DEF DoSwapSignFails, reverifySwap
    <3>4. CASE DoSwapDisagree \/ DoSwapSign \/ DoSwapUpdateStatus
      BY <3>4 DEF DoSwapDisagree, DoSwapSign, DoSwapUpdateStatus, KeysStep, taskVars
    <3>5. CASE DoSwapRecheck
      BY <3>1, <3>5 DEF DoSwapRecheck, KeysStep, taskVars
    <3>6. CASE DoSwapUpdateResult
      BY <3>1, <3>6 DEF DoSwapUpdateResult, KeysStep, taskVars
    <3>7. ASSUME NEW tx, SignParallelFails(tx) \/ SignParallel(tx) \/ LoopSee(tx) \/ LoopGiveUp(tx)
          PROVE  KeysStep
      BY <3>7 DEF SignParallelFails, SignParallel, LoopSee, LoopGiveUp, KeysStep
    <3>8. ASSUME NEW tx, NEW hash, LoopRecord(tx, hash)
          PROVE  KeysStep
      BY <3>8 DEF LoopRecord, KeysStep
    <3> QED BY <2>2, <3>2, <3>3, <3>4, <3>5, <3>6, <3>7, <3>8 DEF ConsumeStep
  <2>3. CASE SendStep
    BY <1>1, <2>3 DEF SendStep, DoSwapSend, SendParallel, Finish, KeysStep, taskVars
  <2> QED BY <1>2, <2>1, <2>2, <2>3 DEF SwapStep, SwapJobNext
<1>3. CASE ResultStep
  <2>1. ASSUME NEW s \in Swaps, StableStep(s)
        PROVE  KeysStep
    BY <1>1, <2>1 DEF StableStep, StableDispatch, StableWait, StableNoncePassed, StableRecord,
       StableConfirm, StableMark, StableDone, StableTo, KeysStep
  <2>2. ASSUME NEW s \in Swaps, ReplaceStep(s)
        PROVE  KeysStep
    BY <1>1, <2>2 DEF ReplaceStep, ReplaceDispatch, ReplaceStart, ReplaceDrop, ReplaceBlacked,
       ReplaceNoncePassed, ReplaceMark, AdminReplace, ReplaceDone, KeysStep
  <2>3. ASSUME NEW s \in Swaps, RecycleSwapNonce(s)
        PROVE  KeysStep
    BY <2>3 DEF RecycleSwapNonce, KeysStep
  <2>4. CASE UNCHANGED queueVars \/ UNCHANGED taskVars
    BY <2>4 DEF KeysStep, taskVars
  <2> QED BY <1>3, <2>1, <2>2, <2>3, <2>4 DEF ResultStep, ResultJobsNext, taskVars
<1> QED BY <1>2, <1>3

\* The keys of the tasks are sets of swaps.
LEMMA QueueNextOK ==
  ASSUME QueueTypeOK, [Next]_vars
  PROVE  QueueTypeOK'
<1>1. CASE KeysStep
  BY <1>1 DEF KeysStep, QueueTypeOK, queueVars, MovesOn, QueueTask, RemoveKey
<1>2. CASE Crash
  BY <1>2 DEF Crash, QueueTypeOK
<1>3. CASE UNCHANGED queueVars
  BY <1>3 DEF KeysStep, QueueTypeOK, queueVars
<1> QED BY <1>1, <1>2, <1>3, KeysOfJobs
        DEF Next, vars, queueVars, RegisterStep, AdminStep, taskVars, ChainStep

\* Every variable keeps its type, for every set of swaps and every configuration.
THEOREM TypeCorrect == Spec => []TypeOK
<1>1. Inv /\ QueueTypeOK => TypeOK
  BY DEF Inv, RestTypeOK, ResInv, TasksInv, StableTaskInv, ReplaceTaskInv, FailedInv,
     TypeOK, ResultJobsTypeOK
<1>2. Init => QueueTypeOK
  BY DEF Init, SwapJobInit, QueueTypeOK
<1> QED BY <1>1, <1>2, Invariant, QueueNextOK, PTL DEF Spec

\* markSwapResultStable and checkFailedRouterSwap declare a swap stable only when a
\* successful payout transaction of that swap was mined, for any number of swaps, with
\* sequential or parallel signing, crashes, replacements and unrestricted reswaps.
THEOREM StableIsPaid == Spec => []StableMeansPaid
<1>1. Inv => StableMeansPaid
  BY DEF Inv, ResInv, ResOK, StableMeansPaid
<1> QED BY <1>1, Invariant, PTL

-----------------------------------------------------------------------------
(***************************************************************************)
(* No swap is paid twice, for every set of swaps, any number of            *)
(* transactions, replacements, crashes and reswaps, when the swap job signs*)
(* one transaction at a time.                                              *)
(*                                                                         *)
(* Two facts carry the proof.  The transactions of a swap that can still be*)
(* mined all have the nonce of its result document, so the chain takes one *)
(* of them at most; and the document keeps each of them, in swaptx as long *)
(* as nothing was replaced and in oldswaptxs afterwards, so a reswap that  *)
(* looks them up finds a success.                                          *)
(***************************************************************************)

\* A transaction the document does not forget when swaptx is written again.
Kept(r, tx) == IF r.old = {} THEN tx = r.swaptx ELSE tx \in r.old
KeptBy(r, tx) == tx.nonce = r.nonce /\ Kept(r, tx)

\* A result document has transactions once it has a nonce, all of them with that nonce;
\* its status tells whether it has one.  The account's nonce is top.
PayoutRes(r, top) ==
  /\ r.nonce = 0 => r.swaptx = NoTx /\ r.old = {}
  /\ r.nonce # 0 => r.swaptx # NoTx /\ Kept(r, r.swaptx)
  /\ \A tx \in Tracked(r) : tx.nonce = r.nonce
  /\ r.status \in {"None", "MatchTxEmpty", "Reswapping", "SwapoutForbidden"} => r.nonce = 0
  /\ r.status \in {"MatchTxNotStable", "MatchTxStable", "MatchTxFailed"} => r.nonce # 0
  /\ r.status = "MatchTxFailed" => r.nonce < top

\* A snapshot q of r has the nonce of the document and knows nothing the document forgot.
Snapshot(r, q) ==
  /\ q.nonce = r.nonce
  /\ q.nonce # 0
  /\ \A tx \in Tracked(q) : Kept(r, tx)

PayoutTask(r, t, top) ==
  t # NoTask => /\ Snapshot(r, t.snap)
                /\ t.mark = "MatchTxFailed" => t.snap.nonce < top

PayoutResInv == \A s \in Swaps : PayoutRes(res[s], chainNonce)

\* The transactions that some goroutine is about to send or to record.
Live == loops \cup loopSeen \cup sending \cup DoSending

LiveInv ==
  /\ signing = {}
  /\ \A tx \in Live : KeptBy(res[tx.swap], tx)
  /\ \A tx \in replacing : tx.nonce = res[tx.swap].nonce /\ tx.nonce # 0

MinedInv ==
  /\ \A tx \in pool : Minable(tx) => KeptBy(res[tx.swap], tx)
  /\ \A tx \in minedOk : KeptBy(res[tx.swap], tx)
  /\ \A tx \in minedOk \cup minedFail : tx.nonce < chainNonce
  /\ \A t1, t2 \in minedOk \cup minedFail : t1.nonce = t2.nonce => t1 = t2
  /\ minedOk \cap minedFail = {}

SnapInv ==
  \A s \in Swaps : /\ PayoutTask(res[s], stableTask[s], chainNonce)
                   /\ PayoutTask(res[s], replaceTask[s], chainNonce)
                   /\ failedFound[s] # NoResult => Snapshot(res[s], failedFound[s])

DoInv ==
  /\ swapNonce # 0 /\ chainNonce # 0
  /\ doPc # "idle" => doTx.nonce # 0
  /\ doPc = "update" => ResultExists(res[doTx.swap]) /\ res[doTx.swap].nonce = 0

\* A reswap call has seen that the nonce passed and that the swap is not paid.
Checked(c) ==
  /\ c[2] = res[c[1]].nonce
  /\ c[2] # 0 /\ c[2] < chainNonce
  /\ ~Paid(c[1])

CheckedInv == \A c \in reswapChecked : Checked(c)

PayoutInv == PayoutResInv /\ LiveInv /\ MinedInv /\ SnapInv /\ DoInv /\ CheckedInv

\* The nonces given out are below the next one; the consumer counts its own when it sends.
NonceInv ==
  /\ \A s \in Swaps : \/ res[s].nonce < swapNonce
                      \/ doPc \in {"status", "send"} /\ s = doTx.swap
  /\ doPc \in {"sign", "reverify", "recheck", "update"} => doTx.nonce >= swapNonce

-----------------------------------------------------------------------------
(* What the update functions of the database do to the transactions *)

\* The document r may become q: it keeps its nonce and its transactions and is not reset.
Grows(r, q) ==
  /\ r.nonce # 0 => q.nonce = r.nonce
  /\ \A tx \in Tx : Kept(r, tx) => Kept(q, tx)
  /\ q.status = "Reswapping" => r.status = "Reswapping"
  /\ ResultExists(r) => ResultExists(q)

\* A document without a nonce keeps no transaction.
LEMMA KeptHasNonce ==
  ASSUME NEW r, NEW top, PayoutRes(r, top), NEW tx \in Tx, Kept(r, tx)
  PROVE  r.nonce # 0
BY NoTxAssumption DEF PayoutRes, Kept

\* What a document keeps it tracks, and what it tracks it keeps.
LEMMA KeptIsTracked ==
  ASSUME NEW r \in SwapResults, NEW top, PayoutRes(r, top)
  PROVE  /\ \A tx \in Tx : Kept(r, tx) => tx \in Tracked(r)
         /\ \A tx \in Tracked(r) : tx \in Tx /\ Kept(r, tx)
<1>1. ASSUME NEW tx \in Tx, Kept(r, tx) PROVE tx \in Tracked(r)
  BY <1>1, NoTxAssumption DEF Kept, Tracked
<1>2. ASSUME NEW tx \in Tracked(r) PROVE tx \in Tx /\ Kept(r, tx)
  <2>1. tx \in Tx
    <3>1. r.swaptx \in Tx \cup {NoTx} /\ r.old \in SUBSET (Tx \cup {NoTx})
      BY DEF SwapResults
    <3>2. tx \in {r.swaptx} \cup r.old /\ tx # NoTx
      BY DEF Tracked
    <3> QED BY <3>1, <3>2
  <2>2. CASE tx = r.swaptx
    BY <2>1, <2>2, NoTxAssumption DEF PayoutRes
  <2>3. CASE tx # r.swaptx
    <3>1. tx \in r.old
      BY <2>3 DEF Tracked
    <3>2. r.old # {}
      BY <3>1
    <3> QED BY <2>1, <3>1, <3>2 DEF Kept
  <2> QED BY <2>1, <2>2, <2>3
<1> QED BY <1>1, <1>2

\* A document is a snapshot of itself.
LEMMA OwnSnapshot ==
  ASSUME NEW r \in SwapResults, NEW top, PayoutRes(r, top), r.nonce # 0
  PROVE  Snapshot(r, r)
BY KeptIsTracked DEF Snapshot

\* UpdateRouterSwapResultStatus, when it does not reset the document.
LEMMA StatusGrows ==
  ASSUME NEW r \in SwapResults, NEW top, PayoutRes(r, top),
         NEW status \in ResStatus \ {"None", "Reswapping"},
         status \in {"MatchTxNotStable", "MatchTxStable", "MatchTxFailed"} => r.nonce # 0,
         status \in {"MatchTxEmpty", "SwapoutForbidden"} => r.nonce = 0,
         status = "MatchTxFailed" => r.nonce < top
  PROVE  LET q == UpdateRouterSwapResultStatus(r, status)
         IN  PayoutRes(q, top) /\ Grows(r, q) /\ q.nonce = r.nonce
<1>1. CASE ~ResultExists(r)
  BY <1>1 DEF UpdateRouterSwapResultStatus, Grows, ResultExists
<1>2. CASE ResultExists(r)
  <2> DEFINE q == [r EXCEPT !.status = status]
  <2>1. UpdateRouterSwapResultStatus(r, status) = q
    BY <1>2 DEF UpdateRouterSwapResultStatus
  <2>2. /\ q.status = status /\ q.swaptx = r.swaptx /\ q.old = r.old /\ q.nonce = r.nonce
    BY DEF SwapResults
  <2> HIDE DEF q
  <2>3. PayoutRes(q, top)
    BY <2>2 DEF PayoutRes, Tracked, Kept
  <2>4. Grows(r, q)
    BY <2>2 DEF Grows, Kept, ResultExists
  <2> QED BY <2>1, <2>2, <2>3, <2>4
<1> QED BY <1>1, <1>2

\* AddRouterSwapResult inserts a document without transactions.
LEMMA AddGrows ==
  ASSUME NEW r \in SwapResults, NEW top, PayoutRes(r, top),
         NEW status \in {"MatchTxEmpty", "SwapoutForbidden"}
  PROVE  LET q == AddRouterSwapResult(r, status)
         IN  PayoutRes(q, top) /\ Grows(r, q) /\ q.nonce = r.nonce
<1>1. CASE ResultExists(r)
  BY <1>1 DEF AddRouterSwapResult, Grows
<1>2. CASE ~ResultExists(r)
  <2> DEFINE q == InitialSwapResult(status)
  <2>1. AddRouterSwapResult(r, status) = q
    BY <1>2 DEF AddRouterSwapResult
  <2>2. q.status = status /\ q.swaptx = NoTx /\ q.old = {} /\ q.nonce = 0
    BY DEF InitialSwapResult
  <2> HIDE DEF q
  <2>3. r.nonce = 0 /\ \A tx \in Tx : ~Kept(r, tx)
    BY <1>2, KeptHasNonce DEF PayoutRes, ResultExists
  <2>4. PayoutRes(q, top)
    BY <2>2 DEF PayoutRes, Tracked
  <2> QED BY <1>2, <2>1, <2>2, <2>3, <2>4 DEF Grows
<1> QED BY <1>1, <1>2

\* UpdateRouterSwapResult by the stable job and the sending loop, which write the height
\* and a transaction the document keeps.
LEMMA RecordGrows ==
  ASSUME NEW r \in SwapResults, NEW top, PayoutRes(r, top),
         NEW tx \in Tx \cup {NoTx}, tx # NoTx => Kept(r, tx), NEW height \in BOOLEAN
  PROVE  LET q == UpdateRouterSwapResult(r, Update("KeepStatus", tx, height, 0))
         IN  PayoutRes(q, top) /\ Grows(r, q) /\ q.nonce = r.nonce
<1> DEFINE u == Update("KeepStatus", tx, height, 0)
           q == UpdateRouterSwapResult(r, u)
<1>1. CASE ~CanUpdateRouterSwapResult(r, u) \/ r.status = "MatchTxStable"
  BY <1>1 DEF UpdateRouterSwapResult, Grows
<1>2. CASE CanUpdateRouterSwapResult(r, u) /\ r.status # "MatchTxStable"
  <2>1. /\ q.status = r.status /\ q.old = r.old /\ q.nonce = r.nonce
        /\ q.swaptx = IF tx = NoTx THEN r.swaptx ELSE tx
    BY <1>2 DEF UpdateRouterSwapResult, Update
  <2> HIDE DEF q
  <2>2. \A x : Kept(r, x) <=> Kept(q, x)
    BY <2>1 DEF Kept
  <2>3. tx # NoTx => r.nonce # 0
    BY KeptHasNonce
  <2>4. Tracked(q) \subseteq Tracked(r)
    BY <2>1, KeptIsTracked DEF Tracked
  <2>5. PayoutRes(q, top)
    BY <2>1, <2>2, <2>3, <2>4 DEF PayoutRes
  <2>6. Grows(r, q) /\ q.nonce = r.nonce
    BY <2>1, <2>2 DEF Grows, ResultExists
  <2> QED BY <2>5, <2>6 DEF q
<1> QED BY <1>1, <1>2

\* UpdateRouterOldSwapTxs keeps the replaced transactions and the new one.
LEMMA OldTxsGrows ==
  ASSUME NEW r \in SwapResults, NEW top, PayoutRes(r, top),
         NEW tx \in Tx, tx.nonce = r.nonce, r.nonce # 0
  PROVE  LET q == UpdateRouterOldSwapTxs(r, tx)
         IN  PayoutRes(q, top) /\ Grows(r, q) /\ q.nonce = r.nonce /\ Kept(q, tx)
<1>1. ResultExists(r)
  BY DEF PayoutRes, ResultExists
<1>2. CASE tx \in Tracked(r)
  BY <1>2, KeptIsTracked DEF UpdateRouterOldSwapTxs, Grows
<1>3. CASE tx \notin Tracked(r)
  <2> DEFINE swaptx == IF r.status = "MatchTxStable" THEN r.swaptx ELSE tx
             old == IF r.old = {} THEN {r.swaptx, tx} ELSE r.old \cup {tx}
             q == [r EXCEPT !.swaptx = swaptx, !.old = old]
  <2>1. UpdateRouterOldSwapTxs(r, tx) = q
    BY <1>1, <1>3 DEF UpdateRouterOldSwapTxs
  <2>2. q.status = r.status /\ q.swaptx = swaptx /\ q.old = old /\ q.nonce = r.nonce
    BY DEF SwapResults
  <2> HIDE DEF q
  <2>3. old # {} /\ tx \in old /\ \A x : Kept(r, x) => x \in old
    BY DEF Kept
  <2>4. swaptx # NoTx /\ swaptx \in old /\ r.swaptx \in Tracked(r) \cup {NoTx}
    BY <2>3, NoTxAssumption DEF PayoutRes, Tracked
  <2>5. Tracked(q) \subseteq Tracked(r) \cup {tx}
    BY <2>2 DEF Tracked
  <2> HIDE DEF old, swaptx
  <2>6. \A x : Kept(q, x) <=> x \in old
    BY <2>2, <2>3 DEF Kept
  <2>7. PayoutRes(q, top)
    BY <2>2, <2>4, <2>5, <2>6 DEF PayoutRes
  <2>8. Grows(r, q)
    BY <2>2, <2>3, <2>6 DEF Grows, ResultExists
  <2> QED BY <2>1, <2>2, <2>3, <2>6, <2>7, <2>8
<1> QED BY <1>2, <1>3

\* UpdateRouterSwapResult by doSwap gives a document its nonce and its first transaction.
LEMMA AssignGrows ==
  ASSUME NEW r \in SwapResults, NEW top, PayoutRes(r, top), ResultExists(r), r.nonce = 0,
         NEW tx \in Tx, tx.nonce # 0
  PROVE  LET u == Update("MatchTxNotStable", tx, FALSE, tx.nonce)
             q == UpdateRouterSwapResult(r, u)
         IN  /\ CanUpdateRouterSwapResult(r, u)
             /\ PayoutRes(q, top) /\ Grows(r, q) /\ KeptBy(q, tx) /\ q.nonce = tx.nonce
<1> DEFINE u == Update("MatchTxNotStable", tx, FALSE, tx.nonce)
           q == UpdateRouterSwapResult(r, u)
<1>1. CanUpdateRouterSwapResult(r, u) /\ r.status # "MatchTxStable"
  BY DEF CanUpdateRouterSwapResult, checkRouterSwapResultUpdate, PayoutRes
<1>2. /\ q.status = "MatchTxNotStable" /\ q.old = {} /\ q.nonce = tx.nonce /\ q.swaptx = tx
  BY <1>1, NoTxAssumption DEF UpdateRouterSwapResult, Update, PayoutRes
<1> HIDE DEF q, u
<1>3. PayoutRes(q, top) /\ KeptBy(q, tx)
  BY <1>2, NoTxAssumption DEF PayoutRes, Tracked, Kept, KeptBy
<1>4. Grows(r, q)
  BY <1>2, KeptHasNonce DEF Grows, ResultExists
<1> QED BY <1>1, <1>2, <1>3, <1>4 DEF q, u

-----------------------------------------------------------------------------
(* Steps that keep what the documents know *)

GrowStep ==
  \A s \in Swaps : PayoutRes(res'[s], chainNonce) /\ Grows(res[s], res'[s])

KeepNonces == \A s \in Swaps : res'[s].nonce = res[s].nonce

\* A transaction is sent, or handed over, only after the document keeps it.
LiveStep ==
  /\ signing' = {}
  /\ pool' \subseteq pool \cup Live
  /\ \A tx \in Live' : tx \in Live \/ KeptBy(res'[tx.swap], tx)
  /\ \A tx \in replacing' :
       tx \in replacing \/ (tx.nonce = res'[tx.swap].nonce /\ tx.nonce # 0)

\* A new snapshot is one of the document as it is.
SnapStep ==
  \A s \in Swaps :
    /\ \/ stableTask'[s] = stableTask[s]
       \/ PayoutTask(res'[s], stableTask'[s], chainNonce)
    /\ \/ replaceTask'[s] = replaceTask[s]
       \/ PayoutTask(res'[s], replaceTask'[s], chainNonce)
    /\ \/ failedFound'[s] = failedFound[s]
       \/ failedFound'[s] = NoResult
       \/ Snapshot(res'[s], failedFound'[s])

CheckedStep == \A c \in reswapChecked' : c \in reswapChecked \/ Checked(c)

SafeStep ==
  /\ UNCHANGED <<minedOk, minedFail, chainNonce>>
  /\ GrowStep /\ LiveStep /\ SnapStep /\ CheckedStep /\ DoInv'

\* A step of anybody but the consumer of the swap job.
Bystander ==
  /\ UNCHANGED <<minedOk, minedFail, chainNonce, doPc, doTx, swapNonce>>
  /\ KeepNonces /\ GrowStep /\ LiveStep /\ SnapStep /\ CheckedStep

\* The types the steps below need.
LEMMA Types ==
  ASSUME Inv
  PROVE  /\ \A s \in Swaps : res[s] \in SwapResults /\ res[s].nonce \in Nat
         /\ Live \subseteq Tx /\ replacing \subseteq Tx
         /\ pool \subseteq Tx /\ minedOk \subseteq Tx /\ minedFail \subseteq Tx
         /\ chainNonce \in Nat /\ swapNonce \in Nat
         /\ \A s \in Swaps : /\ stableTask[s] \in Tasks /\ stableTask[s].snap \in SwapResults
                             /\ replaceTask[s] \in Tasks /\ replaceTask[s].snap \in SwapResults
                             /\ failedFound[s] \in SwapResults
         /\ reswapChecked \subseteq Swaps \X Nat
         /\ doPc # "idle" => doTx \in Tx /\ doTx.swap \in Swaps /\ doTx.nonce \in Nat
<1>1. RestTypeOK /\ ResInv /\ StableTaskInv /\ ReplaceTaskInv /\ FailedInv
  BY DEF Inv, TasksInv
<1>2. \A s \in Swaps : res[s] \in SwapResults /\ res[s].nonce \in Nat
  BY <1>1 DEF ResInv, SwapResults
<1>3. \A s \in Swaps : /\ stableTask[s] \in Tasks /\ stableTask[s].snap \in SwapResults
                       /\ replaceTask[s] \in Tasks /\ replaceTask[s].snap \in SwapResults
                       /\ failedFound[s] \in SwapResults
  BY <1>1 DEF StableTaskInv, ReplaceTaskInv, FailedInv, TaskOK, SnapOK
<1>4. doPc # "idle" => doTx \in Tx /\ doTx.swap \in Swaps /\ doTx.nonce \in Nat
  BY <1>1, TxType DEF RestTypeOK, SwapJobTypeOK
<1>5. Live \subseteq Tx
  BY <1>1 DEF Live, DoSending, RestTypeOK, SwapJobTypeOK
<1>6. /\ replacing \subseteq Tx /\ pool \subseteq Tx /\ minedOk \subseteq Tx /\ minedFail \subseteq Tx
      /\ chainNonce \in Nat /\ swapNonce \in Nat /\ reswapChecked \subseteq Swaps \X Nat
  BY <1>1 DEF RestTypeOK, SwapJobTypeOK, ChainTypeOK
<1> QED BY <1>2, <1>3, <1>4, <1>5, <1>6

\* A transaction that is kept stays kept ...
LEMMA KeptStays ==
  ASSUME NEW r, NEW q, NEW top, PayoutRes(r, top), Grows(r, q), NEW tx \in Tx, KeptBy(r, tx)
  PROVE  KeptBy(q, tx)
BY KeptHasNonce DEF Grows, KeptBy

\* ... and a snapshot stays a snapshot.
LEMMA SnapStays ==
  ASSUME NEW r, NEW q, Grows(r, q), NEW old \in SwapResults, Snapshot(r, old)
  PROVE  Snapshot(q, old)
<1>1. Tracked(old) \subseteq Tx
  <2>1. old.swaptx \in Tx \cup {NoTx} /\ old.old \subseteq Tx \cup {NoTx}
    BY DEF SwapResults
  <2> QED BY <2>1 DEF Tracked
<1> QED BY <1>1 DEF Grows, Snapshot

LEMMA BystanderSafe ==
  ASSUME Inv, PayoutInv, Bystander
  PROVE  SafeStep
<1>1. DoInv'
  <2>1. doPc # "idle" => doTx.swap \in Swaps
    BY Types
  <2> QED BY <2>1 DEF Bystander, DoInv, PayoutInv, KeepNonces, GrowStep, Grows
<1> QED BY <1>1 DEF Bystander, SafeStep

LEMMA SafeStepOK ==
  ASSUME Inv, Inv', PayoutInv, SafeStep
  PROVE  PayoutInv'
<1>1. /\ UNCHANGED <<minedOk, minedFail, chainNonce>>
      /\ \A s \in Swaps : PayoutRes(res'[s], chainNonce) /\ Grows(res[s], res'[s])
      /\ \A s \in Swaps : PayoutRes(res[s], chainNonce)
  BY DEF SafeStep, GrowStep, PayoutInv, PayoutResInv
<1>2. PayoutResInv'
  BY <1>1 DEF PayoutResInv
<1>3. ASSUME NEW tx \in Tx, KeptBy(res[tx.swap], tx) PROVE KeptBy(res'[tx.swap], tx)
  BY <1>1, <1>3, TxType, KeptStays
<1>4. LiveInv'
  <2>1. \A tx \in Live' : KeptBy(res'[tx.swap], tx)
    BY <1>3, Types DEF SafeStep, LiveStep, PayoutInv, LiveInv
  <2>2. ASSUME NEW tx \in replacing' PROVE tx.nonce = res'[tx.swap].nonce /\ tx.nonce # 0
    BY <1>1, Types, TxType DEF SafeStep, LiveStep, PayoutInv, LiveInv, Grows
  <2> QED BY <2>1, <2>2 DEF LiveInv, SafeStep, LiveStep
<1>5. MinedInv'
  <2>1. ASSUME NEW tx \in pool', Minable(tx)' PROVE KeptBy(res'[tx.swap], tx)
    <3>1. Minable(tx)
      BY <1>1, <2>1 DEF Minable
    <3>2. tx \in pool \/ tx \in Live
      BY DEF SafeStep, LiveStep
    <3> QED BY <1>3, <3>1, <3>2, Types DEF PayoutInv, MinedInv, LiveInv
  <2>2. \A tx \in minedOk : KeptBy(res'[tx.swap], tx)
    BY <1>3, Types DEF PayoutInv, MinedInv
  <2> QED BY <1>1, <2>1, <2>2 DEF PayoutInv, MinedInv
<1>6. SnapInv'
  <2> SUFFICES ASSUME NEW s \in Swaps
               PROVE  /\ PayoutTask(res'[s], stableTask'[s], chainNonce)
                      /\ PayoutTask(res'[s], replaceTask'[s], chainNonce)
                      /\ failedFound'[s] # NoResult => Snapshot(res'[s], failedFound'[s])
    BY <1>1 DEF SnapInv
  <2>1. \A q \in SwapResults : Snapshot(res[s], q) => Snapshot(res'[s], q)
    BY <1>1, SnapStays
  <2>2. /\ PayoutTask(res[s], stableTask[s], chainNonce)
        /\ PayoutTask(res[s], replaceTask[s], chainNonce)
        /\ failedFound[s] # NoResult => Snapshot(res[s], failedFound[s])
    BY DEF PayoutInv, SnapInv
  <2>3. /\ stableTask[s].snap \in SwapResults /\ replaceTask[s].snap \in SwapResults
        /\ failedFound[s] \in SwapResults
    BY Types
  <2>4. PayoutTask(res'[s], stableTask'[s], chainNonce)
    BY <2>1, <2>2, <2>3 DEF SafeStep, SnapStep, PayoutTask
  <2>5. PayoutTask(res'[s], replaceTask'[s], chainNonce)
    BY <2>1, <2>2, <2>3 DEF SafeStep, SnapStep, PayoutTask
  <2>6. failedFound'[s] # NoResult => Snapshot(res'[s], failedFound'[s])
    BY <2>1, <2>2, <2>3 DEF SafeStep, SnapStep
  <2> QED BY <2>4, <2>5, <2>6
<1>7. CheckedInv'
  <2> SUFFICES ASSUME NEW c \in reswapChecked', Checked(c) PROVE Checked(c)'
    BY DEF CheckedInv, PayoutInv, SafeStep, CheckedStep
  <2>1. c[1] \in Swaps
    <3>1. c \in Swaps \X Nat
      BY DEF Inv, RestTypeOK
    <3> QED BY <3>1
  <2> QED BY <1>1, <2>1 DEF Checked, Grows, Paid
<1> QED BY <1>2, <1>4, <1>5, <1>6, <1>7 DEF PayoutInv, SafeStep

\* Nothing but the documents changes.
Quiet ==
  UNCHANGED <<chainVars, signing, sending, loops, loopSeen, stableTask, replaceTask, replacing,
              failedFound, reswapChecked, doPc, doTx, swapNonce>>

LEMMA QuietBystander ==
  ASSUME Inv, PayoutInv, Quiet, GrowStep, KeepNonces
  PROVE  Bystander
<1>1. LiveStep
  BY DEF Quiet, chainVars, LiveStep, Live, DoSending, PayoutInv, LiveInv
<1>2. SnapStep /\ CheckedStep
  BY DEF Quiet, SnapStep, CheckedStep
<1> QED BY <1>1, <1>2 DEF Quiet, chainVars, Bystander

\* One document is written, or none.
LEMMA SetGrows ==
  ASSUME Inv, PayoutInv, NEW s \in Swaps, NEW r, res' = [res EXCEPT ![s] = r],
         PayoutRes(r, chainNonce), Grows(res[s], r)
  PROVE  GrowStep /\ (r.nonce = res[s].nonce => KeepNonces) /\ res'[s] = r
<1>1. res \in [Swaps -> SwapResults]
  BY DEF Inv, ResInv
<1>2. res'[s] = r /\ \A k \in Swaps \ {s} : res'[k] = res[k]
  BY <1>1
<1>3. \A k \in Swaps : PayoutRes(res[k], chainNonce) /\ Grows(res[k], res[k])
  BY DEF PayoutInv, PayoutResInv, Grows
<1> QED BY <1>2, <1>3 DEF GrowStep, KeepNonces

LEMMA SameGrows ==
  ASSUME Inv, PayoutInv, res' = res
  PROVE  GrowStep /\ KeepNonces
BY DEF GrowStep, KeepNonces, PayoutInv, PayoutResInv, Grows

\* SetResStatus, when it does not reset the document.
LEMMA SetStatusGrows ==
  ASSUME Inv, PayoutInv, NEW s \in Swaps, NEW status \in ResStatus \ {"None", "Reswapping"},
         SetResStatus(s, status),
         status \in {"MatchTxNotStable", "MatchTxStable", "MatchTxFailed"} => res[s].nonce # 0,
         status \in {"MatchTxEmpty", "SwapoutForbidden"} => res[s].nonce = 0,
         status = "MatchTxFailed" => res[s].nonce < chainNonce
  PROVE  GrowStep /\ KeepNonces
<1> DEFINE q == UpdateRouterSwapResultStatus(res[s], status)
<1>1. res[s] \in SwapResults /\ PayoutRes(res[s], chainNonce)
  BY Types DEF PayoutInv, PayoutResInv
<1>2. PayoutRes(q, chainNonce) /\ Grows(res[s], q) /\ q.nonce = res[s].nonce
  BY <1>1, StatusGrows
<1>3. res' = [res EXCEPT ![s] = q]
  BY DEF SetResStatus
<1> HIDE DEF q
<1> QED BY <1>2, <1>3, SetGrows

-----------------------------------------------------------------------------
(* Registration, and the producer of the swap job *)

LEMMA RegisterSafe ==
  ASSUME Inv, PayoutInv, RegisterStep
  PROVE  Bystander
<1>1. Quiet
  BY DEF RegisterStep, Quiet, chainVars, swapVars, sendVars, resultVars, replaceVars, adminVars
<1>2. PICK s \in Swaps :
        \/ res' = res
        \/ VerifyNotFound(s) \/ InsertPassed(s) \/ RouterAdminPassForbiddenSwapout(s)
        \/ \E status \in {"MatchTxEmpty", "SwapoutForbidden"} : InsertResult(s, status)
  BY DEF RegisterStep, RegisterNext, RegisterNew, RegisterAgain, VerifyStart, VerifyPass, VerifyReject,
         VerifyForbid, VerifyRetry, PassBigValue, dbVars
<1>3. res[s] \in SwapResults /\ PayoutRes(res[s], chainNonce)
  BY Types DEF PayoutInv, PayoutResInv
<1>4. CASE res' = res
  BY <1>1, <1>4, SameGrows, QuietBystander
<1>5. CASE VerifyNotFound(s)
  <2>1. GrowStep /\ KeepNonces
    BY <1>5, SetStatusGrows DEF VerifyNotFound, ResStatus
  <2> QED BY <1>1, <2>1, QuietBystander
<1>6. CASE RouterAdminPassForbiddenSwapout(s)
  <2>1. res[s].nonce = 0
    BY <1>3, <1>6 DEF RouterAdminPassForbiddenSwapout, PayoutRes
  <2>2. GrowStep /\ KeepNonces
    BY <1>6, <2>1, SetStatusGrows DEF RouterAdminPassForbiddenSwapout, ResStatus
  <2> QED BY <1>1, <2>2, QuietBystander
<1>7. ASSUME NEW status \in {"MatchTxEmpty", "SwapoutForbidden"},
             res' = [res EXCEPT ![s] = AddRouterSwapResult(@, status)]
      PROVE  Bystander
  <2> DEFINE q == AddRouterSwapResult(res[s], status)
  <2>1. PayoutRes(q, chainNonce) /\ Grows(res[s], q) /\ q.nonce = res[s].nonce
    BY <1>3, AddGrows
  <2>2. res' = [res EXCEPT ![s] = q]
    BY <1>7
  <2> HIDE DEF q
  <2>3. GrowStep /\ KeepNonces
    BY <2>1, <2>2, SetGrows
  <2> QED BY <1>1, <2>3, QuietBystander
<1> QED BY <1>2, <1>4, <1>5, <1>6, <1>7 DEF InsertPassed, InsertResult

LEMMA ProduceSafe ==
  ASSUME Inv, PayoutInv, ProduceStep, UNCHANGED <<chainVars, resultVars, adminVars>>
  PROVE  Bystander
<1>1. Quiet
  BY DEF ProduceStep, SwapFind, SwapIgnore, SwapDispatch, SwapNoResult, SwapBlacked, Quiet, dbVars,
         sendVars, resultVars, replaceVars, adminVars
<1>2. PICK s \in Swaps : res' = res \/ SetResStatus(s, "SwapInBlacklist")
  BY DEF ProduceStep, SwapFind, SwapIgnore, SwapDispatch, SwapNoResult, SwapBlacked, dbVars,
         FindRouterSwapsWithStatus
<1>3. GrowStep /\ KeepNonces
  BY <1>2, SameGrows, SetStatusGrows DEF ResStatus
<1> QED BY <1>1, <1>3, QuietBystander

-----------------------------------------------------------------------------
(* The consumer of the swap job *)

\* What the steps of the swap job leave alone.
LEMMA JobSafe ==
  ASSUME Inv, PayoutInv, GrowStep, LiveStep, DoInv',
         UNCHANGED <<minedOk, minedFail, chainNonce, resultVars, adminVars>>
  PROVE  SafeStep
BY DEF SafeStep, SnapStep, CheckedStep, resultVars, replaceVars, adminVars

\* A step that writes no document and hands no transaction over.
LEMMA SilentSafe ==
  ASSUME Inv, PayoutInv, res' = res, signing' = signing, Live' \subseteq Live, DoInv',
         UNCHANGED <<chainVars, resultVars, adminVars>>
  PROVE  SafeStep
<1>1. GrowStep
  BY SameGrows
<1>2. LiveStep
  BY DEF LiveStep, chainVars, resultVars, replaceVars, PayoutInv, LiveInv
<1> QED BY <1>1, <1>2, JobSafe DEF chainVars

LEMMA PoolNoncesPositive ==
  ASSUME Inv, PayoutInv, NEW n \in PoolNonces
  PROVE  n \in Nat \ {0}
<1>1. \A tx \in pool : tx.nonce + 1 \in Nat \ {0}
  BY Types, TxType
<1>2. chainNonce \in Nat \ {0}
  BY Types DEF PayoutInv, DoInv
<1> QED BY <1>1, <1>2 DEF PoolNonces

\* The nonce the consumer builds a transaction with.
LEMMA AdjustedNonce ==
  ASSUME Inv, PayoutInv, NEW n \in PoolNonces
  PROVE  AdjustNonce(swapNonce, n) \in Nat \ {0} /\ AdjustNonce(swapNonce, n) >= swapNonce
<1>1. n \in Nat \ {0} /\ swapNonce \in Nat \ {0}
  BY PoolNoncesPositive, Types DEF PayoutInv, DoInv
<1> QED BY <1>1 DEF AdjustNonce

LEMMA DoSwapBuildSafe ==
  ASSUME Inv, PayoutInv, NEW s \in Swaps, DoSwapBuild(s), UNCHANGED <<chainVars, resultVars, adminVars>>
  PROVE  SafeStep /\ doPc = "idle" /\ doPc' = "sign" /\ doTx'.nonce >= swapNonce
<1>1. PICK n \in PoolNonces : doTx' = [swap |-> s, nonce |-> AdjustNonce(swapNonce, n), id |-> 0]
  BY DEF DoSwapBuild
<1>2. doTx'.nonce # 0 /\ doTx'.nonce >= swapNonce
  BY <1>1, AdjustedNonce
<1>3. /\ doPc = "idle" /\ doPc' = "sign" /\ res' = res /\ UNCHANGED <<sendVars, swapNonce>>
  BY DEF DoSwapBuild, dbVars
<1>4. Live' \subseteq Live
  BY <1>3 DEF Live, DoSending, sendVars
<1>5. DoInv'
  BY <1>2, <1>3 DEF DoInv, PayoutInv, chainVars
<1> QED BY <1>2, <1>3, <1>4, <1>5, SilentSafe DEF sendVars

LEMMA DoSwapRecordSafe ==
  ASSUME Inv, PayoutInv, DoSwapUpdateResult, UNCHANGED <<chainVars, resultVars, adminVars>>
  PROVE  /\ SafeStep /\ doPc = "update" /\ doPc' = "status" /\ doTx' = doTx /\ doTx.swap \in Swaps
         /\ res'[doTx.swap].nonce = doTx.nonce
         /\ \A k \in Swaps \ {doTx.swap} : res'[k] = res[k]
<1> DEFINE s == doTx.swap
           u == Update("MatchTxNotStable", doTx, FALSE, doTx.nonce)
           q == UpdateRouterSwapResult(res[s], u)
<1>1. /\ doPc = "update" /\ doTx \in Tx /\ s \in Swaps /\ doTx.nonce # 0
      /\ ResultExists(res[s]) /\ res[s].nonce = 0
  BY Types DEF DoSwapUpdateResult, PayoutInv, DoInv
<1>2. res[s] \in SwapResults /\ PayoutRes(res[s], chainNonce)
  BY <1>1, Types DEF PayoutInv, PayoutResInv
<1>3. /\ CanUpdateRouterSwapResult(res[s], u) /\ PayoutRes(q, chainNonce)
      /\ Grows(res[s], q) /\ KeptBy(q, doTx) /\ q.nonce = doTx.nonce
  BY <1>1, <1>2, AssignGrows
<1>4. res' = [res EXCEPT ![s] = q]
  BY DEF DoSwapUpdateResult
<1>5. doPc' = "status" /\ doTx' = doTx /\ UNCHANGED <<swapNonce, sendVars>>
  BY <1>3 DEF DoSwapUpdateResult
<1> HIDE DEF q, u
<1>6. GrowStep /\ res'[s] = q
  BY <1>1, <1>3, <1>4, SetGrows
<1>7. LiveStep
  <2>1. Live' = Live \cup {doTx}
    BY <1>1, <1>5 DEF Live, DoSending, sendVars
  <2>2. KeptBy(res'[doTx.swap], doTx)
    BY <1>3, <1>6
  <2> QED BY <1>5, <2>1, <2>2 DEF LiveStep, sendVars, chainVars, resultVars, replaceVars, PayoutInv, LiveInv
<1>8. DoInv'
  BY <1>1, <1>5 DEF DoInv, PayoutInv, chainVars
<1>9. \A k \in Swaps \ {s} : res'[k] = res[k]
  BY <1>4 DEF Inv, ResInv
<1> QED BY <1>1, <1>3, <1>5, <1>6, <1>7, <1>8, <1>9, JobSafe DEF chainVars

\* The other steps of doSwap before the transaction is sent.
DoSwapSilent ==
  \/ \E s \in Swaps : DoSwapBuildFails(s)
  \/ DoSwapSignFails
  \/ DoSwapDisagree
  \/ DoSwapSign
  \/ DoSwapRecheck
  \/ DoSwapUpdateStatus

LEMMA DoSwapSilentSafe ==
  ASSUME Inv, PayoutInv, DoSwapSilent, UNCHANGED <<chainVars, resultVars, adminVars>>
  PROVE  /\ SafeStep /\ res' = res /\ swapNonce' = swapNonce
         /\ \/ UNCHANGED <<doPc, doTx>>
            \/ doPc' = "idle" /\ doPc \in {"sign", "reverify", "recheck"}
            \/ /\ doPc \in {"sign", "recheck"} /\ doPc' \in {"reverify", "recheck", "update"}
               /\ doTx'.nonce = doTx.nonce
            \/ doPc = "status" /\ doPc' = "send" /\ doTx' = doTx
<1>1. res' = res /\ UNCHANGED <<sendVars, swapNonce>>
  BY DEF DoSwapSilent, DoSwapBuildFails, DoSwapSignFails, DoSwapDisagree, DoSwapSign, DoSwapRecheck,
         DoSwapUpdateStatus, dbVars
<1>2. DoInv /\ chainNonce' = chainNonce
  BY DEF PayoutInv, chainVars
<1>3. ASSUME NEW s \in Swaps, DoSwapBuildFails(s)
      PROVE  UNCHANGED <<doPc, doTx>> /\ Live' \subseteq Live /\ DoInv'
  <2>1. UNCHANGED <<doPc, doTx>>
    BY <1>3 DEF DoSwapBuildFails
  <2> QED BY <1>1, <1>2, <2>1 DEF Live, DoSending, DoInv, sendVars
<1>4. ASSUME doPc' = "idle" PROVE Live' \subseteq Live /\ DoInv'
  BY <1>1, <1>2, <1>4 DEF Live, DoSending, DoInv, sendVars
<1>5. ASSUME DoSwapSign
      PROVE  /\ doPc = "sign" /\ doPc' = "recheck" /\ doTx'.nonce = doTx.nonce
             /\ Live' \subseteq Live /\ DoInv'
  <2>1. doPc = "sign" /\ doPc' = "recheck" /\ doTx' = [doTx EXCEPT !.id = txCount + 1]
    BY <1>5 DEF DoSwapSign
  <2>2. doTx \in Tx
    BY <2>1, Types
  <2>3. doTx'.nonce = doTx.nonce
    BY <2>1, <2>2 DEF Tx
  <2> QED BY <1>1, <1>2, <2>1, <2>3 DEF Live, DoSending, DoInv, sendVars
<1>6. ASSUME doPc = "recheck", doPc' = "update", doTx' = doTx,
             ResultExists(res[doTx.swap]), ~AlreadySwapped(res[doTx.swap])
      PROVE  Live' \subseteq Live /\ DoInv'
  <2>1. doTx.swap \in Swaps
    BY <1>6, Types
  <2>2. res[doTx.swap].nonce = 0
    <3>1. res[doTx.swap].nonce \in Nat
      BY <2>1, Types
    <3> QED BY <1>6, <3>1 DEF AlreadySwapped
  <2> QED BY <1>1, <1>2, <1>6, <2>2 DEF Live, DoSending, DoInv, sendVars
<1>7. ASSUME DoSwapUpdateStatus
      PROVE  /\ doPc = "status" /\ doPc' = "send" /\ doTx' = doTx
             /\ Live' \subseteq Live /\ DoInv'
  <2>1. doPc = "status" /\ doPc' = "send" /\ doTx' = doTx
    BY <1>7 DEF DoSwapUpdateStatus
  <2> QED BY <1>1, <1>2, <2>1 DEF Live, DoSending, DoInv, sendVars
<1>8. ASSUME Live' \subseteq Live, DoInv' PROVE SafeStep
  BY <1>1, <1>8, SilentSafe DEF sendVars
<1>9. CASE DoSwapSignFails
  BY <1>1, <1>4, <1>8, <1>9 DEF DoSwapSignFails, Finish
<1>10. CASE DoSwapRecheck
  BY <1>1, <1>4, <1>6, <1>8, <1>10 DEF DoSwapRecheck, Finish
<1>11. CASE DoSwapDisagree
  <2>1. doPc = "sign" /\ doPc' = "reverify" /\ doTx' = doTx
    BY <1>11 DEF DoSwapDisagree
  <2>2. Live' \subseteq Live /\ DoInv'
    BY <1>1, <1>2, <2>1 DEF Live, DoSending, DoInv, sendVars
  <2> QED BY <1>1, <1>8, <2>1, <2>2
<1> QED BY <1>1, <1>3, <1>5, <1>7, <1>8, <1>9, <1>10, <1>11 DEF DoSwapSilent, sendVars

\* A swap that is refused when it is verified again keeps its nonce and its transactions.
LEMMA ReverifySafe ==
  ASSUME Inv, PayoutInv, reverifySwap, UNCHANGED <<chainVars, resultVars, adminVars>>
  PROVE  SafeStep /\ KeepNonces /\ swapNonce' = swapNonce /\ doPc = "reverify" /\ doPc' = "idle"
<1>1. /\ doPc = "reverify" /\ doPc' = "idle" /\ SetResStatus(doTx.swap, "TxNotStable")
      /\ UNCHANGED <<sendVars, swapNonce>>
  BY DEF reverifySwap, Finish
<1>2. doTx.swap \in Swaps
  BY <1>1, Types
<1>3. GrowStep /\ KeepNonces
  BY <1>1, <1>2, SetStatusGrows DEF ResStatus
<1>4. LiveStep
  <2>1. Live' \subseteq Live
    BY <1>1 DEF Live, DoSending, sendVars
  <2> QED BY <1>1, <2>1 DEF LiveStep, sendVars, chainVars, resultVars, replaceVars, PayoutInv, LiveInv
<1>5. DoInv'
  BY <1>1 DEF DoInv, PayoutInv, chainVars
<1> QED BY <1>1, <1>3, <1>4, <1>5, JobSafe DEF chainVars

\* sendTxLoopUntilSuccess records a transaction the document keeps.
LEMMA LoopSafe ==
  ASSUME Inv, PayoutInv, UNCHANGED <<chainVars, resultVars, adminVars>>,
         \/ \E tx \in loops : LoopSee(tx) \/ LoopGiveUp(tx)
         \/ \E tx \in loopSeen, h \in {TRUE, FALSE} : LoopRecord(tx, IF h THEN tx ELSE NoTx)
  PROVE  Bystander
<1>1. /\ UNCHANGED <<doPc, doTx, swapNonce, signing, sending>> /\ loops' \subseteq loops
      /\ loops' \cup loopSeen' \subseteq loops \cup loopSeen
  BY DEF LoopSee, LoopGiveUp, LoopRecord, swapVars
<1>2. LiveStep
  <2>1. Live' \subseteq Live
    BY <1>1 DEF Live, DoSending
  <2> QED BY <1>1, <2>1 DEF LiveStep, chainVars, resultVars, replaceVars, PayoutInv, LiveInv
<1>3. GrowStep /\ KeepNonces
  <2>1. CASE res' = res
    BY <2>1, SameGrows
  <2>2. ASSUME NEW tx \in loopSeen, NEW hash \in {tx, NoTx}, LoopRecord(tx, hash)
        PROVE  GrowStep /\ KeepNonces
    <3> DEFINE s == tx.swap
               q == UpdateRouterSwapResult(res[s], Update("KeepStatus", hash, TRUE, 0))
    <3>1. tx \in Tx /\ s \in Swaps /\ KeptBy(res[s], tx)
      <4>1. tx \in Live
        BY DEF Live
      <4> QED BY <4>1, Types, TxType DEF PayoutInv, LiveInv
    <3>2. res[s] \in SwapResults /\ PayoutRes(res[s], chainNonce)
      BY <3>1, Types DEF PayoutInv, PayoutResInv
    <3>3. hash \in Tx \cup {NoTx} /\ (hash # NoTx => Kept(res[s], hash))
      BY <3>1 DEF KeptBy
    <3>4. PayoutRes(q, chainNonce) /\ Grows(res[s], q) /\ q.nonce = res[s].nonce
      BY <3>2, <3>3, RecordGrows
    <3>5. res' = [res EXCEPT ![s] = q]
      BY <2>2 DEF LoopRecord
    <3> HIDE DEF q
    <3> QED BY <3>1, <3>4, <3>5, SetGrows
  <2> QED BY <2>1, <2>2 DEF LoopSee, LoopGiveUp, dbVars
<1>4. SnapStep /\ CheckedStep
  BY DEF SnapStep, CheckedStep, resultVars, replaceVars, adminVars
<1> QED BY <1>1, <1>2, <1>3, <1>4 DEF Bystander, chainVars

\* The consumer does one step at a time, and no goroutine signs in parallel.
LEMMA ConsumeCases ==
  ASSUME Inv, PayoutInv, ~Parallel, ConsumeStep
  PROVE  \/ \E s \in Swaps : DoSwapBuild(s)
         \/ DoSwapUpdateResult
         \/ DoSwapSilent
         \/ reverifySwap
         \/ \E tx \in loops : LoopSee(tx) \/ LoopGiveUp(tx)
         \/ \E tx \in loopSeen, h \in {TRUE, FALSE} : LoopRecord(tx, IF h THEN tx ELSE NoTx)
BY DEF ConsumeStep, DoSwapParallel, DoSwapSilent, PayoutInv, LiveInv

\* Sending: the transaction is in the document already.
LEMMA SendSafe ==
  ASSUME Inv, PayoutInv, SendStep, UNCHANGED <<resultVars, adminVars>>
  PROVE  /\ SafeStep /\ res' = res /\ swapNonce' >= swapNonce
         /\ \/ /\ UNCHANGED <<doPc, doTx>>
               /\ \E tx \in sending : swapNonce' = swapNonce \/ swapNonce' = tx.nonce + 1
            \/ /\ doPc = "send" /\ doPc' = "idle"
               /\ ~Parallel /\ IncreaseNonceWhenSendTx => swapNonce' > doTx.nonce
<1>1. swapNonce \in Nat \ {0} /\ signing = {}
  BY Types DEF PayoutInv, DoInv, LiveInv
<1>2. PICK tx \in Live, reached \in BOOLEAN, ok \in BOOLEAN :
        /\ SendSigned(tx, reached, ok)
        /\ \/ DoSwapSend(reached, ok) /\ tx = doTx
           \/ tx \in sending /\ SendParallel(tx, reached, ok)
  <2>1. ASSUME NEW reached \in BOOLEAN, NEW ok \in BOOLEAN, DoSwapSend(reached, ok)
        PROVE  doTx \in Live /\ SendSigned(doTx, reached, ok)
    BY <2>1 DEF DoSwapSend, Live, DoSending
  <2>2. ASSUME NEW reached \in BOOLEAN, NEW ok \in BOOLEAN, NEW tx \in sending,
               SendParallel(tx, reached, ok)
        PROVE  tx \in Live /\ SendSigned(tx, reached, ok)
    BY <2>2 DEF SendParallel, Live
  <2> QED BY <2>1, <2>2 DEF SendStep
<1>3. tx \in Tx /\ tx.nonce \in Nat
  BY Types, TxType
<1>4. /\ swapNonce' \in Nat /\ swapNonce' >= swapNonce
      /\ ~Parallel /\ IncreaseNonceWhenSendTx => swapNonce' > tx.nonce
  BY <1>1, <1>2, <1>3 DEF SendSigned, SetNonce
<1>5. /\ res' = res /\ UNCHANGED <<signing, minedOk, minedFail, chainNonce, loopSeen>>
      /\ pool' \subseteq pool \cup Live /\ loops' \subseteq loops \cup {tx} /\ sending' \subseteq sending
  BY <1>2 DEF SendSigned, DoSwapSend, SendParallel, dbVars
<1>6. \/ UNCHANGED <<doPc, doTx>> /\ tx \in sending
      \/ doPc = "send" /\ doPc' = "idle" /\ tx = doTx
  BY <1>2 DEF DoSwapSend, SendParallel, Finish
<1>10. swapNonce' = swapNonce \/ swapNonce' = tx.nonce + 1
  BY <1>2 DEF SendSigned, SetNonce
<1>7. LiveStep
  <2>1. Live' \subseteq Live
    BY <1>2, <1>5, <1>6 DEF Live, DoSending
  <2> QED BY <1>1, <1>5, <2>1 DEF LiveStep, resultVars, replaceVars
<1>8. DoInv'
  BY <1>1, <1>4, <1>5, <1>6 DEF DoInv, PayoutInv
<1>9. GrowStep
  BY <1>5, SameGrows
<1> QED BY <1>4, <1>5, <1>6, <1>7, <1>8, <1>9, <1>10, JobSafe

-----------------------------------------------------------------------------
(* The jobs that follow a payout *)

\* Everything but the documents and the tasks of one kind stays as it is.
JobQuiet ==
  /\ UNCHANGED <<chainVars, signing, sending, loops, loopSeen, reswapChecked, doPc, doTx, swapNonce>>

LEMMA JobLive ==
  ASSUME Inv, PayoutInv, JobQuiet, replacing' = replacing
  PROVE  LiveStep /\ CheckedStep
BY DEF JobQuiet, chainVars, LiveStep, CheckedStep, Live, DoSending, PayoutInv, LiveInv

LEMMA JobBystander ==
  ASSUME Inv, PayoutInv, JobQuiet, GrowStep, KeepNonces, LiveStep, SnapStep, CheckedStep
  PROVE  Bystander
BY DEF JobQuiet, chainVars, Bystander

\* A transaction of a snapshot that is found on chain is kept by the document, and its
\* nonce, which is the document's, has passed.
LEMMA FoundIsKept ==
  ASSUME Inv, PayoutInv, NEW s \in Swaps, NEW q, SnapOK(s, q), Snapshot(res[s], q),
         NEW tx \in getSwapTxStatus(q)
  PROVE  /\ tx \in Tx /\ Kept(res[s], tx) /\ tx.nonce = res[s].nonce /\ OnChain(tx)
         /\ q.nonce < chainNonce
<1>1. /\ tx \in Tx /\ tx # NoTx
  BY FoundTxs DEF Inv, RestTypeOK
<1>2. tx \in Tracked(q) /\ OnChain(tx)
  BY <1>1 DEF getSwapTxStatus, Tracked
<1>3. Kept(res[s], tx)
  BY <1>2 DEF Snapshot
<1>4. tx.nonce = res[s].nonce
  <2>1. res[s] \in SwapResults /\ PayoutRes(res[s], chainNonce)
    BY Types DEF PayoutInv, PayoutResInv
  <2>2. tx \in Tracked(res[s])
    BY <1>1, <1>3, <2>1, KeptIsTracked
  <2> QED BY <2>1, <2>2 DEF PayoutRes
<1>5. tx.nonce < chainNonce
  BY <1>2 DEF OnChain, PayoutInv, MinedInv
<1> QED BY <1>1, <1>2, <1>3, <1>4, <1>5 DEF Snapshot

\* The document of a task or of a found result has a nonce.
LEMMA TaskHasNonce ==
  ASSUME Inv, PayoutInv, NEW s \in Swaps
  PROVE  /\ stableTask[s] # NoTask => /\ Snapshot(res[s], stableTask[s].snap) /\ res[s].nonce # 0
                                      /\ SnapOK(s, stableTask[s].snap)
         /\ replaceTask[s] # NoTask => /\ Snapshot(res[s], replaceTask[s].snap) /\ res[s].nonce # 0
                                       /\ SnapOK(s, replaceTask[s].snap)
         /\ failedFound[s] # NoResult => /\ Snapshot(res[s], failedFound[s]) /\ res[s].nonce # 0
                                         /\ SnapOK(s, failedFound[s])
BY DEF PayoutInv, SnapInv, PayoutTask, Snapshot, Inv, TasksInv, StableTaskInv, ReplaceTaskInv,
       FailedInv, TaskOK

\* A task that is marked keeps its snapshot.
LEMMA MarkedTask ==
  ASSUME NEW t \in Tasks, NEW mark
  PROVE  ToMark(t, mark).snap = t.snap /\ ToMark(t, mark).mark = mark
BY DEF ToMark, Tasks

LEMMA StableSafe ==
  ASSUME Inv, PayoutInv, NEW s \in Swaps, StableStep(s), JobQuiet,
         UNCHANGED <<replaceTask, replacing, failedFound>>
  PROVE  Bystander
<1> DEFINE r == stableTask[s].snap
<1>1. /\ res[s] \in SwapResults /\ PayoutRes(res[s], chainNonce) /\ stableTask[s] \in Tasks
      /\ stableTask \in [Swaps -> Tasks]
  BY Types DEF PayoutInv, PayoutResInv, Inv, TasksInv, StableTaskInv
<1>2. LiveStep /\ CheckedStep
  BY JobLive
<1>3. ASSUME NEW t, stableTask' = [stableTask EXCEPT ![s] = t], GrowStep, KeepNonces,
             PayoutTask(res'[s], t, chainNonce)
      PROVE  Bystander
  <2>1. stableTask'[s] = t /\ \A k \in Swaps \ {s} : stableTask'[k] = stableTask[k]
    BY <1>1, <1>3
  <2>2. SnapStep
    BY <1>3, <2>1 DEF SnapStep
  <2> QED BY <1>2, <1>3, <2>2, JobBystander
<1>4. \A q : PayoutTask(q, NoTask, chainNonce)
  BY DEF PayoutTask
<1>5. CASE StableDispatch(s)
  <2>1. res' = res /\ stableTask' = [stableTask EXCEPT ![s] = Queued(res[s])]
    BY <1>5 DEF StableDispatch, dbVars
  <2>2. Snapshot(res[s], res[s])
    BY <1>1, <1>5, OwnSnapshot DEF StableDispatch, FindRouterSwapResultsWithStatus, PayoutRes
  <2>3. PayoutTask(res[s], Queued(res[s]), chainNonce)
    BY <2>2 DEF PayoutTask, Queued, NoMark
  <2> QED BY <1>3, <2>1, <2>3, SameGrows
<1>6. CASE StableWait(s)
  <2>1. res' = res /\ stableTask' = [stableTask EXCEPT ![s] = NoTask]
    BY <1>6 DEF StableWait, StableDone, dbVars
  <2> QED BY <1>3, <1>4, <2>1, SameGrows
<1>7. CASE StableNoncePassed(s)
  <2> DEFINE t == IF MayMarkFailed(s) THEN ToMark(stableTask[s], "MatchTxFailed") ELSE NoTask
  <2>1. res' = res /\ stableTask' = [stableTask EXCEPT ![s] = t] /\ stableTask[s] # NoTask
        /\ NonceHasPassed(r)
    BY <1>7 DEF StableNoncePassed, StableTo, StableDone, StableQueued, dbVars
  <2>2. r.nonce < chainNonce
    <3>1. r.nonce \in Nat /\ chainNonce \in Nat
      BY Types DEF SwapResults
    <3> QED BY <2>1, <3>1 DEF NonceHasPassed
  <2>3. PayoutTask(res[s], t, chainNonce)
    BY <1>1, <1>4, <2>1, <2>2, TaskHasNonce, MarkedTask DEF PayoutTask
  <2> HIDE DEF t
  <2> QED BY <1>3, <2>1, <2>3, SameGrows
<1>8. CASE StableRecord(s)
  <2>1. PICK tx \in getSwapTxStatus(r) :
          res' = [res EXCEPT ![s] = UpdateRouterSwapResult(@,
                    Update("KeepStatus", IF tx = r.swaptx THEN NoTx ELSE tx, TRUE, 0))]
    BY <1>8 DEF StableRecord, StableDone
  <2>2. stableTask' = [stableTask EXCEPT ![s] = NoTask] /\ stableTask[s] # NoTask
    BY <1>8 DEF StableRecord, StableDone, StableQueued
  <2> DEFINE new == IF tx = r.swaptx THEN NoTx ELSE tx
             q == UpdateRouterSwapResult(res[s], Update("KeepStatus", new, TRUE, 0))
  <2>3. new \in Tx \cup {NoTx} /\ (new # NoTx => Kept(res[s], new))
    BY <2>2, TaskHasNonce, FoundIsKept
  <2>4. res' = [res EXCEPT ![s] = q]
    BY <2>1
  <2> HIDE DEF new
  <2>5. PayoutRes(q, chainNonce) /\ Grows(res[s], q) /\ q.nonce = res[s].nonce
    BY <1>1, <2>3, RecordGrows
  <2> HIDE DEF q
  <2>6. GrowStep /\ KeepNonces
    BY <2>4, <2>5, SetGrows
  <2> QED BY <1>3, <1>4, <2>2, <2>6
<1>9. CASE StableConfirm(s)
  <2>1. PICK tx \in getSwapTxStatus(r) :
          /\ res' = IF tx = r.swaptx THEN res
                    ELSE [res EXCEPT ![s] =
                            UpdateRouterSwapResult(@, Update("KeepStatus", tx, FALSE, 0))]
          /\ stableTask' = [stableTask EXCEPT ![s] =
               ToMark(@, IF tx \in minedFail THEN "MatchTxFailed" ELSE "MatchTxStable")]
    BY <1>9 DEF StableConfirm, StableTo
  <2>2. stableTask[s] # NoTask
    BY <1>9 DEF StableConfirm, StableTo, StableQueued
  <2>3. tx \in Tx /\ Kept(res[s], tx) /\ r.nonce < chainNonce
    BY <2>2, TaskHasNonce, FoundIsKept
  <2> DEFINE q == UpdateRouterSwapResult(res[s], Update("KeepStatus", tx, FALSE, 0))
             mark == IF tx \in minedFail THEN "MatchTxFailed" ELSE "MatchTxStable"
             t == ToMark(stableTask[s], mark)
  <2>4. PayoutRes(q, chainNonce) /\ Grows(res[s], q) /\ q.nonce = res[s].nonce
    BY <1>1, <2>3, RecordGrows
  <2>5. res' = res \/ res' = [res EXCEPT ![s] = q]
    BY <2>1
  <2>6. stableTask' = [stableTask EXCEPT ![s] = t]
    BY <2>1
  <2>7. t.snap = r /\ t.mark = mark
    BY <1>1, MarkedTask
  <2> HIDE DEF q, t, mark
  <2>8. GrowStep /\ KeepNonces
    BY <2>4, <2>5, SameGrows, SetGrows
  <2>9. Snapshot(res'[s], r)
    <3>1. r \in SwapResults /\ Snapshot(res[s], r) /\ Grows(res[s], res'[s])
      BY <2>2, <2>8, Types, TaskHasNonce DEF GrowStep
    <3> QED BY <3>1, SnapStays
  <2>10. PayoutTask(res'[s], t, chainNonce)
    BY <2>3, <2>7, <2>9 DEF PayoutTask
  <2> QED BY <1>3, <2>6, <2>8, <2>10
<1>10. CASE StableMark(s)
  <2>1. /\ stableTask[s].mark \in {"MatchTxStable", "MatchTxFailed"} /\ stableTask[s] # NoTask
        /\ SetResStatus(s, stableTask[s].mark) /\ stableTask' = [stableTask EXCEPT ![s] = NoTask]
    BY <1>1, <1>10 DEF StableMark, StableDone, Tasks, NoMark, NoTask
  <2>2. stableTask[s].mark = "MatchTxFailed" => res[s].nonce < chainNonce
    BY <2>1 DEF PayoutInv, SnapInv, PayoutTask, Snapshot
  <2>3. GrowStep /\ KeepNonces
    BY <2>1, <2>2, TaskHasNonce, SetStatusGrows DEF ResStatus
  <2> QED BY <1>3, <1>4, <2>1, <2>3
<1> QED BY <1>5, <1>6, <1>7, <1>8, <1>9, <1>10 DEF StableStep

\* A replacement has the nonce of the document.
LEMMA ReplaceSafe ==
  ASSUME Inv, PayoutInv, JobQuiet, NEW s \in Swaps, NEW r, Replace(s, r, TRUE) \/ Replace(s, r, FALSE),
         r.nonce = res[s].nonce, res[s].nonce # 0, res' = res
  PROVE  LiveStep /\ CheckedStep
<1>1. replacing' = replacing \cup {[swap |-> s, nonce |-> r.nonce, id |-> txCount + 1]}
  BY DEF Replace
<1> QED BY <1>1 DEF JobQuiet, chainVars, LiveStep, CheckedStep, Live, DoSending, PayoutInv, LiveInv

LEMMA ReplaceStepSafe ==
  ASSUME Inv, PayoutInv, NEW s \in Swaps, ReplaceStep(s) \/ RecycleSwapNonce(s), JobQuiet,
         UNCHANGED <<stableTask, failedFound>>
  PROVE  Bystander
<1> DEFINE r == replaceTask[s].snap
<1>1. /\ res[s] \in SwapResults /\ PayoutRes(res[s], chainNonce) /\ replaceTask[s] \in Tasks
      /\ replaceTask \in [Swaps -> Tasks]
  BY Types DEF PayoutInv, PayoutResInv, Inv, TasksInv, ReplaceTaskInv
<1>2. ASSUME NEW t, replaceTask' = [replaceTask EXCEPT ![s] = t], GrowStep, KeepNonces,
             LiveStep, CheckedStep, PayoutTask(res'[s], t, chainNonce)
      PROVE  Bystander
  <2>1. replaceTask'[s] = t /\ \A k \in Swaps \ {s} : replaceTask'[k] = replaceTask[k]
    BY <1>1, <1>2
  <2>2. SnapStep
    BY <1>2, <2>1 DEF SnapStep
  <2> QED BY <1>2, <2>2, JobBystander
<1>3. ASSUME replaceTask' = replaceTask, GrowStep, KeepNonces, LiveStep, CheckedStep
      PROVE  Bystander
  <2>1. SnapStep
    BY <1>3 DEF SnapStep
  <2> QED BY <1>3, <2>1, JobBystander
<1>4. \A q : PayoutTask(q, NoTask, chainNonce)
  BY DEF PayoutTask
<1>5. CASE ReplaceDispatch(s)
  <2>1. res' = res /\ replacing' = replacing /\ replaceTask' = [replaceTask EXCEPT ![s] = Queued(res[s])]
    BY <1>5 DEF ReplaceDispatch, dbVars
  <2>2. Snapshot(res[s], res[s])
    BY <1>1, <1>5, OwnSnapshot DEF ReplaceDispatch, FindRouterSwapResultsWithStatus, PayoutRes
  <2>3. PayoutTask(res[s], Queued(res[s]), chainNonce)
    BY <2>2 DEF PayoutTask, Queued, NoMark
  <2> QED BY <1>2, <2>1, <2>3, SameGrows, JobLive
<1>6. CASE ReplaceStart(s)
  <2>1. /\ res' = res /\ replaceTask' = [replaceTask EXCEPT ![s] = NoTask] /\ replaceTask[s] # NoTask
        /\ Replace(s, r, FALSE)
    BY <1>6 DEF ReplaceStart, ReplaceDone, ReplaceQueued, dbVars
  <2>2. r.nonce = res[s].nonce /\ res[s].nonce # 0
    BY <2>1, TaskHasNonce DEF Snapshot
  <2>3. LiveStep /\ CheckedStep
    BY <2>1, <2>2, ReplaceSafe
  <2> QED BY <1>2, <1>4, <2>1, <2>3, SameGrows
<1>7. CASE ReplaceDrop(s) \/ RecycleSwapNonce(s)
  <2>1. res' = res /\ replacing' = replacing /\ replaceTask' = [replaceTask EXCEPT ![s] = NoTask]
    BY <1>7 DEF ReplaceDrop, ReplaceDone, RecycleSwapNonce, dbVars
  <2> QED BY <1>2, <1>4, <2>1, SameGrows, JobLive
<1>8. CASE ReplaceBlacked(s)
  <2>1. /\ SetResStatus(s, "SwapInBlacklist") /\ replacing' = replacing
        /\ replaceTask' = [replaceTask EXCEPT ![s] = NoTask]
    BY <1>8 DEF ReplaceBlacked, ReplaceDone
  <2>2. GrowStep /\ KeepNonces
    BY <2>1, SetStatusGrows DEF ResStatus
  <2> QED BY <1>2, <1>4, <2>1, <2>2, JobLive
<1>9. CASE ReplaceNoncePassed(s)
  <2> DEFINE t == ToMark(replaceTask[s], "MatchTxFailed")
  <2>1. /\ res' = res /\ replacing' = replacing /\ replaceTask' = [replaceTask EXCEPT ![s] = t]
        /\ replaceTask[s] # NoTask /\ NonceHasPassed(r)
    BY <1>9 DEF ReplaceNoncePassed, ReplaceQueued, dbVars
  <2>2. r.nonce < chainNonce
    <3>1. r.nonce \in Nat /\ chainNonce \in Nat
      BY Types DEF SwapResults
    <3> QED BY <2>1, <3>1 DEF NonceHasPassed
  <2>3. PayoutTask(res[s], t, chainNonce)
    BY <1>1, <2>1, <2>2, TaskHasNonce, MarkedTask DEF PayoutTask
  <2> HIDE DEF t
  <2> QED BY <1>2, <2>1, <2>3, SameGrows, JobLive
<1>10. CASE ReplaceMark(s)
  <2>1. /\ replaceTask[s].mark \in {"MatchTxStable", "MatchTxFailed"} /\ replaceTask[s] # NoTask
        /\ SetResStatus(s, replaceTask[s].mark) /\ replacing' = replacing
        /\ replaceTask' = [replaceTask EXCEPT ![s] = NoTask]
    BY <1>1, <1>10 DEF ReplaceMark, ReplaceDone, Tasks, NoMark, NoTask
  <2>2. replaceTask[s].mark = "MatchTxFailed" => res[s].nonce < chainNonce
    BY <2>1 DEF PayoutInv, SnapInv, PayoutTask, Snapshot
  <2>3. GrowStep /\ KeepNonces
    BY <2>1, <2>2, TaskHasNonce, SetStatusGrows DEF ResStatus
  <2> QED BY <1>2, <1>4, <2>1, <2>3, JobLive
<1>11. CASE AdminReplace(s)
  <2>1. replaceTask' = replaceTask
    BY <1>11 DEF AdminReplace
  <2>2. CASE Replace(s, res[s], TRUE) /\ UNCHANGED dbVars
    <3>1. res[s].nonce # 0 /\ res' = res
      BY <1>1, <2>2 DEF Replace, verifyReplaceSwap, PayoutRes, dbVars
    <3>2. LiveStep /\ CheckedStep
      BY <2>2, <3>1, ReplaceSafe
    <3> QED BY <1>3, <2>1, <3>1, <3>2, SameGrows
  <2>3. CASE /\ verifyReplaceSwap(s, res[s], TRUE) /\ NonceHasPassed(res[s])
             /\ SetResStatus(s, "MatchTxFailed") /\ replacing' = replacing
    <3>1. res[s].nonce # 0 /\ res[s].nonce < chainNonce
      <4>1. res[s].nonce \in Nat /\ chainNonce \in Nat
        BY Types
      <4> QED BY <2>3, <4>1 DEF NonceHasPassed
    <3>2. GrowStep /\ KeepNonces
      BY <2>3, <3>1, SetStatusGrows DEF ResStatus
    <3> QED BY <1>3, <2>1, <2>3, <3>2, JobLive
  <2>4. CASE SetResStatus(s, "SwapInBlacklist") /\ replacing' = replacing
    <3>1. GrowStep /\ KeepNonces
      BY <2>4, SetStatusGrows DEF ResStatus
    <3> QED BY <1>3, <2>1, <2>4, <3>1, JobLive
  <2> QED BY <1>11, <2>2, <2>3, <2>4 DEF AdminReplace
<1> QED BY <1>5, <1>6, <1>7, <1>8, <1>9, <1>10, <1>11 DEF ReplaceStep

\* signAndSendReplaceTx: the replacement is kept by the document before it is sent.
LEMMA ReplaceSignSafe ==
  ASSUME Inv, PayoutInv, NEW tx \in replacing, ReplaceSign(tx) \/ ReplaceSignFails(tx),
         UNCHANGED <<chainVars, signing, loops, loopSeen, reswapChecked, doPc, doTx, swapNonce,
                     stableTask, failedFound>>
  PROVE  Bystander
<1>1. /\ tx \in Tx /\ tx.swap \in Swaps /\ tx.nonce = res[tx.swap].nonce /\ tx.nonce # 0
      /\ replacing' \subseteq replacing /\ replaceTask' = replaceTask
  BY Types, TxType DEF PayoutInv, LiveInv, ReplaceSign, ReplaceSignFails
<1>2. SnapStep /\ CheckedStep
  BY <1>1 DEF SnapStep, CheckedStep
<1>3. CASE ReplaceSign(tx)
  <2> DEFINE s == tx.swap
             q == UpdateRouterOldSwapTxs(res[s], tx)
  <2>1. res[s] \in SwapResults /\ PayoutRes(res[s], chainNonce)
    BY <1>1, Types DEF PayoutInv, PayoutResInv
  <2>2. PayoutRes(q, chainNonce) /\ Grows(res[s], q) /\ q.nonce = res[s].nonce /\ Kept(q, tx)
    BY <1>1, <2>1, OldTxsGrows
  <2>3. res' = [res EXCEPT ![s] = q] /\ sending' = sending \cup {tx}
    BY <1>3 DEF ReplaceSign
  <2> HIDE DEF q
  <2>4. GrowStep /\ KeepNonces /\ res'[s] = q
    BY <1>1, <2>2, <2>3, SetGrows
  <2>5. KeptBy(res'[tx.swap], tx)
    BY <1>1, <2>2, <2>4 DEF KeptBy
  <2>6. LiveStep
    BY <1>1, <2>3, <2>5 DEF LiveStep, Live, DoSending, chainVars, PayoutInv, LiveInv
  <2> QED BY <1>2, <2>4, <2>6 DEF Bystander, chainVars
<1>4. CASE ReplaceSignFails(tx)
  <2>1. res' = res /\ sending' = sending
    BY <1>4 DEF ReplaceSignFails, dbVars
  <2>2. LiveStep
    BY <1>1, <2>1 DEF LiveStep, Live, DoSending, chainVars, PayoutInv, LiveInv
  <2> QED BY <1>2, <2>1, <2>2, SameGrows DEF Bystander, chainVars
<1> QED BY <1>3, <1>4

LEMMA FailedSafe ==
  ASSUME Inv, PayoutInv, NEW s \in Swaps, FailedFind(s) \/ FailedCheck(s), JobQuiet,
         UNCHANGED <<stableTask, replaceTask, replacing>>
  PROVE  Bystander
<1>1. /\ res[s] \in SwapResults /\ PayoutRes(res[s], chainNonce)
      /\ failedFound \in [Swaps -> SwapResults]
  BY Types DEF PayoutInv, PayoutResInv, Inv, TasksInv, FailedInv
<1>2. LiveStep /\ CheckedStep
  BY JobLive
<1>3. CASE FailedFind(s)
  <2>1. res' = res /\ failedFound' = [failedFound EXCEPT ![s] = res[s]]
    BY <1>3 DEF FailedFind, dbVars
  <2>2. Snapshot(res[s], res[s])
    BY <1>1, <1>3, OwnSnapshot DEF FailedFind, FindRouterSwapResultsWithStatus, PayoutRes
  <2>3. SnapStep
    BY <1>1, <2>1, <2>2 DEF SnapStep
  <2> QED BY <1>2, <2>1, <2>3, SameGrows, JobBystander
<1>4. CASE FailedCheck(s)
  <2>1. failedFound[s] # NoResult /\ failedFound' = [failedFound EXCEPT ![s] = NoResult]
    BY <1>4 DEF FailedCheck
  <2>2. PICK status \in FailedVerdicts(failedFound[s]) :
          IF status = NoMark THEN UNCHANGED res ELSE SetResStatus(s, status)
    BY <1>4 DEF FailedCheck
  <2>3. status \in {NoMark, "MatchTxNotStable", "MatchTxStable"}
    BY DEF FailedVerdicts
  <2>4. res[s].nonce # 0
    BY <2>1, TaskHasNonce
  <2>5. GrowStep /\ KeepNonces
    <3>1. CASE status = NoMark
      BY <2>2, <3>1, SameGrows
    <3>2. CASE status # NoMark
      BY <2>2, <2>3, <2>4, <3>2, SetStatusGrows DEF ResStatus
    <3> QED BY <3>1, <3>2
  <2>6. SnapStep
    BY <1>1, <2>1 DEF SnapStep
  <2> QED BY <1>2, <2>5, <2>6, JobBystander
<1> QED BY <1>3, <1>4

LEMMA ResultSafe ==
  ASSUME Inv, PayoutInv, ResultStep
  PROVE  Bystander
<1>1. UNCHANGED adminVars
  BY DEF ResultStep
<1>2. ASSUME NEW s \in Swaps, StableStep(s),
             UNCHANGED <<swapVars, sendVars, chainVars, replaceVars, failedFound>>
      PROVE  Bystander
  <2>1. JobQuiet /\ UNCHANGED <<replaceTask, replacing, failedFound>>
    BY <1>1, <1>2 DEF JobQuiet, swapVars, sendVars, replaceVars, adminVars
  <2> QED BY <1>2, <2>1, StableSafe
<1>3. ASSUME NEW s \in Swaps, ReplaceStep(s) \/ RecycleSwapNonce(s),
             UNCHANGED <<foundSwaps, cached, swapTasks, doPc, doTx, swapNonce, sendVars,
                         chainVars, stableTask, failedFound>>
      PROVE  Bystander
  <2>1. JobQuiet /\ UNCHANGED <<stableTask, failedFound>>
    BY <1>1, <1>3 DEF JobQuiet, sendVars, adminVars
  <2> QED BY <1>3, <2>1, ReplaceStepSafe
<1>4. ASSUME NEW s \in Swaps, FailedFind(s) \/ FailedCheck(s),
             UNCHANGED <<swapVars, queueVars, sendVars, chainVars, stableTask, replaceVars>>
      PROVE  Bystander
  <2>1. JobQuiet /\ UNCHANGED <<stableTask, replaceTask, replacing>>
    BY <1>1, <1>4 DEF JobQuiet, swapVars, sendVars, replaceVars, adminVars
  <2> QED BY <1>4, <2>1, FailedSafe
<1>5. ASSUME NEW tx \in replacing, ReplaceSign(tx) \/ ReplaceSignFails(tx),
             UNCHANGED <<foundSwaps, cached, taskVars, doPc, doTx, swapNonce, recycleNonce, signing,
                         loops, loopSeen, chainVars, stableTask, failedFound>>
      PROVE  Bystander
  BY <1>1, <1>5, ReplaceSignSafe DEF adminVars
<1> QED BY <1>2, <1>3, <1>4, <1>5 DEF ResultStep, ResultJobsNext

-----------------------------------------------------------------------------
(* The administrator *)

\* getSwapTxStatus finds the transaction that paid the swap.
LEMMA PaidIsFound ==
  ASSUME Inv, PayoutInv, NEW s \in Swaps, NoSuccessFound(res[s])
  PROVE  ~Paid(s)
<1> SUFFICES ASSUME NEW tx \in minedOk, tx.swap = s PROVE FALSE
  BY DEF Paid
<1>1. res[s] \in SwapResults /\ PayoutRes(res[s], chainNonce) /\ tx \in Tx
  BY Types DEF PayoutInv, PayoutResInv
<1>2. tx \in Tracked(res[s]) /\ OnChain(tx)
  BY <1>1, KeptIsTracked DEF PayoutInv, MinedInv, KeptBy, OnChain
<1>3. getSwapTxStatus(res[s]) # {}
  BY <1>2 DEF getSwapTxStatus, Tracked
<1>4. PICK other \in getSwapTxStatus(res[s]) : other \in minedFail
  BY <1>3 DEF NoSuccessFound
<1>5. other \in Tracked(res[s])
  <2>1. other \in Tx
    BY <1>4, Types
  <2> QED BY <2>1, NoTxAssumption DEF getSwapTxStatus, Tracked
<1>6. other.nonce = tx.nonce
  BY <1>1, <1>2, <1>5 DEF PayoutRes
<1>7. other = tx
  BY <1>4, <1>6 DEF PayoutInv, MinedInv
<1> QED BY <1>4, <1>7 DEF PayoutInv, MinedInv

\* A reswap call resets the document.
Reset(s, nonce) ==
  /\ RouterAdminReswap(s, nonce) /\ ~(chainNonce <= nonce)
  /\ UNCHANGED <<chainVars, sendVars, resultVars, doPc, doTx, swapNonce>>

LEMMA AdminSafe ==
  ASSUME Inv, PayoutInv, AdminStep
  PROVE  Bystander \/ \E s \in Swaps, nonce \in Nat : Reset(s, nonce)
<1>1. UNCHANGED <<chainVars, sendVars, resultVars, doPc, doTx, swapNonce>>
  BY DEF AdminStep
<1>2. JobQuiet \/ reswapChecked' # reswapChecked
  BY <1>1 DEF JobQuiet, sendVars
<1>3. SnapStep
  BY <1>1 DEF SnapStep, resultVars, replaceVars
<1>4. ASSUME reswapChecked' = reswapChecked, GrowStep, KeepNonces PROVE Bystander
  <2>1. Quiet
    BY <1>1, <1>4 DEF Quiet, sendVars, resultVars, replaceVars
  <2> QED BY <1>4, <2>1, QuietBystander
<1>5. ASSUME CheckedStep, res' = res PROVE Bystander
  <2>1. LiveStep
    BY <1>1, <1>5 DEF LiveStep, Live, DoSending, chainVars, sendVars, resultVars, replaceVars,
       PayoutInv, LiveInv
  <2> QED BY <1>1, <1>3, <1>5, <2>1, SameGrows DEF Bystander, chainVars
<1>6. ASSUME NEW s \in Swaps, ReswapRefused(s) PROVE Bystander
  <2>1. res[s].nonce # 0
    BY <1>6 DEF ReswapRefused, Reswappable, PayoutInv, PayoutResInv, PayoutRes
  <2>2. GrowStep /\ KeepNonces
    BY <1>6, <2>1, SetStatusGrows DEF ReswapRefused, ResStatus
  <2> QED BY <1>4, <1>6, <2>2 DEF ReswapRefused, adminVars
<1>7. ASSUME NEW s \in Swaps, ReswapLookup(s) PROVE Bystander
  <2>1. res[s].nonce # 0 /\ res[s].nonce < chainNonce
    BY <1>7 DEF ReswapLookup, Reswappable, PayoutInv, PayoutResInv, PayoutRes
  <2>2. ~Paid(s)
    BY <1>7, PaidIsFound DEF ReswapLookup
  <2>3. Checked(<<s, res[s].nonce>>)
    BY <2>1, <2>2 DEF Checked
  <2>4. CheckedStep /\ res' = res
    BY <1>7, <2>3 DEF ReswapLookup, CheckedStep, dbVars
  <2> QED BY <1>5, <2>4
<1>8. ASSUME NEW s \in Swaps, NEW nonce \in {c[2] : c \in reswapChecked}, RouterAdminReswap(s, nonce)
      PROVE  Bystander \/ (nonce \in Nat /\ Reset(s, nonce))
  <2>1. nonce \in Nat
    <3>1. \A c \in reswapChecked : c[2] \in Nat
      BY Types
    <3> QED BY <3>1
  <2>2. CASE chainNonce <= nonce
    <3>1. CheckedStep /\ res' = res
      BY <1>8, <2>2 DEF RouterAdminReswap, CheckedStep, dbVars
    <3> QED BY <1>5, <3>1
  <2>3. CASE ~(chainNonce <= nonce)
    BY <1>1, <1>8, <2>1, <2>3 DEF Reset
  <2> QED BY <2>2, <2>3
<1>9. ASSUME NEW s \in Swaps, ForbidSwap(s) PROVE Bystander
  <2>1. GrowStep /\ KeepNonces
    BY <1>9, SetStatusGrows DEF ForbidSwap, ResStatus
  <2> QED BY <1>4, <1>9, <2>1 DEF ForbidSwap, adminVars
<1>10. ASSUME NEW s \in Swaps, ReswapFinish(s) PROVE Bystander
  BY <1>4, <1>10, SameGrows DEF ReswapFinish
<1> QED BY <1>6, <1>7, <1>8, <1>9, <1>10 DEF AdminStep

\* No transaction of the swap can be mined any more, and none has succeeded.
LEMMA ResetOK ==
  ASSUME Inv, Inv', PayoutInv, QuiescentReswap, NEW s \in Swaps, NEW nonce \in Nat, Reset(s, nonce)
  PROVE  /\ PayoutInv' /\ ~Paid(s)
         /\ \A tx \in pool \cup sending \cup DoSending : tx.swap = s => ~Minable(tx)
         /\ res'[s].nonce = 0 /\ \A k \in Swaps \ {s} : res'[k] = res[k]
<1> DEFINE q == InitialSwapResult("Reswapping")
<1>1. nonce = res[s].nonce /\ nonce # 0 /\ nonce < chainNonce /\ ~Paid(s)
  BY DEF Reset, RouterAdminReswap, PayoutInv, CheckedInv, Checked
<1>2. Quiescent(s)
  BY DEF Reset, RouterAdminReswap
<1>3. /\ UNCHANGED <<pool, minedOk, minedFail, chainNonce, signing, sending, loops, loopSeen,
                     stableTask, replaceTask, replacing, failedFound, doPc, doTx, swapNonce>>
      /\ DoSending' = DoSending /\ Live' = Live
  BY DEF Reset, chainVars, sendVars, resultVars, replaceVars, DoSending, Live
<1>4. res' = [res EXCEPT ![s] = q] /\ reswapChecked' = reswapChecked \ {<<s, nonce>>}
  <2>1. ResultExists(res[s])
    BY <1>1 DEF PayoutInv, PayoutResInv, PayoutRes, ResultExists
  <2> QED BY <2>1 DEF Reset, RouterAdminReswap, SetResStatus, UpdateRouterSwapResultStatus
<1>5. res'[s] = q /\ \A k \in Swaps \ {s} : res'[k] = res[k]
  BY <1>4 DEF Inv, ResInv
<1>6. q.nonce = 0 /\ q.swaptx = NoTx /\ q.old = {} /\ q.status = "Reswapping"
  BY DEF InitialSwapResult
<1> HIDE DEF q
<1>7. \A tx \in Live \cup replacing : tx \in Tx /\ tx.swap \in Swaps \ {s}
  BY <1>2, Types, TxType DEF Quiescent, Live, DoSending
<1>8. ASSUME NEW tx \in pool, Minable(tx) PROVE tx.swap \in Swaps \ {s}
  <2>1. tx \in Tx /\ tx.swap \in Swaps /\ tx.nonce \in Nat /\ chainNonce \in Nat
    BY Types, TxType
  <2>2. tx.nonce = res[tx.swap].nonce /\ tx.nonce >= chainNonce
    BY <1>8 DEF PayoutInv, MinedInv, KeptBy, Minable
  <2> QED BY <1>1, <2>1, <2>2
<1>9. PayoutResInv'
  <2>1. PayoutRes(q, chainNonce)
    BY <1>6 DEF PayoutRes, Tracked
  <2> QED BY <1>3, <1>5, <2>1 DEF PayoutInv, PayoutResInv
<1>10. LiveInv'
  BY <1>3, <1>5, <1>7 DEF PayoutInv, LiveInv
<1>11. MinedInv'
  <2>1. \A tx \in pool : Minable(tx) => KeptBy(res'[tx.swap], tx)
    BY <1>5, <1>8 DEF PayoutInv, MinedInv
  <2>2. \A tx \in minedOk : KeptBy(res'[tx.swap], tx)
    <3>1. \A tx \in minedOk : tx.swap \in Swaps \ {s}
      BY <1>1, Types, TxType DEF Paid
    <3> QED BY <1>5, <3>1 DEF PayoutInv, MinedInv
  <2> QED BY <1>3, <2>1, <2>2 DEF PayoutInv, MinedInv, Minable
<1>12. SnapInv'
  BY <1>2, <1>3, <1>5 DEF PayoutInv, SnapInv, PayoutTask, Quiescent
<1>13. DoInv'
  BY <1>2, <1>3, <1>5, Types DEF PayoutInv, DoInv, Quiescent
<1>14. CheckedInv'
  <2> SUFFICES ASSUME NEW c \in reswapChecked' PROVE Checked(c)'
    BY DEF CheckedInv
  <2>1. c \in reswapChecked /\ c # <<s, nonce>> /\ c \in Swaps \X Nat /\ Checked(c)
    BY <1>4, Types DEF PayoutInv, CheckedInv
  <2>2. c[1] # s
    BY <1>1, <2>1 DEF Checked
  <2> QED BY <1>3, <1>5, <2>1, <2>2 DEF Checked, Paid
<1>15. PayoutInv'
  BY <1>9, <1>10, <1>11, <1>12, <1>13, <1>14 DEF PayoutInv
<1>16. \A tx \in pool \cup sending \cup DoSending : tx.swap = s => ~Minable(tx)
  BY <1>7, <1>8 DEF Live
<1> QED BY <1>1, <1>5, <1>6, <1>15, <1>16

-----------------------------------------------------------------------------
(* The chain, and crashes *)

\* An account's nonce goes up: what was true of smaller nonces stays true.
LEMMA ResAfterBlock ==
  ASSUME NEW r \in SwapResults, NEW top \in Nat, PayoutRes(r, top)
  PROVE  PayoutRes(r, top + 1)
<1>1. r.nonce \in Nat
  BY DEF SwapResults
<1> QED BY <1>1 DEF PayoutRes

\* A block with or without a payout of the router: the transaction that is mined has the
\* account's nonce, so the document of its swap keeps it and no other has that nonce.
LEMMA ChainOK ==
  ASSUME Inv, Inv', PayoutInv, ChainStep
  PROVE  PayoutInv' /\ res' = res
<1>1. /\ res' = res /\ Live' = Live /\ DoSending' = DoSending
      /\ UNCHANGED <<signing, stableTask, replaceTask, replacing, failedFound, reswapChecked,
                     doPc, doTx, swapNonce>>
  BY DEF ChainStep, dbVars, swapVars, sendVars, resultVars, replaceVars, adminVars, Live, DoSending
<1>2. PICK tx \in pool \cup {NoTx}, ok \in BOOLEAN :
        \/ tx \in pool /\ Mine(tx, ok)
        \/ tx = NoTx /\ OtherTx
  BY DEF ChainStep, ChainNext
<1>3. /\ pool' = pool /\ chainNonce' = chainNonce + 1 /\ chainNonce \in Nat
      /\ minedOk \subseteq minedOk' /\ minedFail \subseteq minedFail'
      /\ minedOk' \subseteq minedOk \cup {tx} /\ minedFail' \subseteq minedFail \cup {tx}
      /\ minedOk' = minedOk \/ minedFail' = minedFail
      /\ (tx \in minedOk' \cup minedFail') /\ tx \notin minedOk \cup minedFail =>
           tx \in pool /\ tx.nonce = chainNonce
  BY <1>2, Types DEF Mine, OtherTx
<1>4. \A x \in minedOk \cup minedFail : x.nonce \in Nat /\ x.nonce < chainNonce /\ x.nonce # chainNonce
  <2>1. \A x \in minedOk \cup minedFail : x.nonce \in Nat
    BY Types, TxType
  <2> QED BY <1>3, <2>1 DEF PayoutInv, MinedInv
<1>5. ASSUME NEW x \in pool, x.nonce >= chainNonce PROVE KeptBy(res[x.swap], x)
  BY <1>5 DEF PayoutInv, MinedInv, Minable
<1>6. PayoutResInv'
  BY <1>1, <1>3, Types, ResAfterBlock DEF PayoutInv, PayoutResInv
<1>7. LiveInv'
  BY <1>1 DEF PayoutInv, LiveInv
<1>8. MinedInv'
  <2>1. \A x \in pool' : Minable(x)' => KeptBy(res'[x.swap], x)
    <3>1. ASSUME NEW x \in pool, x.nonce >= chainNonce + 1 PROVE x.nonce >= chainNonce
      <4>1. x.nonce \in Nat
        BY Types, TxType
      <4> QED BY <1>3, <3>1, <4>1
    <3> QED BY <1>1, <1>3, <1>5, <3>1 DEF Minable
  <2>2. ASSUME NEW x \in minedOk' PROVE KeptBy(res'[x.swap], x)
    <3>1. CASE x \in minedOk
      BY <1>1, <3>1 DEF PayoutInv, MinedInv
    <3>2. CASE x \notin minedOk
      <4>1. x = tx /\ minedOk' # minedOk
        BY <1>3, <3>2
      <4>2. CASE x \in minedFail
        <5>1. FALSE
          BY <1>2, <1>4, <4>1, <4>2 DEF Mine, OtherTx
        <5> QED BY <5>1
      <4>3. CASE x \notin minedFail
        <5>1. x \in pool /\ x.nonce = chainNonce
          BY <1>3, <2>2, <3>2, <4>1, <4>3
        <5>2. x.nonce >= chainNonce
          BY <1>3, <5>1
        <5> QED BY <1>1, <1>5, <5>1, <5>2
      <4> QED BY <4>2, <4>3
    <3> QED BY <3>1, <3>2
  <2>3. \A x \in minedOk' \cup minedFail' :
           \/ x \in minedOk \cup minedFail
           \/ x = tx /\ x.nonce = chainNonce
    BY <1>3
  <2>4. \A x \in minedOk' \cup minedFail' : x.nonce < chainNonce'
    BY <1>3, <1>4, <2>3
  <2>5. \A t1, t2 \in minedOk' \cup minedFail' : t1.nonce = t2.nonce => t1 = t2
    BY <1>4, <2>3 DEF PayoutInv, MinedInv
  <2>6. minedOk' \cap minedFail' = {}
    <3>1. ASSUME NEW x \in minedOk', x \in minedFail' PROVE FALSE
      <4>1. x = tx /\ x \in minedOk \cup minedFail
        BY <1>3, <3>1 DEF PayoutInv, MinedInv
      <4>2. Mine(tx, ok) /\ tx.nonce = chainNonce
        <5>1. ~OtherTx
          BY <3>1 DEF OtherTx, PayoutInv, MinedInv
        <5> QED BY <1>2, <5>1 DEF Mine
      <4> QED BY <1>4, <4>1, <4>2
    <3> QED BY <3>1
  <2> QED BY <2>1, <2>2, <2>4, <2>5, <2>6 DEF MinedInv
<1>9. SnapInv'
  <2> SUFFICES ASSUME NEW s \in Swaps
               PROVE  /\ PayoutTask(res[s], stableTask[s], chainNonce + 1)
                      /\ PayoutTask(res[s], replaceTask[s], chainNonce + 1)
                      /\ failedFound[s] # NoResult => Snapshot(res[s], failedFound[s])
    BY <1>1, <1>3 DEF SnapInv
  <2>1. stableTask[s].snap.nonce \in Nat /\ replaceTask[s].snap.nonce \in Nat
    BY Types DEF SwapResults
  <2> QED BY <1>3, <2>1 DEF PayoutInv, SnapInv, PayoutTask
<1>10. DoInv'
  BY <1>1, <1>3 DEF PayoutInv, DoInv
<1>11. CheckedInv'
  <2> SUFFICES ASSUME NEW c \in reswapChecked PROVE Checked(c)'
    BY <1>1 DEF CheckedInv
  <2>1. Checked(c) /\ c[1] \in Swaps /\ c[2] \in Nat
    BY Types DEF PayoutInv, CheckedInv
  <2>2. ASSUME NEW x \in minedOk', x.swap = c[1] PROVE FALSE
    <3>1. x \notin minedOk
      BY <2>1, <2>2 DEF Checked, Paid
    <3>2. Mine(tx, ok) /\ x = tx /\ tx.nonce = chainNonce /\ tx \in pool
      <4>1. ~OtherTx
        BY <2>2, <3>1 DEF OtherTx
      <4> QED BY <1>2, <1>3, <2>2, <3>1, <4>1 DEF Mine
    <3>3. x.nonce >= chainNonce
      BY <1>3, <3>2
    <3>4. x.nonce = c[2]
      BY <1>5, <2>1, <2>2, <3>2, <3>3 DEF KeptBy, Checked
    <3> QED BY <1>3, <2>1, <3>2, <3>4 DEF Checked
  <2> QED BY <1>1, <1>3, <2>1, <2>2 DEF Checked, Paid
<1> QED BY <1>1, <1>6, <1>7, <1>8, <1>9, <1>10, <1>11 DEF PayoutInv

\* A crash forgets every goroutine, every task and every call; the documents stay.
LEMMA RestartOK ==
  ASSUME Inv, Inv', PayoutInv, Crash
  PROVE  /\ PayoutInv' /\ res' = res /\ doPc' = "idle"
         /\ \A s \in Swaps : res[s].nonce < swapNonce'
<1>1. /\ res' = res /\ UNCHANGED <<pool, minedOk, minedFail, chainNonce>>
      /\ signing' = {} /\ replacing' = {} /\ reswapChecked' = {} /\ doPc' = "idle" /\ Live' = {}
      /\ stableTask' = [s \in Swaps |-> NoTask]
      /\ replaceTask' = [s \in Swaps |-> NoTask]
      /\ failedFound' = [s \in Swaps |-> NoResult]
  BY DEF Crash, dbVars, chainVars, Live, DoSending
<1>2. PICK n \in 0 .. MaxNonce + 1, pendingNonce \in PoolNonces :
        /\ IsNextSwapNonce(n)
        /\ swapNonce' = IF pendingNonce > n THEN pendingNonce ELSE n
  BY DEF Crash, InitSwapNonce
<1>3. pendingNonce \in Nat \ {0} /\ n \in Nat
  BY PoolNoncesPositive, NonceAssumption
<1>4. swapNonce' # 0 /\ \A s \in Swaps : res[s].nonce < swapNonce'
  BY <1>2, <1>3, Types DEF IsNextSwapNonce
<1>5. PayoutResInv' /\ LiveInv' /\ CheckedInv'
  BY <1>1 DEF PayoutInv, PayoutResInv, LiveInv, CheckedInv
<1>6. MinedInv'
  BY <1>1 DEF PayoutInv, MinedInv, Minable
<1>7. SnapInv'
  BY <1>1 DEF SnapInv, PayoutTask
<1>8. DoInv'
  BY <1>1, <1>4 DEF PayoutInv, DoInv
<1> QED BY <1>1, <1>4, <1>5, <1>6, <1>7, <1>8 DEF PayoutInv

-----------------------------------------------------------------------------
(* The swap job signs one transaction at a time, an operator reswaps only a swap no job is *)
(* working on, and the MPC account has sent a transaction before (nonce 0 is read as "no   *)
(* nonce" by the result documents).                                                        *)

Sequential == ~Parallel /\ QuiescentReswap /\ FirstNonce > 0

LEMMA PayoutInitOK == ASSUME Init, FirstNonce > 0 PROVE PayoutInv
<1>1. /\ \A s \in Swaps : res[s] = NoResult
      /\ signing = {} /\ Live = {} /\ replacing = {} /\ reswapChecked = {}
      /\ pool = {} /\ minedOk = {} /\ minedFail = {}
      /\ chainNonce = FirstNonce /\ swapNonce = FirstNonce /\ doPc = "idle"
      /\ \A s \in Swaps : /\ stableTask[s] = NoTask /\ replaceTask[s] = NoTask
                          /\ failedFound[s] = NoResult
  BY DEF Init, RegisterInit, ChainInit, SwapJobInit, ResultJobsInit, Live, DoSending
<1>2. FirstNonce # 0
  BY NonceAssumption
<1>3. \A s \in Swaps : PayoutRes(res[s], chainNonce)
  <2>1. PayoutRes(NoResult, chainNonce)
    BY DEF NoResult, InitialSwapResult, PayoutRes, Tracked
  <2> QED BY <1>1, <2>1
<1>4. PayoutResInv /\ LiveInv /\ CheckedInv
  BY <1>1, <1>3 DEF PayoutResInv, LiveInv, CheckedInv
<1>5. MinedInv /\ SnapInv /\ DoInv
  BY <1>1, <1>2 DEF MinedInv, SnapInv, PayoutTask, DoInv
<1> QED BY <1>4, <1>5 DEF PayoutInv

\* Every step either is one of somebody who allocates no nonce, or one of the consumer of
\* the swap job, or a reset, a block, a crash.
Consumer ==
  \/ /\ doPc = "idle" /\ doPc' = "sign" /\ doTx'.nonce >= swapNonce
     /\ res' = res /\ swapNonce' = swapNonce
  \/ /\ doPc = "update" /\ doPc' = "status" /\ doTx' = doTx /\ doTx.swap \in Swaps
     /\ res'[doTx.swap].nonce = doTx.nonce
     /\ \A k \in Swaps \ {doTx.swap} : res'[k] = res[k]
     /\ swapNonce' = swapNonce
  \/ /\ res' = res /\ swapNonce' = swapNonce
     /\ \/ UNCHANGED <<doPc, doTx>>
        \/ doPc' = "idle" /\ doPc \in {"sign", "reverify", "recheck"}
        \/ /\ doPc \in {"sign", "recheck"} /\ doPc' \in {"reverify", "recheck", "update"}
           /\ doTx'.nonce = doTx.nonce
        \/ doPc = "status" /\ doPc' = "send" /\ doTx' = doTx
  \/ KeepNonces /\ swapNonce' = swapNonce /\ doPc = "reverify" /\ doPc' = "idle"
  \/ /\ res' = res /\ swapNonce' >= swapNonce
     /\ \/ /\ UNCHANGED <<doPc, doTx>>
           /\ \E tx \in sending : swapNonce' = swapNonce \/ swapNonce' = tx.nonce + 1
        \/ /\ doPc = "send" /\ doPc' = "idle"
           /\ IncreaseNonceWhenSendTx => swapNonce' > doTx.nonce

LEMMA StepCases ==
  ASSUME Inv, PayoutInv, Sequential, [Next]_vars
  PROVE  \/ Bystander
         \/ SafeStep /\ Consumer
         \/ \E s \in Swaps, nonce \in Nat : Reset(s, nonce)
         \/ ChainStep
         \/ Crash
<1>1. CASE UNCHANGED vars
  <2>1. Quiet /\ res' = res
    BY <1>1 DEF vars, Quiet, chainVars
  <2> QED BY <2>1, SameGrows, QuietBystander
<1>2. CASE RegisterStep
  BY <1>2, RegisterSafe
<1>3. CASE SwapStep
  <2> USE <1>3
  <2>1. UNCHANGED <<resultVars, adminVars>>
    BY DEF SwapStep
  <2>2. CASE ProduceStep /\ UNCHANGED chainVars
    BY <2>1, <2>2, ProduceSafe
  <2>3. CASE ConsumeStep /\ UNCHANGED <<foundSwaps, chainVars>>
    <3>1. UNCHANGED <<chainVars, resultVars, adminVars>>
      BY <2>1, <2>3
    <3>2. ASSUME NEW s \in Swaps, DoSwapBuild(s) PROVE SafeStep /\ Consumer
      <4>1. res' = res /\ swapNonce' = swapNonce
        BY <3>2 DEF DoSwapBuild, dbVars
      <4> QED BY <3>1, <3>2, <4>1, DoSwapBuildSafe DEF Consumer
    <3>3. ASSUME DoSwapUpdateResult PROVE SafeStep /\ Consumer
      <4>1. swapNonce' = swapNonce
        BY <3>3 DEF DoSwapUpdateResult
      <4> QED BY <3>1, <3>3, <4>1, DoSwapRecordSafe DEF Consumer
    <3>4. ASSUME DoSwapSilent PROVE SafeStep /\ Consumer
      BY <3>1, <3>4, DoSwapSilentSafe DEF Consumer
    <3>5. ASSUME reverifySwap PROVE SafeStep /\ Consumer
      BY <3>1, <3>5, ReverifySafe DEF Consumer
    <3> QED BY <2>3, <3>1, <3>2, <3>3, <3>4, <3>5, ConsumeCases, LoopSafe DEF Sequential
  <2>4. CASE SendStep /\ UNCHANGED foundSwaps
    BY <2>1, <2>4, SendSafe DEF Consumer, Sequential
  <2> QED BY <2>2, <2>3, <2>4 DEF SwapStep, SwapJobNext
<1>4. CASE ResultStep
  BY <1>4, ResultSafe
<1>5. CASE AdminStep
  BY <1>5, AdminSafe
<1> QED BY <1>1, <1>2, <1>3, <1>4, <1>5 DEF Next

\* What is known of the documents holds after every step, and a document is reset only
\* when nothing that could pay the swap again is on its way.
LEMMA PayoutNextOK ==
  ASSUME Inv, PayoutInv, Sequential, [Next]_vars
  PROVE  /\ PayoutInv'
         /\ \A s \in Swaps :
              (res[s].status # "Reswapping" /\ res'[s].status = "Reswapping") =>
                /\ ~Paid(s)
                /\ \A tx \in pool \cup sending \cup DoSending : tx.swap = s => ~Minable(tx)
<1>1. Inv'
  BY NextOK
<1>2. CASE SafeStep
  BY <1>1, <1>2, SafeStepOK DEF SafeStep, GrowStep, Grows
<1>3. CASE Bystander
  BY <1>2, <1>3, BystanderSafe
<1>4. ASSUME NEW s \in Swaps, NEW nonce \in Nat, Reset(s, nonce)
      PROVE  /\ PayoutInv' /\ ~Paid(s)
             /\ \A tx \in pool \cup sending \cup DoSending : tx.swap = s => ~Minable(tx)
             /\ \A k \in Swaps \ {s} : res'[k] = res[k]
  BY <1>1, <1>4, ResetOK DEF Sequential
<1>5. CASE ChainStep
  BY <1>1, <1>5, ChainOK
<1>6. CASE Crash
  BY <1>1, <1>6, RestartOK
<1> QED BY <1>2, <1>3, <1>4, <1>5, <1>6, StepCases

\* The inductive invariant holds in every reachable state.
LEMMA PayoutInvariant == ASSUME Sequential PROVE Spec => [](Inv /\ PayoutInv)
<1>1. Init => Inv /\ PayoutInv
  BY InitOK, PayoutInitOK DEF Sequential
<1>2. Inv /\ PayoutInv /\ [Next]_vars => (Inv /\ PayoutInv)'
  BY NextOK, PayoutNextOK
<1> QED BY <1>1, <1>2, PTL DEF Spec

\* The successful transactions of a swap all have the nonce of its document, and the chain
\* takes one transaction per nonce: however jobs, crashes, replacements and reswaps
\* interleave, a swap is paid once.
THEOREM PaidOnce == ASSUME Sequential PROVE Spec => []NoDoublePayout
<1>1. Inv /\ PayoutInv => NoDoublePayout
  <2> SUFFICES ASSUME Inv, PayoutInv, NEW tx1 \in minedOk, NEW tx2 \in minedOk, tx1.swap = tx2.swap
               PROVE  tx1 = tx2
    BY DEF NoDoublePayout
  <2>1. tx1.nonce = res[tx1.swap].nonce /\ tx2.nonce = res[tx1.swap].nonce
    BY DEF PayoutInv, MinedInv, KeptBy
  <2> QED BY <2>1 DEF PayoutInv, MinedInv
<1> QED BY <1>1, PayoutInvariant, PTL

\* "update database before sending transaction": every transaction that was sent or is about
\* to be, and that the chain could still take, is in the result document under its nonce.
THEOREM SentIsTracked == ASSUME Sequential PROVE Spec => []SentTxTracked
<1>1. Inv /\ PayoutInv => SentTxTracked
  <2> SUFFICES ASSUME Inv, PayoutInv, NEW tx \in pool \cup sending \cup DoSending, Minable(tx)
               PROVE  tx \in Tracked(res[tx.swap]) /\ res[tx.swap].nonce = tx.nonce
    BY DEF SentTxTracked
  <2>1. KeptBy(res[tx.swap], tx)
    BY DEF PayoutInv, MinedInv, LiveInv, Live
  <2>2. tx \in Tx /\ tx.swap \in Swaps
    BY Types, TxType DEF Live
  <2>3. res[tx.swap] \in SwapResults /\ PayoutRes(res[tx.swap], chainNonce)
    BY <2>2, Types DEF PayoutInv, PayoutResInv
  <2> QED BY <2>1, <2>2, <2>3, KeptIsTracked DEF KeptBy
<1> QED BY <1>1, PayoutInvariant, PTL

\* RouterAdminReswap and the reswap job reset a result only when no transaction of the swap
\* has succeeded and none that was sent can still be mined.
THEOREM ReswapSafe == ASSUME Sequential PROVE Spec => ReswapIsSafe
<1>1. Inv /\ PayoutInv /\ [Next]_vars =>
        [\A s \in Swaps :
           (res[s].status # "Reswapping" /\ res'[s].status = "Reswapping") =>
             /\ ~Paid(s)
             /\ \A tx \in pool \cup sending \cup DoSending : tx.swap = s => ~Minable(tx)]_vars
  BY PayoutNextOK
<1> QED BY <1>1, PayoutInvariant, PTL DEF Spec, ReswapIsSafe

-----------------------------------------------------------------------------
(* Nonces *)

\* Every nonce given out is below the next one, whatever step is taken; the consumer gives
\* out a nonce no document has.
LEMMA NonceNextOK ==
  ASSUME Inv, PayoutInv, NonceInv, Sequential, IncreaseNonceWhenSendTx, [Next]_vars
  PROVE  /\ NonceInv'
         /\ \A s \in Swaps : \/ res'[s].nonce = res[s].nonce
                             \/ res'[s].nonce = 0
                             \/ \A k \in Swaps : res[k].nonce < res'[s].nonce
<1>1. /\ swapNonce \in Nat /\ swapNonce' \in Nat
      /\ \A s \in Swaps : res[s].nonce \in Nat
      /\ doPc # "idle" => doTx.swap \in Swaps /\ doTx.nonce \in Nat
  <2>1. Inv'
    BY NextOK
  <2>2. swapNonce' \in Nat
    BY <2>1 DEF Inv, RestTypeOK, SwapJobTypeOK
  <2> QED BY <2>2, Types
<1>2. CASE Bystander
  BY <1>2 DEF Bystander, KeepNonces, NonceInv
<1>3. ASSUME NEW s \in Swaps, NEW nonce \in Nat, Reset(s, nonce) PROVE NonceInv' /\ res'[s].nonce = 0 /\ \A k \in Swaps \ {s} : res'[k].nonce = res[k].nonce
  <2>1. res'[s].nonce = 0 /\ \A k \in Swaps \ {s} : res'[k] = res[k]
    <3>1. Inv'
      BY NextOK
    <3> QED BY <1>3, <3>1, ResetOK DEF Sequential
  <2>2. UNCHANGED <<doPc, doTx, swapNonce>>
    BY <1>3 DEF Reset
  <2>3. 0 < swapNonce
    BY <1>1 DEF PayoutInv, DoInv
  <2> QED BY <2>1, <2>2, <2>3 DEF NonceInv
<1>4. CASE ChainStep
  BY <1>4 DEF ChainStep, dbVars, swapVars, NonceInv
<1>5. CASE Crash
  <2>1. Inv'
    BY NextOK
  <2>2. /\ res' = res /\ doPc' = "idle" /\ \A s \in Swaps : res[s].nonce < swapNonce'
    BY <1>5, <2>1, RestartOK
  <2> QED BY <2>2 DEF NonceInv
<1>6. CASE Consumer
  <2>1. CASE /\ doPc = "idle" /\ doPc' = "sign" /\ doTx'.nonce >= swapNonce
             /\ res' = res /\ swapNonce' = swapNonce
    BY <2>1 DEF NonceInv
  <2>2. CASE /\ doPc = "update" /\ doPc' = "status" /\ doTx' = doTx /\ doTx.swap \in Swaps
             /\ res'[doTx.swap].nonce = doTx.nonce
             /\ \A k \in Swaps \ {doTx.swap} : res'[k] = res[k]
             /\ swapNonce' = swapNonce
    <3>1. doTx.nonce >= swapNonce /\ \A k \in Swaps : res[k].nonce < swapNonce
      BY <2>2 DEF NonceInv
    <3>2. \A k \in Swaps : res[k].nonce < doTx.nonce
      BY <1>1, <2>2, <3>1
    <3>3. NonceInv'
      BY <2>2, <3>1 DEF NonceInv
    <3> QED BY <2>2, <3>2, <3>3
  <2>3. CASE /\ res' = res /\ swapNonce' = swapNonce
             /\ \/ UNCHANGED <<doPc, doTx>>
                \/ doPc' = "idle" /\ doPc \in {"sign", "reverify", "recheck"}
                \/ /\ doPc \in {"sign", "recheck"} /\ doPc' \in {"reverify", "recheck", "update"}
                   /\ doTx'.nonce = doTx.nonce
                \/ doPc = "status" /\ doPc' = "send" /\ doTx' = doTx
    BY <2>3 DEF NonceInv
  <2>4. CASE /\ res' = res /\ swapNonce' >= swapNonce
             /\ UNCHANGED <<doPc, doTx>>
             /\ \E tx \in sending : swapNonce' = swapNonce \/ swapNonce' = tx.nonce + 1
    <3>1. \A s \in Swaps : res[s].nonce < swapNonce => res[s].nonce < swapNonce'
      BY <1>1, <2>4
    <3>2. ASSUME doPc \in {"sign", "reverify", "recheck", "update"} PROVE swapNonce' = swapNonce
      <4>1. PICK tx \in sending : swapNonce' = swapNonce \/ swapNonce' = tx.nonce + 1
        BY <2>4
      <4>2. tx \in Tx /\ tx.swap \in Swaps /\ tx.nonce \in Nat
        BY Types, TxType DEF Live
      <4>3. tx.nonce = res[tx.swap].nonce
        BY DEF PayoutInv, LiveInv, Live, KeptBy
      <4>4. tx.nonce < swapNonce
        BY <3>2, <4>2, <4>3 DEF NonceInv
      <4> QED BY <1>1, <2>4, <4>1, <4>2, <4>4
    <3> QED BY <2>4, <3>1, <3>2 DEF NonceInv
  <2>5. CASE /\ res' = res /\ swapNonce' >= swapNonce
             /\ doPc = "send" /\ doPc' = "idle"
             /\ IncreaseNonceWhenSendTx => swapNonce' > doTx.nonce
    <3>1. res[doTx.swap].nonce = doTx.nonce
      BY <2>5 DEF PayoutInv, LiveInv, Live, DoSending, KeptBy
    <3>2. \A s \in Swaps : res[s].nonce < swapNonce'
      BY <1>1, <2>5, <3>1 DEF NonceInv
    <3> QED BY <2>5, <3>2 DEF NonceInv
  <2>6. CASE KeepNonces /\ swapNonce' = swapNonce /\ doPc = "reverify" /\ doPc' = "idle"
    BY <2>6 DEF NonceInv, KeepNonces
  <2> QED BY <1>6, <2>1, <2>2, <2>3, <2>4, <2>5, <2>6 DEF Consumer
<1>7. CASE Bystander \/ ChainStep \/ Crash
  <2>1. \A s \in Swaps : res'[s].nonce = res[s].nonce
    BY <1>7 DEF Bystander, KeepNonces, ChainStep, Crash, dbVars
  <2> QED BY <1>2, <1>4, <1>5, <1>7, <2>1
<1> QED BY <1>3, <1>6, <1>7, StepCases

LEMMA NonceInitOK == ASSUME Init, FirstNonce > 0 PROVE NonceInv
<1>1. /\ \A s \in Swaps : res[s].nonce = 0
      /\ swapNonce = FirstNonce /\ doPc = "idle"
  BY DEF Init, RegisterInit, SwapJobInit, NoResult, InitialSwapResult
<1> QED BY <1>1 DEF NonceInv

\* Two results never share a nonce of the MPC account, over crashes, failed sends and
\* reswaps, when the nonce counts a transaction whose sending failed.
THEOREM NoncesAreUnique ==
  ASSUME Sequential, IncreaseNonceWhenSendTx PROVE Spec => NonceUnique
<1> DEFINE P == Inv /\ PayoutInv /\ NonceInv
<1>1. Init => P
  BY InitOK, PayoutInitOK, NonceInitOK DEF Sequential
<1>2. P /\ [Next]_vars => P'
  BY NextOK, PayoutNextOK, NonceNextOK
<1>3. P /\ [Next]_vars =>
        [\A s, k \in Swaps :
           /\ s # k
           /\ res'[s].nonce # res[s].nonce
           /\ res'[s].nonce # 0
           /\ res'[s].nonce = res[k].nonce
           => res'[s].nonce = recycleNonce]_vars
  <2> SUFFICES ASSUME P, [Next]_vars, NEW s \in Swaps, NEW k \in Swaps,
                      res'[s].nonce # res[s].nonce, res'[s].nonce # 0,
                      res'[s].nonce = res[k].nonce
               PROVE  FALSE
    OBVIOUS
  <2>1. res[k].nonce < res'[s].nonce
    BY NonceNextOK
  <2>2. res[k].nonce \in Nat
    BY Types
  <2> QED BY <2>1, <2>2
<1> QED BY <1>1, <1>2, <1>3, PTL DEF Spec, NonceUnique

=============================================================================
