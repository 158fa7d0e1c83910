---------------------------- MODULE SwapRegister ----------------------------
(***************************************************************************)
(* Registration of a swap (swapapi.RegisterRouterSwap), the verify job     *)
(* (worker/verify.go), and the calls that release a swap the verification  *)
(* held back (big value, forbidden swapout).                               *)
(*                                                                         *)
(* Verification of the source transaction is external: its verdict is a    *)
(* nondeterministic choice.  One goroutine verifies a swap: it starts from *)
(* a register document read earlier, asks the source chain, and only then  *)
(* writes its verdict, so other calls may change the document in between.  *)
(* Passing a swap is two writes: the register document first, the result   *)
(* document after it.                                                      *)
(***************************************************************************)
EXTENDS SwapStore, FiniteSets

CONSTANTS
  VerifyErrors,             \* verification errors that are considered
  BlackList,                \* swaps the (reloadable) black list may hit
  maxCachedVerifyingSwaps   \* size of cachedVerifyingSwaps

ASSUME RegisterAssumption ==
  VerifyErrors \subseteq VerifyErrorStatus /\ BlackList \subseteq Swaps

VARIABLES
  reg,         \* register documents: the status of each swap
  res,         \* result documents
  verifying,   \* cachedVerifyingSwaps
  verifyRun,   \* swaps a verify goroutine has no verdict on yet
  inserting,   \* <<swap, status>>: a verify goroutine is about to insert the result
  passing      \* swaps a pass big value call is about to insert the result of

dbVars == <<reg, res>>
verifyVars == <<verifying, verifyRun, inserting, passing>>

RegisterInit ==
  /\ reg = [s \in Swaps |-> "None"]
  /\ res = [s \in Swaps |-> NoResult]
  /\ verifying = {}
  /\ verifyRun = {}
  /\ inserting = {}
  /\ passing = {}

\* A bounded cache drops an arbitrary key when it is full (mapset.Pop).
CacheAdd(cache, s, max) ==
  IF Cardinality(cache) >= max THEN {(cache \ {k}) \cup {s} : k \in cache}
                               ELSE {cache \cup {s}}

SetReg(s, status) == reg' = [reg EXCEPT ![s] = UpdateRouterSwapStatus(@, status)]

SetResStatus(s, status) ==
  res' = [res EXCEPT ![s] = UpdateRouterSwapResultStatus(@, status)]

\* What the producers of the jobs ask the database for.
FindRouterSwapsWithStatus(status) == {s \in Swaps : reg[s] = status}
FindRouterSwapResultsWithStatus(status) == {s \in Swaps : res[s].status = status}

-----------------------------------------------------------------------------
(* RegisterRouterSwap *)

\* A new swap is stored with the status of its first verification.
RegisterNew(s) ==
  /\ reg[s] = "None"
  /\ \E status \in {"TxNotStable", "SwapoutForbidden"} \cup (VerifyErrors \ {"TxVerifyFailed"}) :
       reg' = [reg EXCEPT ![s] = status]
  /\ UNCHANGED <<res, verifyVars>>

\* A swap that failed earlier and verifies now starts again, unless it has a result
\* (UpdateRouterSwapInfoAndStatus); its key leaves the cache anyway.
RegisterAgain(s) ==
  /\ reg[s] # "None"
  /\ ~IsRegisteredOk(reg[s])
  /\ reg' = IF ResultExists(res[s]) THEN reg ELSE [reg EXCEPT ![s] = "TxNotStable"]
  /\ verifying' = verifying \ {s}
  /\ UNCHANGED <<res, verifyRun, inserting, passing>>

-----------------------------------------------------------------------------
(* The verify job *)

\* verifyTasksInQueue: the goroutine of the swap has not ended.
InVerifyQueue(s) == s \in verifyRun \/ \E task \in inserting : task[1] = s

VerifyStart(s) ==
  /\ s \in FindRouterSwapsWithStatus("TxNotStable")
  /\ ~InVerifyQueue(s)
  /\ s \notin verifying
  /\ verifying' \in CacheAdd(verifying, s, maxCachedVerifyingSwaps)
  /\ verifyRun' = verifyRun \cup {s}
  /\ UNCHANGED <<dbVars, inserting, passing>>

\* PassRouterSwapVerify checks the status again under verifyLock.
VerifyPass(s) ==
  /\ s \in verifyRun
  /\ verifyRun' = verifyRun \ {s}
  /\ IF reg[s] = "TxNotStable"
       THEN /\ SetReg(s, "TxNotSwapped")
            /\ inserting' = inserting \cup {<<s, "MatchTxEmpty">>}
       ELSE UNCHANGED <<reg, inserting>>
  /\ UNCHANGED <<res, verifying, passing>>

\* The verdicts of a verification: a big value, an error, or the black list.
RejectStatus(s) ==
  {"TxWithBigValue"} \cup VerifyErrors \cup (IF s \in BlackList THEN {"SwapInBlacklist"} ELSE {})

\* Verdicts written to the register document whatever its status is by now.
VerifyReject(s) ==
  /\ s \in verifyRun
  /\ verifyRun' = verifyRun \ {s}
  /\ \E status \in RejectStatus(s) : SetReg(s, status)
  /\ UNCHANGED <<res, verifying, inserting, passing>>

\* saveSpecialSwapResult: both documents, one after the other.
VerifyForbid(s) ==
  /\ s \in verifyRun
  /\ verifyRun' = verifyRun \ {s}
  /\ SetReg(s, "SwapoutForbidden")
  /\ inserting' = inserting \cup {<<s, "SwapoutForbidden">>}
  /\ UNCHANGED <<res, verifying, passing>>

\* Not stable, not found or an RPC error: try again, ...
VerifyRetry(s) ==
  /\ s \in verifyRun
  /\ verifyRun' = verifyRun \ {s}
  /\ verifying' = verifying \ {s}
  /\ UNCHANGED <<dbVars, inserting, passing>>

\* ... and give up after maxTxNotFoundTime.
VerifyNotFound(s) ==
  /\ s \in verifyRun
  /\ verifyRun' = verifyRun \ {s}
  /\ SetReg(s, "TxVerifyFailed")
  /\ SetResStatus(s, "TxVerifyFailed")
  /\ UNCHANGED <<verifying, inserting, passing>>

\* AddInitialSwapResult, the second write of a goroutine that passed the swap.
InsertResult(s, status) ==
  /\ <<s, status>> \in inserting
  /\ inserting' = inserting \ {<<s, status>>}
  /\ res' = [res EXCEPT ![s] = AddRouterSwapResult(@, status)]
  /\ UNCHANGED <<reg, verifying, verifyRun, passing>>

-----------------------------------------------------------------------------
(* Releasing a swap that verification held back *)

\* RouterAdminPassBigValue refuses a swap that has a result.
MayPassBigValue(s) == reg[s] = "TxWithBigValue" /\ ~ResultExists(res[s])

\* The pass big value job and the passbigvalue admin call.
PassBigValue(s) ==
  /\ MayPassBigValue(s)
  /\ SetReg(s, "TxNotSwapped")
  /\ passing' = passing \cup {s}
  /\ UNCHANGED <<res, verifying, verifyRun, inserting>>

InsertPassed(s) ==
  /\ s \in passing
  /\ passing' = passing \ {s}
  /\ res' = [res EXCEPT ![s] = AddRouterSwapResult(@, "MatchTxEmpty")]
  /\ UNCHANGED <<reg, verifying, verifyRun, inserting>>

RouterAdminPassForbiddenSwapout(s) ==
  /\ res[s].status = "SwapoutForbidden"
  /\ SetResStatus(s, "MatchTxEmpty")
  /\ SetReg(s, "TxNotSwapped")
  /\ UNCHANGED verifyVars

RegisterNext ==
  \E s \in Swaps :
    \/ RegisterNew(s)
    \/ RegisterAgain(s)
    \/ VerifyStart(s)
    \/ VerifyPass(s)
    \/ VerifyReject(s)
    \/ VerifyForbid(s)
    \/ VerifyRetry(s)
    \/ VerifyNotFound(s)
    \/ \E status \in {"MatchTxEmpty", "SwapoutForbidden"} : InsertResult(s, status)
    \/ PassBigValue(s)
    \/ InsertPassed(s)
    \/ RouterAdminPassForbiddenSwapout(s)

RegisterTypeOK ==
  /\ reg \in [Swaps -> RegStatus]
  /\ verifying \subseteq Swaps
  /\ verifyRun \subseteq Swaps
  /\ inserting \subseteq Swaps \X {"MatchTxEmpty", "SwapoutForbidden"}
  /\ passing \subseteq Swaps

=============================================================================
