----------------------------- MODULE SwapStore -----------------------------
(***************************************************************************)
(* The two mongodb documents the router keeps for every swap and the       *)
(* update functions of mongodb/api.go, as operators from a document to a   *)
(* document.  Every update runs under updateResultLock (or is one UpdateByID*)
(* call), so an operator is one atomic step of its caller.                 *)
(*                                                                         *)
(*  - the register document (MgoSwap) is reduced to its status;            *)
(*  - the result document (MgoSwapResult) keeps status, swaptx, oldswaptxs,*)
(*    whether swapheight is set, and swapnonce.  Its values, memo, ttl and *)
(*    times are left out: waiting intervals are nondeterministic in the    *)
(*    jobs.  oldswaptxs is a set: its order is never used but to search it.*)
(*                                                                         *)
(* A document that does not exist has the status "None".                   *)
(***************************************************************************)
EXTENDS Naturals

CONSTANTS
  Swaps,    \* keys of the swaps (fromChainID:txid:logIndex)
  NoTx      \* the empty string in swaptx

\* A payout transaction.  Its hash commits to the swap it pays and to the nonce of
\* the MPC account; id tells transactions of one swap and nonce apart (gas price,
\* signature), and is 0 as long as the transaction is not signed.
Tx == [swap : Swaps, nonce : Nat, id : Nat]

ASSUME NoTxAssumption == NoTx \notin Tx

\* Statuses a failed verification leaves in the register document.
VerifyErrorStatus ==
  {"TxVerifyFailed", "TxWithWrongValue", "TxWithWrongPath",
   "MissTokenConfig", "NoUnderlyingToken", "TxMaybeUnsafe"}

RegStatus ==
  {"None", "TxNotStable", "TxWithBigValue", "TxNotSwapped", "TxProcessed",
   "SwapInBlacklist", "SwapoutForbidden", "ManualMakeFail"} \cup VerifyErrorStatus

ResStatus ==
  {"None", "MatchTxEmpty", "MatchTxNotStable", "MatchTxStable", "MatchTxFailed",
   "Reswapping", "SwapoutForbidden", "SwapInBlacklist", "ManualMakeFail",
   "TxVerifyFailed", "TxNotStable"}

IsRegisteredOk(status) ==
  status \in {"TxNotStable", "TxNotSwapped", "TxProcessed", "TxMaybeUnsafe",
              "ManualMakeFail"}

\* UpdateRouterSwapStatus refuses TxNotStable; an absent document is not created.
UpdateRouterSwapStatus(old, status) ==
  IF status = "TxNotStable" \/ old = "None" THEN old ELSE status

isPendingSwapStatus(status) == status \in {"MatchTxEmpty", "Reswapping"}

SwapResults ==
  [status : ResStatus, swaptx : Tx \cup {NoTx}, old : SUBSET (Tx \cup {NoTx}),
   height : BOOLEAN, nonce : Nat]

\* AddInitialSwapResult: the document inserted after verification.
InitialSwapResult(status) ==
  [status |-> status, swaptx |-> NoTx, old |-> {}, height |-> FALSE, nonce |-> 0]

NoResult == InitialSwapResult("None")

ResultExists(r) == r.status # "None"

\* Every transaction hash the document knows.
Tracked(r) == ({r.swaptx} \cup r.old) \ {NoTx}

\* Insert: a document with this key may already be there (duplicate key error).
AddRouterSwapResult(r, status) ==
  IF ResultExists(r) THEN r ELSE InitialSwapResult(status)

UpdateRouterSwapResultStatus(r, status) ==
  IF ~ResultExists(r) THEN r
  ELSE IF status = "Reswapping" THEN InitialSwapResult(status)
  ELSE [r EXCEPT !.status = status]

\* The nonce and the transaction of a result are assigned once.
checkRouterSwapResultUpdate(r) == r.nonce = 0 /\ r.swaptx = NoTx

\* The items UpdateRouterSwapResult changes; NoTx, FALSE and 0 leave a field alone.
Update(status, swaptx, height, nonce) ==
  [status |-> status, swaptx |-> swaptx, height |-> height, nonce |-> nonce]

\* UpdateRouterSwapResult returns nil: also when it ignores a stable document.
CanUpdateRouterSwapResult(r, u) ==
  /\ ResultExists(r)
  /\ \/ r.status = "MatchTxStable"
     \/ u.nonce = 0 /\ u.status # "MatchTxNotStable"
     \/ checkRouterSwapResultUpdate(r)

\* Mutation: KeepStatus is stored like any other status.
UpdateRouterSwapResult_StoresKeepStatus(r, u) ==
  IF ~CanUpdateRouterSwapResult(r, u) \/ r.status = "MatchTxStable" THEN r
  ELSE [r EXCEPT !.status = u.status,
                 !.swaptx = IF u.swaptx = NoTx THEN @ ELSE u.swaptx,
                 !.nonce  = IF u.nonce = 0 THEN @ ELSE u.nonce]

UpdateRouterSwapResult(r, u) ==
  IF ~CanUpdateRouterSwapResult(r, u) \/ r.status = "MatchTxStable" THEN r
  ELSE [status |-> IF u.status = "KeepStatus" THEN r.status ELSE u.status,
        swaptx |-> IF u.swaptx = NoTx THEN r.swaptx ELSE u.swaptx,
        old    |-> r.old,
        height |-> r.height \/ u.height,
        nonce  |-> IF u.nonce = 0 THEN r.nonce ELSE u.nonce]

\* Mutation: the replaced transaction is not kept.
UpdateRouterOldSwapTxs_ForgetsFirst(r, tx) ==
  IF ~ResultExists(r) \/ tx \in Tracked(r) THEN r
  ELSE [r EXCEPT !.swaptx = tx, !.old = @ \cup {tx}]

\* The first replacement records the replaced transaction too.
UpdateRouterOldSwapTxs(r, tx) ==
  IF ~ResultExists(r) \/ tx \in Tracked(r) THEN r
  ELSE [r EXCEPT
         !.swaptx = IF r.status = "MatchTxStable" THEN @ ELSE tx,
         !.old    = IF @ = {} THEN {r.swaptx, tx} ELSE @ \cup {tx}]

\* AllocateRouterSwapNonce (parallel signing): claim a nonce for the swap.
CanAllocateRouterSwapNonce(r) == ResultExists(r) /\ checkRouterSwapResultUpdate(r)

AllocateRouterSwapNonce(r, swapnonce) ==
  [r EXCEPT !.status = "MatchTxNotStable", !.nonce = swapnonce]

=============================================================================
