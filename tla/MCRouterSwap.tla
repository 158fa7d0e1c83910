---------------------------- MODULE MCRouterSwap ----------------------------
(* RouterSwap for TLC: the swaps and the sentinel are model values. *)
EXTENDS RouterSwap, TLC

CONSTANTS s1, s2
OneSwap == {s1}
TwoSwaps == {s1, s2}
SwapSymmetry == Permutations(TwoSwaps)

\* A server started on a database with swaps that have passed verification: the runs
\* about several payouts begin here.
VerifiedInit ==
  /\ reg = [s \in Swaps |-> "TxNotSwapped"]
  /\ res = [s \in Swaps |-> InitialSwapResult("MatchTxEmpty")]
  /\ verifying = {} /\ verifyRun = {} /\ inserting = {} /\ passing = {}
  /\ ChainInit
  /\ SwapJobInit
  /\ ResultJobsInit
  /\ reswapChecked = {}
  /\ reswapping = {}
  /\ crashes = 0

\* A server started on a database in which the payout of one swap was replaced once and is
\* not mined yet.
Payout(s, id) == [swap |-> s, nonce |-> FirstNonce, id |-> id]
ReplacedInit(s) ==
  /\ reg = [k \in Swaps |-> IF k = s THEN "TxProcessed" ELSE "TxNotSwapped"]
  /\ res = [k \in Swaps |->
             IF k = s THEN UpdateRouterOldSwapTxs([InitialSwapResult("MatchTxNotStable") EXCEPT
                               !.swaptx = Payout(s, 0), !.nonce = FirstNonce], Payout(s, 1))
             ELSE InitialSwapResult("MatchTxEmpty")]
  /\ verifying = {} /\ verifyRun = {} /\ inserting = {} /\ passing = {}
  /\ pool = {Payout(s, 0), Payout(s, 1)}
  /\ minedOk = {} /\ minedFail = {} /\ chainNonce = FirstNonce
  /\ foundSwaps = {} /\ cached = {} /\ swapTasks = {}
  /\ inQueue = [job \in Jobs |-> {}] /\ adding = [job \in Jobs |-> {}]
  /\ doPc = "idle" /\ doTx = NoTx
  /\ swapNonce = FirstNonce + 1
  /\ recycleNonce = 0
  /\ txCount = 1
  /\ signing = {} /\ sending = {} /\ loops = {} /\ loopSeen = {}
  /\ ResultJobsInit
  /\ reswapChecked = {}
  /\ reswapping = {}
  /\ crashes = 0

ReplacedSpec == (\E s \in Swaps : ReplacedInit(s)) /\ [][Next]_vars
VerifiedSpec == VerifiedInit /\ [][Next]_vars

=============================================================================
