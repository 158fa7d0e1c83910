------------------------------ MODULE DstChain ------------------------------
(***************************************************************************)
(* The destination chain as the router sees it through the bridge          *)
(* interface: GetTransactionStatus, GetPoolNonce and SendTransaction of an *)
(* account based (EVM) chain.  The chain itself is external.               *)
(*                                                                         *)
(* All payouts are sent by one MPC account.  A transaction is mined only   *)
(* when its nonce is the account's next nonce, succeeds or reverts, and    *)
(* stays mined (a reorganisation deeper than the confirmations is not      *)
(* modelled).  Another user of the account (a cancelling transaction, an   *)
(* administrative call) may consume a nonce.                               *)
(***************************************************************************)
EXTENDS SwapStore

CONSTANTS
  FirstNonce,   \* nonce of the MPC account when the router starts
  MaxNonce      \* bound on the nonces of the account

ASSUME NonceAssumption == FirstNonce \in Nat /\ MaxNonce \in Nat

VARIABLES
  pool,         \* transactions some node of the chain accepted
  minedOk,      \* transactions mined with a successful receipt
  minedFail,    \* transactions mined with a failed receipt
  chainNonce    \* the account's nonce in the latest block

chainVars == <<pool, minedOk, minedFail, chainNonce>>

ChainTypeOK ==
  /\ pool \subseteq Tx
  /\ minedOk \subseteq Tx
  /\ minedFail \subseteq Tx
  /\ chainNonce \in Nat

ChainInit ==
  /\ pool = {}
  /\ minedOk = {}
  /\ minedFail = {}
  /\ chainNonce = FirstNonce

OnChain(tx) == tx \in minedOk \cup minedFail

\* A transaction that could still be included.
Minable(tx) == tx.nonce >= chainNonce

Paid(s) == \E tx \in minedOk : tx.swap = s

\* GetPoolNonce "pending": the latest nonce, or a nonce that counts transactions
\* waiting in the pool of the node that answers.
PoolNonces ==
  {chainNonce} \cup {tx.nonce + 1 : tx \in {t \in pool : Minable(t)}}

Mine(tx, ok) ==
  /\ tx \in pool
  /\ tx.nonce = chainNonce
  /\ chainNonce' = chainNonce + 1
  /\ minedOk' = IF ok THEN minedOk \cup {tx} ELSE minedOk
  /\ minedFail' = IF ok THEN minedFail ELSE minedFail \cup {tx}
  /\ UNCHANGED pool

OtherTx ==
  /\ chainNonce < MaxNonce
  /\ chainNonce' = chainNonce + 1
  /\ UNCHANGED <<pool, minedOk, minedFail>>

ChainNext ==
  \/ \E tx \in pool, ok \in BOOLEAN : Mine(tx, ok)
  \/ OtherTx

=============================================================================
