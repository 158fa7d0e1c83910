--------------------------- MODULE DepositProofs ----------------------------
(***************************************************************************)
(* A verified deposit stays on the chain (VerifiedIsFinal), for any number *)
(* of transactions, gateways and indexes, any depth of reorganisations and *)
(* any lag of the gateways that the confirmations allow for.               *)
(*                                                                         *)
(* What verification refuses for good it refuses whatever the gateways     *)
(* answer, where the adapter tells a failing call from a bad deposit       *)
(* (RejectedForGood), and what a registration stores as good passes        *)
(* verification once it is stable (RegisteredIsVerifiable).                *)
(*                                                                         *)
(* Finality: an adapter passes a deposit only when one answer puts it      *)
(* Confirmations below the latest height of another (one lemma for each    *)
(* adapter).  A gateway may hold an outdated block of the transaction, but *)
(* then that block was not deeper than MaxReorg below what the gateway     *)
(* knew (StaleIsRecent).  The two exclude each other, so the block is the  *)
(* present one, and it is too deep to be replaced later.                   *)
(***************************************************************************)
EXTENDS Deposits, TLAPS

-----------------------------------------------------------------------------
(* The adapters *)

Answer(rpc) == rpc.tx \in Nat \cup {-1} /\ rpc.latest \in Nat \cup {-1}
Stable(rpc) == rpc.tx > 0 /\ rpc.tx + Confirmations <= rpc.latest

\* Verification by each adapter that waits, without AllowUnstable: what passes is in a block
\* that has Confirmations blocks on top (verifySwapoutTx, VerifyERC20SwapTx and the checks of
\* status they call).
LEMMA AptosIsStable ==
  ASSUME NEW t, NEW rpc, NEW i, Answer(rpc), Aptos!VerifyTransaction(t, rpc, i, FALSE).err = "nil"
  PROVE  Stable(rpc)
BY BaseAssumption
  DEF Answer, Stable, Aptos!VerifyTransaction, Aptos!Fail, Aptos!FailAt, Aptos!SwapInfo,
      Aptos!GetTransactionInfo, Aptos!StableError, Aptos!NotStable, Aptos!NotFound,
      Aptos!InPool, Aptos!NoHeight

\* On Cardano: the block of the answer plus the confirmations is at most the latest height.
LEMMA CardanoIsStable ==
  ASSUME NEW t, NEW rpc, NEW i, Answer(rpc), Cardano!VerifyTransaction(t, rpc, i, FALSE).err = "nil"
  PROVE  Stable(rpc)
BY BaseAssumption
  DEF Answer, Stable, Cardano!VerifyTransaction, Cardano!Fail, Cardano!FailAt, Cardano!SwapInfo,
      Cardano!statusError, Cardano!checkTxStatus, Cardano!StableError, Cardano!NotStable,
      Cardano!NotFound, Cardano!InPool, Cardano!NoHeight

\* On Cosmos, by checkTxStatus.
LEMMA CosmosIsStable ==
  ASSUME NEW t, NEW rpc, NEW i, Answer(rpc), Cosmos!VerifyTransaction(t, rpc, i, FALSE).err = "nil"
  PROVE  Stable(rpc)
BY BaseAssumption
  DEF Answer, Stable, Cosmos!VerifyTransaction, Cosmos!Fail, Cosmos!FailAt, Cosmos!SwapInfo,
      Cosmos!statusError, Cosmos!checkTxStatus, Cosmos!StableError, Cosmos!NotStable,
      Cosmos!NotFound, Cosmos!InPool, Cosmos!NoHeight

\* On EVM chains, by getSwapTxReceipt.
LEMMA EthIsStable ==
  ASSUME NEW t, NEW rpc, NEW i, Answer(rpc), Eth!VerifyTransaction(t, rpc, i, FALSE).err = "nil"
  PROVE  Stable(rpc)
<1>1. Eth!getSwapTxReceipt(t, rpc, FALSE) = "nil"
  <2>1. SUFFICES ASSUME Eth!getSwapTxReceipt(t, rpc, FALSE) # "nil" PROVE FALSE
    OBVIOUS
  <2>2. Eth!VerifyTransaction(t, rpc, i, FALSE)
          = Eth!FailAt(i, Eth!getSwapTxReceipt(t, rpc, FALSE), Eth!heightOf(rpc))
    BY <2>1, Zenon DEF Eth!VerifyTransaction
  <2>3. Eth!FailAt(i, Eth!getSwapTxReceipt(t, rpc, FALSE), Eth!heightOf(rpc)).err
          = Eth!getSwapTxReceipt(t, rpc, FALSE)
    BY DEF Eth!FailAt, Eth!SwapInfo
  <2>4. QED
    BY <2>1, <2>2, <2>3
<1>2. QED
  BY <1>1, BaseAssumption
  DEF Answer, Stable, Eth!getSwapTxReceipt, Eth!GetTransactionReceipt, Eth!confirmations, Eth!NotFound, Eth!InPool

\* On IOTA, by the milestone that references the message.
LEMMA IotaIsStable ==
  ASSUME NEW t, NEW rpc, NEW i, Answer(rpc), Iota!VerifyTransaction(t, rpc, i, FALSE).err = "nil"
  PROVE  Stable(rpc)
BY BaseAssumption
  DEF Answer, Stable, Iota!VerifyTransaction, Iota!Fail, Iota!FailAt, Iota!SwapInfo,
      Iota!statusError, Iota!NotStable, Iota!NotFound, Iota!InPool, Iota!NoHeight

\* On Near, by the block of the transaction.
LEMMA NearIsStable ==
  ASSUME NEW t, NEW rpc, NEW i, Answer(rpc), Near!VerifyTransaction(t, rpc, i, FALSE).err = "nil"
  PROVE  Stable(rpc)
BY BaseAssumption
  DEF Answer, Stable, Near!VerifyTransaction, Near!Fail, Near!FailAt, Near!SwapInfo,
      Near!getSwapTxReceipt, Near!checkTxStatus, Near!StableError, Near!NotStable,
      Near!NotFound, Near!InPool, Near!NoHeight

\* On Ripple, by the ledger of the transaction.
LEMMA RippleIsStable ==
  ASSUME NEW t, NEW rpc, NEW i, Answer(rpc), Ripple!VerifyTransaction(t, rpc, i, FALSE).err = "nil"
  PROVE  Stable(rpc)
BY BaseAssumption
  DEF Answer, Stable, Ripple!VerifyTransaction, Ripple!Fail, Ripple!FailAt, Ripple!SwapInfo,
      Ripple!statusError, Ripple!StableError, Ripple!NotStable, Ripple!NotFound, Ripple!InPool,
      Ripple!NoHeight

\* On Solana, by the confirmations of the finalized slot.
LEMMA SolanaIsStable ==
  ASSUME NEW t, NEW rpc, NEW i, Answer(rpc), Solana!VerifyTransaction(t, rpc, i, FALSE).err = "nil"
  PROVE  Stable(rpc)
BY BaseAssumption
  DEF Answer, Stable, Solana!VerifyTransaction, Solana!FailAt, Solana!SwapInfo,
      Solana!statusError, Solana!confirmations, Solana!NotFound, Solana!InPool

\* On Stellar, by the ledger of the transaction.
LEMMA StellarIsStable ==
  ASSUME NEW t, NEW rpc, NEW i, Answer(rpc), Stellar!VerifyTransaction(t, rpc, i, FALSE).err = "nil"
  PROVE  Stable(rpc)
BY BaseAssumption
  DEF Answer, Stable, Stellar!VerifyTransaction, Stellar!Fail, Stellar!FailAt, Stellar!SwapInfo,
      Stellar!statusError, Stellar!stableError, Stellar!NotStable, Stellar!NotFound,
      Stellar!InPool, Stellar!NoHeight


Waits == Chains \ {"btc", "flow", "tron"}

\* The same of the adapter that is chosen for the transaction.
LEMMA VerifiedIsStable ==
  ASSUME tx.chain \in Waits, NEW rpc, NEW i, Answer(rpc), VerifyTransaction(rpc, i, FALSE).err = "nil"
  PROVE  Stable(rpc)
<1>1. CASE tx.chain = "aptos"  BY <1>1, AptosIsStable DEF VerifyTransaction
<1>2. CASE tx.chain = "cardano"  BY <1>2, CardanoIsStable DEF VerifyTransaction
<1>3. CASE tx.chain = "cosmos"  BY <1>3, CosmosIsStable DEF VerifyTransaction
<1>4. CASE tx.chain = "eth"  BY <1>4, EthIsStable DEF VerifyTransaction
<1>5. CASE tx.chain = "iota"  BY <1>5, IotaIsStable DEF VerifyTransaction
<1>6. CASE tx.chain = "near"  BY <1>6, NearIsStable DEF VerifyTransaction
<1>7. CASE tx.chain = "ripple"  BY <1>7, RippleIsStable DEF VerifyTransaction
<1>8. CASE tx.chain = "solana"  BY <1>8, SolanaIsStable DEF VerifyTransaction
<1>9. CASE tx.chain = "stellar"  BY <1>9, StellarIsStable DEF VerifyTransaction
<1> QED  BY <1>1, <1>2, <1>3, <1>4, <1>5, <1>6, <1>7, <1>8, <1>9 DEF Waits, Chains

-----------------------------------------------------------------------------
(* The inductive invariant *)

TypeInv ==
  /\ tx \in Transactions
  /\ head \in Nat
  /\ block \in 0 .. head
  /\ gateways \in [Gateways -> [height : Nat, at : Nat]]
  /\ docs = [i \in Indexes |-> docs[i]]

\* What a gateway knows is not from the future and not older than its lag.
LagInv ==
  \A g \in Gateways :
    /\ gateways[g].at <= gateways[g].height
    /\ gateways[g].height <= head
    /\ head <= gateways[g].height + MaxLag

\* A gateway that holds an outdated block of the transaction saw few blocks on top of it.
StaleIsRecent ==
  \A g \in Gateways :
    gateways[g].at > 0 /\ gateways[g].at # block => gateways[g].height < gateways[g].at + MaxReorg

\* A verified deposit is too deep to be replaced.
VerifiedIsDeep ==
  tx.chain \in Waits => \A i \in Indexes : Verified(i) => block > 0 /\ block + MaxReorg <= head

Inv == TypeInv /\ LagInv /\ StaleIsRecent /\ VerifiedIsDeep

\* Init: nothing is mined and nothing is registered.
LEMMA InitInv == Init => Inv
BY DepositAssumption DEF Init, Inv, TypeInv, LagInv, StaleIsRecent, VerifiedIsDeep, Verified, NoDoc, Doc, InPool

\* What a registration stores is verified only if it was before.
LEMMA StoredNotVerified ==
  ASSUME NEW doc, NEW info, Stored(doc, info).status = "TxNotSwapped"
  PROVE  doc.status = "TxNotSwapped"
BY DEF Stored, NewDoc, Doc, GetRouterSwapStatusByVerifyError, ShouldRegisterRouterSwapForError, IsRegisteredOk

\* The verify job declares a deposit verified only when the adapter found no error.
LEMMA VerdictVerified ==
  ASSUME NEW doc, doc.status = "TxNotStable", NEW info, NEW new \in Verdicts(doc, info),
         new.status = "TxNotSwapped"
  PROVE  info.err = "nil"
BY DEF Verdicts, Doc, IsRetryError, GetRouterSwapStatusByVerifyError

\* A new block leaves older ones where they are.
LEMMA MineInv == Inv /\ Mine => Inv'
<1> SUFFICES ASSUME Inv, Mine PROVE Inv'
  OBVIOUS
<1> USE DepositAssumption DEF Inv, Mine, MayGrow, InPool
<1>1. TypeInv'  BY DEF TypeInv
<1>2. LagInv'  BY DEF TypeInv, LagInv
<1>3. StaleIsRecent'  BY DEF TypeInv, LagInv, StaleIsRecent
<1>4. VerifiedIsDeep'  BY DEF TypeInv, VerifiedIsDeep, Verified
<1> QED  BY <1>1, <1>2, <1>3, <1>4

\* A reorganisation reaches no verified deposit, and makes outdated only what is recent.
LEMMA ReorgInv == Inv /\ Reorg => Inv'
<1> SUFFICES ASSUME Inv, Reorg PROVE Inv'
  OBVIOUS
<1>1. PICK d \in 1 .. MaxReorg :
        /\ d <= head
        /\ block' \in IF block > head - d THEN {InPool} \cup ((head - d + 1) .. (head + 1)) ELSE {block}
  BY DEF Reorg
<1> USE DepositAssumption DEF Inv, MayGrow, InPool
<1>2. TypeInv'  BY <1>1 DEF Reorg, TypeInv
<1>3. LagInv'  BY DEF Reorg, TypeInv, LagInv
<1>4. StaleIsRecent'  BY <1>1 DEF Reorg, TypeInv, LagInv, StaleIsRecent
<1>5. VerifiedIsDeep'  BY <1>1 DEF Reorg, TypeInv, VerifiedIsDeep, Verified
<1> QED  BY <1>2, <1>3, <1>4, <1>5

\* A gateway that catches up holds nothing outdated.
LEMMA SyncInv == ASSUME NEW g \in Gateways PROVE Inv /\ Sync(g) => Inv'
<1> SUFFICES ASSUME Inv, Sync(g) PROVE Inv'
  OBVIOUS
<1> USE DepositAssumption DEF Inv, Sync
<1>1. TypeInv'  BY DEF TypeInv
<1>2. LagInv'  BY DEF TypeInv, LagInv
<1>3. StaleIsRecent'  BY DEF TypeInv, StaleIsRecent
<1>4. VerifiedIsDeep'  BY DEF TypeInv, VerifiedIsDeep, Verified
<1> QED  BY <1>1, <1>2, <1>3, <1>4

\* A registration declares nothing verified.
LEMMA RegisterInv == ASSUME NEW i \in Requests PROVE Inv /\ Register(i) => Inv'
<1> SUFFICES ASSUME Inv, Register(i) PROVE Inv'
  OBVIOUS
<1> USE DEF Inv
<1>1. UNCHANGED <<tx, head, block, gateways>>  BY DEF Register
<1>2. PICK rpc \in Answers :
        docs' = [k \in Indexes |->
                   IF \E info \in RegisterSwap(rpc, i) : info.index = k
                     THEN Stored(docs[k], CHOOSE info \in RegisterSwap(rpc, i) : info.index = k)
                     ELSE docs[k]]
  BY DEF Register
<1>3. TypeInv'  BY <1>1, <1>2 DEF TypeInv
<1>4. \A k \in Indexes : Verified(k)' => Verified(k)  BY <1>2, StoredNotVerified DEF Verified
<1>5. VerifiedIsDeep'  BY <1>1, <1>4 DEF VerifiedIsDeep
<1>6. LagInv' /\ StaleIsRecent'  BY <1>1 DEF LagInv, StaleIsRecent
<1> QED  BY <1>3, <1>5, <1>6

\* What the verify job passes is stable in the answers, hence on the chain.
LEMMA VerifyInv == ASSUME NEW i \in Indexes PROVE Inv /\ Verify(i) => Inv'
<1> SUFFICES ASSUME Inv, Verify(i) PROVE Inv'
  OBVIOUS
<1> USE DEF Inv
<1>1. UNCHANGED <<tx, head, block, gateways>>  BY DEF Verify
<1>2. PICK rpc \in Answers :
        \E doc \in Verdicts(docs[i], VerifyTransaction(rpc, i, FALSE)) : docs' = [docs EXCEPT ![i] = doc]
  BY DEF Verify
<1>3. PICK doc \in Verdicts(docs[i], VerifyTransaction(rpc, i, FALSE)) : docs' = [docs EXCEPT ![i] = doc]
  BY <1>2
<1>4. TypeInv'  BY <1>1, <1>3 DEF TypeInv
<1>5. LagInv' /\ StaleIsRecent'  BY <1>1 DEF LagInv, StaleIsRecent
<1>6. ASSUME tx.chain \in Waits, doc.status = "TxNotSwapped"
      PROVE  block > 0 /\ block + MaxReorg <= head
  <2>1. VerifyTransaction(rpc, i, FALSE).err = "nil"  BY <1>3, <1>6, VerdictVerified DEF Verify
  <2>2. Answer(rpc)  BY DEF Answer, Answers, TypeInv, NotFound, NoHeight
  <2>3. Stable(rpc)  BY <1>6, <2>1, <2>2, VerifiedIsStable
  <2>4. PICK g \in Gateways : rpc.tx = gateways[g].at  BY <2>2, <2>3 DEF Answers, Stable, NotFound
  <2>5. PICK h \in Gateways : rpc.latest = gateways[h].height
    BY <2>2, <2>3, BaseAssumption DEF Answer, Answers, Stable, NoHeight
  <2>6. gateways[g].at + Confirmations <= head /\ gateways[g].at > 0
    BY <2>3, <2>4, <2>5, BaseAssumption DEF Stable, TypeInv, LagInv
  <2>7. gateways[g].at = block
    BY <2>6, BaseAssumption, DepositAssumption DEF TypeInv, LagInv, StaleIsRecent
  <2> QED  BY <2>6, <2>7, BaseAssumption, DepositAssumption DEF TypeInv
<1>7. VerifiedIsDeep'  BY <1>1, <1>3, <1>6 DEF TypeInv, VerifiedIsDeep, Verified
<1> QED  BY <1>4, <1>5, <1>7

\* Inductive step: every step of chain, gateways and router, and stuttering.
LEMMA NextInv == Inv /\ [Next]_vars => Inv'
<1> SUFFICES ASSUME Inv, [Next]_vars PROVE Inv'
  OBVIOUS
<1>1. CASE UNCHANGED vars
  BY <1>1 DEF vars, Inv, TypeInv, LagInv, StaleIsRecent, VerifiedIsDeep, Verified
<1>2. CASE Mine  BY <1>2, MineInv
<1>3. CASE Reorg  BY <1>3, ReorgInv
<1>4. CASE \E g \in Gateways : Sync(g)  BY <1>4, SyncInv
<1>5. CASE \E i \in Requests : Register(i)  BY <1>5, RegisterInv
<1>6. CASE \E i \in Indexes : Verify(i)  BY <1>6, VerifyInv
<1> QED  BY <1>1, <1>2, <1>3, <1>4, <1>5, <1>6 DEF Next

\* A deposit that passed the verify job stays on the chain, for every adapter that waits for
\* confirmations, whatever blocks are replaced and however the gateways lag (VerifiedIsFinal).
THEOREM DepositsAreFinal == Spec => []VerifiedIsFinal
<1>1. Inv => VerifiedIsFinal
  BY DepositAssumption DEF Inv, TypeInv, VerifiedIsDeep, VerifiedIsFinal, Waits
<1> QED  BY InitInv, NextInv, <1>1, PTL DEF Spec

-----------------------------------------------------------------------------
(* What the verify job refuses for good is no good deposit (RejectedForGood): *)
(* one lemma for each adapter that tells failing calls from bad deposits.     *)

IdealAnswer ==
  [tx |-> InitialHeight + 1, latest |-> InitialHeight + 1 + Confirmations, more |-> TRUE, sound |-> TRUE]

\* Errors of calls and of age are no verdict on the deposit.
Excused(err) == IsRetryError(err) \/ err = "ErrTxBeforeInitialHeight"

\* The answers once the transaction is stable.
LEMMA IdealIsStable ==
  /\ IdealAnswer.tx \notin {-1, 0} /\ IdealAnswer.latest # -1 /\ IdealAnswer.more /\ IdealAnswer.sound
  /\ ~(IdealAnswer.tx < InitialHeight)
  /\ ~(IdealAnswer.latest < IdealAnswer.tx + Confirmations)
  /\ IdealAnswer.latest > IdealAnswer.tx /\ ~(IdealAnswer.latest - IdealAnswer.tx < Confirmations)
BY BaseAssumption DEF IdealAnswer

\* On Bitcoin all errors that are no excuse come from the transaction.
LEMMA BtcRejects ==
  ASSUME NEW t, NEW rpc, NEW i, Btc!VerifyTransaction(t, rpc, i, FALSE).err # "nil",
         ~Excused(Btc!VerifyTransaction(t, rpc, i, FALSE).err)
  PROVE  Btc!VerifyTransaction(t, IdealAnswer, i, FALSE).err # "nil"
BY IdealIsStable
   DEF Excused, IsRetryError, Btc!VerifyTransaction, Btc!checkTxStatus, Btc!Fail, Btc!FailAt, Btc!SwapInfo,
       Btc!NotFound, Btc!InPool

\* On Cardano.
LEMMA CardanoRejects ==
  ASSUME NEW t, NEW rpc, NEW i, Cardano!VerifyTransaction(t, rpc, i, FALSE).err # "nil",
         ~Excused(Cardano!VerifyTransaction(t, rpc, i, FALSE).err)
  PROVE  Cardano!VerifyTransaction(t, IdealAnswer, i, FALSE).err # "nil"
BY IdealIsStable
   DEF Excused, IsRetryError, Cardano!VerifyTransaction, Cardano!statusError, Cardano!checkTxStatus,
       Cardano!StableError, Cardano!NotStable, Cardano!CheckOutput, Cardano!Fail, Cardano!FailAt,
       Cardano!SwapInfo, Cardano!NotFound, Cardano!InPool, Cardano!NoHeight

\* On Cosmos.
LEMMA CosmosRejects ==
  ASSUME NEW t, NEW rpc, NEW i, Cosmos!VerifyTransaction(t, rpc, i, FALSE).err # "nil",
         ~Excused(Cosmos!VerifyTransaction(t, rpc, i, FALSE).err)
  PROVE  Cosmos!VerifyTransaction(t, IdealAnswer, i, FALSE).err # "nil"
BY IdealIsStable
   DEF Excused, IsRetryError, Cosmos!VerifyTransaction, Cosmos!statusError, Cosmos!checkTxStatus,
       Cosmos!StableError, Cosmos!NotStable, Cosmos!CheckLog, Cosmos!Fail, Cosmos!FailAt,
       Cosmos!SwapInfo, Cosmos!NotFound, Cosmos!InPool, Cosmos!NoHeight

\* On Solana.
LEMMA SolanaRejects ==
  ASSUME NEW t, NEW rpc, NEW i, Solana!VerifyTransaction(t, rpc, i, FALSE).err # "nil",
         ~Excused(Solana!VerifyTransaction(t, rpc, i, FALSE).err)
  PROVE  Solana!VerifyTransaction(t, IdealAnswer, i, FALSE).err # "nil"
BY IdealIsStable
   DEF Excused, IsRetryError, Solana!VerifyTransaction, Solana!statusError, Solana!confirmations,
       Solana!InfoOf, Solana!FailAt, Solana!SwapInfo, Solana!NotFound, Solana!InPool

TellsErrors == {"btc", "cardano", "cosmos", "solana"}

\* The same of the adapter that is chosen for the transaction.
LEMMA RefusedIsBad ==
  ASSUME tx.chain \in TellsErrors, NEW rpc, NEW i, VerifyTransaction(rpc, i, FALSE).err # "nil",
         ~Excused(VerifyTransaction(rpc, i, FALSE).err)
  PROVE  Ideal(i).err # "nil"
<1> SUFFICES VerifyTransaction(IdealAnswer, i, FALSE).err # "nil"
  BY DEF Ideal, IdealAnswer
<1>1. CASE tx.chain = "btc"  BY <1>1, BtcRejects DEF VerifyTransaction
<1>2. CASE tx.chain = "cardano"  BY <1>2, CardanoRejects DEF VerifyTransaction
<1>3. CASE tx.chain = "cosmos"  BY <1>3, CosmosRejects DEF VerifyTransaction
<1>4. CASE tx.chain = "solana"  BY <1>4, SolanaRejects DEF VerifyTransaction
<1> QED  BY <1>1, <1>2, <1>3, <1>4 DEF TellsErrors

\* A document that was refused for good keeps the error, or starts again as a new one.
RejectedInv ==
  /\ docs = [i \in Indexes |-> docs[i]]
  /\ RejectedForGood

\* A deposit that a verification refuses for good is refused with all answers, too: a call
\* that was not answered costs no deposit (RejectedForGood).
THEOREM RejectedForGoodHolds == Spec => []RejectedForGood
<1>1. Init => RejectedInv
  BY DEF Init, RejectedInv, RejectedForGood, NoDoc, Doc
<1>2. RejectedInv /\ [Next]_vars => RejectedInv'
  <2> SUFFICES ASSUME RejectedInv, [Next]_vars PROVE RejectedInv'
    OBVIOUS
  <2>1. CASE UNCHANGED <<tx, docs>>
    <3>1. \A i : Ideal(i)' = Ideal(i)
      BY <2>1 DEF Ideal, VerifyTransaction
    <3> QED BY <2>1, <3>1 DEF RejectedInv, RejectedForGood
  <2>2. ASSUME NEW i \in Requests, Register(i) PROVE RejectedInv'
    <3>1. PICK rpc \in Answers :
            docs' = [k \in Indexes |->
                       IF \E info \in RegisterSwap(rpc, i) : info.index = k
                         THEN Stored(docs[k], CHOOSE info \in RegisterSwap(rpc, i) : info.index = k)
                         ELSE docs[k]]
      BY <2>2 DEF Register
    <3>2. ASSUME NEW doc, NEW info PROVE Stored(doc, info) = doc \/ Stored(doc, info).status # "TxVerifyFailed"
      BY DEF Stored, NewDoc, Doc, GetRouterSwapStatusByVerifyError, ShouldRegisterRouterSwapForError
    <3>3. \A k \in Indexes : docs'[k] = docs[k] \/ docs'[k].status # "TxVerifyFailed"
      BY <3>1, <3>2
    <3>4. UNCHANGED tx
      BY <2>2 DEF Register
    <3>5. \A k : Ideal(k)' = Ideal(k)
      BY <3>4 DEF Ideal, VerifyTransaction
    <3>6. docs' = [k \in Indexes |-> docs'[k]]
      BY <3>1
    <3> QED BY <3>3, <3>4, <3>5, <3>6 DEF RejectedInv, RejectedForGood
  <2>3. ASSUME NEW i \in Indexes, Verify(i) PROVE RejectedInv'
    <3>1. UNCHANGED tx /\ docs[i].status = "TxNotStable"
      BY <2>3 DEF Verify
    <3>2. PICK rpc \in Answers :
            \E doc \in Verdicts(docs[i], VerifyTransaction(rpc, i, FALSE)) : docs' = [docs EXCEPT ![i] = doc]
      BY <2>3 DEF Verify
    <3>3. PICK doc \in Verdicts(docs[i], VerifyTransaction(rpc, i, FALSE)) : docs' = [docs EXCEPT ![i] = doc]
      BY <3>2
    <3>4. \A k : Ideal(k)' = Ideal(k)
      BY <3>1 DEF Ideal, VerifyTransaction
    <3> DEFINE info == VerifyTransaction(rpc, i, FALSE)
    <3>5. doc.status = "TxVerifyFailed" /\ ~IsRetryError(doc.err) => info.err # "nil" /\ doc.err = info.err
      <4> HIDE DEF info
      <4>1. doc \in Verdicts(docs[i], info)
        BY <3>3 DEF info
      <4> QED BY <3>1, <4>1 DEF Verdicts, Doc
    <3>6. /\ tx.chain \in TellsErrors /\ doc.status = "TxVerifyFailed" /\ ~Excused(doc.err)
          => Ideal(i).err # "nil"
      BY <3>5, RefusedIsBad DEF Excused
    <3>7. docs' = [k \in Indexes |-> IF k = i THEN doc ELSE docs[k]]
      BY <3>3 DEF RejectedInv
    <3> QED BY <3>1, <3>4, <3>6, <3>7 DEF RejectedInv, RejectedForGood, TellsErrors, Excused
  <2> QED BY <2>1, <2>2, <2>3 DEF Next, Mine, Reorg, Sync, vars
<1>3. RejectedInv => RejectedForGood
  BY DEF RejectedInv
<1> QED BY <1>1, <1>2, <1>3, PTL DEF Spec

-----------------------------------------------------------------------------
(* What a registration takes for a good deposit, verification takes too       *)
(* (RegisteredIsVerifiable): one lemma for each adapter that checks the swap  *)
(* when it is registered.                                                     *)

Agrees(info, swap) == info.err = "nil" /\ info.token = swap.token /\ info.value = swap.value

\* On Aptos: a registered event is the one verification finds at its index.
LEMMA AptosRegisters ==
  ASSUME NEW t, NEW rpc, NEW i \in Nat, NEW info \in Aptos!RegisterSwap(t, rpc, i), info.err = "nil"
  PROVE  Agrees(Aptos!VerifyTransaction(t, IdealAnswer, info.index, FALSE), info)
<1> DEFINE status == Aptos!GetTransactionInfo(t, rpc, TRUE)
           Found == \E k : info = Aptos!CheckEvent(t, k)
<1>1. status = "nil" /\ Found
  <2>1. \/ status # "nil" /\ info = Aptos!Fail(i, status)
        \/ info = Aptos!Fail(i, "ErrLogIndexOutOfRange")
        \/ info = Aptos!Fail(i, "ErrSwapoutLogNotFound")
        \/ status = "nil" /\ Found
    <3> HIDE DEF status
    <3> QED BY Zenon DEF Aptos!RegisterSwap, status
  <2>2. ASSUME NEW e PROVE Aptos!Fail(i, e).err = e
    BY DEF Aptos!Fail, Aptos!FailAt, Aptos!SwapInfo
  <2> HIDE DEF status, Found
  <2> QED BY <2>1, <2>2
<1>2. t.success /\ Found
  BY <1>1 DEF Aptos!GetTransactionInfo
<1> PICK k : info = Aptos!CheckEvent(t, k)
  BY <1>2
<1>3. Aptos!CheckEvent(t, k).index = k
  BY DEF Aptos!CheckEvent, Aptos!Fail, Aptos!FailAt, Aptos!SwapInfo
<1>4. Aptos!GetTransactionInfo(t, IdealAnswer, FALSE) = "nil"
  BY <1>2, IdealIsStable
     DEF Aptos!GetTransactionInfo, Aptos!StableError, Aptos!NotStable, Aptos!NotFound, Aptos!InPool, Aptos!NoHeight
<1> QED BY <1>2, <1>3, <1>4 DEF Aptos!VerifyTransaction, Agrees

\* On Bitcoin all outputs are one swap, whatever the index.
LEMMA BtcRegisters ==
  ASSUME NEW t, Len(t.vout) \in Nat, NEW rpc, NEW i \in Nat,
         NEW info \in Btc!RegisterSwap(t, rpc, i), info.err = "nil"
  PROVE  Agrees(Btc!VerifyTransaction(t, IdealAnswer, info.index, FALSE), info)
<1>1. info = Btc!VerifyTransaction(t, rpc, i, TRUE)
  BY DEF Btc!RegisterSwap
<1>2. info.index = 0
  BY <1>1 DEF Btc!VerifyTransaction, Btc!Fail, Btc!FailAt, Btc!SwapInfo
<1> QED
  BY <1>1, <1>2, IdealIsStable
     DEF Agrees, Btc!VerifyTransaction, Btc!checkTxStatus, Btc!Fail, Btc!FailAt, Btc!SwapInfo, Btc!NotFound, Btc!InPool

\* On Cardano: a registered output is the one verification finds at its index.
LEMMA CardanoRegisters ==
  ASSUME NEW t, NEW rpc, NEW i \in Nat, NEW info \in Cardano!RegisterSwap(t, rpc, i), info.err = "nil"
  PROVE  Agrees(Cardano!VerifyTransaction(t, IdealAnswer, info.index, FALSE), info)
<1> DEFINE status == Cardano!statusError(t, rpc, TRUE)
           Found == \E k : /\ info = Cardano!CheckOutput(t, k, rpc.tx)
                           /\ Cardano!OutputError(t, k) = "nil"
                           /\ t.metadata # "none"
<1>1. status = "nil" /\ Found
  <2>1. \/ status # "nil" /\ info = Cardano!Fail(i, status)
        \/ info = Cardano!Fail(i, "ErrMetadataKeyMissMatch")
        \/ info = Cardano!Fail(i, "ErrLogIndexOutOfRange")
        \/ info = Cardano!Fail(i, "ErrSwapoutLogNotFound")
        \/ status = "nil" /\ Found
    <3> HIDE DEF status
    <3> QED BY Zenon DEF Cardano!RegisterSwap, status
  <2>2. ASSUME NEW e PROVE Cardano!Fail(i, e).err = e
    BY DEF Cardano!Fail, Cardano!FailAt, Cardano!SwapInfo
  <2> HIDE DEF status, Found
  <2> QED BY <2>1, <2>2
<1>2. PICK k : info = Cardano!CheckOutput(t, k, rpc.tx) /\ Cardano!OutputError(t, k) = "nil" /\ t.metadata # "none"
  BY <1>1
<1> t.success
  BY <1>1 DEF Cardano!statusError, Cardano!checkTxStatus
<1>3. Cardano!statusError(t, IdealAnswer, FALSE) = "nil"
  BY <1>1, IdealIsStable
     DEF Cardano!statusError, Cardano!checkTxStatus, Cardano!StableError, Cardano!NotStable, Cardano!NotFound,
         Cardano!InPool, Cardano!NoHeight
<1>4. info.index = k
  BY <1>2 DEF Cardano!CheckOutput, Cardano!SwapInfo
<1>5. Agrees(Cardano!CheckOutput(t, k, IdealAnswer.tx), info)
  BY <1>2 DEF Agrees, Cardano!CheckOutput, Cardano!SwapInfo
<1> QED BY <1>1, <1>2, <1>3, <1>4, <1>5 DEF Cardano!VerifyTransaction

\* On Cosmos: the same of a message.
LEMMA CosmosRegisters ==
  ASSUME NEW t, NEW rpc, NEW i \in Nat, NEW info \in Cosmos!RegisterSwap(t, rpc, i), info.err = "nil"
  PROVE  Agrees(Cosmos!VerifyTransaction(t, IdealAnswer, info.index, FALSE), info)
<1> DEFINE status == Cosmos!statusError(t, rpc, TRUE)
           Found == \E k : /\ info = Cosmos!CheckLog(t, k, 0)
                           /\ Cosmos!WithUnit(t.logs[k]) # {}
                           /\ Cosmos!ParseMemo(t) = "nil"
<1>1. status = "nil" /\ Found
  <2>1. \/ status # "nil" /\ info = Cosmos!Fail(i, status)
        \/ Cosmos!ParseMemo(t) # "nil" /\ info = Cosmos!Fail(i, Cosmos!ParseMemo(t))
        \/ info = Cosmos!Fail(i, "ErrLogIndexOutOfRange")
        \/ info = Cosmos!Fail(i, "ErrSwapoutLogNotFound")
        \/ status = "nil" /\ Found
    <3> HIDE DEF status
    <3> QED BY Zenon DEF Cosmos!RegisterSwap, status
  <2>2. ASSUME NEW e PROVE Cosmos!Fail(i, e).err = e
    BY DEF Cosmos!Fail, Cosmos!FailAt, Cosmos!SwapInfo
  <2> HIDE DEF status, Found
  <2> QED BY <2>1, <2>2
<1>2. PICK k : info = Cosmos!CheckLog(t, k, 0) /\ Cosmos!WithUnit(t.logs[k]) # {} /\ Cosmos!ParseMemo(t) = "nil"
  BY <1>1
<1> t.success
  BY <1>1 DEF Cosmos!statusError, Cosmos!checkTxStatus
<1>3. Cosmos!statusError(t, IdealAnswer, FALSE) = "nil"
  BY <1>1, IdealIsStable
     DEF Cosmos!statusError, Cosmos!checkTxStatus, Cosmos!StableError, Cosmos!NotStable, Cosmos!NotFound,
         Cosmos!InPool, Cosmos!NoHeight
<1>4. info.index = k
  BY <1>2 DEF Cosmos!CheckLog, Cosmos!SwapInfo
<1>5. Agrees(Cosmos!CheckLog(t, k, IdealAnswer.tx), info)
  BY <1>2 DEF Agrees, Cosmos!CheckLog, Cosmos!SwapInfo
<1> QED BY <1>1, <1>2, <1>3, <1>4, <1>5 DEF Cosmos!VerifyTransaction

\* On Flow: the same of an event; the search for all of them starts later.
LEMMA FlowRegisters ==
  ASSUME NEW t, Len(t.events) \in Nat, NEW rpc, NEW i \in Nat,
         NEW info \in Flow!RegisterSwap(t, rpc, i), info.err = "nil"
  PROVE  Agrees(Flow!VerifyTransaction(t, IdealAnswer, info.index, FALSE), info)
<1> DEFINE status == Flow!getSwapTxReceipt(t, rpc, TRUE)
           Found == \E k \in Flow!RegisterIndexes(i, 1, Len(t.events) - 1) :
                      /\ info = Flow!CheckEvent(t, k)
                      /\ Flow!IsRouterEvent(t.events[k + 1])
                      /\ ~(i # 0 /\ i >= Len(t.events))
<1>1. status = "nil" /\ Found
  <2>1. \/ status # "nil" /\ info = Flow!Fail(i, status)
        \/ info = Flow!Fail(i, "ErrLogIndexOutOfRange")
        \/ info = Flow!Fail(i, "ErrSwapoutLogNotFound")
        \/ status = "nil" /\ Found
    <3> HIDE DEF status
    <3> QED BY Zenon DEF Flow!RegisterSwap, status
  <2>2. ASSUME NEW e PROVE Flow!Fail(i, e).err = e
    BY DEF Flow!Fail, Flow!FailAt, Flow!SwapInfo
  <2> HIDE DEF status, Found
  <2> QED BY <2>1, <2>2
<1>2. PICK k \in Flow!RegisterIndexes(i, 1, Len(t.events) - 1) :
        info = Flow!CheckEvent(t, k) /\ Flow!IsRouterEvent(t.events[k + 1]) /\ ~(i # 0 /\ i >= Len(t.events))
  BY <1>1
<1> t.success
  BY <1>1 DEF Flow!getSwapTxReceipt, Flow!checkTxStatus
<1>3. ~(k >= Len(t.events))
  BY <1>2 DEF Flow!RegisterIndexes
<1>4. info.index = k
  BY <1>2 DEF Flow!CheckEvent, Flow!SwapInfo
<1>5. Flow!getSwapTxReceipt(t, IdealAnswer, TRUE) = "nil"
  BY <1>1, IdealIsStable DEF Flow!getSwapTxReceipt, Flow!checkTxStatus, Flow!NotFound, Flow!InPool
<1> QED BY <1>2, <1>3, <1>4, <1>5 DEF Flow!VerifyTransaction, Agrees

\* On IOTA all outputs are one swap.
LEMMA IotaRegisters ==
  ASSUME NEW t, NEW rpc, NEW i \in Nat, NEW info \in Iota!RegisterSwap(t, rpc, i), info.err = "nil"
  PROVE  Agrees(Iota!VerifyTransaction(t, IdealAnswer, info.index, FALSE), info)
<1>1. info = Iota!VerifyTransaction(t, rpc, i, TRUE)
  BY DEF Iota!RegisterSwap
<1>2. Iota!statusError(IdealAnswer, FALSE) = "nil"
  BY IdealIsStable, BaseAssumption
     DEF IdealAnswer, Iota!statusError, Iota!NotStable, Iota!NotFound, Iota!InPool, Iota!NoHeight
<1> QED BY <1>1, <1>2, IdealIsStable DEF Agrees, Iota!VerifyTransaction, Iota!Fail, Iota!FailAt, Iota!SwapInfo

\* On Near: the same of a receipt.
LEMMA NearRegisters ==
  ASSUME NEW t, Len(t.receipts) \in Nat, NEW rpc, NEW i \in Nat,
         NEW info \in Near!RegisterSwap(t, rpc, i), info.err = "nil"
  PROVE  Agrees(Near!VerifyTransaction(t, IdealAnswer, info.index, FALSE), info)
<1> DEFINE status == Near!getSwapTxReceipt(t, rpc, TRUE)
           Receipt(k) == Near!fliterReceipts(t, t.receipts[k + 1])
           Found == \E k \in Near!RegisterIndexes(i, 0, Len(t.receipts) - 1) :
                      /\ info = Near!CheckEvent(t, k, t.receipts[k + 1].executor, Receipt(k))
                      /\ Receipt(k).err = "nil"
                      /\ ~(i # 0 /\ i >= Len(t.receipts))
<1>1. status = "nil" /\ Found
  <2>1. \/ status # "nil" /\ info = Near!Fail(i, status)
        \/ info = Near!Fail(i, "ErrLogIndexOutOfRange")
        \/ info = Near!Fail(i, "ErrSwapoutLogNotFound")
        \/ status = "nil" /\ Found
    <3> HIDE DEF status
    <3> QED BY Zenon DEF Near!RegisterSwap, status
  <2>2. ASSUME NEW e PROVE Near!Fail(i, e).err = e
    BY DEF Near!Fail, Near!FailAt, Near!SwapInfo
  <2> HIDE DEF status, Found
  <2> QED BY <2>1, <2>2
<1>2. PICK k \in Near!RegisterIndexes(i, 0, Len(t.receipts) - 1) :
        /\ info = Near!CheckEvent(t, k, t.receipts[k + 1].executor, Near!fliterReceipts(t, t.receipts[k + 1]))
        /\ Near!fliterReceipts(t, t.receipts[k + 1]).err = "nil" /\ ~(i # 0 /\ i >= Len(t.receipts))
  BY <1>1
<1> t.success
  BY <1>1 DEF Near!getSwapTxReceipt, Near!checkTxStatus
<1>3. ~(k >= Len(t.receipts))
  BY <1>2 DEF Near!RegisterIndexes
<1>4. info.index = k
  BY <1>2 DEF Near!CheckEvent, Near!SwapInfo
<1>5. Near!getSwapTxReceipt(t, IdealAnswer, FALSE) = "nil"
  BY <1>1, IdealIsStable
     DEF Near!getSwapTxReceipt, Near!checkTxStatus, Near!StableError, Near!NotStable, Near!NotFound, Near!InPool,
         Near!NoHeight
<1> QED BY <1>2, <1>3, <1>4, <1>5 DEF Near!VerifyTransaction, Agrees

\* On Ripple a transaction is one swap.
LEMMA RippleRegisters ==
  ASSUME NEW t, NEW rpc, NEW i \in Nat, NEW info \in Ripple!RegisterSwap(t, rpc, i), info.err = "nil"
  PROVE  Agrees(Ripple!VerifyTransaction(t, IdealAnswer, info.index, FALSE), info)
<1>1. info = Ripple!VerifyTransaction(t, rpc, i, TRUE)
  BY DEF Ripple!RegisterSwap
<1>2. Ripple!statusError(t, IdealAnswer, FALSE) = "nil"
  BY IdealIsStable
     DEF Ripple!statusError, Ripple!StableError, Ripple!NotStable, Ripple!NotFound, Ripple!InPool, Ripple!NoHeight
<1> QED BY <1>1, <1>2 DEF Agrees, Ripple!VerifyTransaction, Ripple!Fail, Ripple!FailAt, Ripple!SwapInfo

\* On Stellar: the same of an operation.
LEMMA StellarRegisters ==
  ASSUME NEW t, Len(t.operations) \in Nat, NEW rpc, NEW i \in Nat,
         NEW info \in Stellar!RegisterSwap(t, rpc, i), info.err = "nil"
  PROVE  Agrees(Stellar!VerifyTransaction(t, IdealAnswer, info.index, FALSE), info)
<1>1. t.success
  BY DEF Stellar!RegisterSwap, Stellar!statusError, Stellar!stableError
<1>2. PICK k \in Stellar!RegisterIndexes(i, 0, Len(t.operations) - 1) :
        /\ info = Stellar!buildSwapInfoFromOperation(t, k) /\ t.operations[k + 1].payment
        /\ ~(i # 0 /\ i >= Len(t.operations))
  BY DEF Stellar!RegisterSwap
<1>3. ~(k >= Len(t.operations))
  BY <1>2 DEF Stellar!RegisterIndexes
<1>4. info.index = k
  BY <1>2 DEF Stellar!buildSwapInfoFromOperation, Stellar!Fail, Stellar!FailAt, Stellar!SwapInfo
<1>5. Stellar!statusError(t, IdealAnswer, FALSE) = "nil"
  BY <1>1, IdealIsStable, BaseAssumption
     DEF IdealAnswer, Stellar!statusError, Stellar!stableError, Stellar!NotStable, Stellar!NotFound, Stellar!InPool,
         Stellar!NoHeight
<1> QED BY <1>2, <1>3, <1>4, <1>5, IdealIsStable DEF Stellar!VerifyTransaction, Agrees

\* On Tron: the same of a log.  MaxUint is larger than any number of confirmations.
LEMMA TronRegisters ==
  ASSUME NEW t, Len(t.logs) \in Nat, NEW rpc, NEW i \in Nat,
         NEW info \in Tron!RegisterSwap(t, rpc, i), info.err = "nil"
  PROVE  Agrees(Tron!VerifyTransaction(t, IdealAnswer, info.index, FALSE), info)
<1> DEFINE Found == \E k \in Tron!RegisterIndexes(i, IF t.type = "anycall" THEN 0 ELSE 1, Len(t.logs) - 1) :
                      info = Tron!CheckLog(t, rpc, k) /\ ~(i # 0 /\ i >= Len(t.logs))
<1>1. PICK status : /\ status \in {Tron!checkTxSuccess(t, rpc, TRUE), Tron!GetTransactionLog(t, rpc)}
                    /\ info \in Tron!RegisterLogs(t, rpc, i, status)
  BY DEF Tron!RegisterSwap, Tron!registerERC20SwapTx, Tron!registerNFTSwapTx, Tron!registerAnyCallSwapTx
<1>2. status = "nil" /\ Found
  <2>1. \/ status # "nil" /\ info = Tron!Fail(i, status)
        \/ info = Tron!Fail(i, "ErrLogIndexOutOfRange")
        \/ info = Tron!Fail(i, "ErrSwapoutLogNotFound")
        \/ status = "nil" /\ Found
    BY <1>1, Zenon DEF Tron!RegisterLogs, Tron!Registered
  <2>2. ASSUME NEW e PROVE Tron!Fail(i, e).err = e
    BY DEF Tron!Fail, Tron!FailAt, Tron!SwapInfo
  <2> HIDE DEF Found
  <2> QED BY <2>1, <2>2
<1>3. t.success
  BY <1>1, <1>2 DEF Tron!checkTxSuccess, Tron!GetTransactionLog
<1>4. PICK k \in Tron!RegisterIndexes(i, IF t.type = "anycall" THEN 0 ELSE 1, Len(t.logs) - 1) :
        info = Tron!CheckLog(t, rpc, k) /\ ~(i # 0 /\ i >= Len(t.logs))
  BY <1>2
<1>5. ~(k >= Len(t.logs))
  BY <1>4 DEF Tron!RegisterIndexes
<1>6. Tron!checkTxSuccess(t, IdealAnswer, FALSE) = "nil"
  <2>1. IdealAnswer.latest - IdealAnswer.tx = Confirmations
    BY BaseAssumption DEF IdealAnswer
  <2>2. Confirmations % MaxUint = Confirmations
    BY BaseAssumption, TransactionAssumption
  <2>3. Tron!confirmations(IdealAnswer) = Confirmations
    BY <2>1, <2>2, IdealIsStable DEF Tron!confirmations, Tron!NoHeight
  <2> QED BY <1>3, <2>3, IdealIsStable, BaseAssumption DEF Tron!checkTxSuccess, Tron!NotFound, Tron!InPool
<1>7. \A r : Tron!CheckLog(t, r, k).index = k
  BY DEF Tron!CheckLog, Tron!LogInfo, Tron!SwapInfo, Tron!FailAt
<1>8. Agrees(Tron!CheckLog(t, IdealAnswer, k), info)
  BY <1>4 DEF Agrees, Tron!CheckLog, Tron!LogInfo, Tron!SwapInfo, Tron!FailAt
<1>9. Tron!VerifyTransaction(t, IdealAnswer, k, FALSE) = Tron!CheckLog(t, IdealAnswer, k)
  <2>1. Tron!VerifyLog(t, IdealAnswer, k, Tron!checkTxSuccess(t, IdealAnswer, FALSE)) = Tron!CheckLog(t, IdealAnswer, k)
    BY <1>5, <1>6 DEF Tron!VerifyLog
  <2> QED BY <2>1 DEF Tron!VerifyTransaction, Tron!verifyERC20SwapTx, Tron!verifyNFTSwapTx, Tron!verifyAnyCallSwapTx
<1> QED BY <1>4, <1>7, <1>8, <1>9

ChecksAtOnce == Chains \ {"solana", "eth"}

\* The same of the adapter that is chosen for the transaction.
LEMMA RegisteredIsGood ==
  ASSUME tx \in Transactions, tx.chain \in ChecksAtOnce, NEW rpc, NEW i \in Nat,
         NEW info \in RegisterSwap(rpc, i), info.err = "nil"
  PROVE  Agrees(Ideal(info.index), info)
<1> SUFFICES Agrees(VerifyTransaction(IdealAnswer, info.index, FALSE), info)
  BY DEF Ideal, IdealAnswer
<1>1. CASE tx.chain = "aptos"  BY <1>1, AptosRegisters DEF VerifyTransaction, RegisterSwap
<1>2. CASE tx.chain = "btc"  BY <1>2, BtcRegisters, TransactionAssumption DEF VerifyTransaction, RegisterSwap
<1>3. CASE tx.chain = "cardano"  BY <1>3, CardanoRegisters DEF VerifyTransaction, RegisterSwap
<1>4. CASE tx.chain = "cosmos"  BY <1>4, CosmosRegisters DEF VerifyTransaction, RegisterSwap
<1>5. CASE tx.chain = "flow"  BY <1>5, FlowRegisters, TransactionAssumption DEF VerifyTransaction, RegisterSwap
<1>6. CASE tx.chain = "iota"  BY <1>6, IotaRegisters DEF VerifyTransaction, RegisterSwap
<1>7. CASE tx.chain = "near"  BY <1>7, NearRegisters, TransactionAssumption DEF VerifyTransaction, RegisterSwap
<1>8. CASE tx.chain = "ripple"  BY <1>8, RippleRegisters DEF VerifyTransaction, RegisterSwap
<1>9. CASE tx.chain = "stellar"  BY <1>9, StellarRegisters, TransactionAssumption DEF VerifyTransaction, RegisterSwap
<1>10. CASE tx.chain = "tron"  BY <1>10, TronRegisters, TransactionAssumption DEF VerifyTransaction, RegisterSwap
<1> QED  BY <1>1, <1>2, <1>3, <1>4, <1>5, <1>6, <1>7, <1>8, <1>9, <1>10 DEF ChecksAtOnce, Chains

RegisteredInv ==
  /\ tx \in Transactions
  /\ docs = [i \in Indexes |-> docs[i]]
  /\ RegisteredIsVerifiable

\* What a registration stores as a good deposit passes verification once it is stable and all
\* gateways answer, with the same token and value (RegisteredIsVerifiable).
THEOREM RegisteredIsVerifiableHolds == Spec => []RegisteredIsVerifiable
<1>1. Init => RegisteredInv
  BY DEF Init, RegisteredInv, RegisteredIsVerifiable, NoDoc, Doc
<1>2. RegisteredInv /\ [Next]_vars => RegisteredInv'
  <2> SUFFICES ASSUME RegisteredInv, [Next]_vars PROVE RegisteredInv'
    OBVIOUS
  <2>1. CASE UNCHANGED <<tx, docs>>
    <3>1. \A i : Ideal(i)' = Ideal(i)
      BY <2>1 DEF Ideal, VerifyTransaction
    <3> QED BY <2>1, <3>1 DEF RegisteredInv, RegisteredIsVerifiable
  <2>2. ASSUME NEW i \in Requests, Register(i) PROVE RegisteredInv'
    <3>1. PICK rpc \in Answers :
            docs' = [k \in Indexes |->
                       IF \E info \in RegisterSwap(rpc, i) : info.index = k
                         THEN Stored(docs[k], CHOOSE info \in RegisterSwap(rpc, i) : info.index = k)
                         ELSE docs[k]]
      BY <2>2 DEF Register
    <3>2. UNCHANGED tx /\ i \in Nat
      BY <2>2, DepositAssumption DEF Register
    <3>3. \A k : Ideal(k)' = Ideal(k)
      BY <3>2 DEF Ideal, VerifyTransaction
    <3>4. ASSUME NEW doc, NEW info, Stored(doc, info).status = "TxNotStable", Stored(doc, info) # doc
          PROVE  info.err = "nil" /\ Stored(doc, info).token = info.token /\ Stored(doc, info).value = info.value
      BY <3>4 DEF Stored, NewDoc, Doc, GetRouterSwapStatusByVerifyError, ShouldRegisterRouterSwapForError
    <3>5. ASSUME NEW k \in Indexes, docs'[k].status = "TxNotStable", docs'[k] # docs[k], tx.chain \in ChecksAtOnce
          PROVE  Agrees(Ideal(k), docs'[k])
      <4> DEFINE info == CHOOSE info \in RegisterSwap(rpc, i) : info.index = k
      <4>1. info \in RegisterSwap(rpc, i) /\ info.index = k /\ docs'[k] = Stored(docs[k], info)
        BY <3>1, <3>5
      <4> HIDE DEF info
      <4>2. info.err = "nil" /\ docs'[k].token = info.token /\ docs'[k].value = info.value
        BY <3>4, <3>5, <4>1
      <4>3. Agrees(Ideal(k), info)
        BY <3>2, <3>5, <4>1, <4>2, RegisteredIsGood DEF RegisteredInv
      <4> QED BY <4>2, <4>3 DEF Agrees
    <3>6. docs' = [k \in Indexes |-> docs'[k]]
      BY <3>1
    <3>7. tx.chain \in Chains
      BY DepositAssumption DEF RegisteredInv
    <3> QED BY <3>2, <3>3, <3>5, <3>6, <3>7 DEF RegisteredInv, RegisteredIsVerifiable, Agrees, ChecksAtOnce
  <2>3. ASSUME NEW i \in Indexes, Verify(i) PROVE RegisteredInv'
    <3>1. UNCHANGED tx /\ docs[i].status = "TxNotStable"
      BY <2>3 DEF Verify
    <3>2. PICK info : \E doc \in Verdicts(docs[i], info) : docs' = [docs EXCEPT ![i] = doc]
      BY <2>3 DEF Verify
    <3>3. PICK doc \in Verdicts(docs[i], info) : docs' = [docs EXCEPT ![i] = doc]
      BY <3>2
    <3>4. \A k : Ideal(k)' = Ideal(k)
      BY <3>1 DEF Ideal, VerifyTransaction
    <3>5. doc.status = "TxNotStable" => doc.token = docs[i].token /\ doc.value = docs[i].value
      BY <3>3 DEF Verdicts, Doc, GetRouterSwapStatusByVerifyError
    <3>6. docs' = [k \in Indexes |-> IF k = i THEN doc ELSE docs[k]]
      BY <3>3 DEF RegisteredInv
    <3> QED BY <3>1, <3>4, <3>5, <3>6 DEF RegisteredInv, RegisteredIsVerifiable
  <2> QED BY <2>1, <2>2, <2>3 DEF Next, Mine, Reorg, Sync, vars
<1>3. RegisteredInv => RegisteredIsVerifiable
  BY DEF RegisteredInv
<1> QED BY <1>1, <1>2, <1>3, PTL DEF Spec

=============================================================================
