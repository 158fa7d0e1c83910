--------------------------- MODULE CardanoProofs ---------------------------
(***************************************************************************)
(* Proofs about CardanoPayout for every set of swaps, outputs and bounds.  *)
(*                                                                         *)
(* A document never forgets a transaction: whatever goroutine overwrites   *)
(* its swaptx, the old one is among the old ones, and nothing is sent that *)
(* did not join them first.                                                *)
(*                                                                         *)
(* And a payout pays with what it spends and mints: an output the server   *)
(* may spend is one of the start or the change of a payout, amounts of     *)
(* coins that add up however many are taken, and stay what they are.       *)
(***************************************************************************)
EXTENDS CardanoPayout, FiniteSetTheorems, WellFoundedInduction, TLAPS

Statuses == {"MatchTxEmpty", "MatchTxNotStable", "MatchTxStable", "TxNeedReswap"}
Document == [swap : Swaps, status : Statuses, swaptx : Nat, old : SUBSET Nat,
             height : Nat, ttl : Nat]
Task == [pc : {"queued", "looked"}, snap : Document, found : Nat]

Elements(seq) == {seq[k] : k \in 1 .. Len(seq)}

TypeInv ==
  /\ txs \in Seq(Elements(txs)) /\ mined \in Seq(Nat) /\ Len(mined) = Len(txs)
  /\ slot \in Nat \ {0}
  /\ \A i \in Ids : txs[i].swap \in Swaps /\ txs[i].ttl \in Nat
  /\ pool \subseteq Ids /\ loops \subseteq Ids
  /\ res \in [Swaps -> Document] /\ \A s \in Swaps : res[s].swap = s
  /\ consumer.pc \in {"idle", "sign", "send"} /\ (consumer.pc # "idle" => consumer.tx \in Ids)
  /\ signing \subseteq [pc : {"sign", "update", "send"}, tx : Ids]
  /\ list \subseteq Document /\ reswapQueue \subseteq Document /\ stable \subseteq Task

\* The transactions a document knows.
KnownTo(r) == ({r.swaptx} \cup r.old) \ {0}

\* A document before its first transaction has none, one with a payout under way has its
\* hash, and the hash is among the old ones once there are any.
DocOK(r) ==
  /\ r.status = "MatchTxEmpty" => r.swaptx = 0 /\ r.old = {}
  /\ r.status = "MatchTxNotStable" => r.swaptx # 0
  /\ r.old # {} /\ r.swaptx # 0 => r.swaptx \in r.old

DocInv == \A s \in Swaps : DocOK(res[s])

\* The documents go on from what a job has read of them.
Follows(r) == res[r.swap].status # "MatchTxEmpty" /\ KnownTo(r) \subseteq KnownTo(res[r.swap])

TaskOK(task) ==
  /\ Follows(task.snap)
  /\ task.found # 0 => task.found \in Mined /\ task.found \in KnownTo(res[task.snap.swap])

SnapInv ==
  /\ \A r \in list : Follows(r)
  /\ \A task \in stable : TaskOK(task)
  /\ \A r \in reswapQueue : res[r.swap].status # "MatchTxEmpty"
  /\ \A g \in signing : res[txs[g.tx].swap].status # "MatchTxEmpty"

\* What a node holds or a goroutine may send.
Sending ==
  {i \in Ids : \/ i \in pool \/ i \in loops
               \/ consumer.pc = "send" /\ consumer.tx = i
               \/ \E g \in signing : g.pc = "send" /\ g.tx = i}

TrackInv ==
  /\ \A i \in Sending \cup Mined : i \in KnownTo(res[txs[i].swap])
  /\ \A g \in signing : g.pc # "sign" => g.tx \in KnownTo(res[txs[g.tx].swap])

Inv == TypeInv /\ DocInv /\ SnapInv /\ TrackInv

-----------------------------------------------------------------------------
(* Facts about sequences and steps *)

LEMMA Appended ==
  ASSUME NEW seq, seq \in Seq(Elements(seq)), NEW e
  PROVE  /\ Append(seq, e) \in Seq(Elements(Append(seq, e)))
         /\ Len(Append(seq, e)) = Len(seq) + 1
         /\ \A k \in 1 .. Len(seq) : Append(seq, e)[k] = seq[k]
         /\ Append(seq, e)[Len(seq) + 1] = e
<1> DEFINE S == Elements(seq) \cup {e}
           new == Append(seq, e)
<1>1. seq \in Seq(S)
  BY DEF Elements
<1>2. /\ new \in Seq(S) /\ Len(new) = Len(seq) + 1
      /\ \A k \in 1 .. Len(seq) : new[k] = seq[k]
      /\ new[Len(seq) + 1] = e
  BY <1>1
<1> HIDE DEF new, S
<1>3. new \in Seq(Elements(new))
  BY <1>2 DEF Elements
<1> QED BY <1>2, <1>3 DEF new

\* The documents keep what they know, and no document is as before its first transaction.
GoOn ==
  \A s \in Swaps : /\ KnownTo(res[s]) \subseteq KnownTo(res'[s])
                   /\ res[s].status # "MatchTxEmpty" => res'[s].status # "MatchTxEmpty"

KeepTxs == Ids \subseteq Ids' /\ \A i \in Ids : txs'[i] = txs[i]

LEMMA SnapStays ==
  ASSUME TypeInv, SnapInv, GoOn, KeepTxs, Mined \subseteq Mined',
         \A r \in list' : r \in list \/ (r.swap \in Swaps /\ Follows(r)'),
         \A task \in stable' : task \in stable \/ TaskOK(task)',
         \A r \in reswapQueue' : r \in reswapQueue \/ res'[r.swap].status # "MatchTxEmpty",
         \A g \in signing' : (\E h \in signing : h.tx = g.tx)
                               \/ res'[txs'[g.tx].swap].status # "MatchTxEmpty"
  PROVE  SnapInv'
<1>1. ASSUME NEW r \in Document, Follows(r) PROVE Follows(r)'
  BY <1>1 DEF Follows, GoOn, Document
<1>2. \A r \in list' : Follows(r)'
  BY <1>1 DEF SnapInv, TypeInv
<1>3. \A task \in stable' : TaskOK(task)'
  <2> SUFFICES ASSUME NEW task \in stable PROVE TaskOK(task)'
    OBVIOUS
  <2>1. TaskOK(task) /\ task.snap \in Document
    BY DEF SnapInv, TypeInv, Task
  <2>2. task.snap.swap \in Swaps
    BY <2>1 DEF Document
  <2> QED BY <1>1, <2>1, <2>2 DEF TaskOK, GoOn
<1>4. \A r \in reswapQueue' : res'[r.swap].status # "MatchTxEmpty"
  BY DEF SnapInv, TypeInv, GoOn, Document
<1>5. \A g \in signing' : res'[txs'[g.tx].swap].status # "MatchTxEmpty"
  <2> SUFFICES ASSUME NEW g \in signing', NEW h \in signing, h.tx = g.tx
               PROVE  res'[txs'[g.tx].swap].status # "MatchTxEmpty"
    OBVIOUS
  <2>1. h.tx \in Ids /\ txs[h.tx].swap \in Swaps
    BY DEF TypeInv
  <2> QED BY <2>1 DEF SnapInv, GoOn, KeepTxs
<1> QED BY <1>2, <1>3, <1>4, <1>5 DEF SnapInv

LEMMA TrackStays ==
  ASSUME TypeInv, TrackInv, GoOn, KeepTxs,
         \A i \in (Sending \cup Mined)' : i \in Sending \cup Mined \/ i \in KnownTo(res'[txs'[i].swap]),
         \A g \in signing' : \/ g \in signing \/ g.pc = "sign"
                             \/ g.tx \in KnownTo(res'[txs'[g.tx].swap])
  PROVE  TrackInv'
<1>1. ASSUME NEW i \in Ids, i \in KnownTo(res[txs[i].swap]) PROVE i \in KnownTo(res'[txs'[i].swap])
  BY <1>1 DEF TypeInv, GoOn, KeepTxs
<1>2. \A i \in (Sending \cup Mined)' : i \in KnownTo(res'[txs'[i].swap])
  BY <1>1 DEF TrackInv, Sending, Mined
<1>3. \A g \in signing' : g.pc # "sign" => g.tx \in KnownTo(res'[txs'[g.tx].swap])
  BY <1>1 DEF TrackInv, TypeInv
<1> QED BY <1>2, <1>3 DEF TrackInv

\* A step that changes no document.
LEMMA Quiet ==
  ASSUME Inv, TypeInv', UNCHANGED res, KeepTxs, Mined \subseteq Mined',
         (Sending \cup Mined)' \subseteq Sending \cup Mined,
         \A r \in list' : r \in list \/ (r.swap \in Swaps /\ Follows(r)'),
         \A task \in stable' : task \in stable \/ TaskOK(task)',
         \A r \in reswapQueue' : r \in reswapQueue \/ res'[r.swap].status # "MatchTxEmpty",
         \A g \in signing' : \/ g \in signing
                             \/ g.pc = "sign" /\ res'[txs'[g.tx].swap].status # "MatchTxEmpty"
  PROVE  Inv'
<1>1. GoOn /\ DocInv'
  BY DEF GoOn, Inv, DocInv
<1>2. SnapInv'
  BY <1>1, SnapStays DEF Inv
<1>3. TrackInv'
  BY <1>1, TrackStays DEF Inv
<1> QED BY <1>1, <1>2, <1>3 DEF Inv

\* A step that changes nothing a job has read either.
LEMMA ReadsStay ==
  ASSUME Inv, TypeInv', UNCHANGED res, KeepTxs, Mined \subseteq Mined',
         Sending' \subseteq Sending, Mined' \subseteq Sending \cup Mined,
         list' \subseteq list, stable' \subseteq stable, reswapQueue' \subseteq reswapQueue,
         signing' \subseteq signing
  PROVE  Inv'
<1>1. (Sending \cup Mined)' \subseteq Sending \cup Mined
  OBVIOUS
<1>2. \A r \in list' : r \in list \/ (r.swap \in Swaps /\ Follows(r)')
  OBVIOUS
<1>3. \A task \in stable' : task \in stable \/ TaskOK(task)'
  OBVIOUS
<1>4. \A r \in reswapQueue' : r \in reswapQueue \/ res'[r.swap].status # "MatchTxEmpty"
  OBVIOUS
<1>5. \A g \in signing' : \/ g \in signing
                          \/ g.pc = "sign" /\ res'[txs'[g.tx].swap].status # "MatchTxEmpty"
  OBVIOUS
<1> QED BY <1>1, <1>2, <1>3, <1>4, <1>5, Quiet, Zenon

-----------------------------------------------------------------------------
(* The chain *)

LEMMA MineOK ==
  ASSUME Inv, NEW i \in Ids, Mine(i)
  PROVE  Inv'
<1>1. i \in pool /\ mined' = [mined EXCEPT ![i] = slot] /\ pool' = pool \ {i} /\ KeepTxs
  BY DEF Mine, KeepTxs, Ids
<1>2. UNCHANGED <<txs, slot, res, jobVars>>
  BY DEF Mine
<1>3. /\ mined' \in Seq(Nat) /\ Len(mined') = Len(mined)
      /\ \A k \in Ids : mined'[k] = IF k = i THEN slot ELSE mined[k]
  BY <1>1 DEF Inv, TypeInv, Ids
<1>4. TypeInv'
  BY <1>1, <1>2, <1>3 DEF Inv, TypeInv, Ids, jobVars
<1>5. Mined \subseteq Mined' /\ Mined' \subseteq Mined \cup {i}
  <2>1. Ids' = Ids /\ slot > 0
    BY <1>2 DEF Ids, Inv, TypeInv
  <2> QED BY <1>3, <2>1 DEF Mined
<1>6. Sending' \subseteq Sending /\ i \in Sending
  BY <1>1, <1>2 DEF Inv, Sending, Ids, jobVars
<1> QED BY <1>1, <1>2, <1>4, <1>5, <1>6, ReadsStay DEF jobVars

\* What is lost or expired leaves the pool, and nothing else does.
LEMMA PoolShrinks ==
  ASSUME Inv, pool' \subseteq pool, slot' \in Nat \ {0}, UNCHANGED <<txs, mined, res, jobVars>>
  PROVE  Inv'
<1>1. KeepTxs /\ Ids' = Ids
  BY DEF KeepTxs, Ids
<1>2. TypeInv'
  BY <1>1 DEF Inv, TypeInv, jobVars
<1>3. Mined' = Mined /\ Sending' \subseteq Sending
  BY <1>1 DEF Mined, Sending, jobVars
<1> QED BY <1>1, <1>2, <1>3, ReadsStay DEF jobVars

LEMMA TickOK ==
  ASSUME Inv, Tick
  PROVE  Inv'
<1>1. pool' \subseteq pool /\ slot' = slot + 1
  BY DEF Tick, Surviving
<1>2. slot' \in Nat \ {0}
  BY <1>1 DEF Inv, TypeInv
<1> QED BY <1>1, <1>2, PoolShrinks DEF Tick

LEMMA LoseOK ==
  ASSUME Inv, NEW i \in Ids, Lose(i)
  PROVE  Inv'
<1>1. pool' \subseteq pool /\ slot' = slot
  BY DEF Lose, Surviving
<1>2. slot' \in Nat \ {0}
  BY <1>1 DEF Inv, TypeInv
<1> QED BY <1>1, <1>2, PoolShrinks DEF Lose

-----------------------------------------------------------------------------
(* Sending *)

\* A goroutine sends a transaction it may send.
LEMMA SendOK ==
  ASSUME Inv, NEW i \in Sending, SendTransaction(i), loops' \subseteq loops \cup {i},
         consumer' = consumer \/ consumer' = [pc |-> "idle", tx |-> 0],
         signing' \subseteq signing,
         UNCHANGED <<txs, mined, slot, res, reswapQueue, list, stable>>
  PROVE  Inv'
<1>1. KeepTxs /\ Ids' = Ids /\ i \in Ids
  BY DEF KeepTxs, Ids, Sending
<1>2. pool' = pool \/ pool' = pool \cup {i}
  BY DEF SendTransaction
<1>3. TypeInv'
  BY <1>1, <1>2 DEF Inv, TypeInv
<1>4. Mined' = Mined /\ Sending' \subseteq Sending
  BY <1>1, <1>2 DEF Mined, Sending
<1> QED BY <1>1, <1>3, <1>4, ReadsStay

LEMMA SwapSendOK ==
  ASSUME Inv, SwapSend
  PROVE  Inv'
<1>1. consumer.tx \in Sending
  BY DEF SwapSend, Sending, Inv, TypeInv
<1> QED BY <1>1, SendOK DEF SwapSend, Sent

LEMMA LoopSendOK ==
  ASSUME Inv, NEW i \in Ids, LoopSend(i)
  PROVE  Inv'
<1>1. i \in Sending
  BY DEF LoopSend, Sending
<1> QED BY <1>1, SendOK DEF LoopSend

LEMMA ReswapSendOK ==
  ASSUME Inv, NEW g \in signing, ReswapSend(g)
  PROVE  Inv'
<1>1. g.tx \in Sending
  BY DEF ReswapSend, Sending, Inv, TypeInv
<1> QED BY <1>1, SendOK DEF ReswapSend, Sent

-----------------------------------------------------------------------------
(* Steps of the jobs that read *)

\* Only the lists of what a job has read change.
LEMMA Reads ==
  ASSUME Inv, UNCHANGED <<txs, chainVars, res, consumer, loops>>, signing' \subseteq signing,
         list' \subseteq Document, reswapQueue' \subseteq Document, stable' \subseteq Task,
         \A r \in list' : r \in list \/ Follows(r),
         \A task \in stable' : task \in stable \/ TaskOK(task),
         \A r \in reswapQueue' : r \in reswapQueue \/ res[r.swap].status # "MatchTxEmpty"
  PROVE  Inv'
<1>1. KeepTxs /\ Ids' = Ids /\ Mined' = Mined
  BY DEF KeepTxs, Ids, Mined, chainVars
<1>2. TypeInv'
  BY <1>1 DEF Inv, TypeInv, chainVars
<1>3. Sending' \subseteq Sending
  BY <1>1 DEF Sending, chainVars
<1>5. \A r \in list' : r \in list \/ (r.swap \in Swaps /\ Follows(r)')
  <2>1. res' = res
    OBVIOUS
  <2>2. \A r \in list' : r.swap \in Swaps
    BY DEF Document
  <2> QED BY <2>1, <2>2 DEF Follows
<1>6. \A task \in stable' : task \in stable \/ TaskOK(task)'
  BY <1>1 DEF TaskOK, Follows
<1> QED BY <1>1, <1>2, <1>3, <1>5, <1>6, Quiet

LEMMA StableFindOK ==
  ASSUME Inv, StableFind
  PROVE  Inv'
<1>1. \A r \in list' : r \in Document /\ Follows(r)
  BY DEF StableFind, FindRouterSwapResultsToStable, Inv, TypeInv, Follows
<1> QED BY <1>1, Reads DEF StableFind, FindRouterSwapResultsToStable, Inv, TypeInv

LEMMA StableDispatchOK ==
  ASSUME Inv, NEW r \in list, StableDispatch(r)
  PROVE  Inv'
<1> DEFINE new == [pc |-> "queued", snap |-> r, found |-> 0]
<1>1. new \in Task /\ TaskOK(new)
  BY DEF Inv, TypeInv, Task, TaskOK, SnapInv
<1>2. stable' \subseteq stable \cup {new} /\ list' \subseteq list
  BY DEF StableDispatch
<1> QED BY <1>1, <1>2, Reads DEF StableDispatch, Inv, TypeInv

\* What is found of a document that was read is on chain and known to the document.
LEMMA FoundOK ==
  ASSUME Inv, NEW r \in Document, Follows(r), NEW i \in Lookup(r)
  PROVE  i \in Mined /\ i \in KnownTo(r) /\ i \in KnownTo(res[r.swap]) /\ i \in Ids
<1>1. i \in Mined /\ i \in Ids /\ i # 0
  BY DEF Lookup, Mined, Ids
<1> QED BY <1>1 DEF Lookup, KnownTo, Follows

LEMMA StableLookOK ==
  ASSUME Inv, NEW task \in stable, StableLook(task)
  PROVE  Inv'
<1>1. task \in Task /\ TaskOK(task) /\ task.snap \in Document /\ Follows(task.snap)
  BY DEF Inv, TypeInv, SnapInv, TaskOK, Task
<1>2. ASSUME NEW new \in stable', new \notin stable
      PROVE  new \in Task /\ TaskOK(new)
  <2>1. \/ new = [task EXCEPT !.pc = "looked"]
        \/ \E i \in Lookup(task.snap) : new = [task EXCEPT !.pc = "looked", !.found = i]
    BY <1>2 DEF StableLook
  <2>2. CASE new = [task EXCEPT !.pc = "looked"]
    BY <1>1, <2>2 DEF Task, TaskOK
  <2>3. CASE \E i \in Lookup(task.snap) : new = [task EXCEPT !.pc = "looked", !.found = i]
    <3>1. PICK i \in Lookup(task.snap) : new = [task EXCEPT !.pc = "looked", !.found = i]
      BY <2>3
    <3>2. i \in Mined /\ i \in KnownTo(res[task.snap.swap]) /\ i \in Nat
      BY <1>1, FoundOK DEF Ids
    <3>3. new \in Task /\ new.snap = task.snap /\ new.found = i
      BY <1>1, <3>1, <3>2 DEF Task
    <3> QED BY <1>1, <3>2, <3>3 DEF TaskOK
  <2> QED BY <2>1, <2>2, <2>3
<1>3. stable' \subseteq Task
  BY <1>2 DEF Inv, TypeInv
<1>4. UNCHANGED <<txs, chainVars, res, consumer, reswapQueue, signing, loops, list>>
  BY DEF StableLook
<1> QED BY <1>2, <1>3, <1>4, Reads DEF Inv, TypeInv

LEMMA ReswapDispatchOK ==
  ASSUME Inv, NEW s \in Swaps, ReswapDispatch(s)
  PROVE  Inv'
<1>1. res[s] \in Document /\ res[s].swap = s
  BY DEF Inv, TypeInv
<1> QED BY <1>1, Reads DEF ReswapDispatch, Inv, TypeInv

LEMMA ReswapDropOK ==
  ASSUME Inv, NEW r \in reswapQueue, ReswapDrop(r)
  PROVE  Inv'
BY Reads DEF ReswapDrop, Inv, TypeInv

-----------------------------------------------------------------------------
(* Building *)

LEMMA Built ==
  ASSUME Inv, NEW s \in Swaps, NEW keys, BuildRawTransaction(s, keys)
  PROVE  /\ KeepTxs /\ Mined' = Mined
         /\ Ids' = Ids \cup {Len(txs) + 1} /\ Len(txs) + 1 \notin Ids
         /\ txs' \in Seq(Elements(txs')) /\ mined' \in Seq(Nat) /\ Len(mined') = Len(txs')
         /\ txs'[Len(txs) + 1].swap = s /\ txs'[Len(txs) + 1].ttl \in Nat
<1> DEFINE t == CreateRawTx(s, keys)
<1>1. txs' = Append(txs, t) /\ mined' = Append(mined, 0)
  BY DEF BuildRawTransaction
<1>2. t.swap = s /\ t.ttl = slot + TxTimeout
  BY DEF CreateRawTx, buildTxAndAdjustRestAda, genTxBuilder, BuildTx
<1>3. t.ttl \in Nat
  BY <1>2, CardanoAssumption DEF Inv, TypeInv
<1> HIDE DEF t
<1>4. /\ txs' \in Seq(Elements(txs')) /\ Len(txs') = Len(txs) + 1
      /\ \A k \in 1 .. Len(txs) : txs'[k] = txs[k]
      /\ txs'[Len(txs) + 1] = t
  BY <1>1, Appended DEF Inv, TypeInv
<1>5. /\ mined' \in Seq(Nat) /\ Len(mined') = Len(mined) + 1
      /\ \A k \in 1 .. Len(mined) : mined'[k] = mined[k]
      /\ mined'[Len(mined) + 1] = 0
  BY <1>1 DEF Inv, TypeInv
<1>6. Len(txs) \in Nat /\ Len(mined) = Len(txs)
  BY DEF Inv, TypeInv
<1>7. Ids' = Ids \cup {Len(txs) + 1} /\ Len(txs) + 1 \notin Ids
  BY <1>4, <1>6 DEF Ids
<1>8. KeepTxs
  BY <1>4, <1>7 DEF KeepTxs, Ids
<1>9. Mined' = Mined
  BY <1>5, <1>6, <1>7 DEF Mined, Ids
<1> QED BY <1>2, <1>3, <1>4, <1>5, <1>6, <1>7, <1>8, <1>9

\* A transaction that is built is not sent yet.
LEMMA BuildOK ==
  ASSUME Inv, NEW s \in Swaps, NEW keys, BuildRawTransaction(s, keys),
         \/ consumer' = consumer
         \/ consumer' = [pc |-> "sign", tx |-> Len(txs) + 1] /\ consumer.pc = "idle",
         \/ signing' = signing
         \/ /\ signing' = signing \cup {[pc |-> "sign", tx |-> Len(txs) + 1]}
            /\ res[s].status # "MatchTxEmpty",
         reswapQueue' \subseteq reswapQueue,
         UNCHANGED <<pool, slot, res, loops, list, stable>>
  PROVE  Inv'
<1> DEFINE new == Len(txs) + 1
<1>1. /\ KeepTxs /\ Mined' = Mined /\ Ids' = Ids \cup {new} /\ new \notin Ids
      /\ txs' \in Seq(Elements(txs')) /\ mined' \in Seq(Nat) /\ Len(mined') = Len(txs')
      /\ txs'[new].swap = s /\ txs'[new].ttl \in Nat
  BY Built
<1> HIDE DEF new
<1>2. \A i \in Ids' : txs'[i].swap \in Swaps /\ txs'[i].ttl \in Nat
  BY <1>1 DEF KeepTxs, Inv, TypeInv
<1>3. consumer'.pc \in {"idle", "sign", "send"} /\ (consumer'.pc # "idle" => consumer'.tx \in Ids')
  BY <1>1 DEF Inv, TypeInv, new
<1>4. signing' \subseteq [pc : {"sign", "update", "send"}, tx : Ids']
  BY <1>1 DEF Inv, TypeInv, new
<1>5. TypeInv'
  BY <1>1, <1>2, <1>3, <1>4 DEF Inv, TypeInv
<1>6. Sending' \subseteq Sending
  <2>1. \A i : consumer'.pc = "send" /\ consumer'.tx = i => consumer.pc = "send" /\ consumer.tx = i
    OBVIOUS
  <2>2. \A i : (\E g \in signing' : g.pc = "send" /\ g.tx = i)
                 => \E g \in signing : g.pc = "send" /\ g.tx = i
    OBVIOUS
  <2>3. \A i : \/ i \in pool \/ i \in loops
               \/ consumer.pc = "send" /\ consumer.tx = i
               \/ \E g \in signing : g.pc = "send" /\ g.tx = i
               => i \in Ids
    BY DEF Inv, TypeInv
  <2> QED BY <2>1, <2>2, <2>3 DEF Sending
<1>9. \A g \in signing' : \/ g \in signing
                          \/ g.pc = "sign" /\ res'[txs'[g.tx].swap].status # "MatchTxEmpty"
  BY <1>1 DEF new
<1>10. /\ \A r \in list' : r \in list
       /\ \A task \in stable' : task \in stable
       /\ \A r \in reswapQueue' : r \in reswapQueue
  OBVIOUS
<1>11. (Sending \cup Mined)' \subseteq Sending \cup Mined
  BY <1>1, <1>6
<1> QED BY <1>1, <1>5, <1>9, <1>10, <1>11, Quiet

LEMMA SwapBuildOK ==
  ASSUME Inv, NEW s \in Swaps, SwapBuild(s)
  PROVE  Inv'
<1>1. PICK keys \in SUBSET QueryUtxo(s) : BuildRawTransaction(s, keys)
  BY DEF SwapBuild
<1> QED BY <1>1, BuildOK DEF SwapBuild

LEMMA ReswapBuildOK ==
  ASSUME Inv, NEW r \in reswapQueue, ReswapBuild(r)
  PROVE  Inv'
<1>1. PICK keys \in SUBSET QueryUtxo(r.swap) : BuildRawTransaction(r.swap, keys)
  BY DEF ReswapBuild
<1>2. r.swap \in Swaps /\ res[r.swap].status # "MatchTxEmpty"
  BY DEF Inv, TypeInv, SnapInv, Document
<1> QED BY <1>1, <1>2, BuildOK DEF ReswapBuild

LEMMA RestartOK ==
  ASSUME Inv, Restart
  PROVE  Inv'
<1>1. /\ UNCHANGED <<txs, chainVars, res>> /\ consumer' = [pc |-> "idle", tx |-> 0]
      /\ reswapQueue' = {} /\ signing' = {} /\ loops' = {} /\ list' = {} /\ stable' = {}
  BY DEF Restart
<1>2. KeepTxs /\ Ids' = Ids /\ Mined' = Mined
  BY <1>1 DEF KeepTxs, Ids, Mined, chainVars
<1>3. TypeInv'
  BY <1>1, <1>2 DEF Inv, TypeInv, chainVars
<1>4. Sending' \subseteq Sending
  BY <1>1, <1>2 DEF Sending, chainVars
<1> QED BY <1>1, <1>2, <1>3, <1>4, ReadsStay

-----------------------------------------------------------------------------
(* Steps that change a document *)

\* A document goes on: it keeps what it knows and stays in order.  What a goroutine may send
\* from now on is known to it, and what was read of it is not more.
LEMMA DocStep ==
  ASSUME Inv, NEW s \in Swaps, NEW r \in Document, r.swap = s, DocOK(r),
         KnownTo(res[s]) \subseteq KnownTo(r),
         res[s].status # "MatchTxEmpty" => r.status # "MatchTxEmpty",
         res' = [res EXCEPT ![s] = r],
         UNCHANGED <<txs, chainVars, reswapQueue, list>>,
         loops' \subseteq loops, stable' \subseteq stable,
         consumer'.pc \in {"idle", "sign", "send"}, consumer'.pc # "idle" => consumer'.tx \in Ids,
         signing' \subseteq [pc : {"sign", "update", "send"}, tx : Ids],
         \A g \in signing' : \E h \in signing : h.tx = g.tx,
         \A g \in signing' : g \in signing \/ g.tx \in KnownTo(res'[txs[g.tx].swap]),
         \A i \in Sending' : i \in Sending \/ i \in KnownTo(res'[txs[i].swap])
  PROVE  Inv'
<1>1. /\ \A t \in Swaps : res'[t] = IF t = s THEN r ELSE res[t]
      /\ res' \in [Swaps -> Document]
  BY DEF Inv, TypeInv
<1>2. KeepTxs /\ Ids' = Ids /\ Mined' = Mined
  BY DEF KeepTxs, Ids, Mined, chainVars
<1>3. TypeInv'
  BY <1>1, <1>2 DEF Inv, TypeInv, chainVars
<1>4. DocInv'
  BY <1>1 DEF Inv, DocInv
<1>5. GoOn
  BY <1>1 DEF GoOn
<1>6. SnapInv'
  <2>1. /\ \A q \in list' : q \in list
        /\ \A task \in stable' : task \in stable
        /\ \A q \in reswapQueue' : q \in reswapQueue
    OBVIOUS
  <2> QED BY <1>2, <1>5, <2>1, SnapStays DEF Inv
<1>7. TrackInv'
  <2>1. txs' = txs
    OBVIOUS
  <2>2. \A i \in (Sending \cup Mined)' : i \in Sending \cup Mined \/ i \in KnownTo(res'[txs'[i].swap])
    BY <1>2, <2>1
  <2>3. \A g \in signing' : \/ g \in signing \/ g.pc = "sign"
                            \/ g.tx \in KnownTo(res'[txs'[g.tx].swap])
    BY <2>1
  <2> QED BY <1>2, <1>5, <2>2, <2>3, TrackStays DEF Inv
<1> QED BY <1>3, <1>4, <1>6, <1>7 DEF Inv

\* A document goes on and nothing more can be sent.
LEMMA DocGoesOn ==
  ASSUME Inv, NEW s \in Swaps, NEW r \in Document, r.swap = s, DocOK(r),
         KnownTo(res[s]) \subseteq KnownTo(r),
         res[s].status # "MatchTxEmpty" => r.status # "MatchTxEmpty",
         res' = [res EXCEPT ![s] = r],
         UNCHANGED <<txs, chainVars, reswapQueue, list>>,
         loops' \subseteq loops, stable' \subseteq stable,
         consumer' = consumer \/ consumer' = [pc |-> "idle", tx |-> 0],
         signing' \subseteq [pc : {"sign", "update", "send"}, tx : Ids],
         \A g \in signing' : \E h \in signing : h.tx = g.tx,
         \A g \in signing' : \/ g \in signing
                             \/ g.pc = "update" /\ g.tx \in KnownTo(res'[txs[g.tx].swap])
  PROVE  Inv'
<1>1. Sending' \subseteq Sending
  <2>1. \A i : consumer'.pc = "send" /\ consumer'.tx = i => consumer.pc = "send" /\ consumer.tx = i
    OBVIOUS
  <2>2. \A i : (\E g \in signing' : g.pc = "send" /\ g.tx = i)
                 => \E g \in signing : g.pc = "send" /\ g.tx = i
    OBVIOUS
  <2> QED BY <2>1, <2>2 DEF Sending, Ids, chainVars
<1>2. consumer'.pc \in {"idle", "sign", "send"} /\ (consumer'.pc # "idle" => consumer'.tx \in Ids)
  BY DEF Inv, TypeInv
<1> QED BY <1>1, <1>2, DocStep

\* A transaction is recorded for a swap that waits for one, and may be sent.
LEMMA RecordOK ==
  ASSUME Inv, NEW i \in Ids, NEW s, s = txs[i].swap, CanRecord(res[s]),
         res[s].status # "MatchTxEmpty" => i \in KnownTo(res[s]),
         res' = [res EXCEPT ![s] = Record(@, i)],
         UNCHANGED <<txs, chainVars, reswapQueue, list, loops, stable>>,
         consumer'.pc \in {"idle", "sign", "send"}, consumer'.pc # "idle" => consumer'.tx \in Ids,
         consumer'.pc = "send" => consumer' = consumer \/ consumer'.tx = i,
         signing' \subseteq [pc : {"sign", "update", "send"}, tx : Ids],
         \A g \in signing' : \E h \in signing : h.tx = g.tx,
         \A g \in signing' : g \in signing \/ g.tx = i
  PROVE  Inv'
<1> DEFINE r == Record(res[s], i)
<1>1. /\ s \in Swaps /\ res[s] \in Document /\ res[s].swap = s /\ DocOK(res[s])
      /\ i \in Nat \ {0}
  BY DEF Inv, TypeInv, DocInv, Ids
<1>2. /\ r \in Document /\ r.swap = s /\ r.status = "MatchTxNotStable"
      /\ r.swaptx = i /\ r.old = res[s].old
  <2>1. txs[i].ttl \in Nat
    BY DEF Inv, TypeInv
  <2>2. RecordedTTL(i) \in Nat
    BY <2>1 DEF RecordedTTL
  <2> QED BY <1>1, <2>2 DEF Record, Document, Statuses
<1> HIDE DEF r
<1>3. /\ res[s].swaptx = 0 /\ res[s].status \in {"MatchTxEmpty", "TxNeedReswap"}
      /\ res[s].old # {} => i \in res[s].old
  BY <1>1 DEF CanRecord, DocOK, Document, Statuses, KnownTo
<1>4. DocOK(r) /\ KnownTo(res[s]) \subseteq KnownTo(r) /\ i \in KnownTo(r)
  BY <1>1, <1>2, <1>3 DEF DocOK, KnownTo
<1>5. res' = [res EXCEPT ![s] = r] /\ res'[s] = r
  BY <1>1 DEF r, Inv, TypeInv
<1>6. Sending' \subseteq Sending \cup {i}
  BY DEF Sending, Ids, chainVars
<1>7. \A k \in Sending' : k \in Sending \/ k \in KnownTo(res'[txs[k].swap])
  BY <1>4, <1>5, <1>6
<1>8. \A g \in signing' : g \in signing \/ g.tx \in KnownTo(res'[txs[g.tx].swap])
  BY <1>4, <1>5
<1>9. loops' \subseteq loops /\ stable' \subseteq stable
  OBVIOUS
<1>10. res[s].status # "MatchTxEmpty" => r.status # "MatchTxEmpty"
  BY <1>2
<1> QED BY <1>1, <1>2, <1>4, <1>5, <1>7, <1>8, <1>9, <1>10, DocStep

LEMMA SwapSignOK ==
  ASSUME Inv, SwapSign
  PROVE  Inv'
<1> DEFINE i == consumer.tx
           s == txs[i].swap
<1>1. i \in Ids /\ s \in Swaps
  BY DEF SwapSign, Inv, TypeInv
<1>2. UNCHANGED <<txs, chainVars, reswapQueue, signing, loops, list, stable>>
  BY DEF SwapSign
<1>3. /\ signing \subseteq [pc : {"sign", "update", "send"}, tx : Ids]
      /\ \A g \in signing : \E h \in signing : h.tx = g.tx
  BY DEF Inv, TypeInv
<1>4. CASE /\ res[s].status = "MatchTxEmpty" /\ CanRecord(res[s])
           /\ res' = [res EXCEPT ![s] = Record(@, i)]
           /\ consumer' = [consumer EXCEPT !.pc = "send"]
  <2>1. consumer'.pc = "send" => consumer'.tx = i
    BY <1>4
  <2>2. consumer'.pc \in {"idle", "sign", "send"} /\ (consumer'.pc # "idle" => consumer'.tx \in Ids)
    BY <1>1, <1>4 DEF SwapSign, Inv, TypeInv
  <2> QED BY <1>1, <1>2, <1>3, <1>4, <2>1, <2>2, RecordOK
<1>5. CASE consumer' = [pc |-> "idle", tx |-> 0] /\ UNCHANGED res
  <2>1. KeepTxs /\ Ids' = Ids /\ Mined' = Mined
    BY <1>2 DEF KeepTxs, Ids, Mined, chainVars
  <2>2. TypeInv'
    BY <1>2, <1>5, <2>1 DEF Inv, TypeInv, chainVars
  <2>3. Sending' \subseteq Sending
    BY <1>2, <1>5, <2>1 DEF Sending, chainVars
  <2> QED BY <1>2, <1>5, <2>1, <2>2, <2>3, ReadsStay
<1> QED BY <1>4, <1>5 DEF SwapSign

\* A document gets the hash of a transaction it knows.
LEMMA OtherHash ==
  ASSUME Inv, NEW s \in Swaps, NEW hash \in KnownTo(res[s]) \cup {res[s].swaptx}, NEW r \in Document,
         r.swaptx = hash, r.old = res[s].old,
         r.status \in {res[s].status, "MatchTxStable"}
  PROVE  DocOK(r) /\ KnownTo(res[s]) \subseteq KnownTo(r)
<1>1. DocOK(res[s])
  BY DEF Inv, DocInv
<1> QED BY <1>1 DEF DocOK, KnownTo

LEMMA LoopSeeOK ==
  ASSUME Inv, NEW i \in Ids, LoopSee(i)
  PROVE  Inv'
<1> DEFINE s == txs[i].swap
<1>1. s \in Swaps /\ i \in KnownTo(res[s]) /\ res[s] \in Document /\ res[s].swap = s
  BY DEF LoopSee, Inv, TypeInv, TrackInv, Sending
<1>2. /\ UNCHANGED <<txs, chainVars, reswapQueue, signing, list, stable, consumer>>
      /\ loops' \subseteq loops
  BY DEF LoopSee
<1>3. /\ signing \subseteq [pc : {"sign", "update", "send"}, tx : Ids]
      /\ \A g \in signing : \E h \in signing : h.tx = g.tx
  BY DEF Inv, TypeInv
<1>4. \E r \in Document :
        /\ r.swap = s /\ res' = [res EXCEPT ![s] = r] /\ r.status = res[s].status
        /\ DocOK(r) /\ KnownTo(res[s]) \subseteq KnownTo(r)
  <2>1. CASE UNCHANGED res \/ res' = [res EXCEPT ![s] = res[s]]
    BY <1>1, <2>1 DEF Inv, TypeInv, DocInv
  <2>2. CASE \E j \in Lookup(res[s]), hash \in {i, res[s].swaptx} :
               res' = [res EXCEPT ![s] = [@ EXCEPT !.swaptx = hash, !.height = mined[j]]]
    <3>1. PICK j \in Lookup(res[s]), hash \in {i, res[s].swaptx} :
            res' = [res EXCEPT ![s] = [@ EXCEPT !.swaptx = hash, !.height = mined[j]]]
      BY <2>2
    <3> DEFINE r == [res[s] EXCEPT !.swaptx = hash, !.height = mined[j]]
    <3>2. mined[j] \in Nat /\ hash \in Nat
      BY <1>1 DEF Lookup, Mined, Ids, Inv, TypeInv, Document
    <3>3. /\ r \in Document /\ r.swap = s /\ r.status = res[s].status
          /\ r.swaptx = hash /\ r.old = res[s].old
      BY <1>1, <3>2 DEF Document
    <3>4. res' = [res EXCEPT ![s] = r]
      BY <1>1, <3>1 DEF Inv, TypeInv
    <3> HIDE DEF r
    <3>5. DocOK(r) /\ KnownTo(res[s]) \subseteq KnownTo(r)
      BY <1>1, <3>3, OtherHash
    <3> QED BY <3>3, <3>4, <3>5
  <2> QED BY <1>1, <2>1, <2>2 DEF LoopSee, Inv, TypeInv
<1> QED BY <1>1, <1>2, <1>3, <1>4, DocGoesOn

-----------------------------------------------------------------------------
(* The stable job *)

LEMMA StableDecideOK ==
  ASSUME Inv, NEW task \in stable, StableDecide(task)
  PROVE  Inv'
<1> DEFINE q == task.snap
           s == q.swap
           i == task.found
<1>1. q \in Document /\ s \in Swaps /\ Follows(q)
  BY DEF Inv, TypeInv, SnapInv, TaskOK, Task, Document
<1>2. res[s] \in Document /\ res[s].swap = s /\ DocOK(res[s]) /\ res[s].status # "MatchTxEmpty"
  BY <1>1 DEF Inv, TypeInv, DocInv, Follows
<1>3. i # 0 => i \in KnownTo(res[s]) /\ mined[i] \in Nat /\ i \in Nat
  BY DEF Inv, TypeInv, SnapInv, TaskOK, Mined, Ids
<1>4. /\ UNCHANGED <<txs, chainVars, reswapQueue, signing, list, loops, consumer>>
      /\ stable' \subseteq stable
  BY DEF StableDecide
<1>5. /\ signing \subseteq [pc : {"sign", "update", "send"}, tx : Ids]
      /\ \A g \in signing : \E h \in signing : h.tx = g.tx
  BY DEF Inv, TypeInv
<1>6. CASE IsTxTimeout(q.ttl) /\ i = 0 /\ reswapIfTimeout(q)
  <2> DEFINE r == [res[s] EXCEPT !.status = "TxNeedReswap"]
  <2>1. /\ r \in Document /\ r.swap = s /\ r.status = "TxNeedReswap"
        /\ r.swaptx = res[s].swaptx /\ r.old = res[s].old
    BY <1>2 DEF Document, Statuses
  <2>2. res' = [res EXCEPT ![s] = r]
    BY <1>1, <1>6 DEF reswapIfTimeout, Inv, TypeInv
  <2> HIDE DEF r
  <2>3. DocOK(r) /\ KnownTo(res[s]) \subseteq KnownTo(r)
    BY <1>2, <2>1 DEF DocOK, KnownTo
  <2> QED BY <1>1, <1>4, <1>5, <2>1, <2>2, <2>3, DocGoesOn
<1>7. ASSUME \E r \in Document :
               /\ r.swap = s /\ res' = [res EXCEPT ![s] = r]
               /\ r.status \in {res[s].status, "MatchTxStable"}
               /\ r.swaptx \in {res[s].swaptx, i} /\ r.old = res[s].old /\ (i = 0 => r.swaptx = res[s].swaptx)
      PROVE  Inv'
  <2>1. PICK r \in Document :
               /\ r.swap = s /\ res' = [res EXCEPT ![s] = r]
               /\ r.status \in {res[s].status, "MatchTxStable"}
               /\ r.swaptx \in {res[s].swaptx, i} /\ r.old = res[s].old /\ (i = 0 => r.swaptx = res[s].swaptx)
    BY <1>7
  <2>2. r.swaptx \in KnownTo(res[s]) \cup {res[s].swaptx}
    BY <1>3, <2>1
  <2>3. DocOK(r) /\ KnownTo(res[s]) \subseteq KnownTo(r)
    BY <1>1, <2>1, <2>2, OtherHash
  <2> QED BY <1>1, <1>2, <1>4, <1>5, <1>7, <2>1, <2>3, DocGoesOn
<1>8. CASE UNCHANGED res
  BY <1>1, <1>2, <1>7, <1>8 DEF Inv, TypeInv
<1>9. CASE i # 0 /\ StableRecord(q, i)
  <2> DEFINE r == IF res[s].status = "MatchTxStable" THEN res[s]
                  ELSE [res[s] EXCEPT !.height = mined[i],
                                      !.swaptx = IF i = q.swaptx THEN res[s].swaptx ELSE i]
  <2>1. res' = [res EXCEPT ![s] = r]
    BY <1>1, <1>9 DEF StableRecord, Inv, TypeInv
  <2>2. /\ r \in Document /\ r.swap = s /\ r.status = res[s].status
        /\ r.swaptx \in {res[s].swaptx, i} /\ r.old = res[s].old
    BY <1>2, <1>3, <1>9 DEF Document
  <2> HIDE DEF r
  <2> QED BY <1>7, <1>9, <2>1, <2>2
<1>10. CASE i # 0 /\ StableMark(q, i)
  <2> DEFINE known == i = q.swaptx \/ res[s].status = "MatchTxStable"
             r == [res[s] EXCEPT !.status = "MatchTxStable", !.swaptx = IF known THEN @ ELSE i]
  <2>1. res' = [res EXCEPT ![s] = r]
    <3>1. res' = [res EXCEPT ![s].status = "MatchTxStable", ![s].swaptx = IF known THEN @ ELSE i]
      BY <1>10 DEF StableMark
    <3>2. res \in [Swaps -> Document]
      BY DEF Inv, TypeInv
    <3>3. DOMAIN res' = Swaps /\ \A t \in Swaps : res'[t] = [res EXCEPT ![s] = r][t]
      BY <1>1, <1>2, <3>1, <3>2 DEF Document
    <3> QED BY <3>1, <3>2, <3>3
  <2>2. /\ r \in Document /\ r.swap = s /\ r.status = "MatchTxStable"
        /\ r.swaptx \in {res[s].swaptx, i} /\ r.old = res[s].old
    BY <1>2, <1>3, <1>10 DEF Document, Statuses
  <2> HIDE DEF r
  <2> QED BY <1>7, <1>10, <2>1, <2>2
<1>11. CASE i = 0 /\ reswapIfTimeout(q)
  BY <1>6, <1>8, <1>11 DEF reswapIfTimeout
<1> QED BY <1>8, <1>9, <1>10, <1>11 DEF StableDecide

-----------------------------------------------------------------------------
(* The reswap job *)

\* UpdateRouterOldSwapTxs loses no transaction, in whatever status the document is.
LEMMA OldSwapTxs ==
  ASSUME NEW r \in Document, DocOK(r), r.status # "MatchTxEmpty", NEW i \in Nat \ {0}
  PROVE  LET q == UpdateRouterOldSwapTxs(r, i) IN
         /\ q \in Document /\ DocOK(q) /\ q.swap = r.swap /\ q.status = r.status
         /\ KnownTo(r) \subseteq KnownTo(q) /\ i \in KnownTo(q)
<1> DEFINE q == UpdateRouterOldSwapTxs(r, i)
<1>1. CASE i \in {r.swaptx} \cup r.old
  BY <1>1 DEF UpdateRouterOldSwapTxs, KnownTo
<1>2. CASE i \notin {r.swaptx} \cup r.old
  <2> DEFINE hash == CASE r.status = "TxNeedReswap" -> 0
                       [] r.status = "MatchTxStable" -> r.swaptx
                       [] OTHER -> i
             old == IF r.old = {} THEN {r.swaptx, i} ELSE r.old \cup {i}
  <2>1. /\ hash \in {0, i, r.swaptx} /\ hash \in Nat
        /\ r.status = "MatchTxNotStable" => hash = i
        /\ old \in SUBSET Nat /\ i \in old /\ r.old \subseteq old
    BY DEF Document
  <2>2. r.swaptx # 0 => r.swaptx \in old
    BY DEF DocOK
  <2>3. q = [r EXCEPT !.swaptx = hash, !.old = old]
    BY <1>2 DEF UpdateRouterOldSwapTxs
  <2> HIDE DEF hash, old
  <2>4. /\ q \in Document /\ q.swap = r.swap /\ q.status = r.status
        /\ q.swaptx = hash /\ q.old = old
    BY <2>1, <2>3 DEF Document
  <2> HIDE DEF q
  <2>5. DocOK(q)
    BY <2>1, <2>2, <2>4 DEF DocOK
  <2>6. KnownTo(r) \subseteq KnownTo(q) /\ i \in KnownTo(q)
    BY <2>1, <2>2, <2>4 DEF KnownTo
  <2> QED BY <2>4, <2>5, <2>6 DEF q
<1> QED BY <1>1, <1>2

\* A goroutine goes on or ends.
LEMMA AdvanceOK ==
  ASSUME Inv, NEW g \in signing, NEW pc \in {"update", "send"},
         Advance(g, pc) \/ signing' = signing \ {g}
  PROVE  /\ signing' \subseteq [pc : {"sign", "update", "send"}, tx : Ids]
         /\ \A h \in signing' : \E k \in signing : k.tx = h.tx
         /\ \A h \in signing' : h \in signing \/ (h.pc = pc /\ h.tx = g.tx)
<1>1. g \in [pc : {"sign", "update", "send"}, tx : Ids]
  BY DEF Inv, TypeInv
<1> DEFINE new == [g EXCEPT !.pc = pc]
<1>2. new \in [pc : {"sign", "update", "send"}, tx : Ids] /\ new.pc = pc /\ new.tx = g.tx
  BY <1>1
<1>3. signing' \subseteq signing \cup {new}
  BY DEF Advance
<1> HIDE DEF new
<1> QED BY <1>2, <1>3 DEF Inv, TypeInv

LEMMA ReswapSignOK ==
  ASSUME Inv, NEW g \in signing, ReswapSign(g)
  PROVE  Inv'
<1> DEFINE s == txs[g.tx].swap
           r == UpdateRouterOldSwapTxs(res[s], g.tx)
<1>1. g.tx \in Ids /\ s \in Swaps /\ g.tx \in Nat \ {0}
  BY DEF Inv, TypeInv, Ids
<1>2. res[s] \in Document /\ DocOK(res[s]) /\ res[s].status # "MatchTxEmpty" /\ res[s].swap = s
  BY <1>1 DEF Inv, TypeInv, DocInv, SnapInv
<1>3. /\ r \in Document /\ DocOK(r) /\ r.swap = s /\ r.status = res[s].status
      /\ KnownTo(res[s]) \subseteq KnownTo(r) /\ g.tx \in KnownTo(r)
  BY <1>1, <1>2, OldSwapTxs
<1>4. UNCHANGED <<txs, chainVars, reswapQueue, list, loops, stable, consumer>>
  BY DEF ReswapSign
<1>5. CASE signing' = signing \ {g} /\ UNCHANGED res
  BY <1>4, <1>5, Reads DEF Inv, TypeInv
<1>6. CASE res' = [res EXCEPT ![s] = r] /\ Advance(g, "update")
  <2>1. res'[s] = r
    BY <1>1, <1>6 DEF Inv, TypeInv
  <2> HIDE DEF r
  <2>2. /\ signing' \subseteq [pc : {"sign", "update", "send"}, tx : Ids]
        /\ \A h \in signing' : \E k \in signing : k.tx = h.tx
        /\ \A h \in signing' : h \in signing \/ (h.pc = "update" /\ h.tx = g.tx)
    BY <1>6, AdvanceOK
  <2>3. \A h \in signing' : \/ h \in signing
                            \/ h.pc = "update" /\ h.tx \in KnownTo(res'[txs[h.tx].swap])
    BY <1>3, <2>1, <2>2
  <2> QED BY <1>1, <1>2, <1>3, <1>4, <1>6, <2>2, <2>3, DocGoesOn
<1> QED BY <1>5, <1>6 DEF ReswapSign

LEMMA ReswapUpdateOK ==
  ASSUME Inv, NEW g \in signing, ReswapUpdate(g)
  PROVE  Inv'
<1> DEFINE s == txs[g.tx].swap
<1>1. g.tx \in Ids /\ s \in Swaps /\ g.tx \in KnownTo(res[s])
  BY DEF ReswapUpdate, Inv, TypeInv, TrackInv
<1>2. res[s] \in Document /\ res[s].swap = s /\ DocOK(res[s])
  BY <1>1 DEF Inv, TypeInv, DocInv
<1>3. UNCHANGED <<txs, chainVars, reswapQueue, list, loops, stable, consumer>>
  BY DEF ReswapUpdate
<1>4. CASE signing' = signing \ {g} /\ UNCHANGED res
  BY <1>3, <1>4, Reads DEF Inv, TypeInv
<1>5. CASE Advance(g, "send") /\ res' = [res EXCEPT ![s] = Record(@, g.tx)] /\ CanRecord(res[s])
  <2>1. /\ signing' \subseteq [pc : {"sign", "update", "send"}, tx : Ids]
        /\ \A h \in signing' : \E k \in signing : k.tx = h.tx
        /\ \A h \in signing' : h \in signing \/ h.tx = g.tx
    BY <1>5, AdvanceOK
  <2>2. consumer'.pc \in {"idle", "sign", "send"} /\ (consumer'.pc # "idle" => consumer'.tx \in Ids)
    BY <1>3 DEF Inv, TypeInv
  <2> QED BY <1>1, <1>3, <1>5, <2>1, <2>2, RecordOK
<1>6. CASE Advance(g, "send") /\ UNCHANGED res
  <2>1. /\ signing' \subseteq [pc : {"sign", "update", "send"}, tx : Ids]
        /\ \A h \in signing' : \E k \in signing : k.tx = h.tx
        /\ \A h \in signing' : h \in signing \/ h.tx = g.tx
    BY <1>6, AdvanceOK
  <2>2. res' = [res EXCEPT ![s] = res[s]] /\ res' = res
    BY <1>6 DEF Inv, TypeInv
  <2>3. Sending' \subseteq Sending \cup {g.tx}
    BY <1>3, <2>1 DEF Sending, Ids, chainVars
  <2>4. consumer'.pc \in {"idle", "sign", "send"} /\ (consumer'.pc # "idle" => consumer'.tx \in Ids)
    BY <1>3 DEF Inv, TypeInv
  <2> QED BY <1>1, <1>2, <1>3, <2>1, <2>2, <2>3, <2>4, DocStep
<1> QED BY <1>2, <1>4, <1>5, <1>6 DEF ReswapUpdate

-----------------------------------------------------------------------------
(* The theorems *)

LEMMA Initially ==
  ASSUME Init
  PROVE  Inv
<1>1. txs = <<>> /\ mined = <<>> /\ Ids = {} /\ slot \in Nat \ {0}
  BY CardanoAssumption DEF Init, Ids
<1>2. txs \in Seq(Elements(txs)) /\ mined \in Seq(Nat) /\ Len(mined) = Len(txs)
  BY <1>1
<1>3. /\ res \in [Swaps -> Document]
      /\ \A s \in Swaps : /\ res[s].swap = s /\ res[s].swaptx = 0 /\ res[s].old = {}
                          /\ res[s].status = "MatchTxEmpty"
  BY DEF Init, Document, Statuses
<1>4. TypeInv
  BY <1>1, <1>2, <1>3 DEF Init, TypeInv
<1>5. Mined = {} /\ Sending = {}
  BY <1>1 DEF Mined, Sending
<1>6. DocInv /\ SnapInv /\ TrackInv
  BY <1>3, <1>5 DEF Init, DocInv, DocOK, SnapInv, TrackInv
<1> QED BY <1>4, <1>6 DEF Inv

LEMMA Preserved ==
  ASSUME Inv, [Next]_cardanoVars
  PROVE  Inv'
<1>1. CASE \E i \in Ids : Mine(i) \/ Lose(i) \/ LoopSend(i) \/ LoopSee(i)
  BY <1>1, MineOK, LoseOK, LoopSendOK, LoopSeeOK
<1>2. CASE Tick \/ Restart
  BY <1>2, TickOK, RestartOK
<1>3. CASE SwapSign \/ SwapSend \/ StableFind
  BY <1>3, SwapSignOK, SwapSendOK, StableFindOK
<1>4. CASE \E r \in list : StableDispatch(r)
  BY <1>4, StableDispatchOK
<1>5. CASE \E task \in stable : StableLook(task) \/ StableDecide(task)
  BY <1>5, StableLookOK, StableDecideOK
<1>6. CASE \E s \in Swaps : SwapBuild(s) \/ ReswapDispatch(s)
  BY <1>6, SwapBuildOK, ReswapDispatchOK
<1>7. CASE \E r \in reswapQueue : ReswapBuild(r) \/ ReswapDrop(r)
  BY <1>7, ReswapBuildOK, ReswapDropOK
<1>8. CASE \E g \in signing : ReswapSign(g) \/ ReswapUpdate(g) \/ ReswapSend(g)
  BY <1>8, ReswapSignOK, ReswapUpdateOK, ReswapSendOK
<1>9. CASE UNCHANGED cardanoVars
  <2>1. KeepTxs /\ Mined' = Mined /\ Sending' = Sending
    BY <1>9 DEF cardanoVars, chainVars, jobVars, KeepTxs, Ids, Mined, Sending
  <2>2. TypeInv'
    BY <1>9 DEF cardanoVars, chainVars, jobVars, Inv, TypeInv, Ids
  <2> QED BY <1>9, <2>1, <2>2, ReadsStay DEF cardanoVars, jobVars
<1> QED BY <1>1, <1>2, <1>3, <1>4, <1>5, <1>6, <1>7, <1>8, <1>9 DEF Next

LEMMA Invariance == Spec => []Inv
<1>1. Init => Inv
  BY Initially
<1>2. Inv /\ [Next]_cardanoVars => Inv'
  BY Preserved
<1> QED BY <1>1, <1>2, PTL DEF Spec

\* A payout that was ever sent to a node stays known to the document of its swap, whichever
\* of the goroutines of the send loop, the stable job and the reswap job overwrites the hash,
\* across restarts.
THEOREM ReswapTxTrackedHolds == Spec => []ReswapTxTracked
<1>1. Inv => ReswapTxTracked
  <2> SUFFICES ASSUME Inv, NEW i \in pool \cup Mined
               PROVE  i \in {res[txs[i].swap].swaptx} \cup res[txs[i].swap].old
    BY DEF ReswapTxTracked
  <2>1. i \in Sending \cup Mined
    BY DEF Inv, TypeInv, Sending
  <2> QED BY <2>1 DEF Inv, TrackInv, KnownTo
<1> QED BY <1>1, Invariance, PTL

-----------------------------------------------------------------------------
(* Sums over finite sets *)

\* The element a fold takes off a set.
First(set) == CHOOSE x \in set : TRUE
Subsets(S, n) == {set \in SUBSET S : Cardinality(set) <= n}

\* f gives the sums of the values over the sets of at most n elements.
IsSums(S, values, n, f) ==
  f = [set \in Subsets(S, n) |->
         IF set = {} THEN 0 ELSE values[First(set)] + f[set \ {First(set)}]]

\* The sets get smaller.
LEMMA FirstOff ==
  ASSUME NEW S, IsFiniteSet(S), NEW n \in Nat, NEW set \in Subsets(S, n + 1), set # {}
  PROVE  First(set) \in S /\ set \ {First(set)} \in Subsets(S, n)
<1> DEFINE x == First(set)
<1>1. x \in set
  BY DEF First
<1>2. set \in SUBSET S /\ Cardinality(set) <= n + 1
  BY DEF Subsets
<1> HIDE DEF x
<1>3. IsFiniteSet(set)
  BY <1>2, FS_Subset
<1>4. Cardinality(set) \in Nat /\ Cardinality(set \ {x}) = Cardinality(set) - 1
  BY <1>1, <1>3, FS_RemoveElement, FS_CardinalityType
<1>5. set \ {x} \in Subsets(S, n)
  BY <1>2, <1>4 DEF Subsets
<1> QED BY <1>1, <1>2, <1>5 DEF x

\* Up to a number: the least number that breaks the chain would have a predecessor.
LEMMA UpTo ==
  ASSUME NEW n \in Nat, NEW S, 0 \in S, \A k \in 0 .. n : k \in S /\ k < n => k + 1 \in S
  PROVE  n \in S
<1> DEFINE bad == {k \in 0 .. n : k \notin S}
<1> SUFFICES ASSUME n \notin S PROVE FALSE
  OBVIOUS
<1>1. bad \subseteq Nat /\ bad # {}
  OBVIOUS
<1>2. PICK m \in bad : \A k \in bad : ~(<<k, m>> \in OpToRel(<, Nat))
  BY <1>1, WFMin, NatLessThanWellFounded
<1>3. m \in 0 .. n /\ m \notin S /\ m # 0
  BY <1>2
<1>4. m - 1 \in 0 .. n /\ m - 1 < n /\ m - 1 + 1 = m
  BY <1>3
<1>5. m - 1 \in S
  <2>1. <<m - 1, m>> \in OpToRel(<, Nat)
    BY <1>3, <1>4 DEF OpToRel
  <2> QED BY <1>2, <1>4, <2>1
<1> QED BY <1>3, <1>4, <1>5

\* The sums of the subsets of a finite set exist, and are numbers.
LEMMA SumsExist ==
  ASSUME NEW S, IsFiniteSet(S), NEW values, \A k \in S : values[k] \in Nat, NEW n \in Nat
  PROVE  \E f \in [Subsets(S, n) -> Nat] : IsSums(S, values, n, f)
<1> DEFINE Exists(k) == \E f \in [Subsets(S, k) -> Nat] : IsSums(S, values, k, f)
           good == {k \in 0 .. n : Exists(k)}
<1>1. 0 \in good
  <2> DEFINE f == [set \in Subsets(S, 0) |-> 0]
  <2>1. \A set \in Subsets(S, 0) : set = {}
    <3> SUFFICES ASSUME NEW set \in Subsets(S, 0) PROVE set = {}
      OBVIOUS
    <3>1. IsFiniteSet(set) /\ Cardinality(set) <= 0
      BY FS_Subset DEF Subsets
    <3> QED BY <3>1, FS_CardinalityType, FS_EmptySet
  <2>2. f = [set \in Subsets(S, 0) |->
               IF set = {} THEN 0 ELSE values[First(set)] + f[set \ {First(set)}]]
    BY <2>1
  <2>3. f \in [Subsets(S, 0) -> Nat]
    OBVIOUS
  <2> HIDE DEF f
  <2>4. IsSums(S, values, 0, f)
    BY <2>2 DEF IsSums
  <2>5. Exists(0)
    BY <2>3, <2>4
  <2> HIDE DEF Exists
  <2> QED BY <2>5
<1>2. ASSUME NEW k \in 0 .. n, k \in good, k < n PROVE k + 1 \in good
  <2>1. PICK f \in [Subsets(S, k) -> Nat] : IsSums(S, values, k, f)
    BY <1>2
  <2>2. k \in Nat
    OBVIOUS
  <2> DEFINE g == [set \in Subsets(S, k + 1) |->
                     IF set = {} THEN 0 ELSE values[First(set)] + f[set \ {First(set)}]]
  <2>3. ASSUME NEW set \in Subsets(S, k) PROVE g[set] = f[set]
    <3>1. set \in Subsets(S, k + 1)
      <4>1. set \in SUBSET S /\ Cardinality(set) <= k /\ IsFiniteSet(set)
        BY FS_Subset DEF Subsets
      <4>2. Cardinality(set) \in Nat
        BY <4>1, FS_CardinalityType
      <4> QED BY <2>2, <4>1, <4>2 DEF Subsets
    <3> QED BY <2>1, <3>1 DEF IsSums
  <2>4. \A set \in Subsets(S, k + 1) :
          set # {} => First(set) \in S /\ set \ {First(set)} \in Subsets(S, k)
    BY <2>2, FirstOff
  <2>5. g = [set \in Subsets(S, k + 1) |->
               IF set = {} THEN 0 ELSE values[First(set)] + g[set \ {First(set)}]]
    BY <2>3, <2>4
  <2>6. g \in [Subsets(S, k + 1) -> Nat]
    BY <2>4
  <2> HIDE DEF g
  <2>7. IsSums(S, values, k + 1, g)
    BY <2>5 DEF IsSums
  <2>8. Exists(k + 1)
    BY <2>6, <2>7
  <2> HIDE DEF Exists
  <2> QED BY <1>2, <2>8
<1> HIDE DEF good
<1>3. n \in good
  BY <1>1, <1>2, UpTo
<1> HIDE DEF Exists
<1>4. Exists(n)
  BY <1>3 DEF good
<1> QED BY <1>4 DEF Exists

\* Whatever gives them gives numbers.
LEMMA SumsAreNat ==
  ASSUME NEW S, IsFiniteSet(S), NEW values, \A k \in S : values[k] \in Nat, NEW n \in Nat,
         NEW f, IsSums(S, values, n, f)
  PROVE  \A set \in Subsets(S, n) : f[set] \in Nat
<1> DEFINE Numbers(k) == \A set \in Subsets(S, k) : f[set] \in Nat
           good == {k \in 0 .. n : Numbers(k)}
<1>1. \A set \in Subsets(S, n) :
        f[set] = IF set = {} THEN 0 ELSE values[First(set)] + f[set \ {First(set)}]
  BY DEF IsSums
<1>2. ASSUME NEW k \in 0 .. n, NEW set \in Subsets(S, k) PROVE set \in Subsets(S, n)
  <2>1. set \in SUBSET S /\ Cardinality(set) <= k /\ IsFiniteSet(set)
    BY FS_Subset DEF Subsets
  <2>2. Cardinality(set) \in Nat
    BY <2>1, FS_CardinalityType
  <2> QED BY <2>1, <2>2 DEF Subsets
<1>3. 0 \in good
  <2>1. ASSUME NEW set \in Subsets(S, 0) PROVE f[set] \in Nat
    <3>1. IsFiniteSet(set) /\ Cardinality(set) <= 0
      BY FS_Subset DEF Subsets
    <3>2. set = {}
      BY <3>1, FS_CardinalityType, FS_EmptySet
    <3>3. set \in Subsets(S, n)
      BY <1>2, 0 \in 0 .. n
    <3> QED BY <1>1, <3>2, <3>3
  <2>2. Numbers(0)
    BY <2>1
  <2> HIDE DEF Numbers
  <2> QED BY <2>2
<1>4. ASSUME NEW k \in 0 .. n, k \in good, k < n PROVE k + 1 \in good
  <2>1. k \in Nat /\ k + 1 \in 0 .. n /\ \A set \in Subsets(S, k) : f[set] \in Nat
    BY <1>4
  <2>2. ASSUME NEW set \in Subsets(S, k + 1) PROVE f[set] \in Nat
    <3>1. set \in Subsets(S, n)
      BY <1>2, <2>1
    <3>2. CASE set = {}
      <4>1. f[set] = 0
        BY <1>1, <3>1, <3>2, Zenon
      <4> QED BY <4>1
    <3>3. CASE set # {}
      <4>1. First(set) \in S /\ set \ {First(set)} \in Subsets(S, k)
        BY <2>1, <3>3, FirstOff
      <4>2. values[First(set)] \in Nat /\ f[set \ {First(set)}] \in Nat
        BY <2>1, <4>1
      <4>3. f[set] = values[First(set)] + f[set \ {First(set)}]
        BY <1>1, <3>1, <3>3
      <4> QED BY <4>2, <4>3
    <3> QED BY <3>2, <3>3
  <2>3. Numbers(k + 1)
    BY <2>2
  <2> HIDE DEF Numbers
  <2> QED BY <2>1, <2>3
<1> HIDE DEF good
<1>5. n \in good
  BY <1>3, <1>4, UpTo
<1> QED BY <1>5 DEF good

\* The sum of finitely many numbers is a number.
LEMMA SumIsNat ==
  ASSUME NEW values, IsFiniteSet(DOMAIN values), \A k \in DOMAIN values : values[k] \in Nat
  PROVE  SumFunction(values) \in Nat
<1> DEFINE S == DOMAIN values
           n == Cardinality(S)
           iter == CHOOSE f : f = [set \in SUBSET S |->
                     IF set = {} THEN 0 ELSE values[First(set)] + f[set \ {First(set)}]]
<1>1. SumFunction(values) = iter[S]
  BY DEF SumFunction, SumFunctionOnSet, FoldFunctionOnSet, MapThenFoldSet, First
<1>2. n \in Nat
  BY FS_CardinalityType
<1>3. Subsets(S, n) = SUBSET S
  BY FS_Subset DEF Subsets
<1> HIDE DEF n
<1>4. \E f \in [SUBSET S -> Nat] : IsSums(S, values, n, f)
  <2>1. \E f \in [Subsets(S, n) -> Nat] : IsSums(S, values, n, f)
    BY <1>2, SumsExist
  <2> QED BY <1>3, <2>1
<1>5. \E f : f = [set \in SUBSET S |->
                    IF set = {} THEN 0 ELSE values[First(set)] + f[set \ {First(set)}]]
  BY <1>3, <1>4 DEF IsSums
<1>6. iter = [set \in SUBSET S |->
                IF set = {} THEN 0 ELSE values[First(set)] + iter[set \ {First(set)}]]
  BY <1>5, Zenon
<1> HIDE DEF iter
<1>7. IsSums(S, values, n, iter)
  BY <1>3, <1>6 DEF IsSums
<1>8. S \in Subsets(S, n)
  BY <1>3
<1> HIDE DEF S
<1>9. iter[S] \in Nat
  BY <1>2, <1>7, <1>8, SumsAreNat DEF S
<1> QED BY <1>1, <1>9

-----------------------------------------------------------------------------
(* The change of a transaction *)

\* What a payout of the MPC account may spend: the outputs it had and changes of payouts.
Sources == {-u : u \in DOMAIN Utxos} \cup Ids

Coins == [ada : Nat, tok : Nat]

\* A transaction pays with what it spends and mints.
AddsUp(t) ==
  /\ Total(t.ins).ada = t.out.ada + t.change.ada + Fee
  /\ Total(t.ins).tok + t.mint = t.out.tok + t.change.tok

\* The changes are numbers, as what is built on them needs them to be.
ChangeInv ==
  /\ chaining \in Ids \cup {0}
  /\ \A i \in Ids : txs[i].ins \subseteq Sources /\ txs[i].change \in Coins /\ AddsUp(txs[i])

\* An output is an amount of coins.
LEMMA AmountIsCoins ==
  ASSUME TypeInv, ChangeInv, NEW k \in Sources
  PROVE  Amount(k) \in Coins
<1>1. CASE k \in Ids
  <2>1. ~(k < 0)
    BY <1>1 DEF Ids, TypeInv
  <2> QED BY <1>1, <2>1 DEF Amount, ChangeInv
<1>2. CASE k \notin Ids
  <2>1. PICK u \in DOMAIN Utxos : k = -u
    BY <1>2 DEF Sources
  <2>2. Utxos \in Seq(Coins) /\ Len(Utxos) \in Nat
    BY CardanoAssumption DEF Coins
  <2>3. u \in 1 .. Len(Utxos) /\ Utxos[u] \in Coins
    BY <2>1, <2>2
  <2>4. k < 0 /\ -k = u
    BY <2>1, <2>2, <2>3
  <2> QED BY <2>3, <2>4 DEF Amount
<1> QED BY <1>1, <1>2

\* Finitely many outputs add up to an amount of coins.
LEMMA TotalIsCoins ==
  ASSUME TypeInv, ChangeInv, NEW keys \in SUBSET Sources
  PROVE  Total(keys) \in Coins
<1> DEFINE ada == [k \in keys |-> Amount(k).ada]
           tok == [k \in keys |-> Amount(k).tok]
<1>1. IsFiniteSet(keys)
  <2> DEFINE n == Len(Utxos)
  <2>1. n \in Nat /\ Len(txs) \in Nat /\ DOMAIN Utxos = 1 .. n
    BY CardanoAssumption DEF TypeInv
  <2>2. IsFiniteSet((-n) .. Len(txs))
    BY <2>1, FS_Interval
  <2>3. Sources \subseteq (-n) .. Len(txs)
    BY <2>1 DEF Sources, Ids
  <2> QED BY <2>2, <2>3, FS_Subset
<1>2. \A k \in keys : Amount(k).ada \in Nat /\ Amount(k).tok \in Nat
  BY AmountIsCoins DEF Coins
<1>3. DOMAIN ada = keys /\ \A k \in keys : ada[k] \in Nat
  BY <1>2
<1>4. DOMAIN tok = keys /\ \A k \in keys : tok[k] \in Nat
  BY <1>2
<1>5. Total(keys) = [ada |-> SumFunction(ada), tok |-> SumFunction(tok)]
  BY DEF Total
<1> HIDE DEF ada, tok
<1>6. SumFunction(ada) \in Nat /\ SumFunction(tok) \in Nat
  BY <1>1, <1>3, <1>4, SumIsNat
<1> QED BY <1>5, <1>6 DEF Coins

\* A transaction more changes none of the sums.
LEMMA TotalStays ==
  ASSUME TypeInv, KeepTxs, NEW keys \in SUBSET Sources
  PROVE  Total(keys)' = Total(keys)
<1>1. ASSUME NEW k \in keys PROVE Amount(k)' = Amount(k)
  <2>1. CASE k \in Ids
    BY <2>1 DEF Amount, KeepTxs
  <2>2. CASE k \notin Ids
    <3>1. PICK u \in DOMAIN Utxos : k = -u
      BY <2>2 DEF Sources
    <3>2. k < 0
      BY <3>1, CardanoAssumption
    <3> QED BY <3>2 DEF Amount
  <2> QED BY <2>1, <2>2
<1>2. /\ [k \in keys |-> Amount(k).ada]' = [k \in keys |-> Amount(k).ada]
      /\ [k \in keys |-> Amount(k).tok]' = [k \in keys |-> Amount(k).tok]
  BY <1>1
<1> QED BY <1>2 DEF Total

\* What BuildTx builds pays for itself, and its change is not negative: the inputs cover
\* the highest fee, and a shortage of the token is minted.
LEMMA BuiltAddsUp ==
  ASSUME TypeInv, ChangeInv, NEW s \in Swaps, NEW keys \in SUBSET Sources,
         Total(keys).ada > AdaRequired(s)
  PROVE  /\ CreateRawTx(s, keys).ins = keys /\ CreateRawTx(s, keys).change \in Coins
         /\ AddsUp(CreateRawTx(s, keys))
<1> DEFINE ada == Total(keys).ada
           tok == Total(keys).tok
<1>1. ada \in Nat /\ tok \in Nat
  BY TotalIsCoins DEF Coins
<1>2. PaidAda(s) \in Nat /\ PaidTok(s) \in Nat
  BY CardanoAssumption DEF PaidAda, PaidTok
<1>3. ada > MaxFee + FixAdaAmount + PaidAda(s)
  BY DEF AdaRequired
<1> DEFINE t == CreateRawTx(s, keys)
<1>4. /\ t.ins = keys
      /\ t.out = [ada |-> PaidAda(s), tok |-> PaidTok(s)]
      /\ t.change = [ada |-> ada - PaidAda(s) - Fee,
                     tok |-> IF tok > PaidTok(s) THEN tok - PaidTok(s) ELSE 0]
      /\ t.mint = IF tok >= PaidTok(s) THEN 0 ELSE PaidTok(s) - tok
  BY DEF CreateRawTx, buildTxAndAdjustRestAda, genTxBuilder, BuildTx, Minted
<1> HIDE DEF t
<1>5. AddsUp(t) <=>
        /\ ada = PaidAda(s) + (ada - PaidAda(s) - Fee) + Fee
        /\ tok + (IF tok >= PaidTok(s) THEN 0 ELSE PaidTok(s) - tok)
             = PaidTok(s) + (IF tok > PaidTok(s) THEN tok - PaidTok(s) ELSE 0)
  BY <1>4 DEF AddsUp
<1> HIDE DEF ada, tok
<1>6. ada - PaidAda(s) - Fee \in Nat
  BY <1>1, <1>2, <1>3, CardanoAssumption
<1>7. (IF tok > PaidTok(s) THEN tok - PaidTok(s) ELSE 0) \in Nat
  BY <1>1, <1>2
<1>8. t.change \in Coins
  BY <1>4, <1>6, <1>7 DEF Coins
<1>9. AddsUp(t)
  BY <1>1, <1>2, <1>5, CardanoAssumption
<1> QED BY <1>4, <1>8, <1>9 DEF t

\* A transaction that adds up goes on to do so.
LEMMA AddsUpStays ==
  ASSUME TypeInv, KeepTxs, NEW i \in Ids, txs[i].ins \in SUBSET Sources, AddsUp(txs[i])
  PROVE  AddsUp(txs[i])'
<1>1. PICK keys \in SUBSET Sources : keys = txs[i].ins
  OBVIOUS
<1>2. txs'[i] = txs[i] /\ txs'[i].ins = keys
  BY <1>1 DEF KeepTxs
<1>3. Total(keys)' = Total(keys)
  BY TotalStays
<1>4. AddsUp(txs[i])' <=> /\ Total(keys)'.ada = txs'[i].out.ada + txs'[i].change.ada + Fee
                          /\ Total(keys)'.tok + txs'[i].mint = txs'[i].out.tok + txs'[i].change.tok
  BY <1>2 DEF AddsUp, Total
<1> QED BY <1>1, <1>2, <1>3, <1>4 DEF AddsUp

\* A step that builds nothing.
LEMMA ChangeStays ==
  ASSUME TypeInv, ChangeInv, UNCHANGED txs, chaining' \in Ids \cup {0}
  PROVE  ChangeInv'
<1>1. KeepTxs /\ Ids' = Ids /\ Sources' = Sources
  BY DEF KeepTxs, Ids, Sources
<1>2. ASSUME NEW i \in Ids PROVE AddsUp(txs[i])'
  BY <1>1, AddsUpStays DEF ChangeInv
<1> QED BY <1>1, <1>2 DEF ChangeInv

\* A step that builds a transaction.
LEMMA ChangeBuilt ==
  ASSUME Inv, ChangeInv, NEW s \in Swaps, NEW keys, BuildRawTransaction(s, keys),
         UNCHANGED chaining
  PROVE  ChangeInv'
<1> DEFINE t == CreateRawTx(s, keys)
<1>0. PICK new : new = Len(txs) + 1
  OBVIOUS
<1>1. /\ KeepTxs /\ Ids' = Ids \cup {new} /\ txs' = Append(txs, t)
      /\ keys \in Inputs(s) /\ TypeInv
  BY <1>0, Built DEF BuildRawTransaction, Inv
<1>2. keys \in SUBSET Sources /\ Total(keys).ada > AdaRequired(s)
  <2>1. keys \in SUBSET QueryUtxo(s) /\ Total(keys).ada > AdaRequired(s)
    BY <1>1 DEF Inputs
  <2>2. QueryUtxo(s) \subseteq Sources
    BY DEF QueryUtxo, ChainingEnough, OnChain, Mined, ChangeInv, Sources
  <2> QED BY <2>1, <2>2
<1>3. t.ins = keys /\ t.change \in Coins /\ AddsUp(t)
  BY <1>1, <1>2, BuiltAddsUp
<1>4. PICK made : made = t
  OBVIOUS
<1> HIDE DEF t
<1>5. txs'[new] = made
  BY <1>0, <1>1, <1>4, Appended DEF TypeInv
<1>6. Sources' = Sources \cup {new}
  BY <1>1 DEF Sources
<1>7. AddsUp(txs[new])'
  <2>1. Total(keys)' = Total(keys)
    BY <1>1, <1>2, TotalStays
  <2>2. txs'[new].ins = keys
    BY <1>3, <1>4, <1>5
  <2> QED BY <1>3, <1>4, <1>5, <2>1, <2>2 DEF AddsUp, Total
<1>8. ASSUME NEW i \in Ids PROVE AddsUp(txs[i])'
  BY <1>1, AddsUpStays DEF ChangeInv
<1> QED BY <1>1, <1>2, <1>3, <1>4, <1>5, <1>6, <1>7, <1>8 DEF ChangeInv, KeepTxs

\* Only what is sent is built on.
LEMMA SentIsBuiltOn ==
  ASSUME ChangeInv, NEW i \in Ids, SendTransaction(i)
  PROVE  chaining' \in Ids \cup {0}
BY DEF SendTransaction, ChangeInv, cacheVars

\* Every step keeps the changes.
LEMMA ChangePreserved ==
  ASSUME Inv, ChangeInv, [Next]_cardanoVars
  PROVE  ChangeInv'
<1>0. TypeInv
  BY DEF Inv
<1> DEFINE Quietly == UNCHANGED txs /\ chaining' \in Ids \cup {0}
           Builds == \E s \in Swaps : \E keys : BuildRawTransaction(s, keys) /\ UNCHANGED chaining
<1>1. ASSUME NEW i \in Ids, Mine(i) \/ Lose(i) \/ LoopSee(i) PROVE Quietly
  BY <1>1 DEF Mine, Lose, LoopSee, cacheVars, chainVars, ChangeInv
<1>2. ASSUME NEW i \in Ids, LoopSend(i) PROVE Quietly
  BY <1>2, SentIsBuiltOn DEF LoopSend
<1>3. ASSUME Tick \/ Restart PROVE Quietly
  BY <1>3 DEF Tick, Restart, cacheVars, ChangeInv
<1>4. ASSUME SwapSign \/ StableFind PROVE Quietly
  BY <1>4 DEF SwapSign, StableFind, cacheVars, ChangeInv
<1>5. ASSUME SwapSend PROVE Quietly
  <2>1. consumer.tx \in Ids
    BY <1>0, <1>5 DEF SwapSend, TypeInv
  <2> QED BY <1>5, <2>1, SentIsBuiltOn DEF SwapSend
<1>6. ASSUME NEW r \in list, StableDispatch(r) PROVE Quietly
  BY <1>6 DEF StableDispatch, cacheVars, ChangeInv
<1>7. ASSUME NEW task \in stable, StableLook(task) \/ StableDecide(task) PROVE Quietly
  BY <1>7 DEF StableLook, StableDecide, cacheVars, ChangeInv
<1>8. ASSUME NEW s \in Swaps, SwapBuild(s) PROVE Builds
  BY <1>8 DEF SwapBuild, cacheVars
<1>9. ASSUME NEW s \in Swaps, ReswapDispatch(s) PROVE Quietly
  BY <1>9 DEF ReswapDispatch, cacheVars, ChangeInv
<1>10. ASSUME NEW r \in reswapQueue, ReswapBuild(r) PROVE Builds
  <2>1. r.swap \in Swaps
    BY <1>0 DEF TypeInv, Document
  <2> QED BY <1>10, <2>1 DEF ReswapBuild, cacheVars
<1>11. ASSUME NEW r \in reswapQueue, ReswapDrop(r) PROVE Quietly
  BY <1>11 DEF ReswapDrop, cacheVars, ChangeInv
<1>12. ASSUME NEW g \in signing, ReswapSign(g) \/ ReswapUpdate(g) PROVE Quietly
  BY <1>12 DEF ReswapSign, ReswapUpdate, cacheVars, ChangeInv
<1>13. ASSUME NEW g \in signing, ReswapSend(g) PROVE Quietly
  <2>1. g.tx \in Ids
    BY <1>0 DEF TypeInv
  <2> QED BY <1>13, <2>1, SentIsBuiltOn DEF ReswapSend
<1>14. ASSUME UNCHANGED cardanoVars PROVE Quietly
  BY <1>14 DEF cardanoVars, cacheVars, ChangeInv
<1>15. Quietly => ChangeInv'
  BY <1>0, ChangeStays
<1>16. Builds => ChangeInv'
  BY ChangeBuilt
<1> HIDE DEF Quietly, Builds
<1>17. Quietly \/ Builds
  BY <1>1, <1>2, <1>3, <1>4, <1>5, <1>6, <1>7, <1>8, <1>9, <1>10, <1>11, <1>12, <1>13, <1>14
     DEF Next
<1> QED BY <1>15, <1>16, <1>17

\* A payout pays with what it spends and mints, and leaves the change the server builds the
\* next payout on before anything is confirmed: from whatever outputs the loop over a Go map
\* picks, on chain or changes of changes, for any swaps, fees and limits.
THEOREM ChangeIsRealHolds == Spec => []ChangeIsReal
<1>1. Init => ChangeInv
  <2> SUFFICES ASSUME Init PROVE ChangeInv
    OBVIOUS
  <2>1. Ids = {} /\ chaining = 0
    BY DEF Init, Ids
  <2> QED BY <2>1 DEF ChangeInv
<1>2. Inv /\ ChangeInv /\ [Next]_cardanoVars => ChangeInv'
  BY ChangePreserved
<1>3. ChangeInv => ChangeIsReal
  <2> SUFFICES ASSUME ChangeInv, NEW i \in Ids
               PROVE  /\ txs[i].change.ada >= 0 /\ txs[i].change.tok >= 0
                      /\ Total(txs[i].ins).ada = txs[i].out.ada + txs[i].change.ada + Fee
                      /\ Total(txs[i].ins).tok + txs[i].mint = txs[i].out.tok + txs[i].change.tok
    BY DEF ChangeIsReal
  <2>1. txs[i].change \in Coins /\ AddsUp(txs[i])
    BY DEF ChangeInv
  <2> QED BY <2>1 DEF Coins, AddsUp
<1> QED BY <1>1, <1>2, <1>3, Invariance, PTL DEF Spec

=============================================================================
