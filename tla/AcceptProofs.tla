----------------------------- MODULE AcceptProofs -----------------------------
(***************************************************************************)
(* Proofs about AcceptJob for every set of nodes, sign groups and requests.*)
(*                                                                         *)
(* PayOnce is not inductive.  What carries it is that a record is never    *)
(* lost, that the oracle which had it when the later payout was posted     *)
(* agrees to that payout only if the earlier one can no longer succeed or  *)
(* takes the same nonce, and that neither can change afterwards.           *)
(***************************************************************************)
EXTENDS AcceptJob, TLAPS

AllVerdicts == {"verify", "ok", "config", "discard", "already", "cannot_judge", "mismatch"}
Work == [req : Requests, verdict : AllVerdicts]

TypeInv ==
  /\ status \in [Requests -> {"none", "open", "signed", "ended"}]
  /\ queue \in [Nodes -> SUBSET Requests]
  /\ running \in [Nodes -> SUBSET Work]
  /\ vote \subseteq Nodes \X Requests \X {"AGREE", "DISAGREE"}
  /\ saving \in [Nodes -> SUBSET Requests]
  /\ records \in [Nodes -> SUBSET [req : Requests, old : BOOLEAN]]
  /\ stable \subseteq Swaps

\* Oracles only work on what was asked for, and the network only has answers to requests
\* that are open.
StartedInv ==
  /\ \A n \in Nodes : \A r \in queue[n] : status[r] # "none" /\ filterSignInfo(r)
  /\ \A n \in Nodes : \A w \in running[n] : status[w.req] # "none"
  /\ \A v \in vote : status[v[2]] = "open"

-----------------------------------------------------------------------------
(* What is signed was verified *)

Rightful(r) == r.kind = "aggregate" \/ (r.kind = "right" /\ r.swap \in stable)

RightfulInv ==
  /\ \A n \in Nodes : \A w \in running[n] :
       /\ w.verdict = "verify" => w.req.kind \in {"right", "mismatch", "wrong_contract"}
       /\ w.verdict = "ok" => Rightful(w.req)
  /\ \A v \in vote : v[3] = "AGREE" => Rightful(v[2])
  /\ SignedIsVerified

-----------------------------------------------------------------------------
(* No swap is paid twice *)

\* The oracle is about to agree, or has agreed.
Agrees(n, r) ==
  \/ <<n, r, "AGREE">> \in vote
  \/ \E w \in running[n] : w.req = r /\ w.verdict \in {"verify", "ok"}

\* The first payout cannot succeed any more, or at most one of the two can.
Compatible(x, r) == x.nonce = r.nonce \/ (Spent(x) /\ x \notin minedOk)

\* What was sent is a signed payout, and a nonce is spent once.
MinedInv ==
  /\ \A r \in pool : r \in Requests /\ status[r] = "signed" /\ r.nonce > 0
  /\ minedOk \cup minedFail \subseteq pool
  /\ minedOk \cap minedFail = {}
  /\ \A x, y \in minedOk \cup minedFail : x.nonce = y.nonce => x = y

\* The oracle has the earlier payout on record, and agrees to the later one only if the
\* two cannot both succeed.
Guards(n, x, r) == n \notin FlakyNodes /\ Recorded(n, x) /\ (Agrees(n, r) => Compatible(x, r))

\* The later payout of a pair knows that the nonce of the earlier one is spent when it is a
\* reswap, is guarded by an oracle of its group, and has its consent once it is signed.
AfterOK(x, r) ==
  /\ x \in pool /\ r \in Requests /\ x # r /\ x.swap = r.swap /\ status[r] # "none"
  /\ r.reswap => Spent(x)
  /\ r.nonce > 0 => (\E n \in r.group : Guards(n, x, r))
  /\ r.nonce > 0 /\ status[r] = "signed" => Compatible(x, r)

AfterInv == \A p \in after : AfterOK(p[1], p[2])

PayInv == MinedInv /\ AfterInv

Inv == TypeInv /\ StartedInv /\ RightfulInv /\ PayInv

-----------------------------------------------------------------------------
(* The world: the server, the MPC network and the chains *)

LEMMA PostOK ==
  ASSUME Inv, NEW r \in Requests, Post(r), UNCHANGED <<nodeVars, nodeCrashes>>
  PROVE  Inv'
<1> USE DEF Inv, PayInv
<1>0. /\ status' = [status EXCEPT ![r] = "open"] /\ status[r] = "none"
      /\ UNCHANGED <<queue, running, saving, records, vote, stable, pool, minedOk, minedFail>>
  BY DEF Post, nodeVars
<1>1. TypeInv'
  BY <1>0 DEF TypeInv
<1>2. StartedInv'
  BY <1>0 DEF TypeInv, StartedInv, filterSignInfo, Work
<1>3. RightfulInv'
  BY <1>0 DEF TypeInv, RightfulInv, Rightful, SignedIsVerified
<1>4. MinedInv'
  BY <1>0 DEF TypeInv, MinedInv
<1>5. ASSUME NEW p \in after
      PROVE  AfterOK(p[1], p[2])'
  <2>1. AfterOK(p[1], p[2])
    BY DEF AfterInv
  <2>2. p[2] # r /\ status'[p[2]] = status[p[2]]
    BY <1>0, <2>1 DEF AfterOK, TypeInv
  <2> QED BY <1>0, <2>1, <2>2 DEF AfterOK, Guards, Recorded, Agrees, Compatible, Spent
<1>6. ASSUME NEW x \in OfSwap(r.swap) \cap pool, NEW n \in r.group \ FlakyNodes, Recorded(n, x)
      PROVE  AfterOK(x, r)'
  <2>1. x \in Requests /\ x.swap = r.swap /\ x # r /\ x \in pool
    BY <1>0 DEF OfSwap, MinedInv
  <2>2. (r.reswap => Spent(x)) /\ status'[r] = "open"
    BY <1>0 DEF Post, TypeInv
  <2>3. ~Agrees(n, r)'
    BY <1>0, AcceptAssumption DEF TypeInv, StartedInv, Agrees, Work
  <2>4. Guards(n, x, r)'
    BY <1>0, <1>6, <2>3 DEF Guards, Recorded
  <2> QED BY <1>0, <2>1, <2>2, <2>4 DEF AfterOK, Spent
<1>7. AfterInv'
  <2> SUFFICES ASSUME NEW p \in after', p \notin after PROVE AfterOK(p[1], p[2])'
    BY <1>5 DEF AfterInv
  <2>1. PICK x \in OfSwap(r.swap) \cap pool :
          p = <<x, r>> /\ \E n \in r.group \ FlakyNodes : Recorded(n, x)
    BY DEF Post
  <2> QED BY <1>6, <2>1
<1> QED BY <1>1, <1>2, <1>3, <1>4, <1>7

LEMMA SignOK ==
  ASSUME Inv, NEW r \in Requests, Sign(r), UNCHANGED <<nodeVars, nodeCrashes>>
  PROVE  Inv'
<1> USE DEF Inv, PayInv
<1>0. /\ status' = [status EXCEPT ![r] = "signed"] /\ status[r] = "open"
      /\ \A n \in r.group : <<n, r, "AGREE">> \in vote
      /\ vote' = {v \in vote : v[2] # r}
      /\ UNCHANGED <<queue, running, saving, records, stable, pool, minedOk, minedFail, after>>
  BY DEF Sign, nodeVars
<1>1. TypeInv'
  BY <1>0 DEF TypeInv
<1>2. StartedInv'
  BY <1>0 DEF TypeInv, StartedInv, filterSignInfo, Work
<1>3. RightfulInv'
  <2>1. Rightful(r)
    BY <1>0, AcceptAssumption DEF RightfulInv
  <2> QED BY <1>0, <2>1 DEF TypeInv, RightfulInv, Rightful, SignedIsVerified
<1>4. MinedInv'
  BY <1>0 DEF TypeInv, MinedInv
<1>5. ASSUME NEW p \in after
      PROVE  AfterOK(p[1], p[2])'
  <2>1. AfterOK(p[1], p[2])
    BY DEF AfterInv
  <2>2. \A n, q : Agrees(n, q)' => Agrees(n, q)
    BY <1>0 DEF Agrees
  <2>3. p[2].nonce > 0 => \E n \in p[2].group : Guards(n, p[1], p[2])'
    BY <1>0, <2>1, <2>2 DEF AfterOK, Guards, Recorded, Compatible, Spent
  <2>4. CASE p[2] # r
    <3>1. status'[p[2]] = status[p[2]]
      BY <1>0, <2>1, <2>4 DEF AfterOK, TypeInv
    <3> QED BY <1>0, <2>1, <2>3, <3>1 DEF AfterOK, Compatible, Spent
  <2>5. CASE p[2] = r
    <3>1. r.nonce > 0 => Compatible(p[1], r)
      BY <1>0, <2>1, <2>5 DEF AfterOK, Guards, Agrees
    <3>2. status'[r] = "signed"
      BY <1>0 DEF TypeInv
    <3> QED BY <1>0, <2>1, <2>3, <2>5, <3>1, <3>2 DEF AfterOK, Compatible, Spent
  <2> QED BY <2>4, <2>5
<1> QED BY <1>0, <1>1, <1>2, <1>3, <1>4, <1>5 DEF AfterInv

LEMMA SendOK ==
  ASSUME Inv, NEW r \in Requests, Send(r), UNCHANGED <<nodeVars, nodeCrashes>>
  PROVE  Inv'
<1> USE DEF Inv, PayInv
<1>0. /\ pool' = pool \cup {r} /\ status[r] = "signed" /\ r.nonce > 0
      /\ UNCHANGED <<queue, running, saving, records, vote, status, stable, minedOk, minedFail, after>>
  BY DEF Send, nodeVars
<1>1. TypeInv' /\ StartedInv' /\ RightfulInv' /\ MinedInv'
  BY <1>0 DEF TypeInv, StartedInv, RightfulInv, Rightful, SignedIsVerified, MinedInv, filterSignInfo
<1>2. AfterInv'
  BY <1>0 DEF AfterInv, AfterOK, Guards, Recorded, Agrees, Compatible, Spent
<1> QED BY <1>1, <1>2

LEMMA EndRequestOK ==
  ASSUME Inv, NEW r \in Requests, EndRequest(r), UNCHANGED <<nodeVars, nodeCrashes>>
  PROVE  Inv'
<1> USE DEF Inv, PayInv
<1>0. /\ status' = [status EXCEPT ![r] = "ended"] /\ status[r] = "open"
      /\ vote' = {v \in vote : v[2] # r}
      /\ UNCHANGED <<queue, running, saving, records, stable, pool, minedOk, minedFail, after>>
  BY DEF EndRequest, nodeVars
<1>1. TypeInv'
  BY <1>0 DEF TypeInv
<1>2. StartedInv'
  BY <1>0 DEF TypeInv, StartedInv, filterSignInfo, Work
<1>3. RightfulInv'
  BY <1>0 DEF TypeInv, RightfulInv, Rightful, SignedIsVerified
<1>4. MinedInv'
  BY <1>0 DEF TypeInv, MinedInv
<1>5. ASSUME NEW p \in after
      PROVE  AfterOK(p[1], p[2])'
  <2>1. AfterOK(p[1], p[2])
    BY DEF AfterInv
  <2>2. \A n, q : Agrees(n, q)' => Agrees(n, q)
    BY <1>0 DEF Agrees
  <2>3. status'[p[2]] # "none" /\ (status'[p[2]] = "signed" => status[p[2]] = "signed")
    BY <1>0, <2>1 DEF AfterOK, TypeInv
  <2> QED BY <1>0, <2>1, <2>2, <2>3 DEF AfterOK, Guards, Recorded, Compatible, Spent
<1> QED BY <1>0, <1>1, <1>2, <1>3, <1>4, <1>5 DEF AfterInv

LEMMA MineOK ==
  ASSUME Inv, NEW r \in pool, NEW ok \in BOOLEAN, Mine(r, ok), UNCHANGED <<nodeVars, nodeCrashes>>
  PROVE  Inv'
<1> USE DEF Inv, PayInv
<1>0. /\ ~Spent(r)
      /\ minedOk \subseteq minedOk' /\ minedOk' \subseteq minedOk \cup {r}
      /\ minedFail \subseteq minedFail' /\ minedFail' \subseteq minedFail \cup {r}
      /\ r \notin minedOk' \cap minedFail'
      /\ UNCHANGED <<queue, running, saving, records, vote, status, stable, pool, after>>
  BY DEF Mine, nodeVars, Spent
<1>1. TypeInv'
  BY <1>0 DEF TypeInv
<1>2. StartedInv'
  BY <1>0 DEF StartedInv, filterSignInfo
<1>3. RightfulInv'
  BY <1>0 DEF RightfulInv, Rightful, SignedIsVerified
<1>4. MinedInv'
  BY <1>0 DEF MinedInv, Spent
<1>5. ASSUME NEW x, NEW q
      PROVE  /\ Spent(x) => Spent(x)'
             /\ Compatible(x, q) => Compatible(x, q)'
  BY <1>0 DEF Compatible, Spent
<1>6. AfterInv'
  BY <1>0, <1>5 DEF AfterInv, AfterOK, Guards, Recorded, Agrees
<1> QED BY <1>1, <1>2, <1>3, <1>4, <1>6

LEMMA StabiliseOK ==
  ASSUME Inv, NEW s \in Swaps, Stabilise(s), UNCHANGED <<nodeVars, nodeCrashes>>
  PROVE  Inv'
<1> USE DEF Inv, PayInv
<1>0. /\ stable' = stable \cup {s}
      /\ UNCHANGED <<queue, running, saving, records, vote, status, pool, minedOk, minedFail, after>>
  BY DEF Stabilise, nodeVars
<1>1. TypeInv'
  BY <1>0 DEF TypeInv
<1>2. StartedInv' /\ RightfulInv'
  BY <1>0 DEF StartedInv, filterSignInfo, RightfulInv, Rightful, SignedIsVerified
<1>3. PayInv'
  BY <1>0 DEF MinedInv, AfterInv, AfterOK, Guards, Recorded, Spent, Agrees, Compatible
<1> QED BY <1>1, <1>2, <1>3

-----------------------------------------------------------------------------
(* The oracles *)

\* A step of an oracle keeps the payout's invariants if it loses no record and turns to no
\* payout that its records stand against.
LEMMA WorldKept ==
  ASSUME Inv, UNCHANGED <<worldVars, after>>,
         \A n \in Nodes, x \in Requests : Recorded(n, x) => Recorded(n, x)',
         \A n \in Nodes, r \in Requests : Agrees(n, r)' => Agrees(n, r)
           \/ \A x \in Requests : x.swap = r.swap /\ n \notin FlakyNodes /\ Recorded(n, x) /\ r.nonce > 0
                                  /\ x \in pool /\ (r.reswap => Spent(x)) => Compatible(x, r)
  PROVE  PayInv'
<1> USE DEF Inv, PayInv
<1>1. MinedInv'
  BY DEF worldVars, MinedInv
<1>2. ASSUME NEW p \in after
      PROVE  AfterOK(p[1], p[2])'
  <2>1. AfterOK(p[1], p[2]) /\ p[1] \in Requests /\ p[2] \in Requests
    BY DEF AfterInv, AfterOK, MinedInv
  <2>2. \A x, r : Compatible(x, r) => Compatible(x, r)'
    BY DEF worldVars, Compatible, Spent
  <2>3. ASSUME p[2].nonce > 0
        PROVE  \E n \in p[2].group : Guards(n, p[1], p[2])'
    <3>1. PICK n \in p[2].group : Guards(n, p[1], p[2])
      BY <2>1, <2>3 DEF AfterOK
    <3>2. n \in Nodes
      BY <2>1, AcceptAssumption
    <3>3. Agrees(n, p[2])' => Compatible(p[1], p[2])'
      BY <2>1, <2>2, <2>3, <3>1, <3>2 DEF AfterOK, Guards
    <3> QED BY <2>1, <3>1, <3>2, <3>3 DEF Guards
  <2> QED BY <2>1, <2>2, <2>3 DEF AfterOK, worldVars, Spent
<1> QED BY <1>1, <1>2 DEF AfterInv, worldVars

LEMMA DispatchOK ==
  ASSUME Inv, NEW n \in Nodes, NEW r \in Requests, Dispatch(n, r), UNCHANGED <<after, nodeCrashes>>
  PROVE  Inv'
<1> USE DEF Inv
<1>0. /\ queue' = [queue EXCEPT ![n] = @ \cup {r}] /\ status[r] = "open" /\ filterSignInfo(r)
      /\ UNCHANGED <<running, saving, records, vote, worldVars, after>>
  BY DEF Dispatch
<1>1. TypeInv'
  BY <1>0 DEF TypeInv, worldVars
<1>2. StartedInv'
  BY <1>0 DEF TypeInv, StartedInv, filterSignInfo, worldVars
<1>3. RightfulInv'
  BY <1>0 DEF RightfulInv, Rightful, SignedIsVerified, worldVars
<1>4. PayInv'
  BY <1>0, WorldKept DEF Recorded, Agrees
<1> QED BY <1>1, <1>2, <1>3, <1>4

LEMMA TakeOK ==
  ASSUME Inv, NEW n \in Nodes, NEW r \in Requests, Take(n, r), UNCHANGED <<after, nodeCrashes>>
  PROVE  Inv'
<1> USE DEF Inv
<1>0. /\ queue' = [queue EXCEPT ![n] = @ \ {r}] /\ r \in queue[n]
      /\ UNCHANGED <<saving, records, vote, worldVars, after>>
  BY DEF Take
<1>1. CASE UNCHANGED running
  <2>1. TypeInv' /\ StartedInv'
    BY <1>0, <1>1 DEF TypeInv, StartedInv, worldVars, filterSignInfo
  <2>2. RightfulInv'
    BY <1>0, <1>1 DEF RightfulInv, Rightful, SignedIsVerified, worldVars
  <2>3. PayInv'
    BY <1>0, <1>1, WorldKept DEF Recorded, Agrees
  <2> QED BY <2>1, <2>2, <2>3
<1>2. ASSUME NEW v \in RecordVerdicts(n, r),
             running' = [running EXCEPT ![n] = @ \cup {[req |-> r, verdict |-> v]}]
      PROVE  Inv'
  <2> DEFINE w == [req |-> r, verdict |-> v]
  <2>1. /\ status[r] # "none" /\ filterSignInfo(r)
        /\ \A m \in Nodes : running'[m] = IF m = n THEN running[n] \cup {w} ELSE running[m]
    BY <1>0, <1>2 DEF StartedInv, TypeInv
  <2>2. /\ v \in {"config", "discard", "ok", "already", "verify"}
        /\ v = "ok" => r.kind = "aggregate"
        /\ v = "verify" => r.kind \in {"right", "mismatch", "wrong_contract"}
    BY <1>2, <2>1, AcceptAssumption DEF RecordVerdicts, filterSignInfo
  <2>3. TypeInv'
    BY <1>0, <1>2, <2>2 DEF TypeInv, worldVars, Work, AllVerdicts
  <2>4. StartedInv'
    BY <1>0, <2>1 DEF StartedInv, TypeInv, worldVars, filterSignInfo
  <2>5. RightfulInv'
    BY <1>0, <2>1, <2>2 DEF RightfulInv, Rightful, SignedIsVerified, worldVars
  <2>6. ASSUME NEW m \in Nodes, NEW q \in Requests, Agrees(m, q)', ~Agrees(m, q),
               NEW x \in Requests, x.swap = q.swap, m \notin FlakyNodes, Recorded(m, x),
               q.nonce > 0, x \in pool, q.reswap => Spent(x)
        PROVE  Compatible(x, q)
    <3>1. m = n /\ q = r /\ v \in {"verify", "ok"}
      BY <1>0, <2>1, <2>6 DEF Agrees
    <3>2. v = "verify"
      BY <2>2, <2>6, <3>1, AcceptAssumption
    <3>3. CheckAcceptRecord(n, r) = {}
      BY <1>2, <2>6, <3>1, <3>2 DEF RecordVerdicts
    <3>4. PICK rec \in records[n] : rec.req = x
      BY <2>6, <3>1 DEF Recorded
    <3>5. ~Blocks(rec, r)
      BY <2>6, <3>1, <3>3, <3>4 DEF CheckAcceptRecord
    <3>6. x \notin minedOk /\ (Spent(x) \/ x.nonce = q.nonce)
      BY <2>6, <3>1, <3>4, <3>5 DEF Blocks
    <3> QED BY <3>6 DEF Compatible
  <2>7. PayInv'
    BY <1>0, <2>6, WorldKept DEF Recorded
  <2> QED BY <2>3, <2>4, <2>5, <2>7
<1> QED BY <1>1, <1>2 DEF Take

LEMMA VerifySignInfoOK ==
  ASSUME Inv, NEW n \in Nodes, NEW w \in running[n], VerifySignInfo(n, w),
         UNCHANGED <<after, nodeCrashes>>
  PROVE  Inv'
<1> USE DEF Inv
<1>0. w.verdict = "verify" /\ UNCHANGED <<queue, records, vote, worldVars, after>>
  BY DEF VerifySignInfo
<1>1. PICK v \in Verdicts(w.req) \cup {"cannot_judge"} :
        /\ running' = [running EXCEPT ![n] = (@ \ {w}) \cup {[w EXCEPT !.verdict = v]}]
        /\ saving' = IF v = "ok" /\ w.req.nonce > 0
                       THEN [saving EXCEPT ![n] = @ \cup {w.req}] ELSE saving
  BY DEF VerifySignInfo
<1> DEFINE w2 == [w EXCEPT !.verdict = v]
<1>2. /\ w \in Work /\ w2.req = w.req /\ w2.verdict = v
      /\ v \in {"cannot_judge", "config", "mismatch", "ok"}
      /\ w.req.kind \in {"right", "mismatch", "wrong_contract"}
      /\ v = "ok" => w.req.kind = "right" /\ w.req.swap \in stable
  BY <1>0, <1>1 DEF TypeInv, RightfulInv, Work, Verdicts
<1>3. \A m \in Nodes : running'[m] = IF m = n THEN (running[n] \ {w}) \cup {w2} ELSE running[m]
  BY <1>1 DEF TypeInv
<1>4. TypeInv'
  BY <1>0, <1>1, <1>2 DEF TypeInv, worldVars, Work, AllVerdicts
<1> HIDE DEF w2
<1>5. StartedInv'
  BY <1>0, <1>2, <1>3 DEF StartedInv, worldVars, filterSignInfo
<1>6. RightfulInv'
  BY <1>0, <1>2, <1>3 DEF RightfulInv, Rightful, SignedIsVerified, worldVars
<1>7. \A m \in Nodes : \A r : Agrees(m, r)' => Agrees(m, r)
  BY <1>0, <1>2, <1>3 DEF Agrees
<1>8. PayInv'
  BY <1>0, <1>7, WorldKept DEF Recorded
<1> QED BY <1>4, <1>5, <1>6, <1>8

\* The part of Drop and DoAcceptSign that ends the work on a request.
LEMMA FinishOK ==
  ASSUME Inv, NEW n \in Nodes, NEW w \in running[n], NEW processed, Finish(n, w, processed),
         UNCHANGED <<vote, after>>
  PROVE  Inv'
<1> USE DEF Inv
<1>1. /\ running' = [running EXCEPT ![n] = @ \ {w}]
      /\ UNCHANGED <<queue, saving, records, worldVars>>
      /\ \A m \in Nodes : running'[m] \subseteq running[m]
  BY DEF Finish, TypeInv
<1>2. TypeInv'
  BY <1>1 DEF TypeInv, worldVars
<1>3. StartedInv'
  BY <1>1 DEF StartedInv, worldVars, filterSignInfo
<1>4. RightfulInv'
  BY <1>1 DEF RightfulInv, Rightful, SignedIsVerified, worldVars
<1>5. PayInv'
  BY <1>1, WorldKept DEF Recorded, Agrees
<1> QED BY <1>2, <1>3, <1>4, <1>5

LEMMA DropOK ==
  ASSUME Inv, NEW n \in Nodes, NEW w \in running[n], Drop(n, w), UNCHANGED <<after, nodeCrashes>>
  PROVE  Inv'
BY FinishOK DEF Drop

LEMMA DoAcceptSignOK ==
  ASSUME Inv, NEW n \in Nodes, NEW w \in running[n], NEW arrives, NEW confirmed,
         DoAcceptSign(n, w, arrives, confirmed), UNCHANGED <<after, nodeCrashes>>
  PROVE  Inv'
<1> USE DEF Inv
<1>1. CASE vote' = vote
  BY <1>1, FinishOK DEF DoAcceptSign
<1>2. CASE vote' = vote \cup {<<n, w.req, Answer(w.verdict)>>} /\ status[w.req] = "open"
  <2>1. /\ running' = [running EXCEPT ![n] = @ \ {w}]
        /\ UNCHANGED <<queue, saving, records, worldVars>>
        /\ \A m \in Nodes : running'[m] \subseteq running[m]
        /\ w \in Work
        /\ Answer(w.verdict) = IF w.verdict = "ok" THEN "AGREE" ELSE "DISAGREE"
    BY DEF DoAcceptSign, Finish, TypeInv, Answer
  <2>2. TypeInv'
    BY <1>2, <2>1 DEF TypeInv, worldVars, Work
  <2>3. StartedInv'
    BY <1>2, <2>1 DEF StartedInv, worldVars, filterSignInfo
  <2>4. RightfulInv'
    BY <1>2, <2>1 DEF RightfulInv, Rightful, SignedIsVerified, worldVars
  <2>5. \A m \in Nodes : \A r : Agrees(m, r)' => Agrees(m, r)
    BY <1>2, <2>1 DEF Agrees
  <2>6. PayInv'
    BY <2>1, <2>5, WorldKept DEF Recorded
  <2> QED BY <2>2, <2>3, <2>4, <2>6
<1> QED BY <1>1, <1>2 DEF DoAcceptSign

\* The records of the oracles grow; only their ages and the goroutines change otherwise.
LEMMA RecordsOK ==
  ASSUME Inv, TypeInv', UNCHANGED <<queue, running, vote, worldVars, after>>,
         \A n \in Nodes, r \in Requests : Recorded(n, r) => Recorded(n, r)'
  PROVE  Inv'
<1> USE DEF Inv
<1>1. StartedInv'
  BY DEF StartedInv, worldVars, filterSignInfo
<1>2. RightfulInv'
  BY DEF RightfulInv, Rightful, SignedIsVerified, worldVars
<1>3. PayInv'
  BY WorldKept DEF Agrees
<1> QED BY <1>1, <1>2, <1>3

LEMMA SaveAcceptRecordOK ==
  ASSUME Inv, NEW n \in Nodes, NEW r \in Requests, SaveAcceptRecord(n, r),
         UNCHANGED <<after, nodeCrashes>>
  PROVE  Inv'
<1> USE DEF Inv
<1>1. /\ saving' = [saving EXCEPT ![n] = @ \ {r}]
      /\ records' = [records EXCEPT ![n] =
                       {x \in @ : x.req # r} \cup {[req |-> r, old |-> FALSE]}]
      /\ UNCHANGED <<queue, running, vote, worldVars, after>>
  BY DEF SaveAcceptRecord
<1>2. TypeInv'
  <2>1. {x \in records[n] : x.req # r} \cup {[req |-> r, old |-> FALSE]}
          \in SUBSET [req : Requests, old : BOOLEAN]
    <3>1. records[n] \subseteq [req : Requests, old : BOOLEAN]
      BY DEF TypeInv
    <3>2. [req |-> r, old |-> FALSE] \in [req : Requests, old : BOOLEAN]
      OBVIOUS
    <3> QED BY <3>1, <3>2, Zenon
  <2> QED BY <1>1, <2>1 DEF TypeInv, worldVars
<1>4. Recorded(n, r)'
  <2>1. [req |-> r, old |-> FALSE] \in records'[n]
    BY <1>1 DEF TypeInv
  <2>2. [req |-> r, old |-> FALSE].req = r
    OBVIOUS
  <2> QED BY <2>1, <2>2, Zenon DEF Recorded
<1>3. \A m \in Nodes, q \in Requests : Recorded(m, q) => Recorded(m, q)'
  <2>1. \A m \in Nodes : \A x \in records[m] : x.req # r \/ m # n => x \in records'[m]
    BY <1>1 DEF TypeInv
  <2> QED BY <1>4, <2>1 DEF Recorded
<1> QED BY <1>1, <1>2, <1>3, RecordsOK

LEMMA SaveGivesUpOK ==
  ASSUME Inv, NEW n \in Nodes, NEW r \in Requests, SaveGivesUp(n, r), UNCHANGED <<after, nodeCrashes>>
  PROVE  Inv'
<1> USE DEF Inv
<1>1. /\ saving' = [saving EXCEPT ![n] = @ \ {r}]
      /\ UNCHANGED <<queue, running, records, vote, worldVars, after>>
  BY DEF SaveGivesUp
<1>2. TypeInv'
  BY <1>1 DEF TypeInv, worldVars
<1> QED BY <1>1, <1>2, RecordsOK DEF Recorded

LEMMA RecordsAgeOK ==
  ASSUME Inv, RecordsAge, UNCHANGED <<after, nodeCrashes>>
  PROVE  Inv'
<1> USE DEF Inv
<1>1. /\ records' = [n \in Nodes |-> {[rec EXCEPT !.old = TRUE] : rec \in records[n]}]
      /\ UNCHANGED <<queue, running, saving, vote, worldVars, after>>
  BY DEF RecordsAge
<1>a. \A n \in Nodes : \A rec \in records[n] :
        /\ [rec EXCEPT !.old = TRUE] \in [req : Requests, old : BOOLEAN]
        /\ [rec EXCEPT !.old = TRUE].req = rec.req
  <2> TAKE n \in Nodes
  <2> TAKE rec \in records[n]
  <2>1. rec \in [req : Requests, old : BOOLEAN]
    BY DEF TypeInv
  <2> QED BY <2>1
<1>b. \A n \in Nodes : records'[n] = {[rec EXCEPT !.old = TRUE] : rec \in records[n]}
  BY <1>1
<1>2. TypeInv'
  <2>1. records' \in [Nodes -> SUBSET [req : Requests, old : BOOLEAN]]
    BY <1>1, <1>a, Zenon
  <2> QED BY <1>1, <2>1 DEF TypeInv, worldVars
<1>3. \A n \in Nodes, r \in Requests : Recorded(n, r) => Recorded(n, r)'
  <2>1. \A n \in Nodes : \A rec \in records[n] :
          [rec EXCEPT !.old = TRUE] \in records'[n] /\ [rec EXCEPT !.old = TRUE].req = rec.req
    BY <1>a, <1>b, Zenon
  <2> QED BY <2>1 DEF Recorded
<1> QED BY <1>1, <1>2, <1>3, RecordsOK

LEMMA NodeCrashOK ==
  ASSUME Inv, NEW n \in Nodes, NodeCrash(n), UNCHANGED after
  PROVE  Inv'
<1> USE DEF Inv
<1>1. /\ queue' = [queue EXCEPT ![n] = {}]
      /\ running' = [running EXCEPT ![n] = {}]
      /\ saving' = [saving EXCEPT ![n] = {}]
      /\ UNCHANGED <<records, vote, worldVars, after>>
  BY DEF NodeCrash
<1>2. TypeInv'
  BY <1>1 DEF TypeInv, worldVars
<1>3. StartedInv'
  BY <1>1 DEF TypeInv, StartedInv, worldVars, filterSignInfo
<1>4. RightfulInv'
  BY <1>1 DEF TypeInv, RightfulInv, Rightful, SignedIsVerified, worldVars
<1>5. \A m \in Nodes : \A r : Agrees(m, r)' => Agrees(m, r)
  BY <1>1 DEF Agrees, TypeInv
<1>6. PayInv'
  BY <1>1, <1>5, WorldKept DEF Recorded
<1> QED BY <1>2, <1>3, <1>4, <1>6

-----------------------------------------------------------------------------
(* The theorems *)

\* Every step of the oracles, the server and the network preserves the invariant.
LEMMA StepOK ==
  ASSUME Inv, [AcceptNext]_acceptVars
  PROVE  Inv'
<1>1. CASE UNCHANGED acceptVars
  <2>1. /\ UNCHANGED <<queue, running, saving, vote, worldVars, after>>
        /\ records' = records
    BY <1>1 DEF acceptVars, nodeVars
  <2>2. TypeInv'
    BY <2>1 DEF Inv, TypeInv, worldVars
  <2> QED BY <2>1, <2>2, RecordsOK DEF Recorded
<1>2. CASE WorldStep /\ UNCHANGED <<nodeVars, nodeCrashes>>
  BY <1>2, PostOK, SignOK, SendOK, EndRequestOK, MineOK, StabiliseOK DEF WorldStep
<1>3. ASSUME NEW n \in Nodes, NodeStep(n), UNCHANGED <<after, nodeCrashes>>
      PROVE  Inv'
  BY <1>3, DispatchOK, TakeOK, SaveAcceptRecordOK, SaveGivesUpOK, VerifySignInfoOK, DropOK, DoAcceptSignOK
    DEF NodeStep
<1>4. ASSUME RecordsAge, UNCHANGED <<after, nodeCrashes>>
      PROVE  Inv'
  BY <1>4, RecordsAgeOK
<1>5. ASSUME NEW n \in Nodes, NodeCrash(n), UNCHANGED after
      PROVE  Inv'
  BY <1>5, NodeCrashOK
<1> QED BY <1>1, <1>2, <1>3, <1>4, <1>5 DEF AcceptNext

LEMMA InitOK == AcceptInit => Inv
<1> SUFFICES ASSUME AcceptInit PROVE Inv
  OBVIOUS
<1>1. TypeInv /\ StartedInv /\ RightfulInv
  BY DEF AcceptInit, TypeInv, StartedInv, RightfulInv, SignedIsVerified
<1>2. PayInv
  BY DEF AcceptInit, PayInv, MinedInv, AfterInv
<1> QED BY <1>1, <1>2 DEF Inv

\* The inductive invariant is reached and never left.
LEMMA InvHolds == AcceptSpec => []Inv
BY InitOK, StepOK, PTL DEF AcceptSpec

\* For every set of nodes, groups and requests, what the MPC network signs is a payout of
\* a final deposit that every member of its sign group found to be right, or a valid
\* aggregation: no error path of processAcceptInfo ends in an agreement.
THEOREM SignedIsVerifiedHolds == AcceptSpec => []SignedIsVerified
<1>1. Inv => SignedIsVerified
  BY DEF Inv, RightfulInv
<1> QED BY <1>1, InvHolds, PTL

\* For every set of oracles, sign groups and requests, a payout that is asked for when an
\* oracle of its group has an earlier payout of the swap on record and sees it sent never
\* succeeds beside it, in whatever order the server asks and sends and the oracles verify,
\* answer, save, restart and look at their records.
THEOREM PayOnceHolds == AcceptSpec => []PayOnce
<1>1. Inv => PayOnce
  <2> SUFFICES ASSUME Inv, NEW p \in after, p[1] \in minedOk, p[2] \in minedOk
               PROVE  FALSE
    BY DEF PayOnce
  <2>1. AfterOK(p[1], p[2]) /\ p[2].nonce > 0 /\ status[p[2]] = "signed"
    BY DEF Inv, PayInv, MinedInv, AfterInv
  <2> QED BY <2>1 DEF AfterOK, Compatible, Inv, PayInv, MinedInv
<1> QED BY <1>1, InvHolds, PTL

=============================================================================
