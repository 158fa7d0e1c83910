----------------------------- MODULE AcceptJob -----------------------------
(***************************************************************************)
(* The accept job of the MPC nodes (worker/accept.go) and the records it   *)
(* keeps of what it agreed to (worker/acceptdb.go).                        *)
(*                                                                         *)
(* The server may ask for any of Requests.  The members of the request's   *)
(* sign group each verify the deposit, build the payout again and answer   *)
(* AGREE or DISAGREE; the MPC network, which is external, signs when all   *)
(* of them agreed.  Behind the server stand these nodes: a payout needs    *)
(* their consent, and their records are what stops a second payout of a    *)
(* swap when the server asks for it.                                       *)
(***************************************************************************)
EXTENDS Integers, FiniteSets

CONSTANTS
  Nodes,                 \* the oracles
  Requests,              \* the sign requests: [id, swap, nonce, reswap, group, kind]
  PendingInvalidAccept,  \* nodes whose config has PendingInvalidAccept
  maxCachedAcceptInfos,  \* bound of cachedAcceptInfos
  WorkerCount,           \* consumers of a node
  FlakyNodes,            \* nodes whose chain gateways may fail
  MaxRequests,           \* bound on the requests the server posts
  MaxNodeCrashes         \* bound on restarts of nodes

ASSUME AcceptAssumption ==
  /\ PendingInvalidAccept \subseteq Nodes
  /\ FlakyNodes \subseteq Nodes
  /\ \A r \in Requests :
       /\ r.group \subseteq Nodes /\ r.group # {}
       /\ r.nonce \in Nat
       /\ r.kind = "aggregate" => r.nonce = 0   \* of chains without account nonces
       /\ r.kind \in {"right", "mismatch", "other_router", "bad_aggregate", "aggregate",
                      "wrong_initiator", "wrong_contract"}

VARIABLES
  status,      \* of every request in the MPC network: none, open, signed, ended
  queue,       \* acceptInfoQueue of every node
  inQueue,     \* acceptInfosInQueue
  cache,       \* cachedAcceptInfos
  running,     \* what the consumers work on: [req, verdict]
  vote,        \* answers the network has, <<node, request, answer>>
  saving,      \* saveAcceptRecord goroutines
  records,     \* the accept database: [req, old], old past allowReswapTimeInterval
  stable,      \* swaps whose deposit is final
  pool,        \* signed transactions sent to the destination chain
  minedOk, minedFail,  \* transactions on chain
  after,       \* payouts of one swap, <<earlier, later>>: the later one was posted when an oracle
               \* it needs had the earlier one on record and saw it sent (history)
  nodeCrashes

nodeVars == <<queue, inQueue, cache, running, saving, records>>
worldVars == <<status, stable, pool, minedOk, minedFail>>
acceptVars == <<nodeVars, vote, worldVars, after, nodeCrashes>>

Swaps == {r.swap : r \in Requests}
OfSwap(s) == {r \in Requests : r.swap = s}

AcceptInit ==
  /\ status = [r \in Requests |-> "none"]
  /\ queue = [n \in Nodes |-> {}]
  /\ inQueue = [n \in Nodes |-> {}]
  /\ cache = [n \in Nodes |-> {}]
  /\ running = [n \in Nodes |-> {}]
  /\ vote = {}
  /\ saving = [n \in Nodes |-> {}]
  /\ records = [n \in Nodes |-> {}]
  /\ stable = {}
  /\ pool = {}
  /\ minedOk = {}
  /\ minedFail = {}
  /\ after = {}
  /\ nodeCrashes = 0

-----------------------------------------------------------------------------
(* The producer *)

Answers(n, r) == {a \in {"AGREE", "DISAGREE"} : <<n, r, a>> \in vote}

\* filterSignInfo: the message context is of this router, or of the aggregation.
filterSignInfo(r) == r.kind # "other_router"

\* GetCurNodeSignInfo lists the node's open requests; startAcceptProducer adds them to the
\* queue.  (The race of its two statements with the consumer is the one of TaskQueue.)
Dispatch(n, r) ==
  /\ status[r] = "open"
  /\ n \in r.group
  /\ Answers(n, r) = {}
  /\ r \notin inQueue[n] \cup cache[n]
  /\ filterSignInfo(r)
  /\ queue' = [queue EXCEPT ![n] = @ \cup {r}]
  /\ inQueue' = [inQueue EXCEPT ![n] = @ \cup {r}]
  /\ UNCHANGED <<cache, running, saving, records, vote, worldVars>>

-----------------------------------------------------------------------------
(* The consumers: processAcceptInfo *)

\* checkAndUpdateCachedAcceptInfoMap: a full cache loses an arbitrary element.
CacheAdd(c, r) ==
  IF Cardinality(c) >= maxCachedAcceptInfos THEN {(c \ {x}) \cup {r} : x \in c} ELSE {c \cup {r}}

\* The transaction can no longer be mined: its nonce is spent.
Spent(r) == \E x \in minedOk \cup minedFail : x.nonce = r.nonce

\* Mutation: a transaction that waits in the pool does not count.
Blocks_OnChainOnly(rec, r) == rec.req \in minedOk

\* A saved record stands against the request: its transaction succeeded, or it was sent and
\* still waits in the pool, with another nonce, and the request is no late enough reswap.
Blocks(rec, r) ==
  \/ rec.req \in minedOk
  \/ /\ rec.req \in pool /\ ~Spent(rec.req)
     /\ ~(r.reswap /\ rec.old)
     /\ rec.req.nonce # r.nonce

\* CheckAcceptRecord, over the records it can look up; only for chains with a nonce.
CheckAcceptRecord(n, r) ==
  {rec \in records[n] : rec.req.swap = r.swap /\ r.nonce > 0 /\ Blocks(rec, r)}

\* verifySignInfo up to the records: initiator, aggregation, earlier payouts.  A failed
\* lookup counts as a transaction that does not exist.
RecordVerdicts(n, r) ==
  CASE r.kind = "wrong_initiator" -> {"config"}
    [] r.kind = "bad_aggregate" -> {"discard"}
    [] r.kind = "aggregate" -> {"ok"}
    [] OTHER -> (IF CheckAcceptRecord(n, r) = {} THEN {} ELSE {"already"})
                \cup (IF CheckAcceptRecord(n, r) = {} \/ n \in FlakyNodes THEN {"verify"} ELSE {})

\* A consumer takes a request, puts it into the cache and looks at its records.
Take(n, r) ==
  /\ r \in queue[n]
  /\ Cardinality(running[n]) < WorkerCount
  /\ queue' = [queue EXCEPT ![n] = @ \ {r}]
  /\ IF r \in cache[n]
       THEN inQueue' = [inQueue EXCEPT ![n] = @ \ {r}] /\ UNCHANGED <<cache, running>>
       ELSE /\ \E c \in CacheAdd(cache[n], r) : cache' = [cache EXCEPT ![n] = c]
            /\ \E v \in RecordVerdicts(n, r) :
                 running' = [running EXCEPT ![n] = @ \cup {[req |-> r, verdict |-> v]}]
            /\ UNCHANGED inQueue
  /\ UNCHANGED <<saving, records, vote, worldVars>>

\* rebuildAndVerifyMsgHash: the deposit is not found, not final or the gateway fails; it
\* went through another contract; it is not what the request pays out.
Verdicts(r) ==
  CASE r.swap \notin stable -> {"cannot_judge"}
    [] r.kind = "wrong_contract" -> {"config"}
    [] r.kind = "mismatch" -> {"mismatch"}
    [] OTHER -> {"ok"}

VerifySignInfo(n, w) ==
  /\ w \in running[n]
  /\ w.verdict = "verify"
  /\ \E v \in Verdicts(w.req) \cup (IF n \in FlakyNodes THEN {"cannot_judge"} ELSE {}) :
       /\ running' = [running EXCEPT ![n] = (@ \ {w}) \cup {[w EXCEPT !.verdict = v]}]
       /\ saving' = IF v = "ok" /\ w.req.nonce > 0
                      THEN [saving EXCEPT ![n] = @ \cup {w.req}] ELSE saving
  /\ UNCHANGED <<queue, inQueue, cache, records, vote, worldVars>>

\* The end of processAcceptInfo; a request that was not processed leaves the cache.
Finish(n, w, processed) ==
  /\ running' = [running EXCEPT ![n] = @ \ {w}]
  /\ cache' = IF processed THEN cache ELSE [cache EXCEPT ![n] = @ \ {w.req}]
  /\ inQueue' = [inQueue EXCEPT ![n] = @ \ {w.req}]
  /\ UNCHANGED <<queue, saving, records, worldVars>>

\* Discarded, or left for a later round.
Discards(n, v) ==
  \/ v = "discard"
  \/ v = "config" /\ n \in PendingInvalidAccept

Ignores(n, v) == v = "cannot_judge" /\ n \in PendingInvalidAccept

Drop(n, w) ==
  /\ w \in running[n]
  /\ \/ Discards(n, w.verdict) /\ Finish(n, w, TRUE)
     \/ Ignores(n, w.verdict) /\ Finish(n, w, FALSE)
  /\ UNCHANGED vote

\* Mutation: what cannot be judged is agreed to.
Answer_UnlessSure(v) == IF v \in {"ok", "cannot_judge"} THEN "AGREE" ELSE "DISAGREE"

Answer(v) == IF v = "ok" THEN "AGREE" ELSE "DISAGREE"

\* DoAcceptSign: the answer arrives and is confirmed; an error does not say whether the
\* answer has arrived.
DoAcceptSign(n, w, arrives, confirmed) ==
  /\ w \in running[n]
  /\ w.verdict # "verify"
  /\ ~Discards(n, w.verdict) /\ ~Ignores(n, w.verdict)
  /\ confirmed => arrives
  /\ vote' = IF arrives /\ status[w.req] = "open" /\ Answers(n, w.req) = {}
               THEN vote \cup {<<n, w.req, Answer(w.verdict)>>} ELSE vote
  /\ Finish(n, w, confirmed)

-----------------------------------------------------------------------------
(* saveAcceptRecord: wait for the signature, then store the transaction *)

SaveAcceptRecord(n, r) ==
  /\ r \in saving[n]
  /\ status[r] = "signed"
  /\ saving' = [saving EXCEPT ![n] = @ \ {r}]
  /\ records' = [records EXCEPT ![n] = {x \in @ : x.req # r} \cup {[req |-> r, old |-> FALSE]}]
  /\ UNCHANGED <<queue, inQueue, cache, running, vote, worldVars>>

\* The goroutine ends without a record: the request failed, or no gateway of the MPC network
\* told it the signature.  Its timer starts after the server's, so it outlives the request.
SaveGivesUp(n, r) ==
  /\ r \in saving[n]
  /\ status[r] \in {"signed", "ended"}
  /\ saving' = [saving EXCEPT ![n] = @ \ {r}]
  /\ UNCHANGED <<queue, inQueue, cache, running, records, vote, worldVars>>

\* allowReswapTimeInterval passes.
RecordsAge ==
  /\ \E n \in Nodes : \E rec \in records[n] : ~rec.old
  /\ records' = [n \in Nodes |-> {[rec EXCEPT !.old = TRUE] : rec \in records[n]}]
  /\ UNCHANGED <<queue, inQueue, cache, running, saving, vote, worldVars>>

\* A node restarts with its database alone.
NodeCrash(n) ==
  /\ nodeCrashes < MaxNodeCrashes
  /\ nodeCrashes' = nodeCrashes + 1
  /\ queue' = [queue EXCEPT ![n] = {}]
  /\ inQueue' = [inQueue EXCEPT ![n] = {}]
  /\ cache' = [cache EXCEPT ![n] = {}]
  /\ running' = [running EXCEPT ![n] = {}]
  /\ saving' = [saving EXCEPT ![n] = {}]
  /\ UNCHANGED <<records, vote, worldVars>>

-----------------------------------------------------------------------------
(* The server, the MPC network and the chains (external) *)

Recorded(n, r) == \E rec \in records[n] : rec.req = r

\* The server posts a request.  Nothing makes it wait for earlier requests of the swap, nor
\* for the goroutines that record them; a reswap is only asked for when the nonces of the
\* transactions it has sent are spent.
Post(r) ==
  /\ status[r] = "none"
  /\ Cardinality({x \in Requests : status[x] # "none"}) < MaxRequests
  /\ r.reswap => \A x \in OfSwap(r.swap) \cap pool : Spent(x)
  /\ status' = [status EXCEPT ![r] = "open"]
  /\ after' = after \cup {<<x, r>> : x \in {y \in OfSwap(r.swap) \cap pool :
                                  \E n \in r.group \ FlakyNodes : Recorded(n, y)}}
  /\ UNCHANGED <<vote, stable, pool, minedOk, minedFail>>

\* The answers to a request are of no use once it has ended.
Sign(r) ==
  /\ status[r] = "open"
  /\ \A n \in r.group : <<n, r, "AGREE">> \in vote
  /\ status' = [status EXCEPT ![r] = "signed"]
  /\ vote' = {v \in vote : v[2] # r}
  /\ UNCHANGED <<stable, pool, minedOk, minedFail, after>>

\* sendSignedTransaction: the server sends what was signed some time later, or never.
Send(r) ==
  /\ status[r] = "signed"
  /\ r.nonce > 0
  /\ r \notin pool
  /\ pool' = pool \cup {r}
  /\ UNCHANGED <<vote, status, stable, minedOk, minedFail, after>>

EndRequest(r) ==
  /\ status[r] = "open"
  /\ status' = [status EXCEPT ![r] = "ended"]
  /\ vote' = {v \in vote : v[2] # r}
  /\ UNCHANGED <<stable, pool, minedOk, minedFail, after>>

Mine(r, ok) ==
  /\ r \in pool
  /\ ~Spent(r)
  /\ minedOk' = IF ok THEN minedOk \cup {r} ELSE minedOk
  /\ minedFail' = IF ok THEN minedFail ELSE minedFail \cup {r}
  /\ UNCHANGED <<vote, status, stable, pool, after>>

Stabilise(s) ==
  /\ s \notin stable
  /\ stable' = stable \cup {s}
  /\ UNCHANGED <<vote, status, pool, minedOk, minedFail, after>>

WorldStep ==
  \/ \E r \in Requests : Post(r) \/ Sign(r) \/ Send(r) \/ EndRequest(r)
  \/ \E r \in pool, ok \in BOOLEAN : Mine(r, ok)
  \/ \E s \in Swaps : Stabilise(s)

NodeStep(n) ==
  \/ \E r \in Requests :
       Dispatch(n, r) \/ Take(n, r) \/ SaveAcceptRecord(n, r) \/ SaveGivesUp(n, r)
  \/ \E w \in running[n] : VerifySignInfo(n, w) \/ Drop(n, w)
  \/ \E w \in running[n], arrives, confirmed \in BOOLEAN : DoAcceptSign(n, w, arrives, confirmed)

AcceptNext ==
  \/ WorldStep /\ UNCHANGED <<nodeVars, nodeCrashes>>
  \/ \E n \in Nodes : NodeStep(n) /\ UNCHANGED <<after, nodeCrashes>>
  \/ RecordsAge /\ UNCHANGED <<after, nodeCrashes>>
  \/ \E n \in Nodes : NodeCrash(n) /\ UNCHANGED after

AcceptSpec == AcceptInit /\ [][AcceptNext]_acceptVars

-----------------------------------------------------------------------------
(* Properties *)

\* A signature exists only for a payout that matches a final deposit of this router, or
\* for a valid aggregation: no error path of processAcceptInfo ends in an agreement.
SignedIsVerified ==
  \A r \in Requests : status[r] = "signed" =>
    r.kind = "aggregate" \/ (r.kind = "right" /\ r.swap \in stable)

\* A payout that is asked for when an oracle of its group has an earlier one of the swap on
\* record and sees it sent never succeeds beside it, whatever the nonces, the groups and
\* the reswap flag, and whether the earlier one is mined before or after that oracle takes
\* the request, looks at its records, restarts and answers.  The code gives no more: an
\* oracle has no record while saveAcceptRecord runs, or when it ends without one, and a
\* transaction that is signed but not sent yet does not stand in CheckAcceptRecord's way.
PayOnce == \A p \in after : ~(p[1] \in minedOk /\ p[2] \in minedOk)

=============================================================================
