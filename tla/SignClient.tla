----------------------------- MODULE SignClient -----------------------------
(***************************************************************************)
(* The server's side of a signature (mpc/sign.go) and the lists of usable  *)
(* sign groups it keeps (mpc/init.go).                                     *)
(*                                                                         *)
(* Every chain's swap consumer, every signAndSendTx goroutine and the      *)
(* replace job call DoSign, so calls run concurrently.  They share, per    *)
(* initiator node, the list of usable group indexes (locked, except where  *)
(* checkAndAddSignGroups appends to it) and one map of failure counts      *)
(* (not locked).  The MPC network is external: a ping, a request and a     *)
(* signature succeed or fail, and the r values of a signature are any of   *)
(* RValues.                                                                *)
(***************************************************************************)
EXTENDS Integers, Sequences, FiniteSets, SequencesExt

CONSTANTS
  Initiators,            \* allInitiatorNodes, a sequence
  SignGroups,            \* originSignGroups of every initiator, a sequence of group IDs
  Calls,                 \* calls of DoSign
  ECCalls,               \* the calls with an EC sign type
  RValues,               \* r values the network may produce
  retrySignLoop,         \* rounds over the initiators
  maxSignGroupFailures   \* config, 0 disables the failure counts

ASSUME SignClientAssumption ==
  /\ ECCalls \subseteq Calls
  /\ retrySignLoop \in Nat \ {0}
  /\ maxSignGroupFailures \in Nat
  /\ Initiators \in Seq(Range(Initiators)) /\ Initiators # <<>>
  /\ \A n \in DOMAIN Initiators :
       LET groups == SignGroups[Initiators[n]]
       IN groups \in Seq(Range(groups)) /\ groups # <<>>

VARIABLES
  call,       \* the local variables of every call of DoSign
  usable,     \* usableSignGroupIndexes of every initiator
  failures,   \* signGroupFailuresMap; recent: lastTime is within minIntervalToAddSignGroup
  adder,      \* the local variables of every checkAndAddSignGroups goroutine
  usedR,      \* the collection of used r values
  everFailed  \* groups that failed at least once (history)

signVars == <<call, usable, failures, adder, usedR, everFailed>>

Nodes == Range(Initiators)
Groups == UNION {Range(SignGroups[n]) : n \in Nodes}
Indexes(n) == 1 .. Len(SignGroups[n])

NoGroup == "none"

\* All indexes of the node's groups: setOriginSignGroups, and "reinit to all origins".
OriginIndexes(n) == [i \in Indexes(n) |-> i]

SignInit ==
  /\ call = [k \in Calls |-> [pc |-> "ping", loop |-> 1, node |-> 1, groups |-> <<>>,
                              start |-> 0, at |-> 0, old |-> 0, rsvs |-> {}]]
  /\ usable = [n \in Nodes |-> OriginIndexes(n)]
  /\ failures = [g \in Groups |-> [count |-> 0, recent |-> FALSE]]
  /\ adder = [n \in Nodes |-> [pc |-> "sleep", seen |-> {}, i |-> 1, list |-> <<>>,
                             shared |-> FALSE]]
  /\ usedR = {}
  /\ everFailed = {}

-----------------------------------------------------------------------------
(* DoSign *)

Node(k) == Initiators[call[k].node]
Index(k) == call[k].groups[call[k].at + 1]
Group(k) == SignGroups[Node(k)][Index(k)]

\* The variables of the inner loops, out of scope.
Cleared(c) == [c EXCEPT !.groups = <<>>, !.start = 0, !.at = 0, !.old = 0]

\* The end of an initiator's turn: the next initiator, the next round, or errDoSignFailed.
NextNode(c) ==
  CASE c.node < Len(Initiators) -> [Cleared(c) EXCEPT !.pc = "ping", !.node = @ + 1]
    [] c.node = Len(Initiators) /\ c.loop < retrySignLoop
         -> [Cleared(c) EXCEPT !.pc = "ping", !.node = 1, !.loop = @ + 1]
    [] OTHER -> [Cleared(c) EXCEPT !.pc = "failed"]

\* Mutation: the loop over the groups only stops at the first group.
NextGroup_UntilFirst(c) ==
  LET at == (c.at + 1) % Len(c.groups)
  IN IF at = 0 /\ c.start # 0 THEN NextNode(c) ELSE [c EXCEPT !.pc = "request", !.at = at, !.old = 0]

\* After a failed doSignImpl: the next group in the cycle, until it is back at the start.
NextGroup(c) ==
  LET at == (c.at + 1) % Len(c.groups)
  IN IF at = c.start THEN NextNode(c) ELSE [c EXCEPT !.pc = "request", !.at = at, !.old = 0]

SetCall(k, c) == call' = [call EXCEPT ![k] = c]

\* pingMPCNode, getUsableSignGroupIndexes (a copy) and the random first group.
PingNode(k) ==
  /\ call[k].pc = "ping"
  /\ \/ SetCall(k, NextNode(call[k]))
     \/ /\ usable[Node(k)] # <<>>
        /\ \E i \in 0 .. Len(usable[Node(k)]) - 1 :
             SetCall(k, [call[k] EXCEPT !.pc = "request", !.groups = usable[Node(k)],
                                        !.start = i, !.at = i])
  /\ UNCHANGED <<usable, failures, adder, usedR, everFailed>>

\* GetSignNonce or Sign fails: this is not held against the group.
PostSignFails(k) ==
  /\ call[k].pc = "request"
  /\ SetCall(k, NextGroup(call[k]))
  /\ UNCHANGED <<usable, failures, adder, usedR, everFailed>>

\* getSignResult returns signatures: the group's failures are reset.
GetSignResult(k, rsvs) ==
  /\ call[k].pc = "request"
  /\ rsvs # {}
  /\ failures' = IF maxSignGroupFailures = 0 THEN failures
                 ELSE [failures EXCEPT ![Group(k)] = [count |-> 0, recent |-> TRUE]]
  /\ SetCall(k, [call[k] EXCEPT !.pc = "rvalue", !.rsvs = rsvs])
  /\ UNCHANGED <<usable, adder, usedR, everFailed>>

\* getSignResult ends with a disagreement, a failure or a timeout; the old count is read.
GetSignResultFails(k) ==
  /\ call[k].pc = "request"
  /\ everFailed' = everFailed \cup {Group(k)}
  /\ SetCall(k, IF maxSignGroupFailures = 0 THEN NextGroup(call[k])
                ELSE [call[k] EXCEPT !.pc = "count", !.old = failures[Group(k)].count])
  /\ UNCHANGED <<usable, failures, adder, usedR>>

\* Counts past the maximum are all alike: the model's count stops there.
CountFailure(k) ==
  /\ call[k].pc = "count"
  /\ failures' = [failures EXCEPT ![Group(k)] =
                     [count |-> Min({call[k].old + 1, maxSignGroupFailures}), recent |-> TRUE]]
  /\ SetCall(k, IF call[k].old + 1 >= maxSignGroupFailures
                  THEN [call[k] EXCEPT !.pc = "delete"] ELSE NextGroup(call[k]))
  /\ UNCHANGED <<usable, adder, usedR, everFailed>>

\* Mutation: the index of the group is taken for its place in the list.
DeleteAt_ByIndex(list, i) == RemoveAt(list, IF i > Len(list) THEN Len(list) ELSE i)

\* Where deleteSignGroup's loop finds the index, and the list without it.
DeleteAt(list, i) == RemoveAt(list, SelectInSeq(list, LAMBDA x : x = i))

\* What the removal in place does to a slice of the same array: the elements behind the
\* removed one move, the last of the m elements is there twice.
Shift(slice, p, m) ==
  [x \in DOMAIN slice |-> IF p <= x /\ x < m THEN slice[x + 1] ELSE slice[x]]

\* deleteSignGroup: remove the index from the list; when it is not found and the list is
\* empty, make all groups usable again, in a new array.
DeleteSignGroup(k) ==
  LET n == Node(k)
      i == Index(k)
      list == usable[n]
      p == SelectInSeq(list, LAMBDA x : x = i)
  IN /\ call[k].pc = "delete"
     /\ CASE p > 0 -> /\ usable' = [usable EXCEPT ![n] = DeleteAt(list, i)]
                      /\ adder' = [adder EXCEPT ![n].list =
                                     IF adder[n].shared THEN Shift(@, p, Len(list)) ELSE @]
          [] p = 0 /\ list = <<>> -> /\ usable' = [usable EXCEPT ![n] = OriginIndexes(n)]
                                     /\ adder' = [adder EXCEPT ![n].shared = FALSE]
          [] OTHER -> UNCHANGED <<usable, adder>>
     /\ SetCall(k, NextGroup(call[k]))
     /\ UNCHANGED <<failures, usedR, everFailed>>

\* Mutation: the insertion's error is not looked at.
AddUsedRValues_NoError(k) ==
  /\ usedR' = usedR \cup call[k].rsvs
  /\ SetCall(k, [Cleared(call[k]) EXCEPT !.pc = "done"])

\* AddUsedRValue, for one r after the other: a used one ends the loop and the call goes
\* on with the next group; those before it stay marked as used.
AddUsedRValues(k) ==
  IF call[k].rsvs \cap usedR = {}
    THEN /\ usedR' = usedR \cup call[k].rsvs
         /\ SetCall(k, [Cleared(call[k]) EXCEPT !.pc = "done"])
    ELSE /\ \E before \in SUBSET (call[k].rsvs \ usedR) : usedR' = usedR \cup before
         /\ SetCall(k, [NextGroup(call[k]) EXCEPT !.rsvs = {}])

CheckRValues(k) ==
  /\ call[k].pc = "rvalue"
  /\ IF k \in ECCalls THEN AddUsedRValues(k)
     ELSE SetCall(k, [Cleared(call[k]) EXCEPT !.pc = "done"]) /\ UNCHANGED usedR
  /\ UNCHANGED <<usable, failures, adder, everFailed>>

-----------------------------------------------------------------------------
(* checkAndAddSignGroups, one goroutine per initiator, only when failures are counted *)

AddScan(n) ==
  /\ maxSignGroupFailures > 0
  /\ adder[n].pc = "sleep"
  /\ adder' = [adder EXCEPT ![n] = [@ EXCEPT !.pc = "scan", !.seen = Range(usable[n]), !.i = 1]]
  /\ UNCHANGED <<call, usable, failures, usedR, everFailed>>

\* Mutation: the goroutine ends after one pass over the groups.
NextIndex_OnePass(n, a) ==
  IF a.i < Len(SignGroups[n]) THEN [a EXCEPT !.pc = "scan", !.i = @ + 1]
  ELSE [a EXCEPT !.pc = "ended", !.seen = {}, !.i = 1]

\* The turn of one origin index ends.
NextIndex(n, a) ==
  IF a.i < Len(SignGroups[n]) THEN [a EXCEPT !.pc = "scan", !.i = @ + 1]
  ELSE [a EXCEPT !.pc = "sleep", !.seen = {}, !.i = 1]

AddSkip(n) ==
  /\ adder[n].pc = "scan"
  /\ adder[n].i \in adder[n].seen \/ failures[SignGroups[n][adder[n].i]].recent
  /\ adder' = [adder EXCEPT ![n] = NextIndex(n, @)]
  /\ UNCHANGED <<call, usable, failures, usedR, everFailed>>

\* append reads the slice without the lock ...
AddRead(n) ==
  /\ adder[n].pc = "scan"
  /\ adder[n].i \notin adder[n].seen
  /\ ~failures[SignGroups[n][adder[n].i]].recent
  /\ adder' = [adder EXCEPT ![n] = [@ EXCEPT !.pc = "append", !.list = usable[n],
                                              !.shared = TRUE]]
  /\ UNCHANGED <<call, usable, failures, usedR, everFailed>>

\* ... and writes it back, with the index at its end; then the failures are reset.
AddWrite(n) ==
  /\ adder[n].pc = "append"
  /\ usable' = [usable EXCEPT ![n] = Append(adder[n].list, adder[n].i)]
  /\ adder' = [adder EXCEPT ![n] = [@ EXCEPT !.pc = "zero", !.list = <<>>, !.shared = FALSE]]
  /\ UNCHANGED <<call, failures, usedR, everFailed>>

AddReset(n) ==
  /\ adder[n].pc = "zero"
  /\ failures' = [failures EXCEPT ![SignGroups[n][adder[n].i]] = [count |-> 0, recent |-> TRUE]]
  /\ adder' = [adder EXCEPT ![n] = NextIndex(n, @)]
  /\ UNCHANGED <<call, usable, usedR, everFailed>>

\* minIntervalToAddSignGroup passes since the last failure or success of the group.
IntervalPasses(g) ==
  /\ failures[g].recent
  /\ failures' = [failures EXCEPT ![g].recent = FALSE]
  /\ UNCHANGED <<call, usable, adder, usedR, everFailed>>

-----------------------------------------------------------------------------
CallStep(k) ==
  \/ PingNode(k)
  \/ PostSignFails(k)
  \/ \E rsvs \in SUBSET RValues : GetSignResult(k, rsvs)
  \/ GetSignResultFails(k)
  \/ CountFailure(k)
  \/ DeleteSignGroup(k)
  \/ CheckRValues(k)

AdderStep(n) == AddScan(n) \/ AddSkip(n) \/ AddRead(n) \/ AddWrite(n) \/ AddReset(n)

SignNext ==
  \/ \E k \in Calls : CallStep(k)
  \/ \E n \in Nodes : AdderStep(n)
  \/ \E g \in Groups : IntervalPasses(g)

\* Goroutines are scheduled and time passes: every request ends, in a signature, in a
\* failure or by mpcSignTimeout.
SignSpec ==
  /\ SignInit
  /\ [][SignNext]_signVars
  /\ \A k \in Calls : WF_signVars(CallStep(k))
  /\ \A n \in Nodes : WF_signVars(AdderStep(n))
  /\ \A g \in Groups : WF_signVars(IntervalPasses(g))

-----------------------------------------------------------------------------
(* Properties *)

\* No two EC calls return signatures with the same r value, whatever the network signs
\* and whichever calls run concurrently ("prevent multiple use of same r value").
RValueUsedOnce ==
  \A k1, k2 \in ECCalls :
    k1 # k2 /\ call[k1].pc = "done" /\ call[k2].pc = "done" => call[k1].rsvs \cap call[k2].rsvs = {}

\* A group that never failed stays in the list of usable groups, in spite of the
\* deletions, additions and re-initialisations that race for the list.
HealthyGroupStays ==
  \A n \in Nodes : \A i \in Indexes(n) :
    SignGroups[n][i] \notin everFailed => i \in Range(usable[n])

\* Every call of DoSign returns, with signatures or with an error.
DoSignReturns == \A k \in Calls : <>(call[k].pc \in {"done", "failed"})

\* A list of usable groups that ran empty is filled again: the router does not stay
\* unable to sign.
GroupsComeBack ==
  maxSignGroupFailures > 0 => \A n \in Nodes : usable[n] = <<>> ~> usable[n] # <<>>

-----------------------------------------------------------------------------
(* The instance TLC checks: one initiator node with two sign groups *)

OneInitiator == <<"n1">>
TwoSignGroups == [n1 |-> <<"g1", "g2">>]

=============================================================================
